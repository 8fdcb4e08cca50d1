------------------------------ MODULE MCSettings ------------------------------
(* Files in which two or three keys are not absent, chosen from each part. *)
EXTENDS Settings

CONSTANTS d, v

TheDefault == [k \in Kept |-> d]

Nothing == [k \in Keys |-> Absent]

TheFiles ==
  {[Nothing EXCEPT ![k] = x, ![l] = y, !["Resource"] = r[1], !["Prefix"] = r[2]] :
     k \in {"Whitelist", "RolefilterLevel", "JoinedChannels", "ReconnectTimeout"},
     l \in {"MaxFileSize", "DownloadsDirectory"},
     x \in {v, Bad, Absent}, y \in {v, Bad, Absent},
     r \in {<<v, v>>, <<v, Absent>>, <<Absent, v>>, <<v, Bad>>}}
================================================================================
