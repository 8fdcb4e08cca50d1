--------------------------- MODULE ChannelMembership ---------------------------
(***************************************************************************)
(* What the IRC client promises to the streamer: the channels that the     *)
(* settings page lists (wanted) and the channels whose messages Twitch     *)
(* sends (present).  Twitch forgets everything when the connection is lost; *)
(* what brings it back brings back every wanted channel, never a part.     *)
(***************************************************************************)
CONSTANT Channels

VARIABLES wanted, present

membershipVars == <<wanted, present>>

MembershipInit == wanted = {} /\ present = {}

(* Joined: the command may be lost with the connection, the wish is not. *)
Want(cs) ==
  /\ wanted' = wanted \cup cs
  /\ present' \in {present, present \cup cs}

(* Left, first at Twitch and then in the list. *)
LeaveChannel(c) == present' = present \ {c} /\ UNCHANGED wanted

Forget(c) == wanted' = wanted \ {c} /\ UNCHANGED present

Drop == present' = {} /\ UNCHANGED wanted

Restore == present \cup wanted \subseteq present' /\ UNCHANGED wanted

MembershipNext ==
  \/ \E cs \in SUBSET Channels : Want(cs)
  \/ \E c \in Channels : LeaveChannel(c) \/ Forget(c)
  \/ Drop
  \/ Restore

MembershipSpec == MembershipInit /\ [][MembershipNext]_membershipVars

================================================================================
