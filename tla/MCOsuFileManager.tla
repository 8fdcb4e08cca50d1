--------------------------- MODULE MCOsuFileManager ---------------------------
(* A songs folder of up to three names of one map, of which one is a         *)
(* folder, one name of another map and one that is no map's.                 *)
EXTENDS OsuFileManager

CONSTANTS long, short, same, other, odd

TheNames == {long, short, same, other, odd}
TheFolders == {short}

IdOf == [n \in {long, short, same, other, odd} |->
           CASE n = other -> 2 [] n = odd -> 0 [] OTHER -> 1]

SizeOf == [n \in {long, short, same, other, odd} |-> IF n = long THEN 2 ELSE 1]

TheId == [n \in Names |-> IdOf[n]]
TheSize == [n \in Names |-> SizeOf[n]]
================================================================================
