---------------------------- MODULE HttpExchange ----------------------------
(* What an HTTP exchange is for the one who started it: it is open until   *)
(* its handler was called once, with success or failure, or until it is    *)
(* closed without a call.  A crash comes instead of the call only when     *)
(* there was no directory to save the file in.                             *)
VARIABLES
  state,   \* "open", "ok", "fail", "closed", "crashed"
  folder   \* does the exchange have what it needs to save the file

Init == state = "open" /\ folder \in BOOLEAN

Answer == state = "open" /\ state' \in {"ok", "fail"}

Close == state = "open" /\ state' = "closed"

Crash == \/ state = "open" /\ ~folder /\ state' = "crashed"
         \/ state \in {"ok", "fail"} /\ state' = "crashed"

Next == (Answer \/ Close \/ Crash) /\ UNCHANGED folder

Spec == Init /\ [][Next]_<<state, folder>>
=============================================================================
