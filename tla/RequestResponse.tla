---------------------------- MODULE RequestResponse ----------------------------
(***************************************************************************)
(* What a client of the web server counts on: on its connection it asks,   *)
(* is answered once, and may ask again; nobody else's request is in the    *)
(* way, and no answer comes unasked.                                       *)
(***************************************************************************)
CONSTANT Sessions

VARIABLES exchange,  \* of each connection: "absent", "idle", "asked", "answering", "gone"
          ended      \* the program

Moves == {<<"absent", "idle">>, <<"idle", "asked">>, <<"idle", "answering">>,
          <<"asked", "answering">>, <<"answering", "idle">>, <<"answering", "gone">>,
          <<"idle", "gone">>}

Init == exchange = [s \in Sessions |-> "absent"] /\ ended = FALSE

(* The program may end of what it did behind its answer. *)
Move(s) == /\ ~ended
           /\ \E m \in Moves : exchange[s] = m[1] /\ exchange' = [exchange EXCEPT ![s] = m[2]]
           /\ ended' \in BOOLEAN

End == ended' = TRUE /\ UNCHANGED exchange

Next == End \/ \E s \in Sessions : Move(s)

Spec == Init /\ [][Next]_<<exchange, ended>>
================================================================================
