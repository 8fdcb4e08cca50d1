---------------------------- MODULE RequestBook -----------------------------
(* What the downloader promises the chat: a file it has accepted stays      *)
(* pending until it was delivered, and nothing is delivered that was not    *)
(* accepted.  The threads, the strand, the measurements and the retries of  *)
(* Downloader are not visible here.                                         *)
CONSTANT Files

VARIABLES pending, delivered

Init == pending = {} /\ delivered = {}

Accept(f) ==
  /\ pending' = pending \cup {f}
  /\ UNCHANGED delivered

(* A file asked for once more while it is delivered may stay pending, and a *)
(* file fetched twice is delivered once more after it has left.             *)
Deliver(f) ==
  /\ f \in pending \cup delivered
  /\ delivered' = delivered \cup {f}
  /\ pending' \in {pending, pending \ {f}}

Next == \E f \in Files : Accept(f) \/ Deliver(f)

Spec == Init /\ [][Next]_<<pending, delivered>>
=============================================================================
