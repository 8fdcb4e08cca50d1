------------------------------- MODULE ApiSession -------------------------------
(***************************************************************************)
(* The web server of the program: tcp_listener.h accepts a session for     *)
(* each connection of the browser, http_server.h/.cpp reads a request,     *)
(* hands it to request_handler.h and reads again when a response has been  *)
(* written.  Requests to "/api/" run one by one on the API's strand, the   *)
(* others on the session's own.                                            *)
(***************************************************************************)
EXTENDS ApiHandlers

CONSTANTS
  Sessions,      \* connections of browsers
  Asked,         \* the requests they send
  MaxRequests    \* bound: requests read

ASSUME ApiSessionAssumption == Asked \subseteq Requests /\ MaxRequests \in Nat

VARIABLES
  accepting,   \* an async_accept is pending
  stage,       \* of each session: "absent", "reading", "queued", "running", "sent", "closed"
  request,     \* the request it read last
  reads,       \* async_reads pending on it
  writes,      \* async_writes pending on it
  queue,       \* the API's strand: sessions whose requests wait on it, in order
  requests,    \* bound
  crashed

vars == <<accepting, stage, request, reads, writes, queue, requests, crashed>>

NoRequest == [target |-> "none", method |-> "GET", body |-> "good"]

--------------------------------------------------------------------------------
(* Listener::OnAccept: a session, and the next accept; after an error none. *)
Accept(s) ==
  /\ ~crashed /\ accepting /\ stage[s] = "absent"
  /\ stage' = [stage EXCEPT ![s] = "reading"]
  /\ reads' = [reads EXCEPT ![s] = 1]
  /\ UNCHANGED <<accepting, request, writes, queue, requests, crashed>>

AcceptFails ==
  /\ ~crashed /\ accepting
  /\ accepting' = FALSE
  /\ UNCHANGED <<stage, request, reads, writes, queue, requests, crashed>>

(* Send: an async_write for each response. *)
Write(s, sent) == writes' = [writes EXCEPT ![s] = @ + Len(sent)]

(* Mutant: the next request is read while this one is handled. *)
OnReadAgain(s, r) ==
  /\ ~crashed /\ reads[s] = 1 /\ writes[s] = 0 /\ requests < MaxRequests
  /\ requests' = requests + 1
  /\ request' = [request EXCEPT ![s] = r]
  /\ UNCHANGED <<accepting, reads, crashed>>

(* SessionBase::OnRead of a whole request: HandleRequest answers it at once, *)
(* or logs an exception, or the request goes to the API's strand.  What two *)
(* reads at once do is undefined: they are left there.                      *)
OnRead(s, r) ==
  /\ ~crashed /\ reads[s] = 1 /\ writes[s] = 0 /\ requests < MaxRequests
  /\ requests' = requests + 1
  /\ request' = [request EXCEPT ![s] = r]
  /\ reads' = [reads EXCEPT ![s] = 0]
  /\ UNCHANGED <<accepting, crashed>>

OnReadHere(s, r) ==
  /\ OnRead(s, r)
  /\ CORS(r) \/ ~IsApi(r)
  /\ stage' = [stage EXCEPT ![s] = "sent"]
  /\ \E o \in Outcomes(r) : Write(s, o.sent)
  /\ UNCHANGED queue

(* Mutant: the handlers run where the request was read. *)
DispatchHere(s) == stage' = [stage EXCEPT ![s] = "running"] /\ UNCHANGED queue

Dispatch(s) == /\ stage' = [stage EXCEPT ![s] = "queued"]
               /\ queue' = Append(queue, s)

OnReadApi(s, r) ==
  /\ OnRead(s, r)
  /\ ~CORS(r) /\ IsApi(r)
  /\ Dispatch(s)
  /\ UNCHANGED writes

(* Mutant: the handler that begins stays on the strand. *)
BeginKeeps ==
  /\ ~crashed /\ queue # <<>> /\ \A s \in Sessions : stage[s] # "running"
  /\ stage' = [stage EXCEPT ![Head(queue)] = "running"]
  /\ UNCHANGED <<accepting, request, reads, writes, queue, requests, crashed>>

(* The strand takes the next handler when none runs. *)
Begin ==
  /\ ~crashed /\ queue # <<>> /\ \A s \in Sessions : stage[s] # "running"
  /\ stage' = [stage EXCEPT ![Head(queue)] = "running"]
  /\ queue' = Tail(queue)
  /\ UNCHANGED <<accepting, request, reads, writes, requests, crashed>>

(* The handler ends; an exception of it leaves the strand and is rethrown   *)
(* out of run(), unless it ran inside HandleRequest.                        *)
Handle(s) ==
  /\ ~crashed /\ stage[s] = "running"
  /\ \E o \in Outcomes(request[s]) :
       /\ Write(s, o.sent)
       /\ crashed' \in CASE o.end = "returns" -> {FALSE} [] o.end = "throws" -> BOOLEAN
                         [] OTHER -> {TRUE}
  /\ stage' = [stage EXCEPT ![s] = "sent"]
  /\ UNCHANGED <<accepting, request, reads, queue, requests>>

(* Mutant: the session is not read again. *)
OnWriteForgets(s) ==
  /\ ~crashed /\ writes[s] > 0
  /\ writes' = [writes EXCEPT ![s] = @ - 1]
  /\ stage' = [stage EXCEPT ![s] = "reading"]
  /\ UNCHANGED <<accepting, request, reads, queue, requests, crashed>>

(* SessionBase::OnWrite: the next read. *)
OnWrite(s) ==
  /\ ~crashed /\ writes[s] > 0
  /\ writes' = [writes EXCEPT ![s] = @ - 1]
  /\ reads' = [reads EXCEPT ![s] = @ + 1]
  /\ stage' = [stage EXCEPT ![s] = "reading"]
  /\ UNCHANGED <<accepting, request, queue, requests, crashed>>

(* Mutant: no return after Close. *)
OnWriteLastReads(s) ==
  /\ ~crashed /\ writes[s] > 0
  /\ writes' = [writes EXCEPT ![s] = @ - 1]
  /\ reads' = [reads EXCEPT ![s] = @ + 1]
  /\ stage' = [stage EXCEPT ![s] = "closed"]
  /\ UNCHANGED <<accepting, request, queue, requests, crashed>>

(* The write fails, or the response says the connection ends: Close. *)
OnWriteLast(s) ==
  /\ ~crashed /\ writes[s] > 0
  /\ writes' = [writes EXCEPT ![s] = @ - 1]
  /\ stage' = [stage EXCEPT ![s] = "closed"]
  /\ UNCHANGED <<accepting, request, reads, queue, requests, crashed>>

(* The browser is gone: the read ends with end_of_stream or an error. *)
ReadEnds(s) ==
  /\ ~crashed /\ reads[s] > 0
  /\ reads' = [reads EXCEPT ![s] = @ - 1]
  /\ stage' = [stage EXCEPT ![s] = IF @ = "reading" THEN "closed" ELSE @]
  /\ UNCHANGED <<accepting, request, writes, queue, requests, crashed>>

--------------------------------------------------------------------------------
Init ==
  /\ accepting = TRUE
  /\ stage = [s \in Sessions |-> "absent"]
  /\ request = [s \in Sessions |-> NoRequest]
  /\ reads = [s \in Sessions |-> 0]
  /\ writes = [s \in Sessions |-> 0]
  /\ queue = <<>> /\ requests = 0 /\ crashed = FALSE

Browser == \E s \in Sessions :
  Accept(s) \/ ReadEnds(s) \/ \E r \in Asked : OnReadHere(s, r) \/ OnReadApi(s, r)

Written == \E s \in Sessions : OnWrite(s) \/ OnWriteLast(s)

Next == Browser \/ AcceptFails \/ Begin \/ Written \/ \E s \in Sessions : Handle(s)

Spec == Init /\ [][Next]_vars

(* The workers run the strand, its handlers end (the user closes the        *)
(* dialog of one) and writes end.                                           *)
FairSpec == /\ Spec /\ WF_vars(Begin) /\ WF_vars(\E s \in Sessions : Handle(s))
            /\ \A s \in Sessions : WF_vars(OnWrite(s) \/ OnWriteLast(s))

--------------------------------------------------------------------------------
TypeOK ==
  /\ accepting \in BOOLEAN /\ crashed \in BOOLEAN
  /\ stage \in [Sessions -> {"absent", "reading", "queued", "running", "sent", "closed"}]
  /\ request \in [Sessions -> Asked \cup {NoRequest}]
  /\ reads \in [Sessions -> Nat] /\ writes \in [Sessions -> Nat]
  /\ queue \in Seq(Sessions)
  /\ {queue[i] : i \in DOMAIN queue} = {s \in Sessions : stage[s] = "queued"}
  /\ \A i, j \in DOMAIN queue : queue[i] = queue[j] => i = j
  /\ requests \in 0..MaxRequests

(* Core's settings, lists and the downloader's directory are only touched   *)
(* by one API handler at a time, however many connections ask.              *)
OneHandler ==
  \A s, t \in Sessions : stage[s] = "running" /\ stage[t] = "running" => s = t

(* A connection whose request waits for the strand or is handled has        *)
(* nothing pending, whatever its handlers send: the handler's write, on     *)
(* another thread than the session's, is alone on the stream.               *)
WriteIsAlone ==
  \A s \in Sessions : stage[s] \in {"queued", "running"} => reads[s] + writes[s] = 0

(* Where no request asked has a handler that answers it twice, there is     *)
(* never more than one read or write pending on a connection                *)
(* (http_server.cpp:19-66).                                                 *)
OneOperation == \A s \in Sessions : reads[s] + writes[s] <= 1

(* Handled, and nothing sent: HandleMesureSpeed, or an exception. *)
Unanswered(s) == stage[s] = "sent" /\ writes[s] = 0

(* Then the connections behave as RequestResponse says: answered at most    *)
(* once, in turn, and left waiting when a handler sends nothing.            *)
Exchange(s) ==
  CASE stage[s] = "absent" -> "absent"
    [] stage[s] \in {"queued", "running"} \/ Unanswered(s) -> "asked"
    [] writes[s] > 0 -> "answering"
    [] stage[s] = "reading" -> "idle"
    [] OTHER -> "gone"

Service == INSTANCE RequestResponse WITH
  exchange <- [s \in Sessions |-> Exchange(s)], ended <- crashed

RequestResponseSpec == Service!Spec

(* A request that waits for the strand is handled, behind a dialog too once *)
(* the user has closed it, and when an answer was sent the connection is    *)
(* read again or closed; or the program has ended.                          *)
EveryRequestAnswered ==
  \A s \in Sessions :
    stage[s] = "queued" ~> (reads[s] > 0 \/ stage[s] = "closed" \/ Unanswered(s) \/ crashed)
================================================================================
