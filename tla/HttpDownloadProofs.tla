------------------------ MODULE HttpDownloadProofs ------------------------
(* Proofs about HttpDownload for every set of sizes, every size limit and  *)
(* every number of ticks.                                                  *)
EXTENDS HttpDownload, TLAPS

-----------------------------------------------------------------------------
(* The inductive invariant. *)

(* The timer runs, and is about to, only from the body on, and outlives    *)
(* only an exchange that was answered.                                     *)
TimerKnown ==
  arming \/ timer # "off" =>
    /\ stage \notin {"send", "header"}
    /\ stage = "over" => answer # "none"

(* The handler is called when the read is over, and not before. *)
AnswerKnown ==
  /\ stage \in {"send", "header", "body", "read"} => answer = "none"
  /\ stage = "handler" => answer # "none"

DownloadingKnown == in_downloading <=> stage \in {"body", "read"}

(* The streak counts ticks since the last chunk. *)
StreakKnown ==
  /\ last_knowed_progress <= body
  /\ body = last_knowed_progress => no_progress_streak <= quiet
  /\ stage \in {"send", "header"} => body = 0 /\ last_knowed_progress = 0

IInv ==
  /\ TypeOK
  /\ TimerKnown
  /\ AnswerKnown
  /\ DownloadingKnown
  /\ StreakKnown
  /\ CancelledOnlyWhenQuiet

-----------------------------------------------------------------------------
(* A counter of ticks grows by at most one, and keeps the order. *)
LEMMA OneMoreType ==
  ASSUME NEW i \in 0..StallTicks, NEW j \in 0..StallTicks
  PROVE  /\ OneMore(i) \in 0..StallTicks
         /\ i <= j => OneMore(i) <= OneMore(j)
BY HttpDownloadAssumption DEF OneMore

THEOREM IInvInit == Init => IInv
<1> SUFFICES ASSUME Init PROVE IInv OBVIOUS
<1>1. TypeOK
  <2>1. /\ 0 \in 0..0 /\ 0 \in 0..StallTicks
    BY HttpDownloadAssumption
  <2> QED BY <2>1, Zenon DEF Init, TypeOK
<1>2. TimerKnown /\ AnswerKnown /\ StreakKnown /\ CancelledOnlyWhenQuiet
  BY DEF Init, TimerKnown, AnswerKnown, StreakKnown, CancelledOnlyWhenQuiet
<1>3. DownloadingKnown
  BY DEF Init, DownloadingKnown
<1> QED BY <1>1, <1>2, <1>3 DEF IInv

THEOREM IInvStep == IInv /\ [Next]_vars => IInv'
<1> SUFFICES ASSUME IInv, [Next]_vars PROVE IInv' OBVIOUS
<1> USE DEF IInv, TypeOK, TimerKnown, AnswerKnown, DownloadingKnown, StreakKnown,
        CancelledOnlyWhenQuiet, client, progress, vars
<1>1. CASE SendFailed
  BY <1>1 DEF SendFailed
<1>2. CASE ReadResponse
  BY <1>2 DEF ReadResponse
<1>3. CASE HeadersFailed
  BY <1>3 DEF HeadersFailed
<1>4. CASE StatusNotOK
  BY <1>4 DEF StatusNotOK
<1>5. ASSUME NEW length \in Sizes, ReadBody(length)
      PROVE  IInv'
  BY <1>5, HttpDownloadAssumption DEF ReadBody
<1>6. CASE StartMonitor
  BY ZenonT(30), <1>6 DEF StartMonitor
<1>7. CASE Receive
  <2>1. file_size \in Nat
    BY HttpDownloadAssumption
  <2> QED BY <1>7, <2>1, HttpDownloadAssumption DEF Receive
<1>8. CASE ReadEnds \/ ReadBreaks
  BY <1>8 DEF ReadEnds, ReadBreaks
<1>9. CASE OnReadBody
  BY ZenonT(30), <1>9 DEF OnReadBody
<1>10. CASE HandlerReturns
  BY <1>10 DEF HandlerReturns, DropTimer
<1>11. CASE Expire
  BY <1>11 DEF Expire
<1>12. CASE Tick
  <2>1. /\ no_progress_streak' \in 0..StallTicks /\ quiet' \in 0..StallTicks
        /\ no_progress_streak' <= quiet'
    <3>1. quiet' = OneMore(quiet) /\ quiet' \in 0..StallTicks
      BY <1>12, OneMoreType DEF Tick
    <3>2. CASE SameProgress
      BY <1>12, <3>1, <3>2, OneMoreType DEF Tick, SameProgress
    <3>3. CASE ~SameProgress
      BY <1>12, <3>1, <3>3, HttpDownloadAssumption DEF Tick
    <3> QED BY <3>2, <3>3
  <2>2. CancelledOnlyWhenQuiet'
    BY <1>12, <2>1, HttpDownloadAssumption DEF Tick, OneMore
  <2>3. (TypeOK /\ StreakKnown)'
    BY <1>12, <2>1, HttpDownloadAssumption DEF Tick
  <2>4. (TimerKnown /\ AnswerKnown /\ DownloadingKnown)'
    BY <1>12 DEF Tick
  <2> QED BY <2>2, <2>3, <2>4
<1>13. CASE LastTick
  BY <1>13 DEF LastTick
<1>14. CASE LateTick
  BY <1>14 DEF LateTick
<1>15. CASE UNCHANGED vars
  BY <1>15
<1> QED
  BY <1>1, <1>2, <1>3, <1>4, <1>5, <1>6, <1>7, <1>8, <1>9, <1>10, <1>11, <1>12, <1>13,
     <1>14, <1>15
  DEF Next, Program

-----------------------------------------------------------------------------
(* The theorems of the specification. *)

(* The invariant holds in every state. *)
THEOREM Invariance == Spec => []IInv
BY IInvInit, IInvStep, PTL DEF Spec

(* Type correctness, for every size of an answer. *)
THEOREM TypeCorrect == Spec => []TypeOK
<1>1. IInv => TypeOK
  BY DEF IInv
<1> QED BY <1>1, Invariance, PTL

(* No download that makes progress is cancelled, whatever the number of     *)
(* ticks the monitor waits.                                                 *)
THEOREM SlowIsNotStalled == Spec => []CancelledOnlyWhenQuiet
<1>1. IInv => CancelledOnlyWhenQuiet
  BY DEF IInv
<1> QED BY <1>1, Invariance, PTL

(* One step of the exchange is one step of HttpExchange, or none. *)
LEMMA ExchangeStep ==
  ASSUME IInv, [Next]_vars
  PROVE  [Exchange!Next]_<<State, HasFolder>>
<1> USE DEF IInv, TypeOK, TimerKnown, AnswerKnown, client, progress, vars, HasFolder,
        State
<1> USE DEF Exchange!Next, Exchange!Answer, Exchange!Close, Exchange!Crash
<1>1. CASE SendFailed \/ HeadersFailed
  BY <1>1 DEF SendFailed, HeadersFailed
<1>2. CASE ReadResponse
  BY <1>2 DEF ReadResponse
<1>3. CASE StatusNotOK
  BY <1>3 DEF StatusNotOK
<1>4. CASE \E length \in Sizes : ReadBody(length)
  BY <1>4 DEF ReadBody
<1>5. CASE StartMonitor \/ Receive \/ ReadEnds \/ ReadBreaks
  BY <1>5 DEF StartMonitor, Receive, ReadEnds, ReadBreaks
<1>6. CASE OnReadBody
  BY <1>6 DEF OnReadBody
<1>7. CASE HandlerReturns
  BY <1>7 DEF HandlerReturns
<1>8. CASE Expire \/ Tick \/ LastTick
  BY <1>8 DEF Expire, Tick, LastTick
<1>9. CASE LateTick
  BY <1>9 DEF LateTick, Held
<1>10. CASE UNCHANGED vars
  BY <1>10
<1> QED
  BY <1>1, <1>2, <1>3, <1>4, <1>5, <1>6, <1>7, <1>8, <1>9, <1>10 DEF Next, Program

(* The exchange implements HttpExchange: one call of the handler at most,   *)
(* and no crash before it but for a missing directory.                      *)
THEOREM ImplementsHttpExchange == Spec => ExchangeSpec
<1>1. Init => Exchange!Init
  BY DEF Init, Exchange!Init, State, HasFolder
<1>2. IInv /\ [Next]_vars => [Exchange!Next]_<<State, HasFolder>>
  BY ExchangeStep
<1> QED BY <1>1, <1>2, Invariance, PTL DEF Spec, ExchangeSpec, Exchange!Spec
=============================================================================
