---------------------------- MODULE HttpDownload ----------------------------
(***************************************************************************)
(* http_client/http_client.h: one exchange of a connected http_domain::    *)
(* Client, from Get to the call of its handler.  SendVisitor writes the    *)
(* request, ReadVisitor reads the headers and then the body, and a timer   *)
(* watches the body and cancels the stream when it makes no progress.      *)
(*                                                                         *)
(* The completion handlers of the body and of the timer are bound to no    *)
(* strand: two workers may run them at the same time as the header handler *)
(* that started both.  The ReadVisitor lives as long as one of them holds  *)
(* it; the wait of its timer does not hold it.                             *)
(***************************************************************************)
EXTENDS Integers

CONSTANTS
  Sizes,      \* Content-Length of an answer, in chunks of its body
  MaxSize,    \* an answer of this size or more is refused
  StallTicks  \* ticks without progress before the stream is cancelled (200)

ASSUME HttpDownloadAssumption ==
  /\ Sizes \subseteq Nat
  /\ MaxSize \in Nat
  /\ StallTicks \in Nat \ {0}

VARIABLES
  speed_mesure_mode,   \* is this a measurement: the body is not saved
  root_directory,      \* did the client get a downloads directory
  stage,               \* what the exchange is doing
  arming,              \* OnReadHeaders has started the read, not yet the timer
  file_size,           \* Content-Length
  body,                \* chunks of the body received
  ec,                  \* how the read of the body ended
  in_downloading,
  timer,               \* downloading_monitoring_timer_
  no_progress_streak,
  last_knowed_progress,
  cancelled,           \* the timer has cancelled the stream
  quiet,               \* history: ticks since a chunk was received
  answer,              \* what the handler was called with
  crashed              \* an exception left ioc.run(), or a null pointer was used

client == <<speed_mesure_mode, root_directory>>
progress == <<no_progress_streak, last_knowed_progress, cancelled, quiet>>
vars == <<speed_mesure_mode, root_directory, stage, arming, file_size, body, ec,
          in_downloading, timer, no_progress_streak, last_knowed_progress,
          cancelled, quiet, answer, crashed>>

-----------------------------------------------------------------------------
HasFolder == root_directory \/ speed_mesure_mode

(* Who holds the visitor: the header handler, the read and its handler.    *)
Held == arming \/ stage \in {"header", "body", "read", "handler"}

(* The timer is a member of the visitor: with it a wait that has not       *)
(* expired is aborted, and the handler of an aborted wait does nothing.    *)
DropTimer == timer' = IF timer = "armed" THEN "off" ELSE timer

(* GetProgress compared with what it was at the last tick.  Of an empty    *)
(* body it is not a number, which differs from itself.                     *)
SameProgress == file_size > 0 /\ body = last_knowed_progress

(* A counter of ticks; values from StallTicks on are not told apart.       *)
OneMore(ticks) == IF ticks < StallTicks THEN ticks + 1 ELSE ticks

-----------------------------------------------------------------------------
(* OnSend: a write error is only logged. *)
SendFailed ==
  /\ ~crashed /\ stage = "send"
  /\ stage' = "over"
  /\ UNCHANGED <<client, progress, arming, file_size, body, ec, in_downloading,
                 timer, answer, crashed>>

(* ReadResponse makes a ReadVisitor, whose constructor throws when a file  *)
(* has no directory to go to; nobody catches it in a completion handler.   *)
ReadResponse ==
  /\ ~crashed /\ stage = "send"
  /\ IF HasFolder
     THEN stage' = "header" /\ crashed' = crashed
     ELSE stage' = "over" /\ crashed' = TRUE
  /\ UNCHANGED <<client, progress, arming, file_size, body, ec, in_downloading,
                 timer, answer>>

(* OnReadHeaders: an error, an answer too big or without Content-Length,   *)
(* a file that cannot be opened.  It is logged, and no handler is called.  *)
HeadersFailed ==
  /\ ~crashed /\ stage = "header"
  /\ stage' = "over"
  /\ UNCHANGED <<client, progress, arming, file_size, body, ec, in_downloading,
                 timer, answer, crashed>>

(* Mutant: the answer is given and the body is read all the same. *)
StatusNotOKReadsOn ==
  /\ ~crashed /\ stage = "header"
  /\ stage' = "body"
  /\ answer' = "fail"
  /\ file_size' \in Sizes
  /\ in_downloading' = TRUE
  /\ arming' = TRUE
  /\ UNCHANGED <<client, progress, body, ec, timer, crashed>>

(* OnReadHeaders: a status that is not OK. *)
StatusNotOK ==
  /\ ~crashed /\ stage = "header"
  /\ stage' = "over"
  /\ answer' = "fail"
  /\ UNCHANGED <<client, progress, arming, file_size, body, ec, in_downloading,
                 timer, crashed>>

(* OnReadHeaders and ReadBody up to async_read: from here on another       *)
(* worker may complete the read.                                           *)
ReadBody(length) ==
  /\ ~crashed /\ stage = "header" /\ length < MaxSize
  /\ stage' = "body"
  /\ file_size' = length
  /\ in_downloading' = TRUE
  /\ arming' = TRUE
  /\ UNCHANGED <<client, progress, body, ec, timer, answer, crashed>>

(* The end of ReadBody starts the timer, and the header handler lets the   *)
(* visitor go.                                                             *)
StartMonitor ==
  /\ ~crashed /\ arming
  /\ arming' = FALSE
  /\ timer' = IF stage = "over" THEN "off" ELSE "armed"
  /\ UNCHANGED <<client, progress, stage, file_size, body, ec, in_downloading,
                 answer, crashed>>

-----------------------------------------------------------------------------
(* The body. *)

Receive ==
  /\ ~crashed /\ stage = "body" /\ body < file_size /\ ~cancelled
  /\ body' = body + 1
  /\ quiet' = 0
  /\ UNCHANGED <<client, arming, stage, file_size, ec, in_downloading, timer,
                 no_progress_streak, last_knowed_progress, cancelled, answer,
                 crashed>>

(* The whole body is there, or the stream was cancelled. *)
ReadEnds ==
  /\ ~crashed /\ stage = "body"
  /\ \/ body = file_size /\ ec' = "none"
     \/ cancelled /\ ec' = "aborted"
  /\ stage' = "read"
  /\ UNCHANGED <<client, progress, arming, file_size, body, in_downloading, timer,
                 answer, crashed>>

(* The connection ends before the body does. *)
ReadBreaks ==
  /\ ~crashed /\ stage = "body" /\ body < file_size /\ ~cancelled
  /\ ec' = "eof"
  /\ stage' = "read"
  /\ UNCHANGED <<client, progress, arming, file_size, body, in_downloading, timer,
                 answer, crashed>>

(* OnReadBody: of all errors only the cancellation is a failure. *)
OnReadBody ==
  /\ ~crashed /\ stage = "read"
  /\ stage' = "handler"
  /\ in_downloading' = FALSE
  /\ answer' = IF ec = "aborted" THEN "fail" ELSE "ok"
  /\ UNCHANGED <<client, progress, arming, file_size, body, ec, timer, crashed>>

(* The handler returns, and the read lets the visitor go. *)
HandlerReturns ==
  /\ ~crashed /\ stage = "handler"
  /\ stage' = "over"
  /\ IF arming THEN UNCHANGED timer ELSE DropTimer
  /\ UNCHANGED <<client, progress, arming, file_size, body, ec, in_downloading,
                 answer, crashed>>

-----------------------------------------------------------------------------
(* The timer. *)

(* The wait is over: its handler is ready to run. *)
Expire ==
  /\ ~crashed /\ timer = "armed"
  /\ timer' = "expired"
  /\ UNCHANGED <<client, progress, arming, stage, file_size, body, ec,
                 in_downloading, answer, crashed>>

(* Mutants: the streak is not reset by progress; the timer is not started  *)
(* again.                                                                  *)
TickKeepsStreak ==
  /\ ~crashed /\ timer = "expired" /\ Held /\ in_downloading
  /\ timer' = "armed"
  /\ no_progress_streak' =
       IF SameProgress THEN OneMore(no_progress_streak) ELSE no_progress_streak
  /\ cancelled' = (cancelled \/ no_progress_streak' = StallTicks)
  /\ last_knowed_progress' = body
  /\ quiet' = OneMore(quiet)
  /\ UNCHANGED <<client, arming, stage, file_size, body, ec, in_downloading, answer,
                 crashed>>

TickOnce ==
  /\ ~crashed /\ timer = "expired" /\ Held /\ in_downloading
  /\ timer' = "off"
  /\ no_progress_streak' = IF SameProgress THEN OneMore(no_progress_streak) ELSE 0
  /\ cancelled' = (cancelled \/ no_progress_streak' = StallTicks)
  /\ last_knowed_progress' = body
  /\ quiet' = OneMore(quiet)
  /\ UNCHANGED <<client, arming, stage, file_size, body, ec, in_downloading, answer,
                 crashed>>

(* The handler of the wait, the visitor being there. *)
Tick ==
  /\ ~crashed /\ timer = "expired" /\ Held /\ in_downloading
  /\ timer' = "armed"
  /\ no_progress_streak' = IF SameProgress THEN OneMore(no_progress_streak) ELSE 0
  /\ cancelled' = (cancelled \/ no_progress_streak' = StallTicks)
  /\ last_knowed_progress' = body
  /\ quiet' = OneMore(quiet)
  /\ UNCHANGED <<client, arming, stage, file_size, body, ec, in_downloading, answer,
                 crashed>>

LastTick ==
  /\ ~crashed /\ timer = "expired" /\ Held /\ ~in_downloading
  /\ timer' = "off"
  /\ UNCHANGED <<client, progress, arming, stage, file_size, body, ec,
                 in_downloading, answer, crashed>>

(* The visitor went after the wait expired: the wait has no error, and the *)
(* null pointer that lock() gives is used.                                 *)
LateTick ==
  /\ ~crashed /\ timer = "expired" /\ ~Held
  /\ crashed' = TRUE
  /\ UNCHANGED <<client, progress, arming, stage, file_size, body, ec,
                 in_downloading, timer, answer>>

-----------------------------------------------------------------------------
Init ==
  /\ speed_mesure_mode \in BOOLEAN
  /\ root_directory \in BOOLEAN
  /\ stage = "send"
  /\ arming = FALSE
  /\ file_size = 0
  /\ body = 0
  /\ ec = "none"
  /\ in_downloading = FALSE
  /\ timer = "off"
  /\ no_progress_streak = 0
  /\ last_knowed_progress = 0
  /\ cancelled = FALSE
  /\ quiet = 0
  /\ answer = "none"
  /\ crashed = FALSE

(* What the workers and the clock do, whatever the server does. *)
Program ==
  \/ StartMonitor \/ ReadEnds \/ OnReadBody \/ HandlerReturns
  \/ Tick \/ LastTick \/ LateTick

Next ==
  \/ SendFailed \/ ReadResponse \/ HeadersFailed \/ StatusNotOK
  \/ \E length \in Sizes : ReadBody(length)
  \/ Receive \/ ReadBreaks
  \/ Expire \/ Program

Spec == Init /\ [][Next]_vars

(* A worker is free again and again, and time passes; nothing is assumed   *)
(* of the server.                                                          *)
Fairness ==
  /\ WF_vars(StartMonitor) /\ WF_vars(ReadEnds)
  /\ WF_vars(OnReadBody) /\ WF_vars(HandlerReturns)
  /\ WF_vars(Expire) /\ WF_vars(Tick) /\ WF_vars(LastTick) /\ WF_vars(LateTick)

FairSpec == Spec /\ Fairness

-----------------------------------------------------------------------------
(* The types of the variables; the body is no longer than announced, and a  *)
(* body that is too big is not read.                                        *)
TypeOK ==
  /\ speed_mesure_mode \in BOOLEAN
  /\ root_directory \in BOOLEAN
  /\ stage \in {"send", "header", "body", "read", "handler", "over"}
  /\ arming \in BOOLEAN
  /\ file_size \in {length \in Sizes : length < MaxSize} \cup {0}
  /\ body \in 0..file_size
  /\ ec \in {"none", "eof", "aborted"}
  /\ in_downloading \in BOOLEAN
  /\ timer \in {"off", "armed", "expired"}
  /\ no_progress_streak \in 0..StallTicks
  /\ last_knowed_progress \in 0..file_size
  /\ cancelled \in BOOLEAN
  /\ quiet \in 0..StallTicks
  /\ answer \in {"none", "ok", "fail"}
  /\ crashed \in BOOLEAN

(* The monitor cancels only a body of which nothing came for StallTicks     *)
(* ticks: a slow download is never taken for a stalled one, whenever its    *)
(* chunks come between the ticks.                                           *)
CancelledOnlyWhenQuiet == cancelled => quiet = StallTicks

(* The exchange as its starter sees it. *)
State ==
  CASE crashed -> "crashed"
    [] ~crashed /\ answer # "none" -> answer
    [] ~crashed /\ answer = "none" /\ stage = "over" -> "closed"
    [] OTHER -> "open"

Exchange == INSTANCE HttpExchange WITH state <- State, folder <- HasFolder

(* The handler is called at most once, never after the exchange was given   *)
(* up, and before the tick that finds the visitor gone.                     *)
ExchangeSpec == Exchange!Spec

(* Once the body has started, the handler is called: a server that stops    *)
(* sending cannot keep the exchange open, whatever order the read, the      *)
(* timer and the header handler run in.                                     *)
BodyAnswered == stage = "body" ~> answer # "none"

=============================================================================
