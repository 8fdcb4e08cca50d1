------------------------------- MODULE IrcClient -------------------------------
(***************************************************************************)
(* The Twitch client: irc_client.cpp on one connection.h/.cpp connection,  *)
(* with the connection_ and the PONGs of message_handler.cpp.  The streamer *)
(* joins and leaves channels through the API's strand, bytes are read on   *)
(* the read strand, connection_strand_ replaces a lost connection, tells   *)
(* the message handler of the new one and sends the PONGs, and the handler *)
(* of reconnect_timer_, which is bound to no strand, connects: all of them *)
(* run on different workers, and two handlers of the timer may overlap.    *)
(*                                                                         *)
(* A read ends with bytes, or with an error and some bytes ("partial"), or *)
(* with an error alone ("empty"): Errors says which of the two the library *)
(* gives.                                                                  *)
(***************************************************************************)
EXTENDS Naturals, Sequences

CONSTANTS
  Channels,   \* names of Twitch channels
  Connects,   \* how a blocking connect may end: "ok", "failed", "unresolved"
  Errors,     \* how a read that fails may end: "partial", "empty"
  MaxOps,     \* bound: calls of Join and Part
  MaxPings,   \* bound: PINGs that are read
  MaxFaults   \* bound: lost connections

ASSUME IrcClientAssumption ==
  /\ Connects \subseteq {"ok", "failed", "unresolved"}
  /\ Errors \subseteq {"partial", "empty"}
  /\ MaxOps \in Nat /\ MaxPings \in Nat /\ MaxFaults \in Nat

VARIABLES
  connection,           \* which connection_ is: how often Reconnect has replaced it
  connected,            \* its ssl_connected_: never reset
  link,                 \* the network below it: "none", "up", "lost"
  reconnect_required,   \* its reconnect_required_
  reader,               \* the read: "none", "pending", "posted" to OnRead
  timer,                \* the wait of reconnect_timer_: "off", "waiting"
  handlers,             \* how many handlers of the timer are at each stage
  handler_connection,   \* which connection_ of the message handler is
  strand_queue,         \* connection_strand_: the job that runs, those that wait
  pings,                \* PINGs in batches posted and not handled yet
  last_read_incomplete_message,  \* a half line of "this" connection, an "old" one, "none"
  joined_channels,
  join_command_buffer,  \* the optional command: has_value and its channels
  call,                 \* the call of Join or Part under way, [op, channels]
  server_channels,      \* external: the channels Twitch has the client in
  ops, asked, faults,   \* bounds: calls, PINGs, losses so far
  running,              \* Start has returned
  crashed               \* an exception left ioc.run() or main

user == <<joined_channels, join_command_buffer, call, ops>>
reading == <<reader, reconnect_required, last_read_incomplete_message>>
recovery == <<timer, handlers>>
answering == <<handler_connection, pings, asked>>
network == <<connection, connected, link, server_channels, faults>>
vars == <<connection, connected, link, reconnect_required, reader, timer, handlers,
          handler_connection, strand_queue, pings, last_read_incomplete_message,
          joined_channels, join_command_buffer, call, server_channels, ops, asked,
          faults, running, crashed>>

--------------------------------------------------------------------------------
Live == running /\ ~crashed

NoCall == [op |-> "none", channels |-> {}]

(* Mutant: the overload of net::write that throws instead of setting ec_. *)
WriteThrowsWhenLost == ~connected \/ link = "lost"

(* Connection::Write: throws without a connection.  On a lost one the error *)
(* is logged and the call goes on as if the command were sent.             *)
WriteThrows == ~connected

(* What Twitch knows after a command that adds or removes channels. *)
Sent(after) == server_channels' = IF link = "up" THEN after ELSE server_channels

(* An exception in a handler of the API's strand: io_context rethrows it   *)
(* out of run(), unless the dispatch ran inline and HandleRequest caught it. *)
ApiThrows == call' = NoCall /\ crashed' \in BOOLEAN

Buffer(has_value, cs) == [has_value |-> has_value, channels |-> cs]

(* Mutant: the buffer is replaced, not extended. *)
OnlyLastCommand(cs) == Buffer(TRUE, cs)

AddJoinCommandToBuffer(cs) == Buffer(TRUE, join_command_buffer.channels \cup cs)

(* The handler of the timer: before the end of the blocking Connect, before *)
(* the read, and behind it, where CapRequest and Join() are left.          *)
Stages == {"connecting", "resuming", "joining"}

Moves(from, to) == handlers' = [handlers EXCEPT ![from] = @ - 1, ![to] = @ + 1]
Ends(at) == handlers' = [handlers EXCEPT ![at] = @ - 1]

(* net::dispatch on connection_strand_: its jobs run one by one, in order.  *)
(* The head of the queue is the job that runs or that a worker takes next. *)
Job(job, n) == [job |-> job, connection |-> n]
Dispatch(job) == strand_queue' = Append(strand_queue, job)
Runs(job) == Live /\ strand_queue # <<>> /\ Head(strand_queue).job = job

--------------------------------------------------------------------------------
(* Core::Start in main, before the workers: Connect, Authorize, CapRequest, *)
(* Read.  Only a connect that succeeded leaves a connection to write to.   *)
Start ==
  /\ ~running /\ ~crashed
  /\ running' = TRUE
  /\ \/ /\ "ok" \in Connects
        /\ connected' = TRUE /\ link' = "up" /\ reader' = "pending"
        /\ UNCHANGED crashed
     \/ /\ Connects # {"ok"}
        /\ crashed' = TRUE
        /\ UNCHANGED <<connected, link, reader>>
  /\ UNCHANGED <<user, recovery, answering, strand_queue, connection, server_channels,
                 faults, reconnect_required, last_read_incomplete_message>>

(* Join of one channel by the streamer, or of the list in the settings: the *)
(* buffer first, then a blocking write, then the list.                     *)
JoinBegin(cs) ==
  /\ Live /\ call = NoCall /\ ops < MaxOps
  /\ ops' = ops + 1
  /\ join_command_buffer' = AddJoinCommandToBuffer(cs)
  /\ call' = [op |-> "join", channels |-> cs]
  /\ UNCHANGED <<network, reading, recovery, answering, strand_queue, joined_channels,
                 running, crashed>>

JoinEnd ==
  /\ Live /\ call.op = "join"
  /\ IF WriteThrows
     THEN ApiThrows /\ UNCHANGED <<joined_channels, server_channels>>
     ELSE /\ Sent(server_channels \cup call.channels)
          /\ joined_channels' = joined_channels \cup call.channels
          /\ call' = NoCall
          /\ UNCHANGED crashed
  /\ UNCHANGED <<connection, connected, link, faults, reading, recovery, answering,
                 strand_queue, join_command_buffer, ops, running>>

(* Part: the write, then the list; the buffer keeps the channel. *)
PartBegin(c) ==
  /\ Live /\ call = NoCall /\ ops < MaxOps
  /\ ops' = ops + 1
  /\ IF WriteThrows
     THEN ApiThrows /\ UNCHANGED server_channels
     ELSE /\ Sent(server_channels \ {c})
          /\ call' = [op |-> "part", channels |-> {c}]
          /\ UNCHANGED crashed
  /\ UNCHANGED <<connection, connected, link, faults, reading, recovery, answering,
                 strand_queue, joined_channels, join_command_buffer, running>>

PartEnd ==
  /\ Live /\ call.op = "part"
  /\ joined_channels' = joined_channels \ call.channels
  /\ call' = NoCall
  /\ UNCHANGED <<network, reading, recovery, answering, strand_queue,
                 join_command_buffer, ops, running, crashed>>

--------------------------------------------------------------------------------
(* External: the connection is lost, and Twitch forgets the client. *)
LinkLost ==
  /\ Live /\ link = "up" /\ faults < MaxFaults
  /\ link' = "lost"
  /\ server_channels' = {}
  /\ faults' = faults + 1
  /\ UNCHANGED <<connection, connected, reading, recovery, answering, strand_queue,
                 user, running, crashed>>

(* async_read completes with bytes: AsyncReadVisitor posts them to OnRead. *)
ReadBytes ==
  /\ Live /\ reader = "pending" /\ link = "up"
  /\ reader' = "posted"
  /\ UNCHANGED <<network, recovery, answering, strand_queue, user, reconnect_required,
                 last_read_incomplete_message, running, crashed>>

(* It completes with an error: with some bytes a reconnect is required,    *)
(* with none the error is logged and nobody reads again.                   *)
ReadFails(error) ==
  /\ Live /\ reader = "pending" /\ link = "lost"
  /\ \/ error = "partial" /\ reader' = "posted" /\ reconnect_required' = TRUE
     \/ error = "empty" /\ reader' = "none" /\ UNCHANGED reconnect_required
  /\ UNCHANGED <<network, recovery, answering, strand_queue, user,
                 last_read_incomplete_message, running, crashed>>

(* The batch of a read is posted to the message handler, with a PING in it *)
(* or without.                                                             *)
PostMessages ==
  \/ UNCHANGED <<pings, asked>>
  \/ /\ asked < MaxPings
     /\ asked' = asked + 1
     /\ pings' = pings \cup {[ping |-> asked, connection |-> connection]}

(* Mutant: OnRead without the else. *)
OnReadTwice ==
  /\ Live /\ reader = "posted"
  /\ last_read_incomplete_message' \in {"none", "this"}
  /\ PostMessages
  /\ reconnect_required' = FALSE
  /\ reader' = "pending"
  /\ IF reconnect_required
     THEN Dispatch(Job("Reconnect", connection))
     ELSE UNCHANGED strand_queue
  /\ UNCHANGED <<network, user, recovery, handler_connection, running, crashed>>

(* Mutant: the required reconnect is only noted. *)
OnReadNoReconnect ==
  /\ Live /\ reader = "posted"
  /\ last_read_incomplete_message' \in {"none", "this"}
  /\ PostMessages
  /\ reconnect_required' = FALSE
  /\ reader' = IF reconnect_required THEN "none" ELSE "pending"
  /\ UNCHANGED <<network, user, recovery, handler_connection, strand_queue, running,
                 crashed>>

(* Client::OnRead: the bytes may end inside a line; then Reconnect on the  *)
(* connection strand, or the next read.                                    *)
OnRead ==
  /\ Live /\ reader = "posted"
  /\ last_read_incomplete_message' \in {"none", "this"}
  /\ PostMessages
  /\ IF reconnect_required
     THEN /\ reconnect_required' = FALSE /\ reader' = "none"
          /\ Dispatch(Job("Reconnect", connection))
     ELSE /\ reader' = "pending"
          /\ UNCHANGED <<reconnect_required, strand_queue>>
  /\ UNCHANGED <<network, user, recovery, handler_connection, running, crashed>>

(* The message handler comes to a PING of its batch. *)
HandlePing(p) ==
  /\ Live /\ p \in pings
  /\ pings' = pings \ {p}
  /\ Dispatch(Job("SendPong", p.connection))
  /\ UNCHANGED <<network, user, reading, recovery, handler_connection, asked, running,
                 crashed>>

--------------------------------------------------------------------------------
(* The jobs of connection_strand_. *)

(* Mutant: the old connection stays in connection_. *)
ReconnectInPlace ==
  /\ Runs("Reconnect")
  /\ strand_queue' = Tail(strand_queue)
  /\ timer' = "waiting"
  /\ UNCHANGED <<network, handlers, answering, user, reading, running, crashed>>

(* Client::Reconnect: connection_ is replaced by one that is not connected *)
(* and the timer starts.  A wait under way would be cancelled and its      *)
(* handler run all the same, since it only logs the error.                 *)
Reconnect ==
  /\ Runs("Reconnect")
  /\ connection' = connection + 1
  /\ connected' = FALSE /\ link' = "none"
  /\ last_read_incomplete_message' =
       IF last_read_incomplete_message = "none" THEN "none" ELSE "old"
  /\ handlers' = [handlers EXCEPT !["connecting"] = IF timer = "waiting" THEN @ + 1 ELSE @]
  /\ timer' = "waiting"
  /\ strand_queue' = [strand_queue EXCEPT ![1] = Job("Return", connection')]
  /\ UNCHANGED <<answering, server_channels, faults, user, reader, reconnect_required,
                 running, crashed>>

(* It returns: the strand is held until then, the timer may be faster. *)
Return ==
  /\ Runs("Return")
  /\ strand_queue' = Tail(strand_queue)
  /\ UNCHANGED <<network, answering, recovery, user, reading, running, crashed>>

(* UpdateConnection of the message handler, when it had to wait. *)
UpdateConnection ==
  /\ Runs("UpdateConnection")
  /\ strand_queue' = Tail(strand_queue)
  /\ handler_connection' = Head(strand_queue).connection
  /\ UNCHANGED <<network, pings, asked, recovery, user, reading, running, crashed>>

(* SendPong writes to the handler's connection_; every one but the newest  *)
(* has been connected.  An exception here leaves ioc.run().                *)
SendPong ==
  /\ Runs("SendPong")
  /\ strand_queue' = Tail(strand_queue)
  /\ crashed' = (handler_connection = connection /\ WriteThrows)
  /\ UNCHANGED <<network, answering, recovery, user, reading, running>>

--------------------------------------------------------------------------------
(* The handler of the timer, up to the blocking connect.  Another one may  *)
(* still be at work.                                                       *)
TimerExpires ==
  /\ Live /\ timer = "waiting"
  /\ timer' = "off"
  /\ handlers' = [handlers EXCEPT !["connecting"] = @ + 1]
  /\ UNCHANGED <<network, user, reading, answering, strand_queue, running, crashed>>

ConnectOk ==
  /\ Live /\ handlers["connecting"] > 0 /\ "ok" \in Connects
  /\ connected' = TRUE /\ link' = "up"
  /\ Moves("connecting", "resuming")
  /\ UNCHANGED <<connection, server_channels, faults, user, reading, timer, answering,
                 strand_queue, running, crashed>>

(* The name does not resolve: Connect throws.  The connect fails: Connect  *)
(* logs it and Authorize throws.  Nobody catches either.                   *)
ConnectFails ==
  /\ Live /\ handlers["connecting"] > 0 /\ Connects # {"ok"}
  /\ Ends("connecting")
  /\ crashed' = TRUE
  /\ UNCHANGED <<network, user, reading, timer, answering, strand_queue, running>>

(* Mutant: the message handler is not told of the new connection. *)
ResumeUntold ==
  /\ Live /\ handlers["resuming"] > 0
  /\ last_read_incomplete_message' = "none"
  /\ IF WriteThrows
     THEN crashed' = TRUE /\ Ends("resuming") /\ UNCHANGED reader
     ELSE reader' = "pending" /\ Moves("resuming", "joining") /\ UNCHANGED crashed
  /\ UNCHANGED <<network, user, timer, reconnect_required, answering, strand_queue,
                 running>>

(* UpdateConnection, which runs at once when the strand is free and waits  *)
(* its turn otherwise, FlushBuffer, Authorize and Read; these two need a   *)
(* connection.                                                             *)
Resume ==
  /\ Live /\ handlers["resuming"] > 0
  /\ IF strand_queue = <<>>
     THEN handler_connection' = connection /\ UNCHANGED strand_queue
     ELSE Dispatch(Job("UpdateConnection", connection)) /\ UNCHANGED handler_connection
  /\ last_read_incomplete_message' = "none"
  /\ IF WriteThrows
     THEN crashed' = TRUE /\ Ends("resuming") /\ UNCHANGED reader
     ELSE reader' = "pending" /\ Moves("resuming", "joining") /\ UNCHANGED crashed
  /\ UNCHANGED <<network, user, timer, reconnect_required, pings, asked, running>>

(* CapRequest and Join(): they throw on a connection that a second         *)
(* Reconnect has put in place of the one just read from, and Join() with   *)
(* an empty buffer.                                                        *)
Rejoin ==
  /\ Live /\ handlers["joining"] > 0
  /\ Ends("joining")
  /\ IF ~join_command_buffer.has_value \/ WriteThrows
     THEN crashed' = TRUE /\ UNCHANGED server_channels
     ELSE Sent(server_channels \cup join_command_buffer.channels) /\ UNCHANGED crashed
  /\ UNCHANGED <<connection, connected, link, faults, user, reading, timer, answering,
                 strand_queue, running>>

--------------------------------------------------------------------------------
Init ==
  /\ connection = 0 /\ connected = FALSE /\ link = "none"
  /\ reconnect_required = FALSE /\ reader = "none"
  /\ timer = "off" /\ handlers = [stage \in Stages |-> 0]
  /\ handler_connection = 0 /\ strand_queue = <<>> /\ pings = {}
  /\ last_read_incomplete_message = "none"
  /\ joined_channels = {} /\ join_command_buffer = Buffer(FALSE, {})
  /\ call = NoCall
  /\ server_channels = {}
  /\ ops = 0 /\ asked = 0 /\ faults = 0
  /\ running = FALSE /\ crashed = FALSE

UserCalls ==
  \/ \E cs \in SUBSET Channels : JoinBegin(cs)
  \/ \E c \in Channels : PartBegin(c)

CallReturns == JoinEnd \/ PartEnd

Read == ReadBytes \/ (\E error \in Errors : ReadFails(error))

Answer == \E p \in pings : HandlePing(p)

Strand == Reconnect \/ Return \/ UpdateConnection \/ SendPong

Connect == ConnectOk \/ ConnectFails

Recover == TimerExpires \/ Connect \/ Resume \/ Rejoin

Next ==
  \/ Start \/ UserCalls \/ CallReturns \/ LinkLost
  \/ Read \/ OnRead \/ Answer \/ Strand \/ Recover

Spec == Init /\ [][Next]_vars

(* The workers run what is ready, the timer expires, a blocking connect or *)
(* write ends, and a read on a lost connection ends (the system reports    *)
(* it).                                                                    *)
Fairness ==
  /\ WF_vars(Start)
  /\ WF_vars(CallReturns)
  /\ WF_vars(\E error \in Errors : ReadFails(error))
  /\ WF_vars(OnRead)
  /\ WF_vars(Strand)
  /\ WF_vars(TimerExpires) /\ WF_vars(Connect) /\ WF_vars(Resume) /\ WF_vars(Rejoin)

FairSpec == Spec /\ Fairness

--------------------------------------------------------------------------------
Jobs ==
  [job : {"Reconnect", "Return", "UpdateConnection", "SendPong"}, connection : Nat]

TypeOK ==
  /\ connection \in Nat /\ connected \in BOOLEAN
  /\ link \in {"none", "up", "lost"}
  /\ reconnect_required \in BOOLEAN
  /\ reader \in {"none", "pending", "posted"}
  /\ timer \in {"off", "waiting"}
  /\ handlers \in [Stages -> Nat]
  /\ handler_connection \in Nat
  /\ strand_queue \in Seq(Jobs)
  /\ pings \in SUBSET [ping : Nat, connection : Nat]
  /\ last_read_incomplete_message \in {"none", "this", "old"}
  /\ joined_channels \in SUBSET Channels
  /\ join_command_buffer \in [has_value : BOOLEAN, channels : SUBSET Channels]
  /\ call \in [op : {"none", "join", "part"}, channels : SUBSET Channels]
  /\ server_channels \in SUBSET Channels
  /\ ops \in 0..MaxOps /\ asked \in 0..MaxPings /\ faults \in 0..MaxFaults
  /\ running \in BOOLEAN /\ crashed \in BOOLEAN
  /\ timer = "waiting" \/ handlers["connecting"] > 0 => ~connected

Parting == IF call.op = "part" THEN call.channels ELSE {}

NoHandler == \A stage \in Stages : handlers[stage] = 0

ReconnectDispatched ==
  \E i \in 1..Len(strand_queue) : strand_queue[i].job = "Reconnect"

(* Nobody is busy with the connection. *)
Settled == Live /\ timer = "off" /\ NoHandler /\ ~ReconnectDispatched

(* While the connection stands and no recovery is under way, Twitch has    *)
(* the client in every channel that GET /api/irc_client/join lists: what   *)
(* was joined before a loss, during it or while the handler was at work is *)
(* joined on the connection that stands now.                               *)
JoinedOnServer ==
  Settled /\ link = "up" => joined_channels \ Parting \subseteq server_channels

(* There is never a second read: while one is pending or its bytes wait    *)
(* for OnRead, the connection is the one connected last, no Reconnect is   *)
(* on its way and no handler of the timer before its own read, however     *)
(* many of them overlap, and no half line of an earlier connection is left *)
(* to be glued to its first (FlushBuffer).                                 *)
OneReader ==
  reader # "none" =>
    /\ connected /\ timer = "off" /\ ~ReconnectDispatched
    /\ handlers["connecting"] = 0 /\ handlers["resuming"] = 0
    /\ last_read_incomplete_message # "old"

(* A PONG is written to a connection that is connected and not older than  *)
(* the one its PING was read from: UpdateConnection may wait behind other  *)
(* jobs of the strand while the new connection is read already, but the    *)
(* PONGs for what is read from it wait behind UpdateConnection.            *)
PongFindsConnection ==
  Runs("SendPong") =>
    /\ Head(strand_queue).connection <= handler_connection
    /\ handler_connection = connection => connected

(* A client that is connected and has joined once never ends the program:  *)
(* neither an error of a write nor a lost connection does.                 *)
CrashOnlyWhileApart ==
  [][crashed' /\ ~crashed => ~connected \/ ~join_command_buffer.has_value]_vars

(* The lists of the client and of Twitch move as ChannelMembership says:   *)
(* Join() after a reconnect restores every listed channel.                 *)
Membership == INSTANCE ChannelMembership WITH
  wanted <- joined_channels, present <- server_channels

MembershipSpec == Membership!MembershipSpec

(* A loss that a read has noticed is made good: a connection stands again,  *)
(* or the program has ended (irc_client.cpp:85-99, 135-163).  A read that   *)
(* fails without a byte notices none (connection.h:308-314).                *)
LossRecovered == reconnect_required ~> (link = "up" \/ crashed)

================================================================================
