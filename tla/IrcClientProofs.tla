---------------------------- MODULE IrcClientProofs ----------------------------
(***************************************************************************)
(* Proofs about IrcClient: the channels of the list are joined at Twitch   *)
(* whenever the connection stands, there is one reader however many        *)
(* handlers of the timer overlap, a PONG goes to a connection as new as    *)
(* its PING, what can end the program, and the refinement of               *)
(* ChannelMembership.                                                      *)
(***************************************************************************)
EXTENDS IrcClient, TLAPS

(* Before Start nothing has happened. *)
Fresh ==
  ~running =>
    /\ ~connected /\ link = "none" /\ reader = "none"
    /\ timer = "off" /\ NoHandler /\ strand_queue = <<>> /\ pings = {}
    /\ handler_connection = connection
    /\ last_read_incomplete_message = "none" /\ joined_channels = {}

(* One party at a time is busy with getting a connection to read from: the *)
(* reader, the Reconnect it dispatched, the wait, the handler of the timer  *)
(* up to its own read.  Handlers behind that are not counted.               *)
Busy == handlers["connecting"] > 0 \/ handlers["resuming"] > 0

Placed ==
  /\ ~connected <=> link = "none"
  /\ handlers["resuming"] > 0 => connected
  /\ handlers["connecting"] + handlers["resuming"] <= 1
  /\ Busy => timer = "off" /\ reader = "none" /\ ~ReconnectDispatched
  /\ timer = "waiting" => reader = "none" /\ ~ReconnectDispatched
  /\ ReconnectDispatched => reader = "none"

(* The buffer holds every channel that is listed or about to be. *)
Buffered ==
  /\ joined_channels \subseteq join_command_buffer.channels
  /\ ~join_command_buffer.has_value => join_command_buffer.channels = {}
  /\ call.op = "join" => call.channels \subseteq join_command_buffer.channels
  /\ call.op = "part" => \E c \in Channels : call.channels = {c}

(* Twitch has every listed channel when no handler has still to join them. *)
Present ==
  link = "up" /\ handlers["resuming"] = 0 /\ handlers["joining"] = 0
    => joined_channels \ Parting \subseteq server_channels

(* UpdateConnection waits before position i of the strand. *)
UpdatedBefore(i) == \E j \in 1..(i - 1) : strand_queue[j].job = "UpdateConnection"
UpdateWaits == UpdatedBefore(Len(strand_queue) + 1)

(* Nothing but PONGs waits behind a Reconnect, and an UpdateConnection that *)
(* waits is of the connection that stands.                                 *)
Ordered ==
  \A i \in 1..Len(strand_queue) :
    /\ strand_queue[i].job = "Reconnect" =>
         \A j \in (i + 1)..Len(strand_queue) : strand_queue[j].job = "SendPong"
    /\ strand_queue[i].job = "UpdateConnection" =>
         connected /\ strand_queue[i].connection = connection

(* The message handler's connection_ is as new as what is read, as a PING   *)
(* that is handled, and as a PONG that is sent, or will be by then.        *)
Updated ==
  /\ handler_connection <= connection
  /\ Live /\ handler_connection = connection => connected
  /\ reader # "none" => handler_connection = connection \/ UpdateWaits
  /\ \A p \in pings :
       p.connection <= connection /\ (p.connection <= handler_connection \/ UpdateWaits)
  /\ \A i \in 1..Len(strand_queue) : strand_queue[i].job = "SendPong" =>
       /\ strand_queue[i].connection <= connection
       /\ strand_queue[i].connection <= handler_connection \/ UpdatedBefore(i)

IInv ==
  TypeOK /\ Fresh /\ Placed /\ Buffered /\ Present /\ Ordered /\ Updated /\ OneReader

USE IrcClientAssumption DEF IrcClientAssumption

--------------------------------------------------------------------------------
(* What the operations of the strand do to the positions of its queue. *)
LEMMA Appended ==
  ASSUME TypeOK, NEW job \in Jobs, strand_queue' = Append(strand_queue, job)
  PROVE  /\ strand_queue' \in Seq(Jobs)
         /\ Len(strand_queue') = Len(strand_queue) + 1
         /\ Len(strand_queue) \in Nat
         /\ \A i \in 1..Len(strand_queue) : strand_queue'[i] = strand_queue[i]
         /\ strand_queue'[Len(strand_queue) + 1] = job
  BY DEF TypeOK

LEMMA Popped ==
  ASSUME TypeOK, strand_queue # <<>>, strand_queue' = Tail(strand_queue)
  PROVE  /\ strand_queue' \in Seq(Jobs)
         /\ Len(strand_queue) = Len(strand_queue') + 1
         /\ Len(strand_queue') \in Nat
         /\ \A i \in 1..Len(strand_queue') : strand_queue'[i] = strand_queue[i + 1]
  BY DEF TypeOK

LEMMA Headed ==
  ASSUME TypeOK, strand_queue # <<>>
  PROVE  /\ 1 \in 1..Len(strand_queue) /\ Len(strand_queue) \in Nat
         /\ Head(strand_queue) = strand_queue[1]
         /\ strand_queue[1] \in Jobs
  BY DEF TypeOK

(* A step that leaves the strand and the connection alone keeps what is    *)
(* said of their order.                                                    *)
LEMMA StrandKept ==
  ASSUME IInv, Live' => Live,
         UNCHANGED <<connection, connected, reader, handler_connection, strand_queue, pings>>
  PROVE  Ordered' /\ Updated'
<1>1. Ordered' BY DEF IInv, Ordered
<1>2. Updated' BY DEF IInv, Updated, UpdateWaits, UpdatedBefore
<1>. QED BY <1>1, <1>2

--------------------------------------------------------------------------------
LEMMA InitIInv == Init => IInv
<1>. SUFFICES ASSUME Init PROVE IInv
  OBVIOUS
<1>. USE DEF Init
<1>1. TypeOK
  <2>1. call \in [op : {"none", "join", "part"}, channels : SUBSET Channels]
    BY DEF NoCall
  <2>2. join_command_buffer \in [has_value : BOOLEAN, channels : SUBSET Channels]
    BY DEF Buffer
  <2>3. ops \in 0..MaxOps /\ asked \in 0..MaxPings /\ faults \in 0..MaxFaults OBVIOUS
  <2>4. handlers \in [Stages -> Nat] OBVIOUS
  <2>5. timer # "waiting" /\ ~(handlers["connecting"] > 0) BY DEF Stages
  <2>6. /\ connected \in BOOLEAN /\ reconnect_required \in BOOLEAN
        /\ running \in BOOLEAN /\ crashed \in BOOLEAN
    OBVIOUS
  <2>7. connection \in Nat /\ handler_connection \in Nat /\ strand_queue \in Seq(Jobs)
    OBVIOUS
  <2>8. pings \in SUBSET [ping : Nat, connection : Nat] OBVIOUS
  <2>. QED BY <2>1, <2>2, <2>3, <2>4, <2>5, <2>6, <2>7, <2>8 DEF TypeOK
<1>2. Len(strand_queue) = 0 OBVIOUS
<1>3. Fresh /\ Placed /\ Present /\ OneReader
  BY <1>2 DEF Fresh, NoHandler, Placed, Busy, ReconnectDispatched, Present, OneReader,
              Stages
<1>4. Buffered BY DEF Buffered, Buffer, NoCall
<1>5. Ordered BY <1>2 DEF Ordered
<1>6. Updated BY <1>2 DEF Updated, Live
<1>. QED BY <1>1, <1>3, <1>4, <1>5, <1>6 DEF IInv

LEMMA StartIInv == IInv /\ Start => IInv'
<1>. SUFFICES ASSUME IInv, Start PROVE IInv'
  OBVIOUS
<1>. USE DEF Start, user, recovery, answering
<1>1. /\ TypeOK /\ timer = "off" /\ NoHandler /\ strand_queue = <<>> /\ pings = {}
      /\ handler_connection = connection /\ ~connected /\ link = "none"
      /\ last_read_incomplete_message = "none" /\ joined_channels = {}
      /\ reader = "none"
  BY DEF IInv, Fresh
<1>2. TypeOK'
  <2>1. connected' \in BOOLEAN /\ link' \in {"none", "up", "lost"}
        /\ reader' \in {"none", "pending", "posted"} /\ crashed' \in BOOLEAN
    BY <1>1 DEF TypeOK
  <2>2. timer' # "waiting" /\ ~(handlers'["connecting"] > 0)
    BY <1>1 DEF NoHandler, Stages
  <2>. QED BY <1>1, <2>1, <2>2 DEF TypeOK
<1>3. Fresh' /\ Present' BY <1>1 DEF Fresh, Present, Parting
<1>4. Placed' /\ OneReader'
  BY <1>1 DEF Placed, Busy, NoHandler, Stages, ReconnectDispatched, OneReader
<1>5. Buffered' BY DEF IInv, Buffered
<1>6. Ordered' BY <1>1 DEF Ordered
<1>7. Updated' BY <1>1 DEF Updated, Live, TypeOK
<1>. QED BY <1>2, <1>3, <1>4, <1>5, <1>6, <1>7 DEF IInv

(* Calls of Join and Part touch neither the connection nor who reads it. *)
LEMMA CallKept ==
  ASSUME IInv, Live, UNCHANGED <<connection, connected, link, faults>>,
         UNCHANGED <<reading, recovery, answering, strand_queue, running>>
  PROVE  Fresh' /\ Placed' /\ Ordered' /\ Updated' /\ OneReader'
<1>. USE DEF Live, reading, recovery, answering
<1>1. Fresh' BY DEF Fresh
<1>2. Placed' BY DEF IInv, Placed, Busy, ReconnectDispatched
<1>3. OneReader' BY DEF IInv, OneReader, ReconnectDispatched
<1>4. Ordered' /\ Updated' BY StrandKept
<1>. QED BY <1>1, <1>2, <1>3, <1>4

LEMMA JoinBeginIInv == ASSUME NEW cs \in SUBSET Channels
                       PROVE  IInv /\ JoinBegin(cs) => IInv'
<1>. SUFFICES ASSUME IInv, JoinBegin(cs) PROVE IInv'
  OBVIOUS
<1>. USE DEF JoinBegin
<1>1. Fresh' /\ Placed' /\ Ordered' /\ Updated' /\ OneReader'
  BY CallKept DEF network
<1>2. TypeOK' /\ Buffered' /\ Present'
  BY DEF AddJoinCommandToBuffer, Buffer, NoCall, Live, IInv, TypeOK, Buffered, Present,
         Parting, network, reading, recovery, answering
<1>. QED BY <1>1, <1>2 DEF IInv

LEMMA JoinEndIInv == IInv /\ JoinEnd => IInv'
<1>. SUFFICES ASSUME IInv, JoinEnd PROVE IInv'
  OBVIOUS
<1>. USE DEF JoinEnd
<1>1. Fresh' /\ Placed' /\ Ordered' /\ Updated' /\ OneReader'
  BY CallKept
<1>2. TypeOK' /\ Buffered' /\ Present'
  <2>1. CASE WriteThrows
    BY <2>1 DEF ApiThrows, WriteThrows, NoCall, IInv, TypeOK, Placed, Buffered,
                Present, Parting, reading, recovery, answering
  <2>2. CASE ~WriteThrows
    BY <2>2 DEF Sent, NoCall, IInv, TypeOK, Buffered, Present, Parting, reading,
                recovery, answering
  <2>. QED BY <2>1, <2>2
<1>. QED BY <1>1, <1>2 DEF IInv

LEMMA PartBeginIInv == ASSUME NEW c \in Channels
                       PROVE  IInv /\ PartBegin(c) => IInv'
<1>. SUFFICES ASSUME IInv, PartBegin(c) PROVE IInv'
  OBVIOUS
<1>. USE DEF PartBegin
<1>1. Fresh' /\ Placed' /\ Ordered' /\ Updated' /\ OneReader'
  BY CallKept
<1>2. TypeOK' /\ Buffered' /\ Present'
  <2>1. CASE WriteThrows
    BY <2>1 DEF ApiThrows, WriteThrows, NoCall, IInv, TypeOK, Placed, Buffered,
                Present, Parting, reading, recovery, answering
  <2>2. CASE ~WriteThrows
    BY <2>2 DEF Sent, NoCall, IInv, TypeOK, Buffered, Present, Parting, reading,
                recovery, answering
  <2>. QED BY <2>1, <2>2
<1>. QED BY <1>1, <1>2 DEF IInv

LEMMA PartEndIInv == IInv /\ PartEnd => IInv'
<1>. SUFFICES ASSUME IInv, PartEnd PROVE IInv'
  OBVIOUS
<1>. USE DEF PartEnd
<1>1. Fresh' /\ Placed' /\ Ordered' /\ Updated' /\ OneReader'
  BY CallKept DEF network
<1>2. TypeOK' /\ Buffered' /\ Present'
  BY DEF NoCall, IInv, TypeOK, Buffered, Present, Parting, network, reading, recovery,
         answering
<1>. QED BY <1>1, <1>2 DEF IInv

LEMMA LinkLostIInv == IInv /\ LinkLost => IInv'
<1>. SUFFICES ASSUME IInv, LinkLost PROVE IInv'
  OBVIOUS
<1>. USE DEF LinkLost, Live, user, reading, recovery, answering
<1>1. TypeOK' BY DEF IInv, TypeOK
<1>2. Fresh' /\ Placed' BY DEF IInv, Fresh, Placed, Busy, ReconnectDispatched
<1>3. Buffered' BY DEF IInv, Buffered
<1>4. Present' /\ OneReader' BY DEF IInv, Present, OneReader, ReconnectDispatched
<1>5. Ordered' /\ Updated' BY StrandKept
<1>. QED BY <1>1, <1>2, <1>3, <1>4, <1>5 DEF IInv

--------------------------------------------------------------------------------
LEMMA ReadIInv == IInv /\ Read => IInv'
<1>. SUFFICES ASSUME IInv, Read PROVE IInv'
  OBVIOUS
<1>1. /\ Live /\ reader = "pending"
      /\ reconnect_required' \in BOOLEAN /\ reader' \in {"none", "posted"}
      /\ UNCHANGED <<network, recovery, answering, strand_queue, user,
                     last_read_incomplete_message, running, crashed>>
  <2>1. CASE ReadBytes
    BY <2>1 DEF ReadBytes, IInv, TypeOK
  <2>2. CASE \E error \in Errors : ReadFails(error)
    BY <2>2 DEF ReadFails, IInv, TypeOK
  <2>. QED BY <2>1, <2>2 DEF Read
<1>. USE <1>1 DEF Live, network, user, recovery, answering
<1>2. TypeOK' BY DEF IInv, TypeOK
<1>3. Fresh' BY DEF Fresh
<1>4. Placed' BY DEF IInv, Placed, Busy, ReconnectDispatched
<1>5. Buffered' BY DEF IInv, Buffered
<1>6. Present' BY DEF IInv, Present, Parting
<1>7. OneReader' BY DEF IInv, OneReader, ReconnectDispatched
<1>8. Ordered' BY DEF IInv, Ordered
<1>9. Updated' BY DEF IInv, Updated, UpdateWaits, UpdatedBefore
<1>. QED BY <1>2, <1>3, <1>4, <1>5, <1>6, <1>7, <1>8, <1>9 DEF IInv

(* The PINGs of a batch are as new as the connection they were read from. *)
LEMMA PingsAreRead ==
  ASSUME IInv, reader # "none", PostMessages
  PROVE  /\ asked' \in 0..MaxPings
         /\ pings' \in SUBSET [ping : Nat, connection : Nat]
         /\ \A p \in pings' : /\ p.connection <= connection
                              /\ p.connection <= handler_connection \/ UpdateWaits
<1>1. TypeOK /\ Updated BY DEF IInv
<1>2. \A p \in pings : /\ p.connection <= connection
                       /\ p.connection <= handler_connection \/ UpdateWaits
  BY <1>1 DEF Updated
<1>3. CASE UNCHANGED <<pings, asked>> BY <1>1, <1>2, <1>3 DEF TypeOK
<1>4. CASE /\ asked < MaxPings
           /\ asked' = asked + 1
           /\ pings' = pings \cup {[ping |-> asked, connection |-> connection]}
  <2>1. asked' \in 0..MaxPings BY <1>1, <1>4 DEF TypeOK
  <2>2. pings' \in SUBSET [ping : Nat, connection : Nat] BY <1>1, <1>4 DEF TypeOK
  <2>3. connection \in Nat /\ (connection <= handler_connection \/ UpdateWaits)
    BY <1>1 DEF TypeOK, Updated
  <2>. QED BY <1>2, <1>4, <2>1, <2>2, <2>3
<1>. QED BY <1>3, <1>4 DEF PostMessages

LEMMA OnReadIInv == IInv /\ OnRead => IInv'
<1>. SUFFICES ASSUME IInv, OnRead PROVE IInv'
  OBVIOUS
<1>. USE DEF OnRead, Live, network, user, recovery
<1>1. /\ TypeOK /\ reader = "posted" /\ connected /\ timer = "off" /\ ~ReconnectDispatched
      /\ handlers["connecting"] = 0 /\ handlers["resuming"] = 0
  BY DEF IInv, OneReader
<1>2. /\ asked' \in 0..MaxPings
      /\ pings' \in SUBSET [ping : Nat, connection : Nat]
      /\ \A p \in pings' : /\ p.connection <= connection
                           /\ p.connection <= handler_connection \/ UpdateWaits
  BY <1>1, PingsAreRead
<1>3. Fresh' /\ Buffered' /\ Present'
  BY DEF IInv, Fresh, Buffered, Present, Parting
<1>4. CASE reconnect_required
  <2>. DEFINE job == Job("Reconnect", connection)
  <2>1. job \in Jobs BY <1>1 DEF Job, Jobs, TypeOK
  <2>2. strand_queue' = Append(strand_queue, job) BY <1>4 DEF Dispatch
  <2>3. /\ strand_queue' \in Seq(Jobs)
        /\ Len(strand_queue') = Len(strand_queue) + 1
        /\ Len(strand_queue) \in Nat
        /\ \A i \in 1..Len(strand_queue) : strand_queue'[i] = strand_queue[i]
        /\ strand_queue'[Len(strand_queue) + 1] = job
    BY <1>1, <2>1, <2>2, Appended
  <2>4. job.job = "Reconnect" BY DEF Job
  <2>5. TypeOK' BY <1>1, <1>2, <1>4, <2>3 DEF TypeOK
  <2>6. Placed' /\ OneReader'
    BY <1>1, <1>4 DEF IInv, TypeOK, Placed, Busy, Stages, OneReader
  <2>7. Ordered' BY <1>1, <2>3, <2>4 DEF IInv, Ordered, ReconnectDispatched
  <2>8. Updated'
    <3>1. UpdateWaits => UpdateWaits' BY <2>3 DEF UpdateWaits, UpdatedBefore
    <3>2. \A i \in 1..Len(strand_queue) : UpdatedBefore(i) => UpdatedBefore(i)'
      BY <2>3 DEF UpdatedBefore
    <3>3. reader' = "none" BY <1>4
    <3>4. \A i \in 1..Len(strand_queue') : strand_queue'[i].job = "SendPong" =>
            /\ strand_queue'[i].connection <= connection
            /\ strand_queue'[i].connection <= handler_connection \/ UpdatedBefore(i)'
      BY <2>3, <2>4, <3>2 DEF IInv, Updated
    <3>. QED BY <1>1, <1>2, <3>1, <3>3, <3>4 DEF IInv, Updated
  <2>. QED BY <1>3, <2>5, <2>6, <2>7, <2>8 DEF IInv
<1>5. CASE ~reconnect_required
  <2>1. TypeOK' BY <1>1, <1>2, <1>5 DEF TypeOK
  <2>2. Placed' /\ OneReader'
    BY <1>1, <1>5 DEF IInv, TypeOK, Placed, Busy, Stages, OneReader, ReconnectDispatched
  <2>3. Ordered' BY <1>5 DEF IInv, Ordered
  <2>4. Updated' BY <1>1, <1>2, <1>5 DEF IInv, Updated, UpdateWaits, UpdatedBefore
  <2>. QED BY <1>3, <2>1, <2>2, <2>3, <2>4 DEF IInv
<1>. QED BY <1>4, <1>5

LEMMA HandlePingIInv == ASSUME NEW p \in pings
                        PROVE  IInv /\ HandlePing(p) => IInv'
<1>. SUFFICES ASSUME IInv, HandlePing(p) PROVE IInv'
  OBVIOUS
<1>. USE DEF HandlePing, Live, network, user, reading, recovery
<1>. DEFINE job == Job("SendPong", p.connection)
<1>1. TypeOK /\ p.connection \in Nat /\ pings' \subseteq pings BY DEF IInv, TypeOK
<1>2. job \in Jobs /\ job.job = "SendPong" /\ job.connection = p.connection
  BY <1>1 DEF Job, Jobs
<1>3. strand_queue' = Append(strand_queue, job) BY DEF Dispatch
<1>4. /\ strand_queue' \in Seq(Jobs)
      /\ Len(strand_queue') = Len(strand_queue) + 1
      /\ Len(strand_queue) \in Nat
      /\ \A i \in 1..Len(strand_queue) : strand_queue'[i] = strand_queue[i]
      /\ strand_queue'[Len(strand_queue) + 1] = job
  BY <1>1, <1>2, <1>3, Appended
<1>5. TypeOK' BY <1>1, <1>4 DEF TypeOK
<1>6. ReconnectDispatched' <=> ReconnectDispatched
  BY <1>2, <1>4 DEF ReconnectDispatched
<1>7. Fresh' /\ Buffered' /\ Present' BY DEF IInv, Fresh, Buffered, Present, Parting
<1>8. Placed' /\ OneReader' BY <1>6 DEF IInv, Placed, Busy, OneReader
<1>9. Ordered' BY <1>2, <1>4 DEF IInv, Ordered
<1>10. Updated'
  <2>1. UpdateWaits =>
          UpdateWaits' /\ \A i \in {Len(strand_queue) + 1} : UpdatedBefore(i)'
    BY <1>4 DEF UpdateWaits, UpdatedBefore
  <2>2. \A i \in 1..Len(strand_queue) : UpdatedBefore(i) => UpdatedBefore(i)'
    BY <1>4 DEF UpdatedBefore
  <2>3. \A q \in pings' :
          /\ q.connection <= connection
          /\ q.connection <= handler_connection \/ UpdateWaits'
    BY <1>1, <2>1 DEF IInv, Updated
  <2>4. ASSUME NEW i \in 1..Len(strand_queue'), strand_queue'[i].job = "SendPong"
        PROVE  /\ strand_queue'[i].connection <= connection
               /\ strand_queue'[i].connection <= handler_connection \/ UpdatedBefore(i)'
    <3>1. CASE i \in 1..Len(strand_queue) BY <1>4, <2>2, <2>4, <3>1 DEF IInv, Updated
    <3>2. CASE i = Len(strand_queue) + 1 BY <1>2, <1>4, <2>1, <3>2 DEF IInv, Updated
    <3>. QED BY <1>4, <3>1, <3>2
  <2>. QED BY <2>1, <2>3, <2>4 DEF IInv, Updated
<1>. QED BY <1>5, <1>7, <1>8, <1>9, <1>10 DEF IInv

--------------------------------------------------------------------------------
LEMMA ReconnectIInv == IInv /\ Reconnect => IInv'
<1>. SUFFICES ASSUME IInv, Reconnect PROVE IInv'
  OBVIOUS
<1>. USE DEF Reconnect, Runs, Live, user, answering
<1>1. TypeOK /\ strand_queue # <<>> BY DEF IInv
<1>2. /\ 1 \in 1..Len(strand_queue) /\ Len(strand_queue) \in Nat
      /\ strand_queue[1].job = "Reconnect"
  BY <1>1, Headed
<1>3. ReconnectDispatched BY <1>2 DEF ReconnectDispatched
<1>4. /\ reader = "none" /\ timer = "off"
      /\ handlers["connecting"] = 0 /\ handlers["resuming"] = 0
  BY <1>1, <1>3 DEF IInv, TypeOK, Placed, Busy, Stages
<1>5. handlers' = handlers BY <1>1, <1>4 DEF TypeOK, Stages
<1>6. Job("Return", connection') \in Jobs /\ Job("Return", connection').job = "Return"
  BY <1>1 DEF Job, Jobs, TypeOK
<1>7. /\ strand_queue' \in Seq(Jobs) /\ Len(strand_queue') = Len(strand_queue)
      /\ strand_queue'[1].job = "Return"
      /\ \A i \in 2..Len(strand_queue) : strand_queue'[i] = strand_queue[i]
  BY <1>1, <1>2, <1>6 DEF TypeOK
<1>8. \A i \in 2..Len(strand_queue') : strand_queue'[i].job = "SendPong"
  BY <1>2, <1>7 DEF IInv, Ordered
<1>9. TypeOK'
  <2>1. connection' \in Nat /\ last_read_incomplete_message' \in {"none", "this", "old"}
    BY <1>1 DEF TypeOK
  <2>2. connected' = FALSE /\ link' = "none" /\ timer' = "waiting"
    OBVIOUS
  <2>3. UNCHANGED <<answering, server_channels, faults, user, reader, reconnect_required,
                    running, crashed>>
    OBVIOUS
  <2>. HIDE DEF Reconnect
  <2>. QED BY <1>1, <1>5, <1>7, <2>1, <2>2, <2>3 DEF TypeOK
<1>10. ~ReconnectDispatched' BY <1>2, <1>7, <1>8 DEF ReconnectDispatched
<1>11. Fresh' /\ Buffered' /\ Present' BY DEF IInv, Fresh, Buffered, Present
<1>12. Placed' /\ OneReader'
  BY <1>4, <1>5, <1>10 DEF IInv, Placed, Busy, OneReader
<1>13. Ordered' BY <1>2, <1>7, <1>8 DEF Ordered
<1>14. Updated'
  <2>1. \A i \in 1..(Len(strand_queue) + 1) : ~UpdatedBefore(i)
    BY <1>2, <1>7, <1>8 DEF UpdatedBefore
  <2>2. ~UpdateWaits BY <1>2, <2>1 DEF UpdateWaits
  <2>3. \A p \in pings : p.connection <= connection /\ p.connection <= handler_connection
    BY <2>2 DEF IInv, Updated
  <2>4. \A i \in 1..Len(strand_queue') : strand_queue'[i].job = "SendPong" =>
          /\ strand_queue'[i].connection <= connection
          /\ strand_queue'[i].connection <= handler_connection
    BY <1>2, <1>7, <2>1 DEF IInv, Updated
  <2>5. connection \in Nat /\ handler_connection \in Nat /\ connection' = connection + 1
    BY <1>1 DEF TypeOK
  <2>6. \A p \in pings : p.connection \in Nat BY <1>1 DEF TypeOK
  <2>7. \A i \in 1..Len(strand_queue') : strand_queue'[i].connection \in Nat
    <3>1. \A i \in 1..Len(strand_queue') : strand_queue'[i] \in Jobs BY <1>7
    <3>. QED BY <3>1 DEF Jobs
  <2>8. \A p \in pings : p.connection <= connection' BY <2>3, <2>5, <2>6
  <2>9. \A i \in 1..Len(strand_queue') : strand_queue'[i].job = "SendPong" =>
          strand_queue'[i].connection <= connection'
    BY <2>4, <2>5, <2>7
  <2>10. handler_connection < connection' BY <2>5 DEF IInv, Updated
  <2>. QED BY <1>4, <2>3, <2>4, <2>5, <2>8, <2>9, <2>10 DEF Updated
<1>. QED BY <1>9, <1>11, <1>12, <1>13, <1>14 DEF IInv

(* A job that leaves the strand, and was not UpdateConnection, uncovers    *)
(* nothing that it had to cover.                                           *)
LEMMA StrandPopped ==
  ASSUME IInv, strand_queue # <<>>, Head(strand_queue).job \in {"Return", "SendPong"},
         strand_queue' = Tail(strand_queue), Live' => Live,
         UNCHANGED <<connection, connected, reader, handler_connection, pings>>
  PROVE  /\ strand_queue' \in Seq(Jobs)
         /\ ReconnectDispatched' => ReconnectDispatched
         /\ Ordered' /\ Updated'
<1>1. TypeOK BY DEF IInv
<1>2. /\ strand_queue' \in Seq(Jobs)
      /\ Len(strand_queue) = Len(strand_queue') + 1
      /\ Len(strand_queue') \in Nat
      /\ \A i \in 1..Len(strand_queue') : strand_queue'[i] = strand_queue[i + 1]
  BY <1>1, Popped
<1>3. strand_queue[1].job # "UpdateConnection" BY <1>1, Headed
<1>4. ReconnectDispatched' => ReconnectDispatched
  BY <1>2 DEF ReconnectDispatched
<1>5. Ordered'
  <2>1. ASSUME NEW i \in 1..Len(strand_queue')
        PROVE  /\ strand_queue'[i].job = "Reconnect" =>
                    \A j \in (i + 1)..Len(strand_queue') : strand_queue'[j].job = "SendPong"
               /\ strand_queue'[i].job = "UpdateConnection" =>
                    connected /\ strand_queue'[i].connection = connection
    <3>1. i + 1 \in 1..Len(strand_queue) /\ strand_queue'[i] = strand_queue[i + 1]
      BY <1>2
    <3>2. \A j \in (i + 1)..Len(strand_queue') :
            j + 1 \in ((i + 1) + 1)..Len(strand_queue) /\ strand_queue'[j] = strand_queue[j + 1]
      BY <1>2
    <3>. QED BY <3>1, <3>2 DEF IInv, Ordered
  <2>. QED BY <2>1 DEF Ordered
<1>6. Updated'
  <2>1. \A i \in 1..(Len(strand_queue') + 1) : UpdatedBefore(i + 1) => UpdatedBefore(i)'
    <3>. SUFFICES ASSUME NEW i \in 1..(Len(strand_queue') + 1),
                         NEW j \in 1..((i + 1) - 1),
                         strand_queue[j].job = "UpdateConnection"
                  PROVE  UpdatedBefore(i)'
      BY DEF UpdatedBefore
    <3>1. j # 1 BY <1>3
    <3>2. j - 1 \in 1..(i - 1) /\ j - 1 \in 1..Len(strand_queue') BY <1>2, <3>1
    <3>3. strand_queue'[j - 1] = strand_queue[j] BY <1>2, <3>2
    <3>. QED BY <3>2, <3>3 DEF UpdatedBefore
  <2>2. UpdateWaits => UpdateWaits'
    BY <1>2, <2>1 DEF UpdateWaits
  <2>3. ASSUME NEW i \in 1..Len(strand_queue'), strand_queue'[i].job = "SendPong"
        PROVE  /\ strand_queue'[i].connection <= connection
               /\ strand_queue'[i].connection <= handler_connection \/ UpdatedBefore(i)'
    <3>1. i + 1 \in 1..Len(strand_queue) /\ strand_queue'[i] = strand_queue[i + 1]
      BY <1>2
    <3>2. UpdatedBefore(i + 1) => UpdatedBefore(i)' BY <1>2, <2>1
    <3>. QED BY <2>3, <3>1, <3>2 DEF IInv, Updated
  <2>. QED BY <2>2, <2>3 DEF IInv, Updated
<1>. QED BY <1>2, <1>4, <1>5, <1>6

LEMMA ReturnIInv == IInv /\ Return => IInv'
<1>. SUFFICES ASSUME IInv, Return PROVE IInv'
  OBVIOUS
<1>. USE DEF Return, Runs, Live, network, user, reading, recovery, answering
<1>1. /\ strand_queue' \in Seq(Jobs)
      /\ ReconnectDispatched' => ReconnectDispatched
      /\ Ordered' /\ Updated'
  BY StrandPopped
<1>2. TypeOK' BY <1>1 DEF IInv, TypeOK
<1>3. Fresh' /\ Buffered' /\ Present' BY DEF IInv, Fresh, Buffered, Present, Parting
<1>4. Placed' /\ OneReader' BY <1>1 DEF IInv, Placed, Busy, OneReader
<1>. QED BY <1>1, <1>2, <1>3, <1>4 DEF IInv

LEMMA SendPongIInv == IInv /\ SendPong => IInv'
<1>. SUFFICES ASSUME IInv, SendPong PROVE IInv'
  OBVIOUS
<1>. USE DEF SendPong, Runs, Live, network, user, reading, recovery, answering
<1>1. /\ strand_queue' \in Seq(Jobs)
      /\ ReconnectDispatched' => ReconnectDispatched
      /\ Ordered' /\ Updated'
  BY StrandPopped
<1>2. crashed' \in BOOLEAN OBVIOUS
<1>3. TypeOK' BY <1>1, <1>2 DEF IInv, TypeOK
<1>4. Fresh' /\ Buffered' /\ Present' BY DEF IInv, Fresh, Buffered, Present, Parting
<1>5. Placed' /\ OneReader' BY <1>1 DEF IInv, Placed, Busy, OneReader
<1>. QED BY <1>1, <1>3, <1>4, <1>5 DEF IInv

LEMMA UpdateConnectionIInv == IInv /\ UpdateConnection => IInv'
<1>. SUFFICES ASSUME IInv, UpdateConnection PROVE IInv'
  OBVIOUS
<1>. USE DEF UpdateConnection, Runs, Live, network, user, reading, recovery
<1>1. TypeOK /\ strand_queue # <<>> BY DEF IInv
<1>2. /\ strand_queue' \in Seq(Jobs)
      /\ Len(strand_queue) = Len(strand_queue') + 1
      /\ Len(strand_queue') \in Nat
      /\ \A i \in 1..Len(strand_queue') : strand_queue'[i] = strand_queue[i + 1]
  BY <1>1, Popped
<1>3. handler_connection' = connection /\ connected
  BY <1>1, Headed DEF IInv, Ordered
<1>4. ReconnectDispatched' => ReconnectDispatched
  BY <1>2 DEF ReconnectDispatched
<1>5. TypeOK' BY <1>1, <1>2, <1>3 DEF TypeOK
<1>6. Fresh' /\ Buffered' /\ Present' BY DEF IInv, Fresh, Buffered, Present, Parting
<1>7. Placed' /\ OneReader' BY <1>4 DEF IInv, Placed, Busy, OneReader
<1>8. Ordered'
  <2>1. ASSUME NEW i \in 1..Len(strand_queue')
        PROVE  /\ strand_queue'[i].job = "Reconnect" =>
                    \A j \in (i + 1)..Len(strand_queue') : strand_queue'[j].job = "SendPong"
               /\ strand_queue'[i].job = "UpdateConnection" =>
                    connected /\ strand_queue'[i].connection = connection
    <3>1. i + 1 \in 1..Len(strand_queue) /\ strand_queue'[i] = strand_queue[i + 1]
      BY <1>2
    <3>2. \A j \in (i + 1)..Len(strand_queue') :
            j + 1 \in ((i + 1) + 1)..Len(strand_queue) /\ strand_queue'[j] = strand_queue[j + 1]
      BY <1>2
    <3>. QED BY <3>1, <3>2 DEF IInv, Ordered
  <2>. QED BY <2>1 DEF Ordered
<1>9. Updated'
  <2>1. \A p \in pings : p.connection <= connection BY DEF IInv, Updated
  <2>2. ASSUME NEW i \in 1..Len(strand_queue'), strand_queue'[i].job = "SendPong"
        PROVE  strand_queue'[i].connection <= connection
    BY <1>2, <2>2 DEF IInv, Updated
  <2>3. connection <= connection BY <1>1 DEF TypeOK
  <2>. QED BY <1>3, <2>1, <2>2, <2>3 DEF Updated
<1>. QED BY <1>5, <1>6, <1>7, <1>8, <1>9 DEF IInv

LEMMA StrandIInv == IInv /\ Strand => IInv'
  BY ReconnectIInv, ReturnIInv, SendPongIInv, UpdateConnectionIInv DEF Strand

--------------------------------------------------------------------------------
LEMMA TimerExpiresIInv == IInv /\ TimerExpires => IInv'
<1>. SUFFICES ASSUME IInv, TimerExpires PROVE IInv'
  OBVIOUS
<1>. USE DEF TimerExpires, Live, network, user, reading, answering
<1>1. /\ TypeOK /\ ~connected /\ link = "none" /\ reader = "none" /\ ~ReconnectDispatched
      /\ handlers["connecting"] = 0 /\ handlers["resuming"] = 0
  BY DEF IInv, TypeOK, Placed, Busy, Stages
<1>2. /\ handlers' \in [Stages -> Nat] /\ handlers'["connecting"] = 1
      /\ handlers'["resuming"] = 0
  BY <1>1 DEF TypeOK, Stages
<1>3. TypeOK' BY <1>1, <1>2 DEF TypeOK
<1>4. Fresh' /\ Buffered' /\ Present' BY <1>1 DEF IInv, Fresh, Buffered, Present
<1>5. Placed' /\ OneReader'
  BY <1>1, <1>2 DEF IInv, Placed, Busy, ReconnectDispatched, OneReader
<1>6. Ordered' /\ Updated' BY StrandKept
<1>. QED BY <1>3, <1>4, <1>5, <1>6 DEF IInv

LEMMA ConnectOkIInv == IInv /\ ConnectOk => IInv'
<1>. SUFFICES ASSUME IInv, ConnectOk PROVE IInv'
  OBVIOUS
<1>. USE DEF ConnectOk, Live, user, reading, answering
<1>1. /\ TypeOK /\ reader = "none" /\ timer = "off" /\ ~ReconnectDispatched
      /\ handlers["connecting"] = 1 /\ handlers["resuming"] = 0
  BY DEF IInv, TypeOK, Placed, Busy, Stages
<1>2. /\ handlers' \in [Stages -> Nat] /\ handlers'["connecting"] = 0
      /\ handlers'["resuming"] = 1
  BY <1>1 DEF TypeOK, Stages, Moves
<1>3. TypeOK' BY <1>1, <1>2 DEF TypeOK
<1>4. Fresh' /\ Buffered' /\ Present' BY <1>2 DEF IInv, Fresh, Buffered, Present
<1>5. Placed' /\ OneReader'
  BY <1>1, <1>2 DEF IInv, Placed, Busy, ReconnectDispatched, OneReader
<1>6. Ordered' BY DEF IInv, Ordered
<1>7. Updated' BY DEF IInv, Updated, UpdateWaits, UpdatedBefore
<1>. QED BY <1>3, <1>4, <1>5, <1>6, <1>7 DEF IInv

LEMMA ConnectFailsIInv == IInv /\ ConnectFails => IInv'
<1>. SUFFICES ASSUME IInv, ConnectFails PROVE IInv'
  OBVIOUS
<1>. USE DEF ConnectFails, Live, network, user, reading, answering
<1>1. /\ TypeOK /\ reader = "none" /\ timer = "off" /\ ~ReconnectDispatched /\ link = "none"
      /\ handlers["connecting"] = 1 /\ handlers["resuming"] = 0
  BY DEF IInv, TypeOK, Placed, Busy, Stages
<1>2. /\ handlers' \in [Stages -> Nat] /\ handlers'["connecting"] = 0
      /\ handlers'["resuming"] = 0
  BY <1>1 DEF TypeOK, Stages, Ends
<1>3. TypeOK' BY <1>1, <1>2 DEF TypeOK
<1>4. Fresh' /\ Buffered' /\ Present' BY <1>1 DEF IInv, Fresh, Buffered, Present
<1>5. Placed' /\ OneReader'
  BY <1>1, <1>2 DEF IInv, Placed, Busy, ReconnectDispatched, OneReader
<1>6. Ordered' /\ Updated' BY StrandKept
<1>. QED BY <1>3, <1>4, <1>5, <1>6 DEF IInv

LEMMA ResumeIInv == IInv /\ Resume => IInv'
<1>. SUFFICES ASSUME IInv, Resume PROVE IInv'
  OBVIOUS
<1>. USE DEF Resume, Live, network, user
<1>1. /\ TypeOK /\ reader = "none" /\ timer = "off" /\ ~ReconnectDispatched /\ connected
      /\ handlers["connecting"] = 0 /\ handlers["resuming"] = 1
  BY DEF IInv, TypeOK, Placed, Busy, Stages
<1>2. /\ ~WriteThrows /\ reader' = "pending" /\ UNCHANGED crashed
      /\ Moves("resuming", "joining")
  BY <1>1 DEF WriteThrows
<1>3. /\ handlers' \in [Stages -> Nat] /\ handlers'["connecting"] = 0
      /\ handlers'["resuming"] = 0 /\ handlers'["joining"] > 0
  BY <1>1, <1>2 DEF TypeOK, Stages, Moves
<1>4. Fresh' /\ Buffered' /\ Present'
  BY <1>3 DEF IInv, Fresh, Buffered, Present
<1>5. CASE strand_queue = <<>>
  <2>1. handler_connection' = connection /\ strand_queue' = <<>> /\ Len(strand_queue) = 0
    BY <1>5
  <2>2. TypeOK' BY <1>1, <1>2, <1>3, <2>1 DEF TypeOK
  <2>3. Placed' /\ OneReader'
    BY <1>1, <1>2, <1>3, <2>1 DEF IInv, Placed, Busy, ReconnectDispatched, OneReader
  <2>4. Ordered' BY <2>1 DEF Ordered
  <2>5. Updated' BY <1>1, <2>1 DEF IInv, Updated, TypeOK
  <2>. QED BY <1>4, <2>2, <2>3, <2>4, <2>5 DEF IInv
<1>6. CASE strand_queue # <<>>
  <2>. DEFINE job == Job("UpdateConnection", connection)
  <2>1. /\ job \in Jobs /\ job.job = "UpdateConnection" /\ job.connection = connection
    BY <1>1 DEF Job, Jobs, TypeOK
  <2>2. strand_queue' = Append(strand_queue, job) /\ UNCHANGED handler_connection
    BY <1>6 DEF Dispatch
  <2>3. /\ strand_queue' \in Seq(Jobs)
        /\ Len(strand_queue') = Len(strand_queue) + 1
        /\ Len(strand_queue) \in Nat
        /\ \A i \in 1..Len(strand_queue) : strand_queue'[i] = strand_queue[i]
        /\ strand_queue'[Len(strand_queue) + 1] = job
    BY <1>1, <2>1, <2>2, Appended
  <2>4. ~ReconnectDispatched' BY <1>1, <2>1, <2>3 DEF ReconnectDispatched
  <2>5. TypeOK' BY <1>1, <1>2, <1>3, <2>2, <2>3 DEF TypeOK
  <2>6. Placed' /\ OneReader'
    BY <1>1, <1>2, <1>3, <2>4 DEF IInv, Placed, Busy, OneReader
  <2>7. Ordered'
    BY <1>1, <2>1, <2>3, <2>4 DEF IInv, Ordered, ReconnectDispatched
  <2>8. Updated'
    <3>1. UpdateWaits' BY <2>1, <2>3 DEF UpdateWaits, UpdatedBefore
    <3>2. \A i \in 1..Len(strand_queue) : UpdatedBefore(i) => UpdatedBefore(i)'
      BY <2>3 DEF UpdatedBefore
    <3>3. \A i \in 1..Len(strand_queue') : strand_queue'[i].job = "SendPong" =>
            /\ strand_queue'[i].connection <= connection
            /\ strand_queue'[i].connection <= handler_connection \/ UpdatedBefore(i)'
      BY <2>1, <2>3, <3>2 DEF IInv, Updated
    <3>. QED BY <1>1, <2>2, <3>1, <3>3 DEF IInv, Updated
  <2>. QED BY <1>4, <2>5, <2>6, <2>7, <2>8 DEF IInv
<1>. QED BY <1>5, <1>6

LEMMA RejoinIInv == IInv /\ Rejoin => IInv'
<1>. SUFFICES ASSUME IInv, Rejoin PROVE IInv'
  OBVIOUS
<1>. USE DEF Rejoin, Live, user, reading, answering
<1>1. TypeOK BY DEF IInv
<1>2. /\ handlers' \in [Stages -> Nat] /\ handlers'["connecting"] = handlers["connecting"]
      /\ handlers'["resuming"] = handlers["resuming"]
  BY <1>1 DEF TypeOK, Stages, Ends
<1>3. TypeOK'
  <2>1. server_channels' \in SUBSET Channels BY <1>1 DEF TypeOK, Sent
  <2>2. crashed' \in BOOLEAN BY <1>1 DEF TypeOK
  <2>. QED BY <1>1, <1>2, <2>1, <2>2 DEF TypeOK
<1>4. Fresh' /\ Buffered' BY DEF IInv, Fresh, Buffered
<1>5. Placed' /\ OneReader'
  BY <1>2 DEF IInv, Placed, Busy, ReconnectDispatched, OneReader
<1>6. Present'
  <2>1. CASE ~join_command_buffer.has_value
    BY <2>1 DEF IInv, Buffered, Present
  <2>2. CASE WriteThrows
    BY <2>2 DEF IInv, Placed, Present, WriteThrows
  <2>3. CASE join_command_buffer.has_value /\ ~WriteThrows
    BY <2>3 DEF IInv, Buffered, Present, Sent, Parting
  <2>. QED BY <2>1, <2>2, <2>3
<1>7. Ordered' /\ Updated' BY StrandKept
<1>. QED BY <1>3, <1>4, <1>5, <1>6, <1>7 DEF IInv

LEMMA RecoverIInv == IInv /\ Recover => IInv'
  BY TimerExpiresIInv, ConnectOkIInv, ConnectFailsIInv, ResumeIInv, RejoinIInv
     DEF Recover, Connect

LEMMA StutterIInv == IInv /\ UNCHANGED vars => IInv'
<1>. SUFFICES ASSUME IInv, UNCHANGED vars PROVE IInv'
  OBVIOUS
<1>. USE DEF vars
<1>1. TypeOK' BY DEF IInv, TypeOK
<1>2. Fresh' /\ Buffered' /\ Present'
  BY DEF IInv, Fresh, NoHandler, Buffered, Present, Parting
<1>3. Placed' /\ OneReader' BY DEF IInv, Placed, Busy, ReconnectDispatched, OneReader
<1>4. Ordered' /\ Updated' BY StrandKept DEF Live
<1>. QED BY <1>1, <1>2, <1>3, <1>4 DEF IInv

LEMMA IInvStep == IInv /\ [Next]_vars => IInv'
<1>. SUFFICES ASSUME IInv, [Next]_vars PROVE IInv'
  OBVIOUS
<1>1. CASE UserCalls BY <1>1, JoinBeginIInv, PartBeginIInv DEF UserCalls
<1>2. CASE CallReturns BY <1>2, JoinEndIInv, PartEndIInv DEF CallReturns
<1>3. CASE Answer BY <1>3, HandlePingIInv DEF Answer
<1>. QED BY <1>1, <1>2, <1>3, StartIInv, LinkLostIInv, ReadIInv, OnReadIInv, StrandIInv,
            RecoverIInv, StutterIInv DEF Next

THEOREM IInvAlways == Spec => []IInv
  BY InitIInv, IInvStep, PTL DEF Spec

--------------------------------------------------------------------------------
(* The state has its types (irc_client.h:46-69), and a timer or a connect  *)
(* under way belongs to a connection that is not connected.                *)
THEOREM TypeCorrect == Spec => []TypeOK
<1>. IInv => TypeOK BY DEF IInv
<1>. QED BY IInvAlways, PTL

(* Client::Join and the reconnect: what the list shows is joined at Twitch. *)
THEOREM ListedIsJoined == Spec => []JoinedOnServer
<1>. IInv => JoinedOnServer
  BY DEF IInv, Present, JoinedOnServer, Settled, NoHandler, Stages
<1>. QED BY IInvAlways, PTL

(* Client::OnRead, Reconnect and the handlers of the timer, which no strand *)
(* keeps apart: one reader all the same, of the connection that stands.    *)
THEOREM ReaderIsAlone == Spec => []OneReader
<1>. IInv => OneReader BY DEF IInv
<1>. QED BY IInvAlways, PTL

(* MessageHandler::UpdateConnection and SendPong: a PONG is written to a    *)
(* connection as new as that of its PING, however long the update waits.   *)
THEOREM PongsFindConnection == Spec => []PongFindsConnection
<1>1. IInv => PongFindsConnection
  <2>. SUFFICES ASSUME IInv, Runs("SendPong")
                PROVE  /\ Head(strand_queue).connection <= handler_connection
                       /\ handler_connection = connection => connected
    BY DEF PongFindsConnection
  <2>1. TypeOK /\ strand_queue # <<>> /\ Live BY DEF IInv, Runs
  <2>2. 1 \in 1..Len(strand_queue) /\ strand_queue[1].job = "SendPong"
        /\ Head(strand_queue) = strand_queue[1]
    BY <2>1, Headed DEF Runs
  <2>3. ~UpdatedBefore(1) BY DEF UpdatedBefore
  <2>. QED BY <2>1, <2>2, <2>3 DEF IInv, Updated
<1>. QED BY <1>1, IInvAlways, PTL

(* The exceptions of Connect, Write and Join(): none reaches a client that *)
(* is connected and has joined.                                            *)
THEOREM CrashHasCause == Spec => CrashOnlyWhileApart
<1>1. IInv /\ [Next]_vars =>
        [crashed' /\ ~crashed => ~connected \/ ~join_command_buffer.has_value]_vars
  <2>. SUFFICES ASSUME IInv, Next, crashed', ~crashed
                PROVE  ~connected \/ ~join_command_buffer.has_value
    OBVIOUS
  <2>1. CASE Start BY <2>1 DEF Start, IInv, Fresh
  <2>2. CASE UserCalls
    BY <2>2 DEF UserCalls, JoinBegin, PartBegin, WriteThrows
  <2>3. CASE CallReturns
    BY <2>3 DEF CallReturns, JoinEnd, PartEnd, WriteThrows
  <2>4. CASE LinkLost \/ Read \/ OnRead
    BY <2>4 DEF LinkLost, Read, ReadBytes, ReadFails, OnRead
  <2>5. CASE Answer \/ Strand
    BY <2>5 DEF Answer, HandlePing, Strand, Reconnect, Return, UpdateConnection, SendPong,
                WriteThrows
  <2>6. CASE Recover
    BY <2>6 DEF Recover, TimerExpires, Connect, ConnectOk, ConnectFails, Resume, Rejoin,
                WriteThrows, IInv, TypeOK
  <2>. QED BY <2>1, <2>2, <2>3, <2>4, <2>5, <2>6 DEF Next
<1>. QED BY <1>1, IInvAlways, PTL DEF Spec, CrashOnlyWhileApart

--------------------------------------------------------------------------------
LEMMA MembershipStep ==
  IInv /\ [Next]_vars => [Membership!MembershipNext]_(Membership!membershipVars)
<1>. SUFFICES ASSUME IInv, [Next]_vars
              PROVE  Membership!MembershipNext \/ UNCHANGED Membership!membershipVars
  OBVIOUS
<1>. USE DEF Membership!membershipVars, Membership!MembershipNext
<1>1. CASE UNCHANGED vars BY <1>1 DEF vars
<1>2. CASE Start BY <1>2 DEF Start, user
<1>3. ASSUME NEW cs \in SUBSET Channels, JoinBegin(cs) PROVE UNCHANGED Membership!membershipVars
  BY <1>3 DEF JoinBegin, network
<1>4. CASE JoinEnd
  <2>1. CASE WriteThrows BY <1>4, <2>1 DEF JoinEnd
  <2>2. CASE ~WriteThrows
    <3>1. Membership!Want(call.channels)
      BY <1>4, <2>2 DEF JoinEnd, Sent, Membership!Want
    <3>2. call.channels \in SUBSET Channels BY DEF IInv, TypeOK
    <3>. QED BY <3>1, <3>2
  <2>. QED BY <2>1, <2>2
<1>5. ASSUME NEW c \in Channels, PartBegin(c)
      PROVE  Membership!LeaveChannel(c) \/ UNCHANGED Membership!membershipVars
  BY <1>5 DEF PartBegin, Sent, Membership!LeaveChannel
<1>6. CASE PartEnd
  <2>1. PICK c \in Channels : call.channels = {c} BY <1>6 DEF PartEnd, IInv, Buffered
  <2>2. Membership!Forget(c) BY <1>6, <2>1 DEF PartEnd, network, Membership!Forget
  <2>. QED BY <2>2
<1>7. CASE LinkLost BY <1>7 DEF LinkLost, user, Membership!Drop
<1>8. CASE Read \/ OnRead
  BY <1>8 DEF Read, ReadBytes, ReadFails, OnRead, network, user
<1>9. CASE Answer \/ Strand
  BY <1>9 DEF Answer, HandlePing, Strand, Reconnect, Return, UpdateConnection, SendPong,
              network, user
<1>10. CASE Recover
  <2>1. CASE Rejoin
    BY <2>1 DEF Rejoin, Sent, user, IInv, Buffered, Membership!Restore
  <2>2. CASE ~Rejoin
    BY <1>10, <2>2 DEF Recover, TimerExpires, Connect, ConnectOk, ConnectFails, Resume,
                       network, user
  <2>. QED BY <2>1, <2>2
<1>. QED BY <1>1, <1>2, <1>3, <1>4, <1>5, <1>6, <1>7, <1>8, <1>9, <1>10
         DEF Next, UserCalls, CallReturns

(* Join, Part, a lost connection and a reconnect are the steps of          *)
(* ChannelMembership: a reconnect restores all of the list or nothing.     *)
THEOREM ImplementsChannelMembership == Spec => MembershipSpec
<1>1. Init => Membership!MembershipInit BY DEF Init, Membership!MembershipInit
<1>. QED BY <1>1, MembershipStep, IInvAlways, PTL
         DEF Spec, MembershipSpec, Membership!MembershipSpec

================================================================================
