--------------------------- MODULE ApiSessionProofs ---------------------------
(***************************************************************************)
(* ApiSession for any connections and any requests, those too whose        *)
(* handlers answer twice, not at all, throw or end the program: the API's  *)
(* handlers run one at a time, and each writes to an idle connection.      *)
(***************************************************************************)
EXTENDS ApiSession, TLAPS

Outcome == [sent : Seq(Nat), end : {"returns", "throws", "dead"}]

LEMMA DoneType == ASSUME NEW sent \in Seq(Nat) PROVE Done(sent) \in Outcome
BY DEF Done, Outcome

LEMMA StatusType ==
  /\ <<>> \in Seq(Nat)
  /\ \A a \in Nat : <<a>> \in Seq(Nat)
  /\ \A a, b \in Nat : <<a, b>> \in Seq(Nat)
OBVIOUS

LEMMA EndType == Throws \in Outcome /\ Dead \in Outcome
BY StatusType DEF Throws, Dead, Outcome

(* The responses that the handlers send themselves. *)
LEMMA AnswerType ==
  /\ Done(<<>>) \in Outcome
  /\ Done(<<200>>) \in Outcome /\ Done(<<400>>) \in Outcome
  /\ Done(<<404>>) \in Outcome /\ Done(<<405>>) \in Outcome
  /\ Done(<<500, 200>>) \in Outcome /\ Done(<<500, 405>>) \in Outcome
<1>1. ASSUME NEW a \in Nat PROVE Done(<<a>>) \in Outcome
  BY DoneType, StatusType
<1>2. ASSUME NEW a \in Nat, NEW b \in Nat PROVE Done(<<a, b>>) \in Outcome
  BY DoneType, StatusType
<1>3. Done(<<>>) \in Outcome
  BY DoneType, StatusType
<1>4. Done(<<200>>) \in Outcome /\ Done(<<400>>) \in Outcome
  BY <1>1
<1>5. Done(<<404>>) \in Outcome /\ Done(<<405>>) \in Outcome
  BY <1>1
<1>6. Done(<<500, 200>>) \in Outcome /\ Done(<<500, 405>>) \in Outcome
  BY <1>2
<1> QED BY <1>3, <1>4, <1>5, <1>6

LEMMA BareType == ASSUME NEW call PROVE Bare(call) \subseteq Outcome
BY AnswerType, EndType DEF Bare

LEMMA TriedType == ASSUME NEW call PROVE Tried(call) \subseteq Outcome
BY AnswerType, EndType DEF Tried

LEMMA JsonType == ASSUME NEW dumped PROVE Json(dumped) \subseteq Outcome
BY AnswerType DEF Json

(* A validator's answers and the handler's are one sequence. *)
LEMMA WithType ==
  ASSUME NEW v, v.sent \in Seq(Nat), NEW outcomes \in SUBSET Outcome
  PROVE  With(v, outcomes) \subseteq Outcome
<1>1. Done(v.sent) \in Outcome
  BY DoneType
<1>2. ASSUME NEW o \in Outcome
      PROVE  [o EXCEPT !.sent = v.sent \o @] \in Outcome
  <2>1. v.sent \o o.sent \in Seq(Nat)
    BY DEF Outcome
  <2> QED BY <2>1 DEF Outcome
<1> QED BY <1>1, <1>2 DEF With

LEMMA ValidatorType ==
  ASSUME NEW r
  PROVE  /\ NotAllowed.sent \in Seq(Nat)
         /\ ValidateBody(r).sent \in Seq(Nat)
         /\ \A method : Validate(method, r).sent \in Seq(Nat)
         /\ ValidateSettingsRequest(r).sent \in Seq(Nat)
         /\ ValidateWithoutReturn(r).sent \in Seq(Nat)
<1>1. NotAllowed.sent \in Seq(Nat) /\ ParseJson(r).sent \in Seq(Nat)
  BY StatusType DEF NotAllowed, ParseJson
<1>2. ValidateBody(r).sent \in Seq(Nat)
  BY <1>1, StatusType DEF ValidateBody
<1>3. \A method : Validate(method, r).sent \in Seq(Nat)
  BY <1>1, <1>2 DEF Validate
<1>4. ValidateSettingsRequest(r).sent \in Seq(Nat)
  BY <1>1, StatusType DEF ValidateSettingsRequest
<1>5. ValidateWithoutReturn(r).sent \in Seq(Nat)
  BY <1>1, StatusType DEF ValidateWithoutReturn
<1> QED BY <1>1, <1>2, <1>3, <1>4, <1>5

LEMMA SettingsHandlersType ==
  ASSUME NEW r
  PROVE  /\ HandleLoadSetting(r) \subseteq Outcome
         /\ HandleSaveSetting(r) \subseteq Outcome
         /\ HandleMaxFileSize(r) \subseteq Outcome
         /\ HandleDownloadsFolder(r) \subseteq Outcome
         /\ HandleRemoveDublicates(r) \subseteq Outcome
         /\ HandleDownloadsResource(r) \subseteq Outcome
         /\ HandleMesureSpeed(r) \subseteq Outcome
         /\ HandleDLServerStatus(r) \subseteq Outcome
<1>1. HandleLoadSetting(r) \subseteq Outcome /\ HandleSaveSetting(r) \subseteq Outcome
  BY WithType, ValidatorType, TriedType DEF HandleLoadSetting, HandleSaveSetting
<1>2. HandleMaxFileSize(r) \subseteq Outcome
  BY WithType, ValidatorType, TriedType, JsonType DEF HandleMaxFileSize
<1>3. HandleDownloadsFolder(r) \subseteq Outcome
  <2>1. With(Validate("PUT", r), Bare({"ok", "throws"})) \subseteq Outcome
    BY WithType, ValidatorType, BareType
  <2>2. Json(BOOLEAN) \subseteq Outcome
    BY JsonType
  <2>3. {Done(<<200>>), Done(<<500, 405>>)} \subseteq Outcome
    BY AnswerType
  <2> QED BY <2>1, <2>2, <2>3 DEF HandleDownloadsFolder
<1>4. HandleRemoveDublicates(r) \subseteq Outcome
  BY AnswerType, TriedType, EndType DEF HandleRemoveDublicates
<1>5. HandleDownloadsResource(r) \subseteq Outcome
  BY WithType, ValidatorType, TriedType, JsonType DEF HandleDownloadsResource
<1>6. HandleMesureSpeed(r) \subseteq Outcome
  <2>2. (IF r.method # "POST" THEN <<405>> ELSE <<>>) \o <<200>> \in Seq(Nat)
    BY StatusType
  <2>3. Done((IF r.method # "POST" THEN <<405>> ELSE <<>>) \o <<200>>) \in Outcome
    BY ZenonT(30), <2>2, DoneType
  <2> QED BY AnswerType, <2>3 DEF HandleMesureSpeed
<1>7. HandleDLServerStatus(r) \subseteq Outcome
  BY AnswerType, JsonType DEF HandleDLServerStatus
<1> QED BY <1>1, <1>2, <1>3, <1>4, <1>5, <1>6, <1>7

LEMMA ChatHandlersType ==
  ASSUME NEW r
  PROVE  /\ HandleList(r) \subseteq Outcome
         /\ HandleRoleFilterLevel(r) \subseteq Outcome
         /\ HandleWhitelistOnly(r) \subseteq Outcome
         /\ HandleSetReconnectTimeout(r) \subseteq Outcome
         /\ HandleJoinChannel(r) \subseteq Outcome
         /\ HandlePartChannel(r) \subseteq Outcome
         /\ HandleShowChat(r) \subseteq Outcome
         /\ HandleWrongEndPoint(r) \subseteq Outcome
<1>2. HandleList(r) \subseteq Outcome
  BY AnswerType, WithType, ValidatorType, BareType DEF HandleList
<1>3. HandleRoleFilterLevel(r) \subseteq Outcome /\ HandleWhitelistOnly(r) \subseteq Outcome
  BY WithType, ValidatorType, BareType DEF HandleRoleFilterLevel, HandleWhitelistOnly
<1>4. HandleSetReconnectTimeout(r) \subseteq Outcome /\ HandleShowChat(r) \subseteq Outcome
  BY WithType, ValidatorType, BareType DEF HandleSetReconnectTimeout, HandleShowChat
<1>5. HandleJoinChannel(r) \subseteq Outcome /\ HandlePartChannel(r) \subseteq Outcome
  BY WithType, ValidatorType, BareType, JsonType DEF HandleJoinChannel, HandlePartChannel
<1>6. HandleWrongEndPoint(r) \subseteq Outcome
  BY AnswerType DEF HandleWrongEndPoint
<1> QED BY <1>2, <1>3, <1>4, <1>5, <1>6

(* Every request has outcomes, each a sequence of responses. *)
LEMMA OutcomesType == ASSUME NEW r \in Requests PROVE Outcomes(r) \subseteq Outcome
<1>2. Api(r) \subseteq Outcome
  BY SettingsHandlersType, ChatHandlersType DEF Api
<1>3. CASE IsApi(r)
  BY AnswerType, <1>2, <1>3 DEF Outcomes
<1>4. CASE ~IsApi(r)
  <2>1. r.target \in Files
    BY <1>4 DEF IsApi, Requests, Files
  <2>2. ServeFile(r) \subseteq Outcome
    BY AnswerType, <2>1, EndType DEF ServeFile, Files
  <2> QED BY AnswerType, <1>4, <2>2 DEF Outcomes
<1> QED BY <1>3, <1>4

--------------------------------------------------------------------------------
(* A waiting or handled request has neither a read nor a write beside it,   *)
(* and is one that was asked.                                               *)
Alone == \A s \in Sessions :
  stage[s] \in {"queued", "running"} => reads[s] = 0 /\ writes[s] = 0 /\ request[s] \in Asked

IInv == TypeOK /\ Alone /\ OneHandler

LEMMA InitInv == Init => IInv
<1> SUFFICES ASSUME Init PROVE IInv
  OBVIOUS
<1>1. /\ queue = <<>> /\ queue \in Seq(Sessions) /\ DOMAIN queue = {}
      /\ stage = [s \in Sessions |-> "absent"]
  BY DEF Init
<1>2. {queue[i] : i \in DOMAIN queue} = {} /\ {s \in Sessions : stage[s] = "queued"} = {}
  BY <1>1
<1>3. request \in [Sessions -> Asked \cup {NoRequest}]
  BY DEF Init
<1>4. reads \in [Sessions -> Nat] /\ writes \in [Sessions -> Nat]
  BY DEF Init
<1>5. accepting \in BOOLEAN /\ crashed \in BOOLEAN
  BY Zenon DEF Init
<1>6. requests \in 0..MaxRequests
  <2>1. requests = 0 /\ MaxRequests \in Nat
    BY ApiSessionAssumption DEF Init
  <2> QED BY <2>1
<1>7. TypeOK
  BY <1>1, <1>2, <1>3, <1>4, <1>5, <1>6 DEF TypeOK
<1> QED BY <1>1, <1>7 DEF IInv, Alone, OneHandler

(* The strand's queue, element by element. *)
LEMMA QueueType ==
  ASSUME TypeOK
  PROVE  /\ queue \in Seq(Sessions) /\ DOMAIN queue = 1..Len(queue) /\ Len(queue) \in Nat
         /\ \A i \in 1..Len(queue) : queue[i] \in Sessions /\ stage[queue[i]] = "queued"
         /\ \A i, j \in 1..Len(queue) : queue[i] = queue[j] => i = j
<1>1. queue \in Seq(Sessions) /\ DOMAIN queue = 1..Len(queue) /\ Len(queue) \in Nat
  BY DEF TypeOK
<1>2. \A i, j \in 1..Len(queue) : queue[i] = queue[j] => i = j
  BY <1>1 DEF TypeOK
<1>3. ASSUME NEW i \in 1..Len(queue)
      PROVE  queue[i] \in Sessions /\ stage[queue[i]] = "queued"
  <2>1. queue[i] \in {queue[k] : k \in DOMAIN queue}
    BY <1>1
  <2>2. queue[i] \in {s \in Sessions : stage[s] = "queued"}
    BY <2>1 DEF TypeOK
  <2> QED BY <2>2
<1> QED BY <1>1, <1>2, <1>3

(* Write adds the number of responses. *)
LEMMA WriteType ==
  ASSUME TypeOK, NEW s \in Sessions, NEW o \in Outcome, Write(s, o.sent)
  PROVE  /\ writes' \in [Sessions -> Nat]
         /\ \A t \in Sessions : t # s => writes'[t] = writes[t]
<1>1. Len(o.sent) \in Nat
  BY DEF Outcome
<1> QED BY <1>1 DEF Write, TypeOK

LEMMA OnReadInv ==
  ASSUME IInv, NEW s \in Sessions, NEW r \in Asked, OnReadHere(s, r) \/ OnReadApi(s, r)
  PROVE  IInv'
<1> USE DEF IInv
<1>1. r \in Requests
  BY ApiSessionAssumption
<1>2. /\ request' \in [Sessions -> Asked \cup {NoRequest}]
      /\ request' = [request EXCEPT ![s] = r]
      /\ reads' \in [Sessions -> Nat] /\ reads' = [reads EXCEPT ![s] = 0]
      /\ requests' \in 0..MaxRequests /\ UNCHANGED <<accepting, crashed>>
      /\ writes[s] = 0 /\ reads[s] = 1
  <2>1. OnRead(s, r)
    BY DEF OnReadHere, OnReadApi
  <2>2. request' \in [Sessions -> Asked \cup {NoRequest}]
    BY <2>1 DEF OnRead, TypeOK
  <2>3. reads' \in [Sessions -> Nat]
    BY <2>1 DEF OnRead, TypeOK
  <2>4. requests' \in 0..MaxRequests
    BY <2>1, ApiSessionAssumption DEF OnRead, TypeOK
  <2> QED BY <2>1, <2>2, <2>3, <2>4 DEF OnRead
<1>3. stage[s] \notin {"queued", "running"}
  BY <1>2 DEF Alone
<1>4. CASE OnReadHere(s, r)
  <2>1. stage' = [stage EXCEPT ![s] = "sent"] /\ queue' = queue
    BY <1>4 DEF OnReadHere
  <2>2. PICK o \in Outcomes(r) : Write(s, o.sent)
    BY <1>4 DEF OnReadHere
  <2>3. o \in Outcome
    BY <1>1, OutcomesType
  <2>4. /\ writes' \in [Sessions -> Nat]
        /\ \A t \in Sessions : t # s => writes'[t] = writes[t]
    BY <2>2, <2>3, WriteType
  <2>5. TypeOK'
    <3>1. {t \in Sessions : stage'[t] = "queued"} = {t \in Sessions : stage[t] = "queued"}
      BY <1>3, <2>1 DEF TypeOK
    <3>2. stage' \in [Sessions -> {"absent", "reading", "queued", "running", "sent", "closed"}]
      BY <2>1 DEF TypeOK
    <3> QED BY <1>2, <2>1, <2>4, <3>1, <3>2 DEF TypeOK
  <2>6. Alone'
    BY <1>2, <2>1, <2>4 DEF Alone, TypeOK
  <2>7. OneHandler'
    BY <2>1 DEF OneHandler, TypeOK
  <2> QED BY <2>5, <2>6, <2>7
<1>5. CASE OnReadApi(s, r)
  <2>1. /\ stage' = [stage EXCEPT ![s] = "queued"] /\ queue' = Append(queue, s)
        /\ writes' = writes
    BY <1>5 DEF OnReadApi, Dispatch
  <2>2. TypeOK'
    <3>1. \A i \in DOMAIN queue : queue[i] # s
      BY <1>3, QueueType
    <3>2. /\ queue' \in Seq(Sessions) /\ DOMAIN queue' = 1..(Len(queue) + 1)
          /\ DOMAIN queue = 1..Len(queue) /\ Len(queue) \in Nat
          /\ \A i \in DOMAIN queue : queue'[i] = queue[i]
          /\ queue'[Len(queue) + 1] = s
      BY <2>1, QueueType
    <3>3. \A i, j \in DOMAIN queue' : queue'[i] = queue'[j] => i = j
      BY <3>1, <3>2, QueueType
    <3>4. {queue'[i] : i \in DOMAIN queue'} = {queue[i] : i \in DOMAIN queue} \cup {s}
      BY <3>2
    <3>5. {t \in Sessions : stage'[t] = "queued"} =
            {t \in Sessions : stage[t] = "queued"} \cup {s}
      BY <2>1 DEF TypeOK
    <3>6. stage' \in [Sessions -> {"absent", "reading", "queued", "running", "sent", "closed"}]
      BY <2>1 DEF TypeOK
    <3> QED BY <1>2, <2>1, <3>2, <3>3, <3>4, <3>5, <3>6 DEF TypeOK
  <2>3. Alone'
    BY <1>2, <2>1 DEF Alone, TypeOK
  <2>4. OneHandler'
    BY <2>1 DEF OneHandler, TypeOK
  <2> QED BY <2>2, <2>3, <2>4
<1> QED BY <1>4, <1>5

LEMMA BeginInv == ASSUME IInv, Begin PROVE IInv'
<1> USE DEF IInv
<1> DEFINE h == Head(queue)
<1>1. /\ queue # <<>> /\ queue' = Tail(queue) /\ stage' = [stage EXCEPT ![h] = "running"]
      /\ UNCHANGED <<accepting, request, reads, writes, requests, crashed>>
      /\ \A s \in Sessions : stage[s] # "running"
  BY DEF Begin
<1>2. /\ queue' \in Seq(Sessions) /\ Len(queue) \in Nat \ {0}
      /\ DOMAIN queue' = 1..(Len(queue) - 1)
      /\ \A i \in DOMAIN queue' : queue'[i] = queue[i + 1]
      /\ h = queue[1]
  BY <1>1, QueueType
<1>3. h \in Sessions /\ stage[h] = "queued"
  BY <1>2, QueueType
<1>4. TypeOK'
  <2>1. \A i, j \in DOMAIN queue' : queue'[i] = queue'[j] => i = j
    <3>1. ASSUME NEW i \in DOMAIN queue', NEW j \in DOMAIN queue', queue'[i] = queue'[j]
          PROVE  i = j
      <4>1. i + 1 \in 1..Len(queue) /\ j + 1 \in 1..Len(queue) /\ queue[i + 1] = queue[j + 1]
        BY <1>2, <3>1
      <4>2. i + 1 = j + 1
        BY <4>1, QueueType
      <4> QED BY <1>2, <4>2
    <3> QED BY <3>1
  <2>2. {queue'[i] : i \in DOMAIN queue'} = {queue[i] : i \in DOMAIN queue} \ {h}
    <3>1. ASSUME NEW i \in DOMAIN queue'
          PROVE  queue'[i] \in {queue[k] : k \in DOMAIN queue} \ {h}
      <4>1. i + 1 \in 1..Len(queue) /\ i + 1 # 1 /\ 1 \in 1..Len(queue)
        BY <1>2
      <4>2. queue[i + 1] # queue[1]
        BY <4>1, QueueType
      <4>3. queue[i + 1] \in {queue[k] : k \in DOMAIN queue}
        BY <4>1, QueueType
      <4> QED BY <1>2, <4>2, <4>3
    <3>2. ASSUME NEW k \in DOMAIN queue, queue[k] # h
          PROVE  queue[k] \in {queue'[i] : i \in DOMAIN queue'}
      <4>1. k # 1 /\ k - 1 \in DOMAIN queue' /\ queue'[k - 1] = queue[k]
        BY <1>2, <3>2, QueueType
      <4> QED BY <4>1
    <3> QED BY <3>1, <3>2
  <2>3. {t \in Sessions : stage'[t] = "queued"} = {t \in Sessions : stage[t] = "queued"} \ {h}
    BY <1>1, <1>3 DEF TypeOK
  <2>4. stage' \in [Sessions -> {"absent", "reading", "queued", "running", "sent", "closed"}]
    BY <1>1 DEF TypeOK
  <2> QED BY <1>1, <1>2, <2>1, <2>2, <2>3, <2>4 DEF TypeOK
<1>5. Alone'
  BY <1>1, <1>3 DEF Alone, TypeOK
<1>6. OneHandler'
  BY <1>1, <1>3 DEF OneHandler, TypeOK
<1> QED BY <1>4, <1>5, <1>6

(* A step that leaves the strand's queue and who waits on it alone, starts  *)
(* no handler and writes or reads only where none runs or waits.            *)
LEMMA BesidesInv ==
  ASSUME IInv, NEW s \in Sessions, stage[s] # "queued",
         NEW to \in {"absent", "reading", "sent", "closed"},
         stage' = [stage EXCEPT ![s] = to] \/ (stage' = stage /\ stage[s] # "running"),
         queue' = queue, request' = request, requests' = requests,
         reads' \in [Sessions -> Nat], writes' \in [Sessions -> Nat],
         \A t \in Sessions : t # s => reads'[t] = reads[t] /\ writes'[t] = writes[t],
         accepting' \in BOOLEAN, crashed' \in BOOLEAN
  PROVE  IInv'
<1> USE DEF IInv
<1>1. stage' \in [Sessions -> {"absent", "reading", "queued", "running", "sent", "closed"}]
  BY DEF TypeOK
<1>2. \A t \in Sessions : t # s => stage'[t] = stage[t]
  BY DEF TypeOK
<1>3. stage'[s] \notin {"queued", "running"}
  BY DEF TypeOK
<1>4. {t \in Sessions : stage'[t] = "queued"} = {t \in Sessions : stage[t] = "queued"}
  BY <1>2, <1>3
<1>5. TypeOK'
  BY SMTT(30), <1>1, <1>4 DEF TypeOK
<1>6. Alone'
  BY <1>2, <1>3 DEF Alone
<1>7. OneHandler'
  BY <1>2, <1>3 DEF OneHandler
<1> QED BY <1>5, <1>6, <1>7

LEMMA HandleInv == ASSUME IInv, NEW s \in Sessions, Handle(s) PROVE IInv'
<1>1. /\ stage[s] = "running" /\ stage' = [stage EXCEPT ![s] = "sent"]
      /\ UNCHANGED <<accepting, request, reads, queue, requests>>
  BY DEF Handle
<1>2. PICK o \in Outcomes(request[s]) :
        /\ Write(s, o.sent)
        /\ crashed' \in CASE o.end = "returns" -> {FALSE} [] o.end = "throws" -> BOOLEAN
                           [] OTHER -> {TRUE}
  BY DEF Handle
<1>3. crashed' \in BOOLEAN
  BY <1>2
<1>4. request[s] \in Requests
  BY <1>1, ApiSessionAssumption DEF IInv, Alone
<1>5. o \in Outcome
  BY <1>2, <1>4, OutcomesType
<1>6. /\ writes' \in [Sessions -> Nat]
      /\ \A t \in Sessions : t # s => writes'[t] = writes[t]
  BY <1>2, <1>5, WriteType DEF IInv
<1> QED BY <1>1, <1>3, <1>6, BesidesInv DEF IInv, TypeOK

LEMMA WrittenInv ==
  ASSUME IInv, NEW s \in Sessions, OnWrite(s) \/ OnWriteLast(s)
  PROVE  IInv'
<1>1. writes[s] > 0 /\ UNCHANGED <<accepting, request, queue, requests, crashed>>
  BY DEF OnWrite, OnWriteLast
<1>2. stage[s] \notin {"queued", "running"}
  BY <1>1 DEF IInv, Alone
<1>3. writes' = [writes EXCEPT ![s] = @ - 1]
  BY DEF OnWrite, OnWriteLast
<1>4. /\ writes' \in [Sessions -> Nat]
      /\ \A t \in Sessions : t # s => writes'[t] = writes[t]
  BY <1>1, <1>3 DEF IInv, TypeOK
<1>5. /\ reads' \in [Sessions -> Nat]
      /\ \A t \in Sessions : t # s => reads'[t] = reads[t]
  BY DEF OnWrite, OnWriteLast, IInv, TypeOK
<1>6. \/ stage' = [stage EXCEPT ![s] = "reading"]
      \/ stage' = [stage EXCEPT ![s] = "closed"]
  BY DEF OnWrite, OnWriteLast
<1> QED BY <1>1, <1>2, <1>4, <1>5, <1>6, BesidesInv DEF IInv, TypeOK

LEMMA ReadEndsInv == ASSUME IInv, NEW s \in Sessions, ReadEnds(s) PROVE IInv'
<1>1. /\ reads[s] > 0 /\ UNCHANGED <<accepting, request, writes, queue, requests, crashed>>
      /\ reads' = [reads EXCEPT ![s] = @ - 1]
      /\ stage' = [stage EXCEPT ![s] = IF @ = "reading" THEN "closed" ELSE @]
  BY DEF ReadEnds
<1>2. stage[s] \notin {"queued", "running"}
  BY <1>1 DEF IInv, Alone
<1>3. /\ reads' \in [Sessions -> Nat]
      /\ \A t \in Sessions : t # s => reads'[t] = reads[t]
  BY <1>1 DEF IInv, TypeOK
<1>4. stage' = [stage EXCEPT ![s] = "closed"] \/ stage' = stage
  BY <1>1 DEF IInv, TypeOK
<1> QED BY <1>1, <1>2, <1>3, <1>4, BesidesInv DEF IInv, TypeOK

LEMMA AcceptInv == ASSUME IInv, NEW s \in Sessions, Accept(s) PROVE IInv'
<1>1. /\ stage[s] = "absent" /\ stage' = [stage EXCEPT ![s] = "reading"]
      /\ reads' = [reads EXCEPT ![s] = 1]
      /\ UNCHANGED <<accepting, request, writes, queue, requests, crashed>>
  BY DEF Accept
<1>2. /\ reads' \in [Sessions -> Nat]
      /\ \A t \in Sessions : t # s => reads'[t] = reads[t]
  BY <1>1 DEF IInv, TypeOK
<1> QED BY <1>1, <1>2, BesidesInv DEF IInv, TypeOK

LEMMA StutterInv ==
  ASSUME IInv, UNCHANGED <<stage, request, reads, writes, queue, requests, crashed>>,
         accepting' \in BOOLEAN
  PROVE  IInv'
BY DEF IInv, TypeOK, Alone, OneHandler

LEMMA NextInv == IInv /\ [Next]_vars => IInv'
<1> SUFFICES ASSUME IInv, [Next]_vars PROVE IInv'
  OBVIOUS
<1>1. ASSUME NEW s \in Sessions, NEW r \in Asked, OnReadHere(s, r) \/ OnReadApi(s, r)
      PROVE  IInv'
  BY <1>1, OnReadInv
<1>2. ASSUME NEW s \in Sessions, Accept(s)
      PROVE  IInv'
  BY <1>2, AcceptInv
<1>3. ASSUME NEW s \in Sessions, ReadEnds(s)
      PROVE  IInv'
  BY <1>3, ReadEndsInv
<1>4. CASE AcceptFails
  <2>1. accepting' \in BOOLEAN
    BY <1>4, Zenon DEF AcceptFails
  <2> QED BY <1>4, <2>1, StutterInv DEF AcceptFails
<1>5. CASE Begin
  BY <1>5, BeginInv
<1>6. ASSUME NEW s \in Sessions, OnWrite(s) \/ OnWriteLast(s)
      PROVE  IInv'
  BY <1>6, WrittenInv
<1>7. ASSUME NEW s \in Sessions, Handle(s)
      PROVE  IInv'
  BY <1>7, HandleInv
<1>8. CASE UNCHANGED vars
  BY <1>8, StutterInv DEF vars, IInv, TypeOK
<1> QED BY <1>1, <1>2, <1>3, <1>4, <1>5, <1>6, <1>7, <1>8, Zenon DEF Next, Browser, Written

(* The inductive invariant holds in every state of the server: what a       *)
(* connection has pending fits where its request is.                        *)
THEOREM Invariant == Spec => []IInv
BY InitInv, NextInv, PTL DEF Spec

(* The types, and the strand's queue: it holds the connections whose        *)
(* requests wait, each once.                                                *)
THEOREM TypeCorrect == Spec => []TypeOK
<1>1. IInv => TypeOK
  BY DEF IInv
<1> QED BY Invariant, <1>1, PTL

(* Core's settings and lists are touched by one API handler at a time,      *)
(* whatever is asked on however many connections.                           *)
THEOREM HandlersExcludeEachOther == Spec => []OneHandler
<1>1. IInv => OneHandler
  BY DEF IInv
<1> QED BY Invariant, <1>1, PTL

(* The write of a handler, on another thread than the connection's, finds   *)
(* the stream idle: whatever handlers have sent before, twice or never.     *)
THEOREM WriteFindsStreamIdle == Spec => []WriteIsAlone
<1>1. IInv => WriteIsAlone
  BY DEF IInv, Alone, WriteIsAlone
<1> QED BY Invariant, <1>1, PTL

--------------------------------------------------------------------------------
(* The requests that are answered once at most. *)
Once(o) == o.sent = <<>> \/ \E a \in Nat : o.sent = <<a>>

LEMMA OnceLength == ASSUME NEW o, Once(o) PROVE Len(o.sent) <= 1
<1>1. Len(<<>>) = 0 /\ \A a \in Nat : Len(<<a>>) = 1
  OBVIOUS
<1>2. CASE o.sent = <<>>
  BY <1>1, <1>2
<1>3. ASSUME NEW a \in Nat, o.sent = <<a>> PROVE Len(o.sent) <= 1
  BY <1>1, <1>3
<1> QED BY <1>2, <1>3 DEF Once

LEMMA AnswerOnce ==
  /\ Once(Throws) /\ Once(Dead) /\ Once(Done(<<>>))
  /\ \A a \in Nat : Once(Done(<<a>>))
BY DEF Once, Throws, Dead, Done

LEMMA CallsOnce ==
  /\ \A call : \A o \in Bare(call) : Once(o)
  /\ \A call : "throws" \notin call => \A o \in Tried(call) : Once(o)
  /\ \A dumped : \A o \in Json(dumped) : Once(o)
<1>1. ASSUME NEW call, NEW o \in Bare(call) PROVE Once(o)
  BY AnswerOnce DEF Bare
<1>2. ASSUME NEW call, "throws" \notin call, NEW o \in Tried(call) PROVE Once(o)
  BY <1>2, AnswerOnce DEF Tried
<1>3. ASSUME NEW dumped, NEW o \in Json(dumped) PROVE Once(o)
  BY AnswerOnce DEF Json
<1> QED BY <1>1, <1>2, <1>3

(* A validator that lets the handler go on has sent nothing: then one       *)
(* response is sent.                                                        *)
LEMMA WithOnce ==
  ASSUME NEW v, v.value => v.sent = <<>>, ~v.value => Once(v),
         NEW outcomes \in SUBSET Outcome, \A o \in outcomes : Once(o)
  PROVE  \A o \in With(v, outcomes) : Once(o)
<1>1. CASE v.value
  <2>1. ASSUME NEW o \in outcomes PROVE Once([o EXCEPT !.sent = v.sent \o @])
    <3>1. v.sent = <<>> /\ o.sent \in Seq(Nat) /\ o \in Outcome
      BY <1>1 DEF Outcome
    <3>2. v.sent \o o.sent = o.sent
      BY <3>1
    <3>3. [o EXCEPT !.sent = v.sent \o @].sent = o.sent
      BY <3>1, <3>2 DEF Outcome
    <3> QED BY <3>3 DEF Once
  <2> QED BY <1>1, <2>1 DEF With
<1>2. CASE ~v.value
  BY <1>2 DEF With, Done, Once
<1> QED BY <1>1, <1>2

LEMMA ValidatorOnce ==
  ASSUME NEW r
  PROVE  /\ \A method : /\ Validate(method, r).value => Validate(method, r).sent = <<>>
                        /\ ~Validate(method, r).value => Once(Validate(method, r))
         /\ ValidateBody(r).value => ValidateBody(r).sent = <<>>
         /\ ~ValidateBody(r).value => Once(ValidateBody(r))
         /\ ValidateSettingsRequest(r).value => ValidateSettingsRequest(r).sent = <<>>
         /\ ~ValidateSettingsRequest(r).value => Once(ValidateSettingsRequest(r))
<1>1. /\ Once(NotAllowed) /\ ~NotAllowed.value
      /\ ParseJson(r).value => ParseJson(r).sent = <<>>
      /\ ~ParseJson(r).value => Once(ParseJson(r))
  BY DEF Once, NotAllowed, ParseJson
<1>2. /\ ValidateBody(r).value => ValidateBody(r).sent = <<>>
      /\ ~ValidateBody(r).value => Once(ValidateBody(r))
  BY <1>1 DEF ValidateBody, Once
<1>3. /\ ValidateSettingsRequest(r).value => ValidateSettingsRequest(r).sent = <<>>
      /\ ~ValidateSettingsRequest(r).value => Once(ValidateSettingsRequest(r))
  BY <1>1 DEF ValidateSettingsRequest
<1>4. \A method : /\ Validate(method, r).value => Validate(method, r).sent = <<>>
                  /\ ~Validate(method, r).value => Once(Validate(method, r))
  BY <1>1, <1>2 DEF Validate
<1> QED BY <1>2, <1>3, <1>4

(* The validators without a return: with the right method and a body that   *)
(* can be parsed.                                                           *)
LEMMA WithoutReturnOnce ==
  ASSUME NEW r, r.method = "PUT", r.body \in {"good", "wrong"}
  PROVE  /\ ValidateWithoutReturn(r).value => ValidateWithoutReturn(r).sent = <<>>
         /\ ~ValidateWithoutReturn(r).value => Once(ValidateWithoutReturn(r))
<1>1. <<>> \o <<>> = <<>> /\ <<>> \o <<>> \o <<400>> = <<400>> /\ <<>> \o <<>> \o <<>> = <<>>
  OBVIOUS
<1>2. ParseJson(r).sent = <<>>
  BY DEF ParseJson
<1>3. CASE r.body = "good"
  BY <1>1, <1>2, <1>3 DEF ValidateWithoutReturn
<1>4. CASE r.body = "wrong"
  <2>1. ValidateWithoutReturn(r).sent = <<400>> /\ ~ValidateWithoutReturn(r).value
    BY ZenonT(30), <1>1, <1>2, <1>4 DEF ValidateWithoutReturn
  <2> QED BY <2>1 DEF Once
<1> QED BY <1>3, <1>4

LEMMA SettingsHandlersOnce ==
  ASSUME NEW r \in Requests, ~CORS(r), SentOnce(r)
  PROVE  /\ r.target = "load" => \A o \in HandleLoadSetting(r) : Once(o)
         /\ r.target = "save" => \A o \in HandleSaveSetting(r) : Once(o)
         /\ r.target = "max_file_size" => \A o \in HandleMaxFileSize(r) : Once(o)
         /\ r.target = "folder" => \A o \in HandleDownloadsFolder(r) : Once(o)
         /\ r.target = "remove_dublicates" => \A o \in HandleRemoveDublicates(r) : Once(o)
         /\ r.target = "resource_and_prefix" => \A o \in HandleDownloadsResource(r) : Once(o)
         /\ r.target = "mesure_speed" => \A o \in HandleMesureSpeed(r) : Once(o)
         /\ r.target = "dl_server_status" => \A o \in HandleDLServerStatus(r) : Once(o)
<1>1. CASE r.target = "load"
  <2>1. r.method # "POST"
    BY <1>1 DEF SentOnce
  <2>2. HandleLoadSetting(r) = {Done(<<405>>)}
    BY <2>1 DEF HandleLoadSetting, ValidateSettingsRequest, NotAllowed, With
  <2> QED BY <1>1, <2>2, AnswerOnce
<1>2. CASE r.target = "save"
  BY <1>2, WithOnce, ValidatorOnce, CallsOnce, TriedType DEF HandleSaveSetting
<1>3. CASE r.target = "max_file_size"
  BY <1>3, WithOnce, ValidatorOnce, CallsOnce, TriedType DEF HandleMaxFileSize
<1>4. CASE r.target = "folder"
  <2>1. r.method # "POST"
    BY <1>4 DEF SentOnce
  <2>2. \A o \in With(Validate("PUT", r), Bare({"ok", "throws"})) : Once(o)
    BY WithOnce, ValidatorOnce, CallsOnce, BareType
  <2> QED BY <1>4, <2>1, <2>2, CallsOnce DEF HandleDownloadsFolder
<1>5. CASE r.target = "remove_dublicates"
  <2>1. r.method # "POST"
    BY <1>5 DEF SentOnce
  <2> QED BY <1>5, <2>1, AnswerOnce DEF HandleRemoveDublicates
<1>6. CASE r.target = "resource_and_prefix"
  BY <1>6, WithOnce, ValidatorOnce, CallsOnce, TriedType DEF HandleDownloadsResource
<1>7. CASE r.target = "mesure_speed"
  <2>1. r.method = "POST" /\ <<>> \o <<200>> = <<200>>
    BY <1>7 DEF SentOnce
  <2>2. HandleMesureSpeed(r) = {Done(<<>>), Done(<<200>>)}
    BY <2>1 DEF HandleMesureSpeed
  <2> QED BY <1>7, <2>2, AnswerOnce
<1>8. CASE r.target = "dl_server_status"
  BY <1>8, AnswerOnce, CallsOnce DEF HandleDLServerStatus
<1> QED BY <1>1, <1>2, <1>3, <1>4, <1>5, <1>6, <1>7, <1>8

LEMMA ChatHandlersOnce ==
  ASSUME NEW r \in Requests, ~CORS(r), SentOnce(r)
  PROVE  /\ r.target \in {"white_list", "black_list"} => \A o \in HandleList(r) : Once(o)
         /\ r.target = "role_filter_level" => \A o \in HandleRoleFilterLevel(r) : Once(o)
         /\ r.target = "whitelist_only" => \A o \in HandleWhitelistOnly(r) : Once(o)
         /\ r.target = "reconnect_timeout" => \A o \in HandleSetReconnectTimeout(r) : Once(o)
         /\ r.target = "join" => \A o \in HandleJoinChannel(r) : Once(o)
         /\ r.target = "part" => \A o \in HandlePartChannel(r) : Once(o)
         /\ r.target = "show_chat" => \A o \in HandleShowChat(r) : Once(o)
         /\ \A o \in HandleWrongEndPoint(r) : Once(o)
<1>0. r.body \in Bodies
  BY DEF Requests, Bodies
<1>1. ASSUME r.target \in {"white_list", "black_list"}
      PROVE  \A o \in HandleList(r) : Once(o)
  <2>1. \A o \in With(ValidateBody(r), Bare({"dead"})) : Once(o)
    BY WithOnce, ValidatorOnce, CallsOnce, BareType
  <2> QED BY <2>1, AnswerOnce, CallsOnce DEF HandleList
<1>2. \A o \in HandleRoleFilterLevel(r) : Once(o)
  <2>1. \A o \in With(Validate("PUT", r), Bare({"dead"})) : Once(o)
    BY WithOnce, ValidatorOnce, CallsOnce, BareType
  <2> QED BY <2>1, CallsOnce DEF HandleRoleFilterLevel
<1>3. ASSUME r.target = "whitelist_only"
      PROVE  \A o \in HandleWhitelistOnly(r) : Once(o)
  <2>1. CASE r.method = "GET"
    BY <2>1, CallsOnce DEF HandleWhitelistOnly
  <2>2. CASE r.method = "PUT" /\ r.body \in {"good", "wrong"}
    <3>1. \A o \in With(ValidateWithoutReturn(r), Bare({"dead"})) : Once(o)
      BY <2>2, WithoutReturnOnce, WithOnce, CallsOnce, BareType
    <3> QED BY <2>2, <3>1 DEF HandleWhitelistOnly
  <2>3. CASE r.method \notin {"GET", "PUT"} /\ r.body = "good"
    <3>1. /\ ValidateWithoutReturn(r).sent = <<405>> /\ ValidateWithoutReturn(r).value
      <4>1. <<405>> \o <<>> \o <<>> = <<405>>
        OBVIOUS
      <4>2. ParseJson(r).sent = <<>>
        BY <2>3 DEF ParseJson
      <4> QED BY ZenonT(30), <2>3, <4>1, <4>2 DEF ValidateWithoutReturn
    <3>2. Bare({"dead"}) = {Dead}
      BY DEF Bare
    <3>3. Once([Dead EXCEPT !.sent = <<405>> \o @])
      <4>1. <<405>> \o <<>> = <<405>> /\ 405 \in Nat
        OBVIOUS
      <4>2. [Dead EXCEPT !.sent = <<405>> \o @].sent = <<405>>
        BY <4>1 DEF Dead
      <4> QED BY <4>1, <4>2 DEF Once
    <3>4. HandleWhitelistOnly(r) = {[Dead EXCEPT !.sent = <<405>> \o @]}
      BY SMTT(30), <2>3, <3>1, <3>2 DEF HandleWhitelistOnly, With
    <3> QED BY <3>3, <3>4
  <2> QED BY <1>0, <1>3, <2>1, <2>2, <2>3 DEF SentOnce, Bodies
<1>4. ASSUME r.target \in {"reconnect_timeout", "show_chat"}
      PROVE  \A o \in HandleSetReconnectTimeout(r) \cup HandleShowChat(r) : Once(o)
  <2>1. r.method = "PUT" /\ r.body \in {"good", "wrong"}
    BY <1>0, <1>4 DEF SentOnce, Bodies
  <2>2. \A o \in With(ValidateWithoutReturn(r), Bare({"ok"})) : Once(o)
    BY <2>1, WithoutReturnOnce, WithOnce, CallsOnce, BareType
  <2> QED BY <2>2, CallsOnce DEF HandleSetReconnectTimeout, HandleShowChat
<1>5. \A o \in HandleJoinChannel(r) \cup HandlePartChannel(r) : Once(o)
  <2>1. \A o \in With(Validate("POST", r), Bare({"ok", "throws"})) : Once(o)
    BY WithOnce, ValidatorOnce, CallsOnce, BareType
  <2> QED BY <2>1, CallsOnce DEF HandleJoinChannel, HandlePartChannel
<1>6. \A o \in HandleWrongEndPoint(r) : Once(o)
  BY AnswerOnce DEF HandleWrongEndPoint
<1> QED BY <1>1, <1>2, <1>3, <1>4, <1>5, <1>6

(* No request that SentOnce names is answered twice, however its handler    *)
(* ends.                                                                    *)
THEOREM SentOnceIsOnce == \A r \in Requests : SentOnce(r) => AnsweredOnce(r)
<1> SUFFICES ASSUME NEW r \in Requests, SentOnce(r), NEW o \in Outcomes(r)
             PROVE  Once(o)
  BY OnceLength DEF AnsweredOnce
<1>1. CASE CORS(r)
  BY <1>1, AnswerOnce DEF Outcomes
<1>2. CASE ~CORS(r) /\ IsApi(r)
  <2>1. o \in Api(r)
    BY <1>2 DEF Outcomes
  <2>2. ~CORS(r)
    BY <1>2
  <2> QED BY <2>1, <2>2, SettingsHandlersOnce, ChatHandlersOnce DEF Api
<1>3. CASE ~CORS(r) /\ ~IsApi(r)
  <2>1. r.target \in Files
    BY <1>3 DEF IsApi, Requests, Files
  <2> QED BY <1>3, <2>1, AnswerOnce DEF Outcomes, ServeFile, Files
<1> QED BY <1>1, <1>2, <1>3

--------------------------------------------------------------------------------
(* Where every request asked is answered once at most, a connection is read *)
(* when it is in "reading", written to when it is in "sent", never both.    *)
AllOnce == \A r \in Asked : AnsweredOnce(r)

Fits ==
  \A s \in Sessions :
    /\ reads[s] = IF stage[s] = "reading" THEN 1 ELSE 0
    /\ writes[s] \in {0, 1} /\ (writes[s] = 1 => stage[s] = "sent")

LEMMA InitFits == Init => Fits
BY DEF Init, Fits

LEMMA OnceWritten ==
  ASSUME AllOnce, TypeOK, NEW s \in Sessions, NEW r \in Asked, NEW o \in Outcomes(r),
         writes[s] = 0, Write(s, o.sent)
  PROVE  /\ writes' \in [Sessions -> Nat] /\ writes'[s] \in {0, 1}
         /\ \A t \in Sessions : t # s => writes'[t] = writes[t]
<1>1. o \in Outcome
  <2>1. r \in Requests
    BY ApiSessionAssumption
  <2> QED BY <2>1, OutcomesType
<1>2. Len(o.sent) \in Nat /\ Len(o.sent) <= 1
  BY <1>1 DEF AllOnce, AnsweredOnce, Outcome
<1>3. /\ writes' \in [Sessions -> Nat]
      /\ \A t \in Sessions : t # s => writes'[t] = writes[t]
  BY <1>1, WriteType
<1>4. writes'[s] = Len(o.sent)
  BY <1>2 DEF Write, TypeOK
<1>5. \A n \in Nat : n <= 1 => n \in {0, 1}
  OBVIOUS
<1>6. writes'[s] \in {0, 1}
  BY <1>2, <1>4, <1>5, Zenon
<1> QED BY <1>3, <1>6, Zenon

LEMMA ReadFits ==
  ASSUME AllOnce, IInv, Fits, NEW s \in Sessions, NEW r \in Asked,
         OnReadHere(s, r) \/ OnReadApi(s, r)
  PROVE  Fits'
<1>1. /\ reads[s] = 1 /\ writes[s] = 0 /\ reads' = [reads EXCEPT ![s] = 0]
  BY DEF OnReadHere, OnReadApi, OnRead
<1>2. CASE OnReadHere(s, r)
  <2>1. PICK o \in Outcomes(r) : Write(s, o.sent)
    BY <1>2 DEF OnReadHere
  <2>2. /\ writes'[s] \in {0, 1}
        /\ \A t \in Sessions : t # s => writes'[t] = writes[t]
    BY <1>1, <2>1, OnceWritten DEF IInv
  <2> QED BY <1>1, <1>2, <2>2 DEF OnReadHere, Fits, IInv, TypeOK
<1>3. CASE OnReadApi(s, r)
  BY <1>1, <1>3 DEF OnReadApi, Dispatch, Fits, IInv, TypeOK
<1> QED BY <1>2, <1>3

LEMMA HandleFits ==
  ASSUME AllOnce, IInv, Fits, NEW s \in Sessions, Handle(s)
  PROVE  Fits'
<1>1. /\ stage[s] = "running" /\ stage' = [stage EXCEPT ![s] = "sent"] /\ reads' = reads
  BY DEF Handle
<1>2. request[s] \in Asked /\ writes[s] = 0
  BY <1>1 DEF IInv, Alone
<1>3. PICK o \in Outcomes(request[s]) : Write(s, o.sent)
  BY DEF Handle
<1>4. /\ writes'[s] \in {0, 1}
      /\ \A t \in Sessions : t # s => writes'[t] = writes[t]
  BY <1>2, <1>3, OnceWritten DEF IInv
<1> QED BY <1>1, <1>4 DEF Fits, IInv, TypeOK

LEMMA BeginFits == ASSUME IInv, Fits, Begin PROVE Fits'
<1>1. Head(queue) = queue[1] /\ 1 \in 1..Len(queue)
  BY QueueType DEF Begin, IInv
<1>2. stage[Head(queue)] = "queued"
  BY <1>1, QueueType DEF IInv
<1> QED BY <1>2 DEF Begin, Fits, IInv, TypeOK

LEMMA NextFits == ASSUME AllOnce, IInv, Fits, [Next]_vars PROVE Fits'
<1>1. ASSUME NEW s \in Sessions, NEW r \in Asked, OnReadHere(s, r) \/ OnReadApi(s, r)
      PROVE  Fits'
  BY <1>1, ReadFits
<1>2. ASSUME NEW s \in Sessions, Accept(s) \/ ReadEnds(s)
      PROVE  Fits'
  BY <1>2 DEF Accept, ReadEnds, Fits, IInv, TypeOK
<1>3. CASE AcceptFails \/ UNCHANGED vars
  BY <1>3 DEF AcceptFails, vars, Fits
<1>4. CASE Begin
  BY <1>4, BeginFits
<1>5. ASSUME NEW s \in Sessions, OnWrite(s) \/ OnWriteLast(s)
      PROVE  Fits'
  BY <1>5 DEF OnWrite, OnWriteLast, Fits, IInv, TypeOK
<1>6. ASSUME NEW s \in Sessions, Handle(s)
      PROVE  Fits'
  BY <1>6, HandleFits
<1> QED BY <1>1, <1>2, <1>3, <1>4, <1>5, <1>6, Zenon DEF Next, Browser, Written

LEMMA FitsAlways == ASSUME AllOnce PROVE Spec => [](IInv /\ Fits)
<1>1. Init => IInv /\ Fits
  BY InitInv, InitFits
<1>2. IInv /\ Fits /\ [Next]_vars => IInv' /\ Fits'
  BY NextInv, NextFits
<1> QED BY <1>1, <1>2, PTL DEF Spec

(* When the browser asks only what is answered once at most, no connection  *)
(* ever has two operations under way, on whatever threads they end.         *)
THEOREM OneAtATime == ASSUME AllOnce PROVE Spec => []OneOperation
<1>1. Fits => OneOperation
  BY DEF Fits, OneOperation
<1> QED BY <1>1, FitsAlways, PTL

--------------------------------------------------------------------------------
(* The refinement: where a connection's request is says what its client     *)
(* sees.                                                                    *)
LEMMA ExchangeKnown ==
  ASSUME Fits, NEW s \in Sessions
  PROVE  /\ stage[s] = "absent" => Exchange(s) = "absent"
         /\ stage[s] \in {"queued", "running"} => Exchange(s) = "asked"
         /\ stage[s] = "reading" => Exchange(s) = "idle"
         /\ stage[s] = "sent" => Exchange(s) = IF writes[s] = 0 THEN "asked" ELSE "answering"
         /\ stage[s] = "closed" => Exchange(s) = "gone"
BY DEF Fits, Exchange, Unanswered

LEMMA ExchangeKnownNext ==
  ASSUME Fits', NEW s \in Sessions
  PROVE  /\ stage'[s] = "absent" => Exchange(s)' = "absent"
         /\ stage'[s] \in {"queued", "running"} => Exchange(s)' = "asked"
         /\ stage'[s] = "reading" => Exchange(s)' = "idle"
         /\ stage'[s] = "sent" => Exchange(s)' = IF writes'[s] = 0 THEN "asked" ELSE "answering"
         /\ stage'[s] = "closed" => Exchange(s)' = "gone"
BY DEF Fits, Exchange, Unanswered

ServiceStep == Service!Next \/ UNCHANGED <<[s \in Sessions |-> Exchange(s)], crashed>>

(* What one connection does moves it as RequestResponse allows.             *)
LEMMA OneMoves ==
  ASSUME NEW s \in Sessions, ~crashed, crashed' \in BOOLEAN, crashed \in BOOLEAN,
         \A t \in Sessions : t # s => stage'[t] = stage[t] /\ writes'[t] = writes[t],
         \/ Exchange(s)' = Exchange(s)
         \/ <<Exchange(s), Exchange(s)'>> \in Service!Moves
  PROVE  ServiceStep
<1> DEFINE before == [t \in Sessions |-> Exchange(t)]
           after == [t \in Sessions |-> Exchange(t)']
<1>1. \A t \in Sessions : t # s => Exchange(t)' = Exchange(t)
  BY DEF Exchange, Unanswered
<1>2. CASE Exchange(s)' = Exchange(s)
  <2>1. before' = before
    BY <1>1, <1>2
  <2>2. CASE crashed' = crashed
    BY <2>1, <2>2 DEF ServiceStep
  <2>3. CASE crashed' = TRUE
    BY <2>1, <2>3 DEF ServiceStep, Service!Next, Service!End
  <2> QED BY <2>2, <2>3
<1>3. CASE <<Exchange(s), Exchange(s)'>> \in Service!Moves
  <2>1. before' = [before EXCEPT ![s] = Exchange(s)']
    BY <1>1
  <2>2. Service!Move(s)
    BY <1>3, <2>1 DEF Service!Move
  <2> QED BY <2>2 DEF ServiceStep, Service!Next
<1> QED BY <1>2, <1>3

LEMMA StepMoves ==
  ASSUME AllOnce, IInv, Fits, [Next]_vars
  PROVE  ServiceStep
<1>1. IInv' /\ Fits'
  BY NextInv, NextFits
<1> USE DEF Service!Moves
<1>2. crashed \in BOOLEAN /\ crashed' \in BOOLEAN
  BY <1>1 DEF IInv, TypeOK
<1>3. ASSUME NEW s \in Sessions, NEW r \in Asked, OnReadHere(s, r) \/ OnReadApi(s, r)
      PROVE  ServiceStep
  <2>1. ~crashed /\ reads[s] = 1
    BY <1>3 DEF OnReadHere, OnReadApi, OnRead
  <2>2. stage[s] = "reading" /\ stage'[s] \in {"sent", "queued"}
    BY <1>3, <2>1 DEF OnReadHere, OnReadApi, Dispatch, Fits, IInv, TypeOK
  <2>3. \A t \in Sessions : t # s => stage'[t] = stage[t] /\ writes'[t] = writes[t]
    BY <1>3 DEF OnReadHere, OnReadApi, Dispatch, Write, IInv, TypeOK
  <2> QED BY <1>1, <1>2, <2>1, <2>2, <2>3, ExchangeKnown, ExchangeKnownNext, OneMoves
<1>4. ASSUME NEW s \in Sessions, Accept(s) \/ ReadEnds(s)
      PROVE  ServiceStep
  <2>1. ~crashed /\ (\A t \in Sessions : t # s => stage'[t] = stage[t]) /\ writes' = writes
    BY <1>4 DEF Accept, ReadEnds, IInv, TypeOK
  <2>2. \/ stage[s] = "absent" /\ stage'[s] = "reading"
        \/ stage[s] = "reading" /\ stage'[s] = "closed"
    BY <1>4 DEF Accept, ReadEnds, Fits, IInv, TypeOK
  <2> QED BY <1>1, <1>2, <2>1, <2>2, ExchangeKnown, ExchangeKnownNext, OneMoves
<1>5. CASE AcceptFails \/ UNCHANGED vars
  <2>1. UNCHANGED <<stage, writes, crashed>>
    BY <1>5 DEF AcceptFails, vars
  <2> QED BY <2>1 DEF ServiceStep, Exchange, Unanswered
<1>6. CASE Begin
  <2> DEFINE s == Head(queue)
  <2>1. s = queue[1] /\ 1 \in 1..Len(queue)
    BY <1>6, QueueType DEF Begin, IInv
  <2>2. s \in Sessions /\ stage[s] = "queued"
    BY <2>1, QueueType DEF IInv
  <2>3. ~crashed /\ stage' = [stage EXCEPT ![s] = "running"] /\ writes' = writes
    BY <1>6 DEF Begin
  <2>4. stage'[s] = "running" /\ \A t \in Sessions : t # s => stage'[t] = stage[t]
    BY <2>2, <2>3 DEF IInv, TypeOK
  <2> HIDE DEF s
  <2> QED BY <1>1, <1>2, <2>2, <2>3, <2>4, ExchangeKnown, ExchangeKnownNext, OneMoves
<1>7. ASSUME NEW s \in Sessions, OnWrite(s) \/ OnWriteLast(s)
      PROVE  ServiceStep
  <2>1. /\ ~crashed /\ writes[s] > 0 /\ stage'[s] \in {"reading", "closed"}
        /\ \A t \in Sessions : t # s => stage'[t] = stage[t] /\ writes'[t] = writes[t]
    BY <1>7 DEF OnWrite, OnWriteLast, IInv, TypeOK
  <2>2. stage[s] = "sent" /\ writes[s] # 0
    BY <2>1 DEF Fits
  <2> QED BY <1>1, <1>2, <2>1, <2>2, ExchangeKnown, ExchangeKnownNext, OneMoves
<1>8. ASSUME NEW s \in Sessions, Handle(s)
      PROVE  ServiceStep
  <2>1. ~crashed /\ stage[s] = "running" /\ stage'[s] = "sent"
    BY <1>8 DEF Handle, IInv, TypeOK
  <2>2. \A t \in Sessions : t # s => stage'[t] = stage[t] /\ writes'[t] = writes[t]
    BY <1>8 DEF Handle, Write, IInv, TypeOK
  <2> QED BY <1>1, <1>2, <2>1, <2>2, ExchangeKnown, ExchangeKnownNext, OneMoves
<1> QED BY <1>3, <1>4, <1>5, <1>6, <1>7, <1>8, Zenon DEF Next, Browser, Written

(* Then a client sees what RequestResponse promises: it asks in turn, is    *)
(* answered once at most, and no answer comes unasked - beside any other    *)
(* connections, and up to the step in which the program may end.            *)
THEOREM ImplementsRequestResponse == ASSUME AllOnce PROVE Spec => RequestResponseSpec
<1>1. Init => Service!Init
  BY DEF Init, Service!Init, Exchange, Unanswered
<1>2. IInv /\ Fits /\ [Next]_vars =>
        [Service!Next]_<<[s \in Sessions |-> Exchange(s)], crashed>>
  BY StepMoves DEF ServiceStep
<1> QED BY <1>1, <1>2, FitsAlways, PTL DEF Spec, RequestResponseSpec, Service!Spec

(* So both hold for the requests that SentOnce tells by their target, their *)
(* method and their body.                                                   *)
COROLLARY OnceForSentOnce ==
  ASSUME \A r \in Asked : SentOnce(r)
  PROVE  Spec => []OneOperation /\ RequestResponseSpec
<1>1. AllOnce
  BY SentOnceIsOnce, ApiSessionAssumption DEF AllOnce
<1> QED BY <1>1, OneAtATime, ImplementsRequestResponse
================================================================================
