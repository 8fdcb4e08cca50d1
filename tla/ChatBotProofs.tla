----------------------------- MODULE ChatBotProofs -----------------------------
(***************************************************************************)
(* ChatBot for any chat and any number of workers: the runs of the one     *)
(* mode race on its content, yet no map is requested without an accepted   *)
(* message and a link in the chat.                                         *)
(***************************************************************************)
EXTENDS ChatBot, TLAPS

Run(m) == [task |-> "UseModes", message |-> m]

Busy(w) == worker[w].at # "idle"

(* A message that was received has its run ahead of it, in a worker or      *)
(* behind it, and what it requested was requested in that run.              *)
OneRun ==
  /\ unsent \cap inbox = {}
  /\ \A t \in tasks : t.message \in Received
  /\ \A w \in Workers : Busy(w) =>
       worker[w].message \in Received /\ Run(worker[w].message) \notin tasks
  /\ \A v, w \in Workers :
       Busy(v) /\ Busy(w) /\ worker[v].message = worker[w].message => v = w
  /\ \A r \in requests :
       /\ r.message \in Received /\ Run(r.message) \notin tasks
       /\ \A w \in Workers : Busy(w) => worker[w].message # r.message

(* What the mode holds and what its runs have seen was received. *)
SeenIsReceived ==
  /\ content_ \in Received \cup {NoMessage}
  /\ \A w \in Workers : worker[w].view \in Received \cup {NoMessage}

ExecutingIsAccepted ==
  \A w \in Workers : worker[w].at = "executing" => worker[w].message \in accepted

IInv == TypeOK /\ OneRun /\ SeenIsReceived /\ ExecutingIsAccepted /\ RequestIsBacked

(* The one link that is followed: the first of the message, in std mode. *)
LEMMA FollowedLink ==
  ASSUME NEW m \in Messages \cup {NoMessage}, NEW id \in CheckForOsuMapURLAndGetID(m)
  PROVE  /\ m \in Messages /\ Content[m] # <<>> /\ id = Content[m][1].id
         /\ Content[m][1].mode = "osu" /\ id \in Ids
<1>1. PICK i \in 1..Len(LinksIn(m)) :
        i = 1 /\ LinksIn(m)[i].mode = "osu" /\ id = LinksIn(m)[i].id
  BY DEF CheckForOsuMapURLAndGetID
<1>2. m # NoMessage
  BY <1>1 DEF LinksIn
<1>3. m \in Messages /\ LinksIn(m) = Content[m]
  BY <1>2 DEF LinksIn
<1>4. Content[m] \in Seq(Links)
  BY <1>3, ChatBotAssumption
<1>5. Content[m] # <<>> /\ Content[m][1] \in Links
  BY <1>1, <1>3, <1>4
<1> QED BY <1>1, <1>3, <1>5 DEF Links

LEMMA InitInv == Init => IInv
<1> SUFFICES ASSUME Init PROVE IInv
  OBVIOUS
<1> USE DEF Init
<1>1. worker = [w \in Workers |-> Idle] /\ \A w \in Workers : worker[w] = Idle
  OBVIOUS
<1>2. TypeOK
  <2>1. worker \in [Workers -> [at : {"idle", "assigning", "assigned", "executing"},
                                message : Messages \cup {NoMessage},
                                view : Messages \cup {NoMessage}]]
    BY <1>1 DEF Idle
  <2>2. \A w \in Workers : worker[w].at = "idle"
    BY <1>1 DEF Idle
  <2>3. verificator \in [black_list_ : SUBSET Users, white_list_ : SUBSET Users,
                         whitelist_only_ : BOOLEAN, accept_from_ : RoleLevels]
    BY DEF RoleLevels
  <2>4. crashed \in BOOLEAN
    BY Zenon
  <2> QED BY <2>1, <2>2, <2>3, <2>4 DEF TypeOK
<1>3. OneRun
  BY <1>1 DEF OneRun, Busy, Idle, Received
<1>4. SeenIsReceived /\ ExecutingIsAccepted
  BY <1>1 DEF SeenIsReceived, ExecutingIsAccepted, Idle
<1>5. RequestIsBacked
  BY DEF RequestIsBacked
<1> QED BY <1>2, <1>3, <1>4, <1>5 DEF IInv

LEMMA PostInv == ASSUME IInv, NEW m \in Messages, Post(m) PROVE IInv'
<1> USE DEF IInv, Post, setup
<1>1. Received' = Received
  BY DEF Received, TypeOK
<1>2. TypeOK'
  BY DEF TypeOK
<1>3. OneRun'
  BY <1>1 DEF OneRun, Busy
<1>4. SeenIsReceived' /\ ExecutingIsAccepted'
  BY <1>1 DEF SeenIsReceived, ExecutingIsAccepted
<1>5. RequestIsBacked'
  BY <1>1 DEF RequestIsBacked
<1> QED BY <1>2, <1>3, <1>4, <1>5

LEMMA ParseAndExecuteInv ==
  ASSUME IInv, NEW m \in Messages, ParseAndExecute(m)
  PROVE  IInv'
<1> USE DEF IInv, ParseAndExecute, setup
<1>1. Received' = Received \cup {m} /\ m \notin Received
  BY DEF Received, OneRun, TypeOK
<1>2. tasks' = tasks \cup {Run(m), [task |-> "ProcessCommand", message |-> m]}
  BY DEF Run
<1>3. TypeOK'
  BY <1>2 DEF TypeOK, Run
<1>4. OneRun'
  <2>1. \A t \in tasks' : t.message \in Received'
    BY <1>1, <1>2 DEF OneRun, Run
  <2>2. \A k \in Received : Run(k) \notin tasks => Run(k) \notin tasks'
    BY <1>1, <1>2 DEF Run
  <2> QED BY <1>1, <2>1, <2>2 DEF OneRun, Busy
<1>5. SeenIsReceived' /\ ExecutingIsAccepted'
  BY <1>1 DEF SeenIsReceived, ExecutingIsAccepted
<1>6. RequestIsBacked'
  BY <1>1 DEF RequestIsBacked
<1> QED BY <1>3, <1>4, <1>5, <1>6

LEMMA ProcessCommandInv ==
  ASSUME IInv, NEW w \in Workers, NEW m \in Messages, ProcessCommand(w, m)
  PROVE  IInv'
<1> USE DEF IInv, ProcessCommand, setup
<1>1. Received' = Received
  BY DEF Received
<1>2. TypeOK'
  BY DEF TypeOK
<1>3. OneRun'
  BY <1>1 DEF OneRun, Busy
<1>4. SeenIsReceived' /\ ExecutingIsAccepted'
  BY <1>1 DEF SeenIsReceived, ExecutingIsAccepted
<1>5. RequestIsBacked'
  BY <1>1 DEF RequestIsBacked
<1> QED BY <1>2, <1>3, <1>4, <1>5

LEMMA UseModesInv ==
  ASSUME IInv, NEW w \in Workers, NEW m \in Messages, UseModes(w, m)
  PROVE  IInv'
<1> USE DEF IInv, UseModes, setup
<1>1. Received' = Received /\ Run(m) \in tasks /\ m \in Received /\ tasks' = tasks \ {Run(m)}
  BY DEF Received, Run, OneRun
<1>2. /\ worker'[w] = [at |-> "assigning", message |-> m, view |-> NoMessage]
      /\ \A v \in Workers : v # w => worker'[v] = worker[v]
      /\ worker[w].at = "idle"
  BY DEF TypeOK, Idle
<1>3. TypeOK'
  BY <1>1, <1>2 DEF TypeOK
<1>4. OneRun'
  <2>1. \A v \in Workers : v # w /\ Busy(v) => worker[v].message # m
    BY <1>1 DEF OneRun
  <2>2. \A r \in requests : r.message # m
    BY <1>1 DEF OneRun
  <2> QED BY <1>1, <1>2, <2>1, <2>2 DEF OneRun, Busy
<1>5. SeenIsReceived' /\ ExecutingIsAccepted'
  BY <1>1, <1>2 DEF SeenIsReceived, ExecutingIsAccepted
<1>6. RequestIsBacked'
  BY <1>1 DEF RequestIsBacked
<1> QED BY <1>3, <1>4, <1>5, <1>6

LEMMA AddContentInv == ASSUME IInv, NEW w \in Workers, AddContent(w) PROVE IInv'
<1> USE DEF IInv, setup
<1>1. Received' = Received
  BY DEF Received, AddContent
<1>2. /\ worker' = [worker EXCEPT ![w].at = "assigned"] /\ worker[w].at = "assigning"
      /\ content_' = worker[w].message
      /\ UNCHANGED <<unsent, inbox, tasks, accepted, requests, setup>>
  BY DEF AddContent
<1>3. /\ worker'[w].message = worker[w].message /\ worker'[w].view = worker[w].view
      /\ worker'[w].at = "assigned"
      /\ \A v \in Workers : v # w => worker'[v] = worker[v]
  BY <1>2 DEF TypeOK
<1>4. worker[w].message \in Received
  BY <1>2 DEF OneRun, Busy
<1>5. crashed' \in BOOLEAN
  BY DEF AddContent
<1>6. worker' \in [Workers -> [at : {"idle", "assigning", "assigned", "executing"},
                               message : Messages \cup {NoMessage},
                               view : Messages \cup {NoMessage}]]
  BY <1>2 DEF TypeOK
<1>7. TypeOK'
  BY <1>2, <1>3, <1>4, <1>5, <1>6 DEF TypeOK, Received
<1>8. OneRun'
  <2>1. \A v \in Workers : Busy(v)' = Busy(v) /\ worker'[v].message = worker[v].message
    BY <1>2, <1>3 DEF Busy
  <2> QED BY <1>1, <1>2, <2>1 DEF OneRun
<1>9. SeenIsReceived' /\ ExecutingIsAccepted'
  BY <1>1, <1>2, <1>3, <1>4 DEF SeenIsReceived, ExecutingIsAccepted
<1>10. RequestIsBacked'
  BY <1>1, <1>2 DEF RequestIsBacked
<1> QED BY <1>2, <1>7, <1>8, <1>9, <1>10

LEMMA ExecuteAcceptedInv ==
  ASSUME IInv, NEW w \in Workers, ExecuteAccepted(w)
  PROVE  IInv'
<1> USE DEF IInv, setup
<1> DEFINE m == worker[w].message
<1>1. /\ worker[w].at = "assigned" /\ Verify(Nick[m], Role[m])
      /\ accepted' = accepted \cup {m}
      /\ UNCHANGED <<unsent, inbox, tasks, content_, requests, setup, crashed>>
  BY DEF ExecuteAccepted
<1>2. PICK view \in {content_, NoMessage} :
        worker' = [worker EXCEPT ![w].at = "executing", ![w].view = view]
  BY DEF ExecuteAccepted
<1>3. /\ worker'[w].message = m /\ worker'[w].view = view /\ worker'[w].at = "executing"
      /\ \A v \in Workers : v # w => worker'[v] = worker[v]
  BY <1>2 DEF TypeOK
<1>4. m \in Messages /\ Received' = Received
  BY <1>1 DEF TypeOK, Received
<1>5. worker' \in [Workers -> [at : {"idle", "assigning", "assigned", "executing"},
                               message : Messages \cup {NoMessage},
                               view : Messages \cup {NoMessage}]]
  <2>1. view \in Messages \cup {NoMessage}
    BY DEF TypeOK
  <2>2. worker'[w] = [worker[w] EXCEPT !.at = "executing", !.view = view]
    BY <1>2 DEF TypeOK
  <2>3. worker'[w] \in [at : {"idle", "assigning", "assigned", "executing"},
                        message : Messages \cup {NoMessage},
                        view : Messages \cup {NoMessage}]
    <3>1. worker[w] \in [at : {"idle", "assigning", "assigned", "executing"},
                         message : Messages \cup {NoMessage},
                         view : Messages \cup {NoMessage}]
      BY DEF TypeOK
    <3> HIDE DEF IInv
    <3> QED BY <2>1, <2>2, <3>1
  <2>4. worker' = [worker EXCEPT ![w] = worker'[w]]
    BY <1>2
  <2> QED BY <2>3, <2>4 DEF TypeOK
<1>6. TypeOK'
  BY <1>1, <1>3, <1>4, <1>5 DEF TypeOK
<1>7. OneRun'
  <2>1. \A v \in Workers : Busy(v)' = Busy(v) /\ worker'[v].message = worker[v].message
    BY <1>1, <1>3 DEF Busy
  <2> QED BY <1>1, <1>4, <2>1 DEF OneRun
<1>8. SeenIsReceived'
  BY <1>1, <1>3, <1>4 DEF SeenIsReceived
<1>9. ExecutingIsAccepted'
  BY <1>1, <1>3 DEF ExecutingIsAccepted
<1>10. RequestIsBacked'
  BY <1>1, <1>4 DEF RequestIsBacked
<1> QED BY <1>1, <1>6, <1>7, <1>8, <1>9, <1>10

(* A worker that ends its run is idle and nobody else's affair. *)
LEMMA EndedRun ==
  ASSUME TypeOK, NEW w \in Workers, worker' = [worker EXCEPT ![w] = Idle]
  PROVE  /\ worker' \in [Workers -> [at : {"idle", "assigning", "assigned", "executing"},
                                     message : Messages \cup {NoMessage},
                                     view : Messages \cup {NoMessage}]]
         /\ worker'[w].at = "idle" /\ worker'[w].view = NoMessage
         /\ \A v \in Workers : v # w => worker'[v] = worker[v]
         /\ \A v \in Workers : Busy(v)' => v # w /\ Busy(v) /\ worker'[v] = worker[v]
BY DEF TypeOK, Idle, Busy

LEMMA ExecuteRefusedInv ==
  ASSUME IInv, NEW w \in Workers, ExecuteRefused(w)
  PROVE  IInv'
<1> USE DEF IInv, setup
<1>1. /\ worker' = [worker EXCEPT ![w] = Idle] /\ Received' = Received
      /\ UNCHANGED <<unsent, inbox, tasks, content_, accepted, requests, setup, crashed>>
  BY DEF ExecuteRefused, Received
<1>2. TypeOK'
  BY <1>1, EndedRun DEF TypeOK
<1>3. OneRun'
  <2>1. \A v \in Workers : Busy(v)' => Busy(v) /\ worker'[v] = worker[v]
    BY <1>1, EndedRun
  <2> QED BY <1>1, <2>1 DEF OneRun
<1>4. SeenIsReceived' /\ ExecutingIsAccepted'
  BY <1>1, EndedRun DEF SeenIsReceived, ExecutingIsAccepted
<1>5. RequestIsBacked'
  BY <1>1 DEF RequestIsBacked
<1> QED BY <1>1, <1>2, <1>3, <1>4, <1>5

LEMMA RunExecutorInv == ASSUME IInv, NEW w \in Workers, RunExecutor(w) PROVE IInv'
<1> USE DEF IInv, setup
<1> DEFINE m == worker[w].message
<1>1. /\ worker[w].at = "executing" /\ worker' = [worker EXCEPT ![w] = Idle]
      /\ crashed' \in BOOLEAN /\ Received' = Received
      /\ UNCHANGED <<unsent, inbox, tasks, content_, accepted, setup>>
  BY DEF RunExecutor, Received
<1>2. PICK seen \in Read(w) :
        requests' = requests \cup {[id |-> id, message |-> m] :
                                     id \in CheckForOsuMapURLAndGetID(seen)}
  BY DEF RunExecutor
<1>3. seen \in Received \cup {NoMessage} /\ Received \subseteq Messages
  BY DEF Read, SeenIsReceived, Received
<1>4. m \in Messages /\ m \in Received /\ Run(m) \notin tasks /\ m \in accepted
  BY <1>1 DEF OneRun, Busy, ExecutingIsAccepted, TypeOK
<1>5. \A r \in requests : r.message # m
  BY <1>1 DEF OneRun, Busy
<1>6. \A r \in requests' : r \in requests \/ r.message = m
  BY <1>2
<1>7. \A r \in requests' \ requests :
        /\ r \in [id : Ids, message : Messages] /\ r.message = m
        /\ seen \in Received /\ Content[seen] # <<>> /\ r.id = Content[seen][1].id
        /\ Content[seen][1].mode = "osu"
        /\ r = [id |-> Content[seen][1].id, message |-> m]
  <2>1. ASSUME NEW id \in CheckForOsuMapURLAndGetID(seen)
        PROVE  /\ seen \in Received /\ Content[seen] # <<>> /\ id = Content[seen][1].id
               /\ Content[seen][1].mode = "osu" /\ id \in Ids
    BY <1>3, FollowedLink, ChatBotAssumption
  <2> QED BY <1>2, <1>4, <2>1
<1>8. TypeOK'
  BY ZenonT(30), <1>1, <1>7, EndedRun DEF TypeOK
<1>9. OneRun'
  <2>1. \A v \in Workers : v # w /\ Busy(v) => worker[v].message # m
    BY <1>1 DEF OneRun, Busy
  <2>2. \A r \in requests' :
          /\ r.message \in Received' /\ Run(r.message) \notin tasks'
          /\ \A v \in Workers : Busy(v)' => worker'[v].message # r.message
    <3>1. ASSUME NEW r \in requests'
          PROVE  r.message \in Received /\ Run(r.message) \notin tasks
      BY <1>4, <1>6 DEF OneRun
    <3>2. ASSUME NEW r \in requests', NEW v \in Workers, Busy(v)'
          PROVE  worker'[v].message # r.message
      <4>1. v # w /\ Busy(v) /\ worker'[v] = worker[v]
        BY <1>1, <3>2, EndedRun
      <4> QED BY <1>6, <2>1, <4>1 DEF OneRun
    <3> QED BY <1>1, <3>1, <3>2
  <2>3. \A v \in Workers : Busy(v)' => Busy(v) /\ worker'[v] = worker[v]
    BY <1>1, EndedRun
  <2> QED BY <1>1, <2>2, <2>3 DEF OneRun
<1>10. SeenIsReceived' /\ ExecutingIsAccepted'
  BY <1>1, EndedRun DEF SeenIsReceived, ExecutingIsAccepted
<1>11. RequestIsBacked'
  <2>1. \A r \in requests' :
          /\ r.message \in accepted'
          /\ \E k \in Received' : Content[k] # <<>> /\ r.id = Content[k][1].id
                                 /\ Content[k][1].mode = "osu"
    BY <1>1, <1>3, <1>4, <1>7 DEF RequestIsBacked
  <2>2. \A r, q \in requests' : r.message = q.message => r = q
    BY <1>5, <1>7 DEF RequestIsBacked
  <2> QED BY <2>1, <2>2 DEF RequestIsBacked
<1> QED BY <1>1, <1>8, <1>9, <1>10, <1>11

(* GetMode finds no mode: no edit takes place. *)
LEMMA AccessInv == ASSUME IInv, NEW edited, Access(edited) PROVE IInv'
<1> USE DEF IInv
<1>1. GetMode(main_mode_name_) = {}
  BY DEF GetMode, TypeOK
<1>2. /\ crashed' = TRUE /\ UNCHANGED verificator /\ Received' = Received
      /\ UNCHANGED <<unsent, inbox, tasks, worker, content_, accepted, requests,
                     name_to_command_, name_to_mode_>>
  BY <1>1, Zenon DEF Access, Received
<1>3. TypeOK'
  BY <1>2 DEF TypeOK
<1>4. OneRun'
  BY <1>2 DEF OneRun, Busy
<1>5. SeenIsReceived' /\ ExecutingIsAccepted'
  BY <1>2 DEF SeenIsReceived, ExecutingIsAccepted
<1>6. RequestIsBacked'
  BY <1>2 DEF RequestIsBacked
<1> QED BY <1>2, <1>3, <1>4, <1>5, <1>6

LEMMA StutterInv == ASSUME IInv, UNCHANGED vars PROVE IInv'
<1> USE DEF IInv, vars
<1>1. TypeOK'
  BY DEF TypeOK
<1>2. OneRun' /\ SeenIsReceived' /\ ExecutingIsAccepted'
  BY DEF OneRun, Busy, Received, SeenIsReceived, ExecutingIsAccepted
<1>3. RequestIsBacked'
  BY DEF RequestIsBacked, Received
<1> QED BY <1>1, <1>2, <1>3

LEMMA NextInv == IInv /\ [Next]_vars => IInv'
<1> SUFFICES ASSUME IInv, [Next]_vars PROVE IInv'
  OBVIOUS
<1>1. CASE Chat
  BY <1>1, PostInv, ParseAndExecuteInv DEF Chat
<1>2. CASE Work
  BY <1>2, ProcessCommandInv, UseModesInv, AddContentInv, ExecuteAcceptedInv,
     ExecuteRefusedInv, RunExecutorInv DEF Work
<1>3. CASE Api
  BY <1>3, AccessInv DEF Api, EditWhiteList, EditBlackList, SetRoleLevelFilter,
     SetWhiteListOnly
<1>4. CASE UNCHANGED vars
  BY <1>4, StutterInv
<1> QED BY <1>1, <1>2, <1>3, <1>4 DEF Next

(* The inductive invariant holds in every state of the bot: what the mode   *)
(* executes is a content it was given, in the run of an accepted message.   *)
THEOREM Invariant == Spec => []IInv
BY InitInv, NextInv, PTL DEF Spec

(* The types; nothing is ever registered as a command, so GetMode finds     *)
(* nothing.                                                                 *)
THEOREM TypeCorrect == Spec => []TypeOK
<1>1. IInv => TypeOK
  BY DEF IInv
<1> QED BY Invariant, <1>1, PTL

(* However many runs of the mode race, each request was made in the run of  *)
(* an accepted message, one at most, for a map the chat links to.           *)
THEOREM RequestsAreBacked == Spec => []RequestIsBacked
<1>1. IInv => RequestIsBacked
  BY DEF IInv
<1> QED BY Invariant, <1>1, PTL
================================================================================
