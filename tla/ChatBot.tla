-------------------------------- MODULE ChatBot --------------------------------
(***************************************************************************)
(* The bot: chat_bot.cpp, command.cpp, user_validator.cpp and the          *)
(* OsuMapDownloader of core.cpp.  A viewer's message comes from the        *)
(* message handler on any thread, becomes two tasks of the io_context, and *)
(* one of them runs the only mode there is.  All runs of the mode share    *)
(* one Command object, its content_ and its verificator, without a lock.   *)
(* The API edits the verificator through Core.                             *)
(***************************************************************************)
EXTENDS Naturals, FiniteSets, Sequences

CONSTANTS
  Users, Ids,       \* names of viewers, ids of beatmap sets
  Messages,         \* the messages of the chat
  Nick, Role,       \* of each message: its sender and the sender's role
  Content,          \* of each message: the beatmap links in it, in order
  Workers           \* threads of the io_context

NoMessage == "none"  \* also what a view of freed memory shows: no link

Modes == {"osu", "other", "none"}  \* what follows '#' in a link, if anything
Links == [id : Ids, mode : Modes]
RoleLevels == 0..4

ASSUME ChatBotAssumption ==
  /\ Nick \in [Messages -> Users] /\ Role \in [Messages -> RoleLevels]
  /\ Content \in [Messages -> Seq(Links)]
  /\ NoMessage \notin Messages

VARIABLES
  unsent,       \* messages the handler has not posted yet
  inbox,        \* posted to ParseAndExecute, on the system's threads
  tasks,        \* posted to the io_context: [task, message]
  worker,       \* what each worker does with the mode: [at, message, view]
  content_,     \* the message whose content the mode holds
  verificator,  \* [black_list_, white_list_, whitelist_only_, accept_from_]
  accepted,     \* history: messages Verify has let pass
  requests,     \* history: the calls of Download, [id, message]
  name_to_command_, name_to_mode_,  \* the names registered
  crashed

vars == <<unsent, inbox, tasks, worker, content_, verificator, accepted, requests,
          name_to_command_, name_to_mode_, crashed>>

setup == <<verificator, name_to_command_, name_to_mode_>>

--------------------------------------------------------------------------------
main_mode_name_ == "dl_osu_map"

Idle == [at |-> "idle", message |-> NoMessage, view |-> NoMessage]

(* UserVerificator::Verify *)
Verify(user_name, role) ==
  /\ user_name \notin verificator.black_list_
  /\ \/ user_name \in verificator.white_list_
     \/ ~verificator.whitelist_only_ /\ role >= verificator.accept_from_

LinksIn(m) == IF m = NoMessage THEN <<>> ELSE Content[m]

(* Mutant: the game mode is not looked at. *)
AnyModeID(m) == {LinksIn(m)[i].id : i \in {j \in 1..Len(LinksIn(m)) : j = 1}}

(* OsuMapDownloader::CheckForOsuMapURLAndGetID: the first link, when the    *)
(* game mode in it is "osu"; as a set of at most one id.                    *)
CheckForOsuMapURLAndGetID(m) ==
  {LinksIn(m)[i].id : i \in {j \in 1..Len(LinksIn(m)) : j = 1 /\ LinksIn(m)[j].mode = "osu"}}

(* ChatBot::GetMode looks the mode up among the commands. *)
GetMode(name) == name_to_command_ \cap {name}

--------------------------------------------------------------------------------
(* MessageHandler posts a viewer's message. *)
Post(m) ==
  /\ ~crashed /\ m \in unsent
  /\ unsent' = unsent \ {m} /\ inbox' = inbox \cup {m}
  /\ UNCHANGED <<tasks, worker, content_, accepted, requests, setup, crashed>>

ParseAndExecute(m) ==
  /\ ~crashed /\ m \in inbox
  /\ inbox' = inbox \ {m}
  /\ tasks' = tasks \cup {[task |-> t, message |-> m] : t \in {"UseModes", "ProcessCommand"}}
  /\ UNCHANGED <<unsent, worker, content_, accepted, requests, setup, crashed>>

(* No command is registered: a message that starts with '!' is an unknown  *)
(* command, and any other is none.                                          *)
ProcessCommand(w, m) ==
  /\ ~crashed /\ worker[w] = Idle
  /\ [task |-> "ProcessCommand", message |-> m] \in tasks
  /\ tasks' = tasks \ {[task |-> "ProcessCommand", message |-> m]}
  /\ UNCHANGED <<unsent, inbox, worker, content_, accepted, requests, setup, crashed>>

(* UseModes: AddContent begins to assign content_. *)
UseModes(w, m) ==
  /\ ~crashed /\ worker[w] = Idle
  /\ [task |-> "UseModes", message |-> m] \in tasks
  /\ tasks' = tasks \ {[task |-> "UseModes", message |-> m]}
  /\ worker' = [worker EXCEPT ![w] = [at |-> "assigning", message |-> m, view |-> NoMessage]]
  /\ UNCHANGED <<unsent, inbox, content_, accepted, requests, setup, crashed>>

(* Another worker assigns the same string: both free its old characters. *)
Racing(w) == \E v \in Workers \ {w} : worker[v].at = "assigning"

AddContent(w) ==
  /\ ~crashed /\ worker[w].at = "assigning"
  /\ content_' = worker[w].message
  /\ worker' = [worker EXCEPT ![w].at = "assigned"]
  /\ crashed' \in (IF Racing(w) THEN BOOLEAN ELSE {FALSE})
  /\ UNCHANGED <<unsent, inbox, tasks, accepted, requests, setup>>

(* Execute: Verify, then the executor takes a view of content_; a view taken *)
(* while it is assigned is of the characters before or of freed ones.       *)
ExecuteAccepted(w) ==
  LET m == worker[w].message
  IN /\ ~crashed /\ worker[w].at = "assigned"
     /\ Verify(Nick[m], Role[m])
     /\ accepted' = accepted \cup {m}
     /\ \E view \in (IF Racing(w) THEN {content_, NoMessage} ELSE {content_}) :
          worker' = [worker EXCEPT ![w].at = "executing", ![w].view = view]
     /\ UNCHANGED <<unsent, inbox, tasks, content_, requests, setup, crashed>>

(* Mutant: Execute waits until the sender is let pass. *)
ExecuteRetries(w) ==
  LET m == worker[w].message
  IN /\ ~crashed /\ worker[w].at = "assigned"
     /\ ~Verify(Nick[m], Role[m])
     /\ worker' = [worker EXCEPT ![w].at = "assigning"]
     /\ UNCHANGED <<unsent, inbox, tasks, content_, accepted, requests, setup, crashed>>

ExecuteRefused(w) ==
  LET m == worker[w].message
  IN /\ ~crashed /\ worker[w].at = "assigned"
     /\ ~Verify(Nick[m], Role[m])
     /\ worker' = [worker EXCEPT ![w] = Idle]
     /\ UNCHANGED <<unsent, inbox, tasks, content_, accepted, requests, setup, crashed>>

(* The executor reads its view: the characters it was taken of, those that  *)
(* have taken their place, or freed memory.                                 *)
Read(w) ==
  IF worker[w].view = content_ /\ ~Racing(w) THEN {content_}
  ELSE {worker[w].view, content_, NoMessage}

RunExecutor(w) ==
  /\ ~crashed /\ worker[w].at = "executing"
  /\ \E seen \in Read(w) :
       requests' = requests \cup {[id |-> id, message |-> worker[w].message] :
                                    id \in CheckForOsuMapURLAndGetID(seen)}
  /\ crashed' \in (IF Read(w) = {content_} THEN {FALSE} ELSE BOOLEAN)
  /\ worker' = [worker EXCEPT ![w] = Idle]
  /\ UNCHANGED <<unsent, inbox, tasks, content_, accepted, setup>>

--------------------------------------------------------------------------------
(* Core's accessors of the lists, the role and the switch, called by the    *)
(* API and by the settings: they go through GetMode's pointer, and a null   *)
(* one is read or written at once.                                          *)
Access(edited) ==
  /\ ~crashed
  /\ IF GetMode(main_mode_name_) = {}
     THEN crashed' = TRUE /\ UNCHANGED verificator
     ELSE verificator' = edited /\ UNCHANGED crashed
  /\ UNCHANGED <<unsent, inbox, tasks, worker, content_, accepted, requests,
                 name_to_command_, name_to_mode_>>

EditWhiteList(user) ==
  \/ Access([verificator EXCEPT !.white_list_ = @ \cup {user}])
  \/ Access([verificator EXCEPT !.white_list_ = @ \ {user}])

EditBlackList(user) ==
  \/ Access([verificator EXCEPT !.black_list_ = @ \cup {user}])
  \/ Access([verificator EXCEPT !.black_list_ = @ \ {user}])

SetRoleLevelFilter(level) == Access([verificator EXCEPT !.accept_from_ = level])

SetWhiteListOnly(on) == Access([verificator EXCEPT !.whitelist_only_ = on])

--------------------------------------------------------------------------------
(* SetupChatBot adds the main mode; nothing adds a command. *)
Init ==
  /\ unsent = Messages /\ inbox = {} /\ tasks = {}
  /\ worker = [w \in Workers |-> Idle]
  /\ content_ = NoMessage
  /\ verificator = [black_list_ |-> {}, white_list_ |-> {}, whitelist_only_ |-> FALSE,
                    accept_from_ |-> 3]
  /\ accepted = {} /\ requests = {}
  /\ name_to_command_ = {} /\ name_to_mode_ = {main_mode_name_}
  /\ crashed = FALSE

Chat == \E m \in Messages : Post(m) \/ ParseAndExecute(m)

Work ==
  \E w \in Workers :
    \/ \E m \in Messages : ProcessCommand(w, m) \/ UseModes(w, m)
    \/ AddContent(w) \/ ExecuteAccepted(w) \/ ExecuteRefused(w) \/ RunExecutor(w)

Api ==
  \/ \E user \in Users : EditWhiteList(user) \/ EditBlackList(user)
  \/ \E level \in RoleLevels : SetRoleLevelFilter(level)
  \/ \E on \in BOOLEAN : SetWhiteListOnly(on)

Next == Chat \/ Work \/ Api

Spec == Init /\ [][Next]_vars

(* The threads run what is posted to them. *)
FairSpec == Spec /\ WF_vars(\E m \in Messages : ParseAndExecute(m)) /\ WF_vars(Work)

--------------------------------------------------------------------------------
TypeOK ==
  /\ unsent \in SUBSET Messages /\ inbox \in SUBSET Messages
  /\ tasks \in SUBSET [task : {"UseModes", "ProcessCommand"}, message : Messages]
  /\ worker \in [Workers -> [at : {"idle", "assigning", "assigned", "executing"},
                             message : Messages \cup {NoMessage},
                             view : Messages \cup {NoMessage}]]
  /\ \A w \in Workers : worker[w].at # "idle" => worker[w].message \in Messages
  /\ content_ \in Messages \cup {NoMessage}
  /\ verificator \in [black_list_ : SUBSET Users, white_list_ : SUBSET Users,
                      whitelist_only_ : BOOLEAN, accept_from_ : RoleLevels]
  /\ accepted \in SUBSET Messages
  /\ requests \in SUBSET [id : Ids, message : Messages]
  /\ name_to_command_ = {} /\ name_to_mode_ = {main_mode_name_}
  /\ crashed \in BOOLEAN

Received == Messages \ (unsent \cup inbox)

(* However the runs of the mode interleave, a map is requested only in the  *)
(* run of a message whose sender the verificator let pass, at most one map  *)
(* in a run, and only a map that a message of the chat links to first and   *)
(* in std mode: no map comes from nowhere.                                  *)
RequestIsBacked ==
  /\ \A r \in requests : /\ r.message \in accepted
                         /\ \E m \in Received : Content[m] # <<>> /\ r.id = Content[m][1].id
                                                 /\ Content[m][1].mode = "osu"
  /\ \A r, q \in requests : r.message = q.message => r = q

(* README.md:25, 126: the streamer chooses whose requests are accepted.  A  *)
(* requested map is one that an accepted viewer asked for.                  *)
RequestFromAccepted ==
  \A r \in requests : \E m \in accepted : r.id \in CheckForOsuMapURLAndGetID(m)

Handled(m) ==
  /\ m \in Received /\ [task |-> "UseModes", message |-> m] \notin tasks
  /\ \A w \in Workers : worker[w].message # m

(* A message posted to the bot is done with in the end, or the program has  *)
(* ended.                                                                   *)
EveryMessageHandled == \A m \in Messages : m \in inbox ~> (Handled(m) \/ crashed)
================================================================================
