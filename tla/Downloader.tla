----------------------------- MODULE Downloader -----------------------------
(***************************************************************************)
(* downloader/downloader.cpp: the map downloader, shared without a lock by *)
(* the worker threads of the program.  A request goes through             *)
(* download_queue and the strand dl_strand_; a failed download starts a    *)
(* speed measurement of every base server, and each server that answers a  *)
(* measurement makes the downloader take one file of the queue again.      *)
(*                                                                         *)
(* A step is the code between two points where a thread may block (the     *)
(* sleep of Download, the blocking connect of http_domain::Client) or      *)
(* where it reads what another thread may have written in the meantime.    *)
(* A stretch of code without such a point is one step, so a single         *)
(* container operation is atomic here although the code takes no lock.     *)
(* The HTTP exchange behind a connected client is one pending session that *)
(* the network ends.                                                       *)
(***************************************************************************)
EXTENDS Integers, Sequences, FiniteSets

CONSTANTS
  Hosts,          \* the download servers
  Prefix,         \* [Hosts -> path prefixes]: the uri prefix of a server
  Speed,          \* [Hosts -> Nat]: MB/s a server gives to a measurement
  BaseServers,    \* the servers of SetBaseDownloaderResources, in order
  Files,          \* beatmap set ids found in the chat
  ApiHosts,       \* the servers set through /api/downloader/settings
  Threads,        \* the workers that run ioc.run()
  Sessions,       \* bound: HTTP exchanges under way at one time
  StartResource,  \* the server settings.json names, or None
  FolderAtStart,  \* does settings.json name a downloads directory
  Connects,       \* how a connect may end: "ok", "refused", "throws"
  Answers,        \* how an exchange may end: "ok", "fail", "silent"
  MaxRequests,    \* bound: map links read from the chat
  MaxMesures,     \* bound: POST /api/downloader/mesure_speed
  MaxFaults,      \* bound: connects and exchanges that end badly
  None

ASSUME DownloaderAssumption ==
  /\ BaseServers \in Seq(Hosts)
  /\ Len(BaseServers) > 0
  /\ ApiHosts \subseteq Hosts
  /\ Prefix \in [Hosts -> Hosts]
  /\ Speed \in [Hosts -> Nat]
  /\ None \notin Hosts \cup Files \cup Threads
  /\ StartResource \in {BaseServers[i] : i \in 1..Len(BaseServers)} \cup {None}
  /\ FolderAtStart \in BOOLEAN
  /\ Connects \subseteq {"ok", "refused", "throws"}
  /\ Answers \subseteq {"ok", "fail", "silent"}
  /\ MaxRequests \in Nat
  /\ MaxMesures \in Nat
  /\ MaxFaults \in Nat

VARIABLES
  base_servers,          \* vector<Server>
  generation,            \* how often push_back moved base_servers elsewhere
  resource,              \* the server resource_ and prefix_ name, or None
  download_queue,        \* unordered_set<string>
  need_to_mesure_speed,
  osu_file_manager,      \* is it set
  strand,                \* the thread inside dl_strand_, or None
  strand_queue,          \* handlers waiting for dl_strand_
  api,                   \* the thread inside api_strand_ during a measurement
  thread,                \* what each worker is doing
  session,               \* the HTTP exchanges under way
  requests, mesures,     \* how much of the bounds is used up
  faults,
  delivered,             \* history: the files whose download succeeded
  asked_without_folder,  \* history: a map was asked for before osu_file_manager was set
  crashed                \* an exception left ioc.run(), or memory was misused

settings == <<osu_file_manager, generation, asked_without_folder>>
servers == <<base_servers, resource, need_to_mesure_speed>>
strands == <<strand, strand_queue>>
bounds == <<requests, mesures, faults>>
vars == <<base_servers, generation, resource, download_queue,
          need_to_mesure_speed, osu_file_manager, strand, strand_queue, api,
          thread, session, requests, mesures, faults, delivered,
          asked_without_folder, crashed>>

-----------------------------------------------------------------------------
(* The data. *)

NotMesured == -1   \* an empty speed_mbs_: below every speed in operator<

Server(host) == [host |-> host, speed |-> NotMesured, status |-> "UNKNOWN"]

(* `Server&': a slot of one buffer of the vector, not a server. *)
Slot(gen, idx) == [gen |-> gen, idx |-> idx]

NoSlot == Slot(0, 0)

(* The vector had this many slots when generation was gen. *)
SlotsOf(gen) == Len(BaseServers) + gen

Idle == [pc |-> "idle", file |-> None, slot |-> NoSlot, host |-> None]

(* Thread t is at pc, and the program still runs. *)
At(t, pc) == ~crashed /\ thread[t].pc = pc

Doing(pc, file, slot, host) ==
  [pc |-> pc, file |-> file, slot |-> slot, host |-> host]

Mesuring(gen, idx) == Doing("mesure", None, Slot(gen, idx), None)

(* What std::sort may leave: a permutation with no slower server after a   *)
(* faster one.                                                             *)
Reorderings(n) ==
  {p \in [1..n -> 1..n] : \A i, j \in 1..n : p[i] = p[j] => i = j}

(* Mutant: operator< the other way round. *)
SortedDescending(list) ==
  {sorted \in {[i \in 1..Len(list) |-> list[p[i]]] : p \in Reorderings(Len(list))} :
     \A i, j \in 1..Len(list) : i < j => sorted[i].speed >= sorted[j].speed}

Sorted(list) ==
  {sorted \in {[i \in 1..Len(list) |-> list[p[i]]] : p \in Reorderings(Len(list))} :
     \A i, j \in 1..Len(list) : i < j => sorted[i].speed <= sorted[j].speed}

IsSpeedMesured ==
  \A i \in 1..Len(base_servers) : base_servers[i].status # "UNKNOWN"

IsAnyResourseAvailable ==
  \E i \in 1..Len(base_servers) : base_servers[i].status = "AVAILABLE"

AccessTestResult ==
  CASE IsAnyResourseAvailable -> "Available"
    [] IsSpeedMesured /\ ~IsAnyResourseAvailable -> "Unavailable"
    [] OTHER -> "Processing"

-----------------------------------------------------------------------------
(* net::dispatch on dl_strand_, and the end of what a thread was doing.    *)

StrandFree == strand = None /\ strand_queue = <<>>

RunsInline(t) == StrandFree \/ strand = t

Leave(t) ==
  /\ thread' = [thread EXCEPT ![t] = Idle]
  /\ strand' = IF strand = t THEN None ELSE strand
  /\ api' = IF api = t THEN None ELSE api

(* Mutant: the handler does not look at need_to_mesure_speed. *)
ResetStatusesAlways(slot) ==
  /\ base_servers' = [i \in DOMAIN base_servers |->
                        [base_servers[i] EXCEPT !.status = "UNKNOWN"]]
  /\ resource' = IF slot.gen = generation THEN base_servers[slot.idx].host
                                          ELSE None

(* The handler of MesureSpeed on dl_strand_.  A slot of a buffer that the  *)
(* vector has left holds the empty strings the move left there: a name     *)
(* that reaches no server, as no name does.                                *)
ResetStatuses(slot) ==
  IF need_to_mesure_speed
  THEN /\ base_servers' = [i \in DOMAIN base_servers |->
                             [base_servers[i] EXCEPT !.status = "UNKNOWN"]]
       /\ resource' = IF slot.gen = generation THEN base_servers[slot.idx].host
                                               ELSE None
  ELSE UNCHANGED <<base_servers, resource>>

(* Any use of such a slot is a use of freed memory. *)
UseSlot(slot) ==
  /\ crashed' \in BOOLEAN
  /\ slot.gen = generation => crashed' = crashed

(* `server.status = ...' through the captured reference. *)
Rate(slot, status, speed) ==
  IF slot.gen = generation
  THEN [base_servers EXCEPT ![slot.idx] =
          [host |-> @.host, status |-> status,
           speed |-> IF status = "AVAILABLE" THEN speed ELSE @.speed]]
  ELSE base_servers

-----------------------------------------------------------------------------
(* Download: a chat message asks for a file. *)

(* The check of download_queue; the thread may then sleep in Download. *)
RequestMap(t, f) ==
  /\ At(t, "idle")
  /\ requests < MaxRequests
  /\ f \notin download_queue
  /\ thread' = [thread EXCEPT ![t] = Doing("insert", f, NoSlot, None)]
  /\ requests' = requests + 1
  /\ asked_without_folder' = (asked_without_folder \/ ~osu_file_manager)
  /\ UNCHANGED <<servers, osu_file_manager, generation, download_queue, strands, api,
                 session, mesures, faults, delivered, crashed>>

(* The handler of Download on dl_strand_ up to the blocking connect:       *)
(* SetupSecuredConnection reads resource_, and throws when there is none.  *)
OpenClient(t, f) ==
  IF resource = None
  THEN Leave(t)
  ELSE /\ thread' = [thread EXCEPT ![t] = Doing("opening", f, NoSlot, resource)]
       /\ strand' = t
       /\ api' = api

(* Mutant: the client is made at once, not in a handler of dl_strand_. *)
InsertUndispatched(t) ==
  /\ At(t, "insert")
  /\ download_queue' = download_queue \cup {thread[t].file}
  /\ OpenClient(t, thread[t].file)
  /\ UNCHANGED <<servers, settings, strand_queue, session, bounds, delivered, crashed>>

(* The insertion, and the dispatch of the download on dl_strand_. *)
Insert(t) ==
  LET f == thread[t].file IN
  /\ At(t, "insert")
  /\ download_queue' = download_queue \cup {f}
  /\ IF RunsInline(t)
     THEN OpenClient(t, f) /\ UNCHANGED strand_queue
     ELSE /\ strand_queue' = Append(strand_queue, [file |-> f, slot |-> NoSlot])
          /\ Leave(t)
  /\ UNCHANGED <<servers, settings, session, bounds, delivered, crashed>>

(* A worker takes the next handler of dl_strand_: a download, or the reset *)
(* of a measurement.                                                       *)
StartDownload(t) ==
  /\ At(t, "idle") /\ strand = None /\ strand_queue # <<>>
  /\ Head(strand_queue).file # None
  /\ OpenClient(t, Head(strand_queue).file)
  /\ strand_queue' = Tail(strand_queue)
  /\ UNCHANGED <<servers, settings, download_queue, session, bounds,
                 delivered, crashed>>

StartReset(t) ==
  /\ At(t, "idle") /\ strand = None /\ strand_queue # <<>>
  /\ Head(strand_queue).file = None
  /\ ResetStatuses(Head(strand_queue).slot)
  /\ need_to_mesure_speed => UseSlot(Head(strand_queue).slot)
  /\ ~need_to_mesure_speed => crashed' = crashed
  /\ strand_queue' = Tail(strand_queue)
  /\ UNCHANGED <<settings, need_to_mesure_speed, download_queue, strand, api,
                 thread, session, bounds, delivered>>

-----------------------------------------------------------------------------
(* A connect or an exchange ends badly. *)
Fault == faults < MaxFaults /\ faults' = faults + 1

CanConnect == "ok" \in Connects /\ faults' = faults

(* GetReadyClient has no directory for the client and no measurement that  *)
(* could do without.                                                       *)
NoFolder == ~osu_file_manager /\ ~need_to_mesure_speed

(* The rest of GetReadyClient for a download, and Client::Get. *)

(* The name does not resolve, or there is no downloads directory and the   *)
(* speed need not be measured: the exception is logged.                    *)
OpenThrows(t) ==
  /\ At(t, "opening")
  /\ \/ "throws" \in Connects /\ Fault
     \/ NoFolder /\ UNCHANGED faults
  /\ Leave(t)
  /\ UNCHANGED <<servers, settings, download_queue, strand_queue, session,
                 requests, mesures, delivered, crashed>>

(* Get without a connection calls the handler, OnDownload, at once; the    *)
(* measurement it starts runs inside dl_strand_.  Without a directory      *)
(* OnDownload dereferences a null pointer.                                 *)
OpenRefused(t) ==
  /\ At(t, "opening") /\ "refused" \in Connects /\ Fault
  /\ ~NoFolder
  /\ IF osu_file_manager
     THEN /\ need_to_mesure_speed' = TRUE
          /\ thread' = [thread EXCEPT ![t] = Mesuring(generation, 1)]
          /\ crashed' = crashed
     ELSE /\ crashed' = TRUE
          /\ UNCHANGED <<need_to_mesure_speed, thread>>
  /\ UNCHANGED <<base_servers, resource, settings, download_queue, strands, api,
                 session, requests, mesures, delivered>>

(* Mutant: GetReadyClient does not hand the client its directory. *)
OpenOkWithoutRoot(t, s) ==
  /\ At(t, "opening") /\ CanConnect
  /\ ~NoFolder
  /\ session[s] = None
  /\ IF resource = None
     THEN session' = session
     ELSE session' = [session EXCEPT ![s] =
            [file |-> thread[t].file, slot |-> NoSlot, host |-> thread[t].host,
             prefix |-> Prefix[resource], root |-> FALSE]]
  /\ Leave(t)
  /\ UNCHANGED <<servers, settings, download_queue, strand_queue, requests, mesures,
                 delivered, crashed>>

(* GetEndpoint reads prefix_ only after the connect. *)
OpenOk(t, s) ==
  /\ At(t, "opening") /\ CanConnect
  /\ ~NoFolder
  /\ session[s] = None
  /\ IF resource = None
     THEN session' = session
     ELSE session' = [session EXCEPT ![s] =
            [file |-> thread[t].file, slot |-> NoSlot, host |-> thread[t].host,
             prefix |-> Prefix[resource], root |-> osu_file_manager]]
  /\ Leave(t)
  /\ UNCHANGED <<servers, settings, download_queue, strand_queue, requests, mesures,
                 delivered, crashed>>

-----------------------------------------------------------------------------
(* MesureServersDownloadSpeed: one MesureSpeed for every slot. *)

(* HandleMesureSpeed, on api_strand_. *)
ApiMesure(t) ==
  /\ At(t, "idle") /\ api = None
  /\ need_to_mesure_speed
  /\ mesures < MaxMesures
  /\ mesures' = mesures + 1
  /\ api' = t
  /\ thread' = [thread EXCEPT ![t] = Mesuring(generation, 1)]
  /\ UNCHANGED <<servers, settings, download_queue, strands, session, requests,
                 faults, delivered, crashed>>

NextSlot(t) ==
  thread' = [thread EXCEPT
    ![t] = Mesuring(thread[t].slot.gen, thread[t].slot.idx + 1)]

(* Mutant: the reset is posted to dl_strand_, and the thread that is inside *)
(* waits for it.                                                            *)
MesureSpeedWaits(t) ==
  LET slot == thread[t].slot IN
  /\ At(t, "mesure")
  /\ slot.idx <= SlotsOf(slot.gen)
  /\ strand # t
  /\ IF StrandFree
     THEN ResetStatuses(slot) /\ UNCHANGED strand_queue
     ELSE /\ strand_queue' = Append(strand_queue, [file |-> None, slot |-> slot])
          /\ UNCHANGED <<base_servers, resource>>
  /\ UseSlot(slot)
  /\ IF resource' = None
     THEN NextSlot(t) /\ need_to_mesure_speed' = TRUE
     ELSE /\ thread' = [thread EXCEPT ![t] = Doing("probing", None, slot, resource')]
          /\ UNCHANGED need_to_mesure_speed
  /\ UNCHANGED <<settings, download_queue, strand, api, session, bounds,
                 delivered>>

(* The reset runs here when dl_strand_ is free, otherwise it has to wait   *)
(* and the measurement goes on without it: SetupSecuredConnection reads    *)
(* resource_ and starts the blocking connect, or throws.                   *)
MesureSpeed(t) ==
  LET slot == thread[t].slot IN
  /\ At(t, "mesure")
  /\ slot.idx <= SlotsOf(slot.gen)
  /\ IF RunsInline(t)
     THEN ResetStatuses(slot) /\ UNCHANGED strand_queue
     ELSE /\ strand_queue' = Append(strand_queue, [file |-> None, slot |-> slot])
          /\ UNCHANGED <<base_servers, resource>>
  /\ UseSlot(slot)
  /\ IF resource' = None
     THEN NextSlot(t) /\ need_to_mesure_speed' = TRUE
     ELSE /\ thread' = [thread EXCEPT ![t] = Doing("probing", None, slot, resource')]
          /\ UNCHANGED need_to_mesure_speed
  /\ UNCHANGED <<settings, download_queue, strand, api, session, bounds,
                 delivered>>

MesureDone(t) ==
  /\ At(t, "mesure")
  /\ thread[t].slot.idx > SlotsOf(thread[t].slot.gen)
  /\ need_to_mesure_speed' = FALSE
  /\ Leave(t)
  /\ UNCHANGED <<base_servers, resource, settings, download_queue, strand_queue,
                 session, bounds, delivered, crashed>>

(* The catch of MesureSpeed. *)
ProbeThrows(t) ==
  /\ At(t, "probing")
  /\ \/ "throws" \in Connects /\ Fault
     \/ NoFolder /\ UNCHANGED faults
  /\ NextSlot(t)
  /\ need_to_mesure_speed' = TRUE
  /\ UNCHANGED <<base_servers, resource, settings, download_queue, strands, api,
                 session, requests, mesures, delivered, crashed>>

(* Get without a connection: OnMesureSpeed, then an exception. *)
ProbeRefused(t) ==
  LET slot == thread[t].slot IN
  /\ At(t, "probing") /\ "refused" \in Connects /\ Fault
  /\ ~NoFolder
  /\ base_servers' = Rate(slot, "UNAVAILABLE", 0)
  /\ UseSlot(slot)
  /\ need_to_mesure_speed' = TRUE
  /\ NextSlot(t)
  /\ UNCHANGED <<resource, settings, download_queue, strands, api, session,
                 requests, mesures, delivered>>

ProbeOk(t, s) ==
  /\ At(t, "probing") /\ CanConnect
  /\ ~NoFolder
  /\ session[s] = None
  /\ IF resource = None
     THEN session' = session /\ need_to_mesure_speed' = TRUE
     ELSE /\ session' = [session EXCEPT ![s] =
               [file |-> None, slot |-> thread[t].slot, host |-> thread[t].host,
                prefix |-> Prefix[resource], root |-> osu_file_manager]]
          /\ UNCHANGED need_to_mesure_speed
  /\ NextSlot(t)
  /\ UNCHANGED <<base_servers, resource, settings, download_queue, strands, api,
                 requests, mesures, delivered, crashed>>

-----------------------------------------------------------------------------
(* The end of an exchange. *)

(* A server answers 200 to its own prefix only. *)
AnswersOk(s) ==
  /\ "ok" \in Answers /\ session[s].prefix = Prefix[session[s].host]
  /\ faults' = faults

AnswersFail(s) ==
  /\ "fail" \in Answers \/ session[s].prefix # Prefix[session[s].host]
  /\ Fault

IsDownload(s) == session[s] # None /\ session[s].file # None

IsMesurement(s) == session[s] # None /\ session[s].file = None

(* A send or header error, a file too big or that cannot be opened: the    *)
(* client logs it and no handler runs.                                     *)
Silent(s) ==
  /\ ~crashed
  /\ session[s] # None /\ "silent" \in Answers /\ Fault
  /\ session' = [session EXCEPT ![s] = None]
  /\ UNCHANGED <<servers, settings, download_queue, strands, api, thread,
                 requests, mesures, delivered, crashed>>

(* The client was made without a directory: the constructor of ReadVisitor *)
(* throws in the completion handler of the send, which nobody catches.     *)
SendWithoutFolder(t, s) ==
  /\ At(t, "idle")
  /\ IsDownload(s) /\ ~session[s].root
  /\ crashed' = TRUE
  /\ UNCHANGED <<servers, settings, download_queue, strands, api, thread,
                 session, bounds, delivered>>

(* Mutant: OnDownload does not erase the file. *)
DownloadOkKeepsFile(t, s) ==
  /\ At(t, "idle")
  /\ IsDownload(s) /\ session[s].root /\ AnswersOk(s)
  /\ session' = [session EXCEPT ![s] = None]
  /\ delivered' = delivered \cup {session[s].file}
  /\ UNCHANGED <<servers, settings, download_queue, strands, api, thread,
                 requests, mesures, crashed>>

(* OnDownload, success. *)
DownloadOk(t, s) ==
  /\ At(t, "idle")
  /\ IsDownload(s) /\ session[s].root /\ AnswersOk(s)
  /\ session' = [session EXCEPT ![s] = None]
  /\ download_queue' = download_queue \ {session[s].file}
  /\ delivered' = delivered \cup {session[s].file}
  /\ UNCHANGED <<servers, settings, strands, api, thread, requests, mesures, crashed>>

(* Mutant: OnDownload erases the file before it looks at success. *)
DownloadFailedErases(t, s) ==
  /\ At(t, "idle")
  /\ IsDownload(s) /\ session[s].root /\ AnswersFail(s)
  /\ session' = [session EXCEPT ![s] = None]
  /\ download_queue' = download_queue \ {session[s].file}
  /\ need_to_mesure_speed' = TRUE
  /\ thread' = [thread EXCEPT ![t] = Mesuring(generation, 1)]
  /\ UNCHANGED <<base_servers, resource, settings, strands, api,
                 requests, mesures, delivered, crashed>>

(* OnDownload, failure: the file stays in download_queue. *)
DownloadFailed(t, s) ==
  /\ At(t, "idle")
  /\ IsDownload(s) /\ session[s].root /\ AnswersFail(s)
  /\ session' = [session EXCEPT ![s] = None]
  /\ need_to_mesure_speed' = TRUE
  /\ thread' = [thread EXCEPT ![t] = Mesuring(generation, 1)]
  /\ UNCHANGED <<base_servers, resource, settings, download_queue, strands, api,
                 requests, mesures, delivered, crashed>>

(* OnMesureSpeed, failure. *)
MesureFailed(t, s) ==
  /\ At(t, "idle")
  /\ IsMesurement(s) /\ AnswersFail(s)
  /\ session' = [session EXCEPT ![s] = None]
  /\ need_to_mesure_speed' = TRUE
  /\ base_servers' = Rate(session[s].slot, "UNAVAILABLE", 0)
  /\ UseSlot(session[s].slot)
  /\ UNCHANGED <<resource, settings, download_queue, strands, api, thread,
                 requests, mesures, delivered>>

(* Mutants: the file is erased and not downloaded; begin() of an empty     *)
(* queue is taken.                                                         *)
RedownloadForgets(t) ==
  /\ download_queue' \in {download_queue \ {f} : f \in download_queue} \cup {{}}
  /\ UNCHANGED thread

RedownloadUnchecked(t) ==
  \E f \in IF download_queue = {} THEN {None} ELSE download_queue :
    /\ download_queue' = download_queue \ {f}
    /\ thread' = [thread EXCEPT ![t] = Doing("insert", f, NoSlot, None)]

(* OnMesureSpeed, success: the file it takes from download_queue goes      *)
(* through Download again, whose check it passes because it was erased.    *)
Redownload(t) ==
  \/ /\ download_queue = {}
     /\ UNCHANGED <<download_queue, thread>>
  \/ \E f \in download_queue :
       /\ download_queue' = download_queue \ {f}
       /\ thread' = [thread EXCEPT ![t] = Doing("insert", f, NoSlot, None)]

MesureOk(t, s) ==
  /\ At(t, "idle")
  /\ IsMesurement(s) /\ AnswersOk(s)
  /\ session' = [session EXCEPT ![s] = None]
  /\ need_to_mesure_speed' = FALSE
  /\ base_servers' \in
       Sorted(Rate(session[s].slot, "AVAILABLE", Speed[session[s].host]))
  /\ resource' = base_servers'[Len(base_servers')].host
  /\ UseSlot(session[s].slot)
  /\ Redownload(t)
  /\ UNCHANGED <<settings, strands, api, requests, mesures, delivered>>

-----------------------------------------------------------------------------
(* The web interface: handlers of api_strand_. *)

SetDownloadsDirectory(t) ==
  /\ At(t, "idle") /\ api = None
  /\ osu_file_manager' = TRUE
  /\ UNCHANGED <<servers, generation, asked_without_folder, download_queue, strands, api,
                 thread, session, bounds, delivered, crashed>>

(* Every push_back is taken for one that moves the buffer, as the first    *)
(* one does; a vector that has grown may have room for the next.           *)
SetResourceAndPrefix(t, h) ==
  /\ At(t, "idle") /\ api = None
  /\ resource' = h
  /\ IF \E i \in 1..Len(base_servers) : base_servers[i].host = h
     THEN UNCHANGED <<base_servers, generation>>
     ELSE /\ base_servers' = Append(base_servers, Server(h))
          /\ generation' = generation + 1
  /\ UNCHANGED <<need_to_mesure_speed, osu_file_manager, asked_without_folder,
                 download_queue, strands, api, thread, session, bounds, delivered,
                 crashed>>

-----------------------------------------------------------------------------
Init ==
  /\ base_servers = [i \in 1..Len(BaseServers) |-> Server(BaseServers[i])]
  /\ generation = 0
  /\ resource = StartResource
  /\ download_queue = {}
  /\ need_to_mesure_speed = TRUE
  /\ osu_file_manager = FolderAtStart
  /\ strand = None
  /\ strand_queue = <<>>
  /\ api = None
  /\ thread = [t \in Threads |-> Idle]
  /\ session = [s \in Sessions |-> None]
  /\ requests = 0
  /\ mesures = 0
  /\ faults = 0
  /\ delivered = {}
  /\ asked_without_folder = FALSE
  /\ crashed = FALSE

(* The steps of a worker that is busy: it runs on until it is idle. *)
Work(t) ==
  \/ Insert(t) \/ OpenThrows(t) \/ OpenRefused(t)
  \/ \E s \in Sessions : OpenOk(t, s)
  \/ MesureSpeed(t) \/ MesureDone(t)
  \/ ProbeThrows(t) \/ ProbeRefused(t)
  \/ \E s \in Sessions : ProbeOk(t, s)

(* A handler of dl_strand_ that was waiting. *)
RunStrand(t) == StartDownload(t) \/ StartReset(t)

(* The end of exchange s. *)
Complete(s) ==
  \/ Silent(s)
  \/ \E t \in Threads : \/ SendWithoutFolder(t, s)
                        \/ DownloadOk(t, s) \/ DownloadFailed(t, s)
                        \/ MesureOk(t, s) \/ MesureFailed(t, s)

(* Chat and web interface. *)
Ask(t) ==
  \/ \E f \in Files : RequestMap(t, f)
  \/ ApiMesure(t) \/ SetDownloadsDirectory(t)
  \/ \E h \in ApiHosts : SetResourceAndPrefix(t, h)

Next ==
  \/ \E t \in Threads : Work(t) \/ RunStrand(t) \/ Ask(t)
  \/ \E s \in Sessions : Complete(s)

Spec == Init /\ [][Next]_vars

(* io_context runs its ready handlers in the order they became ready, and  *)
(* a blocking connect returns: a worker goes on, a waiting handler is not  *)
(* overtaken for ever, and an exchange that can end does end.              *)
Fairness ==
  /\ \A t \in Threads : WF_vars(Work(t))
  /\ SF_vars(\E t \in Threads : RunStrand(t))
  /\ \A s \in Sessions : SF_vars(Complete(s))

FairSpec == Spec /\ Fairness

-----------------------------------------------------------------------------
(* What is true of the downloader. *)

PCs == {"idle", "insert", "opening", "mesure", "probing"}

SlotType == [gen : Nat, idx : Nat]

ServerType ==
  [host : Hosts, speed : Nat \cup {NotMesured},
   status : {"AVAILABLE", "UNAVAILABLE", "UNKNOWN"}]

JobType == [file : Files \cup {None}, slot : SlotType]

SessionType ==
  [file : Files \cup {None}, slot : SlotType, host : Hosts, prefix : Hosts,
   root : BOOLEAN]

ThreadType ==
  [pc : PCs, file : Files \cup {None}, slot : SlotType, host : Hosts \cup {None}]

(* The types of the variables. *)
TypeOK ==
  /\ base_servers \in Seq(ServerType)
  /\ generation \in Nat
  /\ resource \in Hosts \cup {None}
  /\ download_queue \subseteq Files
  /\ need_to_mesure_speed \in BOOLEAN
  /\ osu_file_manager \in BOOLEAN
  /\ strand \in Threads \cup {None}
  /\ strand_queue \in Seq(JobType)
  /\ api \in Threads \cup {None}
  /\ thread \in [Threads -> ThreadType]
  /\ session \in [Sessions -> SessionType \cup {None}]
  /\ requests \in Nat
  /\ mesures \in Nat
  /\ faults \in Nat
  /\ delivered \subseteq Files
  /\ asked_without_folder \in BOOLEAN
  /\ crashed \in BOOLEAN

(* A file the program has accepted from the chat and not yet delivered: in *)
(* download_queue, or in the hands of a thread between the check, or the   *)
(* erase of OnMesureSpeed, and the insertion.                              *)
Pending ==
  download_queue \cup
    {thread[t].file : t \in {u \in Threads : thread[u].pc = "insert"}}

(* No interleaving of the requests, the retries and the measurements makes *)
(* the downloader forget a file: what OnMesureSpeed erases from            *)
(* download_queue it gives back to Download, and only a successful         *)
(* OnDownload of a file ends its wait.                                     *)
PendingUntilDelivered ==
  [][\A f \in Pending : f \notin Pending' =>
       \E t \in Threads, s \in Sessions :
         DownloadOk(t, s) /\ session[s].file = f]_vars

(* The same promise as a specification of its own. *)
Book == INSTANCE RequestBook WITH pending <- Pending

BookSpec == Book!Spec

(* A thread that makes the client of a download is inside dl_strand_: no   *)
(* two downloads run the blocking part of GetReadyClient at the same time, *)
(* whether the handler ran inline, was queued, or comes from a retry.      *)
OpensInsideStrand ==
  \A t \in Threads : thread[t].pc = "opening" => strand = t

(* Two things only can end the program here: a map was asked for while no   *)
(* downloads directory was set (its client may be made without one), or a  *)
(* server was added (the references of a running measurement then dangle). *)
(* A directory set before the first map is enough for every client, also   *)
(* those of retries, whatever measurement lets GetReadyClient pass without. *)
CrashNeedsCause == crashed => asked_without_folder \/ generation > 0

(* A server that was given a speed makes the downloader select a server of *)
(* the highest speed it has recorded, whatever was measured before.        *)
MesurementSelectsBest ==
  [][(\E i \in DOMAIN base_servers : base_servers'[i].speed # base_servers[i].speed)
       => \A j \in DOMAIN base_servers' : \E i \in DOMAIN base_servers' :
            /\ base_servers'[i].host = resource'
            /\ base_servers'[i].speed >= base_servers'[j].speed]_vars

(* No worker keeps dl_strand_ for ever: the measurement that a refused     *)
(* download runs inside it dispatches to the same strand and does not wait *)
(* for itself.                                                             *)
StrandReleased == \A t \in Threads : strand = t ~> strand # t

SharedPrefix == \A g, h \in Hosts : Prefix[g] = Prefix[h]

(* Between servers of one prefix (catboy.best and api.nerinyan.moe have    *)
(* "/d/") that answer again after a fault, a file is delivered in the end   *)
(* if no other is wanted: also when two threads ask for it at once, when   *)
(* its download was refused or broken off, or when a measurement takes it  *)
(* from download_queue while it is under way.                              *)
LoneFileDelivered ==
  SharedPrefix =>
    \A f \in Files : [](Pending \subseteq {f}) => (f \in Pending ~> f \notin Pending)

(* The measurement that a fault starts ends the "Processing" of             *)
(* dl_server_status, whatever downloads run beside it.                      *)
MesurementShowsAvailable ==
  faults > 0 ~> AccessTestResult = "Available"

-----------------------------------------------------------------------------
(* What the documentation or the code says and the downloader does not do. *)

(* Nothing is under way and no handler waits. *)
Quiescent ==
  /\ \A t \in Threads : thread[t].pc = "idle"
  /\ \A s \in Sessions : session[s] = None
  /\ strand_queue = <<>>

(* README.md:141, the indicator being green: "all servers are available,   *)
(* the system has selected the fastest one".  Where every server answers,  *)
(* no server is faster than the one a finished measurement has selected.   *)
FastestSelected ==
  mesures > 0 /\ Quiescent /\ AccessTestResult = "Available" =>
    \A h \in {BaseServers[i] : i \in 1..Len(BaseServers)} :
      Speed[resource] >= Speed[h]

=============================================================================
