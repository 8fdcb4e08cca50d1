-------------------------- MODULE DownloaderProofs --------------------------
(* Proofs about Downloader for every set of hosts, files, threads and       *)
(* sessions, every bound and every list of base servers: the safety         *)
(* invariants, the server a measurement selects, that no file is forgotten  *)
(* and that Downloader implements RequestBook.                              *)
EXTENDS Downloader, SequenceTheorems, TLAPS

-----------------------------------------------------------------------------
(* The inductive invariant. *)

(* A slot the vector had when its generation was the slot's. *)
KnownSlot(slot) ==
  slot.gen \in 0..generation /\ slot.idx \in 1..SlotsOf(slot.gen)

VectorLength == Len(base_servers) = SlotsOf(generation)

ThreadsKnown ==
  \A t \in Threads :
    /\ thread[t].pc \in {"insert", "opening"} => thread[t].file \in Files
    /\ thread[t].pc \in {"opening", "probing"} => thread[t].host \in Hosts
    /\ thread[t].pc = "mesure" =>
         thread[t].slot.gen \in 0..generation /\ thread[t].slot.idx >= 1
    /\ thread[t].pc = "probing" => KnownSlot(thread[t].slot)

SessionsKnown ==
  \A s \in Sessions :
    session[s] # None =>
      /\ session[s].file = None => KnownSlot(session[s].slot)
      /\ session[s].file # None /\ ~session[s].root => asked_without_folder

(* The handlers that may wait for dl_strand_. *)
KnownJobs == {job \in JobType : job.file = None => KnownSlot(job.slot)}

QueueKnown == strand_queue \in Seq(KnownJobs)

(* No map is on its way from the chat to a client. *)
NothingAsked ==
  /\ download_queue = {}
  /\ \A t \in Threads : thread[t].pc \notin {"insert", "opening"}
  /\ \A i \in 1..Len(strand_queue) : strand_queue[i].file = None

FolderKept == ~asked_without_folder /\ ~osu_file_manager => NothingAsked

IInv ==
  /\ TypeOK
  /\ OpensInsideStrand
  /\ CrashNeedsCause
  /\ VectorLength
  /\ ThreadsKnown
  /\ SessionsKnown
  /\ QueueKnown
  /\ FolderKept

-----------------------------------------------------------------------------
(* What the helpers of the model return. *)

(* The values a thread is given are of its type. *)
LEMMA DoingType ==
  ASSUME NEW pc \in PCs, NEW f \in Files \cup {None}, NEW slot \in SlotType,
         NEW h \in Hosts \cup {None}
  PROVE  /\ Doing(pc, f, slot, h) \in ThreadType
         /\ Doing(pc, f, slot, h).pc = pc
         /\ Doing(pc, f, slot, h).file = f
         /\ Doing(pc, f, slot, h).slot = slot
         /\ Doing(pc, f, slot, h).host = h
BY DEF Doing, ThreadType

(* A thread that measures is at the slot it was given. *)
LEMMA MesuringType ==
  ASSUME NEW gen \in Nat, NEW idx \in Nat
  PROVE  /\ Mesuring(gen, idx) \in ThreadType
         /\ Mesuring(gen, idx).pc = "mesure"
         /\ Mesuring(gen, idx).slot.gen = gen
         /\ Mesuring(gen, idx).slot.idx = idx
<1>1. Slot(gen, idx) \in SlotType /\ Slot(gen, idx).gen = gen /\ Slot(gen, idx).idx = idx
  BY DEF Slot, SlotType
<1>2. "mesure" \in PCs
  BY DEF PCs
<1> QED BY <1>1, <1>2, DoingType DEF Mesuring

(* So is the value of a thread that does nothing. *)
LEMMA IdleType ==
  /\ Idle \in ThreadType
  /\ Idle.pc = "idle"
BY DEF Idle, ThreadType, PCs, NoSlot, Slot, SlotType

(* Giving a thread something to do leaves the others alone. *)
LEMMA ThreadSet ==
  ASSUME NEW t \in Threads, NEW v \in ThreadType, TypeOK,
         thread' = [thread EXCEPT ![t] = v]
  PROVE  /\ thread' \in [Threads -> ThreadType]
         /\ thread'[t] = v
         /\ \A u \in Threads : u # t => thread'[u] = thread[u]
BY DEF TypeOK

(* A server rated through a slot of the vector leaves a vector of servers   *)
(* of the same length.                                                      *)
LEMMA RateType ==
  ASSUME NEW slot \in SlotType, NEW status \in {"AVAILABLE", "UNAVAILABLE"},
         NEW speed \in Nat, TypeOK, VectorLength, KnownSlot(slot)
  PROVE  /\ Rate(slot, status, speed) \in Seq(ServerType)
         /\ Len(Rate(slot, status, speed)) = Len(base_servers)
<1>1. base_servers \in Seq(ServerType)
  BY DEF TypeOK
<1>2. CASE slot.gen # generation
  BY <1>1, <1>2 DEF Rate
<1>3. CASE slot.gen = generation
  <2>1. slot.idx \in 1..Len(base_servers)
    BY <1>3 DEF VectorLength, KnownSlot
  <2>2. base_servers[slot.idx] \in ServerType
    BY <1>1, <2>1
  <2>3. [host |-> base_servers[slot.idx].host, status |-> status,
         speed |-> IF status = "AVAILABLE" THEN speed
                   ELSE base_servers[slot.idx].speed] \in ServerType
    BY <2>2 DEF ServerType
  <2> QED
    BY <1>1, <1>3, <2>1, <2>3 DEF Rate
<1> QED BY <1>2, <1>3

(* A sorted list of servers is a list of servers of the same length. *)
LEMMA SortedType ==
  ASSUME NEW list \in Seq(ServerType), NEW sorted \in Sorted(list)
  PROVE  sorted \in Seq(ServerType) /\ Len(sorted) = Len(list)
<1>1. PICK p \in Reorderings(Len(list)) :
        sorted = [i \in 1..Len(list) |-> list[p[i]]]
  BY DEF Sorted
<1>2. \A i \in 1..Len(list) : list[p[i]] \in ServerType
  BY DEF Reorderings
<1> QED BY <1>1, <1>2

(* The reset of the statuses keeps the types. *)
LEMMA ResetType ==
  ASSUME NEW slot \in SlotType, TypeOK, VectorLength, KnownSlot(slot),
         ResetStatuses(slot)
  PROVE  /\ base_servers' \in Seq(ServerType)
         /\ Len(base_servers') = Len(base_servers)
         /\ resource' \in Hosts \cup {None}
<1>1. base_servers \in Seq(ServerType) /\ resource \in Hosts \cup {None}
  BY DEF TypeOK
<1>2. CASE ~need_to_mesure_speed
  BY <1>1, <1>2 DEF ResetStatuses
<1>3. CASE need_to_mesure_speed
  <2>0. \A i \in DOMAIN base_servers : base_servers[i] \in ServerType
    BY <1>1
  <2>1. \A i \in DOMAIN base_servers :
          [base_servers[i] EXCEPT !.status = "UNKNOWN"] \in ServerType
    BY <2>0 DEF ServerType
  <2>2. base_servers' \in Seq(ServerType) /\ Len(base_servers') = Len(base_servers)
    BY <1>1, <1>3, <2>1 DEF ResetStatuses
  <2>3. CASE slot.gen = generation
    <3>1. slot.idx \in 1..Len(base_servers)
      BY <2>3 DEF VectorLength, KnownSlot
    <3>2. base_servers[slot.idx].host \in Hosts
      BY <1>1, <2>0, <3>1 DEF ServerType
    <3> QED BY <1>1, <1>3, <2>2, <2>3, <3>2 DEF ResetStatuses
  <2>4. CASE slot.gen # generation
    BY <1>1, <1>3, <2>2, <2>4 DEF ResetStatuses
  <2> QED BY <2>3, <2>4
<1> QED BY <1>2, <1>3

(* A slot ends the program only if the vector has grown since. *)
LEMMA UseSlotType ==
  ASSUME NEW slot \in SlotType, TypeOK, slot.gen \in 0..generation, UseSlot(slot)
  PROVE  crashed' \in BOOLEAN /\ (crashed' # crashed => generation > 0)
BY DEF TypeOK, UseSlot, SlotType

(* What is taken from, left in and added to the queue of the strand. *)
LEMMA QueueTypes ==
  ASSUME QueueKnown
  PROVE  /\ strand_queue # <<>> => /\ Head(strand_queue) \in KnownJobs
                                  /\ Tail(strand_queue) \in Seq(KnownJobs)
         /\ \A job \in KnownJobs : Append(strand_queue, job) \in Seq(KnownJobs)
         /\ \A queue \in Seq(KnownJobs) : queue \in Seq(JobType)
<1>1. strand_queue # <<>> => /\ Head(strand_queue) \in KnownJobs
                            /\ Tail(strand_queue) \in Seq(KnownJobs)
  BY HeadTailProperties DEF QueueKnown
<1>2. \A job \in KnownJobs : Append(strand_queue, job) \in Seq(KnownJobs)
  BY AppendProperties DEF QueueKnown
<1>3. \A queue \in Seq(KnownJobs) : queue \in Seq(JobType)
  BY SeqMonotonic, KnownJobs \subseteq JobType DEF KnownJobs
<1> QED BY <1>1, <1>2, <1>3

(* A thread that leaves does nothing, and only gives back what it holds. *)
LEMMA LeaveType ==
  ASSUME NEW t \in Threads, TypeOK, Leave(t)
  PROVE  /\ thread' \in [Threads -> ThreadType]
         /\ thread'[t].pc = "idle"
         /\ \A u \in Threads : u # t => thread'[u] = thread[u]
         /\ strand' \in Threads \cup {None} /\ api' \in Threads \cup {None}
         /\ \A u \in Threads : u # t /\ strand = u => strand' = u
BY IdleType DEF TypeOK, Leave

(* A thread that starts a download enters dl_strand_, or leaves at once. *)
LEMMA OpenClientType ==
  ASSUME NEW t \in Threads, NEW f \in Files, TypeOK, OpenClient(t, f)
  PROVE  /\ thread' \in [Threads -> ThreadType]
         /\ \A u \in Threads : u # t => thread'[u] = thread[u]
         /\ strand' \in Threads \cup {None} /\ api' \in Threads \cup {None}
         /\ \/ thread'[t].pc = "idle"
               /\ \A u \in Threads : u # t /\ strand = u => strand' = u
            \/ /\ thread'[t].pc = "opening"
               /\ thread'[t].file \in Files /\ thread'[t].host \in Hosts
               /\ strand' = t
<1>1. CASE resource = None
  BY <1>1, LeaveType DEF OpenClient
<1>2. CASE resource # None
  <2>1. /\ Doing("opening", f, NoSlot, resource) \in ThreadType
        /\ Doing("opening", f, NoSlot, resource).pc = "opening"
        /\ Doing("opening", f, NoSlot, resource).file \in Files
        /\ Doing("opening", f, NoSlot, resource).host \in Hosts
    BY SMTT(30), <1>2, DoingType DEF TypeOK, PCs, NoSlot, Slot, SlotType
  <2>2. /\ thread' = [thread EXCEPT ![t] = Doing("opening", f, NoSlot, resource)]
        /\ strand' = t /\ api' = api
    BY <1>2 DEF OpenClient
  <2> QED BY <2>1, <2>2 DEF TypeOK
<1> QED BY <1>1, <1>2

(* A file taken from download_queue is in the hands of the thread. *)
LEMMA RedownloadType ==
  ASSUME NEW t \in Threads, TypeOK, Redownload(t)
  PROVE  /\ thread' \in [Threads -> ThreadType] /\ download_queue' \subseteq Files
         /\ \A u \in Threads : u # t => thread'[u] = thread[u]
         /\ thread'[t] = thread[t] \/ (thread'[t].pc = "insert" /\ thread'[t].file \in Files)
<1>1. CASE UNCHANGED <<download_queue, thread>>
  BY <1>1 DEF TypeOK
<1>2. ASSUME NEW f \in download_queue,
             download_queue' = download_queue \ {f},
             thread' = [thread EXCEPT ![t] = Doing("insert", f, NoSlot, None)]
      PROVE  /\ thread' \in [Threads -> ThreadType] /\ download_queue' \subseteq Files
             /\ \A u \in Threads : u # t => thread'[u] = thread[u]
             /\ thread'[t].pc = "insert" /\ thread'[t].file \in Files
  <2> DEFINE new == Doing("insert", f, NoSlot, None)
  <2>1. f \in Files
    BY DEF TypeOK
  <2>2. new \in ThreadType /\ new.pc = "insert" /\ new.file = f
    BY <2>1 DEF Doing, ThreadType, PCs, NoSlot, Slot, SlotType
  <2>3. thread' = [thread EXCEPT ![t] = new]
    BY <1>2
  <2>4. download_queue' \subseteq Files
    BY <1>2 DEF TypeOK
  <2> HIDE DEF new
  <2> QED BY <2>1, <2>2, <2>3, <2>4, ThreadSet
<1> QED BY <1>1, <1>2 DEF Redownload

(* A measurement goes on to the next slot of the buffer it started with. *)
LEMMA NextSlotType ==
  ASSUME NEW t \in Threads, TypeOK, ThreadsKnown, thread[t].pc = "probing",
         NextSlot(t)
  PROVE  /\ thread' \in [Threads -> ThreadType] /\ thread'[t].pc = "mesure"
         /\ thread'[t].slot.gen = thread[t].slot.gen /\ thread'[t].slot.idx >= 1
         /\ \A u \in Threads : u # t => thread'[u] = thread[u]
<1> DEFINE next == Mesuring(thread[t].slot.gen, thread[t].slot.idx + 1)
<1>1. thread[t].slot \in SlotType
  BY DEF TypeOK, ThreadType
<1>2. /\ next \in ThreadType /\ next.pc = "mesure"
      /\ next.slot.gen = thread[t].slot.gen /\ next.slot.idx >= 1
  BY <1>1, MesuringType DEF SlotType
<1>3. thread' = [thread EXCEPT ![t] = next]
  BY DEF NextSlot
<1> HIDE DEF next
<1> QED BY <1>2, <1>3, ThreadSet

-----------------------------------------------------------------------------
(* The invariant holds in the initial state and no step breaks it. *)

THEOREM IInvInit == Init => IInv
<1> SUFFICES ASSUME Init PROVE IInv OBVIOUS
<1>1. base_servers \in Seq(ServerType) /\ Len(base_servers) = Len(BaseServers)
  BY DownloaderAssumption DEF Init, Server, ServerType, NotMesured
<1>2. TypeOK
  <2>1. resource \in Hosts \cup {None}
    BY DownloaderAssumption DEF Init
  <2>2. thread \in [Threads -> ThreadType] /\ session \in [Sessions -> SessionType \cup {None}]
    BY IdleType DEF Init
  <2>3. strand_queue \in Seq(JobType)
    BY EmptySeq DEF Init
  <2> QED BY <1>1, <2>1, <2>2, <2>3, DownloaderAssumption DEF Init, TypeOK
<1>3. OpensInsideStrand /\ ThreadsKnown
  BY IdleType DEF Init, OpensInsideStrand, ThreadsKnown
<1>4. VectorLength /\ CrashNeedsCause /\ SessionsKnown /\ QueueKnown
  BY <1>1, EmptySeq, DownloaderAssumption DEF Init, VectorLength, SlotsOf, CrashNeedsCause,
     SessionsKnown, QueueKnown
<1>5. FolderKept
  BY IdleType DEF Init, FolderKept, NothingAsked
<1> QED BY <1>2, <1>3, <1>4, <1>5 DEF IInv

(* As long as every map was asked for with a directory set, none is on its *)
(* way without one.                                                        *)
LEMMA FolderKeptStep == IInv /\ [Next]_vars => FolderKept'
<1> SUFFICES ASSUME IInv, [Next]_vars, ~asked_without_folder', ~osu_file_manager'
             PROVE  NothingAsked'
  BY DEF FolderKept
<1> USE DEF settings, servers, strands, bounds, vars, At
<1>1. TypeOK /\ (~asked_without_folder /\ ~osu_file_manager => NothingAsked)
  BY DEF IInv, FolderKept
<1>2. strand_queue # <<>> => Head(strand_queue) = strand_queue[1] /\ 1 \in 1..Len(strand_queue)
  BY <1>1 DEF TypeOK
<1>3. strand_queue' = Tail(strand_queue) /\ strand_queue # <<>> =>
        \A i \in 1..Len(strand_queue') :
          i + 1 \in 1..Len(strand_queue) /\ strand_queue'[i] = strand_queue[i + 1]
  BY <1>1 DEF TypeOK
<1>4. ASSUME NEW t \in Threads, NEW f \in Files, RequestMap(t, f)
      PROVE  FALSE
  BY <1>4 DEF RequestMap
<1>5. osu_file_manager = FALSE /\ asked_without_folder = FALSE
  <2>1. CASE UNCHANGED settings BY <1>1, <2>1 DEF TypeOK
  <2>2. ASSUME NEW t \in Threads, SetDownloadsDirectory(t) PROVE FALSE
    BY <2>2 DEF SetDownloadsDirectory
  <2>3. ASSUME NEW t \in Threads, NEW h \in ApiHosts, SetResourceAndPrefix(t, h)
        PROVE  osu_file_manager = FALSE /\ asked_without_folder = FALSE
    BY <1>1, <2>3 DEF SetResourceAndPrefix, TypeOK
  <2>4. UNCHANGED settings \/ (\E t \in Threads : SetDownloadsDirectory(t)
                                \/ (\E f \in Files : RequestMap(t, f))
                                \/ (\E h \in ApiHosts : SetResourceAndPrefix(t, h)))
    <3>1. ASSUME NEW t \in Threads, Work(t) PROVE UNCHANGED settings
      BY <3>1 DEF Work, Insert, OpenThrows, OpenRefused, OpenOk, MesureSpeed, MesureDone,
                  ProbeThrows, ProbeRefused, ProbeOk
    <3>2. ASSUME NEW t \in Threads, RunStrand(t) PROVE UNCHANGED settings
      BY <3>2 DEF RunStrand, StartDownload, StartReset
    <3>3. ASSUME NEW s \in Sessions, Complete(s) PROVE UNCHANGED settings
      BY <3>3 DEF Complete, Silent, SendWithoutFolder, DownloadOk, DownloadFailed, MesureOk,
                  MesureFailed
    <3>4. ASSUME NEW t \in Threads, ApiMesure(t) PROVE UNCHANGED settings
      BY <3>4 DEF ApiMesure
    <3> QED BY <3>1, <3>2, <3>3, <3>4 DEF Next, Ask
  <2> QED BY <1>4, <2>1, <2>2, <2>3, <2>4
<1>6. NothingAsked
  BY <1>1, <1>5
<1>7. ASSUME NEW t \in Threads, Work(t)
      PROVE  NothingAsked'
  <2>1. thread[t].pc \notin {"insert", "opening"}
    BY <1>6 DEF NothingAsked
  <2>2. CASE MesureSpeed(t)
    <3>1. \A u \in Threads : thread'[u].pc \notin {"insert", "opening"}
      <4>1. CASE resource' = None
        <5>1. NextSlot(t) BY <2>2, <4>1 DEF MesureSpeed
        <5> QED BY <1>1, <1>6, <5>1 DEF NextSlot, Mesuring, Doing, NothingAsked, TypeOK
      <4>2. CASE resource' # None
        <5>1. thread' = [thread EXCEPT
                           ![t] = Doing("probing", None, thread[t].slot, resource')]
          BY <2>2, <4>2 DEF MesureSpeed
        <5> QED BY <1>1, <1>6, <5>1 DEF Doing, NothingAsked, TypeOK
      <4> QED BY <4>1, <4>2
    <3>2. \A i \in 1..Len(strand_queue') : strand_queue'[i].file = None
      <4> DEFINE job == [file |-> None, slot |-> thread[t].slot]
      <4>1. strand_queue' = strand_queue \/ strand_queue' = Append(strand_queue, job)
        BY <2>2 DEF MesureSpeed
      <4>2. job.file = None OBVIOUS
      <4> HIDE DEF job
      <4>3. \A i \in 1..Len(Append(strand_queue, job)) :
              \/ /\ i \in 1..Len(strand_queue)
                 /\ Append(strand_queue, job)[i] = strand_queue[i]
              \/ Append(strand_queue, job)[i] = job
        BY <1>1 DEF TypeOK
      <4> QED BY <1>6, <4>1, <4>2, <4>3 DEF NothingAsked
    <3> QED BY <1>6, <2>2, <3>1, <3>2 DEF MesureSpeed, NothingAsked
  <2>3. CASE MesureDone(t)
    BY <1>1, <1>6, <2>3 DEF MesureDone, Leave, Idle, NothingAsked, TypeOK
  <2>4. CASE ProbeThrows(t) \/ ProbeRefused(t) \/ \E s \in Sessions : ProbeOk(t, s)
    BY <1>1, <1>6, <2>4
    DEF ProbeThrows, ProbeRefused, ProbeOk, NextSlot, Mesuring, Doing, NothingAsked, TypeOK
  <2> QED BY <1>7, <2>1, <2>2, <2>3, <2>4 DEF Work, Insert, OpenThrows, OpenRefused, OpenOk
<1>8. ASSUME NEW t \in Threads, RunStrand(t)
      PROVE  NothingAsked'
  <2>1. CASE StartDownload(t)
    BY <1>2, <1>6, <2>1 DEF StartDownload, NothingAsked
  <2>2. CASE StartReset(t)
    BY <1>3, <1>6, <2>2 DEF StartReset, NothingAsked
  <2> QED BY <1>8, <2>1, <2>2 DEF RunStrand
<1>9. ASSUME NEW s \in Sessions, Complete(s)
      PROVE  NothingAsked'
  <2>1. CASE Silent(s)
    BY <1>6, <2>1 DEF Silent, NothingAsked
  <2>2. ASSUME NEW t \in Threads, SendWithoutFolder(t, s) \/ MesureFailed(t, s)
        PROVE  NothingAsked'
    BY <1>6, <2>2 DEF SendWithoutFolder, MesureFailed, NothingAsked
  <2>3. ASSUME NEW t \in Threads, DownloadOk(t, s)
        PROVE  NothingAsked'
    BY <1>6, <2>3 DEF DownloadOk, NothingAsked
  <2>4. ASSUME NEW t \in Threads, DownloadFailed(t, s)
        PROVE  NothingAsked'
    BY <1>1, <1>6, <2>4 DEF DownloadFailed, Mesuring, Doing, NothingAsked, TypeOK
  <2>5. ASSUME NEW t \in Threads, MesureOk(t, s)
        PROVE  NothingAsked'
    <3>1. UNCHANGED <<download_queue, thread, strand_queue>>
      BY <1>6, <2>5 DEF MesureOk, Redownload, NothingAsked
    <3> QED BY <1>6, <3>1 DEF NothingAsked
  <2> QED BY <1>9, <2>1, <2>2, <2>3, <2>4, <2>5 DEF Complete
<1>10. ASSUME NEW t \in Threads, ApiMesure(t) \/ SetDownloadsDirectory(t)
       PROVE  NothingAsked'
  BY <1>1, <1>6, <1>10 DEF ApiMesure, SetDownloadsDirectory, Mesuring, Doing, NothingAsked,
                           TypeOK
<1>11. ASSUME NEW t \in Threads, NEW h \in ApiHosts, SetResourceAndPrefix(t, h)
       PROVE  NothingAsked'
  BY <1>6, <1>11 DEF SetResourceAndPrefix, NothingAsked
<1>12. CASE UNCHANGED vars
  BY <1>6, <1>12 DEF NothingAsked
<1> QED BY <1>4, <1>7, <1>8, <1>9, <1>10, <1>11, <1>12 DEF Next, Ask

THEOREM IInvStep == IInv /\ [Next]_vars => IInv'
<1> SUFFICES ASSUME IInv, [Next]_vars PROVE IInv' OBVIOUS
<1> USE DEF IInv
<1> USE DEF settings, servers, strands, bounds, vars, At
<1>a. NoSlot \in SlotType /\ PCs = {"idle", "insert", "opening", "mesure", "probing"}
  BY DEF NoSlot, Slot, SlotType, PCs
<1>b. None \notin Threads /\ None \notin Files
  BY DownloaderAssumption
<1>c. generation' = generation =>
        /\ KnownJobs' = KnownJobs
        /\ \A slot : KnownSlot(slot)' <=> KnownSlot(slot)
  BY DEF KnownJobs, KnownSlot, SlotsOf
<1>d. /\ generation \in 0..generation /\ Mesuring(generation, 1) \in ThreadType
      /\ Mesuring(generation, 1).pc = "mesure"
      /\ Mesuring(generation, 1).slot.gen = generation
      /\ Mesuring(generation, 1).slot.idx = 1
  BY MesuringType DEF TypeOK
<1>f. FolderKept'
  BY FolderKeptStep
<1>1. ASSUME NEW t \in Threads, NEW f \in Files, RequestMap(t, f)
      PROVE  IInv'
  <2>1. TypeOK'
    BY <1>1, <1>a, DoingType DEF RequestMap, TypeOK
  <2>2. ThreadsKnown' /\ OpensInsideStrand'
    BY <1>1, <1>a, <1>c, DoingType DEF RequestMap, TypeOK, ThreadsKnown, OpensInsideStrand
  <2>3. (VectorLength /\ SessionsKnown /\ QueueKnown /\ CrashNeedsCause)'
    BY <1>1, <1>c
    DEF RequestMap, VectorLength, SlotsOf, SessionsKnown, QueueKnown, CrashNeedsCause
  <2> QED BY <1>f, <2>1, <2>2, <2>3
<1>2. ASSUME NEW t \in Threads, Insert(t)
      PROVE  IInv'
  <2> DEFINE job == [file |-> thread[t].file, slot |-> NoSlot]
  <2>0. thread[t].file \in Files /\ job \in KnownJobs
    BY <1>2, <1>a, <1>b DEF Insert, ThreadsKnown, KnownJobs, JobType
  <2>1. strand_queue' \in Seq(KnownJobs)
    BY <1>2, <2>0, QueueTypes DEF Insert, QueueKnown
  <2>2. TypeOK' /\ ThreadsKnown' /\ OpensInsideStrand'
    <3>1. CASE RunsInline(t)
      <4>1. OpenClient(t, thread[t].file)
        BY <1>2, <3>1 DEF Insert
      <4>2. TypeOK'
        BY <1>2, <2>0, <2>1, <4>1, QueueTypes, OpenClientType DEF Insert, TypeOK
      <4>3. \A u \in Threads : thread[u].pc = "opening" => u = t /\ strand = t
        BY <1>b, <3>1 DEF RunsInline, StrandFree, OpensInsideStrand
      <4>4. ThreadsKnown' /\ OpensInsideStrand'
        BY <1>2, <1>c, <2>0, <4>1, <4>3, OpenClientType
        DEF Insert, ThreadsKnown, OpensInsideStrand
      <4> QED BY <4>2, <4>4
    <3>2. CASE ~RunsInline(t)
      <4>1. Leave(t)
        BY <1>2, <3>2 DEF Insert
      <4>2. TypeOK'
        BY <1>2, <2>0, <2>1, <4>1, QueueTypes, LeaveType DEF Insert, TypeOK
      <4>3. ThreadsKnown' /\ OpensInsideStrand'
        BY <1>2, <1>c, <4>1, LeaveType DEF Insert, ThreadsKnown, OpensInsideStrand
      <4> QED BY <4>2, <4>3
    <3> QED BY <3>1, <3>2
  <2>3. (VectorLength /\ SessionsKnown /\ QueueKnown /\ CrashNeedsCause)'
    BY <1>2, <1>c, <2>1
    DEF Insert, VectorLength, SlotsOf, SessionsKnown, QueueKnown, CrashNeedsCause
  <2> QED BY <1>f, <2>2, <2>3
<1>3. ASSUME NEW t \in Threads, StartDownload(t)
      PROVE  IInv'
  <2>0. Head(strand_queue).file \in Files /\ strand_queue' \in Seq(KnownJobs)
    BY <1>3, QueueTypes DEF StartDownload, KnownJobs, JobType
  <2>1. OpenClient(t, Head(strand_queue).file)
    BY <1>3 DEF StartDownload
  <2>2. TypeOK'
    BY <1>3, <2>0, <2>1, QueueTypes, OpenClientType DEF StartDownload, TypeOK
  <2>3. \A u \in Threads : thread[u].pc # "opening"
    BY <1>3, <1>b DEF StartDownload, OpensInsideStrand
  <2>4. ThreadsKnown' /\ OpensInsideStrand'
    BY <1>3, <1>c, <2>0, <2>1, <2>3, OpenClientType
    DEF StartDownload, ThreadsKnown, OpensInsideStrand
  <2>5. (VectorLength /\ SessionsKnown /\ QueueKnown /\ CrashNeedsCause)'
    BY <1>3, <1>c, <2>0
    DEF StartDownload, VectorLength, SlotsOf, SessionsKnown, QueueKnown,
        CrashNeedsCause
  <2> QED BY <1>f, <2>2, <2>4, <2>5
<1>4. ASSUME NEW t \in Threads, StartReset(t)
      PROVE  IInv'
  <2> DEFINE slot == Head(strand_queue).slot
  <2>0. /\ slot \in SlotType /\ KnownSlot(slot)
        /\ strand_queue' \in Seq(KnownJobs)
    BY <1>4, QueueTypes DEF StartReset, KnownJobs, JobType
  <2>1. /\ base_servers' \in Seq(ServerType) /\ Len(base_servers') = Len(base_servers)
        /\ resource' \in Hosts \cup {None}
    BY <1>4, <2>0, ResetType DEF StartReset
  <2>u. crashed' \in BOOLEAN /\ (crashed' # crashed => generation > 0)
    BY <1>4, <2>0, UseSlotType DEF StartReset, KnownSlot, TypeOK
  <2>2. TypeOK'
    BY <1>4, <2>0, <2>1, <2>u, QueueTypes DEF StartReset, TypeOK
  <2>3. (OpensInsideStrand /\ ThreadsKnown /\ SessionsKnown /\ QueueKnown)'
    BY <1>4, <2>0
    DEF StartReset, OpensInsideStrand, ThreadsKnown, SessionsKnown, QueueKnown,
        KnownJobs, KnownSlot, SlotsOf
  <2>4. (VectorLength /\ CrashNeedsCause)'
    BY <1>4, <2>1, <2>u DEF StartReset, VectorLength, SlotsOf, CrashNeedsCause, TypeOK
  <2> QED BY <1>f, <2>2, <2>3, <2>4
<1>5. ASSUME NEW t \in Threads, OpenThrows(t)
      PROVE  IInv'
  <2>1. TypeOK'
    BY <1>5, LeaveType DEF OpenThrows, Fault, TypeOK
  <2>2. ThreadsKnown' /\ OpensInsideStrand'
    BY <1>5, <1>c, LeaveType DEF OpenThrows, ThreadsKnown, OpensInsideStrand
  <2>3. (VectorLength /\ SessionsKnown /\ QueueKnown /\ CrashNeedsCause)'
    BY <1>5, <1>c
    DEF OpenThrows, VectorLength, SlotsOf, SessionsKnown, QueueKnown, CrashNeedsCause
  <2> QED BY <1>f, <2>1, <2>2, <2>3
<1>6. ASSUME NEW t \in Threads, OpenRefused(t)
      PROVE  IInv'
  <2>1. TypeOK'
    <3>1. CASE osu_file_manager
      BY <1>6, <1>d, <3>1, ThreadSet DEF OpenRefused, Fault, TypeOK
    <3>2. CASE ~osu_file_manager
      BY <1>6, <3>2 DEF OpenRefused, Fault, TypeOK
    <3> QED BY <3>1, <3>2
  <2>2. ThreadsKnown' /\ OpensInsideStrand'
    BY <1>6, <1>c, <1>d DEF OpenRefused, ThreadsKnown, OpensInsideStrand, TypeOK
  <2>a. osu_file_manager \/ asked_without_folder
    BY <1>6 DEF OpenRefused, FolderKept, NothingAsked
  <2>3. (VectorLength /\ SessionsKnown /\ QueueKnown /\ CrashNeedsCause)'
    BY <1>6, <1>c, <2>a
    DEF OpenRefused, VectorLength, SlotsOf, SessionsKnown, QueueKnown, CrashNeedsCause
  <2> QED BY <1>f, <2>1, <2>2, <2>3
<1>7. ASSUME NEW t \in Threads, NEW s \in Sessions, OpenOk(t, s)
      PROVE  IInv'
  <2> DEFINE new == [file |-> thread[t].file, slot |-> NoSlot, host |-> thread[t].host,
                     prefix |-> Prefix[resource], root |-> osu_file_manager]
  <2>0. resource # None => /\ new \in SessionType /\ new.file # None
                           /\ new.root \/ asked_without_folder
    BY <1>7, <1>a, <1>b, DownloaderAssumption
    DEF OpenOk, TypeOK, ThreadsKnown, SessionType, FolderKept, NothingAsked
  <2>1. TypeOK'
    BY <1>7, <2>0, LeaveType DEF OpenOk, CanConnect, TypeOK
  <2>2. ThreadsKnown' /\ OpensInsideStrand'
    BY <1>7, <1>c, LeaveType DEF OpenOk, ThreadsKnown, OpensInsideStrand
  <2>3. SessionsKnown'
    BY <1>7, <1>c, <2>0 DEF OpenOk, SessionsKnown, TypeOK
  <2>4. (VectorLength /\ QueueKnown /\ CrashNeedsCause)'
    BY <1>7, <1>c
    DEF OpenOk, VectorLength, SlotsOf, QueueKnown, CrashNeedsCause
  <2> QED BY <1>f, <2>1, <2>2, <2>3, <2>4
<1>8. ASSUME NEW t \in Threads, ApiMesure(t)
      PROVE  IInv'
  <2>1. TypeOK'
    BY <1>8, <1>d DEF ApiMesure, TypeOK
  <2>2. ThreadsKnown' /\ OpensInsideStrand'
    BY <1>8, <1>c, <1>d DEF ApiMesure, ThreadsKnown, OpensInsideStrand, TypeOK
  <2>3. (VectorLength /\ SessionsKnown /\ QueueKnown /\ CrashNeedsCause)'
    BY <1>8, <1>c
    DEF ApiMesure, VectorLength, SlotsOf, SessionsKnown, QueueKnown, CrashNeedsCause
  <2> QED BY <1>f, <2>1, <2>2, <2>3
<1>9. ASSUME NEW t \in Threads, MesureSpeed(t)
      PROVE  IInv'
  <2> DEFINE slot == thread[t].slot
             job == [file |-> None, slot |-> slot]
  <2>1. slot \in SlotType /\ KnownSlot(slot) /\ job \in KnownJobs
    <3>1. slot \in SlotType /\ slot.gen \in 0..generation /\ slot.idx >= 1
      BY <1>9 DEF MesureSpeed, TypeOK, ThreadType, ThreadsKnown
    <3>2. SlotsOf(slot.gen) \in Nat
      BY <3>1, DownloaderAssumption DEF SlotsOf, SlotType
    <3>3. KnownSlot(slot)
      BY <1>9, <3>1, <3>2 DEF MesureSpeed, KnownSlot, SlotType
    <3> QED BY <3>1, <3>3 DEF KnownJobs, JobType
  <2>2. strand_queue' \in Seq(KnownJobs)
    BY <1>9, <2>1, QueueTypes DEF MesureSpeed, QueueKnown
  <2>3. /\ base_servers' \in Seq(ServerType) /\ Len(base_servers') = Len(base_servers)
        /\ resource' \in Hosts \cup {None}
    BY <1>9, <2>1, ResetType DEF MesureSpeed, TypeOK
  <2>u. crashed' \in BOOLEAN /\ (crashed' # crashed => generation > 0)
    BY <1>9, <2>1, UseSlotType DEF MesureSpeed, KnownSlot
  <2>4. /\ thread' \in [Threads -> ThreadType]
        /\ \A u \in Threads : u # t => thread'[u] = thread[u]
        /\ \/ /\ thread'[t].pc = "probing" /\ thread'[t].slot = slot
              /\ thread'[t].host \in Hosts
           \/ /\ thread'[t].pc = "mesure" /\ thread'[t].slot.gen = slot.gen
              /\ thread'[t].slot.idx >= 1
    <3> DEFINE next == Mesuring(slot.gen, slot.idx + 1)
               probe == Doing("probing", None, slot, resource')
    <3>1. CASE resource' = None
      <4>1. slot.gen \in Nat /\ slot.idx + 1 \in Nat /\ slot.idx + 1 >= 1
        BY <2>1 DEF SlotType
      <4>2. /\ next \in ThreadType /\ next.pc = "mesure"
            /\ next.slot.gen = slot.gen /\ next.slot.idx >= 1
        BY <4>1, MesuringType
      <4>3. thread' = [thread EXCEPT ![t] = next]
        BY <1>9, <3>1 DEF MesureSpeed, NextSlot
      <4> HIDE DEF next
      <4> QED BY <4>2, <4>3, ThreadSet
    <3>2. CASE resource' # None
      <4>1. /\ probe \in ThreadType /\ probe.pc = "probing" /\ probe.slot = slot
            /\ probe.host \in Hosts
        <5>1. resource' \in Hosts /\ slot \in SlotType /\ "probing" \in PCs
          BY <3>2, <1>a, <2>1, <2>3
        <5> QED BY <5>1 DEF Doing, ThreadType
      <4>2. thread' = [thread EXCEPT ![t] = probe]
        BY <1>9, <3>2 DEF MesureSpeed
      <4> HIDE DEF probe
      <4> QED BY <4>1, <4>2, ThreadSet
    <3> QED BY <3>1, <3>2
  <2>5. TypeOK'
    BY <1>9, <2>2, <2>3, <2>4, <2>u, QueueTypes DEF MesureSpeed, TypeOK
  <2>6. ThreadsKnown' /\ OpensInsideStrand'
    BY <1>9, <1>c, <2>1, <2>4
    DEF MesureSpeed, ThreadsKnown, OpensInsideStrand, KnownSlot
  <2>7. (SessionsKnown /\ QueueKnown)'
    BY <1>9, <1>c, <2>2 DEF MesureSpeed, SessionsKnown, QueueKnown
  <2>8. (VectorLength /\ CrashNeedsCause)'
    BY <1>9, <2>3, <2>u DEF MesureSpeed, VectorLength, SlotsOf, CrashNeedsCause, TypeOK
  <2> QED BY <1>f, <2>5, <2>6, <2>7, <2>8
<1>10. ASSUME NEW t \in Threads, MesureDone(t)
       PROVE  IInv'
  <2>1. TypeOK'
    BY <1>10, LeaveType DEF MesureDone, TypeOK
  <2>2. ThreadsKnown' /\ OpensInsideStrand'
    BY <1>10, <1>c, LeaveType DEF MesureDone, ThreadsKnown, OpensInsideStrand
  <2>3. (VectorLength /\ SessionsKnown /\ QueueKnown /\ CrashNeedsCause)'
    BY <1>10, <1>c
    DEF MesureDone, VectorLength, SlotsOf, SessionsKnown, QueueKnown, CrashNeedsCause
  <2> QED BY <1>f, <2>1, <2>2, <2>3
<1>11. ASSUME NEW t \in Threads, ProbeThrows(t)
       PROVE  IInv'
  <2>1. /\ thread' \in [Threads -> ThreadType] /\ thread'[t].pc = "mesure"
        /\ thread'[t].slot.gen = thread[t].slot.gen /\ thread'[t].slot.idx >= 1
        /\ \A u \in Threads : u # t => thread'[u] = thread[u]
    BY <1>11, NextSlotType DEF ProbeThrows
  <2>2. TypeOK'
    BY <1>11, <2>1 DEF ProbeThrows, Fault, TypeOK
  <2>3. ThreadsKnown' /\ OpensInsideStrand'
    BY <1>11, <1>c, <2>1 DEF ProbeThrows, ThreadsKnown, OpensInsideStrand, KnownSlot
  <2>4. (VectorLength /\ SessionsKnown /\ QueueKnown /\ CrashNeedsCause)'
    BY <1>11, <1>c
    DEF ProbeThrows, VectorLength, SlotsOf, SessionsKnown, QueueKnown, CrashNeedsCause
  <2> QED BY <1>f, <2>2, <2>3, <2>4
<1>12. ASSUME NEW t \in Threads, ProbeRefused(t)
       PROVE  IInv'
  <2>1. /\ thread' \in [Threads -> ThreadType] /\ thread'[t].pc = "mesure"
        /\ thread'[t].slot.gen = thread[t].slot.gen /\ thread'[t].slot.idx >= 1
        /\ \A u \in Threads : u # t => thread'[u] = thread[u]
    BY <1>12, NextSlotType DEF ProbeRefused
  <2>2. KnownSlot(thread[t].slot) /\ thread[t].slot \in SlotType
    BY <1>12 DEF ProbeRefused, ThreadsKnown, TypeOK, ThreadType
  <2>3. base_servers' \in Seq(ServerType) /\ Len(base_servers') = Len(base_servers)
    BY <1>12, <2>2, RateType DEF ProbeRefused
  <2>4. crashed' \in BOOLEAN /\ (crashed' # crashed => generation > 0)
    BY <1>12, <2>2, UseSlotType DEF ProbeRefused, KnownSlot
  <2>5. TypeOK'
    BY <1>12, <2>1, <2>3, <2>4 DEF ProbeRefused, Fault, TypeOK
  <2>6. ThreadsKnown' /\ OpensInsideStrand'
    BY <1>12, <1>c, <2>1, <2>2 DEF ProbeRefused, ThreadsKnown, OpensInsideStrand, KnownSlot
  <2>7. (VectorLength /\ SessionsKnown /\ QueueKnown /\ CrashNeedsCause)'
    BY <1>12, <1>c, <2>3, <2>4
    DEF ProbeRefused, VectorLength, SlotsOf, SessionsKnown, QueueKnown, CrashNeedsCause, TypeOK
  <2> QED BY <1>f, <2>5, <2>6, <2>7
<1>13. ASSUME NEW t \in Threads, NEW s \in Sessions, ProbeOk(t, s)
       PROVE  IInv'
  <2> DEFINE new == [file |-> None, slot |-> thread[t].slot, host |-> thread[t].host,
                     prefix |-> Prefix[resource], root |-> osu_file_manager]
  <2>1. /\ thread' \in [Threads -> ThreadType] /\ thread'[t].pc = "mesure"
        /\ thread'[t].slot.gen = thread[t].slot.gen /\ thread'[t].slot.idx >= 1
        /\ \A u \in Threads : u # t => thread'[u] = thread[u]
    BY <1>13, NextSlotType DEF ProbeOk
  <2>2. KnownSlot(thread[t].slot) /\ thread[t].slot \in SlotType
        /\ thread[t].host \in Hosts
    BY <1>13 DEF ProbeOk, ThreadsKnown, TypeOK, ThreadType
  <2>3. resource # None => /\ new \in SessionType /\ KnownSlot(new.slot)
                           /\ new.file = None
    BY <2>2, DownloaderAssumption DEF TypeOK, SessionType
  <2>4. TypeOK'
    BY <1>13, <2>1, <2>3 DEF ProbeOk, CanConnect, TypeOK
  <2>5. ThreadsKnown' /\ OpensInsideStrand'
    BY <1>13, <1>c, <2>1, <2>2 DEF ProbeOk, ThreadsKnown, OpensInsideStrand, KnownSlot
  <2>6. SessionsKnown'
    BY <1>13, <1>c, <2>3 DEF ProbeOk, SessionsKnown, TypeOK
  <2>7. (VectorLength /\ QueueKnown /\ CrashNeedsCause)'
    BY <1>13, <1>c
    DEF ProbeOk, VectorLength, SlotsOf, QueueKnown, CrashNeedsCause
  <2> QED BY <1>f, <2>4, <2>5, <2>6, <2>7
<1>14. ASSUME NEW s \in Sessions, Silent(s)
       PROVE  IInv'
  <2>1. TypeOK'
    BY <1>14 DEF Silent, Fault, TypeOK
  <2>2. ThreadsKnown' /\ OpensInsideStrand'
    BY <1>14, <1>c DEF Silent, ThreadsKnown, OpensInsideStrand
  <2>3. SessionsKnown'
    BY <1>14, <1>c DEF Silent, SessionsKnown, TypeOK
  <2>4. (VectorLength /\ QueueKnown /\ CrashNeedsCause)'
    BY <1>14, <1>c
    DEF Silent, VectorLength, SlotsOf, QueueKnown, CrashNeedsCause
  <2> QED BY <1>f, <2>1, <2>2, <2>3, <2>4
<1>15. ASSUME NEW t \in Threads, NEW s \in Sessions, SendWithoutFolder(t, s)
       PROVE  IInv'
  <2>1. asked_without_folder
    BY <1>15 DEF SendWithoutFolder, IsDownload, SessionsKnown
  <2>2. TypeOK'
    BY <1>15 DEF SendWithoutFolder, TypeOK
  <2>3. ThreadsKnown' /\ OpensInsideStrand'
    BY <1>15, <1>c DEF SendWithoutFolder, ThreadsKnown, OpensInsideStrand
  <2>4. (VectorLength /\ SessionsKnown /\ QueueKnown /\ CrashNeedsCause)'
    BY <1>15, <1>c, <2>1
    DEF SendWithoutFolder, VectorLength, SlotsOf, SessionsKnown, QueueKnown,
        CrashNeedsCause
  <2> QED BY <1>f, <2>2, <2>3, <2>4
<1>16. ASSUME NEW t \in Threads, NEW s \in Sessions, DownloadOk(t, s)
       PROVE  IInv'
  <2>1. TypeOK'
    BY <1>16 DEF DownloadOk, AnswersOk, IsDownload, TypeOK, SessionType
  <2>2. ThreadsKnown' /\ OpensInsideStrand'
    BY <1>16, <1>c DEF DownloadOk, ThreadsKnown, OpensInsideStrand
  <2>3. SessionsKnown'
    BY <1>16, <1>c DEF DownloadOk, SessionsKnown, TypeOK
  <2>4. (VectorLength /\ QueueKnown /\ CrashNeedsCause)'
    BY <1>16, <1>c
    DEF DownloadOk, VectorLength, SlotsOf, QueueKnown, CrashNeedsCause
  <2> QED BY <1>f, <2>1, <2>2, <2>3, <2>4
<1>17. ASSUME NEW t \in Threads, NEW s \in Sessions, DownloadFailed(t, s)
       PROVE  IInv'
  <2>1. TypeOK'
    BY <1>17, <1>d DEF DownloadFailed, AnswersFail, Fault, TypeOK
  <2>2. ThreadsKnown' /\ OpensInsideStrand'
    BY <1>17, <1>c, <1>d DEF DownloadFailed, ThreadsKnown, OpensInsideStrand, TypeOK
  <2>3. SessionsKnown'
    BY <1>17, <1>c DEF DownloadFailed, SessionsKnown, TypeOK
  <2>4. (VectorLength /\ QueueKnown /\ CrashNeedsCause)'
    BY <1>17, <1>c
    DEF DownloadFailed, VectorLength, SlotsOf, QueueKnown, CrashNeedsCause
  <2> QED BY <1>f, <2>1, <2>2, <2>3, <2>4
<1>18. ASSUME NEW t \in Threads, NEW s \in Sessions, MesureFailed(t, s)
       PROVE  IInv'
  <2>1. KnownSlot(session[s].slot) /\ session[s].slot \in SlotType
    BY <1>18 DEF MesureFailed, IsMesurement, SessionsKnown, TypeOK, SessionType
  <2>2. base_servers' \in Seq(ServerType) /\ Len(base_servers') = Len(base_servers)
    BY <1>18, <2>1, RateType DEF MesureFailed
  <2>3. crashed' \in BOOLEAN /\ (crashed' # crashed => generation > 0)
    BY <1>18, <2>1, UseSlotType DEF MesureFailed, KnownSlot
  <2>4. TypeOK'
    BY <1>18, <2>2, <2>3 DEF MesureFailed, AnswersFail, Fault, TypeOK
  <2>5. ThreadsKnown' /\ OpensInsideStrand'
    BY <1>18, <1>c DEF MesureFailed, ThreadsKnown, OpensInsideStrand
  <2>6. SessionsKnown'
    BY <1>18, <1>c DEF MesureFailed, SessionsKnown, TypeOK
  <2>7. (VectorLength /\ QueueKnown /\ CrashNeedsCause)'
    BY <1>18, <1>c, <2>2, <2>3
    DEF MesureFailed, VectorLength, SlotsOf, QueueKnown, CrashNeedsCause,
        TypeOK
  <2> QED BY <1>f, <2>4, <2>5, <2>6, <2>7
<1>19. ASSUME NEW t \in Threads, NEW s \in Sessions, MesureOk(t, s)
       PROVE  IInv'
  <2> DEFINE rated == Rate(session[s].slot, "AVAILABLE", Speed[session[s].host])
  <2>1. /\ KnownSlot(session[s].slot) /\ session[s].slot \in SlotType
        /\ Speed[session[s].host] \in Nat
    BY <1>19, DownloaderAssumption
    DEF MesureOk, IsMesurement, SessionsKnown, TypeOK, SessionType
  <2>2. rated \in Seq(ServerType) /\ Len(rated) = Len(base_servers)
    BY <2>1, RateType
  <2>3. base_servers' \in Sorted(rated)
    BY <1>19 DEF MesureOk
  <2>4. base_servers' \in Seq(ServerType) /\ Len(base_servers') = Len(base_servers)
    <3> HIDE DEF rated
    <3> QED BY <2>2, <2>3, SortedType
  <2>5. resource' \in Hosts
    <3>1. Len(base_servers') \in 1..Len(base_servers')
      BY <2>4, DownloaderAssumption DEF VectorLength, SlotsOf, TypeOK
    <3>2. base_servers'[Len(base_servers')] \in ServerType
      BY <2>4, <3>1
    <3> QED BY <1>19, <3>2 DEF MesureOk, ServerType
  <2>6. crashed' \in BOOLEAN /\ (crashed' # crashed => generation > 0)
    BY <1>19, <2>1, UseSlotType DEF MesureOk, KnownSlot
  <2>7. /\ thread' \in [Threads -> ThreadType] /\ download_queue' \subseteq Files
        /\ \A u \in Threads : u # t => thread'[u] = thread[u]
        /\ thread'[t] = thread[t] \/ (thread'[t].pc = "insert" /\ thread'[t].file \in Files)
    BY <1>19, RedownloadType DEF MesureOk
  <2>8. TypeOK'
    BY <1>19, <2>4, <2>5, <2>6, <2>7 DEF MesureOk, AnswersOk, TypeOK
  <2>9. ThreadsKnown' /\ OpensInsideStrand'
    BY <1>19, <1>c, <2>7 DEF MesureOk, ThreadsKnown, OpensInsideStrand
  <2>10. SessionsKnown'
    BY <1>19, <1>c DEF MesureOk, SessionsKnown, TypeOK
  <2>11. (VectorLength /\ QueueKnown /\ CrashNeedsCause)'
    BY <1>19, <1>c, <2>4, <2>6
    DEF MesureOk, VectorLength, SlotsOf, QueueKnown, CrashNeedsCause, TypeOK
  <2> QED BY <1>f, <2>8, <2>9, <2>10, <2>11
<1>20. ASSUME NEW t \in Threads, SetDownloadsDirectory(t)
       PROVE  IInv'
  <2>1. TypeOK'
    BY <1>20 DEF SetDownloadsDirectory, TypeOK
  <2>2. (ThreadsKnown /\ OpensInsideStrand /\ VectorLength /\ SessionsKnown
         /\ QueueKnown /\ CrashNeedsCause)'
    BY <1>20, <1>c
    DEF SetDownloadsDirectory, ThreadsKnown, OpensInsideStrand, VectorLength, SlotsOf,
        SessionsKnown, QueueKnown, CrashNeedsCause
  <2> QED BY <1>f, <2>1, <2>2
<1>21. ASSUME NEW t \in Threads, NEW h \in ApiHosts, SetResourceAndPrefix(t, h)
       PROVE  IInv'
  <2>0. h \in Hosts
    BY DownloaderAssumption
  <2>1. CASE \E i \in 1..Len(base_servers) : base_servers[i].host = h
    <3>1. TypeOK'
      BY <1>21, <2>0, <2>1 DEF SetResourceAndPrefix, TypeOK
    <3>2. (ThreadsKnown /\ OpensInsideStrand /\ VectorLength /\ SessionsKnown
           /\ QueueKnown /\ CrashNeedsCause)'
      BY <1>21, <1>c, <2>1
      DEF SetResourceAndPrefix, ThreadsKnown, OpensInsideStrand, VectorLength, SlotsOf,
          SessionsKnown, QueueKnown, CrashNeedsCause
    <3> QED BY <1>f, <3>1, <3>2
  <2>2. CASE ~\E i \in 1..Len(base_servers) : base_servers[i].host = h
    <3>1. base_servers' = Append(base_servers, Server(h)) /\ generation' = generation + 1
      BY <1>21, <2>2 DEF SetResourceAndPrefix
    <3>2. Server(h) \in ServerType /\ base_servers \in Seq(ServerType)
          /\ generation \in Nat
      BY <2>0 DEF Server, ServerType, NotMesured, TypeOK
    <3>3. /\ base_servers' \in Seq(ServerType)
          /\ Len(base_servers') = Len(base_servers) + 1
      BY <3>1, <3>2, AppendProperties
    <3>4. TypeOK'
      BY <1>21, <2>0, <3>1, <3>2, <3>3 DEF SetResourceAndPrefix, TypeOK
    <3>5. \A slot : KnownSlot(slot) => KnownSlot(slot)'
      BY <3>1, <3>2 DEF KnownSlot, SlotsOf
    <3>6. (ThreadsKnown /\ SessionsKnown /\ OpensInsideStrand)'
      BY <1>21, <3>1, <3>2, <3>5
      DEF SetResourceAndPrefix, ThreadsKnown, SessionsKnown, OpensInsideStrand
    <3>7. QueueKnown'
      <4>1. KnownJobs \subseteq KnownJobs'
        BY <3>5 DEF KnownJobs
      <4>2. strand_queue' \in Seq(KnownJobs)
        BY <1>21 DEF SetResourceAndPrefix, QueueKnown
      <4> QED BY <4>1, <4>2, SeqMonotonic DEF QueueKnown
    <3>8. (VectorLength /\ CrashNeedsCause)'
      BY <1>21, <3>1, <3>2, <3>3, DownloaderAssumption
      DEF SetResourceAndPrefix, VectorLength, SlotsOf, CrashNeedsCause
    <3> QED BY <1>f, <3>4, <3>6, <3>7, <3>8
  <2> QED BY <1>f, <2>1, <2>2
<1>22. CASE UNCHANGED vars
  <2>1. TypeOK'
    BY <1>22 DEF TypeOK
  <2>2. (ThreadsKnown /\ OpensInsideStrand /\ VectorLength /\ SessionsKnown
         /\ QueueKnown /\ CrashNeedsCause)'
    BY <1>22, <1>c
    DEF ThreadsKnown, OpensInsideStrand, VectorLength, SlotsOf, SessionsKnown, QueueKnown,
        CrashNeedsCause
  <2> QED BY <1>f, <2>1, <2>2
<1> QED
  BY <1>1, <1>2, <1>3, <1>4, <1>5, <1>6, <1>7, <1>8, <1>9, <1>10, <1>11, <1>12, <1>13,
     <1>14, <1>15, <1>16, <1>17, <1>18, <1>19, <1>20, <1>21, <1>22
  DEF Next, Work, RunStrand, Complete, Ask

-----------------------------------------------------------------------------
(* The theorems of the specification. *)

(* The invariant holds in every state. *)
THEOREM Invariance == Spec => []IInv
BY IInvInit, IInvStep, PTL DEF Spec

(* Type correctness, for every configuration of the downloader. *)
THEOREM TypeCorrect == Spec => []TypeOK
<1>1. IInv => TypeOK
  BY DEF IInv
<1> QED BY <1>1, Invariance, PTL

(* At most one thread makes the client of a download, for every number of   *)
(* workers, requests and failures.                                          *)
THEOREM DownloadsOpenOneByOne == Spec => []OpensInsideStrand
<1>1. IInv => OpensInsideStrand
  BY DEF IInv
<1> QED BY <1>1, Invariance, PTL

(* While every map is asked for with a downloads directory set and no       *)
(* server is added, no order of requests, refusals, failures, measurements  *)
(* and retries ends the program.                                            *)
THEOREM CrashHasCause == Spec => []CrashNeedsCause
<1>1. IInv => CrashNeedsCause
  BY DEF IInv
<1> QED BY <1>1, Invariance, PTL

-----------------------------------------------------------------------------
(* The server a measurement selects. *)

SpeedsKept == \A i \in DOMAIN base_servers : base_servers'[i].speed = base_servers[i].speed

LEMMA ResetKeepsSpeeds ==
  ASSUME NEW slot, ResetStatuses(slot), TypeOK
  PROVE  SpeedsKept
<1>1. CASE ~need_to_mesure_speed
  BY <1>1 DEF ResetStatuses, SpeedsKept
<1>2. CASE need_to_mesure_speed
  <2> SUFFICES ASSUME NEW i \in DOMAIN base_servers
               PROVE  base_servers'[i].speed = base_servers[i].speed
    BY DEF SpeedsKept
  <2>1. base_servers[i] \in ServerType
    BY DEF TypeOK
  <2>2. base_servers'[i] = [base_servers[i] EXCEPT !.status = "UNKNOWN"]
    BY <1>2 DEF ResetStatuses
  <2> QED BY <2>1, <2>2 DEF ServerType
<1> QED BY <1>1, <1>2

(* A server that does not answer keeps the speed it had. *)
LEMMA UnavailableKeepsSpeeds ==
  ASSUME NEW slot, base_servers' = Rate(slot, "UNAVAILABLE", 0), TypeOK
  PROVE  SpeedsKept
<1>1. base_servers = [i \in DOMAIN base_servers |-> base_servers[i]]
  BY DEF TypeOK
<1>2. CASE slot.gen # generation
  BY <1>2 DEF Rate, SpeedsKept
<1>3. CASE slot.gen = generation
  <2> SUFFICES ASSUME NEW i \in DOMAIN base_servers
               PROVE  base_servers'[i].speed = base_servers[i].speed
    BY DEF SpeedsKept
  <2>1. CASE i = slot.idx
    BY <1>1, <1>3, <2>1 DEF Rate
  <2>2. CASE i # slot.idx
    BY <1>1, <1>3, <2>2 DEF Rate
  <2> QED BY <2>1, <2>2
<1> QED BY <1>2, <1>3

(* The last of a sorted vector has the highest speed. *)
LEMMA LastIsFastest ==
  ASSUME NEW list \in Seq(ServerType), NEW sorted \in Sorted(list), Len(list) > 0
  PROVE  /\ Len(sorted) \in DOMAIN sorted
         /\ \A j \in DOMAIN sorted : sorted[Len(sorted)].speed >= sorted[j].speed
<1>1. sorted \in Seq(ServerType) /\ Len(sorted) = Len(list)
  BY SortedType
<1>2. \A i, j \in 1..Len(sorted) : i < j => sorted[i].speed <= sorted[j].speed
  BY <1>1 DEF Sorted
<1>3. Len(sorted) \in 1..Len(sorted) /\ DOMAIN sorted = 1..Len(sorted)
  BY <1>1
<1>4. \A j \in 1..Len(sorted) : sorted[j].speed \in Int
  <2> SUFFICES ASSUME NEW j \in 1..Len(sorted) PROVE sorted[j].speed \in Int
    OBVIOUS
  <2>1. sorted[j] \in ServerType
    BY <1>1
  <2>2. sorted[j].speed \in Nat \cup {NotMesured}
    BY <2>1 DEF ServerType
  <2> QED BY <2>2 DEF NotMesured
<1>5. ASSUME NEW j \in 1..Len(sorted) PROVE sorted[Len(sorted)].speed >= sorted[j].speed
  <2>1. CASE j = Len(sorted)
    BY <1>4, <2>1
  <2>2. CASE j # Len(sorted)
    <3>1. j < Len(sorted)
      BY <1>1, <2>2
    <3> QED BY <1>2, <1>3, <1>4, <3>1
  <2> QED BY <2>1, <2>2
<1> QED BY <1>3, <1>5

BestSelected ==
  \A j \in DOMAIN base_servers' : \E i \in DOMAIN base_servers' :
    /\ base_servers'[i].host = resource'
    /\ base_servers'[i].speed >= base_servers'[j].speed

LEMMA MesureOkSelects ==
  ASSUME IInv, NEW t \in Threads, NEW s \in Sessions, MesureOk(t, s)
  PROVE  BestSelected
<1> DEFINE slot == session[s].slot
           rated == Rate(slot, "AVAILABLE", Speed[session[s].host])
<1>1. session[s] \in SessionType
  BY DEF IInv, TypeOK, MesureOk, IsMesurement
<1>2. slot \in SlotType /\ session[s].host \in Hosts
  BY <1>1 DEF SessionType
<1>3. KnownSlot(slot)
  BY DEF IInv, SessionsKnown, MesureOk, IsMesurement
<1>4. rated \in Seq(ServerType) /\ Len(rated) = Len(base_servers)
  <2>1. Speed[session[s].host] \in Nat
    BY <1>2, DownloaderAssumption
  <2> QED BY <1>2, <1>3, <2>1, RateType DEF IInv
<1>5. Len(base_servers) > 0
  BY DownloaderAssumption DEF IInv, TypeOK, VectorLength, SlotsOf
<1> HIDE DEF slot, rated
<1>6. base_servers' \in Sorted(rated) /\ resource' = base_servers'[Len(base_servers')].host
  <2>1. Len(base_servers') = Len(base_servers)
    BY <1>4, SortedType DEF MesureOk, slot, rated
  <2> QED BY <2>1 DEF MesureOk, slot, rated
<1> QED BY <1>4, <1>5, <1>6, LastIsFastest DEF BestSelected

LEMMA SpeedsStep ==
  ASSUME IInv, [Next]_vars
  PROVE  SpeedsKept \/ BestSelected
<1>1. ASSUME base_servers' = base_servers PROVE SpeedsKept
  BY <1>1 DEF SpeedsKept
<1>2. ASSUME NEW t \in Threads, Work(t) PROVE SpeedsKept
  <2>1. CASE MesureSpeed(t)
    BY <1>1, <2>1, ResetKeepsSpeeds DEF MesureSpeed, IInv
  <2>2. CASE ProbeRefused(t)
    BY <2>2, UnavailableKeepsSpeeds DEF ProbeRefused, IInv
  <2> QED BY <1>1, <1>2, <2>1, <2>2
          DEF Work, Insert, OpenThrows, OpenRefused, OpenOk, MesureDone, ProbeThrows, ProbeOk,
              servers
<1>3. ASSUME NEW t \in Threads, RunStrand(t) PROVE SpeedsKept
  BY <1>1, <1>3, ResetKeepsSpeeds
     DEF RunStrand, StartDownload, StartReset, servers, IInv
<1>4. ASSUME NEW t \in Threads, Ask(t) PROVE SpeedsKept
  <2>1. ASSUME NEW h, base_servers' = Append(base_servers, Server(h)) PROVE SpeedsKept
    <3>1. base_servers \in Seq(ServerType)
      BY DEF IInv, TypeOK
    <3>2. \A i \in 1..Len(base_servers) : Append(base_servers, Server(h))[i] = base_servers[i]
      BY <3>1
    <3> QED BY <2>1, <3>1, <3>2 DEF SpeedsKept
  <2> QED BY <1>1, <1>4, <2>1
          DEF Ask, RequestMap, ApiMesure, SetDownloadsDirectory, SetResourceAndPrefix, servers
<1>5. ASSUME NEW s \in Sessions, Complete(s) PROVE SpeedsKept \/ BestSelected
  <2>1. ASSUME NEW t \in Threads, MesureFailed(t, s) PROVE SpeedsKept
    BY <2>1, UnavailableKeepsSpeeds DEF MesureFailed, IInv
  <2> QED BY <1>1, <1>5, <2>1, MesureOkSelects
          DEF Complete, Silent, SendWithoutFolder, DownloadOk, DownloadFailed, servers
<1>6. CASE UNCHANGED vars
  BY <1>1, <1>6 DEF vars
<1> QED BY <1>2, <1>3, <1>4, <1>5, <1>6 DEF Next

(* Whichever measurements overlap, the one that gives a server its speed    *)
(* selects a server of the highest speed recorded.                          *)
THEOREM BestIsSelected == Spec => MesurementSelectsBest
<1>1. IInv /\ [Next]_vars =>
        [(\E i \in DOMAIN base_servers : base_servers'[i].speed # base_servers[i].speed)
           => BestSelected]_vars
  BY SpeedsStep DEF SpeedsKept
<1> QED BY <1>1, Invariance, PTL DEF Spec, MesurementSelectsBest, BestSelected

-----------------------------------------------------------------------------
(* What a step does to the pending files. *)

(* The files in the hands of a thread that is about to insert one. *)
Held == {thread[t].file : t \in {u \in Threads : thread[u].pc = "insert"}}

(* The two places of a pending file. *)
LEMMA PendingPlaces == Pending = download_queue \cup Held
BY DEF Pending, Held

(* A thread that is not about to insert a file holds none. *)
LEMMA HeldKept ==
  ASSUME NEW t \in Threads, thread[t].pc # "insert", thread'[t].pc # "insert",
         \A u \in Threads : u # t => thread'[u] = thread[u]
  PROVE  Held' = Held
<1> DEFINE before == {u \in Threads : thread[u].pc = "insert"}
           after == {u \in Threads : thread'[u].pc = "insert"}
<1>1. before = after /\ \A u \in before : thread'[u] = thread[u]
  OBVIOUS
<1>2. {thread'[u].file : u \in after} = {thread[u].file : u \in before}
  BY <1>1
<1> QED BY <1>2 DEF Held

(* A thread takes file f into its hands. *)
LEMMA HeldTaken ==
  ASSUME NEW t \in Threads, NEW f, thread[t].pc # "insert",
         thread'[t].pc = "insert", thread'[t].file = f,
         \A u \in Threads : u # t => thread'[u] = thread[u]
  PROVE  Held' = Held \cup {f}
<1> DEFINE before == {u \in Threads : thread[u].pc = "insert"}
           after == {u \in Threads : thread'[u].pc = "insert"}
<1>1. after = before \cup {t} /\ \A u \in before : thread'[u] = thread[u]
  OBVIOUS
<1>2. {thread'[u].file : u \in after} = {thread[u].file : u \in before} \cup {f}
  BY <1>1
<1> QED BY <1>2 DEF Held

(* A thread has inserted the file it held. *)
LEMMA HeldGiven ==
  ASSUME NEW t \in Threads, thread[t].pc = "insert", thread'[t].pc # "insert",
         \A u \in Threads : u # t => thread'[u] = thread[u]
  PROVE  Held = Held' \cup {thread[t].file}
<1> DEFINE before == {u \in Threads : thread[u].pc = "insert"}
           after == {u \in Threads : thread'[u].pc = "insert"}
<1>1. before = after \cup {t} /\ \A u \in after : thread'[u] = thread[u]
  OBVIOUS
<1>2. {thread[u].file : u \in before} = {thread'[u].file : u \in after} \cup {thread[t].file}
  BY <1>1
<1> QED BY <1>2 DEF Held

(* What a step may do: nothing to the files, accept one, or deliver one. *)
FilesKept == Pending' = Pending /\ delivered' = delivered

FileAccepted(f) == Pending' = Pending \cup {f} /\ delivered' = delivered

FileDelivered(f) ==
  /\ Pending' \in {Pending, Pending \ {f}}
  /\ delivered' = delivered \cup {f}

(* Every step of the downloader is one of the three, and only a successful  *)
(* OnDownload is the last.                                                  *)
LEMMA PendingStep ==
  ASSUME IInv, [Next]_vars
  PROVE  \/ FilesKept
         \/ \E f \in Files : FileAccepted(f)
         \/ \E t \in Threads, s \in Sessions :
              DownloadOk(t, s) /\ FileDelivered(session[s].file)
<1> USE DEF IInv, settings, servers, strands, bounds, vars, At
<1> USE PendingPlaces
<1>p. Pending' = download_queue' \cup Held'
  BY DEF Pending, Held
<1>1. ASSUME NEW t \in Threads, NEW f \in Files, RequestMap(t, f)
      PROVE  FileAccepted(f)
  <2> DEFINE new == Doing("insert", f, NoSlot, None)
  <2>1. new.pc = "insert" /\ new.file = f
    BY DEF Doing
  <2>2. /\ thread' = [thread EXCEPT ![t] = new] /\ thread[t].pc # "insert"
        /\ download_queue' = download_queue /\ delivered' = delivered
    BY <1>1 DEF RequestMap
  <2> HIDE DEF new
  <2>3. Held' = Held \cup {f}
    BY <2>1, <2>2, HeldTaken DEF TypeOK
  <2> QED BY <1>p, <2>2, <2>3 DEF FileAccepted
<1>2. ASSUME NEW t \in Threads, Insert(t)
      PROVE  FilesKept
  <2>0. thread[t].file \in Files /\ thread[t].pc = "insert"
    BY <1>2 DEF Insert, ThreadsKnown
  <2>1. thread'[t].pc # "insert" /\ \A u \in Threads : u # t => thread'[u] = thread[u]
    BY <1>2, <2>0, LeaveType, OpenClientType DEF Insert
  <2>2. Held = Held' \cup {thread[t].file}
    BY <2>0, <2>1, HeldGiven
  <2> QED BY <1>2, <1>p, <2>2 DEF Insert, FilesKept
<1>3. ASSUME NEW t \in Threads, StartDownload(t)
      PROVE  FilesKept
  <2>0. Head(strand_queue).file \in Files
    BY <1>3, QueueTypes DEF StartDownload, KnownJobs, JobType
  <2>1. thread'[t].pc # "insert" /\ \A u \in Threads : u # t => thread'[u] = thread[u]
    BY <1>3, <2>0, OpenClientType DEF StartDownload
  <2> QED BY <1>3, <1>p, <2>1, HeldKept DEF StartDownload, FilesKept
<1>4. ASSUME NEW t \in Threads,
             OpenThrows(t) \/ MesureDone(t) \/ \E s \in Sessions : OpenOk(t, s)
      PROVE  FilesKept
  <2>1. Leave(t) /\ thread[t].pc # "insert" /\ UNCHANGED <<download_queue, delivered>>
    BY <1>4 DEF OpenThrows, MesureDone, OpenOk
  <2> QED BY <1>p, <2>1, LeaveType, HeldKept DEF FilesKept
<1>5. ASSUME NEW t \in Threads, NEW gen \in Nat, NEW idx \in Nat,
             thread' = [thread EXCEPT ![t] = Mesuring(gen, idx)],
             thread[t].pc # "insert", UNCHANGED <<download_queue, delivered>>
      PROVE  FilesKept
  <2> DEFINE new == Mesuring(gen, idx)
  <2>1. new.pc # "insert"
    BY MesuringType
  <2>2. thread' = [thread EXCEPT ![t] = new]
    BY <1>5
  <2> HIDE DEF new
  <2>3. Held' = Held
    BY <1>5, <2>1, <2>2, HeldKept DEF TypeOK
  <2> QED BY <1>5, <1>p, <2>3 DEF FilesKept
<1>6. ASSUME UNCHANGED <<thread, download_queue, delivered>>
      PROVE  FilesKept
  BY <1>6 DEF FilesKept, Pending
<1>7. ASSUME NEW t \in Threads, OpenRefused(t)
      PROVE  FilesKept
  <2>1. thread[t].pc # "insert" /\ UNCHANGED <<download_queue, delivered>>
    BY <1>7 DEF OpenRefused
  <2>2. CASE osu_file_manager
    BY <1>5, <1>7, <2>1, <2>2 DEF OpenRefused, TypeOK
  <2>3. CASE ~osu_file_manager
    BY <1>6, <1>7, <2>1, <2>3 DEF OpenRefused
  <2> QED BY <2>2, <2>3
<1>8. ASSUME NEW t \in Threads, ApiMesure(t)
      PROVE  FilesKept
  BY <1>8, <1>5 DEF ApiMesure, TypeOK
<1>9. ASSUME NEW t \in Threads, thread[t].pc # "insert", NextSlot(t),
             thread[t].slot \in SlotType, UNCHANGED <<download_queue, delivered>>
      PROVE  FilesKept
  <2> DEFINE gen == thread[t].slot.gen
             idx == thread[t].slot.idx + 1
  <2>1. gen \in Nat /\ idx \in Nat
    BY <1>9 DEF SlotType
  <2>2. thread' = [thread EXCEPT ![t] = Mesuring(gen, idx)]
    BY <1>9 DEF NextSlot
  <2> HIDE DEF gen, idx
  <2> QED BY <1>5, <1>9, <2>1, <2>2
<1>10. ASSUME NEW t \in Threads, MesureSpeed(t)
       PROVE  FilesKept
  <2>1. thread[t].slot \in SlotType
    BY DEF TypeOK, ThreadType
  <2>2. CASE resource' = None
    BY <1>9, <1>10, <2>1, <2>2 DEF MesureSpeed
  <2>3. CASE resource' # None
    <3> DEFINE new == Doing("probing", None, thread[t].slot, resource')
    <3>1. new.pc # "insert"
      BY DEF Doing
    <3>2. thread' = [thread EXCEPT ![t] = new] /\ thread[t].pc # "insert"
          /\ UNCHANGED <<download_queue, delivered>>
      BY <1>10, <2>3 DEF MesureSpeed
    <3> HIDE DEF new
    <3>3. Held' = Held
      BY <3>1, <3>2, HeldKept DEF TypeOK
    <3> QED BY <1>p, <3>2, <3>3 DEF FilesKept
  <2> QED BY <2>2, <2>3
<1>11. ASSUME NEW t \in Threads,
              ProbeThrows(t) \/ ProbeRefused(t) \/ \E s \in Sessions : ProbeOk(t, s)
       PROVE  FilesKept
  <2>1. thread[t].slot \in SlotType
    BY DEF TypeOK, ThreadType
  <2> QED BY <1>9, <1>11, <2>1 DEF ProbeThrows, ProbeRefused, ProbeOk
<1>12. ASSUME NEW t \in Threads, NEW s \in Sessions, DownloadOk(t, s)
       PROVE  FileDelivered(session[s].file)
  <2>1. Held' = Held
    BY <1>12 DEF DownloadOk, Held
  <2> QED BY <1>12, <1>p, <2>1 DEF DownloadOk, FileDelivered
<1>13. ASSUME NEW t \in Threads, NEW s \in Sessions, DownloadFailed(t, s)
       PROVE  FilesKept
  BY <1>13, <1>5 DEF DownloadFailed, TypeOK
<1>14. ASSUME NEW t \in Threads, NEW s \in Sessions, MesureOk(t, s)
       PROVE  FilesKept
  <2>1. thread[t].pc # "insert" /\ delivered' = delivered /\ Redownload(t)
    BY <1>14 DEF MesureOk
  <2>2. CASE UNCHANGED <<download_queue, thread>>
    BY <1>6, <2>1, <2>2
  <2>3. ASSUME NEW f \in download_queue, download_queue' = download_queue \ {f},
               thread' = [thread EXCEPT ![t] = Doing("insert", f, NoSlot, None)]
        PROVE  FilesKept
    <3> DEFINE new == Doing("insert", f, NoSlot, None)
    <3>1. new.pc = "insert" /\ new.file = f
      BY DEF Doing
    <3>2. thread' = [thread EXCEPT ![t] = new]
      BY <2>3
    <3> HIDE DEF new
    <3>3. Held' = Held \cup {f}
      BY <2>1, <3>1, <3>2, HeldTaken DEF TypeOK
    <3> QED BY <1>p, <2>1, <2>3, <3>3 DEF FilesKept
  <2> QED BY <2>1, <2>2, <2>3 DEF Redownload
<1>15. ASSUME \/ UNCHANGED vars
              \/ \E t \in Threads : StartReset(t) \/ SetDownloadsDirectory(t)
              \/ \E s \in Sessions : Silent(s)
              \/ \E t \in Threads, s \in Sessions :
                   SendWithoutFolder(t, s) \/ MesureFailed(t, s)
              \/ \E t \in Threads, h \in ApiHosts : SetResourceAndPrefix(t, h)
       PROVE  FilesKept
  BY <1>6, <1>15 DEF StartReset, SetDownloadsDirectory, Silent, SendWithoutFolder,
     MesureFailed, SetResourceAndPrefix
<1> QED
  BY <1>1, <1>2, <1>3, <1>4, <1>7, <1>8, <1>10, <1>11, <1>12, <1>13, <1>14, <1>15
  DEF Next, Work, RunStrand, Complete, Ask

-----------------------------------------------------------------------------
(* No file is forgotten. *)

(* Whatever the threads, the retries and the measurements do, only a        *)
(* successful download of a file ends its wait.                             *)
THEOREM NoFileForgotten == Spec => PendingUntilDelivered
<1>1. ASSUME IInv, [Next]_vars, NEW f \in Pending, f \notin Pending'
      PROVE  \E t \in Threads, s \in Sessions : DownloadOk(t, s) /\ session[s].file = f
  BY <1>1, PendingStep DEF FilesKept, FileAccepted, FileDelivered
<1>2. IInv /\ [Next]_vars =>
        [\A f \in Pending : f \notin Pending' =>
           \E t \in Threads, s \in Sessions : DownloadOk(t, s) /\ session[s].file = f]_vars
  BY <1>1
<1> QED BY <1>2, Invariance, PTL DEF Spec, PendingUntilDelivered

-----------------------------------------------------------------------------
(* Downloader implements RequestBook. *)

(* The files the chat has asked for. *)
Asked == Pending \cup delivered

AskedJobs == {job \in JobType : job.file \in Asked \cup {None}}

(* Nothing is opened, queued or exchanged for a file that was not asked for. *)
OnlyAsked ==
  /\ \A t \in Threads : thread[t].pc = "opening" => thread[t].file \in Asked
  /\ strand_queue \in Seq(AskedJobs)
  /\ \A s \in Sessions : IsDownload(s) => session[s].file \in Asked

LEMMA OnlyAskedInit == Init => OnlyAsked
BY IdleType, EmptySeq DEF Init, OnlyAsked, IsDownload

(* What was asked for once stays asked for. *)
LEMMA AskedGrows ==
  ASSUME IInv, [Next]_vars
  PROVE  Asked \subseteq Asked'
BY PendingStep DEF FilesKept, FileAccepted, FileDelivered, Asked

(* No step opens, queues or starts to exchange another file. *)
LEMMA OnlyAskedStep ==
  ASSUME IInv, [Next]_vars, OnlyAsked
  PROVE  OnlyAsked'
<1> USE DEF IInv, settings, servers, strands, bounds, vars, At
<1>a. Asked \subseteq Asked' /\ AskedJobs \subseteq AskedJobs'
  BY AskedGrows DEF AskedJobs
<1>b. NoSlot \in SlotType /\ None \notin Files
  BY DownloaderAssumption DEF NoSlot, Slot, SlotType
<1>1. ASSUME \A t \in Threads : thread'[t].pc = "opening" =>
               thread'[t] = thread[t] \/ thread'[t].file \in Asked,
             strand_queue' \in Seq(AskedJobs),
             \A s \in Sessions : session'[s] = session[s] \/ session'[s] = None
               \/ session'[s].file \in Asked \cup {None}
      PROVE  OnlyAsked'
  <2>1. strand_queue' \in Seq(AskedJobs')
    BY <1>1, <1>a, SeqMonotonic
  <2> QED BY <1>1, <1>a, <2>1 DEF OnlyAsked, IsDownload
<1>2. strand_queue \in Seq(AskedJobs)
  BY DEF OnlyAsked
<1>3. ASSUME NEW t \in Threads, NEW f \in Asked, f \in Files, OpenClient(t, f)
      PROVE  \A u \in Threads : thread'[u].pc = "opening" =>
               thread'[u] = thread[u] \/ thread'[u].file \in Asked
  <2>1. CASE resource = None
    BY <1>3, <2>1, LeaveType DEF OpenClient
  <2>2. CASE resource # None
    <3> DEFINE new == Doing("opening", f, NoSlot, resource)
    <3>1. new.file = f
      BY DEF Doing
    <3>2. thread' = [thread EXCEPT ![t] = new]
      BY <1>3, <2>2 DEF OpenClient
    <3> HIDE DEF new
    <3> QED BY <3>1, <3>2 DEF TypeOK
  <2> QED BY <2>1, <2>2
<1>4. ASSUME NEW t \in Threads, Insert(t)
      PROVE  OnlyAsked'
  <2>1. thread[t].file \in Asked /\ thread[t].file \in Files
    BY <1>4 DEF Insert, Asked, Pending, ThreadsKnown
  <2>2. [file |-> thread[t].file, slot |-> NoSlot] \in AskedJobs
    BY <2>1, <1>b DEF AskedJobs, JobType
  <2>3. strand_queue' \in Seq(AskedJobs)
    BY <1>2, <1>4, <2>2, AppendProperties DEF Insert
  <2>4. \A u \in Threads : thread'[u].pc = "opening" =>
          thread'[u] = thread[u] \/ thread'[u].file \in Asked
    BY <1>3, <1>4, <2>1, LeaveType DEF Insert
  <2> QED BY <1>1, <1>4, <2>3, <2>4 DEF Insert
<1>5. ASSUME NEW t \in Threads, StartDownload(t)
      PROVE  OnlyAsked'
  <2>1. Head(strand_queue) \in AskedJobs /\ Tail(strand_queue) \in Seq(AskedJobs)
    BY <1>2, <1>5, HeadTailProperties DEF StartDownload
  <2>2. Head(strand_queue).file \in Asked /\ Head(strand_queue).file \in Files
    BY <1>5, <2>1 DEF StartDownload, AskedJobs, JobType
  <2> QED BY <1>1, <1>3, <1>5, <2>1, <2>2 DEF StartDownload
<1>6. ASSUME NEW t \in Threads, StartReset(t)
      PROVE  OnlyAsked'
  <2>1. Tail(strand_queue) \in Seq(AskedJobs)
    BY <1>2, <1>6, HeadTailProperties DEF StartReset
  <2> QED BY <1>1, <1>6, <2>1 DEF StartReset
<1>7. ASSUME NEW t \in Threads, MesureSpeed(t)
      PROVE  OnlyAsked'
  <2>1. [file |-> None, slot |-> thread[t].slot] \in AskedJobs
    BY DEF AskedJobs, JobType, TypeOK, ThreadType
  <2>2. strand_queue' \in Seq(AskedJobs)
    BY <1>2, <1>7, <2>1, AppendProperties DEF MesureSpeed
  <2>3. /\ \A u \in Threads : u # t => thread'[u] = thread[u]
        /\ thread'[t].pc # "opening"
    <3>1. CASE resource' = None
      <4> DEFINE next == Mesuring(thread[t].slot.gen, thread[t].slot.idx + 1)
      <4>1. next.pc # "opening"
        BY DEF Mesuring, Doing
      <4>2. thread' = [thread EXCEPT ![t] = next]
        BY <1>7, <3>1 DEF MesureSpeed, NextSlot
      <4> HIDE DEF next
      <4> QED BY <4>1, <4>2 DEF TypeOK
    <3>2. CASE resource' # None
      <4> DEFINE new == Doing("probing", None, thread[t].slot, resource')
      <4>1. new.pc # "opening"
        BY DEF Doing
      <4>2. thread' = [thread EXCEPT ![t] = new]
        BY <1>7, <3>2 DEF MesureSpeed
      <4> HIDE DEF new
      <4> QED BY <4>1, <4>2 DEF TypeOK
    <3> QED BY <3>1, <3>2
  <2> QED BY <1>1, <1>7, <2>2, <2>3 DEF MesureSpeed
<1>8. ASSUME NEW t \in Threads, NEW s \in Sessions, OpenOk(t, s)
      PROVE  OnlyAsked'
  <2>1. thread[t].file \in Asked
    BY <1>8 DEF OpenOk, OnlyAsked
  <2>2. \A r \in Sessions : session'[r] = session[r] \/ session'[r].file \in Asked
    BY <1>8, <2>1 DEF OpenOk, TypeOK
  <2> QED BY <1>1, <1>2, <1>8, <2>2, LeaveType DEF OpenOk
<1>9. ASSUME NEW t \in Threads,
             ProbeThrows(t) \/ ProbeRefused(t) \/ \E s \in Sessions : ProbeOk(t, s)
      PROVE  OnlyAsked'
  <2>1. thread[t].pc = "probing" /\ NextSlot(t) /\ strand_queue' = strand_queue
    BY <1>9 DEF ProbeThrows, ProbeRefused, ProbeOk
  <2>2. \A u \in Threads : thread'[u].pc = "opening" => thread'[u] = thread[u]
    BY <2>1, NextSlotType
  <2>3. \A s \in Sessions : session'[s] = session[s] \/ session'[s].file = None
    BY <1>9 DEF ProbeThrows, ProbeRefused, ProbeOk, TypeOK
  <2> QED BY <1>1, <1>2, <2>1, <2>2, <2>3
<1>10. ASSUME NEW t \in Threads,
              OpenThrows(t) \/ MesureDone(t)
       PROVE  OnlyAsked'
  BY <1>1, <1>2, <1>10, LeaveType DEF OpenThrows, MesureDone
<1>11. ASSUME NEW t \in Threads, NEW v, v.pc # "opening",
              thread' = thread \/ thread' = [thread EXCEPT ![t] = v],
              strand_queue' = strand_queue,
              \A s \in Sessions : session'[s] = session[s] \/ session'[s] = None
       PROVE  OnlyAsked'
  <2>1. \A u \in Threads : thread'[u].pc = "opening" => thread'[u] = thread[u]
    BY <1>11 DEF TypeOK
  <2> QED BY <1>1, <1>2, <1>11, <2>1
<1>12. ASSUME NEW t \in Threads,
              \/ \E f \in Files : RequestMap(t, f)
              \/ OpenRefused(t) \/ ApiMesure(t)
              \/ \E s \in Sessions : DownloadFailed(t, s) \/ MesureOk(t, s)
       PROVE  OnlyAsked'
  <2>1. /\ strand_queue' = strand_queue
        /\ \A s \in Sessions : session'[s] = session[s] \/ session'[s] = None
    BY <1>12 DEF RequestMap, OpenRefused, ApiMesure, DownloadFailed, MesureOk, TypeOK
  <2>2. \A f : Doing("insert", f, NoSlot, None).pc # "opening"
    BY DEF Doing
  <2>3. Mesuring(generation, 1).pc # "opening"
    BY DEF Mesuring, Doing
  <2>4. CASE \E f \in Files : RequestMap(t, f)
    <3>1. \E f : thread' = [thread EXCEPT ![t] = Doing("insert", f, NoSlot, None)]
      BY <2>4 DEF RequestMap
    <3> QED BY <1>11, <2>1, <2>2, <3>1
  <2>5. CASE OpenRefused(t) \/ ApiMesure(t) \/ \E s \in Sessions : DownloadFailed(t, s)
    <3>1. thread' = thread \/ thread' = [thread EXCEPT ![t] = Mesuring(generation, 1)]
      BY <2>5 DEF OpenRefused, ApiMesure, DownloadFailed
    <3> QED BY <1>11, <2>1, <2>3, <3>1
  <2>6. CASE \E s \in Sessions : MesureOk(t, s)
    <3>1. \/ thread' = thread
          \/ \E f : thread' = [thread EXCEPT ![t] = Doing("insert", f, NoSlot, None)]
      BY <2>6 DEF MesureOk, Redownload
    <3>2. Idle.pc # "opening"
      BY IdleType
    <3> QED BY <1>11, <2>1, <2>2, <3>1, <3>2
  <2> QED BY <1>12, <2>4, <2>5, <2>6
<1>13. ASSUME \/ UNCHANGED vars
              \/ \E t \in Threads : SetDownloadsDirectory(t)
              \/ \E s \in Sessions : Silent(s)
              \/ \E t \in Threads, s \in Sessions :
                   SendWithoutFolder(t, s) \/ DownloadOk(t, s) \/ MesureFailed(t, s)
              \/ \E t \in Threads, h \in ApiHosts : SetResourceAndPrefix(t, h)
       PROVE  OnlyAsked'
  <2>1. /\ thread' = thread /\ strand_queue' = strand_queue
        /\ \A s \in Sessions : session'[s] = session[s] \/ session'[s] = None
    BY <1>13 DEF SetDownloadsDirectory, Silent, SendWithoutFolder, DownloadOk,
       MesureFailed, SetResourceAndPrefix, TypeOK
  <2> QED BY <1>1, <1>2, <2>1
<1> QED
  BY <1>4, <1>5, <1>6, <1>7, <1>8, <1>9, <1>10, <1>12, <1>13
  DEF Next, Work, RunStrand, Complete, Ask

(* The three steps on the files are the steps of RequestBook. *)
LEMMA BookStep ==
  ASSUME IInv, OnlyAsked, [Next]_vars
  PROVE  [Book!Next]_<<Pending, delivered>>
<1>1. CASE FilesKept
  BY <1>1 DEF FilesKept
<1>2. ASSUME NEW f \in Files, FileAccepted(f)
      PROVE  Book!Next
  BY <1>2 DEF FileAccepted, Book!Next, Book!Accept
<1>3. ASSUME NEW t \in Threads, NEW s \in Sessions, DownloadOk(t, s),
             FileDelivered(session[s].file)
      PROVE  Book!Next
  <2>1. IsDownload(s)
    BY <1>3 DEF DownloadOk
  <2>2. session[s].file \in Files /\ session[s].file \in Pending \cup delivered
    BY <2>1 DEF OnlyAsked, Asked, IInv, TypeOK, SessionType, IsDownload
  <2> QED BY <1>3, <2>2 DEF FileDelivered, Book!Next, Book!Deliver
<1> QED BY <1>1, <1>2, <1>3, PendingStep

(* Downloader implements RequestBook: nothing is delivered that the chat    *)
(* did not ask for, and what it asked for is pending until delivered.       *)
THEOREM ImplementsRequestBook == Spec => BookSpec
<1>1. Init => Book!Init
  BY IdleType DEF Init, Book!Init, Pending
<1>2. IInv /\ OnlyAsked /\ [Next]_vars => OnlyAsked'
  BY OnlyAskedStep
<1>3. IInv /\ OnlyAsked /\ [Next]_vars => [Book!Next]_<<Pending, delivered>>
  BY BookStep
<1> QED BY <1>1, <1>2, <1>3, OnlyAskedInit, Invariance, PTL DEF Spec, BookSpec, Book!Spec
=============================================================================
