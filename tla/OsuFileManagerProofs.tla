-------------------------- MODULE OsuFileManagerProofs --------------------------
(***************************************************************************)
(* The removal of duplicates for every folder and every number of          *)
(* downloads beside it.                                                    *)
(***************************************************************************)
EXTENDS OsuFileManager, TLAPS

USE OsuFileManagerAssumption DEF OsuFileManagerAssumption

--------------------------------------------------------------------------------
(* What a walk comes to is there; a path in the map of ids too, of that id. *)
KeptIsThere ==
  phase # "idle" =>
    /\ todo \subseteq Present
    /\ \A i \in Ids : id_to_path[i] # NoPath => id_to_path[i] \in Present /\ Id[id_to_path[i]] = i

Looked == IF phase = "collect" THEN before \ todo ELSE before

(* The first walk has kept a path no longer than those it has come to. *)
Collected ==
  phase # "idle" =>
    /\ result = "none" /\ before \ removed \subseteq Present
    /\ \A n \in Looked : /\ ~GetIdThrows(n)
                         /\ id_to_path[Id[n]] # NoPath
                         /\ Size[id_to_path[Id[n]]] <= Size[n]

(* It removes nothing, and the second one leaves none that is longer. *)
Removed ==
  /\ phase = "collect" => removed = {}
  /\ phase = "remove" =>
       \A n \in before \ removed : n \notin todo => Size[n] = Size[id_to_path[Id[n]]]

IInv == /\ TypeOK /\ KeptIsThere /\ Collected /\ Removed
        /\ OnlyShortestLeft /\ OddNameRemovesNothing

--------------------------------------------------------------------------------
LEMMA InitIInv == Init => IInv
<1> SUFFICES ASSUME Init PROVE IInv
  OBVIOUS
<1>1. TypeOK
  BY DEF Init, TypeOK, Ids
<1> QED
  BY <1>1 DEF Init, IInv, KeptIsThere, Collected, Removed, OnlyShortestLeft, OddNameRemovesNothing

(* An exception, and the end of a walk, leave the history as it is. *)
LEMMA EndsIInv ==
  ASSUME IInv, NEW how \in {"done", "throws"}, Ends(how),
         content' \in [Names -> {"absent", "part", "whole"}], Present' = Present,
         UNCHANGED <<writing, downloads>>,
         how = "done" => \A n, m \in before \ removed : Id[n] = Id[m] => Size[n] = Size[m]
  PROVE  IInv'
<1>1. TypeOK'
  BY DEF IInv, TypeOK, Ends
<1>2. OnlyShortestLeft' /\ OddNameRemovesNothing'
  BY DEF IInv, OnlyShortestLeft, OddNameRemovesNothing, Ends, GetIdThrows
<1> QED
  BY <1>1, <1>2 DEF IInv, Ends, KeptIsThere, Collected, Removed

LEMMA BeginIInv == IInv /\ Begin => IInv'
<1> SUFFICES ASSUME IInv, Begin PROVE IInv'
  OBVIOUS
<1>1. TypeOK'
  BY DEF IInv, TypeOK, Begin, folder, Present, Ids
<1>2. KeptIsThere' /\ Collected' /\ Removed'
  BY DEF IInv, TypeOK, Begin, folder, KeptIsThere, Collected, Removed, Looked, Present, Ids
<1> QED
  BY <1>1, <1>2 DEF IInv, Begin, OnlyShortestLeft, OddNameRemovesNothing

LEMMA CollectIInv == ASSUME IInv, NEW n \in Names, Collect(n) PROVE IInv'
<1>1. CASE Throws
  BY <1>1, EndsIInv DEF Throws, folder, IInv, TypeOK, Present
<1>2. CASE ~Throws
  <2> USE <1>2
  <2>1. /\ ~GetIdThrows(n) /\ phase = "collect" /\ todo' = todo \ {n} /\ Keep(n)
        /\ UNCHANGED <<content, writing, downloads, phase, before, removed, result>>
    BY DEF Collect, CollectThrows, folder
  <2>2. Present' = Present /\ Id[n] \in Ids /\ n \in Present
    <3>1. todo \subseteq Present /\ n \in todo
      BY <2>1 DEF IInv, KeptIsThere, Collect
    <3> QED
      BY <2>1, <3>1 DEF Present, Ids, Collect
  <2>3. TypeOK'
    BY <2>1, <2>2 DEF IInv, TypeOK, Keep
  <2>4. KeptIsThere'
    BY <2>1, <2>2 DEF IInv, TypeOK, KeptIsThere, Keep
  <2>5. Collected'
    <3>1. /\ id_to_path'[Id[n]] # NoPath /\ Size[id_to_path'[Id[n]]] <= Size[n]
      BY <2>1, <2>2 DEF IInv, TypeOK, Keep, NoPath
    <3>2. ASSUME NEW m \in before \ todo
          PROVE  /\ ~GetIdThrows(m) /\ id_to_path'[Id[m]] # NoPath
                 /\ Size[id_to_path'[Id[m]]] <= Size[m]
      <4>1. /\ m \in Names /\ Id[m] \in Ids /\ ~GetIdThrows(m)
            /\ id_to_path[Id[m]] \in Names /\ Size[id_to_path[Id[m]]] <= Size[m]
            /\ id_to_path[Id[m]] # NoPath
        BY <2>1 DEF IInv, TypeOK, Collected, Looked, Ids
      <4>2. CASE Id[m] = Id[n]
        <5>1. Size[id_to_path'[Id[n]]] <= Size[id_to_path[Id[n]]]
          BY <2>1, <2>2, <4>1, <4>2 DEF IInv, TypeOK, Keep
        <5> QED
          BY <5>1, <4>1, <4>2, <3>1, <2>1, <2>2 DEF IInv, TypeOK, Keep
      <4>3. CASE Id[m] # Id[n]
        BY <2>1, <2>2, <4>1, <4>3 DEF IInv, TypeOK, Keep
      <4> QED
        BY <4>2, <4>3
    <3>3. Looked' = Looked \cup (before \cap {n})
      BY <2>1 DEF Looked, Collect
    <3> QED
      BY <2>1, <2>2, <3>1, <3>2, <3>3 DEF IInv, Collected, Looked, GetIdThrows
  <2> QED
    BY <2>1, <2>3, <2>4, <2>5
    DEF IInv, Removed, OnlyShortestLeft, OddNameRemovesNothing, GetIdThrows
<1> QED
  BY <1>1, <1>2

LEMMA StartRemovingIInv == IInv /\ StartRemoving => IInv'
<1> SUFFICES ASSUME IInv, StartRemoving PROVE IInv'
  OBVIOUS
<1>1. Present' = Present /\ UNCHANGED <<content, writing, downloads>>
  BY DEF StartRemoving, folder, Present
<1>2. TypeOK'
  BY <1>1 DEF IInv, TypeOK, StartRemoving, Present
<1>3. KeptIsThere'
  BY <1>1 DEF IInv, KeptIsThere, StartRemoving
<1>4. Collected'
  BY <1>1 DEF IInv, Collected, Looked, StartRemoving, GetIdThrows
<1>5. Removed'
  BY <1>1 DEF IInv, Collected, StartRemoving, Removed
<1> QED
  BY <1>2, <1>3, <1>4, <1>5
  DEF IInv, OnlyShortestLeft, OddNameRemovesNothing, StartRemoving, GetIdThrows

LEMMA RemoveIInv == ASSUME IInv, NEW n \in Names, Remove(n) PROVE IInv'
<1>1. CASE Throws
  BY <1>1, EndsIInv DEF Throws, folder, IInv, TypeOK, Present
<1>2. CASE /\ n \in Folders /\ content' = [content EXCEPT ![n] = "part"]
           /\ Ends("throws") /\ UNCHANGED <<writing, downloads>>
  <2>1. n \in Present
    BY DEF Remove, IInv, KeptIsThere
  <2>2. Present' = Present /\ content' \in [Names -> {"absent", "part", "whole"}]
    BY <1>2, <2>1 DEF IInv, TypeOK, Present
  <2> QED
    BY <1>2, <2>2, EndsIInv
<1>3. CASE /\ ~GetIdThrows(n) /\ ~IsDuplicate(n) /\ todo' = todo \ {n}
           /\ UNCHANGED <<folder, phase, id_to_path, before, removed, result>>
  <2>1. phase = "remove" /\ n \in todo /\ Present' = Present
    BY <1>3 DEF Remove, folder, Present
  <2>2. TypeOK' /\ KeptIsThere' /\ Collected'
    BY <1>3, <2>1 DEF IInv, TypeOK, KeptIsThere, Collected, Looked, folder, GetIdThrows
  <2>3. Removed'
    <3>1. ASSUME n \in before PROVE Size[n] = Size[id_to_path[Id[n]]]
      <4>1. /\ id_to_path[Id[n]] # NoPath /\ Size[id_to_path[Id[n]]] <= Size[n]
            /\ id_to_path[Id[n]] \in Names
        BY <2>1, <3>1 DEF IInv, TypeOK, Collected, Looked, Ids
      <4> QED
        BY <1>3, <4>1 DEF IsDuplicate
    <3> QED
      BY <1>3, <2>1, <3>1 DEF IInv, Removed
  <2> QED
    BY <1>3, <2>2, <2>3 DEF IInv, OnlyShortestLeft, OddNameRemovesNothing, GetIdThrows
<1>4. CASE /\ ~GetIdThrows(n) /\ IsDuplicate(n) /\ n \notin writing
           /\ todo' = todo \ {n} /\ content' = [content EXCEPT ![n] = "absent"]
           /\ removed' = removed \cup {n}
           /\ UNCHANGED <<writing, downloads, phase, id_to_path, before, result>>
  <2>1. phase = "remove" /\ n \in todo /\ Present' = Present \ {n}
    BY <1>4 DEF Remove, Present, IInv, TypeOK
  <2>2. TypeOK'
    BY <1>4, <2>1 DEF IInv, TypeOK
  <2>3. KeptIsThere'
    BY <1>4, <2>1 DEF IInv, TypeOK, KeptIsThere, IsDuplicate
  <2>4. Collected'
    BY <1>4, <2>1 DEF IInv, Collected, Looked, GetIdThrows
  <2>5. Removed'
    BY <1>4, <2>1 DEF IInv, Removed
  <2>6. OnlyShortestLeft'
    BY <1>4, <2>1 DEF IInv, Collected, OnlyShortestLeft
  <2>7. OddNameRemovesNothing'
    BY <1>4, <2>1 DEF IInv, Collected, Looked, OddNameRemovesNothing, GetIdThrows
  <2> QED
    BY <2>2, <2>3, <2>4, <2>5, <2>6, <2>7 DEF IInv
<1> QED
  BY <1>1, <1>2, <1>3, <1>4 DEF Remove

LEMMA DoneIInv == IInv /\ Done => IInv'
<1> SUFFICES ASSUME IInv, Done PROVE IInv'
  OBVIOUS
<1>1. ASSUME NEW n \in before \ removed, NEW m \in before \ removed, Id[n] = Id[m]
      PROVE  Size[n] = Size[m]
  BY <1>1 DEF IInv, Removed, Done
<1> QED
  BY <1>1, EndsIInv DEF Done, folder, IInv, TypeOK, Present

(* Downloads only add names to the folder and to the walk. *)
LEMMA DownloadIInv == IInv /\ Download => IInv'
<1> SUFFICES ASSUME IInv, NEW n \in Names, OpenFile(n) \/ BodyWhole(n) \/ BodyPart(n)
             PROVE  IInv'
  BY DEF Download
<1>1. /\ Present \subseteq Present' /\ Present' \subseteq Names
      /\ todo \subseteq todo' /\ todo' \subseteq todo \cup (Present' \ Present)
      /\ UNCHANGED <<phase, id_to_path, before, removed, result>>
  BY DEF IInv, TypeOK, OpenFile, BodyWhole, BodyPart, Present, removal
<1>2. TypeOK'
  BY <1>1 DEF IInv, TypeOK, OpenFile, BodyWhole, BodyPart, Present, removal
<1>3. KeptIsThere'
  BY <1>1 DEF IInv, KeptIsThere
<1>4. phase = "collect" => before \ todo' = before \ todo
  BY <1>1 DEF IInv, Collected, Removed
<1>5. Collected'
  BY <1>1, <1>4 DEF IInv, Collected, Looked, GetIdThrows
<1>6. Removed'
  BY <1>1 DEF IInv, Removed
<1> QED
  BY <1>1, <1>2, <1>3, <1>5, <1>6
  DEF IInv, OnlyShortestLeft, OddNameRemovesNothing, GetIdThrows

LEMMA StepIInv == IInv /\ [Next]_vars => IInv'
<1>1. IInv /\ BeginThrows => IInv'
  BY EndsIInv DEF BeginThrows, Throws, folder, IInv, TypeOK, Present
<1>2. IInv /\ UNCHANGED vars => IInv'
  BY DEF IInv, TypeOK, KeptIsThere, Collected, Removed, Looked, Present, GetIdThrows,
     OnlyShortestLeft, OddNameRemovesNothing, vars, folder, removal
<1> QED
  BY <1>1, <1>2, BeginIInv, CollectIInv, StartRemovingIInv, RemoveIInv, DoneIInv, DownloadIInv
  DEF Next, Walk

--------------------------------------------------------------------------------
(* The invariant holds of every folder. *)
THEOREM IInvAlways == Spec => []IInv
BY InitIInv, StepIInv, PTL DEF Spec

(* The types of the state. *)
THEOREM TypeCorrect == Spec => []TypeOK
BY IInvAlways, PTL DEF IInv

(* A removal that ends well leaves one length of name for each map. *)
THEOREM ShortestStay == Spec => []OnlyShortestLeft
BY IInvAlways, PTL DEF IInv

(* An odd name, or a space in the folder's path, and nothing is removed. *)
THEOREM OddNameStops == Spec => []OddNameRemovesNothing
BY IInvAlways, PTL DEF IInv

(* The step of a removal that takes a name away leaves the kept one. *)
LEMMA StepKeepsIds ==
  IInv /\ [Next]_vars => \A n \in Present : \E m \in Present' : Id[m] = Id[n]
<1> SUFFICES ASSUME IInv, [Next]_vars, NEW k \in Present
             PROVE  \E m \in Present' : Id[m] = Id[k]
  OBVIOUS
<1>1. CASE Present \subseteq Present'
  BY <1>1
<1>2. ASSUME NEW n \in Names, n \in todo, phase = "remove", IsDuplicate(n),
             content' = [content EXCEPT ![n] = "absent"]
      PROVE  \E m \in Present' : Id[m] = Id[k]
  <2>1. n \in Present /\ Id[n] \in Ids /\ Present' = Present \ {n}
    BY <1>2 DEF IInv, TypeOK, KeptIsThere, Present, Ids
  <2>2. id_to_path[Id[n]] \in Present' /\ Id[id_to_path[Id[n]]] = Id[n]
    BY <1>2, <2>1 DEF IInv, TypeOK, KeptIsThere, IsDuplicate, Present
  <2> QED
    BY <2>1, <2>2
<1>3. ASSUME NEW n \in Names, Remove(n), ~(Present \subseteq Present')
      PROVE  /\ n \in todo /\ phase = "remove" /\ IsDuplicate(n)
             /\ content' = [content EXCEPT ![n] = "absent"]
  BY <1>3 DEF Remove, Throws, folder, IInv, TypeOK, Present
<1>4. CASE Download
  BY <1>1, <1>4 DEF Download, OpenFile, BodyWhole, BodyPart, Present, IInv, TypeOK
<1>5. CASE Begin \/ BeginThrows \/ StartRemoving \/ Done \/ UNCHANGED vars
  BY <1>1, <1>5 DEF Begin, BeginThrows, Throws, StartRemoving, Done, vars, folder, Present
<1>6. ASSUME NEW n \in Names, Collect(n) PROVE Present \subseteq Present'
  BY <1>6 DEF Collect, CollectThrows, Throws, folder, Present
<1> QED
  BY <1>1, <1>2, <1>3, <1>4, <1>5, <1>6 DEF Next, Walk

(* No step takes the last name of a map out of the folder. *)
THEOREM IdsAlwaysKept == Spec => IdsKept
<1>1. IInv /\ [Next]_vars => [\A n \in Present : \E m \in Present' : Id[m] = Id[n]]_vars
  BY StepKeepsIds
<1> QED
  BY <1>1, IInvAlways, PTL DEF Spec, IdsKept
================================================================================
