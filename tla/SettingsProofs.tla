----------------------------- MODULE SettingsProofs -----------------------------
(***************************************************************************)
(* What a load of settings.json leaves in the program, for every file,     *)
(* every value and any number of loads, changes and starts.                *)
(***************************************************************************)
EXTENDS Settings, TLAPS

USE SettingsAssumption DEF SettingsAssumption

(* The value a plain setting has when the keys before the index cut have    *)
(* been taken.                                                              *)
TakenUpTo(cut) ==
  \A i \in DOMAIN KeyOrder :
    KeyOrder[i] \in Kept \ {"Resource"} =>
      settings[KeyOrder[i]] =
        IF i < cut /\ Has(KeyOrder[i]) THEN text[KeyOrder[i]] ELSE old[KeyOrder[i]]

(* The keys before the one a load comes to have been taken, none of them    *)
(* was of another type or of a list, and none behind has been.              *)
Progress ==
  loading > 0 =>
    /\ file = Whole /\ running = "up" /\ loaded = "none"
    /\ TakenUpTo(loading)
    /\ \A i \in DOMAIN KeyOrder :
         i < loading =>
           /\ text[KeyOrder[i]] # Bad
           /\ KeyOrder[i] \in ListKeys => ~Has(KeyOrder[i])
           /\ KeyOrder[i] = "JoinedChannels" /\ Has("JoinedChannels")
                => text["JoinedChannels"] \in joined

(* A program that ended of a load, or stands after one, has the same. *)
Ended ==
  /\ loaded = "ok" /\ file = Whole =>
       /\ TakenUpTo(Len(KeyOrder) + 1)
       /\ \A i \in DOMAIN KeyOrder :
            /\ text[KeyOrder[i]] # Bad
            /\ KeyOrder[i] \in ListKeys => ~Has(KeyOrder[i])
            /\ KeyOrder[i] = "JoinedChannels" /\ Has("JoinedChannels")
                 => text["JoinedChannels"] \in joined
  /\ loaded = "throws" => \E cut \in DOMAIN KeyOrder : TakenUpTo(cut)

IInv == TypeOK /\ Progress /\ Ended

--------------------------------------------------------------------------------
(* The keys are looked for one after another, none twice; the prefix is not *)
(* one of them.                                                             *)
LEMMA KeyOrderFacts ==
  /\ DOMAIN KeyOrder = 1..10 /\ Len(KeyOrder) = 10
  /\ \A i, j \in 1..10 : KeyOrder[i] = KeyOrder[j] => i = j
  /\ \A i \in 1..10 : KeyOrder[i] # "Prefix" /\ KeyOrder[i] \in Keys
  /\ \A i \in 1..10 : KeyOrder[i] = "Resource" => i = 10
  /\ \A k \in Keys \ {"Prefix"} : \E i \in 1..10 : KeyOrder[i] = k
  /\ {"Prefix", "Resource"} \subseteq Keys
<1>1. DOMAIN KeyOrder = 1..10 /\ Len(KeyOrder) = 10
  BY DEF KeyOrder
<1>2. \A i \in 1..10 : i \in {1, 2, 3, 4, 5, 6, 7, 8, 9, 10}
  OBVIOUS
<1>3. \A i, j \in 1..10 : KeyOrder[i] = KeyOrder[j] => i = j
  BY <1>2 DEF KeyOrder
<1>4. \A i \in 1..10 : KeyOrder[i] # "Prefix"
  BY <1>2 DEF KeyOrder
<1>5. KeyOrder[10] = "Resource"
  BY DEF KeyOrder
<1> QED BY <1>1, <1>3, <1>4, <1>5 DEF Keys

LEMMA KeptFacts ==
  /\ Kept \subseteq Keys
  /\ "Resource" \in Kept /\ "Prefix" \in Kept /\ "JoinedChannels" \notin Kept
  /\ ListKeys \cap Kept = {}
<1>1. "Resource" \in Keys /\ "Prefix" \in Keys
  BY KeyOrderFacts
<1> QED BY <1>1 DEF Kept, ListKeys

LEMMA InitInv == Init => IInv
<1> SUFFICES ASSUME Init PROVE IInv
  OBVIOUS
<1>1. TypeOK
  BY KeyOrderFacts DEF Init, TypeOK
<1> QED BY <1>1 DEF Init, IInv, Progress, Ended

(* The text is a file, with a value, nothing, or something bad at each key. *)
LEMMA TextIsFile ==
  ASSUME TypeOK, NEW k \in Keys
  PROVE  text[k] \in Values \/ text[k] = Absent \/ text[k] = Bad
BY DEF TypeOK

(* One key taken: the load stands behind it. *)
LEMMA AdvanceInv ==
  ASSUME IInv, TypeOK', NEW k, Coming(k), LoadNext, text[k] # Bad,
         k \in ListKeys => ~Has(k),
         joined \subseteq joined',
         k = "JoinedChannels" /\ Has(k) => text[k] \in joined',
         \A l \in Kept \ {"Resource", "Prefix", k} : settings'[l] = settings[l],
         k \in Kept \ {"Resource"} => settings'[k] = IF Has(k) THEN text[k] ELSE settings[k]
  PROVE  IInv'
<1>1. /\ loading \in 1..10 /\ KeyOrder[loading] = k /\ loading' = loading + 1
      /\ text' = text /\ old' = old /\ file' = file /\ running' = running /\ loaded' = loaded
  BY KeyOrderFacts DEF Coming, LoadNext
<1>2. file = Whole /\ running = "up" /\ loaded = "none" /\ TakenUpTo(loading)
  BY <1>1 DEF IInv, Progress
<1>3. TakenUpTo(loading)'
  <2> SUFFICES ASSUME NEW i \in 1..10, KeyOrder[i] \in Kept \ {"Resource"}
               PROVE  settings'[KeyOrder[i]] = IF i < loading' /\ Has(KeyOrder[i])
                                              THEN text[KeyOrder[i]] ELSE old[KeyOrder[i]]
    BY <1>1, KeyOrderFacts DEF TakenUpTo, Has
  <2>1. settings[KeyOrder[i]] = IF i < loading /\ Has(KeyOrder[i])
                                THEN text[KeyOrder[i]] ELSE old[KeyOrder[i]]
    BY <1>2, KeyOrderFacts DEF TakenUpTo
  <2>2. CASE i = loading
    BY <1>1, <2>1, <2>2
  <2>3. CASE i # loading
    <3>1. KeyOrder[i] # k /\ KeyOrder[i] # "Prefix"
      BY <1>1, <2>3, KeyOrderFacts
    <3>2. settings'[KeyOrder[i]] = settings[KeyOrder[i]]
      BY <3>1
    <3>3. i < loading' <=> i < loading
      BY <1>1, <2>3
    <3> QED BY <2>1, <3>2, <3>3
  <2> QED BY <2>2, <2>3
<1>4. ASSUME NEW i \in 1..10, i < loading'
      PROVE  /\ text'[KeyOrder[i]] # Bad
             /\ KeyOrder[i] \in ListKeys => ~Has(KeyOrder[i])'
             /\ KeyOrder[i] = "JoinedChannels" /\ Has("JoinedChannels")'
                  => text'["JoinedChannels"] \in joined'
  <2>1. CASE i = loading
    BY <1>1, <2>1 DEF Has
  <2>2. CASE i # loading
    <3>1. i < loading
      BY <1>1, <1>4, <2>2
    <3> QED BY <1>1, <3>1, KeyOrderFacts DEF IInv, Progress, Has
  <2> QED BY <2>1, <2>2
<1>5. Progress'
  BY <1>1, <1>2, <1>3, <1>4, KeyOrderFacts DEF Progress
<1>6. Ended'
  BY <1>1, <1>2 DEF Ended
<1> QED BY <1>5, <1>6 DEF IInv

(* The load stops before a key: those before it are taken, and no other. *)
LEMMA StopInv ==
  ASSUME IInv, NEW k, Coming(k), LoadEnds("throws")
  PROVE  IInv'
<1>1. /\ loading \in 1..10 /\ loading' = 0 /\ loaded' = "throws" /\ caller' = "none"
      /\ text' = text /\ old' = old /\ settings' = settings
  BY KeyOrderFacts DEF Coming, LoadEnds
<1>2. TypeOK'
  BY KeyOrderFacts DEF IInv, TypeOK, LoadEnds
<1>3. TakenUpTo(loading)
  BY <1>1 DEF IInv, Progress
<1>4. \E cut \in DOMAIN KeyOrder : TakenUpTo(cut)'
  <2>1. ASSUME NEW cut \in DOMAIN KeyOrder, TakenUpTo(cut) PROVE TakenUpTo(cut)'
    BY <1>1, <2>1 DEF TakenUpTo, Has
  <2> QED BY <1>1, <1>3, <2>1, KeyOrderFacts
<1> QED BY <1>1, <1>2, <1>4 DEF IInv, Progress, Ended

--------------------------------------------------------------------------------
LEMMA LoadStepInv ==
  ASSUME IInv, LoadStep
  PROVE  IInv'
<1> USE DEF LoadNext
<1>. PICK k \in Keys : \/ LoadMissing(k) \/ LoadBad(k) \/ LoadList(k) \/ LoadJoin(k)
                       \/ JoinThrows(k) \/ LoadKey(k) \/ LoadResource(k)
  BY DEF LoadStep
<1>0. TypeOK /\ (text[k] \in Values \/ text[k] = Absent \/ text[k] = Bad)
  BY TextIsFile DEF IInv
<1>t. Values \cap {Absent, Bad} = {}
  OBVIOUS
<1>n. ASSUME Coming(k), LoadNext, settings' \in [Kept -> Values], joined' \subseteq Values
      PROVE  TypeOK'
  BY <1>0, <1>n, KeyOrderFacts DEF TypeOK, Coming
<1>1. CASE LoadMissing(k)
  <2>1. TypeOK'
    BY <1>0, <1>1, <1>n DEF LoadMissing, TypeOK
  <2>2. text[k] # Bad
    BY <1>1 DEF LoadMissing, Has, Absent, Bad
  <2> QED BY <1>1, <2>1, <2>2, AdvanceInv DEF LoadMissing
<1>2. CASE LoadBad(k)
  BY <1>2, StopInv DEF LoadBad
<1>3. CASE LoadList(k)
  <2>1. TypeOK'
    BY <1>0, <1>3, KeyOrderFacts DEF LoadList, TypeOK
  <2>2. loaded' = "none" /\ loading' = 0
    BY <1>3, KeyOrderFacts DEF LoadList, Coming, IInv, Progress
  <2> QED BY <2>1, <2>2 DEF IInv, Progress, Ended
<1>4. CASE LoadJoin(k)
  <2>1. TypeOK'
    BY <1>0, <1>4, <1>n DEF LoadJoin, TypeOK
  <2>2. text[k] # Bad /\ k \notin Kept /\ k \notin ListKeys
    BY <1>4, <1>t, KeptFacts DEF LoadJoin, ListKeys
  <2> QED BY <1>4, <2>1, <2>2, AdvanceInv DEF LoadJoin
<1>5. CASE JoinThrows(k)
  BY <1>5, StopInv DEF JoinThrows
<1>6. CASE LoadKey(k)
  <2>1. /\ Coming(k) /\ LoadNext /\ joined' = joined /\ k \in Kept \ {"Resource"}
        /\ text[k] \in Values /\ settings' = [settings EXCEPT ![k] = text[k]]
    BY <1>6 DEF LoadKey
  <2>2. settings \in [Kept -> Values] /\ joined \subseteq Values
    BY <1>0 DEF TypeOK
  <2>3. TypeOK'
    BY <1>n, <2>1, <2>2
  <2>4. text[k] # Bad /\ Has(k) /\ k \notin ListKeys /\ k # "JoinedChannels"
    BY <1>t, <2>1, KeptFacts DEF Has
  <2>5. /\ settings'[k] = text[k]
        /\ \A l \in Kept \ {"Resource", "Prefix", k} : settings'[l] = settings[l]
    BY <2>1, <2>2
  <2> QED BY <2>1, <2>3, <2>4, <2>5, AdvanceInv
<1>7. CASE LoadResource(k)
  <2>1. Coming(k) /\ k = "Resource" /\ text[k] \in Values
    BY <1>7 DEF LoadResource
  <2>2. CASE text["Prefix"] = Bad
    BY <1>7, <2>1, <2>2, StopInv DEF LoadResource
  <2>3. CASE text["Prefix"] # Bad
    <3>1. /\ LoadNext /\ joined' = joined
          /\ settings' = IF ~Has("Prefix") THEN settings
                         ELSE [settings EXCEPT !["Resource"] = text["Resource"],
                                               !["Prefix"] = text["Prefix"]]
      BY <1>7, <2>3 DEF LoadResource
    <3>2. settings \in [Kept -> Values] /\ joined \subseteq Values
      BY <1>0 DEF TypeOK
    <3>3. ~Has("Prefix") \/ text["Prefix"] \in Values
      BY <1>0, <2>3, TextIsFile, KeyOrderFacts DEF Has
    <3>4. settings' \in [Kept -> Values]
      BY <2>1, <3>1, <3>2, <3>3, KeptFacts
    <3>5. TypeOK'
      BY <1>n, <2>1, <3>1, <3>2, <3>4
    <3>6. text[k] # Bad /\ k \notin ListKeys /\ k # "JoinedChannels"
      BY <1>t, <2>1 DEF ListKeys
    <3>7. \A l \in Kept \ {"Resource", "Prefix", k} : settings'[l] = settings[l]
      BY <3>1, <3>2
    <3> QED BY <2>1, <3>1, <3>5, <3>6, <3>7, AdvanceInv
  <2> QED BY <2>2, <2>3
<1> QED BY <1>1, <1>2, <1>3, <1>4, <1>5, <1>6, <1>7

(* A load that has not begun has taken nothing; one that skips a file that  *)
(* it cannot read has nothing to take.                                      *)
LEMMA BeginInv ==
  ASSUME IInv, TypeOK', settings' = old', file' = file, text' = text,
         IF file # Whole THEN loaded' = "ok" /\ loading' = 0
         ELSE loading' = 1 /\ loaded' = "none" /\ running' = "up"
  PROVE  IInv'
<1>1. CASE file # Whole
  BY <1>1 DEF IInv, Progress, Ended
<1>2. CASE file = Whole
  <2>1. TakenUpTo(1)'
    BY KeyOrderFacts DEF TakenUpTo
  <2> QED BY <1>2, <2>1, KeyOrderFacts DEF IInv, Progress, Ended
<1> QED BY <1>1, <1>2

LEMMA DoneInv == ASSUME IInv, LoadDone PROVE IInv'
<1>1. /\ loading = 11 /\ loading' = 0 /\ loaded' = "ok" /\ joined' = joined
      /\ text' = text /\ old' = old /\ settings' = settings /\ file' = file
  BY KeyOrderFacts DEF LoadDone, LoadEnds
<1>2. TypeOK'
  BY KeyOrderFacts DEF IInv, TypeOK, LoadDone, LoadEnds
<1>3. Progress
  BY DEF IInv
<1>4. TakenUpTo(Len(KeyOrder) + 1)'
  <2>1. TakenUpTo(11)
    BY <1>1, <1>3 DEF Progress
  <2> QED BY <1>1, <2>1, KeyOrderFacts DEF TakenUpTo, Has
<1>5. Ended'
  BY <1>1, <1>3, <1>4, KeyOrderFacts DEF Progress, Ended, Has
<1> QED BY <1>1, <1>2, <1>5 DEF IInv, Progress

LEMMA ChangeInv ==
  ASSUME IInv, NEW k \in Kept, NEW v \in Values, Change(k, v)
  PROVE  IInv'
<1>1. loading = 0 /\ loading' = 0 /\ loaded' = "none"
  BY DEF Change
<1>2. TypeOK'
  BY KeptFacts, KeyOrderFacts DEF IInv, TypeOK, Change
<1> QED BY <1>1, <1>2 DEF IInv, Progress, Ended

LEMMA StepInv == IInv /\ [Next]_vars => IInv'
<1> SUFFICES ASSUME IInv, [Next]_vars PROVE IInv'
  OBVIOUS
<1>1. CASE Start
  <2>1. TypeOK'
    BY <1>1, KeyOrderFacts DEF IInv, TypeOK, Start, Progress
  <2>2. loading = 0
    BY <1>1 DEF Start, IInv, Progress, TypeOK
  <2> QED BY <1>1, <2>1, <2>2, BeginInv DEF Start
<1>2. CASE Load
  <2>1. TypeOK'
    BY <1>2, KeyOrderFacts DEF IInv, TypeOK, Load, BeginLoad
  <2> QED BY <1>2, <2>1, BeginInv DEF Load, BeginLoad
<1>3. CASE LoadStep
  BY <1>3, LoadStepInv
<1>4. CASE LoadDone
  BY <1>4, DoneInv
<1>5. CASE Save
  <2>1. TypeOK' /\ loading' = 0 /\ Ended'
    BY <1>5 DEF Save, GetThenOpen, IInv, TypeOK, Ended, TakenUpTo, Has
  <2> QED BY <2>1 DEF IInv, Progress
<1>6. ASSUME NEW k \in Kept, NEW v \in Values, Change(k, v) PROVE IInv'
  BY <1>6, ChangeInv
<1>7. CASE UNCHANGED vars
  BY <1>7 DEF vars, IInv, TypeOK, Progress, Ended, TakenUpTo, Has
<1> QED BY <1>1, <1>2, <1>3, <1>4, <1>5, <1>6, <1>7 DEF Next

(* The inductive invariant holds in every state of the program: a load has   *)
(* taken what stands before the key it comes to.                            *)
THEOREM Invariant == Spec => []IInv
BY InitInv, StepInv, PTL DEF Spec

(* The types; only what loads has a key to come to. *)
THEOREM TypeCorrect == Spec => []TypeOK
<1>1. IInv => TypeOK
  BY DEF IInv
<1> QED BY <1>1, Invariant, PTL

LEMMA LoadTakesFileHolds == IInv => LoadTakesFile
<1> SUFFICES ASSUME IInv PROVE LoadTakesFile
  OBVIOUS
<1>1. LoadedIsTaken
  <2> SUFFICES ASSUME loaded = "ok", file = Whole
               PROVE  /\ \A k \in Keys \ {"Prefix"} : text[k] # Bad
                      /\ \A k \in ListKeys : ~Has(k)
                      /\ Has("JoinedChannels") => text["JoinedChannels"] \in joined
                      /\ \A k \in Kept \ {"Resource", "Prefix"} :
                           settings[k] = IF Has(k) THEN text[k] ELSE old[k]
    BY DEF LoadedIsTaken
  <2>1. /\ TakenUpTo(11)
        /\ \A i \in 1..10 :
             /\ text[KeyOrder[i]] # Bad
             /\ KeyOrder[i] \in ListKeys => ~Has(KeyOrder[i])
             /\ KeyOrder[i] = "JoinedChannels" /\ Has("JoinedChannels")
                  => text["JoinedChannels"] \in joined
    BY KeyOrderFacts DEF IInv, Ended
  <2>2. ListKeys \cup {"JoinedChannels"} \subseteq Keys \ {"Prefix"}
    <3>1. /\ KeyOrder[1] = "Blacklist" /\ KeyOrder[2] = "Whitelist"
          /\ KeyOrder[3] = "RolefilterLevel" /\ KeyOrder[4] = "WhiteListOnly"
          /\ KeyOrder[5] = "JoinedChannels"
      BY DEF KeyOrder
    <3> QED BY <3>1, KeyOrderFacts DEF ListKeys
  <2>3. \A k \in Keys \ {"Prefix"} : text[k] # Bad
    BY <2>1, KeyOrderFacts
  <2>4. /\ \A k \in ListKeys : ~Has(k)
        /\ Has("JoinedChannels") => text["JoinedChannels"] \in joined
    BY <2>1, <2>2, KeyOrderFacts
  <2>5. \A k \in Kept \ {"Resource", "Prefix"} :
          settings[k] = IF Has(k) THEN text[k] ELSE old[k]
    BY <2>1, KeyOrderFacts, KeptFacts DEF TakenUpTo
  <2> QED BY <2>3, <2>4, <2>5
<1>2. FailedIsCut
  BY DEF IInv, Ended, TakenUpTo, FailedIsCut
<1> QED BY <1>1, <1>2 DEF LoadTakesFile

(* Whatever the file holds: a load that ends well has taken all of it, one  *)
(* that fails what stands before the key that stops it and nothing behind.  *)
THEOREM LoadsTakeFile == Spec => []LoadTakesFile
BY Invariant, LoadTakesFileHolds, PTL

--------------------------------------------------------------------------------
(* Each file names a server with its own prefix, or leaves one out. *)
OwnPrefix ==
  /\ Default["Resource"] = Default["Prefix"]
  /\ \A f \in Files : f["Resource"] \in Values /\ f["Prefix"] \in Values
                       => f["Resource"] = f["Prefix"]

LEMMA PrefixStep ==
  ASSUME OwnPrefix, IInv, ResourceHasItsPrefix, [Next]_vars
  PROVE  ResourceHasItsPrefix'
<1>0. /\ TypeOK /\ settings \in [Kept -> Values]
      /\ text \in Files /\ "Resource" \in Kept /\ "Prefix" \in Kept
  BY KeptFacts DEF IInv, TypeOK
<1>u. ASSUME settings' = settings PROVE ResourceHasItsPrefix'
  BY <1>u DEF ResourceHasItsPrefix
<1>1. CASE Start
  BY <1>1 DEF Start, OwnPrefix, ResourceHasItsPrefix
<1>2. CASE LoadStep
  <2>. PICK k \in Keys : \/ LoadMissing(k) \/ LoadBad(k) \/ LoadList(k) \/ LoadJoin(k)
                         \/ JoinThrows(k) \/ LoadKey(k) \/ LoadResource(k)
    BY <1>2 DEF LoadStep
  <2>1. CASE LoadMissing(k) \/ LoadBad(k) \/ LoadList(k) \/ LoadJoin(k) \/ JoinThrows(k)
    BY <1>u, <2>1 DEF LoadMissing, LoadBad, LoadList, LoadJoin, JoinThrows, LoadEnds
  <2>2. CASE LoadKey(k)
    <3>1. k # "Prefix" /\ k # "Resource"
      BY <2>2, KeyOrderFacts DEF LoadKey, Coming
    <3> QED BY <1>0, <2>2, <3>1 DEF LoadKey, ResourceHasItsPrefix
  <2>3. CASE LoadResource(k)
    <3>1. CASE settings' = settings
      BY <1>u, <3>1
    <3>2. CASE settings' # settings
      <4>1. /\ text["Resource"] \in Values /\ text["Prefix"] # Bad /\ Has("Prefix")
            /\ settings' = [settings EXCEPT !["Resource"] = text["Resource"],
                                            !["Prefix"] = text["Prefix"]]
        BY <2>3, <3>2 DEF LoadResource, LoadEnds
      <4>2. text["Prefix"] \in Values
        BY <1>0, <4>1, TextIsFile, KeyOrderFacts DEF Has
      <4>3. text["Resource"] = text["Prefix"]
        BY <1>0, <4>1, <4>2 DEF OwnPrefix
      <4> QED BY <1>0, <4>1, <4>3 DEF ResourceHasItsPrefix
    <3> QED BY <3>1, <3>2
  <2> QED BY <2>1, <2>2, <2>3
<1>3. ASSUME NEW k \in Kept, NEW v \in Values, Change(k, v) PROVE ResourceHasItsPrefix'
  BY <1>0, <1>3 DEF Change, ResourceHasItsPrefix
<1>4. CASE Load \/ LoadDone \/ Save \/ UNCHANGED vars
  BY <1>u, <1>4 DEF Load, BeginLoad, LoadDone, LoadEnds, Save, vars
<1> QED BY <1>1, <1>2, <1>3, <1>4 DEF Next

(* With such files no load, change or start leaves the program with the     *)
(* server of one source and the prefix of another.                          *)
THEOREM ServerKeepsPrefix ==
  ASSUME OwnPrefix
  PROVE  Spec => []ResourceHasItsPrefix
<1>1. Init => ResourceHasItsPrefix
  BY DEF Init, OwnPrefix, ResourceHasItsPrefix
<1>2. IInv /\ ResourceHasItsPrefix /\ [Next]_vars => ResourceHasItsPrefix'
  BY PrefixStep
<1> QED BY <1>1, <1>2, Invariant, PTL DEF Spec
================================================================================
