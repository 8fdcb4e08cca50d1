-------------------------------- MODULE Settings --------------------------------
(***************************************************************************)
(* The settings of the program and settings.json: SaveSettings and         *)
(* LoadSettings of core.cpp, called by main at the start and by the web    *)
(* API, with the changes of the API and ends of the program in between.    *)
(* A load goes through the keys in order, one step for each.               *)
(***************************************************************************)
EXTENDS Naturals, Sequences

CONSTANTS
  Values,      \* values of settings
  Default,     \* the value of each setting when the program starts
  Files,       \* settings.json as a user or an earlier program wrote it
  MaxChanges,  \* bound: changes by the API
  MaxLoads     \* bound: loads
\* A file gives each key a value, Absent, or Bad (of another type).  The value of
\* "JoinedChannels" stands for a list with one channel.

Absent == "absent"
Bad == "bad"
NoFile == "no file"
Whole == "whole"
Unreadable == "unreadable"  \* cut or empty: LoadSettings logs it and returns

ListKeys == {"Blacklist", "Whitelist", "RolefilterLevel", "WhiteListOnly"}

(* The order in which LoadSettings and its parts look for them. *)
KeyOrder == <<"Blacklist", "Whitelist", "RolefilterLevel", "WhiteListOnly",
              "JoinedChannels", "ReconnectTimeout",
              "MaxFileSize", "UserAgent", "DownloadsDirectory", "Resource">>

Keys == {KeyOrder[i] : i \in DOMAIN KeyOrder} \cup {"Prefix"}
Kept == Keys \ (ListKeys \cup {"JoinedChannels"})  \* plain values of the program

ASSUME SettingsAssumption ==
  /\ Files \subseteq [Keys -> Values \cup {Absent, Bad}] /\ Default \in [Kept -> Values]
  /\ MaxChanges \in Nat /\ MaxLoads \in Nat /\ Values \cap {Absent, Bad} = {}

VARIABLES
  settings,  \* of each plain setting: its value in the program
  joined,    \* channels of the IRC client
  file,      \* settings.json: NoFile, Unreadable or Whole
  text,      \* what it says when it is whole
  loading,   \* the index of the key the load comes to next, or 0
  caller,    \* who loads: "main", "api" or "none"
  running,   \* "up", or how the program ended: "dead" (null mode), "terminated"
  old,       \* history: the settings when the load began
  loaded,    \* history: how the last load ended: "none", "ok", "throws"
  changes, loads

vars == <<settings, joined, file, text, loading, caller, running, old, loaded, changes, loads>>

--------------------------------------------------------------------------------
Has(k) == text[k] # Absent

(* The load ends; out of main an exception ends the program. *)
LoadEnds(how) ==
  /\ loading' = 0 /\ caller' = "none" /\ loaded' = how
  /\ running' = IF how = "throws" /\ caller = "main" THEN "terminated" ELSE "up"
  /\ UNCHANGED <<settings, joined, file, text, old, changes, loads>>

LoadNext == /\ loading' = loading + 1
            /\ UNCHANGED <<file, text, caller, running, old, loaded, changes, loads>>

BeginLoad(who) ==
  /\ running = "up" /\ loading = 0 /\ loads < MaxLoads
  /\ loads' = loads + 1 /\ old' = settings
  /\ IF file # Whole
     THEN loaded' = "ok" /\ UNCHANGED <<loading, caller>>
     ELSE loading' = 1 /\ caller' = who /\ loaded' = "none"
  /\ UNCHANGED <<settings, joined, file, text, running, changes>>

(* LoadSettings by the web API. *)
Load == BeginLoad("api")

Coming(k) == running = "up" /\ loading \in DOMAIN KeyOrder /\ KeyOrder[loading] = k

LoadMissing(k) == Coming(k) /\ ~Has(k) /\ LoadNext /\ UNCHANGED <<settings, joined>>

(* Mutant: a value of another type is passed over. *)
LoadBadSkips(k) == Coming(k) /\ text[k] = Bad /\ LoadNext /\ UNCHANGED <<settings, joined>>

(* get<...> of another type throws. *)
LoadBad(k) == Coming(k) /\ text[k] = Bad /\ LoadEnds("throws")

(* LoadUserVerificatorSettings: main_mode is null. *)
LoadList(k) ==
  /\ Coming(k) /\ k \in ListKeys /\ text[k] \in Values
  /\ running' = "dead" /\ loading' = 0 /\ caller' = "none"
  /\ UNCHANGED <<settings, joined, file, text, old, loaded, changes, loads>>

(* JoinedChannels: Client::Join adds to the channels, or throws without a *)
(* connection.                                                            *)
LoadJoin(k) ==
  /\ Coming(k) /\ k = "JoinedChannels" /\ text[k] \in Values
  /\ joined' = joined \cup {text[k]}
  /\ LoadNext /\ UNCHANGED settings

JoinThrows(k) == Coming(k) /\ k = "JoinedChannels" /\ text[k] \in Values /\ LoadEnds("throws")

(* Mutant: the type is not looked at. *)
LoadKeyOfAnyType(k) ==
  /\ Coming(k) /\ k \in Kept \ {"Resource"} /\ Has(k)
  /\ settings' = [settings EXCEPT ![k] = text[k]]
  /\ LoadNext /\ UNCHANGED joined

(* A plain setting. *)
LoadKey(k) ==
  /\ Coming(k) /\ k \in Kept \ {"Resource"} /\ text[k] \in Values
  /\ settings' = [settings EXCEPT ![k] = text[k]]
  /\ LoadNext /\ UNCHANGED joined

(* Mutant: the resource is set without looking for a prefix. *)
LoadResourceAlone(k) ==
  /\ Coming(k) /\ k = "Resource" /\ text[k] \in Values
  /\ LoadNext /\ UNCHANGED joined
  /\ settings' = [settings EXCEPT !["Resource"] = text["Resource"]]

(* The resource counts together with its prefix. *)
LoadResource(k) ==
  /\ Coming(k) /\ k = "Resource" /\ text[k] \in Values
  /\ IF text["Prefix"] = Bad THEN LoadEnds("throws")
     ELSE /\ LoadNext /\ UNCHANGED joined
          /\ settings' = IF ~Has("Prefix") THEN settings
                         ELSE [settings EXCEPT !["Resource"] = text["Resource"],
                                               !["Prefix"] = text["Prefix"]]

LoadDone == running = "up" /\ loading = Len(KeyOrder) + 1 /\ LoadEnds("ok")

--------------------------------------------------------------------------------
(* GetUserVerificatorSettings, before the file is opened. *)
GetThenOpen == running' = "dead" /\ UNCHANGED file

(* SaveSettings. *)
Save == /\ running = "up" /\ loading = 0
        /\ GetThenOpen
        /\ UNCHANGED <<settings, joined, text, loading, caller, old, loaded, changes, loads>>

(* A setting changed by the API, resource and prefix together.  Its strand runs one request at a time. *)
Change(k, v) ==
  /\ running = "up" /\ loading = 0 /\ changes < MaxChanges
  /\ settings' = IF k \in {"Resource", "Prefix"}
                 THEN [settings EXCEPT !["Resource"] = v, !["Prefix"] = v]
                 ELSE [settings EXCEPT ![k] = v]
  /\ changes' = changes + 1 /\ loaded' = "none"
  /\ UNCHANGED <<joined, file, text, loading, caller, running, old, loads>>

(* The user starts the program again: main, up to LoadSettings. *)
Start ==
  /\ running # "up" /\ loads < MaxLoads
  /\ running' = "up" /\ settings' = Default /\ joined' = {} /\ old' = Default /\ loads' = loads + 1
  /\ IF file # Whole
     THEN loaded' = "ok" /\ UNCHANGED <<loading, caller>>
     ELSE loading' = 1 /\ caller' = "main" /\ loaded' = "none"
  /\ UNCHANGED <<file, text, changes>>

--------------------------------------------------------------------------------
(* The program has been started and loads; file is what the user left. *)
Init ==
  /\ file \in {NoFile, Unreadable, Whole} /\ text \in Files
  /\ settings = Default /\ joined = {} /\ old = Default
  /\ loading = 0 /\ caller = "none" /\ running = "terminated"
  /\ loaded = "none" /\ changes = 0 /\ loads = 0

LoadStep == \E k \in Keys :
  \/ LoadMissing(k) \/ LoadBad(k) \/ LoadList(k) \/ LoadJoin(k) \/ JoinThrows(k)
  \/ LoadKey(k) \/ LoadResource(k)

Next == \/ Start \/ Load \/ LoadStep \/ LoadDone \/ Save
        \/ \E k \in Kept, v \in Values : Change(k, v)

Spec == Init /\ [][Next]_vars

--------------------------------------------------------------------------------
TypeOK ==
  /\ settings \in [Kept -> Values] /\ old \in [Kept -> Values] /\ joined \subseteq Values
  /\ file \in {NoFile, Unreadable, Whole} /\ text \in Files
  /\ loading \in 0..Len(KeyOrder) + 1 /\ caller \in {"main", "api", "none"}
  /\ (loading = 0) = (caller = "none")
  /\ running \in {"up", "dead", "terminated"} /\ loaded \in {"none", "ok", "throws"}
  /\ changes \in 0..MaxChanges /\ loads \in 0..MaxLoads

(* A load that ends well has taken every setting of the file, has left the  *)
(* others alone, and has come across nothing it could not take.             *)
LoadedIsTaken ==
  loaded = "ok" /\ file = Whole =>
    /\ \A k \in Keys \ {"Prefix"} : text[k] # Bad
    /\ \A k \in ListKeys : ~Has(k)
    /\ Has("JoinedChannels") => text["JoinedChannels"] \in joined
    /\ \A k \in Kept \ {"Resource", "Prefix"} :
         settings[k] = IF Has(k) THEN text[k] ELSE old[k]

(* One that fails has taken those in front of the place where it failed,    *)
(* and none behind it: never one in between is left out.                    *)
FailedIsCut ==
  loaded = "throws" =>
    \E cut \in DOMAIN KeyOrder : \A i \in DOMAIN KeyOrder :
      LET k == KeyOrder[i] IN
      k \in Kept \ {"Resource"} =>
        settings[k] = IF i < cut /\ Has(k) THEN text[k] ELSE old[k]

(* However a load ends, what the program has of the file is known: all of  *)
(* it, or what stands before the first key that stops it (core.cpp:115-144). *)
LoadTakesFile == LoadedIsTaken /\ FailedIsCut

(* When each file names a server with its own prefix, or leaves one out,    *)
(* no load leaves a server with the prefix of another.                      *)
ResourceHasItsPrefix == settings["Resource"] = settings["Prefix"]
================================================================================
