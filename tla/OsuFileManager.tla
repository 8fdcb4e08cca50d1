----------------------------- MODULE OsuFileManager -----------------------------
(***************************************************************************)
(* The songs folder: osu_file_manager.cpp removes the duplicates of maps   *)
(* in two walks over the folder, while downloads of http_client.h put      *)
(* files there.  The removal runs on the API's strand, one at a time; the  *)
(* downloads run on the other workers.                                     *)
(***************************************************************************)
EXTENDS Naturals

CONSTANTS
  Names,         \* names of files and folders
  Folders,       \* those that are folders
  Id,            \* of each name: the map's number in front, or NoId
  Size,          \* of each name: its length
  RootHasSpace,  \* the path of the songs folder contains a space
  NoId,
  MaxDownloads   \* bound: files opened by downloads

Ids == {Id[n] : n \in Names}

ASSUME OsuFileManagerAssumption ==
  /\ Folders \subseteq Names /\ Size \in [Names -> Nat]
  /\ RootHasSpace \in BOOLEAN /\ MaxDownloads \in Nat
  /\ "none" \notin Names

VARIABLES
  content,     \* of each name: "absent", "part" or "whole"
  writing,     \* files that downloads have open
  phase,       \* of the removal: "idle", "collect", "remove"
  todo,        \* names the directory_iterator has still to give
  id_to_path,  \* of each id: the name kept, or "none"
  downloads,   \* bound
  before,      \* history: the names found there when the removal began
  removed,     \* history: those it has removed
  result       \* history: how the last removal ended: "none", "done", "throws"

folder == <<content, writing, downloads>>
removal == <<phase, todo, id_to_path, before, removed, result>>
vars == <<folder, removal>>

Present == {n \in Names : content[n] # "absent"}

NoPath == "none"

--------------------------------------------------------------------------------
(* GetMapIdFromMapFolderName throws for a name that does not start with a   *)
(* number, and, as it cuts the whole path at the first space, for every     *)
(* name when that space is in the path of the folder.                       *)
GetIdThrows(n) == RootHasSpace \/ Id[n] = NoId

Ends(how) == /\ phase' = "idle" /\ todo' = {} /\ result' = how
             /\ UNCHANGED <<before, removed, id_to_path>>

Throws == Ends("throws") /\ UNCHANGED folder

(* RemoveDuplicates: a new map of ids, and the first directory_iterator, *)
(* which throws when there is no such folder.                            *)
Begin ==
  /\ phase = "idle"
  /\ phase' = "collect"
  /\ todo' = Present /\ before' = Present /\ removed' = {}
  /\ id_to_path' = [i \in Ids |-> NoPath]
  /\ result' = "none"
  /\ UNCHANGED folder

BeginThrows == phase = "idle" /\ Throws

(* Mutant: the last name found is kept. *)
KeepLast(n) == id_to_path' = [id_to_path EXCEPT ![Id[n]] = n]

Keep(n) ==
  id_to_path' = [id_to_path EXCEPT ![Id[n]] =
                   IF @ = NoPath \/ Size[n] < Size[@] THEN n ELSE @]

(* Mutant: odd names are passed over in the first walk. *)
CollectThrowsNever(n) == FALSE

CollectThrows(n) == GetIdThrows(n)

Collect(n) ==
  /\ phase = "collect" /\ n \in todo
  /\ \/ CollectThrows(n) /\ Throws
     \/ /\ ~CollectThrows(n)
        /\ IF GetIdThrows(n) THEN UNCHANGED id_to_path ELSE Keep(n)
        /\ todo' = todo \ {n}
        /\ UNCHANGED <<folder, phase, before, removed, result>>

(* The second directory_iterator. *)
StartRemoving ==
  /\ phase = "collect" /\ todo = {}
  /\ phase' = "remove" /\ todo' = Present
  /\ UNCHANGED <<folder, id_to_path, before, removed, result>>

(* Mutant: a path as long as the kept one is removed too. *)
IsDuplicateOrKept(n) == id_to_path[Id[n]] # NoPath /\ Size[n] >= Size[id_to_path[Id[n]]]

IsDuplicate(n) == id_to_path[Id[n]] # NoPath /\ Size[n] > Size[id_to_path[Id[n]]]

(* RemoveFile or RemoveDirectory_.  A file that a download writes cannot be *)
(* removed, one that the game uses neither: the exception ends the walk,    *)
(* and a folder may have lost some of its files before.                     *)
Remove(n) ==
  /\ phase = "remove" /\ n \in todo
  /\ \/ (GetIdThrows(n) \/ IsDuplicate(n)) /\ Throws
     \/ /\ ~GetIdThrows(n) /\ IsDuplicate(n) /\ n \in Folders
        /\ content' = [content EXCEPT ![n] = "part"]
        /\ Ends("throws") /\ UNCHANGED <<writing, downloads>>
     \/ /\ ~GetIdThrows(n) /\ ~IsDuplicate(n)
        /\ todo' = todo \ {n}
        /\ UNCHANGED <<folder, phase, id_to_path, before, removed, result>>
     \/ /\ ~GetIdThrows(n) /\ IsDuplicate(n) /\ n \notin writing
        /\ todo' = todo \ {n}
        /\ content' = [content EXCEPT ![n] = "absent"]
        /\ removed' = removed \cup {n}
        /\ UNCHANGED <<writing, downloads, phase, id_to_path, before, result>>

Done == phase = "remove" /\ todo = {} /\ Ends("done") /\ UNCHANGED folder

--------------------------------------------------------------------------------
(* FileResponseParser::OpenFile makes the file or empties it.  A walk under *)
(* way may come to a new name or not.                                       *)
OpenFile(n) ==
  /\ downloads < MaxDownloads /\ n \notin Folders \cup writing
  /\ downloads' = downloads + 1
  /\ content' = [content EXCEPT ![n] = "part"]
  /\ writing' = writing \cup {n}
  /\ todo' \in IF phase = "idle" \/ n \in Present THEN {todo} ELSE {todo, todo \cup {n}}
  /\ UNCHANGED <<phase, id_to_path, before, removed, result>>

BodyWhole(n) ==
  /\ n \in writing
  /\ content' = [content EXCEPT ![n] = "whole"]
  /\ writing' = writing \ {n}
  /\ UNCHANGED <<downloads, removal>>

(* The body ends early.  OnReadBody calls that a success, or, after the     *)
(* monitor has cancelled the read, a failure of a file with the name        *)
(* "Unknown": RemoveFileFromRoot finds none.  Either way the part stays.    *)
BodyPart(n) ==
  /\ n \in writing
  /\ writing' = writing \ {n}
  /\ UNCHANGED <<content, downloads, removal>>

--------------------------------------------------------------------------------
Init ==
  /\ content \in [Names -> {"absent", "whole"}]
  /\ writing = {} /\ downloads = 0
  /\ phase = "idle" /\ todo = {} /\ before = {} /\ removed = {}
  /\ id_to_path = [i \in Ids |-> NoPath] /\ result = "none"

Walk == \/ Begin \/ BeginThrows \/ StartRemoving \/ Done
        \/ \E n \in Names : Collect(n) \/ Remove(n)

Download == \E n \in Names : OpenFile(n) \/ BodyWhole(n) \/ BodyPart(n)

Next == Walk \/ Download

Spec == Init /\ [][Next]_vars

--------------------------------------------------------------------------------
TypeOK ==
  /\ content \in [Names -> {"absent", "part", "whole"}]
  /\ writing \subseteq Present
  /\ phase \in {"idle", "collect", "remove"}
  /\ todo \subseteq Names /\ before \subseteq Names /\ removed \subseteq Names
  /\ id_to_path \in [Ids -> Names \cup {NoPath}]
  /\ downloads \in 0..MaxDownloads
  /\ result \in {"none", "done", "throws"}

(* Whatever the downloads add meanwhile and wherever the removal stops, no  *)
(* step takes the last file or folder of a map's number out of the folder.  *)
IdsKept == [][\A n \in Present : \E m \in Present' : Id[m] = Id[n]]_vars

(* A removal that ended well has left, of the names it found at its start,  *)
(* those of one length for each map: the longer ones are gone.              *)
OnlyShortestLeft ==
  result = "done" =>
    \A n, m \in before \ removed : Id[n] = Id[m] => Size[n] = Size[m]

(* One name in the folder that is no map's, or a space in the path of the   *)
(* folder, and the removal removes nothing: it fails in its first walk.     *)
OddNameRemovesNothing == (\E n \in before : GetIdThrows(n)) => removed = {}
================================================================================
