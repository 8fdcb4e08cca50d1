---------------------------- MODULE MCDownloader ----------------------------
(* Downloader on small instances: hosts, files, threads and sessions are    *)
(* model values, the functions over them are defined here.                  *)
EXTENDS Downloader, TLC

CONSTANTS h1, h2, h3

MCBaseServers == <<h1, h2>>

MCPrefix == [h \in Hosts |-> h]

(* catboy.best and api.nerinyan.moe share the prefix "/d/". *)
MCOnePrefix == [h \in Hosts |-> h1]

MCSpeed == [h \in Hosts |-> CASE h = h1 -> 2 [] h = h2 -> 3 [] OTHER -> 1]

MCSymmetry == Permutations(Files) \cup Permutations(Threads) \cup Permutations(Sessions)
=============================================================================
