----------------------------- MODULE MCApiSession -----------------------------
(* The requests of the run, answered once at most: by the API's handlers, by *)
(* a validator, by CORS and by the static files, by nobody, or the program   *)
(* ends of them.                                                             *)
EXTENDS ApiSession

CONSTANTS s1, s2

Asking(target, method, body) == [target |-> target, method |-> method, body |-> body]

MCAsked == {Asking("max_file_size", "GET", "good"), Asking("max_file_size", "PUT", "wrong"),
            Asking("mesure_speed", "POST", "good"), Asking("folder", "PUT", "good"),
            Asking("white_list", "GET", "good"), Asking("load", "OPTIONS", "good"),
            Asking("file", "GET", "good"), Asking("unreadable", "GET", "good"),
            Asking("whitelist_only", "POST", "good")}

ASSUME AskedOnce == \A r \in MCAsked : SentOnce(r)

ASSUME OnceIsOnce == \A r \in Requests : SentOnce(r) <=> AnsweredOnce(r)
================================================================================
