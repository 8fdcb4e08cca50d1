------------------------------ MODULE ApiHandlers ------------------------------
(***************************************************************************)
(* What a request to the program's own web server leads to: the handlers   *)
(* of api_request_handler.h with the validators of request_validator.h,    *)
(* CORS, and the static files.  A handler's outcome is the sequence of     *)
(* responses it sends, by status, and how it ends: it "returns", it        *)
(* "throws", or the program is "dead" of a null pointer.  A body is "good" *)
(* (what the endpoint documents), "wrong" (another JSON) or "broken".      *)
(***************************************************************************)
EXTENDS Naturals, Sequences

Methods == {"GET", "POST", "PUT", "DELETE", "OPTIONS"}
Bodies == {"good", "wrong", "broken"}

Endpoints ==
  {"load", "save", "max_file_size", "folder", "remove_dublicates", "resource_and_prefix",
   "mesure_speed", "dl_server_status", "white_list", "black_list", "role_filter_level",
   "whitelist_only", "reconnect_timeout", "join", "part", "show_chat", "unknown"}

Files == {"file", "no_file", "outside", "unreadable"}  \* targets without "/api/"

Requests == [target : Endpoints, method : Methods, body : Bodies]
              \cup [target : Files, method : Methods, body : {"good"}]

--------------------------------------------------------------------------------
Done(sent) == [sent |-> sent, end |-> "returns"]
Throws == [sent |-> <<>>, end |-> "throws"]
Dead == [sent |-> <<>>, end |-> "dead"]

(* A call into Core whose exception nobody catches. *)
Bare(call) == {CASE c = "ok" -> Done(<<200>>) [] c = "throws" -> Throws [] OTHER -> Dead :
                 c \in call}

(* One whose exception is answered, before the answer "ok". *)
Tried(call) == {CASE c = "ok" -> Done(<<200>>) [] c = "throws" -> Done(<<500, 200>>)
                  [] OTHER -> Dead : c \in call}

(* SendJSONWithStatus: text that is no UTF-8 cannot be dumped, and the      *)
(* exception is only logged.                                                *)
Json(dumped) == {IF d THEN Done(<<200>>) ELSE Done(<<>>) : d \in dumped}

--------------------------------------------------------------------------------
(* Validators: the responses sent, and whether there is a value to act on. *)
NotAllowed == [sent |-> <<405>>, value |-> FALSE]

ParseJson(r) == IF r.body = "broken" THEN [sent |-> <<400>>, value |-> FALSE]
                ELSE [sent |-> <<>>, value |-> TRUE]

(* SendInvalidArgument when the JSON is another one. *)
ValidateBody(r) ==
  IF ParseJson(r).value /\ r.body = "wrong" THEN [sent |-> <<400>>, value |-> FALSE]
  ELSE ParseJson(r)

Validate(method, r) == IF r.method # method THEN NotAllowed ELSE ValidateBody(r)

ValidateSettingsRequest(r) ==
  IF r.method # "POST" THEN NotAllowed ELSE [sent |-> <<>>, value |-> TRUE]

(* ReconnectTimeout, WhiteListOnly and ShowChat: no return after the wrong  *)
(* method, and a second 400 after a body that cannot be parsed.             *)
ValidateWithoutReturn(r) ==
  [sent |-> (IF r.method # "PUT" THEN <<405>> ELSE <<>>) \o ParseJson(r).sent
              \o (IF r.body # "good" THEN <<400>> ELSE <<>>),
   value |-> r.body = "good"]

(* The handler goes on with the value, or the validator's answer is all. *)
With(v, outcomes) ==
  IF v.value THEN {[o EXCEPT !.sent = v.sent \o @] : o \in outcomes} ELSE {Done(v.sent)}

--------------------------------------------------------------------------------
(* Settings that hold a user list end in the null mode of ChatBot. *)
HandleLoadSetting(r) == With(ValidateSettingsRequest(r), Tried({"ok", "throws", "dead"}))
HandleSaveSetting(r) == With(ValidateSettingsRequest(r), Tried({"dead"}))

HandleMaxFileSize(r) ==
  IF r.method = "GET" THEN Json({TRUE}) ELSE With(Validate("PUT", r), Tried({"ok"}))

(* POST opens the dialog.  It has its own answer, and after an exception a  *)
(* second one: POST is not allowed.  A path need not be UTF-8.              *)
HandleDownloadsFolder(r) ==
  CASE r.method = "POST" -> {Done(<<200>>), Done(<<500, 405>>)}
    [] r.method = "GET" -> Json(BOOLEAN)
    [] OTHER -> With(Validate("PUT", r), Bare({"ok", "throws"}))

(* What the file system says need not be UTF-8 either: then the answer to   *)
(* the exception throws.                                                    *)
HandleRemoveDublicates(r) ==
  IF r.method # "POST" THEN {Done(<<405>>)} ELSE Tried({"ok", "throws"}) \cup {Throws}

HandleDownloadsResource(r) ==
  IF r.method = "GET" THEN Json({TRUE}) ELSE With(Validate("PUT", r), Tried({"ok"}))

(* Nothing at all when the speed need not be measured; with another method  *)
(* the measurement starts none the less.                                    *)
HandleMesureSpeed(r) ==
  {Done(<<>>), Done((IF r.method # "POST" THEN <<405>> ELSE <<>>) \o <<200>>)}

HandleDLServerStatus(r) == IF r.method # "GET" THEN {Done(<<405>>)} ELSE Json({TRUE})

(* Each accessor of a list, the role or the switch goes through GetMode. *)
HandleList(r) ==
  CASE r.method = "GET" -> Bare({"dead"})
    [] r.method \in {"PUT", "DELETE"} -> With(ValidateBody(r), Bare({"dead"}))
    [] OTHER -> {Done(<<405>>)}

HandleRoleFilterLevel(r) ==
  IF r.method = "GET" THEN Bare({"dead"}) ELSE With(Validate("PUT", r), Bare({"dead"}))

HandleWhitelistOnly(r) ==
  IF r.method = "GET" THEN Bare({"dead"}) ELSE With(ValidateWithoutReturn(r), Bare({"dead"}))

HandleSetReconnectTimeout(r) == With(ValidateWithoutReturn(r), Bare({"ok"}))

(* Join and Part throw without a connection, see IrcClient. *)
HandleJoinChannel(r) ==
  IF r.method = "GET" THEN Json({TRUE}) ELSE With(Validate("POST", r), Bare({"ok", "throws"}))

HandlePartChannel(r) == With(Validate("POST", r), Bare({"ok", "throws"}))

HandleShowChat(r) == With(ValidateWithoutReturn(r), Bare({"ok"}))

HandleWrongEndPoint(r) == {Done(<<404>>)}

(* ApiRequestHandler::operator() *)
Api(r) ==
  CASE r.target = "load" -> HandleLoadSetting(r)
    [] r.target = "save" -> HandleSaveSetting(r)
    [] r.target = "max_file_size" -> HandleMaxFileSize(r)
    [] r.target = "folder" -> HandleDownloadsFolder(r)
    [] r.target = "remove_dublicates" -> HandleRemoveDublicates(r)
    [] r.target = "resource_and_prefix" -> HandleDownloadsResource(r)
    [] r.target = "mesure_speed" -> HandleMesureSpeed(r)
    [] r.target = "dl_server_status" -> HandleDLServerStatus(r)
    [] r.target \in {"white_list", "black_list"} -> HandleList(r)
    [] r.target = "role_filter_level" -> HandleRoleFilterLevel(r)
    [] r.target = "whitelist_only" -> HandleWhitelistOnly(r)
    [] r.target = "reconnect_timeout" -> HandleSetReconnectTimeout(r)
    [] r.target = "join" -> HandleJoinChannel(r)
    [] r.target = "part" -> HandlePartChannel(r)
    [] r.target = "show_chat" -> HandleShowChat(r)
    [] OTHER -> HandleWrongEndPoint(r)

--------------------------------------------------------------------------------
(* FileRequestHandler on RootDirectory::GetContent: a target that is no     *)
(* file, one outside the root, and one that cannot be opened or decoded.    *)
ServeFile(r) ==
  CASE r.target = "file" -> {Done(<<200>>)}
    [] r.target = "no_file" -> {Done(<<404>>)}
    [] r.target = "outside" -> {Done(<<400>>)}
    [] r.target = "unreadable" -> {Throws}

CORS(r) == r.method = "OPTIONS"

IsApi(r) == r.target \in Endpoints

(* RequestHandler::operator() *)
Outcomes(r) ==
  IF CORS(r) THEN {Done(<<200>>)} ELSE IF IsApi(r) THEN Api(r) ELSE ServeFile(r)

(* A request whose handler sends no second response. *)
AnsweredOnce(r) == \A o \in Outcomes(r) : Len(o.sent) <= 1

(* Which requests these are: no exception of Core that is answered before   *)
(* the answer "ok", no handler that goes on after a validator's answer, and *)
(* no body that is refused twice.                                           *)
SentOnce(r) ==
  CASE CORS(r) -> TRUE
    [] r.target \in {"load", "remove_dublicates", "folder"} -> r.method # "POST"
    [] r.target = "mesure_speed" -> r.method = "POST"
    [] r.target \in {"reconnect_timeout", "show_chat"} -> r.method = "PUT" /\ r.body # "broken"
    [] r.target = "whitelist_only" -> \/ r.method = "GET" \/ r.body = "good"
                                      \/ r.method = "PUT" /\ r.body = "wrong"
    [] OTHER -> TRUE
================================================================================
