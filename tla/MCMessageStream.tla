---------------------------- MODULE MCMessageStream ----------------------------
(***************************************************************************)
(* MessageStream on TwitchMessage.  A symbol of the stream stands for a    *)
(* longer run of characters: cuts inside a run change nothing, what is     *)
(* read is put together again.  The lines of MessageGrammar, of more kinds *)
(* than a stream needs, are looked at once, before the first line is sent. *)
(***************************************************************************)
EXTENDS MessageStream, MessageGrammar

Ping == <<"PING", " ", ":tmi">>
From(tags) == tags \o <<" ", ":v", " ", "PRIVMSG", " ", "#c", " ", ":">>

Characters(symbol) ==
  CASE symbol = "ping" -> Ping
    [] symbol = "bob" -> From(<<"display-name", "=", "bob", ";">>)
    [] symbol = "nameless" -> From(<<"color", "=", ";">>)
    [] OTHER -> <<symbol>>

MCLines == {<<"ping">>, <<"bob", "hi">>, <<"nameless", "hi">>}

MCIdentify(raw) ==
  IdentifyMessageType(FlattenSeq([i \in 1..Len(raw) |-> Characters(raw[i])]))

MCWords == {"hi", "PRIVMSG", "PING", "376", "CAP", "CLEARCHAT"}

MCBadgeWords ==
  {"vip", "moderator", "broadcaster", "subscriber", "turbo", "0", "1"}

MCBadgeLists ==
  {<<>>, <<<<"vip", "1">>>>, <<<<"moderator", "1">>, <<"subscriber", "1">>>>,
   <<<<"broadcaster", "1">>, <<"subscriber", "0">>>>, <<<<"subscriber", "0">>>>,
   <<<<"turbo", "1">>, <<"subscriber", "1">>>>, <<<<"vip", "0">>, <<"subscriber", "1">>>>}

NothingSent == lines = 0

(* A line is read as the message of its command, whatever words its text    *)
(* has; but a line of three tokens only as JOIN or PART                     *)
(* (message_processor.cpp:54-104).                                          *)
TypeIsCommand ==
  NothingSent =>
    \A l \in ComposedLines :
      Len(Split(Raw(l))) # 3 \/ l.command \in {"JOIN", "PART"} => ReadAsCommand(l)

(* What a viewer wrote reaches the bot as it was written: the words, one    *)
(* space between them, without the colon that starts them                   *)
(* (message_processor.cpp, GetUserMessageFromSplitRawMessage).              *)
TextIsWhole == NothingSent => \A l \in UserLines : l.words # <<>> => ReadWithText(l)

(* Who sent a message is read from its tags alone, whatever badges, months  *)
(* of a subscription and keys stand in them: the role is the highest that a *)
(* badge with a value other than 0 gives, badge-info never counts, the name *)
(* is the display name or none (message.cpp:5-42, 103-141).                 *)
SenderIsRead ==
  NothingSent => \A l \in UserLines : ReadWithHighestRole(l) /\ ReadWithDisplayName(l)
================================================================================
