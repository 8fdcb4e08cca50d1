----------------------------- MODULE TwitchMessage -----------------------------
(***************************************************************************)
(* A line of Twitch's IRC and what the client makes of it: domain.h's      *)
(* Split, message_processor.cpp's IdentifyMessageType and the badges of    *)
(* message.cpp.  A text is a sequence of symbols, a symbol being a run of  *)
(* characters the code never cuts ("PING", "vip") or one it looks for      *)
(* (" ", "=", ";", ",", "/").  An optional is a sequence of at most one.   *)
(***************************************************************************)
EXTENDS Naturals, SequencesExt

Numbers == {"0", "1", "376"}   \* symbols made of digits

Space == " "

(* The i-th symbol begins a word behind a space, else it goes on with one.  *)
SplitSymbol(words, str, i) ==
  CASE str[i] = Space -> words
    [] str[i] # Space /\ (i = 1 \/ str[i - 1] = Space) -> Append(words, <<str[i]>>)
    [] OTHER -> [words EXCEPT ![Len(words)] = Append(@, str[i])]

(* The words among the first symbols. *)
WordsOf(str) ==
  LET words[i \in 0..Len(str)] ==
        IF i = 0 THEN <<>> ELSE SplitSymbol(words[i - 1], str, i)
  IN words

Split(str) == WordsOf(str)[Len(str)]

IsNumber(str) == str # <<>> /\ Range(str) \subseteq Numbers

--------------------------------------------------------------------------------
(* One symbol of the tag token: what stands before the first '=' is the key  *)
(* (the leading '@' too), a value ends at ',' or ';'.                       *)
PushValue(acc) ==
  [k \in DOMAIN acc.badges \cup {acc.badge} |->
     IF k \notin DOMAIN acc.badges THEN <<acc.value>>
     ELSE IF k = acc.badge THEN Append(acc.badges[k], acc.value) ELSE acc.badges[k]]

NextBadgeSymbol(acc, ch) ==
  CASE ~acc.seted /\ ch # "=" -> [acc EXCEPT !.badge = Append(@, ch)]
    [] acc.seted /\ ch = "," -> [badges |-> PushValue(acc), badge |-> acc.badge,
                                  seted |-> TRUE, value |-> <<>>]
    [] acc.seted /\ ch = ";" -> [badges |-> PushValue(acc), badge |-> <<>>,
                                  seted |-> FALSE, value |-> <<>>]
    [] ch = "=" -> [acc EXCEPT !.seted = TRUE]
    [] OTHER -> [acc EXCEPT !.value = Append(@, ch)]

NoBadges == [badges |-> [k \in {} |-> <<>>], badge |-> <<>>, seted |-> FALSE,
             value |-> <<>>]

(* What is read of a tag token after each symbol. *)
BadgeLoop(badges) ==
  LET loop[i \in 0..Len(badges)] ==
        IF i = 0 THEN NoBadges ELSE NextBadgeSymbol(loop[i - 1], badges[i])
  IN loop

(* The badges of a tag token, key by key; a last pair that no ';' ends is   *)
(* dropped.                                                                 *)
ParseBadges(badges) == BadgeLoop(badges)[Len(badges)].badges

Roles == [broadcaster |-> 4, moderator |-> 3, vip |-> 2, subscriber |-> 1]

(* The role of one badge "name/value": none for a value 0 or another name. *)
RoleOfBadge(raw_badge) ==
  IF /\ Len(raw_badge) = 3 /\ raw_badge[2] = "/" /\ raw_badge[3] # "0"
     /\ raw_badge[1] \in DOMAIN Roles
  THEN Roles[raw_badge[1]] ELSE 0

RawBadges(badges) ==
  IF <<"badges">> \in DOMAIN badges THEN badges[<<"badges">>] ELSE <<>>

(* The badges that give a role. *)
Recognised(raw_badges) == {i \in DOMAIN raw_badges : RoleOfBadge(raw_badges[i]) # 0}

(* Mutant: the last recognised badge wins. *)
SetRoleLastBadge(badges) ==
  LET raw_badges == RawBadges(badges)
      given == Recognised(raw_badges)
  IN IF given = {} THEN 0 ELSE RoleOfBadge(raw_badges[Max(given)])

SetRole(badges) ==
  LET raw_badges == RawBadges(badges)
      given == Recognised(raw_badges)
  IN IF given = {} THEN 0 ELSE RoleOfBadge(raw_badges[Min(given)])

--------------------------------------------------------------------------------
Plain(type, content) == [type |-> type, content |-> content, role |-> 0, nick |-> <<>>]

(* A message with badges; nick is the optional first display-name. *)
Badged(type, content, tags) ==
  LET badges == ParseBadges(tags)
  IN [type |-> type, content |-> content, role |-> SetRole(badges),
      nick |-> IF <<"display-name">> \in DOMAIN badges
               THEN <<badges[<<"display-name">>][1]>> ELSE <<>>]

(* Mutant: the text starts one token too early. *)
GetUserMessageWithTarget(split) ==
  FlattenSeq([i \in 1..Len(SubSeq(split, 4, Len(split))) |-> split[i + 3]])

GetUserMessageFromSplitRawMessage(split) ==
  LET words == SubSeq(split, 5, Len(split))
      content == FlattenSeq([i \in 1..Len(words) |->
                               IF i = 1 THEN words[i] ELSE <<Space>> \o words[i]])
  IN IF content # <<>> /\ content[1] = ":" THEN Tail(content) ELSE content

CheckForUserMessage(split) ==
  IF Len(split) >= 4 /\ split[3] \in {<<"PRIVMSG">>, <<"USERNOTICE">>}
  THEN <<Badged(split[3][1], GetUserMessageFromSplitRawMessage(split), split[1])>>
  ELSE <<>>

CheckForJoinPart(split, raw) ==
  IF split[2] \in {<<"JOIN">>, <<"PART">>} THEN Plain(split[2][1], split[3])
  ELSE Plain("UNKNOWN", raw)

CheckForPing(split, raw) ==
  IF Len(split) >= 2 /\ split[1] = <<"PING">> THEN <<Plain("PING", Tail(raw))>> ELSE <<>>

CheckForRoomstate(split, raw) ==
  IF Len(split) >= 3 /\ split[3] = <<"ROOMSTATE">>
  THEN <<Plain("ROOMSTATE", raw \o split[2])>> ELSE <<>>

CheckForStatusCode(split, raw) ==
  IF Len(split) >= 3 /\ IsNumber(split[2])
  THEN <<Plain("STATUSCODE", raw \o split[2])>> ELSE <<>>

CheckForCapRes(split, raw) ==
  IF Len(split) >= 4 /\ split[2] = <<"CAP">> THEN <<Plain("CAPRES", raw)>> ELSE <<>>

(* Mutant: the command looked for where an untagged line has it. *)
CheckForClearChatUntagged(split, raw) ==
  IF Len(split) >= 4 /\ split[2] = <<"CLEARCHAT">> THEN <<Plain("CLEARCHAT", raw)>> ELSE <<>>

CheckForClearChat(split, raw) ==
  IF Len(split) >= 4 /\ split[3] = <<"CLEARCHAT">> THEN <<Plain("CLEARCHAT", raw)>> ELSE <<>>

(* substr(4) of a line that starts with the command: Twitch puts no space    *)
(* before it.  The first check that answers; a line of three tokens is only looked at   *)
(* as JOIN or PART.                                                         *)
IdentifyMessageType(raw) ==
  LET split == Split(raw)
      others == CASE Len(split) = 0 -> <<Plain("EMPTY", <<>>)>>
                  [] Len(split) = 3 -> <<CheckForJoinPart(split, raw)>>
                  [] OTHER -> CheckForPing(split, raw) \o CheckForRoomstate(split, raw)
                                \o CheckForStatusCode(split, raw)
                                \o CheckForCapRes(split, raw)
                                \o CheckForClearChat(split, raw)
  IN Head(CheckForUserMessage(split) \o others \o <<Plain("UNKNOWN", raw)>>)

================================================================================
