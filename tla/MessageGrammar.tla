---------------------------- MODULE MessageGrammar ----------------------------
(***************************************************************************)
(* TwitchMessage against the grammar of the protocol,                      *)
(* [@tags] [:prefix] COMMAND params: a line is composed from its parts, so *)
(* what it should be read as is known.                                     *)
(***************************************************************************)
EXTENDS TwitchMessage

CONSTANTS
  Words,       \* what stands between the spaces of a text
  BadgeWords,  \* the names of badges and their values
  BadgeLists,  \* the badges of a sender, each with its value
  MaxWords     \* bound: words after the command's target

(* What ends a name or a value in the tags.                                  *)
Delimiters == {"=", ";", ",", "/", Space}

(* The places of a list whose badge gives a role.                            *)
Giving(list) == {i \in 1..Len(list) : list[i][1] \in DOMAIN Roles /\ list[i][2] # "0"}

(* Twitch sends the badges with the higher role first.                       *)
ASSUME MessageGrammarAssumption ==
  /\ Space \notin Words /\ MaxWords \in Nat
  /\ BadgeWords \cap Delimiters = {} /\ BadgeLists \subseteq Seq(BadgeWords \X BadgeWords)
  /\ \A list \in BadgeLists : \A i, j \in Giving(list) :
       i < j => Roles[list[i][1]] >= Roles[list[j][1]]

TaggedCommands == {"PRIVMSG", "USERNOTICE", "ROOMSTATE", "CLEARCHAT"}
OtherCommands == {"PING", "JOIN", "PART", "376", "CAP"}

WordLists(max) == UNION {[1..n -> Words] : n \in 0..max}

(* The parts of the lines: a JOIN and a PART have no text. *)
TaggedLines == [command : TaggedCommands, badges : BadgeLists, named : BOOLEAN,
                words : WordLists(MaxWords)]
ComposedLines ==
  TaggedLines
    \cup [command : OtherCommands \ {"JOIN", "PART"}, words : WordLists(MaxWords)]
    \cup [command : {"JOIN", "PART"}, words : {<<>>}]
UserLines == {l \in TaggedLines : l.command = "PRIVMSG"}

(* The tag token: badge-info (the months of a subscription), badges and the *)
(* display name, each ended by ';' but the last.                            *)
Tags(l) ==
  LET list == FlattenSeq([i \in 1..Len(l.badges) |->
                (IF i = 1 THEN <<>> ELSE <<",">>)
                   \o <<l.badges[i][1], "/", l.badges[i][2]>>])
  IN <<"@", "badge-info", "=", "subscriber", "/", "376", ";", "badges", "=">> \o list
       \o <<";">> \o (IF l.named THEN <<"display-name", "=", "bob", ";">> ELSE <<>>)
       \o <<"user-type", "=">>

Target(command) == CASE command = "PING" -> <<":", "tmi">>
                     [] command = "CAP" -> <<"*", " ", "ACK", " ", ":", "caps">>
                     [] OTHER -> <<"#", "channel">>

Text(l) == FlattenSeq([i \in 1..Len(l.words) |->
             <<" ">> \o (IF i = 1 THEN <<":">> ELSE <<>>) \o <<l.words[i]>>])

Raw(l) == (IF l.command \in TaggedCommands THEN Tags(l) \o <<" ">> ELSE <<>>)
            \o (IF l.command = "PING" THEN <<>> ELSE <<":", "server", " ">>)
            \o <<l.command, " ">> \o Target(l.command) \o Text(l)

Message(l) == IdentifyMessageType(Raw(l))

(* The message of a composed line, part by part. *)
ReadAsCommand(l) ==
  Message(l).type = CASE l.command = "376" -> "STATUSCODE"
                      [] l.command = "CAP" -> "CAPRES"
                      [] OTHER -> l.command

ReadWithText(l) == Message(l).content = SubSeq(Text(l), 3, Len(Text(l)))

ReadWithHighestRole(l) ==
  LET given == {Roles[l.badges[i][1]] : i \in Giving(l.badges)}
      role == Message(l).role
  IN role \in given \cup {0} /\ \A r \in given : role >= r

ReadWithDisplayName(l) == Message(l).nick = IF l.named THEN <<<<"bob">>>> ELSE <<>>
================================================================================
