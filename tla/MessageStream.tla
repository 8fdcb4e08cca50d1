----------------------------- MODULE MessageStream -----------------------------
(***************************************************************************)
(* Twitch's bytes on their way to the bot: chunks of the stream are cut    *)
(* into messages on the read strand (message_processor.cpp), a chunk's     *)
(* messages are posted as one batch, and workers handle the batches        *)
(* (message_handler.cpp), several at a time.  IrcClient says how a         *)
(* connection is lost and replaced; here only what becomes of the bytes.   *)
(***************************************************************************)
EXTENDS Naturals, SequencesExt

CONSTANTS
  Lines,        \* the lines the server may send, without their CR LF
  Identify(_),  \* the message a line is, see TwitchMessage
  Workers,      \* bound: batches handled at a time
  MaxLines,     \* bound: lines sent
  MaxFaults     \* bound: lost connections

(* What the bytes are made of: the runs of characters in the lines.         *)
Symbols == {"CR", "LF"} \cup UNION {Range(l) : l \in Lines}

ASSUME MessageStreamAssumption ==
  /\ Lines \subseteq Seq(Symbols)
  /\ Workers \in Nat \ {0} /\ MaxLines \in Nat /\ MaxFaults \in Nat

VARIABLES
  link,     \* "up", or "lost" until the reconnect timer's handler resumes
  wire,     \* the bytes the server has sent and the client has not read
  consumed, \* the bytes read on this link
  cuts,     \* where in them a read has ended behind a CR
  last_read_incomplete_message,
  messages, \* the messages identified, of every link
  first,    \* where this link's messages start
  batches,  \* the batches posted: from and to in messages, next to handle
  fate,     \* of each message: "new", "ponged", "bot", "ignored", "dropped"
  lines, faults  \* bounds

vars == <<link, wire, consumed, cuts, last_read_incomplete_message, messages, first,
          batches, fate, lines, faults>>

--------------------------------------------------------------------------------
CRLF == <<"CR", "LF">>

IsCRLF(buff, index) == index < Len(buff) /\ SubSeq(buff, index, index + 1) = CRLF

(* One byte of the loop: a CR LF is looked for inside the chunk only, and   *)
(* ends the message.                                                        *)
ReadByte(acc, raw_bytes, i) ==
  CASE IsCRLF(raw_bytes, i) ->
         [found |-> Append(acc.found, Identify(acc.raw)), raw |-> <<>>]
    [] i > 1 /\ IsCRLF(raw_bytes, i - 1) -> acc
    [] OTHER -> [acc EXCEPT !.raw = Append(@, raw_bytes[i])]

(* The loop's results after each byte. *)
Loop(raw_bytes, kept) ==
  LET loop[i \in 0..Len(raw_bytes)] ==
        IF i = 0 THEN [found |-> <<>>, raw |-> kept]
        ELSE ReadByte(loop[i - 1], raw_bytes, i)
  IN loop

(* Mutant: a read starts a message of its own. *)
GetMessagesOfChunk(raw_bytes, kept) == Loop(raw_bytes, <<>>)[Len(raw_bytes)]

(* What no CR LF ends is kept for the next read. *)
GetMessagesFromRawBytes(raw_bytes, kept) == Loop(raw_bytes, kept)[Len(raw_bytes)]

--------------------------------------------------------------------------------
Send == /\ link = "up" /\ lines < MaxLines
        /\ \E l \in Lines : wire' = wire \o l \o CRLF
        /\ lines' = lines + 1
        /\ UNCHANGED <<link, consumed, cuts, last_read_incomplete_message, messages,
                       first, batches, fate, faults>>

(* A read of n bytes ends: its messages are one batch, posted to the        *)
(* workers even when it is empty.                                           *)
Chunk(n) ==
  LET cut == GetMessagesFromRawBytes(SubSeq(wire, 1, n), last_read_incomplete_message)
      old == Len(messages)
  IN /\ n \in 1..Len(wire)
     /\ consumed' = consumed \o SubSeq(wire, 1, n)
     /\ cuts' = IF wire[n] = "CR" THEN cuts \cup {Len(consumed) + n} ELSE cuts
     /\ last_read_incomplete_message' = cut.raw
     /\ messages' = messages \o cut.found
     /\ fate' = fate \o [i \in 1..Len(cut.found) |-> "new"]
     /\ batches' = IF cut.found = <<>> THEN batches  \* nothing to handle
                   ELSE batches \cup {[from |-> old + 1, to |-> old + Len(cut.found),
                                       next |-> old + 1, taken |-> FALSE]}

OnRead == /\ link = "up"
          /\ \E n \in 1..Len(wire) : Chunk(n) /\ wire' = SubSeq(wire, n + 1, Len(wire))
          /\ UNCHANGED <<link, first, lines, faults>>

(* The connection is lost: the last read has some bytes, the rest is gone.  *)
LinkLost == /\ link = "up" /\ faults < MaxFaults
            /\ \E n \in 1..Len(wire) : Chunk(n)
            /\ wire' = <<>> /\ link' = "lost" /\ faults' = faults + 1
            /\ UNCHANGED <<first, lines>>

FlushBuffer == last_read_incomplete_message' = <<>>

(* The timer's handler, on the new connection. *)
Resume == /\ link = "lost" /\ link' = "up"
          /\ FlushBuffer
          /\ consumed' = <<>> /\ cuts' = {} /\ first' = Len(messages) + 1
          /\ UNCHANGED <<wire, messages, batches, fate, lines, faults>>

--------------------------------------------------------------------------------
(* Mutant: the batch stays posted. *)
TakeCopy(b) == /\ ~b.taken /\ Cardinality({x \in batches : x.taken}) < Workers
               /\ batches' = batches \cup {[b EXCEPT !.taken = TRUE]}
               /\ UNCHANGED fate

Take(b) == /\ ~b.taken /\ Cardinality({x \in batches : x.taken}) < Workers
           /\ batches' = (batches \ {b}) \cup {[b EXCEPT !.taken = TRUE]}
           /\ UNCHANGED fate

(* Mutant: the handler returns after the first message it answers. *)
RestReturns(b, f) == fate' = [fate EXCEPT ![b.next] = f] /\ batches' = batches \ {b}

(* The rest of b, from its next message on, with the fate f of that one. *)
Rest(b, f) ==
  /\ fate' = [fate EXCEPT ![b.next] = f]
  /\ batches' = (batches \ {b})
                  \cup (IF b.next = b.to THEN {} ELSE {[b EXCEPT !.next = @ + 1]})

(* A PING is answered, another command passed over. *)
HandleCommand(b) ==
  /\ b.taken /\ messages[b.next].type # "PRIVMSG"
  /\ Rest(b, IF messages[b.next].type = "PING" THEN "ponged" ELSE "ignored")

(* A viewer's message goes to the bot. *)
HandleUserMessage(b) ==
  /\ b.taken /\ messages[b.next].type = "PRIVMSG" /\ messages[b.next].nick # <<>>
  /\ Rest(b, "bot")

(* Mutant: the batch is given up from its first message. *)
GetNickThrowsWhole(b) ==
  /\ b.taken /\ messages[b.next].type = "PRIVMSG" /\ messages[b.next].nick = <<>>
  /\ fate' = [i \in DOMAIN fate |-> IF i \in b.from..b.to THEN "dropped" ELSE fate[i]]
  /\ batches' = batches \ {b}

(* GetNick throws: the catch around the loop gives up the rest of the batch. *)
GetNickThrows(b) ==
  /\ b.taken /\ messages[b.next].type = "PRIVMSG" /\ messages[b.next].nick = <<>>
  /\ fate' = [i \in DOMAIN fate |-> IF i \in b.next..b.to THEN "dropped" ELSE fate[i]]
  /\ batches' = batches \ {b}

Handle(b) == /\ Take(b) \/ HandleCommand(b) \/ HandleUserMessage(b) \/ GetNickThrows(b)
             /\ UNCHANGED <<link, wire, consumed, cuts, last_read_incomplete_message,
                            messages, first, lines, faults>>

Init == /\ link = "up" /\ wire = <<>> /\ consumed = <<>> /\ cuts = {}
        /\ last_read_incomplete_message = <<>>
        /\ messages = <<>> /\ first = 1 /\ fate = <<>>
        /\ batches = {} /\ lines = 0 /\ faults = 0

Next == Send \/ OnRead \/ LinkLost \/ Resume \/ \E b \in batches : Handle(b)

Spec == Init /\ [][Next]_vars

(* The workers take and finish what is posted to them. *)
FairSpec == Spec /\ WF_vars(\E b \in batches : Handle(b))

--------------------------------------------------------------------------------
(* Where a line of the bytes read ends: at a CR LF that no read has cut.    *)
Ends == {e \in 1..Len(consumed) : IsCRLF(consumed, e) /\ e \notin cuts}

Upto(ends, k) == {e \in ends : e <= k}

(* from is where a line starts that ends in front of end. *)
IsLine(ends, from, end) ==
  /\ from = 1 \/ from - 2 \in ends
  /\ from <= end /\ \A e \in ends : e < from \/ e >= end

(* The messages found are those of the lines, in order, and rest is what    *)
(* follows the last line.                                                   *)
AreLines(bytes, ends, found, rest) ==
  /\ Len(found) = Cardinality(ends)
  /\ \A end \in ends : \E from \in 1..end :
       /\ IsLine(ends, from, end)
       /\ found[Cardinality(Upto(ends, end))] = Identify(SubSeq(bytes, from, end - 1))
  /\ \E from \in 1..(Len(bytes) + 1) :
       /\ IsLine(ends, from, Len(bytes) + 1)
       /\ rest = SubSeq(bytes, from, Len(bytes))

(* The messages read on a connection are the lines of its bytes, in order,  *)
(* each once, wherever the reads cut them, but that a CR LF cut in two is   *)
(* part of a line and ends none (domain.h:61-66); no message is made of the *)
(* halves of two connections (message_processor.cpp:18-52).                 *)
MessagesAreLines ==
  AreLines(consumed, Ends, SubSeq(messages, first, Len(messages)),
           last_read_incomplete_message)

(* A message is left without its answer only when the name of a viewer was  *)
(* missing in it or in one before it in the same chunk: nothing else makes  *)
(* the handler give up a batch (message_handler.cpp:7-34).                  *)
LostOnlyBehindNameless ==
  \A i \in DOMAIN fate : fate[i] # "new" =>
    \/ fate[i] = CASE messages[i].type = "PING" -> "ponged"
                   [] messages[i].type = "PRIVMSG" -> "bot"
                   [] OTHER -> "ignored"
    \/ /\ fate[i] = "dropped"
       /\ \E j \in 1..i : /\ messages[j].type = "PRIVMSG" /\ messages[j].nick = <<>>
                          /\ \A k \in j..i : fate[k] = "dropped"

(* A message read and not handled is in exactly one batch, ahead of its     *)
(* handler, a handled one in none: no message is answered or executed       *)
(* twice, none is forgotten (irc_client.cpp:105-112).                       *)
InOneBatch ==
  \A i \in DOMAIN fate :
    Cardinality({b \in batches : i \in b.next..b.to}) = IF fate[i] = "new" THEN 1 ELSE 0

(* Every message read is handled, whatever batch it came in and however the *)
(* workers take them: a PING is answered in the end.                        *)
EveryMessageHandled ==
  \A i \in 1..MaxLines : (i \in DOMAIN fate) ~> (i \in DOMAIN fate /\ fate[i] # "new")
================================================================================
