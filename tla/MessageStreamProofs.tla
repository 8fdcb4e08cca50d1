-------------------------- MODULE MessageStreamProofs --------------------------
(***************************************************************************)
(* MessageStream for every set of lines, every way to identify a message   *)
(* and every bound: the messages read are the lines sent, however the      *)
(* reads cut them; each is in one batch until it is handled; and only a    *)
(* message without a viewer's name keeps another from its answer.  Then    *)
(* MessageGrammar for all words, badges and lists: every composed line is  *)
(* read as what it was composed of.                                        *)
(***************************************************************************)
EXTENDS MCMessageStream, FiniteSetTheorems, SequenceTheorems, WellFoundedInduction, TLAPS

--------------------------------------------------------------------------------
(* The loop over the bytes of a chunk. *)

(* Induction, from the least number outside S. *)
LEMMA NatInd ==
  ASSUME NEW S, 0 \in S, \A n \in Nat : n \in S => n + 1 \in S
  PROVE  \A n \in Nat : n \in S
<1> DEFINE Less == OpToRel(<, Nat)
           Out == {n \in Nat : n \notin S}
<1>1. \A x, y \in Nat : x < y => <<x, y>> \in Less
  BY DEF OpToRel
<1>2. IsWellFoundedOn(Less, Nat)
  BY NatLessThanWellFounded
<1> HIDE DEF Less
<1>3. SUFFICES ASSUME Out # {} PROVE FALSE
  OBVIOUS
<1>4. PICK x \in Out : \A y \in Out : ~(<<y, x>> \in Less)
  <2>1. Out \subseteq Nat
    OBVIOUS
  <2> HIDE DEF Out
  <2> QED BY <1>2, <1>3, <2>1, WFMin
<1>5. x \in Nat /\ x - 1 \in Nat /\ x - 1 < x /\ x - 1 \in Out
  <2>1. x \in Nat /\ x # 0
    BY <1>4
  <2>2. x - 1 \in Nat /\ x - 1 < x /\ (x - 1) + 1 = x
    BY <2>1
  <2> QED BY <1>4, <2>1, <2>2
<1>6. <<x - 1, x>> \in Less
  BY <1>1, <1>5
<1> QED BY <1>4, <1>5, <1>6

(* g holds what a loop of n rounds over D computes, from b on. *)
Computes(g, D, n, b, F) ==
  /\ g \in [0..n -> D] /\ g[0] = b
  /\ \A i \in 1..n : g[i] = F[<<g[i - 1], i>>]

(* What a loop of n rounds computes exists, round by round. *)
LEMMA RoundsExist ==
  ASSUME NEW D, NEW n \in Nat, NEW b \in D, NEW F \in [D \X (1..n) -> D]
  PROVE  \E g : Computes(g, D, n, b, F)
<1> DEFINE Rounds(k) == \E g : Computes(g, D, k, b, F)
           S == {k \in Nat : k <= n => Rounds(k)}
<1>1. 0 \in S
  <2> DEFINE g == [i \in 0..0 |-> b]
  <2>1. g \in [0..0 -> D] /\ g[0] = b
    OBVIOUS
  <2>2. \A i \in 1..0 : g[i] = F[<<g[i - 1], i>>]
    OBVIOUS
  <2> HIDE DEF g
  <2>3. Rounds(0)
    BY <2>1, <2>2 DEF Computes
  <2> HIDE DEF Rounds
  <2> QED BY <2>3
<1>2. ASSUME NEW k \in Nat, k \in S PROVE k + 1 \in S
  <2> SUFFICES ASSUME k + 1 <= n PROVE Rounds(k + 1)
    OBVIOUS
  <2>1. PICK g : Computes(g, D, k, b, F)
    BY <1>2
  <2> DEFINE h == [i \in 0..(k + 1) |-> IF i <= k THEN g[i] ELSE F[<<g[k], k + 1>>]]
  <2>2. F[<<g[k], k + 1>>] \in D
    <3>1. <<g[k], k + 1>> \in D \X (1..n)
      BY <2>1 DEF Computes
    <3> QED BY <3>1
  <2>3. h \in [0..(k + 1) -> D] /\ h[0] = b
    BY <2>1, <2>2 DEF Computes
  <2>4. ASSUME NEW i \in 1..(k + 1) PROVE h[i] = F[<<h[i - 1], i>>]
    <3>1. CASE i <= k
      BY <2>1, <3>1 DEF Computes
    <3>2. CASE i = k + 1
      BY SMTT(30), <3>2
    <3> QED BY <3>1, <3>2
  <2> HIDE DEF h
  <2>5. Computes(h, D, k + 1, b, F)
    BY <2>3, <2>4 DEF Computes
  <2> QED BY <2>5
<1>3. \A k \in Nat : k \in S
  <2> HIDE DEF S
  <2> QED BY <1>1, <1>2, NatInd
<1>4. Rounds(n)
  <2> HIDE DEF Rounds
  <2> QED BY <1>3
<1> QED BY <1>4

Messages == {Identify(raw) : raw \in Seq(Symbols)}
Found == [found : Seq(Messages), raw : Seq(Symbols)]

LEMMA ReadByteType ==
  ASSUME NEW acc \in Found, NEW raw_bytes \in Seq(Symbols), NEW i \in 1..Len(raw_bytes)
  PROVE  ReadByte(acc, raw_bytes, i) \in Found
<1>1. Identify(acc.raw) \in Messages /\ raw_bytes[i] \in Symbols
  BY DEF Found, Messages
<1>2. Append(acc.found, Identify(acc.raw)) \in Seq(Messages)
      /\ Append(acc.raw, raw_bytes[i]) \in Seq(Symbols) /\ <<>> \in Seq(Symbols)
  BY <1>1 DEF Found
<1> QED BY <1>2 DEF ReadByte, Found

(* The loop does what it says, in every round. *)
LEMMA LoopRounds ==
  ASSUME NEW raw_bytes \in Seq(Symbols), NEW kept \in Seq(Symbols)
  PROVE  LET loop == Loop(raw_bytes, kept)
         IN  /\ loop \in [0..Len(raw_bytes) -> Found]
             /\ loop[0] = [found |-> <<>>, raw |-> kept]
             /\ \A i \in 1..Len(raw_bytes) : loop[i] = ReadByte(loop[i - 1], raw_bytes, i)
<1> DEFINE n == Len(raw_bytes)
           b == [found |-> <<>>, raw |-> kept]
           F == [p \in Found \X (1..n) |-> ReadByte(p[1], raw_bytes, p[2])]
           Round(g) == [i \in 0..n |-> IF i = 0 THEN b ELSE ReadByte(g[i - 1], raw_bytes, i)]
<1>1. n \in Nat /\ b \in Found
  BY DEF Found
<1>2. F \in [Found \X (1..n) -> Found]
  BY ReadByteType
<1>3. PICK g : Computes(g, Found, n, b, F)
  <2> HIDE DEF n, b, F
  <2> QED BY <1>1, <1>2, RoundsExist
<1>4. \A i \in 1..n : g[i] = ReadByte(g[i - 1], raw_bytes, i)
  <2> SUFFICES ASSUME NEW i \in 1..n PROVE g[i] = ReadByte(g[i - 1], raw_bytes, i)
    OBVIOUS
  <2>1. i - 1 \in 0..n
    BY <1>1
  <2>2. <<g[i - 1], i>> \in Found \X (1..n)
    BY <1>3, <2>1 DEF Computes
  <2> QED BY <1>3, <2>2 DEF Computes
<1>5. g = Round(g)
  <2>1. \A i \in 0..n : i # 0 => i \in 1..n
    BY <1>1
  <2> HIDE DEF n, b
  <2>2. \A i \in 0..n : g[i] = IF i = 0 THEN b ELSE ReadByte(g[i - 1], raw_bytes, i)
    BY <1>3, <1>4, <2>1 DEF Computes
  <2> QED BY <1>3, <2>2 DEF Computes
<1>6. Loop(raw_bytes, kept) = Round(Loop(raw_bytes, kept))
  <2>1. Loop(raw_bytes, kept) = CHOOSE f : f = Round(f)
    BY DEF Loop
  <2> HIDE DEF Round
  <2> QED BY <1>5, <2>1
<1>7. /\ Loop(raw_bytes, kept)[0] = b
      /\ \A i \in 1..n : Loop(raw_bytes, kept)[i]
                            = ReadByte(Loop(raw_bytes, kept)[i - 1], raw_bytes, i)
  <2>1. 0 \in 0..n /\ \A i \in 1..n : i \in 0..n /\ i # 0
    BY <1>1
  <2> HIDE DEF n, b
  <2> QED BY <1>6, <2>1
<1> DEFINE S == {k \in Nat : k <= n => Loop(raw_bytes, kept)[k] \in Found}
<1>8. \A i \in Nat : i \in S
  <2>1. 0 \in S
    BY <1>1, <1>7
  <2>2. ASSUME NEW k \in Nat, k \in S PROVE k + 1 \in S
    <3> SUFFICES ASSUME k + 1 <= n PROVE Loop(raw_bytes, kept)[k + 1] \in Found
      OBVIOUS
    <3>1. k + 1 \in 1..n /\ (k + 1) - 1 = k /\ Loop(raw_bytes, kept)[k] \in Found
      BY <1>1, <2>2
    <3> QED BY <1>7, <3>1, ReadByteType
  <2> HIDE DEF S
  <2> QED BY <2>1, <2>2, NatInd
<1>9. Loop(raw_bytes, kept) \in [0..n -> Found]
  <2>1. \A i \in 0..n : Loop(raw_bytes, kept)[i] \in Found
    BY <1>1, <1>8
  <2>2. Loop(raw_bytes, kept) = [i \in 0..n |-> Loop(raw_bytes, kept)[i]]
    <3> HIDE DEF n, b
    <3> QED BY <1>6
  <2> HIDE DEF n
  <2> QED BY <2>1, <2>2
<1> QED BY <1>7, <1>9

--------------------------------------------------------------------------------
(* The lines up to a byte. *)

(* Up to byte k, the messages found are those of the lines that end, and    *)
(* raw is what follows the last of them.                                    *)
LinesTo(k, bytes, ends, found, raw) ==
  /\ Len(found) = Cardinality(Upto(ends, k))
  /\ \A end \in ends : end <= k =>
       \E from \in 1..end :
         /\ IsLine(ends, from, end)
         /\ found[Cardinality(Upto(ends, end))] = Identify(SubSeq(bytes, from, end - 1))
  /\ \E from \in 1..(IF k \in ends THEN k + 2 ELSE k + 1) :
       /\ from = 1 \/ from - 2 \in ends
       /\ \A e \in ends : e <= k => e < from
       /\ raw = SubSeq(bytes, from, k)

(* Ends may be where a CR LF is, and nowhere else. *)
EndsOf(bytes) == {e \in 1..Len(bytes) : IsCRLF(bytes, e)}

LEMMA EndsBytes ==
  ASSUME NEW bytes \in Seq(Symbols), NEW e \in EndsOf(bytes)
  PROVE  e \in 1..(Len(bytes) - 1) /\ bytes[e] = "CR" /\ bytes[e + 1] = "LF"
<1>1. e \in 1..Len(bytes) /\ e < Len(bytes) /\ SubSeq(bytes, e, e + 1) = <<"CR", "LF">>
  BY DEF EndsOf, IsCRLF, CRLF
<1>2. SubSeq(bytes, e, e + 1)[1] = bytes[e] /\ SubSeq(bytes, e, e + 1)[2] = bytes[e + 1]
  BY <1>1
<1>3. e \in Nat /\ Len(bytes) \in Nat
  BY <1>1
<1>4. e \in 1..(Len(bytes) - 1)
  BY <1>1, <1>3
<1>5. <<"CR", "LF">>[1] = "CR" /\ <<"CR", "LF">>[2] = "LF"
  OBVIOUS
<1> QED BY <1>1, <1>2, <1>4, <1>5

(* So no two of them are next to one another. *)
LEMMA EndsApart ==
  ASSUME NEW bytes \in Seq(Symbols), NEW e \in EndsOf(bytes)
  PROVE  e + 1 \notin EndsOf(bytes)
<1>1. "CR" # "LF"
  OBVIOUS
<1> QED BY <1>1, EndsBytes

(* How many lines end up to a byte. *)
LEMMA EndsCounted ==
  ASSUME NEW bytes, Len(bytes) \in Nat, NEW ends \in SUBSET EndsOf(bytes), NEW k \in Nat
  PROVE  /\ Cardinality(Upto(ends, k)) \in Nat
         /\ \A end \in ends : end <= k =>
              Cardinality(Upto(ends, end)) \in 1..Cardinality(Upto(ends, k))
         /\ Cardinality(Upto(ends, k + 1)) =
              Cardinality(Upto(ends, k)) + (IF k + 1 \in ends THEN 1 ELSE 0)
<1>1. IsFiniteSet(ends)
  <2>1. IsFiniteSet(1..Len(bytes)) /\ ends \subseteq 1..Len(bytes)
    BY FS_Interval DEF EndsOf
  <2> QED BY <2>1, FS_Subset
<1>2. \A j : IsFiniteSet(Upto(ends, j)) /\ Cardinality(Upto(ends, j)) \in Nat
  <2>1. \A j : Upto(ends, j) \subseteq ends
    BY DEF Upto
  <2> QED BY <1>1, <2>1, FS_Subset, FS_CardinalityType
<1>3. \A e \in ends : e \in Nat
  BY DEF EndsOf
<1>4. ASSUME NEW end \in ends, end <= k
      PROVE  Cardinality(Upto(ends, end)) \in 1..Cardinality(Upto(ends, k))
  <2>1. Upto(ends, end) \subseteq Upto(ends, k) /\ end \in Upto(ends, end)
    <3>1. \A e \in ends : e <= end => e <= k
      BY <1>3, <1>4
    <3>2. end <= end
      BY <1>3
    <3> QED BY <3>1, <3>2 DEF Upto
  <2>2. Cardinality(Upto(ends, end)) <= Cardinality(Upto(ends, k))
    BY <1>2, <2>1, FS_Subset
  <2>3. Cardinality(Upto(ends, end)) # 0
    BY <1>2, <2>1, FS_EmptySet
  <2> QED BY <1>2, <2>2, <2>3
<1>5. ASSUME k + 1 \in ends
      PROVE  Cardinality(Upto(ends, k + 1)) = Cardinality(Upto(ends, k)) + 1
  <2>1. \A e \in ends : e <= k + 1 <=> e <= k \/ e = k + 1
    BY <1>3
  <2>3. k + 1 <= k + 1 /\ ~(k + 1 <= k)
    OBVIOUS
  <2>2. Upto(ends, k + 1) = Upto(ends, k) \cup {k + 1} /\ k + 1 \notin Upto(ends, k)
    BY <1>5, <2>1, <2>3 DEF Upto
  <2> QED BY <1>2, <2>2, FS_AddElement
<1>6. ASSUME k + 1 \notin ends
      PROVE  Upto(ends, k + 1) = Upto(ends, k)
  <2>1. \A e \in ends : e <= k + 1 <=> e <= k
    BY <1>3, <1>6
  <2> QED BY <2>1 DEF Upto
<1> QED BY <1>2, <1>4, <1>5, <1>6

(* A line that ends has the message it is identified as. *)
LEMMA LineEnds ==
  ASSUME NEW bytes \in Seq(Symbols), NEW ends \in SUBSET EndsOf(bytes),
         NEW k \in 0..(Len(bytes) - 1), k + 1 \in ends,
         NEW found \in Seq(Messages), NEW raw \in Seq(Symbols),
         LinesTo(k, bytes, ends, found, raw)
  PROVE  LinesTo(k + 1, bytes, ends, Append(found, Identify(raw)), <<>>)
<1> DEFINE more == Append(found, Identify(raw))
<1>1. Len(bytes) \in Nat /\ k \in Nat /\ \A e \in ends : e \in Nat
  BY DEF EndsOf
<1>2. k \notin ends
  BY EndsApart
<1>3. PICK from \in 1..(k + 1) :
        /\ from = 1 \/ from - 2 \in ends
        /\ \A e \in ends : e <= k => e < from
        /\ raw = SubSeq(bytes, from, k)
  BY <1>2 DEF LinesTo
<1>4. /\ Len(more) = Len(found) + 1 /\ more[Len(found) + 1] = Identify(raw)
      /\ \A i \in 1..Len(found) : more[i] = found[i]
  BY DEF Messages
<1>5. Len(found) = Cardinality(Upto(ends, k)) /\ Cardinality(Upto(ends, k + 1)) = Len(found) + 1
  BY <1>1, EndsCounted DEF LinesTo
<1> HIDE DEF more
<1>6. ASSUME NEW end \in ends, end <= k + 1
      PROVE  \E start \in 1..end :
               /\ IsLine(ends, start, end)
               /\ more[Cardinality(Upto(ends, end))] = Identify(SubSeq(bytes, start, end - 1))
  <2>1. CASE end = k + 1
    <3>1. IsLine(ends, from, end)
      <4>1. \A e \in ends : e < from \/ e >= end
        BY <1>1, <1>3, <2>1
      <4> QED BY <1>3, <2>1, <4>1 DEF IsLine
    <3>2. raw = SubSeq(bytes, from, end - 1)
      BY <1>1, <1>3, <2>1
    <3> QED BY <1>3, <1>4, <1>5, <2>1, <3>1, <3>2
  <2>2. CASE end <= k
    <3>1. PICK start \in 1..end :
            /\ IsLine(ends, start, end)
            /\ found[Cardinality(Upto(ends, end))] = Identify(SubSeq(bytes, start, end - 1))
      BY <2>2 DEF LinesTo
    <3>2. Cardinality(Upto(ends, end)) \in 1..Len(found)
      BY <1>1, <1>5, <2>2, EndsCounted
    <3> QED BY <1>4, <3>1, <3>2
  <2> QED BY <1>1, <1>6, <2>1, <2>2
<1>7. /\ k + 3 \in 1..(k + 1 + 2) /\ (k + 3) - 2 \in ends
      /\ \A e \in ends : e <= k + 1 => e < k + 3
      /\ <<>> = SubSeq(bytes, k + 3, k + 1)
  BY <1>1
<1> QED BY <1>4, <1>5, <1>6, <1>7 DEF LinesTo, more

(* The second byte of a CR LF belongs to no line. *)
LEMMA LineEnded ==
  ASSUME NEW bytes \in Seq(Symbols), NEW ends \in SUBSET EndsOf(bytes),
         NEW k \in 0..(Len(bytes) - 1), k \in ends,
         NEW found \in Seq(Messages), NEW raw \in Seq(Symbols),
         LinesTo(k, bytes, ends, found, raw)
  PROVE  LinesTo(k + 1, bytes, ends, found, raw)
<1>1. Len(bytes) \in Nat /\ k \in Nat /\ \A e \in ends : e \in Nat
  BY DEF EndsOf
<1>2. k + 1 \notin ends /\ k - 1 \notin ends
  <2>1. ASSUME k - 1 \in ends PROVE FALSE
    <3>1. (k - 1) + 1 = k
      BY <1>1
    <3> QED BY <2>1, <3>1, EndsApart
  <2> QED BY <2>1, EndsApart
<1>3. PICK from \in 1..(k + 2) :
        /\ from = 1 \/ from - 2 \in ends
        /\ \A e \in ends : e <= k => e < from
        /\ raw = SubSeq(bytes, from, k)
  BY DEF LinesTo
<1>4. k >= 1 /\ k < from
  BY <1>1, <1>3, EndsBytes
<1>5. from = k + 2
  <2>1. from - 2 \in ends /\ from - 2 # k - 1
    BY <1>2, <1>3, <1>4
  <2> QED BY <1>1, <1>3, <1>4, <2>1
<1>6. raw = SubSeq(bytes, from, k + 1)
  BY <1>1, <1>3, <1>5
<1>7. \A e \in ends : e <= k + 1 => e <= k
  BY <1>1, <1>2
<1>8. Upto(ends, k + 1) = Upto(ends, k)
  <2>1. \A e \in ends : e <= k => e <= k + 1
    BY <1>1
  <2> QED BY <1>7, <2>1 DEF Upto
<1>9. from \in 1..(k + 1 + 1)
  BY <1>1, <1>3
<1> QED BY <1>2, <1>3, <1>6, <1>7, <1>8, <1>9 DEF LinesTo

(* Another byte is part of its line. *)
LEMMA LineGrows ==
  ASSUME NEW bytes \in Seq(Symbols), NEW ends \in SUBSET EndsOf(bytes),
         NEW k \in 0..(Len(bytes) - 1), k \notin ends, k + 1 \notin ends,
         NEW found \in Seq(Messages), NEW raw \in Seq(Symbols),
         LinesTo(k, bytes, ends, found, raw)
  PROVE  LinesTo(k + 1, bytes, ends, found, Append(raw, bytes[k + 1]))
<1>1. Len(bytes) \in Nat /\ k \in Nat /\ \A e \in ends : e \in Nat
  BY DEF EndsOf
<1>2. PICK from \in 1..(k + 1) :
        /\ from = 1 \/ from - 2 \in ends
        /\ \A e \in ends : e <= k => e < from
        /\ raw = SubSeq(bytes, from, k)
  BY DEF LinesTo
<1>3. Append(SubSeq(bytes, from, k), bytes[k + 1]) = SubSeq(bytes, from, k + 1)
  BY <1>1
<1>4. \A e \in ends : e <= k + 1 => e <= k
  BY <1>1
<1>5. Upto(ends, k + 1) = Upto(ends, k)
  <2>1. \A e \in ends : e <= k => e <= k + 1
    BY <1>1
  <2> QED BY <1>4, <2>1 DEF Upto
<1>6. from \in 1..(k + 1 + 1)
  BY <1>1, <1>2
<1> QED BY <1>2, <1>3, <1>4, <1>5, <1>6 DEF LinesTo

(* A chunk read behind the bytes old: what was right up to old is right up  *)
(* to the end of the chunk.                                                 *)
LEMMA ChunkLines ==
  ASSUME NEW old \in Seq(Symbols), NEW chunk \in Seq(Symbols), NEW kept \in Seq(Symbols),
         NEW found \in Seq(Messages), NEW ends \in SUBSET EndsOf(old \o chunk),
         Len(old) \notin ends,
         \A i \in 1..Len(chunk) : IsCRLF(chunk, i) <=> Len(old) + i \in ends,
         LinesTo(Len(old), old \o chunk, ends, found, kept)
  PROVE  LET cut == GetMessagesFromRawBytes(chunk, kept)
         IN  /\ cut \in Found
             /\ LinesTo(Len(old \o chunk), old \o chunk, ends, found \o cut.found, cut.raw)
<1> DEFINE n == Len(chunk)
           c == Len(old)
           bytes == old \o chunk
           loop == Loop(chunk, kept)
           S == {i \in Nat : i <= n =>
                               LinesTo(c + i, bytes, ends, found \o loop[i].found, loop[i].raw)}
<1>1. n \in Nat /\ c \in Nat /\ bytes \in Seq(Symbols) /\ Len(bytes) = c + n
  OBVIOUS
<1>2. \A i \in 1..n : bytes[c + i] = chunk[i]
  OBVIOUS
<1>3. /\ loop \in [0..n -> Found] /\ loop[0] = [found |-> <<>>, raw |-> kept]
      /\ \A i \in 1..n : loop[i] = ReadByte(loop[i - 1], chunk, i)
  BY LoopRounds
<1> HIDE DEF loop, bytes
<1>4. 0 \in S
  <2>1. c + 0 = c /\ found \o <<>> = found
    BY <1>1
  <2>2. loop[0].found = <<>> /\ loop[0].raw = kept
    BY <1>3
  <2>3. LinesTo(c, bytes, ends, found, kept)
    BY DEF bytes
  <2> HIDE DEF c
  <2> QED BY <2>1, <2>2, <2>3
<1>5. ASSUME NEW i \in Nat, i \in S PROVE i + 1 \in S
  <2> SUFFICES ASSUME i + 1 <= n
               PROVE  LinesTo(c + (i + 1), bytes, ends, found \o loop[i + 1].found,
                              loop[i + 1].raw)
    OBVIOUS
  <2> DEFINE acc == loop[i]
  <2>1. i + 1 \in 1..n /\ i \in 0..n /\ (i + 1) - 1 = i /\ c + (i + 1) = c + i + 1
        /\ c + i \in 0..(Len(bytes) - 1)
    BY <1>1
  <2>2. /\ acc \in Found /\ loop[i + 1] = ReadByte(acc, chunk, i + 1)
        /\ LinesTo(c + i, bytes, ends, found \o acc.found, acc.raw)
    BY <1>1, <1>3, <1>5, <2>1
  <2>3. found \o acc.found \in Seq(Messages) /\ acc.raw \in Seq(Symbols)
    BY <2>2 DEF Found
  <2>4. /\ ends \in SUBSET EndsOf(bytes)
        /\ IsCRLF(chunk, i + 1) <=> c + i + 1 \in ends
        /\ (i > 0 /\ IsCRLF(chunk, i)) <=> c + i \in ends
    <3>1. IsCRLF(chunk, i + 1) <=> c + (i + 1) \in ends
      BY <2>1
    <3>2. CASE i = 0
      <4>1. c + i = c
        BY <1>1, <3>2
      <4> QED BY <2>1, <3>1, <3>2, <4>1 DEF bytes
    <3>3. CASE i > 0
      <4>1. i \in 1..n
        BY <1>1, <2>1, <3>3
      <4> QED BY <2>1, <3>1, <3>3, <4>1 DEF bytes
    <3>4. i = 0 \/ i > 0
      OBVIOUS
    <3> QED BY <3>2, <3>3, <3>4, Zenon
  <2> HIDE DEF acc, c, n
  <2>5. CASE c + i + 1 \in ends
    <3>1. loop[i + 1] = [found |-> Append(acc.found, Identify(acc.raw)), raw |-> <<>>]
        <4>1. IsCRLF(chunk, i + 1) /\ ~(i + 1 > 1 /\ IsCRLF(chunk, (i + 1) - 1))
        <5>1. c + i \notin ends
          BY <1>1, <2>4, <2>5, EndsApart
        <5>2. i + 1 > 1 => i > 0
          OBVIOUS
        <5> QED BY <2>1, <2>4, <2>5, <5>1, <5>2
      <4> QED BY <2>2, <4>1 DEF ReadByte
    <3>2. found \o Append(acc.found, Identify(acc.raw))
            = Append(found \o acc.found, Identify(acc.raw))
      <4>1. acc.found \in Seq(Messages) /\ Identify(acc.raw) \in Messages
        BY <2>2, <2>3 DEF Found, Messages
      <4> QED BY SMTT(30), <4>1
    <3>3. LinesTo(c + i + 1, bytes, ends, Append(found \o acc.found, Identify(acc.raw)), <<>>)
      BY <1>1, <2>1, <2>2, <2>3, <2>4, <2>5, LineEnds
    <3>4. loop[i + 1].found = Append(acc.found, Identify(acc.raw)) /\ loop[i + 1].raw = <<>>
      BY <3>1
    <3> QED BY <2>1, <3>2, <3>3, <3>4, Zenon
  <2>6. CASE c + i \in ends
    <3>1. c + i + 1 \notin ends
      BY <1>1, <2>4, <2>6, EndsApart
    <3>2. loop[i + 1] = acc
      <4>1. i + 1 > 1 /\ IsCRLF(chunk, (i + 1) - 1) /\ ~IsCRLF(chunk, i + 1)
        BY <2>1, <2>4, <2>6, <3>1
      <4> QED BY <2>2, <4>1 DEF ReadByte
    <3> QED BY <1>1, <2>1, <2>2, <2>3, <2>4, <2>6, <3>2, LineEnded
  <2>7. CASE c + i + 1 \notin ends /\ c + i \notin ends
    <3>1. loop[i + 1].found = acc.found /\ loop[i + 1].raw = Append(acc.raw, chunk[i + 1])
      <4>1. ~(i + 1 > 1 /\ IsCRLF(chunk, (i + 1) - 1)) /\ ~IsCRLF(chunk, i + 1)
        BY <2>1, <2>4, <2>7
      <4> QED BY <2>2, <4>1 DEF ReadByte, Found
    <3>2. chunk[i + 1] = bytes[c + i + 1]
      BY <1>2, <2>1
    <3> QED BY <1>1, <2>1, <2>2, <2>3, <2>4, <2>7, <3>1, <3>2, LineGrows
  <2> QED BY <2>5, <2>6, <2>7
<1>6. n \in S
  <2> HIDE DEF S, n
  <2> QED BY <1>1, <1>4, <1>5, NatInd
<1>7. /\ loop[n] \in Found
      /\ LinesTo(Len(bytes), bytes, ends, found \o loop[n].found, loop[n].raw)
  <2>1. n \in 0..n /\ n <= n /\ c + n = Len(bytes)
    BY <1>1
  <2> HIDE DEF n, c
  <2> QED BY <1>3, <1>6, <2>1
<1> QED BY <1>7 DEF GetMessagesFromRawBytes, loop, bytes

--------------------------------------------------------------------------------
(* The inductive invariant. *)

Fates == {"new", "ponged", "bot", "ignored", "dropped"}
Batch == [from : Nat, to : Nat, next : Nat, taken : BOOLEAN]

TypeOK ==
  /\ link \in {"up", "lost"} /\ lines \in Nat /\ faults \in Nat
  /\ wire \in Seq(Symbols) /\ consumed \in Seq(Symbols) /\ cuts \in SUBSET Nat
  /\ last_read_incomplete_message \in Seq(Symbols)
  /\ messages \in Seq(Messages) /\ first \in 1..(Len(messages) + 1)
  /\ fate \in Seq(Fates) /\ Len(fate) = Len(messages)
  /\ batches \in SUBSET Batch

(* A read that ends behind a CR is marked: the next one, which may begin    *)
(* with the LF, does not see the two.                                       *)
CutsMarked ==
  /\ \A e \in cuts : e <= Len(consumed)
  /\ consumed # <<>> /\ consumed[Len(consumed)] = "CR" => Len(consumed) \in cuts

(* The batches are ranges of the messages, apart from one another, and hold *)
(* what is not handled yet.                                                 *)
InRange(b) == 1 <= b.from /\ b.from <= b.next /\ b.next <= b.to /\ b.to <= Len(fate)

BatchesApart ==
  /\ \A b \in batches : InRange(b)
  /\ \A b, d \in batches : b = d \/ b.to < d.from \/ d.to < b.from
  /\ \A i \in DOMAIN fate : fate[i] = "new" <=> \E b \in batches : i \in b.next..b.to

StreamInv == TypeOK /\ CutsMarked /\ MessagesAreLines
IInv == StreamInv /\ BatchesApart /\ LostOnlyBehindNameless

--------------------------------------------------------------------------------
(* The lines of the bytes read. *)

LEMMA CRLFAt ==
  ASSUME NEW bytes \in Seq(Symbols), NEW e \in 1..Len(bytes)
  PROVE  IsCRLF(bytes, e) <=> e < Len(bytes) /\ bytes[e] = "CR" /\ bytes[e + 1] = "LF"
<1>1. ASSUME e < Len(bytes)
      PROVE  SubSeq(bytes, e, e + 1) = CRLF <=> bytes[e] = "CR" /\ bytes[e + 1] = "LF"
  <2>1. /\ Len(SubSeq(bytes, e, e + 1)) = 2 /\ SubSeq(bytes, e, e + 1) \in Seq(Symbols)
        /\ SubSeq(bytes, e, e + 1)[1] = bytes[e] /\ SubSeq(bytes, e, e + 1)[2] = bytes[e + 1]
    <3>1. e \in Nat /\ 1 <= e /\ e + 1 <= Len(bytes) /\ Len(bytes) \in Nat
      BY <1>1
    <3>2. /\ SubSeq(bytes, e, e + 1) \in Seq(Symbols)
          /\ Len(SubSeq(bytes, e, e + 1)) = (e + 1) - e + 1
          /\ \A i \in 1..((e + 1) - e + 1) : SubSeq(bytes, e, e + 1)[i] = bytes[e + i - 1]
      BY <3>1
    <3>3. (e + 1) - e + 1 = 2 /\ e + 1 - 1 = e /\ e + 2 - 1 = e + 1
      BY <3>1
    <3> QED BY <3>2, <3>3
  <2>2. <<"CR", "LF">>[1] = "CR" /\ <<"CR", "LF">>[2] = "LF" /\ Len(<<"CR", "LF">>) = 2
        /\ <<"CR", "LF">> \in Seq(Symbols)
    BY DEF Symbols
  <2>3. ASSUME NEW s \in Seq(Symbols), NEW t \in Seq(Symbols), Len(s) = 2, Len(t) = 2,
               s[1] = t[1], s[2] = t[2]
        PROVE  s = t
    BY <2>3
  <2> QED BY <2>1, <2>2, <2>3 DEF CRLF
<1> QED BY <1>1 DEF IsCRLF

(* All that was read before a chunk ends as it did before it. *)
LEMMA LinesBefore ==
  ASSUME NEW old \in Seq(Symbols), NEW chunk \in Seq(Symbols), NEW found \in Seq(Messages),
         NEW rest \in Seq(Symbols), NEW ends \in SUBSET EndsOf(old),
         NEW more \in SUBSET EndsOf(old \o chunk), ends \subseteq more,
         Len(old) \notin more, \A e \in more : e < Len(old) => e \in ends,
         AreLines(old, ends, found, rest)
  PROVE  LinesTo(Len(old), old \o chunk, more, found, rest)
<1> DEFINE c == Len(old)
           bytes == old \o chunk
<1>1. /\ c \in Nat /\ bytes \in Seq(Symbols) /\ Len(bytes) = c + Len(chunk)
      /\ \A e \in ends : e \in 1..c
      /\ \A e \in more : e \in Nat
  BY DEF EndsOf
<1>2. \A e \in more : e <= c <=> e \in ends
  <2>1. ASSUME NEW e \in more, e <= c PROVE e \in ends
    BY <1>1, <2>1
  <2> QED BY <1>1, <2>1
<1>3. \A from \in Nat, to \in Nat :
        1 <= from /\ to <= c => SubSeq(bytes, from, to) = SubSeq(old, from, to)
  OBVIOUS
<1> HIDE DEF c, bytes
<1>4. Upto(more, c) = ends
  BY <1>2 DEF Upto
<1>5. \A end \in ends : Upto(more, end) = Upto(ends, end)
  <2> SUFFICES ASSUME NEW end \in ends PROVE Upto(more, end) = Upto(ends, end)
    OBVIOUS
  <2>1. \A e \in more : e <= end => e \in ends
    BY <1>1, <1>2
  <2> QED BY <2>1 DEF Upto
<1>6. ASSUME NEW end \in more, end <= c
      PROVE  \E from \in 1..end :
               /\ IsLine(more, from, end)
               /\ found[Cardinality(Upto(more, end))] = Identify(SubSeq(bytes, from, end - 1))
  <2>1. end \in ends
    BY <1>2, <1>6
  <2>2. PICK from \in 1..end :
          /\ IsLine(ends, from, end)
          /\ found[Cardinality(Upto(ends, end))] = Identify(SubSeq(old, from, end - 1))
    BY <2>1 DEF AreLines
  <2>3. SubSeq(bytes, from, end - 1) = SubSeq(old, from, end - 1)
    <3>1. from \in Nat /\ end - 1 \in Nat /\ 1 <= from /\ end - 1 <= c
      BY <1>1, <2>1
    <3> QED BY <1>3, <3>1
  <2>4. IsLine(more, from, end)
    <3>1. \A e \in more : e < from \/ e >= end
      <4> SUFFICES ASSUME NEW e \in more PROVE e < from \/ e >= end
        OBVIOUS
      <4>1. CASE e \in ends
        BY <2>2, <4>1 DEF IsLine
      <4>2. CASE e \notin ends
        BY <1>1, <1>2, <2>1, <4>2
      <4> QED BY <4>1, <4>2
    <3> QED BY <2>2, <3>1 DEF IsLine
  <2> QED BY <1>5, <2>1, <2>2, <2>3, <2>4
<1>7. PICK from \in 1..(c + 1) :
        /\ IsLine(ends, from, c + 1)
        /\ rest = SubSeq(old, from, c)
  BY DEF AreLines, c
<1>8. /\ from = 1 \/ from - 2 \in more
      /\ \A e \in more : e <= c => e < from
      /\ rest = SubSeq(bytes, from, c)
  <2>1. SubSeq(bytes, from, c) = SubSeq(old, from, c)
    <3>1. from \in Nat /\ c \in Nat /\ 1 <= from /\ c <= c
      BY <1>1
    <3> QED BY <1>3, <3>1
  <2>2. ASSUME NEW e \in more, e <= c PROVE e < from
    <3>1. e < from \/ e >= c + 1
      BY <1>2, <1>7, <2>2 DEF IsLine
    <3> QED BY <1>1, <2>2, <3>1
  <2> QED BY <1>7, <2>1, <2>2 DEF IsLine
<1>9. Len(found) = Cardinality(Upto(more, c)) /\ c \notin more
  BY <1>4 DEF AreLines, c
<1> QED BY <1>6, <1>7, <1>8, <1>9 DEF LinesTo, c, bytes

(* When the last byte ends no line, the lines up to it are all. *)
LEMMA LinesAll ==
  ASSUME NEW bytes \in Seq(Symbols), NEW ends \in SUBSET EndsOf(bytes),
         NEW found, NEW rest, LinesTo(Len(bytes), bytes, ends, found, rest)
  PROVE  AreLines(bytes, ends, found, rest)
<1>1. /\ Len(bytes) \in Nat
      /\ \A e \in ends : e \in Nat /\ 1 <= e /\ e < Len(bytes) /\ e <= Len(bytes)
  BY EndsBytes
<1>2. Upto(ends, Len(bytes)) = ends /\ Len(bytes) \notin ends
  BY <1>1 DEF Upto
<1>3. PICK from \in 1..(Len(bytes) + 1) :
        /\ from = 1 \/ from - 2 \in ends
        /\ \A e \in ends : e <= Len(bytes) => e < from
        /\ rest = SubSeq(bytes, from, Len(bytes))
  BY <1>2 DEF LinesTo
<1>4. IsLine(ends, from, Len(bytes) + 1)
  BY <1>1, <1>3 DEF IsLine
<1> QED BY <1>1, <1>2, <1>3, <1>4 DEF LinesTo, AreLines

--------------------------------------------------------------------------------
(* What a read does to the lines. *)

(* A part that ends with the sequence goes on in what is appended. *)
LEMMA PartGoesOn ==
  ASSUME NEW S, NEW s \in Seq(S), NEW t \in Seq(S), NEW k \in 1..(Len(s) + 1)
  PROVE  SubSeq(s \o t, k, Len(s \o t)) = SubSeq(s, k, Len(s)) \o t
<1> DEFINE u == s \o t
           part == SubSeq(u, k, Len(u))
           start == SubSeq(s, k, Len(s))
<1>1. /\ Len(s) \in Nat /\ Len(t) \in Nat /\ k \in Nat /\ 1 <= k /\ k <= Len(s) + 1
      /\ u \in Seq(S) /\ Len(u) = Len(s) + Len(t)
      /\ \A i \in 1..Len(u) : u[i] = IF i <= Len(s) THEN s[i] ELSE t[i - Len(s)]
  BY ConcatProperties
<1> HIDE DEF u
<1>2. /\ part \in Seq(S) /\ Len(part) = Len(u) - k + 1
      /\ \A i \in 1..(Len(u) - k + 1) : part[i] = u[k + i - 1]
  BY <1>1
<1>3. /\ start \in Seq(S) /\ Len(start) = Len(s) - k + 1
      /\ \A i \in 1..(Len(s) - k + 1) : start[i] = s[k + i - 1]
  BY <1>1
<1> HIDE DEF part, start
<1>4. /\ start \o t \in Seq(S) /\ Len(start \o t) = Len(start) + Len(t)
      /\ \A i \in 1..(Len(start) + Len(t)) :
           (start \o t)[i] = IF i <= Len(start) THEN start[i] ELSE t[i - Len(start)]
  BY <1>3, ConcatProperties
<1>5. Len(part) = Len(start \o t)
  BY <1>1, <1>2, <1>3, <1>4
<1>6. ASSUME NEW i \in 1..Len(part) PROVE part[i] = (start \o t)[i]
  <2>1. /\ i \in 1..(Len(u) - k + 1) /\ k + i - 1 \in 1..Len(u)
        /\ i \in 1..(Len(start) + Len(t))
    BY <1>1, <1>2, <1>3
  <2>2. part[i] = u[k + i - 1]
    BY <1>2, <2>1
  <2>3. CASE i <= Len(start)
    <3>1. k + i - 1 <= Len(s) /\ i \in 1..(Len(s) - k + 1)
      BY <1>1, <1>3, <2>3
    <3> QED BY <1>1, <1>3, <1>4, <2>1, <2>2, <2>3, <3>1
  <2>4. CASE ~(i <= Len(start))
    <3>1. ~(k + i - 1 <= Len(s)) /\ (k + i - 1) - Len(s) = i - Len(start)
      BY <1>1, <1>3, <2>4
    <3>2. u[k + i - 1] = t[(k + i - 1) - Len(s)]
      <4>1. \A j \in 1..Len(u) : ~(j <= Len(s)) => u[j] = t[j - Len(s)]
        BY <1>1
      <4> QED BY <2>1, <3>1, <4>1, Zenon
    <3>3. (start \o t)[i] = t[i - Len(start)]
      BY <1>4, <2>1, <2>4
    <3> QED BY <2>2, <3>1, <3>2, <3>3
  <2> QED BY <2>3, <2>4
<1>7. part = start \o t
  BY <1>2, <1>4, <1>5, <1>6, SeqEqual
<1> QED BY <1>7 DEF part, start, u

LEMMA PartsJoined ==
  ASSUME NEW S, NEW s \in Seq(S), NEW t \in Seq(S)
  PROVE  /\ \A i \in 1..Len(s) : (s \o t)[i] = s[i]
         /\ \A i \in 1..Len(t) : (s \o t)[Len(s) + i] = t[i]
OBVIOUS

LEMMA ChunkBytes ==
  ASSUME TypeOK, NEW n \in 1..Len(wire), Chunk(n)
  PROVE  LET chunk == SubSeq(wire, 1, n)
         IN  /\ n \in Nat /\ Len(consumed) \in Nat
             /\ chunk \in Seq(Symbols) /\ Len(chunk) = n /\ \A i \in 1..n : chunk[i] = wire[i]
             /\ consumed' = consumed \o chunk /\ consumed' \in Seq(Symbols)
             /\ Len(consumed') = Len(consumed) + n
             /\ \A e \in 1..Len(consumed) : consumed'[e] = consumed[e]
             /\ \A i \in 1..n : consumed'[Len(consumed) + i] = wire[i]
<1> DEFINE chunk == SubSeq(wire, 1, n)
<1>1. wire \in Seq(Symbols) /\ consumed \in Seq(Symbols) /\ n \in Nat /\ Len(consumed) \in Nat
  BY DEF TypeOK
<1>2. chunk \in Seq(Symbols) /\ Len(chunk) = n /\ \A i \in 1..n : chunk[i] = wire[i]
  BY <1>1
<1>3. consumed' = consumed \o chunk
  BY DEF Chunk
<1> HIDE DEF chunk
<1>4. /\ consumed' \in Seq(Symbols) /\ Len(consumed') = Len(consumed) + n
      /\ \A e \in 1..Len(consumed) : consumed'[e] = consumed[e]
      /\ \A i \in 1..n : consumed'[Len(consumed) + i] = chunk[i]
  <2>1. consumed \o chunk \in Seq(Symbols) /\ Len(consumed \o chunk) = Len(consumed) + n
    BY <1>1, <1>2
  <2> QED BY <1>1, <1>2, <1>3, <2>1, PartsJoined
<1>5. \A i \in 1..n : consumed'[Len(consumed) + i] = wire[i]
  BY <1>2, <1>4
<1> QED BY <1>1, <1>2, <1>3, <1>4, <1>5 DEF chunk

LEMMA EndsOfBytes ==
  ASSUME consumed \in Seq(Symbols)
  PROVE  /\ Ends \in SUBSET EndsOf(consumed)
         /\ \A e \in 1..Len(consumed) :
              e \in Ends <=> /\ e < Len(consumed) /\ consumed[e] = "CR"
                             /\ consumed[e + 1] = "LF" /\ e \notin cuts
BY CRLFAt DEF Ends, EndsOf

LEMMA EndsOfBytesNext ==
  ASSUME consumed' \in Seq(Symbols)
  PROVE  /\ Ends' \in SUBSET EndsOf(consumed')
         /\ \A e \in 1..Len(consumed') :
              e \in Ends' <=> /\ e < Len(consumed') /\ consumed'[e] = "CR"
                              /\ consumed'[e + 1] = "LF" /\ e \notin cuts'
BY CRLFAt DEF Ends, EndsOf

LEMMA ChunkEnds ==
  ASSUME TypeOK, CutsMarked, NEW n \in 1..Len(wire), Chunk(n)
  PROVE  /\ Ends \subseteq Ends' /\ Len(consumed) \notin Ends'
         /\ \A e \in Ends' : e < Len(consumed) => e \in Ends
         /\ \A i \in 1..n : IsCRLF(SubSeq(wire, 1, n), i) <=> Len(consumed) + i \in Ends'
         /\ CutsMarked' /\ cuts' \in SUBSET Nat
<1> DEFINE c == Len(consumed)
           chunk == SubSeq(wire, 1, n)
<1>1. /\ n \in Nat /\ n >= 1 /\ c \in Nat /\ chunk \in Seq(Symbols) /\ Len(chunk) = n
      /\ \A i \in 1..n : chunk[i] = wire[i]
      /\ consumed' \in Seq(Symbols) /\ Len(consumed') = c + n
      /\ \A e \in 1..c : consumed'[e] = consumed[e]
      /\ \A i \in 1..n : consumed'[c + i] = wire[i]
  BY ChunkBytes
<1>2. /\ \A e \in cuts : e \in Nat /\ e <= c
      /\ c # 0 /\ consumed[c] = "CR" => c \in cuts
  <2>1. consumed \in Seq(Symbols) /\ cuts \in SUBSET Nat
    BY DEF TypeOK
  <2>2. c # 0 => consumed # <<>>
    BY <2>1
  <2> QED BY <2>1, <2>2 DEF CutsMarked
<1>3. /\ \A e \in cuts' : e \in cuts \/ (e = c + n /\ wire[n] = "CR")
      /\ \A e \in cuts : e \in cuts'
      /\ wire[n] = "CR" => c + n \in cuts'
  BY DEF Chunk
<1>4. \A e \in 1..c : e \in Ends <=> /\ e < c /\ consumed[e] = "CR"
                                     /\ consumed[e + 1] = "LF" /\ e \notin cuts
  BY EndsOfBytes DEF TypeOK
<1>5. /\ \A e \in Ends : e \in 1..c
      /\ \A e \in Ends' : e \in 1..(c + n)
  BY <1>1 DEF Ends
<1>6. \A e \in 1..(c + n) : e \in Ends' <=> /\ e < c + n /\ consumed'[e] = "CR"
                                            /\ consumed'[e + 1] = "LF" /\ e \notin cuts'
  BY <1>1, EndsOfBytesNext
<1>7. \A i \in 1..n : IsCRLF(chunk, i) <=> i < n /\ chunk[i] = "CR" /\ chunk[i + 1] = "LF"
  <2> HIDE DEF c, chunk
  <2> QED BY <1>1, CRLFAt
<1> HIDE DEF c, chunk
<1>8. \A e \in 1..c : e < c => (e \in Ends' <=> e \in Ends)
  <2> SUFFICES ASSUME NEW e \in 1..c, e < c PROVE e \in Ends' <=> e \in Ends
    OBVIOUS
  <2>1. e + 1 \in 1..c /\ e \in 1..(c + n) /\ e # c + n /\ e < c + n
    BY <1>1
  <2>2. consumed'[e] = consumed[e] /\ consumed'[e + 1] = consumed[e + 1]
    BY <1>1, <2>1
  <2>3. e \in cuts' <=> e \in cuts
    BY <1>3, <2>1
  <2> QED BY <1>4, <1>6, <2>1, <2>2, <2>3
<1>9. c \notin Ends'
  <2> SUFFICES ASSUME c \in Ends' PROVE FALSE
    OBVIOUS
  <2>1. c \in 1..c /\ c # 0
    BY <1>1, <1>5
  <2>2. consumed[c] = "CR" /\ c \notin cuts'
    BY <1>1, <1>5, <1>6, <2>1
  <2> QED BY <1>2, <1>3, <2>1, <2>2
<1>10. ASSUME NEW i \in 1..n PROVE IsCRLF(chunk, i) <=> c + i \in Ends'
  <2>1. c + i \in 1..(c + n) /\ (i < n <=> c + i < c + n) /\ c + i + 1 = c + (i + 1)
        /\ c + i \notin cuts
    BY <1>1, <1>2
  <2>2. i < n => c + i \notin cuts'
    BY <1>1, <1>3, <2>1
  <2>3. i < n => i + 1 \in 1..n
    BY <1>1
  <2>4. i < n => /\ consumed'[c + i] = chunk[i]
                 /\ consumed'[c + i + 1] = chunk[i + 1]
    <3> SUFFICES ASSUME i < n
                 PROVE  consumed'[c + i] = chunk[i] /\ consumed'[c + i + 1] = chunk[i + 1]
      OBVIOUS
    <3>1. consumed'[c + (i + 1)] = wire[i + 1] /\ chunk[i + 1] = wire[i + 1]
      BY <1>1, <2>3
    <3> QED BY <1>1, <2>1, <3>1
  <2> QED BY <1>6, <1>7, <2>1, <2>2, <2>4
<1>11. \A e \in Ends : e < c
  BY <1>4, <1>5
<1>12. CutsMarked' /\ cuts' \in SUBSET Nat
  <2>1. \A e \in cuts' : e \in Nat /\ e <= c + n
    BY <1>1, <1>2, <1>3
  <2>2. consumed'[c + n] = wire[n]
    BY <1>1
  <2> QED BY <1>1, <1>3, <2>1, <2>2 DEF CutsMarked
<1> QED BY <1>5, <1>8, <1>9, <1>10, <1>11, <1>12 DEF c, chunk

LEMMA ChunkStream ==
  ASSUME StreamInv, NEW n \in 1..Len(wire), Chunk(n), first' = first
  PROVE  LET cut == GetMessagesFromRawBytes(SubSeq(wire, 1, n), last_read_incomplete_message)
         IN  /\ cut \in Found /\ CutsMarked' /\ MessagesAreLines'
             /\ consumed' \in Seq(Symbols) /\ cuts' \in SUBSET Nat
<1> DEFINE chunk == SubSeq(wire, 1, n)
           kept == last_read_incomplete_message
           cut == GetMessagesFromRawBytes(chunk, kept)
           found == SubSeq(messages, first, Len(messages))
<1>1. /\ consumed \in Seq(Symbols) /\ chunk \in Seq(Symbols) /\ Len(chunk) = n
      /\ consumed' = consumed \o chunk /\ consumed' \in Seq(Symbols)
  BY ChunkBytes DEF StreamInv, TypeOK
<1>2. kept \in Seq(Symbols) /\ found \in Seq(Messages)
  BY DEF StreamInv, TypeOK
<1>3. /\ Ends \subseteq Ends' /\ Len(consumed) \notin Ends'
      /\ \A e \in Ends' : e < Len(consumed) => e \in Ends
      /\ \A i \in 1..Len(chunk) : IsCRLF(chunk, i) <=> Len(consumed) + i \in Ends'
      /\ CutsMarked' /\ cuts' \in SUBSET Nat
  BY <1>1, ChunkEnds DEF StreamInv
<1>4. Ends \in SUBSET EndsOf(consumed) /\ Ends' \in SUBSET EndsOf(consumed \o chunk)
  BY <1>1, EndsOfBytes, EndsOfBytesNext
<1>5. AreLines(consumed, Ends, found, kept)
  BY DEF StreamInv, MessagesAreLines
<1> HIDE DEF chunk, kept, found
<1>6. LinesTo(Len(consumed), consumed \o chunk, Ends', found, kept)
  BY <1>1, <1>2, <1>3, <1>4, <1>5, LinesBefore
<1>7. /\ cut \in Found
      /\ LinesTo(Len(consumed \o chunk), consumed \o chunk, Ends', found \o cut.found, cut.raw)
  BY <1>1, <1>2, <1>3, <1>4, <1>6, ChunkLines
<1> HIDE DEF cut
<1>8. AreLines(consumed', Ends', found \o cut.found, cut.raw)
  BY <1>1, <1>4, <1>7, LinesAll
<1>9. messages' = messages \o cut.found /\ last_read_incomplete_message' = cut.raw
  BY DEF Chunk, cut, chunk, kept
<1>10. SubSeq(messages', first', Len(messages')) = found \o cut.found
  <2>1. /\ messages \in Seq(Messages) /\ first \in 1..(Len(messages) + 1)
        /\ cut.found \in Seq(Messages)
    BY <1>7 DEF StreamInv, TypeOK, Found
  <2>2. SubSeq(messages \o cut.found, first, Len(messages \o cut.found)) = found \o cut.found
    BY <2>1, PartGoesOn DEF found
  <2> QED BY <1>9, <2>2
<1>11. MessagesAreLines'
  BY <1>8, <1>9, <1>10 DEF MessagesAreLines
<1> QED BY <1>1, <1>3, <1>7, <1>11 DEF cut, chunk, kept

--------------------------------------------------------------------------------
(* What becomes of the messages. *)

(* Message i has its answer, or is dropped behind a nameless one. *)
Settled(i) ==
  \/ fate[i] = CASE messages[i].type = "PING" -> "ponged"
                 [] messages[i].type = "PRIVMSG" -> "bot"
                 [] OTHER -> "ignored"
  \/ /\ fate[i] = "dropped"
     /\ \E j \in 1..i : /\ messages[j].type = "PRIVMSG" /\ messages[j].nick = <<>>
                        /\ \A k \in j..i : fate[k] = "dropped"

LEMMA LostSettled ==
  LostOnlyBehindNameless <=> \A i \in DOMAIN fate : fate[i] # "new" => Settled(i)
BY DEF LostOnlyBehindNameless, Settled

LEMMA LostSettledNext ==
  LostOnlyBehindNameless' <=> \A i \in DOMAIN fate' : fate'[i] # "new" => Settled(i)'
BY DEF LostOnlyBehindNameless, Settled

(* A batch is taken: the same one, in other hands. *)
LEMMA TakeApart ==
  ASSUME TypeOK, BatchesApart, NEW b \in batches, Take(b)
  PROVE  batches' \in SUBSET Batch /\ BatchesApart'
<1> DEFINE taken == [b EXCEPT !.taken = TRUE]
<1>1. b \in Batch /\ \A d \in batches : d \in Batch
  BY DEF TypeOK
<1>2. /\ taken \in Batch
      /\ taken.from = b.from /\ taken.to = b.to /\ taken.next = b.next
  BY <1>1 DEF Batch
<1> HIDE DEF taken
<1>3. batches' = (batches \ {b}) \cup {taken} /\ fate' = fate
  BY DEF Take, taken
<1>4. \A d \in batches' : InRange(d)'
  BY <1>2, <1>3 DEF BatchesApart, InRange
<1>5. \A d, e \in batches' : d = e \/ d.to < e.from \/ e.to < d.from
  BY <1>2, <1>3 DEF BatchesApart
<1>6. \A i : (\E d \in batches' : i \in d.next..d.to) <=> \E d \in batches : i \in d.next..d.to
  BY <1>2, <1>3
<1> QED BY <1>1, <1>2, <1>3, <1>4, <1>5, <1>6 DEF BatchesApart

(* What is settled stays so while settled messages keep their fates. *)
LEMMA SettledStays ==
  ASSUME NEW i \in Nat, i >= 1, Settled(i), fate[i] # "new",
         \A k \in 1..i : messages'[k] = messages[k] /\ (fate[k] # "new" => fate'[k] = fate[k])
  PROVE  Settled(i)'
<1>1. messages'[i] = messages[i] /\ fate'[i] = fate[i]
  <2>1. i \in 1..i
    OBVIOUS
  <2> QED BY <2>1
<1>2. CASE fate[i] = CASE messages[i].type = "PING" -> "ponged"
                       [] messages[i].type = "PRIVMSG" -> "bot"
                       [] OTHER -> "ignored"
  BY <1>1, <1>2 DEF Settled
<1>3. ASSUME NEW j \in 1..i, fate[i] = "dropped",
             messages[j].type = "PRIVMSG", messages[j].nick = <<>>,
             \A k \in j..i : fate[k] = "dropped"
      PROVE  Settled(i)'
  <2>1. \A k \in j..i : fate'[k] = "dropped"
    <3> SUFFICES ASSUME NEW k \in j..i PROVE fate'[k] = "dropped"
      OBVIOUS
    <3>1. k \in 1..i /\ fate[k] # "new"
      BY <1>3
    <3> QED BY <1>3, <3>1
  <2> QED BY <1>1, <1>3, <2>1 DEF Settled
<1> QED BY <1>2, <1>3 DEF Settled

(* A message that is handled was new. *)
LEMMA NextIsNew ==
  ASSUME TypeOK, BatchesApart, NEW b \in batches
  PROVE  /\ b.from \in Nat /\ b.to \in Nat /\ b.next \in Nat /\ InRange(b)
         /\ Len(fate) \in Nat /\ DOMAIN fate = 1..Len(fate)
         /\ \A i \in b.next..b.to : i \in DOMAIN fate /\ fate[i] = "new"
<1>1. /\ b \in Batch /\ InRange(b)
      /\ fate \in Seq(Fates) /\ Len(fate) \in Nat /\ DOMAIN fate = 1..Len(fate)
  BY DEF TypeOK, BatchesApart
<1>2. b.from \in Nat /\ b.to \in Nat /\ b.next \in Nat
  BY <1>1 DEF Batch
<1>3. \A i \in b.next..b.to : i \in 1..Len(fate)
  BY <1>1, <1>2 DEF InRange
<1> QED BY <1>1, <1>2, <1>3 DEF BatchesApart

(* The rest of a batch stays apart from the others. *)
LEMMA RestApart ==
  ASSUME TypeOK, BatchesApart, NEW b \in batches, NEW f \in Fates \ {"new"}, Rest(b, f)
  PROVE  /\ batches' \in SUBSET Batch /\ BatchesApart'
         /\ fate' \in Seq(Fates) /\ Len(fate') = Len(fate)
<1> DEFINE rest == [b EXCEPT !.next = @ + 1]
<1>1. /\ b.from \in Nat /\ b.to \in Nat /\ b.next \in Nat /\ InRange(b)
      /\ Len(fate) \in Nat /\ DOMAIN fate = 1..Len(fate)
      /\ \A i \in b.next..b.to : i \in DOMAIN fate /\ fate[i] = "new"
  BY NextIsNew
<1>2. /\ b \in Batch /\ rest \in Batch
      /\ rest.from = b.from /\ rest.to = b.to /\ rest.next = b.next + 1
  <2>1. b \in Batch
    BY DEF TypeOK
  <2>2. b.next + 1 \in Nat
    BY <1>1
  <2> QED BY <2>1, <2>2 DEF Batch
<1> HIDE DEF rest
<1>3. /\ fate' = [fate EXCEPT ![b.next] = f]
      /\ batches' = (batches \ {b}) \cup (IF b.next = b.to THEN {} ELSE {rest})
  BY DEF Rest, rest
<1>4. /\ fate' \in Seq(Fates) /\ Len(fate') = Len(fate) /\ DOMAIN fate' = DOMAIN fate
      /\ b.next \in DOMAIN fate /\ fate'[b.next] = f
      /\ \A i \in DOMAIN fate : i # b.next => fate'[i] = fate[i]
  <2>1. b.next \in 1..Len(fate)
    BY <1>1 DEF InRange
  <2> QED BY <1>1, <1>3, <2>1 DEF TypeOK
<1>5. \A d \in batches' : (d \in batches /\ d # b) \/ (d = rest /\ b.next # b.to)
  BY <1>3
<1>6. batches' \in SUBSET Batch
  BY <1>2, <1>5 DEF TypeOK
<1>7. \A d \in batches' : InRange(d)'
  <2> SUFFICES ASSUME NEW d \in batches' PROVE InRange(d)'
    OBVIOUS
  <2>1. CASE d \in batches
    BY <1>4, <2>1 DEF BatchesApart, InRange
  <2>2. CASE d = rest /\ b.next # b.to
    BY <1>1, <1>2, <1>4, <2>2 DEF InRange
  <2> QED BY <1>5, <2>1, <2>2
<1>8. \A d, e \in batches' : d = e \/ d.to < e.from \/ e.to < d.from
  <2>1. \A d \in batches : d = b \/ d.to < b.from \/ b.to < d.from
    BY DEF BatchesApart
  <2> QED BY <1>2, <1>5, <2>1 DEF BatchesApart
<1>9. ASSUME NEW i \in DOMAIN fate'
      PROVE  fate'[i] = "new" <=> \E d \in batches' : i \in d.next..d.to
  <2>1. i \in Nat /\ i \in DOMAIN fate
    BY <1>1, <1>4
  <2>2. \A d \in batches : /\ d.from \in Nat /\ d.to \in Nat /\ d.next \in Nat
                           /\ d.from <= d.next /\ d.next <= d.to
    BY DEF TypeOK, Batch, BatchesApart, InRange
  <2>3. \A d \in batches : d = b \/ d.to < b.from \/ b.to < d.from
    BY DEF BatchesApart
  <2>4. fate[i] = "new" <=> \E d \in batches : i \in d.next..d.to
    BY <2>1 DEF BatchesApart
  <2>5. CASE i = b.next
    <3>1. fate'[i] # "new"
      BY <1>4, <2>5
    <3>2. ASSUME NEW d \in batches', i \in d.next..d.to PROVE FALSE
      <4>1. CASE d \in batches /\ d # b
        BY <1>1, <2>2, <2>3, <2>5, <3>2, <4>1 DEF InRange
      <4>2. CASE d = rest
        BY <1>1, <1>2, <2>5, <3>2, <4>2
      <4> QED BY <1>5, <4>1, <4>2
    <3> QED BY <3>1, <3>2
  <2>6. CASE i # b.next
    <3>1. fate'[i] = fate[i]
      BY <1>4, <2>1, <2>6
    <3>2. ASSUME NEW d \in batches, i \in d.next..d.to
          PROVE  \E e \in batches' : i \in e.next..e.to
      <4>1. CASE d # b
        BY <1>3, <3>2, <4>1
      <4>2. CASE d = b
        <5>1. b.next # b.to /\ rest \in batches' /\ i \in rest.next..rest.to
          BY <1>1, <1>2, <1>3, <2>1, <2>6, <3>2, <4>2
        <5> QED BY <5>1
      <4> QED BY <4>1, <4>2
    <3>3. ASSUME NEW d \in batches', i \in d.next..d.to
          PROVE  \E e \in batches : i \in e.next..e.to
      <4>1. CASE d \in batches
        BY <3>3, <4>1
      <4>2. CASE d = rest
        <5>1. i \in b.next..b.to
          BY <1>1, <1>2, <2>1, <3>3, <4>2
        <5> QED BY <5>1
      <4> QED BY <1>5, <4>1, <4>2
    <3> QED BY <2>4, <3>1, <3>2, <3>3
  <2> QED BY <2>5, <2>6
<1> QED BY <1>4, <1>6, <1>7, <1>8, <1>9 DEF BatchesApart

(* The rest of a batch is dropped: it is done with. *)
LEMMA DroppedApart ==
  ASSUME TypeOK, BatchesApart, NEW b \in batches, GetNickThrows(b)
  PROVE  /\ batches' \in SUBSET Batch /\ BatchesApart'
         /\ fate' \in Seq(Fates) /\ Len(fate') = Len(fate)
<1>1. /\ b.from \in Nat /\ b.to \in Nat /\ b.next \in Nat /\ InRange(b)
      /\ Len(fate) \in Nat /\ DOMAIN fate = 1..Len(fate)
      /\ \A i \in b.next..b.to : i \in DOMAIN fate /\ fate[i] = "new"
  BY NextIsNew
<1>2. /\ fate' = [i \in DOMAIN fate |-> IF i \in b.next..b.to THEN "dropped" ELSE fate[i]]
      /\ batches' = batches \ {b}
  BY DEF GetNickThrows
<1>3. /\ fate' \in Seq(Fates) /\ Len(fate') = Len(fate) /\ DOMAIN fate' = DOMAIN fate
  <2>1. \A i \in 1..Len(fate) : fate[i] \in Fates
    BY DEF TypeOK
  <2>2. fate' \in [1..Len(fate) -> Fates]
    BY <1>1, <1>2, <2>1 DEF Fates
  <2> QED BY <1>1, <2>2
<1>4. \A d \in batches : /\ d.from \in Nat /\ d.to \in Nat /\ d.next \in Nat
                         /\ d.from <= d.next /\ d.next <= d.to
                         /\ d = b \/ d.to < b.from \/ b.to < d.from
  BY DEF TypeOK, Batch, BatchesApart, InRange
<1>5. ASSUME NEW i \in DOMAIN fate'
      PROVE  fate'[i] = "new" <=> \E d \in batches' : i \in d.next..d.to
  <2>1. i \in Nat /\ i \in DOMAIN fate
    BY <1>1, <1>3
  <2>2. fate[i] = "new" <=> \E d \in batches : i \in d.next..d.to
    BY <2>1 DEF BatchesApart
  <2>3. CASE i \in b.next..b.to
    <3>1. fate'[i] # "new"
      BY <1>2, <2>1, <2>3
    <3>2. \A d \in batches' : i \notin d.next..d.to
      BY <1>1, <1>2, <1>4, <2>1, <2>3 DEF InRange
    <3> QED BY <3>1, <3>2
  <2>4. CASE i \notin b.next..b.to
    <3>1. fate'[i] = fate[i]
      BY <1>2, <2>1, <2>4
    <3> QED BY <1>2, <2>2, <2>4, <3>1
  <2> QED BY <2>3, <2>4
<1>6. batches' \in SUBSET Batch /\ \A d \in batches' : InRange(d)'
  BY <1>2, <1>3 DEF TypeOK, BatchesApart, InRange
<1>7. \A d, e \in batches' : d = e \/ d.to < e.from \/ e.to < d.from
  BY <1>2 DEF BatchesApart
<1> QED BY <1>3, <1>5, <1>6, <1>7 DEF BatchesApart

(* The messages of a chunk are a batch behind all others. *)
LEMMA ChunkApart ==
  ASSUME TypeOK, BatchesApart, LostOnlyBehindNameless, NEW n, Chunk(n),
         GetMessagesFromRawBytes(SubSeq(wire, 1, n), last_read_incomplete_message) \in Found
  PROVE  /\ messages' \in Seq(Messages) /\ Len(messages) <= Len(messages')
         /\ last_read_incomplete_message' \in Seq(Symbols)
         /\ fate' \in Seq(Fates) /\ Len(fate') = Len(messages')
         /\ batches' \in SUBSET Batch /\ BatchesApart' /\ LostOnlyBehindNameless'
<1> DEFINE cut == GetMessagesFromRawBytes(SubSeq(wire, 1, n), last_read_incomplete_message)
           m == Len(cut.found)
           old == Len(messages)
           news == [i \in 1..m |-> "new"]
           posted == [from |-> old + 1, to |-> old + m, next |-> old + 1, taken |-> FALSE]
<1>1. /\ cut.found \in Seq(Messages) /\ cut.raw \in Seq(Symbols) /\ m \in Nat
      /\ cut.found = <<>> <=> m = 0
  BY DEF Found
<1>2. /\ messages \in Seq(Messages) /\ old \in Nat /\ fate \in Seq(Fates) /\ Len(fate) = old
      /\ DOMAIN fate = 1..old /\ news \in Seq(Fates) /\ Len(news) = m
      /\ \A i \in 1..m : news[i] = "new"
  BY <1>1 DEF TypeOK, Fates
<1>3. /\ last_read_incomplete_message' = cut.raw
      /\ messages' = messages \o cut.found /\ fate' = fate \o news
      /\ batches' = IF m = 0 THEN batches ELSE batches \cup {posted}
  BY <1>1 DEF Chunk
<1> HIDE DEF cut, news
<1>4. /\ messages' \in Seq(Messages) /\ Len(messages') = old + m
      /\ fate' \in Seq(Fates) /\ Len(fate') = old + m /\ DOMAIN fate' = 1..(old + m)
      /\ \A i \in 1..old : messages'[i] = messages[i] /\ fate'[i] = fate[i]
      /\ \A i \in 1..m : fate'[old + i] = "new"
  <2>1. /\ messages \o cut.found \in Seq(Messages) /\ Len(messages \o cut.found) = old + m
        /\ fate \o news \in Seq(Fates) /\ Len(fate \o news) = old + m
    <3>1. /\ messages \o cut.found \in Seq(Messages)
          /\ Len(messages \o cut.found) = Len(messages) + Len(cut.found)
      BY <1>1, <1>2, ConcatProperties
    <3>2. fate \o news \in Seq(Fates) /\ Len(fate \o news) = Len(fate) + Len(news)
      BY <1>2, ConcatProperties
    <3> QED BY <1>2, <3>1, <3>2
  <2>2. /\ \A i \in 1..old : (messages \o cut.found)[i] = messages[i]
        /\ \A i \in 1..old : (fate \o news)[i] = fate[i]
        /\ \A i \in 1..m : (fate \o news)[old + i] = news[i]
    BY <1>1, <1>2, PartsJoined
  <2>3. DOMAIN (fate \o news) = 1..(old + m)
    BY <2>1
  <2> QED BY <1>2, <1>3, <2>1, <2>2, <2>3
<1>5. \A i \in 1..(old + m) : i > old => fate'[i] = "new"
  <2> SUFFICES ASSUME NEW i \in 1..(old + m), i > old PROVE fate'[i] = "new"
    OBVIOUS
  <2>1. i - old \in 1..m /\ old + (i - old) = i
    BY <1>1, <1>2
  <2> QED BY <1>4, <2>1
<1> HIDE DEF m, old
<1>6. /\ posted \in Batch /\ posted.from = old + 1 /\ posted.next = old + 1
      /\ posted.to = old + m
  BY <1>1, <1>2 DEF Batch
<1> HIDE DEF posted
<1>7. \A d \in batches' : d \in batches \/ (d = posted /\ m # 0)
  BY <1>3
<1>8. \A d \in batches : /\ d \in Batch /\ d.from \in Nat /\ d.to \in Nat /\ d.next \in Nat
                         /\ 1 <= d.from /\ d.from <= d.next /\ d.next <= d.to /\ d.to <= old
  BY <1>2 DEF TypeOK, Batch, BatchesApart, InRange
<1>9. batches' \in SUBSET Batch /\ \A d \in batches' : InRange(d)'
  <2>1. \A d \in batches' : d \in Batch
    BY <1>6, <1>7, <1>8
  <2>2. ASSUME NEW d \in batches' PROVE InRange(d)'
    <3>1. CASE d \in batches
      BY <1>1, <1>2, <1>4, <1>8, <3>1 DEF InRange
    <3>2. CASE d = posted /\ m # 0
      BY <1>1, <1>2, <1>4, <1>6, <3>2 DEF InRange
    <3> QED BY <1>7, <3>1, <3>2
  <2> QED BY <2>1, <2>2
<1>10. \A d, e \in batches' : d = e \/ d.to < e.from \/ e.to < d.from
  <2>1. \A d \in batches : d.to < posted.from
    BY <1>2, <1>6, <1>8
  <2> QED BY <1>7, <2>1 DEF BatchesApart
<1>11. ASSUME NEW i \in 1..(old + m)
       PROVE  fate'[i] = "new" <=> \E d \in batches' : i \in d.next..d.to
  <2>1. i \in Nat /\ i >= 1 /\ i <= old + m
    BY <1>1, <1>2
  <2>2. CASE i <= old
    <3>1. i \in 1..old /\ i \in DOMAIN fate
      BY <1>2, <2>1, <2>2
    <3>2. fate[i] = "new" <=> \E d \in batches : i \in d.next..d.to
      BY <3>1 DEF BatchesApart
    <3>3. i \notin posted.next..posted.to
      BY <1>2, <1>6, <2>1, <2>2
    <3> QED BY <1>3, <1>4, <3>1, <3>2, <3>3
  <2>3. CASE i > old
    <3>1. m # 0 /\ i \in posted.next..posted.to
      BY <1>1, <1>2, <1>6, <2>1, <2>3
    <3>2. posted \in batches'
      BY <1>3, <3>1
    <3> QED BY <1>5, <2>3, <3>1, <3>2
  <2>4. i <= old \/ i > old
    BY <1>2, <2>1
  <2> QED BY <2>2, <2>3, <2>4
<1>12. BatchesApart'
  BY <1>4, <1>9, <1>10, <1>11 DEF BatchesApart
<1>13. ASSUME NEW i \in DOMAIN fate', fate'[i] # "new" PROVE Settled(i)'
  <2>1. i \in 1..old /\ i \in Nat /\ i >= 1
    <3>1. i \in 1..(old + m) /\ ~(i > old)
      BY <1>4, <1>5, <1>13
    <3> QED BY <1>1, <1>2, <3>1
  <2>2. fate[i] # "new" /\ Settled(i)
    <3>1. fate'[i] = fate[i] /\ i \in DOMAIN fate
      BY <1>2, <1>4, <2>1
    <3> QED BY <1>13, <3>1, LostSettled
  <2>3. \A k \in 1..i : k \in 1..old
    BY <1>2, <2>1
  <2>4. \A k \in 1..i : messages'[k] = messages[k] /\ fate'[k] = fate[k]
    BY <1>4, <2>3
  <2> QED BY <2>1, <2>2, <2>4, SettledStays
<1> QED BY <1>1, <1>2, <1>3, <1>4, <1>9, <1>12, <1>13, LostSettledNext DEF old

(* A handler settles only messages that were new. *)
LEMMA HandleSettles ==
  ASSUME TypeOK, BatchesApart, LostOnlyBehindNameless, messages' = messages,
         DOMAIN fate' = DOMAIN fate,
         \A i \in DOMAIN fate : fate[i] # "new" => fate'[i] = fate[i],
         \A i \in DOMAIN fate : fate[i] = "new" /\ fate'[i] # "new" => Settled(i)'
  PROVE  LostOnlyBehindNameless'
<1>1. DOMAIN fate = 1..Len(fate) /\ Len(fate) \in Nat
  BY DEF TypeOK
<1>2. ASSUME NEW i \in DOMAIN fate, fate[i] # "new" PROVE Settled(i)'
  <2>1. i \in Nat /\ i >= 1 /\ \A k \in 1..i : k \in DOMAIN fate
    BY <1>1
  <2>2. Settled(i)
    BY <1>2, LostSettled
  <2> QED BY <1>2, <2>1, <2>2, SettledStays
<1> QED BY <1>2, LostSettledNext

LEMMA HandleInv ==
  ASSUME IInv, NEW b \in batches, Handle(b)
  PROVE  IInv'
<1>1. /\ TypeOK /\ CutsMarked /\ MessagesAreLines /\ BatchesApart /\ LostOnlyBehindNameless
      /\ messages' = messages
  BY DEF IInv, StreamInv, Handle
<1>2. CutsMarked' /\ MessagesAreLines'
  BY <1>1 DEF Handle, CutsMarked, MessagesAreLines, Ends
<1>3. /\ DOMAIN fate = 1..Len(fate) /\ Len(fate) \in Nat
      /\ b.next \in Nat /\ b.to \in Nat /\ b.next <= b.to /\ b.next >= 1
      /\ \A i \in b.next..b.to : i \in DOMAIN fate /\ fate[i] = "new"
  BY <1>1, NextIsNew DEF InRange, TypeOK
<1>4. ASSUME batches' \in SUBSET Batch, BatchesApart', LostOnlyBehindNameless',
             fate' \in Seq(Fates), Len(fate') = Len(fate)
      PROVE  IInv'
  BY <1>1, <1>2, <1>4 DEF IInv, StreamInv, TypeOK, Handle
<1>5. CASE Take(b)
  <2>1. fate' = fate
    BY <1>5 DEF Take
  <2>2. LostOnlyBehindNameless'
    BY <1>1, <2>1 DEF LostOnlyBehindNameless
  <2> QED BY <1>1, <1>4, <1>5, <2>1, <2>2, TakeApart DEF TypeOK
<1>6. ASSUME NEW f \in Fates \ {"new"}, Rest(b, f),
             f = CASE messages[b.next].type = "PING" -> "ponged"
                   [] messages[b.next].type = "PRIVMSG" -> "bot"
                   [] OTHER -> "ignored"
      PROVE  IInv'
  <2>1. /\ batches' \in SUBSET Batch /\ BatchesApart'
        /\ fate' \in Seq(Fates) /\ Len(fate') = Len(fate)
    BY <1>1, <1>6, RestApart
  <2>2. b.next \in DOMAIN fate /\ fate[b.next] = "new"
    BY <1>3
  <2>3. /\ DOMAIN fate' = DOMAIN fate /\ fate'[b.next] = f
        /\ \A i \in DOMAIN fate : i # b.next => fate'[i] = fate[i]
    BY <1>6, <2>2 DEF Rest
  <2>4. Settled(b.next)'
    BY <1>1, <1>6, <2>3 DEF Settled
  <2>5. LostOnlyBehindNameless'
    BY <1>1, <2>2, <2>3, <2>4, HandleSettles
  <2> QED BY <1>4, <2>1, <2>5
<1>7. CASE HandleCommand(b)
  BY <1>6, <1>7 DEF HandleCommand, Fates
<1>8. CASE HandleUserMessage(b)
  BY <1>6, <1>8 DEF HandleUserMessage, Fates
<1>9. CASE GetNickThrows(b)
  <2>1. /\ batches' \in SUBSET Batch /\ BatchesApart'
        /\ fate' \in Seq(Fates) /\ Len(fate') = Len(fate)
    BY <1>1, <1>9, DroppedApart
  <2>2. /\ DOMAIN fate' = DOMAIN fate
        /\ \A i \in b.next..b.to : fate'[i] = "dropped"
        /\ \A i \in DOMAIN fate : i \notin b.next..b.to => fate'[i] = fate[i]
    BY <1>3, <1>9 DEF GetNickThrows
  <2>3. ASSUME NEW i \in b.next..b.to PROVE Settled(i)'
    <3>1. b.next \in 1..i /\ \A k \in b.next..i : k \in b.next..b.to
      BY <1>3
    <3>2. messages'[b.next].type = "PRIVMSG" /\ messages'[b.next].nick = <<>>
      BY <1>1, <1>9 DEF GetNickThrows
    <3> QED BY <2>2, <3>1, <3>2 DEF Settled
  <2>4. LostOnlyBehindNameless'
    BY <1>1, <1>3, <2>2, <2>3, HandleSettles
  <2> QED BY <1>4, <2>1, <2>4
<1> QED BY <1>5, <1>7, <1>8, <1>9 DEF Handle

--------------------------------------------------------------------------------
(* The invariant, step by step. *)

LEMMA NothingRead == AreLines(<<>>, {}, <<>>, <<>>)
<1>1. Len(<<>>) = 0 /\ SubSeq(<<>>, 1, 0) = <<>> /\ 1 \in 1..(0 + 1)
  OBVIOUS
<1>2. IsLine({}, 1, 0 + 1)
  BY DEF IsLine
<1> QED BY <1>1, <1>2, FS_EmptySet DEF AreLines

LEMMA InitInv == Init => IInv
<1> SUFFICES ASSUME Init PROVE IInv
  OBVIOUS
<1>1. TypeOK
  BY DEF Init, TypeOK
<1>2. CutsMarked /\ BatchesApart /\ LostOnlyBehindNameless
  BY DEF Init, CutsMarked, BatchesApart, LostOnlyBehindNameless
<1>3. Ends = {} /\ consumed = <<>> /\ cuts = {}
  BY DEF Init, Ends
<1>4. MessagesAreLines
  <2>1. SubSeq(messages, first, Len(messages)) = <<>>
    BY DEF Init
  <2> QED BY <1>3, <2>1, NothingRead DEF Init, MessagesAreLines
<1> QED BY <1>1, <1>2, <1>4 DEF IInv, StreamInv

LEMMA ReadInv ==
  ASSUME IInv, NEW n \in 1..Len(wire), Chunk(n), OnRead \/ LinkLost,
         wire' \in Seq(Symbols)
  PROVE  IInv'
<1>1. StreamInv /\ TypeOK /\ BatchesApart /\ LostOnlyBehindNameless /\ first' = first
  BY DEF IInv, StreamInv, OnRead, LinkLost
<1>2. /\ GetMessagesFromRawBytes(SubSeq(wire, 1, n), last_read_incomplete_message) \in Found
      /\ CutsMarked' /\ MessagesAreLines'
      /\ consumed' \in Seq(Symbols) /\ cuts' \in SUBSET Nat
  BY <1>1, ChunkStream
<1>3. /\ messages' \in Seq(Messages) /\ Len(messages) <= Len(messages')
      /\ last_read_incomplete_message' \in Seq(Symbols)
      /\ fate' \in Seq(Fates) /\ Len(fate') = Len(messages')
      /\ batches' \in SUBSET Batch /\ BatchesApart' /\ LostOnlyBehindNameless'
  BY <1>1, <1>2, ChunkApart
<1>4. first' \in 1..(Len(messages') + 1)
  BY <1>1, <1>3 DEF TypeOK
<1>5. link' \in {"up", "lost"} /\ lines' \in Nat /\ faults' \in Nat
  BY SMTT(30), <1>1 DEF TypeOK, OnRead, LinkLost
<1> QED BY <1>2, <1>3, <1>4, <1>5 DEF IInv, StreamInv, TypeOK

LEMMA SendInv == ASSUME IInv, Send PROVE IInv'
<1>1. PICK l \in Lines : wire' = wire \o l \o CRLF
  BY DEF Send
<1>2. wire' \in Seq(Symbols)
  <2>1. l \in Seq(Symbols) /\ wire \in Seq(Symbols)
    BY MessageStreamAssumption DEF IInv, StreamInv, TypeOK
  <2>2. CRLF \in Seq(Symbols)
    BY DEF CRLF, Symbols
  <2>3. wire \o l \in Seq(Symbols)
    BY <2>1
  <2> QED BY <1>1, <2>2, <2>3
<1>3. TypeOK'
  BY <1>2 DEF IInv, StreamInv, TypeOK, Send
<1>4. /\ CutsMarked' /\ MessagesAreLines'
  BY DEF IInv, StreamInv, Send, CutsMarked, MessagesAreLines, Ends
<1>5. BatchesApart' /\ LostOnlyBehindNameless'
  BY DEF IInv, Send, BatchesApart, InRange, LostOnlyBehindNameless
<1> QED BY <1>3, <1>4, <1>5 DEF IInv, StreamInv

LEMMA ResumeInv == ASSUME IInv, Resume PROVE IInv'
<1>1. /\ consumed' = <<>> /\ cuts' = {} /\ last_read_incomplete_message' = <<>>
      /\ messages' = messages /\ first' = Len(messages) + 1
      /\ messages \in Seq(Messages) /\ Len(messages) \in Nat
  BY DEF IInv, StreamInv, TypeOK, Resume, FlushBuffer
<1>2. TypeOK'
  BY <1>1 DEF IInv, StreamInv, TypeOK, Resume
<1>3. CutsMarked'
  BY <1>1 DEF CutsMarked
<1>4. MessagesAreLines'
  <2>1. Ends' = {}
    BY <1>1 DEF Ends
  <2>2. SubSeq(messages', first', Len(messages')) = <<>>
    BY <1>1
  <2> QED BY <1>1, <2>1, <2>2, NothingRead DEF MessagesAreLines
<1>5. BatchesApart' /\ LostOnlyBehindNameless'
  BY DEF IInv, Resume, BatchesApart, InRange, LostOnlyBehindNameless
<1> QED BY <1>2, <1>3, <1>4, <1>5 DEF IInv, StreamInv

LEMMA NextInv == ASSUME IInv, [Next]_vars PROVE IInv'
<1>1. wire \in Seq(Symbols)
  BY DEF IInv, StreamInv, TypeOK
<1>2. CASE OnRead
  <2>1. PICK n \in 1..Len(wire) : Chunk(n) /\ wire' = SubSeq(wire, n + 1, Len(wire))
    BY <1>2 DEF OnRead
  <2>2. wire' \in Seq(Symbols)
    BY <1>1, <2>1
  <2> QED BY <1>2, <2>1, <2>2, ReadInv
<1>3. CASE LinkLost
  <2>1. PICK n \in 1..Len(wire) : Chunk(n)
    BY <1>3 DEF LinkLost
  <2>2. wire' \in Seq(Symbols)
    BY <1>3 DEF LinkLost
  <2> QED BY <1>3, <2>1, <2>2, ReadInv
<1>4. CASE UNCHANGED vars
  BY <1>4 DEF vars, IInv, StreamInv, TypeOK, CutsMarked, MessagesAreLines, Ends, BatchesApart,
              InRange, LostOnlyBehindNameless
<1> QED BY <1>2, <1>3, <1>4, SendInv, ResumeInv, HandleInv DEF Next

(* The inductive invariant holds in every state of the stream: what the     *)
(* loop has found of the bytes read are their lines (message_processor.cpp),*)
(* and the posted batches share no message (irc_client.cpp:105-112).        *)
THEOREM StreamInvariant == Spec => []IInv
BY InitInv, NextInv, PTL DEF Spec

(* Whatever lines are sent, wherever the reads cut them and however often   *)
(* the link is lost, the messages read on a link are the lines of its       *)
(* bytes.                                                                   *)
THEOREM LinesAreRead == Spec => []MessagesAreLines
<1>1. IInv => MessagesAreLines
  BY DEF IInv, StreamInv
<1> QED BY <1>1, StreamInvariant, PTL

(* Only a message without a viewer's name keeps another from its answer.    *)
THEOREM OthersAreAnswered == Spec => []LostOnlyBehindNameless
<1>1. IInv => LostOnlyBehindNameless
  BY DEF IInv
<1> QED BY <1>1, StreamInvariant, PTL

(* However many workers take the batches, a message is in one batch until   *)
(* it is handled, and then in none.                                         *)
THEOREM HandledOnce == Spec => []InOneBatch
<1>1. ASSUME IInv PROVE InOneBatch
  <2> SUFFICES ASSUME NEW i \in DOMAIN fate
               PROVE  Cardinality({b \in batches : i \in b.next..b.to})
                        = IF fate[i] = "new" THEN 1 ELSE 0
    BY DEF InOneBatch
  <2> DEFINE holding == {b \in batches : i \in b.next..b.to}
  <2>1. i \in Nat
    BY <1>1 DEF IInv, StreamInv, TypeOK
  <2>2. fate[i] = "new" <=> \E b \in batches : i \in b.next..b.to
    BY <1>1 DEF IInv, BatchesApart
  <2>3. CASE fate[i] = "new"
    <3>1. PICK b \in batches : i \in b.next..b.to
      BY <2>2, <2>3
    <3>2. \A d \in batches : i \in d.next..d.to => d = b
      <4> SUFFICES ASSUME NEW d \in batches, i \in d.next..d.to, d # b PROVE FALSE
        OBVIOUS
      <4>1. /\ \A e \in {b, d} : /\ e.from \in Nat /\ e.to \in Nat /\ e.next \in Nat
                                 /\ e.from <= e.next
            /\ b.to < d.from \/ d.to < b.from
        BY <1>1 DEF IInv, StreamInv, TypeOK, Batch, BatchesApart, InRange
      <4> QED BY <2>1, <3>1, <4>1
    <3>3. holding = {b}
      BY <3>1, <3>2
    <3> QED BY <2>3, <3>3, FS_Singleton
  <2>4. CASE fate[i] # "new"
    <3>1. holding = {}
      BY <2>2, <2>4
    <3> QED BY <2>4, <3>1, FS_EmptySet
  <2> QED BY <2>3, <2>4
<1> QED BY <1>1, StreamInvariant, PTL

--------------------------------------------------------------------------------
(* The words of a line. *)

(* A loop of n rounds stays in D when each round does. *)
LEMMA RoundsStay ==
  ASSUME NEW D, NEW n \in Nat, NEW f, f = [i \in 0..n |-> f[i]], f[0] \in D,
         \A i \in 1..n : f[i - 1] \in D => f[i] \in D
  PROVE  f \in [0..n -> D]
<1> DEFINE S == {k \in Nat : k <= n => f[k] \in D}
<1>1. 0 \in S
  OBVIOUS
<1>2. ASSUME NEW k \in Nat, k \in S PROVE k + 1 \in S
  <2> SUFFICES ASSUME k + 1 <= n PROVE f[k + 1] \in D
    OBVIOUS
  <2>1. k + 1 \in 1..n /\ (k + 1) - 1 = k /\ f[k] \in D
    BY <1>2
  <2> QED BY <2>1
<1>3. \A k \in Nat : k \in S
  <2> HIDE DEF S
  <2> QED BY <1>1, <1>2, NatInd
<1>4. \A k \in 0..n : f[k] \in D
  BY <1>3
<1> QED BY <1>4

(* The symbols of the composed lines. *)
Fixed == TaggedCommands \cup OtherCommands
           \cup {"@", "badge-info", "subscriber", "376", "badges", "display-name", "bob",
                 "user-type", "#", "channel", ":", "tmi", "*", "ACK", "caps", "server"}

Vocabulary == Words \cup BadgeWords \cup Delimiters \cup Fixed

Line == Seq(Vocabulary)

(* A round of Split keeps sequences of symbols.                             *)
LEMMA SplitSymbolType ==
  ASSUME NEW words \in Seq(Line), NEW str \in Line, NEW i \in 1..Len(str)
  PROVE  SplitSymbol(words, str, i) \in Seq(Line)
<1>1. str[i] \in Vocabulary /\ <<str[i]>> \in Line
  BY DEF Line
<1>2. Append(words, <<str[i]>>) \in Seq(Line)
  BY <1>1
<1>3. [words EXCEPT ![Len(words)] = Append(@, str[i])] \in Seq(Line)
  <2>1. CASE Len(words) = 0
    <3>1. [words EXCEPT ![Len(words)] = Append(@, str[i])] = words
      BY <2>1
    <3> QED BY <3>1
  <2>2. CASE Len(words) # 0
    <3>1. Len(words) \in 1..Len(words) /\ words[Len(words)] \in Line
      BY <2>2
    <3>2. Append(words[Len(words)], str[i]) \in Line
      BY <1>1, <3>1 DEF Line
    <3> QED BY <3>1, <3>2
  <2> QED BY <2>1, <2>2
<1> QED BY <1>2, <1>3 DEF SplitSymbol

(* The words of the first symbols, round by round.                          *)
LEMMA WordsRounds ==
  ASSUME NEW str \in Line
  PROVE  /\ WordsOf(str) \in [0..Len(str) -> Seq(Line)]
         /\ WordsOf(str)[0] = <<>>
         /\ \A i \in 1..Len(str) :
              WordsOf(str)[i] = SplitSymbol(WordsOf(str)[i - 1], str, i)
<1> DEFINE n == Len(str)
           D == Seq(Line)
           F == [p \in D \X (1..n) |-> SplitSymbol(p[1], str, p[2])]
           Round(g) == [i \in 0..n |-> IF i = 0 THEN <<>> ELSE SplitSymbol(g[i - 1], str, i)]
<1>1. n \in Nat /\ <<>> \in D
  BY DEF Line
<1>2. F \in [D \X (1..n) -> D]
  BY SplitSymbolType
<1>3. PICK g : Computes(g, D, n, <<>>, F)
  <2> HIDE DEF n, D, F
  <2> QED BY <1>1, <1>2, RoundsExist
<1>4. \A i \in 1..n : g[i] = SplitSymbol(g[i - 1], str, i)
  <2> SUFFICES ASSUME NEW i \in 1..n PROVE g[i] = SplitSymbol(g[i - 1], str, i)
    OBVIOUS
  <2>1. i - 1 \in 0..n
    BY <1>1
  <2>2. <<g[i - 1], i>> \in D \X (1..n)
    BY <1>3, <2>1 DEF Computes
  <2> QED BY <1>3, <2>2 DEF Computes
<1>5. g = Round(g)
  <2>1. \A i \in 0..n : i # 0 => i \in 1..n
    BY <1>1
  <2> HIDE DEF n, D
  <2>2. \A i \in 0..n : g[i] = IF i = 0 THEN <<>> ELSE SplitSymbol(g[i - 1], str, i)
    BY <1>3, <1>4, <2>1 DEF Computes
  <2> QED BY <1>3, <2>2 DEF Computes
<1>6. WordsOf(str) = Round(WordsOf(str))
  <2>1. WordsOf(str) = CHOOSE f : f = Round(f)
    BY DEF WordsOf
  <2> HIDE DEF Round
  <2> QED BY <1>5, <2>1
<1>7. /\ WordsOf(str)[0] = <<>>
      /\ \A i \in 1..n : WordsOf(str)[i] = SplitSymbol(WordsOf(str)[i - 1], str, i)
      /\ WordsOf(str) = [i \in 0..n |-> WordsOf(str)[i]]
  <2>1. 0 \in 0..n /\ \A i \in 1..n : i \in 0..n /\ i # 0
    BY <1>1
  <2> HIDE DEF n, D
  <2> QED BY <1>6, <2>1
<1>8. \A i \in 1..n : WordsOf(str)[i - 1] \in D => WordsOf(str)[i] \in D
  BY <1>7, SplitSymbolType
<1>9. WordsOf(str) \in [0..n -> D]
  <2> DEFINE f == WordsOf(str)
  <2>1. f = [i \in 0..n |-> f[i]] /\ f[0] \in D /\ \A i \in 1..n : f[i - 1] \in D => f[i] \in D
    BY <1>1, <1>7, <1>8
  <2> HIDE DEF n, D, f
  <2>2. f \in [0..n -> D]
    BY <1>1, <2>1, RoundsStay
  <2> QED BY <2>2 DEF f
<1> QED BY <1>7, <1>9

(* What follows does not change the words before it. *)
LEMMA WordsPrefix ==
  ASSUME NEW a \in Line, NEW b \in Line
  PROVE  \A i \in 0..Len(a) : WordsOf(a \o b)[i] = WordsOf(a)[i]
<1> DEFINE S == {k \in Nat : k <= Len(a) => WordsOf(a \o b)[k] = WordsOf(a)[k]}
<1>1. a \o b \in Line /\ Len(a \o b) = Len(a) + Len(b)
      /\ \A i \in 1..Len(a) : (a \o b)[i] = a[i]
  BY DEF Line
<1>2. 0 \in S
  BY <1>1, WordsRounds
<1>3. ASSUME NEW k \in Nat, k \in S PROVE k + 1 \in S
  <2> SUFFICES ASSUME k + 1 <= Len(a) PROVE WordsOf(a \o b)[k + 1] = WordsOf(a)[k + 1]
    OBVIOUS
  <2>1. k + 1 \in 1..Len(a) /\ (k + 1) - 1 = k /\ k + 1 \in 1..Len(a \o b)
        /\ WordsOf(a \o b)[k] = WordsOf(a)[k]
    BY <1>1, <1>3 DEF Line
  <2>2. (a \o b)[k + 1] = a[k + 1] /\ (k + 1 # 1 => (a \o b)[k] = a[k])
    BY <1>1, <2>1
  <2>3. SplitSymbol(WordsOf(a)[k], a \o b, k + 1) = SplitSymbol(WordsOf(a)[k], a, k + 1)
    BY <2>1, <2>2 DEF SplitSymbol
  <2>4. WordsOf(a)[k + 1] = SplitSymbol(WordsOf(a)[k], a, k + 1)
    BY <2>1, WordsRounds
  <2>5. WordsOf(a \o b)[k + 1] = SplitSymbol(WordsOf(a \o b)[k], a \o b, k + 1)
    <3> DEFINE c == a \o b
    <3>1. c \in Line /\ k + 1 \in 1..Len(c)
      BY <1>1, <2>1
    <3> HIDE DEF c
    <3>2. WordsOf(c)[k + 1] = SplitSymbol(WordsOf(c)[k], c, k + 1)
      BY <2>1, <3>1, WordsRounds
    <3> QED BY <3>2 DEF c
  <2> QED BY <2>1, <2>3, <2>4, <2>5
<1>4. \A k \in Nat : k \in S
  <2> HIDE DEF S
  <2> QED BY <1>2, <1>3, NatInd
<1> QED BY <1>4 DEF Line

(* The words of a line are lines.                                           *)
LEMMA SplitType ==
  ASSUME NEW str \in Line
  PROVE  Split(str) \in Seq(Line)
<1>1. Len(str) \in 0..Len(str)
  BY DEF Line
<1> QED BY <1>1, WordsRounds DEF Split

(* A space is a line, and a line with a space behind it is one.             *)
LEMMA SpaceBehind ==
  ASSUME NEW a \in Line
  PROVE  /\ Space \in Vocabulary /\ <<Space>> \in Line /\ a \o <<Space>> \in Line
         /\ Len(a \o <<Space>>) = Len(a) + 1 /\ (a \o <<Space>>)[Len(a) + 1] = Space
<1>1. Space \in Vocabulary
  BY DEF Vocabulary, Delimiters
<1>2. <<Space>> \in Seq(Vocabulary) /\ Len(<<Space>>) = 1 /\ <<Space>>[1] = Space
  BY <1>1
<1> DEFINE b == <<Space>>
<1>3. b \in Seq(Vocabulary) /\ Len(b) = 1 /\ b[1] = Space
  BY <1>2
<1> HIDE DEF b
<1>4. a \o b \in Seq(Vocabulary) /\ Len(a \o b) = Len(a) + 1 /\ (a \o b)[Len(a) + 1] = b[1]
  <2>0. a \in Seq(Vocabulary) /\ b \in Seq(Vocabulary)
    BY <1>3 DEF Line
  <2>1. a \o b \in Seq(Vocabulary) /\ Len(a \o b) = Len(a) + Len(b)
    BY <2>0, ConcatProperties
  <2>2. \A i \in 1..Len(b) : (a \o b)[Len(a) + i] = b[i]
    BY <2>0
  <2> QED BY <1>3, <2>1, <2>2
<1> QED BY <1>1, <1>3, <1>4 DEF Line, b

(* A space behind a line changes none of its words.                         *)
LEMMA SplitSpace ==
  ASSUME NEW a \in Line
  PROVE  Split(a \o <<Space>>) = Split(a)
<1> DEFINE str == a \o <<Space>>
           n == Len(a)
<1>1. /\ n \in Nat /\ n + 1 \in 1..(n + 1) /\ n \in 0..n /\ (n + 1) - 1 = n
      /\ <<Space>> \in Line /\ str \in Line /\ Len(str) = n + 1 /\ str[n + 1] = Space
  BY SpaceBehind DEF Line
<1>2. WordsOf(str)[n] = Split(a)
  BY <1>1, WordsPrefix DEF Split
<1>3. WordsOf(str)[n + 1] = SplitSymbol(WordsOf(str)[n], str, n + 1)
  BY <1>1, WordsRounds
<1> QED BY <1>1, <1>2, <1>3 DEF Split, SplitSymbol

(* A sequence of one element.                                               *)
LEMMA Single ==
  ASSUME NEW D, NEW s \in Seq(D), Len(s) = 1
  PROVE  s = <<s[1]>>
<1>1. s \in [1..1 -> D] /\ <<s[1]>> \in [1..1 -> D] /\ <<s[1]>>[1] = s[1]
  OBVIOUS
<1> QED BY <1>1

(* A symbol goes on with the last word.                                     *)
LEMMA AppendExcept ==
  ASSUME NEW D, NEW s \in Seq(D), NEW x \in D, NEW y \in D
  PROVE  [Append(s, x) EXCEPT ![Len(s) + 1] = y] = Append(s, y)
<1> DEFINE t == [Append(s, x) EXCEPT ![Len(s) + 1] = y]
<1>1. Append(s, x) \in [1..(Len(s) + 1) -> D] /\ Append(s, y) \in [1..(Len(s) + 1) -> D]
  <2>1. \A r \in Seq(D) : r \in [1..Len(r) -> D]
    OBVIOUS
  <2>2. Append(s, x) \in Seq(D) /\ Append(s, y) \in Seq(D)
        /\ Len(Append(s, x)) = Len(s) + 1 /\ Len(Append(s, y)) = Len(s) + 1
    OBVIOUS
  <2> QED BY <2>1, <2>2
<1>2. t \in [1..(Len(s) + 1) -> D]
  BY <1>1
<1>3. \A i \in 1..(Len(s) + 1) : t[i] = Append(s, y)[i]
  <2> SUFFICES ASSUME NEW i \in 1..(Len(s) + 1) PROVE t[i] = Append(s, y)[i]
    OBVIOUS
  <2>1. CASE i = Len(s) + 1
    BY <1>1, <2>1
  <2>2. CASE i # Len(s) + 1
    <3>1. i \in 1..Len(s) /\ Append(s, x)[i] = s[i] /\ Append(s, y)[i] = s[i]
      BY <2>2
    <3>2. t[i] = Append(s, x)[i]
      BY <1>1, <2>2
    <3> QED BY <3>1, <3>2
  <2> QED BY <2>1, <2>2
<1> HIDE DEF t
<1>4. t = Append(s, y)
  BY <1>1, <1>2, <1>3
<1> QED BY <1>4 DEF t

(* A word: symbols without a space. *)
Word == {w \in Line : w # <<>> /\ \A i \in 1..Len(w) : w[i] # Space}

(* A word behind nothing, or behind a space, is one word more.              *)
LEMMA SplitWord ==
  ASSUME NEW a \in Line, NEW w \in Word, a = <<>> \/ a[Len(a)] = Space
  PROVE  Split(a \o w) = Append(Split(a), w)
<1> DEFINE str == a \o w
           n == Len(a)
           before == Split(a)
           S == {k \in Nat : k + 1 <= Len(w) =>
                   WordsOf(str)[n + k + 1] = Append(before, SubSeq(w, 1, k + 1))}
<1>1. /\ n \in Nat /\ Len(w) \in Nat /\ str \in Line /\ Len(str) = n + Len(w) /\ w \in Line
      /\ before \in Seq(Line)
  BY SplitType DEF Line, Word
<1>2. /\ \A i \in 1..n : str[i] = a[i]
      /\ \A i \in 1..Len(w) : n + i \in 1..Len(str) /\ str[n + i] = w[i] /\ w[i] # Space
      /\ \A i \in 1..Len(w) : n + i = 1 \/ str[n + i - 1] = Space <=> i = 1
  <2>1. \A i \in 1..n : str[i] = a[i]
    BY DEF Line, Word
  <2>2. \A i \in 1..Len(w) : n + i \in 1..Len(str) /\ str[n + i] = w[i] /\ w[i] # Space
    BY DEF Line, Word
  <2>3. ASSUME NEW i \in 1..Len(w) PROVE n + i = 1 \/ str[n + i - 1] = Space <=> i = 1
    <3>1. CASE i = 1
      <4>1. n = 0 \/ (n \in 1..n /\ a[n] = Space)
        BY <1>1 DEF Line
      <4> HIDE DEF str
      <4> QED BY <1>1, <2>1, <3>1, <4>1
    <3>2. CASE i # 1
      <4>1. i - 1 \in 1..Len(w) /\ n + i - 1 = n + (i - 1) /\ n + i # 1
        BY <1>1, <3>2
      <4> HIDE DEF str
      <4> QED BY <2>2, <3>2, <4>1
    <3> QED BY <3>1, <3>2
  <2> QED BY <2>1, <2>2, <2>3
<1>3. WordsOf(str)[n] = before
  BY <1>1, WordsPrefix DEF Split
<1> HIDE DEF str, before
<1>4. 0 \in S
  <2> SUFFICES ASSUME 1 <= Len(w) PROVE WordsOf(str)[n + 1] = Append(before, SubSeq(w, 1, 1))
    BY <1>1
  <2>1. 1 \in 1..Len(w) /\ n + 1 \in 1..Len(str) /\ (n + 1) - 1 = n
    BY <1>1, <1>2
  <2>2. str[n + 1] = w[1] /\ w[1] # Space /\ (n + 1 = 1 \/ str[n] = Space)
    BY <1>2, <2>1
  <2>3. WordsOf(str)[n + 1] = Append(before, <<str[n + 1]>>)
    <3>1. WordsOf(str)[n + 1] = SplitSymbol(before, str, n + 1)
      BY <1>1, <1>3, <2>1, WordsRounds
    <3>2. SplitSymbol(before, str, n + 1) = Append(before, <<str[n + 1]>>)
      BY <2>1, <2>2 DEF SplitSymbol
    <3> QED BY <3>1, <3>2
  <2>4. SubSeq(w, 1, 1) = <<w[1]>>
    <3>1. /\ SubSeq(w, 1, 1) \in Line /\ Len(SubSeq(w, 1, 1)) = 1
          /\ SubSeq(w, 1, 1)[1] = w[1]
      BY <1>1, <2>1 DEF Line
    <3> QED BY <3>1, Single DEF Line
  <2> QED BY <2>2, <2>3, <2>4
<1>5. ASSUME NEW k \in Nat, k \in S PROVE k + 1 \in S
  <2> SUFFICES ASSUME k + 2 <= Len(w)
               PROVE  WordsOf(str)[n + k + 2] = Append(before, SubSeq(w, 1, k + 2))
    BY <1>1
  <2>1. k + 2 \in 1..Len(w) /\ n + k + 2 \in 1..Len(str) /\ (n + k + 2) - 1 = n + k + 1
        /\ n + (k + 2) = n + k + 2
    BY <1>1, <1>2
  <2>2. /\ str[n + k + 2] = w[k + 2] /\ w[k + 2] # Space
        /\ n + k + 2 # 1 /\ str[n + k + 1] # Space
    BY <1>2, <2>1
  <2> DEFINE part == SubSeq(w, 1, k + 1)
             words == Append(before, part)
  <2>3. WordsOf(str)[n + k + 1] = words
    BY <1>5, <2>1
  <2>4. part \in Line /\ words \in Seq(Line) /\ Len(words) = Len(before) + 1
        /\ words[Len(words)] = part /\ Len(words) \in 1..Len(words)
    BY <1>1, <2>1 DEF Line
  <2>5. WordsOf(str)[n + k + 2] = [words EXCEPT ![Len(words)] = Append(@, w[k + 2])]
    <3>1. WordsOf(str)[n + k + 2] = SplitSymbol(WordsOf(str)[n + k + 1], str, n + k + 2)
      BY <1>1, <2>1, WordsRounds
    <3> HIDE DEF words
    <3>2. SplitSymbol(words, str, n + k + 2)
            = [words EXCEPT ![Len(words)] = Append(@, str[n + k + 2])]
      BY <2>1, <2>2 DEF SplitSymbol
    <3> QED BY <2>2, <2>3, <3>1, <3>2
  <2>6. SubSeq(w, 1, k + 2) = Append(part, w[k + 2])
    BY <1>1, <2>1 DEF Line
  <2>7. [words EXCEPT ![Len(words)] = Append(part, w[k + 2])]
          = Append(before, Append(part, w[k + 2]))
    <3> DEFINE longer == Append(part, w[k + 2])
    <3>1. longer \in Line
      BY <1>1, <2>1, <2>4 DEF Line
    <3>2. [words EXCEPT ![Len(words)] = longer] = Append(before, longer)
      <4> HIDE DEF longer, part
      <4> QED BY <1>1, <2>4, <3>1, AppendExcept
    <3> QED BY <3>2
  <2> QED BY <2>4, <2>5, <2>6, <2>7
<1>6. \A k \in Nat : k \in S
  <2> HIDE DEF S
  <2> QED BY <1>4, <1>5, NatInd
<1>7. /\ Len(w) - 1 \in Nat /\ (Len(w) - 1) + 1 = Len(w) /\ (Len(w) - 1) + 1 <= Len(w)
      /\ n + (Len(w) - 1) + 1 = Len(str)
  BY <1>1 DEF Word, Line
<1>8. WordsOf(str)[Len(str)] = Append(before, SubSeq(w, 1, Len(w)))
  <2>1. Len(w) - 1 \in S
    BY <1>6, <1>7
  <2> HIDE DEF n
  <2> QED BY <1>7, <2>1
<1>9. SubSeq(w, 1, Len(w)) = w
  BY <1>1 DEF Line
<1> QED BY <1>8, <1>9 DEF Split, str, before

(* The words of a line and of a line with one word more. *)
LEMMA SplitOne ==
  ASSUME NEW w \in Word
  PROVE  Split(w) = <<w>>
<1>1. <<>> \in Line /\ <<>> \o w = w /\ Len(<<>>) = 0
  BY DEF Line, Word
<1>2. Split(<<>>) = <<>>
  BY <1>1, WordsRounds DEF Split
<1>3. Split(<<>> \o w) = Append(<<>>, w)
  BY <1>1, <1>2, SplitWord
<1> QED BY <1>1, <1>3

(* A space and a word behind a line are one word more.                      *)
LEMMA SplitMore ==
  ASSUME NEW a \in Line, NEW w \in Word
  PROVE  Split(a \o <<Space>> \o w) = Append(Split(a), w)
<1> DEFINE b == a \o <<Space>>
<1>1. b \in Line /\ b[Len(b)] = Space
  <2>1. <<Space>> \in Line /\ b \in Line /\ Len(b) = Len(a) + 1 /\ b[Len(a) + 1] = Space
    BY SpaceBehind
  <2> QED BY <2>1
<1>2. Split(b) = Split(a)
  BY SplitSpace
<1> HIDE DEF b
<1>3. Split(b \o w) = Append(Split(a), w)
  BY <1>1, <1>2, SplitWord
<1> QED BY <1>3 DEF b

--------------------------------------------------------------------------------
(* A text is its words. *)

(* The concatenation of a sequence of sequences, one by one. *)
Concatenates(f, D, s) ==
  /\ f \in [1..Len(s) -> Seq(D)] /\ f[1] = s[1] /\ FlattenSeq(s) = f[Len(s)]
  /\ \A i \in 2..Len(s) : f[i] = f[i - 1] \o s[i]

(* FlattenSeq computes such a concatenation.                                *)
LEMMA FlattenRounds ==
  ASSUME NEW D, NEW s \in Seq(Seq(D)), Len(s) > 0
  PROVE  \E f : Concatenates(f, D, s)
<1> DEFINE n == Len(s)
           F == [p \in Seq(D) \X (1..n) |-> p[1] \o s[p[2]]]
           Round(g) == [i \in 1..n |-> IF i = 1 THEN s[1] ELSE g[i - 1] \o s[i]]
           h == CHOOSE g : g = Round(g)
<1>1. n \in Nat /\ 1 \in 1..n /\ n \in 1..n /\ <<>> \in Seq(D) /\ \A i \in 1..n : s[i] \in Seq(D)
  OBVIOUS
<1>2. F \in [Seq(D) \X (1..n) -> Seq(D)]
  BY <1>1
<1>3. PICK g : Computes(g, Seq(D), n, <<>>, F)
  <2> HIDE DEF n, F
  <2> QED BY <1>1, <1>2, RoundsExist
<1>4. /\ \A i \in 0..n : g[i] \in Seq(D)
      /\ \A i \in 1..n : g[i] = g[i - 1] \o s[i]
  <2>1. \A i \in 0..n : g[i] \in Seq(D)
    BY <1>3 DEF Computes
  <2> SUFFICES ASSUME NEW i \in 1..n PROVE g[i] = g[i - 1] \o s[i]
    BY <2>1
  <2>2. g[i - 1] \in Seq(D)
    BY <2>1, <1>1
  <2>3. F[<<g[i - 1], i>>] = g[i - 1] \o s[i]
    BY <2>2
  <2> QED BY <1>3, <2>3 DEF Computes
<1> DEFINE k == [i \in 1..n |-> g[i]]
<1>5. /\ k = Round(k)
      /\ k[1] = s[1] /\ k \in [1..n -> Seq(D)]
  <2>1. g[1] = s[1]
    <3>1. g[0] = <<>> /\ g[1] = g[1 - 1] \o s[1]
      <4> HIDE DEF n, F
      <4> QED BY <1>1, <1>3, <1>4 DEF Computes
    <3>2. s[1] \in Seq(D) /\ 1 - 1 = 0
      BY <1>1
    <3>3. g[1] = <<>> \o s[1]
      BY <3>1, <3>2
    <3> QED BY <3>2, <3>3, ConcatEmptySeq
  <2>2. ASSUME NEW i \in 1..n, i # 1 PROVE k[i] = k[i - 1] \o s[i]
    <3>1. i - 1 \in 1..n
      BY <1>1, <2>2
    <3> QED BY <1>4, <3>1
  <2>3. k \in [1..n -> Seq(D)]
    <3>1. \A i \in 1..n : i \in 0..n
      BY <1>1
    <3> QED BY <1>4, <3>1
  <2>4. k = [i \in 1..n |-> k[i]]
    OBVIOUS
  <2>5. \A i \in 1..n : k[i] = IF i = 1 THEN s[1] ELSE k[i - 1] \o s[i]
    BY <1>1, <2>1, <2>2
  <2> HIDE DEF k, n
  <2> QED BY <1>1, <2>1, <2>3, <2>4, <2>5
<1>6. h = Round(h)
  <2> HIDE DEF Round
  <2> QED BY <1>5
<1> HIDE DEF h, k
<1>7. /\ h = [i \in 1..n |-> h[i]] /\ h[1] = s[1]
      /\ \A i \in 2..n : h[i] = h[i - 1] \o s[i]
  <2>1. \A i \in 2..n : i \in 1..n /\ i # 1
    BY <1>1
  <2> HIDE DEF n
  <2> QED BY <1>1, <1>6, <2>1
<1> DEFINE S == {i \in Nat : i + 1 <= n => h[i + 1] \in Seq(D)}
<1>8. \A i \in Nat : i \in S
  <2>1. 0 \in S
    BY <1>1, <1>7
  <2>2. ASSUME NEW i \in Nat, i \in S PROVE i + 1 \in S
    <3> SUFFICES ASSUME i + 2 <= n PROVE h[i + 2] \in Seq(D)
      BY <1>1
    <3>1. i + 2 \in 2..n /\ (i + 2) - 1 = i + 1 /\ i + 1 <= n
      BY <1>1
    <3>2. h[i + 1] \in Seq(D) /\ s[i + 2] \in Seq(D)
      BY <1>1, <2>2, <3>1
    <3>3. h[i + 2] = h[(i + 2) - 1] \o s[i + 2]
      BY <1>7, <3>1
    <3>4. h[i + 2] = h[i + 1] \o s[i + 2]
      BY <3>1, <3>3
    <3> QED BY <3>2, <3>4, ConcatProperties
  <2> HIDE DEF S
  <2> QED BY <2>1, <2>2, NatInd
<1>9. \A i \in 1..n : h[i] \in Seq(D)
  <2> SUFFICES ASSUME NEW i \in 1..n PROVE h[i] \in Seq(D)
    OBVIOUS
  <2>1. i - 1 \in Nat /\ (i - 1) + 1 = i /\ i <= n
    BY <1>1
  <2>2. i - 1 \in S
    BY <1>8, <2>1
  <2> HIDE DEF n
  <2> QED BY <2>1, <2>2
<1>10. FlattenSeq(s) = h[n]
  <2>1. Len(s) # 0
    OBVIOUS
  <2> QED BY <2>1, Zenon DEF FlattenSeq, h
<1> QED BY <1>7, <1>9, <1>10 DEF Concatenates

(* The text of a line, and its words. *)

(* The words of the text, the first behind its colon. *)
TextWords(l) ==
  [i \in 1..Len(l.words) |-> IF i = 1 THEN <<":", l.words[1]>> ELSE <<l.words[i]>>]

(* What stands behind another word of a text begins with a space. *)
Behind(w) == <<Space>> \o w

(* Lines of one symbol.                                                     *)
LEMMA Symbols1 ==
  ASSUME NEW x \in Vocabulary
  PROVE  <<x>> \in Line /\ Len(<<x>>) = 1 /\ (x # Space => <<x>> \in Word)
<1>1. <<x>> \in Seq(Vocabulary) /\ Len(<<x>>) = 1 /\ <<x>>[1] = x
  OBVIOUS
<1> QED BY <1>1 DEF Line, Word

(* Lines of two symbols.                                                    *)
LEMMA Symbols2 ==
  ASSUME NEW x \in Vocabulary, NEW y \in Vocabulary
  PROVE  <<x, y>> \in Line /\ (x # Space /\ y # Space => <<x, y>> \in Word)
<1>1. <<x, y>> \in Seq(Vocabulary) /\ Len(<<x, y>>) = 2 /\ <<x, y>>[1] = x /\ <<x, y>>[2] = y
  OBVIOUS
<1> QED BY <1>1 DEF Line, Word

(* A sequence of two elements, composed.                                    *)
LEMMA Pair ==
  ASSUME NEW D, NEW x \in D, NEW y \in D
  PROVE  <<x>> \o <<y>> = <<x, y>>
<1> DEFINE s == <<x>> \o <<y>>
           t == <<x, y>>
<1>1. s \in [1..2 -> D] /\ t \in [1..2 -> D]
  <2>1. <<x>> \in Seq(D) /\ <<y>> \in Seq(D) /\ Len(<<x>>) = 1 /\ Len(<<y>>) = 1
    OBVIOUS
  <2>2. s \in Seq(D) /\ Len(s) = 2
    BY <2>1, ConcatProperties
  <2> HIDE DEF s
  <2>3. s \in [1..2 -> D]
    <3>1. \A r \in Seq(D) : r \in [1..Len(r) -> D]
      OBVIOUS
    <3> QED BY <2>2, <3>1
  <2>4. t \in [1..2 -> D]
    OBVIOUS
  <2> QED BY <2>3, <2>4
<1>2. s[1] = t[1] /\ s[2] = t[2]
  OBVIOUS
<1> HIDE DEF s, t
<1>3. s = t
  <2>1. \A i \in 1..2 : i = 1 \/ i = 2
    OBVIOUS
  <2>2. \A i \in 1..2 : s[i] = t[i]
    BY <1>2, <2>1
  <2> QED BY <1>1, <2>2
<1> QED BY <1>3 DEF s, t

(* The first word of a text: a space, a colon and the word.                 *)
LEMMA Triple ==
  ASSUME NEW D, NEW x \in D, NEW y \in D, NEW z \in D
  PROVE  <<x>> \o <<y>> \o <<z>> = <<x>> \o <<y, z>>
<1>1. <<x>> \in Seq(D) /\ <<y>> \in Seq(D) /\ <<z>> \in Seq(D)
  OBVIOUS
<1>2. <<x>> \o <<y>> \o <<z>> = <<x>> \o (<<y>> \o <<z>>)
  BY <1>1, ConcatAssociative
<1> QED BY <1>2, Pair

(* The words of a text have no space.                                       *)
LEMMA TextWordsType ==
  ASSUME NEW l, l.words \in Seq(Words)
  PROVE  /\ TextWords(l) \in Seq(Word) /\ Len(TextWords(l)) = Len(l.words)
         /\ \A i \in 1..Len(l.words) : TextWords(l)[i] \in Word
<1>1. ASSUME NEW i \in 1..Len(l.words) PROVE TextWords(l)[i] \in Word
  <2>1. l.words[i] \in Vocabulary /\ l.words[i] # Space
    BY MessageGrammarAssumption DEF Vocabulary
  <2>2. ":" \in Vocabulary /\ ":" # Space
    BY DEF Vocabulary, Fixed, Space
  <2>3. CASE i = 1
    <3>1. TextWords(l)[i] = <<":", l.words[i]>>
      BY <2>3 DEF TextWords
    <3> QED BY <2>1, <2>2, <3>1, Symbols2
  <2>4. CASE i # 1
    <3>1. TextWords(l)[i] = <<l.words[i]>>
      BY <2>4 DEF TextWords
    <3> QED BY <2>1, <3>1, Symbols1
  <2> QED BY <2>3, <2>4
<1>2. Len(l.words) \in Nat
  OBVIOUS
<1>3. TextWords(l) \in [1..Len(l.words) -> Word]
  BY <1>1 DEF TextWords
<1> QED BY <1>1, <1>2, <1>3

(* A text is its words, each behind a space. *)
LEMMA TextBuilt ==
  ASSUME NEW l, l.words \in Seq(Words), l.words # <<>>
  PROVE  \E f : /\ Concatenates(f, Vocabulary, [i \in 1..Len(l.words) |-> Behind(TextWords(l)[i])])
                /\ Text(l) = f[Len(l.words)]
<1> DEFINE s == [i \in 1..Len(l.words) |-> Behind(TextWords(l)[i])]
           t == [i \in 1..Len(l.words) |->
                   <<" ">> \o (IF i = 1 THEN <<":">> ELSE <<>>) \o <<l.words[i]>>]
<1>1. Len(l.words) \in Nat /\ Len(l.words) > 0
  OBVIOUS
<1>2. ASSUME NEW i \in 1..Len(l.words) PROVE s[i] \in Line
  <2>1. TextWords(l)[i] \in Line /\ <<Space>> \in Line
    BY TextWordsType, SpaceBehind DEF Word
  <2> QED BY <2>1 DEF Behind, Line
<1>3. s \in Seq(Line) /\ Len(s) = Len(l.words)
  <2>1. s \in [1..Len(l.words) -> Line]
    BY <1>2
  <2> HIDE DEF s
  <2> QED BY <1>1, <2>1
<1>4. PICK f : Concatenates(f, Vocabulary, s)
  <2> HIDE DEF s
  <2> QED BY <1>1, <1>3, FlattenRounds DEF Line
<1>5. s = t
  <2>1. ASSUME NEW i \in 1..Len(l.words) PROVE s[i] = t[i]
    <3>1. l.words[i] \in Vocabulary
      BY DEF Vocabulary
    <3>2. CASE i = 1
      <4>1. s[i] = <<Space>> \o <<":", l.words[i]>>
        BY <3>2 DEF Behind, TextWords
      <4>2. t[i] = <<Space>> \o <<":">> \o <<l.words[i]>>
        BY <3>2 DEF Space
      <4>3. Space \in Vocabulary /\ ":" \in Vocabulary
        BY DEF Vocabulary, Delimiters, Fixed
      <4>4. <<Space>> \o <<":">> \o <<l.words[i]>> = <<Space>> \o <<":", l.words[i]>>
        BY <3>1, <4>3, Triple
      <4> HIDE DEF s, t
      <4> QED BY <4>1, <4>2, <4>4
    <3>3. CASE i # 1
      <4>1. s[i] = <<Space>> \o <<l.words[i]>>
        BY <3>3 DEF Behind, TextWords
      <4>2. t[i] = <<Space>> \o <<>> \o <<l.words[i]>>
        BY <3>3 DEF Space
      <4>3. <<Space>> \o <<>> = <<Space>>
        OBVIOUS
      <4> QED BY <4>1, <4>2, <4>3
    <3> QED BY <3>2, <3>3
  <2> QED BY <2>1
<1>6. Text(l) = FlattenSeq(t)
  BY DEF Text
<1> QED BY <1>3, <1>4, <1>5, <1>6 DEF Concatenates

--------------------------------------------------------------------------------
(* The words of a line with a text. *)

(* The elements of two sequences one behind another.                        *)
IsConcat(r, s, t) ==
  /\ Len(r) = Len(s) + Len(t)
  /\ \A i \in 1..(Len(s) + Len(t)) : r[i] = IF i <= Len(s) THEN s[i] ELSE t[i - Len(s)]

LEMMA ConcatElements ==
  ASSUME NEW D, NEW s \in Seq(D), NEW t \in Seq(D), NEW r, r = s \o t
  PROVE  r \in Seq(D) /\ IsConcat(r, s, t)
<1>1. r \in Seq(D) /\ Len(r) = Len(s) + Len(t)
  OBVIOUS
<1>2. ASSUME NEW i \in 1..(Len(s) + Len(t))
      PROVE  r[i] = IF i <= Len(s) THEN s[i] ELSE t[i - Len(s)]
  OBVIOUS
<1> QED BY <1>1, <1>2 DEF IsConcat

(* Lines one behind another.                                                *)
LEMMA LineConcat ==
  ASSUME NEW a \in Line, NEW b \in Line, NEW c \in Line
  PROVE  /\ a \o b \in Line /\ Len(a \o b) = Len(a) + Len(b)
         /\ (a \o b) \o c = a \o (b \o c)
BY ConcatProperties, ConcatAssociative DEF Line

(* The words of a line and of what stands behind it.                        *)
LEMMA SplitBehind ==
  ASSUME NEW a \in Line, NEW w \in Word
  PROVE  /\ a \o Behind(w) \in Line /\ Behind(w) \in Line
         /\ Split(a \o Behind(w)) = Split(a) \o <<w>>
<1>1. <<Space>> \in Line /\ w \in Line
  BY SpaceBehind DEF Word
<1>2. a \o Behind(w) = a \o <<Space>> \o w /\ a \o Behind(w) \in Line /\ Behind(w) \in Line
  <2>1. <<Space>> \o w \in Line /\ a \o (<<Space>> \o w) = a \o <<Space>> \o w
    BY <1>1, ConcatProperties, ConcatAssociative DEF Line
  <2>2. a \o (<<Space>> \o w) \in Line
    BY <2>1, ConcatProperties DEF Line
  <2> QED BY <2>1, <2>2 DEF Behind
<1>3. Append(Split(a), w) = Split(a) \o <<w>>
  BY <1>1, SplitType, AppendIsConcat
<1> QED BY <1>2, <1>3, SplitMore

(* An empty text. *)
LEMMA NoText ==
  ASSUME NEW l, l.words = <<>>
  PROVE  Text(l) = <<>> /\ TextWords(l) = <<>>
<1>1. Len(l.words) = 0
  OBVIOUS
<1>2. \A Q : [i \in 1..0 |-> Q[i]] = <<>>
  OBVIOUS
<1>3. TextWords(l) = <<>>
  BY <1>1 DEF TextWords
<1> DEFINE t == [i \in 1..Len(l.words) |->
                   <<" ">> \o (IF i = 1 THEN <<":">> ELSE <<>>) \o <<l.words[i]>>]
<1>4. t = <<>>
  BY <1>1
<1>5. Text(l) = FlattenSeq(t)
  BY DEF Text
<1> HIDE DEF t
<1>6. FlattenSeq(t) = <<>>
  BY <1>4 DEF FlattenSeq
<1> QED BY <1>3, <1>5, <1>6

(* The words of a line with a text behind it. *)
LEMMA SplitText ==
  ASSUME NEW a \in Line, NEW l, l.words \in Seq(Words)
  PROVE  /\ a \o Text(l) \in Line
         /\ Split(a \o Text(l)) = Split(a) \o TextWords(l)
<1>1. CASE l.words = <<>>
  <2>1. a \o <<>> = a /\ Split(a) \o <<>> = Split(a)
    BY SplitType DEF Line
  <2> QED BY <1>1, <2>1, NoText
<1>2. CASE l.words # <<>>
  <2> DEFINE n == Len(l.words)
             tw == TextWords(l)
             s == [i \in 1..n |-> Behind(tw[i])]
  <2>1. n \in Nat /\ n > 0 /\ 1 \in 1..n
    BY <1>2
  <2>2. tw \in Seq(Word) /\ Len(tw) = n /\ \A i \in 1..n : tw[i] \in Word /\ tw[i] \in Line
    BY TextWordsType DEF Word
  <2>3. PICK f : Concatenates(f, Vocabulary, s) /\ Text(l) = f[n]
    BY <1>2, TextBuilt
  <2>4. /\ f[1] = Behind(tw[1]) /\ \A i \in 1..n : f[i] \in Line
        /\ \A i \in 2..n : f[i] = f[i - 1] \o Behind(tw[i])
    <3>1. Len(s) = n /\ \A i \in 1..n : s[i] = Behind(tw[i])
      BY <2>1
    <3>2. \A i \in 2..n : i \in 1..n
      BY <2>1
    <3> HIDE DEF s, n, tw
    <3> QED BY <2>1, <2>3, <3>1, <3>2 DEF Concatenates, Line
  <2> DEFINE S == {k \in Nat : k + 1 <= n =>
                     Split(a \o f[k + 1]) = Split(a) \o SubSeq(tw, 1, k + 1)}
  <2> HIDE DEF n, tw, s
  <2>5. 0 \in S
    <3>1. SubSeq(tw, 1, 1) = <<tw[1]>>
      <4>1. /\ SubSeq(tw, 1, 1) \in Seq(Word) /\ Len(SubSeq(tw, 1, 1)) = 1
            /\ SubSeq(tw, 1, 1)[1] = tw[1]
        BY <2>1, <2>2
      <4> QED BY <4>1, Single
    <3>2. Split(a \o f[1]) = Split(a) \o <<tw[1]>>
      BY <2>1, <2>2, <2>4, SplitBehind
    <3> QED BY <2>1, <3>1, <3>2
  <2>6. ASSUME NEW k \in Nat, k \in S PROVE k + 1 \in S
    <3> SUFFICES ASSUME k + 2 <= n
                 PROVE  Split(a \o f[k + 2]) = Split(a) \o SubSeq(tw, 1, k + 2)
      BY <2>1
    <3>1. /\ k + 2 \in 2..n /\ k + 2 \in 1..n /\ k + 1 \in 1..n /\ (k + 2) - 1 = k + 1
          /\ k + 1 <= n
      BY <2>1
    <3>2. f[k + 1] \in Line /\ f[k + 2] = f[k + 1] \o Behind(tw[k + 2]) /\ tw[k + 2] \in Word
      <4>1. f[k + 2] = f[(k + 2) - 1] \o Behind(tw[k + 2])
        BY <2>4, <3>1
      <4> QED BY <2>2, <2>4, <3>1, <4>1
    <3>3. a \o f[k + 1] \in Line /\ Behind(tw[k + 2]) \in Line
      BY <3>2, SplitBehind, ConcatProperties DEF Line
    <3>4. a \o f[k + 2] = (a \o f[k + 1]) \o Behind(tw[k + 2])
      <4>1. a \o (f[k + 1] \o Behind(tw[k + 2])) = (a \o f[k + 1]) \o Behind(tw[k + 2])
        BY <3>2, <3>3, LineConcat
      <4> QED BY <3>2, <4>1
    <3>5. Split(a \o f[k + 2]) = Split(a \o f[k + 1]) \o <<tw[k + 2]>>
      BY <3>2, <3>3, <3>4, SplitBehind
    <3>6. Split(a \o f[k + 1]) = Split(a) \o SubSeq(tw, 1, k + 1)
      BY <2>6, <3>1
    <3> DEFINE front == SubSeq(tw, 1, k + 1)
               last == <<tw[k + 2]>>
    <3>7. front \in Seq(Line) /\ last \in Seq(Line) /\ Split(a) \in Seq(Line)
      <4>1. SubSeq(tw, 1, k + 1) \in Seq(Word)
        BY <2>2, <3>1
      <4>2. Seq(Word) \subseteq Seq(Line)
        BY DEF Word
      <4>3. tw[k + 2] \in Line
        BY <2>2, <3>1
      <4>4. <<tw[k + 2]>> \in Seq(Line)
        BY <4>3
      <4> QED BY <4>1, <4>2, <4>4, SplitType
    <3>8. front \o last = SubSeq(tw, 1, k + 2)
      <4>1. tw \in Seq(Word) /\ k + 1 \in 1..Len(tw) /\ k + 2 \in 1..Len(tw)
        BY <2>2, <3>1
      <4>2. SubSeq(tw, 1, k + 2) = Append(SubSeq(tw, 1, k + 1), tw[k + 2])
        BY <4>1
      <4>3. SubSeq(tw, 1, k + 1) \in Seq(Word) /\ tw[k + 2] \in Word
        BY <4>1, <3>2
      <4> QED BY <4>2, <4>3, AppendIsConcat
    <3> HIDE DEF front, last
    <3>9. (Split(a) \o front) \o last = Split(a) \o (front \o last)
      BY SMTT(30), <3>7, ConcatAssociative
    <3> QED BY <3>5, <3>6, <3>8, <3>9 DEF front, last
  <2>7. \A k \in Nat : k \in S
    <3> HIDE DEF S
    <3> QED BY <2>5, <2>6, NatInd
  <2>8. Split(a \o f[n]) = Split(a) \o SubSeq(tw, 1, n)
    <3>1. n - 1 \in Nat /\ (n - 1) + 1 = n /\ (n - 1) + 1 <= n
      BY <2>1
    <3>2. n - 1 \in S
      BY <2>7, <3>1
    <3> QED BY <3>1, <3>2
  <2>9. SubSeq(tw, 1, n) = tw
    BY <2>1, <2>2
  <2>10. n \in 1..n /\ f[n] \in Line
    BY <2>1, <2>4
  <2> QED BY <2>3, <2>8, <2>9, <2>10, ConcatProperties DEF tw, Line
<1> QED BY <1>1, <1>2

(* The words put together again: the text without the space before it. *)
Joined(words) ==
  FlattenSeq([i \in 1..Len(words) |-> IF i = 1 THEN words[i] ELSE <<Space>> \o words[i]])

(* Words put together with a space between them are the text.               *)
LEMMA JoinedText ==
  ASSUME NEW l, l.words \in Seq(Words), l.words # <<>>
  PROVE  /\ Joined(TextWords(l)) \in Line
         /\ Text(l) = <<Space>> \o Joined(TextWords(l))
         /\ Joined(TextWords(l)) # <<>> /\ Joined(TextWords(l))[1] = ":"
<1> DEFINE n == Len(l.words)
           tw == TextWords(l)
           s == [i \in 1..n |-> Behind(tw[i])]
           t == [i \in 1..Len(tw) |-> IF i = 1 THEN tw[i] ELSE <<Space>> \o tw[i]]
<1>1. n \in Nat /\ n > 0 /\ 1 \in 1..n
  OBVIOUS
<1>2. tw \in Seq(Word) /\ Len(tw) = n /\ \A i \in 1..n : tw[i] \in Word /\ tw[i] \in Line
  BY TextWordsType DEF Word
<1>3. PICK f : Concatenates(f, Vocabulary, s) /\ Text(l) = f[n]
  BY TextBuilt
<1>4. /\ f[1] = Behind(tw[1]) /\ \A i \in 1..n : f[i] \in Line
      /\ \A i \in 2..n : f[i] = f[i - 1] \o Behind(tw[i])
  <2>1. Len(s) = n /\ \A i \in 1..n : s[i] = Behind(tw[i])
    BY <1>1
  <2>2. \A i \in 2..n : i \in 1..n
    BY <1>1
  <2> HIDE DEF s, n, tw
  <2> QED BY <1>1, <1>3, <2>1, <2>2 DEF Concatenates, Line
<1>5. t \in Seq(Line) /\ Len(t) = n /\ t[1] = tw[1] /\ \A i \in 2..n : t[i] = Behind(tw[i])
  <2>1. ASSUME NEW i \in 1..n PROVE t[i] \in Line
    <3>1. Behind(tw[i]) \in Line
      BY <1>2, SpaceBehind, ConcatProperties DEF Behind, Line, Word
    <3> QED BY <1>2, <2>1, <3>1 DEF Behind
  <2>2. t \in [1..n -> Line]
    BY <1>2, <2>1
  <2>3. t[1] = tw[1] /\ \A i \in 2..n : t[i] = Behind(tw[i])
    BY <1>1, <1>2 DEF Behind
  <2> HIDE DEF t, n
  <2> QED BY <1>1, <2>2, <2>3
<1> HIDE DEF t, s
<1>6. PICK g : Concatenates(g, Vocabulary, t)
  BY <1>1, <1>5, FlattenRounds DEF Line
<1>7. /\ g[1] = tw[1] /\ \A i \in 1..n : g[i] \in Line
      /\ \A i \in 2..n : g[i] = g[i - 1] \o Behind(tw[i])
      /\ Joined(tw) = g[n]
  <2>1. \A i \in 2..n : i \in 1..n
    BY <1>1
  <2>2. Joined(tw) = FlattenSeq(t)
    BY DEF Joined, t
  <2> HIDE DEF n, tw
  <2> QED BY <1>1, <1>5, <1>6, <2>1, <2>2 DEF Concatenates, Line
<1> HIDE DEF n, tw
<1> DEFINE S == {k \in Nat : k + 1 <= n =>
                   /\ f[k + 1] = <<Space>> \o g[k + 1]
                   /\ g[k + 1] # <<>> /\ g[k + 1][1] = ":"}
<1>8. 0 \in S
  <2>1. tw[1] = <<":", l.words[1]>>
    BY <1>1 DEF TextWords, tw, n
  <2>2. tw[1] # <<>> /\ tw[1][1] = ":"
    BY <2>1
  <2>3. f[1] = <<Space>> \o g[1]
    BY <1>4, <1>7 DEF Behind
  <2> QED BY <1>7, <2>2, <2>3
<1>9. ASSUME NEW k \in Nat, k \in S PROVE k + 1 \in S
  <2> SUFFICES ASSUME k + 2 <= n
               PROVE  /\ f[k + 2] = <<Space>> \o g[k + 2]
                      /\ g[k + 2] # <<>> /\ g[k + 2][1] = ":"
    BY <1>1
  <2>1. /\ k + 2 \in 2..n /\ k + 2 \in 1..n /\ k + 1 \in 1..n /\ (k + 2) - 1 = k + 1
        /\ k + 1 <= n
    BY <1>1
  <2> DEFINE b == Behind(tw[k + 2])
  <2>2. b \in Line /\ g[k + 1] \in Line /\ <<Space>> \in Line
    BY <1>2, <1>7, <2>1, SpaceBehind, SplitBehind
  <2>3. f[k + 2] = f[k + 1] \o b /\ g[k + 2] = g[k + 1] \o b
    <3>1. f[k + 2] = f[(k + 2) - 1] \o b /\ g[k + 2] = g[(k + 2) - 1] \o b
      BY <1>4, <1>7, <2>1
    <3> QED BY <2>1, <3>1
  <2>4. f[k + 1] = <<Space>> \o g[k + 1] /\ g[k + 1] # <<>> /\ g[k + 1][1] = ":"
    BY <1>9, <2>1
  <2> HIDE DEF b
  <2>5. (<<Space>> \o g[k + 1]) \o b = <<Space>> \o (g[k + 1] \o b)
    BY <2>2, LineConcat
  <2>6. g[k + 1] \o b # <<>> /\ (g[k + 1] \o b)[1] = g[k + 1][1]
    BY <2>2, <2>4 DEF Line
  <2> QED BY <2>3, <2>4, <2>5, <2>6
<1>10. \A k \in Nat : k \in S
  <2> HIDE DEF S
  <2> QED BY <1>8, <1>9, NatInd
<1>11. f[n] = <<Space>> \o g[n] /\ g[n] # <<>> /\ g[n][1] = ":"
  <2>1. n - 1 \in Nat /\ (n - 1) + 1 = n /\ (n - 1) + 1 <= n
    BY <1>1
  <2>2. n - 1 \in S
    BY <1>10, <2>1
  <2> QED BY <2>1, <2>2
<1>12. g[n] \in Line
  BY <1>1, <1>7
<1> QED BY <1>3, <1>7, <1>11, <1>12 DEF tw

(* What is put together of a line's tokens is its text without the colon.   *)
LEMMA ContentOfText ==
  ASSUME NEW head \in Seq(Line), Len(head) = 4, NEW l, l.words \in Seq(Words), l.words # <<>>
  PROVE  GetUserMessageFromSplitRawMessage(head \o TextWords(l))
           = SubSeq(Text(l), 3, Len(Text(l)))
<1> DEFINE tw == TextWords(l)
           split == head \o tw
           content == Joined(tw)
<1>1. tw \in Seq(Line) /\ Len(tw) = Len(l.words)
  <2>1. Seq(Word) \subseteq Seq(Line)
    BY DEF Word
  <2> QED BY <2>1, TextWordsType
<1>2. SubSeq(split, 5, Len(split)) = tw
  <2> HIDE DEF tw
  <2>1. split \in Seq(Line) /\ Len(split) = 4 + Len(tw)
        /\ \A i \in 1..Len(tw) : split[4 + i] = tw[i]
    <3>1. Len(tw) \in Nat /\ Len(head) = 4
      BY <1>1
    <3>2. /\ split \in Seq(Line) /\ Len(split) = Len(head) + Len(tw)
          /\ \A i \in 1..(Len(head) + Len(tw)) :
               split[i] = IF i <= Len(head) THEN head[i] ELSE tw[i - Len(head)]
      <4>1. split = head \o tw
        OBVIOUS
      <4> HIDE DEF split
      <4>2. split \in Seq(Line) /\ IsConcat(split, head, tw)
        BY <1>1, <4>1, ConcatElements
      <4> QED BY <4>2 DEF IsConcat
    <3> HIDE DEF split
    <3>3. ASSUME NEW i \in 1..Len(tw) PROVE split[4 + i] = tw[i]
      <4>1. 4 + i \in 1..(4 + Len(tw)) /\ ~(4 + i <= 4) /\ (4 + i) - 4 = i
        BY <3>1
      <4> QED BY <3>1, <3>2, <4>1
    <3> QED BY <3>1, <3>2, <3>3
  <2> HIDE DEF split
  <2>2. /\ SubSeq(split, 5, Len(split)) \in Seq(Line)
        /\ Len(SubSeq(split, 5, Len(split))) = Len(tw)
        /\ \A i \in 1..Len(tw) : SubSeq(split, 5, Len(split))[i] = split[4 + i]
    BY <1>1, <2>1
  <2> DEFINE u == SubSeq(split, 5, Len(split))
  <2> HIDE DEF u
  <2>3. u \in Seq(Line) /\ Len(u) = Len(tw) /\ \A i \in 1..Len(tw) : u[i] = tw[i]
    BY <2>1, <2>2 DEF u
  <2>4. u = tw
    BY <1>1, <2>3
  <2> QED BY <2>4 DEF u
<1>3. /\ content \in Line /\ Text(l) = <<Space>> \o content
      /\ content # <<>> /\ content[1] = ":"
  BY JoinedText
<1> HIDE DEF split, tw
<1>4. GetUserMessageFromSplitRawMessage(split) = Tail(content)
  BY <1>2, <1>3 DEF GetUserMessageFromSplitRawMessage, Joined
<1>5. Tail(content) = SubSeq(<<Space>> \o content, 3, Len(<<Space>> \o content))
  <2> HIDE DEF content
  <2> DEFINE text == <<Space>> \o content
  <2>1. /\ Len(content) \in Nat /\ Len(content) > 0 /\ content \in Seq(Vocabulary)
        /\ text \in Seq(Vocabulary) /\ Len(text) = 1 + Len(content)
        /\ \A i \in 1..Len(content) : text[1 + i] = content[i]
    BY <1>3, SpaceBehind DEF Line
  <2> HIDE DEF text
  <2>2. /\ Tail(content) \in Seq(Vocabulary) /\ Len(Tail(content)) = Len(content) - 1
        /\ \A i \in 1..(Len(content) - 1) : Tail(content)[i] = content[i + 1]
    BY <2>1
  <2> DEFINE rest == SubSeq(text, 3, Len(text))
  <2>3. /\ rest \in Seq(Vocabulary) /\ Len(rest) = Len(content) - 1
        /\ \A i \in 1..(Len(content) - 1) : rest[i] = text[i + 2]
    <3> DEFINE n == Len(text)
    <3>1. 3 \in 1..(n + 1) /\ n \in (3 - 1)..n /\ n - 3 + 1 = Len(content) - 1
      BY <2>1
    <3>2. /\ rest \in Seq(Vocabulary) /\ Len(rest) = n - 3 + 1
          /\ \A i \in 1..(n - 3 + 1) : rest[i] = text[3 + i - 1]
      BY <2>1, <3>1, SubSeqProperties
    <3>3. \A i \in 1..(Len(content) - 1) : 3 + i - 1 = i + 2
      BY <2>1
    <3> HIDE DEF n, rest
    <3> QED BY <3>1, <3>2, <3>3
  <2> HIDE DEF rest
  <2>4. \A i \in 1..(Len(content) - 1) : rest[i] = Tail(content)[i]
    <3> SUFFICES ASSUME NEW i \in 1..(Len(content) - 1) PROVE rest[i] = Tail(content)[i]
      OBVIOUS
    <3>1. i + 1 \in 1..Len(content) /\ 1 + (i + 1) = i + 2
      BY <2>1
    <3> QED BY <2>1, <2>2, <2>3, <3>1
  <2>5. rest = Tail(content)
    BY <2>1, <2>2, <2>3, <2>4
  <2> QED BY <2>5 DEF rest, text
<1> QED BY <1>3, <1>4, <1>5 DEF split, tw

--------------------------------------------------------------------------------
(* The words of a line's header. *)

(* Symbols but the space.                                                   *)
Inked == Vocabulary \ {Space}

(* Symbols without a space are a word.                                      *)
LEMMA InkedWord ==
  ASSUME NEW w \in Seq(Inked), w # <<>>
  PROVE  w \in Word
<1>1. w \in Seq(Vocabulary) /\ \A i \in 1..Len(w) : w[i] \in Inked
  BY DEF Inked
<1> QED BY <1>1 DEF Word, Line, Inked

(* A line read so far, behind which another word begins. *)
Ready(a, words) ==
  /\ a \in Line /\ (a = <<>> \/ a[Len(a)] = Space)
  /\ Split(a) = words

(* A word behind what was read, and the space behind the word.              *)
LEMMA ReadyWord ==
  ASSUME NEW a, NEW words, Ready(a, words), NEW w \in Word
  PROVE  /\ a \o w \in Line /\ Split(a \o w) = Append(words, w)
         /\ Ready(a \o (w \o <<Space>>), Append(words, w))
<1>1. a \in Line /\ w \in Line /\ <<Space>> \in Line
  BY SpaceBehind DEF Ready, Word
<1>2. a \o w \in Line /\ (a \o w) \o <<Space>> = a \o (w \o <<Space>>)
  BY ZenonT(30), <1>1, LineConcat
<1>3. Split(a \o w) = Append(words, w)
  BY <1>1, SplitWord DEF Ready
<1>4. Split((a \o w) \o <<Space>>) = Append(words, w)
  BY <1>2, <1>3, SplitSpace
<1> DEFINE b == (a \o w) \o <<Space>>
<1>5. b \in Line /\ b[Len(b)] = Space
  BY <1>2, SpaceBehind
<1> QED BY <1>2, <1>3, <1>4, <1>5 DEF Ready

(* A sequence of three elements, composed.                                  *)
LEMMA Three ==
  ASSUME NEW D, NEW x \in D, NEW y \in D, NEW z \in D
  PROVE  <<x, y>> \o <<z>> = <<x, y, z>>
<1> DEFINE s == <<x, y>> \o <<z>>
           t == <<x, y, z>>
<1>1. s \in [1..3 -> D]
  <2>1. <<x, y>> \in Seq(D) /\ <<z>> \in Seq(D) /\ Len(<<x, y>>) = 2 /\ Len(<<z>>) = 1
    OBVIOUS
  <2>2. s \in Seq(D) /\ Len(s) = 3
    BY <2>1, ConcatProperties
  <2> HIDE DEF s
  <2>3. \A r \in Seq(D) : r \in [1..Len(r) -> D]
    OBVIOUS
  <2> QED BY <2>2, <2>3
<1>2. t \in [1..3 -> D]
  OBVIOUS
<1>3. s[1] = t[1] /\ s[2] = t[2] /\ s[3] = t[3]
  OBVIOUS
<1> HIDE DEF s, t
<1>4. \A i \in 1..3 : s[i] = t[i]
  <2>1. \A i \in 1..3 : i = 1 \/ i = 2 \/ i = 3
    OBVIOUS
  <2> QED BY <1>3, <2>1
<1>5. s = t
  BY <1>1, <1>2, <1>4
<1> QED BY <1>5 DEF s, t

(* A sequence of six elements, composed.                                    *)
LEMMA Six ==
  ASSUME NEW D, NEW u \in D, NEW v \in D, NEW w \in D, NEW x \in D, NEW y \in D, NEW z \in D
  PROVE  <<u, v>> \o (<<w, x>> \o <<y, z>>) = <<u, v, w, x, y, z>>
<1> DEFINE r == <<w, x>> \o <<y, z>>
           s == <<u, v>> \o r
           t == <<u, v, w, x, y, z>>
<1>1. r \in Seq(D) /\ Len(r) = 4 /\ r[1] = w /\ r[2] = x /\ r[3] = y /\ r[4] = z
  <2>1. <<w, x>> \in Seq(D) /\ <<y, z>> \in Seq(D) /\ Len(<<w, x>>) = 2 /\ Len(<<y, z>>) = 2
    OBVIOUS
  <2>2. r \in Seq(D) /\ Len(r) = 4
    BY <2>1, ConcatProperties
  <2> QED BY <2>2
<1> HIDE DEF r
<1> DEFINE q == <<u, v>>
<1>7. q \in Seq(D) /\ Len(q) = 2 /\ q[1] = u /\ q[2] = v
  OBVIOUS
<1> HIDE DEF q
<1>8. /\ q \o r \in Seq(D) /\ Len(q \o r) = 6
      /\ \A i \in 1..6 : (q \o r)[i] = IF i <= 2 THEN q[i] ELSE r[i - 2]
  <2>1. /\ q \o r \in Seq(D) /\ Len(q \o r) = Len(q) + Len(r)
        /\ \A i \in 1..(Len(q) + Len(r)) :
             (q \o r)[i] = IF i <= Len(q) THEN q[i] ELSE r[i - Len(q)]
    BY <1>1, <1>7, ConcatProperties
  <2>2. Len(q) = 2 /\ Len(q) + Len(r) = 6
    BY <1>1, <1>7
  <2> QED BY <2>1, <2>2
<1>9. s = q \o r
  BY DEF q
<1>2. s \in [1..6 -> D]
  <2>2. s \in Seq(D) /\ Len(s) = 6
    BY <1>8, <1>9
  <2> HIDE DEF s
  <2>3. \A p \in Seq(D) : p \in [1..Len(p) -> D]
    OBVIOUS
  <2> QED BY <2>2, <2>3
<1>3. t \in [1..6 -> D]
  OBVIOUS
<1>4. /\ s[1] = t[1] /\ s[2] = t[2] /\ s[3] = t[3] /\ s[4] = t[4] /\ s[5] = t[5]
      /\ s[6] = t[6]
  <2> HIDE DEF s
  <2> QED BY <1>1, <1>7, <1>8, <1>9
<1> HIDE DEF s, t
<1>5. \A i \in 1..6 : s[i] = t[i]
  <2>1. \A i \in 1..6 : i = 1 \/ i = 2 \/ i = 3 \/ i = 4 \/ i = 5 \/ i = 6
    OBVIOUS
  <2> QED BY <1>4, <2>1
<1>6. s = t
  BY <1>2, <1>3, <1>5
<1> QED BY <1>6 DEF s, t, r

(* At the start a word begins.                                              *)
LEMMA ReadyNothing == Ready(<<>>, <<>>)
<1>1. <<>> \in Line /\ Len(<<>>) = 0
  BY DEF Line
<1> QED BY <1>1, WordsRounds DEF Ready, Split

(* A word of one symbol, or of two, and a space. *)
LEMMA ReadyOne ==
  ASSUME NEW a, NEW words, Ready(a, words), NEW x \in Inked
  PROVE  Ready(a \o <<x, Space>>, Append(words, <<x>>))
<1>1. <<x>> \o <<Space>> = <<x, Space>> /\ <<x>> \in Word
  BY Pair, Symbols1, SpaceBehind DEF Inked, Line
<1> QED BY <1>1, ReadyWord

LEMMA ReadyTwo ==
  ASSUME NEW a, NEW words, Ready(a, words), NEW x \in Inked, NEW y \in Inked
  PROVE  /\ a \o <<x, y>> \in Line /\ Split(a \o <<x, y>>) = Append(words, <<x, y>>)
         /\ Ready(a \o <<x, y, Space>>, Append(words, <<x, y>>))
<1>1. <<x, y>> \o <<Space>> = <<x, y, Space>> /\ <<x, y>> \in Word
  <2>1. x \in Vocabulary /\ y \in Vocabulary /\ x # Space /\ y # Space /\ Space \in Vocabulary
    BY DEF Inked, Vocabulary, Delimiters
  <2> QED BY <2>1, Three, Symbols2
<1> QED BY <1>1, ReadyWord

(* The words of a line in front of its text. *)
TagWords(l) == IF l.command \in TaggedCommands THEN <<Tags(l)>> ELSE <<>>
PrefixWords(l) == IF l.command = "PING" THEN <<>> ELSE <<<<":", "server">>>>
TargetWords(command) ==
  CASE command = "PING" -> <<<<":", "tmi">>>>
    [] command = "CAP" -> <<<<"*">>, <<"ACK">>, <<":", "caps">>>>
    [] OTHER -> <<<<"#", "channel">>>>

HeaderWords(l) ==
  TagWords(l) \o PrefixWords(l) \o <<<<l.command>>>> \o TargetWords(l.command)

(* The words of a text, and the commands.                                   *)
LEMMA WordsOfLine ==
  ASSUME NEW l \in ComposedLines
  PROVE  l.words \in Seq(Words) /\ l.command \in TaggedCommands \cup OtherCommands
<1>1. \A m \in Nat : WordLists(m) \subseteq Seq(Words)
  <2> SUFFICES ASSUME NEW m \in Nat, NEW n \in 0..m, NEW w \in [1..n -> Words]
               PROVE  w \in Seq(Words)
    BY DEF WordLists
  <2>1. n \in Nat
    OBVIOUS
  <2> QED BY <2>1
<1>2. <<>> \in Seq(Words)
  OBVIOUS
<1>3. \/ l \in TaggedLines
      \/ l \in [command : OtherCommands \ {"JOIN", "PART"}, words : WordLists(MaxWords)]
      \/ l \in [command : {"JOIN", "PART"}, words : {<<>>}]
  BY DEF ComposedLines
<1> QED BY <1>1, <1>2, <1>3, MessageGrammarAssumption DEF TaggedLines, OtherCommands

(* A line of a tagged command has tags.                                     *)
LEMMA TaggedLine ==
  ASSUME NEW l \in ComposedLines, l.command \in TaggedCommands
  PROVE  l \in TaggedLines
BY DEF ComposedLines, TaggedLines, TaggedCommands, OtherCommands

--------------------------------------------------------------------------------
(* The tags have no space. *)

(* The symbols written in every line are no spaces.                         *)
LEMMA InkedSymbols ==
  /\ ":" \in Inked /\ "server" \in Inked /\ "#" \in Inked /\ "channel" \in Inked
  /\ "tmi" \in Inked /\ "*" \in Inked /\ "ACK" \in Inked /\ "caps" \in Inked
  /\ TaggedCommands \cup OtherCommands \subseteq Inked
BY DEF Inked, Vocabulary, Fixed, Space, TaggedCommands, OtherCommands

(* Sequences written out.                                                   *)
LEMMA Tuple0 == ASSUME NEW D PROVE <<>> \in Seq(D)
OBVIOUS

LEMMA Tuple1 == ASSUME NEW D, NEW x \in D PROVE <<x>> \in Seq(D)
OBVIOUS

LEMMA Tuple2 == ASSUME NEW D, NEW x \in D, NEW y \in D PROVE <<x, y>> \in Seq(D)
OBVIOUS

LEMMA Tuple3 ==
  ASSUME NEW D, NEW x \in D, NEW y \in D, NEW z \in D
  PROVE  <<x, y, z>> \in Seq(D)
OBVIOUS

LEMMA Tuple4 ==
  ASSUME NEW D, NEW w \in D, NEW x \in D, NEW y \in D, NEW z \in D
  PROVE  <<w, x, y, z>> \in Seq(D)
OBVIOUS

(* What stands behind a sequence keeps its first element.                   *)
LEMMA Longer ==
  ASSUME NEW D, NEW s \in Seq(D), NEW t \in Seq(D), s # <<>>
  PROVE  s \o t \in Seq(D) /\ s \o t # <<>> /\ (s \o t)[1] = s[1]
<1>1. s \o t \in Seq(D) /\ s \o t # <<>>
  BY ConcatProperties, ConcatEqualIffEmpty
<1>2. Len(s) \in Nat /\ Len(s) > 0 /\ Len(t) \in Nat
  OBVIOUS
<1>3. 1 \in 1..Len(s) + Len(t) /\ 1 <= Len(s)
  BY <1>2
<1> QED BY <1>1, <1>3, ConcatProperties

(* Nine elements: the start of a tag token.                                 *)
LEMMA Tuple9 ==
  ASSUME NEW D, NEW q \in D, NEW r \in D, NEW s \in D, NEW t \in D, NEW u \in D,
         NEW w \in D, NEW x \in D, NEW y \in D, NEW z \in D
  PROVE  <<q, r, s, t, u, w, x, y, z>> \in Seq(D)
OBVIOUS

(* Three elements appended are three elements behind.                       *)
LEMMA AppendThree ==
  ASSUME NEW D, NEW s \in Seq(D), NEW x \in D, NEW y \in D, NEW z \in D
  PROVE  Append(Append(Append(s, x), y), z) = s \o <<x, y, z>>
<1>1. Append(s, x) = s \o <<x>> /\ Append(s, x) \in Seq(D)
  BY AppendIsConcat
<1>2. Append(Append(s, x), y) = (s \o <<x>>) \o <<y>> /\ Append(Append(s, x), y) \in Seq(D)
  BY <1>1, AppendIsConcat
<1>3. Append(Append(Append(s, x), y), z) = ((s \o <<x>>) \o <<y>>) \o <<z>>
  BY <1>2, AppendIsConcat
<1>4. (s \o <<x>>) \o <<y>> = s \o <<x, y>>
  <2>1. <<x>> \in Seq(D) /\ <<y>> \in Seq(D) /\ <<x>> \o <<y>> = <<x, y>>
    BY Pair, Tuple1
  <2>2. (s \o <<x>>) \o <<y>> = s \o (<<x>> \o <<y>>)
    BY <2>1, ConcatAssociative
  <2> QED BY <2>1, <2>2
<1>5. (s \o <<x, y>>) \o <<z>> = s \o <<x, y, z>>
  BY ConcatAssociative, Three, Tuple1, Tuple2
<1> QED BY <1>3, <1>4, <1>5

(* The symbols of the list of badges, badge by badge. *)
BadgeSymbols(l) ==
  [i \in 1..Len(l.badges) |->
     (IF i = 1 THEN <<>> ELSE <<",">>) \o <<l.badges[i][1], "/", l.badges[i][2]>>]

(* The list of badges has no space.                                         *)
LEMMA BadgesInked ==
  ASSUME NEW l \in TaggedLines
  PROVE  /\ BadgeSymbols(l) \in Seq(Seq(Inked)) /\ Len(BadgeSymbols(l)) = Len(l.badges)
         /\ Len(l.badges) \in Nat
         /\ Len(l.badges) = 0 => FlattenSeq(BadgeSymbols(l)) = <<>>
         /\ FlattenSeq(BadgeSymbols(l)) \in Seq(Inked)
         /\ \A i \in 1..Len(l.badges) :
              l.badges[i][1] \in BadgeWords /\ l.badges[i][2] \in BadgeWords
<1> DEFINE s == BadgeSymbols(l)
<1>1. l.badges \in Seq(BadgeWords \X BadgeWords)
  BY MessageGrammarAssumption DEF TaggedLines
<1>2. BadgeWords \subseteq Inked /\ "," \in Inked /\ "/" \in Inked
  BY MessageGrammarAssumption DEF Inked, Vocabulary, Delimiters, Space
<1>3. \A i \in 1..Len(l.badges) :
        l.badges[i][1] \in BadgeWords /\ l.badges[i][2] \in BadgeWords
  <2> SUFFICES ASSUME NEW i \in 1..Len(l.badges)
               PROVE  l.badges[i][1] \in BadgeWords /\ l.badges[i][2] \in BadgeWords
    OBVIOUS
  <2>1. l.badges[i] \in BadgeWords \X BadgeWords
    BY <1>1
  <2> QED BY <2>1
<1>4. ASSUME NEW i \in 1..Len(l.badges) PROVE s[i] \in Seq(Inked)
  <2>1. <<l.badges[i][1], "/", l.badges[i][2]>> \in Seq(Inked)
    BY <1>2, <1>3, Tuple3
  <2>2. <<",">> \in Seq(Inked) /\ <<>> \in Seq(Inked)
    BY <1>2, Tuple0, Tuple1
  <2>3. (IF i = 1 THEN <<>> ELSE <<",">>) \in Seq(Inked)
    BY <2>2
  <2>4. s[i] = (IF i = 1 THEN <<>> ELSE <<",">>) \o <<l.badges[i][1], "/", l.badges[i][2]>>
    BY DEF BadgeSymbols
  <2> HIDE DEF s
  <2> QED BY <2>1, <2>3, <2>4, ConcatProperties
<1>5. Len(l.badges) \in Nat
  BY <1>1
<1>6. s \in [1..Len(l.badges) -> Seq(Inked)]
  <2>1. s = [i \in 1..Len(l.badges) |-> s[i]]
    BY DEF BadgeSymbols
  <2> HIDE DEF s
  <2> QED BY <1>4, <2>1
<1>7. s \in Seq(Seq(Inked)) /\ Len(s) = Len(l.badges)
  <2> HIDE DEF s
  <2> QED BY <1>5, <1>6
<1> HIDE DEF s
<1>8. CASE Len(s) = 0
  <2>1. s = <<>>
    BY <1>7, <1>8
  <2>2. FlattenSeq(s) = s
    BY <1>8 DEF FlattenSeq
  <2> QED BY <1>3, <1>5, <1>7, <2>1, <2>2, Tuple0 DEF s
<1>9. CASE Len(s) > 0
  <2>1. PICK f : Concatenates(f, Inked, s)
    BY <1>7, <1>9, FlattenRounds
  <2>2. Len(s) \in 1..Len(s)
    BY <1>5, <1>7, <1>9
  <2>3. FlattenSeq(s) \in Seq(Inked)
    BY <2>1, <2>2 DEF Concatenates
  <2> QED BY <1>3, <1>5, <1>7, <1>9, <2>3 DEF s
<1> QED BY <1>5, <1>7, <1>8, <1>9

(* The other parts of a tag token. *)
TagStart == <<"@", "badge-info", "=", "subscriber", "/", "376", ";", "badges", "=">>
NameSymbols(l) == IF l.named THEN <<"display-name", "=", "bob", ";">> ELSE <<>>
LastSymbols == <<"user-type", "=">>

(* A tag token is its parts, and they have no space.                        *)
LEMMA TagParts ==
  ASSUME NEW l \in TaggedLines
  PROVE  /\ TagStart \in Seq(Inked) /\ TagStart # <<>> /\ <<";">> \in Seq(Inked)
         /\ NameSymbols(l) \in Seq(Inked) /\ LastSymbols \in Seq(Inked)
         /\ Tags(l) = TagStart \o FlattenSeq(BadgeSymbols(l)) \o <<";">> \o NameSymbols(l)
                        \o LastSymbols
<1>1. /\ "@" \in Inked /\ "badge-info" \in Inked /\ "subscriber" \in Inked /\ "376" \in Inked
      /\ "badges" \in Inked /\ "display-name" \in Inked /\ "bob" \in Inked
      /\ "user-type" \in Inked /\ "/" \in Inked /\ ";" \in Inked /\ "=" \in Inked
  BY DEF Inked, Vocabulary, Fixed, Delimiters, Space
<1>2. TagStart \in Seq(Inked) /\ TagStart # <<>>
  BY <1>1, Tuple9 DEF TagStart
<1>3. NameSymbols(l) \in Seq(Inked)
  <2>1. <<"display-name", "=", "bob", ";">> \in Seq(Inked) /\ <<>> \in Seq(Inked)
    BY <1>1, Tuple0, Tuple4
  <2> QED BY <2>1 DEF NameSymbols
<1>4. LastSymbols \in Seq(Inked) /\ <<";">> \in Seq(Inked)
  BY <1>1, Tuple1, Tuple2 DEF LastSymbols
<1>5. Tags(l) = TagStart \o FlattenSeq(BadgeSymbols(l)) \o <<";">> \o NameSymbols(l)
                 \o LastSymbols
  BY DEF Tags, BadgeSymbols, TagStart, NameSymbols, LastSymbols
<1> QED BY <1>2, <1>3, <1>4, <1>5

(* A tag token has no space: its badges have none. *)
LEMMA TagsWord ==
  ASSUME NEW l \in TaggedLines
  PROVE  Tags(l) \in Word /\ Tags(l)[1] = "@"
<1> DEFINE list == FlattenSeq(BadgeSymbols(l))
           start == TagStart
           name == NameSymbols(l)
           last == LastSymbols
<1>3. list \in Seq(Inked)
  BY BadgesInked
<1>4. start \in Seq(Inked) /\ start # <<>> /\ <<";">> \in Seq(Inked) /\ name \in Seq(Inked)
      /\ last \in Seq(Inked)
  BY TagParts
<1>5. Tags(l) = start \o list \o <<";">> \o name \o last
  BY TagParts
<1>6. start[1] = "@"
  BY DEF TagStart
<1> HIDE DEF start, list, name, last
<1>10. start \o list \in Seq(Inked) /\ start \o list # <<>> /\ (start \o list)[1] = "@"
  BY <1>3, <1>4, <1>6, Longer
<1> DEFINE b == start \o list
<1> HIDE DEF b
<1>7. b \o <<";">> \in Seq(Inked) /\ b \o <<";">> # <<>> /\ (b \o <<";">>)[1] = "@"
  BY <1>4, <1>10, Longer DEF b
<1> DEFINE c == b \o <<";">>
<1> HIDE DEF c
<1>8. c \o name \in Seq(Inked) /\ c \o name # <<>> /\ (c \o name)[1] = "@"
  BY <1>4, <1>7, Longer DEF c
<1> DEFINE d == c \o name
<1> HIDE DEF d
<1>9. d \o last \in Seq(Inked) /\ d \o last # <<>> /\ (d \o last)[1] = "@"
  BY <1>4, <1>8, Longer DEF d
<1> QED BY <1>5, <1>9, InkedWord DEF b, c, d

(* The concatenation under a name that the provers take as it is. *)
Cat(a, b) == a \o b

(* Four lines one behind another.                                           *)
LEMMA LineConcat4 ==
  \A a, b, c, d \in Line : Cat(Cat(Cat(a, b), c), d) = Cat(a, Cat(b, Cat(c, d)))
<1>1. \A a, b \in Line : Cat(a, b) \in Line
  BY LineConcat DEF Cat
<1>2. \A a, b, c \in Line : Cat(Cat(a, b), c) = Cat(a, Cat(b, c))
  BY ConcatAssociative DEF Cat, Line
<1> QED BY <1>1, <1>2

(* The words of a composed line: those of its header and its text's. *)
LEMMA SplitRaw ==
  ASSUME NEW l \in ComposedLines
  PROVE  Split(Raw(l)) = HeaderWords(l) \o TextWords(l)
<1> DEFINE tags == IF l.command \in TaggedCommands THEN Tags(l) \o <<" ">> ELSE <<>>
           prefix == IF l.command = "PING" THEN <<>> ELSE <<":", "server", " ">>
           a == tags \o prefix
           b == a \o <<l.command, " ">>
           tagWords == TagWords(l)
           prefixWords == PrefixWords(l)
           aWords == tagWords \o prefixWords
           bWords == aWords \o <<<<l.command>>>>
<1>1. Raw(l) = b \o Target(l.command) \o Text(l)
  BY DEF Raw
<1>2. l.words \in Seq(Words) /\ l.command \in TaggedCommands \cup OtherCommands
      /\ l.command \in Inked
  BY WordsOfLine, InkedSymbols
<1>3. Ready(tags, tagWords) /\ tagWords \in Seq(Line)
  <2>1. CASE l.command \in TaggedCommands
    <3>1. Tags(l) \in Word
      BY <2>1, TaggedLine, TagsWord
    <3>2. Ready(<<>> \o (Tags(l) \o <<Space>>), Append(<<>>, Tags(l)))
      BY <3>1, ReadyNothing, ReadyWord
    <3>3. Tags(l) \in Line /\ Tags(l) \o <<Space>> \in Line
      BY <3>1, SpaceBehind DEF Word
    <3>4. <<>> \o (Tags(l) \o <<Space>>) = Tags(l) \o <<Space>>
      BY <3>3, ConcatEmptySeq DEF Line
    <3>5. Append(<<>>, Tags(l)) = <<Tags(l)>> /\ <<Tags(l)>> \in Seq(Line)
      BY <3>3
    <3> QED BY <2>1, <3>2, <3>4, <3>5 DEF Space, TagWords
  <2>2. CASE l.command \notin TaggedCommands
    BY <2>2, ReadyNothing, Tuple0 DEF TagWords
  <2> QED BY <2>1, <2>2
<1> HIDE DEF tags, tagWords
<1>4. Ready(a, aWords) /\ aWords \in Seq(Line)
  <2>1. CASE l.command = "PING"
    <3>1. tags \o <<>> = tags /\ tagWords \o <<>> = tagWords
      BY <1>3 DEF Ready, Line
    <3> QED BY <1>3, <2>1, <3>1 DEF PrefixWords
  <2>2. CASE l.command # "PING"
    <3>1. Ready(tags \o <<":", "server", Space>>, Append(tagWords, <<":", "server">>))
      BY <1>3, ReadyTwo, InkedSymbols
    <3>2. <<":", "server">> \in Line
      BY InkedSymbols, Symbols2 DEF Inked
    <3>3. Append(tagWords, <<":", "server">>) = tagWords \o <<<<":", "server">>>>
          /\ Append(tagWords, <<":", "server">>) \in Seq(Line)
      BY <1>3, <3>2, AppendIsConcat
    <3> QED BY <2>2, <3>1, <3>3 DEF Space, PrefixWords
  <2> QED BY <2>1, <2>2
<1> HIDE DEF a, aWords
<1>5. Ready(b, bWords) /\ bWords \in Seq(Line)
  <2>1. Ready(a \o <<l.command, Space>>, Append(aWords, <<l.command>>))
    BY <1>2, <1>4, ReadyOne
  <2>2. <<l.command>> \in Line
    BY <1>2, Symbols1 DEF Inked
  <2>3. Append(aWords, <<l.command>>) = bWords /\ bWords \in Seq(Line)
    BY <1>4, <2>2, AppendIsConcat
  <2> QED BY <2>1, <2>3 DEF Space
<1> HIDE DEF b, bWords
<1> DEFINE Behind2(x, y) == /\ b \o <<x, y>> \in Line
                            /\ Split(b \o <<x, y>>) = bWords \o <<<<x, y>>>>
<1>7. HeaderWords(l) = bWords \o TargetWords(l.command)
  BY DEF HeaderWords, bWords, aWords, tagWords
<1>8. \A x, y \in Inked : Behind2(x, y)
  <2> SUFFICES ASSUME NEW x \in Inked, NEW y \in Inked PROVE Behind2(x, y)
    OBVIOUS
  <2>1. <<x, y>> \in Line
    BY Symbols2 DEF Inked
  <2>2. Append(bWords, <<x, y>>) = bWords \o <<<<x, y>>>>
    BY <1>5, <2>1, AppendIsConcat
  <2> QED BY <1>5, <2>2, ReadyTwo
<1>9. /\ b \o Target(l.command) \in Line
      /\ Split(b \o Target(l.command)) = HeaderWords(l)
  <2>1. CASE l.command = "PING"
    <3>1. Target(l.command) = <<":", "tmi">>
      BY <2>1 DEF Target
    <3>2. TargetWords(l.command) = <<<<":", "tmi">>>>
      BY <2>1 DEF TargetWords
    <3>3. Behind2(":", "tmi")
      BY <1>8, InkedSymbols
    <3> QED BY <1>7, <3>1, <3>2, <3>3
  <2>2. CASE l.command = "CAP"
    <3> DEFINE c == b \o <<"*", Space>>
               d == c \o <<"ACK", Space>>
               cWords == Append(bWords, <<"*">>)
               dWords == Append(cWords, <<"ACK">>)
    <3>1. Ready(c, cWords)
      BY <1>5, ReadyOne, InkedSymbols
    <3>2. Ready(d, dWords)
      <4> HIDE DEF c, cWords
      <4> QED BY <3>1, ReadyOne, InkedSymbols
    <3>3. d \o <<":", "caps">> \in Line
          /\ Split(d \o <<":", "caps">>) = Append(dWords, <<":", "caps">>)
      <4> HIDE DEF d, dWords
      <4>1. \A x, y \in Inked : d \o <<x, y>> \in Line
                               /\ Split(d \o <<x, y>>) = Append(dWords, <<x, y>>)
        <5> SUFFICES ASSUME NEW x \in Inked, NEW y \in Inked
                     PROVE  /\ d \o <<x, y>> \in Line
                            /\ Split(d \o <<x, y>>) = Append(dWords, <<x, y>>)
          OBVIOUS
        <5> QED BY <3>2, ReadyTwo
      <4> QED BY <4>1, InkedSymbols
    <3>4. d \o <<":", "caps">> = b \o Target(l.command)
      <4> DEFINE x == <<"*", Space>>
                 y == <<"ACK", Space>>
                 z == <<":", "caps">>
      <4>1. x \in Line /\ y \in Line /\ z \in Line /\ b \in Line
        BY <1>5, InkedSymbols, Symbols2, SpaceBehind DEF Inked, Line, Ready
      <4>2. Target(l.command) = x \o (y \o z)
        <5>1. Target(l.command) = <<"*", Space, "ACK", Space, ":", "caps">>
          BY <2>2 DEF Target, Space
        <5>2. /\ "*" \in Vocabulary /\ Space \in Vocabulary /\ "ACK" \in Vocabulary
              /\ ":" \in Vocabulary /\ "caps" \in Vocabulary
          BY DEF Vocabulary, Fixed, Delimiters
        <5> QED BY <5>1, <5>2, Six
      <4> HIDE DEF x, y, z
      <4>3. ((b \o x) \o y) \o z = b \o (x \o (y \o z))
        <5>1. Cat(Cat(Cat(b, x), y), z) = Cat(b, Cat(x, Cat(y, z)))
          BY <4>1, LineConcat4
        <5> QED BY <5>1 DEF Cat
      <4> QED BY <4>2, <4>3 DEF x, y, z
    <3>5. Append(dWords, <<":", "caps">>) = bWords \o TargetWords(l.command)
      <4>1. TargetWords(l.command) = <<<<"*">>, <<"ACK">>, <<":", "caps">>>>
        BY <2>2 DEF TargetWords
      <4>2. <<"*">> \in Line /\ <<"ACK">> \in Line /\ <<":", "caps">> \in Line
        BY InkedSymbols, Symbols1, Symbols2 DEF Inked
      <4> DEFINE x == <<"*">>
                 y == <<"ACK">>
                 z == <<":", "caps">>
      <4>3. Append(Append(Append(bWords, x), y), z) = bWords \o <<x, y, z>>
        <5> HIDE DEF x, y, z
        <5>1. x \in Line /\ y \in Line /\ z \in Line
          BY <4>2 DEF x, y, z
        <5> QED BY <1>5, <5>1, AppendThree
      <4> QED BY <4>1, <4>3
    <3> QED BY <1>7, <3>3, <3>4, <3>5
  <2>3. CASE l.command \notin {"PING", "CAP"}
    <3>1. Target(l.command) = <<"#", "channel">>
      BY <2>3 DEF Target
    <3>2. TargetWords(l.command) = <<<<"#", "channel">>>>
      BY <2>3 DEF TargetWords
    <3>3. Behind2("#", "channel")
      BY <1>8, InkedSymbols
    <3> QED BY <1>7, <3>1, <3>2, <3>3
  <2> QED BY <2>1, <2>2, <2>3
<1> QED BY <1>1, <1>2, <1>9, SplitText

--------------------------------------------------------------------------------
(* The checks of a line, one behind another. *)

(* The first of two optional answers. *)
LEMMA HeadBehind ==
  ASSUME NEW D, NEW s \in Seq(D), NEW t \in Seq(D)
  PROVE  /\ s \o t \in Seq(D)
         /\ s = <<>> => s \o t = t
         /\ s # <<>> => s \o t # <<>> /\ Head(s \o t) = Head(s)
<1>1. s \o t \in Seq(D) /\ Len(s \o t) = Len(s) + Len(t)
      /\ \A i \in 1..Len(s) : (s \o t)[i] = s[i]
  OBVIOUS
<1>2. s = <<>> => s \o t = t
  OBVIOUS
<1>3. ASSUME s # <<>> PROVE s \o t # <<>> /\ Head(s \o t) = Head(s)
  <2>1. Len(s) \in Nat /\ Len(s) > 0 /\ Len(t) \in Nat /\ 1 \in 1..Len(s)
    BY <1>3
  <2>2. Len(s \o t) > 0 /\ (s \o t)[1] = s[1]
    BY <1>1, <2>1
  <2>3. \A r \in Seq(D) : Len(r) > 0 => r # <<>> /\ Head(r) = r[1]
    OBVIOUS
  <2> QED BY <1>1, <2>1, <2>2, <2>3
<1> QED BY <1>1, <1>2, <1>3

(* Five optional answers one behind another. *)
Chain(a, b, c, d, e) == a \o b \o c \o d \o e

(* The head of five optional answers is the first that is there.            *)
LEMMA FirstAnswer ==
  ASSUME NEW D, NEW a \in Seq(D), NEW b \in Seq(D), NEW c \in Seq(D), NEW d \in Seq(D),
         NEW e \in Seq(D)
  PROVE  LET all == Chain(a, b, c, d, e) IN
         /\ all \in Seq(D)
         /\ a # <<>> => all # <<>> /\ Head(all) = Head(a)
         /\ a = <<>> /\ b # <<>> => all # <<>> /\ Head(all) = Head(b)
         /\ a = <<>> /\ b = <<>> /\ c # <<>> => all # <<>> /\ Head(all) = Head(c)
         /\ a = <<>> /\ b = <<>> /\ c = <<>> /\ d # <<>> => all # <<>> /\ Head(all) = Head(d)
         /\ a = <<>> /\ b = <<>> /\ c = <<>> /\ d = <<>> => all = e
<1>1. /\ Cat(a, b) \in Seq(D)
      /\ a = <<>> => Cat(a, b) = b
      /\ a # <<>> => Cat(a, b) # <<>> /\ Head(Cat(a, b)) = Head(a)
  BY HeadBehind DEF Cat
<1> DEFINE ab == Cat(a, b)
<1>2. /\ Cat(ab, c) \in Seq(D)
      /\ ab = <<>> => Cat(ab, c) = c
      /\ ab # <<>> => Cat(ab, c) # <<>> /\ Head(Cat(ab, c)) = Head(ab)
  <2> HIDE DEF ab
  <2>1. ab \in Seq(D)
    BY <1>1 DEF ab
  <2> QED BY <2>1, HeadBehind DEF Cat
<1> DEFINE abc == Cat(ab, c)
<1>3. /\ Cat(abc, d) \in Seq(D)
      /\ abc = <<>> => Cat(abc, d) = d
      /\ abc # <<>> => Cat(abc, d) # <<>> /\ Head(Cat(abc, d)) = Head(abc)
  <2> HIDE DEF abc
  <2>1. abc \in Seq(D)
    BY <1>2 DEF abc
  <2> QED BY <2>1, HeadBehind DEF Cat
<1> DEFINE abcd == Cat(abc, d)
<1>4. /\ Cat(abcd, e) \in Seq(D)
      /\ abcd = <<>> => Cat(abcd, e) = e
      /\ abcd # <<>> => Cat(abcd, e) # <<>> /\ Head(Cat(abcd, e)) = Head(abcd)
  <2> HIDE DEF abcd
  <2>1. abcd \in Seq(D)
    BY <1>3 DEF abcd
  <2> QED BY <2>1, HeadBehind DEF Cat
<1> DEFINE all == Cat(abcd, e)
<1>5. /\ all \in Seq(D)
      /\ a # <<>> => all # <<>> /\ Head(all) = Head(a)
      /\ a = <<>> /\ b # <<>> => all # <<>> /\ Head(all) = Head(b)
      /\ a = <<>> /\ b = <<>> /\ c # <<>> => all # <<>> /\ Head(all) = Head(c)
      /\ a = <<>> /\ b = <<>> /\ c = <<>> /\ d # <<>> => all # <<>> /\ Head(all) = Head(d)
      /\ a = <<>> /\ b = <<>> /\ c = <<>> /\ d = <<>> => all = e
  BY <1>1, <1>2, <1>3, <1>4, Zenon
<1>6. all = Chain(a, b, c, d, e)
  BY DEF Cat, Chain
<1> HIDE DEF all
<1> QED BY <1>5, <1>6

(* What the checks of a line can answer. *)
Readings(split, raw) ==
  {Badged(split[3][1], GetUserMessageFromSplitRawMessage(split), split[1]),
   CheckForJoinPart(split, raw), Plain("PING", Tail(raw)), Plain("ROOMSTATE", raw \o split[2]),
   Plain("STATUSCODE", raw \o split[2]), Plain("CAPRES", raw), Plain("CLEARCHAT", raw),
   Plain("UNKNOWN", raw)}

(* The first check that answers says what the line is. *)
LEMMA Identified ==
  ASSUME NEW raw, NEW split, Split(raw) = split, Len(split) # 0
  PROVE  /\ \A m : CheckForUserMessage(split) = <<m>> => IdentifyMessageType(raw) = m
         /\ CheckForUserMessage(split) = <<>> /\ Len(split) = 3
              => IdentifyMessageType(raw) = CheckForJoinPart(split, raw)
         /\ CheckForUserMessage(split) = <<>> /\ Len(split) # 3 =>
              /\ \A m : CheckForPing(split, raw) = <<m>> => IdentifyMessageType(raw) = m
              /\ CheckForPing(split, raw) = <<>> =>
                   /\ \A m : CheckForRoomstate(split, raw) = <<m>> => IdentifyMessageType(raw) = m
                   /\ CheckForRoomstate(split, raw) = <<>> =>
                        /\ \A m : CheckForStatusCode(split, raw) = <<m>>
                             => IdentifyMessageType(raw) = m
                        /\ CheckForStatusCode(split, raw) = <<>> =>
                             /\ \A m : CheckForCapRes(split, raw) = <<m>>
                                  => IdentifyMessageType(raw) = m
                             /\ CheckForCapRes(split, raw) = <<>> =>
                                  \A m : CheckForClearChat(split, raw) = <<m>>
                                    => IdentifyMessageType(raw) = m
<1> DEFINE D == Readings(split, raw)
           u == CheckForUserMessage(split)
           a == CheckForPing(split, raw)
           b == CheckForRoomstate(split, raw)
           c == CheckForStatusCode(split, raw)
           d == CheckForCapRes(split, raw)
           e == CheckForClearChat(split, raw)
           j == CheckForJoinPart(split, raw)
           n == Plain("UNKNOWN", raw)
           others == IF Len(split) = 3 THEN <<j>> ELSE Chain(a, b, c, d, e)
           one == IdentifyMessageType(raw)
<1>1. \A m \in D : <<m>> \in Seq(D) /\ <<m>> # <<>> /\ Head(<<m>>) = m
  <2> HIDE DEF D
  <2> QED OBVIOUS
<1>2. <<>> \in Seq(D)
  OBVIOUS
<1>3. u \in Seq(D)
  <2>1. Badged(split[3][1], GetUserMessageFromSplitRawMessage(split), split[1]) \in D
    BY DEF Readings
  <2> HIDE DEF D
  <2> QED BY <1>1, <1>2, <2>1 DEF CheckForUserMessage
<1>4. a \in Seq(D) /\ b \in Seq(D) /\ c \in Seq(D) /\ d \in Seq(D) /\ e \in Seq(D)
      /\ <<j>> \in Seq(D) /\ <<n>> \in Seq(D)
  <2>1. {Plain("PING", Tail(raw)), Plain("ROOMSTATE", raw \o split[2]),
         Plain("STATUSCODE", raw \o split[2]), Plain("CAPRES", raw), Plain("CLEARCHAT", raw),
         n, j} \subseteq D
    BY DEF Readings
  <2> HIDE DEF D
  <2> QED BY <1>1, <1>2, <2>1 DEF CheckForPing, CheckForRoomstate, CheckForStatusCode,
             CheckForCapRes, CheckForClearChat
<1>5. one = Head((u \o others) \o <<n>>)
  BY DEF IdentifyMessageType, Chain
<1>6. \A x : Head(<<x>>) = x /\ <<x>> # <<>>
  OBVIOUS
<1> HIDE DEF D, u, a, b, c, d, e, j, n, one
<1>7. others \in Seq(D)
  BY <1>4, FirstAnswer
<1>8. /\ u \o others \in Seq(D)
      /\ u = <<>> => u \o others = others
      /\ u # <<>> => u \o others # <<>> /\ Head(u \o others) = Head(u)
  <2> HIDE DEF others
  <2> QED BY <1>3, <1>7, HeadBehind
<1> DEFINE both == u \o others
<1>9. both # <<>> => one = Head(both)
  <2>1. both \in Seq(D) /\ <<n>> \in Seq(D)
    BY <1>4, <1>8
  <2> HIDE DEF both
  <2>2. one = Head(both \o <<n>>)
    BY <1>5 DEF both
  <2> QED BY <2>1, <2>2, HeadBehind
<1>10. \A m : u = <<m>> => one = m
  BY <1>6, <1>8, <1>9
<1>11. u = <<>> /\ Len(split) = 3 => one = j
  BY <1>6, <1>8, <1>9
<1>12. ASSUME u = <<>>, Len(split) # 3, others # <<>> PROVE one = Head(others)
  BY <1>8, <1>9, <1>12
<1>13. Len(split) # 3 =>
         /\ a # <<>> => others # <<>> /\ Head(others) = Head(a)
         /\ a = <<>> /\ b # <<>> => others # <<>> /\ Head(others) = Head(b)
         /\ a = <<>> /\ b = <<>> /\ c # <<>> => others # <<>> /\ Head(others) = Head(c)
         /\ a = <<>> /\ b = <<>> /\ c = <<>> /\ d # <<>>
              => others # <<>> /\ Head(others) = Head(d)
         /\ a = <<>> /\ b = <<>> /\ c = <<>> /\ d = <<>> => others = e
  BY <1>4, FirstAnswer
<1>14. ASSUME u = <<>>, Len(split) # 3
       PROVE  /\ \A m : a = <<m>> => one = m
              /\ a = <<>> => /\ \A m : b = <<m>> => one = m
                             /\ b = <<>> => /\ \A m : c = <<m>> => one = m
                                            /\ c = <<>> => /\ \A m : d = <<m>> => one = m
                                                           /\ d = <<>> => \A m : e = <<m>> => one = m
  <2> HIDE DEF others
  <2> QED BY <1>6, <1>12, <1>13, <1>14, Zenon
<1>15. /\ u = CheckForUserMessage(split) /\ a = CheckForPing(split, raw)
       /\ b = CheckForRoomstate(split, raw) /\ c = CheckForStatusCode(split, raw)
       /\ d = CheckForCapRes(split, raw) /\ e = CheckForClearChat(split, raw)
       /\ j = CheckForJoinPart(split, raw) /\ one = IdentifyMessageType(raw)
  BY DEF u, a, b, c, d, e, j, one
<1> QED BY <1>10, <1>11, <1>14, <1>15, Zenon

--------------------------------------------------------------------------------
(* The tokens of a header. *)

(* One token more. *)
LEMMA OneMore ==
  ASSUME NEW D, NEW s \in Seq(D), NEW x \in D
  PROVE  /\ s \o <<x>> \in Seq(D) /\ Len(s \o <<x>>) = Len(s) + 1
         /\ (s \o <<x>>)[Len(s) + 1] = x
         /\ \A i \in 1..Len(s) : (s \o <<x>>)[i] = s[i]
<1>1. <<x>> \in Seq(D) /\ Len(<<x>>) = 1 /\ <<x>>[1] = x
  OBVIOUS
<1> DEFINE t == <<x>>
<1> HIDE DEF t
<1>2. /\ s \o t \in Seq(D) /\ Len(s \o t) = Len(s) + Len(t)
      /\ \A i \in 1..Len(s) + Len(t) : (s \o t)[i] = IF i <= Len(s) THEN s[i] ELSE t[i - Len(s)]
  BY <1>1, ConcatProperties DEF t
<1>3. Len(s) \in Nat /\ Len(t) = 1 /\ t[1] = x
  BY <1>1 DEF t
<1>4. Len(s) + 1 \in 1..Len(s) + Len(t) /\ (Len(s) + 1) - Len(s) = 1 /\ ~(Len(s) + 1 <= Len(s))
  BY <1>3
<1>5. \A i \in 1..Len(s) : i \in 1..Len(s) + Len(t) /\ i <= Len(s)
  BY <1>3
<1>6. /\ s \o t \in Seq(D) /\ Len(s \o t) = Len(s) + 1 /\ (s \o t)[Len(s) + 1] = x
      /\ \A i \in 1..Len(s) : (s \o t)[i] = s[i]
  BY <1>2, <1>3, <1>4, <1>5
<1> QED BY <1>6 DEF t

(* The same under a name that the provers take as it is. *)
Plus(s, x) == s \o <<x>>

(* s is followed by x in r. *)
Adds(r, s, x) ==
  Len(r) = Len(s) + 1 /\ r[Len(s) + 1] = x /\ \A i \in 1..Len(s) : r[i] = s[i]

(* Plus adds one element.                                                   *)
LEMMA PlusAdds ==
  ASSUME NEW D
  PROVE  \A s \in Seq(D), x \in D : Plus(s, x) \in Seq(D) /\ Adds(Plus(s, x), s, x)
BY OneMore DEF Plus, Adds

(* A sequence of four, three, two or five tokens, built one by one.         *)
LEMMA FourOf ==
  ASSUME NEW D, NEW t \in D, NEW p \in D, NEW c \in D, NEW g \in D
  PROVE  LET h == <<t>> \o <<p>> \o <<c>> \o <<g>> IN
         h \in Seq(D) /\ Len(h) = 4 /\ h[1] = t /\ h[2] = p /\ h[3] = c /\ h[4] = g
<1> DEFINE o == <<t>>
           a == Plus(o, p)
           b == Plus(a, c)
           r == Plus(b, g)
<1>1. o \in Seq(D) /\ Len(o) = 1 /\ o[1] = t
  OBVIOUS
<1>2. r = <<t>> \o <<p>> \o <<c>> \o <<g>>
  BY DEF Plus
<1> HIDE DEF o
<1>3. a \in Seq(D) /\ Adds(a, o, p)
  BY <1>1, PlusAdds
<1> HIDE DEF a
<1>4. b \in Seq(D) /\ Adds(b, a, c)
  BY <1>3, PlusAdds
<1> HIDE DEF b
<1>5. r \in Seq(D) /\ Adds(r, b, g)
  BY <1>4, PlusAdds
<1> HIDE DEF r
<1>6. Len(a) = 2 /\ a[1] = t /\ a[2] = p
  BY <1>1, <1>3 DEF Adds
<1>7. Len(b) = 3 /\ b[1] = t /\ b[2] = p /\ b[3] = c
  BY <1>4, <1>6 DEF Adds
<1>8. Len(r) = 4 /\ r[1] = t /\ r[2] = p /\ r[3] = c /\ r[4] = g
  BY <1>5, <1>7 DEF Adds
<1> QED BY <1>2, <1>5, <1>8

LEMMA ThreeOf ==
  ASSUME NEW D, NEW p \in D, NEW c \in D, NEW g \in D
  PROVE  LET h == <<>> \o <<p>> \o <<c>> \o <<g>> IN
         h \in Seq(D) /\ Len(h) = 3 /\ h[1] = p /\ h[2] = c /\ h[3] = g
<1> DEFINE o == <<>>
           a == Plus(o, p)
           b == Plus(a, c)
           r == Plus(b, g)
<1>1. o \in Seq(D) /\ Len(o) = 0
  OBVIOUS
<1>2. r = <<>> \o <<p>> \o <<c>> \o <<g>>
  BY DEF Plus
<1> HIDE DEF o
<1>3. a \in Seq(D) /\ Adds(a, o, p)
  BY <1>1, PlusAdds
<1> HIDE DEF a
<1>4. b \in Seq(D) /\ Adds(b, a, c)
  BY <1>3, PlusAdds
<1> HIDE DEF b
<1>5. r \in Seq(D) /\ Adds(r, b, g)
  BY <1>4, PlusAdds
<1> HIDE DEF r
<1>6. Len(a) = 1 /\ a[1] = p
  BY <1>1, <1>3 DEF Adds
<1>7. Len(b) = 2 /\ b[1] = p /\ b[2] = c
  BY <1>4, <1>6 DEF Adds
<1>8. Len(r) = 3 /\ r[1] = p /\ r[2] = c /\ r[3] = g
  BY <1>5, <1>7 DEF Adds
<1> QED BY <1>2, <1>5, <1>8

LEMMA TwoOf ==
  ASSUME NEW D, NEW c \in D, NEW g \in D
  PROVE  LET h == <<>> \o <<>> \o <<c>> \o <<g>> IN
         h \in Seq(D) /\ Len(h) = 2 /\ h[1] = c /\ h[2] = g
<1> DEFINE o == <<>> \o <<>>
           a == Plus(o, c)
           r == Plus(a, g)
<1>1. o \in Seq(D) /\ Len(o) = 0
  OBVIOUS
<1>2. r = <<>> \o <<>> \o <<c>> \o <<g>>
  BY DEF Plus
<1> HIDE DEF o
<1>3. a \in Seq(D) /\ Adds(a, o, c)
  BY <1>1, PlusAdds
<1> HIDE DEF a
<1>4. r \in Seq(D) /\ Adds(r, a, g)
  BY <1>3, PlusAdds
<1> HIDE DEF r
<1>5. Len(a) = 1 /\ a[1] = c
  BY <1>1, <1>3 DEF Adds
<1>6. Len(r) = 2 /\ r[1] = c /\ r[2] = g
  BY <1>4, <1>5 DEF Adds
<1> QED BY <1>2, <1>4, <1>6

LEMMA FiveOf ==
  ASSUME NEW D, NEW p \in D, NEW c \in D, NEW x \in D, NEW y \in D, NEW z \in D
  PROVE  LET h == <<>> \o <<p>> \o <<c>> \o <<x, y, z>> IN
         h \in Seq(D) /\ Len(h) = 5 /\ h[1] = p /\ h[2] = c /\ h[3] = x
<1> DEFINE o == <<>>
           a == Plus(o, p)
           b == Plus(a, c)
           s == <<x, y, z>>
<1>1. o \in Seq(D) /\ Len(o) = 0 /\ Len(s) = 3 /\ s[1] = x /\ s \in Seq(D)
  OBVIOUS
<1>2. b \o s = <<>> \o <<p>> \o <<c>> \o <<x, y, z>>
  BY DEF Plus
<1> HIDE DEF o, s
<1>3. a \in Seq(D) /\ Adds(a, o, p)
  BY <1>1, PlusAdds
<1> HIDE DEF a
<1>4. b \in Seq(D) /\ Adds(b, a, c)
  BY <1>3, PlusAdds
<1> HIDE DEF b
<1>5. Len(a) = 1 /\ a[1] = p
  BY <1>1, <1>3 DEF Adds
<1>6. Len(b) = 2 /\ b[1] = p /\ b[2] = c
  BY <1>4, <1>5 DEF Adds
<1>7. /\ b \o s \in Seq(D) /\ Len(b \o s) = Len(b) + Len(s)
      /\ \A i \in 1..Len(b) + Len(s) : (b \o s)[i] = IF i <= Len(b) THEN b[i] ELSE s[i - Len(b)]
  BY <1>1, <1>4, ConcatProperties
<1>8. Len(b \o s) = 5 /\ (b \o s)[1] = p /\ (b \o s)[2] = c /\ (b \o s)[3] = x
  BY <1>1, <1>6, <1>7
<1> QED BY <1>2, <1>7, <1>8

(* The tokens of a line in front of its text. *)
LEMMA HeaderTokens ==
  ASSUME NEW l \in ComposedLines
  PROVE  LET h == HeaderWords(l) IN
         /\ h \in Seq(Line)
         /\ l.command \in TaggedCommands =>
              Len(h) = 4 /\ h[1] = Tags(l) /\ h[2] = <<":", "server">> /\ h[3] = <<l.command>>
         /\ l.command = "PING" => Len(h) = 2 /\ h[1] = <<"PING">>
         /\ l.command = "CAP" =>
              Len(h) = 5 /\ h[1] = <<":", "server">> /\ h[2] = <<"CAP">> /\ h[3] = <<"*">>
         /\ l.command \in {"376", "JOIN", "PART"} =>
              /\ Len(h) = 3 /\ h[1] = <<":", "server">> /\ h[2] = <<l.command>>
              /\ h[3] = <<"#", "channel">>
<1> DEFINE h == HeaderWords(l)
<1>1. /\ <<":", "server">> \in Line /\ <<"#", "channel">> \in Line /\ <<":", "tmi">> \in Line
      /\ <<"*">> \in Line /\ <<"ACK">> \in Line /\ <<":", "caps">> \in Line
      /\ <<l.command>> \in Line
  <2>1. l.command \in Inked
    BY WordsOfLine, InkedSymbols
  <2> QED BY <2>1, InkedSymbols, Symbols1, Symbols2 DEF Inked
<1>2. CASE l.command \in TaggedCommands
  <2>1. Tags(l) \in Line
    BY <1>2, TaggedLine, TagsWord DEF Word
  <2>2. h = <<Tags(l)>> \o <<<<":", "server">>>> \o <<<<l.command>>>> \o <<<<"#", "channel">>>>
    BY <1>2 DEF HeaderWords, TagWords, PrefixWords, TargetWords, TaggedCommands
  <2>3. l.command \notin {"PING", "CAP", "376", "JOIN", "PART"}
    BY <1>2 DEF TaggedCommands
  <2> HIDE DEF h
  <2>4. /\ h \in Seq(Line) /\ Len(h) = 4 /\ h[1] = Tags(l) /\ h[2] = <<":", "server">>
        /\ h[3] = <<l.command>>
    BY <1>1, <2>1, <2>2, FourOf
  <2> QED BY <1>2, <2>3, <2>4 DEF h
<1>3. CASE l.command = "PING"
  <2>1. h = <<>> \o <<>> \o <<<<l.command>>>> \o <<<<":", "tmi">>>>
    BY <1>3 DEF HeaderWords, TagWords, PrefixWords, TargetWords, TaggedCommands
  <2> HIDE DEF h
  <2>2. h \in Seq(Line) /\ Len(h) = 2 /\ h[1] = <<l.command>>
    BY <1>1, <2>1, TwoOf
  <2> QED BY <1>3, <2>2 DEF h, TaggedCommands
<1>4. CASE l.command = "CAP"
  <2>1. h = <<>> \o <<<<":", "server">>>> \o <<<<l.command>>>>
               \o <<<<"*">>, <<"ACK">>, <<":", "caps">>>>
    BY <1>4 DEF HeaderWords, TagWords, PrefixWords, TargetWords, TaggedCommands
  <2> HIDE DEF h
  <2>2. /\ h \in Seq(Line) /\ Len(h) = 5 /\ h[1] = <<":", "server">> /\ h[2] = <<l.command>>
        /\ h[3] = <<"*">>
    BY <1>1, <2>1, FiveOf
  <2> QED BY <1>4, <2>2 DEF h, TaggedCommands
<1>5. CASE l.command \in {"376", "JOIN", "PART"}
  <2>1. h = <<>> \o <<<<":", "server">>>> \o <<<<l.command>>>> \o <<<<"#", "channel">>>>
    BY <1>5 DEF HeaderWords, TagWords, PrefixWords, TargetWords, TaggedCommands
  <2> HIDE DEF h
  <2>2. /\ h \in Seq(Line) /\ Len(h) = 3 /\ h[1] = <<":", "server">> /\ h[2] = <<l.command>>
        /\ h[3] = <<"#", "channel">>
    BY <1>1, <2>1, ThreeOf
  <2> QED BY <1>5, <2>2 DEF h, TaggedCommands
<1> QED BY <1>2, <1>3, <1>4, <1>5, WordsOfLine DEF TaggedCommands, OtherCommands

--------------------------------------------------------------------------------
(* What a line is read as. *)

(* The tokens of a line: its header's and its text's. *)
LEMMA Tokens ==
  ASSUME NEW l \in ComposedLines
  PROVE  LET h == HeaderWords(l)
             split == Split(Raw(l))
         IN  /\ split \in Seq(Line) /\ Len(split) = Len(h) + Len(l.words)
             /\ Len(h) \in Nat /\ Len(l.words) \in Nat
             /\ \A i \in 1..Len(h) : split[i] = h[i]
             /\ Len(l.words) > 0 => split[Len(h) + 1] = <<":", l.words[1]>>
<1> DEFINE h == HeaderWords(l)
           t == TextWords(l)
           split == Split(Raw(l))
<1>1. h \in Seq(Line)
  BY HeaderTokens
<1>2. t \in Seq(Line) /\ Len(t) = Len(l.words) /\ Len(l.words) \in Nat
  <2>1. l.words \in Seq(Words)
    BY WordsOfLine
  <2>2. t \in Seq(Word) /\ Len(t) = Len(l.words)
    BY <2>1, TextWordsType
  <2>3. Word \subseteq Line
    BY DEF Word
  <2> HIDE DEF t
  <2> QED BY <2>1, <2>2, <2>3
<1>3. Len(l.words) > 0 => t[1] = <<":", l.words[1]>>
  <2>1. ASSUME Len(l.words) > 0 PROVE 1 \in 1..Len(l.words)
    BY <1>2, <2>1
  <2> QED BY <2>1 DEF TextWords
<1>4. split = h \o t
  BY SplitRaw
<1> HIDE DEF h, t, split
<1>5. /\ split \in Seq(Line) /\ Len(split) = Len(h) + Len(t)
      /\ \A i \in 1..Len(h) + Len(t) : split[i] = IF i <= Len(h) THEN h[i] ELSE t[i - Len(h)]
  <2>1. split \in Seq(Line) /\ IsConcat(split, h, t)
    BY <1>1, <1>2, <1>4, ConcatElements
  <2> QED BY <2>1 DEF IsConcat
<1>6. Len(h) \in Nat
  BY <1>1
<1>7. ASSUME NEW i \in 1..Len(h) PROVE split[i] = h[i]
  <2>1. i \in 1..Len(h) + Len(t) /\ i <= Len(h)
    BY <1>2, <1>6
  <2> QED BY <1>5, <2>1
<1>8. ASSUME Len(l.words) > 0 PROVE split[Len(h) + 1] = <<":", l.words[1]>>
  <2>1. Len(h) + 1 \in 1..Len(h) + Len(t) /\ ~(Len(h) + 1 <= Len(h)) /\ (Len(h) + 1) - Len(h) = 1
    BY <1>2, <1>6, <1>8
  <2>2. split[Len(h) + 1] = t[1]
    BY <1>5, <2>1
  <2> QED BY <1>3, <1>8, <2>2
<1>9. Len(split) = Len(h) + Len(l.words)
  BY <1>2, <1>5
<1> QED BY <1>2, <1>5, <1>6, <1>7, <1>8, <1>9 DEF h, split

(* Words of different lengths differ.                                       *)
LEMMA NoTagWord == \A w, x, y : <<x, y>> # <<w>>
OBVIOUS

(* Words of one symbol.                                                     *)
LEMMA SingleWord == \A x, y : <<x>> = <<y>> <=> x = y
OBVIOUS

(* A tag token is no PING: it begins with '@'.                              *)
LEMMA TagsBegin ==
  ASSUME NEW l \in TaggedLines
  PROVE  Tags(l) # <<"PING">>
<1>1. <<"PING">>[1] # "@"
  OBVIOUS
<1> QED BY <1>1, TagsWord

(* Of the second tokens only the status is a number.                        *)
LEMMA ServerIsNoNumber ==
  ~IsNumber(<<":", "server">>) /\ ~IsNumber(<<"CAP">>) /\ IsNumber(<<"376">>)
<1>1. \A s : IsNumber(s) <=> s # <<>> /\ \A i \in DOMAIN s : s[i] \in Numbers
  BY DEF IsNumber, Range
<1>2. /\ 1 \in DOMAIN <<":", "server">> /\ <<":", "server">>[1] \notin Numbers
      /\ 1 \in DOMAIN <<"CAP">> /\ <<"CAP">>[1] \notin Numbers
  BY DEF Numbers
<1>3. <<"376">> # <<>> /\ DOMAIN <<"376">> = {1} /\ <<"376">>[1] \in Numbers
  BY DEF Numbers
<1> QED BY <1>1, <1>2, <1>3

(* A user's message is read from its tags and its text. *)
LEMMA UserMessage ==
  ASSUME NEW l \in TaggedLines, l.command \in {"PRIVMSG", "USERNOTICE"}
  PROVE  Message(l) = Badged(l.command, GetUserMessageFromSplitRawMessage(Split(Raw(l))), Tags(l))
<1> DEFINE split == Split(Raw(l))
<1>1. l \in ComposedLines /\ l.command \in TaggedCommands
  BY DEF ComposedLines, TaggedCommands
<1>2. Len(split) \in Nat /\ Len(split) >= 4 /\ split[1] = Tags(l) /\ split[3] = <<l.command>>
  <2>1. LET h == HeaderWords(l) IN Len(h) = 4 /\ h[1] = Tags(l) /\ h[3] = <<l.command>>
    BY <1>1, HeaderTokens
  <2>2. LET h == HeaderWords(l)
        IN  /\ Len(split) = Len(h) + Len(l.words) /\ Len(l.words) \in Nat
            /\ \A i \in 1..Len(h) : split[i] = h[i]
    BY <1>1, Tokens
  <2> HIDE DEF split
  <2> QED BY <2>1, <2>2
<1>3. split[3] \in {<<"PRIVMSG">>, <<"USERNOTICE">>} /\ split[3][1] = l.command
  BY <1>2
<1>4. CheckForUserMessage(split)
        = <<Badged(l.command, GetUserMessageFromSplitRawMessage(split), Tags(l))>>
  BY <1>2, <1>3 DEF CheckForUserMessage
<1>5. Len(split) # 0
  BY <1>2
<1> QED BY <1>4, <1>5, Identified DEF Message

(* The line of each command, by the tokens that the checks look at. *)
LEMMA CommandIsRead ==
  ASSUME NEW l \in ComposedLines,
         Len(Split(Raw(l))) # 3 \/ l.command \in {"JOIN", "PART"}
  PROVE  ReadAsCommand(l)
<1> DEFINE split == Split(Raw(l))
           raw == Raw(l)
           h == HeaderWords(l)
<1>1. /\ Len(split) = Len(h) + Len(l.words) /\ Len(h) \in Nat /\ Len(l.words) \in Nat
      /\ \A i \in 1..Len(h) : split[i] = h[i]
      /\ Len(l.words) > 0 => split[Len(h) + 1] = <<":", l.words[1]>>
  BY Tokens
<1>2. \A t, c, r : Plain(t, r).type = t /\ Badged(t, r, c).type = t
  BY DEF Plain, Badged
<1>3. CASE l.command \in TaggedCommands
  <2>1. /\ l \in TaggedLines /\ Len(h) = 4 /\ h[1] = Tags(l) /\ h[2] = <<":", "server">>
        /\ h[3] = <<l.command>>
    BY <1>3, TaggedLine, HeaderTokens
  <2> HIDE DEF split, raw, h
  <2>2. /\ Len(split) >= 4 /\ Len(split) # 0 /\ Len(split) # 3 /\ split[1] = Tags(l)
        /\ split[2] = <<":", "server">> /\ split[3] = <<l.command>>
    BY <1>1, <2>1
  <2>3. CASE l.command \in {"PRIVMSG", "USERNOTICE"}
    <3>1. Message(l).type = l.command
      BY <1>2, <2>1, <2>3, UserMessage
    <3> QED BY <2>3, <3>1 DEF ReadAsCommand
  <2>4. CASE l.command \in {"ROOMSTATE", "CLEARCHAT"}
    <3>1. CheckForUserMessage(split) = <<>>
      BY <2>2, <2>4, SingleWord DEF CheckForUserMessage
    <3>2. CheckForPing(split, raw) = <<>>
      BY <2>1, <2>2, TagsBegin DEF CheckForPing
    <3>3. CheckForStatusCode(split, raw) = <<>>
      <4>1. ~IsNumber(<<":", "server">>)
        BY ServerIsNoNumber
      <4> QED BY <2>2, <4>1 DEF CheckForStatusCode
    <3>4. CheckForCapRes(split, raw) = <<>>
      BY <2>2, NoTagWord DEF CheckForCapRes
    <3>5. CASE l.command = "ROOMSTATE"
      <4>1. CheckForRoomstate(split, raw) = <<Plain("ROOMSTATE", raw \o split[2])>>
        BY <2>2, <3>5 DEF CheckForRoomstate
      <4>2. Message(l) = Plain("ROOMSTATE", raw \o split[2])
        BY <3>1, <3>2, <2>2, <4>1, Identified DEF Message, split, raw
      <4> QED BY <1>2, <3>5, <4>2 DEF ReadAsCommand
    <3>6. CASE l.command = "CLEARCHAT"
      <4>1. CheckForRoomstate(split, raw) = <<>>
        BY <2>2, <3>6, SingleWord DEF CheckForRoomstate
      <4>2. CheckForClearChat(split, raw) = <<Plain("CLEARCHAT", raw)>>
        BY <2>2, <3>6 DEF CheckForClearChat
      <4>3. Message(l) = Plain("CLEARCHAT", raw)
        BY <3>1, <3>2, <3>3, <3>4, <2>2, <4>1, <4>2, Identified DEF Message, split, raw
      <4> QED BY <1>2, <3>6, <4>3 DEF ReadAsCommand
    <3> QED BY <2>4, <3>5, <3>6
  <2> QED BY <1>3, <2>3, <2>4 DEF TaggedCommands
<1>4. CASE l.command = "PING"
  <2>1. Len(h) = 2 /\ h[1] = <<"PING">> /\ Len(split) # 3
    BY <1>4, HeaderTokens
  <2> HIDE DEF split, raw, h
  <2>2. /\ Len(split) \in Nat /\ Len(split) # 0 /\ Len(split) >= 2 /\ split[1] = <<"PING">>
        /\ Len(split) >= 4 => split[3] = <<":", l.words[1]>>
    BY <1>1, <2>1
  <2>3. CheckForUserMessage(split) = <<>>
    BY <2>2, NoTagWord DEF CheckForUserMessage
  <2>4. CheckForPing(split, raw) = <<Plain("PING", Tail(raw))>>
    BY <2>2 DEF CheckForPing
  <2>5. Message(l) = Plain("PING", Tail(raw))
    BY <2>1, <2>2, <2>3, <2>4, Identified DEF Message, split, raw
  <2> QED BY <1>2, <1>4, <2>5 DEF ReadAsCommand
<1>5. CASE l.command = "CAP"
  <2>1. Len(h) = 5 /\ h[1] = <<":", "server">> /\ h[2] = <<"CAP">> /\ h[3] = <<"*">>
    BY <1>5, HeaderTokens
  <2> HIDE DEF split, raw, h
  <2>2. /\ Len(split) \in Nat /\ Len(split) # 0 /\ Len(split) # 3 /\ Len(split) >= 4
        /\ split[1] = <<":", "server">> /\ split[2] = <<"CAP">> /\ split[3] = <<"*">>
    BY <1>1, <2>1
  <2>3. CheckForUserMessage(split) = <<>>
    BY <2>2, SingleWord DEF CheckForUserMessage
  <2>4. CheckForPing(split, raw) = <<>>
    BY <2>2, NoTagWord DEF CheckForPing
  <2>5. CheckForRoomstate(split, raw) = <<>>
    BY <2>2, SingleWord DEF CheckForRoomstate
  <2>6. CheckForStatusCode(split, raw) = <<>>
    BY <2>2, ServerIsNoNumber DEF CheckForStatusCode
  <2>7. CheckForCapRes(split, raw) = <<Plain("CAPRES", raw)>>
    BY <2>2 DEF CheckForCapRes
  <2>8. Message(l) = Plain("CAPRES", raw)
    BY <2>2, <2>3, <2>4, <2>5, <2>6, <2>7, Identified DEF Message, split, raw
  <2> QED BY <1>2, <1>5, <2>8 DEF ReadAsCommand
<1>6. CASE l.command \in {"376", "JOIN", "PART"}
  <2>1. /\ Len(h) = 3 /\ h[1] = <<":", "server">> /\ h[2] = <<l.command>>
        /\ h[3] = <<"#", "channel">>
    BY <1>6, HeaderTokens
  <2> HIDE DEF split, raw, h
  <2>2. /\ Len(split) \in Nat /\ Len(split) # 0 /\ Len(split) >= 3
        /\ split[1] = <<":", "server">> /\ split[2] = <<l.command>>
        /\ split[3] = <<"#", "channel">>
    BY <1>1, <2>1
  <2>3. CheckForUserMessage(split) = <<>>
    BY <2>2, NoTagWord DEF CheckForUserMessage
  <2>4. CASE l.command = "376"
    <3>1. Len(split) # 3
      BY <2>4 DEF split
    <3>2. CheckForPing(split, raw) = <<>>
      BY <2>2, NoTagWord DEF CheckForPing
    <3>3. CheckForRoomstate(split, raw) = <<>>
      BY <2>2, NoTagWord DEF CheckForRoomstate
    <3>4. CheckForStatusCode(split, raw) = <<Plain("STATUSCODE", raw \o split[2])>>
      BY <2>2, <2>4, ServerIsNoNumber DEF CheckForStatusCode
    <3>5. Message(l) = Plain("STATUSCODE", raw \o split[2])
      BY <2>2, <2>3, <3>1, <3>2, <3>3, <3>4, Identified DEF Message, split, raw
    <3> QED BY <1>2, <2>4, <3>5 DEF ReadAsCommand
  <2>5. CASE l.command \in {"JOIN", "PART"}
    <3>1. l.words = <<>>
      BY <2>5 DEF ComposedLines, TaggedLines, TaggedCommands
    <3>2. Len(split) = 3
      BY <1>1, <2>1, <3>1
    <3>3. CheckForJoinPart(split, raw) = Plain(l.command, split[3])
      BY <2>2, <2>5, SingleWord DEF CheckForJoinPart
    <3>4. Message(l) = Plain(l.command, split[3])
      BY <2>2, <2>3, <3>2, <3>3, Identified DEF Message, split, raw
    <3> QED BY <1>2, <2>5, <3>4 DEF ReadAsCommand
  <2> QED BY <1>6, <2>4, <2>5
<1> QED BY <1>3, <1>4, <1>5, <1>6, WordsOfLine DEF TaggedCommands, OtherCommands

(* Every line of the protocol is read as the message of its command,       *)
(* whatever words its text has and whatever its tags hold.                 *)
THEOREM CommandAlwaysRead == Spec => []TypeIsCommand
<1>1. TypeIsCommand
  BY CommandIsRead DEF TypeIsCommand
<1> QED BY <1>1, PTL

(* The text of a user's message is what stands behind the target.          *)
THEOREM TextAlwaysWhole == Spec => []TextIsWhole
<1>1. TextIsWhole
  <2> SUFFICES ASSUME NEW l \in UserLines, l.words # <<>> PROVE ReadWithText(l)
    BY DEF TextIsWhole
  <2>1. l \in TaggedLines /\ l.command = "PRIVMSG" /\ l \in ComposedLines
        /\ l.command \in TaggedCommands
    BY DEF UserLines, ComposedLines, TaggedCommands
  <2>2. l.words \in Seq(Words)
    BY <2>1, WordsOfLine
  <2>3. HeaderWords(l) \in Seq(Line) /\ Len(HeaderWords(l)) = 4
    BY <2>1, HeaderTokens
  <2>4. Split(Raw(l)) = HeaderWords(l) \o TextWords(l)
    BY <2>1, SplitRaw
  <2>5. GetUserMessageFromSplitRawMessage(Split(Raw(l))) = SubSeq(Text(l), 3, Len(Text(l)))
    BY <2>2, <2>3, <2>4, ContentOfText
  <2>6. \A t, c, r : Badged(t, r, c).content = r
    BY DEF Badged
  <2> QED BY <2>1, <2>5, <2>6, UserMessage DEF ReadWithText
<1> QED BY <1>1, PTL

--------------------------------------------------------------------------------
(* The loop over a tag token. *)

(* Reading the symbols s of a tag token leads from acc to end. *)
Reads(acc, s, end) ==
  \E f : /\ f = [i \in 0..Len(s) |-> f[i]] /\ f[0] = acc /\ f[Len(s)] = end
         /\ \A i \in 1..Len(s) : f[i] = NextBadgeSymbol(f[i - 1], s[i])

(* Nothing, one symbol, and one reading behind another.                     *)
LEMMA ReadsNothing == \A acc : Reads(acc, <<>>, acc)
<1> SUFFICES ASSUME NEW acc PROVE Reads(acc, <<>>, acc)
  OBVIOUS
<1> DEFINE f == [i \in 0..0 |-> acc]
<1>1. f = [i \in 0..Len(<<>>) |-> f[i]] /\ f[0] = acc /\ f[Len(<<>>)] = acc
  OBVIOUS
<1>2. \A i \in 1..Len(<<>>) : f[i] = NextBadgeSymbol(f[i - 1], <<>>[i])
  OBVIOUS
<1> HIDE DEF f
<1> QED BY <1>1, <1>2 DEF Reads

LEMMA ReadsOne == \A acc, x : Reads(acc, <<x>>, NextBadgeSymbol(acc, x))
<1> SUFFICES ASSUME NEW acc, NEW x PROVE Reads(acc, <<x>>, NextBadgeSymbol(acc, x))
  OBVIOUS
<1> DEFINE s == <<x>>
           end == NextBadgeSymbol(acc, x)
           f == [i \in 0..1 |-> IF i = 0 THEN acc ELSE end]
<1>1. Len(s) = 1 /\ s[1] = x
  OBVIOUS
<1>2. f = [i \in 0..1 |-> f[i]] /\ f[0] = acc /\ f[1] = end
  OBVIOUS
<1>3. \A i \in 1..1 : f[i] = NextBadgeSymbol(f[i - 1], s[i])
  <2>1. f[1] = NextBadgeSymbol(f[1 - 1], s[1])
    <3>1. 1 - 1 = 0
      OBVIOUS
    <3> HIDE DEF f, s
    <3> QED BY <1>1, <1>2, <3>1
  <2> QED BY <2>1
<1> HIDE DEF f, s, end
<1>4. Reads(acc, s, end)
  BY <1>1, <1>2, <1>3 DEF Reads
<1> QED BY <1>4 DEF s, end

LEMMA ReadsOn ==
  ASSUME NEW D, NEW s \in Seq(D), NEW t \in Seq(D), NEW a, NEW b, NEW c,
         Reads(a, s, b), Reads(b, t, c)
  PROVE  Reads(a, s \o t, c)
<1> DEFINE r == s \o t
           m == Len(s)
           n == Len(t)
<1>1. PICK f : /\ f = [i \in 0..m |-> f[i]] /\ f[0] = a /\ f[m] = b
               /\ \A i \in 1..m : f[i] = NextBadgeSymbol(f[i - 1], s[i])
  BY DEF Reads
<1>2. PICK g : /\ g = [i \in 0..n |-> g[i]] /\ g[0] = b /\ g[n] = c
               /\ \A i \in 1..n : g[i] = NextBadgeSymbol(g[i - 1], t[i])
  BY DEF Reads
<1>3. m \in Nat /\ n \in Nat
  OBVIOUS
<1>4. /\ Len(r) = m + n
      /\ \A i \in 1..m + n : r[i] = IF i <= m THEN s[i] ELSE t[i - m]
  BY ConcatProperties
<1> HIDE DEF r, m, n
<1> DEFINE h == [i \in 0..(m + n) |-> IF i <= m THEN f[i] ELSE g[i - m]]
<1>5. h = [i \in 0..(m + n) |-> h[i]] /\ h[0] = a
  BY <1>1, <1>3
<1>6. h[m + n] = c
  <2>1. CASE n = 0
    BY <1>1, <1>2, <1>3, <2>1
  <2>2. CASE n > 0
    <3>1. ~(m + n <= m) /\ (m + n) - m = n
      BY <1>3, <2>2
    <3> QED BY <1>2, <1>3, <3>1
  <2> QED BY <1>3, <2>1, <2>2
<1>7. ASSUME NEW i \in 1..(m + n) PROVE h[i] = NextBadgeSymbol(h[i - 1], r[i])
  <2>1. CASE i <= m
    <3>1. i \in 1..m /\ i - 1 <= m /\ i - 1 \in 0..(m + n)
      BY <1>3, <2>1
    <3>2. h[i] = f[i] /\ h[i - 1] = f[i - 1] /\ r[i] = s[i]
      BY <1>4, <2>1, <3>1
    <3> HIDE DEF h
    <3> QED BY <1>1, <3>1, <3>2
  <2>2. CASE i = m + 1
    <3>1. i - m = 1 /\ 1 \in 1..n /\ ~(i <= m) /\ i - 1 = m /\ m \in 0..(m + n) /\ 1 - 1 = 0
      BY <1>3, <2>2
    <3>2. h[i] = g[1] /\ h[i - 1] = g[0] /\ r[i] = t[1]
      BY <1>1, <1>2, <1>4, <3>1
    <3> HIDE DEF h
    <3> QED BY <1>2, <3>1, <3>2
  <2>3. CASE i > m + 1
    <3>1. /\ i - m \in 1..n /\ ~(i <= m) /\ ~(i - 1 <= m) /\ (i - 1) - m = (i - m) - 1
          /\ i - 1 \in 0..(m + n)
      BY <1>3, <2>3
    <3>2. h[i] = g[i - m] /\ h[i - 1] = g[(i - m) - 1] /\ r[i] = t[i - m]
      BY <1>4, <3>1
    <3> HIDE DEF h
    <3> QED BY <1>2, <3>1, <3>2
  <2> QED BY <1>3, <2>1, <2>2, <2>3
<1> HIDE DEF h
<1>8. Reads(a, r, c)
  <2> HIDE DEF r
  <2>1. Len(r) = m + n
    BY <1>4
  <2>2. /\ h = [i \in 0..Len(r) |-> h[i]] /\ h[0] = a /\ h[Len(r)] = c
        /\ \A i \in 1..Len(r) : h[i] = NextBadgeSymbol(h[i - 1], r[i])
    BY <1>5, <1>6, <1>7, <2>1
  <2> QED BY <2>2 DEF Reads
<1> QED BY <1>8 DEF r

(* What the loop computes is what the reading leads to. *)
LEMMA LoopReads ==
  ASSUME NEW D, NEW s \in Seq(D), NEW end, Reads(NoBadges, s, end)
  PROVE  ParseBadges(s) = end.badges
<1> DEFINE n == Len(s)
           Round(g) == [i \in 0..n |->
                          IF i = 0 THEN NoBadges ELSE NextBadgeSymbol(g[i - 1], s[i])]
           h == CHOOSE g : g = Round(g)
<1>1. PICK f : /\ f = [i \in 0..n |-> f[i]] /\ f[0] = NoBadges /\ f[n] = end
               /\ \A i \in 1..n : f[i] = NextBadgeSymbol(f[i - 1], s[i])
  BY DEF Reads
<1>2. n \in Nat
  OBVIOUS
<1>3. f = Round(f)
  <2>1. ASSUME NEW i \in 0..n
        PROVE  f[i] = IF i = 0 THEN NoBadges ELSE NextBadgeSymbol(f[i - 1], s[i])
    <3>1. i = 0 \/ i \in 1..n
      BY <1>2
    <3> QED BY <1>1, <1>2, <3>1
  <2> HIDE DEF n
  <2> QED BY <1>1, <2>1
<1>4. h = Round(h)
  <2>1. \E g : g = Round(g)
    BY <1>3
  <2> HIDE DEF Round
  <2> QED BY <2>1
<1>5. BadgeLoop(s) = h
  BY DEF BadgeLoop
<1> HIDE DEF h
<1>6. h[0] = NoBadges /\ \A i \in 1..n : h[i] = NextBadgeSymbol(h[i - 1], s[i])
  <2> HIDE DEF n
  <2>1. h[0] = NoBadges
    BY <1>2, <1>4
  <2> SUFFICES ASSUME NEW i \in 1..n PROVE h[i] = NextBadgeSymbol(h[i - 1], s[i])
    BY <2>1
  <2>2. i \in 0..n /\ i # 0
    BY <1>2
  <2> QED BY <1>4, <2>2
<1> DEFINE S == {k \in Nat : k <= n => h[k] = f[k]}
<1>7. 0 \in S
  BY <1>1, <1>6
<1>8. ASSUME NEW k \in Nat, k \in S PROVE k + 1 \in S
  <2> SUFFICES ASSUME k + 1 <= n PROVE h[k + 1] = f[k + 1]
    OBVIOUS
  <2> HIDE DEF n
  <2>1. k + 1 \in 1..n /\ (k + 1) - 1 = k /\ h[k] = f[k]
    BY <1>2, <1>8
  <2> QED BY <1>1, <1>6, <2>1
<1>9. n \in S
  <2> HIDE DEF S, n
  <2> QED BY <1>2, <1>7, <1>8, NatInd
<1>10. h[n] = end
  BY <1>1, <1>2, <1>9
<1> QED BY <1>5, <1>10 DEF ParseBadges

--------------------------------------------------------------------------------
(* The badges read of a tag token. *)

(* The ends of a value. *)
Comma == ","
Semicolon == ";"

(* Append under a name that the provers take as it is. *)
Put(s, x) == Append(s, x)

(* The reading in a key and in a value, and its badges once the value is pushed. *)
InKey(B, k, v) == [badges |-> B, badge |-> k, seted |-> FALSE, value |-> v]
InValue(B, k, v) == [badges |-> B, badge |-> k, seted |-> TRUE, value |-> v]

Pushed(B, k, v) ==
  [j \in DOMAIN B \cup {k} |->
     IF j \notin DOMAIN B THEN <<v>> ELSE IF j = k THEN Append(B[j], v) ELSE B[j]]

(* A symbol of a key; '=' ends it.                                          *)
LEMMA KeyChanges ==
  ASSUME NEW B, NEW k, NEW v, NEW w
  PROVE  [InKey(B, k, v) EXCEPT !.badge = w] = InKey(B, w, v)
<1> DEFINE s == FALSE
           acc == InKey(B, k, v)
           t == [acc EXCEPT !.badge = w]
           u == InKey(B, w, v)
<1>1. u = [badges |-> B, badge |-> w, seted |-> s, value |-> v]
  BY DEF InKey
<1>2. acc = [badges |-> B, badge |-> k, seted |-> s, value |-> v]
  BY DEF InKey
<1> HIDE DEF s, acc
<1>3. acc \in [badges : {B}, badge : {k}, seted : {s}, value : {v}]
  BY <1>2
<1>4. t \in [badges : {B}, badge : {w}, seted : {s}, value : {v}]
  BY <1>3
<1>5. u \in [badges : {B}, badge : {w}, seted : {s}, value : {v}]
  BY <1>1
<1> HIDE DEF t, u
<1>6. t = u
  BY <1>4, <1>5
<1> QED BY <1>6 DEF t, u, acc

LEMMA KeySymbol ==
  ASSUME NEW B, NEW k, NEW v, NEW x, x # "="
  PROVE  NextBadgeSymbol(InKey(B, k, v), x) = InKey(B, Put(k, x), v)
<1> DEFINE acc == InKey(B, k, v)
           w == Put(k, x)
<1>1. ~acc.seted /\ acc.badge = k /\ acc.value = v /\ acc.badges = B
  BY DEF InKey
<1>2. [acc EXCEPT !.badge = w] = InKey(B, w, v)
  <2> HIDE DEF w
  <2> QED BY KeyChanges
<1> HIDE DEF acc
<1>3. NextBadgeSymbol(acc, x) = [acc EXCEPT !.badge = w]
  BY <1>1 DEF NextBadgeSymbol, Put
<1> QED BY <1>2, <1>3 DEF acc

LEMMA EqualsChanges ==
  ASSUME NEW B, NEW k, NEW v
  PROVE  [InKey(B, k, v) EXCEPT !.seted = TRUE] = InValue(B, k, v)
<1> DEFINE s == FALSE
           w == TRUE
           acc == InKey(B, k, v)
           t == [acc EXCEPT !.seted = w]
           u == InValue(B, k, v)
<1>1. u = [badges |-> B, badge |-> k, seted |-> w, value |-> v]
  BY DEF InValue
<1>2. acc = [badges |-> B, badge |-> k, seted |-> s, value |-> v]
  BY DEF InKey
<1> HIDE DEF s, acc, w
<1>3. acc \in [badges : {B}, badge : {k}, seted : {s}, value : {v}]
  BY <1>2
<1>4. t \in [badges : {B}, badge : {k}, seted : {w}, value : {v}]
  BY <1>3
<1>5. u \in [badges : {B}, badge : {k}, seted : {w}, value : {v}]
  BY <1>1
<1> HIDE DEF t, u
<1>6. t = u
  BY <1>4, <1>5
<1> QED BY <1>6 DEF t, u, acc, w

LEMMA EqualsSymbol ==
  ASSUME NEW B, NEW k, NEW v
  PROVE  NextBadgeSymbol(InKey(B, k, v), "=") = InValue(B, k, v)
<1> DEFINE acc == InKey(B, k, v)
<1>1. ~acc.seted /\ acc.badge = k /\ acc.value = v /\ acc.badges = B
  BY DEF InKey
<1>2. [acc EXCEPT !.seted = TRUE] = InValue(B, k, v)
  BY EqualsChanges
<1> HIDE DEF acc
<1>3. NextBadgeSymbol(acc, "=") = [acc EXCEPT !.seted = TRUE]
  BY <1>1 DEF NextBadgeSymbol
<1> QED BY <1>2, <1>3 DEF acc

(* A symbol of a value; ',' and ';' end it.                                 *)
LEMMA ValueChanges ==
  ASSUME NEW B, NEW k, NEW v, NEW w
  PROVE  [InValue(B, k, v) EXCEPT !.value = w] = InValue(B, k, w)
<1> DEFINE s == TRUE
           acc == InValue(B, k, v)
           t == [acc EXCEPT !.value = w]
           u == InValue(B, k, w)
<1>1. u = [badges |-> B, badge |-> k, seted |-> s, value |-> w]
  BY DEF InValue
<1>2. acc = [badges |-> B, badge |-> k, seted |-> s, value |-> v]
  BY DEF InValue
<1> HIDE DEF s, acc
<1>3. acc \in [badges : {B}, badge : {k}, seted : {s}, value : {v}]
  BY <1>2
<1>4. t \in [badges : {B}, badge : {k}, seted : {s}, value : {w}]
  BY <1>3
<1>5. u \in [badges : {B}, badge : {k}, seted : {s}, value : {w}]
  BY <1>1
<1> HIDE DEF t, u
<1>6. t = u
  BY <1>4, <1>5
<1> QED BY <1>6 DEF t, u, acc

LEMMA ValueSymbol ==
  ASSUME NEW B, NEW k, NEW v, NEW x, x # Comma, x # Semicolon, x # "="
  PROVE  NextBadgeSymbol(InValue(B, k, v), x) = InValue(B, k, Put(v, x))
<1> DEFINE acc == InValue(B, k, v)
           w == Put(v, x)
<1>1. acc.seted /\ acc.badge = k /\ acc.value = v /\ acc.badges = B
  BY DEF InValue
<1>2. [acc EXCEPT !.value = w] = InValue(B, k, w)
  <2> HIDE DEF w
  <2>1. \A u : [InValue(B, k, v) EXCEPT !.value = u] = InValue(B, k, u)
    BY ValueChanges
  <2> QED BY <2>1
<1> HIDE DEF acc
<1>3. NextBadgeSymbol(acc, x) = [acc EXCEPT !.value = w]
  BY <1>1 DEF NextBadgeSymbol, Put, Comma, Semicolon
<1> QED BY <1>2, <1>3 DEF acc

LEMMA CommaSymbol ==
  ASSUME NEW B, NEW k, NEW v
  PROVE  NextBadgeSymbol(InValue(B, k, v), Comma) = InValue(Pushed(B, k, v), k, <<>>)
BY Zenon DEF NextBadgeSymbol, InKey, InValue, PushValue, Pushed, Comma

LEMMA SemicolonSymbol ==
  ASSUME NEW B, NEW k, NEW v
  PROVE  NextBadgeSymbol(InValue(B, k, v), Semicolon) = InKey(Pushed(B, k, v), <<>>, <<>>)
BY Zenon DEF NextBadgeSymbol, InKey, InValue, PushValue, Pushed, Semicolon

(* Values of one, two and three symbols.                                    *)
LEMMA PutOne == \A x : Put(<<>>, x) = <<x>>
BY DEF Put

LEMMA PutTwo == \A x, y : Put(<<x>>, y) = <<x, y>>
<1> SUFFICES ASSUME NEW x, NEW y PROVE Put(<<x>>, y) = <<x, y>>
  OBVIOUS
<1> DEFINE D == {x, y}
<1>1. x \in D /\ y \in D
  OBVIOUS
<1> HIDE DEF D
<1> QED BY <1>1, Pair, AppendIsConcat, Tuple1 DEF Put

LEMMA PutLast == \A x, y, z : Put(<<x, y>>, z) = <<x, y, z>>
<1> SUFFICES ASSUME NEW x, NEW y, NEW z PROVE Put(<<x, y>>, z) = <<x, y, z>>
  OBVIOUS
<1> DEFINE D == {x, y, z}
<1>1. x \in D /\ y \in D /\ z \in D
  OBVIOUS
<1> HIDE DEF D
<1> QED BY ZenonT(30), <1>1, Three, AppendIsConcat, Tuple2 DEF Put

(* The symbols of a badge, behind what was read before. *)
LEMMA ReadsBadge ==
  ASSUME NEW D, NEW B, NEW k, NEW x \in D, NEW y \in D, NEW z \in D,
         {x, y, z} \cap {Comma, Semicolon, "="} = {}
  PROVE  Reads(InValue(B, k, <<>>), <<x, y, z>>, InValue(B, k, <<x, y, z>>))
<1> DEFINE r0 == InValue(B, k, <<>>)
           r1 == InValue(B, k, <<x>>)
           r2 == InValue(B, k, <<x, y>>)
           r3 == InValue(B, k, <<x, y, z>>)
<1>1. Put(<<>>, x) = <<x>>
  BY PutOne
<1>2. Put(<<x>>, y) = <<x, y>> /\ Put(<<x, y>>, z) = <<x, y, z>>
  BY PutTwo, PutLast
<1>3. \A c \in {x, y, z} : c # Comma /\ c # Semicolon /\ c # "="
  OBVIOUS
<1>4. /\ NextBadgeSymbol(r0, x) = InValue(B, k, Put(<<>>, x))
      /\ NextBadgeSymbol(r1, y) = InValue(B, k, Put(<<x>>, y))
      /\ NextBadgeSymbol(r2, z) = InValue(B, k, Put(<<x, y>>, z))
  <2>1. \A u, c : c # Comma /\ c # Semicolon /\ c # "=" =>
          NextBadgeSymbol(InValue(B, k, u), c) = InValue(B, k, Put(u, c))
    BY ValueSymbol
  <2> QED BY <1>3, <2>1
<1>5. NextBadgeSymbol(r0, x) = r1 /\ NextBadgeSymbol(r1, y) = r2 /\ NextBadgeSymbol(r2, z) = r3
  BY <1>1, <1>2, <1>4
<1> HIDE DEF r0, r1, r2, r3
<1>6. Reads(r0, <<x>>, r1) /\ Reads(r1, <<y>>, r2) /\ Reads(r2, <<z>>, r3)
  BY <1>5, ReadsOne
<1>7. <<x>> \in Seq(D) /\ <<y>> \in Seq(D) /\ <<z>> \in Seq(D) /\ <<x, y>> \in Seq(D)
  BY Tuple1, Tuple2
<1> DEFINE s1 == <<x>>
           s2 == <<y>>
           s3 == <<z>>
           s12 == <<x, y>>
<1>8. s1 \o s2 = s12 /\ s12 \o s3 = <<x, y, z>>
  BY Pair, Three
<1>9. Reads(r0, s12, r2)
  <2> HIDE DEF s1, s2, s12
  <2>1. s1 \in Seq(D) /\ s2 \in Seq(D) /\ Reads(r0, s1, r1) /\ Reads(r1, s2, r2)
    BY <1>6, <1>7 DEF s1, s2
  <2>2. Reads(r0, s1 \o s2, r2)
    BY <2>1, ReadsOn
  <2> QED BY <1>8, <2>2
<1>10. Reads(r0, s12 \o s3, r3)
  <2> HIDE DEF s12, s3
  <2>1. s12 \in Seq(D) /\ s3 \in Seq(D) /\ Reads(r2, s3, r3)
    BY <1>6, <1>7 DEF s12, s3
  <2> QED BY <1>9, <2>1, ReadsOn
<1> QED BY <1>8, <1>10 DEF r0, r3

(* Nine symbols: those before the badges. *)
LEMMA ReadsNine ==
  ASSUME NEW a0, NEW x1, NEW x2, NEW x3, NEW x4, NEW x5, NEW x6, NEW x7, NEW x8, NEW x9
  PROVE  LET a1 == NextBadgeSymbol(a0, x1)
             a2 == NextBadgeSymbol(a1, x2)
             a3 == NextBadgeSymbol(a2, x3)
             a4 == NextBadgeSymbol(a3, x4)
             a5 == NextBadgeSymbol(a4, x5)
             a6 == NextBadgeSymbol(a5, x6)
             a7 == NextBadgeSymbol(a6, x7)
             a8 == NextBadgeSymbol(a7, x8)
         IN  Reads(a0, <<x1, x2, x3, x4, x5, x6, x7, x8, x9>>, NextBadgeSymbol(a8, x9))
<1> DEFINE a1 == NextBadgeSymbol(a0, x1)
           a2 == NextBadgeSymbol(a1, x2)
           a3 == NextBadgeSymbol(a2, x3)
           a4 == NextBadgeSymbol(a3, x4)
           a5 == NextBadgeSymbol(a4, x5)
           a6 == NextBadgeSymbol(a5, x6)
           a7 == NextBadgeSymbol(a6, x7)
           a8 == NextBadgeSymbol(a7, x8)
           a9 == NextBadgeSymbol(a8, x9)
<1>0. /\ a1 = NextBadgeSymbol(a0, x1) /\ a2 = NextBadgeSymbol(a1, x2)
      /\ a3 = NextBadgeSymbol(a2, x3) /\ a4 = NextBadgeSymbol(a3, x4)
      /\ a5 = NextBadgeSymbol(a4, x5) /\ a6 = NextBadgeSymbol(a5, x6)
      /\ a7 = NextBadgeSymbol(a6, x7) /\ a8 = NextBadgeSymbol(a7, x8)
      /\ a9 = NextBadgeSymbol(a8, x9)
  OBVIOUS
<1> HIDE DEF a1, a2, a3, a4, a5, a6, a7, a8, a9
<1> DEFINE s == <<x1, x2, x3, x4, x5, x6, x7, x8, x9>>
           f == [i \in 0..9 |-> CASE i = 0 -> a0 [] i = 1 -> a1 [] i = 2 -> a2 [] i = 3 -> a3
                                  [] i = 4 -> a4 [] i = 5 -> a5 [] i = 6 -> a6 [] i = 7 -> a7
                                  [] i = 8 -> a8 [] OTHER -> a9]
<1>1. Len(s) = 9 /\ s[1] = x1 /\ s[2] = x2 /\ s[3] = x3 /\ s[4] = x4 /\ s[5] = x5
      /\ s[6] = x6 /\ s[7] = x7 /\ s[8] = x8 /\ s[9] = x9
  OBVIOUS
<1>2. f = [i \in 0..9 |-> f[i]] /\ f[0] = a0 /\ f[1] = a1 /\ f[2] = a2 /\ f[3] = a3 /\ f[4] = a4
      /\ f[5] = a5 /\ f[6] = a6 /\ f[7] = a7 /\ f[8] = a8 /\ f[9] = a9
  OBVIOUS
<1> HIDE DEF s, f
<1>3. ASSUME NEW i \in 1..9 PROVE f[i] = NextBadgeSymbol(f[i - 1], s[i])
  <2>1. i = 1 \/ i = 2 \/ i = 3 \/ i = 4 \/ i = 5 \/ i = 6 \/ i = 7 \/ i = 8 \/ i = 9
    OBVIOUS
  <2> QED BY <1>0, <1>1, <1>2, <2>1
<1>4. Reads(a0, s, a9)
  BY <1>1, <1>2, <1>3 DEF Reads
<1> QED BY <1>4 DEF s, a1, a2, a3, a4, a5, a6, a7, a8, a9

(* Four symbols: those of the name. *)
LEMMA ReadsFour ==
  ASSUME NEW a0, NEW x1, NEW x2, NEW x3, NEW x4
  PROVE  LET a1 == NextBadgeSymbol(a0, x1)
             a2 == NextBadgeSymbol(a1, x2)
             a3 == NextBadgeSymbol(a2, x3)
         IN  Reads(a0, <<x1, x2, x3, x4>>, NextBadgeSymbol(a3, x4))
<1> DEFINE a1 == NextBadgeSymbol(a0, x1)
           a2 == NextBadgeSymbol(a1, x2)
           a3 == NextBadgeSymbol(a2, x3)
           a4 == NextBadgeSymbol(a3, x4)
<1>0. /\ a1 = NextBadgeSymbol(a0, x1) /\ a2 = NextBadgeSymbol(a1, x2)
      /\ a3 = NextBadgeSymbol(a2, x3) /\ a4 = NextBadgeSymbol(a3, x4)
  OBVIOUS
<1> HIDE DEF a1, a2, a3, a4
<1> DEFINE s == <<x1, x2, x3, x4>>
           f == [i \in 0..4 |-> CASE i = 0 -> a0 [] i = 1 -> a1 [] i = 2 -> a2 [] i = 3 -> a3
                                  [] OTHER -> a4]
<1>1. Len(s) = 4 /\ s[1] = x1 /\ s[2] = x2 /\ s[3] = x3 /\ s[4] = x4
  OBVIOUS
<1>2. f = [i \in 0..4 |-> f[i]] /\ f[0] = a0 /\ f[1] = a1 /\ f[2] = a2 /\ f[3] = a3 /\ f[4] = a4
  OBVIOUS
<1> HIDE DEF s, f
<1>3. ASSUME NEW i \in 1..4 PROVE f[i] = NextBadgeSymbol(f[i - 1], s[i])
  <2>1. i = 1 \/ i = 2 \/ i = 3 \/ i = 4
    OBVIOUS
  <2> QED BY <1>0, <1>1, <1>2, <2>1
<1>4. Reads(a0, s, a4)
  BY <1>1, <1>2, <1>3 DEF Reads
<1> QED BY <1>4 DEF s, a1, a2, a3, a4

(* The keys of the tags. *)
MonthsKey == <<"@", "badge-info">>
BadgesKey == <<"badges">>
NameKey == <<"display-name">>
Months == <<"subscriber", "/", "376">>

LEMMA KeysDiffer == MonthsKey # BadgesKey /\ NameKey # BadgesKey /\ NameKey # MonthsKey
BY DEF MonthsKey, BadgesKey, NameKey

(* The badges read of a tag token whose list is given. *)
OnlyMonths == [j \in {MonthsKey} |-> <<Months>>]
WithBadges(list) == [j \in {MonthsKey, BadgesKey} |-> IF j = BadgesKey THEN list ELSE <<Months>>]

(* The first badge and one more.                                            *)
LEMMA FirstPushed == \A v : Pushed(OnlyMonths, BadgesKey, v) = WithBadges(<<v>>)
BY KeysDiffer DEF Pushed, OnlyMonths, WithBadges

LEMMA NextPushed ==
  \A list, v : Pushed(WithBadges(list), BadgesKey, v) = WithBadges(Append(list, v))
BY KeysDiffer DEF Pushed, WithBadges

(* What stands before the list of badges. *)
LEMMA ReadsStart ==
  Reads(NoBadges, <<"@", "badge-info", "=", "subscriber", "/", "376", Semicolon, "badges", "=">>,
        InValue(OnlyMonths, BadgesKey, <<>>))
<1> DEFINE E == [j \in {} |-> <<>>]
           a0 == InKey(E, <<>>, <<>>)
           a1 == InKey(E, <<"@">>, <<>>)
           a2 == InKey(E, MonthsKey, <<>>)
           a3 == InValue(E, MonthsKey, <<>>)
           a4 == InValue(E, MonthsKey, <<"subscriber">>)
           a5 == InValue(E, MonthsKey, <<"subscriber", "/">>)
           a6 == InValue(E, MonthsKey, Months)
           a7 == InKey(OnlyMonths, <<>>, <<>>)
           a8 == InKey(OnlyMonths, BadgesKey, <<>>)
           a9 == InValue(OnlyMonths, BadgesKey, <<>>)
<1>1. NoBadges = a0
  BY DEF NoBadges, InKey
<1>2. Put(<<>>, "@") = <<"@">> /\ Put(<<>>, "subscriber") = <<"subscriber">>
      /\ Put(<<>>, "badges") = BadgesKey
  BY PutOne DEF BadgesKey
<1>3. Put(<<"@">>, "badge-info") = MonthsKey
  BY PutTwo DEF MonthsKey
<1>4. Put(<<"subscriber">>, "/") = <<"subscriber", "/">>
  BY PutTwo
<1>5. Put(<<"subscriber", "/">>, "376") = Months
  BY PutLast DEF Months
<1>6. Pushed(E, MonthsKey, Months) = OnlyMonths
  BY DEF Pushed, OnlyMonths
<1> HIDE DEF E
<1>13. "@" # "=" /\ "badge-info" # "=" /\ "badges" # "="
  OBVIOUS
<1>14. \A c \in {"subscriber", "/", "376"} : c # Comma /\ c # Semicolon /\ c # "="
  BY Zenon DEF Comma, Semicolon
<1>7. /\ NextBadgeSymbol(a0, "@") = InKey(E, Put(<<>>, "@"), <<>>)
      /\ NextBadgeSymbol(a1, "badge-info") = InKey(E, Put(<<"@">>, "badge-info"), <<>>)
      /\ NextBadgeSymbol(a7, "badges") = InKey(OnlyMonths, Put(<<>>, "badges"), <<>>)
  <2>1. NextBadgeSymbol(a0, "@") = InKey(E, Put(<<>>, "@"), <<>>)
    BY <1>13, KeySymbol
  <2>2. NextBadgeSymbol(a1, "badge-info") = InKey(E, Put(<<"@">>, "badge-info"), <<>>)
    BY <1>13, KeySymbol
  <2>3. NextBadgeSymbol(a7, "badges") = InKey(OnlyMonths, Put(<<>>, "badges"), <<>>)
    BY <1>13, KeySymbol
  <2> QED BY <2>1, <2>2, <2>3
<1>8. NextBadgeSymbol(a2, "=") = a3 /\ NextBadgeSymbol(a8, "=") = a9
  BY EqualsSymbol
<1>9. /\ NextBadgeSymbol(a3, "subscriber") = InValue(E, MonthsKey, Put(<<>>, "subscriber"))
      /\ NextBadgeSymbol(a4, "/") = InValue(E, MonthsKey, Put(<<"subscriber">>, "/"))
      /\ NextBadgeSymbol(a5, "376")
           = InValue(E, MonthsKey, Put(<<"subscriber", "/">>, "376"))
  <2>0. \A B, k, u, c : c # Comma /\ c # Semicolon /\ c # "=" =>
          NextBadgeSymbol(InValue(B, k, u), c) = InValue(B, k, Put(u, c))
    BY ValueSymbol
  <2>1. NextBadgeSymbol(a3, "subscriber") = InValue(E, MonthsKey, Put(<<>>, "subscriber"))
    BY <1>14, <2>0
  <2>2. NextBadgeSymbol(a4, "/") = InValue(E, MonthsKey, Put(<<"subscriber">>, "/"))
    BY <1>14, <2>0
  <2>3. NextBadgeSymbol(a5, "376")
          = InValue(E, MonthsKey, Put(<<"subscriber", "/">>, "376"))
    BY <1>14, <2>0
  <2> QED BY <2>1, <2>2, <2>3
<1>10. NextBadgeSymbol(a6, Semicolon) = a7
  BY <1>6, SemicolonSymbol
<1>12. /\ a1 = NextBadgeSymbol(a0, "@") /\ a2 = NextBadgeSymbol(a1, "badge-info")
       /\ a3 = NextBadgeSymbol(a2, "=") /\ a4 = NextBadgeSymbol(a3, "subscriber")
       /\ a5 = NextBadgeSymbol(a4, "/") /\ a6 = NextBadgeSymbol(a5, "376")
       /\ a7 = NextBadgeSymbol(a6, Semicolon) /\ a8 = NextBadgeSymbol(a7, "badges")
       /\ a9 = NextBadgeSymbol(a8, "=")
  BY <1>2, <1>3, <1>4, <1>5, <1>7, <1>8, <1>9, <1>10
<1> HIDE DEF a0, a1, a2, a3, a4, a5, a6, a7, a8, a9
<1>11. Reads(a0, <<"@", "badge-info", "=", "subscriber", "/", "376", Semicolon, "badges", "=">>, a9)
  <2>1. \A x1, x2, x3, x4, x5, x6, x7, x8, x9 :
          Reads(a0, <<x1, x2, x3, x4, x5, x6, x7, x8, x9>>,
                NextBadgeSymbol(NextBadgeSymbol(NextBadgeSymbol(NextBadgeSymbol(NextBadgeSymbol(
                  NextBadgeSymbol(NextBadgeSymbol(NextBadgeSymbol(NextBadgeSymbol(
                    a0, x1), x2), x3), x4), x5), x6), x7), x8), x9))
    BY ReadsNine
  <2> QED BY <1>12, <2>1
<1> QED BY <1>1, <1>11 DEF a9

--------------------------------------------------------------------------------
(* The list of badges. *)

(* The raw badges of a line. *)
RawBadge(l, i) == <<l.badges[i][1], "/", l.badges[i][2]>>
RawList(l) == [i \in 1..Len(l.badges) |-> RawBadge(l, i)]

(* What the reading has of the badges: those before the last and its value. *)
Listed(acc, raws) ==
  \E B, v : acc = InValue(B, BadgesKey, v) /\ Pushed(B, BadgesKey, v) = WithBadges(raws)

(* The symbols of a badge are read as its value.                            *)
LEMMA ReadsRawBadge ==
  ASSUME NEW l \in TaggedLines, NEW i \in 1..Len(l.badges), NEW B
  PROVE  /\ RawBadge(l, i) \in Seq(Inked)
         /\ Reads(InValue(B, BadgesKey, <<>>), RawBadge(l, i), InValue(B, BadgesKey, RawBadge(l, i)))
<1>1. l.badges[i][1] \in BadgeWords /\ l.badges[i][2] \in BadgeWords
  BY BadgesInked
<1>2. BadgeWords \subseteq Inked /\ "/" \in Inked
  BY MessageGrammarAssumption DEF Inked, Vocabulary, Delimiters, Space
<1>3. \A x \in BadgeWords \cup {"/"} : x \notin {Comma, Semicolon, "="}
  BY MessageGrammarAssumption, Zenon DEF Delimiters, Comma, Semicolon
<1> DEFINE x == l.badges[i][1]
           y == l.badges[i][2]
           slash == "/"
<1>4. x \in Inked /\ y \in Inked /\ slash \in Inked
  BY <1>1, <1>2
<1>5. {x, slash, y} \cap {Comma, Semicolon, "="} = {}
  BY <1>1, <1>3
<1>6. RawBadge(l, i) = <<x, slash, y>>
  BY DEF RawBadge
<1> HIDE DEF x, y, slash
<1>7. Reads(InValue(B, BadgesKey, <<>>), <<x, slash, y>>, InValue(B, BadgesKey, <<x, slash, y>>))
  BY <1>4, <1>5, ReadsBadge
<1>8. <<x, slash, y>> \in Seq(Inked)
  BY <1>4, Tuple3
<1> QED BY <1>6, <1>7, <1>8

(* The list of badges is read badge by badge. *)
LEMMA ReadsList ==
  ASSUME NEW l \in TaggedLines, Len(l.badges) > 0
  PROVE  \E end : /\ Reads(InValue(OnlyMonths, BadgesKey, <<>>), FlattenSeq(BadgeSymbols(l)), end)
                  /\ Listed(end, RawList(l))
<1> DEFINE n == Len(l.badges)
           s == BadgeSymbols(l)
           a == InValue(OnlyMonths, BadgesKey, <<>>)
           raws == RawList(l)
<1>1. n \in Nat /\ n > 0 /\ s \in Seq(Seq(Inked)) /\ Len(s) = n
  BY BadgesInked
<1>2. PICK f : Concatenates(f, Inked, s)
  BY <1>1, FlattenRounds
<1>3. /\ \A i \in 1..n : f[i] \in Seq(Inked)
      /\ f[1] = s[1] /\ FlattenSeq(s) = f[n]
      /\ \A i \in 2..n : f[i] = f[i - 1] \o s[i]
  BY <1>1, <1>2 DEF Concatenates
<1>4. \A i \in 1..n : RawBadge(l, i) \in Seq(Inked)
  BY ReadsRawBadge
<1>5. raws \in Seq(Seq(Inked)) /\ Len(raws) = n /\ \A i \in 1..n : raws[i] = RawBadge(l, i)
  <2>1. raws \in [1..n -> Seq(Inked)]
    BY <1>4 DEF RawList
  <2>2. \A i \in 1..n : raws[i] = RawBadge(l, i)
    BY DEF RawList
  <2> HIDE DEF raws, n
  <2>3. raws \in Seq(Seq(Inked)) /\ Len(raws) = n
    <3> DEFINE D == Seq(Inked)
    <3> HIDE DEF D
    <3>1. raws \in [1..n -> D]
      BY <2>1 DEF D
    <3>2. raws \in Seq(D) /\ Len(raws) = n
      BY <1>1, <3>1
    <3> QED BY <3>2 DEF D
  <2> QED BY <2>2, <2>3
<1>6. s[1] = RawBadge(l, 1)
  <2>1. 1 \in 1..n
    BY <1>1
  <2>2. s[1] = <<>> \o RawBadge(l, 1)
    BY <2>1 DEF BadgeSymbols, RawBadge
  <2> QED BY <1>4, <2>1, <2>2, ConcatEmptySeq
<1>7. \A i \in 2..n : s[i] = <<Comma>> \o RawBadge(l, i)
  <2> SUFFICES ASSUME NEW i \in 2..n PROVE s[i] = <<Comma>> \o RawBadge(l, i)
    OBVIOUS
  <2>1. i \in 1..n /\ i # 1
    BY <1>1
  <2>2. s = [j \in 1..n |-> (IF j = 1 THEN <<>> ELSE <<Comma>>) \o RawBadge(l, j)]
    BY Zenon DEF BadgeSymbols, RawBadge, Comma
  <2> HIDE DEF s, n
  <2> QED BY <2>1, <2>2
<1> HIDE DEF n, s, a, raws
<1> DEFINE Read(k) == \E end : Reads(a, f[k], end) /\ Listed(end, SubSeq(raws, 1, k))
           S == {k \in Nat : k + 1 <= n => Read(k + 1)}
<1>8. 0 \in S
  <2> SUFFICES Read(1)
    OBVIOUS
  <2>1. 1 \in 1..n
    BY <1>1
  <2> DEFINE r == RawBadge(l, 1)
             end == InValue(OnlyMonths, BadgesKey, r)
  <2>2. Reads(a, f[1], end)
    BY <1>3, <1>6, <2>1, ReadsRawBadge DEF a, n
  <2>3. SubSeq(raws, 1, 1) = <<r>>
    <3>1. raws[1] = r
      BY <1>5, <2>1
    <3>2. SubSeq(raws, 1, 1) \in Seq(Seq(Inked)) /\ Len(SubSeq(raws, 1, 1)) = 1
          /\ SubSeq(raws, 1, 1)[1] = raws[1]
      BY <1>1, <1>5, <2>1
    <3> QED BY <3>1, <3>2, Single
  <2>4. Pushed(OnlyMonths, BadgesKey, r) = WithBadges(<<r>>)
    BY FirstPushed
  <2> HIDE DEF r
  <2>5. Listed(end, SubSeq(raws, 1, 1))
    BY <2>3, <2>4 DEF Listed
  <2> QED BY <2>2, <2>5
<1>9. ASSUME NEW k \in Nat, k \in S PROVE k + 1 \in S
  <2> SUFFICES ASSUME (k + 1) + 1 <= n PROVE Read((k + 1) + 1)
    OBVIOUS
  <2> DEFINE i == (k + 1) + 1
  <2>1. k + 1 \in 1..n /\ i \in 2..n /\ i \in 1..n /\ i - 1 = k + 1 /\ k + 1 <= n
    BY <1>1
  <2>2. PICK end : Reads(a, f[k + 1], end) /\ Listed(end, SubSeq(raws, 1, k + 1))
    BY <1>9, <2>1
  <2> DEFINE list == SubSeq(raws, 1, k + 1)
             r == RawBadge(l, i)
             mid == InValue(WithBadges(list), BadgesKey, <<>>)
             last == InValue(WithBadges(list), BadgesKey, r)
  <2>3. PICK B, v : end = InValue(B, BadgesKey, v) /\ Pushed(B, BadgesKey, v) = WithBadges(list)
    BY <2>2 DEF Listed
  <2> HIDE DEF i
  <2>4. f[i] = f[k + 1] \o (<<Comma>> \o r) /\ f[k + 1] \in Seq(Inked) /\ r \in Seq(Inked)
    BY <1>3, <1>4, <1>7, <2>1
  <2>5. <<Comma>> \in Seq(Inked)
    <3>1. Comma \in Inked
      BY DEF Comma, Inked, Vocabulary, Delimiters, Space
    <3> QED BY <3>1, Tuple1
  <2>6. Reads(end, <<Comma>>, mid)
    <3>1. NextBadgeSymbol(end, Comma) = mid
      BY <2>3, CommaSymbol
    <3> QED BY <3>1, ReadsOne
  <2>7. Reads(mid, r, last)
    BY <2>1, ReadsRawBadge DEF n
  <2> HIDE DEF list, r, mid, last
  <2> DEFINE c == <<Comma>>
  <2> HIDE DEF c
  <2>8. c \in Seq(Inked) /\ Reads(end, c, mid) /\ f[i] = f[k + 1] \o (c \o r)
    BY <2>4, <2>5, <2>6 DEF c
  <2>9. c \o r \in Seq(Inked) /\ Reads(end, c \o r, last)
    BY <2>4, <2>7, <2>8, ReadsOn, ConcatProperties
  <2> DEFINE cr == c \o r
  <2> HIDE DEF cr
  <2>10. Reads(a, f[k + 1] \o cr, last)
    <3>1. cr \in Seq(Inked) /\ Reads(end, cr, last)
      BY <2>9 DEF cr
    <3> QED BY <2>2, <2>4, <3>1, ReadsOn
  <2>11. Append(list, r) = SubSeq(raws, 1, i)
    <3>1. r = raws[i] /\ i = (k + 1) + 1
      BY <1>5, <2>1 DEF r, i
    <3>2. Append(SubSeq(raws, 1, k + 1), raws[(k + 1) + 1]) = SubSeq(raws, 1, (k + 1) + 1)
      BY <1>1, <1>5, <2>1
    <3> QED BY <3>1, <3>2 DEF list
  <2>12. Pushed(WithBadges(list), BadgesKey, r) = WithBadges(SubSeq(raws, 1, i))
    BY <2>11, NextPushed
  <2>13. Listed(last, SubSeq(raws, 1, i))
    BY <2>12 DEF Listed, last
  <2>14. Reads(a, f[i], last)
    BY <2>8, <2>10 DEF cr
  <2> QED BY <2>13, <2>14 DEF i
<1>10. \A k \in Nat : k \in S
  <2> HIDE DEF S
  <2> QED BY <1>8, <1>9, NatInd
<1>11. Read(n)
  <2>1. n - 1 \in Nat /\ (n - 1) + 1 = n /\ n <= n
    BY <1>1
  <2>2. n - 1 \in S
    BY <1>10, <2>1
  <2> HIDE DEF Read
  <2> QED BY <2>1, <2>2
<1>12. SubSeq(raws, 1, n) = raws
  BY <1>1, <1>5
<1> QED BY <1>3, <1>11, <1>12 DEF a, s, raws

--------------------------------------------------------------------------------
(* The parts of a tag token. *)

(* The badges as the tags give them: an empty list is read as one empty badge. *)
Listing(l) == IF Len(l.badges) = 0 THEN <<<<>>>> ELSE RawList(l)

Named(B, named) == IF named THEN Pushed(B, NameKey, <<"bob">>) ELSE B

(* The list of badges is read, be it empty.                                 *)
LEMMA ReadsListing ==
  ASSUME NEW l \in TaggedLines
  PROVE  \E end : /\ Reads(InValue(OnlyMonths, BadgesKey, <<>>), FlattenSeq(BadgeSymbols(l)), end)
                  /\ Listed(end, Listing(l))
<1>1. CASE Len(l.badges) = 0
  <2> DEFINE a == InValue(OnlyMonths, BadgesKey, <<>>)
  <2>1. FlattenSeq(BadgeSymbols(l)) = <<>>
    BY <1>1, BadgesInked
  <2>2. Reads(a, <<>>, a)
    BY ReadsNothing
  <2>3. Pushed(OnlyMonths, BadgesKey, <<>>) = WithBadges(<<<<>>>>)
    BY FirstPushed
  <2>4. Listed(a, <<<<>>>>)
    BY <2>3 DEF Listed
  <2> HIDE DEF a
  <2> QED BY <1>1, <2>1, <2>2, <2>4 DEF Listing, a
<1>2. CASE Len(l.badges) # 0
  <2>1. Len(l.badges) > 0
    BY <1>2, BadgesInked
  <2> QED BY <1>2, <2>1, ReadsList DEF Listing
<1> QED BY <1>1, <1>2

(* ';' ends the last badge.                                                 *)
LEMMA ReadsSemicolon ==
  ASSUME NEW end, NEW raws, Listed(end, raws)
  PROVE  Reads(end, <<Semicolon>>, InKey(WithBadges(raws), <<>>, <<>>))
<1>1. PICK B, v : end = InValue(B, BadgesKey, v) /\ Pushed(B, BadgesKey, v) = WithBadges(raws)
  BY DEF Listed
<1>2. NextBadgeSymbol(end, Semicolon) = InKey(WithBadges(raws), <<>>, <<>>)
  BY <1>1, SemicolonSymbol
<1> QED BY <1>2, ReadsOne

(* The display name, when there is one.                                     *)
LEMMA ReadsName ==
  ASSUME NEW l, l.named \in BOOLEAN, NEW B
  PROVE  Reads(InKey(B, <<>>, <<>>), NameSymbols(l), InKey(Named(B, l.named), <<>>, <<>>))
<1>1. CASE ~l.named
  <2>1. NameSymbols(l) = <<>> /\ Named(B, l.named) = B
    BY <1>1 DEF NameSymbols, Named
  <2> QED BY <2>1, ReadsNothing
<1>2. CASE l.named
  <2> DEFINE a0 == InKey(B, <<>>, <<>>)
             a1 == InKey(B, NameKey, <<>>)
             a2 == InValue(B, NameKey, <<>>)
             a3 == InValue(B, NameKey, <<"bob">>)
             a4 == InKey(Pushed(B, NameKey, <<"bob">>), <<>>, <<>>)
  <2>1. NameSymbols(l) = <<"display-name", "=", "bob", Semicolon>>
    BY <1>2, Zenon DEF NameSymbols, Semicolon
  <2>2. Named(B, l.named) = Pushed(B, NameKey, <<"bob">>)
    BY <1>2 DEF Named
  <2>3. Put(<<>>, "display-name") = NameKey /\ Put(<<>>, "bob") = <<"bob">>
    BY PutOne DEF NameKey
  <2>4. "display-name" # "=" /\ "bob" # "="
    OBVIOUS
  <2>5. \A c \in {"bob"} : c # Comma /\ c # Semicolon
    BY Zenon DEF Comma, Semicolon
  <2>6. NextBadgeSymbol(a0, "display-name") = a1
    <3>1. NextBadgeSymbol(a0, "display-name") = InKey(B, Put(<<>>, "display-name"), <<>>)
      BY <2>4, KeySymbol
    <3> QED BY <2>3, <3>1
  <2>7. NextBadgeSymbol(a1, "=") = a2
    BY EqualsSymbol
  <2>8. NextBadgeSymbol(a2, "bob") = a3
    <3>1. \A k, u, c : c # Comma /\ c # Semicolon /\ c # "=" =>
            NextBadgeSymbol(InValue(B, k, u), c) = InValue(B, k, Put(u, c))
      BY ValueSymbol
    <3>2. NextBadgeSymbol(a2, "bob") = InValue(B, NameKey, Put(<<>>, "bob"))
      BY <2>4, <2>5, <3>1
    <3> QED BY <2>3, <3>2
  <2>9. NextBadgeSymbol(a3, Semicolon) = a4
    BY SemicolonSymbol
  <2> HIDE DEF a0, a1, a2, a3, a4
  <2>10. Reads(a0, <<"display-name", "=", "bob", Semicolon>>, a4)
    <3>1. \A x1, x2, x3, x4 :
            Reads(a0, <<x1, x2, x3, x4>>,
                  NextBadgeSymbol(NextBadgeSymbol(NextBadgeSymbol(NextBadgeSymbol(
                    a0, x1), x2), x3), x4))
      BY ReadsFour
    <3> QED BY <2>6, <2>7, <2>8, <2>9, <3>1
  <2> QED BY <2>1, <2>2, <2>10 DEF a0, a4
<1> QED BY <1>1, <1>2

(* The last pair: no ';' ends it, so it adds nothing.                       *)
LEMMA ReadsLast ==
  ASSUME NEW B
  PROVE  Reads(InKey(B, <<>>, <<>>), LastSymbols, InValue(B, <<"user-type">>, <<>>))
<1> DEFINE a0 == InKey(B, <<>>, <<>>)
           a1 == InKey(B, <<"user-type">>, <<>>)
           a2 == InValue(B, <<"user-type">>, <<>>)
           x == "user-type"
           y == "="
<1>1. NextBadgeSymbol(a0, x) = a1
  <2>1. "user-type" # "="
    OBVIOUS
  <2>2. NextBadgeSymbol(a0, "user-type") = InKey(B, Put(<<>>, "user-type"), <<>>)
    BY <2>1, KeySymbol
  <2>3. Put(<<>>, "user-type") = <<"user-type">>
    BY PutOne
  <2> QED BY <2>2, <2>3
<1>2. NextBadgeSymbol(a1, y) = a2
  BY EqualsSymbol
<1>3. LastSymbols = <<x, y>>
  BY DEF LastSymbols
<1> HIDE DEF a0, a1, a2, x, y
<1>4. Reads(a0, <<x>>, a1) /\ Reads(a1, <<y>>, a2)
  BY <1>1, <1>2, ReadsOne
<1> DEFINE D == {x, y}
           s == <<x>>
           t == <<y>>
<1>5. x \in D /\ y \in D
  OBVIOUS
<1> HIDE DEF D
<1>6. s \in Seq(D) /\ t \in Seq(D) /\ s \o t = <<x, y>>
  BY <1>5, Pair
<1> HIDE DEF s, t
<1>7. Reads(a0, s \o t, a2)
  <2>1. Reads(a0, s, a1) /\ Reads(a1, t, a2)
    BY <1>4 DEF s, t
  <2> QED BY <1>6, <2>1, ReadsOn
<1> QED BY <1>3, <1>6, <1>7 DEF a0, a2

(* What is read of a tag token: the months, the badges and the name. *)
LEMMA TagsAreRead ==
  ASSUME NEW l \in TaggedLines
  PROVE  ParseBadges(Tags(l)) = Named(WithBadges(Listing(l)), l.named)
<1> DEFINE list == FlattenSeq(BadgeSymbols(l))
           start == TagStart
           semicolon == <<";">>
           name == NameSymbols(l)
           last == LastSymbols
           W == WithBadges(Listing(l))
           V == Named(W, l.named)
           a == InValue(OnlyMonths, BadgesKey, <<>>)
           w == InKey(W, <<>>, <<>>)
           v == InKey(V, <<>>, <<>>)
           end == InValue(V, <<"user-type">>, <<>>)
<1>1. list \in Seq(Inked)
  BY BadgesInked
<1>2. /\ start \in Seq(Inked) /\ semicolon \in Seq(Inked) /\ name \in Seq(Inked)
      /\ last \in Seq(Inked)
  BY TagParts
<1>3. Tags(l) = start \o list \o semicolon \o name \o last
  BY TagParts
<1>4. Reads(NoBadges, start, a)
  BY ReadsStart, Zenon DEF TagStart, Semicolon
<1>5. PICK b : Reads(a, list, b) /\ Listed(b, Listing(l))
  BY ReadsListing
<1>6. Reads(b, semicolon, w)
  <2>1. Reads(b, <<Semicolon>>, w)
    BY <1>5, ReadsSemicolon
  <2> QED BY <2>1, Zenon DEF Semicolon
<1>7. Reads(w, name, v)
  <2>1. l.named \in BOOLEAN
    BY DEF TaggedLines
  <2> HIDE DEF W
  <2> QED BY <2>1, ReadsName
<1>8. Reads(v, last, end)
  <2> HIDE DEF V
  <2> QED BY ReadsLast
<1>9. end.badges = V
  BY DEF InValue
<1> HIDE DEF list, start, semicolon, name, last, V, a, w, v, end
<1> DEFINE s1 == start \o list
           s2 == s1 \o semicolon
           s3 == s2 \o name
           s4 == s3 \o last
<1>10. s1 \in Seq(Inked) /\ Reads(NoBadges, s1, b)
  BY <1>1, <1>2, <1>4, <1>5, ReadsOn, ConcatProperties
<1> HIDE DEF s1
<1>11. s2 \in Seq(Inked) /\ Reads(NoBadges, s2, w)
  BY <1>2, <1>6, <1>10, ReadsOn, ConcatProperties
<1> HIDE DEF s2
<1>12. s3 \in Seq(Inked) /\ Reads(NoBadges, s3, v)
  BY <1>2, <1>7, <1>11, ReadsOn, ConcatProperties
<1> HIDE DEF s3
<1>13. s4 \in Seq(Inked) /\ Reads(NoBadges, s4, end)
  BY <1>2, <1>8, <1>12, ReadsOn, ConcatProperties
<1> HIDE DEF s4
<1>14. ParseBadges(s4) = end.badges
  BY <1>13, LoopReads
<1> QED BY <1>3, <1>9, <1>14 DEF s1, s2, s3, s4, V

--------------------------------------------------------------------------------
(* The sender. *)

(* What the badges of a tag token hold. *)
LEMMA NamedBadges ==
  ASSUME NEW list, NEW named \in BOOLEAN
  PROVE  LET badges == Named(WithBadges(list), named)
         IN  /\ RawBadges(badges) = list
             /\ NameKey \in DOMAIN badges <=> named
             /\ named => badges[NameKey] = <<<<"bob">>>>
<1> DEFINE B == WithBadges(list)
           P == Pushed(B, NameKey, <<"bob">>)
<1>1. DOMAIN B = {MonthsKey, BadgesKey} /\ B[BadgesKey] = list
  BY DEF WithBadges
<1> HIDE DEF B
<1>2. /\ DOMAIN P = {MonthsKey, BadgesKey, NameKey} /\ P[BadgesKey] = list
      /\ P[NameKey] = <<<<"bob">>>>
  BY <1>1, KeysDiffer DEF Pushed
<1> HIDE DEF P
<1>3. \A f : RawBadges(f) = IF BadgesKey \in DOMAIN f THEN f[BadgesKey] ELSE <<>>
  BY DEF RawBadges, BadgesKey
<1>4. CASE named
  <2>1. Named(B, named) = P
    BY <1>4 DEF Named, P
  <2> QED BY <1>2, <1>3, <1>4, <2>1 DEF B
<1>5. CASE ~named
  <2>1. Named(B, named) = B
    BY <1>5 DEF Named
  <2> QED BY <1>1, <1>3, <1>5, <2>1, KeysDiffer DEF B
<1> QED BY <1>4, <1>5

(* A badge gives the role of its name unless its value is 0. *)
LEMMA RoleOfRawBadge ==
  ASSUME NEW x, NEW y
  PROVE  RoleOfBadge(<<x, "/", y>>) = IF y # "0" /\ x \in DOMAIN Roles THEN Roles[x] ELSE 0
<1> DEFINE slash == "/"
           s == <<x, slash, y>>
<1>1. Len(s) = 3 /\ s[1] = x /\ s[2] = slash /\ s[3] = y
  OBVIOUS
<1>2. s[2] = "/"
  BY <1>1
<1> HIDE DEF s
<1>3. RoleOfBadge(s) = IF y # "0" /\ x \in DOMAIN Roles THEN Roles[x] ELSE 0
  BY <1>1, <1>2 DEF RoleOfBadge
<1> QED BY <1>3 DEF s

(* A role is not 0.                                                         *)
LEMMA RolesArePositive == \A x \in DOMAIN Roles : Roles[x] \in Nat /\ Roles[x] # 0
BY DEF Roles

(* The badges that give a role are those of the list, at their places. *)
LEMMA RecognisedBadges ==
  ASSUME NEW l \in TaggedLines
  PROVE  /\ Recognised(Listing(l)) = Giving(l.badges)
         /\ Giving(l.badges) \subseteq Nat
         /\ \A i \in Giving(l.badges) : RoleOfBadge(Listing(l)[i]) = Roles[l.badges[i][1]]
                                        /\ l.badges[i][1] \in DOMAIN Roles
<1> DEFINE n == Len(l.badges)
<1>1. n \in Nat
  BY BadgesInked
<1>2. CASE n = 0
  <2>1. Listing(l) = <<<<>>>>
    BY <1>2 DEF Listing
  <2>2. RoleOfBadge(<<>>) = 0
    BY DEF RoleOfBadge
  <2>3. Recognised(<<<<>>>>) = {}
    BY <2>2 DEF Recognised
  <2>4. Giving(l.badges) = {}
    BY <1>2 DEF Giving
  <2> QED BY <2>1, <2>3, <2>4
<1>3. CASE n # 0
  <2>1. Listing(l) = [i \in 1..n |-> RawBadge(l, i)]
    BY <1>3 DEF Listing, RawList
  <2>2. DOMAIN Listing(l) = 1..n
    BY <2>1
  <2>3. \A i \in 1..n : RoleOfBadge(Listing(l)[i])
          = IF l.badges[i][2] # "0" /\ l.badges[i][1] \in DOMAIN Roles
            THEN Roles[l.badges[i][1]] ELSE 0
    <3> SUFFICES ASSUME NEW i \in 1..n
                 PROVE  RoleOfBadge(Listing(l)[i])
                          = IF l.badges[i][2] # "0" /\ l.badges[i][1] \in DOMAIN Roles
                            THEN Roles[l.badges[i][1]] ELSE 0
      OBVIOUS
    <3>1. Listing(l)[i] = RawBadge(l, i)
      BY <2>1
    <3>2. \A x, y : RoleOfBadge(<<x, "/", y>>)
                      = IF y # "0" /\ x \in DOMAIN Roles THEN Roles[x] ELSE 0
      BY RoleOfRawBadge
    <3>3. RoleOfBadge(RawBadge(l, i))
            = IF l.badges[i][2] # "0" /\ l.badges[i][1] \in DOMAIN Roles
              THEN Roles[l.badges[i][1]] ELSE 0
      BY <3>2 DEF RawBadge
    <3> QED BY <3>1, <3>3
  <2>4. \A i \in Recognised(Listing(l)) : i \in 1..n
    BY <2>2 DEF Recognised
  <2>5. \A i \in 1..n : i \in Recognised(Listing(l)) <=> RoleOfBadge(Listing(l)[i]) # 0
    BY <2>2 DEF Recognised
  <2>6. \A i \in 1..n : i \in Giving(l.badges)
                          <=> l.badges[i][2] # "0" /\ l.badges[i][1] \in DOMAIN Roles
    BY DEF Giving
  <2>7. \A i \in Giving(l.badges) : i \in 1..n
    BY DEF Giving
  <2> HIDE DEF n
  <2> QED BY <1>1, <2>3, <2>4, <2>5, <2>6, <2>7, RolesArePositive
<1> QED BY <1>2, <1>3

(* The first of some places. *)
LEMMA FirstPlace ==
  ASSUME NEW S, S \subseteq Nat, S # {}
  PROVE  Min(S) \in S /\ \A i \in S : Min(S) <= i
<1> DEFINE Less == OpToRel(<, Nat)
<1>1. \A x, y \in Nat : x < y => <<x, y>> \in Less
  BY DEF OpToRel
<1>2. IsWellFoundedOn(Less, Nat)
  BY NatLessThanWellFounded
<1> HIDE DEF Less
<1>3. PICK x \in S : \A y \in S : ~(<<y, x>> \in Less)
  BY <1>2, WFMin
<1>4. ASSUME NEW y \in S PROVE x <= y
  <2>1. x \in Nat /\ y \in Nat
    OBVIOUS
  <2>2. ~(y < x)
    BY <1>1, <1>3, <2>1
  <2> QED BY <2>1, <2>2
<1> QED BY <1>3, <1>4 DEF Min

(* The role of a line is the highest that its badges give. *)
LEMMA HighestRole ==
  ASSUME NEW l \in TaggedLines
  PROVE  LET given == {Roles[l.badges[i][1]] : i \in Giving(l.badges)}
             role == SetRole(ParseBadges(Tags(l)))
         IN  role \in given \cup {0} /\ \A r \in given : role >= r
<1> DEFINE G == Giving(l.badges)
           Role(i) == Roles[l.badges[i][1]]
           role == SetRole(ParseBadges(Tags(l)))
<1>1. RawBadges(ParseBadges(Tags(l))) = Listing(l)
  <2>1. l.named \in BOOLEAN
    BY DEF TaggedLines
  <2> QED BY <2>1, TagsAreRead, NamedBadges
<1>2. Recognised(Listing(l)) = G
  BY RecognisedBadges
<1>3. role = IF G = {} THEN 0 ELSE RoleOfBadge(Listing(l)[Min(G)])
  BY <1>1, <1>2 DEF SetRole
<1>4. /\ G \subseteq Nat
      /\ \A i \in G : RoleOfBadge(Listing(l)[i]) = Role(i) /\ Role(i) \in Nat
  BY RecognisedBadges, RolesArePositive
<1>5. \A i, j \in G : i < j => Role(i) >= Role(j)
  <2>1. l.badges \in BadgeLists
    BY DEF TaggedLines
  <2> QED BY <2>1, MessageGrammarAssumption
<1> HIDE DEF G, Role, role
<1>6. CASE G = {}
  BY <1>3, <1>6 DEF G, Role, role
<1>7. CASE G # {}
  <2>1. Min(G) \in G /\ \A i \in G : Min(G) <= i
    BY <1>4, <1>7, FirstPlace
  <2> DEFINE m == Min(G)
  <2> HIDE DEF m
  <2>2. m \in G /\ m \in Nat /\ \A i \in G : m = i \/ m < i
    <3>1. m \in G /\ \A i \in G : m <= i
      BY <2>1 DEF m
    <3>2. \A i \in G : m \in Nat /\ i \in Nat
      BY <1>4, <3>1
    <3> QED BY <3>1, <3>2
  <2>3. role = Role(m)
    BY <1>3, <1>4, <1>7, <2>2 DEF m
  <2>4. \A i \in G : role >= Role(i)
    BY <1>4, <1>5, <2>2, <2>3
  <2> QED BY <2>2, <2>3, <2>4 DEF G, Role, role
<1> QED BY <1>6, <1>7

(* Who sent a message is read from its tags alone, whatever badges, months *)
(* and keys stand in them.                                                 *)
THEOREM SenderAlwaysRead == Spec => []SenderIsRead
<1>1. SenderIsRead
  <2> SUFFICES ASSUME NEW l \in UserLines
               PROVE  ReadWithHighestRole(l) /\ ReadWithDisplayName(l)
    BY DEF SenderIsRead
  <2>1. l \in TaggedLines /\ l.command = "PRIVMSG" /\ l.named \in BOOLEAN
    BY DEF UserLines, TaggedLines
  <2> DEFINE badges == ParseBadges(Tags(l))
  <2>2. /\ Message(l).role = SetRole(badges)
        /\ Message(l).nick = IF NameKey \in DOMAIN badges THEN <<badges[NameKey][1]>> ELSE <<>>
    <3>1. Message(l) = Badged(l.command, GetUserMessageFromSplitRawMessage(Split(Raw(l))), Tags(l))
      BY <2>1, UserMessage
    <3>2. \A t, c, r : /\ Badged(t, c, r).role = SetRole(ParseBadges(r))
                       /\ Badged(t, c, r).nick
                            = IF NameKey \in DOMAIN ParseBadges(r)
                              THEN <<ParseBadges(r)[NameKey][1]>> ELSE <<>>
      BY DEF Badged, NameKey
    <3> QED BY <3>1, <3>2
  <2>3. ReadWithHighestRole(l)
    BY <2>1, <2>2, HighestRole DEF ReadWithHighestRole
  <2>4. /\ NameKey \in DOMAIN badges <=> l.named
        /\ l.named => badges[NameKey] = <<<<"bob">>>>
    BY <2>1, TagsAreRead, NamedBadges
  <2>5. ReadWithDisplayName(l)
    <3> HIDE DEF badges
    <3>1. l.named => badges[NameKey][1] = <<"bob">>
      BY <2>4
    <3> QED BY <2>1, <2>2, <2>4, <3>1 DEF ReadWithDisplayName
  <2> QED BY <2>3, <2>5
<1> QED BY <1>1, PTL
================================================================================
