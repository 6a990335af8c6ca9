------------------------- MODULE TransmissionProofs -------------------------
(***************************************************************************)
(* Theorems about the two halves of a transmission, PacketParser and       *)
(* Codec, for every width of a byte, every stream and every message.       *)
(***************************************************************************)
EXTENDS PacketParser, Codec, SequenceTheorems, TLAPS

(***************************************************************************)
(* Packets in streams: what a packet is does not depend on what came       *)
(* before it nor on what arrives behind it.                                *)
(***************************************************************************)
LEMMA DropProperties ==
  ASSUME NEW S, NEW s \in Seq(S), NEW n \in 0 .. Len(s)
  PROVE  /\ Drop(s, n) \in Seq(S)
         /\ Len(Drop(s, n)) = Len(s) - n
         /\ \A i \in 1 .. Len(s) - n : Drop(s, n)[i] = s[n + i]
<1>1. \A i \in n + 1 .. Len(s) : s[i] \in S
  OBVIOUS
<1>2. /\ Drop(s, n) \in Seq(S)
      /\ Len(Drop(s, n)) = IF n + 1 <= Len(s) THEN Len(s) - (n + 1) + 1 ELSE 0
      /\ \A i \in 1 .. Len(s) - (n + 1) + 1 : Drop(s, n)[i] = s[n + 1 + i - 1]
  BY <1>1, SubSeqProperties DEF Drop
<1> QED
  BY <1>2

LEMMA DropNothing ==
  ASSUME NEW S, NEW s \in Seq(S)
  PROVE  Drop(s, 0) = s
BY SubSeqFull DEF Drop

\* Two pops in a row are one.
LEMMA DropDrop ==
  ASSUME NEW S, NEW s \in Seq(S), NEW m \in 0 .. Len(s),
         NEW n \in 0 .. Len(s) - m
  PROVE  Drop(Drop(s, m), n) = Drop(s, m + n)
<1>1. /\ Drop(s, m) \in Seq(S)
      /\ Len(Drop(s, m)) = Len(s) - m
      /\ \A i \in 1 .. Len(s) - m : Drop(s, m)[i] = s[m + i]
  BY DropProperties
<1>2. n \in 0 .. Len(Drop(s, m)) /\ m + n \in 0 .. Len(s)
  BY <1>1
<1>3. /\ Drop(s, m + n) \in Seq(S)
      /\ Len(Drop(s, m + n)) = Len(s) - (m + n)
      /\ \A i \in 1 .. Len(s) - (m + n) : Drop(s, m + n)[i] = s[m + n + i]
  BY <1>2, DropProperties
<1>4. /\ Drop(Drop(s, m), n) \in Seq(S)
      /\ Len(Drop(Drop(s, m), n)) = Len(s) - m - n
      /\ \A i \in 1 .. Len(s) - m - n :
           Drop(Drop(s, m), n)[i] = Drop(s, m)[n + i]
  BY <1>1, <1>2, DropProperties
<1>5. \A i \in 1 .. Len(s) - m - n : Drop(s, m)[n + i] = s[m + n + i]
  BY <1>1
<1>6. \A i \in 1 .. Len(s) - m - n : Drop(Drop(s, m), n)[i] = Drop(s, m + n)[i]
  BY <1>3, <1>4, <1>5
<1>7. Len(Drop(Drop(s, m), n)) = Len(Drop(s, m + n))
  BY <1>3, <1>4
<1> QED
  BY <1>3, <1>4, <1>6, <1>7, SeqEqual

\* A pop and a push at the other end do not disturb each other.
LEMMA DropAppend ==
  ASSUME NEW S, NEW s \in Seq(S), NEW b \in S, NEW n \in 0 .. Len(s)
  PROVE  Append(Drop(s, n), b) = Drop(Append(s, b), n)
<1> DEFINE t == Append(s, b)
           d == Drop(s, n)
<1>1. d \in Seq(S) /\ Len(d) = Len(s) - n
        /\ \A i \in 1 .. Len(s) - n : d[i] = s[n + i]
  BY DropProperties
<1>2. t \in Seq(S) /\ Len(t) = Len(s) + 1 /\ t[Len(s) + 1] = b
        /\ \A i \in 1 .. Len(s) : t[i] = s[i]
  BY AppendProperties
<1> HIDE DEF t, d
<1>3. n \in 0 .. Len(t)
  BY <1>2
<1>4. Drop(t, n) \in Seq(S) /\ Len(Drop(t, n)) = Len(t) - n
        /\ \A i \in 1 .. Len(t) - n : Drop(t, n)[i] = t[n + i]
  BY <1>2, <1>3, DropProperties
<1>5. Append(d, b) \in Seq(S) /\ Len(Append(d, b)) = Len(d) + 1
        /\ Append(d, b)[Len(d) + 1] = b
        /\ \A i \in 1 .. Len(d) : Append(d, b)[i] = d[i]
  BY <1>1, AppendProperties
<1>6. \A i \in 1 .. Len(d) : d[i] = t[n + i]
  BY <1>1, <1>2
<1>7. n + (Len(d) + 1) = Len(s) + 1 /\ Len(t) - n = Len(d) + 1 /\ Len(d) \in Nat
  BY <1>1, <1>2
<1>8. \A i \in 1 .. Len(d) + 1 : Append(d, b)[i] = Drop(t, n)[i]
  <2> SUFFICES ASSUME NEW i \in 1 .. Len(d) + 1
               PROVE  Append(d, b)[i] = Drop(t, n)[i]
    OBVIOUS
  <2>1. Drop(t, n)[i] = t[n + i]
    BY <1>4, <1>7
  <2>2. CASE i = Len(d) + 1
    BY <2>1, <2>2, <1>2, <1>5, <1>7
  <2>3. CASE i \in 1 .. Len(d)
    BY <2>1, <2>3, <1>5, <1>6
  <2> QED
    BY <1>7, <2>2, <2>3
<1>9. Append(d, b) = Drop(t, n)
  BY <1>4, <1>5, <1>7, <1>8, SeqEqual
<1> QED
  BY <1>9 DEF t, d

\* Whether the first n bytes carry their checksum depends on them only.
LEMMA MatchesLocal ==
  ASSUME NEW S, NEW s \in Seq(S), NEW t \in Seq(S), NEW n \in Nat, n >= 2,
         n <= Len(s), n <= Len(t), \A i \in 1 .. n : s[i] = t[i]
  PROVE  Matches(s, n) <=> Matches(t, n)
<1>1. SubSeq(s, 1, n - 2) = SubSeq(t, 1, n - 2)
  <2>1. \A i \in 1 .. n - 2 : s[i] \in S /\ t[i] \in S /\ s[i] = t[i]
    OBVIOUS
  <2>2. /\ SubSeq(s, 1, n - 2) \in Seq(S)
        /\ Len(SubSeq(s, 1, n - 2)) = n - 2
        /\ \A i \in 1 .. n - 2 : SubSeq(s, 1, n - 2)[i] = s[i]
    BY <2>1, SubSeqProperties
  <2>3. /\ SubSeq(t, 1, n - 2) \in Seq(S)
        /\ Len(SubSeq(t, 1, n - 2)) = n - 2
        /\ \A i \in 1 .. n - 2 : SubSeq(t, 1, n - 2)[i] = t[i]
    BY <2>1, SubSeqProperties
  <2> QED
    BY <2>1, <2>2, <2>3, SeqEqual
<1>2. s[n - 1] = t[n - 1] /\ s[n] = t[n]
  OBVIOUS
<1> QED
  BY <1>1, <1>2 DEF Matches

\* A packet at p of a stream is a packet at the front of the rest from p.
LEMMA PacketOfRest ==
  ASSUME NEW s \in Seq(Bytes), NEW n \in 0 .. Len(s)
  PROVE  /\ Complete(Drop(s, n), 1) <=> Complete(s, n + 1)
         /\ Complete(s, n + 1) =>
              /\ PacketLen(Drop(s, n), 1) = PacketLen(s, n + 1)
              /\ PacketLen(s, n + 1) \in 6 .. Len(s) - n
              /\ Matches(Drop(s, n), PacketLen(s, n + 1)) <=> Intact(s, n + 1)
<1>1. /\ Drop(s, n) \in Seq(Bytes)
      /\ Len(Drop(s, n)) = Len(s) - n
      /\ \A i \in 1 .. Len(s) - n : Drop(s, n)[i] = s[n + i]
  BY DropProperties
<1>2. \A i \in 1 .. Len(s) : s[i] \in Nat
  BY FormatAssumption DEF Bytes
<1>3. Header(Drop(s, n), 1) <=> Header(s, n + 1)
  BY <1>1 DEF Header
<1>4. Header(s, n + 1) => PacketLen(Drop(s, n), 1) = PacketLen(s, n + 1)
  BY <1>1 DEF Header, PacketLen
<1>5. Header(s, n + 1) => PacketLen(s, n + 1) \in Nat /\ PacketLen(s, n + 1) >= 6
  BY <1>2 DEF Header, PacketLen
<1>6. Complete(Drop(s, n), 1) <=> Complete(s, n + 1)
  BY <1>1, <1>3, <1>4, <1>5 DEF Complete
<1>7. Complete(s, n + 1) => PacketLen(s, n + 1) \in 6 .. Len(s) - n
  BY <1>5 DEF Complete
<1>8. (n + 1) - 1 = n
  OBVIOUS
<1> QED
  BY <1>4, <1>6, <1>7, <1>8 DEF Complete, Intact

\* What has been decided about a packet stands when more bytes arrive.
LEMMA PacketStands ==
  ASSUME NEW s \in Seq(Bytes), NEW b \in Bytes, NEW p \in Nat \ {0},
         Complete(s, p)
  PROVE  /\ Complete(Append(s, b), p)
         /\ PacketLen(Append(s, b), p) = PacketLen(s, p)
         /\ Intact(Append(s, b), p) <=> Intact(s, p)
<1> DEFINE t == Append(s, b)
           n == PacketLen(s, p)
<1>1. t \in Seq(Bytes) /\ Len(t) = Len(s) + 1
        /\ \A i \in 1 .. Len(s) : t[i] = s[i]
  BY AppendProperties
<1>2. p + 3 <= Len(s) /\ p - 1 \in 0 .. Len(s) /\ p - 1 \in 0 .. Len(t)
  BY <1>1 DEF Complete, Header
<1>3. Complete(t, p) /\ PacketLen(t, p) = n
  <2>1. p \in 1 .. Len(s) /\ p + 1 \in 1 .. Len(s) /\ p + 2 \in 1 .. Len(s)
    BY <1>2
  <2>2. t[p] = s[p] /\ t[p + 1] = s[p + 1] /\ t[p + 2] = s[p + 2]
    BY <1>1, <2>1
  <2>3. s[p + 2] \in Nat
    BY <2>1, FormatAssumption DEF Bytes
  <2>4. Header(t, p) /\ PacketLen(t, p) = PacketLen(s, p)
    BY <1>1, <2>2 DEF Complete, Header, PacketLen
  <2> QED
    BY <1>1, <2>3, <2>4 DEF Complete, PacketLen
<1>4. n \in 6 .. Len(s) - (p - 1)
  BY <1>2, PacketOfRest, (p - 1) + 1 = p
<1>5. /\ Drop(s, p - 1) \in Seq(Bytes)
      /\ Len(Drop(s, p - 1)) = Len(s) - (p - 1)
      /\ \A i \in 1 .. Len(s) - (p - 1) : Drop(s, p - 1)[i] = s[p - 1 + i]
  BY <1>2, DropProperties
<1>6. /\ Drop(t, p - 1) \in Seq(Bytes)
      /\ Len(Drop(t, p - 1)) = Len(t) - (p - 1)
      /\ \A i \in 1 .. Len(t) - (p - 1) : Drop(t, p - 1)[i] = t[p - 1 + i]
  BY <1>1, <1>2, DropProperties
<1>7. \A i \in 1 .. n : Drop(s, p - 1)[i] = Drop(t, p - 1)[i]
  <2> SUFFICES ASSUME NEW i \in 1 .. n
               PROVE  Drop(s, p - 1)[i] = Drop(t, p - 1)[i]
    OBVIOUS
  <2>1. i \in 1 .. Len(s) - (p - 1) /\ i \in 1 .. Len(t) - (p - 1)
          /\ p - 1 + i \in 1 .. Len(s)
    BY <1>1, <1>2, <1>4
  <2> QED
    BY <2>1, <1>1, <1>5, <1>6
<1>8. Matches(Drop(s, p - 1), n) <=> Matches(Drop(t, p - 1), n)
  <2> HIDE DEF n, t
  <2>1. n \in Nat /\ n >= 2 /\ n <= Len(Drop(s, p - 1)) /\ n <= Len(Drop(t, p - 1))
    BY <1>1, <1>2, <1>4, <1>5, <1>6
  <2> QED
    BY <2>1, <1>5, <1>6, <1>7, MatchesLocal
<1> QED
  BY <1>3, <1>8 DEF Intact
(***************************************************************************)
(* PacketParser.  The inductive invariant says what each statement of      *)
(* parse knows about the bytes at the front of the stream, and that every  *)
(* place of the stream that parse has gone past was refuted as the         *)
(* beginning of a packet, or belongs to a packet that was returned.        *)
(***************************************************************************)

\* What the tests behind each statement have shown about the bytes at the
\* front, unless SIGINT's handler has cleared them.
FrontOK == bytestream # <<>> =>
  /\ pc = "junk" => bytestream[1] # Sync1
  /\ pc \in {"two", "sync", "four", "length", "whole", "copy", "pop"} =>
       bytestream[1] = Sync1
  /\ pc \in {"four", "length", "whole", "copy", "pop"} =>
       Len(bytestream) >= 2 /\ bytestream[2] = Sync2
  /\ pc \in {"whole", "copy", "pop"} =>
       Len(bytestream) >= 4 /\ bytestream[3] = length
  /\ pc \in {"copy", "pop"} => Len(bytestream) >= 6 + length
  /\ pc = "pop" => Matches(bytestream, 6 + length) /\ consumed + 1 \in found
  /\ pc = "drop" =>
       \/ Len(bytestream) >= 2 /\ bytestream[2] # Sync2
       \/ /\ Complete(bytestream, 1)
          /\ ~Matches(bytestream, PacketLen(bytestream, 1))

\* The bytes whose presence the tests have shown are there, unless a SIGINT
\* tore them; and what it tears is undefined in the next step.
BoundsOK ==
  /\ torn => bytestream = <<>> /\ pc \in Uses
  /\ broken => torn
  /\ ~torn /\ pc \in Uses => bytestream # <<>>
  /\ ~torn /\ pc = "sync" => Len(bytestream) >= 2
  /\ ~torn /\ pc = "length" => Len(bytestream) >= 4

\* No packet begins at p, whatever arrives behind.
Refuted(p) ==
  \/ arrived[p] # Sync1
  \/ p + 1 <= Len(arrived) /\ arrived[p + 1] # Sync2
  \/ Complete(arrived, p) /\ ~Intact(arrived, p)

StreamOK ==
  /\ consumed \in 0 .. Len(arrived)
  /\ bytestream = Drop(arrived, consumed)

\* The returned packets, in terms of the stream.
FoundOK ==
  /\ found \subseteq Frames
  /\ \A p \in found : Taken(p)
  /\ \A p, q \in found : ~Inside(p, q)

Past == \A p \in 1 .. consumed :
          p \in found \/ Refuted(p) \/ \E q \in found : Inside(p, q)

ParserInv == /\ TypeOK /\ StreamOK /\ BoundsOK /\ FrontOK
             /\ FoundOK /\ Past
-----------------------------------------------------------------------------
\* The bytes at the front are those of the stream from consumed + 1.
LEMMA FrontOfStream ==
  ASSUME TypeOK, StreamOK
  PROVE  /\ Len(bytestream) = Len(arrived) - consumed
         /\ \A i \in 1 .. Len(bytestream) : bytestream[i] = arrived[consumed + i]
         /\ Complete(bytestream, 1) <=> Complete(arrived, consumed + 1)
         /\ Complete(arrived, consumed + 1) =>
              /\ PacketLen(bytestream, 1) = PacketLen(arrived, consumed + 1)
              /\ PacketLen(bytestream, 1) \in 6 .. Len(bytestream)
              /\ Matches(bytestream, PacketLen(bytestream, 1))
                   <=> Intact(arrived, consumed + 1)
<1> USE DEF TypeOK, StreamOK
<1>1. /\ Len(bytestream) = Len(arrived) - consumed
      /\ \A i \in 1 .. Len(bytestream) : bytestream[i] = arrived[consumed + i]
  BY DropProperties
<1>2. /\ Complete(bytestream, 1) <=> Complete(arrived, consumed + 1)
      /\ Complete(arrived, consumed + 1) =>
           /\ PacketLen(bytestream, 1) = PacketLen(arrived, consumed + 1)
           /\ PacketLen(arrived, consumed + 1) \in 6 .. Len(arrived) - consumed
           /\ Matches(bytestream, PacketLen(arrived, consumed + 1))
                <=> Intact(arrived, consumed + 1)
  BY PacketOfRest
<1> QED
  BY <1>1, <1>2

\* A frame has at least six bytes, all of them in the stream.
LEMMA FrameLength ==
  ASSUME TypeOK, NEW p \in Frames
  PROVE  /\ p \in 1 .. Len(arrived) /\ PacketLen(arrived, p) \in Nat
         /\ PacketLen(arrived, p) >= 6
         /\ p + PacketLen(arrived, p) - 1 <= Len(arrived)
<1>1. p \in 1 .. Len(arrived) /\ Complete(arrived, p)
  BY DEF Frames
<1>2. p + 2 \in 1 .. Len(arrived)
  BY <1>1 DEF Complete, Header, TypeOK
<1>3. arrived[p + 2] \in Nat
  BY <1>2, FormatAssumption DEF TypeOK, Bytes
<1> QED
  BY <1>1, <1>3 DEF Complete, PacketLen

\* A step that leaves stream and packets alone keeps what is said of them.
LEMMA StillStream ==
  ASSUME ParserInv, UNCHANGED <<bytestream, arrived, found>>,
         pc = "pop" <=> pc' = "pop"
  PROVE  StreamOK' /\ FoundOK' /\ Past'
<1>1. consumed' = consumed
  BY DEF consumed
<1>2. StreamOK'
  BY <1>1 DEF ParserInv, StreamOK
<1>3. FoundOK'
  BY <1>1 DEF ParserInv, FoundOK, Frames, Taken, Inside
<1>4. Past'
  BY <1>1 DEF ParserInv, Past, Refuted, Inside
<1> QED
  BY <1>2, <1>3, <1>4

LEMMA InitParser == Init => ParserInv
<1> SUFFICES ASSUME Init PROVE ParserInv
  OBVIOUS
<1> USE DEF Init
<1>1. consumed = 0 /\ Len(arrived) = 0
  BY DEF consumed
<1>2. TypeOK
  <2>1. <<>> \in Seq(Bytes) /\ 0 \in Bytes
    BY EmptySeq, FormatAssumption DEF Bytes
  <2>2. pc \in Places
    BY DEF Places
  <2> QED
    BY <2>1, <2>2 DEF TypeOK
<1>3. StreamOK
  BY <1>1, SubSeqEmpty DEF StreamOK, Drop
<1>4. BoundsOK /\ FrontOK
  BY DEF BoundsOK, FrontOK, Uses
<1>5. FoundOK /\ Past
  BY <1>1 DEF FoundOK, Past
<1> QED
  BY <1>2, <1>3, <1>4, <1>5 DEF ParserInv
-----------------------------------------------------------------------------
\* A new byte decides nothing anew about the places parse has gone past.
LEMMA ReadKeeps == ParserInv /\ Read => ParserInv'
<1> SUFFICES ASSUME ParserInv, Read PROVE ParserInv'
  OBVIOUS
<1> USE ParserAssumption DEF ParserInv
<1>1. PICK b \in Alphabet : /\ bytestream' = Append(bytestream, b)
                            /\ arrived' = Append(arrived, b)
  BY DEF Read
<1>2. b \in Bytes /\ pc = "idle" /\ ~broken
        /\ UNCHANGED <<pc, started, length, found, torn, broken>>
  BY DEF Read, At
<1>3. ~torn
  BY <1>2 DEF BoundsOK, Uses
<1>4. /\ bytestream' \in Seq(Bytes) /\ Len(bytestream') = Len(bytestream) + 1
      /\ arrived' \in Seq(Bytes) /\ Len(arrived') = Len(arrived) + 1
      /\ \A i \in 1 .. Len(arrived) : arrived'[i] = arrived[i]
  BY <1>1, <1>2, AppendProperties DEF TypeOK
<1>5. consumed' = consumed /\ consumed \in 0 .. Len(arrived)
  BY <1>4 DEF consumed, TypeOK, StreamOK
<1>6. TypeOK'
  BY <1>2, <1>4 DEF TypeOK
<1>7. StreamOK'
  <2>1. Append(Drop(arrived, consumed), b) = Drop(Append(arrived, b), consumed)
    BY <1>2, <1>5, DropAppend DEF TypeOK
  <2> QED
    BY <1>1, <1>4, <1>5, <2>1 DEF StreamOK, TypeOK
<1>8. BoundsOK' /\ FrontOK'
  BY <1>2, <1>3 DEF BoundsOK, FrontOK, Uses
<1>9. \A p \in 1 .. Len(arrived) : Complete(arrived, p) =>
        /\ Complete(arrived', p) /\ PacketLen(arrived', p) = PacketLen(arrived, p)
        /\ Intact(arrived', p) <=> Intact(arrived, p)
  BY <1>1, <1>2, PacketStands DEF TypeOK
<1>10. \A p \in Frames : p \in Frames'
                         /\ PacketLen(arrived', p) = PacketLen(arrived, p)
  BY <1>4, <1>9 DEF Frames, TypeOK
<1>11. \A p \in found : PacketLen(arrived', p) = PacketLen(arrived, p)
  BY <1>10 DEF FoundOK
<1>12. FoundOK'
  BY <1>2, <1>5, <1>10, <1>11 DEF FoundOK, Taken, Inside
<1>13. \A p \in 1 .. consumed : Refuted(p) => Refuted(p)'
  <2> SUFFICES ASSUME NEW p \in 1 .. consumed, Refuted(p)
               PROVE  Refuted(p)'
    OBVIOUS
  <2>1. p \in 1 .. Len(arrived) /\ arrived'[p] = arrived[p]
    BY <1>4, <1>5
  <2>2. p + 1 <= Len(arrived) =>
          p + 1 <= Len(arrived') /\ arrived'[p + 1] = arrived[p + 1]
    BY <1>4, <2>1 DEF TypeOK
  <2>3. Complete(arrived, p) /\ ~Intact(arrived, p) =>
          Complete(arrived', p) /\ ~Intact(arrived', p)
    BY <1>9, <2>1
  <2> QED
    BY <2>1, <2>2, <2>3 DEF Refuted
<1>14. Past'
  BY <1>2, <1>5, <1>11, <1>13 DEF Past, Inside
<1> QED
  BY <1>6, <1>7, <1>8, <1>12, <1>14

LEMMA ClearKeeps == ParserInv /\ Clear => ParserInv'
<1> SUFFICES ASSUME ParserInv, Clear PROVE ParserInv'
  OBVIOUS
<1>1. /\ bytestream' = <<>> /\ arrived' = <<>> /\ found' = {}
      /\ torn' = (torn \/ pc \in Uses) /\ ~broken
      /\ UNCHANGED <<pc, started, length, broken>>
  BY DEF Clear
<1>2. consumed' = 0 /\ Len(arrived') = 0
  BY <1>1 DEF consumed
<1>3. TypeOK'
  <2>1. <<>> \in Seq(Bytes)
    BY EmptySeq
  <2>2. torn' \in BOOLEAN
    BY <1>1
  <2> QED
    BY <1>1, <2>1, <2>2 DEF ParserInv, TypeOK
<1>4. StreamOK'
  BY <1>1, <1>2, SubSeqEmpty DEF StreamOK, Drop
<1>5. torn \/ pc \in Uses => pc \in Uses
  BY DEF ParserInv, BoundsOK
<1>6. BoundsOK'
  BY <1>1, <1>5 DEF BoundsOK, Uses
<1>7. FrontOK'
  BY <1>1 DEF FrontOK
<1>8. FoundOK' /\ Past'
  BY <1>1, <1>2 DEF FoundOK, Past
<1> QED
  BY <1>3, <1>4, <1>6, <1>7, <1>8 DEF ParserInv

\* The statements that test the size of the stream, or nothing.
Tests == \/ Call \/ Iterate \/ Return \/ Skip \/ Two \/ Four \/ Whole

LEMMA TestsKeep == ParserInv /\ Tests => ParserInv'
<1> SUFFICES ASSUME ParserInv, Tests PROVE ParserInv'
  OBVIOUS
<1>1. UNCHANGED <<bytestream, arrived, found, torn, broken, length>>
  BY DEF Tests, Call, Iterate, Return, Skip, Two, Four, Whole, Step, history
<1>2. /\ ~broken /\ started' \in BOOLEAN
      /\ pc \in {"idle", "loop", "skip", "two", "four", "whole"}
      /\ pc' \in {"idle", "loop", "skip", "front", "two", "sync", "length", "copy"}
  BY DEF Tests, Call, Iterate, Return, Skip, Two, Four, Whole, Step, At, Goto,
         ParserInv, TypeOK
<1>3. /\ pc' = "front" => bytestream # <<>>
      /\ pc' = "two" => bytestream = <<>>
      /\ pc' = "sync" => Len(bytestream) >= 2 /\ pc = "two"
      /\ pc' = "length" => Len(bytestream) >= 4 /\ pc = "four"
      /\ pc' = "copy" => Len(bytestream) >= 6 + length /\ pc = "whole"
  <2>1. Len(bytestream) \in Nat /\ length \in Nat
    BY FormatAssumption DEF ParserInv, TypeOK, Bytes
  <2> QED
    BY <2>1 DEF Tests, Call, Iterate, Return, Skip, Two, Four, Whole, Step, At,
                Goto
<1>4. ~torn
  BY <1>2 DEF ParserInv, BoundsOK, Uses
<1>5. StreamOK' /\ FoundOK' /\ Past'
  BY <1>1, <1>2, StillStream
<1>6. TypeOK'
  BY <1>1, <1>2 DEF ParserInv, TypeOK, Places, Uses
<1>7. BoundsOK'
  <2>1. Len(bytestream) >= 2 \/ Len(bytestream) >= 6 + length =>
          bytestream # <<>>
    BY FormatAssumption DEF ParserInv, TypeOK, Bytes
  <2> QED
    BY <1>1, <1>2, <1>3, <1>4, <2>1 DEF BoundsOK, Uses, ParserInv, TypeOK
<1>8. FrontOK'
  BY <1>1, <1>2, <1>3 DEF ParserInv, FrontOK
<1> QED
  BY <1>5, <1>6, <1>7, <1>8 DEF ParserInv

\* A use of bytes that are not there leaves the statement where it is, and
\* happens only when a signal tore it.
LEMMA UndefinedKeeps ==
  ASSUME ParserInv, broken' = TRUE, torn,
         UNCHANGED <<bytestream, pc, started, length, arrived, found, torn>>
  PROVE  ParserInv'
<1>1. StreamOK' /\ FoundOK' /\ Past'
  BY StillStream
<1>2. TypeOK'
  BY DEF ParserInv, TypeOK
<1>3. BoundsOK'
  BY DEF ParserInv, BoundsOK
<1>4. FrontOK'
  <2>1. consumed' = consumed
    BY DEF consumed
  <2> QED
    BY <2>1 DEF ParserInv, FrontOK
<1> QED
  BY <1>1, <1>2, <1>3, <1>4 DEF ParserInv

\* The bytes of the packet of the given length are there.
Enough(n) == n \in 1 .. Len(bytestream)

\* Each use is of bytes that the tests have shown to be there.
LEMMA UsesTested ==
  ASSUME ParserInv, ~torn
  PROVE  /\ pc \in {"front", "junk", "drop"} => Enough(1)
         /\ pc = "sync" => Enough(2)
         /\ pc = "length" => Enough(3)
         /\ pc \in {"copy", "pop"} => Enough(6 + length)
<1>1. Len(bytestream) \in Nat /\ length \in Nat
        /\ (bytestream # <<>> => Len(bytestream) >= 1)
  BY EmptySeq, FormatAssumption DEF ParserInv, TypeOK, Bytes
<1> QED
  BY <1>1 DEF ParserInv, BoundsOK, FrontOK, Uses, Enough

\* A use of n > 0 bytes is defined exactly when they are there, and when they
\* are not, a signal has torn the statement from its test.
LEMMA UseSplits ==
  ASSUME ParserInv, NEW here, NEW n \in Nat \ {0}, Use(here, n),
         ~torn => Enough(n)
  PROVE  \/ broken' = TRUE /\ torn
         \/ broken' = FALSE /\ ~torn /\ n <= Len(bytestream) /\ bytestream # <<>>
<1>1. broken' = (n > Len(bytestream))
  BY DEF Use
<1>2. Len(bytestream) \in Nat
  BY DEF ParserInv, TypeOK
<1>3. CASE n > Len(bytestream)
  <2>1. broken' = TRUE
    BY <1>1, <1>3
  <2>2. torn
    BY <1>2, <1>3 DEF Enough
  <2> QED
    BY <2>1, <2>2
<1>4. CASE ~(n > Len(bytestream))
  <2>1. broken' = FALSE
    <3>1. (n > Len(bytestream)) = FALSE
      BY <1>4
    <3> QED
      BY <1>1, <3>1
  <2>2. n <= Len(bytestream)
    BY <1>2, <1>4
  <2>3. bytestream # <<>>
    BY <1>2, <2>2, EmptySeq
  <2>4. ~torn
    BY <2>3 DEF ParserInv, BoundsOK
  <2> QED
    BY <2>1, <2>2, <2>3, <2>4
<1> QED
  BY <1>3, <1>4

\* The statements that only look at bytes.
Looks == FrontByte \/ SecondSync \/ Length

LEMMA LooksKeep == ParserInv /\ Looks => ParserInv'
<1> SUFFICES ASSUME ParserInv, Looks PROVE ParserInv'
  OBVIOUS
<1>1. PICK n \in 1 .. 3 : Use(pc, n) /\ (~torn => Enough(n))
  BY UsesTested DEF Looks, FrontByte, SecondSync, Length, Look, Use, At
<1>2. /\ ~broken /\ pc \in {"front", "sync", "length"}
      /\ UNCHANGED <<bytestream, started, arrived, found, torn>>
  BY DEF Looks, FrontByte, SecondSync, Length, Look, Use, At
<1>3. \/ broken' = TRUE /\ torn
      \/ broken' = FALSE /\ ~torn /\ bytestream # <<>>
  <2>1. n \in Nat \ {0}
    OBVIOUS
  <2> QED
    BY <1>1, <2>1, UseSplits
<1>4. CASE broken' = TRUE /\ torn
  <2>1. UNCHANGED <<pc, length>>
    BY <1>4 DEF Looks, FrontByte, SecondSync, Length, Look, Use, At
  <2> QED
    BY <1>2, <1>4, <2>1, UndefinedKeeps
<1>5. CASE broken' = FALSE /\ ~torn /\ bytestream # <<>>
  <2>1. \/ pc = "front" /\ pc' = "junk" /\ bytestream[1] # Sync1
        \/ pc = "front" /\ pc' = "two" /\ bytestream[1] = Sync1
        \/ pc = "sync" /\ pc' = "drop" /\ bytestream[2] # Sync2
        \/ pc = "sync" /\ pc' = "four" /\ bytestream[2] = Sync2
        \/ pc = "length" /\ pc' = "whole" /\ length' = bytestream[3]
    BY <1>5 DEF Looks, FrontByte, SecondSync, Length, Look, Use, At, Goto
  <2>2. pc' # "whole" => UNCHANGED length
    BY <1>5, <2>1 DEF Looks, FrontByte, SecondSync, Length, Look, Use, At
  <2>3. pc = "sync" => Len(bytestream) >= 2
    BY <1>5 DEF ParserInv, BoundsOK
  <2>4. pc = "length" => Len(bytestream) >= 4
    BY <1>5 DEF ParserInv, BoundsOK
  <2>5. pc = "length" => bytestream[3] \in Bytes
    BY <2>4 DEF ParserInv, TypeOK
  <2>6. StreamOK' /\ FoundOK' /\ Past'
    BY <1>2, <2>1, StillStream
  <2>7. TypeOK'
    <3>1. pc' \in Places
      BY <2>1 DEF Places, Uses
    <3>2. length' \in Bytes
      BY <2>1, <2>2, <2>5 DEF ParserInv, TypeOK
    <3> QED
      BY <1>2, <1>5, <3>1, <3>2 DEF ParserInv, TypeOK
  <2>8. BoundsOK'
    BY <1>2, <1>5, <2>1 DEF BoundsOK
  <2>9. FrontOK'
    BY <1>2, <1>5, <2>1, <2>3, <2>4 DEF ParserInv, FrontOK
  <2> QED
    BY <2>6, <2>7, <2>8, <2>9 DEF ParserInv
<1> QED
  BY <1>3, <1>4, <1>5

\* A packet of which all tests hold is the packet at consumed + 1.
LEMMA PacketAtFront ==
  ASSUME ParserInv, bytestream # <<>>, pc \in {"copy", "pop"}
  PROVE  /\ Complete(bytestream, 1)
         /\ PacketLen(bytestream, 1) = 6 + length
         /\ Complete(arrived, consumed + 1)
         /\ PacketLen(arrived, consumed + 1) = 6 + length
         /\ 6 + length \in 6 .. Len(bytestream)
         /\ Matches(bytestream, 6 + length) <=> Intact(arrived, consumed + 1)
<1>1. /\ bytestream[1] = Sync1 /\ bytestream[2] = Sync2
      /\ bytestream[3] = length /\ Len(bytestream) >= 6 + length
      /\ length \in Nat /\ Len(bytestream) \in Nat
  BY FormatAssumption DEF ParserInv, FrontOK, TypeOK, Bytes
<1>2. Complete(bytestream, 1) /\ PacketLen(bytestream, 1) = 6 + length
  BY <1>1 DEF Complete, Header, PacketLen
<1> QED
  BY <1>1, <1>2, FrontOfStream DEF ParserInv

LEMMA CopyKeeps == ParserInv /\ Copy => ParserInv'
<1> SUFFICES ASSUME ParserInv, Copy PROVE ParserInv'
  OBVIOUS
<1>1. /\ ~broken /\ pc = "copy" /\ Use("copy", 6 + length)
      /\ UNCHANGED <<bytestream, started, length, arrived, torn>>
  BY DEF Copy, Use, At
<1>2. consumed' = consumed
  BY <1>1 DEF consumed
<1>3. length \in Nat /\ Len(bytestream) \in Nat
        /\ Len(arrived) \in Nat /\ consumed \in 0 .. Len(arrived)
  BY FormatAssumption DEF ParserInv, TypeOK, StreamOK, Bytes
<1>4. \/ broken' = TRUE /\ torn
      \/ broken' = FALSE /\ ~torn /\ bytestream # <<>>
  <2>1. ~torn => Enough(6 + length)
    BY <1>1, UsesTested
  <2>2. 6 + length \in Nat \ {0}
    BY <1>3
  <2> QED
    BY <1>1, <2>1, <2>2, UseSplits
<1>5. CASE broken' = TRUE /\ torn
  <2>1. UNCHANGED <<pc, found>>
    BY <1>1, <1>5 DEF Copy
  <2> QED
    BY <1>1, <1>5, <2>1, UndefinedKeeps
<1>6. CASE broken' = FALSE /\ ~torn /\ bytestream # <<>>
  <2>3. /\ Complete(bytestream, 1) /\ PacketLen(bytestream, 1) = 6 + length
        /\ Complete(arrived, consumed + 1)
        /\ PacketLen(arrived, consumed + 1) = 6 + length
        /\ Matches(bytestream, 6 + length) <=> Intact(arrived, consumed + 1)
    BY <1>1, <1>6, PacketAtFront
  <2>4. CASE ~Matches(bytestream, 6 + length)
    <3>1. pc' = "drop" /\ UNCHANGED found
      BY <1>6, <2>4 DEF Copy
    <3>2. StreamOK' /\ FoundOK' /\ Past'
      BY <1>1, <3>1, StillStream
    <3>3. TypeOK'
      BY <1>1, <1>6, <3>1 DEF ParserInv, TypeOK, Places, Uses
    <3>4. BoundsOK'
      BY <1>1, <1>6, <3>1 DEF BoundsOK
    <3>5. FrontOK'
      BY <1>1, <2>3, <2>4, <3>1 DEF FrontOK
    <3> QED
      BY <3>2, <3>3, <3>4, <3>5 DEF ParserInv
  <2>5. CASE Matches(bytestream, 6 + length)
    <3>1. pc' = "pop" /\ found' = found \union {consumed + 1}
      BY <1>6, <2>5 DEF Copy, Goto
    <3>2. \A p \in found : /\ PacketLen(arrived, p) \in Nat
         /\ PacketLen(arrived, p) >= 6
                           /\ p \in 1 .. Len(arrived)
                           /\ p + PacketLen(arrived, p) - 1 <= consumed
      BY <1>1, FrameLength DEF ParserInv, FoundOK, Taken
    <3>3. consumed + 1 \in Frames
      BY <1>3, <2>3, <2>5 DEF Frames, Complete, Header
    <3>4. TypeOK'
      <4>1. found' \subseteq Nat \ {0}
        BY <1>3, <3>1 DEF ParserInv, TypeOK
      <4>2. pc' \in Places
        BY <3>1 DEF Places, Uses
      <4> QED
        BY <1>1, <1>6, <4>1, <4>2 DEF ParserInv, TypeOK
    <3>5. StreamOK'
      BY <1>1, <1>2 DEF ParserInv, StreamOK
    <3>6. BoundsOK'
      BY <1>1, <1>6, <3>1 DEF BoundsOK
    <3>7. FrontOK'
      BY <1>1, <1>2, <2>5, <3>1 DEF ParserInv, FrontOK
    <3>8. FoundOK'
      <4>1. found' \subseteq Frames'
        BY <1>1, <3>1, <3>3 DEF ParserInv, FoundOK, Frames
      <4>2. \A p \in found' : Taken(p)'
        BY <1>1, <1>2, <3>1, <3>2 DEF Taken
      <4>3. \A p, q \in found' : ~Inside(p, q)'
        <5> SUFFICES ASSUME NEW p \in found', NEW q \in found', Inside(p, q)
                     PROVE  FALSE
          BY <1>1 DEF Inside
        <5>1. CASE q = consumed + 1
          BY <5>1, <1>3, <3>1, <3>2 DEF Inside
        <5>2. CASE q \in found /\ p = consumed + 1
          BY <5>2, <1>3, <3>2 DEF Inside
        <5>3. CASE q \in found /\ p \in found
          BY <5>3 DEF ParserInv, FoundOK
        <5> QED
          BY <3>1, <5>1, <5>2, <5>3
      <4> QED
        BY <4>1, <4>2, <4>3 DEF FoundOK
    <3>9. Past'
      BY <1>1, <1>2, <3>1 DEF ParserInv, Past, Refuted, Inside
    <3> QED
      BY <3>4, <3>5, <3>6, <3>7, <3>8, <3>9 DEF ParserInv
  <2> QED
    BY <2>4, <2>5
<1> QED
  BY <1>4, <1>5, <1>6
-----------------------------------------------------------------------------
\* Bytes may be popped when no packet begins at the first of them, or when
\* they are a packet that is returned.
LEMMA PoppingKeeps ==
  ASSUME ParserInv, NEW n \in 1 .. Len(bytestream),
         bytestream' = Drop(bytestream, n), ~torn,
         broken' = FALSE, pc' \in {"skip", "loop"},
         UNCHANGED <<started, length, arrived, found, torn>>,
         \/ pc # "pop" /\ n = 1 /\ Refuted(consumed + 1)
         \/ /\ pc = "pop" /\ consumed + 1 \in found
            /\ n = PacketLen(arrived, consumed + 1)
  PROVE  ParserInv'
<1>1. /\ bytestream \in Seq(Bytes) /\ arrived \in Seq(Bytes)
      /\ Len(bytestream) \in Nat /\ Len(arrived) \in Nat
      /\ consumed \in 0 .. Len(arrived)
      /\ bytestream = Drop(arrived, consumed)
      /\ Len(bytestream) = Len(arrived) - consumed
  BY FrontOfStream DEF ParserInv, TypeOK, StreamOK
<1>2. bytestream' \in Seq(Bytes) /\ Len(bytestream') = Len(bytestream) - n
  <2>1. bytestream \in Seq(Bytes) /\ n \in 0 .. Len(bytestream)
    BY <1>1
  <2>2. /\ Drop(bytestream, n) \in Seq(Bytes)
        /\ Len(Drop(bytestream, n)) = Len(bytestream) - n
    BY <2>1, DropProperties
  <2> QED
    BY <2>2
<1>3. consumed' = consumed + n /\ consumed' \in 0 .. Len(arrived)
  <2>1. consumed' = Len(arrived) - Len(bytestream')
    BY DEF consumed
  <2> QED
    BY <2>1, <1>1, <1>2
<1>4. TypeOK'
  <2>1. pc' \in Places
    BY DEF Places
  <2> QED
    BY <1>2, <2>1 DEF ParserInv, TypeOK
<1>5. StreamOK'
  <2>1. Drop(Drop(arrived, consumed), n) = Drop(arrived, consumed + n)
    BY <1>1, DropDrop
  <2> QED
    BY <1>1, <1>3, <2>1 DEF StreamOK
<1>6. BoundsOK'
  BY DEF BoundsOK, Uses
<1>7. FrontOK'
  BY DEF FrontOK
<1>8. \A p \in found : /\ p \in 1 .. Len(arrived)
                       /\ PacketLen(arrived, p) \in Nat
         /\ PacketLen(arrived, p) >= 6
                       /\ p + PacketLen(arrived, p) - 1 <= consumed + n
  <2> SUFFICES ASSUME NEW p \in found
               PROVE  /\ p \in 1 .. Len(arrived)
                      /\ PacketLen(arrived, p) \in Nat
         /\ PacketLen(arrived, p) >= 6
                      /\ p + PacketLen(arrived, p) - 1 <= consumed + n
    OBVIOUS
  <2>1. p \in 1 .. Len(arrived) /\ PacketLen(arrived, p) \in Nat
         /\ PacketLen(arrived, p) >= 6
    BY FrameLength DEF ParserInv, FoundOK
  <2>2. IF p = consumed + 1 THEN pc = "pop"
                            ELSE p + PacketLen(arrived, p) - 1 <= consumed
    BY DEF ParserInv, FoundOK, Taken
  <2>3. CASE p = consumed + 1
    BY <2>1, <2>2, <2>3, <1>1
  <2>4. CASE p # consumed + 1
    BY <2>1, <2>2, <2>4, <1>1
  <2> QED
    BY <2>3, <2>4
<1>9. FoundOK'
  <2>1. \A p \in found : Taken(p)'
    BY <1>1, <1>3, <1>8 DEF Taken
  <2> QED
    BY <2>1 DEF ParserInv, FoundOK, Frames, Inside
<1>10. \A p \in 1 .. consumed + n :
         p \in found \/ Refuted(p) \/ \E q \in found : Inside(p, q)
  <2> SUFFICES ASSUME NEW p \in 1 .. consumed + n
               PROVE  p \in found \/ Refuted(p) \/ \E q \in found : Inside(p, q)
    OBVIOUS
  <2>1. CASE p <= consumed
    BY <2>1, <1>1 DEF ParserInv, Past
  <2>2. CASE p = consumed + 1
    BY <2>2
  <2>3. CASE p > consumed + 1
    <3>1. consumed + 1 \in found /\ n = PacketLen(arrived, consumed + 1)
      BY <2>3, <1>1
    <3>2. Inside(p, consumed + 1)
      BY <2>3, <3>1, <1>1 DEF Inside
    <3> QED
      BY <3>1, <3>2
  <2> QED
    BY <2>1, <2>2, <2>3, <1>1
<1>11. Past'
  BY <1>3, <1>10 DEF Past, Refuted, Inside
<1> QED
  BY <1>4, <1>5, <1>6, <1>7, <1>9, <1>11 DEF ParserInv

\* What the tests have found at the front refutes the place it stands at.
LEMMA FrontRefuted ==
  ASSUME ParserInv, bytestream # <<>>, pc \in {"junk", "drop"}
  PROVE  Refuted(consumed + 1)
<1>1. /\ Len(bytestream) \in Nat /\ Len(arrived) \in Nat
      /\ consumed \in 0 .. Len(arrived)
      /\ Len(bytestream) = Len(arrived) - consumed /\ Len(bytestream) >= 1
      /\ \A i \in 1 .. Len(bytestream) : bytestream[i] = arrived[consumed + i]
  BY FrontOfStream, EmptySeq DEF ParserInv, TypeOK, StreamOK
<1>2. CASE pc = "junk"
  <2>1. bytestream[1] # Sync1
    BY <1>2 DEF ParserInv, FrontOK
  <2> QED
    BY <1>1, <2>1 DEF Refuted
<1>3. CASE pc = "drop"
  <2>1. \/ Len(bytestream) >= 2 /\ bytestream[2] # Sync2
        \/ /\ Complete(bytestream, 1)
           /\ ~Matches(bytestream, PacketLen(bytestream, 1))
    BY <1>3 DEF ParserInv, FrontOK
  <2>2. CASE Len(bytestream) >= 2 /\ bytestream[2] # Sync2
    <3>1. /\ (consumed + 1) + 1 <= Len(arrived)
          /\ bytestream[2] = arrived[(consumed + 1) + 1]
      BY <1>1, <2>2
    <3> QED
      BY <2>2, <3>1 DEF Refuted
  <2>3. CASE /\ Complete(bytestream, 1)
             /\ ~Matches(bytestream, PacketLen(bytestream, 1))
    BY <2>3, FrontOfStream DEF ParserInv, Refuted
  <2> QED
    BY <2>1, <2>2, <2>3
<1> QED
  BY <1>2, <1>3

\* The statements that pop.
Takes == Junk \/ DropOne \/ Pop

LEMMA TakesKeep == ParserInv /\ Takes => ParserInv'
<1> SUFFICES ASSUME ParserInv, Takes PROVE ParserInv'
  OBVIOUS
<1> DEFINE n == IF pc = "pop" THEN 6 + length ELSE 1
<1>1. /\ Use(pc, n) /\ pc \in {"junk", "drop", "pop"}
      /\ UNCHANGED <<started, length, arrived, found, torn>>
  BY DEF Takes, Junk, DropOne, Pop, Take, Use, At
<1>2. length \in Nat /\ Len(bytestream) \in Nat
  BY FormatAssumption DEF ParserInv, TypeOK, Bytes
<1>3. n \in Nat \ {0}
  BY <1>2
<1>4. ~torn => Enough(n)
  BY <1>1, UsesTested
<1>5. /\ broken' = TRUE => UNCHANGED <<bytestream, pc>>
      /\ broken' = FALSE => /\ bytestream' = Drop(bytestream, n)
                            /\ pc' \in {"skip", "loop"}
  BY DEF Takes, Junk, DropOne, Pop, Take, Use, At, Goto
<1> HIDE DEF n
<1>6. \/ broken' = TRUE /\ torn
      \/ broken' = FALSE /\ ~torn /\ n <= Len(bytestream) /\ bytestream # <<>>
  BY <1>1, <1>3, <1>4, UseSplits
<1>7. CASE broken' = TRUE /\ torn
  BY <1>1, <1>5, <1>7, UndefinedKeeps
<1>8. CASE broken' = FALSE /\ ~torn /\ n <= Len(bytestream) /\ bytestream # <<>>
  <2>1. n \in 1 .. Len(bytestream)
    BY <1>2, <1>3, <1>8
  <2>2. \/ pc # "pop" /\ n = 1 /\ Refuted(consumed + 1)
        \/ /\ pc = "pop" /\ consumed + 1 \in found
           /\ n = PacketLen(arrived, consumed + 1)
    <3>1. CASE pc = "pop"
      <4>1. consumed + 1 \in found
        BY <1>8, <3>1 DEF ParserInv, FrontOK
      <4>2. PacketLen(arrived, consumed + 1) = 6 + length
        BY <1>8, <3>1, PacketAtFront
      <4> QED
        BY <3>1, <4>1, <4>2 DEF n
    <3>2. CASE pc # "pop"
      <4>1. Refuted(consumed + 1)
        BY <1>1, <1>8, <3>2, FrontRefuted
      <4> QED
        BY <3>2, <4>1 DEF n
    <3> QED
      BY <3>1, <3>2
  <2> QED
    BY <1>1, <1>5, <1>8, <2>1, <2>2, PoppingKeeps
<1> QED
  BY <1>6, <1>7, <1>8
-----------------------------------------------------------------------------
LEMMA StutteringKeeps == ParserInv /\ UNCHANGED vars => ParserInv'
<1> SUFFICES ASSUME ParserInv, UNCHANGED vars PROVE ParserInv'
  OBVIOUS
<1>1. StreamOK' /\ FoundOK' /\ Past'
  BY StillStream DEF vars
<1>2. consumed' = consumed
  BY DEF vars, consumed
<1>3. TypeOK' /\ BoundsOK' /\ FrontOK'
  BY <1>2 DEF vars, ParserInv, TypeOK, BoundsOK, FrontOK
<1> QED
  BY <1>1, <1>3 DEF ParserInv

\* On every stream, with reads, timeouts and signals at any statement, the
\* parser keeps its invariant.
THEOREM ParserCorrect == Spec => []ParserInv
<1>1. ParserInv /\ [Next]_vars => ParserInv'
  <2> SUFFICES ASSUME ParserInv, [Next]_vars PROVE ParserInv'
    OBVIOUS
  <2>1. CASE Read
    BY <2>1, ReadKeeps
  <2>2. CASE Clear
    BY <2>2, ClearKeeps
  <2>3. CASE Tests
    BY <2>3, TestsKeep
  <2>4. CASE Looks
    BY <2>4, LooksKeep
  <2>5. CASE Copy
    BY <2>5, CopyKeeps
  <2>6. CASE Takes
    BY <2>6, TakesKeep
  <2>7. CASE UNCHANGED vars
    BY <2>7, StutteringKeeps
  <2> QED
    BY <2>1, <2>2, <2>3, <2>4, <2>5, <2>6, <2>7
    DEF Next, Parse, Undefined, Tests, Looks, Takes
<1> QED
  BY InitParser, <1>1, PTL DEF Spec

\* Every variable of parse keeps its type.
THEOREM ParserTypeCorrect == Spec => []TypeOK
<1>1. ParserInv => TypeOK
  BY DEF ParserInv
<1> QED
  BY <1>1, ParserCorrect, PTL

\* parse uses a byte that is not there only when SIGINT's handler has cleared
\* input_buff between a test of its size and the use.
THEOREM StaysInBounds == Spec => []InBoundsUnlessTorn
<1>1. ParserInv => InBoundsUnlessTorn
  BY DEF ParserInv, BoundsOK, InBoundsUnlessTorn
<1> QED
  BY <1>1, ParserCorrect, PTL

\* What parse returns are packets of the stream, none of which overlap.
THEOREM PacketsAreGenuine == Spec => []PacketsGenuine
<1>1. ParserInv => PacketsGenuine
  BY DEF ParserInv, StreamOK, FoundOK, PacketsGenuine
<1> QED
  BY <1>1, ParserCorrect, PTL

\* Every packet that parse has gone past was returned, or begins in one that
\* was.
THEOREM NoneIsMissed == Spec => []NoPacketMissed
<1>1. ParserInv => NoPacketMissed
  <2> SUFFICES ASSUME ParserInv, NEW p \in Frames, p <= consumed
               PROVE  p \in found \/ \E q \in found : Inside(p, q)
    BY DEF NoPacketMissed, Returned
  <2>1. p \in 1 .. consumed
    BY DEF Frames, ParserInv, StreamOK, TypeOK
  <2>2. ~Refuted(p)
    BY DEF Frames, Refuted, Complete, Header
  <2> QED
    BY <2>1, <2>2 DEF ParserInv, Past
<1> QED
  BY <1>1, ParserCorrect, PTL

(***************************************************************************)
(* Codec.  The inductive invariant gives each value written its place in   *)
(* the data; what the receiver has before the first missing value then     *)
(* ends where the rest of the data begins.                                 *)
(***************************************************************************)
\* Codec's operators on bytes, and what is assumed of them.
LEMMA ByteFacts ==
  /\ MaxLen \in Nat /\ Bytes = 0 .. MaxLen
  /\ Sync1 \in Bytes /\ Sync2 \in Bytes /\ Id \in Bytes
  /\ Sizes \subseteq Nat \ {0}
BY CodecAssumption, FormatAssumption DEF Bytes, MaxLen

\* The exclusive or of bytes is a byte, whatever the bytes are.
LEMMA XorIsByte == ASSUME NEW s, NEW I PROVE XorAt(s, I) \in Bytes
<1> DEFINE odd(m) == Cardinality({i \in I : Bit(s[i], m)}) % 2 = 1
           M == {m \in Masks : odd(m)}
<1>1. \A N \in SUBSET Masks :
        \E b \in Bytes : \A m \in Masks : Bit(b, m) <=> m \in N
  BY FormatAssumption
<1>2. M \in SUBSET Masks
  OBVIOUS
<1>3. PICK b \in Bytes : \A m \in Masks : Bit(b, m) <=> m \in M
  BY <1>1, <1>2
<1>4. \A m \in Masks : Bit(b, m) <=> odd(m)
  BY <1>3
<1>5. (CHOOSE c \in Bytes : \A m \in Masks : Bit(c, m) <=> odd(m)) \in Bytes
  <2> HIDE DEF odd
  <2> QED
    BY <1>4
<1> QED
  BY <1>5 DEF XorAt

LEMMA ReverseProperties ==
  ASSUME NEW S, NEW s \in Seq(S)
  PROVE  /\ Reverse(s) \in Seq(S) /\ Len(Reverse(s)) = Len(s)
         /\ \A i \in 1 .. Len(s) : Reverse(s)[i] = s[Len(s) - i + 1]
<1>1. \A i \in 1 .. Len(s) : s[Len(s) - i + 1] \in S
  OBVIOUS
<1> QED
  BY <1>1 DEF Reverse

LEMMA MatchesWhen ==
  ASSUME NEW s, NEW n, NEW body, SubSeq(s, 1, n - 2) = body,
         s[n - 1] = Checksum(body)[0], s[n] = Checksum(body)[1]
  PROVE  Matches(s, n)
BY DEF Matches

\* What buildPacket makes of data that is short enough.
LEMMA FrameProperties ==
  ASSUME NEW bytes \in Seq(Bytes), Len(bytes) <= MaxLen
  PROVE  LET packet_ == Frame(Len(bytes), bytes)
             n == Len(bytes)
         IN  /\ packet_ \in Seq(Bytes) /\ Len(packet_) = 6 + n
             /\ packet_[1] = Sync1 /\ packet_[2] = Sync2 /\ packet_[3] = n
             /\ \A i \in 1 .. n : packet_[4 + i] = bytes[i]
             /\ Matches(packet_, 6 + n)
<1> DEFINE n == Len(bytes)
           head == <<Sync1, Sync2, n, Id>>
           body == head \o bytes
           check == Checksum(body)
           tail == <<check[0], check[1]>>
           frame == body \o tail
<1>1. n \in Nat /\ n \in Bytes
  BY ByteFacts
<1>2. head \in Seq(Bytes) /\ Len(head) = 4
        /\ head[1] = Sync1 /\ head[2] = Sync2 /\ head[3] = n
  BY <1>1, ByteFacts
<1>3. check[0] \in Bytes /\ check[1] \in Bytes
  BY XorIsByte DEF Checksum
<1>4. tail \in Seq(Bytes) /\ Len(tail) = 2 /\ tail[1] = check[0] /\ tail[2] = check[1]
  BY <1>3
<1>5. Frame(Len(bytes), bytes) = frame
  BY DEF Frame
<1> HIDE DEF n, head, check, tail
<1>6. /\ body \in Seq(Bytes) /\ Len(body) = 4 + n
      /\ \A i \in 1 .. 4 + n :
           body[i] = IF i <= 4 THEN head[i] ELSE bytes[i - 4]
  <2>1. /\ body \in Seq(Bytes) /\ Len(body) = Len(head) + Len(bytes)
        /\ \A i \in 1 .. Len(head) + Len(bytes) :
             body[i] = IF i <= Len(head) THEN head[i] ELSE bytes[i - Len(head)]
    BY <1>2, ConcatProperties
  <2>2. Len(head) = 4 /\ Len(bytes) = n
    BY <1>2 DEF n
  <2> QED
    BY <2>1, <2>2
<1> HIDE DEF body
<1>7. /\ frame \in Seq(Bytes) /\ Len(frame) = 4 + n + 2
      /\ \A i \in 1 .. 4 + n + 2 :
           frame[i] = IF i <= 4 + n THEN body[i] ELSE tail[i - (4 + n)]
  <2>1. /\ frame \in Seq(Bytes) /\ Len(frame) = Len(body) + Len(tail)
        /\ \A i \in 1 .. Len(body) + Len(tail) :
             frame[i] = IF i <= Len(body) THEN body[i] ELSE tail[i - Len(body)]
    BY <1>4, <1>6, ConcatProperties
  <2>2. Len(body) = 4 + n /\ Len(tail) = 2
    BY <1>4, <1>6
  <2> QED
    BY <2>1, <2>2
<1> HIDE DEF frame
<1>8. frame[1] = Sync1 /\ frame[2] = Sync2 /\ frame[3] = n
        /\ \A i \in 1 .. n : frame[4 + i] = bytes[i]
  <2>1. \A i \in 1 .. 4 + n : frame[i] = body[i]
    BY <1>1, <1>7
  <2>2. body[1] = Sync1 /\ body[2] = Sync2 /\ body[3] = n
    BY <1>1, <1>2, <1>6
  <2>3. ASSUME NEW i \in 1 .. n PROVE body[4 + i] = bytes[i]
    BY <1>1, <1>6
  <2> QED
    BY <1>1, <2>1, <2>2, <2>3
<1>9. SubSeq(frame, 1, (6 + n) - 2) = body
  <2>1. \A i \in 1 .. 4 + n : frame[i] \in Bytes /\ frame[i] = body[i]
    BY <1>1, <1>6, <1>7
  <2>2. /\ SubSeq(frame, 1, 4 + n) \in Seq(Bytes)
        /\ Len(SubSeq(frame, 1, 4 + n)) = 4 + n
        /\ \A i \in 1 .. 4 + n : SubSeq(frame, 1, 4 + n)[i] = frame[i]
    BY <1>1, <2>1, SubSeqProperties
  <2>3. SubSeq(frame, 1, 4 + n) = body
    BY <1>6, <2>1, <2>2, SeqEqual
  <2>4. (6 + n) - 2 = 4 + n
    BY <1>1
  <2> QED
    BY <2>3, <2>4
<1>10. frame[(6 + n) - 1] = check[0] /\ frame[6 + n] = check[1]
  BY <1>1, <1>4, <1>7
<1>11. Matches(frame, 6 + n)
  BY <1>9, <1>10, MatchesWhen DEF check
<1> QED
  BY <1>1, <1>5, <1>7, <1>8, <1>11 DEF n

\* The data that a packet has room for.
LEMMA CutProperties ==
  ASSUME NEW bytes \in Seq(Bytes)
  PROVE  /\ Cut(bytes) \in Seq(Bytes) /\ Len(Cut(bytes)) <= MaxLen
         /\ Len(Cut(bytes)) <= Len(bytes)
         /\ \A i \in 1 .. Len(Cut(bytes)) : Cut(bytes)[i] = bytes[i]
         /\ Len(bytes) <= MaxLen => Cut(bytes) = bytes
<1>1. MaxLen \in Nat /\ Len(bytes) \in Nat
  BY ByteFacts
<1>2. CASE Len(bytes) > MaxLen
  <2>1. \A i \in 1 .. MaxLen : bytes[i] \in Bytes
    BY <1>1, <1>2
  <2>2. /\ SubSeq(bytes, 1, MaxLen) \in Seq(Bytes)
        /\ Len(SubSeq(bytes, 1, MaxLen)) = MaxLen
        /\ \A i \in 1 .. MaxLen : SubSeq(bytes, 1, MaxLen)[i] = bytes[i]
    BY <1>1, <2>1, SubSeqProperties
  <2> QED
    BY <1>1, <1>2, <2>2 DEF Cut
<1>3. CASE ~(Len(bytes) > MaxLen)
  BY <1>1, <1>3 DEF Cut
<1> QED
  BY <1>2, <1>3

\* parse finds a packet where buildPacket put one, and comms::loop its data.
LEMMA BuildProperties ==
  ASSUME NEW bytes \in Seq(Bytes)
  PROVE  /\ BuildPacket(bytes) \in Seq(Bytes)
         /\ Complete(BuildPacket(bytes), 1) /\ Intact(BuildPacket(bytes), 1)
         /\ PacketLen(BuildPacket(bytes), 1) = Len(BuildPacket(bytes))
         /\ SubSeq(BuildPacket(bytes), 5, Len(BuildPacket(bytes)) - 2) = Cut(bytes)
<1> DEFINE cut == Cut(bytes)
           n == Len(cut)
           frame == BuildPacket(bytes)
<1>1. cut \in Seq(Bytes) /\ n \in Nat /\ n <= MaxLen
  BY CutProperties
<1>2. /\ frame \in Seq(Bytes) /\ Len(frame) = 6 + n
      /\ frame[1] = Sync1 /\ frame[2] = Sync2 /\ frame[3] = n
      /\ \A i \in 1 .. n : frame[4 + i] = cut[i]
      /\ Matches(frame, 6 + n)
  <2> HIDE DEF cut
  <2> QED
    BY <1>1, FrameProperties DEF BuildPacket, cut
<1> HIDE DEF cut, frame
<1>3. PacketLen(frame, 1) = 6 + n /\ Complete(frame, 1)
  BY <1>1, <1>2 DEF PacketLen, Complete, Header
<1>4. Drop(frame, 1 - 1) = frame
  BY <1>2, DropNothing, 1 - 1 = 0
<1>5. Intact(frame, 1)
  BY <1>2, <1>3, <1>4 DEF Intact
<1>6. SubSeq(frame, 5, 4 + n) = cut
  <2>1. \A i \in 5 .. 4 + n : frame[i] \in Bytes
    BY <1>1, <1>2
  <2>2. /\ SubSeq(frame, 5, 4 + n) \in Seq(Bytes)
        /\ Len(SubSeq(frame, 5, 4 + n)) = n
        /\ \A i \in 1 .. n : SubSeq(frame, 5, 4 + n)[i] = frame[4 + i]
    <3>1. 5 \in Int /\ 4 + n \in Int /\ 4 + n - 5 + 1 = n
      BY <1>1
    <3>2. \A i \in 1 .. n : 5 + i - 1 = 4 + i
      BY <1>1
    <3>3. /\ SubSeq(frame, 5, 4 + n) \in Seq(Bytes)
          /\ Len(SubSeq(frame, 5, 4 + n)) = IF 5 <= 4 + n THEN 4 + n - 5 + 1 ELSE 0
          /\ \A i \in 1 .. 4 + n - 5 + 1 :
               SubSeq(frame, 5, 4 + n)[i] = frame[5 + i - 1]
      BY <2>1, <3>1, SubSeqProperties
    <3> QED
      BY <1>1, <3>1, <3>2, <3>3
  <2>3. \A i \in 1 .. n : SubSeq(frame, 5, 4 + n)[i] = cut[i]
    BY <1>2, <2>2
  <2> QED
    BY <1>1, <2>2, <2>3, SeqEqual
<1>7. Len(frame) - 2 = 4 + n
  BY <1>1, <1>2
<1> QED
  BY <1>2, <1>3, <1>5, <1>6, <1>7 DEF frame, cut
-----------------------------------------------------------------------------
(***************************************************************************)
(* The inductive invariant.                                                *)
(***************************************************************************)

\* The i-th value written is the bytes up to off[i] of the data, reversed.
Offsets == [0 .. Len(fields) -> 0 .. Len(whole)]

Laid(off) ==
  /\ off[0] = 0 /\ off[Len(fields)] = Len(whole)
  /\ \A i \in 1 .. Len(fields) :
       /\ fields[i] # Unset
       /\ off[i] = off[i - 1] + Len(fields[i])
       /\ \A k \in 1 .. Len(fields[i]) : fields[i][k] = whole[(off[i] - k) + 1]

\* No value is missing so far.
Clean == \A j \in 1 .. Len(got) : got[j] # Unset

Carried ==
  /\ place \in {"sender", "radio"} => got = <<>> /\ vector = 0
  /\ place = "sender" => data = whole /\ packet = <<>>
  /\ place # "sender" => packet = BuildPacket(whole)

\* Until a value is missing, the rest of the data begins behind the last one
\* read; none is missing of a message that need not be cut.
Reading(off) ==
  /\ Clean => Len(got) <= Len(fields)
  /\ place \in {"receiver", "done"} /\ Clean =>
       /\ off[Len(got)] <= Len(Cut(whole))
       /\ data = Drop(Cut(whole), off[Len(got)])
  /\ Len(whole) <= MaxLen => Clean /\ (place = "done" => Len(got) = Len(fields))
  /\ vector # 0 =>
       /\ place = "receiver"
       /\ Clean => \A i \in Unread : Len(fields[i]) = vector

Typed ==
  /\ place \in {"sender", "radio", "receiver", "done"}
  /\ data \in Seq(Bytes) /\ packet \in Seq(Bytes) /\ whole \in Seq(Bytes)
  /\ got \in Seq(Seq(Bytes)) /\ fields \in Seq(Seq(Bytes))
  /\ vector \in Sizes \union {0}

CodecInv ==
  /\ Typed /\ Carried /\ FieldsSurvive
  /\ \E off \in Offsets : Laid(off) /\ Reading(off)
-----------------------------------------------------------------------------
\* Nothing is read of the type's bytes but its values.
LEMMA ExtractProperties ==
  ASSUME NEW s \in Seq(Bytes), NEW size \in Nat \ {0}, size <= Len(s)
  PROVE  /\ Extract(s, size) \in Seq(Bytes) /\ Len(Extract(s, size)) = size
         /\ Extract(s, size) # Unset
         /\ \A k \in 1 .. size : Extract(s, size)[k] = s[(size - k) + 1]
<1> DEFINE head == SubSeq(s, 1, size)
<1>1. \A i \in 1 .. size : s[i] \in Bytes
  OBVIOUS
<1>2. head \in Seq(Bytes) /\ Len(head) = size /\ \A i \in 1 .. size : head[i] = s[i]
  BY <1>1, SubSeqProperties
<1> HIDE DEF head
<1>3. /\ Reverse(head) \in Seq(Bytes) /\ Len(Reverse(head)) = size
      /\ \A k \in 1 .. size : Reverse(head)[k] = head[size - k + 1]
  BY <1>2, ReverseProperties
<1>4. ASSUME NEW k \in 1 .. size PROVE Reverse(head)[k] = s[(size - k) + 1]
  <2>1. (size - k) + 1 \in 1 .. size
    OBVIOUS
  <2> QED
    BY <1>2, <1>3, <2>1
<1>5. Extract(s, size) = Reverse(head)
  BY DEF Extract, head
<1>6. Reverse(head) # <<>>
  BY <1>3
<1> QED
  BY <1>3, <1>4, <1>5, <1>6 DEF Unset

LEMMA PushProperties ==
  ASSUME NEW vec \in Seq(Bytes), NEW value \in Seq(Bytes)
  PROVE  /\ Push(vec, value) \in Seq(Bytes)
         /\ Len(Push(vec, value)) = Len(vec) + Len(value)
         /\ \A i \in 1 .. Len(vec) : Push(vec, value)[i] = vec[i]
         /\ \A k \in 1 .. Len(value) :
              Push(vec, value)[((Len(vec) + Len(value)) - k) + 1] = value[k]
<1> DEFINE back == Reverse(value)
<1>1. /\ back \in Seq(Bytes) /\ Len(back) = Len(value)
      /\ \A i \in 1 .. Len(value) : back[i] = value[Len(value) - i + 1]
  BY ReverseProperties
<1> HIDE DEF back
<1>2. /\ vec \o back \in Seq(Bytes)
      /\ Len(vec \o back) = Len(vec) + Len(value)
      /\ \A i \in 1 .. Len(vec) + Len(value) :
           (vec \o back)[i] = IF i <= Len(vec) THEN vec[i] ELSE back[i - Len(vec)]
  <2>1. /\ vec \o back \in Seq(Bytes)
        /\ Len(vec \o back) = Len(vec) + Len(back)
        /\ \A i \in 1 .. Len(vec) + Len(back) :
             (vec \o back)[i] = IF i <= Len(vec) THEN vec[i] ELSE back[i - Len(vec)]
    <3>1. back \in Seq(Bytes)
      BY <1>1
    <3> QED
      BY <3>1, ConcatProperties
  <2> QED
    BY <1>1, <2>1
<1>3. ASSUME NEW k \in 1 .. Len(value)
      PROVE  (vec \o back)[((Len(vec) + Len(value)) - k) + 1] = value[k]
  <2> DEFINE i == ((Len(vec) + Len(value)) - k) + 1
             j == (Len(value) - k) + 1
  <2>1. /\ i \in 1 .. Len(vec) + Len(value) /\ ~(i <= Len(vec))
        /\ i - Len(vec) = j /\ j \in 1 .. Len(value) /\ (Len(value) - j) + 1 = k
    OBVIOUS
  <2> HIDE DEF i, j
  <2>2. (vec \o back)[i] = back[j]
    BY <1>2, <2>1
  <2>3. back[j] = value[k]
    BY <1>1, <2>1
  <2> QED
    BY <2>2, <2>3 DEF i
<1>4. \A i \in 1 .. Len(vec) : (vec \o back)[i] = vec[i]
  BY <1>2
<1>5. Push(vec, value) = vec \o back
  BY DEF Push, back
<1> QED
  BY <1>2, <1>3, <1>4, <1>5

LEMMA Offset ==
  ASSUME Typed, NEW off \in Offsets, Laid(off), NEW i \in 1 .. Len(fields)
  PROVE  /\ off[i] \in 0 .. Len(whole) /\ off[i - 1] \in 0 .. Len(whole)
         /\ off[i] = off[i - 1] + Len(fields[i])
         /\ fields[i] \in Seq(Bytes) /\ Len(fields[i]) \in Nat \ {0}
<1>1. fields[i] \in Seq(Bytes) /\ fields[i] # <<>>
  BY DEF Typed, Laid, Unset
<1>2. i \in 0 .. Len(fields) /\ i - 1 \in 0 .. Len(fields)
  BY DEF Typed
<1>3. Len(fields[i]) # 0
  BY <1>1
<1> QED
  BY <1>1, <1>2, <1>3 DEF Offsets, Laid

\* A value that is all there is the one that is next in the message, if none
\* is missing.
LEMMA NextValue ==
  ASSUME Typed, NEW off \in Offsets, Laid(off), Reading(off), Clean,
         place = "receiver", Len(got) < Len(fields),
         Len(fields[Len(got) + 1]) <= Len(data)
  PROVE  LET next == Len(got) + 1
             size == Len(fields[next])
         IN  /\ Extract(data, size) = fields[next]
             /\ off[next] <= Len(Cut(whole))
             /\ Drop(data, size) = Drop(Cut(whole), off[next])
<1> DEFINE last == Len(got)
           next == last + 1
           size == Len(fields[next])
           cut == Cut(whole)
<1>1. last \in Nat /\ next \in 1 .. Len(fields) /\ next - 1 = last
  BY DEF Typed
<1>2. /\ off[next] \in 0 .. Len(whole) /\ off[last] \in 0 .. Len(whole)
      /\ off[next] = off[last] + size
      /\ fields[next] \in Seq(Bytes) /\ size \in Nat \ {0}
  <2> HIDE DEF next, size, last
  <2> QED
    BY <1>1, Offset DEF size
<1>3. /\ cut \in Seq(Bytes) /\ Len(cut) \in Nat
      /\ \A i \in 1 .. Len(cut) : cut[i] = whole[i]
  BY CutProperties DEF Typed
<1>4. off[last] <= Len(cut) /\ data = Drop(cut, off[last])
  BY DEF Reading
<1>5. \A k \in 1 .. size : fields[next][k] = whole[(off[next] - k) + 1]
  BY <1>1 DEF Laid
<1> HIDE DEF cut, last, next, size
<1>6. off[last] \in 0 .. Len(cut)
  BY <1>2, <1>3, <1>4
<1>7. /\ data \in Seq(Bytes) /\ Len(data) = Len(cut) - off[last]
      /\ \A i \in 1 .. Len(cut) - off[last] : data[i] = cut[off[last] + i]
  BY <1>3, <1>4, <1>6, DropProperties
<1>8. size <= Len(data)
  BY DEF size, next, last
<1>9. /\ Extract(data, size) \in Seq(Bytes) /\ Len(Extract(data, size)) = size
      /\ \A k \in 1 .. size : Extract(data, size)[k] = data[(size - k) + 1]
  BY <1>2, <1>7, <1>8, ExtractProperties
<1>10. ASSUME NEW k \in 1 .. size
       PROVE  Extract(data, size)[k] = fields[next][k]
  <2> DEFINE i == (size - k) + 1
             j == (off[next] - k) + 1
  <2>1. /\ i \in 1 .. Len(cut) - off[last] /\ off[last] + i = j
        /\ j \in 1 .. Len(cut)
    <3>1. /\ size \in Nat /\ off[last] \in Nat /\ off[next] = off[last] + size
          /\ Len(cut) \in Nat /\ size <= Len(cut) - off[last]
      BY <1>2, <1>3, <1>6, <1>7, <1>8
    <3> HIDE DEF next
    <3>2. i \in 1 .. Len(cut) - off[last]
      BY <3>1
    <3>3. off[last] + i = j
      BY <3>1
    <3> QED
      BY <3>1, <3>2, <3>3
  <2>2. Extract(data, size)[k] = data[i] /\ fields[next][k] = whole[j]
    BY <1>5, <1>9
  <2> HIDE DEF i, j
  <2>3. data[i] = cut[j]
    BY <1>7, <2>1
  <2>4. cut[j] = whole[j]
    BY <1>3, <2>1
  <2> QED
    BY <2>2, <2>3, <2>4
<1>11. Extract(data, size) = fields[next]
  BY <1>2, <1>9, <1>10, SeqEqual DEF size
<1>12. off[next] <= Len(cut) /\ size \in 0 .. Len(cut) - off[last]
  BY <1>2, <1>3, <1>6, <1>7, <1>8
<1>13. Drop(data, size) = Drop(cut, off[next])
  BY <1>2, <1>3, <1>4, <1>6, <1>12, DropDrop
<1> QED
  BY <1>11, <1>12, <1>13 DEF cut, size, next, last

\* data >> variable of a value whose bytes are there.
LEMMA TakeKeeps ==
  ASSUME Typed, Carried, FieldsSurvive,
         NEW off \in Offsets, Laid(off), Reading(off),
         NEW size \in Nat \ {0}, TakeValue(size), place = "receiver",
         Clean => Len(got) < Len(fields) /\ Len(fields[Len(got) + 1]) = size,
         UNCHANGED <<place, packet, vector, fields, whole>>
  PROVE  CodecInv'
<1> DEFINE value == Extract(data, size)
           next == Len(got) + 1
<1>1. size <= Len(data) /\ got' = Append(got, value) /\ data' = Drop(data, size)
  BY DEF TakeValue, Fits
<1>2. value \in Seq(Bytes) /\ value # Unset
  BY <1>1, ExtractProperties DEF Typed
<1>3. data' \in Seq(Bytes)
  <2>1. data \in Seq(Bytes) /\ size \in 0 .. Len(data)
    BY <1>1 DEF Typed
  <2> QED
    BY <1>1, <2>1, DropProperties
<1>4. Clean => /\ value = fields[next] /\ off[next] <= Len(Cut(whole))
               /\ data' = Drop(Cut(whole), off[next])
  BY <1>1, NextValue
<1> HIDE DEF value
<1>5. /\ got' \in Seq(Seq(Bytes)) /\ Len(got') = next
      /\ \A j \in 1 .. Len(got) : got'[j] = got[j]
      /\ got'[next] = value
  BY <1>1, <1>2 DEF Typed
<1>6. next \in Nat /\ 1 .. next = 1 .. Len(got) \union {next}
        /\ next \notin 1 .. Len(got)
  BY DEF Typed
<1> HIDE DEF next
<1>7. Typed' /\ Carried'
  BY <1>3, <1>5 DEF Typed, Carried
<1>8. Clean' <=> Clean
  BY <1>2, <1>5, <1>6 DEF Clean, Unset
<1>9. FieldsSurvive'
  <2> SUFFICES ASSUME NEW i \in 1 .. next,
                      \A j \in 1 .. i : got'[j] # Unset
               PROVE  i <= Len(fields) /\ got'[i] = fields[i]
    BY <1>5 DEF FieldsSurvive, Unset
  <2>1. CASE i \in 1 .. Len(got)
    <3>1. \A j \in 1 .. i : j \in 1 .. Len(got)
      BY <2>1 DEF Typed
    <3>2. \A j \in 1 .. i : got[j] # Unset
      BY <1>5, <3>1
    <3> QED
      BY <1>5, <2>1, <3>2 DEF FieldsSurvive
  <2>2. CASE i = next
    <3>1. Clean
      BY <1>5, <1>6, <2>2 DEF Clean
    <3> QED
      BY <1>4, <1>5, <2>2, <3>1 DEF next, Typed
  <2> QED
    BY <1>6, <2>1, <2>2
<1>10. off \in Offsets' /\ Laid(off)'
  BY DEF Offsets, Laid, Unset
<1>11. Reading(off)'
  <2>1. Clean' => Len(got') <= Len(fields')
    BY <1>5, <1>8 DEF next, Typed
  <2>2. Clean' => /\ off[Len(got')] <= Len(Cut(whole'))
                  /\ data' = Drop(Cut(whole'), off[Len(got')])
    BY <1>4, <1>5, <1>8
  <2>3. Len(whole') <= MaxLen => Clean'
    BY <1>8 DEF Reading
  <2>4. ASSUME vector' # 0, Clean', NEW i \in Unread'
        PROVE  Len(fields'[i]) = vector'
    <3>1. i \in Unread
      BY <1>5, <2>4 DEF Unread, next, Typed
    <3> QED
      BY <1>8, <2>4, <3>1 DEF Reading
  <2> QED
    BY <2>1, <2>2, <2>3, <2>4 DEF Reading
<1> QED
  BY <1>7, <1>9, <1>10, <1>11 DEF CodecInv

\* The data of a message that need not be cut lasts for its values.
LEMMA NothingMissing ==
  ASSUME Typed, NEW off \in Offsets, Laid(off), Reading(off),
         place = "receiver", Len(whole) <= MaxLen, Len(got) < Len(fields)
  PROVE  Len(fields[Len(got) + 1]) <= Len(data)
<1> DEFINE last == Len(got)
           next == last + 1
<1>1. last \in Nat /\ next \in 1 .. Len(fields) /\ next - 1 = last
  BY DEF Typed
<1> HIDE DEF last, next
<1>2. /\ off[next] \in 0 .. Len(whole) /\ off[last] \in 0 .. Len(whole)
      /\ off[next] = off[last] + Len(fields[next]) /\ Len(fields[next]) \in Nat
  BY <1>1, Offset
<1>3. whole \in Seq(Bytes) /\ Len(whole) \in Nat /\ Cut(whole) = whole
  BY CutProperties DEF Typed
<1>4. data = Drop(whole, off[last])
  BY <1>3 DEF Reading, last
<1>5. Len(data) = Len(whole) - off[last]
  BY <1>2, <1>3, <1>4, DropProperties
<1>6. Len(fields[next]) <= Len(data)
  BY <1>2, <1>3, <1>5
<1> QED
  BY <1>6 DEF next, last

\* .. and there are no bytes behind the last of them.
LEMMA NothingLeft ==
  ASSUME Typed, NEW off \in Offsets, Laid(off), Reading(off), Clean,
         place \in {"receiver", "done"}, Len(got) = Len(fields)
  PROVE  Len(data) = 0 /\ data = <<>>
<1>1. /\ whole \in Seq(Bytes) /\ Len(whole) \in Nat
      /\ Cut(whole) \in Seq(Bytes) /\ Len(Cut(whole)) \in Nat
      /\ Len(Cut(whole)) <= Len(whole)
  BY CutProperties DEF Typed
<1>2. off[Len(got)] = Len(whole)
  BY DEF Laid
<1>3. Len(whole) = Len(Cut(whole)) /\ data = Drop(Cut(whole), Len(whole))
  BY <1>1, <1>2 DEF Reading
<1>4. Len(whole) \in 0 .. Len(Cut(whole))
  BY <1>1, <1>3
<1>5. data \in Seq(Bytes) /\ Len(data) = Len(Cut(whole)) - Len(whole)
  BY <1>1, <1>3, <1>4, DropProperties
<1>6. Len(data) = 0
  BY <1>1, <1>3, <1>5
<1> QED
  BY <1>5, <1>6

\* << puts the new value behind the others and leaves them where they are.
LEMMA WriteKeeps ==
  ASSUME CodecInv, NEW size \in Sizes, NEW value \in Values(size), Write(value)
  PROVE  CodecInv'
<1>1. PICK off \in Offsets : Laid(off) /\ Reading(off)
  BY DEF CodecInv
<1> DEFINE n == Len(fields)
           long == Len(whole) + Len(value)
<1> PICK new : new = [i \in 0 .. n + 1 |-> IF i <= n THEN off[i] ELSE long]
  OBVIOUS
<1>2. value \in Seq(Bytes) /\ Len(value) = size /\ size \in Nat \ {0}
  <2>1. size \in Nat \ {0}
    BY ByteFacts
  <2>2. DOMAIN value = 1 .. size /\ \A i \in 1 .. size : value[i] \in Bytes
    BY DEF Values
  <2>3. value = [i \in 1 .. size |-> value[i]]
    BY DEF Values
  <2> QED
    BY <2>1, <2>2, <2>3
<1>3. /\ Typed /\ place = "sender" /\ data = whole /\ packet = <<>>
      /\ got = <<>> /\ vector = 0
  BY DEF CodecInv, Carried, Write
<1>4. /\ fields' = Append(fields, value) /\ data' = Push(data, value)
      /\ whole' = data' /\ UNCHANGED <<place, packet, got, vector>>
  BY DEF Write
<1>5. n \in Nat /\ Len(whole) \in Nat /\ long \in Nat
  BY <1>2, <1>3 DEF Typed
<1>6. /\ whole' \in Seq(Bytes) /\ Len(whole') = long
      /\ \A i \in 1 .. Len(whole) : whole'[i] = whole[i]
      /\ \A k \in 1 .. Len(value) : whole'[(long - k) + 1] = value[k]
  <2>1. whole' = Push(whole, value) /\ whole \in Seq(Bytes)
    BY <1>3, <1>4 DEF Typed
  <2> QED
    BY <1>2, <2>1, PushProperties
<1>7. /\ fields' \in Seq(Seq(Bytes)) /\ Len(fields') = n + 1
      /\ \A i \in 1 .. n : fields'[i] = fields[i]
      /\ fields'[n + 1] = value
  BY <1>2, <1>3, <1>4 DEF Typed
<1>8. Typed' /\ Carried' /\ FieldsSurvive'
  BY <1>3, <1>4, <1>6, <1>7 DEF Typed, Carried, FieldsSurvive
<1>9. off[0] = 0 /\ off[n] = Len(whole) /\ \A i \in 0 .. n : off[i] \in 0 .. Len(whole)
  BY <1>1 DEF Laid, Offsets
<1> HIDE DEF n, long
<1>10. new \in Offsets'
  <2>1. \A i \in 0 .. n + 1 : new[i] \in 0 .. long
    BY <1>2, <1>5, <1>9 DEF long
  <2> QED
    BY <1>6, <1>7, <2>1 DEF Offsets
<1>11. new[0] = 0 /\ new[n + 1] = long /\ \A i \in 0 .. n : new[i] = off[i]
  BY <1>5, <1>9
<1>12. Laid(new)'
  <2>1. new[0] = 0 /\ new[Len(fields')] = Len(whole')
    BY <1>6, <1>7, <1>11
  <2>2. ASSUME NEW i \in 1 .. n + 1
        PROVE  /\ fields'[i] # Unset
               /\ new[i] = new[i - 1] + Len(fields'[i])
               /\ \A k \in 1 .. Len(fields'[i]) :
                    fields'[i][k] = whole'[(new[i] - k) + 1]
    <3>1. CASE i \in 1 .. n
      <4>1. new[i] = off[i] /\ new[i - 1] = off[i - 1] /\ fields'[i] = fields[i]
        BY <1>5, <1>7, <1>11, <3>1
      <4>2. /\ fields[i] # Unset /\ off[i] = off[i - 1] + Len(fields[i])
            /\ \A k \in 1 .. Len(fields[i]) : fields[i][k] = whole[(off[i] - k) + 1]
        BY <1>1, <3>1 DEF Laid, n
      <4>3. ASSUME NEW k \in 1 .. Len(fields[i])
            PROVE  whole'[(off[i] - k) + 1] = whole[(off[i] - k) + 1]
        <5>1. /\ off[i] \in 0 .. Len(whole) /\ off[i - 1] \in 0 .. Len(whole)
              /\ Len(fields[i]) \in Nat
          BY <1>1, <1>3, <3>1, Offset DEF n
        <5>2. (off[i] - k) + 1 \in 1 .. Len(whole)
          BY <1>5, <4>2, <5>1
        <5> QED
          BY <1>6, <5>2
      <4> QED
        BY <4>1, <4>2, <4>3
    <3>2. CASE i = n + 1
      <4>1. fields'[i] = value /\ new[i] = long /\ new[i - 1] = Len(whole)
        BY <1>5, <1>7, <1>9, <1>11, <3>2
      <4>2. value # <<>>
        BY <1>2
      <4> QED
        BY <1>6, <4>1, <4>2 DEF long, Unset
    <3>3. i \in 1 .. n \/ i = n + 1
      BY <1>5
    <3> QED
      BY <3>1, <3>2, <3>3
  <2> QED
    BY <1>7, <2>1, <2>2 DEF Laid
<1>13. Reading(new)'
  BY <1>3, <1>4, <1>7 DEF Reading, Clean, n
<1> QED
  BY <1>8, <1>10, <1>12, <1>13 DEF CodecInv

LEMMA CodecStarts == CodecInit => CodecInv
<1> SUFFICES ASSUME CodecInit PROVE CodecInv
  OBVIOUS
<1> PICK off : off = [i \in 0 .. 0 |-> 0]
  OBVIOUS
<1>1. Typed /\ Carried /\ FieldsSurvive
  BY DEF CodecInit, Typed, Carried, FieldsSurvive
<1>2. Len(whole) = 0 /\ Len(fields) = 0 /\ Len(got) = 0
  BY DEF CodecInit
<1>3. off \in Offsets /\ Laid(off)
  BY <1>2 DEF Offsets, Laid
<1>4. Reading(off)
  BY <1>2 DEF CodecInit, Reading, Clean
<1> QED
  BY <1>1, <1>3, <1>4 DEF CodecInv

\* Every step keeps the invariant.
LEMMA CodecSteps == CodecInv /\ [CodecNext]_codecVars => CodecInv'
<1> SUFFICES ASSUME CodecInv, [CodecNext]_codecVars PROVE CodecInv'
  OBVIOUS
<1>1. PICK off \in Offsets : Laid(off) /\ Reading(off)
  BY DEF CodecInv
<1>2. Typed /\ Carried /\ FieldsSurvive
  BY DEF CodecInv
<1>3. /\ Len(got) \in Nat /\ Len(fields) \in Nat
      /\ Len(data) \in Nat /\ Len(whole) \in Nat
  BY <1>2 DEF Typed
<1>4. UNCHANGED <<fields, whole>> => off \in Offsets' /\ Laid(off)'
  BY <1>1 DEF Offsets, Laid, Unset
<1>5. UNCHANGED <<got, fields>> =>
        FieldsSurvive' /\ (Clean' <=> Clean) /\ Unread' = Unread
  BY <1>2 DEF FieldsSurvive, Clean, Unread, Unset
<1>6. CASE \E size \in Sizes : BeginVector(size)
  <2>1. PICK size \in Sizes : BeginVector(size)
    BY <1>6
  <2>2. Typed' /\ Carried'
    BY <1>2, <2>1 DEF BeginVector, Typed, Carried
  <2>3. Reading(off)'
    BY <1>1, <1>5, <2>1 DEF BeginVector, Reading
  <2> QED
    BY <1>4, <1>5, <2>1, <2>2, <2>3 DEF BeginVector, CodecInv
<1>7. CASE \E size \in Sizes : \E value \in Values(size) : Write(value)
  BY <1>7, WriteKeeps
<1>8. CASE Build
  <2>1. Typed' /\ Carried'
    <3>1. BuildPacket(data) \in Seq(Bytes)
      BY <1>2, BuildProperties DEF Typed
    <3> QED
      BY <1>2, <1>8, <3>1 DEF Build, Typed, Carried
  <2>2. Reading(off)'
    BY <1>1, <1>2, <1>5, <1>8 DEF Build, Reading, Carried
  <2> QED
    BY <1>4, <1>5, <1>8, <2>1, <2>2 DEF Build, CodecInv
<1>9. CASE Receive
  <2>1. data' = Cut(whole) /\ whole \in Seq(Bytes) /\ Cut(whole) \in Seq(Bytes)
    BY <1>2, <1>9, BuildProperties, CutProperties DEF Receive, Carried, Typed
  <2>2. Typed' /\ Carried'
    BY <1>2, <1>9, <2>1 DEF Receive, Typed, Carried
  <2>3. off[0] = 0 /\ Len(got) = 0 /\ vector = 0
    BY <1>1, <1>2, <1>9 DEF Laid, Receive, Carried
  <2>4. off[0] <= Len(Cut(whole)) /\ data' = Drop(Cut(whole), off[0])
    BY <2>1, <2>3, DropNothing
  <2>5. Reading(off)'
    BY <1>1, <1>5, <1>9, <2>3, <2>4 DEF Receive, Reading
  <2> QED
    BY <1>4, <1>5, <1>9, <2>2, <2>5 DEF Receive, CodecInv
<1>10. CASE ReadValue
  <2> DEFINE next == Len(got) + 1
             size == Len(fields[next])
  <2>1. next \in 1 .. Len(fields) /\ Len(got) < Len(fields)
    BY <1>3, <1>10 DEF ReadValue, Unread
  <2>2. size \in Nat \ {0}
    BY <1>1, <1>2, <2>1, Offset
  <2>3. place = "receiver" /\ vector = 0
          /\ UNCHANGED <<place, packet, vector, fields, whole>>
    BY <1>10 DEF ReadValue
  <2> HIDE DEF size
  <2>4. CASE TakeValue(size)
    BY <1>1, <1>2, <2>1, <2>2, <2>3, <2>4, TakeKeeps DEF size
  <2>5. CASE Miss(size)
    <3>1. got' = Append(got, Unset) /\ data' = data /\ Len(data) < size
      BY <1>3, <2>2, <2>5 DEF Miss, Fits
    <3>2. /\ got' \in Seq(Seq(Bytes)) /\ Len(got') = next
          /\ \A j \in 1 .. Len(got) : got'[j] = got[j]
          /\ got'[next] = Unset
      BY <1>2, <3>1 DEF Typed, Unset
    <3>3. next \in 1 .. next
      BY <1>3
    <3>4. ~Clean'
      BY <3>2, <3>3 DEF Clean, Unset
    <3>5. ~(Len(whole) <= MaxLen)
      <4>1. ~(size <= Len(data))
        BY <1>3, <2>2, <3>1
      <4> QED
        BY <1>1, <1>2, <2>1, <2>3, <4>1, NothingMissing DEF size
    <3>6. FieldsSurvive'
      <4> SUFFICES ASSUME NEW i \in 1 .. next,
                          \A j \in 1 .. i : got'[j] # <<>>
                   PROVE  i <= Len(fields) /\ got'[i] = fields[i]
        BY <2>3, <3>2 DEF FieldsSurvive, Unset
      <4>1. i # next
        BY <1>3, <3>2 DEF Unset
      <4>2. i \in 1 .. Len(got) /\ \A j \in 1 .. i : j \in 1 .. Len(got)
        BY <1>3, <4>1
      <4>3. \A j \in 1 .. i : got[j] # <<>>
        BY <3>2, <4>2
      <4> QED
        BY <1>2, <3>2, <4>2, <4>3 DEF FieldsSurvive, Unset
    <3>7. Typed' /\ Carried'
      BY <1>2, <2>3, <3>1, <3>2 DEF Typed, Carried
    <3>8. Reading(off)'
      BY <2>3, <3>4, <3>5 DEF Reading
    <3> QED
      BY <1>4, <2>3, <3>6, <3>7, <3>8 DEF CodecInv
  <2> QED
    BY <1>10, <2>4, <2>5 DEF ReadValue, size
<1>11. CASE ReadVector
  <2>1. vector # 0 /\ vector \in Nat \ {0} /\ place = "receiver"
    BY <1>1, <1>2, <1>11, ByteFacts DEF ReadVector, Reading, Typed
  <2>2. Clean => Len(got) <= Len(fields)
    BY <1>1 DEF Reading
  <2>3. ASSUME Clean, Len(got) < Len(fields)
        PROVE  Len(fields[Len(got) + 1]) = vector
    <3>1. Len(got) + 1 \in Unread
      BY <1>3, <2>3 DEF Unread
    <3> QED
      BY <1>1, <2>1, <2>3, <3>1 DEF Reading
  <2>4. CASE Fits(data, vector)
    <3>1. TakeValue(vector) /\ UNCHANGED <<place, packet, vector, fields, whole>>
      BY <1>11, <2>4 DEF ReadVector
    <3>2. ASSUME Clean PROVE Len(got) < Len(fields)
      <4>1. Len(got) # Len(fields)
        BY <1>1, <1>2, <2>1, <2>4, <3>2, NothingLeft DEF Fits
      <4> QED
        BY <1>3, <2>2, <3>2, <4>1
    <3> QED
      BY <1>1, <1>2, <2>1, <2>3, <3>1, <3>2, TakeKeeps
  <2>5. CASE ~Fits(data, vector)
    <3>1. place' = "done" /\ vector' = 0
            /\ UNCHANGED <<data, got, packet, fields, whole>>
      BY <1>11, <2>5 DEF ReadVector
    <3>2. Typed' /\ Carried'
      BY <1>2, <2>1, <3>1 DEF Typed, Carried
    <3>3. ASSUME Len(whole) <= MaxLen PROVE Len(got) = Len(fields)
      <4>1. Clean
        BY <1>1, <3>3 DEF Reading
      <4>2. ~(Len(got) < Len(fields))
        BY <1>1, <1>2, <2>1, <2>3, <2>5, <3>3, <4>1, NothingMissing DEF Fits
      <4> QED
        BY <1>3, <2>2, <4>1, <4>2
    <3>4. Reading(off)'
      BY <1>1, <1>5, <2>1, <3>1, <3>3 DEF Reading
    <3> QED
      BY <1>4, <1>5, <3>1, <3>2, <3>4 DEF CodecInv
  <2> QED
    BY <2>4, <2>5
<1>12. CASE Finish
  <2>1. place = "receiver" /\ place' = "done" /\ vector = 0
          /\ UNCHANGED <<data, packet, got, vector, fields, whole>>
    BY <1>12 DEF Finish
  <2>2. Typed' /\ Carried'
    BY <1>2, <2>1 DEF Typed, Carried
  <2>3. ~(Len(got) < Len(fields))
    <3>1. Unread = {}
      BY <1>12 DEF Finish
    <3>2. Len(got) < Len(fields) => Len(got) + 1 \in Unread
      BY <1>3 DEF Unread
    <3> QED
      BY <3>1, <3>2
  <2>4. Clean => Len(got) = Len(fields)
    BY <1>1, <1>3, <2>3 DEF Reading
  <2>5. Reading(off)'
    BY <1>1, <1>5, <2>1, <2>4 DEF Reading
  <2> QED
    BY <1>4, <1>5, <2>1, <2>2, <2>5 DEF CodecInv
<1>13. CASE Again
  <2>1. /\ place' = "sender" /\ data' = <<>> /\ packet' = <<>> /\ got' = <<>>
        /\ fields' = <<>> /\ whole' = <<>> /\ vector' = vector
    BY <1>13 DEF Again
  <2>2. vector = 0
    BY <1>1, <1>13 DEF Again, Reading
  <2>3. CodecInit'
    BY <2>1, <2>2 DEF CodecInit
  <2>4. CodecInit' => CodecInv'
    BY CodecStarts, PTL
  <2> QED
    BY <2>3, <2>4
<1>14. CASE UNCHANGED codecVars
  BY <1>1, <1>2, <1>4, <1>5, <1>14
  DEF codecVars, Typed, Carried, Reading, CodecInv
<1> QED
  BY <1>6, <1>7, <1>8, <1>9, <1>10, <1>11, <1>12, <1>13, <1>14 DEF CodecNext

\* The invariant of the way of a message through a packet.
THEOREM CodecCorrect == CodecSpec => []CodecInv
BY CodecStarts, CodecSteps, PTL DEF CodecSpec

\* TypeOK: the bytes stay bytes, on either side.
THEOREM CodecTypeCorrect == CodecSpec => []CodecTypeOK
<1>1. CodecInv => CodecTypeOK
  BY DEF CodecInv, Typed, CodecTypeOK
<1> QED
  BY <1>1, CodecCorrect, PTL

\* FieldsSurvive: behind >> is what was before <<, up to the first value that
\* is missing, for data of any length.
THEOREM FieldsAreKept == CodecSpec => []FieldsSurvive
<1>1. CodecInv => FieldsSurvive
  BY DEF CodecInv
<1> QED
  BY <1>1, CodecCorrect, PTL

\* AllArrive: buildPacket, comms::loop and the >> of one message of up to
\* MaxLen bytes give back all of its values, and no byte is left.
THEOREM MessagesArrive == CodecSpec => []AllArrive
<1>1. CodecInv => AllArrive
  <2> SUFFICES ASSUME CodecInv, place = "done", Len(whole) <= MaxLen
               PROVE  got = fields /\ data = <<>>
    BY DEF AllArrive
  <2>1. PICK off \in Offsets : Laid(off) /\ Reading(off)
    BY DEF CodecInv
  <2>2. Typed /\ FieldsSurvive
    BY DEF CodecInv
  <2>3. Clean /\ Len(got) = Len(fields)
    BY <2>1 DEF Reading
  <2>4. data = <<>>
    BY <2>1, <2>2, <2>3, NothingLeft
  <2>5. ASSUME NEW i \in 1 .. Len(got) PROVE got[i] = fields[i]
    <3>1. Len(got) \in Nat /\ \A j \in 1 .. i : j \in 1 .. Len(got)
      BY <2>2 DEF Typed
    <3>2. \A j \in 1 .. i : got[j] # Unset
      BY <2>3, <3>1 DEF Clean
    <3> QED
      BY <2>2, <3>2 DEF FieldsSurvive
  <2>6. got = fields
    BY <2>2, <2>3, <2>5, SeqEqual DEF Typed
  <2> QED
    BY <2>4, <2>6
<1> QED
  BY <1>1, CodecCorrect, PTL

\* ParserAccepts: parse finds the packet, all of it and nothing but it, intact.
THEOREM ParserTakesAll == CodecSpec => []ParserAccepts
<1>1. CodecInv => ParserAccepts
  <2> SUFFICES ASSUME CodecInv, packet # <<>>
               PROVE  /\ Complete(packet, 1) /\ Intact(packet, 1)
                      /\ PacketLen(packet, 1) = Len(packet)
    BY DEF ParserAccepts
  <2>1. packet = BuildPacket(whole) /\ whole \in Seq(Bytes)
    BY DEF CodecInv, Carried, Typed
  <2> QED
    BY <2>1, BuildProperties
<1> QED
  BY <1>1, CodecCorrect, PTL
=============================================================================
