---------------------------- MODULE PacketFormat ----------------------------
(***************************************************************************)
(* The layout of a packet and its checksum, which the two ends of the      *)
(* radio share: two sync bytes, the length of the data, the id, the data   *)
(* and two bytes of checksum.  How many bits a byte has is a parameter.    *)
(***************************************************************************)
EXTENDS Integers, Sequences, FiniteSets

CONSTANTS MaxByte,  \* 255
          Masks,    \* what the bits of a byte are worth: 1, 2, 4 .. 128
          Sync1,    \* 0xAA
          Sync2     \* 0x14

Bytes == 0 .. MaxByte
Bit(b, mask) == (b \div mask) % 2 = 1

\* Every combination of bits is a byte.
ASSUME FormatAssumption ==
  /\ MaxByte \in Nat /\ Masks \subseteq Nat \ {0}
  /\ \A M \in SUBSET Masks : \E b \in Bytes : \A m \in Masks : Bit(b, m) <=> m \in M
  /\ Sync1 \in Bytes /\ Sync2 \in Bytes

\* The exclusive or of the bytes of s at the positions I.
XorAt(s, I) ==
  CHOOSE b \in Bytes : \A m \in Masks :
    Bit(b, m) <=> Cardinality({i \in I : Bit(s[i], m)}) % 2 = 1

\* xorchecksum: c0 takes the first, the third, .. byte, c1 the others.
Checksum(packet) ==
  [k \in {0, 1} |-> XorAt(packet, {i \in DOMAIN packet : (i - 1) % 2 = k})]

Drop(s, n) == SubSeq(s, n + 1, Len(s))

\* A header with its length begins at p, and the whole packet is there.
Header(s, p) == p + 3 <= Len(s) /\ s[p] = Sync1 /\ s[p + 1] = Sync2
PacketLen(s, p) == 6 + s[p + 2]
Complete(s, p) == Header(s, p) /\ p + PacketLen(s, p) - 1 <= Len(s)

\* The packet of length n at the front carries the checksum of its other bytes.
Matches(s, n) ==
  LET sum == Checksum(SubSeq(s, 1, n - 2))
  IN  s[n - 1] = sum[0] /\ s[n] = sum[1]

\* The packet that begins at p carries the checksum of its other bytes.
Intact(s, p) == Matches(Drop(s, p - 1), PacketLen(s, p))
=============================================================================
