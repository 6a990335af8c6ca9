-------------------------------- MODULE Codec --------------------------------
(***************************************************************************)
(* The way of a message's data through a packet: the << operators of       *)
(* include/transmission.h append values to a vector, buildPacket cuts it   *)
(* to what the length byte can say and frames it, comms::loop takes the    *)
(* data out of the packet that parse found, and the >> operators take the  *)
(* values back, in the order and of the sizes the sender used.             *)
(*                                                                         *)
(* A value is the sequence of its bytes in memory, which is what << and >> *)
(* see of it; what a float means is not told apart.                        *)
(***************************************************************************)
EXTENDS PacketFormat, SequencesExt

CONSTANTS Id,        \* the channel of the message
          Sizes,     \* the sizes of the types in use
          MaxFields  \* bound on the values of a message

MaxLen == MaxByte    \* 255, the longest data

ASSUME CodecAssumption ==
  Id \in Bytes /\ Sizes \subseteq Nat \ {0} /\ MaxFields \in Nat

Values(size) == [1 .. size -> Bytes]

VARIABLES place,   \* who has the message: the sender, the radio, the receiver
          data,    \* the vector of bytes, first the sender's
          packet,  \* what buildPacket returns
          got,     \* the receiver's variables; Unset is an uninitialised one
          vector,  \* the size of the vector's elements while >> fills one, or 0
          fields,  \* history: the values written
          whole    \* history: the data before it was cut

codecVars == <<place, data, packet, got, vector, fields, whole>>

Unset == <<>>

\* vec << value: the last byte of the memory first.
Push(vec, value) == vec \o Reverse(value)

\* Fault variant: the bytes are copied to memory as they come.
ExtractUnswapped(vec, size) == SubSeq(vec, 1, size)

\* The value that vec >> data takes from the front, the first byte last.
Extract(vec, size) == Reverse(SubSeq(vec, 1, size))

\* Fault variant: a vector with exactly the bytes is taken for a short one.
FitsStrictly(vec, size) == size < Len(vec)

\* sizeof(T) > vec.size() leaves vector and variable alone.
Fits(vec, size) == size <= Len(vec)

\* A header of the length byte len, the data and the checksum.
Frame(len, bytes) ==
  LET body == <<Sync1, Sync2, len, Id>> \o bytes
      sum  == Checksum(body)
  IN  body \o <<sum[0], sum[1]>>

\* Fault variant: the data is not cut, the length wraps.
BuildPacketWraps(bytes) == Frame(Len(bytes) % (MaxByte + 1), bytes)

\* Fault variant: the data is cut one byte late.
BuildPacketLate(bytes) ==
  LET cut == IF Len(bytes) > MaxLen + 1 THEN SubSeq(bytes, 1, MaxLen + 1) ELSE bytes
  IN  Frame(Len(cut), cut)

\* buildPacket: longer data is cut to the longest, without a word.
Cut(bytes) == IF Len(bytes) > MaxLen THEN SubSeq(bytes, 1, MaxLen) ELSE bytes
BuildPacket(bytes) == Frame(Len(Cut(bytes)), Cut(bytes))
-----------------------------------------------------------------------------
CodecInit ==
  /\ place = "sender" /\ data = <<>> /\ packet = <<>>
  /\ got = <<>> /\ vector = 0
  /\ fields = <<>> /\ whole = <<>>

\* A recipe or the ground station writes a value; vectors and arrays are
\* written element by element.
Write(value) ==
  /\ place = "sender" /\ Len(fields) < MaxFields
  /\ fields' = Append(fields, value)
  /\ data' = Push(data, value) /\ whole' = data'
  /\ UNCHANGED <<place, packet, got, vector>>

Build ==
  /\ place = "sender" /\ place' = "radio"
  /\ packet' = BuildPacket(data) /\ data' = <<>>
  /\ UNCHANGED <<fields, whole, got, vector>>

\* comms::loop: the data of the packet that parse returned.
Receive ==
  /\ place = "radio" /\ place' = "receiver"
  /\ data' = SubSeq(packet, 5, Len(packet) - 2)
  /\ UNCHANGED <<packet, got, vector, fields, whole>>

\* data >> variable: its bytes leave the vector, if they are all there.
TakeValue(size) ==
  /\ Fits(data, size)
  /\ got' = Append(got, Extract(data, size)) /\ data' = Drop(data, size)

Miss(size) == ~Fits(data, size) /\ got' = Append(got, Unset) /\ UNCHANGED data

Unread == Len(got) + 1 .. Len(fields)

\* An array is read like its elements one by one: after the first that does
\* not fit no other of its size does.
ReadValue ==
  /\ place = "receiver" /\ vector = 0 /\ Unread # {}
  /\ LET size == Len(fields[Len(got) + 1]) IN TakeValue(size) \/ Miss(size)
  /\ UNCHANGED <<place, packet, vector, fields, whole>>

\* data >> vector, when all that is left to read is of one size.
BeginVector(size) ==
  /\ place = "receiver" /\ vector = 0 /\ Unread # {}
  /\ \A i \in Unread : Len(fields[i]) = size
  /\ vector' = size
  /\ UNCHANGED <<place, data, packet, got, fields, whole>>

\* It takes elements while there are bytes for one, and that is the last >>.
ReadVector ==
  /\ vector # 0
  /\ IF Fits(data, vector)
       THEN TakeValue(vector) /\ UNCHANGED <<place, vector>>
       ELSE place' = "done" /\ vector' = 0 /\ UNCHANGED <<data, got>>
  /\ UNCHANGED <<packet, fields, whole>>

Finish ==
  /\ place = "receiver" /\ vector = 0 /\ Unread = {} /\ place' = "done"
  /\ UNCHANGED <<data, packet, got, vector, fields, whole>>

\* The next message.
Again ==
  /\ place = "done" /\ place' = "sender"
  /\ data' = <<>> /\ packet' = <<>> /\ got' = <<>>
  /\ fields' = <<>> /\ whole' = <<>> /\ UNCHANGED vector

CodecNext ==
  \/ \E size \in Sizes : \/ BeginVector(size)
                         \/ \E value \in Values(size) : Write(value)
  \/ Build \/ Receive \/ ReadValue \/ ReadVector \/ Finish \/ Again

CodecSpec == CodecInit /\ [][CodecNext]_codecVars
-----------------------------------------------------------------------------
CodecTypeOK ==
  /\ place \in {"sender", "radio", "receiver", "done"}
  /\ {data, packet, whole} \subseteq Seq(Bytes)
  /\ {got, fields} \subseteq Seq(Seq(Bytes))
  /\ vector \in Sizes \union {0}

\* Whatever the sizes and however the data is cut, each value the receiver
\* gets before the first that is missing is the one that was written: only
\* behind a missing value may bytes of one be taken for another.
FieldsSurvive ==
  \A i \in 1 .. Len(got) :
    (\A j \in 1 .. i : got[j] # Unset) =>
      i <= Len(fields) /\ got[i] = fields[i]

\* A message that need not be cut arrives whole, with nothing left over.
AllArrive ==
  place = "done" /\ Len(whole) <= MaxLen => got = fields /\ data = <<>>

\* parse accepts whatever buildPacket makes, as one packet of all its bytes.
ParserAccepts ==
  packet # <<>> => /\ Complete(packet, 1) /\ Intact(packet, 1)
                   /\ PacketLen(packet, 1) = Len(packet)
=============================================================================
