---------------------------- MODULE PacketParser ----------------------------
(***************************************************************************)
(* The input half of the radio: comms::loop appends what has arrived to    *)
(* input_buff and transmission::parse takes packets off its front, one     *)
(* statement per step, because the SIGINT handler may clear the buffer     *)
(* between the test of its size and the use of its bytes.  A call gives up *)
(* after 100 ms, which may have passed after any iteration but the first.  *)
(*                                                                         *)
(* Every stream over Alphabet up to MaxBytes is tried.                     *)
(***************************************************************************)
EXTENDS PacketFormat

CONSTANTS Alphabet, \* the bytes that may arrive
          MaxBytes  \* bound on the number of bytes that arrive

ASSUME ParserAssumption ==
  /\ Sync1 # Sync2
  /\ Alphabet \subseteq Bytes
  /\ MaxBytes \in Nat

VARIABLES bytestream,  \* comms::input_buff
          pc,          \* the statement of parse; idle is outside of it
          started,     \* the call has made an iteration
          length,      \* parse's local data_length
          arrived,     \* history: every byte read
          found,       \* history: where in `arrived` the packets begin
          torn,        \* history: a SIGINT cleared what had been tested
          broken       \* a byte was used that is not there: undefined

history == <<arrived, found, torn>>
vars == <<bytestream, pc, started, length, arrived, found, torn, broken>>

\* The statements that use bytes whose presence was tested before, and those
\* that do not.
Uses == {"front", "junk", "sync", "drop", "length", "copy", "pop"}
Places == Uses \union {"idle", "loop", "skip", "two", "four", "whole"}

consumed == Len(arrived) - Len(bytestream)

Goto(place) == pc' = place
At(place) == ~broken /\ pc = place
-----------------------------------------------------------------------------
Init == /\ bytestream = <<>> /\ pc = "idle" /\ started = FALSE /\ length = 0
        /\ arrived = <<>> /\ found = {} /\ torn = FALSE /\ broken = FALSE

\* Fault variant: the char is kept signed.
ReadSigned ==
  /\ At("idle") /\ Len(arrived) < MaxBytes
  /\ \E b \in Alphabet : LET c == IF 2 * b > MaxByte THEN b - MaxByte - 1 ELSE b
                      IN  /\ bytestream' = Append(bytestream, c)
                          /\ arrived' = Append(arrived, c)
  /\ UNCHANGED <<pc, started, length, found, torn, broken>>

\* comms::loop reads a byte.
Read ==
  /\ At("idle") /\ Len(arrived) < MaxBytes
  /\ \E b \in Alphabet : /\ bytestream' = Append(bytestream, b)
                         /\ arrived' = Append(arrived, b)
  /\ UNCHANGED <<pc, started, length, found, torn, broken>>

\* comms::loop calls parse.
Call ==
  /\ At("idle") /\ Goto("loop")
  /\ started' = FALSE
  /\ UNCHANGED <<bytestream, length, broken>> /\ UNCHANGED history

\* A test of the buffer's size: the statement at `place` goes to `next`.
Step(place, next) ==
  /\ At(place) /\ Goto(next)
  /\ UNCHANGED <<bytestream, started, length, broken>> /\ UNCHANGED history

\* A statement that uses the first n bytes; without them it is undefined.
Use(place, n) ==
  /\ At(place)
  /\ broken' = (n > Len(bytestream))
  /\ UNCHANGED <<started, arrived, torn>>

\* A statement that looks at the first n bytes and goes to `next`.
Look(place, n, next) ==
  /\ Use(place, n)
  /\ pc' = IF broken' THEN place ELSE next
  /\ UNCHANGED <<bytestream, length, found>>

\* A statement that pops n bytes and goes to `next`.
Take(place, n, next) ==
  /\ Use(place, n)
  /\ IF broken' THEN UNCHANGED <<bytestream, pc>>
                ELSE bytestream' = Drop(bytestream, n) /\ Goto(next)
  /\ UNCHANGED <<length, found>>
-----------------------------------------------------------------------------
\* while (bytestream.size() && parsing && now - start < timeout)
Iterate ==
  /\ At("loop") /\ bytestream # <<>>
  /\ Goto("skip") /\ started' = TRUE
  /\ UNCHANGED <<bytestream, length, broken>> /\ UNCHANGED history

\* Fault variant: a call may run out of time before its first iteration.
ReturnEarly == Step("loop", "idle")

\* The clock is read inside the iteration, so that a call makes at least one.
Return == (bytestream = <<>> \/ started) /\ Step("loop", "idle")

\* while (bytestream.size() > 0 && bytestream.front() != 0xAA) pop_front
Skip == Step("skip", IF bytestream # <<>> THEN "front" ELSE "two")
FrontByte == Look("front", 1, IF bytestream[1] # Sync1 THEN "junk" ELSE "two")
Junk == Take("junk", 1, "skip")

\* if (bytestream.size() < 2) continue; a lone first sync byte is looked at
\* again and again until the time is over.
Two == Step("two", IF Len(bytestream) < 2 THEN "loop" ELSE "sync")

\* if (bytestream[1] != 0x14)
SecondSync == Look("sync", 2, IF bytestream[2] # Sync2 THEN "drop" ELSE "four")

\* Fault variant: a packet with a bad checksum is dropped as a whole.
DropOneAll ==
  Take("drop", IF Complete(bytestream, 1) THEN PacketLen(bytestream, 1) ELSE 1,
       "loop")

\* Only the first byte is popped, of a false header and of a packet with a
\* bad checksum: a packet may begin within.
DropOne == Take("drop", 1, "loop")

\* Fault variant: the length is read before the header has arrived.
FourLess == Step("four", IF Len(bytestream) < 2 THEN "idle" ELSE "length")

\* if (bytestream.size() < 4) the header has not arrived: parse returns.
Four == Step("four", IF Len(bytestream) < 4 THEN "idle" ELSE "length")

\* data_length = bytestream[2]
Length ==
  /\ Use("length", 3)
  /\ IF broken' THEN UNCHANGED <<pc, length>>
                ELSE length' = bytestream[3] /\ Goto("whole")
  /\ UNCHANGED <<bytestream, found>>

\* The rest of the packet has not arrived: parse returns.
Whole == Step("whole", IF Len(bytestream) < 6 + length THEN "idle" ELSE "copy")

\* The packet is copied and its checksum tested.
Copy ==
  /\ Use("copy", 6 + length)
  /\ IF ~broken' /\ Matches(bytestream, 6 + length)
       THEN Goto("pop") /\ found' = found \union {consumed + 1}
       ELSE /\ pc' = IF broken' THEN "copy" ELSE "drop"
            /\ UNCHANGED found
  /\ UNCHANGED <<bytestream, length>>

\* Fault variant: the last byte of the checksum is left in the stream.
PopLess == Take("pop", 5 + length, "loop")

\* The bytes of the packet are popped.
Pop == Take("pop", 6 + length, "loop")

Parse == \/ Call \/ Iterate \/ Return \/ Skip \/ FrontByte \/ Junk \/ Two
         \/ SecondSync \/ DropOne \/ Four \/ Length \/ Whole \/ Copy \/ Pop

\* input_buff is cleared: by comms::reset or comms::exit between two calls,
\* or at any statement by the comms::exit of the SIGINT handler.  The history
\* of the stream begins anew.
Clear ==
  /\ ~broken
  /\ bytestream' = <<>> /\ arrived' = <<>> /\ found' = {}
  /\ torn' = (torn \/ pc \in Uses)
  /\ UNCHANGED <<pc, started, length, broken>>

\* Undefined behaviour ends what the model describes.
Undefined == broken /\ UNCHANGED vars

Next == Read \/ Parse \/ Clear \/ Undefined

\* comms::loop calls parse in every iteration, and parse takes its steps.
Spec == Init /\ [][Next]_vars /\ WF_vars(Parse)
-----------------------------------------------------------------------------
Frames == {p \in 1 .. Len(arrived) : Complete(arrived, p) /\ Intact(arrived, p)}
Inside(p, q) == q < p /\ p <= q + PacketLen(arrived, q) - 1

TypeOK ==
  /\ bytestream \in Seq(Bytes) /\ arrived \in Seq(Bytes)
  /\ pc \in Places /\ started \in BOOLEAN /\ length \in Bytes
  /\ found \subseteq Nat \ {0}
  /\ torn \in BOOLEAN /\ broken \in BOOLEAN

\* parse never uses a byte that has not arrived, on any stream and wherever
\* SIGINT's handler clears the buffer, except between a test of the size and
\* the use of the bytes it found: the later tests protect the other places.
InBoundsUnlessTorn == broken => torn

\* The bytes of the returned packets have been taken from the stream, but for
\* those of the packet that parse is about to pop.
Taken(p) == IF p = consumed + 1 THEN pc = "pop"
                                ELSE p + PacketLen(arrived, p) - 1 <= consumed

\* However the stream is cut by reads and timeouts, what parse returns are
\* genuine packets of the stream, no two of which share a byte, and all of
\* their bytes and no others have been taken.
PacketsGenuine ==
  /\ bytestream = Drop(arrived, consumed)
  /\ found \subseteq Frames
  /\ \A p \in found : Taken(p)
  /\ \A p, q \in found : ~Inside(p, q)

\* The packet at p was returned, or began inside one that was.
Returned(p) == p \in found \/ \E q \in found : Inside(p, q)

\* No packet is lost to noise: each packet of the stream that parse has gone
\* past was returned, or began inside one that was.
NoPacketMissed == \A p \in Frames : p <= consumed => Returned(p)

\* What is at the front looks like a packet that has not arrived as a whole,
\* and the one at p lies within.
Held(p) == LET q == consumed + 1
           IN  Header(arrived, q) /\ ~Complete(arrived, q) /\ Inside(p, q)

\* When nothing more arrives, every packet of the stream is returned in the
\* end, whatever timeouts and signals do, unless a header in front of it,
\* false or not, holds it back by announcing bytes that have not arrived:
\* never more than MaxByte + 6 of them, counted from the header.
EverythingParsed == []<>(broken \/ \A p \in Frames : Returned(p) \/ Held(p))
=============================================================================
