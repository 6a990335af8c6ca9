---------------------------- MODULE LogFileProofs ----------------------------
(***************************************************************************)
(* Theorems about LogFile for every number of announcements, processes and *)
(* seconds.  LogInv knows that at each opening all files that hold         *)
(* anything are of an earlier second, so that none is truncated: a second  *)
(* passes at the start in comms::init and in a reset in comms::flush.      *)
(* OrderInv knows that what a file holds, what the stream and what the     *)
(* buffer hold are one sequence, which ends with the newest announcement.  *)
(***************************************************************************)
EXTENDS LogFile, SequenceTheorems, TLAPS

\* The places before an iteration and after a flush of the log, at which the
\* second that named the file has passed; at those of Busy it has when the
\* begin record has been sent.
Busy == {"loop", "radio", "reset"}
Settled == Flushing \union {"test", "reopen"}

\* The places at which the stream holds nothing.
Dry == {"off", "start", "refused", "comms", "reopen", "ended"}

Places == Busy \union Settled \union Dry

LogTypes ==
  /\ clock \in Nat /\ told \in Nat
  /\ DOMAIN disk \subseteq Nat
  /\ \A f \in DOMAIN disk : disk[f] \in Seq(Nat)
  /\ logfile \in DOMAIN disk \union {Closed, Failed}
  /\ written \in Seq(Nat) /\ buffer \in Seq(Nat)
  /\ pc \in Places /\ unsent \in BOOLEAN /\ set_back \in BOOLEAN

\* What the stream and the buffer hold at each place.
StreamOK ==
  /\ written # <<>> => logfile \in DOMAIN disk /\ pc \notin Dry
  /\ pc \in {"off", "start", "reopen"} => logfile = Closed
  /\ pc = "off" => buffer = <<>>
  /\ pc = "ended" => ToSet(buffer) \subseteq parting

\* The name of a file that holds, or is about to hold, anything is past.
NamesOK ==
  /\ \A f \in DOMAIN disk :
       /\ f <= clock
       /\ disk[f] # <<>> \/ (written # <<>> /\ f = logfile) => f < clock
  /\ pc \in Settled \/ (pc \in Busy /\ ~unsent) =>
       \A f \in DOMAIN disk : f < clock

OnDisk(r) == \E f \in DOMAIN disk : r \in ToSet(disk[f])

Kept ==
  \A r \in 1 .. told : \/ r \in lost \/ r \in parting \/ OnDisk(r)
                       \/ r \in ToSet(written) \/ r \in ToSet(buffer)

LogInv == LogTypes /\ StreamOK /\ (~set_back => NamesOK) /\ (~set_back => Kept)
-----------------------------------------------------------------------------
\* An announcement is one more element of the buffer.
LEMMA AppendSet ==
  ASSUME NEW S, NEW s \in Seq(S), NEW x \in S
  PROVE  ToSet(Append(s, x)) = ToSet(s) \union {x}
<1>1. /\ Len(s) \in Nat /\ DOMAIN s = 1 .. Len(s)
      /\ DOMAIN Append(s, x) = 1 .. Len(s) + 1
      /\ \A i \in 1 .. Len(s) : Append(s, x)[i] = s[i]
      /\ Append(s, x)[Len(s) + 1] = x
  BY AppendProperties, LenProperties
<1> QED
  BY <1>1 DEF ToSet

\* A turn of the flush takes one element off.
LEMMA TailSet ==
  ASSUME NEW S, NEW s \in Seq(S), s # <<>>
  PROVE  ToSet(s) = {Head(s)} \union ToSet(Tail(s))
<1>1. /\ Len(s) \in Nat /\ Len(s) >= 1 /\ Head(s) = s[1]
      /\ Tail(s) \in Seq(S) /\ Len(Tail(s)) = Len(s) - 1
      /\ \A i \in 1 .. Len(Tail(s)) : Tail(s)[i] = s[i + 1]
  BY HeadTailProperties, EmptySeq
<1>2. DOMAIN s = 1 .. Len(s) /\ DOMAIN Tail(s) = 1 .. Len(s) - 1
  BY <1>1, LenProperties
<1>3. ASSUME NEW x \in ToSet(s) PROVE x \in {Head(s)} \union ToSet(Tail(s))
  <2>1. PICK i \in 1 .. Len(s) : x = s[i]
    BY <1>2 DEF ToSet
  <2>2. CASE i = 1
    BY <2>1, <2>2, <1>1
  <2>3. CASE i # 1
    <3>1. i - 1 \in 1 .. Len(s) - 1 /\ Tail(s)[i - 1] = s[i]
      BY <2>3, <1>1
    <3> QED
      BY <3>1, <2>1, <1>2 DEF ToSet
  <2> QED
    BY <2>2, <2>3
<1>4. ASSUME NEW x \in ToSet(Tail(s)) PROVE x \in ToSet(s)
  <2>1. PICK i \in 1 .. Len(s) - 1 : x = Tail(s)[i]
    BY <1>2 DEF ToSet
  <2>2. i + 1 \in 1 .. Len(s) /\ x = s[i + 1]
    BY <2>1, <1>1
  <2> QED
    BY <2>2, <1>2 DEF ToSet
<1>5. Head(s) \in ToSet(s)
  BY <1>1, <1>2 DEF ToSet
<1> QED
  BY <1>3, <1>4, <1>5

\* A flush of the stream moves all it holds.
LEMMA ConcatSet ==
  ASSUME NEW S, NEW s \in Seq(S), NEW t \in Seq(S)
  PROVE  ToSet(s \o t) = ToSet(s) \union ToSet(t)
<1>1. /\ Len(s) \in Nat /\ Len(t) \in Nat
      /\ DOMAIN s = 1 .. Len(s) /\ DOMAIN t = 1 .. Len(t)
      /\ DOMAIN (s \o t) = 1 .. Len(s) + Len(t)
      /\ \A i \in 1 .. Len(s) + Len(t) :
           (s \o t)[i] = IF i <= Len(s) THEN s[i] ELSE t[i - Len(s)]
  BY ConcatProperties, LenProperties
<1>2. ASSUME NEW x \in ToSet(s \o t) PROVE x \in ToSet(s) \union ToSet(t)
  <2>1. PICK i \in 1 .. Len(s) + Len(t) : x = (s \o t)[i]
    BY <1>1 DEF ToSet
  <2>2. CASE i <= Len(s)
    BY <2>1, <2>2, <1>1 DEF ToSet
  <2>3. CASE i > Len(s)
    <3>1. i - Len(s) \in 1 .. Len(t) /\ x = t[i - Len(s)]
      BY <2>1, <2>3, <1>1
    <3> QED
      BY <3>1, <1>1 DEF ToSet
  <2> QED
    BY <2>2, <2>3, <1>1
<1>3. ASSUME NEW x \in ToSet(s) PROVE x \in ToSet(s \o t)
  <2>1. PICK i \in 1 .. Len(s) : x = s[i]
    BY <1>1 DEF ToSet
  <2>2. i \in 1 .. Len(s) + Len(t) /\ x = (s \o t)[i]
    BY <2>1, <1>1
  <2> QED
    BY <2>2, <1>1 DEF ToSet
<1>4. ASSUME NEW x \in ToSet(t) PROVE x \in ToSet(s \o t)
  <2>1. PICK i \in 1 .. Len(t) : x = t[i]
    BY <1>1 DEF ToSet
  <2>2. i + Len(s) \in 1 .. Len(s) + Len(t) /\ ~(i + Len(s) <= Len(s))
        /\ i + Len(s) - Len(s) = i
    BY <1>1
  <2>3. x = (s \o t)[i + Len(s)]
    BY <2>1, <2>2, <1>1
  <2> QED
    BY <2>2, <2>3, <1>1 DEF ToSet
<1> QED
  BY <1>2, <1>3, <1>4

\* An empty buffer holds nothing.
LEMMA EmptySet == ToSet(<<>>) = {}
BY DEF ToSet
-----------------------------------------------------------------------------
\* There is neither a process nor a file at first.
LEMMA LogInit == Init => LogInv
<1> SUFFICES ASSUME Init PROVE LogInv
  OBVIOUS
<1>1. <<>> \in Seq(Nat)
  BY EmptySeq
<1>2. DOMAIN disk = {}
  BY DEF Init
<1>3. LogTypes
  BY <1>1, <1>2 DEF Init, LogTypes, Places, Dry, Closed
<1>4. StreamOK
  BY DEF Init, StreamOK
<1>5. NamesOK
  BY <1>2 DEF Init, NamesOK, Settled, Flushing, Busy
<1>6. Kept
  BY DEF Init, Kept
<1> QED
  BY <1>3, <1>4, <1>5, <1>6 DEF LogInv

\* What an announcement does to the buffer.
LEMMA Announced ==
  ASSUME LogTypes, announce
  PROVE  /\ told' = told + 1 /\ told' \in Nat
         /\ buffer' \in Seq(Nat) /\ buffer' # <<>>
         /\ ToSet(buffer') = ToSet(buffer) \union {told + 1}
         /\ parting \subseteq parting'
         /\ pc = "ended" => parting' = parting \union {told + 1}
<1>1. told + 1 \in Nat /\ buffer \in Seq(Nat)
  BY DEF LogTypes
<1>2. told' = told + 1 /\ buffer' = Append(buffer, told + 1)
  BY DEF announce
<1>3. ToSet(Append(buffer, told + 1)) = ToSet(buffer) \union {told + 1}
  BY <1>1, AppendSet
<1>4. Append(buffer, told + 1) \in Seq(Nat) /\ Append(buffer, told + 1) # <<>>
  BY <1>1, AppendProperties
<1>5. /\ parting \subseteq parting'
      /\ pc = "ended" => parting' = parting \union {told + 1}
  BY DEF announce
<1> QED
  BY <1>1, <1>2, <1>3, <1>4, <1>5

\* What an opening does to the files.
LEMMA OpenedFile ==
  ASSUME LogTypes, Opened
  PROVE  /\ DOMAIN disk' = DOMAIN disk \union {clock}
         /\ disk'[clock] = <<>> /\ <<>> \in Seq(Nat)
         /\ \A f \in DOMAIN disk : f # clock => disk'[f] = disk[f]
         /\ \A f \in DOMAIN disk' : disk'[f] \in Seq(Nat)
         /\ DOMAIN disk' \subseteq Nat /\ logfile' = clock
<1>1. <<>> \in Seq(Nat)
  BY EmptySeq
<1> QED
  BY <1>1 DEF Opened, LogTypes

\* What a turn of the flush takes off the buffer.
LEMMA Moved ==
  ASSUME LogTypes, buffer # <<>>
  PROVE  /\ Head(buffer) \in Nat /\ Tail(buffer) \in Seq(Nat)
         /\ ToSet(buffer) = {Head(buffer)} \union ToSet(Tail(buffer))
         /\ Append(written, Head(buffer)) \in Seq(Nat)
         /\ Append(written, Head(buffer)) # <<>>
         /\ ToSet(Append(written, Head(buffer)))
              = ToSet(written) \union {Head(buffer)}
<1>1. buffer \in Seq(Nat) /\ written \in Seq(Nat)
  BY DEF LogTypes
<1>2. Head(buffer) \in Nat /\ Tail(buffer) \in Seq(Nat)
  BY <1>1, HeadTailProperties, EmptySeq
<1>3. ToSet(buffer) = {Head(buffer)} \union ToSet(Tail(buffer))
  BY <1>1, TailSet
<1>4. ToSet(Append(written, Head(buffer))) = ToSet(written) \union {Head(buffer)}
  BY <1>1, <1>2, AppendSet
<1>5. /\ Append(written, Head(buffer)) \in Seq(Nat)
      /\ Append(written, Head(buffer)) # <<>>
  BY <1>1, <1>2, AppendProperties
<1> QED
  BY <1>2, <1>3, <1>4, <1>5

\* What the stream puts into the file when it is full, and when it is flushed.
LEMMA Spilled ==
  ASSUME LogTypes, StreamOK, Spill
  PROVE  /\ logfile \in DOMAIN disk /\ DOMAIN disk' = DOMAIN disk
         /\ disk'[logfile] \in Seq(Nat) /\ written' \in Seq(Nat)
         /\ \A f \in DOMAIN disk : f # logfile => disk'[f] = disk[f]
         /\ ToSet(disk[logfile]) \subseteq ToSet(disk'[logfile])
         /\ ToSet(written) \subseteq ToSet(disk'[logfile]) \union ToSet(written')
<1>1. logfile \in DOMAIN disk /\ written \in Seq(Nat) /\ written # <<>>
      /\ disk[logfile] \in Seq(Nat)
  BY DEF LogTypes, StreamOK, Spill
<1>2. Head(written) \in Nat /\ Tail(written) \in Seq(Nat)
  BY <1>1, HeadTailProperties, EmptySeq
<1>3. ToSet(written) = {Head(written)} \union ToSet(Tail(written))
  BY <1>1, TailSet
<1>4. ToSet(Append(disk[logfile], Head(written)))
        = ToSet(disk[logfile]) \union {Head(written)}
  BY <1>1, <1>2, AppendSet
<1>5. Append(disk[logfile], Head(written)) \in Seq(Nat)
  BY <1>1, <1>2, AppendProperties
<1>6. /\ DOMAIN disk' = DOMAIN disk
      /\ disk'[logfile] = Append(disk[logfile], Head(written))
      /\ \A f \in DOMAIN disk : f # logfile => disk'[f] = disk[f]
      /\ written' = Tail(written)
  BY <1>1 DEF Spill
<1> QED
  BY <1>1, <1>2, <1>3, <1>4, <1>5, <1>6

\* The stream is flushed: the open file holds all of it.
LEMMA Synced ==
  ASSUME LogTypes, StreamOK, Sync
  PROVE  /\ DOMAIN disk' = DOMAIN disk
         /\ \A f \in DOMAIN disk : /\ disk'[f] \in Seq(Nat)
                                   /\ f # logfile => disk'[f] = disk[f]
                                   /\ ToSet(disk[f]) \subseteq ToSet(disk'[f])
         /\ ToSet(written) # {} =>
              logfile \in DOMAIN disk /\ ToSet(written) \subseteq ToSet(disk'[logfile])
<1>1. CASE logfile \in Nat
  <2>1. logfile \in DOMAIN disk /\ disk[logfile] \in Seq(Nat)
        /\ written \in Seq(Nat)
    BY <1>1 DEF LogTypes, Closed, Failed
  <2>2. /\ DOMAIN disk' = DOMAIN disk
        /\ disk'[logfile] = disk[logfile] \o written
        /\ \A f \in DOMAIN disk : f # logfile => disk'[f] = disk[f]
    BY <1>1, <2>1 DEF Sync
  <2>3. disk[logfile] \o written \in Seq(Nat)
    BY <2>1, ConcatProperties
  <2>4. ToSet(disk[logfile] \o written) = ToSet(disk[logfile]) \union ToSet(written)
    BY <2>1, ConcatSet
  <2> QED
    BY <2>1, <2>2, <2>3, <2>4 DEF LogTypes
<1>2. CASE logfile \notin Nat
  <2>1. written = <<>>
    BY <1>2 DEF LogTypes, StreamOK
  <2>2. disk' = disk
    BY <1>2 DEF Sync
  <2>3. ToSet(written) = {}
    BY <2>1, EmptySet
  <2> QED
    BY <2>2, <2>3 DEF LogTypes
<1> QED
  BY <1>1, <1>2
-----------------------------------------------------------------------------
\* Each step keeps the types.
LEMMA TypesStep == LogInv /\ [Next]_vars => LogTypes'
<1> SUFFICES ASSUME LogInv, [Next]_vars PROVE LogTypes'
  OBVIOUS
<1> USE DEF Goto
<1>a. LogTypes /\ StreamOK
  BY DEF LogInv
<1>b. <<>> \in Seq(Nat)
  BY EmptySeq
<1>1. CASE Start
  <2>1. <<told + 1>> \in Seq(Nat) /\ told + 1 \in Nat
    BY <1>a DEF LogTypes
  <2>2. /\ UNCHANGED <<clock, disk, set_back>> /\ unsent' = FALSE
        /\ told' = told + 1 /\ buffer' = <<told + 1>> /\ written' = <<>>
        /\ logfile' = Closed
    BY <1>1 DEF Start, history
  <2>3. pc' \in Places
    BY <1>1 DEF Start, Places, Busy, Settled, Dry, Flushing
  <2> QED
    BY <2>1, <2>2, <2>3, <1>a, <1>b DEF LogTypes
<1>2. CASE Open
  <2>1. told' \in Nat /\ buffer' \in Seq(Nat)
    BY <1>2, <1>a, Announced DEF Open
  <2>2. UNCHANGED <<clock, written, set_back>> /\ unsent' = TRUE
    BY <1>2 DEF Open, history
  <2>3. pc' \in Places
    BY <1>2 DEF Open, Places, Busy, Settled, Dry, Flushing
  <2>4. CASE Opened
    BY <2>1, <2>2, <2>3, <2>4, <1>a, OpenedFile DEF LogTypes
  <2>5. CASE NotOpened
    BY <2>1, <2>2, <2>3, <2>5, <1>a DEF NotOpened, LogTypes
  <2> QED
    BY <2>4, <2>5, <1>2 DEF Open
<1>3. CASE Reopen
  <2>1. told' \in Nat /\ buffer' \in Seq(Nat)
    BY <1>3, <1>a, Announced DEF Reopen
  <2>2. UNCHANGED <<clock, written, set_back>> /\ unsent' = TRUE
    BY <1>3 DEF Reopen, history
  <2>3. pc' \in Places
    BY <1>3 DEF Reopen, Places, Busy, Settled, Dry, Flushing
  <2>4. CASE Opened
    BY <2>1, <2>2, <2>3, <2>4, <1>a, OpenedFile DEF LogTypes
  <2>5. CASE NotOpened
    BY <2>1, <2>2, <2>3, <2>5, <1>a DEF NotOpened, LogTypes
  <2> QED
    BY <2>4, <2>5, <1>3 DEF Reopen
<1>4. CASE InitComms
  <2>1. clock' \in Nat
    BY <1>4, <1>a DEF InitComms, LogTypes, ASecond
  <2>2. UNCHANGED <<disk, logfile, written, buffer, told>>
    BY <1>4 DEF InitComms, process
  <2>3. pc' \in Places /\ unsent' \in BOOLEAN /\ set_back' \in BOOLEAN
    BY <1>4, <1>a DEF InitComms, LogTypes, process, history, Places, Busy,
       Settled, Dry, Flushing
  <2> QED
    BY <2>1, <2>2, <2>3, <1>a DEF LogTypes
<1>5. CASE Refuse
  BY <1>5, <1>a, <1>b DEF Refuse, LogTypes, Places, Busy, Settled, Dry,
     Flushing, history, process, ASecond
<1>6. CASE Iterate
  BY <1>6, <1>a, <1>b DEF Iterate, LogTypes, Places, Busy, Settled, Dry,
     Flushing, history, process, ASecond
<1>7. CASE Announce
  <2>1. told' \in Nat /\ buffer' \in Seq(Nat)
    BY <1>7, <1>a, Announced DEF Announce
  <2> QED
    BY <2>1, <1>7, <1>a DEF Announce, LogTypes, Places, Busy, Settled, Dry,
       Flushing, history, ASecond
<1>8. CASE EndBatch
  BY <1>8, <1>a, <1>b DEF EndBatch, LogTypes, Places, Busy, Settled, Dry,
     Flushing, history, process, ASecond
<1>9. CASE Radio
  <2>1. clock' \in Nat
    BY <1>9, <1>a DEF Radio, LogTypes, ASecond
  <2>2. UNCHANGED <<disk, logfile, written, buffer, told>>
    BY <1>9 DEF Radio, process
  <2>3. pc' \in Places /\ unsent' \in BOOLEAN /\ set_back' \in BOOLEAN
    BY <1>9, <1>a DEF Radio, LogTypes, process, history, Places, Busy,
       Settled, Dry, Flushing
  <2> QED
    BY <2>1, <2>2, <2>3, <1>a DEF LogTypes
<1>10. CASE Reset
  <2>1. told' \in Nat /\ buffer' \in Seq(Nat)
    BY <1>10, <1>a, Announced DEF Reset
  <2> QED
    BY <2>1, <1>10, <1>a DEF Reset, LogTypes, Places, Busy, Settled, Dry,
       Flushing, history, ASecond
<1>11. CASE ResetComms
  <2>1. clock' \in Nat
    BY <1>11, <1>a DEF ResetComms, LogTypes, ASecond
  <2>2. UNCHANGED <<disk, logfile, written, buffer, told>>
    BY <1>11 DEF ResetComms, process
  <2>3. pc' \in Places /\ unsent' \in BOOLEAN /\ set_back' \in BOOLEAN
    BY <1>11, <1>a DEF ResetComms, LogTypes, process, history, Places, Busy,
       Settled, Dry, Flushing
  <2> QED
    BY <2>1, <2>2, <2>3, <1>a DEF LogTypes
<1>12. CASE Leave
  <2>1. told' \in Nat /\ buffer' \in Seq(Nat)
    BY <1>12, <1>a, Announced DEF Leave
  <2> QED
    BY <2>1, <1>12, <1>a DEF Leave, LogTypes, Places, Busy, Settled, Dry,
       Flushing, history, ASecond
<1>13. CASE Move
  BY <1>13, <1>a, Moved DEF Move, LogTypes
<1>14. CASE Spill
  BY <1>14, <1>a, Spilled DEF Spill, LogTypes, history
<1>15. CASE Sync
  <2>1. DOMAIN disk' = DOMAIN disk /\ \A f \in DOMAIN disk : disk'[f] \in
     Seq(Nat)
    BY <1>15, <1>a, Synced
  <2> QED
    BY <2>1, <1>15, <1>a, <1>b DEF Sync, LogTypes, Places, Busy, Settled, Dry,
       Flushing, history
<1>16. CASE End
  BY <1>16, <1>a, <1>b DEF End, LogTypes, Places, Busy, Settled, Dry,
     Flushing, history, process, ASecond
<1>17. CASE Signal
  <2>1. clock' \in Nat
    BY <1>17, <1>a DEF Signal, LogTypes, ASecond
  <2>2. told' \in Nat /\ buffer' \in Seq(Nat)
    BY <1>17, <1>a, Announced DEF Signal
  <2>3. UNCHANGED <<disk, logfile, written, pc, set_back>> /\ unsent' = FALSE
    BY <1>17 DEF Signal
  <2> QED
    BY <2>1, <2>2, <2>3, <1>a DEF LogTypes
<1>18. CASE Kill
  BY <1>18, <1>a, <1>b DEF Kill, LogTypes, Places, Busy, Settled, Dry,
     Flushing, history, process, ASecond
<1>19. CASE Tick
  <2>1. clock' \in Nat
    BY <1>19, <1>a DEF Tick, LogTypes, ASecond
  <2>2. UNCHANGED <<disk, logfile, written, buffer, told>>
    BY <1>19 DEF Tick, process
  <2>3. pc' \in Places /\ unsent' \in BOOLEAN /\ set_back' \in BOOLEAN
    BY <1>19, <1>a DEF Tick, LogTypes, process, history, Places, Busy,
       Settled, Dry, Flushing
  <2> QED
    BY <2>1, <2>2, <2>3, <1>a DEF LogTypes
<1>20. CASE SetBack
  <2>1. clock' \in Nat
    BY <1>20, <1>a DEF SetBack, LogTypes, ASecond
  <2>2. UNCHANGED <<disk, logfile, written, buffer, told>>
    BY <1>20 DEF SetBack, process
  <2>3. pc' \in Places /\ unsent' \in BOOLEAN /\ set_back' \in BOOLEAN
    BY <1>20, <1>a DEF SetBack, LogTypes, process, history, Places, Busy,
       Settled, Dry, Flushing
  <2> QED
    BY <2>1, <2>2, <2>3, <1>a DEF LogTypes
<1>21. CASE UNCHANGED vars
  BY <1>21, <1>a DEF LogTypes, vars, process, history
<1>22. CASE Fail
  BY <1>22, <1>a, <1>b DEF Fail, LogTypes
<1> QED
  BY <1>1, <1>2, <1>3, <1>4, <1>5, <1>6, <1>7, <1>8, <1>9, <1>10, <1>11,
     <1>12, <1>13, <1>14, <1>15, <1>16, <1>17, <1>18, <1>19, <1>20, <1>21,
     <1>22 DEF Next, Run

\* Each step keeps the account of the stream.
LEMMA StreamStep == LogInv /\ [Next]_vars => StreamOK'
<1> SUFFICES ASSUME LogInv, [Next]_vars PROVE StreamOK'
  OBVIOUS
<1> USE DEF Goto
<1>a. LogTypes /\ StreamOK
  BY DEF LogInv
<1>1. CASE Start
  BY <1>1, <1>a, EmptySet DEF Start, StreamOK, Dry, Flushing, history,
     process, announce
<1>2. CASE Open
  BY <1>2, <1>a DEF Open, StreamOK, Dry, Flushing, LogTypes, history
<1>3. CASE Reopen
  BY <1>3, <1>a DEF Reopen, StreamOK, Dry, Flushing, LogTypes, history
<1>4. CASE InitComms
  BY <1>4, <1>a, EmptySet DEF InitComms, StreamOK, Dry, Flushing, history,
     process, announce
<1>5. CASE Refuse
  BY <1>5, <1>a, EmptySet DEF Refuse, StreamOK, Dry, Flushing, history,
     process, announce
<1>6. CASE Iterate
  BY <1>6, <1>a, EmptySet DEF Iterate, StreamOK, Dry, Flushing, history,
     process, announce
<1>7. CASE Announce
  <2>1. /\ ToSet(buffer') = ToSet(buffer) \union {told + 1}
        /\ pc = "ended" => parting' = parting \union {told + 1}
    BY <1>7, <1>a, Announced DEF Announce
  <2>2. UNCHANGED <<disk, logfile, written, pc>>
        /\ pc \notin {"off", "start", "reopen"}
    BY <1>7 DEF Announce
  <2> QED
    BY <2>1, <2>2, <1>a DEF StreamOK, Dry
<1>8. CASE EndBatch
  BY <1>8, <1>a, EmptySet DEF EndBatch, StreamOK, Dry, Flushing, history,
     process, announce
<1>9. CASE Radio
  BY <1>9, <1>a, EmptySet DEF Radio, StreamOK, Dry, Flushing, history,
     process, announce
<1>10. CASE Reset
  BY <1>10, <1>a, EmptySet DEF Reset, StreamOK, Dry, Flushing, history,
     process, announce
<1>11. CASE ResetComms
  BY <1>11, <1>a, EmptySet DEF ResetComms, StreamOK, Dry, Flushing, history,
     process, announce
<1>12. CASE Leave
  BY <1>12, <1>a, EmptySet DEF Leave, StreamOK, Dry, Flushing, history,
     process, announce
<1>13. CASE Move
  BY <1>13, <1>a, Moved DEF Move, StreamOK, Dry, Flushing, LogTypes, Closed,
     Failed
<1>14. CASE Spill
  BY <1>14, <1>a, Spilled DEF Spill, StreamOK, Dry, Flushing, history
<1>15. CASE Sync
  BY <1>15, <1>a, EmptySet, Synced DEF Sync, StreamOK, Dry, Flushing, history
<1>16. CASE End
  BY <1>16, <1>a, EmptySet DEF End, StreamOK, Dry, Flushing, history, process,
     announce
<1>17. CASE Signal
  <2>1. /\ ToSet(buffer') = ToSet(buffer) \union {told + 1}
        /\ pc = "ended" => parting' = parting \union {told + 1}
    BY <1>17, <1>a, Announced DEF Signal
  <2>2. pc' = pc /\ pc # "off"
    BY <1>17 DEF Signal
  <2>3. UNCHANGED <<disk, logfile, written>>
    BY <1>17 DEF Signal
  <2> QED
    BY <2>1, <2>2, <2>3, <1>a DEF StreamOK, Dry
<1>18. CASE Kill
  BY <1>18, <1>a, EmptySet DEF Kill, StreamOK, Dry, Flushing, history,
     process, announce
<1>19. CASE Tick
  BY <1>19, <1>a, EmptySet DEF Tick, StreamOK, Dry, Flushing, history,
     process, announce
<1>20. CASE SetBack
  BY <1>20, <1>a, EmptySet DEF SetBack, StreamOK, Dry, Flushing, history,
     process, announce
<1>21. CASE UNCHANGED vars
  BY <1>21, <1>a DEF StreamOK, vars, process, history
<1>22. CASE Fail
  BY <1>22, <1>a DEF Fail, StreamOK, Dry, Flushing
<1> QED
  BY <1>1, <1>2, <1>3, <1>4, <1>5, <1>6, <1>7, <1>8, <1>9, <1>10, <1>11,
     <1>12, <1>13, <1>14, <1>15, <1>16, <1>17, <1>18, <1>19, <1>20, <1>21,
     <1>22 DEF Next, Run

\* A clock once set back stays suspect.
LEMMA SetBackOnly == [Next]_vars /\ ~set_back' => ~set_back
BY DEF Next, Run, Start, Open, Reopen, InitComms, Refuse, Iterate, Announce,
   EndBatch, Radio, Reset, ResetComms, Leave, Move, Spill, Fail, Sync, End,
   Signal, Kill, Tick, SetBack, vars, history

\* Each step keeps the names apart.
LEMMA NamesStep == LogInv /\ [Next]_vars /\ ~set_back' => NamesOK'
<1> SUFFICES ASSUME LogInv, [Next]_vars, ~set_back' PROVE NamesOK'
  OBVIOUS
<1> USE DEF Goto
<1>s. ~set_back
  BY SetBackOnly
<1>a. LogTypes /\ StreamOK /\ NamesOK
  BY <1>s DEF LogInv
<1>1. CASE Start
  BY <1>1, <1>a DEF Start, NamesOK, Settled, Busy, Flushing, LogTypes,
     history, process
<1>2. CASE Open
  <2>1. written = <<>> /\ UNCHANGED <<clock, written>>
    BY <1>2, <1>a DEF Open, StreamOK, Dry
  <2>2. unsent' = TRUE /\ pc' \notin Settled
    BY <1>2 DEF Open, Settled, Flushing
  <2>3. CASE Opened
    BY <2>1, <2>2, <2>3, <1>a, OpenedFile DEF NamesOK, LogTypes
  <2>4. CASE NotOpened
    BY <2>1, <2>2, <2>4, <1>a DEF NotOpened, NamesOK
  <2> QED
    BY <2>3, <2>4, <1>2 DEF Open
<1>3. CASE Reopen
  <2>1. written = <<>> /\ UNCHANGED <<clock, written>>
    BY <1>3, <1>a DEF Reopen, StreamOK, Dry
  <2>2. unsent' = TRUE /\ pc' \notin Settled
    BY <1>3 DEF Reopen, Settled, Flushing
  <2>3. CASE Opened
    BY <2>1, <2>2, <2>3, <1>a, OpenedFile DEF NamesOK, LogTypes
  <2>4. CASE NotOpened
    BY <2>1, <2>2, <2>4, <1>a DEF NotOpened, NamesOK
  <2> QED
    BY <2>3, <2>4, <1>3 DEF Reopen
<1>4. CASE InitComms
  <2>1. UNCHANGED <<disk, logfile, written>>
    BY <1>4 DEF InitComms, process
  <2>2. CASE clock' = clock + 1
    BY <2>1, <2>2, <1>a DEF NamesOK, LogTypes
  <2>3. CASE UNCHANGED clock
    BY <2>1, <2>3, <1>4, <1>a DEF InitComms, NamesOK, Settled, Busy, Flushing,
       LogTypes, ASecond
  <2> QED
    BY <2>2, <2>3, <1>4 DEF InitComms, ASecond
<1>5. CASE Refuse
  <2>1. written' = <<>> /\ UNCHANGED <<clock, disk, unsent>>
    BY <1>5, <1>a DEF Refuse, StreamOK, Dry
  <2>2. pc' \notin Settled \union Busy
    BY <1>5 DEF Refuse, Settled, Busy, Flushing
  <2> QED
    BY <2>1, <2>2, <1>a DEF NamesOK
<1>6. CASE Iterate
  BY <1>6, <1>a DEF Iterate, NamesOK, Settled, Busy, Flushing, LogTypes,
     history, process
<1>7. CASE Announce
  BY <1>7, <1>a DEF Announce, NamesOK, Settled, Busy, Flushing, LogTypes,
     history, process
<1>8. CASE EndBatch
  BY <1>8, <1>a DEF EndBatch, NamesOK, Settled, Busy, Flushing, LogTypes,
     history, process
<1>9. CASE Radio
  <2>1. UNCHANGED <<disk, logfile, written>>
    BY <1>9 DEF Radio, process
  <2>2. CASE clock' = clock + 1
    BY <2>1, <2>2, <1>a DEF NamesOK, LogTypes
  <2>3. CASE UNCHANGED clock
    BY <2>1, <2>3, <1>9, <1>a DEF Radio, NamesOK, Settled, Busy, Flushing,
       LogTypes, ASecond
  <2> QED
    BY <2>2, <2>3, <1>9 DEF Radio, ASecond
<1>10. CASE Reset
  BY <1>10, <1>a DEF Reset, NamesOK, Settled, Busy, Flushing, LogTypes,
     history, process
<1>11. CASE ResetComms
  <2>1. UNCHANGED <<disk, logfile, written>>
    BY <1>11 DEF ResetComms, process
  <2>2. clock' = clock + 1
    BY <1>11 DEF ResetComms, ASecond
  <2> QED
    BY <2>1, <2>2, <1>a DEF NamesOK, LogTypes
<1>12. CASE Leave
  BY <1>12, <1>a DEF Leave, NamesOK, Settled, Busy, Flushing, LogTypes,
     history, process
<1>13. CASE Move
  BY <1>13, <1>a, Moved DEF Move, NamesOK, Settled, Busy, Flushing, LogTypes,
     Closed, Failed
<1>14. CASE Spill
  <2>1. logfile < clock /\ logfile \in DOMAIN disk
    BY <1>14, <1>a DEF Spill, NamesOK, StreamOK
  <2>2. UNCHANGED <<clock, logfile, pc, unsent>>
    BY <1>14 DEF Spill
  <2>3. /\ DOMAIN disk' = DOMAIN disk
        /\ \A f \in DOMAIN disk : f # logfile => disk'[f] = disk[f]
    BY <1>14, <1>a, Spilled
  <2> QED
    BY <2>1, <2>2, <2>3, <1>a DEF NamesOK
<1>15. CASE Sync
  <2>1. DOMAIN disk' = DOMAIN disk /\ UNCHANGED clock
    BY <1>15, <1>a, Synced DEF Sync
  <2>2. \A f \in DOMAIN disk : f < clock
    BY <1>15, <1>a DEF Sync, NamesOK, Settled
  <2> QED
    BY <2>1, <2>2, <1>a DEF NamesOK, LogTypes
<1>16. CASE End
  <2>1. written' = <<>> /\ UNCHANGED <<clock, disk, unsent>>
    BY <1>16, <1>a DEF End, StreamOK, Dry
  <2>2. pc' \notin Settled \union Busy
    BY <1>16 DEF End, Settled, Busy, Flushing
  <2> QED
    BY <2>1, <2>2, <1>a DEF NamesOK
<1>17. CASE Signal
  <2>1. UNCHANGED <<disk, logfile, written>>
    BY <1>17 DEF Signal, process
  <2>2. CASE clock' = clock + 1
    BY <2>1, <2>2, <1>a DEF NamesOK, LogTypes
  <2>3. CASE UNCHANGED clock
    BY <2>1, <2>3, <1>17, <1>a DEF Signal, NamesOK, Settled, Busy, Flushing,
       LogTypes, ASecond
  <2> QED
    BY <2>2, <2>3, <1>17 DEF Signal, ASecond
<1>18. CASE Kill
  BY <1>18, <1>a DEF Kill, NamesOK, Settled, Busy, Flushing, LogTypes,
     history, process
<1>19. CASE Tick
  <2>1. UNCHANGED <<disk, logfile, written>>
    BY <1>19 DEF Tick, process
  <2>2. clock' = clock + 1
    BY <1>19 DEF Tick, ASecond
  <2> QED
    BY <2>1, <2>2, <1>a DEF NamesOK, LogTypes
<1>20. CASE SetBack
  BY <1>20 DEF SetBack
<1>21. CASE UNCHANGED vars
  BY <1>21, <1>a DEF NamesOK, vars, process, history
<1>22. CASE Fail
  BY <1>22, <1>a DEF Fail, NamesOK
<1> QED
  BY <1>1, <1>2, <1>3, <1>4, <1>5, <1>6, <1>7, <1>8, <1>9, <1>10, <1>11,
     <1>12, <1>13, <1>14, <1>15, <1>16, <1>17, <1>18, <1>19, <1>20, <1>21,
     <1>22 DEF Next, Run

\* Each step keeps what was announced.
LEMMA KeptStep == LogInv /\ [Next]_vars /\ ~set_back' => Kept'
<1> SUFFICES ASSUME LogInv, [Next]_vars, ~set_back', NEW r \in 1 .. told'
             PROVE  (\/ r \in lost \/ r \in parting \/ OnDisk(r)
                     \/ r \in ToSet(written) \/ r \in ToSet(buffer))'
  BY DEF Kept
<1> USE DEF Goto
<1>s. ~set_back
  BY SetBackOnly
<1>a. LogTypes /\ StreamOK /\ NamesOK /\ Kept
  BY <1>s DEF LogInv
<1>1. CASE Start
  <2>1. r \in 1 .. told \/ r = told + 1
    BY <1>1, <1>a DEF Start, LogTypes
  <2>2. told + 1 \in ToSet(buffer')
    <3>1. <<>> \in Seq(Nat) /\ told + 1 \in Nat
      BY EmptySeq, <1>a DEF LogTypes
    <3>2. buffer' = <<told + 1>>
      BY <1>1 DEF Start
    <3> QED
      BY <3>2 DEF ToSet
  <2>3. ToSet(buffer) = {} /\ ToSet(written) = {}
    BY <1>1, <1>a, EmptySet DEF Start, StreamOK, Dry
  <2>4. UNCHANGED <<disk, lost, parting>>
    BY <1>1 DEF Start, history
  <2> QED
    BY <2>1, <2>2, <2>3, <2>4, <1>a DEF Kept, OnDisk
<1>2. CASE Open
  <2>1. told' = told + 1 /\ ToSet(buffer') = ToSet(buffer) \union {told + 1}
    BY <1>2, <1>a, Announced DEF Open
  <2>2. r \in 1 .. told \/ r = told + 1
    BY <2>1, <1>a DEF LogTypes
  <2>3. UNCHANGED <<written, lost>> /\ parting \subseteq parting'
    BY <1>2, <1>a, Announced DEF Open
  <2>4. ASSUME OnDisk(r), Opened PROVE OnDisk(r)'
    <3>1. PICK f \in DOMAIN disk : r \in ToSet(disk[f])
      BY <2>4 DEF OnDisk
    <3>2. disk[f] # <<>>
      BY <3>1, EmptySet
    <3>3. f # clock
      BY <3>1, <3>2, <1>a DEF NamesOK, LogTypes
    <3>4. f \in DOMAIN disk' /\ disk'[f] = disk[f]
      BY <2>4, <3>1, <3>3, <1>a, OpenedFile
    <3> QED
      BY <3>1, <3>4 DEF OnDisk
  <2>5. OnDisk(r) => OnDisk(r)'
    BY <2>4, <1>2 DEF Open, NotOpened, OnDisk
  <2> QED
    BY <2>1, <2>2, <2>3, <2>5, <1>a DEF Kept
<1>3. CASE Reopen
  <2>1. told' = told + 1 /\ ToSet(buffer') = ToSet(buffer) \union {told + 1}
    BY <1>3, <1>a, Announced DEF Reopen
  <2>2. r \in 1 .. told \/ r = told + 1
    BY <2>1, <1>a DEF LogTypes
  <2>3. UNCHANGED <<written, lost>> /\ parting \subseteq parting'
    BY <1>3, <1>a, Announced DEF Reopen
  <2>4. ASSUME OnDisk(r), Opened PROVE OnDisk(r)'
    <3>1. PICK f \in DOMAIN disk : r \in ToSet(disk[f])
      BY <2>4 DEF OnDisk
    <3>2. disk[f] # <<>>
      BY <3>1, EmptySet
    <3>3. f # clock
      BY <3>1, <3>2, <1>a DEF NamesOK, LogTypes
    <3>4. f \in DOMAIN disk' /\ disk'[f] = disk[f]
      BY <2>4, <3>1, <3>3, <1>a, OpenedFile
    <3> QED
      BY <3>1, <3>4 DEF OnDisk
  <2>5. OnDisk(r) => OnDisk(r)'
    BY <2>4, <1>3 DEF Reopen, NotOpened, OnDisk
  <2> QED
    BY <2>1, <2>2, <2>3, <2>5, <1>a DEF Kept
<1>4. CASE InitComms
  BY <1>4, <1>a DEF InitComms, Kept, OnDisk, history, process
<1>5. CASE Refuse
  BY <1>5, <1>a DEF Refuse, Kept, OnDisk
<1>6. CASE Iterate
  BY <1>6, <1>a DEF Iterate, Kept, OnDisk, history, process
<1>7. CASE Announce
  <2>1. told' = told + 1 /\ ToSet(buffer') = ToSet(buffer) \union {told + 1}
    BY <1>7, <1>a, Announced DEF Announce
  <2>2. r \in 1 .. told \/ r = told + 1
    BY <2>1, <1>a DEF LogTypes
  <2>3. UNCHANGED <<disk, written, lost>> /\ parting \subseteq parting'
    BY <1>7, <1>a, Announced DEF Announce
  <2> QED
    BY <2>1, <2>2, <2>3, <1>a DEF Kept, OnDisk
<1>8. CASE EndBatch
  BY <1>8, <1>a DEF EndBatch, Kept, OnDisk, history, process
<1>9. CASE Radio
  BY <1>9, <1>a DEF Radio, Kept, OnDisk, history, process
<1>10. CASE Reset
  <2>1. told' = told + 1 /\ ToSet(buffer') = ToSet(buffer) \union {told + 1}
    BY <1>10, <1>a, Announced DEF Reset
  <2>2. r \in 1 .. told \/ r = told + 1
    BY <2>1, <1>a DEF LogTypes
  <2>3. UNCHANGED <<disk, written, lost>> /\ parting \subseteq parting'
    BY <1>10, <1>a, Announced DEF Reset
  <2> QED
    BY <2>1, <2>2, <2>3, <1>a DEF Kept, OnDisk
<1>11. CASE ResetComms
  BY <1>11, <1>a DEF ResetComms, Kept, OnDisk, history, process
<1>12. CASE Leave
  <2>1. told' = told + 1 /\ ToSet(buffer') = ToSet(buffer) \union {told + 1}
    BY <1>12, <1>a, Announced DEF Leave
  <2>2. r \in 1 .. told \/ r = told + 1
    BY <2>1, <1>a DEF LogTypes
  <2>3. UNCHANGED <<disk, written, lost>> /\ parting \subseteq parting'
    BY <1>12, <1>a, Announced DEF Leave
  <2> QED
    BY <2>1, <2>2, <2>3, <1>a DEF Kept, OnDisk
<1>13. CASE Move
  <2>1. ToSet(buffer) = {Head(buffer)} \union ToSet(buffer')
    BY <1>13, <1>a, Moved DEF Move
  <2>2. /\ UNCHANGED <<disk, told, parting>> /\ lost \subseteq lost'
        /\ ToSet(written) \subseteq ToSet(written')
        /\ Head(buffer) \in ToSet(written') \/ Head(buffer) \in lost'
    BY <1>13, <1>a, Moved DEF Move
  <2> QED
    BY <2>1, <2>2, <1>a DEF Kept, OnDisk
<1>14. CASE Spill
  <2>1. UNCHANGED <<buffer, told, lost, parting>>
    BY <1>14 DEF Spill, history
  <2>2. OnDisk(r) => OnDisk(r)'
    BY <1>14, <1>a, Spilled DEF OnDisk
  <2>3. r \in ToSet(written) => OnDisk(r)' \/ r \in ToSet(written')
    BY <1>14, <1>a, Spilled DEF OnDisk
  <2> QED
    BY <2>1, <2>2, <2>3, <1>a DEF Kept
<1>15. CASE Sync
  <2>1. UNCHANGED <<buffer, told, lost, parting>>
    BY <1>15 DEF Sync, history
  <2>2. OnDisk(r) => OnDisk(r)'
    BY <1>15, <1>a, Synced DEF OnDisk
  <2>3. r \in ToSet(written) => OnDisk(r)'
    BY <1>15, <1>a, Synced DEF OnDisk
  <2> QED
    BY <2>1, <2>2, <2>3, <1>a DEF Kept
<1>16. CASE End
  <2>1. ToSet(buffer) \subseteq parting
    BY <1>16, <1>a DEF End, StreamOK
  <2> QED
    BY <2>1, <1>16, <1>a DEF End, history, Kept, OnDisk
<1>17. CASE Signal
  <2>1. told' = told + 1 /\ ToSet(buffer') = ToSet(buffer) \union {told + 1}
    BY <1>17, <1>a, Announced DEF Signal
  <2>2. r \in 1 .. told \/ r = told + 1
    BY <2>1, <1>a DEF LogTypes
  <2>3. UNCHANGED <<disk, written, lost>> /\ parting \subseteq parting'
    BY <1>17, <1>a, Announced DEF Signal
  <2> QED
    BY <2>1, <2>2, <2>3, <1>a DEF Kept, OnDisk
<1>18. CASE Kill
  BY <1>18, <1>a DEF Kill, Kept, OnDisk
<1>19. CASE Tick
  BY <1>19, <1>a DEF Tick, Kept, OnDisk, history, process
<1>20. CASE SetBack
  BY <1>20 DEF SetBack
<1>21. CASE UNCHANGED vars
  BY <1>21, <1>a DEF Kept, OnDisk, vars, process, history
<1>22. CASE Fail
  <2>1. /\ UNCHANGED <<disk, buffer, told, parting>>
        /\ lost' = lost \union ToSet(written)
    BY <1>22 DEF Fail
  <2> QED
    BY <2>1, <1>a DEF Kept, OnDisk
<1> QED
  BY <1>1, <1>2, <1>3, <1>4, <1>5, <1>6, <1>7, <1>8, <1>9, <1>10, <1>11,
     <1>12, <1>13, <1>14, <1>15, <1>16, <1>17, <1>18, <1>19, <1>20, <1>21,
     <1>22 DEF Next, Run

\* The files hold what was announced: Spec keeps LogInv.
THEOREM LogCorrect == Spec => []LogInv
<1>1. LogInv /\ [Next]_vars => LogInv'
  BY TypesStep, StreamStep, NamesStep, KeptStep DEF LogInv
<1> QED
  BY <1>1, LogInit, PTL DEF Spec

\* An announcement is lost only to a kill, a refused start, a file that cannot
\* be opened or written, a clock set back, or when it comes after main's last
\* flush of the log (src/logging.cpp:29, 114, src/main.cpp:69).
THEOREM NothingIsForgotten == Spec => []NothingForgotten
<1>1. LogInv => NothingForgotten
  BY DEF LogInv, Kept, OnDisk, NothingForgotten, InLog
<1> QED
  BY <1>1, LogCorrect, PTL
-----------------------------------------------------------------------------
\* The numbers of s follow each other and end with n.
Newest(s, n) == \A i \in 1 .. Len(s) : s[i] = n - Len(s) + i

\* What the open file holds and what is on its way to it.
Pending == IF logfile \in DOMAIN disk THEN (disk[logfile] \o written) \o buffer
                                      ELSE buffer

\* The files in the order of their names, the open one last.
FilesOK ==
  /\ \A f \in DOMAIN disk : \A r \in ToSet(disk[f]) : r <= told
  /\ logfile \in DOMAIN disk => \A f \in DOMAIN disk : f <= logfile
  /\ \A f, g \in DOMAIN disk : f < g =>
       \A r \in ToSet(disk[f]), q \in ToSet(disk[g]) : r < q
  /\ \A f \in DOMAIN disk \ {logfile} :
       \A r \in ToSet(disk[f]), q \in ToSet(Pending) : r < q

OrderInv == /\ Newest(Pending, told)
            /\ \A f \in DOMAIN disk : Consecutive(disk[f])
            /\ ~set_back => FilesOK

\* An announcement is the newest.
LEMMA NewestAppend ==
  ASSUME NEW n \in Nat, NEW s \in Seq(Nat), Newest(s, n)
  PROVE  Newest(Append(s, n + 1), n + 1)
<1>1. /\ Len(s) \in Nat /\ Len(Append(s, n + 1)) = Len(s) + 1
      /\ \A i \in 1 .. Len(s) : Append(s, n + 1)[i] = s[i]
      /\ Append(s, n + 1)[Len(s) + 1] = n + 1
  BY AppendProperties
<1> QED
  BY <1>1 DEF Newest

\* A turn of the flush into nowhere.
LEMMA NewestTail ==
  ASSUME NEW n \in Nat, NEW s \in Seq(Nat), s # <<>>, Newest(s, n)
  PROVE  Newest(Tail(s), n)
<1>1. /\ Len(s) \in Nat /\ Len(s) >= 1 /\ Len(Tail(s)) = Len(s) - 1
      /\ \A i \in 1 .. Len(Tail(s)) : Tail(s)[i] = s[i + 1]
  BY HeadTailProperties, EmptySeq
<1> QED
  BY <1>1 DEF Newest

\* The front of such a sequence has no gap, and its elements are among those
\* up to n.
LEMMA NewestFront ==
  ASSUME NEW n \in Nat, NEW s \in Seq(Nat), NEW t \in Seq(Nat), Newest(s \o t, n)
  PROVE  /\ Consecutive(s) /\ ToSet(s) \subseteq ToSet(s \o t)
         /\ \A r \in ToSet(s) : r <= n
<1>1. /\ Len(s) \in Nat /\ Len(t) \in Nat /\ Len(s \o t) = Len(s) + Len(t)
      /\ \A i \in 1 .. Len(s) : i \in 1 .. Len(s) + Len(t) /\ (s \o t)[i] = s[i]
  BY ConcatProperties
<1>2. \A i \in 1 .. Len(s) : s[i] = n - (Len(s) + Len(t)) + i
  BY <1>1 DEF Newest
<1>3. Consecutive(s)
  <2> SUFFICES ASSUME NEW i \in 1 .. Len(s) - 1 PROVE s[i + 1] = s[i] + 1
    BY DEF Consecutive
  <2>1. i \in 1 .. Len(s) /\ i + 1 \in 1 .. Len(s)
    BY <1>1
  <2>2. /\ s[i] = n - (Len(s) + Len(t)) + i
        /\ s[i + 1] = n - (Len(s) + Len(t)) + (i + 1)
    BY <2>1, <1>2
  <2> QED
    BY <2>2, <1>1
<1>4. ToSet(s) \subseteq ToSet(s \o t)
  BY ConcatSet
<1>5. ASSUME NEW r \in ToSet(s) PROVE r <= n
  <2>1. PICK i \in 1 .. Len(s) : r = s[i]
    BY LenProperties DEF ToSet
  <2> QED
    BY <2>1, <1>1, <1>2
<1> QED
  BY <1>3, <1>4, <1>5

\* The back of such a sequence ends with n too, and is newer than the front.
LEMMA NewestBack ==
  ASSUME NEW n \in Nat, NEW s \in Seq(Nat), NEW t \in Seq(Nat), Newest(s \o t, n)
  PROVE  Newest(t, n) /\ \A r \in ToSet(s), q \in ToSet(t) : r < q
<1>1. /\ Len(s) \in Nat /\ Len(t) \in Nat /\ Len(s \o t) = Len(s) + Len(t)
      /\ \A i \in 1 .. Len(s) : i \in 1 .. Len(s) + Len(t) /\ (s \o t)[i] = s[i]
  BY ConcatProperties
<1>2. \A i \in 1 .. Len(t) : /\ i + Len(s) \in 1 .. Len(s) + Len(t)
                             /\ (s \o t)[i + Len(s)] = t[i]
  <2> SUFFICES ASSUME NEW i \in 1 .. Len(t)
               PROVE  /\ i + Len(s) \in 1 .. Len(s) + Len(t)
                      /\ (s \o t)[i + Len(s)] = t[i]
    OBVIOUS
  <2>1. i + Len(s) \in 1 .. Len(s) + Len(t) /\ ~(i + Len(s) <= Len(s))
        /\ i + Len(s) - Len(s) = i
    BY <1>1
  <2> QED
    BY <2>1, ConcatProperties
<1>3. \A i \in 1 .. Len(s) : s[i] = n - (Len(s) + Len(t)) + i
  BY <1>1 DEF Newest
<1>4. \A i \in 1 .. Len(t) : t[i] = n - Len(t) + i
  <2> SUFFICES ASSUME NEW i \in 1 .. Len(t) PROVE t[i] = n - Len(t) + i
    OBVIOUS
  <2>1. (s \o t)[i + Len(s)] = n - (Len(s) + Len(t)) + (i + Len(s))
    BY <1>1, <1>2 DEF Newest
  <2> QED
    BY <2>1, <1>1, <1>2
<1>5. ASSUME NEW r \in ToSet(s), NEW q \in ToSet(t) PROVE r < q
  <2>1. PICK i \in 1 .. Len(s) : r = s[i]
    BY LenProperties DEF ToSet
  <2>2. PICK j \in 1 .. Len(t) : q = t[j]
    BY LenProperties DEF ToSet
  <2> QED
    BY <2>1, <2>2, <1>1, <1>3, <1>4
<1> QED
  BY <1>4, <1>5 DEF Newest

\* The library's facts about concatenation, for sequences of numbers.
LEMMA ConcatNat ==
  ASSUME NEW s \in Seq(Nat), NEW t \in Seq(Nat)
  PROVE  /\ s \o t \in Seq(Nat) /\ Len(s \o t) = Len(s) + Len(t)
         /\ \A i \in 1 .. Len(s) + Len(t) :
              (s \o t)[i] = IF i <= Len(s) THEN s[i] ELSE t[i - Len(s)]
BY ConcatProperties

\* When one element and a rest make up s.
LEMMA OneAndRest ==
  ASSUME NEW s \in Seq(Nat), NEW h \in Seq(Nat), NEW t \in Seq(Nat),
         Len(h) = 1, h[1] = s[1], Len(s) = Len(t) + 1,
         \A i \in 1 .. Len(t) : t[i] = s[i + 1]
  PROVE  s = h \o t
<1>1. h \o t \in Seq(Nat) /\ Len(h \o t) = Len(h) + Len(t)
  BY ConcatNat
<1>2. \A i \in 1 .. Len(h) + Len(t) :
        (h \o t)[i] = IF i <= Len(h) THEN h[i] ELSE t[i - Len(h)]
  BY ConcatNat, Zenon
<1>3. Len(t) \in Nat /\ Len(h \o t) = Len(s)
  BY <1>1
<1>4. ASSUME NEW i \in 1 .. Len(s) PROVE s[i] = (h \o t)[i]
  <2>1. (h \o t)[i] = IF i <= 1 THEN h[i] ELSE t[i - 1]
    BY <1>2, <1>3
  <2>2. CASE i = 1
    BY <2>1, <2>2
  <2>3. CASE i # 1
    <3>1. i - 1 \in 1 .. Len(t) /\ i - 1 + 1 = i /\ ~(i <= 1)
      BY <2>3, <1>3
    <3> QED
      BY <3>1, <2>1
  <2> QED
    BY <2>2, <2>3
<1> QED
  BY <1>1, <1>3, <1>4, SeqEqual

\* A sequence is its head and the rest.
LEMMA HeadAndTail ==
  ASSUME NEW s \in Seq(Nat), s # <<>>
  PROVE  /\ Head(s) \in Nat /\ <<Head(s)>> \in Seq(Nat) /\ Tail(s) \in Seq(Nat)
         /\ s = <<Head(s)>> \o Tail(s)
<1>1. /\ Len(s) \in Nat /\ Len(s) >= 1 /\ Head(s) = s[1] /\ Head(s) \in Nat
      /\ Tail(s) \in Seq(Nat) /\ Len(Tail(s)) = Len(s) - 1
      /\ \A i \in 1 .. Len(Tail(s)) : Tail(s)[i] = s[i + 1]
  BY HeadTailProperties, EmptySeq
<1> DEFINE h == <<Head(s)>>
           t == Tail(s)
<1>2. h \in Seq(Nat) /\ Len(h) = 1 /\ h[1] = s[1]
  BY <1>1
<1>3. t \in Seq(Nat) /\ Len(s) = Len(t) + 1
      /\ \A i \in 1 .. Len(t) : t[i] = s[i + 1]
  BY <1>1
<1> HIDE DEF h, t
<1>4. s = h \o t
  BY <1>2, <1>3, OneAndRest
<1> QED
  BY <1>1, <1>2, <1>3, <1>4 DEF h, t

\* The order in which the head of v is moved to the end of u does not matter.
LEMMA MoveHead ==
  ASSUME NEW u \in Seq(Nat), NEW v \in Seq(Nat), v # <<>>
  PROVE  Append(u, Head(v)) \o Tail(v) = u \o v
<1>1. /\ Head(v) \in Nat /\ <<Head(v)>> \in Seq(Nat) /\ Tail(v) \in Seq(Nat)
      /\ v = <<Head(v)>> \o Tail(v)
  BY HeadAndTail
<1>2. Append(u, Head(v)) = u \o <<Head(v)>>
  BY <1>1, AppendIsConcat
<1>3. (u \o <<Head(v)>>) \o Tail(v) = u \o (<<Head(v)>> \o Tail(v))
  BY <1>1, ConcatAssociative
<1> QED
  BY <1>1, <1>2, <1>3

\* Appending to the last of two parts.
LEMMA AppendAfter ==
  ASSUME NEW u \in Seq(Nat), NEW v \in Seq(Nat), NEW x \in Nat
  PROVE  u \o Append(v, x) = Append(u \o v, x)
<1>1. <<x>> \in Seq(Nat) /\ u \o v \in Seq(Nat)
  BY ConcatProperties
<1>2. Append(v, x) = v \o <<x>> /\ Append(u \o v, x) = (u \o v) \o <<x>>
  BY <1>1, AppendIsConcat
<1>3. (u \o v) \o <<x>> = u \o (v \o <<x>>)
  BY <1>1, ConcatAssociative
<1> QED
  BY <1>2, <1>3

\* What is pending is a sequence of numbers.
LEMMA PendingType == LogTypes => Pending \in Seq(Nat)
<1> SUFFICES ASSUME LogTypes PROVE Pending \in Seq(Nat)
  OBVIOUS
<1>1. written \in Seq(Nat) /\ buffer \in Seq(Nat)
  BY DEF LogTypes
<1>2. CASE logfile \in DOMAIN disk
  <2>1. disk[logfile] \in Seq(Nat)
    BY <1>2 DEF LogTypes
  <2>2. disk[logfile] \o written \in Seq(Nat)
    BY <1>1, <2>1, ConcatProperties
  <2> QED
    BY <1>1, <1>2, <2>2, ConcatProperties DEF Pending
<1> QED
  BY <1>1, <1>2 DEF Pending

\* Steps that leave the files alone and add at most an announcement.
LEMMA OrderGrows ==
  ASSUME LogTypes, OrderInv, UNCHANGED <<disk, logfile>>, set_back => set_back',
         \/ UNCHANGED <<Pending, told>>
         \/ told' = told + 1 /\ Pending' = Append(Pending, told + 1)
  PROVE  OrderInv'
<1>1. CASE UNCHANGED <<Pending, told>>
  BY <1>1 DEF OrderInv, FilesOK
<1>2. CASE told' = told + 1 /\ Pending' = Append(Pending, told + 1)
  <2>1. Pending \in Seq(Nat) /\ told \in Nat /\ Newest(Pending, told)
        /\ DOMAIN disk \subseteq Nat
    BY PendingType DEF LogTypes, OrderInv
  <2>2. Newest(Pending', told')
    BY <1>2, <2>1, NewestAppend
  <2>3. ToSet(Pending') = ToSet(Pending) \union {told + 1}
    BY <1>2, <2>1, AppendSet
  <2>4. ASSUME FilesOK PROVE FilesOK'
    <3>1. \A f \in DOMAIN disk : \A r \in ToSet(disk[f]) : r \in Nat /\ r <= told
      <4> SUFFICES ASSUME NEW f \in DOMAIN disk, NEW r \in ToSet(disk[f])
                   PROVE  r \in Nat /\ r <= told
        OBVIOUS
      <4>1. disk[f] \in Seq(Nat)
        BY DEF LogTypes
      <4> QED
        BY <4>1, <2>4 DEF ToSet, FilesOK
    <3>2. \A f \in DOMAIN disk \ {logfile} :
            \A r \in ToSet(disk[f]), q \in ToSet(Pending') : r < q
      BY <3>1, <2>1, <2>3, <2>4 DEF FilesOK
    <3>3. \A f \in DOMAIN disk : \A r \in ToSet(disk[f]) : r <= told'
      BY <3>1, <2>1, <1>2
    <3> QED
      BY <3>2, <3>3, <2>4 DEF FilesOK
  <2> QED
    BY <2>2, <2>4 DEF OrderInv
<1> QED
  BY <1>1, <1>2

\* Steps that close the file and forget what was on its way.
LEMMA OrderCloses ==
  ASSUME LogTypes, OrderInv, UNCHANGED <<disk, told>>, logfile' = Closed,
         buffer' = <<>>, set_back => set_back'
  PROVE  OrderInv'
<1>1. logfile' \notin DOMAIN disk'
  BY DEF LogTypes, Closed
<1>2. Pending' = <<>>
  BY <1>1 DEF Pending
<1>3. Newest(Pending', told')
  BY <1>2 DEF Newest
<1>4. ToSet(Pending') = {}
  BY <1>2, EmptySet
<1>5. FilesOK => FilesOK'
  <2> SUFFICES ASSUME FilesOK PROVE FilesOK'
    OBVIOUS
  <2> QED
    BY <1>1, <1>4 DEF FilesOK
<1> QED
  BY <1>3, <1>5 DEF OrderInv

\* Steps that put a part t0 of what is pending into the open file.
LEMMA OrderFills ==
  ASSUME LogTypes, OrderInv, NEW n \in DOMAIN disk, n = logfile,
         DOMAIN disk' = DOMAIN disk,
         \A f \in DOMAIN disk : f # n => disk'[f] = disk[f],
         disk'[n] \in Seq(Nat), NEW t \in Seq(Nat), Pending = disk'[n] \o t,
         told' = told, set_back' = set_back,
         \/ logfile' = logfile /\ Pending' = Pending
         \/ logfile' = Closed /\ Pending' = <<>>
  PROVE  OrderInv'
<1>1. Pending \in Seq(Nat) /\ told \in Nat /\ Newest(Pending, told)
      /\ DOMAIN disk \subseteq Nat
  BY PendingType DEF LogTypes, OrderInv
<1>2. /\ Consecutive(disk'[n]) /\ ToSet(disk'[n]) \subseteq ToSet(Pending)
      /\ \A r \in ToSet(disk'[n]) : r <= told
  BY <1>1, NewestFront
<1>3. Newest(Pending', told') /\ ToSet(Pending') \subseteq ToSet(Pending)
  <2>1. Newest(<<>>, told)
    BY DEF Newest
  <2> QED
    BY <1>1, <2>1, EmptySet
<1>4. \A f \in DOMAIN disk' : Consecutive(disk'[f])
  BY <1>2 DEF OrderInv
<1>5. ASSUME FilesOK PROVE FilesOK'
  <2>1. \A f \in DOMAIN disk' : \A r \in ToSet(disk'[f]) : r <= told'
    BY <1>2, <1>5 DEF FilesOK
  <2>2. logfile' \in DOMAIN disk' => \A f \in DOMAIN disk' : f <= logfile'
    BY <1>1, <1>5 DEF FilesOK, Closed
  <2>3. ASSUME NEW f \in DOMAIN disk, NEW g \in DOMAIN disk, f < g,
               NEW r \in ToSet(disk'[f]), NEW q \in ToSet(disk'[g])
        PROVE  r < q
    <3>1. f # n
      BY <2>3, <1>1, <1>5 DEF FilesOK
    <3>2. CASE g = n
      BY <3>1, <3>2, <2>3, <1>2, <1>5 DEF FilesOK
    <3>3. CASE g # n
      BY <3>1, <3>3, <2>3, <1>5 DEF FilesOK
    <3> QED
      BY <3>2, <3>3
  <2>4. ASSUME NEW f \in DOMAIN disk, f # logfile',
               NEW r \in ToSet(disk'[f]), NEW q \in ToSet(Pending')
        PROVE  r < q
    <3>1. logfile' = logfile
      BY EmptySet
    <3> QED
      BY <3>1, <2>4, <1>3, <1>5 DEF FilesOK
  <2> QED
    BY <2>1, <2>2, <2>3, <2>4 DEF FilesOK
<1> QED
  BY <1>3, <1>4, <1>5 DEF OrderInv

\* What a file holds are numbers.
LEMMA ElementsAreNat ==
  ASSUME LogTypes, NEW f \in DOMAIN disk, NEW r \in ToSet(disk[f])
  PROVE  r \in Nat
<1>1. disk[f] \in Seq(Nat)
  BY DEF LogTypes
<1> QED
  BY <1>1 DEF ToSet

\* Steps that only announce.
LEMMA PendingGrows ==
  ASSUME LogTypes, announce, UNCHANGED <<disk, logfile, written>>
  PROVE  told' = told + 1 /\ Pending' = Append(Pending, told + 1)
<1>1. /\ told + 1 \in Nat /\ written \in Seq(Nat) /\ buffer \in Seq(Nat)
      /\ told' = told + 1 /\ buffer' = Append(buffer, told + 1)
  BY DEF LogTypes, announce
<1>2. CASE logfile \in DOMAIN disk
  <2>1. disk[logfile] \o written \in Seq(Nat)
    BY <1>1, <1>2, ConcatProperties DEF LogTypes
  <2>2. (disk[logfile] \o written) \o Append(buffer, told + 1)
          = Append((disk[logfile] \o written) \o buffer, told + 1)
    BY <1>1, <2>1, AppendAfter
  <2> QED
    BY <1>1, <1>2, <2>2 DEF Pending
<1> QED
  BY <1>1, <1>2 DEF Pending

\* logging::init begins a new file, which is the last, or fails to.
LEMMA OrderOpens ==
  ASSUME LogTypes, OrderInv, ~set_back => NamesOK, announce,
         logfile = Closed, written = <<>>, written' = <<>>, set_back' = set_back,
         Opened \/ NotOpened
  PROVE  OrderInv'
<1>1. /\ told \in Nat /\ clock \in Nat /\ DOMAIN disk \subseteq Nat
      /\ buffer \in Seq(Nat) /\ logfile \notin DOMAIN disk
      /\ told' = told + 1 /\ buffer' = Append(buffer, told + 1)
  BY DEF LogTypes, announce, Closed
<1>2. Pending = buffer
  BY <1>1 DEF Pending
<1>3. Pending' = Append(Pending, told + 1)
  <2>1. CASE Opened
    <3>1. disk'[clock] = <<>> /\ logfile' = clock /\ clock \in DOMAIN disk'
      BY <2>1, OpenedFile
    <3>2. Pending' = (<<>> \o <<>>) \o buffer'
      BY <3>1 DEF Pending
    <3>3. buffer' \in Seq(Nat) /\ <<>> \in Seq(Nat)
      BY <1>1, AppendProperties, EmptySeq
    <3>4. <<>> \o <<>> = <<>> /\ <<>> \o buffer' = buffer'
      BY <3>3, ConcatEmptySeq
    <3> QED
      BY <3>2, <3>4, <1>1, <1>2
  <2>2. CASE NotOpened
    <3>1. logfile' \notin DOMAIN disk'
      BY <2>2, <1>1 DEF NotOpened, Failed
    <3> QED
      BY <3>1, <1>1, <1>2 DEF Pending
  <2> QED
    BY <2>1, <2>2
<1>4. Newest(Pending', told')
  BY <1>1, <1>2, <1>3, NewestAppend DEF OrderInv
<1>5. ToSet(Pending') = ToSet(Pending) \union {told + 1}
  BY <1>1, <1>2, <1>3, AppendSet
<1>6. CASE NotOpened
  <2>1. OrderInv /\ UNCHANGED disk /\ logfile' \notin DOMAIN disk
    BY <1>1, <1>6 DEF NotOpened, Failed
  <2>2. ASSUME FilesOK PROVE FilesOK'
    <3>1. \A f \in DOMAIN disk : \A r \in ToSet(disk[f]) : r \in Nat /\ r <= told
      BY <2>2, ElementsAreNat DEF FilesOK
    <3>2. \A f \in DOMAIN disk : \A r \in ToSet(disk[f]), q \in ToSet(Pending') : r < q
      BY <1>1, <1>5, <2>2, <3>1 DEF FilesOK
    <3>3. \A f \in DOMAIN disk : \A r \in ToSet(disk[f]) : r <= told'
      BY <1>1, <3>1
    <3> QED
      BY <2>1, <2>2, <3>2, <3>3 DEF FilesOK
  <2> QED
    BY <1>4, <2>1, <2>2 DEF OrderInv
<1>7. CASE Opened
  <2>1. /\ DOMAIN disk' = DOMAIN disk \union {clock} /\ logfile' = clock
        /\ disk'[clock] = <<>> /\ ToSet(disk'[clock]) = {}
        /\ \A f \in DOMAIN disk : f # clock => disk'[f] = disk[f]
    BY <1>7, OpenedFile, EmptySet
  <2>2. \A f \in DOMAIN disk' : Consecutive(disk'[f])
    <3>1. Consecutive(<<>>)
      BY DEF Consecutive
    <3> QED
      BY <2>1, <3>1 DEF OrderInv
  <2>3. ASSUME FilesOK, NamesOK PROVE FilesOK'
    <3>1. \A f \in DOMAIN disk : \A r \in ToSet(disk[f]) : r \in Nat /\ r <= told
      BY <2>3, ElementsAreNat DEF FilesOK
    <3>2. \A f \in DOMAIN disk' : \A r \in ToSet(disk'[f]) : r <= told'
      BY <1>1, <2>1, <3>1
    <3>3. \A f \in DOMAIN disk' : f <= logfile'
      BY <1>1, <2>1, <2>3 DEF NamesOK
    <3>4. \A f, g \in DOMAIN disk' : f < g =>
            \A r \in ToSet(disk'[f]), q \in ToSet(disk'[g]) : r < q
      BY <2>1, <2>3 DEF FilesOK
    <3>5. \A f \in DOMAIN disk' \ {logfile'} :
            \A r \in ToSet(disk'[f]), q \in ToSet(Pending') : r < q
      BY <1>1, <1>5, <2>1, <2>3, <3>1 DEF FilesOK
    <3> QED
      BY <3>2, <3>3, <3>4, <3>5 DEF FilesOK
  <2> QED
    BY <1>4, <2>2, <2>3 DEF OrderInv
<1> QED
  BY <1>6, <1>7

\* A turn of logging::flush: what is pending stays, or is lost from the front.
LEMMA OrderMoves ==
  ASSUME LogTypes, StreamOK, OrderInv, Move PROVE OrderInv'
<1>1. /\ buffer # <<>> /\ buffer \in Seq(Nat) /\ written \in Seq(Nat)
      /\ told \in Nat /\ UNCHANGED <<disk, logfile, told, set_back>>
      /\ buffer' = Tail(buffer) /\ Head(buffer) \in Nat /\ Tail(buffer) \in Seq(Nat)
  BY Moved DEF Move, LogTypes
<1>2. CASE logfile \in Nat
  <2>1. logfile \in DOMAIN disk /\ disk[logfile] \in Seq(Nat)
    BY <1>2 DEF LogTypes, Closed, Failed
  <2> DEFINE u == disk[logfile] \o written
  <2>2. u \in Seq(Nat)
    BY <1>1, <2>1, ConcatProperties
  <2>3. disk[logfile] \o Append(written, Head(buffer)) = Append(u, Head(buffer))
    BY <1>1, <2>1, AppendAfter
  <2>4. Append(u, Head(buffer)) \o Tail(buffer) = u \o buffer
    BY <1>1, <2>2, MoveHead
  <2>5. written' = Append(written, Head(buffer))
    BY <1>2 DEF Move
  <2>6. Pending' = Pending
    BY <1>1, <2>1, <2>3, <2>4, <2>5 DEF Pending
  <2> QED
    BY <1>1, <2>6, OrderGrows
<1>3. CASE logfile \notin Nat
  <2>1. logfile \notin DOMAIN disk
    BY <1>3 DEF LogTypes
  <2>2. Pending = buffer /\ Pending' = Tail(buffer)
    BY <1>1, <2>1 DEF Pending
  <2>3. Newest(Pending', told')
    BY <1>1, <2>2, NewestTail DEF OrderInv
  <2>4. ToSet(Pending') \subseteq ToSet(Pending)
    BY <1>1, <2>2, TailSet
  <2>5. FilesOK => FilesOK'
    BY <1>1, <2>1, <2>4 DEF FilesOK
  <2> QED
    BY <1>1, <2>3, <2>5 DEF OrderInv
<1> QED
  BY <1>2, <1>3

\* Concatenation is associative.
LEMMA ConcatThree ==
  \A s, t, w \in Seq(Nat) : (s \o t) \o w = s \o (t \o w)
BY ConcatAssociative

\* As MoveHead, with a third part behind.
LEMMA SplitHead ==
  ASSUME NEW u \in Seq(Nat), NEW v \in Seq(Nat), v # <<>>, NEW w \in Seq(Nat)
  PROVE  (u \o v) \o w = Append(u, Head(v)) \o (Tail(v) \o w)
<1>1. Head(v) \in Nat /\ Tail(v) \in Seq(Nat)
  BY HeadAndTail
<1>2. Append(u, Head(v)) \in Seq(Nat)
  BY <1>1, AppendProperties
<1>3. Append(u, Head(v)) \o Tail(v) = u \o v
  BY MoveHead
<1>4. (Append(u, Head(v)) \o Tail(v)) \o w
        = Append(u, Head(v)) \o (Tail(v) \o w)
  BY <1>1, <1>2, ConcatThree, Zenon
<1> QED
  BY <1>3, <1>4

\* The stream is full: its oldest goes to the file.
LEMMA OrderSpills ==
  ASSUME LogTypes, StreamOK, OrderInv, Spill PROVE OrderInv'
<1>1. /\ logfile \in DOMAIN disk /\ disk[logfile] \in Seq(Nat)
      /\ written \in Seq(Nat) /\ written # <<>> /\ buffer \in Seq(Nat)
      /\ Head(written) \in Nat /\ Tail(written) \in Seq(Nat)
      /\ UNCHANGED <<logfile, buffer, told, set_back>>
  BY HeadAndTail DEF LogTypes, StreamOK, Spill, history
<1>2. /\ DOMAIN disk' = DOMAIN disk /\ written' = Tail(written)
      /\ disk'[logfile] = Append(disk[logfile], Head(written))
      /\ \A f \in DOMAIN disk : f # logfile => disk'[f] = disk[f]
  BY <1>1 DEF Spill
<1>3. Append(disk[logfile], Head(written)) \o Tail(written) = disk[logfile] \o written
  BY <1>1, MoveHead
<1>4. Pending' = Pending
  BY <1>1, <1>2, <1>3 DEF Pending
<1>5. (disk[logfile] \o written) \o buffer
        = Append(disk[logfile], Head(written)) \o (Tail(written) \o buffer)
  BY <1>1, SplitHead
<1>6. Pending = Append(disk[logfile], Head(written)) \o (Tail(written) \o buffer)
  BY <1>1, <1>5 DEF Pending
<1>7. /\ Append(disk[logfile], Head(written)) \in Seq(Nat)
      /\ Tail(written) \o buffer \in Seq(Nat)
  BY <1>1, AppendProperties, ConcatProperties
<1> QED
  BY <1>1, <1>2, <1>4, <1>6, <1>7, OrderFills

\* The buffer is empty: what the stream holds goes to the file.
LEMMA OrderSyncs ==
  ASSUME LogTypes, StreamOK, OrderInv, Sync PROVE OrderInv'
<1>1. /\ buffer = <<>> /\ buffer' = <<>> /\ written \in Seq(Nat) /\ written' = <<>>
      /\ UNCHANGED <<told, set_back>> /\ <<>> \in Seq(Nat)
      /\ logfile' = logfile \/ logfile' = Closed
  BY DEF LogTypes, Sync, history
<1>2. CASE logfile \in Nat
  <2>1. logfile \in DOMAIN disk /\ disk[logfile] \in Seq(Nat)
    BY <1>2 DEF LogTypes, Closed, Failed
  <2>2. /\ DOMAIN disk' = DOMAIN disk
        /\ disk'[logfile] = disk[logfile] \o written
        /\ \A f \in DOMAIN disk : f # logfile => disk'[f] = disk[f]
    BY <1>2, <2>1 DEF Sync
  <2>3. disk[logfile] \o written \in Seq(Nat)
    BY <1>1, <2>1, ConcatProperties
  <2>4. Pending = (disk[logfile] \o written) \o <<>>
    BY <1>1, <2>1 DEF Pending
  <2>5. ((disk[logfile] \o written) \o <<>>) \o <<>> = (disk[logfile] \o written) \o <<>>
    BY <1>1, <2>3, ConcatEmptySeq
  <2>6. CASE logfile' = logfile
    <3>1. Pending' = Pending
      BY <1>1, <2>1, <2>2, <2>4, <2>5, <2>6 DEF Pending
    <3> QED
      BY <1>1, <2>1, <2>2, <2>3, <2>4, <2>6, <3>1, OrderFills
  <2>7. CASE logfile' = Closed
    <3>1. Pending' = <<>>
      BY <1>1, <2>2, <2>7 DEF Pending, LogTypes, Closed
    <3> QED
      BY <1>1, <2>1, <2>2, <2>3, <2>4, <2>7, <3>1, OrderFills
  <2> QED
    BY <1>1, <2>6, <2>7
<1>3. CASE logfile \notin Nat
  <2>1. logfile \notin DOMAIN disk /\ disk' = disk
    BY <1>3 DEF LogTypes, Sync
  <2>2. logfile' \notin DOMAIN disk'
    BY <1>1, <2>1 DEF LogTypes, Closed
  <2>3. Pending' = Pending
    BY <1>1, <2>1, <2>2 DEF Pending
  <2>4. FilesOK => FilesOK'
    BY <1>1, <2>1, <2>2, <2>3 DEF FilesOK
  <2> QED
    BY <1>1, <2>1, <2>3, <2>4 DEF OrderInv
<1> QED
  BY <1>2, <1>3

\* The file fails: what the stream has taken is lost, what the buffer holds
\* follows.
LEMMA OrderFails ==
  ASSUME LogTypes, StreamOK, OrderInv, Fail PROVE OrderInv'
<1>1. /\ written \in Seq(Nat) /\ buffer \in Seq(Nat) /\ told \in Nat
      /\ logfile \in DOMAIN disk /\ disk[logfile] \in Seq(Nat)
      /\ UNCHANGED <<disk, buffer, told, set_back>> /\ logfile' \notin DOMAIN disk
  BY DEF LogTypes, StreamOK, Fail, Failed
<1> DEFINE u == disk[logfile] \o written
<1>2. u \in Seq(Nat) /\ ToSet(u) = ToSet(disk[logfile]) \union ToSet(written)
  BY <1>1, ConcatProperties, ConcatSet
<1>3. Pending = u \o buffer /\ Pending' = buffer
  BY <1>1 DEF Pending
<1>4. Newest(u \o buffer, told)
  BY <1>3 DEF OrderInv
<1> HIDE DEF u
<1>5. Newest(Pending', told') /\ \A r \in ToSet(u), q \in ToSet(buffer) : r < q
  BY <1>1, <1>2, <1>3, <1>4, NewestBack
<1>6. ToSet(Pending') \subseteq ToSet(Pending)
  BY <1>1, <1>2, <1>3, ConcatSet
<1>7. ASSUME FilesOK PROVE FilesOK'
  <2>1. ASSUME NEW f \in DOMAIN disk, NEW r \in ToSet(disk[f]),
               NEW q \in ToSet(Pending')
        PROVE  r < q
    <3>1. CASE f = logfile
      BY <2>1, <3>1, <1>2, <1>3, <1>5
    <3>2. CASE f # logfile
      BY <2>1, <3>2, <1>6, <1>7 DEF FilesOK
    <3> QED
      BY <3>1, <3>2
  <2> QED
    BY <2>1, <1>1, <1>7 DEF FilesOK
<1> QED
  BY <1>1, <1>5, <1>7 DEF OrderInv

\* main begins with an empty buffer.
LEMMA OrderStarts ==
  ASSUME LogTypes, OrderInv, Start PROVE OrderInv'
<1>1. /\ told \in Nat /\ told' = told + 1 /\ UNCHANGED <<disk, set_back>>
      /\ buffer' = <<told + 1>> /\ logfile' \notin DOMAIN disk
  BY DEF LogTypes, Start, history, Closed
<1>2. Pending' = <<told + 1>>
  BY <1>1 DEF Pending
<1>3. Newest(Pending', told')
  BY <1>1, <1>2 DEF Newest
<1>4. ToSet(Pending') = {told + 1}
  BY <1>1, <1>2 DEF ToSet
<1>5. ASSUME FilesOK PROVE FilesOK'
  <2>1. \A f \in DOMAIN disk : \A r \in ToSet(disk[f]) : r \in Nat /\ r <= told
    BY <1>5, ElementsAreNat DEF FilesOK
  <2>2. \A f \in DOMAIN disk :
          \A r \in ToSet(disk[f]), q \in ToSet(Pending') : r < q
    BY <1>1, <1>4, <2>1
  <2>3. \A f \in DOMAIN disk : \A r \in ToSet(disk[f]) : r <= told'
    BY <1>1, <2>1
  <2> QED
    BY <1>1, <1>5, <2>2, <2>3 DEF FilesOK
<1> QED
  BY <1>1, <1>3, <1>5 DEF OrderInv

\* Each step keeps the order.
LEMMA OrderStep == LogInv /\ OrderInv /\ [Next]_vars => OrderInv'
<1> SUFFICES ASSUME LogInv, OrderInv, [Next]_vars PROVE OrderInv'
  OBVIOUS
<1> USE DEF Goto
<1>a. LogTypes /\ StreamOK /\ (~set_back => NamesOK) /\ OrderInv
  BY DEF LogInv
<1>1. CASE Start
  BY <1>1, <1>a, OrderStarts
<1>2. CASE Open
  <2>1. /\ announce /\ logfile = Closed /\ written = <<>> /\ written' = <<>>
        /\ set_back' = set_back /\ (Opened \/ NotOpened)
    BY <1>2, <1>a DEF Open, StreamOK, Dry
  <2> QED
    BY <2>1, <1>a, OrderOpens
<1>3. CASE Reopen
  <2>1. /\ announce /\ logfile = Closed /\ written = <<>> /\ written' = <<>>
        /\ set_back' = set_back /\ (Opened \/ NotOpened)
    BY <1>3, <1>a DEF Reopen, StreamOK, Dry
  <2> QED
    BY <2>1, <1>a, OrderOpens
<1>4. CASE InitComms
  <2>1. /\ UNCHANGED <<disk, logfile, written, buffer, told>>
        /\ set_back => set_back'
    BY <1>4 DEF InitComms, history, process
  <2>2. Pending' = Pending
    BY <2>1 DEF Pending
  <2> QED
    BY <2>1, <2>2, <1>a, OrderGrows
<1>5. CASE Refuse
  <2>1. /\ UNCHANGED <<disk, told, set_back>>
        /\ logfile' = Closed /\ buffer' = <<>>
    BY <1>5 DEF Refuse, history
  <2> QED
    BY <2>1, <1>a, OrderCloses
<1>6. CASE Iterate
  <2>1. /\ UNCHANGED <<disk, logfile, written, buffer, told>>
        /\ set_back => set_back'
    BY <1>6 DEF Iterate, history, process
  <2>2. Pending' = Pending
    BY <2>1 DEF Pending
  <2> QED
    BY <2>1, <2>2, <1>a, OrderGrows
<1>7. CASE Announce
  <2>1. announce /\ UNCHANGED <<disk, logfile, written, set_back>>
    BY <1>7 DEF Announce, history
  <2> QED
    BY <2>1, <1>a, PendingGrows, OrderGrows
<1>8. CASE EndBatch
  <2>1. /\ UNCHANGED <<disk, logfile, written, buffer, told>>
        /\ set_back => set_back'
    BY <1>8 DEF EndBatch, history, process
  <2>2. Pending' = Pending
    BY <2>1 DEF Pending
  <2> QED
    BY <2>1, <2>2, <1>a, OrderGrows
<1>9. CASE Radio
  <2>1. /\ UNCHANGED <<disk, logfile, written, buffer, told>>
        /\ set_back => set_back'
    BY <1>9 DEF Radio, history, process
  <2>2. Pending' = Pending
    BY <2>1 DEF Pending
  <2> QED
    BY <2>1, <2>2, <1>a, OrderGrows
<1>10. CASE Reset
  <2>1. announce /\ UNCHANGED <<disk, logfile, written, set_back>>
    BY <1>10 DEF Reset, history
  <2> QED
    BY <2>1, <1>a, PendingGrows, OrderGrows
<1>11. CASE ResetComms
  <2>1. /\ UNCHANGED <<disk, logfile, written, buffer, told>>
        /\ set_back => set_back'
    BY <1>11 DEF ResetComms, history, process
  <2>2. Pending' = Pending
    BY <2>1 DEF Pending
  <2> QED
    BY <2>1, <2>2, <1>a, OrderGrows
<1>12. CASE Leave
  <2>1. announce /\ UNCHANGED <<disk, logfile, written, set_back>>
    BY <1>12 DEF Leave, history
  <2> QED
    BY <2>1, <1>a, PendingGrows, OrderGrows
<1>13. CASE Move
  BY <1>13, <1>a, OrderMoves
<1>14. CASE Spill
  BY <1>14, <1>a, OrderSpills
<1>15. CASE Sync
  BY <1>15, <1>a, OrderSyncs
<1>16. CASE End
  <2>1. /\ UNCHANGED <<disk, told, set_back>>
        /\ logfile' = Closed /\ buffer' = <<>>
    BY <1>16 DEF End, history
  <2> QED
    BY <2>1, <1>a, OrderCloses
<1>17. CASE Signal
  <2>1. announce /\ UNCHANGED <<disk, logfile, written, set_back>>
    BY <1>17 DEF Signal, history
  <2> QED
    BY <2>1, <1>a, PendingGrows, OrderGrows
<1>18. CASE Kill
  <2>1. /\ UNCHANGED <<disk, told, set_back>>
        /\ logfile' = Closed /\ buffer' = <<>>
    BY <1>18 DEF Kill, history
  <2> QED
    BY <2>1, <1>a, OrderCloses
<1>19. CASE Tick
  <2>1. /\ UNCHANGED <<disk, logfile, written, buffer, told>>
        /\ set_back => set_back'
    BY <1>19 DEF Tick, history, process
  <2>2. Pending' = Pending
    BY <2>1 DEF Pending
  <2> QED
    BY <2>1, <2>2, <1>a, OrderGrows
<1>20. CASE SetBack
  <2>1. /\ UNCHANGED <<disk, logfile, written, buffer, told>>
        /\ set_back => set_back'
    BY <1>20 DEF SetBack, history, process
  <2>2. Pending' = Pending
    BY <2>1 DEF Pending
  <2> QED
    BY <2>1, <2>2, <1>a, OrderGrows
<1>21. CASE UNCHANGED vars
  <2>1. UNCHANGED <<disk, logfile, written, buffer, told, set_back>>
    BY <1>21 DEF vars, process, history
  <2>2. Pending' = Pending
    BY <2>1 DEF Pending
  <2> QED
    BY <2>1, <2>2, <1>a, OrderGrows
<1>22. CASE Fail
  BY <1>22, <1>a, OrderFails
<1> QED
  BY <1>1, <1>2, <1>3, <1>4, <1>5, <1>6, <1>7, <1>8, <1>9, <1>10, <1>11,
     <1>12, <1>13, <1>14, <1>15, <1>16, <1>17, <1>18, <1>19, <1>20, <1>21,
     <1>22 DEF Next, Run

\* What is pending and the file it goes to are as LogInOrder sees them.
LEMMA OrderImplies == LogInv /\ OrderInv => LogInOrder
<1> SUFFICES ASSUME LogInv, OrderInv PROVE LogInOrder
  OBVIOUS
<1>a. LogTypes
  BY DEF LogInv
<1>1. ASSUME NEW f \in DOMAIN disk PROVE Consecutive(Whole(f))
  <2>1. CASE f = logfile
    <3>1. Whole(f) = Pending
      BY <2>1, <1>1 DEF Whole, Pending
    <3>2. Pending \in Seq(Nat) /\ told \in Nat /\ Newest(Pending, told)
          /\ <<>> \in Seq(Nat)
      BY <1>a, PendingType, EmptySeq DEF OrderInv, LogTypes
    <3>3. Pending \o <<>> = Pending
      BY <3>2, ConcatEmptySeq
    <3>4. Consecutive(Pending)
      BY <3>2, <3>3, NewestFront
    <3> QED
      BY <3>1, <3>4
  <2>2. CASE f # logfile
    BY <2>2, <1>1 DEF Whole, OrderInv
  <2> QED
    BY <2>1, <2>2
<1>2. ASSUME ~set_back, NEW f \in DOMAIN disk, NEW g \in DOMAIN disk, f < g,
             NEW r \in ToSet(disk[f]), NEW q \in ToSet(disk[g])
      PROVE  r < q
  BY <1>2 DEF OrderInv, FilesOK
<1> QED
  BY <1>1, <1>2 DEF LogInOrder

\* No log file has a gap, and the names order the files (src/logging.cpp:36,
\* 114).
THEOREM LogIsInOrder == Spec => []LogInOrder
<1>1. Init => OrderInv
  <2> SUFFICES ASSUME Init PROVE OrderInv
    OBVIOUS
  <2>1. DOMAIN disk = {} /\ buffer = <<>>
    BY DEF Init
  <2>2. Pending = <<>>
    BY <2>1 DEF Pending
  <2>3. Newest(Pending, told)
    BY <2>2 DEF Newest
  <2> QED
    BY <2>1, <2>3 DEF OrderInv, FilesOK
<1>2. Spec => []OrderInv
  BY <1>1, OrderStep, LogCorrect, PTL DEF Spec
<1> QED
  BY <1>2, LogCorrect, OrderImplies, PTL
=============================================================================
