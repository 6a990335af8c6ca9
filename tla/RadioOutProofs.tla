--------------------------- MODULE RadioOutProofs ---------------------------
(***************************************************************************)
(* Theorems about RadioOut for every number of bytes, iterations and       *)
(* signals.  The inductive invariant says that unless a signal tore a      *)
(* flush the buffer holds exactly the bytes that were queued and not yet   *)
(* handed over, in order, but for the one that is written and not popped.  *)
(* From it follows that RadioOut implements RadioChannel.                  *)
(***************************************************************************)
EXTENDS RadioOut, SequenceTheorems, TLAPS

\* The statements between the loop's test and the end of an iteration.
Inside == {"front", "write", "pop"}

\* A flush that goes on has iterations left.
CountersOK == \A t \in Threads : pc[t] \in Inside \union {"test"} => iters[t] > 0

\* The sequence of the numbers from a to b.
Consecutive(s, a, b) ==
  Len(s) = b + 1 - a /\ \A i \in 1 .. Len(s) : s[i] = a + i - 1

\* The byte at the front of the buffer with the threads at p and byte l the
\* last to be handed over.
FirstByte(p, l) == IF \E t \in Threads : p[t] = "pop" THEN l ELSE l + 1

UntornOK ==
  /\ ~broken /\ ~disorder
  /\ Consecutive(buff, FirstByte(pc, last), next)
  /\ pc["main"] \in Inside => pc["handler"] = "idle"
  /\ \A t \in Threads : pc[t] \in Inside => buff # <<>>
  /\ \A t \in Threads : pc[t] = "write" => byte[t] = last + 1

RadioInv == TypeOK /\ CountersOK /\ (~torn => UntornOK)
-----------------------------------------------------------------------------
\* push_back of the next number (src/comms.cpp:134).
LEMMA AppendConsecutive ==
  ASSUME NEW S, NEW s \in Seq(S), NEW a \in Nat, NEW b \in Nat, b + 1 \in S,
         Consecutive(s, a, b)
  PROVE  Consecutive(Append(s, b + 1), a, b + 1)
<1>1. /\ Len(Append(s, b + 1)) = Len(s) + 1
      /\ \A i \in 1 .. Len(s) : Append(s, b + 1)[i] = s[i]
      /\ Append(s, b + 1)[Len(s) + 1] = b + 1
  BY AppendProperties
<1>2. Len(s) \in Nat
  OBVIOUS
<1> QED
  BY <1>1, <1>2 DEF Consecutive

\* front and pop_front of a buffer that is not empty.
LEMMA TailConsecutive ==
  ASSUME NEW S, NEW s \in Seq(S), NEW a \in Nat, NEW b \in Nat, s # <<>>,
         Consecutive(s, a, b)
  PROVE  a <= b /\ Head(s) = a /\ Consecutive(Tail(s), a + 1, b)
<1>1. /\ Len(s) \in Nat /\ Len(s) >= 1 /\ Head(s) = s[1]
      /\ Len(Tail(s)) = Len(s) - 1
      /\ \A i \in 1 .. Len(Tail(s)) : Tail(s)[i] = s[i + 1]
  BY HeadTailProperties, EmptySeq
<1> QED
  BY <1>1 DEF Consecutive

\* While a thread is in a flush that no signal tore, the other is outside.
LEMMA OtherOutside ==
  ASSUME UntornOK, TypeOK, NEW t \in Threads, Runs(t), pc[t] # "idle",
         NEW u \in Threads, u # t
  PROVE  pc[u] \notin Inside
BY DEF UntornOK, TypeOK, Runs, Threads, Inside

\* So the front of the buffer depends on the one thread only.
LEMMA FrontOfThread ==
  ASSUME NEW p, NEW l, NEW t \in Threads,
         \A u \in Threads : u # t => p[u] # "pop"
  PROVE  FirstByte(p, l) = IF p[t] = "pop" THEN l ELSE l + 1
BY DEF FirstByte
-----------------------------------------------------------------------------
\* The buffer is empty at first.
LEMMA RadioInit == Init => RadioInv
<1> SUFFICES ASSUME Init PROVE RadioInv
  OBVIOUS
<1>1. TypeOK
  <2>1. buff \in Seq(1 .. MaxBytes)
    BY DEF Init
  <2>2. /\ pc \in [Threads -> {"idle", "test", "front", "write", "pop", "clear"}]
        /\ byte \in [Threads -> 0 .. MaxBytes]
        /\ iters \in [Threads -> 0 .. MaxIters]
        /\ then \in [Threads -> {"idle", "clear"}]
    BY RadioAssumption DEF Init
  <2>3. next \in 0 .. MaxBytes /\ last \in 0 .. MaxBytes
        /\ signals \in 0 .. MaxSignals
    BY RadioAssumption DEF Init
  <2> QED
    BY <2>1, <2>2, <2>3 DEF Init, TypeOK
<1>2. CountersOK
  BY DEF Init, CountersOK, Inside
<1>3. UntornOK
  <2>1. FirstByte(pc, last) = 1
    BY DEF Init, FirstByte
  <2>2. Consecutive(buff, 1, 0)
    BY DEF Init, Consecutive
  <2> QED
    BY <2>1, <2>2 DEF Init, UntornOK, Inside, Threads
<1> QED
  BY <1>1, <1>2, <1>3 DEF RadioInv

\* Queueing keeps the buffer typed, and never shortens it.
LEMMA QueueTyped ==
  ASSUME TypeOK, Queue
  PROVE  /\ buff' \in Seq(1 .. MaxBytes) /\ next' \in 0 .. MaxBytes
         /\ buff # <<>> => buff' # <<>>
<1>1. CASE next < MaxBytes
  <2>1. next + 1 \in 1 .. MaxBytes /\ buff' = Append(buff, next + 1)
    BY <1>1, RadioAssumption DEF TypeOK, Queue
  <2>2. buff' \in Seq(1 .. MaxBytes) /\ buff' # <<>>
    BY <2>1, AppendProperties DEF TypeOK
  <2> QED
    BY <1>1, <2>2, RadioAssumption DEF TypeOK, Queue
<1>2. CASE ~(next < MaxBytes)
  BY <1>2 DEF TypeOK, Queue
<1> QED
  BY <1>1, <1>2

\* Queueing keeps the buffer consecutive.
LEMMA QueueConsecutive ==
  ASSUME TypeOK, Queue, NEW a \in Nat, Consecutive(buff, a, next)
  PROVE  Consecutive(buff', a, next')
<1>1. CASE next < MaxBytes
  <2>1. next + 1 \in 1 .. MaxBytes /\ next \in Nat
    BY <1>1, RadioAssumption DEF TypeOK
  <2>2. Consecutive(Append(buff, next + 1), a, next + 1)
    BY <2>1, AppendConsecutive DEF TypeOK
  <2> QED
    BY <1>1, <2>2 DEF Queue
<1>2. CASE ~(next < MaxBytes)
  BY <1>2 DEF Queue
<1> QED
  BY <1>1, <1>2

\* The front of the buffer is a number.
LEMMA FrontNat == ASSUME TypeOK PROVE FirstByte(pc, last) \in Nat
BY RadioAssumption DEF TypeOK, FirstByte
-----------------------------------------------------------------------------
\* An announcement by the main thread.
LEMMA TransmitKeeps == ASSUME RadioInv, Transmit PROVE RadioInv'
<1> USE DEF RadioInv
<1>1. TypeOK'
  BY QueueTyped DEF Transmit, locals, TypeOK
<1>2. CountersOK'
  BY DEF Transmit, locals, CountersOK
<1>3. ASSUME ~torn' PROVE UntornOK'
  <2>1. UntornOK
    BY <1>3 DEF Transmit
  <2>2. Consecutive(buff', FirstByte(pc, last), next')
    BY <2>1, QueueConsecutive, FrontNat DEF Transmit, UntornOK
  <2> QED
    BY <2>1, <2>2, QueueTyped DEF Transmit, locals, UntornOK
<1> QED
  BY <1>1, <1>2, <1>3

\* The main thread starts a flush.
LEMMA BeginFlushKeeps == ASSUME RadioInv, BeginFlush PROVE RadioInv'
<1> USE DEF RadioInv
<1>1. TypeOK'
  BY RadioAssumption DEF BeginFlush, Goto, Threads, TypeOK
<1>2. CountersOK'
  BY RadioAssumption DEF BeginFlush, Goto, Threads, TypeOK, CountersOK, Inside
<1>3. ASSUME ~torn' PROVE UntornOK'
  <2>1. UntornOK
    BY <1>3 DEF BeginFlush
  <2>2. /\ pc' = [pc EXCEPT !["main"] = "test"]
        /\ pc["main"] = "idle" /\ pc["handler"] = "idle"
        /\ pc \in [Threads -> {"idle", "test", "front", "write", "pop", "clear"}]
        /\ UNCHANGED <<buff, next, last, byte, disorder, broken>>
    BY DEF BeginFlush, Goto, Runs, TypeOK
  <2>3. FirstByte(pc', last') = FirstByte(pc, last)
    BY <2>2 DEF FirstByte, Threads
  <2> QED
    BY <2>1, <2>2, <2>3 DEF UntornOK, Inside, Threads
<1> QED
  BY <1>1, <1>2, <1>3

\* The handler starts its flush; if it does not tear the main thread's flush,
\* the main thread is outside of an iteration.
LEMMA SigintKeeps == ASSUME RadioInv, Sigint PROVE RadioInv'
<1> USE DEF RadioInv
<1>1. TypeOK'
  <2>1. /\ pc' \in [Threads -> {"idle", "test", "front", "write", "pop", "clear"}]
        /\ iters' \in [Threads -> 0 .. MaxIters]
        /\ then' \in [Threads -> {"idle", "clear"}]
    BY RadioAssumption DEF Sigint, Goto, Threads, TypeOK
  <2>2. signals' \in 0 .. MaxSignals
    BY RadioAssumption DEF Sigint, TypeOK
  <2> QED
    BY <2>1, <2>2, QueueTyped DEF Sigint, TypeOK
<1>2. CountersOK'
  BY RadioAssumption DEF Sigint, Goto, Threads, TypeOK, CountersOK, Inside
<1>3. ASSUME ~torn' PROVE UntornOK'
  <2>1. UntornOK /\ pc["main"] \notin Inside /\ pc["handler"] = "idle"
    BY <1>3 DEF Sigint, TypeOK, Runs, Inside
  <2>2. /\ pc' = [pc EXCEPT !["handler"] = "test"]
        /\ pc \in [Threads -> {"idle", "test", "front", "write", "pop", "clear"}]
        /\ UNCHANGED <<last, byte, disorder, broken>>
    BY DEF Sigint, Goto, TypeOK
  <2>3. FirstByte(pc', last') = FirstByte(pc, last)
    BY <2>1, <2>2 DEF FirstByte, Threads, Inside
  <2>4. Consecutive(buff', FirstByte(pc', last'), next')
    BY <2>1, <2>3, QueueConsecutive, FrontNat DEF Sigint, UntornOK
  <2> QED
    BY <2>1, <2>2, <2>4 DEF UntornOK, Inside, Threads
<1> QED
  BY <1>1, <1>2, <1>3
-----------------------------------------------------------------------------
\* What a step of one thread that does not write or change the buffer keeps:
\* the buffer holds what it held if neither place is after the write.
LEMMA MoveKeeps ==
  ASSUME UntornOK, TypeOK, NEW t \in Threads, Runs(t), pc[t] # "idle",
         NEW place, Goto(t, place), pc[t] # "pop", place # "pop",
         UNCHANGED <<last, disorder, broken>>,
         Consecutive(buff', FirstByte(pc, last), next'),
         place \in Inside => buff' # <<>>,
         place = "write" => byte'[t] = last + 1
  PROVE  UntornOK'
<1>1. \A u \in Threads : u # t => pc[u] \notin Inside
  BY OtherOutside
<1>2. /\ pc' = [pc EXCEPT ![t] = place] /\ pc'[t] = place
      /\ \A u \in Threads : u # t => pc'[u] = pc[u]
  BY DEF Goto, TypeOK
<1>3. FirstByte(pc', last') = FirstByte(pc, last)
  <2>1. \A u \in Threads : pc[u] # "pop" /\ pc'[u] # "pop"
    BY <1>1, <1>2 DEF Inside
  <2> QED
    BY <2>1 DEF FirstByte
<1>4. pc'["main"] \in Inside => pc'["handler"] = "idle"
  BY <1>1, <1>2 DEF Runs, Threads
<1>5. \A u \in Threads : pc'[u] \in Inside => u = t
  BY <1>1, <1>2
<1>6. \A u \in Threads : pc'[u] \in Inside => buff' # <<>>
  BY <1>2, <1>5
<1>7. \A u \in Threads : pc'[u] = "write" => byte'[u] = last' + 1
  BY <1>2, <1>5 DEF Inside
<1> QED
  BY <1>3, <1>4, <1>6, <1>7 DEF UntornOK

\* The test of the loop: the last iteration is not begun.
LEMMA TestKeeps == ASSUME RadioInv, NEW t \in Threads, Test(t) PROVE RadioInv'
<1> USE DEF RadioInv
<1> DEFINE place == IF buff # <<>> /\ iters'[t] > 0 THEN "front" ELSE then[t]
<1>1. /\ pc[t] = "test" /\ iters[t] \in 1 .. MaxIters
      /\ then[t] \in {"idle", "clear"}
      /\ iters' = [iters EXCEPT ![t] = IF buff # <<>> THEN @ - 1 ELSE @]
      /\ pc' = [pc EXCEPT ![t] = place]
  BY RadioAssumption DEF Test, Goto, TypeOK, CountersOK
<1>2. iters'[t] = (IF buff # <<>> THEN iters[t] - 1 ELSE iters[t])
  BY <1>1 DEF TypeOK
<1>3. TypeOK'
  <2>1. iters' \in [Threads -> 0 .. MaxIters]
    BY <1>1, <1>2, RadioAssumption DEF TypeOK
  <2>2. pc' \in [Threads -> {"idle", "test", "front", "write", "pop", "clear"}]
    BY <1>1 DEF TypeOK
  <2> QED
    BY <2>1, <2>2 DEF Test, TypeOK
<1>4. CountersOK'
  BY <1>1, <1>2 DEF TypeOK, CountersOK, Inside
<1>5. ASSUME ~torn' PROVE UntornOK'
  <2>1. UntornOK /\ Runs(t) /\ Goto(t, place) /\ buff' = buff /\ next' = next
    BY <1>1, <1>5 DEF Test, Goto
  <2>2. place # "pop" /\ place # "write" /\ (place \in Inside => buff' # <<>>)
    BY <1>1, <2>1 DEF Inside
  <2>3. Consecutive(buff', FirstByte(pc, last), next')
    BY <2>1 DEF UntornOK
  <2> HIDE DEF place
  <2> QED
    BY <1>1, <2>1, <2>2, <2>3, MoveKeeps DEF Test
<1> QED
  BY <1>3, <1>4, <1>5

\* front() gives the byte after the last that was handed over.
LEMMA FrontKeeps == ASSUME RadioInv, NEW t \in Threads, Front(t) PROVE RadioInv'
<1> USE DEF RadioInv
<1>1. TypeOK'
  <2>1. CASE buff = <<>>
    BY <2>1 DEF Front, TypeOK
  <2>2. CASE buff # <<>>
    <3>1. Head(buff) \in 0 .. MaxBytes
      BY <2>2, HeadTailProperties, RadioAssumption DEF TypeOK
    <3> QED
      BY <2>2, <3>1 DEF Front, Goto, TypeOK
  <2> QED
    BY <2>1, <2>2
<1>2. CountersOK'
  BY DEF Front, Goto, TypeOK, CountersOK, Inside
<1>3. ASSUME ~torn' PROVE UntornOK'
  <2>1. UntornOK /\ Runs(t) /\ pc[t] = "front"
    BY <1>3 DEF Front
  <2>2. buff # <<>>
    BY <2>1 DEF UntornOK, Inside
  <2>3. Goto(t, "write") /\ byte'[t] = Head(buff)
    BY <2>2 DEF Front, TypeOK
  <2>4. FirstByte(pc, last) = last + 1
    BY <2>1, OtherOutside, FrontOfThread DEF Inside
  <2>5. Head(buff) = last + 1
    <3>1. last + 1 \in Nat /\ next \in Nat /\ buff \in Seq(1 .. MaxBytes)
      BY RadioAssumption DEF TypeOK
    <3>2. Consecutive(buff, last + 1, next)
      BY <2>1, <2>4 DEF UntornOK
    <3> QED
      BY <2>2, <3>1, <3>2, TailConsecutive
  <2>6. Consecutive(buff', FirstByte(pc, last), next')
    BY <2>1 DEF Front, UntornOK
  <2>7. UNCHANGED <<last, disorder, broken>> /\ buff' # <<>>
    BY <2>2 DEF Front
  <2> QED
    BY <2>1, <2>3, <2>5, <2>6, <2>7, MoveKeeps
<1> QED
  BY <1>1, <1>2, <1>3

\* A failed write queues behind what is there and leaves the byte in front.
LEMMA WriteErrorKeeps ==
  ASSUME RadioInv, NEW t \in Threads, WriteError(t) PROVE RadioInv'
<1> USE DEF RadioInv
<1>1. TypeOK'
  <2>1. pc' \in [Threads -> {"idle", "test", "front", "write", "pop", "clear"}]
    BY DEF WriteError, Goto, TypeOK
  <2> QED
    BY <2>1, QueueTyped DEF WriteError, locals, TypeOK
<1>2. CountersOK'
  BY DEF WriteError, Goto, locals, TypeOK, CountersOK, Inside
<1>3. ASSUME ~torn' PROVE UntornOK'
  <2>1. UntornOK /\ Runs(t) /\ pc[t] = "write" /\ Goto(t, "test") /\ Queue
    BY <1>3 DEF WriteError
  <2>2. Consecutive(buff', FirstByte(pc, last), next')
    BY <2>1, QueueConsecutive, FrontNat DEF UntornOK
  <2>3. UNCHANGED <<last, disorder, broken>> /\ "test" \notin Inside
    BY DEF WriteError, Inside
  <2> QED
    BY <2>1, <2>2, <2>3, MoveKeeps DEF Inside
<1> QED
  BY <1>1, <1>2, <1>3

\* The byte that is written is the next one, and stays in front until the pop.
LEMMA WriteOkKeeps ==
  ASSUME RadioInv, NEW t \in Threads, WriteOk(t) PROVE RadioInv'
<1> USE DEF RadioInv
<1>1. TypeOK'
  <2>1. pc' \in [Threads -> {"idle", "test", "front", "write", "pop", "clear"}]
    BY DEF WriteOk, Goto, TypeOK
  <2>2. last' \in 0 .. MaxBytes /\ disorder' \in BOOLEAN
    BY DEF WriteOk, TypeOK
  <2> QED
    BY <2>1, <2>2 DEF WriteOk, locals, TypeOK
<1>2. CountersOK'
  BY DEF WriteOk, Goto, locals, TypeOK, CountersOK, Inside
<1>3. ASSUME ~torn' PROVE UntornOK'
  <2>1. /\ UntornOK /\ Runs(t) /\ pc[t] = "write" /\ byte[t] = last + 1
        /\ last' = last + 1 /\ ~disorder'
        /\ UNCHANGED <<buff, next, byte, broken>>
    BY <1>3 DEF WriteOk, locals, UntornOK
  <2>2. \A u \in Threads : u # t => pc[u] \notin Inside
    BY <2>1, OtherOutside
  <2>3. pc'[t] = "pop" /\ \A u \in Threads : u # t => pc'[u] = pc[u]
    BY DEF WriteOk, Goto, TypeOK
  <2>4. FirstByte(pc, last) = last + 1 /\ FirstByte(pc', last') = last'
    BY <2>1, <2>2, <2>3, FrontOfThread DEF Inside
  <2>5. \A u \in Threads : pc'[u] \in Inside => u = t
    BY <2>2, <2>3
  <2>6. buff # <<>>
    BY <2>1 DEF UntornOK, Inside
  <2>7. pc'["main"] \in Inside => pc'["handler"] = "idle"
    BY <2>1, <2>3, <2>5 DEF Runs, Threads
  <2>8. \A u \in Threads : pc'[u] = "write" => byte'[u] = last' + 1
    BY <2>3, <2>5 DEF Inside
  <2> QED
    BY <2>1, <2>4, <2>6, <2>7, <2>8 DEF UntornOK
<1> QED
  BY <1>1, <1>2, <1>3

\* The pop removes the byte that was written.
LEMMA PopKeeps == ASSUME RadioInv, NEW t \in Threads, Pop(t) PROVE RadioInv'
<1> USE DEF RadioInv
<1>1. TypeOK'
  <2>1. CASE buff = <<>>
    BY <2>1 DEF Pop, locals, TypeOK
  <2>2. CASE buff # <<>>
    <3>1. Tail(buff) \in Seq(1 .. MaxBytes)
      BY <2>2, HeadTailProperties DEF TypeOK
    <3>2. pc' \in [Threads -> {"idle", "test", "front", "write", "pop", "clear"}]
      BY <2>2 DEF Pop, Goto, TypeOK
    <3> QED
      BY <2>2, <3>1, <3>2 DEF Pop, locals, TypeOK
  <2> QED
    BY <2>1, <2>2
<1>2. CountersOK'
  BY DEF Pop, Goto, locals, TypeOK, CountersOK, Inside
<1>3. ASSUME ~torn' PROVE UntornOK'
  <2>1. UntornOK /\ Runs(t) /\ pc[t] = "pop" /\ buff # <<>>
    BY <1>3 DEF Pop, UntornOK, Inside
  <2>2. /\ buff' = Tail(buff) /\ Goto(t, "test")
        /\ UNCHANGED <<next, last, byte, disorder, broken>>
    BY <2>1 DEF Pop, locals
  <2>3. \A u \in Threads : u # t => pc[u] \notin Inside
    BY <2>1, OtherOutside
  <2>4. pc'[t] = "test" /\ \A u \in Threads : u # t => pc'[u] = pc[u]
    BY <2>2 DEF Goto, TypeOK
  <2>5. FirstByte(pc, last) = last /\ FirstByte(pc', last') = last + 1
    BY <2>1, <2>2, <2>3, <2>4, FrontOfThread DEF Inside
  <2>6. Consecutive(buff', last + 1, next)
    <3>1. last \in Nat /\ next \in Nat /\ buff \in Seq(1 .. MaxBytes)
      BY RadioAssumption DEF TypeOK
    <3>2. Consecutive(buff, last, next)
      BY <2>1, <2>5 DEF UntornOK
    <3> QED
      BY <2>1, <2>2, <3>1, <3>2, TailConsecutive
  <2>7. \A u \in Threads : pc'[u] \notin Inside
    BY <2>3, <2>4 DEF Inside
  <2> QED
    BY <2>1, <2>2, <2>5, <2>6, <2>7 DEF UntornOK, Inside, Threads
<1> QED
  BY <1>1, <1>2, <1>3

\* Clearing the buffer drops all that was not handed over.
LEMMA ClearKeeps == ASSUME RadioInv, NEW t \in Threads, Clear(t) PROVE RadioInv'
<1> USE DEF RadioInv
<1>1. TypeOK'
  <2>1. pc' \in [Threads -> {"idle", "test", "front", "write", "pop", "clear"}]
    BY DEF Clear, Goto, TypeOK
  <2> QED
    BY <2>1 DEF Clear, locals, TypeOK
<1>2. CountersOK'
  BY DEF Clear, Goto, locals, TypeOK, CountersOK, Inside
<1>3. ASSUME ~torn' PROVE UntornOK'
  <2>1. UntornOK /\ Runs(t) /\ pc[t] = "clear"
    BY <1>3 DEF Clear
  <2>2. \A u \in Threads : pc[u] \notin Inside
    BY <2>1, OtherOutside DEF Inside
  <2>3. pc'[t] = "idle" /\ \A u \in Threads : u # t => pc'[u] = pc[u]
    BY DEF Clear, Goto, TypeOK
  <2>4. \A u \in Threads : pc'[u] \notin Inside
    BY <2>2, <2>3 DEF Inside
  <2>5. buff' = <<>> /\ last' = next /\ next' = next /\ next \in Nat
        /\ UNCHANGED <<disorder, broken>>
    BY RadioAssumption DEF Clear, TypeOK
  <2>6. FirstByte(pc', last') = next + 1
    BY <2>4, <2>5 DEF FirstByte, Inside
  <2>7. Consecutive(<<>>, next + 1, next)
    BY <2>5 DEF Consecutive
  <2> QED
    BY <2>1, <2>4, <2>5, <2>6, <2>7 DEF UntornOK, Inside, Threads
<1> QED
  BY <1>1, <1>2, <1>3

\* Every statement of either thread keeps the invariant.
LEMMA RadioStep == RadioInv /\ [Next]_vars => RadioInv'
<1> SUFFICES ASSUME RadioInv, [Next]_vars PROVE RadioInv'
  OBVIOUS
<1>1. CASE UNCHANGED vars
  BY <1>1 DEF vars, RadioInv, TypeOK, CountersOK, UntornOK
<1> QED
  BY <1>1, TransmitKeeps, BeginFlushKeeps, SigintKeeps, TestKeeps, FrontKeeps,
     WriteOkKeeps, WriteErrorKeeps, PopKeeps, ClearKeeps
     DEF Next, Flush, Undefined
-----------------------------------------------------------------------------
\* The inductive invariant of the output buffer holds in every behaviour.
THEOREM RadioCorrect == Spec => []RadioInv
BY RadioInit, RadioStep, PTL DEF Spec

\* The output half is well typed: in particular iters never falls below 0.
THEOREM RadioTypeCorrect == Spec => []TypeOK
BY RadioCorrect, PTL DEF RadioInv

\* Only a signal between the test and the pop of one byte can make a flush
\* repeat a byte, send it out of turn or touch an empty deque.
THEOREM OnlyTornFlushesFail == Spec => []SafeUnlessTorn
<1>1. RadioInv => SafeUnlessTorn
  BY DEF RadioInv, UntornOK, SafeUnlessTorn
<1> QED
  BY <1>1, RadioCorrect, PTL

\* Every step of the output half is a step, or a stutter, of the channel.
LEMMA StepImplements == RadioInv /\ [Next]_vars => [Channel!Next]_(Channel!vars)
<1> SUFFICES ASSUME RadioInv, [Next]_vars
             PROVE  [Channel!Next]_(Channel!vars)
  OBVIOUS
<1> USE DEF Channel!vars, Channel!Next
<1>1. CASE torn'
  BY <1>1 DEF Channel!Fault
<1>2. CASE ~torn' /\ (Transmit \/ Sigint)
  <2>1. Queue /\ last' = last /\ torn' = torn
    BY <1>2 DEF Transmit, Sigint, RadioInv, TypeOK
  <2> QED
    BY <2>1 DEF Queue, Channel!Queue
<1>3. ASSUME NEW t \in Threads, ~torn', WriteError(t)
      PROVE  [Channel!Next]_(Channel!vars)
  BY <1>3 DEF WriteError, Queue, Channel!Queue
<1>4. ASSUME NEW t \in Threads, ~torn', WriteOk(t)
      PROVE  [Channel!Next]_(Channel!vars)
  <2>1. UntornOK /\ TypeOK /\ Runs(t) /\ pc[t] = "write" /\ buff # <<>>
    BY <1>4 DEF WriteOk, RadioInv, UntornOK, Inside
  <2>2. FirstByte(pc, last) = last + 1
    BY <2>1, OtherOutside, FrontOfThread DEF Inside
  <2>3. last + 1 <= next
    <3>1. last + 1 \in Nat /\ next \in Nat /\ buff \in Seq(1 .. MaxBytes)
      BY <2>1, RadioAssumption DEF TypeOK
    <3> QED
      BY <2>1, <2>2, <3>1, TailConsecutive DEF UntornOK
  <2>4. last' = last + 1 /\ next' = next /\ torn' = torn
    BY <1>4, <2>1 DEF WriteOk, UntornOK
  <2> QED
    BY <2>1, <2>3, <2>4 DEF Channel!Hand, TypeOK
<1>5. ASSUME NEW t \in Threads, Clear(t)
      PROVE  [Channel!Next]_(Channel!vars)
  BY <1>5 DEF Clear, Channel!DropAll
<1>6. ASSUME NEW t \in Threads, Test(t) \/ Front(t) \/ Pop(t)
      PROVE  UNCHANGED Channel!vars
  BY <1>6 DEF Test, Front, Pop
<1>7. CASE BeginFlush \/ Undefined \/ UNCHANGED vars
  BY <1>7 DEF BeginFlush, Undefined, vars
<1> QED
  BY <1>1, <1>2, <1>3, <1>4, <1>5, <1>6, <1>7 DEF Next, Flush

\* Whatever writes fail and wherever signals fall, comms hands over what was
\* queued once and in order, unless it drops all of it or a flush was torn.
THEOREM RadioImplementsChannel == Spec => ChannelSpec
<1>1. Init => Channel!Init
  BY DEF Init, Channel!Init
<1> QED
  BY <1>1, StepImplements, RadioCorrect, PTL DEF Spec, ChannelSpec, Channel!Spec
=============================================================================
