------------------------------ MODULE RadioOut ------------------------------
(***************************************************************************)
(* The output half of src/comms.cpp: output_buff, and comms::flush one     *)
(* statement at a time, because the SIGINT handler (control::exit) may     *)
(* interrupt it, queue announcements, flush the same buffer and clear it.  *)
(* The handler runs on the one thread of the program: while it is active   *)
(* the interrupted main thread stands still.                               *)
(*                                                                         *)
(* A byte is its serial number, 1, 2, ..; an announcement queues one byte. *)
(***************************************************************************)
EXTENDS Integers, Sequences

CONSTANTS MaxBytes,   \* bound on the bytes queued
          MaxIters,   \* the initial value of iters in flush: 10000
          MaxSignals, \* number of SIGINTs
          MayFail     \* whether write() may return an error

ASSUME RadioAssumption ==
  /\ MaxBytes \in Nat /\ MaxSignals \in Nat
  /\ MaxIters \in Nat \ {0}
  /\ MayFail \in BOOLEAN

Threads == {"main", "handler"}

VARIABLES
  buff,     \* comms::output_buff
  next,     \* history: the serial number queued last
  last,     \* history: the serial number written or dropped last
  pc,       \* the statement each thread is at; idle is outside of flush
  byte,     \* flush's local byte
  iters,    \* flush's local iters
  then,     \* what follows the flush: idle, or the clearing of the buffer
  signals,  \* SIGINTs so far
  disorder, \* history: a byte was written twice, late or not in its turn
  torn,     \* history: a SIGINT fell between the test and the pop of a byte
  broken    \* front() or pop_front() of an empty deque: undefined behaviour

vars == <<buff, next, last, pc, byte, iters, then, signals, disorder, torn,
          broken>>
locals == <<byte, iters, then>>

\* A thread may run: the handler preempts the main thread, and nothing is
\* said of an execution after undefined behaviour.
Runs(t) == ~broken /\ (t = "main" => pc["handler"] = "idle")

\* comms::transmit; at the bound of the model it queues nothing.
Queue == IF next < MaxBytes
           THEN buff' = Append(buff, next + 1) /\ next' = next + 1
           ELSE UNCHANGED <<buff, next>>

Goto(t, place) == pc' = [pc EXCEPT ![t] = place]
-----------------------------------------------------------------------------
Init ==
  /\ buff = <<>> /\ next = 0 /\ last = 0 /\ signals = 0
  /\ pc = [t \in Threads |-> "idle"]
  /\ byte = [t \in Threads |-> 0]
  /\ iters = [t \in Threads |-> 0]
  /\ then = [t \in Threads |-> "idle"]
  /\ disorder = FALSE /\ torn = FALSE /\ broken = FALSE

\* The main thread announces something.
Transmit ==
  /\ Runs("main") /\ pc["main"] = "idle" /\ next < MaxBytes
  /\ Queue
  /\ UNCHANGED <<last, pc, signals, disorder, torn, broken>>
  /\ UNCHANGED locals

\* comms::loop, logging::loop and main flush; comms::reset and comms::exit
\* flush and then clear the buffer.
BeginFlush ==
  /\ Runs("main") /\ pc["main"] = "idle"
  /\ Goto("main", "test")
  /\ iters' = [iters EXCEPT !["main"] = MaxIters]
  /\ \E after \in {"idle", "clear"} : then' = [then EXCEPT !["main"] = after]
  /\ UNCHANGED <<buff, next, last, byte, signals, disorder, torn, broken>>

\* SIGINT: control::exit announces twice, flushes and clears.
Sigint ==
  /\ Runs("main") /\ signals < MaxSignals /\ signals' = signals + 1
  /\ Queue
  /\ Goto("handler", "test")
  /\ iters' = [iters EXCEPT !["handler"] = MaxIters]
  /\ then' = [then EXCEPT !["handler"] = "clear"]
  /\ torn' = (torn \/ pc["main"] \in {"front", "write", "pop"})
  /\ UNCHANGED <<last, byte, disorder, broken>>
-----------------------------------------------------------------------------
\* Fault variant: the loop has no bound on its iterations.
TestUncapped(t) ==
  /\ Runs(t) /\ pc[t] = "test"
  /\ Goto(t, IF buff # <<>> THEN "front" ELSE then[t])
  /\ UNCHANGED <<buff, next, last, byte, iters, then, signals, disorder, torn,
                 broken>>

\* Fault variant: the count is tested before it is decremented.
TestUntilNegative(t) ==
  /\ Runs(t) /\ pc[t] = "test"
  /\ iters' = [iters EXCEPT ![t] = IF buff # <<>> THEN @ - 1 ELSE @]
  /\ Goto(t, IF buff # <<>> /\ iters[t] >= 0 THEN "front" ELSE then[t])
  /\ UNCHANGED <<buff, next, last, byte, then, signals, disorder, torn, broken>>

\* while (output_buff.size() > 0 && --iters > 0)
Test(t) ==
  /\ Runs(t) /\ pc[t] = "test"
  /\ iters' = [iters EXCEPT ![t] = IF buff # <<>> THEN @ - 1 ELSE @]
  /\ Goto(t, IF buff # <<>> /\ iters'[t] > 0 THEN "front" ELSE then[t])
  /\ UNCHANGED <<buff, next, last, byte, then, signals, disorder, torn, broken>>

\* byte = output_buff.front()
Front(t) ==
  /\ Runs(t) /\ pc[t] = "front"
  /\ IF buff = <<>>
       THEN broken' = TRUE /\ UNCHANGED <<pc, byte>>
       ELSE /\ byte' = [byte EXCEPT ![t] = Head(buff)]
            /\ Goto(t, "write") /\ UNCHANGED broken
  /\ UNCHANGED <<buff, next, last, iters, then, signals, disorder, torn>>

\* write() takes the byte.
WriteOk(t) ==
  /\ Runs(t) /\ pc[t] = "write"
  /\ disorder' = (disorder \/ byte[t] # last + 1)
  /\ last' = byte[t]
  /\ Goto(t, "pop")
  /\ UNCHANGED <<buff, next, signals, torn, broken>> /\ UNCHANGED locals

\* Fault variant: a byte whose write failed is popped like any other.
WriteErrorPops(t) ==
  /\ MayFail /\ Runs(t) /\ pc[t] = "write"
  /\ Queue /\ Goto(t, "pop")
  /\ UNCHANGED <<last, signals, disorder, torn, broken>> /\ UNCHANGED locals

\* write() fails: the announcement of it is queued too, the byte is tried
\* again in the next iteration.
WriteError(t) ==
  /\ MayFail /\ Runs(t) /\ pc[t] = "write"
  /\ Queue /\ Goto(t, "test")
  /\ UNCHANGED <<last, signals, disorder, torn, broken>> /\ UNCHANGED locals

\* output_buff.pop_front()
Pop(t) ==
  /\ Runs(t) /\ pc[t] = "pop"
  /\ IF buff = <<>>
       THEN broken' = TRUE /\ UNCHANGED <<buff, pc>>
       ELSE buff' = Tail(buff) /\ Goto(t, "test") /\ UNCHANGED broken
  /\ UNCHANGED <<next, last, signals, disorder, torn>> /\ UNCHANGED locals

\* output_buff.clear(), with which reset and exit end.
Clear(t) ==
  /\ Runs(t) /\ pc[t] = "clear"
  /\ buff' = <<>> /\ last' = next
  /\ Goto(t, "idle")
  /\ UNCHANGED <<next, signals, disorder, torn, broken>> /\ UNCHANGED locals

Flush(t) == \/ Test(t) \/ Front(t) \/ WriteOk(t) \/ WriteError(t)
            \/ Pop(t) \/ Clear(t)

\* Undefined behaviour ends what the model describes.
Undefined == broken /\ UNCHANGED vars

Next == Transmit \/ BeginFlush \/ Sigint \/ Undefined
          \/ \E t \in Threads : Flush(t)

\* A flush that has begun goes on; nobody need announce or flush.
Spec == Init /\ [][Next]_vars /\ \A t \in Threads : WF_vars(Flush(t))
-----------------------------------------------------------------------------
TypeOK ==
  /\ buff \in Seq(1 .. MaxBytes) /\ next \in 0 .. MaxBytes
  /\ last \in 0 .. MaxBytes /\ signals \in 0 .. MaxSignals
  /\ pc \in [Threads -> {"idle", "test", "front", "write", "pop", "clear"}]
  /\ byte \in [Threads -> 0 .. MaxBytes]
  /\ iters \in [Threads -> 0 .. MaxIters]
  /\ then \in [Threads -> {"idle", "clear"}]
  /\ disorder \in BOOLEAN /\ torn \in BOOLEAN /\ broken \in BOOLEAN

\* Every byte is written once and in its turn, whatever writes fail and
\* wherever a SIGINT falls, except between the test of the loop and the pop:
\* only there can the handler make a flush repeat a byte or touch an empty
\* deque.
SafeUnlessTorn == broken \/ disorder => torn

\* A flush returns even if the device fails for ever and each failure adds
\* to the buffer.
FlushReturns ==
  \A t \in Threads : pc[t] = "test" ~> pc[t] = "idle" \/ broken

\* The flush implements the channel: a SIGINT that does not tear a flush, or
\* falls between two of its iterations, keeps what the channel promises.
Channel == INSTANCE RadioChannel WITH queued <- next, handed <- last,
                                      faulty <- torn
ChannelSpec == Channel!Spec
=============================================================================
