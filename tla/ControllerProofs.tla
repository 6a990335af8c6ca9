-------------------------- MODULE ControllerProofs --------------------------
(***************************************************************************)
(* Theorems about Controller for every ping period, batch, stall and       *)
(* number of signals.  The inductive invariant adds to the properties what *)
(* the place of the main thread tells: between a reset command and its     *)
(* flag the last request is the reset, unless a signal raced it, and there *)
(* is no log file, open or failed, only before the first step and between  *)
(* two files of a reset.                                                   *)
(***************************************************************************)
EXTENDS Controller, SequenceTheorems, TLAPS

\* An unraced request to exit is still in the flag.
StopInv ==
  /\ order = "exit" /\ ~raced => exit_flag
  /\ pc = "rst_flags" /\ ~raced => order = "reset"

\* There is no log file only before logging::init.
FileInv ==
  /\ log \in {"closed", "open", "failed"}
  /\ log = "closed" => pc \in {"init_log", "rst_log_open", "killed"}

ControlInv == StopInv /\ FileInv /\ LogCaughtUp

\* The invariant holds before control::init (src/control.cpp:24) begins.
LEMMA ControlInit == Init => ControlInv
BY DEF Init, ControlInv, StopInv, FileInv, LogCaughtUp

\* Each action of the main thread that leaves the request and the flag alone
\* and does not go to rst_flags keeps the request in the flag.
LEMMA QuietKeepsStop ==
  ASSUME StopInv, UNCHANGED stopVars, pc' # "rst_flags"
  PROVE  StopInv'
BY DEF StopInv, stopVars

\* No step forgets a request to exit but a raced reset (src/control.cpp:97).
LEMMA StopStep == StopInv /\ [Next]_vars => StopInv'
<1> SUFFICES ASSUME StopInv, [Next]_vars PROVE StopInv'
  OBVIOUS
<1> USE DEF StopInv
<1>1. CASE InitLogging
  BY <1>1 DEF InitLogging
<1>2. CASE InitComms
  BY <1>2 DEF InitComms, OpenDevice, Exit
<1>3. CASE InitDone \/ InitFailed \/ Top \/ Receive
  BY <1>3, QuietKeepsStop DEF InitDone, InitFailed, Top, Receive
<1>4. CASE CheckPing
  BY <1>4 DEF CheckPing, Exit
<1>5. CASE Ping \/ Reboot \/ Abort \/ Other
  BY <1>5, QuietKeepsStop DEF Ping, Reboot, Abort, Other, Dispatch
<1>6. CASE Shutdown
  BY <1>6 DEF Shutdown, Dispatch, Exit
<1>7. CASE Reset
  BY <1>7 DEF Reset, Dispatch
<1>8. CASE ResetFlags
  BY <1>8 DEF ResetFlags
<1>9. CASE ResetOpen
  BY <1>9 DEF ResetOpen, OpenDevice, Exit
<1>10. CASE ResetClose \/ EndBatch \/ Logs \/ Sleep
  BY <1>10, QuietKeepsStop DEF ResetClose, EndBatch, Logs, Sleep
<1>14. CASE ResetLogFlush \/ ResetLogClose \/ ResetLogOpen
  BY <1>14, QuietKeepsStop DEF ResetLogFlush, ResetLogClose, ResetLogOpen
<1>11. CASE Closing \/ FinalFlush \/ Killed
  BY <1>11, QuietKeepsStop DEF Closing, FinalFlush, Killed
<1>12. CASE Sigint
  BY <1>12 DEF Sigint, Exit
<1>13. CASE Ended \/ UNCHANGED vars
  BY <1>13 DEF Ended, vars
<1> QED
  BY <1>1, <1>2, <1>3, <1>4, <1>5, <1>6, <1>7, <1>8, <1>9, <1>10, <1>11,
     <1>12, <1>13, <1>14 DEF Next, MainThread

\* No step returns the log file to what it was before logging::init.
LEMMA FileStep == FileInv /\ [Next]_vars => FileInv'
<1> SUFFICES ASSUME FileInv, [Next]_vars PROVE FileInv'
  OBVIOUS
<1> USE DEF FileInv, fileVars
<1>1. CASE InitLogging \/ InitComms \/ InitDone \/ InitFailed
  BY <1>1 DEF InitLogging, InitComms, InitDone, InitFailed
<1>2. CASE Top \/ CheckPing \/ Receive
  BY <1>2 DEF Top, CheckPing, Receive
<1>3. CASE Ping \/ Shutdown \/ Reboot \/ Abort \/ Other \/ Reset
  BY <1>3 DEF Ping, Shutdown, Reboot, Abort, Other, Reset, Dispatch
<1>4. CASE ResetFlags \/ ResetClose \/ ResetOpen
  BY <1>4 DEF ResetFlags, ResetClose, ResetOpen
<1>7. CASE ResetLogFlush \/ ResetLogClose \/ ResetLogOpen
  BY <1>7 DEF ResetLogFlush, ResetLogClose, ResetLogOpen, LogFlush
<1>5. CASE EndBatch \/ Logs \/ Sleep \/ Closing \/ FinalFlush
  BY <1>5 DEF EndBatch, Logs, Sleep, Closing, FinalFlush, LogFlush
<1>6. CASE Sigint \/ Killed \/ Ended \/ UNCHANGED vars
  BY <1>6 DEF Sigint, Killed, Ended, vars
<1> QED
  BY <1>1, <1>2, <1>3, <1>4, <1>5, <1>6, <1>7 DEF Next, MainThread

\* What follows the flushes of src/logging.cpp:86 keeps the log caught up.
LEMMA LogStep == LogCaughtUp /\ [Next]_vars => LogCaughtUp'
<1> SUFFICES ASSUME LogCaughtUp, [Next]_vars PROVE LogCaughtUp'
  OBVIOUS
<1> USE DEF LogCaughtUp
<1>1. CASE InitLogging \/ InitComms \/ InitDone \/ InitFailed
  BY <1>1 DEF InitLogging, InitComms, InitDone, InitFailed
<1>2. CASE Top \/ CheckPing \/ Receive
  BY <1>2 DEF Top, CheckPing, Receive
<1>3. CASE Ping \/ Shutdown \/ Reboot \/ Abort \/ Other \/ Reset
  BY <1>3 DEF Ping, Shutdown, Reboot, Abort, Other, Reset, Dispatch
<1>4. CASE ResetFlags \/ ResetClose \/ ResetOpen
  BY <1>4 DEF ResetFlags, ResetClose, ResetOpen
<1>8. CASE ResetLogFlush \/ ResetLogClose \/ ResetLogOpen
  BY <1>8 DEF ResetLogFlush, ResetLogClose, ResetLogOpen
<1>5. CASE EndBatch \/ Logs \/ Sleep \/ Closing \/ FinalFlush
  BY <1>5 DEF EndBatch, Logs, Sleep, Closing, FinalFlush
<1>6. CASE Sigint
  BY <1>6 DEF Sigint
<1>7. CASE Killed \/ Ended \/ UNCHANGED vars
  BY <1>7 DEF Killed, Ended, vars
<1> QED
  BY <1>1, <1>2, <1>3, <1>4, <1>5, <1>6, <1>7, <1>8 DEF Next, MainThread

\* The inductive invariant of requests, log file and log buffer holds in every
\* reachable state.
THEOREM ControlCorrect == Spec => []ControlInv
BY ControlInit, StopStep, FileStep, LogStep, PTL DEF Spec, ControlInv

\* Whatever commands, device errors and timeouts an iteration meets, the
\* loop of src/main.cpp:62 does not go round again after a request to exit,
\* unless a SIGINT fell between a reset command and its flag.
THEOREM StopsWhenAsked == Spec => StopHonoured
<1>1. ControlInv /\ [Next]_vars => (NewIteration => order # "exit" \/ raced)
  <2> SUFFICES ASSUME ControlInv, [Next]_vars, NewIteration
               PROVE  order # "exit" \/ raced
    OBVIOUS
  <2>1. Top
    BY DEF NewIteration, Next, MainThread, InitLogging, InitComms, InitDone,
           InitFailed, CheckPing, Receive, Ping, Shutdown, Reboot, Abort,
           Other, Reset, Dispatch, ResetFlags, ResetClose, ResetOpen,
           ResetLogFlush, ResetLogClose, ResetLogOpen, EndBatch, Logs, Sleep, Closing, FinalFlush, Sigint,
           Killed, Ended, vars, Stopped
  <2>2. ~exit_flag
    BY <2>1 DEF Top, NewIteration
  <2> QED
    BY <2>2 DEF ControlInv, StopInv
<1> QED
  BY <1>1, ControlCorrect, PTL DEF Spec, StopHonoured

\* Before each sleep of control::loop the log stream has been handed every
\* announcement but those of a later SIGINT (src/logging.cpp:86).
THEOREM LogIsCaughtUp == Spec => []LogCaughtUp
<1>1. ControlInv => LogCaughtUp
  BY DEF ControlInv
<1> QED
  BY <1>1, ControlCorrect, PTL

\* No reset, exit or signal makes the log lose bytes: only a file that could
\* not be opened or written does (src/logging.cpp:90, 114).
THEOREM OnlyFailureLoses == Spec => LostOnlyByFailure
<1>1. ControlInv /\ [Next]_vars => (lost' => lost \/ "failed" \in {log, log'})
  <2> SUFFICES ASSUME ControlInv, [Next]_vars, lost'
               PROVE  lost \/ "failed" \in {log, log'}
    OBVIOUS
  <2> USE DEF ControlInv, FileInv, LogFlush, fileVars
  <2>1. CASE InitLogging \/ InitComms \/ InitDone \/ InitFailed
    BY <2>1 DEF InitLogging, InitComms, InitDone, InitFailed
  <2>2. CASE Top \/ CheckPing \/ Receive
    BY <2>2 DEF Top, CheckPing, Receive
  <2>3. CASE Ping \/ Shutdown \/ Reboot \/ Abort \/ Other \/ Reset
    BY <2>3 DEF Ping, Shutdown, Reboot, Abort, Other, Reset, Dispatch
  <2>4. CASE ResetFlags \/ ResetClose \/ ResetOpen
    BY <2>4 DEF ResetFlags, ResetClose, ResetOpen
  <2>5. CASE ResetLogFlush \/ Logs \/ Closing
    <3>1. lost' => lost \/ log # "open" \/ log' = "failed"
      BY <2>5 DEF ResetLogFlush, Logs, Closing
    <3>2. log # "closed"
      BY <2>5 DEF ResetLogFlush, Logs, Closing
    <3> QED
      BY <3>1, <3>2
  <2>6. CASE ResetLogClose \/ ResetLogOpen \/ EndBatch \/ Sleep \/ FinalFlush
    BY <2>6 DEF ResetLogClose, ResetLogOpen, EndBatch, Sleep, FinalFlush
  <2>7. CASE Sigint \/ Killed \/ Ended \/ UNCHANGED vars
    BY <2>7 DEF Sigint, Killed, Ended, vars
  <2> QED
    BY <2>1, <2>2, <2>3, <2>4, <2>5, <2>6, <2>7 DEF Next, MainThread
<1> QED
  BY <1>1, ControlCorrect, PTL DEF Spec, LostOnlyByFailure
-----------------------------------------------------------------------------
\* The bounds on the silence are numbers, and Bound is below the cut.
LEMMA BoundsAreNat == Bound \in Nat /\ Cap \in Nat /\ Bound <= Cap
BY ControllerAssumption DEF Bound, Cap

\* Time passes up to the cut.
LEMMA ElapseType ==
  ASSUME silence \in 0 .. Cap, NEW d \in Nat, Elapse(d)
  PROVE  silence' \in 0 .. Cap /\ silence' <= silence + d
BY BoundsAreNat DEF Elapse

\* Waiting for the device adds at most MaxStall to the silence.
LEMMA StallType ==
  ASSUME silence \in 0 .. Cap, Stall
  PROVE  silence' \in 0 .. Cap /\ silence' <= silence + MaxStall
<1>1. PICK d \in 0 .. MaxStall : Elapse(d)
  BY DEF Stall
<1> QED
  BY <1>1, ElapseType, BoundsAreNat, ControllerAssumption

\* comms::flush keeps the types and adds at most MaxStall to the silence.
LEMMA FlushType ==
  ASSUME TypeOK, Flush
  PROVE  /\ silence' \in 0 .. Cap /\ silence' <= silence + MaxStall
         /\ unlogged' \in BOOLEAN
BY StallType DEF Flush, TypeOK

\* control::exit keeps the types and adds at most MaxStall to the silence.
LEMMA ExitType ==
  ASSUME TypeOK, Exit
  PROVE  /\ silence' \in 0 .. Cap /\ exit_flag' = TRUE /\ order' = "exit"
         /\ unlogged' = TRUE
BY FlushType DEF Exit

\* comms::init keeps the types and adds at most MaxStall to the silence, or
\* makes the controller exit.
LEMMA OpenType ==
  ASSUME TypeOK, OpenDevice
  PROVE  /\ silence' \in 0 .. Cap
         /\ exit_flag' \in BOOLEAN /\ order' \in {"none", "exit", "reset"}
         /\ unlogged' = TRUE
         /\ device' \in {"open", "failed"}
         /\ ~exit_flag' => silence' <= silence + MaxStall
<1>1. CASE /\ device' = "open" /\ unlogged' = TRUE /\ Stall
           /\ UNCHANGED <<exit_flag, order>>
  <2>1. silence' \in 0 .. Cap /\ silence' <= silence + MaxStall
    BY <1>1, StallType DEF TypeOK
  <2> QED
    BY <1>1, <2>1 DEF TypeOK
<1>2. CASE /\ device' = "open" /\ unlogged' = TRUE
           /\ exit_flag' = TRUE /\ order' = "exit"
           /\ \E d \in 0 .. 5 * MaxStall : Elapse(d)
  <2>1. PICK d \in 0 .. 5 * MaxStall : Elapse(d)
    BY <1>2
  <2>2. d \in Nat
    BY ControllerAssumption
  <2>3. silence' \in 0 .. Cap
    BY <2>1, <2>2, ElapseType DEF TypeOK
  <2> QED
    BY <1>2, <2>3
<1>3. CASE /\ device' = "failed" /\ unlogged' = TRUE
           /\ UNCHANGED <<exit_flag, order, silence>>
  <2>1. silence' <= silence + MaxStall
    BY <1>3, ControllerAssumption, BoundsAreNat DEF TypeOK
  <2> QED
    BY <1>3, <2>1 DEF TypeOK
<1> QED
  BY <1>1, <1>2, <1>3 DEF OpenDevice

\* Dispatching a command shortens the batch by it.
LEMMA DispatchType ==
  ASSUME TypeOK, NEW c, Dispatch(c)
  PROVE  /\ batch' \in Seq(Commands) /\ Len(batch') = Len(batch) - 1
         /\ Len(batch') <= MaxBatch /\ unlogged' = TRUE
BY ControllerAssumption DEF Dispatch, TypeOK

\* comms::loop receives a batch of at most MaxBatch commands.
LEMMA ReceiveType ==
  ASSUME Receive
  PROVE  batch' \in Seq(Commands) /\ Len(batch') <= MaxBatch
<1>1. CASE device = "open"
  <2>1. PICK n \in 0 .. MaxBatch : batch' \in [1 .. n -> Commands]
    BY <1>1 DEF Receive
  <2> QED
    BY <2>1, ControllerAssumption
<1>2. CASE device # "open"
  BY <1>2, EmptySeq, ControllerAssumption DEF Receive
<1> QED
  BY <1>1, <1>2

\* Every step keeps the types, the time within its cut and the batch within
\* its length.
LEMMA TypeStep == TypeOK /\ [Next]_vars => TypeOK'
<1> SUFFICES ASSUME TypeOK, [Next]_vars PROVE TypeOK'
  OBVIOUS
<1>a. "init_log" \in Places /\ "init_comms" \in Places
      /\ "init_done" \in Places /\ "init_failed" \in Places
      /\ "top" \in Places /\ "check" \in Places /\ "receive" \in Places
      /\ "dispatch" \in Places /\ "logs" \in Places /\ "sleep" \in Places
      /\ "rst_flags" \in Places /\ "rst_close" \in Places
      /\ "rst_open" \in Places /\ "rst_log" \in Places
      /\ "rst_log_close" \in Places /\ "rst_log_open" \in Places
      /\ "closing" \in Places /\ "final_flush" \in Places
      /\ "done" \in Places /\ "killed" \in Places
  BY DEF Places, InitPlaces, LoopPlaces, ResetPlaces, LastPlaces, Stopped
<1> USE <1>a DEF TypeOK, fileVars, stopVars
<1> HIDE DEF Places
<1>1. CASE InitLogging
  BY <1>1 DEF InitLogging
<1>2. CASE InitComms
  BY <1>2, OpenType DEF InitComms
<1>3. CASE InitDone
  BY <1>3, BoundsAreNat DEF InitDone
<1>4. CASE InitFailed \/ Top
  <2>1. pc' \in Places
    BY <1>4 DEF InitFailed, Top
  <2>2. CASE InitFailed
    BY <2>1, <2>2 DEF InitFailed
  <2>3. CASE Top
    BY <2>1, <2>3 DEF Top
  <2> QED
    BY <1>4, <2>2, <2>3
<1>5. CASE CheckPing
  <2>1. CASE silence > PingPeriod
    <3>1. Exit /\ pc' = "receive"
      BY <1>5, <2>1 DEF CheckPing
    <3>2. exit_flag' \in BOOLEAN /\ order' \in {"none", "exit", "reset"}
          /\ unlogged' \in BOOLEAN
      BY <3>1, ExitType
    <3>3. silence' \in 0 .. Cap
      BY <3>1, ExitType
    <3> QED
      BY <1>5, <3>1, <3>2, <3>3 DEF CheckPing
  <2>2. CASE ~(silence > PingPeriod)
    BY <1>5, <2>2 DEF CheckPing
  <2> QED
    BY <2>1, <2>2
<1>6. CASE Receive
  BY <1>6, ReceiveType, StallType DEF Receive
<1>7. CASE Ping
  BY <1>7, DispatchType, BoundsAreNat DEF Ping, Dispatch
<1>8. CASE Shutdown
  BY <1>8, DispatchType, ExitType DEF Shutdown, Dispatch
<1>9. CASE Reboot
  BY <1>9, DispatchType, StallType DEF Reboot, Dispatch
<1>10. CASE Abort \/ Other \/ Reset
  BY <1>10, DispatchType DEF Abort, Other, Reset, Dispatch
<1>11. CASE ResetFlags
  BY <1>11 DEF ResetFlags
<1>12. CASE ResetClose
  BY <1>12, FlushType DEF ResetClose
<1>13. CASE ResetOpen
  BY <1>13, OpenType DEF ResetOpen
<1>14. CASE ResetLogFlush
  BY <1>14 DEF ResetLogFlush, LogFlush
<1>23. CASE ResetLogClose \/ ResetLogOpen
  BY <1>23 DEF ResetLogClose, ResetLogOpen
<1>15. CASE EndBatch
  BY <1>15, FlushType DEF EndBatch
<1>16. CASE Logs
  BY <1>16, StallType DEF Logs, LogFlush
<1>17. CASE Sleep
  BY <1>17, ElapseType, ControllerAssumption DEF Sleep
<1>18. CASE Closing
  BY <1>18 DEF Closing, LogFlush
<1>19. CASE FinalFlush
  BY <1>19, FlushType DEF FinalFlush
<1>20. CASE Sigint
  <2>1. Exit
    BY <1>20 DEF Sigint
  <2>2. exit_flag' \in BOOLEAN /\ order' \in {"none", "exit", "reset"}
        /\ unlogged' \in BOOLEAN
    BY <2>1, ExitType
  <2>3. silence' \in 0 .. Cap
    BY <2>1, ExitType
  <2>4. raced' \in BOOLEAN /\ late' \in BOOLEAN
    BY <1>20 DEF Sigint
  <2>5. signals' \in 0 .. MaxSignals
    BY <1>20, ControllerAssumption DEF Sigint
  <2> QED
    BY <1>20, <2>2, <2>3, <2>4, <2>5 DEF Sigint
<1>21. CASE Killed
  BY <1>21 DEF Killed
<1>22. CASE Ended \/ UNCHANGED vars
  BY <1>22 DEF Ended, vars
<1> QED
  BY <1>1, <1>2, <1>3, <1>4, <1>5, <1>6, <1>7, <1>8, <1>9, <1>10, <1>11,
     <1>12, <1>13, <1>14, <1>15, <1>16, <1>17, <1>18, <1>19, <1>20, <1>21,
     <1>22, <1>23 DEF Next, MainThread

\* The state of the controller is well typed in every reachable state: the
\* main thread of src/main.cpp:30 is at one of its places, with a batch of
\* at most MaxBatch commands.
THEOREM ControllerTypeCorrect == Spec => []TypeOK
<1>1. Init => TypeOK
  <2> SUFFICES ASSUME Init PROVE TypeOK
    OBVIOUS
  <2>1. pc \in Places
    BY DEF Init, Places, InitPlaces
  <2>2. batch \in Seq(Commands) /\ Len(batch) <= MaxBatch
    BY EmptySeq, ControllerAssumption DEF Init
  <2>3. silence \in 0 .. Cap /\ signals \in 0 .. MaxSignals
    BY BoundsAreNat, ControllerAssumption DEF Init
  <2> QED
    BY <2>1, <2>2, <2>3 DEF Init, TypeOK
<1> QED
  BY <1>1, TypeStep, PTL DEF Spec
-----------------------------------------------------------------------------
\* What n commands of the batch may have added to the silence by the time
\* that all but n of those dispatched are over: two stalls each.
Used(n) == (MaxBatch - Len(batch) - n) * (2 * MaxStall)

\* How long the silence may be at each place, unless an exit is pending or
\* was taken back: an iteration that goes on has passed the check.
SilenceInv ==
  /\ pc \in ResetPlaces => Len(batch) < MaxBatch
  /\ ~exit_flag /\ ~rescinded =>
       /\ pc \in {"top", "check"} => silence <= Bound
       /\ pc = "receive" => silence <= PingPeriod
       /\ pc = "dispatch" => silence <= PingPeriod + MaxStall + Used(0)
       /\ pc \in {"rst_flags", "rst_close"} =>
            silence <= PingPeriod + MaxStall + Used(1)
       /\ pc = "rst_open" => silence <= PingPeriod + MaxStall + Used(1) + MaxStall
       /\ pc \in {"rst_log", "rst_log_close", "rst_log_open"} =>
            silence <= PingPeriod + MaxStall + Used(1) + 2 * MaxStall
       /\ pc = "logs" =>
            silence <= PingPeriod + MaxBatch * (2 * MaxStall) + 2 * MaxStall
       /\ pc = "sleep" =>
            silence <= PingPeriod + MaxBatch * (2 * MaxStall) + 3 * MaxStall

\* One command more is one allowance more.
LEMMA TimesSucc ==
  ASSUME NEW k \in Nat, NEW w \in Nat
  PROVE  k * w \in Nat /\ (k + 1) * w = k * w + w
OBVIOUS

\* More commands have a larger allowance.
LEMMA TimesMono ==
  ASSUME NEW j \in Nat, NEW k \in Nat, NEW w \in Nat, j <= k
  PROVE  j * w \in Nat /\ k * w \in Nat /\ j * w <= k * w
<1>1. k - j \in Nat /\ (k - j) * w \in Nat /\ j * w \in Nat
  OBVIOUS
<1>2. k * w = j * w + (k - j) * w
  BY <1>1
<1> QED
  BY <1>1, <1>2

\* The allowance grows by two stalls with each command that is dispatched.
LEMMA UsedGrows ==
  ASSUME TypeOK, NEW c, Dispatch(c)
  PROVE  /\ Used(0) \in Nat /\ Len(batch') < MaxBatch
         /\ Used(0)' = Used(0) + 2 * MaxStall /\ Used(1)' = Used(0)
<1>1. Len(batch) \in Nat /\ Len(batch) <= MaxBatch
      /\ Len(batch') = Len(batch) - 1
  BY DispatchType, LenProperties DEF TypeOK
<1> DEFINE k == MaxBatch - Len(batch)
           w == 2 * MaxStall
<1>2. k \in Nat /\ w \in Nat
  BY <1>1, ControllerAssumption
<1>3. k * w \in Nat /\ (k + 1) * w = k * w + w
  BY <1>2, TimesSucc
<1>4. k - 0 = k /\ MaxBatch - Len(batch') - 0 = k + 1
      /\ MaxBatch - Len(batch') - 1 = k
  BY <1>1, ControllerAssumption
<1> QED
  BY <1>1, <1>3, <1>4, ControllerAssumption DEF Used

\* In a reset, the allowance before the command of the reset and after it.
LEMMA UsedInReset ==
  ASSUME TypeOK, Len(batch) < MaxBatch
  PROVE  Used(1) \in Nat /\ Used(0) = Used(1) + 2 * MaxStall
<1>1. Len(batch) \in Nat
  BY LenProperties DEF TypeOK
<1> DEFINE k == MaxBatch - Len(batch) - 1
           w == 2 * MaxStall
<1>2. k \in Nat /\ w \in Nat
  BY <1>1, ControllerAssumption
<1>3. k * w \in Nat /\ (k + 1) * w = k * w + w
  BY <1>2, TimesSucc
<1>4. MaxBatch - Len(batch) - 0 = k + 1
  BY <1>1, ControllerAssumption
<1> QED
  BY <1>3, <1>4 DEF Used

\* The allowance never exceeds that of a whole batch.
LEMMA UsedBounded ==
  ASSUME TypeOK, NEW n \in {0, 1}, n + Len(batch) <= MaxBatch
  PROVE  /\ Used(n) \in Nat /\ MaxBatch * (2 * MaxStall) \in Nat
         /\ Used(n) <= MaxBatch * (2 * MaxStall)
<1>1. Len(batch) \in Nat
  BY LenProperties DEF TypeOK
<1> DEFINE k == MaxBatch - Len(batch) - n
           w == 2 * MaxStall
<1>2. k \in Nat /\ w \in Nat /\ k <= MaxBatch
  BY <1>1, ControllerAssumption
<1> QED
  BY <1>2, TimesMono, ControllerAssumption DEF Used

\* Bound is the period, parse, the allowance of a whole batch, two flushes and
\* a nap.
LEMMA BoundSplits ==
  /\ Bound = PingPeriod + MaxBatch * (2 * MaxStall) + 3 * MaxStall + MaxNap
  /\ MaxBatch * (2 * MaxStall) \in Nat
BY ControllerAssumption DEF Bound

\* No step spends more than the allowance of its place in the iteration.
LEMMA SilenceStep == TypeOK /\ SilenceInv /\ [Next]_vars => SilenceInv'
<1> SUFFICES ASSUME TypeOK, SilenceInv, [Next]_vars PROVE SilenceInv'
  OBVIOUS
<1> USE ControllerAssumption
<1>a. silence \in Nat /\ Len(batch) \in Nat /\ batch \in Seq(Commands)
      /\ Len(batch) <= MaxBatch /\ Bound \in Nat /\ Cap \in Nat
  BY BoundsAreNat, LenProperties DEF TypeOK
<1>1. CASE InitLogging \/ InitComms \/ InitFailed
  BY <1>1 DEF InitLogging, InitComms, InitFailed, SilenceInv, ResetPlaces
<1>2. CASE InitDone
  BY <1>2, <1>a DEF InitDone, SilenceInv, ResetPlaces
<1>3. CASE Top
  BY <1>3 DEF Top, SilenceInv, ResetPlaces, stopVars
<1>4. CASE CheckPing
  BY <1>4, <1>a DEF CheckPing, Exit, SilenceInv, ResetPlaces
<1>5. CASE Receive
  <2>1. batch' \in Seq(Commands) /\ Len(batch') <= MaxBatch
    BY <1>5, ReceiveType
  <2>2. Len(batch') \in Nat
    BY <2>1, LenProperties
  <2>3. MaxBatch - Len(batch') - 0 \in Nat
    BY <2>1, <2>2
  <2>4. Used(0)' \in Nat
    BY <2>3, TimesSucc DEF Used
  <2>5. silence' <= silence + MaxStall /\ silence' \in Nat
    BY <1>5, StallType, <1>a DEF Receive, TypeOK
  <2> QED
    BY <1>5, <1>a, <2>4, <2>5 DEF Receive, SilenceInv, ResetPlaces, stopVars
<1>6. CASE Ping
  <2>1. silence' = 0 /\ pc' = "dispatch" /\ Used(0)' \in Nat
    BY <1>6, UsedGrows DEF Ping, Dispatch
  <2> QED
    BY <2>1 DEF SilenceInv, ResetPlaces
<1>7. CASE Shutdown
  BY <1>7 DEF Shutdown, Dispatch, Exit, SilenceInv, ResetPlaces
<1>8. CASE Reboot
  <2>1. silence' <= silence + MaxStall /\ silence' \in Nat
    BY <1>8, StallType, <1>a DEF Reboot, TypeOK
  <2>2. Used(0)' = Used(0) + 2 * MaxStall /\ Used(0) \in Nat
    BY <1>8, UsedGrows DEF Reboot
  <2> QED
    BY <1>8, <1>a, <2>1, <2>2
       DEF Reboot, Dispatch, SilenceInv, ResetPlaces, stopVars
<1>9. CASE Abort
  BY <1>9 DEF Abort, Dispatch, SilenceInv, ResetPlaces
<1>10. CASE Other
  <2>1. Used(0)' = Used(0) + 2 * MaxStall /\ Used(0) \in Nat
    BY <1>10, UsedGrows DEF Other
  <2> QED
    BY <1>10, <1>a, <2>1
       DEF Other, Dispatch, SilenceInv, ResetPlaces, stopVars
<1>11. CASE Reset
  <2>1. Used(1)' = Used(0) /\ Len(batch') < MaxBatch
    BY <1>11, UsedGrows DEF Reset
  <2> QED
    BY <1>11, <2>1 DEF Reset, Dispatch, SilenceInv, ResetPlaces
<1>12. CASE ResetFlags
  BY <1>12 DEF ResetFlags, SilenceInv, ResetPlaces, Used
<1>13. CASE ResetClose
  <2>1. silence' <= silence + MaxStall /\ silence' \in Nat
    BY <1>13, FlushType, <1>a DEF ResetClose
  <2>2. Used(1) \in Nat /\ Used(1)' = Used(1)
    BY <1>13, UsedInReset DEF ResetClose, SilenceInv, ResetPlaces, Used
  <2> QED
    BY <1>13, <1>a, <2>1, <2>2
       DEF ResetClose, SilenceInv, ResetPlaces, stopVars
<1>14. CASE ResetOpen
  <2>1. ~exit_flag' => silence' <= silence + MaxStall /\ ~exit_flag
    BY <1>14, OpenType DEF ResetOpen, OpenDevice
  <2>2. silence' \in Nat
    BY <1>14, OpenType, <1>a DEF ResetOpen
  <2>3. Used(1) \in Nat /\ Used(1)' = Used(1)
    BY <1>14, UsedInReset DEF ResetOpen, SilenceInv, ResetPlaces, Used
  <2> QED
    BY <1>14, <1>a, <2>1, <2>2, <2>3
       DEF ResetOpen, SilenceInv, ResetPlaces
<1>15. CASE ResetLogOpen
  <2>1. Used(0)' = Used(1) + 2 * MaxStall /\ Used(1) \in Nat
    BY <1>15, UsedInReset DEF ResetLogOpen, SilenceInv, ResetPlaces, Used
  <2> QED
    BY <1>15, <1>a, <2>1 DEF ResetLogOpen, SilenceInv, ResetPlaces, stopVars
<1>23. CASE ResetLogFlush \/ ResetLogClose
  BY <1>23
     DEF ResetLogFlush, ResetLogClose, SilenceInv, ResetPlaces, stopVars, Used
<1>16. CASE EndBatch
  <2>1. silence' <= silence + MaxStall /\ silence' \in Nat
    BY <1>16, FlushType, <1>a DEF EndBatch
  <2>2. Used(0) <= MaxBatch * (2 * MaxStall) /\ Used(0) \in Nat
        /\ MaxBatch * (2 * MaxStall) \in Nat
    BY <1>a, UsedBounded
  <2> QED
    BY <1>16, <1>a, <2>1, <2>2 DEF EndBatch, SilenceInv, ResetPlaces, stopVars
<1>17. CASE Logs
  <2>1. silence' <= silence + MaxStall /\ silence' \in Nat
    BY <1>17, StallType, <1>a DEF Logs, TypeOK
  <2> QED
    BY <1>17, <1>a, <2>1, BoundSplits
       DEF Logs, SilenceInv, ResetPlaces, stopVars
<1>18. CASE Sleep
  <2>1. silence' <= silence + MaxNap /\ silence' \in Nat
    BY <1>18, ElapseType, <1>a DEF Sleep, TypeOK
  <2> QED
    BY <1>18, <1>a, <2>1, BoundSplits
       DEF Sleep, SilenceInv, ResetPlaces, stopVars
<1>19. CASE Closing \/ FinalFlush
  BY <1>19 DEF Closing, FinalFlush, SilenceInv, ResetPlaces
<1>20. CASE Sigint
  BY <1>20 DEF Sigint, Exit, SilenceInv, ResetPlaces
<1>21. CASE Killed
  BY <1>21 DEF Killed, SilenceInv, ResetPlaces
<1>22. CASE Ended \/ UNCHANGED vars
  BY <1>22 DEF Ended, vars, SilenceInv, Used, ResetPlaces
<1> QED
  BY <1>1, <1>2, <1>3, <1>4, <1>5, <1>6, <1>7, <1>8, <1>9, <1>10, <1>11,
     <1>12, <1>13, <1>14, <1>15, <1>16, <1>17, <1>18, <1>19, <1>20, <1>21,
     <1>22, <1>23 DEF Next, MainThread

\* Stalls do not add up over iterations: whatever the radio does, a
\* controller that goes on without a reset having saved it heard a ping no
\* longer ago than the period plus one iteration of waiting.
THEOREM SilenceIsBounded == Spec => []SilenceBound
<1>1. Init => SilenceInv
  BY DEF Init, SilenceInv, ResetPlaces
<1>2. TypeOK /\ SilenceInv => SilenceBound
  <2> SUFFICES ASSUME TypeOK, SilenceInv,
                      pc \in LoopPlaces \union ResetPlaces,
                      ~exit_flag, ~rescinded
               PROVE  silence <= Bound
    BY DEF SilenceBound
  <2> USE ControllerAssumption
  <2>1. silence \in Nat /\ Len(batch) \in Nat /\ Len(batch) <= MaxBatch
    BY LenProperties, BoundsAreNat DEF TypeOK
  <2>2. CASE pc \in {"top", "check"}
    BY <2>2 DEF SilenceInv
  <2>3. CASE pc \in {"receive", "logs", "sleep"}
    BY <2>1, <2>3, BoundSplits DEF SilenceInv
  <2>4. CASE pc = "dispatch"
    <3>1. Used(0) <= MaxBatch * (2 * MaxStall) /\ Used(0) \in Nat
      BY <2>1, UsedBounded
    <3> QED
      BY <2>1, <2>4, <3>1, BoundSplits DEF SilenceInv
  <2>5. CASE pc \in ResetPlaces
    <3>1. Len(batch) < MaxBatch
      BY <2>5 DEF SilenceInv
    <3>2. Used(1) <= MaxBatch * (2 * MaxStall) /\ Used(1) \in Nat
      BY <2>1, <3>1, UsedBounded
    <3> QED
      BY <2>1, <2>5, <3>2, BoundSplits DEF SilenceInv, ResetPlaces
  <2> QED
    BY <2>2, <2>3, <2>4, <2>5 DEF LoopPlaces
<1> QED
  BY <1>1, <1>2, SilenceStep, ControllerTypeCorrect, PTL DEF Spec
=============================================================================
