----------------------------- MODULE Controller -----------------------------
(***************************************************************************)
(* The life of the controller process: main(), control::init, loop, reset  *)
(* and exit, the parts of comms and logging they drive, and the SIGINT     *)
(* handler, which is control::exit itself and may run between any two      *)
(* steps of the main thread.  The code has one thread; pc is its place.    *)
(*                                                                         *)
(* Time is counted in units no longer than one iteration of the loop;      *)
(* silence is the steady clock minus state::last_ping, cut at Cap.  The    *)
(* radio is a list of commands per iteration; what comms::flush writes is  *)
(* the subject of RadioOut, here it takes time and may report an error.    *)
(***************************************************************************)
EXTENDS Integers, Sequences

CONSTANTS Commands,    \* the kinds of command the ground station sends
          PingPeriod,  \* cfg::ping_period
          MaxStall,    \* longest time of one comms::flush, parse or sleep
                       \* of comms::init
          MaxNap,      \* longest sleep at the end of an iteration
          MaxBatch,    \* most commands parsed in one iteration
          MaxSignals   \* number of SIGINTs

\* "other" is any command whose handler only announces, or changes the state
\* of another component.
AllCommands == {"ping", "reset", "shutdown", "reboot", "abort", "other"}

ASSUME ControllerAssumption ==
  /\ Commands \subseteq AllCommands
  /\ PingPeriod \in Nat /\ MaxStall \in Nat
  /\ MaxNap \in Nat \ {0}
  /\ MaxBatch \in Nat /\ MaxSignals \in Nat

VARIABLES
  pc,         \* the place of the main thread
  exit_flag,  \* control::exit_flag
  silence,    \* time since state::last_ping
  batch,      \* the commands of this iteration still to be dispatched
  device,     \* comms::arduino: unopened (fd 0), open, closed or failed
  log,        \* logging::logfile: closed, open or failed
  unlogged,   \* logging::buffer is not empty
  lost,       \* history: buffered bytes were written to no open file
  rebooting,  \* "sudo reboot" was started
  result,     \* what main returned, or -1
  signals,    \* SIGINTs so far
  order,      \* history: the last request, to exit or to reset
  raced,      \* history: a SIGINT fell between a reset and its flag
  rescinded,  \* history: a reset took back a pending exit
  late        \* history: a SIGINT since the last logging::flush

stopVars == <<exit_flag, order, raced, rescinded>>
fileVars == <<log, lost, late>>
vars == <<pc, exit_flag, silence, batch, device, log, unlogged, lost,
          rebooting, result, signals, order, raced, rescinded, late>>

InitPlaces  == {"init_log", "init_comms", "init_done", "init_failed"}
LoopPlaces  == {"top", "check", "receive", "dispatch", "logs", "sleep"}
ResetPlaces == {"rst_flags", "rst_close", "rst_open",
                "rst_log", "rst_log_close", "rst_log_open"}
LastPlaces  == {"closing", "final_flush"}
Stopped     == {"done", "killed"}
Places == InitPlaces \union LoopPlaces \union ResetPlaces
            \union LastPlaces \union Stopped

\* The longest silence of a controller that goes on: it was checked one
\* iteration ago, and since then came parse, the commands (a reset stalls
\* twice), the two flushes of the iteration and its nap.
Bound == PingPeriod + (2 * MaxBatch + 3) * MaxStall + MaxNap
Cap == Bound + 1

Elapse(d) == silence' = IF silence + d > Cap THEN Cap ELSE silence + d

\* Waiting: in comms::flush, in parse, or in the sleep of comms::init.
Stall == \E d \in 0 .. MaxStall : Elapse(d)

\* comms::flush blocks for a while and announces each failed write.
Flush == /\ Stall
         /\ unlogged' \in {unlogged, TRUE}

\* control::exit: the flag, the announcements, then comms::exit flushes.
\* hardware::exit is empty, logging::exit is not called.
Exit == /\ exit_flag' = TRUE
        /\ order' = "exit"
        /\ Flush /\ unlogged' = TRUE

\* logging::flush writes `buffered`, if there is any, to the file; a write to
\* an open file may fail, and then so do all that follow.
LogFlush(buffered) ==
  /\ \/ /\ lost' = (lost \/ (buffered /\ log # "open")) /\ UNCHANGED log
     \/ /\ buffered /\ log = "open"
        /\ lost' = TRUE /\ log' = "failed"
  /\ late' = FALSE
-----------------------------------------------------------------------------
Init ==
  /\ pc = "init_log" /\ exit_flag = FALSE /\ silence = Cap
  /\ batch = <<>> /\ device = "unopened"
  /\ log = "closed" /\ unlogged = FALSE /\ lost = FALSE
  /\ rebooting = FALSE /\ result = -1 /\ signals = 0
  /\ order = "none" /\ raced = FALSE /\ rescinded = FALSE
  /\ late = FALSE

\* logging::init in control::init.
InitLogging ==
  /\ pc = "init_log"
  /\ unlogged' = TRUE
  /\ \/ log' = "open" /\ pc' = "init_comms" /\ UNCHANGED exit_flag
     \/ log' = "failed" /\ pc' = "init_failed" /\ exit_flag' = TRUE
  /\ UNCHANGED <<silence, batch, device, lost, rebooting, result, signals,
                 order, raced, rescinded, late>>

\* comms::init opens the device and sleeps; a device that is not a terminal,
\* or refuses its settings, is kept open and makes the controller exit, up to
\* four times with a flush each, before the same sleep.  A handler between
\* them finds and leaves the flag and the order as one after them.
OpenDevice ==
  \/ /\ device' = "open" /\ unlogged' = TRUE /\ Stall
     /\ UNCHANGED <<exit_flag, order>>
  \/ /\ device' = "open" /\ unlogged' = TRUE
     /\ exit_flag' = TRUE /\ order' = "exit"
     /\ \E d \in 0 .. 5 * MaxStall : Elapse(d)
  \/ /\ device' = "failed" /\ unlogged' = TRUE
     /\ UNCHANGED <<exit_flag, order, silence>>

\* hardware::init, which cannot fail, and comms::init in control::init.
InitComms ==
  /\ pc = "init_comms"
  /\ \/ OpenDevice /\ device' = "open" /\ pc' = "init_done"
     \/ /\ device' = "failed" /\ unlogged' = TRUE
        /\ exit_flag' = TRUE /\ pc' = "init_failed"
        /\ UNCHANGED <<order, silence>>
  /\ UNCHANGED <<batch, rebooting, result, signals, raced, rescinded>>
  /\ UNCHANGED fileVars

\* The end of control::init: last_ping is now, and ok() is the result.
InitDone ==
  /\ pc = "init_done"
  /\ silence' = 0 /\ unlogged' = TRUE
  /\ pc' = IF exit_flag THEN "init_failed" ELSE "top"
  /\ UNCHANGED <<batch, device, rebooting, result, signals>>
  /\ UNCHANGED stopVars /\ UNCHANGED fileVars

\* main returns 1 after an announcement that nothing flushes.
InitFailed ==
  /\ pc = "init_failed"
  /\ unlogged' = TRUE /\ result' = 1 /\ pc' = "done"
  /\ UNCHANGED <<silence, batch, device, rebooting, signals>>
  /\ UNCHANGED stopVars /\ UNCHANGED fileVars
-----------------------------------------------------------------------------
\* while (control::ok())
Top ==
  /\ pc = "top"
  /\ pc' = IF exit_flag THEN "closing" ELSE "check"
  /\ UNCHANGED <<silence, batch, device, unlogged, rebooting, result,
                 signals>>
  /\ UNCHANGED stopVars /\ UNCHANGED fileVars

\* Fault variant: a silence past the period is not noticed.
CheckPingNever ==
  /\ pc = "check" /\ pc' = "receive"
  /\ UNCHANGED <<silence, batch, device, unlogged, rebooting, result,
                 signals>>
  /\ UNCHANGED stopVars /\ UNCHANGED fileVars

\* control::loop exits when the last ping is too old, and goes on with the
\* iteration all the same.
CheckPing ==
  /\ pc = "check" /\ pc' = "receive"
  /\ IF silence > PingPeriod
       THEN Exit
       ELSE UNCHANGED <<exit_flag, order, silence, unlogged>>
  /\ UNCHANGED <<batch, device, rebooting, result, signals, raced, rescinded>>
  /\ UNCHANGED fileVars

\* comms::loop reads what has arrived and parses it into a batch; parse may
\* spin on a lone byte until its timeout.
Receive ==
  /\ pc = "receive" /\ pc' = "dispatch"
  /\ Stall
  /\ IF device = "open"
       THEN \E n \in 0 .. MaxBatch : batch' \in [1 .. n -> Commands]
       ELSE batch' = <<>>
  /\ UNCHANGED <<device, unlogged, rebooting, result, signals>>
  /\ UNCHANGED stopVars /\ UNCHANGED fileVars

\* behavior::dataReceipt announces the next command and calls its handler.
Dispatch(command) ==
  /\ pc = "dispatch" /\ batch # <<>> /\ Head(batch) = command
  /\ batch' = Tail(batch)
  /\ unlogged' = TRUE
  /\ UNCHANGED <<device, result, signals>>
  /\ UNCHANGED fileVars

\* /ground/ping, and MARCO in a small talk.
Ping ==
  /\ Dispatch("ping")
  /\ silence' = 0
  /\ UNCHANGED <<pc, rebooting>> /\ UNCHANGED stopVars

\* /ground/shutdown, and SHUTDOWN in a small talk; the rest of the batch and
\* of the iteration is still executed.
Shutdown ==
  /\ Dispatch("shutdown") /\ Exit
  /\ UNCHANGED <<pc, rebooting, raced, rescinded>>

\* /ground/hardware-reboot starts the reboot and carries on until killed.
Reboot ==
  /\ Dispatch("reboot") /\ rebooting' = TRUE
  /\ Stall
  /\ UNCHANGED pc /\ UNCHANGED stopVars

\* /ground/abort: std::abort ends the process at once.
Abort ==
  /\ Dispatch("abort") /\ pc' = "killed"
  /\ UNCHANGED <<silence, rebooting>> /\ UNCHANGED stopVars

Other ==
  /\ Dispatch("other")
  /\ UNCHANGED <<pc, silence, rebooting>> /\ UNCHANGED stopVars

\* /ground/reset, and RESET in a small talk, call control::reset.
Reset ==
  /\ Dispatch("reset") /\ pc' = "rst_flags"
  /\ order' = "reset"
  /\ UNCHANGED <<exit_flag, raced, rescinded, silence, rebooting>>
-----------------------------------------------------------------------------
\* control::reset clears the flags, which takes back a pending exit.
ResetFlags ==
  /\ pc = "rst_flags" /\ pc' = "rst_close"
  /\ exit_flag' = FALSE
  /\ rescinded' = (rescinded \/ exit_flag)
  /\ UNCHANGED <<silence, batch, device, unlogged, rebooting, result,
                 signals, order, raced>>
  /\ UNCHANGED fileVars

\* comms::reset flushes, clears the buffers and closes; the batch is a copy.
ResetClose ==
  /\ pc = "rst_close" /\ pc' = "rst_open"
  /\ Flush /\ device' = "closed"
  /\ UNCHANGED <<batch, rebooting, result, signals>>
  /\ UNCHANGED stopVars /\ UNCHANGED fileVars

\* Fault variant: the flags are cleared only after the device is opened.
ResetOpenClears ==
  /\ pc = "rst_open" /\ pc' = "rst_log"
  /\ device' \in {"open", "failed"} /\ unlogged' = TRUE /\ Stall
  /\ exit_flag' = FALSE /\ order' \in {order, "exit"}
  /\ UNCHANGED <<batch, rebooting, result, signals, raced, rescinded>>
  /\ UNCHANGED fileVars

\* comms::reset opens the device again, its result unused; hardware::reset.
ResetOpen ==
  /\ pc = "rst_open" /\ pc' = "rst_log"
  /\ OpenDevice
  /\ UNCHANGED <<batch, rebooting, result, signals, raced, rescinded>>
  /\ UNCHANGED fileVars

\* Fault variant: the file is closed before the buffer is written.
ResetLogFlushClosed ==
  /\ pc = "rst_log" /\ pc' = "rst_log_close"
  /\ lost' = (lost \/ unlogged) /\ late' = FALSE
  /\ log' = "closed" /\ unlogged' = FALSE
  /\ UNCHANGED <<silence, batch, device, rebooting, result, signals>>
  /\ UNCHANGED stopVars

\* logging::exit in logging::reset flushes the log.
ResetLogFlush ==
  /\ pc = "rst_log" /\ pc' = "rst_log_close"
  /\ LogFlush(unlogged) /\ unlogged' = FALSE
  /\ UNCHANGED <<silence, batch, device, rebooting, result, signals>>
  /\ UNCHANGED stopVars

\* Then it closes the file.
ResetLogClose ==
  /\ pc = "rst_log_close" /\ pc' = "rst_log_open"
  /\ log' = "closed"
  /\ UNCHANGED <<silence, batch, device, unlogged, lost, late>>
  /\ UNCHANGED <<rebooting, result, signals>> /\ UNCHANGED stopVars

\* logging::init announces and opens another, which may fail; its result is
\* unused.  Back to the batch.
ResetLogOpen ==
  /\ pc = "rst_log_open" /\ pc' = "dispatch"
  /\ log' \in {"open", "failed"} /\ unlogged' = TRUE
  /\ UNCHANGED <<silence, batch, device, lost, late>>
  /\ UNCHANGED <<rebooting, result, signals>> /\ UNCHANGED stopVars
-----------------------------------------------------------------------------
\* The flush that ends comms::loop; hardware::loop only reads sensors.
EndBatch ==
  /\ pc = "dispatch" /\ batch = <<>> /\ pc' = "logs"
  /\ Flush
  /\ UNCHANGED <<batch, device, rebooting, result, signals>>
  /\ UNCHANGED stopVars /\ UNCHANGED fileVars

\* Fault variant: the log is flushed before the radio.
LogsBeforeRadio ==
  /\ pc = "logs" /\ pc' = "sleep"
  /\ Stall
  /\ \E told \in {unlogged, TRUE} : LogFlush(told)
  /\ unlogged' \in BOOLEAN
  /\ UNCHANGED <<batch, device, rebooting, result, signals>>
  /\ UNCHANGED stopVars

\* logging::loop: the periodic logs, comms::flush, then logging::flush, so
\* that transmission errors reach the file.
Logs ==
  /\ pc = "logs" /\ pc' = "sleep"
  /\ Stall
  /\ \E told \in {unlogged, TRUE} : LogFlush(told)
  /\ unlogged' = FALSE
  /\ UNCHANGED <<batch, device, rebooting, result, signals>>
  /\ UNCHANGED stopVars

Sleep ==
  /\ pc = "sleep" /\ pc' = "top"
  /\ \E d \in 1 .. MaxNap : Elapse(d)
  /\ UNCHANGED <<batch, device, unlogged, rebooting, result, signals>>
  /\ UNCHANGED stopVars /\ UNCHANGED fileVars

\* main announces the end and flushes the log.
Closing ==
  /\ pc = "closing" /\ pc' = "final_flush"
  /\ LogFlush(TRUE) /\ unlogged' = FALSE
  /\ UNCHANGED <<silence, batch, device, rebooting, result, signals>>
  /\ UNCHANGED stopVars

\* Fault variant: main returns the code of the timeout.
FinalFlushCode ==
  /\ pc = "final_flush" /\ pc' = "done"
  /\ Flush /\ result' = 5
  /\ UNCHANGED <<batch, device, rebooting, signals>>
  /\ UNCHANGED stopVars /\ UNCHANGED fileVars

\* main flushes the radio and returns 0, whatever the reason of the exit.
FinalFlush ==
  /\ pc = "final_flush" /\ pc' = "done"
  /\ Flush /\ result' = 0
  /\ UNCHANGED <<batch, device, rebooting, signals>>
  /\ UNCHANGED stopVars /\ UNCHANGED fileVars
-----------------------------------------------------------------------------
\* The signal handler is control::exit.
Sigint ==
  /\ pc \notin Stopped /\ signals < MaxSignals
  /\ signals' = signals + 1
  /\ Exit
  /\ late' = TRUE
  /\ raced' = (raced \/ pc = "rst_flags")
  /\ UNCHANGED <<pc, batch, device, log, lost, rebooting, result, rescinded>>

\* The reboot reaches the process.
Killed ==
  /\ rebooting /\ pc \notin Stopped
  /\ pc' = "killed"
  /\ UNCHANGED <<silence, batch, device, unlogged, rebooting, result,
                 signals>>
  /\ UNCHANGED stopVars /\ UNCHANGED fileVars

MainThread ==
  \/ InitLogging \/ InitComms \/ InitDone \/ InitFailed
  \/ Top \/ CheckPing \/ Receive
  \/ Ping \/ Shutdown \/ Reboot \/ Abort \/ Other \/ Reset
  \/ ResetFlags \/ ResetClose \/ ResetOpen
  \/ ResetLogFlush \/ ResetLogClose \/ ResetLogOpen
  \/ EndBatch \/ Logs \/ Sleep \/ Closing \/ FinalFlush

\* A process that has ended stays so.
Ended == pc \in Stopped /\ UNCHANGED vars

Next == MainThread \/ Sigint \/ Killed \/ Ended

\* The main thread is scheduled; nothing is assumed of the ground station,
\* of the keyboard or of the reboot.
Spec == Init /\ [][Next]_vars /\ WF_vars(MainThread)
-----------------------------------------------------------------------------
TypeOK ==
  /\ pc \in Places /\ exit_flag \in BOOLEAN /\ silence \in 0 .. Cap
  /\ batch \in Seq(Commands) /\ Len(batch) <= MaxBatch
  /\ device \in {"unopened", "open", "closed", "failed"}
  /\ log \in {"closed", "open", "failed"}
  /\ unlogged \in BOOLEAN /\ lost \in BOOLEAN /\ rebooting \in BOOLEAN
  /\ result \in {-1, 0, 1} /\ signals \in 0 .. MaxSignals
  /\ order \in {"none", "exit", "reset"}
  /\ raced \in BOOLEAN /\ rescinded \in BOOLEAN
  /\ late \in BOOLEAN

\* No iteration begins while the last request was to exit, wherever in the
\* iteration, in a reset or in the batch that request came; only a SIGINT
\* that falls between a reset and its flag can be forgotten.
NewIteration == pc = "top" /\ pc' = "check"
StopHonoured == [][NewIteration => order # "exit" \/ raced]_vars

\* A controller that goes on, and whose exit no reset took back, heard a ping
\* at most Bound ago: stalls cannot add up over iterations.
SilenceBound ==
  pc \in LoopPlaces \union ResetPlaces /\ ~exit_flag /\ ~rescinded
    => silence <= Bound

\* When an iteration is about to sleep, all that was announced, transmission
\* errors included, has been handed to the file, but for what a SIGINT said
\* since.  The end of main is the other way round, see LogFile.
LogCaughtUp == pc = "sleep" /\ unlogged => late

\* Log bytes are lost only to a file that could not be opened or written: what
\* is announced while a reset has no file open waits for the next, whatever
\* signals and commands fall between the steps of the reset.
LostOnlyByFailure == [][lost' => lost \/ "failed" \in {log, log'}]_vars

\* A controller whose ground station stops sending pings and resets stops.
Contact == batch # <<>> /\ Head(batch) \in {"ping", "reset"}
SilentGroundStops == []<>Contact \/ <>(pc \in Stopped)

\* A controller whose radio cannot be opened again by a reset does not run
\* deaf for ever: it is opened by a later reset or the controller stops.
DeafStops == device = "failed" ~> device = "open" \/ pc \in Stopped

\* include/control.h:39, of control::exit: "Shutdown the controller."
StopIsFinal == [][NewIteration => order # "exit"]_vars
=============================================================================
