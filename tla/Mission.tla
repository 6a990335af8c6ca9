------------------------------ MODULE Mission ------------------------------
(***************************************************************************)
(* The iteration of control::loop with the parts that share its clock: the *)
(* commands of a batch drive the motor lock and the schedule of the logs,  *)
(* a reset goes through the parts one after the other, hardware::loop      *)
(* renews what the sensors measured, and logging::loop sends it.  Time may *)
(* pass between any two steps, which stands for every flush and stall.     *)
(* What makes the process end is the subject of Controller.                *)
(***************************************************************************)
EXTENDS Integers

CONSTANTS Codes, MaxLock, Cooldown, MaxLag,  \* of MotorLock
          Ids, Recipes, Periods,             \* of Telemetry
          Sensors,     \* the sensors, each named by its period
          LoopPeriod,  \* cfg::loop_period
          MaxBatch,    \* bound on the commands of an iteration
          MaxTime      \* bound on the clock

ASSUME MissionAssumption ==
  /\ {Codes, Ids, Recipes, Periods, Sensors} \subseteq SUBSET Nat
  /\ {MaxLock, LoopPeriod} \subseteq Nat \ {0}
  /\ {Cooldown, MaxLag, MaxBatch, MaxTime} \subseteq Nat

VARIABLES
  now,       \* std::chrono::steady_clock
  next_lock, last_updated, relocked, accepted, disorder,       \* MotorLock
  logs, last_sent, todo, passing, sent_at, base, count,        \* Telemetry
  pc,        \* the place in control::loop or control::reset
  left,      \* commands of the batch still to be dispatched
  time,      \* state::time
  runtime,   \* control::runtime, from a start_time of 0
  stamp,     \* sensor -> when its value was last written
  reset_at,  \* history: when the last reset was begun
  asked      \* history: the ids asked for since

Lock == INSTANCE MotorLock
Log  == INSTANCE Telemetry

lock == <<next_lock, last_updated, relocked, accepted, disorder>>
schedule == <<logs, last_sent, todo, passing, sent_at, base, count>>
control == <<pc, left, time, runtime>>
history == <<reset_at, asked>>
vars == <<now, lock, schedule, control, stamp, history>>

\* control::init ends by reading start_time, time and last_ping.
Init == /\ Lock!Init /\ Log!Init
        /\ pc = "top" /\ left = 0 /\ time = 0 /\ runtime = 0
        /\ stamp = [s \in Sensors |-> 0]
        /\ reset_at = 0 /\ asked = {}

Goto(place) == pc' = place
Still == UNCHANGED <<left, time, runtime>>
-----------------------------------------------------------------------------
\* state::time is read; the commands of the iteration are parsed.
Top == /\ pc = "top" /\ Goto("commands")
       /\ time' = now /\ left' \in 0 .. MaxBatch
       /\ UNCHANGED <<now, runtime, stamp>>
       /\ UNCHANGED lock /\ UNCHANGED schedule /\ UNCHANGED history

\* The next command of the batch.
Dispatch == pc = "commands" /\ left > 0 /\ left' = left - 1
              /\ UNCHANGED <<time, runtime, stamp>>

\* /ground/set-lock
SetLock == /\ Dispatch /\ Goto("commands") /\ Lock!SetLock
           /\ UNCHANGED schedule /\ UNCHANGED history

\* /ground/begin-log
BeginLog == /\ Dispatch /\ Goto("commands")
            /\ \E id \in Ids, period \in Periods :
                 Log!AddLog(id, period) /\ asked' = asked \union {id}
            /\ UNCHANGED lock /\ UNCHANGED reset_at

\* /ground/unlog-all
Unlog == /\ Dispatch /\ Goto("commands")
         /\ Log!ClearLogs \/ \E id \in Ids : Log!RemoveLog(id)
         /\ UNCHANGED lock /\ UNCHANGED history

\* control::reset, which begins with comms::reset: input_buff is cleared, but
\* the commands already parsed stay.
Reset == /\ Dispatch /\ Goto("hardware::reset")
         /\ reset_at' = now /\ asked' = {}
         /\ UNCHANGED now /\ UNCHANGED lock /\ UNCHANGED schedule

\* Fault variant: the reset leaves the lock as it is.
ResetHardwareNot == /\ pc = "hardware::reset" /\ Goto("logging::reset")
                    /\ Still /\ UNCHANGED <<now, stamp>> /\ UNCHANGED lock
                    /\ UNCHANGED schedule /\ UNCHANGED history

\* hardware::reset
ResetHardware == /\ pc = "hardware::reset" /\ Goto("logging::reset")
                 /\ Lock!HardwareReset
                 /\ Still /\ UNCHANGED stamp
                 /\ UNCHANGED schedule /\ UNCHANGED history

\* Fault variant: logging::exit clears the table, but not the schedule.
ResetLoggingHalf == /\ pc = "logging::reset" /\ Goto("commands")
                    /\ logs' = Log!Empty
                    /\ UNCHANGED <<last_sent, todo, passing>>
                    /\ UNCHANGED <<sent_at, base, count>>
                    /\ Still /\ UNCHANGED <<now, stamp>>
                    /\ UNCHANGED lock /\ UNCHANGED history

\* logging::reset calls clearLogs; the commands behind the reset go on.
ResetLogging == /\ pc = "logging::reset" /\ Goto("commands")
                /\ Log!ClearLogs
                /\ Still /\ UNCHANGED stamp
                /\ UNCHANGED lock /\ UNCHANGED history

\* comms::loop ends.
EndBatch == /\ pc = "commands" /\ left = 0 /\ Goto("hardware::loop")
            /\ Still /\ UNCHANGED <<now, stamp>>
            /\ UNCHANGED lock /\ UNCHANGED schedule /\ UNCHANGED history
-----------------------------------------------------------------------------
\* timestamped::age() of a sensor's value
Age(s) == now - stamp[s]

\* Fault variant: an else between the tests lets one sensor in per iteration.
RenewOne == [s \in Sensors |->
  IF Age(s) > s /\ \A r \in Sensors : Age(r) > r => s <= r THEN now ELSE stamp[s]]

\* Each sensor whose value is older than its period is read.
Renew == [s \in Sensors |-> IF Age(s) > s THEN now ELSE stamp[s]]

\* hardware::loop
HardwareLoop == /\ pc = "hardware::loop" /\ Goto("logging::loop")
                /\ stamp' = Renew
                /\ Still /\ UNCHANGED now
                /\ UNCHANGED lock /\ UNCHANGED schedule /\ UNCHANGED history

\* Fault variant: an iteration that is late saves itself the logs.
BeginPassUnlessLate ==
  /\ pc = "logging::loop"
  /\ IF now > runtime + LoopPeriod
       THEN Goto("sleep") /\ UNCHANGED now /\ UNCHANGED schedule
       ELSE Goto("pass") /\ Log!BeginPass
  /\ Still /\ UNCHANGED stamp
  /\ UNCHANGED lock /\ UNCHANGED history

\* control::loop calls logging::loop.
BeginPass == /\ pc = "logging::loop" /\ Goto("pass") /\ Log!BeginPass
             /\ Still /\ UNCHANGED stamp
             /\ UNCHANGED lock /\ UNCHANGED history

\* A recipe reads state::time, the status and the sensors' values.
Visit == /\ pc = "pass" /\ Goto("pass")
         /\ \E id \in Ids : Log!SendFirst(id) \/ Log!SendNext(id) \/ Log!Skip(id)
         /\ Still /\ UNCHANGED stamp
         /\ UNCHANGED lock /\ UNCHANGED history

\* The pass and its flushes end; control::loop sleeps.
EndPass == /\ pc = "pass" /\ Goto("sleep") /\ Log!EndPass
           /\ Still /\ UNCHANGED stamp
           /\ UNCHANGED lock /\ UNCHANGED history

\* sleep_until start_time + runtime + loop_period, which has passed already
\* when the loop is late.  The bound on the clock ends the sleep too.
Wake == LET next == IF runtime + LoopPeriod > MaxTime THEN MaxTime
                                                      ELSE runtime + LoopPeriod
        IN  /\ pc = "sleep" /\ now >= next /\ Goto("top")
            /\ runtime' = next
            /\ UNCHANGED <<now, left, time, stamp>>
            /\ UNCHANGED lock /\ UNCHANGED schedule /\ UNCHANGED history

Tick == /\ now < MaxTime /\ now' = now + 1
        /\ UNCHANGED lock /\ UNCHANGED schedule /\ UNCHANGED control
        /\ UNCHANGED stamp /\ UNCHANGED history

Command == SetLock \/ BeginLog \/ Unlog \/ Reset

Loop == \/ Top \/ Command \/ ResetHardware \/ ResetLogging \/ EndBatch
        \/ HardwareLoop \/ BeginPass \/ Visit \/ EndPass \/ Wake

Next == Loop \/ Tick

\* The one thread runs on, and so does the clock it sleeps by.
Spec == Init /\ [][Next]_vars /\ WF_vars(Loop) /\ WF_vars(Tick)
-----------------------------------------------------------------------------
\* What a packet says was measured at most the sensor's period before the time
\* the packet carries, however long commands, resets and flushes take between
\* the reading of state::time and the recipe.
ValuesCurrent ==
  pc = "pass" => \A s \in Sensors : stamp[s] >= time - s

\* A log that is due when an iteration begins, or that a command of the
\* iteration has begun, has had a packet when the iteration ends, in spite of
\* stalls and of resets within the batch.
ServedInTime ==
  pc = "sleep" => \A id \in DOMAIN logs \intersect Recipes :
    /\ id \in DOMAIN last_sent
    /\ sent_at[id] >= time \/ time - last_sent[id] < logs[id]

\* The commands behind a reset in its batch, and all later ones, find a lock
\* that opens only when every cooldown has passed after the reset, and no
\* subscription from before it.
ResetForgets ==
  pc \notin {"hardware::reset", "logging::reset"} =>
    /\ next_lock = MaxLock => now - reset_at >= MaxLock * Cooldown
    /\ DOMAIN logs \subseteq asked

\* Telemetry keeps its specification, its fairness included, in the loop that
\* drives it: commands never come during a pass, and whatever they are the
\* loop calls logging::loop again.
TelemetrySpec == Log!Spec
=============================================================================
