--------------------------- MODULE MissionProofs ---------------------------
(***************************************************************************)
(* Theorems about Mission for every number of codes, stages, logs and      *)
(* sensors, every batch and every clock.  Mission drives a motor lock that *)
(* keeps the specification of MotorLock, so that the theorems about that   *)
(* hold of it; from them, and from what the reset does in which order,     *)
(* follows what a reset forgets.                                           *)
(***************************************************************************)
EXTENDS Mission, TLAPS

LockTheorems == INSTANCE MotorLockProofs

\* The assumptions of MotorLock are among those of Mission.
LEMMA LockConstants == LockTheorems!LockAssumption
BY MissionAssumption DEF LockTheorems!LockAssumption

\* MotorLockProofs speaks of the same operators as Mission.
LEMMA SameLock ==
  ASSUME Lock!Lock PROVE LockTheorems!Lock
BY DEF Lock!Lock, LockTheorems!Lock, Lock!Later, LockTheorems!Later,
   Lock!Relock, LockTheorems!Relock, Lock!Update, LockTheorems!Update

\* So does hardware::reset.
LEMMA SameReset ==
  ASSUME Lock!HardwareReset PROVE LockTheorems!HardwareReset
BY DEF Lock!HardwareReset, LockTheorems!HardwareReset, Lock!Later,
   LockTheorems!Later, Lock!Relock, LockTheorems!Relock, Lock!Update,
   LockTheorems!Update

\* And so does unlock, in each of its three ways.
LEMMA SameUnlock ==
  ASSUME NEW code \in Codes,
         \/ Lock!UnlockIgnored(code) \/ Lock!UnlockAccepted(code)
         \/ Lock!UnlockRejected(code)
  PROVE  \/ LockTheorems!UnlockIgnored(code) \/ LockTheorems!UnlockAccepted(code)
         \/ LockTheorems!UnlockRejected(code)
<1> USE DEF Lock!Age, LockTheorems!Age, Lock!Later, LockTheorems!Later,
            Lock!Update, LockTheorems!Update
<1>1. CASE Lock!UnlockIgnored(code)
  BY <1>1 DEF Lock!UnlockIgnored, LockTheorems!UnlockIgnored
<1>2. CASE Lock!UnlockAccepted(code)
  BY <1>2 DEF Lock!UnlockAccepted, LockTheorems!UnlockAccepted
<1>3. CASE Lock!UnlockRejected(code)
  BY <1>3 DEF Lock!UnlockRejected, LockTheorems!UnlockRejected, Lock!Relock,
     LockTheorems!Relock
<1> QED
  BY <1>1, <1>2, <1>3

\* Hence the whole command.
LEMMA SameSetLock == Lock!SetLock => LockTheorems!SetLock
BY SameLock, SameUnlock DEF Lock!SetLock, LockTheorems!SetLock

\* The logs do not touch the clock.
LEMMA LogsKeepTime ==
  ASSUME BeginLog \/ Unlog \/ ResetLogging \/ BeginPass \/ Visit \/ EndPass
  PROVE  UNCHANGED now
BY DEF BeginLog, Unlog, ResetLogging, BeginPass, Visit, EndPass,
   Log!AddLog, Log!RemoveLog, Log!ClearLogs, Log!BeginPass,
   Log!SendFirst, Log!SendNext, Log!Skip, 
   Log!EndPass, Log!Visit

\* Each step of the mission is a step of the lock, or none.
LEMMA LockStep == [Next]_vars => [LockTheorems!Next]_(LockTheorems!vars)
<1> SUFFICES ASSUME [Next]_vars PROVE [LockTheorems!Next]_(LockTheorems!vars)
  OBVIOUS
<1> USE DEF Goto, Still
<1>1. CASE Top
  BY <1>1 DEF Top, LockTheorems!vars, lock, Dispatch
<1>2. CASE SetLock
  BY <1>2, SameSetLock DEF SetLock, LockTheorems!Next
<1>3. CASE BeginLog
  BY <1>3, LogsKeepTime DEF BeginLog, LockTheorems!vars, lock
<1>4. CASE Unlog
  BY <1>4, LogsKeepTime DEF Unlog, LockTheorems!vars, lock
<1>5. CASE Reset
  BY <1>5 DEF Reset, LockTheorems!vars, lock, Dispatch
<1>6. CASE ResetHardware
  BY <1>6, SameReset DEF ResetHardware, LockTheorems!Next
<1>7. CASE ResetLogging
  BY <1>7, LogsKeepTime DEF ResetLogging, LockTheorems!vars, lock
<1>8. CASE EndBatch
  BY <1>8 DEF EndBatch, LockTheorems!vars, lock, Dispatch
<1>9. CASE HardwareLoop
  BY <1>9 DEF HardwareLoop, LockTheorems!vars, lock, Dispatch
<1>10. CASE BeginPass
  BY <1>10, LogsKeepTime DEF BeginPass, LockTheorems!vars, lock
<1>11. CASE Visit
  BY <1>11, LogsKeepTime DEF Visit, LockTheorems!vars, lock
<1>12. CASE EndPass
  BY <1>12, LogsKeepTime DEF EndPass, LockTheorems!vars, lock
<1>13. CASE Wake
  BY <1>13 DEF Wake, LockTheorems!vars, lock, Dispatch
<1>14. CASE Tick
  BY <1>14 DEF Tick, lock, LockTheorems!Next, LockTheorems!Tick
<1>15. CASE UNCHANGED vars
  BY <1>15 DEF vars, lock, LockTheorems!vars
<1> QED
  BY <1>1, <1>2, <1>3, <1>4, <1>5, <1>6, <1>7, <1>8, <1>9, <1>10, <1>11,
     <1>12, <1>13, <1>14, <1>15 DEF Next, Loop, Command

\* The composed lock keeps its invariant.
THEOREM MissionKeepsLock == Spec => []LockTheorems!LockInv
<1>1. Init => LockTheorems!Init
  BY DEF Init, Lock!Init, LockTheorems!Init, Lock!Stages, LockTheorems!Stages
<1>2. LockTheorems!Spec => []LockTheorems!LockInv
  BY LockConstants, LockTheorems!LockCorrect
<1> QED
  BY <1>1, <1>2, LockStep, PTL DEF Spec, LockTheorems!Spec

-----------------------------------------------------------------------------
\* The times of the parts are times, and not ahead of the clock.
TimesOK == /\ {now, time, reset_at} \subseteq Nat /\ stamp \in [Sensors -> Nat]
           /\ time <= now /\ reset_at <= now

\* From hardware::loop on.
ValuesOK == pc \in {"logging::loop", "pass"} =>
              \A s \in Sensors : stamp[s] >= time - s

\* The lock was relocked by the last reset or later.
RelockedOK == pc # "hardware::reset" => reset_at <= relocked

\* What is subscribed was asked for after the last reset.
AskedOK == pc \notin {"hardware::reset", "logging::reset"} =>
             DOMAIN logs \subseteq asked

\* The tables hold times, and a pass visits subscribed logs.
TablesOK == /\ \A id \in DOMAIN logs : logs[id] \in Nat
            /\ \A id \in DOMAIN last_sent : last_sent[id] \in Nat
            /\ DOMAIN sent_at = DOMAIN last_sent
            /\ pc = "pass" => todo \subseteq DOMAIN logs

\* The log has had its packet of this iteration, or needs none.
Served(id) == /\ id \in DOMAIN last_sent
              /\ sent_at[id] >= time \/ time - last_sent[id] < logs[id]

\* A pass has served what it need not visit any more.
ServedOK == pc \in {"pass", "sleep"} =>
              \A id \in DOMAIN logs \intersect Recipes :
                Served(id) \/ (pc = "pass" /\ id \in todo)

MissionInv == /\ TimesOK /\ ValuesOK /\ RelockedOK /\ AskedOK
              /\ TablesOK /\ ServedOK

\* The readings that a call of the lock may obtain are not earlier than now.
LEMMA LockRuns ==
  ASSUME now \in Nat, Lock!SetLock \/ Lock!HardwareReset
  PROVE  /\ now' \in Nat /\ now' >= now
         /\ relocked' = relocked \/ relocked' = now'
         /\ Lock!HardwareReset => relocked' = now'
<1>1. \A t \in Lock!Later : t \in Nat /\ t >= now
  BY MissionAssumption DEF Lock!Later
<1>2. CASE Lock!HardwareReset
  BY <1>1, <1>2 DEF Lock!HardwareReset, Lock!Relock, Lock!Update
<1>3. CASE Lock!SetLock /\ ~Lock!HardwareReset
  BY <1>1, <1>3 DEF Lock!SetLock, Lock!Lock, Lock!UnlockIgnored,
     Lock!UnlockAccepted, Lock!UnlockRejected, Lock!Relock, Lock!Update
<1> QED
  BY <1>2, <1>3

\* Nothing is ahead of the clock at first.
LEMMA MissionInit == Init => MissionInv
<1> SUFFICES ASSUME Init PROVE MissionInv
  OBVIOUS
<1>1. now = 0 /\ time = 0 /\ reset_at = 0 /\ relocked = 0 /\ pc = "top"
  BY DEF Init, Lock!Init
<1>2. stamp \in [Sensors -> Nat]
  BY DEF Init
<1>3. DOMAIN logs = {} /\ DOMAIN last_sent = {} /\ DOMAIN sent_at = {}
  BY DEF Init, Log!Init, Log!Empty
<1> QED
  BY <1>1, <1>2, <1>3 DEF MissionInv, TimesOK, ValuesOK, RelockedOK, AskedOK,
     TablesOK, ServedOK

\* The times of the parts stay behind the clock.
LEMMA TimesStep == MissionInv /\ [Next]_vars => TimesOK'
<1> SUFFICES ASSUME MissionInv, [Next]_vars PROVE TimesOK'
  OBVIOUS
<1> USE DEF Goto, Still
<1>a. TimesOK
  BY DEF MissionInv
<1>1. CASE Top
  BY <1>1, <1>a DEF Top, TimesOK, Dispatch, history, control
<1>2. CASE SetLock
  <2>1. now' \in Nat /\ now' >= now
    BY <1>2, <1>a, LockRuns DEF SetLock, TimesOK
  <2> QED
    BY <2>1, <1>2, <1>a DEF SetLock, TimesOK, Dispatch, history
<1>3. CASE BeginLog
  BY <1>3, <1>a, LogsKeepTime DEF BeginLog, TimesOK, Dispatch, history
<1>4. CASE Unlog
  BY <1>4, <1>a, LogsKeepTime DEF Unlog, TimesOK, Dispatch, history
<1>5. CASE Reset
  BY <1>5, <1>a DEF Reset, TimesOK, Dispatch, history, control
<1>6. CASE ResetHardware
  <2>1. now' \in Nat /\ now' >= now
    BY <1>6, <1>a, LockRuns DEF ResetHardware, TimesOK
  <2> QED
    BY <2>1, <1>6, <1>a DEF ResetHardware, TimesOK, Dispatch, history
<1>7. CASE ResetLogging
  BY <1>7, <1>a, LogsKeepTime DEF ResetLogging, TimesOK, Dispatch, history
<1>8. CASE EndBatch
  BY <1>8, <1>a DEF EndBatch, TimesOK, Dispatch, history, control
<1>9. CASE HardwareLoop
  <2>1. Renew \in [Sensors -> Nat]
    BY <1>a, MissionAssumption DEF Renew, TimesOK
  <2> QED
    BY <2>1, <1>9, <1>a DEF HardwareLoop, TimesOK, history
<1>10. CASE BeginPass
  BY <1>10, <1>a, LogsKeepTime DEF BeginPass, TimesOK, Dispatch, history
<1>11. CASE Visit
  BY <1>11, <1>a, LogsKeepTime DEF Visit, TimesOK, Dispatch, history
<1>12. CASE EndPass
  BY <1>12, <1>a, LogsKeepTime DEF EndPass, TimesOK, Dispatch, history
<1>13. CASE Wake
  BY <1>13, <1>a DEF Wake, TimesOK, Dispatch, history, control
<1>14. CASE Tick
  BY <1>14, <1>a DEF Tick, TimesOK, Dispatch, history, control
<1>15. CASE UNCHANGED vars
  BY <1>15, <1>a DEF TimesOK, vars, control, history
<1> QED
  BY <1>1, <1>2, <1>3, <1>4, <1>5, <1>6, <1>7, <1>8, <1>9, <1>10, <1>11,
     <1>12, <1>13, <1>14, <1>15 DEF Next, Loop, Command

\* hardware::loop renews what is too old.
LEMMA ValuesStep == MissionInv /\ [Next]_vars => ValuesOK'
<1> SUFFICES ASSUME MissionInv, [Next]_vars PROVE ValuesOK'
  OBVIOUS
<1> USE DEF Goto, Still
<1>a. TimesOK /\ ValuesOK
  BY DEF MissionInv
<1>1. CASE Top
  BY <1>1, <1>a DEF Top, ValuesOK, control
<1>2. CASE SetLock
  BY <1>2 DEF SetLock, ValuesOK
<1>3. CASE BeginLog
  BY <1>3 DEF BeginLog, ValuesOK
<1>4. CASE Unlog
  BY <1>4 DEF Unlog, ValuesOK
<1>5. CASE Reset
  BY <1>5 DEF Reset, ValuesOK
<1>6. CASE ResetHardware
  BY <1>6 DEF ResetHardware, ValuesOK
<1>7. CASE ResetLogging
  BY <1>7 DEF ResetLogging, ValuesOK
<1>8. CASE EndBatch
  BY <1>8, <1>a DEF EndBatch, ValuesOK, control
<1>9. CASE HardwareLoop
  <2> SUFFICES ASSUME NEW s \in Sensors PROVE stamp'[s] >= time' - s
    BY DEF ValuesOK
  <2>1. stamp'[s] = (IF now - stamp[s] > s THEN now ELSE stamp[s]) /\ time' =
     time
    BY <1>9 DEF HardwareLoop, Renew, Age
  <2>2. s \in Nat /\ stamp[s] \in Nat /\ now \in Nat /\ time \in Nat /\ time
     <= now
    BY <1>a, MissionAssumption DEF TimesOK
  <2> QED
    BY <2>1, <2>2
<1>10. CASE BeginPass
  BY <1>10, <1>a DEF BeginPass, ValuesOK, control
<1>11. CASE Visit
  BY <1>11, <1>a DEF Visit, ValuesOK, control
<1>12. CASE EndPass
  BY <1>12, <1>a DEF EndPass, ValuesOK, control
<1>13. CASE Wake
  BY <1>13, <1>a DEF Wake, ValuesOK, control
<1>14. CASE Tick
  BY <1>14, <1>a DEF Tick, ValuesOK, control
<1>15. CASE UNCHANGED vars
  BY <1>15, <1>a DEF ValuesOK, vars, control
<1> QED
  BY <1>1, <1>2, <1>3, <1>4, <1>5, <1>6, <1>7, <1>8, <1>9, <1>10, <1>11,
     <1>12, <1>13, <1>14, <1>15 DEF Next, Loop, Command

\* A reset relocks before the next command is dispatched.
LEMMA RelockedStep == MissionInv /\ [Next]_vars => RelockedOK'
<1> SUFFICES ASSUME MissionInv, [Next]_vars PROVE RelockedOK'
  OBVIOUS
<1> USE DEF Goto, Still
<1>a. TimesOK /\ RelockedOK
  BY DEF MissionInv
<1>1. CASE Top
  BY <1>1, <1>a DEF Top, RelockedOK, Dispatch, history, control, lock
<1>2. CASE SetLock
  <2>1. /\ now' >= now /\ now' \in Nat
        /\ relocked' = relocked \/ relocked' = now'
        /\ Lock!HardwareReset => relocked' = now'
    BY <1>2, <1>a, LockRuns DEF SetLock, TimesOK
  <2>2. reset_at' = reset_at /\ reset_at \in Nat /\ reset_at <= now /\ now \in
     Nat
    BY <1>2, <1>a DEF SetLock, TimesOK, history
  <2> QED
    BY <2>1, <2>2, <1>2, <1>a DEF SetLock, RelockedOK, Dispatch
<1>3. CASE BeginLog
  BY <1>3, <1>a DEF BeginLog, RelockedOK, Dispatch, history, control, lock
<1>4. CASE Unlog
  BY <1>4, <1>a DEF Unlog, RelockedOK, Dispatch, history, control, lock
<1>5. CASE Reset
  BY <1>5 DEF Reset, RelockedOK
<1>6. CASE ResetHardware
  <2>1. /\ now' >= now /\ now' \in Nat
        /\ relocked' = relocked \/ relocked' = now'
        /\ Lock!HardwareReset => relocked' = now'
    BY <1>6, <1>a, LockRuns DEF ResetHardware, TimesOK
  <2>2. reset_at' = reset_at /\ reset_at \in Nat /\ reset_at <= now /\ now \in
     Nat
    BY <1>6, <1>a DEF ResetHardware, TimesOK, history
  <2> QED
    BY <2>1, <2>2, <1>6, <1>a DEF ResetHardware, RelockedOK, Dispatch
<1>7. CASE ResetLogging
  BY <1>7, <1>a DEF ResetLogging, RelockedOK, Dispatch, history, control, lock
<1>8. CASE EndBatch
  BY <1>8, <1>a DEF EndBatch, RelockedOK, Dispatch, history, control, lock
<1>9. CASE HardwareLoop
  BY <1>9, <1>a DEF HardwareLoop, RelockedOK, Dispatch, history, control, lock
<1>10. CASE BeginPass
  BY <1>10, <1>a DEF BeginPass, RelockedOK, Dispatch, history, control, lock
<1>11. CASE Visit
  BY <1>11, <1>a DEF Visit, RelockedOK, Dispatch, history, control, lock
<1>12. CASE EndPass
  BY <1>12, <1>a DEF EndPass, RelockedOK, Dispatch, history, control, lock
<1>13. CASE Wake
  BY <1>13, <1>a DEF Wake, RelockedOK, Dispatch, history, control, lock
<1>14. CASE Tick
  BY <1>14, <1>a DEF Tick, RelockedOK, Dispatch, history, control, lock
<1>15. CASE UNCHANGED vars
  BY <1>15, <1>a DEF RelockedOK, vars, control, history, lock
<1> QED
  BY <1>1, <1>2, <1>3, <1>4, <1>5, <1>6, <1>7, <1>8, <1>9, <1>10, <1>11,
     <1>12, <1>13, <1>14, <1>15 DEF Next, Loop, Command

\* A reset clears the subscriptions before the next command.
LEMMA AskedStep == MissionInv /\ [Next]_vars => AskedOK'
<1> SUFFICES ASSUME MissionInv, [Next]_vars PROVE AskedOK'
  OBVIOUS
<1> USE DEF Goto, Still
<1>a. AskedOK
  BY DEF MissionInv
<1>1. CASE Top
  BY <1>1, <1>a DEF Top, AskedOK, Dispatch, history, control, schedule
<1>2. CASE SetLock
  BY <1>2, <1>a DEF SetLock, AskedOK, Dispatch, history, control, schedule
<1>3. CASE BeginLog
  BY <1>3, <1>a DEF BeginLog, Log!AddLog, Log!Put, AskedOK, Dispatch, history,
     control, schedule
<1>4. CASE Unlog
  <2>1. DOMAIN logs' \subseteq DOMAIN logs
    BY <1>4 DEF Unlog, Log!ClearLogs, Log!RemoveLog, Log!Erase, Log!Restrict,
       Log!Empty
  <2> QED
    BY <2>1, <1>4, <1>a DEF Unlog, AskedOK, Dispatch, history, control,
       schedule
<1>5. CASE Reset
  BY <1>5, <1>a DEF Reset, AskedOK, Dispatch, history, control, schedule
<1>6. CASE ResetHardware
  BY <1>6, <1>a DEF ResetHardware, AskedOK, Dispatch, history, control,
     schedule
<1>7. CASE ResetLogging
  <2>1. DOMAIN logs' = {}
    BY <1>7 DEF ResetLogging, Log!ClearLogs, Log!Empty
  <2> QED
    BY <2>1 DEF AskedOK
<1>8. CASE EndBatch
  BY <1>8, <1>a DEF EndBatch, AskedOK, Dispatch, history, control, schedule
<1>9. CASE HardwareLoop
  BY <1>9, <1>a DEF HardwareLoop, AskedOK, Dispatch, history, control,
     schedule
<1>10. CASE BeginPass
  <2>1. logs' = logs
    BY <1>10 DEF BeginPass, Log!AddLog, Log!RemoveLog, Log!ClearLogs,
       Log!BeginPass, Log!SendFirst, Log!SendNext, Log!Skip, Log!EndPass,
       Log!Visit, Log!schedule
  <2> QED
    BY <2>1, <1>10, <1>a DEF BeginPass, AskedOK, Dispatch, history, control,
       schedule
<1>11. CASE Visit
  <2>1. logs' = logs
    BY <1>11 DEF Visit, Log!AddLog, Log!RemoveLog, Log!ClearLogs,
       Log!BeginPass, Log!SendFirst, Log!SendNext, Log!Skip, Log!EndPass,
       Log!Visit, Log!schedule
  <2> QED
    BY <2>1, <1>11, <1>a DEF Visit, AskedOK, Dispatch, history, control,
       schedule
<1>12. CASE EndPass
  <2>1. logs' = logs
    BY <1>12 DEF EndPass, Log!AddLog, Log!RemoveLog, Log!ClearLogs,
       Log!BeginPass, Log!SendFirst, Log!SendNext, Log!Skip, Log!EndPass,
       Log!Visit, Log!schedule
  <2> QED
    BY <2>1, <1>12, <1>a DEF EndPass, AskedOK, Dispatch, history, control,
       schedule
<1>13. CASE Wake
  BY <1>13, <1>a DEF Wake, AskedOK, Dispatch, history, control, schedule
<1>14. CASE Tick
  BY <1>14, <1>a DEF Tick, AskedOK, Dispatch, history, control, schedule
<1>15. CASE UNCHANGED vars
  BY <1>15, <1>a DEF AskedOK, vars, control, history, schedule
<1> QED
  BY <1>1, <1>2, <1>3, <1>4, <1>5, <1>6, <1>7, <1>8, <1>9, <1>10, <1>11,
     <1>12, <1>13, <1>14, <1>15 DEF Next, Loop, Command

\* What removeLog does to the tables.
LEMMA TablesErased ==
  ASSUME TablesOK, NEW id \in Ids, Log!RemoveLog(id)
  PROVE  /\ DOMAIN logs' \subseteq DOMAIN logs
         /\ DOMAIN last_sent' \subseteq DOMAIN last_sent
         /\ DOMAIN sent_at' = DOMAIN last_sent'
         /\ \A x \in DOMAIN logs' : logs'[x] = logs[x]
         /\ \A x \in DOMAIN last_sent' : last_sent'[x] = last_sent[x]
BY DEF TablesOK, Log!RemoveLog, Log!Erase, Log!Restrict

\* What a packet does to them.
LEMMA TablesSent ==
  ASSUME TablesOK, now \in Nat, NEW id \in Ids, id \in DOMAIN logs,
         Log!SendFirst(id) \/ Log!SendNext(id)
  PROVE  /\ DOMAIN last_sent' = DOMAIN last_sent \union {id}
         /\ DOMAIN sent_at' = DOMAIN sent_at \union {id}
         /\ sent_at'[id] = now /\ last_sent'[id] \in Nat
         /\ \A x \in DOMAIN last_sent : x # id =>
              last_sent'[x] = last_sent[x] /\ sent_at'[x] = sent_at[x]
         /\ logs' = logs /\ todo' = todo \ {id} /\ UNCHANGED now
<1>1. CASE Log!SendFirst(id)
  BY <1>1 DEF Log!SendFirst, Log!Visit, Log!Put, TablesOK
<1>2. CASE Log!SendNext(id)
  <2>1. last_sent[id] + logs[id] \in Nat /\ id \in DOMAIN last_sent
    BY <1>2 DEF Log!SendNext, TablesOK
  <2> QED
    BY <1>2, <2>1 DEF Log!SendNext, Log!Visit, TablesOK
<1> QED
  BY <1>1, <1>2

\* The tables of the logs keep their types.
LEMMA TablesStep == MissionInv /\ [Next]_vars => TablesOK'
<1> SUFFICES ASSUME MissionInv, [Next]_vars PROVE TablesOK'
  OBVIOUS
<1> USE DEF Goto, Still
<1>a. TimesOK /\ TablesOK
  BY DEF MissionInv
<1>1. CASE Top
  <2>1. UNCHANGED <<logs, last_sent, sent_at, todo>>
    BY <1>1 DEF Top, schedule, Dispatch
  <2> QED
    BY <2>1, <1>1, <1>a DEF Top, TablesOK, control
<1>2. CASE SetLock
  <2>1. UNCHANGED <<logs, last_sent, sent_at, todo>>
    BY <1>2 DEF SetLock, schedule, Dispatch
  <2> QED
    BY <2>1, <1>2, <1>a DEF SetLock, TablesOK, control
<1>3. CASE BeginLog
  <2>1. PICK id \in Ids, period \in Periods : Log!AddLog(id, period)
    BY <1>3 DEF BeginLog
  <2>2. period \in Nat /\ UNCHANGED <<last_sent, sent_at>>
    BY <2>1, MissionAssumption DEF Log!AddLog
  <2>3. \A x \in DOMAIN logs' : logs'[x] \in Nat
    BY <2>1, <2>2, <1>a DEF Log!AddLog, Log!Put, TablesOK
  <2> QED
    BY <2>2, <2>3, <1>3, <1>a DEF BeginLog, TablesOK
<1>4. CASE Unlog
  <2>1. CASE Log!ClearLogs
    BY <2>1, <1>4 DEF Unlog, Log!ClearLogs, Log!Empty, TablesOK
  <2>2. CASE \E id \in Ids : Log!RemoveLog(id)
    BY <2>2, <1>4, <1>a, TablesErased DEF Unlog, TablesOK
  <2> QED
    BY <2>1, <2>2, <1>4 DEF Unlog
<1>5. CASE Reset
  <2>1. UNCHANGED <<logs, last_sent, sent_at, todo>>
    BY <1>5 DEF Reset, schedule, Dispatch
  <2> QED
    BY <2>1, <1>5, <1>a DEF Reset, TablesOK, control
<1>6. CASE ResetHardware
  <2>1. UNCHANGED <<logs, last_sent, sent_at, todo>>
    BY <1>6 DEF ResetHardware, schedule, Dispatch
  <2> QED
    BY <2>1, <1>6, <1>a DEF ResetHardware, TablesOK, control
<1>7. CASE ResetLogging
  <2>1. CASE Log!ClearLogs
    BY <2>1, <1>7 DEF ResetLogging, Log!ClearLogs, Log!Empty, TablesOK
  <2> QED
    BY <2>1, <1>7 DEF ResetLogging
<1>8. CASE EndBatch
  <2>1. UNCHANGED <<logs, last_sent, sent_at, todo>>
    BY <1>8 DEF EndBatch, schedule, Dispatch
  <2> QED
    BY <2>1, <1>8, <1>a DEF EndBatch, TablesOK, control
<1>9. CASE HardwareLoop
  <2>1. UNCHANGED <<logs, last_sent, sent_at, todo>>
    BY <1>9 DEF HardwareLoop, schedule, Dispatch
  <2> QED
    BY <2>1, <1>9, <1>a DEF HardwareLoop, TablesOK, control
<1>10. CASE BeginPass
  BY <1>10, <1>a DEF BeginPass, Log!BeginPass, Log!schedule, TablesOK
<1>11. CASE Visit
  <2>1. pc = "pass" /\ now \in Nat /\ todo \subseteq DOMAIN logs
    BY <1>11, <1>a DEF Visit, TablesOK, TimesOK
  <2>2. CASE \E id \in Ids : Log!Skip(id)
    BY <2>1, <2>2, <1>a DEF Log!Skip, Log!Visit, Log!schedule, TablesOK
  <2>3. ASSUME NEW id \in Ids, Log!SendFirst(id) \/ Log!SendNext(id)
        PROVE  TablesOK'
    <3>1. id \in todo
      BY <2>3 DEF Log!SendFirst, Log!SendNext, Log!Visit
    <3> QED
      BY <2>1, <2>3, <3>1, <1>a, TablesSent DEF TablesOK
  <2> QED
    BY <2>2, <2>3, <1>11 DEF Visit
<1>12. CASE EndPass
  BY <1>12, <1>a DEF EndPass, Log!EndPass, Log!schedule, TablesOK
<1>13. CASE Wake
  <2>1. UNCHANGED <<logs, last_sent, sent_at, todo>>
    BY <1>13 DEF Wake, schedule, Dispatch
  <2> QED
    BY <2>1, <1>13, <1>a DEF Wake, TablesOK, control
<1>14. CASE Tick
  <2>1. UNCHANGED <<logs, last_sent, sent_at, todo>>
    BY <1>14 DEF Tick, schedule, Dispatch
  <2> QED
    BY <2>1, <1>14, <1>a DEF Tick, TablesOK, control
<1>15. CASE UNCHANGED vars
  BY <1>15, <1>a DEF TablesOK, vars, control, schedule
<1> QED
  BY <1>1, <1>2, <1>3, <1>4, <1>5, <1>6, <1>7, <1>8, <1>9, <1>10, <1>11,
     <1>12, <1>13, <1>14, <1>15 DEF Next, Loop, Command

\* A pass serves one log after the other.
LEMMA ServedStep == MissionInv /\ [Next]_vars => ServedOK'
<1> SUFFICES ASSUME MissionInv, [Next]_vars PROVE ServedOK'
  OBVIOUS
<1> USE DEF Goto, Still
<1>a. TimesOK /\ TablesOK /\ ServedOK
  BY DEF MissionInv
<1>1. CASE Top
  BY <1>1 DEF Top, ServedOK
<1>2. CASE SetLock
  BY <1>2 DEF SetLock, ServedOK
<1>3. CASE BeginLog
  BY <1>3 DEF BeginLog, ServedOK
<1>4. CASE Unlog
  BY <1>4 DEF Unlog, ServedOK
<1>5. CASE Reset
  BY <1>5 DEF Reset, ServedOK
<1>6. CASE ResetHardware
  BY <1>6 DEF ResetHardware, ServedOK
<1>7. CASE ResetLogging
  BY <1>7 DEF ResetLogging, ServedOK
<1>8. CASE EndBatch
  BY <1>8 DEF EndBatch, ServedOK
<1>9. CASE HardwareLoop
  BY <1>9 DEF HardwareLoop, ServedOK
<1>10. CASE BeginPass
  <2>1. todo' = DOMAIN logs' /\ pc' = "pass"
    BY <1>10 DEF BeginPass, Log!BeginPass, Log!schedule
  <2> QED
    BY <2>1 DEF ServedOK
<1>11. CASE Visit
  <2>1. /\ pc = "pass" /\ pc' = "pass" /\ time' = time
        /\ todo \subseteq DOMAIN logs
    BY <1>11, <1>a DEF Visit, TablesOK
  <2>2. now \in Nat /\ time \in Nat /\ time <= now
    BY <1>a DEF TimesOK
  <2>3. ASSUME NEW id \in Ids, Log!Skip(id) PROVE ServedOK'
    <3>1. UNCHANGED <<logs, last_sent, sent_at>> /\ todo' = todo \ {id}
      BY <2>3 DEF Log!Skip, Log!Visit, Log!schedule
    <3>2. ASSUME id \in DOMAIN logs \intersect Recipes PROVE Served(id)
      <4>1. id \in DOMAIN last_sent /\ ~(now - last_sent[id] >= logs[id])
        BY <2>3, <3>2 DEF Log!Skip, Log!Due
      <4>2. last_sent[id] \in Nat /\ logs[id] \in Nat
        BY <3>2, <4>1, <1>a DEF TablesOK
      <4>3. time - last_sent[id] < logs[id]
        BY <4>1, <4>2, <2>2
      <4> QED
        BY <4>1, <4>3 DEF Served
    <3>3. \A x : Served(x) => Served(x)'
      BY <2>1, <3>1 DEF Served
    <3> QED
      BY <2>1, <3>1, <3>2, <3>3, <1>a DEF ServedOK
  <2>4. ASSUME NEW id \in Ids, Log!SendFirst(id) \/ Log!SendNext(id)
        PROVE  ServedOK'
    <3>1. id \in todo /\ id \in DOMAIN logs
      BY <2>1, <2>4 DEF Log!SendFirst, Log!SendNext, Log!Visit
    <3>2. /\ DOMAIN last_sent' = DOMAIN last_sent \union {id}
          /\ sent_at'[id] = now
          /\ logs' = logs /\ todo' = todo \ {id}
          /\ \A x \in DOMAIN last_sent : x # id =>
               last_sent'[x] = last_sent[x] /\ sent_at'[x] = sent_at[x]
      BY <2>2, <2>4, <3>1, <1>a, TablesSent
    <3>a. sent_at'[id] >= time'
      BY <2>1, <2>2, <3>2
    <3>3. Served(id)'
      BY <3>2, <3>a DEF Served
    <3>4. \A x : x # id /\ Served(x) => Served(x)'
      BY <2>1, <3>2 DEF Served
    <3> QED
      BY <2>1, <3>2, <3>3, <3>4, <1>a DEF ServedOK
  <2> QED
    BY <2>3, <2>4, <1>11 DEF Visit
<1>12. CASE EndPass
  <2>1. /\ UNCHANGED <<logs, last_sent, sent_at, todo, time>> /\ pc = "pass"
        /\ todo = {}
    BY <1>12 DEF EndPass, Log!EndPass, Log!schedule
  <2> QED
    BY <2>1, <1>a DEF ServedOK, Served
<1>13. CASE Wake
  BY <1>13 DEF Wake, ServedOK
<1>14. CASE Tick
  <2>1. UNCHANGED <<logs, last_sent, sent_at, todo, time, pc>>
    BY <1>14 DEF Tick, schedule, control
  <2> QED
    BY <2>1, <1>a DEF ServedOK, Served
<1>15. CASE UNCHANGED vars
  BY <1>15, <1>a DEF ServedOK, Served, vars, control, schedule
<1> QED
  BY <1>1, <1>2, <1>3, <1>4, <1>5, <1>6, <1>7, <1>8, <1>9, <1>10, <1>11,
     <1>12, <1>13, <1>14, <1>15 DEF Next, Loop, Command

\* The mission keeps MissionInv.
THEOREM MissionCorrect == Spec => []MissionInv
<1>1. MissionInv /\ [Next]_vars => MissionInv'
  BY TimesStep, ValuesStep, RelockedStep, AskedStep, TablesStep, ServedStep
  DEF MissionInv
<1> QED
  BY <1>1, MissionInit, PTL DEF Spec

\* What a packet says was measured within the sensor's period before the time
\* it carries (src/hardware.cpp:34, src/main.cpp:40).
THEOREM ValuesAreCurrent == Spec => []ValuesCurrent
<1>1. MissionInv => ValuesCurrent
  BY DEF MissionInv, ValuesOK, ValuesCurrent
<1> QED
  BY <1>1, MissionCorrect, PTL

\* A log that is due when an iteration begins has had its packet when it ends
\* (src/logging.cpp:62).
THEOREM LogsAreServedInTime == Spec => []ServedInTime
<1>1. MissionInv => ServedInTime
  BY DEF MissionInv, ServedOK, Served, ServedInTime
<1> QED
  BY <1>1, MissionCorrect, PTL

\* After a reset the lock opens only with all cooldowns, and no subscription
\* is left (src/control.cpp:93).
THEOREM ResetsForget == Spec => []ResetForgets
<1>1. MissionInv /\ LockTheorems!LockInv => ResetForgets
  <2> SUFFICES ASSUME MissionInv, LockTheorems!LockInv,
                      pc \notin {"hardware::reset", "logging::reset"}
               PROVE  /\ next_lock = MaxLock => now - reset_at >= MaxLock * Cooldown
                      /\ DOMAIN logs \subseteq asked
    BY DEF ResetForgets
  <2>1. DOMAIN logs \subseteq asked
    BY DEF MissionInv, AskedOK
  <2>2. ASSUME next_lock = MaxLock PROVE now - reset_at >= MaxLock * Cooldown
    <3> DEFINE delay == MaxLock * Cooldown
    <3>1. delay \in Nat
      BY MissionAssumption
    <3>2. last_updated - relocked >= delay /\ last_updated <= now
      BY <2>2 DEF LockTheorems!LockInv, LockTheorems!StampTracksStages
    <3>3. last_updated \in Nat /\ relocked \in Nat /\ now \in Nat
      BY DEF LockTheorems!LockInv, LockTheorems!TypeOK
    <3>4. reset_at \in Nat /\ reset_at <= relocked
      BY DEF MissionInv, TimesOK, RelockedOK
    <3> HIDE DEF delay
    <3>5. now - reset_at >= delay
      BY <3>1, <3>2, <3>3, <3>4
    <3> QED
      BY <3>5 DEF delay
  <2> QED
    BY <2>1, <2>2
<1> QED
  BY <1>1, MissionCorrect, MissionKeepsLock, PTL

-----------------------------------------------------------------------------
(***************************************************************************)
(* What Mission drives keeps the specifications it is composed of, so that *)
(* what is proved of the parts holds of the whole.                         *)
(***************************************************************************)
LogTheorems == INSTANCE TelemetryProofs

\* The assumptions of Telemetry are among those of Mission.
LEMMA LogConstants == LogTheorems!TelemetryAssumption
BY MissionAssumption DEF LogTheorems!TelemetryAssumption

\* TelemetryProofs speaks of the same commands as Mission.
LEMMA SameTable ==
  /\ \A id \in Ids, period \in Periods :
       Log!AddLog(id, period) => LogTheorems!AddLog(id, period)
  /\ \A id \in Ids : Log!RemoveLog(id) => LogTheorems!RemoveLog(id)
  /\ Log!ClearLogs => LogTheorems!ClearLogs
<1>1. \A id \in Ids, period \in Periods :
        Log!AddLog(id, period) => LogTheorems!AddLog(id, period)
  BY DEF Log!AddLog, LogTheorems!AddLog, Log!Put, LogTheorems!Put
<1>2. \A id \in Ids : Log!RemoveLog(id) => LogTheorems!RemoveLog(id)
  BY DEF Log!RemoveLog, LogTheorems!RemoveLog, Log!Erase, LogTheorems!Erase,
     Log!Restrict, LogTheorems!Restrict
<1>3. Log!ClearLogs => LogTheorems!ClearLogs
  BY DEF Log!ClearLogs, LogTheorems!ClearLogs, Log!Empty, LogTheorems!Empty
<1> QED
  BY <1>1, <1>2, <1>3

\* .. and of the same pass.
LEMMA SamePass ==
  /\ Log!BeginPass => LogTheorems!BeginPass
  /\ Log!EndPass => LogTheorems!EndPass
  /\ \A id \in Ids :
       /\ Log!SendFirst(id) => LogTheorems!SendFirst(id)
       /\ Log!SendNext(id) => LogTheorems!SendNext(id)
       /\ Log!Skip(id) => LogTheorems!Skip(id)
<1> USE DEF Log!Visit, LogTheorems!Visit, Log!Due, LogTheorems!Due,
            Log!schedule, LogTheorems!schedule, Log!Put, LogTheorems!Put
<1>1. Log!BeginPass => LogTheorems!BeginPass
  BY DEF Log!BeginPass, LogTheorems!BeginPass
<1>2. Log!EndPass => LogTheorems!EndPass
  BY DEF Log!EndPass, LogTheorems!EndPass
<1>3. \A id \in Ids : Log!SendFirst(id) => LogTheorems!SendFirst(id)
  BY DEF Log!SendFirst, LogTheorems!SendFirst
<1>4. \A id \in Ids : Log!SendNext(id) => LogTheorems!SendNext(id)
  BY DEF Log!SendNext, LogTheorems!SendNext
<1>5. \A id \in Ids : Log!Skip(id) => LogTheorems!Skip(id)
  BY DEF Log!Skip, LogTheorems!Skip
<1> QED
  BY <1>1, <1>2, <1>3, <1>4, <1>5

\* The delay of a call of the lock is, for the schedule, time that passes.
LEMMA LagIsTick ==
  ASSUME now \in Nat, Lock!SetLock \/ Lock!HardwareReset, UNCHANGED schedule
  PROVE  LogTheorems!Tick \/ UNCHANGED LogTheorems!vars
<1>1. \A t \in Lock!Later : t = now \/ t \in now + 1 .. MaxTime
  BY MissionAssumption DEF Lock!Later
<1>2. CASE Lock!HardwareReset
  <2>1. now' \in Lock!Later
    BY <1>2 DEF Lock!HardwareReset, Lock!Relock, Lock!Update
  <2> QED
    BY <1>1, <2>1 DEF schedule, LogTheorems!Tick, LogTheorems!schedule,
       LogTheorems!vars
<1>3. CASE Lock!SetLock
  <2>1. now' \in Lock!Later \/ now' = now
    BY <1>3 DEF Lock!SetLock, Lock!Lock, Lock!UnlockIgnored,
       Lock!UnlockAccepted, Lock!UnlockRejected, Lock!Relock, Lock!Update
  <2> QED
    BY <1>1, <2>1 DEF schedule, LogTheorems!Tick, LogTheorems!schedule,
       LogTheorems!vars
<1> QED
  BY <1>2, <1>3

\* Each step of the mission is a step of the schedule, or none.
LEMMA LogStep ==
  MissionInv /\ [Next]_vars => [LogTheorems!Next]_(LogTheorems!vars)
<1> SUFFICES ASSUME MissionInv, [Next]_vars
             PROVE  [LogTheorems!Next]_(LogTheorems!vars)
  OBVIOUS
<1> USE DEF LogTheorems!Next, LogTheorems!Command, LogTheorems!Loop
<1>a. now \in Nat
  BY DEF MissionInv, TimesOK
<1>1. CASE Top \/ Reset \/ EndBatch \/ HardwareLoop \/ Wake \/ UNCHANGED vars
  BY <1>1 DEF Top, Reset, EndBatch, HardwareLoop, Wake, vars, schedule,
     LogTheorems!vars
<1>2. CASE SetLock
  BY <1>2, <1>a, LagIsTick DEF SetLock
<1>3. CASE BeginLog
  BY <1>3, SameTable DEF BeginLog
<1>4. CASE Unlog
  BY <1>4, SameTable DEF Unlog
<1>5. CASE ResetHardware
  BY <1>5, <1>a, LagIsTick DEF ResetHardware
<1>6. CASE ResetLogging
  BY <1>6, SameTable DEF ResetLogging
<1>7. CASE BeginPass
  BY <1>7, SamePass DEF BeginPass
<1>8. CASE Visit
  BY <1>8, SamePass DEF Visit
<1>9. CASE EndPass
  BY <1>9, SamePass DEF EndPass
<1>10. CASE Tick
  <2>1. now' \in now + 1 .. MaxTime
    BY <1>10, <1>a, MissionAssumption DEF Tick
  <2> QED
    BY <1>10, <2>1 DEF Tick, schedule, LogTheorems!Tick, LogTheorems!schedule
<1> QED
  BY <1>1, <1>2, <1>3, <1>4, <1>5, <1>6, <1>7, <1>8, <1>9, <1>10
     DEF Next, Loop, Command

\* The loop that drives it implements the schedule: its commands never come
\* in the middle of a pass, and a delay anywhere is only time that passes.
\* This is TelemetrySpec without its fairness.
THEOREM MissionDrivesTelemetry ==
  Spec => LogTheorems!Init /\ [][LogTheorems!Next]_(LogTheorems!vars)
<1>1. Init => LogTheorems!Init
  BY DEF Init, Log!Init, LogTheorems!Init, Log!Empty, LogTheorems!Empty
<1> QED
  BY <1>1, LogStep, MissionCorrect, PTL DEF Spec

\* So what holds of the schedule by itself holds between the commands, the
\* resets and the stalls of the mission: a log has at most one packet per
\* period of the time from where its schedule stood when the period was set,
\* its schedule never gets ahead, and only what is subscribed has one.
THEOREM MissionKeepsRates ==
  Spec => [](LogTheorems!RateBound /\ LogTheorems!ScheduleLags
               /\ LogTheorems!SchedulesSubscribed)
<1> DEFINE Schedule == LogTheorems!Init /\ [][LogTheorems!Next]_(LogTheorems!vars)
<1>1. Schedule => []LogTheorems!TelemetryInv
  BY LogConstants, LogTheorems!TelemetryInit, LogTheorems!TelemetryStep, PTL
<1>2. LogTheorems!TelemetryInv => LogTheorems!RateBound
                                  /\ LogTheorems!ScheduleLags
                                  /\ LogTheorems!SchedulesSubscribed
  BY LogConstants, LogTheorems!InvImplies
<1> QED
  BY <1>1, <1>2, MissionDrivesTelemetry, PTL

\* The motor is released only after all cooldowns since it was relocked, in
\* the loop with all that delays it (MotorArming).
THEOREM MissionArms == Spec => LockTheorems!ArmingSpec
<1>1. Init => LockTheorems!Init
  BY DEF Init, Lock!Init, LockTheorems!Init, Lock!Stages, LockTheorems!Stages
<1>2. LockTheorems!Spec => LockTheorems!ArmingSpec
  BY LockConstants, LockTheorems!LockRefinesArming
<1> QED
  BY <1>1, <1>2, LockStep, PTL DEF Spec, LockTheorems!Spec
=============================================================================
