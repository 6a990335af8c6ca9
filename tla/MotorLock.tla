----------------------------- MODULE MotorLock -----------------------------
(***************************************************************************)
(* The software lock of the motor (src/hardware.cpp): a stage counter      *)
(* next_lock, wrapped in timestamped<uint8_t>, that the /ground/set-lock   *)
(* command drives.  The codes 0, 1, .., MaxLock - 1 must be received in    *)
(* that order, each at least Cooldown after the previous change.           *)
(*                                                                         *)
(* One call reads the steady clock twice, once in age() and once in        *)
(* update(); Lag is the time that may pass between the two readings.       *)
(***************************************************************************)
EXTENDS Integers

CONSTANTS Codes,     \* the codes the ground station may send
          MaxLock,   \* hardware::max_lock
          Cooldown,  \* cfg::motor_lock_cooldown
          MaxLag,    \* longest delay between two clock readings of a call
          MaxTime    \* bound on the clock

ASSUME LockAssumption ==
  /\ Codes \subseteq Nat
  /\ MaxLock \in Nat \ {0}
  /\ Cooldown \in Nat
  /\ MaxLag \in Nat
  /\ MaxTime \in Nat

VARIABLES now,           \* std::chrono::steady_clock
          next_lock,     \* the stage: next_lock.data
          last_updated,  \* next_lock.last_updated
          relocked,      \* history: when next_lock was last set to 0
          accepted,      \* history: when each stage was last disengaged
          disorder       \* history: the last code was out of order, and not early

vars == <<now, next_lock, last_updated, relocked, accepted, disorder>>

Stages == 0 .. MaxLock - 1

\* hardware::isLocked()
isLocked == next_lock < MaxLock

\* Fault variant: the stamp is that of the last relock.
AgeOfRelock == now - relocked

\* timestamped::age() of next_lock
Age == now - last_updated

\* The clock readings that a call begun at `now` may obtain later.
Later == {t \in now .. now + MaxLag : t <= MaxTime}

\* timestamped::update(newdata): the data, then the clock.
Update(stage, t) ==
  /\ next_lock' = stage
  /\ last_updated' = t
  /\ now' = t

\* Fault variant: the data is written past operator=, without a stamp.
RelockUnstamped(t) ==
  /\ next_lock' = 0 /\ now' = t
  /\ relocked' = t
  /\ UNCHANGED <<last_updated, accepted>>

\* The assignment next_lock = 0, wherever it occurs.
Relock(t) ==
  /\ Update(0, t)
  /\ relocked' = t
  /\ UNCHANGED accepted
-----------------------------------------------------------------------------
Init ==
  /\ now = 0
  /\ next_lock = 0
  /\ last_updated = 0
  /\ relocked = 0
  /\ accepted = [k \in Stages |-> 0]
  /\ disorder = FALSE

\* unlock(code) returns at once when every stage is open or when the lock
\* changed less than Cooldown ago.
UnlockIgnored(code) ==
  /\ next_lock = MaxLock \/ Age < Cooldown
  /\ disorder' = (Age >= Cooldown /\ code # next_lock)
  /\ UNCHANGED <<now, next_lock, last_updated, relocked, accepted>>

\* Fault variant: the cooldown is not tested.
UnlockAcceptedEager(code) ==
  /\ next_lock # MaxLock
  /\ code = next_lock
  /\ \E t \in Later : /\ Update(next_lock + 1, t)
                      /\ accepted' = [accepted EXCEPT ![next_lock] = t]
  /\ disorder' = FALSE
  /\ UNCHANGED relocked

\* Fault variant: the counter is not stopped at max_lock.
UnlockAcceptedPastEnd(code) ==
  /\ Age >= Cooldown
  /\ code = next_lock
  /\ \E t \in Later : /\ Update(next_lock + 1, t)
                      /\ accepted' = [accepted EXCEPT ![next_lock] = t]
  /\ disorder' = FALSE
  /\ UNCHANGED relocked

\* unlock(code) with the expected code opens the next stage.
UnlockAccepted(code) ==
  /\ next_lock # MaxLock /\ Age >= Cooldown
  /\ code = next_lock
  /\ \E t \in Later : /\ Update(next_lock + 1, t)
                      /\ accepted' = [accepted EXCEPT ![next_lock] = t]
  /\ disorder' = FALSE
  /\ UNCHANGED relocked

\* unlock(code) with any other code relocks every stage.
UnlockRejected(code) ==
  /\ next_lock # MaxLock /\ Age >= Cooldown
  /\ code # next_lock
  /\ \E t \in Later : Relock(t)
  /\ disorder' = TRUE

\* lock(), the /ground/set-lock command without payload.
Lock ==
  /\ \E t \in Later : Relock(t)
  /\ disorder' = FALSE

\* hardware::reset() calls init(), which relocks.
HardwareReset ==
  /\ \E t \in Later : Relock(t)
  /\ disorder' = FALSE

\* /ground/set-lock: no payload locks, one byte is a code; a longer payload
\* changes nothing.
SetLock ==
  \/ Lock
  \/ \E code \in Codes : \/ UnlockIgnored(code)
                         \/ UnlockAccepted(code)
                         \/ UnlockRejected(code)

Tick ==
  /\ now < MaxTime
  /\ now' = now + 1
  /\ UNCHANGED <<next_lock, last_updated, relocked, accepted, disorder>>

Next == SetLock \/ HardwareReset \/ Tick

Spec == Init /\ [][Next]_vars
-----------------------------------------------------------------------------
TypeOK ==
  /\ now \in Nat /\ last_updated \in Nat /\ relocked \in Nat
  /\ next_lock \in 0 .. MaxLock
  /\ accepted \in [Stages -> Nat]
  /\ disorder \in BOOLEAN

\* Each disengaged stage was opened at least a cooldown after the stage
\* before it, and the first one at least a cooldown after the last relock:
\* no sequence of codes, delays and relocks lets a stage be inherited from
\* before a relock or two stages fall in one cooldown.
StagesInOrder ==
  \A k \in 0 .. next_lock - 1 :
    accepted[k] >= Cooldown + (IF k = 0 THEN relocked ELSE accepted[k - 1])

\* The stamp is never ahead of the clock, is the time of the last accepted
\* code or of the last relock, and lies one cooldown per open stage after
\* the last relock.
StampTracksStages ==
  /\ last_updated <= now
  /\ last_updated = (IF next_lock = 0 THEN relocked ELSE accepted[next_lock - 1])
  /\ last_updated - relocked >= next_lock * Cooldown

LockInv == TypeOK /\ StagesInOrder /\ StampTracksStages

\* The lock implements MotorArming: it is unlocked only MaxLock cooldowns
\* after it was last relocked.
Arming == INSTANCE MotorArming WITH MinDelay <- MaxLock * Cooldown,
                                    locked <- isLocked, since <- relocked
ArmingSpec == Arming!Spec

\* include/hardware.h:37 says of unlock(): "Receipt of these codes out of
\* order will re-lock all motor locks."  A code that comes within the cooldown
\* is left out: the cooldown is documented too (include/config.h:24).
OutOfOrderRelocks == disorder => next_lock = 0
=============================================================================
