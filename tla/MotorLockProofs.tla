-------------------------- MODULE MotorLockProofs --------------------------
(***************************************************************************)
(* Theorems about MotorLock for every set of codes, every number of        *)
(* stages, every cooldown and every clock lag.  The inductive invariant is *)
(* LockInv: the order of the stages alone says nothing about last_updated, *)
(* which is what the guard of the next code reads, so the invariant adds   *)
(* that the stamp is the time of the last stage or of the last relock.     *)
(***************************************************************************)
EXTENDS MotorLock, TLAPS

\* A clock reading taken within a call is a time no earlier than `now`.
LEMMA LaterIsLater ==
  ASSUME now \in Nat, NEW t \in Later
  PROVE  t \in Nat /\ t >= now
BY LockAssumption DEF Later

\* The initial state satisfies the inductive invariant.
LEMMA InitEstablishes == Init => LockInv
<1> SUFFICES ASSUME Init PROVE LockInv
  OBVIOUS
<1>1. disorder \in BOOLEAN
  BY DEF Init
<1>2. accepted \in [Stages -> Nat]
  BY DEF Init
<1>3. TypeOK
  BY <1>1, <1>2, LockAssumption DEF Init, TypeOK
<1>4. StagesInOrder
  BY DEF Init, StagesInOrder
<1>5. StampTracksStages
  <2>1. 0 * Cooldown = 0
    BY LockAssumption
  <2> QED
    BY <2>1 DEF Init, StampTracksStages
<1> QED
  BY <1>3, <1>4, <1>5 DEF LockInv

\* Relocking, by lock(), by a wrong code or by reset(), empties the history
\* the invariant speaks of and keeps the stamp and the relock together.
LEMMA RelockPreserves ==
  ASSUME LockInv, NEW t \in Later, Relock(t), disorder' \in BOOLEAN
  PROVE  LockInv'
<1>1. t \in Nat /\ t >= now
  BY LaterIsLater DEF LockInv, TypeOK
<1>2. /\ next_lock' = 0 /\ last_updated' = t /\ now' = t
      /\ relocked' = t /\ accepted' = accepted
  BY DEF Relock, Update
<1>3. TypeOK'
  BY <1>1, <1>2, LockAssumption DEF LockInv, TypeOK
<1>4. StagesInOrder'
  BY <1>2 DEF StagesInOrder
<1>5. StampTracksStages'
  BY <1>1, <1>2, LockAssumption DEF StampTracksStages
<1> QED
  BY <1>3, <1>4, <1>5 DEF LockInv

\* Opening a stage: the guard makes the new stamp a cooldown later than the
\* old one, which the invariant knows to be the time of the stage before.
LEMMA AcceptPreserves ==
  ASSUME LockInv, NEW code \in Codes, UnlockAccepted(code)
  PROVE  LockInv'
<1>1. PICK t \in Later : /\ Update(next_lock + 1, t)
                         /\ accepted' = [accepted EXCEPT ![next_lock] = t]
  BY DEF UnlockAccepted
<1>2. t \in Nat /\ t >= now
  BY LaterIsLater DEF LockInv, TypeOK
<1>3. /\ next_lock' = next_lock + 1 /\ last_updated' = t /\ now' = t
      /\ relocked' = relocked /\ disorder' = FALSE
  BY <1>1 DEF Update, UnlockAccepted
<1>4. next_lock \in Stages
  BY LockAssumption DEF UnlockAccepted, LockInv, TypeOK, Stages
<1>5. /\ accepted' \in [Stages -> Nat]
      /\ accepted'[next_lock] = t
      /\ \A k \in Stages : k # next_lock => accepted'[k] = accepted[k]
  BY <1>1, <1>2, <1>4 DEF LockInv, TypeOK
<1>6. t >= last_updated + Cooldown
  BY <1>2, LockAssumption DEF UnlockAccepted, Age, LockInv, TypeOK
<1>7. TypeOK'
  <2>1. disorder' \in BOOLEAN
    BY <1>3
  <2>2. next_lock' \in 0 .. MaxLock
    BY <1>3, <1>4, LockAssumption DEF Stages
  <2>3. now' \in Nat /\ last_updated' \in Nat /\ relocked' \in Nat
    BY <1>2, <1>3 DEF LockInv, TypeOK
  <2> QED
    BY <1>5, <2>1, <2>2, <2>3 DEF TypeOK
<1>8. StagesInOrder'
  <2> SUFFICES ASSUME NEW k \in 0 .. next_lock
               PROVE  accepted'[k] >= Cooldown
                        + (IF k = 0 THEN relocked ELSE accepted'[k - 1])
    BY <1>3, <1>4, LockAssumption DEF StagesInOrder, Stages
  <2>1. CASE k < next_lock
    <3>1. /\ k \in Stages /\ k # next_lock
          /\ k # 0 => k - 1 \in Stages /\ k - 1 # next_lock
      BY <1>4, <2>1, LockAssumption DEF Stages
    <3>2. accepted[k] >= Cooldown
                        + (IF k = 0 THEN relocked ELSE accepted[k - 1])
      BY <1>4, <2>1, LockAssumption DEF LockInv, StagesInOrder, Stages
    <3> QED
      BY <1>5, <3>1, <3>2
  <2>2. CASE k = next_lock
    <3>1. k # 0 => k - 1 \in Stages /\ k - 1 # next_lock
      BY <1>4, <2>2, LockAssumption DEF Stages
    <3>2. last_updated = (IF k = 0 THEN relocked ELSE accepted[k - 1])
      BY <2>2 DEF LockInv, StampTracksStages
    <3>3. (IF k = 0 THEN relocked ELSE accepted'[k - 1]) = last_updated
      BY <1>5, <3>1, <3>2
    <3>4. last_updated \in Nat
      BY DEF LockInv, TypeOK
    <3> QED
      BY <1>2, <1>5, <1>6, <2>2, <3>3, <3>4, LockAssumption
  <2> QED
    BY <1>4, <2>1, <2>2, LockAssumption DEF Stages
<1>9. StampTracksStages'
  <2>1. last_updated' <= now'
    BY <1>2, <1>3
  <2>2. last_updated' = (IF next_lock' = 0 THEN relocked'
                         ELSE accepted'[next_lock' - 1])
    BY <1>3, <1>4, <1>5, LockAssumption DEF Stages
  <2>3. last_updated - relocked >= next_lock * Cooldown
    BY DEF LockInv, StampTracksStages
  <2>4. (next_lock + 1) * Cooldown = next_lock * Cooldown + Cooldown
    BY <1>4, LockAssumption DEF Stages
  <2>5. next_lock * Cooldown \in Nat
    BY <1>4, LockAssumption DEF Stages
  <2>6. t - relocked >= next_lock * Cooldown + Cooldown
    BY <1>2, <1>6, <2>3, <2>5, LockAssumption DEF LockInv, TypeOK
  <2>7. last_updated' - relocked' >= next_lock' * Cooldown
    BY <1>3, <2>4, <2>6
  <2> QED
    BY <2>1, <2>2, <2>7 DEF StampTracksStages
<1> QED
  BY <1>7, <1>8, <1>9 DEF LockInv

\* Every step preserves the inductive invariant.
LEMMA NextPreserves == LockInv /\ [Next]_vars => LockInv'
<1> SUFFICES ASSUME LockInv, [Next]_vars PROVE LockInv'
  OBVIOUS
<1>1. ASSUME NEW code \in Codes, UnlockIgnored(code) PROVE LockInv'
  BY <1>1 DEF UnlockIgnored, LockInv, TypeOK, StagesInOrder,
              StampTracksStages
<1>2. ASSUME NEW code \in Codes, UnlockAccepted(code) PROVE LockInv'
  BY <1>2, AcceptPreserves
<1>3. ASSUME NEW code \in Codes, UnlockRejected(code) PROVE LockInv'
  BY <1>3, RelockPreserves DEF UnlockRejected
<1>4. CASE Lock
  BY <1>4, RelockPreserves DEF Lock
<1>5. CASE HardwareReset
  BY <1>5, RelockPreserves DEF HardwareReset
<1>6. CASE Tick
  BY <1>6 DEF Tick, LockInv, TypeOK, StagesInOrder, StampTracksStages
<1>7. CASE UNCHANGED vars
  BY <1>7 DEF vars, LockInv, TypeOK, StagesInOrder, StampTracksStages
<1> QED
  BY <1>1, <1>2, <1>3, <1>4, <1>5, <1>6, <1>7 DEF Next, SetLock

\* The inductive invariant of the lock holds in every reachable state.
THEOREM LockCorrect == Spec => []LockInv
BY InitEstablishes, NextPreserves, PTL DEF Spec

\* The stage counter stays within 0 .. max_lock and the stamps are times,
\* whatever codes src/hardware.cpp:80 receives.
THEOREM TypeCorrect == Spec => []TypeOK
<1>1. LockInv => TypeOK
  BY DEF LockInv
<1> QED
  BY <1>1, LockCorrect, PTL

\* Whatever codes, relocks and delays the lock sees, the open stages were
\* opened in order, each a full cooldown after the one before it and the
\* first a full cooldown after the last relock.
THEOREM StagesCorrect == Spec => []StagesInOrder
<1>1. LockInv => StagesInOrder
  BY DEF LockInv
<1> QED
  BY <1>1, LockCorrect, PTL

\* The stamp of next_lock is the time of its last stage or relock, and one
\* cooldown per open stage has passed since the relock.
THEOREM StampCorrect == Spec => []StampTracksStages
<1>1. LockInv => StampTracksStages
  BY DEF LockInv
<1> QED
  BY <1>1, LockCorrect, PTL
-----------------------------------------------------------------------------
\* A relock of the lock is a relock of MotorArming.
LEMMA RelockRefines ==
  ASSUME LockInv, NEW t \in Later, Relock(t)
  PROVE  Arming!Relock
BY LaterIsLater, LockAssumption
   DEF Arming!Relock, Relock, Update, isLocked, LockInv, TypeOK

\* Opening a stage is a step of MotorArming: the last stage unlocks the
\* motor, MaxLock cooldowns after the relock; the others leave it locked.
LEMMA AcceptRefines ==
  ASSUME LockInv, NEW code \in Codes, UnlockAccepted(code)
  PROVE  Arming!Release \/ Arming!Pass
<1>1. PICK t \in Later : Update(next_lock + 1, t)
  BY DEF UnlockAccepted
<1>2. t \in Nat /\ t >= now
  BY LaterIsLater DEF LockInv, TypeOK
<1>3. next_lock' = next_lock + 1 /\ now' = t /\ relocked' = relocked
  BY <1>1 DEF Update, UnlockAccepted
<1>4. next_lock \in Nat /\ next_lock < MaxLock
  BY LockAssumption DEF UnlockAccepted, LockInv, TypeOK
<1>5. CASE next_lock + 1 < MaxLock
  BY <1>2, <1>3, <1>4, <1>5 DEF Arming!Pass, isLocked
<1>6. CASE next_lock + 1 = MaxLock
  <2>1. now - last_updated >= Cooldown
    BY DEF UnlockAccepted, Age
  <2>2. last_updated - relocked >= next_lock * Cooldown
    BY DEF LockInv, StampTracksStages
  <2>3. MaxLock * Cooldown = next_lock * Cooldown + Cooldown
    BY <1>4, <1>6, LockAssumption
  <2>4. next_lock * Cooldown \in Nat
    BY <1>4, LockAssumption
  <2>5. now - relocked >= MaxLock * Cooldown
    BY <2>1, <2>2, <2>3, <2>4, LockAssumption DEF LockInv, TypeOK
  <2> QED
    BY <1>2, <1>3, <1>4, <1>6, <2>5, LockAssumption
       DEF Arming!Release, isLocked
<1> QED
  BY <1>4, <1>5, <1>6, LockAssumption

\* Every step of the lock is a step, or a stutter, of MotorArming.
LEMMA StepRefines == LockInv /\ [Next]_vars => [Arming!Next]_(Arming!vars)
<1> SUFFICES ASSUME LockInv, [Next]_vars
             PROVE  [Arming!Next]_(Arming!vars)
  OBVIOUS
<1>1. ASSUME NEW code \in Codes, UnlockIgnored(code)
      PROVE  UNCHANGED Arming!vars
  BY <1>1 DEF UnlockIgnored, Arming!vars, isLocked
<1>2. ASSUME NEW code \in Codes, UnlockAccepted(code)
      PROVE  Arming!Next
  BY <1>2, AcceptRefines DEF Arming!Next
<1>3. ASSUME NEW code \in Codes, UnlockRejected(code)
      PROVE  Arming!Next
  BY <1>3, RelockRefines DEF UnlockRejected, Arming!Next
<1>4. CASE Lock
  BY <1>4, RelockRefines DEF Lock, Arming!Next
<1>5. CASE HardwareReset
  BY <1>5, RelockRefines DEF HardwareReset, Arming!Next
<1>6. CASE Tick
  BY <1>6 DEF Tick, LockInv, TypeOK, Arming!Next, Arming!Pass, isLocked
<1>7. CASE UNCHANGED vars
  BY <1>7 DEF vars, Arming!vars, isLocked
<1> QED
  BY <1>1, <1>2, <1>3, <1>4, <1>5, <1>6, <1>7 DEF Next, SetLock

\* For every number of stages and every cooldown, the lock is unlocked only
\* MaxLock cooldowns after it was last relocked, by whatever command.
THEOREM LockRefinesArming == Spec => ArmingSpec
<1>1. Init => Arming!Init
  BY LockAssumption DEF Init, Arming!Init, isLocked
<1> QED
  BY <1>1, StepRefines, LockCorrect, PTL DEF Spec, ArmingSpec, Arming!Spec
=============================================================================
