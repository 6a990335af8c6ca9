---------------------------- MODULE MotorArming ----------------------------
(***************************************************************************)
(* What the motor lock promises its users, with the codes and the          *)
(* intermediate stages hidden: the motor may be relocked at any time, and  *)
(* it becomes unlocked only when at least MinDelay time units have passed  *)
(* since it was last relocked.  MotorLock implements this specification.   *)
(***************************************************************************)
EXTENDS Integers

CONSTANT MinDelay   \* shortest time from a relock to an unlocked motor

VARIABLES now,      \* the steady clock
          locked,   \* hardware::isLocked()
          since     \* when the motor was last relocked

vars == <<now, locked, since>>

Init == now \in Nat /\ locked = TRUE /\ since = now

Relock == /\ now' >= now
          /\ locked' = TRUE
          /\ since' = now'

Release == /\ locked
           /\ now - since >= MinDelay
           /\ now' >= now
           /\ locked' = FALSE
           /\ UNCHANGED since

Pass == now' >= now /\ UNCHANGED <<locked, since>>

Next == Relock \/ Release \/ Pass

Spec == Init /\ [][Next]_vars
=============================================================================
