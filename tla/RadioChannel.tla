---------------------------- MODULE RadioChannel ----------------------------
(***************************************************************************)
(* What comms promises for the radio, with the buffer, the iterations and  *)
(* the single steps of a flush hidden.  What is queued is handed to the    *)
(* device once and in order, unless a reset or an exit drops all of it.    *)
(* After a fault nothing is promised.  RadioOut implements this            *)
(* specification, the fault being a signal that tears a flush.             *)
(***************************************************************************)
EXTENDS Integers

VARIABLES queued,  \* how many bytes were queued so far
          handed,  \* how many of them were handed over or dropped
          faulty   \* nothing is promised any more

vars == <<queued, handed, faulty>>

Init == queued = 0 /\ handed = 0 /\ faulty = FALSE

Queue == queued' = queued + 1 /\ UNCHANGED <<handed, faulty>>

Hand == handed < queued /\ handed' = handed + 1 /\ UNCHANGED <<queued, faulty>>

DropAll == handed' = queued /\ UNCHANGED <<queued, faulty>>

Fault == faulty' = TRUE

Next == Queue \/ Hand \/ DropAll \/ Fault

Spec == Init /\ [][Next]_vars
=============================================================================
