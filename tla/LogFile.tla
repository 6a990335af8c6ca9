------------------------------ MODULE LogFile ------------------------------
(***************************************************************************)
(* The bytes of the log on their way to the disk (src/logging.cpp): what   *)
(* is announced goes to `buffer`, logging::flush moves it to the stream    *)
(* `logfile`, and the file's name is the second in which it was opened.    *)
(* A file may refuse to open or to be written, the process may be killed   *)
(* at any step and be started again, and SIGINT announces too.  An         *)
(* announcement is its number, counted from 1 over all processes.          *)
(***************************************************************************)
EXTENDS Integers, SequencesExt

CONSTANTS MaxClock,  \* bound on the wall clock, in seconds
          MaxTold,   \* bound on the announcements
          MaxStarts  \* bound on the processes started

ASSUME LogFileAssumption == {MaxClock, MaxTold, MaxStarts} \subseteq Nat

VARIABLES
  clock,     \* std::chrono::system_clock, in seconds
  disk,      \* the log directory: second -> announcements in the file
  logfile,   \* the second that names the open file, or Closed or Failed
  written,   \* what the stream has taken and not yet put into the file
  buffer,    \* logging::buffer
  pc,        \* the place of the process; off when there is none
  unsent,    \* the begin record has not left output_buff yet
  starts,    \* processes started
  told,      \* history: the number of announcements
  parting,   \* history: those made after main's last logging::flush
  lost,      \* history: those lost to a failure
  set_back   \* history: the wall clock was set back

process == <<logfile, written, buffer, pc, unsent>>
history == <<parting, lost, set_back>>
vars == <<clock, disk, process, starts, told, history>>

Closed == -1
Failed == -2

Flushing == {"flush", "closing", "final"}

-----------------------------------------------------------------------------
Init == /\ clock = 0 /\ disk = [f \in {} |-> <<>>] /\ logfile = Closed
        /\ written = <<>> /\ buffer = <<>> /\ pc = "off" /\ unsent = FALSE
        /\ starts = 0 /\ told = 0
        /\ parting = {} /\ lost = {} /\ set_back = FALSE

Goto(place) == pc' = place

\* logging::announce pushes onto the buffer.
announce == /\ told < MaxTold
            /\ told' = told + 1
            /\ buffer' = Append(buffer, told + 1)
            /\ parting' = IF pc = "ended" THEN parting \union {told + 1}
                                         ELSE parting

\* main begins; control::init announces itself.
Start == /\ pc = "off" /\ starts < MaxStarts /\ starts' = starts + 1
         /\ told < MaxTold /\ told' = told + 1
         /\ buffer' = <<told + 1>> /\ written' = <<>> /\ logfile' = Closed
         /\ unsent' = FALSE /\ Goto("start")
         /\ UNCHANGED <<clock, disk>> /\ UNCHANGED history

\* logfile.open truncates a file of that name.
Opened == /\ logfile' = clock
          /\ disk' = [f \in DOMAIN disk \union {clock} |->
                        IF f = clock THEN <<>> ELSE disk[f]]
NotOpened == logfile' = Failed /\ UNCHANGED disk

\* logging::init at the start: a file that cannot be opened refuses it.
Open == /\ pc = "start" /\ announce /\ unsent' = TRUE
        /\ \/ Opened /\ Goto("comms")
           \/ NotOpened /\ Goto("refused")
        /\ UNCHANGED <<clock, written, starts, lost, set_back>>

\* logging::init in a reset: its result is dropped.
Reopen == /\ pc = "reopen" /\ announce /\ unsent' = TRUE
          /\ Opened \/ NotOpened
          /\ Goto("loop")
          /\ UNCHANGED <<clock, written, starts, lost, set_back>>

\* Time in which a second passes: the sleep of comms::init, or the radio's
\* 20 ms per byte of more than fifty bytes.
ASecond == clock < MaxClock /\ clock' = clock + 1

\* comms::init at the start sleeps for a second, or fails; a failure and a
\* SIGINT until then refuse the start.
InitComms == /\ pc = "comms"
             /\ \/ ASecond /\ pc' \in {"test", "refused"}
                \/ UNCHANGED clock /\ Goto("refused")
             /\ UNCHANGED <<disk, logfile, written, buffer, unsent, starts, told>>
             /\ UNCHANGED history

\* main returns 1 without a flush.
Refuse == /\ pc = "refused" /\ Goto("off")
          /\ lost' = lost \union ToSet(buffer)
          /\ buffer' = <<>> /\ logfile' = Closed
          /\ UNCHANGED <<clock, disk, written, unsent, starts, told>>
          /\ UNCHANGED <<parting, set_back>>
-----------------------------------------------------------------------------
\* while (control::ok()): the next iteration of control::loop.
Iterate == /\ pc = "test" /\ Goto("loop")
           /\ UNCHANGED <<clock, disk, logfile, written, buffer, unsent>>
           /\ UNCHANGED <<starts, told>> /\ UNCHANGED history

\* A command, an error or a periodic log is announced: at the start by
\* comms::init, or by main when the start is refused; in the loop by the
\* handlers, the recipes and comms::flush; at the end by main's last
\* comms::flush, when the log has been flushed already.
Announce == /\ pc \in {"comms", "refused", "loop", "radio", "reset", "ended"}
            /\ announce
            /\ UNCHANGED <<clock, disk, logfile, written, pc, unsent, starts>>
            /\ UNCHANGED <<lost, set_back>>

\* The commands are done; logging::loop begins with comms::flush.
EndBatch == /\ pc = "loop" /\ Goto("radio")
            /\ UNCHANGED <<clock, disk, logfile, written, buffer, unsent>>
            /\ UNCHANGED <<starts, told>> /\ UNCHANGED history

\* Fault variant: logging::loop flushes the log without the radio.
RadioNot == /\ pc = "radio" /\ Goto("flush") /\ unsent' = FALSE
            /\ UNCHANGED <<clock, disk, logfile, written, buffer>>
            /\ UNCHANGED <<starts, told>> /\ UNCHANGED history

\* The radio takes more than a second for the begin record and the greetings
\* of a start or reset.
Radio == /\ pc = "radio" /\ Goto("flush")
         /\ IF unsent THEN ASecond ELSE UNCHANGED clock
         /\ unsent' = FALSE
         /\ UNCHANGED <<disk, logfile, written, buffer, starts, told>>
         /\ UNCHANGED history

\* control::reset announces itself.
Reset == /\ pc = "loop" /\ announce /\ Goto("reset")
         /\ UNCHANGED <<clock, disk, logfile, written, unsent, starts>>
         /\ UNCHANGED <<lost, set_back>>

\* comms::reset sends at least that and the command's echo, which takes more
\* than a second; then logging::reset begins.
ResetComms == /\ pc = "reset" /\ ASecond /\ Goto("closing")
              /\ unsent' = FALSE
              /\ UNCHANGED <<disk, logfile, written, buffer, starts, told>>
              /\ UNCHANGED history

\* The loop is left between two iterations; main announces that.
Leave == /\ pc = "test" /\ announce /\ Goto("final")
         /\ UNCHANGED <<clock, disk, logfile, written, unsent, starts>>
         /\ UNCHANGED <<lost, set_back>>
-----------------------------------------------------------------------------
\* Fault variant: the newest is taken first.
MoveLast == /\ pc \in Flushing /\ buffer # <<>>
            /\ buffer' = Front(buffer)
            /\ IF logfile \in Nat
                 THEN written' = Append(written, Last(buffer)) /\ UNCHANGED lost
                 ELSE lost' = lost \union {Last(buffer)} /\ UNCHANGED written
            /\ UNCHANGED <<clock, disk, logfile, pc, unsent, starts, told>>
            /\ UNCHANGED <<parting, set_back>>

\* One turn of the loop in logging::flush; a stream that has failed takes
\* nothing.
Move == /\ pc \in Flushing /\ buffer # <<>>
        /\ buffer' = Tail(buffer)
        /\ IF logfile \in Nat
             THEN written' = Append(written, Head(buffer)) /\ UNCHANGED lost
             ELSE lost' = lost \union {Head(buffer)} /\ UNCHANGED written
        /\ UNCHANGED <<clock, disk, logfile, pc, unsent, starts, told>>
        /\ UNCHANGED <<parting, set_back>>

\* The stream puts the oldest it has taken into the file, when it is full.
Spill == /\ written # <<>> /\ pc # "off"
         /\ disk' = [disk EXCEPT ![logfile] = Append(@, Head(written))]
         /\ written' = Tail(written)
         /\ UNCHANGED <<clock, logfile, buffer, pc, unsent, starts, told>>
         /\ UNCHANGED history

\* A write or the flush of an open file fails, on a full disk say: what the
\* stream has taken is lost, and it takes nothing more.
Fail == /\ pc \in Flushing /\ written # <<>>
        /\ lost' = lost \union ToSet(written)
        /\ written' = <<>> /\ logfile' = Failed
        /\ UNCHANGED <<clock, disk, buffer, pc, unsent, starts, told>>
        /\ UNCHANGED <<parting, set_back>>

\* logfile.flush(), when the buffer is empty: the loop goes on, logging::exit
\* closes the file, or main calls comms::flush.
Sync == /\ pc \in Flushing /\ buffer = <<>>
        /\ disk' = IF logfile \in Nat
                     THEN [disk EXCEPT ![logfile] = @ \o written] ELSE disk
        /\ written' = <<>>
        /\ pc' = CASE pc = "flush" -> "test" [] pc = "closing" -> "reopen"
                   [] pc = "final" -> "ended"
        /\ logfile' = IF pc = "closing" THEN Closed ELSE logfile
        /\ UNCHANGED <<clock, buffer, unsent, starts, told>>
        /\ UNCHANGED history

\* main returns; what has been announced since its flush of the log, by its
\* comms::flush or by the handler, is dropped.
End == /\ pc = "ended" /\ Goto("off")
       /\ buffer' = <<>> /\ logfile' = Closed
       /\ UNCHANGED <<clock, disk, written, unsent, starts, told>>
       /\ UNCHANGED history

\* SIGINT's handler announces and flushes the radio, not the log.
Signal == /\ pc # "off" /\ announce
          /\ IF unsent THEN ASecond ELSE UNCHANGED clock
          /\ unsent' = FALSE
          /\ UNCHANGED <<disk, logfile, written, pc, starts, lost, set_back>>

\* The process is killed, by /ground/abort, a reboot or otherwise.
Kill == /\ pc # "off" /\ Goto("off")
        /\ lost' = lost \union ToSet(buffer) \union ToSet(written)
        /\ buffer' = <<>> /\ written' = <<>> /\ logfile' = Closed
        /\ UNCHANGED <<clock, disk, unsent, starts, told, parting, set_back>>

Tick == /\ ASecond
        /\ UNCHANGED <<disk, starts, told>> /\ UNCHANGED process
        /\ UNCHANGED history

\* The wall clock is corrected backwards.
SetBack == /\ clock > 0 /\ clock' = clock - 1 /\ set_back' = TRUE
           /\ UNCHANGED <<disk, starts, told, parting, lost>>
           /\ UNCHANGED process

Run == \/ Start \/ Open \/ Reopen \/ InitComms \/ Refuse \/ Iterate
       \/ Announce \/ EndBatch \/ Radio \/ Reset \/ ResetComms \/ Leave \/ Move
       \/ Spill \/ Fail \/ Sync \/ End

Next == Run \/ Signal \/ Kill \/ Tick \/ SetBack

Spec == Init /\ [][Next]_vars
-----------------------------------------------------------------------------
\* The numbers in s follow each other without a gap.
Consecutive(s) == \A i \in 1 .. Len(s) - 1 : s[i + 1] = s[i] + 1

\* A file with what is still on its way to it.
Whole(f) == IF f = logfile THEN disk[f] \o written \o buffer ELSE disk[f]

\* Whatever kills, resets and signals do, a log file has no gap: it holds what
\* was announced from its opening on, in order, and the next is what follows.
\* The names put the files in the order of the announcements, unless the clock
\* was set back.
LogInOrder ==
  /\ \A f \in DOMAIN disk : Consecutive(Whole(f))
  /\ \A f, g \in DOMAIN disk : f < g /\ ~set_back =>
       \A r \in ToSet(disk[f]), q \in ToSet(disk[g]) : r < q

\* The announcement is in a file or on its way to one.
InLog(r) == \/ \E f \in DOMAIN disk : r \in ToSet(disk[f])
            \/ r \in ToSet(written) \/ r \in ToSet(buffer)

\* An announcement is lost only with a killed process, a refused start or a
\* file that could not be opened or written, or when it comes after main's
\* last flush of the log (src/main.cpp:69).  In particular no reset loses any, and no file is
\* truncated by a second opening in the same second, unless the clock was set
\* back.
NothingForgotten ==
  ~set_back => \A r \in 1 .. told \ (lost \union parting) : InLog(r)
=============================================================================
