# Rocketry@VT motor controller: TLA+ models and proofs

This directory models the flight-side controller of the repository (the `main`
executable built from `src/*.cpp`): one process, one thread, a serial radio to
the ground station, a log file, and a signal handler.  Each module names the
code it models; `PROJECT.json` maps every definition to its lines.  In this
file paths are relative to the root of the repository.

Run a model with `tlc -config <run>.cfg <module>`, a proof with
`tlapm <module>.tla`.

## Inventory

| component | state it keeps | operations | talks to |
|---|---|---|---|
| control, main (`src/control.cpp`, `src/main.cpp`) | `exit_flag`, `fail_flag`, `start_time`, `runtime` | `init`, `loop`, `reset`, `exit`; `exit` is also the SIGINT handler | calls comms, hardware, logging; called back by commands |
| comms (`src/comms.cpp`) | `arduino` (descriptor), `input_buff`, `output_buff`, `fail_flag` | `init`, `loop`, `reset`, `exit`, `transmit`, `flush` | the tty; `transmission::parse`; `behavior::dataReceipt`; announces its own errors through logging |
| transmission (`src/transmission.cpp`, `include/transmission.h`) | the channel table (constant) | `parse`, `xorchecksum`, `buildPacket`, `<<`, `>>`, `fromFile`, `packet2str` | `getId` calls `control::exit` |
| behavior (`src/behavior.cpp`) | the command table (constant) | `dataReceipt`, 22 handlers | everything |
| logging (`src/logging.cpp`) | `buffer`, `logfile`, `logs`, `last_sent`, `recipe_book` | `init`, `loop`, `reset`, `exit`, `write`, `flush`, `addLog`, `removeLog`, `clearLogs`, `announce` | `comms::transmit`, `comms::flush` |
| hardware (`src/hardware.cpp`) | `next_lock`, a `timestamped<uint8_t>` | `init`, `reset`, `loop`, `lock`, `unlock`, `isLocked`, `setLed` | gpio |
| config, state (`src/config.cpp`, `include/timestamped.h`) | `last_ping`, `time`, sensor values | `timestamped::update`, `age` | read by recipes |
| filters (`src/filters.cpp`, `include/filters.hpp`) | one object per filter: running values, counts, the window | `step`, `reset` | nothing; part of the library |
| predicates, drivers, tools, python, matlab, test, crap | see "Not modelled" | | |

What is hard here, and which property is aimed at it:

* **SIGINT anywhere.**  `control::exit` runs as a handler between any two steps
  of the main thread: between a reset and its flag (`StopHonoured`), inside a
  flush of the deque it flushes itself (`SafeUnlessTorn`, `ChannelSpec`), inside a
  parse of the deque it clears (`InBoundsUnlessTorn`), while a reset has no file
  open (`LostOnlyByFailure`).
* **The log and the radio feed each other.**  A flush of the radio announces its own
  errors, which have to reach the log: the loop flushes the radio first
  (`LogCaughtUp`), the end of `main` the log, and loses them (`NothingForgotten`).
* **Commands that change the loop they run in.**  Packets are parsed into a
  batch before the first is executed; a shutdown, a reset and a timeout may meet
  in one iteration (`StopHonoured`, `SilenceBound`).
* **Failure whose result is dropped.**  `comms::reset` and `logging::reset`
  ignore whether the device and the file could be opened (`DeafStops`,
  `LostOnlyByFailure`), and nobody asks the log file whether a write succeeded
  (`NothingForgotten`).
* **Stalls.**  A flush to a failing device takes seconds per byte and queues
  announcements of its own failures (`FlushReturns`, `SilenceBound`).
* **Schedules edited while they run.**  Periods are replaced, logs removed and
  added again, and passes late (`RateBound`, `ScheduleLags`,
  `SchedulesSubscribed`, `EveryLogServed`; `MinimumPeriod`, which fails).
* **One iteration, one clock, many parts.**  `state::time` is read when an iteration
  begins, the sensors after its commands and flushes, the recipes later still; a reset
  goes through the parts one after the other while commands behind it wait
  (`ValuesCurrent`, `ServedInTime`, `ResetForgets`, `TelemetrySpec`).
* **Files named by the second.**  A second opening within one second truncates the
  first file; a process may be killed in the middle of a flush and started again
  (`LogInOrder`, `NothingForgotten`).
* **Streams cut anywhere.**  Reads, noise and the 100 ms timeout of `parse` cut
  the byte stream at any place (`PacketsGenuine`, `NoPacketMissed`,
  `EverythingParsed`).
* **Data cut short.**  `buildPacket` cuts what is longer than a length byte can say
  and `>>` leaves a variable alone when bytes are missing (`FieldsSurvive`,
  `AllArrive`, `ParserAccepts`).
* **Values kept up step by step.**  An error of one step of a filter, at the edge of
  the window, at the first sample or after a reset, stays in every later value
  (`AveragesAreMeans`, `VarianceIsUnbiased`, `PassesStayBounded`, `CalculusFits`,
  `AngleUnwraps`).
* **Long sequences of codes.**  The motor lock must not be opened by any mixture
  of early, repeated and wrong codes and relocks (`StagesInOrder`,
  `StampTracksStages`, `ArmingSpec`).

The complete list, at the line where each bites, is under "hazards" in
`PROJECT.json`, with notes for those no property covers yet.

## Modules

```
MotorArming  <- refined by - MotorLock     <- EXTENDS - MotorLockProofs
RadioChannel <- refined by - RadioOut      <- EXTENDS - RadioOutProofs
Controller   <- EXTENDS - ControllerProofs
Telemetry    <- EXTENDS - TelemetryProofs
Mission      - INSTANCE -> MotorLock, Telemetry
Mission      <- EXTENDS - MissionProofs    - INSTANCE -> MotorLockProofs, TelemetryProofs
PacketFormat <- EXTENDS - PacketParser, Codec <- EXTENDS - TransmissionProofs
LogFile      <- EXTENDS - LogFileProofs
Filters      <- EXTENDS - FiltersProofs
```

The modules cut the controller where its parts meet: `Controller` sees a parsed
batch of commands, which `PacketParser` explains; a flush that takes time and
may announce errors, which `RadioOut` explains; periodic logs, which `Telemetry`
explains; and commands of kind `other`, some of which drive `MotorLock`.  `Mission`
puts the parts back together: it runs `MotorLock` and `Telemetry`, whose modules it
instantiates unchanged, in the loop and on the clock of the controller.  `LogFile`
follows the records that `Controller` only counts as present or not.
A definition named "Fault variant" in a module is not part of the model: it is
the form a plausible bug would give the definition after it, and `PROJECT.json`
("mutants") says which property notices.

### MotorLock and MotorArming

`next_lock`, `last_updated` are the fields of the `timestamped` object.
`UnlockIgnored`, `UnlockAccepted` and `UnlockRejected` are the three ways through
`hardware::unlock`; `Lock` and `HardwareReset` are the other writers.  A call
reads the clock twice (`age`, then `update`), hence the second reading in
`Later`.  `relocked`, `accepted` and `disorder` are histories.  `MotorArming`
hides codes and stages: the motor becomes unlocked only `MaxLock * Cooldown`
after it was last relocked.  The motor lock's widths do not matter: the counter
is a `uint8_t` that stops at 3.

### Controller

`pc` is the main thread's place in `main`, `control::init`, `loop` and `reset`;
one action is the code between two places, and the handler (`Sigint`) may run at
each place.  `silence` is the steady clock minus `state::last_ping`, cut at
`Cap`, which is above every value a property or guard distinguishes.  `batch`
holds the kinds of the commands still to be dispatched, `device` and `log` the
outcome of the last opening, `unlogged` whether `logging::buffer` holds anything.
`order`, `raced`, `rescinded`, `lost` and `late` are histories.

The granularity: the handler is atomic and falls between actions, not inside
one.  The one place where the inside of an action matters for data the handler
shares, the flush, is `RadioOut`'s subject.  The flag is cleared in an action of
its own (`ResetFlags`), apart from the dispatch of the reset, because a SIGINT
between the two is forgotten.  For the same reason `logging::reset` is three actions
(`ResetLogFlush`, `ResetLogClose`, `ResetLogOpen`): what the handler announces between
them must wait in the buffer until the next file is open.  An open file may fail in any
`LogFlush`.  The four exits `comms::init` may order, each with a flush, and its sleep are
one stall of up to five (`OpenDevice`), as nothing tells the states between them apart.

A stall is a flush, a spin of `parse` until its timeout, or a sleep of `comms::init`.
Every stall is at most `MaxStall` and every sleep at least one unit long, so time
passes in every iteration.  `sleep_until` does not sleep in an iteration that is
late; then the time of the stall that made it late stands for the unit.

### RadioOut and RadioChannel

`comms::flush` one statement at a time (`Test`, `Front`, `WriteOk` or
`WriteError`, `Pop`), executed by the main thread or by the handler, which also
queues, flushes and clears.  The handler runs on the same thread, so the main
thread stands still while it is active, and SIGINT is masked.  `front` and
`pop_front` of an empty deque are undefined behaviour: `broken` is set and
nothing more is said.  `RadioChannel` hides buffer, iterations and threads: bytes
are handed over once and in order unless all are dropped.  It promises nothing
after a fault, which is a SIGINT between the loop's test and the pop (`torn`).

### Telemetry

`logs`, `last_sent` and the keys of `recipe_book` as functions from ids.  A pass
visits the ids in the order of the map (`Visit`), and the clock may run between
any two visits, by any amount (`Tick`): a call of anything else in the loop takes as long
as it takes.  Commands come between passes, as in the loop.  `base` and
`count` remember the schedule at the last change of the period and the packets
since.  `RateBound` counts from `base`, where the schedule stood, and not from the
change: a log that is asked for again with a shorter period keeps its schedule, is in
arrears by the new period and sends a burst, as after a stall (`MinimumPeriod`).
With a period of 0, which the command accepts, a packet goes out in every
pass and `count` stands still.

### PacketFormat and PacketParser

`PacketFormat` is the layout of a packet and the checksum of the code; the parser and
the codec share it, as `parse` and `buildPacket` share `xorchecksum`.  The width of a byte
is a parameter (`MaxByte`, and `Masks`, the weights of its bits): the code's 255 and eight
masks are one instance of the theorems, TLC uses bytes of two bits.

`PacketParser` is `transmission::parse` one statement at a time: `pc` names the
statement.  A test of the buffer's size is a `Step`; a statement that reads bytes is a
`Look`, one that pops them a `Take`, and both use bytes whose presence an earlier
statement tested.  `Read` is the read loop of `comms::loop`.  `Clear` empties
`input_buff`: between two calls as `comms::reset` and `comms::exit` do, and at any
statement as the `comms::exit` of the SIGINT handler does.  Then the bytes tested may be
gone: `torn` remembers a clearing between a test and its use, and `broken` a use of a
byte that is not there, which is undefined behaviour and ends what the model says.

The clock is read after the other conditions of the loop, so a call makes at least one
iteration (`started`) and may return after any other (`Return`).  `arrived` and `found`
are histories of the stream and of where the returned packets begin.

`EverythingParsed` says what must become of every complete packet that has arrived: it is
returned or begins inside one that is (`Returned`), or a header in front of it, genuine
or not, asks for more bytes than have come (`Held`).  The second way out is the code's:
a false header with a large length keeps the complete packets behind it for as long as
the radio is silent.

### Mission

`pc` is the place in `control::loop` or in `control::reset`: the reset is one action for
each part it goes through, and time (`Tick`) passes between any two actions, which
stands for every flush, stall and sleep.  `now` is the one clock of the lock, the
schedule, the sensors and the loop.  Sensors differ only in their period, which names
them: `stamp` is the time of the last value, and `Renew` the tests of `hardware::loop`.
`left` counts the commands of the batch behind the current one.  `Wake` is the
`sleep_until`, which does not sleep in an iteration that is late; the bound on the clock
ends the sleep too, so that the bounded model does not stop.  Voltages and the status,
which a recipe also reads, and everything that ends the process are left out.

### LogFile

A record is its number, counted from 1 over all processes.  `buffer` is
`logging::buffer`, `written` what the `ofstream` has taken and not yet put into the file
(it may `Spill` at any time), `disk` maps the second that names a file to its
records.  `Opened` truncates, as `open` does.  A process is killed at any step, refused
when the file or the device fails, reset, interrupted, and started again.  A write to an
open file may fail (`Fail`): the stream's `badbit` is never cleared before the next
opening, so what the stream has taken and all that follows is lost.  A record of
which a failed write left a part in the file counts as lost.  Announcements of
`comms::flush` come wherever it is called (`Announce`), also at `ended`, where `main`
has flushed the log and calls `comms::flush`: these are `parting`, and nothing writes
them.

Whether two openings can share a second depends on how long the code waits between them.
`ASecond` stands at the places where a second certainly passes: the one second of sleep
in `comms::init` at a start, and the 20 ms that `comms::flush` sleeps per byte when more
than fifty bytes are queued.  Those are the record "Begin log: ..." with the greetings of
a start or a reset (`unsent`), and the echo of the command with the words of
`control::reset` in a reset.  Elsewhere a second may pass or not (`Tick`).  The wall clock
may be set back (`SetBack`), which the properties except.

### Codec

A message on its way from `<<` over `buildPacket` and `comms::loop` to `>>`: `place`
says who has it, `data` is the vector of bytes, first of the sender and then of the
receiver; `fields` remembers what was written and `whole` its bytes before they were cut.
A value is the sequence of its bytes in memory, which is all that `<<` and `>>` see of it;
`Push` writes them last byte first and `Extract` turns them round again.  Vectors and
arrays are read one element per step; a vector (`BeginVector`, `ReadVector`) takes
elements while there are bytes, so the data decides its length.  A `>>` that does not fit
leaves the variable as it was: `Unset`.  Sender and receiver use the same sizes in the
same order, as the recipes and `bin2txt` do; nothing in a packet says what they are.

### Filters

All filters take the samples of one stream, each in the same `Step`; they share
nothing.  A double is a fraction in lowest terms or NaN, so the properties hold of
the arithmetic that is meant and say nothing of rounding.  `Derivative(N, ...)` is the
body of `derivative<N>::step`, `Second` the instance for 2 with the one for 1 inside.
`stream` and `fresh` are histories.  With each sample the history keeps the sums of the
values and of the squares so far (`Total`, `Squares`), which no filter sees: the sum of
the last `k` samples is a difference of two of them, and the properties compare the
filters with these sums.  `Equals(q, p, d)` says that `q` is `p` over `d`.

## Runs

| run | shows | bounds and why they are enough |
|---|---|---|
| `MotorLock` | `TypeOK`, `StagesInOrder`, `StampTracksStages`, `ArmingSpec` | the code's three stages and one code beyond them; time to 9 units with a cooldown of 2 lets all stages open and a relock come before, between or after; the theorems lift the bound |
| `Controller` | `StopHonoured`, `SilenceBound`, `LogCaughtUp`, `LostOnlyByFailure`, `SilentGroundStops`, `DeafStops` | two commands per iteration give every ordered pair (reset then shutdown, shutdown then reset, ...); one SIGINT at any step; a period of 2 with stalls and naps of 1 makes a timeout happen in and out of a reset |
| `Telemetry` | `SchedulesSubscribed`, `ScheduleLags`, `RateBound`, `EveryLogServed` | three ids, one without recipe; periods 0, 1 and 3 and six instants let a log be late by more than a period, and be replaced, removed and added again |
| `RadioOut` | `SafeUnlessTorn`, `FlushReturns`, `ChannelSpec` | two SIGINTs, four bytes, three tries per flush: buffers longer and shorter than the tries, and failures of every write |
| `PacketParser` | `TypeOK`, `InBoundsUnlessTorn`, `PacketsGenuine`, `NoPacketMissed`, `EverythingParsed` | all streams of 12 bytes over two values, with packets of 6 and 9 bytes: two packets in a row, a packet inside a false header, and a packet inside a packet all occur; the theorems lift the bound |
| `Mission` | `ValuesCurrent`, `ServedInTime`, `ResetForgets`, `TelemetrySpec` | two stages of one cooldown, two logs, one without a recipe, sensors of period 0, 1 and 2, two commands per iteration (a reset before or behind anything) and time to 4, in which several iterations, late or not, and a full arming after a reset fit; a call of the lock takes up to two units (`MaxLag`), so that the clock jumps as well as ticks; the theorems lift the bounds |
| `LogFile` | `LogInOrder`, `NothingForgotten` | two starts, four seconds and seven records: enough for a start, a reset, leaving the loop and a second start, with a kill, a failed opening or write, or a signal at every step; the theorems lift the bounds |
| `Codec` | `CodecTypeOK`, `FieldsSurvive`, `AllArrive`, `ParserAccepts` | a byte of four values allows data of three bytes; three values of one or two bytes make messages of nought to six bytes, short, exact and cut within and between values; the theorems lift the bounds |
| `Filters` | `AveragesAreMeans`, `VarianceIsUnbiased`, `PassesStayBounded`, `CalculusFits`, `AngleUnwraps` | four samples: two to fill the window and two beyond it, two derivatives and a reset before, between or after; differences of 1, 2 and 3 in a range of 4 go both ways round and exactly half way; the theorems lift the bounds |

Deadlock is checked in every run: a process that has ended stutters (`Ended`), an
undefined execution stutters (`Undefined`), and a stream at its bound ends (`End`).

What the liveness properties of these runs say: `SilentGroundStops` and `DeafStops` that
a controller without contact or without a radio ends; `FlushReturns` that every flush
returns; `EveryLogServed` that a log that stays due, for its first or a later packet, is
sent again and again; `EverythingParsed` that what has arrived is returned unless a
header waits for bytes.

Three runs state what a comment of the repository says and show that the code does
something else.

| run | the comment | what the code does |
|---|---|---|
| `MotorLockDoc` | `include/hardware.h:37`: codes out of order "will re-lock all motor locks" | a fully unlocked motor ignores every code (`src/hardware.cpp:82`) |
| `ControllerStopIsFinal` | `include/control.h:39`: exit will "Shutdown the controller" | an exit by SIGINT after a reset was dispatched and before `exit_flag = false` is forgotten (`src/control.cpp:97`) |
| `TelemetryMinimumPeriod` | `include/logging.h:78`: "this is the MINIMUM period between logs" | after a stall the missed packets are caught up in consecutive passes (`src/logging.cpp:79`); the same happens, without a stall, when a running log is asked for with a shorter period, which keeps the schedule (`src/logging.cpp:130`) |

Further observations met while reading, without a run: a flush gives up after 9999
tries although `include/comms.h:45` says it attempts all bytes; a reset does not
renew `last_ping`, the startup does; a refused start returns without flushing the
log; `main` flushes the log and then the radio (`src/main.cpp:69`), so a "Transmission
error." announced by that last flush (`src/comms.cpp:152`) stays in a buffer nobody
flushes; a header with a large length byte, false or not, makes `parse` wait with complete
packets behind it (`src/transmission.cpp:134`), where `include/transmission.h:52` says
that it parses the bytes "for all the valid packets it can find"; SIGINT before `comms::init` flushes to descriptor 0, the value of `arduino`
until then; `src/bin2txt.cpp:24` asks `getId` for channels without their leading
slash, which do not exist, so its translations are all stored under channel 0; a
step of no time makes `derivative<1>` return 0 and `derivative<2>` takes that for a
slope (`include/filters.hpp:108`); `fromFile` calls `parse` once, which gives up after
100 ms, where `include/transmission.h:75` says "Reads all the packets"
(`src/transmission.cpp:232`); one flush to a failing device may outlast
`cfg::ping_period`, "the maximum period of time the controller will continue without a
ping" (`include/config.h:19`, `src/comms.cpp:145`); `logging::fail_flag` is never
cleared, so a reset after a failed opening reports failure although the next file opened;
`on_receive` is built before `main` from `channel_list` of another file, in the linker's
order (`src/behavior.cpp:27`); a signal inside `announce` writes its record into the
middle of the interrupted one, which is then lost to the reader (`src/logging.cpp:105`).

## Fairness

* `Controller`: `WF_vars(MainThread)`.  The main thread is the only thread; the
  operating system runs it, and every blocking call it makes returns (sleeps are
  finite, the device is opened non-blocking).  Nothing is assumed of the ground
  station, of signals or of a reboot.
* `RadioOut`: weak fairness of each thread's statements; the number of signals is
  bounded, so the handler does not shut out the main thread for ever.
* `Telemetry`: `WF_vars(Loop)`: `control::loop` calls `logging::loop` in every
  iteration.  Commands need not come, and do not come during a pass.
* `PacketParser`: `WF_vars(Parse)`: `comms::loop` calls `parse` in every iteration, and
  its statements are executed.
* `Mission`: `WF_vars(Loop)` and `WF_vars(Tick)`: the one thread runs on, and so does
  the clock it sleeps by.
* `LogFile`: none; a process may be killed at any time.
* `MotorLock`: none; nothing has to happen.

## Theorems

Proved for every value of the constants that satisfies the named assumptions
(`LockAssumption`, `ControllerAssumption`, `TelemetryAssumption`, `RadioAssumption`,
`MissionAssumption`, `LogFileAssumption`: the bounds, ids and periods are natural numbers,
there is at least one lock stage and one iteration per flush, and a nap takes time;
`FormatAssumption`: the sync bytes are bytes and every combination of bits is a byte, as
it is for the masks 1 to 128 and bytes to 255; `ParserAssumption`: the sync bytes differ
and what arrives is bytes; `CodecAssumption`: the channel is a byte and a type has at
least one; `FiltersAssumption`: samples are integers and times natural numbers, as a
multiple of the smallest step of each, and the window and the range are not empty).

* `MotorLockProofs`.  `LockInv` (types, `StagesInOrder`, `StampTracksStages`) is
  inductive: opening a stage compares the clock with the stamp only, so the
  invariant has to know that the stamp is the time of the stage before
  (`StampTracksStages`), and that one cooldown per open stage lies between the
  relock and the stamp, from which `LockRefinesArming` follows.  `TypeCorrect`,
  `StagesCorrect` and `StampCorrect` are its parts.
* `ControllerProofs`.  `ControlInv` says where the last request is kept: in the flag
  once it is an exit, and at `rst_flags` it is the reset, unless a signal raced it;
  and that a log file is open or failed after the first step, except
  between the closing of one file and the opening of the next in a reset, where nothing is
  flushed.  From it
  `StopsWhenAsked`, `LogIsCaughtUp` (before every sleep of the loop; the end of `main` is
  not such a place) and `OnlyFailureLoses`.  `SilenceIsBounded`
  uses `SilenceInv`, an account of the waiting that each place of the iteration may
  have spent: two stalls per dispatched command, one for parse, one per flush, one nap.
  `ControllerTypeCorrect` proves the type invariant.
* `TelemetryProofs`.  `TelemetryInv` keeps an account of every schedule: it is its base
  and one period per packet, and is ahead neither of the last packet nor of the clock.
  The first alone is not inductive: that a due packet moves the schedule by a period
  that has already passed needs the second, and that the entry of a visited id is in
  the table needs that a pass visits subscribed ids.  From it `SchedulesLag`,
  `RateIsBounded`, `SchedulesAreSubscribed`, `TelemetryTypeCorrect`.
* `RadioOutProofs`.  `RadioInv`: unless a signal tore a flush, the buffer is the
  interval of the numbers queued and not handed over (with the one just written until
  its pop), and one thread at most is inside an iteration.  The disorder flag alone
  is not inductive: that the byte written is the next one follows from the contents
  of the buffer.  From it `OnlyTornFlushesFail` and `RadioImplementsChannel`.
  `RadioTypeCorrect` needs that a flush that goes on has iterations left.
* `TransmissionProofs`, about `PacketParser`, on lemmas about `PacketFormat` (how a packet moves when
  the stream is cut, and that it depends on its own bytes only).  `ParserInv` says what
  each statement knows of the front of the buffer: how many bytes the tests before it
  found (`BoundsOK`), and what they were (`FrontOK`).  `NoPacketMissed` alone is not
  inductive: that a dropped byte did not begin a packet is known only from the comparison
  some statements before, and that one inside a returned packet did is the exception.
  From it `StaysInBounds`, `PacketsAreGenuine`, `NoneIsMissed` and `ParserTypeCorrect`.
* `TransmissionProofs`, about `Codec`.  That what is written can be read is a fact about all values of a
  message at once, which no step establishes: reading the third value needs to know where
  the first two ended.  `CodecInv` therefore says that there are offsets, one per value and
  one for the end (`Laid`), at which the values lie in `whole`, and that what the receiver
  has left is `whole`, cut, from the offset of the next value on (`Reading`), as long as
  nothing was missing.  The offsets are the witness each step passes on: a write adds
  one, a read moves by one.  A cut in the middle of a value makes it, and everything of
  its size behind it, missing, which is why `FieldsSurvive` speaks of the values before the
  first that is missing.  From it `FieldsAreKept`, `MessagesArrive` and
  `CodecTypeCorrect`; `ParserTakesAll` needs of the checksum that both sides compute it of
  the same bytes, and that the checksum is two bytes.
* `LogFileProofs`.  `LogInv` says what buffer, stream and files hold, and that at every
  place from which a file may be opened all files that hold anything are named after an
  earlier second: that no file is truncated needs this, and this needs the waiting of the
  places before.  It also says that what the buffer holds at the end of `main` is `parting`,
  or dropping it would lose what no history names.  From it `NothingIsForgotten`, which
  excepts these announcements, killed processes, refused starts and files that fail, and
  nothing else.  `OrderInv` says that the open file with what is on its way to it ends in
  the newest number, so that a reset or a restart goes on behind it; with it
  `LogIsInOrder`.
* `MissionProofs`.  Every step of `Mission` is a step of `MotorLock` or leaves the lock
  alone (`LockStep`), and a step of `Telemetry` or leaves the schedule alone (`LogStep`):
  commands never come during a pass, a pass of the loop is a pass of the scheduler, and
  whatever a call takes is time that passes.  So the theorems of `MotorLockProofs` and of
  `TelemetryProofs`, taken by `INSTANCE`, hold in the composition (`MissionKeepsLock`,
  `MissionArms`, `MissionDrivesTelemetry`, `MissionKeepsRates`).
  `MissionInv` has the rest: the times are not ahead of the clock, the lock was relocked no
  earlier than the last reset, what is subscribed was asked for since, and a pass has
  served what it need not visit any more.  From it `ValuesAreCurrent`,
  `LogsAreServedInTime`, `ResetsForget`.

* `FiltersProofs`.  First, lemmas about the arithmetic: what a fraction in lowest terms
  is (`FracEquals`, which needs a greatest common divisor to exist and to divide), that
  `Plus`, `Minus`, `Times` and `Over` compute what they say (`EqualsPlus` and so on), that
  mixing two values stays between them (`LowStepBetween`), and that whole numbers stay
  whole unless divided.  Then `FiltersInv`, the state of every filter as a function of the
  samples.  No property is inductive alone: the moving average needs the window to hold
  the last samples and, until it is full, the inner average to be the running one
  (`MovingOK`); the variance needs that the sum of products is that of the
  squares less that of the mean (`SpreadOf`); the high pass needs the range of the low pass
  inside it, which is still empty after steps of no time (`PassesOK`); the derivatives
  need the count of samples since the reset and what they return, not what they
  store (`CalculusOK`); the angle needs its number of turns (`AngleOK`).  From it
  `AveragesCorrect`, `VarianceCorrect`, `PassesAreBounded`, `CalculusCorrect` and
  `AngleCorrect`.

Only model-checked: all liveness (`SilentGroundStops`, `DeafStops`, `FlushReturns`,
`EveryLogServed`, `EverythingParsed`), which is out of the prover's reach, and the fairness
of `TelemetrySpec` (its initial states and steps are `MissionDrivesTelemetry`).

## Plan

Modelled in this order: the motor lock (the safety function), the life of the process,
the telemetry schedule, the two halves of the radio, the serialisation, the filters, the
log's files, and the composition of lock, schedule and sensors in the loop.  Left:

1. the python parser of the ground side compared with `PacketParser`;
2. `readin`, the ground's echo of user input, as the other end of `RadioChannel`.

## Not modelled

`hardware::loop` fills the sensor variables with random numbers, of which `Mission` has
only the times, and `setLed` writes to sysfs; `printLoop` draws a spinner; `predicates` are constant functions;
`drivers/led` and `drivers/analog_sensor` are in the library but the controller does
not call them; `bin2txt`, `pack`, `rand`, `readin` and the adc programs are
command-line tools; `matlab/` and `python/` work offline; `test/` tests an older
interface and is not built; `crap/` is abandoned.  Texts of messages are left out
everywhere.  Undefined behaviour inside a library call that the handler interrupts
(a deque in the middle of `push_back`) is not modelled: its outcomes cannot be told
from the source.
