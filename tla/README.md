# A verification project for can-diagnostic-analyzer

The repository is a small CAN bench: two ESP32 nodes that transmit a data frame
and a heartbeat periodically, and a Python analyzer that turns the frames, live
or recorded, into diagnostic findings. This directory holds TLA+ modules that
model its parts, TLC configurations that check them on small instances, and
proofs, checked by TLAPS, that hold for every value of the constants.

Paths below are relative to the repository.

## Inventory

| Component | State | Operations | Interacts with |
| --- | --- | --- | --- |
| Diagnostic monitor (`can_diag/monitor.py`) | per message: last timestamp, staleness, counter, uptime, open range violations; per node: silence, last restart; identifiers seen | `process_frame`, `finalize` | called by the live loop and by the report; reads the database and the configuration |
| Findings and frames (`models.py`) | none | `numeric_value`, `signal`, serialisation | everything in Python |
| Database and decoder (`decoder.py`, `dbc/`) | the loaded DBC | `decode`, `nodes`, `messages` | monitor, synthetic generator |
| Configuration (`config.py`) | none | load, validate, merge | command line, monitor |
| Command line (`cli.py`) | per command | live loop, report, record, replay, verify | all the others |
| Recorder, log format (`recorder.py`, `logfile.py`) | frames in memory, one file | receive, write, read | bus, command line |
| Replay (`replay.py`, `scripts/replay_check.py`) | frames sent so far | paced sending, comparison | bus, recorder |
| Timing, reporting (`timing.py`, `reporting.py`) | none | pure functions of a capture or of findings | report, replay verification |
| Scenario, synthetic generator (`scenario.py`, `synthetic.py`) | per node: counter, boot tick, booted | `tick` | a second implementation of the nodes |
| Regeneration (`scripts/regenerate.py`, `check_findings.py`) | none | generate, analyze, compare with the ground truth | generator, monitor, reporting |
| Thermal controller (`firmware/thermal_controller`) | injection mode and deadline, pending skip (under a lock); counter, tick index | main loop task, command task | bus wrapper, console |
| Power monitor (`firmware/power_monitor`) | counter, tick index | main loop | bus wrapper |
| Bus wrapper (`firmware/components/can_protocol/can_bus.c`) | started, statistics; the TWAI driver's state and queue | start, transmit, service | the nodes |
| Codec (`can_protocol.c`) | none | encode, decode, clamp, counter steps | the nodes; the DBC must agree |

What is hard, and where:

* *Late looks.* The monitor notices an outage only when something calls it. What
  it then reports must not depend on when that was.
* *Long sequences.* Staleness, silence, range and unknown-identifier episodes are
  driven by one stream; one call may end an outage of one message, begin that of
  another and mark a node silent. Alarms and recoveries must alternate.
* *Interleaving.* The live loop waits, reads the clock and processes; the bus and
  the driver's queue go on meanwhile. In the firmware two tasks share the
  injection state, and each iteration uses what it read at its start. The
  replay script reads a list that its listener thread may still be filling.
* *Wrap.* The tick counter and the sequence counter wrap.
* *Failure.* Bus-off and its recovery in two calls, restart and power loss at any
  moment, frames lost, refused or dropped from a queue; a send, a receive or a
  write that fails half way through a capture.
* *Two implementations that must agree.* The generator against the monitor, with
  the findings declared by hand; the firmware's codec against the DBC.
* *Liveness.* A quiet bus must not stop outages from being noticed, an injection
  must end, a node must return to the bus, the replay script must give a verdict.

What makes each part correct:

* monitor: silence mirrors staleness, dates are those of the events and not of
  the looks, one alarm and one recovery per episode, no gap across an outage or
  a restart;
* monitor and node together: a gap tells how many frames the node built and the
  analyzer missed, no loss is passed over, a restart is a reboot;
* live loop: the same findings as the offline analysis plus what is still open,
  and every outage reported in the end;
* firmware: a command is in force for its time and no longer, acknowledged skips
  are not lost, the frames of an iteration agree, the bus comes back;
* recorder and replay: a recording that succeeded is complete; a replay that
  passed was delivered, and one that was delivered passes; delays do not add up;
* generator: the findings of its captures are those the scenario declares, once
  each and dated by the injections;
* codec: the analyzer's layout reads what the firmware encodes.

`PROJECT.json` lists every hazard at its line, with the properties that cover it
or the reason why none does.

## Modules

| Module | Models |
| --- | --- |
| `Monitor` | `DiagnosticMonitor`: one action per public call, each the whole call |
| `MonitorProperties` | what the monitor guarantees, and what the documents say of it |
| `Episodes` | the abstract promise of the findings: at most one open episode per subject |
| `LiveMonitor` | `command_monitor`'s loop, with an offline twin analysing the same frames |
| `CanBus` | `can_bus.c` over an external model of the TWAI driver |
| `ThermalController` | `thermal_controller_main.c`: two tasks, lock, wrapping clock, resets; extends `CanBus` |
| `ThermalProperties` | what the firmware guarantees |
| `Injection` | the abstract promise of the injection commands, with a plain countdown |
| `PowerMonitor` | `power_monitor_main.c`: one task, over an instance of `CanBus` whose queue keeps its frames |
| `Bench` | `PowerMonitor`, a lossy bus and `Monitor` composed |
| `Scenarios`, `Synthetic` | `scenario.py` and `synthetic.py` |
| `Regeneration` | `regenerate.py` and `check_findings.py`: `Synthetic` composed with `Monitor` and the report's counts |
| `CaptureLog` | `logfile.py`: lines and frames |
| `Comparison` | `compare_captures` of `timing.py` |
| `RoundTrip` | `replay.py`, `recorder.py`, `replay_check.py` and the three commands, over `CaptureLog` and `Comparison` |
| `Codec` | `can_protocol.c` and the layout of `dbc/hobby_network.dbc` |
| `Config` | `config.py` and `_resolve_config` |
| `MonitorProofs`, `LiveProofs`, `ThermalProofs`, `BenchProofs`, `RoundTripProofs`, `DeliveryProofs`, `RegenerationProofs`, `InputProofs` | theorems; `RoundTripProofs` is about `CaptureLog` and `Comparison`, `DeliveryProofs` about `RoundTrip`, `InputProofs` about `Codec` and `Config` |
| `MCMonitor`, `MCLive`, `MCThermal`, `MCBench`, `MCRegeneration`, `MCRoundTrip` | instances for TLC |

### Monitor

The variables are the fields of `MessageState` and `NodeState` that decide
anything, plus `produced` (the findings of the latest call) and `looked` (the
time it evaluated freshness at). `ProcessKnown(f, t)` and `ProcessUnknown(id, t)`
are `process_frame`; `FinalizeAt(t)` and `Finalize` are `finalize` with and
without `until`. Each action begins with what `_evaluate_timeouts` makes of the
state: `StalePoint` and `SilentPoint` are staleness and silence after the look,
and the rest of the action reads those. The order of the code is kept where it
matters: a recovery drops the counter baseline before the counter is checked, a
restart clears the baseline of all messages of its node, and nodes are visited
in the order of the database, so a node marked later in the same pass still
counts as active.

Time is a bounded set of integers. `MaxBackstep` says how far a timestamp may lag
the previous look; 0 makes the stream ordered. A signal is inside its bounds,
outside, or absent from a truncated frame; an enumerated one decodes to a label
unless its raw value has no entry, and `numeric_value` of a label is `None`.
Frame counts, wording and sort order of the findings are left out.

### LiveMonitor

`command_monitor`'s loop takes a message from the driver's queue (`HandleFrame`,
`SkipError`) or gives up (`RecvTimeout`), and in the latter case reads the clock
in a later step (`HandleTimeout`): the bus may deliver in between. The driver
stamps frames with the clock the loop reads, and no two frames get one time.
`--duration` and Ctrl+C are `Stop`, at any moment between two calls.
Beside the loop `Capture`, a second instance of `Monitor`, processes the same
frames and nothing else, as `analyze_frames` does with a recording of them.
`overtaken` remembers that an evaluation ran ahead of a frame handled later.

### ThermalController

A step of a task is what it does between two points where the other may run to
an effect: entering a critical section, each statement in it that the other
could see half done, and the rest of a handler. The clock counts modulo
`TickModulus`; `deadline_passed` is the sign of the difference. `phase` is the
time since the loop last woke. A reset, ordered by `restart` or caused by a loss
of power, may come at any step of the other task. `ordered`, `left` and `owed` are
history variables: the condition in force and its remaining time in the terms of
`Injection`, and the skip that must still be applied.

The model takes from the code's constants that an iteration (two transmissions
that wait 20 ms at most) ends within its period of 100 ms, so time does not pass
the next wake while an iteration is under way.

### PowerMonitor and Bench

`at` is the place of `app_main`: starting the bus, the boot heartbeat, then
`service`, `data`, `beat` if `BeatDue`, `next` and `delay`. `can_bus_transmit`
either takes a frame into the driver's queue or fails (`Send`), and the sequence
counter advances in both cases, as in the code. `tx` holds the frames with the
number of data frames built before each, a history the code does not have; the
rest of the driver is `CanBus`, whose `queued` is the length of `tx`. Initiating
recovery empties the queue.

`Bench` counts time in periods of the node. A frame that leaves the queue is
processed by the monitor at that time (`Deliver`) or never (`Lose`); `PowerCycle`
may come between any two steps. `gotData`, `firstBeat` and `priorBeat` are what
the analyzer got of this run and of the runs before, which the properties
compare with what the monitor makes of it.

### Scenarios, Synthetic and Regeneration

The scenarios are those of `scenario.py`, with its times in milliseconds, its
periods and its declared findings. `GenerateTick` is one round of
`generate_capture`: both nodes' `tick`, their frames stamped with the phase of
their message and a jitter, and sorted. `Regeneration` hands each frame to
`Monitor` before the next tick is generated: `Analyze` counts the findings by
`EventKind` and collects the nodes named, and `ChecksOut` is the condition under
which `check_findings.py` exits with zero. `check_findings.py` would accept a report
that names a node nothing was injected into, as long as the kinds are right;
`HealthyNodesAreNotNamed` rules that out. `Jitter` is the set of what a frame may be
early or late by, within `MaxJitter`; `ThresholdAssumption` says what the monitor's
thresholds need to put up with it, which the defaults do by far.

### CaptureLog, Comparison and RoundTrip

A line that matches the pattern is a record of its groups (time, channel, number
of digits of the identifier, the identifier, the hexadecimal digits of the payload). `Parsed` and
`WellFormed` are `parse_log_line`, `Formatted` is `format_log_line` with its rounding
to microseconds, its default channel and its width of the identifier. Times are
in nanoseconds.

`Comparison` is `compare_captures`: lengths, order of identifiers, payloads, sequence
series and the kinds of the findings. The findings are written out for one data
message among unknown identifiers; `Monitor` has the general case. `Produced` is
the monitor's list of them and `InDateOrder` the property `events`, a stable sort by
date; `EventKinds` are the kinds in that order. None of this takes the frames of a
capture to be in the order of their times.

`RoundTrip` has the two ways in which a capture is replayed and compared, as
`mode`: `script` is `replay_check.py` with its listener thread, `commands` are
`can-diag record`, `replay` and `verify-replay`, started and stopped by the user in
any order. `SendFrame` waits until the frame's time by the clock (`Reached`) and
may be late by `MaxDelay`. The socket may lose frames, others may use the bus
or cause errors, opening the bus, a send, a receive or the writing of the
file may fail, and a file may be cut short after a whole line, before the end of
one (`WritingFails`). `carried` is the history of what reached the listener.

### Codec and Config

Operators only. `Codec` gives every function of `can_protocol.c` over C's widths
(`write_u32_le` byte by byte, the casts between `int16_t` and `uint16_t`) and, apart from
it, the bit positions of the DBC. `Config` gives what a configuration file becomes,
whether it is refused with a `ConfigError` (`Rejected`) or raises something that `main`
does not catch (`Escaped`: bytes that are not UTF-8, a `message_stale_ms` that is no
mapping), how the command line overrides it, and the threshold of a message. No run is about them: their theorems cover every
input.

## Runs

| Run | Instance | Shows |
| --- | --- | --- |
| `MonitorFreshness` | two nodes, four messages, times 0..6, thresholds 1 and 2 | silence mirrors staleness, dates are exact after every call, recoveries follow alarms, episodes alternate, the final `finalize()` adds nothing |
| `MonitorFrames` | one node, two messages, times 0..4, counter modulo 3, one bounded signal, truncated frames, uptimes, an unknown identifier | no gap across an outage or a restart, range episodes close, every finding is an episode step, types |
| `LiveLoop` | one node, two messages, clock 0..4, queue of 2, one error frame, one counter value | live findings cover the offline ones, but for gaps after a look that overtook a frame, and add only outages still open, unless a look did; every outage is reported |
| `Thermal` | clock modulo 10, period 2, one injection length, one skip length, queue of 1, two commands or power losses | refinement of `Injection`, skips survive, frames agree, the bus returns, injections end, types |
| `Bench` | counter modulo 4, gaps of at most 2, heartbeat every 2 periods, queue of 2, times 0..6, one power cycle, two losses | the size of a gap is what was missed, no loss is passed over, restarts are reboots |
| `Regeneration` | the three scenarios of the source with its thresholds, jitter of either extreme | `check_findings.py` succeeds, one finding per episode, dates and the size of the gap, no finding names a node left alone |
| `RoundTrip` | four frames and a malformed line, speeds 1 and 2, delay 1, one loss, one message of others | the verdict is right in both directions, pacing, complete recordings, the script ends |

The following disagree with a document, and TLC shows how:

| Run | The document says | The code |
| --- | --- | --- |
| `MonitorActiveNodes` | a silence finding lists "which other nodes are still transmitting" (`docs/architecture.md:65-66`) | lists nodes never seen, and nodes silent by the same pass (`monitor.py:207-211`) |
| `MonitorGapTiming` | a gap is reported only when consistent with the elapsed time (`docs/protocol.md:83-89`) | elapsed time is not looked at (`monitor.py:409-418`), and `tests/test_counters.py:129-139` asserts so: two frames one cycle apart make a gap of two |
| `MonitorEnumerated` | a violation is closed "with a recovery when the value returns" (`docs/architecture.md:72-73`) | a signal with a value table returns as a label and is skipped (`monitor.py:453-455`) |
| `LiveSameEvents` | live and offline "produce identical event objects" (`docs/architecture.md:14-16`) | a timeout's clock reading can overtake a frame already stamped (`cli.py:163-166`) |
| `LiveErrorStorm` | freshness is evaluated on each incoming frame (`docs/architecture.md:60-63`) | error and remote frames skip it and keep `recv` from timing out (`cli.py:169-170`) |

Disagreements that need no run of their own, because a property that holds has
to except them:

* `docs/protocol.md:91-93` rules out a spurious gap after a reboot. If the boot heartbeat
  is lost, or both uptimes are 0, the monitor cannot see the reboot and may report
  one: `RebootUnseen` in `GapsAreExplained`.
* `docs/protocol.md:82` counts "once per transmitted data frame"; the counter also
  advances for a frame that was refused (`power_monitor_main.c:52`,
  `thermal_controller_main.c:167`). `Missed` in `Bench` counts these frames.
* `docs/architecture.md:14-16` again: after a look that overtook a frame the live
  monitor has dropped a counter baseline, and misses a gap that the report of
  the same frames shows: the exception in `LiveCoversCapture`. TLC violates the
  formula without it.
* `docs/architecture.md:44-46` has the boot heartbeat of the generator before its loop, as in
  the firmware. The phases of `scenario.py` put it after the first data frame of its
  tick: `HeartbeatPhase` in `Synthetic`.

### Bounds

* Monitor: two nodes with two messages are the bench of `dbc/hobby_network.dbc`; what
  the monitor relates is messages of one node, and nodes with each other.
  Thresholds keep the order of the defaults. Seven times let both messages of a
  node go stale at different moments, the node fall silent, recover and go stale
  again. A counter modulo 3 with gaps of at most 1 has a next value, a gap and a
  distance too large to report. Uptimes 0 and 1 are enough for a fall.
* Live loop: a queue of two frames lets a frame wait behind another while the
  loop is between timeout and clock; the clock runs to 4. All data frames carry
  the same counter modulo 2, so that each one that finds a baseline is a gap,
  and losing a baseline shows at once. 230,127 states.
* Thermal controller: the clock wraps at 10: an injection of 3 can begin before
  the wrap and end after it, and half the range is more than a duration plus two
  periods, which the C types give with a wide margin. Two commands are what races
  need: an injection replaced, cleared or expired under a second command, two
  skips, a reset in the middle of either. The clock runs on for ever.
* Bench: a counter modulo 4 with gaps of at most 2 wraps within the six periods
  and has every kind of distance; a queue of 2 fills up; thresholds 3 and 5
  and a suppression of 3 keep the order of the defaults (data frame no later than
  suppression, suppression before heartbeat). One power cycle and two
  losses: the boot heartbeat and a data frame may both be lost. `IndexModulus` is
  out of reach, as 2^32 periods are. 2,105,656 states.
* Regeneration: the periods, phases, thresholds and scenarios are the source's.
  The jitter of a frame is one of its two extremes, ±4 ms; a finding depends on
  jitter by comparisons of single ages with thresholds, for which the extremes
  are the hardest. The theorems need no such argument: all four properties are
  proved for every jitter. `Epoch` stands for a large constant. 147,027 states.
* Round trip: a capture of four frames has a gap, an unknown identifier, an
  outage and two frames at one time; its counter wraps; one of its lines is
  malformed. Speeds 1 and 2 differ in everything `speed` is used for. A file is
  cut after a line, before the payload of a line, or after 3 or 10 of its digits.
  `LatestStart` is 0: time passes once the replay has begun or failed, and the recorder
  may be started and stopped at any moment. `LastTime` is 9, beyond the last frame (6), its delay and
  the script's timeout (2). 561,646 states.

### Fairness

* `LiveFairSpec`: the loop is scheduled (it never waits longer than its 0.1 s
  timeout) and time passes. Nothing is assumed of the bus or of the user. The last
  clock value stands for all later ones.
* `ThermalSpec`: weak fairness of the main task (woken by the tick, never blocked
  for longer than the other's critical section), of a command under execution
  (its task has the higher priority), of the tick, and of the end of a recovery the
  controller was told to begin. Nobody has to give commands; the bus may fail for
  ever. `BusReturns` excepts a node whose start-up failed after a reset, which
  the code leaves dead.
* `RoundTripFairSpec`: time passes, and the main thread of the script runs. Nothing
  is assumed of its listener thread, which may hang in a receive, and nothing of
  the user of the commands.
* `Spec`, `BenchSpec` and `RegenerationSpec` state no fairness: only safety is
  asked of them.

Deadlock is checked in the runs of `Monitor`. In the others the system may stop:
the live loop when the user stops it, a node that could not start, the bench when
its time is up, the analysis with the capture, the commands when the user does
not go on.

## Theorems

All rest on the assumptions on the constants that the modules state, which TLC
evaluates in every run, and on what is said below.

### The monitor (`MonitorProofs`)

For every database, configuration and stream of frames:

* `TypeCorrect`. Types are inductive on their own; the work is in `Max` of a set
  of times, which `MaxTime` derives from well-foundedness of the naturals.
* `InductiveInvariant`: `IInv` is types, `SilentIffAllStale`,
  `SilenceDatedByLastMessage` and `FreshnessDecided` together. None of the last
  three is inductive without the others: whether a node falls silent depends on
  staleness, and its date on the dates of its messages. The lemmas on *looks*
  say that the state after `_evaluate_timeouts` satisfies the invariant at the
  new time; a frame then changes one message and its node. No order of
  timestamps is assumed.
* `SilenceMirrorsStaleness`, `AlarmsAreDated`, `LooksAreComplete`,
  `OfflineFinalizeIsSilent` follow from it.
* `RecoveryIsPositive`, assuming `MaxBackstep = 0`: an alarm that is open lies in
  the past of the latest look.
* `GapsStayInsideARun`, assuming `MaxBackstep = 0`: `BaselineInv` says that a counter
  baseline is never older than the latest restart of its node.
* `RangesCloseOnReturn`, assuming `Enumerated = {}`: `UncheckedIsClosed` says that
  without `check_ranges` nothing is ever open. What `docs/architecture.md` says of
  ranges is thus wrong only where a valid value has a label.
* `MonitorImplementsEpisodes`: `Spec => Reported!Spec`. Each subject belongs to
  one of four disjoint families and each family's step is proved on its own.

### The live loop (`LiveProofs`)

For every database, configuration, traffic, queue and scheduling of the loop.
Both monitors are instances of one module, so the lemmas of `MonitorProofs` are
used twice: as they are for the live monitor, whose stream of looks may step
back, and through `Cap`, an instance over the capture's variables with
`MaxBackstep` 0. `LiveInductiveInvariant` has four parts beside both `IInv`:

* `Mirror`: what frames alone determine (last timestamps, uptimes, restarts, open
  range violations, identifiers seen) is equal in both. A flag has only one
  possible date, so whatever the capture's monitor has flagged the live one has
  flagged with the same date; a counter baseline of the live one is the
  capture's or was dropped.
* `FlagsAreDue`, until a look overtakes a frame: what is flagged is past its
  threshold at the latest look. Hence a later look of the capture's monitor, when
  the next frame arrives, flags the same.
* `Told`: every open alarm has been reported, with the two properties themselves.
  A look reports exactly the alarms that it opens (`LookRaises`), so the set of what
  is open before it and what it reports is what is open after it.
* `QueueInv`: messages wait in the order of their stamps, none older than the latest
  frame of the capture and none newer than the clock.

What follows:

* `LiveLosesNothing`, `LiveAddsOnlyOpenOutages`: when and how often the loop looks leaves
  no trace in the findings, but for outages still open, and gaps after a look
  that overtook a frame.
* `SameOutagesInOrder`: without such a look `docs/architecture.md:14-16` is right about
  outages. The run `LiveSameEvents` violates the sentence; this says that nothing
  but an overtaking look can.
* `CaptureIsOrdered`: `LiveSpec => Cap!Spec`. The frames handled form a run of `Monitor`
  without backsteps, so that all its theorems hold of the report.
* `LoopAlarmsAreDated`, `LoopRaisesOnce`: the monitor's safety and its refinement of
  `Episodes` hold of the live monitor too. It is not a run of `Spec`, since the wall
  clock may lead the frames by any amount; neither proof needs their order.

### The thermal controller (`ThermalProofs`)

For every clock, period, counter, duration and queue length:

* `LockIsHeld`: each task is in its critical section exactly when it holds the
  lock, and the command task does not run before it is created.
* `ThermalTypeCorrect`: types, in three groups (time, shared variables, loop) that are each
  inductive beside the types of `CanBus` and of the command received.
* `SkipsSurvive`: pending and owed skip differ only between the two statements of
  `take_counter_skip`, where the lock keeps the command task out.
* `FramesAgree`: both frames of an iteration are made from its own injection.
* `CommandsAreObeyed`: `ThermalSpec => ObeysCommands`, the refinement of `Injection`.
  `DeadlineInv` says that a condition in force is the mode and that its deadline
  lies ahead by exactly the time it has left; that a mode no longer in force is
  past its deadline by no more than the loop takes to notice, which is less than
  two periods; and that between the two writes of a command only the mode is
  right, while the lock keeps the loop from looking. `OneTurn` reduces the modular
  arithmetic to sums. `ClockAssumption` makes the two cases distinguishable: twice a
  duration, and four periods, are less than the range of the counter.

### Node and monitor together (`BenchProofs`)

For every counter modulus, queue, number of losses and of power cycles:

* `GapsAreTrue`. `NodeInv`: the counter of a data frame is its number modulo the
  counter's range, wherever it waits. `KnowledgeInv`: the counter that the monitor remembers
  is that of the frame it got last of this run, or is left from a run whose end
  no heartbeat has shown.
* `RestartsAreTrue`, assuming `NoWrap` (the tick index does not come round in the
  time considered): heartbeats wait in the order of their uptimes, none below
  what the monitor remembers of the same run.
* `LossesAreReported`, assuming `SuppressionCovers` (a restart suppresses gaps for at
  least as long as a data frame may be late; 2000 and 350 ms by default): a
  missing baseline was dropped by a restart after the latest data frame, so the
  next frame is in the window that the property excepts. TLC violates the
  property if the suppression is shorter than the threshold.

### Replay and recording (`RoundTripProofs`, `DeliveryProofs`)

* `RoundingIsSmall`, `RoundingKeepsOrder`, `WrittenIsReadBack`: a frame survives being
  written and read but for its rounded time and its channel, if that had no name.
* `CaptureIsReadBack`, `ComparisonIsComplete`, `PassedIsComplete`: of whole captures. `ReadLog`
  and the series of `Comparison` are recursive functions; what they compute is
  proved by induction over the naturals, in a form without operator parameters
  (`Induction`, on sets, from `LeastNumber`, which counts lower bounds).
* `PassedIsDelivered`: `DeliveryInv` adds to types that, without traffic of others,
  what is received and what is lost was sent (`CountInv`), that the exit code of a
  recording tells what is in the file (`RecordInv`), and that a verdict of 0 with a
  recording that succeeded means equal contents (`PassedInv`).
* `RecordingsAreComplete`, with or without traffic of others: `QueueInv` says that
  what reached the listener is what was collected followed, in order, by what its
  socket still holds; each such frame has the time and the channel of the bus, so it is
  read back as it was written.
* `SameSidesPass`: two captures with the same contents, each in the order of its times
  (`InOrder`), pass `compare_captures` if every age is on the same side of the freshness
  threshold in both. By induction over the capture, each prefix produces findings of
  the same kinds in the same order (`EventsKeepKinds`), with dates that never decrease
  (`ProducedIsOrdered`); so the sort by date leaves them where they are
  (`SortKeepsOrder`). Captures out of order need not pass: a gap at 10 and an unknown
  identifier at 5 are swapped by the sort, a gap at 5 and an unknown one at 10 are not.
* `DelaysDoNotAddUp`, assuming a capture ordered in time (`Ordered`): `LateInv` bounds
  the lateness of the next frame from the start of the replay, whatever came
  before. `PaceInv` carries that to the listener of either mode: whoever received as
  many frames as were sent, and no others, received each in time.
* `FaithfulReplaysPass`, assuming the same: a recording with the contents of the
  capture gets exit code 0. Collected are then all frames that were sent, and all
  were sent (`CollectedInTime`); each is at a constant distance from the capture, up
  to one delay (`RescaledFollows` for what the script compares, `RereadFollows` for what
  `verify-replay` reads); so no age differs by more than a delay, none of them changes
  sides (`FollowersKeepSides`), and `SameSidesPass` applies: the capture is in order by
  `Ordered`, and what is compared with it because the listener stamps frames with a clock
  that does not run back (`OrderInv`). That the ages of the
  capture keep away from the threshold by a delay is a hypothesis of the
  property (`Robust`), not of the theorem. That the script cannot end in an error first is
  `FaithfulScriptRuns`, and that the recording is not taken for a missing file is
  `RecordingIsFile`, the reason why `RoundTripAssumption` keeps `None` apart from files.

`Ordered` is not assumed by the model, nor checked by `replay_frames`: a frame with a
time before its predecessor's is sent at once, and later than its own time by
more than a delay.

### Generated captures (`RegenerationProofs`)

`NoFalseAlarms`: a node that the scenario leaves alone is never named by a finding,
whatever befalls the other node, for every jitter within `MaxJitter`, every counter
modulus and all thresholds that exceed the periods by twice the jitter
(`ThresholdAssumption`). `GeneratedCaptureInvariant` is the inductive invariant:

* `CaptureInv`: the frames that wait are of the latest tick, in the order of their
  times, and none is later than the last phase and the jitter.
* `WaitingInv`, `RunInv`: a healthy node runs from the first tick, and at most one
  frame of each of its messages waits, stamped with its phase.
* `CounterInv`: what waits carries the counter after the one that the monitor has,
  and the node the one after that; so no gap.
* `SeenInv`: what the monitor got last of a message is of the tick before if one
  waits, and of the latest otherwise; for a heartbeat, of the tenth tick before. Hence
  `NothingIsMissed`: when the next frame of either node comes, the last one of each
  message is at most a period and two jitters old. The order of the capture matters
  here: what waits is not older than the frame looked at.
* `QuietInv`: the monitor has nothing open against the node, so that nothing
  recovers either. `NothingIsWrong` covers gaps, ranges and restarts.

Nothing is asked of the frames of the other node but their order and their last
time: its outages, restarts and skips cannot spill over.

`GroundTruth`, `OneFindingPerInjection` and `FindingsMatchInjections` are the other
half: what the node that is injected into raises is what its scenario declares, each
finding once and dated where the injection puts it. They hold for every jitter, every
counter modulus above the skip and all thresholds between those of `ThresholdAssumption`
and those of `DefaultsAssumption`, which only these three use: the checks of counters and
ranges are on, and an outage outlasts the threshold of either message, counted from the
last frame before it. The scenarios are those of the source. `InjectedNodeInvariant` is
the inductive invariant, `ThermalInv`; it is not inductive without `CaptureInv`, the
order of what waits:

* `ScenarioInv`, `ThermalRun`, `ThermalWaiting`: what the node is and sends at a tick is
  a function of the tick (`Out`, `OutOfRange`, `SkipAt`, `UptimeAt`), in and after an
  outage too.
* `ThermalSeen`: so is the tick of what the monitor got last of each message
  (`DataGot`, `BeatGot`), and the uptime it has. `InjectedFreshness` computes the ages from
  it: a message is found stale in an outage only, and if no other frame has brought the
  finding earlier, the first frame after the outage does.
* `ThermalCounter`: a frame's counter is the one after what the monitor has, but for the
  skip; after an outage the monitor has forgotten, whatever the node's counter is then.
* `ThermalOpen`: what is open is open because of the outage or the interval in force, and
  is dated by the last frame.
* `ReportInv`: the counts of the report as a function of the ticks done with and of what
  is open (`Raised`), and the dates of the latest call.

`Moments` is the core of the step: of all frames of the node, those of five ticks alone
raise something on their own account (150 and 200 range, 330 and 120 recovery and
restart, 450 gap), and timeouts are the rest. `WhatIsRaised` reduces a call's findings to
one of a kind, so that the counts can follow.

### Codec and configuration (`InputProofs`)

* `DataAgrees`, `HeartbeatAgrees`: every payload that the firmware encodes is read back
  by its decoder and by the DBC's layout. `SkipIsTheGap`, `AdvanceIsRepeatedNext`: the
  two counter functions agree with each other and with the monitor's distance.
  `MeasurementsAreWithinBounds`: clamped values are, the saturated one is not.
* `LoadedIsSound`, `PositiveOverridesAreSound`: what `ConfigAssumption` of `Monitor` asks of the
  thresholds, whenever `load_config` returns. `WhatEscapes`: when it does not, the error
  is not a `ConfigError` exactly for a file that cannot be decoded and for one whose
  keys are known but whose `message_stale_ms` is no mapping. `OverridesAreNotChecked`: zero or a negative value on the command line
  becomes a threshold all the same.

### Only model-checked

* Liveness: `OutageReported`, `BusReturns`, `InjectionEnds`, `CheckEnds`. The prover does
  not do `ENABLED`.
* That the violating runs violate: a theorem could only say when a property holds,
  as `SameOutagesInOrder` and `RangesCloseOnReturn` do for two of them.

## Not modelled, and why

* Rendering, serialisation, wording, console output, argument parsing and the
  `decode` command: no state, and no property is about them.
* Percentiles and means of `timing.py`: floating-point statistics that decide nothing.
* Simulated measurements: a sine of the tick; only their clamping decides anything.
* The statistics and the reset reason of the bus wrapper: they are printed, or sent
  and quoted in the text of a restart finding; they decide nothing.
* `DecodeError` inside `process_frame`: it cannot occur with the bundled database,
  whose signals decode from any payload. Another database would need a model of
  its multiplexing.
* Ctrl+C inside a call of the monitor: what is lost depends on the instruction it
  strikes, and nothing in the repository says what should hold then.
* A file created between `record`'s check for existence and its write: the model
  has one recorder.
* `scripts/vcan_roundtrip.sh`: it sets up an interface and calls the commands modelled.
* The findings of a replay in `Comparison` are those of captures with one data
  message; captures of several nodes are covered by `Regeneration` without replay.

## What is left

1. `Bench` with the thermal controller as its node: its skips and silence are what
   `GapsAreExplained` would then have to explain.
2. Two nodes on the bench: which nodes a silence finding names against who
   transmits.
