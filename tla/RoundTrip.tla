------------------------------ MODULE RoundTrip ------------------------------
(****************************************************************************)
(* A capture is replayed onto a bus, recorded again, and the recording is   *)
(* compared with the capture (docs/replay-validation.md), in two ways:      *)
(*                                                                          *)
(*   script    scripts/replay_check.py: a thread listens on a virtual bus   *)
(*             while the main thread replays, waits for it for some time,   *)
(*             and compares what was collected so far;                      *)
(*   commands  can-diag record beside can-diag replay, started and stopped  *)
(*             by the user, then can-diag verify-replay on the two files.   *)
(*                                                                          *)
(* The replay is the same in both.  A virtual bus is private to the script  *)
(* and loses nothing.                                                       *)
(****************************************************************************)
EXTENDS CaptureLog, Comparison

CONSTANTS
    Original,       \* the lines of the capture
    Foreign,        \* frames that others may put on the bus
    Channel,        \* name of the bus
    Speeds,         \* --speed
    JoinTimeout,    \* how long the script waits for the listener
    MaxDelay,       \* bound: how late a frame is sent
    MaxForeign,     \* bound: frames and errors of others
    MaxLosses,      \* bound: frames the listener's socket drops
    CutPoints,      \* bound: digits of the payload left in a line cut short
    LatestStart,    \* bound: when the replay starts
    LastTime,       \* bound: the clock
    None

VARIABLES
    mode, speed,
    clock,        \* in microseconds
    player,       \* "idle", "sending", "sent" or "failed"
    started,      \* when replay_frames started
    sent,         \* frames sent
    listener,     \* "idle", "open", "closed", "writing", "done" or "failed"
    rx,           \* what the listener's socket holds
    collected,    \* collected of the script, frames of record_to_file
    giveUp,       \* when the script stops waiting for the listener
    file,         \* lines of the recording, or of an earlier one
    recordExit,   \* exit code of can-diag record
    verdict,      \* exit code of the script, or of verify-replay
    foreign, losses,
    carried       \* history: application frames that reached the listener

playerVars   == <<player, started, sent>>
listenerVars == <<listener, rx, collected, carried>>
outcomeVars  == <<giveUp, file, recordExit, verdict>>
boundVars    == <<foreign, losses>>
roundTripVars == <<mode, speed, clock, playerVars, listenerVars, outcomeVars,
                   boundVars>>

OriginalFrames == ReadLog(Original)

ASSUME RoundTripAssumption ==
    /\ OriginalFrames \in Seq(CanFrame) \ {<<>>}
    /\ Foreign \subseteq CanFrame
    /\ Channel \in Channels \ {NoChannel}
    /\ Speeds \subseteq Nat \ {0}
    /\ CutPoints \subseteq Nat
    /\ {JoinTimeout, MaxForeign, MaxLosses,
        LatestStart, LastTime} \subseteq Nat
    /\ MaxDelay \in Nat \ {0}     \* the clock is no finer than that
    /\ None \notin Nat /\ None \notin Seq(LogLine)

-----------------------------------------------------------------------------
RoundTripInit ==
    /\ mode \in {"script", "commands"}
    /\ speed \in Speeds
    /\ clock = 0
    /\ player = "idle" /\ started = 0 /\ sent = 0
    /\ listener = "idle" /\ rx = <<>> /\ collected = <<>> /\ carried = <<>>
    /\ giveUp = None /\ recordExit = None /\ verdict = None
    /\ file \in IF mode = "script" THEN {None}
                ELSE {None, WriteLog(OriginalFrames)}
    /\ foreign = 0 /\ losses = 0

\* Mutant: the interval to the frame before is waited for after sending it.
TargetAfterPrevious ==
    IF sent = 0 \/ carried = <<>> THEN 0
    ELSE speed * (carried[Len(carried)].at - Microsecond * started)
         + OriginalFrames[sent + 1].at - OriginalFrames[sent].at

\* When the next frame is to be sent, from the start of the replay, in the time
\* of the capture.
Target == OriginalFrames[sent + 1].at - OriginalFrames[1].at

\* The time of the capture that the replay has reached at a time.
Reached(time) == speed * Microsecond * (time - started)

\* Time passes as long as somebody waits for it; a frame is sent before it is
\* more than MaxDelay late.
Tick ==
    /\ clock < LastTime
    /\ player \in {"idle", "sending"} \/ giveUp # None
    /\ player = "idle" => clock < LatestStart
    /\ player = "sending" => Reached(clock + 1 - MaxDelay) <= Target
    /\ clock' = clock + 1
    /\ UNCHANGED <<mode, speed, playerVars, listenerVars, outcomeVars,
                   boundVars>>

-----------------------------------------------------------------------------
(* replay_frames, called by the script once its listener runs, and by       *)
(* can-diag replay whenever the user starts it.                             *)

StartReplay ==
    /\ player = "idle"
    /\ mode = "script" => listener = "open"
    /\ player' = "sending"
    /\ started' = clock
    /\ UNCHANGED <<mode, speed, clock, sent, listenerVars, outcomeVars,
                   boundVars>>

NoReplay ==
    /\ player = "idle"
    /\ player' = "failed"
    /\ UNCHANGED <<mode, speed, clock, started, sent, listenerVars,
                   outcomeVars, boundVars>>

\* open_bus raises BusError, which replay_frames turns into a ReplayError.
ReplayCannotOpen == (mode = "script" => listener = "open") /\ NoReplay

\* can-diag replay refuses a channel that is not virtual, unless it is told
\* --allow-physical.
ReplayRefused == mode = "commands" /\ NoReplay

\* What the listener gets of a frame has the time and the channel of the bus.
Stamped(frame) ==
    [frame EXCEPT !.at = clock * Microsecond, !.channel = Channel]

\* A frame on the bus gets into the socket of the listener, if it is open.
Arrive(frame) ==
    IF listener = "open"
    THEN /\ rx' = Append(rx, [frame |-> Stamped(frame), error |-> FALSE])
         /\ carried' = Append(carried, Stamped(frame))
    ELSE UNCHANGED <<rx, carried>>

\* After the last frame the script calls listener.join(timeout=5.0).
SendFrame ==
    /\ player = "sending"
    /\ Reached(clock) >= Target
    /\ sent' = sent + 1
    /\ player' = IF sent' = Len(OriginalFrames) THEN "sent" ELSE "sending"
    /\ giveUp' = IF mode = "script" /\ player' = "sent"
                 THEN clock + JoinTimeout ELSE None
    /\ \/ Arrive(OriginalFrames[sent + 1]) /\ UNCHANGED losses
       \/ /\ mode = "commands"
          /\ losses < MaxLosses
          /\ losses' = losses + 1
          /\ UNCHANGED <<rx, carried>>
    /\ UNCHANGED <<mode, speed, clock, started, listener, collected, file,
                   recordExit, verdict, foreign>>

\* bus.send raises: what was sent before stays on the bus.
SendFails ==
    /\ player = "sending"
    /\ Reached(clock) >= Target
    /\ player' = "failed"
    /\ UNCHANGED <<mode, speed, clock, started, sent, listenerVars,
                   outcomeVars, boundVars>>

\* Others use the bus too, and it may report errors.
ForeignTraffic ==
    /\ mode = "commands"
    /\ listener = "open"
    /\ foreign < MaxForeign
    /\ foreign' = foreign + 1
    /\ \/ \E frame \in Foreign : Arrive(frame)
       \/ /\ rx' = Append(rx, [error |-> TRUE])
          /\ UNCHANGED carried
    /\ UNCHANGED <<mode, speed, clock, playerVars, listener, collected,
                   outcomeVars, losses>>

-----------------------------------------------------------------------------
(* The listener: _capture_thread of the script, iter_bus_frames of record.  *)

\* The script's thread starts before the replay; can-diag record when the user
\* starts it, with --overwrite if the output exists.
OpenListener ==
    /\ listener = "idle"
    /\ listener' = "open"
    /\ UNCHANGED <<mode, speed, clock, playerVars, rx, collected, carried,
                   outcomeVars, boundVars>>

NoListener ==
    /\ listener = "idle"
    /\ listener' = "failed"
    /\ recordExit' = IF mode = "commands" THEN 1 ELSE None
    /\ UNCHANGED <<mode, speed, clock, playerVars, rx, collected, carried,
                   giveUp, file, verdict, boundVars>>

\* open_bus raises BusError.
ListenerCannotOpen == NoListener

\* can-diag record refuses to replace a file without --overwrite.
RecordRefused == mode = "commands" /\ file # None /\ NoListener

\* recv returns a message.  The script's thread ends once it has all it
\* expects; record drops error frames.
Collect ==
    /\ listener = "open"
    /\ rx # <<>>
    /\ mode = "script" => Len(collected) < Len(OriginalFrames)
    /\ rx' = Tail(rx)
    /\ collected' = IF Head(rx).error THEN collected
                    ELSE Append(collected, Head(rx).frame)
    /\ UNCHANGED <<mode, speed, clock, playerVars, listener, carried,
                   outcomeVars, boundVars>>

-----------------------------------------------------------------------------
(* The script after the replay.                                             *)

\* Mutant: timestamps are compared as they were recorded.
NotRescaled(frames) == frames

\* CanFrame(timestamp=frame.timestamp * arguments.speed, ...), which leaves
\* is_extended_id at its default.
Rescaled(frames) ==
    [i \in DOMAIN frames |->
        [frames[i] EXCEPT !.at = speed * @, !.extended = FALSE]]

ExitCode(passed) == IF passed THEN 0 ELSE 1

Conclude(code) ==
    /\ verdict' = code
    /\ UNCHANGED <<mode, speed, clock, playerVars, listenerVars, giveUp, file,
                   recordExit, boundVars>>

\* The listener's thread has ended.
Joined == Len(collected) = Len(OriginalFrames)

\* Mutant: the script waits for the listener without a timeout.
ScriptComparesWhenJoined ==
    /\ mode = "script"
    /\ giveUp # None /\ Joined
    /\ Conclude(ExitCode(Passed(OriginalFrames, Rescaled(collected))))

\* The listener has ended or the timeout has passed.
ScriptCompares ==
    /\ mode = "script"
    /\ giveUp # None
    /\ Joined \/ clock >= giveUp
    /\ Conclude(ExitCode(Passed(OriginalFrames, Rescaled(collected))))

\* An exception ends the script: the listener's thread is a daemon.
ScriptFails ==
    /\ mode = "script"
    /\ player = "failed" \/ listener = "failed"
    /\ Conclude(1)

-----------------------------------------------------------------------------
(* record_to_file after the loop, and can-diag verify-replay.               *)

\* --duration has elapsed or the user pressed Ctrl+C.
StopRecording ==
    /\ mode = "commands"
    /\ listener = "open"
    /\ listener' = "closed"
    /\ UNCHANGED <<mode, speed, clock, playerVars, rx, collected, carried,
                   outcomeVars, boundVars>>

\* recv raises something else: what was collected is gone.
RecordingFails ==
    /\ mode = "commands"
    /\ listener = "open"
    /\ listener' = "failed"
    /\ recordExit' = 1
    /\ UNCHANGED <<mode, speed, clock, playerVars, rx, collected, carried,
                   giveUp, file, verdict, boundVars>>

\* write_log opens the output for writing, which empties it.
OpenOutput ==
    /\ listener = "closed"
    /\ listener' = "writing"
    /\ file' = <<>>
    /\ UNCHANGED <<mode, speed, clock, playerVars, rx, collected, carried,
                   giveUp, recordExit, verdict, boundVars>>

Recording == WriteLog(collected)

\* The recording is complete; an empty one is reported as a failure.
FinishOutput ==
    /\ listener = "writing"
    /\ listener' = "done"
    /\ file' = Recording
    /\ recordExit' = ExitCode(collected # <<>>)
    /\ UNCHANGED <<mode, speed, clock, playerVars, rx, collected, carried,
                   giveUp, verdict, boundVars>>

CutAfter(line, count) ==
    [line EXCEPT !.payload = SubSeq(@, 1, Lesser(count, Len(@)))]

\* Writing fails or the process is killed, anywhere in a line.
WritingFails ==
    /\ listener = "writing"
    /\ listener' = "failed"
    /\ recordExit' = 1
    /\ \E n \in DOMAIN Recording :
          LET whole == SubSeq(Recording, 1, n - 1)
              line  == Recording[n]
          IN  \/ file' = whole
              \/ file' = Append(whole, [line EXCEPT !.matches = FALSE])
              \/ \E count \in CutPoints :
                    file' = Append(whole, CutAfter(line, count))
    /\ UNCHANGED <<mode, speed, clock, playerVars, rx, collected, carried,
                   giveUp, verdict, boundVars>>

\* Both captures must have a frame.
VerifyReplay ==
    /\ mode = "commands"
    /\ listener \in {"done", "failed"}
    /\ LET replayed == IF file = None THEN <<>> ELSE ReadLog(file)
       IN  Conclude(ExitCode(replayed # <<>>
                             /\ Passed(OriginalFrames, replayed)))

-----------------------------------------------------------------------------
Player   == StartReplay \/ ReplayCannotOpen \/ ReplayRefused \/ SendFrame
            \/ SendFails
Listener == OpenListener \/ ListenerCannotOpen \/ RecordRefused
Script   == ScriptCompares \/ ScriptFails
Recorder == StopRecording \/ RecordingFails \/ OpenOutput \/ FinishOutput
            \/ WritingFails

\* The verdict ends the check, and with the script its thread.
RoundTripNext ==
    /\ verdict = None
    /\ \/ Tick \/ Player \/ ForeignTraffic \/ Listener \/ Collect
       \/ Script \/ Recorder \/ VerifyReplay

RoundTripSpec == RoundTripInit /\ [][RoundTripNext]_roundTripVars

\* Time passes and the main thread of the script runs; its listener need not,
\* and nothing is assumed of the user who runs the commands.
ScriptRuns ==
    mode = "script" /\ verdict = None /\ (Listener \/ Player \/ Script)

RoundTripFairSpec ==
    /\ RoundTripSpec
    /\ WF_roundTripVars(verdict = None /\ Tick)
    /\ WF_roundTripVars(ScriptRuns)

-----------------------------------------------------------------------------
Contents(frames) ==
    [i \in DOMAIN frames |-> <<frames[i].id, frames[i].data>>]

\* The check does not pass by mistake: if the recording succeeded and the
\* verdict is 0, every frame of the capture was received, unchanged and in
\* order, and nothing else; if nobody else used the bus, the replay sent them
\* all and none was lost.  Neither a partial replay, a late or early listener,
\* the race of the script with its thread, nor a file cut short goes unseen
\* (docs/replay-validation.md:40-41, :63-64).
PassedMeansDelivered ==
    (verdict = 0 /\ recordExit \in {None, 0}) =>
        /\ Contents(collected) = Contents(OriginalFrames)
        /\ foreign = 0 => sent = Len(OriginalFrames) /\ losses = 0

\* No age in the capture is within slack of the threshold.
Robust(slack) ==
    \A i \in DOMAIN OriginalFrames :
        LET age == Age(OriginalFrames, i)
        IN  age <= StaleAfter - slack \/ age > StaleAfter + slack

\* The check does not fail by mistake either: a recording of exactly the frames
\* of the capture passes, at any speed of the script and at speed 1 of the
\* commands, if no age is so near its threshold that a frame MaxDelay late
\* could put it on the other side.
FaithfulReplayPasses ==
    (/\ verdict # None
     /\ recordExit \in {None, 0}
     /\ Contents(collected) = Contents(OriginalFrames)
     /\ foreign = 0
     /\ mode = "script" \/ speed = 1
     /\ Robust(speed * Microsecond * MaxDelay)) => verdict = 0

\* Delays do not add up: each frame is sent no earlier than the capture has it,
\* counted from the start of the replay, and late by no more than one delay,
\* whatever the delays before.
Paced ==
    (mode = "script" /\ player # "idle") =>
        \A i \in DOMAIN carried :
            speed * (carried[i].at - Microsecond * started)
                - (OriginalFrames[i].at - OriginalFrames[1].at)
            \in 0 .. speed * Microsecond * MaxDelay

\* A recording that succeeded holds every application frame that reached the
\* listener, in order, but the last ones that its socket still held when it was
\* stopped; error frames leave no trace in it.
RecordingComplete ==
    recordExit = 0 =>
        LET held == {i \in DOMAIN rx : ~rx[i].error}
        IN  ReadLog(file) =
                SubSeq(carried, 1, Len(carried) - Cardinality(held))

\* The script ends, also if frames are missing or its thread is stuck: the
\* wait for the listener has a timeout.
CheckEnds == (mode = "script") ~> (verdict # None)
=============================================================================
