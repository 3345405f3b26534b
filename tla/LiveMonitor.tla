----------------------------- MODULE LiveMonitor -----------------------------
(****************************************************************************)
(* command_monitor of can_diag/cli.py: the loop that feeds the monitor from *)
(* a bus.  It takes a message from the driver's receive queue or gives up   *)
(* after a timeout, reads the wall clock, and either processes the frame at *)
(* its driver timestamp or evaluates freshness at the wall clock.  Between  *)
(* giving up and reading the clock the bus goes on.                         *)
(*                                                                          *)
(* Beside it runs what analyze_frames makes of the same frames, as if they  *)
(* had been recorded: the second instance of Monitor.                       *)
(****************************************************************************)
EXTENDS MonitorProperties, Sequences

CONSTANTS
    RxLength,    \* length of the driver's receive queue
    MaxErrors,   \* bound: error and remote frames on the bus
    ErrorStorm   \* TRUE: the bus reports errors without end

VARIABLES
    clock,     \* time.time(), shared with the driver's timestamps
    busy,      \* the bus has carried a frame at this clock value
    rx,        \* messages the driver holds for recv
    errors,    \* error and remote frames so far
    pc,        \* where the loop is: "recv", "timed out" or "stopped"
    events,    \* DiagnosticMonitor.events
    overtaken  \* a look has been ahead of a frame that was handled later

loopVars == <<clock, busy, rx, errors, pc, overtaken>>

VARIABLES capLastSeen, capStaleSince, capLastSequence, capLastUptime,
          capRangeSince, capSilentSince, capLastRestart, capUnknownSeen,
          capLastTimestamp, capLooked, capProduced,
          capEvents    \* the findings of the report

captureVars == <<capLastSeen, capStaleSince, capLastSequence, capLastUptime,
                 capRangeSince, capSilentSince, capLastRestart, capUnknownSeen,
                 capLastTimestamp, capLooked, capProduced, capEvents>>

liveVars == <<vars, events, loopVars, captureVars>>

Capture == INSTANCE Monitor WITH
    lastSeen      <- capLastSeen,      staleSince   <- capStaleSince,
    lastSequence  <- capLastSequence,  lastUptime   <- capLastUptime,
    rangeSince    <- capRangeSince,    silentSince  <- capSilentSince,
    lastRestart   <- capLastRestart,   unknownSeen  <- capUnknownSeen,
    lastTimestamp <- capLastTimestamp, looked       <- capLooked,
    produced      <- capProduced

ASSUME LiveAssumption ==
    /\ RxLength \in Nat \ {0}
    /\ MaxErrors \in Nat
    /\ ErrorStorm \in BOOLEAN

-----------------------------------------------------------------------------
LiveInit ==
    /\ Init
    /\ Capture!Init
    /\ clock = 0
    /\ busy = FALSE
    /\ rx = <<>>
    /\ errors = 0
    /\ pc = "recv"
    /\ events = {}
    /\ overtaken = FALSE
    /\ capEvents = {}

\* Time passes until the process ends; the last tick stands for all later ones.
Tick ==
    /\ pc # "stopped"
    /\ clock < LastTime
    /\ clock' = clock + 1
    /\ busy' = FALSE
    /\ UNCHANGED <<vars, events, captureVars, rx, errors, pc, overtaken>>

\* The driver stamps what arrives and queues it.  What arrives while the queue
\* is full is lost, which is a stuttering step.
Receive(content) ==
    /\ pc # "stopped"
    /\ Len(rx) < RxLength
    /\ rx' = Append(rx, [content |-> content, stamp |-> clock])
    /\ UNCHANGED <<vars, events, captureVars, clock, pc, overtaken>>

\* The bus carries one frame at a time: no two have the same timestamp.
BusFrame ==
    /\ ~busy
    /\ busy' = TRUE
    /\ \E content \in Frames \cup UnknownIds : Receive(content)
    /\ UNCHANGED errors

BusError ==
    /\ ErrorStorm \/ errors < MaxErrors
    /\ errors' = IF ErrorStorm THEN errors ELSE errors + 1
    /\ Receive(None)
    /\ UNCHANGED busy

\* bus.recv(timeout=0.1) returns None; the wall clock is not read yet.
RecvTimeout ==
    /\ pc = "recv"
    /\ rx = <<>>
    /\ pc' = "timed out"
    /\ UNCHANGED <<vars, events, captureVars, clock, busy, rx, errors, overtaken>>

\* Mutant: a timeout is only waited out.
HandleTimeoutIdle ==
    /\ pc = "timed out"
    /\ pc' = "recv"
    /\ UNCHANGED <<vars, events, captureVars, clock, busy, rx, errors, overtaken>>

\* finalize(until=now), with now read from the clock at this moment
HandleTimeout ==
    /\ pc = "timed out"
    /\ FinalizeAt(clock)
    /\ events' = events \cup produced'
    /\ pc' = "recv"
    /\ UNCHANGED <<captureVars, clock, busy, rx, errors, overtaken>>

\* bus.recv(timeout=0.1) returns an error or a remote frame: it is dropped, and
\* freshness is not evaluated.
SkipError ==
    /\ pc = "recv"
    /\ rx # <<>>
    /\ Head(rx).content = None
    /\ rx' = Tail(rx)
    /\ UNCHANGED <<vars, events, captureVars, clock, busy, errors, pc, overtaken>>

\* Mutant: a frame is processed at the wall clock, not at its timestamp.
HandleFrameAtClock ==
    /\ pc = "recv"
    /\ rx # <<>>
    /\ LET content == Head(rx).content
       IN  \/ /\ content \in Frames
              /\ ProcessKnown(content, clock)
              /\ Capture!ProcessKnown(content, Head(rx).stamp)
           \/ /\ content \in UnknownIds
              /\ ProcessUnknown(content, clock)
              /\ Capture!ProcessUnknown(content, Head(rx).stamp)
    /\ events' = events \cup produced'
    /\ capEvents' = capEvents \cup capProduced'
    /\ rx' = Tail(rx)
    /\ UNCHANGED <<clock, busy, errors, pc, overtaken>>

\* bus.recv(timeout=0.1) returns a frame.  The loop takes nothing else from the
\* outside until it has handled it, so receiving and handling are one step.
HandleFrame ==
    /\ pc = "recv"
    /\ rx # <<>>
    /\ LET content == Head(rx).content
           stamp   == Head(rx).stamp
       IN  /\ \/ /\ content \in Frames
                 /\ ProcessKnown(content, stamp)
                 /\ Capture!ProcessKnown(content, stamp)
              \/ /\ content \in UnknownIds
                 /\ ProcessUnknown(content, stamp)
                 /\ Capture!ProcessUnknown(content, stamp)
           /\ overtaken' = (overtaken \/ stamp < looked)
    /\ events' = events \cup produced'
    /\ capEvents' = capEvents \cup capProduced'
    /\ rx' = Tail(rx)
    /\ UNCHANGED <<clock, busy, errors, pc>>

\* --duration has elapsed or the user pressed Ctrl+C: what the driver still
\* holds is discarded, and freshness is evaluated once more.
Stop ==
    /\ pc # "stopped"
    /\ FinalizeAt(clock)
    /\ events' = events \cup produced'
    /\ pc' = "stopped"
    /\ UNCHANGED <<captureVars, clock, busy, rx, errors, overtaken>>

Loop == RecvTimeout \/ HandleTimeout \/ SkipError \/ HandleFrame

LiveNext == Tick \/ BusFrame \/ BusError \/ Loop \/ Stop

LiveSpec == LiveInit /\ [][LiveNext]_liveVars

\* The process is scheduled and time passes; nothing is assumed of the bus or
\* of the user.
LiveFairSpec ==
    /\ LiveSpec
    /\ WF_liveVars(Loop)
    /\ WF_liveVars(Tick)

-----------------------------------------------------------------------------
\* Whatever the timing of the loop, each finding that analyze_frames makes of
\* the frames it handled is reported, with the same dates and durations; but
\* for gaps, of which a look that was ahead of a frame may have dropped the
\* counter baseline.
LiveCoversCapture ==
    \A e \in CoreOf(capEvents) \ CoreOf(events) : overtaken /\ e.kind = "gap"

\* As long as no look was ahead of a frame handled later, the loop reports
\* beyond that only outages that are still open: when and how often it looked
\* leaves no trace in the findings.
LiveAddsOpenOutages ==
    ~overtaken => CoreOf(events) \ CoreOf(capEvents) \subseteq OpenAlarms

Overdue(m) == lastSeen[m] # None /\ clock - lastSeen[m] > StaleAfter[m]

\* A message that stays away past its threshold is flagged, also when the bus
\* goes quiet altogether, unless it is seen again.
OutageReported ==
    \A m \in Messages : Overdue(m) ~> (staleSince[m] # None \/ ~Overdue(m))

\* docs/architecture.md:14-16: monitor and report "both produce identical
\* event objects".  Once a message is back, its outages are in the report of
\* the same frames.
SameOutages ==
    \A e \in events :
        (e.kind = "stale" /\ staleSince[e.message] = None) => e \in capEvents
=============================================================================
