-------------------------------- MODULE Bench --------------------------------
(****************************************************************************)
(* The bench: the power monitor's firmware, a bus that may lose frames, and *)
(* the analyzer, which processes what arrives at the time it arrives.  The  *)
(* question is what the findings about sequence and restart say of what     *)
(* really happened to the node and to its frames.                           *)
(****************************************************************************)
EXTENDS Monitor, Sequences

CONSTANTS
    PowerData, PowerBeat, Reading, BeatTicks, IndexModulus, QueueLength,
    MaxCycles,   \* bound: losses of power
    MaxLosses    \* bound: frames lost between the node and the analyzer

VARIABLES
    at, sequence, tickIndex, started, driver, tx, built,    \* see PowerMonitor
    clock,       \* time, in periods of the node
    cycles,      \* losses of power so far
    losses,      \* frames lost so far
    gotData,     \* history: number of the latest data frame of this run that
                 \* the analyzer got
    firstBeat,   \* history: first uptime of this run that the analyzer got
    priorBeat    \* history: last uptime it got of the runs before

nodeState    == <<at, sequence, tickIndex, started, driver, tx, built>>
benchHistory == <<gotData, firstBeat, priorBeat>>
benchVars    == <<vars, nodeState, clock, cycles, losses, benchHistory>>

Node == INSTANCE PowerMonitor

ASSUME BenchAssumption ==
    /\ Messages = {PowerData, PowerBeat}
    /\ Heartbeats = {PowerBeat}
    /\ Sender[PowerData] = Sender[PowerBeat]
    /\ CheckSequence
    /\ PowerData # PowerBeat
    /\ {BeatTicks, IndexModulus, CounterModulus} \subseteq Nat \ {0}
    /\ MaxCycles \in Nat /\ MaxLosses \in Nat

-----------------------------------------------------------------------------
BenchInit ==
    /\ Init
    /\ Node!PowerInit
    /\ clock = 0 /\ cycles = 0 /\ losses = 0
    /\ gotData = None /\ firstBeat = None /\ priorBeat = None

\* A period passes; the iteration of the loop ends within it.  Without power,
\* or if the node did not start, time passes alone.
Tick ==
    /\ clock < LastTime
    /\ clock' = clock + 1
    /\ \/ Node!Wake
       \/ at \in {"start bus", "dead"} /\ UNCHANGED nodeState
    /\ UNCHANGED <<vars, cycles, losses, benchHistory>>

NodeStep ==
    /\ Node!AppMain \/ Node!Controller
    /\ UNCHANGED <<vars, clock, cycles, losses, benchHistory>>

PowerCycle ==
    /\ cycles < MaxCycles
    /\ cycles' = cycles + 1
    /\ Node!PowerCycle
    /\ gotData' = None /\ firstBeat' = None
    /\ priorBeat' = lastUptime[PowerBeat]
    /\ UNCHANGED <<vars, clock, losses>>

Arrival == Head(tx)

\* A frame reaches the analyzer.
Deliver ==
    /\ Node!SendQueued
    /\ ProcessKnown(Arrival.frame, clock)
    /\ IF Arrival.frame.message = PowerData
       THEN gotData' = Arrival.number /\ UNCHANGED firstBeat
       ELSE /\ firstBeat' = IF firstBeat = None THEN Arrival.frame.uptime
                            ELSE firstBeat
            /\ UNCHANGED gotData
    /\ UNCHANGED <<clock, cycles, losses, priorBeat>>

\* A frame is sent, and the analyzer does not get it.
Lose ==
    /\ losses < MaxLosses
    /\ losses' = losses + 1
    /\ Node!SendQueued
    /\ UNCHANGED <<vars, clock, cycles, benchHistory>>

BenchNext == Tick \/ NodeStep \/ PowerCycle \/ Deliver \/ Lose

BenchSpec == BenchInit /\ [][BenchNext]_benchVars

-----------------------------------------------------------------------------
(* A step that grows the monitor's knowledge is Deliver; Arrival is then    *)
(* the frame it delivers, and Missed the data frames of this run that the   *)
(* node built since the last one the analyzer got and that it will never    *)
(* get: refused by a full queue or a stopped driver, dropped by a recovery, *)
(* lost on the way.                                                         *)

DeliversData == Deliver /\ Arrival.frame.message = PowerData
DeliversBeat == Deliver /\ Arrival.frame.message = PowerBeat

Missed == Arrival.number - gotData - 1

GapsIn(findings) == {e \in findings : e.kind = "gap"}

\* The analyzer cannot know of the reboot: of this run it has got no heartbeat,
\* or one with an uptime that did not fall.
RebootUnseen ==
    firstBeat = None \/ priorBeat = None \/ firstBeat >= priorBeat

\* A gap tells the truth.  Within a run its size is, modulo the counter, the
\* number of data frames that the node built and the analyzer missed, wherever
\* they got lost; across a reboot one is reported only when the heartbeats the
\* analyzer got could not show the reboot (docs/protocol.md:91-93 says never).
GapsAreExplained ==
    [][\A e \in GapsIn(produced') : DeliversData =>
          IF gotData # None
          THEN e.skipped = Missed % CounterModulus
          ELSE RebootUnseen]_benchVars

\* No loss is passed over: unless the outage was long enough to be reported as
\* such, or a restart just before explains it, or so many frames are missing
\* that the counter cannot tell, missed frames are reported as a gap.  A restart
\* must suppress gaps for at least as long as a data frame may be late.
LossIsReported ==
    [][(/\ DeliversData
        /\ gotData # None
        /\ clock - lastSeen[PowerData] <= StaleAfter[PowerData]
        /\ \/ lastRestart[Sender[PowerData]] = None
           \/ clock - lastRestart[Sender[PowerData]] > RestartSuppression
        /\ Missed % CounterModulus \in 1 .. MaxReportableGap)
        => GapsIn(produced') # {}]_benchVars

RestartReported == \E e \in produced' : e.kind = "restart"

\* A restart is reported only for the first heartbeat that the analyzer gets of
\* a run after another; and it is reported if that is the boot heartbeat and
\* the last uptime of the runs before was not zero.
RestartsAreReboots ==
    [][DeliversBeat =>
          /\ RestartReported => firstBeat = None /\ priorBeat # None
          /\ (firstBeat = None /\ Arrival.number = 0
                /\ priorBeat \notin {None, 0}) => RestartReported]_benchVars
=============================================================================
