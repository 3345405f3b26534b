------------------------------- MODULE Monitor -------------------------------
(****************************************************************************)
(* DiagnosticMonitor of can_diag/monitor.py: the state machine that turns a *)
(* timestamped frame stream into findings.  One action per public call:     *)
(* process_frame (for a known and for an unknown identifier) and finalize   *)
(* (with a time, as the live loop calls it, and without one, as             *)
(* analyze_frames calls it).  Each action is the whole call.                *)
(*                                                                          *)
(* Times are integers.  A signal value is only known to be inside or        *)
(* outside its declared bounds, or missing from a truncated frame.  The     *)
(* counters that only appear in the wording of a finding are left out.      *)
(****************************************************************************)
EXTENDS Integers, FiniteSetsExt

CONSTANTS
    Messages,            \* messages the database defines
    Nodes,               \* senders of those messages
    Sender,              \* [Messages -> Nodes]
    Heartbeats,          \* messages whose name ends in _HEARTBEAT
    StaleAfter,          \* freshness threshold of each message
    Rank,                \* position of a node in NetworkDatabase.nodes()
    UnknownIds,          \* identifiers that are not in the database
    Signals,             \* signals with declared bounds
    Enumerated,          \* those of them that have a value table
    CounterModulus,      \* COUNTER_MODULUS
    MaxReportableGap,    \* max_reportable_gap
    RestartSuppression,  \* restart_suppression_ms
    CheckSequence,       \* check_sequence
    CheckRanges,         \* check_ranges
    ReportUnknownIds,    \* report_unknown_ids
    Frames,              \* contents of the frames the bus may carry
    LastTime,            \* bound: timestamps are 0..LastTime
    MaxBackstep,         \* bound: how far a timestamp may lag the latest look
    None                 \* Python's None

VARIABLES
    lastSeen,       \* MessageState.last_timestamp
    staleSince,     \* MessageState.stale_since
    lastSequence,   \* MessageState.last_sequence
    lastUptime,     \* MessageState.last_uptime
    rangeSince,     \* MessageState.range_violation_since
    silentSince,    \* NodeState.silent_since
    lastRestart,    \* NodeState.last_restart_timestamp
    unknownSeen,    \* the keys of _unknown_ids
    lastTimestamp,  \* _last_timestamp
    looked,         \* the time the latest call evaluated freshness at
    produced        \* the findings of the latest call

messageVars == <<lastSeen, staleSince, lastSequence, lastUptime, rangeSince>>
nodeVars    == <<silentSince, lastRestart>>
vars == <<messageVars, nodeVars, unknownSeen, lastTimestamp, looked, produced>>

Times    == 0 .. LastTime
Values   == {"valid", "invalid", "absent"}
Counters == 0 .. CounterModulus - 1
Optional(S) == S \cup {None}

Frame == [message  : Messages,
          sequence : Optional(Counters),
          uptime   : Optional(Nat),
          value    : [Signals -> Values]]

ASSUME DatabaseAssumption ==
    /\ Sender \in [Messages -> Nodes]
    /\ Heartbeats \subseteq Messages
    /\ Enumerated \subseteq Signals
    /\ Rank \in [Nodes -> Nat]
    /\ \A n, o \in Nodes : Rank[n] = Rank[o] => n = o

ASSUME ConfigAssumption ==
    /\ StaleAfter \in [Messages -> Nat \ {0}]
    /\ CounterModulus \in Nat \ {0}
    /\ MaxReportableGap \in Nat \ {0}
    /\ RestartSuppression \in Nat \ {0}
    /\ {CheckSequence, CheckRanges, ReportUnknownIds} \subseteq BOOLEAN

ASSUME BoundAssumption ==
    /\ LastTime \in Nat
    /\ MaxBackstep \in Nat
    /\ Frames \subseteq Frame
    /\ None \notin Int

-----------------------------------------------------------------------------
(* Findings: a record per DiagnosticEvent, with the fields the properties   *)
(* tell apart.                                                              *)

Stale(m, at)          == [kind |-> "stale", message |-> m, at |-> at]
Recovered(m, at, for) == [kind |-> "recovered", message |-> m, at |-> at,
                          recovery |-> for]
Silent(n, at, others) == [kind |-> "silent", node |-> n, at |-> at,
                          active |-> others]
NodeRecovered(n, at, for) == [kind |-> "node_recovered", node |-> n,
                              at |-> at, recovery |-> for]
Restart(n, at)        == [kind |-> "restart", node |-> n, at |-> at]
Gap(m, at, count)     == [kind |-> "gap", message |-> m, at |-> at,
                          skipped |-> count]
RangeViolation(m, s, at) == [kind |-> "range", message |-> m, signal |-> s,
                             at |-> at]
RangeRecovered(m, s, at, for) == [kind |-> "range_recovered", message |-> m,
                                  signal |-> s, at |-> at, recovery |-> for]
Unknown(id, at)       == [kind |-> "unknown", id |-> id, at |-> at]

-----------------------------------------------------------------------------
(* _evaluate_timeouts: freshness of every message seen so far, then of the  *)
(* nodes.                                                                   *)

\* Mutant: a message that is already flagged is flagged again.
GoesStaleAgain(m, t) ==
    /\ lastSeen[m] # None
    /\ t - lastSeen[m] > StaleAfter[m]

\* Mutant: an age equal to the threshold counts as past it.
GoesStaleAtThreshold(m, t) ==
    /\ lastSeen[m] # None
    /\ staleSince[m] = None
    /\ t - lastSeen[m] >= StaleAfter[m]

GoesStale(m, t) ==
    /\ lastSeen[m] # None
    /\ staleSince[m] = None
    /\ t - lastSeen[m] > StaleAfter[m]

\* Mutant: staleness is dated at the look that noticed it.
StalePointAtLook(m, t) == IF GoesStale(m, t) THEN t ELSE staleSince[m]

\* Mutant: the threshold is added to the time of the look.
StalePointFromLook(m, t) ==
    IF GoesStale(m, t) THEN t + StaleAfter[m] ELSE staleSince[m]

StalePoint(m, t) ==
    IF GoesStale(m, t) THEN lastSeen[m] + StaleAfter[m] ELSE staleSince[m]

Observed(n) == {m \in Messages : Sender[m] = n /\ lastSeen[m] # None}

\* Mutant: a node needs all its messages stale, those never seen included.
FallsSilentIfComplete(n, t) ==
    /\ silentSince[n] = None
    /\ Observed(n) # {}
    /\ \A m \in Messages : Sender[m] = n => StalePoint(m, t) # None

\* Mutant: a node that is already silent is reported again.
FallsSilentAgain(n, t) ==
    /\ Observed(n) # {}
    /\ \A m \in Observed(n) : StalePoint(m, t) # None

FallsSilent(n, t) ==
    /\ silentSince[n] = None
    /\ Observed(n) # {}
    /\ \A m \in Observed(n) : StalePoint(m, t) # None

\* Mutant: a silence is dated by the message that went stale first.
SilentPointOfFirst(n, t) ==
    IF FallsSilent(n, t)
    THEN Min({StalePoint(m, t) : m \in Observed(n)})
    ELSE silentSince[n]

SilentPoint(n, t) ==
    IF FallsSilent(n, t)
    THEN Max({StalePoint(m, t) : m \in Observed(n)})
    ELSE silentSince[n]

\* The loop visits the nodes in order and marks each as it goes, so a node
\* that falls silent in the same pass but comes later still counts as active.
ActiveBeside(n, t) ==
    {o \in Nodes \ {n} : /\ silentSince[o] = None
                         /\ FallsSilent(o, t) => Rank[o] > Rank[n]}

TimeoutFindings(t) ==
    {Stale(m, StalePoint(m, t)) : m \in {x \in Messages : GoesStale(x, t)}}
    \cup {Silent(n, SilentPoint(n, t), ActiveBeside(n, t)) :
             n \in {x \in Nodes : FallsSilent(x, t)}}

-----------------------------------------------------------------------------
(* _handle_decoded, evaluated after the timeouts of the same call.          *)

WasStale(m, t) == StalePoint(m, t) # None

\* Mutant: a recovery keeps the counter of before the outage.
BaselineKept(m, t) == lastSequence[m]

\* A recovery drops the counter baseline before the counter is checked.
Baseline(m, t) == IF WasStale(m, t) THEN None ELSE lastSequence[m]

UptimeFell(f) ==
    /\ f.message \in Heartbeats
    /\ f.uptime # None
    /\ lastUptime[f.message] # None
    /\ f.uptime < lastUptime[f.message]

ReadsCounter(f) ==
    /\ f.message \notin Heartbeats
    /\ CheckSequence
    /\ f.sequence # None

ForwardDistance(previous, current) ==
    (current - previous - 1) % CounterModulus

\* Mutant: one restart suppresses gaps for ever.
RestartSuppressedForEver(n, t) == lastRestart[n] # None

RestartSuppressed(n, t) ==
    lastRestart[n] # None /\ t - lastRestart[n] <= RestartSuppression

SequenceAfter(f, t) ==
    [m \in Messages |->
        IF UptimeFell(f) /\ Sender[m] = Sender[f.message] THEN None
        ELSE IF m # f.message THEN lastSequence[m]
        ELSE IF ReadsCounter(f) THEN f.sequence
        ELSE Baseline(m, t)]

GapFindings(f, t) ==
    LET previous == Baseline(f.message, t)
        distance == ForwardDistance(previous, f.sequence)
    IN  IF /\ ReadsCounter(f)
           /\ previous # None
           /\ distance # 0
           /\ ~RestartSuppressed(Sender[f.message], t)
           /\ distance <= MaxReportableGap
        THEN {Gap(f.message, t, distance)}
        ELSE {}

\* A raw value that has an entry in the value table decodes to its label,
\* which numeric_value turns into None; one without an entry stays a number.
Numeric(f, s) ==
    /\ f.value[s] # "absent"
    /\ s \in Enumerated => f.value[s] = "invalid"

\* Mutant: every offending frame opens the violation again.
OpensAgain(f, s) ==
    /\ CheckRanges
    /\ Numeric(f, s)
    /\ f.value[s] = "invalid"

Opens(f, s) ==
    /\ CheckRanges
    /\ Numeric(f, s)
    /\ f.value[s] = "invalid"
    /\ rangeSince[f.message][s] = None

Closes(f, s) ==
    /\ CheckRanges
    /\ Numeric(f, s)
    /\ f.value[s] = "valid"
    /\ rangeSince[f.message][s] # None

\* Mutant: a recovery is reported but the violation is not reset.
RangeAfterWithoutReset(f, t) ==
    [s \in Signals |-> IF Opens(f, s) THEN t ELSE rangeSince[f.message][s]]

RangeAfter(f, t) ==
    [s \in Signals |-> IF Opens(f, s) THEN t
                       ELSE IF Closes(f, s) THEN None
                       ELSE rangeSince[f.message][s]]

RangeFindings(f, t) ==
    {RangeViolation(f.message, s, t) : s \in {s \in Signals : Opens(f, s)}}
    \cup {RangeRecovered(f.message, s, t, t - rangeSince[f.message][s]) :
             s \in {s \in Signals : Closes(f, s)}}

RecoveryFindings(f, t) ==
    LET m == f.message
        n == Sender[m]
    IN  {Recovered(x, t, t - StalePoint(x, t)) :
            x \in {y \in {m} : WasStale(y, t)}}
        \cup {NodeRecovered(x, t, t - SilentPoint(x, t)) :
                 x \in {y \in {n} : SilentPoint(y, t) # None}}

RestartFindings(f, t) ==
    IF UptimeFell(f) THEN {Restart(Sender[f.message], t)} ELSE {}

-----------------------------------------------------------------------------
Init ==
    /\ lastSeen      = [m \in Messages |-> None]
    /\ staleSince    = [m \in Messages |-> None]
    /\ lastSequence  = [m \in Messages |-> None]
    /\ lastUptime    = [m \in Messages |-> None]
    /\ rangeSince    = [m \in Messages |-> [s \in Signals |-> None]]
    /\ silentSince   = [n \in Nodes |-> None]
    /\ lastRestart   = [n \in Nodes |-> None]
    /\ unknownSeen   = {}
    /\ lastTimestamp = None
    /\ looked        = 0
    /\ produced      = {}

\* process_frame with an identifier the database defines
ProcessKnown(f, t) ==
    LET m == f.message
        n == Sender[m]
    IN  /\ lastSeen' = [lastSeen EXCEPT ![m] = t]
        /\ staleSince' = [x \in Messages |-> IF x = m THEN None
                                              ELSE StalePoint(x, t)]
        /\ silentSince' = [x \in Nodes |-> IF x = n THEN None
                                            ELSE SilentPoint(x, t)]
        /\ lastSequence' = SequenceAfter(f, t)
        /\ lastUptime' = IF m \in Heartbeats /\ f.uptime # None
                         THEN [lastUptime EXCEPT ![m] = f.uptime]
                         ELSE lastUptime
        /\ lastRestart' = IF UptimeFell(f)
                          THEN [lastRestart EXCEPT ![n] = t]
                          ELSE lastRestart
        /\ rangeSince' = [rangeSince EXCEPT ![m] = RangeAfter(f, t)]
        /\ lastTimestamp' = t
        /\ looked' = t
        /\ produced' = TimeoutFindings(t) \cup RecoveryFindings(f, t)
                       \cup RestartFindings(f, t) \cup GapFindings(f, t)
                       \cup RangeFindings(f, t)
        /\ UNCHANGED unknownSeen

\* process_frame with an identifier the database does not define
ProcessUnknown(id, t) ==
    /\ staleSince' = [m \in Messages |-> StalePoint(m, t)]
    /\ silentSince' = [n \in Nodes |-> SilentPoint(n, t)]
    /\ unknownSeen' = unknownSeen \cup {id}
    /\ lastTimestamp' = t
    /\ looked' = t
    /\ produced' = TimeoutFindings(t)
                   \cup {Unknown(x, t) :
                           x \in {y \in {id} : y \notin unknownSeen
                                               /\ ReportUnknownIds}}
    /\ UNCHANGED <<lastSeen, lastSequence, lastUptime, rangeSince, lastRestart>>

EvaluateAt(t) ==
    /\ staleSince' = [m \in Messages |-> StalePoint(m, t)]
    /\ silentSince' = [n \in Nodes |-> SilentPoint(n, t)]
    /\ looked' = t
    /\ produced' = TimeoutFindings(t)
    /\ UNCHANGED <<lastSeen, lastSequence, lastUptime, rangeSince, lastRestart,
                   unknownSeen, lastTimestamp>>

\* finalize(until=t)
FinalizeAt(t) == EvaluateAt(t)

\* finalize(): the end is the timestamp of the last frame.  analyze_frames is
\* its only caller and never evaluates freshness past the last frame before.
Finalize ==
    /\ lastTimestamp # None
    /\ looked = lastTimestamp
    /\ EvaluateAt(lastTimestamp)

\* Timestamps come from the capture or from the clock; MaxBackstep = 0 makes
\* them ordered.
Arrives(t) == t >= looked - MaxBackstep

Next ==
    \/ \E f \in Frames, t \in Times : Arrives(t) /\ ProcessKnown(f, t)
    \/ \E id \in UnknownIds, t \in Times : Arrives(t) /\ ProcessUnknown(id, t)
    \/ \E t \in Times : Arrives(t) /\ FinalizeAt(t)
    \/ Finalize

Spec == Init /\ [][Next]_vars
=============================================================================
