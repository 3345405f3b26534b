----------------------------- MODULE Regeneration -----------------------------
(****************************************************************************)
(* regenerate.py and check_findings.py: a scenario's capture is generated,  *)
(* analyzed and reported, and the report is compared with the findings that *)
(* the scenario's injections are meant to raise.                            *)
(*                                                                          *)
(* The frames of a tick are analyzed before the next tick is generated; the *)
(* two have nothing in common but the frames.                               *)
(****************************************************************************)
EXTENDS Monitor, Sequences

CONSTANTS PowerNode, ThermalNode, DataMessage, HeartbeatMessage,
          Temperature, Jitter, Epoch

VARIABLES
    scenario, tick, model, capture,    \* see Synthetic
    counts,      \* AnalysisReport.event_counts
    named        \* nodes of the findings of the report

regenerationVars == <<vars, scenario, tick, model, capture, counts, named>>

Generator == INSTANCE Synthetic

ASSUME NetworkAssumption ==
    /\ Nodes = {PowerNode, ThermalNode}
    /\ PowerNode # ThermalNode
    /\ CounterModulus \in Nat \ {0}
    /\ Jitter \subseteq -Generator!MaxJitter .. Generator!MaxJitter
    /\ Epoch \in Nat \ 0 .. Generator!MaxJitter - 1
    /\ \A n \in Nodes : /\ Sender[DataMessage[n]] = n
                        /\ Sender[HeartbeatMessage[n]] = n
                        /\ HeartbeatMessage[n] \in Heartbeats
                        /\ DataMessage[n] \in Messages \ Heartbeats
    /\ Signals = {Temperature}

\* The default thresholds exceed the periods by 250 and 1500 ms.  A frame may
\* be early by the jitter, and the one before it late.
ASSUME ThresholdAssumption ==
    \A n \in Nodes :
        /\ StaleAfter[DataMessage[n]] >=
               Generator!DataPeriod + 2 * Generator!MaxJitter
        /\ StaleAfter[HeartbeatMessage[n]] >=
               Generator!HeartbeatPeriod + 2 * Generator!MaxJitter

\* What the defaults allow the injections to show: the checks are on, outages
\* last longer than the thresholds, a heartbeat being due up to a period before
\* the outage, and a skip is less than a turn of the counter.
ASSUME DefaultsAssumption ==
    LET outage == Generator!RestartInjection.end - Generator!RestartInjection.start
        data   == StaleAfter[DataMessage[ThermalNode]]
        beat   == StaleAfter[HeartbeatMessage[ThermalNode]]
    IN  /\ CheckSequence /\ CheckRanges /\ Temperature \notin Enumerated
        /\ data < outage
        /\ beat < outage + Generator!HeartbeatPeriod - Generator!DataPeriod
        /\ data <= beat
        /\ Generator!SkipCount < CounterModulus
        /\ Generator!SkipCount <= MaxReportableGap

-----------------------------------------------------------------------------
(* The report: event_counts and the nodes its findings name.                *)

EventKind(e) ==
    CASE e.kind = "stale" -> IF e.message \in Heartbeats
                             THEN "heartbeat_timeout" ELSE "data_message_stale"
      [] e.kind = "recovered"       -> "message_recovered"
      [] e.kind = "silent"          -> "node_silent"
      [] e.kind = "node_recovered"  -> "node_recovered"
      [] e.kind = "restart"         -> "node_restart"
      [] e.kind = "gap"             -> "sequence_gap"
      [] e.kind = "range"           -> "range_violation"
      [] e.kind = "range_recovered" -> "range_recovered"
      [] e.kind = "unknown"         -> "unknown_message_id"

EventKinds ==
    Generator!OutageFindings
    \cup {"node_restart", "sequence_gap", "range_violation",
          "range_recovered", "unknown_message_id"}

\* EVENT_SEVERITY other than info
Alerts == EventKinds \ {"message_recovered", "node_recovered",
                        "range_recovered"}

NodeOf(e) ==
    IF e.kind \in {"silent", "node_recovered", "restart"} THEN e.node
    ELSE Sender[e.message]

RegenerationInit ==
    /\ Init
    /\ Generator!GeneratorInit
    /\ counts = [k \in EventKinds |-> 0]
    /\ named = {}

Generate ==
    /\ capture = <<>>
    /\ Generator!GenerateTick
    /\ UNCHANGED <<vars, counts, named>>

\* analyze_frames takes the next frame of the capture.
Analyze ==
    /\ capture # <<>>
    /\ ProcessKnown(Head(capture).frame, Head(capture).at)
    /\ capture' = Tail(capture)
    /\ counts' = [k \in EventKinds |->
                     counts[k]
                     + Cardinality({e \in produced' : EventKind(e) = k})]
    /\ named' = named \cup {NodeOf(e) : e \in produced'}
    /\ UNCHANGED <<scenario, tick, model>>

RegenerationNext == Generate \/ Analyze

RegenerationSpec == RegenerationInit /\ [][RegenerationNext]_regenerationVars

-----------------------------------------------------------------------------
Reported ==
    capture = <<>> /\ tick * Generator!DataPeriod = scenario.duration

ObservedKinds == {k \in EventKinds : counts[k] > 0}

InjectedNodes == {i.node : i \in scenario.injections}

\* The exit code of check_findings.py is zero.
ChecksOut ==
    /\ ObservedKinds = Generator!Expected(scenario)
    /\ InjectedNodes \subseteq named

\* The generator, the monitor and the declared ground truth agree for every
\* jitter: a capture raises the kinds of findings that its injections declare,
\* and no other; and it has alerts only if something was injected.
GroundTruthHolds ==
    Reported =>
        /\ ChecksOut
        /\ (\E k \in Alerts : counts[k] > 0) <=> scenario.injections # {}

\* A node that nothing was injected into is never named, whatever happens to the
\* other one: no false alarms.  "PowerMonitor traffic is unaffected"
\* (scenario.py:124-125).
HealthyNodesAreNotNamed == named \subseteq InjectedNodes

\* Findings are raised once per episode (docs/architecture.md:75): whatever
\* number of frames an injection spans, each of its findings is raised once,
\* a recovery once for each of the two messages.
OneFindingPerEpisode ==
    \A k \in EventKinds :
        counts[k] <= IF k = "message_recovered" THEN 2 ELSE 1

\* The time from which and until which a finding of an injection can be dated:
\* at the instant for what a frame shows; between the last frame before it and
\* the threshold after it for what has to be missed; within the period of the
\* message for what has to come back.
Window(i, e) ==
    LET soon(time) == time .. time + Generator!DataPeriod - 1
        outage(m)  == i.start .. i.start + StaleAfter[m]
    IN  CASE e.kind \in {"range", "gap"} -> soon(i.start)
          [] e.kind = "range_recovered"  -> soon(i.end)
          [] e.kind = "stale"            -> outage(e.message)
          [] e.kind = "silent"           -> outage(HeartbeatMessage[e.node])
          [] OTHER -> i.end .. i.end + Generator!HeartbeatPeriod - 1

\* Each finding is dated where its injection puts it, and a gap has the size
\* of the skip: nothing is raised early, late or outside an injection.
FindingsAreDated ==
    \A e \in produced : \E i \in scenario.injections :
        /\ EventKind(e) \in i.expected
        /\ NodeOf(e) = i.node
        /\ e.at - Epoch \in Window(i, e)
        /\ e.kind = "gap" => e.skipped = Generator!SkipCount
=============================================================================
