------------------------------ MODULE Scenarios ------------------------------
(****************************************************************************)
(* scenario.py: the captures that the generator makes, the conditions that  *)
(* are injected into them and the findings that each of these should raise. *)
(* Times are in milliseconds from the start of the capture; the values are  *)
(* those of the source.                                                     *)
(****************************************************************************)
EXTENDS Integers

CONSTANTS PowerNode, ThermalNode,     \* POWER_MONITOR, THERMAL_CONTROLLER
          None                        \* an injection without an end

DataPeriod        == 100
HeartbeatPeriod   == 1000
TicksPerHeartbeat == HeartbeatPeriod \div DataPeriod
SkipCount         == 4

\* Mutant: an instantaneous injection stays active.
CoversFromStart(injection, time) ==
    /\ injection.start <= time
    /\ injection.end # None => time < injection.end

\* Mutant: the interval is closed.
CoversToEnd(injection, time) ==
    IF injection.end = None
    THEN time = injection.start
    ELSE injection.start <= time /\ time <= injection.end

Covers(injection, time) ==
    IF injection.end = None
    THEN time = injection.start
    ELSE injection.start <= time /\ time < injection.end

OutageFindings ==
    {"data_message_stale", "heartbeat_timeout", "node_silent",
     "message_recovered", "node_recovered"}

RangeInjection ==
    [kind |-> "range", node |-> ThermalNode, start |-> 15000, end |-> 20000,
     expected |-> {"range_violation", "range_recovered"}]

SilentInjection ==
    [kind |-> "silent", node |-> ThermalNode, start |-> 30000, end |-> 33000,
     expected |-> OutageFindings]

SkipInjection ==
    [kind |-> "skip", node |-> ThermalNode, start |-> 45000, end |-> None,
     expected |-> {"sequence_gap"}]

RestartInjection ==
    [kind |-> "restart", node |-> ThermalNode, start |-> 10000, end |-> 12000,
     expected |-> OutageFindings \cup {"node_restart"}]

NormalSession == [duration |-> 10000, injections |-> {}]

FaultSession ==
    [duration |-> 60000,
     injections |-> {RangeInjection, SilentInjection, SkipInjection}]

RestartSession == [duration |-> 20000, injections |-> {RestartInjection}]

AllScenarios == {NormalSession, FaultSession, RestartSession}

Expected(scenario) == UNION {i.expected : i \in scenario.injections}
=============================================================================
