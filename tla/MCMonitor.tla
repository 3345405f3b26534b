------------------------------ MODULE MCMonitor ------------------------------
(* Instances of Monitor for TLC.                                            *)
EXTENDS MonitorProperties, TLC

CONSTANTS PowerData, PowerBeat, ThermalData, ThermalBeat, Power, Thermal

\* The database of dbc/hobby_network.dbc: two nodes, each with a data message
\* and a heartbeat.  Thresholds keep the order of the defaults: 350 ms and
\* 2500 ms for cycles of 100 ms and 1000 ms.
BenchSender == (PowerData :> Power) @@ (PowerBeat :> Power)
               @@ (ThermalData :> Thermal) @@ (ThermalBeat :> Thermal)
BenchStaleAfter == (PowerData :> 1) @@ (PowerBeat :> 2)
                   @@ (ThermalData :> 1) @@ (ThermalBeat :> 2)
BenchRank == (Power :> 1) @@ (Thermal :> 2)

\* One node with its two messages.
NodeSender == (PowerData :> Power) @@ (PowerBeat :> Power)
NodeStaleAfter == (PowerData :> 2) @@ (PowerBeat :> 3)
NodeRank == (Power :> 1)

Plain(m) == [message |-> m, sequence |-> None, uptime |-> None,
             value |-> [s \in Signals |-> "absent"]]

\* Frames whose arrival is all that matters.
ArrivalFrames == {Plain(m) : m \in Messages}

\* Data frames with every counter value and with every value of the signals,
\* heartbeats with uptimes up to 1, and frames too short to hold either.
MixedFrames ==
    {[Plain(PowerData) EXCEPT !.sequence = c] : c \in Optional(Counters)}
    \cup {[Plain(PowerData) EXCEPT !.value = v] : v \in [Signals -> Values]}
    \cup {[Plain(PowerBeat) EXCEPT !.uptime = u] : u \in Optional(0 .. 1)}
=============================================================================
