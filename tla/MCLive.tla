------------------------------- MODULE MCLive -------------------------------
(* An instance of LiveMonitor for TLC: one node with its two messages.      *)
EXTENDS LiveMonitor, TLC

CONSTANTS PowerData, PowerBeat, Power

NodeSender == (PowerData :> Power) @@ (PowerBeat :> Power)
NodeStaleAfter == (PowerData :> 1) @@ (PowerBeat :> 2)
NodeRank == (Power :> 1)

\* Frames whose arrival is all that matters.
ArrivalFrames ==
    {[message |-> m, sequence |-> None, uptime |-> None, value |-> <<>>] :
        m \in Messages}

\* All data frames have the same counter: each that finds a baseline is a gap.
\* Of heartbeats the arrival is all that matters.
RepeatedFrames ==
    {[message  |-> m, sequence |-> IF m = PowerData THEN 0 ELSE None,
      uptime   |-> None, value |-> <<>>] : m \in Messages}
=============================================================================
