---------------------------- MODULE MCRegeneration ----------------------------
(* The network of dbc/hobby_network.dbc with the default thresholds, for TLC. *)
EXTENDS Regeneration, TLC

CONSTANTS PowerData, PowerBeat, ThermalData, ThermalBeat

NetworkSender ==
    (PowerData :> PowerNode) @@ (PowerBeat :> PowerNode)
    @@ (ThermalData :> ThermalNode) @@ (ThermalBeat :> ThermalNode)
NetworkStaleAfter ==
    (PowerData :> 350) @@ (ThermalData :> 350)
    @@ (PowerBeat :> 2500) @@ (ThermalBeat :> 2500)
NetworkRank == (PowerNode :> 1) @@ (ThermalNode :> 2)
NetworkData == (PowerNode :> PowerData) @@ (ThermalNode :> ThermalData)
NetworkHeartbeat == (PowerNode :> PowerBeat) @@ (ThermalNode :> ThermalBeat)
\* A finding depends on jitter by single ages, for which the extremes are hardest.
Extremes == {-4, 4}
=============================================================================
