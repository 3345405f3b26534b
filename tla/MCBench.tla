------------------------------- MODULE MCBench -------------------------------
(* An instance of Bench for TLC: the power monitor and its two messages.    *)
EXTENDS Bench, TLC

CONSTANT Power

PowerSender == (PowerData :> Power) @@ (PowerBeat :> Power)
PowerStaleAfter == (PowerData :> 3) @@ (PowerBeat :> 5)
PowerRank == (Power :> 1)
NoReading == <<>>
=============================================================================
