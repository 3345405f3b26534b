-------------------------- MODULE ThermalProperties --------------------------
(****************************************************************************)
(* What the thermal controller's firmware guarantees, with two tasks, a     *)
(* clock that wraps, commands at any moment and a bus that fails.           *)
(****************************************************************************)
EXTENDS ThermalController

\* Every variable keeps the range its C type and its use give it.
ThermalTypeOK ==
    /\ BusTypeOK
    /\ clock \in 0 .. TickModulus - 1
    /\ phase \in 0 .. Period - 1
    /\ command \in Commands \cup {None}
    /\ commands \in 0 .. MaxCommands
    /\ lock \in {None, "main", "command"}
    /\ mode \in Conditions \cup {None}
    /\ deadline \in 0 .. TickModulus - 1
    /\ pendingSkip \in Skips \cup {0}
    /\ injection \in Conditions \cup {None}
    /\ steps \in Skips \cup {0}
    /\ sequence \in 0 .. CounterModulus - 1
    /\ tickIndex \in 0 .. IndexModulus - 1
    /\ ordered \in Conditions \cup {None}
    /\ left \in Nat
    /\ owed \in Skips \cup {0}

\* The firmware implements Injection: each iteration of the main loop acts on
\* the condition of the last complete command while its time lasts and on no
\* condition after, across the wrap of the tick counter, whenever the command
\* task runs.
Ideal == INSTANCE Injection WITH observed <- injection

ObeysCommands == Ideal!Spec

\* A skip that was acknowledged is neither lost nor applied twice when it is
\* queued while the main task takes the previous one; only a further skip
\* replaces it.
QueuedSkipSurvives == lock = None => pendingSkip = owed

\* The data frame and the heartbeat of one iteration tell the same state.
IterationIsCoherent ==
    (mainAt = "next" /\ injection # "silent" /\ BeatDue) =>
        dataFrame.degraded = beatFrame.degraded

\* A controller that went bus-off is running again in the end, unless the
\* node has been restarted since and did not come up.
BusReturns == driver = "bus off" ~> (driver = "running" \/ mainAt = "dead")

\* Once no more commands come every injection ends.
InjectionEnds == <>[](injection = None)
=============================================================================
