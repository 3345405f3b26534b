------------------------------ MODULE Injection ------------------------------
(****************************************************************************)
(* What the injection commands promise (docs/fault-injection.md:15-22): the *)
(* condition ordered last is in force for its time and not longer, and what *)
(* an iteration of the transmit loop observes is the condition in force.    *)
(* Time is a plain countdown, and an order takes effect in one step.        *)
(****************************************************************************)
EXTENDS Naturals

CONSTANTS Conditions, None

VARIABLES ordered, left, observed

vars == <<ordered, left, observed>>

Init ==
    /\ ordered = None
    /\ left = 0
    /\ observed = None

Order ==
    /\ ordered' \in Conditions
    /\ left' \in Nat \ {0}
    /\ UNCHANGED observed

Clear ==
    /\ ordered' = None
    /\ left' = 0
    /\ UNCHANGED observed

Elapse ==
    /\ left > 0
    /\ left' = left - 1
    /\ ordered' = IF left' = 0 THEN None ELSE ordered
    /\ UNCHANGED observed

Observe ==
    /\ observed' = ordered
    /\ UNCHANGED <<ordered, left>>

Reset ==
    /\ ordered' = None
    /\ left' = 0
    /\ observed' = None

Next == Order \/ Clear \/ Elapse \/ Observe \/ Reset

Spec == Init /\ [][Next]_vars
=============================================================================
