------------------------------ MODULE Episodes ------------------------------
(****************************************************************************)
(* What the findings promise, whatever raises them: a subject (a message, a *)
(* node, a signal of a message, an unknown identifier) has at most one open *)
(* episode.  A call opens only episodes that are not open and closes only   *)
(* episodes that are, possibly one it has just opened; some episodes never  *)
(* close.  docs/architecture.md:75 says it as "Findings are raised once per *)
(* episode, not once per frame".                                            *)
(****************************************************************************)
CONSTANTS Subjects, Permanent

VARIABLES open, opened, closed

vars == <<open, opened, closed>>

Init ==
    /\ open = {}
    /\ opened = {}
    /\ closed = {}

Call ==
    /\ opened' \subseteq Subjects \ open
    /\ closed' \subseteq (open \cup opened') \ Permanent
    /\ open' = (open \cup opened') \ closed'

Spec == Init /\ [][Call]_vars
=============================================================================
