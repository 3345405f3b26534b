---------------------------- MODULE MonitorProofs ----------------------------
(****************************************************************************)
(* Proofs, for every database, configuration and frame stream, of what      *)
(* MonitorProperties states.                                                *)
(****************************************************************************)
EXTENDS MonitorProperties, WellFoundedInduction, TLAPS

\* Python's max over a non-empty set of time points returns a member that no
\* other exceeds.
LEMMA MaxTime ==
    ASSUME NEW S \in SUBSET Times, S # {}
    PROVE  /\ Max(S) \in S
           /\ \A x \in S : x <= Max(S)
<1> DEFINE T == {LastTime - x : x \in S}
<1>1. LastTime \in Nat /\ S \subseteq 0 .. LastTime
    BY BoundAssumption DEF Times
<1>2. T \subseteq Nat
    BY <1>1
<1>3. T # {}
    <2>1. PICK x \in S : TRUE
        OBVIOUS
    <2>2. LastTime - x \in T
        OBVIOUS
    <2> QED  BY <2>2
<1>4. PICK d \in T : \A y \in T : ~(<<y, d>> \in OpToRel(<, Nat))
    <2> HIDE DEF T
    <2> QED  BY <1>2, <1>3, NatLessThanWellFounded, WFMin
<1>5. \A y \in T : d <= y
    <2> HIDE DEF T
    <2> SUFFICES ASSUME NEW y \in T
                 PROVE  d <= y
        OBVIOUS
    <2>1. ~(<<y, d>> \in OpToRel(<, Nat))
        BY <1>4
    <2>2. y \in Nat /\ d \in Nat
        BY <1>2
    <2>3. ~(y < d)
        BY <2>1, <2>2, Zenon DEF OpToRel
    <2> QED  BY <2>2, <2>3
<1>6. PICK s \in S : d = LastTime - s
    OBVIOUS
<1>7. \A x \in S : s >= x
    BY <1>1, <1>5, <1>6
<1>8. \E x \in S : \A y \in S : x >= y
    BY <1>7
<1>9. Max(S) \in S /\ \A y \in S : Max(S) >= y
    BY <1>8 DEF Max
<1> QED  BY <1>1, <1>9

\* What one look at time t makes of a well-typed state.
LEMMA StalePointType ==
    ASSUME TypeOK, NEW t \in Times, NEW m \in Messages
    PROVE  StalePoint(m, t) \in Optional(Times)
BY ConfigAssumption, BoundAssumption
   DEF TypeOK, StalePoint, GoesStale, Optional, Times

\* A node is silent from a time, or not at all, after a look too.
LEMMA SilentPointType ==
    ASSUME TypeOK, NEW t \in Times, NEW n \in Nodes
    PROVE  SilentPoint(n, t) \in Optional(Times)
<1> DEFINE S == {StalePoint(m, t) : m \in Observed(n)}
<1>1. CASE FallsSilent(n, t)
    <2>1. S \subseteq Times /\ S # {}
        BY <1>1, StalePointType DEF FallsSilent, Observed, Optional
    <2>2. Max(S) \in Times
        <3> HIDE DEF S
        <3> QED  BY <2>1, MaxTime
    <2> QED  BY <1>1, <2>2 DEF SilentPoint, Optional
<1>2. CASE ~FallsSilent(n, t)
    BY <1>2 DEF SilentPoint, TypeOK
<1> QED  BY <1>1, <1>2

\* The two functions every action takes over from the look.
LEMMA LookType ==
    ASSUME TypeOK, NEW t \in Times
    PROVE  /\ [m \in Messages |-> StalePoint(m, t)]
                \in [Messages -> Optional(Times)]
           /\ [n \in Nodes |-> SilentPoint(n, t)]
                \in [Nodes -> Optional(Times)]
BY StalePointType, SilentPointType

\* _check_sequence, a restart and a recovery store a counter or None.
LEMMA SequenceType ==
    ASSUME TypeOK, NEW f \in Frames, NEW t \in Times
    PROVE  SequenceAfter(f, t) \in [Messages -> Optional(Counters)]
<1>1. f.sequence \in Optional(Counters)
    BY BoundAssumption DEF Frame
<1>2. \A m \in Messages : /\ lastSequence[m] \in Optional(Counters)
                           /\ Baseline(m, t) \in Optional(Counters)
                           /\ None \in Optional(Counters)
    BY DEF TypeOK, Baseline, Optional
<1> QED  BY <1>1, <1>2 DEF SequenceAfter

\* process_frame keeps the types of every field it writes.
LEMMA KnownKeepsTypeOK ==
    ASSUME TypeOK, NEW f \in Frames, NEW t \in Times, ProcessKnown(f, t)
    PROVE  TypeOK'
<1> DEFINE m == f.message
<1>1. /\ m \in Messages /\ Sender[m] \in Nodes
      /\ f.uptime \in Optional(Nat)
    BY BoundAssumption, DatabaseAssumption DEF Frame
<1>2. lastSeen' \in [Messages -> Optional(Times)]
    BY <1>1 DEF ProcessKnown, TypeOK, Optional
<1>3. staleSince' \in [Messages -> Optional(Times)]
    BY StalePointType DEF ProcessKnown, Optional
<1>4. silentSince' \in [Nodes -> Optional(Times)]
    BY SilentPointType DEF ProcessKnown, Optional
<1>5. lastSequence' \in [Messages -> Optional(Counters)]
    BY SequenceType DEF ProcessKnown
<1>6. lastUptime' \in [Messages -> Optional(Nat)]
    BY <1>1 DEF ProcessKnown, TypeOK
<1>7. lastRestart' \in [Nodes -> Optional(Times)]
    BY <1>1 DEF ProcessKnown, TypeOK, Optional
<1>8. rangeSince' \in [Messages -> [Signals -> Optional(Times)]]
    <2>1. RangeAfter(f, t) \in [Signals -> Optional(Times)]
        BY <1>1 DEF RangeAfter, TypeOK, Optional
    <2> QED  BY <1>1, <2>1 DEF ProcessKnown, TypeOK
<1>9. /\ unknownSeen' \subseteq UnknownIds
      /\ lastTimestamp' \in Optional(Times)
      /\ looked' \in Times
    BY DEF ProcessKnown, TypeOK, Optional
<1> QED  BY <1>2, <1>3, <1>4, <1>5, <1>6, <1>7, <1>8, <1>9 DEF TypeOK

\* A call of the monitor at time t, in whatever order the times come.
Call(t) ==
    \/ \E f \in Frames : ProcessKnown(f, t)
    \/ \E id \in UnknownIds : ProcessUnknown(id, t)
    \/ EvaluateAt(t)

LEMMA CallKeepsTypeOK ==
    ASSUME TypeOK, NEW t \in Times, Call(t)
    PROVE  TypeOK'
<1>1. ASSUME NEW id \in UnknownIds, ProcessUnknown(id, t)
      PROVE  TypeOK'
    BY <1>1, LookType DEF ProcessUnknown, TypeOK, Optional
<1>2. CASE EvaluateAt(t)
    BY <1>2, LookType DEF EvaluateAt, TypeOK
<1> QED  BY <1>1, <1>2, KnownKeepsTypeOK DEF Call

\* Every step of the monitor is a call, finalize() without a time included.
LEMMA NextIsCall ==
    ASSUME TypeOK, Next
    PROVE  \E t \in Times : Call(t)
<1>1. CASE Finalize
    BY <1>1 DEF Finalize, Call, TypeOK, Optional
<1> QED  BY <1>1 DEF Next, Call, FinalizeAt

\* Whatever frames arrive and whenever finalize is called, the monitor's
\* state keeps the types its dataclasses declare (monitor.py:46-79).
THEOREM TypeCorrect == Spec => []TypeOK
<1>1. Init => TypeOK
    BY BoundAssumption DEF Init, TypeOK, Optional, Times
<1>2. TypeOK /\ [Next]_vars => TypeOK'
    <2> SUFFICES ASSUME TypeOK, [Next]_vars
                 PROVE  TypeOK'
        OBVIOUS
    <2>1. CASE Next
        BY <2>1, NextIsCall, CallKeepsTypeOK
    <2>2. CASE UNCHANGED vars
        BY <2>2 DEF vars, messageVars, nodeVars, TypeOK
    <2> QED  BY <2>1, <2>2
<1> QED  BY <1>1, <1>2, PTL DEF Spec
-----------------------------------------------------------------------------
(* The inductive invariant: what is flagged, what is silent and how both    *)
(* are dated only make sense together.                                      *)
IInv ==
    /\ TypeOK
    /\ SilentIffAllStale
    /\ SilenceDatedByLastMessage
    /\ FreshnessDecided

\* The state of a node once a look at time t has been taken, before a frame.
LEMMA LookSilence ==
    ASSUME IInv, NEW t \in Times, NEW n \in Nodes
    PROVE  SilentPoint(n, t) # None <=>
               /\ Observed(n) # {}
               /\ \A m \in Observed(n) : StalePoint(m, t) # None
<1>1. CASE silentSince[n] # None
    <2>1. AllStale(n)
        BY <1>1 DEF IInv, SilentIffAllStale
    <2>2. \A m \in Observed(n) : StalePoint(m, t) = staleSince[m]
        BY <2>1 DEF AllStale, StalePoint, GoesStale
    <2> QED  BY <1>1, <2>1, <2>2 DEF AllStale, SilentPoint, FallsSilent
<1>2. CASE silentSince[n] = None /\ FallsSilent(n, t)
    <2> DEFINE S == {StalePoint(m, t) : m \in Observed(n)}
    <2>1. S \subseteq Times /\ S # {}
        BY <1>2, StalePointType DEF FallsSilent, Observed, Optional, IInv
    <2>2. Max(S) \in Times
        <3> HIDE DEF S
        <3> QED  BY <2>1, MaxTime
    <2>3. None \notin Times
        BY BoundAssumption DEF Times
    <2> QED  BY <1>2, <2>2, <2>3 DEF SilentPoint, FallsSilent
<1>3. CASE silentSince[n] = None /\ ~FallsSilent(n, t)
    BY <1>3 DEF SilentPoint, FallsSilent
<1> QED  BY <1>1, <1>2, <1>3

\* _evaluate_node_silence dates a silence by the message that went stale
\* last, and keeps the date of a silence that is already open.
LEMMA LookDate ==
    ASSUME IInv, NEW t \in Times, NEW n \in Nodes, SilentPoint(n, t) # None
    PROVE  /\ \E m \in Observed(n) : StalePoint(m, t) = SilentPoint(n, t)
           /\ \A m \in Observed(n) : StalePoint(m, t) <= SilentPoint(n, t)
<1>1. CASE silentSince[n] # None
    <2>1. AllStale(n)
        BY <1>1 DEF IInv, SilentIffAllStale
    <2>2. \A m \in Observed(n) : StalePoint(m, t) = staleSince[m]
        BY <2>1 DEF AllStale, StalePoint, GoesStale
    <2>3. SilentPoint(n, t) = silentSince[n]
        BY <1>1 DEF SilentPoint, FallsSilent
    <2> QED  BY <1>1, <2>2, <2>3 DEF IInv, SilenceDatedByLastMessage
<1>2. CASE silentSince[n] = None
    <2> DEFINE S == {StalePoint(m, t) : m \in Observed(n)}
    <2>1. FallsSilent(n, t) /\ SilentPoint(n, t) = Max(S)
        BY <1>2 DEF SilentPoint
    <2>2. S \subseteq Times /\ S # {}
        BY <2>1, StalePointType DEF FallsSilent, Observed, Optional, IInv
    <2>3. Max(S) \in S /\ \A x \in S : x <= Max(S)
        <3> HIDE DEF S
        <3> QED  BY <2>2, MaxTime
    <2> QED  BY <2>1, <2>3
<1> QED  BY <1>1, <1>2

\* One pass of _evaluate_timeouts decides every message.
LEMMA LookFreshness ==
    ASSUME IInv, NEW t \in Times, NEW m \in Messages, lastSeen[m] # None
    PROVE  IF StalePoint(m, t) = None
           THEN t - lastSeen[m] <= StaleAfter[m]
           ELSE StalePoint(m, t) = lastSeen[m] + StaleAfter[m]
<1>1. /\ lastSeen[m] \in Times /\ StaleAfter[m] \in Nat
      /\ Times \subseteq Int /\ None \notin Int
    BY ConfigAssumption, BoundAssumption DEF IInv, TypeOK, Optional, Times
<1>2. CASE staleSince[m] # None
    BY <1>2 DEF StalePoint, GoesStale, IInv, FreshnessDecided
<1>3. CASE staleSince[m] = None
    BY <1>1, <1>3 DEF StalePoint, GoesStale
<1> QED  BY <1>2, <1>3

\* A new monitor has seen nothing, so the invariant holds of it.
LEMMA InitIInv == Init => IInv
<1> SUFFICES ASSUME Init PROVE IInv
    OBVIOUS
<1>1. TypeOK
    BY BoundAssumption DEF Init, TypeOK, Optional, Times
<1>2. \A n \in Nodes : Observed(n) = {} /\ silentSince[n] = None
    BY DEF Init, Observed
<1>3. SilentIffAllStale /\ SilenceDatedByLastMessage
    BY <1>2 DEF SilentIffAllStale, AllStale, SilenceDatedByLastMessage
<1>4. FreshnessDecided
    BY DEF Init, FreshnessDecided
<1> QED  BY <1>1, <1>3, <1>4 DEF IInv

\* A look that no frame follows: finalize, or a frame the database ignores.
LEMMA LookKeepsIInv ==
    ASSUME IInv, TypeOK', NEW t \in Times,
           staleSince' = [m \in Messages |-> StalePoint(m, t)],
           silentSince' = [n \in Nodes |-> SilentPoint(n, t)],
           looked' = t, UNCHANGED lastSeen
    PROVE  IInv'
<1>1. \A n \in Nodes : /\ Observed(n)' = Observed(n)
                       /\ silentSince'[n] = SilentPoint(n, t)
    BY DEF Observed
<1>2. \A m \in Messages : staleSince'[m] = StalePoint(m, t)
    OBVIOUS
<1>3. \A n \in Nodes : Observed(n) \subseteq Messages
    BY DEF Observed
<1>4. SilentIffAllStale'
    BY <1>1, <1>2, <1>3, LookSilence DEF SilentIffAllStale, AllStale
<1>5. SilenceDatedByLastMessage'
    BY <1>1, <1>2, <1>3, LookDate DEF SilenceDatedByLastMessage
<1>6. FreshnessDecided'
    BY <1>2, LookFreshness DEF FreshnessDecided
<1> QED  BY <1>4, <1>5, <1>6 DEF IInv

\* process_frame keeps the invariant: the frame that resumes a message also
\* lifts the silence of its sender, even if the message was never seen before.
LEMMA KnownKeepsIInv ==
    ASSUME IInv, TypeOK', NEW f \in Frames, NEW t \in Times,
           ProcessKnown(f, t)
    PROVE  IInv'
<1> DEFINE m == f.message
           n == Sender[m]
<1>1. m \in Messages /\ n \in Nodes
    BY BoundAssumption, DatabaseAssumption DEF Frame
<1>2. t # None
    BY BoundAssumption DEF Times
<1>3. /\ lastSeen' = [lastSeen EXCEPT ![m] = t]
      /\ staleSince' = [x \in Messages |-> IF x = m THEN None
                                           ELSE StalePoint(x, t)]
      /\ silentSince' = [x \in Nodes |-> IF x = n THEN None
                                         ELSE SilentPoint(x, t)]
      /\ looked' = t
    BY DEF ProcessKnown
<1>4. lastSeen'[m] = t /\ \A x \in Messages : x # m => lastSeen'[x] = lastSeen[x]
    BY <1>1, <1>3 DEF IInv, TypeOK
<1>5. m \in Observed(n)' /\ staleSince'[m] = None /\ silentSince'[n] = None
    BY <1>1, <1>2, <1>3, <1>4 DEF Observed
<1>6. ASSUME NEW o \in Nodes, o # n
      PROVE  /\ Observed(o)' = Observed(o)
             /\ silentSince'[o] = SilentPoint(o, t)
             /\ \A x \in Observed(o) : staleSince'[x] = StalePoint(x, t)
    BY <1>3, <1>4, <1>6 DEF Observed
<1>7. SilentIffAllStale'
    <2> SUFFICES ASSUME NEW o \in Nodes
                 PROVE  silentSince'[o] # None <=> AllStale(o)'
        BY DEF SilentIffAllStale
    <2>1. CASE o = n
        BY <1>5, <2>1 DEF AllStale
    <2>2. CASE o # n
        BY <1>6, <2>2, LookSilence DEF AllStale
    <2> QED  BY <2>1, <2>2
<1>8. SilenceDatedByLastMessage'
    BY <1>5, <1>6, LookDate DEF SilenceDatedByLastMessage
<1>9. FreshnessDecided'
    <2> SUFFICES ASSUME NEW x \in Messages, lastSeen'[x] # None
                 PROVE  IF staleSince'[x] = None
                        THEN looked' - lastSeen'[x] <= StaleAfter[x]
                        ELSE staleSince'[x] = lastSeen'[x] + StaleAfter[x]
        BY DEF FreshnessDecided
    <2>1. CASE x = m
        BY <1>3, <1>4, <1>5, <2>1, ConfigAssumption, BoundAssumption DEF Times
    <2>2. CASE x # m
        BY <1>3, <1>4, <2>2, LookFreshness
    <2> QED  BY <2>1, <2>2
<1> QED  BY <1>7, <1>8, <1>9 DEF IInv

\* finalize() without a time looks at the time of a frame.
LEMMA FinalizeTime ==
    ASSUME TypeOK, Finalize
    PROVE  lastTimestamp \in Times
BY DEF Finalize, TypeOK, Optional

\* No call leaves silence, its date and staleness at odds.
LEMMA CallKeepsIInv ==
    ASSUME IInv, NEW t \in Times, Call(t)
    PROVE  IInv'
<1>1. TypeOK'
    BY CallKeepsTypeOK DEF IInv
<1>2. ASSUME NEW id \in UnknownIds, ProcessUnknown(id, t)
      PROVE  IInv'
    BY <1>1, <1>2, LookKeepsIInv DEF ProcessUnknown
<1>3. CASE EvaluateAt(t)
    BY <1>1, <1>3, LookKeepsIInv DEF EvaluateAt
<1> QED  BY <1>1, <1>2, <1>3, KnownKeepsIInv DEF Call

LEMMA StutterKeepsIInv ==
    ASSUME IInv, UNCHANGED vars
    PROVE  IInv'
BY DEF vars, messageVars, nodeVars, TypeOK, IInv, SilentIffAllStale, AllStale,
       Observed, SilenceDatedByLastMessage, FreshnessDecided

\* The freshness half of the state is consistent after every call, in
\* whatever order timestamps come: silence, its date and staleness agree.
THEOREM InductiveInvariant == Spec => []IInv
<1>1. IInv /\ [Next]_vars => IInv'
    <2> SUFFICES ASSUME IInv, [Next]_vars
                 PROVE  IInv'
        OBVIOUS
    <2>1. CASE Next
        BY <2>1, NextIsCall, CallKeepsIInv DEF IInv
    <2> QED  BY <2>1, StutterKeepsIInv
<1> QED  BY <1>1, InitIInv, PTL DEF Spec

\* Silence mirrors staleness for every database and every frame stream,
\* ordered or not.
THEOREM SilenceMirrorsStaleness == Spec => []SilentIffAllStale
BY InductiveInvariant, PTL DEF IInv

\* So do the dates of silence and of staleness.
THEOREM AlarmsAreDated ==
    Spec => [](SilenceDatedByLastMessage /\ FreshnessDecided)
BY InductiveInvariant, PTL DEF IInv

\* No message is past its threshold unflagged, and none is flagged early: the
\* state after a call is that of the time the call looked at.
THEOREM LooksAreComplete == Spec => []FreshnessDecided
BY InductiveInvariant, PTL DEF IInv

\* The finalize() that ends an offline analysis never reports anything.
THEOREM OfflineFinalizeIsSilent == Spec => FinalizeAddsNothing
<1>1. IInv /\ [Next]_vars => [Finalize => produced' = {}]_vars
    <2> SUFFICES ASSUME IInv, Finalize
                 PROVE  produced' = {}
        OBVIOUS
    <2> DEFINE t == lastTimestamp
    <2>1. /\ t \in Times /\ t = looked /\ produced' = TimeoutFindings(t)
        BY FinalizeTime DEF Finalize, EvaluateAt, IInv
    <2>2. \A m \in Messages : ~GoesStale(m, t)
        <3> SUFFICES ASSUME NEW m \in Messages, lastSeen[m] # None,
                            staleSince[m] = None
                     PROVE  ~(t - lastSeen[m] > StaleAfter[m])
            BY DEF GoesStale
        <3>1. t - lastSeen[m] <= StaleAfter[m]
            BY <2>1 DEF IInv, FreshnessDecided
        <3>2. /\ lastSeen[m] \in Int /\ t \in Int /\ StaleAfter[m] \in Int
            BY <2>1, ConfigAssumption, BoundAssumption
               DEF IInv, TypeOK, Optional, Times
        <3> QED  BY <3>1, <3>2
    <2>3. \A m \in Messages : StalePoint(m, t) = staleSince[m]
        BY <2>2 DEF StalePoint
    <2>4. \A n \in Nodes : ~FallsSilent(n, t)
        BY <2>3 DEF IInv, SilentIffAllStale, AllStale, FallsSilent, Observed
    <2> QED  BY <2>1, <2>2, <2>4 DEF TimeoutFindings
<1> QED  BY <1>1, InductiveInvariant, PTL DEF Spec, FinalizeAddsNothing
-----------------------------------------------------------------------------
(* With ordered timestamps.                                                 *)

\* Every open alarm is dated before the latest look.
AlarmsPast ==
    /\ \A m \in Messages : staleSince[m] # None => staleSince[m] < looked
    /\ \A n \in Nodes : silentSince[n] # None => silentSince[n] < looked

\* What one look flags is dated strictly before it.
LEMMA LookPast ==
    ASSUME IInv, AlarmsPast, NEW t \in Times, t >= looked
    PROVE  /\ \A m \in Messages : StalePoint(m, t) # None => StalePoint(m, t) < t
           /\ \A n \in Nodes : SilentPoint(n, t) # None => SilentPoint(n, t) < t
<1>1. looked \in Int /\ t \in Int
    BY BoundAssumption DEF IInv, TypeOK, Times
<1>2. ASSUME NEW m \in Messages, StalePoint(m, t) # None
      PROVE  StalePoint(m, t) < t
    <2>1. CASE GoesStale(m, t)
        <3>1. lastSeen[m] \in Int /\ StaleAfter[m] \in Int
            BY <2>1, ConfigAssumption, BoundAssumption
               DEF GoesStale, IInv, TypeOK, Optional, Times
        <3> QED  BY <1>1, <2>1, <3>1 DEF StalePoint, GoesStale
    <2>2. CASE ~GoesStale(m, t)
        <3>1. staleSince[m] < looked /\ staleSince[m] \in Int
            BY <1>2, <2>2, BoundAssumption
               DEF StalePoint, AlarmsPast, IInv, TypeOK, Optional, Times
        <3> QED  BY <1>1, <2>2, <3>1 DEF StalePoint
    <2> QED  BY <2>1, <2>2
<1>3. ASSUME NEW n \in Nodes, SilentPoint(n, t) # None
      PROVE  SilentPoint(n, t) < t
    <2>1. PICK m \in Observed(n) : StalePoint(m, t) = SilentPoint(n, t)
        BY <1>3, LookDate
    <2> QED  BY <1>2, <1>3, <2>1 DEF Observed
<1> QED  BY <1>2, <1>3

\* A recovery reported by one call has a positive duration.
LEMMA RecoveryPositive ==
    ASSUME IInv, AlarmsPast, NEW f \in Frames, NEW t \in Times, t >= looked,
           ProcessKnown(f, t)
    PROVE  RecoveryFollowsAlarm'
<1> DEFINE m == f.message
           n == Sender[m]
<1> SUFFICES ASSUME NEW e \in produced',
                    e.kind \in {"recovered", "node_recovered"}
             PROVE  e.recovery > 0
    BY DEF RecoveryFollowsAlarm
<1>1. m \in Messages /\ n \in Nodes
    BY BoundAssumption, DatabaseAssumption DEF Frame
<1>2. e \in RecoveryFindings(f, t)
    BY DEF ProcessKnown, TimeoutFindings, RestartFindings, GapFindings,
           RangeFindings, Stale, Silent, Restart, Gap, RangeViolation,
           RangeRecovered
<1>3. \/ WasStale(m, t) /\ e.recovery = t - StalePoint(m, t)
      \/ SilentPoint(n, t) # None /\ e.recovery = t - SilentPoint(n, t)
    BY <1>2 DEF RecoveryFindings, Recovered, NodeRecovered
<1>4. /\ t \in Int
      /\ StalePoint(m, t) # None => StalePoint(m, t) \in Int
      /\ SilentPoint(n, t) # None => SilentPoint(n, t) \in Int
    BY <1>1, StalePointType, SilentPointType, BoundAssumption
       DEF IInv, Optional, Times
<1> QED  BY <1>1, <1>3, <1>4, LookPast DEF WasStale

\* With ordered timestamps a recovery follows the alarm it closes, whatever
\* thresholds are configured.
THEOREM RecoveryIsPositive ==
    ASSUME MaxBackstep = 0
    PROVE  Spec => []RecoveryFollowsAlarm
<1> DEFINE Inv == IInv /\ AlarmsPast /\ RecoveryFollowsAlarm
<1>1. Init => Inv
    BY InitIInv DEF Init, AlarmsPast, RecoveryFollowsAlarm
<1>2. Inv /\ IInv' /\ [Next]_vars => Inv'
    <2> SUFFICES ASSUME Inv, IInv', [Next]_vars
                 PROVE  AlarmsPast' /\ RecoveryFollowsAlarm'
        OBVIOUS
    <2>1. ASSUME NEW t \in Times, Arrives(t)
          PROVE  t >= looked
        BY <2>1, BoundAssumption DEF Arrives, IInv, TypeOK, Times
    <2>2. ASSUME NEW f \in Frames, NEW t \in Times, Arrives(t),
                 ProcessKnown(f, t)
          PROVE  AlarmsPast' /\ RecoveryFollowsAlarm'
        <3>1. AlarmsPast'
            BY <2>1, <2>2, LookPast DEF ProcessKnown, AlarmsPast
        <3> QED  BY <2>1, <2>2, <3>1, RecoveryPositive
    <2>3. ASSUME NEW t \in Times, t >= looked, looked' = t,
                 staleSince' = [m \in Messages |-> StalePoint(m, t)],
                 silentSince' = [n \in Nodes |-> SilentPoint(n, t)]
          PROVE  AlarmsPast'
        BY <2>3, LookPast DEF AlarmsPast
    <2>4. ASSUME NEW id \in UnknownIds, NEW t \in Times, Arrives(t),
                 ProcessUnknown(id, t)
          PROVE  AlarmsPast' /\ RecoveryFollowsAlarm'
        <3>1. AlarmsPast'
            BY <2>1, <2>3, <2>4 DEF ProcessUnknown
        <3>2. RecoveryFollowsAlarm'
            BY <2>4 DEF ProcessUnknown, RecoveryFollowsAlarm, TimeoutFindings,
                        Stale, Silent, Unknown
        <3> QED  BY <3>1, <3>2
    <2>5. ASSUME NEW t \in Times, t >= looked, EvaluateAt(t)
          PROVE  AlarmsPast' /\ RecoveryFollowsAlarm'
        <3>1. AlarmsPast'
            BY <2>3, <2>5 DEF EvaluateAt
        <3>2. RecoveryFollowsAlarm'
            BY <2>5 DEF EvaluateAt, RecoveryFollowsAlarm, TimeoutFindings,
                        Stale, Silent
        <3> QED  BY <3>1, <3>2
    <2>6. CASE Finalize
        <3>1. lastTimestamp \in Times /\ lastTimestamp >= looked
            BY <2>6, FinalizeTime, BoundAssumption DEF Finalize, IInv, Times
        <3> QED  BY <2>5, <2>6, <3>1 DEF Finalize
    <2>7. CASE UNCHANGED vars
        BY <2>7 DEF vars, messageVars, nodeVars, AlarmsPast,
                    RecoveryFollowsAlarm
    <2> QED  BY <2>1, <2>2, <2>4, <2>5, <2>6, <2>7 DEF Next, FinalizeAt
<1> QED  BY <1>1, <1>2, InductiveInvariant, PTL DEF Spec
\* A counter baseline was read after the last restart of its node.
BaselineInv ==
    /\ \A m \in Messages : lastSeen[m] # None => lastSeen[m] <= looked
    /\ \A n \in Nodes : lastRestart[n] # None => lastRestart[n] <= looked
    /\ \A m \in Messages : lastSequence[m] # None =>
          /\ lastSeen[m] # None
          /\ lastRestart[Sender[m]] # None =>
                lastRestart[Sender[m]] <= lastSeen[m]

\* process_frame drops every baseline of a node that restarts, and the
\* baseline it stores is as recent as the node's last restart.
LEMMA KnownKeepsBaseline ==
    ASSUME TypeOK, BaselineInv, NEW f \in Frames, NEW t \in Times,
           t >= looked, ProcessKnown(f, t)
    PROVE  BaselineInv'
<1> DEFINE m == f.message
           n == Sender[m]
<1>1. /\ m \in Messages /\ n \in Nodes
      /\ \A x \in Messages : Sender[x] \in Nodes
    BY BoundAssumption, DatabaseAssumption DEF Frame
<1>2. /\ t \in Int /\ t # None /\ looked \in Int
      /\ \A x \in Messages : lastSeen[x] # None => lastSeen[x] \in Int
      /\ \A x \in Nodes : lastRestart[x] # None => lastRestart[x] \in Int
    BY BoundAssumption DEF TypeOK, Optional, Times
<1>3. /\ looked' = t /\ lastSeen'[m] = t
      /\ \A x \in Messages : x # m => lastSeen'[x] = lastSeen[x]
    BY <1>1 DEF ProcessKnown, TypeOK
<1>4. \A x \in Nodes :
         lastRestart'[x] = IF UptimeFell(f) /\ x = n THEN t ELSE lastRestart[x]
    BY <1>1 DEF ProcessKnown, TypeOK
<1>5. ASSUME NEW x \in Messages, lastSeen'[x] # None
      PROVE  lastSeen'[x] <= looked'
    BY <1>2, <1>3, <1>5 DEF BaselineInv
<1>6. ASSUME NEW x \in Nodes, lastRestart'[x] # None
      PROVE  lastRestart'[x] <= looked'
    BY <1>2, <1>3, <1>4, <1>6 DEF BaselineInv
<1>7. ASSUME NEW x \in Messages, lastSequence'[x] # None
      PROVE  /\ lastSeen'[x] # None
             /\ lastRestart'[Sender[x]] # None =>
                   lastRestart'[Sender[x]] <= lastSeen'[x]
    <2>1. ~(UptimeFell(f) /\ Sender[x] = n)
        BY <1>7 DEF ProcessKnown, SequenceAfter
    <2>2. lastRestart'[Sender[x]] = lastRestart[Sender[x]]
        BY <1>1, <1>4, <2>1
    <2>3. CASE x = m
        BY <1>1, <1>2, <1>3, <2>2, <2>3 DEF BaselineInv
    <2>4. CASE x # m
        <3>1. lastSequence'[x] = lastSequence[x]
            BY <2>1, <2>4 DEF ProcessKnown, SequenceAfter
        <3> QED  BY <1>3, <1>7, <2>2, <2>4, <3>1 DEF BaselineInv
    <2> QED  BY <2>3, <2>4
<1> QED  BY <1>5, <1>6, <1>7 DEF BaselineInv

\* A gap found by one call starts at a baseline that is fresh and was taken
\* after the node's last restart.
LEMMA GapHasBaseline ==
    ASSUME IInv, BaselineInv, NEW f \in Frames, NEW t \in Times,
           NEW e \in GapFindings(f, t)
    PROVE  LET n == Sender[e.message]
           IN  /\ e.at - lastSeen[e.message] <= StaleAfter[e.message]
               /\ lastRestart[n] # None =>
                     /\ lastRestart[n] <= lastSeen[e.message]
                     /\ e.at - lastRestart[n] > RestartSuppression
<1> DEFINE m == f.message
           n == Sender[m]
<1>1. m \in Messages /\ n \in Nodes
    BY BoundAssumption, DatabaseAssumption DEF Frame
<1>2. /\ e.message = m /\ e.at = t
      /\ Baseline(m, t) # None /\ ~RestartSuppressed(n, t)
    BY DEF GapFindings, Gap
<1>3. lastSequence[m] # None /\ StalePoint(m, t) = None
    BY <1>2 DEF Baseline, WasStale
<1>4. t - lastSeen[m] <= StaleAfter[m]
    BY <1>1, <1>3, LookFreshness DEF BaselineInv
<1>5. lastRestart[n] # None => lastRestart[n] \in Int /\ t \in Int
    BY <1>1, BoundAssumption DEF IInv, TypeOK, Optional, Times
<1>6. lastRestart[n] # None => t - lastRestart[n] > RestartSuppression
    BY <1>2, <1>5, ConfigAssumption DEF RestartSuppressed
<1> QED  BY <1>1, <1>2, <1>3, <1>4, <1>6 DEF BaselineInv

\* With ordered timestamps no gap finding spans an outage or a restart that
\* the monitor knows of, whatever thresholds are configured.
THEOREM GapsStayInsideARun ==
    ASSUME MaxBackstep = 0
    PROVE  Spec => NoGapAcrossInterruption
<1> DEFINE Inv == IInv /\ BaselineInv
           Legit(e) == LET n == Sender[e.message]
                       IN  /\ e.at - lastSeen[e.message] <= StaleAfter[e.message]
                           /\ lastRestart[n] # None =>
                                 /\ lastRestart[n] <= lastSeen[e.message]
                                 /\ e.at - lastRestart[n] > RestartSuppression
<1>1. Init => Inv
    BY InitIInv DEF Init, BaselineInv
<1>2. ASSUME NEW t \in Times, Arrives(t), TypeOK
      PROVE  t >= looked
    BY <1>2, BoundAssumption DEF Arrives, TypeOK, Times
<1>3. ASSUME TypeOK, BaselineInv, NEW t \in Times, t >= looked, looked' = t,
             UNCHANGED <<lastSeen, lastSequence, lastRestart>>
      PROVE  BaselineInv'
    BY <1>3, BoundAssumption DEF BaselineInv, TypeOK, Optional, Times
<1>4. Inv /\ IInv' /\ [Next]_vars => Inv'
    <2> SUFFICES ASSUME Inv, [Next]_vars
                 PROVE  BaselineInv'
        OBVIOUS
    <2>1. ASSUME NEW f \in Frames, NEW t \in Times, Arrives(t),
                 ProcessKnown(f, t)
          PROVE  BaselineInv'
        BY <1>2, <2>1, KnownKeepsBaseline DEF IInv
    <2>2. ASSUME NEW id \in UnknownIds, NEW t \in Times, Arrives(t),
                 ProcessUnknown(id, t)
          PROVE  BaselineInv'
        BY <1>2, <1>3, <2>2 DEF ProcessUnknown, IInv
    <2>3. ASSUME NEW t \in Times, Arrives(t), FinalizeAt(t)
          PROVE  BaselineInv'
        BY <1>2, <1>3, <2>3 DEF FinalizeAt, EvaluateAt, IInv
    <2>4. CASE Finalize
        <3>1. lastTimestamp \in Times /\ lastTimestamp >= looked
            BY <2>4, FinalizeTime, BoundAssumption DEF Finalize, IInv, Times
        <3> QED  BY <1>3, <2>4, <3>1 DEF Finalize, EvaluateAt, IInv
    <2>5. CASE UNCHANGED vars
        BY <2>5 DEF vars, messageVars, nodeVars, BaselineInv
    <2> QED  BY <2>1, <2>2, <2>3, <2>4, <2>5 DEF Next
<1>5. Inv /\ [Next]_vars
        => [\A e \in produced' : e.kind = "gap" => Legit(e)]_vars
    <2> SUFFICES ASSUME Inv, Next, NEW e \in produced', e.kind = "gap"
                 PROVE  Legit(e)
        OBVIOUS
    <2>1. ASSUME NEW t, e \in TimeoutFindings(t)
          PROVE  FALSE
        BY <2>1 DEF TimeoutFindings, Stale, Silent
    <2>2. ASSUME NEW f \in Frames, NEW t \in Times, ProcessKnown(f, t)
          PROVE  Legit(e)
        <3>1. e \in GapFindings(f, t)
            BY <2>1, <2>2 DEF ProcessKnown, RecoveryFindings, RestartFindings,
                              RangeFindings, Recovered, NodeRecovered, Restart,
                              RangeViolation, RangeRecovered
        <3> QED  BY <3>1, GapHasBaseline
    <2>3. ASSUME NEW id, NEW t, ProcessUnknown(id, t)
          PROVE  FALSE
        BY <2>1, <2>3 DEF ProcessUnknown, Unknown
    <2>4. ASSUME NEW t, EvaluateAt(t)
          PROVE  FALSE
        BY <2>1, <2>4 DEF EvaluateAt
    <2> QED  BY <2>2, <2>3, <2>4 DEF Next, FinalizeAt, Finalize
<1> QED  BY <1>1, <1>4, <1>5, InductiveInvariant, PTL
         DEF Spec, NoGapAcrossInterruption
-----------------------------------------------------------------------------
(* Where a violation does close when the value returns.                     *)

\* Without check_ranges no violation is ever open.
UncheckedIsClosed ==
    ~CheckRanges => \A m \in Messages, s \in Signals : rangeSince[m][s] = None

\* _check_ranges closes the violation of a signal when a valid value arrives,
\* if no signal has a value table: docs/architecture.md:72-73 is right of such
\* a database, and wrong only where a valid value has a label.
THEOREM RangesCloseOnReturn ==
    ASSUME Enumerated = {}
    PROVE  Spec => RangeClosesOnReturn
<1> DEFINE Inv == TypeOK /\ UncheckedIsClosed
<1>1. Init => UncheckedIsClosed
    BY DEF Init, UncheckedIsClosed
<1>2. Inv /\ [Next]_vars => UncheckedIsClosed'
    <2> SUFFICES ASSUME Inv, [Next]_vars
                 PROVE  UncheckedIsClosed'
        OBVIOUS
    <2>1. ASSUME NEW f \in Frames, NEW t \in Times, ProcessKnown(f, t)
          PROVE  UncheckedIsClosed'
        <3>1. f.message \in Messages
            BY BoundAssumption DEF Frame
        <3>2. ASSUME ~CheckRanges, NEW s \in Signals
              PROVE  RangeAfter(f, t)[s] = rangeSince[f.message][s]
            BY <3>2 DEF RangeAfter, Opens, Closes
        <3>3. rangeSince' = [rangeSince EXCEPT ![f.message] = RangeAfter(f, t)]
            BY <2>1 DEF ProcessKnown
        <3> QED  BY <3>1, <3>2, <3>3 DEF UncheckedIsClosed, TypeOK
    <2>2. CASE UNCHANGED rangeSince
        BY <2>2 DEF UncheckedIsClosed
    <2> QED  BY <2>1, <2>2 DEF Next, ProcessUnknown, FinalizeAt, Finalize,
                               EvaluateAt, vars, messageVars
<1>3. ASSUME Inv, NEW f \in Frames, NEW t, ProcessKnown(f, t),
             NEW s \in Signals, f.value[s] = "valid"
      PROVE  rangeSince'[f.message][s] = None
    <2>1. f.message \in Messages
        BY BoundAssumption DEF Frame
    <2>2. Numeric(f, s) /\ ~Opens(f, s)
        BY <1>3 DEF Numeric, Opens
    <2>3. RangeAfter(f, t)[s] = None
        <3>1. CASE Closes(f, s)
            BY <2>2, <3>1 DEF RangeAfter
        <3>2. CASE ~Closes(f, s)
            <4>1. rangeSince[f.message][s] = None
                BY <1>3, <2>1, <2>2, <3>2 DEF Closes, UncheckedIsClosed
            <4> QED  BY <2>2, <3>2, <4>1 DEF RangeAfter
        <3> QED  BY <3>1, <3>2
    <2> QED  BY <1>3, <2>1, <2>3 DEF ProcessKnown, TypeOK
<1>4. Inv => [\A f \in Frames : ProcessKnown(f, looked') =>
                 \A s \in Signals :
                     f.value[s] = "valid" => rangeSince'[f.message][s] = None]_vars
    BY <1>3
<1> QED  BY <1>1, <1>2, <1>4, TypeCorrect, PTL DEF Spec, RangeClosesOnReturn
-----------------------------------------------------------------------------
(* What a look reports is what is open after it and was not before.         *)

\* The alarms that are open after a look at time t.
AlarmsAt(t) ==
    {Stale(m, StalePoint(m, t)) : m \in {x \in Messages : StalePoint(x, t) # None}}
    \cup {Silent(n, SilentPoint(n, t), {}) :
             n \in {x \in Nodes : SilentPoint(x, t) # None}}

\* A date is never None.
LEMMA PointsAreDates ==
    ASSUME IInv, NEW t \in Times
    PROVE  /\ \A m \in Messages : GoesStale(m, t) => StalePoint(m, t) # None
           /\ \A n \in Nodes : FallsSilent(n, t) => SilentPoint(n, t) # None
           /\ \A m \in Messages : staleSince[m] # None =>
                  StalePoint(m, t) = staleSince[m] /\ ~GoesStale(m, t)
           /\ \A n \in Nodes : silentSince[n] # None =>
                  SilentPoint(n, t) = silentSince[n] /\ ~FallsSilent(n, t)
<1>1. ASSUME NEW m \in Messages, GoesStale(m, t)
      PROVE  StalePoint(m, t) # None
    <2>1. lastSeen[m] \in Int /\ StaleAfter[m] \in Int
        BY <1>1, ConfigAssumption, BoundAssumption
           DEF GoesStale, IInv, TypeOK, Optional, Times
    <2>2. lastSeen[m] + StaleAfter[m] \in Int
        BY <2>1
    <2> QED  BY <1>1, <2>2, BoundAssumption DEF StalePoint
<1>2. ASSUME NEW n \in Nodes, FallsSilent(n, t)
      PROVE  SilentPoint(n, t) # None
    BY <1>2, LookSilence DEF FallsSilent
<1> QED  BY <1>1, <1>2 DEF GoesStale, StalePoint, FallsSilent, SilentPoint

LEMMA LookRaises ==
    ASSUME IInv, NEW t \in Times
    PROVE  AlarmsAt(t) = OpenAlarms \cup CoreOf(TimeoutFindings(t))
<1> DEFINE stale == {Stale(m, StalePoint(m, t)) :
                        m \in {x \in Messages : GoesStale(x, t)}}
           silent == {Silent(n, SilentPoint(n, t), ActiveBeside(n, t)) :
                         n \in {x \in Nodes : FallsSilent(x, t)}}
           heard == {Silent(n, SilentPoint(n, t), {}) :
                         n \in {x \in Nodes : FallsSilent(x, t)}}
<1>1. TimeoutFindings(t) = stale \cup silent
    BY DEF TimeoutFindings
<1>2. CoreOf(stale) = stale
    <2>1. \A e \in stale : Core(e) = e
        BY DEF Core, Stale
    <2> HIDE DEF stale
    <2> QED  BY <2>1 DEF CoreOf
<1>3. CoreOf(silent) = heard
    <2>1. \A n, at, others : Core(Silent(n, at, others)) = Silent(n, at, {})
        BY DEF Core, Silent
    <2> DEFINE fall == {x \in Nodes : FallsSilent(x, t)}
    <2> HIDE DEF fall
    <2>2. CoreOf({Silent(n, SilentPoint(n, t), ActiveBeside(n, t)) : n \in fall})
              = {Core(Silent(n, SilentPoint(n, t), ActiveBeside(n, t))) :
                    n \in fall}
        BY DEF CoreOf
    <2>3. @ = {Silent(n, SilentPoint(n, t), {}) : n \in fall}
        BY <2>1
    <2> QED  BY <2>2, <2>3 DEF fall
<1>4. CoreOf(TimeoutFindings(t)) = stale \cup heard
    <2> HIDE DEF stale, silent, heard
    <2>1. CoreOf(stale \cup silent) = CoreOf(stale) \cup CoreOf(silent)
        BY DEF CoreOf
    <2> QED  BY <1>1, <1>2, <1>3, <2>1
<1>5. \A m \in Messages : StalePoint(m, t) # None <=>
          staleSince[m] # None \/ GoesStale(m, t)
    BY PointsAreDates DEF StalePoint
<1>6. \A n \in Nodes : SilentPoint(n, t) # None <=>
          silentSince[n] # None \/ FallsSilent(n, t)
    BY PointsAreDates DEF SilentPoint
<1>7. {Stale(m, StalePoint(m, t)) : m \in {x \in Messages : StalePoint(x, t) # None}}
        = {Stale(m, staleSince[m]) : m \in {x \in Messages : staleSince[x] # None}}
          \cup stale
    BY <1>5, PointsAreDates
<1>8. {Silent(n, SilentPoint(n, t), {}) :
          n \in {x \in Nodes : SilentPoint(x, t) # None}}
        = {Silent(n, silentSince[n], {}) :
              n \in {x \in Nodes : silentSince[x] # None}}
          \cup heard
    BY <1>6, PointsAreDates
<1> QED  BY <1>4, <1>7, <1>8 DEF AlarmsAt, OpenAlarms
-----------------------------------------------------------------------------
(* Every call is an Episodes step, in whatever order timestamps come.       *)

\* The episodes a look at time t opens.
LookOpens(t) ==
    {<<"message", m>> : m \in {x \in Messages : GoesStale(x, t)}}
    \cup {<<"node", n>> : n \in {x \in Nodes : FallsSilent(x, t)}}

\* A point in time is never None, so to go stale or silent is to be so.
LEMMA LookOpensPoints ==
    ASSUME IInv, NEW t \in Times
    PROVE  /\ \A m \in Messages : StalePoint(m, t) # None <=>
                  staleSince[m] # None \/ GoesStale(m, t)
           /\ \A n \in Nodes : SilentPoint(n, t) # None <=>
                  silentSince[n] # None \/ FallsSilent(n, t)
<1>1. ASSUME NEW m \in Messages, GoesStale(m, t)
      PROVE  StalePoint(m, t) # None
    <2>1. lastSeen[m] \in Int /\ StaleAfter[m] \in Int
        BY <1>1, ConfigAssumption, BoundAssumption
           DEF GoesStale, IInv, TypeOK, Optional, Times
    <2> QED  BY <1>1, <2>1, BoundAssumption DEF StalePoint
<1>2. ASSUME NEW n \in Nodes, FallsSilent(n, t)
      PROVE  SilentPoint(n, t) # None
    BY <1>2, LookSilence DEF FallsSilent
<1> QED  BY <1>1, <1>2 DEF StalePoint, SilentPoint

\* The findings of one look name exactly the messages and nodes it flags.
LEMMA LookReports ==
    ASSUME NEW t, NEW others,
           produced' = TimeoutFindings(t) \cup others,
           \A e \in others : e.kind \notin {"stale", "silent"}
    PROVE  /\ {<<"message", e.message>> : e \in {x \in produced' : x.kind = "stale"}}
              = {<<"message", m>> : m \in {x \in Messages : GoesStale(x, t)}}
           /\ {<<"node", e.node>> : e \in {x \in produced' : x.kind = "silent"}}
              = {<<"node", n>> : n \in {x \in Nodes : FallsSilent(x, t)}}
<1>1. ASSUME NEW m \in Messages, GoesStale(m, t)
      PROVE  \E e \in {x \in produced' : x.kind = "stale"} : e.message = m
    <2>1. Stale(m, StalePoint(m, t)) \in TimeoutFindings(t)
        BY <1>1 DEF TimeoutFindings
    <2> QED  BY <2>1 DEF Stale
<1>2. ASSUME NEW e \in produced', e.kind = "stale"
      PROVE  e.message \in Messages /\ GoesStale(e.message, t)
    <2>1. e \in TimeoutFindings(t)
        BY <1>2
    <2>2. PICK m \in Messages : GoesStale(m, t) /\ e = Stale(m, StalePoint(m, t))
        BY <1>2, <2>1 DEF TimeoutFindings, Silent
    <2> QED  BY <2>2 DEF Stale
<1>3. ASSUME NEW n \in Nodes, FallsSilent(n, t)
      PROVE  \E e \in {x \in produced' : x.kind = "silent"} : e.node = n
    <2>1. Silent(n, SilentPoint(n, t), ActiveBeside(n, t)) \in TimeoutFindings(t)
        BY <1>3 DEF TimeoutFindings
    <2> QED  BY <2>1 DEF Silent
<1>4. ASSUME NEW e \in produced', e.kind = "silent"
      PROVE  e.node \in Nodes /\ FallsSilent(e.node, t)
    <2>1. e \in TimeoutFindings(t)
        BY <1>4
    <2>2. PICK n \in Nodes : /\ FallsSilent(n, t)
                             /\ e = Silent(n, SilentPoint(n, t), ActiveBeside(n, t))
        BY <1>4, <2>1 DEF TimeoutFindings, Stale
    <2> QED  BY <2>2 DEF Silent
<1> QED  BY <1>1, <1>2, <1>3, <1>4

\* A look raises stale and silent findings only.
LEMMA TimeoutKinds ==
    ASSUME NEW t
    PROVE  \A e \in TimeoutFindings(t) : e.kind \in {"stale", "silent"}
BY DEF TimeoutFindings, Stale, Silent

\* finalize reports exactly what its look opens, and closes nothing.
LEMMA EvaluateReports ==
    ASSUME NEW t, EvaluateAt(t)
    PROVE  ReportedOpen' = LookOpens(t) /\ ReportedClosed' = {}
<1> DEFINE others == {}
<1>1. produced' = TimeoutFindings(t) \cup others
    BY DEF EvaluateAt
<1>2. \A e \in produced' : e.kind \in {"stale", "silent"}
    BY <1>1, TimeoutKinds
<1>3. /\ {<<"message", e.message>> : e \in {x \in produced' : x.kind = "stale"}}
            = {<<"message", m>> : m \in {x \in Messages : GoesStale(x, t)}}
      /\ {<<"node", e.node>> : e \in {x \in produced' : x.kind = "silent"}}
            = {<<"node", n>> : n \in {x \in Nodes : FallsSilent(x, t)}}
    <2>1. \A e \in others : e.kind \notin {"stale", "silent"}
        OBVIOUS
    <2> HIDE DEF others
    <2> QED  BY <1>1, <2>1, LookReports
<1> QED  BY <1>2, <1>3 DEF ReportedOpen, ReportedClosed, LookOpens

\* A frame with an unknown identifier adds that identifier to what the look
\* opens, the first time it is seen.
LEMMA UnknownReports ==
    ASSUME NEW id, NEW t, ProcessUnknown(id, t)
    PROVE  /\ ReportedClosed' = {}
           /\ ReportedOpen' = LookOpens(t) \cup
                 {<<"unknown", x>> : x \in {y \in {id} : y \notin unknownSeen
                                                       /\ ReportUnknownIds}}
<1> DEFINE new == {y \in {id} : y \notin unknownSeen /\ ReportUnknownIds}
           others == {Unknown(x, t) : x \in new}
<1> HIDE DEF new
<1>1. produced' = TimeoutFindings(t) \cup others
    BY DEF ProcessUnknown, new
<1>2. /\ \A e \in others : e.kind = "unknown" /\ e.id \in new
      /\ \A x \in new : \E e \in others : e.id = x
    <2>1. ASSUME NEW x \in new PROVE \E e \in others : e.id = x
        <3>1. Unknown(x, t) \in others
            OBVIOUS
        <3> QED  BY <3>1 DEF Unknown
    <2>2. \A e \in others : e.kind = "unknown" /\ e.id \in new
        BY DEF Unknown
    <2> QED  BY <2>1, <2>2
<1> HIDE DEF others
<1>3. /\ {e \in produced' : e.kind = "unknown"} = others
      /\ \A e \in produced' : e.kind \in {"stale", "silent", "unknown"}
    BY <1>1, <1>2, TimeoutKinds
<1>4. {<<"unknown", e.id>> : e \in others} = {<<"unknown", x>> : x \in new}
    BY <1>2
<1>5. /\ {<<"message", e.message>> : e \in {x \in produced' : x.kind = "stale"}}
            = {<<"message", m>> : m \in {x \in Messages : GoesStale(x, t)}}
      /\ {<<"node", e.node>> : e \in {x \in produced' : x.kind = "silent"}}
            = {<<"node", n>> : n \in {x \in Nodes : FallsSilent(x, t)}}
    BY <1>1, <1>2, LookReports
<1>6. ReportedOpen' = LookOpens(t) \cup {<<"unknown", x>> : x \in new}
    BY <1>3, <1>4, <1>5 DEF ReportedOpen, LookOpens
<1>7. ReportedClosed' = {}
    BY <1>3 DEF ReportedClosed
<1> QED  BY <1>6, <1>7 DEF new

\* The findings of one kind a frame adds, with the subjects they name.
LEMMA RangeOpenings ==
    ASSUME NEW m, NEW t, NEW A
    PROVE  LET E == {RangeViolation(m, s, t) : s \in A} IN
           /\ \A e \in E : e.kind = "range"
           /\ {<<"range", e.message, e.signal>> : e \in E}
                 = {<<"range", m, s>> : s \in A}
<1> DEFINE E == {RangeViolation(m, s, t) : s \in A}
<1>1. \A e \in E : e.kind = "range" /\ e.message = m /\ e.signal \in A
    BY DEF RangeViolation
<1>2. ASSUME NEW s \in A PROVE \E e \in E : e.message = m /\ e.signal = s
    <2>1. RangeViolation(m, s, t) \in E
        OBVIOUS
    <2> QED  BY <2>1 DEF RangeViolation
<1>3. /\ \A e \in E : e.kind = "range"
      /\ {<<"range", e.message, e.signal>> : e \in E}
            = {<<"range", m, s>> : s \in A}
    <2> HIDE DEF E
    <2> QED  BY <1>1, <1>2
<1> QED  BY <1>3

\* Likewise for the range recoveries a frame adds.
LEMMA RangeClosings ==
    ASSUME NEW m, NEW t, NEW A
    PROVE  LET E == {RangeRecovered(m, s, t, t - rangeSince[m][s]) : s \in A} IN
           /\ \A e \in E : e.kind = "range_recovered"
           /\ {<<"range", e.message, e.signal>> : e \in E}
                 = {<<"range", m, s>> : s \in A}
<1> DEFINE E == {RangeRecovered(m, s, t, t - rangeSince[m][s]) : s \in A}
<1>1. \A e \in E : e.kind = "range_recovered" /\ e.message = m /\ e.signal \in A
    BY DEF RangeRecovered
<1>2. ASSUME NEW s \in A PROVE \E e \in E : e.message = m /\ e.signal = s
    <2>1. RangeRecovered(m, s, t, t - rangeSince[m][s]) \in E
        OBVIOUS
    <2> QED  BY <2>1 DEF RangeRecovered
<1>3. /\ \A e \in E : e.kind = "range_recovered"
      /\ {<<"range", e.message, e.signal>> : e \in E}
            = {<<"range", m, s>> : s \in A}
    <2> HIDE DEF E
    <2> QED  BY <1>1, <1>2
<1> QED  BY <1>3

\* Likewise for the recovery of the message a frame belongs to.
LEMMA MessageClosings ==
    ASSUME NEW t, NEW A
    PROVE  LET E == {Recovered(x, t, t - StalePoint(x, t)) : x \in A} IN
           /\ \A e \in E : e.kind = "recovered"
           /\ {<<"message", e.message>> : e \in E} = {<<"message", x>> : x \in A}
<1> DEFINE E == {Recovered(x, t, t - StalePoint(x, t)) : x \in A}
<1>1. \A e \in E : e.kind = "recovered" /\ e.message \in A
    BY DEF Recovered
<1>2. ASSUME NEW x \in A PROVE \E e \in E : e.message = x
    <2>1. Recovered(x, t, t - StalePoint(x, t)) \in E
        OBVIOUS
    <2> QED  BY <2>1 DEF Recovered
<1>3. /\ \A e \in E : e.kind = "recovered"
      /\ {<<"message", e.message>> : e \in E} = {<<"message", x>> : x \in A}
    <2> HIDE DEF E
    <2> QED  BY <1>1, <1>2
<1> QED  BY <1>3

\* Likewise for the recovery of the node that sent it.
LEMMA NodeClosings ==
    ASSUME NEW t, NEW A
    PROVE  LET E == {NodeRecovered(x, t, t - SilentPoint(x, t)) : x \in A} IN
           /\ \A e \in E : e.kind = "node_recovered"
           /\ {<<"node", e.node>> : e \in E} = {<<"node", x>> : x \in A}
<1> DEFINE E == {NodeRecovered(x, t, t - SilentPoint(x, t)) : x \in A}
<1>1. \A e \in E : e.kind = "node_recovered" /\ e.node \in A
    BY DEF NodeRecovered
<1>2. ASSUME NEW x \in A PROVE \E e \in E : e.node = x
    <2>1. NodeRecovered(x, t, t - SilentPoint(x, t)) \in E
        OBVIOUS
    <2> QED  BY <2>1 DEF NodeRecovered
<1>3. /\ \A e \in E : e.kind = "node_recovered"
      /\ {<<"node", e.node>> : e \in E} = {<<"node", x>> : x \in A}
    <2> HIDE DEF E
    <2> QED  BY <1>1, <1>2
<1> QED  BY <1>3

\* All a frame of the database opens and closes, by subject.
LEMMA KnownReports ==
    ASSUME NEW f, NEW t, ProcessKnown(f, t)
    PROVE  LET m == f.message
               n == Sender[m]
           IN  /\ ReportedOpen' = LookOpens(t) \cup
                     {<<"range", m, s>> : s \in {x \in Signals : Opens(f, x)}}
               /\ ReportedClosed' =
                     {<<"message", x>> : x \in {y \in {m} : WasStale(y, t)}}
                     \cup {<<"node", x>> : x \in {y \in {n} : SilentPoint(y, t) # None}}
                     \cup {<<"range", m, s>> : s \in {x \in Signals : Closes(f, x)}}
<1> DEFINE m == f.message
           n == Sender[m]
           A == {x \in Signals : Opens(f, x)}
           B == {x \in Signals : Closes(f, x)}
           C == {y \in {m} : WasStale(y, t)}
           D == {y \in {n} : SilentPoint(y, t) # None}
           opening == {RangeViolation(m, s, t) : s \in A}
           closing == {RangeRecovered(m, s, t, t - rangeSince[m][s]) : s \in B}
           back == {Recovered(x, t, t - StalePoint(x, t)) : x \in C}
           nodeBack == {NodeRecovered(x, t, t - SilentPoint(x, t)) : x \in D}
           rest == RestartFindings(f, t) \cup GapFindings(f, t)
           others == opening \cup closing \cup back \cup nodeBack \cup rest
<1>1. produced' = TimeoutFindings(t) \cup others
    BY DEF ProcessKnown, RecoveryFindings, RangeFindings
<1> HIDE DEF A, B, C, D, m, n
<1>2. /\ \A e \in opening : e.kind = "range"
      /\ {<<"range", e.message, e.signal>> : e \in opening}
            = {<<"range", m, s>> : s \in A}
    BY RangeOpenings
<1>3. /\ \A e \in closing : e.kind = "range_recovered"
      /\ {<<"range", e.message, e.signal>> : e \in closing}
            = {<<"range", m, s>> : s \in B}
    BY RangeClosings
<1>4. /\ \A e \in back : e.kind = "recovered"
      /\ {<<"message", e.message>> : e \in back} = {<<"message", x>> : x \in C}
    BY MessageClosings
<1>5. /\ \A e \in nodeBack : e.kind = "node_recovered"
      /\ {<<"node", e.node>> : e \in nodeBack} = {<<"node", x>> : x \in D}
    BY NodeClosings
<1>6. \A e \in rest : e.kind \in {"restart", "gap"}
    BY DEF RestartFindings, GapFindings, Restart, Gap
<1> HIDE DEF opening, closing, back, nodeBack, rest
<1>7. \A e \in others : e.kind \notin {"stale", "silent"}
    BY <1>2, <1>3, <1>4, <1>5, <1>6
<1>8. /\ {e \in produced' : e.kind = "range"} = opening
      /\ {e \in produced' : e.kind = "range_recovered"} = closing
      /\ {e \in produced' : e.kind = "recovered"} = back
      /\ {e \in produced' : e.kind = "node_recovered"} = nodeBack
      /\ {e \in produced' : e.kind = "unknown"} = {}
    BY <1>1, <1>2, <1>3, <1>4, <1>5, <1>6, TimeoutKinds
<1>9. /\ {<<"message", e.message>> : e \in {x \in produced' : x.kind = "stale"}}
            = {<<"message", x>> : x \in {y \in Messages : GoesStale(y, t)}}
      /\ {<<"node", e.node>> : e \in {x \in produced' : x.kind = "silent"}}
            = {<<"node", x>> : x \in {y \in Nodes : FallsSilent(y, t)}}
    <2> HIDE DEF others
    <2> QED  BY <1>1, <1>7, LookReports
<1>10. ReportedOpen' = LookOpens(t) \cup {<<"range", m, s>> : s \in A}
    BY <1>2, <1>8, <1>9 DEF ReportedOpen, LookOpens
<1>11. ReportedClosed' = {<<"message", x>> : x \in C}
                         \cup {<<"node", x>> : x \in D}
                         \cup {<<"range", m, s>> : s \in B}
    BY <1>3, <1>4, <1>5, <1>8 DEF ReportedClosed
<1> QED  BY <1>10, <1>11 DEF A, B, C, D, m, n

\* A look never flags what is flagged already.
LEMMA LookOpensNew ==
    ASSUME NEW t
    PROVE  LookOpens(t) \cap OpenEpisodes = {}
BY DEF LookOpens, OpenEpisodes, GoesStale, FallsSilent

\* After a look that no frame follows, the open episodes are the earlier
\* ones and those it opened.
LEMMA LookOpensAll ==
    ASSUME IInv, NEW t \in Times,
           staleSince' = [m \in Messages |-> StalePoint(m, t)],
           silentSince' = [n \in Nodes |-> SilentPoint(n, t)],
           UNCHANGED <<rangeSince, unknownSeen>>
    PROVE  OpenEpisodes' = OpenEpisodes \cup LookOpens(t)
BY LookOpensPoints DEF OpenEpisodes, LookOpens

\* A look flags only messages and nodes of the database.
LEMMA LookOpensSubjects ==
    ASSUME NEW t
    PROVE  LookOpens(t) \subseteq EpisodeSubjects
BY DEF LookOpens, EpisodeSubjects

\* What it is to be an open episode, by kind of subject, in any state.
EpisodesOf(stale, silent, range, unknown) ==
    {<<"message", m>> : m \in {x \in Messages : stale[x] # None}}
    \cup {<<"node", n>> : n \in {x \in Nodes : silent[x] # None}}
    \cup {<<"range", p[1], p[2]>> :
             p \in {x \in Messages \X Signals : range[x[1]][x[2]] # None}}
    \cup {<<"unknown", id>> : id \in {x \in unknown : ReportUnknownIds}}

\* Membership in a set of episodes, one kind of subject at a time.
LEMMA EpisodeMembers ==
    ASSUME NEW stale, NEW silent, NEW range, NEW unknown, NEW E,
           E = EpisodesOf(stale, silent, range, unknown)
    PROVE  /\ \A m : <<"message", m>> \in E <=> m \in Messages /\ stale[m] # None
           /\ \A n : <<"node", n>> \in E <=> n \in Nodes /\ silent[n] # None
           /\ \A m, s : <<"range", m, s>> \in E <=>
                 m \in Messages /\ s \in Signals /\ range[m][s] # None
           /\ \A id : <<"unknown", id>> \in E <=> id \in unknown /\ ReportUnknownIds
           /\ \A x \in E : \/ \E m : x = <<"message", m>>
                           \/ \E n : x = <<"node", n>>
                           \/ \E m, s : x = <<"range", m, s>>
                           \/ \E id : x = <<"unknown", id>>
<1>1. ASSUME NEW m, NEW s
      PROVE  <<"range", m, s>> \in E <=>
             m \in Messages /\ s \in Signals /\ range[m][s] # None
    <2>1. ASSUME m \in Messages, s \in Signals, range[m][s] # None
          PROVE  <<"range", m, s>> \in E
        <3>1. <<m, s>> \in {x \in Messages \X Signals : range[x[1]][x[2]] # None}
            BY <2>1
        <3> QED  BY <3>1 DEF EpisodesOf
    <2>2. ASSUME <<"range", m, s>> \in E
          PROVE  m \in Messages /\ s \in Signals /\ range[m][s] # None
        BY <2>2 DEF EpisodesOf
    <2> QED  BY <2>1, <2>2
<1>2. \A m : <<"message", m>> \in E <=> m \in Messages /\ stale[m] # None
    BY DEF EpisodesOf
<1>3. \A n : <<"node", n>> \in E <=> n \in Nodes /\ silent[n] # None
    BY DEF EpisodesOf
<1>4. \A id : <<"unknown", id>> \in E <=> id \in unknown /\ ReportUnknownIds
    BY DEF EpisodesOf
<1>5. \A x \in E : \/ \E m : x = <<"message", m>>
                  \/ \E n : x = <<"node", n>>
                  \/ \E m, s : x = <<"range", m, s>>
                  \/ \E id : x = <<"unknown", id>>
    BY DEF EpisodesOf
<1> QED  BY <1>1, <1>2, <1>3, <1>4, <1>5

\* process_frame of a known identifier is a step of Episodes.
LEMMA KnownEpisodes ==
    ASSUME IInv, NEW f \in Frames, NEW t \in Times, ProcessKnown(f, t)
    PROVE  Reported!Call
<1> DEFINE m == f.message
           n == Sender[m]
           opened == {<<"range", m, s>> : s \in {x \in Signals : Opens(f, x)}}
           closed == {<<"message", x>> : x \in {y \in {m} : WasStale(y, t)}}
                     \cup {<<"node", x>> : x \in {y \in {n} : SilentPoint(y, t) # None}}
                     \cup {<<"range", m, s>> : s \in {x \in Signals : Closes(f, x)}}
           next == OpenEpisodes'
<1>1. m \in Messages /\ n \in Nodes
    BY BoundAssumption, DatabaseAssumption DEF Frame
<1>2. ReportedOpen' = LookOpens(t) \cup opened /\ ReportedClosed' = closed
    BY KnownReports
<1>3. t # None
    BY BoundAssumption DEF Times
<1>M. /\ \A x : <<"message", x>> \in OpenEpisodes <=> x \in Messages /\ staleSince[x] # None
      /\ \A x : <<"node", x>> \in OpenEpisodes <=> x \in Nodes /\ silentSince[x] # None
      /\ \A x, s : <<"range", x, s>> \in OpenEpisodes <=>
            x \in Messages /\ s \in Signals /\ rangeSince[x][s] # None
      /\ \A id : <<"unknown", id>> \in OpenEpisodes <=> id \in unknownSeen /\ ReportUnknownIds
      /\ \A x \in OpenEpisodes : \/ \E m1 : x = <<"message", m1>>
                      \/ \E n1 : x = <<"node", n1>>
                      \/ \E m1, s : x = <<"range", m1, s>>
                      \/ \E id : x = <<"unknown", id>>
    <2>1. OpenEpisodes = EpisodesOf(staleSince, silentSince, rangeSince, unknownSeen)
        BY DEF EpisodesOf, OpenEpisodes
    <2> QED  BY <2>1, EpisodeMembers
<1>N. /\ \A x : <<"message", x>> \in next <=> x \in Messages /\ staleSince'[x] # None
      /\ \A x : <<"node", x>> \in next <=> x \in Nodes /\ silentSince'[x] # None
      /\ \A x, s : <<"range", x, s>> \in next <=>
            x \in Messages /\ s \in Signals /\ rangeSince'[x][s] # None
      /\ \A id : <<"unknown", id>> \in next <=> id \in unknownSeen' /\ ReportUnknownIds
      /\ \A x \in next : \/ \E m1 : x = <<"message", m1>>
                      \/ \E n1 : x = <<"node", n1>>
                      \/ \E m1, s : x = <<"range", m1, s>>
                      \/ \E id : x = <<"unknown", id>>
    <2>1. next = EpisodesOf(staleSince', silentSince', rangeSince', unknownSeen')
        BY DEF EpisodesOf, OpenEpisodes
    <2> HIDE DEF next
    <2> QED  BY <2>1, EpisodeMembers
<1>4. opened \subseteq EpisodeSubjects /\ opened \cap OpenEpisodes = {}
    BY <1>1, <1>M DEF EpisodeSubjects, Opens
<1>5. ReportedOpen' \subseteq EpisodeSubjects \ OpenEpisodes
    BY <1>2, <1>4, LookOpensNew, LookOpensSubjects
<1>6. closed \cap UnknownSubjects = {}
    BY DEF UnknownSubjects
<1>7. closed \subseteq OpenEpisodes \cup LookOpens(t)
    BY <1>1, <1>M, LookOpensPoints DEF LookOpens, WasStale, Closes
<1>8. /\ \A x \in Messages : staleSince'[x] # None <=>
             x # m /\ (staleSince[x] # None \/ GoesStale(x, t))
      /\ \A x \in Nodes : silentSince'[x] # None <=>
             x # n /\ (silentSince[x] # None \/ FallsSilent(x, t))
      /\ unknownSeen' = unknownSeen
    BY LookOpensPoints DEF ProcessKnown
<1>9. \A x \in Messages, s \in Signals : rangeSince'[x][s] # None <=>
         IF x = m THEN Opens(f, s) \/ (rangeSince[x][s] # None /\ ~Closes(f, s))
                  ELSE rangeSince[x][s] # None
    BY <1>1, <1>3 DEF ProcessKnown, RangeAfter, IInv, TypeOK, Opens
<1>10. OpenEpisodes' = (OpenEpisodes \cup LookOpens(t) \cup opened) \ closed
    <2> DEFINE rhs == (OpenEpisodes \cup LookOpens(t) \cup opened) \ closed
    <2>1. ASSUME NEW x
          PROVE  <<"message", x>> \in rhs <=> <<"message", x>> \in next
        <3>1. <<"message", x>> \in closed <=> x = m /\ StalePoint(m, t) # None
            BY DEF WasStale
        <3>2. <<"message", x>> \notin opened
            OBVIOUS
        <3>3. <<"message", x>> \in LookOpens(t) <=> x \in Messages /\ GoesStale(x, t)
            BY DEF LookOpens
        <3> HIDE DEF closed, opened, next
        <3> QED  BY <1>1, <1>8, <1>M, <1>N, <3>1, <3>2, <3>3, LookOpensPoints
    <2>2. ASSUME NEW x
          PROVE  <<"node", x>> \in rhs <=> <<"node", x>> \in next
        <3>1. <<"node", x>> \in closed <=> x = n /\ SilentPoint(n, t) # None
            OBVIOUS
        <3>2. <<"node", x>> \notin opened
            OBVIOUS
        <3>3. <<"node", x>> \in LookOpens(t) <=> x \in Nodes /\ FallsSilent(x, t)
            BY DEF LookOpens
        <3> HIDE DEF closed, opened, next
        <3> QED  BY <1>1, <1>8, <1>M, <1>N, <3>1, <3>2, <3>3, LookOpensPoints
    <2>3. ASSUME NEW x, NEW s
          PROVE  <<"range", x, s>> \in rhs <=> <<"range", x, s>> \in next
        <3>1. <<"range", x, s>> \in closed <=> x = m /\ s \in Signals /\ Closes(f, s)
            OBVIOUS
        <3>2. <<"range", x, s>> \in opened <=> x = m /\ s \in Signals /\ Opens(f, s)
            OBVIOUS
        <3>3. <<"range", x, s>> \notin LookOpens(t)
            BY DEF LookOpens
        <3>4. ~(Opens(f, s) /\ Closes(f, s))
            BY DEF Opens, Closes
        <3> HIDE DEF closed, opened, next, m, n
        <3> QED  BY <1>1, <1>9, <1>M, <1>N, <3>1, <3>2, <3>3, <3>4
    <2>4. ASSUME NEW x
          PROVE  <<"unknown", x>> \in rhs <=> <<"unknown", x>> \in next
        <3>1. <<"unknown", x>> \notin closed \cup opened \cup LookOpens(t)
            BY DEF LookOpens
        <3> HIDE DEF closed, opened, next
        <3> QED  BY <1>8, <1>M, <1>N, <3>1
    <2>5. \A x \in rhs : \/ \E m1 : x = <<"message", m1>>
                         \/ \E n1 : x = <<"node", n1>>
                         \/ \E m1, s : x = <<"range", m1, s>>
                         \/ \E id : x = <<"unknown", id>>
        BY <1>M DEF LookOpens
    <2> HIDE DEF rhs, next
    <2>6. ASSUME NEW x \in next PROVE x \in rhs
        BY <2>1, <2>2, <2>3, <2>4, <1>N
    <2>7. ASSUME NEW x \in rhs PROVE x \in next
        BY <2>1, <2>2, <2>3, <2>4, <2>5
    <2>8. next = rhs
        BY <2>6, <2>7
    <2> QED  BY <2>8 DEF rhs, next
<1> QED  BY <1>2, <1>5, <1>6, <1>7, <1>10 DEF Reported!Call

\* finalize is a step of Episodes.
LEMMA EvaluateEpisodes ==
    ASSUME IInv, NEW t \in Times, EvaluateAt(t)
    PROVE  Reported!Call
<1>1. ReportedOpen' = LookOpens(t) /\ ReportedClosed' = {}
    BY EvaluateReports
<1>2. OpenEpisodes' = OpenEpisodes \cup LookOpens(t)
    BY LookOpensAll DEF EvaluateAt
<1> QED  BY <1>1, <1>2, LookOpensNew, LookOpensSubjects DEF Reported!Call

\* process_frame of an unknown identifier is a step of Episodes.
LEMMA UnknownEpisodes ==
    ASSUME IInv, NEW id \in UnknownIds, NEW t \in Times, ProcessUnknown(id, t)
    PROVE  Reported!Call
<1> DEFINE first == {y \in {id} : y \notin unknownSeen /\ ReportUnknownIds}
           opened == {<<"unknown", x>> : x \in first}
<1>1. ReportedOpen' = LookOpens(t) \cup opened /\ ReportedClosed' = {}
    BY UnknownReports
<1>2. OpenEpisodes' = OpenEpisodes \cup LookOpens(t) \cup opened
    BY LookOpensPoints DEF ProcessUnknown, OpenEpisodes, LookOpens
<1>3. opened \subseteq EpisodeSubjects /\ opened \cap OpenEpisodes = {}
    BY DEF EpisodeSubjects, UnknownSubjects, OpenEpisodes
<1> HIDE DEF opened
<1> QED  BY <1>1, <1>2, <1>3, LookOpensNew, LookOpensSubjects
         DEF Reported!Call

\* Every finding the monitor produces opens an episode that was closed or
\* closes one that was open, for every database, configuration and order of
\* timestamps: the monitor implements Episodes.
THEOREM MonitorImplementsEpisodes == Spec => OncePerEpisode
<1>1. Init => Reported!Init
    BY DEF Init, Reported!Init, OpenEpisodes, ReportedOpen, ReportedClosed
<1>2. IInv /\ [Next]_vars => [Reported!Call]_(Reported!vars)
    <2> SUFFICES ASSUME IInv, [Next]_vars
                 PROVE  Reported!Call \/ UNCHANGED Reported!vars
        OBVIOUS
    <2>1. ASSUME NEW f \in Frames, NEW t \in Times, ProcessKnown(f, t)
          PROVE  Reported!Call
        BY <2>1, KnownEpisodes
    <2>2. ASSUME NEW id \in UnknownIds, NEW t \in Times, ProcessUnknown(id, t)
          PROVE  Reported!Call
        BY <2>2, UnknownEpisodes
    <2>3. ASSUME NEW t \in Times, EvaluateAt(t)
          PROVE  Reported!Call
        BY <2>3, EvaluateEpisodes
    <2>4. CASE Finalize
        BY <2>3, <2>4, FinalizeTime DEF Finalize, IInv
    <2>5. CASE UNCHANGED vars
        BY <2>5 DEF vars, messageVars, nodeVars, Reported!vars, OpenEpisodes,
                    ReportedOpen, ReportedClosed
    <2> QED  BY <2>1, <2>2, <2>3, <2>4, <2>5 DEF Next, FinalizeAt
<1> QED  BY <1>1, <1>2, InductiveInvariant, PTL
         DEF Spec, OncePerEpisode, Reported!Spec
=============================================================================
