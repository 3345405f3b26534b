----------------------------- MODULE LiveProofs ------------------------------
(****************************************************************************)
(* What the live loop reports against what analyze_frames makes of the same *)
(* frames, for every database, configuration, traffic and scheduling of the *)
(* loop.                                                                    *)
(*                                                                          *)
(* The two monitors differ only in how often and when they look.  So        *)
(* whatever frames alone determine is the same in both, and what a look     *)
(* flags is dated alike: the live monitor has flagged all that the other    *)
(* has, and more only if it looked later.                                   *)
(****************************************************************************)
EXTENDS LiveMonitor, MonitorProofs

\* The lemmas on the monitor, of the one that analyzes the capture.  Its frames
\* never lag.
Cap == INSTANCE MonitorProofs WITH
    MaxBackstep   <- 0,
    lastSeen      <- capLastSeen,      staleSince   <- capStaleSince,
    lastSequence  <- capLastSequence,  lastUptime   <- capLastUptime,
    rangeSince    <- capRangeSince,    silentSince  <- capSilentSince,
    lastRestart   <- capLastRestart,   unknownSeen  <- capUnknownSeen,
    lastTimestamp <- capLastTimestamp, looked       <- capLooked,
    produced      <- capProduced

-----------------------------------------------------------------------------
(* Capture and Cap are one monitor.                                         *)

LEMMA OneInit == Capture!Init <=> Cap!Init
BY DEF Capture!Init, Cap!Init

LEMMA OneMonitor ==
    ASSUME NEW f, NEW id, NEW t
    PROVE  /\ Capture!ProcessKnown(f, t) <=> Cap!ProcessKnown(f, t)
           /\ Capture!ProcessUnknown(id, t) <=> Cap!ProcessUnknown(id, t)
BY
   DEF Capture!ProcessKnown, Cap!ProcessKnown, Capture!GoesStale,
       Cap!GoesStale, Capture!StalePoint, Cap!StalePoint,
       Capture!Observed, Cap!Observed, Capture!FallsSilent,
       Cap!FallsSilent, Capture!SilentPoint, Cap!SilentPoint,
       Capture!Max, Cap!Max, Capture!SequenceAfter, Cap!SequenceAfter,
       Capture!UptimeFell, Cap!UptimeFell, Capture!ReadsCounter,
       Cap!ReadsCounter, Capture!Baseline, Cap!Baseline,
       Capture!WasStale, Cap!WasStale, Capture!RangeAfter,
       Cap!RangeAfter, Capture!Opens, Cap!Opens, Capture!Closes,
       Cap!Closes, Capture!Numeric, Cap!Numeric,
       Capture!TimeoutFindings, Cap!TimeoutFindings, Capture!Stale,
       Cap!Stale, Capture!Silent, Cap!Silent, Capture!ActiveBeside,
       Cap!ActiveBeside, Capture!RecoveryFindings, Cap!RecoveryFindings,
       Capture!Recovered, Cap!Recovered, Capture!NodeRecovered,
       Cap!NodeRecovered, Capture!RestartFindings, Cap!RestartFindings,
       Capture!Restart, Cap!Restart, Capture!GapFindings,
       Cap!GapFindings, Capture!ForwardDistance, Cap!ForwardDistance,
       Capture!RestartSuppressed, Cap!RestartSuppressed, Capture!Gap,
       Cap!Gap, Capture!RangeFindings, Cap!RangeFindings,
       Capture!RangeViolation, Cap!RangeViolation,
       Capture!RangeRecovered, Cap!RangeRecovered,
       Capture!ProcessUnknown, Cap!ProcessUnknown, Capture!Unknown,
       Cap!Unknown

\* What is no state of either.
LEMMA OneNetwork ==
    /\ Cap!Times = Times
    /\ Cap!Frame = Frame
    /\ \A S : Cap!CoreOf(S) = CoreOf(S)
BY DEF Times, Cap!Times, Frame, Cap!Frame, Optional, Cap!Optional, Counters,
       Cap!Counters, Values, Cap!Values, CoreOf, Cap!CoreOf, Core, Cap!Core,
       Silent, Cap!Silent

LEMMA CaptureInit == Capture!Init => Cap!IInv
BY OneInit, OneNetwork, DatabaseAssumption, ConfigAssumption, BoundAssumption,
   Cap!InitIInv

LEMMA CaptureCall ==
    ASSUME Cap!IInv, NEW t \in Times,
           \/ \E f \in Frames : Capture!ProcessKnown(f, t)
           \/ \E id \in UnknownIds : Capture!ProcessUnknown(id, t)
    PROVE  Cap!IInv'
<1>1. Cap!Call(t)
    BY OneMonitor DEF Cap!Call
<1> QED  BY <1>1, OneNetwork, DatabaseAssumption, ConfigAssumption,
            BoundAssumption, Cap!CallKeepsIInv

LEMMA CaptureLook ==
    ASSUME Cap!IInv, NEW t \in Times
    PROVE  /\ \A n \in Nodes : Cap!SilentPoint(n, t) # None <=>
                  /\ Cap!Observed(n) # {}
                  /\ \A m \in Cap!Observed(n) : Cap!StalePoint(m, t) # None
           /\ \A n \in Nodes : Cap!SilentPoint(n, t) # None =>
                  /\ \E m \in Cap!Observed(n) :
                         Cap!StalePoint(m, t) = Cap!SilentPoint(n, t)
                  /\ \A m \in Cap!Observed(n) :
                         Cap!StalePoint(m, t) <= Cap!SilentPoint(n, t)
           /\ Cap!AlarmsAt(t) =
                  Cap!OpenAlarms \cup CoreOf(Cap!TimeoutFindings(t))
<1> USE OneNetwork, DatabaseAssumption, ConfigAssumption, BoundAssumption
<1>1. ASSUME NEW n \in Nodes
      PROVE  Cap!SilentPoint(n, t) # None <=>
                 /\ Cap!Observed(n) # {}
                 /\ \A m \in Cap!Observed(n) : Cap!StalePoint(m, t) # None
    BY Cap!LookSilence
<1>2. ASSUME NEW n \in Nodes, Cap!SilentPoint(n, t) # None
      PROVE  /\ \E m \in Cap!Observed(n) :
                    Cap!StalePoint(m, t) = Cap!SilentPoint(n, t)
             /\ \A m \in Cap!Observed(n) :
                    Cap!StalePoint(m, t) <= Cap!SilentPoint(n, t)
    BY <1>2, Cap!LookDate
<1>3. Cap!AlarmsAt(t) = Cap!OpenAlarms \cup CoreOf(Cap!TimeoutFindings(t))
    BY Cap!LookRaises
<1> QED  BY <1>1, <1>2, <1>3

-----------------------------------------------------------------------------
(* The two monitors.                                                        *)

\* What frames alone determine is the same in both.  The live monitor may have
\* flagged more, and dropped baselines for it if it looked too far ahead.
Mirror ==
    /\ capLastSeen = lastSeen
    /\ capLastUptime = lastUptime
    /\ capRangeSince = rangeSince
    /\ capLastRestart = lastRestart
    /\ capUnknownSeen = unknownSeen
    /\ \A m \in Messages :
          capStaleSince[m] # None => staleSince[m] = capStaleSince[m]
    /\ \A m \in Messages : lastSequence[m] \in {None, capLastSequence[m]}
    /\ ~overtaken => lastSequence = capLastSequence

Mirrored == IInv /\ Cap!IInv /\ Mirror

\* What is flagged is past its threshold at the latest look.
FlagsAreDue ==
    \A m \in Messages : staleSince[m] # None =>
        lastSeen[m] # None /\ looked - lastSeen[m] > StaleAfter[m]

LEMMA Points ==
    ASSUME Mirrored, NEW t \in Times, NEW m \in Messages
    PROVE  /\ lastSeen[m] # None => lastSeen[m] \in Int
           /\ StaleAfter[m] \in Int /\ looked \in Int /\ t \in Int
           /\ lastSeen[m] # None => lastSeen[m] + StaleAfter[m] # None
           /\ staleSince[m] # None /\ lastSeen[m] # None =>
                  staleSince[m] = lastSeen[m] + StaleAfter[m]
<1>1. /\ lastSeen[m] # None => lastSeen[m] \in Int
      /\ StaleAfter[m] \in Int /\ looked \in Int /\ t \in Int
    BY ConfigAssumption, BoundAssumption
       DEF Mirrored, IInv, TypeOK, Optional, Times
<1>2. lastSeen[m] # None => lastSeen[m] + StaleAfter[m] \in Int
    BY <1>1
<1> QED  BY <1>1, <1>2, BoundAssumption DEF Mirrored, IInv, FreshnessDecided

\* A flag has one date, so whatever the capture's monitor has flagged after a
\* look at time t, the live one has flagged with the same date; and it has
\* flagged nothing else if t is no earlier than its latest look.
LEMMA PointsMirror ==
    ASSUME Mirrored, NEW t \in Times, NEW m \in Messages
    PROVE  /\ Cap!StalePoint(m, t) # None =>
                  StalePoint(m, t) = Cap!StalePoint(m, t)
           /\ FlagsAreDue /\ looked <= t =>
                  StalePoint(m, t) = Cap!StalePoint(m, t)
<1> USE DEF Cap!StalePoint, Cap!GoesStale, StalePoint, GoesStale
<1>1. capLastSeen[m] = lastSeen[m]
    BY DEF Mirrored, Mirror
<1>2. CASE capStaleSince[m] # None
    BY <1>2 DEF Mirrored, Mirror
<1>3. CASE capStaleSince[m] = None /\ staleSince[m] = None
    BY <1>1, <1>3
<1>4. CASE capStaleSince[m] = None /\ staleSince[m] # None
    <2>1. Cap!StalePoint(m, t) # None => StalePoint(m, t) = Cap!StalePoint(m, t)
        BY <1>1, <1>4, Points
    <2>2. ASSUME FlagsAreDue, looked <= t
          PROVE  StalePoint(m, t) = Cap!StalePoint(m, t)
        <3>1. lastSeen[m] # None /\ t - lastSeen[m] > StaleAfter[m]
            BY <1>4, <2>2, Points DEF FlagsAreDue
        <3> QED  BY <1>1, <1>4, <3>1, Points
    <2> QED  BY <2>1, <2>2
<1> QED  BY <1>2, <1>3, <1>4

LEMMA SilencesMirror ==
    ASSUME Mirrored, NEW t \in Times, NEW n \in Nodes
    PROVE  /\ Cap!SilentPoint(n, t) # None =>
                  SilentPoint(n, t) = Cap!SilentPoint(n, t)
           /\ FlagsAreDue /\ looked <= t =>
                  SilentPoint(n, t) = Cap!SilentPoint(n, t)
<1>1. Cap!Observed(n) = Observed(n) /\ Observed(n) \subseteq Messages
    BY DEF Mirrored, Mirror, Observed, Cap!Observed
<1>2. ASSUME Cap!SilentPoint(n, t) # None
      PROVE  SilentPoint(n, t) = Cap!SilentPoint(n, t)
    <2>1. \A m \in Observed(n) : /\ Cap!StalePoint(m, t) # None
                                 /\ StalePoint(m, t) = Cap!StalePoint(m, t)
        BY <1>1, <1>2, CaptureLook, PointsMirror DEF Mirrored
    <2>2. SilentPoint(n, t) # None
        BY <1>1, <1>2, <2>1, CaptureLook, LookSilence DEF Mirrored
    <2>3. PICK x \in Observed(n) : StalePoint(x, t) = SilentPoint(n, t)
        BY <2>2, LookDate DEF Mirrored
    <2>4. PICK y \in Observed(n) : Cap!StalePoint(y, t) = Cap!SilentPoint(n, t)
        BY <1>1, <1>2, CaptureLook DEF Mirrored
    <2>5. StalePoint(y, t) <= SilentPoint(n, t)
        BY <2>2, LookDate DEF Mirrored
    <2>6. Cap!StalePoint(x, t) <= Cap!SilentPoint(n, t)
        BY <1>1, <1>2, CaptureLook DEF Mirrored
    <2>7. StalePoint(x, t) \in Int /\ StalePoint(y, t) \in Int
        BY <1>1, <2>1, StalePointType, BoundAssumption
           DEF Mirrored, IInv, Optional, Times
    <2> QED  BY <2>1, <2>3, <2>4, <2>5, <2>6, <2>7
<1>3. ASSUME FlagsAreDue, looked <= t
      PROVE  SilentPoint(n, t) # None => Cap!SilentPoint(n, t) # None
    BY <1>1, <1>3, PointsMirror, CaptureLook, LookSilence DEF Mirrored
<1> QED  BY <1>2, <1>3

LEMMA AlarmsMirror ==
    ASSUME Mirrored, NEW t \in Times
    PROVE  /\ Cap!AlarmsAt(t) \subseteq AlarmsAt(t)
           /\ FlagsAreDue /\ looked <= t => AlarmsAt(t) = Cap!AlarmsAt(t)
<1> DEFINE capMessages == {m \in Messages : Cap!StalePoint(m, t) # None}
           capNodes == {n \in Nodes : Cap!SilentPoint(n, t) # None}
<1>1. Cap!AlarmsAt(t) =
          {Stale(m, Cap!StalePoint(m, t)) : m \in capMessages}
          \cup {Silent(n, Cap!SilentPoint(n, t), {}) : n \in capNodes}
    BY DEF Cap!AlarmsAt, Cap!Stale, Stale, Cap!Silent, Silent
<1>2. {Stale(m, Cap!StalePoint(m, t)) : m \in capMessages}
          = {Stale(m, StalePoint(m, t)) : m \in capMessages}
    BY PointsMirror
<1>3. {Silent(n, Cap!SilentPoint(n, t), {}) : n \in capNodes}
          = {Silent(n, SilentPoint(n, t), {}) : n \in capNodes}
    BY SilencesMirror
<1>4. /\ capMessages \subseteq {m \in Messages : StalePoint(m, t) # None}
      /\ capNodes \subseteq {n \in Nodes : SilentPoint(n, t) # None}
    BY PointsMirror, SilencesMirror
<1>5. ASSUME FlagsAreDue, looked <= t
      PROVE  /\ capMessages = {m \in Messages : StalePoint(m, t) # None}
             /\ capNodes = {n \in Nodes : SilentPoint(n, t) # None}
    BY <1>5, PointsMirror, SilencesMirror
<1> HIDE DEF capMessages, capNodes
<1> QED  BY <1>1, <1>2, <1>3, <1>4, <1>5 DEF AlarmsAt

-----------------------------------------------------------------------------
(* The findings of one frame.                                               *)

\* What a frame raises beside the timeouts found on its arrival.
OfFrame(f, t) ==
    RecoveryFindings(f, t) \cup RestartFindings(f, t)
    \cup GapFindings(f, t) \cup RangeFindings(f, t)

CapOfFrame(f, t) ==
    Cap!RecoveryFindings(f, t) \cup Cap!RestartFindings(f, t)
    \cup Cap!GapFindings(f, t) \cup Cap!RangeFindings(f, t)

\* None of it is a silence finding.
LEMMA FrameCores ==
    ASSUME NEW f, NEW t
    PROVE  \A e \in OfFrame(f, t) \cup CapOfFrame(f, t) : Core(e) = e
<1>1. \A e \in OfFrame(f, t) : e.kind # "silent"
    BY DEF OfFrame, RecoveryFindings, Recovered, NodeRecovered,
           RestartFindings, Restart, GapFindings, Gap, RangeFindings,
           RangeViolation, RangeRecovered
<1>2. \A e \in CapOfFrame(f, t) : e.kind # "silent"
    BY DEF CapOfFrame, Cap!RecoveryFindings, Cap!Recovered,
           Cap!NodeRecovered, Cap!RestartFindings, Cap!Restart,
           Cap!GapFindings, Cap!Gap, Cap!RangeFindings,
           Cap!RangeViolation, Cap!RangeRecovered
<1> QED  BY <1>1, <1>2 DEF Core

\* Whatever a frame raises in the capture it raises in the live loop, but for
\* a gap; and that too, and nothing else, if no look was ahead of it.
LEMMA FrameMirrors ==
    ASSUME Mirrored, NEW f \in Frames, NEW t \in Times
    PROVE  /\ \A e \in CapOfFrame(f, t) \ OfFrame(f, t) : e.kind = "gap"
           /\ FlagsAreDue /\ looked <= t /\ ~overtaken =>
                  OfFrame(f, t) = CapOfFrame(f, t)
<1> DEFINE m == f.message
           n == Sender[m]
<1>1. m \in Messages /\ n \in Nodes
    BY BoundAssumption, DatabaseAssumption DEF Frame
<1>2. Cap!RestartFindings(f, t) = RestartFindings(f, t)
    BY DEF Mirrored, Mirror, RestartFindings, Cap!RestartFindings, UptimeFell,
           Cap!UptimeFell, Restart, Cap!Restart
<1>3. Cap!RangeFindings(f, t) = RangeFindings(f, t)
    BY DEF Mirrored, Mirror, RangeFindings, Cap!RangeFindings, Opens,
           Cap!Opens, Closes, Cap!Closes, Numeric, Cap!Numeric,
           RangeViolation, Cap!RangeViolation, RangeRecovered,
           Cap!RangeRecovered
<1>4. Cap!RecoveryFindings(f, t) =
          {Recovered(x, t, t - Cap!StalePoint(x, t)) :
              x \in {y \in {m} : Cap!StalePoint(y, t) # None}}
          \cup {NodeRecovered(x, t, t - Cap!SilentPoint(x, t)) :
                   x \in {y \in {n} : Cap!SilentPoint(y, t) # None}}
    BY DEF Cap!RecoveryFindings, Cap!Recovered, Recovered, Cap!NodeRecovered,
           NodeRecovered, Cap!WasStale
<1>5. RecoveryFindings(f, t) =
          {Recovered(x, t, t - StalePoint(x, t)) :
              x \in {y \in {m} : StalePoint(y, t) # None}}
          \cup {NodeRecovered(x, t, t - SilentPoint(x, t)) :
                   x \in {y \in {n} : SilentPoint(y, t) # None}}
    BY DEF RecoveryFindings, WasStale
<1>6. Cap!RecoveryFindings(f, t) \subseteq RecoveryFindings(f, t)
    BY <1>1, <1>4, <1>5, PointsMirror, SilencesMirror
<1>7. \A e \in Cap!GapFindings(f, t) : e.kind = "gap"
    BY DEF Cap!GapFindings, Cap!Gap
<1>8. ASSUME FlagsAreDue, looked <= t, ~overtaken
      PROVE  OfFrame(f, t) = CapOfFrame(f, t)
    <2>1. /\ StalePoint(m, t) = Cap!StalePoint(m, t)
          /\ SilentPoint(n, t) = Cap!SilentPoint(n, t)
        BY <1>1, <1>8, PointsMirror, SilencesMirror
    <2>2. Cap!RecoveryFindings(f, t) = RecoveryFindings(f, t)
        BY <1>4, <1>5, <2>1
    <2>3. Cap!Baseline(m, t) = Baseline(m, t)
        BY <1>8, <2>1 DEF Baseline, Cap!Baseline, WasStale, Cap!WasStale,
                          Mirrored, Mirror
    <2>4. Cap!GapFindings(f, t) = GapFindings(f, t)
        BY <2>3 DEF GapFindings, Cap!GapFindings, ReadsCounter,
                    Cap!ReadsCounter, ForwardDistance, Cap!ForwardDistance,
                    RestartSuppressed, Cap!RestartSuppressed, Gap, Cap!Gap,
                    Mirrored, Mirror
    <2> QED  BY <1>2, <1>3, <2>2, <2>4 DEF OfFrame, CapOfFrame
<1> QED  BY <1>2, <1>3, <1>6, <1>7, <1>8 DEF OfFrame, CapOfFrame

-----------------------------------------------------------------------------
(* The state after a call.                                                  *)

\* The time of a frame against the latest look of the live monitor.
Timed(t) ==
    /\ overtaken => overtaken'
    /\ ~overtaken' => ~overtaken /\ looked <= t

LEMMA FramesAreTimed ==
    ASSUME TypeOK, NEW t \in Times, overtaken' = (overtaken \/ t < looked)
    PROVE  Timed(t)
<1>1. looked \in Int /\ t \in Int
    BY BoundAssumption DEF TypeOK, Times
<1>2. ~(t < looked) => looked <= t
    BY <1>1
<1>3. overtaken' = (overtaken \/ t < looked)
    OBVIOUS
<1> QED  BY <1>2, <1>3, Zenon DEF Timed

\* Both monitors process a frame with a known identifier.
LEMMA KnownKeepsMirror ==
    ASSUME Mirrored, NEW f \in Frames, NEW t \in Times,
           ProcessKnown(f, t), Cap!ProcessKnown(f, t),
           ~overtaken => FlagsAreDue, Timed(t)
    PROVE  /\ Mirror'
           /\ ~overtaken' => FlagsAreDue'
           /\ OpenAlarms' \subseteq AlarmsAt(t)
           /\ (Cap!OpenAlarms)' \subseteq Cap!AlarmsAt(t)
<1> DEFINE m == f.message
<1>0. ~overtaken' => ~overtaken /\ FlagsAreDue /\ looked <= t
    BY DEF Timed
<1>1. m \in Messages /\ lastSeen \in [Messages -> Optional(Times)]
    BY BoundAssumption DEF Frame, Mirrored, IInv, TypeOK
<1>2. /\ lastSeen' = [lastSeen EXCEPT ![m] = t]
      /\ \A x \in Messages : staleSince'[x] = IF x = m THEN None
                                              ELSE StalePoint(x, t)
      /\ \A x \in Nodes : silentSince'[x] = IF x = Sender[m] THEN None
                                            ELSE SilentPoint(x, t)
      /\ looked' = t
    BY DEF ProcessKnown
<1>3. /\ capLastSeen' = [capLastSeen EXCEPT ![m] = t]
      /\ \A x \in Messages : capStaleSince'[x] = IF x = m THEN None
                                                 ELSE Cap!StalePoint(x, t)
      /\ \A x \in Nodes : capSilentSince'[x] = IF x = Sender[m] THEN None
                                               ELSE Cap!SilentPoint(x, t)
    BY DEF Cap!ProcessKnown
<1>4. /\ capLastSeen' = lastSeen'
      /\ capUnknownSeen' = unknownSeen'
      /\ capLastUptime' = lastUptime'
      /\ capLastRestart' = lastRestart'
    BY <1>2, <1>3 DEF Mirrored, Mirror, ProcessKnown, Cap!ProcessKnown,
                      UptimeFell, Cap!UptimeFell
<1>5. capRangeSince' = rangeSince'
    <2>1. Cap!RangeAfter(f, t) = RangeAfter(f, t)
        BY DEF Mirrored, Mirror, RangeAfter, Cap!RangeAfter, Opens,
               Cap!Opens, Closes, Cap!Closes, Numeric, Cap!Numeric
    <2> QED  BY <2>1 DEF Mirrored, Mirror, ProcessKnown, Cap!ProcessKnown
<1>6. \A x \in Messages :
          capStaleSince'[x] # None => staleSince'[x] = capStaleSince'[x]
    BY <1>2, <1>3, PointsMirror
<1>7. /\ lastSequence' = SequenceAfter(f, t)
      /\ capLastSequence' = Cap!SequenceAfter(f, t)
    BY DEF ProcessKnown, Cap!ProcessKnown
<1>8. UptimeFell(f) = Cap!UptimeFell(f) /\ ReadsCounter(f) = Cap!ReadsCounter(f)
    BY DEF Mirrored, Mirror, UptimeFell, Cap!UptimeFell, ReadsCounter,
           Cap!ReadsCounter
<1>9. Baseline(m, t) \in {None, Cap!Baseline(m, t)}
    <2>1. Cap!WasStale(m, t) => WasStale(m, t)
        BY <1>1, PointsMirror DEF WasStale, Cap!WasStale
    <2> QED  BY <1>1, <2>1 DEF Baseline, Cap!Baseline, Mirrored, Mirror
<1>10. \A x \in Messages : lastSequence'[x] \in {None, capLastSequence'[x]}
    BY <1>7, <1>8, <1>9 DEF SequenceAfter, Cap!SequenceAfter, Mirrored, Mirror
<1>11. ~overtaken' => lastSequence' = capLastSequence'
    <2> SUFFICES ASSUME ~overtaken'
                 PROVE  SequenceAfter(f, t) = Cap!SequenceAfter(f, t)
        BY <1>7
    <2>1. WasStale(m, t) <=> Cap!WasStale(m, t)
        BY <1>0, <1>1, PointsMirror DEF WasStale, Cap!WasStale
    <2>2. lastSequence = capLastSequence
        BY <1>0 DEF Mirrored, Mirror
    <2>3. Baseline(m, t) = Cap!Baseline(m, t)
        BY <2>1, <2>2 DEF Baseline, Cap!Baseline
    <2> QED  BY <1>8, <2>2, <2>3 DEF SequenceAfter, Cap!SequenceAfter
<1>12. ASSUME ~overtaken', NEW x \in Messages, staleSince'[x] # None
       PROVE  lastSeen'[x] # None /\ looked' - lastSeen'[x] > StaleAfter[x]
    <2>1. x # m /\ StalePoint(x, t) # None /\ lastSeen'[x] = lastSeen[x]
        BY <1>1, <1>2, <1>12
    <2>2. CASE staleSince[x] # None
        BY <1>0, <1>2, <1>12, <2>1, <2>2, Points DEF FlagsAreDue
    <2>3. CASE GoesStale(x, t)
        BY <1>2, <2>1, <2>3 DEF GoesStale
    <2> QED  BY <2>1, <2>2, <2>3 DEF StalePoint
<1>13. OpenAlarms' \subseteq AlarmsAt(t)
    BY <1>2 DEF OpenAlarms, AlarmsAt, Stale, Silent
<1>14. (Cap!OpenAlarms)' \subseteq Cap!AlarmsAt(t)
    BY <1>3 DEF Cap!OpenAlarms, Cap!AlarmsAt, Cap!Stale, Cap!Silent
<1> QED  BY <1>4, <1>5, <1>6, <1>10, <1>11, <1>12, <1>13, <1>14
         DEF Mirror, FlagsAreDue

\* A flag is still past its threshold at a later look.
LEMMA LookKeepsDue ==
    ASSUME Mirrored, NEW t \in Times, FlagsAreDue, looked <= t,
           NEW m \in Messages, StalePoint(m, t) # None
    PROVE  lastSeen[m] # None /\ t - lastSeen[m] > StaleAfter[m]
<1>1. CASE staleSince[m] # None
    BY <1>1, Points DEF FlagsAreDue
<1>2. CASE GoesStale(m, t)
    BY <1>2 DEF GoesStale
<1> QED  BY <1>1, <1>2 DEF StalePoint

\* Both monitors process a frame with an unknown identifier.
LEMMA UnknownKeepsMirror ==
    ASSUME Mirrored, NEW id \in UnknownIds, NEW t \in Times,
           ProcessUnknown(id, t), Cap!ProcessUnknown(id, t),
           ~overtaken => FlagsAreDue, Timed(t)
    PROVE  /\ Mirror'
           /\ ~overtaken' => FlagsAreDue'
           /\ OpenAlarms' \subseteq AlarmsAt(t)
           /\ (Cap!OpenAlarms)' \subseteq Cap!AlarmsAt(t)
<1>1. /\ \A x \in Messages : staleSince'[x] = StalePoint(x, t)
      /\ \A x \in Nodes : silentSince'[x] = SilentPoint(x, t)
      /\ looked' = t
      /\ UNCHANGED <<lastSeen, lastSequence, lastUptime, rangeSince, lastRestart>>
    BY DEF ProcessUnknown
<1>2. /\ \A x \in Messages : capStaleSince'[x] = Cap!StalePoint(x, t)
      /\ \A x \in Nodes : capSilentSince'[x] = Cap!SilentPoint(x, t)
      /\ UNCHANGED <<capLastSeen, capLastSequence, capLastUptime,
                     capRangeSince, capLastRestart>>
    BY DEF Cap!ProcessUnknown
<1>3. capUnknownSeen' = unknownSeen'
    BY DEF ProcessUnknown, Cap!ProcessUnknown, Mirrored, Mirror
<1>4. Mirror'
    BY <1>1, <1>2, <1>3, PointsMirror DEF Mirrored, Mirror, Timed
<1>5. ~overtaken' => FlagsAreDue'
    BY <1>1, LookKeepsDue DEF Timed, FlagsAreDue
<1>6. OpenAlarms' \subseteq AlarmsAt(t)
    BY <1>1 DEF OpenAlarms, AlarmsAt, Stale, Silent
<1>7. (Cap!OpenAlarms)' \subseteq Cap!AlarmsAt(t)
    BY <1>2 DEF Cap!OpenAlarms, Cap!AlarmsAt, Cap!Stale, Cap!Silent
<1> QED  BY <1>4, <1>5, <1>6, <1>7

\* The live monitor alone evaluates freshness.
LEMMA LookKeepsMirror ==
    ASSUME Mirrored, NEW t \in Times, EvaluateAt(t), looked <= t,
           ~overtaken => FlagsAreDue, UNCHANGED <<captureVars, overtaken>>
    PROVE  /\ Mirror'
           /\ ~overtaken' => FlagsAreDue'
           /\ OpenAlarms' = AlarmsAt(t)
<1>1. /\ \A x \in Messages : staleSince'[x] = StalePoint(x, t)
      /\ \A x \in Nodes : silentSince'[x] = SilentPoint(x, t)
      /\ looked' = t
      /\ UNCHANGED <<lastSeen, lastSequence, lastUptime, rangeSince,
                     lastRestart, unknownSeen>>
    BY DEF EvaluateAt
<1>2. UNCHANGED <<capLastSeen, capStaleSince, capLastSequence, capLastUptime,
                  capRangeSince, capLastRestart, capUnknownSeen>>
    BY DEF captureVars
<1>3. \A m \in Messages : capStaleSince[m] # None =>
          StalePoint(m, t) = capStaleSince[m]
    BY PointsAreDates DEF Mirrored, Mirror
<1>4. Mirror'
    BY <1>1, <1>2, <1>3 DEF Mirrored, Mirror
<1>5. ~overtaken' => FlagsAreDue'
    BY <1>1, LookKeepsDue DEF FlagsAreDue
<1>6. OpenAlarms' = AlarmsAt(t)
    BY <1>1 DEF OpenAlarms, AlarmsAt, Stale, Silent
<1> QED  BY <1>4, <1>5, <1>6

-----------------------------------------------------------------------------
(* What is reported.                                                        *)

\* Every open alarm has been reported, in the live loop and in the capture.
Told ==
    /\ OpenAlarms \subseteq CoreOf(events)
    /\ Cap!OpenAlarms \subseteq CoreOf(capEvents)
    /\ LiveCoversCapture
    /\ LiveAddsOpenOutages

LEMMA CoresOfBoth ==
    ASSUME NEW A, NEW B
    PROVE  CoreOf(A \cup B) = CoreOf(A) \cup CoreOf(B)
BY DEF CoreOf

\* A frame that both monitors process, with what it raises beside timeouts.
LEMMA FrameKeepsTold ==
    ASSUME Mirrored, Told, NEW t \in Times, Timed(t),
           ~overtaken => FlagsAreDue, NEW others, NEW capOthers,
           \A e \in others \cup capOthers : Core(e) = e,
           \A e \in capOthers \ others : e.kind = "gap",
           FlagsAreDue /\ looked <= t /\ ~overtaken => others = capOthers,
           produced' = TimeoutFindings(t) \cup others,
           capProduced' = Cap!TimeoutFindings(t) \cup capOthers,
           events' = events \cup produced',
           capEvents' = capEvents \cup capProduced',
           OpenAlarms' \subseteq AlarmsAt(t),
           (Cap!OpenAlarms)' \subseteq Cap!AlarmsAt(t)
    PROVE  Told'
<1> DEFINE told == CoreOf(events)
           capTold == CoreOf(capEvents)
           looks == CoreOf(TimeoutFindings(t))
           capLooks == CoreOf(Cap!TimeoutFindings(t))
<1>1. CoreOf(others) = others /\ CoreOf(capOthers) = capOthers
    BY DEF CoreOf
<1>2. CoreOf(events') = told \cup looks \cup others
    <2>1. events' = events \cup (TimeoutFindings(t) \cup others)
        OBVIOUS
    <2>2. CoreOf(events') = told \cup CoreOf(TimeoutFindings(t) \cup others)
        BY <2>1, CoresOfBoth
    <2>3. CoreOf(TimeoutFindings(t) \cup others) = looks \cup CoreOf(others)
        BY CoresOfBoth
    <2> QED  BY <1>1, <2>2, <2>3
<1>3. CoreOf(capEvents') = capTold \cup capLooks \cup capOthers
    <2>1. capEvents' = capEvents \cup (Cap!TimeoutFindings(t) \cup capOthers)
        OBVIOUS
    <2>2. CoreOf(capEvents') =
              capTold \cup CoreOf(Cap!TimeoutFindings(t) \cup capOthers)
        BY <2>1, CoresOfBoth
    <2>3. CoreOf(Cap!TimeoutFindings(t) \cup capOthers)
              = capLooks \cup CoreOf(capOthers)
        BY CoresOfBoth
    <2> QED  BY <1>1, <2>2, <2>3
<1>4. AlarmsAt(t) = OpenAlarms \cup looks
    BY LookRaises DEF Mirrored
<1>5. Cap!AlarmsAt(t) = Cap!OpenAlarms \cup capLooks
    BY CaptureLook DEF Mirrored
<1>6. Cap!AlarmsAt(t) \subseteq AlarmsAt(t)
    BY AlarmsMirror
<1>7. CoreOf(events)' = CoreOf(events') /\ CoreOf(capEvents)' = CoreOf(capEvents')
    BY DEF CoreOf, Core
<1> HIDE DEF told, capTold, looks, capLooks
<1>8. /\ OpenAlarms \subseteq told /\ Cap!OpenAlarms \subseteq capTold
      /\ \A e \in capTold \ told : overtaken /\ e.kind = "gap"
      /\ ~overtaken => told \ capTold \subseteq OpenAlarms
    BY DEF Told, LiveCoversCapture, LiveAddsOpenOutages, told, capTold
<1>9. ~overtaken' => /\ others = capOthers
                     /\ AlarmsAt(t) = Cap!AlarmsAt(t)
    BY AlarmsMirror DEF Timed
<1>10. LiveCoversCapture'
    <2> SUFFICES ASSUME NEW e \in CoreOf(capEvents') \ CoreOf(events')
                 PROVE  overtaken' /\ e.kind = "gap"
        BY <1>7 DEF LiveCoversCapture
    <2>1. CASE e \in capTold
        BY <1>2, <1>8, <2>1 DEF Timed
    <2>2. CASE e \in capLooks
        BY <1>2, <1>4, <1>5, <1>6, <1>8, <2>2
    <2>3. CASE e \in capOthers
        BY <1>2, <1>9, <2>3
    <2> QED  BY <1>3, <2>1, <2>2, <2>3
<1>11. LiveAddsOpenOutages'
    <2> SUFFICES ASSUME ~overtaken'
                 PROVE  CoreOf(events') \subseteq CoreOf(capEvents')
        BY <1>7 DEF LiveAddsOpenOutages
    <2>1. told \subseteq capTold \cup OpenAlarms
        BY <1>8 DEF Timed
    <2> QED  BY <1>2, <1>3, <1>4, <1>5, <1>8, <1>9, <2>1
<1> QED  BY <1>2, <1>3, <1>4, <1>5, <1>7, <1>8, <1>10, <1>11 DEF Told

-----------------------------------------------------------------------------
(* The loop.                                                                *)

RxMessage == [content : Frames \cup UnknownIds \cup {None}, stamp : Times]

\* What the driver holds is stamped in the order of its arrival, after what
\* the capture has; no clock runs ahead of the wall clock.
QueueInv ==
    /\ clock \in Times
    /\ looked <= clock
    /\ capLooked <= clock
    /\ rx \in Seq(RxMessage)
    /\ \A i \in 1 .. Len(rx) : capLooked <= rx[i].stamp /\ rx[i].stamp <= clock
    /\ \A i, j \in 1 .. Len(rx) : i <= j => rx[i].stamp <= rx[j].stamp

LiveInv ==
    /\ Mirrored
    /\ ~overtaken => FlagsAreDue
    /\ Told
    /\ QueueInv

\* The first message of the queue, and what is left without it.
LEMMA FirstInQueue ==
    ASSUME QueueInv, capLooked \in Int, rx # <<>>
    PROVE  /\ Head(rx).content \in Frames \cup UnknownIds \cup {None}
           /\ Head(rx).stamp \in Times
           /\ capLooked <= Head(rx).stamp
           /\ Head(rx).stamp <= clock
           /\ Tail(rx) \in Seq(RxMessage)
           /\ \A i \in 1 .. Len(Tail(rx)) :
                  /\ Head(rx).stamp <= Tail(rx)[i].stamp
                  /\ capLooked <= Tail(rx)[i].stamp
                  /\ Tail(rx)[i].stamp <= clock
           /\ \A i, j \in 1 .. Len(Tail(rx)) :
                  i <= j => Tail(rx)[i].stamp <= Tail(rx)[j].stamp
<1>1. /\ rx \in Seq(RxMessage) /\ Len(rx) \in Nat /\ Len(rx) >= 1
      /\ Head(rx) = rx[1] /\ Head(rx) \in RxMessage
      /\ Tail(rx) \in Seq(RxMessage) /\ Len(Tail(rx)) = Len(rx) - 1
    BY DEF QueueInv
<1>2. \A i \in 1 .. Len(Tail(rx)) :
          i + 1 \in 1 .. Len(rx) /\ Tail(rx)[i] = rx[i + 1]
    BY <1>1
<1> HIDE DEF RxMessage
<1>3. \A i \in 1 .. Len(Tail(rx)) : /\ Head(rx).stamp <= Tail(rx)[i].stamp
                                    /\ capLooked <= Tail(rx)[i].stamp
                                    /\ Tail(rx)[i].stamp <= clock
    BY <1>1, <1>2 DEF QueueInv
<1>4. \A i, j \in 1 .. Len(Tail(rx)) :
          i <= j => Tail(rx)[i].stamp <= Tail(rx)[j].stamp
    <2> SUFFICES ASSUME NEW i \in 1 .. Len(Tail(rx)),
                        NEW j \in 1 .. Len(Tail(rx)), i <= j
                 PROVE  Tail(rx)[i].stamp <= Tail(rx)[j].stamp
        OBVIOUS
    <2>1. i + 1 <= j + 1 /\ i + 1 \in 1 .. Len(rx) /\ j + 1 \in 1 .. Len(rx)
        BY <1>2
    <2> QED  BY <1>2, <2>1 DEF QueueInv
<1>5. capLooked <= Head(rx).stamp /\ Head(rx).stamp <= clock
    BY <1>1 DEF QueueInv
<1> QED  BY <1>1, <1>3, <1>4, <1>5 DEF RxMessage

\* The driver appends a message at the time of the clock.
LEMMA ReceiveKeepsQueue ==
    ASSUME QueueInv, NEW content \in Frames \cup UnknownIds \cup {None},
           Receive(content)
    PROVE  QueueInv'
<1> DEFINE new == [content |-> content, stamp |-> clock]
           n == Len(rx)
<1>1. /\ rx \in Seq(RxMessage) /\ n \in Nat /\ new \in RxMessage
      /\ rx' = Append(rx, new)
      /\ UNCHANGED <<clock, looked, capLooked>>
    BY DEF QueueInv, Receive, RxMessage, vars, captureVars
<1> HIDE DEF new
<1>2. /\ rx' \in Seq(RxMessage) /\ Len(rx') = n + 1 /\ rx'[n + 1] = new
      /\ \A i \in 1 .. n : rx'[i] = rx[i]
    BY <1>1
<1>3. new.stamp = clock /\ clock <= clock /\ capLooked <= clock
    BY DEF new, QueueInv, Times
<1>4. \A i \in 1 .. n + 1 : i \in 1 .. n \/ i = n + 1
    BY <1>1
<1>5. \A i \in 1 .. n + 1 : capLooked <= rx'[i].stamp /\ rx'[i].stamp <= clock
    BY <1>2, <1>3, <1>4 DEF QueueInv
<1>6. \A i, j \in 1 .. n + 1 : i <= j => rx'[i].stamp <= rx'[j].stamp
    <2> SUFFICES ASSUME NEW i \in 1 .. n + 1, NEW j \in 1 .. n + 1, i <= j
                 PROVE  rx'[i].stamp <= rx'[j].stamp
        OBVIOUS
    <2>1. CASE j = n + 1
        BY <1>2, <1>3, <1>5, <2>1
    <2>2. CASE j # n + 1
        <3>1. i \in 1 .. n /\ j \in 1 .. n
            BY <1>1, <2>2
        <3> QED  BY <1>2, <3>1 DEF QueueInv
    <2> QED  BY <2>1, <2>2
<1> QED  BY <1>1, <1>2, <1>5, <1>6 DEF QueueInv

LEMMA InitLiveInv == LiveInit => LiveInv
<1> SUFFICES ASSUME LiveInit PROVE LiveInv
    OBVIOUS
<1>1. Init /\ Capture!Init /\ Cap!Init
    BY OneInit DEF LiveInit
<1>2. IInv /\ Cap!IInv
    BY <1>1, InitIInv, CaptureInit
<1>3. Mirror
    BY <1>1 DEF Init, Cap!Init, Mirror
<1>4. FlagsAreDue
    BY <1>1 DEF Init, FlagsAreDue
<1>5. OpenAlarms = {} /\ Cap!OpenAlarms = {}
    BY <1>1 DEF Init, Cap!Init, OpenAlarms, Cap!OpenAlarms
<1>6. CoreOf(events) = {} /\ CoreOf(capEvents) = {}
    BY DEF LiveInit, CoreOf
<1>7. Told
    BY <1>5, <1>6 DEF Told, LiveCoversCapture, LiveAddsOpenOutages
<1>8. QueueInv
    <2>1. clock = 0 /\ looked = 0 /\ capLooked = 0 /\ rx = <<>>
        BY <1>1 DEF LiveInit, Init, Cap!Init
    <2> QED  BY <2>1, BoundAssumption DEF QueueInv, Times
<1> QED  BY <1>2, <1>3, <1>4, <1>7, <1>8 DEF LiveInv, Mirrored

\* Neither monitor is called.
LEMMA QuietKeepsLiveInv ==
    ASSUME LiveInv, UNCHANGED <<vars, events, captureVars, overtaken>>, QueueInv'
    PROVE  LiveInv'
<1>1. /\ UNCHANGED <<lastSeen, staleSince, lastSequence, lastUptime,
                     rangeSince, silentSince, lastRestart, unknownSeen,
                     looked, events, overtaken>>
      /\ UNCHANGED <<capLastSeen, capStaleSince, capLastSequence,
                     capLastUptime, capRangeSince, capSilentSince,
                     capLastRestart, capUnknownSeen, capLooked, capEvents>>
    BY DEF vars, messageVars, nodeVars, captureVars
<1>2. IInv'
    BY StutterKeepsIInv DEF LiveInv, Mirrored
<1>3. Cap!IInv'
    <2>1. UNCHANGED Cap!vars
        BY DEF captureVars, Cap!vars, Cap!messageVars, Cap!nodeVars
    <2> QED  BY <2>1, OneNetwork, DatabaseAssumption, ConfigAssumption,
                BoundAssumption, Cap!StutterKeepsIInv DEF LiveInv, Mirrored
<1>4. Mirror'
    BY <1>1 DEF LiveInv, Mirrored, Mirror
<1>5. ~overtaken' => FlagsAreDue'
    BY <1>1 DEF LiveInv, FlagsAreDue
<1>6. /\ OpenAlarms' = OpenAlarms /\ (Cap!OpenAlarms)' = Cap!OpenAlarms
      /\ CoreOf(events)' = CoreOf(events) /\ CoreOf(capEvents)' = CoreOf(capEvents)
    BY <1>1 DEF OpenAlarms, Cap!OpenAlarms, Stale, Silent, Cap!Stale,
                Cap!Silent, CoreOf, Core
<1>7. Told'
    BY <1>1, <1>6 DEF LiveInv, Told, LiveCoversCapture, LiveAddsOpenOutages
<1> QED  BY <1>2, <1>3, <1>4, <1>5, <1>7 DEF LiveInv, Mirrored

\* finalize(until=now), after a timeout of the queue and at the end.
LEMMA LookKeepsLiveInv ==
    ASSUME LiveInv, FinalizeAt(clock), events' = events \cup produced',
           UNCHANGED <<captureVars, clock, rx, overtaken>>
    PROVE  LiveInv'
<1>1. /\ Mirrored /\ clock \in Times /\ looked <= clock
      /\ ~overtaken => FlagsAreDue
      /\ EvaluateAt(clock)
    BY DEF LiveInv, QueueInv, FinalizeAt
<1>2. IInv'
    BY <1>1, CallKeepsIInv DEF Call, Mirrored
<1>3. UNCHANGED <<capLastSeen, capStaleSince, capLastSequence, capLastUptime,
                  capRangeSince, capSilentSince, capLastRestart,
                  capUnknownSeen, capLastTimestamp, capLooked, capProduced,
                  capEvents>>
    BY DEF captureVars
<1>4. Cap!IInv'
    <2>1. UNCHANGED Cap!vars
        BY <1>3 DEF Cap!vars, Cap!messageVars, Cap!nodeVars
    <2> QED  BY <1>1, <2>1, OneNetwork, DatabaseAssumption, ConfigAssumption,
                BoundAssumption, Cap!StutterKeepsIInv DEF Mirrored
<1>5. /\ Mirror'
      /\ ~overtaken' => FlagsAreDue'
      /\ OpenAlarms' = AlarmsAt(clock)
    BY <1>1, LookKeepsMirror
<1>6. Told'
    <2> DEFINE looks == CoreOf(TimeoutFindings(clock))
    <2>1. AlarmsAt(clock) = OpenAlarms \cup looks
        BY <1>1, LookRaises DEF Mirrored
    <2>2. CoreOf(events') = CoreOf(events) \cup looks
        <3>1. events' = events \cup TimeoutFindings(clock)
            BY <1>1 DEF EvaluateAt
        <3> QED  BY <3>1, CoresOfBoth
    <2>3. /\ CoreOf(events)' = CoreOf(events')
          /\ CoreOf(capEvents)' = CoreOf(capEvents)
          /\ (Cap!OpenAlarms)' = Cap!OpenAlarms
        BY <1>3 DEF CoreOf, Core, Cap!OpenAlarms, Cap!Stale, Cap!Silent
    <2> HIDE DEF looks
    <2>4. overtaken' = overtaken /\ Told
        BY DEF LiveInv
    <2> QED  BY <1>5, <2>1, <2>2, <2>3, <2>4
             DEF Told, LiveCoversCapture, LiveAddsOpenOutages
<1>7. QueueInv'
    <2>1. looked' = clock /\ capLooked' = capLooked /\ clock' = clock /\ rx' = rx
        BY <1>1, <1>3 DEF EvaluateAt
    <2>2. clock <= clock
        BY <1>1 DEF Times
    <2> QED  BY <2>1, <2>2 DEF LiveInv, QueueInv, RxMessage
<1> QED  BY <1>1, <1>2, <1>4, <1>5, <1>6, <1>7 DEF LiveInv, Mirrored

\* The loop takes a frame and handles it.
LEMMA FrameKeepsLiveInv ==
    ASSUME LiveInv, HandleFrame
    PROVE  LiveInv'
<1> DEFINE content == Head(rx).content
           t == Head(rx).stamp
<1>1. /\ Mirrored /\ Told /\ QueueInv /\ IInv /\ Cap!IInv
      /\ ~overtaken => FlagsAreDue
    BY DEF LiveInv, Mirrored
<1>2. /\ \/ content \in Frames /\ ProcessKnown(content, t)
               /\ Capture!ProcessKnown(content, t)
         \/ content \in UnknownIds /\ ProcessUnknown(content, t)
               /\ Capture!ProcessUnknown(content, t)
      /\ overtaken' = (overtaken \/ t < looked)
      /\ events' = events \cup produced'
      /\ capEvents' = capEvents \cup capProduced'
      /\ rx # <<>> /\ rx' = Tail(rx) /\ clock' = clock
    BY DEF HandleFrame
<1>3. capLooked \in Int /\ looked \in Int /\ clock \in Int
    BY <1>1, OneNetwork
       DEF IInv, TypeOK, Cap!IInv, Cap!TypeOK, QueueInv, Times
<1>4. /\ t \in Times /\ t <= clock
      /\ Tail(rx) \in Seq(RxMessage)
      /\ \A i \in 1 .. Len(Tail(rx)) :
             t <= Tail(rx)[i].stamp /\ Tail(rx)[i].stamp <= clock
      /\ \A i, j \in 1 .. Len(Tail(rx)) :
             i <= j => Tail(rx)[i].stamp <= Tail(rx)[j].stamp
    BY <1>1, <1>2, <1>3, FirstInQueue
<1> HIDE DEF content, t
<1>5. IInv' /\ Cap!IInv'
    <2>1. Call(t)
        BY <1>2 DEF Call
    <2> QED  BY <1>1, <1>2, <1>4, <2>1, CallKeepsIInv, CaptureCall
<1>6. Timed(t)
    BY <1>1, <1>2, <1>4, FramesAreTimed DEF IInv
<1>7. CASE content \in Frames /\ ProcessKnown(content, t)
           /\ Cap!ProcessKnown(content, t)
    <2>1. /\ Mirror'
          /\ ~overtaken' => FlagsAreDue'
          /\ OpenAlarms' \subseteq AlarmsAt(t)
          /\ (Cap!OpenAlarms)' \subseteq Cap!AlarmsAt(t)
        BY <1>1, <1>4, <1>6, <1>7, KnownKeepsMirror
    <2>2. produced' = TimeoutFindings(t) \cup OfFrame(content, t)
        BY <1>7 DEF ProcessKnown, OfFrame
    <2>3. capProduced' = Cap!TimeoutFindings(t) \cup CapOfFrame(content, t)
        BY <1>7 DEF Cap!ProcessKnown, CapOfFrame
    <2>4. \A e \in OfFrame(content, t) \cup CapOfFrame(content, t) : Core(e) = e
        BY FrameCores
    <2>5. /\ \A e \in CapOfFrame(content, t) \ OfFrame(content, t) :
                 e.kind = "gap"
          /\ FlagsAreDue /\ looked <= t /\ ~overtaken =>
                 OfFrame(content, t) = CapOfFrame(content, t)
        BY <1>1, <1>4, <1>7, FrameMirrors
    <2>6. Told'
        BY <1>1, <1>2, <1>4, <1>6, <2>1, <2>2, <2>3, <2>4, <2>5, FrameKeepsTold
    <2>7. looked' = t /\ capLooked' = t
        BY <1>7 DEF ProcessKnown, Cap!ProcessKnown
    <2>8. QueueInv'
        BY <1>1, <1>2, <1>4, <2>7 DEF QueueInv, RxMessage
    <2> QED  BY <1>5, <2>1, <2>6, <2>8 DEF LiveInv, Mirrored
<1>8. CASE content \in UnknownIds /\ ProcessUnknown(content, t)
           /\ Cap!ProcessUnknown(content, t)
    <2> DEFINE others == {Unknown(x, t) :
                             x \in {y \in {content} : y \notin unknownSeen
                                                      /\ ReportUnknownIds}}
    <2>1. /\ Mirror'
          /\ ~overtaken' => FlagsAreDue'
          /\ OpenAlarms' \subseteq AlarmsAt(t)
          /\ (Cap!OpenAlarms)' \subseteq Cap!AlarmsAt(t)
        BY <1>1, <1>4, <1>6, <1>8, UnknownKeepsMirror
    <2>2. produced' = TimeoutFindings(t) \cup others
        BY <1>8 DEF ProcessUnknown
    <2>3. capProduced' = Cap!TimeoutFindings(t) \cup others
        BY <1>1, <1>8 DEF Cap!ProcessUnknown, Cap!Unknown, Unknown, Mirrored,
                          Mirror
    <2>4. \A e \in others : Core(e) = e
        BY DEF Core, Unknown
    <2> HIDE DEF others
    <2>5. Told'
        BY <1>1, <1>2, <1>4, <1>6, <2>1, <2>2, <2>3, <2>4, FrameKeepsTold
    <2>6. looked' = t /\ capLooked' = t
        BY <1>8 DEF ProcessUnknown, Cap!ProcessUnknown
    <2>7. QueueInv'
        BY <1>1, <1>2, <1>4, <2>6 DEF QueueInv, RxMessage
    <2> QED  BY <1>5, <2>1, <2>5, <2>7 DEF LiveInv, Mirrored
<1> QED  BY <1>2, <1>7, <1>8, OneMonitor

\* Whatever the loop, the bus and the clock do.
LEMMA LiveStep == LiveInv /\ [LiveNext]_liveVars => LiveInv'
<1> SUFFICES ASSUME LiveInv, [LiveNext]_liveVars
             PROVE  LiveInv'
    OBVIOUS
<1>1. CASE Tick
    <2>1. QueueInv /\ UNCHANGED <<looked, capLooked, rx>>
        BY <1>1 DEF Tick, LiveInv, vars, captureVars
    <2>2. /\ clock' = clock + 1 /\ clock \in Times /\ clock' \in Times
          /\ looked <= clock' /\ capLooked <= clock'
        BY <1>1, <2>1, OneNetwork, BoundAssumption
           DEF Tick, Times, LiveInv, Mirrored, IInv, TypeOK, Cap!IInv,
               Cap!TypeOK, QueueInv
    <2>3. \A i \in 1 .. Len(rx) : rx[i].stamp <= clock'
        <3> SUFFICES ASSUME NEW i \in 1 .. Len(rx)
                     PROVE  rx[i].stamp <= clock'
            OBVIOUS
        <3>1. rx[i] \in RxMessage /\ rx[i].stamp <= clock
            BY <2>1 DEF QueueInv
        <3>2. rx[i].stamp \in Times
            BY <3>1 DEF RxMessage
        <3> QED  BY <2>2, <3>1, <3>2, BoundAssumption DEF Times
    <2>4. QueueInv'
        BY <2>1, <2>2, <2>3 DEF QueueInv, RxMessage
    <2> QED  BY <1>1, <2>4, QuietKeepsLiveInv DEF Tick
<1>2. CASE BusFrame
    <2>1. PICK content \in Frames \cup UnknownIds : Receive(content)
        BY <1>2 DEF BusFrame
    <2>2. QueueInv'
        BY <2>1, ReceiveKeepsQueue DEF LiveInv
    <2> QED  BY <2>1, <2>2, QuietKeepsLiveInv DEF Receive
<1>3. CASE BusError
    <2>1. Receive(None)
        BY <1>3 DEF BusError
    <2>2. QueueInv'
        BY <2>1, ReceiveKeepsQueue DEF LiveInv
    <2> QED  BY <2>1, <2>2, QuietKeepsLiveInv DEF Receive
<1>4. CASE RecvTimeout \/ UNCHANGED liveVars
    <2>1. UNCHANGED <<vars, events, captureVars, overtaken, clock, rx>>
        BY <1>4 DEF RecvTimeout, liveVars, loopVars
    <2>2. QueueInv'
        BY <2>1 DEF LiveInv, QueueInv, RxMessage, vars, captureVars
    <2> QED  BY <2>1, <2>2, QuietKeepsLiveInv
<1>5. CASE SkipError
    <2>1. /\ QueueInv /\ rx # <<>> /\ rx' = Tail(rx)
          /\ UNCHANGED <<clock, looked, capLooked>>
        BY <1>5 DEF SkipError, LiveInv, vars, captureVars
    <2>2. capLooked \in Int
        BY OneNetwork DEF LiveInv, Mirrored, Cap!IInv, Cap!TypeOK, Times
    <2>3. QueueInv'
        BY <2>1, <2>2, FirstInQueue DEF QueueInv, RxMessage
    <2> QED  BY <1>5, <2>3, QuietKeepsLiveInv DEF SkipError
<1>6. CASE HandleTimeout \/ Stop
    BY <1>6, LookKeepsLiveInv DEF HandleTimeout, Stop
<1> QED  BY <1>1, <1>2, <1>3, <1>4, <1>5, <1>6, FrameKeepsLiveInv
         DEF LiveNext, Loop

-----------------------------------------------------------------------------
\* The two monitors agree on whatever frames alone determine, and every open
\* alarm of either has been reported.
THEOREM LiveInductiveInvariant == LiveSpec => []LiveInv
BY InitLiveInv, LiveStep, PTL DEF LiveSpec

\* command_monitor against analyze_frames: no timing of the loop loses a
\* finding that the report of the same frames has, but for gaps after a look
\* that was ahead of a frame.
THEOREM LiveLosesNothing == LiveSpec => []LiveCoversCapture
BY LiveInductiveInvariant, PTL DEF LiveInv, Told

\* Beyond the report of the same frames the loop reports only outages that are
\* still open, as long as no look was ahead of a frame handled later.
THEOREM LiveAddsOnlyOpenOutages == LiveSpec => []LiveAddsOpenOutages
BY LiveInductiveInvariant, PTL DEF LiveInv, Told

\* docs/architecture.md:14-16, "both produce identical event objects", holds of
\* the outages of every message that is back, as long as no look was ahead of a
\* frame handled later: that the run finds it violated takes such a look.
THEOREM SameOutagesInOrder == LiveSpec => [](~overtaken => SameOutages)
<1>1. LiveInv => (~overtaken => SameOutages)
    <2> SUFFICES ASSUME CoreOf(events) \ CoreOf(capEvents) \subseteq OpenAlarms,
                        NEW e \in events, e.kind = "stale",
                        staleSince[e.message] = None
                 PROVE  e \in capEvents
        BY DEF LiveInv, Told, LiveAddsOpenOutages, SameOutages
    <2>1. e \in CoreOf(events)
        BY DEF CoreOf, Core
    <2>2. e \notin OpenAlarms
        BY DEF OpenAlarms, Stale, Silent
    <2>3. PICK x \in capEvents : e = Core(x)
        BY <2>1, <2>2 DEF CoreOf
    <2> QED  BY <2>3 DEF Core, Silent
<1> QED  BY <1>1, LiveInductiveInvariant, PTL

-----------------------------------------------------------------------------
(* Both halves are runs of the monitor, so that what is proved of it holds  *)
(* of them.                                                                 *)

LEMMA CaptureStep ==
    LiveInv /\ [LiveNext]_liveVars => [Cap!Next]_(Cap!vars)
<1> SUFFICES ASSUME LiveInv, [LiveNext]_liveVars
             PROVE  Cap!Next \/ UNCHANGED Cap!vars
    OBVIOUS
<1>1. CASE HandleFrame
    <2> DEFINE t == Head(rx).stamp
    <2>1. t \in Times /\ capLooked <= t /\ capLooked \in Int
        BY <1>1, FirstInQueue, OneNetwork
           DEF HandleFrame, LiveInv, Mirrored, Cap!IInv, Cap!TypeOK, Times
    <2>2. Cap!Arrives(t)
        BY <2>1 DEF Cap!Arrives, Times
    <2>3. \/ \E f \in Frames : Cap!ProcessKnown(f, t)
          \/ \E id \in UnknownIds : Cap!ProcessUnknown(id, t)
        BY <1>1, OneMonitor DEF HandleFrame
    <2> QED  BY <2>1, <2>2, <2>3, OneNetwork DEF Cap!Next
<1>2. CASE \/ Tick \/ BusFrame \/ BusError \/ RecvTimeout \/ HandleTimeout
           \/ SkipError \/ Stop \/ UNCHANGED liveVars
    <2>1. UNCHANGED captureVars
        BY <1>2 DEF Tick, BusFrame, BusError, Receive, RecvTimeout,
                    HandleTimeout, SkipError, Stop, liveVars
    <2> QED  BY <2>1 DEF captureVars, Cap!vars, Cap!messageVars, Cap!nodeVars
<1> QED  BY <1>1, <1>2 DEF LiveNext, Loop

\* The frames the loop handled reach analyze_frames as an ordered capture: the
\* driver stamps them as they arrive and the loop takes them in that order.
THEOREM CaptureIsOrdered == LiveSpec => Cap!Spec
<1>1. LiveInit => Cap!Init
    BY OneInit DEF LiveInit
<1> QED  BY <1>1, CaptureStep, LiveInductiveInvariant, PTL
         DEF LiveSpec, Cap!Spec

\* After every step of the loop silence, staleness and their dates agree with
\* one another and with the latest look, also when that look was ahead of the
\* frame handled last.
THEOREM LoopAlarmsAreDated ==
    LiveSpec => [](SilentIffAllStale /\ SilenceDatedByLastMessage
                   /\ FreshnessDecided)
BY LiveInductiveInvariant, PTL DEF LiveInv, Mirrored, IInv

\* Whatever the order of frames and looks, the loop raises each alarm once and
\* closes only an open one.
THEOREM LoopRaisesOnce == LiveSpec => OncePerEpisode
<1>1. LiveInit => Reported!Init
    BY DEF LiveInit, Init, Reported!Init, OpenEpisodes, ReportedOpen,
           ReportedClosed
<1>2. LiveInv /\ [LiveNext]_liveVars => [Reported!Call]_(Reported!vars)
    <2> SUFFICES ASSUME LiveInv, [LiveNext]_liveVars
                 PROVE  Reported!Call \/ UNCHANGED Reported!vars
        OBVIOUS
    <2>1. IInv
        BY DEF LiveInv, Mirrored
    <2>2. CASE HandleFrame
        <3>1. Head(rx).stamp \in Times
            BY <2>2, FirstInQueue, OneNetwork
               DEF HandleFrame, LiveInv, Mirrored, Cap!IInv, Cap!TypeOK, Times
        <3>2. ASSUME NEW id \in UnknownIds, ProcessUnknown(id, Head(rx).stamp)
              PROVE  Reported!Call
            BY <2>1, <3>1, <3>2, UnknownEpisodes
        <3> QED  BY <2>1, <2>2, <3>1, <3>2, KnownEpisodes DEF HandleFrame
    <2>3. CASE HandleTimeout \/ Stop
        <3>1. EvaluateAt(clock) /\ clock \in Times
            BY <2>3 DEF HandleTimeout, Stop, FinalizeAt, LiveInv, QueueInv
        <3> QED  BY <2>1, <3>1, EvaluateEpisodes
    <2>4. CASE \/ Tick \/ BusFrame \/ BusError \/ RecvTimeout \/ SkipError
               \/ UNCHANGED liveVars
        <3>1. UNCHANGED vars
            BY <2>4 DEF Tick, BusFrame, BusError, Receive, RecvTimeout,
                        SkipError, liveVars
        <3> QED  BY <3>1 DEF vars, messageVars, nodeVars, Reported!vars,
                             OpenEpisodes, ReportedOpen, ReportedClosed
    <2> QED  BY <2>2, <2>3, <2>4 DEF LiveNext, Loop
<1> QED  BY <1>1, <1>2, LiveInductiveInvariant, PTL
         DEF LiveSpec, OncePerEpisode, Reported!Spec
=============================================================================
