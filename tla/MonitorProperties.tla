-------------------------- MODULE MonitorProperties --------------------------
(****************************************************************************)
(* What the monitor guarantees between and across its calls.                *)
(****************************************************************************)
EXTENDS Monitor

CONSTANT CycleTime    \* declared cycle time of the data messages

\* Every variable keeps the type its Python counterpart has.
TypeOK ==
    /\ lastSeen \in [Messages -> Optional(Times)]
    /\ staleSince \in [Messages -> Optional(Times)]
    /\ lastSequence \in [Messages -> Optional(Counters)]
    /\ lastUptime \in [Messages -> Optional(Nat)]
    /\ rangeSince \in [Messages -> [Signals -> Optional(Times)]]
    /\ silentSince \in [Nodes -> Optional(Times)]
    /\ lastRestart \in [Nodes -> Optional(Times)]
    /\ unknownSeen \subseteq UnknownIds
    /\ lastTimestamp \in Optional(Times)
    /\ looked \in Times

AllStale(n) ==
    /\ Observed(n) # {}
    /\ \A m \in Observed(n) : staleSince[m] # None

\* A node is held silent exactly while every message seen from it is stale:
\* _evaluate_node_silence misses no node, and no frame of a node leaves it
\* silent, the first frame ever of a further message included.
SilentIffAllStale ==
    \A n \in Nodes : silentSince[n] # None <=> AllStale(n)

\* While a node is silent its episode is dated by the message that went stale
\* last, whenever and however often freshness was evaluated since.
SilenceDatedByLastMessage ==
    \A n \in Nodes : silentSince[n] # None =>
        /\ \E m \in Observed(n) : staleSince[m] = silentSince[n]
        /\ \A m \in Observed(n) : staleSince[m] <= silentSince[n]

\* After any call no message that is past its threshold is left unflagged,
\* and a flagged one is dated at last_seen + threshold, never at the time of
\* the look (docs/architecture.md:62-64).
FreshnessDecided ==
    \A m \in Messages : lastSeen[m] # None =>
        IF staleSince[m] = None
        THEN looked - lastSeen[m] <= StaleAfter[m]
        ELSE staleSince[m] = lastSeen[m] + StaleAfter[m]

\* With ordered timestamps a message or a node recovers strictly after the
\* moment its alarm is dated: no finding has a recovery time of zero or less.
RecoveryFollowsAlarm ==
    \A e \in produced :
        e.kind \in {"recovered", "node_recovered"} => e.recovery > 0

\* With ordered timestamps a gap is reported only between two frames of one
\* run of the node's traffic: no staleness between them, and no restart after
\* the earlier one or within the suppression window before the later one.
NoGapAcrossInterruption ==
    [][\A e \in produced' : e.kind = "gap" =>
          LET n == Sender[e.message]
          IN  /\ e.at - lastSeen[e.message] <= StaleAfter[e.message]
              /\ lastRestart[n] # None =>
                    /\ lastRestart[n] <= lastSeen[e.message]
                    /\ e.at - lastRestart[n] > RestartSuppression]_vars

\* The finalize() that ends analyze_frames never reports anything, because
\* freshness was already judged at the time of the last frame: an outage that
\* lasts to the end of a capture is reported only if a later frame shows it.
FinalizeAddsNothing == [][Finalize => produced' = {}]_vars

-----------------------------------------------------------------------------
(* The monitor implements Episodes.                                         *)

OpenEpisodes ==
    {<<"message", m>> : m \in {x \in Messages : staleSince[x] # None}}
    \cup {<<"node", n>> : n \in {x \in Nodes : silentSince[x] # None}}
    \cup {<<"range", p[1], p[2]>> :
             p \in {x \in Messages \X Signals : rangeSince[x[1]][x[2]] # None}}
    \cup {<<"unknown", id>> : id \in {x \in unknownSeen : ReportUnknownIds}}

ReportedOpen ==
    {<<"message", e.message>> : e \in {x \in produced : x.kind = "stale"}}
    \cup {<<"node", e.node>> : e \in {x \in produced : x.kind = "silent"}}
    \cup {<<"range", e.message, e.signal>> :
             e \in {x \in produced : x.kind = "range"}}
    \cup {<<"unknown", e.id>> : e \in {x \in produced : x.kind = "unknown"}}

ReportedClosed ==
    {<<"message", e.message>> : e \in {x \in produced : x.kind = "recovered"}}
    \cup {<<"node", e.node>> :
             e \in {x \in produced : x.kind = "node_recovered"}}
    \cup {<<"range", e.message, e.signal>> :
             e \in {x \in produced : x.kind = "range_recovered"}}

UnknownSubjects == {<<"unknown", id>> : id \in UnknownIds}

EpisodeSubjects ==
    {<<"message", m>> : m \in Messages}
    \cup {<<"node", n>> : n \in Nodes}
    \cup {<<"range", m, s>> : m \in Messages, s \in Signals}
    \cup UnknownSubjects

Reported == INSTANCE Episodes WITH
    Subjects  <- EpisodeSubjects,
    Permanent <- UnknownSubjects,
    open      <- OpenEpisodes,
    opened    <- ReportedOpen,
    closed    <- ReportedClosed

\* The findings of the monitor are episodes: each alarm is raised once and
\* each recovery closes the alarm that is open.
OncePerEpisode == Reported!Spec

-----------------------------------------------------------------------------
(* The list of other active nodes depends on the order of evaluation; what  *)
(* is left of a silence finding is who and when.                            *)
Core(e) == IF e.kind = "silent" THEN Silent(e.node, e.at, {}) ELSE e
CoreOf(findings) == {Core(e) : e \in findings}

\* The alarms that no recovery has closed.
OpenAlarms ==
    {Stale(m, staleSince[m]) : m \in {x \in Messages : staleSince[x] # None}}
    \cup {Silent(n, silentSince[n], {}) :
             n \in {x \in Nodes : silentSince[x] # None}}

-----------------------------------------------------------------------------
(* What the documents say and the code does not do.                         *)

\* docs/architecture.md:65-66: a silence finding lists "which other nodes are
\* still transmitting".
ActiveNodesTransmit ==
    \A e \in produced : e.kind = "silent" =>
        \A o \in e.active : \E m \in Observed(o) : staleSince[m] = None

\* docs/architecture.md:72-73: a violation is closed "with a recovery when
\* the value returns".
RangeClosesOnReturn ==
    [][\A f \in Frames : ProcessKnown(f, looked') =>
          \A s \in Signals :
              f.value[s] = "valid" => rangeSince'[f.message][s] = None]_vars

\* docs/protocol.md:83-89: a gap is reported only when "the number of implied
\* missing frames is consistent with the elapsed time and the declared cycle
\* time".  Two frames with some missing between them are one cycle more apart
\* than are missing; that cycle is given up for jitter, and frames less than a
\* cycle apart are left aside.
GapConsistentWithTime ==
    [][\A e \in produced' :
          LET elapsed == e.at - lastSeen[e.message]
          IN  e.kind = "gap" /\ elapsed >= CycleTime =>
                  e.skipped * CycleTime <= elapsed]_vars
=============================================================================
