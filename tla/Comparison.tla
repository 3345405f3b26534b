------------------------------ MODULE Comparison ------------------------------
(****************************************************************************)
(* compare_captures of timing.py, which decides whether a replay passed.    *)
(*                                                                          *)
(* What analyze_frames finds is written out for captures of one data        *)
(* message with a sequence counter, among frames with unknown identifiers,  *)
(* that have no value out of bounds: Monitor has the rest.                  *)
(****************************************************************************)
EXTENDS Integers, Sequences, FiniteSets

CONSTANTS DataId,             \* identifier of the data message
          StaleAfter,         \* its freshness threshold
          MaxReportableGap    \* max_reportable_gap

ASSUME ComparisonAssumption == StaleAfter \in Nat

CounterModulus == 256

Lesser(a, b)  == IF a < b THEN a ELSE b
Greater(a, b) == IF a < b THEN b ELSE a

Compared(o, r) == 1 .. Lesser(Len(o), Len(r))

IdentifierOrderMatches(o, r) == \A i \in Compared(o, r) : o[i].id = r[i].id
PayloadsMatch(o, r) == \A i \in Compared(o, r) : o[i].data = r[i].data

\* The frames that match, of which exact_match_percent takes the share.
ExactMatches(o, r) ==
    {i \in Compared(o, r) : o[i].id = r[i].id /\ o[i].data = r[i].data}

Total(o, r) == Greater(Len(o), Len(r))

\* first_mismatch_index, 0 for None
FirstMismatch(o, r) ==
    LET differ == Compared(o, r) \ ExactMatches(o, r)
    IN  IF differ = {} THEN 0
        ELSE CHOOSE i \in differ : \A j \in differ : i <= j

\* SequenceCounter is the sixth byte; a shorter frame has none.
HasCounter(frame) == frame.id = DataId /\ Len(frame.data) >= 6
Counter(frame) == frame.data[6]

\* sequence_series
SequenceSeries(frames) ==
    LET series[n \in 0 .. Len(frames)] ==
            IF n = 0 THEN <<>>
            ELSE IF HasCounter(frames[n])
                 THEN Append(series[n - 1], <<frames[n].id, Counter(frames[n])>>)
                 ELSE series[n - 1]
    IN  series[Len(frames)]

-----------------------------------------------------------------------------
(* The kinds of the findings of a capture, in the order of their dates.     *)

DataBefore(frames, i) == {j \in 1 .. i - 1 : frames[j].id = DataId}
LastOf(S) == CHOOSE j \in S : \A k \in S : k <= j

\* The age of the data message at frame i, 0 if it was not seen before.
Age(frames, i) ==
    LET before == DataBefore(frames, i)
    IN  IF before = {} THEN 0 ELSE frames[i].at - frames[LastOf(before)].at

\* It is past the threshold at frame i, and was not so at an earlier one.
GoesStaleAt(frames, i) ==
    LET before == DataBefore(frames, i)
    IN  /\ Age(frames, i) > StaleAfter
        /\ \A k \in 1 .. i - 1 :
              k > LastOf(before) => Age(frames, k) <= StaleAfter

\* The message is back at frame i, after it went stale there or before: frames
\* need not be in the order of their times.
RecoversAt(frames, i) ==
    LET before == DataBefore(frames, i)
    IN  /\ frames[i].id = DataId
        /\ before # {}
        /\ \E k \in 1 .. i : k > LastOf(before) /\ Age(frames, k) > StaleAfter

\* A recovery forgets the counter.
GapAt(frames, i) ==
    LET counted == {j \in DataBefore(frames, i) :
                       /\ HasCounter(frames[j])
                       /\ \A k \in j + 1 .. i : ~RecoversAt(frames, k)}
        step == (Counter(frames[i]) - Counter(frames[LastOf(counted)]))
                    % CounterModulus
    IN  /\ HasCounter(frames[i])
        /\ counted # {}
        /\ step - 1 \in 1 .. MaxReportableGap

FirstUnknownAt(frames, i) ==
    /\ frames[i].id # DataId
    /\ \A j \in 1 .. i - 1 : frames[j].id # frames[i].id

If(condition, events) == IF condition THEN events ELSE <<>>

Event(kind, at) == [kind |-> kind, at |-> at]

\* What process_frame produces for frame i.  Silence is dated like staleness.
EventsAt(frames, i) ==
    LET now        == frames[i].at
        staleSince == frames[LastOf(DataBefore(frames, i))].at + StaleAfter
    IN  If(GoesStaleAt(frames, i), <<Event("data_message_stale", staleSince),
                                     Event("node_silent", staleSince)>>)
        \o If(FirstUnknownAt(frames, i), <<Event("unknown_message_id", now)>>)
        \o If(RecoversAt(frames, i), <<Event("message_recovered", now),
                                       Event("node_recovered", now)>>)
        \o If(GapAt(frames, i), <<Event("sequence_gap", now)>>)

\* _events
Produced(frames) ==
    LET upTo[n \in 0 .. Len(frames)] ==
            IF n = 0 THEN <<>> ELSE upTo[n - 1] \o EventsAt(frames, n)
    IN  upTo[Len(frames)]

\* The property events: sorted by timestamp, in the order they were produced
\* where that is the same.
InDateOrder(events) ==
    LET NoLater(j, k) == \/ events[j].at < events[k].at
                         \/ events[j].at = events[k].at /\ j <= k
        Place(k) == Cardinality({j \in DOMAIN events : NoLater(j, k)})
    IN  [p \in DOMAIN events |->
            events[CHOOSE k \in DOMAIN events : Place(k) = p]]

\* original_kinds, replayed_kinds
EventKinds(frames) ==
    LET events == InDateOrder(Produced(frames))
    IN  [p \in DOMAIN events |-> events[p].kind]

-----------------------------------------------------------------------------
\* Mutant: only the part that both captures have is compared.
PassedOnCommonPart(o, r) ==
    /\ IdentifierOrderMatches(o, r)
    /\ PayloadsMatch(o, r)
    /\ EventKinds(o) = EventKinds(r)

\* ReplayComparison.passed
Passed(o, r) ==
    /\ Len(o) = Len(r)
    /\ IdentifierOrderMatches(o, r)
    /\ PayloadsMatch(o, r)
    /\ SequenceSeries(o) = SequenceSeries(r)
    /\ EventKinds(o) = EventKinds(r)
=============================================================================
