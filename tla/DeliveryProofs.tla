---------------------------- MODULE DeliveryProofs ----------------------------
(****************************************************************************)
(* A check that passes is right, for every capture, speed, delay and bound, *)
(* in both of its forms.  Whatever the listener collected came from the     *)
(* replay or from somebody else, so if nobody else used the bus it cannot   *)
(* have collected more than was sent; a recording that succeeded is what    *)
(* was collected; and a comparison that passed is complete.                 *)
(****************************************************************************)
EXTENDS RoundTrip, RoundTripProofs, SequenceTheorems, FunctionTheorems

\* What the listener's socket holds.
Received ==
    [frame : CanFrame, error : {FALSE}] \cup [error : {TRUE}]

DeliveryTypeOK ==
    /\ mode \in {"script", "commands"}
    /\ speed \in Nat \ {0}
    /\ clock \in Nat
    /\ sent \in 0 .. Len(OriginalFrames)
    /\ player = "idle" => sent = 0
    /\ player = "sending" => sent < Len(OriginalFrames)
    /\ foreign \in Nat /\ losses \in Nat
    /\ collected \in Seq(CanFrame)
    /\ rx \in Seq(Received)

\* Without traffic of others, what is received was sent.
CountInv == foreign = 0 => Len(collected) + Len(rx) + losses <= sent

\* The exit code of the recording tells its state.
RecordInv ==
    /\ recordExit \in {None, 0, 1}
    /\ recordExit = 0 => listener = "done" /\ file = WriteLog(collected)
    /\ (mode = "commands" /\ listener \in {"done", "failed"}) =>
           recordExit # None

PassedInv ==
    (verdict = 0 /\ recordExit \in {None, 0}) =>
        Contents(collected) = Contents(OriginalFrames)

DeliveryInv == DeliveryTypeOK /\ CountInv /\ RecordInv /\ PassedInv

LEMMA StampedFrame ==
    ASSUME NEW frame \in CanFrame, clock \in Nat
    PROVE  /\ Stamped(frame) \in CanFrame
           /\ Stamped(frame).id = frame.id
           /\ Stamped(frame).data = frame.data
<1>1. frame \in [at       : Nat,
                 channel  : Channels \cup {NoChannel},
                 id       : 0 .. MaxExtendedId,
                 extended : BOOLEAN,
                 data     : Seq(Byte)]
  BY DEF CanFrame
<1>2. clock * Microsecond \in Nat /\ Channel \in Channels
  BY RoundTripAssumption DEF Microsecond
<1> DEFINE s == Stamped(frame)
<1>3. s = [frame EXCEPT !.at = clock * Microsecond, !.channel = Channel]
  BY DEF Stamped
<1>4. /\ s \in [at       : Nat,
                channel  : Channels \cup {NoChannel},
                id       : 0 .. MaxExtendedId,
                extended : BOOLEAN,
                data     : Seq(Byte)]
      /\ s.id = frame.id /\ s.data = frame.data
      /\ s.extended = frame.extended
  BY <1>1, <1>2, <1>3
<1>5. /\ ~frame.extended => frame.id <= MaxStandardId
      /\ Len(frame.data) <= MaxPayloadBytes
  BY DEF CanFrame
<1> HIDE DEF s
<1>6. s \in CanFrame
  BY <1>4, <1>5 DEF CanFrame
<1> QED
  BY <1>4, <1>6 DEF s

LEMMA ArriveTypeOK ==
    ASSUME rx \in Seq(Received), clock \in Nat, NEW frame \in CanFrame,
           Arrive(frame)
    PROVE  /\ rx' \in Seq(Received)
           /\ Len(rx') <= Len(rx) + 1
<1>1. [frame |-> Stamped(frame), error |-> FALSE] \in Received
  BY StampedFrame DEF Received
<1>2. \A m \in Received : /\ Append(rx, m) \in Seq(Received)
                          /\ Len(Append(rx, m)) = Len(rx) + 1
  OBVIOUS
<1>3. Len(rx) \in Nat
  OBVIOUS
<1>4. CASE listener = "open"
  BY <1>1, <1>2, <1>3, <1>4 DEF Arrive
<1>5. CASE listener # "open"
  BY <1>3, <1>5 DEF Arrive
<1> QED
  BY <1>4, <1>5

LEMMA InitDelivery == RoundTripInit => DeliveryInv
<1> SUFFICES ASSUME RoundTripInit PROVE DeliveryInv
  OBVIOUS
<1>1. OriginalFrames \in Seq(CanFrame) /\ Len(OriginalFrames) \in Nat \ {0}
  BY RoundTripAssumption
<1>2. DeliveryTypeOK
  BY <1>1, RoundTripAssumption DEF RoundTripInit, DeliveryTypeOK
<1>3. CountInv
  BY DEF RoundTripInit, CountInv
<1>4. RecordInv
  BY RoundTripAssumption DEF RoundTripInit, RecordInv
<1>5. PassedInv
  BY RoundTripAssumption DEF RoundTripInit, PassedInv
<1> QED
  BY <1>2, <1>3, <1>4, <1>5 DEF DeliveryInv
-----------------------------------------------------------------------------
(* The steps.  Those that neither send, collect nor conclude leave what     *)
(* DeliveryTypeOK, CountInv and PassedInv are about alone.                  *)

LEMMA StepTypeAndCount ==
    DeliveryTypeOK /\ CountInv /\ [RoundTripNext]_roundTripVars
        => DeliveryTypeOK' /\ CountInv'
<1> SUFFICES ASSUME DeliveryTypeOK, CountInv, [RoundTripNext]_roundTripVars
             PROVE  DeliveryTypeOK' /\ CountInv'
  OBVIOUS
<1> DEFINE kept == <<mode, speed, sent, foreign, losses, collected, rx>>
<1> USE DEF DeliveryTypeOK, CountInv
<1>0. OriginalFrames \in Seq(CanFrame) /\ Len(OriginalFrames) \in Nat \ {0}
  BY RoundTripAssumption
<1>1. /\ Len(collected) \in Nat /\ Len(rx) \in Nat
      /\ \A i \in 1 .. Len(OriginalFrames) : OriginalFrames[i] \in CanFrame
  BY <1>0
<1>2. ASSUME UNCHANGED kept, clock' \in Nat,
             \/ player' = player
             \/ player = "idle" /\ player' = "sending"
             \/ player' = "failed"
      PROVE  DeliveryTypeOK' /\ CountInv'
  BY <1>0, <1>2
<1>3. CASE Tick
  BY <1>2, <1>3 DEF Tick, playerVars, listenerVars, boundVars
<1>4. CASE StartReplay \/ ReplayCannotOpen \/ ReplayRefused \/ SendFails
  BY <1>2, <1>4
  DEF StartReplay, ReplayCannotOpen, ReplayRefused, NoReplay, SendFails,
      listenerVars, boundVars
<1>5. CASE SendFrame
  <2>1. /\ sent + 1 \in 1 .. Len(OriginalFrames)
        /\ OriginalFrames[sent + 1] \in CanFrame
    BY <1>0, <1>1, <1>5 DEF SendFrame
  <2>2. /\ sent' = sent + 1
        /\ player' = "sending" => sent + 1 # Len(OriginalFrames)
        /\ player' # "idle"
        /\ UNCHANGED <<mode, speed, clock, foreign, collected>>
    BY <1>5 DEF SendFrame
  <2>3. CASE Arrive(OriginalFrames[sent + 1]) /\ UNCHANGED losses
    <3>1. rx' \in Seq(Received) /\ Len(rx') <= Len(rx) + 1
      BY <2>1, <2>3, ArriveTypeOK
    <3>2. Len(rx') \in Nat
      BY <3>1
    <3> QED
      BY <1>0, <1>1, <2>1, <2>2, <2>3, <3>1, <3>2
  <2>4. CASE losses' = losses + 1 /\ UNCHANGED rx
    BY <1>0, <1>1, <2>1, <2>2, <2>4
  <2> QED
    BY <1>5, <2>3, <2>4 DEF SendFrame
<1>6. CASE ForeignTraffic
  <2>1. foreign' = foreign + 1
        /\ UNCHANGED <<mode, speed, clock, player, sent, collected, losses>>
    BY <1>6 DEF ForeignTraffic, playerVars
  <2>2. rx' \in Seq(Received)
    <3>1. ASSUME NEW frame \in Foreign, Arrive(frame)
          PROVE  rx' \in Seq(Received)
      BY <3>1, RoundTripAssumption, ArriveTypeOK
    <3>2. [error |-> TRUE] \in Received
      BY DEF Received
    <3>3. ASSUME rx' = Append(rx, [error |-> TRUE])
          PROVE  rx' \in Seq(Received)
      BY <3>2, <3>3
    <3> QED
      BY <1>6, <3>1, <3>3 DEF ForeignTraffic
  <2> QED
    BY <2>1, <2>2
<1>7. CASE Collect
  <2>1. /\ rx # <<>> /\ rx' = Tail(rx)
        /\ UNCHANGED <<mode, speed, clock, player, sent, foreign, losses>>
    BY <1>7 DEF Collect, playerVars, boundVars
  <2>2. /\ Head(rx) \in Received
        /\ Tail(rx) \in Seq(Received)
        /\ Len(Tail(rx)) = Len(rx) - 1
    BY <2>1
  <2>3. collected' \in Seq(CanFrame)
        /\ Len(collected') \in Nat /\ Len(collected') <= Len(collected) + 1
    <3>1. CASE Head(rx).error
      BY <1>1, <1>7, <3>1 DEF Collect
    <3>2. CASE ~Head(rx).error
      <4>1. Head(rx).frame \in CanFrame
        BY <2>2, <3>2 DEF Received
      <4>2. collected' = Append(collected, Head(rx).frame)
        BY <1>7, <3>2 DEF Collect
      <4> QED
        BY <1>1, <4>1, <4>2
    <3> QED
      BY <3>1, <3>2
  <2> QED
    BY <1>0, <1>1, <2>1, <2>2, <2>3
<1>8. CASE Listener
  BY <1>2, <1>8
  DEF Listener, OpenListener, ListenerCannotOpen, RecordRefused, NoListener,
      playerVars, boundVars
<1>9. CASE Script \/ VerifyReplay
  BY <1>2, <1>9
  DEF Script, ScriptCompares, ScriptFails, VerifyReplay, Conclude,
      playerVars, listenerVars, boundVars
<1>10. CASE Recorder
  BY <1>2, <1>10
  DEF Recorder, StopRecording, RecordingFails, OpenOutput, FinishOutput,
      WritingFails, playerVars, boundVars
<1>11. CASE UNCHANGED roundTripVars
  BY <1>2, <1>11 DEF roundTripVars, playerVars, listenerVars, boundVars
<1> QED
  BY <1>3, <1>4, <1>5, <1>6, <1>7, <1>8, <1>9, <1>10, <1>11
  DEF RoundTripNext, Player

LEMMA StepRecord ==
    RecordInv /\ [RoundTripNext]_roundTripVars => RecordInv'
<1> SUFFICES ASSUME RecordInv, [RoundTripNext]_roundTripVars
             PROVE  RecordInv'
  OBVIOUS
<1> USE RoundTripAssumption DEF RecordInv
<1>1. CASE Tick \/ Player \/ ForeignTraffic
  BY <1>1
  DEF Tick, Player, StartReplay, ReplayCannotOpen, ReplayRefused, NoReplay,
      SendFrame, SendFails, ForeignTraffic, listenerVars, outcomeVars
<1>2. CASE Listener
  BY <1>2
  DEF Listener, OpenListener, ListenerCannotOpen, RecordRefused, NoListener,
      outcomeVars
<1>3. CASE Collect
  BY <1>3 DEF Collect, outcomeVars
<1>4. CASE Script \/ VerifyReplay
  BY <1>4
  DEF Script, ScriptCompares, ScriptFails, VerifyReplay, Conclude, listenerVars
<1>5. CASE StopRecording \/ RecordingFails \/ OpenOutput
  BY <1>5 DEF StopRecording, RecordingFails, OpenOutput, outcomeVars
<1>6. CASE FinishOutput
  BY <1>6 DEF FinishOutput, ExitCode, Recording
<1>7. CASE WritingFails
  BY <1>7 DEF WritingFails
<1>8. CASE UNCHANGED roundTripVars
  BY <1>8 DEF roundTripVars, listenerVars, outcomeVars
<1> QED
  BY <1>1, <1>2, <1>3, <1>4, <1>5, <1>6, <1>7, <1>8
  DEF RoundTripNext, Recorder

-----------------------------------------------------------------------------
(* The verdict.                                                             *)

LEMMA SameContentsAre ==
    ASSUME NEW S, NEW o \in Seq(S), NEW r \in Seq(S), SameContents(o, r)
    PROVE  Contents(r) = Contents(o)
<1>1. DOMAIN o = 1 .. Len(o) /\ DOMAIN r = 1 .. Len(r)
  OBVIOUS
<1> QED
  BY <1>1 DEF SameContents, Contents

\* A frame of any kind, for the script forgets which are extended.
AnyFrame ==
    [at       : Nat,
     channel  : Channels \cup {NoChannel, Can0},
     id       : 0 .. MaxExtendedId,
     extended : BOOLEAN,
     data     : Seq(Byte)]

LEMMA CanFramesAre == CanFrame \subseteq AnyFrame
BY DEF CanFrame, AnyFrame

\* What the script compares, and what verify-replay reads, has the contents of
\* what was collected.
LEMMA RescaledIsCollected ==
    ASSUME DeliveryTypeOK
    PROVE  /\ Rescaled(collected) \in Seq(AnyFrame)
           /\ Contents(Rescaled(collected)) = Contents(collected)
<1> DEFINE n == Len(collected)
           frames == Rescaled(collected)
<1>1. n \in Nat /\ DOMAIN collected = 1 .. n
  BY DEF DeliveryTypeOK
<1>2. DOMAIN frames = 1 .. n /\ frames = [i \in 1 .. n |-> frames[i]]
  BY <1>1 DEF Rescaled
<1>3. ASSUME NEW i \in 1 .. n
      PROVE  /\ frames[i] \in AnyFrame
             /\ frames[i].id = collected[i].id
             /\ frames[i].data = collected[i].data
  <2>1. collected[i] \in AnyFrame
    <3>1. collected[i] \in CanFrame
      BY <1>1 DEF DeliveryTypeOK
    <3> QED
      BY <3>1, CanFramesAre
  <2>2. speed * collected[i].at \in Nat
    <3>1. speed \in Nat /\ collected[i].at \in Nat
      BY <2>1 DEF AnyFrame, DeliveryTypeOK
    <3> QED
      BY <3>1
  <2>3. frames[i] = [collected[i] EXCEPT !.at = speed * collected[i].at,
                                         !.extended = FALSE]
    BY <1>1 DEF Rescaled
  <2> QED
    BY <2>1, <2>2, <2>3 DEF AnyFrame
<1>4. frames \in Seq(AnyFrame)
  BY <1>1, <1>2, <1>3
<1>5. Contents(frames) = Contents(collected)
  BY <1>1, <1>2, <1>3 DEF Contents
<1> QED
  BY <1>4, <1>5

LEMMA RereadIsCollected ==
    ASSUME DeliveryTypeOK
    PROVE  /\ ReadLog(WriteLog(collected)) \in Seq(AnyFrame)
           /\ Contents(ReadLog(WriteLog(collected))) = Contents(collected)
<1> DEFINE n == Len(collected)
           frames == ReadLog(WriteLog(collected))
<1>1. /\ collected \in Seq(CanFrame)
      /\ n \in Nat /\ DOMAIN collected = 1 .. n
  BY DEF DeliveryTypeOK
<1>2. frames = [i \in 1 .. n |-> Reread(collected[i])]
  BY <1>1, CaptureIsReadBack
<1> HIDE DEF frames
<1>3. DOMAIN frames = 1 .. n /\ frames = [i \in 1 .. n |-> frames[i]]
  BY <1>2
<1>4. ASSUME NEW i \in 1 .. n
      PROVE  /\ frames[i] \in AnyFrame
             /\ frames[i].id = collected[i].id
             /\ frames[i].data = collected[i].data
  <2>1. collected[i] \in AnyFrame
    <3>1. collected[i] \in CanFrame
      BY <1>1
    <3> QED
      BY <3>1, CanFramesAre
  <2>2. Rounded(collected[i].at) \in Nat
    <3>1. collected[i].at \in Nat
      BY <2>1 DEF AnyFrame
    <3> QED
      BY <3>1, RoundingIsSmall
  <2>3. frames[i] = Reread(collected[i])
    BY <1>2
  <2> QED
    BY <2>1, <2>2, <2>3 DEF AnyFrame, Reread
<1>5. frames \in Seq(AnyFrame)
  BY <1>1, <1>3, <1>4
<1>6. Contents(frames) = Contents(collected)
  BY <1>1, <1>3, <1>4 DEF Contents
<1> QED
  BY <1>5, <1>6 DEF frames

LEMMA PassedMeansSame ==
    ASSUME NEW frames \in Seq(AnyFrame), Passed(OriginalFrames, frames)
    PROVE  Contents(frames) = Contents(OriginalFrames)
<1>1. OriginalFrames \in Seq(AnyFrame)
  <2>1. OriginalFrames \in Seq(CanFrame)
    BY RoundTripAssumption
  <2> QED
    BY <2>1, CanFramesAre
<1>2. SameContents(OriginalFrames, frames)
  BY <1>1, PassedIsComplete
<1> QED
  BY <1>1, <1>2, SameContentsAre

LEMMA StepPassed ==
    DeliveryInv /\ [RoundTripNext]_roundTripVars => PassedInv'
<1> SUFFICES ASSUME DeliveryInv, [RoundTripNext]_roundTripVars
             PROVE  PassedInv'
  OBVIOUS
<1>0. DeliveryTypeOK /\ RecordInv /\ PassedInv
  BY DEF DeliveryInv
<1>1. ASSUME verdict = None, verdict' = verdict
      PROVE  PassedInv'
  BY <1>1, RoundTripAssumption DEF PassedInv
<1>2. CASE Tick \/ Player \/ ForeignTraffic \/ Listener \/ Collect \/ Recorder
  <2>1. verdict' = verdict
    BY <1>2
    DEF Tick, Player, StartReplay, ReplayCannotOpen, ReplayRefused, NoReplay,
        SendFrame, SendFails, ForeignTraffic, Listener, OpenListener,
        ListenerCannotOpen, RecordRefused, NoListener, Collect, Recorder,
        StopRecording, RecordingFails, OpenOutput, FinishOutput, WritingFails,
        outcomeVars
  <2>2. CASE verdict = None
    BY <1>1, <2>1, <2>2
  <2>3. CASE UNCHANGED roundTripVars
    BY <1>0, <2>3 DEF PassedInv, roundTripVars, listenerVars, outcomeVars
  <2> QED
    BY <2>2, <2>3 DEF RoundTripNext
<1>3. CASE ScriptFails
  BY <1>3 DEF ScriptFails, Conclude, PassedInv
<1>4. CASE ScriptCompares
  <2>1. UNCHANGED collected
        /\ verdict' = ExitCode(Passed(OriginalFrames, Rescaled(collected)))
    BY <1>4 DEF ScriptCompares, Conclude, listenerVars
  <2>2. CASE Passed(OriginalFrames, Rescaled(collected))
    BY <1>0, <2>1, <2>2, RescaledIsCollected, PassedMeansSame DEF PassedInv
  <2>3. CASE ~Passed(OriginalFrames, Rescaled(collected))
    BY <2>1, <2>3 DEF ExitCode, PassedInv
  <2> QED
    BY <2>2, <2>3
<1>5. CASE VerifyReplay
  <2>1. UNCHANGED <<collected, recordExit>>
    BY <1>5 DEF VerifyReplay, Conclude, listenerVars
  <2>2. CASE recordExit # 0
    BY <1>0, <1>5, <2>1, <2>2 DEF VerifyReplay, PassedInv, RecordInv
  <2>3. CASE recordExit = 0
    <3>1. file = WriteLog(collected)
      BY <1>0, <2>3 DEF RecordInv
    <3> DEFINE frames == ReadLog(WriteLog(collected))
    <3>2. CASE Passed(OriginalFrames, frames)
      BY <1>0, <2>1, <3>2, RereadIsCollected, PassedMeansSame DEF PassedInv
    <3>3. CASE ~Passed(OriginalFrames, frames)
      <4>1. file # None => verdict' = 1
        BY <1>5, <3>1, <3>3 DEF VerifyReplay, Conclude, ExitCode
      <4> QED
        BY <1>5, <3>1, <3>3, <4>1 DEF VerifyReplay, Conclude, ExitCode, PassedInv
    <3> QED
      BY <3>2, <3>3
  <2> QED
    BY <2>2, <2>3
<1>6. CASE UNCHANGED roundTripVars
  BY <1>0, <1>6 DEF PassedInv, roundTripVars, listenerVars, outcomeVars
<1> QED
  BY <1>2, <1>3, <1>4, <1>5, <1>6 DEF RoundTripNext, Script

LEMMA DeliveryImplies == DeliveryInv => PassedMeansDelivered
<1> SUFFICES ASSUME DeliveryInv, verdict = 0, recordExit \in {None, 0}
             PROVE  /\ Contents(collected) = Contents(OriginalFrames)
                    /\ foreign = 0 => sent = Len(OriginalFrames) /\ losses = 0
  BY DEF PassedMeansDelivered
<1>1. Contents(collected) = Contents(OriginalFrames)
  BY DEF DeliveryInv, PassedInv
<1>2. /\ collected \in Seq(CanFrame) /\ OriginalFrames \in Seq(CanFrame)
      /\ Len(rx) \in Nat /\ losses \in Nat
      /\ sent \in 0 .. Len(OriginalFrames)
  BY RoundTripAssumption DEF DeliveryInv, DeliveryTypeOK
<1>3. Len(collected) = Len(OriginalFrames)
  <2>1. DOMAIN Contents(collected) = 1 .. Len(collected)
        /\ DOMAIN Contents(OriginalFrames) = 1 .. Len(OriginalFrames)
    BY <1>2 DEF Contents
  <2>2. 1 .. Len(collected) = 1 .. Len(OriginalFrames)
    BY <1>1, <2>1
  <2> QED
    BY <1>2, <2>2
<1>4. foreign = 0 => Len(collected) + Len(rx) + losses <= sent
  BY DEF DeliveryInv, CountInv
<1> QED
  BY <1>1, <1>2, <1>3, <1>4

\* A check that passes is right: everything was sent, everything was received,
\* unchanged and in order, and nothing was lost, for every capture and speed.
THEOREM PassedIsDelivered == RoundTripSpec => []PassedMeansDelivered
<1>1. DeliveryInv /\ [RoundTripNext]_roundTripVars => DeliveryInv'
  BY StepTypeAndCount, StepRecord, StepPassed DEF DeliveryInv
<1> QED
  BY <1>1, InitDelivery, DeliveryImplies, PTL DEF RoundTripSpec

-----------------------------------------------------------------------------
(* The recording.  A message in the listener's socket is known by how many  *)
(* application frames are before it: those that were collected, and those   *)
(* at or before its place in the socket.                                    *)

Held(q) == {i \in 1 .. Len(q) : ~q[i].error}
UpTo(q, n) == Cardinality({i \in Held(q) : i <= n})

\* The frames that reached the listener are those collected and, in order,
\* those that its socket still holds; each is written as it is.
QueueInv ==
    /\ carried \in Seq(CanFrame)
    /\ \A i \in 1 .. Len(carried) : Reread(carried[i]) = carried[i]
    /\ Len(carried) = Len(collected) + UpTo(rx, Len(rx))
    /\ \A i \in 1 .. Len(collected) : collected[i] = carried[i]
    /\ \A i \in Held(rx) : rx[i].frame = carried[Len(collected) + UpTo(rx, i)]

LEMMA HeldIsFinite ==
    ASSUME NEW q \in Seq(Received), NEW n \in Nat
    PROVE  /\ IsFiniteSet({i \in Held(q) : i <= n})
           /\ UpTo(q, n) \in Nat
<1>1. IsFiniteSet(1 .. Len(q))
  BY FS_Interval
<1>2. {i \in Held(q) : i <= n} \in SUBSET (1 .. Len(q))
  BY DEF Held
<1>3. IsFiniteSet({i \in Held(q) : i <= n})
  BY <1>1, <1>2, FS_Subset
<1> QED
  BY <1>3, FS_CardinalityType DEF UpTo

\* A message that arrives comes after those that are held.
LEMMA UpToOfMore ==
    ASSUME NEW q \in Seq(Received), NEW m \in Received
    PROVE  LET more == Append(q, m)
           IN  /\ \A n \in 0 .. Len(q) : UpTo(more, n) = UpTo(q, n)
               /\ UpTo(more, Len(more)) =
                      UpTo(q, Len(q)) + IF m.error THEN 0 ELSE 1
               /\ Held(more) = Held(q) \cup (IF m.error THEN {} ELSE {Len(more)})
<1> DEFINE more == Append(q, m)
           N == Len(q)
<1>1. /\ N \in Nat /\ Len(more) = N + 1 /\ more[N + 1] = m
      /\ \A i \in 1 .. N : more[i] = q[i]
  OBVIOUS
<1> HIDE DEF more
<1>2. Held(more) = Held(q) \cup (IF m.error THEN {} ELSE {N + 1})
  BY <1>1 DEF Held
<1>3. ASSUME NEW n \in 0 .. N
      PROVE  UpTo(more, n) = UpTo(q, n)
  <2>1. {i \in Held(more) : i <= n} = {i \in Held(q) : i <= n}
    BY <1>1, <1>2
  <2> QED
    BY <2>1 DEF UpTo
<1>4. {i \in Held(q) : i <= N} = Held(q) /\ N + 1 \notin Held(q)
  BY <1>1 DEF Held
<1>5. {i \in Held(more) : i <= N + 1} = Held(more)
  BY <1>1 DEF Held
<1>6. IsFiniteSet(Held(q)) /\ UpTo(q, N) = Cardinality(Held(q))
      /\ Cardinality(Held(q)) \in Nat
  BY <1>1, <1>4, HeldIsFinite DEF UpTo
<1>7. UpTo(more, N + 1) = UpTo(q, N) + IF m.error THEN 0 ELSE 1
  <2>1. CASE m.error
    <3>1. Held(more) = Held(q)
      BY <1>2, <2>1
    <3>2. UpTo(more, N + 1) = Cardinality(Held(q))
      BY <1>5, <3>1 DEF UpTo
    <3> QED
      BY <1>6, <2>1, <3>2
  <2>2. CASE ~m.error
    <3>1. Held(more) = Held(q) \cup {N + 1}
      BY <1>2, <2>2
    <3>2. Cardinality(Held(more)) = Cardinality(Held(q)) + 1
      BY <1>4, <1>6, <3>1, FS_AddElement
    <3>3. UpTo(more, N + 1) = Cardinality(Held(more))
      BY <1>5 DEF UpTo
    <3> QED
      BY <1>6, <2>2, <3>2, <3>3
  <2> QED
    BY <2>1, <2>2
<1> QED
  BY <1>1, <1>2, <1>3, <1>7 DEF more

\* When the first is taken the others move up.
LEMMA UpToOfTail ==
    ASSUME NEW q \in Seq(Received), q # <<>>
    PROVE  LET rest == Tail(q)
               one  == IF Head(q).error THEN 0 ELSE 1
           IN  /\ \A n \in 0 .. Len(rest) : UpTo(rest, n) = UpTo(q, n + 1) - one
               /\ \A i \in Held(rest) : i + 1 \in Held(q) /\ rest[i] = q[i + 1]
<1> DEFINE rest == Tail(q)
           one  == IF Head(q).error THEN 0 ELSE 1
           N == Len(rest)
<1>1. /\ N \in Nat /\ Len(q) = N + 1 /\ q[1] = Head(q)
      /\ rest \in Seq(Received)
      /\ \A i \in 1 .. N : rest[i] = q[i + 1]
  OBVIOUS
<1> HIDE DEF rest
<1>2. \A i \in 1 .. N : i \in Held(rest) <=> i + 1 \in Held(q)
  BY <1>1 DEF Held
<1>3. 1 \in Held(q) <=> ~Head(q).error
  BY <1>1 DEF Held
<1>4. ASSUME NEW n \in 0 .. N
      PROVE  UpTo(rest, n) = UpTo(q, n + 1) - one
  <2> DEFINE S == {i \in Held(rest) : i <= n}
             T == {i \in Held(q) : i <= n + 1}
             U == T \ {1}
             f == [i \in S |-> i + 1]
  <2>1. n \in Nat /\ n + 1 \in Nat
    BY <1>1
  <2>2. IsFiniteSet(S) /\ IsFiniteSet(T)
        /\ Cardinality(S) \in Nat /\ Cardinality(T) \in Nat
    BY <1>1, <2>1, HeldIsFinite, FS_CardinalityType
  <2>3. S \subseteq 1 .. n /\ T \subseteq 1 .. n + 1
    BY <1>1, <2>1 DEF Held
  <2>4. \A i \in S : i + 1 \in U
    BY <1>1, <1>2, <2>1, <2>3
  <2>5. \A j \in U : j - 1 \in S /\ (j - 1) + 1 = j
    <3> SUFFICES ASSUME NEW j \in U PROVE j - 1 \in S /\ (j - 1) + 1 = j
      OBVIOUS
    <3>1. j \in 2 .. n + 1
      BY <2>1, <2>3
    <3>2. j - 1 \in 1 .. n /\ (j - 1) + 1 = j /\ j - 1 \in 1 .. N
      BY <1>1, <2>1, <3>1
    <3> QED
      BY <1>2, <3>2
  <2>6. f \in Bijection(S, U)
    <3>1. f \in [S -> U]
      BY <2>4
    <3>2. \A i, j \in S : f[i] = f[j] => i = j
      BY <2>1, <2>3
    <3>3. \A j \in U : \E i \in S : f[i] = j
      BY <2>5
    <3> QED
      BY <3>1, <3>2, <3>3, Fun_IsBij
  <2>7. Cardinality(U) = Cardinality(S)
    <3> HIDE DEF S, U, f
    <3>1. ExistsBijection(S, U)
      BY <2>6 DEF ExistsBijection
    <3> QED
      BY <2>2, <3>1, FS_Bijection
  <2>8. Cardinality(U) = Cardinality(T) - one
    <3>1. 1 \in T <=> one = 1
      BY <1>3, <2>1
    <3> HIDE DEF T, one
    <3>2. one \in {0, 1}
      BY DEF one
    <3>3. Cardinality(T \ {1}) =
              IF 1 \in T THEN Cardinality(T) - 1 ELSE Cardinality(T)
      BY <2>2, FS_RemoveElement
    <3> QED
      BY <2>2, <3>1, <3>2, <3>3
  <2> QED
    BY <2>7, <2>8 DEF UpTo
<1>5. ASSUME NEW i \in Held(rest)
      PROVE  i + 1 \in Held(q) /\ rest[i] = q[i + 1]
  <2>1. i \in 1 .. N
    BY DEF Held
  <2> QED
    BY <1>1, <1>2, <2>1
<1> QED
  BY <1>4, <1>5 DEF rest

LEMMA QueueGrows ==
    ASSUME DeliveryTypeOK, QueueInv, NEW m \in Received,
           rx' = Append(rx, m), collected' = collected,
           carried' = IF m.error THEN carried ELSE Append(carried, m.frame),
           ~m.error => Reread(m.frame) = m.frame
    PROVE  QueueInv'
<1> DEFINE c == Len(collected)
           N == Len(rx)
           one == IF m.error THEN 0 ELSE 1
<1>1. /\ rx \in Seq(Received) /\ N \in Nat /\ c \in Nat
      /\ carried \in Seq(CanFrame) /\ Len(carried) \in Nat
      /\ Len(rx') = N + 1 /\ rx'[N + 1] = m
      /\ \A i \in 1 .. N : rx'[i] = rx[i]
  BY DEF DeliveryTypeOK, QueueInv
<1>2. /\ \A n \in 0 .. N : UpTo(rx', n) = UpTo(rx, n)
      /\ UpTo(rx', N + 1) = UpTo(rx, N) + one
      /\ Held(rx') = Held(rx) \cup (IF m.error THEN {} ELSE {N + 1})
  BY <1>1, UpToOfMore
<1>3. \A n \in Nat : UpTo(rx, n) \in Nat
  BY <1>1, HeldIsFinite
<1>4. /\ carried' \in Seq(CanFrame)
      /\ Len(carried') = Len(carried) + one
      /\ \A i \in 1 .. Len(carried) : carried'[i] = carried[i]
      /\ ~m.error => carried'[Len(carried) + 1] = m.frame
  <2>1. CASE m.error
    BY <1>1, <2>1
  <2>2. CASE ~m.error
    <3>1. m.frame \in CanFrame
      BY <2>2 DEF Received
    <3> QED
      BY <1>1, <2>2, <3>1
  <2> QED
    BY <2>1, <2>2
<1>5. Len(carried') = c + UpTo(rx', N + 1) /\ c <= Len(carried)
  <2>1. Len(carried) = c + UpTo(rx, N) /\ UpTo(rx, N) \in Nat
    BY <1>1, <1>3 DEF QueueInv
  <2>2. Len(carried') = Len(carried) + one /\ UpTo(rx', N + 1) = UpTo(rx, N) + one
    BY <1>2, <1>4
  <2>3. one \in Nat
    OBVIOUS
  <2> HIDE DEF c, N, one
  <2> QED
    BY <1>1, <2>1, <2>2, <2>3
<1>6. \A i \in 1 .. Len(carried') : Reread(carried'[i]) = carried'[i]
  <2> SUFFICES ASSUME NEW i \in 1 .. Len(carried')
               PROVE  Reread(carried'[i]) = carried'[i]
    OBVIOUS
  <2>1. CASE i \in 1 .. Len(carried)
    BY <1>4, <2>1 DEF QueueInv
  <2>2. CASE i \notin 1 .. Len(carried)
    BY <1>1, <1>4, <2>2
  <2> QED
    BY <2>1, <2>2
<1>7. \A i \in 1 .. c : collected[i] = carried'[i]
  BY <1>1, <1>4, <1>5 DEF QueueInv
<1>8. ASSUME NEW i \in Held(rx')
      PROVE  rx'[i].frame = carried'[c + UpTo(rx', i)]
  <2>1. CASE i \in Held(rx)
    <3>1. i \in 1 .. N
      BY <2>1 DEF Held
    <3>2. UpTo(rx, i) <= UpTo(rx, N) /\ UpTo(rx, i) # 0
      <4> DEFINE S == {j \in Held(rx) : j <= i}
                 T == {j \in Held(rx) : j <= N}
      <4>1. S \subseteq T /\ i \in S
        BY <1>1, <2>1, <3>1 DEF Held
      <4>2. IsFiniteSet(S) /\ IsFiniteSet(T)
        BY <1>1, <3>1, HeldIsFinite
      <4> HIDE DEF S, T
      <4>3. Cardinality(S) <= Cardinality(T) /\ Cardinality(S) # 0
        BY <4>1, <4>2, FS_Subset, FS_EmptySet
      <4> QED
        BY <4>3 DEF S, T, UpTo
    <3>3. c + UpTo(rx, i) \in 1 .. Len(carried)
      <4>1. UpTo(rx, i) \in Nat /\ UpTo(rx, N) \in Nat
        BY <1>1, <1>3, <3>1
      <4>2. Len(carried) = c + UpTo(rx, N)
        BY DEF QueueInv
      <4> HIDE DEF c, N
      <4> QED
        BY <1>1, <3>2, <4>1, <4>2
    <3>4. rx[i].frame = carried[c + UpTo(rx, i)]
      BY <2>1 DEF QueueInv
    <3> QED
      BY <1>1, <1>2, <1>4, <3>1, <3>3, <3>4
  <2>2. CASE i \notin Held(rx)
    <3>1. ~m.error /\ i = N + 1
      BY <1>2, <2>2
    <3>2. c + UpTo(rx', N + 1) = Len(carried) + 1
      BY <1>1, <1>4, <1>5, <3>1
    <3> QED
      BY <1>1, <1>4, <3>1, <3>2
  <2> QED
    BY <2>1, <2>2
<1>9. Len(collected') = c /\ collected' = collected
  OBVIOUS
<1>10. Len(carried') = Len(collected') + UpTo(rx', Len(rx'))
  BY <1>1, <1>5, <1>9
<1>11. \A i \in 1 .. Len(collected') : collected'[i] = carried'[i]
  BY <1>7, <1>9
<1>12. \A i \in Held(rx') :
           rx'[i].frame = carried'[Len(collected') + UpTo(rx', i)]
  BY <1>8, <1>9
<1> HIDE DEF c, N, one
<1> QED
  BY <1>4, <1>6, <1>10, <1>11, <1>12 DEF QueueInv

\* What a frame is stamped with is written and read back as it is.
LEMMA StampedIsReread ==
    ASSUME NEW frame \in CanFrame, clock \in Nat
    PROVE  Reread(Stamped(frame)) = Stamped(frame)
<1>1. Stamped(frame) \in CanFrame
  BY StampedFrame
<1>2. Stamped(frame).at = 1000 * clock /\ Stamped(frame).channel = Channel
  BY DEF Stamped, CanFrame, Microsecond
<1>3. Rounded(1000 * clock) = 1000 * clock
  BY WholeMicroseconds
<1> QED
  BY <1>1, <1>2, <1>3, RoundTripAssumption DEF Reread, CanFrame

LEMMA QueueAfterArrival ==
    ASSUME DeliveryTypeOK, QueueInv, NEW frame \in CanFrame, Arrive(frame),
           UNCHANGED collected
    PROVE  QueueInv'
<1>1. CASE listener # "open"
  BY <1>1 DEF Arrive, QueueInv
<1>2. CASE listener = "open"
  <2> DEFINE m == [frame |-> Stamped(frame), error |-> FALSE]
  <2>1. m \in Received
    BY StampedFrame DEF Received, DeliveryTypeOK
  <2>2. Reread(m.frame) = m.frame
    BY StampedIsReread DEF DeliveryTypeOK
  <2>3. rx' = Append(rx, m) /\ carried' = Append(carried, m.frame)
    BY <1>2 DEF Arrive
  <2>4. ~m.error
    OBVIOUS
  <2> HIDE DEF m
  <2> QED
    BY <2>1, <2>2, <2>3, <2>4, QueueGrows
<1> QED
  BY <1>1, <1>2

LEMMA QueueAfterCollect ==
    ASSUME DeliveryTypeOK, QueueInv, Collect
    PROVE  QueueInv'
<1> DEFINE c == Len(collected)
           N == Len(rx')
           one == IF Head(rx).error THEN 0 ELSE 1
<1>1. /\ rx \in Seq(Received) /\ rx # <<>> /\ rx' = Tail(rx)
      /\ carried' = carried
      /\ collected \in Seq(CanFrame) /\ c \in Nat
      /\ Head(rx) \in Received
  BY DEF Collect, DeliveryTypeOK
<1>2. /\ N \in Nat /\ Len(rx) = N + 1 /\ rx[1] = Head(rx)
      /\ rx' \in Seq(Received)
  BY <1>1
<1>3. /\ \A n \in 0 .. N : UpTo(rx', n) = UpTo(rx, n + 1) - one
      /\ \A i \in Held(rx') : i + 1 \in Held(rx) /\ rx'[i] = rx[i + 1]
  BY <1>1, UpToOfTail
<1>4. \A n \in Nat : UpTo(rx, n) \in Nat /\ UpTo(rx', n) \in Nat
  BY <1>1, <1>2, HeldIsFinite
<1>5. /\ Len(collected') = c + one
      /\ \A i \in 1 .. c : collected'[i] = collected[i]
      /\ one = 1 => collected'[c + 1] = Head(rx).frame
  <2>1. CASE Head(rx).error
    BY <1>1, <2>1 DEF Collect
  <2>2. CASE ~Head(rx).error
    BY <1>1, <2>2 DEF Collect
  <2> QED
    BY <2>1, <2>2
<1>6. Len(carried) = Len(collected') + UpTo(rx', N)
  <2>1. Len(carried) = c + UpTo(rx, N + 1)
    BY <1>2 DEF QueueInv
  <2>2. UpTo(rx', N) = UpTo(rx, N + 1) - one
    BY <1>2, <1>3
  <2>3. UpTo(rx, N + 1) \in Nat /\ one \in Nat
    BY <1>2, <1>4
  <2> HIDE DEF c, N, one
  <2> QED
    BY <1>1, <1>5, <2>1, <2>2, <2>3
<1>7. \A i \in 1 .. Len(collected') : collected'[i] = carried[i]
  <2>1. CASE Head(rx).error
    BY <1>1, <1>5, <2>1 DEF QueueInv
  <2>2. CASE ~Head(rx).error
    <3>1. 1 \in Held(rx)
      BY <1>2, <2>2 DEF Held
    <3>2. UpTo(rx, 1) = 1
      <4>1. {i \in Held(rx) : i <= 1} = {1}
        BY <1>2, <3>1 DEF Held
      <4> QED
        BY <4>1, FS_Singleton DEF UpTo
    <3>3. Head(rx).frame = carried[c + 1]
      BY <1>2, <3>1, <3>2 DEF QueueInv
    <3>4. Len(collected') = c + 1 /\ collected'[c + 1] = carried[c + 1]
      BY <1>1, <1>5, <2>2, <3>3
    <3>5. \A i \in 1 .. c : collected'[i] = carried[i]
      BY <1>1, <1>5 DEF QueueInv
    <3> HIDE DEF c
    <3> QED
      BY <1>1, <3>4, <3>5
  <2> QED
    BY <2>1, <2>2
<1>8. ASSUME NEW i \in Held(rx')
      PROVE  rx'[i].frame = carried[Len(collected') + UpTo(rx', i)]
  <2>1. i \in 1 .. N
    BY DEF Held
  <2>2. i + 1 \in Held(rx) /\ rx'[i] = rx[i + 1]
        /\ UpTo(rx', i) = UpTo(rx, i + 1) - one
    BY <1>2, <1>3, <2>1
  <2>3. rx[i + 1].frame = carried[c + UpTo(rx, i + 1)]
    BY <2>2 DEF QueueInv
  <2>4. Len(collected') + UpTo(rx', i) = c + UpTo(rx, i + 1)
    <3>1. i + 1 \in Nat
      BY <1>2, <2>1
    <3>2. UpTo(rx, i + 1) \in Nat /\ one \in Nat
      BY <1>4, <3>1
    <3> HIDE DEF c, one
    <3> QED
      BY <1>1, <1>5, <2>2, <3>2
  <2> QED
    BY <2>2, <2>3, <2>4
<1> QED
  BY <1>1, <1>2, <1>6, <1>7, <1>8 DEF QueueInv

LEMMA QueueInit == RoundTripInit => QueueInv
<1> SUFFICES ASSUME RoundTripInit PROVE QueueInv
  OBVIOUS
<1>1. rx = <<>> /\ carried = <<>> /\ collected = <<>>
  BY DEF RoundTripInit
<1>2. Held(rx) = {}
  BY <1>1 DEF Held
<1>3. UpTo(rx, Len(rx)) = 0
  BY <1>2, FS_EmptySet DEF UpTo
<1> QED
  BY <1>1, <1>2, <1>3 DEF QueueInv

LEMMA StepQueue ==
    DeliveryTypeOK /\ QueueInv /\ [RoundTripNext]_roundTripVars => QueueInv'
<1> SUFFICES ASSUME DeliveryTypeOK, QueueInv, [RoundTripNext]_roundTripVars
             PROVE  QueueInv'
  OBVIOUS
<1>1. ASSUME UNCHANGED <<rx, collected, carried>> PROVE QueueInv'
  BY <1>1 DEF QueueInv
<1>2. CASE SendFrame
  <2>1. OriginalFrames[sent + 1] \in CanFrame
    BY <1>2, RoundTripAssumption DEF SendFrame, DeliveryTypeOK
  <2>2. UNCHANGED collected
    BY <1>2 DEF SendFrame
  <2>3. CASE Arrive(OriginalFrames[sent + 1])
    BY <2>1, <2>2, <2>3, QueueAfterArrival
  <2>4. CASE UNCHANGED <<rx, carried>>
    BY <1>1, <2>2, <2>4
  <2> QED
    BY <1>2, <2>3, <2>4 DEF SendFrame
<1>3. CASE ForeignTraffic
  <2>1. UNCHANGED collected
    BY <1>3 DEF ForeignTraffic
  <2>2. ASSUME NEW frame \in Foreign, Arrive(frame) PROVE QueueInv'
    BY <2>1, <2>2, RoundTripAssumption, QueueAfterArrival
  <2>3. CASE rx' = Append(rx, [error |-> TRUE]) /\ UNCHANGED carried
    <3> DEFINE m == [error |-> TRUE]
    <3>1. m \in Received /\ m.error
      BY DEF Received
    <3> HIDE DEF m
    <3>2. rx' = Append(rx, m)
      BY <2>3 DEF m
    <3> QED
      BY <2>1, <2>3, <3>1, <3>2, QueueGrows
  <2> QED
    BY <1>3, <2>2, <2>3 DEF ForeignTraffic
<1>4. CASE Collect
  BY <1>4, QueueAfterCollect
<1>5. CASE Tick \/ StartReplay \/ ReplayCannotOpen \/ ReplayRefused \/ SendFails
  BY <1>1, <1>5
  DEF Tick, StartReplay, ReplayCannotOpen, ReplayRefused, NoReplay, SendFails,
      listenerVars
<1>6. CASE Listener
  BY <1>1, <1>6
  DEF Listener, OpenListener, ListenerCannotOpen, RecordRefused, NoListener
<1>7. CASE Script \/ VerifyReplay
  BY <1>1, <1>7
  DEF Script, ScriptCompares, ScriptFails, VerifyReplay, Conclude, listenerVars
<1>8. CASE Recorder
  BY <1>1, <1>8
  DEF Recorder, StopRecording, RecordingFails, OpenOutput, FinishOutput,
      WritingFails
<1>9. CASE UNCHANGED roundTripVars
  BY <1>1, <1>9 DEF roundTripVars, listenerVars
<1> QED
  BY <1>2, <1>3, <1>4, <1>5, <1>6, <1>7, <1>8, <1>9 DEF RoundTripNext, Player

LEMMA QueueImplies ==
    DeliveryTypeOK /\ RecordInv /\ QueueInv => RecordingComplete
<1> SUFFICES ASSUME DeliveryTypeOK, RecordInv, QueueInv, recordExit = 0
             PROVE  ReadLog(file) =
                        SubSeq(carried, 1, Len(carried)
                            - Cardinality({i \in DOMAIN rx : ~rx[i].error}))
  BY DEF RecordingComplete
<1> DEFINE c == Len(collected)
<1>1. /\ collected \in Seq(CanFrame) /\ rx \in Seq(Received)
      /\ carried \in Seq(CanFrame) /\ c \in Nat /\ Len(rx) \in Nat
      /\ Len(carried) \in Nat
  BY DEF DeliveryTypeOK, QueueInv
<1>2. Cardinality({i \in DOMAIN rx : ~rx[i].error}) = UpTo(rx, Len(rx))
  <2>1. {i \in DOMAIN rx : ~rx[i].error} = {i \in Held(rx) : i <= Len(rx)}
    BY <1>1 DEF Held
  <2> QED
    BY <2>1 DEF UpTo
<1>3. UpTo(rx, Len(rx)) \in Nat /\ Len(carried) = c + UpTo(rx, Len(rx))
  BY <1>1, HeldIsFinite DEF QueueInv
<1>4. Len(carried) - UpTo(rx, Len(rx)) = c /\ c <= Len(carried)
  BY <1>1, <1>3
<1>5. ReadLog(file) = [i \in 1 .. c |-> Reread(collected[i])]
  BY <1>1, CaptureIsReadBack DEF RecordInv
<1>6. \A i \in 1 .. c : Reread(collected[i]) = carried[i]
  BY <1>1, <1>4 DEF QueueInv
<1>7. SubSeq(carried, 1, c) = [i \in 1 .. c |-> carried[i]]
  BY <1>1, <1>4
<1> QED
  BY <1>2, <1>4, <1>5, <1>6, <1>7

\* A recording that succeeded holds every application frame that reached the
\* listener and was received, in order and unchanged: recorder.py:48-100 and
\* logfile.py:63-99.
THEOREM RecordingsAreComplete == RoundTripSpec => []RecordingComplete
<1>1. DeliveryInv /\ [RoundTripNext]_roundTripVars => DeliveryInv'
  BY StepTypeAndCount, StepRecord, StepPassed DEF DeliveryInv
<1>2. DeliveryInv /\ QueueInv /\ [RoundTripNext]_roundTripVars => QueueInv'
  BY StepQueue DEF DeliveryInv
<1>3. DeliveryInv /\ QueueInv => RecordingComplete
  BY QueueImplies DEF DeliveryInv
<1> QED
  BY <1>1, <1>2, <1>3, InitDelivery, QueueInit, PTL DEF RoundTripSpec

-----------------------------------------------------------------------------
(* That the delays of a replay do not add up, for every ordered capture,    *)
(* every speed and any delay of a single frame.  The argument is that the   *)
(* replay never falls more than one delay behind the frame it is to send    *)
(* next: sending a frame late makes the next one due sooner, not later.     *)

\* The frames of the capture are in the order of their times.
Ordered == InOrder(OriginalFrames)

Offset(i) == OriginalFrames[i].at - OriginalFrames[1].at

InTime(time, i) ==
    speed * (time - Microsecond * started) - Offset(i)
        \in 0 .. speed * Microsecond * MaxDelay

\* The next frame is not yet more than one delay late.
LateInv == player = "sending" => Reached(clock - MaxDelay) <= Target

\* Nobody receives more than was sent, and whoever received all that was sent
\* received it in time; the script's listener does, once it is open.
PaceInv ==
    /\ started \in Nat
    /\ carried \in Seq(CanFrame)
    /\ LateInv
    /\ player = "failed" => sent < Len(OriginalFrames)
    /\ foreign = 0 =>
           /\ Len(carried) <= sent
           /\ Len(carried) = sent =>
                  \A i \in 1 .. Len(carried) : InTime(carried[i].at, i)
    /\ mode = "script" =>
           /\ foreign = 0
           /\ Len(carried) = sent
           /\ listener \in {"idle", "open", "failed"}
           /\ listener # "open" => sent = 0 /\ player \in {"idle", "failed"}

LEMMA OffsetsAre ==
    /\ OriginalFrames \in Seq(CanFrame) /\ Len(OriginalFrames) \in Nat \ {0}
    /\ \A i \in 1 .. Len(OriginalFrames) :
          OriginalFrames[i].at \in Nat /\ Offset(i) \in Int
    /\ Offset(1) = 0
    /\ Ordered => \A i \in 1 .. Len(OriginalFrames) - 1 :
                     Offset(i) <= Offset(i + 1)
<1>1. OriginalFrames \in Seq(CanFrame) /\ Len(OriginalFrames) \in Nat \ {0}
  BY RoundTripAssumption
<1>2. \A f \in CanFrame : f.at \in Nat
  BY DEF CanFrame
<1>3. \A i \in 1 .. Len(OriginalFrames) : OriginalFrames[i].at \in Nat
  BY <1>1, <1>2
<1>4. OriginalFrames[1].at \in Nat
  BY <1>1, <1>3
<1>5. ASSUME Ordered, NEW i \in 1 .. Len(OriginalFrames) - 1
      PROVE  Offset(i) <= Offset(i + 1)
  <2>1. i \in 1 .. Len(OriginalFrames) /\ i + 1 \in 1 .. Len(OriginalFrames)
    BY <1>1
  <2>2. OriginalFrames[i].at <= OriginalFrames[i + 1].at
    BY <1>5, <2>1 DEF Ordered, InOrder
  <2> QED BY <1>3, <1>4, <2>1, <2>2 DEF Offset
<1> QED BY <1>1, <1>3, <1>4, <1>5 DEF Offset

\* A frame that is due, and not yet more than one delay late, is in time.
LEMMA PaceArithmetic ==
    ASSUME NEW s \in Nat, NEW c \in Nat, NEW t \in Nat, NEW d \in Nat,
           NEW o \in Int,
           s * 1000 * (c - t) >= o, s * 1000 * (c - d - t) <= o
    PROVE  s * (c * 1000 - 1000 * t) - o \in 0 .. s * 1000 * d
<1> DEFINE x == s * (c - t)
           y == s * d
<1>1. x \in Int /\ y \in Nat
  OBVIOUS
<1>2. s * (c * 1000 - 1000 * t) = 1000 * x /\ s * 1000 * (c - t) = 1000 * x
  OBVIOUS
<1>3. s * 1000 * (c - d - t) = 1000 * x - 1000 * y
  OBVIOUS
<1>4. s * 1000 * d = 1000 * y
  OBVIOUS
<1> HIDE DEF x, y
<1> QED BY <1>1, <1>2, <1>3, <1>4

LEMMA InitPace == RoundTripInit => PaceInv
<1> SUFFICES ASSUME RoundTripInit PROVE PaceInv
  OBVIOUS
<1>1. /\ carried = <<>> /\ started = 0 /\ player = "idle" /\ sent = 0
      /\ listener = "idle" /\ foreign = 0
  BY DEF RoundTripInit
<1>2. 1 .. Len(carried) = {} /\ Len(carried) = 0
  BY <1>1
<1> QED BY <1>1, <1>2 DEF PaceInv, LateInv

\* A frame reaches the listener.
LEMMA PaceAfterArrival ==
    ASSUME DeliveryTypeOK, PaceInv, NEW frame \in CanFrame, Arrive(frame)
    PROVE  /\ carried' \in Seq(CanFrame)
           /\ listener # "open" => carried' = carried
           /\ listener = "open" =>
                  /\ Len(carried') = Len(carried) + 1
                  /\ carried'[Len(carried) + 1].at = clock * Microsecond
                  /\ \A i \in 1 .. Len(carried) : carried'[i] = carried[i]
<1> DEFINE f == Stamped(frame)
<1>1. f \in CanFrame
  BY StampedFrame DEF DeliveryTypeOK
<1>2. f.at = clock * Microsecond
  BY DEF Stamped, CanFrame
<1> HIDE DEF f
<1>3. carried' = IF listener = "open" THEN Append(carried, f) ELSE carried
  BY DEF Arrive, f
<1>4. carried \in Seq(CanFrame)
  BY DEF PaceInv
<1> QED BY <1>1, <1>2, <1>3, <1>4

\* A frame is sent.
LEMMA SendKeepsPace ==
    ASSUME Ordered, DeliveryTypeOK, PaceInv, SendFrame
    PROVE  PaceInv'
<1>1. /\ speed \in Nat \ {0} /\ clock \in Nat /\ started \in Nat
      /\ MaxDelay \in Nat \ {0} /\ sent \in Nat
      /\ carried \in Seq(CanFrame) /\ Len(carried) \in Nat
  BY RoundTripAssumption, OffsetsAre DEF DeliveryTypeOK, PaceInv
<1>2. /\ UNCHANGED <<mode, speed, clock, started, listener, foreign>>
      /\ player = "sending" /\ Reached(clock) >= Target
      /\ sent' = sent + 1
      /\ player' = IF sent' = Len(OriginalFrames) THEN "sent" ELSE "sending"
  BY DEF SendFrame
<1>3. sent + 1 \in 1 .. Len(OriginalFrames)
  BY <1>2, OffsetsAre DEF DeliveryTypeOK
<1>4. OriginalFrames[sent + 1] \in CanFrame
  BY <1>3, OffsetsAre
<1>5. \/ Arrive(OriginalFrames[sent + 1])
      \/ mode = "commands" /\ carried' = carried
  BY DEF SendFrame
<1>6. Reached(clock - MaxDelay) <= Target
  BY <1>2 DEF PaceInv, LateInv
<1>7. Target = Offset(sent + 1) /\ Offset(sent + 1) \in Int
  BY <1>3, OffsetsAre DEF Target, Offset
<1>8. InTime(clock * Microsecond, sent + 1)
  <2>1. /\ speed * 1000 * (clock - started) >= Offset(sent + 1)
        /\ speed * 1000 * (clock - MaxDelay - started) <= Offset(sent + 1)
    BY <1>2, <1>6, <1>7 DEF Reached, Microsecond
  <2>2. speed * (clock * 1000 - 1000 * started) - Offset(sent + 1)
            \in 0 .. speed * 1000 * MaxDelay
    BY <1>1, <1>7, <2>1, PaceArithmetic
  <2> QED BY <2>2 DEF InTime, Microsecond
<1>9. LateInv'
  <2> SUFFICES ASSUME player' = "sending"
               PROVE  (Reached(clock - MaxDelay) <= Target)'
    BY DEF LateInv
  <2>1. sent + 1 # Len(OriginalFrames)
    BY <1>2
  <2>2. /\ sent + 1 \in 1 .. Len(OriginalFrames) - 1
        /\ sent + 2 \in 1 .. Len(OriginalFrames)
        /\ sent + 2 = (sent + 1) + 1
    BY <1>1, <1>3, <2>1, OffsetsAre
  <2>3. Offset(sent + 1) <= Offset(sent + 2) /\ Offset(sent + 2) \in Int
    BY <2>2, OffsetsAre
  <2>4. Target' = Offset(sent + 2)
    BY <1>1, <1>2, <2>2 DEF Target, Offset
  <2>5. (Reached(clock - MaxDelay))' = Reached(clock - MaxDelay)
    BY <1>2 DEF Reached
  <2>6. Reached(clock - MaxDelay) \in Int
    BY <1>1 DEF Reached, Microsecond
  <2> QED BY <1>6, <1>7, <2>3, <2>4, <2>5, <2>6
<1>10. player' # "failed" /\ player' # "idle"
  BY <1>2
<1>11. CASE carried' = carried
  <2>1. mode # "script"
    <3>1. ASSUME mode = "script" PROVE listener = "open"
      BY <1>2, <3>1 DEF PaceInv
    <3>2. ASSUME listener = "open", Arrive(OriginalFrames[sent + 1])
          PROVE  FALSE
      BY <1>1, <1>4, <1>11, <3>2, PaceAfterArrival
    <3> QED BY <1>5, <3>1, <3>2
  <2>2. foreign' = 0 => Len(carried') < sent'
    BY <1>1, <1>2, <1>11 DEF PaceInv
  <2>3. foreign' = 0 => Len(carried') <= sent' /\ Len(carried') # sent'
    BY <1>1, <1>2, <1>11, <2>2
  <2> QED BY <1>1, <1>2, <1>9, <1>10, <1>11, <2>1, <2>3 DEF PaceInv
<1>12. CASE listener = "open" /\ Arrive(OriginalFrames[sent + 1])
  <2>1. /\ carried' \in Seq(CanFrame)
        /\ Len(carried') = Len(carried) + 1
        /\ carried'[Len(carried) + 1].at = clock * Microsecond
        /\ \A i \in 1 .. Len(carried) : carried'[i] = carried[i]
    BY <1>4, <1>12, PaceAfterArrival
  <2>2. ASSUME foreign = 0, Len(carried') = sent',
               NEW i \in 1 .. Len(carried')
        PROVE  InTime(carried'[i].at, i)
    <3>1. Len(carried) = sent
      BY <1>1, <1>2, <2>1, <2>2
    <3>2. CASE i = sent + 1
      BY <1>8, <2>1, <3>1, <3>2
    <3>3. CASE i \in 1 .. Len(carried)
      BY <2>1, <2>2, <3>1, <3>3 DEF PaceInv
    <3> QED BY <1>1, <2>1, <3>1, <3>2, <3>3
  <2>3. foreign = 0 => Len(carried') <= sent'
    BY <1>1, <1>2, <2>1 DEF PaceInv
  <2>4. mode = "script" => Len(carried') = sent'
    BY <1>1, <1>2, <2>1 DEF PaceInv
  <2>5. foreign' = 0 /\ (Len(carried') = sent') =>
            \A i \in 1 .. Len(carried') : (InTime(carried[i].at, i))'
    BY <1>2, <2>2 DEF InTime, Offset
  <2> QED BY <1>1, <1>2, <1>9, <1>10, <1>12, <2>1, <2>3, <2>4, <2>5 DEF PaceInv
<1> QED BY <1>4, <1>5, <1>11, <1>12, PaceAfterArrival

LEMMA StepPace ==
    ASSUME Ordered, DeliveryTypeOK, PaceInv, [RoundTripNext]_roundTripVars
    PROVE  PaceInv'
<1>1. /\ speed \in Nat \ {0} /\ clock \in Nat /\ started \in Nat
      /\ MaxDelay \in Nat \ {0} /\ sent \in Nat
  BY RoundTripAssumption, OffsetsAre DEF DeliveryTypeOK, PaceInv
<1>2. ASSUME UNCHANGED <<mode, speed, started, sent, carried, foreign>>,
             mode = "script" =>
                 /\ listener' \in {"idle", "open", "failed"}
                 /\ listener' # "open" => sent = 0 /\ player' \in {"idle", "failed"},
             player' = "failed" => sent < Len(OriginalFrames),
             LateInv'
      PROVE  PaceInv'
  BY <1>2 DEF PaceInv, InTime, Offset
<1>3. CASE Tick
  <2>1. /\ UNCHANGED <<mode, speed, player, started, sent, listener, carried,
                       foreign>>
        /\ clock' = clock + 1
        /\ player = "sending" => Reached(clock + 1 - MaxDelay) <= Target
    BY <1>3 DEF Tick, playerVars, listenerVars, boundVars
  <2>2. Target' = Target
    BY <2>1 DEF Target
  <2>3. (Reached(clock - MaxDelay))' = Reached(clock + 1 - MaxDelay)
    <3>1. clock' - MaxDelay = clock + 1 - MaxDelay
      BY <1>1, <2>1
    <3> QED BY <2>1, <3>1 DEF Reached
  <2>4. LateInv'
    BY <2>1, <2>2, <2>3 DEF LateInv
  <2> QED BY <1>2, <2>1, <2>4 DEF PaceInv
<1>4. CASE StartReplay
  <2>1. /\ UNCHANGED <<mode, speed, clock, sent, listener, carried, foreign>>
        /\ player = "idle" /\ player' = "sending" /\ started' = clock
        /\ mode = "script" => listener = "open"
    BY <1>4 DEF StartReplay, listenerVars, boundVars
  <2>2. sent = 0
    BY <2>1 DEF DeliveryTypeOK
  <2>3. ASSUME foreign = 0 PROVE 1 .. Len(carried') = {}
    <3>1. Len(carried) <= 0 /\ Len(carried) \in Nat
      BY <2>2, <2>3 DEF PaceInv
    <3> QED BY <2>1, <3>1
  <2>4. (Reached(clock - MaxDelay) <= Target)'
    <3>1. Target' = 0
      BY <2>1, <2>2, OffsetsAre DEF Target, Offset
    <3>2. clock' - MaxDelay - started' = -MaxDelay
      BY <1>1, <2>1
    <3>3. speed * Microsecond * (-MaxDelay) <= 0
      BY <1>1 DEF Microsecond
    <3> QED BY <2>1, <3>1, <3>2, <3>3 DEF Reached
  <2> QED BY <1>1, <2>1, <2>3, <2>4 DEF PaceInv, LateInv
<1>5. CASE ReplayCannotOpen \/ ReplayRefused \/ SendFails
  <2>1. /\ UNCHANGED <<mode, speed, started, sent, listener, carried, foreign>>
        /\ player' = "failed"
        /\ player \in {"idle", "sending"}
    BY <1>5 DEF ReplayCannotOpen, ReplayRefused, NoReplay, SendFails,
                listenerVars, boundVars
  <2>2. sent < Len(OriginalFrames)
    BY <2>1, OffsetsAre DEF DeliveryTypeOK
  <2> QED BY <1>2, <2>1, <2>2 DEF PaceInv, LateInv
<1>6. CASE SendFrame
  BY <1>6, SendKeepsPace
<1>7. CASE ForeignTraffic
  <2>1. /\ UNCHANGED <<mode, speed, clock, player, started, sent, listener>>
        /\ mode = "commands" /\ foreign' = foreign + 1 /\ foreign \in Nat
    BY <1>7 DEF ForeignTraffic, playerVars, DeliveryTypeOK
  <2>2. carried' \in Seq(CanFrame)
    <3>1. ASSUME NEW frame \in Foreign, Arrive(frame)
          PROVE  carried' \in Seq(CanFrame)
      BY <3>1, RoundTripAssumption, PaceAfterArrival
    <3>2. ASSUME UNCHANGED carried PROVE carried' \in Seq(CanFrame)
      BY <3>2 DEF PaceInv
    <3> QED BY <1>7, <3>1, <3>2 DEF ForeignTraffic
  <2>3. LateInv'
    BY <2>1 DEF PaceInv, LateInv, Reached, Target
  <2>4. foreign' # 0 /\ mode' # "script"
    BY <2>1
  <2> QED BY <2>1, <2>2, <2>3, <2>4 DEF PaceInv
<1>8. CASE Listener
  <2>1. /\ UNCHANGED <<mode, speed, clock, player, started, sent, carried,
                       foreign>>
        /\ listener = "idle" /\ listener' \in {"open", "failed"}
    BY <1>8 DEF Listener, OpenListener, ListenerCannotOpen, RecordRefused,
                NoListener, playerVars, boundVars
  <2>2. LateInv'
    BY <2>1 DEF PaceInv, LateInv, Reached, Target
  <2> QED BY <1>2, <2>1, <2>2 DEF PaceInv
<1>9. CASE Recorder
  <2>1. /\ UNCHANGED <<mode, speed, clock, player, started, sent, carried,
                       foreign>>
        /\ mode = "commands" \/ listener \in {"closed", "writing"}
    BY <1>9 DEF Recorder, StopRecording, RecordingFails, OpenOutput,
                FinishOutput, WritingFails, playerVars, boundVars
  <2>2. mode # "script"
    BY <2>1 DEF PaceInv
  <2>3. LateInv'
    BY <2>1 DEF PaceInv, LateInv, Reached, Target
  <2> QED BY <1>2, <2>1, <2>2, <2>3 DEF PaceInv
<1>10. CASE Collect \/ Script \/ VerifyReplay \/ UNCHANGED roundTripVars
  <2>1. UNCHANGED <<mode, speed, clock, player, started, sent, listener,
                    carried, foreign>>
    BY <1>10 DEF Collect, Script, ScriptCompares, ScriptFails, VerifyReplay,
                 Conclude, roundTripVars, playerVars, listenerVars, boundVars
  <2>2. LateInv'
    BY <2>1 DEF PaceInv, LateInv, Reached, Target
  <2> QED BY <1>2, <2>1, <2>2 DEF PaceInv
<1> QED BY <1>3, <1>4, <1>5, <1>6, <1>7, <1>8, <1>9, <1>10
        DEF RoundTripNext, Player

LEMMA PaceImplies == PaceInv => Paced
<1> SUFFICES ASSUME PaceInv, mode = "script", NEW i \in DOMAIN carried
             PROVE  speed * (carried[i].at - Microsecond * started)
                        - (OriginalFrames[i].at - OriginalFrames[1].at)
                    \in 0 .. speed * Microsecond * MaxDelay
  BY DEF Paced
<1>1. i \in 1 .. Len(carried)
  BY DEF PaceInv
<1>2. InTime(carried[i].at, i)
  BY <1>1 DEF PaceInv
<1> QED BY <1>2 DEF InTime, Offset

\* The script sends every frame no earlier than the capture has it and late by
\* no more than one delay, whatever the delays before: replay.py:81-97.
THEOREM DelaysDoNotAddUp == ASSUME Ordered PROVE RoundTripSpec => []Paced
<1>1. RoundTripInit => DeliveryInv /\ PaceInv
  BY InitDelivery, InitPace
<1>2. DeliveryInv /\ PaceInv /\ [RoundTripNext]_roundTripVars
          => DeliveryInv' /\ PaceInv'
  BY StepTypeAndCount, StepRecord, StepPassed, StepPace DEF DeliveryInv
<1> QED BY <1>1, <1>2, PaceImplies, PTL DEF RoundTripSpec

-----------------------------------------------------------------------------
(* The bus stamps what the listener gets with a clock that does not go back. *)

OrderInv ==
    /\ InOrder(carried)
    /\ \A i \in 1 .. Len(carried) : carried[i].at <= clock * Microsecond

LEMMA InitOrder == RoundTripInit => OrderInv
<1> SUFFICES ASSUME RoundTripInit PROVE OrderInv
  OBVIOUS
<1>1. 1 .. Len(carried) = {}
  BY DEF RoundTripInit
<1> QED BY <1>1 DEF OrderInv, InOrder

LEMMA OrderAfterArrival ==
    ASSUME DeliveryTypeOK, PaceInv, OrderInv, clock' = clock,
           NEW frame \in CanFrame, Arrive(frame)
    PROVE  OrderInv'
<1> DEFINE now == clock * Microsecond
<1>1. /\ clock \in Nat /\ carried \in Seq(CanFrame) /\ Len(carried) \in Nat
      /\ now \in Int
  BY DEF DeliveryTypeOK, PaceInv, Microsecond
<1>2. CASE listener # "open"
  <2>1. carried' = carried
    BY <1>2, PaceAfterArrival
  <2> QED BY <2>1 DEF OrderInv
<1>3. CASE listener = "open"
  <2>1. /\ Len(carried') = Len(carried) + 1
        /\ carried'[Len(carried) + 1].at = now
        /\ \A i \in 1 .. Len(carried) : carried'[i] = carried[i]
    BY <1>3, PaceAfterArrival
  <2>2. \A i \in 1 .. Len(carried) : carried[i].at <= now
    BY DEF OrderInv
  <2> HIDE DEF now
  <2>3. \A i \in 1 .. Len(carried') : carried'[i].at <= now
    BY <1>1, <2>1, <2>2
  <2>4. ASSUME NEW i \in 1 .. Len(carried'), NEW j \in 1 .. Len(carried'),
               i <= j
        PROVE  carried'[i].at <= carried'[j].at
    <3>1. CASE j = Len(carried) + 1
      BY <2>1, <2>3, <3>1
    <3>2. CASE j # Len(carried) + 1
      <4>1. i \in 1 .. Len(carried) /\ j \in 1 .. Len(carried)
        BY <1>1, <2>1, <2>4, <3>2
      <4> QED BY <2>1, <2>4, <4>1 DEF OrderInv, InOrder
    <3> QED BY <3>1, <3>2
  <2>5. now' = now
    BY DEF now
  <2>6. InOrder(carried)'
    BY <2>4 DEF InOrder
  <2>7. \A i \in 1 .. Len(carried') : carried'[i].at <= now'
    BY <2>3, <2>5
  <2> QED BY <2>6, <2>7 DEF OrderInv, now
<1> QED BY <1>2, <1>3

LEMMA StepOrder ==
    ASSUME DeliveryTypeOK, PaceInv, OrderInv, [RoundTripNext]_roundTripVars
    PROVE  OrderInv'
<1>1. ASSUME UNCHANGED <<clock, carried>> PROVE OrderInv'
  BY <1>1 DEF OrderInv
<1>2. CASE Tick
  <2>1. clock' = clock + 1 /\ carried' = carried
    BY <1>2 DEF Tick, listenerVars
  <2>2. clock \in Nat /\ \A i \in 1 .. Len(carried) : carried[i].at \in Int
    <3>1. \A i \in 1 .. Len(carried) : carried[i] \in CanFrame
      BY DEF PaceInv
    <3> QED BY <3>1 DEF DeliveryTypeOK, CanFrame
  <2>3. \A i \in 1 .. Len(carried) : carried[i].at <= (clock + 1) * Microsecond
    BY <2>2 DEF OrderInv, Microsecond
  <2> QED BY <2>1, <2>3 DEF OrderInv
<1>3. CASE SendFrame
  <2>1. clock' = clock /\ sent + 1 \in 1 .. Len(OriginalFrames)
    BY <1>3, OffsetsAre DEF SendFrame, DeliveryTypeOK
  <2>2. OriginalFrames[sent + 1] \in CanFrame
    BY <2>1, OffsetsAre
  <2>3. Arrive(OriginalFrames[sent + 1]) \/ carried' = carried
    BY <1>3 DEF SendFrame
  <2> QED BY <1>1, <2>1, <2>2, <2>3, OrderAfterArrival
<1>4. CASE ForeignTraffic
  <2>1. clock' = clock
    BY <1>4 DEF ForeignTraffic
  <2>2. (\E frame \in Foreign : Arrive(frame)) \/ carried' = carried
    BY <1>4 DEF ForeignTraffic
  <2> QED BY <1>1, <2>1, <2>2, RoundTripAssumption, OrderAfterArrival
<1>5. CASE StartReplay \/ ReplayCannotOpen \/ ReplayRefused \/ SendFails
  BY <1>1, <1>5 DEF StartReplay, ReplayCannotOpen, ReplayRefused, NoReplay,
                    SendFails, listenerVars
<1>6. CASE Listener
  BY <1>1, <1>6 DEF Listener, OpenListener, ListenerCannotOpen, RecordRefused,
                    NoListener
<1>7. CASE Recorder
  BY <1>1, <1>7 DEF Recorder, StopRecording, RecordingFails, OpenOutput,
                    FinishOutput, WritingFails
<1>8. CASE Collect \/ Script \/ VerifyReplay \/ UNCHANGED roundTripVars
  BY <1>1, <1>8 DEF Collect, Script, ScriptCompares, ScriptFails, VerifyReplay,
                    Conclude, roundTripVars, listenerVars
<1> QED BY <1>2, <1>3, <1>4, <1>5, <1>6, <1>7, <1>8 DEF RoundTripNext, Player

-----------------------------------------------------------------------------
(* A check does not fail by mistake.  What was recorded of a replay is at a *)
(* constant distance from the capture, up to one delay; so an age differs   *)
(* by no more than a delay, and is on the same side of the threshold.       *)

\* frames has the times of the capture, counted from base, up to slack.
Follows(frames, base, slack) ==
    \A i \in 1 .. Len(frames) : frames[i].at - base - Offset(i) \in 0 .. slack

LEMMA SidesArithmetic ==
    ASSUME NEW first \in Int, NEW oi \in Int, NEW oj \in Int,
           NEW ri \in Int, NEW rj \in Int, NEW base \in Int,
           NEW slack \in Nat, NEW limit \in Nat,
           ri - base - (oi - first) \in 0 .. slack,
           rj - base - (oj - first) \in 0 .. slack,
           oi - oj <= limit - slack \/ oi - oj > limit + slack
    PROVE  oi - oj > limit <=> ri - rj > limit
OBVIOUS

LEMMA EqualIntervals ==
    ASSUME NEW m \in Nat, NEW n \in Nat, 1 .. m = 1 .. n
    PROVE  m = n
OBVIOUS

LEMMA FollowersKeepSides ==
    ASSUME NEW frames \in Seq(AnyFrame), SameContents(OriginalFrames, frames),
           NEW base \in Int, NEW slack \in Nat, Robust(slack),
           Follows(frames, base, slack)
    PROVE  SameSides(OriginalFrames, frames)
<1> DEFINE N == Len(OriginalFrames)
<1>1. /\ OriginalFrames \in Seq(AnyFrame) /\ N \in Nat /\ Len(frames) = N
      /\ \A f \in AnyFrame : f.at \in Int
  <2>1. OriginalFrames \in Seq(CanFrame)
    BY RoundTripAssumption
  <2> QED BY <2>1, CanFramesAre DEF SameContents, AnyFrame
<1> SUFFICES ASSUME NEW i \in 1 .. N
             PROVE  Age(OriginalFrames, i) > StaleAfter
                        <=> Age(frames, i) > StaleAfter
  BY DEF SameSides
<1>2. DataBefore(OriginalFrames, i) = DataBefore(frames, i)
  <2>1. \A j \in 1 .. i - 1 : OriginalFrames[j].id = frames[j].id
    BY <1>1 DEF SameContents
  <2> QED BY <2>1 DEF DataBefore
<1>3. CASE DataBefore(frames, i) = {}
  BY <1>1, <1>2, <1>3, AgesAreTimes
<1>4. CASE DataBefore(frames, i) # {}
  <2> DEFINE j == LastOf(DataBefore(frames, i))
  <2>1. /\ j \in 1 .. N
        /\ Age(frames, i) = frames[i].at - frames[j].at
        /\ frames[i].at \in Int /\ frames[j].at \in Int
    BY <1>1, <1>4, AgesAreTimes
  <2>2. /\ Age(OriginalFrames, i) = OriginalFrames[i].at - OriginalFrames[j].at
        /\ OriginalFrames[i].at \in Int /\ OriginalFrames[j].at \in Int
    BY <1>1, <1>2, <1>4, <2>1, AgesAreTimes
  <2>5. OriginalFrames[1].at \in Int
    <3>1. 1 \in 1 .. Len(OriginalFrames)
      BY OffsetsAre
    <3> QED BY <3>1, OffsetsAre
  <2>3. /\ frames[i].at - base - Offset(i) \in 0 .. slack
        /\ frames[j].at - base - Offset(j) \in 0 .. slack
    BY <1>1, <2>1 DEF Follows
  <2>4. \/ Age(OriginalFrames, i) <= StaleAfter - slack
        \/ Age(OriginalFrames, i) > StaleAfter + slack
    BY <1>1 DEF Robust
  <2> HIDE DEF j
  <2>6. OriginalFrames[i].at - OriginalFrames[j].at > StaleAfter
            <=> frames[i].at - frames[j].at > StaleAfter
    <3>1. /\ frames[i].at - base - (OriginalFrames[i].at - OriginalFrames[1].at)
                 \in 0 .. slack
          /\ frames[j].at - base - (OriginalFrames[j].at - OriginalFrames[1].at)
                 \in 0 .. slack
      BY <2>3 DEF Offset
    <3>2. \/ OriginalFrames[i].at - OriginalFrames[j].at <= StaleAfter - slack
          \/ OriginalFrames[i].at - OriginalFrames[j].at > StaleAfter + slack
      BY <2>2, <2>4
    <3>3. PICK oi \in Int : oi = OriginalFrames[i].at
      BY <2>2
    <3>4. PICK oj \in Int : oj = OriginalFrames[j].at
      BY <2>2
    <3>5. PICK ri \in Int : ri = frames[i].at
      BY <2>1
    <3>6. PICK rj \in Int : rj = frames[j].at
      BY <2>1
    <3>7. PICK first \in Int : first = OriginalFrames[1].at
      BY <2>5
    <3>8. /\ ri - base - (oi - first) \in 0 .. slack
          /\ rj - base - (oj - first) \in 0 .. slack
      BY <3>1, <3>3, <3>4, <3>5, <3>6, <3>7
    <3>9. oi - oj <= StaleAfter - slack \/ oi - oj > StaleAfter + slack
      BY <3>2, <3>3, <3>4
    <3>10. oi - oj > StaleAfter <=> ri - rj > StaleAfter
      BY <3>8, <3>9, ComparisonAssumption, SidesArithmetic
    <3> QED BY <3>3, <3>4, <3>5, <3>6, <3>10
  <2> QED BY <2>1, <2>2, <2>6
<1> QED BY <1>3, <1>4

LEMMA FollowersPass ==
    ASSUME Ordered, NEW frames \in Seq(AnyFrame), InOrder(frames),
           SameContents(OriginalFrames, frames),
           NEW base \in Int, NEW slack \in Nat, Robust(slack),
           Follows(frames, base, slack)
    PROVE  Passed(OriginalFrames, frames)
<1>1. OriginalFrames \in Seq(AnyFrame)
  <2>1. OriginalFrames \in Seq(CanFrame)
    BY RoundTripAssumption
  <2> QED BY <2>1, CanFramesAre
<1>2. \A f \in AnyFrame : f.at \in Int
  BY DEF AnyFrame
<1> QED BY <1>1, <1>2, FollowersKeepSides, SameSidesPass DEF Ordered

LEMMA ContentsAreSame ==
    ASSUME NEW frames \in Seq(AnyFrame),
           Contents(frames) = Contents(OriginalFrames)
    PROVE  SameContents(OriginalFrames, frames)
<1> DEFINE o == OriginalFrames
<1>1. /\ o \in Seq(CanFrame) /\ Len(o) \in Nat /\ Len(frames) \in Nat
      /\ DOMAIN o = 1 .. Len(o) /\ DOMAIN frames = 1 .. Len(frames)
  BY RoundTripAssumption
<1>2. Len(o) = Len(frames)
  <2>1. DOMAIN Contents(o) = 1 .. Len(o)
        /\ DOMAIN Contents(frames) = 1 .. Len(frames)
    BY <1>1 DEF Contents
  <2>2. 1 .. Len(o) = 1 .. Len(frames)
    BY <2>1
  <2> QED BY <1>1, <2>2, EqualIntervals
<1>3. ASSUME NEW i \in 1 .. Len(o)
      PROVE  o[i].id = frames[i].id /\ o[i].data = frames[i].data
  <2>1. Contents(o)[i] = <<o[i].id, o[i].data>>
        /\ Contents(frames)[i] = <<frames[i].id, frames[i].data>>
    BY <1>1, <1>2 DEF Contents
  <2> QED BY <2>1
<1> QED BY <1>2, <1>3 DEF SameContents

\* What was collected if it has the contents of the capture and nobody else
\* used the bus.
LEMMA CollectedInTime ==
    ASSUME DeliveryInv, QueueInv, PaceInv, OrderInv, foreign = 0,
           Contents(collected) = Contents(OriginalFrames)
    PROVE  /\ Len(collected) = Len(OriginalFrames)
           /\ sent = Len(OriginalFrames)
           /\ InOrder(collected)
           /\ \A i \in 1 .. Len(collected) :
                  /\ InTime(collected[i].at, i)
                  /\ Reread(collected[i]) = collected[i]
<1>1. /\ collected \in Seq(CanFrame) /\ rx \in Seq(Received)
      /\ carried \in Seq(CanFrame)
      /\ Len(collected) \in Nat /\ Len(rx) \in Nat /\ Len(carried) \in Nat
      /\ losses \in Nat /\ sent \in 0 .. Len(OriginalFrames)
      /\ Len(OriginalFrames) \in Nat
  BY OffsetsAre DEF DeliveryInv, DeliveryTypeOK, QueueInv
<1>2. Len(collected) = Len(OriginalFrames)
  <2>1. collected \in Seq(AnyFrame)
    BY <1>1, CanFramesAre
  <2> QED BY <2>1, ContentsAreSame DEF SameContents
<1>3. sent = Len(OriginalFrames)
  BY <1>1, <1>2 DEF DeliveryInv, CountInv
<1>4. Len(carried) = sent
  <2>1. Len(carried) = Len(collected) + UpTo(rx, Len(rx))
        /\ UpTo(rx, Len(rx)) \in Nat
    BY <1>1, HeldIsFinite DEF QueueInv
  <2>2. Len(carried) <= sent
    BY DEF PaceInv
  <2> QED BY <1>1, <1>2, <1>3, <2>1, <2>2
<1>5. \A i \in 1 .. Len(collected) :
          /\ collected[i] = carried[i]
          /\ i \in 1 .. Len(carried)
          /\ Reread(carried[i]) = carried[i]
          /\ InTime(carried[i].at, i)
  BY <1>2, <1>3, <1>4 DEF QueueInv, PaceInv
<1>6. InOrder(collected)
  BY <1>5 DEF OrderInv, InOrder
<1> QED BY <1>2, <1>3, <1>5, <1>6

\* A time of the listener, in the time of the capture.
LEMMA InTimeAt ==
    ASSUME NEW s \in Nat, NEW t \in Nat, NEW k \in Nat, NEW o \in Int
    PROVE  s * (t - 1000 * k) - o = s * t - s * (1000 * k) - o
OBVIOUS

LEMMA ScalingKeepsOrder ==
    ASSUME NEW s \in Nat, NEW a \in Nat, NEW b \in Nat, a <= b
    PROVE  s * a <= s * b
OBVIOUS

\* What the script compares follows the capture, and is in order.
LEMMA RescaledFollows ==
    ASSUME DeliveryTypeOK, started \in Nat, InOrder(collected),
           \A i \in 1 .. Len(collected) : InTime(collected[i].at, i),
           Len(collected) = Len(OriginalFrames)
    PROVE  /\ Follows(Rescaled(collected), speed * (Microsecond * started),
                      speed * Microsecond * MaxDelay)
           /\ InOrder(Rescaled(collected))
<1> DEFINE frames == Rescaled(collected)
<1>1. /\ collected \in Seq(CanFrame) /\ Len(collected) \in Nat
      /\ DOMAIN collected = 1 .. Len(collected)
      /\ speed \in Nat
  BY DEF DeliveryTypeOK
<1>2. Len(frames) = Len(collected)
  <2>1. DOMAIN frames = 1 .. Len(collected)
    BY <1>1 DEF Rescaled
  <2>2. DOMAIN frames = 1 .. Len(frames) /\ Len(frames) \in Nat
    BY RescaledIsCollected
  <2> QED BY <1>1, <2>1, <2>2, EqualIntervals
<1>3. ASSUME NEW i \in 1 .. Len(collected)
      PROVE  /\ frames[i].at = speed * collected[i].at
             /\ collected[i].at \in Nat
  <2>1. collected[i] \in CanFrame /\ collected[i].at \in Nat
    <3>1. collected[i] \in CanFrame
      BY <1>1
    <3> QED BY <3>1 DEF CanFrame
  <2>2. frames[i] = [collected[i] EXCEPT !.at = speed * collected[i].at,
                                         !.extended = FALSE]
    BY <1>1 DEF Rescaled
  <2> QED BY <2>1, <2>2 DEF CanFrame
<1> HIDE DEF frames
<1>4. ASSUME NEW i \in 1 .. Len(collected)
      PROVE  frames[i].at - speed * (Microsecond * started) - Offset(i)
                 \in 0 .. speed * Microsecond * MaxDelay
  <2>1. Offset(i) \in Int
    BY OffsetsAre
  <2>2. speed * (collected[i].at - 1000 * started) - Offset(i)
            = speed * collected[i].at - speed * (1000 * started) - Offset(i)
    BY <1>1, <1>3, <2>1, InTimeAt
  <2> QED BY <1>3, <2>2 DEF InTime, Microsecond
<1>5. Follows(frames, speed * (Microsecond * started),
              speed * Microsecond * MaxDelay)
  BY <1>2, <1>4 DEF Follows
<1>6. InOrder(frames)
  <2> SUFFICES ASSUME NEW i \in 1 .. Len(collected),
                      NEW j \in 1 .. Len(collected), i <= j
               PROVE  frames[i].at <= frames[j].at
    BY <1>2 DEF InOrder
  <2>1. collected[i].at <= collected[j].at
    BY DEF InOrder
  <2>2. speed * collected[i].at <= speed * collected[j].at
    BY <1>1, <1>3, <2>1, ScalingKeepsOrder
  <2> QED BY <1>3, <2>2
<1> QED BY <1>5, <1>6 DEF frames

\* So does what verify-replay reads, at speed 1.
LEMMA RereadFollows ==
    ASSUME DeliveryTypeOK, started \in Nat, speed = 1, InOrder(collected),
           \A i \in 1 .. Len(collected) : /\ InTime(collected[i].at, i)
                                          /\ Reread(collected[i]) = collected[i],
           Len(collected) = Len(OriginalFrames)
    PROVE  /\ Follows(ReadLog(WriteLog(collected)), Microsecond * started,
                      speed * Microsecond * MaxDelay)
           /\ InOrder(ReadLog(WriteLog(collected)))
<1>1. /\ collected \in Seq(CanFrame) /\ Len(collected) \in Nat
      /\ DOMAIN collected = 1 .. Len(collected)
  BY DEF DeliveryTypeOK
<1>2. ReadLog(WriteLog(collected)) = collected
  <2>1. ReadLog(WriteLog(collected))
            = [i \in 1 .. Len(collected) |-> Reread(collected[i])]
    BY <1>1, CaptureIsReadBack
  <2>2. collected = [i \in 1 .. Len(collected) |-> collected[i]]
    BY <1>1
  <2> QED BY <2>1, <2>2
<1>3. ASSUME NEW i \in 1 .. Len(collected)
      PROVE  collected[i].at - Microsecond * started - Offset(i)
                 \in 0 .. speed * Microsecond * MaxDelay
  <2>1. collected[i].at \in Nat
    <3>1. collected[i] \in CanFrame
      BY <1>1
    <3> QED BY <3>1 DEF CanFrame
  <2>2. speed * (collected[i].at - 1000 * started) = collected[i].at - 1000 * started
    BY <2>1
  <2> QED BY <2>2 DEF InTime, Microsecond
<1> QED BY <1>2, <1>3 DEF Follows

\* A recording is not mistaken for a missing one.
LEMMA RecordingIsFile ==
    ASSUME NEW frames \in Seq(CanFrame)
    PROVE  WriteLog(frames) # None
<1>1. ASSUME NEW frame \in CanFrame
      PROVE  Formatted(frame) \in LogLine
  <2>1. /\ frame.at \in Nat /\ frame.data \in Seq(Byte)
        /\ frame.id \in 0 .. MaxExtendedId
        /\ frame.channel \in Channels \cup {NoChannel}
    BY DEF CanFrame
  <2>2. Rounded(frame.at) \in Nat /\ Digits(frame.data) \in Seq(Digit)
    BY <2>1, RoundingIsSmall, DigitsOfBytes
  <2>3. frame.id \in Nat /\ (IF frame.extended THEN 8 ELSE 3) \in Nat
    BY <2>1
  <2> QED BY <2>1, <2>2, <2>3 DEF Formatted, LogLine
<1>2. \A i \in 1 .. Len(frames) : Formatted(frames[i]) \in LogLine
  BY <1>1
<1>3. WriteLog(frames) = [i \in 1 .. Len(frames) |-> Formatted(frames[i])]
      /\ Len(frames) \in Nat
  BY DEF WriteLog
<1>4. WriteLog(frames) \in Seq(LogLine)
  BY <1>2, <1>3
<1> QED BY <1>4, RoundTripAssumption

\* What a faithful replay is: the hypothesis of FaithfulReplayPasses, but for
\* the verdict.
Faithful ==
    /\ recordExit \in {None, 0}
    /\ Contents(collected) = Contents(OriginalFrames)
    /\ foreign = 0
    /\ mode = "script" \/ speed = 1
    /\ Robust(speed * Microsecond * MaxDelay)

LEMMA ScriptPasses ==
    ASSUME Ordered, DeliveryInv, QueueInv, PaceInv, OrderInv, Faithful,
           ScriptCompares
    PROVE  verdict' = 0
<1> DEFINE frames == Rescaled(collected)
           base   == speed * (Microsecond * started)
           slack  == speed * Microsecond * MaxDelay
<1>1. DeliveryTypeOK /\ started \in Nat /\ speed \in Nat
  BY DEF DeliveryInv, DeliveryTypeOK, PaceInv
<1>2. frames \in Seq(AnyFrame) /\ Contents(frames) = Contents(OriginalFrames)
  BY <1>1, RescaledIsCollected DEF Faithful
<1>3. Follows(frames, base, slack) /\ InOrder(frames)
  <2>1. /\ Len(collected) = Len(OriginalFrames)
        /\ InOrder(collected)
        /\ \A i \in 1 .. Len(collected) : InTime(collected[i].at, i)
    BY CollectedInTime DEF Faithful
  <2> QED BY <1>1, <2>1, RescaledFollows
<1>4. base \in Int /\ slack \in Nat
  BY <1>1, RoundTripAssumption DEF Microsecond
<1>5. Robust(slack)
  BY DEF Faithful
<1>6. verdict' = ExitCode(Passed(OriginalFrames, frames))
  BY DEF ScriptCompares, Conclude
<1> HIDE DEF frames, base, slack
<1>7. SameContents(OriginalFrames, frames)
  BY <1>2, ContentsAreSame
<1>8. Passed(OriginalFrames, frames)
  BY <1>2, <1>3, <1>4, <1>5, <1>7, FollowersPass
<1> QED BY <1>6, <1>8 DEF ExitCode

LEMMA VerifyReplayPasses ==
    ASSUME Ordered, DeliveryInv, QueueInv, PaceInv, OrderInv, Faithful,
           VerifyReplay
    PROVE  verdict' = 0
<1> DEFINE frames == ReadLog(WriteLog(collected))
           base   == Microsecond * started
           slack  == speed * Microsecond * MaxDelay
<1>1. DeliveryTypeOK /\ started \in Nat
  BY DEF DeliveryInv, PaceInv
<1>2. speed = 1
  BY DEF VerifyReplay, Faithful
<1>3. file = WriteLog(collected)
  BY DEF VerifyReplay, Faithful, DeliveryInv, RecordInv
<1>4. frames \in Seq(AnyFrame) /\ Contents(frames) = Contents(OriginalFrames)
  BY <1>1, RereadIsCollected DEF Faithful
<1>5. Follows(frames, base, slack) /\ InOrder(frames)
  <2>1. /\ Len(collected) = Len(OriginalFrames)
        /\ InOrder(collected)
        /\ \A i \in 1 .. Len(collected) :
              InTime(collected[i].at, i) /\ Reread(collected[i]) = collected[i]
    BY CollectedInTime DEF Faithful
  <2> QED BY <1>1, <1>2, <2>1, RereadFollows
<1>6. base \in Int /\ slack \in Nat
  BY <1>1, <1>2, RoundTripAssumption DEF Microsecond
<1>7. Robust(slack)
  BY DEF Faithful
<1>8. file # None
  <2>1. collected \in Seq(CanFrame)
    BY <1>1 DEF DeliveryTypeOK
  <2> QED BY <1>3, <2>1, RecordingIsFile
<1>9. verdict' = ExitCode(frames # <<>> /\ Passed(OriginalFrames, frames))
  BY <1>3, <1>8 DEF VerifyReplay, Conclude
<1> HIDE DEF frames, base, slack
<1>10. SameContents(OriginalFrames, frames)
  BY <1>4, ContentsAreSame
<1>11. Passed(OriginalFrames, frames)
  BY <1>4, <1>5, <1>6, <1>7, <1>10, FollowersPass
<1>12. frames # <<>>
  <2>1. Len(frames) = Len(OriginalFrames)
    BY <1>10 DEF SameContents
  <2> QED BY <2>1, OffsetsAre
<1> QED BY <1>9, <1>11, <1>12 DEF ExitCode

\* The script does not fail on the way: its replay had to send all frames.
LEMMA FaithfulScriptRuns ==
    ASSUME DeliveryInv, QueueInv, PaceInv, OrderInv, Faithful
    PROVE  ~ScriptFails
<1>1. sent = Len(OriginalFrames)
  BY CollectedInTime DEF Faithful
<1>2. Len(OriginalFrames) \in Nat \ {0}
  BY OffsetsAre
<1> QED BY <1>1, <1>2 DEF ScriptFails, PaceInv

LEMMA StepFaithful ==
    ASSUME Ordered, DeliveryInv, QueueInv, PaceInv, OrderInv,
           FaithfulReplayPasses, [RoundTripNext]_roundTripVars
    PROVE  FaithfulReplayPasses'
<1>1. CASE UNCHANGED roundTripVars
  <2>1. UNCHANGED <<mode, speed, collected, recordExit, verdict, foreign>>
    BY <1>1 DEF roundTripVars, listenerVars, outcomeVars, boundVars
  <2> QED BY <2>1 DEF FaithfulReplayPasses
<1>2. CASE RoundTripNext /\ (Tick \/ Player \/ ForeignTraffic \/ Listener
                             \/ Collect \/ Recorder)
  <2>1. verdict' = None
    BY <1>2
    DEF RoundTripNext, Tick, Player, StartReplay, ReplayCannotOpen,
        ReplayRefused, NoReplay, SendFrame, SendFails, ForeignTraffic,
        Listener, OpenListener, ListenerCannotOpen, RecordRefused, NoListener,
        Collect, Recorder, StopRecording, RecordingFails, OpenOutput,
        FinishOutput, WritingFails, outcomeVars
  <2> QED BY <2>1 DEF FaithfulReplayPasses
<1>3. CASE Script \/ VerifyReplay
  <2>1. UNCHANGED <<mode, speed, collected, recordExit, foreign>>
    BY <1>3 DEF Script, ScriptCompares, ScriptFails, VerifyReplay, Conclude,
                listenerVars, boundVars
  <2>2. CASE Faithful
    <3>1. verdict' = 0
      BY <1>3, <2>2, ScriptPasses, VerifyReplayPasses, FaithfulScriptRuns
         DEF Script
    <3> QED BY <3>1 DEF FaithfulReplayPasses
  <2>3. CASE ~Faithful
    BY <2>1, <2>3 DEF Faithful, FaithfulReplayPasses
  <2> QED BY <2>2, <2>3
<1> QED BY <1>1, <1>2, <1>3 DEF RoundTripNext

\* A check does not fail by mistake: a faithful recording of the capture gets
\* exit code 0, from scripts/replay_check.py:54-108 at any speed and from
\* can-diag verify-replay (cli.py:299-332) at speed 1, unless an age of the
\* capture is so near the threshold that one delay puts it on the other side.
THEOREM FaithfulReplaysPass ==
    ASSUME Ordered PROVE RoundTripSpec => []FaithfulReplayPasses
<1> DEFINE Inv == /\ DeliveryInv /\ QueueInv /\ PaceInv /\ OrderInv
                  /\ FaithfulReplayPasses
<1>1. RoundTripInit => Inv
  <2>1. RoundTripInit => FaithfulReplayPasses
    BY DEF RoundTripInit, FaithfulReplayPasses
  <2> QED BY <2>1, InitDelivery, QueueInit, InitPace, InitOrder
<1>2. Inv /\ [RoundTripNext]_roundTripVars => Inv'
  <2> SUFFICES ASSUME Inv, [RoundTripNext]_roundTripVars PROVE Inv'
    OBVIOUS
  <2>1. DeliveryTypeOK
    BY DEF DeliveryInv
  <2>2. DeliveryInv'
    BY StepTypeAndCount, StepRecord, StepPassed DEF DeliveryInv
  <2>3. QueueInv'
    BY <2>1, StepQueue
  <2>4. PaceInv'
    BY <2>1, StepPace
  <2>5. OrderInv'
    BY <2>1, StepOrder
  <2>6. FaithfulReplayPasses'
    BY StepFaithful
  <2> QED BY <2>2, <2>3, <2>4, <2>5, <2>6
<1> QED BY <1>1, <1>2, PTL DEF RoundTripSpec

=============================================================================
