----------------------------- MODULE BenchProofs -----------------------------
(****************************************************************************)
(* That gaps and restarts tell the truth, for every counter modulus, queue  *)
(* length, number of lost frames and of power losses.  For the gaps the     *)
(* argument follows the counter from the node to the monitor: a data frame  *)
(* carries its number in the run modulo the counter wherever it waits, and  *)
(* the counter that the monitor remembers is that of the frame it got last, *)
(* or of a run whose end no heartbeat has shown.  For the restarts it       *)
(* follows the uptime: the heartbeats that wait are in the order of their   *)
(* uptimes, and none is below the uptime that the monitor remembers of the  *)
(* same run.                                                                *)
(****************************************************************************)
EXTENDS Bench, TLAPS

\* What the node may have sent: its data frames carry their numbers.
SentData ==
    {[frame |-> [message |-> PowerData, sequence |-> n % CounterModulus,
                 uptime |-> None, value |-> Reading],
      number |-> n] : n \in Nat}

SentBeats ==
    {[frame |-> [message |-> PowerBeat, sequence |-> None,
                 uptime |-> u, value |-> Reading],
      number |-> n] : u \in Nat, n \in Nat}

NodeInv ==
    /\ built \in Nat /\ tickIndex \in Nat
    /\ sequence = built % CounterModulus
    /\ tx \in Seq(SentData \cup SentBeats)

\* What the monitor remembers of the node, against what really happened.
KnowledgeInv ==
    /\ gotData \in Nat \cup {None}
    /\ firstBeat \in Nat \cup {None}
    /\ priorBeat \in Nat \cup {None}
    /\ lastUptime \in [Messages -> Nat \cup {None}]
    /\ lastSequence[PowerData] \in Nat \cup {None}
    /\ gotData # None /\ lastSequence[PowerData] # None =>
           lastSequence[PowerData] = gotData % CounterModulus
    /\ firstBeat = None => lastUptime[PowerBeat] = priorBeat
    /\ gotData = None /\ ~RebootUnseen => lastSequence[PowerData] = None

BenchInv == NodeInv /\ KnowledgeInv

LEMMA Names ==
    /\ PowerData \in Messages /\ PowerBeat \in Messages
    /\ PowerData \notin Heartbeats /\ PowerBeat \in Heartbeats
    /\ Sender[PowerData] = Sender[PowerBeat] /\ PowerData # PowerBeat
    /\ CheckSequence = TRUE
BY BenchAssumption

LEMMA Numbers ==
    /\ CounterModulus \in Nat \ {0} /\ BeatTicks \in Nat \ {0}
    /\ IndexModulus \in Nat \ {0}
    /\ None \notin Int
BY BenchAssumption, BoundAssumption

\* The remainder is the only number in its range that differs from the
\* dividend by a multiple of the divisor.
LEMMA RemainderIsUnique ==
    ASSUME NEW m \in Nat \ {0}, NEW q \in Int, NEW r \in 0 .. m - 1
    PROVE  (m * q + r) % m = r
<1> DEFINE a == m * q + r
           p == a \div m
           s == a % m
<1>1. p \in Int /\ s \in Int /\ 0 <= s /\ s < m /\ a = m * p + s
  OBVIOUS
<1>0. a = m * q + r /\ 0 <= r /\ r < m /\ r \in Int
  OBVIOUS
<1> HIDE DEF p, s, a
<1>2. m * (p - q) = m * p - m * q
  BY <1>1
<1>3. m * (p - q) = r - s
  BY <1>0, <1>1, <1>2
<1>4. ASSUME p - q >= 1 PROVE FALSE
  <2>1. m * (p - q) >= m
    BY <1>1, <1>4
  <2> QED BY <2>1, <1>0, <1>1, <1>3
<1>5. ASSUME p - q <= -1 PROVE FALSE
  <2>1. m * (p - q) <= -m
    BY <1>1, <1>5
  <2> QED BY <2>1, <1>0, <1>1, <1>3
<1>6. p - q = 0
  BY <1>1, <1>4, <1>5
<1>7. m * (p - q) = 0
  BY <1>6
<1>8. s = r
  BY <1>0, <1>1, <1>3, <1>7
<1> QED BY <1>8 DEF s, a

\* Numbers that differ by a multiple of the divisor have the same remainder.
LEMMA SameRemainder ==
    ASSUME NEW m \in Nat \ {0}, NEW k \in Int, NEW b \in Int
    PROVE  (b + m * k) % m = b % m
<1> DEFINE q == b \div m
           r == b % m
           n == q + k
<1>1. q \in Int /\ r \in 0 .. m - 1 /\ b = m * q + r /\ n \in Int /\ r \in Int
  OBVIOUS
<1> HIDE DEF q, r
<1>2. m * n = m * q + m * k /\ m * n \in Int /\ m * k \in Int /\ m * q \in Int
  BY <1>1
<1> HIDE DEF n
<1>3. b + m * k = m * n + r
  BY <1>1, <1>2
<1>4. (m * n + r) % m = r
  BY <1>1, RemainderIsUnique, Zenon
<1> QED BY <1>3, <1>4 DEF r

\* A remainder may be taken of a term first.
LEMMA ShiftOfRemainder ==
    ASSUME NEW m \in Nat \ {0}, NEW a \in Int, NEW b \in Int
    PROVE  ((a % m) + b) % m = (a + b) % m
<1>1. PICK k \in Int : k = -(a \div m)
  OBVIOUS
<1>2. (a % m) + b = (a + b) + m * k
  <2>1. a = m * (a \div m) + (a % m) /\ a \div m \in Int /\ a % m \in Int
     OBVIOUS
  <2>2. m * k = -(m * (a \div m))
    BY <1>1, <2>1
  <2> QED BY <1>1, <2>1, <2>2
<1>3. ((a + b) + m * k) % m = (a + b) % m
  <2>1. a + b \in Int
    OBVIOUS
  <2> QED BY <2>1, SameRemainder, Zenon
<1> QED BY <1>2, <1>3

LEMMA DifferenceOfRemainder ==
    ASSUME NEW m \in Nat \ {0}, NEW a \in Int, NEW b \in Int
    PROVE  (a - (b % m)) % m = (a - b) % m
<1>1. PICK k \in Int : k = b \div m
  OBVIOUS
<1>2. a - (b % m) = (a - b) + m * k
  <2>1. b = m * k + (b % m) /\ b % m \in Int /\ m * k \in Int
    BY <1>1
  <2> QED BY <1>1, <2>1
<1>3. ((a - b) + m * k) % m = (a - b) % m
  <2>1. a - b \in Int
    OBVIOUS
  <2> QED BY <2>1, SameRemainder, Zenon
<1> QED BY <1>2, <1>3

LEMMA EmptyIsSeq == ASSUME NEW S PROVE <<>> \in Seq(S)
OBVIOUS

\* A step of the node queues what it built, drops what was queued, or leaves
\* the queue alone.
LEMMA NodeSteps ==
    ASSUME NodeInv, Tick \/ NodeStep \/ PowerCycle
    PROVE  NodeInv'
<1>1. CASE Tick
  BY <1>1 DEF Tick, Node!Wake, nodeState, NodeInv
<1>2. CASE PowerCycle
  <2>1. built' = 0 /\ tickIndex' = 0 /\ sequence' = 0 /\ tx' = <<>>
    BY <1>2 DEF PowerCycle, Node!PowerCycle
  <2>2. 0 = 0 % CounterModulus
    BY Numbers
  <2> QED BY <2>1, <2>2 DEF NodeInv
<1>3. ASSUME NEW f, NEW S, tx \in Seq(S), [frame |-> f, number |-> built] \in S,
             Node!Send(f)
      PROVE  tx' \in Seq(S)
  BY <1>3 DEF Node!Send, Node!Accepts, Node!Refuses
<1>4. CASE NodeStep
  <2>1. CASE Node!Controller
    BY <2>1 DEF Node!Controller, Node!programVars, NodeInv
  <2>2. CASE Node!StartBus \/ Node!EndIteration
    <3>1. (tickIndex + 1) % IndexModulus \in Nat
      BY Numbers DEF NodeInv
    <3> QED BY <2>2, <3>1 DEF Node!StartBus, Node!EndIteration, NodeInv
  <2>3. CASE Node!ServiceBus
    <3>1. tx' = <<>> \/ tx' = tx
      BY <2>3 DEF Node!ServiceBus
    <3>2. built' = built /\ tickIndex' = tickIndex /\ sequence' = sequence
      BY <2>3 DEF Node!ServiceBus
    <3> QED BY <3>1, <3>2, EmptyIsSeq DEF NodeInv
  <2>4. CASE Node!BootBeat \/ Node!SendBeat
    <3>1. tickIndex \div BeatTicks \in Nat
      BY Numbers DEF NodeInv
    <3>2. [frame |-> Node!Heartbeat, number |-> built]
          \in SentData \cup SentBeats
      BY <3>1 DEF Node!Heartbeat, SentBeats, NodeInv
    <3>3. tx' \in Seq(SentData \cup SentBeats)
      BY <1>3, <2>4, <3>2 DEF Node!BootBeat, Node!SendBeat, NodeInv
    <3> QED BY <2>4, <3>3 DEF Node!BootBeat, Node!SendBeat, NodeInv
  <2>5. CASE Node!SendData
    <3>1. [frame |-> Node!DataFrame, number |-> built]
          \in SentData \cup SentBeats
      BY DEF Node!DataFrame, SentData, NodeInv
    <3>2. tx' \in Seq(SentData \cup SentBeats)
      BY <1>3, <2>5, <3>1 DEF Node!SendData, NodeInv
    <3>3. (sequence + 1) % CounterModulus = (built + 1) % CounterModulus
      <4>1. built \in Int /\ sequence = built % CounterModulus
        BY DEF NodeInv
      <4>2. CounterModulus \in Nat \ {0} /\ 1 \in Int
        BY Numbers
      <4>3. ((built % CounterModulus) + 1) % CounterModulus
            = (built + 1) % CounterModulus
        BY <4>1, <4>2, ShiftOfRemainder, Zenon
      <4> QED BY <4>1, <4>3
    <3> QED BY <2>5, <3>2, <3>3 DEF Node!SendData, NodeInv
  <2> QED BY <1>4, <2>1, <2>2, <2>3, <2>4, <2>5 DEF NodeStep, Node!AppMain
<1> QED BY <1>1, <1>2, <1>4

\* The frame that leaves the queue is one the node sent.
LEMMA Departures ==
    ASSUME NodeInv, Node!SendQueued
    PROVE  NodeInv' /\ Arrival \in SentData \cup SentBeats
BY DEF NodeInv, Node!SendQueued, Node!programVars, Arrival

LEMMA DataArrival ==
    ASSUME NodeInv, DeliversData
    PROVE  /\ Arrival.number \in Nat
           /\ Arrival.frame.sequence = Arrival.number % CounterModulus
           /\ ReadsCounter(Arrival.frame) /\ ~UptimeFell(Arrival.frame)
<1>1. Arrival \in SentData
  BY Departures, Names DEF DeliversData, Deliver, SentBeats
<1>2. PICK n \in Nat :
          Arrival = [frame |-> [message |-> PowerData,
                                sequence |-> n % CounterModulus,
                                uptime |-> None, value |-> Reading],
                     number |-> n]
  BY <1>1 DEF SentData
<1>3. n % CounterModulus # None
  BY Numbers
<1> QED BY <1>2, <1>3, Names DEF ReadsCounter, UptimeFell

LEMMA BeatArrival ==
    ASSUME NodeInv, Deliver, ~DeliversData
    PROVE  /\ Arrival.frame.message = PowerBeat
           /\ Arrival.frame.uptime \in Nat /\ Arrival.frame.sequence = None
<1>1. Arrival \in SentBeats
  BY Departures DEF DeliversData, Deliver, SentData
<1> QED BY <1>1 DEF SentBeats

\* The gaps among the findings of a call are those of its counter check.
LEMMA GapsOfCall ==
    ASSUME NEW f, NEW t, ProcessKnown(f, t), NEW e \in GapsIn(produced')
    PROVE  e \in GapFindings(f, t)
<1>1. e \in produced' /\ e.kind = "gap"
  BY DEF GapsIn
<1>2. ASSUME e \in TimeoutFindings(t) PROVE FALSE
  BY <1>1, <1>2 DEF TimeoutFindings, Stale, Silent
<1>3. ASSUME e \in RecoveryFindings(f, t) PROVE FALSE
  BY <1>1, <1>3 DEF RecoveryFindings, Recovered, NodeRecovered
<1>4. ASSUME e \in RestartFindings(f, t) PROVE FALSE
  BY <1>1, <1>4 DEF RestartFindings, Restart
<1>5. ASSUME e \in RangeFindings(f, t) PROVE FALSE
  BY <1>1, <1>5 DEF RangeFindings, RangeViolation, RangeRecovered
<1> QED BY <1>1, <1>2, <1>3, <1>4, <1>5 DEF ProcessKnown

\* A gap that is found is the distance from the counter remembered.
LEMMA GapIsDistance ==
    ASSUME NEW f, NEW t, NEW e \in GapFindings(f, t)
    PROVE  /\ lastSequence[f.message] # None
           /\ e.skipped = ForwardDistance(lastSequence[f.message], f.sequence)
BY DEF GapFindings, Gap, Baseline

\* The distance of two counters is that of their numbers.
LEMMA DistanceOfNumbers ==
    ASSUME NEW n \in Nat, NEW g \in Nat
    PROVE  ForwardDistance(g % CounterModulus, n % CounterModulus)
           = (n - g - 1) % CounterModulus
<1>1. /\ CounterModulus \in Nat \ {0} /\ n \in Int /\ g \in Int /\ n - 1 \in Int
      /\ n % CounterModulus \in Int /\ g % CounterModulus \in Int
      /\ -(g % CounterModulus) - 1 \in Int
  BY Numbers
<1>2. ((n % CounterModulus) + (-(g % CounterModulus) - 1)) % CounterModulus
      = (n + (-(g % CounterModulus) - 1)) % CounterModulus
  BY <1>1, ShiftOfRemainder, Zenon
<1>3. ((n - 1) - (g % CounterModulus)) % CounterModulus
      = ((n - 1) - g) % CounterModulus
  BY <1>1, DifferenceOfRemainder, Zenon
<1>4. /\ (n % CounterModulus) - (g % CounterModulus) - 1
         = (n % CounterModulus) + (-(g % CounterModulus) - 1)
      /\ n + (-(g % CounterModulus) - 1) = (n - 1) - (g % CounterModulus)
      /\ (n - 1) - g = n - g - 1
  BY <1>1
<1> QED BY <1>2, <1>3, <1>4 DEF ForwardDistance

LEMMA KnowledgeAfterData ==
    ASSUME BenchInv, DeliversData
    PROVE  KnowledgeInv'
<1>1. /\ gotData' = Arrival.number /\ firstBeat' = firstBeat
      /\ priorBeat' = priorBeat
  BY DEF DeliversData, Deliver
<1>2. lastUptime' = lastUptime
  BY Names DEF DeliversData, Deliver, ProcessKnown
<1>3. lastSequence'[PowerData] = Arrival.frame.sequence
  BY DataArrival, Names DEF BenchInv, DeliversData, Deliver, ProcessKnown,
                            SequenceAfter
<1>4. Arrival.number % CounterModulus \in Nat /\ Arrival.number # None
  BY DataArrival, Numbers DEF BenchInv
<1> QED BY <1>1, <1>2, <1>3, <1>4, DataArrival
        DEF BenchInv, KnowledgeInv, RebootUnseen

LEMMA KnowledgeAfterBeat ==
    ASSUME BenchInv, Deliver, ~DeliversData
    PROVE  KnowledgeInv'
<1> DEFINE f == Arrival.frame
<1>1. f.message = PowerBeat /\ f.uptime \in Nat /\ f.sequence = None
  BY BeatArrival DEF BenchInv
<1>2. /\ gotData' = gotData /\ priorBeat' = priorBeat
      /\ firstBeat' = IF firstBeat = None THEN f.uptime ELSE firstBeat
  BY <1>1, Names DEF Deliver
<1>3. lastUptime' = [lastUptime EXCEPT ![PowerBeat] = f.uptime]
  BY <1>1, Names, Numbers DEF Deliver, ProcessKnown
<1>4. lastSequence'[PowerData] =
          IF UptimeFell(f) THEN None ELSE lastSequence[PowerData]
  BY <1>1, Names DEF Deliver, ProcessKnown, SequenceAfter
<1>5. UptimeFell(f) <=> /\ lastUptime[PowerBeat] # None
                        /\ f.uptime < lastUptime[PowerBeat]
  BY <1>1, Names, Numbers DEF UptimeFell
<1> HIDE DEF f
<1>6. /\ lastUptime' \in [Messages -> Nat \cup {None}]
      /\ firstBeat' \in Nat
  BY <1>1, <1>2, <1>3 DEF BenchInv, KnowledgeInv
<1>7. ASSUME gotData' = None, (~RebootUnseen)'
      PROVE  lastSequence'[PowerData] = None
  <2>1. CASE firstBeat = None
    <3>1. UptimeFell(f)
      BY <1>1, <1>2, <1>5, <1>7, <2>1 DEF BenchInv, KnowledgeInv, RebootUnseen
    <3> QED BY <3>1, <1>4
  <2>2. CASE firstBeat # None
    BY <1>2, <1>4, <1>7, <2>2 DEF BenchInv, KnowledgeInv, RebootUnseen
  <2> QED BY <2>1, <2>2
<1>8. firstBeat' # None
  BY <1>6, Numbers
<1> QED BY <1>2, <1>4, <1>6, <1>7, <1>8 DEF BenchInv, KnowledgeInv

\* A loss of power starts a run of which the analyzer has got nothing.
LEMMA KnowledgeAfterCycle ==
    ASSUME BenchInv, PowerCycle
    PROVE  KnowledgeInv'
<1>1. /\ gotData' = None /\ firstBeat' = None
      /\ priorBeat' = lastUptime[PowerBeat]
      /\ lastUptime' = lastUptime /\ lastSequence' = lastSequence
  BY DEF PowerCycle, vars, messageVars
<1>2. lastUptime[PowerBeat] \in Nat \cup {None}
  BY Names DEF BenchInv, KnowledgeInv
<1> QED BY <1>1, <1>2 DEF BenchInv, KnowledgeInv, RebootUnseen

LEMMA BenchInductive == BenchSpec => []BenchInv
<1>1. BenchInit => BenchInv
  <2> SUFFICES ASSUME BenchInit PROVE BenchInv
    OBVIOUS
  <2>1. built = 0 /\ tickIndex = 0 /\ sequence = 0 /\ tx = <<>>
    BY DEF BenchInit, Node!PowerInit
  <2>2. 0 = 0 % CounterModulus
    BY Numbers
  <2>3. /\ gotData = None /\ firstBeat = None /\ priorBeat = None
        /\ lastUptime = [m \in Messages |-> None]
        /\ lastSequence = [m \in Messages |-> None]
    BY DEF BenchInit, Init
  <2>4. NodeInv
    BY <2>1, <2>2 DEF NodeInv
  <2>5. KnowledgeInv
    BY <2>3, Names DEF KnowledgeInv, RebootUnseen
  <2> QED BY <2>4, <2>5 DEF BenchInv
<1>2. BenchInv /\ [BenchNext]_benchVars => BenchInv'
  <2> SUFFICES ASSUME BenchInv, [BenchNext]_benchVars PROVE BenchInv'
    OBVIOUS
  <2>1. ASSUME UNCHANGED <<vars, benchHistory>> PROVE KnowledgeInv'
    BY <2>1
    DEF BenchInv, KnowledgeInv, RebootUnseen, vars, messageVars, benchHistory
  <2>2. CASE Tick \/ NodeStep
    BY <2>1, <2>2, NodeSteps DEF BenchInv, Tick, NodeStep
  <2>3. CASE PowerCycle
    BY <2>3, NodeSteps, KnowledgeAfterCycle DEF BenchInv
  <2>4. CASE Deliver
    BY <2>4, Departures, KnowledgeAfterData, KnowledgeAfterBeat
    DEF BenchInv, Deliver
  <2>5. CASE Lose
    BY <2>1, <2>5, Departures DEF BenchInv, Lose
  <2>6. CASE UNCHANGED benchVars
    BY <2>1, <2>6 DEF BenchInv, NodeInv, benchVars, nodeState
  <2> QED BY <2>2, <2>3, <2>4, <2>5, <2>6 DEF BenchNext
<1> QED BY <1>1, <1>2, PTL DEF BenchSpec

\* The size of a gap is the number of data frames that the node built and the
\* analyzer missed, and a gap across a reboot is reported only when no
\* heartbeat could show the reboot: monitor.py:344-420 against
\* power_monitor_main.c:40-53.
THEOREM GapsAreTrue == BenchSpec => GapsAreExplained
<1>1. ASSUME BenchInv, NEW e \in GapsIn(produced'), DeliversData
      PROVE  IF gotData # None THEN e.skipped = Missed % CounterModulus
             ELSE RebootUnseen
  <2>1. ProcessKnown(Arrival.frame, clock) /\ Arrival.frame.message = PowerData
    BY <1>1 DEF DeliversData, Deliver
  <2>2. /\ lastSequence[PowerData] # None
        /\ e.skipped = ForwardDistance(lastSequence[PowerData],
                                       Arrival.frame.sequence)
    BY <1>1, <2>1, GapsOfCall, GapIsDistance
  <2>3. CASE gotData # None
    <3>1. gotData \in Nat /\ lastSequence[PowerData] = gotData % CounterModulus
      BY <1>1, <2>2, <2>3 DEF BenchInv, KnowledgeInv
    <3>2. e.skipped = (Arrival.number - gotData - 1) % CounterModulus
      BY <1>1, <2>2, <3>1, DataArrival, DistanceOfNumbers DEF BenchInv
    <3> QED BY <2>3, <3>2 DEF Missed
  <2>4. CASE gotData = None
    BY <1>1, <2>2, <2>4 DEF BenchInv, KnowledgeInv
  <2> QED BY <2>3, <2>4
<1>2. BenchInv /\ [BenchNext]_benchVars =>
          [\A e \in GapsIn(produced') : DeliversData =>
              IF gotData # None THEN e.skipped = Missed % CounterModulus
              ELSE RebootUnseen]_benchVars
  BY <1>1
<1> QED BY <1>2, BenchInductive, PTL DEF BenchSpec, GapsAreExplained

-----------------------------------------------------------------------------
(* Restarts.                                                                *)

\* The index of the loop does not come round within the time considered.
NoWrap == LastTime + 1 < IndexModulus

IsBeat(e) == e.frame.message = PowerBeat

\* The node's index lags the clock, and is zero until a data frame is built.
ProgressInv ==
    /\ clock \in Nat /\ clock <= LastTime
    /\ tickIndex <= clock + 1
    /\ at # "delay" => tickIndex <= clock
    /\ at \in {"beat", "next", "delay"} => built > 0
    /\ built = 0 => tickIndex = 0

\* The heartbeats of a run leave in the order of their uptimes.
OrderInv ==
    /\ \A i \in 1 .. Len(tx) : IsBeat(tx[i]) =>
           /\ tx[i].frame.uptime <= tickIndex \div BeatTicks
           /\ tx[i].number = 0 => tx[i].frame.uptime = 0
           /\ firstBeat # None => lastUptime[PowerBeat] <= tx[i].frame.uptime
    /\ \A i, j \in 1 .. Len(tx) : i < j /\ IsBeat(tx[i]) /\ IsBeat(tx[j]) =>
           tx[i].frame.uptime <= tx[j].frame.uptime
    /\ firstBeat # None =>
           /\ lastUptime[PowerBeat] # None
           /\ lastUptime[PowerBeat] <= tickIndex \div BeatTicks

LEMMA QuotientGrows ==
    ASSUME NEW m \in Nat \ {0}, NEW a \in Nat, NEW b \in Nat, a <= b
    PROVE  a \div m \in Int /\ b \div m \in Int /\ a \div m <= b \div m
<1> DEFINE p == a \div m
           q == b \div m
           r == b % m
<1>1. /\ p \in Int /\ q \in Int /\ m * p <= a /\ r < m /\ b = m * q + r
      /\ r \in Int
  OBVIOUS
<1> HIDE DEF p, q, r
<1>2. m * (p - q) = m * p - m * q
  BY <1>1
<1>3. ASSUME p - q >= 1 PROVE FALSE
  <2>1. m * (p - q) >= m
    BY <1>1, <1>3
  <2> QED BY <2>1, <1>1, <1>2
<1>4. p <= q
  BY <1>1, <1>3
<1> QED BY <1>1, <1>4 DEF p, q

LEMMA IndexAdvances ==
    ASSUME NoWrap, NodeInv, ProgressInv, Node!EndIteration
    PROVE  tickIndex' = tickIndex + 1
<1>1. tickIndex' = (tickIndex + 1) % IndexModulus /\ at = "next"
  BY DEF Node!EndIteration
<1>2. tickIndex + 1 < IndexModulus /\ IndexModulus \in Nat \ {0}
  BY <1>1, Numbers, BoundAssumption DEF ProgressInv, NodeInv, NoWrap
<1>3. /\ tickIndex + 1 \in 0 .. IndexModulus - 1 /\ 0 \in Int
      /\ IndexModulus * 0 + (tickIndex + 1) = tickIndex + 1
  BY <1>2 DEF NodeInv
<1>4. (IndexModulus * 0 + (tickIndex + 1)) % IndexModulus = tickIndex + 1
  BY <1>2, <1>3, RemainderIsUnique, Zenon
<1> QED BY <1>1, <1>3, <1>4

LEMMA ProgressSteps ==
    ASSUME NoWrap, NodeInv, ProgressInv, [BenchNext]_benchVars
    PROVE  ProgressInv'
<1>1. CASE Tick
  <2>1. clock' = clock + 1 /\ clock < LastTime /\ LastTime \in Nat
    BY <1>1, BoundAssumption DEF Tick
  <2>2. built' = built /\ tickIndex' = tickIndex /\ tickIndex \in Nat
    BY <1>1 DEF Tick, Node!Wake, nodeState, NodeInv
  <2>3. CASE at = "delay" /\ at' = "service"
    BY <2>1, <2>2, <2>3 DEF ProgressInv
  <2>4. CASE at \in {"start bus", "dead"} /\ at' = at
    <3>1. /\ at # "delay" /\ at' # "delay"
          /\ at' \notin {"beat", "next", "delay"}
      BY <2>4
    <3> QED BY <2>1, <2>2, <3>1 DEF ProgressInv
  <2> QED BY <1>1, <2>2, <2>3, <2>4 DEF Tick, Node!Wake, nodeState
<1>2. CASE NodeStep
  <2>0. clock' = clock /\ tickIndex \in Nat /\ built \in Nat
    BY <1>2 DEF NodeStep, NodeInv
  <2>1. CASE \/ Node!Controller \/ Node!StartBus \/ Node!BootBeat
             \/ Node!ServiceBus
    <3>1. built' = built /\ tickIndex' = tickIndex
      BY <2>1 DEF Node!Controller, Node!StartBus, Node!BootBeat,
                  Node!ServiceBus, Node!programVars
    <3>2. at' = at \/ (at # "delay" /\ at' \notin {"beat", "next", "delay"})
      BY <2>1 DEF Node!Controller, Node!StartBus, Node!BootBeat,
                  Node!ServiceBus, Node!programVars
    <3>3. CASE at' = at
      BY <2>0, <3>1, <3>3 DEF ProgressInv
    <3>4. CASE at # "delay" /\ at' \notin {"beat", "next", "delay"}
      BY <2>0, <3>1, <3>4 DEF ProgressInv
    <3> QED BY <3>2, <3>3, <3>4
  <2>2. CASE Node!SendData
    <3>1. /\ built' = built + 1 /\ tickIndex' = tickIndex
          /\ at = "data" /\ at' \in {"beat", "next"}
      BY <2>2 DEF Node!SendData
    <3> QED BY <2>0, <3>1 DEF ProgressInv
  <2>3. CASE Node!SendBeat
    <3>1. /\ built' = built /\ tickIndex' = tickIndex
          /\ at = "beat" /\ at' = "next"
      BY <2>3 DEF Node!SendBeat
    <3> QED BY <2>0, <3>1 DEF ProgressInv
  <2>4. CASE Node!EndIteration
    <3>1. /\ built' = built /\ tickIndex' = (tickIndex + 1) % IndexModulus
          /\ at = "next" /\ at' = "delay"
      BY <2>4 DEF Node!EndIteration
    <3>2. tickIndex' = tickIndex + 1
      BY <2>4, IndexAdvances
    <3> QED BY <2>0, <3>1, <3>2 DEF ProgressInv
  <2> QED BY <1>2, <2>1, <2>2, <2>3, <2>4 DEF NodeStep, Node!AppMain
<1>3. CASE PowerCycle
  <2>1. /\ clock' = clock /\ built' = 0 /\ tickIndex' = 0 /\ at' = "start bus"
    BY <1>3 DEF PowerCycle, Node!PowerCycle
  <2>2. at' # "delay" /\ at' \notin {"beat", "next", "delay"}
    BY <2>1
  <2>3. clock \in Nat /\ clock <= LastTime
    BY DEF ProgressInv
  <2>4. \A c \in Nat : 0 <= c /\ 0 <= c + 1
    OBVIOUS
  <2>5. 0 <= clock /\ 0 <= clock + 1
    BY <2>3, <2>4, Zenon
  <2> QED BY <2>1, <2>2, <2>3, <2>5 DEF ProgressInv
<1>4. CASE Deliver \/ Lose \/ UNCHANGED benchVars
  <2>1. /\ clock' = clock /\ built' = built /\ tickIndex' = tickIndex
        /\ at' = at /\ tickIndex \in Nat
    BY <1>4 DEF Deliver, Lose, benchVars, nodeState, Node!SendQueued,
                Node!programVars, NodeInv
  <2> QED BY <2>1 DEF ProgressInv
<1> QED BY <1>1, <1>2, <1>3, <1>4 DEF BenchNext

LEMMA QueuedBeats ==
    ASSUME NodeInv, NEW i \in 1 .. Len(tx)
    PROVE  /\ tx[i] \in SentData \cup SentBeats
           /\ tx[i].number \in Nat
           /\ IsBeat(tx[i]) => tx[i].frame.uptime \in Nat
<1>1. tx[i] \in SentData \cup SentBeats
  BY DEF NodeInv
<1>2. ASSUME tx[i] \in SentData
      PROVE  tx[i].number \in Nat /\ ~IsBeat(tx[i])
  BY <1>2, Names DEF SentData, IsBeat
<1>3. ASSUME tx[i] \in SentBeats
      PROVE  tx[i].number \in Nat /\ tx[i].frame.uptime \in Nat
  BY <1>3 DEF SentBeats
<1> QED BY <1>1, <1>2, <1>3

\* Frames that leave the queue, or are dropped from it, keep its order.
LEMMA OrderOfFewer ==
    ASSUME NodeInv, KnowledgeInv, OrderInv,
           tx' = tx \/ tx' = <<>> \/ (tx # <<>> /\ tx' = Tail(tx)),
           tickIndex' \in Nat, tickIndex' >= tickIndex,
           firstBeat' = firstBeat, lastUptime' = lastUptime
    PROVE  OrderInv'
<1> DEFINE u == tickIndex \div BeatTicks
           v == tickIndex' \div BeatTicks
           k == lastUptime[PowerBeat]
<1>1. u <= v /\ u \in Int /\ v \in Int
  <2>1. tickIndex \in Nat /\ tickIndex <= tickIndex' /\ BeatTicks \in Nat \ {0}
    BY Numbers DEF NodeInv
  <2> QED BY <2>1, QuotientGrows, Zenon
<1>2. firstBeat # None => k \in Nat
  BY Names DEF OrderInv, KnowledgeInv
<1>3. \A i \in 1 .. Len(tx') : \E j \in 1 .. Len(tx) : tx'[i] = tx[j]
  BY DEF NodeInv
<1>4. \A i, j \in 1 .. Len(tx') : i < j =>
          \E n, o \in 1 .. Len(tx) : n < o /\ tx'[i] = tx[n] /\ tx'[j] = tx[o]
  <2>1. CASE tx' = tx \/ tx' = <<>>
    BY <2>1
  <2>2. CASE tx # <<>> /\ tx' = Tail(tx)
    <3>1. /\ Len(tx) \in Nat /\ Len(tx') = Len(tx) - 1
          /\ \A i \in 1 .. Len(tx') : tx'[i] = tx[i + 1]
      BY <2>2 DEF NodeInv
    <3>2. SUFFICES ASSUME NEW i \in 1 .. Len(tx'),
                          NEW j \in 1 .. Len(tx'), i < j
                   PROVE  \E n, o \in 1 .. Len(tx) :
                             n < o /\ tx'[i] = tx[n] /\ tx'[j] = tx[o]
      OBVIOUS
    <3>3. /\ i + 1 \in 1 .. Len(tx) /\ j + 1 \in 1 .. Len(tx) /\ i + 1 < j + 1
          /\ tx'[i] = tx[i + 1] /\ tx'[j] = tx[j + 1]
      BY <3>1, <3>2
    <3> QED BY <3>3
  <2> QED BY <2>1, <2>2
<1> HIDE DEF u, v, k
<1>5. ASSUME NEW i \in 1 .. Len(tx'), IsBeat(tx'[i])
      PROVE  /\ tx'[i].frame.uptime <= v
             /\ tx'[i].number = 0 => tx'[i].frame.uptime = 0
             /\ firstBeat # None => k <= tx'[i].frame.uptime
  <2>1. PICK j \in 1 .. Len(tx) : tx'[i] = tx[j]
    BY <1>3
  <2>2. tx[j].frame.uptime \in Nat
    BY <1>5, <2>1, QueuedBeats
  <2> QED BY <1>1, <1>5, <2>1, <2>2 DEF OrderInv, u, k
<1>6. ASSUME NEW i \in 1 .. Len(tx'), NEW j \in 1 .. Len(tx'), i < j,
             IsBeat(tx'[i]), IsBeat(tx'[j])
      PROVE  tx'[i].frame.uptime <= tx'[j].frame.uptime
  <2>1. PICK n, o \in 1 .. Len(tx) : n < o /\ tx'[i] = tx[n] /\ tx'[j] = tx[o]
    BY <1>4, <1>6
  <2> QED BY <1>6, <2>1 DEF OrderInv
<1>7. firstBeat # None => k # None /\ k <= v
  BY <1>1, <1>2, Numbers DEF OrderInv, u, k
<1> QED BY <1>5, <1>6, <1>7 DEF OrderInv, IsBeat, v, k

\* A frame that is queued is the last, and its uptime the node's.
LEMMA OrderOfMore ==
    ASSUME NodeInv, KnowledgeInv, OrderInv, NEW f, NEW n,
           tx' = Append(tx, [frame |-> f, number |-> n]),
           tickIndex' = tickIndex,
           \/ f.message # PowerBeat
           \/ f.uptime = tickIndex \div BeatTicks /\ (n = 0 => tickIndex = 0),
           firstBeat' = firstBeat, lastUptime' = lastUptime
    PROVE  OrderInv'
<1> DEFINE u == tickIndex \div BeatTicks
           k == lastUptime[PowerBeat]
           last == Len(tx) + 1
<1>1. u \in Nat /\ (tickIndex = 0 => u = 0)
  BY Numbers DEF NodeInv
<1>2. firstBeat # None => k \in Nat /\ k <= u
  BY Names DEF OrderInv, KnowledgeInv
<1>3. /\ Len(tx) \in Nat /\ Len(tx') = last
      /\ tx'[last] = [frame |-> f, number |-> n]
      /\ \A i \in 1 .. Len(tx) : tx'[i] = tx[i]
  BY DEF NodeInv
<1>4. IsBeat(tx'[last]) =>
          tx'[last].frame.uptime = u /\ (tx'[last].number = 0 => u = 0)
  BY <1>1, <1>3 DEF IsBeat
<1> HIDE DEF u, k
<1>5. ASSUME NEW i \in 1 .. Len(tx'), IsBeat(tx'[i])
      PROVE  /\ tx'[i].frame.uptime <= u
             /\ tx'[i].number = 0 => tx'[i].frame.uptime = 0
             /\ firstBeat # None => k <= tx'[i].frame.uptime
  <2>1. CASE i = last
    BY <1>1, <1>2, <1>4, <1>5, <2>1
  <2>2. CASE i \in 1 .. Len(tx)
    BY <1>3, <1>5, <2>2 DEF OrderInv, u, k
  <2> QED BY <1>3, <1>5, <2>1, <2>2
<1>6. ASSUME NEW i \in 1 .. Len(tx'), NEW j \in 1 .. Len(tx'), i < j,
             IsBeat(tx'[i]), IsBeat(tx'[j])
      PROVE  tx'[i].frame.uptime <= tx'[j].frame.uptime
  <2>1. i \in 1 .. Len(tx)
    BY <1>3, <1>6
  <2>2. CASE j = last
    BY <1>4, <1>5, <1>6, <2>2
  <2>3. CASE j \in 1 .. Len(tx)
    BY <1>3, <1>6, <2>1, <2>3 DEF OrderInv
  <2> QED BY <1>3, <1>6, <2>2, <2>3
<1>7. firstBeat # None => k # None /\ k <= u
  BY <1>2, Numbers
<1> QED BY <1>5, <1>6, <1>7 DEF OrderInv, IsBeat, u, k

\* The first heartbeat of the queue is the lowest.
LEMMA OrderAfterBeat ==
    ASSUME BenchInv, OrderInv, Deliver, ~DeliversData
    PROVE  OrderInv'
<1> DEFINE h == Arrival.frame.uptime
<1>1. Arrival.frame.message = PowerBeat /\ h \in Nat
  BY BeatArrival DEF BenchInv
<1>2. /\ tx # <<>> /\ tx' = Tail(tx) /\ tickIndex' = tickIndex
  BY DEF Deliver, Node!SendQueued, Node!programVars
<1>3. lastUptime'[PowerBeat] = h
  <2>1. lastUptime' = [lastUptime EXCEPT ![PowerBeat] = h]
    BY <1>1, Names, Numbers DEF Deliver, ProcessKnown
  <2> QED BY <2>1, Names DEF BenchInv, KnowledgeInv
<1>4. /\ Len(tx) \in Nat /\ 1 \in 1 .. Len(tx) /\ Len(tx') = Len(tx) - 1
      /\ Arrival = tx[1]
      /\ \A i \in 1 .. Len(tx') : i + 1 \in 1 .. Len(tx) /\ tx'[i] = tx[i + 1]
  BY <1>2 DEF BenchInv, NodeInv, Arrival
<1>5. h <= tickIndex \div BeatTicks /\ h # None
  BY <1>1, <1>4, Numbers DEF OrderInv, IsBeat
<1>6. ASSUME NEW i \in 1 .. Len(tx'), IsBeat(tx'[i])
      PROVE  /\ tx'[i].frame.uptime <= tickIndex \div BeatTicks
             /\ tx'[i].number = 0 => tx'[i].frame.uptime = 0
             /\ h <= tx'[i].frame.uptime
  <2>1. i + 1 \in 1 .. Len(tx) /\ tx'[i] = tx[i + 1] /\ 1 < i + 1
    BY <1>4, <1>6
  <2>2. IsBeat(tx[i + 1]) /\ IsBeat(tx[1])
    BY <1>1, <1>4, <1>6, <2>1 DEF IsBeat
  <2>3. tx[1].frame.uptime <= tx[i + 1].frame.uptime
    BY <1>4, <2>1, <2>2 DEF OrderInv
  <2>4. /\ tx[i + 1].frame.uptime <= tickIndex \div BeatTicks
        /\ tx[i + 1].number = 0 => tx[i + 1].frame.uptime = 0
    BY <2>1, <2>2 DEF OrderInv
  <2> QED BY <1>4, <2>1, <2>3, <2>4
<1>7. ASSUME NEW i \in 1 .. Len(tx'), NEW j \in 1 .. Len(tx'), i < j,
             IsBeat(tx'[i]), IsBeat(tx'[j])
      PROVE  tx'[i].frame.uptime <= tx'[j].frame.uptime
  <2>1. /\ i + 1 \in 1 .. Len(tx) /\ tx'[i] = tx[i + 1]
        /\ j + 1 \in 1 .. Len(tx) /\ tx'[j] = tx[j + 1] /\ i + 1 < j + 1
    BY <1>4, <1>7
  <2> QED BY <1>7, <2>1 DEF OrderInv
<1> HIDE DEF h
<1> QED BY <1>2, <1>3, <1>5, <1>6, <1>7 DEF OrderInv, IsBeat

LEMMA OrderSteps ==
    ASSUME NoWrap, BenchInv, ProgressInv, OrderInv, [BenchNext]_benchVars
    PROVE  OrderInv'
<1>1. NodeInv /\ KnowledgeInv /\ tickIndex \in Nat
  BY DEF BenchInv, NodeInv
<1>2. ASSUME firstBeat' = firstBeat, lastUptime' = lastUptime,
             tickIndex' = tickIndex,
             tx' = tx \/ tx' = <<>> \/ (tx # <<>> /\ tx' = Tail(tx))
      PROVE  OrderInv'
  <2>1. tickIndex' \in Nat /\ tickIndex' >= tickIndex
    BY <1>1, <1>2
  <2> QED BY <1>1, <1>2, <2>1, OrderOfFewer
<1>3. CASE Tick \/ Lose \/ UNCHANGED benchVars
  BY <1>2, <1>3 DEF Tick, Lose, benchVars, nodeState, vars, messageVars,
                    benchHistory, Node!Wake, Node!SendQueued, Node!programVars
<1>4. CASE NodeStep
  <2>1. firstBeat' = firstBeat /\ lastUptime' = lastUptime
    BY <1>4 DEF NodeStep, vars, messageVars, benchHistory
  <2>2. CASE Node!Controller \/ Node!StartBus
    BY <1>2, <2>1, <2>2 DEF Node!Controller, Node!StartBus, Node!programVars
  <2>3. CASE Node!ServiceBus
    <3>1. tx' = <<>> \/ tx' = tx
      BY <2>3 DEF Node!ServiceBus
    <3> QED BY <1>2, <2>1, <2>3, <3>1 DEF Node!ServiceBus
  <2>4. CASE Node!EndIteration
    <3>1. tickIndex' \in Nat /\ tickIndex' >= tickIndex
      BY <1>1, <2>4, IndexAdvances
    <3> QED BY <1>1, <2>1, <2>4, <3>1, OrderOfFewer DEF Node!EndIteration
  <2>5. CASE Node!BootBeat \/ Node!SendBeat
    <3>1. tickIndex' = tickIndex /\ Node!Send(Node!Heartbeat)
      BY <2>5 DEF Node!BootBeat, Node!SendBeat
    <3>2. CASE Node!Refuses
      BY <1>2, <2>1, <3>1, <3>2 DEF Node!Refuses
    <3>3. CASE Node!Accepts(Node!Heartbeat)
      <4>1. /\ tx' = Append(tx, [frame |-> Node!Heartbeat, number |-> built])
            /\ Node!Heartbeat.uptime = tickIndex \div BeatTicks
            /\ built = 0 => tickIndex = 0
        BY <3>3 DEF Node!Accepts, Node!Heartbeat, ProgressInv
      <4> QED BY <1>1, <2>1, <3>1, <4>1, OrderOfMore
    <3> QED BY <3>1, <3>2, <3>3 DEF Node!Send
  <2>6. CASE Node!SendData
    <3>1. tickIndex' = tickIndex /\ Node!Send(Node!DataFrame)
      BY <2>6 DEF Node!SendData
    <3>2. CASE Node!Refuses
      BY <1>2, <2>1, <3>1, <3>2 DEF Node!Refuses
    <3>3. CASE Node!Accepts(Node!DataFrame)
      <4>1. /\ tx' = Append(tx, [frame |-> Node!DataFrame, number |-> built])
            /\ Node!DataFrame.message # PowerBeat
        BY <3>3, Names DEF Node!Accepts, Node!DataFrame
      <4> QED BY <1>1, <2>1, <3>1, <4>1, OrderOfMore
    <3> QED BY <3>1, <3>2, <3>3 DEF Node!Send
  <2> QED BY <1>4, <2>2, <2>3, <2>4, <2>5, <2>6 DEF NodeStep, Node!AppMain
<1>5. CASE PowerCycle
  <2>1. tx' = <<>> /\ firstBeat' = None
    BY <1>5 DEF PowerCycle, Node!PowerCycle
  <2>2. Len(tx') = 0 /\ 1 .. Len(tx') = {}
    BY <2>1
  <2> QED BY <2>1, <2>2 DEF OrderInv
<1>6. CASE DeliversData
  <2>1. firstBeat' = firstBeat /\ lastUptime' = lastUptime
    BY <1>6, Names DEF DeliversData, Deliver, ProcessKnown
  <2> QED BY <1>2, <1>6, <2>1
          DEF DeliversData, Deliver, Node!SendQueued, Node!programVars
<1>7. CASE Deliver /\ ~DeliversData
  BY <1>7, OrderAfterBeat
<1> QED BY <1>3, <1>4, <1>5, <1>6, <1>7 DEF BenchNext

\* The restart among the findings of a call is that of the uptime check.
LEMMA RestartOfCall ==
    ASSUME NEW f, NEW t, ProcessKnown(f, t)
    PROVE  RestartReported <=> UptimeFell(f)
<1>1. ASSUME UptimeFell(f) PROVE RestartReported
  <2>1. Restart(Sender[f.message], t) \in produced'
    BY <1>1 DEF ProcessKnown, RestartFindings
  <2>2. Restart(Sender[f.message], t).kind = "restart"
    BY DEF Restart
  <2> QED BY <2>1, <2>2 DEF RestartReported
<1>2. ASSUME NEW e \in produced', e.kind = "restart" PROVE UptimeFell(f)
  <2>1. ASSUME e \in TimeoutFindings(t) PROVE FALSE
    BY <1>2, <2>1 DEF TimeoutFindings, Stale, Silent
  <2>2. ASSUME e \in RecoveryFindings(f, t) PROVE FALSE
    BY <1>2, <2>2 DEF RecoveryFindings, Recovered, NodeRecovered
  <2>3. ASSUME e \in GapFindings(f, t) PROVE FALSE
    BY <1>2, <2>3 DEF GapFindings, Gap
  <2>4. ASSUME e \in RangeFindings(f, t) PROVE FALSE
    BY <1>2, <2>4 DEF RangeFindings, RangeViolation, RangeRecovered
  <2>5. e \in RestartFindings(f, t)
    BY <2>1, <2>2, <2>3, <2>4 DEF ProcessKnown
  <2> QED BY <2>5 DEF RestartFindings
<1> QED BY <1>1, <1>2 DEF RestartReported

LEMMA RestartInit == BenchInit => ProgressInv /\ OrderInv
<1> SUFFICES ASSUME BenchInit PROVE ProgressInv /\ OrderInv
  OBVIOUS
<1>1. clock = 0 /\ built = 0 /\ tickIndex = 0
  BY DEF BenchInit, Node!PowerInit
<1>2. at = "start bus"
  BY DEF BenchInit, Node!PowerInit
<1>3. tx = <<>> /\ firstBeat = None
  BY DEF BenchInit, Node!PowerInit
<1>4. Len(tx) = 0
  BY <1>3
<1>5. 1 .. Len(tx) = {}
  BY <1>4
<1>6. LastTime \in Nat
  BY BoundAssumption
<1>7. ProgressInv
  <2>1. clock \in Nat /\ clock <= LastTime
    BY <1>1, <1>6
  <2>2. tickIndex <= clock + 1 /\ tickIndex <= clock
    BY <1>1
  <2>3. at \notin {"beat", "next", "delay"}
    BY <1>2
  <2> QED BY <1>1, <2>1, <2>2, <2>3 DEF ProgressInv
<1>8. OrderInv
  BY <1>3, <1>5 DEF OrderInv
<1> QED BY <1>7, <1>8

\* A restart is reported only for a reboot, and for every reboot whose boot
\* heartbeat arrives after an uptime above zero, as long as the index of the
\* loop does not come round: monitor.py:344-362 against
\* power_monitor_main.c:55-103.
THEOREM RestartsAreTrue ==
    ASSUME NoWrap PROVE BenchSpec => RestartsAreReboots
<1> DEFINE RestartInv == ProgressInv /\ OrderInv
<1>1. BenchInit => RestartInv
  BY RestartInit
<1>2. BenchInv /\ RestartInv /\ [BenchNext]_benchVars => RestartInv'
  BY ProgressSteps, OrderSteps DEF BenchInv
<1>3. ASSUME BenchInv, RestartInv, DeliversBeat
      PROVE  /\ RestartReported => firstBeat = None /\ priorBeat # None
             /\ (firstBeat = None /\ Arrival.number = 0
                   /\ priorBeat \notin {None, 0}) => RestartReported
  <2> DEFINE h == Arrival.frame.uptime
             k == lastUptime[PowerBeat]
  <2>1. Arrival.frame.message = PowerBeat /\ Deliver /\ ~DeliversData
    BY <1>3, Names DEF DeliversBeat, DeliversData
  <2>2. h \in Nat /\ k \in Nat \cup {None}
    BY <1>3, <2>1, BeatArrival, Names DEF BenchInv, KnowledgeInv
  <2>3. RestartReported <=> k # None /\ h < k
    <3>1. RestartReported <=> UptimeFell(Arrival.frame)
      BY <2>1, RestartOfCall DEF Deliver
    <3> QED BY <2>1, <2>2, <3>1, Names, Numbers DEF UptimeFell
  <2>4. /\ 1 \in 1 .. Len(tx) /\ Arrival = tx[1] /\ IsBeat(tx[1])
    BY <1>3, <2>1
    DEF BenchInv, NodeInv, Deliver, Node!SendQueued, Arrival, IsBeat
  <2>5. firstBeat # None => k # None /\ k <= h
    BY <1>3, <2>4 DEF OrderInv
  <2>6. Arrival.number = 0 => h = 0
    BY <1>3, <2>4 DEF OrderInv
  <2>7. firstBeat = None => k = priorBeat
    BY <1>3 DEF BenchInv, KnowledgeInv
  <2> HIDE DEF h, k
  <2>8. RestartReported => firstBeat = None
    BY <2>2, <2>3, <2>5, Numbers
  <2>9. k # None /\ k # 0 => k > 0
    BY <2>2
  <2> QED BY <2>3, <2>6, <2>7, <2>8, <2>9
<1>4. BenchInv /\ RestartInv /\ [BenchNext]_benchVars =>
          [DeliversBeat =>
              /\ RestartReported => firstBeat = None /\ priorBeat # None
              /\ (firstBeat = None /\ Arrival.number = 0
                    /\ priorBeat \notin {None, 0}) => RestartReported]_benchVars
  BY <1>3
<1> HIDE DEF RestartInv
<1> QED BY <1>1, <1>2, <1>4, BenchInductive, PTL
        DEF BenchSpec, RestartsAreReboots

-----------------------------------------------------------------------------
(* Losses.                                                                  *)

\* A restart suppresses gaps for longer than a data frame may be late, as it
\* does with the default thresholds.
SuppressionCovers == StaleAfter[PowerData] <= RestartSuppression

\* A message that is flagged is past its threshold, and the counter that the
\* monitor has not got was dropped by a restart after the latest data frame.
BaselineInv ==
    /\ clock \in Nat
    /\ lastSeen[PowerData] \in Nat \cup {None}
    /\ lastRestart[Sender[PowerData]] \in Nat \cup {None}
    /\ staleSince[PowerData] # None =>
           /\ lastSeen[PowerData] # None
           /\ clock - lastSeen[PowerData] > StaleAfter[PowerData]
    /\ gotData # None =>
           /\ lastSeen[PowerData] # None /\ lastSeen[PowerData] <= clock
           /\ lastSequence[PowerData] = None =>
                  /\ lastRestart[Sender[PowerData]] # None
                  /\ lastSeen[PowerData] <= lastRestart[Sender[PowerData]]

\* The functions that hold what the monitor remembers.
TablesInv ==
    /\ DOMAIN lastSeen = Messages
    /\ DOMAIN staleSince = Messages
    /\ DOMAIN lastRestart = Nodes

LEMMA Thresholds ==
    /\ StaleAfter[PowerData] \in Nat \ {0}
    /\ RestartSuppression \in Nat \ {0} /\ MaxReportableGap \in Nat \ {0}
    /\ Sender[PowerData] \in Nodes
BY Names, ConfigAssumption, DatabaseAssumption

LEMMA TablesSteps ==
    ASSUME TablesInv, [BenchNext]_benchVars
    PROVE  TablesInv'
<1>1. ASSUME UNCHANGED vars PROVE TablesInv'
  BY <1>1 DEF TablesInv, vars, messageVars, nodeVars
<1>2. CASE Deliver
  <2>1. ProcessKnown(Arrival.frame, clock)
    BY <1>2 DEF Deliver
  <2>2. DOMAIN lastSeen' = Messages /\ DOMAIN lastRestart' = Nodes
    BY <2>1 DEF ProcessKnown, TablesInv
  <2>3. DOMAIN staleSince' = Messages
    BY <2>1 DEF ProcessKnown
  <2> QED BY <2>2, <2>3 DEF TablesInv
<1>3. CASE Tick \/ NodeStep \/ PowerCycle \/ Lose \/ UNCHANGED benchVars
  BY <1>1, <1>3 DEF Tick, NodeStep, PowerCycle, Lose, benchVars
<1> QED BY <1>2, <1>3 DEF BenchNext

LEMMA BaselineAfterData ==
    ASSUME BenchInv, TablesInv, BaselineInv, DeliversData
    PROVE  BaselineInv'
<1> DEFINE f == Arrival.frame
<1>1. ProcessKnown(f, clock) /\ f.message = PowerData
  BY DEF DeliversData, Deliver
<1>2. ~UptimeFell(f) /\ ReadsCounter(f)
  BY DataArrival DEF BenchInv
<1>3. f.sequence # None
  BY <1>2 DEF ReadsCounter
<1> HIDE DEF f
<1>4. lastSeen'[PowerData] = clock /\ staleSince'[PowerData] = None
  BY <1>1, Names DEF ProcessKnown, TablesInv
<1>5. lastSequence'[PowerData] # None
  BY <1>1, <1>2, <1>3, Names DEF ProcessKnown, SequenceAfter
<1>6. lastRestart' = lastRestart /\ clock' = clock
  BY <1>1, <1>2 DEF ProcessKnown, DeliversData, Deliver
<1> QED BY <1>4, <1>5, <1>6, Numbers DEF BaselineInv

LEMMA BaselineAfterBeat ==
    ASSUME BenchInv, TablesInv, BaselineInv, Deliver, ~DeliversData
    PROVE  BaselineInv'
<1> DEFINE f == Arrival.frame
           n == Sender[PowerData]
<1>1. ProcessKnown(f, clock) /\ f.message = PowerBeat /\ f.sequence = None
  BY BeatArrival DEF Deliver, BenchInv
<1>2. clock' = clock /\ gotData' = gotData
  BY <1>1, Names DEF Deliver
<1> HIDE DEF f
<1>3. lastSeen'[PowerData] = lastSeen[PowerData]
  BY <1>1, Names DEF ProcessKnown, TablesInv
<1>4. staleSince'[PowerData] = StalePoint(PowerData, clock)
  BY <1>1, Names DEF ProcessKnown
<1>5. staleSince'[PowerData] # None =>
          /\ lastSeen[PowerData] # None
          /\ clock - lastSeen[PowerData] > StaleAfter[PowerData]
  BY <1>4 DEF StalePoint, GoesStale, BaselineInv
<1>6. CASE UptimeFell(f)
  <2>1. lastRestart'[n] = clock
    BY <1>1, <1>6, Names, Thresholds DEF ProcessKnown, TablesInv
  <2> QED BY <1>2, <1>3, <1>5, <2>1, Numbers DEF BaselineInv
<1>7. CASE ~UptimeFell(f)
  <2>1. lastRestart' = lastRestart
    BY <1>1, <1>7 DEF ProcessKnown
  <2>2. lastSequence'[PowerData] = lastSequence[PowerData]
    BY <1>1, <1>7, Names DEF ProcessKnown, SequenceAfter
  <2> QED BY <1>2, <1>3, <1>5, <2>1, <2>2 DEF BaselineInv
<1> QED BY <1>6, <1>7

LEMMA BaselineSteps ==
    ASSUME BenchInv, TablesInv, BaselineInv, [BenchNext]_benchVars
    PROVE  BaselineInv'
<1>1. CASE Tick
  <2>1. clock' = clock + 1 /\ UNCHANGED <<vars, benchHistory>>
    BY <1>1 DEF Tick
  <2> QED BY <2>1, Thresholds
          DEF BaselineInv, vars, messageVars, nodeVars, benchHistory
<1>2. CASE PowerCycle
  <2>1. clock' = clock /\ gotData' = None /\ UNCHANGED vars
    BY <1>2 DEF PowerCycle
  <2> QED BY <2>1 DEF BaselineInv, vars, messageVars, nodeVars
<1>3. CASE Deliver
  BY <1>3, BaselineAfterData, BaselineAfterBeat
<1>4. CASE NodeStep \/ Lose \/ UNCHANGED benchVars
  <2>1. clock' = clock /\ UNCHANGED <<vars, benchHistory>>
    BY <1>4 DEF NodeStep, Lose, benchVars
  <2> QED BY <2>1 DEF BaselineInv, vars, messageVars, nodeVars, benchHistory
<1> QED BY <1>1, <1>2, <1>3, <1>4 DEF BenchNext

\* The data frame that arrives after a loss finds the counter of the frame
\* before it, and the gap is reported.
LEMMA LossShows ==
    ASSUME SuppressionCovers, BenchInv, BaselineInv, DeliversData,
           gotData # None,
           clock - lastSeen[PowerData] <= StaleAfter[PowerData],
           \/ lastRestart[Sender[PowerData]] = None
           \/ clock - lastRestart[Sender[PowerData]] > RestartSuppression,
           Missed % CounterModulus \in 1 .. MaxReportableGap
    PROVE  GapsIn(produced') # {}
<1> DEFINE f == Arrival.frame
           n == Sender[PowerData]
           gap == Gap(PowerData, clock, Missed % CounterModulus)
<1>1. ProcessKnown(f, clock) /\ f.message = PowerData
  BY DEF DeliversData, Deliver
<1>2. /\ Arrival.number \in Nat /\ ReadsCounter(f)
      /\ f.sequence = Arrival.number % CounterModulus
  BY DataArrival DEF BenchInv
<1> HIDE DEF f
<1>3. /\ clock \in Nat /\ lastSeen[PowerData] \in Nat
      /\ staleSince[PowerData] = None
  BY Thresholds DEF BaselineInv
<1>4. ~WasStale(PowerData, clock)
  BY <1>3, Thresholds DEF WasStale, StalePoint, GoesStale
<1>5. lastSequence[PowerData] # None
  <2> SUFFICES ASSUME lastSequence[PowerData] = None PROVE FALSE
    OBVIOUS
  <2>1. lastRestart[n] \in Nat /\ lastSeen[PowerData] <= lastRestart[n]
    BY DEF BaselineInv
  <2>2. clock - lastRestart[n] > RestartSuppression
    BY <2>1, Numbers
  <2> QED BY <1>3, <2>1, <2>2, Thresholds DEF SuppressionCovers
<1>6. /\ gotData \in Nat
      /\ Baseline(PowerData, clock) = gotData % CounterModulus
      /\ Baseline(PowerData, clock) # None
  BY <1>4, <1>5 DEF Baseline, BenchInv, KnowledgeInv
<1>7. ForwardDistance(Baseline(PowerData, clock), f.sequence)
      = Missed % CounterModulus
  BY <1>2, <1>6, DistanceOfNumbers DEF Missed
<1>8. ~RestartSuppressed(n, clock)
  BY <1>3, Thresholds DEF RestartSuppressed, BaselineInv
<1>9. Missed % CounterModulus # 0 /\ Missed % CounterModulus <= MaxReportableGap
  BY Thresholds
<1>10. gap \in GapFindings(f, clock)
  <2> HIDE DEF gap
  <2> QED BY <1>1, <1>2, <1>6, <1>7, <1>8, <1>9 DEF GapFindings, gap
<1>11. gap \in produced' /\ gap.kind = "gap"
  BY <1>1, <1>10 DEF ProcessKnown, Gap
<1> QED BY <1>11 DEF GapsIn

\* Missed frames are reported as a gap unless an outage or a restart is
\* reported in its place, if a restart suppresses gaps for at least as long as
\* a data frame may be late: monitor.py:394-420 against
\* power_monitor_main.c:40-53.
THEOREM LossesAreReported ==
    ASSUME SuppressionCovers PROVE BenchSpec => LossIsReported
<1>1. BenchInit => TablesInv /\ BaselineInv
  <2> SUFFICES ASSUME BenchInit PROVE TablesInv /\ BaselineInv
    OBVIOUS
  <2>1. /\ lastSeen = [m \in Messages |-> None]
        /\ staleSince = [m \in Messages |-> None]
        /\ lastRestart = [n \in Nodes |-> None]
        /\ clock = 0 /\ gotData = None
    BY DEF BenchInit, Init
  <2> QED BY <2>1, Names, Thresholds DEF TablesInv, BaselineInv
<1>2. BenchInv /\ TablesInv /\ BaselineInv /\ [BenchNext]_benchVars
          => (TablesInv /\ BaselineInv)'
  BY TablesSteps, BaselineSteps
<1>3. BenchInv /\ BaselineInv /\ [BenchNext]_benchVars =>
          [(/\ DeliversData
            /\ gotData # None
            /\ clock - lastSeen[PowerData] <= StaleAfter[PowerData]
            /\ \/ lastRestart[Sender[PowerData]] = None
               \/ clock - lastRestart[Sender[PowerData]] > RestartSuppression
            /\ Missed % CounterModulus \in 1 .. MaxReportableGap)
           => GapsIn(produced') # {}]_benchVars
  BY LossShows
<1> QED BY <1>1, <1>2, <1>3, BenchInductive, PTL DEF BenchSpec, LossIsReported
=============================================================================
