-------------------------- MODULE RegenerationProofs --------------------------
(****************************************************************************)
(* A node that the scenario leaves alone raises no finding, for every       *)
(* jitter within its bounds, every counter modulus and all thresholds that  *)
(* exceed the periods by twice the jitter, whatever befalls the other node. *)
(* Frames of such a node arrive a period apart, but for the jitter of both; *)
(* so does whatever else the generator sends in between, and a look comes   *)
(* with a frame only.                                                       *)
(*                                                                          *)
(* A node that is injected into raises what the scenario declares, once     *)
(* and in time.  What the monitor has of it is a function of the tick, but  *)
(* for the jitter: the second half follows the node through its outage, its *)
(* skip and its invalid measurements.                                       *)
(****************************************************************************)
EXTENDS Regeneration, TLAPS, FiniteSetTheorems

\* The scenario leaves the node alone.
Healthy(n) == \A i \in scenario.injections : i.node # n

\* The time of a tick.
Base(k) == Epoch + Generator!DataPeriod * k

\* What is sent at a phase of a tick is stamped then, give or take the jitter.
Due(k, phase) ==
    Base(k) + phase - Generator!MaxJitter .. Base(k) + phase + Generator!MaxJitter

\* All frames of a tick are stamped by then.
LatestPhase == 60

Pending(m) == \E i \in 1 .. Len(capture) : capture[i].frame.message = m

\* The frames of the latest tick wait in the order of their times.
CaptureInv ==
    /\ tick \in Nat
    /\ \E S : capture \in Seq(S)
    /\ \A i \in 1 .. Len(capture) :
          /\ capture[i].at \in Int
          /\ capture[i].at <= Base(tick - 1) + LatestPhase + Generator!MaxJitter
          /\ capture[i].frame.message \in Messages
    /\ \A i, j \in 1 .. Len(capture) : i < j => capture[i].at < capture[j].at
    /\ named \subseteq Nodes
    /\ DOMAIN lastSeen = Messages
    /\ DOMAIN lastUptime = Messages
    /\ DOMAIN rangeSince = Messages

\* The message of a node is due in the latest tick.
DataEntry(n, x) ==
    /\ x.frame.message = DataMessage[n]
    /\ x.frame.sequence \in Counters
    /\ x.frame.value[Temperature] = "valid"
    /\ x.at \in Due(tick - 1, Generator!DataPhase[n])

BeatEntry(n, x) ==
    /\ x.frame.message = HeartbeatMessage[n]
    /\ x.frame.uptime = (tick - 1) \div Generator!TicksPerHeartbeat
    /\ x.frame.value[Temperature] = "absent"
    /\ (tick - 1) % Generator!TicksPerHeartbeat = 0
    /\ x.at \in Due(tick - 1, Generator!HeartbeatPhase[n])

\* What waits of a healthy node is of the latest tick, one frame each.
WaitingInv(n) ==
    /\ \A i \in 1 .. Len(capture) :
          Sender[capture[i].frame.message] = n =>
              DataEntry(n, capture[i]) \/ BeatEntry(n, capture[i])
    /\ \A i, j \in 1 .. Len(capture) :
          /\ Sender[capture[i].frame.message] = n
          /\ capture[i].frame.message = capture[j].frame.message
          => i = j

\* The node's counter follows what waits, and that what the monitor has.
Follows(next, previous) ==
    previous # None => /\ previous \in Counters
                       /\ next = (previous + 1) % CounterModulus

CounterInv(n) ==
    LET m == DataMessage[n]
    IN  /\ model[n].counter \in Counters
        /\ ~Pending(m) => Follows(model[n].counter, lastSequence[m])
        /\ ~CheckSequence => lastSequence[m] = None
        /\ \A i \in 1 .. Len(capture) : capture[i].frame.message = m =>
              /\ Follows(capture[i].frame.sequence, lastSequence[m])
              /\ model[n].counter =
                     (capture[i].frame.sequence + 1) % CounterModulus

\* The node runs from the first tick.
RunInv(n) ==
    model[n] = [counter  |-> model[n].counter,
                bootTick |-> 0,
                booted   |-> tick > 0]

\* The ticks of the frames that the monitor got last.
LastData(n) == tick - 1 - (IF Pending(DataMessage[n]) THEN 1 ELSE 0)
LastBeat(n) ==
    Generator!TicksPerHeartbeat
    * ((tick - 1) \div Generator!TicksPerHeartbeat
       - (IF Pending(HeartbeatMessage[n]) THEN 1 ELSE 0))

SeenInv(n) ==
    LET d == DataMessage[n]
        b == HeartbeatMessage[n]
    IN  /\ lastSeen[d] # None =>
               /\ lastSeen[d] \in Int
               /\ lastSeen[d] >= Base(LastData(n)) + Generator!DataPhase[n]
                                 - Generator!MaxJitter
        /\ lastSeen[b] # None =>
               /\ lastSeen[b] \in Int
               /\ lastSeen[b] >= Base(LastBeat(n)) + Generator!HeartbeatPhase[n]
                                 - Generator!MaxJitter
        /\ \A m \in Messages \ {d, b} : Sender[m] = n => lastSeen[m] = None
        /\ lastUptime[b] # None =>
               /\ lastUptime[b] \in Int
               /\ lastUptime[b] <= (tick - 1) \div Generator!TicksPerHeartbeat

\* The monitor has nothing against it.
QuietInv(n) ==
    /\ \A m \in Messages : Sender[m] = n =>
          staleSince[m] = None /\ \A s \in Signals : rangeSince[m][s] = None
    /\ silentSince[n] = None
    /\ n \notin named

HealthyInv(n) ==
    WaitingInv(n) /\ CounterInv(n) /\ RunInv(n) /\ SeenInv(n) /\ QuietInv(n)

RegenerationInv ==
    CaptureInv /\ \A n \in Nodes : Healthy(n) => HealthyInv(n)

-----------------------------------------------------------------------------
(* The node that is injected into, tick by tick.                            *)

Faulty == scenario = Generator!FaultSession
Reboots == scenario = Generator!RestartSession

\* The ticks without frames; a scenario without any never gets to tick 1000.
OutageStart == IF Faulty THEN 300 ELSE IF Reboots THEN 100 ELSE 1000
OutageEnd == IF Faulty THEN 330 ELSE IF Reboots THEN 120 ELSE 1000
Out(k) == OutageStart <= k /\ k < OutageEnd

OutOfRange(k) == Faulty /\ 150 <= k /\ k < 200
SkipAt(k) == IF Faulty /\ k = 450 THEN Generator!SkipCount ELSE 0
UptimeAt(k) ==
    (IF Reboots /\ k >= OutageEnd THEN k - OutageEnd ELSE k)
        \div Generator!TicksPerHeartbeat

\* The ticks that the monitor is done with, as to each message, and the ticks
\* of the frames that it got last.
Done(m) == tick - 1 - (IF Pending(m) THEN 1 ELSE 0)
DataGot(k) == IF Out(k) THEN OutageStart - 1 ELSE k
BeatGot(k) ==
    IF Out(k) THEN OutageStart - Generator!TicksPerHeartbeat
    ELSE Generator!TicksPerHeartbeat * (k \div Generator!TicksPerHeartbeat)

InjectedData == DataMessage[ThermalNode]
InjectedBeat == HeartbeatMessage[ThermalNode]

InjectedDataEntry(x) ==
    /\ x.frame.message = InjectedData
    /\ x.frame.sequence \in Counters
    /\ x.frame.value[Temperature] =
           IF OutOfRange(tick - 1) THEN "invalid" ELSE "valid"
    /\ ~Out(tick - 1)
    /\ x.at \in Due(tick - 1, Generator!DataPhase[ThermalNode])

InjectedBeatEntry(x) ==
    /\ x.frame.message = InjectedBeat
    /\ x.frame.uptime = UptimeAt(tick - 1)
    /\ x.frame.value[Temperature] = "absent"
    /\ ~Out(tick - 1)
    /\ (tick - 1) % Generator!TicksPerHeartbeat = 0
    /\ x.at \in Due(tick - 1, Generator!HeartbeatPhase[ThermalNode])

ThermalWaiting ==
    /\ \A i \in 1 .. Len(capture) :
          Sender[capture[i].frame.message] = ThermalNode =>
              InjectedDataEntry(capture[i]) \/ InjectedBeatEntry(capture[i])
    /\ \A i, j \in 1 .. Len(capture) :
          /\ Sender[capture[i].frame.message] = ThermalNode
          /\ capture[i].frame.message = capture[j].frame.message
          => i = j
    /\ /\ Pending(InjectedData)
       /\ (tick - 1) % Generator!TicksPerHeartbeat = 0
       => Pending(InjectedBeat)

ThermalRun ==
    model[ThermalNode] =
        [counter  |-> model[ThermalNode].counter,
         bootTick |-> IF Reboots /\ tick > OutageEnd THEN OutageEnd ELSE 0,
         booted   |-> tick > 0 /\ ~(Reboots /\ Out(tick - 1))]

\* A frame's counter follows the one before but for a skip, unless the monitor
\* has forgotten that one by then.
ThermalCounter ==
    /\ model[ThermalNode].counter \in Counters
    /\ ~Pending(InjectedData) =>
           Follows(model[ThermalNode].counter, lastSequence[InjectedData])
    /\ \A i \in 1 .. Len(capture) : capture[i].frame.message = InjectedData =>
          /\ \E c \in Counters :
                /\ Follows(c, lastSequence[InjectedData]) \/ tick - 1 = OutageEnd
                /\ capture[i].frame.sequence =
                       (c + SkipAt(tick - 1)) % CounterModulus
          /\ model[ThermalNode].counter =
                 (capture[i].frame.sequence + 1) % CounterModulus
    /\ ~Reboots /\ Done(InjectedData) >= 0 => lastSequence[InjectedData] # None

ThermalSeen ==
    /\ IF Done(InjectedData) < 0 THEN lastSeen[InjectedData] = None
       ELSE lastSeen[InjectedData] \in Due(DataGot(Done(InjectedData)),
                                          Generator!DataPhase[ThermalNode])
    /\ IF Done(InjectedBeat) < 0
       THEN /\ lastSeen[InjectedBeat] = None
            /\ lastUptime[InjectedBeat] = None
       ELSE /\ lastSeen[InjectedBeat] \in Due(BeatGot(Done(InjectedBeat)),
                                             Generator!HeartbeatPhase[ThermalNode])
            /\ lastUptime[InjectedBeat] = UptimeAt(BeatGot(Done(InjectedBeat)))
    /\ \A m \in Messages \ {InjectedData, InjectedBeat} :
          Sender[m] = ThermalNode => lastSeen[m] = None

\* What the monitor has open against the node.
ThermalOpen ==
    /\ \A m \in {InjectedData, InjectedBeat} : staleSince[m] # None =>
          Out(Done(m)) /\ staleSince[m] = lastSeen[m] + StaleAfter[m]
    /\ silentSince[ThermalNode] # None =>
          staleSince[InjectedData] # None /\ staleSince[InjectedBeat] # None
    /\ rangeSince[InjectedData][Temperature] # None <=>
          OutOfRange(Done(InjectedData))
    /\ rangeSince[InjectedBeat][Temperature] = None
    /\ ~Reboots => lastRestart[ThermalNode] = None

\* How often a finding has been raised.
Raised(kind) ==
    LET once(condition) == IF condition THEN 1 ELSE 0
        back(m) == Done(m) >= OutageEnd
    IN  CASE kind = "data_message_stale" ->
                 once(staleSince[InjectedData] # None \/ back(InjectedData))
          [] kind = "heartbeat_timeout" ->
                 once(staleSince[InjectedBeat] # None \/ back(InjectedBeat))
          [] kind = "node_silent" ->
                 once(silentSince[ThermalNode] # None \/ back(InjectedData))
          [] kind = "message_recovered" ->
                 once(back(InjectedData)) + once(back(InjectedBeat))
          [] kind = "node_recovered" -> once(back(InjectedData))
          [] kind = "node_restart" -> once(Reboots /\ back(InjectedBeat))
          [] kind = "sequence_gap" -> once(Faulty /\ Done(InjectedData) >= 450)
          [] kind = "range_violation" ->
                 once(Faulty /\ Done(InjectedData) >= 150)
          [] kind = "range_recovered" ->
                 once(Faulty /\ Done(InjectedData) >= 200)
          [] OTHER -> 0

ReportInv ==
    /\ counts = [k \in EventKinds |-> Raised(k)]
    /\ Done(InjectedData) >= OutageEnd => ThermalNode \in named
    /\ FindingsAreDated

ScenarioInv ==
    /\ scenario \in Generator!AllScenarios
    /\ tick * Generator!DataPeriod <= scenario.duration
    /\ tick = 0 => capture = <<>>

ThermalInv ==
    /\ ScenarioInv /\ ThermalWaiting /\ ThermalRun /\ ThermalCounter
    /\ ThermalSeen /\ ThermalOpen /\ ReportInv

-----------------------------------------------------------------------------
LEMMA Numbers ==
    /\ Generator!DataPeriod = 100
    /\ Generator!HeartbeatPeriod = 1000
    /\ Generator!TicksPerHeartbeat = 10
    /\ Generator!MaxJitter = 4
    /\ \A n \in Nodes : /\ Generator!DataPhase[n] \in {0, 20}
                        /\ Generator!HeartbeatPhase[n] \in {50, 60}
<1>1. /\ Generator!DataPeriod = 100 /\ Generator!HeartbeatPeriod = 1000
      /\ Generator!MaxJitter = 4
  BY DEF Generator!DataPeriod, Generator!HeartbeatPeriod, Generator!MaxJitter
<1>2. Generator!TicksPerHeartbeat = 10
  BY <1>1 DEF Generator!TicksPerHeartbeat
<1>3. \A n \in Nodes : /\ Generator!DataPhase[n] \in {0, 20}
                       /\ Generator!HeartbeatPhase[n] \in {50, 60}
  BY NetworkAssumption
     DEF Generator!DataPhase, Generator!HeartbeatPhase, Generator!ScenarioNodes
<1> QED BY <1>1, <1>2, <1>3

\* A counter and the next one.
LEMMA NextCounter ==
    ASSUME NEW c \in Counters
    PROVE  /\ (c + 0) % CounterModulus = c
           /\ (c + 1) % CounterModulus \in Counters
           /\ ForwardDistance(c, (c + 1) % CounterModulus) = 0
<1> DEFINE m == CounterModulus
<1>1. m \in Nat \ {0} /\ c \in 0 .. m - 1
  BY ConfigAssumption DEF Counters
<1> HIDE DEF m
<1>2. (c + 0) % m = c
  BY <1>1
<1>3. CASE c + 1 < m
  <2>1. (c + 1) % m = c + 1
    BY <1>1, <1>3
  <2>2. (c + 1) - c - 1 = 0 /\ 0 % m = 0
    BY <1>1
  <2> QED BY <1>1, <1>2, <1>3, <2>1, <2>2 DEF ForwardDistance, Counters, m
<1>4. CASE c + 1 = m
  <2>1. (c + 1) % m = 0
    BY <1>1, <1>4
  <2>2. (0 - c - 1) % m = 0
    BY <1>1, <1>4
  <2> QED BY <1>1, <1>2, <1>4, <2>1, <2>2 DEF ForwardDistance, Counters, m
<1> QED BY <1>1, <1>3, <1>4

\* The two messages of each node.
LEMMA Network ==
    ASSUME NEW n \in Nodes
    PROVE  /\ DataMessage[n] \in Messages \ Heartbeats
           /\ HeartbeatMessage[n] \in Messages \cap Heartbeats
           /\ DataMessage[n] # HeartbeatMessage[n]
           /\ Sender[DataMessage[n]] = n
           /\ Sender[HeartbeatMessage[n]] = n
BY NetworkAssumption, DatabaseAssumption

-----------------------------------------------------------------------------
(* The generator.                                                           *)

\* A healthy node is not injected into.
LEMMA HealthyIsInactive ==
    ASSUME NEW n \in Nodes, Healthy(n), NEW kind
    PROVE  ~Generator!Active(kind, n)
BY DEF Generator!Active, Healthy

\* What a node may send in a tick.
LEMMA FramesAre ==
    ASSUME NEW n \in Nodes, NEW f \in Generator!NodeFrames(n)
    PROVE  /\ f \in {Generator!DataFrame(n), Generator!HeartbeatFrame(n)}
           /\ f.message \in {DataMessage[n], HeartbeatMessage[n]}
           /\ f.message \in Messages /\ Sender[f.message] = n
           /\ f.message = DataMessage[n] => f = Generator!DataFrame(n)
           /\ f.message = HeartbeatMessage[n] => f = Generator!HeartbeatFrame(n)
<1>1. f \in {Generator!DataFrame(n), Generator!HeartbeatFrame(n)}
  BY DEF Generator!NodeFrames
<1>2. /\ Generator!DataFrame(n).message = DataMessage[n]
      /\ Generator!HeartbeatFrame(n).message = HeartbeatMessage[n]
  BY DEF Generator!DataFrame, Generator!HeartbeatFrame
<1> QED BY <1>1, <1>2, Network

\* A healthy node sends a data frame in each tick, and every tenth a heartbeat.
LEMMA HealthyFrames ==
    ASSUME tick \in Nat, NEW n \in Nodes, Healthy(n), RunInv(n), CounterInv(n)
    PROVE  /\ Generator!DataFrame(n) \in Generator!NodeFrames(n)
           /\ Generator!HeartbeatFrame(n) \in Generator!NodeFrames(n) <=>
                  tick % Generator!TicksPerHeartbeat = 0
           /\ Generator!DataFrame(n).sequence = model[n].counter
           /\ Generator!DataFrame(n).value[Temperature] = "valid"
           /\ Generator!HeartbeatFrame(n).uptime =
                  tick \div Generator!TicksPerHeartbeat
           /\ Generator!HeartbeatFrame(n).value[Temperature] = "absent"
           /\ Generator!NodeAfter(n) =
                  [counter  |-> (model[n].counter + 1) % CounterModulus,
                   bootTick |-> 0,
                   booted   |-> TRUE]
<1>1. \A kind : ~Generator!Active(kind, n)
  BY HealthyIsInactive
<1>2. /\ model[n].counter \in Counters
      /\ model[n].bootTick = 0 /\ model[n].booted = (tick > 0)
  BY DEF RunInv, CounterInv
<1>3. /\ Generator!Booted(n).counter = model[n].counter
      /\ Generator!Booted(n).bootTick = 0
      /\ Generator!Booted(n) = [counter  |-> model[n].counter,
                                bootTick |-> 0,
                                booted   |-> TRUE]
  <2> DEFINE c == model[n].counter
  <2>1. Generator!Booted(n) = [counter |-> c, bootTick |-> 0, booted |-> TRUE]
    <3>1. CASE tick > 0
      <4>1. model[n].booted
        BY <1>2, <3>1
      <4>2. Generator!Booted(n) = model[n]
        BY <4>1 DEF Generator!Booted
      <4>3. model[n] = [counter |-> c, bootTick |-> 0, booted |-> TRUE]
        BY <3>1 DEF RunInv
      <4> QED BY <4>2, <4>3, Zenon
    <3>2. CASE tick = 0
      <4>1. ~model[n].booted
        <5>1. ~(tick > 0)
          BY <3>2
        <5> QED BY <1>2, <5>1, Zenon
      <4> QED BY <3>2, <4>1 DEF Generator!Booted
    <3> QED BY <3>1, <3>2
  <2> HIDE DEF c
  <2>2. /\ Generator!Booted(n).counter = c
        /\ Generator!Booted(n).bootTick = 0
    BY <2>1
  <2> QED BY <2>1, <2>2 DEF c
<1>4. Generator!Counter(n) = model[n].counter
  BY <1>1, <1>2, <1>3, NextCounter DEF Generator!Counter
<1>5. Generator!LocalTick(n) = tick
  BY <1>3 DEF Generator!LocalTick
<1>6. Generator!DataFrame(n) \in Generator!NodeFrames(n)
  BY <1>1 DEF Generator!NodeFrames
<1>7. Generator!HeartbeatFrame(n) \in Generator!NodeFrames(n) <=>
          tick % Generator!TicksPerHeartbeat = 0
  <2>1. Generator!DataFrame(n).message # Generator!HeartbeatFrame(n).message
    BY Network DEF Generator!DataFrame, Generator!HeartbeatFrame
  <2>2. Generator!HeartbeatFrame(n) \in Generator!NodeFrames(n) <=>
            \/ ~(tick > 0)
            \/ tick # 0 /\ tick % Generator!TicksPerHeartbeat = 0
    BY <1>1, <1>2, <1>5, <2>1 DEF Generator!NodeFrames
  <2>3. tick = 0 => tick % 10 = 0
    OBVIOUS
  <2> QED BY <2>2, <2>3, Numbers
<1>8. /\ Generator!DataFrame(n).sequence = model[n].counter
      /\ Generator!DataFrame(n).value[Temperature] = "valid"
      /\ Generator!HeartbeatFrame(n).uptime = tick \div Generator!TicksPerHeartbeat
      /\ Generator!HeartbeatFrame(n).value[Temperature] = "absent"
  BY <1>1, <1>4, <1>5 DEF Generator!DataFrame, Generator!HeartbeatFrame
<1>9. Generator!NodeAfter(n) = [counter  |-> (model[n].counter + 1) % CounterModulus,
                                bootTick |-> 0,
                                booted   |-> TRUE]
  <2> DEFINE old == Generator!Booted(n)
             next == (model[n].counter + 1) % CounterModulus
  <2>1. Generator!NodeAfter(n) = [old EXCEPT !.counter = next]
    BY <1>1, <1>4, Zenon DEF Generator!NodeAfter
  <2>2. old = [counter |-> model[n].counter, bootTick |-> 0, booted |-> TRUE]
    BY <1>3
  <2> HIDE DEF old, next
  <2> QED BY <2>1, <2>2 DEF next
<1> QED BY <1>6, <1>7, <1>8, <1>9

\* What a tick puts into the capture.
LEMMA Generated ==
    ASSUME CaptureInv, Generate
    PROVE  /\ tick' = tick + 1
           /\ capture = <<>> /\ scenario' = scenario
           /\ UNCHANGED <<vars, named>>
           /\ \A n \in Nodes : model'[n] = Generator!NodeAfter(n)
           /\ \E S : capture' \in Seq(S)
           /\ \A i \in 1 .. Len(capture') : \E n \in Nodes :
                  /\ capture'[i].frame \in Generator!NodeFrames(n)
                  /\ capture'[i].at \in
                         Due(tick, Generator!FramePhase(n, capture'[i].frame))
           /\ \A n \in Nodes : \A f \in Generator!NodeFrames(n) :
                  \E i \in 1 .. Len(capture') : capture'[i].frame = f
           /\ \A i, j \in 1 .. Len(capture') :
                  i < j => capture'[i].at < capture'[j].at
           /\ \A i, j \in 1 .. Len(capture') :
                  capture'[i].frame = capture'[j].frame => i = j
<1>1. /\ tick' = tick + 1 /\ capture = <<>> /\ scenario' = scenario
      /\ UNCHANGED <<vars, named>>
      /\ \A n \in Nodes : model'[n] = Generator!NodeAfter(n)
  BY NetworkAssumption
     DEF Generate, Generator!GenerateTick, Generator!ScenarioNodes
<1> DEFINE places == UNION {{n} \X {f.message : f \in Generator!NodeFrames(n)} :
                                n \in Generator!ScenarioNodes}
<1>2. PICK jitter \in [places -> Jitter] :
          \E s \in Generator!InOrder(UNION {Generator!Stamped(n, jitter) :
                                               n \in Generator!ScenarioNodes}) :
              capture' = capture \o s
  BY DEF Generate, Generator!GenerateTick
<1> DEFINE all == UNION {Generator!Stamped(n, jitter) :
                            n \in Generator!ScenarioNodes}
<1>3. PICK s \in Generator!InOrder(all) : capture' = capture \o s
  BY <1>2
<1>4. Nodes = Generator!ScenarioNodes
  BY NetworkAssumption DEF Generator!ScenarioNodes
<1>5. ASSUME NEW n \in Nodes, NEW f \in Generator!NodeFrames(n)
      PROVE  jitter[<<n, f.message>>] \in Jitter
  <2>1. <<n, f.message>> \in places
    BY <1>4, <1>5
  <2> QED BY <1>2, <2>1
<1> DEFINE at(n, f) ==
               Epoch + tick * Generator!DataPeriod + Generator!FramePhase(n, f)
               + jitter[<<n, f.message>>]
<1>6. ASSUME NEW x
      PROVE  x \in all <=> \E n \in Nodes : \E f \in Generator!NodeFrames(n) :
                               x = [frame |-> f, at |-> at(n, f)]
  <2>1. x \in all <=> \E n \in Nodes : x \in Generator!Stamped(n, jitter)
    BY <1>4
  <2>2. ASSUME NEW n \in Nodes
        PROVE  x \in Generator!Stamped(n, jitter) <=>
                   \E f \in Generator!NodeFrames(n) : x = [frame |-> f, at |-> at(n, f)]
    BY DEF Generator!Stamped
  <2> HIDE DEF all, at
  <2> QED BY <2>1, <2>2
<1>7. ASSUME NEW n \in Nodes, NEW f \in Generator!NodeFrames(n)
      PROVE  at(n, f) \in Due(tick, Generator!FramePhase(n, f))
  <2>1. jitter[<<n, f.message>>] \in -4 .. 4
    BY <1>5, NetworkAssumption, Numbers
  <2>2. /\ tick \in Nat /\ Epoch \in Nat /\ Generator!DataPeriod = 100
        /\ Generator!MaxJitter = 4
    BY NetworkAssumption, Numbers DEF CaptureInv
  <2>3. Generator!FramePhase(n, f) \in Int
    BY Numbers DEF Generator!FramePhase
  <2> HIDE DEF places, all
  <2> QED BY <2>1, <2>2, <2>3 DEF Due, Base
<1> HIDE DEF places, all, at
<1>9. /\ capture' \in Seq(all) /\ Len(capture') \in Nat
      /\ \A i \in 1 .. Len(capture') : capture'[i] \in all
      /\ \A x \in all : \E i \in 1 .. Len(capture') : capture'[i] = x
      /\ \A i, j \in 1 .. Len(capture') : i < j => capture'[i].at < capture'[j].at
  <2>1. PICK k \in Nat : s \in [1 .. k -> all]
    <3>1. s \in UNION {[1 .. k -> all] : k \in 0 .. Generator!FramesPerTick}
      BY <1>3 DEF Generator!InOrder
    <3>2. 0 .. Generator!FramesPerTick \subseteq Nat
      BY DEF Generator!FramesPerTick
    <3> QED BY <3>1, <3>2, Zenon
  <2>2. /\ \A f \in all : \E i \in 1 .. k : s[i] = f
        /\ \A i, j \in 1 .. k : i < j => s[i].at < s[j].at
    BY <1>3, <2>1 DEF Generator!InOrder
  <2>3. s \in Seq(all) /\ Len(s) = k
    BY <2>1
  <2>4. capture' = s
    BY <1>1, <1>3, <2>3
  <2> QED BY <2>1, <2>2, <2>3, <2>4
<1>10. \A i \in 1 .. Len(capture') : \E n \in Nodes :
          /\ capture'[i].frame \in Generator!NodeFrames(n)
          /\ capture'[i].at = at(n, capture'[i].frame)
  BY <1>6, <1>9
<1>11. \A n \in Nodes : \A f \in Generator!NodeFrames(n) :
           \E i \in 1 .. Len(capture') : capture'[i].frame = f
  <2> SUFFICES ASSUME NEW n \in Nodes, NEW f \in Generator!NodeFrames(n)
               PROVE  \E i \in 1 .. Len(capture') : capture'[i].frame = f
    OBVIOUS
  <2>1. [frame |-> f, at |-> at(n, f)] \in all
    BY <1>6
  <2> QED BY <1>9, <2>1
<1>12. ASSUME NEW i \in 1 .. Len(capture'), NEW j \in 1 .. Len(capture'),
              capture'[i].frame = capture'[j].frame
       PROVE  i = j
  <2>1. PICK n \in Nodes : /\ capture'[i].frame \in Generator!NodeFrames(n)
                           /\ capture'[i].at = at(n, capture'[i].frame)
    BY <1>10
  <2>2. PICK o \in Nodes : /\ capture'[j].frame \in Generator!NodeFrames(o)
                           /\ capture'[j].at = at(o, capture'[j].frame)
    BY <1>10
  <2>3. n = o
    BY <1>12, <2>1, <2>2, FramesAre
  <2>4. capture'[i].at = capture'[j].at /\ capture'[i].at \in Int
    <3>1. capture'[i].at \in Due(tick, Generator!FramePhase(n, capture'[i].frame))
      BY <1>7, <2>1
    <3> QED BY <1>12, <2>1, <2>2, <2>3, <3>1 DEF Due
  <2>5. ~(capture'[i].at < capture'[j].at) /\ ~(capture'[j].at < capture'[i].at)
    BY <2>4
  <2>6. i \in Int /\ j \in Int
    BY <1>9
  <2>7. ~(i < j) /\ ~(j < i)
    BY <1>9, <2>5
  <2> QED BY <2>6, <2>7
<1>13. \A i \in 1 .. Len(capture') : \E n \in Nodes :
           /\ capture'[i].frame \in Generator!NodeFrames(n)
           /\ capture'[i].at \in
                  Due(tick, Generator!FramePhase(n, capture'[i].frame))
  BY <1>7, <1>10
<1> QED BY <1>1, <1>9, <1>11, <1>12, <1>13

\* A tick changes neither who is healthy nor what is known of a healthy node.
LEMMA GenerateStep ==
    ASSUME RegenerationInv, Generate
    PROVE  RegenerationInv'
<1>1. CaptureInv
  BY DEF RegenerationInv
<1>2. /\ tick \in Nat /\ tick' = tick + 1 /\ tick' - 1 = tick
      /\ capture = <<>> /\ scenario' = scenario
      /\ lastSeen' = lastSeen /\ staleSince' = staleSince
      /\ lastSequence' = lastSequence /\ lastUptime' = lastUptime
      /\ rangeSince' = rangeSince /\ silentSince' = silentSince
      /\ named' = named
      /\ \A n \in Nodes : model'[n] = Generator!NodeAfter(n)
  BY <1>1, Generated DEF CaptureInv, vars, messageVars, nodeVars
<1>3. /\ \E S : capture' \in Seq(S)
      /\ \A i \in 1 .. Len(capture') : \E n \in Nodes :
             /\ capture'[i].frame \in Generator!NodeFrames(n)
             /\ capture'[i].at \in
                    Due(tick, Generator!FramePhase(n, capture'[i].frame))
      /\ \A n \in Nodes : \A f \in Generator!NodeFrames(n) :
             \E i \in 1 .. Len(capture') : capture'[i].frame = f
      /\ \A i, j \in 1 .. Len(capture') :
             i < j => capture'[i].at < capture'[j].at
      /\ \A i, j \in 1 .. Len(capture') :
             capture'[i].frame = capture'[j].frame => i = j
  BY <1>1, Generated
<1>4. CaptureInv'
  <2>1. ASSUME NEW i \in 1 .. Len(capture')
        PROVE  /\ capture'[i].at \in Int
               /\ capture'[i].at <= Base(tick) + LatestPhase + Generator!MaxJitter
               /\ capture'[i].frame.message \in Messages
    <3>1. PICK n \in Nodes :
              /\ capture'[i].frame \in Generator!NodeFrames(n)
              /\ capture'[i].at \in
                     Due(tick, Generator!FramePhase(n, capture'[i].frame))
      BY <1>3
    <3>2. capture'[i].frame.message \in Messages
      BY <3>1, FramesAre
    <3>3. Generator!FramePhase(n, capture'[i].frame) \in {0, 20, 50, 60}
      BY Numbers DEF Generator!FramePhase
    <3> DEFINE base == Base(tick)
               phase == Generator!FramePhase(n, capture'[i].frame)
               at == capture'[i].at
    <3>4. base \in Int
      BY <1>2, Numbers, NetworkAssumption DEF Base
    <3>5. at \in base + phase - 4 .. base + phase + 4 /\ phase \in {0, 20, 50, 60}
      BY <3>1, <3>3, Numbers DEF Due
    <3> HIDE DEF base, phase, at
    <3>6. at \in Int /\ at <= base + 60 + 4
      BY <3>4, <3>5
    <3> QED BY <3>2, <3>6, Numbers DEF LatestPhase, base, at
  <2>2. Base(tick)' = Base(tick')
    BY DEF Base
  <2>3. Base(tick - 1)' = Base(tick)
    BY <1>2 DEF Base
  <2> QED BY <1>1, <1>2, <1>3, <2>1, <2>3 DEF CaptureInv
<1>5. ASSUME NEW n \in Nodes, Healthy(n)' PROVE HealthyInv(n)'
  <2>1. Healthy(n)
    BY <1>2, <1>5 DEF Healthy
  <2>2. HealthyInv(n)
    BY <2>1 DEF RegenerationInv
  <2> DEFINE d == DataMessage[n]
             b == HeartbeatMessage[n]
             c == model[n].counter
  <2>3. /\ d \in Messages \ Heartbeats /\ b \in Messages \cap Heartbeats
        /\ d # b /\ Sender[d] = n /\ Sender[b] = n
    BY Network
  <2>4. /\ Generator!DataFrame(n) \in Generator!NodeFrames(n)
        /\ Generator!HeartbeatFrame(n) \in Generator!NodeFrames(n) <=>
               tick % 10 = 0
        /\ Generator!DataFrame(n).sequence = c
        /\ Generator!DataFrame(n).value[Temperature] = "valid"
        /\ Generator!HeartbeatFrame(n).uptime = tick \div 10
        /\ Generator!HeartbeatFrame(n).value[Temperature] = "absent"
        /\ model'[n] = [counter  |-> (c + 1) % CounterModulus,
                        bootTick |-> 0,
                        booted   |-> TRUE]
    BY <1>2, <2>1, <2>2, HealthyFrames, Numbers DEF HealthyInv
  <2>5. c \in Counters /\ (c + 1) % CounterModulus \in Counters
    BY <2>2, NextCounter DEF HealthyInv, CounterInv
  \* What waits afterwards.
  <2>6. ASSUME NEW i \in 1 .. Len(capture'), Sender[capture'[i].frame.message] = n
        PROVE  \/ /\ capture'[i].frame = Generator!DataFrame(n)
                  /\ capture'[i].frame.message = d
                  /\ capture'[i].at \in Due(tick, Generator!DataPhase[n])
               \/ /\ capture'[i].frame = Generator!HeartbeatFrame(n)
                  /\ capture'[i].frame.message = b
                  /\ tick % 10 = 0
                  /\ capture'[i].at \in Due(tick, Generator!HeartbeatPhase[n])
    <3>1. PICK o \in Nodes :
              /\ capture'[i].frame \in Generator!NodeFrames(o)
              /\ capture'[i].at \in
                     Due(tick, Generator!FramePhase(o, capture'[i].frame))
      BY <1>3
    <3>2. o = n
      BY <2>6, <3>1, FramesAre
    <3>3. /\ capture'[i].frame.message \in {d, b}
          /\ capture'[i].frame.message = d =>
                 capture'[i].frame = Generator!DataFrame(n)
          /\ capture'[i].frame.message = b =>
                 capture'[i].frame = Generator!HeartbeatFrame(n)
      BY <3>1, <3>2, FramesAre
    <3>4. Generator!FramePhase(n, capture'[i].frame) =
              IF capture'[i].frame.message = d THEN Generator!DataPhase[n]
              ELSE Generator!HeartbeatPhase[n]
      BY DEF Generator!FramePhase
    <3> QED BY <2>3, <2>4, <3>1, <3>2, <3>3, <3>4
  <2>7. Pending(d)' /\ ~Pending(d) /\ ~Pending(b)
    <3>1. PICK i \in 1 .. Len(capture') : capture'[i].frame = Generator!DataFrame(n)
      BY <1>3, <2>4
    <3>2. Generator!DataFrame(n).message = d
      BY DEF Generator!DataFrame
    <3> QED BY <1>2, <3>1, <3>2 DEF Pending
  <2>8. Pending(b)' <=> tick % 10 = 0
    <3>1. ASSUME tick % 10 = 0 PROVE Pending(b)'
      <4>1. PICK i \in 1 .. Len(capture') :
                capture'[i].frame = Generator!HeartbeatFrame(n)
        BY <1>3, <2>4, <3>1
      <4>2. Generator!HeartbeatFrame(n).message = b
        BY DEF Generator!HeartbeatFrame
      <4> QED BY <4>1, <4>2 DEF Pending
    <3>2. ASSUME Pending(b)' PROVE tick % 10 = 0
      <4>1. PICK i \in 1 .. Len(capture') : capture'[i].frame.message = b
        BY <3>2 DEF Pending
      <4> QED BY <2>3, <2>6, <4>1
    <3> QED BY <3>1, <3>2
  <2> HIDE DEF d, b, c
  <2>9. WaitingInv(n)'
    <3>1. ASSUME NEW i \in 1 .. Len(capture'),
                 Sender[capture'[i].frame.message] = n
          PROVE  DataEntry(n, capture[i])' \/ BeatEntry(n, capture[i])'
      <4>1. CASE /\ capture'[i].frame = Generator!DataFrame(n)
                 /\ capture'[i].frame.message = d
                 /\ capture'[i].at \in Due(tick, Generator!DataPhase[n])
        <5>1. Due(tick - 1, Generator!DataPhase[n])' =
                  Due(tick, Generator!DataPhase[n])
          BY <1>2 DEF Due, Base
        <5> QED BY <2>4, <2>5, <4>1, <5>1 DEF DataEntry, d
      <4>2. CASE /\ capture'[i].frame = Generator!HeartbeatFrame(n)
                 /\ capture'[i].frame.message = b
                 /\ tick % 10 = 0
                 /\ capture'[i].at \in Due(tick, Generator!HeartbeatPhase[n])
        <5>1. Due(tick - 1, Generator!HeartbeatPhase[n])' =
                  Due(tick, Generator!HeartbeatPhase[n])
          BY <1>2 DEF Due, Base
        <5> QED BY <1>2, <2>4, <4>2, <5>1, Numbers DEF BeatEntry, b
      <4> QED BY <2>6, <3>1, <4>1, <4>2
    <3>2. ASSUME NEW i \in 1 .. Len(capture'), NEW j \in 1 .. Len(capture'),
                 Sender[capture'[i].frame.message] = n,
                 capture'[i].frame.message = capture'[j].frame.message
          PROVE  i = j
      BY <1>3, <2>3, <2>6, <3>2
    <3> QED BY <3>1, <3>2 DEF WaitingInv
  <2>10. CounterInv(n)'
    <3>1. Follows(c, lastSequence[d])
      BY <2>2, <2>7 DEF HealthyInv, CounterInv, c, d
    <3>2. model'[n].counter = (c + 1) % CounterModulus
      BY <2>4
    <3>3. ~CheckSequence => lastSequence[d] = None
      BY <2>2 DEF HealthyInv, CounterInv, d
    <3>4. \A i \in 1 .. Len(capture') : capture'[i].frame.message = d =>
              capture'[i].frame.sequence = c
      BY <2>3, <2>4, <2>6
    <3>5. \A x, y : Follows(x, y)' <=> Follows(x, y)
      BY DEF Follows
    <3> QED BY <1>2, <2>5, <2>7, <3>1, <3>2, <3>3, <3>4 DEF CounterInv, Follows, d
  <2>11. RunInv(n)'
    <3>1. tick' > 0
      BY <1>2
    <3>2. (tick' > 0) = TRUE
      BY <3>1
    <3>3. model'[n].counter = (c + 1) % CounterModulus
      BY <2>4
    <3> QED BY <2>4, <3>2, <3>3, Zenon DEF RunInv
  <2>12. SeenInv(n)'
    <3>1. LastData(n)' = LastData(n)
      BY <1>2, <2>7 DEF LastData, d
    <3>2. LastBeat(n)' = LastBeat(n)
      BY <1>2, <2>7, <2>8, Numbers DEF LastBeat, b
    <3>3. ASSUME NEW k PROVE Base(k)' = Base(k)
      BY DEF Base
    <3>4. (tick - 1) \div 10 <= tick \div 10
      BY <1>2
    <3>5. SeenInv(n)
      BY <2>2 DEF HealthyInv
    <3>6. Base(LastData(n))' = Base(LastData(n)) /\ Base(LastBeat(n))' = Base(LastBeat(n))
      BY <3>1, <3>2 DEF Base
    <3>7. lastUptime[b] # None => lastUptime[b] <= tick \div 10
      BY <1>2, <3>4, <3>5, Numbers DEF SeenInv, b
    <3> QED BY <1>2, <3>5, <3>6, <3>7, Numbers DEF SeenInv, b
  <2>13. QuietInv(n)'
    BY <1>2, <2>2 DEF HealthyInv, QuietInv
  <2> QED BY <2>9, <2>10, <2>11, <2>12, <2>13 DEF HealthyInv
<1> QED BY <1>4, <1>5 DEF RegenerationInv

-----------------------------------------------------------------------------
(* The analysis.                                                            *)

\* What waits first comes first.
LEMMA FirstWaits ==
    ASSUME CaptureInv, capture # <<>>
    PROVE  /\ Len(capture) \in Nat \ {0}
           /\ Head(capture) = capture[1]
           /\ capture[1].at \in Int
           /\ \A i \in 1 .. Len(capture) : /\ capture[i].at \in Int
                                          /\ capture[1].at <= capture[i].at
           /\ Len(Tail(capture)) = Len(capture) - 1
           /\ \A i \in 1 .. Len(capture) - 1 : /\ Tail(capture)[i] = capture[i + 1]
                                              /\ i + 1 \in 1 .. Len(capture)
           /\ \E S : Tail(capture) \in Seq(S)
<1>1. PICK S : capture \in Seq(S)
  BY DEF CaptureInv
<1>2. /\ Len(capture) \in Nat \ {0} /\ Head(capture) = capture[1]
      /\ Len(Tail(capture)) = Len(capture) - 1
      /\ \A i \in 1 .. Len(capture) - 1 : /\ Tail(capture)[i] = capture[i + 1]
                                         /\ i + 1 \in 1 .. Len(capture)
      /\ Tail(capture) \in Seq(S)
  BY <1>1
<1>3. \A i \in 1 .. Len(capture) : capture[i].at \in Int
  BY DEF CaptureInv
<1>4. ASSUME NEW i \in 1 .. Len(capture) PROVE capture[1].at <= capture[i].at
  <2>1. i = 1 \/ 1 < i
    BY <1>2
  <2>2. 1 \in 1 .. Len(capture)
    BY <1>2
  <2>3. 1 < i => capture[1].at < capture[i].at
    BY <2>2 DEF CaptureInv
  <2> QED BY <1>3, <2>1, <2>2, <2>3
<1> QED BY <1>2, <1>3, <1>4

\* A healthy node is never missed: by the time of the next frame, whosever it
\* is, the last frame of each of its messages is not older than the threshold.
LEMMA NothingIsMissed ==
    ASSUME CaptureInv, capture # <<>>,
           NEW n \in Nodes, HealthyInv(n)
    PROVE  /\ \A m \in Messages : Sender[m] = n =>
                  /\ ~GoesStale(m, capture[1].at)
                  /\ StalePoint(m, capture[1].at) = None
           /\ ~FallsSilent(n, capture[1].at)
           /\ SilentPoint(n, capture[1].at) = None
<1> DEFINE t == capture[1].at
           d == DataMessage[n]
           b == HeartbeatMessage[n]
<1>1. /\ tick \in Nat /\ t \in Int /\ Epoch \in Int /\ 1 \in 1 .. Len(capture)
      /\ t <= Base(tick - 1) + 60 + 4
  BY FirstWaits, NetworkAssumption, Numbers DEF CaptureInv, LatestPhase
<1>2. /\ Generator!DataPhase[n] \in {0, 20} /\ Generator!HeartbeatPhase[n] \in {50, 60}
      /\ d \in Messages /\ b \in Messages
      /\ StaleAfter[d] \in Int /\ StaleAfter[d] >= 108
      /\ StaleAfter[b] \in Int /\ StaleAfter[b] >= 1008
  BY Network, Numbers, ConfigAssumption, ThresholdAssumption
<1>3. SeenInv(n) /\ WaitingInv(n) /\ QuietInv(n)
  BY DEF HealthyInv
<1>4. d # b /\ Sender[d] = n /\ Sender[b] = n
  BY Network
<1>5. ASSUME NEW k \in Int PROVE Base(k) = Epoch + 100 * k
  BY Numbers DEF Base
<1>6. ~GoesStale(d, t)
  <2> SUFFICES ASSUME lastSeen[d] # None PROVE ~(t - lastSeen[d] > StaleAfter[d])
    BY DEF GoesStale
  <2> DEFINE p == Generator!DataPhase[n]
  <2>1. lastSeen[d] \in Int /\ lastSeen[d] >= Base(LastData(n)) + p - 4
    BY <1>3, Numbers DEF SeenInv
  <2>2. CASE Pending(d)
    <3>1. PICK i \in 1 .. Len(capture) : capture[i].frame.message = d
      BY <2>2 DEF Pending
    <3>2. capture[i].at \in Due(tick - 1, p)
      BY <1>3, <1>4, <3>1 DEF WaitingInv, DataEntry, BeatEntry
    <3>3. t <= capture[i].at /\ capture[i].at \in Int
      BY FirstWaits
    <3>4. LastData(n) = tick - 2
      BY <1>1, <2>2 DEF LastData
    <3>5. /\ Base(LastData(n)) = Epoch + 100 * (tick - 2)
          /\ Base(tick - 1) = Epoch + 100 * (tick - 1)
      BY <1>1, <1>5, <3>4
    <3>6. capture[i].at <= Base(tick - 1) + p + 4
      BY <3>2, Numbers DEF Due
    <3> DEFINE last == Base(LastData(n))
               at   == capture[i].at
    <3>7. /\ StaleAfter[d] \in Int /\ StaleAfter[d] >= 108
          /\ lastSeen[d] \in Int /\ lastSeen[d] >= last + p - 4
          /\ t \in Int /\ t <= at /\ at \in Int /\ p \in Int
      BY <1>1, <1>2, <2>1, <3>3
    <3>8. last \in Int /\ at <= last + 100 + p + 4
      BY <1>1, <3>5, <3>6, <3>7
    <3> HIDE DEF t, d, p, last, at
    <3> QED BY <3>7, <3>8
  <2>3. CASE ~Pending(d)
    <3>1. LastData(n) = tick - 1
      BY <1>1, <2>3 DEF LastData
    <3>2. Base(LastData(n)) = Epoch + 100 * (tick - 1)
      BY <1>1, <1>5, <3>1
    <3>3. Base(tick - 1) = Base(LastData(n))
      BY <3>1
    <3>4. p \in Int /\ p >= 0
      BY <1>2
    <3> DEFINE base == Base(tick - 1)
    <3>5. /\ StaleAfter[d] \in Int /\ StaleAfter[d] >= 108
          /\ lastSeen[d] \in Int /\ lastSeen[d] >= base + p - 4
          /\ t \in Int /\ t <= base + 60 + 4 /\ base \in Int
      BY <1>1, <1>2, <2>1, <3>2, <3>3
    <3> HIDE DEF t, d, p, base
    <3> QED BY <3>4, <3>5
  <2> QED BY <2>2, <2>3
<1>7. ~GoesStale(b, t)
  <2> SUFFICES ASSUME lastSeen[b] # None PROVE ~(t - lastSeen[b] > StaleAfter[b])
    BY DEF GoesStale
  <2> DEFINE p == Generator!HeartbeatPhase[n]
             q == (tick - 1) \div 10
  <2>1. lastSeen[b] \in Int /\ lastSeen[b] >= Base(LastBeat(n)) + p - 4
    BY <1>3, Numbers DEF SeenInv
  <2>2. q \in Int /\ 10 * q <= tick - 1 /\ tick - 1 <= 10 * q + 9
    BY <1>1
  <2>3. p \in Int /\ p >= 50 /\ p <= 60
    BY <1>2
  <2>4. Base(tick - 1) = Epoch + 100 * (tick - 1)
    BY <1>1, <1>5
  <2>5. CASE Pending(b)
    <3>1. PICK i \in 1 .. Len(capture) : capture[i].frame.message = b
      BY <2>5 DEF Pending
    <3>2. capture[i].at \in Due(tick - 1, p) /\ (tick - 1) % 10 = 0
      BY <1>3, <1>4, <3>1, Numbers DEF WaitingInv, DataEntry, BeatEntry
    <3>3. t <= capture[i].at /\ capture[i].at \in Int
      BY FirstWaits
    <3>4. LastBeat(n) = 10 * (q - 1) /\ LastBeat(n) \in Int
      BY <1>1, <2>2, <2>5, Numbers DEF LastBeat
    <3>5. Base(LastBeat(n)) = Epoch + 100 * (10 * (q - 1))
      BY <1>5, <3>4
    <3>6. capture[i].at <= Base(tick - 1) + p + 4
      BY <3>2, Numbers DEF Due
    <3>7. tick - 1 = 10 * q
      BY <1>1, <3>2
    <3> DEFINE last == Base(LastBeat(n))
               at   == capture[i].at
    <3>8. /\ StaleAfter[b] \in Int /\ StaleAfter[b] >= 1008
          /\ lastSeen[b] \in Int /\ lastSeen[b] >= last + p - 4
          /\ t \in Int /\ t <= at /\ at \in Int
      BY <1>1, <1>2, <2>1, <3>3
    <3>9. last \in Int /\ at <= last + 1000 + p + 4
      BY <1>1, <2>2, <2>3, <2>4, <3>3, <3>5, <3>6, <3>7
    <3> HIDE DEF t, b, p, q, last, at
    <3> QED BY <2>3, <3>8, <3>9
  <2>6. CASE ~Pending(b)
    <3>1. LastBeat(n) = 10 * q /\ LastBeat(n) \in Int
      BY <1>1, <2>2, <2>6, Numbers DEF LastBeat
    <3>2. Base(LastBeat(n)) = Epoch + 100 * (10 * q)
      BY <1>5, <3>1
    <3> DEFINE last == Base(LastBeat(n))
    <3>3. /\ StaleAfter[b] \in Int /\ StaleAfter[b] >= 1008
          /\ lastSeen[b] \in Int /\ lastSeen[b] >= last + p - 4
          /\ t \in Int /\ t <= Base(tick - 1) + 60 + 4 /\ last \in Int
      BY <1>1, <1>2, <2>1, <2>2, <3>2
    <3>4. Base(tick - 1) \in Int /\ Base(tick - 1) <= last + 900
      <4>1. tick - 1 <= 10 * q + 9 /\ q \in Int /\ tick \in Int /\ Epoch \in Int
        BY <1>1, <2>2
      <4>2. last = Epoch + 100 * (10 * q)
        BY <3>2
      <4> HIDE DEF q, last
      <4> QED BY <2>4, <4>1, <4>2
    <3> HIDE DEF t, b, p, q, last
    <3> QED BY <2>3, <3>3, <3>4
  <2> QED BY <2>5, <2>6
<1> HIDE DEF t
<1>8. ASSUME NEW m \in Messages, Sender[m] = n
      PROVE  ~GoesStale(m, t) /\ StalePoint(m, t) = None
  <2>1. ~GoesStale(m, t)
    BY <1>3, <1>6, <1>7, <1>8 DEF SeenInv, GoesStale
  <2>2. staleSince[m] = None
    BY <1>3, <1>8 DEF QuietInv
  <2> QED BY <2>1, <2>2 DEF StalePoint
<1>9. ~FallsSilent(n, t)
  BY <1>8 DEF FallsSilent, Observed
<1>10. SilentPoint(n, t) = None
  BY <1>3, <1>9 DEF SilentPoint, QuietInv
<1> QED BY <1>8, <1>9, <1>10 DEF t

\* Whom a finding names, and what has been seen of it.
LEMMA FindingsName ==
    ASSUME NEW f, f.message \in Messages, NEW t,
           NEW e \in TimeoutFindings(t) \cup RecoveryFindings(f, t)
                     \cup RestartFindings(f, t) \cup GapFindings(f, t)
                     \cup RangeFindings(f, t)
    PROVE  \/ \E m \in Messages : GoesStale(m, t) /\ NodeOf(e) = Sender[m]
           \/ \E n \in Nodes : FallsSilent(n, t) /\ NodeOf(e) = n
           \/ /\ NodeOf(e) = Sender[f.message]
              /\ \/ WasStale(f.message, t)
                 \/ SilentPoint(Sender[f.message], t) # None
                 \/ UptimeFell(f)
                 \/ GapFindings(f, t) # {}
                 \/ RangeFindings(f, t) # {}
<1>1. CASE e \in TimeoutFindings(t)
  <2>1. CASE \E m \in Messages : GoesStale(m, t) /\ e = Stale(m, StalePoint(m, t))
    BY <2>1 DEF Stale, NodeOf
  <2>2. CASE \E n \in Nodes : /\ FallsSilent(n, t)
                            /\ e = Silent(n, SilentPoint(n, t), ActiveBeside(n, t))
    BY <2>2 DEF Silent, NodeOf
  <2> QED BY <1>1, <2>1, <2>2 DEF TimeoutFindings
<1>2. CASE e \in RecoveryFindings(f, t)
  <2>1. CASE /\ WasStale(f.message, t)
             /\ e = Recovered(f.message, t, t - StalePoint(f.message, t))
    BY <2>1 DEF Recovered, NodeOf
  <2>2. CASE /\ SilentPoint(Sender[f.message], t) # None
             /\ e = NodeRecovered(Sender[f.message], t,
                                  t - SilentPoint(Sender[f.message], t))
    BY <2>2 DEF NodeRecovered, NodeOf
  <2> QED BY <1>2, <2>1, <2>2 DEF RecoveryFindings
<1>3. CASE e \in RestartFindings(f, t)
  BY <1>3 DEF RestartFindings, Restart, NodeOf
<1>4. CASE e \in GapFindings(f, t)
  <2>1. \E x : e = Gap(f.message, t, x)
    BY <1>4 DEF GapFindings
  <2> QED BY <1>4, <2>1 DEF Gap, NodeOf
<1>5. CASE e \in RangeFindings(f, t)
  <2>1. \/ \E s : e = RangeViolation(f.message, s, t)
        \/ \E s, x : e = RangeRecovered(f.message, s, t, x)
    BY <1>5 DEF RangeFindings
  <2> QED BY <1>5, <2>1 DEF RangeViolation, RangeRecovered, NodeOf
<1> QED BY <1>1, <1>2, <1>3, <1>4, <1>5

\* Nothing is wrong with a frame of a healthy node.
LEMMA NothingIsWrong ==
    ASSUME CaptureInv, capture # <<>>,
           NEW n \in Nodes, HealthyInv(n),
           NEW f, f = capture[1].frame, Sender[f.message] = n,
           NEW t, t = capture[1].at
    PROVE  /\ DataEntry(n, capture[1]) \/ BeatEntry(n, capture[1])
           /\ ~UptimeFell(f)
           /\ GapFindings(f, t) = {}
           /\ \A s \in Signals : ~Opens(f, s) /\ ~Closes(f, s)
           /\ RangeFindings(f, t) = {}
           /\ RangeAfter(f, t) = [s \in Signals |-> None]
<1> DEFINE d == DataMessage[n]
           b == HeartbeatMessage[n]
<1>1. 1 \in 1 .. Len(capture) /\ f.message \in Messages
  BY FirstWaits DEF CaptureInv
<1>2. DataEntry(n, capture[1]) \/ BeatEntry(n, capture[1])
  BY <1>1 DEF HealthyInv, WaitingInv
<1>3. d \in Messages \ Heartbeats /\ b \in Messages \cap Heartbeats
  BY Network
<1>4. SeenInv(n) /\ QuietInv(n) /\ CounterInv(n)
  BY DEF HealthyInv
<1>5. ~UptimeFell(f)
  <2>1. CASE DataEntry(n, capture[1])
    BY <1>3, <2>1 DEF DataEntry, UptimeFell
  <2>2. CASE BeatEntry(n, capture[1])
    <3>1. /\ f.message = b /\ f.uptime = (tick - 1) \div 10
          /\ f.uptime \in Int
      BY <2>2, Numbers DEF BeatEntry, CaptureInv
    <3>2. lastUptime[b] # None => /\ lastUptime[b] \in Int
                                  /\ lastUptime[b] <= (tick - 1) \div 10
      BY <1>4, Numbers DEF SeenInv
    <3> HIDE DEF b
    <3> QED BY <3>1, <3>2 DEF UptimeFell
  <2> QED BY <1>2, <2>1, <2>2
<1>6. GapFindings(f, t) = {}
  <2> SUFFICES ASSUME ReadsCounter(f), Baseline(f.message, t) # None
               PROVE  ForwardDistance(Baseline(f.message, t), f.sequence) = 0
    BY DEF GapFindings
  <2>1. f.message = d
    BY <1>2, <1>3 DEF DataEntry, BeatEntry, ReadsCounter
  <2>2. lastSequence[d] # None /\ Baseline(f.message, t) = lastSequence[d]
    <3>1. ~WasStale(d, t)
      BY <1>3, Network, NothingIsMissed DEF WasStale
    <3> QED BY <2>1, <3>1 DEF Baseline
  <2>3. /\ lastSequence[d] \in Counters
        /\ f.sequence = (lastSequence[d] + 1) % CounterModulus
    BY <1>1, <1>4, <2>1, <2>2 DEF CounterInv, Follows
  <2> QED BY <2>2, <2>3, NextCounter
<1>7. \A s \in Signals : /\ rangeSince[f.message][s] = None
                        /\ f.value[s] \in {"valid", "absent"}
  <2>1. Signals = {Temperature}
    BY NetworkAssumption
  <2>2. f.value[Temperature] \in {"valid", "absent"}
    BY <1>2 DEF DataEntry, BeatEntry
  <2> QED BY <1>1, <1>4, <2>1, <2>2 DEF QuietInv
<1>8. \A s \in Signals : ~Opens(f, s) /\ ~Closes(f, s)
  BY <1>7 DEF Opens, Closes
<1>9. RangeFindings(f, t) = {}
  BY <1>8 DEF RangeFindings
<1>10. RangeAfter(f, t) = [s \in Signals |-> None]
  BY <1>7, <1>8 DEF RangeAfter
<1> QED BY <1>2, <1>5, <1>6, <1>8, <1>9, <1>10

\* So no finding of the call names the node.
LEMMA NothingIsRaised ==
    ASSUME CaptureInv, Analyze, NEW n \in Nodes, HealthyInv(n),
           NEW e \in produced'
    PROVE  NodeOf(e) # n
<1> DEFINE f == capture[1].frame
           t == capture[1].at
<1>1. capture # <<>>
  BY DEF Analyze
<1>2. f = Head(capture).frame /\ t = Head(capture).at /\ f.message \in Messages
  BY <1>1, FirstWaits DEF CaptureInv
<1>3. e \in TimeoutFindings(t) \cup RecoveryFindings(f, t)
            \cup RestartFindings(f, t) \cup GapFindings(f, t)
            \cup RangeFindings(f, t)
  BY <1>2 DEF Analyze, ProcessKnown
<1>4. /\ \A m \in Messages : Sender[m] = n =>
             ~GoesStale(m, t) /\ StalePoint(m, t) = None
      /\ ~FallsSilent(n, t)
      /\ SilentPoint(n, t) = None
  BY <1>1, NothingIsMissed
<1>5. Sender[f.message] = n =>
          /\ ~UptimeFell(f) /\ GapFindings(f, t) = {}
          /\ RangeFindings(f, t) = {}
  BY <1>1, NothingIsWrong
<1> HIDE DEF f, t
<1> QED BY <1>2, <1>3, <1>4, <1>5, FindingsName DEF WasStale

\* The frame that is taken is the only one of its message.
LEMMA Taken ==
    ASSUME CaptureInv, capture # <<>>, capture' = Tail(capture),
           NEW m,
           \A i, j \in 1 .. Len(capture) :
              /\ Sender[capture[i].frame.message] = Sender[m]
              /\ capture[i].frame.message = capture[j].frame.message
              => i = j
    PROVE  /\ capture[1].frame.message = m => Pending(m)
           /\ Pending(m)' <=> Pending(m) /\ capture[1].frame.message # m
<1>1. /\ Len(capture) \in Nat \ {0} /\ Len(capture') = Len(capture) - 1
      /\ 1 \in 1 .. Len(capture)
      /\ \A i \in 1 .. Len(capture) - 1 : /\ capture'[i] = capture[i + 1]
                                         /\ i + 1 \in 1 .. Len(capture)
                                         /\ i + 1 # 1
  BY FirstWaits
<1>2. capture[1].frame.message = m => Pending(m)
  BY <1>1 DEF Pending
<1>3. ASSUME Pending(m)' PROVE Pending(m) /\ capture[1].frame.message # m
  <2>1. PICK i \in 1 .. Len(capture) - 1 : capture[i + 1].frame.message = m
    BY <1>1, <1>3 DEF Pending
  <2>2. i + 1 \in 1 .. Len(capture) /\ i + 1 # 1
    BY <1>1
  <2> QED BY <1>1, <2>1, <2>2 DEF Pending
<1>4. ASSUME Pending(m), capture[1].frame.message # m PROVE Pending(m)'
  <2>1. PICK j \in 1 .. Len(capture) : capture[j].frame.message = m
    BY <1>4 DEF Pending
  <2>2. /\ j # 1 /\ j - 1 \in 1 .. Len(capture) - 1 /\ (j - 1) + 1 = j
    BY <1>1, <1>4, <2>1
  <2>3. capture'[j - 1] = capture[j]
    BY <1>1, <2>2
  <2>4. j - 1 \in 1 .. Len(capture')
    BY <1>1, <2>2
  <2>5. capture'[j - 1].frame.message = m
    BY <2>1, <2>3
  <2> QED BY <2>4, <2>5 DEF Pending
<1> QED BY <1>2, <1>3, <1>4

\* Nor does the analysis of a frame.
LEMMA AnalyzeStep ==
    ASSUME RegenerationInv, Analyze
    PROVE  RegenerationInv'
<1> DEFINE f == capture[1].frame
           t == capture[1].at
           o == Sender[f.message]
<1>1. CaptureInv /\ capture # <<>>
  BY DEF RegenerationInv, Analyze
<1>2. /\ capture' = Tail(capture) /\ tick' = tick /\ model' = model
      /\ scenario' = scenario
      /\ named' = named \cup {NodeOf(e) : e \in produced'}
      /\ ProcessKnown(f, t)
  BY <1>1, FirstWaits DEF Analyze
<1>3. /\ Len(capture) \in Nat \ {0} /\ Len(capture') = Len(capture) - 1
      /\ 1 \in 1 .. Len(capture)
      /\ \A i \in 1 .. Len(capture) - 1 : /\ capture'[i] = capture[i + 1]
                                         /\ i + 1 \in 1 .. Len(capture)
      /\ \E S : capture' \in Seq(S)
      /\ t \in Int /\ f.message \in Messages /\ o \in Nodes
  BY <1>1, <1>2, FirstWaits, DatabaseAssumption DEF CaptureInv
<1>4. /\ lastSeen' = [lastSeen EXCEPT ![f.message] = t]
      /\ staleSince' = [x \in Messages |-> IF x = f.message THEN None
                                            ELSE StalePoint(x, t)]
      /\ silentSince' = [x \in Nodes |-> IF x = o THEN None ELSE SilentPoint(x, t)]
      /\ lastSequence' = SequenceAfter(f, t)
      /\ lastUptime' = IF f.message \in Heartbeats /\ f.uptime # None
                       THEN [lastUptime EXCEPT ![f.message] = f.uptime]
                       ELSE lastUptime
      /\ rangeSince' = [rangeSince EXCEPT ![f.message] = RangeAfter(f, t)]
  BY <1>2 DEF ProcessKnown
<1>5. ASSUME NEW e \in produced' PROVE NodeOf(e) \in Nodes
  <2>1. e \in TimeoutFindings(t) \cup RecoveryFindings(f, t)
              \cup RestartFindings(f, t) \cup GapFindings(f, t)
              \cup RangeFindings(f, t)
    BY <1>2 DEF ProcessKnown
  <2>2. \A m \in Messages : Sender[m] \in Nodes
    BY DatabaseAssumption
  <2> HIDE DEF f, t
  <2> QED BY <1>3, <2>1, <2>2, FindingsName DEF o
<1>6. CaptureInv'
  <2>1. \A i \in 1 .. Len(capture') :
           /\ capture'[i].at \in Int
           /\ capture'[i].at <= Base(tick - 1) + LatestPhase + Generator!MaxJitter
           /\ capture'[i].frame.message \in Messages
    BY <1>1, <1>3 DEF CaptureInv
  <2>2. ASSUME NEW i \in 1 .. Len(capture'), NEW j \in 1 .. Len(capture'), i < j
        PROVE  capture'[i].at < capture'[j].at
    <3>1. /\ i + 1 \in 1 .. Len(capture) /\ j + 1 \in 1 .. Len(capture)
          /\ i + 1 < j + 1
          /\ capture'[i] = capture[i + 1] /\ capture'[j] = capture[j + 1]
      BY <1>3, <2>2
    <3>2. capture[i + 1].at < capture[j + 1].at
      BY <1>1, <3>1 DEF CaptureInv
    <3> QED BY <3>1, <3>2
  <2>3. /\ DOMAIN lastSeen' = Messages /\ DOMAIN lastUptime' = Messages
        /\ DOMAIN rangeSince' = Messages
    BY <1>1, <1>4 DEF CaptureInv
  <2>4. Base(tick - 1)' = Base(tick - 1)
    BY <1>2 DEF Base
  <2>5. named' \subseteq Nodes
    BY <1>1, <1>2, <1>5 DEF CaptureInv
  <2> QED BY <1>1, <1>2, <1>3, <2>1, <2>2, <2>3, <2>4, <2>5 DEF CaptureInv
<1>7. ASSUME NEW n \in Nodes, Healthy(n)' PROVE HealthyInv(n)'
  <2>1. HealthyInv(n)
    BY <1>2, <1>7 DEF Healthy, RegenerationInv
  <2>2. WaitingInv(n) /\ CounterInv(n) /\ RunInv(n) /\ SeenInv(n) /\ QuietInv(n)
    BY <2>1 DEF HealthyInv
  <2> DEFINE d == DataMessage[n]
             b == HeartbeatMessage[n]
  <2>3. /\ d \in Messages \ Heartbeats /\ b \in Messages \cap Heartbeats
        /\ d # b /\ Sender[d] = n /\ Sender[b] = n
    BY Network
  <2>4. /\ \A m \in Messages : Sender[m] = n =>
               StalePoint(m, t) = None
        /\ SilentPoint(n, t) = None
    BY <1>1, <2>1, NothingIsMissed
  <2>5. o = n => /\ DataEntry(n, capture[1]) \/ BeatEntry(n, capture[1])
                 /\ ~UptimeFell(f)
                 /\ RangeAfter(f, t) = [s \in Signals |-> None]
    BY <1>1, <2>1, NothingIsWrong
  <2>6. /\ f.message = d => DataEntry(n, capture[1])
        /\ f.message = b => BeatEntry(n, capture[1])
        /\ o = n => f.message \in {d, b}
    BY <2>3, <2>5 DEF DataEntry, BeatEntry
  <2>7. /\ f.message = d => Pending(d)
        /\ f.message = b => Pending(b)
        /\ Pending(d)' <=> Pending(d) /\ f.message # d
        /\ Pending(b)' <=> Pending(b) /\ f.message # b
    BY <1>1, <1>2, <2>2, <2>3, Taken DEF WaitingInv
  <2>8. WaitingInv(n)'
    <3>1. ASSUME NEW i \in 1 .. Len(capture'),
                 Sender[capture'[i].frame.message] = n
          PROVE  DataEntry(n, capture[i])' \/ BeatEntry(n, capture[i])'
      <4>1. /\ capture'[i] = capture[i + 1]
            /\ DataEntry(n, capture[i + 1]) \/ BeatEntry(n, capture[i + 1])
        BY <1>3, <2>2, <3>1 DEF WaitingInv
      <4>2. /\ Due(tick - 1, Generator!DataPhase[n])' =
                   Due(tick - 1, Generator!DataPhase[n])
            /\ Due(tick - 1, Generator!HeartbeatPhase[n])' =
                   Due(tick - 1, Generator!HeartbeatPhase[n])
        BY <1>2 DEF Due, Base
      <4>3. CASE DataEntry(n, capture[i + 1])
        BY <4>1, <4>2, <4>3 DEF DataEntry
      <4>4. CASE BeatEntry(n, capture[i + 1])
        BY <1>2, <4>1, <4>2, <4>4 DEF BeatEntry
      <4> QED BY <4>1, <4>3, <4>4
    <3>2. ASSUME NEW i \in 1 .. Len(capture'), NEW j \in 1 .. Len(capture'),
                 Sender[capture'[i].frame.message] = n,
                 capture'[i].frame.message = capture'[j].frame.message
          PROVE  i = j
      <4>1. /\ capture'[i] = capture[i + 1] /\ capture'[j] = capture[j + 1]
            /\ i + 1 \in 1 .. Len(capture) /\ j + 1 \in 1 .. Len(capture)
            /\ i \in Int /\ j \in Int
        BY <1>3
      <4>2. i + 1 = j + 1
        BY <2>2, <3>2, <4>1 DEF WaitingInv
      <4> QED BY <4>1, <4>2
    <3> QED BY <3>1, <3>2 DEF WaitingInv
  <2>9. RunInv(n)'
    BY <1>2, <2>2 DEF RunInv
  <2>10. QuietInv(n)'
    <3>1. \A m \in Messages : Sender[m] = n => staleSince'[m] = None
      BY <1>4, <2>4
    <3>2. \A m \in Messages : Sender[m] = n =>
              \A s \in Signals : rangeSince'[m][s] = None
      BY <1>1, <1>3, <1>4, <2>2, <2>5 DEF QuietInv, CaptureInv
    <3>3. silentSince'[n] = None
      BY <1>4, <2>4
    <3>4. n \notin named'
      BY <1>1, <1>2, <2>1, <2>2, NothingIsRaised DEF QuietInv
    <3> QED BY <3>1, <3>2, <3>3, <3>4 DEF QuietInv
  <2>11. CounterInv(n)'
    <3>1. \A x, y : Follows(x, y)' <=> Follows(x, y)
      BY DEF Follows
    <3>2. CASE f.message = d
      <4>1. /\ f.sequence \in Counters /\ f.sequence # None /\ ~UptimeFell(f)
            /\ Baseline(d, t) = lastSequence[d]
        <5>1. f.sequence \in Counters
          BY <2>6, <3>2 DEF DataEntry
        <5>2. f.sequence # None
          BY <5>1, ConfigAssumption, BoundAssumption DEF Counters
        <5>3. ~WasStale(d, t)
          BY <2>3, <2>4 DEF WasStale
        <5> QED BY <2>3, <2>5, <3>2, <5>1, <5>2, <5>3 DEF Baseline
      <4>2. lastSequence'[d] = IF CheckSequence THEN f.sequence ELSE lastSequence[d]
        BY <1>4, <2>3, <3>2, <4>1 DEF SequenceAfter, ReadsCounter
      <4>3. model[n].counter = (f.sequence + 1) % CounterModulus
        BY <1>3, <2>2, <3>2 DEF CounterInv
      <4>4. ~CheckSequence => lastSequence[d] = None
        BY <2>2 DEF CounterInv
      <4>5. Follows(model[n].counter, lastSequence'[d])
        BY <4>1, <4>2, <4>3, <4>4 DEF Follows
      <4>6. \A i \in 1 .. Len(capture') : capture'[i].frame.message # d
        BY <2>7, <3>2 DEF Pending
      <4>7. ~CheckSequence => lastSequence'[d] = None
        BY <4>2, <4>4
      <4> QED BY <1>2, <2>2, <3>1, <4>5, <4>6, <4>7 DEF CounterInv, d
    <3>3. CASE f.message # d
      <4>1. lastSequence'[d] = lastSequence[d]
        <5>1. ~(UptimeFell(f) /\ Sender[d] = Sender[f.message])
          BY <2>3, <2>5
        <5> QED BY <1>4, <2>3, <3>3, <5>1 DEF SequenceAfter
      <4>2. ASSUME NEW i \in 1 .. Len(capture'), capture'[i].frame.message = d
            PROVE  /\ Follows(capture'[i].frame.sequence, lastSequence[d])
                   /\ model[n].counter =
                          (capture'[i].frame.sequence + 1) % CounterModulus
        BY <1>3, <2>2, <4>2 DEF CounterInv
      <4>3. ~Pending(d)' => Follows(model[n].counter, lastSequence[d])
        BY <2>2, <2>7, <3>3 DEF CounterInv
      <4> QED BY <1>2, <2>2, <3>1, <4>1, <4>2, <4>3 DEF CounterInv, d
    <3> QED BY <3>2, <3>3
  <2>12. SeenInv(n)'
    <3>1. /\ tick \in Nat /\ \A m \in Messages : lastSeen'[m] =
                                IF m = f.message THEN t ELSE lastSeen[m]
      BY <1>1, <1>4 DEF CaptureInv
    <3>2. LastData(n)' = IF f.message = d THEN tick - 1 ELSE LastData(n)
      BY <1>2, <2>7, <3>1 DEF LastData, d
    <3>3. LastBeat(n)' = IF f.message = b THEN tick - 1 ELSE LastBeat(n)
      <4>1. CASE f.message = b
        <5>1. (tick - 1) % 10 = 0
          BY <2>6, <4>1, Numbers DEF BeatEntry
        <5>2. ~Pending(b)'
          BY <2>7, <4>1
        <5>3. tick - 1 = 10 * ((tick - 1) \div 10)
          BY <3>1, <5>1
        <5>4. LastBeat(n)' = 10 * ((tick - 1) \div 10 - 0)
          BY <1>2, <5>2, Numbers DEF LastBeat, b
        <5> QED BY <3>1, <4>1, <5>3, <5>4
      <4>2. CASE f.message # b
        BY <1>2, <2>7, <4>2 DEF LastBeat, b
      <4> QED BY <4>1, <4>2
    <3>4. f.message = d => t >= Base(tick - 1) + Generator!DataPhase[n]
                                - Generator!MaxJitter
      BY <2>6 DEF DataEntry, Due
    <3>5. f.message = b => t >= Base(tick - 1) + Generator!HeartbeatPhase[n]
                                - Generator!MaxJitter
      BY <2>6 DEF BeatEntry, Due
    <3>6. lastUptime'[b] # None => /\ lastUptime'[b] \in Int
                                   /\ lastUptime'[b] <= (tick - 1) \div 10
      <4>1. CASE f.message = b /\ f.uptime # None
        <5>1. f.uptime = (tick - 1) \div 10
          BY <2>6, <4>1, Numbers DEF BeatEntry
        <5>2. lastUptime'[b] = f.uptime
          BY <1>1, <1>4, <2>3, <4>1 DEF CaptureInv
        <5> QED BY <3>1, <5>1, <5>2
      <4>2. CASE ~(f.message = b /\ f.uptime # None)
        <5>1. lastUptime'[b] = lastUptime[b]
          BY <1>1, <1>4, <2>3, <4>2 DEF CaptureInv
        <5> QED BY <2>2, <5>1, Numbers DEF SeenInv
      <4> QED BY <4>1, <4>2
    <3>7. \A m \in Messages \ {d, b} : Sender[m] = n => lastSeen'[m] = None
      BY <2>2, <2>6, <3>1 DEF SeenInv
    <3>8. lastSeen'[d] # None =>
              /\ lastSeen'[d] \in Int
              /\ lastSeen'[d] >= Base(LastData(n))' + Generator!DataPhase[n]
                                 - Generator!MaxJitter
      <4>1. Base(LastData(n))' = Base(IF f.message = d THEN tick - 1 ELSE LastData(n))
        BY <3>2 DEF Base
      <4> QED BY <1>3, <2>2, <2>3, <3>1, <3>4, <4>1 DEF SeenInv
    <3>9. lastSeen'[b] # None =>
              /\ lastSeen'[b] \in Int
              /\ lastSeen'[b] >= Base(LastBeat(n))' + Generator!HeartbeatPhase[n]
                                 - Generator!MaxJitter
      <4>1. Base(LastBeat(n))' = Base(IF f.message = b THEN tick - 1 ELSE LastBeat(n))
        BY <3>3 DEF Base
      <4> QED BY <1>3, <2>2, <2>3, <3>1, <3>5, <4>1 DEF SeenInv
    <3> QED BY <1>2, <3>6, <3>7, <3>8, <3>9, Numbers DEF SeenInv, d, b
  <2> QED BY <2>8, <2>9, <2>10, <2>11, <2>12 DEF HealthyInv
<1> QED BY <1>6, <1>7 DEF RegenerationInv

\* The invariant holds of every capture and its analysis.
THEOREM GeneratedCaptureInvariant ==
    RegenerationSpec => []RegenerationInv
<1>1. RegenerationInit => RegenerationInv
  <2> SUFFICES ASSUME RegenerationInit PROVE RegenerationInv
    OBVIOUS
  <2>1. /\ tick = 0 /\ capture = <<>> /\ named = {}
        /\ lastSeen = [m \in Messages |-> None]
        /\ staleSince = [m \in Messages |-> None]
        /\ lastSequence = [m \in Messages |-> None]
        /\ lastUptime = [m \in Messages |-> None]
        /\ rangeSince = [m \in Messages |-> [s \in Signals |-> None]]
        /\ silentSince = [n \in Nodes |-> None]
        /\ \A n \in Nodes : model[n] = [counter  |-> 0,
                                        bootTick |-> 0,
                                        booted   |-> FALSE]
    BY NetworkAssumption
       DEF RegenerationInit, Init, Generator!GeneratorInit, Generator!ScenarioNodes
  <2>2. CaptureInv
    <3>1. capture \in Seq(Int) /\ Len(capture) = 0
      BY <2>1
    <3> QED BY <2>1, <3>1 DEF CaptureInv
  <2>3. ASSUME NEW n \in Nodes PROVE HealthyInv(n)
    <3>1. Len(capture) = 0
      BY <2>1
    <3>2. DataMessage[n] \in Messages /\ HeartbeatMessage[n] \in Messages
      BY Network
    <3>3. 0 \in Counters
      BY ConfigAssumption DEF Counters
    <3>4. (tick > 0) = FALSE
      BY <2>1
    <3>5. model[n].counter = 0
      BY <2>1
    <3>6. RunInv(n)
      BY <2>1, <3>4, <3>5, Zenon DEF RunInv
    <3>7. WaitingInv(n)
      BY <3>1 DEF WaitingInv
    <3>8. CounterInv(n)
      BY <2>1, <3>1, <3>2, <3>3, <3>5 DEF CounterInv, Follows
    <3>9. SeenInv(n)
      BY <2>1, <3>2 DEF SeenInv
    <3>10. QuietInv(n)
      BY <2>1 DEF QuietInv
    <3> QED BY <3>6, <3>7, <3>8, <3>9, <3>10 DEF HealthyInv
  <2> QED BY <2>2, <2>3 DEF RegenerationInv
<1>2. RegenerationInv /\ [RegenerationNext]_regenerationVars => RegenerationInv'
  <2> SUFFICES ASSUME RegenerationInv, [RegenerationNext]_regenerationVars
               PROVE  RegenerationInv'
    OBVIOUS
  <2>1. CASE Generate
    BY <2>1, GenerateStep
  <2>2. CASE Analyze
    BY <2>2, AnalyzeStep
  <2>3. CASE UNCHANGED regenerationVars
    <3> USE <2>3 DEF regenerationVars, vars, messageVars, nodeVars
    <3>1. CaptureInv'
      BY DEF RegenerationInv, CaptureInv, Base
    <3>2. ASSUME NEW n \in Nodes, Healthy(n)' PROVE HealthyInv(n)'
      <4>1. HealthyInv(n)
        BY <3>2 DEF RegenerationInv, Healthy
      <4>2. WaitingInv(n)'
        BY <4>1 DEF HealthyInv, WaitingInv, DataEntry, BeatEntry, Due, Base
      <4>3. CounterInv(n)'
        BY <4>1 DEF HealthyInv, CounterInv, Pending, Follows
      <4>4. RunInv(n)'
        BY <4>1 DEF HealthyInv, RunInv
      <4>5. SeenInv(n)'
        BY <4>1 DEF HealthyInv, SeenInv, LastData, LastBeat, Pending, Base
      <4>6. QuietInv(n)'
        BY <4>1 DEF HealthyInv, QuietInv
      <4> QED BY <4>2, <4>3, <4>4, <4>5, <4>6 DEF HealthyInv
    <3> QED BY <3>1, <3>2 DEF RegenerationInv
  <2> QED BY <2>1, <2>2, <2>3 DEF RegenerationNext
<1> QED BY <1>1, <1>2, PTL DEF RegenerationSpec

\* No false alarms: a node that nothing is injected into is never named by a
\* finding (scenario.py:124-125, "PowerMonitor traffic is unaffected").
THEOREM NoFalseAlarms ==
    RegenerationSpec => []HealthyNodesAreNotNamed
<1>1. RegenerationInv => HealthyNodesAreNotNamed
  <2> SUFFICES ASSUME RegenerationInv, NEW n \in named PROVE n \in InjectedNodes
    BY DEF HealthyNodesAreNotNamed
  <2>1. n \in Nodes
    BY DEF RegenerationInv, CaptureInv
  <2>2. ~Healthy(n)
    BY <2>1 DEF RegenerationInv, HealthyInv, QuietInv
  <2> QED BY <2>2 DEF Healthy, InjectedNodes
<1> QED BY <1>1, GeneratedCaptureInvariant, PTL

-----------------------------------------------------------------------------
(* The generator, as to the node that is injected into.                     *)

\* The scenarios, and what is injected by which.
LEMMA Scenes ==
    ASSUME ScenarioInv
    PROVE  /\ ~(Faulty /\ Reboots)
           /\ Faulty => /\ OutageStart = 300 /\ OutageEnd = 330
                        /\ scenario.duration = 60000
                        /\ scenario.injections =
                               {Generator!RangeInjection, Generator!SilentInjection,
                                Generator!SkipInjection}
           /\ Reboots => /\ OutageStart = 100 /\ OutageEnd = 120
                         /\ scenario.duration = 20000
                         /\ scenario.injections = {Generator!RestartInjection}
           /\ ~Faulty /\ ~Reboots => /\ OutageStart = 1000 /\ OutageEnd = 1000
                                     /\ scenario.duration = 10000
                                     /\ scenario.injections = {}
<1>1. /\ Generator!FaultSession.duration = 60000
      /\ Generator!RestartSession.duration = 20000
      /\ Generator!NormalSession.duration = 10000
      /\ Generator!NormalSession.injections = {}
      /\ Generator!RestartSession.injections = {Generator!RestartInjection}
      /\ Generator!FaultSession.injections =
             {Generator!RangeInjection, Generator!SilentInjection,
              Generator!SkipInjection}
  BY DEF Generator!FaultSession, Generator!RestartSession, Generator!NormalSession
<1>2. ~(Faulty /\ Reboots)
  BY <1>1 DEF Faulty, Reboots
<1>3. scenario \in {Generator!NormalSession, Generator!FaultSession,
                    Generator!RestartSession}
  BY DEF ScenarioInv, Generator!AllScenarios
<1> QED BY <1>1, <1>2, <1>3 DEF Faulty, Reboots, OutageStart, OutageEnd

LEMMA Injections ==
    /\ \A i \in {Generator!RangeInjection, Generator!SilentInjection,
                 Generator!SkipInjection, Generator!RestartInjection} :
           i.node = ThermalNode
    /\ Generator!RangeInjection.kind = "range"
    /\ Generator!RangeInjection.start = 15000
    /\ Generator!RangeInjection.end = 20000
    /\ Generator!RangeInjection.expected = {"range_violation", "range_recovered"}
    /\ Generator!SilentInjection.kind = "silent"
    /\ Generator!SilentInjection.start = 30000
    /\ Generator!SilentInjection.end = 33000
    /\ Generator!SilentInjection.expected = Generator!OutageFindings
    /\ Generator!SkipInjection.kind = "skip"
    /\ Generator!SkipInjection.start = 45000
    /\ Generator!SkipInjection.end = None
    /\ Generator!SkipInjection.expected = {"sequence_gap"}
    /\ Generator!RestartInjection.kind = "restart"
    /\ Generator!RestartInjection.start = 10000
    /\ Generator!RestartInjection.end = 12000
    /\ Generator!RestartInjection.expected =
           Generator!OutageFindings \cup {"node_restart"}
    /\ None \notin Int
BY BoundAssumption DEF Generator!RangeInjection, Generator!SilentInjection,
       Generator!SkipInjection, Generator!RestartInjection

\* What is in force at a tick.
LEMMA InForce ==
    ASSUME ScenarioInv, tick \in Nat
    PROVE  /\ Healthy(PowerNode)
           /\ Generator!Active("restart", ThermalNode) <=> Reboots /\ Out(tick)
           /\ Generator!Active("silent", ThermalNode) <=> Faulty /\ Out(tick)
           /\ Generator!Active("range", ThermalNode) <=> OutOfRange(tick)
           /\ Generator!Active("skip", ThermalNode) <=> Faulty /\ tick = 450
<1>1. Healthy(PowerNode)
  BY Scenes, Injections, NetworkAssumption DEF Healthy
<1>2. ASSUME NEW kind
      PROVE  Generator!Active(kind, ThermalNode) <=>
                 \E i \in scenario.injections :
                     i.kind = kind /\ Generator!Covers(i, 100 * tick)
  <2>1. tick * Generator!DataPeriod = 100 * tick
    BY Numbers
  <2> QED BY <2>1, Scenes, Injections DEF Generator!Active
<1>3. /\ Generator!Covers(Generator!RangeInjection, 100 * tick) <=>
             150 <= tick /\ tick < 200
      /\ Generator!Covers(Generator!SilentInjection, 100 * tick) <=>
             300 <= tick /\ tick < 330
      /\ Generator!Covers(Generator!SkipInjection, 100 * tick) <=> tick = 450
      /\ Generator!Covers(Generator!RestartInjection, 100 * tick) <=>
             100 <= tick /\ tick < 120
  BY Injections DEF Generator!Covers
<1>4. CASE Faulty
  <2>1. /\ ~Reboots /\ OutageStart = 300 /\ OutageEnd = 330
        /\ scenario.injections = {Generator!RangeInjection,
                                  Generator!SilentInjection,
                                  Generator!SkipInjection}
    BY <1>4, Scenes
  <2> QED BY <1>1, <1>2, <1>3, <1>4, <2>1, Injections DEF Out, OutOfRange
<1>5. CASE Reboots
  <2>1. /\ ~Faulty /\ OutageStart = 100 /\ OutageEnd = 120
        /\ scenario.injections = {Generator!RestartInjection}
    BY <1>5, Scenes
  <2> QED BY <1>1, <1>2, <1>3, <1>5, <2>1, Injections DEF Out, OutOfRange
<1>6. CASE ~Faulty /\ ~Reboots
  <2>1. scenario.injections = {}
    BY <1>6, Scenes
  <2> QED BY <1>1, <1>2, <1>6, <2>1 DEF OutOfRange
<1> QED BY <1>4, <1>5, <1>6

LEMMA OutageTicks ==
    ASSUME ScenarioInv
    PROVE  /\ OutageStart \in Nat /\ OutageEnd \in Nat
           /\ OutageStart % 10 = 0 /\ OutageEnd % 10 = 0
           /\ 100 <= OutageStart /\ OutageStart <= OutageEnd
           /\ Faulty \/ Reboots => OutageStart + 20 <= OutageEnd
           /\ OutageStart < OutageEnd => Faulty \/ Reboots
           /\ Faulty => ~Reboots /\ OutageStart = 300 /\ OutageEnd = 330
           /\ Reboots => OutageStart = 100 /\ OutageEnd = 120
<1>1. 300 % 10 = 0 /\ 330 % 10 = 0 /\ 100 % 10 = 0 /\ 120 % 10 = 0
      /\ 1000 % 10 = 0
  OBVIOUS
<1> QED BY <1>1, Scenes

\* The injected node's state once it has booted, if it had to.
LEMMA InjectedBoot ==
    ASSUME ScenarioInv, tick \in Nat, ThermalRun, ~(Reboots /\ Out(tick))
    PROVE  Generator!Booted(ThermalNode) =
               [counter  |-> IF Reboots /\ tick = OutageEnd THEN 0
                             ELSE model[ThermalNode].counter,
                bootTick |-> IF Reboots /\ tick >= OutageEnd THEN OutageEnd ELSE 0,
                booted   |-> TRUE]
<1> DEFINE c == model[ThermalNode].counter
           boot == IF Reboots /\ tick > OutageEnd THEN OutageEnd ELSE 0
           up == tick > 0 /\ ~(Reboots /\ Out(tick - 1))
<1>1. model[ThermalNode] = [counter |-> c, bootTick |-> boot, booted |-> up]
  BY DEF ThermalRun
<1>2. model[ThermalNode].booted = up
  <2> HIDE DEF c, boot, up
  <2> QED BY <1>1
<1>3. CASE up
  <2>1. Generator!Booted(ThermalNode) = model[ThermalNode]
    BY <1>2, <1>3, Zenon DEF Generator!Booted
  <2>2. /\ ~(Reboots /\ tick = OutageEnd)
        /\ Reboots /\ tick > OutageEnd <=> Reboots /\ tick >= OutageEnd
    BY <1>3, OutageTicks DEF Out
  <2>3. up = TRUE
    BY <1>3
  <2> HIDE DEF up, c
  <2>4. boot = IF Reboots /\ tick >= OutageEnd THEN OutageEnd ELSE 0
    BY <2>2
  <2> HIDE DEF boot
  <2>5. (IF Reboots /\ tick = OutageEnd THEN 0 ELSE c) = c
    BY <2>2
  <2> QED BY <1>1, <2>1, <2>3, <2>4, <2>5, Zenon DEF c
<1>4. CASE ~up
  <2>1. ~model[ThermalNode].booted
    BY <1>2, <1>4, Zenon
  <2>2. Generator!Booted(ThermalNode) =
            [counter  |-> IF tick = 0 THEN c ELSE 0,
             bootTick |-> tick,
             booted   |-> TRUE]
    BY <2>1, Zenon DEF Generator!Booted
  <2>3. tick = 0 \/ (Reboots /\ tick = OutageEnd)
    BY <1>4, OutageTicks DEF Out
  <2>4. CASE tick = 0
    <3>1. ~(Reboots /\ tick = OutageEnd) /\ ~(Reboots /\ tick >= OutageEnd)
      BY <2>4, OutageTicks
    <3> HIDE DEF c
    <3> QED BY <2>2, <2>4, <3>1 DEF c
  <2>5. CASE Reboots /\ tick = OutageEnd
    <3>1. tick # 0 /\ tick >= OutageEnd
      BY <2>5, OutageTicks
    <3> HIDE DEF c
    <3> QED BY <2>2, <2>5, <3>1 DEF c
  <2> QED BY <2>3, <2>4, <2>5
<1> QED BY <1>3, <1>4

\* What the injected node sends in a tick, and how it comes out of it.
LEMMA InjectedFrames ==
    ASSUME ScenarioInv, tick \in Nat, ThermalRun,
           model[ThermalNode].counter \in Counters
    PROVE  /\ Generator!DataFrame(ThermalNode) \in Generator!NodeFrames(ThermalNode)
                  <=> ~Out(tick)
           /\ Generator!HeartbeatFrame(ThermalNode) \in Generator!NodeFrames(ThermalNode)
                  <=> ~Out(tick) /\ tick % 10 = 0
           /\ Generator!DataFrame(ThermalNode).value[Temperature] =
                  IF OutOfRange(tick) THEN "invalid" ELSE "valid"
           /\ Generator!HeartbeatFrame(ThermalNode).value[Temperature] = "absent"
           /\ ~Out(tick) =>
                  Generator!HeartbeatFrame(ThermalNode).uptime = UptimeAt(tick)
           /\ ~Out(tick) => \E c \in Counters :
                  /\ c = model[ThermalNode].counter \/ tick = OutageEnd
                  /\ Generator!DataFrame(ThermalNode).sequence =
                         (c + SkipAt(tick)) % CounterModulus
           /\ Generator!DataFrame(ThermalNode).sequence \in Counters
           /\ Generator!NodeAfter(ThermalNode).counter =
                  IF Out(tick) THEN model[ThermalNode].counter
                  ELSE (Generator!DataFrame(ThermalNode).sequence + 1) % CounterModulus
           /\ Generator!NodeAfter(ThermalNode) =
                  [counter  |-> Generator!NodeAfter(ThermalNode).counter,
                   bootTick |-> IF Reboots /\ tick >= OutageEnd
                                THEN OutageEnd ELSE 0,
                   booted   |-> ~(Reboots /\ Out(tick))]
<1> DEFINE n == ThermalNode
           c == model[n].counter
           k == IF Reboots /\ tick = OutageEnd THEN 0 ELSE c
           boot == IF Reboots /\ tick >= OutageEnd THEN OutageEnd ELSE 0
           skip == IF Generator!Active("skip", n) THEN Generator!SkipCount ELSE 0
           q == Generator!DataFrame(n).sequence
<1>1. /\ Generator!Active("restart", n) <=> Reboots /\ Out(tick)
      /\ Generator!Active("silent", n) <=> Faulty /\ Out(tick)
      /\ Generator!Active("range", n) <=> OutOfRange(tick)
      /\ skip = SkipAt(tick)
  BY InForce DEF SkipAt
<1>2. Out(tick) => (Faulty \/ Reboots) /\ ~(Faulty /\ Reboots) /\ tick > 0
  BY OutageTicks, Scenes DEF Out
<1>3. c \in Counters /\ k \in Counters /\ 0 \in Counters /\ skip \in 0 .. 4
  BY ConfigAssumption, <1>1 DEF Counters, SkipAt, Generator!SkipCount
<1>4. Generator!DataFrame(n).value[Temperature] =
          IF OutOfRange(tick) THEN "invalid" ELSE "valid"
  BY <1>1 DEF Generator!DataFrame
<1>5. Generator!HeartbeatFrame(n).value[Temperature] = "absent"
  BY DEF Generator!HeartbeatFrame
<1>6. q = Generator!Counter(n)
  BY DEF Generator!DataFrame
<1>7. Generator!Counter(n) = (Generator!Booted(n).counter + skip) % CounterModulus
  BY DEF Generator!Counter
<1>8. q \in Counters
  <2>1. Generator!Booted(n).counter \in Counters
    <3>1. CASE model[n].booted
      BY <3>1, Zenon DEF Generator!Booted
    <3>2. CASE ~model[n].booted
      <4>1. Generator!Booted(n) = [counter  |-> IF tick = 0 THEN c ELSE 0,
                                   bootTick |-> tick,
                                   booted   |-> TRUE]
        BY <3>2, Zenon DEF Generator!Booted
      <4> HIDE DEF c
      <4> QED BY <4>1, <1>3
    <3> QED BY <3>1, <3>2
  <2> DEFINE x == Generator!Booted(n).counter
  <2>2. x \in Int /\ skip \in Int /\ CounterModulus \in Nat \ {0}
    BY <1>3, <2>1, ConfigAssumption DEF Counters
  <2> HIDE DEF x, skip
  <2>3. (x + skip) % CounterModulus \in 0 .. CounterModulus - 1
    BY <2>2
  <2> QED BY <1>6, <1>7, <2>3 DEF Counters, x
<1> HIDE DEF q, skip
<1>9. CASE Reboots /\ Out(tick)
  <2>1. Generator!NodeFrames(n) = {}
    BY <1>1, <1>9 DEF Generator!NodeFrames
  <2> DEFINE down == FALSE
             old == model[n]
  <2>2. Generator!NodeAfter(n) = [old EXCEPT !.booted = down]
    BY <1>1, <1>9, Zenon DEF Generator!NodeAfter
  <2>3. model[n] = [counter  |-> c,
                    bootTick |-> IF Reboots /\ tick > OutageEnd THEN OutageEnd ELSE 0,
                    booted   |-> tick > 0 /\ ~(Reboots /\ Out(tick - 1))]
    BY DEF ThermalRun
  <2>4. ~(Reboots /\ tick > OutageEnd) /\ boot = 0
    BY <1>9, OutageTicks DEF Out
  <2> DEFINE up == tick > 0 /\ ~(Reboots /\ Out(tick - 1))
  <2>5. model[n] = [counter |-> c, bootTick |-> 0, booted |-> up]
    BY <2>3, <2>4
  <2> HIDE DEF up, c, boot, down, old
  <2>6. Generator!NodeAfter(n) = [counter |-> c, bootTick |-> 0, booted |-> down]
    BY <2>2, <2>5 DEF old
  <2>7. Generator!NodeAfter(n).counter = c
    BY <2>6
  <2>8. (~(Reboots /\ Out(tick))) = FALSE
    BY <1>9
  <2>9. Generator!NodeAfter(n) =
            [counter  |-> Generator!NodeAfter(n).counter,
             bootTick |-> boot,
             booted   |-> ~(Reboots /\ Out(tick))]
    BY <2>4, <2>6, <2>7, <2>8, Zenon DEF down
  <2> QED BY <1>4, <1>5, <1>8, <1>9, <2>1, <2>7, <2>9, Zenon DEF q, c, boot
<1>10. CASE ~(Reboots /\ Out(tick))
  <2>1. Generator!Booted(n) = [counter |-> k, bootTick |-> boot, booted |-> TRUE]
    BY <1>10, InjectedBoot
  <2> HIDE DEF k, boot
  <2>2. Generator!Booted(n).counter = k /\ Generator!Booted(n).bootTick = boot
    BY <2>1
  <2>3. q = (k + skip) % CounterModulus
    BY <1>6, <1>7, <2>2
  <2>4. Generator!LocalTick(n) = tick - boot
    BY <2>2 DEF Generator!LocalTick
  <2>5. /\ model[n].booted <=> tick > 0 /\ ~(Reboots /\ Out(tick - 1))
    <3> DEFINE up == tick > 0 /\ ~(Reboots /\ Out(tick - 1))
               at == IF Reboots /\ tick > OutageEnd THEN OutageEnd ELSE 0
    <3>1. model[n] = [counter |-> c, bootTick |-> at, booted |-> up]
      BY DEF ThermalRun
    <3> HIDE DEF up, c, at
    <3>2. model[n].booted = up
      BY <3>1
    <3> QED BY <3>2, Zenon DEF up
  <2>6. ~model[n].booted => ~Out(tick) /\ tick - boot = 0 /\ tick % 10 = 0
    <3>1. CASE tick = 0
      BY <1>2, <3>1, OutageTicks DEF boot
    <3>2. CASE tick > 0 /\ ~model[n].booted
      <4>1. Reboots /\ tick = OutageEnd
        BY <1>10, <2>5, <3>2, OutageTicks DEF Out
      <4> QED BY <4>1, OutageTicks DEF boot, Out
    <3> QED BY <3>1, <3>2
  <2>7. model[n].booted =>
            (tick - boot # 0 /\ (tick - boot) % 10 = 0 <=> tick % 10 = 0)
    <3> SUFFICES ASSUME model[n].booted
                 PROVE  tick - boot # 0 /\ (tick - boot) % 10 = 0 <=> tick % 10 = 0
      OBVIOUS
    <3>1. tick > 0 /\ ~(Reboots /\ tick = OutageEnd)
      BY <2>5, OutageTicks DEF Out
    <3>2. boot = 0 \/ (boot = 120 /\ tick > 120)
      BY <3>1, OutageTicks DEF boot
    <3> QED BY <3>1, <3>2
  <2>8. Generator!Active("silent", n) <=> Out(tick)
    BY <1>1, <1>2, <1>10
  <2>9. /\ Generator!DataFrame(n) \in Generator!NodeFrames(n) <=> ~Out(tick)
        /\ Generator!HeartbeatFrame(n) \in Generator!NodeFrames(n)
               <=> ~Out(tick) /\ tick % 10 = 0
    <3>1. Generator!DataFrame(n).message # Generator!HeartbeatFrame(n).message
      BY Network, NetworkAssumption
         DEF Generator!DataFrame, Generator!HeartbeatFrame
    <3>2. Generator!DataFrame(n) # Generator!HeartbeatFrame(n)
      BY <3>1
    <3> DEFINE beats == tick - boot # 0 /\ (tick - boot) % 10 = 0
    <3>3. Generator!NodeFrames(n) =
              (IF ~Out(tick) THEN {Generator!DataFrame(n)} ELSE {})
              \cup (IF ~model[n].booted \/ (~Out(tick) /\ beats)
                    THEN {Generator!HeartbeatFrame(n)} ELSE {})
      BY <1>1, <1>10, <2>4, <2>8, Numbers DEF Generator!NodeFrames
    <3> HIDE DEF beats
    <3>4. Generator!DataFrame(n) \in Generator!NodeFrames(n) <=> ~Out(tick)
      BY <3>2, <3>3
    <3>5. Generator!HeartbeatFrame(n) \in Generator!NodeFrames(n)
              <=> ~model[n].booted \/ (~Out(tick) /\ beats)
      BY <3>2, <3>3
    <3> QED BY <2>6, <2>7, <3>4, <3>5 DEF beats
  <2>10. ~Out(tick) => Generator!HeartbeatFrame(n).uptime = UptimeAt(tick)
    <3>1. Generator!HeartbeatFrame(n).uptime = (tick - boot) \div 10
      BY <2>4, Numbers DEF Generator!HeartbeatFrame
    <3>2. tick - boot = IF Reboots /\ tick >= OutageEnd THEN tick - OutageEnd ELSE tick
      BY DEF boot
    <3> QED BY <3>1, <3>2, Numbers DEF UptimeAt
  <2>11. ~Out(tick) => \E x \in Counters :
             /\ x = c \/ tick = OutageEnd
             /\ q = (x + SkipAt(tick)) % CounterModulus
    BY <1>1, <1>3, <2>3 DEF k
  <2>12. Generator!NodeAfter(n) =
             [counter  |-> IF Out(tick) THEN c ELSE (q + 1) % CounterModulus,
              bootTick |-> boot,
              booted   |-> TRUE]
    <3>1. CASE Out(tick)
      <4>1. Generator!NodeAfter(n) = Generator!Booted(n)
        BY <1>1, <1>10, <2>8, <3>1, Zenon DEF Generator!NodeAfter
      <4>2. k = c
        BY <1>10, <3>1 DEF k
      <4> HIDE DEF c
      <4> QED BY <2>1, <3>1, <4>1, <4>2
    <3>2. CASE ~Out(tick)
      <4> DEFINE old == Generator!Booted(n)
                 next == (q + 1) % CounterModulus
      <4>1. Generator!NodeAfter(n) = [old EXCEPT !.counter = next]
        BY <1>1, <1>6, <1>10, <2>8, <3>2, Zenon DEF Generator!NodeAfter
      <4>2. old = [counter |-> k, bootTick |-> boot, booted |-> TRUE]
        BY <2>1
      <4> HIDE DEF old, next, c
      <4>3. Generator!NodeAfter(n) = [counter |-> next, bootTick |-> boot, booted |-> TRUE]
        BY <4>1, <4>2
      <4> QED BY <3>2, <4>3 DEF next
    <3> QED BY <3>1, <3>2
  <2> DEFINE after == IF Out(tick) THEN c ELSE (q + 1) % CounterModulus
  <2>13. Generator!NodeAfter(n).counter = after
    <3> HIDE DEF after
    <3>1. Generator!NodeAfter(n) = [counter |-> after, bootTick |-> boot, booted |-> TRUE]
      BY <2>12 DEF after
    <3> QED BY <3>1
  <2>14. (~(Reboots /\ Out(tick))) = TRUE
    BY <1>10
  <2>15. Generator!NodeAfter(n) =
             [counter  |-> Generator!NodeAfter(n).counter,
              bootTick |-> boot,
              booted   |-> ~(Reboots /\ Out(tick))]
    <3> HIDE DEF after
    <3>1. Generator!NodeAfter(n) = [counter |-> after, bootTick |-> boot, booted |-> TRUE]
      BY <2>12 DEF after
    <3> QED BY <2>13, <2>14, <3>1, Zenon
  <2> QED BY <1>4, <1>5, <1>8, <2>9, <2>10, <2>11, <2>13, <2>15, Zenon
          DEF q, c, boot
<1> QED BY <1>9, <1>10

LEMMA SameScene ==
    ASSUME scenario' = scenario
    PROVE  /\ Faulty' = Faulty /\ Reboots' = Reboots
           /\ OutageStart' = OutageStart /\ OutageEnd' = OutageEnd
           /\ \A k : /\ Out(k)' <=> Out(k)
                     /\ OutOfRange(k)' <=> OutOfRange(k)
                     /\ SkipAt(k)' = SkipAt(k)
                     /\ UptimeAt(k)' = UptimeAt(k)
                     /\ DataGot(k)' = DataGot(k)
                     /\ BeatGot(k)' = BeatGot(k)
BY DEF Faulty, Reboots, OutageStart, OutageEnd, Out, OutOfRange, SkipAt,
       UptimeAt, DataGot, BeatGot

\* A tick that a message is not due in changes nothing.
LEMMA DataNotDue ==
    ASSUME ScenarioInv, NEW k \in Nat, Out(k)
    PROVE  /\ k - 1 \in Nat /\ DataGot(k) = DataGot(k - 1)
           /\ ~(k - 1 >= OutageEnd) /\ ~(k >= OutageEnd)
           /\ OutOfRange(k) <=> OutOfRange(k - 1)
           /\ Faulty => /\ k >= 450 <=> k - 1 >= 450
                        /\ k >= 150 <=> k - 1 >= 150
                        /\ k >= 200 <=> k - 1 >= 200
BY OutageTicks DEF Out, DataGot, OutOfRange

LEMMA BeatNotDue ==
    ASSUME ScenarioInv, NEW k \in Nat, Out(k) \/ k % 10 # 0
    PROVE  /\ k - 1 \in Nat /\ BeatGot(k) = BeatGot(k - 1)
           /\ Out(k - 1) => Out(k)
           /\ k - 1 >= OutageEnd <=> k >= OutageEnd
<1> DEFINE s == OutageStart
           e == OutageEnd
<1>1. /\ s \in Nat /\ e \in Nat /\ s % 10 = 0 /\ e % 10 = 0
      /\ 100 <= s /\ s <= e
  BY OutageTicks
<1>2. \A x : Out(x) <=> s <= x /\ x < e
  BY DEF Out
<1>3. \A x : BeatGot(x) = IF Out(x) THEN s - 10 ELSE 10 * (x \div 10)
  BY Numbers DEF BeatGot
<1> HIDE DEF s, e
<1>4. k > 0
  BY <1>1, <1>2
<1>5. Out(k - 1) => Out(k)
  BY <1>1, <1>2
<1>6. k - 1 >= e <=> k >= e
  BY <1>1, <1>2
<1>7. BeatGot(k) = BeatGot(k - 1)
  <2>1. CASE Out(k) /\ Out(k - 1)
    BY <1>3, <2>1
  <2>2. CASE Out(k) /\ ~Out(k - 1)
    <3>1. k = s
      BY <1>1, <1>2, <2>2
    <3>2. 10 * ((s - 1) \div 10) = s - 10
      BY <1>1
    <3> QED BY <1>3, <2>2, <3>1, <3>2
  <2>3. CASE ~Out(k)
    <3>1. ~Out(k - 1) /\ k % 10 # 0
      BY <1>5, <2>3
    <3>2. k \div 10 = (k - 1) \div 10
      BY <1>4, <3>1
    <3> QED BY <1>3, <2>3, <3>1, <3>2
  <2> QED BY <2>1, <2>2, <2>3
<1> QED BY <1>4, <1>5, <1>6, <1>7 DEF e

\* The messages of the injected node.
LEMMA InjectedMessages ==
    /\ ThermalNode \in Nodes
    /\ InjectedData \in Messages \ Heartbeats
    /\ InjectedBeat \in Messages \cap Heartbeats
    /\ InjectedData # InjectedBeat
    /\ Sender[InjectedData] = ThermalNode /\ Sender[InjectedBeat] = ThermalNode
    /\ Generator!DataPhase[ThermalNode] = 20
    /\ Generator!HeartbeatPhase[ThermalNode] = 60
    /\ StaleAfter[InjectedData] \in 108 .. 1999
    /\ StaleAfter[InjectedBeat] \in 1008 .. 2899
    /\ StaleAfter[InjectedData] <= StaleAfter[InjectedBeat]
<1>1. ThermalNode \in Nodes
  BY NetworkAssumption
<1>2. /\ InjectedData \in Messages \ Heartbeats
      /\ InjectedBeat \in Messages \cap Heartbeats
      /\ InjectedData # InjectedBeat
      /\ Sender[InjectedData] = ThermalNode /\ Sender[InjectedBeat] = ThermalNode
  BY <1>1, Network DEF InjectedData, InjectedBeat
<1>3. /\ Generator!DataPhase[ThermalNode] = 20
      /\ Generator!HeartbeatPhase[ThermalNode] = 60
  BY NetworkAssumption
     DEF Generator!DataPhase, Generator!HeartbeatPhase, Generator!ScenarioNodes
<1>4. StaleAfter[InjectedData] \in Int /\ StaleAfter[InjectedBeat] \in Int
  BY <1>2, ConfigAssumption
<1>5. /\ StaleAfter[InjectedData] >= 108 /\ StaleAfter[InjectedBeat] >= 1008
  BY <1>1, ThresholdAssumption, Numbers DEF InjectedData, InjectedBeat
<1>6. /\ StaleAfter[InjectedData] < 2000 /\ StaleAfter[InjectedBeat] < 2900
      /\ StaleAfter[InjectedData] <= StaleAfter[InjectedBeat]
  BY DefaultsAssumption, Injections, Numbers DEF InjectedData, InjectedBeat
<1> DEFINE x == StaleAfter[InjectedData]
           y == StaleAfter[InjectedBeat]
<1> HIDE DEF x, y
<1>7. x \in 108 .. 1999 /\ y \in 1008 .. 2899 /\ x <= y
  <2>1. x \in Int /\ y \in Int /\ x >= 108 /\ y >= 1008 /\ x < 2000 /\ y < 2900
        /\ x <= y
    BY <1>4, <1>5, <1>6 DEF x, y
  <2> QED BY <2>1
<1> QED BY <1>1, <1>2, <1>3, <1>7 DEF x, y

\* A tick leaves the invariant of the injected node as it is.
LEMMA InjectedGenerateStep ==
    ASSUME CaptureInv, ThermalInv, Generate
    PROVE  ThermalInv'
<1> DEFINE n == ThermalNode
           d == InjectedData
           b == InjectedBeat
           c == model[n].counter
<1>1. /\ tick \in Nat /\ tick' = tick + 1 /\ tick' - 1 = tick
      /\ capture = <<>> /\ scenario' = scenario /\ counts' = counts
      /\ lastSeen' = lastSeen /\ staleSince' = staleSince
      /\ lastSequence' = lastSequence /\ lastUptime' = lastUptime
      /\ rangeSince' = rangeSince /\ silentSince' = silentSince
      /\ lastRestart' = lastRestart /\ produced' = produced
      /\ named' = named
      /\ model'[n] = Generator!NodeAfter(n)
  BY Generated, InjectedMessages DEF CaptureInv, vars, messageVars, nodeVars, Generate
<1>2. /\ ScenarioInv /\ ThermalWaiting /\ ThermalRun /\ ThermalCounter
      /\ ThermalSeen /\ ThermalOpen /\ ReportInv
  BY DEF ThermalInv
<1>3. /\ Faulty' = Faulty /\ Reboots' = Reboots
      /\ OutageStart' = OutageStart /\ OutageEnd' = OutageEnd
      /\ \A k : /\ Out(k)' <=> Out(k)
                /\ OutOfRange(k)' <=> OutOfRange(k)
                /\ SkipAt(k)' = SkipAt(k)
                /\ UptimeAt(k)' = UptimeAt(k)
                /\ DataGot(k)' = DataGot(k)
                /\ BeatGot(k)' = BeatGot(k)
  BY <1>1, SameScene
<1>4. /\ \E S : capture' \in Seq(S)
      /\ \A i \in 1 .. Len(capture') : \E o \in Nodes :
             /\ capture'[i].frame \in Generator!NodeFrames(o)
             /\ capture'[i].at \in
                    Due(tick, Generator!FramePhase(o, capture'[i].frame))
      /\ \A o \in Nodes : \A f \in Generator!NodeFrames(o) :
             \E i \in 1 .. Len(capture') : capture'[i].frame = f
      /\ \A i, j \in 1 .. Len(capture') :
             capture'[i].frame = capture'[j].frame => i = j
  BY Generated
<1>5. /\ n \in Nodes /\ d # b /\ Sender[d] = n /\ Sender[b] = n
      /\ d \in Messages /\ b \in Messages
  BY InjectedMessages
<1>6. c \in Counters
  BY <1>2 DEF ThermalCounter
<1> DEFINE df == Generator!DataFrame(n)
           hf == Generator!HeartbeatFrame(n)
<1>7. /\ df \in Generator!NodeFrames(n) <=> ~Out(tick)
      /\ hf \in Generator!NodeFrames(n) <=> ~Out(tick) /\ tick % 10 = 0
      /\ df.value[Temperature] = IF OutOfRange(tick) THEN "invalid" ELSE "valid"
      /\ hf.value[Temperature] = "absent"
      /\ ~Out(tick) => hf.uptime = UptimeAt(tick)
      /\ ~Out(tick) => \E x \in Counters :
             /\ x = c \/ tick = OutageEnd
             /\ df.sequence = (x + SkipAt(tick)) % CounterModulus
      /\ df.sequence \in Counters
      /\ model'[n].counter = IF Out(tick) THEN c
                             ELSE (df.sequence + 1) % CounterModulus
      /\ model'[n] = [counter  |-> model'[n].counter,
                      bootTick |-> IF Reboots /\ tick >= OutageEnd
                                   THEN OutageEnd ELSE 0,
                      booted   |-> ~(Reboots /\ Out(tick))]
  <2>1. ScenarioInv /\ tick \in Nat /\ ThermalRun
    BY <1>1, <1>2
  <2> QED BY <1>1, <1>6, <2>1, InjectedFrames, Zenon
<1>8. df.message = d /\ hf.message = b
  BY DEF Generator!DataFrame, Generator!HeartbeatFrame, InjectedData, InjectedBeat
<1> HIDE DEF df, hf
\* What waits of the node afterwards.
<1>9. ASSUME NEW i \in 1 .. Len(capture'), Sender[capture'[i].frame.message] = n
      PROVE  \/ /\ capture'[i].frame = df /\ capture'[i].frame.message = d
                /\ ~Out(tick)
                /\ capture'[i].at \in Due(tick, Generator!DataPhase[n])
             \/ /\ capture'[i].frame = hf /\ capture'[i].frame.message = b
                /\ ~Out(tick) /\ tick % 10 = 0
                /\ capture'[i].at \in Due(tick, Generator!HeartbeatPhase[n])
  <2>1. PICK o \in Nodes :
            /\ capture'[i].frame \in Generator!NodeFrames(o)
            /\ capture'[i].at \in
                   Due(tick, Generator!FramePhase(o, capture'[i].frame))
    BY <1>4
  <2>2. o = n
    BY <1>9, <2>1, FramesAre
  <2>3. capture'[i].frame \in {df, hf}
    BY <2>1, <2>2, FramesAre DEF df, hf
  <2>4. Generator!FramePhase(n, capture'[i].frame) =
            IF capture'[i].frame.message = d THEN Generator!DataPhase[n]
            ELSE Generator!HeartbeatPhase[n]
    BY DEF Generator!FramePhase, InjectedData
  <2> QED BY <1>5, <1>7, <1>8, <2>1, <2>2, <2>3, <2>4
<1>10. /\ ~Pending(d) /\ ~Pending(b)
       /\ Pending(d)' <=> ~Out(tick)
       /\ Pending(b)' <=> ~Out(tick) /\ tick % 10 = 0
  <2>1. ~Pending(d) /\ ~Pending(b)
    BY <1>1 DEF Pending
  <2>2. ASSUME ~Out(tick) PROVE Pending(d)'
    <3>1. PICK i \in 1 .. Len(capture') : capture'[i].frame = df
      BY <1>4, <1>5, <1>7, <2>2
    <3> QED BY <1>8, <3>1 DEF Pending, InjectedData
  <2>3. ASSUME ~Out(tick), tick % 10 = 0 PROVE Pending(b)'
    <3>1. PICK i \in 1 .. Len(capture') : capture'[i].frame = hf
      BY <1>4, <1>5, <1>7, <2>3
    <3> QED BY <1>8, <3>1 DEF Pending, InjectedBeat
  <2>4. ASSUME Pending(d)' PROVE ~Out(tick)
    <3>1. PICK i \in 1 .. Len(capture') : capture'[i].frame.message = d
      BY <2>4 DEF Pending, InjectedData
    <3> QED BY <1>5, <1>9, <3>1
  <2>5. ASSUME Pending(b)' PROVE ~Out(tick) /\ tick % 10 = 0
    <3>1. PICK i \in 1 .. Len(capture') : capture'[i].frame.message = b
      BY <2>5 DEF Pending, InjectedBeat
    <3> QED BY <1>5, <1>9, <3>1
  <2> QED BY <2>1, <2>2, <2>3, <2>4, <2>5
<1> HIDE DEF c
<1>11. /\ Done(d) = tick - 1 /\ Done(b) = tick - 1
       /\ Done(d)' = IF Out(tick) THEN tick ELSE tick - 1
       /\ Done(b)' = IF Out(tick) \/ tick % 10 # 0 THEN tick ELSE tick - 1
  <2>1. Done(d) = tick - 1 /\ Done(b) = tick - 1
    BY <1>1, <1>10 DEF Done
  <2>2. /\ Done(d)' = tick - (IF Pending(d)' THEN 1 ELSE 0)
        /\ Done(b)' = tick - (IF Pending(b)' THEN 1 ELSE 0)
    BY <1>1 DEF Done, InjectedData, InjectedBeat
  <2> HIDE DEF d, b
  <2> QED BY <1>1, <1>10, <2>1, <2>2
\* What the ticks that pass leave alone.
<1> DEFINE p == tick - 1
           x == IF Out(tick) THEN tick ELSE tick - 1
           y == IF Out(tick) \/ tick % 10 # 0 THEN tick ELSE tick - 1
<1>12. /\ Done(d) = p /\ Done(d)' = x
       /\ x < 0 <=> p < 0
       /\ DataGot(x) = DataGot(p)
       /\ Out(p) => Out(x)
       /\ x >= OutageEnd <=> p >= OutageEnd
       /\ OutOfRange(x) <=> OutOfRange(p)
       /\ Faulty => /\ x >= 450 <=> p >= 450
                    /\ x >= 150 <=> p >= 150
                    /\ x >= 200 <=> p >= 200
  <2>1. CASE Out(tick)
    <3>1. /\ tick - 1 \in Nat /\ DataGot(tick) = DataGot(tick - 1)
          /\ ~(tick - 1 >= OutageEnd) /\ ~(tick >= OutageEnd)
          /\ OutOfRange(tick) <=> OutOfRange(tick - 1)
          /\ Faulty => /\ tick >= 450 <=> tick - 1 >= 450
                       /\ tick >= 150 <=> tick - 1 >= 150
                       /\ tick >= 200 <=> tick - 1 >= 200
      BY <1>1, <1>2, <2>1, DataNotDue
    <3>2. x = tick /\ ~(tick < 0) /\ ~(tick - 1 < 0)
      BY <1>1, <2>1, <3>1
    <3> QED BY <1>11, <2>1, <3>1, <3>2
  <2>2. CASE ~Out(tick)
    <3>1. x = p
      BY <2>2
    <3> QED BY <1>11, <3>1
  <2> QED BY <2>1, <2>2
<1>13. /\ Done(b) = p /\ Done(b)' = y
       /\ y < 0 <=> p < 0
       /\ BeatGot(y) = BeatGot(p)
       /\ Out(p) => Out(y)
       /\ y >= OutageEnd <=> p >= OutageEnd
  <2>1. CASE Out(tick) \/ tick % 10 # 0
    <3>1. /\ tick - 1 \in Nat /\ BeatGot(tick) = BeatGot(tick - 1)
          /\ Out(tick - 1) => Out(tick)
          /\ tick - 1 >= OutageEnd <=> tick >= OutageEnd
      BY <1>1, <1>2, <2>1, BeatNotDue
    <3>2. y = tick /\ ~(tick < 0) /\ ~(tick - 1 < 0)
      BY <1>1, <2>1, <3>1
    <3> QED BY <1>11, <3>1, <3>2
  <2>2. CASE ~(Out(tick) \/ tick % 10 # 0)
    <3>1. y = p
      BY <2>2
    <3> QED BY <1>11, <3>1
  <2> QED BY <2>1, <2>2
<1>14. d' = d /\ b' = b
  BY DEF InjectedData, InjectedBeat
<1> HIDE DEF d, b, x, y, p
<1>15. ScenarioInv'
  <2>1. /\ tick * 100 <= scenario.duration /\ tick * 100 < scenario.duration
    BY <1>2, Numbers DEF ScenarioInv, Generate, Generator!GenerateTick
  <2>2. scenario.duration \in {10000, 20000, 60000}
    BY <1>2, Scenes
  <2>3. (tick + 1) * 100 <= scenario.duration
    BY <1>1, <2>1, <2>2
  <2>4. tick' * Generator!DataPeriod <= scenario.duration
    BY <1>1, <2>3, Numbers
  <2>5. tick' # 0
    BY <1>1
  <2> QED BY <1>1, <1>2, <2>4, <2>5 DEF ScenarioInv
<1>16. ThermalWaiting'
  <2>1. ASSUME NEW i \in 1 .. Len(capture'), Sender[capture'[i].frame.message] = n
        PROVE  InjectedDataEntry(capture[i])' \/ InjectedBeatEntry(capture[i])'
    <3>1. CASE /\ capture'[i].frame = df /\ capture'[i].frame.message = d
               /\ ~Out(tick)
               /\ capture'[i].at \in Due(tick, Generator!DataPhase[n])
      <4>1. Due(tick - 1, Generator!DataPhase[n])' = Due(tick, Generator!DataPhase[n])
        BY <1>1 DEF Due, Base
      <4>2. ~Out(tick - 1)' /\ (OutOfRange(tick - 1)' <=> OutOfRange(tick))
        BY <1>1, <1>3, <3>1
      <4> QED BY <1>1, <1>7, <3>1, <4>1, <4>2 DEF InjectedDataEntry, d
    <3>2. CASE /\ capture'[i].frame = hf /\ capture'[i].frame.message = b
               /\ ~Out(tick) /\ tick % 10 = 0
               /\ capture'[i].at \in Due(tick, Generator!HeartbeatPhase[n])
      <4>1. Due(tick - 1, Generator!HeartbeatPhase[n])' =
                Due(tick, Generator!HeartbeatPhase[n])
        BY <1>1 DEF Due, Base
      <4>2. ~Out(tick - 1)' /\ UptimeAt(tick - 1)' = UptimeAt(tick)
        BY <1>1, <1>3, <3>2
      <4> QED BY <1>1, <1>7, <3>2, <4>1, <4>2, Numbers DEF InjectedBeatEntry, b
    <3> QED BY <1>9, <2>1, <3>1, <3>2
  <2>2. ASSUME NEW i \in 1 .. Len(capture'), NEW j \in 1 .. Len(capture'),
               Sender[capture'[i].frame.message] = n,
               capture'[i].frame.message = capture'[j].frame.message
        PROVE  i = j
    BY <1>4, <1>5, <1>9, <2>2
  <2>3. Pending(d)' /\ (tick' - 1) % Generator!TicksPerHeartbeat = 0 => Pending(b)'
    BY <1>1, <1>10, Numbers
  <2> QED BY <2>1, <2>2, <2>3 DEF ThermalWaiting, d, b
<1>17. ThermalRun'
  <2>1. /\ (tick' > OutageEnd) <=> tick >= OutageEnd
        /\ tick' > 0
    BY <1>1, <1>2, OutageTicks
  <2>2. (IF Reboots /\ tick' > OutageEnd THEN OutageEnd ELSE 0) =
            IF Reboots /\ tick >= OutageEnd THEN OutageEnd ELSE 0
    BY <2>1
  <2>3. (tick' > 0 /\ ~(Reboots /\ Out(tick' - 1))) = (~(Reboots /\ Out(tick)))
    BY <1>1, <2>1
  <2>4. Out(tick - 1)' = Out(tick' - 1)
    BY <1>3 DEF Out
  <2> QED BY <1>3, <1>7, <2>2, <2>3, <2>4, Zenon DEF ThermalRun
<1>18. ThermalCounter'
  <2>1. /\ Follows(c, lastSequence[d])
        /\ ~Reboots /\ p >= 0 => lastSequence[d] # None
    BY <1>2, <1>10, <1>12 DEF ThermalCounter, c, d
  <2>2. \A u, v : Follows(u, v)' <=> Follows(u, v)
    BY DEF Follows
  <2>3. model'[n].counter \in Counters
    BY <1>6, <1>7, NextCounter
  <2>4. ~Pending(d)' => Follows(model'[n].counter, lastSequence[d])
    BY <1>7, <1>10, <2>1
  <2>5. ASSUME NEW i \in 1 .. Len(capture'), capture'[i].frame.message = d
        PROVE  /\ \E u \in Counters :
                     /\ Follows(u, lastSequence[d]) \/ tick = OutageEnd
                     /\ capture'[i].frame.sequence =
                            (u + SkipAt(tick)) % CounterModulus
               /\ model'[n].counter =
                      (capture'[i].frame.sequence + 1) % CounterModulus
    <3>1. capture'[i].frame = df /\ ~Out(tick)
      BY <1>5, <1>9, <2>5
    <3> QED BY <1>7, <2>1, <3>1
  <2>6. SkipAt(tick - 1)' = SkipAt(tick)
    BY <1>1 , <1>3 DEF SkipAt
  <2>7. ~Reboots /\ Done(d)' >= 0 => lastSequence[d] # None
    <3>1. p \in Int /\ x \in Int
      BY <1>1 DEF p, x
    <3> QED BY <1>12, <2>1, <3>1
  <2> QED BY <1>1, <1>3, <1>14, <2>2, <2>3, <2>4, <2>5, <2>6, <2>7
          DEF ThermalCounter, Follows, d
<1>19. ThermalSeen'
  <2>1. DataGot(Done(d))' = DataGot(p)
    <3>1. DataGot(Done(d))' = IF OutageStart' <= Done(d)' /\ Done(d)' < OutageEnd'
                              THEN OutageStart' - 1 ELSE Done(d)'
      BY DEF DataGot, Out
    <3>2. DataGot(x) = IF OutageStart <= x /\ x < OutageEnd
                       THEN OutageStart - 1 ELSE x
      BY DEF DataGot, Out
    <3> QED BY <1>3, <1>12, <3>1, <3>2
  <2>2. BeatGot(Done(b))' = BeatGot(p)
    <3>1. BeatGot(Done(b))' = IF OutageStart' <= Done(b)' /\ Done(b)' < OutageEnd'
                              THEN OutageStart' - 10
                              ELSE 10 * (Done(b)' \div 10)
      BY Numbers DEF BeatGot, Out
    <3>2. BeatGot(y) = IF OutageStart <= y /\ y < OutageEnd
                       THEN OutageStart - 10 ELSE 10 * (y \div 10)
      BY Numbers DEF BeatGot, Out
    <3> QED BY <1>3, <1>13, <3>1, <3>2
  <2>3. \A k, phase : Due(k, phase)' = Due(k, phase)
    BY DEF Due, Base
  <2>4. UptimeAt(BeatGot(Done(b)))' = UptimeAt(BeatGot(p))
    <3>1. UptimeAt(BeatGot(Done(b)))' =
              (IF Reboots' /\ BeatGot(Done(b))' >= OutageEnd'
               THEN BeatGot(Done(b))' - OutageEnd' ELSE BeatGot(Done(b))') \div 10
      BY Numbers DEF UptimeAt
    <3>2. UptimeAt(BeatGot(p)) =
              (IF Reboots /\ BeatGot(p) >= OutageEnd
               THEN BeatGot(p) - OutageEnd ELSE BeatGot(p)) \div 10
      BY Numbers DEF UptimeAt
    <3> QED BY <1>3, <2>2, <3>1, <3>2
  <2>5. /\ IF p < 0 THEN lastSeen[d] = None
           ELSE lastSeen[d] \in Due(DataGot(p), Generator!DataPhase[n])
        /\ IF p < 0 THEN lastSeen[b] = None /\ lastUptime[b] = None
           ELSE /\ lastSeen[b] \in Due(BeatGot(p), Generator!HeartbeatPhase[n])
                /\ lastUptime[b] = UptimeAt(BeatGot(p))
        /\ \A m \in Messages \ {d, b} :
               Sender[m] = ThermalNode => lastSeen[m] = None
    BY <1>2, <1>12, <1>13 DEF ThermalSeen, d, b
  <2>6. /\ Due(DataGot(Done(d)), Generator!DataPhase[n])' =
               Due(DataGot(p), Generator!DataPhase[n])
        /\ Due(BeatGot(Done(b)), Generator!HeartbeatPhase[n])' =
               Due(BeatGot(p), Generator!HeartbeatPhase[n])
    BY <2>1, <2>2 DEF Due, Base
  <2>7. /\ Done(d)' < 0 <=> p < 0
        /\ Done(b)' < 0 <=> p < 0
    BY <1>12, <1>13
  <2> QED BY <1>1, <1>14, <2>4, <2>5, <2>6, <2>7 DEF ThermalSeen, d, b
<1>20. ThermalOpen'
  <2>1. /\ Out(Done(d))' <=> Out(x)
        /\ Out(Done(b))' <=> Out(y)
        /\ OutOfRange(Done(d))' <=> OutOfRange(x)
    BY <1>3, <1>12, <1>13 DEF Out, OutOfRange
  <2>2. /\ \A m \in {d, b} : staleSince[m] # None =>
               Out(p) /\ staleSince[m] = lastSeen[m] + StaleAfter[m]
        /\ silentSince[n] # None => staleSince[d] # None /\ staleSince[b] # None
        /\ rangeSince[d][Temperature] # None <=> OutOfRange(p)
        /\ rangeSince[b][Temperature] = None
        /\ ~Reboots => lastRestart[n] = None
    BY <1>2, <1>12, <1>13 DEF ThermalOpen, d, b
  <2>3. \A m \in {d, b} : staleSince'[m] # None =>
            Out(Done(m))' /\ staleSince'[m] = lastSeen'[m] + StaleAfter[m]
    <3>1. staleSince'[d] # None =>
              Out(Done(d))' /\ staleSince'[d] = lastSeen'[d] + StaleAfter[d]
      BY <1>1, <1>12, <2>1, <2>2
    <3>2. staleSince'[b] # None =>
              Out(Done(b))' /\ staleSince'[b] = lastSeen'[b] + StaleAfter[b]
      BY <1>1, <1>13, <2>1, <2>2
    <3> QED BY <3>1, <3>2 DEF Out, Done, Pending
  <2> QED BY <1>1, <1>3, <1>12, <1>14, <2>1, <2>2, <2>3 DEF ThermalOpen, d, b
<1>21. ReportInv'
  <2>1. /\ Done(d)' >= OutageEnd' <=> Done(d) >= OutageEnd
        /\ Done(b)' >= OutageEnd' <=> Done(b) >= OutageEnd
        /\ Faulty => /\ Done(d)' >= 450 <=> Done(d) >= 450
                     /\ Done(d)' >= 150 <=> Done(d) >= 150
                     /\ Done(d)' >= 200 <=> Done(d) >= 200
    BY <1>3, <1>12, <1>13
  <2>2. ASSUME NEW k PROVE Raised(k)' = Raised(k)
    BY <1>1, <1>3, <1>14, <2>1 DEF Raised, d, b
  <2>3. counts' = [k \in EventKinds |-> Raised(k)']
    BY <1>1, <1>2, <2>2 DEF ReportInv
  <2>4. FindingsAreDated'
    BY <1>1, <1>2 DEF ReportInv, FindingsAreDated
  <2>5. Done(d)' >= OutageEnd' => n \in named'
    BY <1>1, <1>2, <2>1 DEF ReportInv, d
  <2> QED BY <1>14, <2>3, <2>4, <2>5 DEF ReportInv, d
<1> QED BY <1>15, <1>16, <1>17, <1>18, <1>19, <1>20, <1>21 DEF ThermalInv

-----------------------------------------------------------------------------
(* The analysis, as to the node that is injected into.                      *)

\* The first frame that waits, and when.
LEMMA InjectedHead ==
    ASSUME CaptureInv, ThermalInv, capture # <<>>,
           NEW f, f = capture[1].frame, NEW t, t = capture[1].at
    PROVE  /\ tick \in Nat /\ tick - 1 \in Nat /\ t \in Int /\ Epoch \in Int
           /\ f.message \in Messages
           /\ t <= Epoch + 100 * (tick - 1) + 64
           /\ Sender[f.message] = ThermalNode =>
                  InjectedDataEntry(capture[1]) \/ InjectedBeatEntry(capture[1])
           /\ \A m \in {InjectedData, InjectedBeat} :
                  Done(m) = IF Pending(m) THEN tick - 2 ELSE tick - 1
           /\ Pending(InjectedData) =>
                  /\ ~Out(tick - 1)
                  /\ t <= Epoch + 100 * (tick - 1) + 24
           /\ Pending(InjectedBeat) =>
                  /\ ~Out(tick - 1) /\ (tick - 1) % 10 = 0
                  /\ t <= Epoch + 100 * (tick - 1) + 64
           /\ f.message = InjectedData =>
                  /\ InjectedDataEntry(capture[1]) /\ Pending(InjectedData)
                  /\ t >= Epoch + 100 * (tick - 1) + 16
                  /\ (tick - 1) % 10 = 0 => Pending(InjectedBeat)
           /\ f.message = InjectedBeat =>
                  /\ InjectedBeatEntry(capture[1]) /\ Pending(InjectedBeat)
                  /\ t >= Epoch + 100 * (tick - 1) + 56
                  /\ ~Pending(InjectedData)
<1> DEFINE d == InjectedData
           b == InjectedBeat
           base == Base(tick - 1)
<1>1. ScenarioInv /\ ThermalWaiting
  BY DEF ThermalInv
<1>2. /\ tick \in Nat /\ t \in Int /\ 1 \in 1 .. Len(capture)
      /\ \A i \in 1 .. Len(capture) : capture[i].at \in Int /\ t <= capture[i].at
      /\ t <= base + 60 + 4 /\ f.message \in Messages
  BY FirstWaits, Numbers DEF CaptureInv, LatestPhase
<1>3. tick - 1 \in Nat
  BY <1>1, <1>2 DEF ScenarioInv
<1>4. Epoch \in Int /\ base = Epoch + 100 * (tick - 1)
  BY NetworkAssumption, Numbers DEF Base
<1>5. base \in Int /\ t <= base + 64
  <2>1. tick \in Nat /\ t \in Int /\ t <= base + 60 + 4
    BY <1>2
  <2> HIDE DEF base
  <2> QED BY <1>4, <2>1
<1>6. /\ d \in Messages \ Heartbeats /\ b \in Messages \cap Heartbeats
      /\ d # b /\ Sender[d] = ThermalNode /\ Sender[b] = ThermalNode
      /\ Generator!DataPhase[ThermalNode] = 20
      /\ Generator!HeartbeatPhase[ThermalNode] = 60
  BY InjectedMessages
<1>7. Sender[f.message] = ThermalNode =>
          InjectedDataEntry(capture[1]) \/ InjectedBeatEntry(capture[1])
  BY <1>1, <1>2 DEF ThermalWaiting
<1> HIDE DEF base
<1>8. ASSUME NEW x, InjectedDataEntry(x)
      PROVE  x.at \in base + 16 .. base + 24 /\ x.frame.message = d
  <2>1. x.at \in Due(tick - 1, 20)
    BY <1>6, <1>8 DEF InjectedDataEntry
  <2>2. x.at \in base + 20 - 4 .. base + 20 + 4
    BY <2>1, Numbers DEF Due, base
  <2> QED BY <1>5, <1>8, <2>2 DEF InjectedDataEntry
<1>9. ASSUME NEW x, InjectedBeatEntry(x)
      PROVE  x.at \in base + 56 .. base + 64 /\ x.frame.message = b
  <2>1. x.at \in Due(tick - 1, 60)
    BY <1>6, <1>9 DEF InjectedBeatEntry
  <2>2. x.at \in base + 60 - 4 .. base + 60 + 4
    BY <2>1, Numbers DEF Due, base
  <2> QED BY <1>5, <1>9, <2>2 DEF InjectedBeatEntry
<1> HIDE DEF d, b
<1>10. \A i \in 1 .. Len(capture) :
           /\ capture[i].frame.message = d => InjectedDataEntry(capture[i])
           /\ capture[i].frame.message = b => InjectedBeatEntry(capture[i])
  BY <1>1, <1>6, <1>8, <1>9 DEF ThermalWaiting
<1>11. ASSUME Pending(d) PROVE ~Out(tick - 1) /\ t <= base + 24
  <2>1. PICK i \in 1 .. Len(capture) : capture[i].frame.message = d
    BY <1>11 DEF Pending
  <2>2. InjectedDataEntry(capture[i])
    BY <1>10, <2>1
  <2>3. capture[i].at \in base + 16 .. base + 24
    BY <1>8, <2>2
  <2>4. t <= capture[i].at
    BY <1>2
  <2>5. ~Out(tick - 1)
    BY <2>2 DEF InjectedDataEntry
  <2> QED BY <1>2, <1>5, <2>3, <2>4, <2>5
<1>12. ASSUME Pending(b)
       PROVE  ~Out(tick - 1) /\ (tick - 1) % 10 = 0 /\ t <= base + 64
  <2>1. PICK i \in 1 .. Len(capture) : capture[i].frame.message = b
    BY <1>12 DEF Pending
  <2>2. InjectedBeatEntry(capture[i])
    BY <1>10, <2>1
  <2> QED BY <1>5, <2>2, Numbers DEF InjectedBeatEntry
<1>13. ASSUME f.message = d
       PROVE  /\ InjectedDataEntry(capture[1]) /\ Pending(d)
              /\ t >= base + 16
              /\ (tick - 1) % 10 = 0 => Pending(b)
  <2>1. InjectedDataEntry(capture[1]) /\ Pending(d)
    BY <1>2, <1>10, <1>13 DEF Pending
  <2>2. t \in base + 16 .. base + 24
    BY <1>8, <2>1
  <2>3. (tick - 1) % 10 = 0 => Pending(b)
    BY <1>1, <2>1, Numbers DEF ThermalWaiting, d, b
  <2> QED BY <1>5, <2>1, <2>2, <2>3
<1>14. ASSUME f.message = b
       PROVE  /\ InjectedBeatEntry(capture[1]) /\ Pending(b)
              /\ t >= base + 56 /\ ~Pending(d)
  <2>1. InjectedBeatEntry(capture[1]) /\ Pending(b)
    BY <1>2, <1>10, <1>14 DEF Pending
  <2>2. t \in base + 56 .. base + 64
    BY <1>9, <2>1
  <2>3. ~Pending(d)
    BY <1>2, <1>5, <1>11, <2>2
  <2> QED BY <1>5, <2>1, <2>2, <2>3
<1>15. \A m : Done(m) = IF Pending(m) THEN tick - 2 ELSE tick - 1
  BY <1>2 DEF Done
<1> HIDE DEF base
<1> QED BY <1>2, <1>3, <1>4, <1>5, <1>7, <1>11, <1>12, <1>13, <1>14, <1>15
        DEF d, b

\* When the node's frames were seen last, outside an outage and in one.
LEMMA InjectedSeen ==
    ASSUME CaptureInv, ThermalInv, capture # <<>>
    PROVE  LET d == InjectedData
               b == InjectedBeat
           IN  /\ Done(d) < 0 => lastSeen[d] = None
               /\ Done(b) < 0 => lastSeen[b] = None
               /\ Done(d) >= 0 /\ ~Out(Done(d)) =>
                      lastSeen[d] \in Epoch + 100 * Done(d) + 16 .. Epoch + 100 * Done(d) + 24
               /\ Out(Done(d)) =>
                      lastSeen[d] \in Epoch + 100 * OutageStart - 84
                                      .. Epoch + 100 * OutageStart - 76
               /\ Done(b) >= 0 /\ ~Out(Done(b)) =>
                      \E k \in Int : /\ Done(b) - 9 <= k /\ k <= Done(b)
                                     /\ (Done(b) + 1) % 10 = 0 => k = Done(b) - 9
                                     /\ lastSeen[b] \in Epoch + 100 * k + 56 .. Epoch + 100 * k + 64
               /\ Out(Done(b)) =>
                      lastSeen[b] \in Epoch + 100 * OutageStart - 944
                                      .. Epoch + 100 * OutageStart - 936
<1> DEFINE d == InjectedData
           b == InjectedBeat
           x == Done(d)
           y == Done(b)
           s == OutageStart
<1>1. /\ x \in Int /\ y \in Int /\ s \in Nat /\ s >= 100 /\ Epoch \in Int
  <2>1. ScenarioInv /\ tick \in Nat
    BY DEF ThermalInv, CaptureInv
  <2>2. x \in Int /\ y \in Int
    BY <2>1 DEF Done
  <2>3. Epoch \in Int
    BY NetworkAssumption
  <2> QED BY <2>1, <2>2, <2>3, OutageTicks
<1>2. /\ IF x < 0 THEN lastSeen[d] = None
         ELSE lastSeen[d] \in Due(DataGot(x), 20)
      /\ IF y < 0 THEN lastSeen[b] = None
         ELSE lastSeen[b] \in Due(BeatGot(y), 60)
  BY InjectedMessages DEF ThermalInv, ThermalSeen
<1>3. ASSUME NEW k \in Int
      PROVE  /\ Due(k, 20) = Epoch + 100 * k + 16 .. Epoch + 100 * k + 24
             /\ Due(k, 60) = Epoch + 100 * k + 56 .. Epoch + 100 * k + 64
  <2> DEFINE base == Base(k)
  <2>1. base = Epoch + 100 * k
    BY Numbers DEF Base
  <2>2. base \in Int
    BY <1>1, <2>1
  <2>3. Due(k, 20) = base + 20 - 4 .. base + 20 + 4 /\ Due(k, 60) = base + 60 - 4 .. base + 60 + 4
    BY Numbers DEF Due
  <2> HIDE DEF base
  <2>4. /\ base + 20 - 4 = base + 16 /\ base + 20 + 4 = base + 24
        /\ base + 60 - 4 = base + 56 /\ base + 60 + 4 = base + 64
    BY <2>2
  <2> QED BY <2>1, <2>3, <2>4
<1>4. /\ DataGot(x) = IF Out(x) THEN s - 1 ELSE x
      /\ BeatGot(y) = IF Out(y) THEN s - 10 ELSE 10 * (y \div 10)
  BY Numbers DEF DataGot, BeatGot
<1>5. \A k : Out(k) => k >= s
  BY DEF Out
<1> HIDE DEF x, y, s, d, b
<1>6. ASSUME x >= 0, ~Out(x)
      PROVE  lastSeen[d] \in Epoch + 100 * x + 16 .. Epoch + 100 * x + 24
  <2>1. lastSeen[d] \in Due(x, 20)
    BY <1>1, <1>2, <1>4, <1>6
  <2> QED BY <1>1, <1>3, <2>1
<1>7. ASSUME Out(x)
      PROVE  lastSeen[d] \in Epoch + 100 * s - 84 .. Epoch + 100 * s - 76
  <2>1. lastSeen[d] \in Due(s - 1, 20) /\ s - 1 \in Int
    BY <1>1, <1>2, <1>4, <1>5, <1>7
  <2>2. lastSeen[d] \in Epoch + 100 * (s - 1) + 16 .. Epoch + 100 * (s - 1) + 24
    BY <1>3, <2>1
  <2>3. /\ Epoch + 100 * (s - 1) + 16 = Epoch + 100 * s - 84
        /\ Epoch + 100 * (s - 1) + 24 = Epoch + 100 * s - 76
    BY <1>1
  <2> QED BY <2>2, <2>3
<1>8. ASSUME Out(y)
      PROVE  lastSeen[b] \in Epoch + 100 * s - 944 .. Epoch + 100 * s - 936
  <2>1. lastSeen[b] \in Due(s - 10, 60) /\ s - 10 \in Int
    BY <1>1, <1>2, <1>4, <1>5, <1>8
  <2>2. lastSeen[b] \in Epoch + 100 * (s - 10) + 56 .. Epoch + 100 * (s - 10) + 64
    BY <1>3, <2>1
  <2>3. /\ Epoch + 100 * (s - 10) + 56 = Epoch + 100 * s - 944
        /\ Epoch + 100 * (s - 10) + 64 = Epoch + 100 * s - 936
    BY <1>1
  <2> QED BY <2>2, <2>3
<1>9. ASSUME y >= 0, ~Out(y)
      PROVE  \E k \in Int : /\ y - 9 <= k /\ k <= y
                            /\ (y + 1) % 10 = 0 => k = y - 9
                            /\ lastSeen[b] \in Epoch + 100 * k + 56 .. Epoch + 100 * k + 64
  <2> DEFINE k == 10 * (y \div 10)
  <2>1. k \in Int /\ y - 9 <= k /\ k <= y
    BY <1>1, <1>9
  <2>2. (y + 1) % 10 = 0 => k = y - 9
    BY <1>1, <1>9
  <2>3. lastSeen[b] \in Due(k, 60)
    BY <1>1, <1>2, <1>4, <1>9
  <2> HIDE DEF k
  <2>4. lastSeen[b] \in Epoch + 100 * k + 56 .. Epoch + 100 * k + 64
    BY <1>3, <2>1, <2>3
  <2> QED BY <2>1, <2>2, <2>4
<1>10. /\ x < 0 => lastSeen[d] = None
       /\ y < 0 => lastSeen[b] = None
  BY <1>2
<1> QED BY <1>6, <1>7, <1>8, <1>9, <1>10 DEF x, y, s, d, b

\* The node is missed in the outage only, and at the latest when it is back.
LEMMA InjectedFreshness ==
    ASSUME CaptureInv, ThermalInv, capture # <<>>,
           NEW f, f = capture[1].frame, NEW t, t = capture[1].at
    PROVE  /\ \A m \in {InjectedData, InjectedBeat} :
                  /\ GoesStale(m, t) => Out(Done(m))
                  /\ WasStale(m, t) =>
                         /\ Out(Done(m))
                         /\ lastSeen[m] \in Int
                         /\ StalePoint(m, t) = lastSeen[m] + StaleAfter[m]
                  /\ GoesStale(m, t) => WasStale(m, t)
           /\ f.message = InjectedData /\ tick - 1 = OutageEnd =>
                  WasStale(InjectedData, t) /\ WasStale(InjectedBeat, t)
           /\ f.message = InjectedBeat /\ tick - 1 = OutageEnd =>
                  WasStale(InjectedBeat, t)
<1> DEFINE d == InjectedData
           b == InjectedBeat
           x == Done(d)
           y == Done(b)
           s == OutageStart
           e == OutageEnd
           T == tick - 1
           sd == StaleAfter[d]
           sb == StaleAfter[b]
<1>1. /\ tick \in Nat /\ T \in Nat /\ t \in Int /\ Epoch \in Int
      /\ t <= Epoch + 100 * T + 64
      /\ x = IF Pending(d) THEN T - 1 ELSE T
      /\ y = IF Pending(b) THEN T - 1 ELSE T
      /\ Pending(d) => ~Out(T) /\ t <= Epoch + 100 * T + 24
      /\ Pending(b) => ~Out(T) /\ T % 10 = 0 /\ t <= Epoch + 100 * T + 64
      /\ f.message = d => /\ Pending(d) /\ t >= Epoch + 100 * T + 16
                          /\ T % 10 = 0 => Pending(b)
      /\ f.message = b => Pending(b) /\ t >= Epoch + 100 * T + 56
  <2>1. tick \in Nat
    BY InjectedHead
  <2>2. tick - 2 = T - 1
    BY <2>1
  <2> QED BY <2>2, InjectedHead
<1>2. /\ x < 0 => lastSeen[d] = None
      /\ y < 0 => lastSeen[b] = None
      /\ x >= 0 /\ ~Out(x) => lastSeen[d] \in Epoch + 100 * x + 16 .. Epoch + 100 * x + 24
      /\ Out(x) => lastSeen[d] \in Epoch + 100 * s - 84 .. Epoch + 100 * s - 76
      /\ y >= 0 /\ ~Out(y) =>
             \E k \in Int : /\ y - 9 <= k /\ k <= y
                            /\ (y + 1) % 10 = 0 => k = y - 9
                            /\ lastSeen[b] \in Epoch + 100 * k + 56 .. Epoch + 100 * k + 64
      /\ Out(y) => lastSeen[b] \in Epoch + 100 * s - 944 .. Epoch + 100 * s - 936
  BY InjectedSeen
<1>3. /\ sd \in 108 .. 1999 /\ sb \in 1008 .. 2899
  BY InjectedMessages
<1>4. /\ s \in Nat /\ e \in Nat /\ s % 10 = 0 /\ e % 10 = 0 /\ 100 <= s
      /\ T = e => s + 20 <= e
      /\ \A k : Out(k) <=> s <= k /\ k < e
  <2>1. ScenarioInv
    BY DEF ThermalInv
  <2>2. tick * 100 <= scenario.duration
    BY <2>1, Numbers DEF ScenarioInv
  <2>3. ~Faulty /\ ~Reboots => scenario.duration = 10000 /\ e = 1000
    BY <2>1, Scenes
  <2>4. ~Faulty /\ ~Reboots => T < e
    <3> SUFFICES ASSUME ~Faulty, ~Reboots PROVE T < e
      OBVIOUS
    <3>1. tick <= 100
      <4>1. tick \in Nat /\ tick * 100 <= 10000
        BY <1>1, <2>2, <2>3
      <4> QED BY <4>1
    <3> QED BY <1>1, <2>3, <3>1
  <2> QED BY <1>1, <2>1, <2>4, OutageTicks DEF Out
<1>5. \A m \in {d, b} : /\ staleSince[m] # None => Out(Done(m))
                        /\ staleSince[m] # None =>
                               staleSince[m] = lastSeen[m] + StaleAfter[m]
  BY DEF ThermalInv, ThermalOpen
<1>6. None \notin Int
  BY BoundAssumption
<1>7. /\ \A m : GoesStale(m, t) <=> /\ lastSeen[m] # None /\ staleSince[m] = None
                                    /\ t - lastSeen[m] > StaleAfter[m]
      /\ \A m : WasStale(m, t) <=> StalePoint(m, t) # None
      /\ \A m : StalePoint(m, t) = IF GoesStale(m, t)
                                   THEN lastSeen[m] + StaleAfter[m]
                                   ELSE staleSince[m]
  BY DEF GoesStale, WasStale, StalePoint
<1>8. T = tick - 1
  OBVIOUS
<1> HIDE DEF x, y, s, e, T, d, b, sd, sb
<1>9. ASSUME GoesStale(d, t) PROVE Out(x)
  <2> SUFFICES ASSUME ~Out(x) PROVE FALSE
    OBVIOUS
  <2> DEFINE l == lastSeen[d]
  <2>1. l # None /\ t - l > sd
    BY <1>7, <1>9 DEF sd
  <2>2. x \in Int
    BY <1>1
  <2>3. l \in Epoch + 100 * x + 16 .. Epoch + 100 * x + 24
    BY <1>2, <2>1, <2>2
  <2>4. x = T \/ (t <= Epoch + 100 * T + 24 /\ x = T - 1)
    BY <1>1
  <2>5. /\ T \in Nat /\ t \in Int /\ Epoch \in Int /\ sd \in Int /\ sd >= 108
        /\ t <= Epoch + 100 * T + 64
    BY <1>1, <1>3
  <2> HIDE DEF l
  <2>6. l \in Int /\ l >= Epoch + 100 * x + 16
    BY <2>2, <2>3, <2>5
  <2> QED BY <2>1, <2>2, <2>4, <2>5, <2>6
<1>10. ASSUME GoesStale(b, t) PROVE Out(y)
  <2> SUFFICES ASSUME ~Out(y) PROVE FALSE
    OBVIOUS
  <2> DEFINE l == lastSeen[b]
  <2>1. l # None /\ t - l > sb
    BY <1>7, <1>10 DEF sb
  <2>2. y \in Int
    BY <1>1
  <2>3. PICK k \in Int : /\ y - 9 <= k /\ k <= y
                         /\ (y + 1) % 10 = 0 => k = y - 9
                         /\ l \in Epoch + 100 * k + 56 .. Epoch + 100 * k + 64
    BY <1>2, <2>1, <2>2
  <2>4. k >= T - 10
    <3>1. CASE Pending(b)
      <4>1. y = T - 1 /\ T % 10 = 0
        BY <1>1, <3>1
      <4>2. y + 1 = T /\ T \in Nat
        BY <1>1, <4>1
      <4>3. k = y - 9
        BY <2>3, <4>1, <4>2
      <4> QED BY <4>1, <4>2, <4>3
    <3>2. CASE ~Pending(b)
      BY <1>1, <2>3, <3>2
    <3> QED BY <3>1, <3>2
  <2>5. /\ T \in Nat /\ t \in Int /\ Epoch \in Int /\ sb \in Int /\ sb >= 1008
        /\ t <= Epoch + 100 * T + 64
    BY <1>1, <1>3
  <2> HIDE DEF l
  <2>6. l \in Int /\ l >= Epoch + 100 * k + 56
    BY <2>3, <2>5
  <2> QED BY <2>1, <2>3, <2>4, <2>5, <2>6
<1>11. ASSUME NEW m \in {d, b}, WasStale(m, t)
       PROVE  Out(Done(m)) /\ StalePoint(m, t) = lastSeen[m] + StaleAfter[m]
  BY <1>5, <1>7, <1>9, <1>10, <1>11 DEF x, y
<1>12. ASSUME NEW m \in {d, b}, Out(Done(m))
       PROVE  lastSeen[m] \in Int
  <2>1. CASE m = d
    <3>1. lastSeen[m] \in Epoch + 100 * s - 84 .. Epoch + 100 * s - 76
      BY <1>2, <1>12, <2>1 DEF x
    <3> QED BY <3>1
  <2>2. CASE m = b
    <3>1. lastSeen[m] \in Epoch + 100 * s - 944 .. Epoch + 100 * s - 936
      BY <1>2, <1>12, <2>2 DEF y
    <3> QED BY <3>1
  <2> QED BY <2>1, <2>2
<1>13. ASSUME NEW m \in {d, b} PROVE StaleAfter[m] \in Int
  <2>1. sd \in Int /\ sb \in Int
    BY <1>3
  <2>2. StaleAfter[d] \in Int /\ StaleAfter[b] \in Int
    BY <2>1 DEF sd, sb
  <2> QED BY <2>2
<1>14. ASSUME NEW m \in {d, b}, GoesStale(m, t)
       PROVE  Out(Done(m)) /\ WasStale(m, t)
  <2>1. Out(Done(m))
    BY <1>9, <1>10, <1>14 DEF x, y
  <2>2. lastSeen[m] + StaleAfter[m] \in Int
    <3>1. lastSeen[m] \in Int
      BY <1>12, <2>1
    <3>2. StaleAfter[m] \in Int
      BY <1>13
    <3> QED BY <3>1, <3>2
  <2> QED BY <1>6, <1>7, <1>14, <2>1, <2>2
<1>15. ASSUME NEW m \in {d, b}, lastSeen[m] \in Int,
              t - lastSeen[m] > StaleAfter[m]
       PROVE  WasStale(m, t)
  <2>1. lastSeen[m] + StaleAfter[m] \in Int
    <3>1. StaleAfter[m] \in Int
      BY <1>13
    <3> QED BY <1>15, <3>1
  <2> QED BY <1>6, <1>7, <1>15, <2>1
<1>16. ASSUME T = e
       PROVE  /\ Out(T - 1) /\ T % 10 = 0
              /\ T \in Nat /\ s \in Nat /\ T >= s + 20
              /\ t \in Int /\ Epoch \in Int
              /\ sd \in Int /\ sd <= 1999 /\ sb \in Int /\ sb <= 2899
  BY <1>1, <1>3, <1>4, <1>16
<1>17. ASSUME f.message = d, T = e PROVE WasStale(d, t) /\ WasStale(b, t)
  <2>1. x = T - 1 /\ y = T - 1 /\ t >= Epoch + 100 * T + 16
    BY <1>1, <1>16, <1>17
  <2> DEFINE u == lastSeen[d]
             v == lastSeen[b]
  <2>2. /\ u \in Epoch + 100 * s - 84 .. Epoch + 100 * s - 76
        /\ v \in Epoch + 100 * s - 944 .. Epoch + 100 * s - 936
    BY <1>2, <1>16, <1>17, <2>1
  <2> HIDE DEF u, v
  <2>3. /\ u \in Int /\ u <= Epoch + 100 * s - 76
        /\ v \in Int /\ v <= Epoch + 100 * s - 936
    BY <1>16, <1>17, <2>2
  <2>4. t - u > sd /\ t - v > sb
    <3>1. /\ T \in Nat /\ s \in Nat /\ T >= s + 20 /\ t \in Int /\ Epoch \in Int
          /\ sd \in Int /\ sd <= 1999 /\ sb \in Int /\ sb <= 2899
          /\ t >= Epoch + 100 * T + 16
      BY <1>16, <1>17, <2>1
    <3> QED BY <2>3, <3>1
  <2> QED BY <1>15, <2>3, <2>4 DEF u, v, sd, sb
<1>18. ASSUME f.message = b, T = e PROVE WasStale(b, t)
  <2>1. y = T - 1 /\ t >= Epoch + 100 * T + 56
    BY <1>1, <1>16, <1>18
  <2> DEFINE v == lastSeen[b]
  <2>2. v \in Epoch + 100 * s - 944 .. Epoch + 100 * s - 936
    BY <1>2, <1>16, <1>18, <2>1
  <2> HIDE DEF v
  <2>3. v \in Int /\ v <= Epoch + 100 * s - 936
    BY <1>16, <1>18, <2>2
  <2>4. t - v > sb
    <3>1. /\ T \in Nat /\ s \in Nat /\ T >= s + 20 /\ t \in Int /\ Epoch \in Int
          /\ sb \in Int /\ sb <= 2899 /\ t >= Epoch + 100 * T + 56
      BY <1>16, <1>18, <2>1
    <3> QED BY <2>3, <3>1
  <2> QED BY <1>15, <2>3, <2>4 DEF v, sb
<1> QED BY <1>11, <1>12, <1>14, <1>17, <1>18 DEF d, b, e, T

\* The node is silent when both of its messages are missed.
LEMMA InjectedSilence ==
    ASSUME CaptureInv, ThermalInv, capture # <<>>, NEW t, t = capture[1].at
    PROVE  /\ SilentPoint(ThermalNode, t) # None <=>
                  WasStale(InjectedData, t) /\ WasStale(InjectedBeat, t)
           /\ FallsSilent(ThermalNode, t) =>
                  /\ WasStale(InjectedData, t) /\ WasStale(InjectedBeat, t)
                  /\ SilentPoint(ThermalNode, t) \in
                         {StalePoint(InjectedData, t), StalePoint(InjectedBeat, t)}
<1> DEFINE n == ThermalNode
           d == InjectedData
           b == InjectedBeat
           f == capture[1].frame
<1>1. /\ tick \in Nat
      /\ Done(d) = IF Pending(d) THEN tick - 2 ELSE tick - 1
      /\ Done(b) = IF Pending(b) THEN tick - 2 ELSE tick - 1
  BY InjectedHead
<1>2. /\ d \in Messages /\ b \in Messages /\ Sender[d] = n /\ Sender[b] = n
      /\ d # b /\ StaleAfter[d] \in Int /\ StaleAfter[b] \in Int
  BY InjectedMessages, ConfigAssumption
<1>3. \A m \in {d, b} :
          /\ WasStale(m, t) => /\ Out(Done(m)) /\ lastSeen[m] \in Int
                               /\ StalePoint(m, t) = lastSeen[m] + StaleAfter[m]
          /\ GoesStale(m, t) => WasStale(m, t)
  BY InjectedFreshness
<1>4. None \notin Int
  BY BoundAssumption
<1>5. \A m \in Messages \ {d, b} : Sender[m] = n => lastSeen[m] = None
  BY DEF ThermalInv, ThermalSeen
<1>6. /\ Done(d) >= 0 => lastSeen[d] # None
      /\ Done(b) >= 0 => lastSeen[b] # None
  <2>1. /\ ~(Done(d) < 0) => lastSeen[d] \in Int
        /\ ~(Done(b) < 0) => lastSeen[b] \in Int
    BY DEF ThermalInv, ThermalSeen, Due
  <2>2. /\ Done(d) >= 0 => ~(Done(d) < 0)
        /\ Done(b) >= 0 => ~(Done(b) < 0)
    BY <1>1
  <2> QED BY <1>4, <2>1, <2>2
<1>7. silentSince[n] # None => staleSince[d] # None /\ staleSince[b] # None
  BY DEF ThermalInv, ThermalOpen
<1>8. \A k \in Int : Out(k) => k >= 100
  BY DEF Out, OutageStart
<1> HIDE DEF d, b
<1>9. ASSUME \E m \in {d, b} : WasStale(m, t)
      PROVE  lastSeen[d] # None /\ lastSeen[b] # None
  <2>1. PICK m \in {d, b} : WasStale(m, t)
    BY <1>9
  <2>2. Done(m) >= 100 /\ m \in {d, b}
    <3>1. Done(m) \in Int
      BY <1>1
    <3> QED BY <1>3, <1>8, <2>1, <3>1
  <2>3. Done(d) >= 0 /\ Done(b) >= 0
    BY <1>1, <2>2
  <2> QED BY <1>6, <2>3
<1>10. Observed(n) = {m \in {d, b} : lastSeen[m] # None}
  BY <1>2, <1>5 DEF Observed
<1>11. FallsSilent(n, t) <=>
           silentSince[n] = None /\ WasStale(d, t) /\ WasStale(b, t)
  BY <1>9, <1>10 DEF FallsSilent, WasStale
<1>12. ASSUME FallsSilent(n, t)
       PROVE  /\ SilentPoint(n, t) \in {StalePoint(d, t), StalePoint(b, t)}
              /\ SilentPoint(n, t) # None
  <2> DEFINE x == StalePoint(d, t)
             y == StalePoint(b, t)
  <2>1. Observed(n) = {d, b}
    BY <1>9, <1>10, <1>11, <1>12
  <2>2. SilentPoint(n, t) = Max({x, y})
    <3>1. {StalePoint(m, t) : m \in {d, b}} = {x, y}
      OBVIOUS
    <3> QED BY <1>12, <2>1, <3>1 DEF SilentPoint
  <2>3. x \in Int /\ y \in Int
    BY <1>2, <1>3, <1>11, <1>12
  <2> HIDE DEF x, y
  <2>4. \E z \in {x, y} : \A w \in {x, y} : z >= w
    BY <2>3
  <2>5. Max({x, y}) \in {x, y}
    BY <2>4 DEF Max
  <2> QED BY <1>4, <2>2, <2>3, <2>5 DEF x, y
<1>13. SilentPoint(n, t) # None <=> WasStale(d, t) /\ WasStale(b, t)
  <2>1. CASE FallsSilent(n, t)
    BY <1>11, <1>12, <2>1
  <2>2. CASE ~FallsSilent(n, t)
    <3>1. SilentPoint(n, t) = silentSince[n]
      BY <2>2 DEF SilentPoint
    <3>2. silentSince[n] # None => WasStale(d, t) /\ WasStale(b, t)
      BY <1>7 DEF WasStale, StalePoint, GoesStale
    <3> QED BY <1>11, <2>2, <3>1, <3>2
  <2> QED BY <2>1, <2>2
<1> QED BY <1>11, <1>12, <1>13 DEF d, b

\* Whether the analysis of a frame raises a finding of a kind, and which.
Raises(kind, f, t) ==
    LET own == Sender[f.message] = ThermalNode
    IN  CASE kind = "data_message_stale" -> GoesStale(InjectedData, t)
          [] kind = "heartbeat_timeout"  -> GoesStale(InjectedBeat, t)
          [] kind = "node_silent"        -> FallsSilent(ThermalNode, t)
          [] kind = "message_recovered"  -> own /\ WasStale(f.message, t)
          [] kind = "node_recovered"     -> own /\ SilentPoint(ThermalNode, t) # None
          [] kind = "node_restart"       -> own /\ UptimeFell(f)
          [] kind = "sequence_gap"       -> own /\ GapFindings(f, t) # {}
          [] kind = "range_violation"    -> own /\ Opens(f, Temperature)
          [] kind = "range_recovered"    -> own /\ Closes(f, Temperature)
          [] OTHER                       -> FALSE

Finding(kind, f, t) ==
    LET n == ThermalNode
        m == f.message
    IN  CASE kind = "data_message_stale" ->
                 Stale(InjectedData, StalePoint(InjectedData, t))
          [] kind = "heartbeat_timeout" ->
                 Stale(InjectedBeat, StalePoint(InjectedBeat, t))
          [] kind = "node_silent" ->
                 Silent(n, SilentPoint(n, t), ActiveBeside(n, t))
          [] kind = "message_recovered" -> Recovered(m, t, t - StalePoint(m, t))
          [] kind = "node_recovered" -> NodeRecovered(n, t, t - SilentPoint(n, t))
          [] kind = "node_restart" -> Restart(n, t)
          [] kind = "sequence_gap" ->
                 Gap(m, t, ForwardDistance(Baseline(m, t), f.sequence))
          [] kind = "range_violation" -> RangeViolation(m, Temperature, t)
          [] kind = "range_recovered" ->
                 RangeRecovered(m, Temperature, t, t - rangeSince[m][Temperature])

\* The kind of a finding and the node it names.
LEMMA Kinds ==
    /\ \A m, at : /\ EventKind(Stale(m, at)) = IF m \in Heartbeats
                                               THEN "heartbeat_timeout"
                                               ELSE "data_message_stale"
                  /\ NodeOf(Stale(m, at)) = Sender[m]
    /\ \A n, at, x : /\ EventKind(Silent(n, at, x)) = "node_silent"
                     /\ NodeOf(Silent(n, at, x)) = n
    /\ \A m, at, x : /\ EventKind(Recovered(m, at, x)) = "message_recovered"
                     /\ NodeOf(Recovered(m, at, x)) = Sender[m]
    /\ \A n, at, x : /\ EventKind(NodeRecovered(n, at, x)) = "node_recovered"
                     /\ NodeOf(NodeRecovered(n, at, x)) = n
    /\ \A n, at : /\ EventKind(Restart(n, at)) = "node_restart"
                  /\ NodeOf(Restart(n, at)) = n
    /\ \A m, at, x : /\ EventKind(Gap(m, at, x)) = "sequence_gap"
                     /\ NodeOf(Gap(m, at, x)) = Sender[m]
    /\ \A m, s, at : /\ EventKind(RangeViolation(m, s, at)) = "range_violation"
                     /\ NodeOf(RangeViolation(m, s, at)) = Sender[m]
    /\ \A m, s, at, x : /\ EventKind(RangeRecovered(m, s, at, x)) = "range_recovered"
                        /\ NodeOf(RangeRecovered(m, s, at, x)) = Sender[m]
<1>1. \A m, at : /\ EventKind(Stale(m, at)) = IF m \in Heartbeats
                                              THEN "heartbeat_timeout"
                                              ELSE "data_message_stale"
                 /\ NodeOf(Stale(m, at)) = Sender[m]
  BY DEF EventKind, NodeOf, Stale
<1>2. \A n, at, x : /\ EventKind(Silent(n, at, x)) = "node_silent"
                    /\ NodeOf(Silent(n, at, x)) = n
  BY DEF EventKind, NodeOf, Silent
<1>3. \A m, at, x : /\ EventKind(Recovered(m, at, x)) = "message_recovered"
                    /\ NodeOf(Recovered(m, at, x)) = Sender[m]
  BY DEF EventKind, NodeOf, Recovered
<1>4. \A n, at, x : /\ EventKind(NodeRecovered(n, at, x)) = "node_recovered"
                    /\ NodeOf(NodeRecovered(n, at, x)) = n
  BY DEF EventKind, NodeOf, NodeRecovered
<1>5. \A n, at : /\ EventKind(Restart(n, at)) = "node_restart"
                 /\ NodeOf(Restart(n, at)) = n
  BY DEF EventKind, NodeOf, Restart
<1>6. \A m, at, x : /\ EventKind(Gap(m, at, x)) = "sequence_gap"
                    /\ NodeOf(Gap(m, at, x)) = Sender[m]
  BY DEF EventKind, NodeOf, Gap
<1>7. \A m, s, at : /\ EventKind(RangeViolation(m, s, at)) = "range_violation"
                    /\ NodeOf(RangeViolation(m, s, at)) = Sender[m]
  BY DEF EventKind, NodeOf, RangeViolation
<1>8. \A m, s, at, x : /\ EventKind(RangeRecovered(m, s, at, x)) = "range_recovered"
                       /\ NodeOf(RangeRecovered(m, s, at, x)) = Sender[m]
  BY DEF EventKind, NodeOf, RangeRecovered
<1> QED BY <1>1, <1>2, <1>3, <1>4, <1>5, <1>6, <1>7, <1>8

\* All that a call raises is about the injected node, one finding of a kind.
LEMMA WhatIsRaised ==
    ASSUME RegenerationInv, ThermalInv, Analyze,
           NEW f, f = capture[1].frame, NEW t, t = capture[1].at
    PROVE  /\ produced' = {Finding(k, f, t) : k \in {x \in EventKinds : Raises(x, f, t)}}
           /\ \A k \in EventKinds : Raises(k, f, t) =>
                  /\ EventKind(Finding(k, f, t)) = k
                  /\ NodeOf(Finding(k, f, t)) = ThermalNode
<1> DEFINE d == InjectedData
           b == InjectedBeat
           n == ThermalNode
           m == f.message
           own == Sender[m] = n
<1>1. CaptureInv /\ capture # <<>> /\ Head(capture) = capture[1]
  BY FirstWaits DEF RegenerationInv, Analyze
<1>2. produced' = TimeoutFindings(t) \cup RecoveryFindings(f, t)
                  \cup RestartFindings(f, t) \cup GapFindings(f, t)
                  \cup RangeFindings(f, t)
  BY <1>1 DEF Analyze, ProcessKnown
<1>3. /\ d \in Messages \ Heartbeats /\ b \in Messages \cap Heartbeats
      /\ n \in Nodes /\ d # b /\ Sender[d] = n /\ Sender[b] = n
  BY InjectedMessages
<1>4. /\ m \in Messages
      /\ own => m \in {d, b}
  <2>1. /\ m \in Messages
        /\ own => InjectedDataEntry(capture[1]) \/ InjectedBeatEntry(capture[1])
    BY <1>1, InjectedHead
  <2> QED BY <2>1 DEF InjectedDataEntry, InjectedBeatEntry
<1>5. Nodes = {PowerNode, n} /\ PowerNode # n /\ Signals = {Temperature}
  BY NetworkAssumption
<1>6. HealthyInv(PowerNode)
  <2>1. ScenarioInv /\ tick \in Nat
    BY <1>1 DEF ThermalInv, CaptureInv
  <2>2. Healthy(PowerNode)
    BY <2>1, InForce
  <2> QED BY <1>5, <2>2 DEF RegenerationInv
<1>7. /\ \A x \in Messages : GoesStale(x, t) => x \in {d, b}
      /\ ~FallsSilent(PowerNode, t)
  <2>1. /\ \A x \in Messages : Sender[x] = PowerNode => ~GoesStale(x, t)
        /\ ~FallsSilent(PowerNode, t)
    BY <1>1, <1>5, <1>6, NothingIsMissed
  <2>2. \A x \in Messages \ {d, b} : Sender[x] = n => ~GoesStale(x, t)
    BY DEF ThermalInv, ThermalSeen, GoesStale
  <2>3. \A x \in Messages : Sender[x] \in {PowerNode, n}
    BY <1>5, DatabaseAssumption
  <2> QED BY <2>1, <2>2, <2>3
<1>8. ~own => /\ ~WasStale(m, t) /\ SilentPoint(Sender[m], t) = None
              /\ ~UptimeFell(f) /\ GapFindings(f, t) = {}
              /\ RangeFindings(f, t) = {}
  <2> SUFFICES ASSUME ~own
               PROVE  /\ ~WasStale(m, t) /\ SilentPoint(Sender[m], t) = None
                      /\ ~UptimeFell(f) /\ GapFindings(f, t) = {}
                      /\ RangeFindings(f, t) = {}
    OBVIOUS
  <2>1. Sender[m] = PowerNode
    BY <1>4, <1>5, DatabaseAssumption
  <2>2. StalePoint(m, t) = None /\ SilentPoint(PowerNode, t) = None
    BY <1>1, <1>4, <1>5, <1>6, <2>1, NothingIsMissed
  <2>3. ~UptimeFell(f) /\ GapFindings(f, t) = {} /\ RangeFindings(f, t) = {}
    BY <1>1, <1>5, <1>6, <2>1, NothingIsWrong
  <2> QED BY <2>1, <2>2, <2>3 DEF WasStale
<1> HIDE DEF d, b, m
<1>9. TimeoutFindings(t) =
          (IF GoesStale(d, t) THEN {Stale(d, StalePoint(d, t))} ELSE {})
          \cup (IF GoesStale(b, t) THEN {Stale(b, StalePoint(b, t))} ELSE {})
          \cup (IF FallsSilent(n, t)
                THEN {Silent(n, SilentPoint(n, t), ActiveBeside(n, t))} ELSE {})
  <2>1. {x \in Messages : GoesStale(x, t)} = {x \in {d, b} : GoesStale(x, t)}
    BY <1>3, <1>7
  <2>2. {x \in Nodes : FallsSilent(x, t)} = {x \in {n} : FallsSilent(x, t)}
    BY <1>5, <1>7
  <2>3. TimeoutFindings(t) =
            {Stale(x, StalePoint(x, t)) : x \in {x \in {d, b} : GoesStale(x, t)}}
            \cup {Silent(x, SilentPoint(x, t), ActiveBeside(x, t)) :
                      x \in {x \in {n} : FallsSilent(x, t)}}
    BY <2>1, <2>2 DEF TimeoutFindings
  <2> QED BY <2>3
<1>10. RecoveryFindings(f, t) =
           (IF own /\ WasStale(m, t)
            THEN {Recovered(m, t, t - StalePoint(m, t))} ELSE {})
           \cup (IF own /\ SilentPoint(n, t) # None
                 THEN {NodeRecovered(n, t, t - SilentPoint(n, t))} ELSE {})
  <2>1. RecoveryFindings(f, t) =
            {Recovered(x, t, t - StalePoint(x, t)) : x \in {y \in {m} : WasStale(y, t)}}
            \cup {NodeRecovered(x, t, t - SilentPoint(x, t)) :
                     x \in {y \in {Sender[m]} : SilentPoint(y, t) # None}}
    BY DEF RecoveryFindings, m
  <2> QED BY <1>8, <2>1
<1>11. RestartFindings(f, t) = IF own /\ UptimeFell(f) THEN {Restart(n, t)} ELSE {}
  BY <1>8 DEF RestartFindings, m
<1>12. GapFindings(f, t) =
           IF own /\ GapFindings(f, t) # {}
           THEN {Gap(m, t, ForwardDistance(Baseline(m, t), f.sequence))} ELSE {}
  <2>1. GapFindings(f, t) \in
            {{}, {Gap(m, t, ForwardDistance(Baseline(m, t), f.sequence))}}
    BY DEF GapFindings, m
  <2> QED BY <1>8, <2>1
<1>13. RangeFindings(f, t) =
           (IF own /\ Opens(f, Temperature)
            THEN {RangeViolation(m, Temperature, t)} ELSE {})
           \cup (IF own /\ Closes(f, Temperature)
                 THEN {RangeRecovered(m, Temperature, t,
                                      t - rangeSince[m][Temperature])} ELSE {})
  <2>1. RangeFindings(f, t) =
            (IF Opens(f, Temperature)
             THEN {RangeViolation(m, Temperature, t)} ELSE {})
            \cup (IF Closes(f, Temperature)
                  THEN {RangeRecovered(m, Temperature, t,
                                       t - rangeSince[m][Temperature])} ELSE {})
    BY <1>5 DEF RangeFindings, m
  <2> QED BY <1>8, <2>1
<1>14. EventKinds = {"data_message_stale", "heartbeat_timeout", "node_silent",
                     "message_recovered", "node_recovered", "node_restart",
                     "sequence_gap", "range_violation", "range_recovered",
                     "unknown_message_id"}
  BY DEF EventKinds, Generator!OutageFindings
<1>15. /\ Raises("data_message_stale", f, t) <=> GoesStale(d, t)
       /\ Raises("heartbeat_timeout", f, t) <=> GoesStale(b, t)
       /\ Raises("node_silent", f, t) <=> FallsSilent(n, t)
       /\ Raises("message_recovered", f, t) <=> own /\ WasStale(m, t)
       /\ Raises("node_recovered", f, t) <=> own /\ SilentPoint(n, t) # None
       /\ Raises("node_restart", f, t) <=> own /\ UptimeFell(f)
       /\ Raises("sequence_gap", f, t) <=> own /\ GapFindings(f, t) # {}
       /\ Raises("range_violation", f, t) <=> own /\ Opens(f, Temperature)
       /\ Raises("range_recovered", f, t) <=> own /\ Closes(f, Temperature)
       /\ ~Raises("unknown_message_id", f, t)
  BY DEF Raises, d, b, m
<1>16. /\ Finding("data_message_stale", f, t) = Stale(d, StalePoint(d, t))
       /\ Finding("heartbeat_timeout", f, t) = Stale(b, StalePoint(b, t))
       /\ Finding("node_silent", f, t) =
              Silent(n, SilentPoint(n, t), ActiveBeside(n, t))
       /\ Finding("message_recovered", f, t) = Recovered(m, t, t - StalePoint(m, t))
       /\ Finding("node_recovered", f, t) = NodeRecovered(n, t, t - SilentPoint(n, t))
       /\ Finding("node_restart", f, t) = Restart(n, t)
       /\ Finding("sequence_gap", f, t) =
              Gap(m, t, ForwardDistance(Baseline(m, t), f.sequence))
       /\ Finding("range_violation", f, t) = RangeViolation(m, Temperature, t)
       /\ Finding("range_recovered", f, t) =
              RangeRecovered(m, Temperature, t, t - rangeSince[m][Temperature])
  BY DEF Finding, d, b, m
<1>17. ASSUME NEW k \in EventKinds, Raises(k, f, t)
       PROVE  EventKind(Finding(k, f, t)) = k /\ NodeOf(Finding(k, f, t)) = n
  <2>1. \A at, x : /\ EventKind(Stale(d, at)) = "data_message_stale"
                   /\ EventKind(Stale(b, at)) = "heartbeat_timeout"
                   /\ NodeOf(Stale(d, at)) = n /\ NodeOf(Stale(b, at)) = n
    BY <1>3, Kinds
  <2>2. CASE k \in {"data_message_stale", "heartbeat_timeout"}
    BY <1>16, <2>1, <2>2
  <2>3. CASE k = "node_silent"
    BY <1>16, <2>3, Kinds
  <2>4. CASE k = "message_recovered"
    BY <1>15, <1>16, <1>17, <2>4, Kinds
  <2>5. CASE k \in {"node_recovered", "node_restart"}
    BY <1>16, <2>5, Kinds
  <2>6. CASE k = "sequence_gap"
    BY <1>15, <1>16, <1>17, <2>6, Kinds
  <2>7. CASE k = "range_violation"
    BY <1>15, <1>16, <1>17, <2>7, Kinds
  <2>8. CASE k = "range_recovered"
    BY <1>15, <1>16, <1>17, <2>8, Kinds
  <2> QED BY <1>14, <1>15, <1>17, <2>2, <2>3, <2>4, <2>5, <2>6, <2>7, <2>8
<1> HIDE DEF own
<1>18. produced' = {Finding(k, f, t) : k \in {x \in EventKinds : Raises(x, f, t)}}
  <2> DEFINE raised == {Finding(k, f, t) : k \in {x \in EventKinds : Raises(x, f, t)}}
  <2>1. ASSUME NEW e \in produced' PROVE e \in raised
    <3>1. CASE e \in TimeoutFindings(t)
      BY <1>9, <1>14, <1>15, <1>16, <3>1
    <3>2. CASE e \in RecoveryFindings(f, t)
      BY <1>10, <1>14, <1>15, <1>16, <3>2
    <3>3. CASE e \in RestartFindings(f, t) \cup GapFindings(f, t)
      BY <1>11, <1>12, <1>14, <1>15, <1>16, <3>3
    <3>4. CASE e \in RangeFindings(f, t)
      BY <1>13, <1>14, <1>15, <1>16, <3>4
    <3> QED BY <1>2, <2>1, <3>1, <3>2, <3>3, <3>4
  <2>2. ASSUME NEW k \in EventKinds, Raises(k, f, t)
        PROVE  Finding(k, f, t) \in produced'
    <3>1. CASE k \in {"data_message_stale", "heartbeat_timeout", "node_silent"}
      BY <1>2, <1>9, <1>15, <1>16, <2>2, <3>1
    <3>2. CASE k \in {"message_recovered", "node_recovered"}
      BY <1>2, <1>10, <1>15, <1>16, <2>2, <3>2
    <3>3. CASE k \in {"node_restart", "sequence_gap"}
      BY <1>2, <1>11, <1>12, <1>15, <1>16, <2>2, <3>3
    <3>4. CASE k \in {"range_violation", "range_recovered", "unknown_message_id"}
      BY <1>2, <1>13, <1>15, <1>16, <2>2, <3>4
    <3> QED BY <1>14, <3>1, <3>2, <3>3, <3>4
  <2> QED BY <2>1, <2>2
<1> QED BY <1>17, <1>18

\* A counter that skips is ahead by what it skips.
LEMMA SkippedCounter ==
    ASSUME NEW p \in Counters, NEW skip \in Nat, skip < CounterModulus
    PROVE  ForwardDistance(p, (((p + 1) % CounterModulus) + skip) % CounterModulus) = skip
<1> DEFINE m == CounterModulus
           c == (p + 1) % m
           s == (c + skip) % m
<1>1. m \in Nat \ {0} /\ p \in 0 .. m - 1
  BY ConfigAssumption DEF Counters
<1> HIDE DEF m
<1>2. c = IF p + 1 < m THEN p + 1 ELSE 0
  <2>1. CASE p + 1 < m
    BY <1>1, <2>1
  <2>2. CASE p + 1 = m
    BY <1>1, <2>2
  <2> QED BY <1>1, <2>1, <2>2
<1> HIDE DEF c
<1>3. c \in 0 .. m - 1
  BY <1>1, <1>2
<1>4. s = IF c + skip < m THEN c + skip ELSE c + skip - m
  <2>1. c \in Nat /\ c < m /\ skip \in Nat /\ skip < m /\ m \in Nat \ {0}
    BY <1>1, <1>3 DEF m
  <2>2. CASE c + skip < m
    BY <2>1, <2>2
  <2>3. CASE ~(c + skip < m)
    <3> DEFINE r == c + skip - m
    <3>1. r \in 0 .. m - 1 /\ c + skip = r + m
      BY <2>1, <2>3
    <3> HIDE DEF r
    <3>2. (r + m) % m = r
      BY <2>1, <3>1
    <3> QED BY <2>3, <3>1, <3>2 DEF r
  <2> QED BY <2>2, <2>3
<1> HIDE DEF s
<1>5. (s - p - 1) % m = skip
  <2> DEFINE x == s - p - 1
  <2>1. x = skip \/ x = skip - m
    <3>1. c \in Int /\ m \in Int /\ p \in Int /\ skip \in Int
      BY <1>1, <1>3
    <3>2. c = p + 1 \/ c = p + 1 - m
      BY <1>1, <1>2
    <3>3. s = c + skip \/ s = c + skip - m
      BY <1>4
    <3>4. s - p - 1 \in {skip, skip - m, skip - 2 * m}
      BY <3>1, <3>2, <3>3
    <3>5. s >= 0 /\ s \in Int /\ p <= m - 1 /\ skip < m
      BY <1>1, <1>3, <1>4 DEF m
    <3> QED BY <3>1, <3>4, <3>5
  <2> HIDE DEF x
  <2>2. skip % m = skip
    BY <1>1 DEF m
  <2>3. (skip - m) % m = skip
    BY <1>1 DEF m
  <2>4. x % m = skip
    BY <2>1, <2>2, <2>3
  <2> QED BY <2>4 DEF x
<1> QED BY <1>5 DEF ForwardDistance, m, c, s

\* The ticks whose frames raise the findings.
LEMMA Moments ==
    ASSUME CaptureInv, ThermalInv, capture # <<>>,
           NEW f, f = capture[1].frame, NEW t, t = capture[1].at
    PROVE  LET d    == InjectedData
               b    == InjectedBeat
               own  == Sender[f.message] = ThermalNode
               data == f.message = d
               beat == f.message = b
               now  == tick - 1
           IN  /\ own <=> data \/ beat
               /\ own /\ WasStale(f.message, t) <=> own /\ now = OutageEnd
               /\ own /\ SilentPoint(ThermalNode, t) # None <=> data /\ now = OutageEnd
               /\ own /\ UptimeFell(f) <=> beat /\ Reboots /\ now = OutageEnd
               /\ own /\ GapFindings(f, t) # {} <=> data /\ Faulty /\ now = 450
               /\ data /\ Faulty /\ now = 450 =>
                      ForwardDistance(Baseline(d, t), f.sequence) = Generator!SkipCount
               /\ own /\ Opens(f, Temperature) <=> data /\ Faulty /\ now = 150
               /\ own /\ Closes(f, Temperature) <=> data /\ Faulty /\ now = 200
<1> DEFINE d    == InjectedData
           b    == InjectedBeat
           own  == Sender[f.message] = ThermalNode
           data == f.message = d
           beat == f.message = b
           now  == tick - 1
<1>1. /\ tick \in Nat /\ now \in Nat
      /\ own => InjectedDataEntry(capture[1]) \/ InjectedBeatEntry(capture[1])
      /\ \A m \in {d, b} : Done(m) = IF Pending(m) THEN tick - 2 ELSE tick - 1
      /\ data => InjectedDataEntry(capture[1]) /\ Pending(d)
      /\ beat => InjectedBeatEntry(capture[1]) /\ Pending(b) /\ ~Pending(d)
  BY InjectedHead
<1>2. /\ d \in Messages \ Heartbeats /\ b \in Messages \cap Heartbeats
      /\ d # b /\ Sender[d] = ThermalNode /\ Sender[b] = ThermalNode
  BY InjectedMessages
<1>3. own <=> data \/ beat
  BY <1>1, <1>2 DEF InjectedDataEntry, InjectedBeatEntry
<1>4. /\ data => /\ ~Out(now) /\ f.sequence \in Counters
                 /\ f.value[Temperature] =
                        IF OutOfRange(now) THEN "invalid" ELSE "valid"
      /\ beat => /\ ~Out(now) /\ f.uptime = UptimeAt(now)
                 /\ f.value[Temperature] = "absent"
                 /\ now % 10 = 0
  BY <1>1, Numbers DEF InjectedDataEntry, InjectedBeatEntry
<1>5. /\ data => Done(d) = now - 1
      /\ beat => Done(b) = now - 1 /\ Done(d) = now
  <2>1. data => Done(d) = tick - 2
    BY <1>1
  <2>2. beat => Done(b) = tick - 2 /\ Done(d) = tick - 1
    BY <1>1
  <2> QED BY <1>1, <2>1, <2>2
<1>6. ScenarioInv /\ ThermalCounter /\ ThermalSeen /\ ThermalOpen
  BY DEF ThermalInv
<1>7. /\ OutageStart \in Nat /\ OutageEnd \in Nat
      /\ Faulty => ~Reboots /\ OutageStart = 300 /\ OutageEnd = 330
      /\ Reboots => OutageStart = 100 /\ OutageEnd = 120
      /\ ~Faulty /\ ~Reboots => OutageStart = 1000 /\ OutageEnd = 1000
  BY <1>6, OutageTicks, Scenes
<1>8. ~Out(now) /\ Out(now - 1) => now = OutageEnd
  BY <1>1, <1>7 DEF Out
<1>9. /\ \A m \in {d, b} : WasStale(m, t) => Out(Done(m))
      /\ data /\ now = OutageEnd => WasStale(d, t) /\ WasStale(b, t)
      /\ beat /\ now = OutageEnd => WasStale(b, t)
  BY InjectedFreshness
<1>10. SilentPoint(ThermalNode, t) # None <=> WasStale(d, t) /\ WasStale(b, t)
  BY InjectedSilence
<1> HIDE DEF now, d, b
<1>11. own /\ WasStale(f.message, t) <=> own /\ now = OutageEnd
  BY <1>3, <1>4, <1>5, <1>8, <1>9
<1>12. own /\ SilentPoint(ThermalNode, t) # None <=> data /\ now = OutageEnd
  <2>1. beat => ~WasStale(d, t)
    BY <1>4, <1>5, <1>9
  <2> QED BY <1>3, <1>9, <1>10, <1>11, <2>1
<1>13. own /\ UptimeFell(f) <=> beat /\ Reboots /\ now = OutageEnd
  <2>1. own /\ UptimeFell(f) => beat
    BY <1>2, <1>3 DEF UptimeFell
  <2>2. ASSUME beat
        PROVE  UptimeFell(f) <=> Reboots /\ now = OutageEnd
    <3>1. now \in Nat /\ now % 10 = 0 /\ ~Out(now) /\ f.uptime = UptimeAt(now)
      BY <1>1, <1>4, <2>2
    <3>2. IF now - 1 < 0 THEN lastUptime[b] = None
          ELSE lastUptime[b] = UptimeAt(BeatGot(now - 1))
      BY <1>5, <1>6, <2>2 DEF ThermalSeen, b
    <3>3. None \notin Int
      BY BoundAssumption
    <3>4. UptimeAt(now) = (IF Reboots /\ now >= OutageEnd THEN now - OutageEnd
                           ELSE now) \div 10
      BY Numbers DEF UptimeAt
    <3>5. UptimeAt(now) \in Int
      BY <1>7, <3>1, <3>4
    <3>6. CASE now = 0
      <4>1. lastUptime[b] = None /\ now # OutageEnd
        BY <1>7, <3>2, <3>6
      <4> QED BY <2>2, <4>1 DEF UptimeFell
    <3>7. CASE now > 0
      <4> DEFINE k == BeatGot(now - 1)
      <4>1. lastUptime[b] = UptimeAt(k)
        BY <3>1, <3>2, <3>7
      <4>2. k = IF Out(now - 1) THEN OutageStart - 10 ELSE 10 * ((now - 1) \div 10)
        BY Numbers DEF BeatGot
      <4>3. UptimeAt(k) = (IF Reboots /\ k >= OutageEnd THEN k - OutageEnd
                           ELSE k) \div 10
        BY Numbers DEF UptimeAt
      <4>4. 10 * ((now - 1) \div 10) = now - 10 /\ now - 10 \in Nat
        BY <3>1, <3>7
      <4> HIDE DEF k
      <4>5. CASE Out(now - 1)
        <5>1. now = OutageEnd /\ OutageStart < OutageEnd
          BY <1>1, <1>7, <1>8, <3>1, <4>5 DEF Out
        <5>2. CASE Reboots
          <6>1. now = 120 /\ k = 90 /\ OutageEnd = 120
            BY <1>7, <4>2, <4>5, <5>1, <5>2
          <6>2. UptimeAt(now) = 0 /\ UptimeAt(k) = 9
            BY <3>4, <4>3, <5>2, <6>1
          <6> QED BY <1>2, <2>2, <3>1, <3>3, <4>1, <5>1, <5>2, <6>2 DEF UptimeFell
        <5>3. CASE Faulty
          <6>1. now = 330 /\ k = 290 /\ OutageEnd = 330 /\ ~Reboots
            BY <1>7, <4>2, <4>5, <5>1, <5>3
          <6>2. UptimeAt(now) = 33 /\ UptimeAt(k) = 29
            BY <3>4, <4>3, <6>1
          <6> QED BY <2>2, <3>1, <4>1, <6>1, <6>2 DEF UptimeFell
        <5> QED BY <1>7, <5>1, <5>2, <5>3
      <4>6. CASE ~Out(now - 1)
        <5>1. k = now - 10
          BY <4>2, <4>4, <4>6
        <5>2. ~(Reboots /\ now = OutageEnd)
          BY <1>1, <1>7, <4>6 DEF Out
        <5>3. Reboots /\ now >= OutageEnd => k >= OutageEnd
          BY <1>7, <3>1, <5>1, <5>2
        <5>4. k >= OutageEnd => now >= OutageEnd
          BY <1>7, <3>1, <5>1
        <5>5. ~(UptimeAt(now) < UptimeAt(k)) 
          <6>1. CASE Reboots /\ now >= OutageEnd
            <7> DEFINE x == now - OutageEnd
            <7>1. UptimeAt(now) = x \div 10 /\ UptimeAt(k) = (x - 10) \div 10
              BY <1>7, <3>1, <3>4, <4>3, <5>1, <5>3, <6>1
            <7>2. x \in Int
              BY <1>7, <3>1
            <7> HIDE DEF x
            <7> QED BY <7>1, <7>2
          <6>2. CASE ~(Reboots /\ now >= OutageEnd)
            <7>1. UptimeAt(now) = now \div 10 /\ UptimeAt(k) = (now - 10) \div 10
              BY <3>4, <4>3, <5>1, <5>4, <6>2
            <7> QED BY <3>1, <7>1
          <6> QED BY <6>1, <6>2
        <5> QED BY <2>2, <3>1, <4>1, <5>2, <5>5 DEF UptimeFell
      <4> QED BY <4>5, <4>6
    <3> QED BY <3>1, <3>6, <3>7
  <2> QED BY <1>3, <2>1, <2>2
<1>14. /\ own /\ GapFindings(f, t) # {} <=> data /\ Faulty /\ now = 450
       /\ data /\ Faulty /\ now = 450 =>
              ForwardDistance(Baseline(d, t), f.sequence) = Generator!SkipCount
  <2>1. own /\ GapFindings(f, t) # {} => data
    BY <1>2, <1>3 DEF GapFindings, ReadsCounter
  <2>2. ASSUME data
        PROVE  /\ GapFindings(f, t) # {} <=> Faulty /\ now = 450
               /\ Faulty /\ now = 450 =>
                      ForwardDistance(Baseline(d, t), f.sequence) = Generator!SkipCount
    <3>1. /\ f.sequence \in Counters /\ f.sequence # None /\ ReadsCounter(f)
      <4>1. f.sequence \in Counters
        BY <1>4, <2>2
      <4>2. f.sequence # None
        BY <4>1, ConfigAssumption, BoundAssumption DEF Counters
      <4> QED BY <1>2, <2>2, <4>1, <4>2, DefaultsAssumption DEF ReadsCounter
    <3>2. PICK c \in Counters :
              /\ Follows(c, lastSequence[d]) \/ now = OutageEnd
              /\ f.sequence = (c + SkipAt(now)) % CounterModulus
      <4>1. 1 \in 1 .. Len(capture)
        BY FirstWaits
      <4> QED BY <1>6, <2>2, <4>1 DEF ThermalCounter, now, d
    <3>3. CASE now = OutageEnd
      <4>1. WasStale(d, t)
        BY <1>9, <2>2, <3>3
      <4>2. Baseline(f.message, t) = None
        BY <2>2, <4>1 DEF Baseline
      <4>3. ~(Faulty /\ now = 450)
        BY <1>7, <3>3
      <4> QED BY <4>2, <4>3 DEF GapFindings
    <3>4. CASE now # OutageEnd /\ lastSequence[d] = None
      <4>1. Baseline(f.message, t) = None
        BY <2>2, <3>4 DEF Baseline
      <4>2. ~(Faulty /\ now = 450)
        <5> SUFFICES ASSUME Faulty, now = 450 PROVE FALSE
          OBVIOUS
        <5>1. Done(d) >= 0 /\ ~Reboots
          BY <1>5, <1>7, <2>2
        <5> QED BY <1>6, <3>4, <5>1 DEF ThermalCounter, d
      <4> QED BY <4>1, <4>2 DEF GapFindings
    <3>5. CASE now # OutageEnd /\ lastSequence[d] # None
      <4> DEFINE p == lastSequence[d]
      <4>1. p \in Counters /\ c = (p + 1) % CounterModulus
        BY <3>2, <3>5 DEF Follows
      <4>2. Baseline(f.message, t) = p /\ Baseline(d, t) = p /\ p # None
        BY <1>11, <1>3, <2>2, <3>5 DEF Baseline
      <4>3. /\ Generator!SkipCount = 4 /\ 4 < CounterModulus
            /\ 4 <= MaxReportableGap /\ 0 < CounterModulus
        BY DefaultsAssumption, ConfigAssumption DEF Generator!SkipCount
      <4> HIDE DEF p
      <4>4. CASE Faulty /\ now = 450
        <5>1. f.sequence = (c + 4) % CounterModulus
          BY <3>2, <4>3, <4>4 DEF SkipAt
        <5>2. ForwardDistance(p, f.sequence) = 4
          BY <4>1, <4>3, <5>1, SkippedCounter
        <5>3. ~RestartSuppressed(Sender[f.message], t)
          BY <1>2, <1>6, <1>7, <2>2, <4>4 DEF ThermalOpen, RestartSuppressed
        <5> QED BY <3>1, <4>2, <4>3, <4>4, <5>2, <5>3 DEF GapFindings
      <4>5. CASE ~(Faulty /\ now = 450)
        <5>1. f.sequence = (c + 0) % CounterModulus
          BY <3>2, <4>5 DEF SkipAt
        <5>2. ForwardDistance(p, f.sequence) = 0
          BY <4>1, <4>3, <5>1, SkippedCounter
        <5> QED BY <4>2, <4>5, <5>2 DEF GapFindings
      <4> QED BY <4>4, <4>5
    <3> QED BY <3>3, <3>4, <3>5
  <2> QED BY <1>3, <2>1, <2>2
<1>15. /\ own /\ Opens(f, Temperature) <=> data /\ Faulty /\ now = 150
       /\ own /\ Closes(f, Temperature) <=> data /\ Faulty /\ now = 200
  <2>1. own /\ (Opens(f, Temperature) \/ Closes(f, Temperature)) => data
    BY <1>3, <1>4 DEF Opens, Closes, Numeric
  <2>2. ASSUME data
        PROVE  /\ Opens(f, Temperature) <=> Faulty /\ now = 150
               /\ Closes(f, Temperature) <=> Faulty /\ now = 200
    <3>1. /\ CheckRanges /\ Temperature \notin Enumerated
          /\ f.value[Temperature] = IF OutOfRange(now) THEN "invalid" ELSE "valid"
      BY <1>4, <2>2, DefaultsAssumption
    <3>2. rangeSince[d][Temperature] # None <=> OutOfRange(now - 1)
      BY <1>5, <1>6, <2>2 DEF ThermalOpen, d
    <3>3. /\ OutOfRange(now) /\ ~OutOfRange(now - 1) <=> Faulty /\ now = 150
          /\ ~OutOfRange(now) /\ OutOfRange(now - 1) <=> Faulty /\ now = 200
      BY <1>1 DEF OutOfRange
    <3>4. Numeric(f, Temperature)
      BY <3>1 DEF Numeric
    <3> QED BY <2>2, <3>1, <3>2, <3>3, <3>4 DEF Opens, Closes
  <2> QED BY <1>3, <2>1, <2>2
<1> QED BY <1>3, <1>11, <1>12, <1>13, <1>14, <1>15 DEF d, b, now

\* What the analysis of a frame leaves of what waits.
LEMMA InjectedTaken ==
    ASSUME CaptureInv, ThermalInv, Analyze,
           NEW f, f = capture[1].frame
    PROVE  /\ \A m \in {InjectedData, InjectedBeat} :
                  /\ Pending(m)' <=> Pending(m) /\ f.message # m
                  /\ Done(m)' = IF f.message = m THEN tick - 1 ELSE Done(m)
                  /\ f.message = m => Done(m) = tick - 2
           /\ ThermalWaiting'
<1> DEFINE d == InjectedData
           b == InjectedBeat
<1>1. capture # <<>> /\ capture' = Tail(capture) /\ tick' = tick
      /\ scenario' = scenario
  BY DEF Analyze
<1>2. ThermalWaiting
  BY DEF ThermalInv
<1>3. /\ d \in Messages \ Heartbeats /\ b \in Messages \cap Heartbeats
      /\ d # b /\ Sender[d] = ThermalNode /\ Sender[b] = ThermalNode
  BY InjectedMessages
<1>4. /\ Len(capture) \in Nat \ {0} /\ Len(capture') = Len(capture) - 1
      /\ \A i \in 1 .. Len(capture) - 1 : /\ capture'[i] = capture[i + 1]
                                         /\ i + 1 \in 1 .. Len(capture)
  BY <1>1, FirstWaits
<1>5. ASSUME NEW m \in {d, b}
      PROVE  /\ f.message = m => Pending(m)
             /\ Pending(m)' <=> Pending(m) /\ f.message # m
  <2>1. Sender[m] = ThermalNode
    BY <1>3
  <2> QED BY <1>1, <1>2, <2>1, Taken DEF ThermalWaiting
<1>6. ASSUME NEW m \in {d, b}
      PROVE  /\ Done(m)' = IF f.message = m THEN tick - 1 ELSE Done(m)
             /\ f.message = m => Done(m) = tick - 2
  <2>1. tick \in Nat
    BY DEF CaptureInv
  <2>2. Done(m)' = tick - 1 - (IF Pending(m)' THEN 1 ELSE 0)
    BY <1>1 DEF Done
  <2>3. Done(m) = tick - 1 - (IF Pending(m) THEN 1 ELSE 0)
    BY DEF Done
  <2> QED BY <1>5, <2>1, <2>2, <2>3
<1>7. ThermalWaiting'
  <2>1. ASSUME NEW i \in 1 .. Len(capture'),
               Sender[capture'[i].frame.message] = ThermalNode
        PROVE  InjectedDataEntry(capture[i])' \/ InjectedBeatEntry(capture[i])'
    <3>1. /\ capture'[i] = capture[i + 1]
          /\ InjectedDataEntry(capture[i + 1]) \/ InjectedBeatEntry(capture[i + 1])
      BY <1>2, <1>4, <2>1 DEF ThermalWaiting
    <3>2. \A k, p : Due(k, p)' = Due(k, p)
      BY DEF Due, Base
    <3>3. /\ OutOfRange(tick - 1)' <=> OutOfRange(tick - 1)
          /\ Out(tick - 1)' <=> Out(tick - 1)
          /\ UptimeAt(tick - 1)' = UptimeAt(tick - 1)
      BY <1>1, SameScene
    <3>4. /\ Due(tick - 1, Generator!DataPhase[ThermalNode])' =
                 Due(tick - 1, Generator!DataPhase[ThermalNode])
          /\ Due(tick - 1, Generator!HeartbeatPhase[ThermalNode])' =
                 Due(tick - 1, Generator!HeartbeatPhase[ThermalNode])
      BY <1>1 DEF Due, Base
    <3>5. CASE InjectedDataEntry(capture[i + 1])
      BY <3>1, <3>3, <3>4, <3>5 DEF InjectedDataEntry
    <3>6. CASE InjectedBeatEntry(capture[i + 1])
      BY <1>1, <3>1, <3>3, <3>4, <3>6 DEF InjectedBeatEntry
    <3> QED BY <3>1, <3>5, <3>6
  <2>2. ASSUME NEW i \in 1 .. Len(capture'), NEW j \in 1 .. Len(capture'),
               Sender[capture'[i].frame.message] = ThermalNode,
               capture'[i].frame.message = capture'[j].frame.message
        PROVE  i = j
    <3>1. /\ capture'[i] = capture[i + 1] /\ capture'[j] = capture[j + 1]
          /\ i + 1 \in 1 .. Len(capture) /\ j + 1 \in 1 .. Len(capture)
          /\ i \in Int /\ j \in Int
      BY <1>4
    <3>2. i + 1 = j + 1
      BY <1>2, <2>2, <3>1 DEF ThermalWaiting
    <3> QED BY <3>1, <3>2
  <2>3. Pending(d)' /\ (tick - 1) % Generator!TicksPerHeartbeat = 0 => Pending(b)'
    <3>1. f.message = b => ~Pending(d)
      BY <1>1, InjectedHead
    <3>2. Pending(d) /\ (tick - 1) % Generator!TicksPerHeartbeat = 0 => Pending(b)
      BY <1>2 DEF ThermalWaiting
    <3> QED BY <1>5, <3>1, <3>2
  <2> QED BY <1>1, <2>1, <2>2, <2>3 DEF ThermalWaiting
<1> QED BY <1>5, <1>6, <1>7

\* A kind of finding is counted once, if it is raised.
LEMMA InjectedCount ==
    ASSUME RegenerationInv, ThermalInv, Analyze,
           NEW f, f = capture[1].frame, NEW t, t = capture[1].at
    PROVE  counts' = [k \in EventKinds |->
                         counts[k] + IF Raises(k, f, t) THEN 1 ELSE 0]
<1>1. ASSUME NEW k \in EventKinds
      PROVE  Cardinality({e \in produced' : EventKind(e) = k})
                 = IF Raises(k, f, t) THEN 1 ELSE 0
  <2> DEFINE raised == {e \in produced' : EventKind(e) = k}
  <2>1. /\ \A e \in produced' : \E x \in EventKinds :
               Raises(x, f, t) /\ e = Finding(x, f, t) /\ EventKind(e) = x
        /\ \A x \in EventKinds : Raises(x, f, t) =>
               Finding(x, f, t) \in produced' /\ EventKind(Finding(x, f, t)) = x
    BY WhatIsRaised
  <2>2. raised = IF Raises(k, f, t) THEN {Finding(k, f, t)} ELSE {}
    BY <2>1
  <2> HIDE DEF raised
  <2>3. Cardinality(raised) = IF Raises(k, f, t) THEN 1 ELSE 0
    BY <2>2, FS_EmptySet, FS_Singleton
  <2> QED BY <2>3 DEF raised
<1>2. counts' = [k \in EventKinds |->
                    counts[k] + Cardinality({e \in produced' : EventKind(e) = k})]
  BY DEF Analyze
<1> QED BY <1>1, <1>2

\* What is counted of the node's findings stays right.
LEMMA InjectedRaised ==
    ASSUME RegenerationInv, ThermalInv, Analyze,
           NEW f, f = capture[1].frame, NEW t, t = capture[1].at
    PROVE  \A k \in EventKinds :
               Raised(k)' = Raised(k) + IF Raises(k, f, t) THEN 1 ELSE 0
<1> DEFINE d    == InjectedData
           b    == InjectedBeat
           n    == ThermalNode
           own  == Sender[f.message] = n
           now  == tick - 1
           end  == OutageEnd
           back(m) == Done(m) >= end
<1>1. CaptureInv /\ capture # <<>> /\ ScenarioInv /\ tick \in Nat /\ now \in Nat
  BY InjectedHead DEF RegenerationInv, Analyze, ThermalInv, CaptureInv
<1>2. /\ d \in Messages \ Heartbeats /\ b \in Messages \cap Heartbeats
      /\ n \in Nodes /\ d # b /\ Sender[d] = n /\ Sender[b] = n
  BY InjectedMessages
<1>3. /\ own <=> f.message = d \/ f.message = b
      /\ own /\ WasStale(f.message, t) <=> own /\ now = end
      /\ own /\ SilentPoint(n, t) # None <=> f.message = d /\ now = end
      /\ own /\ UptimeFell(f) <=> f.message = b /\ Reboots /\ now = end
      /\ own /\ GapFindings(f, t) # {} <=> f.message = d /\ Faulty /\ now = 450
      /\ own /\ Opens(f, Temperature) <=> f.message = d /\ Faulty /\ now = 150
      /\ own /\ Closes(f, Temperature) <=> f.message = d /\ Faulty /\ now = 200
  BY <1>1, Moments
<1>4. /\ Done(d)' = IF f.message = d THEN now ELSE Done(d)
      /\ Done(b)' = IF f.message = b THEN now ELSE Done(b)
      /\ f.message = d => Done(d) = now - 1
      /\ f.message = b => Done(b) = now - 1
  <2>1. \A m \in {d, b} : /\ Done(m)' = IF f.message = m THEN tick - 1 ELSE Done(m)
                          /\ f.message = m => Done(m) = tick - 2
    BY <1>1, InjectedTaken
  <2> QED BY <1>1, <2>1
<1>5. /\ scenario' = scenario /\ end' = end
      /\ Faulty' = Faulty /\ Reboots' = Reboots
      /\ end \in Nat
  BY <1>1, SameScene, OutageTicks DEF Analyze
<1>6. /\ staleSince' = [x \in Messages |-> IF x = f.message THEN None
                                            ELSE StalePoint(x, t)]
      /\ silentSince' = [x \in Nodes |-> IF x = Sender[f.message] THEN None
                                          ELSE SilentPoint(x, t)]
  BY <1>1, FirstWaits DEF Analyze, ProcessKnown
<1>7. /\ \A m \in {d, b} : GoesStale(m, t) => Out(Done(m)) /\ WasStale(m, t)
      /\ FallsSilent(n, t) => Out(Done(d)) /\ SilentPoint(n, t) # None
  <2>1. \A m \in {d, b} : /\ GoesStale(m, t) => Out(Done(m)) /\ WasStale(m, t)
                          /\ WasStale(m, t) => Out(Done(m))
    BY <1>1, InjectedFreshness
  <2>2. FallsSilent(n, t) => WasStale(d, t) /\ SilentPoint(n, t) # None
    BY <1>1, InjectedSilence
  <2> QED BY <2>1, <2>2
<1>8. \A m \in {d, b} : Done(m) \in Int
  BY <1>1 DEF Done
<1>9. ASSUME NEW k \in Int, Out(k) PROVE ~(k >= end)
  BY <1>5, <1>9 DEF Out
<1> HIDE DEF d, b, now, end
<1>10. ASSUME NEW x \in Nat
       PROVE  /\ Done(d)' >= x <=> Done(d) >= x \/ (f.message = d /\ now = x)
              /\ f.message = d /\ now = x => ~(Done(d) >= x)
              /\ Done(b)' >= x <=> Done(b) >= x \/ (f.message = b /\ now = x)
              /\ f.message = b /\ now = x => ~(Done(b) >= x)
  BY <1>1, <1>4, <1>8
<1>11. \A m \in {d, b} : back(m)' <=> Done(m)' >= end
  BY <1>5
<1> DEFINE once(condition) == IF condition THEN 1 ELSE 0
<1>12. ASSUME NEW m \in {d, b}
       PROVE  once(staleSince'[m] # None \/ back(m)')
                  = once(staleSince[m] # None \/ back(m)) + once(GoesStale(m, t))
  <2>1. staleSince'[m] = IF m = f.message THEN None ELSE StalePoint(m, t)
    BY <1>2, <1>6
  <2>2. back(m)' <=> back(m) \/ (f.message = m /\ now = end)
    BY <1>5, <1>10, <1>11
  <2>3. /\ f.message = m => (WasStale(m, t) <=> now = end)
        /\ WasStale(m, t) <=> StalePoint(m, t) # None
    BY <1>3 DEF WasStale
  <2>4. CASE GoesStale(m, t)
    <3>1. ~back(m) /\ staleSince[m] = None /\ WasStale(m, t)
      BY <1>7, <1>8, <1>9, <2>4 DEF GoesStale
    <3> QED BY <2>1, <2>2, <2>3, <2>4, <3>1
  <2>5. CASE ~GoesStale(m, t)
    <3>1. StalePoint(m, t) = staleSince[m]
      BY <2>5 DEF StalePoint
    <3> QED BY <2>1, <2>2, <2>3, <2>5, <3>1
  <2> QED BY <2>4, <2>5
<1>13. once(silentSince'[n] # None \/ back(d)')
           = once(silentSince[n] # None \/ back(d)) + once(FallsSilent(n, t))
  <2>1. silentSince'[n] = IF own THEN None ELSE SilentPoint(n, t)
    BY <1>2, <1>6
  <2>2. back(d)' <=> back(d) \/ (f.message = d /\ now = end)
    BY <1>5, <1>10, <1>11
  <2>3. CASE FallsSilent(n, t)
    <3>1. ~back(d) /\ silentSince[n] = None /\ SilentPoint(n, t) # None
      BY <1>7, <1>8, <1>9, <2>3 DEF FallsSilent
    <3> QED BY <1>3, <2>1, <2>2, <2>3, <3>1
  <2>4. CASE ~FallsSilent(n, t)
    <3>1. SilentPoint(n, t) = silentSince[n]
      BY <2>4 DEF SilentPoint
    <3> QED BY <1>3, <2>1, <2>2, <2>4, <3>1
  <2> QED BY <2>3, <2>4
<1>14. ASSUME NEW m \in {d, b}
       PROVE  once(back(m)') = once(back(m)) + once(f.message = m /\ now = end)
  <2>1. /\ back(m)' <=> back(m) \/ (f.message = m /\ now = end)
        /\ f.message = m /\ now = end => ~back(m)
    BY <1>5, <1>10, <1>11
  <2> QED BY <2>1
<1>15. ASSUME NEW x \in Nat
       PROVE  once(Faulty' /\ Done(d)' >= x) =
                  once(Faulty /\ Done(d) >= x)
                  + once(f.message = d /\ Faulty /\ now = x)
  <2>1. /\ Done(d)' >= x <=> Done(d) >= x \/ (f.message = d /\ now = x)
        /\ f.message = d /\ now = x => ~(Done(d) >= x)
    BY <1>10
  <2> QED BY <1>5, <2>1
<1>16. ASSUME NEW k \in EventKinds
       PROVE  Raised(k)' = Raised(k) + once(Raises(k, f, t))
  <2>1. CASE k = "data_message_stale"
    <3>1. Raised(k) = once(staleSince[d] # None \/ back(d))
      BY <2>1 DEF Raised, d, end
    <3>2. Raised(k)' = once(staleSince'[d] # None \/ back(d)')
      BY <2>1 DEF Raised, d, end
    <3>3. Raises(k, f, t) <=> GoesStale(d, t)
      BY <2>1 DEF Raises, d
    <3> QED BY <1>12, <3>1, <3>2, <3>3
  <2>2. CASE k = "heartbeat_timeout"
    <3>1. Raised(k) = once(staleSince[b] # None \/ back(b))
      BY <2>2 DEF Raised, b, end
    <3>2. Raised(k)' = once(staleSince'[b] # None \/ back(b)')
      BY <2>2 DEF Raised, b, end
    <3>3. Raises(k, f, t) <=> GoesStale(b, t)
      BY <2>2 DEF Raises, b
    <3> QED BY <1>12, <3>1, <3>2, <3>3
  <2>3. CASE k = "node_silent"
    <3>1. Raised(k) = once(silentSince[n] # None \/ back(d))
      BY <2>3 DEF Raised, d, end
    <3>2. Raised(k)' = once(silentSince'[n] # None \/ back(d)')
      BY <2>3 DEF Raised, d, end
    <3>3. Raises(k, f, t) <=> FallsSilent(n, t)
      BY <2>3 DEF Raises
    <3> QED BY <1>13, <3>1, <3>2, <3>3
  <2>4. CASE k = "message_recovered"
    <3>1. Raised(k) = once(back(d)) + once(back(b))
      BY <2>4 DEF Raised, d, b, end
    <3>2. Raised(k)' = once(back(d)') + once(back(b)')
      BY <2>4 DEF Raised, d, b, end
    <3>3. Raises(k, f, t) <=> (f.message = d \/ f.message = b) /\ now = end
      BY <1>3, <2>4 DEF Raises
    <3>4. once(back(d)') = once(back(d)) + once(f.message = d /\ now = end)
      BY <1>14
    <3>5. once(back(b)') = once(back(b)) + once(f.message = b /\ now = end)
      BY <1>14
    <3>6. ~(f.message = d /\ f.message = b)
      BY <1>2
    <3> HIDE DEF back
    <3> QED BY <3>1, <3>2, <3>3, <3>4, <3>5, <3>6
  <2>5. CASE k = "node_recovered"
    <3>1. Raised(k) = once(back(d)) /\ Raised(k)' = once(back(d)')
      BY <2>5 DEF Raised, d, end
    <3>2. Raises(k, f, t) <=> f.message = d /\ now = end
      BY <1>3, <2>5 DEF Raises
    <3> QED BY <1>14, <3>1, <3>2
  <2>6. CASE k = "node_restart"
    <3>1. Raised(k) = once(Reboots /\ back(b)) /\ Raised(k)' = once(Reboots' /\ back(b)')
      BY <2>6 DEF Raised, b, end
    <3>2. Raises(k, f, t) <=> f.message = b /\ Reboots /\ now = end
      BY <1>3, <2>6 DEF Raises
    <3> QED BY <1>5, <1>14, <3>1, <3>2
  <2>7. CASE k = "sequence_gap"
    <3>1. /\ Raised(k) = once(Faulty /\ Done(d) >= 450)
          /\ Raised(k)' = once(Faulty' /\ Done(d)' >= 450)
      BY <2>7 DEF Raised, d
    <3>2. Raises(k, f, t) <=> f.message = d /\ Faulty /\ now = 450
      BY <1>3, <2>7 DEF Raises
    <3> QED BY <1>15, <3>1, <3>2
  <2>8. CASE k = "range_violation"
    <3>1. /\ Raised(k) = once(Faulty /\ Done(d) >= 150)
          /\ Raised(k)' = once(Faulty' /\ Done(d)' >= 150)
      BY <2>8 DEF Raised, d
    <3>2. Raises(k, f, t) <=> f.message = d /\ Faulty /\ now = 150
      BY <1>3, <2>8 DEF Raises
    <3> QED BY <1>15, <3>1, <3>2
  <2>9. CASE k = "range_recovered"
    <3>1. /\ Raised(k) = once(Faulty /\ Done(d) >= 200)
          /\ Raised(k)' = once(Faulty' /\ Done(d)' >= 200)
      BY <2>9 DEF Raised, d
    <3>2. Raises(k, f, t) <=> f.message = d /\ Faulty /\ now = 200
      BY <1>3, <2>9 DEF Raises
    <3> QED BY <1>15, <3>1, <3>2
  <2>10. CASE k = "unknown_message_id"
    BY <2>10 DEF Raised, Raises
  <2> QED BY <2>1, <2>2, <2>3, <2>4, <2>5, <2>6, <2>7, <2>8, <2>9, <2>10
          DEF EventKinds, Generator!OutageFindings
<1> QED BY <1>16

\* The findings of a call are dated where the injections put them.
LEMMA InjectedDates ==
    ASSUME RegenerationInv, ThermalInv, Analyze
    PROVE  FindingsAreDated'
<1> DEFINE f    == capture[1].frame
           t    == capture[1].at
           d    == InjectedData
           b    == InjectedBeat
           n    == ThermalNode
           own  == Sender[f.message] = n
           now  == tick - 1
           from == 100 * OutageStart
           to   == 100 * OutageEnd
<1>1. CaptureInv /\ capture # <<>> /\ ScenarioInv
  BY DEF RegenerationInv, Analyze, ThermalInv
<1>2. /\ now \in Nat /\ t \in Int /\ Epoch \in Int
      /\ t <= Epoch + 100 * now + 64
      /\ f.message = d => t >= Epoch + 100 * now + 16
      /\ f.message = b => t >= Epoch + 100 * now + 56
  BY <1>1, InjectedHead
<1>3. /\ d \in Messages \ Heartbeats /\ b \in Messages \cap Heartbeats
      /\ d # b /\ Sender[d] = n /\ Sender[b] = n /\ HeartbeatMessage[n] = b
      /\ StaleAfter[d] \in 108 .. 1999 /\ StaleAfter[b] \in 1008 .. 2899
      /\ StaleAfter[d] <= StaleAfter[b]
  BY InjectedMessages DEF InjectedBeat
<1>4. /\ own <=> f.message = d \/ f.message = b
      /\ own /\ WasStale(f.message, t) <=> own /\ now = OutageEnd
      /\ own /\ SilentPoint(n, t) # None <=> f.message = d /\ now = OutageEnd
      /\ own /\ UptimeFell(f) <=> f.message = b /\ Reboots /\ now = OutageEnd
      /\ own /\ GapFindings(f, t) # {} <=> f.message = d /\ Faulty /\ now = 450
      /\ f.message = d /\ Faulty /\ now = 450 =>
             ForwardDistance(Baseline(d, t), f.sequence) = Generator!SkipCount
      /\ own /\ Opens(f, Temperature) <=> f.message = d /\ Faulty /\ now = 150
      /\ own /\ Closes(f, Temperature) <=> f.message = d /\ Faulty /\ now = 200
  BY <1>1, Moments
<1>5. own => t - Epoch \in 100 * now .. 100 * now + 99
  <2> HIDE DEF now, t, f, d, b
  <2>1. own => t >= Epoch + 100 * now + 16
    BY <1>2, <1>4
  <2> QED BY <1>2, <2>1
<1>6. /\ \A m \in {d, b} : /\ GoesStale(m, t) => WasStale(m, t)
                           /\ WasStale(m, t) =>
                                  /\ Out(Done(m))
                                  /\ StalePoint(m, t) = lastSeen[m] + StaleAfter[m]
      /\ FallsSilent(n, t) =>
             /\ WasStale(d, t) /\ WasStale(b, t)
             /\ SilentPoint(n, t) \in {StalePoint(d, t), StalePoint(b, t)}
  <2>1. \A m \in {d, b} : /\ GoesStale(m, t) => WasStale(m, t)
                          /\ WasStale(m, t) =>
                                 /\ Out(Done(m))
                                 /\ StalePoint(m, t) = lastSeen[m] + StaleAfter[m]
    BY <1>1, InjectedFreshness
  <2>2. FallsSilent(n, t) =>
            /\ WasStale(d, t) /\ WasStale(b, t)
            /\ SilentPoint(n, t) \in {StalePoint(d, t), StalePoint(b, t)}
    BY <1>1, InjectedSilence
  <2> QED BY <2>1, <2>2
<1>7. /\ Out(Done(d)) =>
             lastSeen[d] \in Epoch + 100 * OutageStart - 84 .. Epoch + 100 * OutageStart - 76
      /\ Out(Done(b)) =>
             lastSeen[b] \in Epoch + 100 * OutageStart - 944 .. Epoch + 100 * OutageStart - 936
  BY <1>1, InjectedSeen
<1>8. from \in Nat /\ to \in Nat
  <2>1. OutageStart \in Nat /\ OutageEnd \in Nat
    BY <1>1, OutageTicks
  <2> QED BY <2>1
<1> HIDE DEF f, t, d, b, now, from, to
<1>9. /\ WasStale(d, t) => StalePoint(d, t) - Epoch \in from .. from + StaleAfter[d]
      /\ WasStale(b, t) => StalePoint(b, t) - Epoch \in from .. from + StaleAfter[b]
  <2>1. ASSUME WasStale(d, t)
        PROVE  StalePoint(d, t) - Epoch \in from .. from + StaleAfter[d]
    <3> DEFINE x == lastSeen[d]
               a == StaleAfter[d]
    <3>1. StalePoint(d, t) = x + a /\ x \in Epoch + from - 84 .. Epoch + from - 76
      BY <1>6, <1>7, <2>1 DEF from
    <3>2. a \in 108 .. 1999
      BY <1>3
    <3> HIDE DEF x, a
    <3>3. StalePoint(d, t) - Epoch \in from .. from + a
      BY <1>2, <1>8, <3>1, <3>2
    <3> QED BY <3>3 DEF a
  <2>2. ASSUME WasStale(b, t)
        PROVE  StalePoint(b, t) - Epoch \in from .. from + StaleAfter[b]
    <3> DEFINE x == lastSeen[b]
               a == StaleAfter[b]
    <3>1. StalePoint(b, t) = x + a /\ x \in Epoch + from - 944 .. Epoch + from - 936
      BY <1>6, <1>7, <2>2 DEF from
    <3>2. a \in 1008 .. 2899
      BY <1>3
    <3> HIDE DEF x, a
    <3>3. StalePoint(b, t) - Epoch \in from .. from + a
      BY <1>2, <1>8, <3>1, <3>2
    <3> QED BY <3>3 DEF a
  <2> QED BY <2>1, <2>2
<1>10. FallsSilent(n, t) =>
           SilentPoint(n, t) - Epoch \in from .. from + StaleAfter[b]
  <2> SUFFICES ASSUME FallsSilent(n, t)
               PROVE  SilentPoint(n, t) - Epoch \in from .. from + StaleAfter[b]
    OBVIOUS
  <2>1. /\ SilentPoint(n, t) \in {StalePoint(d, t), StalePoint(b, t)}
        /\ WasStale(d, t) /\ WasStale(b, t)
    BY <1>6
  <2>2. from .. from + StaleAfter[d] \subseteq from .. from + StaleAfter[b]
    <3> DEFINE x == StaleAfter[d]
               y == StaleAfter[b]
    <3>1. x \in 108 .. 1999 /\ y \in 1008 .. 2899 /\ x <= y
      BY <1>3
    <3> HIDE DEF x, y
    <3>2. x \in Int /\ y \in Int /\ x <= y
      BY <3>1
    <3>3. ASSUME NEW z \in from .. from + x PROVE z \in from .. from + y
      <4>1. z \in Int /\ from \in Int /\ from <= z /\ z <= from + x
        BY <1>8, <3>2
      <4>2. z <= from + y
        BY <3>2, <4>1
      <4> QED BY <1>8, <3>2, <4>1, <4>2
    <3>4. from .. from + x \subseteq from .. from + y
      BY <3>3
    <3> QED BY <3>4 DEF x, y
  <2> QED BY <1>9, <2>1, <2>2
<1>11. ASSUME Faulty \/ Reboots
       PROVE  \E i \in scenario.injections :
                  /\ i.node = n /\ i.start = from /\ i.end = to
                  /\ Generator!OutageFindings \subseteq i.expected
                  /\ Reboots => "node_restart" \in i.expected
  <2>1. CASE Faulty
    <3>1. /\ Generator!SilentInjection \in scenario.injections
          /\ OutageStart = 300 /\ OutageEnd = 330 /\ ~Reboots
      BY <1>1, <2>1, Scenes
    <3>2. from = 30000 /\ to = 33000
      BY <3>1 DEF from, to
    <3> QED BY <3>1, <3>2, Injections
  <2>2. CASE Reboots
    <3>1. /\ Generator!RestartInjection \in scenario.injections
          /\ OutageStart = 100 /\ OutageEnd = 120
      BY <1>1, <2>2, Scenes
    <3>2. from = 10000 /\ to = 12000
      BY <3>1 DEF from, to
    <3> QED BY <3>1, <3>2, Injections
  <2> QED BY <1>11, <2>1, <2>2
<1>12. \A m \in {d, b} : WasStale(m, t) => Faulty \/ Reboots
  <2>1. \A k \in Int : Out(k) => Faulty \/ Reboots
    BY <1>1, OutageTicks DEF Out
  <2>2. Done(d) \in Int /\ Done(b) \in Int
    BY <1>1 DEF Done, CaptureInv
  <2> QED BY <1>6, <2>1, <2>2
<1>13. own /\ now = OutageEnd =>
           /\ Faulty \/ Reboots
           /\ t - Epoch \in to .. to + 1000 - 1
  <2> SUFFICES ASSUME own, now = OutageEnd
               PROVE  (Faulty \/ Reboots) /\ t - Epoch \in to .. to + 1000 - 1
    OBVIOUS
  <2>1. Faulty \/ Reboots
    BY <1>4, <1>12
  <2>2. t - Epoch \in to .. to + 99
    BY <1>5 DEF to
  <2>3. to .. to + 99 \subseteq to .. to + 1000 - 1
    BY <1>8
  <2> QED BY <2>1, <2>2, <2>3
<1>14. \A i, e :
          /\ e.kind \in {"range", "gap"} => Window(i, e) = i.start .. i.start + 100 - 1
          /\ e.kind = "range_recovered" => Window(i, e) = i.end .. i.end + 100 - 1
          /\ e.kind = "stale" => Window(i, e) = i.start .. i.start + StaleAfter[e.message]
          /\ e.kind = "silent" =>
                 Window(i, e) = i.start .. i.start + StaleAfter[HeartbeatMessage[e.node]]
          /\ e.kind \in {"recovered", "node_recovered", "restart"} =>
                 Window(i, e) = i.end .. i.end + 1000 - 1
  BY Numbers DEF Window
<1>15. /\ produced' = {Finding(k, f, t) : k \in {x \in EventKinds : Raises(x, f, t)}}
       /\ \A k \in EventKinds : Raises(k, f, t) =>
              /\ EventKind(Finding(k, f, t)) = k
              /\ NodeOf(Finding(k, f, t)) = n
  BY WhatIsRaised DEF f, t
<1>16. ASSUME NEW k \in EventKinds, Raises(k, f, t), NEW e, e = Finding(k, f, t)
       PROVE  \E i \in scenario.injections :
                  /\ k \in i.expected /\ n = i.node
                  /\ e.at - Epoch \in Window(i, e)
                  /\ e.kind = "gap" => e.skipped = Generator!SkipCount
  <2>1. ASSUME NEW m \in {d, b}, e = Stale(m, StalePoint(m, t)), WasStale(m, t),
               k \in Generator!OutageFindings
        PROVE  \E i \in scenario.injections :
                   /\ k \in i.expected /\ n = i.node
                   /\ e.at - Epoch \in Window(i, e)
                   /\ e.kind = "gap" => e.skipped = Generator!SkipCount
    <3>1. e.kind = "stale" /\ e.message = m /\ e.at = StalePoint(m, t)
      BY <2>1 DEF Stale
    <3>2. PICK i \in scenario.injections :
              i.node = n /\ i.start = from /\ Generator!OutageFindings \subseteq i.expected
      BY <1>11, <1>12, <2>1
    <3>3. Window(i, e) = from .. from + StaleAfter[m]
      BY <1>14, <3>1, <3>2
    <3>4. e.at - Epoch \in Window(i, e)
      BY <1>9, <2>1, <3>1, <3>3
    <3> QED BY <2>1, <3>1, <3>2, <3>4
  <2>2. CASE k = "data_message_stale"
    <3>1. GoesStale(d, t) /\ e = Stale(d, StalePoint(d, t))
      BY <1>16, <2>2 DEF Raises, Finding, d
    <3>2. WasStale(d, t) /\ k \in Generator!OutageFindings
      BY <1>6, <2>2, <3>1 DEF Generator!OutageFindings
    <3> QED BY <2>1, <3>1, <3>2
  <2>3. CASE k = "heartbeat_timeout"
    <3>1. GoesStale(b, t) /\ e = Stale(b, StalePoint(b, t))
      BY <1>16, <2>3 DEF Raises, Finding, b
    <3>2. WasStale(b, t) /\ k \in Generator!OutageFindings
      BY <1>6, <2>3, <3>1 DEF Generator!OutageFindings
    <3> QED BY <2>1, <3>1, <3>2
  <2>4. CASE k = "node_silent"
    <3>1. FallsSilent(n, t) /\ e = Silent(n, SilentPoint(n, t), ActiveBeside(n, t))
      BY <1>16, <2>4 DEF Raises, Finding
    <3>2. e.kind = "silent" /\ e.node = n /\ e.at = SilentPoint(n, t)
      BY <3>1 DEF Silent
    <3>3. PICK i \in scenario.injections :
              i.node = n /\ i.start = from /\ Generator!OutageFindings \subseteq i.expected
      BY <1>6, <1>11, <1>12, <3>1
    <3>4. Window(i, e) = from .. from + StaleAfter[b]
      BY <1>3, <1>14, <3>2, <3>3
    <3>5. k \in i.expected
      BY <2>4, <3>3 DEF Generator!OutageFindings
    <3> QED BY <1>10, <3>1, <3>2, <3>3, <3>4, <3>5
  <2>5. ASSUME own, now = OutageEnd, e.at = t,
               e.kind \in {"recovered", "node_recovered", "restart"},
               \/ k \in Generator!OutageFindings
               \/ k = "node_restart" /\ Reboots
        PROVE  \E i \in scenario.injections :
                   /\ k \in i.expected /\ n = i.node
                   /\ e.at - Epoch \in Window(i, e)
                   /\ e.kind = "gap" => e.skipped = Generator!SkipCount
    <3>1. (Faulty \/ Reboots) /\ t - Epoch \in to .. to + 1000 - 1
      BY <1>13, <2>5
    <3>2. PICK i \in scenario.injections :
              /\ i.node = n /\ i.end = to
              /\ Generator!OutageFindings \subseteq i.expected
              /\ Reboots => "node_restart" \in i.expected
      BY <1>11, <3>1
    <3>3. Window(i, e) = to .. to + 1000 - 1
      BY <1>14, <2>5, <3>2
    <3>4. e.at - Epoch \in Window(i, e)
      BY <2>5, <3>1, <3>3
    <3> QED BY <2>5, <3>2, <3>4
  <2>6. CASE k = "message_recovered"
    <3>1. own /\ WasStale(f.message, t) /\ e = Recovered(f.message, t, t - StalePoint(f.message, t))
      BY <1>16, <2>6 DEF Raises, Finding
    <3>2. e.kind = "recovered" /\ e.at = t /\ now = OutageEnd
      BY <1>4, <3>1 DEF Recovered
    <3>3. k \in Generator!OutageFindings
      BY <2>6 DEF Generator!OutageFindings
    <3> QED BY <2>5, <3>1, <3>2, <3>3
  <2>7. CASE k = "node_recovered"
    <3>1. own /\ SilentPoint(n, t) # None /\ e = NodeRecovered(n, t, t - SilentPoint(n, t))
      BY <1>16, <2>7 DEF Raises, Finding
    <3>2. e.kind = "node_recovered" /\ e.at = t /\ now = OutageEnd
      BY <1>4, <3>1 DEF NodeRecovered
    <3>3. k \in Generator!OutageFindings
      BY <2>7 DEF Generator!OutageFindings
    <3> QED BY <2>5, <3>1, <3>2, <3>3
  <2>8. CASE k = "node_restart"
    <3>1. own /\ UptimeFell(f) /\ e = Restart(n, t)
      BY <1>16, <2>8 DEF Raises, Finding
    <3>2. e.kind = "restart" /\ e.at = t /\ now = OutageEnd /\ Reboots
      BY <1>4, <3>1 DEF Restart
    <3> QED BY <2>5, <2>8, <3>1, <3>2
  <2>9. CASE k = "sequence_gap"
    <3>1. /\ own /\ GapFindings(f, t) # {}
          /\ e = Gap(f.message, t, ForwardDistance(Baseline(f.message, t), f.sequence))
      BY <1>16, <2>9 DEF Raises, Finding
    <3>2. /\ e.kind = "gap" /\ e.at = t /\ f.message = d /\ Faulty /\ now = 450
          /\ e.skipped = Generator!SkipCount
      BY <1>4, <3>1 DEF Gap
    <3>3. /\ Generator!SkipInjection \in scenario.injections
          /\ Generator!SkipInjection.node = n /\ Generator!SkipInjection.start = 45000
          /\ k \in Generator!SkipInjection.expected
      BY <1>1, <2>9, <3>2, Scenes, Injections
    <3> DEFINE at == 45000
    <3>4. e.at - Epoch \in at .. at + 100 - 1
      BY <1>5, <3>1, <3>2
    <3>5. Generator!SkipInjection.start = at
      BY <3>3
    <3> HIDE DEF at
    <3>6. Window(Generator!SkipInjection, e) = at .. at + 100 - 1
      BY <1>14, <3>2, <3>5
    <3>7. e.at - Epoch \in Window(Generator!SkipInjection, e)
      BY <3>4, <3>6
    <3> QED BY <3>2, <3>3, <3>7
  <2>10. CASE k = "range_violation"
    <3>1. /\ own /\ Opens(f, Temperature)
          /\ e = RangeViolation(f.message, Temperature, t)
      BY <1>16, <2>10 DEF Raises, Finding
    <3>2. e.kind = "range" /\ e.at = t /\ Faulty /\ now = 150
      BY <1>4, <3>1 DEF RangeViolation
    <3>3. /\ Generator!RangeInjection \in scenario.injections
          /\ Generator!RangeInjection.node = n /\ Generator!RangeInjection.start = 15000
          /\ k \in Generator!RangeInjection.expected
      BY <1>1, <2>10, <3>2, Scenes, Injections
    <3> DEFINE at == 15000
    <3>4. e.at - Epoch \in at .. at + 100 - 1
      BY <1>5, <3>1, <3>2
    <3>5. Generator!RangeInjection.start = at
      BY <3>3
    <3> HIDE DEF at
    <3>6. Window(Generator!RangeInjection, e) = at .. at + 100 - 1
      BY <1>14, <3>2, <3>5
    <3>7. e.at - Epoch \in Window(Generator!RangeInjection, e)
      BY <3>4, <3>6
    <3> QED BY <3>2, <3>3, <3>7
  <2>11. CASE k = "range_recovered"
    <3>1. /\ own /\ Closes(f, Temperature)
          /\ e = RangeRecovered(f.message, Temperature, t,
                                t - rangeSince[f.message][Temperature])
      BY <1>16, <2>11 DEF Raises, Finding
    <3>2. e.kind = "range_recovered" /\ e.at = t /\ Faulty /\ now = 200
      BY <1>4, <3>1 DEF RangeRecovered
    <3>3. /\ Generator!RangeInjection \in scenario.injections
          /\ Generator!RangeInjection.node = n /\ Generator!RangeInjection.end = 20000
          /\ k \in Generator!RangeInjection.expected
      BY <1>1, <2>11, <3>2, Scenes, Injections
    <3> DEFINE at == 20000
    <3>4. e.at - Epoch \in at .. at + 100 - 1
      BY <1>5, <3>1, <3>2
    <3>5. Generator!RangeInjection.end = at
      BY <3>3
    <3> HIDE DEF at
    <3>6. Window(Generator!RangeInjection, e) = at .. at + 100 - 1
      BY <1>14, <3>2, <3>5
    <3>7. e.at - Epoch \in Window(Generator!RangeInjection, e)
      BY <3>4, <3>6
    <3> QED BY <3>2, <3>3, <3>7
  <2>12. k # "unknown_message_id"
    BY <1>16 DEF Raises
  <2> QED BY <2>2, <2>3, <2>4, <2>6, <2>7, <2>8, <2>9, <2>10, <2>11, <2>12
          DEF EventKinds, Generator!OutageFindings
<1>17. scenario' = scenario
  BY DEF Analyze
<1>18. ASSUME NEW e \in produced'
       PROVE  \E i \in scenario.injections :
                  /\ EventKind(e) \in i.expected
                  /\ NodeOf(e) = i.node
                  /\ e.at - Epoch \in Window(i, e)
                  /\ e.kind = "gap" => e.skipped = Generator!SkipCount
  <2>1. PICK k \in EventKinds : Raises(k, f, t) /\ e = Finding(k, f, t)
    BY <1>15
  <2>2. EventKind(e) = k /\ NodeOf(e) = n
    BY <1>15, <2>1
  <2> QED BY <1>16, <2>1, <2>2
<1> QED BY <1>17, <1>18 DEF FindingsAreDated, Window, EventKind, NodeOf

\* The analysis of a frame keeps what is known of the injected node.
LEMMA InjectedAnalyzeStep ==
    ASSUME RegenerationInv, ThermalInv, Analyze
    PROVE  ThermalInv'
<1> DEFINE f   == capture[1].frame
           t   == capture[1].at
           d   == InjectedData
           b   == InjectedBeat
           n   == ThermalNode
           own == Sender[f.message] = n
           now == tick - 1
<1>1. /\ CaptureInv /\ capture # <<>>
      /\ ScenarioInv /\ ThermalWaiting /\ ThermalRun /\ ThermalCounter
      /\ ThermalSeen /\ ThermalOpen /\ ReportInv
  BY DEF RegenerationInv, Analyze, ThermalInv
<1>2. /\ capture' = Tail(capture) /\ tick' = tick /\ model' = model
      /\ scenario' = scenario
      /\ lastSeen' = [lastSeen EXCEPT ![f.message] = t]
      /\ staleSince' = [x \in Messages |-> IF x = f.message THEN None
                                            ELSE StalePoint(x, t)]
      /\ silentSince' = [x \in Nodes |-> IF x = Sender[f.message] THEN None
                                          ELSE SilentPoint(x, t)]
      /\ lastSequence' = SequenceAfter(f, t)
      /\ lastUptime' = IF f.message \in Heartbeats /\ f.uptime # None
                       THEN [lastUptime EXCEPT ![f.message] = f.uptime]
                       ELSE lastUptime
      /\ lastRestart' = IF UptimeFell(f)
                        THEN [lastRestart EXCEPT ![Sender[f.message]] = t]
                        ELSE lastRestart
      /\ rangeSince' = [rangeSince EXCEPT ![f.message] = RangeAfter(f, t)]
  BY <1>1, FirstWaits DEF Analyze, ProcessKnown
<1>3. /\ d \in Messages \ Heartbeats /\ b \in Messages \cap Heartbeats
      /\ n \in Nodes /\ d # b /\ Sender[d] = n /\ Sender[b] = n
  BY InjectedMessages
<1>4. /\ tick \in Nat /\ now \in Nat /\ t \in Int /\ f.message \in Messages
      /\ f.message = d => /\ InjectedDataEntry(capture[1]) /\ Pending(d)
      /\ f.message = b => /\ InjectedBeatEntry(capture[1])
                          /\ ~Pending(d)
  BY <1>1, InjectedHead
<1>5. /\ own <=> f.message = d \/ f.message = b
      /\ own /\ WasStale(f.message, t) <=> own /\ now = OutageEnd
      /\ own /\ SilentPoint(n, t) # None <=> f.message = d /\ now = OutageEnd
      /\ own /\ UptimeFell(f) <=> f.message = b /\ Reboots /\ now = OutageEnd
      /\ own /\ Opens(f, Temperature) <=> f.message = d /\ Faulty /\ now = 150
      /\ own /\ Closes(f, Temperature) <=> f.message = d /\ Faulty /\ now = 200
  BY <1>1, Moments
<1>6. /\ ThermalWaiting'
      /\ Pending(d)' <=> Pending(d) /\ f.message # d
      /\ Done(d)' = IF f.message = d THEN now ELSE Done(d)
      /\ Done(b)' = IF f.message = b THEN now ELSE Done(b)
      /\ f.message = d => Done(d) = tick - 2
  BY <1>1, InjectedTaken
<1>7. /\ Faulty' = Faulty /\ Reboots' = Reboots /\ OutageEnd' = OutageEnd
      /\ \A k : /\ Out(k)' <=> Out(k)
                /\ OutOfRange(k)' <=> OutOfRange(k)
                /\ SkipAt(k)' = SkipAt(k)
                /\ UptimeAt(k)' = UptimeAt(k)
                /\ DataGot(k)' = DataGot(k)
                /\ BeatGot(k)' = BeatGot(k)
  BY <1>2, SameScene
<1>8. /\ DOMAIN lastSeen = Messages /\ DOMAIN lastUptime = Messages
      /\ DOMAIN rangeSince = Messages
  BY <1>1 DEF CaptureInv
<1>9. UptimeFell(f) => own
  <2> SUFFICES ASSUME ~own PROVE ~UptimeFell(f)
    OBVIOUS
  <2>1. Healthy(PowerNode)
    BY <1>1, <1>4, InForce
  <2>2. PowerNode \in Nodes /\ Nodes = {PowerNode, n}
    BY NetworkAssumption
  <2>3. Sender[f.message] = PowerNode
    BY <1>4, <2>2, DatabaseAssumption
  <2>4. HealthyInv(PowerNode)
    BY <2>1, <2>2 DEF RegenerationInv
  <2> QED BY <1>1, <2>2, <2>3, <2>4, NothingIsWrong
<1>10. ScenarioInv'
  <2>1. capture' = <<>> \/ tick # 0
    BY <1>1 DEF ScenarioInv
  <2> QED BY <1>1, <1>2, <2>1 DEF ScenarioInv
<1>11. ThermalRun'
  <2>1. Out(tick - 1)' <=> Out(tick - 1)
    BY <1>2, <1>7
  <2>2. (tick > 0 /\ ~(Reboots /\ Out(tick - 1)))' =
            (tick > 0 /\ ~(Reboots /\ Out(tick - 1)))
    BY <1>2, <1>7, <2>1
  <2> QED BY <1>1, <1>2, <1>7, <2>2 DEF ThermalRun
<1>12. ThermalSeen'
  <2>1. \A m \in Messages : lastSeen'[m] = IF m = f.message THEN t ELSE lastSeen[m]
    BY <1>2, <1>8
  <2>2. \A k, p : Due(k, p)' = Due(k, p)
    BY DEF Due, Base
  <2>3. IF Done(d)' < 0 THEN lastSeen'[d] = None
        ELSE lastSeen'[d] \in Due(DataGot(Done(d)'), Generator!DataPhase[n])
    <3>1. CASE f.message = d
      <4>1. ~Out(now) /\ t \in Due(now, Generator!DataPhase[n])
        BY <1>4, <3>1 DEF InjectedDataEntry
      <4>2. DataGot(now) = now
        BY <4>1 DEF DataGot
      <4>3. Done(d)' = now /\ ~(now < 0) /\ lastSeen'[d] = t
        BY <1>3, <1>4, <1>6, <2>1, <3>1
      <4> HIDE DEF now, t
      <4> QED BY <4>1, <4>2, <4>3
    <3>2. CASE f.message # d
      BY <1>1, <1>3, <1>6, <2>1, <3>2 DEF ThermalSeen
    <3> QED BY <3>1, <3>2
  <2>4. IF Done(b)' < 0
        THEN lastSeen'[b] = None /\ lastUptime'[b] = None
        ELSE /\ lastSeen'[b] \in Due(BeatGot(Done(b)'), Generator!HeartbeatPhase[n])
             /\ lastUptime'[b] = UptimeAt(BeatGot(Done(b)'))
    <3>1. CASE f.message = b
      <4>1. /\ ~Out(now) /\ now % 10 = 0 /\ f.uptime = UptimeAt(now)
            /\ t \in Due(now, Generator!HeartbeatPhase[n])
        BY <1>4, <3>1, Numbers DEF InjectedBeatEntry
      <4>2. BeatGot(now) = now
        <5>1. BeatGot(now) = 10 * (now \div 10)
          BY <4>1, Numbers DEF BeatGot
        <5> QED BY <1>4, <4>1, <5>1
      <4>3. Done(b)' = now /\ ~(now < 0) /\ lastSeen'[b] = t
        BY <1>3, <1>4, <1>6, <2>1, <3>1
      <4>4. f.uptime # None
        <5>1. OutageEnd \in Nat
          BY <1>1, OutageTicks
        <5>2. UptimeAt(now) = (IF Reboots /\ now >= OutageEnd THEN now - OutageEnd
                               ELSE now) \div 10
          BY Numbers DEF UptimeAt
        <5>3. UptimeAt(now) \in Int
          BY <1>4, <5>1, <5>2
        <5> QED BY <4>1, <5>3, BoundAssumption
      <4>5. lastUptime'[b] = f.uptime
        BY <1>2, <1>3, <1>8, <3>1, <4>4
      <4> HIDE DEF now, t
      <4> QED BY <4>1, <4>2, <4>3, <4>5
    <3>2. CASE f.message # b
      <4>1. lastUptime'[b] = lastUptime[b]
        BY <1>2, <1>3, <1>4, <1>8, <3>2
      <4> QED BY <1>1, <1>3, <1>6, <2>1, <3>2, <4>1 DEF ThermalSeen
    <3> QED BY <3>1, <3>2
  <2>5. \A m \in Messages \ {d, b} : Sender[m] = n => lastSeen'[m] = None
    BY <1>1, <1>5, <2>1 DEF ThermalSeen
  <2>6. /\ \A k : Due(DataGot(k), Generator!DataPhase[n])' =
                      Due(DataGot(k)', Generator!DataPhase[n])
        /\ \A k : Due(BeatGot(k), Generator!HeartbeatPhase[n])' =
                      Due(BeatGot(k)', Generator!HeartbeatPhase[n])
    BY DEF Due, Base
  <2> QED BY <1>7, <2>3, <2>4, <2>5 DEF ThermalSeen, Due, Base, d, b
<1>13. ThermalCounter'
  <2>1. \A x, y : Follows(x, y)' <=> Follows(x, y)
    BY DEF Follows
  <2>2. CASE f.message = d
    <3>1. f.sequence \in Counters /\ f.sequence # None
      <4>1. f.sequence \in Counters
        BY <1>4, <2>2 DEF InjectedDataEntry
      <4> QED BY <4>1, ConfigAssumption, BoundAssumption DEF Counters
    <3>2. lastSequence'[d] = f.sequence
      BY <1>2, <1>3, <2>2, <3>1, DefaultsAssumption
         DEF SequenceAfter, ReadsCounter, UptimeFell
    <3>3. model[n].counter \in Counters /\ model[n].counter = (f.sequence + 1) % CounterModulus
      <4>1. 1 \in 1 .. Len(capture)
        BY <1>1, FirstWaits
      <4> QED BY <1>1, <2>2, <4>1 DEF ThermalCounter
    <3>4. \A i \in 1 .. Len(capture') : capture'[i].frame.message # d
      BY <1>6, <2>2 DEF Pending
    <3>5. Follows(model[n].counter, lastSequence'[d])
      BY <3>1, <3>2, <3>3 DEF Follows
    <3> QED BY <1>2, <2>1, <3>1, <3>2, <3>3, <3>4, <3>5 DEF ThermalCounter, d
  <2>3. CASE f.message # d /\ ~UptimeFell(f)
    <3>1. lastSequence'[d] = lastSequence[d] /\ Done(d)' = Done(d)
          /\ (Pending(d)' <=> Pending(d))
      BY <1>2, <1>3, <1>6, <2>3 DEF SequenceAfter
    <3>2. \A i \in 1 .. Len(capture') : \E j \in 1 .. Len(capture) :
              capture'[i] = capture[j]
      BY <1>1, <1>2, FirstWaits
    <3>3. /\ SkipAt(tick - 1)' = SkipAt(tick - 1)
          /\ (tick - 1 = OutageEnd)' <=> tick - 1 = OutageEnd
      BY <1>2, <1>7
    <3>4. ASSUME NEW i \in 1 .. Len(capture'), capture'[i].frame.message = d
          PROVE  /\ \E c \in Counters :
                       /\ Follows(c, lastSequence[d]) \/ tick - 1 = OutageEnd
                       /\ capture'[i].frame.sequence =
                              (c + SkipAt(tick - 1)) % CounterModulus
                 /\ model[n].counter =
                        (capture'[i].frame.sequence + 1) % CounterModulus
      <4>1. PICK j \in 1 .. Len(capture) : capture'[i] = capture[j]
        BY <3>2
      <4> QED BY <1>1, <3>4, <4>1 DEF ThermalCounter
    <3>5. /\ model[n].counter \in Counters
          /\ ~Pending(d)' => Follows(model[n].counter, lastSequence[d])
          /\ ~Reboots /\ Done(d)' >= 0 => lastSequence[d] # None
      BY <1>1, <3>1 DEF ThermalCounter
    <3> QED BY <1>2, <1>7, <2>1, <3>1, <3>3, <3>4, <3>5 DEF ThermalCounter, d
  <2>4. CASE f.message # d /\ UptimeFell(f)
    <3>1. f.message = b /\ Reboots /\ own
      BY <1>5, <1>9, <2>4
    <3>2. lastSequence'[d] = None
      BY <1>2, <1>3, <2>4, <3>1 DEF SequenceAfter
    <3>3. \A i \in 1 .. Len(capture') : capture'[i].frame.message # d
      BY <1>4, <1>6, <3>1 DEF Pending
    <3>4. model[n].counter \in Counters /\ Follows(model[n].counter, lastSequence'[d])
      BY <1>1, <3>2 DEF ThermalCounter, Follows
    <3> QED BY <1>2, <1>7, <2>1, <3>1, <3>3, <3>4 DEF ThermalCounter, d
  <2> QED BY <2>2, <2>3, <2>4
<1>14. ThermalOpen'
  <2>1. \A m \in {d, b} : WasStale(m, t) =>
            Out(Done(m)) /\ StalePoint(m, t) = lastSeen[m] + StaleAfter[m]
    BY <1>1, InjectedFreshness
  <2>2. ASSUME NEW m \in {d, b}, staleSince'[m] # None
        PROVE  Out(Done(m)') /\ staleSince'[m] = lastSeen'[m] + StaleAfter[m]
    <3>1. m \in Messages /\ m # f.message /\ staleSince'[m] = StalePoint(m, t)
      BY <1>2, <1>3, <2>2
    <3>2. lastSeen'[m] = lastSeen[m] /\ Done(m)' = Done(m)
      BY <1>2, <1>6, <1>8, <3>1
    <3>3. WasStale(m, t)
      BY <2>2, <3>1 DEF WasStale
    <3> QED BY <2>1, <3>1, <3>2, <3>3
  <2>3. ASSUME silentSince'[n] # None
        PROVE  staleSince'[d] # None /\ staleSince'[b] # None
    <3>1. ~own /\ SilentPoint(n, t) # None
      BY <1>2, <1>3, <2>3
    <3>2. WasStale(d, t) /\ WasStale(b, t)
      BY <1>1, <3>1, InjectedSilence
    <3> QED BY <1>2, <1>3, <1>5, <3>1, <3>2 DEF WasStale
  <2>4. /\ rangeSince[d][Temperature] # None <=> OutOfRange(Done(d))
        /\ rangeSince[b][Temperature] = None
    BY <1>1 DEF ThermalOpen
  <2>5. Temperature \in Signals
    BY NetworkAssumption
  <2>6. rangeSince'[d][Temperature] # None <=> OutOfRange(Done(d)')
    <3>1. CASE f.message = d
      <4>1. rangeSince'[d][Temperature] =
                IF Opens(f, Temperature) THEN t
                ELSE IF Closes(f, Temperature) THEN None
                ELSE rangeSince[d][Temperature]
        BY <1>2, <1>3, <1>8, <2>5, <3>1 DEF RangeAfter
      <4>2. /\ Opens(f, Temperature) <=> Faulty /\ now = 150
            /\ Closes(f, Temperature) <=> Faulty /\ now = 200
        BY <1>5, <3>1
      <4>3. Done(d) = now - 1 /\ Done(d)' = now
        BY <1>4, <1>6, <3>1
      <4>4. /\ OutOfRange(now - 1) <=> Faulty /\ 150 <= now - 1 /\ now - 1 < 200
            /\ OutOfRange(now) <=> Faulty /\ 150 <= now /\ now < 200
        BY DEF OutOfRange
      <4>5. t # None
        BY <1>4, BoundAssumption
      <4> HIDE DEF now
      <4>6. now \in Nat
        BY <1>4 DEF now
      <4> QED BY <2>4, <4>1, <4>2, <4>3, <4>4, <4>5, <4>6
    <3>2. CASE f.message # d
      <4>1. rangeSince'[d] = rangeSince[d]
        BY <1>2, <1>3, <1>8, <3>2
      <4> QED BY <1>6, <2>4, <3>2, <4>1
    <3> QED BY <3>1, <3>2
  <2>7. rangeSince'[b][Temperature] = None
    <3>1. CASE f.message = b
      <4>1. rangeSince'[b][Temperature] =
                IF Opens(f, Temperature) THEN t
                ELSE IF Closes(f, Temperature) THEN None
                ELSE rangeSince[b][Temperature]
        BY <1>2, <1>3, <1>8, <2>5, <3>1 DEF RangeAfter
      <4>2. ~Opens(f, Temperature) /\ ~Closes(f, Temperature)
        BY <1>3, <1>5, <3>1
      <4> QED BY <2>4, <4>1, <4>2
    <3>2. CASE f.message # b
      BY <1>2, <1>3, <1>8, <2>4, <3>2
    <3> QED BY <3>1, <3>2
  <2>8. ~Reboots => lastRestart'[n] = None
    BY <1>1, <1>2, <1>5, <1>9 DEF ThermalOpen
  <2> QED BY <1>7, <2>2, <2>3, <2>6, <2>7, <2>8 DEF ThermalOpen, d, b
<1>15. ReportInv'
  <2>1. \A k \in EventKinds : Raised(k)' = Raised(k) + IF Raises(k, f, t) THEN 1 ELSE 0
    BY InjectedRaised
  <2>2. counts' = [k \in EventKinds |-> counts[k] + IF Raises(k, f, t) THEN 1 ELSE 0]
    BY InjectedCount
  <2>3. \A k \in EventKinds : counts[k] = Raised(k)
    BY <1>1 DEF ReportInv
  <2>4. counts' = [k \in EventKinds |-> Raised(k)']
    BY <2>1, <2>2, <2>3
  <2>5. ASSUME Done(d)' >= OutageEnd PROVE n \in named'
    <3>1. named' = named \cup {NodeOf(e) : e \in produced'}
      BY DEF Analyze
    <3>2. CASE Done(d) >= OutageEnd
      BY <1>1, <3>1, <3>2 DEF ReportInv
    <3>3. CASE ~(Done(d) >= OutageEnd)
      <4>1. f.message = d /\ Done(d)' = now
        BY <1>6, <2>5, <3>3
      <4>2. now = OutageEnd
        <5>1. OutageEnd \in Nat
          BY <1>1, OutageTicks
        <5>2. Done(d) = now - 1
          BY <1>4, <1>6, <4>1
        <5> HIDE DEF now
        <5>3. now \in Nat
          BY <1>4 DEF now
        <5> QED BY <2>5, <3>3, <4>1, <5>1, <5>2, <5>3
      <4>3. Raises("message_recovered", f, t)
        BY <1>5, <4>1, <4>2 DEF Raises
      <4>4. "message_recovered" \in EventKinds
        BY DEF EventKinds, Generator!OutageFindings
      <4>5. \E e \in produced' : NodeOf(e) = n
        BY <4>3, <4>4, WhatIsRaised
      <4> QED BY <3>1, <4>5
    <3> QED BY <3>2, <3>3
  <2>6. FindingsAreDated'
    BY InjectedDates
  <2> QED BY <1>7, <2>4, <2>5, <2>6 DEF ReportInv, EventKinds, d
<1> QED BY <1>6, <1>10, <1>11, <1>12, <1>13, <1>14, <1>15 DEF ThermalInv

\* No capture has begun, and nothing has been found.
LEMMA InjectedInit ==
    ASSUME RegenerationInit
    PROVE  ThermalInv
<1> DEFINE d == InjectedData
           b == InjectedBeat
           n == ThermalNode
<1>1. /\ tick = 0 /\ capture = <<>> /\ named = {} /\ produced = {}
      /\ scenario \in Generator!AllScenarios
      /\ counts = [k \in EventKinds |-> 0]
      /\ lastSeen = [m \in Messages |-> None]
      /\ staleSince = [m \in Messages |-> None]
      /\ lastSequence = [m \in Messages |-> None]
      /\ lastUptime = [m \in Messages |-> None]
      /\ rangeSince = [m \in Messages |-> [s \in Signals |-> None]]
      /\ silentSince = [x \in Nodes |-> None]
      /\ lastRestart = [x \in Nodes |-> None]
      /\ model[n] = [counter |-> 0, bootTick |-> 0, booted |-> FALSE]
  BY DEF RegenerationInit, Init, Generator!GeneratorInit, Generator!ScenarioNodes
<1>2. /\ d \in Messages \ Heartbeats /\ b \in Messages \cap Heartbeats
      /\ n \in Nodes /\ d # b /\ Temperature \in Signals
  BY InjectedMessages, NetworkAssumption
<1>3. Len(capture) = 0
  BY <1>1
<1>4. ScenarioInv
  <2>1. scenario.duration \in Nat
    BY <1>1 DEF Generator!AllScenarios, Generator!NormalSession,
                Generator!FaultSession, Generator!RestartSession
  <2> QED BY <1>1, <2>1, Numbers DEF ScenarioInv
<1>5. OutageEnd \in Nat /\ OutageEnd >= 100
  BY <1>4, OutageTicks
<1>6. ~Pending(d) /\ ~Pending(b) /\ Done(d) = -1 /\ Done(b) = -1
  BY <1>1, <1>3 DEF Pending, Done
<1>7. ThermalWaiting
  BY <1>3, <1>6 DEF ThermalWaiting
<1>8. ThermalRun
  <2>1. model[n].counter = 0 /\ ~(tick > OutageEnd)
    BY <1>1, <1>5
  <2>2. (tick > 0 /\ ~(Reboots /\ Out(tick - 1))) = FALSE
    BY <1>1
  <2> QED BY <1>1, <2>1, <2>2 DEF ThermalRun
<1>9. ThermalCounter
  <2>1. model[n].counter = 0 /\ 0 \in Counters
    BY <1>1, ConfigAssumption DEF Counters
  <2> QED BY <1>1, <1>2, <1>3, <1>6, <2>1 DEF ThermalCounter, Follows
<1>10. ThermalSeen
  BY <1>1, <1>2, <1>6 DEF ThermalSeen
<1>11. ThermalOpen
  <2>1. ~OutOfRange(Done(d))
    BY <1>6 DEF OutOfRange
  <2> QED BY <1>1, <1>2, <2>1 DEF ThermalOpen
<1>12. ReportInv
  <2>1. /\ \A m \in {d, b} : ~(Done(m) >= OutageEnd) /\ staleSince[m] = None
        /\ ~(Done(d) >= 450) /\ ~(Done(d) >= 150) /\ ~(Done(d) >= 200)
        /\ silentSince[n] = None
    BY <1>1, <1>2, <1>5, <1>6
  <2>2. \A k \in EventKinds : Raised(k) = 0
    BY <2>1 DEF EventKinds, Generator!OutageFindings, Raised
  <2>3. FindingsAreDated
    BY <1>1 DEF FindingsAreDated
  <2> QED BY <1>1, <2>1, <2>2, <2>3 DEF ReportInv
<1> QED BY <1>4, <1>7, <1>8, <1>9, <1>10, <1>11, <1>12 DEF ThermalInv

\* Nothing else matters to what is known of the injected node.
LEMMA InjectedStutter ==
    ASSUME ThermalInv, UNCHANGED regenerationVars
    PROVE  ThermalInv'
<1> USE DEF regenerationVars, vars, messageVars, nodeVars
<1>1. /\ Faulty' = Faulty /\ Reboots' = Reboots
      /\ OutageStart' = OutageStart /\ OutageEnd' = OutageEnd
      /\ \A k : /\ Out(k)' <=> Out(k)
                /\ OutOfRange(k)' <=> OutOfRange(k)
                /\ SkipAt(k)' = SkipAt(k)
                /\ UptimeAt(k)' = UptimeAt(k)
                /\ DataGot(k)' = DataGot(k)
                /\ BeatGot(k)' = BeatGot(k)
  BY SameScene
<1>2. \A m : (Pending(m)' <=> Pending(m)) /\ Done(m)' = Done(m)
  BY DEF Pending, Done
<1>3. ScenarioInv'
  BY DEF ThermalInv, ScenarioInv
<1>4. ThermalWaiting'
  <2>1. /\ Out(tick - 1)' <=> Out(tick - 1)
        /\ OutOfRange(tick - 1)' <=> OutOfRange(tick - 1)
        /\ UptimeAt(tick - 1)' = UptimeAt(tick - 1)
    BY <1>1
  <2> QED BY <1>2, <2>1
          DEF ThermalInv, ThermalWaiting, InjectedDataEntry, InjectedBeatEntry,
              Due, Base
<1>5. ThermalRun'
  BY DEF ThermalInv, ThermalRun, Reboots, Out, OutageStart, OutageEnd, Faulty
<1>6. ThermalCounter'
  BY DEF ThermalInv, ThermalCounter, Follows, Pending, Done, SkipAt, OutageEnd,
         Faulty, Reboots
<1>7. ThermalSeen'
  BY DEF ThermalInv, ThermalSeen, Done, Pending, Due, Base, DataGot, BeatGot,
         UptimeAt, Out, OutageStart, OutageEnd, Faulty, Reboots
<1>8. ThermalOpen'
  BY DEF ThermalInv, ThermalOpen, Done, Pending, Out, OutOfRange, OutageStart,
         OutageEnd, Faulty, Reboots
<1>9. ReportInv'
  <2>1. \A k \in EventKinds : Raised(k)' = Raised(k)
    BY <1>1, <1>2 DEF Raised
  <2>2. counts = [k \in EventKinds |-> Raised(k)]
    BY DEF ThermalInv, ReportInv
  <2>3. counts' = [k \in EventKinds |-> Raised(k)']
    BY <2>1, <2>2
  <2>4. (Done(InjectedData) >= OutageEnd => ThermalNode \in named)'
    BY <1>1, <1>2 DEF ThermalInv, ReportInv
  <2>5. FindingsAreDated'
    BY DEF ThermalInv, ReportInv, FindingsAreDated, Window, EventKind, NodeOf
  <2> QED BY <2>3, <2>4, <2>5 DEF ReportInv, EventKinds
<1> QED BY <1>3, <1>4, <1>5, <1>6, <1>7, <1>8, <1>9 DEF ThermalInv

\* The inductive invariant of the node that is injected into: what waits, what
\* the monitor got last, what it has open and what it has counted follow from
\* the tick (the loop of generate_capture, DiagnosticMonitor).
THEOREM InjectedNodeInvariant ==
    RegenerationSpec => []ThermalInv
<1>1. RegenerationInit => ThermalInv
  BY InjectedInit
<1>2. RegenerationInv /\ ThermalInv /\ [RegenerationNext]_regenerationVars
      => ThermalInv'
  <2> SUFFICES ASSUME RegenerationInv, ThermalInv,
                      [RegenerationNext]_regenerationVars
               PROVE  ThermalInv'
    OBVIOUS
  <2>1. CASE Generate
    BY <2>1, InjectedGenerateStep DEF RegenerationInv
  <2>2. CASE Analyze
    BY <2>2, InjectedAnalyzeStep
  <2>3. CASE UNCHANGED regenerationVars
    BY <2>3, InjectedStutter
  <2> QED BY <2>1, <2>2, <2>3 DEF RegenerationNext
<1> QED BY <1>1, <1>2, GeneratedCaptureInvariant, PTL DEF RegenerationSpec

\* "Findings are raised once per episode, not once per frame"
\* (docs/architecture.md:75): each finding of an injection is raised once.
THEOREM OneFindingPerInjection ==
    RegenerationSpec => []OneFindingPerEpisode
<1>1. ThermalInv => OneFindingPerEpisode
  <2> SUFFICES ASSUME ThermalInv, NEW k \in EventKinds
               PROVE  counts[k] <= IF k = "message_recovered" THEN 2 ELSE 1
    BY DEF OneFindingPerEpisode
  <2>1. counts[k] = Raised(k)
    BY DEF ThermalInv, ReportInv
  <2> QED BY <2>1 DEF Raised, EventKinds, Generator!OutageFindings
<1> QED BY <1>1, InjectedNodeInvariant, PTL

\* Each finding is dated where its injection puts it: at the frame that shows
\* it, or within the threshold of what is missed (_evaluate_timeouts,
\* _handle_decoded).
THEOREM FindingsMatchInjections ==
    RegenerationSpec => []FindingsAreDated
<1>1. ThermalInv => FindingsAreDated
  BY DEF ThermalInv, ReportInv
<1> QED BY <1>1, InjectedNodeInvariant, PTL

\* check_findings.py exits with zero: a capture raises the kinds of findings
\* that its injections declare (expected_findings of scenario.py) and no other.
THEOREM GroundTruth ==
    RegenerationSpec => []GroundTruthHolds
<1>1. ThermalInv /\ CaptureInv => GroundTruthHolds
  <2> SUFFICES ASSUME ThermalInv, CaptureInv, Reported
               PROVE  /\ ChecksOut
                      /\ (\E k \in Alerts : counts[k] > 0)
                             <=> scenario.injections # {}
    BY DEF GroundTruthHolds
  <2> DEFINE d == InjectedData
             b == InjectedBeat
             n == ThermalNode
  <2>1. ScenarioInv /\ ThermalOpen /\ ReportInv
    BY DEF ThermalInv
  <2>2. tick \in Nat /\ tick * 100 = scenario.duration
    BY Numbers DEF CaptureInv, Reported
  <2>3. Done(d) = tick - 1 /\ Done(b) = tick - 1
    <3>1. Len(capture) = 0
      BY DEF Reported
    <3>2. ~Pending(d) /\ ~Pending(b)
      BY <3>1 DEF Pending
    <3> QED BY <2>2, <3>2 DEF Done
  <2>4. \A k \in EventKinds : counts[k] = Raised(k)
    BY <2>1 DEF ReportInv
  <2>5. /\ \A m \in {d, b} : staleSince[m] # None => Out(Done(m))
        /\ silentSince[n] # None => staleSince[d] # None
    BY <2>1 DEF ThermalOpen
  <2> HIDE DEF d, b
  <2>6. EventKinds = {"data_message_stale", "heartbeat_timeout", "node_silent",
                      "message_recovered", "node_recovered", "node_restart",
                      "sequence_gap", "range_violation", "range_recovered",
                      "unknown_message_id"}
    BY DEF EventKinds, Generator!OutageFindings
  <2>7. Generator!OutageFindings = {"data_message_stale", "heartbeat_timeout",
                                    "node_silent", "message_recovered",
                                    "node_recovered"}
    BY DEF Generator!OutageFindings
  <2>8. CASE Faulty
    <3>1. /\ OutageStart = 300 /\ OutageEnd = 330 /\ ~Reboots
          /\ scenario.duration = 60000
          /\ scenario.injections = {Generator!RangeInjection,
                                    Generator!SilentInjection,
                                    Generator!SkipInjection}
      BY <2>1, <2>8, Scenes
    <3>2. Done(d) = 599 /\ Done(b) = 599 /\ ~Out(599)
      BY <2>2, <2>3, <3>1 DEF Out
    <3>3. \A k \in EventKinds :
              Raised(k) = IF k = "message_recovered" THEN 2
                          ELSE IF k \in {"node_restart", "unknown_message_id"} THEN 0
                          ELSE 1
      BY <2>6, <2>8, <3>1, <3>2 DEF Raised, d, b
    <3>4. ObservedKinds = EventKinds \ {"node_restart", "unknown_message_id"}
      BY <2>4, <3>3 DEF ObservedKinds
    <3>5. Generator!Expected(scenario) =
              {"range_violation", "range_recovered", "sequence_gap"}
              \cup Generator!OutageFindings
      BY <3>1, Injections DEF Generator!Expected
    <3>6. ObservedKinds = Generator!Expected(scenario)
      BY <2>6, <2>7, <3>4, <3>5
    <3>7. InjectedNodes \subseteq named
      <4>1. n \in named
        BY <2>1, <3>1, <3>2 DEF ReportInv, d
      <4>2. \A i \in scenario.injections : i.node = n
        BY <3>1, Injections
      <4> QED BY <4>1, <4>2 DEF InjectedNodes
    <3>8. "node_silent" \in Alerts /\ counts["node_silent"] > 0
      BY <2>4, <2>6, <3>3 DEF Alerts
    <3> QED BY <3>1, <3>6, <3>7, <3>8 DEF ChecksOut
  <2>9. CASE Reboots
    <3>1. /\ OutageStart = 100 /\ OutageEnd = 120 /\ ~Faulty
          /\ scenario.duration = 20000
          /\ scenario.injections = {Generator!RestartInjection}
      BY <2>1, <2>9, Scenes
    <3>2. Done(d) = 199 /\ Done(b) = 199 /\ ~Out(199)
      BY <2>2, <2>3, <3>1 DEF Out
    <3>3. \A k \in EventKinds :
              Raised(k) = IF k = "message_recovered" THEN 2
                          ELSE IF k \in {"sequence_gap", "range_violation",
                                         "range_recovered", "unknown_message_id"}
                          THEN 0 ELSE 1
      BY <2>6, <2>9, <3>1, <3>2 DEF Raised, d, b
    <3>4. ObservedKinds = EventKinds \ {"sequence_gap", "range_violation",
                                        "range_recovered", "unknown_message_id"}
      BY <2>4, <3>3 DEF ObservedKinds
    <3>5. Generator!Expected(scenario) =
              Generator!OutageFindings \cup {"node_restart"}
      BY <3>1, Injections DEF Generator!Expected
    <3>6. ObservedKinds = Generator!Expected(scenario)
      BY <2>6, <2>7, <3>4, <3>5
    <3>7. InjectedNodes \subseteq named
      <4>1. n \in named
        BY <2>1, <3>1, <3>2 DEF ReportInv, d
      <4>2. \A i \in scenario.injections : i.node = n
        BY <3>1, Injections
      <4> QED BY <4>1, <4>2 DEF InjectedNodes
    <3>8. "node_silent" \in Alerts /\ counts["node_silent"] > 0
      BY <2>4, <2>6, <3>3 DEF Alerts
    <3> QED BY <3>1, <3>6, <3>7, <3>8 DEF ChecksOut
  <2>10. CASE ~Faulty /\ ~Reboots
    <3>1. /\ OutageStart = 1000 /\ OutageEnd = 1000
          /\ scenario.duration = 10000 /\ scenario.injections = {}
      BY <2>1, <2>10, Scenes
    <3>2. Done(d) = 99 /\ Done(b) = 99 /\ ~Out(99)
      BY <2>2, <2>3, <3>1 DEF Out
    <3>3. /\ staleSince[d] = None /\ staleSince[b] = None
          /\ silentSince[n] = None
      BY <2>5, <3>2
    <3>4. \A k \in EventKinds : Raised(k) = 0
      BY <2>6, <2>10, <3>1, <3>2, <3>3 DEF Raised, d, b
    <3>5. \A k \in EventKinds : ~(counts[k] > 0)
      BY <2>4, <3>4
    <3>6. ObservedKinds = {} /\ Generator!Expected(scenario) = {}
      BY <3>1, <3>5 DEF ObservedKinds, Generator!Expected
    <3>7. InjectedNodes = {}
      BY <3>1 DEF InjectedNodes
    <3>8. \A k \in Alerts : ~(counts[k] > 0)
      BY <3>5 DEF Alerts
    <3> QED BY <3>1, <3>6, <3>7, <3>8 DEF ChecksOut
  <2> QED BY <2>8, <2>9, <2>10
<1>2. RegenerationInv => CaptureInv
  BY DEF RegenerationInv
<1> QED BY <1>1, <1>2, InjectedNodeInvariant, GeneratedCaptureInvariant, PTL
=============================================================================
