------------------------------ MODULE Synthetic ------------------------------
(****************************************************************************)
(* synthetic.py: the model of each node that the generator runs, tick by    *)
(* tick, through a scenario.  The frames of a tick are stamped with the     *)
(* phase of their message and a jitter, and sorted.                         *)
(*                                                                          *)
(* generate_capture sorts the frames of all ticks at once.  Phases and      *)
(* jitter leave a frame between its tick and the next, so sorting the       *)
(* frames of each tick gives the same order, and no two of these get one    *)
(* time.  Measurements are within their bounds or saturated.                *)
(****************************************************************************)
EXTENDS Scenarios, Sequences

CONSTANTS
    DataMessage, HeartbeatMessage,  \* the two messages of each node
    Temperature,                    \* ModuleTemperature
    CounterModulus,                 \* COUNTER_MODULUS
    Jitter,                         \* what a frame may be early or late by
    Epoch                           \* CAPTURE_EPOCH

VARIABLES
    scenario,    \* the scenario of the capture
    tick,        \* tick_index
    model,       \* the state of the _NodeModel of each node
    capture      \* frames generated and not yet analyzed, in order

generatorVars == <<scenario, tick, model, capture>>

ScenarioNodes == {PowerNode, ThermalNode}

\* SCHEDULE_JITTER_S
MaxJitter == 4

DataPhase == [n \in ScenarioNodes |-> IF n = PowerNode THEN 0 ELSE 20]
HeartbeatPhase == [n \in ScenarioNodes |-> IF n = PowerNode THEN 50 ELSE 60]

-----------------------------------------------------------------------------
GeneratorInit ==
    /\ scenario \in AllScenarios
    /\ tick = 0
    /\ model = [n \in ScenarioNodes |->
                   [counter |-> 0, bootTick |-> 0, booted |-> FALSE]]
    /\ capture = <<>>

\* Mutant: an injection befalls both nodes.
ActiveOnAnyNode(kind, n) ==
    \E i \in scenario.injections :
        /\ i.kind = kind
        /\ Covers(i, tick * DataPeriod)

Active(kind, n) ==
    \E i \in scenario.injections :
        /\ i.kind = kind
        /\ i.node = n
        /\ Covers(i, tick * DataPeriod)

\* Mutant: a boot keeps the node's uptime.
BootedKeepingUptime(n) ==
    IF model[n].booted THEN model[n]
    ELSE [counter  |-> IF tick = 0 THEN model[n].counter ELSE 0,
          bootTick |-> model[n].bootTick,
          booted   |-> TRUE]

\* The node's state once it has booted, if it had to.
Booted(n) ==
    IF model[n].booted THEN model[n]
    ELSE [counter  |-> IF tick = 0 THEN model[n].counter ELSE 0,
          bootTick |-> tick,
          booted   |-> TRUE]

Counter(n) ==
    (Booted(n).counter + IF Active("skip", n) THEN SkipCount ELSE 0)
        % CounterModulus

LocalTick(n) == tick - Booted(n).bootTick

DataFrame(n) ==
    [message  |-> DataMessage[n],
     sequence |-> Counter(n),
     uptime   |-> None,
     value    |-> [s \in {Temperature} |->
                      IF Active("range", n) THEN "invalid" ELSE "valid"]]

HeartbeatFrame(n) ==
    [message  |-> HeartbeatMessage[n],
     sequence |-> None,
     uptime   |-> LocalTick(n) \div TicksPerHeartbeat,
     value    |-> [s \in {Temperature} |-> "absent"]]

\* The heartbeat of a boot is sent even by a silent node.
NodeFrames(n) ==
    LET sends == ~Active("silent", n)
        beats == LocalTick(n) # 0 /\ LocalTick(n) % TicksPerHeartbeat = 0
    IN  IF Active("restart", n) THEN {}
        ELSE (IF sends THEN {DataFrame(n)} ELSE {})
             \cup (IF ~model[n].booted \/ (sends /\ beats)
                   THEN {HeartbeatFrame(n)} ELSE {})

NodeAfter(n) ==
    IF Active("restart", n) THEN [model[n] EXCEPT !.booted = FALSE]
    ELSE IF Active("silent", n) THEN Booted(n)
    ELSE [Booted(n) EXCEPT !.counter = (Counter(n) + 1) % CounterModulus]

FramePhase(n, frame) ==
    IF frame.message = DataMessage[n] THEN DataPhase[n] ELSE HeartbeatPhase[n]

Stamped(n, jitter) ==
    {[frame |-> f,
      at    |-> Epoch + tick * DataPeriod + FramePhase(n, f) + jitter[<<n, f.message>>]]
        : f \in NodeFrames(n)}

\* A node sends at most each of its messages in a tick.
FramesPerTick == 2 + 2

\* The frames in the order of their times.
InOrder(frames) ==
    {s \in UNION {[1 .. k -> frames] : k \in 0 .. FramesPerTick} :
        /\ \A f \in frames : \E i \in DOMAIN s : s[i] = f
        /\ \A i, j \in DOMAIN s : i < j => s[i].at < s[j].at}

\* One round of the loop of generate_capture.
GenerateTick ==
    /\ tick * DataPeriod < scenario.duration
    /\ tick' = tick + 1
    /\ model' = [n \in ScenarioNodes |-> NodeAfter(n)]
    /\ \E jitter \in [UNION {{n} \X {f.message : f \in NodeFrames(n)} :
                                n \in ScenarioNodes} -> Jitter] :
          \E s \in InOrder(UNION {Stamped(n, jitter) : n \in ScenarioNodes}) :
              capture' = capture \o s
    /\ UNCHANGED scenario
=============================================================================
