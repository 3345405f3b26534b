----------------------------- MODULE InputProofs -----------------------------
(****************************************************************************)
(* What reaches the analyzer from outside.  The nodes and the analyzer      *)
(* agree on every payload, and on what a skipped counter means; and the     *)
(* monitor may assume of its thresholds what a file can say, but not what   *)
(* the command line can.                                                    *)
(****************************************************************************)
EXTENDS Codec, Config, TLAPS

\* The low byte and the rest make up a value, and a byte has no rest.
LEMMA LowAndHigh ==
    ASSUME NEW v \in Nat
    PROVE  /\ Low(v) \in UInt8
           /\ High(v) \in Nat
           /\ v = Low(v) + 256 * High(v)
           /\ v \in UInt8 => Low(v) = v
BY DEF Low, High, UInt8

\* Two bytes hold a value of 16 bits, and four one of 32.
LEMMA TwoBytes ==
    ASSUME NEW v \in UInt16
    PROVE  /\ WriteU16(v)[1] \in UInt8
           /\ WriteU16(v)[2] \in UInt8
           /\ WriteU16(v)[1] + 256 * WriteU16(v)[2] = v
<1>1. v \in Nat /\ v < 65536
  BY DEF UInt16
<1>2. High(v) \in UInt8
  <2>1. High(v) \in Nat /\ Low(v) \in UInt8 /\ v = Low(v) + 256 * High(v)
    BY <1>1, LowAndHigh
  <2> QED
    BY <1>1, <2>1, SMT DEF UInt8
<1>3. Low(High(v)) = High(v)
  <2>1. High(v) \in Nat
    BY <1>2 DEF UInt8
  <2> QED
    BY <1>2, <2>1, LowAndHigh
<1> QED
  BY <1>1, <1>2, <1>3, LowAndHigh DEF WriteU16

LEMMA FourBytes ==
    ASSUME NEW v \in UInt32
    PROVE  LET w == WriteU32(v)
           IN  /\ w[1] \in UInt8 /\ w[2] \in UInt8
               /\ w[3] \in UInt8 /\ w[4] \in UInt8
               /\ w[1] + 256 * (w[2] + 256 * (w[3] + 256 * w[4])) = v
<1> DEFINE a == High(v)
           b == High(a)
           c == High(b)
<1>1. v \in Nat /\ v < 4294967296
  BY DEF UInt32
<1>2. a \in Nat /\ v = Low(v) + 256 * a /\ Low(v) \in UInt8
  BY <1>1, LowAndHigh
<1>3. a < 16777216
  BY <1>1, <1>2 DEF UInt8
<1>4. b \in Nat /\ a = Low(a) + 256 * b /\ Low(a) \in UInt8
  BY <1>2, LowAndHigh
<1>5. b < 65536
  BY <1>2, <1>3, <1>4 DEF UInt8
<1>6. c \in Nat /\ b = Low(b) + 256 * c /\ Low(b) \in UInt8
  BY <1>4, LowAndHigh
<1>7. c \in UInt8
  BY <1>4, <1>5, <1>6 DEF UInt8
<1>8. Low(c) = c
  BY <1>6, <1>7, LowAndHigh
<1>9. WriteU32(v) = <<Low(v), Low(a), Low(b), c>>
  BY <1>8 DEF WriteU32
<1>10. v = Low(v) + 256 * (Low(a) + 256 * (Low(b) + 256 * c))
  BY <1>2, <1>4, <1>6
<1> HIDE DEF a, b, c
<1> QED
  BY <1>2, <1>4, <1>6, <1>7, <1>9, <1>10

\* An int16_t survives the way through uint16_t.
LEMMA SignedUnsigned ==
    ASSUME NEW v \in Int16
    PROVE  ToUnsigned(v) \in UInt16 /\ ToSigned(ToUnsigned(v)) = v
<1>1. CASE v >= 0
  <2>1. v \in Nat /\ v < 32768
    BY <1>1, SMT DEF Int16
  <2>2. ToUnsigned(v) = v
    BY <2>1, SMT DEF ToUnsigned
  <2> QED
    BY <2>1, <2>2, SMT DEF ToSigned, UInt16
<1>2. CASE v < 0
  <2>1. v \in Int /\ v < 0 /\ v + 65536 >= 32768
    BY <1>2, SMT DEF Int16
  <2>2. ToUnsigned(v) = v + 65536
    BY <2>1, SMT DEF ToUnsigned
  <2> QED
    BY <2>1, <2>2, SMT DEF ToSigned, UInt16
<1> QED
  BY <1>1, <1>2 DEF Int16

-----------------------------------------------------------------------------
\* Whatever a node puts into a data frame, eight bytes carry it, a node that
\* decodes them gets it back, and the analyzer reads the same from the layout
\* of the database, with nothing in the reserved byte.
THEOREM DataAgrees ==
    ASSUME NEW p \in DataPayload
    PROVE  /\ EncodeData(p) \in Payload
           /\ DecodeData(EncodeData(p)) = p
           /\ DataSignals(EncodeData(p)) =
                [ModuleTemperature |-> p.temperature,
                 SupplyVoltage     |-> p.voltage,
                 NodeState         |-> p.nodeState,
                 SequenceCounter   |-> p.sequence,
                 FaultCode         |-> p.faultCode,
                 Reserved          |-> 0]
<1> DEFINE t == WriteU16(ToUnsigned(p.temperature))
           u == WriteU16(p.voltage)
           e == EncodeData(p)
<1>1. /\ p.temperature \in Int16 /\ p.voltage \in UInt16
      /\ p.nodeState \in UInt8 /\ p.sequence \in UInt8
      /\ p.faultCode \in UInt8
  BY DEF DataPayload, NodeStates, FaultCodes, UInt8
<1>2. /\ t[1] \in UInt8 /\ t[2] \in UInt8
      /\ t[1] + 256 * t[2] = ToUnsigned(p.temperature)
  BY <1>1, SignedUnsigned, TwoBytes
<1>3. u[1] \in UInt8 /\ u[2] \in UInt8 /\ u[1] + 256 * u[2] = p.voltage
  BY <1>1, TwoBytes
<1>4. e = <<t[1], t[2], u[1], u[2], p.nodeState, p.sequence, p.faultCode, 0>>
  BY DEF EncodeData
<1> HIDE DEF t, u, e
<1>5. e \in Payload
  BY <1>1, <1>2, <1>3, <1>4 DEF Payload, UInt8
<1>6. ToSigned(e[1] + 256 * e[2]) = p.temperature
  BY <1>1, <1>2, <1>4, SignedUnsigned
<1>7. e[3] + 256 * e[4] = p.voltage
  BY <1>3, <1>4
<1>8. DecodeData(e) = p
  <2>1. DecodeData(e) = [temperature |-> p.temperature,
                         voltage     |-> p.voltage,
                         nodeState   |-> p.nodeState,
                         sequence    |-> p.sequence,
                         faultCode   |-> p.faultCode]
    BY <1>4, <1>6, <1>7 DEF DecodeData, ReadU16
  <2> QED
    BY <2>1 DEF DataPayload
<1>9. /\ Raw(e, 0, 16) = e[1] + 256 * e[2]
      /\ Raw(e, 16, 16) = e[3] + 256 * e[4]
      /\ Raw(e, 32, 8) = e[5] /\ Raw(e, 40, 8) = e[6]
      /\ Raw(e, 48, 8) = e[7] /\ Raw(e, 56, 8) = e[8]
  BY DEF Raw
<1>10. DataSignals(e) =
           [ModuleTemperature |-> p.temperature,
            SupplyVoltage     |-> p.voltage,
            NodeState         |-> p.nodeState,
            SequenceCounter   |-> p.sequence,
            FaultCode         |-> p.faultCode,
            Reserved          |-> 0]
  BY <1>4, <1>6, <1>7, <1>9 DEF DataSignals
<1> QED
  BY <1>5, <1>8, <1>10 DEF e

\* The same of a heartbeat; the uptime takes its four bytes.
THEOREM HeartbeatAgrees ==
    ASSUME NEW p \in HeartbeatPayload
    PROVE  /\ EncodeHeartbeat(p) \in Payload
           /\ DecodeHeartbeat(EncodeHeartbeat(p)) = p
           /\ HeartbeatSignals(EncodeHeartbeat(p)) =
                [Uptime      |-> p.uptime,
                 NodeState   |-> p.nodeState,
                 ResetReason |-> p.resetReason,
                 Reserved    |-> 0]
<1> DEFINE u == WriteU32(p.uptime)
           e == EncodeHeartbeat(p)
<1>1. /\ p.uptime \in UInt32
      /\ p.nodeState \in UInt8 /\ p.resetReason \in UInt8
  BY DEF HeartbeatPayload, NodeStates, ResetReasons, UInt8
<1>2. /\ u[1] \in UInt8 /\ u[2] \in UInt8 /\ u[3] \in UInt8 /\ u[4] \in UInt8
      /\ u[1] + 256 * (u[2] + 256 * (u[3] + 256 * u[4])) = p.uptime
  BY <1>1, FourBytes
<1>3. e = <<u[1], u[2], u[3], u[4], p.nodeState, p.resetReason, 0, 0>>
  BY DEF EncodeHeartbeat
<1> HIDE DEF u, e
<1>4. e \in Payload
  BY <1>1, <1>2, <1>3 DEF Payload, UInt8
<1>5. e[1] + 256 * (e[2] + 256 * (e[3] + 256 * e[4])) = p.uptime
  BY <1>2, <1>3
<1>6. DecodeHeartbeat(e) = p
  <2>1. DecodeHeartbeat(e) = [uptime      |-> p.uptime,
                              nodeState   |-> p.nodeState,
                              resetReason |-> p.resetReason]
    BY <1>3, <1>5 DEF DecodeHeartbeat, ReadU32
  <2> QED
    BY <2>1 DEF HeartbeatPayload
<1>7. /\ Raw(e, 0, 32) = e[1] + 256 * (e[2] + 256 * (e[3] + 256 * e[4]))
      /\ Raw(e, 32, 8) = e[5] /\ Raw(e, 40, 8) = e[6]
      /\ Raw(e, 48, 16) = e[7] + 256 * e[8]
  BY DEF Raw
<1>8. HeartbeatSignals(e) = [Uptime      |-> p.uptime,
                             NodeState   |-> p.nodeState,
                             ResetReason |-> p.resetReason,
                             Reserved    |-> 0]
  BY <1>3, <1>5, <1>7 DEF HeartbeatSignals
<1> QED
  BY <1>4, <1>6, <1>8 DEF e

\* The gap that the analyzer computes is the number of counter values that the
\* node skipped, over the wrap as well: none after can_protocol_next_counter,
\* and steps after an advance by steps.
THEOREM SkipIsTheGap ==
    ASSUME NEW counter \in UInt8, NEW steps \in UInt8
    PROVE  /\ ForwardDistance(NextCounter(counter), counter) = 0
           /\ ForwardDistance(AdvanceCounter(NextCounter(counter), steps),
                              counter) = steps
BY DEF ForwardDistance, NextCounter, AdvanceCounter, CounterModulus, UInt8

\* An advance is the next counter, steps times over.
THEOREM AdvanceIsRepeatedNext ==
    ASSUME NEW counter \in UInt8, NEW steps \in UInt8
    PROVE  /\ AdvanceCounter(counter, 0) = counter
           /\ steps + 1 \in UInt8 =>
                AdvanceCounter(counter, steps + 1) =
                    NextCounter(AdvanceCounter(counter, steps))
BY DEF NextCounter, AdvanceCounter, CounterModulus, UInt8

\* Every measurement is sent as a value within bounds that fits its field, and
\* is not changed if it is within them; the saturated reading is not within
\* them, so a frame that carries it is found out.
THEOREM MeasurementsAreWithinBounds ==
    ASSUME NEW value \in Int32
    PROVE  /\ ClampTemperature(value) \in Int16
           /\ TemperatureInRange(ClampTemperature(value))
           /\ TemperatureInRange(value) => ClampTemperature(value) = value
           /\ ClampVoltage(value) \in UInt16
           /\ VoltageInRange(ClampVoltage(value))
           /\ VoltageInRange(value) => ClampVoltage(value) = value
           /\ ~TemperatureInRange(Saturated)
BY DEF ClampTemperature, ClampVoltage, Clamped, TemperatureInRange,
       VoltageInRange, MinTemperature, MaxTemperature, MinVoltage, MaxVoltage,
       Saturated, Int32, Int16, UInt16

-----------------------------------------------------------------------------
(* The configuration.                                                       *)

\* What Monitor assumes of its configuration, as ConfigAssumption.
Sound(config) ==
    /\ \A m \in Messages : StaleThreshold(config, m) \in Nat \ {0}
    /\ config.restartSuppression \in Nat \ {0}
    /\ config.maxGap \in Nat \ {0}

LEMMA DefaultIsSound == Sound(Default)
BY DEF Sound, Default, StaleThreshold, DefaultDataStale,
       DefaultHeartbeatStale, DefaultRestartSuppression,
       DefaultMaxReportableGap

\* A file that is accepted has no threshold that is not positive.
LEMMA AcceptedIsSound ==
    ASSUME NEW s \in Section, ValuesCoerce(s)
    PROVE  /\ Sound(FromMapping(s))
           /\ FromMapping(s).data \in Nat \ {0}
           /\ FromMapping(s).heartbeat \in Nat \ {0}
<1>1. ASSUME NEW k \in PositiveKeys, NEW d \in Nat \ {0}
      PROVE  Given(s, k, d) \in Nat \ {0}
  <2>1. CASE k \in s.keys
    <3>1. Coerces(s.value[k])
      BY <2>1 DEF ValuesCoerce
    <3>2. s.value[k].int \in Int
      BY DEF Section, Value
    <3> QED
      BY <2>1, <3>1, <3>2 DEF Given, Coerces
  <2>2. CASE k \notin s.keys
    BY <2>2 DEF Given
  <2> QED
    BY <2>1, <2>2
<1>2. ASSUME NEW m \in s.named
      PROVE  m \in Messages /\ s.stale[m].int \in Nat \ {0}
  <2>1. m \in Messages /\ s.stale[m].int \in Int
    BY DEF Section, Value
  <2>2. s.stale[m].int > 0
    BY DEF ValuesCoerce, Coerces
  <2> QED
    BY <2>1, <2>2
<1> DEFINE c == FromMapping(s)
<1>3. /\ c.data \in Nat \ {0}
      /\ c.heartbeat \in Nat \ {0}
      /\ c.restartSuppression \in Nat \ {0}
      /\ c.maxGap \in Nat \ {0}
  <2>1. Given(s, "data_stale_ms", DefaultDataStale) \in Nat \ {0}
    BY <1>1 DEF PositiveKeys, DefaultDataStale
  <2>2. Given(s, "heartbeat_stale_ms", DefaultHeartbeatStale) \in Nat \ {0}
    BY <1>1 DEF PositiveKeys, DefaultHeartbeatStale
  <2>3. Given(s, "restart_suppression_ms", DefaultRestartSuppression)
            \in Nat \ {0}
    BY <1>1 DEF PositiveKeys, DefaultRestartSuppression
  <2>4. Given(s, "max_reportable_gap", DefaultMaxReportableGap) \in Nat \ {0}
    BY <1>1 DEF PositiveKeys, DefaultMaxReportableGap
  <2> QED
    BY <2>1, <2>2, <2>3, <2>4 DEF FromMapping
<1>4. c.named = s.named /\ \A m \in Messages : c.stale[m] = s.stale[m].int
  BY DEF FromMapping
<1> HIDE DEF c
<1>5. \A m \in Messages : StaleThreshold(c, m) \in Nat \ {0}
  BY <1>2, <1>3, <1>4 DEF StaleThreshold
<1> QED
  BY <1>3, <1>5 DEF Sound, c

LEMMA FromMappingIsConfig ==
    ASSUME NEW s \in Section
    PROVE  FromMapping(s) \in AnalyzerConfig
<1>1. /\ s.named \in SUBSET Messages
      /\ \A k \in PositiveKeys : s.value[k].int \in Int
      /\ \A m \in Messages : s.stale[m].int \in Int
  BY DEF Section, Value
<1>2. /\ Given(s, "data_stale_ms", DefaultDataStale) \in Int
      /\ Given(s, "heartbeat_stale_ms", DefaultHeartbeatStale) \in Int
      /\ Given(s, "restart_suppression_ms", DefaultRestartSuppression) \in Int
      /\ Given(s, "max_reportable_gap", DefaultMaxReportableGap) \in Int
  BY <1>1 DEF Given, PositiveKeys, DefaultDataStale, DefaultHeartbeatStale,
              DefaultRestartSuppression, DefaultMaxReportableGap
<1> QED
  BY <1>1, <1>2 DEF FromMapping, AnalyzerConfig

\* The files that there may be.
File == Section \cup {None, Unreadable, Malformed}

\* The four outcomes are told apart.
OutcomesDiffer ==
    /\ Unreadable # None /\ Malformed \notin {None, Unreadable}
    /\ Section \cap {None, Unreadable, Malformed} = {}
    /\ Rejected # Escaped
    /\ AnalyzerConfig \cap {Rejected, Escaped} = {}

\* Whenever load_config returns, whatever the file, the monitor can work with
\* the configuration: config.py:82-115 lets no threshold through that is not a
\* positive integer.  That it may raise instead, and what, is the next theorem.
THEOREM LoadedIsSound ==
    ASSUME NEW file \in File, LoadConfig(file) \notin {Rejected, Escaped}
    PROVE  Sound(LoadConfig(file))
<1>1. CASE file = None
  BY <1>1, DefaultIsSound DEF LoadConfig
<1>2. CASE file # None
  <2>1. file \notin {Unreadable, Malformed}
    BY <1>2 DEF LoadConfig
  <2>2. file \in Section /\ LoadConfig(file) = ConfigFromMapping(file)
    BY <1>2, <2>1 DEF File, LoadConfig
  <2>3. ValuesCoerce(file) /\ ConfigFromMapping(file) = FromMapping(file)
    BY <2>2 DEF ConfigFromMapping
  <2> QED
    BY <2>2, <2>3, AcceptedIsSound
<1> QED
  BY <1>1, <1>2

\* The errors of a file are not all reported as such: load_config raises what
\* main does not catch (cli.py:423-430) exactly for a file that cannot be read
\* or decoded (config.py:124, 127, 132) and for one whose keys are all known but
\* whose message_stale_ms dict() does not take (config.py:95).
THEOREM WhatEscapes ==
    ASSUME OutcomesDiffer, NEW file \in File
    PROVE  LoadConfig(file) = Escaped <=>
               \/ file = Unreadable
               \/ file \in Section /\ OnlyKnownKeys(file) /\ ~file.isMapping
<1>1. CASE file \in {None, Unreadable, Malformed}
  <2>1. Default # Escaped
    <3>1. Default \in AnalyzerConfig
      BY DEF Default, AnalyzerConfig, DefaultDataStale, DefaultHeartbeatStale,
             DefaultRestartSuppression, DefaultMaxReportableGap
    <3> QED
      BY <3>1 DEF OutcomesDiffer
  <2> QED
    BY <1>1, <2>1 DEF OutcomesDiffer, LoadConfig
<1>2. CASE file \in Section
  <2>1. LoadConfig(file) = ConfigFromMapping(file) /\ file # Unreadable
    BY <1>2 DEF OutcomesDiffer, LoadConfig
  <2>2. FromMapping(file) # Escaped
    <3>1. FromMapping(file) \in AnalyzerConfig
      BY <1>2, FromMappingIsConfig
    <3> QED
      BY <3>1 DEF OutcomesDiffer
  <2> QED
    BY <1>2, <2>1, <2>2 DEF OutcomesDiffer, ConfigFromMapping
<1> QED
  BY <1>1, <1>2 DEF File

\* The options of the command line keep it so if they are positive.
THEOREM PositiveOverridesAreSound ==
    ASSUME NEW config, config \in AnalyzerConfig, Sound(config),
           NEW data \in (Nat \ {0}) \cup {None},
           NEW heartbeat \in (Nat \ {0}) \cup {None}
    PROVE  Sound(WithOverrides(config, data, heartbeat))
<1> DEFINE c == WithOverrides(config, data, heartbeat)
<1>1. /\ c.named = config.named /\ c.stale = config.stale
      /\ c.restartSuppression = config.restartSuppression
      /\ c.maxGap = config.maxGap
      /\ c.data = IF data = None THEN config.data ELSE data
      /\ c.heartbeat = IF heartbeat = None THEN config.heartbeat
                       ELSE heartbeat
  BY DEF WithOverrides, AnalyzerConfig
<1> HIDE DEF c
<1>2. ASSUME NEW m \in Messages
      PROVE  StaleThreshold(c, m) \in Nat \ {0}
  <2>1. StaleThreshold(config, m) \in Nat \ {0}
    BY DEF Sound
  <2>2. CASE m \in config.named
    BY <1>1, <2>1, <2>2 DEF StaleThreshold
  <2>3. CASE m \notin config.named /\ m \in Heartbeats
    BY <1>1, <2>1, <2>3 DEF StaleThreshold
  <2>4. CASE m \notin config.named /\ m \notin Heartbeats
    BY <1>1, <2>1, <2>4 DEF StaleThreshold
  <2> QED
    BY <2>2, <2>3, <2>4
<1> QED
  BY <1>1, <1>2 DEF Sound, c

\* But no check is made of them: an option that is not positive, which a file
\* could not have, becomes the threshold of every data message that the file
\* does not name, and the monitor's assumption is broken.
THEOREM OverridesAreNotChecked ==
    ASSUME NEW config \in AnalyzerConfig,
           NEW data \in Int, data <= 0, data # None, NEW heartbeat,
           NEW m \in Messages \ Heartbeats, m \notin config.named
    PROVE  ~Sound(WithOverrides(config, data, heartbeat))
<1> DEFINE c == WithOverrides(config, data, heartbeat)
<1>1. c.named = config.named /\ c.data = data
  BY DEF WithOverrides, AnalyzerConfig
<1> HIDE DEF c
<1>2. StaleThreshold(c, m) = data
  BY <1>1 DEF StaleThreshold
<1>3. data \notin Nat \ {0}
  OBVIOUS
<1>4. ~Sound(c)
  BY <1>2, <1>3 DEF Sound
<1> QED
  BY <1>4 DEF c
=============================================================================
