-------------------------------- MODULE Codec --------------------------------
(****************************************************************************)
(* can_protocol.c: how the nodes lay out their payloads in eight bytes, and *)
(* the layout that dbc/hobby_network.dbc gives the analyzer, which reads    *)
(* them through cantools.  The two were written independently.              *)
(****************************************************************************)
EXTENDS Integers, Sequences

CounterModulus == 256     \* CAN_PROTOCOL_COUNTER_MODULUS
MinTemperature == -400    \* CAN_PROTOCOL_TEMPERATURE_MIN_DECI_DEGC
MaxTemperature == 1500    \* CAN_PROTOCOL_TEMPERATURE_MAX_DECI_DEGC
MinVoltage     == 900     \* CAN_PROTOCOL_VOLTAGE_MIN_CENTIVOLTS
MaxVoltage     == 1600    \* CAN_PROTOCOL_VOLTAGE_MAX_CENTIVOLTS
Saturated      == 32767  \* CAN_PROTOCOL_SATURATED_TEMPERATURE_RAW

UInt8  == 0 .. 255
UInt16 == {v \in Nat : v < 65536}
Int16  == {v \in Int : -32768 <= v /\ v < 32768}
UInt32 == {v \in Nat : v < 4294967296}
Int32  == {v \in Int : -2147483648 <= v /\ v < 2147483648}

NodeStates   == 0 .. 3
FaultCodes   == 0 .. 1
ResetReasons == 0 .. 3

DataPayload ==
    [temperature : Int16, voltage : UInt16, nodeState : NodeStates,
     sequence : UInt8, faultCode : FaultCodes]

HeartbeatPayload ==
    [uptime : UInt32, nodeState : NodeStates, resetReason : ResetReasons]

Payload == [1 .. 8 -> UInt8]    \* uint8_t[CAN_PROTOCOL_DLC]

-----------------------------------------------------------------------------
Low(value)  == value % 256       \* value & 0xFF
High(value) == value \div 256    \* value >> 8

\* write_u16_le and write_u32_le
WriteU16(value) == <<Low(value), Low(High(value))>>
WriteU32(value) ==
    LET by8  == High(value)
        by16 == High(by8)
        by24 == High(by16)
    IN  <<Low(value), Low(by8), Low(by16), Low(by24)>>

\* read_u16_le and read_u32_le, from the byte at position first
ReadU16(frame, first) == frame[first] + 256 * frame[first + 1]
ReadU32(frame, first) ==
    frame[first] + 256 * (frame[first + 1]
        + 256 * (frame[first + 2] + 256 * frame[first + 3]))

\* The casts between int16_t and uint16_t.
ToUnsigned(value) == value % 65536
ToSigned(value) == IF value >= 32768 THEN value - 65536 ELSE value

EncodeData(p) ==
    LET temperature == WriteU16(ToUnsigned(p.temperature))
        voltage     == WriteU16(p.voltage)
    IN  <<temperature[1], temperature[2], voltage[1], voltage[2],
          p.nodeState, p.sequence, p.faultCode, 0>>

DecodeData(frame) ==
    [temperature |-> ToSigned(ReadU16(frame, 1)),
     voltage     |-> ReadU16(frame, 3),
     nodeState   |-> frame[5],
     sequence    |-> frame[6],
     faultCode   |-> frame[7]]

EncodeHeartbeat(p) ==
    LET uptime == WriteU32(p.uptime)
    IN  <<uptime[1], uptime[2], uptime[3], uptime[4],
          p.nodeState, p.resetReason, 0, 0>>

DecodeHeartbeat(frame) ==
    [uptime      |-> ReadU32(frame, 1),
     nodeState   |-> frame[5],
     resetReason |-> frame[6]]

-----------------------------------------------------------------------------
NextCounter(counter) == (counter + 1) % CounterModulus
AdvanceCounter(counter, steps) == (counter + steps) % CounterModulus

Clamped(value, low, high) ==
    IF value < low THEN low ELSE IF value > high THEN high ELSE value

ClampTemperature(value) == Clamped(value, MinTemperature, MaxTemperature)
ClampVoltage(value) == Clamped(value, MinVoltage, MaxVoltage)

TemperatureInRange(value) == value \in MinTemperature .. MaxTemperature
VoltageInRange(value) == value \in MinVoltage .. MaxVoltage

-----------------------------------------------------------------------------
(* The analyzer: signals start|length@1, little-endian, at byte boundaries. *)
(* With a scale of 0.1 or 0.01 the value of a signal is its raw value in    *)
(* the unit of the payload.                                                 *)

\* The raw value of the signal of length bits that starts at bit start.
Raw(frame, start, length) ==
    LET first == start \div 8 + 1
    IN  CASE length = 8  -> frame[first]
          [] length = 16 -> frame[first] + 256 * frame[first + 1]
          [] length = 32 -> frame[first] + 256 * (frame[first + 1]
                            + 256 * (frame[first + 2] + 256 * frame[first + 3]))

\* BO_ 384 POWER_DATA and BO_ 640 THERMAL_DATA
DataSignals(frame) ==
    [ModuleTemperature |-> ToSigned(Raw(frame, 0, 16)),
     SupplyVoltage     |-> Raw(frame, 16, 16),
     NodeState         |-> Raw(frame, 32, 8),
     SequenceCounter   |-> Raw(frame, 40, 8),
     FaultCode         |-> Raw(frame, 48, 8),
     Reserved          |-> Raw(frame, 56, 8)]

\* BO_ 385 POWER_HEARTBEAT and BO_ 641 THERMAL_HEARTBEAT
HeartbeatSignals(frame) ==
    [Uptime      |-> Raw(frame, 0, 32),
     NodeState   |-> Raw(frame, 32, 8),
     ResetReason |-> Raw(frame, 40, 8),
     Reserved    |-> Raw(frame, 48, 16)]

\* The distance that _check_sequence of monitor.py computes.
ForwardDistance(current, previous) == (current - previous - 1) % CounterModulus
=============================================================================
