---------------------------- MODULE PowerMonitor ----------------------------
(****************************************************************************)
(* The power monitor's firmware, power_monitor_main.c: one task that sends  *)
(* a heartbeat when it boots, then a data frame every period and a          *)
(* heartbeat every BeatTicks periods.  A frame that the bus wrapper accepts *)
(* waits in the driver's queue, tx, until the controller sends it.          *)
(*                                                                          *)
(* Measurements are clamped into their bounds before they are encoded: a    *)
(* frame carries Reading, whatever it is.  Statistics are left out.         *)
(****************************************************************************)
EXTENDS Integers, Sequences

CONSTANTS
    PowerData, PowerBeat,  \* CAN_ID_POWER_DATA, CAN_ID_POWER_HEARTBEAT
    Reading,               \* the measured signals of a frame, within bounds
    BeatTicks,             \* POWER_TICKS_PER_HEARTBEAT
    IndexModulus,          \* s_tick_index counts modulo this
    CounterModulus,        \* CAN_PROTOCOL_COUNTER_MODULUS
    QueueLength,           \* CAN_BUS_TX_QUEUE_LENGTH
    None                   \* a field the message does not have

VARIABLES
    at,               \* where app_main is
    sequence,         \* s_sequence_counter
    tickIndex,        \* s_tick_index
    started, driver,  \* see CanBus
    tx,               \* the driver's transmit queue, of frames and numbers
    built             \* history: data frames built since the node booted

programVars == <<at, sequence, tickIndex, built>>
powerVars   == <<programVars, started, driver, tx>>

Bus == INSTANCE CanBus WITH queued <- Len(tx)

-----------------------------------------------------------------------------
\* The static variables are zero, and app_main is about to run.
PowerInit ==
    /\ at = "start bus"
    /\ sequence = 0 /\ tickIndex = 0 /\ built = 0
    /\ started = FALSE /\ driver = "absent" /\ tx = <<>>

\* Mutant: the tick index survives the reset, and with it the uptime.
PowerCycleKeepingTicks ==
    /\ at' = "start bus"
    /\ sequence' = 0 /\ built' = 0
    /\ tx' = <<>>
    /\ Bus!BusReset
    /\ UNCHANGED tickIndex

\* Power is lost and comes back, at any moment.
PowerCycle ==
    /\ at' = "start bus"
    /\ sequence' = 0 /\ tickIndex' = 0 /\ built' = 0
    /\ tx' = <<>>
    /\ Bus!BusReset

\* can_bus_transmit takes the frame into the queue, or fails and drops it.
Accepts(frame) ==
    /\ tx' = Append(tx, [frame |-> frame, number |-> built])
    /\ Bus!Transmit

Refuses ==
    /\ UNCHANGED tx
    /\ Bus!TransmitFails

Send(frame) == Accepts(frame) \/ Refuses

DataFrame ==
    [message |-> PowerData, sequence |-> sequence, uptime |-> None,
     value |-> Reading]

Heartbeat ==
    [message |-> PowerBeat, sequence |-> None,
     uptime |-> tickIndex \div BeatTicks, value |-> Reading]

-----------------------------------------------------------------------------
(* app_main.                                                                *)

StartBus ==
    /\ at = "start bus"
    /\ UNCHANGED tx
    /\ \/ Bus!BusStarts /\ at' = "boot beat"
       \/ Bus!BusStartFails /\ at' = "dead"
    /\ UNCHANGED <<sequence, tickIndex, built>>

BootBeat ==
    /\ at = "boot beat"
    /\ Send(Heartbeat)
    /\ at' = "service"
    /\ UNCHANGED <<sequence, tickIndex, built>>

\* Initiating recovery empties the queue.
ServiceBus ==
    /\ at = "service"
    /\ tx' = IF started /\ driver = "bus off" THEN <<>> ELSE tx
    /\ Bus!Service
    /\ at' = "data"
    /\ UNCHANGED <<sequence, tickIndex, built>>

BeatDue == tickIndex # 0 /\ tickIndex % BeatTicks = 0

\* Mutant: the counter advances only for a frame the queue accepts.
SendDataCountingAccepted ==
    /\ at = "data"
    /\ \/ /\ Accepts(DataFrame)
          /\ sequence' = (sequence + 1) % CounterModulus
       \/ /\ Refuses
          /\ UNCHANGED sequence
    /\ built' = built + 1
    /\ at' = IF BeatDue THEN "beat" ELSE "next"
    /\ UNCHANGED tickIndex

\* The counter advances also when the frame is refused.
SendData ==
    /\ at = "data"
    /\ Send(DataFrame)
    /\ sequence' = (sequence + 1) % CounterModulus
    /\ built' = built + 1
    /\ at' = IF BeatDue THEN "beat" ELSE "next"
    /\ UNCHANGED tickIndex

SendBeat ==
    /\ at = "beat"
    /\ Send(Heartbeat)
    /\ at' = "next"
    /\ UNCHANGED <<sequence, tickIndex, built>>

EndIteration ==
    /\ at = "next"
    /\ tickIndex' = (tickIndex + 1) % IndexModulus
    /\ at' = "delay"
    /\ UNCHANGED <<sequence, built, started, driver, tx>>

\* xTaskDelayUntil returns.
Wake ==
    /\ at = "delay"
    /\ at' = "service"
    /\ UNCHANGED <<sequence, tickIndex, built, started, driver, tx>>

AppMain ==
    \/ StartBus \/ BootBeat \/ ServiceBus \/ SendData \/ SendBeat
    \/ EndIteration

-----------------------------------------------------------------------------
\* The oldest frame leaves the queue for the bus.
SendQueued ==
    /\ tx # <<>>
    /\ tx' = Tail(tx)
    /\ Bus!SendQueued
    /\ UNCHANGED programVars

Controller ==
    /\ UNCHANGED <<programVars, tx>>
    /\ Bus!GoBusOff \/ Bus!CompleteRecovery

PowerNext == PowerCycle \/ AppMain \/ Wake \/ SendQueued \/ Controller

PowerSpec == PowerInit /\ [][PowerNext]_powerVars
=============================================================================
