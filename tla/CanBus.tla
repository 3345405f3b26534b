------------------------------- MODULE CanBus -------------------------------
(****************************************************************************)
(* The firmware's bus wrapper, can_bus.c, over the TWAI driver of ESP-IDF.  *)
(* The wrapper starts the driver, queues frames for it, and is called once  *)
(* per loop iteration to bring a controller that went bus-off back: bus-off *)
(* is answered by initiating recovery, and the stopped state that follows   *)
(* recovery by starting the driver again.                                   *)
(*                                                                          *)
(* Only the number of queued frames is kept, and no statistics.             *)
(****************************************************************************)
EXTENDS Integers

CONSTANT QueueLength    \* CAN_BUS_TX_QUEUE_LENGTH

VARIABLES
    started,   \* s_started
    driver,    \* twai_status_info_t.state, or "absent" before installation
    queued     \* frames in the driver's transmit queue

busVars == <<started, driver, queued>>

DriverStates == {"absent", "running", "bus off", "recovering", "stopped"}

ASSUME QueueAssumption == QueueLength \in Nat \ {0}

BusTypeOK ==
    /\ started \in BOOLEAN
    /\ driver \in DriverStates
    /\ queued \in 0 .. QueueLength

BusInit ==
    /\ started = FALSE
    /\ driver = "absent"
    /\ queued = 0

\* What a reset of the chip leaves.
BusReset ==
    /\ started' = FALSE
    /\ driver' = "absent"
    /\ queued' = 0

-----------------------------------------------------------------------------
(* The wrapper.                                                             *)

\* can_bus_start returns ESP_OK.
BusStarts ==
    /\ started' = TRUE
    /\ driver' = "running"
    /\ queued' = 0

\* can_bus_start returns an error; a driver it could not start it uninstalls.
BusStartFails == UNCHANGED busVars

\* can_bus_transmit returns ESP_OK: the frame is queued, not yet sent.
Transmit ==
    /\ started
    /\ driver = "running"
    /\ queued < QueueLength
    /\ queued' = queued + 1
    /\ UNCHANGED <<started, driver>>

\* can_bus_transmit returns an error: the driver is not running, or the queue
\* stayed full for timeout_ms.
TransmitFails ==
    /\ ~started \/ driver # "running" \/ queued = QueueLength
    /\ UNCHANGED busVars

\* Mutant: recovery is initiated, but the driver is not started after it.
ServiceWithoutStart ==
    \/ /\ started /\ driver = "bus off"
       /\ driver' = "recovering"
       /\ queued' = 0
       /\ UNCHANGED started
    \/ /\ ~(started /\ driver = "bus off")
       /\ UNCHANGED busVars

\* can_bus_service.  The driver accepts a recovery when it is bus-off and a
\* start when it is stopped; nothing else acts on it in between.
Service ==
    \/ /\ started /\ driver = "bus off"
       /\ driver' = "recovering"
       /\ queued' = 0
       /\ UNCHANGED started
    \/ /\ started /\ driver = "stopped"
       /\ driver' = "running"
       /\ UNCHANGED <<started, queued>>
    \/ /\ ~(started /\ driver \in {"bus off", "stopped"})
       /\ UNCHANGED busVars

-----------------------------------------------------------------------------
(* The controller and the bus.                                              *)

SendQueued ==
    /\ driver = "running"
    /\ queued > 0
    /\ queued' = queued - 1
    /\ UNCHANGED <<started, driver>>

GoBusOff ==
    /\ driver = "running"
    /\ driver' = "bus off"
    /\ UNCHANGED <<started, queued>>

\* 128 times eleven recessive bits have been seen.
CompleteRecovery ==
    /\ driver = "recovering"
    /\ driver' = "stopped"
    /\ UNCHANGED <<started, queued>>
=============================================================================
