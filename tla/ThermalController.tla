-------------------------- MODULE ThermalController --------------------------
(****************************************************************************)
(* The thermal controller's firmware, thermal_controller_main.c: the main   *)
(* task, which transmits a data frame every period and a heartbeat every    *)
(* BeatTicks periods, and the command task, which takes one command at a    *)
(* time from the console.  The tasks share the injection state under a      *)
(* lock, and the FreeRTOS tick counter, which wraps.                        *)
(*                                                                          *)
(* A step of a task is what it does between two points where the other may  *)
(* run to an effect.  The console's bytes, the payload's measurements and   *)
(* the statistics are left out.                                             *)
(****************************************************************************)
EXTENDS CanBus

CONSTANTS
    TickModulus,     \* TickType_t counts modulo this
    Period,          \* clock ticks between two iterations of the main loop
    BeatTicks,       \* THERMAL_TICKS_PER_HEARTBEAT
    IndexModulus,    \* s_tick_index counts modulo this
    CounterModulus,  \* CAN_PROTOCOL_COUNTER_MODULUS
    Durations,       \* clock ticks an injection may be ordered for
    Skips,           \* steps a skip may be ordered for
    MaxCommands,     \* bound: commands given
    None             \* THERMAL_INJECTION_NONE, and the absence of a value

VARIABLES
    clock,         \* xTaskGetTickCount()
    phase,         \* clock ticks since the main loop last woke
    mainAt,        \* where the main task is
    commandAt,     \* where the command task is
    command,       \* the command being executed
    commands,      \* commands given so far
    lock,          \* holder of s_state_lock
    mode,          \* s_injection_mode
    deadline,      \* s_injection_deadline
    pendingSkip,   \* s_pending_counter_skip
    injection,     \* the main loop's injection
    steps,         \* take_counter_skip's steps
    sequence,      \* s_sequence_counter
    tickIndex,     \* s_tick_index
    dataFrame,     \* the data frame of this iteration, once it is sent
    beatFrame,     \* the heartbeat of this iteration, once it is sent
    ordered, left, \* history: the condition in force, and its time left
    owed           \* history: the skip ordered last and not applied

timeVars    == <<clock, phase, ordered, left>>
commandVars == <<commandAt, command, commands>>
sharedVars  == <<lock, mode, deadline, pendingSkip, owed>>
loopVars    == <<injection, steps, sequence, tickIndex, dataFrame, beatFrame>>
nodeVars    == <<busVars, timeVars, mainAt, commandVars, sharedVars, loopVars>>

Conditions == {"range", "silent"}
Commands ==
    [verb : Conditions, count : Durations]
    \cup [verb : {"skip"}, count : Skips]
    \cup [verb : {"normal", "restart"}, count : {None}]

ASSUME ClockAssumption ==
    /\ Period \in Nat \ {0}
    /\ TickModulus \in Nat \ {0}
    /\ Durations \subseteq Nat \ {0}
    /\ \A d \in Durations : 2 * d < TickModulus
    /\ 4 * Period < TickModulus

ASSUME CounterAssumption ==
    /\ {BeatTicks, IndexModulus, CounterModulus} \subseteq Nat \ {0}
    /\ Skips \subseteq Nat \ {0}
    /\ MaxCommands \in Nat
    /\ None \notin Nat \cup Conditions \cup {"main", "command"}

\* Where no command can come: only differences of times matter, so the clock
\* need not run there.
Untimed == {"start bus", "start commands", "dead"}

-----------------------------------------------------------------------------
\* The static variables are zero, and app_main is about to run.
ThermalInit ==
    /\ BusInit
    /\ commands = 0
    /\ clock = 0 /\ phase = 0 /\ left = 0
    /\ mainAt = "start bus" /\ commandAt = "absent" /\ command = None
    /\ lock = None /\ mode = None /\ deadline = 0 /\ pendingSkip = 0
    /\ ordered = None /\ owed = 0
    /\ injection = None /\ steps = 0 /\ sequence = 0 /\ tickIndex = 0
    /\ dataFrame = None /\ beatFrame = None

\* A reset of the chip, after which it boots again.
Reboot ==
    /\ BusReset
    /\ clock' = 0 /\ phase' = 0 /\ left' = 0
    /\ mainAt' = "start bus" /\ commandAt' = "absent" /\ command' = None
    /\ lock' = None /\ mode' = None /\ deadline' = 0 /\ pendingSkip' = 0
    /\ ordered' = None /\ owed' = 0
    /\ injection' = None /\ steps' = 0 /\ sequence' = 0 /\ tickIndex' = 0
    /\ dataFrame' = None /\ beatFrame' = None

\* The tick interrupt.  The boot heartbeat and an iteration of the main loop
\* each take less than a period, so time does not pass the next wake while one
\* is under way; the loop waits in xTaskDelayUntil.
Tick ==
    /\ clock' = (clock + 1) % TickModulus
    /\ left' = IF left > 0 THEN left - 1 ELSE 0
    /\ ordered' = IF left' = 0 THEN None ELSE ordered
    /\ mainAt \notin Untimed
    /\ \/ /\ phase < Period - 1
          /\ phase' = phase + 1
          /\ UNCHANGED mainAt
       \/ /\ mainAt = "delay"
          /\ phase = Period - 1
          /\ phase' = 0
          /\ mainAt' = "enter"
    /\ UNCHANGED <<busVars, commandVars, sharedVars, loopVars>>

-----------------------------------------------------------------------------
(* app_main up to the loop.                                                 *)

StartBus ==
    /\ mainAt = "start bus"
    /\ \/ BusStarts /\ mainAt' = "start commands"
       \/ BusStartFails /\ mainAt' = "dead"
    /\ UNCHANGED <<timeVars, commandVars, sharedVars, loopVars>>

StartCommands ==
    /\ mainAt = "start commands"
    /\ \/ commandAt' = "idle" /\ mainAt' = "boot beat"
       \/ mainAt' = "dead" /\ UNCHANGED commandAt
    /\ UNCHANGED <<busVars, timeVars, command, commands, sharedVars, loopVars>>

\* The heartbeat before the loop; s_tick_index and so the uptime are zero.
BootBeat ==
    /\ mainAt = "boot beat"
    /\ Transmit \/ TransmitFails
    /\ phase' = 0
    /\ mainAt' = "enter"
    /\ UNCHANGED <<clock, ordered, left, commandVars, sharedVars, loopVars>>

-----------------------------------------------------------------------------
(* The main loop.                                                           *)

MainLocks(from, to) ==
    /\ mainAt = from
    /\ lock = None
    /\ lock' = "main"
    /\ mainAt' = to
    /\ UNCHANGED <<busVars, timeVars, commandVars, mode, deadline, pendingSkip,
                   owed, loopVars>>

\* active_injection, between lock_state and unlock_state
EnterInjection == MainLocks("enter", "read")

\* Mutants: an unsigned comparison; a comparison that a late look misses.
DeadlineBehind == clock >= deadline
DeadlineMet == clock = deadline

\* The difference read as a signed integer is not negative.
DeadlinePassed == 2 * ((clock - deadline) % TickModulus) < TickModulus

ReadInjection ==
    /\ mainAt = "read"
    /\ mode' = IF mode # None /\ DeadlinePassed THEN None ELSE mode
    /\ injection' = mode'
    /\ lock' = None
    /\ mainAt' = "service"
    /\ UNCHANGED <<busVars, timeVars, commandVars, deadline, pendingSkip, owed,
                   steps, sequence, tickIndex, dataFrame, beatFrame>>

ServiceBus ==
    /\ mainAt = "service"
    /\ Service
    /\ mainAt' = IF injection = "silent" THEN "next" ELSE "enter skip"
    /\ UNCHANGED <<timeVars, commandVars, sharedVars, loopVars>>

\* take_counter_skip, between lock_state and unlock_state
EnterSkip == MainLocks("enter skip", "read skip")

ReadSkip ==
    /\ mainAt = "read skip"
    /\ steps' = pendingSkip
    /\ owed' = 0
    /\ mainAt' = "clear skip"
    /\ UNCHANGED <<busVars, timeVars, commandVars, lock, mode, deadline,
                   pendingSkip, injection, sequence, tickIndex,
                   dataFrame, beatFrame>>

ClearSkip ==
    /\ mainAt = "clear skip"
    /\ pendingSkip' = 0
    /\ lock' = None
    /\ mainAt' = "data"
    /\ UNCHANGED <<busVars, timeVars, commandVars, mode, deadline, owed,
                   loopVars>>

BeatDue == tickIndex # 0 /\ tickIndex % BeatTicks = 0

\* The rest of transmit_data_frame: the counter advances also when the frame
\* is not accepted.
SendData ==
    LET counter == (sequence + steps) % CounterModulus
    IN  /\ mainAt = "data"
        /\ Transmit \/ TransmitFails
        /\ dataFrame' = [sequence |-> counter, degraded |-> injection = "range"]
        /\ sequence' = (counter + 1) % CounterModulus
        /\ steps' = 0
        /\ mainAt' = IF BeatDue THEN "beat" ELSE "next"
        /\ UNCHANGED <<timeVars, commandVars, sharedVars, injection,
                       tickIndex, beatFrame>>

Beat(condition) ==
    [uptime |-> tickIndex \div BeatTicks, degraded |-> condition = "range"]

\* Mutant: the heartbeat reads the shared mode, without the lock, instead of the
\* iteration's.
SendBeatOfMode ==
    /\ mainAt = "beat"
    /\ Transmit \/ TransmitFails
    /\ beatFrame' = Beat(mode)
    /\ mainAt' = "next"
    /\ UNCHANGED <<timeVars, commandVars, sharedVars, injection, steps, sequence,
                   tickIndex, dataFrame>>

SendBeat ==
    /\ mainAt = "beat"
    /\ Transmit \/ TransmitFails
    /\ beatFrame' = Beat(injection)
    /\ mainAt' = "next"
    /\ UNCHANGED <<timeVars, commandVars, sharedVars, injection, steps, sequence,
                   tickIndex, dataFrame>>

EndIteration ==
    /\ mainAt = "next"
    /\ tickIndex' = (tickIndex + 1) % IndexModulus
    /\ mainAt' = "delay"
    /\ dataFrame' = None /\ beatFrame' = None
    /\ UNCHANGED <<busVars, timeVars, commandVars, sharedVars, injection, steps,
                   sequence>>

-----------------------------------------------------------------------------
(* The command task.                                                        *)

\* A command handle_command accepts; any other line changes nothing.
ReceiveCommand ==
    /\ commandAt = "idle"
    /\ commands < MaxCommands
    /\ commands' = commands + 1
    /\ command' \in Commands
    /\ commandAt' = IF command'.verb = "restart" THEN "restarting" ELSE "enter"
    /\ UNCHANGED <<busVars, timeVars, mainAt, sharedVars, loopVars>>

\* Mutant: the command task does not take the lock.
EnterCommandUnlocked ==
    /\ commandAt = "enter"
    /\ commandAt' = command.verb
    /\ UNCHANGED <<busVars, timeVars, mainAt, command, commands, sharedVars,
                   loopVars>>

EnterCommand ==
    /\ commandAt = "enter"
    /\ lock = None
    /\ lock' = "command"
    /\ commandAt' = command.verb
    /\ UNCHANGED <<busVars, timeVars, mainAt, command, commands, mode, deadline,
                   pendingSkip, owed, loopVars>>

\* clear_injection
ClearInjection ==
    /\ commandAt = "normal"
    /\ mode' = None
    /\ ordered' = None /\ left' = 0
    /\ lock' = None
    /\ commandAt' = "idle" /\ command' = None
    /\ UNCHANGED <<busVars, clock, phase, mainAt, commands, deadline,
                   pendingSkip, owed, loopVars>>

\* set_injection: two writes
SetMode ==
    /\ commandAt \in Conditions
    /\ mode' = command.verb
    /\ commandAt' = "set deadline"
    /\ UNCHANGED <<busVars, timeVars, mainAt, command, commands, lock, deadline,
                   pendingSkip, owed, loopVars>>

\* Mutant: the deadline is computed in a wider type than the tick counter's.
SetDeadlineUnwrapped ==
    /\ commandAt = "set deadline"
    /\ deadline' = clock + command.count
    /\ ordered' = command.verb /\ left' = command.count
    /\ lock' = None
    /\ commandAt' = "idle" /\ command' = None
    /\ UNCHANGED <<busVars, clock, phase, mainAt, commands, mode,
                   pendingSkip, owed, loopVars>>

SetDeadline ==
    /\ commandAt = "set deadline"
    /\ deadline' = (clock + command.count) % TickModulus
    /\ ordered' = command.verb /\ left' = command.count
    /\ lock' = None
    /\ commandAt' = "idle" /\ command' = None
    /\ UNCHANGED <<busVars, clock, phase, mainAt, commands, mode,
                   pendingSkip, owed, loopVars>>

\* queue_counter_skip
QueueSkip ==
    /\ commandAt = "skip"
    /\ pendingSkip' = command.count
    /\ owed' = command.count
    /\ lock' = None
    /\ commandAt' = "idle" /\ command' = None
    /\ UNCHANGED <<busVars, timeVars, mainAt, commands, mode, deadline,
                   loopVars>>

\* esp_restart, which does not return
Restart ==
    /\ commandAt = "restarting"
    /\ Reboot
    /\ UNCHANGED commands

\* Power is lost and comes back, at any moment.
PowerCycle ==
    /\ commands < MaxCommands
    /\ commands' = commands + 1
    /\ Reboot

-----------------------------------------------------------------------------
MainTask ==
    \/ StartBus \/ StartCommands \/ BootBeat
    \/ EnterInjection \/ ReadInjection \/ ServiceBus
    \/ EnterSkip \/ ReadSkip \/ ClearSkip
    \/ SendData \/ SendBeat \/ EndIteration

ExecuteCommand ==
    \/ EnterCommand \/ ClearInjection \/ SetMode \/ SetDeadline \/ QueueSkip
    \/ Restart

Controller ==
    /\ SendQueued \/ GoBusOff \/ CompleteRecovery
    /\ UNCHANGED <<timeVars, mainAt, commandVars, sharedVars, loopVars>>

ThermalNext ==
    \/ Tick
    \/ MainTask
    \/ ReceiveCommand
    \/ ExecuteCommand
    \/ PowerCycle
    \/ Controller

\* Both tasks are scheduled, time passes, and a controller that is told to
\* recover does.  Nothing is assumed of who gives commands or of the bus.
ThermalSpec ==
    /\ ThermalInit
    /\ [][ThermalNext]_nodeVars
    /\ WF_nodeVars(Tick)
    /\ WF_nodeVars(MainTask)
    /\ WF_nodeVars(ExecuteCommand)
    /\ WF_nodeVars(CompleteRecovery /\ Controller)
=============================================================================
