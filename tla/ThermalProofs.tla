---------------------------- MODULE ThermalProofs ----------------------------
(****************************************************************************)
(* Safety of the two tasks of the thermal controller, for every clock,      *)
(* period, counter and queue length.  The argument is the lock's: each task *)
(* is in its critical section exactly when it holds the lock, so the skip   *)
(* owed and the skip pending can differ only inside the main task's, and a  *)
(* look at the injection never falls between the two writes of a command.   *)
(* The rest is the clock's: a deadline that lies ahead does so by the time  *)
(* that is left, and one that has passed is noticed before half a turn.     *)
(****************************************************************************)
EXTENDS ThermalProperties, TLAPS

MainCritical == {"read", "read skip", "clear skip"}
CommandCritical == {"normal", "skip", "set deadline"} \cup Conditions

\* Each task holds the lock exactly in its critical section, and the command
\* task does not run before it is created.
LockInv ==
    /\ lock = "main" <=> mainAt \in MainCritical
    /\ lock = "command" <=> commandAt \in CommandCritical
    /\ lock \in {None, "main", "command"}
    /\ mainAt \in {"start bus", "start commands"} => commandAt = "absent"
    /\ commandAt = "enter" => command.verb \in CommandCritical \ {"set deadline"}

\* Where the command task is tells which command it executes.
CommandInv ==
    /\ commandAt \in Conditions \cup {"set deadline"} =>
           command \in [verb : Conditions, count : Durations]
    /\ commandAt = "skip" => command \in [verb : {"skip"}, count : Skips]
    /\ commandAt = "enter" => command \in Commands

\* Commands and their number stay within what may be given.
GivenInv ==
    /\ command \in Commands \cup {None}
    /\ commands \in 0 .. MaxCommands

\* Only between its two statements does take_counter_skip make them differ.
SkipInv == IF mainAt = "clear skip" THEN owed = 0 ELSE pendingSkip = owed

\* The frames of an iteration are made from the iteration's injection.
FramesInv ==
    /\ (mainAt \in {"beat", "next"} /\ injection # "silent") =>
           dataFrame.degraded = (injection = "range")
    /\ (mainAt = "next" /\ injection # "silent" /\ BeatDue) =>
           beatFrame.degraded = (injection = "range")

\* Zero is in the range of every clock and counter.
LEMMA ZeroFits ==
    /\ 0 \in 0 .. TickModulus - 1 /\ 0 \in 0 .. Period - 1
    /\ 0 \in 0 .. CounterModulus - 1 /\ 0 \in 0 .. IndexModulus - 1
    /\ 0 \in 0 .. MaxCommands
<1>1. 0 \in 0 .. TickModulus - 1 /\ 0 \in 0 .. Period - 1
  BY ClockAssumption
<1>2. CounterModulus \in Nat \ {0} /\ IndexModulus \in Nat \ {0}
  BY CounterAssumption
<1>3. MaxCommands \in Nat
  BY CounterAssumption
<1> QED BY <1>1, <1>2, <1>3

\* What the static variables and the clock are after either kind of reset.
LEMMA ResetState ==
    ASSUME Restart \/ PowerCycle
    PROVE  /\ BusReset
           /\ clock' = 0 /\ phase' = 0 /\ left' = 0 /\ ordered' = None
           /\ commandAt' = "absent" /\ command' = None
           /\ lock' = None /\ mode' = None /\ deadline' = 0
           /\ pendingSkip' = 0 /\ owed' = 0
           /\ injection' = None /\ steps' = 0 /\ sequence' = 0
           /\ tickIndex' = 0
BY DEF Restart, PowerCycle, Reboot

\* Only a loss of power counts among the commands given.
LEMMA ResetsCount ==
    ASSUME commands \in 0 .. MaxCommands, Restart \/ PowerCycle
    PROVE  commands' \in 0 .. MaxCommands
<1>1. commands' = commands \/ (commands < MaxCommands /\ commands' = commands + 1)
  BY DEF Restart, PowerCycle
<1>2. MaxCommands \in Nat
  BY CounterAssumption
<1> QED BY <1>1, <1>2

\* Whatever a step does to the bus keeps its types: a frame is queued only when
\* the queue has room.
LEMMA BusSteps == BusTypeOK /\ [ThermalNext]_nodeVars => BusTypeOK'
<1> SUFFICES ASSUME BusTypeOK, [ThermalNext]_nodeVars PROVE BusTypeOK'
  OBVIOUS
<1>1. ASSUME UNCHANGED busVars PROVE BusTypeOK'
  BY <1>1 DEF BusTypeOK, busVars
<1>2. ASSUME Transmit \/ TransmitFails PROVE BusTypeOK'
  BY <1>1, <1>2, QueueAssumption DEF Transmit, TransmitFails, BusTypeOK
<1>3. CASE BootBeat \/ SendData \/ SendBeat
  BY <1>2, <1>3 DEF BootBeat, SendData, SendBeat
<1>4. CASE StartBus
  <2>1. CASE BusStarts
    <3>1. started' \in BOOLEAN /\ driver' \in DriverStates
      BY <2>1 DEF BusStarts, DriverStates
    <3>2. queued' \in 0 .. QueueLength
      BY <2>1, QueueAssumption DEF BusStarts
    <3> QED BY <3>1, <3>2 DEF BusTypeOK
  <2>2. CASE BusStartFails
    BY <1>1, <2>2 DEF BusStartFails
  <2> QED BY <1>4, <2>1, <2>2 DEF StartBus
<1>5. CASE ServiceBus
  <2>1. Service
    BY <1>5 DEF ServiceBus
  <2>2. started' \in BOOLEAN /\ driver' \in DriverStates
    BY <2>1 DEF Service, BusTypeOK, busVars, DriverStates
  <2>3. queued' = 0 \/ queued' = queued
    BY <2>1 DEF Service, busVars
  <2> QED BY <2>2, <2>3, QueueAssumption DEF BusTypeOK
<1>6. CASE Controller
  <2>1. started' \in BOOLEAN /\ driver' \in DriverStates
    BY <1>6
    DEF Controller, SendQueued, GoBusOff, CompleteRecovery, BusTypeOK,
        DriverStates
  <2>2. queued' = queued \/ (queued > 0 /\ queued' = queued - 1)
    BY <1>6 DEF Controller, SendQueued, GoBusOff, CompleteRecovery
  <2> QED BY <2>1, <2>2, QueueAssumption DEF BusTypeOK
<1>7. CASE Restart \/ PowerCycle
  <2>1. started' \in BOOLEAN /\ driver' \in DriverStates
    BY <1>7, ResetState DEF BusReset, DriverStates
  <2>2. queued' = 0
    BY <1>7, ResetState DEF BusReset
  <2>3. queued' \in 0 .. QueueLength
    BY <2>2, QueueAssumption
  <2> QED BY <2>1, <2>3 DEF BusTypeOK
<1>8. CASE \/ Tick \/ StartCommands \/ EnterInjection \/ ReadInjection
           \/ EnterSkip \/ ReadSkip \/ ClearSkip \/ EndIteration
           \/ ReceiveCommand \/ EnterCommand \/ ClearInjection \/ SetMode
           \/ SetDeadline \/ QueueSkip \/ UNCHANGED nodeVars
  BY <1>1, <1>8
  DEF Tick, StartCommands, EnterInjection, EnterSkip, MainLocks, ReadInjection,
      ReadSkip, ClearSkip, EndIteration, ReceiveCommand, EnterCommand,
      ClearInjection, SetMode, SetDeadline, QueueSkip, nodeVars
<1> QED BY <1>3, <1>4, <1>5, <1>6, <1>7, <1>8
        DEF ThermalNext, MainTask, ExecuteCommand

\* The main task leaves the command task alone, but for creating it.
LEMMA CommandSurvives ==
    ASSUME MainTask
    PROVE  /\ command' = command /\ commands' = commands
           /\ commandAt' = commandAt \/ commandAt' = "idle"
BY DEF MainTask, StartBus, StartCommands, BootBeat, EnterInjection, EnterSkip,
       MainLocks, ReadInjection, ServiceBus, ReadSkip, ClearSkip, SendData,
       SendBeat, EndIteration, commandVars

\* A command that is executed is one that was given whole.
LEMMA CommandsFit == ThermalSpec => [](CommandInv /\ GivenInv)
<1>1. ThermalInit => CommandInv /\ GivenInv
  BY ZeroFits DEF ThermalInit, CommandInv, GivenInv, Conditions
<1>2. CommandInv /\ GivenInv /\ [ThermalNext]_nodeVars => CommandInv' /\ GivenInv'
  <2> SUFFICES ASSUME CommandInv, GivenInv, [ThermalNext]_nodeVars
               PROVE  CommandInv' /\ GivenInv'
    OBVIOUS
  <2> USE CounterAssumption DEF CommandInv, GivenInv
  <2>1. CASE Tick \/ Controller \/ UNCHANGED nodeVars
    BY <2>1 DEF Tick, Controller, commandVars, nodeVars
  <2>2. CASE MainTask
    BY <2>2, CommandSurvives DEF Conditions
  <2>3. CASE ReceiveCommand
    <3>1. command' \in Commands /\ commandAt' \in {"restarting", "enter"}
      BY <2>3 DEF ReceiveCommand
    <3>2. commands' \in 0 .. MaxCommands
      BY <2>3 DEF ReceiveCommand
    <3> QED BY <3>1, <3>2 DEF Conditions
  <2>4. CASE EnterCommand
    <3>1. /\ command' = command /\ commands' = commands
          /\ command \in Commands /\ commandAt' = command.verb
      BY <2>4 DEF EnterCommand
    <3> QED BY <3>1 DEF Commands, Conditions
  <2>5. CASE SetMode
    BY <2>5 DEF SetMode, Conditions
  <2>6. CASE ClearInjection \/ QueueSkip \/ SetDeadline
    BY <2>6 DEF ClearInjection, QueueSkip, SetDeadline, Conditions
  <2>7. CASE Restart \/ PowerCycle
    <3>1. commandAt' = "absent" /\ command' = None
      BY <2>7, ResetState
    <3>2. CommandInv'
      BY <3>1 DEF Conditions
    <3>3. commands' \in 0 .. MaxCommands
      BY <2>7, ResetsCount
    <3> QED BY <3>1, <3>2, <3>3
  <2> QED BY <2>1, <2>2, <2>3, <2>4, <2>5, <2>6, <2>7
          DEF ThermalNext, ExecuteCommand
<1> QED BY <1>1, <1>2, PTL DEF ThermalSpec

\* The lock excludes the tasks from each other's critical sections:
\* thermal_controller_main.c:60-120.
THEOREM LockIsHeld == ThermalSpec => []LockInv
<1>1. ThermalInit => LockInv
  BY CounterAssumption
  DEF ThermalInit, LockInv, MainCritical, CommandCritical, Conditions
<1>2. LockInv /\ [ThermalNext]_nodeVars => LockInv'
  <2> SUFFICES ASSUME LockInv, [ThermalNext]_nodeVars PROVE LockInv'
    OBVIOUS
  <2> USE CounterAssumption
      DEF LockInv, MainCritical, CommandCritical, Conditions
  <2>1. CASE Tick
    BY <2>1 DEF Tick, commandVars, sharedVars, Untimed
  <2>2. CASE MainTask
    <3>1. CASE StartBus \/ StartCommands \/ BootBeat
      BY <2>2, <3>1
      DEF StartBus, StartCommands, BootBeat, commandVars, sharedVars
    <3>2. CASE EnterInjection \/ EnterSkip
      BY <2>2, <3>2 DEF EnterInjection, EnterSkip, MainLocks, commandVars
    <3>3. CASE ReadInjection \/ ReadSkip \/ ClearSkip
      BY <2>2, <3>3 DEF ReadInjection, ReadSkip, ClearSkip, commandVars
    <3>4. CASE ServiceBus \/ SendData \/ SendBeat \/ EndIteration
      BY <2>2, <3>4
      DEF ServiceBus, SendData, SendBeat, EndIteration, commandVars, sharedVars
    <3> QED BY <2>2, <3>1, <3>2, <3>3, <3>4 DEF MainTask
  <2>3. CASE ReceiveCommand
    <3>1. command'.verb \in {"range", "silent", "skip", "normal", "restart"}
      BY <2>3 DEF ReceiveCommand, Commands
    <3> QED BY <2>3, <3>1 DEF ReceiveCommand, sharedVars
  <2>4. CASE ExecuteCommand
    <3>1. CASE EnterCommand
      BY <2>4, <3>1 DEF EnterCommand
    <3>2. CASE ClearInjection \/ SetMode \/ SetDeadline \/ QueueSkip
      BY <2>4, <3>2 DEF ClearInjection, SetMode, SetDeadline, QueueSkip
    <3>3. CASE Restart
      BY <2>4, <3>3 DEF Restart, Reboot
    <3> QED BY <2>4, <3>1, <3>2, <3>3 DEF ExecuteCommand
  <2>5. CASE PowerCycle
    BY <2>5 DEF PowerCycle, Reboot
  <2>6. CASE Controller
    BY <2>6 DEF Controller, commandVars, sharedVars
  <2>7. CASE UNCHANGED nodeVars
    BY <2>7 DEF nodeVars, commandVars, sharedVars
  <2> QED
    BY <2>1, <2>2, <2>3, <2>4, <2>5, <2>6, <2>7 DEF ThermalNext
<1> QED BY <1>1, <1>2, PTL DEF ThermalSpec

\* Every variable keeps its range across the wrap of both counters, resets and
\* commands of any length.
THEOREM ThermalTypeCorrect == ThermalSpec => []ThermalTypeOK
<1> DEFINE Time == /\ clock \in 0 .. TickModulus - 1
                   /\ phase \in 0 .. Period - 1
                   /\ ordered \in Conditions \cup {None}
                   /\ left \in Nat
           Shared == /\ lock \in {None, "main", "command"}
                     /\ mode \in Conditions \cup {None}
                     /\ deadline \in 0 .. TickModulus - 1
                     /\ pendingSkip \in Skips \cup {0}
                     /\ owed \in Skips \cup {0}
           Loop == /\ injection \in Conditions \cup {None}
                   /\ steps \in Skips \cup {0}
                   /\ sequence \in 0 .. CounterModulus - 1
                   /\ tickIndex \in 0 .. IndexModulus - 1
<1>1. ThermalInit => BusTypeOK /\ Time /\ Shared /\ Loop
  <2> SUFFICES ASSUME ThermalInit
               PROVE  BusTypeOK /\ Time /\ Shared /\ Loop
    OBVIOUS
  <2>1. BusTypeOK
    <3>1. started = FALSE /\ driver = "absent" /\ queued = 0
      BY DEF ThermalInit, BusInit
    <3>2. started \in BOOLEAN /\ driver \in DriverStates
      BY <3>1 DEF DriverStates
    <3>3. queued \in 0 .. QueueLength
      BY <3>1, QueueAssumption
    <3> QED BY <3>2, <3>3 DEF BusTypeOK
  <2>2. Time /\ Loop
    <3>1. /\ clock = 0 /\ phase = 0 /\ left = 0 /\ ordered = None
          /\ injection = None /\ steps = 0 /\ sequence = 0 /\ tickIndex = 0
      BY DEF ThermalInit
    <3> QED BY <3>1, ZeroFits
  <2>3. Shared
    <3>1. lock = None /\ mode = None /\ deadline = 0 /\ pendingSkip = 0 /\ owed = 0
      BY DEF ThermalInit
    <3> QED BY <3>1, ZeroFits
  <2> QED BY <2>1, <2>2, <2>3
<1>2. BusTypeOK /\ [ThermalNext]_nodeVars => BusTypeOK'
  BY BusSteps
<1>3. Time /\ CommandInv /\ [ThermalNext]_nodeVars => Time'
  <2> SUFFICES ASSUME Time, CommandInv, [ThermalNext]_nodeVars
               PROVE  Time'
    OBVIOUS
  <2> USE ClockAssumption
  <2>1. CASE Tick
    <3>1. clock' \in 0 .. TickModulus - 1
      BY <2>1 DEF Tick
    <3>2. phase' \in 0 .. Period - 1
      BY <2>1, ZeroFits DEF Tick
    <3>3. ordered' \in Conditions \cup {None} /\ left' \in Nat
      BY <2>1 DEF Tick
    <3> QED BY <3>1, <3>2, <3>3
  <2>2. CASE SetDeadline
    <3>1. command.verb \in Conditions /\ command.count \in Durations
      BY <2>2 DEF SetDeadline, CommandInv
    <3>2. /\ clock' = clock /\ phase' = phase
          /\ ordered' = command.verb /\ left' = command.count
      BY <2>2 DEF SetDeadline
    <3> QED BY <3>1, <3>2
  <2>3. CASE ClearInjection
    BY <2>3 DEF ClearInjection
  <2>4. CASE Restart \/ PowerCycle
    BY <2>4, ResetState, ZeroFits
  <2>5. CASE BootBeat
    BY <2>5, ZeroFits DEF BootBeat
  <2>6. ASSUME UNCHANGED timeVars PROVE Time'
    BY <2>6 DEF timeVars
  <2>7. CASE MainTask /\ ~BootBeat
    BY <2>6, <2>7
    DEF MainTask, StartBus, StartCommands, EnterInjection, EnterSkip, MainLocks,
        ReadInjection, ServiceBus, ReadSkip, ClearSkip, SendData, SendBeat,
        EndIteration
  <2>8. CASE \/ ReceiveCommand \/ EnterCommand \/ SetMode \/ QueueSkip
             \/ Controller \/ UNCHANGED nodeVars
    BY <2>6, <2>8
    DEF ReceiveCommand, EnterCommand, SetMode, QueueSkip, Controller, nodeVars
  <2> QED BY <2>1, <2>2, <2>3, <2>4, <2>5, <2>7, <2>8
          DEF ThermalNext, ExecuteCommand
<1>4. Shared /\ Time /\ CommandInv /\ [ThermalNext]_nodeVars => Shared'
  <2> SUFFICES ASSUME Shared, Time, CommandInv, [ThermalNext]_nodeVars
               PROVE  Shared'
    OBVIOUS
  <2>1. ASSUME UNCHANGED sharedVars PROVE Shared'
    BY <2>1 DEF sharedVars
  <2>2. CASE \/ Tick \/ StartBus \/ StartCommands \/ BootBeat \/ ServiceBus
             \/ SendData \/ SendBeat \/ EndIteration \/ ReceiveCommand
             \/ Controller \/ UNCHANGED nodeVars
    BY <2>1, <2>2
    DEF Tick, StartBus, StartCommands, BootBeat, ServiceBus, SendData, SendBeat,
        EndIteration, ReceiveCommand, Controller, nodeVars
  <2>3. CASE EnterInjection \/ EnterSkip
    BY <2>3 DEF EnterInjection, EnterSkip, MainLocks
  <2>4. CASE ReadInjection \/ ReadSkip \/ ClearSkip
    BY <2>4 DEF ReadInjection, ReadSkip, ClearSkip
  <2>5. CASE EnterCommand \/ ClearInjection
    BY <2>5 DEF EnterCommand, ClearInjection
  <2>6. CASE SetMode \/ QueueSkip
    BY <2>6 DEF SetMode, QueueSkip, CommandInv
  <2>7. CASE SetDeadline
    <3>1. command.count \in Nat
      BY <2>7, ClockAssumption DEF SetDeadline, CommandInv
    <3>2. TickModulus \in Nat \ {0}
      BY ClockAssumption
    <3>3. (clock + command.count) % TickModulus \in 0 .. TickModulus - 1
      BY <3>1, <3>2
    <3>4. deadline' \in 0 .. TickModulus - 1
      BY <2>7, <3>3 DEF SetDeadline
    <3> QED BY <2>7, <3>4 DEF SetDeadline
  <2>8. CASE Restart \/ PowerCycle
    BY <2>8, ResetState, ZeroFits
  <2> QED BY <2>2, <2>3, <2>4, <2>5, <2>6, <2>7, <2>8
          DEF ThermalNext, MainTask, ExecuteCommand
<1>5. Loop /\ Shared /\ [ThermalNext]_nodeVars => Loop'
  <2> SUFFICES ASSUME Loop, Shared, [ThermalNext]_nodeVars
               PROVE  Loop'
    OBVIOUS
  <2>1. ASSUME UNCHANGED loopVars PROVE Loop'
    BY <2>1 DEF loopVars
  <2>2. CASE \/ Tick \/ StartBus \/ StartCommands \/ BootBeat \/ ServiceBus
             \/ EnterInjection \/ EnterSkip \/ ClearSkip \/ ReceiveCommand
             \/ Controller \/ UNCHANGED nodeVars
    BY <2>1, <2>2
    DEF Tick, StartBus, StartCommands, BootBeat, ServiceBus, EnterInjection,
        EnterSkip, MainLocks, ClearSkip, ReceiveCommand, Controller, nodeVars
  <2>3. CASE \/ EnterCommand \/ ClearInjection \/ SetMode \/ SetDeadline
             \/ QueueSkip
    BY <2>1, <2>3
    DEF EnterCommand, ClearInjection, SetMode, SetDeadline, QueueSkip
  <2>4. CASE ReadInjection \/ ReadSkip
    BY <2>4 DEF ReadInjection, ReadSkip
  <2>5. CASE SendData
    <3>1. (sequence + steps) % CounterModulus \in 0 .. CounterModulus - 1
      BY CounterAssumption
    <3>2. sequence' \in 0 .. CounterModulus - 1
      BY <2>5, <3>1, CounterAssumption DEF SendData
    <3> QED BY <2>5, <3>2 DEF SendData
  <2>6. CASE SendBeat
    BY <2>6 DEF SendBeat
  <2>7. CASE EndIteration
    BY <2>7, CounterAssumption DEF EndIteration
  <2>8. CASE Restart \/ PowerCycle
    BY <2>8, ResetState, ZeroFits
  <2> QED BY <2>2, <2>3, <2>4, <2>5, <2>6, <2>7, <2>8
          DEF ThermalNext, MainTask, ExecuteCommand
<1>6. BusTypeOK /\ Time /\ GivenInv /\ Shared /\ Loop => ThermalTypeOK
  BY DEF ThermalTypeOK, GivenInv
<1> HIDE DEF Time, Shared, Loop
<1> QED BY <1>1, <1>2, <1>3, <1>4, <1>5, <1>6, CommandsFit, PTL
        DEF ThermalSpec

\* A skip that was acknowledged is applied once, however the command that
\* queues it falls between the statements of take_counter_skip.
THEOREM SkipsSurvive == ThermalSpec => []QueuedSkipSurvives
<1>1. ThermalInit => SkipInv
  BY DEF ThermalInit, SkipInv
<1>2. LockInv /\ SkipInv /\ [ThermalNext]_nodeVars => SkipInv'
  <2> SUFFICES ASSUME LockInv, SkipInv, [ThermalNext]_nodeVars PROVE SkipInv'
    OBVIOUS
  <2> USE CounterAssumption DEF SkipInv
  <2>1. CASE Tick
    BY <2>1 DEF Tick, sharedVars
  <2>2. CASE MainTask
    <3>1. CASE StartBus \/ StartCommands \/ BootBeat
      BY <3>1 DEF StartBus, StartCommands, BootBeat, sharedVars
    <3>2. CASE EnterInjection \/ EnterSkip \/ ReadInjection
      BY <3>2 DEF EnterInjection, EnterSkip, MainLocks, ReadInjection
    <3>3. CASE ReadSkip
      BY <3>3 DEF ReadSkip
    <3>4. CASE ClearSkip
      BY <3>4 DEF ClearSkip
    <3>5. CASE ServiceBus \/ SendData \/ SendBeat \/ EndIteration
      BY <3>5 DEF ServiceBus, SendData, SendBeat, EndIteration, sharedVars
    <3> QED BY <2>2, <3>1, <3>2, <3>3, <3>4, <3>5 DEF MainTask
  <2>3. CASE ReceiveCommand
    BY <2>3 DEF ReceiveCommand, sharedVars
  <2>4. CASE ExecuteCommand
    <3>1. CASE QueueSkip
      <4>1. mainAt # "clear skip"
        BY <3>1 DEF QueueSkip, LockInv, MainCritical, CommandCritical
      <4> QED BY <3>1, <4>1 DEF QueueSkip
    <3>2. CASE EnterCommand \/ ClearInjection \/ SetMode \/ SetDeadline
      BY <3>2 DEF EnterCommand, ClearInjection, SetMode, SetDeadline
    <3>3. CASE Restart
      BY <3>3 DEF Restart, Reboot
    <3> QED BY <2>4, <3>1, <3>2, <3>3 DEF ExecuteCommand
  <2>5. CASE PowerCycle
    BY <2>5 DEF PowerCycle, Reboot
  <2>6. CASE Controller \/ UNCHANGED nodeVars
    BY <2>6 DEF Controller, nodeVars, sharedVars
  <2> QED BY <2>1, <2>2, <2>3, <2>4, <2>5, <2>6 DEF ThermalNext
<1>3. LockInv /\ SkipInv => QueuedSkipSurvives
  BY CounterAssumption DEF LockInv, SkipInv, QueuedSkipSurvives, MainCritical
<1> QED BY <1>1, <1>2, <1>3, LockIsHeld, PTL DEF ThermalSpec

\* The data frame and the heartbeat of one iteration tell the same state,
\* though a command may change the injection between them.
THEOREM FramesAgree == ThermalSpec => []IterationIsCoherent
<1>1. ThermalInit => FramesInv
  BY DEF ThermalInit, FramesInv
<1>2. FramesInv /\ [ThermalNext]_nodeVars => FramesInv'
  <2> SUFFICES ASSUME FramesInv, [ThermalNext]_nodeVars PROVE FramesInv'
    OBVIOUS
  <2> USE DEF FramesInv, BeatDue
  <2>1. CASE Tick
    BY <2>1 DEF Tick, loopVars
  <2>2. CASE MainTask
    <3>1. CASE StartBus \/ StartCommands \/ BootBeat
      BY <3>1 DEF StartBus, StartCommands, BootBeat, loopVars
    <3>2. CASE EnterInjection \/ EnterSkip
      BY <3>2 DEF EnterInjection, EnterSkip, MainLocks, loopVars
    <3>3. CASE ReadInjection \/ ReadSkip \/ ClearSkip \/ EndIteration
      BY <3>3 DEF ReadInjection, ReadSkip, ClearSkip, EndIteration, loopVars
    <3>4. CASE ServiceBus
      BY <3>4 DEF ServiceBus, loopVars
    <3>5. CASE SendData
      BY <3>5 DEF SendData
    <3>6. CASE SendBeat
      BY <3>6 DEF SendBeat, Beat
    <3> QED BY <2>2, <3>1, <3>2, <3>3, <3>4, <3>5, <3>6 DEF MainTask
  <2>3. CASE ReceiveCommand
    BY <2>3 DEF ReceiveCommand, loopVars
  <2>4. CASE ExecuteCommand
    BY <2>4
    DEF ExecuteCommand, EnterCommand, ClearInjection, SetMode, SetDeadline,
        QueueSkip, Restart, Reboot, loopVars
  <2>5. CASE PowerCycle
    BY <2>5 DEF PowerCycle, Reboot
  <2>6. CASE Controller \/ UNCHANGED nodeVars
    BY <2>6 DEF Controller, nodeVars, loopVars
  <2> QED BY <2>1, <2>2, <2>3, <2>4, <2>5, <2>6 DEF ThermalNext
<1>3. FramesInv => IterationIsCoherent
  BY DEF FramesInv, IterationIsCoherent
<1> QED BY <1>1, <1>2, <1>3, PTL DEF ThermalSpec

-----------------------------------------------------------------------------
(* The commands are obeyed.                                                 *)

\* How far the deadline lies ahead of the clock, and behind it.
Ahead == IF deadline >= clock THEN deadline - clock
         ELSE deadline - clock + TickModulus
Behind == IF clock >= deadline THEN clock - deadline
          ELSE clock - deadline + TickModulus

\* How long ago a deadline may have passed that the main loop has not noticed.
Unnoticed == IF mainAt \in {"enter", "read"} THEN phase + Period ELSE phase

\* A command has written the mode and not yet the deadline.
HalfWritten == commandAt = "set deadline"

\* A condition in force is the mode, and its deadline lies ahead by the time it
\* has left.  A mode that is no longer in force is less than two periods past
\* its deadline.  Between the two writes of a command only the mode is right.
DeadlineInv ==
    /\ ordered = None <=> left = 0
    /\ HalfWritten => mode = command.verb
    /\ (~HalfWritten /\ ordered # None) =>
           mode = ordered /\ left = Ahead /\ 2 * left < TickModulus
    /\ (~HalfWritten /\ ordered = None /\ mode # None) =>
           Behind <= Unnoticed

\* Within one turn of the clock a remainder is a sum or a difference.
LEMMA OneTurn ==
    ASSUME NEW m \in Nat \ {0}, NEW x \in Int, -m < x, x < 2 * m
    PROVE  x % m = IF x < 0 THEN x + m ELSE IF x < m THEN x ELSE x - m
<1> DEFINE q == x \div m
           r == x % m
<1>1. q \in Int /\ r \in Int /\ 0 <= r /\ r < m /\ x = m * q + r
  OBVIOUS
<1> HIDE DEF q, r
<1>2. ASSUME q >= 2 PROVE FALSE
  <2>1. m * q >= m * 2
    BY <1>1, <1>2
  <2> QED BY <1>1, <2>1
<1>3. ASSUME q <= -2 PROVE FALSE
  <2>1. m * q <= m * (-2)
    BY <1>1, <1>3
  <2> QED BY <1>1, <2>1
<1>4. q = -1 \/ q = 0 \/ q = 1
  BY <1>1, <1>2, <1>3
<1>5. r = IF x < 0 THEN x + m ELSE IF x < m THEN x ELSE x - m
  BY <1>1, <1>4
<1> QED BY <1>5 DEF r

\* The signed difference of the C code, in these terms.
LEMMA PassedIsBehind ==
    ASSUME ThermalTypeOK
    PROVE  DeadlinePassed <=> 2 * Behind < TickModulus
<1>1. /\ TickModulus \in Nat \ {0} /\ clock \in Int /\ deadline \in Int
      /\ 0 <= clock /\ clock < TickModulus
      /\ 0 <= deadline /\ deadline < TickModulus
  BY ClockAssumption DEF ThermalTypeOK
<1>2. (clock - deadline) % TickModulus = Behind
  <2> DEFINE x == clock - deadline
  <2>1. x \in Int /\ -TickModulus < x /\ x < 2 * TickModulus /\ x < TickModulus
    BY <1>1
  <2>2. x < 0 <=> ~(clock >= deadline)
    BY <1>1
  <2> HIDE DEF x
  <2>3. x % TickModulus = IF x < 0 THEN x + TickModulus
                          ELSE IF x < TickModulus THEN x ELSE x - TickModulus
    BY <1>1, <2>1, OneTurn, Zenon
  <2>4. x % TickModulus = IF clock >= deadline THEN x ELSE x + TickModulus
    BY <2>1, <2>2, <2>3
  <2> QED BY <2>4 DEF Behind, x
<1> QED BY <1>2 DEF DeadlinePassed

\* A look at the deadline tells the condition in force.
LEMMA LookIsRight ==
    ASSUME ThermalTypeOK, DeadlineInv, ~HalfWritten,
           mainAt \in {"enter", "read"}
    PROVE  (IF mode # None /\ DeadlinePassed THEN None ELSE mode) = ordered
<1>1. /\ TickModulus \in Nat \ {0} /\ 4 * Period < TickModulus
      /\ Period \in Nat /\ clock \in 0 .. TickModulus - 1
      /\ deadline \in 0 .. TickModulus - 1 /\ phase \in 0 .. Period - 1
      /\ left \in Nat
  BY ClockAssumption DEF ThermalTypeOK
<1>2. CASE ordered # None
  <2>1. mode = ordered /\ left = Ahead /\ 2 * left < TickModulus /\ left > 0
    BY <1>1, <1>2 DEF DeadlineInv
  <2>2. ~(2 * Behind < TickModulus)
    BY <1>1, <2>1 DEF Ahead, Behind
  <2> QED BY <2>1, <2>2, PassedIsBehind
<1>3. CASE ordered = None /\ mode # None
  <2>1. Behind <= phase + Period
    BY <1>3 DEF DeadlineInv, Unnoticed
  <2>2. Behind \in Int /\ 2 * Behind < TickModulus
    BY <1>1, <2>1 DEF Behind
  <2> QED BY <1>3, <2>2, PassedIsBehind
<1>4. CASE ordered = None /\ mode = None
  BY <1>4
<1> QED BY <1>2, <1>3, <1>4

\* While a condition is in force the deadline comes nearer by a tick at a time;
\* after it, the main loop wakes before two periods have passed.
LEMMA DeadlineTicks ==
    ASSUME ThermalTypeOK, DeadlineInv, Tick
    PROVE  DeadlineInv'
<1>1. /\ TickModulus \in Nat \ {0} /\ 4 * Period < TickModulus
      /\ Period \in Nat /\ Period > 0 /\ clock \in 0 .. TickModulus - 1
      /\ deadline \in 0 .. TickModulus - 1 /\ phase \in 0 .. Period - 1
      /\ left \in Nat
  BY ClockAssumption DEF ThermalTypeOK
<1>2. clock' = IF clock + 1 = TickModulus THEN 0 ELSE clock + 1
  <2>1. (clock + 1) % TickModulus
        = IF clock + 1 = TickModulus THEN 0 ELSE clock + 1
    <3> DEFINE x == clock + 1
    <3>1. /\ x \in Int /\ -TickModulus < x /\ x < 2 * TickModulus
          /\ 0 <= x /\ x <= TickModulus
      BY <1>1
    <3> HIDE DEF x
    <3>2. x % TickModulus = IF x < 0 THEN x + TickModulus
                            ELSE IF x < TickModulus THEN x ELSE x - TickModulus
      BY <1>1, <3>1, OneTurn, Zenon
    <3>3. x % TickModulus = IF x = TickModulus THEN 0 ELSE x
      BY <1>1, <3>1, <3>2
    <3> QED BY <3>3 DEF x
  <2> QED BY <2>1 DEF Tick
<1>3. /\ deadline' = deadline /\ mode' = mode /\ command' = command
      /\ commandAt' = commandAt
      /\ left' = (IF left > 0 THEN left - 1 ELSE 0)
      /\ ordered' = IF left' = 0 THEN None ELSE ordered
  BY DEF Tick, sharedVars, commandVars
<1>4. Unnoticed' \in Int /\ Unnoticed' >= Unnoticed + 1
  <2>1. CASE phase < Period - 1 /\ phase' = phase + 1 /\ UNCHANGED mainAt
    BY <1>1, <2>1 DEF Unnoticed
  <2>2. CASE mainAt = "delay" /\ phase = Period - 1 /\ phase' = 0
             /\ mainAt' = "enter"
    BY <1>1, <2>2 DEF Unnoticed
  <2> QED BY <2>1, <2>2 DEF Tick
<1>5. ordered' = None <=> left' = 0
  BY <1>1, <1>3 DEF DeadlineInv
<1>6. ASSUME ~HalfWritten, ordered' # None
      PROVE  mode' = ordered' /\ left' = Ahead' /\ 2 * left' < TickModulus
  <2>1. left > 0 /\ left' = left - 1 /\ ordered' = ordered /\ left' > 0
    BY <1>1, <1>3, <1>6
  <2>2. mode = ordered /\ left = Ahead /\ 2 * left < TickModulus
    BY <1>6, <2>1 DEF DeadlineInv
  <2>3. Ahead' = Ahead - 1
    BY <1>1, <1>2, <1>3, <2>1, <2>2 DEF Ahead
  <2> QED BY <1>1, <1>3, <2>1, <2>2, <2>3
<1>7. ASSUME ~HalfWritten, ordered' = None, mode' # None
      PROVE  Behind' <= Unnoticed'
  <2>1. CASE left = 0
    <3>1. Behind <= Unnoticed
      BY <1>3, <1>7, <2>1 DEF DeadlineInv
    <3>2. Unnoticed <= 2 * Period - 1 /\ Unnoticed \in Int
      BY <1>1 DEF Unnoticed
    <3>3. Behind' = Behind + 1
      BY <1>1, <1>2, <1>3, <3>1, <3>2 DEF Behind
    <3>4. Behind \in Int
      BY <1>1 DEF Behind
    <3> QED BY <1>4, <3>1, <3>2, <3>3, <3>4
  <2>2. CASE left # 0
    <3>1. left = 1 /\ ordered # None
      BY <1>1, <1>3, <1>5, <1>7, <2>2 DEF DeadlineInv
    <3>2. Ahead = 1
      BY <1>7, <3>1 DEF DeadlineInv
    <3>3. Behind' = 0
      BY <1>1, <1>2, <1>3, <3>2 DEF Ahead, Behind
    <3>4. Unnoticed >= 0 /\ Unnoticed \in Int
      BY <1>1 DEF Unnoticed
    <3> QED BY <1>4, <3>3, <3>4
  <2> QED BY <2>1, <2>2
<1> HIDE DEF Tick
<1>8. /\ HalfWritten' <=> HalfWritten
      /\ HalfWritten' => mode' = command'.verb
  BY <1>3 DEF DeadlineInv, HalfWritten
<1> QED BY <1>5, <1>6, <1>7, <1>8 DEF DeadlineInv

\* The second write makes deadline and time left agree.
LEMMA DeadlineWritten ==
    ASSUME ThermalTypeOK, CommandInv, DeadlineInv, SetDeadline
    PROVE  DeadlineInv'
<1>1. /\ command.verb \in Conditions /\ command.count \in Durations
      /\ HalfWritten /\ ~HalfWritten'
  BY DEF SetDeadline, CommandInv, HalfWritten
<1>2. /\ TickModulus \in Nat \ {0} /\ clock \in 0 .. TickModulus - 1
      /\ command.count \in Nat \ {0} /\ 2 * command.count < TickModulus
  BY <1>1, ClockAssumption DEF ThermalTypeOK
<1>3. command.verb # None
  BY <1>1, CounterAssumption
<1>4. /\ deadline' = (clock + command.count) % TickModulus
      /\ ordered' = command.verb /\ left' = command.count
      /\ clock' = clock /\ mode' = command.verb
  BY <1>1 DEF SetDeadline, DeadlineInv
<1>5. Ahead' = left'
  <2> DEFINE x == clock + command.count
             d == deadline'
  <2>1. /\ x \in Int /\ -TickModulus < x /\ x < 2 * TickModulus /\ 0 <= x
        /\ x - clock = command.count
    BY <1>2
  <2>2. d = x % TickModulus
    BY <1>4
  <2> HIDE DEF x, d
  <2>3. x % TickModulus = IF x < 0 THEN x + TickModulus
                          ELSE IF x < TickModulus THEN x ELSE x - TickModulus
    BY <1>2, <2>1, OneTurn, Zenon
  <2>4. d = IF x < TickModulus THEN x ELSE x - TickModulus
    BY <2>1, <2>2, <2>3
  <2>5. (IF d >= clock THEN d - clock ELSE d - clock + TickModulus)
        = command.count
    BY <1>2, <2>1, <2>4
  <2> QED BY <1>4, <2>5 DEF Ahead, d
<1> QED BY <1>1, <1>2, <1>3, <1>4, <1>5 DEF DeadlineInv

\* A step that changes neither what is remembered nor the clock.
LEMMA DeadlineStays ==
    ASSUME DeadlineInv, HalfWritten' = HalfWritten,
           HalfWritten => command' = command,
           mode' = mode, deadline' = deadline, clock' = clock,
           left' = left, ordered' = ordered, Unnoticed' >= Unnoticed,
           Unnoticed \in Int, Unnoticed' \in Int, Behind \in Int
    PROVE  DeadlineInv'
<1>1. Behind' = Behind /\ Ahead' = Ahead
  BY DEF Behind, Ahead
<1>2. Behind <= Unnoticed => Behind' <= Unnoticed'
  BY <1>1
<1> QED BY <1>1, <1>2 DEF DeadlineInv

LEMMA DeadlineAfterMain ==
    ASSUME ThermalTypeOK, LockInv, DeadlineInv, MainTask
    PROVE  DeadlineInv'
<1>1. /\ Period \in Nat /\ Period > 0 /\ phase \in 0 .. Period - 1
      /\ clock \in Int /\ deadline \in Int /\ TickModulus \in Int
  BY ClockAssumption DEF ThermalTypeOK
<1>2. Behind \in Int /\ Unnoticed \in Int
  BY <1>1 DEF Behind, Unnoticed
<1>3. CASE ReadInjection
  <2>1. mainAt = "read" /\ ~HalfWritten
    BY <1>3 DEF ReadInjection, LockInv, MainCritical, CommandCritical,
                HalfWritten
  <2>2. mode' = ordered
    BY <1>3, <2>1, LookIsRight DEF ReadInjection
  <2>3. /\ UNCHANGED <<timeVars, commandVars, deadline>>
    BY <1>3 DEF ReadInjection
  <2>4. /\ ordered' = ordered /\ left' = left /\ Ahead' = Ahead
        /\ ~HalfWritten'
    BY <2>1, <2>3 DEF timeVars, commandVars, Ahead, HalfWritten
  <2> QED BY <2>1, <2>2, <2>4 DEF DeadlineInv
<1>4. CASE ~ReadInjection
  <2>1. /\ mode' = mode /\ deadline' = deadline /\ clock' = clock
        /\ left' = left /\ ordered' = ordered
    BY <1>4 DEF MainTask, StartBus, StartCommands, BootBeat, EnterInjection,
                EnterSkip, MainLocks, ServiceBus, ReadSkip, ClearSkip, SendData,
                SendBeat, EndIteration, timeVars, sharedVars
  <2>2. /\ HalfWritten' = HalfWritten
        /\ HalfWritten => command' = command
    <3>1. CASE StartCommands
      BY <3>1 DEF StartCommands, LockInv, HalfWritten
    <3>2. CASE ~StartCommands
      BY <1>4, <3>2
      DEF MainTask, StartBus, BootBeat, EnterInjection, EnterSkip, MainLocks,
          ServiceBus, ReadSkip, ClearSkip, SendData, SendBeat, EndIteration,
          commandVars, HalfWritten
    <3> QED BY <3>1, <3>2
  <2>3. Unnoticed' \in Int /\ Unnoticed' >= Unnoticed
    <3>1. CASE BootBeat
      <4>1. phase' = 0 /\ mainAt' = "enter" /\ mainAt \notin {"enter", "read"}
        BY <3>1 DEF BootBeat
      <4>2. Unnoticed' = Period /\ Unnoticed = phase
        BY <1>1, <4>1 DEF Unnoticed
      <4> QED BY <1>1, <4>2
    <3>2. CASE ~BootBeat
      <4>1. phase' = phase
        BY <1>4, <3>2
        DEF MainTask, StartBus, StartCommands, EnterInjection, EnterSkip,
            MainLocks, ServiceBus, ReadSkip, ClearSkip, SendData, SendBeat,
            EndIteration, timeVars
      <4>2. mainAt \in {"enter", "read"} => mainAt' \in {"enter", "read"}
        BY <1>4, <3>2
        DEF MainTask, StartBus, StartCommands, EnterInjection, EnterSkip,
            MainLocks, ServiceBus, ReadSkip, ClearSkip, SendData, SendBeat,
            EndIteration
      <4> QED BY <1>1, <4>1, <4>2 DEF Unnoticed
    <3> QED BY <3>1, <3>2
  <2> QED BY <1>2, <2>1, <2>2, <2>3, DeadlineStays
<1> QED BY <1>3, <1>4

LEMMA DeadlineSteps ==
    ASSUME ThermalTypeOK, CommandInv, LockInv, DeadlineInv,
           [ThermalNext]_nodeVars
    PROVE  DeadlineInv'
<1>1. CASE Tick
  BY <1>1, DeadlineTicks
<1>2. CASE MainTask
  BY <1>2, DeadlineAfterMain
<1>3. CASE SetDeadline
  BY <1>3, DeadlineWritten
<1>4. CASE SetMode
  <2>1. /\ HalfWritten' /\ mode' = command'.verb
        /\ ordered' = ordered /\ left' = left
    BY <1>4 DEF SetMode, timeVars, HalfWritten
  <2> QED BY <2>1 DEF DeadlineInv
<1>5. CASE ClearInjection \/ Restart \/ PowerCycle
  <2>1. mode' = None /\ ordered' = None /\ left' = 0 /\ ~HalfWritten'
    <3>1. CASE ClearInjection
      BY <3>1 DEF ClearInjection, HalfWritten
    <3>2. CASE Restart \/ PowerCycle
      BY <3>2, ResetState DEF HalfWritten
    <3> QED BY <1>5, <3>1, <3>2
  <2> QED BY <2>1 DEF DeadlineInv
<1>6. CASE \/ ReceiveCommand \/ EnterCommand \/ QueueSkip \/ Controller
           \/ UNCHANGED nodeVars
  <2>1. /\ mode' = mode /\ deadline' = deadline /\ clock' = clock
        /\ left' = left /\ ordered' = ordered
        /\ phase' = phase /\ mainAt' = mainAt
    BY <1>6 DEF ReceiveCommand, EnterCommand, QueueSkip, Controller, nodeVars,
                timeVars, sharedVars
  <2>2. /\ HalfWritten' = HalfWritten
        /\ HalfWritten => command' = command
    <3>1. CASE EnterCommand
      BY <3>1 DEF EnterCommand, LockInv, HalfWritten
    <3>2. CASE ReceiveCommand \/ QueueSkip \/ Controller \/ UNCHANGED nodeVars
      BY <3>2 DEF ReceiveCommand, QueueSkip, Controller, nodeVars, commandVars,
                  HalfWritten
    <3> QED BY <1>6, <3>1, <3>2
  <2>3. Unnoticed' = Unnoticed
    BY <2>1 DEF Unnoticed
  <2>4. Behind \in Int /\ Unnoticed \in Int
    <3>1. /\ Period \in Int /\ phase \in Int
          /\ clock \in Int /\ deadline \in Int /\ TickModulus \in Int
      BY ClockAssumption DEF ThermalTypeOK
    <3> QED BY <3>1 DEF Behind, Unnoticed
  <2>5. Unnoticed' >= Unnoticed /\ Unnoticed' \in Int
    BY <2>3, <2>4
  <2> QED BY <2>1, <2>2, <2>4, <2>5, DeadlineStays
<1> QED BY <1>1, <1>2, <1>3, <1>4, <1>5, <1>6 DEF ThermalNext, ExecuteCommand

\* What an iteration acts on is the condition ordered last while its time
\* lasts: the firmware implements Injection for every clock that turns more
\* slowly than twice any duration and four periods
\* (thermal_controller_main.c:55-120).
THEOREM CommandsAreObeyed == ThermalSpec => ObeysCommands
<1>1. ThermalInit => DeadlineInv /\ Ideal!Init
  BY DEF ThermalInit, DeadlineInv, HalfWritten, Ideal!Init
<1>2. ThermalTypeOK /\ CommandInv /\ LockInv /\ DeadlineInv
          /\ [ThermalNext]_nodeVars => DeadlineInv'
  BY DeadlineSteps
<1>3. ThermalTypeOK /\ CommandInv /\ LockInv /\ DeadlineInv
          /\ [ThermalNext]_nodeVars => [Ideal!Next]_Ideal!vars
  <2> SUFFICES ASSUME ThermalTypeOK, CommandInv, LockInv, DeadlineInv,
                      [ThermalNext]_nodeVars
               PROVE  [Ideal!Next]_Ideal!vars
    OBVIOUS
  <2> USE DEF Ideal!Next
  <2>1. CASE Tick
    <3>1. /\ left \in Nat /\ injection' = injection
          /\ left' = (IF left > 0 THEN left - 1 ELSE 0)
          /\ ordered' = IF left' = 0 THEN None ELSE ordered
      BY <2>1 DEF Tick, loopVars, ThermalTypeOK
    <3>2. CASE left > 0
      BY <3>1, <3>2 DEF Ideal!Elapse
    <3>3. CASE left = 0
      BY <3>1, <3>3 DEF DeadlineInv, Ideal!vars
    <3> QED BY <3>1, <3>2, <3>3
  <2>2. CASE ReadInjection
    <3>1. mainAt = "read" /\ ~HalfWritten
      BY <2>2 DEF ReadInjection, LockInv, MainCritical, CommandCritical,
                  HalfWritten
    <3>2. injection' = ordered
      BY <2>2, <3>1, LookIsRight DEF ReadInjection
    <3> QED BY <2>2, <3>2 DEF ReadInjection, timeVars, Ideal!Observe
  <2>3. CASE SetDeadline
    <3>1. command.verb \in Conditions /\ command.count \in Nat \ {0}
      BY <2>3, ClockAssumption DEF SetDeadline, CommandInv
    <3> QED BY <2>3, <3>1 DEF SetDeadline, loopVars, Ideal!Order
  <2>4. CASE ClearInjection
    BY <2>4 DEF ClearInjection, loopVars, Ideal!Clear
  <2>5. CASE Restart \/ PowerCycle
    BY <2>5, ResetState DEF Ideal!Reset
  <2>6. CASE MainTask /\ ~ReadInjection
    BY <2>6 DEF MainTask, StartBus, StartCommands, BootBeat, EnterInjection,
                EnterSkip, MainLocks, ServiceBus, ReadSkip, ClearSkip, SendData,
                SendBeat, EndIteration, timeVars, loopVars, Ideal!vars
  <2>7. CASE \/ ReceiveCommand \/ EnterCommand \/ SetMode \/ QueueSkip
             \/ Controller \/ UNCHANGED nodeVars
    BY <2>7 DEF ReceiveCommand, EnterCommand, SetMode, QueueSkip, Controller,
                nodeVars, timeVars, loopVars, Ideal!vars
  <2> QED BY <2>1, <2>2, <2>3, <2>4, <2>5, <2>6, <2>7
          DEF ThermalNext, ExecuteCommand
<1> QED BY <1>1, <1>2, <1>3, ThermalTypeCorrect, CommandsFit, LockIsHeld, PTL
        DEF ThermalSpec, ObeysCommands, Ideal!Spec
=============================================================================
