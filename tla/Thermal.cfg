SPECIFICATION ThermalSpec
CONSTANTS
    None = None
    QueueLength = 1
    TickModulus = 10
    Period = 2
    BeatTicks = 2
    IndexModulus = 5
    CounterModulus = 2
    Durations = {3}
    Skips = {1}
    MaxCommands = 2
CHECK_DEADLOCK FALSE
INVARIANTS
    ThermalTypeOK
    QueuedSkipSurvives
    IterationIsCoherent
PROPERTIES
    ObeysCommands
    BusReturns
    InjectionEnds
