SPECIFICATION BenchSpec
CONSTANTS
    PowerData = PowerData
    PowerBeat = PowerBeat
    Power = Power
    None = None
    Messages = {PowerData, PowerBeat}
    Nodes = {Power}
    Heartbeats = {PowerBeat}
    Sender <- PowerSender
    StaleAfter <- PowerStaleAfter
    Rank <- PowerRank
    Frames = {}
    UnknownIds = {}
    Signals = {}
    Enumerated = {}
    Reading <- NoReading
    CounterModulus = 4
    MaxReportableGap = 2
    RestartSuppression = 3
    CheckSequence = TRUE
    CheckRanges = FALSE
    ReportUnknownIds = TRUE
    BeatTicks = 2
    IndexModulus = 100
    QueueLength = 2
    LastTime = 6
    MaxBackstep = 0
    MaxCycles = 1
    MaxLosses = 2
\* Time is bounded, and a node that did not start does nothing more.
CHECK_DEADLOCK FALSE
PROPERTIES
    GapsAreExplained
    LossIsReported
    RestartsAreReboots
