SPECIFICATION LiveFairSpec
CONSTANTS
    PowerData = PowerData
    PowerBeat = PowerBeat
    Power = Power
    None = None
    Messages = {PowerData, PowerBeat}
    Nodes = {Power}
    Heartbeats = {PowerBeat}
    Sender <- NodeSender
    StaleAfter <- NodeStaleAfter
    Rank <- NodeRank
    Frames <- ArrivalFrames
    UnknownIds = {u1}
    Signals = {}
    Enumerated = {}
    CounterModulus = 4
    MaxReportableGap = 2
    RestartSuppression = 1
    CheckSequence = FALSE
    CheckRanges = FALSE
    ReportUnknownIds = TRUE
    CycleTime = 1
    LastTime = 4
    MaxBackstep = 0
    RxLength = 2
    MaxErrors = 1
    ErrorStorm = TRUE
\* The loop ends when the user stops it.
CHECK_DEADLOCK FALSE
PROPERTY OutageReported
