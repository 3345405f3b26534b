SPECIFICATION Spec
CONSTANTS
    PowerData = PowerData
    PowerBeat = PowerBeat
    ThermalData = ThermalData
    ThermalBeat = ThermalBeat
    Power = Power
    Thermal = Thermal
    None = None
    Messages = {PowerData, PowerBeat}
    Nodes = {Power}
    Heartbeats = {PowerBeat}
    Sender <- NodeSender
    StaleAfter <- NodeStaleAfter
    Rank <- NodeRank
    Frames <- MixedFrames
    UnknownIds = {}
    Signals = {}
    Enumerated = {}
    CounterModulus = 4
    MaxReportableGap = 2
    RestartSuppression = 1
    CheckSequence = TRUE
    CheckRanges = FALSE
    ReportUnknownIds = TRUE
    CycleTime = 1
    LastTime = 6
    MaxBackstep = 0
PROPERTY GapConsistentWithTime
