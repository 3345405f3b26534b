SPECIFICATION Spec
CONSTANTS
    PowerData = PowerData
    PowerBeat = PowerBeat
    ThermalData = ThermalData
    ThermalBeat = ThermalBeat
    Power = Power
    Thermal = Thermal
    None = None
    Messages = {PowerData, PowerBeat}
    Nodes = {Power}
    Heartbeats = {PowerBeat}
    Sender <- NodeSender
    StaleAfter <- NodeStaleAfter
    Rank <- NodeRank
    Frames <- MixedFrames
    UnknownIds = {}
    Signals = {s1}
    Enumerated = {s1}
    CounterModulus = 3
    MaxReportableGap = 1
    RestartSuppression = 1
    CheckSequence = TRUE
    CheckRanges = TRUE
    ReportUnknownIds = TRUE
    CycleTime = 1
    LastTime = 4
    MaxBackstep = 0
PROPERTY RangeClosesOnReturn
