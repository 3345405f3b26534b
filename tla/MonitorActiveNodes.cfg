SPECIFICATION Spec
CONSTANTS
    PowerData = PowerData
    PowerBeat = PowerBeat
    ThermalData = ThermalData
    ThermalBeat = ThermalBeat
    Power = Power
    Thermal = Thermal
    None = None
    Messages = {PowerData, PowerBeat, ThermalData, ThermalBeat}
    Nodes = {Power, Thermal}
    Heartbeats = {PowerBeat, ThermalBeat}
    Sender <- BenchSender
    StaleAfter <- BenchStaleAfter
    Rank <- BenchRank
    Frames <- ArrivalFrames
    UnknownIds = {}
    Signals = {}
    Enumerated = {}
    CounterModulus = 4
    MaxReportableGap = 2
    RestartSuppression = 1
    CheckSequence = FALSE
    CheckRanges = FALSE
    ReportUnknownIds = TRUE
    CycleTime = 1
    LastTime = 6
    MaxBackstep = 0
INVARIANT ActiveNodesTransmit
