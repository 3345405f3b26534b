SPECIFICATION RegenerationSpec
CONSTANTS
    PowerData = PowerData
    PowerBeat = PowerBeat
    ThermalData = ThermalData
    ThermalBeat = ThermalBeat
    PowerNode = PowerNode
    ThermalNode = ThermalNode
    Temperature = Temperature
    None = None
    Messages = {PowerData, PowerBeat, ThermalData, ThermalBeat}
    Nodes = {PowerNode, ThermalNode}
    Heartbeats = {PowerBeat, ThermalBeat}
    DataMessage <- NetworkData
    HeartbeatMessage <- NetworkHeartbeat
    Sender <- NetworkSender
    StaleAfter <- NetworkStaleAfter
    Rank <- NetworkRank
    Frames = {}
    UnknownIds = {}
    Signals = {Temperature}
    Enumerated = {}
    CounterModulus = 256
    MaxReportableGap = 127
    RestartSuppression = 2000
    CheckSequence = TRUE
    CheckRanges = TRUE
    ReportUnknownIds = TRUE
    LastTime = 70000
    MaxBackstep = 0
    Jitter <- Extremes
    Epoch = 1000
\* The analysis ends with the capture.
CHECK_DEADLOCK FALSE
INVARIANTS
    GroundTruthHolds
    HealthyNodesAreNotNamed
    OneFindingPerEpisode
    FindingsAreDated
