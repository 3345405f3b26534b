SPECIFICATION RoundTripFairSpec
CONSTANTS
    Vcan0 = Vcan0
    Channels = {Vcan0, can0}
    NoChannel = NoChannel
    Can0 = can0
    None = None
    DataId = 256
    StaleAfter = 3000
    MaxReportableGap = 127
    Original <- ShortCapture
    Foreign <- OtherFrames
    Channel = Vcan0
    Speeds = {1, 2}
    JoinTimeout = 2
    MaxDelay = 1
    MaxForeign = 1
    MaxLosses = 1
    CutPoints = {0, 3, 10}
    LatestStart = 0
    LastTime = 9
\* A command that the user does not start or stop waits.
CHECK_DEADLOCK FALSE
INVARIANTS
    PassedMeansDelivered
    FaithfulReplayPasses
    Paced
    RecordingComplete
PROPERTY CheckEnds
