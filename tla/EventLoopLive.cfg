SPECIFICATION FairSpec
CONSTANTS
    UdpKeys = {u1}
    PingKeys = {}
    TcpKeys = {t1}
    Slots = {s1, s2, s3}
    Bufs = {b0, b1, b2}
    TapBuf = b0
    NoFlow = NoFlow
    NoSlot = NoSlot
    NoKey = NoKey
    Tap = Tap
    Timer = Timer
    Stop = Stop
    NumStops = 1
    MinRing = 1
    MaxRing = 64
    PollErrors = FALSE
PROPERTIES
    ClosingIsReaped
