SPECIFICATION Spec
CONSTANTS
    UdpKeys = {u1}
    PingKeys = {p1}
    TcpKeys = {t1}
    Slots = {s1, s2, s3}
    Bufs = {b0, b1, b2}
    TapBuf = b0
    NoFlow = NoFlow
    NoSlot = NoSlot
    NoKey = NoKey
    Tap = Tap
    Timer = Timer
    Stop = Stop
    NumStops = 2
    MinRing = 1
    MaxRing = 4
    PollErrors = TRUE
SYMMETRY Symmetry
INVARIANTS
    NoStaleCompletion
    BufferOwnership
    CancelHitsClosing
