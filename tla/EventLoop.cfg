SPECIFICATION Spec
CONSTANTS
    UdpKeys = {u1}
    PingKeys = {p1}
    TcpKeys = {t1, t2}
    Slots = {s1, s2, s3, s4}
    Bufs = {b0, b1, b2, b3}
    TapBuf = b0
    NoFlow = NoFlow
    NoSlot = NoSlot
    NoKey = NoKey
    Tap = Tap
    Timer = Timer
    Stop = Stop
    NumStops = 1
    MinRing = 1
    MaxRing = 64
    PollErrors = FALSE
SYMMETRY Symmetry
INVARIANTS
    TypeOK
    NoStaleCompletion
    BufferOwnership
    KeyIndexExact
    WaitingIsPending
    CancelHitsClosing
    ConnectIsWatched
    NoOverflow
    SlabBounded
    LoopIsFed
PROPERTIES
    TcpNeverEvicted
    ImplementsLease
