SPECIFICATION Spec
CONSTANTS
    FRAME = 4
    Chunk = 1
    SndBuf = 1
    GuestBuf = 4
    HostLen = 5
    GuestLen = 0
    SeqMod = 25
    TCP_ISN = 22
    GuestISN = 15
    TapQueue = 3
    MaxLossDown = 1
    MaxLossUp = 0
    MaxSpurious = 0
    SynRetries = TRUE
    HostResets = FALSE
    GuestAborts = FALSE
CHECK_DEADLOCK FALSE
INVARIANTS
    TypeOK
    RingHoldsUnacked
    ReleasedIsReceived
    GuestSeesHostStream
    GuestNotOverrun
