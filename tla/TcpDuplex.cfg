SPECIFICATION Spec
CONSTANTS
    FRAME = 2
    Chunk = 1
    SndBuf = 1
    GuestBuf = 2
    HostLen = 1
    GuestLen = 2
    SeqMod = 17
    TCP_ISN = 15
    GuestISN = 15
    TapQueue = 2
    MaxLossDown = 1
    MaxLossUp = 1
    MaxSpurious = 1
    SynRetries = FALSE
    HostResets = TRUE
    GuestAborts = TRUE
CHECK_DEADLOCK FALSE
INVARIANTS
    HostSeesGuestStream
    AcksAreBacked
    CloseIsComplete
