SPECIFICATION FairSpec
CONSTANTS
    FRAME = 2
    Chunk = 1
    SndBuf = 2
    GuestBuf = 2
    HostLen = 1
    GuestLen = 0
    SeqMod = 17
    TCP_ISN = 15
    GuestISN = 15
    TapQueue = 3
    MaxLossDown = 1
    MaxLossUp = 1
    MaxSpurious = 0
    SynRetries = TRUE
    HostResets = FALSE
    GuestAborts = FALSE
CHECK_DEADLOCK FALSE
PROPERTIES
    RewoundIsResent
