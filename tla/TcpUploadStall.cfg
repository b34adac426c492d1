SPECIFICATION FairSpec
CONSTANTS
    FRAME = 2
    Chunk = 1
    SndBuf = 1
    GuestBuf = 2
    HostLen = 0
    GuestLen = 2
    SeqMod = 17
    TCP_ISN = 15
    GuestISN = 15
    TapQueue = 2
    MaxLossDown = 0
    MaxLossUp = 0
    MaxSpurious = 0
    SynRetries = TRUE
    HostResets = FALSE
    GuestAborts = FALSE
CHECK_DEADLOCK FALSE
PROPERTIES
    UploadCompletes
