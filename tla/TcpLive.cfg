SPECIFICATION FairSpec
CONSTANTS
    FRAME = 2
    Chunk = 2
    SndBuf = 2
    GuestBuf = 1
    HostLen = 1
    GuestLen = 1
    SeqMod = 17
    TCP_ISN = 15
    GuestISN = 15
    TapQueue = 2
    MaxLossDown = 1
    MaxLossUp = 1
    MaxSpurious = 0
    SynRetries = TRUE
    HostResets = FALSE
    GuestAborts = FALSE
CHECK_DEADLOCK FALSE
PROPERTIES
    DownloadCompletes
    UploadCompletes
