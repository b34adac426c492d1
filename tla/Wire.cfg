SPECIFICATION WireSpec
CONSTANTS
    Frames <- MCFrames
    RingSize = 8
    MaxPiece = 6
    MinMss = 2
    Sends <- MCSends
    OptionLists <- MCOptionLists
    Base = 3
    Messages <- MCMessages
    Pseudos = {0, 7, 8, 40}
    Nowhere = Nowhere
    Confs <- MCConfs
    Replies <- MCReplies
    MaxAttempts = 3
    MaxPayload = 4
    MaxDgram6 = 5
    Headers = 2
    Frame = 10
    Lens = {0, 1, 2, 5}
    Errnos = {ECONNREFUSED, EPROTO}
    Translated = {ECONNREFUSED}
    NoError = NoError
    MaxDgrams = 4
    MaxErrors = 1
    MaxSends = 2
CHECK_DEADLOCK FALSE
INVARIANTS
    SlicesInBounds
    SegmentsTile
    PiecesTile
    PiecesInRing
    OptionsRead
    ChecksumVerifies
    
    EchoRoundTrip
    PrefixIsGenuine
    ConfigureConverges
    UdpTypeOK
    RepliesConserved
    SuperFrameFits
PROPERTIES
    RepliesDelivered
