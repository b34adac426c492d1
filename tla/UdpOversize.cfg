SPECIFICATION UdpSpec
CONSTANTS
    MaxPayload = 4
    MaxDgram6 = 5
    Headers = 2
    Frame = 10
    Lens = {4, 5}
    Errnos = {ECONNREFUSED, EPROTO}
    Translated = {ECONNREFUSED}
    NoError = NoError
    MaxDgrams = 1
    MaxErrors = 0
    MaxSends = 0
CHECK_DEADLOCK FALSE
INVARIANTS
    EveryReplyReadable
