SPECIFICATION UdpSpec
CONSTANTS
    MaxPayload = 4
    MaxDgram6 = 5
    Headers = 2
    Frame = 10
    Lens = {1}
    Errnos = {ECONNREFUSED, EPROTO}
    Translated = {ECONNREFUSED}
    NoError = NoError
    MaxDgrams = 1
    MaxErrors = 1
    MaxSends = 1
CHECK_DEADLOCK FALSE
PROPERTIES
    ErrorReachesGuest
