\* The server's own use; the kernel send buffer fills up.
CONSTANTS
    x1 = x1
    Others <- MCNoOthers
    MaxSends = 2
    MaxReqs = 2
    MsgLen = 2
    SndCap = 2
    NDEBUG = FALSE
    PeerResets = FALSE
SPECIFICATION Spec
INVARIANT ReceivedIsSent
