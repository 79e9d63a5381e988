\* The server's own use: sends and shutdowns only on the I/O loop; the peer
\* may reset the connection.
CONSTANTS
    x1 = x1
    Others <- MCNoOthers
    MaxSends = 2
    MaxReqs = 2
    MsgLen = 2
    SndCap = 2
    NDEBUG = FALSE
    PeerResets = TRUE
SPECIFICATION Spec
INVARIANT NoSigpipe
