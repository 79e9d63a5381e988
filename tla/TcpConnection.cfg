\* A user thread that got the TcpConnectionPtr sends, shuts down and drops
\* it next to the server's own sends and shutdowns on the I/O loop; a
\* kernel send buffer small enough for partial and failed writes; a peer
\* that may reset the connection.
CONSTANTS
    x1 = x1
    Others <- MCOthers
    MaxSends = 2
    MaxReqs = 2
    MsgLen = 2
    SndCap = 2
    NDEBUG = FALSE
    PeerResets = TRUE
SPECIFICATION Spec
INVARIANTS TypeOK DestroyedOnceAfterErase
PROPERTIES ShutdownOnlyWhenDrained PeerCloseReleases ShutdownCompletes
