CONSTANTS
    Script <- MCKeepAlive
    Pipelined = FALSE
    PeerReads = TRUE
    SndCap = 1
SPECIFICATION Spec
INVARIANTS TypeOK ResponsesMatchScript
PROPERTIES RequestsAnswered ServerCloses
