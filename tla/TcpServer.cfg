\* Two I/O threads (HttpServer.cc uses one; two make the round-robin wrap
\* and the start-up waits interleave), one fd slot beyond idleFd_, so the
\* second connection already meets EMFILE, and four clients, enough for a
\* second EMFILE after the first dance and for three accepted connections
\* when sockets are closed in between.
CONSTANTS
    NThreads = 2
    FdLimit = 2
    NConn = 4
    NFiles = 0

SPECIFICATION Spec

\* once every client is handled the processes wait in poll() for good
CHECK_DEADLOCK FALSE

INVARIANTS
    TypeOK
    LoopsPublished
    RoundRobin

PROPERTIES
    PendingHandled
