------------------------------ MODULE Acceptor ------------------------------
(***************************************************************************)
(* Acceptor::listen and Acceptor::handleRead (Acceptor.cc 147-182), with   *)
(* the process's fd table abstracted to a count of free slots.  The       *)
(* listening socket, the epoll, eventfd and timerfd fds and the log file  *)
(* are taken before the model starts; FdLimit is what RLIMIT_NOFILE       *)
(* leaves after them, idleFd_ (opened in the constructor, 133) included.  *)
(* The EMFILE branch is four system calls, each its own step, since other *)
(* threads of the process take and free fds between them: an I/O thread  *)
(* opens a static file in HttpConnection::makeResponseBody (411, 420), an *)
(* I/O thread closes a connection's socket.                               *)
(***************************************************************************)
EXTENDS Naturals

CONSTANTS
    FdLimit,  \* fd slots left to the server's connections and idleFd_
    NConn,    \* connection attempts by clients
    NFiles    \* static-file opens by the I/O threads

VARIABLES
    listening,  \* listening_
    idleFd,     \* idleFd_: "open" (/dev/null), "closed" (the number of a
                \* closed fd), "evict" (an accepted socket), "-1"
    apc,        \* where handleRead is: "idle", "emfile", "closedIdle",
                \* "accepted", "reopen"
    free,       \* free fd slots
    pending,    \* connections in the listen queue
    arrived,    \* connection attempts so far
    conns,      \* accepted sockets still open
    evicted,    \* connections accepted and closed by the EMFILE dance
    files,      \* static files an I/O thread holds open
    opened,     \* static-file opens so far
    aborted     \* a LOG_SYSFATAL ended the process

accVars == <<listening, idleFd, apc, free, pending, arrived, conns, evicted,
             files, opened, aborted>>

AcceptorInit ==
    /\ listening = FALSE
    /\ idleFd = "open"
    /\ apc = "idle"
    /\ free = FdLimit - 1
    /\ pending = 0
    /\ arrived = 0
    /\ conns = 0
    /\ evicted = 0
    /\ files = 0
    /\ opened = 0
    /\ aborted = FALSE

\* listen(): listening_ = true; listen(2); enableReading()
Listen ==
    /\ ~listening
    /\ listening' = TRUE
    /\ UNCHANGED <<idleFd, apc, free, pending, arrived, conns, evicted, files,
                   opened, aborted>>

\* a client connects: the kernel queues it on the listening socket
Arrive ==
    /\ listening /\ ~aborted /\ arrived < NConn
    /\ arrived' = arrived + 1
    /\ pending' = pending + 1
    /\ UNCHANGED <<listening, idleFd, apc, free, conns, evicted, files, opened, aborted>>

\* handleRead() runs while the listening fd is readable (level-triggered):
\* accept4 succeeds and the fd goes to newConnectionCallback_ (the caller
\* adds what the callback does)
AcceptOk ==
    /\ listening /\ ~aborted /\ apc = "idle" /\ pending > 0 /\ free > 0
    /\ pending' = pending - 1
    /\ free' = free - 1
    /\ conns' = conns + 1
    /\ UNCHANGED <<listening, idleFd, apc, arrived, evicted, files, opened, aborted>>

\* accept4 fails with EMFILE
AcceptEmfile ==
    /\ listening /\ ~aborted /\ apc = "idle" /\ pending > 0 /\ free = 0
    /\ apc' = "emfile"
    /\ UNCHANGED <<listening, idleFd, free, pending, arrived, conns, evicted,
                   files, opened, aborted>>

\* ::close(idleFd_) (171); close(-1) fails and frees nothing
CloseIdle ==
    /\ ~aborted /\ apc = "emfile"
    /\ free' = IF idleFd = "open" THEN free + 1 ELSE free
    /\ idleFd' = IF idleFd = "open" THEN "closed" ELSE idleFd
    /\ apc' = "closedIdle"
    /\ UNCHANGED <<listening, pending, arrived, conns, evicted, files, opened, aborted>>

\* idleFd_ = ::accept(...) (172): the pending connection, or -1
EvictAccept ==
    /\ ~aborted /\ apc = "closedIdle"
    /\ IF pending > 0 /\ free > 0
       THEN /\ pending' = pending - 1 /\ free' = free - 1 /\ idleFd' = "evict"
       ELSE /\ idleFd' = "-1" /\ UNCHANGED <<pending, free>>
    /\ apc' = "accepted"
    /\ UNCHANGED <<listening, arrived, conns, evicted, files, opened, aborted>>

\* ::close(idleFd_) (174): the client sees its connection closed
CloseEvicted ==
    /\ ~aborted /\ apc = "accepted"
    /\ IF idleFd = "evict"
       THEN /\ free' = free + 1 /\ evicted' = evicted + 1 /\ idleFd' = "closed"
       ELSE UNCHANGED <<free, evicted, idleFd>>
    /\ apc' = "reopen"
    /\ UNCHANGED <<listening, pending, arrived, conns, files, opened, aborted>>

\* mutant: the /dev/null reopen fails as if no slot were free
ReopenLost ==
    /\ ~aborted /\ apc = "reopen"
    /\ idleFd' = "-1"
    /\ apc' = "idle"
    /\ UNCHANGED <<listening, free, pending, arrived, conns, evicted, files, opened, aborted>>

\* idleFd_ = ::open("/dev/null", ...) (175), -1 when no slot is free
Reopen ==
    /\ ~aborted /\ apc = "reopen"
    /\ IF free > 0 THEN free' = free - 1 /\ idleFd' = "open"
                   ELSE idleFd' = "-1" /\ UNCHANGED free
    /\ apc' = "idle"
    /\ UNCHANGED <<listening, pending, arrived, conns, evicted, files, opened, aborted>>

\* an I/O thread closes a connection's socket (TcpConnection teardown)
ConnClose ==
    /\ ~aborted /\ conns > 0
    /\ conns' = conns - 1
    /\ free' = free + 1
    /\ UNCHANGED <<listening, idleFd, apc, pending, arrived, evicted, files, opened, aborted>>

\* makeResponseBody, serving a request of an open connection: ::open(file);
\* a failure is LOG_SYSFATAL, which aborts
OpenFile ==
    /\ ~aborted /\ conns > 0 /\ files = 0 /\ opened < NFiles
    /\ opened' = opened + 1
    /\ IF free > 0 THEN free' = free - 1 /\ files' = 1 /\ UNCHANGED aborted
                   ELSE aborted' = TRUE /\ UNCHANGED <<free, files>>
    /\ UNCHANGED <<listening, idleFd, apc, pending, arrived, conns, evicted>>

\* makeResponseBody: mmap, then ::close(fd)
CloseFile ==
    /\ ~aborted /\ files = 1
    /\ files' = 0
    /\ free' = free + 1
    /\ UNCHANGED <<listening, idleFd, apc, pending, arrived, conns, evicted, opened, aborted>>

\* the steps of one handleRead() on the base loop
HandleRead == AcceptEmfile \/ CloseIdle \/ EvictAccept \/ CloseEvicted \/ Reopen
=============================================================================
