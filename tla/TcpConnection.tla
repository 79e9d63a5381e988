---------------------------- MODULE TcpConnection ----------------------------
(***************************************************************************)
(* One TcpConnection (base/TcpConnection.cc) from the moment              *)
(* TcpServer::newConnection() has registered it, through the two-hop      *)
(* removal (base/TcpServer.cc) to the release of its last shared_ptr.     *)
(*                                                                         *)
(* Actors: the I/O loop thread (connection tasks, channel events, the     *)
(* user's message callback), the base loop thread (the registry), the     *)
(* peer with the kernel socket buffers between, and `Others`: user        *)
(* threads that were handed the TcpConnectionPtr in the connection        *)
(* callback and call send()/shutdown() from outside the loop.             *)
(*                                                                         *)
(* A loop is a FIFO of queued functors (EventLoop.tla checks that         *)
(* queueInLoop() delivers them once, in order, without a lost wake-up);   *)
(* runInLoop() on the loop's own thread runs synchronously.  Bytes are    *)
(* units <<m, i>>: the i-th byte of the m-th message; <<m, 0>> is the     *)
(* byte in memory just before message m.                                  *)
(***************************************************************************)
EXTENDS Naturals, Sequences, SequencesExt

CONSTANTS
    Others,     \* user threads other than the loops
    MaxSends,   \* bound on the number of send() calls
    MaxReqs,    \* bound on the number of reads the peer makes possible
    MsgLen,     \* bytes per message
    SndCap,     \* kernel send buffer size, in bytes
    NDEBUG,     \* the build defines NDEBUG: assert() does not evaluate
    PeerResets  \* the peer may abort the connection with a RST

ASSUME /\ MaxSends \in Nat /\ MaxReqs \in Nat
       /\ MsgLen \in Nat \ {0} /\ SndCap \in Nat \ {0}
       /\ NDEBUG \in BOOLEAN /\ PeerResets \in BOOLEAN

VARIABLES
    state,      \* state_
    reading,    \* channel_ interest includes kReadEvent
    writing,    \* channel_->isWriting()
    chanAdded,  \* channel_ registered with the poller (addedToLoop_)
    outBuf,     \* outputBuffer_, as a sequence of bytes
    sockShut,   \* socket_->shutdown() (SHUT_RDWR) has been called
    inCallback, \* the I/O thread is inside messageCallback_
    ioQ,        \* functors queued on the I/O loop
    baseQ,      \* removeConnectionInLoop functors queued on the base loop
    inReg,      \* connections_ holds the connection
    xpc,        \* per other thread: "idle" or the functor it is about to queue
    xRef,       \* per other thread: it holds a TcpConnectionPtr
    inBytes,    \* bytes in the kernel receive buffer
    peerFin,    \* the peer has closed its side
    reset,      \* a RST from the peer has arrived: the socket is shut both ways
    sockErr,    \* the socket's pending SO_ERROR: "none", "ECONNRESET", "EPIPE"
    reqs,       \* number of times the peer has sent data
    space,      \* free bytes in the kernel send buffer
    wire,       \* every byte written to the socket, in order (history)
    issued,     \* message numbers in the order their send() returned (history)
    destroyed,  \* number of connectDestroyed() runs (history)
    removals,   \* number of removeConnectionInLoop() runs (history)
    sigpipe,    \* a write hit a shut-down socket: EPIPE and SIGPIPE (history)
    uaf         \* a functor ran on a freed connection (history)

vars == <<state, reading, writing, chanAdded, outBuf, sockShut, inCallback,
          ioQ, baseQ, inReg, xpc, xRef, inBytes, peerFin, reset, sockErr, reqs,
          space, wire, issued, destroyed, removals, sigpipe, uaf>>

peer == <<inBytes, peerFin, reset, reqs>>
hist == <<issued, destroyed, removals, sigpipe, uaf>>

States == {"Connecting", "Connected", "Disconnecting", "Disconnected"}
Ops == {"connectEstablished", "sendInLoop", "shutdownInLoop", "connectDestroyed"}
\* functors bound with a TcpConnectionPtr own a reference; those bound with
\* the raw `this` (send(), shutdown()) do not.
SharedOps == {"connectEstablished", "connectDestroyed"}

Units(m) == [i \in 1..MsgLen |-> <<m, i>>]
MinOf(a, b) == IF a <= b THEN a ELSE b

(* The object is deleted when no shared_ptr is left. *)
Freed ==
    /\ ~inReg
    /\ baseQ = 0
    /\ \A i \in 1..Len(ioQ) : ioQ[i].op \notin SharedOps
    /\ \A t \in Others : ~xRef[t]

(* The connection has left the server: the registry entry and the poller  *)
(* registration are gone.                                                  *)
Released == state = "Disconnected" /\ ~inReg /\ ~chanAdded

(* Neither loop has anything left to do for the connection. *)
Quiescent ==
    state = "Disconnected" /\ ~chanAdded /\ ioQ = <<>> /\ baseQ = 0

Sent == FlattenSeq([k \in 1..Len(issued) |-> Units(issued[k])])

(* write(2) fails when a reset left SO_ERROR pending or the socket is     *)
(* shut down for sending, by our SHUT_RDWR or by the reset.               *)
WriteFails == sockErr # "none" \/ sockShut \/ reset

(* The failed write: tcp_sendmsg returns the pending error and clears it, *)
(* or EPIPE; sk_stream_error raises SIGPIPE for EPIPE (no MSG_NOSIGNAL).  *)
FailWrite ==
    /\ sigpipe' = (sigpipe \/ sockErr \in {"none", "EPIPE"})
    /\ sockErr' = "none"

-----------------------------------------------------------------------------
(* Mutant: enableWriting() even when the direct write took everything. *)
SendInLoopAlwaysWrite(m) ==
    LET msg    == Units(m)
        direct == ~writing /\ outBuf = <<>>
        n      == IF ~direct THEN 0
                  ELSE IF WriteFails \/ space = 0 THEN -1
                  ELSE MinOf(MsgLen, space)
        done   == IF n > 0 THEN n ELSE 0
        rest   == IF n = -1 THEN <<<<m, 0>>>> \o SubSeq(msg, 1, MsgLen - 1)
                  ELSE SubSeq(msg, n + 1, MsgLen)
    IN
    IF state = "Disconnected"
    THEN UNCHANGED <<outBuf, writing, wire, space, sigpipe, sockErr>>
    ELSE /\ wire' = wire \o SubSeq(msg, 1, done)
         /\ space' = space - done
         /\ outBuf' = outBuf \o rest
         /\ writing' = TRUE
         /\ IF direct /\ WriteFails THEN FailWrite ELSE UNCHANGED <<sigpipe, sockErr>>

(* sendInLoop(message): give up when Disconnected; write directly iff     *)
(* nothing is pending; append the residue message.data()+n, remain to the *)
(* output buffer.  A failed write leaves n = -1.                          *)
SendInLoop(m) ==
    LET msg    == Units(m)
        direct == ~writing /\ outBuf = <<>>
        n      == IF ~direct THEN 0
                  ELSE IF WriteFails \/ space = 0 THEN -1
                  ELSE MinOf(MsgLen, space)
        done   == IF n > 0 THEN n ELSE 0
        rest   == IF n = -1 THEN <<<<m, 0>>>> \o SubSeq(msg, 1, MsgLen - 1)
                  ELSE SubSeq(msg, n + 1, MsgLen)
    IN
    IF state = "Disconnected"
    THEN UNCHANGED <<outBuf, writing, wire, space, sigpipe, sockErr>>
    ELSE /\ wire' = wire \o SubSeq(msg, 1, done)
         /\ space' = space - done
         /\ outBuf' = outBuf \o rest
         /\ writing' = (writing \/ rest # <<>>)
         /\ IF direct /\ WriteFails THEN FailWrite ELSE UNCHANGED <<sigpipe, sockErr>>

(* Mutant: shutdownInLoop() without the isWriting() test. *)
ShutdownInLoopUnconditional ==
    sockShut' = TRUE

(* shutdownInLoop(): shut the socket down unless a write is pending. *)
ShutdownInLoop ==
    sockShut' = (sockShut \/ ~writing)

(* handleClose(): Disconnected, disableAll(), connectionCallback_, then   *)
(* closeCallback_ = TcpServer::removeConnection: runInLoop() on the base  *)
(* loop, another thread, so queued.                                        *)
HandleCloseEffect ==
    /\ state' = "Disconnected"
    /\ reading' = FALSE
    /\ writing' = FALSE
    /\ baseQ' = baseQ + 1

-----------------------------------------------------------------------------
(* connectEstablished(): Connected, tie, enableReading(); the connection  *)
(* callback hands the TcpConnectionPtr to the other threads.              *)
ConnectEstablished ==
    /\ state' = "Connected"
    /\ reading' = TRUE
    /\ chanAdded' = TRUE
    /\ xRef' = [t \in Others |-> TRUE]
    /\ UNCHANGED <<writing, outBuf, sockShut, baseQ, wire, space, sigpipe, sockErr>>

(* Mutant: channel_->remove() only on the server-initiated path. *)
ConnectDestroyedKeepChannel ==
    /\ IF state = "Connected"
       THEN /\ state' = "Disconnected"
            /\ reading' = FALSE
            /\ writing' = FALSE
            /\ chanAdded' = FALSE
       ELSE UNCHANGED <<state, reading, writing, chanAdded>>
    /\ UNCHANGED <<outBuf, sockShut, baseQ, xRef, wire, space, sigpipe, sockErr>>

(* connectDestroyed(): if still Connected (server-initiated removal),     *)
(* Disconnected, disableAll() and the connection callback; then           *)
(* channel_->remove().                                                     *)
ConnectDestroyed ==
    /\ IF state = "Connected"
       THEN /\ state' = "Disconnected"
            /\ reading' = FALSE
            /\ writing' = FALSE
       ELSE UNCHANGED <<state, reading, writing>>
    /\ chanAdded' = FALSE
    /\ UNCHANGED <<outBuf, sockShut, baseQ, xRef, wire, space, sigpipe, sockErr>>

(* The I/O loop runs the functor at the head of its queue.  A functor     *)
(* bound with the raw `this` of a deleted connection is a use after free. *)
RunIoTask ==
    /\ ~inCallback
    /\ ioQ # <<>>
    /\ LET f == Head(ioQ) IN
       /\ ioQ' = Tail(ioQ)
       /\ IF Freed /\ f.op \notin SharedOps
          THEN /\ uaf' = TRUE
               /\ UNCHANGED <<state, reading, writing, chanAdded, outBuf,
                              sockShut, baseQ, xRef, wire, space, sigpipe,
                              sockErr, destroyed>>
          ELSE /\ UNCHANGED uaf
               /\ CASE f.op = "connectEstablished" ->
                         ConnectEstablished /\ UNCHANGED destroyed
                    [] f.op = "connectDestroyed" ->
                         ConnectDestroyed /\ destroyed' = destroyed + 1
                    [] f.op = "sendInLoop" ->
                         /\ SendInLoop(f.msg)
                         /\ UNCHANGED <<state, reading, chanAdded, sockShut,
                                        baseQ, xRef, destroyed>>
                    [] f.op = "shutdownInLoop" ->
                         /\ ShutdownInLoop
                         /\ UNCHANGED <<state, reading, writing, chanAdded,
                                        outBuf, baseQ, xRef, wire, space,
                                        sigpipe, sockErr, destroyed>>
    /\ UNCHANGED <<inCallback, inReg, xpc, peer, issued, removals>>

(* handleRead(): readFd() drains the receive buffer.  n > 0 calls         *)
(* messageCallback_; n == 0 (the peer's FIN, our own SHUT_RD, or a reset) *)
(* is handleClose(); n < 0 is logged.  Queued bytes are read even after a *)
(* reset; with none, tcp_recvmsg returns the pending error and clears it. *)
(* Reached from Channel::handleEvent() on POLLIN.                         *)
HandleRead ==
    /\ ~inCallback
    /\ reading
    /\ \/ /\ inBytes > 0
          /\ inBytes' = 0
          /\ inCallback' = TRUE
          /\ UNCHANGED <<state, reading, writing, baseQ, sockErr>>
       \/ /\ inBytes = 0 /\ sockErr # "none"
          /\ sockErr' = "none"
          /\ UNCHANGED <<state, reading, writing, baseQ, inBytes, inCallback>>
       \/ /\ inBytes = 0 /\ sockErr = "none"
          /\ peerFin \/ sockShut \/ reset
          /\ HandleCloseEffect
          /\ UNCHANGED <<inBytes, inCallback, sockErr>>
    /\ UNCHANGED <<chanAdded, outBuf, sockShut, ioQ, inReg, xpc, xRef, peerFin,
                   reset, reqs, space, wire, hist>>

(* handleError() on POLLERR, which epoll reports while the fd is          *)
(* registered: getsockopt(SO_ERROR) reads the pending error, clearing it, *)
(* and logs it.  Channel::handleEventWithGuard calls it before the read   *)
(* and write callbacks.                                                    *)
HandleError ==
    /\ ~inCallback
    /\ reading \/ writing
    /\ sockErr # "none"
    /\ sockErr' = "none"
    /\ UNCHANGED <<state, reading, writing, chanAdded, outBuf, sockShut,
                   inCallback, ioQ, baseQ, inReg, xpc, xRef, peer, space, wire,
                   hist>>

(* Mutant: handleWrite() that forgets the deferred shutdownInLoop(). *)
HandleWriteNoShutdown ==
    /\ ~inCallback
    /\ writing
    /\ space > 0 \/ WriteFails
    /\ IF WriteFails
       THEN /\ FailWrite
            /\ UNCHANGED <<writing, outBuf, sockShut, wire, space>>
       ELSE LET n == MinOf(Len(outBuf), space) IN
            /\ wire' = wire \o SubSeq(outBuf, 1, n)
            /\ space' = space - n
            /\ outBuf' = SubSeq(outBuf, n + 1, Len(outBuf))
            /\ writing' = (n < Len(outBuf))
            /\ UNCHANGED <<sockShut, sigpipe, sockErr>>
    /\ UNCHANGED <<state, reading, chanAdded, inCallback, ioQ, baseQ, inReg,
                   xpc, xRef, peer, issued, destroyed, removals, uaf>>

(* handleWrite() on POLLOUT (space in the send buffer, or the socket shut *)
(* for writing): write the output buffer; when drained, disableWriting()  *)
(* and, if Disconnecting, shutdownInLoop().  A failed write (FailWrite)   *)
(* is logged and leaves the buffer as it is.                              *)
HandleWrite ==
    /\ ~inCallback
    /\ writing
    /\ space > 0 \/ WriteFails
    /\ IF WriteFails
       THEN /\ FailWrite
            /\ UNCHANGED <<writing, outBuf, sockShut, wire, space>>
       ELSE LET n == MinOf(Len(outBuf), space) IN
            /\ wire' = wire \o SubSeq(outBuf, 1, n)
            /\ space' = space - n
            /\ outBuf' = SubSeq(outBuf, n + 1, Len(outBuf))
            /\ writing' = (n < Len(outBuf))
            /\ sockShut' = (n = Len(outBuf) /\ state = "Disconnecting")
            /\ UNCHANGED <<sigpipe, sockErr>>
    /\ UNCHANGED <<state, reading, chanAdded, inCallback, ioQ, baseQ, inReg,
                   xpc, xRef, peer, issued, destroyed, removals, uaf>>

(* The bound on send() calls, counting those another thread has checked  *)
(* but not yet queued.                                                     *)
BelowMaxSends ==
    Len(issued) + Cardinality({u \in Others : xpc[u] = "sendInLoop"}) < MaxSends

(* Inside messageCallback_ the user may send(): on the loop thread        *)
(* runInLoop() calls sendInLoop() at once, if the state is Connected.     *)
AppSend ==
    /\ inCallback
    /\ BelowMaxSends
    /\ state = "Connected"
    /\ issued' = Append(issued, Len(issued) + 1)
    /\ SendInLoop(Len(issued) + 1)
    /\ UNCHANGED <<state, reading, chanAdded, sockShut, inCallback, ioQ, baseQ,
                   inReg, xpc, xRef, peer, destroyed, removals, uaf>>

(* ... and may shutdown(): CAS Connected -> Disconnecting, and on success *)
(* shutdownInLoop() at once; the callback then returns.                   *)
AppShutdown ==
    /\ inCallback
    /\ inCallback' = FALSE
    /\ IF state = "Connected"
       THEN /\ state' = "Disconnecting"
            /\ ShutdownInLoop
       ELSE UNCHANGED <<state, sockShut>>
    /\ UNCHANGED <<reading, writing, chanAdded, outBuf, ioQ, baseQ, inReg, xpc,
                   xRef, peer, space, wire, hist, sockErr>>

AppReturn ==
    /\ inCallback
    /\ inCallback' = FALSE
    /\ UNCHANGED <<state, reading, writing, chanAdded, outBuf, sockShut, ioQ,
                   baseQ, inReg, xpc, xRef, peer, space, wire, hist, sockErr>>

(* Mutant: removeConnectionInLoop() that does not erase the entry. *)
RemoveConnectionInLoopNoErase ==
    /\ baseQ > 0
    /\ baseQ' = baseQ - 1
    /\ removals' = removals + 1
    /\ ioQ' = Append(ioQ, [op |-> "connectDestroyed", msg |-> 0])
    /\ UNCHANGED <<state, reading, writing, chanAdded, outBuf, sockShut,
                   inCallback, inReg, xpc, xRef, peer, space, wire, issued,
                   destroyed, sigpipe, uaf, sockErr>>

(* TcpServer::removeConnectionInLoop() on the base loop:                  *)
(* assert(connections_.erase(name) == 1) -- the erase is inside the       *)
(* assert -- then queueInLoop(connectDestroyed) on the I/O loop.          *)
RemoveConnectionInLoop ==
    /\ baseQ > 0
    /\ baseQ' = baseQ - 1
    /\ removals' = removals + 1
    /\ inReg' = (inReg /\ NDEBUG)
    /\ ioQ' = Append(ioQ, [op |-> "connectDestroyed", msg |-> 0])
    /\ UNCHANGED <<state, reading, writing, chanAdded, outBuf, sockShut,
                   inCallback, xpc, xRef, peer, space, wire, issued, destroyed,
                   sigpipe, uaf, sockErr>>

(* send() from another thread: the state_ == kConnected test ...          *)
XSend(t) ==
    /\ xpc[t] = "idle" /\ xRef[t]
    /\ BelowMaxSends
    /\ state = "Connected"
    /\ xpc' = [xpc EXCEPT ![t] = "sendInLoop"]
    /\ UNCHANGED <<state, reading, writing, chanAdded, outBuf, sockShut,
                   inCallback, ioQ, baseQ, inReg, xRef, peer, space, wire, hist, sockErr>>

(* shutdown() from another thread: the compare-and-swap ...               *)
XShutdown(t) ==
    /\ xpc[t] = "idle" /\ xRef[t]
    /\ state = "Connected"
    /\ state' = "Disconnecting"
    /\ xpc' = [xpc EXCEPT ![t] = "shutdownInLoop"]
    /\ UNCHANGED <<reading, writing, chanAdded, outBuf, sockShut, inCallback,
                   ioQ, baseQ, inReg, xRef, peer, space, wire, hist, sockErr>>

(* ... then runInLoop(bind(&TcpConnection::xxxInLoop, this, ...)):        *)
(* not the loop thread, so queueInLoop().  send() returns.                *)
XQueue(t) ==
    /\ xpc[t] # "idle"
    /\ IF xpc[t] = "sendInLoop"
       THEN /\ issued' = Append(issued, Len(issued) + 1)
            /\ ioQ' = Append(ioQ, [op |-> "sendInLoop", msg |-> Len(issued) + 1])
       ELSE /\ ioQ' = Append(ioQ, [op |-> "shutdownInLoop", msg |-> 0])
            /\ UNCHANGED issued
    /\ xpc' = [xpc EXCEPT ![t] = "idle"]
    /\ UNCHANGED <<state, reading, writing, chanAdded, outBuf, sockShut,
                   inCallback, baseQ, inReg, xRef, peer, space, wire,
                   destroyed, removals, sigpipe, uaf, sockErr>>

(* The other thread lets its TcpConnectionPtr go. *)
XDrop(t) ==
    /\ xpc[t] = "idle" /\ xRef[t]
    /\ xRef' = [xRef EXCEPT ![t] = FALSE]
    /\ UNCHANGED <<state, reading, writing, chanAdded, outBuf, sockShut,
                   inCallback, ioQ, baseQ, inReg, xpc, peer, space, wire, hist, sockErr>>

(* The peer sends a request, closes, or reads what we sent, while it has  *)
(* not reset the connection. *)
PeerSend ==
    /\ ~peerFin /\ ~reset /\ reqs < MaxReqs
    /\ inBytes' = inBytes + 1
    /\ reqs' = reqs + 1
    /\ UNCHANGED <<state, reading, writing, chanAdded, outBuf, sockShut,
                   inCallback, ioQ, baseQ, inReg, xpc, xRef, peerFin, reset,
                   space, wire, hist, sockErr>>

PeerClose ==
    /\ ~peerFin /\ ~reset
    /\ peerFin' = TRUE
    /\ UNCHANGED <<state, reading, writing, chanAdded, outBuf, sockShut,
                   inCallback, ioQ, baseQ, inReg, xpc, xRef, inBytes, reset,
                   reqs, space, wire, hist, sockErr>>

PeerRead ==
    /\ ~reset /\ space < SndCap
    /\ space' = space + 1
    /\ UNCHANGED <<state, reading, writing, chanAdded, outBuf, sockShut,
                   inCallback, ioQ, baseQ, inReg, xpc, xRef, peer, wire, hist, sockErr>>

(* The peer aborts: close() with our bytes unread, SO_LINGER 0, or our    *)
(* bytes reaching a socket it has closed.  tcp_reset sets SO_ERROR --     *)
(* EPIPE in CLOSE_WAIT (we have its FIN and have not shut down), else     *)
(* ECONNRESET -- and tcp_done shuts the socket both ways; queued received *)
(* bytes stay readable, the send queue is purged.                         *)
PeerReset ==
    /\ PeerResets /\ ~reset
    /\ reset' = TRUE
    /\ sockErr' = IF peerFin /\ ~sockShut THEN "EPIPE" ELSE "ECONNRESET"
    /\ UNCHANGED <<state, reading, writing, chanAdded, outBuf, sockShut,
                   inCallback, ioQ, baseQ, inReg, xpc, xRef, inBytes, peerFin,
                   reqs, space, wire, hist>>

(* TcpServer::newConnection() has run: the connection is registered and   *)
(* connectEstablished is queued on the I/O loop.                           *)
Init ==
    /\ state = "Connecting"
    /\ reading = FALSE /\ writing = FALSE /\ chanAdded = FALSE
    /\ outBuf = <<>> /\ sockShut = FALSE /\ inCallback = FALSE
    /\ ioQ = <<[op |-> "connectEstablished", msg |-> 0]>>
    /\ baseQ = 0 /\ inReg = TRUE
    /\ xpc = [t \in Others |-> "idle"] /\ xRef = [t \in Others |-> FALSE]
    /\ inBytes = 0 /\ peerFin = FALSE /\ reqs = 0
    /\ reset = FALSE /\ sockErr = "none"
    /\ space = SndCap /\ wire = <<>>
    /\ issued = <<>> /\ destroyed = 0 /\ removals = 0
    /\ sigpipe = FALSE /\ uaf = FALSE

Next ==
    \/ RunIoTask \/ HandleRead \/ HandleWrite \/ HandleError
    \/ AppSend \/ AppShutdown \/ AppReturn
    \/ RemoveConnectionInLoop
    \/ \E t \in Others : XSend(t) \/ XShutdown(t) \/ XQueue(t) \/ XDrop(t)
    \/ PeerSend \/ PeerClose \/ PeerRead \/ PeerReset
    \/ Quiescent /\ UNCHANGED vars

(* Both loop threads and the other threads are scheduled by the OS, and   *)
(* epoll is level-triggered, so a ready channel is handled again; the     *)
(* user callback returns.  The peer keeps reading what it is sent.        *)
Fairness ==
    /\ WF_vars(RunIoTask) /\ WF_vars(HandleRead) /\ WF_vars(HandleWrite)
    /\ WF_vars(HandleError)
    /\ WF_vars(AppShutdown \/ AppReturn)
    /\ WF_vars(RemoveConnectionInLoop)
    /\ \A t \in Others : WF_vars(XQueue(t))
    /\ WF_vars(PeerRead)

Spec == Init /\ [][Next]_vars /\ Fairness

-----------------------------------------------------------------------------
TypeOK ==
    /\ state \in States
    /\ reading \in BOOLEAN /\ writing \in BOOLEAN /\ chanAdded \in BOOLEAN
    /\ sockShut \in BOOLEAN /\ inCallback \in BOOLEAN
    /\ outBuf \in Seq((1..MaxSends) \X (0..MsgLen))
    /\ \A i \in 1..Len(ioQ) : ioQ[i].op \in Ops
    /\ baseQ \in Nat /\ inReg \in BOOLEAN
    /\ xpc \in [Others -> {"idle", "sendInLoop", "shutdownInLoop"}]
    /\ xRef \in [Others -> BOOLEAN]
    /\ inBytes \in 0..MaxReqs /\ peerFin \in BOOLEAN /\ reset \in BOOLEAN
    /\ sockErr \in {"none", "ECONNRESET", "EPIPE"}
    /\ space \in 0..SndCap
    /\ writing => outBuf # <<>>

(* shutdown() never cuts off a response: when the socket is shut down,    *)
(* nothing is left in the output buffer unless the connection is already  *)
(* closed.  shutdownInLoop() defers while writing and handleWrite()       *)
(* resumes it once the buffer drains.                                      *)
ShutdownAfterDrain ==
    sockShut => (outBuf = <<>> \/ state = "Disconnected")

(* The step that shuts the socket down (shutdownInLoop(), directly or     *)
(* deferred to handleWrite()) leaves nothing in the output buffer unless  *)
(* the connection is already closed: the isWriting() test and             *)
(* handleWrite()'s resumption never cut off output already accepted,      *)
(* whichever thread called shutdown() and whatever send()s were queued    *)
(* around it.  (Bytes a late sendInLoop() adds after the shutdown are     *)
(* what ShutdownAfterDrain and NoSigpipe are about.)                       *)
ShutdownOnlyWhenDrained ==
    [][~sockShut /\ sockShut' => outBuf' = <<>> \/ state' = "Disconnected"]_vars

(* The two-hop removal: removeConnectionInLoop() and connectDestroyed()   *)
(* run at most once each, connectDestroyed() only after the registry      *)
(* entry is gone, and when the last TcpConnectionPtr is released the      *)
(* destructors' assertions hold: state_ == kDisconnected (TcpConnection)  *)
(* and !addedToLoop_ (Channel).                                            *)
DestroyedOnceAfterErase ==
    /\ removals <= 1 /\ destroyed <= 1
    /\ destroyed = 1 => ~inReg
    /\ Freed => (state = "Disconnected" /\ ~chanAdded)

(* A connection the peer closes is eventually closed, erased from         *)
(* A connection the peer closes or resets is eventually closed, erased    *)
(* from connections_ and removed from the poller (no leaked connection):  *)
(* after a reset, handleError or a failed read clears the error and the   *)
(* next read returns 0.                                                    *)
PeerCloseReleases ==
    (peerFin \/ reset) ~> Released

(* shutdown() takes effect: a Disconnecting connection whose peer keeps   *)
(* reading eventually reaches Disconnected (the output drains, the socket *)
(* is shut down, the read returns 0).                                      *)
ShutdownCompletes ==
    (state = "Disconnecting") ~> (state = "Disconnected")

(* The peer receives exactly the bytes that were sent, in the order the   *)
(* send() calls returned (spec: send order is preserved end-to-end, and   *)
(* no ill-formed partial response is emitted).                             *)
ReceivedIsSent ==
    IsPrefix(wire, Sent)

(* No write raises SIGPIPE: none hits a socket shut down for writing, by  *)
(* our shutdown or the peer's reset, without a pending ECONNRESET to      *)
(* report instead.  Nothing in the program ignores SIGPIPE, so such a     *)
(* write terminates the server.                                            *)
NoSigpipe ==
    ~sigpipe

(* No functor queued by send() or shutdown() runs after the connection    *)
(* was deleted (they are bound with the raw `this`).                      *)
NoUseAfterFree ==
    ~uaf

====
