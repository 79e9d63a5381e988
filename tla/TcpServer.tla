----------------------------- MODULE TcpServer -----------------------------
(***************************************************************************)
(* The accept path of TcpServer (TcpServer.cc 66-97) as HttpServer's main  *)
(* drives it: setThreadNum(N), then start() on the base thread, which     *)
(* starts the loop pool and runs Acceptor::listen in the base loop (the   *)
(* caller is the loop thread, so runInLoop runs it at once); then         *)
(* loop.loop() polls the listening channel, and each readable event runs  *)
(* Acceptor::handleRead, whose callback newConnection hands the socket to *)
(* getNextLoop().  The I/O threads close connections and, in SpecFiles,   *)
(* open the static files they serve.                                      *)
(***************************************************************************)
EXTENDS EventLoopThreadPool, Acceptor, Sequences

VARIABLE assigned  \* assigned[k]: the loop of the k-th connection newConnection made

vars == <<poolVars, accVars, assigned>>

Init == PoolInit /\ AcceptorInit /\ assigned = <<>>

\* start(): started_.compare_exchange_strong, then threadPool_->start
Start == PoolStart /\ UNCHANGED <<accVars, assigned>>

PoolStep ==
    /\ CreateThread \/ LatchWait \/ CheckLoop \/ Woken
       \/ \E i \in Threads : RunInThread(i) \/ Publish(i) \/ StartLooping(i)
    /\ UNCHANGED <<accVars, assigned>>

\* start(), after the pool: loop_->runInLoop(Acceptor::listen)
StartListening == bpc = "done" /\ Listen /\ UNCHANGED <<poolVars, assigned>>

\* handleRead() -> newConnection(sockfd): ioLoop = getNextLoop(), the
\* TcpConnection registered and connectEstablished queued on ioLoop
NewConnection ==
    /\ AcceptOk
    /\ assigned' = Append(assigned, GetNextLoop)
    /\ AdvanceNext
    /\ UNCHANGED <<started, bpc, cur, thr, latch, ploop, signalled, loops>>

AcceptorStep == (HandleRead \/ Arrive \/ ConnClose) /\ UNCHANGED <<poolVars, assigned>>
FileStep == (OpenFile \/ CloseFile) /\ UNCHANGED <<poolVars, assigned>>

Next == Start \/ PoolStep \/ StartListening \/ NewConnection \/ AcceptorStep

\* Next with the I/O threads opening static files
NextFiles == Next \/ FileStep

(***************************************************************************)
(* Fairness: every thread that can run eventually does.  The base thread   *)
(* runs start() and then its loop; a wait on cond_ ends when notify() has *)
(* reached it (a spurious wake-up is allowed, not required); each I/O     *)
(* thread runs threadFunc to loop(); the base loop keeps handling the     *)
(* readable listening fd; an I/O thread that opened a file closes it a    *)
(* few lines later.  Clients and connection teardown are the              *)
(* environment and need not act.                                          *)
(***************************************************************************)
Fairness ==
    /\ WF_vars(Start)
    /\ WF_vars(CreateThread /\ UNCHANGED <<accVars, assigned>>)
    /\ WF_vars(LatchWait /\ UNCHANGED <<accVars, assigned>>)
    /\ WF_vars(CheckLoop /\ UNCHANGED <<accVars, assigned>>)
    /\ WF_vars(signalled[cur] /\ Woken /\ UNCHANGED <<accVars, assigned>>)
    /\ \A i \in Threads :
          WF_vars((RunInThread(i) \/ Publish(i) \/ StartLooping(i))
                  /\ UNCHANGED <<accVars, assigned>>)
    /\ WF_vars(StartListening)
    /\ WF_vars(NewConnection)
    /\ WF_vars(HandleRead /\ UNCHANGED <<poolVars, assigned>>)

Spec == Init /\ [][Next]_vars /\ Fairness

SpecFiles ==
    Init /\ [][NextFiles]_vars /\ Fairness /\ WF_vars(CloseFile /\ UNCHANGED <<poolVars, assigned>>)

-----------------------------------------------------------------------------
TypeOK ==
    /\ bpc \in {"init", "create", "latch", "check", "wait", "done"}
    /\ cur \in Threads \cup {0}
    /\ thr \in [Threads -> {"none", "spawned", "func", "published", "looping"}]
    /\ loops \in Seq(Threads \cup {Garbage})
    \* next_ always indexes loops_ (0 when there are no threads)
    /\ next \in IF NThreads = 0 THEN {0} ELSE Threads
    /\ idleFd \in {"open", "closed", "evict", "-1"}
    /\ apc \in {"idle", "emfile", "closedIdle", "accepted", "reopen"}
    /\ free \in 0..FdLimit /\ pending \in 0..NConn
    /\ conns + evicted + pending <= arrived
    /\ assigned \in Seq(Threads \cup {BaseLoop, Garbage})

(***************************************************************************)
(* startLoop() returns only a loop its thread has published: the k-th     *)
(* entry of loops_ is the EventLoop of thread k-1, set under mutex_, and  *)
(* once start() returns loops_ has one per thread (the asserts at         *)
(* EventLoopThreadPool.cc 28-29), whatever spurious wake-ups cond_.wait()  *)
(* has and however the new threads' steps interleave with the base's.     *)
(***************************************************************************)
LoopsPublished ==
    /\ \A k \in 1..Len(loops) : loops[k] = k - 1 /\ ploop[k - 1]
    /\ bpc = "done" => Len(loops) = NThreads

(***************************************************************************)
(* getNextLoop is strict round-robin (spec 4.6): the k-th connection goes *)
(* to worker (k-1) mod N, or to the base loop when N = 0.                 *)
(***************************************************************************)
RoundRobin ==
    \A k \in 1..Len(assigned) :
        assigned[k] = IF NThreads = 0 THEN BaseLoop ELSE (k - 1) % NThreads

(***************************************************************************)
(* The EMFILE dance keeps the listen queue moving (spec 4.7): every       *)
(* connection that arrives is eventually either handed to newConnection   *)
(* or accepted and closed by handleRead, even when connections hold every *)
(* fd and none is ever closed.                                            *)
(***************************************************************************)
PendingHandled ==
    \A k \in 1..NConn : (arrived >= k) ~> (Len(assigned) + evicted >= k)

(***************************************************************************)
(* The server survives fd exhaustion: no LOG_SYSFATAL aborts it.          *)
(***************************************************************************)
NoAbort == ~aborted

(***************************************************************************)
(* Between two handleRead() calls idleFd_ holds its /dev/null slot, ready *)
(* to be given up at the next EMFILE.                                     *)
(***************************************************************************)
IdleHeld == apc = "idle" => idleFd = "open"
=============================================================================
