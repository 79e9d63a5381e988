------------------------- MODULE EventLoopThreadPool -------------------------
(***************************************************************************)
(* EventLoopThreadPool::start (EventLoopThreadPool.cc 15-34) on the base   *)
(* thread, and the threads it starts.  For each I/O thread the base        *)
(* thread constructs an EventLoopThread and calls startLoop(): Thread::    *)
(* start() (Thread.cc 88-101) creates the pthread and waits on a           *)
(* CountDownLatch for its tid, then, under mutex_, waits on cond_ until    *)
(* ploop_ is set.  The new thread (ThreadData::runInThread, then           *)
(* EventLoopThread::threadFunc) sets the tid and counts the latch down,    *)
(* constructs its EventLoop, publishes &loop under mutex_ with notify(),   *)
(* and enters loop().  Each critical section under mutex_ is one step; a   *)
(* Condition::wait may also return without a notify (pthread_cond_wait's   *)
(* spurious wake-up).  getNextLoop is the round-robin over loops_.         *)
(***************************************************************************)
EXTENDS Integers, Sequences

CONSTANT NThreads   \* numThreads_ (setThreadNum)

Threads == 0..NThreads - 1
\* loops are named by their thread's index; two more EventLoop* values:
BaseLoop == -1   \* baseLoop_
Garbage  == -2   \* what loops_[k] reads past the end of the vector

VARIABLES
    started,    \* EventLoopThreadPool::started_
    bpc,        \* the base thread: "init", "create", "latch", "check",
                \* "wait", then "done" when start() has returned
    cur,        \* the loop index i of start()
    thr,        \* thr[i]: "none", "spawned", "func", "published", "looping"
    latch,      \* latch[i]: Thread::latch_ count
    ploop,      \* ploop[i]: EventLoopThread::ploop_ is set
    signalled,  \* signalled[i]: a notify() reached the waiting base thread
    loops,      \* loops_: the loop each startLoop() returned
    next        \* next_

poolVars == <<started, bpc, cur, thr, latch, ploop, signalled, loops, next>>

PoolInit ==
    /\ started = FALSE
    /\ bpc = "init"
    /\ cur = 0
    /\ thr = [i \in Threads |-> "none"]
    /\ latch = [i \in Threads |-> 1]
    /\ ploop = [i \in Threads |-> FALSE]
    /\ signalled = [i \in Threads |-> FALSE]
    /\ loops = <<>>
    /\ next = 0

\* start(): with no threads it returns at once
PoolStart ==
    /\ bpc = "init"
    /\ started' = TRUE
    /\ bpc' = IF NThreads = 0 THEN "done" ELSE "create"
    /\ UNCHANGED <<cur, thr, latch, ploop, signalled, loops, next>>

\* new EventLoopThread, startLoop(): thread_.start() creates the pthread
CreateThread ==
    /\ bpc = "create"
    /\ thr' = [thr EXCEPT ![cur] = "spawned"]
    /\ bpc' = "latch"
    /\ UNCHANGED <<started, cur, latch, ploop, signalled, loops, next>>

\* latch_.wait() in Thread::start
LatchWait ==
    /\ bpc = "latch" /\ latch[cur] = 0
    /\ bpc' = "check"
    /\ UNCHANGED <<started, cur, thr, latch, ploop, signalled, loops, next>>

\* the loop pointer startLoop() returns, and start() moving to the next thread
TakeLoop ==
    /\ loops' = Append(loops, IF ploop[cur] THEN cur ELSE Garbage)
    /\ IF cur + 1 < NThreads THEN cur' = cur + 1 /\ bpc' = "create"
                             ELSE bpc' = "done" /\ UNCHANGED cur

\* lock; while (ploop_ == nullptr) cond_.wait(); loop = ploop_; unlock
CheckLoop ==
    /\ bpc = "check"
    /\ IF ploop[cur] THEN TakeLoop ELSE bpc' = "wait" /\ UNCHANGED <<cur, loops>>
    /\ UNCHANGED <<started, thr, latch, ploop, signalled, next>>

\* mutant: the wait is an if, not a while: ploop_ is taken on any wake-up
WokenIf ==
    /\ bpc = "wait"
    /\ TakeLoop
    /\ signalled' = [signalled EXCEPT ![cur] = FALSE]
    /\ UNCHANGED <<started, thr, latch, ploop, next>>

\* cond_.wait() returns, on a notify or spuriously, with mutex_ held again
Woken ==
    /\ bpc = "wait"
    /\ bpc' = "check"
    /\ signalled' = [signalled EXCEPT ![cur] = FALSE]
    /\ UNCHANGED <<started, cur, thr, latch, ploop, loops, next>>

\* ThreadData::runInThread: *p_tid_ = tid; p_latch_->countDown()
RunInThread(i) ==
    /\ thr[i] = "spawned"
    /\ latch' = [latch EXCEPT ![i] = 0]
    /\ thr' = [thr EXCEPT ![i] = "func"]
    /\ UNCHANGED <<started, bpc, cur, ploop, signalled, loops, next>>

\* threadFunc: EventLoop loop; then ploop_ = &loop; cond_.notify() under mutex_
Publish(i) ==
    /\ thr[i] = "func"
    /\ ploop' = [ploop EXCEPT ![i] = TRUE]
    /\ signalled' = [signalled EXCEPT ![i] = (bpc = "wait" /\ cur = i)]
    /\ thr' = [thr EXCEPT ![i] = "published"]
    /\ UNCHANGED <<started, bpc, cur, latch, loops, next>>

\* loop.loop()
StartLooping(i) ==
    /\ thr[i] = "published"
    /\ thr' = [thr EXCEPT ![i] = "looping"]
    /\ UNCHANGED <<started, bpc, cur, latch, ploop, signalled, loops, next>>

\* loops_[k], 0-based; past the end it reads whatever lies there
LoopAt(k) == IF k < Len(loops) THEN loops[k + 1] ELSE Garbage

\* mutant: next_ wraps only when it passes numThreads_
NextIndexLate(n) == IF n + 1 > NThreads THEN 0 ELSE n + 1

\* ++next_; if (next_ >= numThreads_) next_ = 0
NextIndex(n) == IF n + 1 >= NThreads THEN 0 ELSE n + 1

\* getNextLoop(): the loop a new connection goes to, and next_ after it
GetNextLoop == IF loops = <<>> THEN BaseLoop ELSE LoopAt(next)
AdvanceNext == next' = IF loops = <<>> THEN next ELSE NextIndex(next)

PoolNext ==
    \/ PoolStart \/ CreateThread \/ LatchWait \/ CheckLoop \/ Woken
    \/ \E i \in Threads : RunInThread(i) \/ Publish(i) \/ StartLooping(i)
=============================================================================
