----------------------------- MODULE EventLoop -----------------------------
(***************************************************************************)
(* The cross-thread task queue of one EventLoop (base/EventLoop.cc): the   *)
(* loop thread runs loop() -- poll, handle the active channels, drain the  *)
(* pending functors -- while other threads call queueInLoop() and quit().  *)
(* The wake-up eventfd is a flag: readable iff its counter is non-zero.    *)
(*                                                                         *)
(* Tasks are numbered in the order they are pushed under mutex_, so the    *)
(* number is also the queue position.  Running a functor may itself call   *)
(* queueInLoop() or quit() on the loop thread; a channel callback run in   *)
(* the handling phase may call queueInLoop() on the loop thread.           *)
(***************************************************************************)
EXTENDS Naturals, Sequences, SequencesExt

CONSTANTS
    Threads,    \* threads other than the loop's own thread
    MaxTasks    \* bound on the number of functors ever queued

ASSUME MaxTasks \in Nat \ {0}

VARIABLES
    lpc,        \* where the loop thread is inside loop()
    quit,       \* quit_
    wakeup,     \* the wakeup eventfd is readable (counter > 0)
    active,     \* poll() reported the wakeup channel in activeChannels_
    pending,    \* pendingFunctors_ (guarded by mutex_)
    functors,   \* the local vector swapped out by doPendingFunctors()
    calling,    \* callingPendingFunctors_
    tpc,        \* per other thread: "idle", or "wake" between unlock and wakeup()
    issued,     \* number of functors queued so far (history)
    ran,        \* functors run so far, in order (history)
    quitAt      \* -1, or the value of issued when quit() was first called (history)

vars == <<lpc, quit, wakeup, active, pending, functors, calling, tpc,
          issued, ran, quitAt>>

-----------------------------------------------------------------------------
(* queueInLoop(cb) called on the loop thread: push under the mutex, and    *)
(* wake up iff callingPendingFunctors_ (isInLoopThread() holds).           *)
PushFunctor ==
    /\ issued < MaxTasks
    /\ pending' = Append(pending, issued + 1)
    /\ issued' = issued + 1

(* Mutant: queueInLoop() on the loop thread never wakes (drops the        *)
(* callingPendingFunctors_ half of the condition).                         *)
QueueInLoopOnThreadNoWake ==
    /\ PushFunctor
    /\ wakeup' = wakeup

QueueInLoopOnThread ==
    /\ PushFunctor
    /\ wakeup' = (wakeup \/ calling)

(* quit() on the loop thread: no wakeup. *)
QuitOnThread ==
    /\ quit' = TRUE
    /\ quitAt' = IF quitAt = -1 THEN issued ELSE quitAt

(* loop(): looping_ = true; quit_ = false; then enter while (!quit_). *)
Start ==
    /\ lpc = "start"
    /\ quit' = FALSE
    /\ lpc' = "poll"
    /\ UNCHANGED <<wakeup, active, pending, functors, calling, tpc, issued,
                   ran, quitAt>>

(* poller_->poll(kPollTimeMs, &activeChannels_): returns on a ready fd or *)
(* on the 10 s timeout; the wakeup channel is active iff it is readable.   *)
Poll ==
    /\ lpc = "poll"
    /\ active' = wakeup
    /\ lpc' = "handle"
    /\ UNCHANGED <<quit, wakeup, pending, functors, calling, tpc, issued,
                   ran, quitAt>>

(* for each active channel: handleEvent().  The wakeup channel's           *)
(* handleWakeupRead() drains the eventfd; an I/O callback may call         *)
(* queueInLoop() on the loop thread (no wakeup: not calling functors).     *)
HandleEvents ==
    /\ lpc = "handle"
    /\ lpc' = "drain"
    /\ wakeup' = (wakeup /\ ~active)
    /\ \/ UNCHANGED <<pending, issued>>
       \/ PushFunctor
    /\ UNCHANGED <<quit, active, functors, calling, tpc, ran, quitAt>>

(* Mutant: copy the functors instead of swapping (pendingFunctors_ kept). *)
SwapFunctorsCopy ==
    /\ lpc = "drain"
    /\ calling' = TRUE
    /\ functors' = pending
    /\ lpc' = "run"
    /\ UNCHANGED <<quit, wakeup, active, tpc, issued, ran, quitAt, pending>>

(* doPendingFunctors(): callingPendingFunctors_ = true; swap under mutex. *)
SwapFunctors ==
    /\ lpc = "drain"
    /\ calling' = TRUE
    /\ functors' = pending
    /\ pending' = <<>>
    /\ lpc' = "run"
    /\ UNCHANGED <<quit, wakeup, active, tpc, issued, ran, quitAt>>

(* functor(): run the next swapped-out functor; it may queue another one  *)
(* or call quit() on the loop thread.                                      *)
RunFunctor ==
    /\ lpc = "run"
    /\ functors # <<>>
    /\ ran' = Append(ran, Head(functors))
    /\ functors' = Tail(functors)
    /\ \/ UNCHANGED <<pending, issued, wakeup, quit, quitAt>>
       \/ QueueInLoopOnThread /\ UNCHANGED <<quit, quitAt>>
       \/ QuitOnThread /\ UNCHANGED <<pending, issued, wakeup>>
    /\ UNCHANGED <<lpc, active, calling, tpc>>

(* callingPendingFunctors_ = false; then the while (!quit_) test. *)
EndDrain ==
    /\ lpc = "run"
    /\ functors = <<>>
    /\ calling' = FALSE
    /\ lpc' = IF quit THEN "done" ELSE "poll"
    /\ UNCHANGED <<quit, wakeup, active, pending, functors, tpc, issued,
                   ran, quitAt>>

(* queueInLoop(cb) from another thread: push under the mutex ...          *)
QueueInLoop(t) ==
    /\ tpc[t] = "idle"
    /\ issued < MaxTasks
    /\ pending' = Append(pending, issued + 1)
    /\ issued' = issued + 1
    /\ tpc' = [tpc EXCEPT ![t] = "wake"]
    /\ UNCHANGED <<lpc, quit, wakeup, active, functors, calling, ran, quitAt>>

(* ... and, after unlocking, wakeup() since !isInLoopThread().            *)
Wakeup(t) ==
    /\ tpc[t] = "wake"
    /\ wakeup' = TRUE
    /\ tpc' = [tpc EXCEPT ![t] = "idle"]
    /\ UNCHANGED <<lpc, quit, active, pending, functors, calling, issued,
                   ran, quitAt>>

(* quit() from another thread: quit_ = true, then wakeup().  Called once. *)
Quit(t) ==
    /\ tpc[t] = "idle"
    /\ quitAt = -1
    /\ quit' = TRUE
    /\ quitAt' = issued
    /\ tpc' = [tpc EXCEPT ![t] = "wake"]
    /\ UNCHANGED <<lpc, wakeup, active, pending, functors, calling, issued, ran>>

Init ==
    /\ lpc = "start"
    /\ quit = FALSE
    /\ wakeup = FALSE
    /\ active = FALSE
    /\ pending = <<>>
    /\ functors = <<>>
    /\ calling = FALSE
    /\ tpc = [t \in Threads |-> "idle"]
    /\ issued = 0
    /\ ran = <<>>
    /\ quitAt = -1

LoopStep == Start \/ Poll \/ HandleEvents \/ SwapFunctors \/ RunFunctor \/ EndDrain

Next ==
    \/ LoopStep
    \/ \E t \in Threads : QueueInLoop(t) \/ Wakeup(t) \/ Quit(t)
    \/ (lpc = "done" /\ \A t \in Threads : tpc[t] = "idle"
                     /\ UNCHANGED vars)

(* The loop thread and a thread inside queueInLoop()/quit() are scheduled *)
(* by the OS; nothing obliges a thread to call queueInLoop() or quit().   *)
Fairness ==
    /\ WF_vars(LoopStep)
    /\ \A t \in Threads : WF_vars(Wakeup(t))

Spec == Init /\ [][Next]_vars /\ Fairness

-----------------------------------------------------------------------------
(* No lost wake-up (EventLoop::queueInLoop): whenever the loop thread is  *)
(* about to block in poll() while a functor is queued, the wakeup eventfd *)
(* is readable or the thread that queued it is about to write it -- so    *)
(* the functor never waits for the 10 s poll timeout.  Both halves of the *)
(* condition `!isInLoopThread() || callingPendingFunctors_` are needed.   *)
NoLostWakeup ==
    (lpc = "poll" /\ pending # <<>>)
        => (wakeup \/ \E t \in Threads : tpc[t] = "wake")

(* EventLoop implements the FIFO executor of Executor.tla: the functors   *)
(* not yet run are the swapped-out vector followed by pendingFunctors_, a  *)
(* stop is asked for once quit() has been called, and the executor has    *)
(* stopped when loop() has returned.  The swap under mutex_ neither loses, *)
(* duplicates nor reorders a functor, a functor queued from inside a       *)
(* running functor or an I/O callback joins the back of the queue, and    *)
(* while loop() runs every queued functor is eventually run -- also when   *)
(* its wakeup() is late, since poll() times out.                           *)
Exec == INSTANCE Executor WITH queue <- functors \o pending, done <- ran,
                                stopAsked <- (quitAt # -1),
                                stopped <- (lpc = "done")

ImplementsExecutor == Exec!ESpec

(* quit() takes effect whenever it is called (spec: quit() from another   *)
(* thread makes loop() return in bounded time).                            *)
QuitStops ==
    (quitAt # -1) ~> (lpc = "done")

(* Every functor queued before quit() was called has run when loop()      *)
(* returns (the claim in TcpServer::~TcpServer that connectDestroyed,     *)
(* queued before the pool's quit(), is always executed).                  *)
QueuedBeforeQuitRuns ==
    (lpc = "done" /\ quitAt # -1) => \A i \in 1..quitAt : i \in ToSet(ran)

=============================================================================
