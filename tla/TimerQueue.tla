----------------------------- MODULE TimerQueue -----------------------------
(***************************************************************************)
(* The TimerQueue of one EventLoop (base/TimerQueue.cc).  Everything runs  *)
(* on the loop thread; the interleaving that matters is between the        *)
(* callbacks of one expired batch (which may call cancel() or addTimer())  *)
(* and the rest of the loop.                                               *)
(*                                                                         *)
(* A Timer lives at a heap address; `new Timer` may return any free        *)
(* address, so an address is reused after `delete`.  A TimerId is the     *)
(* pair <<address, sequence>>.  Time is counted in units of the 100 us     *)
(* clamp of howMuchTimeFromNow().                                          *)
(***************************************************************************)
EXTENDS Naturals, FiniteSets

CONSTANTS
    Addrs,      \* heap addresses a Timer can be allocated at
    MaxTimers,  \* bound on the number of Timers ever created (s_numCreated_)
    MaxTime,    \* bound on the clock
    Delays,     \* delays / intervals passed to runAfter() and runEvery()
    Free        \* a heap address holding no Timer

ASSUME /\ MaxTimers \in Nat \ {0}
       /\ MaxTime \in Nat
       /\ Delays \subseteq Nat \ {0}

VARIABLES
    heap,         \* address -> the Timer object there, or Free
    timers,       \* timers_: set of entries <<expiration, address>>
    activeTimers, \* activeTimers_: set of addresses
    cancelling,   \* cancellingTimers_
    calling,      \* callingExpiredTimers_
    batch,        \* the vector `expired` of the running handleRead()
    toRun,        \* entries of batch whose callback has not run yet
    now,          \* Timestamp::now()
    fdExp,        \* time the timerfd is armed for, or 0 when disarmed
    numCreated,   \* Timer::s_numCreated_
    ids,          \* TimerIds handed out by addTimer()
    cancelled,    \* sequences of the TimerIds passed to cancel() (history)
    stopped,      \* ... of those, the ones not firing when cancelled (history)
    repeating,    \* sequences of the timers created by runEvery() (history)
    fireCount     \* sequence -> number of times its callback ran (history)

vars == <<heap, timers, activeTimers, cancelling, calling, batch, toRun, now,
          fdExp, numCreated, ids, cancelled, stopped, repeating, fireCount>>

Seqs == 0..(MaxTimers - 1)
TimerRec == [exp : Nat, interval : Nat, seq : Seqs]

MinOf(S) == CHOOSE x \in S : \A y \in S : x <= y
MaxOf(a, b) == IF a >= b THEN a ELSE b

Addr(e) == e[2]
Exp(e) == e[1]
SeqAt(a) == heap[a].seq

(* howMuchTimeFromNow(): at least one clamp unit from now. *)
ArmAt(exp) == MaxOf(exp, now + 1)

(* The sequences of the timers still scheduled: in timers_ or firing. *)
ScheduledSeqs ==
    {SeqAt(Addr(e)) : e \in timers} \cup {SeqAt(Addr(e)) : e \in toRun}

-----------------------------------------------------------------------------
(* new Timer(cb, when, interval) for runAfter(d) or runEvery(d): the      *)
(* expiration d from now, interval_ d for runEvery and 0 otherwise, and   *)
(* sequence_ taken from s_numCreated_.                                     *)
NewTimer(d, rep) ==
    [exp |-> now + d, interval |-> IF rep THEN d ELSE 0, seq |-> numCreated]

(* Timer::restart(now) of a repeating timer: expiration_ = now + interval_. *)
Restart(t) == [t EXCEPT !.exp = now + t.interval]

AddTimerInLoop(d, rep) ==
    \E a \in Addrs :
        LET t == NewTimer(d, rep)
            earliestChanged == timers = {} \/ t.exp < MinOf({Exp(e) : e \in timers})
        IN /\ numCreated < MaxTimers
           /\ heap[a] = Free
           /\ heap' = [heap EXCEPT ![a] = t]
           /\ timers' = timers \cup {<<t.exp, a>>}
           /\ activeTimers' = activeTimers \cup {a}
           /\ fdExp' = IF earliestChanged THEN ArmAt(t.exp) ELSE fdExp
           /\ numCreated' = numCreated + 1
           /\ ids' = ids \cup {<<a, t.seq>>}
           /\ repeating' = IF rep THEN repeating \cup {t.seq} ELSE repeating

(* Mutant: cancelInLoop() that only defers (as if always calling).        *)
CancelInLoopDeferOnly(id) ==
    /\ cancelled' = cancelled \cup {id[2]}
    /\ stopped' = IF \E e \in toRun : Addr(e) = id[1] /\ heap[id[1]] # Free
                                       /\ SeqAt(id[1]) = id[2]
                  THEN stopped ELSE stopped \cup {id[2]}
    /\ cancelling' = cancelling \cup {id[1]}
    /\ UNCHANGED <<timers, heap, activeTimers>>

(* cancel(timerId) -> cancelInLoop(): looked up by address only.          *)
CancelInLoop(id) ==
    LET a == id[1] IN
    /\ cancelled' = cancelled \cup {id[2]}
    /\ stopped' = IF \E e \in toRun : Addr(e) = a /\ heap[a] # Free /\ SeqAt(a) = id[2]
                  THEN stopped ELSE stopped \cup {id[2]}
    /\ IF a \in activeTimers
       THEN /\ timers' = timers \ {<<heap[a].exp, a>>}
            /\ heap' = [heap EXCEPT ![a] = Free]
            /\ activeTimers' = activeTimers \ {a}
            /\ UNCHANGED cancelling
       ELSE /\ cancelling' = IF calling THEN cancelling \cup {a} ELSE cancelling
            /\ UNCHANGED <<timers, heap, activeTimers>>

AddTimer(d, rep) ==
    /\ ~calling
    /\ AddTimerInLoop(d, rep)
    /\ UNCHANGED <<cancelling, calling, batch, toRun, now, cancelled, stopped,
                   fireCount>>

Cancel(id) ==
    /\ ~calling
    /\ CancelInLoop(id)
    /\ UNCHANGED <<calling, batch, toRun, now, fdExp, numCreated, ids,
                   repeating, fireCount>>

(* Time passes while the loop is outside handleRead(). *)
Tick ==
    /\ ~calling
    /\ now < MaxTime
    /\ now' = now + 1
    /\ UNCHANGED <<heap, timers, activeTimers, cancelling, calling, batch,
                   toRun, fdExp, numCreated, ids, cancelled, stopped,
                   repeating, fireCount>>

(* Mutant: getExpired() that leaves the entries in activeTimers_. *)
HandleReadKeepActive ==
    LET due == {e \in timers : Exp(e) <= now} IN
    /\ ~calling
    /\ fdExp # 0
    /\ fdExp <= now
    /\ fdExp' = 0
    /\ batch' = due
    /\ toRun' = due
    /\ timers' = timers \ due
    /\ calling' = TRUE
    /\ UNCHANGED <<heap, activeTimers, cancelling, now, numCreated, ids,
                   cancelled, stopped, repeating, fireCount>>

(* handleRead(), up to the callbacks: the timerfd is readable; read it,   *)
(* getExpired(now) moves every entry with expiration <= now out of both   *)
(* sets, and callingExpiredTimers_ = true.                                 *)
HandleRead ==
    LET due == {e \in timers : Exp(e) <= now} IN
    /\ ~calling
    /\ fdExp # 0
    /\ fdExp <= now
    /\ fdExp' = 0
    /\ batch' = due
    /\ toRun' = due
    /\ timers' = timers \ due
    /\ activeTimers' = activeTimers \ {Addr(e) : e \in due}
    /\ calling' = TRUE
    /\ UNCHANGED <<heap, cancelling, now, numCreated, ids, cancelled, stopped,
                   repeating, fireCount>>

(* it.second->run(): the callbacks run in (expiration, address) order;    *)
(* addresses have no order the program controls, so ties are any order.  *)
(* A callback may call cancel() or addTimer() on this loop.                *)
RunTimer ==
    \E e \in toRun :
        /\ \A f \in toRun : Exp(e) <= Exp(f)
        /\ toRun' = toRun \ {e}
        /\ fireCount' = [fireCount EXCEPT ![SeqAt(Addr(e))] = @ + 1]
        /\ \/ UNCHANGED <<heap, timers, activeTimers, cancelling, fdExp,
                          numCreated, ids, cancelled, stopped, repeating>>
           \/ \E id \in ids :
                 /\ CancelInLoop(id)
                 /\ UNCHANGED <<fdExp, numCreated, ids, repeating>>
           \/ \E d \in Delays, rep \in BOOLEAN :
                 /\ AddTimerInLoop(d, rep)
                 /\ UNCHANGED <<cancelling, cancelled, stopped>>
        /\ UNCHANGED <<calling, batch, now>>

(* Mutant: reset() that restarts every repeating timer, ignoring          *)
(* cancellingTimers_.                                                      *)
ResetExpiredIgnoreCancelling ==
    LET again == {e \in batch : heap[Addr(e)].interval > 0}
        gone  == {Addr(e) : e \in batch \ again}
        newTimers == timers \cup {<<now + heap[Addr(e)].interval, Addr(e)>> : e \in again}
    IN
    /\ toRun = {}
    /\ calling = TRUE
    /\ calling' = FALSE
    /\ heap' = [a \in Addrs |-> IF a \in gone THEN Free
                                ELSE IF a \in {Addr(e) : e \in again}
                                     THEN Restart(heap[a])
                                ELSE heap[a]]
    /\ timers' = newTimers
    /\ activeTimers' = activeTimers \cup {Addr(e) : e \in again}
    /\ fdExp' = IF newTimers = {} THEN fdExp
                ELSE ArmAt(MinOf({Exp(e) : e \in newTimers}))
    /\ cancelling' = {}
    /\ batch' = {}
    /\ UNCHANGED <<toRun, now, numCreated, ids, cancelled, stopped, repeating,
                   fireCount>>

(* callingExpiredTimers_ = false; reset(expired, now): a repeating timer  *)
(* not in cancellingTimers_ is restarted and re-inserted, every other one *)
(* is deleted; the timerfd is re-armed for the earliest entry; then       *)
(* cancellingTimers_.clear().                                              *)
ResetExpired ==
    LET again == {e \in batch : heap[Addr(e)].interval > 0
                                /\ Addr(e) \notin cancelling}
        gone  == {Addr(e) : e \in batch \ again}
        newTimers == timers \cup {<<now + heap[Addr(e)].interval, Addr(e)>> : e \in again}
    IN
    /\ toRun = {}
    /\ calling = TRUE
    /\ calling' = FALSE
    /\ heap' = [a \in Addrs |-> IF a \in gone THEN Free
                                ELSE IF a \in {Addr(e) : e \in again} THEN Restart(heap[a])
                                ELSE heap[a]]
    /\ timers' = newTimers
    /\ activeTimers' = activeTimers \cup {Addr(e) : e \in again}
    /\ fdExp' = IF newTimers = {} THEN fdExp
                ELSE ArmAt(MinOf({Exp(e) : e \in newTimers}))
    /\ cancelling' = {}
    /\ batch' = {}
    /\ UNCHANGED <<toRun, now, numCreated, ids, cancelled, stopped, repeating,
                   fireCount>>

Init ==
    /\ heap = [a \in Addrs |-> Free]
    /\ timers = {}
    /\ activeTimers = {}
    /\ cancelling = {}
    /\ calling = FALSE
    /\ batch = {}
    /\ toRun = {}
    /\ now = 0
    /\ fdExp = 0
    /\ numCreated = 0
    /\ ids = {}
    /\ cancelled = {}
    /\ stopped = {}
    /\ repeating = {}
    /\ fireCount = [s \in Seqs |-> 0]

Next ==
    \/ \E d \in Delays, rep \in BOOLEAN : AddTimer(d, rep)
    \/ \E id \in ids : Cancel(id)
    \/ Tick
    \/ HandleRead
    \/ RunTimer
    \/ ResetExpired
    \/ (now = MaxTime /\ ~calling /\ UNCHANGED vars)  \* the clock bound: idle

Spec == Init /\ [][Next]_vars

-----------------------------------------------------------------------------
(* No dangling Timer*: every address in timers_, activeTimers_ or the     *)
(* running batch holds a live Timer whose expiration is the entry's key,  *)
(* each live timer has exactly one entry, and timers_ and activeTimers_   *)
(* name the same timers (the assertions of insert()/cancelInLoop()).      *)
NoDanglingTimer ==
    /\ activeTimers = {Addr(e) : e \in timers}
    /\ Cardinality(activeTimers) = Cardinality(timers)
    /\ \A e \in timers \cup batch : heap[Addr(e)] # Free
    /\ \A e \in timers : heap[Addr(e)].exp = Exp(e)
    /\ activeTimers \cap {Addr(e) : e \in batch} = {}

CancelledTimerNeverRuns ==
    [][\A s \in stopped : fireCount'[s] = fireCount[s]]_vars

(* A cancelled timer is never scheduled again: in particular a repeating  *)
(* timer cancelled from inside its own callback is not re-inserted by     *)
(* reset() (cancellingTimers_).                                            *)
CancelledNotRescheduled ==
    \A a \in activeTimers : SeqAt(a) \notin cancelled

(* cancel() only ever stops the timer it names: a timer whose TimerId was *)
(* never cancelled is still scheduled, or was a one-shot that has fired   *)
(* (spec: TimerId pairs the address with a sequence number that           *)
(* cancellation checks).                                                   *)
NoLostTimer ==
    \A s \in 0..(numCreated - 1) :
        \/ s \in cancelled
        \/ s \in ScheduledSeqs
        \/ (s \notin repeating /\ fireCount[s] > 0)

=============================================================================
