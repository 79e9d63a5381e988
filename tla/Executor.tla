------------------------------ MODULE Executor ------------------------------
(***************************************************************************)
(* What an EventLoop promises the threads that hand it work (spec: "tasks  *)
(* queued with runInLoop/queueInLoop run on the loop thread in the order   *)
(* queued"): a single FIFO run queue.  Any thread may submit a task at any *)
(* time; the executor runs the head of the queue, and a running task may   *)
(* itself submit another task or ask the executor to stop.  Once a stop is *)
(* asked for, the executor may stop; a stopped executor runs nothing more. *)
(* While it has not stopped, a queued task is eventually run.              *)
(*                                                                         *)
(* Tasks are numbered in submission order, as in EventLoop.tla.            *)
(***************************************************************************)
EXTENDS Naturals, Sequences

CONSTANT MaxTasks   \* bound on the number of tasks ever submitted

VARIABLES
    queue,          \* tasks submitted and not yet run, oldest first
    done,           \* tasks run, in the order they ran
    stopAsked,      \* a stop has been requested
    stopped         \* the executor has stopped

evars == <<queue, done, stopAsked, stopped>>

Submitted == Len(done) + Len(queue)

(* Append the next task number to a queue (the queue after the step). *)
Enqueue(q) ==
    /\ Submitted < MaxTasks
    /\ queue' = Append(q, Submitted + 1)

Submit ==
    /\ Enqueue(queue)
    /\ UNCHANGED <<done, stopAsked, stopped>>

RequestStop ==
    /\ stopAsked' = TRUE
    /\ UNCHANGED <<queue, done, stopped>>

(* Run the oldest task; while it runs it may submit a task or ask to stop. *)
RunTask ==
    /\ ~stopped
    /\ queue # <<>>
    /\ done' = Append(done, Head(queue))
    /\ \/ queue' = Tail(queue) /\ UNCHANGED stopAsked
       \/ Enqueue(Tail(queue)) /\ UNCHANGED stopAsked
       \/ queue' = Tail(queue) /\ stopAsked' = TRUE
    /\ UNCHANGED stopped

Stop ==
    /\ stopAsked
    /\ ~stopped
    /\ stopped' = TRUE
    /\ UNCHANGED <<queue, done, stopAsked>>

EInit ==
    /\ queue = <<>>
    /\ done = <<>>
    /\ stopAsked = FALSE
    /\ stopped = FALSE

ENext == Submit \/ RequestStop \/ RunTask \/ Stop

ESpec == EInit /\ [][ENext]_evars /\ WF_evars(RunTask)

=============================================================================
