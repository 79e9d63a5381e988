---------------------------- MODULE AsyncLogging ----------------------------
(***************************************************************************)
(* AsyncLogging (base/AsyncLogging.cc 127-233): the double-buffered log    *)
(* pipeline.  Front ends append log lines to currentBuffer_ under mutex_;  *)
(* a full buffer is pushed onto buffers_ and replaced by nextBuffer_ (or a *)
(* new buffer) and cond_ is signalled.  The backend thread waits on cond_  *)
(* for at most flushInterval_ seconds, swaps buffers_ out under the lock,  *)
(* writes the buffers outside it, drops all but two when more than 25 are *)
(* queued, and recycles two written buffers as newBuffer1/newBuffer2.      *)
(*                                                                         *)
(* A log line is its sequence number 1..NMsg and takes one unit of a      *)
(* buffer of BufCap units.  Every append holds mutex_, so it is one step;  *)
(* the backend's critical section (lines 191-201) is one step too, and its *)
(* wait releases the lock.  The front end is one thread: appends under the *)
(* same mutex from more threads interleave in the same way.                *)
(*                                                                         *)
(* The backend writes through the LogFile of LogFile.tla, which it        *)
(* constructs at the top of threadFunc; a line is one byte of it.  now is *)
(* what time() returns, in seconds; it only moves forward.                *)
(***************************************************************************)
EXTENDS Naturals, Sequences, SequencesExt, FiniteSets, LogFile

CONSTANTS
    NMsg,       \* number of log lines the front end writes
    BufCap,     \* FixedBuffer size, in units of one log line
    DropAbove,  \* buffersToWrite.size() > 25 starts dropping
    MaxTime     \* the last second the model reaches

ASSUME NMsg \in Nat \ {0} /\ BufCap \in Nat \ {0, 1} /\ DropAbove \in Nat \ {0, 1}

Msg == 1..NMsg

VARIABLES
    running,    \* running_
    fpc,        \* front end: "run", "join" (inside stop()), "exited"
    sent,       \* lines appended so far
    current,    \* currentBuffer_'s content
    hasNext,    \* nextBuffer_ != nullptr (it is always empty)
    buffers,    \* buffers_: the full buffers' contents, oldest first
    signalled,  \* cond_ was signalled while the backend waited
    bpc,        \* backend: "check", "lock", "waiting", "write", "recycle", "done"
    toWrite,    \* buffersToWrite
    new1, new2, \* newBuffer1 / newBuffer2 != nullptr (they are empty)
    logFile,    \* the backend's LogFile (LogFile.tla)
    now,        \* time(nullptr)
    lastWritten,\* the last line written, 0 before any
    dropped     \* lines thrown away by the 25-buffer limit

front == <<running, fpc, sent>>
queue == <<current, hasNext, buffers, signalled>>
back  == <<bpc, toWrite, new1, new2>>
file  == <<logFile, lastWritten, dropped>>
vars  == <<front, queue, back, file, now>>

Lines(bufs) == UNION {ToSet(bufs[k]) : k \in 1..Len(bufs)}

\* the "Dropped log messages" line the backend writes before a drop
DropNote == 0

\* the lines in the log files
Written == UNION {logFile.files[n] : n \in DOMAIN logFile.files} \ {DropNote}

\* the constructor and start(): two empty front buffers, running_ = true;
\* threadFunc's LogFile file(basename_, rollSize_, false)
Init ==
    /\ running = TRUE /\ fpc = "run" /\ sent = 0
    /\ current = <<>> /\ hasNext = TRUE /\ buffers = <<>> /\ signalled = FALSE
    /\ bpc = "check" /\ toWrite = <<>> /\ new1 = TRUE /\ new2 = TRUE
    /\ now = 0 /\ logFile = LogFileInit(0) /\ lastWritten = 0 /\ dropped = {}

\* cond_.notify(): wakes the backend if it waits, and is lost otherwise
Notify == signalled' = (signalled \/ bpc = "waiting")

\* mutant: avail() >= len
FitsOffByOne(buf) == BufCap - Len(buf) >= 1

\* FixedBuffer::avail() > len, with len one unit
Fits(buf) == BufCap - Len(buf) > 1

(***************************************************************************)
(* AsyncLogging::append (159-175), the Logger's output function.           *)
(***************************************************************************)
\* mutant: a full buffer is replaced without being queued
AppendLostBuffer ==
    /\ sent < NMsg
    /\ sent' = sent + 1
    /\ \/ /\ Fits(current)
          /\ current' = Append(current, sent + 1)
          /\ UNCHANGED <<hasNext, buffers, signalled>>
       \/ /\ ~Fits(current)
          /\ current' = <<sent + 1>>
          /\ hasNext' = FALSE
          /\ Notify
          /\ UNCHANGED buffers

AppendToBuffer ==
    /\ sent < NMsg
    /\ sent' = sent + 1
    /\ \/ /\ Fits(current)
          /\ current' = Append(current, sent + 1)
          /\ UNCHANGED <<hasNext, buffers, signalled>>
       \/ /\ ~Fits(current)
          /\ buffers' = Append(buffers, current)
          \* nextBuffer_ if there is one, else a new Buffer: both are empty
          /\ current' = <<sent + 1>>
          /\ hasNext' = FALSE
          /\ Notify

(***************************************************************************)
(* Logger::~Logger (Logging.cc 96-104): the record, ended by '\n', goes to *)
(* g_output, which useAsyncLog (Logging.cc 106-112) set to append().  A    *)
(* FATAL record (LOG_FATAL, LOG_SYSFATAL) then calls g_flush() and abort().*)
(* useAsyncLog never calls setFlush, so g_flush is still defaultFlush,     *)
(* which flushes stdout only; abort() ends the process, backend included.  *)
(***************************************************************************)
AppendLine ==
    /\ fpc = "run"
    /\ AppendToBuffer
    /\ UNCHANGED <<running, fpc, back, file, now>>

LogFatal ==
    /\ fpc = "run"
    /\ AppendToBuffer
    /\ fpc' = "aborted"
    /\ UNCHANGED <<running, back, file, now>>

\* stop() (153-157), from ~AsyncLogging: running_ = false, notify, join
Stop ==
    /\ fpc = "run"
    /\ running' = FALSE
    /\ Notify
    /\ fpc' = "join"
    /\ UNCHANGED <<sent, current, hasNext, buffers, back, file, now>>

Join ==
    /\ fpc = "join" /\ bpc = "done"
    /\ fpc' = "exited"
    /\ UNCHANGED <<running, sent, queue, back, file, now>>

(***************************************************************************)
(* AsyncLogging::threadFunc (177-233).                                      *)
(***************************************************************************)
\* mutant: the loop tests a copy of running_ read before it
CheckStaleRunning ==
    /\ bpc = "check"
    /\ bpc' = "lock"
    /\ UNCHANGED <<front, queue, toWrite, new1, new2, file, now>>

\* while (running_) ... ; file.flush() after the loop
Check ==
    /\ bpc = "check"
    /\ bpc' = IF running THEN "lock" ELSE "done"
    /\ UNCHANGED <<front, queue, toWrite, new1, new2, file, now>>

\* the critical section after the wait: lines 195-200
\* mutant: currentBuffer_ is replaced without being queued
SwapOutDropCurrent ==
    /\ toWrite' = buffers
    /\ buffers' = toWrite
    /\ current' = <<>> /\ new1' = FALSE
    /\ hasNext' = (hasNext \/ new2) /\ new2' = (new2 /\ hasNext)
    /\ signalled' = FALSE
    /\ bpc' = "write"

SwapOut ==
    /\ toWrite' = Append(buffers, current)
    /\ buffers' = toWrite
    /\ current' = <<>> /\ new1' = FALSE
    /\ hasNext' = (hasNext \/ new2) /\ new2' = (new2 /\ hasNext)
    /\ signalled' = FALSE
    /\ bpc' = "write"

\* lock; if (buffers_.empty()) cond_.waitForSeconds(flushInterval_)
Lock ==
    /\ bpc = "lock"
    /\ \/ buffers = <<>> /\ bpc' = "waiting" /\ UNCHANGED <<current, hasNext, buffers, signalled, toWrite, new1, new2>>
       \/ buffers # <<>> /\ SwapOut
    /\ UNCHANGED <<front, file, now>>

\* woken by notify()
Signalled ==
    /\ bpc = "waiting" /\ signalled
    /\ SwapOut
    /\ UNCHANGED <<front, file, now>>

\* waitForSeconds returns on its timeout, or spuriously, at any time
TimedOut ==
    /\ bpc = "waiting"
    /\ SwapOut
    /\ UNCHANGED <<front, file, now>>

\* lines 204-215: drop all but the first two, then write them in order
Kept(bufs) == IF Len(bufs) > DropAbove THEN SubSeq(bufs, 1, 2) ELSE bufs
Batch(bufs) == FlattenSeq(Kept(bufs))

\* the file.append calls of one round: the drop notice, then each buffer
Chunks(bufs) == (IF Len(bufs) > DropAbove THEN <<<<DropNote>>>> ELSE <<>>) \o Kept(bufs)

Write ==
    /\ bpc = "write"
    /\ logFile' = AppendAll(logFile, Chunks(toWrite), now)
    /\ dropped' = dropped \cup (Lines(toWrite) \ ToSet(Batch(toWrite)))
    /\ lastWritten' = IF Batch(toWrite) = <<>> THEN lastWritten ELSE Last(Batch(toWrite))
    /\ toWrite' = Kept(toWrite)
    /\ bpc' = "recycle"
    /\ UNCHANGED <<front, queue, new1, new2, now>>

\* lines 217-230: refill newBuffer1 and newBuffer2 from the back of
\* buffersToWrite; the rest of buffersToWrite is left where it is
Recycle ==
    /\ bpc = "recycle"
    /\ LET need == (IF new1 THEN 0 ELSE 1) + (IF new2 THEN 0 ELSE 1)
           take == IF need <= Len(toWrite) THEN need ELSE Len(toWrite)
       IN  /\ toWrite' = SubSeq(toWrite, 1, Len(toWrite) - take)
           /\ new1' = (new1 \/ take >= 1)
           /\ new2' = (new2 \/ take >= 1 + (IF new1 THEN 0 ELSE 1))
    /\ bpc' = "check"
    /\ UNCHANGED <<front, queue, file, now>>

\* a second passes
Tick ==
    /\ now < MaxTime
    /\ now' = now + 1
    /\ UNCHANGED <<front, queue, back, file>>

\* the process has not aborted: its threads and its clock still run
Alive == fpc # "aborted"

\* after exit or abort, nothing happens
Exited == fpc \in {"exited", "aborted"} /\ UNCHANGED vars

Backend == Check \/ Lock \/ Signalled \/ TimedOut \/ Write \/ Recycle

Next == AppendLine \/ LogFatal \/ Stop \/ Join \/ (Alive /\ (Backend \/ Tick))
        \/ Exited

\* The backend thread is scheduled while the process lives, and
\* waitForSeconds returns after flushInterval_ seconds; the front end may
\* stop logging, or log a FATAL record, at any time.
Fairness ==
    /\ WF_vars(Alive /\ Check) /\ WF_vars(Alive /\ Lock)
    /\ WF_vars(Alive /\ Signalled) /\ WF_vars(Alive /\ TimedOut)
    /\ WF_vars(Alive /\ Write) /\ WF_vars(Alive /\ Recycle) /\ WF_vars(Join)

Spec == Init /\ [][Next]_vars /\ Fairness

-----------------------------------------------------------------------------
\* A buffer never holds more than it can: append() checks avail() > len.
TypeOK ==
    /\ running \in BOOLEAN /\ fpc \in {"run", "join", "exited", "aborted"} /\ sent \in 0..NMsg
    /\ current \in Seq(Msg) /\ Len(current) < BufCap
    /\ \A k \in 1..Len(buffers) : Len(buffers[k]) < BufCap
    /\ bpc \in {"check", "lock", "waiting", "write", "recycle", "done"}
    /\ {new1, new2, hasNext, signalled} \subseteq BOOLEAN
    /\ dropped \subseteq Msg /\ now \in 0..MaxTime
    /\ DOMAIN logFile.files \subseteq 0..now
    /\ \A n \in DOMAIN logFile.files : logFile.files[n] \subseteq Msg \cup {DropNote}
    /\ logFile.fname \in DOMAIN logFile.files /\ logFile.count \in 0..CheckEvery - 1

InQueue == ToSet(current) \cup Lines(buffers) \cup Lines(toWrite)

(***************************************************************************)
(* No log line disappears: every line append() accepted is in one of the *)
(* log files, was dropped by the 25-buffer limit, or still sits in        *)
(* currentBuffer_, buffers_ or buffersToWrite, across the buffer          *)
(* exchanges of append() and of threadFunc's critical section, and across *)
(* the file rolls, which can reopen a file of the same second's name.     *)
(***************************************************************************)
NoLineLost == \A m \in 1..sent : m \in Written \cup dropped \cup InQueue

(***************************************************************************)
(* While logging runs and the process lives, every line appended reaches  *)
(* the file or is dropped, even when the front end stops logging before   *)
(* its buffer is full: the backend's timed wait (waitForSeconds) makes it *)
(* flush partial buffers.                                                  *)
(***************************************************************************)
LinesEventuallyWritten ==
    \A m \in Msg : (sent >= m) ~> (m \in Written \cup dropped \/ ~running \/ ~Alive)

(***************************************************************************)
(* stop() returns: the backend re-reads running_ on every round, and a    *)
(* notify() that lands between that check and the wait, where it is lost, *)
(* is made up by the timed wait, so join() ends.                           *)
(***************************************************************************)
StopJoins == (fpc = "join") ~> (fpc = "exited")

(***************************************************************************)
(* The log rolls to a new file when the day changes, late by at most      *)
(* checkEvery_ appends: appendUnlocked compares tm_mday with lastRollDay_ *)
(* every checkEvery_ appends that did not roll on size, and count_ is     *)
(* carried across size rolls, so a file named for one day takes at most   *)
(* checkEvery_ appends made on a later day, empty buffers of idle rounds  *)
(* included.                                                               *)
(***************************************************************************)
DayRolled == \A n \in DOMAIN logFile.late : logFile.late[n] <= CheckEvery

(***************************************************************************)
(* threadFunc's assertions: at the top of the loop both spare buffers are *)
(* there and buffersToWrite is empty (186-188, 229), and when a spare     *)
(* buffer is missing buffersToWrite has one to give back (218, 224).       *)
(***************************************************************************)
BackendAssertions ==
    /\ bpc = "check" => new1 /\ new2 /\ toWrite = <<>>
    /\ bpc = "recycle" => Len(toWrite) >= (IF new1 THEN 0 ELSE 1) + (IF new2 THEN 0 ELSE 1)

(***************************************************************************)
(* The file receives each line once and in the order it was logged: the   *)
(* batch the backend is about to write continues the file.                *)
(***************************************************************************)
WriteInOrder ==
    bpc = "write" =>
        LET b == <<lastWritten>> \o Batch(toWrite)
        IN  \A k \in 1..Len(b) - 1 : b[k] < b[k + 1]

(***************************************************************************)
(* Every line logged before stop() is in the file once the backend thread *)
(* has ended.                                                              *)
(***************************************************************************)
StopWritesAll == bpc = "done" => \A m \in 1..sent : m \in Written \cup dropped

(***************************************************************************)
(* A FATAL record is in the log when the process aborts: ~Logger calls    *)
(* g_flush() between g_output and abort() so that the reason for the      *)
(* abort is not lost.                                                      *)
(***************************************************************************)
FatalLineWritten == fpc = "aborted" => sent \in Written
=============================================================================
