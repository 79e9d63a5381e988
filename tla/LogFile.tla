------------------------------ MODULE LogFile ------------------------------
(***************************************************************************)
(* LogFile and AppendFile (AsyncLogging.h 15-59, AsyncLogging.cc 9-124):  *)
(* the file the log backend writes.  appendUnlocked writes a chunk to the *)
(* current AppendFile, then rolls to a new file when the file has more    *)
(* than rollSize_ bytes, or, every checkEvery_ appends, when the day of   *)
(* the month differs from the one of the last roll.  A file is named by   *)
(* the second it was opened in (getFileName's %Y%m%d-%H%M%S) and opened   *)
(* in append mode.                                                         *)
(*                                                                         *)
(* The LogFile object is a record lf: files maps each file name (the      *)
(* second it was opened in) to the set of units written to it, fname is   *)
(* the current file, wb its AppendFile's writtenBytes_, count count_, lrd *)
(* lastRollDay_.  late is a history field: for each file, the appends it  *)
(* took on a later day than the one it is named for.  Time is whole       *)
(* seconds; a unit of a chunk is a byte.  A unit written twice is not     *)
(* told apart, nor the order of a file: WriteInOrder in AsyncLogging.tla  *)
(* checks the order on the batches the backend writes.                    *)
(***************************************************************************)
EXTENDS Naturals, Sequences, TLC

CONSTANTS
    RollSize,    \* rollSize_
    CheckEvery,  \* checkEvery_ (1024)
    SecPerDay,   \* seconds in a day
    MonthDays    \* days in a month: tm_mday runs 1..MonthDays

Day(t)  == t \div SecPerDay
MDay(t) == (Day(t) % MonthDays) + 1     \* localtime_r(...).tm_mday

\* rollFile(tm): lastRollDay_ = tm_mday; file_.reset(new AppendFile(name));
\* fopen(name, "ae") creates the file, or appends to the one of that name
RollFile(lf, t) ==
    [lf EXCEPT !.lrd = MDay(t), !.fname = t, !.wb = 0,
               !.files = IF t \in DOMAIN @ THEN @ ELSE @ @@ (t :> {}),
               !.late  = IF t \in DOMAIN @ THEN @ ELSE @ @@ (t :> 0)]

\* LogFile(basename, rollSize, threadSafe, checkEvery): count_ = 0, then rollFile()
LogFileInit(t) ==
    RollFile([files |-> <<>>, fname |-> t, wb |-> 0, count |-> 0, lrd |-> 0, late |-> <<>>], t)

\* AppendFile::append: fwrite until len bytes are written; writtenBytes_ += len
AppendFileAppend(lf, chunk, t) ==
    [lf EXCEPT !.files[lf.fname] = @ \cup {chunk[i] : i \in 1..Len(chunk)}, !.wb = @ + Len(chunk),
               !.late[lf.fname] = IF Day(t) > Day(lf.fname) THEN @ + 1 ELSE @]

\* mutant: the day is checked only once count_ has passed checkEvery_
DayCheckLate(lf, t) ==
    IF lf.count + 1 > CheckEvery
    THEN IF MDay(t) # lf.lrd THEN RollFile([lf EXCEPT !.count = 0], t)
                             ELSE [lf EXCEPT !.count = 0]
    ELSE [lf EXCEPT !.count = @ + 1]

\* ++count_; every checkEvery_ appends: count_ = 0, and a new file when
\* tm_mday differs from lastRollDay_
DayCheck(lf, t) ==
    IF lf.count + 1 >= CheckEvery
    THEN IF MDay(t) # lf.lrd THEN RollFile([lf EXCEPT !.count = 0], t)
                             ELSE [lf EXCEPT !.count = 0]
    ELSE [lf EXCEPT !.count = @ + 1]

\* appendUnlocked(logline, len): write, then roll on size or check the day
AppendUnlocked(lf, chunk, t) ==
    LET a == AppendFileAppend(lf, chunk, t)
    IN  IF a.wb > RollSize THEN RollFile(a, t) ELSE DayCheck(a, t)

\* the chunks of one backend round, appended in order
AppendAll(lf, chunks, t) ==
    LET RECURSIVE Go(_, _)
        Go(l, k) == IF k > Len(chunks) THEN l ELSE Go(AppendUnlocked(l, chunks[k], t), k + 1)
    IN  Go(lf, 1)

=============================================================================
