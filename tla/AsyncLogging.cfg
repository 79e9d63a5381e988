\* One-line buffers, a drop above 3 queued buffers; files that roll after
\* 2 lines or on the next day, checked every 2 appends; three days, each
\* of its own tm_mday.
CONSTANTS
    NMsg = 4
    BufCap = 2
    DropAbove = 3
    RollSize = 2
    CheckEvery = 2
    SecPerDay = 1
    MonthDays = 3
    MaxTime = 2
SPECIFICATION Spec
INVARIANTS
    TypeOK
    NoLineLost
    DayRolled
PROPERTIES
    LinesEventuallyWritten
    StopJoins
