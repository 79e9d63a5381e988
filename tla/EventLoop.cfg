CONSTANTS
    t1 = t1
    t2 = t2
    Threads <- MCThreads
    MaxTasks = 3
SPECIFICATION Spec
INVARIANT NoLostWakeup
PROPERTY ImplementsExecutor
