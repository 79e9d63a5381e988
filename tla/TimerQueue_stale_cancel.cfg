CONSTANTS
    a1 = a1
    a2 = a2
    Free = Free
    Addrs <- MCAddrs
    MaxTimers = 3
    MaxTime = 3
    Delays = {1, 2}
SPECIFICATION Spec
INVARIANT NoLostTimer
