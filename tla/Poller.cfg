CONSTANTS
    c1 = c1
    c2 = c2
    c3 = c3
    Chan <- MC_Chan
    Fd <- MC_Fd
    Readiness <- MC_Readiness
    kInitEventListSize = 1
    NDEBUG = FALSE
    Reenable = FALSE
SPECIFICATION Spec
INVARIANTS
    TypeOK
    NoCtlError
    PollIndexConsistent
PROPERTIES
    EpollImplementsContract
    PollImplementsContract
