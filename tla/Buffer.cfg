CONSTANTS
    a = a
    cr = cr
    lf = lf
    nul = nul
    Byte <- MC_Byte
    CR <- cr
    LF <- lf
    Nul <- nul
    kCheapPrepend = 1
    kInitialSize = 2
    kExtraBuf = 2
    MaxAppend = 2
    MaxBytes = 6

SPECIFICATION Spec

\* with MaxBytes used up and the buffer empty nothing is left to do
CHECK_DEADLOCK FALSE

INVARIANTS
    TypeOK
    MemoryBounded

PROPERTIES
    ImplementsByteStream
