SPECIFICATION RxSpec
CONSTANTS
    t1 = t1
    t2 = t2
    Eps = {1, 2}
    Buffers = {b1, b2}
    NoBuf = NoBuf
    Tasks = {t1, t2}
    UsesEp <- OneEach
    SeqNos <- OneNumber
    Empty = Empty
    SendsEmpty = TRUE
    RxFifoDepth = 2
    StaysArmed = {FALSE, TRUE}
    OtherIrqs = TRUE
    Otghs2 = TRUE
    MaxResets = 1
    MaxConfigs = 2
INVARIANT RxConserved
INVARIANT RxEnqueueNeverFails
CHECK_DEADLOCK FALSE
