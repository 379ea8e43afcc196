SPECIFICATION RxSpec
CONSTANTS
    t1 = t1
    t2 = t2
    Eps = {1}
    Buffers = {b1, b2}
    NoBuf = NoBuf
    Tasks = {t1}
    UsesEp <- OneForAll
    SeqNos <- Bits
    Empty = Empty
    SendsEmpty = FALSE
    RxFifoDepth = 2
    StaysArmed = {FALSE}
    OtherIrqs = FALSE
    Otghs2 = FALSE
    MaxResets = 0
    MaxConfigs = 0
INVARIANT NoNullDeref
