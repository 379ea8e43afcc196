SPECIFICATION RxFairSpec
CONSTANTS
    t1 = t1
    t2 = t2
    Eps = {1, 2}
    Buffers = {b1, b2}
    NoBuf = NoBuf
    Tasks = {t1}
    UsesEp <- OneForAll
    SeqNos <- Numbers
    Empty = Empty
    SendsEmpty = TRUE
    RxFifoDepth = 2
    StaysArmed = {FALSE}
    OtherIrqs = TRUE
    Otghs2 = TRUE
    MaxResets = 0
    MaxConfigs = 0
INVARIANT RxTypeOK
INVARIANT NoNullDeref
INVARIANT NullMeansNak
INVARIANT MaskedMeansUnderrun
PROPERTY ReceptionResumes
PROPERTY RxIsFifo
