SPECIFICATION TxSpec
CONSTANTS
    t1 = t1
    t2 = t2
    Eps = {1, 2}
    Buffers = {b1, b2}
    NoBuf = NoBuf
    Tasks = {t1, t2}
    UsesEp <- OneEach
    SeqNos <- Bits
    Oversized <- OneTooBig
    Otghs2 = FALSE
    MaxResets = 1
    MaxConfigs = 1
INVARIANT TxConserved
INVARIANT TxEnqueueNeverFails
CHECK_DEADLOCK FALSE
