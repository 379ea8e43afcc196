SPECIFICATION TxFairSpec
CONSTANTS
    t1 = t1
    t2 = t2
    Eps = {1, 2}
    Buffers = {b1, b2}
    NoBuf = NoBuf
    Tasks = {t1}
    UsesEp <- OneForAll
    SeqNos <- Numbers
    Oversized <- NoNumbers
    Otghs2 = TRUE
    MaxResets = 0
    MaxConfigs = 0
INVARIANT TxTypeOK
INVARIANT QueuedBehindActive
INVARIANT ActiveIsLoaded
INVARIANT NullMeansNotLoaded
PROPERTY TxIsFifo
