SPECIFICATION FairSpec
CONSTANTS
    Eps <- MCEps
    Buffers = {b1, b2, b3}
    NoBuf = NoBuf
    EP0SIZE = 2
    TxFifoRoom = 4
    RxqDepth = 6
    EventDepth = 10
    Otghs2 = FALSE
    NoSetup <- ZeroPacket
    NoAddr = NoAddr
    TxMax = 4
    RxMax = 4
    Ids <- MCIds
    Setups <- Interrupted
    HostAborts = FALSE
    MaxResets = 3
    MaxSuspends = 1
INVARIANT DecodedIsCurrent
INVARIANT EventsFit
INVARIANT AddressAgreed
INVARIANT ExecutedOnce
INVARIANT PipeInv
PROPERTY TransfersInOrder
