SPECIFICATION FairSpec
CONSTANTS
    Eps <- MCEps
    Buffers = {b1, b2, b3}
    NoBuf = NoBuf
    EP0SIZE = 2
    TxFifoRoom = 4
    RxqDepth = 6
    EventDepth = 7
    Otghs2 = TRUE
    NoSetup <- ZeroPacket
    NoAddr = NoAddr
    TxMax = 4
    RxMax = 4
    Ids <- MCIds
    Setups <- Ordinary
    HostAborts = FALSE
    MaxResets = 1
    MaxSuspends = 0
INVARIANT PipeInv
INVARIANT DataIsOwn
INVARIANT ReplyIsWhole
INVARIANT Ep0NoNullDeref
INVARIANT QuietIsClean
INVARIANT AddressAgreed
PROPERTY TransfersServed
