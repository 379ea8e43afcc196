SPECIFICATION Spec
CONSTANTS
    Eps <- MCEps
    Buffers = {b1, b2}
    NoBuf = NoBuf
    EP0SIZE = 2
    TxFifoRoom = 2
    RxqDepth = 2
    EventDepth = 2
    Otghs2 = FALSE
    NoSetup <- ZeroPacket
    NoAddr = NoAddr
    TxMax = 2
    RxMax = 2
    Ids <- OneId
    Setups <- Abandoned
    HostAborts = TRUE
    MaxResets = 1
    MaxSuspends = 0
INVARIANT ControlTypeOK
INVARIANT Ep0Conserved
CHECK_DEADLOCK FALSE
