SPECIFICATION Spec
CONSTANTS
    MAX_NUM_EP = 8
    RX_FIFO_SIZE = 290
    MAX_FIFO_LEN_U32 = 1024
    MAX_FIFO_LEN_U8 = 4096
    Ep0Len = 228
    Sizes <- BulkSizes
INVARIANT FifosFit
