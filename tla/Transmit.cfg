SPECIFICATION MCSpec
CONSTANTS
    SqDepth = 8
    SignalEvery = 2
    MaxFrames = 13
    MaxPostErrors = 2
    Mbufs = {1, 2, 3}
    NbTxDesc = 3
    REFCNT_LOW = 5
    REFCNT_TOPUP = 5
    RefcntWidth = 10
    MmapSlots = 3
    MmapFrames = 6
    MmapErrors = 2
    MmapRetries = 2
    NumTxDesc = 4
    I210Frames = 9
    NbTxBufs = 2
    TxqSizes = {1, 2}
    EvPollBatch = 2
    EfViFrames = 4
    DpdkFrames = 10
    NumTxFrames = 2
    NumRxFrames = 1
    BatchSize = 2
    XdpFrames = 6
    XdpWindow = 5
    XdpBusy = 1
INVARIANTS TypesOK SqNeverOverflows AccountsMatchNic EfViStampsPaired
PROPERTIES EveryTransportTransmits EverySendProgresses
