SPECIFICATION MCSpec
CONSTANTS
    RqDepth = 2
    WqeCnt = 4
    CqeCnt = 4
    HeadWidth = 8
    CiWidth = 8
    MaxArrivals = 10
    MaxErrors = 1
    NumTxFrames = 2
    NumRxFrames = 3
    MmapSlots = 3
    MmapArrivals = 7
    NumRxDesc = 8
    RX_FREE_THRESH = 4
    I210Arrivals = 18
    XdpArrivals = 6
    NbRxBufs = 4
    PushBatch = 2
    FlushAt = 2
    EvPollBatch = 2
    EfViArrivals = 6
    Mbufs = {1, 2, 3, 4, 5}
    NbRxDesc = 3
    BurstSize = 2
    DpdkArrivals = 5
    Word = 20
    kOneSecQns = 12
    kQnsOverrun = 2
    MaxBack = 4
    MaxTime = 30
INVARIANTS TypesOK CqNeverFull BuffersCirculate EfViStampsTrue EfViCompleteIsSound
PROPERTIES EveryTransportReceives EfViSlotsComeBack
