\* With and without hardware timestamps, a stop request at any moment, a slow NIC.
SPECIFICATION FairSpec
CONSTANTS
  recQueueCapacity = 1
  kEndSentinel = kEndSentinel
  NoStamp = NoStamp
  Undecodable = {}
  StopCanHappen = TRUE
  HdrInitCanFail = TRUE
  NbTxBufs = 2
  PollBudget = 2
  kWarmupDiscard = 1
  RxSlots = 2
  MaxArrivals = 4
INVARIANTS TypeOK TurnaroundPaired
PROPERTIES ReflectsFaithfully StopsOnRequest
