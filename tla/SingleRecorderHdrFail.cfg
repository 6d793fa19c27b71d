\* The recorder thread may fail at start-up.
SPECIFICATION FairSpec
CONSTANTS
  recQueueCapacity = 1
  kEndSentinel = kEndSentinel
  Undecodable = {}
  StopCanHappen = FALSE
  HdrInitCanFail = TRUE
  SeqMod = 6
  kWarmupDiscard = 1
  kGraceEmptyPolls = 1
  MaxFrames = 3
  MaxDup = 0
  MaxStray = 0
PROPERTIES BenchReturns
CHECK_DEADLOCK FALSE
