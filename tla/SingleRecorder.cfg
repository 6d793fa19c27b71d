\* Seven frames over a six-valued sequence number, so that gaps of one frame are told from old
\* frames, across the wrap too; SIGINT at any moment.
SPECIFICATION FairSpec
CONSTANTS
  recQueueCapacity = 2
  kEndSentinel = kEndSentinel
  Undecodable = {}
  StopCanHappen = TRUE
  HdrInitCanFail = TRUE
  SeqMod = 6
  kWarmupDiscard = 2
  kGraceEmptyPolls = 1
  MaxFrames = 7
  MaxDup = 1
  MaxStray = 1
INVARIANTS TypeOK NoLostTail RecordedInSendOrder LossAccounting RecordedMatchesReport
PROPERTIES Termination
