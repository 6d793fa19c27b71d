\* With and without hardware timestamps, SIGINT at any moment, a two-slot queue.
SPECIFICATION FairSpec
CONSTANTS
  recQueueCapacity = 2
  kEndSentinel = kEndSentinel
  NoStamp = NoStamp
  Undecodable <- MCUndecodable
  StopCanHappen = TRUE
  HdrInitCanFail = TRUE
  SeesOwnTx = TRUE
  MayLackStamp = FALSE
  NbTxBufs = 2
  SeqMod = 2
  kWarmupDiscard = 1
  MaxSends = 4
  MaxDup = 1
INVARIANTS TypeOK RoundTripPaired RoundTripAccounting
PROPERTIES Termination
