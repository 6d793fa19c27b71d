\* A frame and a completion may lack their timestamp.
SPECIFICATION Spec
CONSTANTS
  recQueueCapacity = 2
  kEndSentinel = kEndSentinel
  NoStamp = NoStamp
  Undecodable <- MCUndecodable
  StopCanHappen = FALSE
  HdrInitCanFail = FALSE
  SeesOwnTx = FALSE
  MayLackStamp = TRUE
  NbTxBufs = 2
  SeqMod = 4
  kWarmupDiscard = 0
  MaxSends = 2
  MaxDup = 0
INVARIANTS NoLostTail
CHECK_DEADLOCK FALSE
