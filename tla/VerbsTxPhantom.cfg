SPECIFICATION FairSpec
CONSTANTS
    SqDepth = 8
    SignalEvery = 2
    MaxFrames = 13
    MaxPostErrors = 3
PROPERTY CommitReturns
