SPECIFICATION Spec
CONSTANTS
    NumTxFrames = 2
    NumRxFrames = 2
    BatchSize = 2
    NeedWakeup = TRUE
    Window = 2
    MaxFrames = 7
    MaxBusy = 2
INVARIANTS OutstandingExact
PROPERTIES TransmitsFaithfully
CHECK_DEADLOCK FALSE
