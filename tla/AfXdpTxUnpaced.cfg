SPECIFICATION Spec
CONSTANTS
    NumTxFrames = 2
    NumRxFrames = 2
    BatchSize = 2
    NeedWakeup = TRUE
    Window = 5
    MaxFrames = 6
    MaxBusy = 0
PROPERTIES TransmitsFaithfully
CHECK_DEADLOCK FALSE
