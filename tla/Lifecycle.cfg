SPECIFICATION MCSpec
CONSTANTS
    Objs = {"a", "b"}
    Regimes = {"off", "deferral", "irqSuspend"}
    QueueIds = {0, 1}
    XdpRuns = 2
    TuningRuns = 3
    HostRuns = 2
    I210Runs = 3
    WatchdogSecs = {0, 2}
    DurationSec = 3
    Count = 3
    BatchPolls = 2
    Queues = {0, 1, 2}
    Backed = {0, 1}
    NumCores = 3
INVARIANTS TypesOK ReleasedOnce ReleasedInOrder DpdkBroughtUpInOrder XdpSocketHears XdpNoStaleRegime PortTuned HostTuned I210Armed
PROPERTIES ProcessReportsRun ProcessEnds
