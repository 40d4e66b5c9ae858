SPECIFICATION FairSpec
CONSTANTS
    Desktops = {d1}
    NoDesktop = NoDesktop
    QueueCap = 1
    MissedBeforeReconnect = 2
    MaxLoops = 2
    MaxEdits = 2
    MaxFaults = 1
INVARIANTS TypeOK OneLiveLoop NeverWedged
PROPERTIES LoopRetries CancelledLoopEnds
CHECK_DEADLOCK FALSE
