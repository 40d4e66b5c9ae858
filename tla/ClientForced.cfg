SPECIFICATION FairSpec
CONSTANTS
    Desktops = {d1}
    NoDesktop = NoDesktop
    QueueCap = 1
    MissedBeforeReconnect = 3
    MaxLoops = 2
    MaxEdits = 0
    MaxFaults = 0
PROPERTIES ForcedReconnects
CHECK_DEADLOCK FALSE
