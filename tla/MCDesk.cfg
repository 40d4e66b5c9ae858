CONSTANTS
    Traffic <- MCTraffic
    MaxClicks = 2
    MaxEnds = 1
    MaxFailures = 2
    InitialBackoff = 2
    MaxBackoff = 3
    Setups <- MCSetups
SPECIFICATION Spec
INVARIANTS TypeOK DialsDaemon BackoffShape ActionMatchesToast InClickOrder StaleEntriesExplained
CHECK_DEADLOCK FALSE
PROPERTIES Reconnects
