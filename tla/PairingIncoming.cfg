SPECIFICATION FairSpec
CONSTANTS
    MaxStarts = 0
    MaxInits = 1
    MaxFaults = 0
PROPERTIES IncomingAcceptCompletes
CHECK_DEADLOCK FALSE
