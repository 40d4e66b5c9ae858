SPECIFICATION FairSpec
CONSTANTS
    MaxStarts = 1
    MaxInits = 1
    MaxFaults = 1
INVARIANTS ConsentBeforePaired CalmAgreement
PROPERTIES AcceptCompletes
CHECK_DEADLOCK FALSE
