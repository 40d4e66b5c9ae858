SPECIFICATION Spec
CONSTANTS
    MaxStarts = 2
    MaxInits = 0
    MaxFaults = 1
INVARIANTS TypeOK ConsentBeforePaired OneCompletePerClick
PROPERTIES PairedIsStable
CHECK_DEADLOCK FALSE
