CONSTANTS
    Displays = {v1, v2}
    Consoles = {c}
    Devices = {d}
    BusCap = 1
    QueueCap = 1
    Emitted <- MCEmitted
    Requested <- MCRequested
    MaxViewers = 2
    MaxMoves = 2
SPECIFICATION Spec
SYMMETRY MCSymmetry
INVARIANTS TypeOK NoSilentGap OneResultPerAction
CHECK_DEADLOCK FALSE
