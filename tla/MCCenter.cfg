CONSTANTS
    Devices = {d1, d2}
    Keys = {k}
    Handlers = {h1, h2}
    Requests = {r1, r2}
    Ops <- MCOps
    Sends <- MCSends
    MaxMoves = 3
    PackageField = "package"
    StatsCap = 1
    OutboxCap = 1
    None = None
SPECIFICATION Spec
SYMMETRY MCSymmetry
INVARIANTS TypeOK OneRowPerPhone RemovedStaysGone MirrorSettles NumbersAgree
CHECK_DEADLOCK FALSE
