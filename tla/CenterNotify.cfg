CONSTANTS
    Devices = {d1, d2}
    Keys = {k}
    Handlers = {h1, h2}
    Requests = {r1, r2}
    Ops <- MCOps
    Sends <- MCSends
    MaxMoves = 1
    PackageField = "package_name"
    StatsCap = 1
    OutboxCap = 1
    None = None
SPECIFICATION Spec
INVARIANT NotificationsArrive
CHECK_DEADLOCK FALSE
