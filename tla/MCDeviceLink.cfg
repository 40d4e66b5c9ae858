SPECIFICATION Spec
CONSTANTS
    Devices = {d1, d2}
    Conns = {c1, c2}
    Msgs = {m1}
    OutboxCap = 2
    MaxFrames = 2
    NoDev = NoDev
    NoConn = NoConn
SYMMETRY Symmetry
INVARIANTS TypeOK RoutedToOwner AcceptedExactlyOnce  CleanExitForgets
PROPERTY ImplementsOutbox
CHECK_DEADLOCK FALSE
