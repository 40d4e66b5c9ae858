SPECIFICATION FairSpec
CONSTANTS
    Devices = {d1}
    Conns = {c1, c2}
    Msgs = {m1}
    OutboxCap = 1
    MaxFrames = 1
    NoDev = NoDev
    NoConn = NoConn
PROPERTIES HandlerReturns BlockedReaderResumes AcceptedIsDelivered
CHECK_DEADLOCK FALSE
