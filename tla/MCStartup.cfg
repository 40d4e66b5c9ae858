CONSTANTS
    Procs = {p1, p2}
    Offered <- MCOffered
    MaxStarts = 3
    MaxTogether = 2
    MaxCrashes = 1
SPECIFICATION Spec
SYMMETRY MCSymmetry
INVARIANTS TypeOK IdentityKept StaysStartable TokenInStep
CHECK_DEADLOCK FALSE
