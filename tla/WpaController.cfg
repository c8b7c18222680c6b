SPECIFICATION Spec
CONSTANTS
    Pids = {p1, p2}
    MaxStarts = 2
    MaxEvents = 2
    MaxOpens = 2
    MaxLate = 1
    NETWORK_ID_MAX = 1
    Ssids = {"home"}
    MaxOptions = 2
SYMMETRY Symmetry
INVARIANTS
    ConnectionsAreKept
    NetworkIsAsked
\* Programs end.
CHECK_DEADLOCK FALSE
