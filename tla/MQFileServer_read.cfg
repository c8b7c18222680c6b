\* read() may fail in the middle of a file.
SPECIFICATION Spec
CONSTANTS
    Servers = {s1}
    Clients = {c1, c2}
    Pids = {p1, p2}
    missing = missing
    empty = empty
    small = small
    large = large
    Paths <- MCTwoPaths
    Openable <- MCTwoOpenable
    Size <- MCTwoSize
    RespMsgSize = 2
    ReqMsgSize = 2
    FailLen = 1
    MsgMnb = 4
    Faults = {"read"}
    None = None
INVARIANT EndMeansComplete
\* The server waits for requests for ever.
CHECK_DEADLOCK FALSE
