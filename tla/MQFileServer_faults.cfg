\* Two servers that compete for the key, fork() failing and processes being
\* killed at any step.
SPECIFICATION Spec
CONSTANTS
    Servers = {s1, s2}
    Clients = {c1, c2}
    Pids = {p1, p2}
    missing = missing
    empty = empty
    small = small
    large = large
    Paths <- MCTwoPaths
    Openable <- MCTwoOpenable
    Size <- MCTwoSize
    RespMsgSize = 2
    ReqMsgSize = 2
    FailLen = 1
    MsgMnb = 4
    Faults = {"fork", "kill"}
    None = None
SYMMETRY Symmetry
INVARIANTS
    ZombiesWillBeReaped
    ErrnoIsMsgrcvs
    QueueOutlivesServer
PROPERTIES
    ImplementsService
\* The server waits for requests, and a client without a server for ever.
CHECK_DEADLOCK FALSE
