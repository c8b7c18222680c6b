\* Two clients and one server, no fault: files of every kind; every process is
\* scheduled.
SPECIFICATION FairSpec
CONSTANTS
    Servers = {s1}
    Clients = {c1, c2}
    Pids = {p1, p2}
    missing = missing
    empty = empty
    small = small
    large = large
    Paths <- MCPaths
    Openable <- MCOpenable
    Size <- MCSize
    RespMsgSize = 2
    ReqMsgSize = 2
    FailLen = 1
    MsgMnb = 4
    Faults = {}
    None = None
INVARIANTS
    AtMostOneAnswer
    StreamIntact
PROPERTIES
    SlotsComeBack
    AnswersEveryClient
\* The server waits for requests for ever.
CHECK_DEADLOCK FALSE
