\* A supplicant that answers in time, late or never.
SPECIFICATION FairSpec
CONSTANTS
    SendLimit = 2
    ReplyLimit = 3
    QueueLen = 2
    MaxCalls = 3
    MaxEvents = 1
    MaxBusy = 3
    Faults = {"die"}
INVARIANTS
    ReplyIsOwn
    BoundedCall
PROPERTIES
    RepliesUsedOnce
    CallReturns
\* The program stops when it has made its requests.
CHECK_DEADLOCK FALSE
