\* The limits of the program: a supplicant that answers late.
SPECIFICATION Spec
CONSTANTS
    SendLimit = 5
    ReplyLimit = 10
    QueueLen = 2
    MaxCalls = 2
    MaxEvents = 0
    MaxBusy = 0
    Faults = {}
INVARIANT ReplyToCommand
\* The program stops when it has made its requests.
CHECK_DEADLOCK FALSE
