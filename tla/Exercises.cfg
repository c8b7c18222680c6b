SPECIFICATION Spec
CONSTANTS
    THRESHOLD = 2
    MaxThreads = 4
    MaxTyped = 3
    Writers = {w1, w2}
    Readers = {r1, r2}
    MaxSegments = 3
    Clients = {c1, c2}
    MaxLines = 4
    MaxStarts = 2
    As = {a1}
    Bs = {b1, b2}
    Users = {u1, u2, u3}
    Producers = {q1, q2, q3}
    ConsumersA = {ca}
    ConsumersB = {cb}
    Apps = {p1, p2}
    Page = 2
    MaxLoads = 2
INVARIANTS
    SharedStateIsSound
    ProcessesAreKept
    
    MemoryIsKept
    ConversationsAreKept
    FilesAreGuarded
    SemaphoreAddsUp
    EachMessageOnce
    DeviceIsSound
PROPERTIES
    ExercisesGoOn
\* Most of the programs end.
CHECK_DEADLOCK FALSE
