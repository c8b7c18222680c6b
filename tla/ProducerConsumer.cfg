\* The buffer of the program; fork() fails and children are killed; the processes
\* that live are scheduled.
SPECIFICATION FairSpec
CONSTANTS
    BUFFER_SIZE = 10
    Faults = {"fork", "kill"}
INVARIANTS
    MutualExclusion
    SlotsAddUp
PROPERTIES
    ImplementsBuffer
    BothGoOn
