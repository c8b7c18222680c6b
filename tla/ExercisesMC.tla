---------------------------- MODULE ExercisesMC ----------------------------
(***************************************************************************)
(* The programs of src/02 to src/11 that have a module of their own, in    *)
(* one run: Init chooses a program, and only the actions of its module are *)
(* enabled from then on.  No two programs share anything.                  *)
(***************************************************************************)
EXTENDS Integers, FiniteSets

CONSTANTS THRESHOLD, MaxThreads,
          MaxTyped,
          Writers, Readers, MaxSegments,
          Clients, MaxLines, MaxStarts,
          As, Bs,
          Users,
          Producers, ConsumersA, ConsumersB,
          Apps, Page, MaxLoads

\* What the programs keep where a process may stand, or call the one that has
\* no other name.
Texts == {"server", "module", "main", "parent", "child",
          "nobody", "none", "nothing", "refused", "beyond"}

\* The bounds make the cases happen, a process has one part to play and none is
\* called like a text, and those whose number matters are finitely many.
ASSUME ExercisesAssumption ==
    /\ {THRESHOLD, MaxTyped, MaxSegments, MaxLines, MaxStarts, Page, MaxLoads} \subseteq Nat \ {0}
    /\ MaxThreads \in Nat \ {0, 1}
    /\ Writers \cap Readers = {} /\ As \cap Bs = {}
    /\ Producers \cap (ConsumersA \cup ConsumersB) = {} /\ ConsumersA \cap ConsumersB = {}
    /\ (Writers \cup Readers \cup Clients \cup As \cup Bs \cup Producers \cup Apps) \cap Texts = {}
    /\ IsFiniteSet(Writers)

VARIABLES prog, pc, s

vars == <<prog, pc, s>>

T  == INSTANCE Threads
P  == INSTANCE Processes
Pi == INSTANCE Pipes
M  == INSTANCE SharedMemory
So == INSTANCE Sockets
F  == INSTANCE FileLocks
N  == INSTANCE NamedSemaphore
Q  == INSTANCE TypedQueue
D  == INSTANCE CharDevice

Init ==
    \/ T!Init \/ P!Init \/ Pi!Init \/ M!Init \/ So!Init
    \/ F!Init \/ N!Init \/ Q!Init \/ D!Init

Next ==
    \/ T!Next \/ P!Next \/ Pi!Next \/ M!Next \/ So!Next
    \/ F!Next \/ N!Next \/ Q!Next \/ D!Next

Fairness ==
    /\ T!Fairness /\ P!Fairness /\ Pi!Fairness /\ M!Fairness /\ So!Fairness
    /\ F!Fairness /\ N!Fairness

Spec == Init /\ [][Next]_vars /\ Fairness

-----------------------------------------------------------------------------
\* What each module says of its programs, under the module's own name for it.

SharedStateIsSound   == T!SharedStateIsSound
ProcessesAreKept     == P!ProcessesAreKept
PipesKeepMessages    == Pi!PipesKeepMessages
MemoryIsKept         == M!MemoryIsKept
ConversationsAreKept == So!ConversationsAreKept
FilesAreGuarded      == F!FilesAreGuarded
SemaphoreAddsUp      == N!SemaphoreAddsUp
EachMessageOnce      == Q!EachMessageOnce
DeviceIsSound        == D!DeviceIsSound

\* Whatever must not wait for a user comes to its end: threads are joined, a
\* process that signals itself ends, the child of related_pipe shows all
\* messages, a datagram on a Unix socket is answered, nobody waits for a file
\* lock that is only tried, and sem_timedwait() returns.
ExercisesGoOn ==
    /\ T!MainEnds /\ P!InterruptsItself /\ Pi!ChildShowsAll
    /\ So!DatagramAnswered /\ F!EveryBEnds /\ N!WaitEnds
=============================================================================
