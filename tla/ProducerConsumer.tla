-------------------------- MODULE ProducerConsumer --------------------------
(***************************************************************************)
(* 09-semaphore/producer-consumer/main.c: a producer and a consumer process *)
(* that share the semaphores mutex, empty and full, and their parent, which *)
(* prints the value of full.  The buffer itself is left as an exercise in   *)
(* the code: items counts what the two print, "creates" less "takes".       *)
(***************************************************************************)
EXTENDS Integers

CONSTANTS BUFFER_SIZE,
          Faults        \* "fork" may fail, processes may be "kill"ed

ASSUME PCAssumption ==
    /\ BUFFER_SIZE \in Nat \ {0}
    /\ Faults \subseteq {"fork", "kill"}

VARIABLES
    mutex, empty, full,  \* the values of the semaphores
    parent,              \* where the parent is
    producer,            \* where the producer is
    consumer,            \* where the consumer is
    items,               \* the items in the buffer
    shown,               \* takenSlots, the figure the parent prints
    dead                 \* the children that were killed

vars == <<mutex, empty, full, parent, producer, consumer, items, shown, dead>>

\* sem_init and mmap before the first fork.
Init ==
    /\ mutex = 1 /\ empty = BUFFER_SIZE /\ full = 0
    /\ parent = "fork1"
    /\ producer = "none" /\ consumer = "none"
    /\ items = 0 /\ shown = 0
    /\ dead = {}

\* A failed fork() is not looked at: the program goes on without the child.
ForkProducer ==
    /\ parent = "fork1"
    /\ parent' = "fork2"
    /\ \/ producer' = "wait_empty"
       \/ "fork" \in Faults /\ UNCHANGED producer
    /\ UNCHANGED <<mutex, empty, full, consumer, items, shown, dead>>

ForkConsumer ==
    /\ parent = "fork2"
    /\ parent' = "watch"
    /\ \/ consumer' = "wait_full"
       \/ "fork" \in Faults /\ UNCHANGED consumer
    /\ UNCHANGED <<mutex, empty, full, producer, items, shown, dead>>

-----------------------------------------------------------------------------
(* The producer.                                                           *)

WaitEmpty ==
    /\ producer = "wait_empty" /\ empty > 0
    /\ empty' = empty - 1
    /\ producer' = "wait_mutex"
    /\ UNCHANGED <<mutex, full, parent, consumer, items, shown, dead>>

ProducerWaitMutex ==
    /\ producer = "wait_mutex" /\ mutex > 0
    /\ mutex' = mutex - 1
    /\ producer' = "create"
    /\ UNCHANGED <<empty, full, parent, consumer, items, shown, dead>>

Create ==
    /\ producer = "create"
    /\ items' = items + 1
    /\ producer' = "post_full"
    /\ UNCHANGED <<mutex, empty, full, parent, consumer, shown, dead>>

\* Mutant: the slot is given back to the producer itself.
PostFullTwice ==
    /\ producer = "post_full"
    /\ full' = full + 1
    /\ empty' = empty + 1
    /\ producer' = "post_mutex"
    /\ UNCHANGED <<mutex, parent, consumer, items, shown, dead>>

PostFull ==
    /\ producer = "post_full"
    /\ full' = full + 1
    /\ producer' = "post_mutex"
    /\ UNCHANGED <<mutex, empty, parent, consumer, items, shown, dead>>

\* The producer gives up the mutex and sleeps.
ProducerPostMutex ==
    /\ producer = "post_mutex"
    /\ mutex' = mutex + 1
    /\ producer' = "wait_empty"
    /\ UNCHANGED <<empty, full, parent, consumer, items, shown, dead>>

-----------------------------------------------------------------------------
(* The consumer.                                                           *)

\* Mutant: sem_trywait, whose failure is not looked at.
WaitFullTry ==
    /\ consumer = "wait_full"
    /\ full' = IF full > 0 THEN full - 1 ELSE full
    /\ consumer' = "wait_mutex"
    /\ UNCHANGED <<mutex, empty, parent, producer, items, shown, dead>>

WaitFull ==
    /\ consumer = "wait_full" /\ full > 0
    /\ full' = full - 1
    /\ consumer' = "wait_mutex"
    /\ UNCHANGED <<mutex, empty, parent, producer, items, shown, dead>>

\* Mutant: the consumer does not take the mutex.
ConsumerNoMutex ==
    /\ consumer = "wait_mutex"
    /\ consumer' = "take"
    /\ UNCHANGED <<mutex, empty, full, parent, producer, items, shown, dead>>

ConsumerWaitMutex ==
    /\ consumer = "wait_mutex" /\ mutex > 0
    /\ mutex' = mutex - 1
    /\ consumer' = "take"
    /\ UNCHANGED <<empty, full, parent, producer, items, shown, dead>>

TakeItem ==
    /\ consumer = "take"
    /\ items' = items - 1
    /\ consumer' = "post_mutex"
    /\ UNCHANGED <<mutex, empty, full, parent, producer, shown, dead>>

\* Mutant: the mutex is kept while the consumer posts empty and sleeps.
ConsumerKeepMutex ==
    /\ consumer = "post_mutex"
    /\ consumer' = "post_empty"
    /\ UNCHANGED <<mutex, empty, full, parent, producer, items, shown, dead>>

ConsumerPostMutex ==
    /\ consumer = "post_mutex"
    /\ mutex' = mutex + 1
    /\ consumer' = "post_empty"
    /\ UNCHANGED <<empty, full, parent, producer, items, shown, dead>>

PostEmpty ==
    /\ consumer = "post_empty"
    /\ empty' = empty + 1
    /\ consumer' = "wait_full"
    /\ UNCHANGED <<mutex, full, parent, producer, items, shown, dead>>

-----------------------------------------------------------------------------
\* sleep(10) and sem_getvalue(full).
Watch ==
    /\ parent = "watch"
    /\ shown' = full
    /\ UNCHANGED <<mutex, empty, full, parent, producer, consumer, items, dead>>

\* A child killed by a signal keeps what it holds.
Killed ==
    /\ "kill" \in Faults
    /\ \/ producer # "none" /\ dead' = dead \cup {"producer"}
       \/ consumer # "none" /\ dead' = dead \cup {"consumer"}
    /\ UNCHANGED <<mutex, empty, full, parent, producer, consumer, items, shown>>

Parent == ForkProducer \/ ForkConsumer \/ Watch

Producer ==
    /\ "producer" \notin dead
    /\ WaitEmpty \/ ProducerWaitMutex \/ Create \/ PostFull \/ ProducerPostMutex

Consumer ==
    /\ "consumer" \notin dead
    /\ WaitFull \/ ConsumerWaitMutex \/ TakeItem \/ ConsumerPostMutex \/ PostEmpty

Next == Parent \/ Producer \/ Consumer \/ Killed

Spec == Init /\ [][Next]_vars

\* The scheduler runs each process; a semaphore is not fair to its waiters.
FairSpec == Spec /\ WF_vars(Parent) /\ WF_vars(Producer) /\ WF_vars(Consumer)

-----------------------------------------------------------------------------
(* Properties.                                                             *)

TypeOK ==
    /\ mutex \in 0..1
    /\ empty \in 0..BUFFER_SIZE /\ full \in 0..BUFFER_SIZE
    /\ parent \in {"fork1", "fork2", "watch"}
    /\ producer \in {"none", "wait_empty", "wait_mutex", "create", "post_full", "post_mutex"}
    /\ consumer \in {"none", "wait_full", "wait_mutex", "take", "post_mutex", "post_empty"}
    /\ items \in 0..BUFFER_SIZE
    /\ shown \in 0..BUFFER_SIZE
    /\ dead \subseteq {"producer", "consumer"}

\* "Producer creates something" and "Consumer takes something" are printed under
\* the mutex, one at a time, also when one of the two dies.
MutualExclusion ==
    ~(producer \in {"create", "post_full", "post_mutex"} /\ consumer \in {"take", "post_mutex"})

One(b) == IF b THEN 1 ELSE 0

\* Every slot of the buffer is counted once: free, filled, or in the hands of
\* one of the two processes.
SlotsAddUp ==
    empty + full
      + One(producer \in {"wait_mutex", "create", "post_full"})
      + One(consumer \in {"wait_mutex", "take", "post_mutex", "post_empty"}) = BUFFER_SIZE

\* "Items in the buffer: n/10": the figure is never more than what is there,
\* and at most the two items in the processes' hands are missing from it.
FigureIsClose ==
    [][shown' # shown => shown' <= items /\ items <= shown' + 2]_vars

Buffer == INSTANCE BoundedBuffer WITH Capacity <- BUFFER_SIZE, held <- items

\* The producer never fills more than the buffer, the consumer never takes
\* from an empty one: the order of sem_wait and sem_post implements the buffer.
ImplementsBuffer == Buffer!BSpec

\* Both processes go on for ever, unless one of them dies or was never forked:
\* neither starves, and they never wait for each other.
BothGoOn ==
    \/ <>(dead # {})
    \/ <>[](producer = "none" \/ consumer = "none")
    \/ []<>(producer = "create") /\ []<>(consumer = "take")

=============================================================================
