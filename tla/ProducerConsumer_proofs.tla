----------------------- MODULE ProducerConsumer_proofs -----------------------
(* Theorems about ProducerConsumer for every BUFFER_SIZE.                     *)
EXTENDS ProducerConsumer, TLAPS

\* The mutex and the items in terms of where the processes are: the mutex is
\* what the one inside does not have, and full lags behind the items by what
\* the producer has not posted yet and what the consumer has not taken yet.
Accounts ==
    /\ mutex + One(producer \in {"create", "post_full", "post_mutex"})
             + One(consumer \in {"take", "post_mutex"}) = 1
    /\ items = full + One(producer = "post_full") + One(consumer \in {"wait_mutex", "take"})

\* Bounds come from the accounts, so only the kinds of values are kept here.
Kinds ==
    /\ mutex \in Nat /\ empty \in Nat /\ full \in Nat /\ items \in Int /\ shown \in Nat
    /\ shown <= BUFFER_SIZE
    /\ parent \in {"fork1", "fork2", "watch"}
    /\ producer \in {"none", "wait_empty", "wait_mutex", "create", "post_full", "post_mutex"}
    /\ consumer \in {"none", "wait_full", "wait_mutex", "take", "post_mutex", "post_empty"}
    /\ parent = "fork1" => producer = "none"
    /\ parent \in {"fork1", "fork2"} => consumer = "none"
    /\ dead \subseteq {"producer", "consumer"}

Inv == Kinds /\ Accounts /\ SlotsAddUp

LEMMA InitInv == Init => Inv
  BY PCAssumption DEF Init, Inv, Kinds, Accounts, SlotsAddUp, One

LEMMA ProducerInv == ASSUME Inv, Producer PROVE Inv'
<1> USE DEF Inv, Kinds, Accounts, SlotsAddUp, One
<1>1. CASE WaitEmpty
  BY <1>1 DEF WaitEmpty
<1>2. CASE ProducerWaitMutex
  BY <1>2 DEF ProducerWaitMutex
<1>3. CASE Create
  BY <1>3 DEF Create
<1>4. CASE PostFull
  BY <1>4 DEF PostFull
<1>5. CASE ProducerPostMutex
  BY <1>5 DEF ProducerPostMutex
<1> QED
  BY <1>1, <1>2, <1>3, <1>4, <1>5 DEF Producer

LEMMA ConsumerInv == ASSUME Inv, Consumer PROVE Inv'
<1> USE DEF Inv, Kinds, Accounts, SlotsAddUp, One
<1>1. CASE WaitFull
  BY <1>1 DEF WaitFull
<1>2. CASE ConsumerWaitMutex
  BY <1>2 DEF ConsumerWaitMutex
<1>3. CASE TakeItem
  BY <1>3 DEF TakeItem
<1>4. CASE ConsumerPostMutex
  BY <1>4 DEF ConsumerPostMutex
<1>5. CASE PostEmpty
  BY <1>5 DEF PostEmpty
<1> QED
  BY <1>1, <1>2, <1>3, <1>4, <1>5 DEF Consumer

LEMMA ParentInv == ASSUME Inv, Parent \/ Killed \/ UNCHANGED vars PROVE Inv'
<1> USE PCAssumption DEF Inv, Kinds, Accounts, SlotsAddUp, One
<1>1. CASE ForkProducer
  BY <1>1 DEF ForkProducer
<1>2. CASE ForkConsumer
  BY <1>2 DEF ForkConsumer
<1>3. CASE Watch
  BY <1>3 DEF Watch
<1>4. CASE Killed
  BY <1>4 DEF Killed
<1>5. CASE UNCHANGED vars
  BY <1>5 DEF vars
<1> QED
  BY <1>1, <1>2, <1>3, <1>4, <1>5 DEF Parent

LEMMA InvHolds == Spec => []Inv
<1>1. Inv /\ [Next]_vars => Inv'
  BY ProducerInv, ConsumerInv, ParentInv DEF Next
<1> QED
  BY InitInv, <1>1, PTL DEF Spec

\* No semaphore ever exceeds its bound and the items stay within the buffer,
\* whatever its size.
THEOREM TypeCorrect == Spec => []TypeOK
<1>1. Inv => TypeOK
  BY PCAssumption DEF Inv, Kinds, Accounts, SlotsAddUp, One, TypeOK
<1> QED
  BY <1>1, InvHolds, PTL

\* Creating and taking never happen at the same time.
THEOREM MutexExcludes == Spec => []MutualExclusion
<1>1. Inv => MutualExclusion
  BY DEF Inv, Kinds, Accounts, One, MutualExclusion
<1> QED
  BY <1>1, InvHolds, PTL

\* No slot of the buffer is lost or counted twice.
THEOREM NoSlotLost == Spec => []SlotsAddUp
<1>1. Inv => SlotsAddUp
  BY DEF Inv
<1> QED
  BY <1>1, InvHolds, PTL

\* The figure the parent prints is at most two items behind the buffer.
THEOREM FigureClose == Spec => FigureIsClose
<1>1. Inv /\ [Next]_vars => [shown' # shown => shown' <= items /\ items <= shown' + 2]_vars
  <2> SUFFICES ASSUME Inv, Next, shown' # shown
               PROVE  shown' <= items /\ items <= shown' + 2
    BY DEF vars
  <2>1. shown' = full
    BY DEF Next, Parent, ForkProducer, ForkConsumer, Watch, Producer, WaitEmpty,
       ProducerWaitMutex, Create, PostFull, ProducerPostMutex, Consumer, WaitFull,
       ConsumerWaitMutex, TakeItem, ConsumerPostMutex, PostEmpty, Killed
  <2> QED
    BY <2>1 DEF Inv, Kinds, Accounts, One
<1> QED
  BY <1>1, InvHolds, PTL DEF Spec, FigureIsClose

\* The three semaphores implement a bounded buffer: nothing is put into a full
\* one and nothing taken from an empty one.
THEOREM Refinement == Spec => ImplementsBuffer
<1>1. Init => Buffer!BInit
  BY DEF Init, Buffer!BInit
<1>2. Inv /\ [Next]_vars => [Buffer!BNext]_items
  <2> SUFFICES ASSUME Inv, Next, items' # items PROVE Buffer!BNext
    BY DEF vars
  <2>1. CASE Create
    BY <2>1 DEF Create, Buffer!BNext, Buffer!Put, Inv, Kinds, Accounts, SlotsAddUp, One
  <2>2. CASE TakeItem
    BY <2>2 DEF TakeItem, Buffer!BNext, Buffer!Take, Inv, Kinds, Accounts, One
  <2> QED
    BY <2>1, <2>2 DEF Next, Parent, ForkProducer, ForkConsumer, Watch, Producer, WaitEmpty,
       ProducerWaitMutex, PostFull, ProducerPostMutex, Consumer, WaitFull,
       ConsumerWaitMutex, ConsumerPostMutex, PostEmpty, Killed
<1> QED
  BY <1>1, <1>2, InvHolds, PTL DEF Spec, ImplementsBuffer, Buffer!BSpec
=============================================================================
