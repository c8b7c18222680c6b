----------------------------- MODULE TypedQueue -----------------------------
(***************************************************************************)
(* src/10-message-queues/systemV-message-queues: producer.c sends one      *)
(* message of the type the user types, consumerA.c takes one of type 1 and *)
(* removes the queue, consumerB.c takes one of type 2.  No result of       *)
(* msgget(), msgsnd() or msgrcv() is looked at.                            *)
(***************************************************************************)
EXTENDS Naturals, Sequences, SequencesExt

CONSTANTS Producers, ConsumersA, ConsumersB

VARIABLES prog, pc, s

vars == <<prog, pc, s>>

Programs  == {"systemv_queue"}
Consumers == ConsumersA \cup ConsumersB
Procs     == Producers \cup Consumers
Types     == 0 .. 3        \* what the user may type: 0 is refused by msgsnd()
Nothing   == "nothing"     \* the empty text that message starts with

\* s.id: the queue of the key (0: there is none).  s.mine: what msgget() gave
\* to a process.  A message is named by its producer.
Init ==
    /\ prog \in Programs
    /\ pc = [p \in Procs |-> "get"]
    /\ s = [id        |-> 0,
            made      |-> 0,
            queue     |-> << >>,
            mine      |-> [p \in Procs |-> 0],
            type      |-> [p \in Producers |-> 0],
            shown     |-> [c \in Consumers |-> "none"],
            sent      |-> {},
            refused   |-> {},
            destroyed |-> {}]

Step(p, from, to) ==
    /\ prog \in Programs /\ UNCHANGED prog
    /\ pc[p] = from
    /\ pc' = [pc EXCEPT ![p] = to]

Wanted(c) == IF c \in ConsumersA THEN 1 ELSE 2

-----------------------------------------------------------------------------
\* msgget(key, 0666 | IPC_CREAT): the queue of the key, or a new one.
Get(p) ==
    /\ Step(p, "get", IF p \in Producers THEN "ask" ELSE "receive")
    /\ LET id == IF s.id = 0 THEN s.made + 1 ELSE s.id
       IN s' = [s EXCEPT !.id = id, !.made = IF id > @ THEN id ELSE @,
                         !.mine[p] = id]

AskType(p) ==
    /\ Step(p, "ask", "send")
    /\ \E t \in Types : s' = [s EXCEPT !.type[p] = t]

\* msgsnd() fails unseen if the queue is gone or the type is not positive.
Send(p) ==
    /\ Step(p, "send", "ended")
    /\ s' = IF s.mine[p] = s.id /\ s.type[p] > 0
            THEN [s EXCEPT !.queue = Append(@, p), !.sent = @ \cup {p}]
            ELSE [s EXCEPT !.refused = @ \cup {p}]

\* Mutant: msgrcv() that leaves the message in the queue.
ReceiveCopy(c) ==
    /\ Step(c, "receive", "remove")
    /\ s.mine[c] = s.id
    /\ \E i \in DOMAIN s.queue :
          /\ s.type[s.queue[i]] = Wanted(c)
          /\ \A j \in 1 .. i - 1 : s.type[s.queue[j]] # Wanted(c)
          /\ s' = [s EXCEPT !.shown[c] = s.queue[i]]

\* The first message of the consumer's type; without one it waits.
Receive(c) ==
    /\ Step(c, "receive", "remove")
    /\ s.mine[c] = s.id
    /\ \E i \in DOMAIN s.queue :
          /\ s.type[s.queue[i]] = Wanted(c)
          /\ \A j \in 1 .. i - 1 : s.type[s.queue[j]] # Wanted(c)
          /\ s' = [s EXCEPT !.queue = RemoveAt(@, i), !.shown[c] = s.queue[i]]

\* The queue went away, before the call or during it: the consumer shows what
\* the message was to begin with.
ReceiveFails(c) ==
    /\ Step(c, "receive", "remove")
    /\ s.mine[c] # s.id
    /\ s' = [s EXCEPT !.shown[c] = Nothing]

\* consumerA removes its queue with everything in it; consumerB does not.
RemoveQueue(c) ==
    /\ Step(c, "remove", "ended")
    /\ s' = IF c \in ConsumersA /\ s.mine[c] = s.id
            THEN [s EXCEPT !.id = 0, !.queue = << >>,
                           !.destroyed = @ \cup ToSet(s.queue)]
            ELSE s

Next ==
    \/ \E p \in Procs : Get(p)
    \/ \E p \in Producers : AskType(p) \/ Send(p)
    \/ \E c \in Consumers : Receive(c) \/ ReceiveFails(c) \/ RemoveQueue(c)

Fairness == TRUE

Spec == Init /\ [][Next]_vars /\ Fairness

-----------------------------------------------------------------------------
\* What the programs of this module keep has its type.
TypeOK ==
    /\ prog \in Programs
    /\ s.id \in {0, s.made}
    /\ s.shown \in [Consumers -> Producers \cup {"none", Nothing}]
    /\ s.sent \cup s.refused \cup s.destroyed \subseteq Producers

Shown == {s.shown[c] : c \in Consumers} \cap Producers

\* A message that was accepted is in one place: still queued, shown by one
\* consumer that asked for its type, or destroyed by a consumerA that had its
\* answer (consumerA.c:23-31).  A consumer shows nothing only if some
\* consumerA took the queue away.
EachMessageOnce ==
    prog \in Programs =>
        /\ TypeOK
        /\ s.sent = ToSet(s.queue) \cup Shown \cup s.destroyed
        /\ ToSet(s.queue) \cap Shown = {} /\ s.destroyed \cap Shown = {}
        /\ \A c \in Consumers : s.shown[c] \in Producers =>
              /\ s.type[s.shown[c]] = Wanted(c)
              /\ \A d \in Consumers \ {c} : s.shown[d] # s.shown[c]
        /\ (\E c \in Consumers : s.shown[c] = Nothing) \/ s.destroyed # {} =>
              \E a \in ConsumersA : pc[a] = "ended" /\ s.shown[a] # "none"
=============================================================================
