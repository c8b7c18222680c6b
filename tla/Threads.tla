------------------------------ MODULE Threads ------------------------------
(***************************************************************************)
(* The programs of src/04-thread: con_var (conditional-var/con_var.c),     *)
(* polling (conditional-var/main.c), mutil_thread and thread_terminate.    *)
(* Each is main() with the threads it creates.  s holds what the threads   *)
(* share: the mutex, the counter, each thread's register for ++counter,    *)
(* what main() has read of the counter, and the threads that still occupy  *)
(* a slot of the process.                                                  *)
(***************************************************************************)
EXTENDS Integers, FiniteSets

CONSTANTS THRESHOLD,    \* con_var.c, main.c: the count to reach
          MaxThreads    \* what pthread_create() can give a process

VARIABLES prog, pc, s

vars == <<prog, pc, s>>

Programs == {"con_var", "polling", "mutil_thread", "thread_terminate"}
Workers  == {"th1", "th2"}
Nobody   == "nobody"

\* s.kept: threads that ended and are neither joined nor detached;
\* s.fresh, s.detached: the running thr_handle3 before and after they detach.
Init ==
    /\ prog \in Programs
    /\ pc = [t \in {"main"} \cup Workers |-> IF t = "main" THEN "create1" ELSE "none"]
    /\ s = [lock     |-> Nobody,
            counter  |-> IF prog = "mutil_thread" THEN 2 ELSE 0,
            reg      |-> [t \in Workers |-> 0],
            seen     |-> 0,
            kept     |-> {},
            fresh    |-> 0,
            detached |-> 0]

At(t, place) == pc[t] = place
Go(t, place) == pc' = [pc EXCEPT ![t] = place]

\* Mutant: pthread_mutex_trylock() whose answer nobody looks at.
LockAnyway(t) == s' = [s EXCEPT !.lock = t]

Lock(t)   == s.lock = Nobody /\ s' = [s EXCEPT !.lock = t]
Unlock(t) == s.lock = t /\ s' = [s EXCEPT !.lock = Nobody]

Held == s.fresh + s.detached + Cardinality({t \in Workers : pc[t] \notin {"none", "joined"}})

-----------------------------------------------------------------------------
(* main(): pthread_create() of the first and of the second thread.  When   *)
(* it fails, main() returns.                                               *)

TwoThreads == prog \in {"mutil_thread", "thread_terminate"}
AfterCreate == CASE prog = "con_var"          -> "lock"
                 [] prog = "polling"          -> "poll"
                 [] prog = "mutil_thread"     -> "join1"
                 [] prog = "thread_terminate" -> "spawn"

Create(t) ==
    /\ At("main", IF t = "th1" THEN "create1" ELSE "create2")
    /\ \/ pc' = [pc EXCEPT ![t] = "start",
                           !["main"] = IF t = "th1" /\ TwoThreads
                                       THEN "create2" ELSE AfterCreate]
       \/ Go("main", "failed")
    /\ UNCHANGED <<prog, s>>

\* pthread_join(): waits for the thread's end and frees what it held.
Join(t) ==
    /\ At("main", IF t = "th1" THEN "join1" ELSE "join2")
    /\ At(t, "ended")
    /\ pc' = [pc EXCEPT ![t] = "joined",
                        !["main"] = IF t = "th1" /\ prog = "mutil_thread"
                                    THEN "join2" ELSE "ended"]
    /\ s' = [s EXCEPT !.kept = @ \ {t}]
    /\ UNCHANGED prog

-----------------------------------------------------------------------------
(* handle_th1() and handle_th2().                                          *)

ThreadLock(t) ==
    /\ prog # "thread_terminate"
    /\ At(t, "start") /\ Lock(t) /\ Go(t, "test")
    /\ UNCHANGED prog

\* The thread counts on: con_var tests <=, polling <, mutil_thread counts once.
CountsOn(t) ==
    CASE prog = "con_var" -> s.counter <= THRESHOLD
      [] prog = "polling" -> s.counter < THRESHOLD
      [] OTHER            -> s.reg[t] = 0

Load(t) ==
    /\ At(t, "test") /\ CountsOn(t) /\ Go(t, "store")
    /\ s' = [s EXCEPT !.reg[t] = s.counter]
    /\ UNCHANGED prog

Store(t) ==
    /\ At(t, "store") /\ Go(t, "test")
    /\ s' = [s EXCEPT !.counter = s.reg[t] + 1]
    /\ UNCHANGED prog

\* pthread_cond_signal() wakes main() if it waits, and is forgotten if not.
Signal ==
    /\ prog = "con_var"
    /\ At("th1", "test") /\ ~CountsOn("th1")
    /\ pc' = [pc EXCEPT !["th1"] = "unlock",
                        !["main"] = IF @ = "waiting" THEN "woken" ELSE @]
    /\ UNCHANGED <<prog, s>>

ThreadUnlock(t) ==
    /\ \/ At(t, "unlock")
       \/ prog # "con_var" /\ At(t, "test") /\ ~CountsOn(t)
    /\ s.lock = t
    /\ s' = [s EXCEPT !.lock = Nobody, !.kept = @ \cup {t}]
    /\ Go(t, "ended")
    /\ UNCHANGED prog

-----------------------------------------------------------------------------
(* con_var: main() waits for the condition and looks at the counter only   *)
(* after it was woken.  The implementation may wake it for nothing.        *)

MainLock ==
    /\ prog = "con_var" /\ At("main", "lock") /\ Lock("main") /\ Go("main", "wait")
    /\ UNCHANGED prog

CondWait ==
    /\ At("main", "wait") /\ Unlock("main") /\ Go("main", "waiting")
    /\ UNCHANGED prog

SpuriousWake ==
    /\ At("main", "waiting") /\ Go("main", "woken")
    /\ UNCHANGED <<prog, s>>

CheckUnderLock ==
    /\ At("main", "woken") /\ s.lock = Nobody
    /\ IF s.counter = THRESHOLD    \* then main() unlocks and joins
       THEN Go("main", "join1") /\ s' = [s EXCEPT !.seen = s.counter]
       ELSE Go("main", "wait") /\ s' = [s EXCEPT !.seen = s.counter, !.lock = "main"]
    /\ UNCHANGED prog

\* polling: main() reads the counter again and again, without the lock.  The
\* Makefile asks for no optimisation, so that each round loads it from memory.
Poll ==
    /\ prog = "polling" /\ At("main", "poll")
    /\ s' = [s EXCEPT !.seen = s.counter]
    /\ Go("main", IF s.counter = THRESHOLD THEN "join1" ELSE "poll")
    /\ UNCHANGED prog

-----------------------------------------------------------------------------
(* thread_terminate: thr_handle1 ends and nobody joins it, thr_handle2     *)
(* never ends, main() creates thr_handle3 until no more can be had.        *)

FirstEnds ==
    /\ prog = "thread_terminate" /\ At("th1", "start") /\ Go("th1", "ended")
    /\ s' = [s EXCEPT !.kept = @ \cup {"th1"}]
    /\ UNCHANGED prog

Spawn ==
    /\ At("main", "spawn")
    /\ IF Held < MaxThreads
       THEN s' = [s EXCEPT !.fresh = @ + 1] /\ UNCHANGED pc
       ELSE Go("main", "ended") /\ UNCHANGED s
    /\ UNCHANGED prog

Detach ==
    /\ s.fresh > 0
    /\ s' = [s EXCEPT !.fresh = @ - 1, !.detached = @ + 1]
    /\ UNCHANGED <<prog, pc>>

DetachedEnds ==
    /\ s.detached > 0
    /\ s' = [s EXCEPT !.detached = @ - 1]
    /\ UNCHANGED <<prog, pc>>

-----------------------------------------------------------------------------
ThreadSteps(t) ==
    \/ ThreadLock(t) \/ Load(t) \/ Store(t) \/ ThreadUnlock(t)

MainSteps ==
    \/ \E t \in Workers : Create(t) \/ Join(t)
    \/ MainLock \/ CondWait \/ CheckUnderLock \/ Poll \/ Spawn

\* When main() has returned the process and its threads are gone.
Running == prog \in Programs /\ pc["main"] \notin {"ended", "failed"}

Next ==
    /\ Running
    /\ \/ \E t \in Workers : ThreadSteps(t)
       \/ MainSteps
       \/ Signal \/ SpuriousWake \/ FirstEnds \/ Detach \/ DetachedEnds

\* The scheduler runs every thread that can run.
Fairness ==
    /\ WF_vars(Running /\ MainSteps)
    /\ \A t \in Workers : WF_vars(Running /\ ThreadSteps(t))

Spec == Init /\ [][Next]_vars /\ Fairness

-----------------------------------------------------------------------------
\* What the programs of this module keep has its type.
TypeOK ==
    /\ prog \in Programs
    /\ s.lock \in {Nobody, "main"} \cup Workers
    /\ s.counter \in 0 .. (THRESHOLD + 4)
    /\ s.kept \subseteq Workers
    /\ s.fresh \in 0 .. MaxThreads /\ s.detached \in 0 .. MaxThreads

\* main() of con_var never sees a half-finished count: the thread keeps the
\* mutex while it counts, so what main() reads is 0 or THRESHOLD + 1, and the
\* test for THRESHOLD never holds (con_var.c:22-33, 57-58).
CountIsSeenWhole ==
    prog = "con_var" => s.seen \in {0, THRESHOLD + 1} /\ ~At("main", "join1")

\* No increment is lost: when main() of mutil_thread has joined both threads
\* the counter has grown by two (mutil-thread/main.c:22-38, 64-65).
NoLostIncrement ==
    prog = "mutil_thread" /\ At("main", "ended") => s.counter = 4

\* Only a thread that nobody joins or detaches keeps its slot after its end:
\* in thread_terminate that is the first one, however many are created.
SlotsComeFree ==
    prog = "thread_terminate" =>
        /\ s.kept \subseteq {"th1"}
        /\ At("main", "ended") => s.fresh + s.detached >= MaxThreads - 2

\* What the threads share is whole: in each program, what was said above.
SharedStateIsSound ==
    /\ prog \in Programs => TypeOK
    /\ CountIsSeenWhole /\ NoLostIncrement /\ SlotsComeFree

\* The programs that should end do: polling and mutil_thread join their
\* threads whatever the order in which they run (unless one could not be
\* created).
MainEnds ==
    prog \in {"polling", "mutil_thread"} ~>
        prog \in Programs /\ pc["main"] \in {"ended", "failed"}
=============================================================================
