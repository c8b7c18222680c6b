-------------------------- MODULE Exercises_proofs --------------------------
(***************************************************************************)
(* The safety properties of the exercises, for every set of processes and  *)
(* every value of the constants: here those of the threads, processes,     *)
(* locks, semaphore, typed queue and device, each by an invariant of its   *)
(* own program; Exchange_proofs adds the pipes, memory and sockets.        *)
(***************************************************************************)
EXTENDS ExercisesMC, TLAPS, FiniteSetTheorems, SequenceTheorems

-----------------------------------------------------------------------------
(* A program stays what it is, and only its own module moves it.            *)

LEMMA ThreadsKeepProg == T!Next => prog \in T!Programs /\ prog' = prog
  BY DEF T!Next, T!Running, T!ThreadSteps, T!MainSteps, T!Create, T!Join, T!ThreadLock, T!Load,
     T!Store, T!Signal, T!ThreadUnlock, T!MainLock, T!CondWait, T!SpuriousWake,
     T!CheckUnderLock, T!Poll, T!FirstEnds, T!Spawn, T!Detach, T!DetachedEnds

LEMMA ProcessesKeepProg == P!Next => prog \in P!Programs /\ prog' = prog
  BY DEF P!Next, P!ProgramSteps, P!Fork, P!ParentCounts, P!ChildEnds, P!ChildKilled,
     P!WaitReturns, P!Install, P!InstallFunc, P!InstallAndMask, P!InstallBoth, P!Mask,
     P!KillSelf, P!UserSignal, P!Deliver, P!Exec, P!Alive

LEMMA PipesKeepProg == Pi!Next => prog \in Pi!Programs /\ prog' = prog
  BY DEF Pi!Next, Pi!PipeSteps, Pi!RelatedSteps, Pi!FifoSteps, Pi!InstallHandler, Pi!CreatePipe,
     Pi!Interrupt, Pi!ReadOwnPipe, Pi!ForkReader, Pi!CloseReadEnd, Pi!WriteNext,
     Pi!CloseWriteEnd, Pi!ChildReads, Pi!ChildKilled, Pi!Type, Pi!BothOpen, Pi!ProducerOpens,
     Pi!ConsumerOpens, Pi!ProducerWrites, Pi!ProducerCloses, Pi!ConsumerReads,
     Pi!ConsumerCloses, Pi!Here, Pi!Programs

LEMMA MemoryKeepsProg == M!Next => prog \in M!Programs /\ prog' = prog
  BY DEF M!Next, M!FamilySteps, M!Steps, M!MapAndFork, M!ChildCounts, M!ParentPrints,
     M!WriterOpens, M!ReaderOpens, M!TruncateAndMap, M!WriterUses, M!ReaderUses, M!ShmGet,
     M!ShmAttach, M!FgetsStores, M!ReaderPrints, M!ReaderRemoves, M!Here, M!Programs

LEMMA SocketsKeepProg == So!Next => prog \in So!Programs /\ prog' = prog
  BY DEF So!Next, So!ClientSteps, So!ServerStarts, So!ServerSteps, So!StartChat,
     So!StartUnixStream, So!StartUnixDgram, So!StartIpv4Dgram, So!BindPort, So!BindPath,
     So!ServerKilled, So!Connect, So!Accept, So!ClientTypes, So!ClientReads, So!ClientKilled,
     So!ServerReads, So!ServerAnswers, So!WriteRequest, So!UpperAndReply, So!ReadReply,
     So!SendToUnix, So!SendToIpv4, So!Echo, So!Lose, So!RecvFrom, So!Here, So!Programs,
     So!Dgram, So!Unix

LEMMA LocksKeepProg == F!Next => prog \in F!Programs /\ prog' = prog
  BY DEF F!Next, F!StepsA, F!StepsB, F!AioSteps, F!OpenA, F!WriteA, F!OpenB, F!KillA, F!SharedA,
     F!TryExclusive, F!GiveUp, F!TryShared, F!ReadB, F!CloseB, F!LockA, F!LockFirst,
     F!LockSecond, F!WriteB, F!AioRead, F!AioDone, F!Handler, F!LookAtFlag, F!Here, F!Locking,
     F!Programs

LEMMA SemaphoreKeepsProg == N!Next => prog \in N!Programs /\ prog' = prog
  BY DEF N!Next, N!Calls, N!Create, N!FindsIt, N!Open, N!OpenFails, N!GetValue, N!TimedWait,
     N!WaitTimesOut, N!TypeChar, N!Post, N!Close, N!Kill, N!RunAgain, N!Step

LEMMA QueueKeepsProg == Q!Next => prog \in Q!Programs /\ prog' = prog
  BY DEF Q!Next, Q!Get, Q!AskType, Q!Send, Q!Receive, Q!ReceiveFails, Q!RemoveQueue, Q!Step

LEMMA DeviceKeepsProg == D!Next => prog \in D!Programs /\ prog' = prog
  BY DEF D!Next, D!Insmod, D!StageSucceeds, D!StageFailsUnseen, D!StageFails, D!Rmmod,
     D!FileCalls, D!Open, D!CloseFile, D!ReadNothing, D!ReadFile, D!WriteFile, D!WriteFull,
     D!WriteBreaks, D!Ioctl, D!Calls, D!NextStage, D!Step, D!Up

LEMMA OwnSteps ==
  ASSUME [Next]_vars
  PROVE  /\ prog' = prog
         /\ prog \in T!Programs  => [T!Next]_vars
         /\ prog \in P!Programs  => [P!Next]_vars
         /\ prog \in Pi!Programs => [Pi!Next]_vars
         /\ prog \in M!Programs  => [M!Next]_vars
         /\ prog \in So!Programs => [So!Next]_vars
         /\ prog \in F!Programs  => [F!Next]_vars
         /\ prog \in N!Programs  => [N!Next]_vars
         /\ prog \in Q!Programs  => [Q!Next]_vars
         /\ prog \in D!Programs  => [D!Next]_vars
  BY ThreadsKeepProg, ProcessesKeepProg, PipesKeepProg, MemoryKeepsProg, SocketsKeepProg,
     LocksKeepProg, SemaphoreKeepsProg, QueueKeepsProg, DeviceKeepsProg
  DEF Next, vars, T!Programs, P!Programs, P!Forking, Pi!Programs, M!Programs, So!Programs,
      So!Dgram, So!Unix, F!Programs, N!Programs, Q!Programs, D!Programs

LEMMA OwnInit ==
  ASSUME Init
  PROVE  /\ prog \in T!Programs  => T!Init
         /\ prog \in P!Programs  => P!Init
         /\ prog \in Pi!Programs => Pi!Init
         /\ prog \in M!Programs  => M!Init
         /\ prog \in So!Programs => So!Init
         /\ prog \in F!Programs  => F!Init
         /\ prog \in N!Programs  => N!Init
         /\ prog \in Q!Programs  => Q!Init
         /\ prog \in D!Programs  => D!Init
<1>1. /\ T!Init => prog \in T!Programs
      /\ P!Init => prog \in P!Programs
      /\ Pi!Init => prog \in Pi!Programs
      /\ M!Init => prog \in M!Programs
      /\ So!Init => prog \in So!Programs
      /\ F!Init => prog \in F!Programs
      /\ N!Init => prog \in N!Programs
      /\ Q!Init => prog \in Q!Programs
      /\ D!Init => prog \in D!Programs
  BY DEF T!Init, P!Init, Pi!Init, M!Init, So!Init, F!Init, N!Init, Q!Init, D!Init
<1> QED
  BY <1>1 DEF Init, T!Programs, P!Programs, P!Forking, Pi!Programs, M!Programs, So!Programs,
      So!Dgram, So!Unix, F!Programs, N!Programs, Q!Programs, D!Programs

-----------------------------------------------------------------------------
(* The threads.  A thread that counts has the mutex, and main() of con_var  *)
(* has it between the lock and the wait; what a thread has in its register  *)
(* is the counter.                                                         *)

Counting == {"test", "store", "unlock"}

ThreadTypes ==
    /\ prog \in T!Programs
    /\ pc \in [{"main", "th1", "th2"} ->
                  {"create1", "create2", "lock", "wait", "waiting", "woken", "poll", "spawn",
                   "join1", "join2", "failed", "none", "start", "test", "store", "unlock",
                   "ended", "joined"}]
    /\ pc["main"] \notin {"none", "start", "joined"} \cup Counting
    /\ pc["main"] = "create1" => pc["th1"] = "none"
    /\ pc["main"] \in {"create1", "create2"} => pc["th2"] = "none"
    /\ s \in [lock : {T!Nobody, "main"} \cup T!Workers, counter : Nat,
              reg : [T!Workers -> Nat], seen : Nat, kept : SUBSET T!Workers,
              fresh : Nat, detached : Nat]

\* The mutex is held by whom its place says, and by nobody else.
MutexHeld ==
    /\ \A t \in T!Workers : pc[t] \in Counting <=> s.lock = t
    /\ pc["main"] = "wait" <=> s.lock = "main"

OneThread ==
    /\ pc["th2"] = "none" /\ s.fresh = 0 /\ s.detached = 0
    /\ pc["th1"] \in {"none", "start", "ended", "joined"} \cup Counting
    /\ pc["th1"] \in {"none", "start"} => s.counter = 0
    /\ pc["th1"] = "store" => s.reg["th1"] = s.counter

InConVar ==
    /\ OneThread
    /\ pc["main"] \in {"create1", "lock", "wait", "waiting", "woken", "failed"}
    /\ pc["th1"] # "joined"
    /\ s.counter <= THRESHOLD + 1
    /\ pc["th1"] = "store" => s.counter <= THRESHOLD
    /\ pc["th1"] \in {"unlock", "ended"} => s.counter = THRESHOLD + 1
    /\ s.seen \in {0, THRESHOLD + 1}

InPolling ==
    /\ OneThread
    /\ pc["main"] \in {"create1", "poll", "join1", "ended", "failed"}
    /\ pc["th1"] # "unlock"
    /\ s.counter <= THRESHOLD
    /\ pc["th1"] = "store" => s.counter < THRESHOLD

\* A thread of mutil_thread has counted once its register is filled and empty
\* again in what it does next.
HasCounted(t) == pc[t] \in {"ended", "joined"} \/ (pc[t] = "test" /\ s.reg[t] # 0)

InMutil ==
    /\ pc["main"] \in {"create1", "create2", "join1", "join2", "ended", "failed"}
    /\ s.fresh = 0 /\ s.detached = 0
    /\ \A t \in T!Workers :
          /\ pc[t] \in {"none", "start", "test", "store", "ended", "joined"}
          /\ pc[t] \in {"none", "start"} => s.reg[t] = 0
          /\ pc[t] = "store" => s.reg[t] = s.counter
    /\ s.counter = 2 + (IF HasCounted("th1") THEN 1 ELSE 0) + (IF HasCounted("th2") THEN 1 ELSE 0)
    /\ pc["main"] = "join2" => pc["th1"] = "joined"
    /\ pc["main"] = "ended" => pc["th1"] = "joined" /\ pc["th2"] = "joined"

InTerminate ==
    /\ pc["main"] \in {"create1", "create2", "spawn", "ended", "failed"}
    /\ pc["th1"] \in {"none", "start", "ended"} /\ pc["th2"] \in {"none", "start"}
    /\ s.counter = 0 /\ s.kept \subseteq {"th1"}
    /\ s.fresh + s.detached <= MaxThreads
    /\ pc["main"] = "ended" => s.fresh + s.detached >= MaxThreads - 2

ThreadsInv ==
    /\ ThreadTypes /\ MutexHeld
    /\ prog = "con_var" => InConVar
    /\ prog = "polling" => InPolling
    /\ prog = "mutil_thread" => InMutil
    /\ prog = "thread_terminate" => InTerminate

LEMMA ThreadsStart == T!Init => ThreadsInv
  BY ExercisesAssumption
  DEF T!Init, T!Programs, T!Workers, T!Nobody, ThreadsInv, ThreadTypes, MutexHeld, OneThread,
      InConVar, InPolling, InMutil, InTerminate, HasCounted, Counting

\* At most both of the joinable threads keep a slot.
LEMMA TwoWorkers ==
  ASSUME NEW W \in SUBSET T!Workers
  PROVE  T!Cardinality(W) \in 0 .. 2
<1>1. Cardinality({}) = 0 /\ IsFiniteSet({})
  BY FS_EmptySet
<1>2. \A x : Cardinality({x}) = 1 /\ IsFiniteSet({x})
  BY FS_Singleton
<1>3. IsFiniteSet({"th1"}) /\ Cardinality({"th1"}) = 1 /\ Cardinality({"th2"}) = 1
  BY <1>2
<1>4. Cardinality({"th1"} \cup {"th2"}) = Cardinality({"th1"}) + 1
  BY <1>3, FS_AddElement
<1>5. Cardinality({"th1"} \cup {"th2"}) = 2
  BY <1>3, <1>4
<1>6. W = {} \/ W = {"th1"} \/ W = {"th2"} \/ W = {"th1"} \cup {"th2"}
  BY DEF T!Workers
<1>7. Cardinality(W) = 0 \/ Cardinality(W) = 1 \/ Cardinality(W) = 2
  BY <1>1, <1>3, <1>5, <1>6, Zenon
<1>8. T!Cardinality(W) = Cardinality(W)
  BY DEF T!Cardinality, Cardinality
<1> QED
  BY <1>7, <1>8

LEMMA ThreadsStep ==
  ASSUME prog \in T!Programs, ThreadsInv, [T!Next]_vars
  PROVE  ThreadsInv'
<1> USE ExercisesAssumption
    DEF ThreadsInv, ThreadTypes, MutexHeld, OneThread, InConVar, InPolling, InMutil, InTerminate,
        HasCounted, Counting, T!Workers, T!Nobody, T!Programs, T!At, T!Go
<1>1. CASE UNCHANGED vars
  BY <1>1 DEF vars
<1>2. ASSUME NEW t \in T!Workers, T!Create(t) PROVE ThreadsInv'
  <2> DEFINE next == IF t = "th1" /\ T!TwoThreads THEN "create2" ELSE T!AfterCreate
  <2>1. CASE pc' = [pc EXCEPT !["main"] = "failed"]
    BY <1>2, <2>1 DEF T!Create
  <2>2. CASE pc' = [pc EXCEPT ![t] = "start", !["main"] = next]
    <3>1. /\ prog = "con_var" => next = "lock"
          /\ prog = "polling" => next = "poll"
      BY DEF T!TwoThreads, T!AfterCreate
    <3>2. /\ prog = "mutil_thread" => next = IF t = "th1" THEN "create2" ELSE "join1"
          /\ prog = "thread_terminate" => next = IF t = "th1" THEN "create2" ELSE "spawn"
      BY DEF T!TwoThreads, T!AfterCreate
    <3>3. pc["main"] = (IF t = "th1" THEN "create1" ELSE "create2") /\ UNCHANGED <<prog, s>>
      BY <1>2 DEF T!Create
    <3> HIDE DEF next
    <3>4. next \in {"lock", "poll", "create2", "join1", "spawn"}
      BY <3>1, <3>2
    <3>5. pc'["main"] = next /\ pc'[t] = "start" /\ \A u \in T!Workers \ {t} : pc'[u] = pc[u]
      BY <2>2
    <3>6. ThreadTypes'
      <4>1. next # "create1" /\ (next = "create2" => t = "th1" /\ pc["th2"] = "none")
        BY <3>1, <3>2, <3>3
      <4>2. pc'["main"] = "create2" => pc'["th2"] = "none"
        BY <3>5, <4>1
      <4> QED
        BY <2>2, <3>3, <3>4, <4>1, <4>2
    <3>7. pc[t] = "none"
      BY <3>3
    <3>8. MutexHeld'
      BY <3>3, <3>4, <3>5, <3>7
    <3>9. (prog = "con_var" => InConVar)' /\ (prog = "polling" => InPolling)'
      BY <3>1, <3>3, <3>5
    <3>10. (prog = "mutil_thread" => InMutil)' /\ (prog = "thread_terminate" => InTerminate)'
      BY <3>2, <3>3, <3>5
    <3> QED
      BY <3>6, <3>8, <3>9, <3>10
  <2> QED
    BY <1>2, <2>1, <2>2 DEF T!Create
<1>3. ASSUME NEW t \in T!Workers, T!Join(t) PROVE ThreadsInv'
  BY <1>3 DEF T!Join
<1>4. ASSUME NEW t \in T!Workers, T!ThreadLock(t) PROVE ThreadsInv'
  BY <1>4 DEF T!ThreadLock, T!Lock
<1>5. ASSUME NEW t \in T!Workers, T!Load(t) PROVE ThreadsInv'
  BY <1>5 DEF T!Load, T!CountsOn
<1>6. ASSUME NEW t \in T!Workers, T!Store(t) PROVE ThreadsInv'
  BY <1>6 DEF T!Store
<1>7. ASSUME NEW t \in T!Workers, T!ThreadUnlock(t) PROVE ThreadsInv'
  BY <1>7 DEF T!ThreadUnlock, T!CountsOn
<1>8. CASE T!Signal
  BY <1>8 DEF T!Signal, T!CountsOn
<1>9. CASE T!MainLock
  BY <1>9 DEF T!MainLock, T!Lock
<1>10. CASE T!CondWait
  BY <1>10 DEF T!CondWait, T!Unlock
<1>11. CASE T!SpuriousWake
  BY <1>11 DEF T!SpuriousWake
<1>12. CASE T!CheckUnderLock
  <2>1. pc["main"] = "woken" /\ s.lock = T!Nobody /\ prog = "con_var" /\ prog' = prog
    BY <1>12 DEF T!CheckUnderLock
  <2>2. s.counter \in {0, THRESHOLD + 1}
    BY <2>1
  <2>3. s.counter # THRESHOLD
    BY <2>2
  <2>4. /\ s' = [s EXCEPT !.seen = s.counter, !.lock = "main"]
        /\ pc' = [pc EXCEPT !["main"] = "wait"]
    BY <1>12, <2>3 DEF T!CheckUnderLock
  <2> QED
    BY <2>1, <2>2, <2>4
<1>13. CASE T!Poll
  BY <1>13 DEF T!Poll
<1>14. CASE T!FirstEnds
  BY <1>14 DEF T!FirstEnds
<1>15. CASE T!Spawn
  <2>1. prog = "thread_terminate" /\ prog' = prog
    BY <1>15 DEF T!Spawn
  <2> DEFINE kept == {t \in T!Workers : pc[t] \notin {"none", "joined"}}
  <2>2. T!Cardinality(kept) \in 0 .. 2
    BY TwoWorkers
  <2>3. T!Held = s.fresh + s.detached + T!Cardinality(kept)
    BY Zenon DEF T!Held
  <2> HIDE DEF kept
  <2>4. CASE s.fresh + s.detached + T!Cardinality(kept) < MaxThreads
    <3>1. s' = [s EXCEPT !.fresh = @ + 1] /\ UNCHANGED pc
      BY <1>15, <2>4, <2>3 DEF T!Spawn
    <3>2. s.fresh + 1 + s.detached <= MaxThreads
      BY <2>2, <2>4
    <3> QED
      BY <1>15, <2>1, <3>1, <3>2 DEF T!Spawn
  <2>5. CASE ~(s.fresh + s.detached + T!Cardinality(kept) < MaxThreads)
    <3>1. UNCHANGED s /\ pc' = [pc EXCEPT !["main"] = "ended"] /\ pc["main"] = "spawn"
      BY <1>15, <2>5, <2>3 DEF T!Spawn
    <3>2. s.fresh + s.detached >= MaxThreads - 2
      BY <2>2, <2>5
    <3> QED
      BY <2>1, <3>1, <3>2
  <2> QED
    BY <2>4, <2>5
<1>16. CASE T!Detach /\ T!Running
  <2>1. /\ s' = [s EXCEPT !.fresh = @ - 1, !.detached = @ + 1]
        /\ UNCHANGED <<prog, pc>> /\ s.fresh > 0
    BY <1>16 DEF T!Detach
  <2>2. s.fresh - 1 \in Nat /\ s.detached + 1 \in Nat
    BY <2>1
  <2>3. (s.fresh - 1) + (s.detached + 1) = s.fresh + s.detached
    BY <2>1
  <2>4. s'.fresh + s'.detached = s.fresh + s.detached /\ prog = "thread_terminate"
    BY <2>1, <2>2, <2>3
  <2> QED
    BY <1>16, <2>1, <2>2, <2>4 DEF T!Running
<1>17. CASE T!DetachedEnds /\ T!Running
  BY <1>17 DEF T!DetachedEnds, T!Running
<1> QED
  BY <1>1, <1>2, <1>3, <1>4, <1>5, <1>6, <1>7, <1>8, <1>9, <1>10, <1>11, <1>12, <1>13, <1>14,
     <1>15, <1>16, <1>17 DEF T!Next, T!ThreadSteps, T!MainSteps

\* In each of the four programs: main() of con_var sees a whole count, no
\* increment of mutil_thread is lost, and a slot that is joined or detached
\* comes free, for every THRESHOLD and every number of threads.
THEOREM ThreadsShareSoundly == Spec => []SharedStateIsSound
<1> DEFINE I == prog \in T!Programs => ThreadsInv
<1>1. Init => I
  BY OwnInit, ThreadsStart
<1>2. I /\ [Next]_vars => I'
  BY OwnSteps, ThreadsStep
<1>3. I => SharedStateIsSound
  BY ExercisesAssumption
  DEF ThreadsInv, ThreadTypes, OneThread, InConVar, InPolling, InMutil, InTerminate, HasCounted,
      Counting, SharedStateIsSound, T!SharedStateIsSound, T!TypeOK, T!CountIsSeenWhole,
      T!NoLostIncrement, T!SlotsComeFree, T!Workers, T!Nobody, T!Programs, T!At
<1> QED
  BY <1>1, <1>2, <1>3, PTL DEF Spec

-----------------------------------------------------------------------------
(* The processes.  Only func() of safe_fork waits in a handler, and SIGCHLD *)
(* is pending for it only when there is a zombie.                          *)

ProcessTypes ==
    /\ prog \in P!Programs
    /\ pc \in [parent : {"start", "count", "spin", "wait", "install", "mask", "term", "sleep"},
               child  : {"none", "running", "zombie", "reaped"}]
    /\ s \in [pending : SUBSET P!Signals, blocked : SUBSET P!Signals,
              handled : SUBSET P!Signals, counter : [{"parent", "child"} -> Nat],
              waited : BOOLEAN, late : BOOLEAN,
              end : {"no", "fork failed", "killed", "returned", "success", "ls"}]

ProcessPlaces ==
    /\ prog \notin P!Forking \/ pc.parent = "start" => pc.child = "none"
    /\ prog = "fork" => pc.parent \in {"start", "count", "spin"} /\ pc.child # "reaped"
    /\ pc.parent = "count" => prog = "fork"
    /\ pc.parent = "wait" => prog = "wait_waitpid"
    /\ prog = "signal_BLOCKING" => pc.parent \in {"start", "mask", "spin"}

ProcessSignals ==
    /\ "CHLD" \in s.handled => prog = "safe_fork"
    /\ "CHLD" \in s.pending => prog = "safe_fork" /\ pc.child = "zombie"
    /\ prog = "safe_fork" /\ pc.child = "zombie" => s.late \/ "CHLD" \in s.pending
    /\ prog = "signal_BLOCKING" =>
          /\ s.handled \subseteq {"INT"}
          /\ pc.parent = "spin" => s.blocked = {"INT"} /\ s.end \in {"no", "killed"}

ProcessCounts ==
    /\ s.waited => pc.child = "reaped"
    /\ s.counter["parent"] = IF prog = "fork" /\ pc.parent = "spin" THEN 3 ELSE 2
    /\ s.counter["child"] = IF prog = "fork" /\ pc.child = "zombie" THEN 3 ELSE 2

ProcessesInv == ProcessTypes /\ ProcessPlaces /\ ProcessSignals /\ ProcessCounts

LEMMA ThreeIsNext == 2 + 1 = 3
  OBVIOUS

LEMMA ProcessesStart == P!Init => ProcessesInv
  BY DEF P!Init, P!Programs, P!Forking, P!Signals, ProcessesInv, ProcessTypes, ProcessPlaces,
         ProcessSignals, ProcessCounts

LEMMA ProcessesStep ==
  ASSUME prog \in P!Programs, ProcessesInv, [P!Next]_vars
  PROVE  ProcessesInv'
<1> USE DEF P!Programs, P!Forking, P!Signals, ProcessesInv, ProcessTypes, ProcessPlaces,
        ProcessSignals, ProcessCounts, P!At, P!Go, P!Alive, P!End
<1>1. CASE UNCHANGED vars
  BY <1>1 DEF vars
<1>2. CASE P!Fork
  <2>1. prog \in P!Forking /\ pc.parent = "start" /\ pc.child = "none" /\ prog' = prog
    BY <1>2 DEF P!Fork
  <2>2. CASE UNCHANGED pc /\ P!End("fork failed")
    BY <2>1, <2>2
  <2>3. CASE pc' = [parent |-> P!AfterFork, child |-> "running"] /\ UNCHANGED s
    <3>1. /\ prog = "fork" => P!AfterFork = "count"
          /\ prog = "zombie" => P!AfterFork = "spin"
          /\ prog = "wait_waitpid" => P!AfterFork = "wait"
          /\ prog = "safe_fork" => P!AfterFork = "install"
      BY DEF P!AfterFork
    <3>2. pc'.parent = P!AfterFork /\ pc'.child = "running"
      BY <2>3
    <3> QED
      BY <2>1, <2>3, <3>1, <3>2
  <2> QED
    BY <1>2, <2>2, <2>3 DEF P!Fork
<1>3. CASE P!ParentCounts
  <2>1. prog = "fork" /\ pc.parent = "count" /\ prog' = prog /\ s.counter["parent"] = 2
    BY <1>3 DEF P!ParentCounts
  <2>2. pc' = [pc EXCEPT !.parent = "spin"] /\ s' = [s EXCEPT !.counter["parent"] = 3]
    <3>1. s.counter["parent"] + 1 = 3
      BY <2>1, ThreeIsNext, Zenon
    <3> QED
      BY <1>3, <3>1 DEF P!ParentCounts
  <2>3. pc'.parent = "spin" /\ pc'.child = pc.child
    BY <2>2
  <2>4. /\ s'.counter["parent"] = 3 /\ s'.counter["child"] = s.counter["child"]
        /\ s'.waited = s.waited /\ s'.pending = s.pending /\ s'.handled = s.handled
        /\ s'.late = s.late
    BY <2>2
  <2>5. ProcessTypes'
    BY <2>1, <2>2
  <2> QED
    BY <2>1, <2>3, <2>4, <2>5
<1>4. CASE P!WaitReturns
  <2>1. prog = "wait_waitpid" /\ pc.parent = "wait" /\ prog' = prog
    BY <1>4 DEF P!WaitReturns
  <2>2. pc' = [pc EXCEPT !.child = "reaped"] /\ pc.child = "zombie"
    BY <1>4 DEF P!WaitReturns
  <2> QED
    BY <1>4, <2>1, <2>2 DEF P!WaitReturns
<1>5. CASE P!Exec
  BY <1>5 DEF P!Exec
<1>6. CASE P!InstallFunc
  BY <1>6 DEF P!InstallFunc, P!Install
<1>7. CASE P!InstallAndMask
  BY <1>7 DEF P!InstallAndMask, P!Install
<1>8. CASE P!InstallBoth
  <2>1. PICK sig \in {"INT", "TERM"}, to \in {"term", "sleep"} :
            /\ s' = [s EXCEPT !.handled = @ \cup {sig}]
            /\ pc' = [pc EXCEPT !.parent = to]
    BY <1>8 DEF P!InstallBoth, P!Install
  <2>2. prog = "signal_SIGINT" /\ prog' = prog
    BY <1>8 DEF P!InstallBoth, P!Install
  <2>3. s.handled \cup {sig} \in SUBSET P!Signals
    OBVIOUS
  <2> QED
    BY <2>1, <2>2, <2>3
<1>9. CASE P!Mask
  BY <1>9 DEF P!Mask
<1>10. CASE P!KillSelf
  BY <1>10 DEF P!KillSelf
<1>11. CASE P!ChildEnds
  <2> DEFINE n == IF prog = "fork" THEN s.counter["child"] + 1 ELSE s.counter["child"]
  <2>1. PICK r : r = [s EXCEPT !.counter["child"] = n]
    OBVIOUS
  <2>2. s' = P!BecomesZombie(r) /\ prog' = prog
    BY <1>11, <2>1 DEF P!ChildEnds
  <2>3. pc.child = "running" /\ pc' = [pc EXCEPT !.child = "zombie"]
    BY <1>11 DEF P!ChildEnds
  <2>4. n = IF prog = "fork" THEN 3 ELSE 2
    <3>1. s.counter["child"] = 2
      BY <2>3
    <3>2. s.counter["child"] + 1 = 3
      BY <3>1, ThreeIsNext, Zenon
    <3> QED
      BY <3>1, <3>2
  <2> HIDE DEF n
  <2>5. /\ r.counter["child"] = n /\ r.counter["parent"] = s.counter["parent"]
        /\ r.handled = s.handled /\ r.pending = s.pending /\ r.blocked = s.blocked
        /\ r.waited = s.waited /\ r.end = s.end
        /\ r \in [pending : SUBSET P!Signals, blocked : SUBSET P!Signals,
                   handled : SUBSET P!Signals, counter : [{"parent", "child"} -> Nat],
                   waited : BOOLEAN, late : BOOLEAN,
                   end : {"no", "fork failed", "killed", "returned", "success", "ls"}]
    BY <2>1, <2>4
  <2>6. /\ s'.counter = r.counter /\ s'.handled = r.handled /\ s'.blocked = r.blocked
        /\ s'.waited = r.waited /\ s'.end = r.end
        /\ s'.pending = IF "CHLD" \in r.handled THEN r.pending \cup {"CHLD"} ELSE r.pending
        /\ s'.late = ("CHLD" \notin r.handled)
    BY <2>2, <2>5 DEF P!BecomesZombie
  <2>7. ProcessTypes'
    BY <2>2, <2>3, <2>5 DEF P!BecomesZombie
  <2>8. pc'.child = "zombie" /\ pc'.parent = pc.parent
    BY <2>3
  <2> QED
    BY <2>2, <2>3, <2>4, <2>5, <2>6, <2>7, <2>8
<1>12. CASE P!ChildKilled
  BY <1>12 DEF P!ChildKilled, P!BecomesZombie
<1>13. ASSUME NEW sig \in {"INT", "TERM"}, P!UserSignal(sig) PROVE ProcessesInv'
  BY <1>13 DEF P!UserSignal
<1>14. ASSUME NEW sig \in P!Signals, P!Deliver(sig) PROVE ProcessesInv'
  <2>1. sig \in s.pending /\ sig \notin s.blocked /\ prog' = prog /\ s.end = "no"
    BY <1>14 DEF P!Deliver
  <2>2. CASE sig \notin s.handled
    <3>1. s' = [s EXCEPT !.end = "killed"] /\ UNCHANGED pc
      BY <1>14, <2>2 DEF P!Deliver
    <3> QED
      BY <2>1, <3>1
  <2>3. CASE sig \in s.handled /\ sig = "CHLD"
    <3>1. /\ s' = [s EXCEPT !.pending = @ \ {"CHLD"}, !.waited = TRUE]
          /\ pc' = [pc EXCEPT !.child = "reaped"]
      BY <1>14, <2>3 DEF P!Deliver, P!Func
    <3>2. prog = "safe_fork" /\ pc.child = "zombie"
      BY <2>1, <2>3
    <3> QED
      BY <2>1, <3>1, <3>2
  <2>4. CASE sig \in s.handled /\ sig # "CHLD"
    <3>1. s' = [s EXCEPT !.end = "success"] /\ UNCHANGED pc
      BY <1>14, <2>4 DEF P!Deliver, P!ExitHandler
    <3>2. ~(prog = "signal_BLOCKING" /\ pc.parent = "spin")
      BY <2>1, <2>4
    <3> QED
      BY <2>1, <3>1, <3>2
  <2> QED
    BY <2>2, <2>3, <2>4
<1> QED
  BY <1>1, <1>2, <1>3, <1>4, <1>5, <1>6, <1>7, <1>8, <1>9, <1>10, <1>11, <1>12, <1>13, <1>14
  DEF P!Next, P!ProgramSteps

\* No zombie stays but one whose signal came too early, no handler waits for a
\* child that runs, counters are copies, and a blocked SIGINT stays pending.
THEOREM NoProcessIsLeftOver == Spec => []ProcessesAreKept
<1> DEFINE I == prog \in P!Programs => ProcessesInv
<1>1. Init => I
  BY OwnInit, ProcessesStart
<1>2. I /\ [Next]_vars => I'
  BY OwnSteps, ProcessesStep
<1>3. I => ProcessesAreKept
  BY DEF ProcessesInv, ProcessTypes, ProcessPlaces, ProcessSignals, ProcessCounts,
         ProcessesAreKept, P!ProcessesAreKept, P!TypeOK, P!ZombieOnlyIfLate,
         P!HandlerNeverWaits, P!CountersAreCopies, P!BlockedStaysPending, P!Programs,
         P!Forking, P!Signals, P!At
<1> QED
  BY <1>1, <1>2, <1>3, PTL DEF Spec

-----------------------------------------------------------------------------
(* The file locks.  A lock of flock() for one process is had only between   *)
(* the two calls of process_B; who is about to write has bytes 6 to 13.     *)

FileState ==
    [exists : BOOLEAN, by : [F!Regions -> F!Procs \cup {F!NoText}],
     shared : SUBSET F!Procs, exclusive : SUBSET Bs,
     owner : [F!Regions -> F!Procs \cup {F!Nobody}],
     got : [F!Procs -> F!Procs \cup {F!NoText, "nothing", "lock", "refused"}],
     aio : {"none", "asked", "refused", "done"}, flag : {0, 1}, buf : {F!NoText, "read"}]

FilePlaces ==
    {"open", "write", "lock", "hold", "exclusive", "convert", "shared", "read", "close",
     "lock1", "lock2", "look", "ended"}

FileTypes ==
    /\ prog \in F!Programs
    /\ pc \in [F!Procs \cup {"main"} -> FilePlaces]
    /\ s \in FileState

UnderFlock ==
    /\ s.exclusive # {} => s.shared = {}
    /\ \A b, c \in s.exclusive : b = c
    /\ \A b \in s.exclusive : pc[b] = "convert"
    /\ \A b \in Bs : /\ pc[b] = "read" => b \in s.shared
                     /\ s.got[b] = "refused" => \E c \in Bs \ {b} : pc[c] # "open"

UnderFcntl ==
    /\ \A b \in Bs : pc[b] = "write" => s.owner["r6_13"] = b
    /\ s.by["r14"] = s.by["r6_13"]
    /\ s.by["r0"] \in As \cup {F!NoText}

UnderAio ==
    /\ s.aio = "done" \/ s.flag = 1 => s.buf = "read"
    /\ pc["main"] = "ended" => s.flag = 1

FilesInv ==
    /\ FileTypes
    /\ prog = "flock" => UnderFlock
    /\ prog = "fcntl" => UnderFcntl
    /\ prog = "rw_sync" => UnderAio

LEMMA FilesStart == F!Init => FilesInv
  BY ExercisesAssumption
  DEF F!Init, F!Programs, F!Procs, F!Nobody, F!NoText, F!Regions, FilesInv, FileState, FilePlaces,
      FileTypes, UnderFlock, UnderFcntl, UnderAio, Texts

LEMMA FileMoves ==
  ASSUME FileTypes, NEW p \in F!Procs \cup {"main"}, NEW from, NEW to \in FilePlaces,
         F!Step(p, from, to)
  PROVE  /\ pc[p] = from /\ pc'[p] = to /\ pc' \in [F!Procs \cup {"main"} -> FilePlaces]
         /\ \A q \in (F!Procs \cup {"main"}) \ {p} : pc'[q] = pc[q]
  BY DEF F!Step, F!At, F!Go, FileTypes

\* close() or the end of a process takes its locks, and nothing else.
LEMMA FileClosed ==
  ASSUME FileTypes, NEW p \in F!Procs, s' = F!Closed(s, p)
  PROVE  /\ s' \in FileState /\ s'.by = s.by /\ s'.got = s.got
         /\ s'.shared = s.shared \ {p} /\ s'.exclusive = s.exclusive \ {p}
         /\ \A r \in F!Regions : s'.owner[r] = IF s.owner[r] = p THEN F!Nobody ELSE s.owner[r]
<1> DEFINE o == [r \in F!Regions |-> IF s.owner[r] = p THEN F!Nobody ELSE s.owner[r]]
<1>1. s' = [s EXCEPT !.shared = @ \ {p}, !.exclusive = @ \ {p}, !.owner = o]
  BY DEF F!Closed
<1>2. o \in [F!Regions -> F!Procs \cup {F!Nobody}]
  BY DEF FileTypes, FileState
<1>3. \A r \in F!Regions : o[r] = IF s.owner[r] = p THEN F!Nobody ELSE s.owner[r]
  OBVIOUS
<1> HIDE DEF o
<1> QED
  BY <1>1, <1>2, <1>3 DEF FileTypes, FileState

\* F_SETLK: the region is had by who asked, or stays with whom it was.
LEMMA FileLocked ==
  ASSUME FileTypes, NEW p \in F!Procs, NEW r \in F!Regions
  PROVE  LET t == F!TryLock(s, r, p)
         IN  /\ t \in FileState /\ t.by = s.by /\ t.got = s.got
             /\ t.owner[r] = IF F!Free(r, p) THEN p ELSE s.owner[r]
             /\ \A q \in F!Regions \ {r} : t.owner[q] = s.owner[q]
  BY DEF F!TryLock, F!Free, FileTypes, FileState

\* process_A.
LEMMA FilesStepA ==
  ASSUME FilesInv, NEW a \in As, F!StepsA(a) \/ F!KillA(a)
  PROVE  FilesInv'
<1>1. /\ a \in F!Procs /\ a \notin Bs /\ a # "main" /\ FileTypes /\ s \in FileState
      /\ F!Nobody \notin F!Procs
  BY ExercisesAssumption DEF F!Procs, F!Nobody, FilesInv, FileTypes, Texts
<1> USE DEF F!Programs, F!Locking, F!Here
<1>2. CASE F!OpenA(a)
  <2>1. /\ prog' = prog /\ prog # "rw_sync" /\ pc[a] = "open" /\ pc'[a] = "write"
        /\ pc' \in [F!Procs \cup {"main"} -> FilePlaces]
        /\ \A q \in (F!Procs \cup {"main"}) \ {a} : pc'[q] = pc[q]
    BY <1>1, <1>2, FileMoves DEF F!OpenA, FilePlaces
  <2>2. s' = [s EXCEPT !.exists = TRUE]
    BY <1>2 DEF F!OpenA
  <2>3. /\ s' \in FileState /\ s'.by = s.by /\ s'.got = s.got /\ s'.shared = s.shared
        /\ s'.exclusive = s.exclusive /\ s'.owner = s.owner
    BY <1>1, <2>2 DEF FileState
  <2>4. FileTypes'
    BY <1>1, <2>1, <2>3 DEF FileTypes
  <2>5. (prog = "flock" => UnderFlock)'
    BY <1>1, <2>1, <2>3 DEF FilesInv, FileState, UnderFlock, F!Procs
  <2>6. (prog = "fcntl" => UnderFcntl)'
    BY <1>1, <2>1, <2>3 DEF FilesInv, UnderFcntl, F!Procs
  <2> QED
    BY <2>1, <2>4, <2>5, <2>6 DEF FilesInv
<1>3. CASE F!WriteA(a)
  <2>1. /\ prog' = prog /\ prog # "rw_sync" /\ pc[a] = "write" /\ pc'[a] = "lock"
        /\ pc' \in [F!Procs \cup {"main"} -> FilePlaces]
        /\ \A q \in (F!Procs \cup {"main"}) \ {a} : pc'[q] = pc[q]
    BY <1>1, <1>3, FileMoves DEF F!WriteA, FilePlaces
  <2>2. s' = [s EXCEPT !.by = [r \in F!Regions |-> a]]
    BY <1>3 DEF F!WriteA
  <2>3. /\ s' \in FileState /\ s'.got = s.got /\ s'.shared = s.shared
        /\ s'.exclusive = s.exclusive /\ s'.owner = s.owner
        /\ s'.by["r14"] = a /\ s'.by["r6_13"] = a /\ s'.by["r0"] = a
    BY <1>1, <2>2 DEF FileState, F!Regions
  <2>4. FileTypes'
    BY <1>1, <2>1, <2>3 DEF FileTypes
  <2>5. (prog = "flock" => UnderFlock)'
    BY <1>1, <2>1, <2>3 DEF FilesInv, FileState, UnderFlock, F!Procs
  <2>6. (prog = "fcntl" => UnderFcntl)'
    BY <1>1, <2>1, <2>3 DEF FilesInv, UnderFcntl, F!Procs
  <2> QED
    BY <2>1, <2>4, <2>5, <2>6 DEF FilesInv
<1>4. CASE F!SharedA(a)
  <2>1. /\ prog' = prog /\ prog = "flock" /\ pc[a] = "lock" /\ pc'[a] = "hold"
        /\ pc' \in [F!Procs \cup {"main"} -> FilePlaces]
        /\ \A q \in (F!Procs \cup {"main"}) \ {a} : pc'[q] = pc[q]
    BY <1>1, <1>4, FileMoves DEF F!SharedA, FilePlaces
  <2>2. s' = [s EXCEPT !.shared = @ \cup {a}] /\ s.exclusive = {}
    BY <1>4 DEF F!SharedA
  <2>3. /\ s' \in FileState /\ s'.got = s.got /\ s'.shared = s.shared \cup {a}
        /\ s'.exclusive = {}
    BY <1>1, <2>2 DEF FileState
  <2> QED
    BY <1>1, <2>1, <2>3 DEF FilesInv, FileTypes, UnderFlock, F!Procs
<1>5. CASE F!LockA(a)
  <2>1. /\ prog' = prog /\ prog = "fcntl" /\ pc[a] = "lock" /\ pc'[a] = "hold"
        /\ pc' \in [F!Procs \cup {"main"} -> FilePlaces]
        /\ \A q \in (F!Procs \cup {"main"}) \ {a} : pc'[q] = pc[q]
    BY <1>1, <1>5, FileMoves DEF F!LockA, FilePlaces
  <2>2. s' = F!TryLock(s, "r1_5", a) /\ {"r1_5", "r6_13"} \subseteq F!Regions
    BY <1>5 DEF F!LockA, F!Regions
  <2>3. s' \in FileState /\ s'.by = s.by /\ s'.owner["r6_13"] = s.owner["r6_13"]
    BY <1>1, <2>2, FileLocked
  <2> QED
    BY <1>1, <2>1, <2>3 DEF FilesInv, FileTypes, UnderFcntl, F!Procs
<1>6. CASE F!KillA(a)
  <2>1. /\ prog' = prog /\ prog # "rw_sync" /\ pc'[a] = "ended"
        /\ pc' \in [F!Procs \cup {"main"} -> FilePlaces]
        /\ \A q \in (F!Procs \cup {"main"}) \ {a} : pc'[q] = pc[q]
    BY <1>1, <1>6 DEF F!KillA, F!Go, FileTypes, FilePlaces
  <2>2. s' = F!Closed(s, a) /\ "r6_13" \in F!Regions
    BY <1>6 DEF F!KillA, F!Regions
  <2>3. /\ s' \in FileState /\ s'.by = s.by /\ s'.got = s.got
        /\ s'.shared = s.shared \ {a} /\ s'.exclusive = s.exclusive \ {a}
        /\ s.owner["r6_13"] # a => s'.owner["r6_13"] = s.owner["r6_13"]
    BY <1>1, <2>2, FileClosed
  <2> QED
    BY <1>1, <2>1, <2>3 DEF FilesInv, FileTypes, FileState, UnderFlock, UnderFcntl, F!Procs
<1> QED
  BY <1>2, <1>3, <1>4, <1>5, <1>6 DEF F!StepsA

\* process_B of flock.
LEMMA FilesStepFlock ==
  ASSUME FilesInv, NEW b \in Bs,
         F!TryExclusive(b) \/ F!GiveUp(b) \/ F!TryShared(b) \/ F!ReadB(b)
  PROVE  FilesInv'
<1>1. /\ b \in F!Procs /\ b \notin As /\ b # "main" /\ FileTypes /\ s \in FileState
      /\ "refused" \notin F!Procs
  BY ExercisesAssumption DEF F!Procs, F!Nobody, FilesInv, FileTypes, Texts
<1>2. prog = "flock" /\ prog' = prog /\ UnderFlock
  BY DEF F!TryExclusive, F!GiveUp, F!TryShared, F!ReadB, F!Here, FilesInv
<1>3. PICK to \in {"convert", "shared", "read", "close"} :
          /\ F!Step(b, pc[b], to)
          /\ pc[b] \in {"exclusive", "convert", "shared", "read"}
          /\ to = "read" => pc[b] = "shared"
  BY DEF F!TryExclusive, F!GiveUp, F!TryShared, F!ReadB, F!Step, F!At
<1>4. /\ pc'[b] = to /\ pc' \in [F!Procs \cup {"main"} -> FilePlaces]
      /\ \A q \in (F!Procs \cup {"main"}) \ {b} : pc'[q] = pc[q]
  <2>1. to \in FilePlaces
    BY <1>3 DEF FilePlaces
  <2> QED
    BY <1>1, <1>3, <2>1, FileMoves
<1>5. \A c \in Bs : pc[c] # "open" => pc'[c] # "open"
  BY <1>3, <1>4 DEF F!Procs
<1>6. CASE F!TryExclusive(b)
  <2>1. s' = [s EXCEPT !.exclusive = IF s.shared \cup @ = {} THEN {b} ELSE @]
        /\ pc[b] = "exclusive" /\ pc'[b] = "convert"
    BY <1>1, <1>6, FileMoves DEF F!TryExclusive, FilePlaces
  <2>2. /\ s' \in FileState /\ s'.got = s.got /\ s'.shared = s.shared
        /\ s'.exclusive = IF s.shared \cup s.exclusive = {} THEN {b} ELSE s.exclusive
    BY <1>1, <2>1 DEF FileState
  <2>3. UnderFlock'
    BY <1>1, <1>2, <1>4, <1>5, <2>1, <2>2 DEF UnderFlock, FileState, F!Procs
  <2> QED
    BY <1>2, <1>4, <2>2, <2>3 DEF FilesInv, FileTypes
<1>7. CASE F!GiveUp(b)
  <2>1. s' = [s EXCEPT !.exclusive = @ \ {b}] /\ pc[b] = "convert" /\ pc'[b] = "shared"
    BY <1>1, <1>7, FileMoves DEF F!GiveUp, FilePlaces
  <2>2. /\ s' \in FileState /\ s'.got = s.got /\ s'.shared = s.shared
        /\ s'.exclusive = s.exclusive \ {b}
    BY <1>1, <2>1 DEF FileState
  <2>3. UnderFlock'
    BY <1>1, <1>2, <1>4, <1>5, <2>1, <2>2 DEF UnderFlock, FileState, F!Procs
  <2> QED
    BY <1>2, <1>4, <2>2, <2>3 DEF FilesInv, FileTypes
<1>8. CASE F!TryShared(b) /\ s.exclusive = {}
  <2>1. s' = [s EXCEPT !.shared = @ \cup {b}] /\ pc[b] = "shared" /\ pc'[b] = "read"
    BY <1>1, <1>8, FileMoves DEF F!TryShared, FilePlaces
  <2>2. /\ s' \in FileState /\ s'.got = s.got /\ s'.shared = s.shared \cup {b}
        /\ s'.exclusive = {}
    BY <1>1, <1>8, <2>1 DEF FileState
  <2>3. UnderFlock'
    BY <1>1, <1>2, <1>4, <1>5, <2>1, <2>2 DEF UnderFlock, FileState, F!Procs
  <2> QED
    BY <1>2, <1>4, <2>2, <2>3 DEF FilesInv, FileTypes
<1>9. CASE F!TryShared(b) /\ s.exclusive # {}
  <2>1. s' = [s EXCEPT !.got[b] = "refused"] /\ pc[b] = "shared" /\ pc'[b] = "close"
    BY <1>1, <1>9, FileMoves DEF F!TryShared, FilePlaces
  <2>2. /\ s' \in FileState /\ s'.shared = s.shared /\ s'.exclusive = s.exclusive
        /\ \A c \in Bs \ {b} : s'.got[c] = s.got[c]
    BY <1>1, <2>1 DEF FileState, F!Procs
  <2>3. PICK c \in s.exclusive : pc[c] = "convert"
    BY <1>2, <1>9 DEF UnderFlock
  <2>4. c \in Bs \ {b} /\ pc'[c] # "open"
    BY <1>1, <1>5, <2>1, <2>3 DEF FileState
  <2>5. UnderFlock'
    BY <1>1, <1>2, <1>4, <1>5, <2>1, <2>2, <2>4 DEF UnderFlock, FileState, F!Procs
  <2> QED
    BY <1>2, <1>4, <2>2, <2>5 DEF FilesInv, FileTypes
<1>10. CASE F!ReadB(b)
  <2>1. s' = [s EXCEPT !.got[b] = s.by["r0"]] /\ pc[b] = "read" /\ pc'[b] = "close"
    BY <1>1, <1>10, FileMoves DEF F!ReadB, FilePlaces
  <2>2. s.by["r0"] \in F!Procs \cup {F!NoText} /\ s.by["r0"] # "refused"
    BY <1>1 DEF FileState, F!Regions, F!NoText
  <2>3. /\ s' \in FileState /\ s'.shared = s.shared /\ s'.exclusive = s.exclusive
        /\ s'.got[b] # "refused" /\ \A c \in Bs \ {b} : s'.got[c] = s.got[c]
    BY <1>1, <2>1, <2>2 DEF FileState, F!Procs
  <2>4. UnderFlock'
    BY <1>1, <1>2, <1>4, <1>5, <2>1, <2>3 DEF UnderFlock, FileState, F!Procs
  <2> QED
    BY <1>2, <1>4, <2>3, <2>4 DEF FilesInv, FileTypes
<1> QED
  BY <1>6, <1>7, <1>8, <1>9, <1>10

\* process_B of either program comes and goes.
LEMMA FilesComeAndGo ==
  ASSUME FilesInv, NEW b \in Bs, F!OpenB(b) \/ F!CloseB(b)
  PROVE  FilesInv'
<1>1. /\ b \in F!Procs /\ b \notin As /\ b # "main" /\ FileTypes /\ s \in FileState
      /\ F!Nobody \notin F!Procs
  BY ExercisesAssumption DEF F!Procs, F!Nobody, FilesInv, FileTypes, Texts
<1>2. prog # "rw_sync" /\ prog' = prog
  BY DEF F!OpenB, F!CloseB, F!Here, F!Locking
<1>3. CASE F!OpenB(b)
  <2>1. PICK to \in {"ended", "exclusive", "lock1"} : F!Step(b, "open", to)
    BY <1>3 DEF F!OpenB
  <2>2. to \in FilePlaces
    BY DEF FilePlaces
  <2>3. /\ pc'[b] = to /\ pc[b] = "open" /\ pc' \in [F!Procs \cup {"main"} -> FilePlaces]
        /\ \A q \in (F!Procs \cup {"main"}) \ {b} : pc'[q] = pc[q]
    BY <1>1, <2>1, <2>2, FileMoves
  <2>4. s' = s
    BY <1>3 DEF F!OpenB
  <2>5. FileTypes'
    BY <1>1, <1>2, <2>3, <2>4 DEF FileTypes
  <2>6. (prog = "flock" => UnderFlock)'
    BY <1>1, <1>2, <2>3, <2>4 DEF FilesInv, FileState, UnderFlock, F!Procs
  <2>7. (prog = "fcntl" => UnderFcntl)'
    BY <1>1, <1>2, <2>3, <2>4 DEF FilesInv, UnderFcntl, F!Procs
  <2> QED
    BY <1>2, <2>5, <2>6, <2>7 DEF FilesInv
<1>4. CASE F!CloseB(b)
  <2>1. /\ pc'[b] = "ended" /\ pc[b] = "close" /\ pc' \in [F!Procs \cup {"main"} -> FilePlaces]
        /\ \A q \in (F!Procs \cup {"main"}) \ {b} : pc'[q] = pc[q]
    BY <1>1, <1>4, FileMoves DEF F!CloseB, FilePlaces
  <2>2. s' = F!Closed(s, b) /\ "r6_13" \in F!Regions
    BY <1>4 DEF F!CloseB, F!Regions
  <2>3. /\ s' \in FileState /\ s'.by = s.by /\ s'.got = s.got
        /\ s'.shared = s.shared \ {b} /\ s'.exclusive = s.exclusive \ {b}
        /\ s.owner["r6_13"] # b => s'.owner["r6_13"] = s.owner["r6_13"]
    BY <1>1, <2>2, FileClosed
  <2>4. FileTypes'
    BY <1>1, <1>2, <2>1, <2>3 DEF FileTypes
  <2>5. (prog = "flock" => UnderFlock)'
    BY <1>1, <1>2, <2>1, <2>3 DEF FilesInv, FileState, UnderFlock, F!Procs
  <2>6. (prog = "fcntl" => UnderFcntl)'
    BY <1>1, <1>2, <2>1, <2>3 DEF FilesInv, UnderFcntl, F!Procs
  <2> QED
    BY <1>2, <2>4, <2>5, <2>6 DEF FilesInv
<1> QED
  BY <1>3, <1>4

\* process_B of fcntl.
LEMMA FilesStepFcntl ==
  ASSUME FilesInv, NEW b \in Bs, F!LockFirst(b) \/ F!LockSecond(b) \/ F!WriteB(b)
  PROVE  FilesInv'
<1>1. /\ b \in F!Procs /\ b \notin As /\ b # "main" /\ FileTypes /\ s \in FileState
      /\ F!Nobody \notin F!Procs /\ "r1_5" \in F!Regions /\ "r6_13" \in F!Regions
  BY ExercisesAssumption DEF F!Procs, F!Nobody, F!Regions, FilesInv, FileTypes, Texts
<1>2. prog = "fcntl" /\ prog' = prog /\ UnderFcntl
  BY DEF F!LockFirst, F!LockSecond, F!WriteB, F!Here, FilesInv
<1>3. CASE F!LockFirst(b)
  <2>1. /\ pc'[b] = "lock2" /\ pc' \in [F!Procs \cup {"main"} -> FilePlaces]
        /\ \A q \in (F!Procs \cup {"main"}) \ {b} : pc'[q] = pc[q]
    BY <1>1, <1>3, FileMoves DEF F!LockFirst, FilePlaces
  <2>2. s' = F!TryLock(s, "r1_5", b)
    BY <1>3 DEF F!LockFirst
  <2>3. s' \in FileState /\ s'.by = s.by /\ s'.owner["r6_13"] = s.owner["r6_13"]
    BY <1>1, <2>2, FileLocked
  <2>4. UnderFcntl'
    BY <1>2, <2>1, <2>3 DEF UnderFcntl, F!Procs
  <2> QED
    BY <1>1, <1>2, <2>1, <2>3, <2>4 DEF FilesInv, FileTypes
<1>4. CASE F!LockSecond(b)
  <2> DEFINE free == F!Free("r6_13", b)
             to   == IF free THEN "write" ELSE "close"
             got  == IF free THEN "lock" ELSE "refused"
  <2>1. F!Step(b, "lock2", to) /\ to \in FilePlaces
    BY <1>4 DEF F!LockSecond, FilePlaces
  <2>2. /\ pc'[b] = to /\ pc' \in [F!Procs \cup {"main"} -> FilePlaces]
        /\ \A q \in (F!Procs \cup {"main"}) \ {b} : pc'[q] = pc[q]
    BY <1>1, <2>1, FileMoves
  <2>3. PICK t : t = F!TryLock(s, "r6_13", b)
    OBVIOUS
  <2>4. /\ t \in FileState /\ t.by = s.by
        /\ t.owner["r6_13"] = IF free THEN b ELSE s.owner["r6_13"]
    BY <1>1, <2>3, FileLocked
  <2>5. s' = [t EXCEPT !.got[b] = got]
    BY <1>4, <2>3 DEF F!LockSecond
  <2>6. got \in F!Procs \cup {F!NoText, "nothing", "lock", "refused"}
    OBVIOUS
  <2> HIDE DEF got
  <2>7. s' \in FileState /\ s'.by = t.by /\ s'.owner = t.owner
    BY <2>4, <2>5, <2>6 DEF FileState
  <2>8. ASSUME NEW c \in Bs \ {b}, pc[c] = "write" PROVE ~free
    BY <1>1, <1>2, <2>8 DEF UnderFcntl, F!Free, F!Procs
  <2> HIDE DEF free
  <2>9. UnderFcntl'
    BY <1>2, <2>2, <2>4, <2>7, <2>8 DEF UnderFcntl, F!Procs
  <2> QED
    BY <1>1, <1>2, <2>2, <2>7, <2>9 DEF FilesInv, FileTypes
<1>5. CASE F!WriteB(b)
  <2>1. /\ pc'[b] = "close" /\ pc' \in [F!Procs \cup {"main"} -> FilePlaces]
        /\ \A q \in (F!Procs \cup {"main"}) \ {b} : pc'[q] = pc[q]
    BY <1>1, <1>5, FileMoves DEF F!WriteB, FilePlaces
  <2>2. s' = [s EXCEPT !.by["r6_13"] = b, !.by["r14"] = b]
    BY <1>5 DEF F!WriteB
  <2>3. /\ s' \in FileState /\ s'.owner = s.owner /\ s'.by["r6_13"] = b /\ s'.by["r14"] = b
        /\ s'.by["r0"] = s.by["r0"]
    BY <1>1, <2>2 DEF FileState, F!Regions
  <2>4. UnderFcntl'
    BY <1>2, <2>1, <2>3 DEF UnderFcntl, F!Procs
  <2> QED
    BY <1>1, <1>2, <2>1, <2>3, <2>4 DEF FilesInv, FileTypes
<1> QED
  BY <1>3, <1>4, <1>5

LEMMA FilesStepAio ==
  ASSUME FilesInv, F!AioSteps
  PROVE  FilesInv'
<1>1. prog = "rw_sync" /\ prog' = prog /\ UnderAio /\ FileTypes /\ s \in FileState
  BY DEF F!AioSteps, F!AioRead, F!AioDone, F!Handler, F!LookAtFlag, F!Here, FilesInv, FileTypes
<1>2. CASE F!AioRead
  <2>1. PICK how \in {"asked", "refused"} : s' = [s EXCEPT !.aio = how]
    BY <1>2 DEF F!AioRead
  <2>2. pc'["main"] = "look" /\ pc' \in [F!Procs \cup {"main"} -> FilePlaces]
    BY <1>1, <1>2, FileMoves DEF F!AioRead, FilePlaces
  <2>3. s' \in FileState /\ s'.aio = how /\ s'.flag = s.flag /\ s'.buf = s.buf
    BY <1>1, <2>1 DEF FileState
  <2> QED
    BY <1>1, <2>2, <2>3 DEF FilesInv, FileTypes, UnderAio
<1>3. CASE F!AioDone
  <2>1. s' = [s EXCEPT !.aio = "done", !.buf = "read"] /\ pc' = pc
    BY <1>3 DEF F!AioDone
  <2>2. s' \in FileState /\ s'.flag = s.flag /\ s'.buf = "read"
    BY <1>1, <2>1 DEF FileState
  <2> QED
    BY <1>1, <2>1, <2>2 DEF FilesInv, FileTypes, UnderAio
<1>4. CASE F!Handler
  <2>1. s' = [s EXCEPT !.flag = 1] /\ pc' = pc /\ s.aio = "done"
    BY <1>4 DEF F!Handler
  <2>2. s' \in FileState /\ s'.flag = 1 /\ s'.buf = s.buf
    BY <1>1, <2>1 DEF FileState
  <2> QED
    BY <1>1, <2>1, <2>2 DEF FilesInv, FileTypes, UnderAio
<1>5. CASE F!LookAtFlag
  <2>1. s.flag = 1 /\ s' = s
    BY <1>5 DEF F!LookAtFlag
  <2>2. pc' \in [F!Procs \cup {"main"} -> FilePlaces]
    BY <1>1, <1>5, FileMoves DEF F!LookAtFlag, FilePlaces
  <2> QED
    BY <1>1, <2>1, <2>2 DEF FilesInv, FileTypes, UnderAio
<1> QED
  BY <1>2, <1>3, <1>4, <1>5 DEF F!AioSteps

LEMMA FilesStep ==
  ASSUME FilesInv, [F!Next]_vars
  PROVE  FilesInv'
<1>1. CASE UNCHANGED vars
  BY <1>1 DEF vars, FilesInv, FileTypes, UnderFlock, UnderFcntl, UnderAio
<1>2. CASE F!Next
  BY <1>2, FilesStepA, FilesStepFlock, FilesComeAndGo, FilesStepFcntl, FilesStepAio
  DEF F!Next, F!StepsB
<1> QED
  BY <1>1, <1>2

\* A set with at most one member.
LEMMA AtMostOne ==
  ASSUME NEW W, \A x, y \in W : x = y
  PROVE  F!Cardinality(W) <= 1 /\ (W # {} => F!Cardinality(W) = 1)
<1>1. F!Cardinality(W) = Cardinality(W)
  BY DEF F!Cardinality, Cardinality
<1>2. CASE W = {}
  BY <1>1, <1>2, FS_EmptySet
<1>3. CASE W # {}
  <2>1. PICK x \in W : TRUE
    BY <1>3
  <2>2. W = {x}
    BY <2>1
  <2>3. Cardinality(W) = 1
    BY <2>2, FS_Singleton
  <2> QED
    BY <1>1, <2>3
<1> QED
  BY <1>2, <1>3

\* Nobody reads under another's lock, of the writers of fcntl one at a time is
\* about to write, and rw_sync prints what was read, for any number of
\* processes of either program.
THEOREM FilesAreKeptApart == Spec => []FilesAreGuarded
<1> DEFINE I == prog \in F!Programs => FilesInv
<1>1. Init => I
  BY OwnInit, FilesStart
<1>2. I /\ [Next]_vars => I'
  BY OwnSteps, FilesStep
<1>3. ASSUME I PROVE FilesAreGuarded
  <2>1. prog \in F!Programs => F!TypeOK
    BY <1>3 DEF FilesInv, FileTypes, FileState, F!TypeOK
  <2>2. F!ReadsUnderLock
    <3>1. CASE prog = "flock"
      <4>1. UnderFlock
        BY <1>3, <3>1 DEF FilesInv, F!Programs
      <4>2. s.exclusive # {} => F!Cardinality(s.exclusive) = 1
        BY <4>1, AtMostOne DEF UnderFlock
      <4> QED
        BY <4>1, <4>2 DEF UnderFlock, F!ReadsUnderLock, F!At
    <3> QED
      BY <3>1 DEF F!ReadsUnderLock
  <2>3. F!OneWriterAtATime
    <3>1. CASE prog = "fcntl"
      <4>1. UnderFcntl
        BY <1>3, <3>1 DEF FilesInv, F!Programs
      <4>2. \A b, c \in {d \in Bs : F!At(d, "write")} : b = c
        BY <4>1 DEF UnderFcntl, F!At
      <4>3. F!Cardinality({d \in Bs : F!At(d, "write")}) <= 1
        BY <4>2, AtMostOne
      <4> QED
        BY <4>1, <4>3 DEF UnderFcntl, F!OneWriterAtATime, F!At
    <3> QED
      BY <3>1 DEF F!OneWriterAtATime
  <2>4. F!PrintsAfterRead
    BY <1>3 DEF FilesInv, UnderAio, F!PrintsAfterRead, F!At, F!Programs
  <2> QED
    BY <2>1, <2>2, <2>3, <2>4 DEF FilesAreGuarded, F!FilesAreGuarded
<1> QED
  BY <1>1, <1>2, <1>3, PTL DEF Spec

-----------------------------------------------------------------------------
(* The named semaphore, whose users may be killed and run it again.         *)

\* Before the semaphore is made nobody has got past sem_open().
SemNotBefore ==
    ~s.exists => /\ ~s.lost
                 /\ \A u \in Users : pc[u] \in {"create", "ended"}

SemUnit ==
    /\ s.value = 1 <=> N!Holders = {} /\ ~s.lost
    /\ s.lost => N!Holders = {}
    /\ \A u, v \in N!Holders : u = v

SemInv ==
    /\ prog \in N!Programs /\ N!TypeOK
    /\ SemNotBefore
    /\ s.exists => SemUnit

LEMMA SemInit == N!Init => SemInv
BY DEF N!Init, SemInv, N!TypeOK, SemNotBefore, N!Places, N!Outcomes

\* A step moves one process, to a place of the program.
LEMMA SemStepMoves ==
    ASSUME SemInv, NEW u \in Users, NEW from \in N!Places, NEW to \in N!Places, N!Step(u, from, to)
    PROVE  /\ prog' = prog /\ pc \in [Users -> N!Places] /\ pc' \in [Users -> N!Places]
           /\ pc[u] = from /\ pc'[u] = to
           /\ \A v \in Users \ {u} : pc'[v] = pc[v]
BY DEF N!Step, SemInv, N!TypeOK

\* Between two places neither of which holds the unit nothing is taken or given.
LEMMA SemElsewhere ==
    ASSUME SemInv, NEW u \in Users, NEW from \in N!Places, NEW to \in N!Places, N!Step(u, from, to),
           from \in N!Holding <=> to \in N!Holding
    PROVE  N!Holders' = N!Holders
BY SemStepMoves DEF N!Holders

LEMMA SemMakes ==
    ASSUME SemInv, NEW u \in Users, N!Create(u)
    PROVE  SemInv'
<1>1. /\ {"create", "getvalue"} \subseteq N!Places \ N!Holding
      /\ {"create", "ended"} \subseteq N!Places \ N!Holding
  BY DEF N!Places, N!Holding
<1>2. N!Step(u, "create", "getvalue") /\ ~s.exists
  BY DEF N!Create
<1>3. N!Holders = {} /\ ~s.lost
  BY <1>1, <1>2 DEF SemInv, SemNotBefore, N!Holders
<1>4. N!Holders' = {}
  BY <1>1, <1>2, <1>3, SemElsewhere
<1>5. s'.exists /\ s'.value = 1 /\ s'.lost = s.lost
  BY DEF N!Create, SemInv, N!TypeOK
<1>6. s' \in [exists : BOOLEAN, value : 0 .. 1, lost : BOOLEAN, result : [Users -> N!Outcomes]]
  <2>1. s' = [[s EXCEPT !.exists = TRUE] EXCEPT !.value = 1]
    BY DEF N!Create
  <2>2. PICK t \in [exists : BOOLEAN, value : 0 .. 1, lost : BOOLEAN,
                    result : [Users -> N!Outcomes]] :
            t = [s EXCEPT !.exists = TRUE]
    BY DEF SemInv, N!TypeOK
  <2>3. s' = [t EXCEPT !.value = 1]
    BY <2>1, <2>2, Zenon
  <2>4. 1 \in 0 .. 1
    OBVIOUS
  <2> QED
    BY <2>3, <2>4
<1>7. N!TypeOK' /\ prog' \in N!Programs
  BY <1>1, <1>2, <1>6, SemStepMoves DEF SemInv, N!TypeOK
<1> QED
  BY <1>3, <1>4, <1>5, <1>7 DEF SemInv, SemNotBefore, SemUnit

\* Calls that leave the unit where it is.
LEMMA SemLeaves ==
    ASSUME SemInv, NEW u \in Users, NEW from \in N!Places, NEW to \in N!Places, N!Step(u, from, to),
           from \in N!Holding <=> to \in N!Holding,
           s.exists \/ to \in {"create", "ended"},
           s'.exists = s.exists, s'.value = s.value, s'.lost = s.lost,
           s' \in [exists : BOOLEAN, value : 0 .. 1, lost : BOOLEAN, result : [Users -> N!Outcomes]]
    PROVE  SemInv'
<1>1. N!Holders' = N!Holders
  BY SemElsewhere
<1>2. N!TypeOK' /\ prog' \in N!Programs
  BY SemStepMoves DEF SemInv, N!TypeOK
<1>3. SemNotBefore'
  BY SemStepMoves DEF SemInv, SemNotBefore
<1> QED
  BY <1>1, <1>2, <1>3 DEF SemInv, SemUnit

\* sem_timedwait() takes the unit: nobody has it, or the value would be 0.
LEMMA SemTakes ==
    ASSUME SemInv, NEW u \in Users, N!TimedWait(u)
    PROVE  SemInv'
<1>1. /\ {"wait", "type"} \subseteq N!Places /\ "type" \in N!Holding
      /\ "wait" \notin {"create", "ended"}
  BY DEF N!Places, N!Holding
<1>2. N!Step(u, "wait", "type") /\ s.value = 1
  BY DEF N!TimedWait, SemInv, N!TypeOK
<1>3. s.exists
  BY <1>1, <1>2 DEF N!Step, SemInv, SemNotBefore
<1>4. N!Holders = {} /\ ~s.lost
  BY <1>2, <1>3 DEF SemInv, SemUnit
<1>5. N!Holders' = {u}
  BY <1>1, <1>2, <1>4, SemStepMoves DEF N!Holders
<1>6. /\ s' \in [exists : BOOLEAN, value : 0 .. 1, lost : BOOLEAN, result : [Users -> N!Outcomes]]
      /\ s'.exists /\ s'.value = 0 /\ ~s'.lost
  BY <1>2, <1>3, <1>4 DEF N!TimedWait, SemInv, N!TypeOK
<1>7. N!TypeOK' /\ prog' \in N!Programs
  BY <1>1, <1>2, <1>6, SemStepMoves DEF SemInv, N!TypeOK
<1> QED
  BY <1>5, <1>6, <1>7 DEF SemInv, SemNotBefore, SemUnit

\* sem_post() gives the unit back, which only its holder does.
LEMMA SemGives ==
    ASSUME SemInv, NEW u \in Users, N!Post(u)
    PROVE  SemInv'
<1>1. {"post", "close"} \subseteq N!Places /\ "post" \in N!Holding /\ "close" \notin N!Holding
      /\ "post" \notin {"create", "ended"}
  BY DEF N!Places, N!Holding
<1>2. N!Step(u, "post", "close")
  BY DEF N!Post
<1>3. s.exists /\ u \in N!Holders
  BY <1>1, <1>2, SemStepMoves DEF SemInv, SemNotBefore, N!Holders
<1>4. N!Holders = {u} /\ ~s.lost /\ s.value = 0
  BY <1>3 DEF SemInv, SemUnit, N!TypeOK
<1>5. N!Holders' = {}
  BY <1>1, <1>2, <1>4, SemStepMoves DEF N!Holders
<1>6. /\ s' \in [exists : BOOLEAN, value : 0 .. 1, lost : BOOLEAN, result : [Users -> N!Outcomes]]
      /\ s'.exists /\ s'.value = 1 /\ ~s'.lost
  <2>1. "posted" \in N!Outcomes /\ s.value + 1 = 1 /\ 1 \in 0 .. 1
    BY <1>4 DEF N!Outcomes
  <2>2. /\ s \in [exists : BOOLEAN, value : 0 .. 1, lost : BOOLEAN, result : [Users -> N!Outcomes]]
        /\ s' = [s EXCEPT !.value = 1, !.result[u] = "posted"]
    BY <2>1 DEF N!Post, SemInv, N!TypeOK
  <2> QED
    BY <1>3, <1>4, <2>1, <2>2
<1>7. N!TypeOK' /\ prog' \in N!Programs
  BY <1>1, <1>2, <1>6, SemStepMoves DEF SemInv, N!TypeOK
<1> QED
  BY <1>5, <1>6, <1>7 DEF SemInv, SemNotBefore, SemUnit

\* A process that is killed takes the unit with it, if it has it.
LEMMA SemDies ==
    ASSUME SemInv, NEW u \in Users, N!Kill(u)
    PROVE  SemInv'
<1>1. PICK place \in N!Places \ {"ended"} : N!Step(u, place, "ended")
  BY DEF N!Kill
<1>2. "ended" \in N!Places \ N!Holding
  BY DEF N!Places, N!Holding
<1>3. /\ s' \in [exists : BOOLEAN, value : 0 .. 1, lost : BOOLEAN, result : [Users -> N!Outcomes]]
      /\ s'.exists = s.exists /\ s'.value = s.value
      /\ s'.lost <=> s.lost \/ place \in N!Holding
  BY <1>1, <1>2, SemStepMoves DEF N!Kill, SemInv, N!TypeOK
<1>4. N!TypeOK' /\ prog' \in N!Programs
  BY <1>1, <1>2, <1>3, SemStepMoves DEF SemInv, N!TypeOK
<1>5. CASE place \notin N!Holding
  BY <1>1, <1>2, <1>3, <1>5, SemLeaves DEF SemInv, N!TypeOK
<1>6. CASE place \in N!Holding
  <2>1. s.exists /\ u \in N!Holders
    BY <1>1, <1>2, <1>6, SemStepMoves DEF SemInv, SemNotBefore, N!Holders, N!Holding
  <2>2. N!Holders = {u} /\ s.value = 0
    BY <2>1 DEF SemInv, SemUnit, N!TypeOK
  <2>3. N!Holders' = {}
    BY <1>1, <1>2, <2>2, SemStepMoves DEF N!Holders
  <2> QED
    BY <1>3, <1>4, <1>6, <2>1, <2>2, <2>3 DEF SemInv, SemNotBefore, SemUnit
<1> QED
  BY <1>5, <1>6

LEMMA SemNext == SemInv /\ [N!Next]_vars => SemInv'
<1> SUFFICES ASSUME SemInv, [N!Next]_vars PROVE SemInv'
  OBVIOUS
<1> DEFINE S == [exists : BOOLEAN, value : 0 .. 1, lost : BOOLEAN, result : [Users -> N!Outcomes]]
<1>1. CASE UNCHANGED vars
  BY <1>1 DEF vars, SemInv, N!TypeOK, SemNotBefore, SemUnit, N!Holders
<1>2. ASSUME NEW u \in Users, N!Calls(u) \/ N!TypeChar(u) \/ N!Kill(u) \/ N!RunAgain(u)
      PROVE  SemInv'
  <2>1. CASE N!Create(u)
    BY <2>1, SemMakes
  <2>2. CASE N!TimedWait(u)
    BY <2>2, SemTakes
  <2>3. CASE N!Post(u)
    BY <2>3, SemGives
  <2>4. CASE N!Kill(u)
    BY <2>4, SemDies
  <2>5. CASE N!FindsIt(u)
    BY <2>5, SemLeaves DEF N!FindsIt, SemInv, N!TypeOK, N!Places, N!Holding
  <2>6. CASE N!Open(u)
    BY <2>6, SemLeaves DEF N!Open, SemInv, N!TypeOK, N!Places, N!Holding
  <2>7. CASE N!OpenFails(u)
    BY <2>7, SemLeaves DEF N!OpenFails, SemInv, N!TypeOK, N!Places, N!Holding
  <2>8. CASE N!GetValue(u)
    <3>1. N!Step(u, "getvalue", "wait") /\ UNCHANGED s
      BY <2>8 DEF N!GetValue
    <3>2. s.exists
      BY <3>1 DEF N!Step, SemInv, SemNotBefore
    <3> QED
      BY <3>1, <3>2, SemLeaves DEF SemInv, N!TypeOK, N!Places, N!Holding
  <2>9. CASE N!WaitTimesOut(u)
    <3>1. N!Step(u, "wait", "ended") /\ s' = [s EXCEPT !.result[u] = "timeout"]
      BY <2>9 DEF N!WaitTimesOut
    <3>2. s' \in S /\ s'.exists = s.exists /\ s'.value = s.value /\ s'.lost = s.lost
      BY <3>1 DEF SemInv, N!TypeOK, N!Outcomes
    <3> QED
      BY <3>1, <3>2, SemLeaves DEF N!Places, N!Holding
  <2>10. CASE N!TypeChar(u)
    <3>1. N!Step(u, "type", "post") /\ UNCHANGED s
      BY <2>10 DEF N!TypeChar
    <3>2. s.exists
      BY <3>1 DEF N!Step, SemInv, SemNotBefore
    <3> QED
      BY <3>1, <3>2, SemLeaves DEF SemInv, N!TypeOK, N!Places, N!Holding
  <2>11. CASE N!Close(u)
    BY <2>11, SemLeaves DEF N!Close, SemInv, N!TypeOK, N!Places, N!Holding
  <2>12. CASE N!RunAgain(u)
    <3>1. N!Step(u, "ended", "create") /\ s' = [s EXCEPT !.result[u] = "none"]
      BY <2>12 DEF N!RunAgain
    <3>2. s' \in S /\ s'.exists = s.exists /\ s'.value = s.value /\ s'.lost = s.lost
      BY <3>1 DEF SemInv, N!TypeOK, N!Outcomes
    <3> QED
      BY <3>1, <3>2, SemLeaves DEF N!Places, N!Holding
  <2> QED
    BY <1>2, <2>1, <2>2, <2>3, <2>4, <2>5, <2>6, <2>7, <2>8, <2>9, <2>10, <2>11, <2>12 DEF N!Calls
<1> QED
  BY <1>1, <1>2 DEF N!Next

\* The one unit of "/named_app" is in the value, with one process that types, or
\* lost for good with a process that was killed while it had it, for any set of
\* processes that run the program however often (main.c:33-81).
THEOREM SemaphoreIsNotMultiplied == Spec => []SemaphoreAddsUp
<1> DEFINE I == prog \in N!Programs => SemInv
<1>1. Init => I
  BY OwnInit, SemInit
<1>2. I /\ [Next]_vars => I'
  BY OwnSteps, SemNext DEF vars
<1>3. I => SemaphoreAddsUp
  BY DEF SemInv, SemUnit, SemaphoreAddsUp, N!SemaphoreAddsUp
<1> QED
  BY <1>1, <1>2, <1>3, PTL DEF Spec

-----------------------------------------------------------------------------
(* The queue with types.  Whoever shows nothing, destroys a message or has  *)
(* a queue that is gone learned it from a consumerA at its end.            *)

LEMMA RemovedAt ==
  ASSUME NEW S, NEW q \in Seq(S), NEW i \in DOMAIN q
  PROVE  /\ Q!RemoveAt(q, i) \in Seq(S)
         /\ Len(Q!RemoveAt(q, i)) = Len(q) - 1
         /\ \A j \in 1 .. Len(q) - 1 : Q!RemoveAt(q, i)[j] = IF j < i THEN q[j] ELSE q[j + 1]
<1> DEFINE before == SubSeq(q, 1, i - 1)
           after  == SubSeq(q, i + 1, Len(q))
<1>1. /\ i \in 1 .. Len(q) /\ Len(q) \in Nat
      /\ \A j \in 1 .. Len(q) : q[j] \in S
  OBVIOUS
<1>2. /\ before \in Seq(S) /\ Len(before) = i - 1
      /\ \A j \in 1 .. i - 1 : before[j] = q[j]
  BY <1>1, SubSeqProperties
<1>3. /\ after \in Seq(S) /\ Len(after) = Len(q) - i
      /\ \A j \in 1 .. Len(q) - i : after[j] = q[i + j]
  BY <1>1, SubSeqProperties
<1>4. Q!RemoveAt(q, i) = before \o after
  BY DEF Q!RemoveAt
<1> HIDE DEF before, after
<1>5. /\ before \o after \in Seq(S) /\ Len(before \o after) = Len(q) - 1
      /\ \A j \in 1 .. Len(q) - 1 : (before \o after)[j] =
             IF j <= i - 1 THEN before[j] ELSE after[j - (i - 1)]
  BY <1>1, <1>2, <1>3, ConcatProperties
<1>6. ASSUME NEW j \in 1 .. Len(q) - 1
      PROVE  (before \o after)[j] = IF j < i THEN q[j] ELSE q[j + 1]
  <2>1. CASE j < i
    BY <1>1, <1>2, <1>5, <2>1
  <2>2. CASE ~(j < i)
    <3>1. j - (i - 1) \in 1 .. Len(q) - i /\ i + (j - (i - 1)) = j + 1
      BY <1>1, <2>2
    <3>2. (before \o after)[j] = after[j - (i - 1)]
      BY <1>1, <1>5, <2>2
    <3> QED
      BY <1>3, <2>2, <3>1, <3>2
  <2> QED
    BY <2>1, <2>2
<1> QED
  BY <1>4, <1>5, <1>6

QueueTypes ==
    /\ prog \in Q!Programs
    /\ pc \in [Q!Procs -> {"get", "ask", "send", "receive", "remove", "ended"}]
    /\ \A p \in Producers : pc[p] \in {"get", "ask", "send", "ended"}
    /\ \A c \in Q!Consumers : pc[c] \in {"get", "receive", "remove", "ended"}
    /\ s \in [id : Nat, made : Nat, queue : Seq(Producers), mine : [Q!Procs -> Nat],
              type : [Producers -> Q!Types],
              shown : [Q!Consumers -> Producers \cup {"none", Q!Nothing}],
              sent : SUBSET Producers, refused : SUBSET Producers,
              destroyed : SUBSET Producers]

\* A consumerA has come to its end: it has removed its queue, or found it gone.
Removed == \E a \in ConsumersA : pc[a] = "ended" /\ s.shown[a] # "none"

QueueIds ==
    /\ s.id \in {0, s.made}
    /\ s.id # s.made => Removed
    /\ \A p \in Q!Procs : pc[p] # "get" =>
          s.mine[p] \in 1 .. s.made /\ (s.mine[p] # s.id => Removed)

QueuePlaces ==
    /\ \A c \in Q!Consumers : pc[c] \in {"get", "receive"} <=> s.shown[c] = "none"
    /\ \A p \in s.sent : pc[p] = "ended"
    /\ (\E c \in Q!Consumers : s.shown[c] = Q!Nothing) \/ s.destroyed # {} => Removed

QueueMessages ==
    /\ s.sent = {s.queue[i] : i \in DOMAIN s.queue} \cup Q!Shown \cup s.destroyed
    /\ \A i \in DOMAIN s.queue : s.queue[i] \notin Q!Shown \cup s.destroyed
    /\ s.destroyed \cap Q!Shown = {}
    /\ \A i, j \in DOMAIN s.queue : s.queue[i] = s.queue[j] => i = j
    /\ \A c \in Q!Consumers : s.shown[c] \in Producers =>
          /\ s.type[s.shown[c]] = Q!Wanted(c)
          /\ \A d \in Q!Consumers \ {c} : s.shown[d] # s.shown[c]

QueueInv == QueueTypes /\ QueueIds /\ QueuePlaces /\ QueueMessages

LEMMA QueueStart == Q!Init => QueueInv
  BY ExercisesAssumption
  DEF Q!Init, Q!Procs, Q!Consumers, Q!Types, Q!Nothing, Q!Shown, QueueInv, QueueTypes, QueueIds,
      QueuePlaces, QueueMessages, Texts

\* A step of one process.
LEMMA QueueMoves ==
  ASSUME QueueTypes, NEW p \in Q!Procs, NEW from, NEW to, Q!Step(p, from, to)
  PROVE  /\ prog' = prog /\ pc[p] = from /\ pc'[p] = to /\ DOMAIN pc' = Q!Procs
         /\ \A q \in Q!Procs \ {p} : pc'[q] = pc[q]
         /\ pc' = [pc EXCEPT ![p] = to]
  BY DEF Q!Step, QueueTypes

\* What a consumerA has learned stays known.
LEMMA RemovedStays ==
  ASSUME QueueTypes, NEW p \in Q!Procs, NEW from, NEW to, Q!Step(p, from, to),
         from # "ended",
         \A c \in Q!Consumers \ {p} : s'.shown[c] = s.shown[c],
         Removed
  PROVE  Removed'
  BY QueueMoves DEF Removed, Q!Consumers, Q!Procs

LEMMA QueueGet ==
  ASSUME QueueInv, NEW p \in Q!Procs, Q!Get(p)
  PROVE  QueueInv'
<1> DEFINE id == IF s.id = 0 THEN s.made + 1 ELSE s.id
           to == IF p \in Producers THEN "ask" ELSE "receive"
<1>1. Q!Step(p, "get", to)
  BY DEF Q!Get
<1>2. s' = [s EXCEPT !.id = id, !.made = IF id > @ THEN id ELSE @, !.mine[p] = id]
  BY DEF Q!Get
<1>3. id \in Nat /\ id >= 1 /\ id >= s.made /\ (IF id > s.made THEN id ELSE s.made) = id
  BY DEF QueueInv, QueueTypes, QueueIds
<1>4. s.id # 0 => id = s.made /\ id = s.id
  BY DEF QueueInv, QueueTypes, QueueIds
<1> HIDE DEF id
<1>5. /\ s'.id = id /\ s'.made = id /\ s'.mine = [s.mine EXCEPT ![p] = id]
      /\ s'.queue = s.queue /\ s'.type = s.type /\ s'.shown = s.shown /\ s'.sent = s.sent
      /\ s'.refused = s.refused /\ s'.destroyed = s.destroyed
      /\ s'.mine \in [Q!Procs -> Nat]
  BY <1>2, <1>3 DEF QueueInv, QueueTypes
<1>6. Removed => Removed'
  BY <1>1, <1>5, RemovedStays DEF QueueInv
<1>7. /\ prog' = prog /\ pc[p] = "get" /\ pc'[p] = to /\ pc' = [pc EXCEPT ![p] = to]
      /\ \A q \in Q!Procs \ {p} : pc'[q] = pc[q]
  BY <1>1, QueueMoves DEF QueueInv
<1>8. QueueTypes'
  <2>1. s' = [s EXCEPT !.id = id, !.made = id, !.mine[p] = id]
    BY <1>2, <1>3 DEF QueueInv, QueueTypes
  <2>2. (p \in Producers => to = "ask") /\ (p \in Q!Consumers => to = "receive")
    BY ExercisesAssumption DEF Q!Consumers
  <2> HIDE DEF to
  <2>3. to \in {"ask", "receive"}
    BY <2>2 DEF Q!Procs
  <2>4. pc' \in [Q!Procs -> {"get", "ask", "send", "receive", "remove", "ended"}]
    BY <1>7, <2>3 DEF QueueInv, QueueTypes
  <2> QED
    BY <1>3, <1>7, <2>1, <2>2, <2>4 DEF QueueInv, QueueTypes, Q!Procs
<1>9. QueueIds'
  <2>1. s'.mine[p] = id /\ \A q \in Q!Procs \ {p} : s'.mine[q] = s.mine[q]
    BY <1>5 DEF QueueInv, QueueTypes
  <2>2. ASSUME NEW q \in Q!Procs \ {p}, pc[q] # "get"
        PROVE  s.mine[q] \in 1 .. id /\ (s.mine[q] # id => Removed)
    BY <2>2, <1>3, <1>4 DEF QueueInv, QueueTypes, QueueIds, id
  <2> QED
    BY <1>3, <1>5, <1>6, <1>7, <2>1, <2>2 DEF QueueIds
<1>10. QueuePlaces'
  BY <1>5, <1>6, <1>7, ExercisesAssumption DEF QueueInv, QueuePlaces, Q!Procs, Q!Consumers
<1>11. QueueMessages'
  BY <1>5 DEF QueueInv, QueueMessages, Q!Shown
<1> QED
  BY <1>8, <1>9, <1>10, <1>11 DEF QueueInv

LEMMA QueueAsk ==
  ASSUME QueueInv, NEW p \in Producers, Q!AskType(p)
  PROVE  QueueInv'
<1>1. Q!Step(p, "ask", "send") /\ p \in Q!Procs
  BY DEF Q!AskType, Q!Procs
<1>2. PICK t \in Q!Types : s' = [s EXCEPT !.type[p] = t]
  BY DEF Q!AskType
<1>3. /\ s'.id = s.id /\ s'.made = s.made /\ s'.mine = s.mine
      /\ s'.queue = s.queue /\ s'.shown = s.shown /\ s'.sent = s.sent
      /\ s'.refused = s.refused /\ s'.destroyed = s.destroyed
      /\ \A q \in Producers \ {p} : s'.type[q] = s.type[q]
  BY <1>2 DEF QueueInv, QueueTypes
<1>4. Removed => Removed'
  BY <1>1, <1>3, RemovedStays DEF QueueInv
<1>5. /\ prog' = prog /\ pc[p] = "ask" /\ pc'[p] = "send" /\ pc' = [pc EXCEPT ![p] = "send"]
      /\ \A q \in Q!Procs \ {p} : pc'[q] = pc[q]
  BY <1>1, QueueMoves DEF QueueInv
<1>6. QueueTypes'
  BY <1>2, <1>5, ExercisesAssumption DEF QueueInv, QueueTypes, Q!Procs, Q!Consumers
<1>7. QueueIds' /\ QueuePlaces'
  BY <1>3, <1>4, <1>5, ExercisesAssumption
  DEF QueueInv, QueueIds, QueuePlaces, Q!Procs, Q!Consumers
<1>8. \A c \in Q!Consumers : s.shown[c] # p
  BY <1>5 DEF QueueInv, QueueMessages, QueuePlaces, Q!Shown
<1>9. QueueMessages'
  BY <1>3, <1>8 DEF QueueInv, QueueMessages, Q!Shown
<1> QED
  BY <1>6, <1>7, <1>9 DEF QueueInv

LEMMA QueueSend ==
  ASSUME QueueInv, NEW p \in Producers, Q!Send(p)
  PROVE  QueueInv'
<1>1. Q!Step(p, "send", "ended") /\ p \in Q!Procs
  BY DEF Q!Send, Q!Procs
<1>2. /\ prog' = prog /\ pc[p] = "send" /\ pc'[p] = "ended" /\ pc' = [pc EXCEPT ![p] = "ended"]
      /\ \A q \in Q!Procs \ {p} : pc'[q] = pc[q]
  BY <1>1, QueueMoves DEF QueueInv
<1>3. p \notin s.sent
  BY <1>2 DEF QueueInv, QueuePlaces
<1>4. CASE s' = [s EXCEPT !.queue = Append(@, p), !.sent = @ \cup {p}]
  <2>1. /\ s'.id = s.id /\ s'.made = s.made /\ s'.mine = s.mine
        /\ s'.queue = Append(s.queue, p) /\ s'.shown = s.shown /\ s'.sent = s.sent \cup {p}
        /\ s'.type = s.type /\ s'.destroyed = s.destroyed
    BY <1>4 DEF QueueInv, QueueTypes
  <2>2. Removed => Removed'
    BY <1>1, <2>1, RemovedStays DEF QueueInv
  <2>3. s.queue \in Seq(Producers) /\ Len(s.queue) \in Nat
    BY DEF QueueInv, QueueTypes
  <2>4. /\ DOMAIN s'.queue = 1 .. Len(s.queue) + 1
        /\ s'.queue[Len(s.queue) + 1] = p
        /\ \A i \in DOMAIN s.queue : s'.queue[i] = s.queue[i]
        /\ DOMAIN s.queue = 1 .. Len(s.queue)
        /\ s'.queue \in Seq(Producers)
    BY <2>1, <2>3
  <2>5. QueueTypes'
    BY <1>2, <1>4, <2>1, <2>4, ExercisesAssumption DEF QueueInv, QueueTypes, Q!Procs, Q!Consumers
  <2>6. QueueIds' /\ QueuePlaces'
    BY <1>2, <2>1, <2>2, ExercisesAssumption
    DEF QueueInv, QueueIds, QueuePlaces, Q!Procs, Q!Consumers
  <2>7. {s'.queue[i] : i \in DOMAIN s'.queue} = {s.queue[i] : i \in DOMAIN s.queue} \cup {p}
    BY <2>3, <2>4
  <2>8. Q!Shown' = Q!Shown
    BY <2>1 DEF Q!Shown
  <2>9. \A i \in DOMAIN s.queue : s.queue[i] # p
    BY <1>3 DEF QueueInv, QueueMessages
  <2>10. \A i, j \in DOMAIN s'.queue : s'.queue[i] = s'.queue[j] => i = j
    <3>1. DOMAIN s'.queue = DOMAIN s.queue \cup {Len(s.queue) + 1}
      BY <2>3, <2>4
    <3> QED
      BY <2>4, <2>9, <3>1 DEF QueueInv, QueueMessages
  <2>11. p \notin Q!Shown \cup s.destroyed
    BY <1>3 DEF QueueInv, QueueMessages
  <2>12. \A i \in DOMAIN s'.queue : s'.queue[i] \notin Q!Shown' \cup s'.destroyed
    <3>1. DOMAIN s'.queue = DOMAIN s.queue \cup {Len(s.queue) + 1}
      BY <2>3, <2>4
    <3> QED
      BY <2>1, <2>4, <2>8, <2>11, <3>1 DEF QueueInv, QueueMessages
  <2>13. QueueMessages'
    BY <2>1, <2>7, <2>8, <2>10, <2>12 DEF QueueInv, QueueMessages
  <2> QED
    BY <2>5, <2>6, <2>13 DEF QueueInv
<1>5. CASE s' = [s EXCEPT !.refused = @ \cup {p}]
  <2>1. /\ s'.id = s.id /\ s'.made = s.made /\ s'.mine = s.mine
        /\ s'.queue = s.queue /\ s'.shown = s.shown /\ s'.sent = s.sent
        /\ s'.type = s.type /\ s'.destroyed = s.destroyed
    BY <1>5 DEF QueueInv, QueueTypes
  <2>2. Removed => Removed'
    BY <1>1, <2>1, RemovedStays DEF QueueInv
  <2>3. QueueTypes'
    BY <1>2, <1>5, <2>1, ExercisesAssumption DEF QueueInv, QueueTypes, Q!Procs, Q!Consumers
  <2>4. QueueIds' /\ QueuePlaces'
    BY <1>2, <2>1, <2>2, ExercisesAssumption
    DEF QueueInv, QueueIds, QueuePlaces, Q!Procs, Q!Consumers
  <2>5. QueueMessages'
    BY <2>1 DEF QueueInv, QueueMessages, Q!Shown
  <2> QED
    BY <2>3, <2>4, <2>5 DEF QueueInv
<1> QED
  BY <1>4, <1>5 DEF Q!Send

LEMMA QueueReceive ==
  ASSUME QueueInv, NEW c \in Q!Consumers, Q!Receive(c)
  PROVE  QueueInv'
<1>1. Q!Step(c, "receive", "remove") /\ c \in Q!Procs /\ c \notin Producers
  BY ExercisesAssumption DEF Q!Receive, Q!Procs, Q!Consumers
<1>2. PICK i \in DOMAIN s.queue :
          /\ s.type[s.queue[i]] = Q!Wanted(c)
          /\ s' = [s EXCEPT !.queue = Q!RemoveAt(@, i), !.shown[c] = s.queue[i]]
  BY DEF Q!Receive
<1>3. /\ s.queue \in Seq(Producers) /\ Len(s.queue) \in Nat
      /\ i \in 1 .. Len(s.queue) /\ DOMAIN s.queue = 1 .. Len(s.queue)
  BY DEF QueueInv, QueueTypes
<1> DEFINE m == s.queue[i]
           q == Q!RemoveAt(s.queue, i)
<1>4. m \in Producers
  BY <1>3
<1>5. /\ q \in Seq(Producers) /\ DOMAIN q = 1 .. Len(s.queue) - 1
      /\ \A j \in 1 .. Len(s.queue) - 1 : q[j] = IF j < i THEN s.queue[j] ELSE s.queue[j + 1]
  <2>1. /\ q \in Seq(Producers) /\ Len(q) = Len(s.queue) - 1
        /\ \A j \in 1 .. Len(s.queue) - 1 : q[j] = IF j < i THEN s.queue[j] ELSE s.queue[j + 1]
    BY <1>3, RemovedAt
  <2> QED
    BY <2>1
<1>6. s' = [s EXCEPT !.queue = q, !.shown[c] = m]
  BY <1>2
<1>7. {q[j] : j \in DOMAIN q} = {s.queue[j] : j \in DOMAIN s.queue} \ {m}
  <2>1. ASSUME NEW j \in DOMAIN q
        PROVE  \E k \in DOMAIN s.queue : k # i /\ q[j] = s.queue[k]
    <3>1. j \in 1 .. Len(s.queue) - 1
      BY <1>5
    <3>2. CASE j < i
      BY <1>3, <1>5, <3>1, <3>2
    <3>3. CASE ~(j < i)
      <4>1. j + 1 \in DOMAIN s.queue /\ j + 1 # i
        BY <1>3, <3>1, <3>3
      <4> QED
        BY <1>5, <3>1, <3>3, <4>1
    <3> QED
      BY <3>2, <3>3
  <2>2. ASSUME NEW k \in DOMAIN s.queue, k # i
        PROVE  \E j \in DOMAIN q : q[j] = s.queue[k]
    <3>1. CASE k < i
      BY <1>3, <1>5, <2>2, <3>1
    <3>2. CASE k > i
      <4>1. k - 1 \in DOMAIN q /\ ~(k - 1 < i) /\ (k - 1) + 1 = k
        BY <1>3, <1>5, <3>2
      <4> QED
        BY <1>5, <4>1
    <3> QED
      BY <1>3, <2>2, <3>1, <3>2
  <2>3. \A k \in DOMAIN s.queue : s.queue[k] = m => k = i
    BY <1>3 DEF QueueInv, QueueMessages
  <2> HIDE DEF q, m
  <2>4. s.queue[i] = m /\ i \in DOMAIN s.queue
    BY <1>3 DEF m
  <2> QED
    BY <2>1, <2>2, <2>3, <2>4
<1>8. \A j, k \in DOMAIN q : q[j] = q[k] => j = k
  <2> SUFFICES ASSUME NEW j \in DOMAIN q, NEW k \in DOMAIN q, q[j] = q[k] PROVE j = k
    OBVIOUS
  <2>1. PICK jj \in DOMAIN s.queue : q[j] = s.queue[jj] /\ jj = IF j < i THEN j ELSE j + 1
    BY <1>3, <1>5
  <2>2. PICK kk \in DOMAIN s.queue : q[k] = s.queue[kk] /\ kk = IF k < i THEN k ELSE k + 1
    BY <1>3, <1>5
  <2>3. jj = kk
    BY <2>1, <2>2 DEF QueueInv, QueueMessages
  <2> QED
    BY <1>3, <1>5, <2>1, <2>2, <2>3
<1> HIDE DEF q, m
<1>9. /\ s'.id = s.id /\ s'.made = s.made /\ s'.mine = s.mine /\ s'.queue = q
      /\ s'.sent = s.sent /\ s'.type = s.type /\ s'.destroyed = s.destroyed
      /\ s'.shown[c] = m /\ \A d \in Q!Consumers \ {c} : s'.shown[d] = s.shown[d]
  BY <1>6 DEF QueueInv, QueueTypes
<1>10. /\ prog' = prog /\ pc[c] = "receive" /\ pc'[c] = "remove"
       /\ pc' = [pc EXCEPT ![c] = "remove"]
       /\ \A p \in Q!Procs \ {c} : pc'[p] = pc[p]
  BY <1>1, QueueMoves DEF QueueInv
<1>11. Removed => Removed'
  BY <1>1, <1>9, RemovedStays DEF QueueInv
<1>12. QueueTypes'
  <2>1. q \in Seq(Producers) /\ m \in Producers \cup {"none", Q!Nothing}
    BY <1>4, <1>5
  <2>2. s' \in [id : Nat, made : Nat, queue : Seq(Producers), mine : [Q!Procs -> Nat],
              type : [Producers -> Q!Types],
              shown : [Q!Consumers -> Producers \cup {"none", Q!Nothing}],
              sent : SUBSET Producers, refused : SUBSET Producers,
              destroyed : SUBSET Producers]
    BY <1>6, <2>1 DEF QueueInv, QueueTypes
  <2> QED
    BY <1>1, <1>10, <2>2 DEF QueueInv, QueueTypes, Q!Procs
<1>13. m \notin {"none", Q!Nothing}
  BY <1>4, ExercisesAssumption DEF Q!Nothing, Texts
<1>14. QueueIds' /\ QueuePlaces'
  <2>1. QueueIds'
    BY <1>1, <1>9, <1>10, <1>11 DEF QueueInv, QueueIds
  <2>2. \A d \in Q!Consumers : pc'[d] \in {"get", "receive"} <=> s'.shown[d] = "none"
    BY <1>1, <1>9, <1>10, <1>13 DEF QueueInv, QueuePlaces, Q!Procs
  <2>3. \A p \in s'.sent : pc'[p] = "ended"
    BY <1>1, <1>9, <1>10 DEF QueueInv, QueueTypes, QueuePlaces, Q!Procs
  <2>4. (\E d \in Q!Consumers : s'.shown[d] = Q!Nothing) \/ s'.destroyed # {} => Removed'
    BY <1>9, <1>11, <1>13 DEF QueueInv, QueuePlaces
  <2> QED
    BY <2>1, <2>2, <2>3, <2>4 DEF QueuePlaces
<1>15. s.shown[c] = "none"
  BY <1>10 DEF QueueInv, QueuePlaces
<1>16. Q!Shown' = Q!Shown \cup {m}
  BY <1>4, <1>9, <1>15, ExercisesAssumption DEF Q!Shown, Texts
<1>17. m \in {s.queue[j] : j \in DOMAIN s.queue} /\ m \notin Q!Shown \cup s.destroyed
  BY <1>3 DEF m, QueueInv, QueueMessages
<1>18. QueueMessages'
  <2>1. s'.sent = {s'.queue[j] : j \in DOMAIN s'.queue} \cup Q!Shown' \cup s'.destroyed
    BY <1>7, <1>9, <1>16, <1>17 DEF QueueInv, QueueMessages
  <2>2. \A j \in DOMAIN s'.queue : s'.queue[j] \notin Q!Shown' \cup s'.destroyed
    <3>1. \A x \in {s.queue[j] : j \in DOMAIN s.queue} : x \notin Q!Shown \cup s.destroyed
      BY DEF QueueInv, QueueMessages
    <3>2. \A j \in DOMAIN q : q[j] \in {s.queue[k] : k \in DOMAIN s.queue} \ {m}
      BY <1>7
    <3> QED
      BY <1>9, <1>16, <3>1, <3>2
  <2>3. s'.destroyed \cap Q!Shown' = {}
    BY <1>9, <1>16, <1>17 DEF QueueInv, QueueMessages
  <2>4. \A j, k \in DOMAIN s'.queue : s'.queue[j] = s'.queue[k] => j = k
    BY <1>8, <1>9
  <2>5. ASSUME NEW d \in Q!Consumers, s'.shown[d] \in Producers
        PROVE  /\ s'.type[s'.shown[d]] = Q!Wanted(d)
               /\ \A e \in Q!Consumers \ {d} : s'.shown[e] # s'.shown[d]
    <3>1. \A e \in Q!Consumers : s.shown[e] # m
      BY <1>4, <1>17 DEF Q!Shown
    <3>2. s.type[m] = Q!Wanted(c)
      BY <1>2 DEF m
    <3> QED
      BY <2>5, <1>9, <3>1, <3>2 DEF QueueInv, QueueMessages
  <2> QED
    BY <2>1, <2>2, <2>3, <2>4, <2>5 DEF QueueMessages
<1> QED
  BY <1>12, <1>14, <1>18 DEF QueueInv

LEMMA QueueFails ==
  ASSUME QueueInv, NEW c \in Q!Consumers, Q!ReceiveFails(c)
  PROVE  QueueInv'
<1>1. Q!Step(c, "receive", "remove") /\ c \in Q!Procs /\ c \notin Producers
  BY ExercisesAssumption DEF Q!ReceiveFails, Q!Procs, Q!Consumers
<1>2. s' = [s EXCEPT !.shown[c] = Q!Nothing] /\ s.mine[c] # s.id
  BY DEF Q!ReceiveFails
<1>3. /\ s'.id = s.id /\ s'.made = s.made /\ s'.mine = s.mine /\ s'.queue = s.queue
      /\ s'.sent = s.sent /\ s'.type = s.type /\ s'.destroyed = s.destroyed
      /\ s'.shown[c] = Q!Nothing /\ \A d \in Q!Consumers \ {c} : s'.shown[d] = s.shown[d]
  BY <1>2 DEF QueueInv, QueueTypes
<1>4. /\ prog' = prog /\ pc[c] = "receive" /\ pc'[c] = "remove"
      /\ pc' = [pc EXCEPT ![c] = "remove"]
      /\ \A p \in Q!Procs \ {c} : pc'[p] = pc[p]
  BY <1>1, QueueMoves DEF QueueInv
<1>5. Removed'
  <2>1. Removed
    BY <1>1, <1>2, <1>4 DEF QueueInv, QueueIds
  <2> QED
    BY <1>1, <1>3, <2>1, RemovedStays DEF QueueInv
<1>6. QueueTypes'
  BY <1>1, <1>2, <1>4 DEF QueueInv, QueueTypes, Q!Procs
<1>7. s.shown[c] = "none" /\ Q!Nothing \notin Producers /\ "none" \notin Producers
      /\ Q!Nothing # "none"
  BY <1>4, ExercisesAssumption DEF QueueInv, QueuePlaces, Texts, Q!Nothing
<1>8. QueueIds'
  BY <1>1, <1>3, <1>4, <1>5 DEF QueueInv, QueueIds
<1>9. QueuePlaces'
  BY <1>1, <1>3, <1>4, <1>5, <1>7 DEF QueueInv, QueueTypes, QueuePlaces, Q!Procs
<1>10. Q!Shown' = Q!Shown
  BY <1>3, <1>7 DEF Q!Shown
<1>11. QueueMessages'
  BY <1>3, <1>7, <1>10 DEF QueueInv, QueueMessages
<1> QED
  BY <1>6, <1>8, <1>9, <1>11 DEF QueueInv

LEMMA QueueGoes ==
  ASSUME QueueInv, NEW c \in Q!Consumers, Q!RemoveQueue(c)
  PROVE  QueueInv'
<1>1. Q!Step(c, "remove", "ended") /\ c \in Q!Procs /\ c \notin Producers
  BY ExercisesAssumption DEF Q!RemoveQueue, Q!Procs, Q!Consumers
<1>2. /\ prog' = prog /\ pc[c] = "remove" /\ pc'[c] = "ended"
      /\ pc' = [pc EXCEPT ![c] = "ended"]
      /\ \A p \in Q!Procs \ {c} : pc'[p] = pc[p]
  BY <1>1, QueueMoves DEF QueueInv
<1>3. s.shown[c] # "none"
  BY <1>2 DEF QueueInv, QueuePlaces
<1>4. CASE c \in ConsumersA /\ s.mine[c] = s.id
  <2>1. s' = [s EXCEPT !.id = 0, !.queue = << >>, !.destroyed = @ \cup Q!ToSet(s.queue)]
    BY <1>4 DEF Q!RemoveQueue
  <2>2. /\ Q!ToSet(s.queue) = {s.queue[i] : i \in DOMAIN s.queue}
        /\ Q!ToSet(s.queue) \in SUBSET Producers
    BY DEF Q!ToSet, QueueInv, QueueTypes
  <2>3. /\ s'.id = 0 /\ s'.made = s.made /\ s'.mine = s.mine /\ s'.queue = << >>
        /\ s'.sent = s.sent /\ s'.type = s.type /\ s'.shown = s.shown
        /\ s'.destroyed = s.destroyed \cup {s.queue[i] : i \in DOMAIN s.queue}
    BY <2>1, <2>2 DEF QueueInv, QueueTypes
  <2>4. Removed'
    BY <1>2, <1>3, <1>4, <2>3 DEF Removed
  <2>5. << >> \in Seq(Producers) /\ DOMAIN << >> = {}
    OBVIOUS
  <2>6. QueueTypes'
    BY <1>1, <1>2, <2>1, <2>2, <2>5 DEF QueueInv, QueueTypes, Q!Procs
  <2>7. QueueIds'
    BY <1>1, <1>2, <2>3, <2>4 DEF QueueInv, QueueIds
  <2>8. QueuePlaces'
    BY <1>1, <1>2, <2>3, <2>4 DEF QueueInv, QueueTypes, QueuePlaces, Q!Procs
  <2>9. Q!Shown' = Q!Shown
    BY <2>3 DEF Q!Shown
  <2>10. {s'.queue[i] : i \in DOMAIN s'.queue} = {} /\ DOMAIN s'.queue = {}
    BY <2>3, <2>5
  <2>11. QueueMessages'
    BY <2>3, <2>9, <2>10 DEF QueueInv, QueueMessages
  <2> QED
    BY <2>6, <2>7, <2>8, <2>11 DEF QueueInv
<1>5. CASE ~(c \in ConsumersA /\ s.mine[c] = s.id)
  <2>1. s' = s
    BY <1>5 DEF Q!RemoveQueue
  <2>2. Removed => Removed'
    BY <1>1, <2>1, RemovedStays DEF QueueInv
  <2>3. QueueTypes'
    BY <1>1, <1>2, <2>1 DEF QueueInv, QueueTypes, Q!Procs
  <2>4. QueueIds'
    BY <1>1, <1>2, <2>1, <2>2 DEF QueueInv, QueueIds
  <2>5. QueuePlaces'
    BY <1>1, <1>2, <1>3, <2>1, <2>2 DEF QueueInv, QueueTypes, QueuePlaces, Q!Procs
  <2>6. QueueMessages'
    BY <2>1 DEF QueueInv, QueueMessages, Q!Shown
  <2> QED
    BY <2>3, <2>4, <2>5, <2>6 DEF QueueInv
<1> QED
  BY <1>4, <1>5

LEMMA QueueStep ==
  ASSUME QueueInv, [Q!Next]_vars
  PROVE  QueueInv'
<1>1. CASE UNCHANGED vars
  <2>1. prog' = prog /\ pc' = pc /\ s' = s
    BY <1>1 DEF vars
  <2>2. Removed' = Removed /\ Q!Shown' = Q!Shown
    BY <2>1 DEF Removed, Q!Shown
  <2>3. QueueTypes' /\ QueueIds'
    BY <2>1, <2>2 DEF QueueInv, QueueTypes, QueueIds
  <2>4. QueuePlaces' /\ QueueMessages'
    BY <2>1, <2>2 DEF QueueInv, QueuePlaces, QueueMessages
  <2> QED
    BY <2>3, <2>4 DEF QueueInv
<1>2. CASE Q!Next
  BY <1>2, QueueGet, QueueAsk, QueueSend, QueueReceive, QueueFails, QueueGoes DEF Q!Next
<1> QED
  BY <1>1, <1>2

\* A message that msgsnd() accepted is in one place, for any number of
\* producers and consumers of either kind (consumerA.c:23-31).
THEOREM MessagesAreNotDoubled == Spec => []EachMessageOnce
<1> DEFINE I == prog \in Q!Programs => QueueInv
<1>1. Init => I
  BY OwnInit, QueueStart
<1>2. I /\ [Next]_vars => I'
  BY OwnSteps, QueueStep
<1>3. ASSUME I PROVE EachMessageOnce
  <2> SUFFICES ASSUME QueueInv PROVE EachMessageOnce
    BY <1>3 DEF EachMessageOnce, Q!EachMessageOnce
  <2>1. Q!ToSet(s.queue) = {s.queue[i] : i \in DOMAIN s.queue}
    BY DEF Q!ToSet
  <2>2. Q!TypeOK
    BY DEF QueueInv, QueueTypes, QueueIds, Q!TypeOK
  <2>3. Q!ToSet(s.queue) \cap Q!Shown = {}
    BY <2>1 DEF QueueInv, QueueMessages
  <2> QED
    BY <2>1, <2>2, <2>3
    DEF QueueInv, QueuePlaces, QueueMessages, Removed, EachMessageOnce, Q!EachMessageOnce
<1> QED
  BY <1>1, <1>2, <1>3, PTL DEF Spec

-----------------------------------------------------------------------------
(* The character device.  What a load took is counted in have, what earlier *)
(* loads left behind in exits, loads and stale.                            *)

LEMMA StagesAre ==
  ASSUME prog \in D!Programs
  PROVE  /\ Len(D!Stages) \in 1 .. 5
         /\ D!Stages[1] = "region"
         /\ \A i \in 2 .. Len(D!Stages) : D!Stages[i] # "region"
         /\ \A i \in 1 .. Len(D!Stages) :
               /\ D!Stages[i] \in {"region", "cdev", "class", "device", "memory"}
               /\ D!Stages[i] = "cdev" => prog \in D!HasCdev
<1> DEFINE K  == {"region", "cdev", "class", "device", "memory"}
           f4 == <<"region", "cdev", "class", "device">>
<1>1. f4 \in Seq(K) /\ Len(f4) = 4 /\ <<"memory">> \in Seq(K) /\ Len(<<"memory">>) = 1
  OBVIOUS
<1>2. /\ Len(f4 \o <<"memory">>) = 5
      /\ \A i \in 1 .. 5 : (f4 \o <<"memory">>)[i] =
             IF i <= 4 THEN f4[i] ELSE <<"memory">>[i - 4]
  BY <1>1, ConcatProperties
<1>3. /\ (f4 \o <<"memory">>)[1] = "region" /\ (f4 \o <<"memory">>)[2] = "cdev"
      /\ (f4 \o <<"memory">>)[3] = "class" /\ (f4 \o <<"memory">>)[4] = "device"
      /\ (f4 \o <<"memory">>)[5] = "memory"
  BY <1>2
<1>4. D!FopsRw = f4 \o <<"memory">>
  BY DEF D!FopsRw, D!FileOperations
<1>5. \/ prog = "major_minor" /\ D!Stages = <<"region">>
      \/ prog = "device_file" /\ D!Stages = <<"region", "class", "device">>
      \/ prog \in D!HasCdev /\ D!Stages = f4
      \/ prog \in D!HasCdev /\ D!Stages = f4 \o <<"memory">>
  BY <1>4 DEF D!Stages, D!Programs, D!HasCdev, D!MajorMinor, D!DeviceFile, D!FileOperations
<1>6. CASE prog \in D!HasCdev /\ D!Stages = f4 \o <<"memory">>
  BY <1>2, <1>3, <1>6
<1>7. CASE prog \in D!HasCdev /\ D!Stages = f4
  BY <1>7
<1>8. CASE D!Stages \in {<<"region">>, <<"region", "class", "device">>}
  BY <1>8
<1> QED
  BY <1>5, <1>6, <1>7, <1>8

DeviceState ==
    [have : SUBSET {"region", "cdev", "class", "device", "memory"},
     stage : Nat, loads : Nat, exits : Nat, regions : Int, stale : BOOLEAN,
     size : 0 .. Page, last : Apps \cup {D!Nobody}, value : Apps \cup {D!Nobody},
     offset : [Apps -> Nat],
     got : [Apps -> Apps \cup {D!Nobody, "none", "nothing", "beyond"}],
     number : [Apps -> Apps \cup {D!Nobody}]]

DeviceTypes ==
    /\ prog \in D!Programs
    /\ pc \in [Apps \cup {D!KernelSide} ->
                  {"absent", "loading", "live", "down", "closed", "open", "lost"}]
    /\ pc[D!KernelSide] \in {"absent", "loading", "live", "down"}
    /\ \A a \in Apps : pc[a] \in {"closed", "open", "lost"}
    /\ s \in DeviceState

Loaded == pc[D!KernelSide] # "absent"

DeviceLoads ==
    /\ pc[D!KernelSide] = "absent" => s.have = {}
    /\ pc[D!KernelSide] = "loading" =>
          s.stage \in 1 .. Len(D!Stages) /\ (s.stage = 1 <=> "region" \notin s.have)
    /\ pc[D!KernelSide] = "live" => "region" \in s.have
    /\ "cdev" \in s.have => prog \in D!HasCdev
    /\ s.regions = (IF prog \in D!HasCdev THEN s.exits ELSE 0)
                   + (IF "region" \in s.have THEN 1 ELSE 0)
    /\ s.exits + (IF Loaded THEN 1 ELSE 0) + (IF s.stale THEN 1 ELSE 0) <= s.loads
    /\ s.stale => prog \in D!HasCdev

DeviceFiles ==
    \A a \in Apps :
        /\ pc[a] = "open" => Loaded /\ "cdev" \in s.have
        /\ pc[a] = "lost" => s.stale
        /\ s.last = a => s.offset[a] = s.size
        /\ s.got[a] # a

DeviceInv == DeviceTypes /\ DeviceLoads /\ DeviceFiles

LEMMA DeviceStart == D!Init => DeviceInv
<1> SUFFICES ASSUME D!Init PROVE DeviceInv
  OBVIOUS
<1>1. D!KernelSide \notin Apps /\ D!Nobody \notin Apps /\ "none" \notin Apps /\ Page \in Nat
  BY ExercisesAssumption DEF D!KernelSide, D!Nobody, Texts
<1> QED
  BY <1>1 DEF D!Init, DeviceInv, DeviceTypes, DeviceState, DeviceLoads, DeviceFiles, Loaded

LEMMA DeviceMoves ==
  ASSUME DeviceTypes, NEW p \in Apps \cup {D!KernelSide}, NEW from, NEW to, D!Step(p, from, to)
  PROVE  /\ prog' = prog /\ D!Stages' = D!Stages /\ pc[p] = from /\ pc'[p] = to
         /\ pc' = [pc EXCEPT ![p] = to]
         /\ \A q \in (Apps \cup {D!KernelSide}) \ {p} : pc'[q] = pc[q]
  BY DEF D!Step, D!Up, DeviceTypes, D!Stages

\* What a file call leaves alone: the module, and what it holds.
LEMMA ModuleKept ==
  ASSUME DeviceInv, prog' = prog, UNCHANGED pc[D!KernelSide],
         s'.have = s.have, s'.stage = s.stage, s'.loads = s.loads, s'.exits = s.exits,
         s'.regions = s.regions, s'.stale = s.stale
  PROVE  DeviceLoads' /\ (Loaded' <=> Loaded)
<1>1. D!Stages' = D!Stages
  BY DEF D!Stages
<1> QED
  BY <1>1 DEF DeviceInv, DeviceLoads, Loaded

LEMMA DeviceInsmod ==
  ASSUME DeviceInv, D!Insmod
  PROVE  DeviceInv'
<1> DEFINE k == D!KernelSide
<1>1. k \notin Apps /\ D!Nobody \notin Apps /\ Page \in Nat
  BY ExercisesAssumption DEF D!KernelSide, D!Nobody, Texts
<1>2. D!Step(k, "absent", "loading")
  BY DEF D!Insmod
<1>3. /\ prog' = prog /\ D!Stages' = D!Stages /\ pc[k] = "absent" /\ pc'[k] = "loading"
      /\ pc' = [pc EXCEPT ![k] = "loading"] /\ \A a \in Apps : pc'[a] = pc[a]
  BY <1>1, <1>2, DeviceMoves DEF DeviceInv
<1>4. s' = [s EXCEPT !.loads = @ + 1, !.stage = 1, !.size = 0,
                     !.last = D!Nobody, !.value = D!Nobody]
  BY DEF D!Insmod
<1>5. DeviceTypes'
  <2>1. s.loads + 1 \in Nat /\ 0 \in 0 .. Page /\ 1 \in Nat /\ s \in DeviceState
    BY <1>1 DEF DeviceInv, DeviceTypes, DeviceState
  <2>2. s' \in DeviceState
    BY <1>4, <2>1 DEF DeviceState
  <2> QED
    BY <1>1, <1>3, <2>2 DEF DeviceInv, DeviceTypes
<1>6. /\ s'.loads = s.loads + 1 /\ s'.stage = 1 /\ s'.have = s.have /\ s'.exits = s.exits
      /\ s'.regions = s.regions /\ s'.stale = s.stale /\ s'.last = D!Nobody
      /\ s'.got = s.got
  BY <1>4 DEF DeviceInv, DeviceTypes, DeviceState
<1>7. s.have = {} /\ ~Loaded /\ Loaded'
  BY <1>3 DEF DeviceInv, DeviceLoads, Loaded
<1>8. s.loads \in Nat /\ s.exits \in Nat /\ s.exits + (IF s.stale THEN 1 ELSE 0) <= s.loads
  BY <1>7 DEF DeviceInv, DeviceTypes, DeviceState, DeviceLoads
<1>9. s'.exits + 1 + (IF s'.stale THEN 1 ELSE 0) <= s'.loads
  BY <1>6, <1>8
<1>10. DeviceLoads'
  <2>1. 1 \in 1 .. Len(D!Stages)
    BY StagesAre DEF DeviceInv, DeviceTypes, DeviceState
  <2>2. s'.regions = (IF prog \in D!HasCdev THEN s'.exits ELSE 0) + 0
    BY <1>6, <1>7 DEF DeviceInv, DeviceLoads
  <2> QED
    BY <1>3, <1>6, <1>7, <1>9, <2>1, <2>2 DEF DeviceInv, DeviceLoads
<1>11. DeviceFiles'
  BY <1>1, <1>3, <1>6, <1>7 DEF DeviceInv, DeviceFiles
<1> QED
  BY <1>5, <1>10, <1>11 DEF DeviceInv

\* A stage that the load goes through, with what it asked for or without it.
LEMMA DeviceStage ==
  ASSUME DeviceInv, D!StageSucceeds \/ D!StageFailsUnseen
  PROVE  DeviceInv'
<1> DEFINE k == D!KernelSide
           x == D!Stages[s.stage]
           to == CASE x = "device" /\ "class" \notin s.have -> "down"
                   [] s.stage = Len(D!Stages) -> "live"
                   [] OTHER -> "loading"
<1>1. k \notin Apps
  BY ExercisesAssumption DEF D!KernelSide, Texts
<1>2. D!Step(k, "loading", to)
  BY DEF D!StageSucceeds, D!StageFailsUnseen, D!NextStage
<1>3. /\ prog' = prog /\ D!Stages' = D!Stages /\ pc[k] = "loading" /\ pc'[k] = to
      /\ pc' = [pc EXCEPT ![k] = to] /\ \A a \in Apps : pc'[a] = pc[a]
  BY <1>1, <1>2, DeviceMoves DEF DeviceInv
<1>4. to \in {"down", "live", "loading"} /\ (to = "loading" => s.stage # Len(D!Stages))
  OBVIOUS
<1>5. /\ s.stage \in 1 .. Len(D!Stages) /\ (s.stage = 1 <=> "region" \notin s.have)
      /\ Len(D!Stages) \in 1 .. 5 /\ (x = "region" <=> s.stage = 1)
      /\ x \in {"region", "cdev", "class", "device", "memory"}
      /\ (x = "cdev" => prog \in D!HasCdev)
  BY <1>3, StagesAre DEF DeviceInv, DeviceTypes, DeviceState, DeviceLoads
<1>6. PICK got \in SUBSET {x} :
          /\ s' = [s EXCEPT !.have = @ \cup got, !.stage = @ + 1,
                            !.regions = @ + (IF "region" \in got THEN 1 ELSE 0)]
          /\ x = "region" => got = {x}
  <2>1. CASE D!StageSucceeds
    <3>1. s' = [s EXCEPT !.have = @ \cup {x}, !.stage = @ + 1,
                         !.regions = @ + (IF "region" \in {x} THEN 1 ELSE 0)]
      BY <2>1 DEF D!StageSucceeds
    <3> HIDE DEF x
    <3> QED
      BY <3>1
  <2>2. CASE D!StageFailsUnseen
    <3>1. s' = [s EXCEPT !.stage = @ + 1] /\ x # "region"
      BY <2>2 DEF D!StageFailsUnseen
    <3>2. s' = [s EXCEPT !.have = @ \cup {}, !.stage = @ + 1,
                         !.regions = @ + (IF "region" \in {} THEN 1 ELSE 0)]
      <4>1. s.regions + 0 = s.regions /\ s.have \cup {} = s.have
        BY DEF DeviceInv, DeviceTypes, DeviceState
      <4> QED
        BY <3>1, <4>1 DEF DeviceInv, DeviceTypes, DeviceState
    <3> HIDE DEF x
    <3> WITNESS {} \in SUBSET {x}
    <3> QED
      BY <3>1, <3>2
  <2> QED
    BY <2>1, <2>2
<1> HIDE DEF to, x
<1>7. /\ s'.have = s.have \cup got /\ s'.stage = s.stage + 1
      /\ s'.regions = s.regions + (IF "region" \in got THEN 1 ELSE 0)
      /\ s'.loads = s.loads /\ s'.exits = s.exits /\ s'.stale = s.stale
      /\ s'.last = s.last /\ s'.got = s.got /\ s'.offset = s.offset /\ s'.size = s.size
  BY <1>6 DEF DeviceInv, DeviceTypes, DeviceState
<1>8. DeviceTypes'
  <2>1. s.stage \in Nat /\ s.regions \in Int /\ s \in DeviceState
    BY DEF DeviceInv, DeviceTypes, DeviceState
  <2>2. s.stage + 1 \in Nat /\ s.regions + (IF "region" \in got THEN 1 ELSE 0) \in Int
    BY <2>1
  <2>3. s.have \cup got \in SUBSET {"region", "cdev", "class", "device", "memory"}
    BY <1>5, <2>1 DEF DeviceState
  <2>4. s' \in DeviceState
    BY <1>6, <2>1, <2>2, <2>3 DEF DeviceState
  <2> QED
    BY <1>1, <1>3, <1>4, <2>4 DEF DeviceInv, DeviceTypes
<1>9. "region" \in s'.have /\ s'.stage # 1
  BY <1>5, <1>6, <1>7
<1>10. Loaded' /\ Loaded
  BY <1>3, <1>4 DEF Loaded
<1>11. s'.regions = (IF prog \in D!HasCdev THEN s'.exits ELSE 0) + 1
  <2>1. "region" \in got <=> "region" \notin s.have
    BY <1>5, <1>6
  <2>2. s.regions = (IF prog \in D!HasCdev THEN s.exits ELSE 0)
                    + (IF "region" \in s.have THEN 1 ELSE 0)
    BY DEF DeviceInv, DeviceLoads
  <2>3. s.exits \in Nat
    BY DEF DeviceInv, DeviceTypes, DeviceState
  <2> QED
    BY <1>7, <2>1, <2>2, <2>3
<1>12. DeviceLoads'
  <2>1. "cdev" \in s'.have => prog \in D!HasCdev
    BY <1>5, <1>6, <1>7 DEF DeviceInv, DeviceLoads
  <2>2. to = "loading" => s'.stage \in 1 .. Len(D!Stages)
    BY <1>4, <1>5, <1>7
  <2> QED
    BY <1>3, <1>4, <1>7, <1>9, <1>10, <1>11, <2>1, <2>2 DEF DeviceInv, DeviceLoads
<1>13. DeviceFiles'
  BY <1>3, <1>7, <1>10 DEF DeviceInv, DeviceFiles
<1> QED
  BY <1>8, <1>12, <1>13 DEF DeviceInv

LEMMA DeviceUndone ==
  ASSUME DeviceInv, D!StageFails
  PROVE  DeviceInv'
<1> DEFINE k == D!KernelSide
<1>1. k \notin Apps /\ D!Nobody \notin Apps
  BY ExercisesAssumption DEF D!KernelSide, D!Nobody, Texts
<1>2. prog' = prog /\ pc[k] = "loading" /\ s' = D!Undo
  BY DEF D!StageFails, D!Up
<1>3. pc' = [p \in DOMAIN pc |-> IF p = k THEN "absent"
                                 ELSE IF pc[p] = "open" THEN "lost" ELSE pc[p]]
  BY DEF D!StageFails
<1>4. /\ pc'[k] = "absent"
      /\ \A a \in Apps : pc'[a] = IF pc[a] = "open" THEN "lost" ELSE pc[a]
      /\ pc' \in [Apps \cup {k} -> {"absent", "loading", "live", "down", "closed", "open", "lost"}]
  BY <1>1, <1>3 DEF DeviceInv, DeviceTypes
<1>5. /\ s'.have = {} /\ s'.stale = (s.stale \/ "cdev" \in s.have)
      /\ s'.regions = s.regions - (IF "region" \in s.have THEN 1 ELSE 0)
      /\ s'.loads = s.loads /\ s'.exits = s.exits
      /\ s'.last = s.last /\ s'.got = s.got /\ s'.offset = s.offset /\ s'.size = s.size
  BY <1>2 DEF D!Undo, DeviceInv, DeviceTypes, DeviceState
<1>6. s.loads \in Nat /\ s.exits \in Nat /\ s.regions \in Int /\ s.stale \in BOOLEAN
  BY DEF DeviceInv, DeviceTypes, DeviceState
<1>7. DeviceTypes'
  <2>1. s' \in DeviceState
    <3> DEFINE g == s.stale \/ "cdev" \in s.have
               r == s.regions - (IF "region" \in s.have THEN 1 ELSE 0)
    <3>1. s' = [s EXCEPT !.have = {}, !.stale = g, !.regions = r]
      BY <1>2 DEF D!Undo
    <3>2. g \in BOOLEAN /\ r \in Int /\ s \in DeviceState
      BY <1>6 DEF DeviceInv, DeviceTypes
    <3> HIDE DEF g, r
    <3> QED
      BY <3>1, <3>2 DEF DeviceState
  <2> QED
    BY <1>2, <1>4, <2>1 DEF DeviceInv, DeviceTypes
<1>8. Loaded /\ ~Loaded'
  BY <1>2, <1>4 DEF Loaded
<1>9. s'.regions = (IF prog \in D!HasCdev THEN s'.exits ELSE 0) + 0
  <2>1. s.regions = (IF prog \in D!HasCdev THEN s.exits ELSE 0)
                    + (IF "region" \in s.have THEN 1 ELSE 0)
    BY DEF DeviceInv, DeviceLoads
  <2> QED
    BY <1>5, <1>6, <2>1
<1>10. s'.exits + 0 + (IF s'.stale THEN 1 ELSE 0) <= s'.loads
  <2>1. s.exits + 1 + (IF s.stale THEN 1 ELSE 0) <= s.loads
    BY <1>8 DEF DeviceInv, DeviceLoads
  <2> QED
    BY <1>5, <1>6, <2>1
<1>11. DeviceLoads'
  BY <1>2, <1>4, <1>5, <1>8, <1>9, <1>10 DEF DeviceInv, DeviceLoads
<1>12. DeviceFiles'
  BY <1>4, <1>5 DEF DeviceInv, DeviceFiles
<1> QED
  BY <1>7, <1>11, <1>12 DEF DeviceInv

LEMMA DeviceRmmod ==
  ASSUME DeviceInv, D!Rmmod
  PROVE  DeviceInv'
<1> DEFINE k == D!KernelSide
<1>1. k \notin Apps
  BY ExercisesAssumption DEF D!KernelSide, Texts
<1>2. D!Step(k, "live", "absent") /\ \A a \in Apps : pc[a] # "open"
  BY DEF D!Rmmod
<1>3. /\ prog' = prog /\ D!Stages' = D!Stages /\ pc[k] = "live" /\ pc'[k] = "absent"
      /\ pc' = [pc EXCEPT ![k] = "absent"] /\ \A a \in Apps : pc'[a] = pc[a]
  BY <1>1, <1>2, DeviceMoves DEF DeviceInv
<1>4. s' = [s EXCEPT !.have = {}, !.exits = @ + 1, !.regions = @ - D!ReleasedNumbers]
  BY DEF D!Rmmod
<1>5. /\ s.loads \in Nat /\ s.exits \in Nat /\ s.regions \in Int /\ s.stale \in BOOLEAN
      /\ D!ReleasedNumbers = IF prog \in D!HasCdev THEN 0 ELSE 1
      /\ s.regions - D!ReleasedNumbers \in Int
  BY DEF DeviceInv, DeviceTypes, DeviceState, D!ReleasedNumbers
<1>6. /\ s'.have = {} /\ s'.exits = s.exits + 1 /\ s'.stale = s.stale /\ s'.loads = s.loads
      /\ s'.regions = s.regions - D!ReleasedNumbers
      /\ s'.last = s.last /\ s'.got = s.got /\ s'.offset = s.offset /\ s'.size = s.size
  BY <1>4 DEF DeviceInv, DeviceTypes, DeviceState
<1>7. DeviceTypes'
  <2>1. s' \in DeviceState
    <3> DEFINE e == s.exits + 1
               r == s.regions - D!ReleasedNumbers
    <3>1. s' = [s EXCEPT !.have = {}, !.exits = e, !.regions = r]
      BY <1>4
    <3>2. e \in Nat /\ r \in Int /\ s \in DeviceState
      BY <1>5 DEF DeviceInv, DeviceTypes
    <3> HIDE DEF e, r
    <3> QED
      BY <3>1, <3>2 DEF DeviceState
  <2> QED
    BY <1>1, <1>3, <2>1 DEF DeviceInv, DeviceTypes
<1>8. Loaded /\ ~Loaded' /\ "region" \in s.have
  BY <1>3 DEF Loaded, DeviceInv, DeviceLoads
<1>9. s'.regions = (IF prog \in D!HasCdev THEN s'.exits ELSE 0) + 0
  <2>1. s.regions = (IF prog \in D!HasCdev THEN s.exits ELSE 0) + 1
    BY <1>8 DEF DeviceInv, DeviceLoads
  <2> QED
    BY <1>5, <1>6, <2>1
<1>10. s'.exits + 0 + (IF s'.stale THEN 1 ELSE 0) <= s'.loads
  <2>1. s.exits + 1 + (IF s.stale THEN 1 ELSE 0) <= s.loads
    BY <1>8 DEF DeviceInv, DeviceLoads
  <2> QED
    BY <1>5, <1>6, <2>1
<1>11. DeviceLoads'
  BY <1>3, <1>6, <1>8, <1>9, <1>10 DEF DeviceInv, DeviceLoads
<1>12. DeviceFiles'
  BY <1>2, <1>3, <1>6 DEF DeviceInv, DeviceFiles
<1> QED
  BY <1>7, <1>11, <1>12 DEF DeviceInv

\* The calls on the device file.
LEMMA DeviceCall ==
  ASSUME DeviceInv, NEW a \in Apps, D!FileCalls(a)
  PROVE  DeviceInv'
<1> DEFINE k == D!KernelSide
<1>1. /\ k \notin Apps /\ D!Nobody \notin Apps /\ Page \in Nat
      /\ {"none", "nothing", "beyond"} \cap Apps = {}
  BY ExercisesAssumption DEF D!KernelSide, D!Nobody, Texts
<1>2. s \in DeviceState /\ s.offset[a] \in Nat /\ s.size \in 0 .. Page
  BY DEF DeviceInv, DeviceTypes, DeviceState
<1>3. CASE D!Open(a)
  <2>1. /\ prog' = prog /\ pc[a] = "closed" /\ pc' = [pc EXCEPT ![a] = "open"]
        /\ pc'[a] = "open" /\ \A q \in (Apps \cup {k}) \ {a} : pc'[q] = pc[q]
    BY <1>3, DeviceMoves DEF D!Open, DeviceInv
  <2>2. s' = s /\ "cdev" \in s.have
    BY <1>3 DEF D!Open
  <2>3. DeviceTypes'
    BY <1>1, <2>1, <2>2 DEF DeviceInv, DeviceTypes
  <2>4. DeviceLoads' /\ (Loaded' <=> Loaded)
    BY <1>1, <2>1, <2>2, ModuleKept
  <2>5. Loaded
    BY <2>2 DEF DeviceInv, DeviceLoads, Loaded
  <2>6. DeviceFiles'
    BY <2>1, <2>2, <2>4, <2>5 DEF DeviceInv, DeviceFiles
  <2> QED
    BY <2>3, <2>4, <2>6 DEF DeviceInv
<1>4. CASE D!CloseFile(a)
  <2>1. /\ prog' = prog /\ pc[a] = "open" /\ pc' = [pc EXCEPT ![a] = "closed"]
        /\ pc'[a] = "closed" /\ \A q \in (Apps \cup {k}) \ {a} : pc'[q] = pc[q]
    BY <1>4, DeviceMoves DEF D!CloseFile, DeviceInv
  <2>2. s' = [s EXCEPT !.last = IF @ = a THEN D!Nobody ELSE @, !.offset[a] = 0,
                       !.got[a] = "none", !.number[a] = D!Nobody]
    BY <1>4 DEF D!CloseFile
  <2>3. s' \in DeviceState
    BY <1>2, <2>2 DEF DeviceState
  <2>4. /\ s'.have = s.have /\ s'.stage = s.stage /\ s'.loads = s.loads /\ s'.exits = s.exits
        /\ s'.regions = s.regions /\ s'.stale = s.stale /\ s'.size = s.size
        /\ s'.last = (IF s.last = a THEN D!Nobody ELSE s.last) /\ s'.got[a] = "none"
        /\ \A b \in Apps \ {a} : s'.got[b] = s.got[b] /\ s'.offset[b] = s.offset[b]
    BY <1>2, <2>2 DEF DeviceState
  <2>5. DeviceTypes'
    BY <1>1, <2>1, <2>3 DEF DeviceInv, DeviceTypes
  <2>6. DeviceLoads' /\ (Loaded' <=> Loaded)
    BY <1>1, <2>1, <2>4, ModuleKept
  <2>7. DeviceFiles'
    BY <1>1, <2>1, <2>4, <2>6 DEF DeviceInv, DeviceFiles
  <2> QED
    BY <2>5, <2>6, <2>7 DEF DeviceInv
\* Of the other calls a file only sees what it got and where the page ends.
<1>5. ASSUME prog' = prog, UNCHANGED pc, s' \in DeviceState,
             s'.have = s.have, s'.stage = s.stage, s'.loads = s.loads, s'.exits = s.exits,
             s'.regions = s.regions, s'.stale = s.stale,
             \A b \in Apps : s'.last = b => s'.offset[b] = s'.size,
             \A b \in Apps : s'.got[b] # b
      PROVE  DeviceInv'
  <2>1. DeviceTypes'
    BY <1>5 DEF DeviceInv, DeviceTypes
  <2>2. DeviceLoads' /\ (Loaded' <=> Loaded)
    BY <1>5, ModuleKept
  <2>3. DeviceFiles'
    BY <1>5, <2>2 DEF DeviceInv, DeviceFiles
  <2> QED
    BY <2>1, <2>2, <2>3 DEF DeviceInv
<1>6. \A b \in Apps : (s.last = b => s.offset[b] = s.size) /\ s.got[b] # b
  BY DEF DeviceInv, DeviceFiles
<1>7. CASE D!ReadNothing(a)
  <2>1. s' = [s EXCEPT !.got[a] = "nothing"] /\ prog' = prog /\ UNCHANGED pc
    BY <1>7 DEF D!ReadNothing, D!Calls, D!Up
  <2>2. /\ s'.got[a] = "nothing" /\ \A b \in Apps \ {a} : s'.got[b] = s.got[b]
        /\ s'.last = s.last /\ s'.offset = s.offset /\ s'.size = s.size
    BY <1>2, <2>1 DEF DeviceState
  <2>3. \A b \in Apps : (s'.last = b => s'.offset[b] = s'.size) /\ s'.got[b] # b
    BY <1>1, <1>6, <2>2
  <2> QED
    BY <1>2, <1>5, <2>1, <2>3 DEF DeviceState
<1>8. CASE D!ReadFile(a)
  <2> DEFINE n == IF s.size = s.offset[a] THEN 0 ELSE 1
             g == IF s.size < s.offset[a] THEN "beyond"
                  ELSE IF n = 0 THEN "nothing" ELSE s.last
  <2>1. s' = [s EXCEPT !.offset[a] = @ + n, !.got[a] = g] /\ prog' = prog /\ UNCHANGED pc
    <3> DEFINE left    == s.size - s.offset[a]
               to_read == IF left >= 0 /\ D!ReadSize > left THEN left ELSE D!ReadSize
    <3>1. /\ to_read = n /\ (left < 0 <=> s.size < s.offset[a])
          /\ left < 0 => ~(to_read = 0)
      BY <1>2 DEF D!ReadSize
    <3> HIDE DEF left, to_read, n
    <3>2. (CASE left < 0 -> "beyond" [] to_read = 0 -> "nothing" [] OTHER -> s.last) = g
      <4>1. CASE left < 0
        BY <3>1, <4>1
      <4>2. CASE ~(left < 0)
        BY <3>1, <4>2
      <4> QED
        BY <4>1, <4>2
    <3>3. s' = [s EXCEPT !.offset[a] = @ + to_read,
                         !.got[a] = CASE left < 0 -> "beyond" [] to_read = 0 -> "nothing"
                                      [] OTHER -> s.last]
      BY <1>8 DEF D!ReadFile, left, to_read
    <3> HIDE DEF g
    <3> QED
      BY <1>8, <3>1, <3>2, <3>3 DEF D!ReadFile, D!Calls, D!Up
  <2>2. n \in Nat /\ (s.last = a => n = 0) /\ g # a
        /\ g \in Apps \cup {D!Nobody, "none", "nothing", "beyond"}
    BY <1>1, <1>2, <1>6 DEF DeviceState
  <2> HIDE DEF n, g
  <2>3. /\ s'.got[a] = g /\ s'.offset[a] = s.offset[a] + n
        /\ \A b \in Apps \ {a} : s'.got[b] = s.got[b] /\ s'.offset[b] = s.offset[b]
        /\ s'.last = s.last /\ s'.size = s.size
    BY <1>2, <2>1 DEF DeviceState
  <2>4. \A b \in Apps : (s'.last = b => s'.offset[b] = s'.size) /\ s'.got[b] # b
    BY <1>2, <1>6, <2>2, <2>3
  <2>5. s' \in DeviceState
    <3>1. s.offset[a] + n \in Nat
      BY <1>2, <2>2
    <3> QED
      BY <1>2, <2>1, <2>2, <3>1 DEF DeviceState
  <2> QED
    BY <1>2, <1>5, <2>1, <2>4, <2>5 DEF DeviceState
<1>9. CASE D!WriteFile(a)
  <2>1. /\ s' = [s EXCEPT !.offset[a] = @ + 1, !.size = s.offset[a] + 1, !.last = a]
        /\ prog' = prog /\ UNCHANGED pc /\ s.offset[a] < Page
    BY <1>9 DEF D!WriteFile, D!Calls, D!Up
  <2>2. /\ s'.got = s.got /\ s'.offset[a] = s.offset[a] + 1 /\ s'.last = a
        /\ s'.size = s.offset[a] + 1
    BY <1>2, <2>1 DEF DeviceState
  <2>3. \A b \in Apps : (s'.last = b => s'.offset[b] = s'.size) /\ s'.got[b] # b
    BY <1>6, <2>2
  <2>4. s' \in DeviceState
    <3>1. s.offset[a] + 1 \in Nat /\ s.offset[a] + 1 \in 0 .. Page
      BY <1>1, <1>2, <2>1
    <3> QED
      BY <1>2, <2>1, <3>1 DEF DeviceState
  <2> QED
    BY <1>2, <1>5, <2>1, <2>3, <2>4 DEF DeviceState
<1>10. CASE D!WriteFull(a)
  <2> DEFINE z == IF s.offset[a] = Page THEN Page ELSE s.size
             l == IF s.offset[a] = Page THEN a ELSE D!Nobody
  <2>1. s' = [s EXCEPT !.size = z, !.last = l] /\ prog' = prog /\ UNCHANGED pc
    BY <1>10 DEF D!WriteFull, D!Calls, D!Up
  <2>2. z \in 0 .. Page /\ l \in Apps \cup {D!Nobody}
        /\ \A b \in Apps : l = b => b = a /\ s.offset[a] = z
    BY <1>1, <1>2
  <2> HIDE DEF z, l
  <2>3. s'.got = s.got /\ s'.offset = s.offset /\ s'.last = l /\ s'.size = z
    BY <1>2, <2>1 DEF DeviceState
  <2>4. \A b \in Apps : (s'.last = b => s'.offset[b] = s'.size) /\ s'.got[b] # b
    BY <1>6, <2>2, <2>3
  <2> QED
    BY <1>2, <1>5, <2>1, <2>2, <2>4 DEF DeviceState
<1>11. CASE D!WriteBreaks(a)
  <2>1. /\ prog' = prog /\ pc[a] = "open" /\ pc' = [pc EXCEPT ![k] = "down"] /\ s' = s
    BY <1>11 DEF D!WriteBreaks, D!Calls, D!Up
  <2>2. pc'[k] = "down" /\ \A b \in Apps : pc'[b] = pc[b]
    BY <1>1, <2>1 DEF DeviceInv, DeviceTypes
  <2>3. Loaded /\ Loaded'
    BY <2>1, <2>2 DEF DeviceInv, DeviceFiles, Loaded
  <2>4. DeviceTypes'
    BY <1>1, <2>1, <2>2 DEF DeviceInv, DeviceTypes
  <2>5. DeviceLoads'
    BY <2>1, <2>2, <2>3 DEF DeviceInv, DeviceLoads
  <2>6. DeviceFiles'
    BY <2>1, <2>2, <2>3 DEF DeviceInv, DeviceFiles
  <2> QED
    BY <2>4, <2>5, <2>6 DEF DeviceInv
<1>12. CASE D!Ioctl(a)
  <2>1. /\ s' = [s EXCEPT !.value = a] \/ s' = [s EXCEPT !.number[a] = s.value]
        /\ prog' = prog /\ UNCHANGED pc
    BY <1>12 DEF D!Ioctl, D!Calls, D!Up
  <2>2. s'.got = s.got /\ s'.offset = s.offset /\ s'.last = s.last /\ s'.size = s.size
    BY <1>2, <2>1 DEF DeviceState
  <2>3. \A b \in Apps : (s'.last = b => s'.offset[b] = s'.size) /\ s'.got[b] # b
    BY <1>6, <2>2
  <2> QED
    BY <1>2, <1>5, <2>1, <2>3 DEF DeviceState
<1> QED
  BY <1>3, <1>4, <1>7, <1>8, <1>9, <1>10, <1>11, <1>12 DEF D!FileCalls

LEMMA DeviceStep ==
  ASSUME DeviceInv, [D!Next]_vars
  PROVE  DeviceInv'
<1>1. CASE UNCHANGED vars
  <2>1. prog' = prog /\ pc' = pc /\ s' = s
    BY <1>1 DEF vars
  <2>2. DeviceLoads'
    BY <2>1, ModuleKept
  <2> QED
    BY <2>1, <2>2 DEF DeviceInv, DeviceTypes, DeviceFiles, Loaded
<1>2. CASE D!Next
  BY <1>2, DeviceInsmod, DeviceStage, DeviceUndone, DeviceRmmod, DeviceCall DEF D!Next
<1> QED
  BY <1>1, <1>2

\* A module that is gone holds nothing but the numbers that its exit forgets, no
\* live module goes away under an open file, and the last writer stands at the
\* end of the page, for every number of processes, loads and pages.
THEOREM DeviceStaysSound == Spec => []DeviceIsSound
<1> DEFINE I == prog \in D!Programs => DeviceInv
<1>1. Init => I
  BY OwnInit, DeviceStart
<1>2. I /\ [Next]_vars => I'
  BY OwnSteps, DeviceStep
<1>3. ASSUME I PROVE DeviceIsSound
  <2> SUFFICES ASSUME DeviceInv PROVE D!TypeOK /\ D!NothingStays /\ D!OpenKeepsModule
                                      /\ D!LastWriterIsAtEnd
    BY <1>3 DEF DeviceIsSound, D!DeviceIsSound
  <2>1. D!TypeOK
    BY DEF DeviceInv, DeviceTypes, DeviceState, D!TypeOK
  <2>2. D!NothingStays
    <3>1. s.exits \in Nat /\ s.loads \in Nat
      BY DEF DeviceInv, DeviceTypes, DeviceState
    <3>2. pc[D!KernelSide] = "absent" =>
              s.have = {} /\ s.regions = IF prog \in D!HasCdev THEN s.exits ELSE 0
      BY <3>1 DEF DeviceInv, DeviceLoads
    <3>3. s.stale => s.exits < s.loads
      BY <3>1 DEF DeviceInv, DeviceLoads
    <3> QED
      BY <3>2, <3>3 DEF DeviceInv, DeviceLoads, D!NothingStays
  <2>3. D!OpenKeepsModule /\ D!LastWriterIsAtEnd
    BY DEF DeviceInv, DeviceFiles, Loaded, D!OpenKeepsModule, D!LastWriterIsAtEnd
  <2> QED
    BY <2>1, <2>2, <2>3
<1> QED
  BY <1>1, <1>2, <1>3, PTL DEF Spec

=============================================================================
