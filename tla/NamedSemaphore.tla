--------------------------- MODULE NamedSemaphore ---------------------------
(***************************************************************************)
(* src/09-semaphore/POSIX-semaphore/named-semaphore/main.c: several        *)
(* processes run it, and whoever holds the semaphore "/named_app" waits    *)
(* for a character.  The program names no removal that works: the last     *)
(* call, sem_unlink(&sem), gets the address of a pointer for a name.       *)
(***************************************************************************)
EXTENDS Naturals

CONSTANT Users        \* processes that run main(), again and again

VARIABLES prog, pc, s

vars == <<prog, pc, s>>

Programs == {"named_semaphore"}
Places   == {"create", "open", "getvalue", "wait", "type", "post", "close", "ended"}
Outcomes == {"none", "posted", "timeout"}

\* s.exists: the semaphore is there, with s.value.  s.lost: a process died
\* between its wait and its post.  s.result: how the last run of a process went.
Init ==
    /\ prog \in Programs
    /\ pc = [u \in Users |-> "create"]
    /\ s = [exists |-> FALSE, value |-> 0, lost |-> FALSE,
            result |-> [u \in Users |-> "none"]]

Holding == {"type", "post"}

Step(u, from, to) ==
    /\ prog \in Programs /\ UNCHANGED prog
    /\ pc[u] = from
    /\ pc' = [pc EXCEPT ![u] = to]

-----------------------------------------------------------------------------
\* sem_open(O_CREAT|O_EXCL, 1): one process makes it; the others learn EEXIST
\* and open it in a second call.
Create(u) ==
    /\ Step(u, "create", "getvalue")
    /\ ~s.exists
    /\ s' = [s EXCEPT !.exists = TRUE, !.value = 1]

FindsIt(u) ==
    /\ Step(u, "create", "open")
    /\ s.exists
    /\ UNCHANGED s

Open(u) ==
    /\ Step(u, "open", "getvalue")
    /\ s.exists
    /\ UNCHANGED s

\* Either call may fail for want of memory or descriptors.
OpenFails(u) ==
    /\ Step(u, "create", "ended") \/ Step(u, "open", "ended")
    /\ UNCHANGED s

\* The value is only shown: it may be another one when the process waits.
GetValue(u) ==
    /\ Step(u, "getvalue", "wait")
    /\ UNCHANGED s

\* Mutant: sem_timedwait() that does not count down.
WaitWithoutTaking(u) ==
    /\ Step(u, "wait", "type")
    /\ s.value > 0
    /\ UNCHANGED s

TimedWait(u) ==
    /\ Step(u, "wait", "type")
    /\ s.value > 0
    /\ s' = [s EXCEPT !.value = @ - 1]

\* Mutant: sem_wait() in place of sem_timedwait().
WaitGoesOn(u) ==
    /\ Step(u, "wait", "wait")
    /\ s.value = 0
    /\ UNCHANGED s

\* Ten seconds without a post.
WaitTimesOut(u) ==
    /\ Step(u, "wait", "ended")
    /\ s.value = 0
    /\ s' = [s EXCEPT !.result[u] = "timeout"]

TypeChar(u) ==
    /\ Step(u, "type", "post")
    /\ UNCHANGED s

Post(u) ==
    /\ Step(u, "post", "close")
    /\ s' = [s EXCEPT !.value = @ + 1, !.result[u] = "posted"]

\* sem_close() and the sem_unlink() that finds no such name.
Close(u) ==
    /\ Step(u, "close", "ended")
    /\ UNCHANGED s

\* Ctrl-C at any moment: what the process holds is never posted.
Kill(u) ==
    /\ \E place \in Places \ {"ended"} : Step(u, place, "ended")
    /\ s' = [s EXCEPT !.lost = @ \/ pc[u] \in Holding]

RunAgain(u) ==
    /\ Step(u, "ended", "create")
    /\ s' = [s EXCEPT !.result[u] = "none"]

Calls(u) ==
    \/ Create(u) \/ FindsIt(u) \/ Open(u) \/ OpenFails(u) \/ GetValue(u)
    \/ TimedWait(u) \/ WaitTimesOut(u) \/ Post(u) \/ Close(u)

Next == \E u \in Users : Calls(u) \/ TypeChar(u) \/ Kill(u) \/ RunAgain(u)

\* The kernel ends every call, the wait included; nobody has to type.
Fairness == \A u \in Users : WF_vars(Calls(u))

Spec == Init /\ [][Next]_vars /\ Fairness

-----------------------------------------------------------------------------
\* What the programs of this module keep has its type.
TypeOK ==
    /\ prog \in Programs
    /\ pc \in [Users -> Places]
    /\ s \in [exists : BOOLEAN, value : 0 .. 1, lost : BOOLEAN,
              result : [Users -> Outcomes]]

Holders == {u \in Users : pc[u] \in Holding}

\* The semaphore has one unit.  It is in the value, with exactly one process
\* that types (main.c:52-63), or gone for good with a process that was killed
\* before its post: then every later run times out, and no run can put it
\* right, because the name is never removed (main.c:81).
SemaphoreAddsUp ==
    /\ prog \in Programs => TypeOK
    /\ prog \in Programs /\ s.exists =>
        /\ s.value = 1 <=> Holders = {} /\ ~s.lost
        /\ s.lost => Holders = {}
        /\ \A u, v \in Holders : u = v

\* A wait ends after ten seconds at the latest, also when the holder never
\* types (main.c:51-52).
WaitEnds ==
    \A u \in Users :
        prog \in Programs /\ pc[u] = "wait" ~> prog \in Programs /\ pc[u] # "wait"
=============================================================================
