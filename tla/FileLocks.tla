----------------------------- MODULE FileLocks -----------------------------
(***************************************************************************)
(* The programs of src/02-linux-file-system that share a file: process_A   *)
(* and process_B of flock and of fcntl, and rw_sync (rw-sync/main.c),      *)
(* which waits for the signal that ends its asynchronous read.             *)
(***************************************************************************)
EXTENDS Integers, FiniteSets

CONSTANTS As, Bs      \* processes that run process_A and process_B

VARIABLES prog, pc, s

vars == <<prog, pc, s>>

Programs == {"flock", "fcntl", "rw_sync"}
Procs    == As \cup Bs
Nobody   == "nobody"

\* The bytes of fcntl's file that the two programs tell apart: 0, 1-5, 6-13
\* and 14.
Regions == {"r0", "r1_5", "r6_13", "r14"}
NoText  == "none"

\* s.shared, s.exclusive: who has the lock of flock().  s.owner: who has the
\* record lock on a region.  s.by: who wrote a region last.
Init ==
    /\ prog \in Programs
    /\ pc = [p \in Procs \cup {"main"} |-> "open"]
    /\ s = [exists    |-> FALSE,
            by        |-> [r \in Regions |-> NoText],
            shared    |-> {},
            exclusive |-> {},
            owner     |-> [r \in Regions |-> Nobody],
            got       |-> [p \in Procs |-> "nothing"],
            aio       |-> "none",
            flag      |-> 0,
            buf       |-> NoText]

At(p, place)      == pc[p] = place
Go(p, place)      == pc' = [pc EXCEPT ![p] = place]
Step(p, from, to) == At(p, from) /\ Go(p, to)
Here(names)       == prog \in names /\ UNCHANGED prog

Locking == {"flock", "fcntl"}

\* close(), or the end of the process: its locks go.
Closed(t, p) ==
    [t EXCEPT !.shared = @ \ {p}, !.exclusive = @ \ {p},
              !.owner = [r \in Regions |-> IF @[r] = p THEN Nobody ELSE @[r]]]

-----------------------------------------------------------------------------
(* process_A creates the file, writes 15 bytes, takes its lock and keeps   *)
(* it until it is killed.  process_B opens the file only if it is there.   *)

OpenA(a) ==
    /\ Here(Locking) /\ Step(a, "open", "write")
    /\ s' = [s EXCEPT !.exists = TRUE]

WriteA(a) ==
    /\ Here(Locking) /\ Step(a, "write", "lock")
    /\ s' = [s EXCEPT !.by = [r \in Regions |-> a]]

OpenB(b) ==
    /\ Here(Locking) /\ UNCHANGED s
    /\ Step(b, "open", IF ~s.exists THEN "ended"
                       ELSE IF prog = "flock" THEN "exclusive" ELSE "lock1")

KillA(a) ==
    /\ Here(Locking) /\ pc[a] \in {"lock", "hold"} /\ Go(a, "ended")
    /\ s' = Closed(s, a)

-----------------------------------------------------------------------------
(* flock(): a process has one lock on the file, or none.                   *)

\* process_A waits for LOCK_SH.
SharedA(a) ==
    /\ Here({"flock"}) /\ s.exclusive = {} /\ Step(a, "lock", "hold")
    /\ s' = [s EXCEPT !.shared = @ \cup {a}]

\* Mutant: a lock that only keeps other exclusive locks out.
TryExclusiveOnly(b) ==
    /\ Here({"flock"}) /\ Step(b, "exclusive", "convert")
    /\ s' = [s EXCEPT !.exclusive = IF @ = {} THEN {b} ELSE @]

\* process_B tries LOCK_EX | LOCK_NB, and goes on if it does not get it.
TryExclusive(b) ==
    /\ Here({"flock"}) /\ Step(b, "exclusive", "convert")
    /\ s' = [s EXCEPT !.exclusive = IF s.shared \cup @ = {} THEN {b} ELSE @]

\* Then LOCK_SH | LOCK_NB: the kernel first gives up the lock that it has...
GiveUp(b) ==
    /\ Here({"flock"}) /\ Step(b, "convert", "shared")
    /\ s' = [s EXCEPT !.exclusive = @ \ {b}]

\* ... and then tries for the other.
TryShared(b) ==
    /\ Here({"flock"})
    /\ IF s.exclusive = {}
       THEN Step(b, "shared", "read") /\ s' = [s EXCEPT !.shared = @ \cup {b}]
       ELSE Step(b, "shared", "close") /\ s' = [s EXCEPT !.got[b] = "refused"]

ReadB(b) ==
    /\ Here({"flock"}) /\ Step(b, "read", "close")
    /\ s' = [s EXCEPT !.got[b] = s.by["r0"]]

CloseB(b) ==
    /\ Here(Locking) /\ Step(b, "close", "ended")
    /\ s' = Closed(s, b)

-----------------------------------------------------------------------------
(* fcntl(F_SETLK): record locks, refused when another process has one.     *)

Free(r, p)      == s.owner[r] \in {Nobody, p}
TryLock(t, r, p) == [t EXCEPT !.owner[r] = IF Free(r, p) THEN p ELSE @]

\* process_A goes on whether or not it got bytes 1 to 5.
LockA(a) ==
    /\ Here({"fcntl"}) /\ Step(a, "lock", "hold")
    /\ s' = TryLock(s, "r1_5", a)

\* process_B tries bytes 1 to 5, which it does not need, and bytes 6 to 13.
LockFirst(b) ==
    /\ Here({"fcntl"}) /\ Step(b, "lock1", "lock2")
    /\ s' = TryLock(s, "r1_5", b)

LockSecond(b) ==
    /\ Here({"fcntl"})
    /\ Step(b, "lock2", IF Free("r6_13", b) THEN "write" ELSE "close")
    /\ s' = [TryLock(s, "r6_13", b) EXCEPT
                !.got[b] = IF Free("r6_13", b) THEN "lock" ELSE "refused"]

\* Nine bytes from 6: one more than it has locked.
WriteB(b) ==
    /\ Here({"fcntl"}) /\ b \in Bs /\ Step(b, "write", "close")
    /\ s' = [s EXCEPT !.by["r6_13"] = b, !.by["r14"] = b]

-----------------------------------------------------------------------------
(* rw-sync: main() has a handler for the signal of aio_read(), asks for    *)
(* the read and looks every second whether the handler has set flag.       *)

\* The request has fields that main() never sets: the call may fail, and
\* nobody looks.
AioRead ==
    /\ Here({"rw_sync"}) /\ Step("main", "open", "look")
    /\ \E how \in {"asked", "refused"} : s' = [s EXCEPT !.aio = how]

AioDone ==
    /\ Here({"rw_sync"}) /\ s.aio = "asked"
    /\ s' = [s EXCEPT !.aio = "done", !.buf = "read"]
    /\ UNCHANGED pc

Handler ==
    /\ Here({"rw_sync"}) /\ s.aio = "done" /\ s.flag = 0
    /\ s' = [s EXCEPT !.flag = 1]
    /\ UNCHANGED pc

LookAtFlag ==
    /\ Here({"rw_sync"}) /\ s.flag = 1 /\ Step("main", "look", "ended")
    /\ UNCHANGED s

-----------------------------------------------------------------------------
StepsA(a) == OpenA(a) \/ WriteA(a) \/ SharedA(a) \/ LockA(a)
StepsB(b) ==
    \/ OpenB(b) \/ TryExclusive(b) \/ GiveUp(b) \/ TryShared(b) \/ ReadB(b)
    \/ LockFirst(b) \/ LockSecond(b) \/ WriteB(b) \/ CloseB(b)
AioSteps == AioRead \/ AioDone \/ Handler \/ LookAtFlag

Next ==
    \/ \E a \in As : StepsA(a) \/ KillA(a)
    \/ \E b \in Bs : StepsB(b)
    \/ AioSteps

Fairness ==
    /\ \A a \in As : WF_vars(StepsA(a))
    /\ \A b \in Bs : WF_vars(StepsB(b))
    /\ WF_vars(AioSteps)

Spec == Init /\ [][Next]_vars /\ Fairness

-----------------------------------------------------------------------------
\* What the programs of this module keep has its type.
TypeOK ==
    /\ prog \in Programs
    /\ s.shared \subseteq Procs /\ s.exclusive \subseteq Bs
    /\ s.owner \in [Regions -> Procs \cup {Nobody}]
    /\ s.by \in [Regions -> Procs \cup {NoText}]

\* Nobody reads the file of flock while another process has it to itself, and
\* process_B is refused the shared lock only because of another process_B:
\* process_A never stands in its way (flock/process_B.c:19-32).
ReadsUnderLock ==
    prog = "flock" =>
        /\ s.exclusive # {} => s.shared = {} /\ Cardinality(s.exclusive) = 1
        /\ \A b \in Bs : At(b, "read") => b \in s.shared
        /\ \A b \in Bs : s.got[b] = "refused" => \E c \in Bs \ {b} : ~At(c, "open")

\* Of two process_B of fcntl at most one is about to write: the other goes
\* away or comes later.  Byte 14 is outside of the lock, and still has the
\* writer of bytes 6 to 13, because write() writes both at once
\* (fcntl/process_B.c:32-43).
OneWriterAtATime ==
    prog = "fcntl" =>
        /\ \A b \in Bs : At(b, "write") => s.owner["r6_13"] = b
        /\ Cardinality({b \in Bs : At(b, "write")}) <= 1
        /\ s.by["r14"] = s.by["r6_13"]
        /\ s.by["r0"] \in As \cup {NoText}

\* rw-sync prints its buffer only after the kernel has filled it.
PrintsAfterRead == prog = "rw_sync" /\ At("main", "ended") => s.buf = "read"

\* What is said above of each program.
FilesAreGuarded ==
    /\ prog \in Programs => TypeOK
    /\ ReadsUnderLock /\ OneWriterAtATime /\ PrintsAfterRead

\* Every process_B comes to its end, whatever locks the others have: it only
\* tries for its own (flock/process_B.c:17-32, fcntl/process_B.c:21-41).
EveryBEnds == \A b \in Bs : prog \in Locking ~> prog \in Locking /\ At(b, "ended")
=============================================================================
