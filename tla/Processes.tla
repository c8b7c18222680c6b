----------------------------- MODULE Processes -----------------------------
(***************************************************************************)
(* The programs of src/03-process and src/05-signal: fork, zombie,         *)
(* wait_waitpid, safe_fork, exec, signal_BLOCKING and signal_SIGINT.  A    *)
(* program is a parent, perhaps a child, and the signals that are sent to  *)
(* the parent: what is pending, what is blocked, and the handlers it has   *)
(* installed so far.                                                       *)
(***************************************************************************)
EXTENDS Integers

VARIABLES prog, pc, s

vars == <<prog, pc, s>>

Forking  == {"fork", "zombie", "wait_waitpid", "safe_fork"}
Programs == Forking \cup {"exec", "signal_BLOCKING", "signal_SIGINT"}
Signals  == {"INT", "TERM", "CHLD"}

\* s.end: how the parent ended.  s.counter: the variable of fork/main.c, one
\* copy in each process after fork().  s.late: the child ended before the
\* parent had its handler for SIGCHLD.
Init ==
    /\ prog \in Programs
    /\ pc = [parent |-> "start", child |-> "none"]
    /\ s = [pending |-> {},
            blocked |-> {},
            handled |-> {},
            counter |-> [p \in {"parent", "child"} |-> 2],
            waited  |-> FALSE,
            late    |-> FALSE,
            end     |-> "no"]

At(p, place) == pc[p] = place
Go(p, place) == pc' = [pc EXCEPT ![p] = place]
Alive        == prog \in Programs /\ s.end = "no"

End(how) == s' = [s EXCEPT !.end = how]

-----------------------------------------------------------------------------
(* fork() and the two branches behind it.                                  *)

AfterFork == CASE prog = "fork"         -> "count"
               [] prog = "zombie"       -> "spin"
               [] prog = "wait_waitpid" -> "wait"
               [] prog = "safe_fork"    -> "install"

Fork ==
    /\ Alive /\ prog \in Forking /\ At("parent", "start")
    /\ \/ pc' = [parent |-> AfterFork, child |-> "running"] /\ UNCHANGED s
       \/ UNCHANGED pc /\ End("fork failed")
    /\ UNCHANGED prog

\* ++counter in the copy of the parent, and in that of the child.
ParentCounts ==
    /\ Alive /\ At("parent", "count") /\ Go("parent", "spin")
    /\ s' = [s EXCEPT !.counter["parent"] = @ + 1]
    /\ UNCHANGED prog

\* A child that ends is a zombie until it is waited for, and SIGCHLD is
\* pending for a parent that handles it; otherwise the signal is dropped.
BecomesZombie(t) ==
    [t EXCEPT !.pending = IF "CHLD" \in t.handled THEN @ \cup {"CHLD"} ELSE @,
              !.late    = "CHLD" \notin t.handled]

\* The child returns from main(); that of wait_waitpid spins for ever.
ChildEnds ==
    /\ Alive /\ prog # "wait_waitpid" /\ At("child", "running") /\ Go("child", "zombie")
    /\ s' = BecomesZombie([s EXCEPT !.counter["child"] =
                               IF prog = "fork" THEN @ + 1 ELSE @])
    /\ UNCHANGED prog

\* Only its user's kill ends the child of wait_waitpid.
ChildKilled ==
    /\ Alive /\ prog = "wait_waitpid" /\ At("child", "running") /\ Go("child", "zombie")
    /\ s' = BecomesZombie(s)
    /\ UNCHANGED prog

WaitReturns ==
    /\ Alive /\ At("parent", "wait") /\ At("child", "zombie")
    /\ Go("child", "reaped")
    /\ s' = [s EXCEPT !.waited = TRUE, !.end = "returned"]
    /\ UNCHANGED prog

-----------------------------------------------------------------------------
(* signal(): safe_fork installs func() in the parent, after the fork;      *)
(* signal_SIGINT handler1 for SIGINT, then handler3 for SIGTERM (the       *)
(* attempt at SIGKILL in between fails and nobody looks).                  *)

Install(sig, from, to) ==
    /\ Alive /\ At("parent", from) /\ Go("parent", to)
    /\ s' = [s EXCEPT !.handled = @ \cup {sig}]
    /\ UNCHANGED prog

InstallFunc    == prog = "safe_fork" /\ Install("CHLD", "install", "spin")
InstallAndMask == prog = "signal_BLOCKING" /\ Install("INT", "start", "mask")
InstallBoth ==
    /\ prog = "signal_SIGINT"
    /\ Install("INT", "start", "term") \/ Install("TERM", "term", "sleep")

\* sigprocmask(SIG_SETMASK, {SIGINT}).
Mask ==
    /\ Alive /\ At("parent", "mask") /\ Go("parent", "spin")
    /\ s' = [s EXCEPT !.blocked = {"INT"}]
    /\ UNCHANGED prog

\* After sleep(4) the process sends itself SIGINT.
KillSelf ==
    /\ Alive /\ prog = "signal_SIGINT" /\ At("parent", "sleep") /\ Go("parent", "spin")
    /\ s' = [s EXCEPT !.pending = @ \cup {"INT"}]
    /\ UNCHANGED prog

\* The user types ^C, or sends SIGTERM.
UserSignal(sig) ==
    /\ Alive /\ prog \in {"signal_BLOCKING", "signal_SIGINT"}
    /\ sig \notin s.pending
    /\ s' = [s EXCEPT !.pending = @ \cup {sig}]
    /\ UNCHANGED <<prog, pc>>

\* Mutant: a func() that does not wait for the child.
FuncWithoutWait == UNCHANGED pc /\ s' = [s EXCEPT !.pending = @ \ {"CHLD"}]

\* func() of safe_fork waits for one child; handler1 and handler3 call
\* exit(EXIT_SUCCESS).
Func        == Go("child", "reaped") /\ s' = [s EXCEPT !.pending = @ \ {"CHLD"},
                                                     !.waited = TRUE]
ExitHandler == End("success") /\ UNCHANGED pc

\* A signal without a handler kills the process.
Deliver(sig) ==
    /\ Alive /\ sig \in s.pending \ s.blocked
    /\ IF sig \notin s.handled THEN End("killed") /\ UNCHANGED pc
       ELSE IF sig = "CHLD" THEN Func ELSE ExitHandler
    /\ UNCHANGED prog

\* execl() replaces the program by ls, or fails and main() returns.
Exec ==
    /\ Alive /\ prog = "exec" /\ At("parent", "start")
    /\ \E how \in {"ls", "returned"} : End(how)
    /\ UNCHANGED <<prog, pc>>

-----------------------------------------------------------------------------
ProgramSteps ==
    \/ Fork \/ ParentCounts \/ WaitReturns \/ Exec
    \/ InstallFunc \/ InstallAndMask \/ InstallBoth \/ Mask \/ KillSelf

Next ==
    \/ ProgramSteps \/ ChildEnds \/ ChildKilled
    \/ \E sig \in {"INT", "TERM"} : UserSignal(sig)
    \/ \E sig \in Signals : Deliver(sig)

\* Processes run and signals are delivered; nobody makes the user act.
Fairness ==
    /\ WF_vars(ProgramSteps) /\ WF_vars(ChildEnds)
    /\ WF_vars(\E sig \in Signals : Deliver(sig))

Spec == Init /\ [][Next]_vars /\ Fairness

-----------------------------------------------------------------------------
\* What the programs of this module keep has its type.
TypeOK ==
    /\ prog \in Programs
    /\ s.pending \subseteq Signals /\ s.handled \subseteq Signals
    /\ pc["child"] \in {"none", "running", "zombie", "reaped"}
    /\ s.end \in {"no", "fork failed", "killed", "returned", "success", "ls"}

\* A zombie stays only when its SIGCHLD came too early: in safe_fork a child
\* that ends after signal() has its signal pending until func() waits for it
\* (safe-fork/main.c:7-11, 25).
ZombieOnlyIfLate ==
    prog = "safe_fork" /\ At("child", "zombie") => s.late \/ "CHLD" \in s.pending

\* wait() in the handler never waits for a child that is still running.
HandlerNeverWaits == prog \in Programs /\ s.waited => At("child", "reaped")

\* The counter is not shared: each process of fork/main.c counts from 2.
CountersAreCopies ==
    prog \in Programs => \A p \in {"parent", "child"} :
        s.counter[p] = IF prog = "fork" /\ \/ p = "parent" /\ At(p, "spin")
                                           \/ p = "child" /\ At(p, "zombie")
                       THEN 3 ELSE 2

\* Once SIGINT is blocked, signal_BLOCKING ends by SIGTERM only, which it
\* does not handle: exit(EXIT_SUCCESS) is for a ^C before the mask.
BlockedStaysPending ==
    prog = "signal_BLOCKING" /\ At("parent", "spin") => s.end \in {"no", "killed"}

\* No process is left over or waits for another in vain, as said above.
ProcessesAreKept ==
    /\ prog \in Programs => TypeOK
    /\ ZombieOnlyIfLate /\ HandlerNeverWaits /\ CountersAreCopies /\ BlockedStaysPending

\* signal_SIGINT ends without its user: it interrupts itself.
InterruptsItself == prog = "signal_SIGINT" ~> prog \in Programs /\ s.end # "no"
=============================================================================
