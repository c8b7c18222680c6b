---------------------------- MODULE SharedMemory ----------------------------
(***************************************************************************)
(* The programs of src/08-shared-memory: anonymous (a parent and its child *)
(* on one anonymous mapping), posix (writter and reader of file-mapping on *)
(* one shared memory object) and system_v (writter and reader on a segment *)
(* with a key, which the reader removes).                                  *)
(***************************************************************************)
EXTENDS Integers, FiniteSets

CONSTANTS Writers, Readers,    \* processes of posix and of system_v
          MaxSegments          \* bound: segments that shmget() creates

VARIABLES prog, pc, s

vars == <<prog, pc, s>>

Programs == {"anonymous", "posix", "system_v"}
Family    == {"parent", "child"}
Attachers == Writers \cup Readers
Procs     == Attachers \cup Family

\* Texts: nothing (a page of zeros), a line that fgets() has stored in part,
\* a whole line.
Texts    == {"zeros", "part", "line"}
Segments == 1 .. MaxSegments
NoSeg    == 0

\* s.object: the POSIX object; s.view: the private pages of a process.
\* s.key: the segment that has the key; s.seg: the segment a process uses.
Init ==
    /\ prog \in Programs
    /\ pc = [p \in Procs |-> IF p \in Family THEN "none" ELSE "start"]
    /\ s = [object  |-> "none",
            view    |-> [p \in Attachers |-> "zeros"],
            byte    |-> 0,
            key     |-> NoSeg,
            made    |-> 0,
            seg     |-> [p \in Attachers |-> NoSeg],
            text    |-> [g \in Segments |-> "zeros"],
            ready   |-> [p \in Readers |-> FALSE],
            printed |-> [p \in Attachers |-> "nothing"],
            shown   |-> [p \in Family |-> 0]]

At(p, place)       == pc[p] = place
Go(p, place)       == pc' = [pc EXCEPT ![p] = place]
Step(p, from, to)  == At(p, from) /\ Go(p, to)
Here(name)         == prog = name /\ UNCHANGED prog

-----------------------------------------------------------------------------
(* anonymous-mapping/main.c.  The mapping is MAP_SHARED: fork() shares it. *)

MapAndFork ==
    /\ Here("anonymous") /\ At("parent", "none")
    /\ s' = [s EXCEPT !.byte = 65]
    /\ \/ pc' = [pc EXCEPT !["parent"] = "wait", !["child"] = "count"]
       \/ Go("parent", "ended")     \* fork() failed

ChildCounts ==
    /\ Here("anonymous") /\ Step("child", "count", "ended")
    /\ s' = [s EXCEPT !.byte = @ + 1, !.shown["child"] = s.byte + 1]

\* Mutant: a parent that prints without the wait().
ParentPrintsAtOnce ==
    /\ Here("anonymous") /\ Step("parent", "wait", "ended")
    /\ s' = [s EXCEPT !.shown["parent"] = s.byte]

ParentPrints ==
    /\ Here("anonymous") /\ At("child", "ended") /\ Step("parent", "wait", "ended")
    /\ s' = [s EXCEPT !.shown["parent"] = s.byte]

-----------------------------------------------------------------------------
(* file-mapping: the writer creates the object, the reader only opens it.  *)
(* Both give it its size and map it MAP_PRIVATE: a process writes into its *)
(* own copy of the pages.                                                  *)

WriterOpens(w) ==
    /\ Here("posix") /\ Step(w, "start", "truncate")
    /\ s' = [s EXCEPT !.object = IF @ = "none" THEN "empty" ELSE @]

ReaderOpens(r) ==
    /\ Here("posix")
    /\ Step(r, "start", IF s.object = "none" THEN "ended" ELSE "truncate")
    /\ UNCHANGED s

\* ftruncate() and mmap(): the first one fills the object with zeros.
TruncateAndMap(p) ==
    /\ Here("posix") /\ Step(p, "truncate", "use")
    /\ s' = [s EXCEPT !.object = IF @ = "empty" THEN "zeros" ELSE @,
                      !.view[p] = "zeros"]

WriterUses(w) ==
    /\ Here("posix") /\ Step(w, "use", "ended")
    /\ s' = [s EXCEPT !.view[w] = "line", !.printed[w] = "line"]

ReaderUses(r) ==
    /\ Here("posix") /\ Step(r, "use", "ended")
    /\ s' = [s EXCEPT !.printed[r] = s.view[r]]

-----------------------------------------------------------------------------
(* systemV-shared-memory: shmget() with IPC_CREAT, then shmat(), in both.  *)

Attached == {"attached", "typing", "spin", "remove"}
Lives(g) == g = s.key \/ \E p \in Attachers : s.seg[p] = g /\ pc[p] \in Attached
Whole(g) == g # NoSeg /\ s.text[g] = "line"

ShmGet(p) ==
    /\ Here("system_v") /\ Step(p, "start", "attach")
    /\ s.key # NoSeg \/ s.made < MaxSegments
    /\ LET g == IF s.key = NoSeg THEN s.made + 1 ELSE s.key
       IN  s' = [s EXCEPT !.key = g,
                          !.made = IF s.key = NoSeg THEN g ELSE @,
                          !.seg[p] = g]

\* When the segment was removed since shmget() and nobody has it, shmat()
\* returns -1 and the process dies of its first access.
ShmAttach(p) ==
    /\ Here("system_v")
    /\ Step(p, "attach", IF Lives(s.seg[p]) THEN "attached" ELSE "crashed")
    /\ s' = [s EXCEPT !.ready = IF p \in Readers
                                THEN [@ EXCEPT ![p] = Whole(s.seg[p])] ELSE @]

\* fgets() stores the line into the segment and its end mark after it; then
\* the writer spins and stays attached.
FgetsStores(w) ==
    /\ Here("system_v")
    /\ \/ Step(w, "attached", "typing") /\ s' = [s EXCEPT !.text[s.seg[w]] = "part"]
       \/ Step(w, "typing", "spin") /\ s' = [s EXCEPT !.text[s.seg[w]] = "line"]

ReaderPrints(r) ==
    /\ Here("system_v") /\ Step(r, "attached", "remove")
    /\ s' = [s EXCEPT !.printed[r] = s.text[s.seg[r]]]

\* shmdt() and shmctl(IPC_RMID): the segment loses its key at once, and its
\* memory with its last user.
ReaderRemoves(r) ==
    /\ Here("system_v") /\ Step(r, "remove", "ended")
    /\ s' = [s EXCEPT !.key = IF @ = s.seg[r] THEN NoSeg ELSE @]

-----------------------------------------------------------------------------
Steps(p) ==
    \/ TruncateAndMap(p) \/ ShmGet(p) \/ ShmAttach(p)
    \/ p \in Writers /\ (WriterOpens(p) \/ WriterUses(p) \/ FgetsStores(p))
    \/ p \in Readers /\ \/ ReaderOpens(p) \/ ReaderUses(p)
                        \/ ReaderPrints(p) \/ ReaderRemoves(p)
FamilySteps == MapAndFork \/ ChildCounts \/ ParentPrints

Next == FamilySteps \/ \E p \in Attachers : Steps(p)

Fairness == WF_vars(FamilySteps)

Spec == Init /\ [][Next]_vars /\ Fairness

-----------------------------------------------------------------------------
\* What the programs of this module keep has its type.
TypeOK ==
    /\ prog \in Programs
    /\ s.object \in {"none", "empty", "zeros"}
    /\ s.view \in [Attachers -> Texts]
    /\ s.text \in [Segments -> Texts]
    /\ s.key \in 0 .. MaxSegments /\ s.made \in 0 .. MaxSegments
    /\ s.seg \in [Attachers -> 0 .. MaxSegments]

\* The parent of anonymous-mapping prints what its child printed: the byte is
\* shared, and wait() comes before the look at it (main.c:26-33).
ParentSeesChild ==
    prog = "anonymous" /\ s.shown["parent"] # 0 => s.shown["parent"] = s.shown["child"]

\* No reader of file-mapping ever prints what a writer wrote, in whatever
\* order they run: the mappings are private (writter.c:83, reader.c:83).
PrivateStaysPrivate ==
    prog = "posix" => \A r \in Readers : s.printed[r] \in {"nothing", "zeros"}

\* A reader of systemV-shared-memory that attaches after a writer has stored
\* its line prints a whole line, unless a second writer stores into the same
\* segment: a reader that removes the segment in between does not take it
\* away from those that have it (reader.c:37-85).
AttachedIsKept ==
    prog = "system_v" => \A r \in Readers :
        s.ready[r] /\ s.printed[r] # "nothing" =>
            \/ s.printed[r] = "line"
            \/ Cardinality({w \in Writers : /\ s.seg[w] = s.seg[r]
                                            /\ pc[w] \in {"typing", "spin"}}) > 1

\* Only a process whose segment was removed between its shmget() and its
\* shmat() fails to attach.
CrashedByRemoval ==
    prog = "system_v" => \A p \in Attachers :
        At(p, "crashed") =>
            /\ s.seg[p] # s.key
            /\ \E r \in Readers : s.seg[r] = s.seg[p] /\ At(r, "ended")

\* What is said above of each program.
MemoryIsKept ==
    /\ prog \in Programs => TypeOK
    /\ ParentSeesChild /\ PrivateStaysPrivate /\ AttachedIsKept /\ CrashedByRemoval
=============================================================================
