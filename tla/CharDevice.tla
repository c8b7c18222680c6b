----------------------------- MODULE CharDevice -----------------------------
(***************************************************************************)
(* src/11-kernel-module-basic: the module of 01-major-minor to             *)
(* 05-fops-ioctl (hello.c), which gains a step with each exercise, and the *)
(* processes that use its device file (test_app.c).  Memory and offsets    *)
(* are counted in units of 1024 bytes.                                     *)
(***************************************************************************)
EXTENDS Integers, Sequences, SequencesExt

CONSTANTS Apps,         \* processes that open the device file
          Page,         \* NPAGES * PAGE_SIZE, in units
          MaxLoads      \* how often the module is loaded (bounds the model)

VARIABLES prog, pc, s

vars == <<prog, pc, s>>

Programs  == {"major_minor", "device_file", "file_operations", "fops_rw", "fops_ioctl"}
HasCdev   == {"file_operations", "fops_rw", "fops_ioctl"}
HasMemory == {"fops_rw", "fops_ioctl"}

\* What hello_world_init() takes in each exercise, in its order.
MajorMinor     == <<"region">>
DeviceFile     == <<"region", "class", "device">>
FileOperations == <<"region", "cdev", "class", "device">>
FopsRw         == FileOperations \o <<"memory">>

Stages ==
    CASE prog = "major_minor" -> MajorMinor
      [] prog = "device_file" -> DeviceFile
      [] prog = "file_operations" -> FileOperations
      [] OTHER -> FopsRw

KernelSide == "module"
ReadSize   == 1         \* what test_app asks for
Nobody     == "nobody"

\* s.have: what this load of the module holds.  s.regions: the device numbers
\* that are registered, by earlier loads too; s.stale: a cdev that a load has
\* left in the map.  s.last wrote the page; up to s.size it counts.
Init ==
    /\ prog \in Programs
    /\ pc = [p \in Apps \cup {KernelSide} |-> IF p = KernelSide THEN "absent" ELSE "closed"]
    /\ s = [have   |-> {},
            stage  |-> 1,
            loads  |-> 0,
            exits  |-> 0,
            regions |-> 0,
            stale  |-> FALSE,
            size   |-> 0,
            last   |-> Nobody,
            value  |-> Nobody,
            offset |-> [a \in Apps |-> 0],
            got    |-> [a \in Apps |-> "none"],
            number |-> [a \in Apps |-> Nobody]]

Up == prog \in Programs /\ pc[KernelSide] # "down" /\ UNCHANGED prog
Step(p, from, to) == Up /\ pc[p] = from /\ pc' = [pc EXCEPT ![p] = to]

-----------------------------------------------------------------------------
(* insmod and rmmod.                                                       *)

Insmod ==
    /\ Step(KernelSide, "absent", "loading") /\ s.loads < MaxLoads
    /\ s' = [s EXCEPT !.loads = @ + 1, !.stage = 1, !.size = 0,
                      !.last = Nobody, !.value = Nobody]

\* Mutant: class_destroy() after the wrong label.
UndoAllButClass ==
    [s EXCEPT !.have = @ \cap {"class"}, !.stale = @ \/ "cdev" \in s.have,
              !.regions = @ - (IF "region" \in s.have THEN 1 ELSE 0)]

\* The labels of hello_world_init(): each falls through to the next.  None of
\* them deletes the cdev.
Undo ==
    [s EXCEPT !.have = {}, !.stale = @ \/ "cdev" \in s.have,
              !.regions = @ - (IF "region" \in s.have THEN 1 ELSE 0)]

\* After the last stage the module is live.  device_create() without a class
\* breaks the kernel.
NextStage ==
    Step(KernelSide, "loading",
         CASE Stages[s.stage] = "device" /\ "class" \notin s.have -> "down"
           [] s.stage = Len(Stages) -> "live"
           [] OTHER -> "loading")

StageSucceeds ==
    /\ NextStage
    /\ s' = [s EXCEPT !.have = @ \cup {Stages[s.stage]}, !.stage = @ + 1,
                      !.regions = @ + (IF Stages[s.stage] = "region" THEN 1 ELSE 0)]

\* class_create() and device_create() answer a failure with an error pointer,
\* which is not NULL: the module goes on as if it had them.
StageFailsUnseen ==
    /\ NextStage
    /\ Stages[s.stage] \in {"class", "device"}
    /\ s' = [s EXCEPT !.stage = @ + 1]

\* A failed load goes away under the files that were opened meanwhile.
StageFails ==
    /\ Up /\ pc[KernelSide] = "loading" /\ Stages[s.stage] \in {"region", "cdev", "memory"}
    /\ pc' = [p \in DOMAIN pc |-> IF p = KernelSide THEN "absent"
                                  ELSE IF pc[p] = "open" THEN "lost" ELSE pc[p]]
    /\ s' = Undo

\* 01 and 02 release the one device number that they have.  From 03 on the exit
\* asks to release three where one was allocated, which releases none.
ReleasedNumbers == IF prog \in HasCdev THEN 0 ELSE 1

\* rmmod is refused while a file is open: .owner counts them.
Rmmod ==
    /\ Step(KernelSide, "live", "absent")
    /\ \A a \in Apps : pc[a] # "open"
    /\ s' = [s EXCEPT !.have = {}, !.exits = @ + 1,
                      !.regions = @ - ReleasedNumbers]

-----------------------------------------------------------------------------
(* The device file.  It works from the moment device_create() has made it, *)
(* before hello_world_init() is through.                                   *)

Open(a) ==
    /\ Step(a, "closed", "open") /\ {"cdev", "device"} \subseteq s.have
    /\ UNCHANGED s

\* close() or the end of the process: what it wrote is somebody else's now.
CloseFile(a) ==
    /\ Step(a, "open", "closed")
    /\ s' = [s EXCEPT !.last = IF @ = a THEN Nobody ELSE @, !.offset[a] = 0,
                      !.got[a] = "none", !.number[a] = Nobody]

Calls(a) == Up /\ pc[a] = "open"

\* 03-file-operations reads nothing and accepts everything.
ReadNothing(a) ==
    /\ Calls(a) /\ prog = "file_operations" /\ UNCHANGED pc
    /\ s' = [s EXCEPT !.got[a] = "nothing"]

\* An offset beyond the size, which another process made smaller, gives a
\* negative number that is compared without its sign: the read is not cut.
ReadFile(a) ==
    /\ Calls(a) /\ prog \in HasMemory /\ s.offset[a] <= Page
    /\ LET left    == s.size - s.offset[a]
           to_read == IF left >= 0 /\ ReadSize > left THEN left ELSE ReadSize
       IN s' = [s EXCEPT !.offset[a] = @ + to_read,
                         !.got[a] = CASE left < 0 -> "beyond"
                                      [] to_read = 0 -> "nothing"
                                      [] OTHER -> s.last]
    /\ UNCHANGED pc

\* The page is cleared, then filled from the offset on; the size is the end of
\* this write.
WriteFile(a) ==
    /\ Calls(a) /\ prog \in HasMemory /\ "memory" \in s.have /\ s.offset[a] < Page
    /\ s' = [s EXCEPT !.offset[a] = @ + 1, !.size = s.offset[a] + 1, !.last = a]
    /\ UNCHANGED pc

\* At the end of the page nothing is left to fill, and the page is still
\* cleared.  Beyond it the copy fails after the page was cleared.
WriteFull(a) ==
    /\ Calls(a) /\ prog \in HasMemory /\ "memory" \in s.have /\ s.offset[a] >= Page
    /\ s' = [s EXCEPT !.size = IF s.offset[a] = Page THEN Page ELSE @,
                      !.last = IF s.offset[a] = Page THEN a ELSE Nobody]
    /\ UNCHANGED pc

\* 04-fops-rw clears a page where it has 1024 bytes: what lay behind them may
\* be the kernel's.  Before kmalloc() there is no page at all.
WriteBreaks(a) ==
    /\ Calls(a) /\ prog \in HasMemory
    /\ prog = "fops_rw" \/ "memory" \notin s.have
    /\ pc' = [pc EXCEPT ![KernelSide] = "down"]
    /\ UNCHANGED s

Ioctl(a) ==
    /\ Calls(a) /\ prog = "fops_ioctl" /\ UNCHANGED pc
    /\ \/ s' = [s EXCEPT !.value = a]
       \/ s' = [s EXCEPT !.number[a] = s.value]

FileCalls(a) ==
    \/ Open(a) \/ CloseFile(a) \/ ReadNothing(a) \/ ReadFile(a)
    \/ WriteFile(a) \/ WriteFull(a) \/ WriteBreaks(a) \/ Ioctl(a)

Next ==
    \/ Insmod \/ StageSucceeds \/ StageFailsUnseen \/ StageFails \/ Rmmod
    \/ \E a \in Apps : FileCalls(a)

Fairness == TRUE

Spec == Init /\ [][Next]_vars /\ Fairness

-----------------------------------------------------------------------------
\* What the programs of this module keep has its type.
TypeOK ==
    /\ prog \in Programs
    /\ s.have \subseteq {"region", "cdev", "class", "device", "memory"}
    /\ s.size \in 0 .. Page
    /\ s.last \in Apps \cup {Nobody}

\* A module that is not loaded holds nothing, whichever step of its load has
\* failed.  What stays behind is the number that each normal exit of 03 to 05
\* does not release (05-fops-ioctl/hello.c:185) and, after a failed kmalloc(),
\* a cdev (05-fops-ioctl/hello.c:163-174).
NothingStays ==
    /\ pc[KernelSide] = "absent" =>
          s.have = {} /\ s.regions = IF prog \in HasCdev THEN s.exits ELSE 0
    /\ s.stale => prog \in HasCdev /\ s.exits < s.loads

\* No code of a live module goes away under an open file: only a load that
\* fails after the device file was there does that.
OpenKeepsModule ==
    \A a \in Apps :
        /\ pc[a] = "open" => pc[KernelSide] # "absent"
        /\ pc[a] = "lost" => s.stale

\* Who wrote last stands at the end of what counts: option 2 after option 1 of
\* test_app shows nothing of what it just wrote (05-fops-ioctl/hello.c:73, 99),
\* and to read beyond the size takes another writer in between.
LastWriterIsAtEnd ==
    \A a \in Apps :
        /\ s.last = a => s.offset[a] = s.size
        /\ s.got[a] # a

DeviceIsSound ==
    prog \in Programs => TypeOK /\ NothingStays /\ OpenKeepsModule /\ LastWriterIsAtEnd
=============================================================================
