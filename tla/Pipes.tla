------------------------------- MODULE Pipes -------------------------------
(***************************************************************************)
(* The programs of src/07-pipes-FIFOs: pipe, related_pipe and the producer *)
(* and consumer of named_pipe.  s.data is what is in the pipe, in order,   *)
(* one entry per write(): no write is longer than PIPE_BUF, so none is     *)
(* torn.  s.readers and s.writers are the processes that have an end open. *)
(***************************************************************************)
EXTENDS Integers, Sequences, SequencesExt

CONSTANT MaxTyped     \* bound: messages the user types into producer

VARIABLES prog, pc, s

vars == <<prog, pc, s>>

Programs == {"pipe", "related_pipe", "named_pipe"}
Garbage  == 0         \* what a buffer holds that nothing was read into
Procs    == {"first", "second"}
NumMsgs  == 3         \* msg1 .. msg3 of related_pipe

\* first is main() of pipe, the parent of related_pipe, or the producer;
\* second is the child or the consumer.
Init ==
    /\ prog \in Programs
    /\ pc = [first  |-> "start",
             second |-> IF prog = "named_pipe" THEN "open" ELSE "none"]
    /\ s = [data |-> <<>>, readers |-> {}, writers |-> {},
            sent |-> 0, typed |-> 0, buf |-> Garbage, shown |-> <<>>,
            interrupts |-> 0, reaped |-> FALSE]

At(p, place) == pc[p] = place
Go(p, place) == pc' = [pc EXCEPT ![p] = place]
Here(name)   == prog = name /\ UNCHANGED prog

\* close(): what is in the pipe goes with the last process that has it open.
Closed(t, p) ==
    LET r == t.readers \ {p}
        w == t.writers \ {p}
    IN  [t EXCEPT !.readers = r, !.writers = w,
                  !.data = IF r \cup w = {} THEN <<>> ELSE @]

\* Mutant: a read() that is given room for all messages at once.
ShowingFirstOfAll(t, all) ==
    LET got == IF t.data = <<>> THEN t.buf ELSE Head(t.data)
    IN  [t EXCEPT !.buf = got, !.shown = Append(@, got), !.data = <<>>]

\* A read() of all there is.  printf("%s") shows the first message of it: a
\* message ends with its null character.
Showing(t, all) ==
    LET got == IF t.data = <<>> THEN t.buf ELSE Head(t.data)
    IN  [t EXCEPT !.buf = got, !.shown = Append(@, got),
                  !.data = IF all \/ @ = <<>> THEN <<>> ELSE Tail(@)]

-----------------------------------------------------------------------------
(* pipe/main.c: main() reads from its own pipe; only its handler of SIGINT *)
(* writes.  read() is restarted after the handler.                         *)

InstallHandler ==
    /\ Here("pipe") /\ At("first", "start") /\ Go("first", "create")
    /\ UNCHANGED s

CreatePipe ==
    /\ Here("pipe") /\ At("first", "create") /\ Go("first", "read")
    /\ s' = [s EXCEPT !.readers = {"first"}, !.writers = {"first"}]

\* Before signal() a ^C kills the process; before pipe() the handler writes
\* to descriptor 0, which is not the pipe.
Interrupt ==
    /\ Here("pipe") /\ pc["first"] \notin {"killed", "ended"}
    /\ s.interrupts < MaxTyped
    /\ IF At("first", "start")
       THEN Go("first", "killed")
       ELSE UNCHANGED pc
    /\ s' = [s EXCEPT !.interrupts = @ + 1,
                      !.data = IF At("first", "read") THEN Append(@, 4) ELSE @]

ReadOwnPipe ==
    /\ Here("pipe") /\ At("first", "read") /\ s.data # <<>> /\ Go("first", "ended")
    /\ s' = Showing(s, FALSE)

-----------------------------------------------------------------------------
(* related_pipe/main.c: the parent writes three messages, the child reads  *)
(* until the end of the pipe.                                              *)

ForkReader ==
    /\ Here("related_pipe") /\ At("first", "start")
    /\ \/ /\ pc' = [first |-> "closeRead", second |-> "read"]
          /\ s' = [s EXCEPT !.readers = Procs, !.writers = Procs]
       \/ Go("first", "ended") /\ UNCHANGED s

CloseReadEnd ==
    /\ Here("related_pipe") /\ At("first", "closeRead") /\ Go("first", "write")
    /\ s' = [s EXCEPT !.readers = @ \ {"first"}]

\* write(): SIGPIPE kills a writer when nobody has the pipe open for reading.
WriteNext ==
    /\ Here("related_pipe") /\ At("first", "write") /\ s.sent < NumMsgs
    /\ IF s.readers = {}
       THEN Go("first", "killed") /\ UNCHANGED s
       ELSE /\ s' = [s EXCEPT !.data = Append(@, s.sent + 1), !.sent = @ + 1]
            /\ UNCHANGED pc

CloseWriteEnd ==
    /\ Here("related_pipe") /\ At("first", "write") /\ s.sent = NumMsgs
    /\ Go("first", "spin")
    /\ s' = [s EXCEPT !.writers = @ \ {"first"}]

ChildReads ==
    /\ Here("related_pipe") /\ At("second", "read")
    /\ \/ s.data # <<>> /\ s' = Showing(s, FALSE) /\ UNCHANGED pc
       \/ s.data = <<>> /\ s.writers = {} /\ Go("second", "sawEnd") /\ UNCHANGED s

\* The user kills the child; func() then waits for it, if it is installed.
ChildKilled ==
    /\ Here("related_pipe") /\ At("second", "read") /\ Go("second", "killed")
    /\ s' = [Closed(s, "second") EXCEPT !.reaped = ~At("first", "closeRead")]

-----------------------------------------------------------------------------
(* named_pipe: opening a FIFO waits for somebody at the other end.         *)

Type ==
    /\ Here("named_pipe") /\ At("first", "start") /\ s.typed < MaxTyped
    /\ Go("first", "open")
    /\ s' = [s EXCEPT !.typed = @ + 1]

\* The two open() calls meet: each waits until the other end is being opened.
BothOpen ==
    /\ Here("named_pipe") /\ At("first", "open") /\ At("second", "open")
    /\ s.readers = {} /\ s.writers = {}
    /\ pc' = [first |-> "write", second |-> "read"]
    /\ s' = [s EXCEPT !.writers = {"first"}, !.readers = {"second"}]

ProducerOpens ==
    /\ Here("named_pipe") /\ At("first", "open") /\ s.readers # {} /\ Go("first", "write")
    /\ s' = [s EXCEPT !.writers = {"first"}]

ConsumerOpens ==
    /\ Here("named_pipe") /\ At("second", "open") /\ s.writers # {} /\ Go("second", "read")
    /\ s' = [s EXCEPT !.readers = {"second"}]

ProducerWrites ==
    /\ Here("named_pipe") /\ At("first", "write")
    /\ IF s.readers = {}
       THEN Go("first", "killed") /\ s' = Closed(s, "first")
       ELSE Go("first", "close") /\ s' = [s EXCEPT !.data = Append(@, s.typed)]

ProducerCloses ==
    /\ Here("named_pipe") /\ At("first", "close") /\ Go("first", "start")
    /\ s' = Closed(s, "first")

\* read() waits for data as long as there is a writer; at the end of the pipe
\* it leaves the buffer as it was, and the consumer prints it all the same.
ConsumerReads ==
    /\ Here("named_pipe") /\ At("second", "read")
    /\ s.data # <<>> \/ s.writers = {}
    /\ Go("second", "close")
    /\ s' = Showing(s, TRUE)

ConsumerCloses ==
    /\ Here("named_pipe") /\ At("second", "close") /\ Go("second", "open")
    /\ s' = Closed(s, "second")

-----------------------------------------------------------------------------
PipeSteps == InstallHandler \/ CreatePipe \/ ReadOwnPipe
RelatedSteps ==
    ForkReader \/ CloseReadEnd \/ WriteNext \/ CloseWriteEnd \/ ChildReads
FifoSteps ==
    \/ BothOpen \/ ProducerOpens \/ ConsumerOpens
    \/ ProducerWrites \/ ProducerCloses \/ ConsumerReads \/ ConsumerCloses

Next == PipeSteps \/ Interrupt \/ RelatedSteps \/ ChildKilled \/ FifoSteps \/ Type

\* The processes run; nobody makes the user type, interrupt or kill.
Fairness == WF_vars(PipeSteps) /\ WF_vars(RelatedSteps) /\ WF_vars(ChildReads)
            /\ WF_vars(FifoSteps)

Spec == Init /\ [][Next]_vars /\ Fairness

-----------------------------------------------------------------------------
\* What the programs of this module keep has its type.
TypeOK ==
    /\ prog \in Programs
    /\ s.readers \subseteq Procs /\ s.writers \subseteq Procs
    /\ s.typed \in 0 .. MaxTyped /\ s.sent \in 0 .. NumMsgs
    /\ \A i \in DOMAIN s.data : s.data[i] \in 1 .. (MaxTyped + 4)

\* The child of related_pipe shows the parent's messages whole and in order,
\* and none of them twice; it never sees the end of the pipe, because it
\* keeps the write end it was born with (related_pipe/main.c:39-55).
ChildShowsPrefix ==
    prog = "related_pipe" =>
        /\ \A i \in DOMAIN s.shown : s.shown[i] = i
        /\ s.shown \o s.data = [i \in 1 .. s.sent |-> i] \/ At("second", "killed")
        /\ ~At("second", "sawEnd")

\* What the consumer of named_pipe prints was typed, and in the order of
\* typing.  A message may be missing (two were read at once, or the FIFO was
\* closed at both ends before it was read) or come twice (the consumer opened
\* the FIFO before the producer had closed it), never three times
\* (named_pipe/consumer.c:22-28).
FifoKeepsOrder ==
    prog = "named_pipe" =>
        /\ \A i \in DOMAIN s.shown : s.shown[i] \in 1 .. s.typed
        /\ \A i \in 2 .. Len(s.shown) : s.shown[i - 1] <= s.shown[i]
        /\ \A i \in 3 .. Len(s.shown) : s.shown[i - 2] < s.shown[i]

\* main() of pipe ends only with the message of its handler.
OnlyHandlerEndsPipe ==
    prog = "pipe" /\ At("first", "ended") => s.shown = <<4>> /\ s.interrupts > 0

\* What is said above of each program.
PipesKeepMessages ==
    /\ prog \in Programs => TypeOK
    /\ ChildShowsPrefix /\ FifoKeepsOrder /\ OnlyHandlerEndsPipe

\* As long as nobody kills the child it shows all three messages.
ChildShowsAll ==
    prog = "related_pipe" ~>
        /\ prog \in Programs
        /\ Len(s.shown) = NumMsgs \/ At("second", "killed") \/ At("first", "ended")
=============================================================================
