-------------------------- MODULE Exchange_proofs ---------------------------
(***************************************************************************)
(* The exercises that hand data from one process to another - pipes and    *)
(* FIFOs, shared memory, sockets - for every set of processes and every    *)
(* value of the constants.                                                 *)
(***************************************************************************)
EXTENDS Exercises_proofs

-----------------------------------------------------------------------------
(* The pipes.  The numbers in related_pipe follow on those that are shown;  *)
(* those in a FIFO are typed later than the last one that is shown, and the *)
(* consumer shows a number again only once.                                 *)

PipePlaces ==
    {"none", "start", "create", "read", "killed", "ended", "closeRead", "write", "spin", "sawEnd",
     "open", "close"}

\* What a message may be: a number that was typed, msg1 to msg3, or 4.
Messages == 1 .. (MaxTyped + 4)
Shown    == 0 .. (MaxTyped + 4)

PipeState ==
    [data : Seq(Messages), readers : SUBSET Pi!Procs, writers : SUBSET Pi!Procs,
     sent : 0 .. 3, typed : 0 .. MaxTyped, buf : Shown,
     shown : Seq(Shown), interrupts : Nat, reaped : BOOLEAN]

PipeTypes ==
    /\ prog \in Pi!Programs
    /\ pc \in [Pi!Procs -> PipePlaces]
    /\ s \in PipeState

InPipe ==
    /\ \A i \in DOMAIN s.data : s.data[i] = 4
    /\ s.data # <<>> => s.interrupts > 0
    /\ IF pc["first"] = "ended" THEN s.shown = <<4>> /\ s.interrupts > 0 ELSE s.shown = <<>>

Follows ==
    /\ Len(s.shown) + Len(s.data) = s.sent
    /\ \A i \in 1 .. Len(s.data) : s.data[i] = Len(s.shown) + i

InRelated ==
    /\ \A i \in 1 .. Len(s.shown) : s.shown[i] = i
    /\ pc["second"] \in {"none", "read", "killed"}
    /\ pc["second"] = "read" => "second" \in s.writers
    /\ pc["second"] # "killed" => Follows
    /\ pc["first"] = "start" => pc["second"] = "none"

\* What is shown last is shown for the first time.
Fresh ==
    /\ Len(s.shown) > 0
    /\ Len(s.shown) > 1 => s.shown[Len(s.shown) - 1] < s.shown[Len(s.shown)]

FifoEnds ==
    /\ s.writers = IF pc["first"] \in {"write", "close"} THEN {"first"} ELSE {}
    /\ s.readers = IF pc["second"] \in {"read", "close"} THEN {"second"} ELSE {}

FifoData ==
    /\ \A i \in 1 .. Len(s.data) : s.data[i] \in (s.buf + 1) .. s.typed
    /\ s.buf <= s.typed
    /\ pc["first"] \in {"open", "write"} =>
          s.buf < s.typed /\ \A i \in 1 .. Len(s.data) : s.data[i] < s.typed

FifoShown ==
    /\ s.buf = IF Len(s.shown) = 0 THEN 0 ELSE s.shown[Len(s.shown)]
    /\ \A i \in 1 .. Len(s.shown) : s.shown[i] \in 1 .. s.typed
    /\ \A i \in 2 .. Len(s.shown) : s.shown[i - 1] <= s.shown[i]
    /\ \A i \in 3 .. Len(s.shown) : s.shown[i - 2] < s.shown[i]

InFifo ==
    /\ pc["first"] \in {"start", "open", "write", "close", "killed"}
    /\ pc["second"] \in {"open", "read", "close"}
    /\ FifoEnds /\ FifoData /\ FifoShown
    /\ s.data = <<>> /\ (pc["first"] = "close" \/ (pc["second"] = "read" /\ pc["first"] # "write"))
          => Fresh

PipesInv ==
    /\ PipeTypes
    /\ prog = "pipe" => InPipe
    /\ prog = "related_pipe" => InRelated
    /\ prog = "named_pipe" => InFifo

LEMMA AppendIs ==
  ASSUME NEW S, NEW q \in Seq(S), NEW e \in S
  PROVE  /\ Append(q, e) \in Seq(S) /\ Append(q, e) # <<>>
         /\ Len(q) \in Nat /\ Len(Append(q, e)) = Len(q) + 1
         /\ \A i \in 1 .. Len(q) : Append(q, e)[i] = q[i]
         /\ Append(q, e)[Len(q) + 1] = e
  OBVIOUS

LEMMA TailIs ==
  ASSUME NEW S, NEW q \in Seq(S), q # <<>>
  PROVE  /\ Head(q) = q[1] /\ q[1] \in S /\ Len(q) \in Nat /\ Len(q) > 0
         /\ Tail(q) \in Seq(S) /\ Len(Tail(q)) = Len(q) - 1
         /\ \A i \in 1 .. Len(q) - 1 : Tail(q)[i] = q[i + 1]
  OBVIOUS

LEMMA PipeNumbers ==
  /\ MaxTyped \in Nat \ {0} /\ Pi!Procs = {"first", "second"}
  /\ 4 \in Messages
  /\ \A n \in 0 .. MaxTyped : n # 0 => n \in Messages
  /\ \A n \in 1 .. 3 : n \in Messages /\ n \in Shown
  /\ 0 \in Shown /\ Messages \subseteq Shown
  BY ExercisesAssumption DEF Pi!Procs, Messages, Shown

\* The message that a read() of the pipe shows.
Got(t) == IF t.data = <<>> THEN t.buf ELSE t.data[1]

LEMMA ShowingIs ==
  ASSUME NEW t \in PipeState, NEW all \in BOOLEAN
  PROVE  LET u == Pi!Showing(t, all)
         IN  /\ u \in PipeState /\ u.buf = Got(t) /\ u.shown = Append(t.shown, Got(t))
             /\ u.data = IF all \/ t.data = <<>> THEN <<>> ELSE Tail(t.data)
             /\ u.readers = t.readers /\ u.writers = t.writers /\ u.sent = t.sent
             /\ u.typed = t.typed /\ u.interrupts = t.interrupts
             /\ Got(t) \in Shown /\ t.shown \in Seq(Shown)
             /\ t.data \in Seq(Messages)
<1> DEFINE got == Got(t)
           d   == IF all \/ t.data = <<>> THEN <<>> ELSE Tail(t.data)
<1>1. /\ t.data \in Seq(Messages) /\ t.shown \in Seq(Shown)
      /\ t.buf \in Shown
  BY DEF PipeState
<1>2. got \in Shown /\ d \in Seq(Messages)
      /\ got = IF t.data = <<>> THEN t.buf ELSE Head(t.data)
  <2>1. CASE t.data = <<>>
    BY <1>1, <2>1 DEF Got
  <2>2. CASE t.data # <<>>
    <3>1. /\ Head(t.data) = t.data[1] /\ t.data[1] \in Messages
          /\ Tail(t.data) \in Seq(Messages) /\ <<>> \in Seq(Messages)
      BY <1>1, <2>2, TailIs
    <3>2. t.data[1] \in Shown
      BY <3>1, PipeNumbers
    <3> QED
      BY <2>2, <3>1, <3>2 DEF Got
  <2> QED
    BY <2>1, <2>2
<1>3. Append(t.shown, got) \in Seq(Shown)
  BY <1>1, <1>2, AppendIs
<1>4. Pi!Showing(t, all) = [t EXCEPT !.buf = got, !.shown = Append(@, got), !.data = d]
  BY <1>2 DEF Pi!Showing
<1> HIDE DEF d, got
<1> QED
  <2>1. Pi!Showing(t, all) = [t EXCEPT !.buf = got, !.shown = Append(t.shown, got), !.data = d]
    BY <1>4 DEF PipeState
  <2>2. Pi!Showing(t, all) \in PipeState
    BY <1>2, <1>3, <2>1 DEF PipeState
  <2>3. LET u == Pi!Showing(t, all)
        IN  /\ u.buf = got /\ u.shown = Append(t.shown, got) /\ u.data = d
            /\ u.readers = t.readers /\ u.writers = t.writers /\ u.sent = t.sent
            /\ u.typed = t.typed /\ u.interrupts = t.interrupts
    BY <2>1 DEF PipeState
  <2> QED
    BY <1>1, <1>2, <2>2, <2>3 DEF d, got

LEMMA ClosedIs ==
  ASSUME NEW t \in PipeState, NEW p \in Pi!Procs
  PROVE  LET u == Pi!Closed(t, p)
         IN  /\ u \in PipeState /\ u.readers = t.readers \ {p} /\ u.writers = t.writers \ {p}
             /\ u.data = IF (t.readers \ {p}) \cup (t.writers \ {p}) = {} THEN <<>> ELSE t.data
             /\ u.buf = t.buf /\ u.shown = t.shown /\ u.sent = t.sent
             /\ u.typed = t.typed /\ u.interrupts = t.interrupts
<1> DEFINE r == t.readers \ {p}
           w == t.writers \ {p}
           e == IF r \cup w = {} THEN <<>> ELSE t.data
<1>1. Pi!Closed(t, p) = [t EXCEPT !.readers = r, !.writers = w, !.data = e]
  BY DEF Pi!Closed, PipeState
<1>2. r \in SUBSET Pi!Procs /\ w \in SUBSET Pi!Procs /\ e \in Seq(Messages)
  <2>1. t.data \in Seq(Messages) /\ <<>> \in Seq(Messages)
    BY DEF PipeState
  <2> QED
    BY <2>1 DEF PipeState
<1>3. e = IF r \cup w = {} THEN <<>> ELSE t.data
  OBVIOUS
<1> HIDE DEF r, w, e
<1>4. Pi!Closed(t, p) \in PipeState
  BY <1>1, <1>2 DEF PipeState
<1>5. LET u == Pi!Closed(t, p)
      IN  /\ u.readers = r /\ u.writers = w /\ u.data = e
          /\ u.buf = t.buf /\ u.shown = t.shown /\ u.sent = t.sent
          /\ u.typed = t.typed /\ u.interrupts = t.interrupts
  BY <1>1 DEF PipeState
<1> QED
  BY <1>3, <1>4, <1>5 DEF r, w

LEMMA PipesStart == Pi!Init => PipesInv
<1> SUFFICES ASSUME Pi!Init PROVE PipesInv
  OBVIOUS
<1>1. /\ prog \in Pi!Programs
      /\ pc["first"] = "start" /\ pc["second"] \in {"open", "none"}
      /\ prog = "named_pipe" => pc["second"] = "open"
      /\ prog = "related_pipe" => pc["second"] = "none"
  BY DEF Pi!Init
<1>2. pc \in [Pi!Procs -> PipePlaces]
  BY PipeNumbers DEF Pi!Init, PipePlaces
<1>3. s \in PipeState
  <2>1. /\ <<>> \in Seq(Messages) /\ <<>> \in Seq(Shown)
        /\ 0 \in Shown /\ 0 \in 0 .. MaxTyped
    BY PipeNumbers
  <2> QED
    BY <2>1 DEF Pi!Init, PipeState, Pi!Garbage
<1>4. /\ s.data = <<>> /\ s.shown = <<>> /\ s.readers = {} /\ s.writers = {}
      /\ s.sent = 0 /\ s.typed = 0 /\ s.buf = 0
  BY DEF Pi!Init, Pi!Garbage
<1>5. InPipe
  BY <1>1, <1>4 DEF InPipe
<1>6. prog = "related_pipe" => InRelated
  BY <1>1, <1>4 DEF InRelated, Follows
<1>7. prog = "named_pipe" => InFifo
  BY <1>1, <1>4 DEF InFifo, FifoEnds, FifoData, FifoShown, Fresh
<1> QED
  BY <1>1, <1>2, <1>3, <1>5, <1>6, <1>7 DEF PipesInv, PipeTypes

LEMMA PipeMoves ==
  ASSUME PipeTypes, NEW p \in Pi!Procs, NEW to \in PipePlaces, Pi!Go(p, to)
  PROVE  /\ pc'[p] = to /\ pc' \in [Pi!Procs -> PipePlaces]
         /\ \A q \in Pi!Procs : q # p => pc'[q] = pc[q]
  BY DEF Pi!Go, PipeTypes

LEMMA PipeStep ==
  ASSUME PipesInv, \/ Pi!PipeSteps
                   \/ Pi!Interrupt
  PROVE  PipesInv'
<1>1. prog = "pipe" /\ prog' = prog /\ InPipe /\ PipeTypes /\ s \in PipeState
      /\ "first" \in Pi!Procs /\ {"create", "read", "ended", "killed"} \subseteq PipePlaces
  BY PipeNumbers
  DEF Pi!PipeSteps, Pi!InstallHandler, Pi!CreatePipe, Pi!ReadOwnPipe, Pi!Interrupt, Pi!Here,
      PipesInv, PipeTypes, PipePlaces
<1>2. ASSUME pc' \in [Pi!Procs -> PipePlaces], s' \in PipeState, InPipe' PROVE PipesInv'
  BY <1>1, <1>2 DEF PipesInv, PipeTypes
<1>3. CASE Pi!InstallHandler
  <2>1. pc["first"] = "start" /\ pc'["first"] = "create" /\ pc' \in [Pi!Procs -> PipePlaces]
    BY <1>1, <1>3, PipeMoves DEF Pi!InstallHandler, Pi!At
  <2> QED
    BY <1>1, <1>2, <1>3, <2>1 DEF Pi!InstallHandler, InPipe
<1>4. CASE Pi!CreatePipe
  <2>1. pc["first"] = "create" /\ pc'["first"] = "read" /\ pc' \in [Pi!Procs -> PipePlaces]
    BY <1>1, <1>4, PipeMoves DEF Pi!CreatePipe, Pi!At
  <2>2. s' = [s EXCEPT !.readers = {"first"}, !.writers = {"first"}]
    BY <1>4 DEF Pi!CreatePipe
  <2>3. s' \in PipeState /\ s'.data = s.data /\ s'.shown = s.shown /\ s'.interrupts = s.interrupts
    BY <1>1, <2>2 DEF PipeState
  <2> QED
    BY <1>1, <1>2, <2>1, <2>3 DEF InPipe
<1>5. CASE Pi!ReadOwnPipe
  <2>1. pc["first"] = "read" /\ pc'["first"] = "ended" /\ pc' \in [Pi!Procs -> PipePlaces]
    BY <1>1, <1>5, PipeMoves DEF Pi!ReadOwnPipe, Pi!At
  <2>2. s.data # <<>> /\ s' = Pi!Showing(s, FALSE) /\ s.shown = <<>>
    BY <1>1, <1>5, <2>1 DEF Pi!ReadOwnPipe, InPipe
  <2>3. s.data \in Seq(Messages)
    BY <1>1 DEF PipeState
  <2>4. s.data[1] = 4
    BY <1>1, <2>2, <2>3 DEF InPipe
  <2>5. /\ s' \in PipeState /\ s'.shown = Append(<<>>, 4) /\ s'.data = Tail(s.data)
        /\ s'.interrupts = s.interrupts
    BY <1>1, <2>2, <2>4, ShowingIs DEF Got
  <2>6. \A i \in DOMAIN s'.data : s'.data[i] = 4
    <3>1. /\ Tail(s.data) \in Seq(Messages) /\ Len(Tail(s.data)) = Len(s.data) - 1
          /\ Len(s.data) \in Nat /\ DOMAIN s.data = 1 .. Len(s.data)
          /\ \A i \in 1 .. Len(s.data) - 1 : Tail(s.data)[i] = s.data[i + 1]
      BY <2>2, <2>3, TailIs
    <3>2. DOMAIN Tail(s.data) = 1 .. Len(s.data) - 1
      BY <3>1
    <3>3. \A i \in 1 .. Len(s.data) - 1 : i + 1 \in 1 .. Len(s.data)
      BY <3>1
    <3> QED
      BY <1>1, <2>5, <3>1, <3>2, <3>3 DEF InPipe
  <2>7. Append(<<>>, 4) = <<4>>
    OBVIOUS
  <2> QED
    BY <1>1, <1>2, <2>1, <2>2, <2>5, <2>6, <2>7 DEF InPipe
<1>6. CASE Pi!Interrupt
  <2> DEFINE d == IF pc["first"] = "read" THEN Append(s.data, 4) ELSE s.data
  <2>1. /\ pc["first"] \notin {"killed", "ended"}
        /\ s' = [s EXCEPT !.interrupts = @ + 1, !.data = d]
    BY <1>1, <1>6 DEF Pi!Interrupt, Pi!At, PipeState
  <2>2. pc' \in [Pi!Procs -> PipePlaces] /\ pc'["first"] # "ended"
    BY <1>1, <1>6, <2>1, PipeMoves DEF Pi!Interrupt, PipeTypes
  <2>3. /\ d \in Seq(Messages) /\ s.interrupts \in Nat
        /\ \A i \in DOMAIN d : d[i] = 4
    <3>1. s.data \in Seq(Messages) /\ s.interrupts \in Nat /\ 4 \in Messages
      BY <1>1, PipeNumbers DEF PipeState
    <3>2. \A i \in DOMAIN s.data : s.data[i] = 4
      BY <1>1 DEF InPipe
    <3>3. Append(s.data, 4) \in Seq(Messages)
      BY <3>1, AppendIs
    <3>4. \A i \in DOMAIN Append(s.data, 4) : Append(s.data, 4)[i] = 4
      BY <3>1, <3>2
    <3> QED
      BY <3>1, <3>2, <3>3, <3>4
  <2> HIDE DEF d
  <2>4. s' \in PipeState /\ s'.data = d /\ s'.shown = s.shown /\ s'.interrupts = s.interrupts + 1
    <3>1. s.interrupts + 1 \in Nat
      BY <2>3
    <3> QED
      BY <1>1, <2>1, <2>3, <3>1 DEF PipeState
  <2> QED
    BY <1>1, <1>2, <2>1, <2>2, <2>3, <2>4 DEF InPipe
<1> QED
  BY <1>3, <1>4, <1>5, <1>6 DEF Pi!PipeSteps

LEMMA Sums ==
  \A a, b \in Nat : /\ a + (b + 1) = (a + b) + 1 /\ (a + 1) + (b - 1) = a + b
                    /\ a + (b + 1) = (a + 1) + b
  OBVIOUS

LEMMA RelatedStep ==
  ASSUME PipesInv, \/ Pi!RelatedSteps
                   \/ Pi!ChildKilled
  PROVE  PipesInv'
<1>1. prog = "related_pipe" /\ prog' = prog /\ InRelated /\ PipeTypes /\ s \in PipeState
      /\ {"closeRead", "read", "write", "spin", "killed", "ended", "sawEnd"} \subseteq PipePlaces
      /\ "first" \in Pi!Procs /\ "second" \in Pi!Procs /\ Pi!Procs = {"first", "second"}
  BY PipeNumbers
  DEF Pi!RelatedSteps, Pi!ForkReader, Pi!CloseReadEnd, Pi!WriteNext, Pi!CloseWriteEnd,
      Pi!ChildReads, Pi!ChildKilled, Pi!Here, PipesInv, PipeTypes, PipePlaces
<1>2. ASSUME pc' \in [Pi!Procs -> PipePlaces], s' \in PipeState, InRelated' PROVE PipesInv'
  BY <1>1, <1>2 DEF PipesInv, PipeTypes
<1>3. /\ s.data \in Seq(Messages) /\ s.shown \in Seq(Shown) /\ s.sent \in 0 .. 3
      /\ Len(s.data) \in Nat /\ Len(s.shown) \in Nat
  BY <1>1 DEF PipeState
<1>4. ASSUME NEW to \in PipePlaces \ {"start"}, Pi!Go("first", to), s' \in PipeState,
             "second" \in s.writers => "second" \in s'.writers,
             s'.data = s.data, s'.shown = s.shown, s'.sent = s.sent
      PROVE  PipesInv'
  <2>1. /\ pc' \in [Pi!Procs -> PipePlaces] /\ pc'["first"] = to
        /\ pc'["second"] = pc["second"]
    BY <1>1, <1>4, PipeMoves
  <2>2. Follows => Follows'
    BY <1>4 DEF Follows
  <2> QED
    BY <1>1, <1>2, <1>4, <2>1, <2>2 DEF InRelated
<1>5. CASE Pi!ForkReader
  <2>1. CASE Pi!Go("first", "ended") /\ UNCHANGED s
    BY <1>1, <1>4, <2>1
  <2>2. CASE /\ pc' = [first |-> "closeRead", second |-> "read"]
             /\ s' = [s EXCEPT !.readers = Pi!Procs, !.writers = Pi!Procs]
    <3>1. pc' \in [Pi!Procs -> PipePlaces] /\ pc'["first"] = "closeRead" /\ pc'["second"] = "read"
      BY <1>1, <2>2
    <3>2. /\ s' \in PipeState /\ s'.writers = Pi!Procs /\ s'.data = s.data
          /\ s'.shown = s.shown /\ s'.sent = s.sent
      BY <1>1, <2>2 DEF PipeState
    <3>3. Follows
      BY <1>1, <1>5 DEF InRelated, Pi!ForkReader, Pi!At
    <3>4. Follows'
      BY <3>2, <3>3 DEF Follows
    <3> QED
      BY <1>1, <1>2, <3>1, <3>2, <3>4 DEF InRelated
  <2> QED
    BY <1>5, <2>1, <2>2 DEF Pi!ForkReader
<1>6. CASE Pi!CloseReadEnd
  <2>1. s' = [s EXCEPT !.readers = @ \ {"first"}] /\ Pi!Go("first", "write")
    BY <1>6 DEF Pi!CloseReadEnd
  <2>2. /\ s' \in PipeState /\ s'.writers = s.writers /\ s'.data = s.data
        /\ s'.shown = s.shown /\ s'.sent = s.sent
    BY <1>1, <2>1 DEF PipeState
  <2> QED
    BY <1>1, <1>4, <2>1, <2>2
<1>7. CASE Pi!CloseWriteEnd
  <2>1. s' = [s EXCEPT !.writers = @ \ {"first"}] /\ Pi!Go("first", "spin")
    BY <1>7 DEF Pi!CloseWriteEnd
  <2>2. /\ s' \in PipeState /\ s'.writers = s.writers \ {"first"} /\ s'.data = s.data
        /\ s'.shown = s.shown /\ s'.sent = s.sent
    BY <1>1, <2>1 DEF PipeState
  <2> QED
    BY <1>1, <1>4, <2>1, <2>2
<1>8. CASE Pi!WriteNext
  <2>1. CASE Pi!Go("first", "killed") /\ UNCHANGED s
    BY <1>1, <1>4, <2>1
  <2>2. CASE s' = [s EXCEPT !.data = Append(@, s.sent + 1), !.sent = @ + 1] /\ UNCHANGED pc
    <3> DEFINE d == Append(s.data, s.sent + 1)
    <3>1. s.sent + 1 \in 0 .. 3 /\ s.sent + 1 \in Messages
      BY <1>3, <1>8, PipeNumbers DEF Pi!WriteNext, Pi!NumMsgs
    <3>2. /\ d \in Seq(Messages) /\ Len(d) = Len(s.data) + 1 /\ d[Len(s.data) + 1] = s.sent + 1
          /\ \A i \in 1 .. Len(s.data) : d[i] = s.data[i]
      BY <1>3, <3>1, AppendIs
    <3>3. s' = [s EXCEPT !.data = d, !.sent = s.sent + 1]
      BY <1>1, <2>2 DEF PipeState
    <3> HIDE DEF d
    <3>4. /\ s' \in PipeState /\ s'.data = d /\ s'.sent = s.sent + 1
          /\ s'.shown = s.shown /\ s'.writers = s.writers
      BY <1>1, <3>1, <3>2, <3>3 DEF PipeState
    <3>5. Follows => Follows'
      <4> SUFFICES ASSUME Follows PROVE Follows'
        OBVIOUS
      <4>1. Len(s.shown) + (Len(s.data) + 1) = s.sent + 1
        <5> DEFINE a == Len(s.shown)
                   b == Len(s.data)
        <5>1. a + b = s.sent
          BY DEF Follows
        <5>2. a \in Nat /\ b \in Nat
          BY <1>3
        <5> HIDE DEF a, b
        <5>3. a + (b + 1) = (a + b) + 1
          BY <5>2, Sums
        <5>4. a + (b + 1) = s.sent + 1
          BY <5>1, <5>3
        <5> QED
          BY <5>4 DEF a, b
      <4>2. \A i \in 1 .. Len(s.data) + 1 : i \in 1 .. Len(s.data) \/ i = Len(s.data) + 1
        BY <1>3
      <4>3. \A i \in 1 .. Len(s.data) + 1 : d[i] = Len(s.shown) + i
        BY <3>2, <4>1, <4>2 DEF Follows
      <4> QED
        BY <3>2, <3>4, <4>1, <4>3 DEF Follows
    <3> QED
      BY <1>1, <1>2, <2>2, <3>4, <3>5 DEF InRelated, PipeTypes
  <2> QED
    BY <1>8, <2>1, <2>2 DEF Pi!WriteNext
<1>9. CASE Pi!ChildReads
  <2>1. pc["second"] = "read" /\ "second" \in s.writers /\ Follows
    BY <1>1, <1>9 DEF Pi!ChildReads, Pi!At, InRelated
  <2>2. s.data # <<>> /\ s' = Pi!Showing(s, FALSE) /\ pc' = pc
    BY <1>9, <2>1 DEF Pi!ChildReads
  <2> DEFINE n == Len(s.shown)
  <2>3. /\ s.data[1] = n + 1 /\ Len(s.data) > 0 /\ Len(Tail(s.data)) = Len(s.data) - 1
        /\ \A i \in 1 .. Len(s.data) - 1 : Tail(s.data)[i] = s.data[i + 1]
    BY <1>3, <2>1, <2>2, TailIs DEF Follows
  <2>4. /\ s' \in PipeState /\ s'.shown = Append(s.shown, n + 1) /\ s'.data = Tail(s.data)
        /\ s'.writers = s.writers /\ s'.sent = s.sent /\ n + 1 \in Shown
    BY <1>1, <2>2, <2>3, ShowingIs DEF Got
  <2>5. /\ Len(s'.shown) = n + 1 /\ s'.shown[n + 1] = n + 1
        /\ \A i \in 1 .. n : s'.shown[i] = s.shown[i]
    BY <1>3, <2>4, AppendIs
  <2>6. \A i \in 1 .. n + 1 : i \in 1 .. n \/ i = n + 1
    BY <1>3
  <2>7. \A i \in 1 .. Len(s'.shown) : s'.shown[i] = i
    BY <1>1, <2>5, <2>6 DEF InRelated
  <2>8. Follows'
    <3>1. Len(s'.shown) + Len(s'.data) = s.sent
      <4>1. Len(s.shown) + Len(s.data) = s.sent
        BY <2>1 DEF Follows
      <4>2. Len(s'.shown) = Len(s.shown) + 1 /\ Len(s'.data) = Len(s.data) - 1
        BY <2>3, <2>4, <2>5
      <4> DEFINE a == Len(s.shown)
                 b == Len(s.data)
      <4>3. a \in Nat /\ b \in Nat
        BY <1>3
      <4>4. a + b = s.sent /\ Len(s'.shown) = a + 1 /\ Len(s'.data) = b - 1
        BY <4>1, <4>2
      <4> HIDE DEF a, b
      <4>5. (a + 1) + (b - 1) = a + b
        BY <4>3, Sums
      <4> QED
        BY <4>4, <4>5
    <3>2. \A i \in 1 .. Len(s.data) - 1 : i + 1 \in 1 .. Len(s.data)
      BY <1>3
    <3>3. \A i \in 1 .. Len(s.data) - 1 : n + (i + 1) = (n + 1) + i
      <4>1. \A i \in 1 .. Len(s.data) - 1 : i \in Nat
        BY <1>3
      <4>2. n \in Nat
        BY <1>3
      <4> HIDE DEF n
      <4> QED
        BY <4>1, <4>2, Sums
    <3>4. \A i \in 1 .. Len(s.data) - 1 : s'.data[i] = (n + 1) + i
      BY <2>1, <2>3, <2>4, <3>2, <3>3 DEF Follows
    <3> QED
      BY <2>3, <2>4, <2>5, <3>1, <3>4 DEF Follows
  <2> QED
    BY <1>1, <1>2, <2>1, <2>2, <2>4, <2>7, <2>8 DEF InRelated, PipeTypes
<1>10. CASE Pi!ChildKilled
  <2> DEFINE u == Pi!Closed(s, "second")
  <2>1. Pi!Go("second", "killed") /\ pc["second"] = "read"
        /\ s' = [u EXCEPT !.reaped = ~Pi!At("first", "closeRead")]
    BY <1>10 DEF Pi!ChildKilled, Pi!At
  <2>2. u \in PipeState /\ u.shown = s.shown
    BY <1>1, ClosedIs
  <2> HIDE DEF u
  <2>3. s' \in PipeState /\ s'.shown = s.shown
    BY <2>1, <2>2 DEF PipeState
  <2>4. /\ pc' \in [Pi!Procs -> PipePlaces] /\ pc'["second"] = "killed"
        /\ pc'["first"] = pc["first"]
    BY <1>1, <2>1, PipeMoves
  <2> QED
    BY <1>1, <1>2, <2>1, <2>3, <2>4 DEF InRelated
<1> QED
  BY <1>5, <1>6, <1>7, <1>8, <1>9, <1>10 DEF Pi!RelatedSteps

\* A step of the FIFO that shows nothing and writes nothing.
LEMMA FifoKept ==
  ASSUME PipesInv, prog = "named_pipe", prog' = prog,
         pc' \in [Pi!Procs -> PipePlaces], s' \in PipeState,
         pc'["first"] \in {"start", "open", "write", "close", "killed"},
         pc'["second"] \in {"open", "read", "close"},
         pc'["first"] \in {"open", "write"} => pc["first"] \in {"open", "write"},
         s'.buf = s.buf, s'.shown = s.shown, s'.typed = s.typed,
         s'.data = s.data \/ s'.data = <<>>,
         FifoEnds',
         s'.data = <<>> /\ (pc'["first"] = "close" \/ (pc'["second"] = "read" /\ pc'["first"] # "write"))
           => Fresh
  PROVE  PipesInv'
<1>1. InFifo /\ FifoData /\ FifoShown
  BY DEF PipesInv, InFifo
<1>2. FifoShown'
  BY <1>1 DEF FifoShown
<1>3. FifoData'
  <2>1. CASE s'.data = s.data
    BY <1>1, <2>1 DEF FifoData
  <2>2. CASE s'.data = <<>>
    BY <1>1, <2>2 DEF FifoData
  <2> QED
    BY <2>1, <2>2
<1>4. Fresh => Fresh'
  BY DEF Fresh
<1> QED
  BY <1>2, <1>3, <1>4 DEF PipesInv, PipeTypes, InFifo

LEMMA FifoFacts ==
  ASSUME PipesInv, prog = "named_pipe"
  PROVE  /\ InFifo /\ FifoEnds /\ FifoData /\ FifoShown /\ PipeTypes /\ s \in PipeState
         /\ {"start", "open", "write", "close", "read", "killed"} \subseteq PipePlaces
         /\ "first" \in Pi!Procs /\ "second" \in Pi!Procs /\ Pi!Procs = {"first", "second"}
         /\ pc \in [Pi!Procs -> PipePlaces]
         /\ pc["first"] \in {"start", "open", "write", "close", "killed"}
         /\ pc["second"] \in {"open", "read", "close"}
         /\ s.data \in Seq(Messages) /\ s.shown \in Seq(Shown)
         /\ s.typed \in 0 .. MaxTyped /\ s.buf \in Shown
         /\ Len(s.data) \in Nat /\ Len(s.shown) \in Nat
  BY PipeNumbers DEF PipesInv, InFifo, PipeTypes, PipePlaces, PipeState

LEMMA TypeStep ==
  ASSUME PipesInv, Pi!Type
  PROVE  PipesInv'
<1>1. prog = "named_pipe" /\ prog' = prog
  BY DEF Pi!Type, Pi!Here
<1>2. /\ pc["first"] = "start" /\ pc'["first"] = "open" /\ pc'["second"] = pc["second"]
      /\ pc' \in [Pi!Procs -> PipePlaces]
  BY <1>1, FifoFacts, PipeMoves DEF Pi!Type, Pi!At
<1>3. s' = [s EXCEPT !.typed = s.typed + 1] /\ s.typed + 1 \in 0 .. MaxTyped
  BY <1>1, FifoFacts, PipeNumbers DEF Pi!Type, PipeState
<1>4. /\ s' \in PipeState /\ s'.typed = s.typed + 1 /\ s'.data = s.data /\ s'.buf = s.buf
      /\ s'.shown = s.shown /\ s'.readers = s.readers /\ s'.writers = s.writers
  BY <1>1, <1>3, FifoFacts DEF PipeState
<1>5. s.typed \in Nat /\ s.buf \in Nat
  BY <1>1, FifoFacts, PipeNumbers DEF Shown
<1>6. FifoData'
  <2>1. \A i \in 1 .. Len(s.data) : s.data[i] \in (s.buf + 1) .. s.typed
    BY <1>1, FifoFacts DEF FifoData
  <2>2. \A n \in (s.buf + 1) .. s.typed : n \in (s.buf + 1) .. (s.typed + 1) /\ n < s.typed + 1
    BY <1>5
  <2>3. s.buf < s.typed + 1 /\ s.buf <= s.typed + 1
    <3>1. s.buf <= s.typed
      BY <1>1, FifoFacts DEF FifoData
    <3> QED
      BY <1>5, <3>1
  <2> QED
    BY <1>4, <2>1, <2>2, <2>3 DEF FifoData
<1>7. FifoShown'
  <2>1. FifoShown
    BY <1>1, FifoFacts
  <2>2. \A n \in 1 .. s.typed : n \in 1 .. (s.typed + 1)
    BY <1>5
  <2> QED
    BY <1>4, <2>1, <2>2 DEF FifoShown
<1>8. FifoEnds'
  BY <1>1, <1>2, <1>4, FifoFacts DEF FifoEnds
<1>9. s.data = <<>> /\ pc["second"] = "read" => Fresh
  BY <1>1, <1>2, FifoFacts DEF InFifo
<1>10. Fresh => Fresh'
  BY <1>4 DEF Fresh
<1> QED
  BY <1>1, <1>2, <1>4, <1>6, <1>7, <1>8, <1>9, <1>10, FifoFacts DEF PipesInv, PipeTypes, InFifo

LEMMA FifoOpens ==
  ASSUME PipesInv, Pi!BothOpen \/ Pi!ProducerOpens \/ Pi!ConsumerOpens
  PROVE  PipesInv'
<1>1. prog = "named_pipe" /\ prog' = prog
  BY DEF Pi!BothOpen, Pi!ProducerOpens, Pi!ConsumerOpens, Pi!Here
<1>2. FifoEnds /\ InFifo
  BY <1>1, FifoFacts
<1>3. CASE Pi!BothOpen
  <2>1. /\ pc' = [first |-> "write", second |-> "read"]
        /\ s' = [s EXCEPT !.writers = {"first"}, !.readers = {"second"}]
        /\ pc["first"] = "open"
    BY <1>3 DEF Pi!BothOpen, Pi!At
  <2>2. /\ pc' \in [Pi!Procs -> PipePlaces] /\ pc'["first"] = "write" /\ pc'["second"] = "read"
    BY <1>1, <2>1, FifoFacts
  <2>3. /\ s' \in PipeState /\ s'.writers = {"first"} /\ s'.readers = {"second"}
        /\ s'.data = s.data /\ s'.shown = s.shown /\ s'.buf = s.buf /\ s'.typed = s.typed
    BY <1>1, <2>1, FifoFacts DEF PipeState
  <2>4. FifoEnds'
    BY <2>2, <2>3 DEF FifoEnds
  <2> QED
    BY <1>1, <2>1, <2>2, <2>3, <2>4, FifoKept
<1>4. CASE Pi!ProducerOpens
  <2>1. /\ pc["first"] = "open" /\ pc'["first"] = "write" /\ pc'["second"] = pc["second"]
        /\ pc' \in [Pi!Procs -> PipePlaces]
    BY <1>1, <1>4, FifoFacts, PipeMoves DEF Pi!ProducerOpens, Pi!At
  <2>2. s' = [s EXCEPT !.writers = {"first"}]
    BY <1>4 DEF Pi!ProducerOpens
  <2>3. /\ s' \in PipeState /\ s'.writers = {"first"} /\ s'.readers = s.readers
        /\ s'.data = s.data /\ s'.shown = s.shown /\ s'.buf = s.buf /\ s'.typed = s.typed
    BY <1>1, <2>2, FifoFacts DEF PipeState
  <2>4. FifoEnds'
    BY <1>2, <2>1, <2>3 DEF FifoEnds
  <2> QED
    BY <1>1, <2>1, <2>3, <2>4, FifoKept, FifoFacts
<1>5. CASE Pi!ConsumerOpens
  <2>1. /\ pc["second"] = "open" /\ pc'["second"] = "read" /\ pc'["first"] = pc["first"]
        /\ pc' \in [Pi!Procs -> PipePlaces]
    BY <1>1, <1>5, FifoFacts, PipeMoves DEF Pi!ConsumerOpens, Pi!At
  <2>2. s' = [s EXCEPT !.readers = {"second"}] /\ s.writers # {}
    BY <1>5 DEF Pi!ConsumerOpens
  <2>3. /\ s' \in PipeState /\ s'.readers = {"second"} /\ s'.writers = s.writers
        /\ s'.data = s.data /\ s'.shown = s.shown /\ s'.buf = s.buf /\ s'.typed = s.typed
    BY <1>1, <2>2, FifoFacts DEF PipeState
  <2>4. FifoEnds'
    BY <1>2, <2>1, <2>3 DEF FifoEnds
  <2>5. pc["first"] \in {"write", "close"}
    BY <1>2, <2>2 DEF FifoEnds
  <2>6. s.data = <<>> /\ pc["first"] = "close" => Fresh
    BY <1>2 DEF InFifo
  <2> QED
    BY <1>1, <2>1, <2>3, <2>4, <2>5, <2>6, FifoKept, FifoFacts
<1> QED
  BY <1>3, <1>4, <1>5

LEMMA FifoCloses ==
  ASSUME PipesInv, \/ Pi!ProducerCloses
                   \/ Pi!ConsumerCloses
                   \/ Pi!ProducerWrites /\ s.readers = {}
  PROVE  PipesInv'
<1>1. prog = "named_pipe" /\ prog' = prog
  BY DEF Pi!ProducerCloses, Pi!ConsumerCloses, Pi!ProducerWrites, Pi!Here
<1>2. FifoEnds /\ InFifo
  BY <1>1, FifoFacts
<1>3. ASSUME NEW to \in {"start", "killed"}, Pi!Go("first", to), s' = Pi!Closed(s, "first"),
             pc["first"] \in {"write", "close"},
             to = "killed" => s.readers = {}, to = "start" => pc["first"] = "close"
      PROVE  PipesInv'
  <2>1. /\ pc'["first"] = to /\ pc'["second"] = pc["second"] /\ pc' \in [Pi!Procs -> PipePlaces]
    BY <1>1, <1>3, FifoFacts, PipeMoves
  <2>2. /\ s' \in PipeState /\ s'.readers = s.readers \ {"first"} /\ s'.writers = s.writers \ {"first"}
        /\ s'.data = IF (s.readers \ {"first"}) \cup (s.writers \ {"first"}) = {} THEN <<>>
                     ELSE s.data
        /\ s'.shown = s.shown /\ s'.buf = s.buf /\ s'.typed = s.typed
    BY <1>1, <1>3, FifoFacts, ClosedIs
  <2>3. FifoEnds'
    BY <1>2, <1>3, <2>1, <2>2 DEF FifoEnds
  <2>4. pc["second"] = "read" => s.readers = {"second"} /\ s'.data = s.data
    BY <1>2, <2>2 DEF FifoEnds
  <2>5. s.data = <<>> /\ pc["first"] = "close" => Fresh
    BY <1>2 DEF InFifo
  <2> QED
    BY <1>1, <1>3, <2>1, <2>2, <2>3, <2>4, <2>5, FifoKept, FifoFacts
<1>4. CASE Pi!ProducerCloses
  BY <1>3, <1>4 DEF Pi!ProducerCloses, Pi!At
<1>5. CASE Pi!ProducerWrites /\ s.readers = {}
  BY <1>3, <1>5 DEF Pi!ProducerWrites, Pi!At
<1>6. CASE Pi!ConsumerCloses
  <2>1. /\ pc["second"] = "close" /\ pc'["second"] = "open" /\ pc'["first"] = pc["first"]
        /\ pc' \in [Pi!Procs -> PipePlaces] /\ s' = Pi!Closed(s, "second")
    BY <1>1, <1>6, FifoFacts, PipeMoves DEF Pi!ConsumerCloses, Pi!At
  <2>2. /\ s' \in PipeState /\ s'.readers = s.readers \ {"second"}
        /\ s'.writers = s.writers \ {"second"}
        /\ s'.data = IF (s.readers \ {"second"}) \cup (s.writers \ {"second"}) = {} THEN <<>>
                     ELSE s.data
        /\ s'.shown = s.shown /\ s'.buf = s.buf /\ s'.typed = s.typed
    BY <1>1, <2>1, FifoFacts, ClosedIs
  <2>3. FifoEnds'
    BY <1>2, <2>1, <2>2 DEF FifoEnds
  <2>4. pc["first"] = "close" => s'.data = s.data
    BY <1>2, <2>2 DEF FifoEnds
  <2>5. s.data = <<>> /\ pc["first"] = "close" => Fresh
    BY <1>2 DEF InFifo
  <2> QED
    BY <1>1, <2>1, <2>2, <2>3, <2>4, <2>5, FifoKept, FifoFacts
<1> QED
  BY <1>4, <1>5, <1>6

LEMMA FifoWrites ==
  ASSUME PipesInv, Pi!ProducerWrites, s.readers # {}
  PROVE  PipesInv'
<1> DEFINE d == Append(s.data, s.typed)
<1>1. prog = "named_pipe" /\ prog' = prog
  BY DEF Pi!ProducerWrites, Pi!Here
<1>2. FifoEnds /\ InFifo /\ FifoData /\ FifoShown
  BY <1>1, FifoFacts
<1>3. /\ pc["first"] = "write" /\ pc'["first"] = "close" /\ pc'["second"] = pc["second"]
      /\ pc' \in [Pi!Procs -> PipePlaces]
  BY <1>1, FifoFacts, PipeMoves DEF Pi!ProducerWrites, Pi!At
<1>4. s.typed \in Nat /\ s.buf \in Nat /\ s.buf < s.typed
  BY <1>1, <1>2, <1>3, FifoFacts, PipeNumbers DEF Shown, FifoData
<1>5. s.typed \in Messages
  BY <1>1, <1>4, FifoFacts, PipeNumbers
<1>6. /\ d \in Seq(Messages) /\ d # <<>> /\ Len(d) = Len(s.data) + 1
      /\ d[Len(s.data) + 1] = s.typed
      /\ \A i \in 1 .. Len(s.data) : d[i] = s.data[i]
  BY <1>1, <1>5, FifoFacts, AppendIs
<1>7. s' = [s EXCEPT !.data = d]
  BY <1>1, FifoFacts DEF Pi!ProducerWrites, PipeState
<1> HIDE DEF d
<1>8. /\ s' \in PipeState /\ s'.data = d /\ s'.readers = s.readers /\ s'.writers = s.writers
      /\ s'.shown = s.shown /\ s'.buf = s.buf /\ s'.typed = s.typed
  BY <1>1, <1>6, <1>7, FifoFacts DEF PipeState
<1>9. FifoData'
  <2>1. \A i \in 1 .. Len(s.data) + 1 : i \in 1 .. Len(s.data) \/ i = Len(s.data) + 1
    BY <1>1, FifoFacts
  <2>2. s.typed \in (s.buf + 1) .. s.typed /\ s.buf <= s.typed
    BY <1>4
  <2>3. \A i \in 1 .. Len(s.data) + 1 : d[i] \in (s.buf + 1) .. s.typed
    BY <1>2, <1>6, <2>1, <2>2 DEF FifoData
  <2> QED
    BY <1>3, <1>6, <1>8, <2>2, <2>3 DEF FifoData
<1>10. FifoShown' /\ FifoEnds'
  BY <1>2, <1>3, <1>8 DEF FifoShown, FifoEnds
<1> QED
  BY <1>1, <1>3, <1>6, <1>8, <1>9, <1>10, FifoFacts DEF PipesInv, PipeTypes, InFifo

LEMMA FifoShows ==
  ASSUME PipesInv, Pi!ConsumerReads
  PROVE  PipesInv'
<1> DEFINE n == Len(s.shown)
           g == Got(s)
<1>1. prog = "named_pipe" /\ prog' = prog /\ (s.data # <<>> \/ s.writers = {})
      /\ s' = Pi!Showing(s, TRUE)
  BY DEF Pi!ConsumerReads, Pi!Here
<1>2. FifoEnds /\ InFifo /\ FifoData /\ FifoShown
  BY <1>1, FifoFacts
<1>3. /\ pc["second"] = "read" /\ pc'["second"] = "close" /\ pc'["first"] = pc["first"]
      /\ pc' \in [Pi!Procs -> PipePlaces]
  BY <1>1, FifoFacts, PipeMoves DEF Pi!ConsumerReads, Pi!At
<1>4. /\ s' \in PipeState /\ s'.buf = g /\ s'.shown = Append(s.shown, g) /\ s'.data = <<>>
      /\ s'.readers = s.readers /\ s'.writers = s.writers /\ s'.typed = s.typed
      /\ g \in Shown
  BY <1>1, FifoFacts, ShowingIs
<1>5. s.typed \in Nat /\ s.buf \in Nat /\ n \in Nat /\ s.buf <= s.typed
  BY <1>1, <1>2, FifoFacts, PipeNumbers DEF Shown, FifoData
<1>6. s.data = <<>> => g = s.buf /\ Fresh /\ pc["first"] \notin {"write", "close"}
  <2> SUFFICES ASSUME s.data = <<>>
               PROVE  g = s.buf /\ Fresh /\ pc["first"] \notin {"write", "close"}
    OBVIOUS
  <2>1. s.writers = {}
    BY <1>1
  <2>2. pc["first"] \notin {"write", "close"}
    BY <1>2, <2>1 DEF FifoEnds
  <2>3. Fresh
    BY <1>2, <1>3, <2>2 DEF InFifo
  <2> QED
    BY <2>2, <2>3 DEF Got
<1>7. s.data # <<>> => /\ g \in (s.buf + 1) .. s.typed
                       /\ pc["first"] \in {"open", "write"} => g < s.typed
  <2> SUFFICES ASSUME s.data # <<>>
               PROVE  /\ s.data[1] \in (s.buf + 1) .. s.typed
                      /\ pc["first"] \in {"open", "write"} => s.data[1] < s.typed
    BY DEF Got
  <2>1. 1 \in 1 .. Len(s.data)
    BY <1>1, FifoFacts
  <2> QED
    BY <1>2, <2>1 DEF FifoData
<1>8. /\ Len(s'.shown) = n + 1 /\ s'.shown[n + 1] = g /\ \A i \in 1 .. n : s'.shown[i] = s.shown[i]
      /\ s'.shown \in Seq(Shown)
  <2> HIDE DEF g
  <2>1. s.shown \in Seq(Shown)
    BY <1>1, FifoFacts
  <2> QED
    BY <1>4, <2>1, AppendIs
<1> HIDE DEF g
<1>9. /\ g \in Nat /\ s.buf <= g /\ g <= s.typed /\ g > 0
      /\ pc["first"] \in {"open", "write"} => g < s.typed
  <2>1. CASE s.data # <<>>
    BY <2>1, <1>5, <1>7
  <2>2. CASE s.data = <<>>
    <3>1. g = s.buf /\ n > 0
      BY <2>2, <1>6 DEF Fresh
    <3>2. s.buf = s.shown[n] /\ s.shown[n] \in 1 .. s.typed
      <4>1. n \in 1 .. n
        BY <3>1, <1>5
      <4> QED
        BY <3>1, <4>1, <1>2 DEF FifoShown
    <3>3. pc["first"] \in {"open", "write"} => s.buf < s.typed
      BY <1>2 DEF FifoData
    <3> QED
      BY <3>1, <3>2, <3>3, <1>5
  <2> QED
    BY <2>1, <2>2
<1>10. n > 0 => s.buf = s.shown[n]
  BY <1>2 DEF FifoShown
<1>11. n > 1 => s.shown[n - 1] < g
  <2> SUFFICES ASSUME n > 1 PROVE s.shown[n - 1] < g
    OBVIOUS
  <2>1. CASE s.data # <<>>
    <3>1. n \in 2 .. n
      BY <1>5
    <3>2. s.shown[n - 1] <= s.shown[n] /\ s.buf < g
      BY <1>2, <1>5, <1>7, <2>1, <3>1 DEF FifoShown
    <3>3. n - 1 \in 1 .. n
      BY <1>5
    <3>4. s.shown[n - 1] \in 1 .. s.typed
      BY <1>2, <3>3 DEF FifoShown
    <3> QED
      BY <1>5, <1>9, <1>10, <3>2, <3>4
  <2>2. CASE s.data = <<>>
    <3>1. g = s.buf /\ Fresh
      BY <2>2, <1>6
    <3> QED
      BY <3>1, <1>10, <1>5 DEF Fresh
  <2> QED
    BY <2>1, <2>2
<1>12. FifoShown'
  <2>1. s'.buf = IF Len(s'.shown) = 0 THEN 0 ELSE s'.shown[Len(s'.shown)]
    BY <1>4, <1>5, <1>8
  <2>2. ASSUME NEW i \in 1 .. n + 1 PROVE s'.shown[i] \in 1 .. s.typed
    <3>1. CASE i = n + 1
      BY <3>1, <1>5, <1>8, <1>9
    <3>2. CASE i # n + 1
      <4>1. i \in 1 .. n
        BY <3>2, <1>5
      <4> QED
        BY <4>1, <1>2, <1>8 DEF FifoShown
    <3> QED
      BY <3>1, <3>2
  <2>3. ASSUME NEW i \in 2 .. n + 1 PROVE s'.shown[i - 1] <= s'.shown[i]
    <3>1. CASE i = n + 1
      <4>1. n \in 1 .. n /\ i - 1 = n /\ n > 0
        BY <3>1, <1>5
      <4>2. s'.shown[n] = s.buf
        BY <4>1, <1>8, <1>10
      <4> QED
        BY <3>1, <4>1, <4>2, <1>8, <1>9
    <3>2. CASE i # n + 1
      <4>1. i \in 2 .. n /\ i \in 1 .. n /\ i - 1 \in 1 .. n
        BY <3>2, <1>5
      <4> QED
        BY <4>1, <1>2, <1>8 DEF FifoShown
    <3> QED
      BY <3>1, <3>2
  <2>4. ASSUME NEW i \in 3 .. n + 1 PROVE s'.shown[i - 2] < s'.shown[i]
    <3>1. CASE i = n + 1
      <4>1. n - 1 \in 1 .. n /\ i - 2 = n - 1 /\ n > 1
        BY <3>1, <1>5
      <4>2. s'.shown[n - 1] = s.shown[n - 1]
        BY <4>1, <1>8
      <4> QED
        BY <3>1, <4>1, <4>2, <1>8, <1>11
    <3>2. CASE i # n + 1
      <4>1. i \in 3 .. n /\ i \in 1 .. n /\ i - 2 \in 1 .. n
        BY <3>2, <1>5
      <4> QED
        BY <4>1, <1>2, <1>8 DEF FifoShown
    <3> QED
      BY <3>1, <3>2
  <2> QED
    BY <2>1, <2>2, <2>3, <2>4, <1>4, <1>8 DEF FifoShown
<1>13. FifoData'
  <2>1. 1 .. Len(<<>>) = {}
    OBVIOUS
  <2> QED
    BY <2>1, <1>3, <1>4, <1>9 DEF FifoData
<1>14. FifoEnds'
  BY <1>2, <1>3, <1>4 DEF FifoEnds
<1>15. pc["first"] = "close" => Fresh'
  <2> SUFFICES ASSUME pc["first"] = "close" PROVE Fresh'
    OBVIOUS
  <2>1. s.buf < g
    BY <1>5, <1>6, <1>7, <1>9
  <2>2. n + 1 > 1 => s'.shown[n] < g
    <3> SUFFICES ASSUME n > 0 PROVE s'.shown[n] < g
      BY <1>5
    <3>1. n \in 1 .. n
      BY <1>5
    <3> QED
      BY <2>1, <3>1, <1>8, <1>10
  <2>3. n + 1 > 0 /\ (n + 1) - 1 = n
    BY <1>5
  <2> QED
    BY <2>2, <2>3, <1>8 DEF Fresh
<1> QED
  BY <1>1, <1>3, <1>4, <1>12, <1>13, <1>14, <1>15, FifoFacts DEF PipesInv, PipeTypes, InFifo

LEMMA PipesStep == PipesInv /\ [Pi!Next]_vars => PipesInv'
<1> SUFFICES ASSUME PipesInv, [Pi!Next]_vars PROVE PipesInv'
  OBVIOUS
<1>1. CASE UNCHANGED vars
  BY <1>1
  DEF vars, PipesInv, PipeTypes, InPipe, InRelated, Follows, InFifo, FifoEnds, FifoData, FifoShown,
      Fresh
<1>2. CASE Pi!FifoSteps
  <2>1. CASE Pi!ProducerWrites
    BY <2>1, FifoCloses, FifoWrites
  <2> QED
    BY <1>2, <2>1, FifoOpens, FifoCloses, FifoShows DEF Pi!FifoSteps
<1> QED
  BY <1>1, <1>2, PipeStep, RelatedStep, TypeStep DEF Pi!Next

LEMMA ConcatIs ==
  ASSUME NEW p \in Seq(Shown), NEW q \in Seq(Shown)
  PROVE  /\ DOMAIN (p \o q) = 1 .. Len(p) + Len(q)
         /\ p \o q = [i \in DOMAIN (p \o q) |-> (p \o q)[i]]
         /\ \A i \in 1 .. Len(p) : (p \o q)[i] = p[i]
         /\ \A i \in 1 .. Len(q) : (p \o q)[Len(p) + i] = q[i]
<1>1. p \o q \in Seq(Shown) /\ Len(p) \in Nat /\ Len(q) \in Nat
  OBVIOUS
<1>2. \A i \in 1 .. Len(p) : (p \o q)[i] = p[i]
  OBVIOUS
<1>3. ASSUME NEW i \in 1 .. Len(q) PROVE (p \o q)[Len(p) + i] = q[i]
  <2>1. Len(p) + i \in 1 .. Len(p) + Len(q) /\ Len(p) + i > Len(p) /\ (Len(p) + i) - Len(p) = i
    BY <1>1
  <2> QED
    BY <2>1
<1>4. DOMAIN (p \o q) = 1 .. Len(p) + Len(q)
  BY <1>1
<1>5. p \o q = [i \in DOMAIN (p \o q) |-> (p \o q)[i]]
  <2>1. p \o q \in [1 .. Len(p \o q) -> Shown]
    BY <1>1, LenProperties
  <2> QED
    BY <2>1
<1> QED
  BY <1>2, <1>3, <1>4, <1>5

LEMMA Rest ==
  ASSUME NEW a \in Nat, NEW b \in Nat, NEW i \in 1 .. a + b, i \notin 1 .. a
  PROVE  \E j \in 1 .. b : i = a + j
<1>1. i - a \in 1 .. b /\ i = a + (i - a)
  OBVIOUS
<1> QED
  BY <1>1

LEMMA PipesAreSound == prog \in Pi!Programs /\ PipesInv => PipesKeepMessages
<1> SUFFICES ASSUME PipesInv PROVE PipesKeepMessages
  BY DEF PipesInv, PipeTypes
<1>1. PipeTypes /\ s \in PipeState
  BY DEF PipesInv, PipeTypes
<1>2. Pi!TypeOK
  <2>1. s.data \in Seq(Messages)
    BY <1>1 DEF PipeState
  <2>2. \A i \in DOMAIN s.data : s.data[i] \in 1 .. (MaxTyped + 4)
    <3>1. \A i \in DOMAIN s.data : s.data[i] \in Messages
      BY <2>1
    <3> QED
      BY <3>1 DEF Messages
  <2> QED
    BY <1>1, <2>2 DEF Pi!TypeOK, PipeTypes, PipeState, Pi!NumMsgs
<1>3. /\ s.data \in Seq(Messages) /\ s.shown \in Seq(Shown) /\ s.sent \in 0 .. 3
      /\ Len(s.data) \in Nat /\ Len(s.shown) \in Nat /\ DOMAIN s.shown = 1 .. Len(s.shown)
  BY <1>1 DEF PipeState
<1>4. Pi!ChildShowsPrefix
  <2> SUFFICES ASSUME prog = "related_pipe", InRelated
               PROVE  /\ \A i \in DOMAIN s.shown : s.shown[i] = i
                      /\ \/ s.shown \o s.data = [i \in 1 .. s.sent |-> i]
                         \/ pc["second"] = "killed"
                      /\ pc["second"] # "sawEnd"
    BY DEF Pi!ChildShowsPrefix, PipesInv, Pi!At
  <2>1. ASSUME Follows, \A i \in 1 .. Len(s.shown) : s.shown[i] = i
        PROVE  s.shown \o s.data = [i \in 1 .. s.sent |-> i]
    <3> DEFINE q == s.shown \o s.data
    <3>1. /\ DOMAIN q = 1 .. Len(s.shown) + Len(s.data)
          /\ q = [i \in DOMAIN q |-> q[i]]
          /\ \A i \in 1 .. Len(s.shown) : q[i] = s.shown[i]
          /\ \A i \in 1 .. Len(s.data) : q[Len(s.shown) + i] = s.data[i]
      <4>1. s.shown \in Seq(Shown) /\ s.data \in Seq(Shown)
        <5>1. Messages \subseteq Shown
          BY PipeNumbers
        <5> QED
          BY <1>3, <5>1
      <4> QED
        BY <4>1, ConcatIs
    <3> HIDE DEF q
    <3>2. Len(s.shown) + Len(s.data) = s.sent
      BY <2>1 DEF Follows
    <3>3. ASSUME NEW i \in 1 .. s.sent PROVE q[i] = i
      <4>1. CASE i \in 1 .. Len(s.shown)
        BY <4>1, <2>1, <3>1
      <4>2. CASE i \notin 1 .. Len(s.shown)
        <5>1. PICK j \in 1 .. Len(s.data) : i = Len(s.shown) + j
          <6>1. i \in 1 .. Len(s.shown) + Len(s.data)
            BY <3>2
          <6> QED
            BY <4>2, <6>1, <1>3, Rest
        <5>2. q[i] = s.data[j]
          BY <5>1, <3>1
        <5> QED
          BY <5>1, <5>2, <2>1 DEF Follows
      <4> QED
        BY <4>1, <4>2
    <3> QED
      BY <3>1, <3>2, <3>3 DEF q
  <2> QED
    BY <1>3, <2>1 DEF InRelated
<1>5. Pi!FifoKeepsOrder
  BY <1>3 DEF Pi!FifoKeepsOrder, PipesInv, InFifo, FifoShown
<1>6. Pi!OnlyHandlerEndsPipe
  BY DEF Pi!OnlyHandlerEndsPipe, PipesInv, InPipe, Pi!At
<1> QED
  BY <1>2, <1>4, <1>5, <1>6 DEF PipesKeepMessages, Pi!PipesKeepMessages

\* In every run of the pipes and of the FIFO, however much is typed: the child
\* of related_pipe shows what its parent wrote, whole, in order and once, and
\* never sees the end of its pipe; the consumer of named_pipe prints what was
\* typed in the order of typing and nothing three times; and main() of pipe
\* ends with the message of its handler (related_pipe/main.c:26-77,
\* producer.c:15-33, consumer.c:16-30).
THEOREM PipesStayInOrder == Spec => []PipesKeepMessages
<1>1. Init => (prog \in Pi!Programs => PipesInv)
  BY OwnInit, PipesStart
<1>2. (prog \in Pi!Programs => PipesInv) /\ [Next]_vars => (prog \in Pi!Programs => PipesInv)'
  BY OwnSteps, PipesStep
<1>3. (prog \in Pi!Programs => PipesInv) => PipesKeepMessages
  BY PipesAreSound
  DEF PipesKeepMessages, Pi!PipesKeepMessages, Pi!ChildShowsPrefix, Pi!FifoKeepsOrder,
      Pi!OnlyHandlerEndsPipe, Pi!Programs
<1> QED
  BY <1>1, <1>2, <1>3, PTL DEF Spec
-----------------------------------------------------------------------------
(* The shared memory.  A segment without its key has lost it to a reader at *)
(* its end, and a line in a segment is the work of a writer that keeps it.  *)

MemoryPlaces ==
    {"none", "start", "wait", "count", "truncate", "use", "attach", "attached", "typing", "spin",
     "remove", "ended", "crashed"}

MemoryState ==
    [object : {"none", "empty", "zeros"}, view : [M!Attachers -> M!Texts], byte : Nat,
     key : 0 .. MaxSegments, made : 0 .. MaxSegments, seg : [M!Attachers -> 0 .. MaxSegments],
     text : [M!Segments -> M!Texts], ready : [Readers -> BOOLEAN],
     printed : [M!Attachers -> M!Texts \cup {"nothing"}], shown : [M!Family -> Nat]]

MemoryTypes ==
    /\ prog \in M!Programs
    /\ pc \in [M!Procs -> MemoryPlaces]
    /\ s \in MemoryState

InAnonymous ==
    /\ pc["parent"] = "none" => pc["child"] = "none"
    /\ pc["child"] = "ended" => s.shown["child"] = s.byte
    /\ s.shown["parent"] # 0 => pc["child"] = "ended" /\ s.shown["parent"] = s.byte

InPosix ==
    \A r \in Readers : s.view[r] = "zeros" /\ s.printed[r] \in {"nothing", "zeros"}

Stores(w, g) == s.seg[w] = g /\ pc[w] \in {"typing", "spin"}
TwoStore(g)  == \E v, w \in Writers : v # w /\ Stores(v, g) /\ Stores(w, g)

SegmentKeys ==
    /\ s.key \in {0, s.made}
    /\ \A p \in M!Attachers : pc[p] # "start" => s.seg[p] \in 1 .. s.made
    /\ \A g \in 1 .. s.made : g # s.key => \E r \in Readers : s.seg[r] = g /\ pc[r] = "ended"
    /\ \A p \in M!Attachers : pc[p] = "crashed" => s.seg[p] # s.key

SegmentTexts ==
    /\ \A g \in M!Segments : s.text[g] = "line" =>
          \E w \in Writers : s.seg[w] = g /\ pc[w] = "spin"
    /\ \A r \in Readers :
          /\ pc[r] \in {"start", "attach"} => ~s.ready[r]
          /\ pc[r] \in {"start", "attach", "attached"} => s.printed[r] = "nothing"
          /\ s.ready[r] => s.text[s.seg[r]] = "line" \/ TwoStore(s.seg[r])
          /\ s.ready[r] /\ s.printed[r] # "nothing" =>
                s.printed[r] = "line" \/ TwoStore(s.seg[r])

MemoryInv ==
    /\ MemoryTypes
    /\ prog = "anonymous" => InAnonymous
    /\ prog = "posix" => InPosix
    /\ prog = "system_v" => SegmentKeys /\ SegmentTexts

LEMMA MemoryNames ==
  /\ M!Attachers \cap M!Family = {} /\ Writers \cap Readers = {}
  /\ Writers \subseteq M!Attachers /\ Readers \subseteq M!Attachers
  /\ M!Procs = M!Attachers \cup M!Family /\ M!Attachers = Writers \cup Readers
  /\ MaxSegments \in Nat \ {0} /\ M!Segments = 1 .. MaxSegments
  BY ExercisesAssumption DEF M!Attachers, M!Family, M!Procs, M!Segments, Texts

LEMMA MemoryStart == M!Init => MemoryInv
<1> SUFFICES ASSUME M!Init PROVE MemoryInv
  OBVIOUS
<1>1. pc \in [M!Procs -> MemoryPlaces] /\ prog \in M!Programs
      /\ pc["parent"] = "none" /\ pc["child"] = "none"
      /\ \A p \in M!Attachers : pc[p] = "start"
  BY MemoryNames DEF M!Init, MemoryPlaces, M!Family
<1>2. s \in MemoryState
  BY MemoryNames DEF M!Init, MemoryState, M!NoSeg, M!Texts
<1>3. /\ s.shown["parent"] = 0 /\ s.key = 0 /\ s.made = 0
      /\ \A r \in Readers : s.view[r] = "zeros" /\ s.printed[r] = "nothing" /\ ~s.ready[r]
      /\ \A g \in M!Segments : s.text[g] = "zeros"
  BY MemoryNames DEF M!Init, M!NoSeg, M!Family
<1>4. 1 .. 0 = {}
  OBVIOUS
<1>5. SegmentKeys
  BY <1>1, <1>3, <1>4, MemoryNames DEF SegmentKeys
<1>6. SegmentTexts
  BY <1>1, <1>3, MemoryNames DEF SegmentTexts
<1> QED
  BY <1>1, <1>2, <1>3, <1>5, <1>6 DEF MemoryInv, MemoryTypes, InAnonymous, InPosix

LEMMA MemoryMoves ==
  ASSUME MemoryTypes, NEW p \in M!Procs, NEW from, NEW to \in MemoryPlaces, M!Step(p, from, to)
  PROVE  /\ pc[p] = from /\ pc'[p] = to /\ pc' \in [M!Procs -> MemoryPlaces]
         /\ \A q \in M!Procs \ {p} : pc'[q] = pc[q]
  BY DEF M!Step, M!At, M!Go, MemoryTypes

LEMMA AnonymousStep ==
  ASSUME MemoryInv, M!FamilySteps
  PROVE  MemoryInv'
<1>1. prog = "anonymous" /\ prog' = prog /\ InAnonymous /\ MemoryTypes /\ s \in MemoryState
      /\ {"parent", "child"} \subseteq M!Procs /\ {"parent", "child"} = M!Family
  BY MemoryNames
  DEF M!FamilySteps, M!MapAndFork, M!ChildCounts, M!ParentPrints, M!Here, MemoryInv, MemoryTypes,
      M!Family
<1>2. CASE M!MapAndFork
  <2>1. s' = [s EXCEPT !.byte = 65] /\ pc["parent"] = "none"
    BY <1>2 DEF M!MapAndFork, M!At
  <2>2. s' \in MemoryState /\ s'.shown = s.shown
    BY <1>1, <2>1 DEF MemoryState
  <2>3. pc' \in [M!Procs -> MemoryPlaces] /\ pc'["parent"] # "none" /\ pc'["child"] # "ended"
    BY <1>1, <1>2, <2>1 DEF M!MapAndFork, M!Go, MemoryTypes, MemoryPlaces, InAnonymous
  <2> QED
    BY <1>1, <2>1, <2>2, <2>3 DEF MemoryInv, MemoryTypes, InAnonymous
<1>3. CASE M!ChildCounts
  <2>1. s' = [s EXCEPT !.byte = @ + 1, !.shown["child"] = s.byte + 1]
    BY <1>3 DEF M!ChildCounts
  <2>2. /\ pc["child"] = "count" /\ pc'["child"] = "ended" /\ pc'["parent"] = pc["parent"]
        /\ pc' \in [M!Procs -> MemoryPlaces]
    BY <1>1, <1>3, MemoryMoves DEF M!ChildCounts, MemoryPlaces
  <2>3. s' \in MemoryState
    <3>1. s.byte + 1 \in Nat
      BY <1>1 DEF MemoryState
    <3> QED
      BY <1>1, <2>1, <3>1 DEF MemoryState
  <2>4. /\ s'.shown["parent"] = s.shown["parent"] /\ s'.shown["child"] = s.byte + 1
        /\ s'.byte = s.byte + 1
    BY <1>1, <2>1 DEF MemoryState
  <2> QED
    BY <1>1, <2>2, <2>3, <2>4 DEF MemoryInv, MemoryTypes, InAnonymous
<1>4. CASE M!ParentPrints
  <2>1. s' = [s EXCEPT !.shown["parent"] = s.byte] /\ pc["child"] = "ended"
    BY <1>4 DEF M!ParentPrints, M!At
  <2>2. /\ pc["parent"] = "wait" /\ pc'["parent"] = "ended" /\ pc'["child"] = pc["child"]
        /\ pc' \in [M!Procs -> MemoryPlaces]
    BY <1>1, <1>4, MemoryMoves DEF M!ParentPrints, MemoryPlaces
  <2>3. /\ s' \in MemoryState /\ s'.byte = s.byte
        /\ s'.shown["parent"] = s.byte /\ s'.shown["child"] = s.shown["child"]
    BY <1>1, <2>1 DEF MemoryState
  <2> QED
    BY <1>1, <2>1, <2>2, <2>3 DEF MemoryInv, MemoryTypes, InAnonymous
<1> QED
  BY <1>2, <1>3, <1>4 DEF M!FamilySteps

LEMMA PosixStep ==
  ASSUME MemoryInv, NEW p \in M!Attachers,
         \/ M!TruncateAndMap(p)
         \/ p \in Writers /\ (M!WriterOpens(p) \/ M!WriterUses(p))
         \/ p \in Readers /\ (M!ReaderOpens(p) \/ M!ReaderUses(p))
  PROVE  MemoryInv'
<1>1. prog = "posix" /\ prog' = prog /\ InPosix /\ MemoryTypes /\ s \in MemoryState /\ p \in M!Procs
  BY MemoryNames
  DEF M!TruncateAndMap, M!WriterOpens, M!WriterUses, M!ReaderOpens, M!ReaderUses, M!Here,
      MemoryInv, MemoryTypes
<1>2. PICK to \in {"truncate", "use", "ended"} : M!Step(p, pc[p], to)
  BY DEF M!TruncateAndMap, M!WriterOpens, M!WriterUses, M!ReaderOpens, M!ReaderUses, M!Step, M!At
<1>3. pc' \in [M!Procs -> MemoryPlaces]
  BY <1>1, <1>2, MemoryMoves DEF MemoryPlaces
<1>4. /\ s' \in MemoryState
      /\ \A r \in Readers : s'.view[r] = "zeros" /\ s'.printed[r] \in {"nothing", "zeros"}
  <2>1. CASE M!TruncateAndMap(p)
    <3>1. s' = [s EXCEPT !.object = IF @ = "empty" THEN "zeros" ELSE @, !.view[p] = "zeros"]
      BY <2>1 DEF M!TruncateAndMap
    <3> QED
      BY <1>1, <3>1, MemoryNames DEF InPosix, MemoryState, M!Texts
  <2>2. CASE p \in Writers /\ M!WriterOpens(p)
    <3>1. s' = [s EXCEPT !.object = IF @ = "none" THEN "empty" ELSE @]
      BY <2>2 DEF M!WriterOpens
    <3> QED
      BY <1>1, <3>1 DEF InPosix, MemoryState
  <2>3. CASE p \in Writers /\ M!WriterUses(p)
    <3>1. s' = [s EXCEPT !.view[p] = "line", !.printed[p] = "line"]
      BY <2>3 DEF M!WriterUses
    <3> QED
      BY <1>1, <2>3, <3>1, MemoryNames DEF InPosix, MemoryState, M!Texts
  <2>4. CASE p \in Readers /\ M!ReaderOpens(p)
    BY <1>1, <2>4 DEF M!ReaderOpens, InPosix
  <2>5. CASE p \in Readers /\ M!ReaderUses(p)
    <3>1. s' = [s EXCEPT !.printed[p] = s.view[p]] /\ s.view[p] = "zeros"
      BY <1>1, <2>5 DEF M!ReaderUses, InPosix
    <3> QED
      BY <1>1, <3>1, MemoryNames DEF InPosix, MemoryState, M!Texts
  <2> QED
    BY <2>1, <2>2, <2>3, <2>4, <2>5
<1> QED
  BY <1>1, <1>3, <1>4 DEF MemoryInv, MemoryTypes, InPosix

\* A step of system_v that leaves the texts and the readers' answers alone.
LEMMA TextsKept ==
  ASSUME MemoryTypes, SegmentTexts, SegmentKeys, NEW p \in M!Attachers,
         \A q \in M!Attachers \ {p} : pc'[q] = pc[q] /\ s'.seg[q] = s.seg[q],
         p \in Writers => pc[p] \notin {"typing", "spin"},
         p \in Readers => /\ pc'[p] \in {"start", "attach"} => ~s.ready[p]
                          /\ pc'[p] \in {"start", "attach", "attached"} =>
                                 s.printed[p] = "nothing"
                          /\ s.ready[p] => s'.seg[p] = s.seg[p],
         s'.text = s.text, s'.ready = s.ready, s'.printed = s.printed
  PROVE  SegmentTexts'
<1>1. \A w \in Writers : pc[w] \in {"typing", "spin"} =>
          pc'[w] = pc[w] /\ s'.seg[w] = s.seg[w]
  BY MemoryNames
<1> DEFINE Two(g) == \E v, w \in Writers : /\ v # w
                                            /\ s'.seg[v] = g /\ pc'[v] \in {"typing", "spin"}
                                            /\ s'.seg[w] = g /\ pc'[w] \in {"typing", "spin"}
<1>2. ASSUME NEW g, TwoStore(g) PROVE Two(g)
  BY <1>1, <1>2 DEF TwoStore, Stores
<1>3. \A g \in M!Segments : s'.text[g] = "line" =>
          \E w \in Writers : s'.seg[w] = g /\ pc'[w] = "spin"
  BY <1>1 DEF SegmentTexts
<1>4. ASSUME NEW r \in Readers
      PROVE  /\ pc'[r] \in {"start", "attach"} => ~s'.ready[r]
             /\ pc'[r] \in {"start", "attach", "attached"} => s'.printed[r] = "nothing"
             /\ s'.ready[r] => s'.seg[r] = s.seg[r]
  BY MemoryNames DEF SegmentTexts
<1>5. ASSUME NEW r \in Readers, s'.ready[r]
      PROVE  /\ s'.text[s'.seg[r]] = "line" \/ Two(s'.seg[r])
             /\ s'.printed[r] # "nothing" => s'.printed[r] = "line" \/ Two(s'.seg[r])
  <2>1. s'.seg[r] = s.seg[r] /\ s.ready[r]
    BY <1>4, <1>5
  <2>2. PICK g : g = s.seg[r]
    OBVIOUS
  <2>3. s.text[g] = "line" \/ TwoStore(g)
    BY <2>1, <2>2 DEF SegmentTexts
  <2>4. s.printed[r] # "nothing" => s.printed[r] = "line" \/ TwoStore(g)
    BY <2>1, <2>2 DEF SegmentTexts
  <2> HIDE DEF Two
  <2> QED
    BY <1>2, <2>1, <2>2, <2>3, <2>4
<1>6. \A r \in Readers : s'.ready[r] =>
             /\ s'.text[s'.seg[r]] = "line" \/ Two(s'.seg[r])
             /\ s'.printed[r] # "nothing" => s'.printed[r] = "line" \/ Two(s'.seg[r])
  BY <1>5
<1> QED
  BY <1>3, <1>4, <1>6 DEF SegmentTexts, TwoStore, Stores

LEMMA ShmGetStep ==
  ASSUME MemoryTypes, SegmentKeys, SegmentTexts, NEW p \in M!Attachers, M!ShmGet(p)
  PROVE  MemoryTypes' /\ SegmentKeys' /\ SegmentTexts'
<1> DEFINE g == IF s.key = 0 THEN s.made + 1 ELSE s.key
           m == IF s.key = 0 THEN g ELSE s.made
<1>1. /\ prog' = prog /\ s \in MemoryState /\ p \in M!Procs /\ M!Step(p, "start", "attach")
      /\ s.key # 0 \/ s.made < MaxSegments
      /\ s' = [s EXCEPT !.key = g, !.made = m, !.seg[p] = g]
  BY MemoryNames DEF M!ShmGet, M!Here, M!NoSeg, MemoryTypes
<1>2. /\ pc[p] = "start" /\ pc'[p] = "attach" /\ pc' \in [M!Procs -> MemoryPlaces]
      /\ \A q \in M!Procs \ {p} : pc'[q] = pc[q]
  BY <1>1, MemoryMoves DEF MemoryPlaces
<1>3. s.key \in {0, s.made} /\ s.made \in 0 .. MaxSegments /\ MaxSegments \in Nat
  BY <1>1, MemoryNames DEF SegmentKeys, MemoryState
<1>4. g \in 1 .. MaxSegments /\ m \in 0 .. MaxSegments /\ g = m /\ s.made <= m
  BY <1>1, <1>3
<1> HIDE DEF g, m
<1>5. s' \in MemoryState
  BY <1>1, <1>4 DEF MemoryState
<1>6. /\ s'.key = g /\ s'.made = m /\ s'.seg[p] = g /\ \A q \in M!Attachers \ {p} : s'.seg[q] = s.seg[q]
      /\ s'.text = s.text /\ s'.ready = s.ready /\ s'.printed = s.printed
  BY <1>1 DEF MemoryState
<1>7. \A q \in M!Attachers : q # p => pc'[q] = pc[q]
  BY <1>2, MemoryNames
<1>8. SegmentKeys'
  <2>1. ASSUME NEW q \in M!Attachers, pc'[q] # "start" PROVE s'.seg[q] \in 1 .. m
    <3>1. CASE q = p
      BY <3>1, <1>6, <1>4
    <3>2. CASE q # p
      <4>1. s.seg[q] \in 1 .. s.made /\ s'.seg[q] = s.seg[q]
        BY <3>2, <2>1, <1>6, <1>7 DEF SegmentKeys
      <4> QED
        BY <4>1, <1>3, <1>4
    <3> QED
      BY <3>1, <3>2
  <2>2. ASSUME NEW h \in 1 .. m, h # g PROVE \E r \in Readers : s'.seg[r] = h /\ pc'[r] = "ended"
    <3>1. h \in 1 .. s.made /\ h # s.key
      BY <2>2, <1>3, <1>4 DEF g, m
    <3>2. PICK r \in Readers : s.seg[r] = h /\ pc[r] = "ended"
      BY <3>1 DEF SegmentKeys
    <3> QED
      BY <3>2, <1>2, <1>6, <1>7, MemoryNames
  <2>3. ASSUME NEW q \in M!Attachers, pc'[q] = "crashed" PROVE s'.seg[q] # g
    <3>1. q # p /\ pc[q] = "crashed" /\ s'.seg[q] = s.seg[q]
      BY <2>3, <1>2, <1>6, <1>7
    <3>2. s.seg[q] # s.key /\ s.seg[q] \in 1 .. s.made
      BY <3>1 DEF SegmentKeys
    <3> QED
      BY <3>1, <3>2, <1>3 DEF g
  <2> QED
    BY <2>1, <2>2, <2>3, <1>4, <1>6 DEF SegmentKeys
<1>9. SegmentTexts'
  <2>1. p \in Readers => ~s.ready[p] /\ s.printed[p] = "nothing"
    BY <1>2 DEF SegmentTexts
  <2> QED
    BY <2>1, <1>2, <1>6, <1>7, TextsKept
<1> QED
  BY <1>1, <1>2, <1>5, <1>8, <1>9 DEF MemoryTypes

LEMMA ReaderRemovesStep ==
  ASSUME MemoryTypes, SegmentKeys, SegmentTexts, NEW p \in Readers, M!ReaderRemoves(p)
  PROVE  MemoryTypes' /\ SegmentKeys' /\ SegmentTexts'
<1> DEFINE k == IF s.key = s.seg[p] THEN 0 ELSE s.key
<1>1. /\ prog' = prog /\ s \in MemoryState /\ p \in M!Procs /\ p \in M!Attachers
      /\ M!Step(p, "remove", "ended") /\ s' = [s EXCEPT !.key = k]
  BY MemoryNames DEF M!ReaderRemoves, M!Here, M!NoSeg, MemoryTypes
<1>2. /\ pc[p] = "remove" /\ pc'[p] = "ended" /\ pc' \in [M!Procs -> MemoryPlaces]
      /\ \A q \in M!Procs \ {p} : pc'[q] = pc[q]
  BY <1>1, MemoryMoves DEF MemoryPlaces
<1>3. s' \in MemoryState
  <2>1. k \in 0 .. MaxSegments
    BY <1>1, MemoryNames DEF MemoryState
  <2> HIDE DEF k
  <2> QED
    BY <1>1, <2>1 DEF MemoryState
<1>4. /\ s'.key = k /\ s'.made = s.made /\ s'.seg = s.seg
      /\ s'.text = s.text /\ s'.ready = s.ready /\ s'.printed = s.printed
  BY <1>1 DEF MemoryState
<1>5. \A q \in M!Attachers : q # p => pc'[q] = pc[q]
  BY <1>2, MemoryNames
<1>6. \A q \in M!Attachers : pc'[q] = "crashed" => s.seg[q] # k
  <2>1. ASSUME NEW q \in M!Attachers, pc'[q] = "crashed"
        PROVE  s.seg[q] # s.key /\ s.seg[q] \in 1 .. s.made
    BY <2>1, <1>2, <1>5 DEF SegmentKeys
  <2> QED
    BY <2>1
<1>7. \A h \in 1 .. s.made : h # k => \E r \in Readers : s.seg[r] = h /\ pc'[r] = "ended"
  <2> SUFFICES ASSUME NEW h \in 1 .. s.made, h # k
               PROVE  \E r \in Readers : s.seg[r] = h /\ pc'[r] = "ended"
    OBVIOUS
  <2>1. CASE h = s.key
    BY <2>1, <1>2
  <2>2. CASE h # s.key
    <3>1. PICK r \in Readers : s.seg[r] = h /\ pc[r] = "ended"
      BY <2>2 DEF SegmentKeys
    <3> QED
      BY <3>1, <1>2, <1>5, MemoryNames
  <2> QED
    BY <2>1, <2>2
<1>8. \A q \in M!Attachers : pc'[q] # "start" => s.seg[q] \in 1 .. s.made
  BY <1>2, <1>5 DEF SegmentKeys
<1>9. SegmentKeys'
  <2>1. k \in {0, s.made}
    BY DEF SegmentKeys
  <2> HIDE DEF k
  <2> QED
    BY <2>1, <1>4, <1>6, <1>7, <1>8 DEF SegmentKeys
<1>10. SegmentTexts'
  BY <1>1, <1>2, <1>4, <1>5, TextsKept, MemoryNames
<1> QED
  BY <1>1, <1>2, <1>3, <1>9, <1>10 DEF MemoryTypes

LEMMA ShmAttachStep ==
  ASSUME MemoryTypes, SegmentKeys, SegmentTexts, NEW p \in M!Attachers, M!ShmAttach(p)
  PROVE  MemoryTypes' /\ SegmentKeys' /\ SegmentTexts'
<1> DEFINE to == IF M!Lives(s.seg[p]) THEN "attached" ELSE "crashed"
           R  == IF p \in Readers THEN [s.ready EXCEPT ![p] = M!Whole(s.seg[p])] ELSE s.ready
<1>1. /\ prog' = prog /\ s \in MemoryState /\ p \in M!Procs
      /\ M!Step(p, "attach", to) /\ s' = [s EXCEPT !.ready = R]
  BY MemoryNames DEF M!ShmAttach, M!Here, MemoryTypes
<1>2. to \in MemoryPlaces /\ to \in {"attached", "crashed"}
  BY DEF MemoryPlaces
<1>3. to = "crashed" => s.seg[p] # s.key
  BY DEF M!Lives
<1> HIDE DEF to
<1>4. /\ pc[p] = "attach" /\ pc'[p] = to /\ pc' \in [M!Procs -> MemoryPlaces]
      /\ \A q \in M!Procs \ {p} : pc'[q] = pc[q]
  BY <1>1, <1>2, MemoryMoves
<1>5. \A q \in M!Attachers : q # p => pc'[q] = pc[q]
  BY <1>4, MemoryNames
<1>6. /\ R \in [Readers -> BOOLEAN] /\ \A r \in Readers : r # p => R[r] = s.ready[r]
      /\ p \in Readers => (R[p] => s.text[s.seg[p]] = "line")
  BY <1>1 DEF MemoryState, M!Whole
<1> HIDE DEF R
<1>7. s' \in MemoryState /\ s'.ready = R
  BY <1>1, <1>6 DEF MemoryState
<1>8. /\ s'.key = s.key /\ s'.made = s.made /\ s'.seg = s.seg
      /\ s'.text = s.text /\ s'.printed = s.printed
  BY <1>1 DEF MemoryState
<1>9. SegmentKeys'
  <2>1. \A h \in 1 .. s.made : h # s.key => \E r \in Readers : s.seg[r] = h /\ pc'[r] = "ended"
    BY <1>4, <1>5, MemoryNames DEF SegmentKeys
  <2>2. \A q \in M!Attachers : pc'[q] # "start" => s.seg[q] \in 1 .. s.made
    BY <1>4, <1>5 DEF SegmentKeys
  <2>3. \A q \in M!Attachers : pc'[q] = "crashed" => s.seg[q] # s.key
    BY <1>3, <1>4, <1>5 DEF SegmentKeys
  <2> QED
    BY <1>8, <2>1, <2>2, <2>3 DEF SegmentKeys
<1>10. \A w \in Writers : pc[w] \in {"typing", "spin"} => pc'[w] = pc[w]
  BY <1>4, <1>5, MemoryNames
<1>11. SegmentTexts'
  <2>1. \A h \in M!Segments : s'.text[h] = "line" =>
            \E w \in Writers : s'.seg[w] = h /\ pc'[w] = "spin"
    BY <1>8, <1>10 DEF SegmentTexts
  <2>2. ASSUME NEW r \in Readers
        PROVE  /\ pc'[r] \in {"start", "attach"} => ~s'.ready[r]
               /\ pc'[r] \in {"start", "attach", "attached"} => s'.printed[r] = "nothing"
    BY <1>2, <1>4, <1>5, <1>6, <1>7, <1>8, MemoryNames DEF SegmentTexts
  <2>3. ASSUME NEW r \in Readers, s'.ready[r]
        PROVE  /\ s'.text[s.seg[r]] = "line" \/ TwoStore(s.seg[r])
               /\ s'.printed[r] # "nothing" => s'.printed[r] = "line" \/ TwoStore(s.seg[r])
    <3>1. CASE r = p
      BY <3>1, <2>3, <1>4, <1>6, <1>7, <1>8 DEF SegmentTexts
    <3>2. CASE r # p
      BY <3>2, <2>3, <1>6, <1>7, <1>8 DEF SegmentTexts
    <3> QED
      BY <3>1, <3>2
  <2>4. ASSUME NEW h, TwoStore(h)
        PROVE  \E v, w \in Writers : /\ v # w
                                     /\ s'.seg[v] = h /\ pc'[v] \in {"typing", "spin"}
                                     /\ s'.seg[w] = h /\ pc'[w] \in {"typing", "spin"}
    BY <2>4, <1>8, <1>10 DEF TwoStore, Stores
  <2> QED
    BY <2>1, <2>2, <2>3, <2>4, <1>8 DEF SegmentTexts, TwoStore, Stores
<1> QED
  BY <1>1, <1>4, <1>7, <1>9, <1>11 DEF MemoryTypes

\* A step between the first use of a segment and its removal leaves the keys.
LEMMA KeysKept ==
  ASSUME SegmentKeys, NEW p \in M!Attachers, pc[p] \notin {"start", "ended"}, pc'[p] # "crashed",
         \A q \in M!Attachers \ {p} : pc'[q] = pc[q],
         s'.key = s.key, s'.made = s.made, s'.seg = s.seg
  PROVE  SegmentKeys'
<1>1. \A h \in 1 .. s.made : h # s.key => \E r \in Readers : s.seg[r] = h /\ pc'[r] = "ended"
  BY MemoryNames DEF SegmentKeys
<1>2. \A q \in M!Attachers : pc'[q] # "start" => s.seg[q] \in 1 .. s.made
  BY DEF SegmentKeys
<1>3. \A q \in M!Attachers : pc'[q] = "crashed" => s.seg[q] # s.key
  BY DEF SegmentKeys
<1> QED
  BY <1>1, <1>2, <1>3 DEF SegmentKeys

LEMMA FgetsStoresStep ==
  ASSUME MemoryTypes, SegmentKeys, SegmentTexts, NEW w \in Writers, M!FgetsStores(w)
  PROVE  MemoryTypes' /\ SegmentKeys' /\ SegmentTexts'
<1>1. PICK from \in {"attached", "typing"}, to \in {"typing", "spin"}, t \in {"part", "line"} :
        /\ M!Step(w, from, to) /\ s' = [s EXCEPT !.text[s.seg[w]] = t]
        /\ from = "attached" => to = "typing" /\ t = "part"
        /\ from = "typing" => to = "spin" /\ t = "line"
  BY DEF M!FgetsStores
<1>2. /\ prog' = prog /\ s \in MemoryState /\ w \in M!Procs /\ w \in M!Attachers
      /\ w \notin Readers
  BY MemoryNames DEF M!FgetsStores, M!Here, MemoryTypes
<1>3. /\ pc[w] = from /\ pc'[w] = to /\ pc' \in [M!Procs -> MemoryPlaces]
      /\ \A q \in M!Procs \ {w} : pc'[q] = pc[q]
  BY <1>1, <1>2, MemoryMoves DEF MemoryPlaces
<1>4. \A q \in M!Attachers : q # w => pc'[q] = pc[q]
  BY <1>3, MemoryNames
<1>5. s' \in MemoryState
  BY <1>1, <1>2 DEF MemoryState, M!Texts
<1>6. PICK g : g = s.seg[w]
  OBVIOUS
<1>7. /\ s'.key = s.key /\ s'.made = s.made /\ s'.seg = s.seg
      /\ s'.ready = s.ready /\ s'.printed = s.printed
      /\ \A h \in M!Segments \ {g} : s'.text[h] = s.text[h]
      /\ g \in M!Segments => s'.text[g] = t
  BY <1>1, <1>2, <1>6 DEF MemoryState
<1>8. SegmentKeys'
  BY <1>1, <1>2, <1>3, <1>4, <1>7, KeysKept
<1>9. SegmentTexts'
  <2> DEFINE Two(h) == \E u, v \in Writers : /\ u # v
                                             /\ s.seg[u] = h /\ pc'[u] \in {"typing", "spin"}
                                             /\ s.seg[v] = h /\ pc'[v] \in {"typing", "spin"}
  <2>1. \A v \in Writers : pc[v] \in {"typing", "spin"} => pc'[v] \in {"typing", "spin"}
    BY <1>3, <1>4, MemoryNames
  <2>2. \A h : TwoStore(h) => Two(h)
    BY <2>1 DEF TwoStore, Stores
  <2>3. \A h \in M!Segments : s'.text[h] = "line" =>
            \E v \in Writers : s.seg[v] = h /\ pc'[v] = "spin"
    <3> SUFFICES ASSUME NEW h \in M!Segments, s'.text[h] = "line"
                 PROVE  \E v \in Writers : s.seg[v] = h /\ pc'[v] = "spin"
      OBVIOUS
    <3>1. CASE h = g
      BY <3>1, <1>1, <1>3, <1>6, <1>7
    <3>2. CASE h # g
      <4>1. PICK v \in Writers : s.seg[v] = h /\ pc[v] = "spin"
        BY <3>2, <1>7 DEF SegmentTexts
      <4> QED
        BY <4>1, <3>2, <1>6, <1>4, MemoryNames
    <3> QED
      BY <3>1, <3>2
  <2>4. ASSUME NEW r \in Readers
        PROVE  /\ pc'[r] \in {"start", "attach"} => ~s.ready[r]
               /\ pc'[r] \in {"start", "attach", "attached"} => s.printed[r] = "nothing"
    BY <1>2, <1>4, MemoryNames DEF SegmentTexts
  <2>5. ASSUME NEW r \in Readers, s.ready[r]
        PROVE  /\ s'.text[s.seg[r]] = "line" \/ Two(s.seg[r])
               /\ s.printed[r] # "nothing" => s.printed[r] = "line" \/ Two(s.seg[r])
    <3> PICK h : h = s.seg[r]
      OBVIOUS
    <3>1. s.text[h] = "line" \/ TwoStore(h)
      BY <2>5 DEF SegmentTexts
    <3>2. s.printed[r] # "nothing" => s.printed[r] = "line" \/ TwoStore(h)
      BY <2>5 DEF SegmentTexts
    <3>3. h \in M!Segments
      <4>1. pc[r] \notin {"start", "attach"}
        BY <2>5 DEF SegmentTexts
      <4>2. h \in 1 .. s.made /\ s.made \in 0 .. MaxSegments
        BY <4>1, <1>2, MemoryNames DEF SegmentKeys, MemoryState
      <4> QED
        BY <4>2, MemoryNames
    <3>4. CASE TwoStore(h)
      BY <3>4, <2>2
    <3>5. CASE h # g /\ s.text[h] = "line"
      BY <3>2, <3>3, <3>5, <2>2, <1>7
    <3>6. CASE h = g /\ s.text[h] = "line" /\ from = "attached"
      <4>1. PICK v \in Writers : s.seg[v] = h /\ pc[v] = "spin"
        BY <3>3, <3>6 DEF SegmentTexts
      <4>2. v # w /\ pc'[v] = "spin" /\ pc'[w] = "typing"
        BY <4>1, <3>6, <1>1, <1>3, <1>4, MemoryNames
      <4> QED
        BY <4>1, <4>2, <3>6, <1>6
    <3>7. CASE h = g /\ s.text[h] = "line" /\ from = "typing"
      BY <3>2, <3>3, <3>7, <2>2, <1>1, <1>7
    <3> HIDE DEF Two
    <3> QED
      BY <3>1, <3>4, <3>5, <3>6, <3>7
  <2>6. \A r \in Readers : s.ready[r] =>
               /\ s'.text[s.seg[r]] = "line" \/ Two(s.seg[r])
               /\ s.printed[r] # "nothing" => s.printed[r] = "line" \/ Two(s.seg[r])
    BY <2>5
  <2> QED
    BY <2>3, <2>4, <2>6, <1>7 DEF SegmentTexts, TwoStore, Stores
<1> QED
  BY <1>2, <1>3, <1>5, <1>8, <1>9 DEF MemoryTypes

LEMMA ReaderPrintsStep ==
  ASSUME MemoryTypes, SegmentKeys, SegmentTexts, NEW p \in Readers, M!ReaderPrints(p)
  PROVE  MemoryTypes' /\ SegmentKeys' /\ SegmentTexts'
<1>1. /\ prog' = prog /\ s \in MemoryState /\ p \in M!Procs /\ p \in M!Attachers
      /\ M!Step(p, "attached", "remove")
      /\ s' = [s EXCEPT !.printed[p] = s.text[s.seg[p]]]
  BY MemoryNames DEF M!ReaderPrints, M!Here, MemoryTypes
<1>2. /\ pc[p] = "attached" /\ pc'[p] = "remove" /\ pc' \in [M!Procs -> MemoryPlaces]
      /\ \A q \in M!Procs \ {p} : pc'[q] = pc[q]
  BY <1>1, MemoryMoves DEF MemoryPlaces
<1>3. \A q \in M!Attachers : q # p => pc'[q] = pc[q]
  BY <1>2, MemoryNames
<1>4. s.seg[p] \in M!Segments
  <2>1. s.seg[p] \in 1 .. s.made /\ s.made \in 0 .. MaxSegments
    BY <1>1, <1>2 DEF SegmentKeys, MemoryState
  <2> QED
    BY <2>1, MemoryNames
<1>5. s' \in MemoryState
  BY <1>1, <1>4 DEF MemoryState
<1>6. /\ s'.key = s.key /\ s'.made = s.made /\ s'.seg = s.seg
      /\ s'.text = s.text /\ s'.ready = s.ready
      /\ s'.printed[p] = s.text[s.seg[p]]
      /\ \A r \in Readers : r # p => s'.printed[r] = s.printed[r]
  BY <1>1, MemoryNames DEF MemoryState
<1>7. SegmentKeys'
  BY <1>1, <1>2, <1>3, <1>6, KeysKept
<1>8. SegmentTexts'
  <2>1. \A w \in Writers : pc'[w] = pc[w]
    BY <1>3, MemoryNames
  <2>2. ASSUME NEW r \in Readers
        PROVE  /\ pc'[r] \in {"start", "attach"} => ~s.ready[r]
               /\ pc'[r] \in {"start", "attach", "attached"} => s'.printed[r] = "nothing"
    BY <1>2, <1>3, <1>6, MemoryNames DEF SegmentTexts
  <2>3. ASSUME NEW r \in Readers, s.ready[r]
        PROVE  /\ s.text[s.seg[r]] = "line" \/ TwoStore(s.seg[r])
               /\ s'.printed[r] # "nothing" => s'.printed[r] = "line" \/ TwoStore(s.seg[r])
    BY <2>3, <1>6 DEF SegmentTexts
  <2> QED
    BY <2>1, <2>2, <2>3, <1>6 DEF SegmentTexts, TwoStore, Stores
<1> QED
  BY <1>1, <1>2, <1>5, <1>7, <1>8 DEF MemoryTypes

LEMMA MemoryStep == MemoryInv /\ [M!Next]_vars => MemoryInv'
<1> SUFFICES ASSUME MemoryInv, [M!Next]_vars PROVE MemoryInv'
  OBVIOUS
<1>1. CASE M!FamilySteps
  BY <1>1, AnonymousStep
<1>2. ASSUME NEW p \in M!Attachers, M!Steps(p) PROVE MemoryInv'
  <2>1. CASE \/ M!TruncateAndMap(p)
             \/ p \in Writers /\ (M!WriterOpens(p) \/ M!WriterUses(p))
             \/ p \in Readers /\ (M!ReaderOpens(p) \/ M!ReaderUses(p))
    BY <2>1, PosixStep
  <2>2. CASE \/ M!ShmGet(p) \/ M!ShmAttach(p)
             \/ p \in Writers /\ M!FgetsStores(p)
             \/ p \in Readers /\ (M!ReaderPrints(p) \/ M!ReaderRemoves(p))
    <3>1. prog = "system_v" /\ prog' = "system_v"
      BY <2>2 DEF M!ShmGet, M!ShmAttach, M!FgetsStores, M!ReaderPrints, M!ReaderRemoves, M!Here
    <3>2. MemoryTypes /\ SegmentKeys /\ SegmentTexts
      BY <3>1 DEF MemoryInv
    <3>3. MemoryTypes' /\ SegmentKeys' /\ SegmentTexts'
      BY <2>2, <3>2, ShmGetStep, ShmAttachStep, FgetsStoresStep, ReaderPrintsStep,
         ReaderRemovesStep
    <3> QED
      BY <3>1, <3>3 DEF MemoryInv
  <2> QED
    BY <1>2, <2>1, <2>2 DEF M!Steps
<1>3. CASE UNCHANGED vars
  BY <1>3
  DEF vars, MemoryInv, MemoryTypes, InAnonymous, InPosix, SegmentKeys, SegmentTexts, TwoStore, Stores
<1> QED
  BY <1>1, <1>2, <1>3 DEF M!Next

LEMMA TwoAreMore ==
  ASSUME NEW W, IsFiniteSet(W), NEW v \in W, NEW w \in W, v # w
  PROVE  M!Cardinality(W) > 1
<1>1. Cardinality(W) \in Nat
  BY FS_CardinalityType
<1>2. Cardinality(W) # 0
  <2>1. W # {}
    OBVIOUS
  <2> QED
    BY <2>1, FS_EmptySet
<1>3. Cardinality(W) # 1
  <2>1. \A x : W # {x}
    OBVIOUS
  <2>2. Cardinality(W) = 1 <=> \E x : W = {x}
    BY FS_Singleton
  <2> QED
    BY <2>1, <2>2
<1>4. Cardinality(W) = M!Cardinality(W)
  BY DEF Cardinality, M!Cardinality
<1>5. \A n \in Nat : n # 0 /\ n # 1 => n > 1
  OBVIOUS
<1> QED
  BY <1>1, <1>2, <1>3, <1>4, <1>5

LEMMA MemoryIsSound == prog \in M!Programs /\ MemoryInv => MemoryIsKept
<1> SUFFICES ASSUME MemoryInv PROVE MemoryIsKept
  BY DEF MemoryInv, MemoryTypes
<1>1. MemoryTypes /\ s \in MemoryState
  BY DEF MemoryInv, MemoryTypes
<1>2. M!TypeOK
  BY <1>1 DEF M!TypeOK, MemoryTypes, MemoryState
<1>3. M!ParentSeesChild
  BY DEF M!ParentSeesChild, MemoryInv, InAnonymous
<1>4. M!PrivateStaysPrivate
  BY DEF M!PrivateStaysPrivate, MemoryInv, InPosix
<1>5. ASSUME prog = "system_v", NEW r \in Readers, s.ready[r], s.printed[r] # "nothing",
             s.printed[r] # "line"
      PROVE  M!Cardinality({w \in Writers : /\ s.seg[w] = s.seg[r]
                                            /\ pc[w] \in {"typing", "spin"}}) > 1
  <2> DEFINE W == {w \in Writers : s.seg[w] = s.seg[r] /\ pc[w] \in {"typing", "spin"}}
  <2>1. PICK v, w \in Writers : v # w /\ v \in W /\ w \in W
    BY <1>5 DEF MemoryInv, SegmentTexts, TwoStore, Stores
  <2>2. IsFiniteSet(W)
    BY ExercisesAssumption, FS_Subset
  <2> QED
    BY <2>1, <2>2, TwoAreMore
<1>6. M!AttachedIsKept
  BY <1>5 DEF M!AttachedIsKept
<1>7. ASSUME prog = "system_v", NEW p \in M!Attachers, pc[p] = "crashed"
      PROVE  s.seg[p] # s.key /\ \E r \in Readers : s.seg[r] = s.seg[p] /\ pc[r] = "ended"
  BY <1>7 DEF MemoryInv, SegmentKeys
<1>8. M!CrashedByRemoval
  BY <1>7 DEF M!CrashedByRemoval, M!At
<1> QED
  BY <1>2, <1>3, <1>4, <1>6, <1>8 DEF MemoryIsKept, M!MemoryIsKept

\* In every run of the shared memory programs the parent prints what its child
\* printed, no reader of file-mapping sees what a writer wrote, a reader of
\* system_v that comes after a whole line prints one unless two writers share
\* its segment, and only a removal between shmget() and shmat() lets a process
\* crash (main.c:17-42, writter.c:26-80, reader.c:37-85).
THEOREM MemoryStaysKept == Spec => []MemoryIsKept
<1>1. Init => (prog \in M!Programs => MemoryInv)
  BY OwnInit, MemoryStart
<1>2. (prog \in M!Programs => MemoryInv) /\ [Next]_vars => (prog \in M!Programs => MemoryInv)'
  BY OwnSteps, MemoryStep
<1>3. (prog \in M!Programs => MemoryInv) => MemoryIsKept
  BY MemoryIsSound DEF MemoryIsKept, M!MemoryIsKept, M!ParentSeesChild, M!PrivateStaysPrivate,
     M!AttachedIsKept, M!CrashedByRemoval, M!Programs
<1> QED
  BY <1>1, <1>2, <1>3, PTL DEF Spec
-----------------------------------------------------------------------------
(* The sockets.  What a client of chat has unread or unwritten depends on   *)
(* where it and the server stand as long as it is not left; a server with a *)
(* path binds once; and a text of the other programs carries its sender.    *)

SocketPlaces ==
    {"start", "failed", "dead", "accept", "read", "answer", "recvfrom", "type", "write", "ended",
     "killed"}

Carried == So!Lines \cup Clients

SocketState ==
    [path : BOOLEAN, peer : Clients \cup {"nobody"}, queued : Seq(Clients),
     up : [Clients -> Seq(Carried)], down : [Clients -> Seq(Carried)],
     reset : [Clients -> BOOLEAN], grams : Seq(Clients), lines : 0 .. MaxLines,
     starts : 0 .. MaxStarts, served : SUBSET Clients, got : [Clients -> Clients \cup {"none"}]]

SocketTypes ==
    /\ prog \in So!Programs
    /\ pc \in [Clients \cup {"server"} -> SocketPlaces]
    /\ s \in SocketState
    /\ pc["server"] = "read" => s.peer \in Clients

Waits(c) == \E i \in DOMAIN s.queued : s.queued[i] = c

Backlog ==
    /\ \A i, j \in DOMAIN s.queued : s.queued[i] = s.queued[j] => i = j
    /\ \A c \in Clients : pc[c] = "start" => ~Waits(c) /\ s.peer # c
    /\ ~Waits(s.peer)
    /\ pc["server"] \in {"start", "accept"} => s.peer = "nobody"
    /\ pc["server"] = "start" => s.queued = <<>>
    /\ pc["server"] \in {"start", "accept", "read", "answer", "dead"}
    /\ pc["server"] = "answer" => s.peer \in Clients

Turn(c) ==
    /\ Len(s.up[c]) + Len(s.down[c]) <= 1
    /\ pc[c] = "start" => s.up[c] = <<>> /\ s.down[c] = <<>> /\ ~s.reset[c]
    /\ ~So!Left(c) =>
          /\ pc[c] \in {"type", "read", "ended", "killed"}
          /\ pc[c] \in {"type", "read"} => ~s.reset[c]
          /\ pc[c] = "type" => s.up[c] = <<>> /\ s.down[c] = <<>>
          /\ pc[c] = "ended" => s.up[c] = <<"exit">>
          /\ \A i \in DOMAIN s.down[c] : s.down[c][i] # "exit"
          /\ pc["server"] = "answer" /\ s.peer = c =>
                /\ pc[c] \in {"read", "killed"}
                /\ pc[c] = "read" => s.up[c] = <<>> /\ s.down[c] = <<>>

InChat ==
    /\ Backlog /\ \A c \in Clients : Turn(c)
    /\ pc["server"] = "dead" => \E c \in Clients : pc[c] = "killed"

Own(c, q) == q \in Seq(Carried) /\ \A i \in DOMAIN q : q[i] = c
OwnTexts  == \A c \in Clients : Own(c, s.up[c]) /\ Own(c, s.down[c])

BindsOnce ==
    /\ ~s.path => s.starts = 0 /\ pc["server"] = "start" /\ s.served = {}
    /\ So!Up => s.starts <= 1

ServesFirst ==
    /\ \A c, d \in s.served : c = d
    /\ pc["server"] \in {"start", "accept", "read", "failed"}
    /\ pc["server"] = "accept" => s.served = {}
    /\ pc["server"] = "read" => s.served \subseteq {s.peer}

SocketsInv ==
    /\ SocketTypes
    /\ \A c \in Clients : s.got[c] \in {"none", c}
    /\ prog = "chat" => InChat
    /\ prog # "chat" => OwnTexts
    /\ prog \in So!Unix => BindsOnce
    /\ prog = "unix_stream" => ServesFirst

LEMMA SocketNames ==
  /\ "server" \notin Clients /\ "nobody" \notin Clients /\ "none" \notin Clients
  /\ Clients \subseteq Carried /\ {"text", "exit"} \subseteq Carried
  /\ MaxLines \in Nat \ {0} /\ MaxStarts \in Nat \ {0}
  BY ExercisesAssumption DEF Texts, Carried, So!Lines

LEMMA SocketsStart == So!Init => SocketsInv
<1> SUFFICES ASSUME So!Init PROVE SocketsInv
  OBVIOUS
<1>1. /\ prog \in So!Programs /\ \A p \in Clients \cup {"server"} : pc[p] = "start"
      /\ pc \in [Clients \cup {"server"} -> SocketPlaces]
  BY DEF So!Init, SocketPlaces
<1>2. <<>> \in Seq(Carried) /\ <<>> \in Seq(Clients) /\ 0 \in 0 .. MaxLines /\ 0 \in 0 .. MaxStarts
  BY SocketNames
<1>3. s \in SocketState
  BY <1>2 DEF So!Init, SocketState, So!Nobody
<1>4. /\ s.path = FALSE /\ s.peer = "nobody" /\ s.queued = <<>> /\ s.starts = 0 /\ s.served = {}
      /\ \A c \in Clients : /\ s.up[c] = <<>> /\ s.down[c] = <<>> /\ s.reset[c] = FALSE
                            /\ s.got[c] = "none"
  BY DEF So!Init, So!Nobody
<1>5. DOMAIN <<>> = {} /\ Len(<<>>) = 0
  OBVIOUS
<1>6. /\ Backlog /\ BindsOnce /\ pc["server"] = "start" /\ ServesFirst
  BY <1>1, <1>4, <1>5, SocketNames DEF Backlog, BindsOnce, ServesFirst, So!Up, Waits
<1>8. OwnTexts
  BY <1>2, <1>4, <1>5 DEF OwnTexts, Own
<1>7. \A c \in Clients : Turn(c)
  <2>1. \A c \in Clients : So!Left(c)
    BY <1>1 DEF So!Left, So!Up
  <2>2. 0 + 0 <= 1
    OBVIOUS
  <2> QED
    BY <1>1, <1>4, <1>5, <2>1, <2>2 DEF Turn
<1> QED
  BY <1>1, <1>3, <1>4, <1>6, <1>7, <1>8 DEF SocketsInv, SocketTypes, InChat

LEMMA SocketFacts ==
  ASSUME SocketsInv
  PROVE  /\ prog \in So!Programs /\ pc \in [Clients \cup {"server"} -> SocketPlaces]
         /\ s \in SocketState /\ s.queued \in Seq(Clients) /\ s.grams \in Seq(Clients)
         /\ s.up \in [Clients -> Seq(Carried)] /\ s.down \in [Clients -> Seq(Carried)]
         /\ s.got \in [Clients -> Clients \cup {"none"}] /\ s.served \in SUBSET Clients
         /\ s.reset \in [Clients -> BOOLEAN] /\ s.lines \in 0 .. MaxLines
         /\ s.starts \in 0 .. MaxStarts /\ s.peer \in Clients \cup {"nobody"} /\ s.path \in BOOLEAN
         /\ pc["server"] = "read" => s.peer \in Clients
         /\ \A c \in Clients : s.got[c] \in {"none", c}
         /\ prog = "chat" => InChat
         /\ prog # "chat" => OwnTexts
         /\ prog \in So!Unix => BindsOnce
         /\ prog = "unix_stream" => ServesFirst
         /\ "server" \in Clients \cup {"server"} /\ "server" \notin Clients
  BY SocketNames DEF SocketsInv, SocketTypes, SocketState

LEMMA SocketMoves ==
  ASSUME SocketsInv, NEW p \in Clients \cup {"server"}, NEW from, NEW to \in SocketPlaces,
         So!Step(p, from, to)
  PROVE  /\ pc[p] = from /\ pc'[p] = to /\ pc' \in [Clients \cup {"server"} -> SocketPlaces]
         /\ \A q \in Clients \cup {"server"} : q # p => pc'[q] = pc[q]
  BY SocketFacts DEF So!Step, So!At, So!Go

\* A step that has no part in the serving: only texts and clients change.
LEMMA ServerKept ==
  ASSUME SocketsInv, prog # "chat", prog' = prog,
         pc' \in [Clients \cup {"server"} -> SocketPlaces], s' \in SocketState,
         pc'["server"] = pc["server"], s'.peer = s.peer, s'.path = s.path, s'.starts = s.starts,
         s'.served = s.served, OwnTexts', \A c \in Clients : s'.got[c] \in {"none", c}
  PROVE  SocketsInv'
<1>1. BindsOnce => BindsOnce'
  BY DEF BindsOnce, So!Up
<1>2. ServesFirst => ServesFirst'
  BY DEF ServesFirst
<1> QED
  BY <1>1, <1>2, SocketFacts DEF SocketsInv, SocketTypes

LEMMA ServerSteps ==
  ASSUME SocketsInv, prog # "chat", So!ServerStarts \/ So!ServerKilled
  PROVE  SocketsInv'
<1>1. CASE So!ServerStarts
  <2> DEFINE f == IF prog \in So!Unix THEN TRUE ELSE s.path
  <2>1. PICK to \in {"failed", "accept", "recvfrom"} :
          /\ So!Step("server", "start", to) /\ prog' = prog /\ s.starts < MaxStarts
          /\ s' = [s EXCEPT !.starts = @ + 1, !.path = f]
          /\ prog = "unix_stream" => to \in {"failed", "accept"}
          /\ prog \in So!Unix => (to = "failed" <=> s.path)
    BY <1>1, SocketFacts
    DEF So!ServerStarts, So!StartChat, So!StartUnixStream, So!StartUnixDgram, So!StartIpv4Dgram,
        So!BindPort, So!BindPath, So!Here, So!Unix, SocketState
  <2>2. /\ pc["server"] = "start" /\ pc'["server"] = to
        /\ pc' \in [Clients \cup {"server"} -> SocketPlaces]
    BY <2>1, SocketMoves DEF SocketPlaces
  <2>3. s.starts + 1 \in 0 .. MaxStarts /\ f \in BOOLEAN
    <3>1. /\ s.starts \in 0 .. MaxStarts /\ MaxStarts \in Nat /\ s.starts < MaxStarts
          /\ s.path \in BOOLEAN
      BY <2>1, SocketFacts, SocketNames
    <3>2. s.starts + 1 \in 0 .. MaxStarts
      BY <3>1
    <3> QED
      BY <3>1, <3>2
  <2> HIDE DEF f
  <2>4. s' \in SocketState
    BY <2>1, <2>3, SocketFacts DEF SocketState
  <2>5. /\ s'.starts = s.starts + 1 /\ s'.path = f /\ s'.peer = s.peer /\ s'.up = s.up
        /\ s'.down = s.down /\ s'.served = s.served /\ s'.got = s.got
    BY <2>1, SocketFacts DEF SocketState
  <2>6. OwnTexts'
    BY <2>5, SocketFacts DEF OwnTexts
  <2>7. prog \in So!Unix => BindsOnce'
    <3>1. prog \in So!Unix /\ ~s.path => s.starts + 1 <= 1
      <4>1. prog \in So!Unix /\ ~s.path => s.starts = 0
        BY SocketFacts DEF BindsOnce
      <4>2. 0 + 1 <= 1
        OBVIOUS
      <4> QED
        BY <4>1, <4>2
    <3> QED
      BY <2>1, <2>2, <2>5, <3>1 DEF BindsOnce, So!Up, f
  <2>8. prog = "unix_stream" => ServesFirst'
    <3> SUFFICES ASSUME prog = "unix_stream" PROVE ServesFirst'
      OBVIOUS
    <3>1. BindsOnce /\ ServesFirst /\ prog \in So!Unix
      BY SocketFacts DEF So!Unix
    <3>2. to = "accept" => s.served = {}
      BY <2>1, <3>1 DEF BindsOnce
    <3> QED
      BY <2>1, <2>2, <2>5, <3>1, <3>2 DEF ServesFirst
  <2> QED
    BY <2>1, <2>2, <2>4, <2>5, <2>6, <2>7, <2>8, SocketFacts DEF SocketsInv, SocketTypes
<1>2. CASE So!ServerKilled
  <2>1. /\ prog' = prog /\ So!Step("server", pc["server"], "start")
        /\ So!Up \/ pc["server"] = "failed"
        /\ s' = [s EXCEPT !.peer = "nobody", !.queued = <<>>, !.grams = <<>>,
                          !.reset = [c \in Clients |-> TRUE]]
    BY <1>2 DEF So!ServerKilled, So!Here, So!Step, So!At, So!Nobody
  <2>2. pc'["server"] = "start" /\ pc' \in [Clients \cup {"server"} -> SocketPlaces]
    BY <2>1, SocketMoves DEF SocketPlaces
  <2>3. <<>> \in Seq(Clients) /\ [c \in Clients |-> TRUE] \in [Clients -> BOOLEAN]
    OBVIOUS
  <2>4. s' \in SocketState
    BY <2>1, <2>3, SocketFacts DEF SocketState
  <2>5. /\ s'.starts = s.starts /\ s'.path = s.path /\ s'.up = s.up
        /\ s'.down = s.down /\ s'.served = s.served /\ s'.got = s.got
    BY <2>1, SocketFacts DEF SocketState
  <2>6. OwnTexts'
    BY <2>5, SocketFacts DEF OwnTexts
  <2>7. prog \in So!Unix => BindsOnce'
    BY <2>2, <2>5, SocketFacts DEF BindsOnce, So!Up
  <2>8. prog = "unix_stream" => ServesFirst'
    BY <2>2, <2>5, SocketFacts DEF ServesFirst
  <2> QED
    BY <2>1, <2>2, <2>4, <2>5, <2>6, <2>7, <2>8, SocketFacts DEF SocketsInv, SocketTypes
<1> QED
  BY <1>1, <1>2

LEMMA OwnAppend ==
  ASSUME NEW c \in Clients, NEW q, Own(c, q)
  PROVE  Own(c, Append(q, c)) /\ q \in Seq(Carried) /\ Append(q, c) \in Seq(Carried)
<1>1. c \in Carried /\ q \in Seq(Carried) /\ \A i \in DOMAIN q : q[i] = c
  BY SocketNames DEF Own
<1>2. Append(q, c) \in Seq(Carried) /\ Len(q) \in Nat /\ DOMAIN q = 1 .. Len(q)
      /\ DOMAIN Append(q, c) = 1 .. Len(q) + 1
  BY <1>1
<1>3. ASSUME NEW i \in 1 .. Len(q) + 1 PROVE Append(q, c)[i] = c
  <2>1. CASE i = Len(q) + 1
    BY <1>1, <2>1
  <2>2. CASE i # Len(q) + 1
    <3>1. i \in 1 .. Len(q)
      BY <1>2, <2>2
    <3> QED
      BY <1>1, <1>2, <3>1
  <2> QED
    BY <2>1, <2>2
<1> QED
  BY <1>1, <1>2, <1>3 DEF Own

LEMMA OwnTail ==
  ASSUME NEW c \in Clients, NEW q, Own(c, q), q # <<>>
  PROVE  Head(q) = c /\ Own(c, Tail(q)) /\ Tail(q) \in Seq(Carried)
<1>0. q \in Seq(Carried) /\ \A i \in DOMAIN q : q[i] = c
  BY DEF Own
<1>1. /\ Len(q) \in Nat /\ Len(q) > 0 /\ DOMAIN q = 1 .. Len(q) /\ Head(q) = q[1]
      /\ Tail(q) \in Seq(Carried) /\ DOMAIN Tail(q) = 1 .. Len(q) - 1
      /\ \A i \in 1 .. Len(q) - 1 : Tail(q)[i] = q[i + 1]
  BY <1>0
<1>2. 1 \in 1 .. Len(q) /\ \A i \in 1 .. Len(q) - 1 : i + 1 \in 1 .. Len(q)
  BY <1>1
<1> QED
  BY <1>0, <1>1, <1>2 DEF Own

LEMMA ClientQueue ==
  ASSUME NEW q \in Seq(Clients)
  PROVE  /\ \A c \in Clients : Append(q, c) \in Seq(Clients)
         /\ q # <<>> => Head(q) \in Clients /\ Tail(q) \in Seq(Clients)
  OBVIOUS

LEMMA StreamSteps ==
  ASSUME SocketsInv, prog = "unix_stream",
         \/ \E c \in Clients : So!Connect(c) \/ So!WriteRequest(c) \/ So!ReadReply(c)
         \/ So!Accept \/ So!UpperAndReply
  PROVE  SocketsInv'
<1> USE SocketFacts
<1>1. prog # "chat" /\ prog' = prog /\ OwnTexts /\ {"write", "read", "killed", "failed"} \subseteq SocketPlaces
      /\ \A c \in Clients : c \in Clients \cup {"server"} /\ c # "server"
  BY DEF So!Connect, So!WriteRequest, So!ReadReply, So!Accept, So!UpperAndReply, So!Here,
         SocketPlaces
<1>2. ASSUME NEW c \in Clients, So!Connect(c) PROVE SocketsInv'
  <2>1. PICK to \in {"write", "failed"} : So!Step(c, "start", to)
    BY <1>1, <1>2 DEF So!Connect
  <2>2. pc' \in [Clients \cup {"server"} -> SocketPlaces] /\ pc'["server"] = pc["server"]
    BY <1>1, <2>1, SocketMoves
  <2>3. s' = s \/ s' = [s EXCEPT !.queued = Append(s.queued, c)]
    BY <1>2 DEF So!Connect, SocketState
  <2>4. Append(s.queued, c) \in Seq(Clients)
    BY ClientQueue
  <2>5. /\ s' \in SocketState /\ s'.peer = s.peer /\ s'.path = s.path /\ s'.starts = s.starts
        /\ s'.served = s.served /\ s'.up = s.up /\ s'.down = s.down /\ s'.got = s.got
    BY <2>3, <2>4 DEF SocketState
  <2>6. OwnTexts'
    BY <1>1, <2>5 DEF OwnTexts
  <2> QED
    BY <1>1, <2>2, <2>5, <2>6, ServerKept
<1>3. ASSUME NEW c \in Clients, So!WriteRequest(c) PROVE SocketsInv'
  <2> DEFINE q == IF So!Left(c) THEN s.up[c] ELSE Append(s.up[c], c)
  <2>1. PICK to \in {"killed", "read"} : So!Step(c, "write", to)
    BY <1>3 DEF So!WriteRequest
  <2>2. pc' \in [Clients \cup {"server"} -> SocketPlaces] /\ pc'["server"] = pc["server"]
    BY <1>1, <2>1, SocketMoves
  <2>3. s' = [s EXCEPT !.up[c] = q]
    BY <1>3 DEF So!WriteRequest, SocketState
  <2>4. q \in Seq(Carried) /\ Own(c, q)
    BY <1>1, OwnAppend DEF OwnTexts
  <2> HIDE DEF q
  <2>5. /\ s' \in SocketState /\ s'.peer = s.peer /\ s'.path = s.path /\ s'.starts = s.starts
        /\ s'.served = s.served /\ s'.down = s.down /\ s'.got = s.got /\ s'.up[c] = q
        /\ \A d \in Clients : d # c => s'.up[d] = s.up[d]
    BY <2>3, <2>4 DEF SocketState
  <2>6. OwnTexts'
    BY <1>1, <2>4, <2>5 DEF OwnTexts
  <2> QED
    BY <1>1, <2>2, <2>5, <2>6, ServerKept
<1>4. ASSUME NEW c \in Clients, So!ReadReply(c) PROVE SocketsInv'
  <2>1. /\ s.down[c] # <<>> /\ pc' = pc
        /\ s' = [s EXCEPT !.got[c] = Head(s.down[c]), !.down[c] = Tail(s.down[c])]
    BY <1>4 DEF So!ReadReply, SocketState
  <2>2. Head(s.down[c]) = c /\ Tail(s.down[c]) \in Seq(Carried)
        /\ Own(c, Tail(s.down[c]))
    BY <1>1, <2>1, OwnTail DEF OwnTexts
  <2> DEFINE q == Tail(s.down[c])
  <2>3. s' = [s EXCEPT !.got[c] = c, !.down[c] = q]
    BY <2>1, <2>2
  <2> HIDE DEF q
  <2>4. /\ s' \in SocketState /\ s'.peer = s.peer /\ s'.path = s.path /\ s'.starts = s.starts
        /\ s'.served = s.served /\ s'.up = s.up /\ s'.down[c] = q /\ s'.got[c] = c
        /\ \A d \in Clients : d # c => s'.down[d] = s.down[d] /\ s'.got[d] = s.got[d]
    BY <2>2, <2>3 DEF SocketState, q
  <2>5. OwnTexts'
    BY <1>1, <2>2, <2>4 DEF OwnTexts, q
  <2> QED
    BY <1>1, <2>1, <2>4, <2>5, ServerKept
<1>5. CASE So!Accept
  <2>1. /\ pc["server"] = "accept" /\ pc'["server"] = "read"
        /\ pc' \in [Clients \cup {"server"} -> SocketPlaces]
    BY <1>1, <1>5, SocketMoves DEF So!Accept
  <2>2. /\ s' = [s EXCEPT !.peer = Head(s.queued), !.queued = Tail(s.queued)]
        /\ Head(s.queued) \in Clients /\ Tail(s.queued) \in Seq(Clients)
    BY <1>5, ClientQueue DEF So!Accept, SocketState
  <2>3. /\ s' \in SocketState /\ s'.peer \in Clients /\ s'.path = s.path /\ s'.starts = s.starts
        /\ s'.served = s.served /\ s'.up = s.up /\ s'.down = s.down /\ s'.got = s.got
    BY <2>2 DEF SocketState
  <2>4. OwnTexts' /\ BindsOnce'
    BY <1>1, <2>1, <2>3 DEF OwnTexts, BindsOnce, So!Up, So!Unix
  <2>5. ServesFirst'
    BY <2>1, <2>3 DEF ServesFirst
  <2> QED
    BY <1>1, <2>1, <2>3, <2>4, <2>5 DEF SocketsInv, SocketTypes
<1>6. CASE So!UpperAndReply
  <2> DEFINE p == s.peer
             q == Tail(s.up[p])
             r == Append(s.down[p], p)
  <2>1. pc["server"] = "read" /\ pc' = pc /\ p \in Clients /\ s.up[p] # <<>>
    BY <1>6 DEF So!UpperAndReply, So!At
  <2>2. /\ Head(s.up[p]) = p /\ q \in Seq(Carried) /\ Own(p, q)
        /\ r \in Seq(Carried) /\ Own(p, r)
    BY <1>1, <2>1, OwnTail, OwnAppend DEF OwnTexts
  <2>3. s' = [s EXCEPT !.up[p] = q, !.down[p] = r, !.served = s.served \cup {p}]
    BY <1>6, <2>1, <2>2 DEF So!UpperAndReply, SocketState
  <2>4. p = s.peer
    OBVIOUS
  <2> HIDE DEF p, q, r
  <2>5. /\ s' \in SocketState /\ s'.peer = s.peer /\ s'.path = s.path /\ s'.starts = s.starts
        /\ s'.served = s.served \cup {p} /\ s'.got = s.got /\ s'.up[p] = q /\ s'.down[p] = r
        /\ \A d \in Clients : d # p => s'.up[d] = s.up[d] /\ s'.down[d] = s.down[d]
    BY <2>1, <2>2, <2>3 DEF SocketState
  <2>6. OwnTexts'
    BY <1>1, <2>2, <2>5 DEF OwnTexts
  <2>7. BindsOnce'
    BY <1>1, <2>1, <2>5 DEF BindsOnce, So!Up, So!Unix
  <2>8. ServesFirst'
    BY <2>1, <2>4, <2>5 DEF ServesFirst
  <2> QED
    BY <1>1, <2>1, <2>5, <2>6, <2>7, <2>8 DEF SocketsInv, SocketTypes
<1> QED
  BY <1>2, <1>3, <1>4, <1>5, <1>6

LEMMA DgramSteps ==
  ASSUME SocketsInv, prog \in So!Dgram,
         \/ \E c \in Clients : So!SendToUnix(c) \/ So!SendToIpv4(c) \/ So!RecvFrom(c)
         \/ So!Echo \/ So!Lose
  PROVE  SocketsInv'
<1> USE SocketFacts
<1>1. prog # "chat" /\ prog' = prog /\ OwnTexts
      /\ {"recvfrom", "failed", "ended"} \subseteq SocketPlaces
      /\ \A c \in Clients : c \in Clients \cup {"server"} /\ c # "server"
  BY DEF So!SendToUnix, So!SendToIpv4, So!RecvFrom, So!Echo, So!Lose, So!Here, So!Dgram,
         SocketPlaces
<1>2. ASSUME NEW c \in Clients, So!SendToUnix(c) \/ So!SendToIpv4(c) PROVE SocketsInv'
  <2>1. PICK to \in {"recvfrom", "failed"} : So!Step(c, "start", to)
    BY <1>2 DEF So!SendToUnix, So!SendToIpv4
  <2>2. pc' \in [Clients \cup {"server"} -> SocketPlaces] /\ pc'["server"] = pc["server"]
    <3>1. to \in SocketPlaces /\ c \in Clients \cup {"server"} /\ "server" # c
      BY <1>1
    <3> QED
      BY <2>1, <3>1, SocketMoves
  <2>3. PICK q \in Seq(Clients) : s' = [s EXCEPT !.grams = q]
    <3>1. s' = [s EXCEPT !.grams = IF So!Up THEN Append(s.grams, c) ELSE s.grams]
      BY <1>2 DEF So!SendToUnix, So!SendToIpv4, SocketState
    <3> QED
      BY <3>1, ClientQueue
  <2>4. /\ s' \in SocketState /\ s'.peer = s.peer /\ s'.path = s.path /\ s'.starts = s.starts
        /\ s'.served = s.served /\ s'.up = s.up /\ s'.down = s.down /\ s'.got = s.got
    BY <2>3 DEF SocketState
  <2>5. OwnTexts'
    BY <1>1, <2>4 DEF OwnTexts
  <2> QED
    BY <1>1, <2>2, <2>4, <2>5, ServerKept
<1>3. CASE So!Lose
  <2>1. s' = [s EXCEPT !.grams = Tail(s.grams)] /\ Tail(s.grams) \in Seq(Clients) /\ pc' = pc
    BY <1>3, ClientQueue DEF So!Lose, SocketState
  <2>2. /\ s' \in SocketState /\ s'.peer = s.peer /\ s'.path = s.path /\ s'.starts = s.starts
        /\ s'.served = s.served /\ s'.up = s.up /\ s'.down = s.down /\ s'.got = s.got
    BY <2>1 DEF SocketState
  <2>3. OwnTexts'
    BY <1>1, <2>2 DEF OwnTexts
  <2> QED
    BY <1>1, <2>1, <2>2, <2>3, ServerKept
<1>4. CASE So!Echo
  <2> DEFINE c == Head(s.grams)
             r == IF So!Gone(c) THEN s.down[c] ELSE Append(s.down[c], c)
             t == Tail(s.grams)
  <2>1. pc["server"] = "recvfrom" /\ pc' = pc /\ c \in Clients /\ t \in Seq(Clients)
    BY <1>4, ClientQueue DEF So!Echo, So!At
  <2>2. r \in Seq(Carried) /\ Own(c, r)
    BY <1>1, <2>1, OwnAppend DEF OwnTexts
  <2>3. s' = [s EXCEPT !.grams = t, !.served = s.served \cup {c}, !.down[c] = r]
    BY <1>4, <2>1 DEF So!Echo, SocketState
  <2> HIDE DEF c, r, t
  <2>4. /\ s' \in SocketState /\ s'.peer = s.peer /\ s'.path = s.path /\ s'.starts = s.starts
        /\ s'.served = s.served \cup {c} /\ s'.got = s.got /\ s'.up = s.up /\ s'.down[c] = r
        /\ \A d \in Clients : d # c => s'.down[d] = s.down[d]
    BY <2>1, <2>2, <2>3 DEF SocketState
  <2>5. OwnTexts'
    BY <1>1, <2>2, <2>4 DEF OwnTexts
  <2>6. prog \in So!Unix => BindsOnce'
    BY <2>1, <2>4 DEF BindsOnce, So!Up
  <2> QED
    BY <1>1, <2>1, <2>4, <2>5, <2>6 DEF SocketsInv, SocketTypes, So!Dgram
<1>5. ASSUME NEW c \in Clients, So!RecvFrom(c) PROVE SocketsInv'
  <2> DEFINE q == Tail(s.down[c])
  <2>1. /\ pc' \in [Clients \cup {"server"} -> SocketPlaces] /\ pc'["server"] = pc["server"]
        /\ s.down[c] # <<>>
    BY <1>1, <1>5, SocketMoves DEF So!RecvFrom
  <2>2. Head(s.down[c]) = c /\ q \in Seq(Carried) /\ Own(c, q)
    BY <1>1, <2>1, OwnTail DEF OwnTexts
  <2>3. s' = [s EXCEPT !.got[c] = c, !.down[c] = q]
    BY <1>5, <2>2 DEF So!RecvFrom, SocketState
  <2> HIDE DEF q
  <2>4. /\ s' \in SocketState /\ s'.peer = s.peer /\ s'.path = s.path /\ s'.starts = s.starts
        /\ s'.served = s.served /\ s'.up = s.up /\ s'.down[c] = q /\ s'.got[c] = c
        /\ \A d \in Clients : d # c => s'.down[d] = s.down[d] /\ s'.got[d] = s.got[d]
    BY <2>2, <2>3 DEF SocketState
  <2>5. OwnTexts'
    BY <1>1, <2>2, <2>4 DEF OwnTexts
  <2> QED
    BY <1>1, <2>1, <2>4, <2>5, ServerKept
<1> QED
  BY <1>2, <1>3, <1>4, <1>5

LEMMA OneUnread ==
  ASSUME NEW p \in Seq(Carried), NEW q \in Seq(Carried), Len(p) + Len(q) <= 1, q # <<>>
  PROVE  /\ p = <<>> /\ Tail(q) = <<>> /\ Tail(q) \in Seq(Carried)
         /\ Head(q) = q[1] /\ q[1] \in Carried /\ 1 \in DOMAIN q
<1>1. /\ Len(q) \in Nat /\ Len(q) > 0 /\ Len(p) \in Nat /\ Tail(q) \in Seq(Carried)
      /\ Len(Tail(q)) = Len(q) - 1 /\ Head(q) = q[1] /\ DOMAIN q = 1 .. Len(q)
  OBVIOUS
<1>2. Len(p) = 0 /\ Len(q) = 1
  BY <1>1
<1>3. Len(Tail(q)) = 0
  BY <1>1, <1>2
<1>4. \A u \in Seq(Carried) : Len(u) = 0 => u = <<>>
  OBVIOUS
<1>5. 1 \in DOMAIN q /\ q[1] \in Carried
  BY <1>1, <1>2
<1> QED
  BY <1>1, <1>2, <1>3, <1>4, <1>5

LEMMA OneLine ==
  ASSUME NEW line \in Carried
  PROVE  /\ Append(<<>>, line) = <<line>> /\ <<line>> \in Seq(Carried) /\ Len(<<line>>) = 1
         /\ DOMAIN <<line>> = {1} /\ <<line>>[1] = line
  OBVIOUS

LEMMA LeftIs ==
  ASSUME NEW c
  PROVE  /\ So!Left(c) <=> ~So!Up \/ (s.peer # c /\ ~Waits(c))
         /\ So!Left(c)' <=> ~So!Up' \/ (s'.peer # c /\ ~Waits(c)')
  BY DEF So!Left, Waits

LEMMA ChatFacts ==
  ASSUME SocketsInv, prog = "chat"
  PROVE  /\ Backlog /\ \A c \in Clients : Turn(c)
         /\ pc["server"] = "dead" => \E c \in Clients : pc[c] = "killed"
         /\ pc["server"] \in {"start", "accept", "read", "answer", "dead"}
         /\ pc["server"] \in {"read", "answer"} => s.peer \in Clients /\ ~So!Left(s.peer)
         /\ \A c \in Clients : /\ s.up[c] \in Seq(Carried) /\ Len(s.up[c]) \in Nat
                               /\ s.down[c] \in Seq(Carried) /\ Len(s.down[c]) \in Nat
<1>1. InChat /\ Backlog
  BY SocketFacts DEF InChat
<1>2. pc["server"] \in {"read", "answer"} => s.peer \in Clients
  BY <1>1, SocketFacts DEF Backlog
<1>3. pc["server"] \in {"read", "answer"} => So!Up
  BY DEF So!Up
<1>4. \A c \in Clients : /\ s.up[c] \in Seq(Carried) /\ Len(s.up[c]) \in Nat
                         /\ s.down[c] \in Seq(Carried) /\ Len(s.down[c]) \in Nat
  BY SocketFacts
<1> QED
  BY <1>1, <1>2, <1>3, <1>4, LeftIs DEF InChat, Backlog

\* A step of a client that has connected.
LEMMA ChatClient ==
  ASSUME SocketsInv, prog = "chat", prog' = prog, NEW c \in Clients,
         pc[c] \in {"type", "read"}, NEW to \in {"type", "read", "ended", "killed", "failed"},
         So!Step(c, pc[c], to), s' \in SocketState,
         s'.peer = s.peer, s'.queued = s.queued, s'.got = s.got,
         \A d \in Clients : d # c => /\ s'.up[d] = s.up[d] /\ s'.down[d] = s.down[d]
                                     /\ s'.reset[d] = s.reset[d],
         Len(s'.up[c]) + Len(s'.down[c]) <= 1,
         ~So!Left(c) =>
              /\ to # "failed"
              /\ to \in {"type", "read"} => ~s'.reset[c]
              /\ to = "type" => s'.up[c] = <<>> /\ s'.down[c] = <<>>
              /\ to = "ended" => s'.up[c] = <<"exit">>
              /\ \A i \in DOMAIN s'.down[c] : s'.down[c][i] # "exit"
              /\ pc["server"] = "answer" /\ s.peer = c => to = "killed"
  PROVE  SocketsInv'
<1>1. /\ pc'[c] = to /\ pc'["server"] = pc["server"]
      /\ pc' \in [Clients \cup {"server"} -> SocketPlaces]
      /\ \A d \in Clients : d # c => pc'[d] = pc[d]
  <2>1. to \in SocketPlaces /\ c \in Clients \cup {"server"} /\ "server" # c
    BY SocketNames DEF SocketPlaces
  <2> QED
    BY <2>1, SocketMoves
<1>2. \A d : /\ Waits(d)' <=> Waits(d)
             /\ So!Left(d)' <=> So!Left(d)
  BY <1>1 DEF Waits, So!Left, So!Up
<1>3. Backlog'
  <2>1. Backlog
    BY ChatFacts
  <2> QED
    BY <1>1, <1>2, <2>1 DEF Backlog, Waits
<1>4. ASSUME NEW d \in Clients PROVE Turn(d)'
  <2>1. CASE d = c
    BY <2>1, <1>1, <1>2 DEF Turn
  <2>2. CASE d # c
    <3>1. Turn(d)
      BY ChatFacts
    <3>2. /\ pc'[d] = pc[d] /\ s'.up[d] = s.up[d] /\ s'.down[d] = s.down[d]
          /\ s'.reset[d] = s.reset[d]
      BY <2>2, <1>1
    <3>3. (~So!Left(d))' => ~So!Left(d)
      BY <1>2
    <3> QED
      BY <3>1, <3>2, <3>3, <1>1 DEF Turn
  <2> QED
    BY <2>1, <2>2
<1>5. pc'["server"] = "dead" => \E d \in Clients : pc'[d] = "killed"
  <2>1. pc["server"] = "dead" => \E d \in Clients : pc[d] = "killed"
    BY ChatFacts
  <2> QED
    BY <1>1, <2>1
<1>6. InChat'
  BY <1>3, <1>4, <1>5 DEF InChat
<1> QED
  BY <1>1, <1>6, SocketFacts DEF SocketsInv, SocketTypes, So!Unix

LEMMA ChatClientSteps ==
  ASSUME SocketsInv, prog = "chat", NEW c \in Clients,
         \/ So!ClientReads(c) \/ So!ClientKilled(c)
         \/ \E line \in So!Lines : So!ClientTypes(c, line)
  PROVE  SocketsInv'
<1>1. /\ prog' = prog /\ Turn(c) /\ s \in SocketState
      /\ s.up[c] \in Seq(Carried) /\ s.down[c] \in Seq(Carried)
      /\ Len(s.up[c]) \in Nat /\ Len(s.down[c]) \in Nat
  BY SocketFacts, ChatFacts DEF So!ClientReads, So!ClientKilled, So!ClientTypes, So!Here
<1>2. CASE So!ClientReads(c)
  <2>1. pc[c] = "read"
    BY <1>2 DEF So!ClientReads, So!At
  <2>2. CASE s.down[c] # <<>> /\ s' = [s EXCEPT !.down[c] = Tail(s.down[c])]
             /\ So!Go(c, IF Head(s.down[c]) = "exit" THEN "ended" ELSE "type")
    <3> DEFINE q == Tail(s.down[c])
    <3>1. Len(s.up[c]) + Len(s.down[c]) <= 1
      BY <1>1 DEF Turn
    <3>2. /\ q \in Seq(Carried) /\ s.up[c] = <<>> /\ q = <<>>
          /\ Head(s.down[c]) = s.down[c][1] /\ 1 \in DOMAIN s.down[c]
      BY <1>1, <2>2, <3>1, OneUnread
    <3>3. ~So!Left(c) => Head(s.down[c]) # "exit"
      BY <1>1, <3>2 DEF Turn
    <3> DEFINE to == IF Head(s.down[c]) = "exit" THEN "ended" ELSE "type"
    <3>4. So!Step(c, pc[c], to) /\ to \in {"type", "ended"} /\ (~So!Left(c) => to = "type")
      BY <2>2, <3>3 DEF So!Step, So!At
    <3>5. s' = [s EXCEPT !.down[c] = q]
      BY <2>2
    <3> HIDE DEF q, to
    <3>6. /\ s' \in SocketState /\ s'.peer = s.peer /\ s'.queued = s.queued /\ s'.got = s.got
          /\ s'.up = s.up /\ s'.down[c] = q /\ s'.reset = s.reset
          /\ \A d \in Clients : d # c => s'.down[d] = s.down[d]
      BY <1>1, <3>2, <3>5 DEF SocketState
    <3>7. ~So!Left(c) => ~s.reset[c] /\ ~(pc["server"] = "answer" /\ s.peer = c)
      BY <1>1, <2>1, <2>2 DEF Turn
    <3>8. DOMAIN <<>> = {} /\ Len(<<>>) = 0 /\ 0 + 0 <= 1
      OBVIOUS
    <3> QED
      BY <1>1, <2>1, <3>2, <3>4, <3>6, <3>7, <3>8, ChatClient
  <2>3. CASE s.down[c] = <<>> /\ So!Left(c) /\ UNCHANGED s
             /\ So!Go(c, IF s.reset[c] THEN "failed" ELSE "type")
    <3> DEFINE to == IF s.reset[c] THEN "failed" ELSE "type"
    <3>1. So!Step(c, pc[c], to) /\ to \in {"type", "failed"}
      BY <2>3 DEF So!Step, So!At
    <3>2. Len(s.up[c]) + Len(s.down[c]) <= 1
      BY <1>1 DEF Turn
    <3> HIDE DEF to
    <3> QED
      BY <1>1, <2>1, <2>3, <3>1, <3>2, ChatClient
  <2>4. s' = [s EXCEPT !.down[c] = Tail(@)] => s' = [s EXCEPT !.down[c] = Tail(s.down[c])]
    BY <1>1 DEF SocketState
  <2> QED
    BY <1>2, <2>2, <2>3, <2>4 DEF So!ClientReads
<1>3. CASE So!ClientKilled(c)
  <2> DEFINE b == s.reset[c] \/ s.down[c] # <<>>
  <2>1. pc[c] \in {"type", "read"} /\ So!Step(c, pc[c], "killed") /\ b \in BOOLEAN
        /\ s' = [s EXCEPT !.reset[c] = b]
    BY <1>1, <1>3 DEF So!ClientKilled, So!Step, So!At, SocketState
  <2> HIDE DEF b
  <2>2. /\ s' \in SocketState /\ s'.peer = s.peer /\ s'.queued = s.queued /\ s'.got = s.got
        /\ s'.up = s.up /\ s'.down = s.down
        /\ \A d \in Clients : d # c => s'.reset[d] = s.reset[d]
    BY <1>1, <2>1 DEF SocketState
  <2>3. /\ Len(s.up[c]) + Len(s.down[c]) <= 1
        /\ ~So!Left(c) => \A i \in DOMAIN s.down[c] : s.down[c][i] # "exit"
    BY <1>1 DEF Turn
  <2> QED
    BY <1>1, <2>1, <2>2, <2>3, ChatClient
<1>4. ASSUME NEW line \in So!Lines, So!ClientTypes(c, line) PROVE SocketsInv'
  <2>1. pc[c] = "type" /\ s.lines < MaxLines
    BY <1>4 DEF So!ClientTypes, So!At
  <2>2. /\ Len(s.up[c]) + Len(s.down[c]) <= 1
        /\ ~So!Left(c) => /\ s.up[c] = <<>> /\ s.down[c] = <<>> /\ ~s.reset[c]
                          /\ ~(pc["server"] = "answer" /\ s.peer = c)
    BY <1>1, <2>1 DEF Turn
  <2>3. CASE s.reset[c] /\ So!Go(c, "failed") /\ UNCHANGED s
    <3>1. So!Step(c, pc[c], "failed") /\ So!Left(c)
      BY <2>2, <2>3 DEF So!Step, So!At
    <3> QED
      BY <1>1, <2>1, <2>2, <2>3, <3>1, ChatClient
  <2>4. CASE ~s.reset[c]
    <3> DEFINE q  == IF So!Left(c) THEN s.up[c] ELSE Append(s.up[c], line)
               b  == So!Left(c)
               to == IF line = "exit" THEN "ended" ELSE "read"
    <3>1. /\ So!Step(c, pc[c], to) /\ to \in {"ended", "read"} /\ b \in BOOLEAN
          /\ s' = [s EXCEPT !.lines = s.lines + 1, !.up[c] = q, !.reset[c] = b]
      BY <1>1, <1>4, <2>4 DEF So!ClientTypes, So!Step, So!At, So!Left, SocketState
    <3>2. q \in Seq(Carried) /\ (~So!Left(c) => q = <<line>> /\ Len(q) = 1)
          /\ (So!Left(c) => q = s.up[c])
      <4>1. line \in Carried
        BY DEF Carried
      <4> QED
        BY <1>1, <2>2, <4>1, OneLine
    <3>3. s.lines + 1 \in 0 .. MaxLines
      BY <2>1, SocketFacts, SocketNames
    <3>4. to = "ended" => line = "exit"
      OBVIOUS
    <3>5. b = So!Left(c)
      OBVIOUS
    <3> HIDE DEF q, b, to
    <3>6. /\ s' \in SocketState /\ s'.peer = s.peer /\ s'.queued = s.queued /\ s'.got = s.got
          /\ s'.up[c] = q /\ s'.down = s.down /\ s'.reset[c] = b
          /\ \A d \in Clients : d # c => s'.up[d] = s.up[d] /\ s'.reset[d] = s.reset[d]
      BY <1>1, <3>1, <3>2, <3>3 DEF SocketState
    <3>7. DOMAIN <<>> = {} /\ Len(<<>>) = 0 /\ 1 + 0 <= 1
      OBVIOUS
    <3>8. Len(s'.up[c]) + Len(s'.down[c]) <= 1
      BY <2>2, <3>2, <3>6, <3>7
    <3> QED
      BY <1>1, <2>1, <2>2, <3>1, <3>2, <3>4, <3>5, <3>6, <3>7, <3>8, ChatClient
  <2> QED
    BY <1>4, <2>3, <2>4 DEF So!ClientTypes
<1> QED
  BY <1>2, <1>3, <1>4

\* A step of the server that stays with its peer or leaves it.
LEMMA ChatServer ==
  ASSUME SocketsInv, prog = "chat", prog' = prog, NEW c \in Clients, c = s.peer, ~So!Left(c),
         pc["server"] \in {"read", "answer"}, NEW to \in {"accept", "read", "answer", "dead"},
         So!Step("server", pc["server"], to), s' \in SocketState,
         s'.queued = s.queued, s'.got = s.got, s'.peer = IF to = "accept" THEN "nobody" ELSE c,
         \A d \in Clients : d # c => /\ s'.up[d] = s.up[d] /\ s'.down[d] = s.down[d]
                                     /\ s'.reset[d] = s.reset[d],
         Len(s'.up[c]) + Len(s'.down[c]) <= 1,
         to = "dead" => pc[c] = "killed",
         to \in {"read", "answer"} =>
              /\ pc[c] \in {"type", "read"} => ~s'.reset[c]
              /\ pc[c] = "type" => s'.up[c] = <<>> /\ s'.down[c] = <<>>
              /\ pc[c] = "ended" => s'.up[c] = <<"exit">>
              /\ \A i \in DOMAIN s'.down[c] : s'.down[c][i] # "exit",
         to = "answer" => /\ pc[c] \in {"read", "killed"}
                          /\ pc[c] = "read" => s'.up[c] = <<>> /\ s'.down[c] = <<>>
  PROVE  SocketsInv'
<1>1. /\ pc'["server"] = to /\ pc' \in [Clients \cup {"server"} -> SocketPlaces]
      /\ \A d \in Clients : pc'[d] = pc[d]
  <2>1. to \in SocketPlaces /\ "server" \in Clients \cup {"server"} /\ "server" \notin Clients
    BY SocketNames DEF SocketPlaces
  <2>2. /\ pc'["server"] = to /\ pc' \in [Clients \cup {"server"} -> SocketPlaces]
        /\ \A q \in Clients \cup {"server"} : q # "server" => pc'[q] = pc[q]
    BY <2>1, SocketMoves
  <2>3. \A d \in Clients : d \in Clients \cup {"server"} /\ d # "server"
    BY <2>1
  <2> QED
    BY <2>2, <2>3
<1>2. Backlog /\ Turn(c) /\ So!Up
  BY ChatFacts DEF So!Up
<1>3. pc[c] \in {"type", "read", "ended", "killed"}
  BY <1>2 DEF Turn
<1>4. \A d : Waits(d)' <=> Waits(d)
  BY DEF Waits
<1>5. Backlog'
  <2>1. ~Waits("nobody")
    BY SocketFacts, SocketNames DEF Waits
  <2>2. ~Waits(s'.peer)
    BY <1>2, <2>1 DEF Backlog
  <2>3. ~Waits(s.peer)'
    BY <2>2 DEF Waits
  <2>4. \A d \in Clients : pc'[d] = "start" => ~Waits(d)' /\ s'.peer # d
    BY <1>1, <1>2, <1>4, SocketNames DEF Backlog
  <2> QED
    BY <1>1, <1>2, <2>3, <2>4 DEF Backlog, Waits
<1>6. ASSUME NEW d \in Clients, d # c PROVE Turn(d)'
  <2>1. Turn(d) /\ s.peer # d /\ s'.peer # d
    BY <1>6, ChatFacts, SocketNames
  <2>2. (~So!Left(d))' => ~So!Left(d)
    BY <1>2, <1>4, <2>1, LeftIs
  <2>3. /\ pc'[d] = pc[d] /\ s'.up[d] = s.up[d] /\ s'.down[d] = s.down[d]
        /\ s'.reset[d] = s.reset[d]
    BY <1>1, <1>6
  <2> QED
    BY <2>1, <2>2, <2>3 DEF Turn
<1>7. Turn(c)'
  <2>1. pc[c] # "start"
    BY <1>3
  <2>2. CASE to \in {"read", "answer"}
    BY <1>1, <1>3, <2>1, <2>2 DEF Turn
  <2>3. CASE to \in {"accept", "dead"}
    <3>1. So!Left(c)'
      <4>1. to = "dead" => ~So!Up'
        BY <1>1 DEF So!Up
      <4>2. to = "accept" => s'.peer # c /\ ~Waits(c)'
        BY <1>2, <1>4, SocketNames DEF Backlog
      <4> QED
        BY <2>3, <4>1, <4>2, LeftIs
    <3> QED
      BY <1>1, <2>1, <3>1 DEF Turn
  <2> QED
    BY <2>2, <2>3
<1>8. pc'["server"] = "dead" => \E d \in Clients : pc'[d] = "killed"
  BY <1>1
<1>9. InChat'
  BY <1>5, <1>6, <1>7, <1>8 DEF InChat
<1> QED
  BY <1>1, <1>9, SocketFacts DEF SocketsInv, SocketTypes, So!Unix

LEMMA ChatServerSteps ==
  ASSUME SocketsInv, prog = "chat", So!ServerReads \/ \E line \in So!Lines : So!ServerAnswers(line)
  PROVE  SocketsInv'
<1> DEFINE c == s.peer
<1>1. /\ prog' = prog /\ s \in SocketState /\ pc["server"] \in {"read", "answer"}
      /\ c \in Clients /\ ~So!Left(c) /\ Turn(c)
      /\ s.up[c] \in Seq(Carried) /\ s.down[c] \in Seq(Carried)
      /\ Len(s.up[c]) \in Nat /\ Len(s.down[c]) \in Nat
  BY SocketFacts, ChatFacts DEF So!ServerReads, So!ServerAnswers, So!Here, So!At
<1>2. /\ Len(s.up[c]) + Len(s.down[c]) <= 1
      /\ pc[c] \in {"type", "read", "ended", "killed"}
      /\ pc[c] \in {"type", "read"} => ~s.reset[c]
      /\ pc[c] = "type" => s.up[c] = <<>> /\ s.down[c] = <<>>
      /\ pc[c] = "ended" => s.up[c] = <<"exit">>
      /\ \A i \in DOMAIN s.down[c] : s.down[c][i] # "exit"
      /\ pc["server"] = "answer" => /\ pc[c] \in {"read", "killed"}
                                    /\ pc[c] = "read" => s.up[c] = <<>> /\ s.down[c] = <<>>
  BY <1>1 DEF Turn
<1>3. c = s.peer
  OBVIOUS
<1>4. CASE So!ServerReads
  <2>1. pc["server"] = "read"
    BY <1>4 DEF So!ServerReads, So!At
  <2>2. CASE s.up[c] # <<>>
    <3> DEFINE q  == Tail(s.up[c])
               to == IF Head(s.up[c]) = "exit" THEN "accept" ELSE "answer"
               p  == IF to = "accept" THEN "nobody" ELSE c
    <3>1. Len(s.down[c]) + Len(s.up[c]) <= 1
      <4>1. \A m, n \in Nat : m + n <= 1 => n + m <= 1
        OBVIOUS
      <4> HIDE DEF c
      <4> QED
        BY <1>1, <1>2, <4>1
    <3>2. q = <<>> /\ q \in Seq(Carried) /\ s.down[c] = <<>> /\ Head(s.up[c]) = s.up[c][1]
      BY <1>1, <2>2, <3>1, OneUnread
    <3>3. to = "answer" => pc[c] \in {"read", "killed"}
      <4>1. <<"exit">>[1] = "exit"
        OBVIOUS
      <4> QED
        BY <1>2, <2>2, <3>2, <4>1
    <3>4. So!Step("server", pc["server"], to) /\ s' = [s EXCEPT !.peer = p, !.up[c] = q]
      <4>1. CASE Head(s.up[c]) = "exit"
        BY <1>1, <1>4, <2>2, <4>1 DEF So!ServerReads, So!Hangup, So!Step, So!At, So!Nobody, SocketState
      <4>2. CASE Head(s.up[c]) # "exit"
        BY <1>1, <1>4, <2>2, <4>2 DEF So!ServerReads, So!Step, So!At, SocketState
      <4> QED
        BY <4>1, <4>2
    <3>5. to \in {"accept", "answer"} /\ p = (IF to = "accept" THEN "nobody" ELSE c)
          /\ p \in Clients \cup {"nobody"}
      BY <1>1
    <3> HIDE DEF q, to, p
    <3> HIDE DEF c
    <3>6. /\ s' \in SocketState /\ s'.peer = p /\ s'.queued = s.queued /\ s'.got = s.got
          /\ s'.up[c] = q /\ s'.down = s.down /\ s'.reset = s.reset
          /\ \A d \in Clients : d # c => s'.up[d] = s.up[d]
      BY <1>1, <3>2, <3>4, <3>5 DEF SocketState
    <3>7. Len(<<>>) = 0 /\ DOMAIN <<>> = {} /\ 0 + 0 <= 1
      OBVIOUS
    <3> QED
      BY <1>1, <1>2, <1>3, <3>2, <3>3, <3>4, <3>5, <3>6, <3>7, ChatServer
  <2>3. CASE s.up[c] = <<>>
    <3> DEFINE to == IF s.reset[c] THEN "dead" ELSE "answer"
    <3>1. So!Gone(c) /\ So!Step("server", pc["server"], to) /\ UNCHANGED s
      BY <1>4, <2>3 DEF So!ServerReads, So!Step, So!At
    <3>2. pc[c] = "killed"
      BY <1>2, <2>3, <3>1 DEF So!Gone
    <3>3. to \in {"dead", "answer"}
      OBVIOUS
    <3> HIDE DEF to
    <3> HIDE DEF c
    <3> QED
      BY <1>1, <1>2, <1>3, <3>1, <3>2, <3>3, ChatServer
  <2> QED
    BY <2>2, <2>3
<1>5. ASSUME NEW line \in So!Lines, So!ServerAnswers(line) PROVE SocketsInv'
  <2>1. pc["server"] = "answer" /\ s.lines < MaxLines
    BY <1>5 DEF So!ServerAnswers, So!At
  <2>2. pc[c] \in {"read", "killed"} /\ (pc[c] = "read" => s.up[c] = <<>> /\ s.down[c] = <<>>)
    BY <1>2, <2>1
  <2>3. CASE s.reset[c]
    <3>1. So!Step("server", pc["server"], "dead") /\ UNCHANGED s
      BY <1>5, <2>3 DEF So!ServerAnswers, So!Step, So!At
    <3>2. pc[c] = "killed"
      BY <1>2, <2>2, <2>3
    <3> HIDE DEF c
    <3> QED
      BY <1>1, <1>2, <1>3, <3>1, <3>2, ChatServer
  <2>4. CASE ~s.reset[c]
    <3> DEFINE r  == IF So!Gone(c) THEN s.down[c] ELSE Append(s.down[c], line)
               b  == So!Gone(c)
               to == IF line = "exit" THEN "accept" ELSE "read"
               p  == IF to = "accept" THEN "nobody" ELSE c
    <3>1. /\ So!Step("server", pc["server"], to)
          /\ s' = [s EXCEPT !.lines = s.lines + 1, !.down[c] = r, !.reset[c] = b, !.peer = p]
      <4>1. CASE line = "exit"
        BY <1>1, <1>5, <2>4, <4>1
        DEF So!ServerAnswers, So!Hangup, So!Step, So!At, So!Nobody, So!Gone, SocketState
      <4>2. CASE line # "exit"
        <5>1. /\ So!Step("server", pc["server"], to) /\ p = s.peer
              /\ s' = [s EXCEPT !.lines = s.lines + 1, !.down[c] = r, !.reset[c] = b]
          BY <1>5, <2>4, <4>2 DEF So!ServerAnswers, So!Step, So!At
        <5> HIDE DEF r, b, p, c
        <5> QED
          BY <1>1, <5>1 DEF SocketState
      <4> QED
        BY <4>1, <4>2
    <3>2. b = (pc[c] = "killed") /\ b \in BOOLEAN
      BY <2>2 DEF So!Gone
    <3>3. line \in Carried /\ <<line>> \in Seq(Carried) /\ Append(<<>>, line) = <<line>>
          /\ Len(<<line>>) = 1 /\ DOMAIN <<line>> = {1} /\ <<line>>[1] = line
      BY OneLine DEF Carried
    <3>4. r \in Seq(Carried) /\ r = IF pc[c] = "killed" THEN s.down[c] ELSE <<line>>
      BY <1>1, <2>2, <3>2, <3>3
    <3>5. to \in {"accept", "read"} /\ p = (IF to = "accept" THEN "nobody" ELSE c)
          /\ p \in Clients \cup {"nobody"} /\ (to = "read" => line # "exit")
      BY <1>1
    <3>6. s.lines + 1 \in 0 .. MaxLines
      BY <2>1, SocketFacts, SocketNames
    <3> HIDE DEF r, b, to, p
    <3> HIDE DEF c
    <3>7. /\ s' \in SocketState /\ s'.peer = p /\ s'.queued = s.queued /\ s'.got = s.got
          /\ s'.up = s.up /\ s'.down[c] = r /\ s'.reset[c] = b
          /\ \A d \in Clients : d # c => s'.down[d] = s.down[d] /\ s'.reset[d] = s.reset[d]
      BY <1>1, <3>1, <3>2, <3>4, <3>5, <3>6 DEF SocketState
    <3>8. Len(s'.up[c]) + Len(s'.down[c]) <= 1
      <4>1. Len(<<>>) = 0 /\ 0 + 1 <= 1
        OBVIOUS
      <4>2. CASE pc[c] = "killed"
        BY <4>2, <1>2, <3>4, <3>7
      <4>3. CASE pc[c] = "read"
        BY <4>1, <4>3, <2>2, <3>3, <3>4, <3>7
      <4> QED
        BY <2>2, <4>2, <4>3
    <3>9. to = "read" => \A i \in DOMAIN r : r[i] # "exit"
      BY <1>2, <3>3, <3>4, <3>5
    <3>10. to = "read" =>
              /\ pc[c] \in {"type", "read"} => ~s'.reset[c]
              /\ pc[c] # "type" /\ pc[c] # "ended"
              /\ \A i \in DOMAIN s'.down[c] : s'.down[c][i] # "exit"
      BY <2>2, <3>2, <3>7, <3>9
    <3>11. to # "dead" /\ to # "answer"
      BY <3>5
    <3> QED
      BY <1>1, <1>3, <3>1, <3>5, <3>7, <3>8, <3>10, <3>11, ChatServer
  <2> QED
    BY <2>3, <2>4
<1> QED
  BY <1>4, <1>5

\* The three steps of chat that link a client and the server.
LEMMA ChatStarts ==
  ASSUME SocketsInv, prog = "chat", So!ServerStarts
  PROVE  SocketsInv'
<1>1. /\ prog' = prog /\ So!Step("server", "start", "accept") /\ s.starts < MaxStarts
      /\ s' = [s EXCEPT !.starts = s.starts + 1] /\ Backlog /\ s \in SocketState
  BY ChatFacts, SocketFacts
  DEF So!ServerStarts, So!StartChat, So!StartUnixStream, So!StartUnixDgram, So!StartIpv4Dgram,
      So!BindPort, So!BindPath, So!Here, SocketState
<1>2. s.starts + 1 \in 0 .. MaxStarts
  BY <1>1, SocketFacts, SocketNames
<1>3. /\ s' \in SocketState /\ s'.queued = s.queued /\ s'.peer = s.peer /\ s'.up = s.up
      /\ s'.down = s.down /\ s'.reset = s.reset /\ s'.got = s.got
  BY <1>1, <1>2 DEF SocketState
<1>4. /\ pc["server"] = "start" /\ pc'["server"] = "accept"
      /\ pc' \in [Clients \cup {"server"} -> SocketPlaces]
      /\ \A d \in Clients : pc'[d] = pc[d]
  <2>1. "accept" \in SocketPlaces /\ "server" \in Clients \cup {"server"} /\ "server" \notin Clients
    BY SocketNames DEF SocketPlaces
  <2>2. /\ pc["server"] = "start" /\ pc'["server"] = "accept"
        /\ pc' \in [Clients \cup {"server"} -> SocketPlaces]
        /\ \A q \in Clients \cup {"server"} : q # "server" => pc'[q] = pc[q]
    BY <1>1, <2>1, SocketMoves
  <2>3. \A d \in Clients : d \in Clients \cup {"server"} /\ d # "server"
    BY <2>1
  <2> QED
    BY <2>2, <2>3
<1>5. s.queued = <<>> /\ s.peer = "nobody" /\ DOMAIN <<>> = {}
  BY <1>1, <1>4 DEF Backlog
<1>6. \A d : ~Waits(d)'
  BY <1>3, <1>5 DEF Waits
<1>7. Backlog'
  BY <1>3, <1>4, <1>5, <1>6, SocketNames DEF Backlog, Waits
<1>8. ASSUME NEW d \in Clients PROVE Turn(d)'
  <2>1. So!Left(d)'
    BY <1>3, <1>5, <1>6, LeftIs, SocketNames
  <2>2. Turn(d)
    BY ChatFacts
  <2> QED
    BY <1>3, <1>4, <2>1, <2>2 DEF Turn
<1>9. InChat'
  BY <1>4, <1>7, <1>8 DEF InChat
<1> QED
  BY <1>1, <1>3, <1>4, <1>9, SocketFacts DEF SocketsInv, SocketTypes, So!Unix

LEMMA ChatConnects ==
  ASSUME SocketsInv, prog = "chat", NEW c \in Clients, So!Connect(c)
  PROVE  SocketsInv'
<1> DEFINE q  == IF So!Up THEN Append(s.queued, c) ELSE s.queued
           to == IF So!Up THEN "type" ELSE "failed"
<1>1. /\ prog' = prog /\ So!Step(c, "start", to) /\ s' = [s EXCEPT !.queued = q]
      /\ Backlog /\ s \in SocketState /\ s.queued \in Seq(Clients)
  <2>1. prog' = prog /\ Backlog /\ s \in SocketState /\ s.queued \in Seq(Clients)
        /\ So!Step(c, "start", to)
    BY ChatFacts, SocketFacts DEF So!Connect, So!Here
  <2>2. CASE So!Up
    BY <2>1, <2>2 DEF So!Connect, SocketState
  <2>3. CASE ~So!Up
    BY <2>1, <2>3 DEF So!Connect, SocketState
  <2> QED
    BY <2>1, <2>2, <2>3
<1>2. to = (IF So!Up THEN "type" ELSE "failed") /\ to \in SocketPlaces
  BY DEF SocketPlaces
<1>3. /\ pc[c] = "start" /\ pc'[c] = to /\ pc'["server"] = pc["server"]
      /\ pc' \in [Clients \cup {"server"} -> SocketPlaces]
      /\ \A d \in Clients : d # c => pc'[d] = pc[d]
  <2> HIDE DEF to
  <2>1. c \in Clients \cup {"server"} /\ "server" \in Clients \cup {"server"} /\ "server" # c
    BY SocketNames
  <2>2. /\ pc[c] = "start" /\ pc'[c] = to /\ pc' \in [Clients \cup {"server"} -> SocketPlaces]
        /\ \A p \in Clients \cup {"server"} : p # c => pc'[p] = pc[p]
    BY <1>1, <1>2, <2>1, SocketMoves
  <2> QED
    BY <2>1, <2>2
<1>4. /\ q \in Seq(Clients)
      /\ DOMAIN q = IF So!Up THEN DOMAIN s.queued \cup {Len(s.queued) + 1} ELSE DOMAIN s.queued
      /\ \A i \in DOMAIN s.queued : q[i] = s.queued[i]
      /\ So!Up => q[Len(s.queued) + 1] = c
  <2>1. /\ Append(s.queued, c) \in Seq(Clients) /\ Len(s.queued) \in Nat
        /\ DOMAIN s.queued = 1 .. Len(s.queued)
        /\ DOMAIN Append(s.queued, c) = 1 .. Len(s.queued) + 1
        /\ \A i \in 1 .. Len(s.queued) : Append(s.queued, c)[i] = s.queued[i]
        /\ Append(s.queued, c)[Len(s.queued) + 1] = c
    BY <1>1
  <2>2. 1 .. Len(s.queued) + 1 = (1 .. Len(s.queued)) \cup {Len(s.queued) + 1}
    BY <2>1
  <2> QED
    BY <1>1, <2>1, <2>2
<1> HIDE DEF q, to
<1>5. /\ s' \in SocketState /\ s'.queued = q /\ s'.peer = s.peer /\ s'.up = s.up
      /\ s'.down = s.down /\ s'.reset = s.reset /\ s'.got = s.got
  BY <1>1, <1>4 DEF SocketState
<1>6. So!Up' <=> So!Up
  BY <1>3 DEF So!Up
<1>7. ~Waits(c) /\ s.peer # c
  BY <1>1, <1>3 DEF Backlog
<1>8. \A d : d # c => (Waits(d)' <=> Waits(d))
  BY <1>4, <1>5 DEF Waits
<1>9. Backlog'
  <2>1. \A i, j \in DOMAIN q : q[i] = q[j] => i = j
    BY <1>1, <1>4, <1>7 DEF Backlog, Waits
  <2>2. ~Waits(s.peer)'
    <3>1. PICK p : p = s.peer
      OBVIOUS
    <3>2. ~Waits(p) /\ p # c
      BY <1>1, <1>7, <3>1 DEF Backlog
    <3>3. ~(\E i \in DOMAIN q : q[i] = p)
      BY <1>4, <3>2 DEF Waits
    <3> QED
      BY <1>5, <3>1, <3>3 DEF Waits
  <2>3. \A d \in Clients : pc'[d] = "start" => ~Waits(d)' /\ s'.peer # d
    BY <1>1, <1>2, <1>3, <1>5, <1>8 DEF Backlog
  <2>4. pc["server"] = "start" => q = <<>>
    <3>1. pc["server"] = "start" => ~So!Up
      BY DEF So!Up
    <3> QED
      BY <1>1, <3>1 DEF Backlog, q
  <2> QED
    BY <1>1, <1>3, <1>5, <2>1, <2>2, <2>3, <2>4 DEF Backlog, Waits
<1>10. ASSUME NEW d \in Clients PROVE Turn(d)'
  <2>1. Turn(d)
    BY ChatFacts
  <2>2. CASE d # c
    <3>1. (~So!Left(d))' => ~So!Left(d)
      BY <1>5, <1>6, <1>8, <2>2, LeftIs
    <3>2. pc'[d] = pc[d]
      BY <1>3, <2>2
    <3> QED
      BY <1>3, <1>5, <2>1, <3>1, <3>2 DEF Turn
  <2>3. CASE d = c /\ So!Up
    <3>1. s'.up[c] = <<>> /\ s'.down[c] = <<>> /\ ~s'.reset[c]
      BY <1>3, <1>5, <2>1, <2>3 DEF Turn
    <3>2. Len(<<>>) + Len(<<>>) <= 1 /\ DOMAIN <<>> = {}
      OBVIOUS
    <3>3. pc'[c] = "type" /\ s'.peer # c
      BY <1>2, <1>3, <1>5, <1>7, <2>3
    <3> QED
      BY <2>3, <3>1, <3>2, <3>3 DEF Turn
  <2>4. CASE d = c /\ ~So!Up
    <3>1. So!Left(c)'
      BY <1>6, <2>4, LeftIs
    <3> QED
      BY <1>2, <1>3, <1>5, <2>1, <2>4, <3>1 DEF Turn
  <2> QED
    BY <2>2, <2>3, <2>4
<1>11. pc'["server"] = "dead" => \E d \in Clients : pc'[d] = "killed"
  <2>1. pc["server"] = "dead" => \E d \in Clients : pc[d] = "killed"
    BY ChatFacts
  <2> QED
    BY <1>3, <2>1
<1>12. InChat'
  BY <1>9, <1>10, <1>11 DEF InChat
<1> QED
  BY <1>1, <1>3, <1>5, <1>12, SocketFacts DEF SocketsInv, SocketTypes, So!Unix

LEMMA QueueTail ==
  ASSUME NEW q \in Seq(Clients), q # <<>>, \A i, j \in DOMAIN q : q[i] = q[j] => i = j
  PROVE  /\ Head(q) \in Clients /\ Tail(q) \in Seq(Clients)
         /\ \A d : (\E i \in DOMAIN q : q[i] = d) <=>
                       d = Head(q) \/ \E i \in DOMAIN Tail(q) : Tail(q)[i] = d
         /\ ~(\E i \in DOMAIN Tail(q) : Tail(q)[i] = Head(q))
         /\ \A i, j \in DOMAIN Tail(q) : Tail(q)[i] = Tail(q)[j] => i = j
<1> DEFINE t == Tail(q)
           n == Len(q)
<1>1. /\ Head(q) \in Clients /\ t \in Seq(Clients) /\ n \in Nat /\ n > 0
      /\ DOMAIN q = 1 .. n /\ DOMAIN t = 1 .. n - 1 /\ Head(q) = q[1]
      /\ \A i \in 1 .. n - 1 : t[i] = q[i + 1]
  OBVIOUS
<1> HIDE DEF t, n
<1>2. /\ 1 \in 1 .. n
      /\ \A i \in 1 .. n - 1 : i + 1 \in 1 .. n /\ i + 1 # 1
      /\ \A i, j \in 1 .. n - 1 : i + 1 = j + 1 => i = j
  BY <1>1
<1>3. \A i \in 1 .. n : i # 1 => \E j \in 1 .. n - 1 : i = j + 1
  <2>1. \A i \in 1 .. n : i # 1 => i - 1 \in 1 .. n - 1 /\ i = (i - 1) + 1
    BY <1>1
  <2> QED
    BY <2>1
<1>4. ASSUME NEW d PROVE (\E i \in 1 .. n : q[i] = d) <=> d = q[1] \/ \E i \in 1 .. n - 1 : t[i] = d
  <2>1. ASSUME NEW i \in 1 .. n, q[i] = d PROVE d = q[1] \/ \E j \in 1 .. n - 1 : t[j] = d
    <3>1. CASE i = 1
      BY <2>1, <3>1
    <3>2. CASE i # 1
      <4>1. PICK j \in 1 .. n - 1 : i = j + 1
        BY <1>3, <3>2
      <4>2. t[j] = d
        BY <1>1, <2>1, <4>1
      <4> QED
        BY <4>2
    <3> QED
      BY <3>1, <3>2
  <2>2. ASSUME NEW i \in 1 .. n - 1, t[i] = d PROVE \E j \in 1 .. n : q[j] = d
    BY <1>1, <1>2, <2>2
  <2> QED
    BY <1>2, <2>1, <2>2
<1>5. ASSUME NEW i \in 1 .. n - 1 PROVE t[i] # q[1]
  <2>1. i + 1 \in DOMAIN q /\ 1 \in DOMAIN q /\ i + 1 # 1 /\ t[i] = q[i + 1]
    BY <1>1, <1>2
  <2> QED
    BY <2>1
<1>6. ASSUME NEW i \in 1 .. n - 1, NEW j \in 1 .. n - 1, t[i] = t[j] PROVE i = j
  <2>1. i + 1 \in DOMAIN q /\ j + 1 \in DOMAIN q /\ t[i] = q[i + 1] /\ t[j] = q[j + 1]
    BY <1>1, <1>2
  <2> QED
    BY <1>2, <1>6, <2>1
<1> QED
  BY <1>1, <1>4, <1>5, <1>6 DEF t

LEMMA ChatAccepts ==
  ASSUME SocketsInv, prog = "chat", So!Accept
  PROVE  SocketsInv'
<1> DEFINE h == Head(s.queued)
           q == Tail(s.queued)
<1>1. /\ prog' = prog /\ So!Step("server", "accept", "read") /\ s' = [s EXCEPT !.peer = h, !.queued = q]
      /\ Backlog /\ s \in SocketState /\ s.queued \in Seq(Clients) /\ s.queued # <<>>
  BY ChatFacts, SocketFacts DEF So!Accept, So!Here, SocketState
<1>2. /\ h \in Clients /\ q \in Seq(Clients)
      /\ \A d : (\E i \in DOMAIN s.queued : s.queued[i] = d) <=> d = h \/ \E i \in DOMAIN q : q[i] = d
      /\ ~(\E i \in DOMAIN q : q[i] = h)
      /\ \A i, j \in DOMAIN q : q[i] = q[j] => i = j
  <2>1. \A i, j \in DOMAIN s.queued : s.queued[i] = s.queued[j] => i = j
    BY <1>1 DEF Backlog
  <2> QED
    BY <1>1, <2>1, QueueTail
<1> HIDE DEF h, q
<1>4. /\ pc["server"] = "accept" /\ pc'["server"] = "read"
      /\ pc' \in [Clients \cup {"server"} -> SocketPlaces]
      /\ \A d \in Clients : pc'[d] = pc[d]
  <2>1. "read" \in SocketPlaces /\ "server" \in Clients \cup {"server"} /\ "server" \notin Clients
    BY SocketNames DEF SocketPlaces
  <2>2. /\ pc["server"] = "accept" /\ pc'["server"] = "read"
        /\ pc' \in [Clients \cup {"server"} -> SocketPlaces]
        /\ \A p \in Clients \cup {"server"} : p # "server" => pc'[p] = pc[p]
    BY <1>1, <2>1, SocketMoves
  <2>3. \A d \in Clients : d \in Clients \cup {"server"} /\ d # "server"
    BY <2>1
  <2> QED
    BY <2>2, <2>3
<1>5. /\ s' \in SocketState /\ s'.queued = q /\ s'.peer = h /\ s'.up = s.up
      /\ s'.down = s.down /\ s'.reset = s.reset /\ s'.got = s.got
  BY <1>1, <1>2 DEF SocketState
<1>8. \A d : Waits(d) <=> d = h \/ Waits(d)'
  BY <1>2, <1>5 DEF Waits
<1>9. Backlog'
  <2>2. ~Waits(s.peer)'
    BY <1>2, <1>5 DEF Waits
  <2>3. \A d \in Clients : pc'[d] = "start" => ~Waits(d)' /\ s'.peer # d
    BY <1>1, <1>4, <1>5, <1>8 DEF Backlog
  <2> QED
    BY <1>2, <1>4, <1>5, <2>2, <2>3 DEF Backlog, Waits
<1>10. ASSUME NEW d \in Clients PROVE Turn(d)'
  <2>1. Turn(d)
    BY ChatFacts
  <2>2. (~So!Left(d))' => ~So!Left(d)
    <3>1. So!Up
      BY <1>4 DEF So!Up
    <3> QED
      BY <1>5, <1>8, <3>1, LeftIs
  <2> QED
    BY <1>4, <1>5, <2>1, <2>2 DEF Turn
<1>11. InChat'
  BY <1>4, <1>9, <1>10 DEF InChat
<1> QED
  BY <1>1, <1>2, <1>4, <1>5, <1>11, SocketFacts DEF SocketsInv, SocketTypes, So!Unix

LEMMA SocketsStep == SocketsInv /\ [So!Next]_vars => SocketsInv'
<1> SUFFICES ASSUME SocketsInv, [So!Next]_vars PROVE SocketsInv'
  OBVIOUS
<1>1. CASE UNCHANGED vars
  <2>1. s' = s /\ pc' = pc /\ prog' = prog
    BY <1>1 DEF vars
  <2>2. Backlog => Backlog'
    BY <2>1 DEF Backlog, Waits
  <2>3. ASSUME NEW c \in Clients, Turn(c) PROVE Turn(c)'
    <3>1. So!Left(c)' <=> So!Left(c)
      BY <2>1 DEF So!Left, So!Up
    <3> QED
      BY <2>1, <2>3, <3>1 DEF Turn
  <2>4. (OwnTexts => OwnTexts') /\ (BindsOnce => BindsOnce') /\ (ServesFirst => ServesFirst')
    BY <2>1 DEF OwnTexts, BindsOnce, ServesFirst, So!Up
  <2> QED
    BY <2>1, <2>2, <2>3, <2>4 DEF SocketsInv, SocketTypes, InChat
<1>2. ASSUME NEW c \in Clients, So!ClientSteps(c) \/ So!ClientKilled(c)
                                \/ \E line \in So!Lines : So!ClientTypes(c, line)
      PROVE  SocketsInv'
  <2>1. CASE prog = "chat"
    BY <1>2, <2>1, ChatConnects, ChatClientSteps
    DEF So!ClientSteps, So!WriteRequest, So!ReadReply, So!SendToUnix, So!SendToIpv4, So!RecvFrom,
        So!Here, So!Dgram
  <2>2. CASE prog = "unix_stream"
    BY <1>2, <2>2, StreamSteps
    DEF So!ClientSteps, So!ClientReads, So!ClientKilled, So!ClientTypes, So!SendToUnix,
        So!SendToIpv4, So!RecvFrom, So!Here, So!Dgram
  <2>3. CASE prog \in So!Dgram
    BY <1>2, <2>3, DgramSteps
    DEF So!ClientSteps, So!Connect, So!ClientReads, So!ClientKilled, So!ClientTypes,
        So!WriteRequest, So!ReadReply, So!Here, So!Dgram
  <2> QED
    BY <2>1, <2>2, <2>3, SocketFacts DEF So!Programs, So!Unix, So!Dgram
<1>3. CASE So!ServerStarts \/ So!ServerKilled
  <2>1. CASE prog = "chat"
    BY <1>3, <2>1, ChatStarts DEF So!ServerKilled, So!Here, So!Unix, So!Dgram
  <2> QED
    BY <1>3, <2>1, ServerSteps
<1>4. CASE \/ So!ServerSteps \/ So!Lose
           \/ \E line \in So!Lines : So!ServerAnswers(line)
  <2>1. CASE prog = "chat"
    BY <1>4, <2>1, ChatAccepts, ChatServerSteps
    DEF So!ServerSteps, So!UpperAndReply, So!Echo, So!Lose, So!Here, So!Dgram
  <2>2. CASE prog = "unix_stream"
    BY <1>4, <2>2, StreamSteps
    DEF So!ServerSteps, So!ServerReads, So!ServerAnswers, So!Echo, So!Lose, So!Here, So!Dgram
  <2>3. CASE prog \in So!Dgram
    BY <1>4, <2>3, DgramSteps
    DEF So!ServerSteps, So!Accept, So!ServerReads, So!ServerAnswers, So!UpperAndReply, So!Here,
        So!Dgram
  <2> QED
    BY <2>1, <2>2, <2>3, SocketFacts DEF So!Programs, So!Unix, So!Dgram
<1> QED
  BY <1>1, <1>2, <1>3, <1>4 DEF So!Next

LEMMA AtMostOneServed ==
  ASSUME NEW W, \A v, w \in W : v = w
  PROVE  So!Cardinality(W) <= 1
<1>1. Cardinality(W) = So!Cardinality(W)
  BY DEF Cardinality, So!Cardinality
<1>2. 0 <= 1 /\ 1 <= 1
  OBVIOUS
<1>3. CASE W = {}
  BY <1>1, <1>2, <1>3, FS_EmptySet
<1>4. CASE W # {}
  <2>1. PICK w : W = {w}
    BY <1>4
  <2>2. Cardinality({w}) = 1
    BY FS_Singleton
  <2> QED
    BY <1>1, <1>2, <2>1, <2>2
<1> QED
  BY <1>3, <1>4

LEMMA SocketsAreSound == SocketsInv => ConversationsAreKept
<1> SUFFICES ASSUME SocketsInv PROVE ConversationsAreKept
  OBVIOUS
<1> USE SocketFacts
<1>1. So!TypeOK
  BY DEF So!TypeOK, So!Nobody
<1>2. So!ChatTakesTurns
  <2> SUFFICES ASSUME prog = "chat", NEW c \in Clients
               PROVE  /\ Len(s.up[c]) + Len(s.down[c]) <= 1
                      /\ pc[c] = "type" /\ ~So!Left(c) => s.up[c] = <<>> /\ s.down[c] = <<>>
    BY DEF So!ChatTakesTurns, So!At
  <2>1. Turn(c)
    BY ChatFacts
  <2> QED
    BY <2>1 DEF Turn
<1>3. So!ChatEndsByKilling
  BY ChatFacts DEF So!ChatEndsByKilling, So!At
<1>4. So!ReplyIsToOwn
  BY DEF So!ReplyIsToOwn
<1>5. So!FirstAndLast
  <2>1. prog = "unix_stream" => So!Cardinality(s.served) <= 1
    BY AtMostOneServed DEF ServesFirst
  <2>2. prog \in So!Unix /\ s.starts > 1 => ~So!Up
    <3>1. \A n \in 0 .. MaxStarts : n > 1 => ~(n <= 1)
      BY SocketNames
    <3> QED
      BY <3>1 DEF BindsOnce
  <2> QED
    BY <2>1, <2>2 DEF So!FirstAndLast
<1> QED
  BY <1>1, <1>2, <1>3, <1>4, <1>5 DEF ConversationsAreKept, So!ConversationsAreKept

\* In every run of the clients and servers of 06-socket, however many clients
\* there are: no message of a chat is taken for the answer to another, the
\* server of chat dies only after a client was killed, a client shows the reply
\* to its own text, the server of unix_stream serves one client, and a server
\* with a path is never up a second time (stream_client.c:16-86,
\* stream_server.c:19-117).
THEOREM ConversationsStayApart == Spec => []ConversationsAreKept
<1>1. Init => (prog \in So!Programs => SocketsInv)
  BY OwnInit, SocketsStart
<1>2. (prog \in So!Programs => SocketsInv) /\ [Next]_vars => (prog \in So!Programs => SocketsInv)'
  BY OwnSteps, SocketsStep
<1>3. (prog \in So!Programs => SocketsInv) => ConversationsAreKept
  <2>1. prog \notin So!Programs => ConversationsAreKept
    BY DEF ConversationsAreKept, So!ConversationsAreKept, So!ChatTakesTurns, So!ChatEndsByKilling,
       So!ReplyIsToOwn, So!FirstAndLast, So!Programs, So!Unix
  <2> QED
    BY <2>1, SocketsAreSound
<1> QED
  BY <1>1, <1>2, <1>3, PTL DEF Spec
=============================================================================
