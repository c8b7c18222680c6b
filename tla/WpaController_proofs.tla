-------------------------- MODULE WpaController_proofs ----------------------
(***************************************************************************)
(* The connections and the networks of the controller, for every set of    *)
(* processes and names and every number of sockets, events and options.    *)
(***************************************************************************)
EXTENDS WpaController, FiniteSetTheorems, SequenceTheorems, TLAPS

-----------------------------------------------------------------------------
(* Sequences of datagrams, and the first of them that is no event.           *)

IsSeq(x) == x \in Seq({x[i] : i \in DOMAIN x})

LEMMA EmptyIsSeq == IsSeq(<<>>)
  BY DEF IsSeq

LEMMA SeqIsSeq ==
  ASSUME NEW S, NEW x \in Seq(S)
  PROVE  IsSeq(x)
<1>1. Len(x) \in Nat /\ x = [i \in 1 .. Len(x) |-> x[i]] /\ DOMAIN x = 1 .. Len(x)
  OBVIOUS
<1>2. \A i \in 1 .. Len(x) : x[i] \in {x[j] : j \in DOMAIN x}
  BY <1>1
<1> QED
  BY <1>1, <1>2, IsASeq DEF IsSeq

LEMMA AppendIsSeq ==
  ASSUME NEW x, IsSeq(x), NEW m
  PROVE  IsSeq(Append(x, m))
<1> DEFINE S == {x[i] : i \in DOMAIN x}
<1>1. x \in Seq(S \cup {m}) /\ m \in S \cup {m}
  BY DEF IsSeq
<1> HIDE DEF S
<1>2. Append(x, m) \in Seq(S \cup {m})
  BY <1>1
<1> QED
  BY <1>2, SeqIsSeq

LEMMA SubIsSeq ==
  ASSUME NEW x, IsSeq(x), NEW a \in 1 .. Len(x)
  PROVE  IsSeq(SubSeq(x, a + 1, Len(x))) /\ (SubSeq(x, a + 1, Len(x)) = <<>> => a = Len(x))
<1> DEFINE S == {x[i] : i \in DOMAIN x}
<1>1. x \in Seq(S)
  BY DEF IsSeq
<1> HIDE DEF S
<1>2. SubSeq(x, a + 1, Len(x)) \in Seq(S)
  BY <1>1
<1>3. SubSeq(x, a + 1, Len(x)) = <<>> => a = Len(x)
  BY <1>1
<1> QED
  BY <1>2, <1>3, SeqIsSeq

\* The least of a set of places, as the smallest segment that ends in one.
LEMMA Least ==
  ASSUME NEW n \in Nat, NEW T \in SUBSET (1 .. n), T # {}
  PROVE  \E m \in T : \A k \in T : m <= k
<1> DEFINE Segments == {1 .. k : k \in T}
<1>1. IsFiniteSet(1 .. n) /\ Segments \subseteq FiniteSubsetsOf(1 .. n)
  BY FS_Interval, FS_Subset DEF FiniteSubsetsOf
<1>2. Segments # {}
  BY DEF Segments
<1>3. IsWellFoundedOn(StrictSubsetOrdering(1 .. n), FiniteSubsetsOf(1 .. n))
  BY FS_StrictSubsetOrderingWellFounded
<1> HIDE DEF Segments
<1>4. PICK U \in Segments : \A V \in Segments : ~(<<V, U>> \in StrictSubsetOrdering(1 .. n))
  BY <1>1, <1>2, <1>3, WFMin
<1>5. PICK m \in T : U = 1 .. m
  BY <1>4 DEF Segments
<1>6. ASSUME NEW k \in T, k < m PROVE FALSE
  <2>1. 1 .. k \in SUBSET (1 .. n) /\ 1 .. m \in SUBSET (1 .. n) /\ 1 .. k \subseteq 1 .. m
        /\ 1 .. k # 1 .. m
    BY <1>6
  <2> QED
    BY <1>4, <1>5, <2>1 DEF StrictSubsetOrdering, Segments
<1> QED
  BY <1>6

LEMMA FirstExists ==
  ASSUME NEW mail, IsSeq(mail), Len(mail) > 0
  PROVE  \E i \in 1 .. Len(mail) : /\ i = Len(mail) \/ ~IsEvent(mail[i])
                                   /\ \A j \in 1 .. (i - 1) : IsEvent(mail[j])
<1> DEFINE T == {i \in 1 .. Len(mail) : i = Len(mail) \/ ~IsEvent(mail[i])}
<1>1. Len(mail) \in Nat
  BY DEF IsSeq
<1>2. PICK i \in T : \A k \in T : i <= k
  <2>1. T \in SUBSET (1 .. Len(mail)) /\ Len(mail) \in T
    BY <1>1
  <2> HIDE DEF T
  <2> QED
    BY <1>1, <2>1, Least
<1>3. \A j \in 1 .. (i - 1) : j \in 1 .. Len(mail) /\ j \notin T
  BY <1>1, <1>2
<1> QED
  BY <1>2, <1>3

\* A request that leaves nothing unread was answered with its own reply.
LEMMA RequestReturns ==
  ASSUME NEW unread, IsSeq(unread), NEW reply, NEW o \in wpa_ctrl_request(unread, reply)
  PROVE  /\ IsSeq(o.inbox) /\ o.ret \in {0, -2}
         /\ o.ret = 0 /\ o.inbox = <<>> => o.reply = reply
         /\ o.ret = 0 /\ unread = <<>> => o.inbox = <<>>
<1> DEFINE mail == Append(unread, reply)
<1> DEFINE first == CHOOSE i \in 1 .. Len(mail) :
                       /\ i = Len(mail) \/ ~IsEvent(mail[i])
                       /\ \A j \in 1 .. (i - 1) : IsEvent(mail[j])
<1>1. IsSeq(mail) /\ Len(mail) = Len(unread) + 1 /\ mail[Len(mail)] = reply /\ Len(unread) \in Nat
  BY AppendIsSeq DEF IsSeq
<1>2. first \in 1 .. Len(mail)
  BY <1>1, FirstExists
<1>3. \/ o = [ret |-> 0, reply |-> mail[first], inbox |-> SubSeq(mail, first + 1, Len(mail))]
      \/ o = [ret |-> -2, reply |-> <<"none">>, inbox |-> <<reply>>]
  BY DEF wpa_ctrl_request
<1> HIDE DEF mail, first
<1>4. CASE o = [ret |-> 0, reply |-> mail[first], inbox |-> SubSeq(mail, first + 1, Len(mail))]
  <2>1. IsSeq(o.inbox) /\ (o.inbox = <<>> => first = Len(mail))
    BY <1>1, <1>2, <1>4, SubIsSeq
  <2>2. unread = <<>> => o.inbox = <<>>
    BY <1>1, <1>2, <1>4 DEF IsSeq
  <2> QED
    BY <1>1, <1>4, <2>1, <2>2
<1>5. CASE o = [ret |-> -2, reply |-> <<"none">>, inbox |-> <<reply>>]
  <2>1. IsSeq(<<reply>>) /\ <<reply>> # <<>>
    BY SeqIsSeq, <<reply>> \in Seq({reply})
  <2>2. o.ret = -2 /\ o.inbox = <<reply>>
    BY <1>5
  <2> QED
    BY <2>1, <2>2
<1> QED
  BY <1>3, <1>4, <1>5

-----------------------------------------------------------------------------
(* The connections.  A socket carries its process and a number that the      *)
(* counter of the process has reached; no two files lead to the same socket; *)
(* and what a monitor has seen and not yet read are the events since it was  *)
(* attached.                                                                 *)

Base  == {"pc", "counter", "conn", "socks"}
Watch == {"since", "seen", "late"}
Asks  == {"netid", "asked", "said", "before", "clean"}

Monitoring == {"m_open", "m_idle", "m_on", "m_done"}

Owned(p) == {[name |-> <<p, k>>, id |-> i] : k \in 1 .. proc[p].counter, i \in 1 .. opened}

ProcessOK(p) ==
    /\ Base \subseteq DOMAIN proc[p]
    /\ proc[p].counter \in Nat
    /\ proc[p].socks \subseteq Owned(p)
    /\ proc[p].conn = Null \/ proc[p].conn \in proc[p].socks
    /\ proc[p].pc \in Monitoring => Watch \subseteq DOMAIN proc[p]
    /\ Running(p) => Asks \subseteq DOMAIN proc[p]
    /\ proc[p].pc = "off" => proc[p].counter = 0
    /\ proc[p].pc \in {"off", "m_open"} => proc[p].socks = {}
    /\ proc[p].pc \in {"m_idle", "m_on", "m_done"} =>
          proc[p].conn # Null /\ proc[p].socks = {proc[p].conn}

Reached(p) ==
    \A c \in proc[p].socks :
        /\ c.name \in DOMAIN dir /\ dir[c.name] = c.id
        /\ c.id \in DOMAIN inbox /\ IsSeq(inbox[c.id])

Events == {Event(n) : n \in Nat}
Since(a, b) == [i \in 1 .. (b - a) |-> Event(a + i)]

Watches(p) ==
    LET id == proc[p].conn.id
    IN  /\ proc[p].pc = "m_idle" =>
            inbox[id] = <<>> /\ proc[p].seen = <<>> /\ id \notin attached
        /\ proc[p].pc = "m_on" =>
            /\ up => id \in attached
            /\ proc[p].since \in 0 .. events
            /\ proc[p].seen \in Seq(Events) /\ inbox[id] \in Seq(Events)
            /\ proc[p].seen \o inbox[id] = Since(proc[p].since, events)

FilesOK ==
    /\ DOMAIN proc = Pids
    /\ opened \in Nat /\ events \in Nat
    /\ \A m \in DOMAIN dir : dir[m] \in 1 .. opened
    /\ \A m, n \in DOMAIN dir : dir[m] = dir[n] => m = n
    /\ attached \subseteq 1 .. opened

ConnInv == FilesOK /\ \A p \in Pids : ProcessOK(p) /\ Reached(p) /\ Watches(p)

\* The number of its process and its own number tell a socket from all others.
LEMMA SocketsDiffer ==
  ASSUME FilesOK, NEW p \in Pids, NEW q \in Pids, ProcessOK(p), ProcessOK(q), Reached(p),
         Reached(q), NEW c \in proc[p].socks, NEW d \in proc[q].socks
  PROVE  /\ p # q => c.name # d.name /\ c.id # d.id
         /\ c.name = d.name \/ c.id = d.id => c = d
         /\ c.id \in 1 .. opened /\ c # Null
<1>1. PICK k \in 1 .. proc[p].counter, i \in 1 .. opened : c = [name |-> <<p, k>>, id |-> i]
  BY DEF ProcessOK, Owned
<1>2. PICK l \in 1 .. proc[q].counter, j \in 1 .. opened : d = [name |-> <<q, l>>, id |-> j]
  BY DEF ProcessOK, Owned
<1>3. p # q => c.name # d.name
  BY <1>1, <1>2
<1>4. c.id = d.id => c.name = d.name
  BY DEF FilesOK, Reached
<1>5. c.name = d.name => c.id = d.id
  BY DEF Reached
<1>6. c.name = d.name /\ c.id = d.id => c = d
  BY <1>1, <1>2
<1>7. c.id \in 1 .. opened /\ c # Null
  BY <1>1 DEF FilesOK, Null
<1> QED
  BY <1>3, <1>4, <1>5, <1>6, <1>7

\* What a step of process q leaves of the other processes and their files.
Unmoved(p) ==
    /\ DOMAIN proc'[p] = DOMAIN proc[p]
    /\ \A f \in (Base \cup Watch) \cap DOMAIN proc[p] : proc'[p][f] = proc[p][f]

Spared(q) ==
    /\ DOMAIN proc' = Pids
    /\ opened' \in Nat /\ opened' >= opened
    /\ \A p \in Pids \ {q} : Unmoved(p)
    /\ \A p \in Pids \ {q}, k \in Nat : <<p, k>> \in DOMAIN dir =>
          <<p, k>> \in DOMAIN dir' /\ dir'[<<p, k>>] = dir[<<p, k>>]
    /\ \A i \in 1 .. opened : i \in DOMAIN inbox /\ (\A c \in proc[q].socks : c.id # i) =>
          i \in DOMAIN inbox' /\ inbox'[i] = inbox[i]
    /\ \A i \in 1 .. opened : (\A c \in proc[q].socks : c.id # i) =>
          (i \in attached' <=> i \in attached)
    /\ events' = events /\ up' = up

LEMMA OthersKept ==
  ASSUME ConnInv, NEW q \in Pids, Spared(q), NEW p \in Pids \ {q}
  PROVE  ProcessOK(p)' /\ Reached(p)' /\ Watches(p)'
<1>1. FilesOK /\ ProcessOK(p) /\ Reached(p) /\ Watches(p) /\ ProcessOK(q) /\ Reached(q)
  BY DEF ConnInv
<1>2. /\ DOMAIN proc'[p] = DOMAIN proc[p]
      /\ proc'[p].pc = proc[p].pc /\ proc'[p].counter = proc[p].counter
      /\ proc'[p].conn = proc[p].conn /\ proc'[p].socks = proc[p].socks
      /\ proc[p].pc \in Monitoring =>
            proc'[p].since = proc[p].since /\ proc'[p].seen = proc[p].seen
  <2>1. Unmoved(p) /\ Base \subseteq DOMAIN proc[p]
        /\ (proc[p].pc \in Monitoring => Watch \subseteq DOMAIN proc[p])
    BY <1>1 DEF Spared, ProcessOK
  <2> QED
    BY <2>1 DEF Unmoved, Base, Watch
<1>3. Owned(p) \subseteq Owned(p)'
  BY <1>1, <1>2 DEF Owned, FilesOK, Spared
<1>4. ProcessOK(p)'
  BY <1>1, <1>2, <1>3 DEF ProcessOK, Running
<1>5. ASSUME NEW c \in proc[p].socks
      PROVE  /\ c.id \in 1 .. opened /\ c.id \in DOMAIN inbox'
             /\ inbox'[c.id] = inbox[c.id]
             /\ (c.id \in attached' <=> c.id \in attached)
             /\ c.name \in DOMAIN dir' /\ dir'[c.name] = c.id
  <2>1. c.id \in 1 .. opened /\ \A d \in proc[q].socks : d.id # c.id
    BY <1>1, SocketsDiffer
  <2>2. PICK k \in 1 .. proc[p].counter, i \in 1 .. opened : c = [name |-> <<p, k>>, id |-> i]
    BY <1>1 DEF ProcessOK, Owned
  <2>3. k \in Nat /\ c.name = <<p, k>>
    BY <1>1, <2>2 DEF ProcessOK
  <2> QED
    BY <1>1, <2>1, <2>3 DEF Reached, Spared
<1>6. Reached(p)'
  BY <1>1, <1>2, <1>5 DEF Reached
<1>7. Watches(p)'
  <2>1. CASE proc[p].pc \in {"m_idle", "m_on"}
    <3>1. proc[p].conn \in proc[p].socks
      BY <1>1, <2>1 DEF ProcessOK
    <3>2. events' = events /\ up' = up
      BY DEF Spared
    <3> QED
      BY <1>1, <1>2, <1>5, <2>1, <3>1, <3>2 DEF Watches, Monitoring
  <2> QED
    BY <1>2, <2>1 DEF Watches
<1> QED
  BY <1>4, <1>6, <1>7

LEMMA ConnKept ==
  ASSUME ConnInv, NEW q \in Pids, Spared(q), FilesOK', ProcessOK(q)', Reached(q)', Watches(q)'
  PROVE  ConnInv'
  BY OthersKept DEF ConnInv

-----------------------------------------------------------------------------
(* The steps that open or close sockets.                                     *)

LEMMA Binding ==
  ASSUME FilesOK, NEW name, NEW d,
         \/ d = dir
         \/ d = With(dir, name, opened + 1)
         \/ d = Without(dir, name)
  PROVE  /\ \A m \in DOMAIN d : d[m] \in 1 .. (opened + 1)
         /\ d # With(dir, name, opened + 1) => \A m \in DOMAIN d : d[m] \in 1 .. opened
         /\ \A m, n \in DOMAIN d : d[m] = d[n] => m = n
         /\ \A m \in DOMAIN dir \ {name} : m \in DOMAIN d /\ d[m] = dir[m]
<1>1. opened \in Nat
  BY DEF FilesOK
<1>2. CASE d = dir
  BY <1>1, <1>2 DEF FilesOK
<1>3. CASE d = With(dir, name, opened + 1)
  <2>1. /\ DOMAIN d = {name} \cup DOMAIN dir /\ d[name] = opened + 1
        /\ \A m \in DOMAIN dir \ {name} : d[m] = dir[m]
    BY <1>3 DEF With
  <2>2. \A m \in DOMAIN d : m = name \/ (m \in DOMAIN dir \ {name} /\ d[m] \in 1 .. opened)
    BY <2>1 DEF FilesOK
  <2> QED
    BY <1>1, <1>3, <2>1, <2>2 DEF FilesOK
<1>4. CASE d = Without(dir, name)
  BY <1>1, <1>4 DEF FilesOK, Without
<1> QED
  BY <1>2, <1>3, <1>4

LEMMA OpenReturns ==
  ASSUME NEW q, NEW n, NEW o \in wpa_ctrl_open(dir, q, n), n \in Nat, opened \in Nat
  PROVE  /\ o.counter \in {n, n + 1}
         /\ \/ /\ o.conn = [name |-> <<q, n + 1>>, id |-> opened + 1] /\ o.counter = n + 1
               /\ o.dir = With(dir, <<q, n + 1>>, opened + 1) /\ o.conn # Null
            \/ o.conn = Null /\ (o.dir = dir \/ o.dir = Without(dir, <<q, n + 1>>))
<1>1. [name |-> <<q, n + 1>>, id |-> opened + 1] # Null
  BY DEF Null
<1> QED
  BY <1>1 DEF wpa_ctrl_open, wpa_ctrl_open2, Opening

LEMMA OpenStep ==
  ASSUME ConnInv, NEW q \in Pids, NEW opening, NEW failing,
         Base \subseteq DOMAIN opening, Base \subseteq DOMAIN failing,
         opening.socks = proc[q].socks, failing.socks = proc[q].socks,
         Open(q, opening, failing), UNCHANGED <<attached, events, up>>
  PROVE  /\ Spared(q) /\ FilesOK' /\ Reached(q)'
         /\ Base \subseteq DOMAIN proc'[q] /\ proc'[q].counter \in Nat
         /\ proc'[q].socks \subseteq Owned(q)'
         /\ \/ /\ proc'[q].conn # Null /\ proc'[q].conn \in proc'[q].socks
               /\ proc'[q].socks = proc[q].socks \cup {proc'[q].conn}
               /\ inbox'[proc'[q].conn.id] = <<>> /\ proc'[q].conn.id \notin attached'
               /\ DOMAIN proc'[q] = DOMAIN opening
               /\ \A f \in DOMAIN opening \ {"counter", "conn", "socks"} : proc'[q][f] = opening[f]
            \/ /\ proc'[q].conn = Null /\ proc'[q].socks = proc[q].socks
               /\ DOMAIN proc'[q] = DOMAIN failing
               /\ \A f \in DOMAIN failing \ {"counter", "conn", "socks"} : proc'[q][f] = failing[f]
<1>1. FilesOK /\ ProcessOK(q) /\ Reached(q) /\ opened \in Nat /\ proc[q].counter \in Nat
      /\ DOMAIN proc = Pids
  BY DEF ConnInv, FilesOK, ProcessOK
<1> DEFINE n == proc[q].counter
<1>2. PICK o \in wpa_ctrl_open(dir, q, n) :
        LET ok == o.conn # Null
            new == IF ok THEN opening ELSE failing
        IN  /\ dir' = o.dir
            /\ opened' = IF ok THEN opened + 1 ELSE opened
            /\ inbox' = IF ok THEN With(inbox, o.conn.id, <<>>) ELSE inbox
            /\ proc' = [proc EXCEPT ![q] =
                [new EXCEPT !.counter = o.counter, !.conn = o.conn,
                            !.socks = IF ok THEN @ \cup {o.conn} ELSE @]]
  BY DEF Open
<1> DEFINE name == <<q, n + 1>>
<1>3. /\ o.counter \in {n, n + 1}
      /\ \/ /\ o.conn = [name |-> name, id |-> opened + 1] /\ o.counter = n + 1
            /\ o.dir = With(dir, name, opened + 1) /\ o.conn # Null
         \/ o.conn = Null /\ (o.dir = dir \/ o.dir = Without(dir, name))
  BY <1>1, OpenReturns
<1>4. /\ \A c \in proc[q].socks : c.id \in 1 .. opened /\ c.name \in DOMAIN dir \ {name}
      /\ \A p \in Pids \ {q}, k \in Nat : <<p, k>> # name
  <2>1. ASSUME NEW c \in proc[q].socks
        PROVE  c.id \in 1 .. opened /\ c.name # name
    <3>1. PICK k \in 1 .. n, i \in 1 .. opened : c = [name |-> <<q, k>>, id |-> i]
      BY <1>1 DEF ProcessOK, Owned
    <3>2. k # n + 1
      BY <1>1, <3>1
    <3> QED
      BY <3>1, <3>2
  <2> QED
    BY <1>1, <2>1 DEF Reached
<1>5. /\ \A m \in DOMAIN dir' : dir'[m] \in 1 .. (opened + 1)
      /\ o.conn = Null => \A m \in DOMAIN dir' : dir'[m] \in 1 .. opened
      /\ \A k, m \in DOMAIN dir' : dir'[k] = dir'[m] => k = m
      /\ \A m \in DOMAIN dir \ {name} : m \in DOMAIN dir' /\ dir'[m] = dir[m]
  <2>1. opened + 1 \notin 1 .. opened /\ (o.conn = Null => \A m \in DOMAIN o.dir : o.dir[m] \in 1 .. opened)
    BY <1>1, <1>3 DEF Without, FilesOK
  <2> HIDE DEF name, n
  <2>2. o.dir = dir \/ o.dir = With(dir, name, opened + 1) \/ o.dir = Without(dir, name)
    BY <1>3
  <2>3. /\ \A m \in DOMAIN o.dir : o.dir[m] \in 1 .. (opened + 1)
        /\ \A k, m \in DOMAIN o.dir : o.dir[k] = o.dir[m] => k = m
        /\ \A m \in DOMAIN dir \ {name} : m \in DOMAIN o.dir /\ o.dir[m] = dir[m]
    BY <1>1, <2>2, Binding
  <2> QED
    BY <1>2, <2>1, <2>3
<1>6. \A p \in Pids \ {q} : proc'[p] = proc[p] /\ DOMAIN proc' = Pids
  BY <1>1, <1>2
<1>7. opened' \in Nat /\ opened' >= opened
      /\ \A i \in 1 .. opened : i \in DOMAIN inbox => i \in DOMAIN inbox' /\ inbox'[i] = inbox[i]
  BY <1>1, <1>2, <1>3 DEF With
<1>8. Spared(q)
  <2>1. \A p \in Pids \ {q} : Unmoved(p)
    BY <1>6 DEF Unmoved
  <2>2. \A p \in Pids \ {q}, k \in Nat : <<p, k>> \in DOMAIN dir =>
            <<p, k>> \in DOMAIN dir' /\ dir'[<<p, k>>] = dir[<<p, k>>]
    BY <1>4, <1>5
  <2>3. attached' = attached /\ events' = events /\ up' = up
    OBVIOUS
  <2>4. \A i \in 1 .. opened : i \in DOMAIN inbox /\ (\A c \in proc[q].socks : c.id # i) =>
            i \in DOMAIN inbox' /\ inbox'[i] = inbox[i]
    BY <1>7
  <2>5. \A i \in 1 .. opened : (\A c \in proc[q].socks : c.id # i) =>
            (i \in attached' <=> i \in attached)
    BY <2>3
  <2>6. DOMAIN proc' = Pids /\ opened' \in Nat /\ opened' >= opened
    BY <1>1, <1>2, <1>7
  <2> HIDE DEF name, n
  <2> QED
    BY ONLY <2>1, <2>2, <2>3, <2>4, <2>5, <2>6 DEF Spared
<1>9. FilesOK'
  BY <1>1, <1>2, <1>3, <1>5, <1>6, <1>7 DEF FilesOK
<1> HIDE DEF n
<1>10. Base \subseteq DOMAIN proc'[q] /\ proc'[q].counter = o.counter /\ proc'[q].conn = o.conn
  BY <1>1, <1>2 DEF Base
<1>11. CASE o.conn # Null
  <2>1. proc'[q] = [opening EXCEPT !.counter = o.counter, !.conn = o.conn,
                                   !.socks = @ \cup {o.conn}]
    BY <1>1, <1>2, <1>11
  <2>2. /\ DOMAIN proc'[q] = DOMAIN opening /\ proc'[q].socks = proc[q].socks \cup {o.conn}
        /\ \A f \in DOMAIN opening \ {"counter", "conn", "socks"} : proc'[q][f] = opening[f]
    BY <2>1 DEF Base
  <2>3. /\ o.conn = [name |-> name, id |-> opened + 1] /\ o.dir = With(dir, name, opened + 1)
        /\ o.counter = n + 1 /\ opened' = opened + 1 /\ inbox' = With(inbox, opened + 1, <<>>)
    BY <1>2, <1>3, <1>11
  <2>4. /\ name \in DOMAIN dir' /\ dir'[name] = opened + 1
        /\ opened + 1 \in DOMAIN inbox' /\ inbox'[opened + 1] = <<>>
    BY <1>2, <2>3 DEF With
  <2>5. opened + 1 \notin attached'
    BY <1>1 DEF FilesOK
  <2>6. Reached(q)'
    BY <1>1, <1>4, <1>5, <1>7, <2>2, <2>3, <2>4, EmptyIsSeq DEF Reached
  <2>7. proc'[q].socks \subseteq Owned(q)'
    <3>1. ASSUME NEW c \in proc[q].socks PROVE c \in Owned(q)'
      <4>1. PICK k \in 1 .. n, i \in 1 .. opened : c = [name |-> <<q, k>>, id |-> i]
        BY <1>1 DEF ProcessOK, Owned, n
      <4>2. n \in Nat /\ k \in 1 .. (n + 1) /\ i \in 1 .. (opened + 1)
        BY <1>1, <4>1 DEF n
      <4>3. k \in 1 .. proc'[q].counter /\ i \in 1 .. opened'
        BY <1>10, <2>3, <4>2
      <4> QED
        BY <4>1, <4>3 DEF Owned
    <3>2. o.conn \in Owned(q)'
      <4>1. n + 1 \in 1 .. (n + 1) /\ opened + 1 \in 1 .. (opened + 1)
        BY <1>1 DEF n
      <4> QED
        BY <1>10, <2>3, <4>1 DEF Owned
    <3> QED
      BY <2>2, <3>1, <3>2
  <2>8. o.counter \in Nat
    BY <1>1, <2>3 DEF n
  <2> QED
    BY <1>8, <1>9, <1>10, <1>11, <2>2, <2>3, <2>4, <2>5, <2>6, <2>7, <2>8
<1>12. CASE o.conn = Null
  <2>1. proc'[q] = [failing EXCEPT !.counter = o.counter, !.conn = o.conn, !.socks = @]
    BY <1>1, <1>2, <1>12
  <2>2. /\ DOMAIN proc'[q] = DOMAIN failing /\ proc'[q].socks = proc[q].socks
        /\ \A f \in DOMAIN failing \ {"counter", "conn", "socks"} : proc'[q][f] = failing[f]
    BY <2>1 DEF Base
  <2>3. inbox' = inbox /\ opened' = opened
    BY <1>2, <1>12
  <2>4. Reached(q)'
    BY <1>1, <1>4, <1>5, <2>2, <2>3 DEF Reached
  <2>5. o.counter \in Nat /\ o.counter >= n
    BY <1>1, <1>3 DEF n
  <2>6. proc'[q].socks \subseteq Owned(q)'
    <3>1. ASSUME NEW c \in proc[q].socks PROVE c \in Owned(q)'
      <4>1. PICK k \in 1 .. n, i \in 1 .. opened : c = [name |-> <<q, k>>, id |-> i]
        BY <1>1 DEF ProcessOK, Owned, n
      <4>2. k \in 1 .. o.counter
        BY <1>1, <2>5, <4>1 DEF n
      <4> QED
        BY <1>10, <2>3, <4>1, <4>2 DEF Owned
    <3> QED
      BY <2>2, <3>1
  <2> QED
    BY <1>8, <1>9, <1>10, <1>12, <2>2, <2>4, <2>5, <2>6
<1> QED
  BY <1>11, <1>12

LEMMA GoneStep ==
  ASSUME ConnInv, NEW q \in Pids, Gone(q), proc' = [proc EXCEPT ![q] = Off],
         UNCHANGED <<dir, opened, events, up>>
  PROVE  ConnInv'
<1>1. FilesOK /\ ProcessOK(q) /\ Reached(q) /\ DOMAIN proc = Pids /\ opened \in Nat
  BY DEF ConnInv, FilesOK
<1>2. dir' = dir /\ opened' = opened /\ events' = events /\ up' = up
  OBVIOUS
<1>3. /\ proc'[q] = Off /\ DOMAIN proc' = Pids
      /\ \A p \in Pids \ {q} : proc'[p] = proc[p]
  BY <1>1
<1>4. \A p \in Pids \ {q} : Unmoved(p)
  BY <1>3 DEF Unmoved
<1> DEFINE ids == {c.id : c \in proc[q].socks}
<1>5. inbox' = [i \in DOMAIN inbox \ ids |-> inbox[i]] /\ attached' = attached \ ids
  BY DEF Gone
<1>6. Spared(q)
  <2>1. \A i \in 1 .. opened : (\A c \in proc[q].socks : c.id # i) => i \notin ids
    OBVIOUS
  <2> HIDE DEF ids
  <2>2. \A i \in 1 .. opened : i \in DOMAIN inbox /\ (\A c \in proc[q].socks : c.id # i) =>
            i \in DOMAIN inbox' /\ inbox'[i] = inbox[i]
    BY <1>5, <2>1
  <2>3. \A i \in 1 .. opened : (\A c \in proc[q].socks : c.id # i) =>
            (i \in attached' <=> i \in attached)
    BY <1>5, <2>1
  <2> QED
    BY ONLY <1>1, <1>2, <1>3, <1>4, <2>2, <2>3 DEF Spared
<1>7. FilesOK'
  BY <1>1, <1>2, <1>3, <1>5 DEF FilesOK
<1>8. ProcessOK(q)' /\ Reached(q)' /\ Watches(q)'
  BY <1>3 DEF Off, ProcessOK, Reached, Watches, Base, Running, Monitoring
<1> QED
  BY <1>6, <1>7, <1>8, ConnKept

\* A step of q that opens and closes nothing: it may read what is in its inbox,
\* be written to, be attached or detached.
KeepsSockets(q) ==
    /\ Base \subseteq DOMAIN proc'[q]
    /\ proc'[q].counter = proc[q].counter /\ proc'[q].conn = proc[q].conn
    /\ proc'[q].socks = proc[q].socks
    /\ DOMAIN proc' = Pids /\ \A p \in Pids \ {q} : Unmoved(p)
    /\ dir' = dir /\ opened' = opened /\ events' = events /\ up' = up
    /\ \/ inbox' = inbox /\ attached' = attached
       \/ /\ proc[q].conn \in proc[q].socks
          /\ inbox' = [inbox EXCEPT ![proc[q].conn.id] = inbox'[proc[q].conn.id]]
          /\ IsSeq(inbox'[proc[q].conn.id])
          /\ attached' \in {attached, attached \cup {proc[q].conn.id},
                            attached \ {proc[q].conn.id}}

LEMMA KeptSockets ==
  ASSUME ConnInv, NEW q \in Pids, KeepsSockets(q)
  PROVE  /\ Spared(q) /\ FilesOK' /\ Reached(q)' /\ proc'[q].socks \subseteq Owned(q)'
         /\ proc'[q].counter \in Nat
         /\ proc'[q].conn = Null \/ proc'[q].conn \in proc'[q].socks
<1>1. FilesOK /\ ProcessOK(q) /\ Reached(q) /\ DOMAIN proc = Pids /\ opened \in Nat
  BY DEF ConnInv, FilesOK
<1>2. /\ dir' = dir /\ opened' = opened /\ events' = events /\ up' = up
      /\ DOMAIN proc' = Pids /\ \A p \in Pids \ {q} : Unmoved(p)
      /\ proc'[q].socks = proc[q].socks /\ proc'[q].conn = proc[q].conn
      /\ proc'[q].counter = proc[q].counter
  BY DEF KeepsSockets
<1> DEFINE id == proc[q].conn.id
<1>3. CASE inbox' = inbox /\ attached' = attached
  <2>1. Spared(q)
    BY ONLY <1>1, <1>2, <1>3 DEF Spared
  <2> QED
    BY <1>1, <1>2, <1>3, <2>1 DEF FilesOK, Reached, ProcessOK, Owned
<1>4. CASE /\ proc[q].conn \in proc[q].socks
           /\ inbox' = [inbox EXCEPT ![id] = inbox'[id]]
           /\ IsSeq(inbox'[id])
           /\ attached' \in {attached, attached \cup {id}, attached \ {id}}
  <2>1. id \in 1 .. opened /\ id \in DOMAIN inbox
    BY <1>1, <1>4, SocketsDiffer DEF Reached
  <2> HIDE DEF id
  <2>2. DOMAIN inbox' = DOMAIN inbox /\ \A i \in DOMAIN inbox : i # id => inbox'[i] = inbox[i]
    BY <1>4
  <2>3. \A i : (\A c \in proc[q].socks : c.id # i) => i # id
    BY <1>4 DEF id
  <2>4. \A i \in 1 .. opened : i \in DOMAIN inbox /\ (\A c \in proc[q].socks : c.id # i) =>
            i \in DOMAIN inbox' /\ inbox'[i] = inbox[i]
    BY <2>2, <2>3
  <2>5. \A i \in 1 .. opened : (\A c \in proc[q].socks : c.id # i) =>
            (i \in attached' <=> i \in attached)
    BY <1>4, <2>3
  <2>6. Spared(q)
    BY ONLY <1>1, <1>2, <2>4, <2>5 DEF Spared
  <2>7. FilesOK'
    BY <1>1, <1>2, <1>4, <2>1 DEF FilesOK
  <2>8. Reached(q)'
    BY <1>1, <1>2, <1>4, <2>2 DEF Reached
  <2> QED
    BY <1>1, <1>2, <2>6, <2>7, <2>8 DEF ProcessOK, Owned
<1> QED
  BY <1>3, <1>4 DEF KeepsSockets

\* A step of the controller in process q.
LEMMA ControllerMoves ==
  ASSUME ConnInv, NEW q \in Pids, KeepsSockets(q), Asks \subseteq DOMAIN proc'[q],
         proc'[q].pc \notin Monitoring \cup {"off"}
  PROVE  ConnInv'
<1>1. ProcessOK(q)'
  BY KeptSockets DEF ProcessOK, Monitoring, KeepsSockets
<1>2. Watches(q)'
  BY DEF Watches, Monitoring
<1> QED
  BY <1>1, <1>2, KeptSockets, ConnKept

LEMMA ControllerOpens ==
  ASSUME ConnInv, NEW q \in Pids, NEW opening, NEW failing,
         Base \cup Asks \subseteq DOMAIN opening, Base \cup Asks \subseteq DOMAIN failing,
         opening.socks = proc[q].socks, failing.socks = proc[q].socks,
         opening.pc \notin Monitoring \cup {"off"}, failing.pc \notin Monitoring \cup {"off"},
         Open(q, opening, failing), UNCHANGED <<attached, events, up>>
  PROVE  ConnInv'
<1>1. /\ Spared(q) /\ FilesOK' /\ Reached(q)'
      /\ Base \subseteq DOMAIN proc'[q] /\ proc'[q].counter \in Nat
      /\ proc'[q].socks \subseteq Owned(q)'
      /\ \/ /\ proc'[q].conn # Null /\ proc'[q].conn \in proc'[q].socks
            /\ DOMAIN proc'[q] = DOMAIN opening
            /\ \A f \in DOMAIN opening \ {"counter", "conn", "socks"} : proc'[q][f] = opening[f]
         \/ /\ proc'[q].conn = Null
            /\ DOMAIN proc'[q] = DOMAIN failing
            /\ \A f \in DOMAIN failing \ {"counter", "conn", "socks"} : proc'[q][f] = failing[f]
  BY OpenStep
<1>2. proc'[q].pc \notin Monitoring \cup {"off"} /\ Asks \subseteq DOMAIN proc'[q]
  BY <1>1 DEF Base
<1>3. ProcessOK(q)'
  BY <1>1, <1>2 DEF ProcessOK, Monitoring
<1>4. Watches(q)'
  BY <1>2 DEF Watches, Monitoring
<1> QED
  BY <1>1, <1>3, <1>4, ConnKept

-----------------------------------------------------------------------------
(* The requests of the controller.                                           *)

\* An answer in time, with nothing left unread, is that of the command asked.
LEMMA CmdReturns ==
  ASSUME ConnInv, NEW p \in Pids, NEW cmds, NEW o \in _wpa_ctrl_cmd(p, cmds)
  PROVE  /\ proc[p].conn \in proc[p].socks /\ IsSeq(o.inbox)
         /\ o.ret = 0 /\ o.inbox = <<>> => o.cmd \in cmds /\ o.reply = o.cmd.reply
<1>1. ProcessOK(p) /\ Reached(p)
  BY DEF ConnInv
<1>2. proc[p].conn # Null
  BY DEF _wpa_ctrl_cmd
<1>3. proc[p].conn \in proc[p].socks /\ IsSeq(inbox[proc[p].conn.id])
  BY <1>1, <1>2 DEF ProcessOK, Reached
<1> DEFINE unread == inbox[proc[p].conn.id]
<1> DEFINE nothing == Done(nets, selected, saved, <<"none">>)
<1>4. CASE ~up
  <2>1. o = [cmd |-> nothing, ret |-> -1, reply |-> nothing.reply, inbox |-> unread]
    BY <1>2, <1>4 DEF _wpa_ctrl_cmd
  <2> HIDE DEF nothing, unread
  <2>2. o.ret = -1 /\ o.inbox = unread
    BY <2>1
  <2> QED
    BY <1>3, <2>2 DEF unread
<1>5. CASE up
  <2>1. \E cmd \in cmds : \E r \in wpa_ctrl_request(unread, cmd.reply) :
            o = [cmd |-> cmd, ret |-> r.ret, reply |-> r.reply, inbox |-> r.inbox]
    BY <1>2, <1>5 DEF _wpa_ctrl_cmd
  <2>2. PICK cmd \in cmds : \E r \in wpa_ctrl_request(unread, cmd.reply) :
            o = [cmd |-> cmd, ret |-> r.ret, reply |-> r.reply, inbox |-> r.inbox]
    BY <2>1
  <2>3. PICK r \in wpa_ctrl_request(unread, cmd.reply) :
            o = [cmd |-> cmd, ret |-> r.ret, reply |-> r.reply, inbox |-> r.inbox]
    BY <2>2
  <2> HIDE DEF unread
  <2>4. IsSeq(r.inbox) /\ (r.ret = 0 /\ r.inbox = <<>> => r.reply = cmd.reply)
    BY <1>3, <2>3, RequestReturns DEF unread
  <2> QED
    BY <1>3, <2>2, <2>3, <2>4
<1> QED
  BY <1>4, <1>5

LEMMA GoOnKeeps ==
  ASSUME ConnInv, NEW p \in Pids, Running(p), NEW cmds, NEW o \in _wpa_ctrl_cmd(p, cmds), NEW new,
         DOMAIN new = DOMAIN proc[p], new.pc \notin Monitoring \cup {"off"},
         new.counter = proc[p].counter, new.conn = proc[p].conn, new.socks = proc[p].socks,
         GoOn(p, o, new)
  PROVE  ConnInv'
<1>1. ProcessOK(p) /\ DOMAIN proc = Pids /\ p \in DOMAIN proc /\ Reached(p)
  BY DEF ConnInv, FilesOK
<1>2. /\ proc[p].conn \in proc[p].socks /\ IsSeq(o.inbox)
  BY CmdReturns
<1>3. /\ inbox' = [inbox EXCEPT ![proc[p].conn.id] = o.inbox]
      /\ proc' = Disturbs(p, [new EXCEPT !.clean = @ /\ o.ret = 0 /\ o.inbox = <<>>])
      /\ dir' = dir /\ opened' = opened /\ attached' = attached /\ events' = events /\ up' = up
  BY DEF GoOn
<1>4. inbox'[proc[p].conn.id] = o.inbox
  BY <1>1, <1>2, <1>3 DEF Reached
<1>5. /\ proc'[p] = [new EXCEPT !.clean = @ /\ o.ret = 0 /\ o.inbox = <<>>] /\ DOMAIN proc' = Pids
      /\ \A q \in Pids \ {p} : proc'[q] \in {proc[q], [proc[q] EXCEPT !.clean = FALSE]}
  BY <1>3 DEF Disturbs
<1>6. ASSUME NEW q \in Pids \ {p} PROVE Unmoved(q)
  <2>1. "clean" \notin Base \cup Watch
    BY DEF Base, Watch
  <2>2. CASE proc'[q] = proc[q]
    BY <2>2 DEF Unmoved
  <2>3. CASE proc'[q] = [proc[q] EXCEPT !.clean = FALSE]
    BY <2>1, <2>3 DEF Unmoved
  <2> QED
    BY <1>5, <2>2, <2>3
<1>7. /\ DOMAIN proc'[p] = DOMAIN proc[p] /\ proc'[p].pc = new.pc
      /\ proc'[p].counter = proc[p].counter /\ proc'[p].conn = proc[p].conn
      /\ proc'[p].socks = proc[p].socks
  BY <1>5
<1>8. KeepsSockets(p)
  BY <1>1, <1>2, <1>3, <1>4, <1>5, <1>6, <1>7 DEF KeepsSockets, ProcessOK
<1>9. Asks \subseteq DOMAIN proc'[p]
  BY <1>1, <1>7 DEF ProcessOK
<1> QED
  BY <1>7, <1>8, <1>9, ControllerMoves

LEMMA StepKeeps ==
  ASSUME ConnInv, NEW p \in Pids, NEW pc, NEW next, NEW cmds,
         pc \notin Monitoring \cup {"off"}, next \notin Monitoring \cup {"off"},
         Step(p, pc, cmds, next)
  PROVE  ConnInv'
<1>1. PICK o \in _wpa_ctrl_cmd(p, cmds) : GoOn(p, o, [proc[p] EXCEPT !.pc = next])
  BY DEF Step
<1>2. Running(p) /\ "pc" \in DOMAIN proc[p]
  BY DEF Step, Running, Monitoring, ConnInv, ProcessOK, Base
<1> DEFINE new == [proc[p] EXCEPT !.pc = next]
<1>3. /\ DOMAIN new = DOMAIN proc[p] /\ new.pc = next /\ new.counter = proc[p].counter
      /\ new.conn = proc[p].conn /\ new.socks = proc[p].socks /\ GoOn(p, o, new)
  BY <1>1, <1>2
<1> HIDE DEF new
<1> QED
  BY <1>2, <1>3, GoOnKeeps

\* What a step makes of its process, but for its pc and the fields of config_wifi().
LEMMA LocalKeeps ==
  ASSUME ConnInv, NEW p \in Pids, NEW new, UNCHANGED <<dir, opened, inbox, attached, events, up>>,
         proc' = [proc EXCEPT ![p] = new], Base \cup Asks \subseteq DOMAIN new,
         new.pc \notin Monitoring \cup {"off"},
         new.counter = proc[p].counter, new.conn = proc[p].conn, new.socks = proc[p].socks
  PROVE  ConnInv'
<1>1. DOMAIN proc = Pids
  BY DEF ConnInv, FilesOK
<1>2. proc'[p] = new /\ DOMAIN proc' = Pids /\ \A q \in Pids \ {p} : proc'[q] = proc[q]
  BY <1>1
<1>3. \A q \in Pids \ {p} : Unmoved(q)
  BY <1>2 DEF Unmoved
<1>4. KeepsSockets(p)
  BY <1>2, <1>3 DEF KeepsSockets
<1> QED
  BY <1>2, <1>4, ControllerMoves

LEMMA RunningFields ==
  ASSUME ConnInv, NEW p \in Pids, Running(p)
  PROVE  Base \cup Asks \subseteq DOMAIN proc[p]
  BY DEF ConnInv, ProcessOK

LEMMA ControllerKeeps ==
  ASSUME ConnInv, NEW p \in Pids, Controller(p)
  PROVE  ConnInv'
<1> USE DEF Monitoring
<1>1. ProcessOK(p) /\ DOMAIN proc = Pids
  BY DEF ConnInv, FilesOK
<1>2. CASE Start(p)
  <2>1. proc[p].socks = {} /\ Open(p, Program, Program) /\ UNCHANGED <<attached, events, up>>
    BY <1>1, <1>2 DEF Start, ProcessOK
  <2>2. Base \cup Asks \subseteq DOMAIN Program /\ Program.socks = {} /\ Program.pc = "loop"
    BY DEF Program, Base, Asks
  <2> HIDE DEF Monitoring
  <2>3. Program.pc \notin Monitoring \cup {"off"}
    BY <2>2 DEF Monitoring
  <2> QED
    BY <2>1, <2>2, <2>3, ControllerOpens
<1>3. CASE End(p) \/ NoConnection(p)
  BY <1>3, GoneStep DEF End, NoConnection
<1>4. ASSUME NEW pc \in {"config", "disconnect", "scan"}, NextOption(p, pc)
      PROVE  ConnInv'
  <2> DEFINE new == [Program EXCEPT !.pc = pc, !.counter = proc[p].counter,
                                    !.conn = proc[p].conn, !.socks = proc[p].socks]
  <2>1. /\ Base \cup Asks \subseteq DOMAIN new /\ new.pc = pc /\ new.counter = proc[p].counter
        /\ new.conn = proc[p].conn /\ new.socks = proc[p].socks
    BY DEF Program, Base, Asks
  <2>2. /\ proc' = [proc EXCEPT ![p] = new]
        /\ UNCHANGED <<dir, opened, inbox, attached, events, up>>
    BY <1>4 DEF NextOption, library
  <2> HIDE DEF new
  <2> QED
    BY <2>1, <2>2, LocalKeeps
<1>5. CASE disconnect(p) \/ ScanResults(p) \/ remove_network(p) \/ reconfigure(p)
           \/ set_network(p) \/ select_network(p)
  BY <1>5, StepKeeps
  DEF disconnect, ScanResults, remove_network, reconfigure, set_network, select_network
<1>6. CASE ScanOpen(p)
  <2> DEFINE opening == [proc[p] EXCEPT !.pc = "SCAN"]
  <2> DEFINE failing == [proc[p] EXCEPT !.pc = "loop"]
  <2>1. /\ proc[p].pc = "scan" /\ Open(p, opening, failing) /\ UNCHANGED <<attached, events, up>>
        /\ Base \cup Asks \subseteq DOMAIN proc[p]
    BY <1>6, RunningFields DEF ScanOpen, Running
  <2>2. /\ opening.pc = "SCAN" /\ opening.socks = proc[p].socks
        /\ failing.pc = "loop" /\ failing.socks = proc[p].socks
        /\ DOMAIN opening = DOMAIN proc[p] /\ DOMAIN failing = DOMAIN proc[p]
    BY <2>1 DEF Base
  <2> HIDE DEF opening, failing
  <2> QED
    BY <2>1, <2>2, ControllerOpens
<1>7. CASE Scan(p)
  <2>1. PICK o \in _wpa_ctrl_cmd(p, Other) :
            GoOn(p, o, [proc[p] EXCEPT !.pc = IF o.ret < 0 THEN "loop" ELSE "SCAN_RESULTS"])
    BY <1>7 DEF Scan
  <2> DEFINE new == [proc[p] EXCEPT !.pc = IF o.ret < 0 THEN "loop" ELSE "SCAN_RESULTS"]
  <2>2. Running(p) /\ Base \subseteq DOMAIN proc[p]
    BY <1>1, <1>7 DEF Scan, Running, ProcessOK
  <2>3. /\ DOMAIN new = DOMAIN proc[p] /\ new.pc \in {"loop", "SCAN_RESULTS"}
        /\ new.counter = proc[p].counter /\ new.conn = proc[p].conn
        /\ new.socks = proc[p].socks /\ GoOn(p, o, new)
    BY <2>1, <2>2 DEF Base
  <2> HIDE DEF new
  <2> QED
    BY <2>2, <2>3, GoOnKeeps
<1>8. CASE config_wifi(p)
  <2>1. proc[p].pc = "config" /\ Base \cup Asks \subseteq DOMAIN proc[p]
        /\ UNCHANGED <<dir, opened, inbox, attached, events, up>>
    BY <1>8, RunningFields DEF config_wifi, Running, library
  <2>2. PICK new : /\ proc' = [proc EXCEPT ![p] = new] /\ DOMAIN new = DOMAIN proc[p]
                   /\ new.pc \in {"add", "loop"} /\ new.counter = proc[p].counter
                   /\ new.conn = proc[p].conn /\ new.socks = proc[p].socks
    <3>1. CASE proc' = [proc EXCEPT ![p].pc = "loop"]
      <4> WITNESS [proc[p] EXCEPT !.pc = "loop"]
      <4> QED
        BY <1>1, <2>1, <3>1 DEF Base
    <3>2. ASSUME NEW s \in Ssids,
                 proc' = [proc EXCEPT ![p].pc = "add", ![p].asked = [ssid |-> s, psk |-> "good"],
                                      ![p].before = nets, ![p].clean = TRUE]
          PROVE  \E new : /\ proc' = [proc EXCEPT ![p] = new] /\ DOMAIN new = DOMAIN proc[p]
                          /\ new.pc \in {"add", "loop"} /\ new.counter = proc[p].counter
                          /\ new.conn = proc[p].conn /\ new.socks = proc[p].socks
      <4> WITNESS [proc[p] EXCEPT !.pc = "add", !.asked = [ssid |-> s, psk |-> "good"],
                                  !.before = nets, !.clean = TRUE]
      <4> QED
        BY <1>1, <2>1, <3>2 DEF Base
    <3> QED
      BY <1>8, <3>1, <3>2 DEF config_wifi
  <2> QED
    BY <2>1, <2>2, LocalKeeps
<1>9. ASSUME NEW cmds, NEW o \in _wpa_ctrl_cmd(p, cmds), NEW new, GoOn(p, o, new), Running(p),
             DOMAIN new = DOMAIN proc[p], new.pc \notin Monitoring \cup {"off"},
             new.counter = proc[p].counter, new.conn = proc[p].conn, new.socks = proc[p].socks
      PROVE  ConnInv'
  BY <1>9, GoOnKeeps
<1>10. CASE add_network(p)
  <2>4. PICK o \in _wpa_ctrl_cmd(p, ADD_NETWORK) : \E id \in NetIds(o.ret, o.reply) :
          GoOn(p, o, IF id > NETWORK_ID_MAX
                     THEN [proc[p] EXCEPT !.pc = "remove", !.netid = NETWORK_ID_MAX]
                     ELSE [proc[p] EXCEPT !.pc = "ssid", !.netid = id])
    BY <1>10 DEF add_network
  <2>1. PICK id \in NetIds(o.ret, o.reply) :
          GoOn(p, o, IF id > NETWORK_ID_MAX
                     THEN [proc[p] EXCEPT !.pc = "remove", !.netid = NETWORK_ID_MAX]
                     ELSE [proc[p] EXCEPT !.pc = "ssid", !.netid = id])
    BY <2>4
  <2> DEFINE new == IF id > NETWORK_ID_MAX
                    THEN [proc[p] EXCEPT !.pc = "remove", !.netid = NETWORK_ID_MAX]
                    ELSE [proc[p] EXCEPT !.pc = "ssid", !.netid = id]
  <2>2. Running(p) /\ Base \subseteq DOMAIN proc[p]
    BY <1>1, <1>10 DEF add_network, Running, ProcessOK
  <2>3. /\ DOMAIN new = DOMAIN proc[p] /\ new.pc \in {"remove", "ssid"}
        /\ new.counter = proc[p].counter /\ new.conn = proc[p].conn
        /\ new.socks = proc[p].socks /\ GoOn(p, o, new)
    BY <2>1, <2>2 DEF Base
  <2> HIDE DEF new
  <2> QED
    BY <1>9, <2>2, <2>3
<1>11. CASE save_config(p)
  <2>1. PICK o \in _wpa_ctrl_cmd(p, SAVE_CONFIG) :
          GoOn(p, o, [proc[p] EXCEPT !.pc = "reconfigure",
              !.clean = @ /\ o.reply = Ok /\ Len(o.cmd.saved) = Cardinality(DOMAIN nets)])
    BY <1>11 DEF save_config
  <2> DEFINE new == [proc[p] EXCEPT !.pc = "reconfigure",
              !.clean = @ /\ o.reply = Ok /\ Len(o.cmd.saved) = Cardinality(DOMAIN nets)]
  <2>2. Running(p) /\ Base \subseteq DOMAIN proc[p]
    BY <1>1, <1>11 DEF save_config, Running, ProcessOK
  <2>3. /\ DOMAIN new = DOMAIN proc[p] /\ new.pc = "reconfigure"
        /\ new.counter = proc[p].counter /\ new.conn = proc[p].conn
        /\ new.socks = proc[p].socks /\ GoOn(p, o, new)
    BY <2>1, <2>2 DEF Base
  <2> HIDE DEF new
  <2> QED
    BY <1>9, <2>2, <2>3
<1>12. CASE status(p)
  <2>1. PICK o \in _wpa_ctrl_cmd(p, STATUS) :
          GoOn(p, o, [proc[p] EXCEPT !.pc = "loop",
              !.said = IF o.ret < 0 THEN ""
                       ELSE IF o.reply = <<"status", proc[p].asked.ssid>> THEN "connected"
                       ELSE "check"])
    BY <1>12 DEF status
  <2> DEFINE new == [proc[p] EXCEPT !.pc = "loop",
              !.said = IF o.ret < 0 THEN ""
                       ELSE IF o.reply = <<"status", proc[p].asked.ssid>> THEN "connected"
                       ELSE "check"]
  <2>2. Running(p) /\ Base \subseteq DOMAIN proc[p]
    BY <1>1, <1>12 DEF status, Running, ProcessOK
  <2>3. /\ DOMAIN new = DOMAIN proc[p] /\ new.pc = "loop"
        /\ new.counter = proc[p].counter /\ new.conn = proc[p].conn
        /\ new.socks = proc[p].socks /\ GoOn(p, o, new)
    BY <2>1, <2>2 DEF Base
  <2> HIDE DEF new
  <2> QED
    BY <1>9, <2>2, <2>3
<1> QED
  BY <1>2, <1>3, <1>4, <1>5, <1>6, <1>7, <1>8, <1>10, <1>11, <1>12 DEF Controller

-----------------------------------------------------------------------------
(* The steps of a monitor.                                                   *)

LEMMA EventsSince ==
  ASSUME NEW a \in Nat, NEW b \in Nat, a <= b
  PROVE  /\ Since(a, b) \in Seq(Events)
         /\ Append(Since(a, b), Event(b + 1)) = Since(a, b + 1)
         /\ Since(a, a) = <<>>
<1>1. b - a \in Nat /\ (b + 1) - a = (b - a) + 1 /\ a + ((b - a) + 1) = b + 1 /\ a - a = 0
  OBVIOUS
<1>2. \A i \in 1 .. (b - a) : Event(a + i) \in Events
  <2>1. \A i \in 1 .. (b - a) : a + i \in Nat
    BY <1>1
  <2> QED
    BY <2>1 DEF Events
<1>3. Since(a, b) \in Seq(Events)
  BY <1>1, <1>2, IsASeq DEF Since
<1>4. Append(Since(a, b), Event(b + 1)) = Since(a, b + 1)
  <2>1. Len(Since(a, b)) = b - a /\ \A i \in 1 .. (b - a) : Since(a, b)[i] = Event(a + i)
    BY <1>1 DEF Since
  <2>2. Append(Since(a, b), Event(b + 1)) =
            [i \in 1 .. (b - a) + 1 |-> IF i = (b - a) + 1 THEN Event(b + 1) ELSE Since(a, b)[i]]
    BY <1>1, <1>3, <2>1
  <2>3. \A i \in 1 .. (b - a) + 1 :
            (IF i = (b - a) + 1 THEN Event(b + 1) ELSE Since(a, b)[i]) = Event(a + i)
    <3>1. \A i \in 1 .. (b - a) + 1 : i = (b - a) + 1 \/ i \in 1 .. (b - a)
      BY <1>1
    <3> QED
      BY <1>1, <2>1, <3>1
  <2> QED
    BY <1>1, <2>2, <2>3 DEF Since
<1>5. Since(a, a) = <<>>
  BY <1>1 DEF Since
<1> QED
  BY <1>3, <1>4, <1>5

LEMMA HeadMoves ==
  ASSUME NEW x \in Seq(Events), NEW y \in Seq(Events), y # <<>>
  PROVE  /\ Append(x, Head(y)) \in Seq(Events) /\ Tail(y) \in Seq(Events)
         /\ Append(x, Head(y)) \o Tail(y) = x \o y
<1>1. Head(y) \in Events /\ Tail(y) \in Seq(Events)
  OBVIOUS
<1> QED
  BY <1>1

LEMMA AppendedBehind ==
  ASSUME NEW x \in Seq(Events), NEW y \in Seq(Events), NEW e \in Events
  PROVE  Append(y, e) \in Seq(Events) /\ x \o Append(y, e) = Append(x \o y, e)
  OBVIOUS

LEMMA MonitorStartKeeps ==
  ASSUME ConnInv, NEW p \in Pids, MonitorStart(p)
  PROVE  ConnInv'
<1>1. ProcessOK(p) /\ DOMAIN proc = Pids /\ proc[p].pc = "off"
  BY DEF ConnInv, FilesOK, MonitorStart
<1>2. proc[p].socks = {} /\ proc[p].conn = Null /\ proc[p].counter = 0
  BY <1>1 DEF ProcessOK
<1> DEFINE new == [pc |-> "m_open", counter |-> 0, conn |-> Null, socks |-> {},
                   since |-> 0, seen |-> <<>>, late |-> FALSE]
<1>3. /\ proc'[p] = new /\ DOMAIN proc' = Pids /\ \A q \in Pids \ {p} : proc'[q] = proc[q]
      /\ dir' = dir /\ opened' = opened /\ events' = events /\ up' = up
      /\ inbox' = inbox /\ attached' = attached
  BY <1>1 DEF MonitorStart
<1>4. Base \cup Watch \subseteq DOMAIN new
  BY DEF Base, Watch
<1>5. \A q \in Pids \ {p} : Unmoved(q)
  BY <1>3 DEF Unmoved
<1>6. KeepsSockets(p)
  BY <1>2, <1>3, <1>4, <1>5 DEF KeepsSockets
<1>7. Watches(p)'
  BY <1>3 DEF Watches
<1>8. ProcessOK(p)'
  BY <1>3, <1>4, <1>6, KeptSockets DEF ProcessOK, Running
<1> QED
  BY <1>6, <1>7, <1>8, KeptSockets, ConnKept

LEMMA MonitorOpenKeeps ==
  ASSUME ConnInv, NEW p \in Pids, MonitorOpen(p)
  PROVE  ConnInv'
<1>1. /\ ProcessOK(p) /\ DOMAIN proc = Pids /\ proc[p].pc = "m_open" /\ proc[p].socks = {}
      /\ Base \cup Watch \subseteq DOMAIN proc[p]
  BY DEF ConnInv, FilesOK, MonitorOpen, ProcessOK, Monitoring
<1> DEFINE closed == [proc[p] EXCEPT !.seen = <<>>, !.late = FALSE]
<1> DEFINE opening == [closed EXCEPT !.pc = "m_idle"]
<1>2. Open(p, opening, closed) /\ UNCHANGED <<attached, events, up>>
  BY DEF MonitorOpen
<1>3. /\ DOMAIN closed = DOMAIN proc[p] /\ DOMAIN opening = DOMAIN proc[p]
      /\ closed.pc = "m_open" /\ opening.pc = "m_idle" /\ opening.seen = <<>>
      /\ opening.socks = {} /\ closed.socks = {}
  BY <1>1 DEF Base, Watch
<1> HIDE DEF closed, opening
<1>4. /\ Spared(p) /\ FilesOK' /\ Reached(p)'
      /\ Base \subseteq DOMAIN proc'[p] /\ proc'[p].counter \in Nat
      /\ proc'[p].socks \subseteq Owned(p)'
      /\ \/ /\ proc'[p].conn # Null /\ proc'[p].conn \in proc'[p].socks
            /\ proc'[p].socks = proc[p].socks \cup {proc'[p].conn}
            /\ inbox'[proc'[p].conn.id] = <<>> /\ proc'[p].conn.id \notin attached'
            /\ DOMAIN proc'[p] = DOMAIN opening
            /\ \A f \in DOMAIN opening \ {"counter", "conn", "socks"} : proc'[p][f] = opening[f]
         \/ /\ proc'[p].conn = Null /\ proc'[p].socks = proc[p].socks
            /\ DOMAIN proc'[p] = DOMAIN closed
            /\ \A f \in DOMAIN closed \ {"counter", "conn", "socks"} : proc'[p][f] = closed[f]
  <2>1. Base \subseteq DOMAIN opening /\ Base \subseteq DOMAIN closed
    BY <1>1, <1>3
  <2>2. opening.socks = proc[p].socks /\ closed.socks = proc[p].socks
    BY <1>1, <1>3
  <2> QED
    BY <1>2, <2>1, <2>2, OpenStep
<1>5. CASE proc'[p].conn # Null
  <2>1. /\ proc'[p].socks = {proc'[p].conn} /\ proc'[p].pc = "m_idle" /\ proc'[p].seen = <<>>
        /\ DOMAIN proc'[p] = DOMAIN proc[p]
    BY <1>1, <1>3, <1>4, <1>5 DEF Base, Watch
  <2>2. ProcessOK(p)'
    BY <1>1, <1>4, <1>5, <2>1 DEF ProcessOK, Running
  <2>3. Watches(p)'
    BY <1>4, <1>5, <2>1 DEF Watches
  <2> QED
    BY <1>4, <2>2, <2>3, ConnKept
<1>6. CASE proc'[p].conn = Null
  <2>1. proc'[p].socks = {} /\ proc'[p].pc = "m_open" /\ DOMAIN proc'[p] = DOMAIN proc[p]
    BY <1>1, <1>3, <1>4, <1>6 DEF Base
  <2>2. ProcessOK(p)'
    BY <1>1, <1>4, <1>6, <2>1 DEF ProcessOK, Running
  <2>3. Watches(p)'
    BY <2>1 DEF Watches
  <2> QED
    BY <1>4, <2>2, <2>3, ConnKept
<1> QED
  BY <1>5, <1>6

\* The steps of a monitor with a connection, but for closing it.
LEMMA MonitorMoves ==
  ASSUME ConnInv, NEW p \in Pids, KeepsSockets(p), DOMAIN proc'[p] = DOMAIN proc[p],
         proc[p].pc \in {"m_idle", "m_on"}, proc'[p].pc \in {"m_on", "m_done"}, Watches(p)'
  PROVE  ConnInv'
<1>1. ProcessOK(p)
  BY DEF ConnInv
<1>2. ProcessOK(p)'
  BY <1>1, KeptSockets DEF ProcessOK, KeepsSockets, Running, Monitoring
<1> QED
  BY <1>2, KeptSockets, ConnKept

LEMMA AttachKeeps ==
  ASSUME ConnInv, NEW p \in Pids, wpa_ctrl_attach(p)
  PROVE  ConnInv'
<1> DEFINE id == proc[p].conn.id
<1>1. /\ FilesOK /\ ProcessOK(p) /\ Reached(p) /\ Watches(p) /\ proc[p].pc = "m_idle"
      /\ DOMAIN proc = Pids /\ events \in Nat
      /\ dir' = dir /\ opened' = opened /\ events' = events /\ up' = up
  BY DEF ConnInv, FilesOK, wpa_ctrl_attach
<1>2. /\ Base \cup Watch \subseteq DOMAIN proc[p] /\ proc[p].conn \in proc[p].socks
      /\ id \in DOMAIN inbox /\ IsSeq(inbox[id]) /\ inbox[id] = <<>> /\ proc[p].seen = <<>>
  BY <1>1 DEF ProcessOK, Reached, Watches, Monitoring
<1>3. CASE ~up
  <2>1. /\ proc' = [proc EXCEPT ![p].pc = "m_done"] /\ attached' = attached /\ inbox' = inbox
    BY <1>3 DEF wpa_ctrl_attach
  <2>2. /\ DOMAIN proc'[p] = DOMAIN proc[p] /\ proc'[p].pc = "m_done" /\ DOMAIN proc' = Pids
        /\ proc'[p].counter = proc[p].counter /\ proc'[p].conn = proc[p].conn
        /\ proc'[p].socks = proc[p].socks /\ \A q \in Pids \ {p} : proc'[q] = proc[q]
    BY <1>1, <1>2, <2>1 DEF Base
  <2>3. \A q \in Pids \ {p} : Unmoved(q)
    BY <2>2 DEF Unmoved
  <2>4. KeepsSockets(p)
    BY <1>1, <1>2, <2>1, <2>2, <2>3 DEF KeepsSockets
  <2> QED
    BY <1>1, <2>2, <2>4, MonitorMoves DEF Watches
<1>4. CASE up
  <2>1. PICK o \in wpa_ctrl_request(inbox[id], <<"OK">>) :
                /\ attached' = attached \cup {id}
                /\ inbox' = [inbox EXCEPT ![id] = o.inbox]
                /\ proc' = [proc EXCEPT
                        ![p].pc = IF Helper(p, o.ret, o.reply) = 0 THEN "m_on" ELSE "m_done",
                        ![p].since = events, ![p].late = @ \/ o.ret < 0]
    BY <1>4 DEF wpa_ctrl_attach
  <2> HIDE DEF id
  <2>2. IsSeq(o.inbox) /\ o.ret \in {0, -2} /\ (o.ret = 0 => o.inbox = <<>>)
    BY <1>2, RequestReturns
  <2>3. /\ DOMAIN proc'[p] = DOMAIN proc[p] /\ DOMAIN proc' = Pids
        /\ proc'[p].pc = (IF Helper(p, o.ret, o.reply) = 0 THEN "m_on" ELSE "m_done")
        /\ proc'[p].counter = proc[p].counter /\ proc'[p].conn = proc[p].conn
        /\ proc'[p].socks = proc[p].socks /\ proc'[p].since = events /\ proc'[p].seen = <<>>
        /\ \A q \in Pids \ {p} : proc'[q] = proc[q]
    BY <1>1, <1>2, <2>1 DEF Base, Watch
  <2>4. \A q \in Pids \ {p} : Unmoved(q)
    BY <2>3 DEF Unmoved
  <2>5. inbox'[id] = o.inbox /\ inbox' = [inbox EXCEPT ![id] = inbox'[id]] /\ IsSeq(inbox'[id])
    BY <1>2, <2>1, <2>2
  <2>6. KeepsSockets(p)
    BY <1>1, <1>2, <2>1, <2>3, <2>4, <2>5 DEF KeepsSockets, id
  <2>7. proc'[p].pc = "m_on" => o.ret = 0
    BY <2>2, <2>3 DEF Helper
  <2>8. <<>> \in Seq(Events) /\ <<>> \o <<>> = <<>> /\ Since(events, events) = <<>>
        /\ events \in 0 .. events
    BY <1>1, EventsSince
  <2>9. proc'[p].pc = "m_on" => inbox'[id] = <<>>
    BY <2>2, <2>5, <2>7
  <2>10. Watches(p)'
    <3>1. /\ proc'[p].conn.id = id /\ proc'[p].pc # "m_idle" /\ id \in attached'
          /\ proc'[p].since = events' /\ events' \in 0 .. events'
          /\ proc'[p].pc = "m_on" => inbox'[id] = <<>>
      BY <1>1, <2>1, <2>3, <2>8, <2>9 DEF id
    <3>2. <<>> \o <<>> = Since(events', events') /\ <<>> \in Seq(Events)
      BY <1>1, <2>8
    <3> QED
      BY <2>3, <3>1, <3>2 DEF Watches
  <2> QED
    BY <1>1, <2>3, <2>6, <2>10, MonitorMoves
<1> QED
  BY <1>3, <1>4

LEMMA RecvKeeps ==
  ASSUME ConnInv, NEW p \in Pids, wpa_ctrl_recv(p)
  PROVE  ConnInv'
<1> DEFINE id == proc[p].conn.id
<1>1. /\ FilesOK /\ ProcessOK(p) /\ Reached(p) /\ Watches(p) /\ proc[p].pc = "m_on"
      /\ DOMAIN proc = Pids /\ events \in Nat /\ inbox[id] # <<>>
      /\ dir' = dir /\ opened' = opened /\ events' = events /\ up' = up /\ attached' = attached
      /\ inbox' = [inbox EXCEPT ![id] = Tail(@)]
      /\ proc' = [proc EXCEPT ![p].seen = Append(@, Head(inbox[id]))]
  BY DEF ConnInv, FilesOK, wpa_ctrl_recv
<1>2. /\ Base \cup Watch \subseteq DOMAIN proc[p] /\ proc[p].conn \in proc[p].socks
      /\ id \in DOMAIN inbox /\ inbox[id] \in Seq(Events) /\ proc[p].seen \in Seq(Events)
      /\ proc[p].since \in 0 .. events /\ (up => id \in attached)
      /\ proc[p].seen \o inbox[id] = Since(proc[p].since, events)
  BY <1>1 DEF ProcessOK, Reached, Watches, Monitoring
<1> HIDE DEF id
<1>3. /\ DOMAIN proc'[p] = DOMAIN proc[p] /\ DOMAIN proc' = Pids /\ proc'[p].pc = "m_on"
      /\ proc'[p].counter = proc[p].counter /\ proc'[p].conn = proc[p].conn
      /\ proc'[p].socks = proc[p].socks /\ proc'[p].since = proc[p].since
      /\ proc'[p].seen = Append(proc[p].seen, Head(inbox[id]))
      /\ \A q \in Pids \ {p} : proc'[q] = proc[q]
  BY <1>1, <1>2 DEF Base, Watch
<1>4. inbox'[id] = Tail(inbox[id]) /\ inbox' = [inbox EXCEPT ![id] = inbox'[id]]
  BY <1>1, <1>2
<1>5. /\ proc'[p].seen \in Seq(Events) /\ inbox'[id] \in Seq(Events)
      /\ proc'[p].seen \o inbox'[id] = Since(proc[p].since, events)
  <2>1. /\ Append(proc[p].seen, Head(inbox[id])) \in Seq(Events)
        /\ Tail(inbox[id]) \in Seq(Events)
        /\ Append(proc[p].seen, Head(inbox[id])) \o Tail(inbox[id]) = proc[p].seen \o inbox[id]
    BY <1>1, <1>2, HeadMoves
  <2> QED
    BY <1>2, <1>3, <1>4, <2>1
<1>6. IsSeq(inbox'[id])
  BY <1>5, SeqIsSeq
<1>7. \A q \in Pids \ {p} : Unmoved(q)
  BY <1>3 DEF Unmoved
<1>8. KeepsSockets(p)
  BY <1>1, <1>2, <1>3, <1>4, <1>6, <1>7 DEF KeepsSockets, id
<1>9. Watches(p)'
  <2>1. /\ proc'[p].conn.id = id /\ proc'[p].pc # "m_idle" /\ (up' => id \in attached')
        /\ proc'[p].since \in 0 .. events'
        /\ proc'[p].seen \o inbox'[id] = Since(proc'[p].since, events')
    BY <1>1, <1>2, <1>3, <1>5 DEF id
  <2> QED
    BY <1>5, <2>1 DEF Watches
<1> QED
  BY <1>1, <1>3, <1>8, <1>9, MonitorMoves

LEMMA DetachKeeps ==
  ASSUME ConnInv, NEW p \in Pids, wpa_ctrl_detach(p)
  PROVE  ConnInv'
<1> DEFINE id == proc[p].conn.id
<1>1. /\ FilesOK /\ ProcessOK(p) /\ Reached(p) /\ Watches(p) /\ proc[p].pc = "m_on"
      /\ DOMAIN proc = Pids
      /\ dir' = dir /\ opened' = opened /\ events' = events /\ up' = up
      /\ proc' = [proc EXCEPT ![p].pc = "m_done"]
  BY DEF ConnInv, FilesOK, wpa_ctrl_detach
<1>2. /\ Base \cup Watch \subseteq DOMAIN proc[p] /\ proc[p].conn \in proc[p].socks
      /\ id \in DOMAIN inbox /\ IsSeq(inbox[id])
  BY <1>1 DEF ProcessOK, Reached, Monitoring
<1>3. /\ DOMAIN proc'[p] = DOMAIN proc[p] /\ DOMAIN proc' = Pids /\ proc'[p].pc = "m_done"
      /\ proc'[p].counter = proc[p].counter /\ proc'[p].conn = proc[p].conn
      /\ proc'[p].socks = proc[p].socks /\ \A q \in Pids \ {p} : proc'[q] = proc[q]
  BY <1>1, <1>2 DEF Base
<1>4. \A q \in Pids \ {p} : Unmoved(q)
  BY <1>3 DEF Unmoved
<1>5. \/ inbox' = inbox /\ attached' = attached
      \/ /\ inbox' = [inbox EXCEPT ![id] = inbox'[id]] /\ IsSeq(inbox'[id])
         /\ attached' = attached \ {id}
  <2>1. CASE ~up
    BY <2>1 DEF wpa_ctrl_detach
  <2>2. CASE up
    <3>1. PICK o \in wpa_ctrl_request(inbox[id], <<"OK">>) :
              attached' = attached \ {id} /\ inbox' = [inbox EXCEPT ![id] = o.inbox]
      BY <2>2 DEF wpa_ctrl_detach
    <3> HIDE DEF id
    <3>2. IsSeq(o.inbox)
      BY <1>2, RequestReturns
    <3> QED
      BY <1>2, <3>1, <3>2
  <2> QED
    BY <2>1, <2>2
<1>6. KeepsSockets(p)
  BY <1>1, <1>2, <1>3, <1>4, <1>5 DEF KeepsSockets
<1>7. Watches(p)'
  BY <1>3 DEF Watches
<1> QED
  BY <1>1, <1>3, <1>6, <1>7, MonitorMoves

LEMMA CloseKeeps ==
  ASSUME ConnInv, NEW p \in Pids, MonitorClose(p)
  PROVE  ConnInv'
<1> DEFINE conn == proc[p].conn
<1>1. /\ FilesOK /\ ProcessOK(p) /\ Reached(p) /\ proc[p].pc = "m_done"
      /\ DOMAIN proc = Pids /\ opened \in Nat
      /\ dir' = Without(dir, conn.name) /\ inbox' = Without(inbox, conn.id)
      /\ attached' = attached \ {conn.id} /\ opened' = opened /\ events' = events /\ up' = up
      /\ proc' = [proc EXCEPT ![p].conn = Null, ![p].socks = @ \ {conn}, ![p].pc = "m_open"]
  BY DEF ConnInv, FilesOK, MonitorClose, wpa_ctrl_close
<1>2. Base \cup Watch \subseteq DOMAIN proc[p] /\ proc[p].socks = {conn} /\ proc[p].counter \in Nat
  BY <1>1 DEF ProcessOK, Monitoring
<1>3. /\ DOMAIN proc'[p] = DOMAIN proc[p] /\ DOMAIN proc' = Pids /\ proc'[p].pc = "m_open"
      /\ proc'[p].counter = proc[p].counter /\ proc'[p].conn = Null
      /\ proc'[p].socks = {} /\ \A q \in Pids \ {p} : proc'[q] = proc[q]
  BY <1>1, <1>2 DEF Base
<1>4. \A q \in Pids \ {p} : Unmoved(q)
  BY <1>3 DEF Unmoved
<1>5. PICK k \in 1 .. proc[p].counter, i \in 1 .. opened : conn = [name |-> <<p, k>>, id |-> i]
  BY <1>1, <1>2 DEF ProcessOK, Owned
<1>6. \A q \in Pids \ {p}, n \in Nat : <<q, n>> \in DOMAIN dir =>
          <<q, n>> \in DOMAIN dir' /\ dir'[<<q, n>>] = dir[<<q, n>>]
  <2>1. \A q \in Pids \ {p}, n \in Nat : <<q, n>> # conn.name
    BY <1>5
  <2> HIDE DEF conn
  <2> QED
    BY <1>1, <2>1 DEF Without
<1> HIDE DEF conn
<1>7. \A j \in 1 .. opened : j \in DOMAIN inbox /\ (\A c \in proc[p].socks : c.id # j) =>
          j \in DOMAIN inbox' /\ inbox'[j] = inbox[j]
  BY <1>1, <1>2 DEF Without
<1>8. \A j \in 1 .. opened : (\A c \in proc[p].socks : c.id # j) =>
          (j \in attached' <=> j \in attached)
  BY <1>1, <1>2
<1>9. Spared(p)
  <2>1. opened' \in Nat /\ opened' >= opened /\ events' = events /\ up' = up /\ DOMAIN proc' = Pids
    BY <1>1, <1>3
  <2> QED
    BY ONLY <1>4, <1>6, <1>7, <1>8, <2>1 DEF Spared
<1>10. FilesOK'
  BY <1>1, <1>3 DEF FilesOK, Without
<1>11. ProcessOK(p)' /\ Reached(p)' /\ Watches(p)'
  BY <1>2, <1>3 DEF ProcessOK, Reached, Watches, Running
<1> QED
  BY <1>9, <1>10, <1>11, ConnKept

LEMMA MonitorKeeps ==
  ASSUME ConnInv, NEW p \in Pids, Monitor(p)
  PROVE  ConnInv'
  BY MonitorStartKeeps, MonitorOpenKeeps, AttachKeeps, RecvKeeps, DetachKeeps, CloseKeeps
  DEF Monitor

-----------------------------------------------------------------------------
(* The supplicant, and the theorem.                                          *)

LEMMA SendEventKeeps ==
  ASSUME ConnInv, SendEvent
  PROVE  ConnInv'
<1>1. /\ FilesOK /\ opened \in Nat /\ events \in Nat /\ up
      /\ dir' = dir /\ opened' = opened /\ attached' = attached /\ up' = up /\ proc' = proc
      /\ events' = events + 1
  BY DEF ConnInv, FilesOK, SendEvent
<1> DEFINE hears(i) == i \in attached /\ \E name \in DOMAIN dir : dir[name] = i
<1>2. inbox' = [i \in DOMAIN inbox |-> IF hears(i) THEN Append(inbox[i], Event(events'))
                                       ELSE inbox[i]]
  BY DEF SendEvent
<1> HIDE DEF hears
<1>3. FilesOK'
  BY <1>1 DEF FilesOK
<1>4. ASSUME NEW p \in Pids
      PROVE  ProcessOK(p)' /\ Reached(p)' /\ Watches(p)'
  <2>1. ProcessOK(p) /\ Reached(p) /\ Watches(p)
    BY DEF ConnInv
  <2>2. ProcessOK(p)'
    BY <1>1, <2>1 DEF ProcessOK, Owned, Running
  <2>3. Reached(p)'
    BY <1>1, <1>2, <2>1, AppendIsSeq DEF Reached
  <2>4. CASE proc[p].pc = "m_idle"
    <3>1. /\ proc[p].conn \in proc[p].socks /\ proc[p].conn.id \in DOMAIN inbox
          /\ proc[p].conn.id \notin attached /\ inbox[proc[p].conn.id] = <<>>
          /\ proc[p].seen = <<>>
      BY <2>1, <2>4 DEF ProcessOK, Reached, Watches
    <3>2. inbox'[proc[p].conn.id] = <<>>
      BY <1>2, <3>1 DEF hears
    <3> QED
      BY <1>1, <2>2, <2>3, <2>4, <3>1, <3>2 DEF Watches
  <2>5. CASE proc[p].pc = "m_on"
    <3> DEFINE id == proc[p].conn.id
    <3> DEFINE since == proc[p].since
    <3> DEFINE seen == proc[p].seen
    <3>1. /\ proc[p].conn \in proc[p].socks /\ id \in DOMAIN inbox /\ id \in attached
          /\ inbox[id] \in Seq(Events) /\ seen \in Seq(Events) /\ since \in 0 .. events
          /\ seen \o inbox[id] = Since(since, events)
      BY <1>1, <2>1, <2>5 DEF ProcessOK, Reached, Watches
    <3>2. hears(id)
      BY <2>1, <3>1 DEF Reached, hears
    <3> HIDE DEF id, since, seen
    <3>3. inbox'[id] = Append(inbox[id], Event(events + 1))
      BY <1>1, <1>2, <3>1, <3>2
    <3>4. Event(events + 1) \in Events
      BY <1>1 DEF Events
    <3>5. /\ inbox'[id] \in Seq(Events)
          /\ seen \o inbox'[id] = Append(seen \o inbox[id], Event(events + 1))
      BY <3>1, <3>3, <3>4, AppendedBehind
    <3>6. since \in Nat /\ since <= events /\ since \in 0 .. events'
      BY <1>1, <3>1
    <3>7. seen \o inbox'[id] = Since(since, events')
      BY <1>1, <3>1, <3>5, <3>6, EventsSince
    <3>8. Watches(p)'
      BY <1>1, <2>5, <3>1, <3>5, <3>6, <3>7 DEF Watches, id, since, seen
    <3> QED
      BY <2>2, <2>3, <3>8
  <2>6. CASE proc[p].pc \notin {"m_idle", "m_on"}
    BY <1>1, <2>2, <2>3, <2>6 DEF Watches
  <2> QED
    BY <2>4, <2>5, <2>6
<1> QED
  BY <1>3, <1>4 DEF ConnInv

LEMMA StaysAsItIs ==
  ASSUME ConnInv, dir' = dir, opened' = opened, inbox' = inbox, events' = events, proc' = proc,
         (attached' = attached /\ up' = up) \/ (attached' = {} /\ ~up')
  PROVE  ConnInv'
<1>1. FilesOK'
  BY DEF ConnInv, FilesOK
<1>2. ASSUME NEW p \in Pids PROVE ProcessOK(p)' /\ Reached(p)' /\ Watches(p)'
  <2>1. ProcessOK(p) /\ Reached(p) /\ Watches(p)
    BY DEF ConnInv
  <2>2. ProcessOK(p)'
    BY <2>1 DEF ProcessOK, Owned, Running
  <2>3. Reached(p)'
    BY <2>1 DEF Reached
  <2>4. Watches(p)'
    <3>1. CASE attached' = attached /\ up' = up
      BY <2>1, <3>1 DEF Watches
    <3>2. CASE attached' = {} /\ ~up'
      BY <2>1, <3>2 DEF Watches
    <3> QED
      BY <3>1, <3>2
  <2> QED
    BY <2>2, <2>3, <2>4
<1> QED
  BY <1>1, <1>2 DEF ConnInv

LEMMA StopKeeps ==
  ASSUME ConnInv, Stop
  PROVE  ConnInv'
  BY StaysAsItIs DEF Stop

LEMMA ConnStart == Init => ConnInv
<1> SUFFICES ASSUME Init PROVE ConnInv
  OBVIOUS
<1>1. /\ dir = <<>> /\ opened = 0 /\ events = 0 /\ attached = {}
      /\ proc = [p \in Pids |-> Off]
  BY DEF Init
<1>2. FilesOK
  BY <1>1 DEF FilesOK
<1>3. \A p \in Pids : ProcessOK(p) /\ Reached(p) /\ Watches(p)
  BY <1>1 DEF ProcessOK, Reached, Watches, Off, Base, Running, Monitoring
<1> QED
  BY <1>2, <1>3 DEF ConnInv

LEMMA ConnStep == ConnInv /\ [Next]_vars => ConnInv'
<1> SUFFICES ASSUME ConnInv, [Next]_vars PROVE ConnInv'
  OBVIOUS
<1>1. CASE UNCHANGED vars
  <2>1. /\ dir' = dir /\ opened' = opened /\ inbox' = inbox /\ attached' = attached
        /\ events' = events /\ up' = up /\ proc' = proc
    BY <1>1 DEF vars, library
  <2>2. (attached' = attached /\ up' = up) \/ (attached' = {} /\ ~up')
    BY <2>1
  <2> QED
    BY ONLY ConnInv, <2>1, <2>2, StaysAsItIs
<1>2. ASSUME NEW p \in Pids, Kill(p) PROVE ConnInv'
  BY <1>2, GoneStep DEF Kill
<1> QED
  BY <1>1, <1>2, ControllerKeeps, MonitorKeeps, SendEventKeeps, StopKeeps DEF Next

LEMMA ConnHolds == Spec => []ConnInv
  BY ConnStart, ConnStep, PTL DEF Spec

\* For every set of processes and any number of sockets and events: each open
\* socket is reached by its own file, whichever files an earlier process of the
\* same number has left, and a monitor receives the events since it was attached,
\* each once and in order (wpa_ctrl.c:92-241, 529-621).
THEOREM ConnectionsStay == Spec => []ConnectionsAreKept
<1>1. ConnInv => ConnectionsAreKept
  <2>1. ASSUME ConnInv PROVE SocketsAreReached
    BY <2>1 DEF ConnInv, Reached, SocketsAreReached, Living
  <2>2. ASSUME ConnInv PROVE MonitorsSeeEvents
    BY <2>2 DEF ConnInv, Watches, MonitorsSeeEvents, Living, Since
  <2> QED
    BY <2>1, <2>2 DEF ConnectionsAreKept
<1> QED
  BY <1>1, ConnHolds, PTL

-----------------------------------------------------------------------------
(* The networks.  As long as all goes well config_wifi() knows what they are *)
(* at each of its requests.                                                  *)

Added(b) == With(b, NETWORK_ID_MAX + 1, Blank)
Last(b)  == IF Cardinality(DOMAIN b) <= NETWORK_ID_MAX THEN Cardinality(DOMAIN b)
            ELSE NETWORK_ID_MAX

Making  == {"remove", "save", "reconfigure"}
Setting == {"ssid", "psk", "select", "status"}

Configured(p) ==
    LET b == proc[p].before
        asked == proc[p].asked
    IN  /\ proc[p].pc = "add" => nets = b
        /\ proc[p].pc \in Making => DOMAIN b = 0 .. NETWORK_ID_MAX /\ proc[p].netid = NETWORK_ID_MAX
        /\ proc[p].pc = "remove" => nets = Added(b)
        /\ proc[p].pc = "save" => nets = Without(Added(b), 0)
        /\ proc[p].pc = "reconfigure" => saved = [i \in 1 .. (NETWORK_ID_MAX + 1) |-> Added(b)[i]]
        /\ proc[p].pc \in Setting => proc[p].netid = Last(b)
        /\ proc[p].pc = "ssid" => nets = WithNew(b, Blank)
        /\ proc[p].pc = "psk" => nets = WithNew(b, [ssid |-> asked.ssid, psk |-> ""])
        /\ proc[p].pc \in {"select", "status"} => nets = WithNew(b, asked)
        /\ proc[p].pc = "status" => selected = Last(b)
        /\ proc[p].said = "connected" => nets[selected] = asked
        /\ proc[p].pc # "loop" => asked = [ssid |-> asked.ssid, psk |-> "good"]

NetworkOK(p) ==
    Running(p) =>
        /\ proc[p].said = "connected" => proc[p].pc = "loop"
        /\ proc[p].clean => proc[p].pc \in {"add", "loop"} \cup Making \cup Setting
        /\ proc[p].clean /\ Numbered(proc[p].before) => Configured(p)

LEMMA MaxIsNat == NETWORK_ID_MAX \in Nat /\ NETWORK_ID_MAX > 0
  BY ControllerAssumption

LEMMA NumberedFacts ==
  ASSUME NEW b, Numbered(b)
  PROVE  \E k \in 0 .. (NETWORK_ID_MAX + 1) : DOMAIN b = 0 .. (k - 1) /\ Cardinality(DOMAIN b) = k
<1>1. PICK k \in 0 .. (NETWORK_ID_MAX + 1) : DOMAIN b = 0 .. (k - 1)
  BY DEF Numbered
<1>2. k \in Nat /\ 0 \in Int /\ k - 1 \in Int /\ (k = 0 => 0 > k - 1) /\ (k # 0 => ~(0 > k - 1))
      /\ (k - 1) - 0 + 1 = k
  BY MaxIsNat
<1>3. Cardinality(0 .. (k - 1)) = IF 0 > k - 1 THEN 0 ELSE (k - 1) - 0 + 1
  BY <1>2, FS_Interval
<1>4. Cardinality(0 .. (k - 1)) = k
  BY <1>2, <1>3
<1> QED
  BY <1>1, <1>4

\* The new network has the last number, and setting it changes no other.
LEMMA NewIsLast ==
  ASSUME NEW b, Numbered(b), NEW n, NEW m
  PROVE  /\ Last(b) \in DOMAIN WithNew(b, n) /\ WithNew(b, n)[Last(b)] = n
         /\ [WithNew(b, n) EXCEPT ![Last(b)] = m] = WithNew(b, m)
<1>1. PICK k \in 0 .. (NETWORK_ID_MAX + 1) : DOMAIN b = 0 .. (k - 1) /\ Cardinality(DOMAIN b) = k
  BY NumberedFacts
<1>2. CASE k <= NETWORK_ID_MAX
  <2>1. /\ Last(b) = k /\ WithNew(b, n) = With(b, k, n) /\ WithNew(b, m) = With(b, k, m)
    BY <1>1, <1>2 DEF Last, WithNew
  <2> QED
    BY <2>1 DEF With
<1>3. CASE ~(k <= NETWORK_ID_MAX)
  <2>1. /\ Last(b) = NETWORK_ID_MAX
        /\ WithNew(b, n) = [i \in 0 .. NETWORK_ID_MAX |->
                               IF i = NETWORK_ID_MAX THEN n ELSE b[i + 1]]
        /\ WithNew(b, m) = [i \in 0 .. NETWORK_ID_MAX |->
                               IF i = NETWORK_ID_MAX THEN m ELSE b[i + 1]]
    BY <1>1, <1>3 DEF Last, WithNew
  <2>2. NETWORK_ID_MAX \in 0 .. NETWORK_ID_MAX
    BY MaxIsNat
  <2> QED
    BY <2>1, <2>2
<1> QED
  BY <1>2, <1>3

LEMMA NthOfAll ==
  ASSUME NEW n \in Nat, NEW i \in 1 .. n
  PROVE  Nth(1 .. n, i) = i
<1>1. ASSUME NEW id \in 1 .. n
      PROVE  Cardinality({other \in 1 .. n : other < id}) = id - 1
  <2>1. {other \in 1 .. n : other < id} = 1 .. (id - 1)
    OBVIOUS
  <2>2. Cardinality(1 .. (id - 1)) = IF 1 > id - 1 THEN 0 ELSE (id - 1) - 1 + 1
    BY FS_Interval, 1 \in Int, id - 1 \in Int
  <2>3. (IF 1 > id - 1 THEN 0 ELSE (id - 1) - 1 + 1) = id - 1
    OBVIOUS
  <2> QED
    BY <2>1, <2>2, <2>3
<1>2. \A id \in 1 .. n : Cardinality({other \in 1 .. n : other < id}) = i - 1 <=> id = i
  BY <1>1
<1> QED
  BY <1>2 DEF Nth

\* A file with as many networks as there are is that of all of them.
LEMMA KeptAll ==
  ASSUME NEW n \in Nat, DOMAIN nets = 1 .. n, NEW ids \in SUBSET (DOMAIN nets), NEW file,
         file = [i \in 1 .. Cardinality(ids) |-> nets[Nth(ids, i)]],
         Len(file) = Cardinality(DOMAIN nets)
  PROVE  file = [i \in 1 .. n |-> nets[i]]
<1>1. IsFiniteSet(1 .. n) /\ Cardinality(1 .. n) = n
  <2>1. IsFiniteSet(1 .. n) /\ Cardinality(1 .. n) = IF 1 > n THEN 0 ELSE n - 1 + 1
    BY FS_Interval
  <2>2. (IF 1 > n THEN 0 ELSE n - 1 + 1) = n
    OBVIOUS
  <2> QED
    BY <2>1, <2>2
<1>2. IsFiniteSet(ids) /\ Cardinality(ids) \in Nat
  BY <1>1, FS_Subset, FS_CardinalityType
<1>3. Len(file) = Cardinality(ids)
  BY <1>2
<1>4. ids = 1 .. n
  BY <1>1, <1>3, FS_Subset
<1> QED
  BY <1>1, <1>4, NthOfAll

NetInv == \A p \in Pids : NetworkOK(p)

\* Whoever else is in config_wifi() finds the networks unchanged, or is not clean.
LEMMA OthersNetworks ==
  ASSUME ConnInv, NetInv, NEW q \in Pids,
         \/ proc'[q] = proc[q] /\ (Running(q) => supplicant' = supplicant)
         \/ proc'[q] = [proc[q] EXCEPT !.clean = FALSE]
  PROVE  NetworkOK(q)'
<1>1. NetworkOK(q)
  BY DEF NetInv
<1>2. CASE proc'[q] = proc[q] /\ (Running(q) => supplicant' = supplicant)
  <2>1. Running(q) => nets' = nets /\ selected' = selected /\ saved' = saved
    BY <1>2 DEF supplicant
  <2>2. Running(q)' <=> Running(q)
    BY <1>2 DEF Running
  <2>3. Running(q) => (Configured(q) <=> Configured(q)')
    BY <1>2, <2>1 DEF Configured
  <2> QED
    BY <1>1, <1>2, <2>2, <2>3 DEF NetworkOK
<1>3. CASE proc'[q] = [proc[q] EXCEPT !.clean = FALSE]
  <2>1. "pc" \in DOMAIN proc[q] /\ (Running(q) => Asks \subseteq DOMAIN proc[q])
    BY DEF ConnInv, ProcessOK, Base
  <2>2. proc'[q].pc = proc[q].pc
    BY <1>3, <2>1
  <2>3. Running(q)' <=> Running(q)
    BY <2>2 DEF Running
  <2>4. Running(q) => proc'[q].clean = FALSE /\ proc'[q].said = proc[q].said
    BY <1>3, <2>1 DEF Asks
  <2> QED
    BY <1>1, <2>2, <2>3, <2>4 DEF NetworkOK
<1> QED
  BY <1>2, <1>3

LEMMA NetworksUntouched ==
  ASSUME ConnInv, NetInv, UNCHANGED supplicant, NEW p \in Pids, NetworkOK(p)',
         \A q \in Pids \ {p} : proc'[q] = proc[q]
  PROVE  NetInv'
<1>1. \A q \in Pids \ {p} : NetworkOK(q)'
  BY OthersNetworks
<1> QED
  BY <1>1 DEF NetInv

\* What a request makes of its process, and of the others.
LEMMA GoOnNetworks ==
  ASSUME ConnInv, NetInv, NEW p \in Pids, Running(p), NEW cmds, NEW o \in _wpa_ctrl_cmd(p, cmds),
         NEW new, DOMAIN new = DOMAIN proc[p], GoOn(p, o, new)
  PROVE  /\ \A q \in Pids \ {p} : NetworkOK(q)'
         /\ proc'[p].pc = new.pc /\ proc'[p].said = new.said /\ proc'[p].netid = new.netid
         /\ proc'[p].asked = new.asked /\ proc'[p].before = new.before
         /\ nets' = o.cmd.nets /\ selected' = o.cmd.selected /\ saved' = o.cmd.saved
         /\ proc'[p].clean => new.clean /\ o.ret = 0 /\ o.cmd \in cmds /\ o.reply = o.cmd.reply
<1>1. DOMAIN proc = Pids /\ Base \cup Asks \subseteq DOMAIN proc[p]
  BY RunningFields DEF ConnInv, FilesOK
<1>2. /\ nets' = o.cmd.nets /\ selected' = o.cmd.selected /\ saved' = o.cmd.saved
      /\ proc' = Disturbs(p, [new EXCEPT !.clean = @ /\ o.ret = 0 /\ o.inbox = <<>>])
  BY DEF GoOn
<1>3. /\ proc'[p] = [new EXCEPT !.clean = @ /\ o.ret = 0 /\ o.inbox = <<>>]
      /\ \A q \in Pids \ {p} : \/ proc'[q] = proc[q] /\ (Running(q) => supplicant' = supplicant)
                               \/ proc'[q] = [proc[q] EXCEPT !.clean = FALSE]
  BY <1>2 DEF Disturbs
<1>4. \A q \in Pids \ {p} : NetworkOK(q)'
  BY <1>3, OthersNetworks
<1>5. /\ proc'[p].pc = new.pc /\ proc'[p].said = new.said /\ proc'[p].netid = new.netid
      /\ proc'[p].asked = new.asked /\ proc'[p].before = new.before
  BY <1>1, <1>3 DEF Base, Asks
<1>6. proc'[p].clean = (new.clean /\ o.ret = 0 /\ o.inbox = <<>>)
  BY <1>1, <1>3 DEF Asks
<1>7. proc'[p].clean => new.clean /\ o.ret = 0 /\ o.inbox = <<>>
  BY <1>6
<1>8. o.ret = 0 /\ o.inbox = <<>> => o.cmd \in cmds /\ o.reply = o.cmd.reply
  BY CmdReturns
<1> QED
  BY <1>2, <1>4, <1>5, <1>7, <1>8

\* A request whose result is not looked at: p has gone to its next place, and the
\* networks are what a command has made of them if p is clean.
LEMMA StepNetworks ==
  ASSUME ConnInv, NetInv, NEW p \in Pids, NEW pc, NEW next, NEW cmds,
         pc \notin Monitoring \cup {"off"}, next \notin Monitoring \cup {"off"},
         Step(p, pc, cmds, next)
  PROVE  /\ \A q \in Pids \ {p} : NetworkOK(q)'
         /\ Running(p) /\ NetworkOK(p) /\ proc[p].pc = pc
         /\ proc'[p].pc = next /\ proc'[p].said = proc[p].said /\ proc'[p].netid = proc[p].netid
         /\ proc'[p].asked = proc[p].asked /\ proc'[p].before = proc[p].before
         /\ proc'[p].clean =>
               /\ proc[p].clean
               /\ \E cmd \in cmds : nets' = cmd.nets /\ selected' = cmd.selected /\ saved' = cmd.saved
<1>1. PICK o \in _wpa_ctrl_cmd(p, cmds) : GoOn(p, o, [proc[p] EXCEPT !.pc = next])
  BY DEF Step
<1>2. Running(p) /\ NetworkOK(p) /\ proc[p].pc = pc
  BY DEF Step, Running, Monitoring, NetInv
<1>3. Base \cup Asks \subseteq DOMAIN proc[p]
  BY <1>2, RunningFields
<1> DEFINE new == [proc[p] EXCEPT !.pc = next]
<1>4. /\ DOMAIN new = DOMAIN proc[p] /\ new.pc = next /\ new.said = proc[p].said
      /\ new.netid = proc[p].netid /\ new.asked = proc[p].asked /\ new.before = proc[p].before
      /\ new.clean = proc[p].clean /\ GoOn(p, o, new)
  BY <1>1, <1>3 DEF Base, Asks
<1> HIDE DEF new
<1> QED
  BY <1>2, <1>4, GoOnNetworks

LEMMA OnKnownNetwork ==
  ASSUME NEW id \in DOMAIN nets, NEW done, NEW cmd \in OnNetwork(id, done)
  PROVE  cmd = done
  BY DEF OnNetwork

LEMMA AddNetworks ==
  ASSUME ConnInv, NetInv, NEW p \in Pids, add_network(p)
  PROVE  NetInv'
<1>1. /\ proc[p].pc = "add" /\ Running(p) /\ NetworkOK(p) /\ Base \cup Asks \subseteq DOMAIN proc[p]
      /\ proc[p].said # "connected"
  BY RunningFields DEF add_network, Running, NetInv, NetworkOK
<1>2. PICK o \in _wpa_ctrl_cmd(p, ADD_NETWORK) : \E id \in NetIds(o.ret, o.reply) :
        GoOn(p, o, IF id > NETWORK_ID_MAX
                   THEN [proc[p] EXCEPT !.pc = "remove", !.netid = NETWORK_ID_MAX]
                   ELSE [proc[p] EXCEPT !.pc = "ssid", !.netid = id])
  BY DEF add_network
<1>3. PICK id \in NetIds(o.ret, o.reply) :
        GoOn(p, o, IF id > NETWORK_ID_MAX
                   THEN [proc[p] EXCEPT !.pc = "remove", !.netid = NETWORK_ID_MAX]
                   ELSE [proc[p] EXCEPT !.pc = "ssid", !.netid = id])
  BY <1>2
<1> DEFINE new == IF id > NETWORK_ID_MAX
                  THEN [proc[p] EXCEPT !.pc = "remove", !.netid = NETWORK_ID_MAX]
                  ELSE [proc[p] EXCEPT !.pc = "ssid", !.netid = id]
<1>4. /\ DOMAIN new = DOMAIN proc[p] /\ new.said = proc[p].said /\ new.asked = proc[p].asked
      /\ new.before = proc[p].before /\ new.clean = proc[p].clean
      /\ id > NETWORK_ID_MAX => new.pc = "remove" /\ new.netid = NETWORK_ID_MAX
      /\ ~(id > NETWORK_ID_MAX) => new.pc = "ssid" /\ new.netid = id
      /\ GoOn(p, o, new)
  BY <1>1, <1>3 DEF Base, Asks
<1> HIDE DEF new
<1>5. /\ \A q \in Pids \ {p} : NetworkOK(q)'
      /\ proc'[p].pc = new.pc /\ proc'[p].said = new.said /\ proc'[p].netid = new.netid
      /\ proc'[p].asked = new.asked /\ proc'[p].before = new.before
      /\ nets' = o.cmd.nets
      /\ proc'[p].clean => new.clean /\ o.ret = 0 /\ o.cmd \in ADD_NETWORK /\ o.reply = o.cmd.reply
  BY <1>1, <1>4, GoOnNetworks
<1>6. proc'[p].pc \in {"remove", "ssid"} /\ proc'[p].said # "connected"
  BY <1>1, <1>4, <1>5
<1> DEFINE b == proc[p].before
<1>7. ASSUME proc'[p].clean, Numbered(b)
      PROVE  Configured(p)'
  <2>1. proc[p].clean /\ Configured(p) /\ nets = b /\ o.ret = 0 /\ o.cmd \in ADD_NETWORK
        /\ o.reply = o.cmd.reply
        /\ proc[p].asked = [ssid |-> proc[p].asked.ssid, psk |-> "good"]
    BY <1>1, <1>4, <1>5, <1>7 DEF NetworkOK, Configured
  <2>2. PICK k \in 0 .. (NETWORK_ID_MAX + 1) : DOMAIN b = 0 .. (k - 1) /\ Cardinality(DOMAIN b) = k
    BY <1>7, NumberedFacts
  <2> HIDE DEF b
  <2>3. (IF DOMAIN nets = {} THEN 0 ELSE Max(DOMAIN nets) + 1) = k
    <3>1. k \in Nat
      BY <2>2, MaxIsNat
    <3>2. CASE k = 0
      BY <2>1, <2>2, <3>2
    <3>3. CASE k # 0
      <4>1. k - 1 \in 0 .. (k - 1) /\ \A x \in 0 .. (k - 1) : k - 1 >= x
        BY <3>1, <3>3
      <4>2. \A x \in 0 .. (k - 1) : (\A y \in 0 .. (k - 1) : x >= y) => x = k - 1
        BY <3>1, <4>1
      <4>3. Max(0 .. (k - 1)) = k - 1
        BY <4>1, <4>2 DEF Max
      <4>4. DOMAIN nets = 0 .. (k - 1)
        BY <2>1, <2>2
      <4>5. DOMAIN nets # {}
        BY <4>1, <4>4
      <4>6. (k - 1) + 1 = k
        BY <3>1
      <4> QED
        BY <4>3, <4>4, <4>5, <4>6
    <3> QED
      BY <3>2, <3>3
  <2>4. o.cmd = Done(With(b, k, Blank), selected, saved, <<"id", k>>)
    BY <2>1, <2>3 DEF ADD_NETWORK
  <2>5. o.reply = <<"id", k>> /\ nets' = With(b, k, Blank)
    BY <1>5, <2>1, <2>4 DEF Done
  <2>6. id = k
    BY <2>1, <2>5 DEF NetIds
  <2>7. CASE k > NETWORK_ID_MAX
    <3>1. k = NETWORK_ID_MAX + 1 /\ k - 1 = NETWORK_ID_MAX
      BY <2>2, <2>7, MaxIsNat
    <3>2. proc'[p].pc = "remove" /\ proc'[p].netid = NETWORK_ID_MAX /\ proc'[p].before = b
      BY <1>4, <1>5, <2>6, <2>7 DEF b
    <3> QED
      BY <1>4, <1>5, <1>6, <2>1, <2>2, <2>5, <3>1, <3>2 DEF Configured, Added, Making, Setting
  <2>8. CASE ~(k > NETWORK_ID_MAX)
    <3>1. k <= NETWORK_ID_MAX
      BY <2>2, <2>8, MaxIsNat
    <3>2. proc'[p].pc = "ssid" /\ proc'[p].netid = k /\ proc'[p].before = b
      BY <1>4, <1>5, <2>6, <2>8 DEF b
    <3>3. Last(b) = k /\ WithNew(b, Blank) = With(b, k, Blank)
      BY <2>2, <3>1 DEF Last, WithNew
    <3> QED
      BY <1>4, <1>5, <1>6, <2>1, <2>5, <3>2, <3>3 DEF Configured, Making, Setting
  <2> QED
    BY <2>7, <2>8
<1>8. NetworkOK(p)'
  BY <1>4, <1>5, <1>6, <1>7 DEF NetworkOK, Making, Setting
<1> QED
  BY <1>5, <1>8 DEF NetInv

LEMMA RemoveNetworks ==
  ASSUME ConnInv, NetInv, NEW p \in Pids, remove_network(p)
  PROVE  NetInv'
<1>1. /\ \A q \in Pids \ {p} : NetworkOK(q)'
      /\ Running(p) /\ NetworkOK(p) /\ proc[p].pc = "remove"
      /\ proc'[p].pc = "save" /\ proc'[p].said = proc[p].said /\ proc'[p].netid = proc[p].netid
      /\ proc'[p].asked = proc[p].asked /\ proc'[p].before = proc[p].before
      /\ proc'[p].clean =>
            proc[p].clean /\ \E cmd \in REMOVE_NETWORK(0) : nets' = cmd.nets
  BY StepNetworks DEF remove_network, Monitoring
<1>2. ASSUME proc'[p].clean, Numbered(proc[p].before)
      PROVE  Configured(p)'
  <2>1. /\ proc[p].clean /\ Configured(p) /\ nets = Added(proc[p].before)
        /\ DOMAIN proc[p].before = 0 .. NETWORK_ID_MAX /\ proc[p].said # "connected"
    BY <1>1, <1>2 DEF NetworkOK, Configured, Making
  <2>2. 0 \in DOMAIN nets
    BY <2>1, MaxIsNat DEF Added, With
  <2>3. nets' = Without(Added(proc[p].before), 0)
    BY <1>1, <1>2, <2>1, <2>2, OnKnownNetwork DEF REMOVE_NETWORK, Done
  <2> QED
    BY <1>1, <2>1, <2>3 DEF Configured, Making, Setting
<1>3. NetworkOK(p)'
  BY <1>1, <1>2 DEF NetworkOK, Making, Setting
<1> QED
  BY <1>1, <1>3 DEF NetInv

LEMMA SaveNetworks ==
  ASSUME ConnInv, NetInv, NEW p \in Pids, save_config(p)
  PROVE  NetInv'
<1>1. /\ proc[p].pc = "save" /\ Running(p) /\ NetworkOK(p) /\ Base \cup Asks \subseteq DOMAIN proc[p]
      /\ proc[p].said # "connected"
  BY RunningFields DEF save_config, Running, NetInv, NetworkOK
<1>2. PICK o \in _wpa_ctrl_cmd(p, SAVE_CONFIG) :
        GoOn(p, o, [proc[p] EXCEPT
            !.pc = "reconfigure",
            !.clean = @ /\ o.reply = Ok /\ Len(o.cmd.saved) = Cardinality(DOMAIN nets)])
  BY DEF save_config
<1> DEFINE new == [proc[p] EXCEPT
            !.pc = "reconfigure",
            !.clean = @ /\ o.reply = Ok /\ Len(o.cmd.saved) = Cardinality(DOMAIN nets)]
<1>3. /\ DOMAIN new = DOMAIN proc[p] /\ new.said = proc[p].said /\ new.asked = proc[p].asked
      /\ new.before = proc[p].before /\ new.netid = proc[p].netid /\ new.pc = "reconfigure"
      /\ new.clean =>
            proc[p].clean /\ o.reply = Ok /\ Len(o.cmd.saved) = Cardinality(DOMAIN nets)
      /\ GoOn(p, o, new)
  BY <1>1, <1>2 DEF Base, Asks
<1> HIDE DEF new
<1>4. /\ \A q \in Pids \ {p} : NetworkOK(q)'
      /\ proc'[p].pc = new.pc /\ proc'[p].said = new.said /\ proc'[p].netid = new.netid
      /\ proc'[p].asked = new.asked /\ proc'[p].before = new.before
      /\ saved' = o.cmd.saved
      /\ proc'[p].clean => new.clean /\ o.ret = 0 /\ o.cmd \in SAVE_CONFIG /\ o.reply = o.cmd.reply
  BY <1>1, <1>3, GoOnNetworks
<1> DEFINE b == proc[p].before
<1>5. ASSUME proc'[p].clean, Numbered(b)
      PROVE  Configured(p)'
  <2>1. /\ proc[p].clean /\ Configured(p) /\ nets = Without(Added(b), 0)
        /\ DOMAIN b = 0 .. NETWORK_ID_MAX /\ proc[p].netid = NETWORK_ID_MAX
        /\ o.cmd \in SAVE_CONFIG /\ o.cmd.reply = Ok
        /\ Len(o.cmd.saved) = Cardinality(DOMAIN nets)
        /\ proc[p].asked = [ssid |-> proc[p].asked.ssid, psk |-> "good"]
    BY <1>1, <1>3, <1>4, <1>5 DEF NetworkOK, Configured, Making
  <2> HIDE DEF b
  <2>2. DOMAIN nets = 1 .. (NETWORK_ID_MAX + 1)
        /\ \A i \in DOMAIN nets : nets[i] = Added(b)[i]
    <3>1. DOMAIN Added(b) = {NETWORK_ID_MAX + 1} \cup (0 .. NETWORK_ID_MAX)
      BY <2>1 DEF Added, With
    <3>2. ({NETWORK_ID_MAX + 1} \cup (0 .. NETWORK_ID_MAX)) \ {0} = 1 .. (NETWORK_ID_MAX + 1)
      BY MaxIsNat
    <3> QED
      BY <2>1, <3>1, <3>2 DEF Without
  <2>3. Ok # Fail
    BY DEF Ok, Fail
  <2>4. \E ids \in SUBSET (DOMAIN nets) :
            o.cmd.saved = [i \in 1 .. Cardinality(ids) |-> nets[Nth(ids, i)]]
    <3> DEFINE kept(ids) == [i \in 1 .. Cardinality(ids) |-> nets[Nth(ids, i)]]
    <3> DEFINE known == {i \in DOMAIN nets : nets[i] # Blank}
    <3>1. \/ o.cmd = Done(nets, selected, kept(DOMAIN nets), Ok)
          \/ o.cmd = Done(nets, selected, kept(known), Ok)
          \/ o.cmd = Done(nets, selected, saved, Fail)
      BY <2>1 DEF SAVE_CONFIG
    <3>2. known \in SUBSET (DOMAIN nets)
      OBVIOUS
    <3> HIDE DEF kept, known
    <3>3. \/ o.cmd.saved = kept(DOMAIN nets) \/ o.cmd.saved = kept(known)
      BY <2>1, <2>3, <3>1 DEF Done
    <3>4. \E ids \in SUBSET (DOMAIN nets) : o.cmd.saved = kept(ids)
      BY <3>2, <3>3
    <3> QED
      BY <3>4 DEF kept
  <2>5. saved' = [i \in 1 .. (NETWORK_ID_MAX + 1) |-> nets[i]]
    <3>1. PICK ids \in SUBSET (DOMAIN nets) :
              o.cmd.saved = [i \in 1 .. Cardinality(ids) |-> nets[Nth(ids, i)]]
      BY <2>4
    <3>2. NETWORK_ID_MAX + 1 \in Nat
      BY MaxIsNat
    <3> DEFINE n == NETWORK_ID_MAX + 1
    <3> DEFINE file == o.cmd.saved
    <3> HIDE DEF n, file
    <3>4. /\ n \in Nat /\ DOMAIN nets = 1 .. n /\ Len(file) = Cardinality(DOMAIN nets)
          /\ file = [i \in 1 .. Cardinality(ids) |-> nets[Nth(ids, i)]]
      BY <2>1, <2>2, <3>1, <3>2 DEF n, file
    <3>3. o.cmd.saved = [i \in 1 .. (NETWORK_ID_MAX + 1) |-> nets[i]]
      BY <3>4, KeptAll DEF n, file
    <3> QED
      BY <1>4, <3>3
  <2>6. saved' = [i \in 1 .. (NETWORK_ID_MAX + 1) |-> Added(b)[i]]
    BY <2>2, <2>5
  <2>7. proc'[p].before = b /\ proc'[p].pc = "reconfigure" /\ proc'[p].netid = NETWORK_ID_MAX
        /\ proc'[p].said # "connected" /\ proc'[p].asked = proc[p].asked
    BY <1>1, <1>3, <1>4, <2>1 DEF b
  <2> QED
    BY <2>1, <2>6, <2>7 DEF Configured, Making, Setting
<1>6. NetworkOK(p)'
  BY <1>1, <1>3, <1>4, <1>5 DEF NetworkOK, Making, Setting
<1> QED
  BY <1>4, <1>6 DEF NetInv

LEMMA ReconfigureNetworks ==
  ASSUME ConnInv, NetInv, NEW p \in Pids, reconfigure(p)
  PROVE  NetInv'
<1>1. /\ \A q \in Pids \ {p} : NetworkOK(q)'
      /\ Running(p) /\ NetworkOK(p) /\ proc[p].pc = "reconfigure"
      /\ proc'[p].pc = "ssid" /\ proc'[p].said = proc[p].said /\ proc'[p].netid = proc[p].netid
      /\ proc'[p].asked = proc[p].asked /\ proc'[p].before = proc[p].before
      /\ proc'[p].clean =>
            proc[p].clean /\ \E cmd \in RECONFIGURE : nets' = cmd.nets
  BY StepNetworks DEF reconfigure, Monitoring
<1> DEFINE b == proc[p].before
<1>2. ASSUME proc'[p].clean, Numbered(b)
      PROVE  Configured(p)'
  <2>1. /\ proc[p].clean /\ Configured(p) /\ DOMAIN b = 0 .. NETWORK_ID_MAX
        /\ saved = [i \in 1 .. (NETWORK_ID_MAX + 1) |-> Added(b)[i]]
        /\ proc[p].netid = NETWORK_ID_MAX /\ proc[p].said # "connected"
        /\ proc[p].asked = [ssid |-> proc[p].asked.ssid, psk |-> "good"]
    BY <1>1, <1>2 DEF NetworkOK, Configured, Making
  <2> HIDE DEF b
  <2>2. nets' = [i \in 0 .. (Len(saved) - 1) |-> saved[i + 1]]
    BY <1>1, <1>2 DEF RECONFIGURE, Done
  <2>3. NETWORK_ID_MAX \in Nat /\ (NETWORK_ID_MAX + 1) - 1 = NETWORK_ID_MAX
        /\ ~(NETWORK_ID_MAX + 1 <= NETWORK_ID_MAX) /\ NETWORK_ID_MAX + 1 \in Nat
    BY MaxIsNat
  <2>4. Len(saved) = NETWORK_ID_MAX + 1
    BY <2>1, <2>3
  <2>5. \A i \in 0 .. NETWORK_ID_MAX :
            saved[i + 1] = IF i = NETWORK_ID_MAX THEN Blank ELSE b[i + 1]
    <3>1. ASSUME NEW i \in 0 .. NETWORK_ID_MAX
          PROVE  /\ i + 1 \in 1 .. (NETWORK_ID_MAX + 1)
                 /\ i = NETWORK_ID_MAX <=> i + 1 = NETWORK_ID_MAX + 1
                 /\ i # NETWORK_ID_MAX => i + 1 \in 0 .. NETWORK_ID_MAX
      BY <2>3
    <3> QED
      BY <2>1, <3>1 DEF Added, With
  <2>6. nets' = [i \in 0 .. NETWORK_ID_MAX |-> IF i = NETWORK_ID_MAX THEN Blank ELSE b[i + 1]]
    BY <2>2, <2>3, <2>4, <2>5
  <2>7. Cardinality(DOMAIN b) = NETWORK_ID_MAX + 1
    <3>1. Cardinality(0 .. NETWORK_ID_MAX) =
              IF 0 > NETWORK_ID_MAX THEN 0 ELSE NETWORK_ID_MAX - 0 + 1
      BY <2>3, FS_Interval, 0 \in Int, NETWORK_ID_MAX \in Int
    <3> QED
      BY <2>1, <2>3, <3>1
  <2>8. nets' = WithNew(b, Blank) /\ Last(b) = NETWORK_ID_MAX
    BY <2>3, <2>6, <2>7 DEF WithNew, Last
  <2>9. proc'[p].before = b
    BY <1>1 DEF b
  <2> QED
    BY <1>1, <2>1, <2>8, <2>9 DEF Configured, Making, Setting
<1>3. NetworkOK(p)'
  BY <1>1, <1>2 DEF NetworkOK, Making, Setting
<1> QED
  BY <1>1, <1>3 DEF NetInv

Network(name, key)  == [ssid |-> name, psk |-> key]
WithField(n, field, v) == [n EXCEPT ![field] = v]

LEMMA FieldSet ==
  ASSUME NEW a, NEW b, NEW v
  PROVE  /\ WithField(Network(a, b), "ssid", v) = Network(v, b)
         /\ WithField(Network(a, b), "psk", v) = Network(a, v)
         /\ Network(a, b).psk = b
<1> DEFINE r == Network(a, b)
<1> DEFINE name == [r EXCEPT !["ssid"] = v]
<1> DEFINE key == [r EXCEPT !["psk"] = v]
<1>1. r \in [ssid : {a}, psk : {b}]
  BY DEF Network
<1> HIDE DEF r
<1>2. name \in [ssid : {v}, psk : {b}] /\ key \in [ssid : {a}, psk : {v}] /\ r.psk = b
  BY <1>1
<1> HIDE DEF name, key
<1>3. name = Network(v, b) /\ key = Network(a, v)
  BY <1>2 DEF Network
<1> QED
  BY <1>2, <1>3 DEF name, key, r, WithField

LEMMA NewIsSet ==
  ASSUME NEW a, NEW v
  PROVE  /\ WithField(Network("", ""), "ssid", v) = Network(v, "")
         /\ WithField(Network(a, ""), "psk", v) = Network(a, v)
<1> DEFINE none == ""
<1> HIDE DEF none
<1>1. /\ WithField(Network(none, none), "ssid", v) = Network(v, none)
      /\ WithField(Network(a, none), "psk", v) = Network(a, v)
  BY FieldSet
<1> QED
  BY <1>1 DEF none

LEMMA LastIsSet ==
  ASSUME NEW b, Numbered(b), NEW n, NEW m, NEW id, id = Last(b), nets = WithNew(b, n), NEW field,
         NEW v, WithField(n, field, v) = m, NEW cmd \in SET_NETWORK(id, field, v)
  PROVE  cmd.nets = WithNew(b, m)
<1>1. id \in DOMAIN nets /\ nets[id] = n /\ [WithNew(b, n) EXCEPT ![id] = m] = WithNew(b, m)
  BY NewIsLast
<1>2. cmd.nets = [nets EXCEPT ![id][field] = v]
  <2> DEFINE set == [nets EXCEPT ![id][field] = v]
  <2> DEFINE done == Done(set, selected, saved, Ok)
  <2>1. cmd \in OnNetwork(id, done)
    BY DEF SET_NETWORK
  <2>2. done.nets = set
    BY DEF Done
  <2> HIDE DEF done, set
  <2>3. cmd.nets = set
    BY <1>1, <2>1, <2>2, OnKnownNetwork
  <2> QED
    BY <2>3 DEF set
<1>3. [nets EXCEPT ![id][field] = v] = [nets EXCEPT ![id] = m]
  BY <1>1 DEF WithField
<1> QED
  BY <1>1, <1>2, <1>3

\* One field of the new network, and the next one.
LEMMA SetNetworks ==
  ASSUME ConnInv, NetInv, NEW p \in Pids, set_network(p)
  PROVE  NetInv'
<1> DEFINE b == proc[p].before
<1> DEFINE id == proc[p].netid
<1> DEFINE asked == proc[p].asked
<1>1. CASE Step(p, "ssid", SET_NETWORK(id, "ssid", asked.ssid), "psk")
  <2>1. /\ \A q \in Pids \ {p} : NetworkOK(q)'
        /\ Running(p) /\ NetworkOK(p) /\ proc[p].pc = "ssid"
        /\ proc'[p].pc = "psk" /\ proc'[p].said = proc[p].said /\ proc'[p].netid = proc[p].netid
        /\ proc'[p].asked = proc[p].asked /\ proc'[p].before = proc[p].before
        /\ proc'[p].clean =>
              /\ proc[p].clean
              /\ \E cmd \in SET_NETWORK(id, "ssid", asked.ssid) : nets' = cmd.nets
    <3>1. "ssid" \notin Monitoring \cup {"off"} /\ "psk" \notin Monitoring \cup {"off"}
      BY DEF Monitoring
    <3> QED
      BY <1>1, <3>1, StepNetworks
  <2>2. ASSUME proc'[p].clean, Numbered(b)
        PROVE  Configured(p)'
    <3>1. /\ proc[p].clean /\ Configured(p) /\ nets = WithNew(b, Blank) /\ id = Last(b)
          /\ proc[p].said # "connected" /\ asked = [ssid |-> asked.ssid, psk |-> "good"]
      BY <2>1, <2>2 DEF NetworkOK, Configured, Setting
    <3> HIDE DEF b, id, asked
    <3> DEFINE name == asked.ssid
    <3>2. Blank = Network("", "")
      BY DEF Blank, Network
    <3>3. PICK cmd \in SET_NETWORK(id, "ssid", name) : nets' = cmd.nets
      BY <2>1, <2>2 DEF id, asked
    <3> HIDE DEF name
    <3>4. WithField(Blank, "ssid", name) = Network(name, "")
      BY <3>2, NewIsSet
    <3>5. nets' = WithNew(b, Network(name, ""))
      <4> DEFINE field == "ssid"
      <4> DEFINE named == Network(name, "")
      <4>1. cmd \in SET_NETWORK(id, field, name) /\ WithField(Blank, field, name) = named
        BY <3>4
      <4> HIDE DEF field, named
      <4>2. nets' = WithNew(b, named)
        BY <2>2, <3>1, <3>3, <4>1, LastIsSet
      <4> QED
        BY <4>2 DEF named
    <3>6. nets' = WithNew(b, [ssid |-> asked.ssid, psk |-> ""])
      BY <3>5 DEF Network, name
    <3> QED
      BY <2>1, <3>1, <3>6 DEF Configured, Making, Setting, b, id, asked
  <2>3. NetworkOK(p)'
    BY <2>1, <2>2 DEF NetworkOK, Making, Setting
  <2> QED
    BY <2>1, <2>3 DEF NetInv
<1>2. CASE Step(p, "psk", SET_NETWORK(id, "psk", asked.psk), "select")
  <2>1. /\ \A q \in Pids \ {p} : NetworkOK(q)'
        /\ Running(p) /\ NetworkOK(p) /\ proc[p].pc = "psk"
        /\ proc'[p].pc = "select" /\ proc'[p].said = proc[p].said
        /\ proc'[p].netid = proc[p].netid
        /\ proc'[p].asked = proc[p].asked /\ proc'[p].before = proc[p].before
        /\ proc'[p].clean =>
              /\ proc[p].clean
              /\ \E cmd \in SET_NETWORK(id, "psk", asked.psk) : nets' = cmd.nets
    <3>1. "psk" \notin Monitoring \cup {"off"} /\ "select" \notin Monitoring \cup {"off"}
      BY DEF Monitoring
    <3> QED
      BY <1>2, <3>1, StepNetworks
  <2>2. ASSUME proc'[p].clean, Numbered(b)
        PROVE  Configured(p)'
    <3>1. /\ proc[p].clean /\ Configured(p) /\ id = Last(b)
          /\ nets = WithNew(b, [ssid |-> asked.ssid, psk |-> ""])
          /\ proc[p].said # "connected" /\ asked = [ssid |-> asked.ssid, psk |-> "good"]
      BY <2>1, <2>2 DEF NetworkOK, Configured, Setting
    <3> HIDE DEF b, id, asked
    <3> DEFINE name == asked.ssid
    <3> DEFINE key == asked.psk
    <3>2. asked = Network(name, "good") /\ nets = WithNew(b, Network(name, ""))
      BY <3>1 DEF Network
    <3>3. PICK cmd \in SET_NETWORK(id, "psk", key) : nets' = cmd.nets
      BY <2>1, <2>2 DEF id, asked
    <3>4. Network(name, "good").psk = "good"
      BY FieldSet
    <3>5. key = "good"
      BY <3>2, <3>4
    <3> HIDE DEF name, key
    <3>6. WithField(Network(name, ""), "psk", key) = asked
      BY <3>2, <3>5, NewIsSet
    <3>7. nets' = WithNew(b, asked)
      <4> DEFINE field == "psk"
      <4> DEFINE named == Network(name, "")
      <4>1. /\ cmd \in SET_NETWORK(id, field, key) /\ WithField(named, field, key) = asked
            /\ nets = WithNew(b, named) /\ nets' = cmd.nets /\ id = Last(b) /\ Numbered(b)
        BY <2>2, <3>1, <3>2, <3>3, <3>6
      <4> HIDE DEF field, named
      <4> QED
        BY <4>1, LastIsSet
    <3> QED
      BY <2>1, <3>1, <3>7 DEF Configured, Making, Setting, b, id, asked
  <2>3. NetworkOK(p)'
    BY <2>1, <2>2 DEF NetworkOK, Making, Setting
  <2> QED
    BY <2>1, <2>3 DEF NetInv
<1> QED
  BY <1>1, <1>2 DEF set_network

LEMMA SelectNetworks ==
  ASSUME ConnInv, NetInv, NEW p \in Pids, select_network(p)
  PROVE  NetInv'
<1> DEFINE b == proc[p].before
<1> DEFINE id == proc[p].netid
<1>1. /\ \A q \in Pids \ {p} : NetworkOK(q)'
      /\ Running(p) /\ NetworkOK(p) /\ proc[p].pc = "select"
      /\ proc'[p].pc = "status" /\ proc'[p].said = proc[p].said /\ proc'[p].netid = proc[p].netid
      /\ proc'[p].asked = proc[p].asked /\ proc'[p].before = proc[p].before
      /\ proc'[p].clean =>
            /\ proc[p].clean
            /\ \E cmd \in SELECT_NETWORK(id) : nets' = cmd.nets /\ selected' = cmd.selected
  BY StepNetworks DEF select_network, Monitoring
<1>2. ASSUME proc'[p].clean, Numbered(b)
      PROVE  Configured(p)'
  <2>1. /\ proc[p].clean /\ Configured(p) /\ id = Last(b) /\ proc[p].said # "connected"
        /\ nets = WithNew(b, proc[p].asked)
        /\ proc[p].asked = [ssid |-> proc[p].asked.ssid, psk |-> "good"]
    BY <1>1, <1>2 DEF NetworkOK, Configured, Setting
  <2> HIDE DEF b, id
  <2>2. id \in DOMAIN nets
    BY <1>2, <2>1, NewIsLast
  <2>3. nets' = nets /\ selected' = id
    BY <1>1, <1>2, <2>2, OnKnownNetwork DEF SELECT_NETWORK, Done
  <2> QED
    BY <1>1, <2>1, <2>3 DEF Configured, Making, Setting, b, id
<1>3. NetworkOK(p)'
  BY <1>1, <1>2 DEF NetworkOK, Making, Setting
<1> QED
  BY <1>1, <1>3 DEF NetInv

\* "connected" is said of the selected network, and that is the new one.
LEMMA StatusNetworks ==
  ASSUME ConnInv, NetInv, NEW p \in Pids, status(p)
  PROVE  NetInv'
<1> DEFINE said(o) == IF o.ret < 0 THEN ""
                      ELSE IF o.reply = <<"status", proc[p].asked.ssid>> THEN "connected"
                      ELSE "check"
<1> DEFINE after(o) == [proc[p] EXCEPT !.pc = "loop", !.said = said(o)]
<1>1. /\ proc[p].pc = "status" /\ Running(p) /\ NetworkOK(p)
      /\ Base \cup Asks \subseteq DOMAIN proc[p]
  BY RunningFields DEF status, Running, NetInv
<1>2. PICK o \in _wpa_ctrl_cmd(p, STATUS) : GoOn(p, o, after(o))
  BY DEF status
<1> DEFINE new == after(o)
<1>3. /\ DOMAIN new = DOMAIN proc[p] /\ new.pc = "loop" /\ new.asked = proc[p].asked
      /\ new.before = proc[p].before /\ new.clean = proc[p].clean
      /\ GoOn(p, o, new)
  <2> HIDE DEF said
  <2> QED
    BY <1>1, <1>2 DEF Base, Asks
<1> HIDE DEF new, after, said
<1>4. /\ \A q \in Pids \ {p} : NetworkOK(q)'
      /\ proc'[p].pc = "loop" /\ proc'[p].asked = proc[p].asked
      /\ proc'[p].before = proc[p].before
      /\ nets' = o.cmd.nets /\ selected' = o.cmd.selected
      /\ proc'[p].clean => proc[p].clean /\ o.cmd \in STATUS
  BY <1>1, <1>3, GoOnNetworks
<1> DEFINE b == proc[p].before
<1>5. ASSUME proc'[p].clean, Numbered(b)
      PROVE  Configured(p)'
  <2>1. /\ nets = WithNew(b, proc[p].asked) /\ selected = Last(b)
    BY <1>1, <1>4, <1>5 DEF NetworkOK, Configured, Setting
  <2>2. nets' = nets /\ selected' = selected
    <3> DEFINE names == {""} \cup {nets[i].ssid : i \in DOMAIN nets \cap {selected}}
    <3>1. PICK name \in names : o.cmd = Done(nets, selected, saved, <<"status", name>>)
      BY <1>4, <1>5 DEF STATUS
    <3> HIDE DEF names
    <3>2. o.cmd.nets = nets /\ o.cmd.selected = selected
      BY <3>1 DEF Done
    <3> QED
      BY <1>4, <3>2
  <2> HIDE DEF b
  <2>3. nets[selected] = proc[p].asked
    BY <1>5, <2>1, NewIsLast
  <2> QED
    BY <1>4, <2>2, <2>3 DEF Configured, Making, Setting
<1>6. NetworkOK(p)'
  BY <1>4, <1>5 DEF NetworkOK
<1> QED
  BY <1>4, <1>6 DEF NetInv

\* Requests of a process that is not in config_wifi(): it is not clean.
LEMMA OtherRequests ==
  ASSUME ConnInv, NetInv, NEW p \in Pids, disconnect(p) \/ ScanResults(p) \/ Scan(p)
  PROVE  NetInv'
<1>1. CASE disconnect(p) \/ ScanResults(p)
  <2> DEFINE pc == proc[p].pc
  <2>1. pc \in {"disconnect", "SCAN_RESULTS"} /\ Step(p, pc, Other, "loop")
    BY <1>1 DEF disconnect, ScanResults, Step
  <2>2. pc \notin Monitoring \cup {"off"} /\ "loop" \notin Monitoring \cup {"off"}
    BY <2>1 DEF Monitoring
  <2> HIDE DEF pc
  <2>3. /\ \A q \in Pids \ {p} : NetworkOK(q)'
        /\ Running(p) /\ NetworkOK(p) /\ proc[p].pc = pc
        /\ proc'[p].pc = "loop" /\ proc'[p].said = proc[p].said
        /\ proc'[p].clean => proc[p].clean
    BY <2>1, <2>2, StepNetworks
  <2>4. proc'[p].said # "connected" /\ ~proc'[p].clean
    BY <2>1, <2>3 DEF NetworkOK, Making, Setting
  <2> QED
    BY <2>3, <2>4 DEF NetInv, NetworkOK
<1>2. CASE Scan(p)
  <2>1. /\ proc[p].pc = "SCAN" /\ Running(p) /\ NetworkOK(p)
        /\ Base \cup Asks \subseteq DOMAIN proc[p]
    BY <1>2, RunningFields DEF Scan, Running, NetInv
  <2> DEFINE after(o) == [proc[p] EXCEPT !.pc = IF o.ret < 0 THEN "loop" ELSE "SCAN_RESULTS"]
  <2>2. PICK o \in _wpa_ctrl_cmd(p, Other) : GoOn(p, o, after(o))
    BY <1>2 DEF Scan
  <2> DEFINE new == after(o)
  <2>3. /\ DOMAIN new = DOMAIN proc[p] /\ new.said = proc[p].said /\ new.clean = proc[p].clean
        /\ GoOn(p, o, new)
    BY <2>1, <2>2 DEF Base, Asks
  <2> HIDE DEF new, after
  <2>4. /\ \A q \in Pids \ {p} : NetworkOK(q)'
        /\ proc'[p].said = proc[p].said
        /\ proc'[p].clean => proc[p].clean
    BY <2>1, <2>3, GoOnNetworks
  <2>5. proc'[p].said # "connected" /\ ~proc'[p].clean
    BY <2>1, <2>4 DEF NetworkOK, Making, Setting
  <2> QED
    BY <2>4, <2>5 DEF NetInv, NetworkOK
<1> QED
  BY <1>1, <1>2

\* The steps of a program that ask nothing of the supplicant.
LEMMA ProgramNetworks ==
  ASSUME ConnInv, NetInv, NEW p \in Pids,
         \/ Start(p) \/ End(p) \/ NoConnection(p)
         \/ \E pc \in {"config", "disconnect", "scan"} : NextOption(p, pc)
         \/ ScanOpen(p) \/ config_wifi(p)
  PROVE  NetInv'
<1>1. DOMAIN proc = Pids /\ NetworkOK(p)
  BY DEF ConnInv, FilesOK, NetInv
<1>2. CASE End(p) \/ NoConnection(p)
  <2>1. /\ proc' = [proc EXCEPT ![p] = Off] /\ UNCHANGED supplicant
    BY <1>2 DEF End, NoConnection
  <2>2. proc'[p].pc = "off"
    BY <1>1, <2>1 DEF Off
  <2>3. NetworkOK(p)'
    BY <2>2 DEF NetworkOK, Running
  <2> QED
    BY <1>1, <2>1, <2>3, NetworksUntouched
<1>3. CASE Start(p)
  <2>1. Open(p, Program, Program) /\ UNCHANGED supplicant
    BY <1>3 DEF Start
  <2>2. PICK o : proc' = [proc EXCEPT ![p] =
                   [Program EXCEPT !.counter = o.counter, !.conn = o.conn,
                       !.socks = IF o.conn # Null THEN @ \cup {o.conn} ELSE @]]
    BY <2>1 DEF Open
  <2> DEFINE socks == IF o.conn # Null THEN Program.socks \cup {o.conn} ELSE Program.socks
  <2>3. proc'[p] = [Program EXCEPT !.counter = o.counter, !.conn = o.conn, !.socks = socks]
    BY <1>1, <2>2
  <2> HIDE DEF socks
  <2>4. proc'[p].said = "" /\ proc'[p].clean = FALSE
    BY <2>3 DEF Program
  <2>5. NetworkOK(p)'
    BY <2>4 DEF NetworkOK
  <2>6. \A q \in Pids \ {p} : proc'[q] = proc[q]
    BY <1>1, <2>2
  <2> QED
    BY <2>1, <2>5, <2>6, NetworksUntouched
<1>4. CASE \E pc \in {"config", "disconnect", "scan"} : NextOption(p, pc)
  <2>1. PICK pc : proc' = [proc EXCEPT ![p] =
                    [Program EXCEPT !.pc = pc, !.counter = proc[p].counter,
                                    !.conn = proc[p].conn, !.socks = proc[p].socks]]
    BY <1>4 DEF NextOption
  <2>2. proc'[p].said = "" /\ proc'[p].clean = FALSE
    BY <1>1, <2>1 DEF Program
  <2>3. NetworkOK(p)'
    BY <2>2 DEF NetworkOK
  <2> QED
    BY <1>1, <1>4, <2>1, <2>3, NetworksUntouched DEF NextOption
<1>5. CASE ScanOpen(p)
  <2>1. /\ proc[p].pc = "scan" /\ UNCHANGED supplicant
        /\ Open(p, [proc[p] EXCEPT !.pc = "SCAN"], [proc[p] EXCEPT !.pc = "loop"])
    BY <1>5 DEF ScanOpen
  <2>2. Running(p) /\ Base \cup Asks \subseteq DOMAIN proc[p]
    BY <2>1, RunningFields DEF Running
  <2>3. PICK o, new : /\ new = [proc[p] EXCEPT !.pc = "SCAN"] \/ new = [proc[p] EXCEPT !.pc = "loop"]
                      /\ proc' = [proc EXCEPT ![p] =
                           [new EXCEPT !.counter = o.counter, !.conn = o.conn,
                               !.socks = IF o.conn # Null THEN @ \cup {o.conn} ELSE @]]
    BY <2>1 DEF Open
  <2>4. /\ "said" \in DOMAIN new /\ "clean" \in DOMAIN new
        /\ new.said = proc[p].said /\ new.clean = proc[p].clean
    BY <2>2, <2>3 DEF Base, Asks
  <2>5. proc'[p].said = proc[p].said /\ proc'[p].clean = proc[p].clean
    <3> DEFINE socks == IF o.conn # Null THEN new.socks \cup {o.conn} ELSE new.socks
    <3>1. proc'[p] = [new EXCEPT !.counter = o.counter, !.conn = o.conn, !.socks = socks]
      BY <1>1, <2>3
    <3> HIDE DEF socks
    <3> QED
      BY <2>4, <3>1
  <2>6. proc'[p].said # "connected" /\ ~proc'[p].clean
    BY <1>1, <2>1, <2>2, <2>5 DEF NetworkOK, Making, Setting
  <2>7. NetworkOK(p)'
    BY <2>6 DEF NetworkOK
  <2>8. \A q \in Pids \ {p} : proc'[q] = proc[q]
    BY <1>1, <2>3
  <2> QED
    BY <2>1, <2>7, <2>8, NetworksUntouched
<1>6. CASE config_wifi(p)
  <2>1. /\ proc[p].pc = "config" /\ nets' = nets /\ UNCHANGED supplicant
        /\ Running(p) /\ Base \cup Asks \subseteq DOMAIN proc[p]
    BY <1>6, RunningFields DEF config_wifi, supplicant, Running
  <2>2. proc[p].said # "connected" /\ ~proc[p].clean
    BY <1>1, <2>1 DEF NetworkOK, Making, Setting
  <2>3. CASE proc' = [proc EXCEPT ![p].pc = "loop"]
    <3>1. proc'[p].said # "connected" /\ ~proc'[p].clean
      BY <1>1, <2>1, <2>2, <2>3 DEF Base, Asks
    <3>2. NetworkOK(p)'
      BY <3>1 DEF NetworkOK
    <3> QED
      BY <1>1, <2>1, <2>3, <3>2, NetworksUntouched
  <2>4. CASE \E s \in Ssids :
               proc' = [proc EXCEPT ![p].pc = "add", ![p].asked = [ssid |-> s, psk |-> "good"],
                                    ![p].before = nets, ![p].clean = TRUE]
    <3>1. PICK s \in Ssids :
               proc' = [proc EXCEPT ![p].pc = "add", ![p].asked = [ssid |-> s, psk |-> "good"],
                                    ![p].before = nets, ![p].clean = TRUE]
      BY <2>4
    <3> DEFINE asked == [ssid |-> s, psk |-> "good"]
    <3>2. asked = [ssid |-> asked.ssid, psk |-> "good"]
      OBVIOUS
    <3>3. proc'[p] = [proc[p] EXCEPT !.pc = "add", !.asked = asked, !.before = nets, !.clean = TRUE]
      BY <1>1, <3>1
    <3> HIDE DEF asked
    <3>4. /\ proc'[p].pc = "add" /\ proc'[p].asked = asked /\ proc'[p].before = nets
          /\ proc'[p].said = proc[p].said
      BY <2>1, <3>3 DEF Base, Asks
    <3>5. Configured(p)'
      BY <2>1, <2>2, <3>2, <3>4 DEF Configured, Making, Setting
    <3>6. NetworkOK(p)'
      BY <2>2, <3>4, <3>5 DEF NetworkOK
    <3>7. \A q \in Pids \ {p} : proc'[q] = proc[q]
      BY <1>1, <3>1
    <3> QED
      BY <2>1, <3>6, <3>7, NetworksUntouched
  <2> QED
    BY <1>6, <2>3, <2>4 DEF config_wifi
<1> QED
  BY <1>2, <1>3, <1>4, <1>5, <1>6

\* A process that monitors asks nothing of the networks.
LEMMA MonitorNetworks ==
  ASSUME ConnInv, NetInv, NEW p \in Pids, Monitor(p) \/ Kill(p), UNCHANGED supplicant
  PROVE  NetInv'
<1>1. DOMAIN proc = Pids /\ "pc" \in DOMAIN proc[p]
  BY DEF ConnInv, FilesOK, ProcessOK, Base
<1>2. \A q \in Pids \ {p} : proc'[q] = proc[q]
  BY <1>1 DEF Monitor, Kill, MonitorStart, MonitorOpen, MonitorClose, wpa_ctrl_attach,
              wpa_ctrl_recv, wpa_ctrl_detach, wpa_ctrl_close, Open
<1>3. proc'[p].pc \in Monitoring \cup {"off"}
  <2>1. CASE Kill(p)
    BY <1>1, <2>1 DEF Kill, Off
  <2>2. CASE MonitorStart(p)
    BY <1>1, <2>2 DEF MonitorStart, Monitoring
  <2>3. CASE MonitorOpen(p)
    <3> DEFINE closed == [proc[p] EXCEPT !.seen = <<>>, !.late = FALSE]
    <3>1. proc[p].pc = "m_open" /\ Open(p, [closed EXCEPT !.pc = "m_idle"], closed)
      BY <2>3 DEF MonitorOpen
    <3>2. /\ "pc" \in DOMAIN closed /\ closed.pc = "m_open"
      BY <1>1, <3>1
    <3> HIDE DEF closed
    <3>3. PICK o, new : /\ new = [closed EXCEPT !.pc = "m_idle"] \/ new = closed
                        /\ proc' = [proc EXCEPT ![p] =
                             [new EXCEPT !.counter = o.counter, !.conn = o.conn,
                                 !.socks = IF o.conn # Null THEN @ \cup {o.conn} ELSE @]]
      BY <3>1 DEF Open
    <3>4. "pc" \in DOMAIN new /\ new.pc \in {"m_open", "m_idle"}
      BY <3>2, <3>3
    <3> DEFINE socks == IF o.conn # Null THEN new.socks \cup {o.conn} ELSE new.socks
    <3>5. proc'[p] = [new EXCEPT !.counter = o.counter, !.conn = o.conn, !.socks = socks]
      BY <1>1, <3>3
    <3> HIDE DEF socks
    <3>6. proc'[p].pc = new.pc
      BY <3>4, <3>5
    <3> QED
      BY <3>4, <3>6 DEF Monitoring
  <2>4. CASE MonitorClose(p)
    BY <1>1, <2>4 DEF MonitorClose, wpa_ctrl_close, Monitoring
  <2>5. CASE wpa_ctrl_attach(p)
    <3>1. CASE ~up
      <4>1. proc' = [proc EXCEPT ![p].pc = "m_done"]
        BY <2>5, <3>1 DEF wpa_ctrl_attach
      <4> QED
        BY <1>1, <4>1 DEF Monitoring
    <3>2. CASE up
      <4>1. PICK o : proc' = [proc EXCEPT
                ![p].pc = IF Helper(p, o.ret, o.reply) = 0 THEN "m_on" ELSE "m_done",
                ![p].since = events, ![p].late = @ \/ o.ret < 0]
        BY <2>5, <3>2 DEF wpa_ctrl_attach
      <4>2. proc'[p].pc = (IF Helper(p, o.ret, o.reply) = 0 THEN "m_on" ELSE "m_done")
        BY <1>1, <4>1
      <4> QED
        BY <4>2 DEF Monitoring
    <3> QED
      BY <3>1, <3>2
  <2>6. CASE wpa_ctrl_recv(p)
    BY <1>1, <2>6 DEF wpa_ctrl_recv, Monitoring
  <2>7. CASE wpa_ctrl_detach(p)
    BY <1>1, <2>7 DEF wpa_ctrl_detach, Monitoring
  <2> QED
    BY <2>1, <2>2, <2>3, <2>4, <2>5, <2>6, <2>7 DEF Monitor
<1>4. NetworkOK(p)'
  BY <1>3 DEF NetworkOK, Running, Monitoring
<1> QED
  BY <1>2, <1>4, NetworksUntouched

LEMMA NetStart == Init => NetInv
<1> SUFFICES ASSUME Init, NEW p \in Pids PROVE NetworkOK(p)
  BY DEF NetInv
<1>1. proc[p].pc = "off"
  BY DEF Init, Off
<1> QED
  BY <1>1 DEF NetworkOK, Running

LEMMA NetStep == ConnInv /\ NetInv /\ [Next]_vars => NetInv'
<1> SUFFICES ASSUME ConnInv, NetInv, [Next]_vars PROVE NetInv'
  OBVIOUS
<1>1. CASE UNCHANGED vars \/ Stop \/ (SendEvent /\ UNCHANGED <<supplicant, options>>)
  <2>1. proc' = proc /\ UNCHANGED supplicant
    BY <1>1 DEF vars, Stop, SendEvent
  <2>2. \A q \in Pids : NetworkOK(q)'
    BY <2>1, OthersNetworks
  <2> QED
    BY <2>2 DEF NetInv
<1>2. ASSUME NEW p \in Pids, Controller(p) PROVE NetInv'
  BY <1>2, ProgramNetworks, OtherRequests, AddNetworks, RemoveNetworks, SaveNetworks,
     ReconfigureNetworks, SetNetworks, SelectNetworks, StatusNetworks DEF Controller
<1>3. ASSUME NEW p \in Pids, (Monitor(p) \/ Kill(p)) /\ UNCHANGED <<supplicant, options>>
      PROVE  NetInv'
  BY <1>3, MonitorNetworks
<1> QED
  BY <1>1, <1>2, <1>3 DEF Next

\* For every set of processes and of names, and any number of requests, events and
\* options: when all requests of config_wifi() were answered in time and nobody else
\* asked, the network it was asked for is the new and the selected one, all others
\* are kept but, of too many, the first, and "connected" is said of no other network
\* (wpa.cpp: config_wifi(), add_network(), check_status()).
THEOREM NetworkIsTheOneAsked == Spec => []NetworkIsAsked
<1>1. NetInv => NetworkIsAsked
  <2> SUFFICES ASSUME NetInv, NEW p \in Pids, Running(p), proc[p].clean, Numbered(proc[p].before)
               PROVE  /\ proc[p].pc = "status" =>
                          /\ nets = WithNew(proc[p].before, proc[p].asked)
                          /\ selected \in DOMAIN nets /\ nets[selected] = proc[p].asked
                      /\ proc[p].said = "connected" => nets[selected] = proc[p].asked
    BY DEF NetworkIsAsked
  <2>1. Configured(p)
    BY DEF NetInv, NetworkOK
  <2>2. ASSUME proc[p].pc = "status"
        PROVE  /\ nets = WithNew(proc[p].before, proc[p].asked)
               /\ selected \in DOMAIN nets /\ nets[selected] = proc[p].asked
    BY <2>1, <2>2, NewIsLast DEF Configured
  <2>3. proc[p].said = "connected" => nets[selected] = proc[p].asked
    BY <2>1 DEF Configured
  <2> QED
    BY <2>2, <2>3
<1> QED
  BY <1>1, ConnHolds, NetStart, NetStep, PTL DEF Spec
=============================================================================
