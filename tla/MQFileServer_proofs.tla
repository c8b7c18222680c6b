------------------------ MODULE MQFileServer_proofs -------------------------
(***************************************************************************)
(* Theorems about MQFileServer for every number of servers, clients and    *)
(* process slots, every set of files and every limit of the queues.        *)
(***************************************************************************)
EXTENDS MQFileServer, TLAPS

-----------------------------------------------------------------------------
(* Type correctness.                                                       *)

LEMMA EmptyRequests == <<>> \in Seq(Requests)
  OBVIOUS

LEMMA EmptyMessages == <<>> \in Seq(Messages)
  OBVIOUS

LEMMA InitTypeOK == Init => TypeOK
  BY MQAssumption DEF Init, TypeOK, ServerType, HandlerType, ChildType,
     QueueType, ClientType, RequestsKnown

LEMMA ServerTypeOK ==
  ASSUME TypeOK, NEW s \in Servers, ServerMain(s) PROVE TypeOK'
<1>1. CASE ServerStart(s)
  <2>1. /\ keyQ' \in Servers \cup {None} /\ reqQ' \in Seq(Requests)
        /\ serverId' \in [Servers -> Servers \cup {None}]
    BY <1>1, EmptyRequests DEF ServerStart, TypeOK, ServerType
  <2> QED
    BY <1>1, <2>1 DEF ServerStart, TypeOK, ServerType, HandlerType, ChildType,
     QueueType, ClientType, RequestsKnown, childVars, mqVars, clientVars
<1>2. CASE ServerReceive(s)
  <2>1. reqQ \in Seq(Requests) /\ reqQ # <<>>
    BY <1>2 DEF ServerReceive, TypeOK, ServerType
  <2>2. Head(reqQ) \in Requests /\ Tail(reqQ) \in Seq(Requests)
    BY <2>1
  <2> QED
    BY <1>2, <2>2 DEF ServerReceive, TypeOK, ServerType, HandlerType, ChildType,
     QueueType, ClientType, RequestsKnown, childVars, mqVars, clientVars
<1>3. CASE ServerReceiveError(s)
  BY <1>3 DEF ServerReceiveError, TypeOK, ServerType, HandlerType, ChildType,
     QueueType, ClientType, RequestsKnown, childVars, mqVars, clientVars
<1>4. CASE ServerCheckErrno(s)
  BY <1>4 DEF ServerCheckErrno, TypeOK, ServerType, HandlerType, ChildType,
     QueueType, ClientType, RequestsKnown, childVars, mqVars, clientVars
<1>5. CASE ServerFork(s)
  BY <1>5 DEF ServerFork, At, TypeOK, ServerType, HandlerType, ChildType,
     QueueType, ClientType, RequestsKnown, mqVars, clientVars
<1>6. CASE ServerForkError(s)
  BY <1>6 DEF ServerForkError, TypeOK, ServerType, HandlerType, ChildType,
     QueueType, ClientType, RequestsKnown, childVars, mqVars, clientVars
<1>7. CASE ServerRemoveQueue(s)
  <2>1. keyQ' \in Servers \cup {None} /\ reqQ' \in Seq(Requests)
    BY <1>7, EmptyRequests DEF ServerRemoveQueue, TypeOK, ServerType
  <2> QED
    BY <1>7, <2>1 DEF ServerRemoveQueue, ServerGone, TypeOK, ServerType, HandlerType, ChildType,
     QueueType, ClientType, RequestsKnown, mqVars, clientVars
<1> QED
  BY <1>1, <1>2, <1>3, <1>4, <1>5, <1>6, <1>7 DEF ServerMain

LEMMA ReaperTypeOK ==
  ASSUME TypeOK, NEW s \in Servers, GrimReaper(s) \/ ServerKilled(s) PROVE TypeOK'
<1>1. CASE ReaperEnter(s)
  BY <1>1 DEF ReaperEnter, TypeOK, ServerType, HandlerType, ChildType,
     QueueType, ClientType, RequestsKnown, childVars, mqVars, clientVars
<1>2. CASE ReaperReap(s)
  BY <1>2 DEF ReaperReap, TypeOK, ServerType, HandlerType, ChildType,
     QueueType, ClientType, RequestsKnown, serverVars, mqVars, clientVars
<1>3. CASE ReaperDone(s)
  BY <1>3 DEF ReaperDone, TypeOK, ServerType, HandlerType, ChildType,
     QueueType, ClientType, RequestsKnown, childVars, mqVars, clientVars
<1>4. CASE ReaperReturn(s)
  BY <1>4 DEF ReaperReturn, TypeOK, ServerType, HandlerType, ChildType,
     QueueType, ClientType, RequestsKnown, childVars, mqVars, clientVars
<1>5. CASE ServerKilled(s)
  BY <1>5 DEF ServerKilled, ServerGone, TypeOK, ServerType, HandlerType, ChildType,
     QueueType, ClientType, RequestsKnown, mqVars, clientVars
<1> QED
  BY <1>1, <1>2, <1>3, <1>4, <1>5 DEF GrimReaper

LEMMA MsgSndType ==
  ASSUME TypeOK, NEW p \in Pids, cpc[p] # "free", NEW n \in Nat,
         NEW mtype \in {"FAILURE", "DATA", "END"}, MsgSnd(p, mtype, n)
  PROVE  QueueType'
<1> DEFINE c == creq[p].clientId
           m == [mtype |-> mtype, of |-> creq[p].pathname, pos |-> off[p], n |-> n]
<1>1. m \in Messages /\ c \in Clients
  BY DEF TypeOK, RequestsKnown, ChildType, Requests, Messages
<1>2. CASE ~open[c] /\ UNCHANGED mqVars
  BY <1>2 DEF TypeOK, QueueType, mqVars
<1>3. CASE Enqueue(c, m)
  <2>1. Append(q[c], m) \in Seq(Messages)
    BY <1>1 DEF TypeOK, QueueType
  <2>2. m.n \in Int
    OBVIOUS
  <2> HIDE DEF m, c
  <2> QED
    BY <1>1, <1>3, <2>1, <2>2 DEF Enqueue, TypeOK, QueueType
<1> QED
  BY <1>2, <1>3 DEF MsgSnd

LEMMA ChildGoneTypeOK ==
  ASSUME TypeOK, NEW p \in Pids, cpc[p] # "free", ChildGone(p) PROVE TypeOK'
<1>1. CASE parent[p] = None
  BY <1>1 DEF ChildGone, Goto, TypeOK, ServerType, HandlerType, ChildType,
     QueueType, ClientType, RequestsKnown, mqVars, clientVars
<1>2. CASE parent[p] # None
  <2>1. HandlerType'
    BY <1>2 DEF ChildGone, TypeOK, HandlerType
  <2>2. ChildType' /\ RequestsKnown'
    BY <1>2 DEF ChildGone, Goto, TypeOK, ChildType, RequestsKnown
  <2> QED
    BY <2>1, <2>2 DEF ChildGone, TypeOK, ServerType, QueueType, ClientType,
       mqVars, clientVars
<1> QED
  BY <1>1, <1>2

LEMMA ChildTypeOK ==
  ASSUME TypeOK, NEW p \in Pids, ServeRequest(p) \/ ChildKilled(p) PROVE TypeOK'
<1>1. CASE ChildOpen(p)
  BY <1>1 DEF ChildOpen, Goto, TypeOK, ServerType, HandlerType, ChildType,
     QueueType, ClientType, RequestsKnown, serverVars, mqVars, clientVars
<1>2. CASE ChildSendFailure(p)
  <2>1. QueueType'
    BY <1>2, MsgSndType, MQAssumption DEF ChildSendFailure
  <2> QED
    BY <1>2, <2>1 DEF ChildSendFailure, Goto, TypeOK, ServerType, HandlerType, ChildType,
     ClientType, RequestsKnown, serverVars, clientVars
<1>3. CASE ChildRead(p)
  <2>1. len' \in [Pids -> Nat]
    BY <1>3, MQAssumption DEF ChildRead, Min2, TypeOK, ChildType, RequestsKnown, Requests
  <2> QED
    BY <1>3, <2>1 DEF ChildRead, Goto, TypeOK, ServerType, HandlerType, ChildType,
     QueueType, ClientType, RequestsKnown, serverVars, mqVars, clientVars
<1>4. CASE ChildSendData(p)
  <2>1. QueueType'
    BY <1>4, MsgSndType DEF ChildSendData, TypeOK, ChildType
  <2> QED
    BY <1>4, <2>1 DEF ChildSendData, Goto, TypeOK, ServerType, HandlerType, ChildType,
     ClientType, RequestsKnown, serverVars, clientVars
<1>5. CASE ChildSendEnd(p)
  <2>1. QueueType'
    BY <1>5, MsgSndType DEF ChildSendEnd
  <2> QED
    BY <1>5, <2>1 DEF ChildSendEnd, Goto, TypeOK, ServerType, HandlerType, ChildType,
     ClientType, RequestsKnown, serverVars, clientVars
<1>6. CASE ChildExit(p) \/ ChildKilled(p)
  BY <1>6, ChildGoneTypeOK DEF ChildExit, ChildKilled, Running
<1> QED
  BY <1>1, <1>2, <1>3, <1>4, <1>5, <1>6 DEF ServeRequest

LEMMA DequeueType ==
  ASSUME TypeOK, NEW c \in Clients, Dequeue(c)
  PROVE  QueueType' /\ Head(q[c]) \in Messages
<1>1. Head(q[c]) \in Messages /\ Tail(q[c]) \in Seq(Messages)
  BY DEF Dequeue, TypeOK, QueueType
<1>2. cbytes[c] - Head(q[c]).n \in Int
  BY <1>1 DEF TypeOK, QueueType, Messages
<1> QED
  BY <1>1, <1>2 DEF Dequeue, TypeOK, QueueType

LEMMA ClientTypeOK ==
  ASSUME TypeOK, NEW c \in Clients, ClientMain(c) \/ ClientKilled(c) PROVE TypeOK'
<1>1. CASE ClientStart(c)
  BY <1>1 DEF ClientStart, TypeOK, ServerType, HandlerType, ChildType,
     QueueType, ClientType, RequestsKnown, serverVars, childVars
<1>2. CASE ClientSend(c)
  <2>1. [clientId |-> c, pathname |-> path[c]] \in Requests
    BY DEF TypeOK, ClientType, Requests
  <2>2. reqQ' \in Seq(Requests)
    BY <1>2, <2>1 DEF ClientSend, TypeOK, ServerType
  <2> QED
    BY <1>2, <2>2 DEF ClientSend, TypeOK, ServerType, HandlerType, ChildType,
     QueueType, ClientType, RequestsKnown, serverVars, childVars, mqVars
<1>3. CASE ClientFirst(c)
  <2>1. QueueType' /\ Head(q[c]) \in Messages
    BY <1>3, DequeueType DEF ClientFirst
  <2>2. Head(q[c]).n \in Nat
    BY <2>1 DEF Messages
  <2>3. tot' \in [Clients -> Nat] /\ num' \in [Clients -> Nat]
    BY <1>3, <2>2 DEF ClientFirst, TypeOK, ClientType
  <2>4. ClientType'
    BY <1>3, <2>3 DEF ClientFirst, TypeOK, ClientType
  <2> QED
    BY <1>3, <2>1, <2>4 DEF ClientFirst, TypeOK, ServerType, HandlerType, ChildType,
     RequestsKnown, serverVars, childVars
<1>4. CASE ClientMore(c)
  <2>1. QueueType' /\ Head(q[c]) \in Messages
    BY <1>4, DequeueType DEF ClientMore
  <2>2. Head(q[c]).n \in Nat
    BY <2>1 DEF Messages
  <2>3. tot' \in [Clients -> Nat] /\ num' \in [Clients -> Nat]
    BY <1>4, <2>2 DEF ClientMore, TypeOK, ClientType
  <2>4. ClientType'
    BY <1>4, <2>3 DEF ClientMore, TypeOK, ClientType
  <2> QED
    BY <1>4, <2>1, <2>4 DEF ClientMore, TypeOK, ServerType, HandlerType, ChildType,
     RequestsKnown, serverVars, childVars
<1>5. CASE ClientPrint(c)
  BY <1>5 DEF ClientPrint, TypeOK, ServerType, HandlerType, ChildType,
     QueueType, ClientType, RequestsKnown, serverVars, childVars, mqVars
<1>6. CASE ClientRemove(c) \/ ClientExit(c)
  <2>1. RemoveQueue(c)
    BY <1>6 DEF ClientRemove, ClientExit
  <2>2. QueueType'
    BY <2>1, EmptyMessages DEF RemoveQueue, TypeOK, QueueType
  <2>3. CASE ClientRemove(c)
    BY <2>2, <2>3 DEF ClientRemove, TypeOK, ServerType, HandlerType, ChildType,
     ClientType, RequestsKnown, serverVars, childVars
  <2>4. CASE ClientExit(c)
    BY <2>2, <2>4 DEF ClientExit, TypeOK, ServerType, HandlerType, ChildType,
     ClientType, RequestsKnown, serverVars, childVars
  <2> QED
    BY <1>6, <2>3, <2>4
<1>7. CASE ClientKilled(c)
  BY <1>7 DEF ClientKilled, TypeOK, ServerType, HandlerType, ChildType,
     QueueType, ClientType, RequestsKnown, serverVars, childVars, mqVars
<1> QED
  BY <1>1, <1>2, <1>3, <1>4, <1>5, <1>6, <1>7 DEF ClientMain

LEMMA StutterTypeOK == TypeOK /\ UNCHANGED vars => TypeOK'
  BY DEF vars, serverVars, childVars, mqVars, clientVars, TypeOK, ServerType, HandlerType, ChildType,
     QueueType, ClientType, RequestsKnown

\* Every variable keeps its type, totBytes and the file positions never go
\* below zero, and serveRequest() is only ever given a request that was received.
THEOREM TypeCorrect == Spec => []TypeOK
<1>1. TypeOK /\ [Next]_vars => TypeOK'
  <2> SUFFICES ASSUME TypeOK, [Next]_vars PROVE TypeOK'
    OBVIOUS
  <2>1. ASSUME NEW s \in Servers, ServerMain(s) \/ GrimReaper(s) \/ ServerKilled(s)
        PROVE  TypeOK'
    BY <2>1, ServerTypeOK, ReaperTypeOK
  <2>2. ASSUME NEW p \in Pids, ServeRequest(p) \/ ChildKilled(p)
        PROVE  TypeOK'
    BY <2>2, ChildTypeOK
  <2>3. ASSUME NEW c \in Clients, ClientMain(c) \/ ClientKilled(c)
        PROVE  TypeOK'
    BY <2>3, ClientTypeOK
  <2> QED
    BY <2>1, <2>2, <2>3, StutterTypeOK DEF Next
<1> QED
  BY InitTypeOK, <1>1, PTL DEF Spec

-----------------------------------------------------------------------------
(* The SIGCHLD handler and the server's queue.  The three invariants hold    *)
(* together with what they rest on: a server knows its own queue or none,    *)
(* and only a running server has a handler on its stack or children.         *)

Ownership ==
    /\ \A s \in Servers : serverId[s] \in {None, s}
    /\ \A s \in Servers : spc[s] = "off" => serverId[s] = None
    /\ \A s \in Servers : hpc[s] # "idle" => Alive(s)
    /\ \A p \in Pids : parent[p] # None => Alive(parent[p])

ServerInv ==
    /\ Ownership
    /\ QueueOutlivesServer
    /\ ZombiesWillBeReaped
    /\ ErrnoIsMsgrcvs

LEMMA InitServerInv == Init => ServerInv
  BY MQAssumption DEF Init, ServerInv, Ownership, QueueOutlivesServer,
     ZombiesWillBeReaped, ErrnoIsMsgrcvs, Alive

LEMMA ServerServerInv ==
  ASSUME TypeOK, ServerInv, NEW s \in Servers, ServerMain(s) PROVE ServerInv'
<1> USE DEF ServerInv, Ownership, QueueOutlivesServer,
     ZombiesWillBeReaped, ErrnoIsMsgrcvs, Alive, HasQueue, At, TypeOK, ServerType,
     HandlerType, ChildType
<1>1. CASE ServerStart(s)
  <2>1. CASE keyQ = None
    <3>1. /\ keyQ' = s /\ serverId' = [serverId EXCEPT ![s] = s]
          /\ spc' = [spc EXCEPT ![s] = "rcv"]
          /\ UNCHANGED <<errno, saved, hpc, pend, cpc, parent>>
      BY <1>1, <2>1 DEF ServerStart, childVars
    <3>2. \A t \in Servers : Alive(t) => serverId[t] = None
      BY <2>1
    <3>3. \A t \in Servers : Alive(t)' => Alive(t) \/ t = s
      BY <3>1
    <3> QED
      BY <1>1, <3>1, <3>2, <3>3, MQAssumption DEF ServerStart
  <2>2. CASE keyQ # None
    BY <1>1, <2>2 DEF ServerStart, childVars
  <2> QED
    BY <2>1, <2>2
<1>2. CASE ServerReceive(s)
  BY <1>2 DEF ServerReceive, childVars
<1>3. CASE ServerReceiveError(s)
  BY <1>3 DEF ServerReceiveError, childVars
<1>4. CASE ServerCheckErrno(s)
  BY <1>4 DEF ServerCheckErrno, childVars
<1>5. CASE ServerFork(s)
  BY <1>5 DEF ServerFork
<1>6. CASE ServerForkError(s)
  BY <1>6 DEF ServerForkError, childVars
<1>7. CASE ServerRemoveQueue(s)
  BY <1>7, MQAssumption DEF ServerRemoveQueue, ServerGone
<1> QED
  BY <1>1, <1>2, <1>3, <1>4, <1>5, <1>6, <1>7 DEF ServerMain

LEMMA ReaperServerInv ==
  ASSUME TypeOK, ServerInv, NEW s \in Servers, GrimReaper(s) \/ ServerKilled(s)
  PROVE  ServerInv'
<1> USE DEF ServerInv, Ownership, QueueOutlivesServer,
     ZombiesWillBeReaped, ErrnoIsMsgrcvs, Alive, HasQueue, At, TypeOK, ServerType,
     HandlerType, ChildType
<1>1. CASE ReaperEnter(s)
  BY <1>1 DEF ReaperEnter, childVars
<1>2. CASE ReaperReap(s)
  BY <1>2 DEF ReaperReap, serverVars
<1>3. CASE ReaperDone(s)
  BY <1>3 DEF ReaperDone, childVars
<1>4. CASE ReaperReturn(s)
  <2>1. CASE errno' = [errno EXCEPT ![s] = saved[s]] /\ UNCHANGED spc
    BY <1>4, <2>1 DEF ReaperReturn, childVars
  <2>2. CASE /\ spc[s] = "rcv" /\ HasQueue(s)
             /\ errno' = [errno EXCEPT ![s] = "EINTR"]
             /\ spc' = [spc EXCEPT ![s] = "chk"]
    BY <1>4, <2>2 DEF ReaperReturn, childVars
  <2> QED
    BY <1>4, <2>1, <2>2 DEF ReaperReturn
<1>5. CASE ServerKilled(s)
  BY <1>5 DEF ServerKilled, ServerGone
<1> QED
  BY <1>1, <1>2, <1>3, <1>4, <1>5 DEF GrimReaper

\* The steps of a child and of a client leave the servers alone, but for the
\* SIGCHLD of a child that ends.
LEMMA OtherServerInv ==
  ASSUME TypeOK, ServerInv,
         \/ \E p \in Pids : ServeRequest(p) \/ ChildKilled(p)
         \/ \E c \in Clients : ClientMain(c) \/ ClientKilled(c)
         \/ UNCHANGED vars
  PROVE  ServerInv'
<1> USE DEF ServerInv, Ownership, QueueOutlivesServer,
     ZombiesWillBeReaped, ErrnoIsMsgrcvs, Alive, HasQueue, TypeOK, ServerType,
     HandlerType, ChildType
<1>1. CASE \E p \in Pids : ChildExit(p) \/ ChildKilled(p)
  BY <1>1 DEF ChildExit, ChildKilled, ChildGone, Goto, Running
<1>2. CASE \E p \in Pids : ChildOpen(p) \/ ChildSendFailure(p) \/ ChildRead(p)
                              \/ ChildSendData(p) \/ ChildSendEnd(p)
  <2>1. PICK p \in Pids : \E w \in {"read", "fail", "exit", "send", "end"} : Goto(p, w)
    BY <1>2 DEF ChildOpen, ChildSendFailure, ChildRead, ChildSendData, ChildSendEnd
  <2>2. /\ keyQ' = keyQ /\ UNCHANGED serverVars /\ parent' = parent
    BY <1>2 DEF ChildOpen, ChildSendFailure, ChildRead, ChildSendData, ChildSendEnd
  <2> QED
    BY <2>1, <2>2 DEF serverVars, Goto
<1>3. CASE (\E c \in Clients : ClientMain(c) \/ ClientKilled(c)) \/ UNCHANGED vars
  <2>1. keyQ' = keyQ /\ UNCHANGED <<serverVars, childVars>>
    BY <1>3 DEF ClientMain, ClientStart, ClientSend, ClientFirst, ClientMore,
       ClientPrint, ClientRemove, ClientExit, ClientKilled, vars
  <2> QED
    BY <2>1 DEF serverVars, childVars
<1> QED
  BY <1>1, <1>2, <1>3 DEF ServeRequest

LEMMA ServerInvInductive == TypeOK /\ ServerInv /\ [Next]_vars => ServerInv'
<1> SUFFICES ASSUME TypeOK, ServerInv, [Next]_vars PROVE ServerInv'
  OBVIOUS
<1>1. ASSUME NEW s \in Servers, ServerMain(s) \/ GrimReaper(s) \/ ServerKilled(s)
      PROVE  ServerInv'
  BY <1>1, ServerServerInv, ReaperServerInv
<1> QED
  BY <1>1, OtherServerInv DEF Next

LEMMA ServerInvariant == Spec => []ServerInv
<1> QED
  BY InitServerInv, ServerInvInductive, TypeCorrect, PTL DEF Spec

\* However many children end while SIGCHLD is blocked or pending, no zombie is
\* forgotten by grimReaper().
THEOREM NoZombieForgotten == Spec => []ZombiesWillBeReaped
<1>1. ServerInv => ZombiesWillBeReaped
  BY DEF ServerInv
<1> QED
  BY <1>1, ServerInvariant, PTL

\* main() always sees the errno of its own msgrcv: grimReaper() hides waitpid's.
THEOREM HandlerKeepsErrno == Spec => []ErrnoIsMsgrcvs
<1>1. ServerInv => ErrnoIsMsgrcvs
  BY DEF ServerInv
<1> QED
  BY <1>1, ServerInvariant, PTL

\* No server ever removes the queue of another server that still runs.
THEOREM QueueIsOwnersAlone == Spec => []QueueOutlivesServer
<1>1. ServerInv => QueueOutlivesServer
  BY DEF ServerInv
<1> QED
  BY <1>1, ServerInvariant, PTL

\* The death of children never ends the server that has its queue.
THEOREM ServerSurvivesChildren == Spec => LoopEndsOnlyByFork
<1>1. ServerInv /\ TypeOK /\ [Next]_vars =>
        [\A s \in Servers :
            spc[s] # "rmid" /\ spc'[s] = "rmid" /\ HasQueue(s) => spc[s] = "fork"]_vars
  <2> SUFFICES ASSUME ServerInv, TypeOK, Next, NEW s \in Servers,
                      spc[s] # "rmid", spc'[s] = "rmid", HasQueue(s)
               PROVE  spc[s] = "fork"
    BY DEF vars
  <2> USE DEF TypeOK, ServerType
  <2>1. ASSUME NEW t \in Servers, ServerMain(t) PROVE spc[s] = "fork"
    BY <2>1 DEF ServerMain, ServerStart, ServerReceive, ServerReceiveError,
       ServerCheckErrno, ServerFork, ServerForkError, ServerRemoveQueue, ServerGone,
       At, ServerInv, ErrnoIsMsgrcvs
  <2>2. ASSUME NEW t \in Servers, GrimReaper(t) \/ ServerKilled(t) PROVE FALSE
    BY <2>2 DEF GrimReaper, ReaperEnter, ReaperReap, ReaperDone, ReaperReturn,
       ServerKilled, ServerGone, serverVars
  <2>3. ASSUME NEW p \in Pids, ServeRequest(p) \/ ChildKilled(p) PROVE FALSE
    BY <2>3 DEF ServeRequest, ChildOpen, ChildSendFailure, ChildRead, ChildSendData,
       ChildSendEnd, ChildExit, ChildKilled, ChildGone, serverVars
  <2>4. ASSUME NEW c \in Clients, ClientMain(c) \/ ClientKilled(c) PROVE FALSE
    BY <2>4 DEF ClientMain, ClientStart, ClientSend, ClientFirst, ClientMore,
       ClientPrint, ClientRemove, ClientExit, ClientKilled, serverVars
  <2> QED
    BY <2>1, <2>2, <2>3, <2>4 DEF Next
<1> QED
  BY <1>1, ServerInvariant, TypeCorrect, PTL DEF Spec, LoopEndsOnlyByFork

-----------------------------------------------------------------------------
(* The stream of each client.  Reached(c, k) is where in its file client c   *)
(* is after k data messages; every count and every position is tied to it.   *)

\* Where a file of that size is after k messages.
UpTo(k, size) == Min2(k * RespMsgSize, size)

Reached(c, k) == UpTo(k, Size[path[c]])

\* A request nobody has begun to answer.
Fresh(r) ==
    LET c == r.clientId IN
    /\ r.pathname = path[c] /\ sidC[c] # None
    /\ open[c] /\ kpc[c] \in {"first", "killed"}
    /\ q[c] = <<>> /\ num[c] = 0 /\ tot[c] = 0

RequestsFresh ==
    /\ \A i \in DOMAIN reqQ : Fresh(reqQ[i])
    /\ \A s \in Servers : spc[s] = "fork" => Fresh(sreq[s])

\* No two of the places that hold requests hold one of the same client.
OneHolder ==
    /\ \A i, j \in DOMAIN reqQ : reqQ[i].clientId = reqQ[j].clientId => i = j
    /\ \A s, t \in Servers :
          spc[s] = "fork" /\ spc[t] = "fork" /\ sreq[s].clientId = sreq[t].clientId
          => s = t
    /\ \A p, r \in Pids :
          Busy(p) /\ Busy(r) /\ creq[p].clientId = creq[r].clientId => p = r
    /\ \A i \in DOMAIN reqQ, s \in Servers :
          spc[s] = "fork" => reqQ[i].clientId # sreq[s].clientId
    /\ \A i \in DOMAIN reqQ, p \in Pids :
          Busy(p) => reqQ[i].clientId # creq[p].clientId
    /\ \A s \in Servers, p \in Pids :
          spc[s] = "fork" /\ Busy(p) => sreq[s].clientId # creq[p].clientId

\* The child of slot p is as far in client c's file as its messages are.
InStep(p, c) ==
    /\ creq[p].pathname = path[c] /\ sidC[c] # None
    /\ open[c] /\ kpc[c] \in {"first", "more", "killed"}
    /\ \A i \in DOMAIN q[c] : q[c][i].mtype = "DATA"
    /\ tot[c] = Reached(c, num[c])
    /\ off[p] = Reached(c, num[c] + Len(q[c]))
    /\ cpc[p] \in {"open", "fail"} => num[c] = 0 /\ q[c] = <<>>
    /\ cpc[p] = "fail" => path[c] \notin Openable
    /\ cpc[p] \in {"read", "send", "end"} => path[c] \in Openable
    /\ cpc[p] = "send" => /\ off[p] < Size[path[c]]
                          /\ len[p] = Min2(Size[path[c]] - off[p], RespMsgSize)
    /\ cpc[p] = "end" => "read" \in Faults \/ off[p] = Size[path[c]]

ChildrenInStep == \A p \in Pids : Busy(p) => InStep(p, creq[p].clientId)

\* The i-th response that waits for client c.
Expected(c, i) ==
    LET m == q[c][i] IN
    /\ m.of = path[c] /\ sidC[c] # None /\ kpc[c] \in {"first", "more", "killed"}
    /\ tot[c] = Reached(c, num[c])
    /\ m.pos = Reached(c, num[c] + i - 1)
    /\ m.mtype # "DATA" => i = Len(q[c])
    /\ m.mtype = "DATA" => /\ path[c] \in Openable /\ m.pos < Size[path[c]]
                           /\ m.n = Min2(Size[path[c]] - m.pos, RespMsgSize)
    /\ m.mtype = "END" => /\ path[c] \in Openable /\ m.n = 0
                          /\ "read" \in Faults \/ m.pos = Size[path[c]]
    /\ m.mtype = "FAILURE" => path[c] \notin Openable /\ num[c] = 0 /\ i = 1

ResponsesExpected == \A c \in Clients : \A i \in DOMAIN q[c] : Expected(c, i)

\* Client c has its last message: one more than the data takes.
HasLast(c) ==
    /\ path[c] \in Openable /\ num[c] >= 1
    /\ tot[c] = Reached(c, num[c] - 1)
    /\ "read" \in Faults \/ tot[c] = Size[path[c]]
    /\ num[c] = 1 \/ Reached(c, num[c] - 2) < Size[path[c]]

Counted(c) ==
    /\ kpc[c] \in {"off", "send"} => q[c] = <<>>
    /\ kpc[c] \in {"off", "send", "first"} => num[c] = 0 /\ tot[c] = 0
    /\ kpc[c] \in {"send", "first", "more"} => open[c]
    /\ kpc[c] \in {"off", "send", "first", "more", "print"} => outcome[c] = "none"
    /\ kpc[c] \in {"more", "print"} => sidC[c] # None
    /\ kpc[c] = "more" => /\ path[c] \in Openable /\ num[c] >= 1
                          /\ tot[c] = Reached(c, num[c])
                          /\ Reached(c, num[c] - 1) < Size[path[c]]
    /\ kpc[c] = "print" \/ outcome[c] = "received" => HasLast(c)

StreamInv ==
    /\ RequestsFresh /\ OneHolder /\ ChildrenInStep /\ ResponsesExpected
    /\ \A c \in Clients : Counted(c)


LEMMA UpToSteps ==
  ASSUME NEW k \in Nat, NEW size \in Nat
  PROVE  /\ UpTo(0, size) = 0
         /\ UpTo(k, size) \in Nat /\ UpTo(k, size) <= size
         /\ UpTo(k, size) < size =>
               UpTo(k + 1, size) = UpTo(k, size) + Min2(size - UpTo(k, size), RespMsgSize)
<1>1. RespMsgSize \in Nat \ {0}
  BY MQAssumption
<1>2. k * RespMsgSize \in Nat /\ 0 * RespMsgSize = 0
  BY <1>1
<1>3. (k + 1) * RespMsgSize = k * RespMsgSize + RespMsgSize
  BY <1>1
<1> QED
  BY <1>1, <1>2, <1>3 DEF UpTo, Min2

LEMMA SizeType == TypeOK => \A c \in Clients : Size[path[c]] \in Nat
  BY MQAssumption DEF TypeOK, ClientType

LEMMA InitStreamInv == Init => StreamInv
  BY MQAssumption DEF Init, StreamInv, RequestsFresh, OneHolder, ChildrenInStep,
     ResponsesExpected, Counted, Busy, Running

\* What client c and the kernel keep of its stream.
StreamOf(c) == <<path[c], sidC[c], open[c], q[c], tot[c], num[c]>>

LEMMA SameChild ==
  ASSUME NEW p \in Pids, InStep(p, creq[p].clientId),
         UNCHANGED StreamOf(creq[p].clientId),
         kpc'[creq[p].clientId] \in {kpc[creq[p].clientId], "killed"},
         creq'[p] = creq[p], cpc'[p] = cpc[p], off'[p] = off[p], len'[p] = len[p]
  PROVE  InStep(p, creq[p].clientId)'
  BY DEF InStep, StreamOf, Reached

LEMMA SameClient ==
  ASSUME NEW c \in Clients, UNCHANGED StreamOf(c),
         Counted(c), \A i \in DOMAIN q[c] : Expected(c, i),
         kpc'[c] \in {kpc[c], "killed"}, outcome'[c] = outcome[c]
  PROVE  Counted(c)' /\ (\A i \in DOMAIN q[c] : Expected(c, i))'
  BY DEF Counted, HasLast, Expected, StreamOf, Reached

\* A step of a server that takes up no request.
LEMMA FewerHolders ==
  ASSUME StreamInv, UNCHANGED <<mqVars, clientVars>>,
         reqQ' \in {reqQ, <<>>},
         \A s \in Servers : spc'[s] = "fork" => spc[s] = "fork" /\ sreq'[s] = sreq[s],
         \A p \in Pids : Busy(p)' => /\ cpc'[p] = cpc[p] /\ creq'[p] = creq[p]
                                    /\ off'[p] = off[p] /\ len'[p] = len[p]
  PROVE  StreamInv'
<1>1. \A p \in Pids : Busy(p)' => Busy(p)
  BY DEF Busy, Running
<1>2. RequestsFresh'
  BY DEF StreamInv, RequestsFresh, Fresh, mqVars, clientVars
<1>3. OneHolder'
  BY <1>1 DEF StreamInv, OneHolder
<1>4. ChildrenInStep'
  BY <1>1, SameChild DEF StreamInv, ChildrenInStep, StreamOf, mqVars, clientVars
<1>5. ResponsesExpected' /\ \A c \in Clients : Counted(c)'
  BY DEF StreamInv, ResponsesExpected, Expected, Counted, HasLast, Reached, mqVars, clientVars
<1> QED
  BY <1>2, <1>3, <1>4, <1>5 DEF StreamInv

LEMMA ReceiveStreamInv ==
  ASSUME TypeOK, StreamInv, NEW s \in Servers, ServerReceive(s) PROVE StreamInv'
<1>1. /\ reqQ \in Seq(Requests) /\ reqQ # <<>>
      /\ sreq' = [sreq EXCEPT ![s] = Head(reqQ)] /\ reqQ' = Tail(reqQ)
      /\ spc' = [spc EXCEPT ![s] = "fork"]
      /\ UNCHANGED <<childVars, mqVars, clientVars>>
      /\ spc[s] = "rcv"
  BY DEF ServerReceive, At, TypeOK, ServerType
<1>2. /\ 1 \in DOMAIN reqQ /\ sreq'[s] = reqQ[1]
      /\ \A i \in DOMAIN reqQ' : i + 1 \in DOMAIN reqQ /\ reqQ'[i] = reqQ[i + 1] /\ i \in Nat \ {0}
  BY <1>1 DEF TypeOK, ServerType
<1>3. spc'[s] = "fork" /\ \A t \in Servers \ {s} : spc'[t] = spc[t] /\ sreq'[t] = sreq[t]
  BY <1>1 DEF TypeOK, ServerType
<1>4. RequestsFresh'
  BY <1>1, <1>2, <1>3 DEF StreamInv, RequestsFresh, Fresh, mqVars, clientVars
<1>5. OneHolder'
  <2> USE <1>2, <1>3 DEF StreamInv, OneHolder
  <2>1. \A i, j \in DOMAIN reqQ' : reqQ'[i].clientId = reqQ'[j].clientId => i = j
    OBVIOUS
  <2>2. \A i \in DOMAIN reqQ' : reqQ'[i].clientId # reqQ[1].clientId
    OBVIOUS
  <2>3. \A t, u \in Servers :
          spc'[t] = "fork" /\ spc'[u] = "fork" /\ sreq'[t].clientId = sreq'[u].clientId
          => t = u
    OBVIOUS
  <2>4. \A i \in DOMAIN reqQ', t \in Servers :
          spc'[t] = "fork" => reqQ'[i].clientId # sreq'[t].clientId
    BY <2>2
  <2> QED
    BY <1>1, <2>1, <2>3, <2>4 DEF Busy, Running, childVars
<1>6. ChildrenInStep' /\ ResponsesExpected' /\ \A c \in Clients : Counted(c)'
  BY <1>1 DEF StreamInv, ChildrenInStep, InStep, Busy, Running, ResponsesExpected, Expected,
     Counted, HasLast, Reached, mqVars, clientVars, childVars
<1> QED
  BY <1>4, <1>5, <1>6 DEF StreamInv

LEMMA ForkStreamInv ==
  ASSUME TypeOK, StreamInv, NEW s \in Servers, ServerFork(s) PROVE StreamInv'
<1>1. PICK p \in Pids :
        /\ cpc[p] = "free"
        /\ cpc' = [cpc EXCEPT ![p] = "open"]
        /\ creq' = [creq EXCEPT ![p] = sreq[s]]
        /\ off' = [off EXCEPT ![p] = 0]
        /\ len' = [len EXCEPT ![p] = 0]
  BY DEF ServerFork
<1>2. /\ spc[s] = "fork" /\ spc' = [spc EXCEPT ![s] = "rcv"]
      /\ UNCHANGED <<reqQ, sreq, mqVars, clientVars>>
  BY DEF ServerFork, At
<1>3. /\ cpc'[p] = "open" /\ creq'[p] = sreq[s] /\ off'[p] = 0
      /\ \A r \in Pids \ {p} : /\ cpc'[r] = cpc[r] /\ creq'[r] = creq[r]
                               /\ off'[r] = off[r] /\ len'[r] = len[r]
      /\ \A r \in Pids \ {p} : Busy(r)' <=> Busy(r)
  BY <1>1 DEF TypeOK, ChildType, Busy, Running
<1>4. spc'[s] = "rcv" /\ \A t \in Servers \ {s} : spc'[t] = spc[t]
  BY <1>2 DEF TypeOK, ServerType
<1>5. RequestsFresh'
  BY <1>2, <1>4 DEF StreamInv, RequestsFresh, Fresh, mqVars, clientVars
<1>6. OneHolder'
  BY <1>2, <1>3, <1>4 DEF StreamInv, OneHolder
<1>7. ASSUME NEW r \in Pids, Busy(r)' PROVE InStep(r, creq[r].clientId)'
  <2>1. CASE r # p
    <3>1. InStep(r, creq[r].clientId)
      BY <1>3, <1>7, <2>1 DEF StreamInv, ChildrenInStep
    <3>2. cpc'[r] = cpc[r] /\ creq'[r] = creq[r] /\ off'[r] = off[r] /\ len'[r] = len[r]
      BY <1>3, <2>1
    <3> QED
      BY <1>2, <3>1, <3>2, SameChild DEF StreamOf, mqVars, clientVars
  <2>2. CASE r = p
    <3> DEFINE c == sreq[s].clientId
    <3>1. Fresh(sreq[s]) /\ c \in Clients
      BY <1>2 DEF StreamInv, RequestsFresh, TypeOK, RequestsKnown, Requests
    <3>2. UpTo(0, Size[path[c]]) = 0
      BY <3>1, SizeType, UpToSteps
    <3> QED
      BY <1>2, <1>3, <2>2, <3>1, <3>2 DEF InStep, Fresh, Reached, mqVars, clientVars
  <2> QED
    BY <2>1, <2>2
<1>8. ResponsesExpected' /\ \A c \in Clients : Counted(c)'
  BY <1>2 DEF StreamInv, ResponsesExpected, Expected, Counted, HasLast, Reached, mqVars, clientVars
<1> QED
  BY <1>5, <1>6, <1>7, <1>8 DEF StreamInv, ChildrenInStep

LEMMA ServerStreamInv ==
  ASSUME TypeOK, StreamInv, NEW s \in Servers,
         ServerMain(s) \/ GrimReaper(s) \/ ServerKilled(s)
  PROVE  StreamInv'
<1> USE DEF TypeOK, ServerType, ChildType
<1>1. CASE ServerReceive(s)
  BY <1>1, ReceiveStreamInv
<1>2. CASE ServerFork(s)
  BY <1>2, ForkStreamInv
<1>3. CASE ServerStart(s) \/ ServerReceiveError(s) \/ ServerCheckErrno(s) \/ ServerForkError(s)
  <2>1. /\ UNCHANGED <<sreq, childVars, mqVars, clientVars>> /\ reqQ' \in {reqQ, <<>>}
        /\ \E w \in {"rcv", "chk", "rmid"} : spc' = [spc EXCEPT ![s] = w]
    BY <1>3 DEF ServerStart, ServerReceiveError, ServerCheckErrno, ServerForkError
  <2> QED
    BY <2>1, FewerHolders DEF Busy, childVars
<1>4. CASE ServerRemoveQueue(s) \/ ServerKilled(s)
  <2>1. /\ UNCHANGED <<sreq, creq, off, len, mqVars, clientVars>> /\ reqQ' \in {reqQ, <<>>}
        /\ spc' = [spc EXCEPT ![s] = "exited"]
        /\ \A p \in Pids : cpc'[p] \in {cpc[p], "free"}
    BY <1>4 DEF ServerRemoveQueue, ServerKilled, ServerGone
  <2> QED
    BY <2>1, FewerHolders DEF Busy, Running
<1>5. CASE GrimReaper(s)
  <2>1. UNCHANGED <<reqQ, sreq, creq, off, len, mqVars, clientVars>>
    BY <1>5 DEF GrimReaper, ReaperEnter, ReaperReap, ReaperDone, ReaperReturn, serverVars, childVars
  <2>2. \A t \in Servers : spc'[t] \in {spc[t], "chk"}
    BY <1>5 DEF GrimReaper, ReaperEnter, ReaperReap, ReaperDone, ReaperReturn, serverVars
  <2>3. \A p \in Pids : cpc'[p] \in {cpc[p], "free"}
    BY <1>5 DEF GrimReaper, ReaperEnter, ReaperReap, ReaperDone, ReaperReturn, childVars
  <2> QED
    BY <2>1, <2>2, <2>3, FewerHolders DEF Busy, Running
<1> QED
  BY <1>1, <1>2, <1>3, <1>4, <1>5 DEF ServerMain

\* A step of the child of slot p, seen from the other clients.
LEMMA ChildFrame ==
  ASSUME TypeOK, StreamInv, NEW p \in Pids, Busy(p),
         UNCHANGED <<reqQ, spc, sreq, creq, open, clientVars>>,
         \A r \in Pids \ {p} : cpc'[r] = cpc[r] /\ off'[r] = off[r] /\ len'[r] = len[r],
         \A d \in Clients \ {creq[p].clientId} : q'[d] = q[d],
         Busy(p)' => InStep(p, creq[p].clientId)',
         (\A i \in DOMAIN q[creq[p].clientId] : Expected(creq[p].clientId, i))'
  PROVE  StreamInv'
<1> DEFINE c == creq[p].clientId
<1>1. /\ c \in Clients /\ InStep(p, c)
      /\ \A r \in Pids \ {p} : Busy(r)' <=> Busy(r)
  BY DEF StreamInv, ChildrenInStep, TypeOK, RequestsKnown, Requests, Busy, Running
<1>2. RequestsFresh'
  <2>1. \A i \in DOMAIN reqQ : Fresh(reqQ[i]) /\ reqQ[i].clientId \in Clients \ {c}
    <3> TAKE i \in DOMAIN reqQ
    <3>1. reqQ[i] \in Requests
      BY DEF TypeOK, ServerType
    <3> QED
      BY <3>1 DEF StreamInv, RequestsFresh, OneHolder, Requests
  <2>2. \A s \in Servers : spc[s] = "fork" => Fresh(sreq[s]) /\ sreq[s].clientId \in Clients \ {c}
    BY DEF StreamInv, RequestsFresh, OneHolder, TypeOK, RequestsKnown, Requests
  <2> QED
    BY <2>1, <2>2 DEF RequestsFresh, Fresh, clientVars
<1>3. OneHolder'
  BY <1>1 DEF StreamInv, OneHolder
<1>4. ChildrenInStep'
  <2>1. ASSUME NEW r \in Pids, r # p, Busy(r)' PROVE InStep(r, creq[r].clientId)'
    <3>1. creq[r].clientId \in Clients \ {c} /\ InStep(r, creq[r].clientId)
      BY <1>1, <2>1 DEF StreamInv, ChildrenInStep, OneHolder, TypeOK, RequestsKnown,
         Requests, Busy, Running
    <3> QED
      BY <2>1, <3>1, SameChild DEF StreamOf, clientVars
  <2> QED
    BY <2>1 DEF ChildrenInStep
<1>5. ASSUME NEW d \in Clients
      PROVE  Counted(d)' /\ (\A i \in DOMAIN q[d] : Expected(d, i))'
  <2>1. CASE d # c
    BY <2>1, SameClient DEF StreamInv, ResponsesExpected, StreamOf, clientVars
  <2>2. CASE d = c
    BY <1>1, <2>2 DEF StreamInv, Counted, HasLast, InStep, Reached, clientVars
  <2> QED
    BY <2>1, <2>2
<1> QED
  BY <1>2, <1>3, <1>4, <1>5 DEF StreamInv, ResponsesExpected

\* A response that carries on from what the child has sent is expected.
LEMMA SentIsExpected ==
  ASSUME TypeOK, StreamInv, NEW p \in Pids, Busy(p), NEW n \in Nat,
         NEW mtype \in {"FAILURE", "DATA", "END"}, MsgSnd(p, mtype, n),
         UNCHANGED <<creq, clientVars>>,
         mtype = "DATA" => cpc[p] = "send" /\ n = len[p],
         mtype = "END" => cpc[p] = "end" /\ n = 0,
         mtype = "FAILURE" => cpc[p] = "fail"
  PROVE  LET c == creq[p].clientId IN
         /\ q' = [q EXCEPT ![c] = Append(q[c],
                   [mtype |-> mtype, of |-> creq[p].pathname, pos |-> off[p], n |-> n])]
         /\ open' = open
         /\ (\A i \in DOMAIN q[c] : Expected(c, i))'
<1> DEFINE c == creq[p].clientId
           m == [mtype |-> mtype, of |-> creq[p].pathname, pos |-> off[p], n |-> n]
<1>1. /\ InStep(p, c) /\ c \in Clients /\ q[c] \in Seq(Messages)
      /\ \A i \in DOMAIN q[c] : Expected(c, i)
  BY DEF StreamInv, ChildrenInStep, ResponsesExpected, TypeOK, QueueType, RequestsKnown, Requests
<1>2. Enqueue(c, m)
  BY <1>1 DEF MsgSnd, InStep
<1>3. q' = [q EXCEPT ![c] = Append(q[c], m)] /\ open' = open
  BY <1>2 DEF Enqueue
<1>4. /\ q'[c] = Append(q[c], m) /\ Len(q'[c]) = Len(q[c]) + 1 /\ Len(q[c]) \in Nat
      /\ DOMAIN q'[c] = 1..(Len(q[c]) + 1) /\ q'[c][Len(q[c]) + 1] = m
      /\ \A i \in 1..Len(q[c]) : q'[c][i] = q[c][i]
  <2> HIDE DEF m
  <2> QED
    BY <1>1, <1>3 DEF TypeOK, QueueType
<1>5. ASSUME NEW i \in 1..Len(q[c]) PROVE Expected(c, i)'
  <2>1. i \in DOMAIN q[c] /\ q[c][i].mtype = "DATA" /\ Expected(c, i)
    BY <1>1 DEF InStep
  <2> HIDE DEF m
  <2> QED
    BY <1>4, <2>1 DEF Expected, Reached, clientVars
<1>6. ASSUME NEW i \in Nat, i = Len(q[c]) + 1 PROVE Expected(c, i)'
  <2>1. num[c] \in Nat /\ num[c] + i - 1 = num[c] + Len(q[c]) /\ i = Len(q'[c])
    BY <1>1, <1>4, <1>6 DEF TypeOK, ClientType
  <2>2. /\ q'[c][i].mtype = mtype /\ q'[c][i].of = creq[p].pathname
        /\ q'[c][i].pos = off[p] /\ q'[c][i].n = n
    BY <1>4, <1>6
  <2>3. mtype = "FAILURE" => Len(q[c]) = 0
    BY <1>1 DEF InStep
  <2>4. \/ mtype = "DATA" /\ cpc[p] = "send" /\ n = len[p]
        \/ mtype = "END" /\ cpc[p] = "end" /\ n = 0
        \/ mtype = "FAILURE" /\ cpc[p] = "fail"
    OBVIOUS
  <2>5. /\ creq[p].pathname = path[c] /\ sidC[c] # None
        /\ kpc[c] \in {"first", "more", "killed"}
        /\ tot[c] = UpTo(num[c], Size[path[c]])
        /\ off[p] = UpTo(num[c] + i - 1, Size[path[c]])
    BY <1>1, <2>1 DEF InStep, Reached
  <2>6. /\ mtype = "DATA" => /\ path[c] \in Openable /\ off[p] < Size[path[c]]
                             /\ n = Min2(Size[path[c]] - off[p], RespMsgSize)
        /\ mtype = "END" => /\ path[c] \in Openable /\ n = 0
                            /\ "read" \in Faults \/ off[p] = Size[path[c]]
        /\ mtype = "FAILURE" => path[c] \notin Openable /\ num[c] = 0 /\ i = 1
    BY <1>1, <1>6, <2>3, <2>4 DEF InStep
  <2>7. UNCHANGED <<creq, path, sidC, kpc, tot, num>>
    BY DEF clientVars
  <2> HIDE DEF m
  <2> QED
    BY <2>1, <2>2, <2>5, <2>6, <2>7 DEF Expected, Reached
<1>7. (\A i \in DOMAIN q[c] : Expected(c, i))'
  BY <1>4, <1>5, <1>6
<1> QED
  BY <1>3, <1>7

LEMMA ChildStreamInv ==
  ASSUME TypeOK, StreamInv, NEW p \in Pids, ServeRequest(p) \/ ChildKilled(p)
  PROVE  StreamInv'
<1> DEFINE c == creq[p].clientId
<1>1. CASE ChildExit(p) \/ ChildKilled(p)
  BY <1>1, FewerHolders DEF ChildExit, ChildKilled, ChildGone, Goto, TypeOK, ChildType, Busy, Running
<1>2. ASSUME ChildOpen(p) \/ ChildSendFailure(p) \/ ChildRead(p) \/ ChildSendData(p)
             \/ ChildSendEnd(p)
      PROVE  /\ Busy(p) /\ c \in Clients /\ InStep(p, c) /\ Counted(c)
             /\ \A i \in DOMAIN q[c] : Expected(c, i)
             /\ Size[path[c]] \in Nat /\ off[p] \in Nat /\ num[c] \in Nat
             /\ num[c] + Len(q[c]) \in Nat
             /\ q[c] \in Seq(Messages) /\ creq[p].pathname = path[c]
             /\ UNCHANGED <<reqQ, spc, sreq, creq, clientVars>>
  <2>1. Busy(p)
    BY <1>2 DEF Busy, Running, ChildOpen, ChildSendFailure, ChildRead, ChildSendData, ChildSendEnd
  <2>2. c \in Clients
    BY <2>1 DEF Busy, Running, TypeOK, RequestsKnown, Requests
  <2>3. UNCHANGED <<reqQ, spc, sreq, creq, clientVars>>
    BY <1>2 DEF ChildOpen, ChildSendFailure, ChildRead, ChildSendData, ChildSendEnd, serverVars
  <2> QED
    BY <2>1, <2>2, <2>3, SizeType DEF StreamInv, ChildrenInStep, InStep, ResponsesExpected,
       TypeOK, ChildType, ClientType, QueueType
<1>3. CASE ChildOpen(p) \/ ChildRead(p)
  <2> USE <1>2, <1>3
  <2>1. UNCHANGED <<mqVars, off, clientVars>> /\ UNCHANGED StreamOf(c) /\ kpc' = kpc
    BY DEF ChildOpen, ChildRead, mqVars, clientVars, StreamOf
  <2>2. Counted(c)' /\ (\A i \in DOMAIN q[c] : Expected(c, i))'
    BY <2>1, SameClient DEF clientVars
  <2>3. \A r \in Pids \ {p} : cpc'[r] = cpc[r] /\ len'[r] = len[r]
    BY DEF ChildOpen, ChildRead, Goto, TypeOK, ChildType
  <2>4. InStep(p, c)'
    <3>1. CASE ChildOpen(p)
      BY <3>1, <2>1 DEF ChildOpen, Goto, InStep, Reached, TypeOK, ChildType, mqVars, clientVars
    <3>2. CASE ChildRead(p)
      <4> DEFINE left == Size[path[c]] - off[p]
      <4>1. off[p] <= Size[path[c]]
        BY UpToSteps DEF InStep, Reached
      <4>2. \/ left > 0 /\ len'[p] = Min2(left, RespMsgSize) /\ cpc'[p] = "send"
            \/ (left <= 0 \/ "read" \in Faults) /\ cpc'[p] = "end"
        BY <3>2 DEF ChildRead, Goto, TypeOK, ChildType
      <4> QED
        BY <3>2, <2>1, <4>1, <4>2 DEF ChildRead, InStep, Reached, mqVars, clientVars
    <3> QED
      BY <3>1, <3>2
  <2> QED
    BY <2>1, <2>2, <2>3, <2>4, ChildFrame DEF mqVars
<1>4. CASE ChildSendFailure(p) \/ ChildSendEnd(p)
  <2> USE <1>2, <1>4
  <2>1. /\ open' = open /\ \A d \in Clients \ {c} : q'[d] = q[d]
        /\ (\A i \in DOMAIN q[c] : Expected(c, i))'
    <3>1. CASE ChildSendFailure(p)
      <4>1. FailLen \in Nat /\ MsgSnd(p, "FAILURE", FailLen) /\ cpc[p] = "fail"
        BY <3>1, MQAssumption DEF ChildSendFailure
      <4> QED
        BY <4>1, SentIsExpected DEF TypeOK, QueueType
    <3>2. CASE ChildSendEnd(p)
      BY <3>2, SentIsExpected DEF ChildSendEnd, TypeOK, QueueType
    <3> QED
      BY <3>1, <3>2
  <2>2. /\ cpc'[p] = "exit" /\ UNCHANGED <<off, len>>
        /\ \A r \in Pids \ {p} : cpc'[r] = cpc[r]
    BY DEF ChildSendFailure, ChildSendEnd, Goto, TypeOK, ChildType
  <2>3. ~Busy(p)'
    BY <2>2 DEF Busy
  <2> QED
    BY <2>1, <2>2, <2>3, ChildFrame
<1>5. CASE ChildSendData(p)
  <2> USE <1>2, <1>5
  <2> DEFINE m == [mtype |-> "DATA", of |-> creq[p].pathname, pos |-> off[p], n |-> len[p]]
  <2>1. /\ open' = open /\ q' = [q EXCEPT ![c] = Append(q[c], m)]
        /\ (\A i \in DOMAIN q[c] : Expected(c, i))'
    BY SentIsExpected DEF ChildSendData, TypeOK, ChildType
  <2>2. /\ cpc'[p] = "read" /\ off'[p] = off[p] + len[p] /\ len' = len
        /\ \A r \in Pids \ {p} : cpc'[r] = cpc[r] /\ off'[r] = off[r]
    BY DEF ChildSendData, Goto, TypeOK, ChildType, InStep
  <2>3. InStep(p, c)'
    <3>1. /\ Len(q'[c]) = Len(q[c]) + 1 /\ Len(q[c]) \in Nat
          /\ \A i \in DOMAIN q'[c] : q'[c][i].mtype = "DATA"
      BY <2>1 DEF InStep, TypeOK, QueueType
    <3>2. off'[p] = Reached(c, num[c] + Len(q[c]) + 1)
      BY <2>2, UpToSteps DEF ChildSendData, InStep, Reached
    <3>3. num[c] + Len(q[c]) + 1 = num[c] + Len(q'[c])
      BY <3>1
    <3> HIDE DEF m
    <3> QED
      BY <2>1, <2>2, <3>1, <3>2, <3>3 DEF ChildSendData, InStep, Reached, clientVars
  <2>4. \A d \in Clients \ {c} : q'[d] = q[d]
    BY <2>1 DEF TypeOK, QueueType
  <2> QED
    BY <2>1, <2>2, <2>3, <2>4, ChildFrame
<1> QED
  BY <1>1, <1>3, <1>4, <1>5 DEF ServeRequest

\* A step of client c, seen from the other clients.
LEMMA ClientFrame ==
  ASSUME TypeOK, StreamInv, NEW c \in Clients,
         UNCHANGED <<reqQ, spc, sreq, cpc, creq, off, len, path>>,
         \A d \in Clients \ {c} :
            UNCHANGED StreamOf(d) /\ kpc'[d] = kpc[d] /\ outcome'[d] = outcome[d],
         Counted(c)', (\A i \in DOMAIN q[c] : Expected(c, i))',
         \A i \in DOMAIN reqQ : reqQ[i].clientId = c => Fresh(reqQ[i])',
         \A s \in Servers : spc[s] = "fork" /\ sreq[s].clientId = c => Fresh(sreq[s])',
         \A p \in Pids : Busy(p) /\ creq[p].clientId = c => InStep(p, creq[p].clientId)'
  PROVE  StreamInv'
<1>1. RequestsFresh'
  <2>1. ASSUME NEW i \in DOMAIN reqQ PROVE Fresh(reqQ[i])'
    <3>1. reqQ[i] \in Requests
      BY DEF TypeOK, ServerType
    <3>2. reqQ[i].clientId \in Clients
      BY <3>1 DEF Requests
    <3> QED
      BY <3>2 DEF StreamInv, RequestsFresh, Fresh, StreamOf
  <2>2. ASSUME NEW s \in Servers, spc[s] = "fork" PROVE Fresh(sreq[s])'
    <3>1. sreq[s].clientId \in Clients
      BY <2>2 DEF TypeOK, RequestsKnown, Requests
    <3> QED
      BY <2>2, <3>1 DEF StreamInv, RequestsFresh, Fresh, StreamOf
  <2> QED
    BY <2>1, <2>2 DEF RequestsFresh
<1>2. OneHolder'
  BY DEF StreamInv, OneHolder, Busy, Running
<1>3. ASSUME NEW p \in Pids, Busy(p)' PROVE InStep(p, creq[p].clientId)'
  <2>1. Busy(p) /\ creq[p].clientId \in Clients
    BY <1>3 DEF Busy, Running, TypeOK, RequestsKnown, Requests
  <2> QED
    BY <2>1, SameChild DEF StreamInv, ChildrenInStep
<1>4. ASSUME NEW d \in Clients, d # c
      PROVE  Counted(d)' /\ (\A i \in DOMAIN q[d] : Expected(d, i))'
  BY <1>4, SameClient DEF StreamInv, ResponsesExpected
<1> QED
  BY <1>1, <1>2, <1>3, <1>4 DEF StreamInv, ResponsesExpected, ChildrenInStep

\* A client that has no answer waiting, and to whom nobody is about to answer.
NoneOwed(c) ==
    /\ \A i \in DOMAIN reqQ : reqQ[i].clientId # c
    /\ \A s \in Servers : spc[s] = "fork" => sreq[s].clientId # c
    /\ \A p \in Pids : Busy(p) => creq[p].clientId # c

LEMMA NoneOwedUnlessWaiting ==
  ASSUME TypeOK, StreamInv, NEW c \in Clients
  PROVE  /\ kpc[c] \notin {"first", "more", "killed"} => NoneOwed(c) /\ q[c] = <<>>
         /\ (\E i \in DOMAIN q[c] : q[c][i].mtype # "DATA") => NoneOwed(c)
         /\ q[c] # <<>> => /\ \A i \in DOMAIN reqQ : reqQ[i].clientId # c
                           /\ \A s \in Servers : spc[s] = "fork" => sreq[s].clientId # c
<1>1. q[c] \in Seq(Messages)
  BY DEF TypeOK, QueueType
<1>2. kpc[c] \notin {"first", "more", "killed"} => NoneOwed(c)
  BY DEF StreamInv, RequestsFresh, ChildrenInStep, Fresh, InStep, NoneOwed
<1>3. kpc[c] \notin {"first", "more", "killed"} => q[c] = <<>>
  BY <1>1 DEF StreamInv, ResponsesExpected, Expected
<1>4. (\E i \in DOMAIN q[c] : q[c][i].mtype # "DATA") => NoneOwed(c)
  <2> SUFFICES ASSUME NEW i \in DOMAIN q[c], q[c][i].mtype # "DATA" PROVE NoneOwed(c)
    OBVIOUS
  <2>1. q[c] # <<>>
    OBVIOUS
  <2> QED
    BY <2>1 DEF StreamInv, RequestsFresh, ChildrenInStep, Fresh, InStep, NoneOwed
<1> QED
  BY <1>2, <1>3, <1>4 DEF StreamInv, RequestsFresh, Fresh

\* The first response that waits, and what is left when it is taken.
LEMMA Dequeued ==
  ASSUME TypeOK, StreamInv, NEW c \in Clients, Dequeue(c)
  PROVE  /\ Head(q[c]) = q[c][1] /\ q[c][1] \in Messages /\ Expected(c, 1)
         /\ num[c] \in Nat /\ tot[c] \in Nat /\ Size[path[c]] \in Nat
         /\ \A d \in Clients \ {c} : q'[d] = q[d]
         /\ open' = open
         /\ Len(q[c]) \in Nat /\ Len(q'[c]) = Len(q[c]) - 1 /\ q'[c] \in Seq(Messages)
         /\ \A i \in DOMAIN q'[c] : /\ i \in Nat \ {0} /\ i + 1 \in DOMAIN q[c]
                                    /\ q'[c][i] = q[c][i + 1] /\ Expected(c, i + 1)
         /\ q[c][1].mtype # "DATA" => q'[c] = <<>> /\ NoneOwed(c)
         /\ \A i \in DOMAIN reqQ : reqQ[i].clientId # c
         /\ \A s \in Servers : spc[s] = "fork" => sreq[s].clientId # c
<1>1. q[c] \in Seq(Messages) /\ q[c] # <<>> /\ q' = [q EXCEPT ![c] = Tail(q[c])] /\ open' = open
  BY DEF Dequeue, TypeOK, QueueType
<1>2. /\ Head(q[c]) = q[c][1] /\ q[c][1] \in Messages /\ 1 \in DOMAIN q[c]
      /\ q'[c] = Tail(q[c]) /\ Len(q[c]) \in Nat /\ Len(q'[c]) = Len(q[c]) - 1
      /\ \A d \in Clients \ {c} : q'[d] = q[d]
  BY <1>1 DEF TypeOK, QueueType
<1>3. \A i \in DOMAIN q'[c] : i \in Nat \ {0} /\ i + 1 \in DOMAIN q[c] /\ q'[c][i] = q[c][i + 1]
  BY <1>1, <1>2
<1>4. \A i \in DOMAIN q[c] : Expected(c, i)
  BY DEF StreamInv, ResponsesExpected
<1>5. q[c][1].mtype # "DATA" => q'[c] = <<>>
  BY <1>1, <1>2, <1>4 DEF Expected
<1> QED
  BY <1>1, <1>2, <1>3, <1>4, <1>5, NoneOwedUnlessWaiting, SizeType DEF TypeOK, ClientType

\* Taking a data message keeps the client in step with what is left and with
\* the child that serves it.
LEMMA DataTaken ==
  ASSUME TypeOK, StreamInv, NEW c \in Clients, Dequeue(c),
         kpc[c] \in {"first", "more"}, q[c][1].mtype = "DATA",
         UNCHANGED <<reqQ, spc, sreq, cpc, creq, off, len, path, sidC, outcome>>,
         kpc' = [kpc EXCEPT ![c] = "more"],
         tot' = [tot EXCEPT ![c] = tot[c] + q[c][1].n],
         num' = [num EXCEPT ![c] = num[c] + 1]
  PROVE  StreamInv'
<1>0. \A d \in Clients \ {c} : UNCHANGED StreamOf(d) /\ kpc'[d] = kpc[d]
  BY Dequeued DEF TypeOK, ClientType, StreamOf
<1>1. tot'[c] = tot[c] + q[c][1].n /\ num'[c] = num[c] + 1 /\ kpc'[c] = "more"
  BY DEF TypeOK, ClientType
<1>2. /\ path[c] \in Openable /\ sidC[c] # None
      /\ tot[c] = UpTo(num[c], Size[path[c]]) /\ tot[c] < Size[path[c]]
      /\ q[c][1].n = Min2(Size[path[c]] - tot[c], RespMsgSize)
  BY Dequeued DEF Expected, Reached
<1>3. tot'[c] = UpTo(num'[c], Size[path[c]])
  <2>1. num[c] \in Nat /\ Size[path[c]] \in Nat
    BY Dequeued
  <2>2. UpTo(num[c], Size[path[c]]) < Size[path[c]] =>
          UpTo(num[c] + 1, Size[path[c]]) =
             UpTo(num[c], Size[path[c]]) + Min2(Size[path[c]] - UpTo(num[c], Size[path[c]]), RespMsgSize)
    BY <2>1, UpToSteps
  <2> QED
    BY <1>1, <1>2, <2>2
<1>4. Counted(c)'
  BY <1>1, <1>2, <1>3, Dequeued DEF StreamInv, Counted, HasLast, Reached
<1>5. (\A i \in DOMAIN q[c] : Expected(c, i))'
  <2> SUFFICES ASSUME NEW i \in DOMAIN q'[c] PROVE Expected(c, i)'
    OBVIOUS
  <2>1. /\ i \in Nat \ {0} /\ q'[c][i] = q[c][i + 1] /\ Expected(c, i + 1)
        /\ num[c] \in Nat /\ num[c] + (i + 1) - 1 = num'[c] + i - 1
        /\ i + 1 = Len(q[c]) => i = Len(q'[c])
    <3>1. /\ i \in Nat \ {0} /\ q'[c][i] = q[c][i + 1] /\ Expected(c, i + 1)
          /\ num[c] \in Nat /\ Len(q[c]) \in Nat /\ Len(q'[c]) = Len(q[c]) - 1
      BY Dequeued
    <3>2. num[c] + (i + 1) - 1 = num'[c] + i - 1
      BY <1>1, <3>1
    <3> QED
      BY <3>1, <3>2
  <2>2. num[c] + 1 # 0 /\ i + 1 # 1
    BY <2>1
  <2> QED
    BY <1>1, <1>3, <2>1, <2>2 DEF Expected, Reached
<1>6. ASSUME NEW p \in Pids, Busy(p), creq[p].clientId = c
      PROVE  InStep(p, creq[p].clientId)'
  <2>1. InStep(p, c)
    BY <1>6 DEF StreamInv, ChildrenInStep
  <2>2. num[c] + Len(q[c]) = num'[c] + Len(q'[c]) /\ \A i \in DOMAIN q'[c] : q'[c][i].mtype = "DATA"
    <3>1. /\ \A i \in DOMAIN q'[c] : i + 1 \in DOMAIN q[c] /\ q'[c][i] = q[c][i + 1]
          /\ num[c] \in Nat /\ Len(q[c]) \in Nat /\ Len(q'[c]) = Len(q[c]) - 1
      BY Dequeued
    <3>2. num[c] + Len(q[c]) = num'[c] + Len(q'[c])
      <4>1. ASSUME NEW a \in Nat, NEW b \in Nat PROVE a + b = (a + 1) + (b - 1)
        OBVIOUS
      <4> QED
        BY <1>1, <3>1, <4>1
    <3> QED
      BY <2>1, <3>1, <3>2 DEF InStep
  <2>3. cpc[p] \notin {"open", "fail"} /\ open' = open
    BY <2>1, Dequeued DEF InStep, Dequeue
  <2> QED
    BY <1>1, <1>3, <1>6, <2>1, <2>2, <2>3 DEF InStep, Reached
<1> QED
  BY <1>0, <1>4, <1>5, <1>6, Dequeued, ClientFrame

\* Taking the last message leaves nothing behind.
LEMMA LastTaken ==
  ASSUME TypeOK, StreamInv, NEW c \in Clients, Dequeue(c),
         kpc[c] \in {"first", "more"}, q[c][1].mtype # "DATA",
         UNCHANGED <<reqQ, spc, sreq, cpc, creq, off, len, path, sidC>>,
         \A d \in Clients \ {c} : /\ kpc'[d] = kpc[d] /\ outcome'[d] = outcome[d]
                                  /\ tot'[d] = tot[d] /\ num'[d] = num[d],
         \/ /\ q[c][1].mtype = "FAILURE"
            /\ kpc'[c] = "rmid" /\ outcome'[c] = "failure"
         \/ /\ q[c][1].mtype = "END" /\ kpc'[c] = "print" /\ outcome'[c] = outcome[c]
            /\ tot'[c] = tot[c] + q[c][1].n /\ num'[c] = num[c] + 1
  PROVE  StreamInv'
<1>1. q'[c] = <<>> /\ NoneOwed(c) /\ \A d \in Clients \ {c} : UNCHANGED StreamOf(d)
  BY Dequeued DEF StreamOf
<1>2. Counted(c)'
  <2>1. Counted(c) /\ outcome[c] = "none"
    BY DEF StreamInv, Counted
  <2>2. CASE q[c][1].mtype = "FAILURE"
    BY <2>2, <1>1 DEF Counted
  <2>3. CASE q[c][1].mtype = "END"
    <3>1. /\ path[c] \in Openable /\ sidC[c] # None
          /\ tot[c] = UpTo(num[c], Size[path[c]])
          /\ q[c][1].n = 0 /\ num[c] \in Nat /\ tot[c] \in Nat
          /\ "read" \in Faults \/ tot[c] = Size[path[c]]
      BY <2>3, Dequeued DEF Expected, Reached
    <3>2. tot'[c] = tot[c] /\ num'[c] = num[c] + 1 /\ num'[c] - 1 = num[c] /\ num'[c] >= 1
      BY <2>3, <3>1
    <3>3. num'[c] - 2 = num[c] - 1
      BY <3>1, <3>2
    <3>4. num'[c] = 1 \/ UpTo(num'[c] - 2, Size[path[c]]) < Size[path[c]]
      BY <2>1, <3>1, <3>2, <3>3 DEF Counted, Reached
    <3> QED
      BY <1>1, <2>1, <2>3, <3>1, <3>2, <3>4 DEF Counted, HasLast, Reached
  <2> QED
    BY <2>2, <2>3
<1> QED
  BY <1>1, <1>2, ClientFrame DEF NoneOwed

LEMMA ClientStreamInv ==
  ASSUME TypeOK, StreamInv, NEW c \in Clients, ClientMain(c) \/ ClientKilled(c)
  PROVE  StreamInv'
<1>1. Counted(c) /\ \A i \in DOMAIN q[c] : Expected(c, i)
  BY DEF StreamInv, ResponsesExpected
<1>2. CASE ClientStart(c) \/ ClientPrint(c) \/ ClientRemove(c) \/ ClientExit(c)
  <2>1. kpc[c] \in {"off", "print", "rmid", "exit"} /\ NoneOwed(c) /\ q[c] = <<>>
    BY <1>2, NoneOwedUnlessWaiting DEF ClientStart, ClientPrint, ClientRemove, ClientExit
  <2>2. UNCHANGED <<reqQ, spc, sreq, cpc, creq, off, len, path, tot, num>>
    BY <1>2 DEF ClientStart, ClientPrint, ClientRemove, ClientExit, serverVars, childVars, RemoveQueue
  <2>3. \A d \in Clients \ {c} :
            UNCHANGED StreamOf(d) /\ kpc'[d] = kpc[d] /\ outcome'[d] = outcome[d]
    BY <1>2 DEF ClientStart, ClientPrint, ClientRemove, ClientExit, RemoveQueue, mqVars,
       StreamOf, TypeOK, ClientType, QueueType
  <2>4. q'[c] = <<>>
    BY <1>2, <2>1 DEF ClientStart, ClientPrint, ClientRemove, ClientExit, RemoveQueue, mqVars,
       TypeOK, QueueType
  <2>5. Counted(c)'
    BY <1>1, <1>2, <2>2, <2>4 DEF ClientStart, ClientPrint, ClientRemove, ClientExit, RemoveQueue,
       mqVars, Counted, HasLast, Reached, TypeOK, ClientType, QueueType
  <2> QED
    BY <2>1, <2>2, <2>3, <2>4, <2>5, ClientFrame DEF NoneOwed
<1>3. CASE ClientKilled(c)
  <2>1. /\ UNCHANGED <<reqQ, spc, sreq, cpc, creq, off, len, path, outcome>>
        /\ kpc' = [kpc EXCEPT ![c] = "killed"] /\ \A d \in Clients : UNCHANGED StreamOf(d)
    BY <1>3 DEF ClientKilled, serverVars, childVars, mqVars, StreamOf
  <2>2. kpc'[c] = "killed" /\ \A d \in Clients \ {c} : kpc'[d] = kpc[d]
    BY <2>1 DEF TypeOK, ClientType
  <2>3. Counted(c)' /\ (\A i \in DOMAIN q[c] : Expected(c, i))'
    BY <1>1, <2>1, <2>2, SameClient
  <2>4. \A p \in Pids : Busy(p) /\ creq[p].clientId = c => InStep(p, creq[p].clientId)'
    BY <2>1, <2>2, SameChild DEF StreamInv, ChildrenInStep
  <2> QED
    BY <2>1, <2>2, <2>3, <2>4, ClientFrame DEF StreamInv, RequestsFresh, Fresh, StreamOf
<1>4. CASE ClientSend(c)
  <2>1. NoneOwed(c) /\ q[c] = <<>> /\ kpc[c] = "send" /\ num[c] = 0 /\ tot[c] = 0 /\ open[c]
    BY <1>1, <1>4, NoneOwedUnlessWaiting DEF ClientSend, Counted
  <2> DEFINE r == [clientId |-> c, pathname |-> path[c]]
  <2>2. /\ UNCHANGED <<spc, sreq, cpc, creq, off, len, path, outcome, tot, num, sidC, mqVars>>
        /\ kpc' = [kpc EXCEPT ![c] = "first"]
        /\ \A d \in Clients : UNCHANGED StreamOf(d)
    BY <1>4 DEF ClientSend, serverVars, childVars, mqVars, StreamOf
  <2>3. kpc'[c] = "first" /\ \A d \in Clients \ {c} : kpc'[d] = kpc[d]
    BY <2>2 DEF TypeOK, ClientType
  <2>4. reqQ \in Seq(Requests)
    BY DEF TypeOK, ServerType
  <2>5. \/ sidC[c] # None /\ reqQ' = Append(reqQ, r)
        \/ reqQ' = reqQ
    BY <1>4 DEF ClientSend
  <2>6. \A i \in DOMAIN reqQ' :
          \/ i \in DOMAIN reqQ /\ reqQ'[i] = reqQ[i] /\ reqQ[i].clientId \in Clients \ {c}
          \/ i = Len(reqQ) + 1 /\ reqQ'[i] = r /\ sidC[c] # None
    <3>1. \A i \in DOMAIN reqQ : reqQ[i] \in Requests
      BY <2>4
    <3>2. \A i \in DOMAIN reqQ : reqQ[i].clientId \in Clients \ {c}
      BY <2>1, <3>1 DEF NoneOwed, Requests
    <3> HIDE DEF r
    <3> QED
      BY <2>4, <2>5, <3>2
  <2>7. RequestsFresh'
    <3>1. ASSUME NEW i \in DOMAIN reqQ' PROVE Fresh(reqQ[i])'
      BY <2>1, <2>2, <2>3, <2>6 DEF StreamInv, RequestsFresh, Fresh, mqVars
    <3>2. ASSUME NEW s \in Servers, spc[s] = "fork" PROVE Fresh(sreq[s])'
      <4>1. sreq[s].clientId \in Clients \ {c}
        BY <2>1, <3>2 DEF NoneOwed, TypeOK, RequestsKnown, Requests
      <4> QED
        BY <2>2, <2>3, <3>2, <4>1 DEF StreamInv, RequestsFresh, Fresh, mqVars
    <3> QED
      BY <2>2, <3>1, <3>2 DEF RequestsFresh
  <2>8. OneHolder'
    <3>1. \A p \in Pids : Busy(p)' <=> Busy(p)
      BY <2>2 DEF Busy, Running
    <3>2. \A i, j \in DOMAIN reqQ' : reqQ'[i].clientId = reqQ'[j].clientId => i = j
      BY <2>6 DEF StreamInv, OneHolder
    <3> QED
      BY <2>1, <2>2, <2>6, <3>1, <3>2 DEF StreamInv, OneHolder, NoneOwed
  <2>9. ChildrenInStep'
    <3> SUFFICES ASSUME NEW p \in Pids, Busy(p)' PROVE InStep(p, creq[p].clientId)'
      BY DEF ChildrenInStep
    <3>1. Busy(p) /\ creq[p].clientId \in Clients \ {c}
      BY <2>1, <2>2 DEF Busy, Running, NoneOwed, TypeOK, RequestsKnown, Requests
    <3> QED
      BY <2>2, <2>3, <3>1, SameChild DEF StreamInv, ChildrenInStep
  <2>10. ASSUME NEW d \in Clients, d # c
        PROVE  Counted(d)' /\ (\A i \in DOMAIN q[d] : Expected(d, i))'
    BY <2>2, <2>3, <2>10, SameClient DEF StreamInv, ResponsesExpected
  <2>11. Counted(c)' /\ (\A i \in DOMAIN q[c] : Expected(c, i))'
    <3>1. q'[c] = <<>>
      BY <2>1, <2>2 DEF mqVars
    <3> QED
      BY <1>1, <2>1, <2>2, <2>3, <3>1 DEF Counted, HasLast, Reached, mqVars
  <2> QED
    BY <2>7, <2>8, <2>9, <2>10, <2>11 DEF StreamInv, ResponsesExpected
<1>5. CASE ClientFirst(c) \/ ClientMore(c)
  <2>1. /\ Dequeue(c) /\ kpc[c] \in {"first", "more"} /\ q[c][1] = Head(q[c])
        /\ q[c][1] \in Messages
        /\ UNCHANGED <<reqQ, spc, sreq, cpc, creq, off, len, path, sidC>>
    BY <1>5, Dequeued DEF ClientFirst, ClientMore, serverVars, childVars
  <2>2. /\ kpc[c] = "first" => num[c] = 0 /\ tot[c] = 0
        /\ num[c] \in Nat /\ tot[c] \in Nat /\ q[c][1].n \in Nat
        /\ q[c][1].mtype \in {"FAILURE", "DATA", "END"}
        /\ kpc[c] = "more" => q[c][1].mtype # "FAILURE"
    BY <1>1, <2>1, Dequeued DEF Counted, Expected, Messages
  <2>3. CASE kpc[c] = "first" /\ q[c][1].mtype = "FAILURE"
    BY <1>5, <2>1, <2>3, LastTaken DEF ClientFirst, ClientMore, TypeOK, ClientType
  <2>4. CASE q[c][1].mtype # "FAILURE"
    <3>1. /\ kpc' = [kpc EXCEPT ![c] = IF q[c][1].mtype = "DATA" THEN "more" ELSE "print"]
          /\ tot' = [tot EXCEPT ![c] = tot[c] + q[c][1].n]
          /\ num' = [num EXCEPT ![c] = num[c] + 1]
          /\ outcome' = outcome
      <4>1. CASE ClientFirst(c)
        <5>1. num[c] + 1 = 1 /\ tot[c] + q[c][1].n = q[c][1].n
          BY <2>2, <4>1 DEF ClientFirst
        <5> QED
          BY <2>1, <2>4, <4>1, <5>1 DEF ClientFirst
      <4>2. CASE ClientMore(c)
        BY <2>1, <2>4, <4>2 DEF ClientMore
      <4> QED
        BY <1>5, <4>1, <4>2
    <3>2. CASE q[c][1].mtype = "DATA"
      BY <2>1, <3>1, <3>2, DataTaken
    <3>3. CASE q[c][1].mtype = "END"
      BY <2>1, <3>1, <3>3, LastTaken DEF TypeOK, ClientType
    <3> QED
      BY <2>2, <2>4, <3>2, <3>3
  <2> QED
    BY <2>1, <2>2, <2>3, <2>4
<1> QED
  BY <1>2, <1>3, <1>4, <1>5 DEF ClientMain

LEMMA StreamInvInductive == TypeOK /\ StreamInv /\ [Next]_vars => StreamInv'
<1> SUFFICES ASSUME TypeOK, StreamInv, [Next]_vars PROVE StreamInv'
  OBVIOUS
<1>1. CASE UNCHANGED vars
  BY <1>1, FewerHolders DEF vars, serverVars, childVars
<1>2. CASE Next
  BY <1>2, ServerStreamInv, ChildStreamInv, ClientStreamInv DEF Next
<1> QED
  BY <1>1, <1>2

LEMMA StreamInvariant == Spec => []StreamInv
<1> QED
  BY InitStreamInv, StreamInvInductive, TypeCorrect, PTL DEF Spec

\* Through every interleaving, kill, failed fork() and interrupted msgrcv a
\* request is in one place at a time, so that a client is answered at most once.
THEOREM RequestInOnePlace == Spec => []AtMostOneAnswer
<1>1. StreamInv => AtMostOneAnswer
  <2> SUFFICES ASSUME StreamInv, NEW c \in Clients, NEW h1 \in Holders(c), NEW h2 \in Holders(c)
               PROVE  h1 = h2
    BY DEF AtMostOneAnswer
  <2> QED
    BY DEF StreamInv, OneHolder, Holders
<1> QED
  BY <1>1, StreamInvariant, PTL

\* How many messages of RespMsgSize bytes a file takes.
LEMMA MessagesOfFile ==
  ASSUME NEW k \in Nat, k >= 1, NEW size \in Nat,
         UpTo(k - 1, size) = size, k = 1 \/ UpTo(k - 2, size) < size
  PROVE  k = (size + RespMsgSize - 1) \div RespMsgSize + 1
<1>1. RespMsgSize \in Nat \ {0}
  BY MQAssumption
<1> DEFINE d == k - 1
           a == size + RespMsgSize - 1
<1>2. d \in Nat /\ d * RespMsgSize \in Nat /\ a \in Nat
  BY <1>1
<1>3. size <= d * RespMsgSize
  BY <1>1, <1>2 DEF UpTo, Min2
<1>4. d * RespMsgSize <= a
  <2>1. CASE k = 1
    BY <1>1, <2>1
  <2>2. CASE k # 1
    <3>1. (k - 2) * RespMsgSize = d * RespMsgSize - RespMsgSize
      BY <1>1
    <3>2. (k - 2) * RespMsgSize < size
      BY <1>1, <1>2, <3>1, <2>2 DEF UpTo, Min2
    <3> QED
      BY <1>1, <1>2, <3>1, <3>2
  <2> QED
    BY <2>1, <2>2
<1>5. a < (d + 1) * RespMsgSize
  BY <1>1, <1>2, <1>3
<1>6. a \div RespMsgSize = d
  <2> HIDE DEF a, d
  <2>1. ASSUME NEW e \in Nat, e * RespMsgSize <= a, a < (e + 1) * RespMsgSize
        PROVE  a \div RespMsgSize = e
    BY <1>1, <1>2, <2>1
  <2> QED
    BY <1>2, <1>4, <1>5, <2>1
<1> QED
  BY <1>6

\* As long as read() does not fail, what waits for a client continues what it
\* has, and what it is told is complete is the whole file in the right number
\* of messages.
THEOREM StreamsStayIntact ==
  ASSUME "read" \notin Faults PROVE Spec => []StreamIntact
<1>1. TypeOK /\ StreamInv => StreamIntact
  <2> SUFFICES ASSUME TypeOK, StreamInv, NEW c \in Clients
               PROVE  /\ ReceivedWholeFile(c)
                      /\ \A i \in DOMAIN q[c] :
                          /\ q[c][i].of = path[c]
                          /\ q[c][i].pos = IF i = 1 THEN tot[c] ELSE q[c][i-1].pos + q[c][i-1].n
                          /\ q[c][i].mtype # "DATA" => i = Len(q[c])
                      /\ \A p \in Pids :
                          Busy(p) /\ creq[p].clientId = c /\ open[c] =>
                              /\ off[p] = Written(c)
                              /\ \A i \in DOMAIN q[c] : q[c][i].mtype = "DATA"
    BY DEF StreamIntact
  <2>1. /\ num[c] \in Nat /\ tot[c] \in Nat /\ Size[path[c]] \in Nat /\ q[c] \in Seq(Messages)
        /\ Counted(c) /\ \A i \in DOMAIN q[c] : Expected(c, i)
    BY SizeType DEF StreamInv, ResponsesExpected, TypeOK, ClientType, QueueType
  <2>2. ReceivedWholeFile(c)
    BY <2>1, MessagesOfFile DEF ReceivedWholeFile, Counted, HasLast, Reached
  <2>3. ASSUME NEW i \in DOMAIN q[c], q[c][i].mtype = "DATA"
        PROVE  UpTo(num[c] + i, Size[path[c]]) = q[c][i].pos + q[c][i].n
    <3>1. i \in Nat \ {0}
      BY <2>1
    <3>2. PICK k \in Nat : k = num[c] + i - 1 /\ k + 1 = num[c] + i
      BY <2>1, <3>1
    <3>3. /\ q[c][i].pos = UpTo(k, Size[path[c]])
          /\ q[c][i].pos < Size[path[c]]
          /\ q[c][i].n = Min2(Size[path[c]] - q[c][i].pos, RespMsgSize)
      BY <2>1, <2>3, <3>2 DEF Expected, Reached
    <3>4. UpTo(k + 1, Size[path[c]]) = UpTo(k, Size[path[c]])
                                        + Min2(Size[path[c]] - UpTo(k, Size[path[c]]), RespMsgSize)
      BY <2>1, <3>3, UpToSteps
    <3> QED
      BY <3>2, <3>3, <3>4
  <2>4. ASSUME NEW i \in DOMAIN q[c]
        PROVE  q[c][i].pos = IF i = 1 THEN tot[c] ELSE q[c][i-1].pos + q[c][i-1].n
    <3>1. /\ i \in Nat \ {0} /\ i <= Len(q[c]) /\ Len(q[c]) \in Nat
          /\ q[c][i].pos = UpTo(num[c] + i - 1, Size[path[c]])
          /\ tot[c] = UpTo(num[c], Size[path[c]])
      BY <2>1 DEF Expected, Reached
    <3>2. CASE i = 1
      BY <2>1, <3>1, <3>2
    <3>3. CASE i # 1
      <4>1. i - 1 \in DOMAIN q[c] /\ i - 1 # Len(q[c]) /\ num[c] + (i - 1) = num[c] + i - 1
        BY <2>1, <3>1, <3>3
      <4>2. q[c][i-1].mtype = "DATA"
        BY <2>1, <4>1 DEF Expected
      <4> QED
        BY <2>3, <3>1, <3>3, <4>1, <4>2
    <3> QED
      BY <3>2, <3>3
  <2>5. ASSUME NEW p \in Pids, Busy(p), creq[p].clientId = c
        PROVE  off[p] = Written(c) /\ \A i \in DOMAIN q[c] : q[c][i].mtype = "DATA"
    <3>1. /\ \A i \in DOMAIN q[c] : q[c][i].mtype = "DATA"
          /\ tot[c] = UpTo(num[c], Size[path[c]])
          /\ off[p] = UpTo(num[c] + Len(q[c]), Size[path[c]])
      BY <2>5 DEF StreamInv, ChildrenInStep, InStep, Reached
    <3>2. CASE q[c] = <<>>
      BY <2>1, <3>1, <3>2 DEF Written
    <3>3. CASE q[c] # <<>>
      <4>1. Len(q[c]) \in DOMAIN q[c]
        BY <2>1, <3>3
      <4> QED
        BY <2>3, <3>1, <3>3, <4>1 DEF Written
    <3> QED
      BY <3>1, <3>2, <3>3
  <2> QED
    BY <2>1, <2>2, <2>4, <2>5 DEF Expected
<1> QED
  BY <1>1, TypeCorrect, StreamInvariant, PTL

-----------------------------------------------------------------------------
(* The service.                                                              *)

\* A step of client c that leaves it in phase ph.
LEMMA PhaseStep ==
  ASSUME NEW c \in Clients, NEW ph, PhaseOf(c)' = ph,
         \A d \in Clients \ {c} :
            kpc'[d] = kpc[d] /\ outcome'[d] = outcome[d] /\ sidC'[d] = sidC[d]
  PROVE  [d \in Clients |-> PhaseOf(d)]' = [[d \in Clients |-> PhaseOf(d)] EXCEPT ![c] = ph]
<1>1. \A d \in Clients \ {c} : PhaseOf(d)' = PhaseOf(d)
  BY DEF PhaseOf
<1> QED
  BY <1>1

LEMMA ClientServiceStep ==
  ASSUME "read" \notin Faults, TypeOK, StreamInv, NEW c \in Clients,
         ClientMain(c) \/ ClientKilled(c)
  PROVE  [Service!SNext]_(Service!svars)
<1> DEFINE phase == [d \in Clients |-> PhaseOf(d)]
<1>1. /\ Counted(c) /\ num[c] \in Nat /\ tot[c] \in Nat /\ Size[path[c]] \in Nat
      /\ \A i \in DOMAIN q[c] : Expected(c, i)
  BY SizeType DEF StreamInv, ResponsesExpected, TypeOK, ClientType
<1>2. /\ path' = path
      /\ \A d \in Clients \ {c} :
            kpc'[d] = kpc[d] /\ outcome'[d] = outcome[d] /\ sidC'[d] = sidC[d]
  BY DEF ClientMain, ClientStart, ClientSend, ClientFirst, ClientMore,
     ClientPrint, ClientRemove, ClientExit, ClientKilled, TypeOK, ClientType
<1>3. ASSUME NEW ph, PhaseOf(c)' = ph PROVE phase' = [phase EXCEPT ![c] = ph]
  BY <1>2, <1>3, PhaseStep
<1>4. phase[c] = PhaseOf(c) /\ (PhaseOf(c)' = PhaseOf(c) => phase' = phase)
  BY <1>3
<1>5. CASE ClientStart(c) \/ ClientRemove(c) \/ ClientExit(c)
  <2>1. PhaseOf(c)' = PhaseOf(c) /\ tot' = tot
    BY <1>1, <1>5 DEF ClientStart, ClientRemove, ClientExit, PhaseOf, Counted, TypeOK, ClientType
  <2> QED
    BY <1>2, <1>4, <2>1 DEF Service!svars
<1>6. CASE ClientSend(c)
  <2>1. tot' = tot /\ PhaseOf(c) = "idle" /\ PhaseOf(c)' \in {"idle", "asked"}
    BY <1>1, <1>6 DEF ClientSend, PhaseOf, Counted, TypeOK, ClientType
  <2> QED
    BY <1>2, <1>3, <1>4, <2>1 DEF Service!svars, Service!SNext, Service!Ask
<1>7. CASE ClientFirst(c) \/ ClientMore(c)
  <2>1. /\ Dequeue(c) /\ q[c][1] = Head(q[c]) /\ q[c][1] \in Messages /\ Expected(c, 1)
        /\ PhaseOf(c) = "asked"
    BY <1>1, <1>7, Dequeued DEF ClientFirst, ClientMore, Counted, Expected, PhaseOf
  <2>2. CASE q[c][1].mtype = "FAILURE"
    <3>1. tot' = tot /\ PhaseOf(c)' = "refused" /\ path[c] \notin Openable
      BY <1>1, <1>7, <2>1, <2>2 DEF ClientFirst, ClientMore, Counted, Expected, PhaseOf,
         TypeOK, ClientType
    <3> QED
      BY <1>2, <1>3, <1>4, <2>1, <3>1 DEF Service!SNext, Service!Refuse
  <2>3. CASE q[c][1].mtype # "FAILURE"
    <3> DEFINE n == q[c][1].n
    <3>1. /\ tot' = [tot EXCEPT ![c] = tot[c] + n]
          /\ PhaseOf(c)' = PhaseOf(c)
      BY <1>1, <1>7, <2>1, <2>3 DEF ClientFirst, ClientMore, Counted, Expected, PhaseOf,
         TypeOK, ClientType, Messages
    <3>2. CASE q[c][1].mtype = "DATA"
      <4>1. path[c] \in Openable /\ n \in 1..(Size[path[c]] - tot[c])
        <5>1. q[c][1].pos = tot[c]
          BY <1>1, <2>1 DEF Expected, Reached
        <5>2. RespMsgSize \in Nat \ {0}
          BY MQAssumption
        <5> QED
          BY <1>1, <2>1, <3>2, <5>1, <5>2 DEF Expected, Min2
      <4> HIDE DEF n
      <4> QED
        BY <1>2, <1>4, <2>1, <3>1, <4>1 DEF Service!SNext, Service!Deliver
    <3>3. CASE q[c][1].mtype = "END"
      <4>1. n = 0
        BY <2>1, <3>3 DEF Expected
      <4>2. tot' = tot
        BY <1>1, <3>1, <4>1 DEF TypeOK, ClientType
      <4> QED
        BY <1>2, <1>4, <3>1, <4>2 DEF Service!svars
    <3> QED
      BY <2>1, <2>3, <3>2, <3>3 DEF Messages
  <2> QED
    BY <2>2, <2>3
<1>8. CASE ClientPrint(c)
  <2>1. tot' = tot /\ PhaseOf(c) = "asked" /\ PhaseOf(c)' = "complete"
    BY <1>1, <1>8 DEF ClientPrint, PhaseOf, Counted, TypeOK, ClientType
  <2>2. path[c] \in Openable /\ tot[c] = Size[path[c]]
    BY <1>1, <1>8 DEF ClientPrint, Counted, HasLast
  <2> QED
    BY <1>2, <1>3, <1>4, <2>1, <2>2 DEF Service!SNext, Service!Complete
<1>9. CASE ClientKilled(c)
  <2>1. /\ tot' = tot
        /\ \/ PhaseOf(c)' = PhaseOf(c)
           \/ PhaseOf(c) \in {"idle", "asked"} /\ PhaseOf(c)' = "left"
    BY <1>1, <1>9 DEF ClientKilled, PhaseOf, TypeOK, ClientType
  <2> QED
    BY <1>2, <1>3, <1>4, <2>1 DEF Service!svars, Service!SNext, Service!Leave
<1> QED
  BY <1>5, <1>6, <1>7, <1>8, <1>9 DEF ClientMain

\* As long as read() does not fail, the server, its children and the clients
\* implement the service: a file is called complete only when all of it is
\* there and refused only when it cannot be opened.
THEOREM ServiceImplemented ==
  ASSUME "read" \notin Faults PROVE Spec => ImplementsService
<1>1. Init => Service!SInit
  BY DEF Init, Service!SInit, PhaseOf
<1>2. TypeOK /\ StreamInv /\ [Next]_vars => [Service!SNext]_(Service!svars)
  <2> SUFFICES ASSUME TypeOK, StreamInv, [Next]_vars PROVE [Service!SNext]_(Service!svars)
    OBVIOUS
  <2>1. ASSUME UNCHANGED clientVars PROVE UNCHANGED Service!svars
    BY <2>1 DEF clientVars, PhaseOf, Service!svars
  <2>2. ASSUME NEW s \in Servers, ServerMain(s) \/ GrimReaper(s) \/ ServerKilled(s)
        PROVE  UNCHANGED clientVars
    BY <2>2 DEF ServerMain, ServerStart, ServerReceive, ServerReceiveError, ServerCheckErrno,
       ServerFork, ServerForkError, ServerRemoveQueue, GrimReaper, ReaperEnter, ReaperReap,
       ReaperDone, ReaperReturn, ServerKilled
  <2>3. ASSUME NEW p \in Pids, ServeRequest(p) \/ ChildKilled(p) PROVE UNCHANGED clientVars
    BY <2>3 DEF ServeRequest, ChildOpen, ChildSendFailure, ChildRead, ChildSendData,
       ChildSendEnd, ChildExit, ChildKilled, ChildGone
  <2> QED
    BY <2>1, <2>2, <2>3, ClientServiceStep DEF Next, vars
<1> QED
  BY <1>1, <1>2, TypeCorrect, StreamInvariant, PTL DEF Spec, ImplementsService, Service!SSpec

=============================================================================
