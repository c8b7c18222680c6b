---------------------------- MODULE MQFileServer ----------------------------
(***************************************************************************)
(* The System V message-queue file server of 10-message-queues/client-     *)
(* server: server.c (a concurrent server that forks a child per request    *)
(* and reaps it in a SIGCHLD handler) and client.c (asks for one file and  *)
(* collects its content from a private queue).                             *)
(*                                                                         *)
(* Every system call is one step, so the handler, the children and the     *)
(* clients interleave as processes do.  A message carries, in place of its *)
(* bytes, the file and the position they come from.                        *)
(***************************************************************************)
EXTENDS Integers, Sequences

CONSTANTS
    Servers,      \* server processes, each started at most once
    Clients,      \* client processes, each started at most once
    Pids,         \* process slots: fork() fails with EAGAIN when all are taken
    Paths,        \* the pathnames a client may be started with
    Openable,     \* those the child's open() succeeds on
    Size,         \* their sizes in bytes
    RespMsgSize,  \* RESP_MSG_SIZE
    ReqMsgSize,   \* REQ_MSG_SIZE
    FailLen,      \* the length of "Couldn't open" with its terminator
    MsgMnb,       \* the kernel's limit on the bytes of a queue (msg_qbytes)
    Faults,       \* which faults of the environment happen
    None

ASSUME MQAssumption ==
    /\ None \notin Servers \cup Clients
    /\ Openable \subseteq Paths
    /\ Size \in [Paths -> Nat]
    /\ RespMsgSize \in 1..MsgMnb
    /\ ReqMsgSize \in 1..MsgMnb
    /\ FailLen \in 1..MsgMnb
    /\ MsgMnb \in Nat
    /\ Faults \subseteq {"fork", "read", "kill"}

VARIABLES
    keyQ,     \* the queue that has key SERVER_KEY, named by its creator
    reqQ,     \* the requests in it
    spc,      \* where each server's main() is
    serverId, \* its serverId: the queue it created, or None when msgget failed
    sreq,     \* its req
    errno,    \* its errno
    saved,    \* savedErrno in its grimReaper()
    hpc,      \* where its grimReaper() is
    pend,     \* SIGCHLD is pending for it
    cpc,      \* where the process in each slot is in serveRequest()
    creq,     \* its copy of req
    off,      \* its file offset: the bytes it has read so far
    len,      \* numRead
    parent,   \* its parent, None once that is gone (init adopts the child)
    kpc,      \* where each client's main() is
    path,     \* its argv[1]
    sidC,     \* its serverId
    open,     \* its own queue exists
    q,        \* the responses in it
    cbytes,   \* their bytes, as the kernel counts them (q_cbytes)
    tot,      \* totBytes
    num,      \* numMsgs
    outcome   \* what it printed

serverVars == <<spc, serverId, sreq, errno, saved, hpc, pend>>
childVars  == <<cpc, creq, off, len, parent>>
mqVars     == <<open, q, cbytes>>
clientVars == <<kpc, path, sidC, tot, num, outcome>>
vars == <<keyQ, reqQ, serverVars, childVars, mqVars, clientVars>>

Requests == [clientId: Clients, pathname: Paths]
Messages == [mtype: {"FAILURE", "DATA", "END"}, of: Paths, pos: Nat, n: Nat]

\* Any request: what an uninitialised req holds, never looked at.
NoReq == [clientId |-> None, pathname |-> None]

Min2(a, b) == IF a < b THEN a ELSE b

Init ==
    /\ keyQ = None /\ reqQ = <<>>
    /\ spc = [s \in Servers |-> "off"]
    /\ serverId = [s \in Servers |-> None]
    /\ sreq = [s \in Servers |-> NoReq]
    /\ errno = [s \in Servers |-> "0"]
    /\ saved = [s \in Servers |-> "0"]
    /\ hpc = [s \in Servers |-> "idle"]
    /\ pend = [s \in Servers |-> FALSE]
    /\ cpc = [p \in Pids |-> "free"]
    /\ creq = [p \in Pids |-> NoReq]
    /\ off = [p \in Pids |-> 0]
    /\ len = [p \in Pids |-> 0]
    /\ parent = [p \in Pids |-> None]
    /\ kpc = [c \in Clients |-> "off"]
    /\ path \in [Clients -> Paths]
    /\ sidC = [c \in Clients |-> None]
    /\ open = [c \in Clients |-> FALSE]
    /\ q = [c \in Clients |-> <<>>]
    /\ cbytes = [c \in Clients |-> 0]
    /\ tot = [c \in Clients |-> 0]
    /\ num = [c \in Clients |-> 0]
    /\ outcome = [c \in Clients |-> "none"]

-----------------------------------------------------------------------------
(* The server's main().  Its next step waits while its handler runs.       *)

At(s, where) == spc[s] = where /\ hpc[s] = "idle"

Alive(s) == spc[s] \in {"rcv", "chk", "fork", "rmid"}

\* Mutant: msgget without IPC_EXCL shares the queue of a running server.
ServerStartShared(s) ==
    /\ spc[s] = "off"
    /\ spc' = [spc EXCEPT ![s] = "rcv"]
    /\ keyQ' = IF keyQ = None THEN s ELSE keyQ
    /\ serverId' = [serverId EXCEPT ![s] = keyQ']
    /\ UNCHANGED <<reqQ, sreq, errno, saved, hpc, pend, childVars, mqVars, clientVars>>

\* Steps 1 and 2: msgget with IPC_EXCL, whose failure is only logged, and
\* sigaction.
ServerStart(s) ==
    /\ spc[s] = "off"
    /\ spc' = [spc EXCEPT ![s] = "rcv"]
    /\ IF keyQ = None
       THEN /\ keyQ' = s
            /\ reqQ' = <<>>
            /\ serverId' = [serverId EXCEPT ![s] = s]
       ELSE UNCHANGED <<keyQ, reqQ, serverId>>
    /\ UNCHANGED <<sreq, errno, saved, hpc, pend, childVars, mqVars, clientVars>>

\* The server's identifier is that of the queue with the key.
HasQueue(s) == serverId[s] # None /\ serverId[s] = keyQ

\* Step 3: msgrcv takes the oldest request.
ServerReceive(s) ==
    /\ At(s, "rcv") /\ HasQueue(s) /\ reqQ # <<>>
    /\ sreq' = [sreq EXCEPT ![s] = Head(reqQ)]
    /\ reqQ' = Tail(reqQ)
    /\ spc' = [spc EXCEPT ![s] = "fork"]
    /\ UNCHANGED <<keyQ, serverId, errno, saved, hpc, pend,
                   childVars, mqVars, clientVars>>

\* msgrcv on a queue the server does not have fails at once.
ServerReceiveError(s) ==
    /\ At(s, "rcv") /\ ~HasQueue(s)
    /\ errno' = [errno EXCEPT ![s] = "EINVAL"]
    /\ spc' = [spc EXCEPT ![s] = "chk"]
    /\ UNCHANGED <<keyQ, reqQ, serverId, sreq, saved, hpc, pend,
                   childVars, mqVars, clientVars>>

\* Mutant: an interrupted msgrcv falls through to fork() with the old req.
ServerCheckErrnoFallThrough(s) ==
    /\ At(s, "chk")
    /\ spc' = [spc EXCEPT ![s] = IF errno[s] = "EINTR" THEN "fork" ELSE "rmid"]
    /\ UNCHANGED <<keyQ, reqQ, serverId, sreq, errno, saved, hpc, pend,
                   childVars, mqVars, clientVars>>

\* Mutant: every failed msgrcv ends the loop.
ServerCheckErrnoNoRetry(s) ==
    /\ At(s, "chk")
    /\ spc' = [spc EXCEPT ![s] = "rmid"]
    /\ UNCHANGED <<keyQ, reqQ, serverId, sreq, errno, saved, hpc, pend,
                   childVars, mqVars, clientVars>>

\* "if (errno == EINTR) continue;", any other error ends the loop.
ServerCheckErrno(s) ==
    /\ At(s, "chk")
    /\ spc' = [spc EXCEPT ![s] = IF errno[s] = "EINTR" THEN "rcv" ELSE "rmid"]
    /\ UNCHANGED <<keyQ, reqQ, serverId, sreq, errno, saved, hpc, pend,
                   childVars, mqVars, clientVars>>

\* fork() gives the child a copy of req; the parent loops.
ServerFork(s) ==
    /\ At(s, "fork")
    /\ \E p \in Pids :
        /\ cpc[p] = "free"
        /\ cpc' = [cpc EXCEPT ![p] = "open"]
        /\ creq' = [creq EXCEPT ![p] = sreq[s]]
        /\ parent' = [parent EXCEPT ![p] = s]
        /\ off' = [off EXCEPT ![p] = 0]
        /\ len' = [len EXCEPT ![p] = 0]
    /\ spc' = [spc EXCEPT ![s] = "rcv"]
    /\ UNCHANGED <<keyQ, reqQ, serverId, sreq, errno, saved, hpc, pend,
                   mqVars, clientVars>>

ServerForkError(s) ==
    /\ At(s, "fork")
    /\ "fork" \in Faults \/ \A p \in Pids : cpc[p] # "free"
    /\ spc' = [spc EXCEPT ![s] = "rmid"]
    /\ UNCHANGED <<keyQ, reqQ, serverId, sreq, errno, saved, hpc, pend,
                   childVars, mqVars, clientVars>>

\* The kernel's part of the death of server s: init adopts its children and
\* reaps those that are zombies.
ServerGone(s) ==
    /\ spc' = [spc EXCEPT ![s] = "exited"]
    /\ hpc' = [hpc EXCEPT ![s] = "idle"]
    /\ pend' = [pend EXCEPT ![s] = FALSE]
    /\ cpc' = [p \in Pids |-> IF parent[p] = s /\ cpc[p] = "zombie"
                              THEN "free" ELSE cpc[p]]
    /\ parent' = [p \in Pids |-> IF parent[p] = s THEN None ELSE parent[p]]

\* Step 5: remove the server's queue, if it has one, and exit.
ServerRemoveQueue(s) ==
    /\ At(s, "rmid")
    /\ IF HasQueue(s)
       THEN keyQ' = None /\ reqQ' = <<>>
       ELSE UNCHANGED <<keyQ, reqQ>>
    /\ ServerGone(s)
    /\ UNCHANGED <<serverId, sreq, errno, saved, creq, off, len,
                   mqVars, clientVars>>

\* A signal the server does not handle ends it; its queue stays behind.
ServerKilled(s) ==
    /\ "kill" \in Faults /\ Alive(s)
    /\ ServerGone(s)
    /\ UNCHANGED <<keyQ, reqQ, serverId, sreq, errno, saved, creq, off, len,
                   mqVars, clientVars>>

-----------------------------------------------------------------------------
(* grimReaper(): runs on the server's stack, with SIGCHLD blocked.         *)

ReaperEnter(s) ==
    /\ Alive(s) /\ hpc[s] = "idle" /\ pend[s]
    /\ pend' = [pend EXCEPT ![s] = FALSE]
    /\ hpc' = [hpc EXCEPT ![s] = "wait"]
    /\ saved' = [saved EXCEPT ![s] = errno[s]]
    /\ UNCHANGED <<keyQ, reqQ, spc, serverId, sreq, errno,
                   childVars, mqVars, clientVars>>

\* Mutant: "if" in place of "while" reaps one child per signal.
ReaperReapOnce(s) ==
    /\ hpc[s] = "wait"
    /\ \E p \in Pids :
        /\ parent[p] = s /\ cpc[p] = "zombie"
        /\ cpc' = [cpc EXCEPT ![p] = "free"]
        /\ parent' = [parent EXCEPT ![p] = None]
    /\ hpc' = [hpc EXCEPT ![s] = "ret"]
    /\ UNCHANGED <<keyQ, reqQ, spc, serverId, sreq, errno, saved, pend,
                   creq, off, len, mqVars, clientVars>>

\* waitpid(-1, NULL, WNOHANG) > 0: a terminated child is reaped.
ReaperReap(s) ==
    /\ hpc[s] = "wait"
    /\ \E p \in Pids :
        /\ parent[p] = s /\ cpc[p] = "zombie"
        /\ cpc' = [cpc EXCEPT ![p] = "free"]
        /\ parent' = [parent EXCEPT ![p] = None]
    /\ UNCHANGED <<keyQ, reqQ, serverVars, creq, off, len, mqVars, clientVars>>

\* waitpid() finds no terminated child; with no child at all it sets errno.
ReaperDone(s) ==
    /\ hpc[s] = "wait"
    /\ \A p \in Pids : parent[p] = s => cpc[p] # "zombie"
    /\ hpc' = [hpc EXCEPT ![s] = "ret"]
    /\ errno' = [errno EXCEPT ![s] =
                    IF \E p \in Pids : parent[p] = s THEN @ ELSE "ECHILD"]
    /\ UNCHANGED <<keyQ, reqQ, spc, serverId, sreq, saved, pend,
                   childVars, mqVars, clientVars>>

\* Mutant: the handler does not restore errno.
ReaperReturnClobber(s) ==
    /\ hpc[s] = "ret"
    /\ hpc' = [hpc EXCEPT ![s] = "idle"]
    /\ \/ UNCHANGED <<errno, spc>>
       \/ /\ spc[s] = "rcv" /\ HasQueue(s)
          /\ errno' = [errno EXCEPT ![s] = "EINTR"]
          /\ spc' = [spc EXCEPT ![s] = "chk"]
    /\ UNCHANGED <<keyQ, reqQ, serverId, sreq, saved, pend,
                   childVars, mqVars, clientVars>>

\* errno is restored and the handler returns.  A msgrcv it interrupted is not
\* restarted in spite of SA_RESTART: it fails with EINTR.
ReaperReturn(s) ==
    /\ hpc[s] = "ret"
    /\ hpc' = [hpc EXCEPT ![s] = "idle"]
    /\ \/ /\ errno' = [errno EXCEPT ![s] = saved[s]]
          /\ UNCHANGED spc
       \/ /\ spc[s] = "rcv" /\ HasQueue(s)
          /\ errno' = [errno EXCEPT ![s] = "EINTR"]
          /\ spc' = [spc EXCEPT ![s] = "chk"]
    /\ UNCHANGED <<keyQ, reqQ, serverId, sreq, saved, pend,
                   childVars, mqVars, clientVars>>

-----------------------------------------------------------------------------
(* serveRequest() in the child of slot p.                                  *)

\* The kernel's part of msgsnd(c, m): room in the queue, and the message
\* appended.
Room(c, n) == cbytes[c] + n <= MsgMnb /\ Len(q[c]) + 1 <= MsgMnb

Enqueue(c, m) ==
    /\ open[c] /\ Room(c, m.n)
    /\ q' = [q EXCEPT ![c] = Append(@, m)]
    /\ cbytes' = [cbytes EXCEPT ![c] = @ + m.n]
    /\ UNCHANGED open

\* msgsnd blocks while the queue is full; on a removed queue it fails.
MsgSnd(p, mtype, n) ==
    LET c == creq[p].clientId
        m == [mtype |-> mtype, of |-> creq[p].pathname, pos |-> off[p], n |-> n]
    IN Enqueue(c, m) \/ (~open[c] /\ UNCHANGED mqVars)

Goto(p, where) == cpc' = [cpc EXCEPT ![p] = where]

ChildOpen(p) ==
    /\ cpc[p] = "open"
    /\ Goto(p, IF creq[p].pathname \in Openable THEN "read" ELSE "fail")
    /\ UNCHANGED <<keyQ, reqQ, serverVars, creq, off, len, parent, mqVars, clientVars>>

ChildSendFailure(p) ==
    /\ cpc[p] = "fail"
    /\ MsgSnd(p, "FAILURE", FailLen)
    /\ Goto(p, "exit")
    /\ UNCHANGED <<keyQ, reqQ, serverVars, creq, off, len, parent, clientVars>>

\* read() returns the next bytes, 0 at the end of the file, or an error.
ChildRead(p) ==
    /\ cpc[p] = "read"
    /\ LET left == Size[creq[p].pathname] - off[p] IN
       \/ /\ left > 0
          /\ len' = [len EXCEPT ![p] = Min2(left, RespMsgSize)]
          /\ Goto(p, "send")
       \/ /\ left <= 0 \/ "read" \in Faults
          /\ Goto(p, "end")
          /\ UNCHANGED len
    /\ UNCHANGED <<keyQ, reqQ, serverVars, creq, off, parent, mqVars, clientVars>>

\* Mutant: with IPC_NOWAIT a full queue loses the message and the loop goes on.
ChildSendDataLossy(p) ==
    /\ cpc[p] = "send"
    /\ \/ MsgSnd(p, "DATA", len[p])
       \/ ~Room(creq[p].clientId, len[p]) /\ UNCHANGED mqVars
    /\ off' = [off EXCEPT ![p] = @ + len[p]]
    /\ Goto(p, IF open[creq[p].clientId] THEN "read" ELSE "end")
    /\ UNCHANGED <<keyQ, reqQ, serverVars, creq, len, parent, clientVars>>

\* A failed msgsnd of data breaks the loop.
ChildSendData(p) ==
    /\ cpc[p] = "send"
    /\ MsgSnd(p, "DATA", len[p])
    /\ off' = [off EXCEPT ![p] = @ + len[p]]
    /\ Goto(p, IF open[creq[p].clientId] THEN "read" ELSE "end")
    /\ UNCHANGED <<keyQ, reqQ, serverVars, creq, len, parent, clientVars>>

ChildSendEnd(p) ==
    /\ cpc[p] = "end"
    /\ MsgSnd(p, "END", 0)
    /\ Goto(p, "exit")
    /\ UNCHANGED <<keyQ, reqQ, serverVars, creq, off, len, parent, clientVars>>

\* The child is a zombie, and SIGCHLD pending, until its parent waits for it.
ChildGone(p) ==
    /\ IF parent[p] = None
       THEN Goto(p, "free") /\ UNCHANGED pend
       ELSE Goto(p, "zombie") /\ pend' = [pend EXCEPT ![parent[p]] = TRUE]
    /\ UNCHANGED <<keyQ, reqQ, spc, serverId, sreq, errno, saved, hpc,
                   creq, off, len, parent, mqVars, clientVars>>

Running(p) == cpc[p] \notin {"free", "zombie"}

ChildExit(p)   == cpc[p] = "exit" /\ ChildGone(p)
ChildKilled(p) == "kill" \in Faults /\ Running(p) /\ ChildGone(p)

-----------------------------------------------------------------------------
(* client.c                                                                *)

\* msgget of the server's queue, whose failure is only logged, then the
\* client's own queue and the atexit handler.
ClientStart(c) ==
    /\ kpc[c] = "off"
    /\ kpc' = [kpc EXCEPT ![c] = "send"]
    /\ sidC' = [sidC EXCEPT ![c] = keyQ]
    /\ open' = [open EXCEPT ![c] = TRUE]
    /\ UNCHANGED <<keyQ, reqQ, serverVars, childVars, q, cbytes,
                   path, tot, num, outcome>>

\* msgsnd of the request blocks while the queue is full; an error (no such
\* queue, or no longer) is only logged.
ClientSend(c) ==
    /\ kpc[c] = "send"
    /\ kpc' = [kpc EXCEPT ![c] = "first"]
    /\ IF sidC[c] # None /\ sidC[c] = keyQ
       THEN /\ (Len(reqQ) + 1) * ReqMsgSize <= MsgMnb
            /\ reqQ' = Append(reqQ, [clientId |-> c, pathname |-> path[c]])
       ELSE UNCHANGED reqQ
    /\ UNCHANGED <<keyQ, serverVars, childVars, mqVars,
                   path, sidC, tot, num, outcome>>

\* msgrcv(clientId, ...) takes the oldest response m.
Dequeue(c) ==
    /\ q[c] # <<>>
    /\ q' = [q EXCEPT ![c] = Tail(@)]
    /\ cbytes' = [cbytes EXCEPT ![c] = @ - Head(q[c]).n]
    /\ UNCHANGED open

\* Mutant: the first response is not checked for a failure.
ClientFirstUnchecked(c) ==
    /\ kpc[c] = "first"
    /\ Dequeue(c)
    /\ LET m == Head(q[c]) IN
       /\ kpc' = [kpc EXCEPT ![c] = IF m.mtype = "DATA" THEN "more" ELSE "print"]
       /\ tot' = [tot EXCEPT ![c] = m.n]
       /\ num' = [num EXCEPT ![c] = 1]
    /\ UNCHANGED <<keyQ, reqQ, serverVars, childVars, path, sidC, outcome>>

\* The first response, which may be a failure notification.
ClientFirst(c) ==
    /\ kpc[c] = "first"
    /\ Dequeue(c)
    /\ LET m == Head(q[c]) IN
       IF m.mtype = "FAILURE"
       THEN /\ kpc' = [kpc EXCEPT ![c] = "rmid"]
            /\ outcome' = [outcome EXCEPT ![c] = "failure"]
            /\ UNCHANGED <<tot, num>>
       ELSE /\ kpc' = [kpc EXCEPT ![c] = IF m.mtype = "DATA" THEN "more" ELSE "print"]
            /\ tot' = [tot EXCEPT ![c] = m.n]
            /\ num' = [num EXCEPT ![c] = 1]
            /\ UNCHANGED outcome
    /\ UNCHANGED <<keyQ, reqQ, serverVars, childVars, path, sidC>>

\* The loop over the data messages.
ClientMore(c) ==
    /\ kpc[c] = "more"
    /\ Dequeue(c)
    /\ LET m == Head(q[c]) IN
       /\ kpc' = [kpc EXCEPT ![c] = IF m.mtype = "DATA" THEN "more" ELSE "print"]
       /\ tot' = [tot EXCEPT ![c] = @ + m.n]
       /\ num' = [num EXCEPT ![c] = @ + 1]
    /\ UNCHANGED <<keyQ, reqQ, serverVars, childVars, path, sidC, outcome>>

ClientPrint(c) ==
    /\ kpc[c] = "print"
    /\ kpc' = [kpc EXCEPT ![c] = "exit"]
    /\ outcome' = [outcome EXCEPT ![c] = "received"]
    /\ UNCHANGED <<keyQ, reqQ, serverVars, childVars, mqVars, path, sidC, tot, num>>

\* removeQueue(): called on the failure path, and again by exit().
RemoveQueue(c) ==
    /\ open' = [open EXCEPT ![c] = FALSE]
    /\ q' = [q EXCEPT ![c] = <<>>]
    /\ cbytes' = [cbytes EXCEPT ![c] = 0]

ClientRemove(c) ==
    /\ kpc[c] = "rmid"
    /\ RemoveQueue(c)
    /\ kpc' = [kpc EXCEPT ![c] = "exit"]
    /\ UNCHANGED <<keyQ, reqQ, serverVars, childVars, path, sidC, tot, num, outcome>>

ClientExit(c) ==
    /\ kpc[c] = "exit"
    /\ RemoveQueue(c)
    /\ kpc' = [kpc EXCEPT ![c] = "done"]
    /\ UNCHANGED <<keyQ, reqQ, serverVars, childVars, path, sidC, tot, num, outcome>>

\* Killed by a signal: exit handlers do not run and the queue is left behind.
ClientKilled(c) ==
    /\ "kill" \in Faults
    /\ kpc[c] \notin {"off", "done", "killed"}
    /\ kpc' = [kpc EXCEPT ![c] = "killed"]
    /\ UNCHANGED <<keyQ, reqQ, serverVars, childVars, mqVars,
                   path, sidC, tot, num, outcome>>

-----------------------------------------------------------------------------
ServerMain(s) ==
    \/ ServerStart(s) \/ ServerReceive(s) \/ ServerReceiveError(s)
    \/ ServerCheckErrno(s) \/ ServerFork(s) \/ ServerForkError(s)
    \/ ServerRemoveQueue(s)

GrimReaper(s) ==
    ReaperEnter(s) \/ ReaperReap(s) \/ ReaperDone(s) \/ ReaperReturn(s)

ServeRequest(p) ==
    \/ ChildOpen(p) \/ ChildSendFailure(p) \/ ChildRead(p)
    \/ ChildSendData(p) \/ ChildSendEnd(p) \/ ChildExit(p)

ClientMain(c) ==
    \/ ClientStart(c) \/ ClientSend(c) \/ ClientFirst(c) \/ ClientMore(c)
    \/ ClientPrint(c) \/ ClientRemove(c) \/ ClientExit(c)

Next ==
    \/ \E s \in Servers : ServerMain(s) \/ GrimReaper(s) \/ ServerKilled(s)
    \/ \E p \in Pids : ServeRequest(p) \/ ChildKilled(p)
    \/ \E c \in Clients : ClientMain(c) \/ ClientKilled(c)

Spec == Init /\ [][Next]_vars

\* The scheduler runs every process that can run and the kernel delivers
\* every pending signal; nothing makes a file end early or a process die.
Fairness ==
    /\ \A s \in Servers : WF_vars(ServerMain(s)) /\ WF_vars(GrimReaper(s))
    /\ \A p \in Pids : WF_vars(ServeRequest(p))
    /\ \A c \in Clients : WF_vars(ClientMain(c))

FairSpec == Spec /\ Fairness

-----------------------------------------------------------------------------
(* Properties.                                                             *)

ServerType ==
    /\ keyQ \in Servers \cup {None}
    /\ reqQ \in Seq(Requests)
    /\ spc \in [Servers -> {"off", "rcv", "chk", "fork", "rmid", "exited"}]
    /\ serverId \in [Servers -> Servers \cup {None}]
    /\ sreq \in [Servers -> Requests \cup {NoReq}]

HandlerType ==
    /\ errno \in [Servers -> {"0", "EINTR", "EINVAL", "ECHILD"}]
    /\ saved \in [Servers -> {"0", "EINTR", "EINVAL", "ECHILD"}]
    /\ hpc \in [Servers -> {"idle", "wait", "ret"}]
    /\ pend \in [Servers -> BOOLEAN]

ChildType ==
    /\ cpc \in [Pids -> {"free", "open", "fail", "read", "send", "end", "exit", "zombie"}]
    /\ creq \in [Pids -> Requests \cup {NoReq}]
    /\ off \in [Pids -> Nat]
    /\ len \in [Pids -> Nat]
    /\ parent \in [Pids -> Servers \cup {None}]

ClientType ==
    /\ kpc \in [Clients -> {"off", "send", "first", "more", "print", "rmid",
                            "exit", "done", "killed"}]
    /\ path \in [Clients -> Paths]
    /\ sidC \in [Clients -> Servers \cup {None}]
    /\ tot \in [Clients -> Nat]
    /\ num \in [Clients -> Nat]
    /\ outcome \in [Clients -> {"none", "failure", "received"}]

QueueType ==
    /\ open \in [Clients -> BOOLEAN]
    /\ q \in [Clients -> Seq(Messages)]
    /\ cbytes \in [Clients -> Int]

\* A request is looked at only where one has been received.
RequestsKnown ==
    /\ \A s \in Servers : spc[s] = "fork" => sreq[s] \in Requests
    /\ \A p \in Pids : cpc[p] # "free" => creq[p] \in Requests

\* Every variable has its type, counters and positions never go below zero and
\* no code looks at a req that has not been received.
TypeOK ==
    /\ ServerType /\ HandlerType /\ ChildType
    /\ QueueType /\ ClientType /\ RequestsKnown

\* A terminated child never stays a zombie behind the back of its parent:
\* either SIGCHLD is pending or the handler is still in its waitpid loop.
\* This is what the loop in grimReaper() is for, as SIGCHLD is not queued.
ZombiesWillBeReaped ==
    \A p \in Pids : cpc[p] = "zombie" =>
        /\ parent[p] # None
        /\ pend[parent[p]] \/ hpc[parent[p]] = "wait"

\* When main() looks at errno after a failed msgrcv on a queue that still
\* exists it sees EINTR, whatever grimReaper()'s waitpid did to errno since.
ErrnoIsMsgrcvs ==
    \A s \in Servers : spc[s] = "chk" /\ HasQueue(s) =>
        (IF hpc[s] = "idle" THEN errno[s] ELSE saved[s]) = "EINTR"

\* A server that has its queue leaves the request loop only because fork()
\* failed, never because a child of its own terminated.
LoopEndsOnlyByFork ==
    [][\A s \in Servers :
          spc[s] # "rmid" /\ spc'[s] = "rmid" /\ HasQueue(s) => spc[s] = "fork"]_vars

\* The queue of a running server is not removed by another server.
QueueOutlivesServer ==
    \A s \in Servers : Alive(s) /\ serverId[s] # None => serverId[s] = keyQ

Busy(p) == Running(p) /\ cpc[p] # "exit"

\* The places that hold an unanswered request of client c.
Holders(c) ==
    {<<"queue", i>> : i \in {j \in DOMAIN reqQ : reqQ[j].clientId = c}}
    \cup {<<"server", s>> : s \in {t \in Servers : spc[t] = "fork" /\ sreq[t].clientId = c}}
    \cup {<<"child", p>> : p \in {r \in Pids : Busy(r) /\ creq[r].clientId = c}}

\* A request is in one place at a time: no client is answered by two children
\* and a child keeps its own request while main() reuses req.
AtMostOneAnswer ==
    \A c \in Clients : \A h1, h2 \in Holders(c) : h1 = h2

Written(c) == IF q[c] = <<>> THEN tot[c] ELSE q[c][Len(q[c])].pos + q[c][Len(q[c])].n

\* "Received n bytes (m messages)": n is the size of the file the client asked
\* for and m the number of data messages it takes, and one for the end.
ReceivedWholeFile(c) ==
    outcome[c] = "received" =>
        /\ path[c] \in Openable
        /\ tot[c] = Size[path[c]]
        /\ num[c] = (Size[path[c]] + RespMsgSize - 1) \div RespMsgSize + 1

\* What a client has counted and what is waiting for it are one contiguous
\* piece of the file it asked for, closed by at most one last message, and the
\* child that serves it has sent exactly that much.  When the client is told the
\* end, that is the whole of the file.
StreamIntact ==
    \A c \in Clients :
        /\ ReceivedWholeFile(c)
        /\ \A i \in DOMAIN q[c] :
            /\ q[c][i].of = path[c]
            /\ q[c][i].pos = IF i = 1 THEN tot[c] ELSE q[c][i-1].pos + q[c][i-1].n
            /\ q[c][i].mtype # "DATA" => i = Len(q[c])
        /\ \A p \in Pids :
            Busy(p) /\ creq[p].clientId = c /\ open[c] =>
                /\ off[p] = Written(c)
                /\ \A i \in DOMAIN q[c] : q[c][i].mtype = "DATA"

\* server.c: "RESP_MQ_END, /* File data complete */".
EndMeansComplete ==
    \A c \in Clients : \A i \in DOMAIN q[c] :
        q[c][i].mtype = "END" => q[c][i].pos = Size[path[c]]

\* Every slot a child takes is given back, so that fork() keeps working.
SlotsComeBack == \A p \in Pids : cpc[p] = "zombie" ~> cpc[p] = "free"

-----------------------------------------------------------------------------
(* The service the server and its clients implement.                       *)

PhaseOf(c) ==
    CASE outcome[c] = "failure"                    -> "refused"
      [] outcome[c] = "received"                   -> "complete"
      [] outcome[c] = "none" /\ kpc[c] = "killed"  -> "left"
      [] outcome[c] = "none" /\ kpc[c] # "killed"  ->
            IF kpc[c] \in {"off", "send"} \/ sidC[c] = None THEN "idle" ELSE "asked"

Service == INSTANCE FileService WITH
    file <- path, phase <- [c \in Clients |-> PhaseOf(c)], got <- tot

\* A client is never told that a file is complete when it is not, nor refused
\* a file that can be opened, and its bytes only grow towards the file's size:
\* through every interleaving, kill and failed fork the processes keep to the
\* steps of the service.
ImplementsService == Service!SSpec

\* ... and with no fault each client gets its answer.
AnswersEveryClient == Service!SFairSpec
=============================================================================
