------------------------------ MODULE Sockets ------------------------------
(***************************************************************************)
(* The clients and servers of src/06-socket: chat (ipv4_stream),           *)
(* unix_stream, unix_dgram and ipv4_dgram.  A stream is one sequence of    *)
(* messages for each direction of a connection; the messages are short and *)
(* read() finds them whole.  The datagrams for the server wait in one      *)
(* queue; those of ipv4_dgram may get lost.                                *)
(***************************************************************************)
EXTENDS Integers, Sequences, FiniteSets

CONSTANTS Clients,
          MaxLines,     \* bound: lines that the users of chat type
          MaxStarts     \* bound: times that a server is started

VARIABLES prog, pc, s

vars == <<prog, pc, s>>

Dgram    == {"unix_dgram", "ipv4_dgram"}
Unix     == {"unix_stream", "unix_dgram"}
Programs == Dgram \cup Unix \cup {"chat"}
Nobody   == "nobody"
Lines    == {"text", "exit"}

\* s.up, s.down: what is under way to the server and to the client.  s.reset:
\* the connection was reset: a process that uses it again comes to its end.
Init ==
    /\ prog \in Programs
    /\ pc = [p \in Clients \cup {"server"} |-> "start"]
    /\ s = [path   |-> FALSE,
            peer   |-> Nobody,
            queued |-> <<>>,
            up     |-> [c \in Clients |-> <<>>],
            down   |-> [c \in Clients |-> <<>>],
            reset  |-> [c \in Clients |-> FALSE],
            grams  |-> <<>>,
            lines  |-> 0,
            starts |-> 0,
            served |-> {},
            got    |-> [c \in Clients |-> "none"]]

At(p, place)      == pc[p] = place
Go(p, place)      == pc' = [pc EXCEPT ![p] = place]
Step(p, from, to) == At(p, from) /\ Go(p, to)
Here(names)       == prog \in names /\ UNCHANGED prog

Up        == pc["server"] \notin {"start", "failed", "dead"}
Gone(c)   == pc[c] \in {"ended", "killed", "failed"}
Left(c)   == ~Up \/ (s.peer # c /\ c \notin {s.queued[i] : i \in DOMAIN s.queued})

-----------------------------------------------------------------------------
(* Every server: socket(), bind() and, for a stream, listen().  A path in  *)
(* the file system stays when its server is gone: none gets to remove().   *)

BindPort(name, next) ==
    /\ Here({name}) /\ s.starts < MaxStarts /\ Step("server", "start", next)
    /\ s' = [s EXCEPT !.starts = @ + 1]

BindPath(name, next) ==
    /\ Here({name}) /\ s.starts < MaxStarts
    /\ Step("server", "start", IF s.path THEN "failed" ELSE next)
    /\ s' = [s EXCEPT !.starts = @ + 1, !.path = TRUE]

StartChat       == BindPort("chat", "accept")
StartUnixStream == BindPath("unix_stream", "accept")
StartUnixDgram  == BindPath("unix_dgram", "recvfrom")
StartIpv4Dgram  == BindPort("ipv4_dgram", "recvfrom")

ServerStarts == StartChat \/ StartUnixStream \/ StartUnixDgram \/ StartIpv4Dgram

\* The user ends a server, or starts another after one that failed or died;
\* the kernel closes its sockets.
ServerKilled ==
    /\ Here(Unix \cup Dgram) /\ (Up \/ At("server", "failed"))
    /\ s.starts < MaxStarts
    /\ Go("server", "start")
    /\ s' = [s EXCEPT !.peer = Nobody, !.queued = <<>>, !.grams = <<>>,
                      !.reset = [c \in Clients |-> TRUE]]

-----------------------------------------------------------------------------
(* The streams: connect() enters the backlog, accept() takes from it.      *)

Connect(c) ==
    /\ Here({"chat", "unix_stream"})
    /\ IF Up THEN /\ Step(c, "start", IF prog = "chat" THEN "type" ELSE "write")
                  /\ s' = [s EXCEPT !.queued = Append(@, c)]
             ELSE Step(c, "start", "failed") /\ UNCHANGED s

Accept ==
    /\ Here({"chat", "unix_stream"}) /\ s.queued # <<>> /\ Step("server", "accept", "read")
    /\ s' = [s EXCEPT !.peer = Head(s.queued), !.queued = Tail(@)]

\* chat: main() of the client.  A line that starts with "exit" ends the chat.
\* A write into a connection that the other side has left resets it, and the
\* next use of it ends the process: by handle_error() or by SIGPIPE.
ClientTypes(c, line) ==
    /\ Here({"chat"}) /\ At(c, "type") /\ s.lines < MaxLines
    /\ IF s.reset[c]
       THEN Go(c, "failed") /\ UNCHANGED s
       ELSE /\ Go(c, IF line = "exit" THEN "ended" ELSE "read")
            /\ s' = [s EXCEPT !.lines = @ + 1,
                              !.up[c] = IF Left(c) THEN @ ELSE Append(@, line),
                              !.reset[c] = Left(c)]

\* A read() of 0 bytes leaves the zeros of memset() in recvbuff.
ClientReads(c) ==
    /\ Here({"chat"}) /\ At(c, "read")
    /\ \/ /\ s.down[c] # <<>>
          /\ Go(c, IF Head(s.down[c]) = "exit" THEN "ended" ELSE "type")
          /\ s' = [s EXCEPT !.down[c] = Tail(@)]
       \/ /\ s.down[c] = <<>> /\ Left(c)
          /\ Go(c, IF s.reset[c] THEN "failed" ELSE "type")
          /\ UNCHANGED s

\* The user kills a client of chat.  Answers it has not read reset the
\* connection.
ClientKilled(c) ==
    /\ Here({"chat"}) /\ pc[c] \in {"type", "read"} /\ Go(c, "killed")
    /\ s' = [s EXCEPT !.reset[c] = @ \/ s.down[c] # <<>>]

\* chat_func() of the server.
Hangup(t) == [t EXCEPT !.peer = Nobody]

ServerReads ==
    /\ Here({"chat"}) /\ At("server", "read")
    /\ LET c == s.peer
       IN  \/ /\ s.up[c] # <<>>
              /\ IF Head(s.up[c]) = "exit"
                 THEN Go("server", "accept") /\ s' = Hangup([s EXCEPT !.up[c] = Tail(@)])
                 ELSE Go("server", "answer") /\ s' = [s EXCEPT !.up[c] = Tail(@)]
           \/ /\ s.up[c] = <<>> /\ Gone(c)
              /\ Go("server", IF s.reset[c] THEN "dead" ELSE "answer")
              /\ UNCHANGED s

ServerAnswers(line) ==
    /\ Here({"chat"}) /\ At("server", "answer") /\ s.lines < MaxLines
    /\ LET c == s.peer
           t == [s EXCEPT !.lines = @ + 1,
                          !.down[c] = IF Gone(c) THEN @ ELSE Append(@, line),
                          !.reset[c] = Gone(c)]
       IN  IF s.reset[c]
           THEN Go("server", "dead") /\ UNCHANGED s
           ELSE IF line = "exit"
           THEN Go("server", "accept") /\ s' = Hangup(t)
           ELSE Go("server", "read") /\ s' = t

-----------------------------------------------------------------------------
(* unix_stream: the client writes argv[1] once and reads for ever; the     *)
(* server serves the one client it has accepted, for ever.                 *)

WriteRequest(c) ==
    /\ Here({"unix_stream"}) /\ Step(c, "write", IF Left(c) THEN "killed" ELSE "read")
    /\ s' = [s EXCEPT !.up[c] = IF Left(c) THEN @ ELSE Append(@, c)]

UpperAndReply ==
    /\ Here({"unix_stream"}) /\ At("server", "read") /\ s.up[s.peer] # <<>>
    /\ s' = [s EXCEPT !.up[s.peer] = Tail(@),
                      !.down[s.peer] = Append(@, Head(s.up[s.peer])),
                      !.served = @ \cup {s.peer}]
    /\ UNCHANGED pc

ReadReply(c) ==
    /\ Here({"unix_stream"}) /\ At(c, "read") /\ s.down[c] # <<>>
    /\ s' = [s EXCEPT !.got[c] = Head(s.down[c]), !.down[c] = Tail(@)]
    /\ UNCHANGED pc

-----------------------------------------------------------------------------
(* The datagrams.  The client of unix_dgram has an address, which comes    *)
(* with SO_PASSCRED; the server answers to the sender of what it received  *)
(* last.                                                                   *)

SendToUnix(c) ==
    /\ Here({"unix_dgram"}) /\ Step(c, "start", IF Up THEN "recvfrom" ELSE "failed")
    /\ s' = [s EXCEPT !.grams = IF Up THEN Append(@, c) ELSE @]

\* Nobody learns that there is no server.
SendToIpv4(c) ==
    /\ Here({"ipv4_dgram"}) /\ Step(c, "start", "recvfrom")
    /\ s' = [s EXCEPT !.grams = IF Up THEN Append(@, c) ELSE @]

\* Mutant: an answer to whoever has sent last.
EchoToLast ==
    /\ Here(Dgram) /\ At("server", "recvfrom") /\ s.grams # <<>>
    /\ LET c == Head(s.grams)
           d == s.grams[Len(s.grams)]
       IN  s' = [s EXCEPT !.grams = Tail(@), !.served = @ \cup {c},
                          !.down[d] = Append(@, c)]
    /\ UNCHANGED pc

\* BUF_SIZE bytes are received, turned to upper case and sent back.
Echo ==
    /\ Here(Dgram) /\ At("server", "recvfrom") /\ s.grams # <<>>
    /\ LET c == Head(s.grams)
       IN  s' = [s EXCEPT !.grams = Tail(@), !.served = @ \cup {c},
                          !.down[c] = IF Gone(c) THEN @ ELSE Append(@, c)]
    /\ UNCHANGED pc

Lose ==
    /\ Here({"ipv4_dgram"}) /\ s.grams # <<>>
    /\ s' = [s EXCEPT !.grams = Tail(@)]
    /\ UNCHANGED pc

RecvFrom(c) ==
    /\ Here(Dgram) /\ s.down[c] # <<>> /\ Step(c, "recvfrom", "ended")
    /\ s' = [s EXCEPT !.got[c] = Head(s.down[c]), !.down[c] = Tail(@)]

-----------------------------------------------------------------------------
ClientSteps(c) ==
    \/ Connect(c) \/ ClientReads(c) \/ WriteRequest(c) \/ ReadReply(c)
    \/ SendToUnix(c) \/ SendToIpv4(c) \/ RecvFrom(c)
ServerSteps == Accept \/ ServerReads \/ UpperAndReply \/ Echo

Next ==
    \/ \E c \in Clients : \/ ClientSteps(c) \/ ClientKilled(c)
                          \/ \E line \in Lines : ClientTypes(c, line)
    \/ ServerStarts \/ ServerKilled \/ ServerSteps \/ Lose
    \/ \E line \in Lines : ServerAnswers(line)

\* The processes run; nobody makes the users type, start or kill.
Fairness == WF_vars(ServerSteps) /\ \A c \in Clients : WF_vars(ClientSteps(c))

Spec == Init /\ [][Next]_vars /\ Fairness

-----------------------------------------------------------------------------
\* What the programs of this module keep has its type.
TypeOK ==
    /\ prog \in Programs
    /\ s.peer \in Clients \cup {Nobody}
    /\ \A i \in DOMAIN s.queued : s.queued[i] \in Clients
    /\ \A i \in DOMAIN s.grams : s.grams[i] \in Clients
    /\ s.lines \in 0 .. MaxLines /\ s.starts \in 0 .. MaxStarts
    /\ s.reset \in [Clients -> BOOLEAN]

\* The two sides of chat take turns: as long as both have the connection at
\* most one message of it is unread, so none is taken for the answer to
\* another (stream_client.c:20-45, stream_server.c:23-53).
ChatTakesTurns ==
    prog = "chat" =>
        \A c \in Clients :
            /\ Len(s.up[c]) + Len(s.down[c]) <= 1
            /\ At(c, "type") /\ ~Left(c) => s.up[c] = <<>> /\ s.down[c] = <<>>

\* The server of chat ends only because of a client that was killed: neither
\* side's "exit" leaves the other writing into a closed connection.
ChatEndsByKilling ==
    prog = "chat" /\ At("server", "dead") => \E c \in Clients : At(c, "killed")

\* Every client shows the reply to its own text.
ReplyIsToOwn == prog \in Programs => \A c \in Clients : s.got[c] \in {"none", c}

\* The server of unix_stream serves nobody but the first that it accepted,
\* and a server with a path is the last one: when it is gone none can bind.
FirstAndLast ==
    /\ prog = "unix_stream" => Cardinality(s.served) <= 1
    /\ prog \in Unix /\ s.starts > 1 => ~Up

\* What is said above of each program.
ConversationsAreKept ==
    /\ prog \in Programs => TypeOK
    /\ ChatTakesTurns /\ ChatEndsByKilling /\ ReplyIsToOwn /\ FirstAndLast

\* A client of unix_dgram gets its reply unless the server is stopped.
DatagramAnswered ==
    \A c \in Clients :
        prog = "unix_dgram" /\ At(c, "recvfrom") ~>
            prog \in Programs /\ (At(c, "ended") \/ ~Up)
=============================================================================
