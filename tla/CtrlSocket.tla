----------------------------- MODULE CtrlSocket -----------------------------
(***************************************************************************)
(* The connections of wpa_ctrl.c to wpa_supplicant: the socket files in     *)
(* /tmp, opening and closing, a request as its caller sees it (WpaCtrl has   *)
(* its steps), and a program that uses the library to monitor events.        *)
(* A socket is [name, id]: its file, and a number no other socket has.       *)
(***************************************************************************)
EXTENDS Integers, Sequences

CONSTANTS
    Pids,        \* process numbers; one whose process has ended is used again
    MaxStarts,   \* bound: processes started
    MaxOpens,    \* bound: connections a monitor opens
    MaxLate,     \* bound: replies that come too late
    MaxEvents    \* bound: events of the supplicant

VARIABLES
    dir,       \* the socket files: name -> the id of the socket bound to it
    opened,    \* the number of the last socket
    inbox,     \* id -> the datagrams nobody has read yet
    attached,  \* the ids that the supplicant sends events to
    events,    \* the number of the last event
    up,        \* the supplicant runs
    proc,      \* the process of each pid
    starts,    \* processes started so far
    lates      \* replies that came too late

library == <<dir, opened, inbox, attached, events, up, starts, lates>>

Null == [name |-> <<0, 0>>, id |-> 0]

\* counter is a variable of the process, and socks are its open sockets.
Off == [pc |-> "off", counter |-> 0, conn |-> Null, socks |-> {}]

Without(f, x) == [y \in DOMAIN f \ {x} |-> f[y]]
With(f, x, v) == [y \in {x} \cup DOMAIN f |-> IF y = x THEN v ELSE f[y]]

Living == {p \in Pids : proc[p].pc # "off"}

-----------------------------------------------------------------------------
(* wpa_ctrl_open2(): the sockets it may return, with the files and the       *)
(* counter it leaves.                                                        *)

Opening(conn, d, n) == [conn |-> conn, dir |-> d, counter |-> n]

\* Mutant: every socket of a process has the same name.
wpa_ctrl_open2Same(d, p, n) ==
    LET name == <<p, 1>>
        bound == With(d, name, opened + 1)
    IN  {Opening(Null, d, n)} \cup
        IF up THEN {Opening([name |-> name, id |-> opened + 1], bound, n)}
        ELSE {Opening(Null, Without(d, name), n)}

\* A file of that name is unlinked and its name bound again.  Fails: socket(),
\* before the counter; bind(), for another reason; connect(), without a
\* supplicant, and only then the file is removed.
wpa_ctrl_open2(d, p, n) ==
    LET name == <<p, n + 1>>
        bound == With(d, name, opened + 1)
    IN  {Opening(Null, d, n), Opening(Null, d, n + 1)} \cup
        IF up THEN {Opening([name |-> name, id |-> opened + 1], bound, n + 1)}
        ELSE {Opening(Null, Without(d, name), n + 1)}

wpa_ctrl_open(d, p, n) == wpa_ctrl_open2(d, p, n)

\* With one of the openings process p becomes opening, or failing, but for what
\* the opening leaves.
Open(p, opening, failing) ==
    \E o \in wpa_ctrl_open(dir, p, proc[p].counter) :
        LET ok == o.conn # Null
            new == IF ok THEN opening ELSE failing
        IN  /\ dir' = o.dir
            /\ opened' = IF ok THEN opened + 1 ELSE opened
            /\ inbox' = IF ok THEN With(inbox, o.conn.id, <<>>) ELSE inbox
            /\ proc' = [proc EXCEPT ![p] =
                [new EXCEPT !.counter = o.counter, !.conn = o.conn,
                            !.socks = IF ok THEN @ \cup {o.conn} ELSE @]]

\* The file goes before the socket; the supplicant notices when it next sends.
wpa_ctrl_close(p) ==
    LET conn == proc[p].conn
    IN  /\ dir' = Without(dir, conn.name)
        /\ inbox' = Without(inbox, conn.id)
        /\ attached' = attached \ {conn.id}
        /\ proc' = [proc EXCEPT ![p].conn = Null, ![p].socks = @ \ {conn}, ![p].pc = "m_open"]

\* A process ends, or is killed: its sockets close, and their files stay.
Gone(p) ==
    LET ids == {c.id : c \in proc[p].socks}
    IN  /\ inbox' = [i \in DOMAIN inbox \ ids |-> inbox[i]]
        /\ attached' = attached \ ids

-----------------------------------------------------------------------------
(* wpa_ctrl_request(), as a whole.                                           *)

Event(n) == <<"event", n>>
IsEvent(m) == m[1] = "event"

\* The first datagram that is no event is the reply, whoever asked for it; when
\* there is none yet, the own reply may come too late, and stays in the socket.
wpa_ctrl_request(unread, reply) ==
    LET mail == Append(unread, reply)
        first == CHOOSE i \in 1..Len(mail) :
                    /\ i = Len(mail) \/ ~IsEvent(mail[i])
                    /\ \A j \in 1..(i - 1) : IsEvent(mail[j])
    IN  {[ret |-> 0, reply |-> mail[first], inbox |-> SubSeq(mail, first + 1, Len(mail))]} \cup
        IF first = Len(mail) /\ lates < MaxLate
        THEN {[ret |-> -2, reply |-> <<"none">>, inbox |-> <<reply>>]} ELSE {}

Late(o) == IF o.ret < 0 THEN lates + 1 ELSE lates

-----------------------------------------------------------------------------
(* A monitor: attach, look for events and take them, detach, close.          *)
(* since is the last event before it was attached, seen what it received,    *)
(* and late says that a request of it timed out.                             *)

MonitorStart(p) ==
    /\ proc[p].pc = "off" /\ starts < MaxStarts
    /\ proc' = [proc EXCEPT ![p] = [pc |-> "m_open", counter |-> 0, conn |-> Null, socks |-> {},
                                    since |-> 0, seen |-> <<>>, late |-> FALSE]]
    /\ starts' = starts + 1
    /\ UNCHANGED <<dir, opened, inbox, attached, events, up, lates>>

MonitorOpen(p) ==
    /\ proc[p].pc = "m_open" /\ proc[p].counter < MaxOpens
    /\ LET closed == [proc[p] EXCEPT !.seen = <<>>, !.late = FALSE]
       IN  Open(p, [closed EXCEPT !.pc = "m_idle"], closed)
    /\ UNCHANGED <<attached, events, up, starts, lates>>

\* wpa_ctrl_attach_helper(): after each request the new pc is a function of what
\* it returns; "OK\n" is 0, any other reply -1.
Helper(p, ret, reply) == IF ret < 0 THEN ret ELSE IF reply = <<"OK">> THEN 0 ELSE -1

wpa_ctrl_attach(p) ==
    /\ proc[p].pc = "m_idle"
    /\ LET id == proc[p].conn.id
       IN  IF ~up
           THEN /\ proc' = [proc EXCEPT ![p].pc = "m_done"]
                /\ UNCHANGED <<attached, inbox, lates>>
           ELSE \E o \in wpa_ctrl_request(inbox[id], <<"OK">>) :
                /\ attached' = attached \cup {id}
                /\ inbox' = [inbox EXCEPT ![id] = o.inbox]
                /\ lates' = Late(o)
                /\ proc' = [proc EXCEPT
                        ![p].pc = IF Helper(p, o.ret, o.reply) = 0 THEN "m_on" ELSE "m_done",
                        ![p].since = events, ![p].late = @ \/ o.ret < 0]
    /\ UNCHANGED <<dir, opened, events, up, starts>>

\* wpa_ctrl_recv(), called when wpa_ctrl_pending() has said that it may.
wpa_ctrl_recv(p) ==
    /\ proc[p].pc = "m_on" /\ inbox[proc[p].conn.id] # <<>>
    /\ LET id == proc[p].conn.id
       IN  /\ inbox' = [inbox EXCEPT ![id] = Tail(@)]
           /\ proc' = [proc EXCEPT ![p].seen = Append(@, Head(inbox[id]))]
    /\ UNCHANGED <<dir, opened, attached, events, up, starts, lates>>

wpa_ctrl_detach(p) ==
    /\ proc[p].pc = "m_on"
    /\ LET id == proc[p].conn.id
       IN  IF ~up
           THEN UNCHANGED <<attached, inbox, lates>>
           ELSE \E o \in wpa_ctrl_request(inbox[id], <<"OK">>) :
                /\ attached' = attached \ {id}
                /\ inbox' = [inbox EXCEPT ![id] = o.inbox]
                /\ lates' = Late(o)
    /\ proc' = [proc EXCEPT ![p].pc = "m_done"]
    /\ UNCHANGED <<dir, opened, events, up, starts>>

MonitorClose(p) ==
    /\ proc[p].pc = "m_done"
    /\ wpa_ctrl_close(p)
    /\ UNCHANGED <<opened, events, up, starts, lates>>

Monitor(p) ==
    \/ MonitorStart(p) \/ MonitorOpen(p) \/ MonitorClose(p)
    \/ wpa_ctrl_attach(p) \/ wpa_ctrl_recv(p) \/ wpa_ctrl_detach(p)

-----------------------------------------------------------------------------
(* Whatever the process does, and the supplicant.                            *)

Kill(p) ==
    /\ proc[p].pc # "off"
    /\ Gone(p)
    /\ proc' = [proc EXCEPT ![p] = Off]
    /\ UNCHANGED <<dir, opened, events, up, starts, lates>>

\* An event reaches every socket that is attached and whose file is still there.
SendEvent ==
    /\ up /\ events < MaxEvents /\ attached # {}
    /\ events' = events + 1
    /\ inbox' = [i \in DOMAIN inbox |->
                    IF i \in attached /\ \E name \in DOMAIN dir : dir[name] = i
                    THEN Append(inbox[i], Event(events')) ELSE inbox[i]]
    /\ UNCHANGED <<dir, opened, attached, up, proc, starts, lates>>

-----------------------------------------------------------------------------
\* As the comment at wpa_ctrl.c:140 has it: every open socket of a living process
\* is reached by its own file, also the ones whose process no longer uses them,
\* whichever files an earlier process of the same pid has left.
SocketsAreReached ==
    \A p \in Living : \A c \in proc[p].socks : c.name \in DOMAIN dir /\ dir[c.name] = c.id

\* A monitor none of whose requests timed out receives the events since it was
\* attached, each once and in order, and no reply among them.
MonitorsSeeEvents ==
    \A p \in Living :
        proc[p].pc = "m_on" /\ ~proc[p].late =>
            /\ proc[p].seen \o inbox[proc[p].conn.id] =
                [i \in 1..(events - proc[p].since) |-> Event(proc[p].since + i)]

ConnectionsAreKept == SocketsAreReached /\ MonitorsSeeEvents
=============================================================================
