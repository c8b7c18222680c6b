--------------------------- MODULE WpaController ----------------------------
(***************************************************************************)
(* The program of wpa.cpp and main.cpp, run by some users at a time, and    *)
(* the networks of the wpa_supplicant that they all talk to.  A request is  *)
(* one step.  A psk is "good" when its length is one of 8..63.              *)
(***************************************************************************)
EXTENDS CtrlSocket, FiniteSets, TLC, FiniteSetsExt

CONSTANTS
    NETWORK_ID_MAX,
    Ssids,      \* names users ask for, none of which begins with another
    MaxOptions  \* bound: options read, by all processes

ASSUME ControllerAssumption ==
    /\ {NETWORK_ID_MAX, MaxStarts, MaxEvents, MaxOpens, MaxLate, MaxOptions} \subseteq Nat
    /\ NETWORK_ID_MAX > 0 /\ "" \notin Ssids

VARIABLES
    nets,      \* the networks of the supplicant: id -> [ssid, psk]
    selected,  \* the id of the selected one, or -1
    saved,     \* the configuration file
    options    \* options read so far

supplicant == <<nets, selected, saved>>
vars == <<library, proc, supplicant, options>>

Blank == [ssid |-> "", psk |-> ""]

\* A process of the program.  netid and asked belong to config_wifi(); before are
\* the networks when it began, and clean says that all its requests were answered
\* in time, that nobody else has changed the supplicant, and that it saved them all
\* when it was asked to.
Program == [pc |-> "loop", counter |-> 0, conn |-> Null, socks |-> {},
            netid |-> -1, asked |-> Blank, said |-> "",
            before |-> <<>>, clean |-> FALSE]

Running(p) == proc[p].pc \notin {"off", "m_open", "m_idle", "m_on", "m_done"}

Earlier(n) == [i \in 0..(n - 1) |-> [ssid |-> ToString(i), psk |-> "good"]]

\* The supplicant has read some networks from its file.
Init ==
    /\ dir = <<>> /\ opened = 0 /\ inbox = <<>> /\ attached = {} /\ up = TRUE
    /\ events = 0 /\ lates = 0 /\ starts = 0 /\ options = 0
    /\ proc = [p \in Pids |-> Off]
    /\ \E n \in 0..(NETWORK_ID_MAX + 2) : nets = Earlier(n)
    /\ selected = -1
    /\ saved = [i \in 1..Cardinality(DOMAIN nets) |-> nets[i - 1]]

-----------------------------------------------------------------------------
(* The commands: what the supplicant may become, and its reply.              *)

Done(n, sel, s, reply) == [nets |-> n, selected |-> sel, saved |-> s, reply |-> reply]

Ok == <<"OK">>
Fail == <<"FAIL">>

ADD_NETWORK ==
    LET id == IF DOMAIN nets = {} THEN 0 ELSE Max(DOMAIN nets) + 1
    IN  {Done(With(nets, id, Blank), selected, saved, <<"id", id>>)}

OnNetwork(id, done) ==
    IF id \in DOMAIN nets THEN {done} ELSE {Done(nets, selected, saved, Fail)}

REMOVE_NETWORK(id) ==
    OnNetwork(id, Done(Without(nets, id), IF selected = id THEN -1 ELSE selected, saved, Ok))

SET_NETWORK(id, var, val) ==
    OnNetwork(id, Done([nets EXCEPT ![id][var] = val], selected, saved, Ok))

SELECT_NETWORK(id) == OnNetwork(id, Done(nets, id, saved, Ok))

Nth(ids, i) == CHOOSE id \in ids : Cardinality({other \in ids : other < id}) = i - 1

\* Networks that nothing is known of may be left out, and saving may be refused.
SAVE_CONFIG ==
    LET kept(ids) == [i \in 1..Cardinality(ids) |-> nets[Nth(ids, i)]]
    IN  {Done(nets, selected, kept(DOMAIN nets), Ok),
         Done(nets, selected, kept({i \in DOMAIN nets : nets[i] # Blank}), Ok),
         Done(nets, selected, saved, Fail)}

\* The networks of the file, numbered anew.
RECONFIGURE == {Done([i \in 0..(Len(saved) - 1) |-> saved[i + 1]], -1, saved, Ok)}

STATUS ==
    {Done(nets, selected, saved, <<"status", name>>) :
        name \in {""} \cup {nets[i].ssid : i \in DOMAIN nets \cap {selected}}}

\* SCAN, SCAN_RESULTS and DISCONNECT do nothing to the networks.
Other == {Done(nets, selected, saved, Ok)}

-----------------------------------------------------------------------------
(* _wpa_ctrl_cmd(): what may come of it, and the process that goes on.       *)

\* Whoever else is in config_wifi() is not alone.
Disturbs(p, new) ==
    [q \in Pids |->
        IF q = p THEN new
        ELSE IF Running(q) /\ supplicant' # supplicant
        THEN [proc[q] EXCEPT !.clean = FALSE]
        ELSE proc[q]]

_wpa_ctrl_cmd(p, cmds) ==
    LET unread == inbox[proc[p].conn.id]
        outcome(cmd, o) == [cmd |-> cmd, ret |-> o.ret, reply |-> o.reply, inbox |-> o.inbox]
        nothing == Done(nets, selected, saved, <<"none">>)
    IN  IF proc[p].conn = Null THEN {}
        ELSE IF ~up THEN {outcome(nothing, [ret |-> -1, reply |-> nothing.reply, inbox |-> unread])}
        ELSE UNION {{outcome(cmd, o) : o \in wpa_ctrl_request(unread, cmd.reply)} : cmd \in cmds}

GoOn(p, o, new) ==
    /\ nets' = o.cmd.nets /\ selected' = o.cmd.selected /\ saved' = o.cmd.saved
    /\ inbox' = [inbox EXCEPT ![proc[p].conn.id] = o.inbox]
    /\ lates' = IF up THEN Late(o) ELSE lates
    /\ proc' = Disturbs(p, [new EXCEPT !.clean = @ /\ o.ret = 0 /\ o.inbox = <<>>])
    /\ UNCHANGED <<dir, opened, attached, events, up, starts, options>>

\* Without a connection, the request reads through a null pointer.
NoConnection(p) ==
    /\ Running(p) /\ proc[p].pc \notin {"loop", "config", "scan"} /\ proc[p].conn = Null
    /\ Gone(p)
    /\ proc' = [proc EXCEPT ![p] = Off]
    /\ UNCHANGED <<dir, opened, events, up, starts, lates, supplicant, options>>

\* A request whose result the program does not look at.
Step(p, pc, cmds, next) ==
    /\ proc[p].pc = pc
    /\ \E o \in _wpa_ctrl_cmd(p, cmds) : GoOn(p, o, [proc[p] EXCEPT !.pc = next])

-----------------------------------------------------------------------------
(* main(), and the options.                                                  *)

\* getInstance() opens the connection, and keeps none when that fails.
Start(p) ==
    /\ proc[p].pc = "off" /\ starts < MaxStarts
    /\ Open(p, Program, Program)
    /\ starts' = starts + 1
    /\ UNCHANGED <<attached, events, up, lates, supplicant, options>>

\* The next option, while there are more: -c, -d or -s, as -u and an unknown one do
\* nothing.  Nothing is left of an earlier one but the connection.
NextOption(p, pc) ==
    /\ proc[p].pc = "loop" /\ options < MaxOptions
    /\ options' = options + 1
    /\ proc' = [proc EXCEPT ![p] =
                    [Program EXCEPT !.pc = pc, !.counter = proc[p].counter,
                                    !.conn = proc[p].conn, !.socks = proc[p].socks]]
    /\ UNCHANGED <<library, supplicant>>

\* getopt() at its end, -h and a usage message; no socket is closed, and no file
\* removed, before the process ends.
End(p) ==
    /\ proc[p].pc = "loop"
    /\ Gone(p)
    /\ proc' = [proc EXCEPT ![p] = Off]
    /\ UNCHANGED <<dir, opened, events, up, starts, lates, supplicant, options>>

disconnect(p) == Step(p, "disconnect", Other, "loop")

-----------------------------------------------------------------------------
(* scan_results(): another connection, and two requests.                     *)

ScanOpen(p) ==
    /\ proc[p].pc = "scan"
    /\ Open(p, [proc[p] EXCEPT !.pc = "SCAN"], [proc[p] EXCEPT !.pc = "loop"])
    /\ UNCHANGED <<attached, events, up, starts, lates, supplicant, options>>

Scan(p) ==
    /\ proc[p].pc = "SCAN"
    /\ \E o \in _wpa_ctrl_cmd(p, Other) :
        GoOn(p, o, [proc[p] EXCEPT !.pc = IF o.ret < 0 THEN "loop" ELSE "SCAN_RESULTS"])

ScanResults(p) == Step(p, "SCAN_RESULTS", Other, "loop")

-----------------------------------------------------------------------------
(* config_wifi().                                                            *)

\* No name, no psk, or one of a wrong length: nothing is done.  That goes for each
\* psk from stdin, of which fgets() takes fewer bytes than a pointer has.
\* Otherwise add_network() follows.
config_wifi(p) ==
    /\ proc[p].pc = "config"
    /\ proc' \in
        {[proc EXCEPT ![p].pc = "add", ![p].asked = [ssid |-> s, psk |-> "good"],
                      ![p].before = nets, ![p].clean = TRUE] : s \in Ssids}
        \cup {[proc EXCEPT ![p].pc = "loop"]}
    /\ UNCHANGED <<library, supplicant, options>>

\* What add_network() returns: -1, the id, or what netid happens to hold when the
\* reply is no number.
NetIds(ret, reply) ==
    IF ret < 0 THEN {-1}
    ELSE IF reply[1] = "id" THEN {reply[2]}
    ELSE {-1, 0, NETWORK_ID_MAX + 1}

\* Mutant: the id is kept when the first network makes room.
add_networkKept(p) ==
    /\ proc[p].pc = "add"
    /\ \E o \in _wpa_ctrl_cmd(p, ADD_NETWORK) : \E id \in NetIds(o.ret, o.reply) :
        GoOn(p, o, IF id > NETWORK_ID_MAX
                   THEN [proc[p] EXCEPT !.pc = "remove", !.netid = id]
                   ELSE [proc[p] EXCEPT !.pc = "ssid", !.netid = id])

\* And config_wifi() makes room when there are too many.
add_network(p) ==
    /\ proc[p].pc = "add"
    /\ \E o \in _wpa_ctrl_cmd(p, ADD_NETWORK) : \E id \in NetIds(o.ret, o.reply) :
        GoOn(p, o, IF id > NETWORK_ID_MAX
                   THEN [proc[p] EXCEPT !.pc = "remove", !.netid = NETWORK_ID_MAX]
                   ELSE [proc[p] EXCEPT !.pc = "ssid", !.netid = id])

remove_network(p) == Step(p, "remove", REMOVE_NETWORK(0), "save")
save_config(p) ==
    /\ proc[p].pc = "save"
    /\ \E o \in _wpa_ctrl_cmd(p, SAVE_CONFIG) :
        GoOn(p, o, [proc[p] EXCEPT
            !.pc = "reconfigure",
            !.clean = @ /\ o.reply = Ok /\ Len(o.cmd.saved) = Cardinality(DOMAIN nets)])
reconfigure(p) == Step(p, "reconfigure", RECONFIGURE, "ssid")

set_network(p) ==
    LET id == proc[p].netid
    IN  \/ Step(p, "ssid", SET_NETWORK(id, "ssid", proc[p].asked.ssid), "psk")
        \/ Step(p, "psk", SET_NETWORK(id, "psk", proc[p].asked.psk), "select")

select_network(p) == Step(p, "select", SELECT_NETWORK(proc[p].netid), "status")

\* check_status() looks for the name in the reply.
status(p) ==
    /\ proc[p].pc = "status"
    /\ \E o \in _wpa_ctrl_cmd(p, STATUS) :
        GoOn(p, o, [proc[p] EXCEPT !.pc = "loop",
            !.said = IF o.ret < 0 THEN ""
                     ELSE IF o.reply = <<"status", proc[p].asked.ssid>> THEN "connected"
                     ELSE "check"])

Controller(p) ==
    \/ Start(p) \/ End(p) \/ NoConnection(p)
    \/ \E pc \in {"config", "disconnect", "scan"} : NextOption(p, pc)
    \/ disconnect(p) \/ ScanOpen(p) \/ Scan(p) \/ ScanResults(p)
    \/ config_wifi(p) \/ add_network(p) \/ remove_network(p) \/ save_config(p)
    \/ reconfigure(p) \/ set_network(p) \/ select_network(p) \/ status(p)

\* The supplicant ends, and its networks stay as they are.
Stop ==
    /\ up
    /\ up' = FALSE
    /\ attached' = {}
    /\ UNCHANGED <<dir, opened, inbox, events, proc, starts, lates, supplicant, options>>

Next ==
    \/ \E p \in Pids : Controller(p)
    \/ \E p \in Pids : (Monitor(p) \/ Kill(p)) /\ UNCHANGED <<supplicant, options>>
    \/ SendEvent /\ UNCHANGED <<supplicant, options>>
    \/ Stop

Spec == Init /\ [][Next]_vars

-----------------------------------------------------------------------------
(* Properties.                                                               *)

\* Networks numbered from 0, and no more of them than the program ever keeps.
Numbered(n) == \E k \in 0..(NETWORK_ID_MAX + 1) : DOMAIN n = 0..(k - 1)

\* The new network after those there were, or instead of the first of them.
WithNew(before, asked) ==
    LET n == Cardinality(DOMAIN before)
    IN  IF n <= NETWORK_ID_MAX THEN With(before, n, asked)
        ELSE [i \in 0..NETWORK_ID_MAX |->
                IF i = NETWORK_ID_MAX THEN asked ELSE before[i + 1]]

\* When all went well and nobody else asked, config_wifi() has added and selected
\* the network it was asked for and kept all others but, of too many, the first;
\* and it says "connected" of no other network.
NetworkIsAsked ==
    \A p \in Pids :
        Running(p) /\ proc[p].clean /\ Numbered(proc[p].before) =>
            /\ proc[p].pc = "status" =>
                /\ nets = WithNew(proc[p].before, proc[p].asked)
                /\ selected \in DOMAIN nets /\ nets[selected] = proc[p].asked
            /\ proc[p].said = "connected" => nets[selected] = proc[p].asked
=============================================================================
