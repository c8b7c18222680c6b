------------------------------- MODULE Eloop -------------------------------
(***************************************************************************)
(* The event loop of wpa_ctrl/src/eloop.c as it is built, over select(): the *)
(* tables of sockets, the list of timeouts, the signals, and eloop_run().   *)
(* The application (its callbacks) calls the functions of eloop.h in any     *)
(* order; signal handlers interrupt the loop between any two steps; the      *)
(* kernel makes sockets ready and lets seconds pass.                         *)
(*                                                                           *)
(* Times are relative to the present: an entry of the list holds the seconds *)
(* it still has, and an overdue one holds -1 for good.                       *)
(***************************************************************************)
EXTENDS Integers, Sequences, FiniteSets

CONSTANTS
    Fds,          \* file descriptors the application uses
    Used,         \* the kinds of events it registers sockets for
    Timers,       \* <handler, eloop_data, user_data> of its timeouts
    Secs,         \* seconds it asks for
    Sigs,         \* signals it registers
    AlarmSecs,    \* seconds of alarm()
    MaxOps,       \* bound: calls the application makes
    MaxArrivals,  \* bound: times a socket becomes ready
    MaxSignals,   \* bound: signals sent
    Faults        \* "nomem": replacing a timeout may run out of memory

EventTypes == <<"read", "write", "exception">>
Types == {"read", "write", "exception"}
Terminating == {"SIGINT", "SIGTERM"}

ASSUME EloopAssumption ==
    /\ Fds \subseteq Nat /\ Secs \subseteq Nat /\ AlarmSecs \in Nat \ {0}
    /\ Used \subseteq Types
    /\ Sigs \subseteq {"SIGINT", "SIGTERM", "SIGHUP"}
    /\ MaxOps \in Nat /\ MaxArrivals \in Nat /\ MaxSignals \in Nat
    /\ Faults \subseteq {"nomem"}

VARIABLES
    at,         \* where eloop_run() is
    ret,        \* where eloop_process_pending_signals() returns to
    kind,       \* the number of the table being dispatched
    i,          \* the index of the socket, or of the signal, it has come to
    serving,    \* the callback that is running, or none
    res,        \* what select() returned
    wait,       \* the seconds select() has left, -1 for no limit
    fds,        \* rfds, wfds, efds
    table,      \* the sockets of readers, writers and exceptions
    changed,    \* and their changed
    max_sock,
    timeout,    \* the list of timeouts, each with the seconds it has left
    signals,    \* the registered signals, each with its signaled
    signaled, pending_terminate, terminate,
    alarm,      \* seconds to SIGALRM, -1 for none
    killed,     \* eloop_handle_alarm() has ended the program
    ready,      \* the sockets on which an event of each kind is pending
    moved,      \* the descriptors opened anew since select() was called
    bound       \* how much of each bound is used up

loop == <<at, ret, kind, i, res, wait, fds, moved>>
tables == <<table, changed, max_sock>>
flags == <<signals, signaled, pending_terminate, alarm>>
vars == <<loop, serving, tables, timeout, flags, terminate, killed, ready, bound>>

None == <<"none">>
NoFds == [ty \in Types |-> {}]
Socks(ty) == {table[ty][n] : n \in 1..Len(table[ty])}

Init ==
    /\ at = "off" /\ ret = "top" /\ kind = 1 /\ i = 1 /\ serving = None
    /\ res = 0 /\ wait = -1 /\ fds = NoFds /\ moved = {}
    /\ table = [ty \in Types |-> <<>>]
    /\ changed = [ty \in Types |-> FALSE]
    /\ max_sock = 0
    /\ timeout = <<>>
    /\ signals = <<>> /\ signaled = FALSE
    /\ pending_terminate = FALSE /\ terminate = FALSE
    /\ alarm = -1 /\ killed = FALSE
    /\ ready = NoFds
    /\ bound = [op |-> 0, arrival |-> 0, signal |-> 0]

-----------------------------------------------------------------------------
(* What the application calls: before eloop_run(), after it, and in its       *)
(* callbacks.                                                                *)

Call ==
    /\ ~killed /\ (at = "off" \/ serving # None)
    /\ bound.op < MaxOps
    /\ bound' = [bound EXCEPT !.op = @ + 1]
    /\ UNCHANGED <<at, ret, kind, i, res, wait, fds, serving, killed>>

\* Mutant: max_sock is not raised.
RegisterSockOnly(ty, fd) ==
    /\ Call
    /\ fd \notin Socks(ty)
    /\ table' = [table EXCEPT ![ty] = Append(@, fd)]
    /\ changed' = [changed EXCEPT ![ty] = TRUE]
    /\ UNCHANGED <<max_sock, timeout, flags, terminate, ready, moved>>

\* eloop_register_sock(), eloop_sock_table_add_sock().  The application does not
\* register a socket twice for one kind of event.
RegisterSock(ty, fd) ==
    /\ Call
    /\ fd \notin Socks(ty)
    /\ table' = [table EXCEPT ![ty] = Append(@, fd)]
    /\ max_sock' = IF fd > max_sock THEN fd ELSE max_sock
    /\ changed' = [changed EXCEPT ![ty] = TRUE]
    /\ UNCHANGED <<timeout, flags, terminate, ready, moved>>

\* eloop_unregister_sock(), eloop_sock_table_remove_sock().
UnregisterSock(ty, fd) ==
    /\ Call
    /\ fd \in Socks(ty)
    /\ table' = [table EXCEPT ![ty] = SelectSeq(@, LAMBDA s : s # fd)]
    /\ changed' = [changed EXCEPT ![ty] = TRUE]
    /\ UNCHANGED <<max_sock, timeout, flags, terminate, ready, moved>>

\* The application closes a socket it has unregistered; the next one it opens
\* gets its number.
Reopen(fd) ==
    /\ Call
    /\ \A ty \in Types : fd \notin Socks(ty)
    /\ moved' = moved \cup {fd}
    /\ ready' = [ty \in Types |-> ready[ty] \ {fd}]
    /\ UNCHANGED <<tables, timeout, flags, terminate>>

\* A callback of a socket takes the event it was called for.
Consume ==
    /\ Call
    /\ serving[1] \in Types
    /\ ready' = [ready EXCEPT ![serving[1]] = @ \ {serving[2]}]
    /\ UNCHANGED <<tables, timeout, flags, terminate, moved>>

\* Mutant: a new timeout is put at the end.
InsertLast(list, e) == Append(list, e)

\* The list of timeouts is kept in the order of their times, later registrations
\* after earlier ones.
Insert(list, e) ==
    LET n == CHOOSE k \in 0..Len(list) :
                /\ \A m \in 1..k : list[m].left <= e.left
                /\ k < Len(list) => list[k + 1].left > e.left
    IN  SubSeq(list, 1, n) \o <<e>> \o SubSeq(list, n + 1, Len(list))

Entry(t, secs) == [timer |-> t, left |-> secs]

\* The k-th of some places in a list, and what is at them, in the same order.
Nth(places, k) == CHOOSE n \in places : Cardinality({m \in places : m <= n}) = k
Only(places) == [k \in 1..Cardinality(places) |-> timeout[Nth(places, k)]]

Without(t) == Only({n \in 1..Len(timeout) : timeout[n].timer # t})

Registered(t) == \E n \in 1..Len(timeout) : timeout[n].timer = t

\* The first entry of t: the one that expires first.
First(t) == timeout[CHOOSE n \in 1..Len(timeout) :
                        /\ timeout[n].timer = t
                        /\ \A m \in 1..(n - 1) : timeout[m].timer # t]

RegisterTimeout(t, secs) ==
    /\ Call
    /\ timeout' = Insert(timeout, Entry(t, secs))
    /\ UNCHANGED <<tables, flags, terminate, ready, moved>>

CancelTimeout(t) ==
    /\ Call
    /\ Registered(t)
    /\ timeout' = Without(t)
    /\ UNCHANGED <<tables, flags, terminate, ready, moved>>

\* eloop_cancel_timeout_one().
CancelTimeoutOne(t) ==
    /\ Call
    /\ \E n \in 1..Len(timeout) :
        /\ timeout[n].timer = t
        /\ \A m \in 1..(n - 1) : timeout[m].timer # t
        /\ timeout' = Only((1..Len(timeout)) \ {n})
    /\ UNCHANGED <<tables, flags, terminate, ready, moved>>

\* All entries of t give way to one, unless there is no memory for it.
Replace(t, secs) ==
    \/ timeout' = Insert(Without(t), Entry(t, secs))
    \/ /\ "nomem" \in Faults
       /\ timeout' = Without(t)

\* eloop_deplete_timeout().
DepleteTimeout(t, secs) ==
    /\ Call
    /\ Registered(t) /\ secs < First(t).left
    /\ Replace(t, secs)
    /\ UNCHANGED <<tables, flags, terminate, ready, moved>>

\* eloop_replenish_timeout().
ReplenishTimeout(t, secs) ==
    /\ Call
    /\ Registered(t) /\ First(t).left < secs
    /\ Replace(t, secs)
    /\ UNCHANGED <<tables, flags, terminate, ready, moved>>

\* eloop_register_signal().
RegisterSignal(sig) ==
    /\ Call
    /\ \A n \in 1..Len(signals) : signals[n].sig # sig
    /\ signals' = Append(signals, [sig |-> sig, signaled |-> FALSE])
    /\ UNCHANGED <<tables, timeout, signaled, pending_terminate, alarm, terminate, ready, moved>>

\* eloop_terminate().
Terminate ==
    /\ Call
    /\ terminate' = TRUE
    /\ UNCHANGED <<tables, timeout, flags, ready, moved>>

Application ==
    \/ \E ty \in Used, fd \in Fds : RegisterSock(ty, fd) \/ UnregisterSock(ty, fd)
    \/ \E fd \in Fds : Reopen(fd)
    \/ \E t \in Timers, secs \in Secs :
        RegisterTimeout(t, secs) \/ DepleteTimeout(t, secs) \/ ReplenishTimeout(t, secs)
    \/ \E t \in Timers : CancelTimeout(t) \/ CancelTimeoutOne(t)
    \/ \E sig \in Sigs : RegisterSignal(sig)
    \/ Consume \/ Terminate

-----------------------------------------------------------------------------
(* eloop_run().                                                              *)

Step(from, to) ==
    /\ ~killed /\ serving = None
    /\ at = from /\ at' = to

Anything == timeout # <<>> \/ \E ty \in Types : table[ty] # <<>>

Run ==
    /\ Step("off", "top")
    /\ UNCHANGED <<ret, kind, i, res, wait, fds, moved, serving, tables, timeout, flags, terminate, killed, ready, bound>>

\* The end of eloop_run().
Leave(from) ==
    /\ Step(from, "off")
    /\ terminate' = FALSE
    /\ UNCHANGED <<ret, kind, i, res, wait, fds, moved, serving, tables, timeout, flags, killed, ready, bound>>

\* The condition of the loop, and a signal that came in a blocking operation.
Top ==
    \/ /\ terminate \/ ~Anything
       /\ Leave("top")
    \/ /\ ~terminate /\ Anything
       /\ Step("top", IF pending_terminate THEN "signaled?" ELSE "prepare")
       /\ ret' = "pending"
       /\ UNCHANGED <<kind, i, res, wait, fds, moved, serving, tables, timeout, flags, terminate, killed, ready, bound>>

\* Mutant: terminate is not looked at after the signals.
AfterPendingGoesOn ==
    /\ Step("pending", "prepare")
    /\ UNCHANGED <<ret, kind, i, res, wait, fds, moved, serving, tables, timeout, flags, terminate, killed, ready, bound>>

AfterPending ==
    \/ /\ terminate
       /\ Leave("pending")
    \/ /\ ~terminate
       /\ Step("pending", "prepare")
       /\ UNCHANGED <<ret, kind, i, res, wait, fds, moved, serving, tables, timeout, flags, terminate, killed, ready, bound>>

\* The limit for select(), eloop_sock_table_set_fds(), and the call of select().
Prepare ==
    /\ Step("prepare", "select")
    /\ wait' = IF timeout = <<>> THEN -1
               ELSE IF Head(timeout).left > 0 THEN Head(timeout).left ELSE 0
    /\ fds' = [ty \in Types |-> Socks(ty)]
    /\ moved' = {}
    /\ UNCHANGED <<ret, kind, i, res, serving, tables, timeout, flags, terminate, killed, ready, bound>>

Pending(ty) == {fd \in fds[ty] \cap ready[ty] : fd <= max_sock}

\* select() returns n: the tables are unchanged from here on.
Returned(n) ==
    /\ res' = n
    /\ ret' = "timeout"
    /\ changed' = [ty \in Types |-> FALSE]

\* Mutant: the loop starts again when select() has only timed out.
SelectSkipsTimeouts ==
    /\ \/ /\ Step("select", "signaled?")
          /\ \E ty \in Types : Pending(ty) # {}
          /\ fds' = [ty \in Types |-> Pending(ty)]
          /\ Returned(1)
       \/ /\ Step("select", "top")
          /\ \A ty \in Types : Pending(ty) = {}
          /\ wait = 0
          /\ UNCHANGED <<fds, res, ret, changed>>
    /\ UNCHANGED <<kind, i, wait, moved, serving, table, max_sock, timeout, flags, terminate, killed, ready, bound>>

Select ==
    /\ Step("select", "signaled?")
    /\ \/ /\ \E ty \in Types : Pending(ty) # {}
          /\ fds' = [ty \in Types |-> Pending(ty)]
          /\ Returned(1)
       \/ /\ \A ty \in Types : Pending(ty) = {}
          /\ wait = 0
          /\ fds' = NoFds
          /\ Returned(0)
    /\ UNCHANGED <<kind, i, wait, moved, serving, table, max_sock, timeout, flags, terminate, killed, ready, bound>>

\* eloop_process_pending_signals(), which a signal may interrupt anywhere.
ProcessSignals ==
    /\ Step("signaled?", IF signaled THEN "clear" ELSE ret)
    /\ UNCHANGED <<ret, kind, i, res, wait, fds, moved, serving, tables, timeout, flags, terminate, killed, ready, bound>>

ClearSignaled ==
    /\ Step("clear", "alarm?")
    /\ signaled' = FALSE
    /\ UNCHANGED <<ret, kind, i, res, wait, fds, moved, serving, tables, timeout, signals, pending_terminate, alarm, terminate, killed, ready, bound>>

\* Mutant: the alarm is left on.
StopAlarmNot ==
    /\ Step("alarm?", IF pending_terminate THEN "pending=0" ELSE "signals")
    /\ i' = 1
    /\ UNCHANGED <<ret, kind, res, wait, fds, moved, serving, tables, timeout, flags, terminate, killed, ready, bound>>

StopAlarm ==
    /\ Step("alarm?", IF pending_terminate THEN "pending=0" ELSE "signals")
    /\ alarm' = IF pending_terminate THEN -1 ELSE alarm
    /\ i' = 1
    /\ UNCHANGED <<ret, kind, res, wait, fds, moved, serving, tables, timeout, signals, signaled, pending_terminate, terminate, killed, ready, bound>>

ClearPending ==
    /\ Step("pending=0", "signals")
    /\ pending_terminate' = FALSE
    /\ UNCHANGED <<ret, kind, i, res, wait, fds, moved, serving, tables, timeout, signals, signaled, alarm, terminate, killed, ready, bound>>

\* Mutant: a signal that was received is never done with.
NextSignalAgain ==
    /\ UNCHANGED <<i, ret, kind, res, wait, fds, moved, tables, timeout, flags, terminate, killed, ready, bound>>
    /\ \/ /\ i > Len(signals)
          /\ Step("signals", ret)
          /\ UNCHANGED serving
       \/ /\ i <= Len(signals)
          /\ Step("signals", "signals")
          /\ serving' = <<"signal", signals[i].sig>>

\* The loop over the signals: the flag is reset before the callback is called.
NextSignal ==
    /\ UNCHANGED <<ret, kind, res, wait, fds, moved, tables, timeout, signaled, pending_terminate, alarm, terminate, killed, ready, bound>>
    /\ \/ /\ i > Len(signals)
          /\ Step("signals", ret)
          /\ UNCHANGED <<i, signals, serving>>
       \/ /\ i <= Len(signals) /\ ~signals[i].signaled
          /\ Step("signals", "signals")
          /\ i' = i + 1
          /\ UNCHANGED <<signals, serving>>
       \/ /\ i <= Len(signals) /\ signals[i].signaled
          /\ Step("signals", "signals")
          /\ signals' = [signals EXCEPT ![i].signaled = FALSE]
          /\ serving' = <<"signal", signals[i].sig>>
          /\ i' = i + 1

\* Mutant: the last of the list is looked at instead of the first.
CheckTimeoutLast ==
    /\ Step("timeout", "check")
    /\ IF timeout # <<>> /\ timeout[Len(timeout)].left <= 0
         THEN /\ timeout' = SubSeq(timeout, 1, Len(timeout) - 1)
              /\ serving' = <<"timer", timeout[Len(timeout)].timer>>
         ELSE UNCHANGED <<timeout, serving>>
    /\ UNCHANGED <<ret, kind, i, res, wait, fds, moved, tables, flags, terminate, killed, ready, bound>>

\* At most one timeout is taken, and it is taken off the list before its callback
\* runs.
CheckTimeout ==
    /\ Step("timeout", "check")
    /\ IF timeout # <<>> /\ Head(timeout).left <= 0
         THEN /\ timeout' = Tail(timeout)
              /\ serving' = <<"timer", Head(timeout).timer>>
         ELSE UNCHANGED <<timeout, serving>>
    /\ UNCHANGED <<ret, kind, i, res, wait, fds, moved, tables, flags, terminate, killed, ready, bound>>

\* What select() found is of no use when a callback has changed a table.
CheckTables ==
    /\ IF res <= 0 \/ \E ty \in Types : changed[ty]
         THEN Step("check", "top")
         ELSE Step("check", "table")
    /\ kind' = 1
    /\ UNCHANGED <<ret, i, res, wait, fds, moved, serving, tables, timeout, flags, terminate, killed, ready, bound>>

\* eloop_sock_table_dispatch().
DispatchTable ==
    /\ Step("table", "sock")
    /\ changed' = [changed EXCEPT ![EventTypes[kind]] = FALSE]
    /\ i' = 1
    /\ UNCHANGED <<ret, kind, res, wait, fds, moved, serving, table, max_sock, timeout, flags, terminate, killed, ready, bound>>

EndTable ==
    /\ Step("sock", IF kind = Len(EventTypes) THEN "top" ELSE "table")
    /\ kind' = IF kind = Len(EventTypes) THEN 1 ELSE kind + 1
    /\ UNCHANGED <<ret, i, res, wait, fds, moved, serving, tables, timeout, flags, terminate, killed, ready, bound>>

\* Mutant: the table is gone through although it has changed.
DispatchSockAll ==
    LET ty == EventTypes[kind]
    IN  \/ /\ i > Len(table[ty])
           /\ EndTable
        \/ /\ i <= Len(table[ty])
           /\ Step("sock", "sock")
           /\ serving' = IF table[ty][i] \in fds[ty] THEN <<ty, table[ty][i]>> ELSE None
           /\ i' = i + 1
           /\ UNCHANGED <<ret, kind, res, wait, fds, moved, tables, timeout, flags, terminate, killed, ready, bound>>

DispatchSock ==
    LET ty == EventTypes[kind]
    IN  \/ /\ changed[ty] \/ i > Len(table[ty])
           /\ EndTable
        \/ /\ ~changed[ty] /\ i <= Len(table[ty])
           /\ Step("sock", "sock")
           /\ serving' = IF table[ty][i] \in fds[ty] THEN <<ty, table[ty][i]>> ELSE None
           /\ i' = i + 1
           /\ UNCHANGED <<ret, kind, res, wait, fds, moved, tables, timeout, flags, terminate, killed, ready, bound>>

\* The callback returns.
Return ==
    /\ ~killed /\ serving # None
    /\ serving' = None
    /\ UNCHANGED <<loop, tables, timeout, flags, terminate, killed, ready, bound>>

Loop ==
    \/ Top \/ AfterPending \/ Prepare \/ Select
    \/ ProcessSignals \/ ClearSignaled \/ StopAlarm \/ ClearPending \/ NextSignal
    \/ CheckTimeout \/ CheckTables \/ DispatchTable \/ DispatchSock
    \/ Return

-----------------------------------------------------------------------------
(* Signals, sockets and time.                                                *)

\* eloop_handle_signal(), at any point of the program.  A select() it finds
\* blocked fails with EINTR.
HandleSignal(sig) ==
    /\ ~killed /\ bound.signal < MaxSignals
    /\ \E n \in 1..Len(signals) :
        /\ signals[n].sig = sig
        /\ signals' = [signals EXCEPT ![n].signaled = TRUE]
    /\ bound' = [bound EXCEPT !.signal = @ + 1]
    /\ signaled' = TRUE
    /\ IF sig \in Terminating /\ ~pending_terminate
         THEN /\ pending_terminate' = TRUE
              /\ alarm' = AlarmSecs
         ELSE UNCHANGED <<pending_terminate, alarm>>
    /\ IF at = "select"
         THEN /\ at' = "signaled?"
              /\ Returned(-1)
         ELSE UNCHANGED <<at, res, ret, changed>>
    /\ UNCHANGED <<kind, i, wait, fds, moved, serving, table, max_sock, timeout, terminate, killed, ready>>

\* eloop_handle_alarm().
HandleAlarm ==
    /\ ~killed /\ alarm = 0
    /\ killed' = TRUE
    /\ UNCHANGED <<loop, serving, tables, timeout, flags, terminate, ready, bound>>

Arrive(ty, fd) ==
    /\ ~killed /\ bound.arrival < MaxArrivals
    /\ fd \notin ready[ty]
    /\ bound' = [bound EXCEPT !.arrival = @ + 1]
    /\ ready' = [ready EXCEPT ![ty] = @ \cup {fd}]
    /\ UNCHANGED <<loop, serving, tables, timeout, flags, terminate, killed>>

\* A second passes.  select() and alarm() do not wait longer than they should.
Tick ==
    /\ ~killed /\ alarm # 0
    /\ at = "select" => wait # 0 /\ \A ty \in Types : Pending(ty) = {}
    /\ timeout' = [n \in DOMAIN timeout |->
                    [timeout[n] EXCEPT !.left = IF @ = -1 THEN -1 ELSE @ - 1]]
    /\ wait' = IF at = "select" /\ wait > 0 THEN wait - 1 ELSE wait
    /\ alarm' = IF alarm > 0 THEN alarm - 1 ELSE alarm
    /\ UNCHANGED <<at, ret, kind, i, res, fds, moved, serving, tables, signals, signaled, pending_terminate, terminate, killed, ready, bound>>

Environment ==
    \/ \E sig \in Sigs : HandleSignal(sig)
    \/ \E ty \in Used, fd \in Fds : Arrive(ty, fd)
    \/ HandleAlarm

Next == Run \/ Application \/ Loop \/ Environment \/ Tick

Spec == Init /\ [][Next]_vars

\* The program goes on, its callbacks return, and time passes.
FairSpec == Spec /\ WF_vars(Loop) /\ WF_vars(Tick) /\ WF_vars(HandleAlarm)

-----------------------------------------------------------------------------
(* Properties.                                                               *)

\* A callback of a reader is never called for what select() found on another
\* socket that had the same number: neither the callbacks of signals and
\* timeouts nor those of other readers can make the results stale.
NoStaleRead == [][\A fd \in Fds : serving' = <<"read", fd>> /\ serving = None => fd \notin moved]_vars

\* eloop.h: "The handler function will be called whenever the that event is
\* triggered for the socket", whatever the kind of event: never for an event of
\* the socket that had its number before.
NoStaleCall ==
    [][\A ty \in Types, fd \in Fds : serving' = <<ty, fd>> /\ serving = None => fd \notin moved]_vars

\* An event on a registered socket is reported to its callback, unless the
\* event, the registration or the loop goes away.
SocketServed ==
    \A ty \in Used, fd \in Fds :
        (at # "off" /\ fd \in Socks(ty) /\ fd \in ready[ty]) ~>
            (serving = <<ty, fd>> \/ fd \notin Socks(ty) \/ fd \notin ready[ty] \/ at = "off" \/ killed)

\* select() sleeps no longer than any timeout has left.
NoOversleep ==
    at = "select" =>
        \A n \in 1..Len(timeout) : wait # -1 /\ (wait <= timeout[n].left \/ wait = 0)

\* The timeout whose callback is called is due, and no other was due before it.
EarliestFirst ==
    [][\A t \in Timers : serving' = <<"timer", t>> /\ serving = None =>
        \E n \in 1..Len(timeout) :
            /\ timeout[n].timer = t /\ timeout[n].left <= 0
            /\ \A m \in 1..Len(timeout) : timeout[n].left <= timeout[m].left]_vars

\* A registered timeout is reported to its callback or cancelled.
TimeoutServed ==
    \A t \in Timers :
        (at # "off" /\ Registered(t)) ~> (serving = <<"timer", t>> \/ ~Registered(t) \/ at = "off" \/ killed)

\* The loop does not block when it has been asked to end.
NoBlockAfterTerminate == at \in {"prepare", "select"} => ~terminate

\* The alarm runs exactly while a terminating signal waits to be processed, so
\* that one that has been processed never kills the program.
AlarmWhilePending ==
    /\ alarm # -1 => pending_terminate
    /\ pending_terminate => alarm # -1 \/ at = "pending=0"

\* A loop that is asked to end does.
TerminateEnds == (terminate /\ at # "off") ~> (at = "off" \/ killed)
=============================================================================
