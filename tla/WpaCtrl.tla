------------------------------ MODULE WpaCtrl -------------------------------
(***************************************************************************)
(* One connection of wpa_ctrl.c to wpa_supplicant: wpa_ctrl_request() over  *)
(* a datagram socket, the supplicant at its other end, and the seconds that *)
(* pass.  Requests are numbered; a reply carries the number of the request  *)
(* it answers, which the real reply does not.                               *)
(***************************************************************************)
EXTENDS Integers, Sequences

CONSTANTS
    SendLimit,    \* seconds send() is retried
    ReplyLimit,   \* tv.tv_sec
    QueueLen,     \* datagrams the supplicant's socket holds
    MaxCalls,     \* bound: requests made
    MaxEvents,    \* bound: unsolicited messages, and interrupted select()s
    MaxBusy,      \* bound: requests of other clients of the supplicant
    Faults        \* "die": the supplicant ends

ASSUME WCAssumption ==
    /\ {SendLimit, ReplyLimit, QueueLen} \subseteq Nat \ {0}
    /\ {MaxCalls, MaxEvents, MaxBusy} \subseteq Nat
    /\ Faults \subseteq {"die"}

VARIABLES
    rpc,       \* where wpa_ctrl_request() is
    calls,     \* the number of the current, or last, request
    res,       \* its result
    got,       \* the request whose reply it took as its own
    age,       \* seconds since started_at, -1 while that is not set
    left,      \* seconds left in select()
    toSup,     \* the requests in the supplicant's socket, 0 for other clients'
    toCtl,     \* the datagrams in ctrl->s: replies and events (0)
    alive,     \* the supplicant runs
    restarts,  \* times the current request started select() anew
    spent,     \* seconds the current request has taken
    others,    \* events, interruptions and other requests so far
    timedOut   \* a request has been given up for its reply

vars == <<rpc, calls, res, got, age, left, toSup, toCtl, alive, restarts, spent, others, timedOut>>
sockets == <<toSup, toCtl, alive>>

Init ==
    /\ rpc = "idle" /\ calls = 0 /\ res = 0 /\ got = 0
    /\ age = -1 /\ left = 0
    /\ toSup = <<>> /\ toCtl = <<>> /\ alive = TRUE
    /\ restarts = 0 /\ spent = 0
    /\ others = [event |-> 0, intr |-> 0, busy |-> 0]
    /\ timedOut = FALSE

-----------------------------------------------------------------------------
(* wpa_ctrl_request().                                                     *)

Request ==
    /\ rpc = "idle" /\ calls < MaxCalls
    /\ rpc' = "send"
    /\ calls' = calls + 1
    /\ got' = 0 /\ age' = -1 /\ restarts' = 0 /\ spent' = 0
    /\ UNCHANGED <<res, left, sockets, others, timedOut>>

Return(r) ==
    /\ rpc' = "idle"
    /\ res' = r

\* select() is called, or called again, with the whole limit.
Select ==
    /\ rpc' = "wait"
    /\ left' = ReplyLimit

SendOk ==
    /\ rpc = "send" /\ alive /\ Len(toSup) < QueueLen
    /\ toSup' = Append(toSup, calls)
    /\ Select
    /\ UNCHANGED <<calls, res, got, age, toCtl, alive, restarts, spent, others, timedOut>>

\* Mutant: started_at is set anew by every failure.
SendAgainAnew ==
    /\ rpc = "send" /\ alive /\ Len(toSup) >= QueueLen
    /\ rpc' = "sleep" /\ age' = 0
    /\ UNCHANGED <<calls, res, got, left, sockets, restarts, spent, others, timedOut>>

\* EAGAIN: sleep for a second and try again, until more than SendLimit
\* seconds have gone by.  age counts whole seconds: at SendLimit the
\* microseconds decide.
SendAgain ==
    /\ rpc = "send" /\ alive /\ Len(toSup) >= QueueLen
    /\ \/ /\ age <= SendLimit
          /\ rpc' = "sleep"
          /\ age' = IF age = -1 THEN 0 ELSE age
          /\ UNCHANGED res
       \/ /\ age >= SendLimit
          /\ Return(-1)
          /\ UNCHANGED age
    /\ UNCHANGED <<calls, got, left, sockets, restarts, spent, others, timedOut>>

\* Mutant: every error of send() is tried again, and at once.
SendErrorAgain ==
    /\ rpc = "send" /\ ~alive
    /\ UNCHANGED vars

\* Any other error of send(): the supplicant is gone.
SendError ==
    /\ rpc = "send" /\ ~alive
    /\ Return(-1)
    /\ UNCHANGED <<calls, got, age, left, sockets, restarts, spent, others, timedOut>>

\* An event, which starts with '<', is not the reply: wait on.
ReceiveEvent ==
    /\ rpc = "wait" /\ toCtl # <<>> /\ Head(toCtl) = 0
    /\ toCtl' = Tail(toCtl)
    /\ Select
    /\ restarts' = restarts + 1
    /\ UNCHANGED <<calls, res, got, age, toSup, alive, spent, others, timedOut>>

\* Mutant: the reply is looked at and not taken out.
ReceiveReplyPeek ==
    /\ rpc = "wait" /\ toCtl # <<>> /\ Head(toCtl) # 0
    /\ got' = Head(toCtl)
    /\ Return(0)
    /\ UNCHANGED <<calls, age, left, sockets, restarts, spent, others, timedOut>>

\* Anything else is taken for the reply.
ReceiveReply ==
    /\ rpc = "wait" /\ toCtl # <<>> /\ Head(toCtl) # 0
    /\ toCtl' = Tail(toCtl)
    /\ got' = Head(toCtl)
    /\ Return(0)
    /\ UNCHANGED <<calls, age, left, toSup, alive, restarts, spent, others, timedOut>>

SelectTimeout ==
    /\ rpc = "wait" /\ toCtl = <<>> /\ left = 0
    /\ Return(-2)
    /\ timedOut' = TRUE
    /\ UNCHANGED <<calls, got, age, left, sockets, restarts, spent, others>>

\* Mutant: EINTR is an error like any other.
SelectInterruptedFails ==
    /\ rpc = "wait" /\ toCtl = <<>>
    /\ others.intr < MaxEvents
    /\ others' = [others EXCEPT !.intr = @ + 1]
    /\ Return(-1)
    /\ UNCHANGED <<calls, got, age, left, sockets, restarts, spent, timedOut>>

\* EINTR.
SelectInterrupted ==
    /\ rpc = "wait" /\ toCtl = <<>>
    /\ others.intr < MaxEvents
    /\ others' = [others EXCEPT !.intr = @ + 1]
    /\ Select
    /\ restarts' = restarts + 1
    /\ UNCHANGED <<calls, res, got, age, sockets, spent, timedOut>>

-----------------------------------------------------------------------------
(* The supplicant.                                                         *)

\* It answers the oldest request; another client's reply goes elsewhere.
Answer ==
    /\ alive /\ toSup # <<>>
    /\ toSup' = Tail(toSup)
    /\ toCtl' = IF Head(toSup) = 0 THEN toCtl ELSE Append(toCtl, Head(toSup))
    /\ UNCHANGED <<rpc, calls, res, got, age, left, alive, restarts, spent, others, timedOut>>

SendEvent ==
    /\ alive /\ others.event < MaxEvents
    /\ others' = [others EXCEPT !.event = @ + 1]
    /\ toCtl' = Append(toCtl, 0)
    /\ UNCHANGED <<rpc, calls, res, got, age, left, toSup, alive, restarts, spent, timedOut>>

OtherClient ==
    /\ alive /\ Len(toSup) < QueueLen /\ others.busy < MaxBusy
    /\ others' = [others EXCEPT !.busy = @ + 1]
    /\ toSup' = Append(toSup, 0)
    /\ UNCHANGED <<rpc, calls, res, got, age, left, toCtl, alive, restarts, spent, timedOut>>

\* Its socket goes with it, and what was in it.
Die ==
    /\ "die" \in Faults /\ alive
    /\ alive' = FALSE
    /\ toSup' = <<>>
    /\ UNCHANGED <<rpc, calls, res, got, age, left, toCtl, restarts, spent, others, timedOut>>

-----------------------------------------------------------------------------
\* A second passes in os_sleep() or in select().
Tick ==
    /\ spent' = spent + 1
    /\ \/ /\ rpc = "sleep"
          /\ rpc' = "send"
          /\ age' = age + 1
          /\ UNCHANGED left
       \/ /\ rpc = "wait" /\ toCtl = <<>> /\ left > 0
          /\ left' = left - 1
          /\ UNCHANGED <<rpc, age>>
    /\ UNCHANGED <<calls, res, got, sockets, restarts, others, timedOut>>

Ctrl ==
    \/ SendOk \/ SendAgain \/ SendError
    \/ ReceiveEvent \/ ReceiveReply \/ SelectTimeout

Environment == SelectInterrupted \/ SendEvent \/ OtherClient \/ Die

Next == Request \/ Ctrl \/ Answer \/ Tick \/ Environment

Spec == Init /\ [][Next]_vars

\* The program runs, time passes, and the supplicant works off its requests
\* while it is alive.
FairSpec == Spec /\ WF_vars(Ctrl) /\ WF_vars(Answer) /\ WF_vars(Tick)

-----------------------------------------------------------------------------
(* Properties.                                                             *)

TypeOK ==
    /\ rpc \in {"idle", "send", "sleep", "wait"}
    /\ calls \in 0..MaxCalls /\ got \in 0..MaxCalls
    /\ res \in {0, -1, -2}
    /\ age \in -1..(SendLimit + 1)
    /\ left \in 0..ReplyLimit
    /\ toSup \in Seq(0..MaxCalls) /\ toCtl \in Seq(0..MaxCalls)
    /\ Len(toSup) <= QueueLen
    /\ alive \in BOOLEAN
    /\ restarts \in Nat /\ spent \in Nat
    /\ others \in [event: 0..MaxEvents, intr: 0..MaxEvents, busy: 0..MaxBusy]
    /\ timedOut \in BOOLEAN

\* A request never takes the reply of a later request, nor the same reply as an
\* earlier one: replies are used once and in order, whatever comes late.
RepliesUsedOnce ==
    [][got' # got /\ got' # 0 =>
        /\ got' <= calls
        /\ \A i \in DOMAIN toCtl' : toCtl'[i] = 0 \/ toCtl'[i] > got']_vars

\* Until a request has timed out, the reply a request returns is its own, however
\* many events, signals and other clients come in between, and whatever failed.
ReplyIsOwn == got # 0 /\ ~timedOut => got = calls

\* wpa_ctrl.h, wpa_ctrl_request(): "This function is used to send commands to
\* wpa_supplicant/hostapd. Received response will be written to reply".
ReplyToCommand == got # 0 => got = calls

\* The seconds of send(), and of select() when it is started r times anew.
Budget(r) == SendLimit + 1 + ReplyLimit * (r + 1)

\* A request ends after the seconds of send(), and of each select().
BoundedCall == rpc # "idle" => spent <= Budget(restarts)

\* Every request returns.
CallReturns == rpc # "idle" ~> rpc = "idle"
=============================================================================
