--------------------------- MODULE WpaCtrl_proofs ---------------------------
(***************************************************************************)
(* Theorems about WpaCtrl for every limit, every length of the supplicant's *)
(* queue and any number of requests.                                        *)
(***************************************************************************)
EXTENDS WpaCtrl, TLAPS

\* Where the request stands says how long it has taken so far.
Clock ==
    /\ age # -1 => age >= 0
    /\ rpc \in {"send", "sleep"} => restarts = 0
    /\ rpc = "send" => spent = IF age = -1 THEN 0 ELSE age
    /\ rpc = "sleep" => age \in 0..SendLimit /\ spent = age
    /\ rpc = "wait" => spent + left <= Budget(restarts)

LEMMA Limits ==
    /\ SendLimit \in Nat /\ ReplyLimit \in Nat /\ QueueLen \in Nat
    /\ MaxCalls \in Nat /\ MaxEvents \in Nat /\ MaxBusy \in Nat
    /\ SendLimit > 0 /\ ReplyLimit > 0 /\ QueueLen > 0
BY WCAssumption DEF WCAssumption

LEMMA BudgetGrows ==
    ASSUME NEW r \in Nat
    PROVE  /\ Budget(r) \in Nat
           /\ Budget(r) >= SendLimit + 1 + ReplyLimit
           /\ Budget(r + 1) = Budget(r) + ReplyLimit
<1>1. ReplyLimit * (r + 1) = ReplyLimit * r + ReplyLimit
  BY Limits
<1>2. ReplyLimit * ((r + 1) + 1) = ReplyLimit * r + ReplyLimit + ReplyLimit
  BY Limits
<1>3. ReplyLimit * r \in Nat
  BY Limits
<1> QED
  BY Limits, <1>1, <1>2, <1>3 DEF Budget

Counts == [event: 0..MaxEvents, intr: 0..MaxEvents, busy: 0..MaxBusy]

LEMMA CountsStep ==
    ASSUME NEW o \in Counts, NEW n \in Nat
    PROVE  /\ n \in 0..MaxEvents => [o EXCEPT !.event = n] \in Counts
           /\ n \in 0..MaxEvents => [o EXCEPT !.intr = n] \in Counts
           /\ n \in 0..MaxBusy => [o EXCEPT !.busy = n] \in Counts
BY DEF Counts

LEMMA TypeStep ==
    ASSUME TypeOK, rpc = "sleep" => age <= SendLimit, [Next]_vars
    PROVE  TypeOK'
<1> USE Limits DEF TypeOK, sockets
<1>0. 0 \in 0..MaxCalls
  OBVIOUS
<1>a. others \in Counts
  BY DEF Counts
<1>1. CASE Request
  BY <1>1 DEF Request
<1>2. CASE SendOk
  <2>1. toSup' \in Seq(0..MaxCalls) /\ Len(toSup') <= QueueLen
    BY <1>2 DEF SendOk
  <2> QED
    BY <1>2, <2>1 DEF SendOk, Select
<1>3. CASE SendAgain
  BY <1>3 DEF SendAgain, Return
<1>4. CASE SendError
  BY <1>4 DEF SendError, Return
<1>5. CASE ReceiveEvent
  BY <1>5 DEF ReceiveEvent, Select
<1>6. CASE ReceiveReply
  BY <1>6 DEF ReceiveReply, Return
<1>7. CASE SelectTimeout
  BY <1>7 DEF SelectTimeout, Return
<1>8. CASE Answer
  <2>1. /\ Head(toSup) \in 0..MaxCalls
        /\ Tail(toSup) \in Seq(0..MaxCalls)
        /\ Len(Tail(toSup)) <= QueueLen
    BY <1>8 DEF Answer
  <2>2. Append(toCtl, Head(toSup)) \in Seq(0..MaxCalls)
    BY <2>1
  <2>3. toCtl' \in Seq(0..MaxCalls)
    BY <1>8, <2>2 DEF Answer
  <2> QED
    BY <1>8, <2>1, <2>3 DEF Answer
<1>9. CASE Tick
  <2>1. UNCHANGED <<calls, res, got, toSup, toCtl, restarts, others>>
    BY <1>9, Zenon DEF Tick
  <2>2. alive' = alive /\ timedOut' = timedOut
    BY <1>9, Zenon DEF Tick
  <2>3. alive' \in BOOLEAN /\ timedOut' \in BOOLEAN
    BY <2>2, Zenon
  <2>4. /\ rpc' \in {"idle", "send", "sleep", "wait"}
        /\ age' \in -1..SendLimit + 1 /\ left' \in 0..ReplyLimit /\ spent' \in Nat
    BY <1>9 DEF Tick
  <2> HIDE <1>9
  <2> QED
    BY <2>1, <2>3, <2>4
<1>10. CASE SelectInterrupted
  <2>1. others.intr \in 0..MaxEvents /\ others.intr < MaxEvents
    BY <1>10 DEF SelectInterrupted
  <2>2. others.intr + 1 \in Nat /\ others.intr + 1 \in 0..MaxEvents
    BY <2>1
  <2>3. others' \in Counts
    BY <1>10, <1>a, <2>2, CountsStep DEF SelectInterrupted
  <2> HIDE DEF TypeOK
  <2>4. /\ rpc' = "wait" /\ left' = ReplyLimit /\ restarts' = restarts + 1
        /\ calls' = calls /\ res' = res /\ got' = got /\ age' = age /\ spent' = spent
        /\ toSup' = toSup /\ toCtl' = toCtl /\ alive' = alive /\ timedOut' = timedOut
    BY <1>10, Zenon DEF SelectInterrupted, Select
  <2> HIDE <1>10
  <2>5. alive' \in BOOLEAN /\ timedOut' \in BOOLEAN
    BY <2>4, Zenon DEF TypeOK
  <2> QED
    BY <2>3, <2>4, <2>5 DEF Counts, TypeOK
<1>11. CASE SendEvent
  <2>1. others.event \in 0..MaxEvents /\ others.event < MaxEvents
    BY <1>11 DEF SendEvent
  <2>2. others.event + 1 \in Nat /\ others.event + 1 \in 0..MaxEvents
    BY <2>1
  <2>3. others' \in Counts
    BY <1>11, <1>a, <2>2, CountsStep DEF SendEvent
  <2>4. toCtl' \in Seq(0..MaxCalls)
    BY <1>11, <1>0 DEF SendEvent
  <2> QED
    BY <1>11, <2>3, <2>4 DEF SendEvent, Counts
<1>12. CASE OtherClient
  <2>1. others.busy \in 0..MaxBusy /\ others.busy < MaxBusy
    BY <1>12 DEF OtherClient
  <2>2. others.busy + 1 \in Nat /\ others.busy + 1 \in 0..MaxBusy
    BY <2>1
  <2>3. others' \in Counts
    BY <1>12, <1>a, <2>2, CountsStep DEF OtherClient
  <2>4. toSup' \in Seq(0..MaxCalls) /\ Len(toSup') <= QueueLen
    BY <1>12, <1>0 DEF OtherClient
  <2> QED
    BY <1>12, <2>3, <2>4 DEF OtherClient, Counts
<1>13. CASE Die
  <2>1. toSup' \in Seq(0..MaxCalls) /\ Len(toSup') <= QueueLen
    BY <1>13 DEF Die
  <2> QED
    BY <1>13, <2>1 DEF Die
<1>14. CASE UNCHANGED vars
  BY <1>14 DEF vars
<1> QED
  BY <1>1, <1>2, <1>3, <1>4, <1>5, <1>6, <1>7, <1>8, <1>9, <1>10, <1>11, <1>12, <1>13, <1>14
    DEF Next, Ctrl, Environment

LEMMA ClockStep ==
    ASSUME TypeOK, Clock, [Next]_vars
    PROVE  Clock'
<1>0. /\ age \in -1..(SendLimit + 1) /\ left \in 0..ReplyLimit
      /\ restarts \in Nat /\ spent \in Nat
      /\ rpc \in {"idle", "send", "sleep", "wait"}
  BY DEF TypeOK
<1>a. /\ Budget(restarts) \in Nat
      /\ Budget(restarts) >= SendLimit + 1 + ReplyLimit
      /\ Budget(restarts + 1) = Budget(restarts) + ReplyLimit
  BY <1>0, BudgetGrows
<1> USE Limits, <1>0, <1>a DEF Clock, sockets
<1>1. CASE Request
  BY <1>1 DEF Request
<1>2. CASE SendOk
  BY <1>2 DEF SendOk, Select
<1>3. CASE SendAgain
  BY <1>3 DEF SendAgain, Return
<1>4. CASE SendError
  BY <1>4 DEF SendError, Return
<1>5. CASE ReceiveEvent
  BY <1>5 DEF ReceiveEvent, Select
<1>6. CASE ReceiveReply
  BY <1>6 DEF ReceiveReply, Return
<1>7. CASE SelectTimeout
  BY <1>7 DEF SelectTimeout, Return
<1>8. CASE Answer
  BY <1>8 DEF Answer
<1>9. CASE Tick
  <2>1. CASE rpc = "sleep"
    BY <1>9, <2>1 DEF Tick
  <2>2. CASE rpc = "wait"
    <3>1. /\ rpc' = "wait" /\ age' = age /\ restarts' = restarts
          /\ left' = left - 1 /\ spent' = spent + 1
      BY <1>9, <2>2 DEF Tick
    <3>2. spent + left <= Budget(restarts)
      BY <2>2
    <3>3. spent' + left' <= Budget(restarts')
      BY <3>1, <3>2
    <3> QED
      BY <3>1, <3>3
  <2> QED
    BY <1>9, <2>1, <2>2 DEF Tick
<1>10. CASE SelectInterrupted
  BY <1>10 DEF SelectInterrupted, Select
<1>11. CASE SendEvent
  BY <1>11 DEF SendEvent
<1>12. CASE OtherClient
  BY <1>12 DEF OtherClient
<1>13. CASE Die
  BY <1>13 DEF Die
<1>14. CASE UNCHANGED vars
  BY <1>14 DEF vars
<1> QED
  BY <1>1, <1>2, <1>3, <1>4, <1>5, <1>6, <1>7, <1>8, <1>9, <1>10, <1>11, <1>12, <1>13, <1>14
    DEF Next, Ctrl, Environment

LEMMA TypeAndClock == Spec => [](TypeOK /\ Clock)
<1>1. Init => TypeOK /\ Clock
  <2> SUFFICES ASSUME Init PROVE TypeOK /\ Clock
    OBVIOUS
  <2>1. toSup \in Seq(0..MaxCalls) /\ toCtl \in Seq(0..MaxCalls) /\ Len(toSup) = 0
    BY DEF Init
  <2>2. others \in [event: 0..MaxEvents, intr: 0..MaxEvents, busy: 0..MaxBusy]
    BY Limits DEF Init
  <2>3. timedOut \in BOOLEAN /\ alive \in BOOLEAN
    BY DEF Init
  <2>4. TypeOK
    BY <2>1, <2>2, <2>3, Limits DEF Init, TypeOK
  <2>5. Clock
    BY Limits DEF Init, Clock, Budget
  <2> QED
    BY <2>4, <2>5
<1>2. TypeOK /\ Clock /\ [Next]_vars => (TypeOK /\ Clock)'
  <2> SUFFICES ASSUME TypeOK, Clock, [Next]_vars PROVE TypeOK' /\ Clock'
    OBVIOUS
  <2>1. rpc = "sleep" => age <= SendLimit
    BY Limits DEF TypeOK, Clock
  <2> QED
    BY <2>1, TypeStep, ClockStep
<1> QED
  BY <1>1, <1>2, PTL DEF Spec

\* Every variable keeps its type: the second in which send() is given up, and
\* the supplicant's queue, are never exceeded.
THEOREM TypeCorrect == Spec => []TypeOK
BY TypeAndClock, PTL

\* A request takes at most the seconds of send() and of each select(), for
\* every value of the two limits.
THEOREM CallIsBounded == Spec => []BoundedCall
<1>1. TypeOK /\ Clock => BoundedCall
  <2> SUFFICES ASSUME TypeOK, Clock, rpc # "idle" PROVE spent <= Budget(restarts)
    BY DEF BoundedCall
  <2>1. Budget(restarts) >= SendLimit + 1 + ReplyLimit /\ Budget(restarts) \in Nat
    BY BudgetGrows DEF TypeOK
  <2> QED
    BY <2>1, Limits DEF TypeOK, Clock
<1> QED
  BY <1>1, TypeAndClock, PTL

-----------------------------------------------------------------------------
LEMMA AppendAt ==
    ASSUME NEW S, NEW s \in Seq(S), NEW e \in S
    PROVE  /\ Append(s, e) \in Seq(S) /\ Len(Append(s, e)) = Len(s) + 1
           /\ \A i \in 1..Len(s) : Append(s, e)[i] = s[i]
           /\ Append(s, e)[Len(s) + 1] = e
OBVIOUS

LEMMA TailAt ==
    ASSUME NEW S, NEW s \in Seq(S), s # <<>>
    PROVE  /\ Tail(s) \in Seq(S) /\ Len(Tail(s)) = Len(s) - 1 /\ Len(s) \in Nat \ {0}
           /\ \A i \in 1..(Len(s) - 1) : Tail(s)[i] = s[i + 1]
           /\ Head(s) = s[1]
OBVIOUS

\* Growing(s): the numbers of requests in s grow.  Before(s, t): those in s are
\* smaller than those in t.  Below(s, n): they are smaller than n.
Growing(s) == \A i, j \in 1..Len(s) : i < j /\ s[i] # 0 /\ s[j] # 0 => s[i] < s[j]
Before(s, t) == \A i \in 1..Len(s), j \in 1..Len(t) : s[i] # 0 /\ t[j] # 0 => s[i] < t[j]
Below(s, n) == \A i \in 1..Len(s) : s[i] < n

LEMMA AppendKeepsOrder ==
    ASSUME NEW s \in Seq(Nat), NEW t \in Seq(Nat), NEW e \in Nat, NEW n \in Nat
    PROVE  /\ Growing(s) /\ (e = 0 \/ Below(s, e)) => Growing(Append(s, e))
           /\ Before(s, t) /\ (e = 0 \/ Below(s, e)) => Before(s, Append(t, e))
           /\ Below(s, n) /\ e < n => Below(Append(s, e), n)
<1> DEFINE a == Append(s, e)
           b == Append(t, e)
<1>1. /\ Len(a) = Len(s) + 1 /\ Len(s) \in Nat
      /\ \A i \in 1..Len(s) : a[i] = s[i]
      /\ a[Len(s) + 1] = e
  BY AppendAt
<1>2. /\ Len(b) = Len(t) + 1 /\ Len(t) \in Nat
      /\ \A i \in 1..Len(t) : b[i] = t[i]
      /\ b[Len(t) + 1] = e
  BY AppendAt
<1>3. \A i \in 1..Len(s) : s[i] \in Nat
  OBVIOUS
<1> HIDE DEF a, b
<1>4. Growing(s) /\ (e = 0 \/ Below(s, e)) => Growing(a)
  <2> SUFFICES ASSUME Growing(s), e = 0 \/ Below(s, e),
                      NEW i \in 1..Len(a), NEW j \in 1..Len(a), i < j, a[i] # 0, a[j] # 0
               PROVE  a[i] < a[j]
    BY DEF Growing
  <2>1. i \in 1..Len(s) /\ a[i] = s[i]
    BY <1>1
  <2>2. CASE j \in 1..Len(s)
    BY <1>1, <2>1, <2>2 DEF Growing
  <2>3. CASE j = Len(s) + 1
    BY <1>1, <2>1, <2>3 DEF Below
  <2>4. j \in 1..Len(s) \/ j = Len(s) + 1
    <3>1. Len(a) = Len(s) + 1 /\ Len(s) \in Nat
      BY <1>1
    <3>2. j \in Int /\ 1 <= j /\ j <= Len(s) + 1
      BY <3>1
    <3> QED
      BY <3>1, <3>2
  <2> QED
    BY <2>2, <2>3, <2>4
<1>5. Before(s, t) /\ (e = 0 \/ Below(s, e)) => Before(s, b)
  <2> SUFFICES ASSUME Before(s, t), e = 0 \/ Below(s, e),
                      NEW i \in 1..Len(s), NEW j \in 1..Len(b), s[i] # 0, b[j] # 0
               PROVE  s[i] < b[j]
    BY DEF Before
  <2>1. CASE j \in 1..Len(t)
    BY <1>2, <2>1 DEF Before
  <2>2. CASE j = Len(t) + 1
    BY <1>2, <2>2 DEF Below
  <2> QED
    BY <1>2, <2>1, <2>2
<1>6. Below(s, n) /\ e < n => Below(a, n)
  <2> SUFFICES ASSUME Below(s, n), e < n, NEW i \in 1..Len(a) PROVE a[i] < n
    BY DEF Below
  <2>1. i \in 1..Len(s) \/ i = Len(s) + 1
    BY <1>1
  <2> QED
    BY <1>1, <2>1 DEF Below
<1> QED
  BY <1>4, <1>5, <1>6 DEF a, b

LEMMA TailKeepsOrder ==
    ASSUME NEW s \in Seq(Nat), NEW t \in Seq(Nat), NEW n \in Nat, s # <<>>
    PROVE  /\ Growing(s) => Growing(Tail(s))
           /\ Before(s, t) => Before(Tail(s), t)
           /\ Before(t, s) => Before(t, Tail(s))
           /\ Below(s, n) => Below(Tail(s), n)
<1> DEFINE a == Tail(s)
<1>1. /\ Len(a) = Len(s) - 1 /\ Len(s) \in Nat
      /\ \A i \in 1..(Len(s) - 1) : a[i] = s[i + 1]
  BY TailAt
<1> HIDE DEF a
<1>2. Growing(s) => Growing(a)
  <2> SUFFICES ASSUME Growing(s), NEW i \in 1..Len(a), NEW j \in 1..Len(a),
                      i < j, a[i] # 0, a[j] # 0
               PROVE  a[i] < a[j]
    BY DEF Growing
  <2>1. a[i] = s[i + 1] /\ a[j] = s[j + 1] /\ i + 1 \in 1..Len(s) /\ j + 1 \in 1..Len(s)
    BY <1>1
  <2> QED
    BY <2>1 DEF Growing
<1>3. Before(s, t) => Before(a, t)
  <2> SUFFICES ASSUME Before(s, t), NEW i \in 1..Len(a), NEW j \in 1..Len(t), a[i] # 0, t[j] # 0
               PROVE  a[i] < t[j]
    BY DEF Before
  <2>1. a[i] = s[i + 1] /\ i + 1 \in 1..Len(s)
    BY <1>1
  <2> QED
    BY <2>1 DEF Before
<1>4. Before(t, s) => Before(t, a)
  <2> SUFFICES ASSUME Before(t, s), NEW i \in 1..Len(t), NEW j \in 1..Len(a), t[i] # 0, a[j] # 0
               PROVE  t[i] < a[j]
    BY DEF Before
  <2>1. a[j] = s[j + 1] /\ j + 1 \in 1..Len(s)
    BY <1>1
  <2> QED
    BY <2>1 DEF Before
<1>5. Below(s, n) => Below(a, n)
  <2> SUFFICES ASSUME Below(s, n), NEW i \in 1..Len(a) PROVE a[i] < n
    BY DEF Below
  <2>1. a[i] = s[i + 1] /\ i + 1 \in 1..Len(s)
    BY <1>1
  <2> QED
    BY <2>1 DEF Below
<1> QED
  BY <1>2, <1>3, <1>4, <1>5 DEF a

\* The oldest request of the supplicant becomes the youngest reply.
LEMMA MoveKeepsOrder ==
    ASSUME NEW s \in Seq(Nat), NEW t \in Seq(Nat), t # <<>>,
           Growing(s), Growing(t), Before(s, t)
    PROVE  /\ Growing(Append(s, Head(t)))
           /\ Before(Append(s, Head(t)), Tail(t))
<1> DEFINE a == Append(s, Head(t))
           b == Tail(t)
<1>1. Head(t) = t[1] /\ t[1] \in Nat /\ 1 \in 1..Len(t) /\ Len(t) \in Nat
  BY TailAt
<1>2. /\ Len(a) = Len(s) + 1 /\ Len(s) \in Nat
      /\ \A i \in 1..Len(s) : a[i] = s[i]
      /\ a[Len(s) + 1] = t[1]
  BY <1>1, AppendAt
<1>3. /\ Len(b) = Len(t) - 1
      /\ \A i \in 1..(Len(t) - 1) : b[i] = t[i + 1]
  BY TailAt
<1> HIDE DEF a, b
<1>4. Growing(a)
  <2> SUFFICES ASSUME NEW i \in 1..Len(a), NEW j \in 1..Len(a), i < j, a[i] # 0, a[j] # 0
               PROVE  a[i] < a[j]
    BY DEF Growing
  <2>1. i \in 1..Len(s) /\ a[i] = s[i]
    BY <1>2
  <2>2. CASE j \in 1..Len(s)
    BY <1>2, <2>1, <2>2 DEF Growing
  <2>3. CASE j = Len(s) + 1
    BY <1>1, <1>2, <2>1, <2>3 DEF Before
  <2> QED
    BY <1>2, <2>2, <2>3
<1>5. Before(a, b)
  <2> SUFFICES ASSUME NEW i \in 1..Len(a), NEW j \in 1..Len(b), a[i] # 0, b[j] # 0
               PROVE  a[i] < b[j]
    BY DEF Before
  <2>1. b[j] = t[j + 1] /\ j + 1 \in 1..Len(t) /\ 1 < j + 1
    BY <1>1, <1>3
  <2>2. CASE i \in 1..Len(s)
    BY <1>2, <2>1, <2>2 DEF Before
  <2>3. CASE i = Len(s) + 1
    BY <1>1, <1>2, <2>1, <2>3 DEF Growing
  <2> QED
    BY <1>2, <2>2, <2>3
<1> QED
  BY <1>4, <1>5 DEF a, b

-----------------------------------------------------------------------------
\* The numbers in the two sockets grow from the reply that comes next to the
\* request sent last; a request that is being sent is in neither.
InOrder ==
    /\ Growing(toCtl) /\ Growing(toSup) /\ Before(toCtl, toSup)
    /\ Below(toCtl, calls + 1) /\ Below(toSup, calls + 1)
    /\ rpc \in {"send", "sleep"} => Below(toCtl, calls) /\ Below(toSup, calls) /\ calls > 0

LEMMA BelowMore ==
    ASSUME NEW s \in Seq(Nat), NEW n \in Nat, Below(s, n)
    PROVE  Below(s, n + 1)
BY DEF Below

LEMMA HeadBelow ==
    ASSUME NEW s \in Seq(Nat), NEW n \in Nat, s # <<>>, Below(s, n)
    PROVE  Head(s) \in Nat /\ Head(s) < n
BY TailAt DEF Below

LEMMA TypeIsNat ==
    ASSUME TypeOK
    PROVE  toCtl \in Seq(Nat) /\ toSup \in Seq(Nat) /\ calls \in Nat
<1>1. \A s \in Seq(0..MaxCalls) : s \in Seq(Nat)
  <2> SUFFICES ASSUME NEW s \in Seq(0..MaxCalls) PROVE s \in Seq(Nat)
    OBVIOUS
  <2>1. \A i \in 1..Len(s) : s[i] \in Nat
    BY Limits
  <2>2. s = [i \in 1..Len(s) |-> s[i]] /\ Len(s) \in Nat
    OBVIOUS
  <2> QED
    BY <2>1, <2>2
<1> QED
  BY <1>1, Limits DEF TypeOK

LEMMA OrderStep ==
    ASSUME TypeOK, InOrder, [Next]_vars
    PROVE  InOrder'
<1>0. toCtl \in Seq(Nat) /\ toSup \in Seq(Nat) /\ calls \in Nat /\ calls + 1 \in Nat
  BY TypeIsNat
<1> USE <1>0 DEF InOrder
<1>1. CASE Request
  <2>1. rpc' = "send" /\ calls' = calls + 1 /\ UNCHANGED <<toCtl, toSup>>
    BY <1>1 DEF Request, sockets
  <2>2. Below(toCtl, calls + 1 + 1) /\ Below(toSup, calls + 1 + 1)
    BY BelowMore
  <2> QED
    BY <2>1, <2>2
<1>2. CASE SendOk
  <2>1. /\ rpc = "send" /\ rpc' = "wait" /\ UNCHANGED <<calls, toCtl>>
        /\ toSup' = Append(toSup, calls)
    BY <1>2 DEF SendOk, Select
  <2>2. Growing(toSup') /\ Before(toCtl', toSup') /\ Below(toSup', calls' + 1)
    BY <2>1, AppendKeepsOrder
  <2> QED
    BY <2>1, <2>2
<1>3. CASE SendAgain
  BY <1>3 DEF SendAgain, Return, sockets
<1>4. CASE SendError
  BY <1>4 DEF SendError, Return, sockets
<1>5. CASE ReceiveEvent \/ ReceiveReply
  <2>1. /\ rpc' \in {"wait", "idle"} /\ UNCHANGED <<calls, toSup>>
        /\ toCtl # <<>> /\ toCtl' = Tail(toCtl)
    BY <1>5 DEF ReceiveEvent, ReceiveReply, Return, Select
  <2>2. Growing(toCtl') /\ Before(toCtl', toSup') /\ Below(toCtl', calls' + 1)
    BY <2>1, TailKeepsOrder
  <2> QED
    BY <2>1, <2>2
<1>7. CASE SelectTimeout
  BY <1>7 DEF SelectTimeout, Return, sockets
<1>8. CASE Answer
  <2>1. toSup # <<>> /\ toSup' = Tail(toSup) /\ UNCHANGED <<rpc, calls>>
    BY <1>8 DEF Answer
  <2>2. Growing(toSup') /\ Before(toCtl, toSup') /\ Below(toSup', calls' + 1)
    BY <2>1, TailKeepsOrder
  <2>3. rpc \in {"send", "sleep"} => Below(toSup', calls')
    BY <2>1, TailKeepsOrder
  <2>4. CASE Head(toSup) = 0
    <3>1. toCtl' = toCtl
      BY <1>8, <2>4 DEF Answer
    <3> QED
      BY <2>1, <2>2, <2>3, <3>1
  <2>5. CASE Head(toSup) # 0
    <3>1. toCtl' = Append(toCtl, Head(toSup))
      BY <1>8, <2>5 DEF Answer
    <3>2. Growing(toCtl') /\ Before(toCtl', toSup')
      BY <2>1, <3>1, MoveKeepsOrder
    <3>3. Head(toSup) \in Nat /\ Head(toSup) < calls + 1
      BY <2>1, HeadBelow
    <3>4. Below(toCtl', calls' + 1)
      BY <2>1, <3>1, <3>3, AppendKeepsOrder
    <3>5. rpc \in {"send", "sleep"} => Below(toCtl', calls')
      BY <2>1, <3>1, <3>3, HeadBelow, AppendKeepsOrder
    <3> QED
      BY <2>1, <2>2, <2>3, <3>2, <3>4, <3>5
  <2> QED
    BY <2>4, <2>5
<1>9. CASE Tick
  <2>1. UNCHANGED <<calls, toCtl, toSup>>
    BY <1>9 DEF Tick, sockets
  <2>2. rpc' \in {"send", "sleep"} => rpc \in {"send", "sleep"}
    BY <1>9 DEF Tick
  <2> QED
    BY <2>1, <2>2
<1>10. CASE SelectInterrupted
  BY <1>10 DEF SelectInterrupted, Select, sockets
<1>11. CASE SendEvent
  <2>1. UNCHANGED <<rpc, calls, toSup>> /\ toCtl' = Append(toCtl, 0)
    BY <1>11 DEF SendEvent
  <2>2. Growing(toCtl') /\ Below(toCtl', calls' + 1)
    BY <2>1, AppendKeepsOrder
  <2>3. Before(toCtl', toSup')
    <3>1. /\ Len(toCtl') = Len(toCtl) + 1 /\ Len(toCtl) \in Nat
          /\ \A i \in 1..Len(toCtl) : toCtl'[i] = toCtl[i]
          /\ toCtl'[Len(toCtl) + 1] = 0
      BY <2>1, AppendAt
    <3> SUFFICES ASSUME NEW i \in 1..Len(toCtl'), NEW j \in 1..Len(toSup),
                        toCtl'[i] # 0, toSup[j] # 0
                 PROVE  toCtl'[i] < toSup[j]
      BY <2>1 DEF Before
    <3>2. i \in 1..Len(toCtl) /\ toCtl'[i] = toCtl[i]
      BY <3>1
    <3> QED
      BY <3>2 DEF Before
  <2>4. rpc \in {"send", "sleep"} => Below(toCtl', calls')
    BY <2>1, AppendKeepsOrder
  <2> QED
    BY <2>1, <2>2, <2>3, <2>4
<1>12. CASE OtherClient
  <2>1. UNCHANGED <<rpc, calls, toCtl>> /\ toSup' = Append(toSup, 0)
    BY <1>12 DEF OtherClient
  <2>2. Growing(toSup') /\ Before(toCtl', toSup') /\ Below(toSup', calls' + 1)
    BY <2>1, AppendKeepsOrder
  <2>3. rpc \in {"send", "sleep"} => Below(toSup', calls')
    BY <2>1, AppendKeepsOrder
  <2> QED
    BY <2>1, <2>2, <2>3
<1>13. CASE Die
  <2>1. UNCHANGED <<rpc, calls, toCtl>> /\ toSup' = <<>>
    BY <1>13 DEF Die
  <2> QED
    BY <2>1 DEF Growing, Before, Below
<1>14. CASE UNCHANGED vars
  BY <1>14 DEF vars
<1> QED
  BY <1>1, <1>2, <1>3, <1>4, <1>5, <1>7, <1>8, <1>9, <1>10, <1>11, <1>12, <1>13, <1>14
    DEF Next, Ctrl, Environment

LEMMA Order == Spec => [](TypeOK /\ InOrder)
<1>1. Init => InOrder
  BY DEF Init, InOrder, Growing, Before, Below
<1>2. TypeOK /\ InOrder /\ [Next]_vars => InOrder'
  BY OrderStep
<1> QED
  BY <1>1, <1>2, TypeCorrect, PTL DEF Spec

\* Replies are used once and in order, however late they come and however many
\* requests were given up before.
THEOREM EachReplyOnce == Spec => RepliesUsedOnce
<1> DEFINE Once == got' # got /\ got' # 0 =>
                     /\ got' <= calls
                     /\ \A i \in DOMAIN toCtl' : toCtl'[i] = 0 \/ toCtl'[i] > got'
<1>1. TypeOK /\ InOrder /\ [Next]_vars => [Once]_vars
  <2> SUFFICES ASSUME TypeOK, InOrder, Next, got' # got, got' # 0 PROVE Once
    OBVIOUS
  <2>1. CASE ReceiveReply
    <3>1. toCtl # <<>> /\ toCtl' = Tail(toCtl) /\ got' = Head(toCtl)
      BY <2>1 DEF ReceiveReply
    <3>2. toCtl \in Seq(Nat) /\ calls \in Nat
      BY TypeIsNat
    <3>3. /\ Len(toCtl') = Len(toCtl) - 1 /\ Len(toCtl) \in Nat \ {0}
          /\ \A i \in 1..(Len(toCtl) - 1) : toCtl'[i] = toCtl[i + 1]
          /\ got' = toCtl[1] /\ toCtl' \in Seq(Nat)
      BY <3>1, <3>2, TailAt
    <3>4. got' <= calls
      BY <3>1, <3>2, HeadBelow DEF InOrder
    <3>5. ASSUME NEW i \in DOMAIN toCtl', toCtl'[i] # 0 PROVE toCtl'[i] > got'
      <4>1. i \in 1..(Len(toCtl) - 1)
        BY <3>3, <3>5
      <4>2. toCtl'[i] = toCtl[i + 1] /\ i + 1 \in 1..Len(toCtl) /\ 1 \in 1..Len(toCtl) /\ 1 < i + 1
        BY <3>3, <4>1
      <4>3. toCtl[1] < toCtl[i + 1]
        BY <3>3, <3>5, <4>2 DEF InOrder, Growing
      <4>4. toCtl[1] \in Nat /\ toCtl[i + 1] \in Nat
        BY <3>2, <4>2
      <4> QED
        BY <3>3, <4>2, <4>3, <4>4
    <3> QED
      BY <3>4, <3>5
  <2>2. ASSUME ~ReceiveReply PROVE got' = 0 \/ got' = got
    BY <2>2 DEF Next, Ctrl, Environment, Request, SendOk, SendAgain, SendError, ReceiveEvent,
      SelectTimeout, Answer, Tick, SelectInterrupted, SendEvent, OtherClient, Die
  <2> QED
    BY <2>1, <2>2
<1> QED
  BY <1>1, Order, PTL DEF Spec, RepliesUsedOnce

-----------------------------------------------------------------------------
\* Only s's last number may be n, the others are 0.
Only(s, n) == \A i \in 1..Len(s) : s[i] \in {0, n}
Empty(s) == \A i \in 1..Len(s) : s[i] = 0

\* While no request has been given up, the sockets hold nothing of earlier
\* requests, and of the current one only while it waits.
Current ==
    ~timedOut =>
        /\ Only(toCtl, calls) /\ Only(toSup, calls)
        /\ rpc # "wait" => Empty(toCtl) /\ Empty(toSup)
        /\ got # 0 => got = calls

LEMMA AppendOnly ==
    ASSUME NEW s \in Seq(Nat), NEW e \in Nat, NEW n \in Nat, Only(s, n), e \in {0, n}
    PROVE  Only(Append(s, e), n) /\ (Empty(s) /\ e = 0 => Empty(Append(s, e)))
BY AppendAt DEF Only, Empty

LEMMA TailOnly ==
    ASSUME NEW s \in Seq(Nat), NEW n \in Nat, Only(s, n), s # <<>>
    PROVE  /\ Only(Tail(s), n) /\ Head(s) \in {0, n}
           /\ Empty(s) => Empty(Tail(s)) /\ Head(s) = 0
<1>1. /\ Len(Tail(s)) = Len(s) - 1 /\ Len(s) \in Nat \ {0}
      /\ \A i \in 1..(Len(s) - 1) : Tail(s)[i] = s[i + 1]
      /\ Head(s) = s[1]
  BY TailAt
<1>2. \A i \in 1..(Len(s) - 1) : i + 1 \in 1..Len(s)
  BY <1>1
<1>3. 1 \in 1..Len(s)
  BY <1>1
<1> QED
  BY <1>1, <1>2, <1>3 DEF Only, Empty

\* Once the number has been taken out, what is left of it in no socket.
LEMMA NothingLeft ==
    ASSUME TypeOK, InOrder, Only(toCtl, calls), Only(toSup, calls), calls # 0,
           toCtl # <<>>, Head(toCtl) = calls
    PROVE  Empty(Tail(toCtl)) /\ Empty(toSup)
<1>0. toCtl \in Seq(Nat) /\ toSup \in Seq(Nat) /\ calls \in Nat
  BY TypeIsNat
<1>1. /\ Len(Tail(toCtl)) = Len(toCtl) - 1 /\ Len(toCtl) \in Nat \ {0}
      /\ \A i \in 1..(Len(toCtl) - 1) : Tail(toCtl)[i] = toCtl[i + 1]
      /\ toCtl[1] = calls
  BY <1>0, TailAt
<1>2. ASSUME NEW i \in 1..(Len(toCtl) - 1) PROVE toCtl[i + 1] = 0
  <2>1. i + 1 \in 1..Len(toCtl) /\ 1 \in 1..Len(toCtl) /\ 1 < i + 1
    BY <1>1, <1>2
  <2>2. toCtl[i + 1] \in {0, calls}
    BY <2>1 DEF Only
  <2>3. toCtl[i + 1] # 0 => calls < toCtl[i + 1]
    BY <1>1, <2>1 DEF InOrder, Growing
  <2> QED
    BY <1>0, <2>2, <2>3
<1>3. ASSUME NEW j \in 1..Len(toSup) PROVE toSup[j] = 0
  <2>1. toSup[j] \in {0, calls} /\ 1 \in 1..Len(toCtl)
    BY <1>1, <1>3 DEF Only
  <2>2. toSup[j] # 0 => calls < toSup[j]
    BY <1>1, <1>3, <2>1 DEF InOrder, Before
  <2> QED
    BY <1>0, <2>1, <2>2
<1> QED
  BY <1>1, <1>2, <1>3 DEF Empty

LEMMA CurrentStep ==
    ASSUME TypeOK, InOrder, Current, [Next]_vars
    PROVE  Current'
<1>0. toCtl \in Seq(Nat) /\ toSup \in Seq(Nat) /\ calls \in Nat
  BY TypeIsNat
<1> USE <1>0 DEF Current
<1>a. ASSUME UNCHANGED <<calls, got, toCtl, toSup, timedOut>>, rpc = "wait" => rpc' = "wait"
      PROVE  Current'
  BY <1>a DEF Only, Empty
<1>1. CASE Request
  <2>1. rpc = "idle" /\ UNCHANGED <<toCtl, toSup, timedOut>> /\ got' = 0
    BY <1>1 DEF Request, sockets
  <2> QED
    BY <2>1 DEF Only, Empty
<1>2. CASE SendOk
  <2>1. /\ rpc = "send" /\ rpc' = "wait" /\ UNCHANGED <<calls, got, toCtl, timedOut>>
        /\ toSup' = Append(toSup, calls)
    BY <1>2 DEF SendOk, Select
  <2> QED
    BY <2>1, AppendOnly
<1>3. CASE SendAgain
  BY <1>a, <1>3 DEF SendAgain, Return, sockets
<1>4. CASE SendError
  BY <1>a, <1>4 DEF SendError, Return, sockets
<1>5. CASE ReceiveEvent
  <2>1. /\ rpc' = "wait" /\ UNCHANGED <<calls, got, toSup, timedOut>>
        /\ toCtl # <<>> /\ toCtl' = Tail(toCtl)
    BY <1>5 DEF ReceiveEvent, Select
  <2> QED
    BY <2>1, TailOnly
<1>6. CASE ReceiveReply
  <2>1. /\ UNCHANGED <<calls, toSup, timedOut>>
        /\ toCtl # <<>> /\ toCtl' = Tail(toCtl) /\ got' = Head(toCtl) /\ got' # 0
    BY <1>6 DEF ReceiveReply
  <2> SUFFICES ASSUME ~timedOut PROVE Current'
    BY <2>1
  <2>2. Only(toCtl', calls) /\ got' = calls
    BY <2>1, TailOnly
  <2>3. Empty(toCtl') /\ Empty(toSup')
    BY <2>1, <2>2, NothingLeft
  <2> QED
    BY <2>1, <2>2, <2>3
<1>7. CASE SelectTimeout
  BY <1>7 DEF SelectTimeout
<1>8. CASE Answer
  <2>1. toSup # <<>> /\ toSup' = Tail(toSup) /\ UNCHANGED <<rpc, calls, got, timedOut>>
    BY <1>8 DEF Answer
  <2>2. toCtl' = toCtl \/ toCtl' = Append(toCtl, Head(toSup))
    BY <1>8 DEF Answer
  <2>3. Head(toSup) \in Nat
    BY <2>1, TailAt
  <2> QED
    BY <2>1, <2>2, <2>3, TailOnly, AppendOnly
<1>9. CASE Tick
  BY <1>a, <1>9 DEF Tick, sockets
<1>10. CASE SelectInterrupted
  BY <1>a, <1>10 DEF SelectInterrupted, Select, sockets
<1>11. CASE SendEvent
  <2>1. UNCHANGED <<rpc, calls, got, toSup, timedOut>> /\ toCtl' = Append(toCtl, 0)
    BY <1>11 DEF SendEvent
  <2> QED
    BY <2>1, AppendOnly
<1>12. CASE OtherClient
  <2>1. UNCHANGED <<rpc, calls, got, toCtl, timedOut>> /\ toSup' = Append(toSup, 0)
    BY <1>12 DEF OtherClient
  <2> QED
    BY <2>1, AppendOnly
<1>13. CASE Die
  <2>1. UNCHANGED <<rpc, calls, got, toCtl, timedOut>> /\ toSup' = <<>>
    BY <1>13 DEF Die
  <2> QED
    BY <2>1 DEF Only, Empty
<1>14. CASE UNCHANGED vars
  BY <1>14 DEF vars
<1> QED
  BY <1>1, <1>2, <1>3, <1>4, <1>5, <1>6, <1>7, <1>8, <1>9, <1>10, <1>11, <1>12, <1>13, <1>14
    DEF Next, Ctrl, Environment

\* Until a request times out, each gets its own reply: whatever the supplicant
\* sends in between, whatever interrupts, fails or dies.
THEOREM RepliesMatch == Spec => []ReplyIsOwn
<1>1. Init => Current
  BY DEF Init, Current, Only, Empty
<1>2. TypeOK /\ InOrder /\ Current /\ [Next]_vars => Current'
  BY CurrentStep
<1>3. Current => ReplyIsOwn
  BY DEF Current, ReplyIsOwn
<1> QED
  BY <1>1, <1>2, <1>3, Order, PTL DEF Spec
=============================================================================
