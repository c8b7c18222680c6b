---------------------------- MODULE Eloop_proofs ----------------------------
(***************************************************************************)
(* Theorems about Eloop for any sockets, timeouts, signals and number of     *)
(* calls.                                                                    *)
(***************************************************************************)
EXTENDS Eloop, FiniteSetTheorems, TLAPS

\* Callbacks run at three places, and never while the loop blocks.
Places ==
    /\ serving # None => at \in {"signals", "check", "sock"}
    /\ at \in {"prepare", "select"} => ~terminate
    /\ ret \in {"top", "pending", "timeout"}
    /\ kind \in 1..3

Alarms ==
    /\ alarm \in Int /\ alarm >= -1
    /\ alarm # -1 => pending_terminate
    /\ pending_terminate => alarm # -1 \/ at = "pending=0"
    /\ at = "pending=0" => pending_terminate /\ alarm = -1

LEMMA LoopSteps ==
    ASSUME Next
    PROVE  \/ Run \/ Application \/ Top \/ AfterPending \/ Prepare \/ Select
           \/ ProcessSignals \/ ClearSignaled \/ StopAlarm \/ ClearPending \/ NextSignal
           \/ CheckTimeout \/ CheckTables \/ DispatchTable \/ DispatchSock \/ Return
           \/ (\E sig \in Sigs : HandleSignal(sig))
           \/ (\E ty \in Used, fd \in Fds : Arrive(ty, fd))
           \/ HandleAlarm \/ Tick
BY DEF Next, Loop, Environment

\* What the application can call leaves the loop where it is.
LEMMA Calls ==
    ASSUME Application
    PROVE  /\ at = "off" \/ serving # None
           /\ UNCHANGED <<at, ret, kind, i, res, wait, fds, serving, killed>>
           /\ UNCHANGED <<pending_terminate, alarm>>
BY DEF Application, Call, RegisterSock, UnregisterSock, Reopen, Consume, RegisterTimeout,
       CancelTimeout, CancelTimeoutOne, DepleteTimeout, ReplenishTimeout, RegisterSignal,
       Terminate, flags

LEMMA Kinds ==
    /\ Len(EventTypes) = 3
    /\ EventTypes[1] = "read" /\ EventTypes[2] # "read" /\ EventTypes[3] # "read"
BY DEF EventTypes

LEMMA DispatchPlaces ==
    ASSUME kind \in 1..3, DispatchSock
    PROVE  /\ at = "sock" /\ serving = None
           /\ \/ at' = "sock" /\ kind' = kind
              \/ at' = "top" /\ kind' = 1
              \/ at' = "table" /\ kind' = kind + 1 /\ kind' \in 1..3
           /\ UNCHANGED <<ret, table, changed, moved, fds, terminate, pending_terminate, alarm>>
           /\ serving' # None => at' = "sock"
<1> DEFINE ty == EventTypes[kind]
<1>1. CASE EndTable
  BY <1>1, Kinds DEF EndTable, Step, tables, flags
<1>2. CASE /\ Step("sock", "sock")
           /\ UNCHANGED <<ret, kind, res, wait, fds, moved, tables, timeout, flags, terminate, killed, ready, bound>>
  BY <1>2 DEF Step, tables, flags
<1> QED
  BY <1>1, <1>2 DEF DispatchSock

LEMMA PlacesStep ==
    ASSUME Places, [Next]_vars
    PROVE  Places'
<1> USE DEF Places, Step, loop, flags, tables
<1>1. CASE Application
  BY <1>1, Calls
<1>2. CASE Run \/ Top \/ AfterPending
  BY <1>2 DEF Run, Top, AfterPending, Leave
<1>3. CASE Prepare
  BY <1>3 DEF Prepare
<1>4. CASE Select
  BY <1>4 DEF Select, Returned
<1>5. CASE ProcessSignals
  BY <1>5 DEF ProcessSignals
<1>6. CASE ClearSignaled
  BY <1>6 DEF ClearSignaled
<1>7. CASE StopAlarm
  BY <1>7 DEF StopAlarm
<1>8. CASE ClearPending
  BY <1>8 DEF ClearPending
<1>9. CASE NextSignal
  BY <1>9 DEF NextSignal
<1>10. CASE CheckTimeout
  BY <1>10 DEF CheckTimeout
<1>11. CASE CheckTables
  BY <1>11 DEF CheckTables
<1>12. CASE DispatchTable
  BY <1>12 DEF DispatchTable
<1>13. CASE DispatchSock
  BY <1>13, DispatchPlaces
<1>14. CASE Return
  BY <1>14 DEF Return
<1>15. CASE \E sig \in Sigs : HandleSignal(sig)
  BY <1>15 DEF HandleSignal, Returned
<1>16. CASE (\E ty \in Used, fd \in Fds : Arrive(ty, fd)) \/ HandleAlarm
  BY <1>16 DEF Arrive, HandleAlarm
<1>17. CASE Tick
  BY <1>17 DEF Tick
<1>18. CASE UNCHANGED vars
  BY <1>18 DEF vars
<1> QED
  BY <1>1, <1>2, <1>3, <1>4, <1>5, <1>6, <1>7, <1>8, <1>9, <1>10, <1>11, <1>12, <1>13, <1>14,
     <1>15, <1>16, <1>17, <1>18, LoopSteps

LEMMA PlacesHold == Spec => []Places
<1>1. Init => Places
  BY DEF Init, Places
<1> QED
  BY <1>1, PlacesStep, PTL DEF Spec

\* The loop never blocks once it has been asked to end.
THEOREM NeverBlocksLate == Spec => []NoBlockAfterTerminate
<1>1. Places => NoBlockAfterTerminate
  BY DEF Places, NoBlockAfterTerminate
<1> QED
  BY <1>1, PlacesHold, PTL

LEMMA AlarmIsNat == AlarmSecs \in Nat /\ AlarmSecs # 0
BY EloopAssumption DEF EloopAssumption

LEMMA AlarmsStep ==
    ASSUME Places, Alarms, [Next]_vars
    PROVE  Alarms'
<1> USE AlarmIsNat DEF Alarms, Step, loop, flags, tables
<1>1. CASE Application
  BY <1>1, Calls
<1>2. CASE Run \/ Top \/ AfterPending
  BY <1>2 DEF Run, Top, AfterPending, Leave
<1>3. CASE Prepare
  BY <1>3 DEF Prepare
<1>4. CASE Select
  BY <1>4 DEF Select
<1>5. CASE ProcessSignals
  BY <1>5 DEF ProcessSignals, Places
<1>6. CASE ClearSignaled
  BY <1>6 DEF ClearSignaled
<1>7. CASE StopAlarm
  BY <1>7 DEF StopAlarm
<1>8. CASE ClearPending
  BY <1>8 DEF ClearPending
<1>9. CASE NextSignal
  BY <1>9 DEF NextSignal, Places
<1>10. CASE CheckTimeout
  BY <1>10 DEF CheckTimeout
<1>11. CASE CheckTables
  BY <1>11 DEF CheckTables
<1>12. CASE DispatchTable
  BY <1>12 DEF DispatchTable
<1>13. CASE DispatchSock
  BY <1>13 DEF DispatchSock, EndTable
<1>14. CASE Return
  BY <1>14 DEF Return
<1>15. CASE \E sig \in Sigs : HandleSignal(sig)
  <2>1. CASE pending_terminate
    <3>1. UNCHANGED <<alarm, pending_terminate>>
      BY <1>15, <2>1 DEF HandleSignal
    <3>2. at' = "pending=0" <=> at = "pending=0"
      BY <1>15 DEF HandleSignal
    <3> QED
      BY <3>1, <3>2
  <2>2. CASE ~pending_terminate
    <3>1. \/ UNCHANGED <<alarm, pending_terminate>>
          \/ alarm' = AlarmSecs /\ pending_terminate'
      BY <1>15, <2>2 DEF HandleSignal
    <3>2. at # "pending=0" /\ at' # "pending=0"
      BY <1>15, <2>2 DEF HandleSignal
    <3> QED
      BY <3>1, <3>2
  <2> QED
    BY <2>1, <2>2
<1>16. CASE (\E ty \in Used, fd \in Fds : Arrive(ty, fd)) \/ HandleAlarm
  BY <1>16 DEF Arrive, HandleAlarm
<1>17. CASE Tick
  <2>1. alarm' = IF alarm > 0 THEN alarm - 1 ELSE alarm
    BY <1>17 DEF Tick
  <2>2. UNCHANGED <<at, pending_terminate>>
    BY <1>17 DEF Tick
  <2> QED
    BY <2>1, <2>2
<1>18. CASE UNCHANGED vars
  BY <1>18 DEF vars
<1> QED
  BY <1>1, <1>2, <1>3, <1>4, <1>5, <1>6, <1>7, <1>8, <1>9, <1>10, <1>11, <1>12, <1>13, <1>14,
     <1>15, <1>16, <1>17, <1>18, LoopSteps

\* The alarm runs exactly while a terminating signal waits, for every number of
\* signals at every point of the loop.
THEOREM AlarmOnlyWhilePending == Spec => []AlarmWhilePending
<1>1. Init => Alarms
  <2> SUFFICES ASSUME Init PROVE Alarms
    OBVIOUS
  <2>1. alarm = -1 /\ ~pending_terminate /\ at = "off"
    BY DEF Init
  <2> QED
    BY <2>1 DEF Alarms
<1>2. Places /\ Alarms /\ [Next]_vars => Alarms'
  BY AlarmsStep
<1>3. Alarms => AlarmWhilePending
  BY DEF Alarms, AlarmWhilePending
<1> QED
  BY <1>1, <1>2, <1>3, PlacesHold, PTL DEF Spec

-----------------------------------------------------------------------------
\* While the results of select() are in use for readers ...
InUse ==
    \/ at \in {"signaled?", "clear", "alarm?", "pending=0", "signals"} /\ ret = "timeout"
    \/ at \in {"timeout", "check"}
    \/ at \in {"table", "sock"} /\ kind = 1

\* ... they are those of registered sockets that have kept their numbers, or the
\* table has been marked as changed.
Results ==
    /\ changed \in [Types -> BOOLEAN]
    /\ table = [ty \in Types |-> table[ty]]
    /\ at = "select" => fds["read"] \subseteq Socks("read") /\ moved = {}
    /\ InUse /\ ~changed["read"] => fds["read"] \subseteq Socks("read") /\ fds["read"] \cap moved = {}
    /\ at = "table" /\ kind = 1 => ~changed["read"]

LEMMA ReadIsType == "read" \in Types /\ Used \subseteq Types
BY EloopAssumption DEF EloopAssumption, Types

LEMMA ResultsCall ==
    ASSUME Places, Results, Application
    PROVE  Results'
<1>0. at # "select" /\ at # "table" /\ UNCHANGED <<at, ret, kind, fds>>
  BY Calls DEF Places
<1> USE ReadIsType
<1>1. ASSUME UNCHANGED <<table, changed, moved>> PROVE Results'
  BY <1>0, <1>1 DEF Results, InUse, Socks
<1>2. ASSUME NEW ty \in Used, NEW s,
             table' = [table EXCEPT ![ty] = s], changed' = [changed EXCEPT ![ty] = TRUE],
             UNCHANGED moved
      PROVE  Results'
  <2>1. changed' \in [Types -> BOOLEAN] /\ table' = [t \in Types |-> table'[t]]
    BY <1>2 DEF Results
  <2>2. CASE ty = "read"
    <3>1. changed'["read"]
      BY <1>2, <2>2 DEF Results
    <3> QED
      BY <1>0, <2>1, <3>1 DEF Results
  <2>3. CASE ty # "read"
    <3>1. changed'["read"] = changed["read"] /\ table'["read"] = table["read"]
      BY <1>2, <2>3 DEF Results
    <3> QED
      BY <1>0, <1>2, <2>1, <3>1 DEF Results, InUse, Socks
  <2> QED
    BY <2>2, <2>3
<1>3. ASSUME NEW ty \in Used, NEW fd \in Fds, RegisterSock(ty, fd) PROVE Results'
  BY <1>2, <1>3 DEF RegisterSock
<1>4. ASSUME NEW ty \in Used, NEW fd \in Fds, UnregisterSock(ty, fd) PROVE Results'
  BY <1>2, <1>4 DEF UnregisterSock
<1>5. ASSUME NEW fd \in Fds, Reopen(fd) PROVE Results'
  <2>1. fd \notin Socks("read") /\ moved' = moved \cup {fd} /\ UNCHANGED <<table, changed>>
    BY <1>5 DEF Reopen, tables
  <2>2. Socks("read")' = Socks("read")
    BY <2>1 DEF Socks
  <2> QED
    BY <1>0, <2>1, <2>2 DEF Results, InUse
<1>6. ASSUME NEW t \in Timers, NEW secs \in Secs,
             RegisterTimeout(t, secs) \/ DepleteTimeout(t, secs) \/ ReplenishTimeout(t, secs)
      PROVE  Results'
  BY <1>1, <1>6 DEF RegisterTimeout, DepleteTimeout, ReplenishTimeout, tables
<1>7. ASSUME NEW t \in Timers, CancelTimeout(t) \/ CancelTimeoutOne(t) PROVE Results'
  BY <1>1, <1>7 DEF CancelTimeout, CancelTimeoutOne, tables
<1>8. ASSUME NEW sig \in Sigs, RegisterSignal(sig) PROVE Results'
  BY <1>1, <1>8 DEF RegisterSignal, tables
<1>9. CASE Consume \/ Terminate
  BY <1>1, <1>9 DEF Consume, Terminate, tables
<1> QED
  BY <1>3, <1>4, <1>5, <1>6, <1>7, <1>8, <1>9 DEF Application

LEMMA ResultsStep ==
    ASSUME Places, Results, [Next]_vars
    PROVE  Results'
<1> USE ReadIsType DEF Step, loop, flags, tables
<1>0. ASSUME UNCHANGED <<table, changed, moved, fds>>,
             at' # "select", InUse' => InUse, at' = "table" => at = "table" /\ kind' = kind
      PROVE  Results'
  BY <1>0 DEF Results, Socks
<1>1. CASE Application
  BY <1>1, ResultsCall
<1>2. CASE Run \/ Top \/ AfterPending
  BY <1>0, <1>2 DEF Run, Top, AfterPending, Leave, InUse
<1>3. CASE Prepare
  <2>1. /\ at' = "select" /\ moved' = {} /\ UNCHANGED <<table, changed>>
        /\ fds' = [ty \in Types |-> Socks(ty)]
    BY <1>3 DEF Prepare
  <2>2. fds'["read"] = Socks("read") /\ Socks("read")' = Socks("read")
    BY <2>1 DEF Socks
  <2> QED
    BY <2>1, <2>2 DEF Results, InUse
<1>4. CASE Select
  <2>1. /\ at = "select" /\ at' = "signaled?" /\ UNCHANGED <<table, moved>>
        /\ fds' = [ty \in Types |-> Pending(ty)] \/ fds' = NoFds
        /\ changed' = [ty \in Types |-> FALSE]
    BY <1>4 DEF Select, Returned
  <2>2. fds'["read"] \subseteq fds["read"]
    BY <2>1 DEF Pending, NoFds
  <2>3. Socks("read")' = Socks("read")
    BY <2>1 DEF Socks
  <2>4. changed' \in [Types -> BOOLEAN]
    BY <2>1
  <2> QED
    BY <2>1, <2>2, <2>3, <2>4 DEF Results, InUse
<1>5. CASE ProcessSignals
  BY <1>0, <1>5 DEF ProcessSignals, Places, InUse
<1>6. CASE ClearSignaled \/ StopAlarm \/ ClearPending
  BY <1>0, <1>6 DEF ClearSignaled, StopAlarm, ClearPending, InUse
<1>7. CASE NextSignal
  BY <1>0, <1>7 DEF NextSignal, Places, InUse
<1>8. CASE CheckTimeout
  BY <1>0, <1>8 DEF CheckTimeout, InUse
<1>9. CASE CheckTables
  <2>1. UNCHANGED <<table, changed, moved, fds>> /\ at = "check" /\ kind' = 1
    BY <1>9 DEF CheckTables
  <2>2. CASE at' = "top"
    BY <1>0, <2>1, <2>2 DEF InUse
  <2>3. CASE at' = "table"
    <3>1. ~changed["read"]
      BY <1>9, <2>3 DEF CheckTables
    <3> QED
      BY <2>1, <2>3, <3>1 DEF Results, InUse, Socks
  <2> QED
    BY <1>9, <2>2, <2>3 DEF CheckTables
<1>10. CASE DispatchTable
  <2>1. /\ at = "table" /\ at' = "sock" /\ UNCHANGED <<table, moved, fds, kind, ret>>
        /\ changed' = [changed EXCEPT ![EventTypes[kind]] = FALSE]
    BY <1>10 DEF DispatchTable
  <2>2. changed' \in [Types -> BOOLEAN]
    BY <2>1 DEF Results
  <2>3. CASE kind = 1
    BY <2>1, <2>2, <2>3 DEF Results, InUse, Socks
  <2>4. CASE kind # 1
    BY <2>1, <2>2, <2>4 DEF Results, InUse, Socks
  <2> QED
    BY <2>3, <2>4
<1>11. CASE DispatchSock
  <2>1. /\ at = "sock"
        /\ \/ at' = "sock" /\ kind' = kind
           \/ at' = "top"
           \/ at' = "table" /\ kind' = kind + 1
        /\ kind \in 1..3
        /\ UNCHANGED <<ret, table, changed, moved, fds>>
    BY <1>11, DispatchPlaces DEF Places
  <2>2. kind' = kind + 1 => kind' # 1
    BY <2>1
  <2> QED
    BY <2>1, <2>2 DEF Results, InUse, Socks
<1>12. CASE Return
  BY <1>0, <1>12 DEF Return, InUse, Places
<1>13. CASE \E sig \in Sigs : HandleSignal(sig)
  <2>1. CASE at = "select"
    <3>1. /\ at' = "signaled?" /\ UNCHANGED <<table, moved, fds>>
          /\ changed' = [ty \in Types |-> FALSE]
      BY <1>13, <2>1 DEF HandleSignal, Returned
    <3> QED
      BY <2>1, <3>1 DEF Results, InUse, Socks
  <2>2. CASE at # "select"
    BY <1>0, <1>13, <2>2 DEF HandleSignal, InUse
  <2> QED
    BY <2>1, <2>2
<1>14. CASE (\E ty \in Used, fd \in Fds : Arrive(ty, fd)) \/ HandleAlarm
  <2>1. UNCHANGED <<at, ret, kind, table, changed, moved, fds>>
    BY <1>14 DEF Arrive, HandleAlarm
  <2> QED
    BY <2>1 DEF Results, InUse, Socks
<1>15. CASE Tick
  <2>1. UNCHANGED <<at, ret, kind, table, changed, moved, fds>>
    BY <1>15 DEF Tick
  <2> QED
    BY <2>1 DEF Results, InUse, Socks
<1>16. CASE UNCHANGED vars
  BY <1>16 DEF vars, Results, InUse, Socks
<1> QED
  BY <1>1, <1>2, <1>3, <1>4, <1>5, <1>6, <1>7, <1>8, <1>9, <1>10, <1>11, <1>12, <1>13, <1>14,
     <1>15, <1>16, LoopSteps

\* However many sockets the callbacks close and open: a reader is never called
\* for what select() found on an earlier socket of its number.
THEOREM ReadersAreFresh == Spec => NoStaleRead
<1> DEFINE Fresh == \A fd \in Fds : serving' = <<"read", fd>> /\ serving = None => fd \notin moved
<1>1. Init => Results
  BY ReadIsType DEF Init, Results, InUse
<1>2. Places /\ Results /\ [Next]_vars => Results'
  BY ResultsStep
<1>3. Places /\ Results /\ [Next]_vars => [Fresh]_vars
  <2> SUFFICES ASSUME Places, Results, Next, NEW fd \in Fds,
                      serving' = <<"read", fd>>, serving = None
               PROVE  fd \notin moved
    OBVIOUS
  <2>0. <<"read", fd>> # None
    BY DEF None
  <2>1. CASE DispatchSock
    <3>1. ~EndTable
      BY <2>0 DEF EndTable
    <3>2. /\ at = "sock" /\ ~changed[EventTypes[kind]]
          /\ serving' = IF table[EventTypes[kind]][i] \in fds[EventTypes[kind]]
                         THEN <<EventTypes[kind], table[EventTypes[kind]][i]>> ELSE None
      BY <2>1, <3>1 DEF DispatchSock, Step
    <3>3. table[EventTypes[kind]][i] \in fds[EventTypes[kind]]
      BY <3>2, <2>0 DEF None
    <3>3a. <<EventTypes[kind], table[EventTypes[kind]][i]>> = <<"read", fd>>
      BY <3>2, <3>3
    <3>3b. EventTypes[kind] = "read" /\ fd \in fds["read"]
      BY <3>3, <3>3a
    <3>4. kind = 1
      BY <3>3b, Kinds DEF Places
    <3> QED
      BY <3>2, <3>3b, <3>4 DEF Results, InUse
  <2>2. CASE Application
    BY <2>2, <2>0, Calls
  <2>3. CASE NextSignal
    BY <2>3, <2>0 DEF NextSignal
  <2>4. CASE CheckTimeout
    BY <2>4, <2>0 DEF CheckTimeout
  <2>5. CASE Run \/ Top \/ AfterPending \/ Prepare \/ Select \/ ProcessSignals \/ ClearSignaled
              \/ StopAlarm \/ ClearPending \/ CheckTables \/ DispatchTable
    BY <2>5, <2>0 DEF Run, Top, AfterPending, Leave, Prepare, Select, ProcessSignals, ClearSignaled,
                      StopAlarm, ClearPending, CheckTables, DispatchTable
  <2>6. CASE Return
    BY <2>6 DEF Return
  <2>7. CASE (\E sig \in Sigs : HandleSignal(sig)) \/ (\E ty \in Used, s \in Fds : Arrive(ty, s))
              \/ HandleAlarm \/ Tick
    BY <2>7, <2>0 DEF HandleSignal, Arrive, HandleAlarm, Tick
  <2> QED
    BY <2>1, <2>2, <2>3, <2>4, <2>5, <2>6, <2>7, LoopSteps
<1> QED
  BY <1>1, <1>2, <1>3, PlacesHold, PTL DEF Spec, NoStaleRead

-----------------------------------------------------------------------------
(* The list of timeouts is kept in the order of their times, whatever the     *)
(* application registers, replaces and cancels.                              *)

Entries == [timer : Timers, left : {x \in Int : x >= -1}]

Ordered(list) ==
    /\ list \in Seq(Entries)
    /\ \A m, n \in 1..Len(list) : m <= n => list[m].left <= list[n].left

\* The least of a set of places, as the smallest segment that ends in one.
LEMMA SegmentIsFinite ==
  ASSUME NEW len \in Nat, NEW T \in SUBSET (1..len)
  PROVE  IsFiniteSet(1..len) /\ IsFiniteSet(T) /\ Cardinality(T) \in Nat
<1>1. IsFiniteSet(1..len)
  BY FS_Interval, 1 \in Int, len \in Int
<1>2. IsFiniteSet(T)
  BY <1>1, FS_Subset
<1> QED
  BY <1>1, <1>2, FS_CardinalityType

LEMMA Least ==
  ASSUME NEW len \in Nat, NEW T \in SUBSET (1..len), T # {}
  PROVE  \E m \in T : \A k \in T : m <= k
<1> DEFINE Segments == {1..k : k \in T}
<1>1. Segments \subseteq FiniteSubsetsOf(1..len) /\ IsFiniteSet(1..len)
  <2>1. \A k \in T : 1..k \in SUBSET (1..len)
    OBVIOUS
  <2> QED
    BY <2>1, SegmentIsFinite DEF FiniteSubsetsOf
<1>2. Segments # {}
  BY DEF Segments
<1>3. IsWellFoundedOn(StrictSubsetOrdering(1..len), FiniteSubsetsOf(1..len))
  BY FS_StrictSubsetOrderingWellFounded
<1> HIDE DEF Segments
<1>4. PICK U \in Segments : \A V \in Segments : ~(<<V, U>> \in StrictSubsetOrdering(1..len))
  BY <1>1, <1>2, <1>3, WFMin
<1>5. PICK m \in T : U = 1..m
  BY <1>4 DEF Segments
<1>6. ASSUME NEW k \in T, k < m PROVE FALSE
  <2>1. 1..k \in SUBSET (1..len) /\ 1..m \in SUBSET (1..len) /\ 1..k \subseteq 1..m /\ 1..k # 1..m
    BY <1>6
  <2> QED
    BY <1>4, <1>5, <2>1 DEF StrictSubsetOrdering, Segments
<1> QED
  BY <1>6

Upto(places, n) == {m \in places : m <= n}

LEMMA UptoFacts ==
  ASSUME NEW len \in Nat, NEW places \in SUBSET (1..len), NEW n \in Int
  PROVE  /\ IsFiniteSet(Upto(places, n)) /\ Cardinality(Upto(places, n)) \in Nat
         /\ Upto(places, 0) = {} /\ Upto(places, len) = places
         /\ n \in places =>
                /\ Upto(places, n) = Upto(places, n - 1) \cup {n} /\ n \notin Upto(places, n - 1)
         /\ n \notin places => Upto(places, n) = Upto(places, n - 1)
<1>1. IsFiniteSet(Upto(places, n)) /\ Cardinality(Upto(places, n)) \in Nat
  <2>1. Upto(places, n) \in SUBSET (1..len)
    BY DEF Upto
  <2> QED
    BY <2>1, SegmentIsFinite
<1>2. Upto(places, 0) = {} /\ Upto(places, len) = places
  <2>1. \A m \in places : ~(m <= 0) /\ m <= len
    OBVIOUS
  <2> QED
    BY <2>1 DEF Upto
<1>3. ASSUME NEW m \in places PROVE m <= n <=> m <= n - 1 \/ m = n
  OBVIOUS
<1>4. ~(n <= n - 1)
  OBVIOUS
<1>5. /\ n \in places => /\ Upto(places, n) = Upto(places, n - 1) \cup {n}
                         /\ n \notin Upto(places, n - 1)
      /\ n \notin places => Upto(places, n) = Upto(places, n - 1)
  BY <1>3, <1>4 DEF Upto
<1> QED
  BY <1>1, <1>2, <1>5

LEMMA SkipsPlace ==
  ASSUME NEW len \in Nat, NEW places \in SUBSET (1..len), NEW n \in Int, n \notin places
  PROVE  Upto(places, n) = Upto(places, n - 1)
  BY UptoFacts

\* There is a k-th place, for every k up to their number.
LEMMA NthIsPlace ==
  ASSUME NEW len \in Nat, NEW places \in SUBSET (1..len), NEW k \in 1..Cardinality(places)
  PROVE  Nth(places, k) \in places /\ Cardinality(Upto(places, Nth(places, k))) = k
<1> DEFINE T == {n \in 1..len : Cardinality(Upto(places, n)) >= k}
<1>0. IsFiniteSet(places) /\ Cardinality(places) \in Nat
  BY SegmentIsFinite
<1>1. IsFiniteSet(places) /\ Cardinality(places) \in Nat /\ k \in Nat /\ k > 0
      /\ k <= Cardinality(places)
  BY <1>0
<1>2. len \in T
  <2>1. Upto(places, len) = places
    BY 0 \in Int, UptoFacts
  <2>2. places # {}
    BY <1>1, FS_EmptySet
  <2>3. len \in 1..len
    <3>1. PICK m \in places : TRUE
      BY <2>2
    <3>2. m \in 1..len
      BY <3>1
    <3> QED
      BY <3>2
  <2> QED
    BY <1>1, <2>1, <2>3
<1>3. PICK n \in T : \A m \in T : n <= m
  <2>1. T \in SUBSET (1..len) /\ T # {}
    BY <1>2
  <2> HIDE DEF T
  <2> QED
    BY <2>1, Least
<1>4. n \in 1..len /\ n - 1 \in Int /\ n \in Int /\ Cardinality(Upto(places, n)) >= k
      /\ Cardinality(Upto(places, n)) \in Nat /\ Cardinality(Upto(places, n - 1)) \in Nat
      /\ IsFiniteSet(Upto(places, n - 1))
  <2>1. n \in 1..len /\ Cardinality(Upto(places, n)) >= k
    BY <1>3
  <2>2. n \in Int /\ n - 1 \in Int
    BY <2>1
  <2>3. Upto(places, n) \in SUBSET (1..len) /\ Upto(places, n - 1) \in SUBSET (1..len)
    BY DEF Upto
  <2> QED
    BY <2>1, <2>2, <2>3, SegmentIsFinite
<1>5. Cardinality(Upto(places, n - 1)) < k
  <2>1. CASE n = 1
    <3>1. n - 1 = 0
      BY <2>1
    <3>2. Upto(places, n - 1) = {}
      BY <3>1, 0 \in Int, UptoFacts
    <3> QED
      BY <1>1, <3>2, FS_EmptySet
  <2>2. CASE n # 1
    <3>1. n - 1 \in 1..len /\ ~(n <= n - 1)
      BY <1>4, <2>2
    <3>2. n - 1 \notin T
      BY <1>3, <3>1
    <3> QED
      BY <1>1, <1>4, <3>1, <3>2
  <2> QED
    BY <2>1, <2>2
<1>6. n \in places
  <2>1. Upto(places, n) # Upto(places, n - 1)
    BY <1>1, <1>4, <1>5
  <2>2. n \notin places => Upto(places, n) = Upto(places, n - 1)
    BY <1>4, SkipsPlace
  <2> QED
    BY <2>1, <2>2
<1>7. Cardinality(Upto(places, n)) = k
  <2>1. Upto(places, n) = Upto(places, n - 1) \cup {n} /\ n \notin Upto(places, n - 1)
    BY <1>4, <1>6, UptoFacts
  <2>2. Cardinality(Upto(places, n)) = Cardinality(Upto(places, n - 1)) + 1
    BY <1>4, <2>1, FS_AddElement
  <2> QED
    BY <1>1, <1>4, <1>5, <2>2
<1> QED
  BY <1>6, <1>7 DEF Nth, Upto

LEMMA NthGrows ==
  ASSUME NEW len \in Nat, NEW places \in SUBSET (1..len),
         NEW j \in 1..Cardinality(places), NEW k \in 1..Cardinality(places), j <= k
  PROVE  Nth(places, j) <= Nth(places, k)
<1> DEFINE a == Nth(places, j)
<1> DEFINE b == Nth(places, k)
<1>1. /\ a \in places /\ Cardinality(Upto(places, a)) = j
      /\ b \in places /\ Cardinality(Upto(places, b)) = k
  BY NthIsPlace
<1> HIDE DEF a, b
<1>2. a \in Int /\ b \in Int /\ j \in Int /\ k \in Int
  BY <1>1, SegmentIsFinite
<1>3. ASSUME a > b PROVE FALSE
  <2>1. Upto(places, b) \subseteq Upto(places, a) /\ a \in Upto(places, a) /\ a \notin Upto(places, b)
    <3>1. \A m \in places : m <= b => m <= a
      BY <1>2, <1>3
    <3>2. a <= a /\ ~(a <= b)
      BY <1>2, <1>3
    <3> QED
      BY <1>1, <3>1, <3>2 DEF Upto
  <2>2. IsFiniteSet(Upto(places, a))
    BY <1>2, UptoFacts
  <2>3. k <= j /\ (j = k => Upto(places, a) = Upto(places, b))
    BY <1>1, <2>1, <2>2, FS_Subset
  <2> QED
    BY <1>2, <2>1, <2>3
<1> QED
  BY <1>2, <1>3 DEF a, b

LEMMA OnlyOrdered ==
  ASSUME Ordered(timeout), NEW places \in SUBSET (1..Len(timeout))
  PROVE  Ordered(Only(places))
<1>1. Len(timeout) \in Nat /\ \A n \in 1..Len(timeout) : timeout[n] \in Entries
  BY DEF Ordered
<1>2. Cardinality(places) \in Nat
  BY <1>1, SegmentIsFinite
<1>3. \A k \in 1..Cardinality(places) :
        Nth(places, k) \in 1..Len(timeout) /\ Only(places)[k] = timeout[Nth(places, k)]
  BY <1>1, NthIsPlace DEF Only
<1>4. Only(places) \in Seq(Entries) /\ Len(Only(places)) = Cardinality(places)
  BY <1>1, <1>2, <1>3 DEF Only
<1>5. ASSUME NEW m \in 1..Cardinality(places), NEW n \in 1..Cardinality(places), m <= n
      PROVE  Only(places)[m].left <= Only(places)[n].left
  <2>1. Nth(places, m) <= Nth(places, n)
    BY <1>1, <1>5, NthGrows
  <2> QED
    BY <1>3, <2>1 DEF Ordered
<1> QED
  BY <1>4, <1>5 DEF Ordered

LEMMA InsertOrdered ==
  ASSUME NEW list, Ordered(list), NEW e \in Entries
  PROVE  Ordered(Insert(list, e))
<1>1. Len(list) \in Nat /\ \A n \in 1..Len(list) : list[n] \in Entries /\ list[n].left \in Int
  <2>1. list \in Seq(Entries)
    BY DEF Ordered
  <2>2. Len(list) \in Nat /\ \A n \in 1..Len(list) : list[n] \in Entries
    BY <2>1
  <2> QED
    BY <2>2 DEF Entries
<1>2. e.left \in Int
  BY DEF Entries
<1> DEFINE Fits(n) == /\ \A m \in 1..n : list[m].left <= e.left
                      /\ n < Len(list) => list[n + 1].left > e.left
<1>3. \E n \in 0..Len(list) : Fits(n)
  <2> DEFINE T == {n \in 1..Len(list) : list[n].left > e.left}
  <2>1. CASE T = {}
    <3>1. Len(list) \in 0..Len(list) /\ \A m \in 1..Len(list) : m \notin T
      BY <1>1, <2>1
    <3> QED
      BY <1>1, <1>2, <3>1
  <2>2. CASE T # {}
    <3>1. PICK n \in T : \A m \in T : n <= m
      <4>1. T \in SUBSET (1..Len(list))
        OBVIOUS
      <4> HIDE DEF T
      <4> QED
        BY <1>1, <2>2, <4>1, Least
    <3>2. n - 1 \in 0..Len(list) /\ (n - 1) + 1 = n
          /\ \A m \in 1..(n - 1) : m \in 1..Len(list) /\ ~(n <= m)
      BY <1>1, <3>1
    <3>3. \A m \in 1..(n - 1) : list[m].left <= e.left
      BY <1>1, <1>2, <3>1, <3>2
    <3>4. Fits(n - 1)
      BY <3>1, <3>2, <3>3
    <3> QED
      BY <3>2, <3>4
  <2> QED
    BY <2>1, <2>2
<1> DEFINE n == CHOOSE k \in 0..Len(list) : Fits(k)
<1>4. n \in 0..Len(list) /\ Fits(n)
  BY <1>3
<1>5. Insert(list, e) = SubSeq(list, 1, n) \o <<e>> \o SubSeq(list, n + 1, Len(list))
  BY DEF Insert
<1> DEFINE new == Insert(list, e)
<1> HIDE DEF n, Fits
<1>6. /\ new \in Seq(Entries) /\ Len(new) = Len(list) + 1
      /\ \A m \in 1..Len(new) :
            new[m] = IF m <= n THEN list[m] ELSE IF m = n + 1 THEN e ELSE list[m - 1]
  <2> DEFINE front == SubSeq(list, 1, n)
  <2> DEFINE back == SubSeq(list, n + 1, Len(list))
  <2>1. /\ front \in Seq(Entries) /\ Len(front) = n
        /\ \A m \in 1..n : front[m] = list[m]
    BY <1>1, <1>4 DEF Ordered
  <2>2. /\ back \in Seq(Entries) /\ Len(back) = Len(list) - n
        /\ \A m \in 1..(Len(list) - n) : back[m] = list[n + m]
    BY <1>1, <1>4 DEF Ordered
  <2> HIDE DEF front, back
  <2>3. new = (front \o <<e>>) \o back
    BY <1>5 DEF front, back
  <2>4. /\ front \o <<e>> \in Seq(Entries) /\ Len(front \o <<e>>) = n + 1
        /\ \A m \in 1..(n + 1) : (front \o <<e>>)[m] = IF m <= n THEN list[m] ELSE e
    BY <1>4, <2>1
  <2> DEFINE head == front \o <<e>>
  <2> HIDE DEF head
  <2>5. /\ head \in Seq(Entries) /\ Len(head) = n + 1 /\ new = head \o back
        /\ \A m \in 1..(n + 1) : head[m] = IF m <= n THEN list[m] ELSE e
    BY <2>3, <2>4 DEF head
  <2>6. new \in Seq(Entries) /\ Len(new) = (n + 1) + (Len(list) - n)
    <3>1. ASSUME NEW a \in Seq(Entries), NEW b \in Seq(Entries)
          PROVE  a \o b \in Seq(Entries) /\ Len(a \o b) = Len(a) + Len(b)
      OBVIOUS
    <3>2. head \o back \in Seq(Entries) /\ Len(head \o back) = Len(head) + Len(back)
      BY <2>2, <2>5, <3>1
    <3> QED
      BY <2>2, <2>5, <3>2
  <2>7. (n + 1) + (Len(list) - n) = Len(list) + 1
    BY <1>1, <1>4
  <2>8. ASSUME NEW m \in 1..Len(new)
        PROVE  new[m] = IF m <= n THEN list[m] ELSE IF m = n + 1 THEN e ELSE list[m - 1]
    <3>1. CASE m <= n + 1
      <4>1. m \in 1..(n + 1)
        BY <1>4, <2>8, <3>1
      <4>2. new[m] = head[m]
        BY <2>2, <2>5, <4>1
      <4> QED
        BY <1>4, <2>5, <4>1, <4>2
    <3>2. CASE ~(m <= n + 1)
      <4>1. m - (n + 1) \in 1..(Len(list) - n) /\ n + (m - (n + 1)) = m - 1
            /\ ~(m <= n) /\ m # n + 1
        BY <1>1, <1>4, <2>6, <2>7, <3>2
      <4>2. new[m] = back[m - (n + 1)]
        BY <2>2, <2>5, <2>6, <3>2
      <4> QED
        BY <2>2, <4>1, <4>2
    <3> QED
      BY <3>1, <3>2
  <2> QED
    BY <2>6, <2>7, <2>8
<1>7. ASSUME NEW j \in 1..Len(new), NEW k \in 1..Len(new), j <= k
      PROVE  new[j].left <= new[k].left
  <2>1. \A m \in 1..n : m \in 1..Len(list) /\ list[m].left <= e.left
    BY <1>1, <1>4 DEF Fits
  <2>2. \A m \in 1..Len(list) : n + 1 <= m => e.left <= list[m].left
    <3>1. ASSUME NEW m \in 1..Len(list), n + 1 <= m PROVE e.left <= list[m].left
      <4>1. n < Len(list) /\ n + 1 \in 1..Len(list)
        BY <1>1, <1>4, <3>1
      <4>2. list[n + 1].left > e.left /\ list[n + 1].left <= list[m].left
        BY <1>4, <3>1, <4>1 DEF Fits, Ordered
      <4> QED
        BY <1>1, <1>2, <4>1, <4>2
    <3> QED
      BY <3>1
  <2>3. \A m \in 1..Len(new) : /\ m <= n => m \in 1..n
                               /\ m > n + 1 => m - 1 \in 1..Len(list) /\ n + 1 <= m - 1
    BY <1>1, <1>4, <1>6
  <2>4. CASE k <= n
    <3>1. j \in 1..n /\ k \in 1..n /\ j <= n
      BY <1>4, <1>7, <2>3, <2>4
    <3> QED
      BY <1>6, <1>7, <2>1, <2>4, <3>1 DEF Ordered
  <2>5. CASE k = n + 1
    <3>1. j <= n \/ j = n + 1
      BY <1>4, <1>7, <2>5
    <3>2. new[k] = e
      BY <1>4, <1>6, <2>5
    <3>3. CASE j <= n
      BY <1>6, <2>1, <2>3, <3>2, <3>3
    <3>4. CASE j = n + 1
      BY <1>2, <2>5, <3>2, <3>4
    <3> QED
      BY <3>1, <3>3, <3>4
  <2>6. CASE k > n + 1
    <3>1. new[k] = list[k - 1] /\ k - 1 \in 1..Len(list) /\ e.left <= list[k - 1].left
          /\ list[k - 1].left \in Int
      BY <1>1, <1>4, <1>6, <2>2, <2>3, <2>6
    <3>2. CASE j <= n
      <4>1. new[j] = list[j] /\ list[j].left <= e.left /\ list[j].left \in Int
        BY <1>1, <1>6, <2>1, <2>3, <3>2
      <4> QED
        BY <1>2, <3>1, <4>1
    <3>3. CASE j = n + 1
      <4>1. new[j] = e
        BY <1>4, <1>6, <3>3
      <4> QED
        BY <3>1, <4>1
    <3>4. CASE j > n + 1
      <4>1. new[j] = list[j - 1] /\ j - 1 \in 1..Len(list) /\ j - 1 <= k - 1
        BY <1>4, <1>6, <1>7, <2>3, <3>4
      <4> QED
        BY <3>1, <4>1 DEF Ordered
    <3> QED
      BY <1>4, <3>2, <3>3, <3>4
  <2> QED
    BY <1>4, <2>4, <2>5, <2>6
<1> QED
  BY <1>6, <1>7 DEF Ordered

\* While select() sleeps, no entry of the list has less left than it.
Times ==
    /\ Ordered(timeout)
    /\ at = "select" =>
        /\ wait \in Int /\ wait >= -1
        /\ \A n \in 1..Len(timeout) : wait # -1 /\ (wait <= timeout[n].left \/ wait = 0)

LEMMA SecsAreNat == Secs \subseteq Nat
BY EloopAssumption

LEMMA EntryIsEntry ==
  ASSUME NEW t \in Timers, NEW secs \in Secs
  PROVE  Entry(t, secs) \in Entries
<1>1. secs \in {x \in Int : x >= -1}
  BY SecsAreNat
<1> QED
  BY <1>1 DEF Entry, Entries

LEMMA TailOrdered ==
  ASSUME Ordered(timeout), timeout # <<>>
  PROVE  Ordered(Tail(timeout))
<1>1. timeout \in Seq(Entries)
  BY DEF Ordered
<1>2. /\ Tail(timeout) \in Seq(Entries) /\ Len(Tail(timeout)) = Len(timeout) - 1
      /\ \A n \in 1..(Len(timeout) - 1) : Tail(timeout)[n] = timeout[n + 1]
      /\ Len(timeout) \in Nat
  BY <1>1
<1>3. \A n \in 1..(Len(timeout) - 1) : n + 1 \in 1..Len(timeout)
  BY <1>2
<1>4. \A m, n \in 1..(Len(timeout) - 1) : m <= n => m + 1 <= n + 1
  BY <1>2
<1> QED
  BY <1>2, <1>3, <1>4 DEF Ordered

\* One second later the list is still in order, and no entry overtakes select().
Later(x) == IF x = -1 THEN -1 ELSE x - 1

LEMMA LaterOrdered ==
  ASSUME Times, Tick
  PROVE  Times'
<1>1. /\ Ordered(timeout) /\ timeout \in Seq(Entries) /\ at' = at /\ Len(timeout) \in Nat
      /\ at = "select" => wait # 0
      /\ wait' = IF at = "select" /\ wait > 0 THEN wait - 1 ELSE wait
      /\ timeout' = [n \in DOMAIN timeout |->
                        [timeout[n] EXCEPT !.left = IF @ = -1 THEN -1 ELSE @ - 1]]
  BY DEF Tick, Times, Ordered
<1>2. \A n \in 1..Len(timeout) : timeout[n] \in Entries /\ timeout[n].left \in Int /\ timeout[n].left >= -1
  <2>1. \A n \in 1..Len(timeout) : timeout[n] \in Entries
    BY <1>1
  <2> QED
    BY <2>1 DEF Entries
<1>3. ASSUME NEW n \in 1..Len(timeout)
      PROVE  timeout'[n] \in Entries /\ timeout'[n].left = Later(timeout[n].left)
  <2> DEFINE e == timeout[n]
  <2> DEFINE left == Later(e.left)
  <2>1. e \in Entries /\ left \in {x \in Int : x >= -1}
    BY <1>2 DEF Later
  <2>2. timeout'[n] = [e EXCEPT !.left = left]
    BY <1>1 DEF Later
  <2> HIDE DEF e, left
  <2>3. timeout'[n] \in Entries /\ timeout'[n].left = left
    BY <2>1, <2>2 DEF Entries
  <2> QED
    BY <2>3 DEF e, left
<1>4. timeout' \in Seq(Entries) /\ Len(timeout') = Len(timeout)
  <2> DEFINE later(n) == [timeout[n] EXCEPT !.left = IF @ = -1 THEN -1 ELSE @ - 1]
  <2>1. DOMAIN timeout = 1..Len(timeout)
    BY <1>1
  <2>2. timeout' = [n \in 1..Len(timeout) |-> later(n)]
    BY <1>1, <2>1
  <2>3. \A n \in 1..Len(timeout) : later(n) \in Entries
    BY <1>3, <2>2
  <2> HIDE DEF later
  <2> QED
    BY <1>1, <2>2, <2>3
<1>5. \A x, y \in Int : x >= -1 /\ y >= -1 /\ x <= y => Later(x) <= Later(y)
  BY DEF Later
<1>6. Ordered(timeout')
  BY <1>1, <1>2, <1>3, <1>4, <1>5 DEF Ordered
<1>7. ASSUME at = "select"
      PROVE  /\ wait' \in Int /\ wait' >= -1
             /\ \A n \in 1..Len(timeout) : wait' # -1 /\ (wait' <= timeout'[n].left \/ wait' = 0)
  <2>1. /\ wait \in Int /\ wait >= -1 /\ wait # 0
        /\ wait' = IF wait > 0 THEN wait - 1 ELSE wait
        /\ \A n \in 1..Len(timeout) : wait # -1 /\ (wait <= timeout[n].left \/ wait = 0)
    BY <1>1, <1>7 DEF Times
  <2>2. wait' \in Int /\ wait' >= -1
    BY <2>1
  <2>3. ASSUME NEW n \in 1..Len(timeout) PROVE wait' # -1 /\ wait' <= timeout'[n].left
    <3>1. wait > 0 /\ wait <= timeout[n].left /\ wait' = wait - 1
      BY <2>1
    <3>2. timeout'[n].left = timeout[n].left - 1
      BY <1>2, <1>3, <2>1, <3>1 DEF Later
    <3> QED
      BY <1>2, <2>1, <3>1, <3>2
  <2> QED
    BY <2>2, <2>3
<1> QED
  BY <1>1, <1>4, <1>6, <1>7 DEF Times, Ordered

LEMMA TimesCall ==
  ASSUME Places, Times, Application
  PROVE  Times'
<1>1. at' # "select"
  BY Calls DEF Places
<1>2. ASSUME Ordered(timeout') PROVE Times'
  BY <1>1, <1>2 DEF Times, Ordered
<1>3. Ordered(timeout)
  BY DEF Times
<1>4. CASE UNCHANGED timeout
  BY <1>2, <1>3, <1>4
<1>5. \A t : Ordered(Without(t))
  BY <1>3, OnlyOrdered DEF Without
<1>6. ASSUME NEW t \in Timers, NEW secs \in Secs, RegisterTimeout(t, secs)
      PROVE  Times'
  <2>1. timeout' = Insert(timeout, Entry(t, secs))
    BY <1>6 DEF RegisterTimeout
  <2>2. Ordered(Insert(timeout, Entry(t, secs)))
    BY <1>3, EntryIsEntry, InsertOrdered
  <2> QED
    BY <1>2, <2>1, <2>2
<1>7. ASSUME NEW t \in Timers, NEW secs \in Secs, DepleteTimeout(t, secs) \/ ReplenishTimeout(t, secs)
      PROVE  Times'
  <2>1. timeout' = Insert(Without(t), Entry(t, secs)) \/ timeout' = Without(t)
    BY <1>7 DEF DepleteTimeout, ReplenishTimeout, Replace
  <2>2. Ordered(Insert(Without(t), Entry(t, secs)))
    BY <1>5, EntryIsEntry, InsertOrdered
  <2> QED
    BY <1>2, <1>5, <2>1, <2>2
<1>8. ASSUME NEW t \in Timers, CancelTimeout(t) \/ CancelTimeoutOne(t)
      PROVE  Times'
  <2>1. \E places \in SUBSET (1..Len(timeout)) : timeout' = Only(places)
    BY <1>8 DEF CancelTimeout, CancelTimeoutOne, Without
  <2> QED
    BY <1>2, <1>3, <2>1, OnlyOrdered
<1>9. CASE \/ \E ty \in Used, fd \in Fds : RegisterSock(ty, fd) \/ UnregisterSock(ty, fd)
           \/ \E fd \in Fds : Reopen(fd)
           \/ \E sig \in Sigs : RegisterSignal(sig)
           \/ Consume \/ Terminate
  BY <1>4, <1>9 DEF RegisterSock, UnregisterSock, Reopen, RegisterSignal, Consume, Terminate
<1> QED
  BY <1>6, <1>7, <1>8, <1>9 DEF Application

LEMMA TimesStep ==
  ASSUME Places, Times, [Next]_vars
  PROVE  Times'
<1> USE DEF Step, loop, flags, tables
<1>1. ASSUME timeout' = timeout, at' = "select" => at = "select" /\ wait' = wait
      PROVE  Times'
  BY <1>1 DEF Times, Ordered
<1>2. CASE Application
  BY <1>2, TimesCall
<1>3. CASE Run \/ Top \/ AfterPending
  BY <1>1, <1>3 DEF Run, Top, AfterPending, Leave
<1>4. CASE Prepare
  <2>1. /\ timeout' = timeout /\ Ordered(timeout)
        /\ wait' = IF timeout = <<>> THEN -1
                   ELSE IF Head(timeout).left > 0 THEN Head(timeout).left ELSE 0
    BY <1>4 DEF Prepare, Times
  <2>2. timeout \in Seq(Entries) /\ Len(timeout) \in Nat
    BY <2>1 DEF Ordered
  <2>3. CASE timeout = <<>>
    BY <2>1, <2>3 DEF Times, Ordered
  <2>4. CASE timeout # <<>>
    <3>1. 1 \in 1..Len(timeout) /\ Head(timeout) = timeout[1] /\ Head(timeout) \in Entries
          /\ \A n \in 1..Len(timeout) : 1 <= n /\ timeout[n] \in Entries
      BY <2>2, <2>4
    <3> DEFINE left == Head(timeout).left
    <3>2. left \in Int /\ \A n \in 1..Len(timeout) : timeout[n].left \in Int /\ left <= timeout[n].left
      BY <2>1, <3>1 DEF Ordered, Entries
    <3>3. wait' = IF left > 0 THEN left ELSE 0
      BY <2>1, <2>4
    <3> HIDE DEF left
    <3>4. wait' \in Int /\ wait' >= 0
          /\ \A n \in 1..Len(timeout) : wait' <= timeout[n].left \/ wait' = 0
      BY <3>2, <3>3
    <3>5. wait' # -1 /\ wait' >= -1
      BY <3>4
    <3> QED
      BY <2>1, <3>4, <3>5 DEF Times, Ordered
  <2> QED
    BY <2>3, <2>4
<1>5. CASE Select
  BY <1>1, <1>5 DEF Select
<1>6. CASE ProcessSignals
  BY <1>1, <1>6 DEF ProcessSignals, Places
<1>7. CASE ClearSignaled \/ StopAlarm \/ ClearPending
  BY <1>1, <1>7 DEF ClearSignaled, StopAlarm, ClearPending
<1>8. CASE NextSignal
  BY <1>1, <1>8 DEF NextSignal, Places
<1>9. CASE CheckTimeout
  <2>1. at' # "select"
    BY <1>9 DEF CheckTimeout
  <2>2. Ordered(timeout')
    <3>1. Ordered(timeout)
      BY DEF Times
    <3> QED
      BY <1>9, <3>1, TailOrdered DEF CheckTimeout
  <2> QED
    BY <2>1, <2>2 DEF Times, Ordered
<1>10. CASE CheckTables \/ DispatchTable
  BY <1>1, <1>10 DEF CheckTables, DispatchTable
<1>11. CASE DispatchSock
  <2>1. timeout' = timeout /\ at' # "select"
    BY <1>11, DispatchPlaces DEF DispatchSock, EndTable, Places
  <2> QED
    BY <1>1, <2>1
<1>12. CASE Return
  BY <1>1, <1>12 DEF Return
<1>13. CASE \E sig \in Sigs : HandleSignal(sig)
  BY <1>1, <1>13 DEF HandleSignal
<1>14. CASE (\E ty \in Used, fd \in Fds : Arrive(ty, fd)) \/ HandleAlarm
  BY <1>1, <1>14 DEF Arrive, HandleAlarm
<1>15. CASE Tick
  BY <1>15, LaterOrdered
<1>16. CASE UNCHANGED vars
  BY <1>1, <1>16 DEF vars
<1> QED
  BY <1>2, <1>3, <1>4, <1>5, <1>6, <1>7, <1>8, <1>9, <1>10, <1>11, <1>12, <1>13, <1>14, <1>15,
     <1>16, LoopSteps

LEMMA TimesHold == Spec => []Times
<1>1. Init => Times
  BY DEF Init, Times, Ordered
<1> QED
  BY <1>1, TimesStep, PlacesHold, PTL DEF Spec

\* For any number of timeouts, registered, replaced and cancelled in any order, and
\* wherever memory runs out: select() never sleeps past one of them.
THEOREM NeverOversleeps == Spec => []NoOversleep
<1>1. Times => NoOversleep
  BY DEF Times, NoOversleep
<1> QED
  BY <1>1, TimesHold, PTL

\* And the timeout whose callback is called is the one that was due first.
THEOREM EarliestIsFirst == Spec => EarliestFirst
<1> DEFINE Due(t) ==
        serving' = <<"timer", t>> /\ serving = None =>
            \E n \in 1..Len(timeout) :
                /\ timeout[n].timer = t /\ timeout[n].left <= 0
                /\ \A m \in 1..Len(timeout) : timeout[n].left <= timeout[m].left
<1>1. Places /\ Times /\ [Next]_vars => [\A t \in Timers : Due(t)]_vars
  <2> SUFFICES ASSUME Places, Times, Next, NEW t \in Timers,
                      serving' = <<"timer", t>>, serving = None
               PROVE  \E n \in 1..Len(timeout) :
                        /\ timeout[n].timer = t /\ timeout[n].left <= 0
                        /\ \A m \in 1..Len(timeout) : timeout[n].left <= timeout[m].left
    OBVIOUS
  <2>0. <<"timer", t>> # None
    BY DEF None
  <2>1. CASE CheckTimeout
    <3>1. timeout # <<>> /\ Head(timeout).left <= 0 /\ serving' = <<"timer", Head(timeout).timer>>
      BY <2>0, <2>1 DEF CheckTimeout
    <3>2. Ordered(timeout) /\ timeout \in Seq(Entries)
      BY DEF Times, Ordered
    <3>3. 1 \in 1..Len(timeout) /\ Head(timeout) = timeout[1] /\ \A m \in 1..Len(timeout) : 1 <= m
      BY <3>1, <3>2
    <3>4. Head(timeout).timer = t
      BY <3>1
    <3> QED
      BY <3>1, <3>2, <3>3, <3>4 DEF Ordered
  <2>2. CASE Application
    BY <2>2, <2>0, Calls
  <2>3. CASE NextSignal
    BY <2>3, <2>0 DEF NextSignal
  <2>4. CASE DispatchSock
    <3>1. EventTypes[kind] # "timer"
      BY DEF EventTypes, Places
    <3> QED
      BY <2>4, <2>0, <3>1 DEF DispatchSock, EndTable
  <2>5. CASE Run \/ Top \/ AfterPending \/ Prepare \/ Select \/ ProcessSignals \/ ClearSignaled
              \/ StopAlarm \/ ClearPending \/ CheckTables \/ DispatchTable
    BY <2>5, <2>0 DEF Run, Top, AfterPending, Leave, Prepare, Select, ProcessSignals, ClearSignaled,
                      StopAlarm, ClearPending, CheckTables, DispatchTable
  <2>6. CASE Return
    BY <2>6 DEF Return
  <2>7. CASE (\E sig \in Sigs : HandleSignal(sig)) \/ (\E ty \in Used, s \in Fds : Arrive(ty, s))
              \/ HandleAlarm \/ Tick
    BY <2>7, <2>0 DEF HandleSignal, Arrive, HandleAlarm, Tick
  <2> QED
    BY <2>1, <2>2, <2>3, <2>4, <2>5, <2>6, <2>7, LoopSteps
<1> QED
  BY <1>1, TimesHold, PlacesHold, PTL DEF Spec, EarliestFirst
=============================================================================
