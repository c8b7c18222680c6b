\* Two timeouts, a terminating signal, and memory running out.
SPECIFICATION FairSpec
CONSTANTS
    Fds = {0}
    Used = {"read"}
    Timers = {t1, t2}
    Secs = {0, 1, 2}
    Sigs = {"SIGINT"}
    AlarmSecs = 2
    MaxOps = 4
    MaxArrivals = 0
    MaxSignals = 2
    Faults = {"nomem"}
INVARIANTS
    NoOversleep
    NoBlockAfterTerminate
    AlarmWhilePending
PROPERTIES
    EarliestFirst
    TimeoutServed
    TerminateEnds
\* The loop ends when nothing is registered.
CHECK_DEADLOCK FALSE
