\* Two sockets, readers and writers, and a timeout that is due at once.
SPECIFICATION FairSpec
CONSTANTS
    Fds = {0, 1}
    Used = {"read", "write"}
    Timers = {t1}
    Secs = {0}
    Sigs = {}
    AlarmSecs = 2
    MaxOps = 5
    MaxArrivals = 2
    MaxSignals = 0
    Faults = {}
PROPERTIES
    NoStaleRead
    SocketServed
\* The loop ends when nothing is registered.
CHECK_DEADLOCK FALSE
