\* A reader and a writer.
SPECIFICATION Spec
CONSTANTS
    Fds = {0, 1}
    Used = {"read", "write"}
    Timers = {}
    Secs = {}
    Sigs = {}
    AlarmSecs = 2
    MaxOps = 5
    MaxArrivals = 2
    MaxSignals = 0
    Faults = {}
PROPERTY NoStaleCall
\* The loop ends when nothing is registered.
CHECK_DEADLOCK FALSE
