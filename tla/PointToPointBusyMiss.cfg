SPECIFICATION SpecBusy
CONSTANTS
    s = s
    r1 = r1
    r2 = r2
    Threads = {s, r1, r2}
    Channels = {"sr"}
    Programs <- OneWay
    MaxMessages = 2
    BusyWait = TRUE
INVARIANT BusyWaiterNeverMissed
CHECK_DEADLOCK FALSE
