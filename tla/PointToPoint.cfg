SPECIFICATION Spec
CONSTANTS
    s = s
    r1 = r1
    r2 = r2
    Threads = {s, r1, r2}
    Channels = {"sr"}
    Programs <- OneWay
    MaxMessages = 2
    BusyWait = FALSE
INVARIANTS TypeOK ReachedQueuesExclusive NoLostWakeup MessagesAccounted
PROPERTIES AllFinish ImplementsChannel
CHECK_DEADLOCK FALSE
