CONSTANTS
    p1 = p1
    p2 = p2
    p3 = p3
    Pids = {p1, p2}
    NoPid = NoPid
    Free = Free
    Self = Self
    AutoRestart = TRUE
    StopCommand = TRUE
    Evictions = TRUE
    Daemons = TRUE
    Strangers = TRUE
SPECIFICATION FairSpec
INVARIANTS TypeOK ChildAwaited SocketOwned
PROPERTIES ForgottenOnlyLate ImplementsThreads CallsReturn ListensAgain
CHECK_DEADLOCK FALSE
