CONSTANTS
    p1 = p1
    p2 = p2
    p3 = p3
    Pids = {p1, p2, p3}
    NoPid = NoPid
    Free = Free
    Self = Self
    AutoRestart = TRUE
    StopCommand = TRUE
    Evictions = FALSE
    Daemons = FALSE
    Strangers = FALSE
SPECIFICATION FairSpec
PROPERTY GroupUntouched
CHECK_DEADLOCK FALSE
