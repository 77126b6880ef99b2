CONSTANTS
    http = http
    socks5 = socks5
    Types = {http}
    NoType = NoType
    Http = http
    MaxLaunches = 2
    MaxFds = 3
    Foreign = TRUE
SPECIFICATION FairSpec
INVARIANTS TypeOK FdsAccounted StoppedClean TunnelAuthorised
PROPERTIES ForgottenOnlyByRearm ReadyOnlyLate TunnelEnds StopReturns
CHECK_DEADLOCK FALSE
