CONSTANTS
    http = http
    socks5 = socks5
    Types = {http}
    NoType = NoType
    Http = http
    MaxLaunches = 2
    MaxFds = 3
    Foreign = TRUE
SPECIFICATION Spec
INVARIANTS NoBackendLeft
CHECK_DEADLOCK FALSE
