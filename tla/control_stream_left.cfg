CONSTANTS
    ip = ip
    Ips = {ip}
    Sustain = 1
    MaxConnections = 1
    Window = 1
    MaxStreams = 1
SPECIFICATION Spec
INVARIANT StreamLeavesNothing
CHECK_DEADLOCK FALSE
