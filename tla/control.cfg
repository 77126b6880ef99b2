CONSTANTS
    ip = ip
    Ips = {ip}
    Sustain = 2
    MaxConnections = 1
    Window = 2
    MaxStreams = 1
SPECIFICATION FairSpec
INVARIANTS TypeOK RateBound FdsAccounted CutLeavesNothing StopJoinsAll
PROPERTIES EvictionSustained BypassInEmergency StreamsEnd
CHECK_DEADLOCK FALSE
