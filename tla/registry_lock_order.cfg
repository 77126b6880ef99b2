CONSTANTS
    a1 = a1
    a2 = a2
    keep = keep
    once = once
    r1 = r1
    r2 = r2
    r3 = r3
    Addrs = {a1, a2}
    Cfgs = {keep, once}
    NoCfg = NoCfg
    NoRestart = {once}
    Monitored = {keep, once}
    IdleStops = {keep, once}
    InitCfg <- MCInitBoth
    Relays = {r1, r2}
    None = None
    Eviction = FALSE
    Shutdown = FALSE
    MaxReloads = 1
SPECIFICATION Spec
INVARIANT NoCircularWait
CHECK_DEADLOCK FALSE
