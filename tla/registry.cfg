CONSTANTS
    a1 = a1
    a2 = a2
    keep = keep
    once = once
    r1 = r1
    r2 = r2
    r3 = r3
    Addrs = {a1, a2}
    Cfgs = {keep, once}
    NoCfg = NoCfg
    NoRestart = {once}
    Monitored = {keep, once}
    IdleStops = {keep}
    InitCfg <- MCInitCfg
    Relays = {r1, r2}
    None = None
    Eviction = TRUE
    Shutdown = TRUE
    MaxReloads = 1
SPECIFICATION Spec
SYMMETRY Instances
INVARIANTS TypeOK OwnedOnce ConnectsInService DestroyedJoined KnownDeadlocks
PROPERTIES ImplementsLifecycle KeepsContract
CHECK_DEADLOCK FALSE
