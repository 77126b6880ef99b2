---------------------------- MODULE RelayRegistry ----------------------------
(***************************************************************************)
(* The registry of port relays of main.cpp and the threads that move       *)
(* relays through it:                                                      *)
(*                                                                         *)
(*   - monitorLoop (thread "monitor"): idle relays leave g_relays for      *)
(*     g_pendingRemoval; relays whose backend is gone come back;           *)
(*   - the control server's only request thread ("control"): reloadConfig  *)
(*     and handleRefresh;                                                  *)
(*   - the system monitor's sampler ("sysmon"): maybeEvict;                *)
(*   - main ("main"): the shutdown sequence after SIGTERM/SIGINT;          *)
(*   - the listen thread of every relay, reduced to what the registry can  *)
(*     see of it: it runs, it launches a backend, it waits for             *)
(*     g_relaysMutex in persistRefreshSeconds, it has exited.              *)
(*                                                                         *)
(* g_relays and g_pendingRemoval are vectors of unique_ptr, searched by    *)
(* address and never by index, so they are sets of relay instances here.   *)
(***************************************************************************)
EXTENDS FiniteSets, Naturals

CONSTANTS
    Addrs,       \* listen addresses
    Cfgs,        \* port configurations, as configsEqual tells them apart
    NoCfg,       \* an address the configuration does not list
    NoRestart,   \* the configurations with auto_restart = false
    Monitored,   \* the configurations with monitor.enabled = true
    IdleStops,   \* those of them with idle_minutes > 0
    InitCfg,     \* the configuration file at startup
    Relays,      \* PortRelay instances; bounds how many are ever constructed
    None,        \* no relay
    Eviction,    \* system_monitor.eviction is enabled
    Shutdown,    \* whether the environment sends SIGTERM
    MaxReloads   \* bound on the reload requests of a run

ASSUME ConstantsAssumption ==
    /\ NoCfg \notin Cfgs
    /\ NoRestart \subseteq Cfgs
    /\ Monitored \subseteq Cfgs
    /\ IdleStops \subseteq Monitored
    /\ InitCfg \in [Addrs -> Cfgs \cup {NoCfg}]
    /\ None \notin Relays \cup {"monitor", "control", "sysmon", "main"}
    /\ None \notin [addr : Addrs, cfg : Cfgs]
    /\ Eviction \in BOOLEAN
    /\ Shutdown \in BOOLEAN
    /\ MaxReloads \in Nat

Threads == {"monitor", "control", "sysmon", "main"}

Labels == {"top", "idleScan", "idleMark", "idlePush", "pend", "pendScan", "pendJoin", "pendPush",
           "idle", "remove", "removing", "removePush", "modify", "modifying", "modifyPush",
           "add", "refresh", "watch", "evict", "signal", "rearm", "putBack", "discard",
           "pause", "stopAll", "stopping", "joining", "joinMonitor", "joinSysmon",
           "exited", "done"}

VARIABLES
    relays,          \* g_relays
    pendingRemoval,  \* g_pendingRemoval
    destroyed,       \* instances whose unique_ptr was dropped
    conf,            \* address and configuration an instance was built from
    currentCfgs,     \* g_currentCfgs
    relaysMutex,     \* the thread holding g_relaysMutex, or None
    pendingMutex,    \* the thread holding g_pendingMutex, or None
    gStop,           \* g_stop
    stop,            \* PortRelay::stop_
    running,         \* PortRelay::isBackendRunning()
    lpc,             \* where an instance's listen thread is; "ended": it is over, and
                     \* "exited": so is the relay's monitorBackend thread
    pc,              \* where each registry thread is
    cur,             \* the relay a registry thread is working on
    visit,           \* monitorLoop: pending relays its iterator has not reached
    newCfgs,         \* reloadConfig: its argument
    reloads          \* reload requests so far

vars == <<relays, pendingRemoval, destroyed, conf, currentCfgs, relaysMutex,
          pendingMutex, gStop, stop, running, lpc, pc, cur, visit, newCfgs, reloads>>

ownership == <<relays, pendingRemoval, destroyed>>
locks     == <<relaysMutex, pendingMutex>>
relayVars == <<conf, stop, running, lpc>>
reloadVars == <<currentCfgs, newCfgs, reloads>>

ConfigSpace == [Addrs -> Cfgs \cup {NoCfg}]

-----------------------------------------------------------------------------
(* Helpers                                                                 *)

Constructed == {r \in Relays : conf[r] # None}
AddrOf(r) == conf[r].addr
AutoRestart(r) == conf[r].cfg \notin NoRestart
IdleStopped(r) == conf[r].cfg \in IdleStops

\* The addresses g_relays serves.
Served == {AddrOf(r) : r \in relays}

At(t, label) == pc[t] = label
Goto(t, label) == pc' = [pc EXCEPT ![t] = label]

RelaysMutexFree == relaysMutex = None
PendingMutexFree == pendingMutex = None

\* reloadConfig's three lists, by address.
Removed(new) == {a \in Addrs : currentCfgs[a] # NoCfg /\ new[a] = NoCfg}
Modified(new) == {a \in Addrs : /\ currentCfgs[a] # NoCfg
                                /\ new[a] \notin {NoCfg, currentCfgs[a]}}
Added(new) == {a \in Addrs : currentCfgs[a] = NoCfg /\ new[a] # NoCfg}

\* Where a launch leads the listen thread back to.
Over(r) == IF AutoRestart(r) THEN "loop" ELSE "ended"

\* joinThread on both threads returns once both are over.
Joinable(r) == lpc[r] = "exited"

\* resetForIdle after the joins: flags cleared, both threads started again.
Rearm(r) == /\ stop' = [stop EXCEPT ![r] = FALSE]
            /\ lpc' = [lpc EXCEPT ![r] = "loop"]

-----------------------------------------------------------------------------
(* Startup: one relay per configured address, all of them started.         *)

InitRelays == {a \in Addrs : InitCfg[a] # NoCfg}

Init ==
    /\ conf \in {c \in [Relays -> [addr : Addrs, cfg : Cfgs] \cup {None}] :
                    /\ \A r \in Relays : c[r] # None => c[r].cfg = InitCfg[c[r].addr]
                    /\ \A a \in InitRelays :
                          Cardinality({r \in Relays : c[r] # None /\ c[r].addr = a}) = 1}
    /\ relays = Constructed
    /\ pendingRemoval = {}
    /\ destroyed = {}
    /\ currentCfgs = InitCfg
    /\ relaysMutex = None
    /\ pendingMutex = None
    /\ gStop = FALSE
    /\ stop = [r \in Relays |-> FALSE]
    /\ running = [r \in Relays |-> FALSE]
    /\ lpc = [r \in Relays |-> IF conf[r] # None THEN "loop" ELSE "off"]
    /\ pc = [monitor |-> IF \E a \in InitRelays : InitCfg[a] \in Monitored
                         THEN "top" ELSE "done",
             control |-> "idle",
             sysmon  |-> IF Eviction THEN "watch" ELSE "done",
             main    |-> "pause"]
    /\ cur = [t \in Threads |-> None]
    /\ visit = {}
    /\ newCfgs = InitCfg
    /\ reloads = 0

-----------------------------------------------------------------------------
(* Faulty variants of actions, each as a plausible bug would have it; the  *)
(* behaviour of the specification does not use them. With one of them in   *)
(* the place of its action, the property named after it fails.             *)

\* The idle pass pushes the unique_ptr it has moved from. TypeOK
MonitorIdlePushMoved ==
    /\ At("monitor", "idlePush")
    /\ PendingMutexFree
    /\ relays' = relays \ {cur["monitor"]}
    /\ pendingRemoval' = pendingRemoval \cup {None}
    /\ cur' = [cur EXCEPT !["monitor"] = None]
    /\ Goto("monitor", "idleScan")
    /\ UNCHANGED <<destroyed, locks, gStop, relayVars, visit, reloadVars>>

\* The relay that goes back to g_relays is not erased from g_pendingRemoval. OwnedOnce
MonitorPendPushCopy ==
    /\ At("monitor", "pendPush")
    /\ RelaysMutexFree
    /\ relays' = relays \cup {cur["monitor"]}
    /\ cur' = [cur EXCEPT !["monitor"] = None]
    /\ Goto("monitor", "pendScan")
    /\ UNCHANGED <<pendingRemoval, destroyed, locks, gStop, relayVars, visit, reloadVars>>

\* evict() joins the threads and does not start them again. ConnectsInService
EvictRearmNot ==
    /\ At("sysmon", "rearm")
    /\ Joinable(cur["sysmon"])
    /\ Goto("sysmon", "putBack")
    /\ UNCHANGED <<ownership, locks, gStop, relayVars, cur, visit, reloadVars>>

\* evict() starts the threads again without joining them. KeepsContract
EvictRearmUnjoined ==
    /\ At("sysmon", "rearm")
    /\ Rearm(cur["sysmon"])
    /\ Goto("sysmon", "putBack")
    /\ UNCHANGED <<ownership, locks, gStop, conf, running, cur, visit, reloadVars>>

\* The replaced victim is dropped with its threads running. DestroyedJoined
EvictReplacedRunning ==
    /\ At("sysmon", "putBack")
    /\ RelaysMutexFree
    /\ AddrOf(cur["sysmon"]) \in Served
    /\ destroyed' = destroyed \cup {cur["sysmon"]}
    /\ cur' = [cur EXCEPT !["sysmon"] = None]
    /\ Goto("sysmon", "watch")
    /\ UNCHANGED <<relays, pendingRemoval, locks, gStop, relayVars, visit, reloadVars>>

\* The victim is put back whoever serves its address by now. ImplementsLifecycle
EvictPutBackAlways ==
    /\ At("sysmon", "putBack")
    /\ RelaysMutexFree
    /\ relays' = relays \cup {cur["sysmon"]}
    /\ cur' = [cur EXCEPT !["sysmon"] = None]
    /\ Goto("sysmon", "watch")
    /\ UNCHANGED <<pendingRemoval, destroyed, locks, gStop, relayVars, visit, reloadVars>>

\* gracefulStop gives up on a backend that ignores SIGTERM. PendingLeaves
MonitorPendGracefulTerm(r) ==
    /\ At("monitor", "pendScan")
    /\ r \in visit /\ running[r] /\ IdleStopped(r)
    /\ visit' = visit \ {r}
    /\ UNCHANGED <<ownership, locks, gStop, relayVars, pc, cur, reloadVars>>

\* The lock of the victim's selection lasts over its eviction. RefreshCompletes, and
\* KnownDeadlocks
EvictPickLocked(r) ==
    /\ At("sysmon", "watch")
    /\ RelaysMutexFree
    /\ r \in relays /\ running[r]
    /\ relays' = relays \ {r}
    /\ relaysMutex' = "sysmon"
    /\ cur' = [cur EXCEPT !["sysmon"] = r]
    /\ Goto("sysmon", "evict")
    /\ UNCHANGED <<pendingRemoval, destroyed, pendingMutex, gStop, relayVars, visit, reloadVars>>

-----------------------------------------------------------------------------
(* The threads of a relay, and its backend: what RelayThreads allows, with *)
(* the one thing they want from the registry, g_relaysMutex.               *)

\* A step of the relay's own threads.
OnlyRelays == UNCHANGED <<conf, stop, ownership, locks, gStop, pc, cur, visit, reloadVars>>

ListenGoto(r, label) ==
    /\ lpc' = [lpc EXCEPT ![r] = label]
    /\ UNCHANGED running
    /\ OnlyRelays

\* A connection is taken by the accept loop...
ListenerAccept(r) ==
    /\ lpc[r] = "loop" /\ ~stop[r]
    /\ ListenGoto(r, "launch")

\* ...the gate finds a backend that another thread has taken up, or fork fails...
ListenerDecline(r) ==
    /\ lpc[r] = "launch" /\ running[r]
    /\ ListenGoto(r, "loop")
ListenerForkFails(r) ==
    /\ lpc[r] = "launch"
    /\ ListenGoto(r, Over(r))

\* ...or launchAndRelease forks and blocks in waitChild, whatever stop_ says by now.
ListenerLaunch(r) ==
    /\ lpc[r] = "launch"
    /\ running' = [running EXCEPT ![r] = TRUE]
    /\ lpc' = [lpc EXCEPT ![r] = "wait"]
    /\ OnlyRelays

\* waitChild returns: the backend is gone, or was a wrapper that daemonised.
ListenerReturn(r) ==
    /\ lpc[r] = "wait"
    /\ ListenGoto(r, Over(r))

\* The port turns out to belong to another process: listenLoop cannot bind it and
\* has a stop_command for its occupant, or monitorBackend takes it for a daemon.
BackendAdopt(r) ==
    /\ lpc[r] \notin {"off", "exited"} /\ ~running[r]
    /\ running' = [running EXCEPT ![r] = TRUE]
    /\ UNCHANGED lpc
    /\ OnlyRelays

\* The backend dies and the relay's monitorBackend clears backendPid_, or an
\* external occupant releases the port.
BackendExit(r) ==
    /\ running[r]
    /\ running' = [running EXCEPT ![r] = FALSE]
    /\ UNCHANGED lpc
    /\ OnlyRelays

\* A /__set_refresh request on the relay's own port reaches persistRefreshSeconds...
ListenerRefresh(r) ==
    /\ lpc[r] = "loop" /\ ~stop[r]
    /\ ListenGoto(r, "persist")

\* ...which takes and releases g_relaysMutex.
ListenerPersist(r) ==
    /\ lpc[r] = "persist"
    /\ RelaysMutexFree
    /\ ListenGoto(r, "loop")

\* Without auto_restart the listen thread may see stop_ long before the monitor thread.
ListenerEnd(r) ==
    /\ lpc[r] = "loop" /\ stop[r] /\ ~AutoRestart(r)
    /\ ListenGoto(r, "ended")

\* backendPid_ is kept, or cleared.
Cleared(r) == running' \in {running, [running EXCEPT ![r] = FALSE]}

\* Both threads see stop_, or, without auto_restart, the end of the backend.
ThreadsEnd(r) ==
    /\ \/ lpc[r] = "loop" /\ stop[r]
       \/ lpc[r] = "ended"
    /\ Cleared(r)
    /\ lpc' = [lpc EXCEPT ![r] = "exited"]
    /\ OnlyRelays

Listener(r) ==
    \/ ListenerAccept(r) \/ ListenerDecline(r) \/ ListenerForkFails(r) \/ ListenerLaunch(r)
    \/ ListenerReturn(r)
    \/ BackendAdopt(r)
    \/ BackendExit(r)
    \/ ListenerRefresh(r)
    \/ ListenerPersist(r)
    \/ ListenerEnd(r)
    \/ ThreadsEnd(r)

-----------------------------------------------------------------------------
(* monitorLoop                                                             *)

MonitorEnd ==
    /\ At("monitor", "top") /\ gStop
    /\ Goto("monitor", "done")
    /\ UNCHANGED <<ownership, locks, gStop, relayVars, cur, visit, reloadVars>>

\* A round samples activity in a critical section of its own, which leaves no
\* trace here, then opens the idle pass.
MonitorIdleLock ==
    /\ At("monitor", "top") /\ ~gStop
    /\ RelaysMutexFree
    /\ relaysMutex' = "monitor"
    /\ Goto("monitor", "idleScan")
    /\ UNCHANGED <<ownership, pendingMutex, gStop, relayVars, cur, visit, reloadVars>>

\* A monitored relay with a running backend has had no traffic for idle_minutes.
MonitorIdleFind(r) ==
    /\ At("monitor", "idleScan")
    /\ r \in relays /\ IdleStopped(r) /\ running[r]
    /\ cur' = [cur EXCEPT !["monitor"] = r]
    /\ Goto("monitor", "idleMark")
    /\ UNCHANGED <<ownership, locks, gStop, relayVars, visit, reloadVars>>

\* setPendingRemoval, whatever its listen thread has done meanwhile.
MonitorIdleMark ==
    /\ At("monitor", "idleMark")
    /\ stop' = [stop EXCEPT ![cur["monitor"]] = TRUE]
    /\ Goto("monitor", "idlePush")
    /\ UNCHANGED <<ownership, locks, gStop, conf, running, lpc, cur, visit, reloadVars>>

MonitorIdlePush ==
    /\ At("monitor", "idlePush")
    /\ PendingMutexFree
    /\ relays' = relays \ {cur["monitor"]}
    /\ pendingRemoval' = pendingRemoval \cup {cur["monitor"]}
    /\ cur' = [cur EXCEPT !["monitor"] = None]
    /\ Goto("monitor", "idleScan")
    /\ UNCHANGED <<destroyed, locks, gStop, relayVars, visit, reloadVars>>

MonitorIdleUnlock ==
    /\ At("monitor", "idleScan")
    /\ relaysMutex' = None
    /\ Goto("monitor", "pend")
    /\ UNCHANGED <<ownership, pendingMutex, gStop, relayVars, cur, visit, reloadVars>>

MonitorPendLock ==
    /\ At("monitor", "pend")
    /\ PendingMutexFree
    /\ pendingMutex' = "monitor"
    /\ visit' = pendingRemoval
    /\ Goto("monitor", "pendScan")
    /\ UNCHANGED <<ownership, relaysMutex, gStop, relayVars, cur, reloadVars>>

\* The backend is still there and not idle, or not monitored: leave it.
MonitorPendKeep(r) ==
    /\ At("monitor", "pendScan")
    /\ r \in visit /\ running[r]
    /\ visit' = visit \ {r}
    /\ UNCHANGED <<ownership, locks, gStop, relayVars, pc, cur, reloadVars>>

\* It is idle: gracefulStop returns with backendPid_ and externalOccupied_ cleared.
MonitorPendGraceful(r) ==
    /\ At("monitor", "pendScan")
    /\ r \in visit /\ running[r] /\ IdleStopped(r)
    /\ running' = [running EXCEPT ![r] = FALSE]
    /\ visit' = visit \ {r}
    /\ UNCHANGED <<ownership, locks, gStop, conf, stop, lpc, pc, cur, reloadVars>>

\* The backend is gone and auto_restart is set: resetForIdle begins.
MonitorPendReset(r) ==
    /\ At("monitor", "pendScan")
    /\ r \in visit /\ ~running[r] /\ AutoRestart(r)
    /\ cur' = [cur EXCEPT !["monitor"] = r]
    /\ visit' = visit \ {r}
    /\ Goto("monitor", "pendJoin")
    /\ UNCHANGED <<ownership, locks, gStop, relayVars, reloadVars>>

MonitorPendJoin ==
    /\ At("monitor", "pendJoin")
    /\ Joinable(cur["monitor"])
    /\ Rearm(cur["monitor"])
    /\ Goto("monitor", "pendPush")
    /\ UNCHANGED <<ownership, locks, gStop, conf, running, cur, visit, reloadVars>>

\* Still under g_pendingMutex: take g_relaysMutex and move the relay back.
MonitorPendPush ==
    /\ At("monitor", "pendPush")
    /\ RelaysMutexFree
    /\ relays' = relays \cup {cur["monitor"]}
    /\ pendingRemoval' = pendingRemoval \ {cur["monitor"]}
    /\ cur' = [cur EXCEPT !["monitor"] = None]
    /\ Goto("monitor", "pendScan")
    /\ UNCHANGED <<destroyed, locks, gStop, relayVars, visit, reloadVars>>

\* The backend is gone and auto_restart is off: the unique_ptr is erased.
MonitorPendErase(r) ==
    /\ At("monitor", "pendScan")
    /\ r \in visit /\ ~running[r] /\ ~AutoRestart(r)
    /\ pendingRemoval' = pendingRemoval \ {r}
    /\ destroyed' = destroyed \cup {r}
    /\ visit' = visit \ {r}
    /\ UNCHANGED <<relays, locks, gStop, relayVars, pc, cur, reloadVars>>

MonitorPendUnlock ==
    /\ At("monitor", "pendScan")
    /\ visit = {}
    /\ pendingMutex' = None
    /\ Goto("monitor", "top")
    /\ UNCHANGED <<ownership, relaysMutex, gStop, relayVars, cur, visit, reloadVars>>

Monitor ==
    \/ MonitorEnd
    \/ MonitorIdleLock
    \/ \E r \in Relays : MonitorIdleFind(r)
    \/ MonitorIdleMark
    \/ MonitorIdlePush
    \/ MonitorIdleUnlock
    \/ MonitorPendLock
    \/ \E r \in Relays : MonitorPendKeep(r)
    \/ \E r \in Relays : MonitorPendGraceful(r)
    \/ \E r \in Relays : MonitorPendReset(r)
    \/ MonitorPendJoin
    \/ MonitorPendPush
    \/ \E r \in Relays : MonitorPendErase(r)
    \/ MonitorPendUnlock

-----------------------------------------------------------------------------
(* The control server: reloadConfig. It serves one request at a time, so   *)
(* g_reloadInProgress is never found set.                                  *)

\* Where a retirement pass scans and pushes, and what follows it.
Scanning == [remove |-> "removing", modify |-> "modifying"]
Pushing  == [remove |-> "removePush", modify |-> "modifyPush"]
Following == [remove |-> "modify", modify |-> "add"]
Passes == {"remove", "modify"}

\* The addresses a pass retires.
Retired(pass) == IF pass = "remove" THEN Removed(newCfgs) ELSE Modified(newCfgs)

\* POST /reload, of a file with at least one valid port; handleRequest dispatches no POST
\* /config. Bounds: MaxReloads requests, and enough instances left for the relays it creates.
ControlReload(new) ==
    /\ At("control", "idle")
    /\ reloads < MaxReloads
    /\ \E a \in Addrs : new[a] # NoCfg
    /\ Cardinality(Added(new) \cup Modified(new)) <= Cardinality(Relays \ Constructed)
    /\ newCfgs' = new
    /\ reloads' = reloads + 1
    /\ Goto("control", "remove")
    /\ UNCHANGED <<ownership, locks, gStop, relayVars, cur, visit, currentCfgs>>

ControlPassLock(pass) ==
    /\ At("control", pass)
    /\ IF Retired(pass) = {}
       THEN Goto("control", Following[pass]) /\ UNCHANGED relaysMutex
       ELSE /\ RelaysMutexFree
            /\ relaysMutex' = "control"
            /\ Goto("control", Scanning[pass])
    /\ UNCHANGED <<ownership, pendingMutex, gStop, relayVars, cur, visit, reloadVars>>

ControlPassMark(pass, r) ==
    /\ At("control", Scanning[pass])
    /\ r \in relays /\ AddrOf(r) \in Retired(pass)
    /\ stop' = [stop EXCEPT ![r] = TRUE]
    /\ cur' = [cur EXCEPT !["control"] = r]
    /\ Goto("control", Pushing[pass])
    /\ UNCHANGED <<ownership, locks, gStop, conf, running, lpc, visit, reloadVars>>

\* Still under g_relaysMutex: take g_pendingMutex and move the relay.
ControlPassPush(pass) ==
    /\ At("control", Pushing[pass])
    /\ PendingMutexFree
    /\ relays' = relays \ {cur["control"]}
    /\ pendingRemoval' = pendingRemoval \cup {cur["control"]}
    /\ cur' = [cur EXCEPT !["control"] = None]
    /\ Goto("control", Scanning[pass])
    /\ UNCHANGED <<destroyed, locks, gStop, relayVars, visit, reloadVars>>

ControlPassUnlock(pass) ==
    /\ At("control", Scanning[pass])
    /\ Served \cap Retired(pass) = {}
    /\ relaysMutex' = None
    /\ Goto("control", Following[pass])
    /\ UNCHANGED <<ownership, pendingMutex, gStop, relayVars, cur, visit, reloadVars>>

\* toAdd and toModify.
ToCreate == Added(newCfgs) \cup Modified(newCfgs)

\* One critical section creates, starts and pushes a relay per address; then g_currentCfgs,
\* which only this thread compares, is replaced, without a lock (main.cpp:326).
ControlAdd ==
    /\ At("control", "add")
    /\ ToCreate # {} => RelaysMutexFree
    /\ \E fresh \in SUBSET (Relays \ Constructed) :
          /\ Cardinality(fresh) = Cardinality(ToCreate)
          /\ \E place \in [fresh -> ToCreate] :
                /\ \A r, q \in fresh : place[r] = place[q] => r = q
                /\ conf' = [r \in Relays |->
                               IF r \in fresh
                               THEN [addr |-> place[r], cfg |-> newCfgs[place[r]]]
                               ELSE conf[r]]
          /\ relays' = relays \cup fresh
          /\ lpc' = [r \in Relays |-> IF r \in fresh THEN "loop" ELSE lpc[r]]
    /\ currentCfgs' = newCfgs
    /\ Goto("control", "idle")
    /\ UNCHANGED <<pendingRemoval, destroyed, locks, gStop, stop, running, cur, visit,
                   newCfgs, reloads>>

-----------------------------------------------------------------------------
(* The control server: handleRefresh                                       *)

\* Look the relay up under g_relaysMutex, keep the raw pointer, unlock.
ControlFind(r) ==
    /\ At("control", "idle")
    /\ RelaysMutexFree
    /\ r \in relays
    /\ cur' = [cur EXCEPT !["control"] = r]
    /\ Goto("control", "refresh")
    /\ UNCHANGED <<ownership, locks, gStop, relayVars, visit, reloadVars>>

\* setRefreshSeconds dereferences it and persists under g_relaysMutex.
ControlRefresh ==
    /\ At("control", "refresh")
    /\ RelaysMutexFree
    /\ cur' = [cur EXCEPT !["control"] = None]
    /\ Goto("control", "idle")
    /\ UNCHANGED <<ownership, locks, gStop, relayVars, visit, reloadVars>>

Control ==
    \/ \E new \in ConfigSpace : ControlReload(new)
    \/ \E pass \in Passes : ControlPassLock(pass)
    \/ \E pass \in Passes, r \in Relays : ControlPassMark(pass, r)
    \/ \E pass \in Passes : ControlPassPush(pass)
    \/ \E pass \in Passes : ControlPassUnlock(pass)
    \/ ControlAdd
    \/ \E r \in Relays : ControlFind(r)
    \/ ControlRefresh

-----------------------------------------------------------------------------
(* The sampler's maybeEvict                                                *)

\* The memory and swap pressure lasted: move the victim out of g_relays.
EvictPick(r) ==
    /\ At("sysmon", "watch")
    /\ RelaysMutexFree
    /\ r \in relays /\ running[r]
    /\ relays' = relays \ {r}
    /\ cur' = [cur EXCEPT !["sysmon"] = r]
    /\ Goto("sysmon", "evict")
    /\ UNCHANGED <<pendingRemoval, destroyed, locks, gStop, relayVars, visit, reloadVars>>

\* evict(), with no lock held: gracefulStop...
EvictGraceful ==
    /\ At("sysmon", "evict")
    /\ running' = [running EXCEPT ![cur["sysmon"]] = FALSE]
    /\ Goto("sysmon", "signal")
    /\ UNCHANGED <<ownership, locks, gStop, conf, stop, lpc, cur, visit, reloadVars>>

\* ...signalStop, when the listen thread may have launched a backend again...
EvictSignal ==
    /\ At("sysmon", "signal")
    /\ stop' = [stop EXCEPT ![cur["sysmon"]] = TRUE]
    /\ Goto("sysmon", "rearm")
    /\ UNCHANGED <<ownership, locks, gStop, conf, running, lpc, cur, visit, reloadVars>>

\* ...and resetForIdle.
EvictRearm ==
    /\ At("sysmon", "rearm")
    /\ Joinable(cur["sysmon"])
    /\ Rearm(cur["sysmon"])
    /\ Goto("sysmon", "putBack")
    /\ UNCHANGED <<ownership, locks, gStop, conf, running, cur, visit, reloadVars>>

\* Put the victim back, unless a reload has served its address meanwhile.
EvictPutBack ==
    /\ At("sysmon", "putBack")
    /\ RelaysMutexFree
    /\ AddrOf(cur["sysmon"]) \notin Served
    /\ relays' = relays \cup {cur["sysmon"]}
    /\ cur' = [cur EXCEPT !["sysmon"] = None]
    /\ Goto("sysmon", "watch")
    /\ UNCHANGED <<pendingRemoval, destroyed, locks, gStop, relayVars, visit, reloadVars>>

\* stop(): stop_ is set and a direct child killed. Whether monitorBackend still
\* clears backendPid_ before it sees stop_ is a race.
StopRelay(r) ==
    /\ stop' = [stop EXCEPT ![r] = TRUE]
    /\ \E still \in {FALSE, running[r]} : running' = [running EXCEPT ![r] = still]

\* Otherwise the victim is stopped and joined under g_relaysMutex, then dropped.
EvictReplaced ==
    /\ At("sysmon", "putBack")
    /\ RelaysMutexFree
    /\ AddrOf(cur["sysmon"]) \in Served
    /\ relaysMutex' = "sysmon"
    /\ StopRelay(cur["sysmon"])
    /\ Goto("sysmon", "discard")
    /\ UNCHANGED <<ownership, pendingMutex, gStop, conf, lpc, cur, visit, reloadVars>>

EvictDiscard ==
    /\ At("sysmon", "discard")
    /\ Joinable(cur["sysmon"])
    /\ destroyed' = destroyed \cup {cur["sysmon"]}
    /\ cur' = [cur EXCEPT !["sysmon"] = None]
    /\ relaysMutex' = None
    /\ Goto("sysmon", "watch")
    /\ UNCHANGED <<relays, pendingRemoval, pendingMutex, gStop, relayVars, visit, reloadVars>>

\* SystemMonitor::stop set stop_; the loop ends between two samples.
EvictStop ==
    /\ At("sysmon", "watch") /\ At("main", "joinSysmon")
    /\ Goto("sysmon", "done")
    /\ UNCHANGED <<ownership, locks, gStop, relayVars, cur, visit, reloadVars>>

Evictor ==
    \/ \E r \in Relays : EvictPick(r)
    \/ EvictGraceful
    \/ EvictSignal
    \/ EvictRearm
    \/ EvictPutBack
    \/ EvictReplaced
    \/ EvictDiscard
    \/ EvictStop

-----------------------------------------------------------------------------
(* main's shutdown                                                         *)

MainSignal ==
    /\ At("main", "pause") /\ Shutdown
    /\ gStop' = TRUE
    /\ Goto("main", "stopAll")
    /\ UNCHANGED <<ownership, locks, relayVars, cur, visit, reloadVars>>

MainLock ==
    /\ At("main", "stopAll")
    /\ RelaysMutexFree
    /\ relaysMutex' = "main"
    /\ Goto("main", "stopping")
    /\ UNCHANGED <<ownership, pendingMutex, gStop, relayVars, cur, visit, reloadVars>>

\* stop() of one relay joins its threads before the next one is told to stop.
MainStopRelay(r) ==
    /\ At("main", "stopping")
    /\ r \in relays /\ ~stop[r]
    /\ StopRelay(r)
    /\ cur' = [cur EXCEPT !["main"] = r]
    /\ Goto("main", "joining")
    /\ UNCHANGED <<ownership, locks, gStop, conf, lpc, visit, reloadVars>>

MainJoinRelay ==
    /\ At("main", "joining")
    /\ Joinable(cur["main"])
    /\ cur' = [cur EXCEPT !["main"] = None]
    /\ Goto("main", "stopping")
    /\ UNCHANGED <<ownership, locks, gStop, relayVars, visit, reloadVars>>

MainUnlock ==
    /\ At("main", "stopping")
    /\ \A r \in relays : stop[r]
    /\ relaysMutex' = None
    /\ Goto("main", "joinMonitor")
    /\ UNCHANGED <<ownership, pendingMutex, gStop, relayVars, cur, visit, reloadVars>>

MainJoinMonitor ==
    /\ At("main", "joinMonitor") /\ At("monitor", "done")
    /\ Goto("main", "joinSysmon")
    /\ UNCHANGED <<ownership, locks, gStop, relayVars, cur, visit, reloadVars>>

MainExit ==
    /\ At("main", "joinSysmon") /\ At("sysmon", "done")
    /\ Goto("main", "exited")
    /\ UNCHANGED <<ownership, locks, gStop, relayVars, cur, visit, reloadVars>>

Main ==
    \/ MainSignal
    \/ MainLock
    \/ \E r \in Relays : MainStopRelay(r)
    \/ MainJoinRelay
    \/ MainUnlock
    \/ MainJoinMonitor
    \/ MainExit

-----------------------------------------------------------------------------

Next ==
    \/ \E r \in Relays \ destroyed : Listener(r)
    \/ Monitor
    \/ Control
    \/ Evictor
    \/ Main

Spec == Init /\ [][Next]_vars

-----------------------------------------------------------------------------
(* Fairness: the scheduler runs every thread, a mutex that is free again   *)
(* and again is acquired by whoever waits for it, a thread that was told   *)
(* to stop reaches its test of stop_, and a pending relay, whose activity  *)
(* is no longer sampled, is eventually past its idle time. Nothing makes a *)
(* backend exit or a client connect.                                       *)

ListenerContinue(r) ==
    \/ ListenerDecline(r) \/ ListenerForkFails(r) \/ ListenerLaunch(r)
    \/ ~running[r] /\ ListenerReturn(r)
    \/ ListenerPersist(r)
    \/ stop[r] /\ ThreadsEnd(r)

EvictorContinue ==
    EvictGraceful \/ EvictSignal \/ EvictRearm \/ EvictPutBack \/ EvictReplaced \/ EvictDiscard

Fairness ==
    /\ \A r \in Relays : SF_vars(ListenerContinue(r)) /\ SF_vars(MonitorPendGraceful(r))
    /\ SF_vars(Monitor)
    /\ WF_vars(EvictorContinue)

FairSpec == Spec /\ Fairness

-----------------------------------------------------------------------------
(* Properties                                                              *)

\* Every variable stays within its type.
TypeOK ==
    /\ relays \subseteq Relays
    /\ pendingRemoval \subseteq Relays
    /\ destroyed \subseteq Relays
    /\ conf \in [Relays -> [addr : Addrs, cfg : Cfgs] \cup {None}]
    /\ currentCfgs \in ConfigSpace
    /\ relaysMutex \in Threads \cup {None}
    /\ pendingMutex \in Threads \cup {None}
    /\ gStop \in BOOLEAN
    /\ stop \in [Relays -> BOOLEAN]
    /\ running \in [Relays -> BOOLEAN]
    /\ lpc \in [Relays -> {"off", "loop", "persist", "launch", "wait", "ended", "exited"}]
    /\ pc \in [Threads -> Labels]
    /\ cur \in [Threads -> Relays \cup {None}]
    /\ visit \subseteq Relays
    /\ newCfgs \in ConfigSpace
    /\ reloads \in 0 .. MaxReloads

\* The relay maybeEvict has taken out of g_relays and not put back.
Victim == {r \in Relays : cur["sysmon"] = r}

\* The relay a pass is about to move to g_pendingRemoval: marked, still in g_relays.
Retiring == {r \in Relays : \/ cur["monitor"] = r /\ At("monitor", "idlePush")
                            \/ cur["control"] = r /\ \E p \in Passes : At("control", Pushing[p])}

\* The relay monitorLoop has re-armed and not yet pushed back.
Returning == {r \in Relays : cur["monitor"] = r /\ At("monitor", "pendPush")}

\* Four threads move a relay between two vectors and a local unique_ptr, under two
\* mutexes: it is never in two places, and never in none before it is destroyed.
OwnedOnce ==
    /\ relays \cup pendingRemoval \cup Victim \cup destroyed = Constructed
    /\ relays \cap pendingRemoval = {}
    /\ (relays \cup pendingRemoval) \cap Victim = {}
    /\ (relays \cup pendingRemoval \cup Victim) \cap destroyed = {}

\* While the daemon runs, a relay that sampling, reload and eviction can see takes
\* connections: whoever marked it stopped has moved it out of g_relays, and whoever
\* put one back has re-armed it. Without auto_restart the listen thread may be over.
ServingArmed ==
    pc["main"] \in {"pause", "stopAll"} =>
        \A r \in relays \ Retiring :
            ~stop[r] /\ (AutoRestart(r) => lpc[r] \notin {"off", "ended", "exited"})

\* A relay in g_pendingRemoval takes no new connection until it is on its way back.
PendingStopped == \A r \in pendingRemoval \ Returning : stop[r]

\* However relays are moved, they take connections where they are served and nowhere else.
ConnectsInService == ServingArmed /\ PendingStopped

\* An auto_restart relay is destroyed only by an eviction that found its address
\* served, and then only after its listen thread was joined: no thread of it is left
\* to touch freed memory.
DestroyedJoined == \A r \in destroyed : AutoRestart(r) => lpc[r] = "exited"

\* While a thread is inside a critical section of g_relaysMutex or g_pendingMutex,
\* no other thread changes the vector that mutex guards.
Steps(t) == pc'[t] # pc[t] \/ (t = "monitor" /\ visit' # visit)
GuardedByMutex ==
    [][\A t \in Threads : ~Steps(t) =>
          /\ relaysMutex = t => relays' = relays
          /\ pendingMutex = t => pendingRemoval' = pendingRemoval]_vars

\* Thread t goes on only after thread u has: it wants a mutex that u holds, or joins a
\* listen thread that wants g_relaysMutex, or waits for the end of u.
AwaitsRelays(t) ==
    \/ t = "monitor" /\ \/ At(t, "pendPush")
                        \/ At(t, "top") /\ ~gStop
    \/ t = "control" /\ \/ \E pass \in Passes : At(t, pass) /\ Retired(pass) # {}
                        \/ At(t, "add") /\ ToCreate # {}
                        \/ At(t, "refresh")
    \/ t = "sysmon" /\ At(t, "putBack")
    \/ t = "main" /\ At(t, "stopAll")
AwaitsPending(t) ==
    \/ t = "monitor" /\ pc[t] \in {"idlePush", "pend"}
    \/ t = "control" /\ \E pass \in Passes : At(t, Pushing[pass])
Joins(t) ==
    \/ t = "monitor" /\ At(t, "pendJoin")
    \/ t = "sysmon" /\ pc[t] \in {"rearm", "discard"}
    \/ t = "main" /\ At(t, "joining")
WaitsFor(t, u) ==
    \/ AwaitsRelays(t) /\ relaysMutex = u
    \/ AwaitsPending(t) /\ pendingMutex = u
    \/ Joins(t) /\ lpc[cur[t]] = "persist" /\ relaysMutex = u
    \/ t = "main" /\ At(t, "joinMonitor") /\ u = "monitor"
    \/ t = "main" /\ At(t, "joinSysmon") /\ u = "sysmon"

\* There are three ways in which threads of the daemon come to wait for each other for
\* ever, and no others, in however long a circle: a reload against the pending pass, the
\* shutdown against a /__set_refresh on the relay it joins, and an eviction against one on
\* the victim that it discards.
Waiting == {t \in Threads : \E u \in Threads : WaitsFor(t, u)}
Deadlock == \E S \in (SUBSET Waiting) \ {{}} : \A t \in S : \E u \in S : WaitsFor(t, u)
KnownDeadlock ==
    \/ WaitsFor("control", "monitor") /\ WaitsFor("monitor", "control")
    \/ At("main", "joining") /\ WaitsFor("main", "main")
    \/ At("sysmon", "discard") /\ WaitsFor("sysmon", "sysmon")
KnownDeadlocks == Deadlock => KnownDeadlock

\* The registry implements the life cycle it promises for every relay.
Phase(r) == CASE conf[r] = None         -> "none"
              [] r \in destroyed       -> "gone"
              [] r \in Victim          -> "evicting"
              [] r \in pendingRemoval  -> "draining"
              [] OTHER                 -> "serving"
Life == INSTANCE RelayLifecycle WITH
            phase    <- [r \in Relays |-> Phase(r)],
            address  <- [r \in Relays |-> IF conf[r] = None THEN None ELSE AddrOf(r)],
            restarts <- {r \in Constructed : AutoRestart(r)},
            closed   <- {r \in Relays : stop[r]}
ImplementsLifecycle == Life!Spec

\* Every relay is used as RelayThreads, which Relay implements, lets its owner use it:
\* whichever of the four threads owns it, its threads are started again only when both
\* are over, stop_ is only cleared by that, and no other step of the registry touches the
\* place of its listen thread, or brings a backend up.
Contract(r, restart) == INSTANCE RelayThreads WITH
                            Restarts <- restart,
                            stop        <- stop[r],
                            running     <- running[r],
                            lpc         <- IF lpc[r] = "persist" THEN "loop" ELSE lpc[r]
Kept(r) ==
    \A restart \in BOOLEAN : AutoRestart(r) = restart =>
        UNCHANGED Contract(r, restart)!relay \/ Contract(r, restart)!Next
KeepsContract == [][\A r \in Constructed : Kept(r)]_vars

\* monitorLoop gets rid of every pending relay that has an idle time: its backend is
\* stopped once idle, and the relay is back in g_relays or erased. One thing can stop
\* it: resetForIdle joins, with g_pendingMutex held, a listen thread whose launch was
\* already under way when the relay was told to stop, and that backend lives on.
LateLaunch == At("monitor", "pendJoin") /\ running[cur["monitor"]]
PendingLeaves ==
    \A r \in Relays :
        r \in pendingRemoval /\ IdleStopped(r) ~> r \notin pendingRemoval \/ LateLaunch

\* A /__set_refresh request served by a listen thread is not kept waiting for
\* g_relaysMutex for ever by the threads that sample, retire and evict.
RefreshCompletes == \A r \in Relays : lpc[r] = "persist" ~> lpc[r] # "persist"

\* Hot reload never wedges the daemon (CONFIG.md:624, 728): the two mutexes are never
\* each held by a thread that waits for the other.
NoCircularWait ==
    ~ /\ relaysMutex = "control" /\ \E p \in Passes : At("control", Pushing[p])
      /\ pendingMutex = "monitor" /\ At("monitor", "pendPush")

\* A port that a reload deleted is stopped for good (CONFIG.md:732): between reloads
\* g_relays serves only configured addresses.
ServedIsConfigured ==
    At("control", "idle") => \A r \in relays : currentCfgs[AddrOf(r)] # NoCfg
=============================================================================
