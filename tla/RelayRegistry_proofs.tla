------------------------ MODULE RelayRegistry_proofs ------------------------
(***************************************************************************)
(* Proofs about RelayRegistry, for any number of relays, addresses and     *)
(* configurations.                                                         *)
(*                                                                         *)
(* The argument has two layers. The first, Bookkeeping, says which thread  *)
(* holds which mutex at which point and what the local variable of a       *)
(* thread points to there: whoever is about to move a relay holds the      *)
(* mutex of the vector it moves it from, so the relay is still in it. The  *)
(* second, on top of the first, says where every relay is.                 *)
(*                                                                         *)
(* A last part follows the threads that wait: each holder of a mutex waits *)
(* at few points, so that every circle of waiting threads is a known one.  *)
(***************************************************************************)
EXTENDS RelayRegistry, TLAPS

\* The points at which a thread holds g_relaysMutex.
HoldsRelays(t) ==
    \/ t = "monitor" /\ pc[t] \in {"idleScan", "idleMark", "idlePush"}
    \/ t = "control" /\ pc[t] \in {"removing", "removePush", "modifying", "modifyPush"}
    \/ t = "sysmon" /\ pc[t] = "discard"
    \/ t = "main" /\ pc[t] \in {"stopping", "joining"}

\* The points at which it holds g_pendingMutex.
HoldsPending(t) == t = "monitor" /\ pc[t] \in {"pendScan", "pendJoin", "pendPush"}

\* The mutexes say the same.
Locks ==
    /\ \A t \in Threads : relaysMutex = t <=> HoldsRelays(t)
    /\ \A t \in Threads : pendingMutex = t <=> HoldsPending(t)

\* What the relay a thread works on is, by where the thread is.
Current ==
    /\ pc["monitor"] \in {"idleMark", "idlePush"} => cur["monitor"] \in relays
    /\ pc["monitor"] \in {"pendJoin", "pendPush"} => cur["monitor"] \in pendingRemoval \ visit
    /\ pc["control"] \in {"removePush", "modifyPush"} => cur["control"] \in relays
    /\ pc["sysmon"] \in {"evict", "signal", "rearm", "putBack", "discard"} <=> cur["sysmon"] # None
    /\ pc["main"] = "joining" => cur["main"] \in Relays
    /\ visit \subseteq pendingRemoval

\* The first layer of the invariant.
Bookkeeping == TypeOK /\ Locks /\ Current

\* A relay that takes connections; without auto_restart its listen thread may be over.
Armed(r) == ~stop[r] /\ (AutoRestart(r) => lpc[r] \notin {"off", "ended", "exited"})

\* The flags of the relays on their way between two places.
Flags ==
    /\ \A r \in Relays \ Constructed : ~stop[r]
    /\ pc["monitor"] = "idlePush" => stop[cur["monitor"]]
    /\ pc["control"] \in {"removePush", "modifyPush"} => stop[cur["control"]]
    /\ pc["monitor"] \in {"pendJoin", "pendPush"} => AutoRestart(cur["monitor"])
    /\ pc["monitor"] = "pendPush" => Armed(cur["monitor"])
    /\ pc["sysmon"] = "putBack" => Armed(cur["sysmon"])

\* The layer above, on where relays are and what they do there.
Serving == Flags /\ ServingArmed /\ PendingStopped /\ DestroyedJoined

-----------------------------------------------------------------------------
(* Bookkeeping is inductive.                                               *)

\* The registry starts with its books in order.
LEMMA BookkeepingInit == Init => Bookkeeping
<1> SUFFICES ASSUME Init PROVE Bookkeeping
  OBVIOUS
<1> USE ConstantsAssumption
<1>1. conf \in [Relays -> [addr : Addrs, cfg : Cfgs] \cup {None}]
  BY DEF Init
<1>2. pc \in [Threads -> Labels]
  BY DEF Init, Threads, Labels
<1>3. TypeOK
  <2>1. relays \subseteq Relays /\ pendingRemoval \subseteq Relays /\ destroyed \subseteq Relays
    BY DEF Init, Constructed
  <2>2. lpc \in [Relays -> {"off", "loop", "persist", "launch", "wait", "ended", "exited"}]
    BY DEF Init
  <2>3. currentCfgs \in ConfigSpace /\ newCfgs \in ConfigSpace
    BY DEF Init, ConfigSpace
  <2>4. stop \in [Relays -> BOOLEAN] /\ running \in [Relays -> BOOLEAN]
    BY DEF Init
  <2>5. cur \in [Threads -> Relays \cup {None}] /\ visit \subseteq Relays
    BY DEF Init
  <2>6. gStop \in BOOLEAN
    BY DEF Init
  <2>7. reloads \in 0 .. MaxReloads
    <3>1. reloads = 0
      BY DEF Init
    <3> QED
      BY <3>1
  <2>8. relaysMutex \in Threads \cup {None} /\ pendingMutex \in Threads \cup {None}
    BY DEF Init
  <2> QED
    BY <1>1, <1>2, <2>1, <2>2, <2>3, <2>4, <2>5, <2>6, <2>7, <2>8 DEF TypeOK
<1>4. Locks
  BY DEF Init, Locks, HoldsRelays, HoldsPending, Threads
<1>5. Current
  BY DEF Init, Current, Threads
<1> QED
  BY <1>3, <1>4, <1>5 DEF Bookkeeping

\* A step of the threads of a relay is seen in its own flags only. With auto_restart the
\* listen thread is over only if it was, or if stop_ is set.
LEMMA ListenerEffect ==
    ASSUME TypeOK, NEW r \in Relays, Listener(r)
    PROVE  /\ OnlyRelays
           /\ running' \in [Relays -> BOOLEAN]
           /\ lpc' \in [Relays -> {"off", "loop", "persist", "launch", "wait", "ended", "exited"}]
           /\ \A q \in Relays \ {r} : lpc'[q] = lpc[q]
           /\ lpc'[r] = "off" => lpc[r] = "off"
           /\ AutoRestart(r) /\ lpc'[r] \in {"ended", "exited"} =>
                 stop[r] \/ lpc[r] \in {"ended", "exited"}
<1> USE DEF TypeOK
<1>1. CASE BackendExit(r)
  BY <1>1 DEF BackendExit
<1>2. CASE BackendAdopt(r)
  BY <1>2 DEF BackendAdopt
<1>3. CASE ListenerLaunch(r)
  BY <1>3 DEF ListenerLaunch
<1>4. CASE ThreadsEnd(r)
  BY <1>4 DEF ThreadsEnd, Cleared
<1>5. CASE ListenerEnd(r)
  BY <1>5 DEF ListenerEnd, ListenGoto, AutoRestart
<1>6. CASE ListenerForkFails(r) \/ ListenerReturn(r)
  BY <1>6 DEF ListenerForkFails, ListenerReturn, ListenGoto, Over
<1>7. CASE ListenerAccept(r) \/ ListenerDecline(r) \/ ListenerRefresh(r) \/ ListenerPersist(r)
  BY <1>7 DEF ListenerAccept, ListenerDecline, ListenerRefresh, ListenerPersist, ListenGoto
<1> QED
  BY <1>1, <1>2, <1>3, <1>4, <1>5, <1>6, <1>7 DEF Listener

\* The threads of a relay touch neither the vectors nor the mutexes.
LEMMA BookkeepingListener ==
    ASSUME Bookkeeping, NEW r \in Relays, Listener(r)
    PROVE  Bookkeeping'
<1>1. TypeOK'
  BY ListenerEffect DEF Bookkeeping, OnlyRelays, TypeOK, ownership, locks, reloadVars
<1>2. UNCHANGED <<relays, pendingRemoval, relaysMutex, pendingMutex, pc, cur, visit>>
  BY ListenerEffect DEF Bookkeeping, OnlyRelays, ownership, locks
<1>3. Locks'
  BY <1>2 DEF Bookkeeping, Locks, HoldsRelays, HoldsPending
<1>4. Current'
  BY <1>2 DEF Bookkeeping, Current
<1> QED
  BY <1>1, <1>3, <1>4 DEF Bookkeeping

\* monitorLoop's steps keep the books.
LEMMA BookkeepingMonitor ==
    ASSUME Bookkeeping, Monitor
    PROVE  Bookkeeping'
<1> USE ConstantsAssumption
    DEF Bookkeeping, ownership, locks, relayVars, reloadVars, At, Goto,
        RelaysMutexFree, PendingMutexFree, TypeOK, Locks, Current,
        HoldsRelays, HoldsPending, Threads, Labels
<1>1. CASE MonitorEnd
  BY <1>1 DEF MonitorEnd
<1>2. CASE MonitorIdleLock
  BY <1>2 DEF MonitorIdleLock
<1>3. ASSUME NEW r \in Relays, MonitorIdleFind(r) PROVE Bookkeeping'
  BY <1>3 DEF MonitorIdleFind
<1>4. CASE MonitorIdleMark
  BY <1>4 DEF MonitorIdleMark
<1>5. CASE MonitorIdlePush
  BY <1>5 DEF MonitorIdlePush
<1>6. CASE MonitorIdleUnlock
  BY <1>6 DEF MonitorIdleUnlock
<1>7. CASE MonitorPendLock
  BY <1>7 DEF MonitorPendLock
<1>8. ASSUME NEW r \in Relays, MonitorPendKeep(r) PROVE Bookkeeping'
  BY <1>8 DEF MonitorPendKeep
<1>9. ASSUME NEW r \in Relays, MonitorPendGraceful(r) PROVE Bookkeeping'
  BY <1>9 DEF MonitorPendGraceful
<1>10. ASSUME NEW r \in Relays, MonitorPendReset(r) PROVE Bookkeeping'
  BY <1>10 DEF MonitorPendReset
<1>11. CASE MonitorPendJoin
  BY <1>11 DEF MonitorPendJoin, Rearm
<1>12. CASE MonitorPendPush
  BY <1>12 DEF MonitorPendPush
<1>13. ASSUME NEW r \in Relays, MonitorPendErase(r) PROVE Bookkeeping'
  BY <1>13 DEF MonitorPendErase
<1>14. CASE MonitorPendUnlock
  BY <1>14 DEF MonitorPendUnlock
<1> QED
  BY <1>1, <1>2, <1>3, <1>4, <1>5, <1>6, <1>7, <1>8, <1>9, <1>10, <1>11, <1>12, <1>13,
     <1>14 DEF Monitor

\* reloadConfig's and handleRefresh's steps keep the books.
LEMMA BookkeepingControl ==
    ASSUME Bookkeeping, Control
    PROVE  Bookkeeping'
<1> USE ConstantsAssumption
    DEF Bookkeeping, ownership, locks, relayVars, reloadVars, At, Goto,
        RelaysMutexFree, PendingMutexFree, TypeOK, Locks, Current,
        HoldsRelays, HoldsPending, Threads, Labels
<1>1. ASSUME NEW new \in ConfigSpace, ControlReload(new) PROVE Bookkeeping'
  BY <1>1 DEF ControlReload
<1>2. ASSUME NEW pass \in Passes, ControlPassLock(pass) PROVE Bookkeeping'
  BY <1>2 DEF ControlPassLock, Passes, Scanning, Following
<1>3. ASSUME NEW pass \in Passes, NEW r \in Relays, ControlPassMark(pass, r)
      PROVE  Bookkeeping'
  BY <1>3 DEF ControlPassMark, Passes, Scanning, Pushing
<1>4. ASSUME NEW pass \in Passes, ControlPassPush(pass) PROVE Bookkeeping'
  BY <1>4 DEF ControlPassPush, Passes, Scanning, Pushing
<1>5. ASSUME NEW pass \in Passes, ControlPassUnlock(pass) PROVE Bookkeeping'
  BY <1>5 DEF ControlPassUnlock, Passes, Scanning, Following
<1>6. CASE ControlAdd
  BY <1>6 DEF ControlAdd, ToCreate, Added, Modified, ConfigSpace
<1>7. ASSUME NEW r \in Relays, ControlFind(r) PROVE Bookkeeping'
  BY <1>7 DEF ControlFind
<1>8. CASE ControlRefresh
  BY <1>8 DEF ControlRefresh
<1> QED
  BY <1>1, <1>2, <1>3, <1>4, <1>5, <1>6, <1>7, <1>8 DEF Control

\* stop() leaves the two flags Booleans.
LEMMA StopRelayType ==
    ASSUME TypeOK, NEW r \in Relays, StopRelay(r)
    PROVE  stop' \in [Relays -> BOOLEAN] /\ running' \in [Relays -> BOOLEAN]
<1>1. PICK still \in {FALSE, running[r]} : running' = [running EXCEPT ![r] = still]
  BY DEF StopRelay
<1>2. still \in BOOLEAN
  BY DEF TypeOK
<1> QED
  BY <1>1, <1>2 DEF StopRelay, TypeOK

\* maybeEvict's steps keep the books.
LEMMA BookkeepingEvictor ==
    ASSUME Bookkeeping, Evictor
    PROVE  Bookkeeping'
<1> USE ConstantsAssumption
    DEF Bookkeeping, ownership, locks, relayVars, reloadVars, At, Goto,
        RelaysMutexFree, PendingMutexFree, TypeOK, Locks, Current,
        HoldsRelays, HoldsPending, Threads, Labels
<1>1. ASSUME NEW r \in Relays, EvictPick(r) PROVE Bookkeeping'
  BY <1>1 DEF EvictPick
<1>2. CASE EvictGraceful
  BY <1>2 DEF EvictGraceful
<1>8. CASE EvictSignal
  BY <1>8 DEF EvictSignal
<1>3. CASE EvictRearm
  BY <1>3 DEF EvictRearm, Rearm
<1>4. CASE EvictPutBack
  BY <1>4 DEF EvictPutBack
<1>5. CASE EvictReplaced
  <2>1. cur["sysmon"] \in Relays
    BY <1>5 DEF EvictReplaced
  <2>2. stop' \in [Relays -> BOOLEAN] /\ running' \in [Relays -> BOOLEAN]
    BY <1>5, <2>1, StopRelayType DEF EvictReplaced
  <2> QED
    BY <1>5, <2>2 DEF EvictReplaced
<1>6. CASE EvictDiscard
  BY <1>6 DEF EvictDiscard
<1>7. CASE EvictStop
  BY <1>7 DEF EvictStop
<1> QED
  BY <1>1, <1>2, <1>3, <1>4, <1>5, <1>6, <1>7, <1>8 DEF Evictor

\* The steps of the shutdown keep the books.
LEMMA BookkeepingMain ==
    ASSUME Bookkeeping, Main
    PROVE  Bookkeeping'
<1> USE ConstantsAssumption
    DEF Bookkeeping, ownership, locks, relayVars, reloadVars, At, Goto,
        RelaysMutexFree, PendingMutexFree, TypeOK, Locks, Current,
        HoldsRelays, HoldsPending, Threads, Labels
<1>1. CASE MainSignal
  BY <1>1 DEF MainSignal
<1>2. CASE MainLock
  BY <1>2 DEF MainLock
<1>3. ASSUME NEW r \in Relays, MainStopRelay(r) PROVE Bookkeeping'
  <2>1. stop' \in [Relays -> BOOLEAN] /\ running' \in [Relays -> BOOLEAN]
    BY <1>3, StopRelayType DEF MainStopRelay
  <2> QED
    BY <1>3, <2>1 DEF MainStopRelay
<1>4. CASE MainJoinRelay
  BY <1>4 DEF MainJoinRelay
<1>5. CASE MainUnlock
  BY <1>5 DEF MainUnlock
<1>6. CASE MainJoinMonitor
  BY <1>6 DEF MainJoinMonitor
<1>7. CASE MainExit
  BY <1>7 DEF MainExit
<1> QED
  BY <1>1, <1>2, <1>3, <1>4, <1>5, <1>6, <1>7 DEF Main

\* Every step keeps the books.
LEMMA BookkeepingStep == Bookkeeping /\ [Next]_vars => Bookkeeping'
<1> SUFFICES ASSUME Bookkeeping, [Next]_vars PROVE Bookkeeping'
  OBVIOUS
<1>1. CASE UNCHANGED vars
  BY <1>1 DEF vars, Bookkeeping, TypeOK, Locks, Current, HoldsRelays, HoldsPending
<1> QED
  BY <1>1, BookkeepingListener, BookkeepingMonitor, BookkeepingControl,
     BookkeepingEvictor, BookkeepingMain DEF Next

\* The books are always in order.
THEOREM BookkeepingInvariant == Spec => []Bookkeeping
  BY BookkeepingInit, BookkeepingStep, PTL DEF Spec

\* Every variable of the registry stays within its type.
THEOREM TypeCorrect == Spec => []TypeOK
<1>1. Bookkeeping => TypeOK
  BY DEF Bookkeeping
<1> QED
  BY <1>1, BookkeepingInvariant, PTL

-----------------------------------------------------------------------------
(* Every relay is in exactly one place. Only nine actions move one.        *)

\* Whatever moves no relay keeps OwnedOnce.
LEMMA OwnedUnchanged ==
    ASSUME OwnedOnce, UNCHANGED <<ownership, conf>>, cur'["sysmon"] = cur["sysmon"]
    PROVE  OwnedOnce'
  BY DEF OwnedOnce, Victim, Constructed, ownership

\* monitorLoop moves a relay between the vectors, or erases it.
LEMMA OwnedMonitor ==
    ASSUME Bookkeeping, OwnedOnce, Monitor
    PROVE  OwnedOnce'
<1> USE DEF Bookkeeping, relayVars
<1>1. cur \in [Threads -> Relays \cup {None}] /\ pc \in [Threads -> Labels]
  BY DEF TypeOK
<1>2. CASE \/ MonitorEnd \/ MonitorIdleLock \/ MonitorIdleMark \/ MonitorIdleUnlock
           \/ MonitorPendLock \/ MonitorPendJoin \/ MonitorPendUnlock
           \/ \E r \in Relays : \/ MonitorIdleFind(r) \/ MonitorPendKeep(r)
                                \/ MonitorPendGraceful(r) \/ MonitorPendReset(r)
  <2>1. UNCHANGED <<ownership, conf>> /\ cur'["sysmon"] = cur["sysmon"]
    BY <1>1, <1>2
       DEF MonitorEnd, MonitorIdleLock, MonitorIdleMark, MonitorIdleUnlock, MonitorPendLock,
           MonitorPendJoin, MonitorPendUnlock, MonitorIdleFind, MonitorPendKeep,
           MonitorPendGraceful, MonitorPendReset, Threads
  <2> QED
    BY <2>1, OwnedUnchanged
<1>3. CASE MonitorIdlePush
  <2>1. cur["monitor"] \in relays
    BY <1>3 DEF MonitorIdlePush, At, Current
  <2>2. cur'["sysmon"] = cur["sysmon"] /\ conf' = conf /\ destroyed' = destroyed
    BY <1>1, <1>3 DEF MonitorIdlePush, Threads
  <2> QED
    BY <1>3, <2>1, <2>2 DEF MonitorIdlePush, OwnedOnce, Victim, Constructed
<1>4. CASE MonitorPendPush
  <2>1. cur["monitor"] \in pendingRemoval
    BY <1>4 DEF MonitorPendPush, At, Current
  <2>2. cur'["sysmon"] = cur["sysmon"] /\ conf' = conf /\ destroyed' = destroyed
    BY <1>1, <1>4 DEF MonitorPendPush, Threads
  <2> QED
    BY <1>4, <2>1, <2>2 DEF MonitorPendPush, OwnedOnce, Victim, Constructed
<1>5. ASSUME NEW r \in Relays, MonitorPendErase(r) PROVE OwnedOnce'
  <2>1. r \in pendingRemoval
    BY <1>5 DEF MonitorPendErase, Current
  <2>2. cur' = cur /\ conf' = conf /\ relays' = relays
    BY <1>5 DEF MonitorPendErase
  <2> QED
    BY <1>5, <2>1, <2>2 DEF MonitorPendErase, OwnedOnce, Victim, Constructed
<1> QED
  BY <1>2, <1>3, <1>4, <1>5 DEF Monitor

\* A reload moves relays to g_pendingRemoval and constructs new ones.
LEMMA OwnedControl ==
    ASSUME Bookkeeping, OwnedOnce, Control
    PROVE  OwnedOnce'
<1> USE DEF Bookkeeping, relayVars
<1>1. cur \in [Threads -> Relays \cup {None}] /\ pc \in [Threads -> Labels]
  BY DEF TypeOK
<1>2. CASE \/ \E new \in ConfigSpace : ControlReload(new)
           \/ \E pass \in Passes : ControlPassLock(pass) \/ ControlPassUnlock(pass)
           \/ \E pass \in Passes, r \in Relays : ControlPassMark(pass, r)
           \/ \E r \in Relays : ControlFind(r)
           \/ ControlRefresh
  <2>1. UNCHANGED <<ownership, conf>> /\ cur'["sysmon"] = cur["sysmon"]
    BY <1>1, <1>2
       DEF ControlReload, ControlPassLock, ControlPassUnlock, ControlPassMark, ControlFind,
           ControlRefresh, Threads
  <2> QED
    BY <2>1, OwnedUnchanged
<1>3. ASSUME NEW pass \in Passes, ControlPassPush(pass) PROVE OwnedOnce'
  <2>1. cur["control"] \in relays
    BY <1>3 DEF ControlPassPush, Passes, Pushing, At, Current
  <2>2. cur'["sysmon"] = cur["sysmon"] /\ conf' = conf /\ destroyed' = destroyed
    BY <1>1, <1>3 DEF ControlPassPush, Threads
  <2> QED
    BY <1>3, <2>1, <2>2 DEF ControlPassPush, OwnedOnce, Victim, Constructed
<1>4. CASE ControlAdd
  <2>1. PICK fresh \in SUBSET (Relays \ Constructed) :
          /\ relays' = relays \cup fresh
          /\ \E place \in [fresh -> ToCreate] :
                conf' = [r \in Relays |->
                           IF r \in fresh
                           THEN [addr |-> place[r], cfg |-> newCfgs[place[r]]]
                           ELSE conf[r]]
    BY <1>4 DEF ControlAdd
  <2>2. PICK place \in [fresh -> ToCreate] :
          conf' = [r \in Relays |-> IF r \in fresh
                                    THEN [addr |-> place[r], cfg |-> newCfgs[place[r]]]
                                    ELSE conf[r]]
    BY <2>1
  <2>3. ASSUME NEW r \in fresh PROVE conf'[r] # None
    <3>1. newCfgs[place[r]] \in Cfgs /\ place[r] \in Addrs
      BY <2>2, <2>3, ConstantsAssumption
         DEF ToCreate, Added, Modified, TypeOK, ConfigSpace
    <3> QED
      BY <2>2, <2>3, <3>1, ConstantsAssumption
  <2>4. Constructed' = Constructed \cup fresh
    BY <2>2, <2>3 DEF Constructed
  <2>5. UNCHANGED <<pendingRemoval, destroyed, cur>>
    BY <1>4 DEF ControlAdd
  <2>6. Victim' = Victim
    BY <2>5 DEF Victim
  <2>7. fresh \cap (relays \cup pendingRemoval \cup Victim \cup destroyed) = {}
    BY <2>1 DEF OwnedOnce
  <2> QED
    BY <2>1, <2>4, <2>5, <2>6, <2>7 DEF OwnedOnce
<1> QED
  BY <1>2, <1>3, <1>4 DEF Control

\* An eviction takes a relay out of g_relays, and puts it back or destroys it.
LEMMA OwnedEvictor ==
    ASSUME Bookkeeping, OwnedOnce, Evictor
    PROVE  OwnedOnce'
<1> USE DEF Bookkeeping, relayVars, At
<1>1. cur \in [Threads -> Relays \cup {None}] /\ None \notin Relays
  BY ConstantsAssumption DEF TypeOK
<1>2. CASE EvictGraceful \/ EvictSignal \/ EvictRearm \/ EvictReplaced \/ EvictStop
  <2>1. UNCHANGED <<ownership, conf>> /\ cur'["sysmon"] = cur["sysmon"]
    BY <1>2 DEF EvictGraceful, EvictSignal, EvictRearm, EvictReplaced, EvictStop
  <2> QED
    BY <2>1, OwnedUnchanged
<1>3. ASSUME NEW r \in Relays, EvictPick(r) PROVE OwnedOnce'
  <2>1. Victim = {}
    BY <1>1, <1>3 DEF EvictPick, Current, Victim
  <2>2. Victim' = {r}
    BY <1>1, <1>3 DEF EvictPick, Victim, Threads
  <2> QED
    BY <1>3, <2>1, <2>2 DEF EvictPick, OwnedOnce, Constructed
<1>4. CASE EvictPutBack
  <2>1. cur["sysmon"] \in Relays
    BY <1>1, <1>4 DEF EvictPutBack, Current, Threads
  <2>2. Victim = {cur["sysmon"]}
    BY <2>1 DEF Victim
  <2>3. Victim' = {}
    BY <1>1, <1>4 DEF EvictPutBack, Victim, Threads
  <2> QED
    BY <1>4, <2>2, <2>3 DEF EvictPutBack, OwnedOnce, Constructed
<1>5. CASE EvictDiscard
  <2>1. cur["sysmon"] \in Relays
    BY <1>1, <1>5 DEF EvictDiscard, Current, Threads
  <2>2. Victim = {cur["sysmon"]}
    BY <2>1 DEF Victim
  <2>3. Victim' = {}
    BY <1>1, <1>5 DEF EvictDiscard, Victim, Threads
  <2> QED
    BY <1>5, <2>2, <2>3 DEF EvictDiscard, OwnedOnce, Constructed
<1> QED
  BY <1>2, <1>3, <1>4, <1>5 DEF Evictor

\* Neither the shutdown nor a listen thread moves a relay.
LEMMA OwnedOthers ==
    ASSUME Bookkeeping, OwnedOnce, Main \/ \E r \in Relays : Listener(r)
    PROVE  OwnedOnce'
<1>1. cur \in [Threads -> Relays \cup {None}]
  BY DEF Bookkeeping, TypeOK
<1>2. UNCHANGED <<ownership, conf>> /\ cur'["sysmon"] = cur["sysmon"]
  BY <1>1, ListenerEffect
     DEF Bookkeeping, OnlyRelays, Main, MainSignal, MainLock, MainStopRelay, MainJoinRelay,
         MainUnlock, MainJoinMonitor, MainExit, relayVars, Threads
<1> QED
  BY <1>2, OwnedUnchanged

\* No relay is ever in two places, or lost.
THEOREM Ownership == Spec => []OwnedOnce
<1>1. Init => OwnedOnce
  BY ConstantsAssumption DEF Init, OwnedOnce, Victim, Constructed, Threads
<1>2. Bookkeeping /\ OwnedOnce /\ [Next]_vars => OwnedOnce'
  <2> SUFFICES ASSUME Bookkeeping, OwnedOnce, [Next]_vars PROVE OwnedOnce'
    OBVIOUS
  <2>1. CASE UNCHANGED vars
    BY <2>1, OwnedUnchanged DEF vars, ownership
  <2> QED
    BY <2>1, OwnedMonitor, OwnedControl, OwnedEvictor, OwnedOthers DEF Next
<1> QED
  BY <1>1, <1>2, BookkeepingInvariant, PTL DEF Spec

-----------------------------------------------------------------------------
(* Mutual exclusion: what is guarded by a mutex changes only under it.     *)

\* A thread inside a critical section is alone in changing the vector it locked.
THEOREM MutualExclusion == Spec => GuardedByMutex
<1> DEFINE Guarded ==
      \A t \in Threads : ~Steps(t) =>
          /\ relaysMutex = t => relays' = relays
          /\ pendingMutex = t => pendingRemoval' = pendingRemoval
<1>1. Bookkeeping /\ [Next]_vars => Guarded
  <2> SUFFICES ASSUME Bookkeeping, [Next]_vars, NEW t \in Threads, ~Steps(t),
                      relays' # relays \/ pendingRemoval' # pendingRemoval
               PROVE  /\ relaysMutex = t => relays' = relays
                      /\ pendingMutex = t => pendingRemoval' = pendingRemoval
    OBVIOUS
  <2> USE ConstantsAssumption
      DEF Bookkeeping, TypeOK, Threads, Steps, At, Goto, RelaysMutexFree, PendingMutexFree
  <2>1. CASE \E r \in Relays : Listener(r)
    BY <2>1, ListenerEffect DEF OnlyRelays, ownership
  <2>2. CASE Monitor
    <3>1. t # "monitor"
      BY <2>2 DEF Monitor, MonitorEnd, MonitorIdleLock, MonitorIdleFind, MonitorIdleMark,
         MonitorIdlePush, MonitorIdleUnlock, MonitorPendLock, MonitorPendKeep,
         MonitorPendGraceful, MonitorPendReset, MonitorPendJoin, MonitorPendPush,
         MonitorPendErase, MonitorPendUnlock
    <3>2. CASE MonitorIdlePush
      BY <3>1, <3>2 DEF MonitorIdlePush, Locks, HoldsRelays
    <3>3. CASE MonitorPendPush
      BY <3>1, <3>3 DEF MonitorPendPush, Locks, HoldsPending
    <3>4. ASSUME NEW r \in Relays, MonitorPendErase(r)
          PROVE  relays' = relays /\ pendingMutex = "monitor"
      BY <3>4 DEF MonitorPendErase, Locks, HoldsPending
    <3>5. CASE UNCHANGED ownership
      BY <3>5 DEF ownership
    <3>6. \/ MonitorIdlePush \/ MonitorPendPush \/ UNCHANGED ownership
          \/ \E r \in Relays : MonitorPendErase(r)
      BY <2>2 DEF Monitor, MonitorEnd, MonitorIdleLock, MonitorIdleFind, MonitorIdleMark,
         MonitorIdleUnlock, MonitorPendLock, MonitorPendKeep, MonitorPendGraceful,
         MonitorPendReset, MonitorPendJoin, MonitorPendUnlock
    <3> QED
      BY <3>1, <3>2, <3>3, <3>4, <3>5, <3>6
  <2>3. CASE Control
    <3>1. CASE UNCHANGED ownership
      BY <3>1 DEF ownership
    <3>2. ASSUME NEW pass \in Passes, ControlPassPush(pass)
          PROVE  relaysMutex = "control" /\ pendingMutex = None
      BY <3>2 DEF ControlPassPush, Passes, Pushing, Locks, HoldsRelays
    <3>3. ASSUME NEW pass \in Passes, ControlPassPush(pass) PROVE t # "control"
      BY <3>3 DEF ControlPassPush, Passes, Pushing, Scanning
    <3>4. CASE ControlAdd
      <4>1. t # "control"
        BY <3>4 DEF ControlAdd
      <4>2. ~HoldsRelays("control")
        BY <3>4 DEF ControlAdd, HoldsRelays
      <4>3. CASE ToCreate = {}
        <5>1. relays' = relays /\ pendingRemoval' = pendingRemoval
          BY <3>4, <4>3 DEF ControlAdd
        <5> QED
          BY <5>1
      <4>4. CASE ToCreate # {}
        BY <3>4, <4>4 DEF ControlAdd
      <4> QED
        BY <4>3, <4>4
    <3>5. \/ UNCHANGED ownership \/ ControlAdd
          \/ \E pass \in Passes : ControlPassPush(pass)
      BY <2>3 DEF Control, ControlReload, ControlPassLock, ControlPassMark,
         ControlPassUnlock, ControlFind, ControlRefresh
    <3> QED
      BY <3>1, <3>2, <3>3, <3>4, <3>5
  <2>4. CASE Evictor
    BY <2>4 DEF Evictor, EvictPick, EvictGraceful, EvictSignal, EvictRearm, EvictPutBack, EvictReplaced,
       EvictDiscard, EvictStop, ownership
  <2>5. CASE Main
    BY <2>5 DEF Main, MainSignal, MainLock, MainStopRelay, MainJoinRelay, MainUnlock,
       MainJoinMonitor, MainExit, ownership
  <2>6. CASE UNCHANGED vars
    BY <2>6 DEF vars
  <2> QED
    BY <2>1, <2>2, <2>3, <2>4, <2>5, <2>6 DEF Next
<1>2. Bookkeeping /\ [Next]_vars => [Guarded]_vars
  BY <1>1
<1> QED
  BY <1>2, BookkeepingInvariant, PTL DEF Spec, GuardedByMutex

-----------------------------------------------------------------------------
(* Deadlocks. Who holds a mutex waits for few others, so a circle of       *)
(* threads that wait for each other is soon closed.                        *)

\* Who holds g_relaysMutex waits for g_pendingMutex or joins a relay.
LEMMA RelaysHolderWaits ==
    ASSUME Bookkeeping, NEW t \in Threads, NEW u \in Threads, relaysMutex = t, WaitsFor(t, u)
    PROVE  \/ KnownDeadlock
           \/ t = "control" /\ u = "monitor" /\ pendingMutex = "monitor"
<1> USE ConstantsAssumption DEF Bookkeeping, Locks, HoldsRelays, HoldsPending, Threads, At
<1>1. HoldsRelays(t)
  OBVIOUS
<1>2. ~AwaitsRelays(t)
  BY <1>1 DEF AwaitsRelays, Passes
<1>3. pendingMutex = u => u = "monitor" /\ pc["monitor"] \in {"pendScan", "pendJoin", "pendPush"}
  OBVIOUS
<1>4. CASE t = "monitor"
  BY <1>1, <1>2, <1>3, <1>4 DEF WaitsFor, AwaitsPending, Joins
<1>5. CASE t = "control"
  BY <1>1, <1>2, <1>3, <1>5 DEF WaitsFor, Joins
<1>6. CASE t = "sysmon"
  <2>1. At("sysmon", "discard") /\ u = "sysmon"
    BY <1>1, <1>2, <1>6 DEF WaitsFor, AwaitsPending
  <2>2. WaitsFor("sysmon", "sysmon")
    BY <1>6, <2>1
  <2> QED
    BY <2>1, <2>2 DEF KnownDeadlock
<1>7. CASE t = "main"
  <2>1. At("main", "joining") /\ u = "main"
    BY <1>1, <1>2, <1>7 DEF WaitsFor, AwaitsPending, Joins
  <2>2. WaitsFor("main", "main")
    BY <1>7, <2>1
  <2> QED
    BY <2>1, <2>2 DEF KnownDeadlock
<1> QED
  BY <1>4, <1>5, <1>6, <1>7

\* Who holds g_pendingMutex waits for g_relaysMutex, itself or in the relay it joins.
LEMMA PendingHolderWaits ==
    ASSUME Bookkeeping, NEW t \in Threads, NEW u \in Threads, pendingMutex = t, WaitsFor(t, u)
    PROVE  t = "monitor" /\ relaysMutex = u
  BY DEF Bookkeeping, Locks, HoldsPending, At, WaitsFor, AwaitsPending

\* The daemon deadlocks in three ways only: a reload and the pending pass want each other's
\* mutex, or the shutdown, or an eviction, joins with g_relaysMutex held a listen thread
\* that wants it.
THEOREM DeadlocksKnown == Spec => []KnownDeadlocks
<1>1. Bookkeeping => KnownDeadlocks
  <2> SUFFICES ASSUME Bookkeeping, NEW S \in (SUBSET Waiting) \ {{}},
                      \A t \in S : \E u \in S : WaitsFor(t, u)
               PROVE  KnownDeadlock
    BY DEF KnownDeadlocks, Deadlock
  <2>1. S \subseteq Threads
    BY DEF Waiting
  <2>2. ASSUME NEW t \in S, relaysMutex = t PROVE KnownDeadlock
    <3>1. PICK u \in S : WaitsFor(t, u)
      BY <2>2
    <3>2. SUFFICES ASSUME t = "control", u = "monitor", pendingMutex = "monitor"
                   PROVE  KnownDeadlock
      BY <2>1, <2>2, <3>1, RelaysHolderWaits
    <3>3. PICK v \in S : WaitsFor("monitor", v)
      BY <3>2
    <3>4. relaysMutex = v
      BY <2>1, <3>2, <3>3, PendingHolderWaits
    <3> QED
      BY <2>2, <3>1, <3>2, <3>3, <3>4 DEF KnownDeadlock
  <2>3. ASSUME NEW t \in S, pendingMutex = t PROVE KnownDeadlock
    <3>1. PICK u \in S : WaitsFor(t, u)
      BY <2>3
    <3>2. relaysMutex = u
      BY <2>1, <2>3, <3>1, PendingHolderWaits
    <3> QED
      BY <2>2, <3>2
  <2>4. ASSUME \A t \in S : relaysMutex # t /\ pendingMutex # t PROVE FALSE
    <3>1. \A t, u \in S : WaitsFor(t, u) => t = "main" /\ u # "main"
      BY <2>4 DEF WaitsFor
    <3> QED
      BY <3>1
  <2> QED
    BY <2>2, <2>3, <2>4
<1> QED
  BY <1>1, BookkeepingInvariant, PTL

-----------------------------------------------------------------------------
(* A relay serves armed, drains stopped, and is destroyed joined.          *)

\* Where every relay is, and who is about to move it.
Placed == Bookkeeping /\ OwnedOnce

\* A listen thread exits only when stopped, or without auto_restart.
LEMMA ServingListener ==
    ASSUME Placed, Serving, NEW r \in Relays \ destroyed, Listener(r)
    PROVE  Serving'
<1>1. OnlyRelays /\ \A q \in Relays \ {r} : lpc'[q] = lpc[q]
  BY ListenerEffect DEF Placed, Bookkeeping
<1>2. UNCHANGED <<conf, stop, relays, pendingRemoval, destroyed, pc, cur>>
  BY <1>1 DEF OnlyRelays, ownership
<1>3. \A q \in Relays : Armed(q) => Armed(q)'
  BY <1>1, <1>2, ListenerEffect DEF Placed, Bookkeeping, Armed, AutoRestart
<1>4. ServingArmed'
  <2>1. Retiring' = Retiring
    BY <1>2 DEF Retiring, At
  <2>2. relays \subseteq Relays
    BY DEF Placed, Bookkeeping, TypeOK
  <2> QED
    BY <1>2, <1>3, <2>1, <2>2 DEF Serving, ServingArmed, Armed
<1>5. Flags'
  <2>1. /\ pc["monitor"] = "pendPush" => cur["monitor"] \in Relays
        /\ pc["sysmon"] = "putBack" => cur["sysmon"] \in Relays
    BY DEF Placed, Bookkeeping, TypeOK, Current, Threads
  <2> QED
    BY <1>2, <1>3, <2>1 DEF Serving, Flags, AutoRestart, Constructed
<1>6. PendingStopped'
  BY <1>2 DEF Serving, PendingStopped, Returning, At
<1>7. DestroyedJoined'
  BY <1>1, <1>2 DEF Serving, DestroyedJoined, AutoRestart, Placed, Bookkeeping, TypeOK
<1> QED
  BY <1>4, <1>5, <1>6, <1>7 DEF Serving

\* monitorLoop stops what it retires and re-arms what it brings back.
LEMMA ServingMonitor ==
    ASSUME Placed, Serving, Monitor
    PROVE  Serving'
<1> USE ConstantsAssumption
    DEF Placed, Bookkeeping, TypeOK, Locks, HoldsRelays, HoldsPending, Current, OwnedOnce,
        Victim, Constructed, Threads,
        Serving, Flags, Armed, ServingArmed, PendingStopped, DestroyedJoined,
        Retiring, Returning, Passes, Pushing, At, Goto, AutoRestart, ownership, locks,
        relayVars
<1>1. CASE MonitorEnd
  BY <1>1 DEF MonitorEnd
<1>2. CASE MonitorIdleLock
  BY <1>2 DEF MonitorIdleLock
<1>3. ASSUME NEW r \in Relays, MonitorIdleFind(r) PROVE Serving'
  BY <1>3 DEF MonitorIdleFind
<1>4. CASE MonitorIdleMark
  BY <1>4 DEF MonitorIdleMark
<1>5. CASE MonitorIdlePush
  BY <1>5 DEF MonitorIdlePush
<1>6. CASE MonitorIdleUnlock
  BY <1>6 DEF MonitorIdleUnlock
<1>7. CASE MonitorPendLock
  BY <1>7 DEF MonitorPendLock
<1>8. ASSUME NEW r \in Relays, MonitorPendKeep(r) PROVE Serving'
  BY <1>8 DEF MonitorPendKeep
<1>9. ASSUME NEW r \in Relays, MonitorPendGraceful(r) PROVE Serving'
  BY <1>9 DEF MonitorPendGraceful
<1>10. ASSUME NEW r \in Relays, MonitorPendReset(r) PROVE Serving'
  BY <1>10 DEF MonitorPendReset
<1>11. CASE MonitorPendJoin
  BY <1>11 DEF MonitorPendJoin, Rearm
<1>12. CASE MonitorPendPush
  BY <1>12 DEF MonitorPendPush
<1>13. ASSUME NEW r \in Relays, MonitorPendErase(r) PROVE Serving'
  BY <1>13 DEF MonitorPendErase
<1>14. CASE MonitorPendUnlock
  BY <1>14 DEF MonitorPendUnlock
<1> QED
  BY <1>1, <1>2, <1>3, <1>4, <1>5, <1>6, <1>7, <1>8, <1>9, <1>10, <1>11, <1>12, <1>13,
     <1>14 DEF Monitor

\* A reload stops what it retires and starts what it constructs.
LEMMA ServingControl ==
    ASSUME Placed, Serving, Control
    PROVE  Serving'
<1> USE ConstantsAssumption
    DEF Placed, Bookkeeping, TypeOK, Locks, HoldsRelays, HoldsPending, Current, OwnedOnce,
        Victim, Constructed, Threads,
        Serving, Flags, Armed, ServingArmed, PendingStopped, DestroyedJoined,
        Retiring, Returning, Passes, Pushing, Scanning, Following, At, Goto, AutoRestart,
        ownership, locks, relayVars
<1>1. ASSUME NEW new \in ConfigSpace, ControlReload(new) PROVE Serving'
  BY <1>1 DEF ControlReload
<1>2. ASSUME NEW pass \in Passes, ControlPassLock(pass) PROVE Serving'
  BY <1>2 DEF ControlPassLock
<1>3. ASSUME NEW pass \in Passes, NEW r \in Relays, ControlPassMark(pass, r)
      PROVE  Serving'
  BY <1>3 DEF ControlPassMark
<1>4. ASSUME NEW pass \in Passes, ControlPassPush(pass) PROVE Serving'
  BY <1>4 DEF ControlPassPush
<1>5. ASSUME NEW pass \in Passes, ControlPassUnlock(pass) PROVE Serving'
  BY <1>5 DEF ControlPassUnlock
<1>6. CASE ControlAdd
  BY <1>6 DEF ControlAdd
<1>7. ASSUME NEW r \in Relays, ControlFind(r) PROVE Serving'
  BY <1>7 DEF ControlFind
<1>8. CASE ControlRefresh
  BY <1>8 DEF ControlRefresh
<1> QED
  BY <1>1, <1>2, <1>3, <1>4, <1>5, <1>6, <1>7, <1>8 DEF Control

\* An eviction stops its victim outside g_relays, and re-arms or joins it.
LEMMA ServingEvictor ==
    ASSUME Placed, Serving, Evictor
    PROVE  Serving'
<1> USE ConstantsAssumption
    DEF Placed, Bookkeeping, TypeOK, Locks, HoldsRelays, HoldsPending, Current, OwnedOnce,
        Victim, Constructed, Threads,
        Serving, Flags, Armed, ServingArmed, PendingStopped, DestroyedJoined,
        Retiring, Returning, Passes, Pushing, At, Goto, AutoRestart, ownership, locks,
        relayVars
<1>1. ASSUME NEW r \in Relays, EvictPick(r) PROVE Serving'
  BY <1>1 DEF EvictPick
<1>2. CASE EvictGraceful \/ EvictSignal
  BY <1>2 DEF EvictGraceful, EvictSignal
<1>3. CASE EvictRearm
  BY <1>3 DEF EvictRearm, Rearm
<1>4. CASE EvictPutBack
  BY <1>4 DEF EvictPutBack
<1>5. CASE EvictReplaced
  BY <1>5 DEF EvictReplaced, StopRelay
<1>6. CASE EvictDiscard
  BY <1>6 DEF EvictDiscard, Joinable
<1>7. CASE EvictStop
  BY <1>7 DEF EvictStop
<1> QED
  BY <1>1, <1>2, <1>3, <1>4, <1>5, <1>6, <1>7 DEF Evictor

\* The shutdown stops relays in g_relays only once it has left "pause" and "stopAll".
LEMMA ServingMain ==
    ASSUME Placed, Serving, Main
    PROVE  Serving'
<1> USE ConstantsAssumption
    DEF Placed, Bookkeeping, TypeOK, Locks, HoldsRelays, HoldsPending, Current, OwnedOnce,
        Victim, Constructed, Threads,
        Serving, Flags, Armed, ServingArmed, PendingStopped, DestroyedJoined,
        Retiring, Returning, Passes, Pushing, At, Goto, AutoRestart, ownership, locks,
        relayVars
<1>1. CASE MainSignal
  BY <1>1 DEF MainSignal
<1>2. CASE MainLock
  BY <1>2 DEF MainLock
<1>3. ASSUME NEW r \in Relays, MainStopRelay(r) PROVE Serving'
  BY <1>3 DEF MainStopRelay, StopRelay
<1>4. CASE MainJoinRelay
  BY <1>4 DEF MainJoinRelay
<1>5. CASE MainUnlock
  BY <1>5 DEF MainUnlock
<1>6. CASE MainJoinMonitor
  BY <1>6 DEF MainJoinMonitor
<1>7. CASE MainExit
  BY <1>7 DEF MainExit
<1> QED
  BY <1>1, <1>2, <1>3, <1>4, <1>5, <1>6, <1>7 DEF Main

\* Every step keeps relays serving, stopped or joined, as their place demands.
LEMMA ServingStep == Placed /\ Serving /\ [Next]_vars => Serving'
<1> SUFFICES ASSUME Placed, Serving, [Next]_vars PROVE Serving'
  OBVIOUS
<1>1. CASE UNCHANGED vars
  BY <1>1 DEF vars, Serving, Flags, Armed, ServingArmed, PendingStopped, DestroyedJoined,
     Retiring, Returning, At, AutoRestart, Constructed
<1> QED
  BY <1>1, ServingListener, ServingMonitor, ServingControl, ServingEvictor, ServingMain
     DEF Next

\* Every relay is armed, stopped or joined, as its place demands.
THEOREM ServingAlways == Spec => []Serving
<1>1. Init => Serving
  BY ConstantsAssumption
     DEF Init, Serving, Flags, Armed, ServingArmed, PendingStopped, DestroyedJoined,
         Retiring, Returning, At, AutoRestart, Constructed, Threads
<1> QED
  BY <1>1, ServingStep, BookkeepingInvariant, Ownership, PTL DEF Spec, Placed

\* While the daemon runs, a relay in g_relays that nobody is about to move takes
\* connections, and one with auto_restart has a listen thread; one in g_pendingRemoval
\* takes none until monitorLoop has re-armed it.
THEOREM RelaysServe == Spec => []ConnectsInService
  BY ServingAlways, PTL DEF Serving, ConnectsInService

\* No listen thread of an auto_restart relay outlives its PortRelay object.
THEOREM DestroyedIsJoined == Spec => []DestroyedJoined
  BY ServingAlways, PTL DEF Serving
=============================================================================
