------------------------ MODULE RelayRegistry_refinement ------------------------
(***************************************************************************)
(* RelayRegistry implements RelayLifecycle, and uses every relay as        *)
(* RelayThreads allows: the proofs, for any number of relays, addresses    *)
(* and configurations.                                                     *)
(*                                                                         *)
(* OwnedOnce makes the phase of a relay a translation of the one place it  *)
(* is in. A step of the registry then either leaves place, configuration   *)
(* and stop_ of every relay alone, and is a stutter, or changes the place  *)
(* or the stop_ of one relay, and is the step of the life cycle with that  *)
(* effect. What the life cycle asks of such a step comes from the          *)
(* invariant Serving, but for the victim that is discarded: Replaced.      *)
(*                                                                         *)
(* The contract is kept step by step: a step is one of the relay's own, or *)
(* sets stop_, or clears it after the joins, or does not touch the relay.  *)
(***************************************************************************)
EXTENDS RelayRegistry_proofs

\* The place of a relay, as a phase of its life.
Places ==
    \A r \in Relays :
        /\ Phase(r) = "none" <=> r \notin Constructed
        /\ Phase(r) = "serving" <=> r \in relays
        /\ Phase(r) = "draining" <=> r \in pendingRemoval
        /\ Phase(r) = "evicting" <=> r \in Victim
        /\ Phase(r) = "gone" <=> r \in destroyed
        /\ Phase(r) \in {"none", "serving", "draining", "evicting", "gone"}

\* A relay that is in one place is in the phase of that place.
LEMMA PlacesNow == OwnedOnce => Places
  BY DEF OwnedOnce, Places, Phase, Constructed, Victim

\* So it is after a step.
LEMMA PlacesNext == OwnedOnce' => Places'
  BY PlacesNow, PTL

\* While maybeEvict joins the replaced victim, with g_relaysMutex held, the victim stays
\* closed and its address stays served.
Replaced ==
    pc["sysmon"] = "discard" =>
        /\ stop[cur["sysmon"]]
        /\ \E q \in relays : AddrOf(q) = AddrOf(cur["sysmon"])

-----------------------------------------------------------------------------
(* The forms a step takes.                                                 *)

\* Places and configurations stay: what is left is stop_.
LEMMA Flagged ==
    ASSUME UNCHANGED <<ownership, conf>>, cur'["sysmon"] = cur["sysmon"]
    PROVE  UNCHANGED << [q \in Relays |-> Phase(q)],
                        [q \in Relays |-> IF conf[q] = None THEN None ELSE AddrOf(q)],
                        {q \in Constructed : AutoRestart(q)} >>
<1>1. Constructed' = Constructed /\ Victim' = Victim
  BY DEF Constructed, Victim
<1>2. \A q \in Relays : Phase(q)' = Phase(q)
  BY <1>1 DEF Phase, ownership
<1>3. [q \in Relays |-> Phase(q)]' = [q \in Relays |-> Phase(q)]
  BY <1>2
<1>4. [q \in Relays |-> IF conf[q] = None THEN None ELSE AddrOf(q)]'
      = [q \in Relays |-> IF conf[q] = None THEN None ELSE AddrOf(q)]
  BY DEF AddrOf
<1>5. {q \in Constructed : AutoRestart(q)}' = {q \in Constructed : AutoRestart(q)}
  BY <1>1 DEF AutoRestart
<1> QED
  BY <1>3, <1>4, <1>5

\* Places, configurations and flags alone: a stutter.
LEMMA Stutter ==
    ASSUME UNCHANGED <<ownership, conf, stop>>, cur'["sysmon"] = cur["sysmon"]
    PROVE  UNCHANGED Life!lifecycle
  BY Flagged DEF Life!lifecycle

\* One relay changes its place.
LEMMA Moved ==
    ASSUME NEW r \in Relays, NEW from, NEW to, UNCHANGED <<conf, stop>>,
           Phase(r) = from, Phase(r)' = to,
           \A q \in Relays \ {r} : Phase(q)' = Phase(q)
    PROVE  Life!Move(r, from, to)
<1>1. [q \in Relays |-> Phase(q)]' = [[q \in Relays |-> Phase(q)] EXCEPT ![r] = to]
  OBVIOUS
<1>2. [q \in Relays |-> IF conf[q] = None THEN None ELSE AddrOf(q)]'
      = [q \in Relays |-> IF conf[q] = None THEN None ELSE AddrOf(q)]
  BY DEF AddrOf
<1>3. {q \in Constructed : AutoRestart(q)}' = {q \in Constructed : AutoRestart(q)}
  BY DEF Constructed, AutoRestart
<1>4. {q \in Relays : stop[q]}' = {q \in Relays : stop[q]}
  OBVIOUS
<1> QED
  BY <1>1, <1>2, <1>3, <1>4 DEF Life!Move

\* A relay is told to stop where it is.
LEMMA Closed ==
    ASSUME TypeOK, OwnedOnce, NEW r \in Constructed,
           UNCHANGED <<ownership, conf>>, cur'["sysmon"] = cur["sysmon"],
           stop' = [stop EXCEPT ![r] = TRUE]
    PROVE  Life!Close(r)
<1>1. Phase(r) # "none"
  BY PlacesNow DEF Places, Constructed
<1>2. {q \in Relays : stop[q]}' = {q \in Relays : stop[q]} \cup {r}
  BY DEF TypeOK, Constructed
<1> QED
  BY <1>1, <1>2, Flagged DEF Life!Close, Constructed

\* A relay out of service is armed again where it is.
LEMMA Opened ==
    ASSUME TypeOK, OwnedOnce, NEW r \in pendingRemoval \cup Victim,
           UNCHANGED <<ownership, conf>>, cur'["sysmon"] = cur["sysmon"],
           stop' = [stop EXCEPT ![r] = FALSE]
    PROVE  Life!Open(r)
<1>1. r \in Relays
  BY DEF TypeOK, Victim
<1>2. Phase(r) \in {"draining", "evicting"}
  BY <1>1, PlacesNow DEF Places
<1>3. {q \in Relays : stop[q]}' = {q \in Relays : stop[q]} \ {r}
  BY <1>1 DEF TypeOK
<1> QED
  BY <1>1, <1>2, <1>3, Flagged DEF Life!Open

-----------------------------------------------------------------------------
(* The steps of each thread.                                               *)

\* What the registry knows when it takes a step.
Known == Placed /\ Serving /\ Replaced

\* The relay a thread works on belongs to somebody.
LEMMA Owned ==
    ASSUME Placed
    PROVE  /\ relays \subseteq Constructed /\ pendingRemoval \subseteq Constructed
           /\ cur["sysmon"] # None => cur["sysmon"] \in Victim
           /\ Victim \subseteq Constructed
           /\ TypeOK /\ OwnedOnce
  BY DEF Placed, Bookkeeping, TypeOK, OwnedOnce, Victim, Threads

\* What the threads of a relay do is no step of the life cycle.
LEMMA RefinesListener ==
    ASSUME TypeOK, NEW r \in Relays, Listener(r)
    PROVE  UNCHANGED Life!lifecycle
<1>1. UNCHANGED <<ownership, conf, stop, cur>>
  BY ListenerEffect DEF OnlyRelays
<1> QED
  BY <1>1, Stutter

\* monitorLoop closes and drains the idle relays, opens and returns those whose backend
\* is gone, and erases those that do not restart.
LEMMA RefinesMonitor ==
    ASSUME Known, OwnedOnce', Monitor
    PROVE  Life!Next \/ UNCHANGED Life!lifecycle
<1> USE DEF Known, At, relayVars
<1>1. cur \in [Threads -> Relays \cup {None}] /\ TypeOK
  BY Owned DEF TypeOK
<1>2. CASE \/ MonitorEnd \/ MonitorIdleLock \/ MonitorIdleUnlock
           \/ MonitorPendLock \/ MonitorPendUnlock
           \/ \E r \in Relays : \/ MonitorIdleFind(r) \/ MonitorPendKeep(r)
                                \/ MonitorPendGraceful(r) \/ MonitorPendReset(r)
  <2>1. UNCHANGED <<ownership, conf, stop>> /\ cur'["sysmon"] = cur["sysmon"]
    BY <1>1, <1>2
       DEF MonitorEnd, MonitorIdleLock, MonitorIdleUnlock, MonitorPendLock,
           MonitorPendUnlock, MonitorIdleFind, MonitorPendKeep, MonitorPendGraceful,
           MonitorPendReset, Threads
  <2> QED
    BY <2>1, Stutter
<1>3. CASE MonitorIdleMark
  <2>1. PICK r \in Constructed : r = cur["monitor"]
    BY <1>3, Owned DEF MonitorIdleMark, Placed, Bookkeeping, Current
  <2>2. UNCHANGED <<ownership, conf, cur>> /\ stop' = [stop EXCEPT ![r] = TRUE]
    BY <1>3, <2>1 DEF MonitorIdleMark
  <2>3. Life!Close(r) /\ r \in Relays
    BY <2>2, Owned, Closed DEF Constructed
  <2> QED
    BY <2>3 DEF Life!Next
<1>4. CASE MonitorIdlePush
  <2>1. PICK r \in relays : r = cur["monitor"]
    BY <1>4 DEF MonitorIdlePush, Placed, Bookkeeping, Current
  <2>2. r \in Relays /\ stop[r]
    BY <1>1, <1>4, <2>1 DEF MonitorIdlePush, Serving, Flags, TypeOK
  <2>3. /\ UNCHANGED <<conf, stop, destroyed>> /\ Victim' = Victim
        /\ relays' = relays \ {r} /\ pendingRemoval' = pendingRemoval \cup {r}
    BY <1>1, <1>4, <2>1 DEF MonitorIdlePush, Victim, Threads
  <2>4. Phase(r) = "serving" /\ Phase(r)' = "draining"
    BY <2>2, <2>3, Owned, PlacesNow, PlacesNext DEF Places
  <2>5. \A q \in Relays \ {r} : Phase(q)' = Phase(q)
    BY <2>3 DEF Phase
  <2>6. Life!Drain(r)
    BY <2>2, <2>3, <2>4, <2>5, Moved DEF Life!Drain
  <2> QED
    BY <2>2, <2>6 DEF Life!Next
<1>5. CASE MonitorPendJoin
  <2>1. PICK r \in pendingRemoval : r = cur["monitor"]
    BY <1>5 DEF MonitorPendJoin, Placed, Bookkeeping, Current
  <2>2. UNCHANGED <<ownership, conf, cur>> /\ stop' = [stop EXCEPT ![r] = FALSE]
    BY <1>5, <2>1 DEF MonitorPendJoin, Rearm
  <2>3. Life!Open(r) /\ r \in Relays
    BY <1>1, <2>2, Owned, Opened DEF TypeOK
  <2> QED
    BY <2>3 DEF Life!Next
<1>6. CASE MonitorPendPush
  <2>1. PICK r \in pendingRemoval : r = cur["monitor"]
    BY <1>6 DEF MonitorPendPush, Placed, Bookkeeping, Current
  <2>2. r \in Relays /\ r \in Constructed /\ ~stop[r] /\ AutoRestart(r)
    BY <1>6, <2>1, Owned DEF MonitorPendPush, Serving, Flags, Armed, TypeOK
  <2>3. /\ UNCHANGED <<conf, stop, destroyed>> /\ Victim' = Victim
        /\ relays' = relays \cup {r} /\ pendingRemoval' = pendingRemoval \ {r}
    BY <1>1, <1>6, <2>1 DEF MonitorPendPush, Victim, Threads
  <2>4. Phase(r) = "draining" /\ Phase(r)' = "serving"
    BY <2>2, <2>3, Owned, PlacesNow, PlacesNext DEF Places
  <2>5. \A q \in Relays \ {r} : Phase(q)' = Phase(q)
    BY <2>3 DEF Phase
  <2>6. Life!Return(r)
    BY <2>2, <2>3, <2>4, <2>5, Moved DEF Life!Return
  <2> QED
    BY <2>2, <2>6 DEF Life!Next
<1>7. ASSUME NEW r \in Relays, MonitorPendErase(r)
      PROVE  Life!Next
  <2>1. r \in pendingRemoval /\ ~AutoRestart(r)
    BY <1>7 DEF MonitorPendErase, Placed, Bookkeeping, Current
  <2>2. /\ UNCHANGED <<conf, stop, relays>> /\ Victim' = Victim
        /\ pendingRemoval' = pendingRemoval \ {r} /\ destroyed' = destroyed \cup {r}
    BY <1>7 DEF MonitorPendErase, Victim
  <2>3. Phase(r) = "draining" /\ Phase(r)' = "gone"
    BY <2>1, <2>2, Owned, PlacesNow, PlacesNext DEF Places
  <2>4. \A q \in Relays \ {r} : Phase(q)' = Phase(q)
    BY <2>2 DEF Phase
  <2>5. Life!Move(r, "draining", "gone")
    BY <2>2, <2>3, <2>4, Moved
  <2> QED
    BY <2>1, <2>5 DEF Life!Next, Life!Erase
<1> QED
  BY <1>2, <1>3, <1>4, <1>5, <1>6, <1>7 DEF Monitor

\* A reload closes and drains what it retires, and creates what it adds.
LEMMA RefinesControl ==
    ASSUME Known, OwnedOnce', Control
    PROVE  Life!Next \/ UNCHANGED Life!lifecycle
<1> USE DEF Known, At, relayVars
<1>1. cur \in [Threads -> Relays \cup {None}] /\ TypeOK
  BY Owned DEF TypeOK
<1>2. CASE \/ \E new \in ConfigSpace : ControlReload(new)
           \/ \E pass \in Passes : ControlPassLock(pass) \/ ControlPassUnlock(pass)
           \/ \E r \in Relays : ControlFind(r)
           \/ ControlRefresh
  <2>1. UNCHANGED <<ownership, conf, stop>> /\ cur'["sysmon"] = cur["sysmon"]
    BY <1>1, <1>2
       DEF ControlReload, ControlPassLock, ControlPassUnlock, ControlFind, ControlRefresh,
           Threads
  <2> QED
    BY <2>1, Stutter
<1>3. ASSUME NEW pass \in Passes, NEW r \in Relays, ControlPassMark(pass, r)
      PROVE  Life!Next
  <2>1. r \in Constructed
    BY <1>3, Owned DEF ControlPassMark
  <2>2. /\ UNCHANGED <<ownership, conf>> /\ stop' = [stop EXCEPT ![r] = TRUE]
        /\ cur'["sysmon"] = cur["sysmon"]
    BY <1>1, <1>3 DEF ControlPassMark, Threads
  <2>3. Life!Close(r)
    BY <2>1, <2>2, Owned, Closed
  <2> QED
    BY <2>3 DEF Life!Next
<1>4. ASSUME NEW pass \in Passes, ControlPassPush(pass)
      PROVE  Life!Next
  <2>1. PICK r \in relays : r = cur["control"]
    BY <1>4 DEF ControlPassPush, Passes, Pushing, Placed, Bookkeeping, Current
  <2>2. r \in Relays /\ stop[r]
    BY <1>1, <1>4, <2>1 DEF ControlPassPush, Passes, Pushing, Serving, Flags, TypeOK
  <2>3. /\ UNCHANGED <<conf, stop, destroyed>> /\ Victim' = Victim
        /\ relays' = relays \ {r} /\ pendingRemoval' = pendingRemoval \cup {r}
    BY <1>1, <1>4, <2>1 DEF ControlPassPush, Victim, Threads
  <2>4. Phase(r) = "serving" /\ Phase(r)' = "draining"
    BY <2>2, <2>3, Owned, PlacesNow, PlacesNext DEF Places
  <2>5. \A q \in Relays \ {r} : Phase(q)' = Phase(q)
    BY <2>3 DEF Phase
  <2>6. Life!Drain(r)
    BY <2>2, <2>3, <2>4, <2>5, Moved DEF Life!Drain
  <2> QED
    BY <2>2, <2>6 DEF Life!Next
<1>5. CASE ControlAdd
  <2>1. PICK fresh \in SUBSET (Relays \ Constructed) :
          /\ \E place \in [fresh -> ToCreate] :
                conf' = [r \in Relays |-> IF r \in fresh
                                          THEN [addr |-> place[r], cfg |-> newCfgs[place[r]]]
                                          ELSE conf[r]]
          /\ relays' = relays \cup fresh
    BY <1>5 DEF ControlAdd
  <2>2. PICK place \in [fresh -> ToCreate] :
          conf' = [r \in Relays |-> IF r \in fresh
                                    THEN [addr |-> place[r], cfg |-> newCfgs[place[r]]]
                                    ELSE conf[r]]
    BY <2>1
  <2>3. UNCHANGED <<pendingRemoval, destroyed, stop, cur>> /\ Victim' = Victim
    BY <1>5 DEF ControlAdd, Victim
  <2>4. ASSUME NEW r \in fresh PROVE AddrOf(r)' \in Addrs /\ conf'[r] # None
    <3>1. newCfgs[place[r]] \in Cfgs /\ place[r] \in Addrs
      BY <1>1, <2>2, <2>4, ConstantsAssumption
         DEF ToCreate, Added, Modified, TypeOK, ConfigSpace
    <3> QED
      BY <2>2, <2>4, <3>1, ConstantsAssumption DEF AddrOf
  <2>5. \A r \in Relays \ fresh : conf'[r] = conf[r]
    BY <2>2
  <2>6. CASE fresh = {}
    <3>1. conf' = conf
      BY <1>1, <2>5, <2>2, <2>6 DEF TypeOK
    <3>2. UNCHANGED ownership
      BY <2>1, <2>3, <2>6 DEF ownership
    <3> QED
      BY <2>3, <3>1, <3>2, Stutter
  <2>7. CASE fresh # {}
    <3>1. \A r \in fresh : Phase(r) = "none" /\ Phase(r)' = "serving"
      BY <2>1, Owned, PlacesNow, PlacesNext DEF Places
    <3>2. \A r \in Relays \ fresh : Phase(r)' = Phase(r)
      BY <2>1, <2>3, <2>5 DEF Phase
    <3>3. [r \in Relays |-> Phase(r)]'
          = [r \in Relays |-> IF r \in fresh THEN "serving"
                              ELSE [q \in Relays |-> Phase(q)][r]]
      BY <3>1, <3>2
    <3>4. \A r \in fresh :
             [q \in Relays |-> IF conf[q] = None THEN None ELSE AddrOf(q)]'[r] \in Addrs
      BY <2>1, <2>4
    <3>5. \A r \in Relays \ fresh :
             /\ [q \in Relays |-> IF conf[q] = None THEN None ELSE AddrOf(q)]'[r]
                = [q \in Relays |-> IF conf[q] = None THEN None ELSE AddrOf(q)][r]
             /\ r \in {q \in Constructed : AutoRestart(q)}'
                <=> r \in {q \in Constructed : AutoRestart(q)}
      BY <2>5 DEF AddrOf, AutoRestart, Constructed
    <3>6. {q \in Relays : stop[q]}' = {q \in Relays : stop[q]}
      BY <2>3
    <3>7. Life!Create(fresh)
      BY <2>7, <3>3, <3>4, <3>5, <3>6 DEF Life!Create
    <3>8. fresh \in SUBSET Life!InPhase("none")
      BY <2>1, <3>1 DEF Life!InPhase
    <3> QED
      BY <3>7, <3>8 DEF Life!Next
  <2> QED
    BY <2>6, <2>7
<1> QED
  BY <1>2, <1>3, <1>4, <1>5 DEF Control

\* An eviction takes its victim out, closes and opens it, and puts it back where nobody
\* serves its address; otherwise it closes and discards it.
LEMMA RefinesEvictor ==
    ASSUME Known, OwnedOnce', Evictor
    PROVE  Life!Next \/ UNCHANGED Life!lifecycle
<1> USE DEF Known, At, relayVars
<1>1. cur \in [Threads -> Relays \cup {None}] /\ TypeOK /\ None \notin Relays
  BY Owned, ConstantsAssumption DEF TypeOK
<1>2. CASE EvictGraceful \/ EvictStop
  BY <1>2, Stutter DEF EvictGraceful, EvictStop
<1>3. ASSUME NEW r \in Relays, EvictPick(r)
      PROVE  Life!Next
  <2>1. Victim = {} /\ Victim' = {r}
    BY <1>1, <1>3 DEF EvictPick, Placed, Bookkeeping, Current, Victim, Threads
  <2>2. UNCHANGED <<conf, stop, destroyed, pendingRemoval>> /\ relays' = relays \ {r}
    BY <1>3 DEF EvictPick
  <2>3. Phase(r) = "serving" /\ Phase(r)' = "evicting"
    BY <1>3, <2>1, <2>2, Owned, PlacesNow, PlacesNext DEF Places, EvictPick
  <2>4. \A q \in Relays \ {r} : Phase(q)' = Phase(q)
    BY <2>1, <2>2 DEF Phase
  <2>5. Life!Evict(r)
    BY <2>2, <2>3, <2>4, Moved DEF Life!Evict
  <2> QED
    BY <2>5 DEF Life!Next
<1>4. CASE EvictSignal \/ EvictReplaced
  <2>1. PICK r \in Constructed : r = cur["sysmon"]
    BY <1>4, Owned DEF EvictSignal, EvictReplaced, Placed, Bookkeeping, Current
  <2>2. UNCHANGED <<ownership, conf, cur>> /\ stop' = [stop EXCEPT ![r] = TRUE]
    BY <1>4, <2>1 DEF EvictSignal, EvictReplaced, StopRelay
  <2>3. Life!Close(r) /\ r \in Relays
    BY <2>2, Owned, Closed DEF Constructed
  <2> QED
    BY <2>3 DEF Life!Next
<1>5. CASE EvictRearm
  <2>1. PICK r \in Victim : r = cur["sysmon"]
    BY <1>5, Owned DEF EvictRearm, Placed, Bookkeeping, Current
  <2>2. UNCHANGED <<ownership, conf, cur>> /\ stop' = [stop EXCEPT ![r] = FALSE]
    BY <1>5, <2>1 DEF EvictRearm, Rearm
  <2>3. Life!Open(r) /\ r \in Relays
    BY <2>2, Owned, Opened DEF Victim
  <2> QED
    BY <2>3 DEF Life!Next
<1>6. CASE EvictPutBack
  <2>1. PICK r \in Victim : r = cur["sysmon"]
    BY <1>6, Owned DEF EvictPutBack, Placed, Bookkeeping, Current
  <2>2. /\ r \in Relays /\ r \in Constructed /\ ~stop[r]
        /\ \A q \in relays : AddrOf(q) # AddrOf(r)
    BY <1>6, <2>1, Owned DEF EvictPutBack, Serving, Flags, Armed, Victim, Served
  <2>3. /\ UNCHANGED <<conf, stop, destroyed, pendingRemoval>>
        /\ Victim = {r} /\ Victim' = {} /\ relays' = relays \cup {r}
    BY <1>1, <1>6, <2>1 DEF EvictPutBack, Victim, Threads
  <2>4. Phase(r) = "evicting" /\ Phase(r)' = "serving"
    BY <2>1, <2>2, <2>3, Owned, PlacesNow, PlacesNext DEF Places
  <2>5. \A q \in Relays \ {r} : Phase(q)' = Phase(q)
    BY <2>3 DEF Phase
  <2>6. \A q \in Relays : Phase(q) = "serving" =>
           [p \in Relays |-> IF conf[p] = None THEN None ELSE AddrOf(p)][q]
           # [p \in Relays |-> IF conf[p] = None THEN None ELSE AddrOf(p)][r]
    <3>1. \A q \in Relays : Phase(q) = "serving" => q \in relays /\ q \in Constructed
      BY Owned, PlacesNow DEF Places
    <3> QED
      BY <2>2, <3>1 DEF Constructed
  <2>7. Life!PutBack(r)
    BY <2>2, <2>3, <2>4, <2>5, <2>6, Moved DEF Life!PutBack, Life!InPhase
  <2> QED
    BY <2>2, <2>7 DEF Life!Next
<1>7. CASE EvictDiscard
  <2>1. PICK r \in Victim : r = cur["sysmon"]
    BY <1>7, Owned DEF EvictDiscard, Placed, Bookkeeping, Current
  <2>2. r \in Relays /\ r \in Constructed /\ stop[r]
    BY <1>7, <2>1, Owned DEF EvictDiscard, Replaced, Victim
  <2>3. PICK q \in relays : AddrOf(q) = AddrOf(r)
    BY <1>7, <2>1 DEF EvictDiscard, Replaced
  <2>4. /\ UNCHANGED <<conf, stop, relays, pendingRemoval>>
        /\ Victim = {r} /\ Victim' = {} /\ destroyed' = destroyed \cup {r}
    BY <1>1, <1>7, <2>1 DEF EvictDiscard, Victim, Threads
  <2>5. Phase(r) = "evicting" /\ Phase(r)' = "gone"
    BY <2>1, <2>2, <2>4, Owned, PlacesNow, PlacesNext DEF Places
  <2>6. \A p \in Relays \ {r} : Phase(p)' = Phase(p)
    BY <2>4 DEF Phase
  <2>7. q \in Relays /\ q \in Constructed /\ Phase(q) = "serving"
    BY <2>3, Owned, PlacesNow DEF Places, TypeOK
  <2>8. [p \in Relays |-> IF conf[p] = None THEN None ELSE AddrOf(p)][q]
        = [p \in Relays |-> IF conf[p] = None THEN None ELSE AddrOf(p)][r]
    BY <2>2, <2>3, <2>7 DEF Constructed
  <2>9. Life!Discard(r)
    BY <2>2, <2>4, <2>5, <2>6, <2>7, <2>8, Moved DEF Life!Discard, Life!InPhase
  <2> QED
    BY <2>2, <2>9 DEF Life!Next
<1> QED
  BY <1>2, <1>3, <1>4, <1>5, <1>6, <1>7 DEF Evictor

\* The shutdown closes one relay after another.
LEMMA RefinesMain ==
    ASSUME Known, Main
    PROVE  Life!Next \/ UNCHANGED Life!lifecycle
<1> USE DEF Known, At, relayVars
<1>1. cur \in [Threads -> Relays \cup {None}]
  BY Owned DEF TypeOK
<1>2. CASE \/ MainSignal \/ MainLock \/ MainJoinRelay \/ MainUnlock \/ MainJoinMonitor
           \/ MainExit
  <2>1. UNCHANGED <<ownership, conf, stop>> /\ cur'["sysmon"] = cur["sysmon"]
    BY <1>1, <1>2
       DEF MainSignal, MainLock, MainJoinRelay, MainUnlock, MainJoinMonitor, MainExit, Threads
  <2> QED
    BY <2>1, Stutter
<1>3. ASSUME NEW r \in Relays, MainStopRelay(r)
      PROVE  Life!Next
  <2>1. /\ UNCHANGED <<ownership, conf>> /\ stop' = [stop EXCEPT ![r] = TRUE]
        /\ cur'["sysmon"] = cur["sysmon"] /\ r \in Constructed
    BY <1>1, <1>3, Owned DEF MainStopRelay, StopRelay, Threads
  <2>2. Life!Close(r)
    BY <2>1, Owned, Closed
  <2> QED
    BY <2>2 DEF Life!Next
<1> QED
  BY <1>2, <1>3 DEF Main

-----------------------------------------------------------------------------
(* The victim that is discarded stays replaced.                            *)

\* What keeps it so: the victim stays closed, and g_relays loses no relay.
LEMMA ReplacedKept ==
    ASSUME Placed, Replaced, UNCHANGED <<pc["sysmon"], cur["sysmon"]>>,
           relays \subseteq relays', \A r \in Constructed : conf'[r] = conf[r],
           \A r \in Victim : stop[r] => stop'[r]
    PROVE  Replaced'
<1> SUFFICES ASSUME pc["sysmon"] = "discard"
             PROVE  /\ stop'[cur["sysmon"]]
                    /\ \E q \in relays' : conf'[q].addr = conf'[cur["sysmon"]].addr
  BY DEF Replaced, AddrOf
<1>1. cur["sysmon"] \in Victim /\ cur["sysmon"] \in Constructed
  BY Owned DEF Placed, Bookkeeping, Current
<1>2. PICK q \in relays : AddrOf(q) = AddrOf(cur["sysmon"])
  BY DEF Replaced
<1>3. q \in relays' /\ q \in Constructed
  BY <1>2, Owned
<1> QED
  BY <1>1, <1>2, <1>3 DEF Replaced, AddrOf

\* Nobody takes a relay out of g_relays, or arms the victim, while maybeEvict joins it.
LEMMA ReplacedStep == Placed /\ Replaced /\ [Next]_vars => Replaced'
<1> SUFFICES ASSUME Placed, Replaced, [Next]_vars, (pc["sysmon"] = "discard")'
             PROVE  Replaced'
  BY DEF Replaced
<1> USE DEF At, Goto, relayVars, ownership
<1>1. /\ cur \in [Threads -> Relays \cup {None}] /\ pc \in [Threads -> Labels]
      /\ stop \in [Relays -> BOOLEAN] /\ relays \subseteq Relays
      /\ Victim \subseteq Relays \ pendingRemoval
  BY Owned DEF TypeOK, OwnedOnce, Victim
<1>2. pc["sysmon"] = "discard" => relaysMutex = "sysmon"
  BY DEF Placed, Bookkeeping, Locks, HoldsRelays, Threads
<1>3. CASE Evictor
  <2>1. EvictReplaced
    BY <1>1, <1>3
       DEF Evictor, EvictPick, EvictGraceful, EvictSignal, EvictRearm, EvictPutBack, EvictDiscard, EvictStop,
           Threads
  <2>2. cur' = cur /\ relays' = relays /\ conf' = conf
    BY <2>1 DEF EvictReplaced
  <2>3. stop'[cur["sysmon"]] /\ AddrOf(cur["sysmon"]) \in Served
    BY <1>1, <2>1, Owned DEF EvictReplaced, StopRelay, Victim, Placed, Bookkeeping, Current
  <2> QED
    BY <2>2, <2>3 DEF Replaced, Served, AddrOf
<1>4. CASE \E r \in Relays : Listener(r)
  <2>1. UNCHANGED <<pc, cur, relays, conf, stop>>
    BY <1>4, ListenerEffect, Owned DEF OnlyRelays
  <2> QED
    BY <2>1, ReplacedKept
<1>5. CASE Monitor
  <2>1. UNCHANGED <<pc["sysmon"], cur["sysmon"], conf>>
    BY <1>1, <1>5
       DEF Monitor, MonitorEnd, MonitorIdleLock, MonitorIdleFind, MonitorIdleMark,
           MonitorIdlePush, MonitorIdleUnlock, MonitorPendLock, MonitorPendKeep,
           MonitorPendGraceful, MonitorPendReset, MonitorPendJoin, MonitorPendPush,
           MonitorPendErase, MonitorPendUnlock, Threads
  <2>2. ~MonitorIdlePush
    BY <1>2, <2>1 DEF MonitorIdlePush, Placed, Bookkeeping, Locks, HoldsRelays, Threads
  <2>3. relays \subseteq relays'
    BY <1>5, <2>2
       DEF Monitor, MonitorEnd, MonitorIdleLock, MonitorIdleFind, MonitorIdleMark,
           MonitorIdleUnlock, MonitorPendLock, MonitorPendKeep, MonitorPendGraceful,
           MonitorPendReset, MonitorPendJoin, MonitorPendPush, MonitorPendErase,
           MonitorPendUnlock
  <2>4. MonitorPendJoin => cur["monitor"] \in pendingRemoval
    BY DEF MonitorPendJoin, Placed, Bookkeeping, Current
  <2>5. \A r \in Victim : stop[r] => stop'[r]
    BY <1>1, <1>5, <2>4
       DEF Monitor, MonitorEnd, MonitorIdleLock, MonitorIdleFind, MonitorIdleMark,
           MonitorIdlePush, MonitorIdleUnlock, MonitorPendLock, MonitorPendKeep,
           MonitorPendGraceful, MonitorPendReset, MonitorPendJoin, MonitorPendPush,
           MonitorPendErase, MonitorPendUnlock, Rearm
  <2> QED
    BY <2>1, <2>3, <2>5, ReplacedKept
<1>6. CASE Control
  <2> USE DEF Control, ControlReload, ControlPassLock, ControlPassMark, ControlPassPush,
              ControlPassUnlock, ControlAdd, ControlFind, ControlRefresh
  <2>1. UNCHANGED <<pc["sysmon"], cur["sysmon"]>>
    BY <1>1, <1>6 DEF Threads
  <2>2. \A pass \in Passes : ~ControlPassPush(pass)
    BY <1>2, <2>1 DEF Passes, Pushing, Placed, Bookkeeping, Locks, HoldsRelays, Threads
  <2>3. relays \subseteq relays'
    BY <1>6, <2>2
  <2>4. \A r \in Constructed : conf'[r] = conf[r]
    BY <1>6 DEF Constructed
  <2>5. \A r \in Victim : stop[r] => stop'[r]
    BY <1>1, <1>6
  <2> QED
    BY <2>1, <2>3, <2>4, <2>5, ReplacedKept
<1>7. CASE Main
  <2>1. UNCHANGED <<pc["sysmon"], cur["sysmon"], conf, relays>>
    BY <1>1, <1>7 DEF Main, MainSignal, MainLock, MainStopRelay, MainJoinRelay, MainUnlock,
       MainJoinMonitor, MainExit, Threads
  <2>2. \A r \in Victim : stop[r] => stop'[r]
    BY <1>1, <1>7 DEF Main, MainSignal, MainLock, MainStopRelay, StopRelay, MainJoinRelay,
       MainUnlock, MainJoinMonitor, MainExit
  <2> QED
    BY <2>1, <2>2, ReplacedKept
<1>8. CASE UNCHANGED vars
  BY <1>8, ReplacedKept DEF vars
<1> QED
  BY <1>3, <1>4, <1>5, <1>6, <1>7, <1>8 DEF Next

-----------------------------------------------------------------------------
(* The refinement.                                                         *)

\* At startup every configured address has a relay that serves it.
LEMMA RefinesInit == Init => Life!Init
<1> SUFFICES ASSUME Init PROVE Life!Init
  OBVIOUS
<1>1. \A r \in Relays : Phase(r) = IF conf[r] = None THEN "none" ELSE "serving"
  BY ConstantsAssumption DEF Init, Phase, Victim, Threads
<1>2. [r \in Relays |-> Phase(r)] \in [Relays -> {"none", "serving"}]
  BY <1>1
<1>3. {r \in Relays : stop[r]} = {}
  BY DEF Init
<1>4. {r \in Constructed : AutoRestart(r)} \subseteq {r \in Relays : Phase(r) = "serving"}
  BY <1>1 DEF Constructed
<1>5. \A r \in Relays : Phase(r) = "serving" => conf[r] # None /\ AddrOf(r) \in Addrs
  BY <1>1 DEF Init, AddrOf
<1> QED
  BY <1>2, <1>3, <1>4, <1>5 DEF Life!Init, Life!InPhase

\* Every step is a step of the life cycle, or none.
LEMMA RefinesStep == Known /\ OwnedOnce' /\ [Next]_vars => [Life!Next]_Life!lifecycle
<1> SUFFICES ASSUME Known, OwnedOnce', [Next]_vars
             PROVE  Life!Next \/ UNCHANGED Life!lifecycle
  OBVIOUS
<1>1. CASE UNCHANGED vars
  BY <1>1, Stutter DEF vars, ownership
<1> QED
  BY <1>1, Owned, RefinesListener, RefinesMonitor, RefinesControl, RefinesEvictor, RefinesMain
     DEF Next, Known

\* The registry implements the life cycle it promises for every relay: whatever the four
\* threads do to the vectors, a relay drains only closed, is opened only out of service,
\* comes back only open and never where another one serves its address, and is dropped
\* only as its configuration or its replacement allows.
THEOREM Implementation == Spec => ImplementsLifecycle
<1>1. Init => Replaced
  BY DEF Init, Replaced
<1>2. Spec => []Known
  BY <1>1, ReplacedStep, BookkeepingInvariant, Ownership, ServingAlways, PTL
     DEF Spec, Known, Placed
<1> QED
  BY <1>2, RefinesInit, RefinesStep, Ownership, PTL DEF Spec, ImplementsLifecycle, Life!Spec

-----------------------------------------------------------------------------
(* The registry uses every relay as RelayThreads allows.                   *)

\* Nothing.
LEMMA KeptUntouched ==
    ASSUME NEW r, UNCHANGED <<stop[r], running[r], lpc[r]>>
    PROVE  Kept(r)
  BY DEF Kept, Contract!relay

\* Its owner tells it to stop, and may kill its backend.
LEMMA KeptSignal ==
    ASSUME NEW r, stop'[r] = TRUE, running'[r] \in {running[r], FALSE}, lpc'[r] = lpc[r]
    PROVE  Kept(r)
  BY DEF Kept, Contract!Next, Contract!Signal, Contract!Cleared

\* Its backend is gone, or given up.
LEMMA KeptForgotten ==
    ASSUME NEW r, running[r] \in BOOLEAN, ~running'[r], running'[r] \in BOOLEAN,
           stop'[r] = stop[r], lpc'[r] = lpc[r]
    PROVE  Kept(r)
<1>1. CASE running[r]
  BY <1>1 DEF Kept, Contract!Next, Contract!Step, Contract!BackendExit
<1>2. CASE ~running[r]
  BY <1>2, KeptUntouched
<1> QED
  BY <1>1, <1>2

\* Its owner, having joined its threads, starts them again.
LEMMA KeptRearm ==
    ASSUME NEW r, lpc[r] = "exited", stop'[r] = FALSE, lpc'[r] = "loop",
           running'[r] = running[r]
    PROVE  Kept(r)
  BY DEF Kept, Contract!Next, Contract!Rearm

\* A step of its own threads.
LEMMA KeptListener ==
    ASSUME TypeOK, NEW r \in Relays, Listener(r)
    PROVE  Kept(r)
<1>1. /\ stop'[r] = stop[r] /\ lpc = [q \in Relays |-> lpc[q]]
      /\ running \in [Relays -> BOOLEAN]
  BY ListenerEffect DEF OnlyRelays, TypeOK
<1> USE DEF Kept, Contract!Next, Contract!Step, Contract!Over, ListenGoto
<1>2. CASE ListenerAccept(r)
  BY <1>1, <1>2 DEF ListenerAccept, Contract!Accept
<1>3. CASE ListenerDecline(r)
  BY <1>1, <1>3 DEF ListenerDecline, Contract!Decline
<1>4. CASE ListenerForkFails(r)
  BY <1>1, <1>4 DEF ListenerForkFails, Over, Contract!ForkFails
<1>5. CASE ListenerLaunch(r)
  BY <1>1, <1>5 DEF ListenerLaunch, Contract!Launch
<1>6. CASE ListenerReturn(r)
  BY <1>1, <1>6 DEF ListenerReturn, Over, Contract!Return
<1>7. CASE BackendAdopt(r)
  BY <1>1, <1>7 DEF BackendAdopt, Contract!Adopt
<1>8. CASE BackendExit(r)
  BY <1>1, <1>8 DEF BackendExit, Contract!BackendExit
<1>9. CASE ListenerRefresh(r) \/ ListenerPersist(r)
  BY <1>1, <1>9 DEF ListenerRefresh, ListenerPersist, Contract!relay
<1>10. CASE ListenerEnd(r)
  BY <1>1, <1>10 DEF ListenerEnd, Contract!ListenerEnd
<1>11. CASE ThreadsEnd(r)
  BY <1>1, <1>11 DEF ThreadsEnd, Cleared, Contract!ThreadsEnd, Contract!Cleared
<1> QED
  BY <1>2, <1>3, <1>4, <1>5, <1>6, <1>7, <1>8, <1>9, <1>10, <1>11 DEF Listener

\* A step of one of the four threads that own relays.
LEMMA KeptOwner ==
    ASSUME Bookkeeping, Monitor \/ Control \/ Evictor \/ Main, NEW r \in Constructed
    PROVE  Kept(r)
<1>1. /\ r \in Relays /\ r \in Constructed
      /\ stop \in [Relays -> BOOLEAN] /\ running \in [Relays -> BOOLEAN]
      /\ lpc = [q \in Relays |-> lpc[q]] /\ running[r] \in BOOLEAN
  BY DEF Bookkeeping, TypeOK, Constructed
<1>2. CASE UNCHANGED <<stop, running, lpc>>
  BY <1>2, KeptUntouched
<1>3. ASSUME NEW c, stop' = [stop EXCEPT ![c] = TRUE], lpc' = lpc,
             running' = running \/ StopRelay(c)
      PROVE  Kept(r)
  <2>1. CASE c = r
    <3>1. stop'[r] = TRUE /\ lpc'[r] = lpc[r] /\ running'[r] \in {running[r], FALSE}
      BY <1>1, <1>3, <2>1 DEF StopRelay
    <3> QED
      BY <3>1, KeptSignal
  <2>2. CASE c # r
    <3>1. UNCHANGED <<stop[r], running[r], lpc[r]>>
      BY <1>1, <1>3, <2>2 DEF StopRelay
    <3> QED
      BY <3>1, KeptUntouched
  <2> QED
    BY <2>1, <2>2
<1>4. ASSUME NEW c, running' = [running EXCEPT ![c] = FALSE], UNCHANGED <<stop, lpc>>
      PROVE  Kept(r)
  <2>1. CASE c = r
    <3>1. stop'[r] = stop[r] /\ lpc'[r] = lpc[r]
      BY <1>4
    <3>2. running[r] \in BOOLEAN /\ ~running'[r] /\ running'[r] \in BOOLEAN
      BY <1>1, <1>4, <2>1
    <3> QED
      BY <3>1, <3>2, KeptForgotten
  <2>2. CASE c # r
    BY <1>1, <1>4, <2>2, KeptUntouched
  <2> QED
    BY <2>1, <2>2
<1>5. ASSUME NEW c, Joinable(c), Rearm(c), running' = running
      PROVE  Kept(r)
  <2>1. CASE c = r
    BY <1>1, <1>5, <2>1, KeptRearm DEF Joinable, Rearm
  <2>2. CASE c # r
    BY <1>1, <1>5, <2>2, KeptUntouched DEF Rearm
  <2> QED
    BY <2>1, <2>2
<1>6. CASE Monitor
  <2>1. \/ UNCHANGED <<stop, running, lpc>>
        \/ MonitorIdleMark \/ MonitorPendJoin
        \/ \E q \in Relays : MonitorPendGraceful(q)
    BY <1>6 DEF Monitor, MonitorEnd, MonitorIdleLock, MonitorIdleFind, MonitorIdlePush,
       MonitorIdleUnlock, MonitorPendLock, MonitorPendKeep, MonitorPendReset,
       MonitorPendPush, MonitorPendErase, MonitorPendUnlock, relayVars
  <2> QED
    BY <1>2, <1>3, <1>4, <1>5, <2>1
       DEF MonitorIdleMark, MonitorPendJoin, MonitorPendGraceful
<1>7. CASE Control
  <2>1. CASE ControlAdd
    <3>1. UNCHANGED <<stop, running>> /\ lpc'[r] = lpc[r]
      BY <1>1, <2>1 DEF ControlAdd
    <3> QED
      BY <3>1, KeptUntouched
  <2>2. ASSUME NEW pass \in Passes, NEW q \in Relays, ControlPassMark(pass, q)
        PROVE  Kept(r)
    BY <1>3, <2>2 DEF ControlPassMark
  <2>3. \/ UNCHANGED <<stop, running, lpc>> \/ ControlAdd
        \/ \E pass \in Passes, q \in Relays : ControlPassMark(pass, q)
    BY <1>7 DEF Control, ControlReload, ControlPassLock, ControlPassPush, ControlPassUnlock,
       ControlFind, ControlRefresh, relayVars
  <2> QED
    BY <1>2, <2>1, <2>2, <2>3
<1>8. CASE Evictor
  <2>1. \/ UNCHANGED <<stop, running, lpc>>
        \/ EvictGraceful \/ EvictSignal \/ EvictRearm \/ EvictReplaced
    BY <1>8 DEF Evictor, EvictPick, EvictPutBack, EvictDiscard, EvictStop, relayVars
  <2>2. CASE EvictReplaced
    BY <1>3, <2>2 DEF EvictReplaced, StopRelay
  <2> QED
    BY <1>2, <1>3, <1>4, <1>5, <2>1, <2>2 DEF EvictGraceful, EvictSignal, EvictRearm
<1>9. CASE Main
  <2>1. \/ UNCHANGED <<stop, running, lpc>>
        \/ \E q \in Relays : MainStopRelay(q)
    BY <1>9 DEF Main, MainSignal, MainLock, MainJoinRelay, MainUnlock, MainJoinMonitor,
       MainExit, relayVars
  <2>2. ASSUME NEW q \in Relays, MainStopRelay(q) PROVE Kept(r)
    BY <1>3, <2>2 DEF MainStopRelay, StopRelay
  <2> QED
    BY <1>2, <2>1, <2>2
<1> QED
  BY <1>6, <1>7, <1>8, <1>9

\* Whichever thread owns a relay, it keeps the rules under which Relay keeps its promises:
\* nobody starts the threads of a relay again before both are over.
THEOREM OwnersKeepContract == Spec => KeepsContract
<1> DEFINE AllKept == \A r \in Constructed : Kept(r)
<1>1. Bookkeeping /\ [Next]_vars => AllKept
  <2> SUFFICES ASSUME Bookkeeping, [Next]_vars, NEW r \in Constructed PROVE Kept(r)
    OBVIOUS
  <2>1. ASSUME NEW q \in Relays, Listener(q) PROVE Kept(r)
    <3>1. CASE q = r
      BY <2>1, <3>1, KeptListener DEF Bookkeeping
    <3>2. CASE q # r
      <4>1. stop' = stop /\ lpc'[r] = lpc[r]
        BY <2>1, <3>2, ListenerEffect DEF Bookkeeping, OnlyRelays, Constructed
      <4>2. running'[r] = running[r]
        BY <2>1, <3>2
           DEF Listener, ListenerAccept, ListenerDecline, ListenerForkFails, ListenerLaunch,
               ListenerReturn, BackendAdopt, BackendExit, ListenerRefresh, ListenerPersist,
               ListenerEnd, ThreadsEnd, ListenGoto, Cleared, Bookkeeping, TypeOK, Constructed
      <4> QED
        BY <4>1, <4>2, KeptUntouched
    <3> QED
      BY <3>1, <3>2
  <2>2. CASE UNCHANGED vars
    BY <2>2, KeptUntouched DEF vars
  <2> QED
    BY <2>1, <2>2, KeptOwner DEF Next
<1>2. Bookkeeping /\ [Next]_vars => [AllKept]_vars
  BY <1>1
<1> QED
  BY <1>2, BookkeepingInvariant, PTL DEF Spec, KeepsContract

\* The other way round: the registry leaves out nothing that the threads of a relay may do.
\* Whatever RelayThreads allows them while the registry stands still is a step of the
\* registry, so by RelayKeepsContract (Relay_refinement) every step of listenLoop and of
\* monitorBackend has its step here.
THEOREM ThreadsUnrestricted ==
    ASSUME TypeOK, NEW r \in Constructed, NEW restart \in BOOLEAN, AutoRestart(r) = restart,
           lpc[r] \notin {"off", "persist"}, lpc'[r] # "persist",
           Contract(r, restart)!Step, OnlyRelays,
           lpc' = [lpc EXCEPT ![r] = lpc'[r]],
           running' = [running EXCEPT ![r] = running'[r]]
    PROVE  Listener(r)
<1> USE DEF Listener, ListenGoto, Contract!Over
<1>1. /\ r \in Relays /\ running \in [Relays -> BOOLEAN]
      /\ lpc = [q \in Relays |-> lpc[q]] /\ running = [q \in Relays |-> running[q]]
  BY DEF TypeOK, Constructed
<1>2. running'[r] = running[r] => UNCHANGED running
  BY <1>1
<1>3. lpc'[r] = lpc[r] => UNCHANGED lpc
  BY <1>1
<1>4. CASE Contract(r, restart)!Accept
  BY <1>2, <1>4 DEF Contract!Accept, ListenerAccept
<1>5. CASE Contract(r, restart)!Decline
  BY <1>2, <1>5 DEF Contract!Decline, ListenerDecline
<1>6. CASE Contract(r, restart)!ForkFails
  BY <1>2, <1>6 DEF Contract!ForkFails, ListenerForkFails, Over
<1>7. CASE Contract(r, restart)!Launch
  BY <1>1, <1>7 DEF Contract!Launch, ListenerLaunch
<1>8. CASE Contract(r, restart)!Return
  BY <1>2, <1>8 DEF Contract!Return, ListenerReturn, Over
<1>9. CASE Contract(r, restart)!Adopt
  BY <1>1, <1>3, <1>9 DEF Contract!Adopt, BackendAdopt
<1>10. CASE Contract(r, restart)!BackendExit
  BY <1>1, <1>3, <1>10 DEF Contract!BackendExit, BackendExit
<1>11. CASE Contract(r, restart)!ListenerEnd
  BY <1>2, <1>11 DEF Contract!ListenerEnd, ListenerEnd
<1>12. CASE Contract(r, restart)!ThreadsEnd
  BY <1>1, <1>2, <1>12 DEF Contract!ThreadsEnd, Contract!Cleared, ThreadsEnd, Cleared
<1> QED
  BY <1>4, <1>5, <1>6, <1>7, <1>8, <1>9, <1>10, <1>11, <1>12 DEF Contract!Step
=============================================================================
