--------------------------- MODULE Relay_refinement ---------------------------
(***************************************************************************)
(* Relay implements RelayThreads: the proof, for every set of processes    *)
(* and every setting. With it, what RelayRegistry assumes of the threads   *)
(* of a relay is what listenLoop and monitorBackend do.                    *)
(*                                                                         *)
(* A step of the code is a step of the contract, or a stutter, by its      *)
(* effect on three things: stop_, isBackendRunning() and the place of the  *)
(* two threads. The places are told apart once (Places), so that each step *)
(* needs only the labels it leaves and reaches. Three facts about          *)
(* reachable states are needed: a connection is accepted only before stop_ *)
(* is set and an auto_restart listen thread ends only after that           *)
(* (StopSeen), and a forked child has a pid (Launcher).                    *)
(***************************************************************************)
EXTENDS Relay_proofs

\* The part of the loop that is neither a launch nor a wait.
InLoop == {"top", "occupied", "bind", "accept", "accepting", "delay", "portWait"}

\* What the labels of the two threads are to the owner.
Places ==
    /\ lpc = "exited" /\ mpc = "exited" => Place = "exited"
    /\ lpc = "exited" /\ mpc # "exited" => Place = Over
    /\ lpc \in {"close", "execFailed"} => Place = Over
    /\ lpc \in {"gate", "launch", "forked"} => Place = "launch"
    /\ lpc \in {"release", "wait"} => Place = "wait"
    /\ lpc \in InLoop => Place = "loop"

\* They are disjoint.
LEMMA PlacesNow == Places
  BY DEF Places, Place, InLoop

\* So they are after a step.
LEMMA PlacesNext == Places'
  BY PlacesNow, PTL

\* signalStop shuts the socket before a blocked accept() can return a connection: who
\* accepts has not been stopped. And with auto_restart only stop_ ends the listen thread.
StopSeen ==
    /\ lpc = "accepting" /\ port = Self => ~stop
    /\ AutoRestart /\ lpc = "exited" => stop

\* StopSeen is inductive: the loops test stop_, only signalStop sets it, and only
\* resetForIdle, which starts the thread again, clears it.
LEMMA StopSeenStep == TypeOK /\ StopSeen /\ [Next]_vars => StopSeen'
<1> SUFFICES ASSUME TypeOK, StopSeen, [Next]_vars PROVE StopSeen'
  OBVIOUS
<1> USE ConstantsAssumption DEF StopSeen, TypeOK
<1>1. CASE Host
  <2>1. port' # Self \/ port' = port
    BY <1>1 DEF Host, Exit, Bind, Appear, Daemonise, Freed
  <2> QED
    BY <1>1, <2>1 DEF Host, flags, listener
<1>2. CASE Listen
  <2>1. /\ stop' = stop
        /\ lpc' = "accepting" => lpc = "accept" /\ ~stop
        /\ AutoRestart /\ lpc' = "exited" => stop
    BY <1>2 DEF Listen, ListenStopped, ListenTop, ListenReleased, ListenBind, ListenAdopt,
       ListenWait, ListenAccept, ListenInterrupted, ListenGate, ListenFork, ListenForkFailed,
       ListenForked, ListenRelease, ListenReap, ListenNoChild, ListenExecFailed, ListenClose,
       ListenDelay, ListenPortWait, ListenGoto, flags, listener
  <2> QED
    BY <2>1
<1>3. CASE Monitor
  BY <1>3 DEF Monitor, MonitorStopped, MonitorSees, MonitorCall, MonitorReap, MonitorNoChild,
     MonitorPoll, MonitorPollPort, MonitorDrop, MonitorFound, MonitorAdopt, MonitorAdopted,
     MonitorNotFound, MonitorClear, MonitorGoto,
     flags, listener
<1>4. CASE Owner
  <2>1. CASE OwnerRetire \/ EvictSignal \/ OwnerStop
    BY <2>1 DEF OwnerRetire, EvictSignal, OwnerStop, SignalStop, Released
  <2>2. CASE OwnerRearm
    BY <2>2 DEF OwnerRearm
  <2>3. CASE GracefulKill \/ StopKill
    BY <2>3 DEF GracefulKill, StopKill, Kill, Exit, Freed, flags, listener
  <2>4. CASE UNCHANGED <<port, stop, lpc>>
    BY <2>4
  <2> QED
    BY <1>4, <2>1, <2>2, <2>3, <2>4
       DEF Owner, OwnerReclaim, OwnerEvict, OwnerContinue, OwnerPending, GracefulCommand,
           GracefulReclaim, GracefulGiveUp, GracefulNothing, GracefulBegin, GracefulPoll, GracefulGone,
           GracefulAlive, GracefulTimeout, GracefulTerm, GracefulClear, StopTest, StopAlive,
           StopJoin, OwnerGoto, flags, listener
<1>5. CASE UNCHANGED vars
  BY <1>5 DEF vars
<1> QED
  BY <1>1, <1>2, <1>3, <1>4, <1>5 DEF Next

-----------------------------------------------------------------------------
(* Each step of the code is one of the contract, or none.                  *)

\* A step or a stutter of the contract.
Contract == Threads!Next \/ UNCHANGED Threads!relay

\* Nothing that the contract speaks of changes.
LEMMA Unseen ==
    ASSUME UNCHANGED <<stop, backendPid, occupied, lpc, mpc>>
    PROVE  Contract
  BY DEF Contract, Threads!relay, IsBackendRunning, Place

\* A tracked backend, or the occupant, is given up, and no thread moves.
LEMMA Forgotten ==
    ASSUME UNCHANGED <<stop, Place>>, IsBackendRunning' \in {IsBackendRunning, FALSE}
    PROVE  Contract
  BY DEF Contract, Threads!Next, Threads!Step, Threads!BackendExit, Threads!relay,
         IsBackendRunning

\* The listen thread sees stop_, and ends or is about to.
LEMMA LoopEnds ==
    ASSUME stop, Place = "loop", Place' \in {Over, "exited"},
           UNCHANGED <<stop, IsBackendRunning>>
    PROVE  Contract
<1>1. CASE Place' = "exited"
  BY <1>1 DEF Contract, Threads!Next, Threads!Step, Threads!ThreadsEnd, Threads!Cleared
<1>2. CASE Place' = Over /\ AutoRestart
  BY <1>2 DEF Contract, Threads!relay, Over
<1>3. CASE Place' = Over /\ ~AutoRestart
  BY <1>3 DEF Contract, Threads!Next, Threads!Step, Threads!ListenerEnd, Over
<1> QED
  BY <1>1, <1>2, <1>3

\* A step of the listen thread.
LEMMA ContractListen ==
    ASSUME TypeOK, Launcher, StopSeen, Listen
    PROVE  Contract
<1>0. Places /\ Places'
  BY PlacesNow, PlacesNext
<1> USE DEF flags, monitor, listener, owner, ListenGoto, IsBackendRunning
<1> DEFINE Same == UNCHANGED <<stop, IsBackendRunning>>
<1>1. CASE ListenStopped
  <2>1. Place = "loop" /\ Place' \in {Over, "exited"}
    BY <1>0, <1>1 DEF ListenStopped, Places, InLoop, TypeOK, Over
  <2>2. stop /\ Same
    BY <1>1 DEF ListenStopped
  <2> QED
    BY <2>1, <2>2, LoopEnds
<1>2. CASE ListenTop \/ ListenBind \/ ListenDelay \/ ListenPortWait
  <2>1. Place = "loop" /\ Place' = "loop"
    BY <1>0, <1>2 DEF ListenTop, ListenBind, ListenDelay, ListenPortWait, Places, InLoop
  <2>2. Same
    BY <1>2 DEF ListenTop, ListenBind, ListenDelay, ListenPortWait
  <2> QED
    BY <2>1, <2>2 DEF Contract, Threads!relay
<1>3. CASE ListenReleased
  <2>1. Place = "loop" /\ Place' = "loop"
    BY <1>0, <1>3 DEF ListenReleased, Places, InLoop
  <2>2. stop' = stop /\ IsBackendRunning' = FALSE
    BY <1>3 DEF ListenReleased
  <2> QED
    BY <2>1, <2>2, Forgotten
<1>4. CASE ListenAdopt
  <2>1. Place = "loop" /\ Place' = "loop"
    BY <1>0, <1>4 DEF ListenAdopt, Places, InLoop
  <2>2. stop' = stop /\ IsBackendRunning' \in {IsBackendRunning, TRUE}
    BY <1>4 DEF ListenAdopt
  <2> QED
    BY <2>1, <2>2 DEF Contract, Threads!Next, Threads!Step, Threads!Adopt, Threads!relay
<1>5. CASE ListenWait
  <2>1. Same
    BY <1>5 DEF ListenWait
  <2>2. CASE stop
    <3>1. Place = "loop" /\ Place' = Over
      BY <1>0, <1>5, <2>2 DEF ListenWait, Places, InLoop, Over
    <3> QED
      BY <2>1, <2>2, <3>1, LoopEnds
  <2>3. CASE ~stop
    <3>1. Place = "loop" /\ Place' = "loop"
      BY <1>0, <1>5, <2>3 DEF ListenWait, Places, InLoop
    <3> QED
      BY <2>1, <3>1 DEF Contract, Threads!relay
  <2> QED
    BY <2>2, <2>3
<1>6. CASE ListenAccept
  <2>1. Place = "loop" /\ Place' = "launch"
    BY <1>0, <1>6 DEF ListenAccept, Places, InLoop
  <2>2. ~stop /\ Same
    BY <1>6 DEF ListenAccept, StopSeen
  <2> QED
    BY <2>1, <2>2 DEF Contract, Threads!Next, Threads!Step, Threads!Accept
<1>7. CASE ListenInterrupted
  <2>1. Place = "loop" /\ Place' = Over
    BY <1>0, <1>7 DEF ListenInterrupted, Places, InLoop, Over
  <2>2. stop /\ Same
    BY <1>7 DEF ListenInterrupted
  <2> QED
    BY <2>1, <2>2, LoopEnds
<1>8. CASE ListenGate
  <2>1. Same
    BY <1>8 DEF ListenGate
  <2>2. CASE backendPid = NoPid
    <3>1. Place = "launch" /\ Place' = "launch"
      BY <1>0, <1>8, <2>2 DEF ListenGate, Places, InLoop
    <3> QED
      BY <2>1, <3>1 DEF Contract, Threads!relay
  <2>3. CASE backendPid # NoPid
    <3>1. Place = "launch" /\ Place' = "loop"
      BY <1>0, <1>8, <2>3 DEF ListenGate, Places, InLoop
    <3> QED
      BY <2>1, <2>3, <3>1 DEF Contract, Threads!Next, Threads!Step, Threads!Decline
  <2> QED
    BY <2>2, <2>3
<1>9. CASE \E p \in Pids : ListenFork(p)
  <2>1. Place = "launch" /\ Place' = "launch"
    BY <1>0, <1>9 DEF ListenFork, Places
  <2>2. Same
    BY <1>9 DEF ListenFork
  <2> QED
    BY <2>1, <2>2 DEF Contract, Threads!relay
<1>10. CASE ListenForkFailed
  <2>1. Place = "launch" /\ Place' = Over
    BY <1>0, <1>10 DEF ListenForkFailed, Places, Over
  <2>2. Same
    BY <1>10 DEF ListenForkFailed
  <2> QED
    BY <2>1, <2>2 DEF Contract, Threads!Next, Threads!Step, Threads!ForkFails, Over, Threads!Over
<1>11. CASE ListenForked
  <2>1. Place = "launch" /\ Place' = "wait"
    BY <1>0, <1>11 DEF ListenForked, Places
  <2>2. stop' = stop /\ IsBackendRunning' = TRUE
    BY <1>11, ConstantsAssumption DEF ListenForked, Launcher
  <2> QED
    BY <2>1, <2>2 DEF Contract, Threads!Next, Threads!Step, Threads!Launch
<1>12. CASE ListenRelease
  <2>1. Place = "wait" /\ Place' = "wait"
    BY <1>0, <1>12 DEF ListenRelease, Places
  <2>2. Same
    BY <1>12 DEF ListenRelease
  <2> QED
    BY <2>1, <2>2 DEF Contract, Threads!relay
<1>13. CASE ListenReap \/ ListenNoChild
  <2>1. Same
    BY <1>13 DEF ListenReap, ListenNoChild
  <2>2. Place = "wait" /\ Place' = Over
    BY <1>0, <1>13 DEF ListenReap, ListenNoChild, Places, Over
  <2> QED
    BY <2>1, <2>2 DEF Contract, Threads!Next, Threads!Step, Threads!Return, Over, Threads!Over
<1>14. CASE ListenExecFailed
  <2>1. Place' = Place
    BY <1>0, <1>14 DEF ListenExecFailed, Places, Over
  <2>2. stop' = stop /\ IsBackendRunning' \in {IsBackendRunning, FALSE}
    BY <1>14 DEF ListenExecFailed, TypeOK
  <2> QED
    BY <2>1, <2>2, Forgotten
<1>15. CASE ListenClose
  <2>1. Same
    BY <1>15 DEF ListenClose
  <2>2. CASE AutoRestart /\ ~stop
    <3>1. Place = "loop" /\ Place' = "loop"
      BY <1>0, <1>15, <2>2 DEF ListenClose, Places, InLoop, Over
    <3> QED
      BY <2>1, <3>1 DEF Contract, Threads!relay
  <2>3. CASE AutoRestart /\ stop
    <3>1. Place = "loop" /\ Place' \in {Over, "exited"}
      BY <1>0, <1>15, <2>3 DEF ListenClose, Places, Over
    <3> QED
      BY <2>1, <2>3, <3>1, LoopEnds
  <2>4. CASE ~AutoRestart
    <3>1. Place = "ended" /\ Place' \in {"ended", "exited"}
      BY <1>0, <1>15, <2>4 DEF ListenClose, Places, Over
    <3> QED
      BY <2>1, <3>1
         DEF Contract, Threads!Next, Threads!Step, Threads!ThreadsEnd, Threads!Cleared,
             Threads!relay
  <2> QED
    BY <2>2, <2>3, <2>4
<1> QED
  BY <1>1, <1>2, <1>3, <1>4, <1>5, <1>6, <1>7, <1>8, <1>9, <1>10, <1>11, <1>12, <1>13,
     <1>14, <1>15 DEF Listen

\* The monitor thread ends, after it may have cleared backendPid_.
LEMMA MonitorEnds ==
    ASSUME StopSeen, mpc # "exited", mpc' \in {"idle", "exited"},
           UNCHANGED <<stop, lpc>>, IsBackendRunning' \in {IsBackendRunning, FALSE}
    PROVE  Contract
<1>0. Places /\ Places'
  BY PlacesNow, PlacesNext
<1>1. CASE lpc = "exited" /\ mpc' = "exited"
  <2>1. Place = Over /\ Place' = "exited"
    BY <1>0, <1>1 DEF Places
  <2>2. (Place = "loop" /\ stop) \/ Place = "ended"
    BY <1>1, <2>1 DEF StopSeen, Over
  <2> QED
    BY <2>1, <2>2 DEF Contract, Threads!Next, Threads!Step, Threads!ThreadsEnd, Threads!Cleared
<1>2. CASE ~(lpc = "exited" /\ mpc' = "exited")
  <2>1. Place' = Place
    BY <1>2 DEF Place
  <2> QED
    BY <2>1, Forgotten
<1> QED
  BY <1>1, <1>2

\* A step of the monitor thread.
LEMMA ContractMonitor ==
    ASSUME TypeOK, StopSeen, Monitor
    PROVE  Contract
<1> USE DEF flags, listener, owner, MonitorGoto
<1>1. CASE \/ MonitorSees \/ MonitorCall \/ MonitorNoChild \/ MonitorPoll \/ MonitorPollPort
           \/ MonitorFound \/ MonitorAdopt \/ MonitorNotFound
           \/ \E p \in Pids : MonitorReap(p)
  <2>1. /\ UNCHANGED <<stop, backendPid, occupied, lpc>>
        /\ mpc # "exited" /\ mpc' # "exited"
    BY <1>1 DEF MonitorSees, MonitorCall, MonitorNoChild, MonitorPoll, MonitorPollPort,
                MonitorFound, MonitorAdopt, MonitorNotFound, MonitorReap
  <2>2. Place' = Place /\ IsBackendRunning' = IsBackendRunning
    BY <2>1 DEF Place, IsBackendRunning
  <2> QED
    BY <2>1, <2>2 DEF Contract, Threads!relay
<1>2. CASE MonitorStopped \/ MonitorDrop \/ MonitorClear
  <2>1. UNCHANGED <<stop, lpc>> /\ mpc # "exited" /\ mpc' \in {"idle", "exited"}
    BY <1>2 DEF MonitorStopped, MonitorDrop, MonitorClear
  <2>2. IsBackendRunning' \in {IsBackendRunning, FALSE}
    BY <1>2 DEF MonitorStopped, MonitorDrop, MonitorClear, IsBackendRunning, TypeOK
  <2> QED
    BY <2>1, <2>2, MonitorEnds
<1>3. CASE MonitorAdopted
  <2>1. UNCHANGED <<stop, lpc, occupied>> /\ mpc # "exited" /\ mpc' # "exited"
    BY <1>3 DEF MonitorAdopted
  <2>2. Place' = Place /\ Place # "exited"
    BY <2>1 DEF Place, Over
  <2>3. CASE IsBackendRunning' \in {IsBackendRunning, FALSE}
    BY <2>1, <2>2, <2>3, Forgotten
  <2>4. CASE ~IsBackendRunning /\ IsBackendRunning'
    BY <2>1, <2>2, <2>4 DEF Contract, Threads!Next, Threads!Step, Threads!Adopt
  <2>5. IsBackendRunning' \in BOOLEAN /\ IsBackendRunning \in BOOLEAN
    BY <2>1 DEF IsBackendRunning, TypeOK
  <2> QED
    BY <2>3, <2>4, <2>5
<1> QED
  BY <1>1, <1>2, <1>3 DEF Monitor

\* A step of the owner.
LEMMA ContractOwner ==
    ASSUME TypeOK, Owner
    PROVE  Contract
<1> USE DEF flags, listener, monitor, OwnerGoto
<1>1. CASE OwnerRetire \/ EvictSignal \/ OwnerStop
  <2>1. stop' = TRUE /\ UNCHANGED <<backendPid, occupied, lpc, mpc>>
    BY <1>1 DEF OwnerRetire, EvictSignal, OwnerStop, SignalStop
  <2>2. UNCHANGED <<Place, IsBackendRunning>>
    BY <2>1 DEF Place, IsBackendRunning
  <2> QED
    BY <2>1, <2>2 DEF Contract, Threads!Next, Threads!Signal, Threads!Cleared
<1>2. CASE GracefulReclaim \/ GracefulClear
  <2>1. UNCHANGED <<stop, lpc, mpc>>
    BY <1>2 DEF GracefulReclaim, GracefulClear
  <2>2. IsBackendRunning' \in {IsBackendRunning, FALSE}
    BY <1>2 DEF GracefulReclaim, GracefulClear, IsBackendRunning, TypeOK
  <2>3. Place' = Place
    BY <2>1 DEF Place
  <2> QED
    BY <2>1, <2>2, <2>3, Forgotten
<1>3. CASE OwnerRearm
  <2>1. Place = "exited" /\ Place' = "loop"
    BY <1>3, PlacesNow, PlacesNext DEF OwnerRearm, Places, InLoop
  <2>2. stop' = FALSE /\ IsBackendRunning' = IsBackendRunning
    BY <1>3 DEF OwnerRearm, IsBackendRunning
  <2> QED
    BY <2>1, <2>2 DEF Contract, Threads!Next, Threads!Rearm
<1>4. CASE UNCHANGED <<stop, backendPid, occupied, lpc, mpc>>
  BY <1>4, Unseen
<1> QED
  BY <1>1, <1>2, <1>3, <1>4
     DEF Owner, OwnerReclaim, OwnerEvict, OwnerContinue, OwnerPending, GracefulCommand,
         GracefulGiveUp, GracefulNothing, GracefulBegin, GracefulPoll, GracefulGone, GracefulAlive,
         GracefulTimeout, GracefulTerm, GracefulKill, StopTest, StopAlive, StopKill, StopJoin

\* Every step.
LEMMA ContractStep ==
    ASSUME TypeOK, Launcher, StopSeen, [Next]_vars
    PROVE  [Threads!Next]_Threads!relay
<1>1. CASE Host \/ UNCHANGED vars
  BY <1>1, Unseen DEF Host, vars, flags, listener, monitor, Contract
<1> QED
  BY <1>1, ContractListen, ContractMonitor, ContractOwner DEF Next, Contract

\* The relay keeps the contract that RelayRegistry relies on, with auto_restart or without:
\* no launch begins after stop_, and a joined thread launches, adopts and clears nothing.
THEOREM RelayKeepsContract == Spec => ImplementsThreads
<1>1. Init => Threads!Init
  <2> SUFFICES ASSUME Init PROVE Threads!Init
    OBVIOUS
  <2>1. Place = "loop"
    BY PlacesNow DEF Init, Places, InLoop
  <2>2. IsBackendRunning = FALSE /\ stop = FALSE
    BY DEF Init, IsBackendRunning
  <2> QED
    BY <2>1, <2>2 DEF Threads!Init
<1>2. Init => StopSeen
  BY DEF Init, StopSeen
<1>3. TrackInv => TypeOK /\ Launcher
  BY DEF TrackInv, IInv
<1> QED
  BY <1>1, <1>2, <1>3, StopSeenStep, ContractStep, TrackInvariant, PTL
     DEF Spec, ImplementsThreads, Threads!Spec
=============================================================================
