---------------------------- MODULE Relay_proofs ----------------------------
(***************************************************************************)
(* Proofs about Relay, for every set of processes and every setting: types *)
(* are respected, every child is awaited by the listen thread, the         *)
(* listening socket is never lost, and backendPid_ loses a running child   *)
(* only by a late store of the monitor thread or in an eviction.           *)
(***************************************************************************)
EXTENDS Relay, TLAPS

\* The inductive invariant: the three properties need nothing else.
IInv == TypeOK /\ ChildAwaited /\ SocketOwned

\* Init establishes the invariant.
LEMMA InvariantInit == Init => IInv
  BY ConstantsAssumption DEF Init, IInv, TypeOK, ChildAwaited, SocketOwned

\* A step of a process of the host: exit, bind, appear or daemonise.
LEMMA InvariantHost == IInv /\ Host => IInv'
<1> SUFFICES ASSUME IInv, Host PROVE IInv'
  OBVIOUS
<1> USE ConstantsAssumption DEF IInv, TypeOK, ChildAwaited, SocketOwned, Executing,
        flags, listener, monitor, owner, Freed
<1>1. CASE \E p \in Pids : Exit(p)
  BY <1>1 DEF Host, Exit
<1>2. CASE \E p \in Pids : Bind(p)
  BY <1>2 DEF Host, Bind
<1>3. CASE \E p \in Pids : Appear(p)
  BY <1>3 DEF Host, Appear
<1>4. CASE \E p, q \in Pids : Daemonise(p, q)
  BY <1>4 DEF Host, Daemonise
<1>5. QED
  BY <1>1, <1>2, <1>3, <1>4 DEF Host

\* A step of the listen thread.
LEMMA InvariantListen == IInv /\ Listen => IInv'
<1> SUFFICES ASSUME IInv, Listen PROVE IInv'
  OBVIOUS
<1> USE ConstantsAssumption DEF IInv, TypeOK, ChildAwaited, SocketOwned, flags, monitor,
        owner, ListenGoto, Released, Reap
<1>1. CASE ListenStopped
  BY <1>1 DEF ListenStopped
<1>2. CASE ListenTop
  BY <1>2 DEF ListenTop
<1>3. CASE ListenReleased
  <2>1. occupied' \in BOOLEAN /\ giveUp' \in BOOLEAN /\ stop' \in BOOLEAN /\ evicting' \in BOOLEAN
    BY <1>3, Zenon DEF ListenReleased, listener
  <2>2. QED
    BY <1>3, <2>1 DEF ListenReleased, listener
<1>4. CASE ListenBind
  BY <1>4 DEF ListenBind
<1>5. CASE ListenAdopt
  BY <1>5 DEF ListenAdopt
<1>6. CASE ListenWait \/ ListenAccept \/ ListenInterrupted \/ ListenGate
  BY <1>6 DEF ListenWait, ListenAccept, ListenInterrupted, ListenGate
<1>7. CASE \E p \in Pids : ListenFork(p)
  BY <1>7 DEF ListenFork
<1>8. CASE ListenForkFailed \/ ListenForked
  BY <1>8 DEF ListenForkFailed, ListenForked
<1>9. CASE ListenRelease
  BY <1>9 DEF ListenRelease
<1>10. CASE ListenReap
  <2>1. proc' \in [Pids -> {"unborn", "child", "zombie", "daemon", "stranger", "gone"}]
    BY <1>10 DEF ListenReap
  <2>2. \A p \in Pids : proc'[p] \notin {"child", "zombie"}
    BY <1>10 DEF ListenReap
  <2>3. port # Self
    BY <1>10 DEF ListenReap
  <2>4. QED
    BY <1>10, <2>1, <2>2, <2>3 DEF ListenReap
<1>11. CASE ListenNoChild
  BY <1>11 DEF ListenNoChild
<1>12. CASE ListenExecFailed \/ ListenClose
  BY <1>12 DEF ListenExecFailed, ListenClose
<1>13. CASE ListenDelay \/ ListenPortWait
  BY <1>13 DEF ListenDelay, ListenPortWait
<1>14. QED
  BY <1>1, <1>2, <1>3, <1>4, <1>5, <1>6, <1>7, <1>8, <1>9, <1>10, <1>11, <1>12, <1>13
  DEF Listen

\* A step of the monitor thread.
LEMMA InvariantMonitor == IInv /\ Monitor => IInv'
<1> SUFFICES ASSUME IInv, Monitor PROVE IInv'
  OBVIOUS
<1> USE ConstantsAssumption DEF IInv, TypeOK, ChildAwaited, SocketOwned, flags, listener,
        owner, MonitorGoto
<1>1. CASE MonitorStopped \/ MonitorSees \/ MonitorCall
  BY <1>1 DEF MonitorStopped, MonitorSees, MonitorCall
<1>2. CASE \E p \in Pids : MonitorReap(p)
  BY <1>2 DEF MonitorReap, Zombies, Children, Reap
<1>3. CASE MonitorNoChild \/ MonitorPoll \/ MonitorPollPort \/ MonitorDrop
  BY <1>3 DEF MonitorNoChild, MonitorPoll, MonitorPollPort, MonitorDrop
<1>4. CASE MonitorFound
  BY <1>4 DEF MonitorFound
<1>5. CASE MonitorAdopt \/ MonitorAdopted
  BY <1>5 DEF MonitorAdopt, MonitorAdopted
<1>6. CASE MonitorNotFound \/ MonitorClear
  BY <1>6 DEF MonitorNotFound, MonitorClear
<1>7. QED
  BY <1>1, <1>2, <1>3, <1>4, <1>5, <1>6 DEF Monitor

\* waitpid with WNOHANG reaps at most one child, and never makes one.
LEMMA Reaping ==
    ASSUME TypeOK, NEW x \in Pids \cup {NoPid},
           IsNotChildAlive(x) \/ IsChildAlive(x)
    PROVE  UNCHANGED proc \/ \E p \in Pids : proc[p] = "zombie" /\ Reap(p)
<1>1. CASE IsChildAlive(x)
  BY <1>1 DEF IsChildAlive
<1>2. CASE IsNotChildAlive(x)
  <2>1. \A p \in Zombies(x) : p \in Pids /\ proc[p] = "zombie"
    BY DEF Zombies, Children
  <2>2. QED
    BY <1>2, <2>1 DEF IsNotChildAlive
<1>3. QED
  BY <1>1, <1>2

\* killProcess makes a zombie of a running child, and otherwise no child of anything.
LEMMA Killing ==
    ASSUME TypeOK, Kill(backendPid)
    PROVE  UNCHANGED <<proc, port>> \/ \E p \in Pids : Exit(p)
  BY DEF Kill, TypeOK

\* A step of the owner.
LEMMA InvariantOwner == IInv /\ Owner => IInv'
<1> SUFFICES ASSUME IInv, Owner PROVE IInv'
  OBVIOUS
<1> USE ConstantsAssumption DEF IInv, TypeOK, ChildAwaited, SocketOwned, flags, listener,
        monitor, OwnerGoto, SignalStop, Released, Return
<1>1. CASE OwnerRetire \/ OwnerReclaim \/ OwnerPending \/ OwnerEvict \/ OwnerStop
  <2>1. occupied' \in BOOLEAN /\ giveUp' \in BOOLEAN /\ stop' \in BOOLEAN /\ evicting' \in BOOLEAN
    BY <1>1, Zenon DEF OwnerRetire, OwnerReclaim, OwnerPending, OwnerEvict, OwnerStop
  <2>2. QED
    BY <1>1, <2>1 DEF OwnerRetire, OwnerReclaim, OwnerPending, OwnerEvict, OwnerStop
<1>2. CASE GracefulCommand \/ GracefulReclaim \/ GracefulGiveUp
  <2>1. occupied' \in BOOLEAN /\ giveUp' \in BOOLEAN /\ stop' \in BOOLEAN /\ evicting' \in BOOLEAN
    BY <1>2, Zenon DEF GracefulCommand, GracefulReclaim, GracefulGiveUp
  <2>2. QED
    BY <1>2, <2>1 DEF GracefulCommand, GracefulReclaim, GracefulGiveUp
<1>3. CASE GracefulNothing \/ GracefulBegin \/ GracefulPoll \/ GracefulTerm
  BY <1>3 DEF GracefulNothing, GracefulBegin, GracefulPoll, GracefulTerm
<1>4. CASE GracefulGone \/ GracefulAlive \/ GracefulTimeout \/ StopAlive
  <2>1. UNCHANGED proc \/ \E p \in Pids : proc[p] = "zombie" /\ Reap(p)
    BY <1>4, Reaping DEF GracefulGone, GracefulAlive, GracefulTimeout, StopAlive
  <2>2. /\ UNCHANGED <<port, backendPid, occupied, giveUp, stop, lpc, lpid, mpc, mpid, evicting>>
        /\ spc' \in {"clear", "commandPoll", "termPoll", "term", "kill", "stopKill", "stopJoin"}
    BY <1>4 DEF GracefulGone, GracefulAlive, GracefulTimeout, StopAlive
  <2>3. QED
    BY <2>1, <2>2 DEF Reap
<1>5. CASE GracefulKill \/ StopKill
  <2>1. UNCHANGED <<proc, port>> \/ \E p \in Pids : Exit(p)
    BY <1>5, Killing DEF GracefulKill, StopKill
  <2>2. /\ UNCHANGED <<backendPid, occupied, giveUp, stop, lpc, lpid, mpc, mpid, evicting>>
        /\ spc' \in {"clear", "stopJoin"}
    BY <1>5 DEF GracefulKill, StopKill
  <2>3. QED
    BY <2>1, <2>2 DEF Exit, Freed, Executing
<1>6. CASE GracefulClear \/ EvictSignal
  <2>1. occupied' \in BOOLEAN /\ giveUp' \in BOOLEAN /\ stop' \in BOOLEAN /\ evicting' \in BOOLEAN
    BY <1>6, Zenon DEF GracefulClear, EvictSignal
  <2>2. QED
    BY <1>6, <2>1 DEF GracefulClear, EvictSignal
<1>7. CASE OwnerRearm
  BY <1>7 DEF OwnerRearm
<1>8. CASE StopTest \/ StopJoin
  BY <1>8 DEF StopTest, StopJoin
<1>9. QED
  BY <1>1, <1>2, <1>3, <1>4, <1>5, <1>6, <1>7, <1>8 DEF Owner, OwnerContinue

\* The invariant holds in every reachable state.
THEOREM RelayInvariant == Spec => []IInv
<1>1. IInv /\ [Next]_vars => IInv'
  <2> SUFFICES ASSUME IInv, [Next]_vars PROVE IInv'
    OBVIOUS
  <2>1. CASE Host
    BY <2>1, InvariantHost
  <2>2. CASE Listen
    BY <2>2, InvariantListen
  <2>3. CASE Monitor
    BY <2>3, InvariantMonitor
  <2>4. CASE Owner
    BY <2>4, InvariantOwner
  <2>5. CASE UNCHANGED vars
    BY <2>5 DEF vars, IInv, TypeOK, ChildAwaited, SocketOwned
  <2>6. QED
    BY <2>1, <2>2, <2>3, <2>4, <2>5 DEF Next
<1>2. QED
  BY <1>1, InvariantInit, PTL DEF Spec

\* Every variable of the relay stays within its type.
THEOREM RelayTypeCorrect == Spec => []TypeOK
  BY RelayInvariant, PTL DEF IInv

\* Whatever the three threads do, a child that is not reaped has the listen thread
\* waiting for it: one child at a time, none after a join, no zombie left behind.
THEOREM ChildrenAwaited == Spec => []ChildAwaited
  BY RelayInvariant, PTL DEF IInv

\* resetForIdle never overwrites the descriptor of an open listening socket.
THEOREM SocketNeverLost == Spec => []SocketOwned
  BY RelayInvariant, PTL DEF IInv

-----------------------------------------------------------------------------
(* Who may store into backendPid_, and over what. It is cleared in five    *)
(* places and replaced in one. The invariant says of all but one why no    *)
(* tracked child is lost there, outside evict(): the exception is the      *)
(* store at the end of the monitor's poll, MonitorDrop.                    *)

\* The listen thread is on its way from the top of its loop to fork().
Open == {"bind", "accept", "accepting", "gate", "launch"}

\* The monitor thread has reaped a child and not cleared or replaced backendPid_ yet.
Late == {"probe", "adopt", "adopting", "clear"}

\* The owner is inside gracefulStop.
Graceful == {"graceful", "reclaim", "giveUp", "commandPoll", "commandAlive", "term",
             "termPoll", "termAlive", "kill", "clear"}

\* The listen thread has a child from fork on, and an occupant is noted before the loop.
Launcher ==
    /\ lpc \in {"forked", "release", "wait"} => lpid \in Pids
    /\ occupied => lpc \in {"top", "occupied", "exited"}

\* A launch begins with no pid recorded and nobody about to record or clear one.
LaunchedUntracked ==
    ~evicting =>
        /\ lpc \in Open => backendPid = NoPid /\ mpc \notin Late
        /\ lpc = "forked" /\ proc[lpid] = "child" => backendPid = NoPid
        /\ lpc = "execFailed" => mpc \notin Late

\* The monitor thread has cleared backendPid_ late, and has nothing to watch since.
Dropped == backendPid = NoPid /\ mpc \in {"idle", "exited"}

\* The child is recorded, unless the monitor has dropped it; so is a zombie, unless a stop
\* has forgotten it.
Recorded ==
    ~evicting => \A p \in Pids :
        /\ proc[p] = "child" => backendPid = p \/ lpc = "forked" \/ Dropped
        /\ proc[p] = "zombie" => backendPid = p \/ lpc = "forked" \/ Dropped \/ stop

\* The child that the monitor thread reaped was the only one, and the pid it goes on to
\* clear keeps the listen thread from the next launch.
MonitorLate ==
    ~evicting /\ mpc \in Late =>
        /\ \A p \in Pids : proc[p] \notin {"child", "zombie"}
        /\ backendPid # NoPid \/ lpc = "forked" \/ stop
        /\ mpc \in {"adopt", "adopting"} => mpid \in Pids

\* gracefulStop runs after signalStop, on a backend that was recorded; it clears
\* backendPid_ when that names no running child.
Retired ==
    ~evicting =>
        /\ spc # "serving" => stop
        /\ spc \in Graceful =>
               lpc \notin Open /\ (lpc = "forked" => proc[lpid] # "child")
        /\ spc = "clear" => \A p \in Pids : proc[p] = "child" => backendPid # p

\* IInv with what the tracking of the child needs besides.
TrackInv ==
    /\ IInv
    /\ Launcher /\ LaunchedUntracked /\ Recorded /\ MonitorLate /\ Retired

\* Init establishes it.
LEMMA TrackInit == Init => TrackInv
  BY InvariantInit, ConstantsAssumption
  DEF Init, TrackInv, Launcher, LaunchedUntracked, Dropped, Recorded, MonitorLate, Retired, Open,
      Late, Graceful

\* What only ends children, or reaps them, disturbs nothing of the two threads' parts.
LEMMA FewerChildren ==
    ASSUME TrackInv,
           UNCHANGED <<backendPid, occupied, stop, lpc, lpid, mpc, mpid, evicting>>,
           \A p \in Pids : /\ proc'[p] = "child" => proc[p] = "child"
                           /\ proc'[p] = "zombie" => proc[p] \in {"child", "zombie"}
    PROVE  /\ Launcher' /\ LaunchedUntracked' /\ Recorded' /\ MonitorLate'
           /\ (lpc = "forked" => proc[lpid] # "child")
                  => (lpc = "forked" => proc'[lpid] # "child")
<1>1. lpc = "forked" => lpid \in Pids
  BY DEF TrackInv, Launcher
<1>2. Launcher' /\ LaunchedUntracked' /\ Recorded'
  BY <1>1 DEF TrackInv, Launcher, LaunchedUntracked, Dropped, Recorded
<1>3. MonitorLate'
  BY DEF TrackInv, MonitorLate
<1>4. QED
  BY <1>1, <1>2, <1>3

\* waitpid reaps.
LEMMA ReapingFewer ==
    ASSUME TypeOK,
           UNCHANGED proc \/ \E p \in Pids : proc[p] = "zombie" /\ Reap(p)
    PROVE  \A p \in Pids : /\ proc'[p] = "child" => proc[p] = "child"
                           /\ proc'[p] = "zombie" => proc[p] \in {"child", "zombie"}
  BY DEF TypeOK, Reap

\* A process of the host becomes no child, and a running child at most a zombie.
LEMMA TrackHost == TrackInv /\ Host => TrackInv'
<1> SUFFICES ASSUME TrackInv, Host PROVE TrackInv'
  OBVIOUS
<1>1. IInv'
  BY InvariantHost DEF TrackInv
<1>2. /\ UNCHANGED <<backendPid, occupied, giveUp, stop, lpc, lpid, mpc, mpid, spc, evicting>>
      /\ \A p \in Pids : /\ proc'[p] = "child" => proc[p] = "child"
                         /\ proc'[p] = "zombie" => proc[p] \in {"child", "zombie"}
  <2>1. UNCHANGED <<backendPid, occupied, giveUp, stop, lpc, lpid, mpc, mpid, spc, evicting>>
    BY DEF Host, flags, listener, monitor, owner
  <2> USE DEF TrackInv, IInv, TypeOK, Executing
  <2>2. CASE \E p \in Pids : Exit(p)
    BY <2>1, <2>2 DEF Exit
  <2>3. CASE \E p \in Pids : Bind(p)
    BY <2>1, <2>3 DEF Bind
  <2>4. CASE \E p \in Pids : Appear(p)
    BY <2>1, <2>4 DEF Appear
  <2>5. CASE \E p, q \in Pids : Daemonise(p, q)
    BY <2>1, <2>5 DEF Daemonise
  <2>6. QED
    BY <2>2, <2>3, <2>4, <2>5 DEF Host
<1>3. Launcher' /\ LaunchedUntracked' /\ Recorded' /\ MonitorLate' /\ Retired'
  BY <1>2, FewerChildren DEF TrackInv, Retired
<1>4. QED
  BY <1>1, <1>3 DEF TrackInv

\* A step of the listen thread: it launches only where nothing is recorded, and clears
\* backendPid_ only when it has reaped the child itself.
LEMMA TrackListen == TrackInv /\ Listen => TrackInv'
<1> SUFFICES ASSUME TrackInv, Listen PROVE TrackInv'
  OBVIOUS
<1>0. IInv'
  BY InvariantListen DEF TrackInv
<1> SUFFICES (Launcher /\ LaunchedUntracked /\ Recorded /\ MonitorLate /\ Retired)'
  BY <1>0 DEF TrackInv
<1> USE ConstantsAssumption
    DEF TrackInv, IInv, TypeOK, ChildAwaited, Launcher, LaunchedUntracked, Recorded,
        MonitorLate, Retired, Dropped, Open, Late, Graceful, flags, monitor, owner, listener,
        ListenGoto, Reap
<1>1. CASE ListenStopped
  BY <1>1 DEF ListenStopped
<1>2. CASE ListenTop
  BY <1>2 DEF ListenTop
<1>3. CASE ListenReleased
  BY <1>3 DEF ListenReleased
<1>4. CASE ListenBind
  BY <1>4 DEF ListenBind
<1>5. CASE ListenAdopt
  BY <1>5 DEF ListenAdopt
<1>6. CASE ListenWait
  BY <1>6 DEF ListenWait
<1>7. CASE ListenAccept
  BY <1>7 DEF ListenAccept
<1>8. CASE ListenInterrupted
  BY <1>8 DEF ListenInterrupted
<1>9. CASE ListenGate
  BY <1>9 DEF ListenGate
<1>10. CASE \E p \in Pids : ListenFork(p)
  BY <1>10 DEF ListenFork
<1>11. CASE ListenForkFailed
  BY <1>11 DEF ListenForkFailed
<1>12. CASE ListenForked
  BY <1>12 DEF ListenForked
<1>13. CASE ListenRelease
  BY <1>13 DEF ListenRelease
<1>14. CASE ListenReap
  BY <1>14 DEF ListenReap
<1>15. CASE ListenNoChild
  BY <1>15 DEF ListenNoChild
<1>16. CASE ListenExecFailed
  BY <1>16 DEF ListenExecFailed
<1>17. CASE ListenClose
  BY <1>17 DEF ListenClose
<1>18. CASE ListenDelay
  BY <1>18 DEF ListenDelay
<1>19. CASE ListenPortWait
  BY <1>19 DEF ListenPortWait
<1>20. QED
  BY <1>1, <1>2, <1>3, <1>4, <1>5, <1>6, <1>7, <1>8, <1>9, <1>10, <1>11, <1>12, <1>13,
     <1>14, <1>15, <1>16, <1>17, <1>18, <1>19 DEF Listen

\* A step of the monitor thread: what it clears or replaces is the pid of a child it has
\* reaped; or, after its poll, whatever backendPid_ names.
LEMMA TrackMonitor == TrackInv /\ Monitor => TrackInv'
<1> SUFFICES ASSUME TrackInv, Monitor PROVE TrackInv'
  OBVIOUS
<1>0. IInv'
  BY InvariantMonitor DEF TrackInv
<1> SUFFICES (Launcher /\ LaunchedUntracked /\ Recorded /\ MonitorLate /\ Retired)'
  BY <1>0 DEF TrackInv
<1> USE ConstantsAssumption
    DEF TrackInv, IInv, TypeOK, ChildAwaited, Launcher, LaunchedUntracked, Recorded,
        MonitorLate, Retired, Dropped, Open, Late, Graceful, flags, monitor, owner, listener,
        MonitorGoto, Reap
<1>1. CASE MonitorStopped
  BY <1>1 DEF MonitorStopped
<1>2. CASE MonitorSees
  BY <1>2 DEF MonitorSees
<1>3. CASE MonitorCall
  BY <1>3 DEF MonitorCall
<1>4. CASE \E p \in Pids : MonitorReap(p)
  BY <1>4 DEF MonitorReap, Zombies, Children
<1>5. CASE MonitorNoChild
  BY <1>5 DEF MonitorNoChild
<1>6. CASE MonitorPoll \/ MonitorPollPort \/ MonitorDrop
  BY <1>6 DEF MonitorPoll, MonitorPollPort, MonitorDrop
<1>7. CASE MonitorFound
  BY <1>7 DEF MonitorFound
<1>8. CASE MonitorAdopt \/ MonitorAdopted
  BY <1>8 DEF MonitorAdopt, MonitorAdopted
<1>9. CASE MonitorNotFound
  BY <1>9 DEF MonitorNotFound
<1>10. CASE MonitorClear
  BY <1>10 DEF MonitorClear
<1>11. QED
  BY <1>1, <1>2, <1>3, <1>4, <1>5, <1>6, <1>7, <1>8, <1>9, <1>10 DEF Monitor

\* A step of the owner: outside evict(), gracefulStop clears backendPid_ only after it
\* has killed the child or found none.
LEMMA TrackOwner == TrackInv /\ Owner => TrackInv'
<1> SUFFICES ASSUME TrackInv, Owner PROVE TrackInv'
  OBVIOUS
<1>0. IInv'
  BY InvariantOwner DEF TrackInv
<1> SUFFICES (Launcher /\ LaunchedUntracked /\ Recorded /\ MonitorLate /\ Retired)'
  BY <1>0 DEF TrackInv
<1> USE ConstantsAssumption
    DEF TrackInv, IInv, TypeOK, ChildAwaited, Launcher, LaunchedUntracked, Recorded,
        MonitorLate, Retired, Dropped, Open, Late, Graceful, flags, monitor, owner, listener,
        OwnerGoto, SignalStop, Return
<1>1. CASE OwnerRetire \/ OwnerStop
  BY <1>1 DEF OwnerRetire, OwnerStop
<1>2. CASE OwnerReclaim \/ OwnerPending
  BY <1>2 DEF OwnerReclaim, OwnerPending, IsBackendRunning
<1>3. CASE OwnerEvict
  BY <1>3 DEF OwnerEvict
<1>4. CASE GracefulCommand \/ GracefulReclaim \/ GracefulGiveUp
  BY <1>4 DEF GracefulCommand, GracefulReclaim, GracefulGiveUp
<1>5. CASE GracefulNothing \/ GracefulBegin \/ GracefulPoll \/ GracefulTerm
  BY <1>5 DEF GracefulNothing, GracefulBegin, GracefulPoll, GracefulTerm
<1>6. CASE GracefulGone
  <2>1. UNCHANGED proc \/ \E p \in Pids : proc[p] = "zombie" /\ Reap(p)
    BY <1>6, Reaping DEF GracefulGone
  <2>2. /\ UNCHANGED <<port, backendPid, occupied, giveUp, stop, lpc, lpid, mpc, mpid, evicting>>
        /\ spc \in {"commandAlive", "termAlive"} /\ spc' = "clear"
    BY <1>6 DEF GracefulGone
  <2>3. \A p \in Pids : proc[p] = "child" => backendPid # p
    <3> SUFFICES ASSUME NEW p \in Pids, proc[p] = "child", backendPid = p PROVE FALSE
      OBVIOUS
    <3>1. Children(backendPid) = {p} /\ Zombies(backendPid) = {}
      BY DEF Children, Zombies
    <3>2. QED
      BY <1>6, <3>1 DEF GracefulGone, IsNotChildAlive
  <2>4. QED
    BY <2>1, <2>2, <2>3, FewerChildren, ReapingFewer DEF TrackInv, IInv, Retired
<1>7. CASE GracefulAlive \/ GracefulTimeout
  BY <1>7 DEF GracefulAlive, GracefulTimeout, IsChildAlive
<1>8. CASE GracefulKill
  BY <1>8 DEF GracefulKill, Kill, Exit, Executing
<1>9. CASE GracefulClear
  BY <1>9 DEF GracefulClear
<1>10. CASE EvictSignal
  BY <1>10 DEF EvictSignal
<1>11. CASE OwnerRearm
  BY <1>11 DEF OwnerRearm
<1>12. CASE StopTest \/ StopJoin
  BY <1>12 DEF StopTest, StopJoin
<1>13. CASE StopAlive
  <2>1. UNCHANGED proc \/ \E p \in Pids : proc[p] = "zombie" /\ Reap(p)
    BY <1>13, Reaping DEF StopAlive
  <2>2. /\ UNCHANGED <<port, backendPid, occupied, giveUp, stop, lpc, lpid, mpc, mpid, evicting>>
        /\ spc = "stopAlive" /\ spc' \in {"stopKill", "stopJoin"}
    BY <1>13 DEF StopAlive
  <2>3. QED
    BY <2>1, <2>2, FewerChildren, ReapingFewer DEF TrackInv, IInv, Retired, Graceful
<1>14. CASE StopKill
  BY <1>14 DEF StopKill, Kill, Exit, Executing
<1>15. QED
  BY <1>1, <1>2, <1>3, <1>4, <1>5, <1>6, <1>7, <1>8, <1>9, <1>10, <1>11, <1>12, <1>13, <1>14
  DEF Owner, OwnerContinue

\* The tracking invariant holds in every reachable state.
THEOREM TrackInvariant == Spec => []TrackInv
<1>1. TrackInv /\ [Next]_vars => TrackInv'
  <2> SUFFICES ASSUME TrackInv, [Next]_vars PROVE TrackInv'
    OBVIOUS
  <2>1. CASE UNCHANGED vars
    BY <2>1 DEF vars, TrackInv, IInv, TypeOK, ChildAwaited, SocketOwned, Launcher,
       LaunchedUntracked, Dropped, Recorded, MonitorLate, Retired
  <2>2. QED
    BY <2>1, TrackHost, TrackListen, TrackMonitor, TrackOwner DEF Next
<1>2. QED
  BY <1>1, TrackInit, PTL DEF Spec

-----------------------------------------------------------------------------
(* What makes a running child drop out of backendPid_.                     *)

\* The listen thread does not: it records the child it forked, and clears what it reaped.
LEMMA ListenForgetsNothing ==
    ASSUME TrackInv, Listen, ~evicting, NEW p \in Pids, Untracked(p)'
    PROVE  Untracked(p)
<1> USE DEF TrackInv, IInv, TypeOK, ChildAwaited, Untracked, ListenGoto, Reap
<1>1. CASE \E q \in Pids : ListenFork(q)
  BY <1>1 DEF ListenFork
<1>2. CASE ListenForked
  BY <1>2 DEF ListenForked
<1>3. CASE ListenReap
  BY <1>3 DEF ListenReap
<1>4. CASE ListenExecFailed
  BY <1>4 DEF ListenExecFailed
<1>5. CASE \/ ListenStopped \/ ListenTop \/ ListenReleased \/ ListenBind \/ ListenAdopt
           \/ ListenWait \/ ListenAccept \/ ListenInterrupted \/ ListenGate
           \/ ListenForkFailed \/ ListenRelease \/ ListenNoChild \/ ListenClose
           \/ ListenDelay \/ ListenPortWait
  BY <1>5 DEF ListenStopped, ListenTop, ListenReleased, ListenBind, ListenAdopt, ListenWait,
     ListenAccept, ListenInterrupted, ListenGate, ListenForkFailed, ListenRelease,
     ListenNoChild, ListenClose, ListenDelay, ListenPortWait
<1> QED
  BY <1>1, <1>2, <1>3, <1>4, <1>5 DEF Listen

\* The monitor thread does not either when it has reaped the child.
LEMMA MonitorForgetsByDrop ==
    ASSUME TrackInv, Monitor, ~MonitorDrop, ~evicting, NEW p \in Pids, Untracked(p)'
    PROVE  Untracked(p)
<1> USE DEF TrackInv, IInv, TypeOK, MonitorLate, Late, Untracked, MonitorGoto, listener
<1>1. CASE \E q \in Pids : MonitorReap(q)
  BY <1>1 DEF MonitorReap, Reap
<1>2. CASE MonitorAdopted \/ MonitorClear
  BY <1>2 DEF MonitorAdopted, MonitorClear
<1>3. CASE \/ MonitorStopped \/ MonitorSees \/ MonitorCall \/ MonitorNoChild \/ MonitorPoll
           \/ MonitorPollPort \/ MonitorFound \/ MonitorAdopt \/ MonitorNotFound
  BY <1>3 DEF MonitorStopped, MonitorSees, MonitorCall, MonitorNoChild, MonitorPoll,
     MonitorPollPort, MonitorFound, MonitorAdopt, MonitorNotFound
<1> QED
  BY <1>1, <1>2, <1>3 DEF Monitor

\* Nor does gracefulStop, which clears what no longer names a running child, or stop().
LEMMA OwnerForgetsNothing ==
    ASSUME TrackInv, Owner, ~evicting, NEW p \in Pids, Untracked(p)'
    PROVE  Untracked(p)
<1> USE DEF TrackInv, IInv, TypeOK, Untracked, OwnerGoto, listener
<1>1. CASE GracefulClear
  BY <1>1 DEF GracefulClear, Retired
<1>2. CASE GracefulKill \/ StopKill
  <2>1. UNCHANGED <<proc, port>> \/ \E q \in Pids : Exit(q)
    BY <1>2, Killing DEF GracefulKill, StopKill
  <2> QED
    BY <1>2, <2>1 DEF GracefulKill, StopKill, Exit
<1>3. CASE GracefulGone \/ GracefulAlive \/ GracefulTimeout \/ StopAlive
  <2>1. UNCHANGED proc \/ \E q \in Pids : proc[q] = "zombie" /\ Reap(q)
    BY <1>3, Reaping DEF GracefulGone, GracefulAlive, GracefulTimeout, StopAlive
  <2>2. UNCHANGED <<backendPid, lpc>>
    BY <1>3 DEF GracefulGone, GracefulAlive, GracefulTimeout, StopAlive
  <2> QED
    BY <2>1, <2>2 DEF Reap
<1>4. CASE OwnerRearm
  BY <1>4 DEF OwnerRearm, ChildAwaited
<1>5. CASE UNCHANGED <<proc, backendPid, lpc>>
  BY <1>5
<1> QED
  BY <1>1, <1>2, <1>3, <1>4, <1>5
     DEF Owner, OwnerContinue, OwnerRetire, OwnerReclaim, OwnerEvict, OwnerStop, OwnerPending,
         GracefulCommand, GracefulReclaim, GracefulGiveUp, GracefulNothing, GracefulBegin,
         GracefulPoll, GracefulTerm, EvictSignal, StopTest, StopJoin

\* A process of the host becomes no child and touches no variable of the relay's.
LEMMA HostForgetsNothing ==
    ASSUME TrackInv, Host, NEW p \in Pids, Untracked(p)'
    PROVE  Untracked(p)
<1> USE DEF TrackInv, IInv, TypeOK, Untracked, listener
<1>1. CASE \E q \in Pids : Exit(q) \/ Bind(q) \/ Appear(q)
  BY <1>1 DEF Host, Exit, Bind, Appear
<1>2. CASE \E q, r \in Pids : Daemonise(q, r)
  BY <1>2 DEF Host, Daemonise
<1> QED
  BY <1>1, <1>2 DEF Host

\* Whoever clears or replaces backendPid_, with or without auto_restart and however many
\* processes there are: a running child drops out of it only in an eviction, or by the
\* store of a monitor thread that had found another process gone.
THEOREM ForgottenByDrop == Spec => ForgottenOnlyLate
<1> DEFINE Forgets == \A p \in Pids : Untracked(p)' /\ ~Untracked(p) => MonitorDrop \/ evicting
<1>1. TrackInv /\ [Next]_vars => [Forgets]_vars
  <2> SUFFICES ASSUME TrackInv, Next, NEW p \in Pids, Untracked(p)', ~Untracked(p),
                      ~MonitorDrop, ~evicting
               PROVE  FALSE
    OBVIOUS
  <2> QED
    BY HostForgetsNothing, ListenForgetsNothing, MonitorForgetsByDrop, OwnerForgetsNothing
       DEF Next
<1> QED
  BY <1>1, TrackInvariant, PTL DEF Spec, ForgottenOnlyLate
=============================================================================
