------------------------------ MODULE PortGroup ------------------------------
(***************************************************************************)
(* A group of relays in simple mode (port_group.cpp): the first connection *)
(* to any of them launches the backends of all and closes every listening  *)
(* socket. The group's mutex_, launched_ and relays_ are used by           *)
(*                                                                         *)
(*   - the listen thread of each relay, in onConnection;                   *)
(*   - monitorLoop's idle pass, in resetLaunch, with g_relaysMutex held;   *)
(*   - main, in PortGroup::stop, which joins the threads of every relay.   *)
(*                                                                         *)
(* The pending pass and evictions take a relay out of service and re-arm   *)
(* it, also while PortGroup::stop is at work on it: neither side knows of  *)
(* the other.                                                              *)
(*                                                                         *)
(* A listening socket closed while a thread is blocked in accept() on it   *)
(* stays open in the kernel until that accept() returns; shutdown() wakes  *)
(* the thread, but needs the descriptor. What Relay shows of one relay     *)
(* (pid 0, daemons, occupants) is left out; relays have auto_restart.      *)
(***************************************************************************)
EXTENDS FiniteSets, Integers

CONSTANTS
    Relays,       \* relays_
    Nobody, Main, \* a free mutex, and the main thread as its holder
    MaxLaunches   \* bound on the launches of a relay's backend

ASSUME GroupAssumption ==
    /\ IsFiniteSet(Relays) /\ Nobody \notin Relays /\ Main \notin Relays /\ Main # Nobody
    /\ MaxLaunches \in Nat \ {0}

VARIABLES
    launched,     \* launched_ (running_ always equals it)
    mutex,        \* who holds mtx_
    todo,         \* the relays its holder has not come to yet
    proc,         \* state of every backend process, by relay and launch
    pid,          \* backendPid_, as a launch, or 0
    sock,         \* the listening socket: listenFd_ is open iff it is "open"
    stop,         \* stop_ of the relay
    lpc,          \* listen thread
    mpc, mpid,    \* monitor thread, and the pid it waits for
    opc,          \* who retires or evicts the relay
    idling,       \* the relay for which the idle pass waits for mtx_
    joining, jpc, \* main: the relay whose threads it joins, and which of them
    main,         \* main: before, in and after PortGroup::stop
    fresh,        \* the launch that onConnection has forked and not recorded yet
    period,       \* history: the relays launched since launched_ was last cleared
    gpid,         \* history: the launch that gracefulStop saw gone, or killed
    raced         \* history: relays out of service at some time since stop began

vars == <<launched, mutex, todo, proc, pid, sock, stop, lpc, mpc, mpid, opc, idling,
          joining, jpc, main, fresh, period, gpid, raced>>

group  == <<launched, mutex, todo, fresh, period>>
mains  == <<joining, jpc, main>>
owners == <<opc, idling, gpid, raced, mains>>

Launches == 1..MaxLaunches
Unborn(r) == {g \in Launches : proc[r][g] = "unborn"}
Child(r, g) == g # 0 /\ proc[r][g] = "child"

\* A running backend may have bound the port or not: the port may be found bound, or free,
\* or both may happen. A socket that only a blocked accept() refers to is "orphaned".
Held(r) == sock[r] \in {"open", "orphaned"}
PortBound(r) == Held(r) \/ \E g \in Launches : Child(r, g)
PortFree(r) == ~Held(r)

Init ==
    /\ launched = FALSE /\ mutex = Nobody /\ todo = {}
    /\ proc = [r \in Relays |-> [g \in Launches |-> "unborn"]]
    /\ pid = [r \in Relays |-> 0]
    /\ sock = [r \in Relays |-> "closed"] /\ stop = [r \in Relays |-> FALSE]
    /\ lpc = [r \in Relays |-> "top"]
    /\ mpc = [r \in Relays |-> "idle"] /\ mpid = [r \in Relays |-> 0]
    /\ opc = [r \in Relays |-> "serving"]
    /\ idling = Nobody /\ joining = Nobody /\ jpc = "listen" /\ main = "running"
    /\ fresh = {} /\ period = {} /\ raced = {}
    /\ gpid = [r \in Relays |-> 0]

-----------------------------------------------------------------------------
(* Backends                                                                *)

\* A backend exits, or is killed.
Dies(r, g) == proc' = [proc EXCEPT ![r][g] = "zombie"]

Exit(r, g) ==
    /\ Child(r, g)
    /\ Dies(r, g)
    /\ UNCHANGED <<group, pid, sock, stop, lpc, mpc, mpid, owners>>

\* isChildAlive of a backend that is not: it is reaped, if nobody has yet.
Reaped(r, g) == proc' = [proc EXCEPT ![r][g] = "gone"]

-----------------------------------------------------------------------------
(* Faulty variants of definitions, each as a plausible bug would have it;  *)
(* the behaviour of the specification does not use them. With one of them  *)
(* in the place of its original, the property named after it fails.        *)

\* The test of realPid > 0 is missing. TypeOK
MonitorFoundAny(r) ==
    /\ mpc[r] = "probe"
    /\ mpid' = [mpid EXCEPT ![r] = -1]
    /\ mpc' = [mpc EXCEPT ![r] = "adopt"]
    /\ UNCHANGED <<group, proc, pid, sock, stop, lpc, owners>>

\* launched_ is never set. OneLaunchPerPeriod
GroupEnterUnset(r) ==
    /\ lpc[r] = "notify" /\ mutex = Nobody /\ ~launched
    /\ mutex' = r /\ todo' = Relays
    /\ lpc' = [lpc EXCEPT ![r] = "group"]
    /\ UNCHANGED <<launched, fresh, period, proc, pid, sock, stop, mpc, mpid, owners>>

\* The socket is closed without shutdown(). DeafenedByGroup
SignalStopSilent(r) ==
    /\ stop' = [stop EXCEPT ![r] = TRUE]
    /\ sock' = [sock EXCEPT ![r] = IF @ # "open" THEN @
                                  ELSE IF lpc[r] = "accepting" THEN "orphaned" ELSE "closed"]

\* A backend that survives SIGTERM is forgotten, not killed. ForgottenOnlyLate
GracefulEndForgets(r) ==
    /\ opc[r] \in {"pending", "evicting"} /\ pid[r] # 0
    /\ gpid' = [gpid EXCEPT ![r] = pid[r]]
    /\ opc' = [opc EXCEPT ![r] = IF @ = "pending" THEN "pendingClear" ELSE "evictClear"]
    /\ UNCHANGED <<group, proc, pid, sock, stop, lpc, mpc, mpid, idling, raced, mains>>

\* The monitor thread is not joined. StoppedClean
StopJoinedHalf(r) ==
    /\ joining = r /\ jpc = "monitor"
    /\ joining' = Nobody /\ jpc' = "listen"
    /\ todo' = todo \ {r}
    /\ UNCHANGED <<launched, mutex, fresh, period, proc, pid, sock, stop, lpc, mpc, mpid, opc,
                   idling, gpid, raced, main>>

-----------------------------------------------------------------------------
(* listenLoop                                                              *)

ListenGoto(r, label) ==
    /\ lpc' = [lpc EXCEPT ![r] = label]
    /\ UNCHANGED <<group, proc, pid, sock, stop, mpc, mpid, owners>>

ListenStopped(r) ==
    /\ lpc[r] = "top" /\ stop[r]
    /\ ListenGoto(r, "exited")

\* The thread leaves the accept loop and closes the socket, unless another thread has.
LeavesLoop(r) ==
    /\ sock' = [sock EXCEPT ![r] = "closed"]
    /\ lpc' = [lpc EXCEPT ![r] = "top"]

\* The test of backendPid_ and the bind are two steps: the group may launch in between.
ListenTop(r) ==
    /\ lpc[r] = "top" /\ ~stop[r] /\ pid[r] = 0
    /\ ListenGoto(r, "bind")

ListenBind(r) ==
    /\ lpc[r] = "bind" /\ PortFree(r)
    /\ sock' = [sock EXCEPT ![r] = "open"]
    /\ lpc' = [lpc EXCEPT ![r] = "accept"]
    /\ UNCHANGED <<group, proc, pid, stop, mpc, mpid, owners>>

ListenBindFails(r) ==
    /\ lpc[r] = "bind" /\ PortBound(r)
    /\ ListenGoto(r, "top")

\* The accept loop. accept() of a descriptor that the group has closed fails with EBADF,
\* which does not end the loop: the thread spins here until stop_.
ListenAccept(r) ==
    /\ lpc[r] = "accept" /\ ~stop[r] /\ sock[r] = "open"
    /\ ListenGoto(r, "accepting")

\* stop_ is set, or accept() returns because the socket was shut down.
ListenInterrupted(r) ==
    /\ \/ lpc[r] = "accept" /\ stop[r]
       \/ lpc[r] = "accepting" /\ sock[r] = "shut"
    /\ LeavesLoop(r)
    /\ UNCHANGED <<group, proc, pid, stop, mpc, mpid, owners>>

\* A connection: a request to change the refresh time (a connection refused for lack of
\* memory ends in the same place), or one that concerns the group.
ListenConnected(r) ==
    /\ lpc[r] = "accepting" /\ sock[r] # "shut"
    /\ lpc' \in {[lpc EXCEPT ![r] = label] : label \in {"refresh", "notify"}}
    /\ sock' = [sock EXCEPT ![r] = IF @ = "orphaned" THEN "closed" ELSE @]
    /\ UNCHANGED <<group, proc, pid, stop, mpc, mpid, owners>>

\* persistRefreshSeconds takes g_relaysMutex.
ListenRefresh(r) ==
    /\ lpc[r] = "refresh" /\ idling = Nobody
    /\ ListenGoto(r, "accept")

\* onConnection: only the first to find launched_ unset goes on.
GroupEnter(r) ==
    /\ lpc[r] = "notify" /\ mutex = Nobody /\ ~launched
    /\ launched' = TRUE
    /\ mutex' = r /\ todo' = Relays
    /\ lpc' = [lpc EXCEPT ![r] = "group"]
    /\ UNCHANGED <<fresh, period, proc, pid, sock, stop, mpc, mpid, owners>>

GroupSkip(r) ==
    /\ lpc[r] = "notify" /\ mutex = Nobody /\ launched
    /\ LeavesLoop(r)
    /\ UNCHANGED <<group, proc, pid, stop, mpc, mpid, owners>>

\* Its socket is closed without shutdown(): an accept() that is blocked on it stays so.
Close(s) ==
    sock' = [sock EXCEPT ![s] = IF @ # "open" THEN @
                                ELSE IF lpc[s] = "accepting" THEN "orphaned" ELSE "closed"]

\* Launch the backend of s unless backendPid_ is set...
GroupFork(r, s) ==
    /\ lpc[r] = "group" /\ fresh = {} /\ s \in todo
    /\ pid[s] = 0
    /\ \E g \in Unborn(s) :
         /\ \A h \in Unborn(s) : g <= h
         /\ proc' = [proc EXCEPT ![s][g] = "child"]
         /\ fresh' = {<<s, g>>}
    /\ period' = period \cup {s}
    /\ UNCHANGED <<launched, mutex, todo, pid, sock, stop, lpc, mpc, mpid, owners>>

\* ...record it, whatever backendPid_ is by now, and close the socket...
GroupRecord(r, s) ==
    /\ lpc[r] = "group" /\ s \in todo
    /\ \E g \in Launches :
         /\ <<s, g>> \in fresh
         /\ pid' = [pid EXCEPT ![s] = g]
    /\ fresh' = {}
    /\ Close(s)
    /\ todo' = todo \ {s}
    /\ UNCHANGED <<launched, mutex, period, proc, stop, lpc, mpc, mpid, owners>>

\* ...which is closed also if there is a backend, or fork fails.
GroupPass(r, s) ==
    /\ lpc[r] = "group" /\ fresh = {} /\ s \in todo
    /\ Close(s)
    /\ todo' = todo \ {s}
    /\ UNCHANGED <<launched, mutex, fresh, period, proc, pid, stop, lpc, mpc, mpid, owners>>

GroupLeave(r) ==
    /\ lpc[r] = "group" /\ todo = {}
    /\ mutex' = Nobody
    /\ LeavesLoop(r)
    /\ UNCHANGED <<launched, todo, fresh, period, proc, pid, stop, mpc, mpid, owners>>

Listen(r) ==
    \/ ListenStopped(r) \/ ListenTop(r) \/ ListenBind(r) \/ ListenBindFails(r)
    \/ ListenAccept(r) \/ ListenInterrupted(r) \/ ListenRefresh(r) \/ GroupEnter(r) \/ GroupSkip(r)
    \/ \E s \in Relays : GroupFork(r, s) \/ GroupRecord(r, s) \/ GroupPass(r, s)
    \/ GroupLeave(r)

-----------------------------------------------------------------------------
(* monitorBackend                                                          *)

MonitorGoto(r, label) ==
    /\ mpc' = [mpc EXCEPT ![r] = label]
    /\ UNCHANGED <<group, sock, stop, lpc, owners>>

MonitorStopped(r) ==
    /\ mpc[r] \in {"idle", "poll"} /\ stop[r]
    /\ MonitorGoto(r, "exited")
    /\ mpid' = [mpid EXCEPT ![r] = 0]
    /\ UNCHANGED <<proc, pid>>

MonitorSees(r) ==
    /\ mpc[r] = "idle" /\ ~stop[r] /\ pid[r] # 0
    /\ MonitorGoto(r, "wait")
    /\ mpid' = [mpid EXCEPT ![r] = pid[r]]
    /\ UNCHANGED <<proc, pid>>

\* waitChild returns the child...
MonitorReap(r) ==
    /\ mpc[r] = "wait" /\ proc[r][mpid[r]] = "zombie"
    /\ MonitorGoto(r, "probe")
    /\ proc' = [proc EXCEPT ![r][mpid[r]] = "gone"]
    /\ UNCHANGED <<pid, mpid>>

\* ...or fails, because isChildAlive has reaped it elsewhere. The poll that follows waits
\* for the process in backendPid_ to be gone and the port free; pid 0 passes for a process
\* that runs, and so does a zombie.
MonitorNoChild(r) ==
    /\ mpc[r] = "wait" /\ proc[r][mpid[r]] = "gone"
    /\ MonitorGoto(r, "poll")
    /\ UNCHANGED <<proc, pid, mpid>>

MonitorPolled(r) ==
    /\ mpc[r] = "poll" /\ ~stop[r]
    /\ pid[r] # 0 /\ proc[r][pid[r]] = "gone" /\ PortFree(r)
    /\ MonitorGoto(r, "clear")
    /\ UNCHANGED <<proc, pid, mpid>>

\* Within the window after the child's exit another process of the relay is found on the
\* port and taken for its daemon...
MonitorFound(r) ==
    /\ mpc[r] = "probe"
    /\ \E g \in Launches \ {pid[r]} :
         /\ Child(r, g)
         /\ mpid' = [mpid EXCEPT ![r] = g]
    /\ MonitorGoto(r, "adopt")
    /\ UNCHANGED <<proc, pid>>

MonitorAdopt(r) ==
    /\ mpc[r] = "adopt"
    /\ pid' = [pid EXCEPT ![r] = mpid[r]]
    /\ mpid' = [mpid EXCEPT ![r] = 0]
    /\ MonitorGoto(r, "idle")
    /\ UNCHANGED proc

\* ...or the window ends without one.
MonitorNotFound(r) ==
    /\ mpc[r] = "probe"
    /\ MonitorGoto(r, "clear")
    /\ UNCHANGED <<proc, pid, mpid>>

\* backendPid_ is cleared, whatever it is by now.
MonitorClear(r) ==
    /\ mpc[r] = "clear"
    /\ pid' = [pid EXCEPT ![r] = 0] /\ mpid' = [mpid EXCEPT ![r] = 0]
    /\ MonitorGoto(r, IF stop[r] THEN "exited" ELSE "idle")
    /\ UNCHANGED proc

Monitor(r) ==
    \/ MonitorStopped(r) \/ MonitorSees(r) \/ MonitorReap(r) \/ MonitorNoChild(r)
    \/ MonitorPolled(r) \/ MonitorFound(r) \/ MonitorAdopt(r) \/ MonitorNotFound(r)
    \/ MonitorClear(r)

-----------------------------------------------------------------------------
(* The idle pass, the pending pass and the eviction                        *)

\* signalStop, and the first lines of stop: only an open descriptor is shut down.
SignalStop(r) ==
    /\ stop' = [stop EXCEPT ![r] = TRUE]
    /\ sock' = [sock EXCEPT ![r] = IF @ # "open" THEN @
                                  ELSE IF lpc[r] = "accepting" THEN "shut" ELSE "closed"]

\* Bound: one relay at a time is out of service.
AllServing == \A r \in Relays : opc[r] = "serving"

\* Once stop has begun, a relay that is taken out of service is noted as such.
Races(r) == raced' = IF main = "running" THEN raced ELSE raced \cup {r}

\* The idle pass has found the relay idle and holds g_relaysMutex...
IdleFind(r) ==
    /\ AllServing /\ idling = Nobody
    /\ pid[r] # 0
    /\ idling' = r
    /\ UNCHANGED <<group, proc, pid, sock, stop, lpc, mpc, mpid, opc, gpid, raced, mains>>

\* ...resetLaunch takes mtx_; setPendingRemoval.
IdleRetire(r) ==
    /\ idling = r /\ mutex = Nobody
    /\ launched' = FALSE /\ period' = {}
    /\ SignalStop(r)
    /\ opc' = [opc EXCEPT ![r] = "pending"]
    /\ Races(r)
    /\ idling' = Nobody
    /\ UNCHANGED <<lpc, mutex, todo, fresh, proc, pid, mpc, mpid, gpid, mains>>

Evict(r) ==
    /\ AllServing /\ idling = Nobody
    /\ pid[r] # 0
    /\ opc' = [opc EXCEPT ![r] = "evicting"]
    /\ Races(r)
    /\ UNCHANGED <<group, proc, pid, sock, stop, lpc, mpc, mpid, idling, gpid, mains>>

OwnerGoto(r, label) ==
    /\ opc' = [opc EXCEPT ![r] = label]
    /\ UNCHANGED <<group, proc, lpc, mpc, mpid, idling, raced, mains>>

\* gracefulStop: the backend is gone and reaped here, or is killed after its time...
GracefulEnd(r) ==
    /\ opc[r] \in {"pending", "evicting"} /\ pid[r] # 0
    /\ IF Child(r, pid[r]) THEN Dies(r, pid[r]) ELSE Reaped(r, pid[r])
    /\ gpid' = [gpid EXCEPT ![r] = pid[r]]
    /\ opc' = [opc EXCEPT ![r] = IF @ = "pending" THEN "pendingClear" ELSE "evictClear"]
    /\ UNCHANGED <<group, pid, sock, stop, lpc, mpc, mpid, idling, raced, mains>>

\* ...and backendPid_ is cleared, whatever it is by now. (Relay has the polls.)
GracefulClear(r) ==
    /\ opc[r] \in {"pendingClear", "evictClear"}
    /\ pid' = [pid EXCEPT ![r] = 0]
    /\ gpid' = [gpid EXCEPT ![r] = 0]
    /\ OwnerGoto(r, IF opc[r] = "pendingClear" THEN "pending" ELSE "signal")
    /\ UNCHANGED <<sock, stop>>

\* gracefulStop of an eviction finds no backend any more.
GracefulNothing(r) ==
    /\ opc[r] = "evicting" /\ pid[r] = 0
    /\ OwnerGoto(r, "signal")
    /\ UNCHANGED <<pid, sock, stop, gpid>>

\* When gracefulStop has returned evict() signals the threads, whoever may have launched
\* another backend meanwhile; the pending pass re-arms when it finds no backend.
EvictSignal(r) ==
    /\ opc[r] = "signal"
    /\ SignalStop(r)
    /\ OwnerGoto(r, "joinListen")
    /\ UNCHANGED <<pid, gpid>>

PendingDone(r) ==
    /\ opc[r] = "pending" /\ pid[r] = 0
    /\ OwnerGoto(r, "joinListen")
    /\ UNCHANGED <<pid, sock, stop, gpid>>

\* resetForIdle joins both threads. Of two threads that join the same one, the second to
\* come returns at once (EINVAL, which joinThread ignores): which one that is stays open.
JoinListen(r) ==
    /\ opc[r] = "joinListen"
    /\ lpc[r] = "exited" \/ (joining = r /\ jpc = "listen")
    /\ OwnerGoto(r, "joinMonitor")
    /\ UNCHANGED <<pid, sock, stop, gpid>>

JoinMonitor(r) ==
    /\ opc[r] = "joinMonitor"
    /\ mpc[r] = "exited" \/ (joining = r /\ jpc = "monitor")
    /\ OwnerGoto(r, "rearm")
    /\ UNCHANGED <<pid, sock, stop, gpid>>

\* A stop that is about to join, or joins, a thread of r when r is re-armed: it may come to
\* wait for the new thread, or have waited for the old one.
StopOvertaken(r) ==
    \/ UNCHANGED <<joining, jpc, todo>>
    \/ joining = r /\ jpc = "listen" /\ jpc' = "monitor" /\ UNCHANGED <<joining, todo>>
    \/ joining = r /\ joining' = Nobody /\ todo' = todo \ {r} /\ jpc' = "listen"

\* Then it clears stop_, which PortRelay::stop may have set, and starts both threads again.
Rearm(r) ==
    /\ opc[r] = "rearm" /\ lpc[r] = "exited" /\ mpc[r] = "exited"
    /\ stop' = [stop EXCEPT ![r] = FALSE]
    /\ lpc' = [lpc EXCEPT ![r] = "top"] /\ mpc' = [mpc EXCEPT ![r] = "idle"]
    /\ mpid' = [mpid EXCEPT ![r] = 0]
    /\ opc' = [opc EXCEPT ![r] = "serving"]
    /\ StopOvertaken(r)
    /\ UNCHANGED <<launched, mutex, fresh, period, proc, pid, sock, idling, gpid, raced, main>>

\* After a join that returned at once it does so next to a thread that still runs. A relay
\* with two listen threads is not followed further: the model ends here.
RearmDoubled(r) ==
    /\ opc[r] = "rearm" /\ ~(lpc[r] = "exited" /\ mpc[r] = "exited")
    /\ OwnerGoto(r, "doubled")
    /\ UNCHANGED <<pid, sock, stop, gpid>>

Owner(r) ==
    \/ GracefulEnd(r) \/ GracefulClear(r) \/ GracefulNothing(r) \/ EvictSignal(r)
    \/ PendingDone(r) \/ JoinListen(r) \/ JoinMonitor(r) \/ Rearm(r) \/ RearmDoubled(r)

-----------------------------------------------------------------------------
(* PortGroup::stop                                                         *)

StopBegin ==
    /\ main = "running" /\ mutex = Nobody
    /\ main' = "stopping"
    /\ mutex' = Main /\ todo' = Relays
    /\ raced' = {r \in Relays : opc[r] # "serving"}
    /\ UNCHANGED <<launched, fresh, period, proc, pid, sock, stop, lpc, mpc, mpid, opc, idling,
                   gpid, joining, jpc>>

\* PortRelay::stop up to the joins. (Relay has its reads of backendPid_ apart.)
StopRelay(r) ==
    /\ main = "stopping" /\ joining = Nobody /\ r \in todo
    /\ SignalStop(r)
    /\ IF pid[r] = 0 THEN UNCHANGED proc
       ELSE IF Child(r, pid[r]) THEN Dies(r, pid[r]) ELSE Reaped(r, pid[r])
    /\ joining' = r /\ jpc' = "listen"
    /\ UNCHANGED <<group, lpc, pid, mpc, mpid, opc, idling, gpid, raced, main>>

StopJoinListen(r) ==
    /\ joining = r /\ jpc = "listen"
    /\ lpc[r] = "exited" \/ opc[r] = "joinListen"
    /\ jpc' = "monitor"
    /\ UNCHANGED <<group, proc, pid, sock, stop, lpc, mpc, mpid, opc, idling, gpid, raced,
                   joining, main>>

StopJoined(r) ==
    /\ joining = r /\ jpc = "monitor"
    /\ mpc[r] = "exited" \/ opc[r] = "joinMonitor"
    /\ joining' = Nobody /\ jpc' = "listen"
    /\ todo' = todo \ {r}
    /\ UNCHANGED <<launched, mutex, fresh, period, proc, pid, sock, stop, lpc, mpc, mpid, opc,
                   idling, gpid, raced, main>>

StopEnd ==
    /\ main = "stopping" /\ todo = {}
    /\ main' = "stopped"
    /\ mutex' = Nobody /\ launched' = FALSE /\ period' = {}
    /\ UNCHANGED <<todo, fresh, proc, pid, sock, stop, lpc, mpc, mpid, opc, idling, gpid, raced,
                   joining, jpc>>

Stop == StopEnd \/ \E r \in Relays : StopRelay(r) \/ StopJoinListen(r) \/ StopJoined(r)

-----------------------------------------------------------------------------
\* No relay has got its threads twice.
Followed == \A r \in Relays : opc[r] # "doubled"

Next ==
    /\ Followed
    /\ \/ \E r \in Relays :
            \/ Listen(r) \/ ListenConnected(r)
            \/ Monitor(r)
            \/ Owner(r) \/ Evict(r) \/ IdleFind(r) \/ IdleRetire(r)
            \/ \E g \in Launches : Exit(r, g)
       \/ StopBegin \/ Stop

Spec == Init /\ [][Next]_vars

-----------------------------------------------------------------------------
\* Types, and whose step a label belongs to.
TypeOK ==
    /\ {launched} \cup {stop[r] : r \in Relays} \subseteq BOOLEAN
    /\ mutex \in Relays \cup {Nobody, Main}
    /\ todo \subseteq Relays /\ period \subseteq Relays /\ raced \subseteq Relays
    /\ fresh \subseteq Relays \X Launches
    /\ proc \in [Relays -> [Launches -> {"unborn", "child", "zombie", "gone"}]]
    /\ {pid, mpid, gpid} \subseteq [Relays -> Launches \cup {0}]
    /\ sock \in [Relays -> {"closed", "open", "orphaned", "shut"}]
    /\ lpc \in [Relays -> {"top", "bind", "accept", "accepting", "refresh", "notify", "group",
                           "exited"}]
    /\ mpc \in [Relays -> {"idle", "wait", "probe", "poll", "adopt", "clear", "exited"}]
    /\ opc \in [Relays -> {"serving", "pending", "evicting", "pendingClear", "evictClear",
                           "signal", "joinListen", "joinMonitor", "rearm", "doubled"}]
    /\ {idling, joining} \subseteq Relays \cup {Nobody} /\ jpc \in {"listen", "monitor"}
    /\ main \in {"running", "stopping", "stopped"}

\* Between two clearings of launched_, by the idle pass or stop, a group launches the backend
\* of each relay at most once: no interleaving of the listen threads gets past the test of
\* launched_ twice (port_group.cpp:22).
OneLaunchPerPeriod ==
    [][\A r \in Relays : Unborn(r)' # Unborn(r) => r \notin period]_vars

\* A running backend that is not the one in backendPid_, nor about to be, is not stopped when
\* idle, not evicted and not killed by stop. Backends get lost in three ways only, each a
\* store into backendPid_ that comes too late: a monitor thread that waited for an earlier
\* backend ends its window (relay.cpp:716, 728) or its poll (693), a gracefulStop that saw
\* an earlier one gone clears it (1505, 1519, 1528), and onConnection records its launch over
\* a process that the monitor thread has taken up since the test (port_group.cpp:31).
Tracked(r, g) == pid[r] = g \/ <<r, g>> \in fresh
ForgottenOnlyLate ==
    [][\A r \in Relays : \A g \in Launches :
          Child(r, g)' /\ ~Tracked(r, g)' /\ ~(Child(r, g) /\ ~Tracked(r, g)) =>
              \/ (MonitorAdopt(r) \/ MonitorClear(r)) /\ mpid[r] # g
              \/ GracefulClear(r) /\ gpid[r] # g
              \/ \E s \in Relays : GroupRecord(s, r)]_vars

\* After PortGroup::stop no thread of the group runs and no port is held, whatever the listen
\* and monitor threads were in when it came to them, unless a pass or an eviction had the
\* relay out of service at the time.
StoppedClean ==
    main = "stopped" =>
        \A r \in Relays \ raced : ~Held(r) /\ lpc[r] = "exited" /\ mpc[r] = "exited"

\* In the accept loop without a listening socket: accept() fails at once for ever, or is
\* blocked on the orphaned socket, which keeps the port from the backend and from stop.
Deaf(r) ==
    /\ lpc[r] \in {"accept", "accepting", "refresh"} /\ sock[r] # "open"
    /\ ~stop[r] \/ sock[r] = "orphaned"

\* Only onConnection, which closes the sockets of other relays behind their threads' back
\* (port_group.cpp:38), leaves a listen thread so; stop, signalStop, the idle pass and an
\* eviction wake it.
DeafenedByGroup == [][\A r \in Relays : Deaf(r)' /\ ~Deaf(r) => mutex \in Relays]_vars

\* auto_restart: whether the backend is started again on the next access after it has exited
\* (CONFIG.md:38, 615). A connection that starts none finds one in backendPid_.
AccessRestarts ==
    [][\A r \in Relays :
          GroupSkip(r) => pid[r] # 0 \/ \A g \in Launches : proc[r][g] = "unborn"]_vars
=============================================================================
