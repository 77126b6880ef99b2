-------------------------------- MODULE Relay --------------------------------
(***************************************************************************)
(* One PortRelay in simple mode, outside a group, and its backend:         *)
(*                                                                         *)
(*   - its listen thread, listenLoop with launchAndRelease;                *)
(*   - its monitor thread, monitorBackend;                                 *)
(*   - whoever owns the relay from outside and stops, reclaims, evicts or  *)
(*     re-arms it, one call at a time (which thread that is, RelayRegistry *)
(*     says);                                                              *)
(*   - the processes of the host and the port they compete for.            *)
(*                                                                         *)
(* The three threads share backendPid_ and a few flags without a lock, so  *)
(* every read of backendPid_, and every store, is a step of its own: what  *)
(* a thread stores may be based on a value that another has replaced.      *)
(* 0 is a pid to the system calls: waitpid(0) waits for any child, kill(0) *)
(* signals the caller's own process group. Times are left out.             *)
(***************************************************************************)
EXTENDS FiniteSets, Naturals

CONSTANTS
    Pids,         \* processes; bounds how many there ever are. A pid is not reused
    NoPid,        \* pid 0
    Free,         \* nobody is bound to the port
    Self,         \* gatekeeper's listening socket is
    AutoRestart,  \* auto_restart
    StopCommand,  \* whether stop_command is configured
    Evictions,    \* whether the system monitor may evict the relay
    Daemons,      \* whether the backend command may daemonise
    Strangers     \* whether processes not started by gatekeeper take the port

ASSUME ConstantsAssumption ==
    /\ NoPid \notin Pids
    /\ Free \notin Pids /\ Self \notin Pids /\ Free # Self
    /\ {AutoRestart, StopCommand, Evictions, Daemons, Strangers} \subseteq BOOLEAN

VARIABLES
    proc,         \* state of every process
    port,         \* who is bound to the port; Self iff listenFd_ is open
    backendPid,   \* backendPid_
    occupied,     \* externalOccupied_
    giveUp,       \* recycleGiveUp_
    stop,         \* stop_
    lpc, lpid,    \* listen thread: position, the child it launched
    mpc, mpid,    \* monitor thread: position, the pid it waits for or adopts
    spc, evicting \* the owner: position, whether it is inside evict()

vars == <<proc, port, backendPid, occupied, giveUp, stop, lpc, lpid, mpc, mpid, spc, evicting>>

flags    == <<occupied, giveUp, stop>>
listener == <<lpc, lpid>>
monitor  == <<mpc, mpid>>
owner    == <<spc, evicting>>

-----------------------------------------------------------------------------
(* Processes, the port, and the system calls of relay_posix.cpp            *)

Executing(p) == proc[p] \in {"child", "daemon", "stranger"}
Freed(p) == port' = IF port = p THEN Free ELSE port

\* shutdown() and close() of the listening socket.
Released == IF port = Self THEN Free ELSE port

\* isProcessRunning: kill(pid, 0) succeeds, for a zombie and for 0 too.
IsProcessRunning(x) == x = NoPid \/ proc[x] \in {"child", "zombie", "daemon", "stranger"}

\* The children waitpid considers.
Children(x) == {p \in (IF x = NoPid THEN Pids ELSE {x}) : proc[p] \in {"child", "zombie"}}
Zombies(x) == {p \in Children(x) : proc[p] = "zombie"}

Reap(p) == proc' = [proc EXCEPT ![p] = "gone"]

\* waitpid(x, WNOHANG): 0 if only running children match; otherwise it reaps one or
\* fails, and isChildAlive is false.
IsChildAlive(x) == Children(x) # {} /\ Zombies(x) = {} /\ UNCHANGED proc
IsNotChildAlive(x) ==
    \/ \E p \in Zombies(x) : Reap(p)
    \/ Children(x) = {} /\ UNCHANGED proc

Exit(p) ==
    /\ Executing(p)
    /\ proc' = [proc EXCEPT ![p] = IF proc[p] = "child" THEN "zombie" ELSE "gone"]
    /\ Freed(p)

\* killProcess. What termProcess signals may ignore it: it exits, if it does, in a step
\* of its own.
Kill(x) == IF x # NoPid /\ Executing(x) THEN Exit(x) ELSE UNCHANGED <<proc, port>>

Bind(p) ==
    /\ Executing(p) /\ port = Free
    /\ port' = p
    /\ UNCHANGED proc

\* A wrapper forks the daemon that will serve the port, or takes it over at once.
Daemonise(p, q) ==
    /\ Daemons
    /\ proc[p] = "child" /\ proc[q] = "unborn"
    /\ proc' = [proc EXCEPT ![q] = "daemon"]
    /\ port' \in {port, IF port = p THEN q ELSE port}

Appear(q) ==
    /\ Strangers
    /\ proc[q] = "unborn"
    /\ proc' = [proc EXCEPT ![q] = "stranger"]
    /\ UNCHANGED port

Host ==
    /\ \/ \E p \in Pids : Exit(p) \/ Bind(p) \/ Appear(p)
       \/ \E p, q \in Pids : Daemonise(p, q)
    /\ UNCHANGED <<backendPid, flags, listener, monitor, owner>>

-----------------------------------------------------------------------------
Init ==
    /\ proc = [p \in Pids |-> "unborn"]
    /\ port = Free
    /\ backendPid = NoPid
    /\ occupied = FALSE /\ giveUp = FALSE /\ stop = FALSE
    /\ lpc = "top" /\ lpid = NoPid
    /\ mpc = "idle" /\ mpid = NoPid
    /\ spc = "serving" /\ evicting = FALSE

-----------------------------------------------------------------------------
(* Faulty variants of definitions, each as a plausible bug would have it;  *)
(* the behaviour of the specification does not use them. With one of them  *)
(* in the place of its original, the property named after it fails.        *)

\* findPidUsingPort may find nobody: the test of realPid > 0 is missing. TypeOK
MonitorFoundAny ==
    /\ mpc = "probe" /\ ~stop
    /\ mpid' = port
    /\ mpc' = "adopt"
    /\ UNCHANGED <<proc, port, backendPid, flags, listener, owner>>

\* resetForIdle joins the monitor thread only. ChildAwaited
OwnerRearmHalf ==
    /\ spc = "join"
    /\ mpc = "exited"
    /\ stop' = FALSE
    /\ lpc' = "top" /\ mpc' = "idle" /\ mpid' = NoPid
    /\ spc' = "serving" /\ evicting' = FALSE
    /\ UNCHANGED <<proc, port, backendPid, occupied, giveUp, lpid>>

\* stop_ ends the loop before the socket is closed. SocketOwned
ListenCloseNot ==
    /\ lpc = "close"
    /\ port' = IF stop THEN port ELSE Released
    /\ lpid' = NoPid
    /\ lpc' = IF ~AutoRestart \/ stop THEN "exited" ELSE "delay"
    /\ UNCHANGED <<proc, backendPid, flags, monitor, owner>>

\* A backend that survives SIGTERM is forgotten, not killed. ForgottenOnlyLate
GracefulTimeoutForgets ==
    /\ spc \in {"commandAlive", "termAlive"}
    /\ IsChildAlive(backendPid)
    /\ spc' = IF spc = "commandAlive" THEN "term" ELSE "clear"
    /\ UNCHANGED <<port, backendPid, flags, listener, monitor, evicting>>

\* The listening socket is closed without shutdown(), which wakes no accept(): here,
\* it stays open. CallsReturn
SignalStopSilent == stop' = TRUE /\ UNCHANGED port

\* The daemon's end does not clear backendPid_. ListensAgain
MonitorDropKeeps ==
    /\ mpc = "drop"
    /\ mpc' = IF ~AutoRestart \/ stop THEN "exited" ELSE "idle"
    /\ UNCHANGED <<proc, port, backendPid, flags, listener, mpid, owner>>

-----------------------------------------------------------------------------
(* listenLoop                                                              *)

\* Only the listen thread's position changes.
ListenGoto(label) ==
    /\ lpc' = label
    /\ UNCHANGED <<proc, port, backendPid, flags, lpid, monitor, owner>>

\* The tests of stop_ that end a loop.
ListenStopped ==
    /\ lpc \in {"top", "occupied", "delay", "portWait"} /\ stop
    /\ ListenGoto("exited")

\* Neither a tracked backend nor an occupant: try to bind.
ListenTop ==
    /\ lpc = "top" /\ ~stop
    /\ backendPid = NoPid /\ ~occupied
    /\ ListenGoto("bind")

\* The occupant has released the port.
ListenReleased ==
    /\ lpc = "top" /\ ~stop
    /\ backendPid = NoPid /\ occupied /\ port = Free
    /\ occupied' = FALSE
    /\ UNCHANGED <<proc, port, backendPid, giveUp, stop, listener, monitor, owner>>

ListenBind ==
    /\ lpc = "bind"
    /\ IF port = Free THEN port' = Self /\ lpc' = "accept"
                      ELSE lpc' = "occupied" /\ UNCHANGED port
    /\ UNCHANGED <<proc, backendPid, flags, lpid, monitor, owner>>

\* tryAdoptExternalOccupant, or wait for retrySeconds_.
ListenAdopt ==
    /\ lpc = "occupied" /\ ~stop
    /\ occupied' = (occupied \/ (StopCommand /\ ~giveUp /\ port # Free))
    /\ lpc' = "top"
    /\ UNCHANGED <<proc, port, backendPid, giveUp, stop, lpid, monitor, owner>>

\* The accept loop tests stop_, then blocks in accept()...
ListenWait ==
    /\ lpc = "accept"
    /\ ListenGoto(IF stop THEN "close" ELSE "accepting")

\* ...until a connection comes that is not refused for lack of memory: the waiting page
\* is sent...
ListenAccept ==
    /\ lpc = "accepting" /\ port = Self
    /\ ListenGoto("gate")

\* ...or the socket was shut down, and stop_ is seen.
ListenInterrupted ==
    /\ lpc = "accepting" /\ port # Self /\ stop
    /\ ListenGoto("close")

ListenGate ==
    /\ lpc = "gate"
    /\ ListenGoto(IF backendPid = NoPid THEN "launch" ELSE "accept")

\* launchBackend: fork and exec...
ListenFork(p) ==
    /\ lpc = "launch"
    /\ proc[p] = "unborn"
    /\ proc' = [proc EXCEPT ![p] = "child"]
    /\ lpid' = p
    /\ lpc' = "forked"
    /\ UNCHANGED <<port, backendPid, flags, monitor, owner>>

\* ...or fork fails.
ListenForkFailed ==
    /\ lpc = "launch"
    /\ ListenGoto("close")

\* backendPid_ = pid, and the listening socket is closed.
ListenForked ==
    /\ lpc = "forked"
    /\ backendPid' = lpid
    /\ lpc' = "release"
    /\ UNCHANGED <<proc, port, flags, lpid, monitor, owner>>

ListenRelease ==
    /\ lpc = "release"
    /\ port' = Released
    /\ lpc' = "wait"
    /\ UNCHANGED <<proc, backendPid, flags, lpid, monitor, owner>>

\* waitChild returns the child; exit status 126 and 127 mean that exec failed.
ListenReap ==
    /\ lpc = "wait" /\ proc[lpid] = "zombie"
    /\ Reap(lpid)
    /\ lpc' \in {"close", "execFailed"}
    /\ UNCHANGED <<port, backendPid, flags, lpid, monitor, owner>>

\* waitChild fails: the monitor thread or the owner has reaped it.
ListenNoChild ==
    /\ lpc = "wait" /\ proc[lpid] = "gone"
    /\ ListenGoto("close")

ListenExecFailed ==
    /\ lpc = "execFailed"
    /\ backendPid' = NoPid
    /\ lpc' = "close"
    /\ UNCHANGED <<proc, port, flags, lpid, monitor, owner>>

ListenClose ==
    /\ lpc = "close"
    /\ port' = Released
    /\ lpid' = NoPid
    /\ lpc' = IF ~AutoRestart \/ stop THEN "exited" ELSE "delay"
    /\ UNCHANGED <<proc, backendPid, flags, monitor, owner>>

\* After delayMs_, wait as long as the port is bound and no daemon is tracked.
ListenDelay ==
    /\ lpc = "delay" /\ ~stop
    /\ ListenGoto(IF port = Free THEN "top" ELSE "portWait")

ListenPortWait ==
    /\ lpc = "portWait" /\ ~stop
    /\ backendPid # NoPid \/ port = Free
    /\ ListenGoto("top")

Listen ==
    \/ ListenStopped \/ ListenTop \/ ListenReleased \/ ListenBind \/ ListenAdopt
    \/ ListenWait \/ ListenAccept \/ ListenInterrupted \/ ListenGate
    \/ \E p \in Pids : ListenFork(p)
    \/ ListenForkFailed \/ ListenForked \/ ListenRelease \/ ListenReap \/ ListenNoChild
    \/ ListenExecFailed \/ ListenClose \/ ListenDelay \/ ListenPortWait

-----------------------------------------------------------------------------
(* monitorBackend                                                          *)

MonitorGoto(label) ==
    /\ mpc' = label
    /\ UNCHANGED <<proc, port, backendPid, flags, listener, mpid, owner>>

MonitorStopped ==
    /\ mpc \in {"idle", "poll", "pollPort"} /\ stop
    /\ MonitorGoto("exited")

MonitorSees ==
    /\ mpc = "idle" /\ ~stop
    /\ backendPid # NoPid
    /\ MonitorGoto("call")

\* The argument of waitChild is a second read of backendPid_.
MonitorCall ==
    /\ mpc = "call"
    /\ mpid' = backendPid
    /\ mpc' = "wait"
    /\ UNCHANGED <<proc, port, backendPid, flags, listener, owner>>

\* waitChild returns a child: perhaps a wrapper whose daemon holds the port...
MonitorReap(p) ==
    /\ mpc = "wait" /\ p \in Zombies(mpid)
    /\ Reap(p)
    /\ mpc' = "probe"
    /\ UNCHANGED <<port, backendPid, flags, listener, mpid, owner>>

\* ...or fails: not a child, or already reaped.
MonitorNoChild ==
    /\ mpc = "wait" /\ Children(mpid) = {}
    /\ MonitorGoto("poll")

\* Every 5 s it looks whether the process that backendPid_ then names is gone...
MonitorPoll ==
    /\ mpc = "poll" /\ ~stop
    /\ ~IsProcessRunning(backendPid)
    /\ MonitorGoto("pollPort")

\* ...and the port released.
MonitorPollPort ==
    /\ mpc = "pollPort" /\ ~stop
    /\ MonitorGoto(IF port = Free THEN "drop" ELSE "poll")

\* Then it clears backendPid_, whatever that names by now.
MonitorDrop ==
    /\ mpc = "drop"
    /\ backendPid' = NoPid
    /\ mpc' = IF ~AutoRestart \/ stop THEN "exited" ELSE "idle"
    /\ UNCHANGED <<proc, port, flags, listener, mpid, owner>>

\* findPidUsingPort finds a process on the port within the window...
MonitorFound ==
    /\ mpc = "probe" /\ ~stop
    /\ port \in Pids
    /\ mpid' = port
    /\ mpc' = "adopt"
    /\ UNCHANGED <<proc, port, backendPid, flags, listener, owner>>

\* ...which is another than the one that backendPid_ names...
MonitorAdopt ==
    /\ mpc = "adopt"
    /\ MonitorGoto(IF mpid # backendPid THEN "adopting" ELSE "clear")

MonitorAdopted ==
    /\ mpc = "adopting"
    /\ backendPid' = mpid
    /\ mpc' = "idle"
    /\ UNCHANGED <<proc, port, flags, listener, mpid, owner>>

\* ...or the window ends, at once if stop_ is set.
MonitorNotFound ==
    /\ mpc = "probe"
    /\ stop \/ port \notin Pids
    /\ MonitorGoto("clear")

MonitorClear ==
    /\ mpc = "clear"
    /\ backendPid' = NoPid
    /\ mpc' = IF ~AutoRestart \/ stop THEN "exited" ELSE "idle"
    /\ UNCHANGED <<proc, port, flags, listener, mpid, owner>>

Monitor ==
    \/ MonitorStopped \/ MonitorSees \/ MonitorCall
    \/ \E p \in Pids : MonitorReap(p)
    \/ MonitorNoChild \/ MonitorPoll \/ MonitorPollPort \/ MonitorDrop
    \/ MonitorFound \/ MonitorAdopt \/ MonitorAdopted \/ MonitorNotFound \/ MonitorClear

-----------------------------------------------------------------------------
(* The owner's calls: setPendingRemoval, gracefulStop, evict, resetForIdle *)
(* and stop.                                                               *)

IsBackendRunning == backendPid # NoPid \/ occupied

OwnerGoto(label) ==
    /\ spc' = label
    /\ UNCHANGED <<proc, port, backendPid, flags, listener, monitor, evicting>>

\* signalStop
SignalStop == stop' = TRUE /\ port' = Released

OwnerRetire ==
    /\ spc = "serving"
    /\ SignalStop
    /\ spc' = "pending"
    /\ UNCHANGED <<proc, backendPid, occupied, giveUp, listener, monitor, evicting>>

\* monitorLoop's pass over the pending list: a backend that runs is stopped only if
\* monitorEnabled_ is set and no traffic was seen lately...
OwnerReclaim ==
    /\ spc = "pending"
    /\ IsBackendRunning
    /\ OwnerGoto("graceful")

\* ...and one that does not run is re-armed, or its relay erased.
OwnerPending ==
    /\ spc = "pending"
    /\ ~IsBackendRunning
    /\ OwnerGoto(IF AutoRestart THEN "join" ELSE "erased")

OwnerEvict ==
    /\ spc = "serving" /\ Evictions /\ IsBackendRunning
    /\ evicting' = TRUE
    /\ spc' = "graceful"
    /\ UNCHANGED <<proc, port, backendPid, flags, listener, monitor>>

\* gracefulStop returns; evict goes on with signalStop and resetForIdle.
Return == spc' = IF evicting THEN "signal" ELSE "pending"

EvictSignal ==
    /\ spc = "signal"
    /\ SignalStop
    /\ spc' = "join"
    /\ UNCHANGED <<proc, backendPid, occupied, giveUp, listener, monitor, evicting>>

\* gracefulStop, from its first tests. stop_command is run for an external occupant (there
\* is one only if it is configured: the branch without it is never taken), which leaves
\* the port within 30 s...
GracefulCommand ==
    /\ spc = "graceful" /\ occupied
    /\ OwnerGoto("reclaim")

GracefulReclaim ==
    /\ spc = "reclaim"
    /\ occupied' = FALSE
    /\ \/ port = Free /\ Return
       \/ port # Free /\ spc' = "giveUp"
    /\ UNCHANGED <<proc, port, backendPid, giveUp, stop, listener, monitor, evicting>>

\* ...or does not.
GracefulGiveUp ==
    /\ spc = "giveUp"
    /\ giveUp' = TRUE
    /\ Return
    /\ UNCHANGED <<proc, port, backendPid, occupied, stop, listener, monitor, evicting>>

\* No backend any more, here or at the top of a polling loop.
GracefulNothing ==
    /\ \/ spc = "graceful" /\ ~occupied
       \/ spc \in {"commandPoll", "termPoll"}
    /\ backendPid = NoPid
    /\ Return
    /\ UNCHANGED <<proc, port, backendPid, flags, listener, monitor, evicting>>

GracefulBegin ==
    /\ spc = "graceful" /\ ~occupied
    /\ backendPid # NoPid
    /\ OwnerGoto(IF StopCommand THEN "commandPoll" ELSE "term")

\* isChildAlive reads backendPid_ again.
GracefulPoll ==
    /\ spc \in {"commandPoll", "termPoll"}
    /\ backendPid # NoPid
    /\ OwnerGoto(IF spc = "commandPoll" THEN "commandAlive" ELSE "termAlive")

GracefulGone ==
    /\ spc \in {"commandAlive", "termAlive"}
    /\ IsNotChildAlive(backendPid)
    /\ spc' = "clear"
    /\ UNCHANGED <<port, backendPid, flags, listener, monitor, evicting>>

\* It is alive. After a second the loop goes on...
GracefulAlive ==
    /\ spc \in {"commandAlive", "termAlive"}
    /\ IsChildAlive(backendPid)
    /\ spc' = IF spc = "commandAlive" THEN "commandPoll" ELSE "termPoll"
    /\ UNCHANGED <<port, backendPid, flags, listener, monitor, evicting>>

\* ...or its 30 or 10 rounds are over.
GracefulTimeout ==
    /\ spc \in {"commandAlive", "termAlive"}
    /\ IsChildAlive(backendPid)
    /\ spc' = IF spc = "commandAlive" THEN "term" ELSE "kill"
    /\ UNCHANGED <<port, backendPid, flags, listener, monitor, evicting>>

\* The argument of termProcess, and of killProcess, is another read of backendPid_.
GracefulTerm ==
    /\ spc = "term"
    /\ OwnerGoto("termPoll")

GracefulKill ==
    /\ spc = "kill"
    /\ Kill(backendPid)
    /\ spc' = "clear"
    /\ UNCHANGED <<backendPid, flags, listener, monitor, evicting>>

GracefulClear ==
    /\ spc = "clear"
    /\ backendPid' = NoPid
    /\ Return
    /\ UNCHANGED <<proc, port, flags, listener, monitor, evicting>>

\* resetForIdle: join both threads, clear stop_ and start them again.
OwnerRearm ==
    /\ spc = "join"
    /\ lpc = "exited" /\ mpc = "exited"
    /\ stop' = FALSE
    /\ lpc' = "top" /\ mpc' = "idle" /\ mpid' = NoPid
    /\ spc' = "serving" /\ evicting' = FALSE
    /\ UNCHANGED <<proc, port, backendPid, occupied, giveUp, lpid>>

\* stop(): signal, kill a live child, join.
OwnerStop ==
    /\ spc = "serving"
    /\ SignalStop
    /\ spc' = "stopTest"
    /\ UNCHANGED <<proc, backendPid, occupied, giveUp, listener, monitor, evicting>>

StopTest ==
    /\ spc = "stopTest"
    /\ OwnerGoto(IF backendPid # NoPid THEN "stopAlive" ELSE "stopJoin")

StopAlive ==
    /\ spc = "stopAlive"
    /\ \/ IsChildAlive(backendPid) /\ spc' = "stopKill"
       \/ IsNotChildAlive(backendPid) /\ spc' = "stopJoin"
    /\ UNCHANGED <<port, backendPid, flags, listener, monitor, evicting>>

StopKill ==
    /\ spc = "stopKill"
    /\ Kill(backendPid)
    /\ spc' = "stopJoin"
    /\ UNCHANGED <<backendPid, flags, listener, monitor, evicting>>

StopJoin ==
    /\ spc = "stopJoin"
    /\ lpc = "exited" /\ mpc = "exited"
    /\ OwnerGoto("stopped")

OwnerContinue ==
    \/ OwnerPending \/ GracefulCommand \/ GracefulReclaim \/ GracefulGiveUp
    \/ GracefulNothing \/ GracefulBegin \/ GracefulPoll \/ GracefulGone \/ GracefulAlive
    \/ GracefulTimeout \/ GracefulTerm \/ GracefulKill \/ GracefulClear \/ EvictSignal \/ OwnerRearm
    \/ StopTest \/ StopAlive \/ StopKill \/ StopJoin

Owner == OwnerRetire \/ OwnerReclaim \/ OwnerEvict \/ OwnerStop \/ OwnerContinue

-----------------------------------------------------------------------------
\* An erased relay is freed memory: nothing of it runs on.
Next ==
    \/ Host
    \/ spc # "erased" /\ Listen
    \/ spc # "erased" /\ Monitor
    \/ Owner

Spec == Init /\ [][Next]_vars

-----------------------------------------------------------------------------
(* Fairness: both threads of the relay and a call of the owner's that has  *)
(* begun keep running, and a counted loop ends. No client has to connect,  *)
(* no process has to exit, no backend to be idle. (A listen thread can     *)
(* also wait for g_relaysMutex, in persistRefreshSeconds: RelayRegistry    *)
(* has those waits.)                                                       *)

ListenContinue ==
    \/ ListenInterrupted
    \/ lpc # "accepting" /\ Listen

Fairness ==
    /\ WF_vars(ListenContinue)
    /\ WF_vars(Monitor)
    /\ WF_vars(OwnerContinue)
    /\ SF_vars(GracefulTimeout)

FairSpec == Spec /\ Fairness

-----------------------------------------------------------------------------
(* Properties                                                              *)

\* Every variable stays within its type.
TypeOK ==
    /\ proc \in [Pids -> {"unborn", "child", "zombie", "daemon", "stranger", "gone"}]
    /\ port \in Pids \cup {Free, Self}
    /\ backendPid \in Pids \cup {NoPid}
    /\ occupied \in BOOLEAN /\ giveUp \in BOOLEAN /\ stop \in BOOLEAN
    /\ lpc \in {"top", "occupied", "bind", "accept", "accepting", "gate", "launch", "forked",
                "release", "wait", "execFailed", "close", "delay", "portWait", "exited"}
    /\ lpid \in Pids \cup {NoPid}
    /\ mpc \in {"idle", "call", "wait", "poll", "pollPort", "drop", "probe", "adopt",
                "adopting", "clear", "exited"}
    /\ mpid \in Pids \cup {NoPid}
    /\ spc \in {"serving", "pending", "erased", "graceful", "reclaim", "giveUp", "commandPoll",
                "commandAlive", "term", "termPoll", "termAlive", "kill", "clear", "signal",
                "join", "stopTest", "stopAlive", "stopKill", "stopJoin", "stopped"}
    /\ evicting \in BOOLEAN

\* Three threads may reap a child and any of them may lose the race: still, whenever a
\* child is running or a zombie, the listen thread is there for it. So a relay has one
\* child at a time, a joined relay has none, and no zombie is left behind.
ChildAwaited ==
    \A p \in Pids : proc[p] \in {"child", "zombie"} =>
        p = lpid /\ lpc \in {"forked", "release", "wait"}

\* resetForIdle overwrites listenFd_ without closing it. No socket is lost by that: it
\* is open only while the listen thread is in the part of its loop that closes it.
SocketOwned ==
    port = Self => lpc \in {"accept", "accepting", "gate", "launch", "forked", "release", "close"}

\* backendPid_ is what idle reclamation, stop() and the monitor thread act on. A running
\* child drops out of it in two ways only: an eviction is under way, or the monitor thread
\* had found another process gone and stores its 0 after the next launch. No other store,
\* by whichever thread, and no other order loses a child.
Untracked(p) == proc[p] = "child" /\ backendPid # p /\ lpc # "forked"
ForgottenOnlyLate ==
    [][\A p \in Pids : Untracked(p)' /\ ~Untracked(p) => MonitorDrop \/ evicting]_vars

\* The relay is to its owner what RelayRegistry takes it for. No thread goes on into a
\* launch that began after stop_ was set, and nothing is launched, adopted or cleared by a
\* thread that was joined, however the steps of the two threads and of the owner mix.
Over == IF AutoRestart THEN "loop" ELSE "ended"
Place ==
    CASE lpc = "exited" /\ mpc = "exited"           -> "exited"
      [] lpc = "exited" /\ mpc # "exited"           -> Over
      [] lpc \in {"close", "execFailed"}            -> Over
      [] lpc \in {"gate", "launch", "forked"}       -> "launch"
      [] lpc \in {"release", "wait"}                -> "wait"
      [] OTHER                                      -> "loop"
Threads == INSTANCE RelayThreads WITH
              Restarts <- AutoRestart, running <- IsBackendRunning, lpc <- Place
ImplementsThreads == Threads!Spec

\* stop() and resetForIdle join, and gracefulStop polls: each call returns, unless the
\* listen thread went on to launch a backend that outlives stop_. A retired relay may
\* keep a backend that runs for as long as it is in use.
Kept == spc = "pending" /\ IsBackendRunning
LateLaunch == spc \in {"join", "stopJoin"} /\ lpc = "wait" /\ proc[lpid] = "child"
CallsReturn ==
    spc # "serving" /\ ~Kept ~>
        spc \in {"serving", "erased", "stopped"} \/ Kept \/ LateLaunch

\* When everything that could use the port is gone, the relay listens again and would
\* launch a backend, whatever the order in which its threads found out.
Deserted == spc = "serving" /\ \A p \in Pids : ~Executing(p)
ListensAgain == Deserted ~> (port = Self /\ backendPid = NoPid) \/ ~Deserted

\* gracefulStop returns if monitorBackend has cleared backendPid_ (relay.cpp:1502): it
\* signals the backend, never, by kill(0), the process group of gatekeeper itself.
Signals == GracefulTerm \/ GracefulKill
GroupUntouched == [][Signals => backendPid # NoPid]_vars
=============================================================================
