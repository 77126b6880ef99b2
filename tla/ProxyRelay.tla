------------------------------ MODULE ProxyRelay ------------------------------
(***************************************************************************)
(* A relay that keeps its port and forwards connections, one at a time:    *)
(*                                                                         *)
(*   - mixed mode with hold_port: the protocol of the client selects one   *)
(*     of backends_, which is launched when it is needed;                  *)
(*   - proxy mode: a SOCKS5 proxy that connects to any target.             *)
(*                                                                         *)
(* Threads: the listen thread (mixedListenLoop or socks5ListenLoop), the   *)
(* two pipeRelay threads of its tunnel, proxyMonitorLoop (mixed mode), and *)
(* the owner, which calls signalStop, resetForIdle and stop. They share    *)
(* backends_ without a lock; g_relaysMutex is taken by a request to change *)
(* the refresh interval, and by the shutdown, which stops the relay with   *)
(* it held. monitorBackend runs too, but backendPid_ is always 0 here.     *)
(* launch_on_start and an occupant of the port are left out (see Relay).   *)
(***************************************************************************)
EXTENDS FiniteSets, Integers

CONSTANTS
    Types,        \* the protocols that have a backend
    NoType,
    Http,         \* the protocol whose clients may ask for another refresh interval
    MaxLaunches,  \* bound on the launches of a backend
    MaxFds,       \* file descriptors the relay can open
    Foreign       \* whether a server not launched here may answer at proxyTo

ASSUME ProxyAssumption ==
    /\ IsFiniteSet(Types) /\ NoType \notin Types
    /\ MaxLaunches \in Nat \ {0} /\ MaxFds \in Nat \ {0}
    /\ Foreign \in BOOLEAN

VARIABLES
    mode,         \* mode_: "mixed" (with holdPort_) or "proxy"
    userpass,     \* auth_.type is userpass (proxy mode)
    proc,         \* state of every backend process, by type and launch
    pid, ready,   \* BackendState: pid as a launch or 0, and ready
    stop,         \* stop_
    sock,         \* the listening socket: "closed", "open", or "shut" down under accept()
    lpc, cur,     \* listen thread, and the protocol it serves
    open,         \* open file descriptors of connections
    cfd, bfd,     \* the connection's two descriptors, or 0
    gone,         \* which of its peers have closed
    piping,       \* running pipe threads
    writing,      \* those of them that wait for their destination to read
    mpc, mcur,    \* proxyMonitorLoop, and the backend it works on
    spc, todo,    \* owner, and the backends stop has not come to yet
    held,         \* the caller of stop holds g_relaysMutex
    stale,        \* history: mcur refers to an element that backends_.clear() destroyed
    paged,        \* history: descriptors of clients answered with a waiting page
    orphans,      \* history: backends whose pid the monitor cleared in such an element
    authorised    \* history: the connection has passed USER/PASS

vars == <<mode, userpass, proc, pid, ready, stop, sock, lpc, cur, open, cfd, bfd, gone,
          piping, writing, mpc, mcur, spc, todo, held, stale, paged, orphans, authorised>>

config   == <<mode, userpass>>
backends == <<proc, pid, ready, orphans, stale>>
tunnel   == <<open, cfd, bfd, gone, piping, writing, paged, authorised>>
monitor  == <<mpc, mcur>>
owner    == <<spc, todo, held>>

Launches == 1..MaxLaunches
Fds == 1..MaxFds
Child(t, g) == g # 0 /\ proc[t][g] = "child"
Unborn(t) == {g \in Launches : proc[t][g] = "unborn"}

\* open() returns the lowest free descriptor.
Lowest(S) == CHOOSE x \in S : \A y \in S : x <= y
NextFd == Lowest(Fds \ open)

Init ==
    /\ mode \in {"mixed", "proxy"}
    /\ userpass \in IF mode = "proxy" THEN BOOLEAN ELSE {FALSE}
    /\ proc = [t \in Types |-> [g \in Launches |-> "unborn"]]
    /\ pid = [t \in Types |-> 0] /\ ready = [t \in Types |-> FALSE]
    /\ stop = FALSE /\ sock = "closed"
    /\ lpc = "init" /\ cur = NoType
    /\ open = {} /\ cfd = 0 /\ bfd = 0 /\ gone = {} /\ piping = {} /\ writing = {}
    /\ mpc = IF mode = "mixed" THEN "scan" ELSE "exited"
    /\ mcur = NoType
    /\ spc = "serving" /\ todo = {} /\ held = FALSE
    /\ stale = FALSE /\ paged = {} /\ orphans = {} /\ authorised = FALSE

-----------------------------------------------------------------------------
(* Faulty variants of definitions, each as a plausible bug would have it;  *)
(* the behaviour of the specification does not use them. With one of them  *)
(* in the place of its original, the property named after it fails.        *)

\* The next state of the listen thread.
Goes(label) == lpc' = label /\ UNCHANGED <<config, stop, monitor, owner>>

\* A failed fork's -1 is stored. TypeOK
LaunchFailsUnchecked ==
    /\ lpc = "launch"
    /\ Goes("answer")
    /\ pid' = [pid EXCEPT ![cur] = -1]
    /\ UNCHANGED <<proc, ready, orphans, stale, sock, cur, tunnel>>

\* A backend that is not ready is launched, without a look at its pid. ForgottenOnlyByRearm
DispatchUnready ==
    /\ lpc = "dispatch"
    /\ Goes(IF ~ready[cur] THEN "launch" ELSE "answer")
    /\ UNCHANGED <<backends, sock, cur, tunnel>>

\* The client's no-authentication method is accepted although userpass is configured.
\* TunnelAuthorised
GreetAny ==
    /\ lpc = "greet" /\ "client" \notin gone
    /\ \E label \in {"userpass", "request"} : Goes(label)
    /\ UNCHANGED <<backends, sock, cur, tunnel>>

\* The tunnel waits for both directions. TunnelEnds
TunnelDoneBoth ==
    /\ lpc = "tunnel" /\ piping = {}
    /\ Goes("closing")
    /\ UNCHANGED <<backends, sock, cur, tunnel>>

\* The pipe threads are not joined before their sockets are closed. FdsAccounted
TunnelCloseEarly ==
    /\ lpc = "closing"
    /\ Goes("accept")
    /\ open' = open \ {cfd, bfd} /\ cfd' = 0 /\ bfd' = 0 /\ cur' = NoType
    /\ UNCHANGED <<backends, sock, gone, piping, writing, paged, authorised>>

\* ready stays set. ReadyOnlyLate
MonitorClearNot ==
    /\ mpc = "clearReady"
    /\ mpc' = "scan" /\ mcur' = NoType
    /\ UNCHANGED <<config, backends, stop, sock, lpc, cur, tunnel, owner>>

\* The socket is closed without shutdown(), which wakes no accept(). StopReturns
SignalStopSilent == stop' = TRUE /\ sock' = "closed"

\* The socket is left to signalStop, which may have come before bind. StoppedClean
ListenStoppedOpen ==
    /\ \/ lpc \in {"bind", "accept"} /\ stop
       \/ lpc = "accepting" /\ sock = "shut"
    /\ Goes("exited")
    /\ UNCHANGED <<backends, sock, cur, tunnel>>

-----------------------------------------------------------------------------
(* Processes and peers                                                     *)

Exit(t, g) ==
    /\ Child(t, g)
    /\ proc' = [proc EXCEPT ![t][g] = "zombie"]
    /\ UNCHANGED <<config, pid, ready, stop, sock, lpc, cur, tunnel, monitor, owner, orphans, stale>>

PeerCloses(x) ==
    /\ IF x = "client" THEN cfd # 0 ELSE bfd # 0
    /\ gone' = gone \cup {x}
    /\ UNCHANGED <<config, backends, stop, sock, lpc, cur, open, cfd, bfd, piping, writing,
                   monitor, owner, paged, authorised>>

-----------------------------------------------------------------------------
(* The listen thread: bind and accept                                      *)

ListenGoto(label) ==
    /\ lpc' = label
    /\ UNCHANGED <<config, stop, monitor, owner>>

\* A new listen thread clears backends_: it forgets those that run.
ListenInit ==
    /\ lpc = "init"
    /\ ListenGoto("bind")
    /\ pid' = [t \in Types |-> 0] /\ ready' = [t \in Types |-> FALSE]
    /\ stale' = (mpc \in {"clearPid", "clearReady"})
    /\ UNCHANGED <<proc, orphans, sock, cur, tunnel>>

ListenBind ==
    /\ lpc = "bind"
    /\ ListenGoto("accept")
    /\ sock' = "open"
    /\ UNCHANGED <<backends, cur, tunnel>>

ListenStopped ==
    /\ \/ lpc \in {"bind", "accept"} /\ stop
       \/ lpc = "accepting" /\ sock = "shut"
    /\ ListenGoto("exited")
    /\ sock' = "closed"
    /\ UNCHANGED <<backends, cur, tunnel>>

ListenAccept ==
    /\ lpc = "accept" /\ ~stop
    /\ ListenGoto("accepting")
    /\ UNCHANGED <<backends, sock, cur, tunnel>>

\* Without a free descriptor accept() fails, and the loop tries again.
ListenConnected ==
    /\ lpc = "accepting" /\ sock = "open" /\ open # Fds
    /\ ListenGoto("peek")
    /\ cfd' = NextFd /\ open' = open \cup {NextFd}
    /\ gone' = {} /\ authorised' = FALSE
    /\ UNCHANGED <<backends, sock, cur, bfd, piping, writing, paged>>

\* The client is closed, and the next one accepted.
CloseClient ==
    /\ ListenGoto("accept")
    /\ open' = open \ {cfd} /\ cfd' = 0 /\ cur' = NoType
    /\ UNCHANGED <<backends, sock, bfd, gone, piping, writing, paged, authorised>>

\* detectProtocol waits for the first bytes. Without any, of no known protocol, or of one
\* that is not configured:
DetectUnknown == lpc = "peek" /\ CloseClient

Detect(t) ==
    /\ lpc = "peek" /\ mode = "mixed" /\ "client" \notin gone
    /\ ListenGoto("dispatch")
    /\ cur' = t
    /\ UNCHANGED <<backends, sock, tunnel>>

\* SOCKS5, or HTTP which goes to httpTarget_.
DetectProxy ==
    /\ lpc = "peek" /\ mode = "proxy" /\ "client" \notin gone
    /\ \E label \in {"greet", "connect"} : ListenGoto(label)
    /\ UNCHANGED <<backends, sock, cur, tunnel>>

-----------------------------------------------------------------------------
(* Mixed mode: launchProtocolBackend                                       *)

Dispatch ==
    /\ lpc = "dispatch"
    /\ ListenGoto(IF pid[cur] = 0 /\ ~ready[cur] THEN "launch" ELSE "answer")
    /\ UNCHANGED <<backends, sock, cur, tunnel>>

Launch ==
    /\ lpc = "launch" /\ Unborn(cur) # {}
    /\ LET g == Lowest(Unborn(cur)) IN
         /\ proc' = [proc EXCEPT ![cur][g] = "child"]
         /\ pid' = [pid EXCEPT ![cur] = g]
    /\ ListenGoto("poll")
    /\ UNCHANGED <<ready, orphans, stale, sock, cur, tunnel>>

LaunchFails ==
    /\ lpc = "launch"
    /\ ListenGoto("answer")
    /\ pid' = [pid EXCEPT ![cur] = 0]
    /\ UNCHANGED <<proc, ready, orphans, stale, sock, cur, tunnel>>

\* Somebody may answer at proxyTo.
Answers(t) == Foreign \/ \E g \in Launches : Child(t, g)

\* The poll connects to proxyTo, with a descriptor of its own...
PollConnects ==
    /\ lpc = "poll" /\ Answers(cur) /\ open # Fds
    /\ ListenGoto("connected")
    /\ UNCHANGED <<backends, sock, cur, tunnel>>

PollReady ==
    /\ lpc = "connected"
    /\ ListenGoto("answer")
    /\ ready' = [ready EXCEPT ![cur] = TRUE]
    /\ UNCHANGED <<proc, pid, orphans, stale, sock, cur, tunnel>>

\* ...or delayMs ends.
PollExpires ==
    /\ lpc = "poll"
    /\ ListenGoto("answer")
    /\ UNCHANGED <<backends, sock, cur, tunnel>>

AnswerReady ==
    /\ lpc = "answer" /\ ready[cur]
    /\ ListenGoto("connect")
    /\ UNCHANGED <<backends, sock, cur, tunnel>>

\* sendMixedResponse has answered; nobody closes the descriptor.
Answered ==
    /\ ListenGoto("accept")
    /\ paged' = paged \cup {cfd}
    /\ cfd' = 0 /\ cur' = NoType
    /\ UNCHANGED <<backends, sock, open, bfd, gone, piping, writing, authorised>>

AnswerPage == lpc = "answer" /\ ~ready[cur] /\ Answered

\* A request for another refresh interval is answered when persistRefreshSeconds has had
\* g_relaysMutex.
AnswerRefresh ==
    /\ lpc = "answer" /\ ~ready[cur] /\ cur = Http
    /\ ListenGoto("persist")
    /\ UNCHANGED <<backends, sock, cur, tunnel>>

Persist == lpc = "persist" /\ ~held /\ Answered

-----------------------------------------------------------------------------
(* Proxy mode: SOCKS5 negotiation                                          *)

\* The client's method is accepted: USER/PASS if it is configured, else no authentication.
Greet ==
    /\ lpc = "greet" /\ "client" \notin gone
    /\ ListenGoto(IF userpass THEN "userpass" ELSE "request")
    /\ UNCHANGED <<backends, sock, cur, tunnel>>

UserPass ==
    /\ lpc = "userpass" /\ "client" \notin gone
    /\ ListenGoto("request")
    /\ authorised' = TRUE
    /\ UNCHANGED <<backends, sock, cur, open, cfd, bfd, gone, piping, writing, paged>>

\* CONNECT with a usable address.
Request ==
    /\ lpc = "request" /\ "client" \notin gone
    /\ ListenGoto("connectTarget")
    /\ UNCHANGED <<backends, sock, cur, tunnel>>

\* A short read, a method, password, command or address that is refused.
NegotiationFails == lpc \in {"greet", "userpass", "request"} /\ CloseClient

-----------------------------------------------------------------------------
(* The tunnel                                                              *)

ConnectTunnel ==
    /\ lpc \in {"connect", "connectTarget"} /\ open # Fds
    /\ mode = "mixed" => Answers(cur)
    /\ ListenGoto("tunnel")
    /\ bfd' = NextFd /\ open' = open \cup {NextFd}
    /\ piping' = {"up", "down"}
    /\ UNCHANGED <<backends, sock, cur, cfd, gone, writing, paged, authorised>>

ConnectFails == lpc \in {"connect", "connectTarget"} /\ CloseClient

\* pipeRelay copies from its source to its destination.
Source(p) == IF p = "up" THEN "client" ELSE "target"
DestinationGone(p) == gone \ {Source(p)} # {}

Pipe(running, blocked) ==
    /\ piping' = running /\ writing' = blocked
    /\ UNCHANGED <<config, backends, stop, sock, lpc, cur, open, cfd, bfd, gone, monitor, owner,
                   paged, authorised>>

\* write_fd waits for a destination that does not read, perhaps for ever.
PipeBlocks(p) ==
    /\ lpc = "tunnel" /\ p \in piping \ writing /\ ~DestinationGone(p)
    /\ Pipe(piping, writing \cup {p})

PipeUnblocks(p) == p \in writing /\ Pipe(piping, writing \ {p})

\* It returns when read_fd finds that its source has closed, or was shut down...
PipeEnds(p) ==
    /\ p \in piping \ writing
    /\ Source(p) \in gone \/ lpc = "closing"
    /\ Pipe(piping \ {p}, writing)

\* ...or when write_fd fails, whether it waited or not.
PipeFails(p) ==
    /\ p \in writing
    /\ DestinationGone(p) \/ lpc = "closing"
    /\ Pipe(piping \ {p}, writing \ {p})

PipeBreaks(p) ==
    /\ p \in piping \ writing /\ DestinationGone(p)
    /\ Pipe(piping \ {p}, writing)

\* Either direction has ended: both sockets are shut down...
TunnelDone ==
    /\ lpc = "tunnel" /\ piping # {"up", "down"}
    /\ ListenGoto("closing")
    /\ UNCHANGED <<backends, sock, cur, tunnel>>

\* ...and closed when both threads are joined.
TunnelClose ==
    /\ lpc = "closing" /\ piping = {}
    /\ ListenGoto("accept")
    /\ open' = open \ {cfd, bfd} /\ cfd' = 0 /\ bfd' = 0 /\ cur' = NoType
    /\ UNCHANGED <<backends, sock, gone, piping, writing, paged, authorised>>

\* What the listen thread does without waiting for a peer.
Listen ==
    \/ ListenInit \/ ListenBind \/ ListenStopped \/ ListenAccept
    \/ Dispatch \/ Launch \/ LaunchFails \/ PollConnects \/ PollReady \/ PollExpires
    \/ AnswerReady \/ AnswerPage
    \/ ConnectTunnel \/ ConnectFails \/ TunnelDone \/ TunnelClose
    \/ "client" \in gone /\ (DetectUnknown \/ NegotiationFails)

Clients ==
    \/ ListenConnected \/ DetectUnknown \/ DetectProxy \/ \E t \in Types : Detect(t)
    \/ Greet \/ UserPass \/ Request \/ NegotiationFails \/ AnswerRefresh
    \/ \E x \in {"client", "target"} : PeerCloses(x)

-----------------------------------------------------------------------------
(* proxyMonitorLoop                                                        *)

MonitorGoto(label) ==
    /\ mpc' = label
    /\ UNCHANGED <<config, stop, sock, lpc, cur, tunnel, owner>>

MonitorStopped ==
    /\ mpc = "scan" /\ stop
    /\ MonitorGoto("exited")
    /\ UNCHANGED <<backends, mcur>>

\* isChildAlive reaps the backend, or finds that stop has.
MonitorReap(t) ==
    /\ mpc = "scan" /\ pid[t] # 0 /\ ~Child(t, pid[t])
    /\ MonitorGoto("clearPid")
    /\ proc' = [proc EXCEPT ![t][pid[t]] = "gone"]
    /\ mcur' = t /\ stale' = FALSE
    /\ UNCHANGED <<pid, ready, orphans>>

\* If the element has been destroyed meanwhile, its storage is that of the new one.
MonitorClearPid ==
    /\ mpc = "clearPid"
    /\ MonitorGoto("clearReady")
    /\ pid' = [pid EXCEPT ![mcur] = 0]
    /\ orphans' = IF stale THEN orphans \cup {<<mcur, pid[mcur]>>} ELSE orphans
    /\ UNCHANGED <<proc, ready, stale, mcur>>

MonitorClearReady ==
    /\ mpc = "clearReady"
    /\ MonitorGoto("scan")
    /\ ready' = [ready EXCEPT ![mcur] = FALSE]
    /\ mcur' = NoType
    /\ UNCHANGED <<proc, pid, orphans, stale>>

Monitor ==
    \/ MonitorStopped \/ MonitorClearPid \/ MonitorClearReady
    \/ \E t \in Types : MonitorReap(t)

-----------------------------------------------------------------------------
(* The owner                                                               *)

SignalStop ==
    /\ stop' = TRUE
    /\ sock' = IF sock # "open" THEN sock
               ELSE IF lpc = "accepting" THEN "shut" ELSE "closed"

OwnerGoto(label) ==
    /\ spc' = label
    /\ UNCHANGED <<config, pid, ready, cur, tunnel, orphans, stale>>

\* setPendingRemoval, by a reload: isBackendRunning is false for these relays, so the idle
\* pass never retires them.
Retire ==
    /\ spc = "serving"
    /\ OwnerGoto("pending")
    /\ SignalStop
    /\ UNCHANGED <<proc, lpc, monitor, todo, held>>

\* The pending pass: resetForIdle, once the joins have returned.
Rearm ==
    /\ spc = "pending" /\ lpc = "exited" /\ mpc = "exited"
    /\ OwnerGoto("serving")
    /\ stop' = FALSE
    /\ lpc' = "init"
    /\ mpc' = IF mode = "mixed" THEN "scan" ELSE "exited"
    /\ UNCHANGED <<proc, sock, mcur, todo, held>>

\* stop(), by the shutdown, or by the destructor of a relay that is pending.
Stop ==
    /\ spc \in {"serving", "pending"}
    /\ OwnerGoto("kill")
    /\ SignalStop
    /\ todo' = Types /\ held' = (spc = "serving")
    /\ UNCHANGED <<proc, lpc, monitor>>

\* The backend is killed, or reaped if it has already exited.
StopKill(t) ==
    /\ spc = "kill" /\ t \in todo
    /\ todo' = todo \ {t}
    /\ proc' = IF pid[t] = 0 THEN proc
               ELSE [proc EXCEPT ![t][pid[t]] = IF @ = "child" THEN "zombie" ELSE "gone"]
    /\ OwnerGoto(IF todo' = {} THEN "join" ELSE "kill")
    /\ UNCHANGED <<stop, sock, lpc, monitor, held>>

StopJoined ==
    /\ spc = "join" /\ lpc = "exited" /\ mpc = "exited"
    /\ OwnerGoto("stopped")
    /\ UNCHANGED <<proc, stop, sock, lpc, monitor, todo, held>>

Owner == StopJoined \/ \E t \in Types : StopKill(t)

-----------------------------------------------------------------------------
Next ==
    \/ Listen \/ Clients \/ Persist
    \/ \E p \in {"up", "down"} :
          PipeBlocks(p) \/ PipeUnblocks(p) \/ PipeEnds(p) \/ PipeFails(p) \/ PipeBreaks(p)
    \/ Monitor
    \/ Owner \/ Retire \/ Rearm \/ Stop
    \/ \E t \in Types, g \in Launches : Exit(t, g)

Spec == Init /\ [][Next]_vars

\* The threads run on, and a call to stop in progress goes on. No peer needs to speak, to read
\* or to close, no backend to exit, nobody to let go of g_relaysMutex, and no reload or
\* shutdown to come.
FairSpec ==
    /\ Spec
    /\ WF_vars(Listen) /\ WF_vars(Monitor) /\ WF_vars(Owner)
    /\ \A p \in {"up", "down"} : WF_vars(PipeEnds(p)) /\ WF_vars(PipeFails(p))

-----------------------------------------------------------------------------
\* Types, and which descriptors a position of the listen thread has.
TypeOK ==
    /\ mode \in {"mixed", "proxy"} /\ {userpass, stop, authorised, stale} \subseteq BOOLEAN
    /\ proc \in [Types -> [Launches -> {"unborn", "child", "zombie", "gone"}]]
    /\ pid \in [Types -> Launches \cup {0}] /\ ready \in [Types -> BOOLEAN]
    /\ sock \in {"closed", "open", "shut"}
    /\ lpc \in {"init", "bind", "accept", "accepting", "peek", "dispatch", "launch", "poll",
                "connected", "answer", "persist", "connect", "connectTarget", "greet", "userpass",
                "request", "tunnel", "closing", "exited"}
    /\ {cur, mcur} \subseteq Types \cup {NoType}
    /\ open \subseteq Fds /\ paged \subseteq Fds /\ {cfd, bfd} \subseteq Fds \cup {0}
    /\ gone \subseteq {"client", "target"} /\ piping \subseteq {"up", "down"} /\ writing \subseteq piping
    /\ mpc \in {"scan", "clearPid", "clearReady", "exited"}
    /\ spc \in {"serving", "pending", "kill", "join", "stopped"} /\ todo \subseteq Types
    /\ held \in BOOLEAN /\ orphans \subseteq Types \X (Launches \cup {0})

\* On every path of the two accept loops the descriptors of a connection are closed before
\* the next accept(), and not before the threads that use them have been joined. The one
\* exception: the descriptor of a client that got a waiting page because the backend was not
\* ready stays open for ever (relay.cpp:1318).
FdsAccounted ==
    /\ open \ {cfd, bfd} = paged
    /\ {cfd, bfd} \cap paged = {}
    /\ lpc \in {"bind", "accept", "accepting", "exited"} => cfd = 0 /\ bfd = 0
    /\ piping # {} => cfd # bfd /\ {cfd, bfd} \subseteq open

\* A running backend is forgotten only by the listen thread of a re-armed relay, which clears
\* backends_ (relay.cpp:1200), or by the monitor with a reference into the old vector; never
\* by a launch next to it. The forgotten one runs on, unreaped.
Forgotten(t, g) == Child(t, g) /\ pid[t] # g

ForgottenOnlyByRearm ==
    [][\A t \in Types, g \in Launches :
          Forgotten(t, g)' /\ ~Forgotten(t, g) =>
              (lpc = "init" /\ pid[t] = g) \/ <<t, g>> \in orphans']_vars

\* When stop has returned, no thread, listening socket or tunnel is left, wherever it found
\* the listen thread, and no descriptor but those of clients that got a waiting page.
StoppedClean ==
    spc = "stopped" =>
        /\ lpc = "exited" /\ mpc = "exited"
        /\ sock = "closed" /\ piping = {} /\ open = paged

\* When stop has returned, no backend runs: the exit waits for the backends, and kills those
\* that take too long (CONFIG.md:482).
NoBackendLeft == spc = "stopped" => \A t \in Types, g \in Launches : ~Child(t, g)

\* ready without a pid, and no monitor about to clear it: clients are sent to a backend that
\* is not there and no other is launched, as long as the relay serves.
ReadyOnly(t) == ready[t] /\ pid[t] = 0 /\ ~(mpc = "clearReady" /\ mcur = t)
Youngest(t, g) == proc[t][g] # "unborn" /\ \A h \in Launches : h > g => proc[t][h] = "unborn"

\* It happens only by the store to ready that ends a poll, and only if the monitor has cleared
\* both before it: because the backend just launched has been reaped (whoever it was that
\* answered the poll, itself or another server), or in a destroyed element's place.
ReadyOnlyLate ==
    [][\A t \in Types :
          ReadyOnly(t)' /\ ~ReadyOnly(t) =>
              /\ lpc = "connected" /\ cur = t
              /\ \E g \in Launches :
                    Youngest(t, g) /\ (proc[t][g] = "gone" \/ <<t, g>> \in orphans)]_vars

\* A SOCKS5 tunnel to a target of the client's choice exists only after USER/PASS if that is
\* configured, whatever methods the client offers (relay.cpp:1012, CONFIG.md:302). An HTTP
\* client is tunnelled to httpTarget_ without any (relay.cpp:1142).
TunnelAuthorised == lpc = "connectTarget" /\ userpass => authorised

\* The tunnel ends when one peer has closed, although the other has not; unless what the first
\* has sent waits to be read by the other, which stays without reading (relay.cpp:796).
Stuck(p) == p \in writing /\ Source(p) \in gone /\ ~DestinationGone(p)
TunnelEnds ==
    lpc = "tunnel" /\ gone # {} ~>
        (cfd = 0 /\ piping = {}) \/ \E p \in {"up", "down"} : Stuck(p)

\* stop() returns, unless the listen thread waits for somebody else, without a look at stop_:
\* for a client's first bytes or negotiation, in a tunnel whose peers both stay, or for
\* g_relaysMutex, which the shutdown that joins it holds (relay.cpp:401, main.cpp:572).
Waits == lpc \in {"peek", "greet", "userpass", "request", "tunnel", "persist"}
StopReturns == spc \in {"kill", "join"} ~> spc = "stopped" \/ Waits
=============================================================================
