---------------------------- MODULE ProxyRelay_proofs ----------------------------
(***************************************************************************)
(* Proofs about ProxyRelay, for any protocols and any number of launches   *)
(* and descriptors.                                                        *)
(*                                                                         *)
(* The inductive invariant has six parts besides the types: which position *)
(* of the listen thread has which descriptors (Descriptors), what it knows *)
(* of the negotiation (Negotiation), which threads work on a backend       *)
(* (Working), what the monitor is about to clear (Backends), how far       *)
(* stop() has come (Stopping), and which backend a poll waits for          *)
(* (Launched). The last one is kept by arguments of its own.               *)
(***************************************************************************)
EXTENDS ProxyRelay, TLAPS, NumberLemmas

\* TypeOK, one conjunct per variable.
Typing ==
    /\ mode \in {"mixed", "proxy"} /\ userpass \in BOOLEAN
    /\ proc \in [Types -> [Launches -> {"unborn", "child", "zombie", "gone"}]]
    /\ pid \in [Types -> Launches \cup {0}] /\ ready \in [Types -> BOOLEAN]
    /\ stop \in BOOLEAN /\ sock \in {"closed", "open", "shut"}
    /\ lpc \in {"init", "bind", "accept", "accepting", "peek", "dispatch", "launch", "poll",
                "connected", "answer", "persist", "connect", "connectTarget", "greet", "userpass",
                "request", "tunnel", "closing", "exited"}
    /\ cur \in Types \cup {NoType} /\ mcur \in Types \cup {NoType}
    /\ open \subseteq Fds /\ paged \subseteq Fds
    /\ cfd \in Fds \cup {0} /\ bfd \in Fds \cup {0}
    /\ gone \subseteq {"client", "target"} /\ piping \subseteq {"up", "down"} /\ writing \subseteq piping
    /\ mpc \in {"scan", "clearPid", "clearReady", "exited"}
    /\ spc \in {"serving", "pending", "kill", "join", "stopped"} /\ todo \subseteq Types
    /\ held \in BOOLEAN /\ stale \in BOOLEAN /\ authorised \in BOOLEAN
    /\ orphans \subseteq Types \X (Launches \cup {0})

\* Between accept() and the close there is a client, in the tunnel a second descriptor; the
\* pipe threads run only in the tunnel, and the socket is open only in the accept loop.
Descriptors ==
    /\ cfd = 0 <=> lpc \in {"init", "bind", "accept", "accepting", "exited"}
    /\ bfd = 0 <=> lpc \notin {"tunnel", "closing"}
    /\ open = paged \cup ({cfd, bfd} \ {0}) /\ {cfd, bfd} \cap paged = {}
    /\ bfd # 0 => cfd # bfd
    /\ piping # {} => lpc \in {"tunnel", "closing"}
    /\ lpc \in {"init", "bind", "exited"} => sock = "closed"

\* userpass is a setting of proxy mode; what follows the sub-negotiation follows USER/PASS.
Negotiation ==
    lpc \in {"request", "connectTarget"} /\ userpass => authorised

\* A thread that works on a backend has one. The listen thread launches only where it has
\* found none, and only the monitor may have changed that since.
Working ==
    /\ lpc \in {"dispatch", "launch", "poll", "connected", "answer"} => cur \in Types
    /\ lpc = "launch" => pid[cur] = 0
    /\ mpc \in {"clearPid", "clearReady"} => mcur \in Types

\* What the monitor is about to clear has been reaped, unless the vector was cleared behind its
\* back.
Backends == mpc = "clearPid" /\ ~stale => pid[mcur] # 0 /\ proc[mcur][pid[mcur]] = "gone"

\* stop() returns when both loops have.
Stopping == spc = "stopped" => lpc = "exited" /\ mpc = "exited"

\* Launches are taken in order, and a known one has been taken. A poll waits for the youngest,
\* whose pid is known; if it is not, the monitor has cleared it, after the exit or with a
\* reference into the old vector.
Born ==
    \A t \in Types : \A g, h \in Launches :
        h > g /\ proc[t][g] = "unborn" => proc[t][h] = "unborn"
Known == \A t \in Types : pid[t] # 0 => proc[t][pid[t]] # "unborn"
Launched ==
    /\ Born /\ Known
    /\ lpc \in {"poll", "connected"} =>
          \E g \in Launches :
              /\ Youngest(cur, g)
              /\ \/ pid[cur] = g
                 \/ pid[cur] = 0 /\ (proc[cur][g] = "gone" \/ <<cur, g>> \in orphans)

\* The inductive invariant of the relay.
Base == Typing /\ Descriptors /\ Negotiation /\ Working /\ Backends /\ Stopping
Inv == Base /\ Launched

-----------------------------------------------------------------------------
(* The invariant is inductive.                                             *)

\* What open() and the launch choose is there to be chosen.
LEMMA LowestIn ==
    ASSUME NEW S, S \subseteq Nat, S # {}
    PROVE  Lowest(S) \in S /\ \A x \in S : Lowest(S) <= x
  BY LeastNumber DEF Lowest

\* Numbers start at 1: 0 is no launch and no descriptor.
LEMMA NotZero == 0 \notin Launches /\ 0 \notin Fds
  BY DEF Launches, Fds

\* A free descriptor, if there is one.
LEMMA NextFdFree ==
    ASSUME open \subseteq Fds, open # Fds
    PROVE  NextFd \in Fds \ open
<1>1. Fds \ open \subseteq Nat
  BY ProxyAssumption DEF Fds
<1>2. Fds \ open # {}
  OBVIOUS
<1> QED
  BY <1>1, <1>2, LowestIn DEF NextFd

\* The next launch, if there is one.
LEMMA NextLaunch ==
    ASSUME NEW t \in Types, Unborn(t) # {}
    PROVE  /\ Lowest(Unborn(t)) \in Launches
           /\ proc[t][Lowest(Unborn(t))] = "unborn"
           /\ \A h \in Launches : proc[t][h] = "unborn" => Lowest(Unborn(t)) <= h
<1>1. Unborn(t) \subseteq Launches /\ Unborn(t) \subseteq Nat
  BY ProxyAssumption DEF Unborn, Launches
<1>2. Lowest(Unborn(t)) \in Unborn(t) /\ \A h \in Unborn(t) : Lowest(Unborn(t)) <= h
  BY <1>1, LowestIn
<1> QED
  BY <1>2 DEF Unborn

\* The relay starts with no backend, client or open descriptor.
LEMMA ProxyInit == Init => Inv
<1> SUFFICES ASSUME Init PROVE Inv
  OBVIOUS
<1> USE NotZero DEF Init, Child
<1>1. Typing
  BY DEF Typing
<1>2. Descriptors
  BY DEF Descriptors
<1>3. Negotiation
  BY DEF Negotiation
<1>4. Working
  BY DEF Working
<1>5. Backends
  BY DEF Backends
<1>6. Stopping
  BY DEF Stopping
<1>7. Launched
  BY DEF Launched, Born, Known
<1> QED
  BY <1>1, <1>2, <1>3, <1>4, <1>5, <1>6, <1>7 DEF Inv, Base

\* The accept loop, and what the listen thread reads from its client.
LEMMA ProxyAccepts ==
    ASSUME Base,
           \/ ListenInit \/ ListenBind \/ ListenStopped \/ ListenAccept \/ ListenConnected
           \/ DetectUnknown \/ DetectProxy \/ \E t \in Types : Detect(t)
           \/ Greet \/ UserPass \/ Request \/ NegotiationFails
    PROVE  Base'
<1> USE NotZero
    DEF Base, Typing, Descriptors, Negotiation, Working, Backends, Stopping, Child,
        config, backends, tunnel, monitor, owner, ListenGoto, CloseClient
<1>1. CASE ListenInit
  <2>1. Typing'
    BY <1>1 DEF ListenInit
  <2>2. Descriptors'
    BY <1>1 DEF ListenInit
  <2>3. Negotiation'
    BY <1>1 DEF ListenInit
  <2>4. Working'
    BY <1>1 DEF ListenInit
  <2>5. Backends'
    BY <1>1 DEF ListenInit
  <2>6. Stopping'
    BY <1>1 DEF ListenInit
  <2> QED
    BY <2>1, <2>2, <2>3, <2>4, <2>5, <2>6
<1>2. CASE ListenBind
  BY <1>2 DEF ListenBind
<1>3. CASE ListenStopped
  BY <1>3 DEF ListenStopped
<1>4. CASE ListenAccept
  BY <1>4 DEF ListenAccept
<1>5. CASE ListenConnected
  <2> DEFINE fd == NextFd
  <2>0. fd \in Fds \ open
    BY <1>5, NextFdFree DEF ListenConnected
  <2> HIDE DEF fd
  <2>1. Typing'
    <3>1. /\ UNCHANGED <<backends, monitor, owner, sock, cur, bfd, piping, writing, paged>>
          /\ UNCHANGED <<config, stop>>
      BY <1>5 DEF ListenConnected
    <3>2. /\ lpc' = "peek" /\ gone' = {} /\ authorised' = FALSE
          /\ cfd' = fd /\ open' = open \cup {fd}
      BY <1>5 DEF ListenConnected, fd
    <3>3. open' \subseteq Fds /\ cfd' \in Fds
      BY <2>0, <3>2
    <3>4. gone' \subseteq {"client", "target"} /\ authorised' \in BOOLEAN
      BY <3>2
    <3> QED
      BY <3>1, <3>2, <3>3, <3>4
  <2>2. Descriptors'
    BY <1>5, <2>0 DEF ListenConnected, fd
  <2>3. Negotiation'
    BY <1>5, <2>0 DEF ListenConnected, fd
  <2>4. Working'
    BY <1>5, <2>0 DEF ListenConnected, fd
  <2>5. Backends'
    BY <1>5, <2>0 DEF ListenConnected, fd
  <2>6. Stopping'
    BY <1>5, <2>0 DEF ListenConnected, fd
  <2> QED
    BY <2>1, <2>2, <2>3, <2>4, <2>5, <2>6
<1>6. CASE DetectUnknown
  BY <1>6 DEF DetectUnknown
<1>7. CASE DetectProxy
  BY <1>7 DEF DetectProxy
<1>8. CASE \E t \in Types : Detect(t)
  BY <1>8 DEF Detect
<1>9. CASE Greet
  BY <1>9 DEF Greet
<1>10. CASE UserPass
  BY <1>10 DEF UserPass
<1>11. CASE Request
  BY <1>11 DEF Request
<1>12. CASE NegotiationFails
  BY <1>12 DEF NegotiationFails
<1> QED
  BY <1>1, <1>2, <1>3, <1>4, <1>5, <1>6, <1>7, <1>8, <1>9, <1>10, <1>11, <1>12

\* launchProtocolBackend, and the answer it leads to.
LEMMA ProxyLaunches ==
    ASSUME Base,
           \/ Dispatch \/ Launch \/ LaunchFails \/ PollConnects \/ PollReady \/ PollExpires
           \/ AnswerReady \/ AnswerPage \/ AnswerRefresh \/ Persist
    PROVE  Base'
<1> USE NotZero
    DEF Base, Typing, Descriptors, Negotiation, Working, Backends, Stopping, Child,
        config, backends, tunnel, monitor, owner, ListenGoto
<1>1. CASE Dispatch
  BY <1>1 DEF Dispatch
<1>2. CASE Launch
  <2> DEFINE g == Lowest(Unborn(cur))
  <2>0. g \in Launches /\ proc[cur][g] = "unborn" /\ cur \in Types
    BY <1>2, NextLaunch DEF Launch
  <2>1. Typing'
    BY <1>2, <2>0 DEF Launch
  <2>2. Descriptors'
    BY <1>2, <2>0 DEF Launch
  <2>3. Negotiation'
    BY <1>2, <2>0 DEF Launch
  <2>4. Working'
    BY <1>2, <2>0 DEF Launch
  <2>5. Backends'
    BY <1>2, <2>0 DEF Launch
  <2>6. Stopping'
    BY <1>2, <2>0 DEF Launch
  <2> QED
    BY <2>1, <2>2, <2>3, <2>4, <2>5, <2>6
<1>3. CASE LaunchFails
  BY <1>3 DEF LaunchFails
<1>4. CASE PollConnects
  BY <1>4 DEF PollConnects
<1>5. CASE PollReady
  BY <1>5 DEF PollReady
<1>6. CASE PollExpires
  BY <1>6 DEF PollExpires
<1>7. CASE AnswerReady
  BY <1>7 DEF AnswerReady
<1>8. CASE AnswerPage
  BY <1>8 DEF AnswerPage, Answered
<1>9. CASE AnswerRefresh
  BY <1>9 DEF AnswerRefresh
<1>10. CASE Persist
  BY <1>10 DEF Persist, Answered
<1> QED
  BY <1>1, <1>2, <1>3, <1>4, <1>5, <1>6, <1>7, <1>8, <1>9, <1>10

\* The tunnel, its threads and its peers.
LEMMA ProxyTunnels ==
    ASSUME Base,
           \/ ConnectTunnel \/ ConnectFails \/ TunnelDone \/ TunnelClose
           \/ \E p \in {"up", "down"} :
                 \/ PipeBlocks(p) \/ PipeUnblocks(p)
                 \/ PipeEnds(p) \/ PipeFails(p) \/ PipeBreaks(p)
           \/ \E x \in {"client", "target"} : PeerCloses(x)
    PROVE  Base'
<1> USE NotZero
    DEF Base, Typing, Descriptors, Negotiation, Working, Backends, Stopping, Child,
        config, backends, tunnel, monitor, owner, ListenGoto, CloseClient
<1>1. CASE ConnectTunnel
  BY <1>1, NextFdFree DEF ConnectTunnel
<1>2. CASE ConnectFails
  BY <1>2 DEF ConnectFails
<1>3. CASE TunnelDone
  BY <1>3 DEF TunnelDone
<1>4. CASE TunnelClose
  BY <1>4 DEF TunnelClose
<1>5. ASSUME NEW p \in {"up", "down"},
             \/ PipeBlocks(p) \/ PipeUnblocks(p)
             \/ PipeEnds(p) \/ PipeFails(p) \/ PipeBreaks(p)
      PROVE  Base'
  <2> DEFINE R == piping'
             W == writing'
  <2>0. Pipe(R, W) /\ R \subseteq piping /\ W \subseteq R
    BY <1>5 DEF PipeBlocks, PipeUnblocks, PipeEnds, PipeFails, PipeBreaks, Pipe
  <2> HIDE DEF R, W
  <2>1. Typing'
    BY <2>0 DEF Pipe, R, W
  <2>2. Descriptors'
    BY <2>0 DEF Pipe, R, W
  <2>3. Negotiation'
    BY <2>0 DEF Pipe, R, W
  <2>4. Working'
    BY <2>0 DEF Pipe, R, W
  <2>5. Backends'
    BY <2>0 DEF Pipe, R, W
  <2>6. Stopping'
    BY <2>0 DEF Pipe, R, W
  <2> QED
    BY <2>1, <2>2, <2>3, <2>4, <2>5, <2>6
<1>6. CASE \E x \in {"client", "target"} : PeerCloses(x)
  BY <1>6 DEF PeerCloses
<1> QED
  BY <1>1, <1>2, <1>3, <1>4, <1>5, <1>6

\* proxyMonitorLoop, and the exit of a backend.
LEMMA ProxyMonitors ==
    ASSUME Base, Monitor \/ \E t \in Types, g \in Launches : Exit(t, g)
    PROVE  Base'
<1> USE NotZero
    DEF Base, Typing, Descriptors, Negotiation, Working, Backends, Stopping, Child,
        config, backends, tunnel, monitor, owner, MonitorGoto
<1>1. CASE MonitorStopped
  BY <1>1 DEF MonitorStopped
<1>2. CASE MonitorClearPid
  BY <1>2 DEF MonitorClearPid
<1>3. CASE MonitorClearReady
  BY <1>3 DEF MonitorClearReady
<1>4. ASSUME NEW t \in Types, MonitorReap(t) PROVE Base'
  <2>0. PICK g \in Launches : g = pid[t]
    BY <1>4 DEF MonitorReap
  <2>1. Typing'
    <3>1. proc' = [proc EXCEPT ![t][g] = "gone"]
      BY <1>4, <2>0 DEF MonitorReap
    <3>2. proc' \in [Types -> [Launches -> {"unborn", "child", "zombie", "gone"}]]
      BY <3>1
    <3>3. /\ mpc' = "clearPid" /\ mcur' = t /\ stale' = FALSE
          /\ UNCHANGED <<config, pid, ready, orphans, stop, sock, lpc, cur, tunnel, owner>>
      BY <1>4 DEF MonitorReap
    <3>4. mcur' \in Types \cup {NoType} /\ stale' \in BOOLEAN
      BY <3>3
    <3> QED
      BY <3>2, <3>3, <3>4
  <2>2. Descriptors'
    BY <1>4, <2>0 DEF MonitorReap
  <2>3. Negotiation'
    BY <1>4, <2>0 DEF MonitorReap
  <2>4. Working'
    BY <1>4, <2>0 DEF MonitorReap
  <2>5. Backends'
    BY <1>4, <2>0 DEF MonitorReap
  <2>6. Stopping'
    BY <1>4, <2>0 DEF MonitorReap
  <2> QED
    BY <2>1, <2>2, <2>3, <2>4, <2>5, <2>6
<1>5. ASSUME NEW t \in Types, NEW g \in Launches, Exit(t, g) PROVE Base'
  BY <1>5 DEF Exit
<1> QED
  BY <1>1, <1>2, <1>3, <1>4, <1>5 DEF Monitor

\* The owner: a reload retires and re-arms the relay, or stop ends it.
LEMMA ProxyOwned ==
    ASSUME Base, Owner \/ Retire \/ Rearm \/ Stop
    PROVE  Base'
<1> USE NotZero
    DEF Base, Typing, Descriptors, Negotiation, Working, Backends, Stopping, Child,
        config, backends, tunnel, monitor, owner, OwnerGoto, SignalStop
<1>1. CASE Retire
  BY <1>1 DEF Retire
<1>2. CASE Rearm
  BY <1>2 DEF Rearm
<1>3. CASE Stop
  BY <1>3 DEF Stop
<1>4. ASSUME NEW t \in Types, StopKill(t) PROVE Base'
  BY <1>4 DEF StopKill
<1>5. CASE StopJoined
  BY <1>5 DEF StopJoined
<1> QED
  BY <1>1, <1>2, <1>3, <1>4, <1>5 DEF Owner

\* Every step keeps the parts without the launches.
LEMMA ProxyStep == Base /\ [Next]_vars => Base'
<1> SUFFICES ASSUME Base, [Next]_vars PROVE Base'
  OBVIOUS
<1>1. CASE UNCHANGED vars
  BY <1>1
     DEF Base, Typing, Descriptors, Negotiation, Working, Backends, Stopping, Child, vars
<1> QED
  BY <1>1, ProxyAccepts, ProxyLaunches, ProxyTunnels, ProxyMonitors, ProxyOwned
     DEF Next, Listen, Clients

\* Who is born stays born and who is reaped stays reaped, so a poll goes on waiting for the same
\* backend, unless its pid is cleared.
LEMMA LaunchedKept ==
    ASSUME Base, Launched,
           \A t \in Types, g \in Launches :
               /\ proc[t][g] = "unborn" <=> proc'[t][g] = "unborn"
               /\ proc[t][g] = "gone" => proc'[t][g] = "gone",
           orphans \subseteq orphans',
           \A t \in Types : pid'[t] \in {pid[t], 0},
           lpc' \in {"poll", "connected"} =>
               /\ lpc \in {"poll", "connected"} /\ cur' = cur
               /\ \/ pid'[cur] = pid[cur]
                  \/ /\ pid'[cur] = 0
                     /\ pid[cur] # 0 =>
                           proc[cur][pid[cur]] = "gone" \/ <<cur, pid[cur]>> \in orphans'
    PROVE  Launched'
<1>1. Born'
  BY DEF Launched, Born
<1>0. Known'
  BY DEF Launched, Known, Base, Typing
<1>2. ASSUME lpc' \in {"poll", "connected"}
      PROVE  (\E g \in Launches :
                 /\ Youngest(cur, g)
                 /\ \/ pid[cur] = g
                    \/ pid[cur] = 0 /\ (proc[cur][g] = "gone" \/ <<cur, g>> \in orphans))'
  <2>1. cur \in Types /\ cur' = cur
    BY <1>2 DEF Base, Working
  <2>2. PICK g \in Launches :
          /\ Youngest(cur, g)
          /\ \/ pid[cur] = g
             \/ pid[cur] = 0 /\ (proc[cur][g] = "gone" \/ <<cur, g>> \in orphans)
    BY <1>2 DEF Launched
  <2>3. Youngest(cur, g)'
    BY <2>1, <2>2 DEF Youngest
  <2>4. \/ pid'[cur] = g
        \/ pid'[cur] = 0 /\ (proc'[cur][g] = "gone" \/ <<cur, g>> \in orphans')
    BY <1>2, <2>1, <2>2, NotZero
  <2> QED
    BY <2>1, <2>2, <2>3, <2>4
<1> QED
  BY <1>0, <1>1, <1>2 DEF Launched

\* The poll starts with the launch of the youngest.
LEMMA LaunchedByLaunch ==
    ASSUME Base, Launched, Launch
    PROVE  Launched'
<1>1. cur \in Types /\ cur' = cur
  BY DEF Launch, Base, Working
<1>0. PICK g \in Launches : g = Lowest(Unborn(cur))
  BY <1>1, NextLaunch DEF Launch
<1>2. /\ proc[cur][g] = "unborn"
      /\ \A h \in Launches : proc[cur][h] = "unborn" => g <= h
  BY <1>0, <1>1, NextLaunch DEF Launch
<1>3. proc' = [proc EXCEPT ![cur][g] = "child"] /\ pid' = [pid EXCEPT ![cur] = g]
  BY <1>0 DEF Launch
<1>4. \A t \in Types, h \in Launches :
          proc'[t][h] = IF t = cur /\ h = g THEN "child" ELSE proc[t][h]
  BY <1>1, <1>2, <1>3 DEF Base, Typing
<1>5. Launches \subseteq Nat
  BY ProxyAssumption DEF Launches
<1>6. Born'
  <2> SUFFICES ASSUME NEW t \in Types, NEW a \in Launches, NEW h \in Launches,
                      h > a, proc'[t][a] = "unborn"
               PROVE  proc'[t][h] = "unborn"
    BY DEF Born
  <2>1. proc[t][a] = "unborn" /\ ~(t = cur /\ a = g)
    BY <1>4
  <2>2. proc[t][h] = "unborn"
    BY <2>1 DEF Launched, Born
  <2>3. ~(t = cur /\ h = g)
    BY <1>2, <1>5, <2>1
  <2> QED
    BY <1>4, <2>2, <2>3
<1>7. Youngest(cur, g)'
  <2>1. \A h \in Launches : h > g => proc[cur][h] = "unborn" /\ h # g
    BY <1>1, <1>2, <1>5 DEF Launched, Born
  <2> QED
    BY <1>1, <1>2, <1>4, <2>1 DEF Youngest
<1>8. pid'[cur'] = g
  BY <1>1, <1>3 DEF Base, Typing
<1>9. \A t \in Types : pid'[t] = IF t = cur THEN g ELSE pid[t]
  BY <1>3 DEF Base, Typing
<1>10. Known'
  BY <1>1, <1>2, <1>4, <1>9, NotZero DEF Launched, Known, Base, Typing
<1> QED
  BY <1>1, <1>2, <1>6, <1>7, <1>8, <1>10 DEF Launched

\* The listen thread touches backends_ in three places besides the store to ready.
LEMMA OthersKeepBackends ==
    ASSUME Listen \/ Clients \/ Persist
    PROVE  \/ ListenInit \/ Launch \/ LaunchFails
           \/ PollReady /\ UNCHANGED <<proc, pid, mpc, mcur>>
           \/ UNCHANGED <<proc, pid, ready, mpc, mcur>>
<1> USE DEF ListenGoto, CloseClient, Answered, backends, tunnel, config, monitor, owner
<1>1. CASE Listen
  BY <1>1
     DEF Listen, ListenBind, ListenStopped, ListenAccept, Dispatch, PollConnects, PollReady,
         PollExpires, AnswerReady, AnswerPage, ConnectTunnel, ConnectFails, TunnelDone,
         TunnelClose, DetectUnknown, NegotiationFails
<1>2. CASE Clients
  BY <1>2
     DEF Clients, ListenConnected, DetectUnknown, DetectProxy, Detect, Greet, UserPass, Request,
         NegotiationFails, AnswerRefresh, PeerCloses
<1>3. CASE Persist
  BY <1>3 DEF Persist
<1> QED
  BY <1>1, <1>2, <1>3

\* The steps of the pipe threads.
Pipes ==
    \E p \in {"up", "down"} :
        PipeBlocks(p) \/ PipeUnblocks(p) \/ PipeEnds(p) \/ PipeFails(p) \/ PipeBreaks(p)

LEMMA PipesKeep ==
    ASSUME Pipes
    PROVE  UNCHANGED <<proc, orphans, lpc, cur, pid, ready, mpc, mcur>>
  BY DEF Pipes, PipeBlocks, PipeUnblocks, PipeEnds, PipeFails, PipeBreaks, Pipe, backends, monitor

\* The rest of the listen thread touches no process, and only launchProtocolBackend polls.
LEMMA LaunchedByListen ==
    ASSUME Base, Listen \/ Clients \/ Persist
    PROVE  \/ Launch
           \/ /\ UNCHANGED <<proc, orphans>> /\ \A t \in Types : pid'[t] \in {pid[t], 0}
              /\ lpc' \in {"poll", "connected"} =>
                    lpc \in {"poll", "connected"} /\ UNCHANGED <<cur, pid>>
<1> USE DEF Base, Typing, ListenGoto, CloseClient, Answered, backends, tunnel, config, monitor,
            owner
<1>1. CASE Listen
  BY <1>1
     DEF Listen, ListenInit, ListenBind, ListenStopped, ListenAccept, Dispatch, LaunchFails,
         PollConnects, PollReady, PollExpires, AnswerReady, AnswerPage, ConnectTunnel,
         ConnectFails, TunnelDone, TunnelClose, DetectUnknown, NegotiationFails
<1>2. CASE Clients
  BY <1>2
     DEF Clients, ListenConnected, DetectUnknown, DetectProxy, Detect, Greet, UserPass, Request,
         NegotiationFails, AnswerRefresh, PeerCloses
<1>3. CASE Persist
  BY <1>3 DEF Persist
<1> QED
  BY <1>1, <1>2, <1>3

\* Every step keeps the order of the launches.
LEMMA LaunchedStep == Inv /\ [Next]_vars => Launched'
<1> SUFFICES ASSUME Base, Launched, [Next]_vars PROVE Launched'
  BY DEF Inv
<1>1. CASE Launch
  BY <1>1, LaunchedByLaunch
<1>2. CASE /\ UNCHANGED <<proc, orphans>> /\ \A t \in Types : pid'[t] \in {pid[t], 0}
           /\ lpc' \in {"poll", "connected"} =>
                 lpc \in {"poll", "connected"} /\ UNCHANGED <<cur, pid>>
  BY <1>2, LaunchedKept
<1>3. ASSUME NEW t \in Types, MonitorReap(t) PROVE Launched'
  <2>1. /\ pid[t] \in Launches /\ proc' = [proc EXCEPT ![t][pid[t]] = "gone"]
        /\ proc[t][pid[t]] # "unborn"
        /\ UNCHANGED <<orphans, lpc, cur, pid>>
    BY <1>3 DEF MonitorReap, MonitorGoto, Base, Typing, Launched, Known
  <2> QED
    BY <2>1, LaunchedKept DEF Base, Typing
<1>4. CASE MonitorClearPid
  <2>1. /\ UNCHANGED <<proc, lpc, cur>> /\ pid' = [pid EXCEPT ![mcur] = 0]
        /\ orphans' = IF stale THEN orphans \cup {<<mcur, pid[mcur]>>} ELSE orphans
        /\ mpc = "clearPid"
    BY <1>4 DEF MonitorClearPid, MonitorGoto
  <2>2. ~stale => proc[mcur][pid[mcur]] = "gone"
    BY <2>1 DEF Base, Backends
  <2>3. \A t \in Types : pid'[t] = IF t = mcur THEN 0 ELSE pid[t]
    BY <2>1 DEF Base, Typing
  <2>4. orphans \subseteq orphans'
    BY <2>1
  <2>5. lpc \in {"poll", "connected"} => cur \in Types
    BY DEF Base, Working
  <2>6. ASSUME lpc \in {"poll", "connected"}, mcur = cur
        PROVE  proc[cur][pid[cur]] = "gone" \/ <<cur, pid[cur]>> \in orphans'
    BY <2>1, <2>2, <2>6
  <2> QED
    BY <2>1, <2>3, <2>4, <2>5, <2>6, LaunchedKept
<1>5. ASSUME NEW t \in Types, NEW g \in Launches, Exit(t, g) PROVE Launched'
  <2>1. /\ proc[t][g] = "child" /\ proc' = [proc EXCEPT ![t][g] = "zombie"]
        /\ UNCHANGED <<orphans, lpc, cur, pid>>
    BY <1>5 DEF Exit, Child
  <2> QED
    BY <2>1, LaunchedKept DEF Base, Typing
<1>6. ASSUME NEW t \in Types, StopKill(t) PROVE Launched'
  <2>1. UNCHANGED <<orphans, lpc, cur, pid>>
    BY <1>6 DEF StopKill, OwnerGoto
  <2>2. CASE pid[t] = 0
    BY <1>6, <2>1, <2>2, LaunchedKept DEF StopKill
  <2>3. CASE pid[t] # 0
    <3>1. proc' = [proc EXCEPT ![t][pid[t]] = IF @ = "child" THEN "zombie" ELSE "gone"]
      BY <1>6, <2>3 DEF StopKill
    <3>2. pid[t] \in Launches /\ proc[t][pid[t]] # "unborn"
      BY <1>6, <2>3 DEF StopKill, Base, Typing, Launched, Known
    <3> QED
      BY <2>1, <3>1, <3>2, LaunchedKept DEF Base, Typing
  <2> QED
    BY <2>2, <2>3
<1>7. ASSUME Pipes \/ MonitorStopped \/ MonitorClearReady \/ UNCHANGED vars
      PROVE  UNCHANGED <<proc, orphans, lpc, cur, pid>>
  BY <1>7, PipesKeep
     DEF MonitorStopped, MonitorClearReady, MonitorGoto, backends, config, vars
<1>8. ASSUME Retire \/ Rearm \/ Stop \/ StopJoined
      PROVE  UNCHANGED <<proc, orphans, cur, pid>> /\ (lpc' = lpc \/ lpc' = "init")
  BY <1>8 DEF Retire, Rearm, Stop, StopJoined, OwnerGoto
<1> QED
  BY <1>1, <1>2, <1>3, <1>4, <1>5, <1>6, <1>7, <1>8, LaunchedByListen DEF Next, Monitor, Owner, Pipes

\* The inductive invariant.
THEOREM ProxyInvariant == Spec => []Inv
<1>1. Inv /\ [Next]_vars => Inv'
  BY ProxyStep, LaunchedStep DEF Inv
<1> QED
  BY <1>1, ProxyInit, PTL DEF Spec

\* TypeOK is a consequence: every variable stays within its type.
THEOREM ProxyTypeCorrect == Spec => []TypeOK
<1>1. Inv => TypeOK
  BY DEF Inv, Base, Typing, TypeOK
<1> QED
  BY <1>1, ProxyInvariant, PTL

\* The descriptors of a connection are closed on every path but the waiting page's.
THEOREM DescriptorsClosed == Spec => []FdsAccounted
<1>1. Inv => FdsAccounted
  BY NotZero DEF Inv, Base, Typing, Descriptors, FdsAccounted
<1> QED
  BY <1>1, ProxyInvariant, PTL

\* When stop() has returned, no thread, socket, tunnel or other descriptor is left, except
\* those of the waiting pages.
THEOREM ProxyStopsClean == Spec => []StoppedClean
<1>1. Inv => StoppedClean
  BY NotZero DEF Inv, Base, Typing, Descriptors, Stopping, StoppedClean
<1> QED
  BY <1>1, ProxyInvariant, PTL

\* With userpass, no target is connected to before USER/PASS has been accepted.
THEOREM Authorised == Spec => []TunnelAuthorised
<1>1. Inv => TunnelAuthorised
  BY DEF Inv, Base, Negotiation, TunnelAuthorised
<1> QED
  BY <1>1, ProxyInvariant, PTL

\* A launch takes the place of no running backend: only a re-arm, or a monitor with a reference
\* into the old vector, forgets one.
THEOREM ForgottenByRearm == Spec => ForgottenOnlyByRearm
<1> DEFINE Late == \A t \in Types, g \in Launches :
                      Forgotten(t, g)' /\ ~Forgotten(t, g) =>
                          (lpc = "init" /\ pid[t] = g) \/ <<t, g>> \in orphans'
<1>1. Inv /\ [Next]_vars => Late
  <2> SUFFICES ASSUME Inv, [Next]_vars, NEW t \in Types, NEW g \in Launches,
                      Forgotten(t, g)', ~Forgotten(t, g)
               PROVE  (lpc = "init" /\ pid[t] = g) \/ <<t, g>> \in orphans'
    OBVIOUS
  <2>0. g # 0 /\ proc'[t][g] = "child" /\ pid'[t] # g
    BY NotZero DEF Forgotten, Child
  <2>1. ASSUME proc'[t][g] = "child" => proc[t][g] = "child", UNCHANGED pid
        PROVE  FALSE
    BY <2>0, <2>1 DEF Forgotten, Child
  <2>2. ASSUME UNCHANGED proc PROVE pid[t] = g
    BY <2>0, <2>2 DEF Forgotten, Child
  <2>3. CASE ListenInit
    BY <2>2, <2>3 DEF ListenInit
  <2>4. CASE Launch
    <3> DEFINE h == Lowest(Unborn(cur))
    <3>1. /\ cur \in Types /\ pid[cur] = 0 /\ h \in Launches
          /\ proc' = [proc EXCEPT ![cur][h] = "child"] /\ pid' = [pid EXCEPT ![cur] = h]
      BY <2>4, NextLaunch DEF Launch, Inv, Base, Working
    <3> HIDE DEF h
    <3>2. t = cur => h # g
      BY <2>0, <3>1 DEF Inv, Base, Typing
    <3>3. proc[t][g] = "child"
      BY <2>0, <3>1, <3>2 DEF Inv, Base, Typing
    <3>4. t # cur
      BY <2>0, <3>1, <3>3 DEF Forgotten, Child
    <3> QED
      BY <2>0, <3>1, <3>3, <3>4 DEF Forgotten, Child, Inv, Base, Typing
  <2>5. CASE LaunchFails
    <3>1. pid[cur] = 0 /\ pid' = [pid EXCEPT ![cur] = 0] /\ UNCHANGED proc
      BY <2>5 DEF LaunchFails, Inv, Base, Working
    <3> QED
      BY <2>0, <2>2, <3>1 DEF Inv, Base, Typing
  <2>6. CASE MonitorClearPid
    <3>1. /\ pid' = [pid EXCEPT ![mcur] = 0] /\ UNCHANGED proc
          /\ orphans' = IF stale THEN orphans \cup {<<mcur, pid[mcur]>>} ELSE orphans
          /\ ~stale => proc[mcur][pid[mcur]] = "gone"
      BY <2>6 DEF MonitorClearPid, Inv, Base, Backends
    <3>2. t = mcur /\ pid[mcur] = g
      BY <2>0, <2>2, <3>1 DEF Inv, Base, Typing
    <3> QED
      BY <2>0, <3>1, <3>2
  <2>7. ASSUME Listen \/ Clients \/ Persist
        PROVE  ListenInit \/ Launch \/ LaunchFails \/ UNCHANGED <<proc, pid>>
    BY <2>7, OthersKeepBackends
  <2>8. ASSUME \/ \E u \in Types : MonitorReap(u) \/ StopKill(u)
               \/ \E u \in Types, h \in Launches : Exit(u, h)
        PROVE  UNCHANGED pid /\ (proc'[t][g] = "child" => proc[t][g] = "child")
    <3>1. ASSUME NEW u \in Types, MonitorReap(u)
          PROVE  UNCHANGED pid /\ (proc'[t][g] = "child" => proc[t][g] = "child")
      BY <3>1 DEF MonitorReap, Inv, Base, Typing
    <3>2. ASSUME NEW u \in Types, StopKill(u)
          PROVE  UNCHANGED pid /\ (proc'[t][g] = "child" => proc[t][g] = "child")
      <4>1. UNCHANGED pid
        BY <3>2 DEF StopKill, OwnerGoto
      <4>2. CASE pid[u] = 0
        BY <3>2, <4>1, <4>2 DEF StopKill
      <4>3. CASE pid[u] # 0
        <5> DEFINE new == IF proc[u][pid[u]] = "child" THEN "zombie" ELSE "gone"
        <5>1. proc' = [proc EXCEPT ![u][pid[u]] = new] /\ new # "child"
          BY <3>2, <4>3 DEF StopKill, Inv, Base, Typing
        <5> HIDE DEF new
        <5> QED
          BY <4>1, <5>1 DEF Inv, Base, Typing
      <4> QED
        BY <4>2, <4>3
    <3>3. ASSUME NEW u \in Types, NEW h \in Launches, Exit(u, h)
          PROVE  UNCHANGED pid /\ (proc'[t][g] = "child" => proc[t][g] = "child")
      BY <3>3 DEF Exit, Inv, Base, Typing
    <3> QED
      BY <2>8, <3>1, <3>2, <3>3
  <2>9. ASSUME \/ Pipes \/ MonitorStopped \/ MonitorClearReady
               \/ Retire \/ Rearm \/ Stop \/ StopJoined \/ UNCHANGED vars
        PROVE  UNCHANGED <<proc, pid>>
    BY <2>9, PipesKeep
       DEF MonitorStopped, MonitorClearReady, MonitorGoto, backends, Retire, Rearm, Stop,
           StopJoined, OwnerGoto, vars
  <2> QED
    BY <2>1, <2>3, <2>4, <2>5, <2>6, <2>7, <2>8, <2>9 DEF Next, Monitor, Owner, Pipes
<1>2. Inv /\ [Next]_vars => [Late]_vars
  BY <1>1
<1> QED
  BY <1>2, ProxyInvariant, PTL DEF Spec, ForgottenOnlyByRearm

\* ready without a pid: only a poll's store makes it so, and then the backend just launched has
\* been reaped before, or orphaned. The monitor clears both, and a launch sets the pid.
THEOREM ReadyLate == Spec => ReadyOnlyLate
<1> DEFINE Late == \A t \in Types :
                      ReadyOnly(t)' /\ ~ReadyOnly(t) =>
                        /\ lpc = "connected" /\ cur = t
                        /\ \E g \in Launches :
                              Youngest(t, g) /\ (proc[t][g] = "gone" \/ <<t, g>> \in orphans)
<1>1. Inv /\ [Next]_vars => Late
  <2> SUFFICES ASSUME Inv, [Next]_vars, NEW t \in Types, ReadyOnly(t)', ~ReadyOnly(t)
               PROVE  /\ lpc = "connected" /\ cur = t
                      /\ \E g \in Launches :
                            Youngest(t, g) /\ (proc[t][g] = "gone" \/ <<t, g>> \in orphans)
    OBVIOUS
  <2> USE DEF Inv, Base, Typing, Working, ReadyOnly, config, backends, tunnel, monitor, owner
  <2>1. ASSUME UNCHANGED <<pid, ready, mpc, mcur>> PROVE FALSE
    BY <2>1
  <2>2. ASSUME UNCHANGED <<pid, ready>>, mpc # "clearReady" PROVE FALSE
    BY <2>2
  <2>3. ASSUME ListenInit PROVE FALSE
    BY <2>3 DEF ListenInit, ListenGoto
  <2>4. ASSUME Launch PROVE FALSE
    <3> DEFINE g == Lowest(Unborn(cur))
    <3>1. g \in Launches /\ cur \in Types
      BY <2>4, NextLaunch DEF Launch
    <3> QED
      BY <2>4, <3>1, NotZero DEF Launch, ListenGoto
  <2>5. ASSUME LaunchFails PROVE FALSE
    BY <2>5 DEF LaunchFails, ListenGoto
  <2>6. CASE PollReady
    <3>1. lpc = "connected" /\ cur = t /\ pid[t] = 0
      BY <2>6 DEF PollReady, ListenGoto
    <3> QED
      BY <3>1, NotZero DEF Launched
  <2>7. ASSUME MonitorClearPid PROVE FALSE
    BY <2>7 DEF MonitorClearPid, MonitorGoto
  <2>8. ASSUME MonitorClearReady PROVE FALSE
    BY <2>8 DEF MonitorClearReady, MonitorGoto
  <2>9. ASSUME Listen \/ Clients \/ Persist
        PROVE  \/ ListenInit \/ Launch \/ LaunchFails \/ PollReady
               \/ UNCHANGED <<pid, ready, mpc, mcur>>
    BY <2>9, OthersKeepBackends
  <2>10. ASSUME Pipes PROVE UNCHANGED <<pid, ready, mpc, mcur>>
    BY <2>10, PipesKeep
  <2>11. ASSUME Monitor
         PROVE  \/ MonitorClearPid \/ MonitorClearReady
                \/ UNCHANGED <<pid, ready>> /\ mpc # "clearReady"
    BY <2>11 DEF Monitor, MonitorGoto, MonitorStopped, MonitorReap
  <2>12. ASSUME Owner \/ Retire \/ Rearm \/ Stop
         PROVE  \/ UNCHANGED <<pid, ready, mpc, mcur>>
                \/ UNCHANGED <<pid, ready>> /\ mpc # "clearReady"
    BY <2>12 DEF Owner, OwnerGoto, Retire, Rearm, Stop, StopKill, StopJoined
  <2>13. ASSUME \/ \E u \in Types, g \in Launches : Exit(u, g)
                \/ UNCHANGED vars
         PROVE  UNCHANGED <<pid, ready, mpc, mcur>>
    BY <2>13 DEF Exit, vars
  <2> HIDE DEF Inv, Base, Typing, Working, ReadyOnly
  <2> QED
    BY <2>1, <2>2, <2>3, <2>4, <2>5, <2>6, <2>7, <2>8, <2>9, <2>10, <2>11, <2>12, <2>13
       DEF Next, Pipes
<1>2. Inv /\ [Next]_vars => [Late]_vars
  BY <1>1
<1> QED
  BY <1>2, ProxyInvariant, PTL DEF Spec, ReadyOnlyLate
=============================================================================
