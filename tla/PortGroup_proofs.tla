---------------------------- MODULE PortGroup_proofs ----------------------------
(***************************************************************************)
(* Proofs about PortGroup, for any finite number of relays and launches.   *)
(*                                                                         *)
(* The inductive invariant has six parts: who holds mtx_ (Locked), where   *)
(* the listening socket may be open (Sockets), that backendPid_ holds what *)
(* was launched (Born), that a thread which is about to clear it has seen  *)
(* its own backend gone (Backends), that the relays still to be launched   *)
(* have not been launched since launched_ was last cleared (Launching),    *)
(* and how far PortGroup::stop has come with the relays that nobody else   *)
(* has out of service (Stopping).                                          *)
(***************************************************************************)
EXTENDS PortGroup, TLAPS

\* TypeOK, with the functions' domains.
Types ==
    /\ launched \in BOOLEAN /\ mutex \in Relays \cup {Nobody, Main}
    /\ todo \subseteq Relays /\ period \subseteq Relays /\ raced \subseteq Relays
    /\ fresh \subseteq Relays \X Launches
    /\ proc \in [Relays -> [Launches -> {"unborn", "child", "zombie", "gone"}]]
    /\ pid \in [Relays -> Launches \cup {0}] /\ mpid \in [Relays -> Launches \cup {0}]
    /\ gpid \in [Relays -> Launches \cup {0}]
    /\ sock \in [Relays -> {"closed", "open", "orphaned", "shut"}]
    /\ stop \in [Relays -> BOOLEAN]
    /\ lpc \in [Relays -> {"top", "bind", "accept", "accepting", "refresh", "notify", "group",
                           "exited"}]
    /\ mpc \in [Relays -> {"idle", "wait", "probe", "poll", "adopt", "clear", "exited"}]
    /\ opc \in [Relays -> {"serving", "pending", "evicting", "pendingClear", "evictClear",
                           "signal", "joinListen", "joinMonitor", "rearm", "doubled"}]
    /\ idling \in Relays \cup {Nobody} /\ joining \in Relays \cup {Nobody}
    /\ jpc \in {"listen", "monitor"} /\ main \in {"running", "stopping", "stopped"}

\* A listen thread holds the mutex exactly in its loop over relays_, main in stop.
Locked ==
    /\ \A r \in Relays : lpc[r] = "group" <=> mutex = r
    /\ mutex = Main <=> main = "stopping"

\* Outside the accept loop the socket is closed, and only under a blocked accept() is it
\* anything but open or closed.
Sockets ==
    \A r \in Relays :
        /\ lpc[r] \in {"top", "bind", "exited"} => sock[r] = "closed"
        /\ sock[r] \in {"orphaned", "shut"} => lpc[r] = "accepting"

\* What is in backendPid_, or about to be, was launched.
Born ==
    \A r \in Relays : \A g \in Launches :
        pid[r] = g \/ (mpc[r] = "adopt" /\ mpid[r] = g) \/ <<r, g>> \in fresh =>
            proc[r][g] # "unborn"

\* The backend that a monitor thread has waited for is gone before its window or its poll
\* ends, and the one that gracefulStop has dealt with does not run either.
Backends ==
    \A r \in Relays :
        /\ mpc[r] = "wait" => mpid[r] # 0
        /\ mpc[r] \in {"probe", "poll", "clear"} =>
              mpid[r] # 0 /\ proc[r][mpid[r]] = "gone"
        /\ opc[r] \in {"pendingClear", "evictClear"} =>
              gpid[r] # 0 /\ proc[r][gpid[r]] \in {"zombie", "gone"}

\* launched_ is set when the loop begins; one launch at a time waits to be recorded, and
\* every other relay that the loop has not come to is still to be launched.
Launching ==
    /\ ~launched => period = {}
    /\ \A x, y \in fresh : x = y
    /\ \A x \in fresh : x[1] \in todo /\ mutex \in Relays
    /\ mutex \in Relays => launched /\ \A r \in todo \cap period : \E g \in Launches : <<r, g>> \in fresh

\* Main is done with a relay.
Done(r) == \/ main = "stopped"
           \/ main = "stopping" /\ r \notin todo

\* The relays that stop has come to are stopped, those it is done with are joined; nobody
\* has them out of service, unless it is known that somebody had.
Stopping ==
    /\ joining # Nobody => main = "stopping" /\ joining \in todo
    /\ main # "running" =>
          \A r \in Relays \ raced :
              /\ opc[r] = "serving"
              /\ joining = r /\ jpc = "monitor" => lpc[r] = "exited"
              /\ Done(r) => lpc[r] = "exited" /\ mpc[r] = "exited"

\* The inductive invariant of the group.
Inv == Types /\ Locked /\ Sockets /\ Born /\ Backends /\ Launching /\ Stopping

-----------------------------------------------------------------------------
(* The invariant is inductive.                                             *)

\* The group starts unlaunched, with every thread about to run.
LEMMA GroupInit == Init => Inv
<1> SUFFICES ASSUME Init PROVE Inv
  OBVIOUS
<1> USE GroupAssumption DEF Init, Launches, Child
<1>1. Types
  BY DEF Types
<1>2. Locked
  BY DEF Locked
<1>3. Sockets
  BY DEF Sockets
<1>4. Born /\ Backends
  BY DEF Born, Backends
<1>5. Launching
  BY DEF Launching
<1>6. Stopping
  BY DEF Stopping
<1> QED
  BY <1>1, <1>2, <1>3, <1>4, <1>5, <1>6 DEF Inv

\* A backend changes its state.
LEMMA ProcType ==
    ASSUME Types, NEW r \in Relays, NEW g \in Launches,
           NEW s \in {"unborn", "child", "zombie", "gone"}
    PROVE  [proc EXCEPT ![r][g] = s]
              \in [Relays -> [Launches -> {"unborn", "child", "zombie", "gone"}]]
<1>1. [proc[r] EXCEPT ![g] = s] \in [Launches -> {"unborn", "child", "zombie", "gone"}]
  BY DEF Types
<1> QED
  BY <1>1 DEF Types

\* Every step of a listen thread.
LEMMA GroupListen ==
    ASSUME Inv, NEW r \in Relays, Listen(r) \/ ListenConnected(r)
    PROVE  Inv'
<1> USE GroupAssumption
    DEF Inv, Types, Locked, Sockets, Born, Backends, Launching, Stopping, Done, Child, Launches,
        group, owners, mains, ListenGoto, LeavesLoop, Close
<1>1. CASE ListenStopped(r)
  BY <1>1 DEF ListenStopped
<1>2. CASE ListenTop(r)
  BY <1>2 DEF ListenTop
<1>3. CASE ListenBind(r)
  BY <1>3 DEF ListenBind
<1>4. CASE ListenBindFails(r)
  BY <1>4 DEF ListenBindFails
<1>5. CASE ListenAccept(r)
  BY <1>5 DEF ListenAccept
<1>6. CASE ListenInterrupted(r)
  BY <1>6 DEF ListenInterrupted
<1>7. CASE ListenConnected(r)
  <2>1. PICK label \in {"refresh", "notify"} : lpc' = [lpc EXCEPT ![r] = label]
    BY <1>7 DEF ListenConnected
  <2>2. Types'
    BY <1>7, <2>1 DEF ListenConnected
  <2>3. Locked'
    BY <1>7, <2>1 DEF ListenConnected
  <2>4. Sockets'
    BY <1>7, <2>1 DEF ListenConnected
  <2>5. Born' /\ Backends'
    BY <1>7 DEF ListenConnected
  <2>6. Launching'
    BY <1>7 DEF ListenConnected
  <2>7. Stopping'
    BY <1>7, <2>1 DEF ListenConnected
  <2> QED
    BY <2>2, <2>3, <2>4, <2>5, <2>6, <2>7
<1>8. CASE ListenRefresh(r)
  BY <1>8 DEF ListenRefresh
<1>9. CASE GroupEnter(r)
  BY <1>9 DEF GroupEnter
<1>10. CASE GroupSkip(r)
  BY <1>10 DEF GroupSkip
<1>11. ASSUME NEW s \in Relays, GroupFork(r, s) PROVE Inv'
  <2>1. PICK g \in Launches : /\ proc[s][g] = "unborn"
                             /\ proc' = [proc EXCEPT ![s][g] = "child"]
                             /\ fresh' = {<<s, g>>}
    BY <1>11 DEF GroupFork, Unborn
  <2>2. /\ UNCHANGED <<launched, mutex, todo, pid, sock, stop, lpc, mpc, mpid, owners>>
        /\ period' = period \cup {s} /\ s \in todo /\ lpc[r] = "group"
    BY <1>11 DEF GroupFork
  <2>3. proc' \in [Relays -> [Launches -> {"unborn", "child", "zombie", "gone"}]]
    BY <2>1, ProcType
  <2>4. Types'
    BY <2>1, <2>2, <2>3
  <2>5. Locked' /\ Sockets' /\ Stopping'
    BY <2>2
  <2>6. Born' /\ Backends'
    <3>1. \A q \in Relays : \A h \in Launches :
             proc'[q][h] = IF q = s /\ h = g THEN "child" ELSE proc[q][h]
      BY <2>1
    <3>2. \A q \in Relays : \A h \in Launches : <<q, h>> \in fresh' => q = s /\ h = g
      BY <2>1
    <3>3. Born'
      <4>1. UNCHANGED <<pid, mpc, mpid>>
        BY <2>2
      <4> HIDE DEF Types, Locked, Sockets, Backends, Launching, Stopping
      <4> QED
        BY <3>1, <3>2, <4>1
    <3>4. Backends'
      BY <2>1, <2>2, <3>1
    <3> QED
      BY <3>3, <3>4
  <2>7. Launching'
    <3>1. \A q \in todo \cap period' : q = s
      BY <1>11, <2>2 DEF GroupFork
    <3> QED
      BY <2>1, <2>2, <3>1
  <2> QED
    BY <2>4, <2>5, <2>6, <2>7
<1>12. ASSUME NEW s \in Relays, GroupRecord(r, s) PROVE Inv'
  <2>1. PICK g \in Launches : <<s, g>> \in fresh /\ pid' = [pid EXCEPT ![s] = g]
    BY <1>12 DEF GroupRecord
  <2>2. /\ UNCHANGED <<launched, mutex, period, proc, stop, lpc, mpc, mpid, owners>>
        /\ fresh' = {} /\ todo' = todo \ {s} /\ lpc[r] = "group" /\ Close(s)
    BY <1>12 DEF GroupRecord
  <2>3. Types'
    BY <2>1, <2>2
  <2>4. Locked' /\ Sockets' /\ Born' /\ Backends'
    <3>1. Locked' /\ Sockets' /\ Backends'
      BY <2>2
    <3>2. \A q \in Relays : pid'[q] = IF q = s THEN g ELSE pid[q]
      BY <2>1
    <3>3. UNCHANGED <<proc, mpc, mpid>> /\ fresh' = {}
      BY <2>2
    <3>4. Born'
      <4> SUFFICES ASSUME NEW q \in Relays, NEW h \in Launches,
                          pid'[q] = h \/ (mpc[q] = "adopt" /\ mpid[q] = h)
                   PROVE  proc[q][h] # "unborn"
        BY <3>3
      <4>1. CASE q = s /\ h = g
        BY <2>1, <4>1
      <4> HIDE DEF Types, Locked, Sockets, Backends, Launching, Stopping
      <4>2. CASE ~(q = s /\ h = g)
        BY <3>2, <4>2
      <4> QED
        BY <4>1, <4>2
    <3> QED
      BY <3>1, <3>4
  <2>5. Launching'
    <3>1. \A q \in todo \cap period : q = s
      <4> SUFFICES ASSUME NEW q \in todo \cap period PROVE q = s
        OBVIOUS
      <4>1. mutex \in Relays
        BY <2>1
      <4>2. PICK h \in Launches : <<q, h>> \in fresh
        BY <4>1
      <4>3. <<q, h>> = <<s, g>>
        BY <2>1, <4>2
      <4> QED
        BY <4>3
    <3>2. /\ \A q \in todo' \cap period' : FALSE
          /\ \A x \in fresh' : FALSE
      BY <2>2, <3>1
    <3>3. (~launched => period = {}) /\ (mutex \in Relays => launched)
      OBVIOUS
    <3>4. UNCHANGED <<launched, mutex, period>>
      BY <2>2
    <3> HIDE DEF Types, Locked, Sockets, Born, Backends, Stopping, Inv
    <3> QED
      BY <3>2, <3>3, <3>4
  <2>6. Stopping'
    <3>1. main # "stopping"
      BY <2>2
    <3> QED
      BY <2>2, <3>1
  <2> QED
    BY <2>3, <2>4, <2>5, <2>6
<1>13. ASSUME NEW s \in Relays, GroupPass(r, s) PROVE Inv'
  <2>1. main # "stopping"
    BY <1>13 DEF GroupPass
  <2>2. Types' /\ Locked' /\ Sockets' /\ Born' /\ Backends'
    BY <1>13 DEF GroupPass
  <2>3. Launching'
    BY <1>13 DEF GroupPass
  <2>4. Stopping'
    BY <1>13, <2>1 DEF GroupPass
  <2> QED
    BY <2>2, <2>3, <2>4
<1>14. CASE GroupLeave(r)
  BY <1>14 DEF GroupLeave
<1> QED
  BY <1>1, <1>2, <1>3, <1>4, <1>5, <1>6, <1>7, <1>8, <1>9, <1>10, <1>11, <1>12, <1>13, <1>14
     DEF Listen

\* Every step of a monitor thread.
LEMMA GroupMonitor ==
    ASSUME Inv, NEW r \in Relays, Monitor(r)
    PROVE  Inv'
<1> USE GroupAssumption
    DEF Inv, Types, Locked, Sockets, Born, Backends, Launching, Stopping, Done, Child, Launches,
        group, owners, mains, MonitorGoto
<1>1. CASE MonitorStopped(r)
  BY <1>1 DEF MonitorStopped
<1>2. CASE MonitorSees(r)
  <2>1. /\ mpc' = [mpc EXCEPT ![r] = "wait"] /\ mpid' = [mpid EXCEPT ![r] = pid[r]]
        /\ pid[r] # 0 /\ mpc[r] = "idle"
        /\ UNCHANGED <<group, proc, pid, sock, stop, lpc, owners>>
    BY <1>2 DEF MonitorSees
  <2>2. Types' /\ Locked' /\ Sockets' /\ Launching' /\ Stopping'
    BY <2>1
  <2>3. Born'
    <3>1. \A q \in Relays : q # r => mpc'[q] = mpc[q] /\ mpid'[q] = mpid[q]
      BY <2>1
    <3>2. mpc'[r] = "wait" /\ UNCHANGED <<pid, proc, fresh>>
      BY <2>1
    <3> HIDE DEF Types, Locked, Sockets, Backends, Launching, Stopping
    <3> QED
      BY <3>1, <3>2
  <2>4. Backends'
    <3>1. \A q \in Relays : /\ mpc'[q] = IF q = r THEN "wait" ELSE mpc[q]
                           /\ mpid'[q] = IF q = r THEN pid[q] ELSE mpid[q]
      BY <2>1
    <3>2. UNCHANGED <<proc, opc, gpid>>
      BY <2>1
    <3> QED
      BY <2>1, <3>1, <3>2
  <2> QED
    BY <2>2, <2>3, <2>4
<1>3. CASE MonitorReap(r)
  <2>1. Types'
    BY <1>3 DEF MonitorReap
  <2>2. Locked' /\ Sockets' /\ Launching' /\ Stopping'
    BY <1>3 DEF MonitorReap
  <2>3. Born' /\ Backends'
    BY <1>3 DEF MonitorReap
  <2> QED
    BY <2>1, <2>2, <2>3
<1>4. CASE MonitorNoChild(r)
  BY <1>4 DEF MonitorNoChild
<1>5. CASE MonitorPolled(r)
  BY <1>5 DEF MonitorPolled
<1>6. CASE MonitorFound(r)
  BY <1>6 DEF MonitorFound
<1>7. CASE MonitorAdopt(r)
  BY <1>7 DEF MonitorAdopt
<1>8. CASE MonitorNotFound(r)
  BY <1>8 DEF MonitorNotFound
<1>9. CASE MonitorClear(r)
  BY <1>9 DEF MonitorClear
<1> QED
  BY <1>1, <1>2, <1>3, <1>4, <1>5, <1>6, <1>7, <1>8, <1>9 DEF Monitor

\* A backend exits; the idle pass, the pending pass and the eviction.
LEMMA GroupOwner ==
    ASSUME Inv, NEW r \in Relays,
           \/ Owner(r) \/ Evict(r) \/ IdleFind(r) \/ IdleRetire(r)
           \/ \E g \in Launches : Exit(r, g)
    PROVE  Inv'
<1> USE GroupAssumption
    DEF Inv, Types, Locked, Sockets, Born, Backends, Launching, Stopping, Done, Child, Launches,
        group, owners, mains, OwnerGoto, SignalStop, Races
<1>1. ASSUME NEW g \in Launches, Exit(r, g) PROVE Inv'
  BY <1>1 DEF Exit, Dies
<1>2. CASE GracefulEnd(r)
  <2>1. PICK g \in Launches, state \in {"zombie", "gone"} :
          g = pid[r] /\ proc' = [proc EXCEPT ![r][g] = state]
    <3>1. PICK g \in Launches : g = pid[r]
      BY <1>2 DEF GracefulEnd
    <3>2. \/ proc' = [proc EXCEPT ![r][g] = "zombie"]
          \/ proc' = [proc EXCEPT ![r][g] = "gone"]
      BY <1>2, <3>1 DEF GracefulEnd, Dies, Reaped
    <3> QED
      BY <3>1, <3>2
  <2>2. proc' \in [Relays -> [Launches -> {"unborn", "child", "zombie", "gone"}]]
    BY <2>1, ProcType
  <2>3. /\ gpid' = [gpid EXCEPT ![r] = g] /\ UNCHANGED <<group, pid, sock, stop, lpc, mpc, mpid,
                                                        idling, raced, mains>>
        /\ opc[r] # "serving"
        /\ \/ opc' = [opc EXCEPT ![r] = "pendingClear"]
           \/ opc' = [opc EXCEPT ![r] = "evictClear"]
    BY <1>2, <2>1 DEF GracefulEnd
  <2>4. Types'
    <3>1. gpid' \in [Relays -> Launches \cup {0}]
      BY <2>3
    <3>2. PICK label \in {"pendingClear", "evictClear"} : opc' = [opc EXCEPT ![r] = label]
      BY <2>3
    <3>3. opc' \in [Relays -> {"serving", "pending", "evicting", "pendingClear", "evictClear",
                             "signal", "joinListen", "joinMonitor", "rearm", "doubled"}]
      BY <3>2
    <3> QED
      BY <2>2, <2>3, <3>1, <3>3
  <2>5. Locked' /\ Sockets' /\ Launching'
    BY <2>3
  <2>6. Stopping'
    <3>1. /\ main # "running" => r \in raced
          /\ \A q \in Relays : q # r => opc'[q] = opc[q]
      BY <2>3
    <3> QED
      BY <2>3, <3>1
  <2>7. Born' /\ Backends'
    <3>1. \A q \in Relays : \A h \in Launches :
             /\ proc[q][h] # "unborn" => proc'[q][h] # "unborn"
             /\ proc[q][h] = "gone" => proc'[q][h] = "gone" \/ (q = r /\ h = g)
             /\ proc[q][h] = "zombie" => proc'[q][h] \in {"zombie", "gone"}
      BY <2>1
    <3>2. gpid'[r] = g /\ proc'[r][g] \in {"zombie", "gone"} /\ g # 0
      BY <2>1, <2>3
    <3>3. proc[r][g] = "gone" => proc'[r][g] = "gone"
      BY <1>2, <2>1 DEF GracefulEnd, Dies, Reaped
    <3>4. \A q \in Relays : q # r => opc'[q] = opc[q] /\ gpid'[q] = gpid[q]
      BY <2>3
    <3>5. UNCHANGED <<mpc, mpid>>
      BY <2>3
    <3>6. \A q \in Relays : mpc'[q] = "wait" => mpid'[q] # 0
      BY <3>5
    <3>7. \A q \in Relays : mpc'[q] \in {"probe", "poll", "clear"} =>
                             mpid'[q] # 0 /\ proc'[q][mpid'[q]] = "gone"
      BY <3>1, <3>3, <3>5
    <3>8. \A q \in Relays : opc'[q] \in {"pendingClear", "evictClear"} =>
                             gpid'[q] # 0 /\ proc'[q][gpid'[q]] \in {"zombie", "gone"}
      BY <3>1, <3>2, <3>3, <3>4
    <3>9. Born'
      BY <2>3, <3>1
    <3> QED
      BY <3>6, <3>7, <3>8, <3>9
  <2> QED
    BY <2>4, <2>5, <2>6, <2>7
<1>3. CASE GracefulClear(r)
  <2>1. /\ opc[r] # "serving" /\ pid' = [pid EXCEPT ![r] = 0] /\ gpid' = [gpid EXCEPT ![r] = 0]
        /\ UNCHANGED <<group, proc, sock, stop, lpc, mpc, mpid, idling, raced, mains>>
        /\ \/ opc' = [opc EXCEPT ![r] = "pending"]
           \/ opc' = [opc EXCEPT ![r] = "signal"]
    BY <1>3 DEF GracefulClear
  <2>2. opc' \in [Relays -> {"serving", "pending", "evicting", "pendingClear", "evictClear",
                           "signal", "joinListen", "joinMonitor", "rearm", "doubled"}]
    BY <2>1
  <2>3. Types'
    BY <2>1, <2>2
  <2>4. Locked' /\ Sockets' /\ Launching'
    BY <2>1
  <2>5. \A q \in Relays :
          /\ opc'[q] \in {"pendingClear", "evictClear"} => gpid'[q] = gpid[q] /\ opc'[q] = opc[q]
          /\ opc'[q] = opc[q] \/ q = r
    BY <2>1
  <2>6. Born' /\ Backends'
    BY <2>1, <2>5
  <2>7. Stopping'
    BY <2>1, <2>5
  <2> QED
    BY <2>3, <2>4, <2>6, <2>7
<1>4. CASE GracefulNothing(r)
  BY <1>4 DEF GracefulNothing
<1>5. CASE EvictSignal(r)
  BY <1>5 DEF EvictSignal
<1>6. CASE PendingDone(r)
  BY <1>6 DEF PendingDone
<1>7. CASE JoinListen(r)
  BY <1>7 DEF JoinListen
<1>8. CASE JoinMonitor(r)
  BY <1>8 DEF JoinMonitor
<1>9. CASE Rearm(r)
  <2>1. /\ opc[r] = "rearm" /\ lpc[r] = "exited"
        /\ stop' = [stop EXCEPT ![r] = FALSE] /\ opc' = [opc EXCEPT ![r] = "serving"]
        /\ lpc' = [lpc EXCEPT ![r] = "top"] /\ mpc' = [mpc EXCEPT ![r] = "idle"]
        /\ mpid' = [mpid EXCEPT ![r] = 0]
        /\ UNCHANGED <<launched, mutex, fresh, period, proc, pid, sock, idling, gpid, raced, main>>
    BY <1>9 DEF Rearm
  <2>2. /\ jpc' \in {"listen", "monitor"}
        /\ \/ joining' = joining /\ todo' = todo /\ (jpc' = jpc \/ joining = r)
           \/ joining' = Nobody /\ todo' = todo \ {r} /\ joining = r
    BY <1>9 DEF Rearm, StopOvertaken
  <2>3. Types' /\ Locked' /\ Sockets' /\ Born' /\ Backends'
    BY <2>1, <2>2
  <2>4. Launching'
    BY <2>1, <2>2
  <2>5. Stopping'
    <3>1. main # "running" => r \in raced
      BY <2>1
    <3>2. \A q \in Relays : Done(q)' => Done(q) \/ q = r
      BY <2>1, <2>2
    <3> QED
      BY <2>1, <2>2, <3>1, <3>2
  <2> QED
    BY <2>3, <2>4, <2>5
<1>10. CASE RearmDoubled(r)
  BY <1>10 DEF RearmDoubled
<1>11. CASE Evict(r)
  BY <1>11 DEF Evict, AllServing
<1>12. CASE IdleFind(r)
  BY <1>12 DEF IdleFind
<1>13. CASE IdleRetire(r)
  <2>1. Types'
    <3>1. raced' \subseteq Relays
      BY <1>13 DEF IdleRetire
    <3>2. /\ UNCHANGED <<lpc, mutex, todo, fresh, proc, pid, mpc, mpid, gpid, mains>>
          /\ launched' = FALSE /\ period' = {} /\ idling' = Nobody
          /\ opc' = [opc EXCEPT ![r] = "pending"] /\ stop' = [stop EXCEPT ![r] = TRUE]
      BY <1>13 DEF IdleRetire
    <3>3. sock' \in [Relays -> {"closed", "open", "orphaned", "shut"}]
      BY <1>13 DEF IdleRetire
    <3>4. opc' \in [Relays -> {"serving", "pending", "evicting", "pendingClear", "evictClear",
                             "signal", "joinListen", "joinMonitor", "rearm", "doubled"}]
      BY <3>2
    <3>5. stop' \in [Relays -> BOOLEAN]
      BY <3>2
    <3> QED
      BY <3>1, <3>2, <3>3, <3>4, <3>5
  <2>2. Locked'
    BY <1>13 DEF IdleRetire
  <2>3. Sockets'
    BY <1>13 DEF IdleRetire
  <2>4. Born' /\ Backends'
    BY <1>13 DEF IdleRetire
  <2>5. Launching'
    BY <1>13 DEF IdleRetire
  <2>6. Stopping'
    BY <1>13 DEF IdleRetire
  <2> QED
    BY <2>1, <2>2, <2>3, <2>4, <2>5, <2>6
<1> QED
  BY <1>1, <1>2, <1>3, <1>4, <1>5, <1>6, <1>7, <1>8, <1>9, <1>10, <1>11, <1>12, <1>13 DEF Owner

\* PortGroup::stop.
LEMMA GroupStop ==
    ASSUME Inv, StopBegin \/ Stop
    PROVE  Inv'
<1> USE GroupAssumption
    DEF Inv, Types, Locked, Sockets, Born, Backends, Launching, Stopping, Done, Child, Launches,
        group, owners, mains, SignalStop
<1>1. CASE StopBegin
  BY <1>1 DEF StopBegin
<1>2. ASSUME NEW r \in Relays, StopRelay(r) PROVE Inv'
  <2>1. CASE UNCHANGED proc
    BY <1>2, <2>1 DEF StopRelay
  <2>2. ASSUME NEW g \in Launches, NEW state \in {"zombie", "gone"},
               proc' = [proc EXCEPT ![r][g] = state], proc[r][g] = "child" \/ state = "gone"
        PROVE  Inv'
    <3>1. proc' \in [Relays -> [Launches -> {"unborn", "child", "zombie", "gone"}]]
      BY <2>2, ProcType
    <3>2. \A q \in Relays : \A h \in Launches :
             /\ proc[q][h] # "unborn" => proc'[q][h] # "unborn"
             /\ proc[q][h] = "gone" => proc'[q][h] = "gone"
             /\ proc[q][h] = "zombie" => proc'[q][h] \in {"zombie", "gone"}
      BY <2>2
    <3>3. Types'
      BY <1>2, <3>1 DEF StopRelay
    <3>4. Locked' /\ Sockets' /\ Launching' /\ Stopping'
      BY <1>2 DEF StopRelay
    <3>5. Born' /\ Backends'
      <4>1. UNCHANGED <<pid, mpc, mpid, fresh, opc, gpid>>
        BY <1>2 DEF StopRelay
      <4>2. Born'
        BY <3>2, <4>1
      <4>3. Backends'
        BY <3>2, <4>1
      <4> QED
        BY <4>2, <4>3
    <3> QED
      BY <3>3, <3>4, <3>5
  <2>3. CASE pid[r] = 0
    BY <1>2, <2>1, <2>3 DEF StopRelay
  <2>4. CASE pid[r] # 0
    <3>1. PICK g \in Launches : g = pid[r]
      BY <2>4
    <3>2. CASE proc[r][g] = "child"
      <4>1. proc' = [proc EXCEPT ![r][g] = "zombie"]
        BY <1>2, <2>4, <3>1, <3>2 DEF StopRelay, Dies
      <4> QED
        BY <2>2, <3>2, <4>1
    <3>3. CASE proc[r][g] # "child"
      <4>1. proc' = [proc EXCEPT ![r][g] = "gone"]
        BY <1>2, <2>4, <3>1, <3>3 DEF StopRelay, Reaped
      <4> QED
        BY <2>2, <4>1
    <3> QED
      BY <3>2, <3>3
  <2> QED
    BY <2>3, <2>4
<1>3. ASSUME NEW r \in Relays, StopJoinListen(r) PROVE Inv'
  BY <1>3 DEF StopJoinListen
<1>4. ASSUME NEW r \in Relays, StopJoined(r) PROVE Inv'
  BY <1>4 DEF StopJoined
<1>5. CASE StopEnd
  <2>1. Types' /\ Locked' /\ Sockets' /\ Born' /\ Backends'
    <3>1. Types'
      BY <1>5 DEF StopEnd
    <3>2. Locked'
      BY <1>5 DEF StopEnd
    <3>3. Sockets' /\ Born' /\ Backends'
      BY <1>5 DEF StopEnd
    <3> QED
      BY <3>1, <3>2, <3>3
  <2>2. Launching'
    <3>1. fresh = {}
      BY <1>5 DEF StopEnd
    <3>2. fresh' = {} /\ period' = {} /\ mutex' \notin Relays
      BY <1>5, <3>1 DEF StopEnd
    <3> HIDE DEF Inv, Types, Locked, Sockets, Born, Backends, Stopping
    <3> QED
      BY <3>2
  <2>3. Stopping'
    <3>1. /\ joining = Nobody /\ main = "stopping" /\ main' = "stopped" /\ todo = {}
          /\ UNCHANGED <<todo, opc, lpc, mpc, raced, joining, jpc>>
      BY <1>5 DEF StopEnd
    <3>2. \A r \in Relays \ raced : /\ opc[r] = "serving"
                                   /\ lpc[r] = "exited" /\ mpc[r] = "exited"
      BY <3>1
    <3> QED
      BY <3>1, <3>2
  <2> QED
    BY <2>1, <2>2, <2>3
<1> QED
  BY <1>1, <1>2, <1>3, <1>4, <1>5 DEF Stop

\* Every step.
LEMMA GroupStep == Inv /\ [Next]_vars => Inv'
<1> SUFFICES ASSUME Inv, [Next]_vars PROVE Inv'
  OBVIOUS
<1>1. CASE UNCHANGED vars
  <2> USE DEF vars, Inv
  <2>1. Types' /\ Locked' /\ Sockets'
    BY <1>1 DEF Types, Locked, Sockets
  <2>2. Born' /\ Backends'
    BY <1>1 DEF Born, Backends
  <2>3. Launching'
    BY <1>1 DEF Launching
  <2>4. Stopping'
    BY <1>1 DEF Stopping, Done
  <2> QED
    BY <2>1, <2>2, <2>3, <2>4
<1> QED
  BY <1>1, GroupListen, GroupMonitor, GroupOwner, GroupStop DEF Next

\* The invariant holds of every reachable state.
THEOREM GroupInvariant == Spec => []Inv
  BY GroupInit, GroupStep, PTL DEF Spec

\* Every variable of the group stays within its type.
THEOREM GroupTypeCorrect == Spec => []TypeOK
<1>1. Inv => TypeOK
  BY DEF Inv, Types, TypeOK
<1> QED
  BY <1>1, GroupInvariant, PTL

\* PortGroup::stop joins every thread of the relays that nobody else has out of service, and
\* leaves no port of theirs held: what it has joined nobody starts again.
THEOREM StopLeavesNothing == Spec => []StoppedClean
<1>1. Inv => StoppedClean
  BY DEF Inv, Sockets, Stopping, Done, StoppedClean, Held
<1> QED
  BY <1>1, GroupInvariant, PTL

-----------------------------------------------------------------------------
(* What a step of the group may do.                                        *)

\* A step is a launch of the loop over relays_, or it launches nothing and brings no backend
\* back to life.
LEMMA ProcSteps ==
    ASSUME Inv, [Next]_vars
    PROVE  \/ \E q \in Relays, s \in Relays : GroupFork(q, s)
           \/ \A r \in Relays : \A g \in Launches :
                 \/ proc'[r][g] = proc[r][g]
                 \/ proc[r][g] # "unborn" /\ proc'[r][g] \in {"zombie", "gone"}
<1> DEFINE Quiet == \A r \in Relays : \A g \in Launches :
                       \/ proc'[r][g] = proc[r][g]
                       \/ proc[r][g] # "unborn" /\ proc'[r][g] \in {"zombie", "gone"}
<1> USE DEF Inv, Types, Child
<1>1. ASSUME UNCHANGED proc PROVE Quiet
  BY <1>1
<1>2. ASSUME NEW q \in Relays, NEW h \in Launches, Exit(q, h) PROVE Quiet
  BY <1>2 DEF Exit, Dies
<1>3. ASSUME NEW q \in Relays, MonitorReap(q) PROVE Quiet
  BY <1>3 DEF MonitorReap, Backends
<1>4. ASSUME NEW q \in Relays, GracefulEnd(q) PROVE Quiet
  <2>1. PICK h \in Launches : h = pid[q]
    BY <1>4 DEF GracefulEnd
  <2>2. proc[q][h] # "unborn"
    BY <2>1 DEF Born
  <2>3. PICK x \in {"zombie", "gone"} : proc' = [proc EXCEPT ![q][h] = x]
    BY <1>4, <2>1 DEF GracefulEnd, Dies, Reaped
  <2> QED
    BY <2>2, <2>3
<1>5. ASSUME NEW q \in Relays, StopRelay(q) PROVE Quiet
  <2>1. CASE UNCHANGED proc
    BY <2>1
  <2>2. CASE pid[q] # 0
    <3>1. PICK h \in Launches : h = pid[q]
      BY <2>2
    <3>2. proc[q][h] # "unborn"
      BY <3>1 DEF Born
    <3>3. PICK x \in {"zombie", "gone"} : proc' = [proc EXCEPT ![q][h] = x]
      BY <1>5, <2>2, <3>1 DEF StopRelay, Dies, Reaped
    <3> QED
      BY <3>2, <3>3
  <2> QED
    BY <1>5, <2>1, <2>2 DEF StopRelay
<1>6. ASSUME NEW q \in Relays, Listen(q) \/ ListenConnected(q)
      PROVE  UNCHANGED proc \/ \E s \in Relays : GroupFork(q, s)
  BY <1>6 DEF Listen, ListenGoto, ListenStopped, ListenTop, ListenBind, ListenBindFails,
     ListenAccept, ListenInterrupted, ListenConnected, ListenRefresh, GroupEnter, GroupSkip,
     GroupRecord, GroupPass, GroupLeave
<1>7. ASSUME NEW q \in Relays, Monitor(q) PROVE UNCHANGED proc \/ MonitorReap(q)
  BY <1>7 DEF Monitor, MonitorStopped, MonitorSees, MonitorNoChild, MonitorPolled,
     MonitorFound, MonitorAdopt, MonitorNotFound, MonitorClear
<1>8. ASSUME NEW q \in Relays, Owner(q) \/ Evict(q) \/ IdleFind(q) \/ IdleRetire(q)
      PROVE  UNCHANGED proc \/ GracefulEnd(q)
  BY <1>8 DEF Owner, OwnerGoto, GracefulClear, GracefulNothing, EvictSignal, PendingDone,
     JoinListen, JoinMonitor, Rearm, RearmDoubled, Evict, IdleFind, IdleRetire
<1>9. ASSUME StopBegin \/ Stop PROVE Quiet
  <2>1. UNCHANGED proc \/ \E q \in Relays : StopRelay(q)
    BY <1>9 DEF StopBegin, Stop, StopJoinListen, StopJoined, StopEnd
  <2> QED
    BY <1>1, <1>5, <2>1
<1>10. ASSUME UNCHANGED vars PROVE Quiet
  BY <1>10, <1>1 DEF vars
<1> HIDE DEF Quiet
<1>11. ASSUME NEW q \in Relays,
              \/ Listen(q) \/ ListenConnected(q) \/ Monitor(q)
              \/ Owner(q) \/ Evict(q) \/ IdleFind(q) \/ IdleRetire(q)
              \/ \E h \in Launches : Exit(q, h)
       PROVE  Quiet \/ \E p \in Relays, s \in Relays : GroupFork(p, s)
  BY <1>1, <1>2, <1>3, <1>4, <1>6, <1>7, <1>8, <1>11
<1>12. Quiet \/ \E q \in Relays, s \in Relays : GroupFork(q, s)
  BY <1>9, <1>10, <1>1, <1>11 DEF Next
<1> QED
  BY <1>12 DEF Quiet

\* Between two clearings of launched_ each backend is launched at most once: who launches
\* holds mtx_ and comes to each relay once, and launched_ keeps everybody else out.
THEOREM LaunchedOnce == Spec => OneLaunchPerPeriod
<1> DEFINE Once == \A r \in Relays : Unborn(r)' # Unborn(r) => r \notin period
<1>1. Inv /\ [Next]_vars => Once
  <2> SUFFICES ASSUME Inv, [Next]_vars, NEW r \in Relays, Unborn(r)' # Unborn(r)
               PROVE  r \notin period
    OBVIOUS
  <2>1. PICK g \in Launches : ~(proc'[r][g] = "unborn" <=> proc[r][g] = "unborn")
    BY DEF Unborn
  <2>2. PICK q \in Relays, s \in Relays : GroupFork(q, s)
    BY <2>1, ProcSteps
  <2>3. s = r
    BY <2>1, <2>2 DEF GroupFork, Inv, Types
  <2>4. s \in todo /\ mutex \in Relays /\ fresh = {}
    BY <2>2 DEF GroupFork, Inv, Locked
  <2> QED
    BY <2>3, <2>4 DEF Inv, Launching
<1>2. Inv /\ [Next]_vars => [Once]_vars
  BY <1>1
<1> QED
  BY <1>2, GroupInvariant, PTL DEF Spec, OneLaunchPerPeriod

\* Who stores into backendPid_: the loop over relays_, the monitor thread and gracefulStop.
\* The record that the loop keeps of its launch changes only there.
LEMMA PidSteps ==
    ASSUME Inv, [Next]_vars
    PROVE  \/ \E q \in Relays, s \in Relays : GroupFork(q, s) \/ GroupRecord(q, s)
           \/ \E q \in Relays : /\ MonitorAdopt(q) \/ MonitorClear(q) \/ GracefulClear(q)
                                /\ \A r \in Relays : r # q => pid'[r] = pid[r]
                                /\ UNCHANGED fresh
           \/ UNCHANGED <<pid, fresh>>
<1> USE DEF Inv, Types, group
<1>1. ASSUME NEW q \in Relays, MonitorAdopt(q) \/ MonitorClear(q) \/ GracefulClear(q)
      PROVE  UNCHANGED fresh /\ \A r \in Relays : r # q => pid'[r] = pid[r]
  BY <1>1 DEF MonitorAdopt, MonitorClear, MonitorGoto, GracefulClear, OwnerGoto
<1>2. ASSUME NEW q \in Relays, Listen(q) \/ ListenConnected(q)
      PROVE  UNCHANGED <<pid, fresh>> \/ \E s \in Relays : GroupFork(q, s) \/ GroupRecord(q, s)
  BY <1>2 DEF Listen, ListenGoto, ListenStopped, ListenTop, ListenBind, ListenBindFails,
     ListenAccept, ListenInterrupted, ListenConnected, ListenRefresh, GroupEnter, GroupSkip,
     GroupPass, GroupLeave
<1>3. ASSUME NEW q \in Relays, Monitor(q)
      PROVE  UNCHANGED <<pid, fresh>> \/ MonitorAdopt(q) \/ MonitorClear(q)
  BY <1>3 DEF Monitor, MonitorGoto, MonitorStopped, MonitorSees, MonitorReap, MonitorNoChild,
     MonitorPolled, MonitorFound, MonitorNotFound
<1>4. ASSUME NEW q \in Relays, Owner(q) \/ Evict(q) \/ IdleFind(q) \/ IdleRetire(q)
      PROVE  UNCHANGED <<pid, fresh>> \/ GracefulClear(q)
  BY <1>4 DEF Owner, OwnerGoto, GracefulEnd, GracefulNothing, EvictSignal, PendingDone,
     JoinListen, JoinMonitor, Rearm, RearmDoubled, Evict, IdleFind, IdleRetire
<1>5. ASSUME NEW q \in Relays, \E h \in Launches : Exit(q, h) PROVE UNCHANGED <<pid, fresh>>
  BY <1>5 DEF Exit
<1>6. ASSUME StopBegin \/ Stop \/ UNCHANGED vars PROVE UNCHANGED <<pid, fresh>>
  BY <1>6 DEF StopBegin, Stop, StopRelay, StopJoinListen, StopJoined, StopEnd, vars
<1> HIDE DEF Inv, Types
<1> QED
  BY <1>1, <1>2, <1>3, <1>4, <1>5, <1>6 DEF Next

\* A running backend is forgotten only by one of three late stores: what a monitor thread or
\* gracefulStop clears for has been seen gone, so the backend that is dropped is another, and
\* the loop over relays_ records what it has launched.
THEOREM ForgottenByLateStore == Spec => ForgottenOnlyLate
<1> DEFINE Forgotten(r, g) == Child(r, g)' /\ ~Tracked(r, g)' /\ ~(Child(r, g) /\ ~Tracked(r, g))
           Late(r, g) == \/ (MonitorAdopt(r) \/ MonitorClear(r)) /\ mpid[r] # g
                         \/ GracefulClear(r) /\ gpid[r] # g
                         \/ \E s \in Relays : GroupRecord(s, r)
<1>1. ASSUME Inv, [Next]_vars, NEW r \in Relays, NEW g \in Launches, Forgotten(r, g)
      PROVE  Late(r, g)
  <2> USE DEF Inv, Types, Tracked, Child
  <2>1. ~\E q \in Relays, s \in Relays : GroupFork(q, s)
    <3> SUFFICES ASSUME NEW q \in Relays, NEW s \in Relays, GroupFork(q, s) PROVE FALSE
      OBVIOUS
    <3>1. PICK h \in Launches : proc' = [proc EXCEPT ![s][h] = "child"] /\ fresh' = {<<s, h>>}
      BY DEF GroupFork, Unborn
    <3>2. UNCHANGED pid /\ fresh = {}
      BY DEF GroupFork
    <3> QED
      BY <1>1, <3>1, <3>2
  <2>2. Child(r, g) /\ Tracked(r, g)
    BY <1>1, <2>1, ProcSteps
  <2>3. ASSUME NEW q \in Relays, NEW s \in Relays, GroupRecord(q, s) PROVE Late(r, g)
    <3>1. PICK h \in Launches : <<s, h>> \in fresh /\ pid' = [pid EXCEPT ![s] = h]
      BY <2>3 DEF GroupRecord
    <3>2. CASE s = r
      BY <2>3, <3>2
    <3>3. CASE s # r
      <4>1. pid'[r] = pid[r]
        BY <3>1, <3>3
      <4>2. <<r, g>> \notin fresh
        <5>1. \A x, y \in fresh : x = y
          BY <1>1 DEF Launching
        <5>2. <<r, g>> # <<s, h>>
          BY <3>3
        <5> QED
          BY <3>1, <5>1, <5>2
      <4> QED
        BY <1>1, <2>2, <4>1, <4>2
    <3> QED
      BY <3>2, <3>3
  <2>4. ASSUME NEW q \in Relays, MonitorAdopt(q) \/ MonitorClear(q) \/ GracefulClear(q),
               \A p \in Relays : p # q => pid'[p] = pid[p], UNCHANGED fresh
        PROVE  Late(r, g)
    <3>1. q = r /\ pid[r] = g /\ pid'[r] # g
      BY <1>1, <2>2, <2>4
    <3>2. CASE MonitorAdopt(q)
      BY <3>1, <3>2 DEF MonitorAdopt
    <3>3. CASE MonitorClear(q)
      <4>1. mpc[r] = "clear"
        BY <3>1, <3>3 DEF MonitorClear
      <4>2. mpid[r] # g
        BY <1>1, <2>2, <4>1 DEF Backends
      <4> QED
        BY <3>1, <3>3, <4>2
    <3>4. CASE GracefulClear(q)
      <4>1. opc[r] \in {"pendingClear", "evictClear"}
        BY <3>1, <3>4 DEF GracefulClear
      <4>2. gpid[r] # g
        BY <1>1, <2>2, <4>1 DEF Backends
      <4> QED
        BY <3>1, <3>4, <4>2
    <3> QED
      BY <2>4, <3>2, <3>3, <3>4
  <2>5. ~UNCHANGED <<pid, fresh>>
    BY <1>1, <2>2
  <2> HIDE DEF Inv, Types, Tracked, Child, Late
  <2> QED
    BY <1>1, <2>1, <2>3, <2>4, <2>5, PidSteps
<1>2. Inv /\ [Next]_vars => [\A r \in Relays : \A g \in Launches :
                                Forgotten(r, g) => Late(r, g)]_vars
  BY <1>1
<1> QED
  BY <1>2, GroupInvariant, PTL DEF Spec, ForgottenOnlyLate

\* Whoever else takes a socket from under a listen thread has set stop_ first, and shuts the
\* socket down; the thread itself leaves the accept loop when it closes one.
THEOREM DeafenedInLoop == Spec => DeafenedByGroup
<1> DEFINE ByGroup == \A r \in Relays : Deaf(r)' /\ ~Deaf(r) => mutex \in Relays
<1>1. Inv /\ [Next]_vars => ByGroup
  <2> SUFFICES ASSUME Inv, [Next]_vars, NEW r \in Relays, Deaf(r)', mutex \notin Relays
               PROVE  Deaf(r)
    OBVIOUS
  <2> USE DEF Inv, Types, Sockets, Deaf
  <2>1. CASE UNCHANGED <<lpc, sock, stop>>
    BY <2>1
  <2>2. ASSUME NEW q \in Relays, Listen(q) PROVE Deaf(r)
    <3>1. lpc[q] # "group"
      BY DEF Locked
    <3> QED
      BY <2>1, <2>2, <3>1
         DEF LeavesLoop, Listen, ListenGoto, ListenStopped, ListenTop, ListenBind,
             ListenBindFails, ListenAccept, ListenInterrupted, ListenRefresh, GroupEnter,
             GroupSkip, GroupLeave, GroupFork, GroupRecord, GroupPass
  <2>3. ASSUME NEW q \in Relays, ListenConnected(q) PROVE Deaf(r)
    <3>1. PICK label \in {"refresh", "notify"} : lpc' = [lpc EXCEPT ![q] = label]
      BY <2>3 DEF ListenConnected
    <3> QED
      BY <2>3, <3>1 DEF ListenConnected
  <2>4. ASSUME NEW q \in Relays, Monitor(q) PROVE UNCHANGED <<lpc, sock, stop>>
    BY <2>4 DEF Monitor, MonitorGoto, MonitorStopped, MonitorSees, MonitorReap,
                MonitorNoChild, MonitorPolled, MonitorFound, MonitorAdopt, MonitorNotFound,
                MonitorClear
  <2>5. ASSUME NEW q \in Relays, SignalStop(q), UNCHANGED lpc PROVE Deaf(r)
    BY <2>5 DEF SignalStop
  <2>6. ASSUME NEW q \in Relays, Owner(q) \/ Evict(q) \/ IdleFind(q) \/ IdleRetire(q)
        PROVE  \/ UNCHANGED <<lpc, sock, stop>>
               \/ SignalStop(q) /\ UNCHANGED lpc
               \/ Rearm(q)
    BY <2>6 DEF Owner, OwnerGoto, GracefulEnd, GracefulClear, GracefulNothing, EvictSignal,
                PendingDone, JoinListen, JoinMonitor, RearmDoubled, Evict, IdleFind, IdleRetire
  <2>7. ASSUME NEW q \in Relays, Rearm(q) PROVE Deaf(r)
    BY <2>7 DEF Rearm
  <2>8. ASSUME NEW q \in Relays, \E g \in Launches : Exit(q, g)
        PROVE  UNCHANGED <<lpc, sock, stop>>
    BY <2>8 DEF Exit
  <2>9. ASSUME StopBegin \/ Stop \/ UNCHANGED vars
        PROVE  \/ UNCHANGED <<lpc, sock, stop>>
               \/ \E q \in Relays : SignalStop(q) /\ UNCHANGED lpc
    BY <2>9 DEF StopBegin, Stop, StopRelay, StopJoinListen, StopJoined, StopEnd, vars
  <2> HIDE DEF Inv, Types, Sockets, Deaf
  <2>10. ASSUME NEW q \in Relays,
                \/ Listen(q) \/ ListenConnected(q) \/ Monitor(q)
                \/ Owner(q) \/ Evict(q) \/ IdleFind(q) \/ IdleRetire(q)
                \/ \E h \in Launches : Exit(q, h)
         PROVE  Deaf(r)
    BY <2>1, <2>2, <2>3, <2>4, <2>5, <2>6, <2>7, <2>8, <2>10
  <2> QED
    BY <2>1, <2>5, <2>9, <2>10 DEF Next
<1>2. Inv /\ [Next]_vars => [ByGroup]_vars
  BY <1>1
<1> QED
  BY <1>2, GroupInvariant, PTL DEF Spec, DeafenedByGroup
=============================================================================
