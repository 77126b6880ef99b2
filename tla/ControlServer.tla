--------------------------- MODULE ControlServer ---------------------------
(***************************************************************************)
(* The control server and its end: the server thread takes one client at a *)
(* time through the rate limiter, and answers, runs a command and waits    *)
(* for it, or leaves the client to a thread that streams the command's     *)
(* output; the main thread sleeps until a signal comes, stops the sampler  *)
(* and destroys the server. What /reload and /__set_refresh do to the      *)
(* registry is in RelayRegistry. Threads can be created.                   *)
(***************************************************************************)
EXTENDS SystemMonitor, FiniteSets, Sequences

CONSTANTS
    Ips,              \* addresses of clients
    MaxConnections,   \* RateLimiter::maxConnections
    Window,           \* RateLimiter::windowMs, in ticks
    MaxStreams        \* bound on the streams started

ASSUME ControlAssumption ==
    /\ MaxConnections \in Nat /\ Window \in Nat \ {0} /\ MaxStreams \in Nat

VARIABLES
    stop,         \* stop_ of ControlServer
    lfd,          \* listenFd_: "none", "open" or "closed"
    server,       \* the server thread
    window,       \* RateLimiter::window: ages of the connections let in, by address
    granted,      \* history: ages of those let in less than Window ago
    grant,        \* what the command to run was resolved from
    streamed,     \* whether its output is to be streamed
    lapsed,       \* history: the emergency has ended since the command was resolved
    shell,        \* the child of a synchronous run: "none", "run" or "zombie"
    streams,      \* streamThreads_
    todo,         \* the threads stop() has still to join
    fds,          \* number of open descriptors of clients
    main,         \* the main thread
    signalled     \* g_stop

run == <<grant, streamed, lapsed>>
limiter == <<window, granted>>
serverVars == <<stop, lfd, server, limiter, run, shell, streams, todo, fds>>
mainVars == <<main, signalled>>
vars == <<samplerVars, serverVars, mainVars>>

Started == DOMAIN streams
ServerGoto(l) == server' = l

Init ==
    /\ SamplerInit
    /\ stop = FALSE /\ lfd = "none" /\ server = "start"
    /\ window = [ip \in Ips |-> <<>>] /\ granted = [ip \in Ips |-> <<>>]
    /\ grant = "none" /\ streamed = FALSE /\ lapsed = FALSE /\ shell = "none"
    /\ streams = <<>> /\ todo = {} /\ fds = 0
    /\ main = "test" /\ signalled = FALSE

\* The limiter erases entries from the front, up to the first that has not expired.
Expired(ages) ==
    CHOOSE n \in 0..Len(ages) :
        /\ \A i \in 1..n : ages[i] >= Window
        /\ n < Len(ages) => ages[n + 1] < Window
Recent(ages) == SubSeq(ages, Expired(ages) + 1, Len(ages))

\* sysMonEmergencyPinBypass for a listed command: g_sysMon is reset after the sampler.
PinBypass == emergency /\ main \notin {"stop", "close", "join", "streams", "exited"}

-----------------------------------------------------------------------------
(* Faulty variants of definitions, each as a plausible bug would have it;  *)
(* the specification does not use them.                                    *)

\* The limit is compared with > instead of >=.
AdmitsOneMore(ip) == Len(Recent(window[ip])) <= MaxConnections

\* The caller closes the descriptor it has left to the thread.
ServerStreamCloses ==
    /\ server = "run" /\ streamed /\ Len(streams) < MaxStreams
    /\ streams' = Append(streams, [at |-> "init", why |-> "none", sh |-> "none", kids |-> FALSE])
    /\ fds' = fds - 1
    /\ ServerGoto("head")
    /\ grant' = "none" /\ streamed' = FALSE /\ lapsed' = FALSE
    /\ UNCHANGED <<stop, lfd, limiter, shell, todo>>

\* Only the shell is killed, not its process group.
StreamReapShell(k) ==
    /\ streams[k].at = "reap"
    /\ streams' = [streams EXCEPT ![k] =
           [@ EXCEPT !.at = "term",
                     !.sh = IF streams[k].why = "eof" /\ @ = "run" THEN @ ELSE "gone"]]
    /\ UNCHANGED <<stop, lfd, server, limiter, run, shell, todo, fds>>

\* The exit of the shell is awaited, however long it takes.
StreamReapWaits(k) ==
    /\ streams[k].at = "reap" /\ streams[k].sh # "run"
    /\ streams' = [streams EXCEPT ![k] = [@ EXCEPT !.at = "term", !.sh = "gone", !.kids = FALSE]]
    /\ UNCHANGED <<stop, lfd, server, limiter, run, shell, todo, fds>>

\* The list of threads is taken before the server thread, which adds to it, is joined.
StopClosesTakes ==
    /\ main = "close"
    /\ lfd' = (IF lfd = "open" THEN "closed" ELSE lfd)
    /\ todo' = {k \in Started : streams[k].at # "done"}
    /\ main' = "streams"
    /\ UNCHANGED <<stop, server, limiter, run, shell, streams, fds, signalled, monStop>>

-----------------------------------------------------------------------------
(* The server thread: one client at a time.                                *)

\* Socket, bind and listen, in the thread itself: it ends when they fail.
ServerStart ==
    /\ server = "start"
    /\ \/ lfd' = "open" /\ ServerGoto("head")
       \/ ServerGoto("exited") /\ UNCHANGED lfd
    /\ UNCHANGED <<stop, limiter, run, shell, streams, todo, fds>>

ServerHead ==
    /\ server = "head"
    /\ ServerGoto(IF stop THEN "exited" ELSE "accept")
    /\ UNCHANGED <<stop, lfd, limiter, run, shell, streams, todo, fds>>

\* accept() does not block: there is no client, or the socket is closed.
ServerNoClient ==
    /\ server = "accept"
    /\ ServerGoto("head")
    /\ UNCHANGED <<stop, lfd, limiter, run, shell, streams, todo, fds>>

\* RateLimiter::allow drops the expired entries and counts the others.
Admits(ip) == Len(Recent(window[ip])) < MaxConnections

ServerRejects(ip) ==
    /\ server = "accept" /\ lfd = "open" /\ ~Admits(ip)
    /\ window' = [window EXCEPT ![ip] = Recent(@)]
    /\ ServerGoto("head")
    /\ UNCHANGED <<stop, lfd, granted, run, shell, streams, todo, fds>>

ServerAccept(ip) ==
    /\ server = "accept" /\ lfd = "open" /\ Admits(ip)
    /\ window' = [window EXCEPT ![ip] = Append(Recent(@), 0)]
    /\ granted' = [granted EXCEPT ![ip] = Append(@, 0)]
    /\ fds' = fds + 1
    /\ ServerGoto("request")
    /\ UNCHANGED <<stop, lfd, run, shell, streams, todo>>

\* A route with a fixed answer, or an error: the request, its token, its body or what it
\* asks to run is not accepted, or an exception comes out of its parsing.
ServerAnswer ==
    /\ server = "request"
    /\ fds' = fds - 1
    /\ ServerGoto("head")
    /\ UNCHANGED <<stop, lfd, limiter, run, shell, streams, todo>>

\* resolveRun: a preset by its name, or a command with the PIN or on the emergency list.
ServerResolve(from, wantStream) ==
    /\ server = "request"
    /\ from = "bypass" => PinBypass
    /\ wantStream => Len(streams) < MaxStreams
    /\ grant' = from /\ streamed' = wantStream /\ lapsed' = FALSE
    /\ ServerGoto("run")
    /\ UNCHANGED <<stop, lfd, limiter, shell, streams, todo, fds>>

\* runSync: pipe() or fork() fails, or the shell runs.
ServerSync ==
    /\ server = "run" /\ ~streamed
    /\ \/ ServerGoto("reply") /\ UNCHANGED shell
       \/ ServerGoto("sync") /\ shell' = "run"
    /\ grant' = "none" /\ lapsed' = FALSE
    /\ UNCHANGED <<stop, lfd, limiter, streamed, streams, todo, fds>>

\* The deadline passes while output is awaited: the shell, but not what it has started, is
\* killed and waited for.
ServerTimeout ==
    /\ server = "sync"
    /\ shell' = "none"
    /\ ServerGoto("reply")
    /\ UNCHANGED <<stop, lfd, limiter, run, streams, todo, fds>>

\* The output is closed or has reached its maximum; the shell may run on.
ServerCollected ==
    /\ server = "sync"
    /\ ServerGoto("wait")
    /\ UNCHANGED <<stop, lfd, limiter, run, shell, streams, todo, fds>>

\* waitpid() without a deadline.
ServerWait ==
    /\ server = "wait" /\ shell = "zombie"
    /\ shell' = "none"
    /\ ServerGoto("reply")
    /\ UNCHANGED <<stop, lfd, limiter, run, streams, todo, fds>>

\* The answer is sent, which takes a client that reads it or is gone.
ServerReply ==
    /\ server = "reply"
    /\ fds' = fds - 1
    /\ ServerGoto("head")
    /\ UNCHANGED <<stop, lfd, limiter, run, shell, streams, todo>>

\* runStream could not write the header: the server loop closes the connection.
ServerStreamFails ==
    /\ server = "run" /\ streamed
    /\ fds' = fds - 1
    /\ ServerGoto("head")
    /\ grant' = "none" /\ streamed' = FALSE /\ lapsed' = FALSE
    /\ UNCHANGED <<stop, lfd, limiter, shell, streams, todo>>

\* The new thread owns the connection.
ServerStream ==
    /\ server = "run" /\ streamed /\ Len(streams) < MaxStreams
    /\ streams' = Append(streams, [at |-> "init", why |-> "none", sh |-> "none", kids |-> FALSE])
    /\ ServerGoto("head")
    /\ grant' = "none" /\ streamed' = FALSE /\ lapsed' = FALSE
    /\ UNCHANGED <<stop, lfd, limiter, shell, todo, fds>>

\* The steps that depend on no client and on no command.
ServerSteps ==
    \/ ServerStart \/ ServerHead \/ ServerNoClient \/ ServerAnswer
    \/ ServerSync \/ ServerTimeout \/ ServerCollected \/ ServerWait
    \/ ServerStreamFails \/ ServerStream

Server ==
    \/ ServerSteps \/ ServerReply
    \/ \E ip \in Ips : ServerRejects(ip) \/ ServerAccept(ip)
    \/ \E from \in {"preset", "pin", "bypass"}, s \in BOOLEAN : ServerResolve(from, s)

-----------------------------------------------------------------------------
(* The threads of runStream, and the process group of each shell.          *)

StreamSets(k, r) ==
    /\ streams' = [streams EXCEPT ![k] = r]
    /\ UNCHANGED <<stop, lfd, server, limiter, run, shell, todo, fds>>

\* pipe() or fork() fails, or the shell runs; stop_ is tested before each poll().
StreamStart(k) ==
    LET s == streams[k] IN
    /\ s.at = "init"
    /\ \/ StreamSets(k, [s EXCEPT !.at = "term"])
       \/ StreamSets(k, [s EXCEPT !.at = IF stop THEN "reap" ELSE "poll", !.sh = "run",
                                  !.why = IF stop THEN "cut" ELSE "none"])

StreamOutput(k) ==
    /\ streams[k].at = "poll"
    /\ StreamSets(k, [streams[k] EXCEPT !.at = "write"])

\* The client has taken the output, or is gone.
StreamWritten(k) ==
    LET s == streams[k] IN
    /\ s.at = "write"
    /\ \/ ~stop /\ StreamSets(k, [s EXCEPT !.at = "poll"])
       \/ StreamSets(k, [s EXCEPT !.at = "reap", !.why = "cut"])

\* Every process that had the pipe has closed it: the shell and the others may run on.
StreamEof(k) ==
    /\ streams[k].at = "poll"
    /\ StreamSets(k, [streams[k] EXCEPT !.at = "reap", !.why = "eof"])

StreamTimeout(k) ==
    /\ streams[k].at = "poll"
    /\ StreamSets(k, [streams[k] EXCEPT !.at = "reap", !.why = "cut"])

\* The shell has about a second to exit. The group is killed, unless the output ended and
\* the shell did not: then it is left alone, and nobody waits for it.
StreamReap(k) ==
    LET s == streams[k]
        spared == s.why = "eof" /\ s.sh = "run"
    IN /\ s.at = "reap"
       /\ StreamSets(k, IF spared THEN [s EXCEPT !.at = "term"]
                        ELSE [s EXCEPT !.at = "term", !.sh = "gone", !.kids = FALSE])

\* The last chunk is written, which again may have to wait for the client.
StreamEnd(k) ==
    /\ streams[k].at = "term"
    /\ streams' = [streams EXCEPT ![k].at = "done"]
    /\ fds' = fds - 1
    /\ UNCHANGED <<stop, lfd, server, limiter, run, shell, todo>>

Stream(k) ==
    \/ StreamStart(k) \/ StreamOutput(k) \/ StreamWritten(k) \/ StreamEof(k)
    \/ StreamTimeout(k) \/ StreamReap(k) \/ StreamEnd(k)

\* A shell starts other processes, or exits; these exit.
ShellExit ==
    /\ shell = "run"
    /\ shell' = "zombie"
    /\ UNCHANGED <<stop, lfd, server, limiter, run, streams, todo, fds>>

GroupStep(k) ==
    LET s == streams[k] IN
    \/ s.sh = "run" /\ ~s.kids /\ StreamSets(k, [s EXCEPT !.kids = TRUE])
    \/ s.sh = "run" /\ StreamSets(k, [s EXCEPT !.sh = "zombie"])
    \/ s.kids /\ StreamSets(k, [s EXCEPT !.kids = FALSE])

-----------------------------------------------------------------------------
(* The main thread: pause(), then the end of the sampler and of the server. *)

MainGoto(l) == main' = l /\ UNCHANGED signalled

MainTest ==
    /\ main = "test"
    /\ MainGoto(IF signalled THEN "leave" ELSE "tested")
    /\ UNCHANGED <<serverVars, monStop>>

MainPause ==
    /\ main = "tested"
    /\ MainGoto("pause")
    /\ UNCHANGED <<serverVars, monStop>>

\* handleSignal; pause() returns if it has been called.
Signal ==
    /\ main \in {"test", "tested", "pause"}
    /\ signalled' = TRUE
    /\ main' = IF main = "pause" THEN "leave" ELSE main
    /\ UNCHANGED <<serverVars, monStop>>

\* The groups and the relays are stopped (see PortGroup, RelayRegistry), then the sampler.
MainStopsSampler ==
    /\ main = "leave"
    /\ MainGoto("sampler")
    /\ monStop' = TRUE
    /\ UNCHANGED serverVars

MainJoinsSampler ==
    /\ main = "sampler" /\ sampler = "exited"
    /\ MainGoto("stop")
    /\ UNCHANGED <<serverVars, monStop>>

\* ~ControlServer, when the process exits: stop().
StopSets ==
    /\ main = "stop"
    /\ stop' = TRUE
    /\ MainGoto("close")
    /\ UNCHANGED <<lfd, server, limiter, run, shell, streams, todo, fds, monStop>>

StopCloses ==
    /\ main = "close"
    /\ lfd' = (IF lfd = "open" THEN "closed" ELSE lfd)
    /\ MainGoto("join")
    /\ UNCHANGED <<stop, server, limiter, run, shell, streams, todo, fds, monStop>>

\* The server thread is joined, and then the list of threads is taken.
StopJoinsServer ==
    /\ main = "join" /\ server = "exited"
    /\ todo' = Started
    /\ MainGoto("streams")
    /\ UNCHANGED <<stop, lfd, server, limiter, run, shell, streams, fds, monStop>>

StopJoinsStreams ==
    /\ main = "streams" /\ \A k \in todo : streams[k].at = "done"
    /\ todo' = {}
    /\ MainGoto("exited")
    /\ UNCHANGED <<stop, lfd, server, limiter, run, shell, streams, fds, monStop>>

Main ==
    \/ MainTest \/ MainPause \/ MainStopsSampler \/ MainJoinsSampler
    \/ StopSets \/ StopCloses \/ StopJoinsServer \/ StopJoinsStreams

\* Time passes for the limiter and the sampler.
Older(ages) == [i \in DOMAIN ages |-> IF ages[i] < Window THEN ages[i] + 1 ELSE ages[i]]
Tick ==
    /\ SamplerTick
    /\ window' = [ip \in Ips |-> Older(window[ip])]
    /\ granted' = [ip \in Ips |-> Recent(Older(granted[ip]))]
    /\ UNCHANGED <<stop, lfd, server, run, shell, streams, todo, fds, mainVars>>

SamplerStep ==
    /\ Sampler
    /\ lapsed' = (lapsed \/ (server = "run" /\ level' \notin HighSwap))
    /\ UNCHANGED <<stop, lfd, server, limiter, grant, streamed, shell, streams, todo, fds, mainVars>>
Elsewhere == UNCHANGED <<samplerVars, mainVars>>
MainOnly == UNCHANGED <<sampler, level, emergency, timer, since>>

Next ==
    \/ SamplerStep
    \/ Server /\ Elsewhere
    \/ \E k \in Started : Stream(k) /\ Elsewhere
    \/ (ShellExit \/ \E k \in Started : GroupStep(k)) /\ Elsewhere
    \/ (Main \/ Signal) /\ MainOnly
    \/ Tick

Spec == Init /\ [][Next]_vars

\* The threads run on: accept() does not block, recv() has a timeout, SIGKILL kills. poll()
\* returns for good when the deadline has passed, whatever the command prints before: hence
\* strong fairness. No client needs to read what it is sent, and no command to end.
FairSpec ==
    /\ Spec
    /\ WF_vars(SamplerStep) /\ WF_vars(ServerSteps /\ Elsewhere) /\ WF_vars(Main /\ MainOnly)
    /\ \A k \in 1..MaxStreams :
        /\ WF_vars(k \in Started /\ (StreamStart(k) \/ StreamReap(k)) /\ Elsewhere)
        /\ SF_vars(k \in Started /\ StreamTimeout(k) /\ Elsewhere)

-----------------------------------------------------------------------------
\* Types, and which threads use a connection.
TypeOK ==
    /\ SamplerTypeOK
    /\ {stop, streamed, lapsed, signalled} \subseteq BOOLEAN
    /\ lfd \in {"none", "open", "closed"}
    /\ server \in {"start", "head", "accept", "request", "run", "sync", "wait", "reply", "exited"}
    /\ \A ip \in Ips : \A i \in DOMAIN window[ip] : window[ip][i] \in 0..Window
    /\ grant \in {"none", "preset", "pin", "bypass"} /\ shell \in {"none", "run", "zombie"}
    /\ Started = 1..Len(streams) /\ Len(streams) <= MaxStreams /\ todo \subseteq Started
    /\ \A k \in Started :
        /\ streams[k].at \in {"init", "poll", "write", "reap", "term", "done"}
        /\ streams[k].why \in {"none", "eof", "cut"}
        /\ streams[k].sh \in {"none", "run", "zombie", "gone"} /\ streams[k].kids \in BOOLEAN
    /\ main \in {"test", "tested", "pause", "leave", "sampler", "stop", "close", "join", "streams",
                 "exited"}

\* No address gets more than maxConnections into any stretch of windowMs, although the
\* limiter forgets entries only when that address calls again.
RateBound == \A ip \in Ips : Len(granted[ip]) <= MaxConnections

\* Every connection let in is closed once: as many are open as the server thread and the
\* threads of the streams still have to close.
FdsAccounted ==
    fds = Cardinality({k \in Started : streams[k].at # "done"})
          + (IF server \in {"request", "run", "sync", "wait", "reply"} THEN 1 ELSE 0)

\* Processes of a stream: its shell, which may not have been waited for, and others.
Left(s) == s.kids \/ s.sh \in {"run", "zombie"}

\* A stream that was cut off, by its deadline, by its client or by stop(), leaves no process of
\* its group behind, whether or not the shell has exited meanwhile.
CutLeavesNothing ==
    \A k \in Started :
        streams[k].at \in {"term", "done"} /\ streams[k].why = "cut" => ~Left(streams[k])

\* Nor does any other: after a timeout, an interruption or the end of the output the whole
\* group is killed (AUDIT_SECURITY.md:219). The code leaves a shell alone that outlives its
\* output by a second, with all it has started (relay_posix.cpp:317).
StreamLeavesNothing ==
    \A k \in Started : streams[k].at = "done" => ~Left(streams[k])

\* When stop() has returned no thread refers to the server any more, not even one that was
\* started for a request accepted before stop_ was set.
StopJoinsAll ==
    main = "exited" => server = "exited" /\ \A k \in Started : streams[k].at = "done"

\* A command that needs the PIN runs without it only in an emergency: the last sample that
\* could be read shows one, or it has ended after the command was resolved.
BypassInEmergency ==
    [][server = "run" /\ grant = "bypass" /\ server' # "run" => level \in HighSwap \/ lapsed]_vars

\* The thread of a stream ends after its deadline, or after stop(), whatever the command
\* does; unless it waits for its client to take the output, for which there is no deadline.
Blocked(k) == k \in Started /\ streams[k].at \in {"write", "term"}
StreamsEnd ==
    \A k \in 1..MaxStreams :
        \/ []<>(k \notin Started \/ streams[k].at = "done")
        \/ <>[]Blocked(k)
=============================================================================
