# daemonPorts (gatekeeper): TLA+ models and proofs

gatekeeper binds the ports of backends that are not running, launches a backend
when a client connects, hands the port over to it, and takes the port back when the
backend is gone. This directory models the daemon's own logic: which thread moves
which relay where and under which lock, and how one relay, its backend processes
and the port they share get along. Modules are translated from `src/src`;
documents are quoted only where the code disagrees with them.

## Inventory

| Component | State it keeps | Operations | Interacts with |
|---|---|---|---|
| Relay registry and monitor loop (`main.cpp`) | `g_relays`, `g_pendingRemoval`, two mutexes, `g_currentCfgs` | sampling, idle pass, pending pass | every other thread, through the vectors |
| Hot reload (`main.cpp`, `control_server.cpp`) | `g_currentCfgs`, `g_reloadInProgress` | `reloadConfig`: remove, modify and add passes | registry, new relays |
| Shutdown (`main.cpp`) | `g_stop`, `g_shutdownRequested` | stop groups, stop relays, join threads | relays, monitor loop, sampler |
| PortRelay, simple mode (`relay.cpp`) | `listenFd_`, `backendPid_`, `stop_`, `externalOccupied_`, `recycleGiveUp_` | `listenLoop`, `launchAndRelease`, `monitorBackend`, `stop`, `signalStop`, `gracefulStop`, `evict`, `resetForIdle` | kernel (port, processes), its owner |
| PortRelay, mixed mode with `hold_port` | `backends_`, proxied connections | accept, detect protocol, launch, proxy, idle monitor | kernel, registry |
| PortRelay, proxy mode (SOCKS5) | one connection each | handshake, forward | kernel |
| Port groups (`port_group.cpp`) | `relays_`, `launched_`, `running_` | `onConnection`, `stop`, `resetLaunch` | relays of the group, monitor loop |
| System monitor (`system_monitor.cpp`) | metrics, `criticalSince`, emergency and fast modes | sampling loop, `maybeEvict`, relaunch gate | registry, relays |
| Control server (`control_server.cpp`) | rate limiter, `/run` sessions | `/reload`, `/__set_refresh`, `/run`, `/processes` (`handleConfig` exists, but nothing dispatches `POST /config` to it) | reload, registry, shell |
| Refresh persistence (`config.cpp`) | configuration file | rewrite one field | registry mutex |
| Configuration and JSON parsing, TCP connection tables, platform layers | none that is shared | pure functions and system calls | |

The hard behaviours are interleavings: four registry threads and two threads per
relay share vectors, a pid and flags, part of them under mutexes and part of them
under none; calls that join a thread while they hold a lock; processes that die,
daemonise or are replaced between two system calls. `PROJECT.json` lists every hazard at
its line, with the property that would catch it or the reason why none does.

What makes each component correct: the registry never loses or doubles a relay, keeps
served relays armed and retired ones closed, and never wedges; a relay has at most one
child, keeps track of it, never loses its socket, comes back when the port is free, and
signals nobody but its backend; a group launches its backends once per idle period, starts
them again on demand, and is stopped with all its threads and ports; a held port's proxy
accounts for every descriptor and backend it opened, and leaves none behind; the eviction
timer fires only after sustained pressure; the control server keeps its rate limit, closes
every connection once and leaves no process behind a stream. Where the code falls short of
that, a run shows it or a section below says so.

## Modules

| Module | What it is |
|---|---|
| `RelayLifecycle` | Abstract: what the registry promises about a relay instance. Serving, draining, evicting, gone; opened only out of service; put back only if its address is free. No threads, vectors or mutexes. |
| `RelayThreads` | Abstract: the contract between a relay and its owner. What its threads may do to `stop_`, `isBackendRunning()` and the joins, and when they may be started again. |
| `RelayRegistry` | `main.cpp`, `maybeEvict`, the registry's part of the control server: four threads and the threads of every relay. Implements `RelayLifecycle` (`ImplementsLifecycle`), uses every relay as `RelayThreads` allows (`KeepsContract`). |
| `MCRelayRegistry` | Its constants for TLC. |
| `RelayRegistry_proofs` | Theorems about it: types, ownership, locks, service, deadlocks. |
| `RelayRegistry_refinement` | The proofs that it implements `RelayLifecycle` and keeps to `RelayThreads`. |
| `Relay` | One relay in simple mode: listen thread, monitor thread, owner, processes and port. Implements `RelayThreads` (`ImplementsThreads`). |
| `MCRelay`, `Relay_proofs`, `Relay_refinement` | Its constants for TLC, theorems, and the proof that it implements `RelayThreads`. |
| `PortGroup` | Several relays in a group: `onConnection`, `resetLaunch`, `PortGroup::stop`, with the threads of every relay reduced to what a group can interfere with. |
| `MCPortGroup`, `PortGroup_proofs` | Its constants for TLC, its symmetry, and theorems. |
| `ProxyRelay` | One relay that holds its port: mixed mode with `hold_port`, or SOCKS5 proxy mode. |
| `MCProxyRelay`, `ProxyRelay_proofs` | Its constants for TLC, and theorems. |
| `SystemMonitor` | The sampler thread, as actions for a composition. |
| `ControlServer` | The control server and the end of the daemon; extends `SystemMonitor` and composes the two with the main thread. |
| `MCControlServer`, `ControlServer_proofs` | Its constants for TLC, and theorems. |
| `NumberLemmas` | The one fact about numbers that two of the proof modules share. |

```
RelayLifecycle  <- implemented by -  RelayRegistry  - keeps -> RelayThreads <- implemented by - Relay
                                          |        ~ other views of the relays: PortGroup, ProxyRelay
                          maybeEvict, shutdown, /reload
                                          |
                  SystemMonitor  <- EXTENDS -  ControlServer (server, streams, main)
```

`Relay` is the inside of what `RelayRegistry` reduces to `lpc` and `running`, and
`RelayThreads` is what ties the two together. It has three variables: `stop_`, the value of
`isBackendRunning()`, and how far the two threads are from the end that a join waits for.
Both sides are checked and proved:

* `Relay` implements it (`ImplementsThreads`): every step of its threads, of its owner and of
  the host's processes is a step of the contract or a stutter. `Place` is the refinement mapping.
* The registry lets a relay do everything the contract allows: a step of the contract's
  threads on a relay, with the rest of the registry unchanged, is a step of `Listener`
  (`ThreadsUnrestricted`).
* The registry does to a relay only what the contract allows its owner (`KeepsContract`).

The owner in `Relay` stands for whichever registry thread calls the relay, one call at a
time, which `OwnedOnce` justifies. `PortGroup` and `ProxyRelay` have no such tie: there the
launch, or the port, is not the relay's own.

### RelayRegistry

`relays`, `pendingRemoval` and `destroyed` are the two vectors and the dropped
`unique_ptr`s; relays are searched by address, so sets do. `lpc` is the place of a relay's
threads in the sense of `RelayThreads`, with the one that the registry itself can block added:
`persist`, a listen thread in `persistRefreshSeconds`. `relaysMutex` and
`pendingMutex` name the holder. `pc[t]` is where a thread is, a step of a
thread is what it does between two points where another thread could interfere
(taking a mutex, releasing it, a flag that is an atomic). A critical section without
observable intermediate states is one step whose guard says the mutex is free
(`EvictPick`, `ControlFind`, `ControlAdd`); one that takes the second mutex or joins a
thread is several. `conf`, `stop`, `running` and `lpc` are the relays' own state.

Left out: activity sampling (any relay with an idle time may be found idle), logging,
the parsing and the contents of configurations beyond what `configsEqual`,
`auto_restart` and `monitor` tell apart, the wait in `pause()`, what happens on a
destroyed object, the race of `g_currentCfgs`, which a reload writes without a lock
(`main.cpp:326`) and a refresh request reads under `g_relaysMutex`. Groups are left out as
well: their mutex, and a group's stop that meets a relay out of service, are in `PortGroup`.
So `KnownDeadlocks` says that there are no other circular waits in a configuration without groups. The eviction's victim is any running relay, a superset of the most
idle one.

### Relay

`proc` gives every process of the host one of: unborn, child of gatekeeper, zombie,
daemon (forked by a child), stranger, gone. `port` is who is bound to it. Every read of
`backendPid_` and every store into it that another thread can race with is a step of its
own: pid 0 means "any child" to `waitpid` and "my process group" to `kill`, and a thread
stores what it concluded from an earlier value. So `monitorBackend`'s poll is three steps, the
look at the process (`MonitorPoll`), the look at the port (`MonitorPollPort`) and the store of
0 (`MonitorDrop`): between the last two the exec of the polled child may turn out to have
failed, the listen thread clear the pid, go round and launch the next backend, whose pid the store then
loses. `ForgottenOnlyLate` names this case. A pending relay whose backend runs waits until it is found
idle, if it is monitored at all (`OwnerReclaim`, unfair; `Kept` in `CallsReturn`). The owner's `spc` runs
through `setPendingRemoval`, the pending pass, `gracefulStop`, `evict`, `resetForIdle`
and `stop`. Times are left out: a window may end at any moment, a poll may be its last.
That admits more interleavings than a clock would, so what holds here holds with it.
`GroupUntouched` does not depend on it: the backend exits inside a window of the
code's own sleeps.

Left out: `launch_on_start`, the retry delays and their backoff, the waiting pages, the
relaunch gate (a refused connection changes nothing), `bind` failing for another reason
than an occupant, pids reused by the kernel, children of other relays.

### PortGroup

`launched`, `mutex` and `todo` are `launched_`, `mtx_` and the rest of the loop over
`relays_` of its holder. `sock[r]` tells apart what the kernel does: a socket that is closed
while a thread is blocked in `accept()` on it is `orphaned` (the port stays bound, nothing
wakes the thread), one that was shut down first is `shut`. `period` remembers which backends
were launched since the last `resetLaunch`, `gpid` which launch `gracefulStop` has dealt with.
`onConnection` forks and records in two steps (`GroupFork`, `GroupRecord`), `gracefulStop` ends and clears in two, the
monitor thread finds and stores in two. The idle pass is two steps because it waits for
`mtx_` with `g_relaysMutex` held (`idling`), which a listen thread in
`persistRefreshSeconds` needs.

`PortGroup::stop` begins whenever `mtx_` is free (`main.cpp:562-568`): the pending pass or an
eviction may be at any point with a relay of the group, may go on, and may begin afterwards.
Then `resetForIdle` clears `stop_` and starts threads behind the joins of `stop`, and `stop`
may wait for the old thread or the new one (`StopOvertaken`); or both join the same thread, and
the second to come returns at once, since `pthread_join` answers EINVAL and `joinThread` ignores it
(`JoinListen`, `JoinMonitor`, `StopJoinListen`, `StopJoined`). If `resetForIdle` comes second, it starts a
thread next to one that still runs; the model ends there (`RearmDoubled`, `Followed`), as it
does not follow two listen threads of one relay. `raced` is the history of the relays to which any of this could happen: those out
of service at some time since stop began. `StoppedClean` excepts them, and nothing else.

One relay at a time is out of service, which is how monitorLoop works through its list, except that
the sampler could evict another at the same time. Daemons, pid 0 and occupants are left to `Relay`.

### ProxyRelay

`backends_` is `pid` and `ready` by protocol, a pid being the number of a launch. `open`,
`cfd` and `bfd` are descriptor numbers, the lowest free one being allocated, as a leak and a
double close differ only by number. The two pipe threads are `piping`; `writing` has those
that are blocked in `write_fd` because their destination does not read, during which they
cannot see that their source has closed; `gone` says which peers have closed. `backends_` is
shared without a lock, so every read or write of it that another thread can race with is a step.
The one lock these threads take is `g_relaysMutex`, for a client that asks for another refresh
interval (`AnswerRefresh`, `Persist`); `held` says that the caller of `stop` has it, which is the
shutdown (`main.cpp:570-573`). Left out: `launch_on_start`, an external occupant of the port,
retries of `bind`, and an eviction, which needs `backendPid_` to be set or an occupant to
find the relay at all (`relay.h:171`). What destroying `backends_` under the monitor's
iterator does is reduced to a late write into the new element (`stale`, and `orphans` for
the backend whose pid it clears).

### SystemMonitor and ControlServer

A sample is `swap` (above `swap_high_threshold`), `critical` (memory and swap above their
critical thresholds), both, or `calm`: `config.cpp:54-66` bounds the thresholds one by one,
so neither implies the other. `timer` is the age of
`criticalSince`, `since` the history it is compared with. `Tick` ages both, and the
timestamps of the rate limiter, up to the largest age that is told apart. A client's
connection is a descriptor (`fds`) and the position of who has it, the server thread or the
thread of a stream. A stream has its shell (`sh`) and the other processes of its group
(`kids`). `main` goes from the test of `g_stop` over `pause()` to the destructor of the
control server, with the stops of groups and relays, modelled elsewhere, as one point.
Routes with a fixed answer are one step (`ServerAnswer`). Threads can always be created.
`Recent` is what `RateLimiter::allow` leaves of an address's timestamps: it erases the expired
ones from the front and stops at the first that is not, so the result is a suffix.

## Runs

| Run | Instance | Shows |
|---|---|---|
| `registry` | 2 addresses, one of them served at first, `auto_restart` on (idle-stopped) and off, 2 instances, 1 reload, eviction, SIGTERM | types, `OwnedOnce`, `ConnectsInService`, `DestroyedJoined`, `KnownDeadlocks`, `KeepsContract`, `ImplementsLifecycle` |
| `registry_live` | both addresses served, both configurations idle-stopped, eviction, no reload, no SIGTERM; fair | `PendingLeaves`, `RefreshCompletes` |
| `registry_lock_order` | 1 reload | violated: `NoCircularWait` |
| `registry_removed` | 1 reload | violated: `ServedIsConfigured` |
| `relay` | 2 processes, daemons, strangers, stop command, eviction; fair | types, `ChildAwaited`, `SocketOwned`, `ForgottenOnlyLate`, `ImplementsThreads`, `CallsReturn`, `ListensAgain` |
| `relay_group_signal` | 3 processes, no daemon, no stranger, no eviction | violated: `GroupUntouched` |
| `group` | 2 relays, 2 launches each, idle passes, evictions, `stop` | types, `OneLaunchPerPeriod`, `ForgottenOnlyLate`, `DeafenedByGroup`, `StoppedClean` |
| `group_relaunch` | the same | violated: `AccessRestarts` |
| `proxy` | 1 protocol, 2 launches, 3 descriptors, either mode, a foreign server; fair | types, `FdsAccounted`, `ForgottenOnlyByRearm`, `StoppedClean`, `TunnelAuthorised`, `ReadyOnlyLate`, `TunnelEnds`, `StopReturns` |
| `proxy_left` | the same | violated: `NoBackendLeft` |
| `control` | 1 address, 1 connection per 2 ticks, 1 stream, pressure sustained 2 ticks; fair | types, `EvictionSustained`, `BypassInEmergency`, `RateBound`, `FdsAccounted`, `CutLeavesNothing`, `StopJoinsAll`, `StreamsEnd` |
| `control_stream_left` | 1 stream | violated: `StreamLeavesNothing` |

Bounds. Two instances are the fewest with which one relay can replace another, be evicted
while the other takes its address, and be at different ends of two nested locks; one
reload reaches all three passes. Of the three deadlocks, `registry` has the shutdown's and the eviction's, which needs a free
instance for the address; a reload against the pending pass needs two served addresses, which
`registry_lock_order` has. `relay` has `auto_restart`; the theorem on its contract covers relays
without it as well. The other theorems below lift the bounds on instances and reloads for the
safety invariants. Two processes are a wrapper and its daemon, a backend and a stranger, or a
backend and the next one, which every property of the run speaks about; with three, all of them were checked once
by hand (727 359 states). Two relays are the fewest of which one can
act on the other in a group, and two launches the fewest that tell a backend's pid from that
of the next. The `group` run stops following a behaviour when a relay has used up its
launches after `stop` has begun (`StopsEarly` in `MCPortGroup`): `stop` is explored at every point of the
first launch of each relay and of the passes that follow it. Without that bound
the types and `StoppedClean` were checked once by hand (12 391 974 states), and the theorems have no such bound.
Three descriptors are one connection's two and one that leaked, so
running out of them is reached. One address is enough for the rate limiter, which keeps
addresses apart in a map, and `MaxConnections = 1`, `Window = 2` and `Sustain = 2` are the
least values at which a boundary has a side. One stream and the server thread are two
users of one list of threads. Instances, relays of a group and processes are
interchangeable, so `registry`, `group` and `group_relaunch` use symmetry; the runs with fairness do not. Every run stops when its counters are used up, or when the
daemon has exited, so deadlock is not checked; that a waiting thread gets on is what the
liveness properties say.

Fairness. In the registry: each thread that can take a step keeps running (weak);
`monitorLoop` and a listen thread that waits for `g_relaysMutex` acquire a mutex which
becomes free again and again (strong: the C++ mutex promises no order, but no waiter is
starved for ever by a scheduler that preempts at random points); a launch under way goes on,
a listen thread whose backend is dead gets back from `waitChild`, and the threads of a relay
that was told to stop, and waits for no backend, end (`ListenerContinue`, strong because a backend that another
thread adopts may interrupt it); a pending relay is no longer sampled, so its
`lastActiveTime_` is constant and it ends up idle (strong fairness of
`MonitorPendGraceful`). In `Relay`: the two threads and a call in progress keep running,
and a counted polling loop ends; the reclamation of a backend in use is not one of
them. In `ProxyRelay`: the listen and monitor threads, a call of `stop` in progress, a pipe
whose source has closed and which is not blocked in a write, and a blocked write whose
destination has closed keep running; the listen thread has no fairness where it waits for a peer
or for `g_relaysMutex`. In `ControlServer`: the sampler (`maybeEvict`
returns: `CallsReturn`), the server thread where it depends on no client and no command, main,
and the threads of streams; a stream's deadline passes however often its command prints (strong).
Never assumed: a client connects, reads or closes, a process exits, a signal, reload or
eviction comes.

## What is proved

For every value of the constants that satisfies the named assumption of each module: any
number of relays, addresses, configurations, processes, launches, descriptors and streams,
any limit, window and sustain time, where TLC has the few of the runs. Each argument has
the same form: a strengthening of the invariant that is inductive, one lemma for the
initial states and one for each thread or operation, and the properties as consequences. TLC
checked every strengthening on the instance of its run first.

* `RelayRegistry_proofs` has two layers. `BookkeepingInvariant`: a mutex is held by a thread
  exactly between two of its labels, and the relay a thread works on is in the vector whose
  mutex it holds. `OwnedOnce` is not inductive by itself (a push without that knowledge could
  duplicate a relay) and follows on top of it: `Ownership`. `MutualExclusion` is the action
  property `GuardedByMutex`, which no run checks. `ServingAlways` adds the flags of relays in flight (marked but
  not moved, re-armed but not pushed); `RelaysServe` and
  `DestroyedIsJoined` (`ConnectsInService`, `DestroyedJoined`) are its parts, and
  `TypeCorrect` the type invariant. `DeadlocksKnown` is `KnownDeadlocks`, about sets of waiting
  threads of any size: a holder of `g_relaysMutex` waits only for `g_pendingMutex` or for a
  thread it joins (`RelaysHolderWaits`), a holder of `g_pendingMutex` only for `g_relaysMutex` or
  likewise (`PendingHolderWaits`), and whoever waits for the holder of neither is main, for
  which nobody waits at its last joins.
* `RelayRegistry_refinement`: `Implementation` is `ImplementsLifecycle`, the temporal formula
  the `registry` run checks. `OwnedOnce` makes the phase of a relay a translation of the one
  place it is in, so a step of the registry changes nothing of a relay, sets or clears
  `stop_` of one, moves one, or constructs some; the lemmas `Flagged`, `Stutter`, `Moved`,
  `Closed` and `Opened` say what that does to the mapped variables. The guards of the abstract
  step come from `Serving`, but for one: a victim is discarded only if its address is served
  meanwhile, which `Replaced` keeps from the test to the destruction because `maybeEvict`
  holds `g_relaysMutex` between them. In the same module `OwnersKeepContract` is
  `KeepsContract`: a step of a relay's own threads is theirs in the contract (`KeptListener`); a step
  of one of the four others sets `stop_`, clears `running`, re-arms after the joins, or leaves the
  three variables of the relay alone (`KeptOwner`). `ThreadsUnrestricted` is the other direction
  for the relays' own threads.
* `Relay_refinement`: `RelayKeepsContract` is `ImplementsThreads`. One lemma per thread; each step
  is read off its effect on the three variables (`Places` tells the labels apart once). It needs of
  the reachable states only that a connection is accepted before `stop_` is set, that an
  `auto_restart` listen thread ends only after it (`StopSeen`), and that a forked child has
  a pid (`Launcher`).
* `Relay_proofs`. `RelayTypeCorrect`, `ChildrenAwaited` and `SocketNeverLost`, from their own
  conjunction, which is inductive. `ForgottenByDrop` (`ForgottenOnlyLate`) needs to know who may still write
  `backendPid_`: the listen thread gets from the top of its loop to `fork` only with no pid
  recorded and no monitor thread about to record or clear one after a reap (`LaunchedUntracked`), a child is
  recorded unless the monitor thread has dropped it (`Recorded`, `Dropped`), the child a late monitor thread
  has reaped was the only one, and its pid keeps the next launch off until it is cleared
  (`MonitorLate`), and `gracefulStop` runs after `signalStop`, so what it clears is no child
  (`Retired`). An eviction runs it before `signalStop`: all of this excepts `evicting`.
  `MonitorDrop` itself, at the end of the poll, is excepted by the property, and the invariant
  holds across it. `TrackInvariant` states the whole as a theorem; one lemma per thread then
  says that none of its other stores forgets a child.
* `PortGroup_proofs`. `GroupInvariant`: only a thread in the loop of `onConnection`, or main in
  `stop`, holds `mtx_` (`Locked`); the socket may be open only in the accept loop (`Sockets`);
  what is in `backendPid_` was launched (`Born`), and what a monitor thread or `gracefulStop`
  concludes from is gone (`Backends`); the relays still to be launched have not been since
  `launched_` was last cleared (`Launching`); those that `stop` has come to are stopped, those it is done
  with are joined, unless they are in `raced` (`Stopping`). `stop_` itself is not part of it: a join is
  enough, and a relay whose `stop_` is cleared was out of service. From it `StopLeavesNothing` (`StoppedClean`),
  with no assumption on where the pending pass or an eviction is when `stop` begins, and with the step at hand the
  action properties `LaunchedOnce`, `ForgottenByLateStore` and `DeafenedInLoop`.
* `ProxyRelay_proofs`. `ProxyInvariant`: each position of the listen thread has its
  descriptors, and all other open ones were leaked by the waiting page (`Descriptors`);
  `authorised` where USER/PASS was asked for (`Negotiation`); the listen thread launches only
  where it has found pid 0, which the monitor can only confirm (`Working`); what the monitor is about to clear has been reaped,
  unless the vector was replaced behind its back (`Backends`); `stop` returns when both loops have (`Stopping`); and a poll
  waits for the youngest launch of its protocol, whose pid is recorded unless the monitor has cleared it (`Launched`). From it
  `DescriptorsClosed`, `ProxyStopsClean`, `Authorised` and the action properties `ForgottenByRearm` and
  `ReadyLate`. That the lowest free descriptor, and the next launch, exist is `LeastNumber` of `NumberLemmas`.
* `ControlServer_proofs`. `EvictionsSustained` is the action property `EvictionSustained`:
  whatever the sampler reads, an eviction needs `sustainSeconds` of unbroken pressure.
  `TimerInv` strengthens it with `timer # Off => timer <= since` (`TimerCorrect`).
  `RateLimited` (`RateBound`): the connections let in during the last window are, in order of
  arrival, the unexpired suffix of what the limiter remembers of the address (`Covers`), so
  erasing from the front loses none of them. `ControlInvariant`: a stream has processes only between its fork and
  its wait, if it was cut off (`Groups`), descriptors are counted by the positions of threads (`FdsAccounted`,
  by cardinalities), the list of streams is taken after the server thread is joined
  (`Joining`), and the emergency flag agrees with the last metrics (`Bypassed`). From it
  `ConnectionsClosed`, `CutsLeaveNothing`, `AllJoined` and the action property
  `BypassJustified`.

Only model-checked: the liveness properties, which are out of the prover's reach. No theorem is about the violated properties. The
theorems lift the bounds of the runs; they share the models' abstractions, listed above.

## Where code and documents disagree

1. `registry_lock_order`: a reload and the pending pass take the two mutexes in opposite
   orders (`main.cpp:163-170`, `300-304`); the daemon can deadlock.
2. `registry_removed`: a port deleted by a reload is re-armed and served again
   (`main.cpp:166-172`; `CONFIG.md:732`).
3. `relay_group_signal`: SIGTERM or SIGKILL to pid 0 when `monitorBackend` clears
   `backendPid_` after `gracefulStop`'s last poll (`relay.cpp:1513`, `1527`).
4. `group_relaunch`: a group whose backends have exited, or were evicted, starts none at the next
   access, although its relays have `auto_restart` (`port_group.cpp:22`; `CONFIG.md:38`, `175`,
   `615`). `launched_` is cleared by the idle pass only, which looks at relays with a running
   backend, and by stop.
5. `proxy_left`: with `hold_port` a backend may run on after `stop` has returned: launched by the listen
   thread after the loop that kills (`relay.cpp:1445`), or forgotten by a re-arm
   (`relay.cpp:1200`), which also keeps it from being stopped after idling. `CONFIG.md:482-484` says that the exit waits for the
   backends and kills those that take too long, `CONFIG.md:732`, `741-744` and `750` that the backend of a
   removed or modified port is stopped once idle.
6. `control_stream_left`: when a stream's output has ended and its shell runs on, the process group is left
   alone (`relay_posix.cpp:317`); `AUDIT_SECURITY.md:219` (N5) says that the group is killed after a
   timeout, an interruption and EOF. It also names `runShellCommand`, whose deadline kills the shell only
   (`relay_posix.cpp:221`).

Other disagreements, read off the code or from traces of these modules, which have no run of their own:

* A process that takes the port after the backend's exit is tracked as its daemon and signalled
  (`relay.cpp:715`); `CONFIG.md:512` says that without `stop_command` an external process is never touched.
* A tracked daemon is no child, so `gracefulStop` reports it gone at its first poll, with neither the
  30 seconds nor the fallback SIGTERM of `CONFIG.md:743` (`relay.cpp:1503`).
* The comment at `port_group.cpp:37` says that the port is released to the backend. A socket closed under a blocked
  `accept()` stays bound (`Close`, `orphaned`), and its listen thread is deaf until the next
  connection, or spins on EBADF (`DeafenedByGroup`); `CONFIG.md:459` expects the other ports of the group to answer with
  the waiting page. `FIX_RATIONALE.md:47-80` and the comment at `relay.cpp:1432-1434` have
  the hang of stop in `accept()` fixed by `shutdown()`; for an orphaned socket there is no descriptor left to shut down, and
  `stop` waits. It also waits, `mtx_` held, for a listen thread that waits for
  `mtx_` in `onConnection`, and for one that waits for an idle pass that does.
* The comment at `relay.cpp:1425-1427` takes a second join for harmless. It returns before the
  thread has ended (EINVAL), so a `stop` that meets `resetForIdle` in the same join goes on too early, or
  `resetForIdle` starts a thread next to the old one.
* A backend that is forgotten in simple mode (`ForgottenOnlyLate` in `Relay` and `PortGroup`) is not killed by stop either
  (`CONFIG.md:482-484`).
* `CONFIG.md:979-990` uses a group to avoid that one command is started twice; `onConnection`
  launches the command of every relay of the group.
* The comment at `control_server.cpp:117-118` says that streams end at once when stop closes the listener, and that the join
  does not block for long ("join 不会长期阻塞"). Closing the listener does not close the clients' connections: a write to
  a client that does not read blocks (`StreamsEnd` names it), and the server thread is joined first, which waits without
  a deadline for a synchronous command that has closed its output (`relay_posix.cpp:226`).
* A signal between the test of `g_stop` and `pause()` is lost: the daemon sleeps until the next
  (`main.cpp:547-548`, `MainTest`, `MainPause`).
* `CONFIG.md:680` documents `POST /config`; `handleRequest` (`control_server.cpp:255-278`) never dispatches it.
* `CONFIG.md:302` says that with `userpass` no connection without a password is accepted; in proxy mode an HTTP client
  is connected to `http_target` without any (`relay.cpp:1142`). `TunnelAuthorised` is about SOCKS5.
* `docs/adr/0002-idle-first-memory-eviction.md:5` and `CONTEXT.md:23` describe evicted entries as disabled until a restart or a reload; the code, and
  `CONFIG.md:615`, arm them again. `RelayLifecycle` follows the code.

What the properties of passing runs except, where no text says otherwise:

* Besides finding 1, the shutdown, and an eviction that finds its address served again, wait
  for ever when the listen thread they join with `g_relaysMutex` held is in
  `persistRefreshSeconds` (`KnownDeadlocks`, `main.cpp:572`, `system_monitor.cpp:399`; `StopReturns` for a
  relay that holds its port).
* With `hold_port`, a client whose backend is not ready leaks a descriptor (`FdsAccounted`,
  `relay.cpp:1318`). `ready` can stay set without a backend: when the backend of a poll has been reaped before
  the store, whether it was the backend or another server at its address that had answered (`ReadyOnlyLate`).
* With `hold_port` or in proxy mode, `stop` waits for the peers of a tunnel (`StopReturns`), and a tunnel does not end while one of its
  pipes waits for a peer that stays without reading (`TunnelEnds`).
* A backend launched after `stop_` was set lives on, and everyone who joins that listen thread
  waits for it (`LateLaunch` in `PendingLeaves` and `CallsReturn`).

Hazards that the models show or exclude only in part are in `PROJECT.json`, with notes. A
shutdown that joins a listen thread waiting for `g_relaysMutex` never ends
(`KnownDeadlocks`), so `registry_live` has no shutdown; nor has it a reload, which could wedge the pending pass
(finding 1).

## Plan

1. Done, in this order: the registry and its abstract life cycle; one relay and its contract; the
   control server with the sampler; groups; relays that hold their port. Every module has
   its runs, and every safety invariant and action property of a passing run its theorem, the
   three refinements among them.
2. Left: `PortGroup` with two relays out of service at once, and with two listen threads of one relay
   after a doubled re-arm; a contract like `RelayThreads` for the relays of a group and for those that hold
   their port, whose launches are not their own.

## Not modelled

* Configuration and JSON parsing, the splitting of command lines, the pages sent to clients:
  sequential text processing with no state other threads see.
* The rewriting of the configuration file: `persistRefreshSeconds` is a holder of
  `g_relaysMutex` in `RelayRegistry`; what a crash in the middle of the write leaves is a
  hazard without a property.
* The TCP monitor: it reads tables of the kernel; its answer is the choice of who is idle.
* Windows: another implementation of the same calls, with other process semantics.
* Failure to create a thread; descriptors reused by another part of the process while
  `accept()` still has their number; accesses to destroyed objects; the clock being set while
  the eviction timer runs; what a synchronous command starts besides its shell.
* `launch_on_start`; retry delays; occupants and evictions of relays that hold their port.
* Scripts, units, tests.
