----------------------------- MODULE RelayThreads -----------------------------
(***************************************************************************)
(* What a relay promises to whoever owns it, and what it asks of them: its *)
(* two threads, listenLoop and monitorBackend, seen from outside.          *)
(*                                                                         *)
(*   - No launch begins after stop_ is set, but one under way goes on: it  *)
(*     may still fork a backend, and the listen thread then waits for it.  *)
(*   - Without auto_restart the listen thread ends with its backend.       *)
(*   - When both threads are over they have nothing left to do, and only   *)
(*     then may the owner start them again.                                *)
(*                                                                         *)
(* Relay implements this module, and RelayRegistry is built on it.         *)
(***************************************************************************)
CONSTANT Restarts  \* auto_restart

VARIABLES
    stop,     \* stop_
    running,  \* isBackendRunning()
    lpc       \* the listen thread: in its loop, in a launch, in waitChild or, without
              \* auto_restart, ended; "exited" when both threads are over

relay == <<stop, running, lpc>>

Init ==
    /\ stop = FALSE
    /\ running = FALSE
    /\ lpc = "loop"

\* Where a launch leads back to.
Over == IF Restarts THEN "loop" ELSE "ended"

\* Another thread may have cleared backendPid_.
Cleared == running' \in {running, FALSE}

-----------------------------------------------------------------------------
(* The threads of the relay                                                *)

\* A connection is taken, whatever backend is there...
Accept ==
    /\ lpc = "loop" /\ ~stop
    /\ lpc' = "launch"
    /\ UNCHANGED <<stop, running>>

\* ...the gate finds a backend...
Decline ==
    /\ lpc = "launch" /\ running
    /\ lpc' = "loop"
    /\ UNCHANGED <<stop, running>>

\* ...or fork fails...
ForkFails ==
    /\ lpc = "launch"
    /\ lpc' = Over
    /\ UNCHANGED <<stop, running>>

\* ...or the child is forked and recorded, whatever stop_ says by now.
Launch ==
    /\ lpc = "launch"
    /\ running' = TRUE
    /\ lpc' = "wait"
    /\ UNCHANGED stop

\* waitChild returns.
Return ==
    /\ lpc = "wait"
    /\ lpc' = Over
    /\ UNCHANGED <<stop, running>>

\* An occupant of the port, or a daemon of the backend, is taken up.
Adopt ==
    /\ lpc # "exited" /\ ~running
    /\ running' = TRUE
    /\ UNCHANGED <<stop, lpc>>

\* A backend is gone, or taken for gone.
BackendExit ==
    /\ running
    /\ running' = FALSE
    /\ UNCHANGED <<stop, lpc>>

\* Without auto_restart the listen thread may see stop_ long before the monitor thread.
ListenerEnd ==
    /\ lpc = "loop" /\ stop /\ ~Restarts
    /\ lpc' = "ended"
    /\ UNCHANGED <<stop, running>>

\* Both threads are over.
ThreadsEnd ==
    /\ \/ lpc = "loop" /\ stop
       \/ lpc = "ended"
    /\ Cleared
    /\ lpc' = "exited"
    /\ UNCHANGED stop

Step ==
    \/ Accept \/ Decline \/ ForkFails \/ Launch \/ Return
    \/ Adopt \/ BackendExit \/ ListenerEnd \/ ThreadsEnd

-----------------------------------------------------------------------------
(* The owner of the relay                                                  *)

\* signalStop, or stop() up to its joins, which may kill the backend. gracefulStop clears
\* backendPid_: a BackendExit.
Signal ==
    /\ stop' = TRUE
    /\ Cleared
    /\ UNCHANGED lpc

\* resetForIdle.
Rearm ==
    /\ lpc = "exited"
    /\ stop' = FALSE
    /\ lpc' = "loop"
    /\ UNCHANGED running

Next == Step \/ Signal \/ Rearm

Spec == Init /\ [][Next]_relay
=============================================================================
