---------------------------- MODULE RelayLifecycle ----------------------------
(***************************************************************************)
(* What the registry promises about one relay instance after another,      *)
(* whatever threads, vectors and mutexes it uses: an instance is created   *)
(* serving, and then                                                       *)
(*                                                                         *)
(*   - drains when it is idle or retired, and serves again once its        *)
(*     backend is gone if its configuration restarts it, or is dropped if  *)
(*     it does not;                                                        *)
(*   - is evicted, and serves again unless its address is served by        *)
(*     another instance, in which case it is dropped;                      *)
(*   - takes new connections only while it serves.                         *)
(***************************************************************************)
CONSTANTS Relays, Addrs

VARIABLES
    phase,     \* where an instance is in its life
    address,   \* the address an instance was created for
    restarts,  \* the instances whose configuration restarts the backend
    closed     \* the instances whose listener has been told to stop

lifecycle == <<phase, address, restarts, closed>>

Phases == {"none", "serving", "draining", "evicting", "gone"}

InPhase(p) == {r \in Relays : phase[r] = p}

Init ==
    /\ phase \in [Relays -> {"none", "serving"}]
    /\ closed = {}
    /\ restarts \subseteq InPhase("serving")
    /\ \A r \in InPhase("serving") : address[r] \in Addrs

Move(r, from, to) ==
    /\ phase[r] = from
    /\ phase' = [phase EXCEPT ![r] = to]
    /\ UNCHANGED <<address, restarts, closed>>

\* A reload creates instances; they take connections at once.
Create(fresh) ==
    /\ fresh # {}
    /\ \A r \in fresh : address'[r] \in Addrs
    /\ phase' = [r \in Relays |-> IF r \in fresh THEN "serving" ELSE phase[r]]
    /\ \A r \in Relays \ fresh : /\ address'[r] = address[r]
                                 /\ r \in restarts' <=> r \in restarts
    /\ UNCHANGED closed

\* An instance that serves is closed on its way out...
Close(r) ==
    /\ phase[r] # "none"
    /\ closed' = closed \cup {r}
    /\ UNCHANGED <<phase, address, restarts>>

\* ...drains only closed...
Drain(r) ==
    /\ r \in closed
    /\ Move(r, "serving", "draining")

\* ...and is opened again only while it is out of service.
Open(r) ==
    /\ phase[r] \in {"draining", "evicting"}
    /\ closed' = closed \ {r}
    /\ UNCHANGED <<phase, address, restarts>>

Return(r) ==
    /\ r \in restarts /\ r \notin closed
    /\ Move(r, "draining", "serving")

Erase(r) ==
    /\ r \notin restarts
    /\ Move(r, "draining", "gone")

Evict(r) == Move(r, "serving", "evicting")

PutBack(r) ==
    /\ r \notin closed
    /\ \A q \in InPhase("serving") : address[q] # address[r]
    /\ Move(r, "evicting", "serving")

Discard(r) ==
    /\ r \in closed
    /\ \E q \in InPhase("serving") : address[q] = address[r]
    /\ Move(r, "evicting", "gone")

Next ==
    \/ \E fresh \in SUBSET InPhase("none") : Create(fresh)
    \/ \E r \in Relays :
          \/ Close(r) \/ Drain(r) \/ Open(r) \/ Return(r) \/ Erase(r)
          \/ Evict(r) \/ PutBack(r) \/ Discard(r)

Spec == Init /\ [][Next]_lifecycle
=============================================================================
