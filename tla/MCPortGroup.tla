----------------------------- MODULE MCPortGroup -----------------------------
(* Constants for model checking PortGroup.                                   *)
EXTENDS PortGroup, TLC

CONSTANTS r1, r2

Symmetry == Permutations(Relays)

\* Bound: main stops the group while every relay has a launch left.
StopsEarly == main = "running" \/ \A r \in Relays : Unborn(r) # {}
=============================================================================
