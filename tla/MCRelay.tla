------------------------------- MODULE MCRelay -------------------------------
(* Constants for model checking Relay.                                       *)
EXTENDS Relay, TLC

CONSTANTS p1, p2, p3

Processes == Permutations(Pids)
=============================================================================
