--------------------------- MODULE MCRelayRegistry ---------------------------
(* Constants for model checking RelayRegistry.                               *)
EXTENDS RelayRegistry, TLC

CONSTANTS a1, a2, keep, once, r1, r2, r3

\* One auto_restart address and one without; a2 is free at first.
MCInitCfg == (a1 :> keep) @@ (a2 :> NoCfg)

\* One address of each kind.
MCInitBoth == (a1 :> keep) @@ (a2 :> once)

Instances == Permutations(Relays)
=============================================================================
