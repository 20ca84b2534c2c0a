------------------------------- MODULE MCProxy -------------------------------
(* Clients are interchangeable; the liveness runs do not use it. *)
EXTENDS Proxy, TLC

Symmetry == Permutations(Clients)
==============================================================================
