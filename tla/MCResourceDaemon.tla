--------------------------- MODULE MCResourceDaemon ---------------------------
(* Values for model checking: requests are interchangeable. *)
EXTENDS ResourceDaemon, TLC

Symmetry == Permutations(Handlers)
==============================================================================
