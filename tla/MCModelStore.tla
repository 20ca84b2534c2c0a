------------------------------ MODULE MCModelStore ------------------------------
(* Values for model checking: one model with a profile, one that two profiles *)
(* match, and temporary files that no profile matches.                        *)
EXTENDS ModelStore, TLC

CONSTANTS good, bad

MCMatches == good :> {"a"} @@ bad :> {"a", "b"} @@ Temporary :> {}

Symmetry == Permutations(Importers)
=================================================================================
