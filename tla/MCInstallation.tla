----------------------------- MODULE MCInstallation -----------------------------
(* Values for model checking: commands and services are interchangeable. *)
EXTENDS Installation, TLC

Symmetry == Permutations(Commands) \union Permutations(Containers)
=================================================================================
