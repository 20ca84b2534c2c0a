----------------------------- MODULE MCPortBroker -----------------------------
(* Small instances of PortBroker for TLC. *)
EXTENDS PortBroker, TLC

\* Requests are interchangeable, and so are users and runs; the runs that
\* check liveness do not use this.
Symmetry == Permutations(Handlers) \cup Permutations(Users) \cup Permutations(Runs)
===============================================================================
