------------------------------ MODULE LeasePool ------------------------------
(***************************************************************************)
(* What the port broker promises, with none of its mechanism: every port   *)
(* of the pool is free or held by exactly one lease; a lease receives all  *)
(* its ports in one step, under an id never used before; it gives them all *)
(* up in one step and never gets another.  One step may end some leases    *)
(* and grant another, because an allocation first collects what expired.   *)
(* The pool is durable: a crash or a restart changes nothing here.         *)
(***************************************************************************)
EXTENDS Naturals

CONSTANT Ports

None == 0       \* leases are numbered from 1

VARIABLES
    holder,     \* the lease that holds each port, or None
    issued      \* how many leases have been granted so far

vars == <<holder, issued>>

Leases == {holder[p] : p \in Ports} \ {None}

Init ==
    /\ holder = [p \in Ports |-> None]
    /\ issued = 0

\* The leases of "ended" give up all their ports.
Without(ended) == [p \in Ports |-> IF holder[p] \in ended THEN None ELSE holder[p]]

End(ended) ==
    /\ holder' = Without(ended)
    /\ issued' = issued

\* Ports that are free once "ended" is gone go, together, to a fresh lease.
Grant(ended, ports) ==
    /\ ports # {}
    /\ \A p \in ports : Without(ended)[p] = None
    /\ issued' = issued + 1
    /\ holder' = [p \in Ports |-> IF p \in ports THEN issued' ELSE Without(ended)[p]]

Next ==
    \E ended \in SUBSET Leases :
        \/ End(ended)
        \/ \E ports \in SUBSET Ports : Grant(ended, ports)

Spec == Init /\ [][Next]_vars
==============================================================================
