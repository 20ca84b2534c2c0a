------------------------------- MODULE LeaseBook -------------------------------
(***************************************************************************)
(* What a holder of capabilities may rely on, whatever serves it: a lease  *)
(* is granted to a capability that exists, under an id never used before;  *)
(* while the service is up it is only extended or shortened before its     *)
(* end, given up, or taken with its capability; what is over stays over,   *)
(* and so does a capability.  Leases are forgotten before their end only   *)
(* by a service that is down.  Ports, waiting and jobs are left out.       *)
(***************************************************************************)
EXTENDS Naturals

CONSTANT Capabilities

VARIABLES
    entries,    \* leases: their id, their capability and their end
    granted,    \* how many leases were ever granted
    known,      \* capabilities that were ever issued
    valid,      \* those that still exist
    now,
    up          \* whether the service runs

vars == <<entries, granted, known, valid, now, up>>

Active == {e \in entries : e.until > now}
Of(caps) == {e \in entries : e.cap \in caps}

Init ==
    /\ entries = {} /\ granted = 0 /\ known = {} /\ valid = {}
    /\ now = 0 /\ up = FALSE

Advance ==
    /\ now' = now + 1
    /\ UNCHANGED <<entries, granted, known, valid, up>>

Issue(c) ==
    /\ up /\ c \notin known
    /\ known' = known \union {c} /\ valid' = valid \union {c}
    /\ UNCHANGED <<entries, granted, now, up>>

\* Entries that are over may go, and capabilities with nothing left.
Collected(kept, caps) ==
    /\ Active \subseteq kept /\ kept \subseteq Of(caps)
    /\ caps \subseteq valid

Collect ==
    /\ up
    /\ \E kept \in SUBSET entries, caps \in SUBSET valid :
        Collected(kept, caps) /\ entries' = kept /\ valid' = caps
    /\ UNCHANGED <<granted, known, now, up>>

\* A grant may collect first.
Grant(c) ==
    /\ up
    /\ \E kept \in SUBSET entries, caps \in SUBSET valid, e \in entries' :
        /\ Collected(kept, caps) /\ c \in caps
        /\ e.id = granted + 1 /\ e.cap = c
        /\ entries' = kept \union {e} /\ valid' = caps
    /\ granted' = granted + 1
    /\ UNCHANGED <<known, now, up>>

\* The end of an active lease moves; it does not come back from behind it.
Renew(e) ==
    /\ up /\ e \in Active
    /\ \E f \in entries' :
        /\ f.id = e.id /\ f.cap = e.cap /\ f.until > now
        /\ entries' = (entries \ {e}) \union {f}
    /\ UNCHANGED <<granted, known, valid, now, up>>

End(e) ==
    /\ up /\ e \in entries /\ entries' = entries \ {e}
    /\ UNCHANGED <<granted, known, valid, now, up>>

Revoke(c) ==
    /\ up /\ valid' = valid \ {c} /\ entries' = Of(valid')
    /\ UNCHANGED <<granted, known, now, up>>

Stop ==
    /\ up' = FALSE
    /\ UNCHANGED <<entries, granted, known, valid, now>>

\* A start, which may fail, takes up what it can of the leases.
Restart ==
    /\ ~up /\ up' \in BOOLEAN
    /\ valid' \subseteq valid /\ entries' \subseteq Of(valid')
    /\ UNCHANGED <<granted, known, now>>

Next ==
    \/ Advance \/ Collect \/ Stop \/ Restart
    \/ \E c \in Capabilities : Issue(c) \/ Revoke(c) \/ Grant(c)
    \/ \E e \in entries : Renew(e) \/ End(e)

Spec == Init /\ [][Next]_vars
================================================================================
