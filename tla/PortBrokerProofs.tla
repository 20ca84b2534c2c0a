--------------------------- MODULE PortBrokerProofs ---------------------------
(***************************************************************************)
(* What holds of PortBroker for every value of its constants.  The         *)
(* inductive invariant IInv adds to the properties the facts they lean on: *)
(* ids are fresh and unique, and the copy of a capability that a request   *)
(* carries never disagrees with the table.                                 *)
(***************************************************************************)
EXTENDS PortBroker, TLAPS

CapabilityIds ==
    /\ \A c \in capabilities : c.hash < nextCap
    /\ \A c, d \in capabilities : c.hash = d.hash => c = d

LeaseIds ==
    /\ \A l \in leases : l.id < nextLease
    /\ \A l, m \in leases : l.id = m.id => l = m

\* What Authenticate returned is still what the table says, if the table
\* still says anything: rows are never updated and hashes never reused.
CopiesAgree ==
    \A h \in Handlers : req[h] # Idle =>
        /\ req[h].cap.hash < nextCap
        /\ \A c \in capabilities : c.hash = req[h].cap.hash => c = req[h].cap

\* A process that is down forwards nothing and serves nobody.
DownIsSilent ==
    status = "down" => /\ \A p \in HostPorts : proxies[p] = NoLease
                       /\ \A h \in Handlers : req[h] = Idle

IInv ==
    /\ TypeOK
    /\ CapabilityIds /\ LeaseIds /\ CopiesAgree /\ DownIsSilent
    /\ PortExclusive /\ LeaseWithinCapability /\ ProxyHasLease

-------------------------------------------------------------------------------
(* Types *)

LEMMA RequestFields ==
    ASSUME TypeOK, NEW h \in Handlers
    PROVE  /\ req[h] # Idle => req[h].cap \in Capability
           /\ req[h].pc = "ready" => req[h] # Idle
           /\ req[h].pc \in Allocating =>
                 /\ req[h] # Idle
                 /\ req[h].need \in Id /\ req[h].deadline \in Nat
                 /\ req[h].patient \in BOOLEAN
           /\ req[h].pc = "try" => req[h].since \in Nat
           /\ req[h].pc = "wait" =>
                 /\ [req[h] EXCEPT !.pc = "loop"] \in Request
                 /\ [req[h] EXCEPT !.pc = "loop"].cap = req[h].cap
  BY DEF TypeOK, Request, Idle, Allocating

LEMMA CloseLeaseProxiesType ==
    ASSUME TypeOK, NEW rows
    PROVE  CloseLeaseProxies(rows) \in [HostPorts -> Nat]
  BY DEF TypeOK, CloseLeaseProxies, NoLease

LEMMA HolderInType ==
    ASSUME NEW rows \in SUBSET Lease, NEW p
    PROVE  HolderIn(rows, p) \in Nat
  <1>1. CASE \E l \in rows : p \in l.ports
    BY <1>1 DEF HolderIn, Lease, Id
  <1>2. CASE ~ \E l \in rows : p \in l.ports
    BY <1>2 DEF HolderIn, NoLease
  <1> QED BY <1>1, <1>2

LEMMA InitTypeOK == Init => TypeOK
  BY ConfigAssumption, ModelAssumption
  DEF Init, TypeOK, Status, Id, Request, NoLease, HostPorts

\* Every step keeps the types: one step of the proof for each action.
LEMMA StepTypeOK ==
    ASSUME TypeOK, [Next]_vars
    PROVE  TypeOK'
  <1> USE ConfigAssumption, ModelAssumption
  <1>1. ASSUME NEW h \in Handlers, Authenticate(h) PROVE TypeOK'
    BY <1>1 DEF TypeOK, Authenticate, LiveCapabilities, Request, tables, supply
  <1>2. ASSUME NEW h \in Handlers, NEW need \in 1 .. MaxPorts, NEW wait \in Waits,
               AllocateEnter(h, need, wait)
        PROVE  TypeOK'
    <2>1. need \in Id /\ clock + wait \in Nat
      BY DEF TypeOK, Id
    <2>2. req[h].cap \in Capability
      BY <1>2, RequestFields DEF AllocateEnter
    <2>3. (wait > 0) \in BOOLEAN
      OBVIOUS
    <2>4. \A deadline \in Nat, patient \in BOOLEAN :
            [pc |-> "loop", cap |-> req[h].cap, need |-> need,
             deadline |-> deadline, patient |-> patient] \in Request
      BY <2>1, <2>2 DEF Request
    <2>5. req' \in [Handlers -> Request]
      BY <1>2, <2>1, <2>3, <2>4 DEF TypeOK, AllocateEnter
    <2> QED BY <1>2, <2>5 DEF TypeOK, AllocateEnter, tables, supply
  <1>3. ASSUME NEW h \in Handlers, Snapshot(h) PROVE TypeOK'
    <2>1. [pc |-> "try", cap |-> req[h].cap, need |-> req[h].need,
           deadline |-> req[h].deadline, patient |-> req[h].patient,
           since |-> clock] \in Request
      BY <1>3, RequestFields DEF TypeOK, Snapshot, Request, Allocating
    <2> QED BY <1>3, <2>1 DEF TypeOK, Snapshot, tables, supply
  <1>4. ASSUME NEW h \in Handlers, NEW now \in 0 .. clock, Forbidden(h, now)
        PROVE  TypeOK'
    BY <1>4 DEF TypeOK, Forbidden, Return, Request, tables, supply
  <1>5. ASSUME NEW h \in Handlers, NEW now \in 0 .. clock, PurgeFails(h, now)
        PROVE  TypeOK'
    BY <1>5, CloseLeaseProxiesType
    DEF TypeOK, PurgeFails, RemoveExpiredFails, ActiveLeases, Return, Request, supply
  <1>6. ASSUME NEW now \in Nat, RemoveExpired(now), changed' \subseteq Handlers,
               req' \in [Handlers -> Request],
               UNCHANGED <<clock, status, supply, foreign>>
        PROVE  TypeOK'
    BY <1>6, CloseLeaseProxiesType
    DEF TypeOK, RemoveExpired, KeptCapabilities, LiveCapabilities, KeptLeases,
        ActiveLeases, Cascade, supply
  <1>7. ASSUME NEW h \in Handlers, NEW now \in 0 .. clock, Denied(h, now)
        PROVE  TypeOK'
    <2>1. now \in Nat /\ req' \in [Handlers -> Request] /\ changed' \subseteq Handlers
      BY <1>7 DEF TypeOK, Denied, Return, Request, KeptWaiting
    <2> QED BY <1>6, <1>7, <2>1 DEF Denied
  <1>8. ASSUME NEW h \in Handlers, NEW now \in 0 .. clock, Exhausted(h, now)
        PROVE  TypeOK'
    <2>1. [pc |-> "wait", cap |-> req[h].cap, need |-> req[h].need,
           deadline |-> req[h].deadline, patient |-> TRUE] \in Request
      BY <1>8, RequestFields DEF Exhausted, Admitted, Trying, Allocating, Request
    <2>2. req' \in [Handlers -> Request]
      BY <1>8, <2>1 DEF TypeOK, Exhausted, Return, Request
    <2>3. now \in Nat /\ changed' \subseteq Handlers
      BY <1>8 DEF TypeOK, Exhausted, KeptWaiting
    <2> QED BY <1>6, <1>8, <2>2, <2>3 DEF Exhausted
  <1>9. ASSUME NEW h \in Handlers, NEW now \in 0 .. clock,
               NEW ttl \in 0 .. MaximumTTL, Granted(h, now, ttl)
        PROVE  TypeOK'
    <2> DEFINE ports == FirstFit(req[h].need, AvailableAfter(now))
    <2>1. ports \in SUBSET HostPorts
      BY DEF FirstFit, AvailableAfter, Available
    <2>2. req[h].cap \in Capability
      BY <1>9, RequestFields DEF Granted, Admitted, Trying, Allocating
    <2>3. NewLease(h, now, ttl, ports) \in Lease
      <3> HIDE DEF ports
      <3>1. now + (IF ttl = 0 THEN DefaultTTL ELSE ttl) \in Nat
        BY DEF TypeOK
      <3> QED BY <2>1, <2>2, <3>1 DEF TypeOK, NewLease, MinimumTime, Lease, Capability
    <2>4. leases' \subseteq Lease /\ capabilities' \subseteq Capability
      BY <1>9, <2>3 DEF TypeOK, Granted, KeptLeases, ActiveLeases, Cascade,
         KeptCapabilities, LiveCapabilities
    <2>5. proxies' \in [HostPorts -> Nat]
      BY <1>9, CloseLeaseProxiesType DEF TypeOK, Granted, Id
    <2> QED BY <1>9, <2>4, <2>5
            DEF TypeOK, Granted, Return, Request, KeptWaiting, Id
  <1>10. ASSUME NEW h \in Handlers, Wake(h) PROVE TypeOK'
    BY <1>10, RequestFields DEF TypeOK, Wake, tables, supply
  <1>11. ASSUME NEW h \in Handlers, Leave(h) PROVE TypeOK'
    BY <1>11 DEF TypeOK, Leave, Return, Request, tables, supply
  <1>12. ASSUME NEW h \in Handlers, NEW ttl \in 1 .. MaximumTTL, Renew(h, ttl)
         PROVE  TypeOK'
    <2>1. req[h].cap \in Capability
      BY <1>12, RequestFields DEF Renew
    <2>2. PICK l \in ActiveLeases(clock) :
            leases' = (leases \ {l}) \cup
                {[l EXCEPT !.expires = MinimumTime(clock + ttl, req[h].cap.expires)]}
      BY <1>12 DEF Renew
    <2>3. MinimumTime(clock + ttl, req[h].cap.expires) \in Nat
      BY <2>1 DEF TypeOK, MinimumTime, Capability
    <2>4. leases' \subseteq Lease
      BY <2>2, <2>3 DEF TypeOK, ActiveLeases, Lease
    <2> QED BY <1>12, <2>4 DEF TypeOK, Renew, Return, Request, supply
  <1>13. ASSUME NEW l \in leases, RemoveLease(l), req' \in [Handlers -> Request]
         PROVE  TypeOK'
    BY <1>13, CloseLeaseProxiesType DEF TypeOK, RemoveLease, supply
  <1>14. ASSUME NEW h \in Handlers, Release(h) PROVE TypeOK'
    <2>1. req' \in [Handlers -> Request]
      BY <1>14 DEF TypeOK, Release, Return, Request
    <2> QED BY <1>13, <1>14, <2>1 DEF Release
  <1>15. ASSUME NEW h \in Handlers, Reject(h) PROVE TypeOK'
    BY <1>15 DEF TypeOK, Reject, Return, Request, tables, supply
  <1>16. ASSUME NEW user \in Users, NEW run \in Runs, NEW ttl \in 1 .. MaximumTTL,
                IssueCapability(user, run, ttl)
         PROVE  TypeOK'
    <2>1. [hash |-> nextCap, user |-> user, run |-> run, expires |-> clock + ttl]
              \in Capability
      BY DEF TypeOK, Capability
    <2> QED BY <1>16, <2>1 DEF TypeOK, IssueCapability, Id
  <1>17. ASSUME Revoke PROVE TypeOK'
    BY <1>13, <1>17 DEF TypeOK, Revoke
  <1>18. ASSUME NEW c \in capabilities, RevokeCapability(c) PROVE TypeOK'
    BY <1>18, CloseLeaseProxiesType DEF TypeOK, RevokeCapability, Cascade, supply
  <1>19. ASSUME NEW c \in capabilities, RevokeCapabilityFails(c) PROVE TypeOK'
    BY <1>19, CloseLeaseProxiesType DEF TypeOK, RevokeCapabilityFails, tables, supply
  <1>20. ASSUME Reap PROVE TypeOK'
    <2>1. clock \in Nat /\ req' \in [Handlers -> Request] /\ changed' \subseteq Handlers
      BY <1>20 DEF TypeOK, Reap, KeptWaiting
    <2> QED BY <1>6, <1>20, <2>1 DEF Reap
  <1>21. ASSUME ReapFails \/ OpenStoreFails PROVE TypeOK'
    BY <1>21, CloseLeaseProxiesType
    DEF TypeOK, ReapFails, OpenStoreFails, RemoveExpiredFails, ActiveLeases, supply
  <1>22. ASSUME CloseBegin \/ CloseEnd PROVE TypeOK'
    BY <1>22 DEF TypeOK, CloseBegin, CloseEnd, Status, NoLease, tables, supply
  <1>23. ASSUME Crash PROVE TypeOK'
    BY <1>23 DEF TypeOK, Crash, Status, NoLease, Request, tables, supply
  <1>24. ASSUME NEW ignored \in SUBSET Lost(KeptLeases(clock)), Reconcile(ignored)
         PROVE  capabilities' \subseteq Capability /\ leases' \subseteq Lease
    BY <1>24 DEF TypeOK, Reconcile, KeptCapabilities, LiveCapabilities, KeptLeases,
       ActiveLeases, Cascade, Lost
  <1>25. ASSUME Open PROVE TypeOK'
    <2>1. KeptLeases(clock) \ Lost(KeptLeases(clock)) \in SUBSET Lease
      BY DEF TypeOK, KeptLeases, ActiveLeases, Cascade
    <2>2. proxies' \in [HostPorts -> Nat]
      BY <1>25, <2>1, HolderInType DEF Open
    <2> QED BY <1>24, <1>25, <2>2 DEF TypeOK, Open, Status, supply
  <1>26. ASSUME OpenFails PROVE TypeOK'
    BY <1>24, <1>26 DEF TypeOK, OpenFails, supply
  <1>27. ASSUME Tick PROVE TypeOK'
    BY <1>27 DEF TypeOK, Tick, tables, supply
  <1>28. ASSUME NEW p \in Contended, ForeignBind(p) \/ ForeignRelease(p) PROVE TypeOK'
    BY <1>28 DEF TypeOK, ForeignBind, ForeignRelease, tables, supply
  <1>29. CASE UNCHANGED vars
    BY <1>29 DEF TypeOK, vars
  <1>30. ASSUME NEW h \in Handlers, Attempt(h) PROVE TypeOK'
    BY <1>4, <1>5, <1>7, <1>8, <1>9, <1>30 DEF Attempt
  <1>31. ASSUME NEW h \in Handlers, RequestStep(h) PROVE TypeOK'
    BY <1>1, <1>2, <1>3, <1>10, <1>11, <1>12, <1>14, <1>15, <1>30, <1>31
    DEF RequestStep, Allocate, Timeout, Cancel
  <1> QED
    BY <1>16, <1>17, <1>18, <1>19, <1>20, <1>21, <1>22, <1>23, <1>25, <1>26,
       <1>27, <1>28, <1>29, <1>31
    DEF Next, AdminStep, ProcessStep, Environment

\* Every state of the broker has its types.
THEOREM TypeCorrect == Spec => []TypeOK
  BY InitTypeOK, StepTypeOK, PTL DEF Spec
-------------------------------------------------------------------------------
(* How the tables may change.  These two lemmas look at every action once,  *)
(* so that what follows distinguishes three kinds of step and not thirty.   *)

Issued == \E user \in Users, run \in Runs, ttl \in 1 .. MaximumTTL :
              IssueCapability(user, run, ttl)

Renewed == \E h \in Handlers, ttl \in 1 .. MaximumTTL : Renew(h, ttl)

Allocated == \E h \in Handlers : \E now \in 0 .. clock :
                 \E ttl \in 0 .. MaximumTTL : Granted(h, now, ttl)

LEMMA CapabilitiesStep ==
    ASSUME [Next]_vars
    PROVE  \/ capabilities' \subseteq capabilities /\ nextCap' = nextCap
           \/ Issued
  <1> DEFINE Shrink == capabilities' \subseteq capabilities /\ nextCap' = nextCap
  <1>1. ASSUME NEW h \in Handlers, RequestStep(h) PROVE Shrink
    <2>1. ASSUME Attempt(h) PROVE Shrink
      BY <2>1 DEF Attempt, Forbidden, PurgeFails, RemoveExpiredFails, Denied, Exhausted,
         Granted, RemoveExpired, KeptCapabilities, LiveCapabilities, tables, supply
    <2>2. ASSUME Release(h) PROVE Shrink
      BY <2>2 DEF Release, RemoveLease, supply
    <2> QED
      BY <1>1, <2>1, <2>2
      DEF RequestStep, Allocate, Authenticate, AllocateEnter, Snapshot, Wake, Timeout,
          Cancel, Leave, Renew, Reject, tables, supply
  <1>2. ASSUME AdminStep PROVE Shrink \/ Issued
    BY <1>2 DEF AdminStep, Issued, Revoke, RemoveLease, RevokeCapability,
       RevokeCapabilityFails, tables, supply
  <1>3. ASSUME ProcessStep PROVE Shrink
    BY <1>3 DEF ProcessStep, Reap, RemoveExpired, ReapFails, RemoveExpiredFails, CloseBegin,
       CloseEnd, Crash, Open, OpenFails, OpenStoreFails, Reconcile, KeptCapabilities,
       LiveCapabilities, tables, supply
  <1>4. ASSUME Environment \/ UNCHANGED vars PROVE Shrink
    BY <1>4 DEF Environment, Tick, ForeignBind, ForeignRelease, vars, tables, supply
  <1> QED BY <1>1, <1>2, <1>3, <1>4 DEF Next

LEMMA LeasesStep ==
    ASSUME [Next]_vars
    PROVE  \/ leases' \subseteq leases /\ nextLease' = nextLease
           \/ Renewed
           \/ Allocated
  <1> DEFINE Shrink == leases' \subseteq leases /\ nextLease' = nextLease
  <1>1. ASSUME NEW h \in Handlers, RequestStep(h) PROVE Shrink \/ Renewed \/ Allocated
    <2>1. ASSUME Attempt(h) PROVE Shrink \/ Allocated
      <3>1. ASSUME NEW now \in 0 .. clock,
                   Forbidden(h, now) \/ PurgeFails(h, now) \/ Denied(h, now)
                   \/ Exhausted(h, now)
            PROVE  Shrink
        BY <3>1 DEF Forbidden, PurgeFails, RemoveExpiredFails, Denied, Exhausted,
           RemoveExpired, KeptLeases, Cascade, ActiveLeases, tables, supply
      <3> QED BY <2>1, <3>1 DEF Attempt, Allocated
    <2>2. ASSUME Release(h) PROVE Shrink
      BY <2>2 DEF Release, RemoveLease, supply
    <2> QED
      BY <1>1, <2>1, <2>2
      DEF RequestStep, Allocate, Authenticate, AllocateEnter, Snapshot, Wake, Timeout,
          Cancel, Leave, Reject, Renewed, tables, supply
  <1>2. ASSUME AdminStep PROVE Shrink
    BY <1>2 DEF AdminStep, IssueCapability, Revoke, RemoveLease, RevokeCapability,
       RevokeCapabilityFails, Cascade, tables, supply
  <1>3. ASSUME Open \/ OpenFails PROVE Shrink
    BY <1>3 DEF Open, OpenFails, Reconcile, Lost, KeptLeases, Cascade, ActiveLeases, supply
  <1>4. ASSUME ProcessStep PROVE Shrink
    BY <1>3, <1>4 DEF ProcessStep, Reap, RemoveExpired, ReapFails, RemoveExpiredFails,
       CloseBegin, CloseEnd, Crash, OpenStoreFails, KeptLeases, Cascade,
       ActiveLeases, tables, supply
  <1>5. ASSUME Environment \/ UNCHANGED vars PROVE Shrink
    BY <1>5 DEF Environment, Tick, ForeignBind, ForeignRelease, vars, tables, supply
  <1> QED BY <1>1, <1>2, <1>4, <1>5 DEF Next

\* What the two steps that are not deletions do to the rows.
LEMMA RenewedRow ==
    ASSUME IInv, Renewed
    PROVE  \E l \in leases, c \in capabilities, e \in Nat :
              /\ l \in ActiveLeases(clock)
              /\ c.hash = l.cap /\ e <= c.expires
              /\ leases' = (leases \ {l}) \cup {[l EXCEPT !.expires = e]}
              /\ capabilities' = capabilities /\ nextLease' = nextLease
              /\ proxies' = proxies
  <1>1. PICK h \in Handlers, ttl \in 1 .. MaximumTTL : Renew(h, ttl)
    BY DEF Renewed
  <1> DEFINE e == MinimumTime(clock + ttl, req[h].cap.expires)
  <1>2. PICK l \in leases : /\ l \in ActiveLeases(clock) /\ l.cap = req[h].cap.hash
                            /\ leases' = (leases \ {l}) \cup {[l EXCEPT !.expires = e]}
    BY <1>1 DEF Renew, ActiveLeases
  <1>3. req[h] # Idle /\ req[h].cap \in Capability
    BY <1>1, RequestFields DEF IInv, Renew
  <1>4. req[h].cap \in capabilities
    BY <1>1, <1>3 DEF IInv, CopiesAgree, Renew, Hashes, LiveCapabilities
  <1>5. e \in Nat /\ e <= req[h].cap.expires
    BY <1>3, ConfigAssumption DEF IInv, TypeOK, Capability, MinimumTime
  <1>6. capabilities' = capabilities /\ nextLease' = nextLease /\ proxies' = proxies
    BY <1>1 DEF Renew, supply
  <1> QED BY <1>2, <1>4, <1>5, <1>6

\* The first n ports there are, as many as the limits of c leave room for.
AllocatedPorts(now, c, ports) ==
    \E n \in Id : /\ ports = FirstFit(n, AvailableAfter(now))
                  /\ n <= Cardinality(AvailableAfter(now))
                  /\ WithinLimits(KeptLeases(now), c, n)

LEMMA AllocatedRow ==
    ASSUME IInv, Allocated
    PROVE  \E now \in 0 .. clock : \E row \in Lease, c \in KeptCapabilities(now) :
              /\ row.id = nextLease /\ row.cap = c.hash
              /\ row.user = c.user /\ row.run = c.run /\ row.expires <= c.expires
              /\ row.ports \subseteq AvailableAfter(now)
              /\ AllocatedPorts(now, c, row.ports)
              /\ leases' = KeptLeases(now) \cup {row}
              /\ capabilities' = KeptCapabilities(now)
              /\ nextLease' = nextLease + 1
              /\ proxies' = [p \in HostPorts |->
                    IF p \in row.ports THEN row.id
                    ELSE CloseLeaseProxies(ExpiredLeases(now))[p]]
  <1>1. PICK h \in Handlers, now \in 0 .. clock, ttl \in 0 .. MaximumTTL :
           Granted(h, now, ttl)
    BY DEF Allocated
  <1> DEFINE ports == FirstFit(req[h].need, AvailableAfter(now))
             row   == NewLease(h, now, ttl, ports)
  <1>2. req[h] # Idle /\ req[h].cap \in Capability
    BY <1>1, RequestFields DEF IInv, Granted, Admitted, Trying, Allocating
  <1>3. req[h].cap \in KeptCapabilities(now)
    BY <1>1, <1>2
    DEF IInv, CopiesAgree, Granted, Admitted, Hashes, LiveCapabilities, KeptCapabilities
  <1>4. ports \subseteq AvailableAfter(now) /\ ports \subseteq HostPorts
    BY DEF FirstFit, AvailableAfter, Available
  <1>5. now + (IF ttl = 0 THEN DefaultTTL ELSE ttl) \in Nat
    BY ConfigAssumption DEF IInv, TypeOK
  <1>6. row \in Lease /\ row.expires <= req[h].cap.expires
    <2> HIDE DEF ports
    <2> QED BY <1>2, <1>4, <1>5
            DEF IInv, TypeOK, NewLease, MinimumTime, Lease, Capability
  <1>7. /\ row.id = nextLease /\ row.cap = req[h].cap.hash
        /\ row.user = req[h].cap.user /\ row.run = req[h].cap.run /\ row.ports = ports
    BY DEF NewLease
  <1>8. /\ leases' = KeptLeases(now) \cup {row}
        /\ capabilities' = KeptCapabilities(now)
        /\ nextLease' = nextLease + 1
        /\ proxies' = [p \in HostPorts |->
              IF p \in ports THEN nextLease
              ELSE CloseLeaseProxies(ExpiredLeases(now))[p]]
    BY <1>1 DEF Granted
  <1>9. AllocatedPorts(now, req[h].cap, ports)
    <2>1. Cardinality(AvailableAfter(now)) >= req[h].need
          /\ WithinLimits(KeptLeases(now), req[h].cap, req[h].need)
          /\ req[h].pc = "try"
      BY <1>1 DEF Granted, Admitted, Trying
    <2>2. req[h].need \in Id
      BY <2>1, RequestFields DEF IInv, Allocating
    <2> DEFINE card == Cardinality(AvailableAfter(now))
    <2>3. req[h].need <= card
      <3> HIDE DEF card
      <3> QED BY <2>1, <2>2 DEF card, Id
    <2> QED BY <2>1, <2>2, <2>3 DEF AllocatedPorts
  <1> HIDE DEF row, ports
  <1> QED BY <1>3, <1>4, <1>6, <1>7, <1>8, <1>9

-------------------------------------------------------------------------------
(* The inductive step, one lemma for each conjunct of IInv *)

LEMMA StepCapabilityIds ==
    ASSUME IInv, [Next]_vars
    PROVE  CapabilityIds'
  <1>1. CASE capabilities' \subseteq capabilities /\ nextCap' = nextCap
    BY <1>1 DEF IInv, CapabilityIds
  <1>2. CASE Issued
    <2>1. PICK c \in Capability : /\ c.hash = nextCap
                                  /\ capabilities' = capabilities \cup {c}
                                  /\ nextCap' = nextCap + 1
      <3>1. PICK user \in Users, run \in Runs, ttl \in 1 .. MaximumTTL :
               IssueCapability(user, run, ttl)
        BY <1>2 DEF Issued
      <3>2. [hash |-> nextCap, user |-> user, run |-> run, expires |-> clock + ttl]
                \in Capability
        BY ConfigAssumption DEF IInv, TypeOK, Capability
      <3> QED BY <3>1, <3>2 DEF IssueCapability
    <2>2. \A d \in capabilities : d.hash \in Nat /\ d.hash < nextCap
      BY DEF IInv, TypeOK, CapabilityIds, Capability, Id
    <2> QED BY <2>1, <2>2 DEF IInv, TypeOK, CapabilityIds, Id
  <1> QED BY <1>1, <1>2, CapabilitiesStep

LEMMA StepLeaseIds ==
    ASSUME IInv, [Next]_vars
    PROVE  LeaseIds'
  <1>1. CASE leases' \subseteq leases /\ nextLease' = nextLease
    BY <1>1 DEF IInv, LeaseIds
  <1>2. CASE Renewed
    <2>1. PICK l \in leases, e \in Nat :
             /\ leases' = (leases \ {l}) \cup {[l EXCEPT !.expires = e]}
             /\ nextLease' = nextLease
      BY <1>2, RenewedRow
    <2>2. [l EXCEPT !.expires = e].id = l.id
      BY DEF IInv, TypeOK, Lease
    <2> QED BY <2>1, <2>2 DEF IInv, LeaseIds
  <1>3. CASE Allocated
    <2>1. PICK now \in 0 .. clock, row \in Lease :
             /\ row.id = nextLease
             /\ leases' = KeptLeases(now) \cup {row}
             /\ nextLease' = nextLease + 1
      BY <1>3, AllocatedRow
    <2>2. \A l \in KeptLeases(now) : l \in leases /\ l.id \in Nat /\ l.id < nextLease
      BY DEF IInv, TypeOK, LeaseIds, KeptLeases, Cascade, ActiveLeases, Lease, Id
    <2> QED BY <2>1, <2>2 DEF IInv, TypeOK, LeaseIds, Id
  <1> QED BY <1>1, <1>2, <1>3, LeasesStep

\* A request's copy is either kept or just read from the table.
LEMMA StepCopiesAgree ==
    ASSUME IInv, [Next]_vars
    PROVE  CopiesAgree'
  <1>1. ASSUME NEW h \in Handlers, req'[h] # Idle
        PROVE  /\ req'[h].cap.hash \in Nat
               /\ req'[h].cap.hash < nextCap
               /\ \A c \in capabilities : c.hash = req'[h].cap.hash => c = req'[h].cap
    <2> DEFINE Known(r) == r = Idle \/ (/\ r.cap.hash \in Nat
                                        /\ r.cap.hash < nextCap
                                        /\ \A c \in capabilities :
                                              c.hash = r.cap.hash => c = r.cap)
    <2>1. \A g \in Handlers : Known(req[g])
      BY RequestFields DEF IInv, CopiesAgree, Capability, Id
    <2>2. \A c \in capabilities : c.hash \in Nat /\ c.hash < nextCap
      BY DEF IInv, TypeOK, CapabilityIds, Capability, Id
    <2>3. ASSUME NEW g \in Handlers, RequestStep(g)
          PROVE  \/ req'[h] = Idle \/ req'[h] = req[h]
                 \/ req[h] # Idle /\ req'[h].cap = req[h].cap
                 \/ req'[h].cap \in capabilities
      <3>1. CASE Authenticate(g)
        BY <3>1 DEF IInv, TypeOK, Authenticate, LiveCapabilities
      <3>2. CASE Attempt(g)
        <4>1. PICK now \in 0 .. clock :
                 \/ Return(g)
                 \/ Exhausted(g, now)
          BY <3>2 DEF Attempt, Forbidden, PurgeFails, Denied, Granted
        <4>2. CASE Return(g)
          BY <4>2 DEF IInv, TypeOK, Return
        <4>3. CASE Exhausted(g, now)
          <5>1. req[g] # Idle
            BY <4>3, RequestFields DEF IInv, Exhausted, Admitted, Trying, Allocating
          <5> QED BY <4>3, <5>1 DEF IInv, TypeOK, Exhausted, Return
        <4> QED BY <4>1, <4>2, <4>3
      <3>3. CASE Release(g) \/ Reject(g)
        BY <3>3 DEF IInv, TypeOK, Release, Reject, Return
      <3>4. ASSUME NEW ttl \in 1 .. MaximumTTL, Renew(g, ttl)
            PROVE  req'[h] = Idle \/ req'[h] = req[h]
        BY <3>4 DEF IInv, TypeOK, Renew, Return
      <3>5. CASE Timeout(g) \/ Cancel(g)
        BY <3>5 DEF IInv, TypeOK, Timeout, Cancel, Leave, Return
      <3>6. CASE Snapshot(g)
        BY <3>6, RequestFields DEF IInv, TypeOK, Snapshot, Allocating
      <3>7. CASE Wake(g)
        BY <3>7, RequestFields DEF IInv, TypeOK, Wake, Allocating
      <3>8. ASSUME NEW need, NEW wait, AllocateEnter(g, need, wait)
            PROVE  req'[h] = req[h] \/ (req[h] # Idle /\ req'[h].cap = req[h].cap)
        BY <3>8, RequestFields DEF IInv, TypeOK, AllocateEnter
      <3> QED BY <2>3, <3>1, <3>2, <3>3, <3>4, <3>5, <3>6, <3>7, <3>8
              DEF RequestStep, Allocate
    <2>4. ASSUME ~ \E g \in Handlers : RequestStep(g)
          PROVE  req'[h] = Idle \/ req'[h] = req[h]
      BY <2>4
      DEF Next, AdminStep, IssueCapability, Revoke, RevokeCapability, RevokeCapabilityFails,
          ProcessStep, Reap, ReapFails, CloseBegin, CloseEnd, Crash, Open, OpenFails,
          OpenStoreFails, Environment, Tick, ForeignBind, ForeignRelease, vars
    <2>5. req'[h].cap \in capabilities => Known(req'[h])
      BY <2>2 DEF IInv, CapabilityIds
    <2>6. Known(req'[h])
      BY <2>1, <2>3, <2>4, <2>5
    <2> QED BY <1>1, <2>6
  <1>2. CASE capabilities' \subseteq capabilities /\ nextCap' = nextCap
    BY <1>1, <1>2 DEF CopiesAgree
  <1>3. CASE Issued
    <2>1. PICK c : /\ c.hash = nextCap
                   /\ capabilities' = capabilities \cup {c}
                   /\ nextCap' = nextCap + 1
      BY <1>3 DEF Issued, IssueCapability
    <2> QED BY <1>1, <2>1 DEF IInv, TypeOK, CopiesAgree, Id
  <1> QED BY <1>2, <1>3, CapabilitiesStep

LEMMA StepPortExclusive ==
    ASSUME IInv, [Next]_vars
    PROVE  PortExclusive'
  <1>1. CASE leases' \subseteq leases
    BY <1>1 DEF IInv, PortExclusive
  <1>2. CASE Renewed
    <2>1. PICK l \in leases, e \in Nat :
             leases' = (leases \ {l}) \cup {[l EXCEPT !.expires = e]}
      BY <1>2, RenewedRow
    <2>2. [l EXCEPT !.expires = e].ports = l.ports
      BY DEF IInv, TypeOK, Lease
    <2> QED BY <2>1, <2>2 DEF IInv, PortExclusive
  <1>3. CASE Allocated
    <2>1. PICK now \in 0 .. clock : \E row \in Lease :
             /\ row.ports \subseteq AvailableAfter(now)
             /\ leases' = KeptLeases(now) \cup {row}
      BY <1>3, AllocatedRow
    <2>2. PICK row \in Lease : /\ row.ports \subseteq AvailableAfter(now)
                               /\ leases' = KeptLeases(now) \cup {row}
      BY <2>1
    <2>3. \A l \in KeptLeases(now) : l \in leases /\ l.ports \cap row.ports = {}
      BY <2>2 DEF AvailableAfter, Available, Held, KeptLeases, Cascade, ActiveLeases
    <2> QED BY <2>2, <2>3 DEF IInv, PortExclusive
  <1> QED BY <1>1, <1>2, <1>3, LeasesStep

LEMMA LeaseWithin ==
    ASSUME IInv, NEW l \in leases
    PROVE  \E c \in capabilities : /\ c.hash = l.cap /\ c.user = l.user /\ c.run = l.run
                                   /\ l.expires <= c.expires
                                   /\ l.expires \in Nat /\ c.expires \in Nat
  BY DEF IInv, TypeOK, LeaseWithinCapability, Capability, Lease

\* An active lease survives a collection: its capability is active too, so
\* the cascade spares it.
LEMMA KeptIsActive ==
    ASSUME IInv, NEW now \in Nat
    PROVE  KeptLeases(now) = ActiveLeases(now)
  <1>1. ASSUME NEW l \in ActiveLeases(now) PROVE l \in KeptLeases(now)
    <2>1. PICK c \in capabilities : c.hash = l.cap /\ l.expires <= c.expires
                                    /\ l.expires \in Nat /\ c.expires \in Nat
      BY LeaseWithin DEF ActiveLeases
    <2>2. c \in KeptCapabilities(now)
      BY <2>1 DEF ActiveLeases, KeptCapabilities, LiveCapabilities
    <2> QED BY <2>1, <2>2 DEF KeptLeases, Cascade, Hashes
  <1> QED BY <1>1 DEF KeptLeases, Cascade

\* Deleting rows keeps LeaseWithinCapability as long as every lease that
\* stays has kept its capability.
LEMMA ShrinkWithin ==
    ASSUME IInv, leases' \subseteq leases, capabilities' \subseteq capabilities,
           \A l \in leases' : l.cap \in Hashes(capabilities')
    PROVE  LeaseWithinCapability'
  <1>1. ASSUME NEW l \in leases'
        PROVE  \E c \in capabilities' : /\ c.hash = l.cap /\ c.user = l.user
                                        /\ c.run = l.run /\ l.expires <= c.expires
    <2>1. PICK c \in capabilities : /\ c.hash = l.cap /\ c.user = l.user
                                    /\ c.run = l.run /\ l.expires <= c.expires
      BY LeaseWithin
    <2>2. PICK d \in capabilities' : d.hash = l.cap
      BY DEF Hashes
    <2>3. c = d
      BY <2>1, <2>2 DEF IInv, CapabilityIds
    <2> QED BY <2>1, <2>2, <2>3
  <1> QED BY <1>1 DEF LeaseWithinCapability

LEMMA HashOfLease ==
    ASSUME IInv, NEW l \in leases
    PROVE  l.cap \in Hashes(capabilities)
  BY DEF IInv, LeaseWithinCapability, Hashes

\* The steps that delete rows leave no lease without its capability.
LEMMA CascadeStep ==
    ASSUME IInv, [Next]_vars, leases' \subseteq leases, capabilities' \subseteq capabilities
    PROVE  \A l \in leases' : l.cap \in Hashes(capabilities')
  <1> DEFINE Goal == \A l \in leases' : l.cap \in Hashes(capabilities')
  <1>1. CASE capabilities' = capabilities
    BY <1>1, HashOfLease
  <1>2. ASSUME NEW now, capabilities' = KeptCapabilities(now),
               leases' = KeptLeases(now)
        PROVE  Goal
    BY <1>2 DEF KeptLeases, Cascade
  <1>3. ASSUME NEW h \in Handlers, RequestStep(h) PROVE Goal
    <2>1. ASSUME Attempt(h) PROVE Goal
      <3>1. ASSUME NEW now \in 0 .. clock, Denied(h, now) \/ Exhausted(h, now)
            PROVE  Goal
        BY <1>2, <3>1 DEF Denied, Exhausted, RemoveExpired
      <3>2. ASSUME NEW now \in 0 .. clock, Forbidden(h, now) \/ PurgeFails(h, now)
            PROVE  Goal
        BY <1>1, <3>2 DEF Forbidden, PurgeFails, RemoveExpiredFails, tables
      <3>3. ASSUME NEW now \in 0 .. clock, NEW ttl \in 0 .. MaximumTTL,
                   Granted(h, now, ttl)
            PROVE  Goal
        <4>1. Allocated
          BY <3>3 DEF Allocated
        <4>2. PICK m \in 0 .. clock : \E row \in Lease, c \in KeptCapabilities(m) :
                 /\ row.cap = c.hash
                 /\ leases' = KeptLeases(m) \cup {row}
                 /\ capabilities' = KeptCapabilities(m)
          BY <4>1, AllocatedRow
        <4> QED BY <4>2 DEF KeptLeases, Cascade, Hashes
      <3> QED BY <2>1, <3>1, <3>2, <3>3 DEF Attempt
    <2>2. ASSUME Release(h) PROVE Goal
      BY <1>1, <2>2 DEF Release, RemoveLease
    <2> QED
      BY <1>1, <1>3, <2>1, <2>2
      DEF RequestStep, Allocate, Authenticate, AllocateEnter, Snapshot, Wake, Timeout,
          Cancel, Leave, Renew, Reject, tables
  <1>4. ASSUME AdminStep PROVE Goal
    <2>1. ASSUME NEW c \in capabilities, RevokeCapability(c) PROVE Goal
      BY <2>1 DEF RevokeCapability, Cascade
    <2>2. ASSUME NEW user, NEW run, NEW ttl, IssueCapability(user, run, ttl) PROVE Goal
      <3>1. capabilities \subseteq capabilities'
        BY <2>2 DEF IssueCapability
      <3> QED BY <1>1, <3>1
    <2> QED
      BY <1>1, <1>4, <2>1, <2>2
      DEF AdminStep, Revoke, RemoveLease, RevokeCapabilityFails, tables
  <1>5. ASSUME Open \/ OpenFails PROVE Goal
    <2>1. leases' \subseteq KeptLeases(clock) /\ capabilities' = KeptCapabilities(clock)
      BY <1>5 DEF Open, OpenFails, Reconcile, Lost
    <2> QED BY <2>1 DEF KeptLeases, Cascade
  <1>6. ASSUME ProcessStep PROVE Goal
    <2>1. ASSUME Reap PROVE Goal
      BY <1>2, <2>1 DEF Reap, RemoveExpired
    <2> QED
      BY <1>1, <1>5, <1>6, <2>1
      DEF ProcessStep, ReapFails, RemoveExpiredFails, CloseBegin, CloseEnd, Crash,
          OpenStoreFails, tables
  <1>7. ASSUME Environment \/ UNCHANGED vars PROVE Goal
    BY <1>1, <1>7 DEF Environment, Tick, ForeignBind, ForeignRelease, vars, tables
  <1> QED BY <1>3, <1>4, <1>6, <1>7 DEF Next

LEMMA StepLeaseWithinCapability ==
    ASSUME IInv, [Next]_vars
    PROVE  LeaseWithinCapability'
  <1>1. CASE leases' \subseteq leases /\ capabilities' \subseteq capabilities
    BY <1>1, CascadeStep, ShrinkWithin
  <1>2. CASE Issued
    BY <1>2 DEF Issued, IssueCapability, IInv, LeaseWithinCapability
  <1>3. CASE Renewed
    <2>1. PICK l \in leases, c \in capabilities, e \in Nat :
             /\ c.hash = l.cap /\ e <= c.expires
             /\ leases' = (leases \ {l}) \cup {[l EXCEPT !.expires = e]}
             /\ capabilities' = capabilities
      BY <1>3, RenewedRow
    <2>2. c.user = l.user /\ c.run = l.run
      BY <2>1, LeaseWithin DEF IInv, CapabilityIds
    <2>3. /\ [l EXCEPT !.expires = e].cap = l.cap
          /\ [l EXCEPT !.expires = e].user = l.user
          /\ [l EXCEPT !.expires = e].run = l.run
          /\ [l EXCEPT !.expires = e].expires = e
      BY DEF IInv, TypeOK, Lease
    <2> DEFINE r == [l EXCEPT !.expires = e]
    <2> HIDE DEF r
    <2>4. leases' = (leases \ {l}) \cup {r} /\ r.cap = c.hash /\ r.user = c.user
          /\ r.run = c.run /\ r.expires <= c.expires
      BY <2>1, <2>2, <2>3 DEF r
    <2> QED BY <2>1, <2>4 DEF IInv, LeaseWithinCapability
  <1>4. CASE Allocated
    <2>1. PICK now \in 0 .. clock : \E row \in Lease, c \in KeptCapabilities(now) :
             /\ row.cap = c.hash /\ row.user = c.user /\ row.run = c.run
             /\ row.expires <= c.expires
             /\ leases' = KeptLeases(now) \cup {row}
             /\ capabilities' = KeptCapabilities(now)
      BY <1>4, AllocatedRow
    <2>2. ASSUME NEW l \in KeptLeases(now)
          PROVE  \E c \in KeptCapabilities(now) :
                    /\ c.hash = l.cap /\ c.user = l.user /\ c.run = l.run
                    /\ l.expires <= c.expires
      <3>1. l \in leases /\ l.cap \in Hashes(KeptCapabilities(now))
        BY DEF KeptLeases, Cascade, ActiveLeases
      <3>2. PICK c \in capabilities : /\ c.hash = l.cap /\ c.user = l.user
                                      /\ c.run = l.run /\ l.expires <= c.expires
        BY <3>1, LeaseWithin
      <3>3. PICK d \in KeptCapabilities(now) : d.hash = l.cap
        BY <3>1 DEF Hashes
      <3>4. c = d
        BY <3>2, <3>3 DEF IInv, CapabilityIds, KeptCapabilities, LiveCapabilities
      <3> QED BY <3>2, <3>3, <3>4
    <2> QED BY <2>1, <2>2 DEF LeaseWithinCapability
  <1> QED BY <1>1, <1>2, <1>3, <1>4, CapabilitiesStep, LeasesStep

\* Closing the listeners of the rows that go leaves none behind.
LEMMA ClosedWithRows ==
    ASSUME IInv, NEW rows \in SUBSET leases, proxies' = CloseLeaseProxies(rows),
           leases \ rows \subseteq leases'
    PROVE  ProxyHasLease'
  <1>1. ASSUME NEW p \in HostPorts, proxies'[p] # NoLease
        PROVE  \E l \in leases' : l.id = proxies'[p] /\ p \in l.ports
    <2>1. p \notin Held(rows) /\ proxies'[p] = proxies[p]
      BY <1>1 DEF CloseLeaseProxies
    <2>2. PICK l \in leases : l.id = proxies[p] /\ p \in l.ports
      BY <1>1, <2>1 DEF IInv, ProxyHasLease
    <2> QED BY <2>1, <2>2 DEF Held
  <1> QED BY <1>1 DEF ProxyHasLease

LEMMA ProxiesKept ==
    ASSUME IInv, proxies' = proxies, leases \subseteq leases'
    PROVE  ProxyHasLease'
  BY DEF IInv, ProxyHasLease

LEMMA ExpiredIsRest ==
    ASSUME IInv, NEW now \in Nat
    PROVE  /\ ExpiredLeases(now) \in SUBSET leases
           /\ leases \ ExpiredLeases(now) = ActiveLeases(now)
  BY DEF IInv, TypeOK, ExpiredLeases, ActiveLeases, Lease

LEMMA PurgeProxies ==
    ASSUME IInv, NEW now \in Nat, RemoveExpired(now) \/ RemoveExpiredFails(now)
    PROVE  ProxyHasLease'
  <1>1. ActiveLeases(now) \subseteq leases'
    BY KeptIsActive DEF RemoveExpired, RemoveExpiredFails, ActiveLeases
  <1>2. proxies' = CloseLeaseProxies(ExpiredLeases(now))
    BY DEF RemoveExpired, RemoveExpiredFails
  <1> QED BY <1>1, <1>2, ExpiredIsRest, ClosedWithRows

LEMMA RemoveLeaseProxies ==
    ASSUME IInv, NEW l \in leases, RemoveLease(l)
    PROVE  ProxyHasLease'
  BY ClosedWithRows DEF RemoveLease

LEMMA AllocatedProxies ==
    ASSUME IInv, Allocated
    PROVE  ProxyHasLease'
  <1>1. PICK now \in 0 .. clock : \E row \in Lease :
           /\ leases' = KeptLeases(now) \cup {row}
           /\ proxies' = [p \in HostPorts |->
                 IF p \in row.ports THEN row.id
                 ELSE CloseLeaseProxies(ExpiredLeases(now))[p]]
    BY AllocatedRow
  <1>2. PICK row \in Lease :
           /\ leases' = KeptLeases(now) \cup {row}
           /\ proxies' = [p \in HostPorts |->
                 IF p \in row.ports THEN row.id
                 ELSE CloseLeaseProxies(ExpiredLeases(now))[p]]
    BY <1>1
  <1>3. now \in Nat
    BY DEF IInv, TypeOK
  <1>4. ASSUME NEW p \in HostPorts, proxies'[p] # NoLease, p \notin row.ports
        PROVE  \E l \in leases' : l.id = proxies'[p] /\ p \in l.ports
    <2>1. p \notin Held(ExpiredLeases(now)) /\ proxies'[p] = proxies[p]
      BY <1>2, <1>4 DEF CloseLeaseProxies
    <2>2. PICK l \in leases : l.id = proxies[p] /\ p \in l.ports
      BY <1>4, <2>1 DEF IInv, ProxyHasLease
    <2>3. l \in KeptLeases(now)
      BY <1>3, <2>1, <2>2, ExpiredIsRest, KeptIsActive DEF Held
    <2> QED BY <1>2, <2>1, <2>2, <2>3
  <1>5. ASSUME NEW p \in HostPorts, p \in row.ports
        PROVE  \E l \in leases' : l.id = proxies'[p] /\ p \in l.ports
    BY <1>2, <1>5
  <1> QED BY <1>4, <1>5 DEF ProxyHasLease

LEMMA StepProxyHasLease ==
    ASSUME IInv, [Next]_vars
    PROVE  ProxyHasLease'
  <1>1. ASSUME Renewed PROVE ProxyHasLease'
    <2>1. PICK l \in leases, e \in Nat :
             /\ leases' = (leases \ {l}) \cup {[l EXCEPT !.expires = e]}
             /\ proxies' = proxies
      BY <1>1, RenewedRow
    <2>2. [l EXCEPT !.expires = e].id = l.id /\ [l EXCEPT !.expires = e].ports = l.ports
      BY DEF IInv, TypeOK, Lease
    <2> QED BY <2>1, <2>2 DEF IInv, ProxyHasLease
  <1>2. ASSUME NEW h \in Handlers, Attempt(h) PROVE ProxyHasLease'
    <2>1. ASSUME NEW now \in 0 .. clock,
                 PurgeFails(h, now) \/ Denied(h, now) \/ Exhausted(h, now)
          PROVE  ProxyHasLease'
      <3>1. now \in Nat
        BY DEF IInv, TypeOK
      <3> QED BY <2>1, <3>1, PurgeProxies DEF PurgeFails, Denied, Exhausted
    <2>2. ASSUME NEW now \in 0 .. clock, Forbidden(h, now) PROVE ProxyHasLease'
      BY <2>2, ProxiesKept DEF Forbidden, tables
    <2> QED BY <1>2, <2>1, <2>2, AllocatedProxies DEF Attempt, Allocated
  <1>3. ASSUME NEW h \in Handlers, RequestStep(h) PROVE ProxyHasLease'
    <2>1. ASSUME Release(h) PROVE ProxyHasLease'
      BY <2>1, RemoveLeaseProxies DEF Release
    <2> QED
      BY <1>1, <1>2, <1>3, <2>1, ProxiesKept
      DEF RequestStep, Allocate, Authenticate, AllocateEnter, Snapshot, Wake, Timeout,
          Cancel, Leave, Renewed, Reject, tables
  <1>4. ASSUME AdminStep PROVE ProxyHasLease'
    <2>1. ASSUME Revoke PROVE ProxyHasLease'
      BY <2>1, RemoveLeaseProxies DEF Revoke
    <2>2. ASSUME NEW c \in capabilities, RevokeCapability(c) PROVE ProxyHasLease'
      <3>1. ASSUME NEW l \in leases, l \notin LeasesOf(c.hash) PROVE l \in leases'
        BY <2>2, <3>1, HashOfLease DEF RevokeCapability, Cascade, Hashes, LeasesOf
      <3>2. LeasesOf(c.hash) \in SUBSET leases
        BY DEF LeasesOf
      <3> QED BY <2>2, <3>1, <3>2, ClosedWithRows DEF RevokeCapability
    <2>3. ASSUME NEW c \in capabilities, RevokeCapabilityFails(c) PROVE ProxyHasLease'
      BY <2>3, ClosedWithRows DEF RevokeCapabilityFails, LeasesOf, tables
    <2> QED BY <1>4, <2>1, <2>2, <2>3, ProxiesKept DEF AdminStep, IssueCapability
  <1>5. ASSUME Reap \/ ReapFails \/ OpenStoreFails PROVE ProxyHasLease'
    <2>1. clock \in Nat
      BY DEF IInv, TypeOK
    <2> QED BY <1>5, <2>1, PurgeProxies DEF Reap, ReapFails, OpenStoreFails
  <1>6. ASSUME CloseBegin \/ Crash PROVE ProxyHasLease'
    BY <1>6 DEF CloseBegin, Crash, ProxyHasLease
  <1>7. ASSUME CloseEnd PROVE ProxyHasLease'
    BY <1>7, ProxiesKept DEF CloseEnd, tables
  <1>8. ASSUME Open PROVE ProxyHasLease'
    <2> DEFINE restored == KeptLeases(clock) \ Lost(KeptLeases(clock))
    <2>1. restored \subseteq leases'
      BY <1>8 DEF Open, Reconcile
    <2>2. \A p \in HostPorts : HolderIn(restored, p) # NoLease =>
             \E l \in restored : l.id = HolderIn(restored, p) /\ p \in l.ports
      <3> HIDE DEF restored
      <3> QED BY DEF HolderIn
    <2>3. proxies' = [p \in HostPorts |-> HolderIn(restored, p)]
      BY <1>8 DEF Open
    <2> HIDE DEF restored
    <2> QED BY <2>1, <2>2, <2>3 DEF ProxyHasLease
  <1>9. ASSUME OpenFails PROVE ProxyHasLease'
    BY <1>9 DEF OpenFails, IInv, DownIsSilent, ProxyHasLease
  <1>10. ASSUME Environment \/ UNCHANGED vars PROVE ProxyHasLease'
    BY <1>10, ProxiesKept DEF Environment, Tick, ForeignBind, ForeignRelease, vars, tables
  <1> QED BY <1>3, <1>4, <1>5, <1>6, <1>7, <1>8, <1>9, <1>10 DEF Next, ProcessStep

\* While the process is down only Open and the world around it move.
LEMMA StepDownIsSilent ==
    ASSUME IInv, [Next]_vars
    PROVE  DownIsSilent'
  <1> SUFFICES ASSUME status' = "down"
               PROVE  /\ \A p \in HostPorts : proxies'[p] = NoLease
                      /\ \A h \in Handlers : req'[h] = Idle
    BY DEF DownIsSilent
  <1>1. ASSUME NEW h \in Handlers, RequestStep(h) PROVE FALSE
    <2>1. req[h].pc = "wait" => status # "down"
      BY DEF IInv, DownIsSilent, Idle
    <2> QED
      BY <1>1, <2>1
      DEF RequestStep, Allocate, Authenticate, AllocateEnter, Snapshot, Wake, Timeout,
          Cancel, Leave, Renew, Release, RemoveLease, Reject, Attempt, Forbidden,
          PurgeFails, Denied, Exhausted, Granted, Admitted, Trying, Serving
  <1>2. ASSUME AdminStep PROVE FALSE
    BY <1>2 DEF AdminStep, IssueCapability, Revoke, RemoveLease, RevokeCapability,
       RevokeCapabilityFails, Serving
  <1>3. CASE status # "down"
    BY <1>1, <1>2, <1>3
    DEF Next, ProcessStep, Reap, ReapFails, CloseBegin, CloseEnd, Crash, Open, OpenFails,
        OpenStoreFails, Serving, Environment, Tick, ForeignBind, ForeignRelease, vars
  <1>4. CASE status = "down"
    <2>1. ASSUME OpenStoreFails PROVE \A p \in HostPorts : proxies'[p] = NoLease
      BY <1>4, <2>1 DEF OpenStoreFails, RemoveExpiredFails, CloseLeaseProxies, IInv,
         DownIsSilent
    <2> QED
      BY <1>1, <1>2, <1>4, <2>1
      DEF Next, ProcessStep, Reap, ReapFails, CloseBegin, CloseEnd, Crash, Open, OpenFails,
          OpenStoreFails, Serving, Environment, Tick, ForeignBind, ForeignRelease, vars,
          IInv, DownIsSilent
  <1> QED BY <1>3, <1>4

-------------------------------------------------------------------------------
(* The theorems *)

LEMMA InitIInv == Init => IInv
  BY InitTypeOK
  DEF Init, IInv, CapabilityIds, LeaseIds, CopiesAgree, DownIsSilent, PortExclusive,
      LeaseWithinCapability, ProxyHasLease

LEMMA StepIInv == IInv /\ [Next]_vars => IInv'
  <1> SUFFICES ASSUME IInv, [Next]_vars PROVE IInv'
    OBVIOUS
  <1>1. TypeOK'
    BY StepTypeOK DEF IInv
  <1> QED
    BY <1>1, StepCapabilityIds, StepLeaseIds, StepCopiesAgree, StepDownIsSilent,
       StepPortExclusive, StepLeaseWithinCapability, StepProxyHasLease
    DEF IInv

\* The invariant everything else is read off from.
THEOREM Invariance == Spec => []IInv
  BY InitIInv, StepIInv, PTL DEF Spec

\* No port is ever in two lease rows, whatever fails, crashes or is stale.
THEOREM PortsAreExclusive == Spec => []PortExclusive
  BY Invariance, PTL DEF IInv

\* No listener outlives the row it forwards for.
THEOREM ListenersHaveLeases == Spec => []ProxyHasLease
  BY Invariance, PTL DEF IInv

\* No lease outlives its capability.
THEOREM LeasesStayWithinCapability == Spec => []LeaseWithinCapability
  BY Invariance, PTL DEF IInv

==============================================================================
