------------------------- MODULE PortBrokerStepProofs -------------------------
(***************************************************************************)
(* What a step of PortBroker may never do, and that leases are served, for *)
(* every value of the constants.  No step revives an expired lease or      *)
(* touches the lease of another tenant; a restart brings back every lease  *)
(* whose ports are free, the listeners of an unexpired lease stay open,    *)
(* and nobody sleeps through freed capacity.  The last two need that no    *)
(* statement of the database fails (a revocation whose delete fails has    *)
(* closed the listeners already, a collection whose second delete fails    *)
(* tells nobody), the last one that no other process takes ports of the    *)
(* pool (nobody is told when it gives one back).                           *)
(***************************************************************************)
EXTENDS PortPoolProofs

\* The boxed formulas of EndedStaysEnded and TenantIsolation.
EndedStays ==
    \A l \in ExpiredLeases(clock) :
        /\ \A m \in leases' : m.id = l.id => m.expires <= clock
        /\ \A p \in HostPorts : proxies'[p] = l.id => proxies[p] = l.id

OthersUntouched(h) ==
    \A l \in ActiveLeases(clock) : l.cap # req[h].cap.hash =>
        /\ l \in leases'
        /\ \A p \in l.ports : proxies'[p] = proxies[p]

-------------------------------------------------------------------------------
(* Expired leases *)

\* Listeners are opened by an allocation or a restart, and by nothing else.
LEMMA ProxiesStep ==
    ASSUME IInv, [Next]_vars
    PROVE  \/ \A p \in HostPorts : proxies'[p] \in {proxies[p], NoLease}
           \/ Allocated
           \/ Open
  <1> DEFINE Fewer == \A p \in HostPorts : proxies'[p] \in {proxies[p], NoLease}
  <1>1. ASSUME NEW rows, proxies' = CloseLeaseProxies(rows) PROVE Fewer
    BY <1>1 DEF CloseLeaseProxies
  <1>2. ASSUME NEW h \in Handlers, RequestStep(h) PROVE Fewer \/ Allocated
    <2>1. ASSUME Attempt(h) PROVE Fewer \/ Allocated
      <3>1. ASSUME NEW now \in 0 .. clock,
                   PurgeFails(h, now) \/ Denied(h, now) \/ Exhausted(h, now)
            PROVE  Fewer
        BY <1>1, <3>1
        DEF PurgeFails, RemoveExpiredFails, Denied, Exhausted, RemoveExpired
      <3>2. ASSUME NEW now \in 0 .. clock, Forbidden(h, now) PROVE Fewer
        BY <3>2 DEF Forbidden
      <3> QED BY <2>1, <3>1, <3>2 DEF Attempt, Allocated
    <2>2. ASSUME Release(h) PROVE Fewer
      BY <1>1, <2>2 DEF Release, RemoveLease
    <2> QED
      BY <1>2, <2>1, <2>2
      DEF RequestStep, Allocate, Authenticate, AllocateEnter, Snapshot, Wake, Timeout,
          Cancel, Leave, Renew, Reject
  <1>3. ASSUME AdminStep PROVE Fewer
    BY <1>1, <1>3 DEF AdminStep, IssueCapability, Revoke, RemoveLease, RevokeCapability,
       RevokeCapabilityFails
  <1>4. ASSUME ProcessStep PROVE Fewer \/ Open
    BY <1>1, <1>4 DEF ProcessStep, Reap, RemoveExpired, ReapFails, RemoveExpiredFails,
       CloseBegin, CloseEnd, Crash, OpenFails, OpenStoreFails
  <1>5. ASSUME Environment \/ UNCHANGED vars PROVE Fewer
    BY <1>5 DEF Environment, Tick, ForeignBind, ForeignRelease, vars
  <1> QED BY <1>2, <1>3, <1>4, <1>5 DEF Next

LEMMA ExpiredRowStays ==
    ASSUME IInv, [Next]_vars, NEW l \in ExpiredLeases(clock),
           NEW m \in leases', m.id = l.id
    PROVE  m.expires <= clock
  <1>1. l \in leases /\ l.expires <= clock /\ l.id < nextLease /\ l.id \in Nat
    BY DEF ExpiredLeases, IInv, TypeOK, LeaseIds, Lease, Id
  <1>2. \A k \in leases : k.id = l.id => k = l
    BY <1>1 DEF IInv, LeaseIds
  <1>3. CASE leases' \subseteq leases
    BY <1>1, <1>2, <1>3
  <1>4. CASE Renewed
    <2>1. PICK k \in leases, e \in Nat :
             /\ k \in ActiveLeases(clock)
             /\ leases' = (leases \ {k}) \cup {[k EXCEPT !.expires = e]}
      BY <1>4, RenewedRow
    <2>2. [k EXCEPT !.expires = e].id = k.id
      BY DEF IInv, TypeOK, Lease
    <2>3. k # l
      BY <1>1, <2>1 DEF ActiveLeases, IInv, TypeOK, Lease
    <2> QED BY <1>1, <1>2, <2>1, <2>2, <2>3
  <1>5. CASE Allocated
    <2>1. PICK now \in 0 .. clock : \E row \in Lease :
             row.id = nextLease /\ leases' = KeptLeases(now) \cup {row}
      BY <1>5, AllocatedRow
    <2>2. m \in leases
      BY <1>1, <2>1 DEF KeptLeases, Cascade, ActiveLeases, IInv, TypeOK, Id
    <2> QED BY <1>1, <1>2, <2>2
  <1> QED BY <1>3, <1>4, <1>5, LeasesStep

LEMMA ExpiredNotForwarded ==
    ASSUME IInv, [Next]_vars, NEW l \in ExpiredLeases(clock),
           NEW p \in HostPorts, proxies'[p] = l.id
    PROVE  proxies[p] = l.id
  <1>1. l \in leases /\ l.expires <= clock /\ l.expires \in Nat
        /\ l.id < nextLease /\ l.id \in Id
    BY DEF ExpiredLeases, IInv, TypeOK, LeaseIds, Lease
  <1>2. CASE proxies'[p] \in {proxies[p], NoLease}
    BY <1>1, <1>2 DEF NoLease, Id
  <1>3. CASE Allocated
    <2>1. PICK now \in 0 .. clock : \E row \in Lease :
             /\ row.id = nextLease
             /\ proxies' = [q \in HostPorts |->
                   IF q \in row.ports THEN row.id
                   ELSE CloseLeaseProxies(ExpiredLeases(now))[q]]
      BY <1>3, AllocatedRow
    <2>2. proxies'[p] = nextLease \/ proxies'[p] = NoLease \/ proxies'[p] = proxies[p]
      BY <2>1 DEF CloseLeaseProxies
    <2> QED BY <1>1, <2>2 DEF NoLease, Id, IInv, TypeOK
  <1>4. CASE Open
    <2> DEFINE restored == KeptLeases(clock) \ Lost(KeptLeases(clock))
    <2>1. proxies'[p] = HolderIn(restored, p)
      BY <1>4 DEF Open
    <2>2. PICK k \in restored : k.id = l.id
      <3>1. HolderIn(restored, p) # NoLease
        BY <1>1, <2>1 DEF NoLease, Id
      <3> HIDE DEF restored
      <3> QED BY <2>1, <3>1 DEF HolderIn
    <2>3. k \in leases /\ k.expires > clock
      BY DEF KeptLeases, Cascade, ActiveLeases
    <2>4. k = l
      BY <1>1, <2>2, <2>3 DEF IInv, LeaseIds
    <2> QED BY <1>1, <2>3, <2>4 DEF IInv, TypeOK
  <1> QED BY <1>2, <1>3, <1>4, ProxiesStep

\* After its expiry a lease is over: neither renewals, nor restarts, nor the
\* listeners of an allocation bring it back.
THEOREM ExpiredLeasesStayEnded == Spec => EndedStaysEnded
  <1>1. IInv /\ [Next]_vars => [EndedStays]_vars
    BY ExpiredRowStays, ExpiredNotForwarded DEF EndedStays
  <1> QED BY <1>1, Invariance, PTL DEF Spec, EndedStaysEnded, EndedStays

-------------------------------------------------------------------------------
(* Tenants *)

\* A purge at a time that has come leaves active leases as they are.
LEMMA PurgeSparesActive ==
    ASSUME IInv, NEW now \in 0 .. clock, NEW l \in ActiveLeases(clock)
    PROVE  /\ l \in KeptLeases(now) /\ l \in leases
           /\ l.ports \subseteq HostPorts
           /\ \A p \in l.ports : CloseLeaseProxies(ExpiredLeases(now))[p] = proxies[p]
  <1>1. l \in leases /\ l.expires \in Nat /\ now \in Nat /\ clock \in Nat
        /\ l.ports \subseteq HostPorts
    BY DEF ActiveLeases, IInv, TypeOK, Lease
  <1>2. l \in ActiveLeases(now)
    BY <1>1 DEF ActiveLeases
  <1>3. l \in KeptLeases(now)
    BY <1>1, <1>2, KeptIsActive
  <1>4. ASSUME NEW p \in l.ports PROVE p \notin Held(ExpiredLeases(now))
    <2>1. \A m \in ExpiredLeases(now) : m \in leases /\ m # l
      BY <1>1, <1>2 DEF ExpiredLeases, ActiveLeases, IInv, TypeOK
    <2>2. \A m \in ExpiredLeases(now) : p \notin m.ports
      BY <1>1, <2>1 DEF IInv, PortExclusive
    <2> QED BY <2>2 DEF Held
  <1> QED BY <1>1, <1>3, <1>4 DEF CloseLeaseProxies

LEMMA AttemptSpares ==
    ASSUME IInv, NEW h \in Handlers, Attempt(h)
    PROVE  OthersUntouched(h)
  <1> SUFFICES ASSUME NEW l \in ActiveLeases(clock)
               PROVE  /\ l \in leases'
                      /\ \A p \in l.ports : proxies'[p] = proxies[p]
    BY DEF OthersUntouched
  <1>1. l \in leases
    BY DEF ActiveLeases
  <1>2. ASSUME NEW now \in 0 .. clock, Forbidden(h, now)
        PROVE  l \in leases' /\ \A p \in l.ports : proxies'[p] = proxies[p]
    BY <1>1, <1>2 DEF Forbidden, tables
  <1>3. ASSUME NEW now \in 0 .. clock,
               PurgeFails(h, now) \/ Denied(h, now) \/ Exhausted(h, now)
        PROVE  l \in leases' /\ \A p \in l.ports : proxies'[p] = proxies[p]
    <2>1. l \in KeptLeases(now) /\ KeptLeases(now) \subseteq ActiveLeases(now)
      BY PurgeSparesActive DEF KeptLeases, Cascade
    <2> QED BY <1>1, <1>3, <2>1, PurgeSparesActive
            DEF PurgeFails, RemoveExpiredFails, Denied, Exhausted, RemoveExpired
  <1>4. ASSUME NEW now \in 0 .. clock, NEW ttl \in 0 .. MaximumTTL, Granted(h, now, ttl)
        PROVE  l \in leases' /\ \A p \in l.ports : proxies'[p] = proxies[p]
    <2> DEFINE ports == FirstFit(req[h].need, AvailableAfter(now))
    <2>1. \A p \in ports : p \notin Held(KeptLeases(now))
      BY DEF FirstFit, AvailableAfter, Available
    <2>2. \A p \in l.ports : p \notin ports
      <3> HIDE DEF ports
      <3> QED BY <2>1, PurgeSparesActive DEF Held
    <2>3. /\ KeptLeases(now) \subseteq leases'
          /\ proxies' = [p \in HostPorts |-> IF p \in ports THEN nextLease
                                      ELSE CloseLeaseProxies(ExpiredLeases(now))[p]]
      BY <1>4 DEF Granted
    <2> HIDE DEF ports
    <2> QED BY <2>2, <2>3, PurgeSparesActive
  <1> QED BY <1>2, <1>3, <1>4 DEF Attempt

LEMMA ReleaseSpares ==
    ASSUME IInv, NEW h \in Handlers, Release(h)
    PROVE  OthersUntouched(h)
  <1>1. PICK m \in leases : m.cap = req[h].cap.hash /\ RemoveLease(m)
    BY DEF Release
  <1>2. ASSUME NEW l \in ActiveLeases(clock), l.cap # req[h].cap.hash
        PROVE  l \in leases' /\ \A p \in l.ports : proxies'[p] = proxies[p]
    <2>1. l \in leases /\ l # m /\ l.ports \subseteq HostPorts
      BY <1>1, <1>2 DEF ActiveLeases, IInv, TypeOK, Lease
    <2>2. \A p \in l.ports : p \notin Held({m})
      BY <1>1, <2>1 DEF Held, IInv, PortExclusive
    <2> QED BY <1>1, <2>1, <2>2 DEF RemoveLease, CloseLeaseProxies
  <1> QED BY <1>2 DEF OthersUntouched

LEMMA RenewSpares ==
    ASSUME IInv, NEW h \in Handlers, NEW ttl \in 1 .. MaximumTTL, Renew(h, ttl)
    PROVE  OthersUntouched(h)
  <1>1. PICK m \in leases :
           /\ m.cap = req[h].cap.hash
           /\ leases' = (leases \ {m}) \cup
                 {[m EXCEPT !.expires = MinimumTime(clock + ttl, req[h].cap.expires)]}
    BY DEF Renew, ActiveLeases
  <1>2. proxies' = proxies
    BY DEF Renew
  <1> QED BY <1>1, <1>2 DEF OthersUntouched, ActiveLeases

LEMMA RequestSpares ==
    ASSUME IInv, NEW h \in Handlers, RequestStep(h)
    PROVE  OthersUntouched(h)
  <1>1. ASSUME leases' = leases, proxies' = proxies PROVE OthersUntouched(h)
    BY <1>1 DEF OthersUntouched, ActiveLeases
  <1> QED
    BY <1>1, AttemptSpares, ReleaseSpares, RenewSpares
    DEF RequestStep, Allocate, Authenticate, AllocateEnter, Snapshot, Wake, Timeout,
        Cancel, Leave, Reject, tables

\* A request is moved by its own steps only, unless the process dies.
LEMMA OwnSteps ==
    ASSUME IInv, [Next]_vars, NEW h \in Handlers, req'[h] # req[h], status' = status
    PROVE  RequestStep(h)
  <1>1. ASSUME NEW g \in Handlers, g # h, RequestStep(g) PROVE req'[h] = req[h]
    BY <1>1
    DEF IInv, TypeOK, RequestStep, Allocate, Authenticate, AllocateEnter, Snapshot,
        Attempt, Forbidden, PurgeFails, Denied, Exhausted, Granted, Wake, Timeout,
        Cancel, Leave, Renew, Release, Reject, Return
  <1>2. ASSUME AdminStep PROVE req' = req
    BY <1>2 DEF AdminStep, IssueCapability, Revoke, RevokeCapability, RevokeCapabilityFails
  <1>3. ASSUME ProcessStep PROVE req' = req
    BY <1>3 DEF ProcessStep, Reap, ReapFails, CloseBegin, CloseEnd, Crash, Open, OpenFails,
       OpenStoreFails
  <1>4. ASSUME Environment \/ UNCHANGED vars PROVE req' = req
    BY <1>4 DEF Environment, Tick, ForeignBind, ForeignRelease, vars
  <1> QED BY <1>1, <1>2, <1>3, <1>4 DEF Next

\* What a request does leaves the unexpired leases of other capabilities, and
\* their listeners, alone.
THEOREM TenantsAreIsolated == Spec => TenantIsolation
  <1> DEFINE Step == \A h \in Handlers :
                 req'[h] # req[h] /\ req[h] # Idle /\ status' = status =>
                     OthersUntouched(h)
  <1>1. IInv /\ [Next]_vars => Step
    BY OwnSteps, RequestSpares
  <1>2. IInv /\ [Next]_vars =>
          [\A h \in Handlers : req'[h] # req[h] /\ req[h] # Idle /\ status' = status =>
              \A l \in ActiveLeases(clock) : l.cap # req[h].cap.hash =>
                  /\ l \in leases'
                  /\ \A p \in l.ports : proxies'[p] = proxies[p]]_vars
    BY <1>1 DEF OthersUntouched
  <1> QED BY <1>2, Invariance, PTL DEF Spec, TenantIsolation

-------------------------------------------------------------------------------
(* Leases are served *)

Forwarded(l) == \A p \in l.ports : proxies[p] = l.id

-------------------------------------------------------------------------------
(* Restart *)

\* Nothing but Open brings a process up.
LEMMA StatusStep ==
    ASSUME [Next]_vars, status' = "up"
    PROVE  status = "up" \/ Open
  <1>1. ASSUME NEW h \in Handlers, RequestStep(h) PROVE status' = status
    BY <1>1
    DEF RequestStep, Allocate, Authenticate, AllocateEnter, Snapshot, Attempt, Forbidden,
        PurgeFails, Denied, Exhausted, Granted, Wake, Timeout, Cancel, Leave, Renew,
        Release, RemoveLease, Reject
  <1>2. ASSUME AdminStep PROVE status' = status
    BY <1>2 DEF AdminStep, IssueCapability, Revoke, RemoveLease, RevokeCapability,
       RevokeCapabilityFails
  <1>3. ASSUME ProcessStep PROVE status' = status \/ status' # "up" \/ Open
    BY <1>3 DEF ProcessStep, Reap, ReapFails, CloseBegin, CloseEnd, Crash, OpenFails,
       OpenStoreFails
  <1>4. ASSUME Environment \/ UNCHANGED vars PROVE status' = status
    BY <1>4 DEF Environment, Tick, ForeignBind, ForeignRelease, vars
  <1> QED BY <1>1, <1>2, <1>3, <1>4 DEF Next

\* A row that can be bound again stays, and its listeners carry its id.
LEMMA RestoredRow ==
    ASSUME IInv, Open, NEW l \in KeptLeases(clock), l.ports \cap foreign = {}
    PROVE  l \in leases' /\ \A p \in l.ports : proxies'[p] = l.id
  <1> DEFINE rows == KeptLeases(clock)
             restored == rows \ Lost(rows)
  <1>1. l \in restored /\ restored \subseteq leases
    BY DEF Lost, KeptLeases, Cascade, ActiveLeases
  <1>2. restored \subseteq leases'
    BY DEF Open, Reconcile
  <1>3. proxies' = [p \in HostPorts |-> HolderIn(restored, p)]
    BY DEF Open
  <1> HIDE DEF restored
  <1>4. \A k, m \in restored : k.ports \cap m.ports # {} => k = m
    BY <1>1 DEF IInv, PortExclusive
  <1>5. l.ports \subseteq HostPorts
    BY <1>1 DEF IInv, TypeOK, Lease
  <1>6. \A p \in l.ports : HolderIn(restored, p) = l.id
    BY <1>1, <1>4, HolderOf
  <1> QED BY <1>1, <1>2, <1>3, <1>5, <1>6

\* A restart brings back, with its old id and expiry, every unexpired lease
\* whose ports can be bound, and forwards it, whatever failed before.
THEOREM RestartRestores == Spec => RestartKeepsLeases
  <1>1. IInv /\ [Next]_vars =>
          [status = "down" /\ status' = "up" =>
              \A l \in ActiveLeases(clock) : l.ports \cap foreign = {} =>
                  /\ l \in leases'
                  /\ \A p \in l.ports : proxies'[p] = l.id]_vars
    <2> SUFFICES ASSUME IInv, [Next]_vars, status = "down", status' = "up",
                        NEW l \in ActiveLeases(clock), l.ports \cap foreign = {}
                 PROVE  l \in leases' /\ \A p \in l.ports : proxies'[p] = l.id
      OBVIOUS
    <2>1. l \in KeptLeases(clock)
      BY KeptIsActive DEF IInv, TypeOK
    <2> QED BY <2>1, StatusStep, RestoredRow
  <1> QED BY <1>1, Invariance, PTL DEF Spec, RestartKeepsLeases

-------------------------------------------------------------------------------
(* Listeners of unexpired leases *)

\* Closing the listeners of some rows spares the ports of the others.
LEMMA OthersForwarded ==
    ASSUME IInv, NEW rows \in SUBSET leases, NEW l \in leases \ rows, Forwarded(l),
           proxies' = CloseLeaseProxies(rows)
    PROVE  Forwarded(l)'
  <1>1. l.ports \subseteq HostPorts
    BY DEF IInv, TypeOK, Lease
  <1>2. \A p \in l.ports : p \notin Held(rows)
    BY DEF IInv, PortExclusive, Held
  <1> QED BY <1>1, <1>2 DEF Forwarded, CloseLeaseProxies

LEMMA PurgeForwarded ==
    ASSUME IInv, NEW now \in 0 .. clock, RemoveExpired(now), clock' = clock,
           \A l \in ActiveLeases(clock) : Forwarded(l), NEW l \in ActiveLeases(clock)'
    PROVE  Forwarded(l)'
  <1>1. l \in leases /\ l.expires > clock
    BY DEF ActiveLeases, RemoveExpired, KeptLeases, Cascade
  <1>2. l \in ActiveLeases(clock)
    BY <1>1 DEF ActiveLeases
  <1>3. \A p \in l.ports : CloseLeaseProxies(ExpiredLeases(now))[p] = proxies[p]
    BY <1>2, PurgeSparesActive
  <1> QED BY <1>2, <1>3 DEF RemoveExpired, Forwarded

LEMMA AllocatedForwarded ==
    ASSUME IInv, Allocated, \A l \in ActiveLeases(clock) : Forwarded(l),
           NEW l \in ActiveLeases(clock)'
    PROVE  Forwarded(l)'
  <1>1. PICK now \in 0 .. clock : \E row \in Lease :
          /\ row.ports \subseteq AvailableAfter(now)
          /\ leases' = KeptLeases(now) \cup {row}
          /\ proxies' = [p \in HostPorts |->
                IF p \in row.ports THEN row.id
                ELSE CloseLeaseProxies(ExpiredLeases(now))[p]]
    BY AllocatedRow
  <1>2. PICK row \in Lease :
          /\ row.ports \subseteq AvailableAfter(now)
          /\ leases' = KeptLeases(now) \cup {row}
          /\ proxies' = [p \in HostPorts |->
                IF p \in row.ports THEN row.id
                ELSE CloseLeaseProxies(ExpiredLeases(now))[p]]
    BY <1>1
  <1>3. clock' = clock
    BY DEF Allocated, Granted
  <1>4. CASE l = row
    BY <1>2, <1>4 DEF Lease, Forwarded
  <1>5. CASE l # row
    <2>1. l \in KeptLeases(now) /\ l.expires > clock
      BY <1>2, <1>3, <1>5 DEF ActiveLeases
    <2>2. l \in ActiveLeases(clock)
      BY <2>1 DEF ActiveLeases, KeptLeases, Cascade
    <2>3. \A p \in l.ports : p \notin row.ports
      BY <1>2, <2>1 DEF AvailableAfter, Available, Held
    <2>4. /\ l.ports \subseteq HostPorts
          /\ \A p \in l.ports : CloseLeaseProxies(ExpiredLeases(now))[p] = proxies[p]
      BY <2>2, PurgeSparesActive
    <2> QED BY <1>2, <2>2, <2>3, <2>4 DEF Forwarded
  <1> QED BY <1>4, <1>5

LEMMA RenewedForwarded ==
    ASSUME IInv, Renewed, \A l \in ActiveLeases(clock) : Forwarded(l),
           NEW l \in ActiveLeases(clock)'
    PROVE  Forwarded(l)'
  <1>1. PICK k \in leases, e \in Nat :
          /\ k \in ActiveLeases(clock)
          /\ leases' = (leases \ {k}) \cup {[k EXCEPT !.expires = e]}
          /\ proxies' = proxies
    BY RenewedRow
  <1>2. clock' = clock
    BY DEF Renewed, Renew
  <1>3. [k EXCEPT !.expires = e].id = k.id /\ [k EXCEPT !.expires = e].ports = k.ports
    BY DEF IInv, TypeOK, Lease
  <1>4. l \in ActiveLeases(clock) \/ (l.id = k.id /\ l.ports = k.ports)
    BY <1>1, <1>2, <1>3 DEF ActiveLeases
  <1> QED BY <1>1, <1>4 DEF Forwarded

LEMMA RemovedForwarded ==
    ASSUME IInv, NEW m \in leases, RemoveLease(m),
           \A l \in ActiveLeases(clock) : Forwarded(l), NEW l \in ActiveLeases(clock)'
    PROVE  Forwarded(l)'
  <1>1. l \in leases \ {m} /\ l \in ActiveLeases(clock)
    BY DEF RemoveLease, ActiveLeases
  <1> QED BY <1>1, OthersForwarded DEF RemoveLease

LEMMA RevokedForwarded ==
    ASSUME IInv, NEW c \in capabilities, RevokeCapability(c),
           \A l \in ActiveLeases(clock) : Forwarded(l), NEW l \in ActiveLeases(clock)'
    PROVE  Forwarded(l)'
  <1>1. l \in leases /\ l \in ActiveLeases(clock) /\ l.cap \in Hashes(capabilities \ {c})
    BY DEF RevokeCapability, ActiveLeases, Cascade
  <1>2. l.cap # c.hash
    BY <1>1 DEF Hashes, IInv, CapabilityIds
  <1>3. l \in leases \ LeasesOf(c.hash) /\ LeasesOf(c.hash) \in SUBSET leases
    BY <1>1, <1>2 DEF LeasesOf
  <1> QED BY <1>1, <1>3, OthersForwarded DEF RevokeCapability

LEMMA OpenForwarded ==
    ASSUME ~StoreMayFail, IInv, Open, NEW l \in ActiveLeases(clock)'
    PROVE  Forwarded(l)'
  <1>1. leases' = KeptLeases(clock) \ Lost(KeptLeases(clock))
    BY DEF Open, Reconcile
  <1>2. l \in KeptLeases(clock) /\ l.ports \cap foreign = {}
    BY <1>1 DEF ActiveLeases, Lost
  <1> QED BY <1>2, RestoredRow DEF Forwarded

\* The steps that leave rows and listeners alone.
LEMMA StillForwarded ==
    ASSUME IInv, leases' = leases, proxies' = proxies, clock' = clock \/ clock' = clock + 1,
           \A l \in ActiveLeases(clock) : Forwarded(l), NEW l \in ActiveLeases(clock)'
    PROVE  Forwarded(l)'
  <1>1. l \in leases /\ l.expires \in Nat /\ clock \in Nat
    BY DEF ActiveLeases, IInv, TypeOK, Lease
  <1>2. l \in ActiveLeases(clock)
    BY <1>1 DEF ActiveLeases
  <1> QED BY <1>2 DEF Forwarded

LEMMA StepLeaseIsForwarded ==
    ASSUME ~StoreMayFail, IInv, LeaseIsForwarded, [Next]_vars
    PROVE  LeaseIsForwarded'
  <1> SUFFICES ASSUME status' = "up", NEW l \in ActiveLeases(clock)'
               PROVE  Forwarded(l)'
    BY DEF LeaseIsForwarded, Forwarded
  <1> DEFINE Same == leases' = leases /\ proxies' = proxies /\ clock' = clock
  <1>1. CASE Open
    BY <1>1, OpenForwarded
  <1>2. CASE ~Open
    <2>1. status = "up"
      BY <1>2, StatusStep
    <2>2. \A k \in ActiveLeases(clock) : Forwarded(k)
      BY <2>1 DEF LeaseIsForwarded, Forwarded
    <2>3. ASSUME NEW h \in Handlers, RequestStep(h) PROVE Forwarded(l)'
      <3>1. CASE Attempt(h)
        <4>1. ASSUME NEW now \in 0 .. clock, Denied(h, now) \/ Exhausted(h, now)
              PROVE  Forwarded(l)'
          BY <2>2, <4>1, PurgeForwarded DEF Denied, Exhausted
        <4>2. ASSUME NEW now \in 0 .. clock, Forbidden(h, now) PROVE Forwarded(l)'
          BY <2>2, <4>2, StillForwarded DEF Forbidden, tables
        <4>3. ASSUME NEW now \in 0 .. clock PROVE ~PurgeFails(h, now)
          BY DEF PurgeFails, RemoveExpiredFails
        <4>4. CASE Allocated
          BY <2>2, <4>4, AllocatedForwarded
        <4> QED BY <3>1, <4>1, <4>2, <4>3, <4>4 DEF Attempt, Allocated
      <3>2. CASE Release(h)
        BY <2>2, <3>2, RemovedForwarded DEF Release
      <3>3. CASE Renewed
        BY <2>2, <3>3, RenewedForwarded
      <3>4. CASE Same
        BY <2>2, <3>4, StillForwarded
      <3> QED
        BY <2>3, <3>1, <3>2, <3>3, <3>4
        DEF RequestStep, Allocate, Authenticate, AllocateEnter, Snapshot, Wake, Timeout,
            Cancel, Leave, Reject, Renewed, tables
    <2>4. ASSUME AdminStep PROVE Forwarded(l)'
      <3>1. CASE Revoke
        BY <2>2, <3>1, RemovedForwarded DEF Revoke
      <3>2. ASSUME NEW c \in capabilities, RevokeCapability(c) PROVE Forwarded(l)'
        BY <2>2, <3>2, RevokedForwarded
      <3>3. CASE Same
        BY <2>2, <3>3, StillForwarded
      <3> QED BY <2>4, <3>1, <3>2, <3>3 DEF AdminStep, IssueCapability, RevokeCapabilityFails
    <2>5. ASSUME ProcessStep PROVE Forwarded(l)'
      <3>1. CASE Reap
        BY <2>2, <3>1, PurgeForwarded DEF Reap, IInv, TypeOK
      <3> QED
        BY <1>2, <2>1, <2>5, <3>1
        DEF ProcessStep, ReapFails, RemoveExpiredFails, CloseBegin, CloseEnd, Crash,
            OpenFails, OpenStoreFails
    <2>6. ASSUME Environment \/ UNCHANGED vars PROVE Forwarded(l)'
      BY <2>2, <2>6, StillForwarded
      DEF Environment, Tick, ForeignBind, ForeignRelease, vars, tables
    <2> QED BY <2>3, <2>4, <2>5, <2>6 DEF Next
  <1> QED BY <1>1, <1>2

\* When the database works, every unexpired lease is forwarded on all its
\* ports while the daemon is up.
THEOREM LeasesAreForwarded ==
    ASSUME ~StoreMayFail
    PROVE  Spec => []LeaseIsForwarded
  <1>1. Init => LeaseIsForwarded
    BY DEF Init, LeaseIsForwarded
  <1>2. IInv /\ LeaseIsForwarded /\ [Next]_vars => LeaseIsForwarded'
    BY StepLeaseIsForwarded
  <1> QED BY <1>1, <1>2, Invariance, PTL DEF Spec

-------------------------------------------------------------------------------
(* Waiting requests *)

\* A port is free when no row and no other process has it: a listener without
\* a row does not exist.
LEMMA FreePorts ==
    ASSUME IInv
    PROVE  Available(leases, proxies) = {p \in HostPorts : p \notin Held(leases) /\ p \notin foreign}
  BY DEF Available, IInv, ProxyHasLease, Held

LEMMA FreePortsNext ==
    ASSUME IInv'
    PROVE  Available(leases, proxies)'
             = {p \in HostPorts : p \notin Held(leases') /\ p \notin foreign'}
  BY DEF Available, IInv, ProxyHasLease, Held

\* A collection that tells nobody has nothing to collect.
LEMMA SilentPurgeKeeps ==
    ASSUME IInv, NEW now \in Nat, NEW h \in KeptWaiting(now)
    PROVE  h \in changed /\ KeptLeases(now) = leases
  <1>1. ExpiredLeases(now) = {} /\ h \in changed
    BY DEF KeptWaiting
  <1>2. ActiveLeases(now) = leases
    BY <1>1, ExpiredIsRest
  <1> QED BY <1>1, <1>2, KeptIsActive

\* A request that is parked after a step and has not been told of anything
\* has just found too few ports, or was parked before and nothing was freed.
Parked(h) == req[h].pc = "wait" /\ h \in changed

JustParked(h) == \E now \in 0 .. clock : Exhausted(h, now)

StaysParked(h) ==
    /\ req'[h] = req[h] /\ h \in changed
    /\ Held(leases) \subseteq Held(leases') /\ foreign' = foreign

LEMMA RenewedHeld ==
    ASSUME IInv, Renewed
    PROVE  Held(leases) \subseteq Held(leases')
  <1>1. PICK l \in leases, e \in Nat : leases' = (leases \ {l}) \cup {[l EXCEPT !.expires = e]}
    BY RenewedRow
  <1>2. [l EXCEPT !.expires = e].ports = l.ports
    BY DEF IInv, TypeOK, Lease
  <1> QED BY <1>1, <1>2 DEF Held

LEMMA OwnParked ==
    ASSUME ~StoreMayFail, IInv, NEW h \in Handlers, RequestStep(h), Parked(h)'
    PROVE  JustParked(h)
  <1>1. req'[h].pc = "wait" /\ req \in [Handlers -> Request]
    BY DEF Parked, IInv, TypeOK
  <1>2. ASSUME req' = [req EXCEPT ![h] = Idle] PROVE FALSE
    BY <1>1, <1>2 DEF Idle
  <1>3. ASSUME Attempt(h) PROVE JustParked(h)
    <2>1. ASSUME NEW now \in 0 .. clock,
                 Forbidden(h, now) \/ PurgeFails(h, now) \/ Denied(h, now)
          PROVE  FALSE
      BY <1>2, <2>1 DEF Forbidden, PurgeFails, Denied, Return
    <2>2. ASSUME NEW now \in 0 .. clock, NEW ttl \in 0 .. MaximumTTL, Granted(h, now, ttl)
          PROVE  FALSE
      BY <1>2, <2>2 DEF Granted, Return
    <2> QED BY <1>3, <2>1, <2>2 DEF Attempt, JustParked
  <1>4. ASSUME Authenticate(h) PROVE FALSE
    BY <1>1, <1>4 DEF Authenticate
  <1>5. ASSUME NEW need \in 1 .. MaxPorts, NEW wait \in Waits, AllocateEnter(h, need, wait)
        PROVE  FALSE
    BY <1>1, <1>5 DEF AllocateEnter
  <1>6. ASSUME Snapshot(h) PROVE FALSE
    BY <1>1, <1>6 DEF Snapshot
  <1>7. ASSUME Wake(h) PROVE FALSE
    <2>1. req' = [req EXCEPT ![h] = [req[h] EXCEPT !.pc = "loop"]] /\ req[h].pc = "wait"
      BY <1>7 DEF Wake
    <2>2. [req[h] EXCEPT !.pc = "loop"].pc = "loop"
      BY <1>1, <2>1 DEF Request, Idle
    <2> QED BY <1>1, <2>1, <2>2
  <1>8. ASSUME Timeout(h) \/ Cancel(h) \/ Release(h) \/ Reject(h) PROVE FALSE
    BY <1>2, <1>8 DEF Timeout, Cancel, Leave, Release, Reject, Return
  <1>9. ASSUME NEW ttl \in 1 .. MaximumTTL, Renew(h, ttl) PROVE FALSE
    BY <1>2, <1>9 DEF Renew, Return
  <1> QED BY <1>3, <1>4, <1>5, <1>6, <1>7, <1>8, <1>9 DEF RequestStep, Allocate

LEMMA OtherParked ==
    ASSUME ~StoreMayFail, IInv, NEW h \in Handlers, NEW g \in Handlers \ {h},
           RequestStep(g), Parked(h)'
    PROVE  StaysParked(h)
  <1>1. h \in changed' /\ req \in [Handlers -> Request]
    BY DEF Parked, IInv, TypeOK
  <1>2. ASSUME leases' = leases, foreign' = foreign, changed' \subseteq changed \cup {g},
               NEW r, req' = [req EXCEPT ![g] = r]
        PROVE  StaysParked(h)
    BY <1>1, <1>2 DEF StaysParked
  <1>3. ASSUME NEW now \in 0 .. clock, KeptLeases(now) \subseteq leases',
               changed' \subseteq KeptWaiting(now), foreign' = foreign,
               NEW r, req' = [req EXCEPT ![g] = r]
        PROVE  StaysParked(h)
    <2>1. h \in changed /\ KeptLeases(now) = leases
      BY <1>1, <1>3, SilentPurgeKeeps DEF IInv, TypeOK
    <2> QED BY <1>1, <1>3, <2>1 DEF StaysParked, Held
  <1>4. ASSUME Attempt(g) PROVE StaysParked(h)
    <2>1. ASSUME NEW now \in 0 .. clock PROVE ~PurgeFails(g, now)
      BY DEF PurgeFails, RemoveExpiredFails
    <2>2. ASSUME NEW now \in 0 .. clock, Forbidden(g, now) PROVE StaysParked(h)
      BY <1>2, <2>2 DEF Forbidden, Return, tables
    <2>3. ASSUME NEW now \in 0 .. clock, Denied(g, now) \/ Exhausted(g, now)
          PROVE  StaysParked(h)
      BY <1>3, <2>3 DEF Denied, Exhausted, RemoveExpired, Return
    <2>4. ASSUME NEW now \in 0 .. clock, NEW ttl \in 0 .. MaximumTTL, Granted(g, now, ttl)
          PROVE  StaysParked(h)
      BY <1>3, <2>4 DEF Granted, Return
    <2> QED BY <1>4, <2>1, <2>2, <2>3, <2>4 DEF Attempt
  <1>5. ASSUME NEW ttl \in 1 .. MaximumTTL, Renew(g, ttl) PROVE StaysParked(h)
    <2>1. Held(leases) \subseteq Held(leases')
      BY <1>5, RenewedHeld DEF Renewed
    <2> QED BY <1>1, <1>5, <2>1 DEF Renew, Return, StaysParked
  <1>6. ASSUME Release(g) PROVE FALSE
    BY <1>1, <1>6 DEF Release, RemoveLease
  <1>7. ASSUME Authenticate(g) PROVE StaysParked(h)
    BY <1>2, <1>7 DEF Authenticate, tables
  <1>8. ASSUME NEW need \in 1 .. MaxPorts, NEW wait \in Waits, AllocateEnter(g, need, wait)
        PROVE  StaysParked(h)
    BY <1>2, <1>8 DEF AllocateEnter, tables
  <1>9. ASSUME Snapshot(g) PROVE StaysParked(h)
    BY <1>2, <1>9 DEF Snapshot, tables
  <1>10. ASSUME Wake(g) PROVE StaysParked(h)
    BY <1>2, <1>10 DEF Wake, tables
  <1>11. ASSUME Timeout(g) \/ Cancel(g) \/ Reject(g) PROVE StaysParked(h)
    BY <1>2, <1>11 DEF Timeout, Cancel, Leave, Reject, Return, tables
  <1> QED BY <1>4, <1>5, <1>6, <1>7, <1>8, <1>9, <1>10, <1>11 DEF RequestStep, Allocate

LEMMA ParkedStep ==
    ASSUME ~StoreMayFail, Contended = {}, IInv, [Next]_vars, NEW h \in Handlers, Parked(h)'
    PROVE  JustParked(h) \/ StaysParked(h)
  <1>1. h \in changed' /\ req'[h].pc = "wait"
    BY DEF Parked
  <1>2. ASSUME NEW g \in Handlers, RequestStep(g) PROVE JustParked(h) \/ StaysParked(h)
    BY <1>2, OwnParked, OtherParked
  <1>3. ASSUME AdminStep PROVE StaysParked(h)
    BY <1>1, <1>3 DEF AdminStep, IssueCapability, Revoke, RemoveLease, RevokeCapability,
       RevokeCapabilityFails, StaysParked
  <1>4. ASSUME ProcessStep PROVE StaysParked(h)
    <2>1. ASSUME Reap PROVE StaysParked(h)
      <3>1. h \in KeptWaiting(clock)
        BY <1>1, <2>1 DEF Reap
      <3>2. h \in changed /\ KeptLeases(clock) = leases
        BY <3>1, SilentPurgeKeeps DEF IInv, TypeOK
      <3> QED BY <2>1, <3>2 DEF Reap, RemoveExpired, StaysParked
    <2>2. ASSUME Open \/ OpenFails \/ OpenStoreFails PROVE FALSE
      <3>1. req[h] = Idle /\ req' = req
        BY <2>2 DEF Open, OpenFails, OpenStoreFails, IInv, DownIsSilent
      <3> QED BY <1>1, <3>1 DEF Idle
    <2>3. ASSUME CloseBegin \/ CloseEnd PROVE StaysParked(h)
      BY <1>1, <2>3 DEF CloseBegin, CloseEnd, tables, StaysParked
    <2>4. ~ReapFails /\ ~Crash
      BY <1>1 DEF ReapFails, RemoveExpiredFails, Crash
    <2> QED BY <1>4, <2>1, <2>2, <2>3, <2>4 DEF ProcessStep
  <1>5. ASSUME Environment \/ UNCHANGED vars PROVE StaysParked(h)
    BY <1>1, <1>5 DEF Environment, Tick, vars, tables, StaysParked
  <1> QED BY <1>2, <1>3, <1>4, <1>5 DEF Next

LEMMA StepNoLostWakeup ==
    ASSUME ~StoreMayFail, Contended = {}, IInv, IInv', NoLostWakeup, [Next]_vars
    PROVE  NoLostWakeup'
  <1> SUFFICES ASSUME NEW h \in Handlers, Parked(h)'
               PROVE  Cardinality(Available(leases, proxies)') < req'[h].need
    BY DEF NoLostWakeup, Parked
  <1>1. ASSUME NEW now \in 0 .. clock, Exhausted(h, now)
        PROVE  Cardinality(Available(leases, proxies)') < req'[h].need
    <2>1. Available(leases, proxies)' = AvailableAfter(now)
      BY <1>1 DEF Exhausted, RemoveExpired, AvailableAfter, Available
    <2>2. req'[h].need = req[h].need
      <3>1. req'[h].pc = "wait" /\ req \in [Handlers -> Request]
        BY DEF Parked, IInv, TypeOK
      <3> QED BY <1>1, <3>1 DEF Exhausted, Return, Idle
    <2> QED BY <1>1, <2>1, <2>2 DEF Exhausted
  <1>2. CASE StaysParked(h)
    <2> DEFINE free == Available(leases, proxies)
    <2>1. Parked(h) /\ req'[h].need = req[h].need
      BY <1>2 DEF Parked, StaysParked
    <2>2. free' \in SUBSET free /\ free \in SUBSET HostPorts
      BY <1>2, FreePorts, FreePortsNext DEF StaysParked
    <2>3. Cardinality(free) < req[h].need /\ req[h].need \in Nat
      BY <2>1, RequestFields DEF NoLostWakeup, Parked, IInv, Allocating, Id
    <2>4. /\ Cardinality(free) \in Nat /\ Cardinality(free') \in Nat
          /\ Cardinality(free') <= Cardinality(free)
      <3> HIDE DEF free
      <3> QED BY <2>2, PortSetFinite
    <2> HIDE DEF free
    <2>5. Cardinality(free') < req'[h].need
      BY <2>1, <2>3, <2>4
    <2> QED BY <2>5 DEF free
  <1> QED BY <1>1, <1>2, ParkedStep DEF JustParked

\* When the database works and the pool is the broker's own, whatever frees
\* ports wakes the requests that could use them.
THEOREM NobodySleepsThrough ==
    ASSUME ~StoreMayFail, Contended = {}
    PROVE  Spec => []NoLostWakeup
  <1>1. Init => NoLostWakeup
    BY DEF Init, NoLostWakeup, Idle
  <1>2. IInv /\ IInv' /\ NoLostWakeup /\ [Next]_vars => NoLostWakeup'
    BY StepNoLostWakeup
  <1> QED BY <1>1, <1>2, Invariance, PTL DEF Spec

-------------------------------------------------------------------------------
(* The broker keeps the LeaseBook *)

Entry(l) == [id |-> l.id, cap |-> l.cap, until |-> l.expires]
Entries(rows) == {Entry(l) : l \in rows}

Book == INSTANCE LeaseBook WITH
    Capabilities <- Id,
    entries <- Entries(leases),
    granted <- nextLease - 1,
    known   <- 1 .. (nextCap - 1),
    valid   <- Hashes(capabilities),
    now     <- clock,
    up      <- status # "down"

LEMMA EntryFields ==
    \A l : Entry(l).id = l.id /\ Entry(l).cap = l.cap /\ Entry(l).until = l.expires
  BY DEF Entry

LEMMA BookActive == Book!Active = Entries(ActiveLeases(clock))
  BY EntryFields DEF Book!Active, Entries, ActiveLeases

\* Rows with different ids have different entries.
LEMMA EntriesDiffer ==
    ASSUME IInv, NEW l \in leases
    PROVE  /\ Entry(l) \in Entries(leases)
           /\ Entries(leases \ {l}) = Entries(leases) \ {Entry(l)}
  <1>1. \A m \in leases : Entry(m) = Entry(l) => m = l
    BY EntryFields DEF IInv, LeaseIds
  <1> QED BY <1>1 DEF Entries

LEMMA UnseenByBook ==
    ASSUME UNCHANGED <<clock, tables, supply>>, status = "down" <=> status' = "down"
    PROVE  UNCHANGED Book!vars
  BY DEF Book!vars, tables, supply, Entries, Hashes

\* Rows that stay have a capability that stays.
LEMMA KeptEntries ==
    ASSUME IInv, NEW rows \in SUBSET leases, NEW caps \in SUBSET capabilities,
           \A l \in rows : l.cap \in Hashes(caps)
    PROVE  /\ Entries(rows) \subseteq Book!Of(Hashes(caps))
           /\ Entries(rows) \in SUBSET Entries(leases)
           /\ Hashes(caps) \in SUBSET Hashes(capabilities)
  BY EntryFields DEF Entries, Book!Of, Hashes

\* A collection that spares what is active.
LEMMA CollectIsInBook ==
    ASSUME IInv, status # "down", leases' \subseteq leases, capabilities' \subseteq capabilities,
           ActiveLeases(clock) \subseteq leases',
           \A l \in leases' : l.cap \in Hashes(capabilities'),
           UNCHANGED <<clock, status, supply>>
    PROVE  Book!Next
  <1>1. Book!Collected(Entries(leases'), Hashes(capabilities'))
    <2>1. Book!Active \subseteq Entries(leases')
      BY BookActive DEF Entries
    <2> QED BY <2>1, KeptEntries DEF Book!Collected
  <1>2. Entries(leases)' = Entries(leases') /\ Hashes(capabilities)' = Hashes(capabilities')
    BY DEF Entries, Hashes
  <1>3. /\ Entries(leases') \in SUBSET Entries(leases)
        /\ Hashes(capabilities') \in SUBSET Hashes(capabilities)
    BY KeptEntries
  <1>4. Book!Collect
    BY <1>1, <1>2, <1>3 DEF Book!Collect, supply
  <1> QED BY <1>4 DEF Book!Next

\* A start, whether it succeeds or not, takes up what it can.
LEMMA RestartIsInBook ==
    ASSUME IInv, status = "down", leases' \subseteq leases,
           capabilities' \subseteq capabilities,
           \A l \in leases' : l.cap \in Hashes(capabilities'),
           UNCHANGED <<clock, supply>>
    PROVE  Book!Next
  <1>1. Entries(leases)' = Entries(leases') /\ Hashes(capabilities)' = Hashes(capabilities')
    BY DEF Entries, Hashes
  <1>2. Book!Restart
    BY <1>1, KeptEntries DEF Book!Restart, supply
  <1> QED BY <1>2 DEF Book!Next

LEMMA RemoveIsInBook ==
    ASSUME IInv, status # "down", NEW l \in leases, RemoveLease(l)
    PROVE  Book!Next
  <1>1. leases' = leases \ {l} /\ UNCHANGED <<clock, status, capabilities, supply>>
    BY DEF RemoveLease
  <1>2. Entries(leases)' = Entries(leases \ {l}) /\ Hashes(capabilities)' = Hashes(capabilities)
    BY <1>1 DEF Entries, Hashes
  <1> DEFINE e == Entry(l)
  <1>3. e \in Entries(leases) /\ Entries(leases)' = Entries(leases) \ {e}
    BY <1>2, EntriesDiffer
  <1> HIDE DEF e
  <1>4. Book!End(e)
    BY <1>1, <1>2, <1>3 DEF Book!End, supply
  <1>5. \E d \in Entries(leases) : Book!End(d)
    BY <1>3, <1>4
  <1> QED BY <1>5 DEF Book!Next

LEMMA RevokeIsInBook ==
    ASSUME IInv, status # "down", NEW c \in capabilities, RevokeCapability(c)
    PROVE  Book!Next
  <1>1. /\ capabilities' = capabilities \ {c} /\ leases' = Cascade(leases, capabilities \ {c})
        /\ UNCHANGED <<clock, status, supply>>
    BY DEF RevokeCapability
  <1>2. Hashes(capabilities)' = Hashes(capabilities) \ {c.hash}
    BY <1>1 DEF Hashes, IInv, CapabilityIds
  <1>3. Entries(leases)' = Book!Of(Hashes(capabilities)')
    <2>1. leases' = {l \in leases : l.cap \in Hashes(capabilities)'}
      BY <1>1 DEF Cascade, Hashes
    <2> QED BY <2>1, EntryFields DEF Entries, Book!Of
  <1>4. Book!Revoke(c.hash)
    BY <1>1, <1>2, <1>3 DEF Book!Revoke, supply
  <1>5. c.hash \in Id
    BY DEF IInv, TypeOK, Capability
  <1> QED BY <1>4, <1>5 DEF Book!Next

LEMMA IssueIsInBook ==
    ASSUME IInv, Issued
    PROVE  Book!Next
  <1>1. PICK c : /\ c.hash = nextCap /\ capabilities' = capabilities \cup {c}
                 /\ nextCap' = nextCap + 1 /\ status # "down"
                 /\ UNCHANGED <<clock, status, leases, nextLease>>
    <2>1. PICK user \in Users, run \in Runs, ttl \in 1 .. MaximumTTL :
             IssueCapability(user, run, ttl)
      BY DEF Issued
    <2> QED BY <2>1 DEF IssueCapability, Serving
  <1>2. nextCap \in Nat /\ nextCap >= 1 /\ nextCap \in Id
    BY DEF IInv, TypeOK, Id
  <1>3. /\ nextCap \notin 1 .. (nextCap - 1)
        /\ 1 .. (nextCap' - 1) = (1 .. (nextCap - 1)) \cup {nextCap}
    BY <1>1, <1>2
  <1>4. Hashes(capabilities)' = Hashes(capabilities) \cup {nextCap}
    BY <1>1 DEF Hashes
  <1>5. Entries(leases)' = Entries(leases)
    BY <1>1 DEF Entries
  <1>6. Book!Issue(nextCap)
    BY <1>1, <1>3, <1>4, <1>5 DEF Book!Issue
  <1> QED BY <1>2, <1>6 DEF Book!Next

\* A renewal ends later than now: it takes at least a second and a live capability.
LEMMA RenewIsInBook ==
    ASSUME IInv, Renewed
    PROVE  Book!Next
  <1>1. PICK h \in Handlers, ttl \in 1 .. MaximumTTL : Renew(h, ttl)
    BY DEF Renewed
  <1> DEFINE e == MinimumTime(clock + ttl, req[h].cap.expires)
  <1>2. PICK l \in leases : /\ l \in ActiveLeases(clock)
                            /\ leases' = (leases \ {l}) \cup {[l EXCEPT !.expires = e]}
    BY <1>1 DEF Renew, ActiveLeases
  <1>3. req[h] # Idle /\ req[h].cap \in Capability
    BY <1>1, RequestFields DEF IInv, Renew
  <1>4. PICK c \in capabilities : c.hash = req[h].cap.hash /\ c.expires > clock
    BY <1>1 DEF Renew, Hashes, LiveCapabilities
  <1>5. c = req[h].cap
    BY <1>3, <1>4 DEF IInv, CopiesAgree
  <1>6. e \in Nat /\ e > clock
    BY <1>3, <1>4, <1>5, ConfigAssumption DEF IInv, TypeOK, Capability, MinimumTime
  <1> DEFINE k == [l EXCEPT !.expires = e]
             f == Entry(k)
             g == Entry(l)
  <1>7. k.id = l.id /\ k.cap = l.cap /\ k.expires = e
    BY DEF IInv, TypeOK, Lease
  <1> HIDE DEF e
  <1>8. leases' = (leases \ {l}) \cup {k}
    BY <1>2
  <1> HIDE DEF k
  <1>9. f.id = g.id /\ f.cap = g.cap /\ f.until > clock
    BY <1>6, <1>7, EntryFields
  <1>10. g \in Book!Active /\ g \in Entries(leases)
    BY <1>2, BookActive DEF Entries
  <1>11. Entries(leases)' = (Entries(leases) \ {g}) \cup {f}
    <2>1. Entries(leases)' = Entries(leases \ {l}) \cup {f}
      BY <1>8 DEF Entries
    <2> QED BY <2>1, EntriesDiffer
  <1>12. /\ status # "down" /\ UNCHANGED <<clock, status, nextCap, nextLease>>
         /\ Hashes(capabilities)' = Hashes(capabilities)
    BY <1>1 DEF Renew, Serving, supply, Hashes
  <1> HIDE DEF f, g
  <1>13. Book!Renew(g)
    BY <1>9, <1>10, <1>11, <1>12 DEF Book!Renew
  <1>14. \E d \in Entries(leases) : Book!Renew(d)
    BY <1>10, <1>13
  <1> QED BY <1>14 DEF Book!Next

\* A grant, whatever time it collects at, spares what is active.
LEMMA GrantIsInBook ==
    ASSUME IInv, Allocated
    PROVE  Book!Next
  <1>1. PICK now \in 0 .. clock : \E row \in Lease, c \in KeptCapabilities(now) :
           /\ row.id = nextLease /\ row.cap = c.hash
           /\ leases' = KeptLeases(now) \cup {row}
           /\ capabilities' = KeptCapabilities(now)
           /\ nextLease' = nextLease + 1
    BY AllocatedRow
  <1>2. PICK row \in Lease, c \in KeptCapabilities(now) :
           /\ row.id = nextLease /\ row.cap = c.hash
           /\ leases' = KeptLeases(now) \cup {row}
           /\ capabilities' = KeptCapabilities(now)
           /\ nextLease' = nextLease + 1
    BY <1>1
  <1>3. status # "down" /\ UNCHANGED <<clock, status, nextCap>>
    BY DEF Allocated, Granted, Admitted, Trying
  <1> DEFINE kept == KeptLeases(now)
             caps == KeptCapabilities(now)
             e    == Entry(row)
  <1>4. kept \in SUBSET leases /\ caps \in SUBSET capabilities
        /\ \A l \in kept : l.cap \in Hashes(caps)
    BY DEF KeptLeases, Cascade, ActiveLeases, KeptCapabilities, LiveCapabilities
  <1>5. ActiveLeases(clock) \subseteq kept
    BY PurgeSparesActive
  <1>6. leases' = kept \cup {row} /\ capabilities' = caps /\ c \in caps
    BY <1>2
  <1> HIDE DEF kept, caps
  <1>7. Book!Collected(Entries(kept), Hashes(caps))
    <2>1. Book!Active \subseteq Entries(kept)
      BY <1>5, BookActive DEF Entries
    <2> QED BY <1>4, <2>1, KeptEntries DEF Book!Collected
  <1>8. /\ Entries(leases)' = Entries(kept) \cup {e}
        /\ Hashes(capabilities)' = Hashes(caps)
        /\ c.hash \in Hashes(caps)
    BY <1>6 DEF Entries, Hashes
  <1>9. e.id = (nextLease - 1) + 1 /\ e.cap = c.hash /\ nextLease' - 1 = (nextLease - 1) + 1
    BY <1>2, EntryFields DEF IInv, TypeOK, Id
  <1>10. Entries(kept) \in SUBSET Entries(leases) /\ Hashes(caps) \in SUBSET Hashes(capabilities)
    BY <1>4, KeptEntries
  <1>11. c.hash \in Id
    BY <1>4, <1>6 DEF IInv, TypeOK, Capability
  <1> HIDE DEF e
  <1>12. Book!Grant(c.hash)
    BY <1>3, <1>7, <1>8, <1>9, <1>10 DEF Book!Grant
  <1> QED BY <1>11, <1>12 DEF Book!Next

\* What a purge leaves, in whichever way it ends.
LEMMA PurgeIsInBook ==
    ASSUME IInv, NEW now \in 0 .. clock, RemoveExpired(now) \/ RemoveExpiredFails(now)
    PROVE  /\ leases' \subseteq leases /\ capabilities' \subseteq capabilities
           /\ ActiveLeases(clock) \subseteq leases'
           /\ \A l \in leases' : l.cap \in Hashes(capabilities')
  <1>1. ActiveLeases(clock) \subseteq KeptLeases(now) /\ KeptLeases(now) \subseteq ActiveLeases(now)
        /\ ActiveLeases(now) \subseteq leases
    BY PurgeSparesActive DEF KeptLeases, Cascade, ActiveLeases
  <1>2. CASE RemoveExpired(now)
    BY <1>1, <1>2 DEF RemoveExpired, KeptLeases, Cascade, KeptCapabilities, LiveCapabilities
  <1>3. CASE RemoveExpiredFails(now)
    BY <1>1, <1>3, HashOfLease DEF RemoveExpiredFails
  <1> QED BY <1>2, <1>3

LEMMA RequestIsInBook ==
    ASSUME IInv, NEW h \in Handlers, RequestStep(h)
    PROVE  [Book!Next]_Book!vars
  <1>1. ASSUME Attempt(h) PROVE [Book!Next]_Book!vars
    <2>1. ASSUME NEW now \in 0 .. clock,
                 PurgeFails(h, now) \/ Denied(h, now) \/ Exhausted(h, now)
          PROVE  Book!Next
      <3>1. /\ status # "down" /\ UNCHANGED <<clock, status, supply>>
            /\ RemoveExpired(now) \/ RemoveExpiredFails(now)
        BY <2>1 DEF PurgeFails, Denied, Exhausted, Admitted, Trying
      <3> QED BY <3>1, PurgeIsInBook, CollectIsInBook
    <2>2. ASSUME NEW now \in 0 .. clock, Forbidden(h, now) PROVE UNCHANGED Book!vars
      <3>1. UNCHANGED <<clock, tables, supply>> /\ status' = status
        BY <2>2 DEF Forbidden
      <3> QED BY <3>1, UnseenByBook
    <2>3. ASSUME NEW now \in 0 .. clock, NEW ttl \in 0 .. MaximumTTL, Granted(h, now, ttl)
          PROVE  Book!Next
      BY <2>3, GrantIsInBook DEF Allocated
    <2> QED BY <1>1, <2>1, <2>2, <2>3 DEF Attempt
  <1>2. ASSUME Release(h) PROVE Book!Next
    BY <1>2, RemoveIsInBook DEF Release, Serving
  <1>3. ASSUME NEW ttl \in 1 .. MaximumTTL, Renew(h, ttl) PROVE Book!Next
    BY <1>3, RenewIsInBook DEF Renewed
  <1>4. ASSUME UNCHANGED <<clock, tables, supply>>, status' = status PROVE UNCHANGED Book!vars
    BY <1>4, UnseenByBook
  <1> QED
    BY <1>1, <1>2, <1>3, <1>4
    DEF RequestStep, Allocate, Authenticate, AllocateEnter, Snapshot, Wake, Timeout, Cancel,
        Leave, Reject

LEMMA ProcessIsInBook ==
    ASSUME IInv, ProcessStep
    PROVE  [Book!Next]_Book!vars
  <1>1. clock \in 0 .. clock
    BY DEF IInv, TypeOK
  <1>2. ASSUME Reap \/ ReapFails PROVE Book!Next
    <2>1. /\ status # "down" /\ UNCHANGED <<clock, status, supply>>
          /\ RemoveExpired(clock) \/ RemoveExpiredFails(clock)
      BY <1>2 DEF Reap, ReapFails, Serving
    <2> QED BY <1>1, <2>1, PurgeIsInBook, CollectIsInBook
  <1>3. ASSUME OpenStoreFails PROVE Book!Next
    <2>1. status = "down" /\ UNCHANGED <<clock, supply>> /\ RemoveExpiredFails(clock)
      BY <1>3 DEF OpenStoreFails
    <2> QED BY <1>1, <2>1, PurgeIsInBook, RestartIsInBook
  <1>4. ASSUME Open \/ OpenFails PROVE Book!Next
    <2>1. /\ status = "down" /\ UNCHANGED <<clock, supply>>
          /\ leases' \subseteq KeptLeases(clock) /\ capabilities' = KeptCapabilities(clock)
      BY <1>4 DEF Open, OpenFails, Reconcile, Lost
    <2>2. /\ leases' \subseteq leases /\ capabilities' \subseteq capabilities
          /\ \A l \in leases' : l.cap \in Hashes(capabilities')
      BY <2>1 DEF KeptLeases, Cascade, ActiveLeases, KeptCapabilities, LiveCapabilities
    <2> QED BY <2>1, <2>2, RestartIsInBook
  <1>5. ASSUME CloseBegin \/ CloseEnd PROVE UNCHANGED Book!vars
    <2>1. UNCHANGED <<clock, tables, supply>> /\ status # "down" /\ status' # "down"
      BY <1>5 DEF CloseBegin, CloseEnd
    <2> QED BY <2>1, UnseenByBook
  <1>6. ASSUME Crash PROVE Book!Next
    <2>1. Book!Stop
      BY <1>6 DEF Crash, Book!Stop, tables, supply, Entries, Hashes
    <2> QED BY <2>1 DEF Book!Next
  <1> QED BY <1>2, <1>3, <1>4, <1>5, <1>6, ProcessStep DEF ProcessStep

LEMMA BookStep ==
    ASSUME IInv, [Next]_vars
    PROVE  [Book!Next]_Book!vars
  <1>1. ASSUME NEW h \in Handlers, RequestStep(h) PROVE [Book!Next]_Book!vars
    BY <1>1, RequestIsInBook
  <1>2. ASSUME AdminStep PROVE [Book!Next]_Book!vars
    <2>1. ASSUME NEW c \in capabilities, RevokeCapabilityFails(c) PROVE UNCHANGED Book!vars
      <3>1. UNCHANGED <<clock, tables, supply>> /\ status' = status
        BY <2>1 DEF RevokeCapabilityFails
      <3> QED BY <3>1, UnseenByBook
    <2>2. ASSUME NEW c \in capabilities, RevokeCapability(c) PROVE Book!Next
      BY <2>2, RevokeIsInBook DEF RevokeCapability, Serving
    <2>3. ASSUME Revoke PROVE Book!Next
      BY <2>3, RemoveIsInBook DEF Revoke, Serving
    <2> QED BY <1>2, <2>1, <2>2, <2>3, IssueIsInBook DEF AdminStep, Issued
  <1>3. ASSUME Environment \/ UNCHANGED vars PROVE [Book!Next]_Book!vars
    <2>1. ASSUME Tick PROVE Book!Next
      <3>1. Book!Advance
        BY <2>1 DEF Tick, Book!Advance, tables, supply, Entries, Hashes
      <3> QED BY <3>1 DEF Book!Next
    <2>2. ASSUME ~Tick PROVE UNCHANGED Book!vars
      <3>1. UNCHANGED <<clock, tables, supply>> /\ status' = status
        BY <1>3, <2>2 DEF Environment, ForeignBind, ForeignRelease, vars, tables, supply
      <3> QED BY <3>1, UnseenByBook
    <2> QED BY <2>1, <2>2
  <1> QED BY <1>1, <1>2, <1>3, ProcessIsInBook DEF Next

\* The broker is a LeaseBook too, with stale times, failing statements, cascading deletes,
\* crashes and failing starts: what the daemon promises on one step per call of the
\* manager, the manager keeps in the steps it takes.
THEOREM BrokerKeepsBook == Spec => Book!Spec
  <1>1. Init => Book!Init
    BY DEF Init, Book!Init, Entries, Hashes
  <1>2. IInv /\ [Next]_vars => [Book!Next]_(Book!vars)
    BY BookStep
  <1> QED BY <1>1, <1>2, Invariance, PTL DEF Spec, Book!Spec
===============================================================================
