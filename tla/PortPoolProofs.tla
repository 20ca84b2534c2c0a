---------------------------- MODULE PortPoolProofs ----------------------------
(***************************************************************************)
(* Ports as a shared, limited resource, for every value of the constants:  *)
(* the broker implements LeasePool, and no run or user gets past its       *)
(* limit.  Both need to know what first fit returns.                       *)
(***************************************************************************)
EXTENDS PortBrokerProofs, FiniteSetTheorems

-------------------------------------------------------------------------------
(* First fit *)

LEMMA LeastElement ==
    ASSUME NEW S \in SUBSET Nat, S # {}
    PROVE  \E m \in S : \A p \in S : m <= p
  <1>1. PICK m \in S : \A p \in S : ~ (<<p, m>> \in OpToRel(<, Nat))
    BY NatLessThanWellFounded, WFMin
  <1>2. \A p \in S : ~ (p < m)
    BY <1>1 DEF OpToRel
  <1> QED BY <1>2

LEMMA GreatestElement ==
    ASSUME NEW n \in Nat, NEW S \in SUBSET (0 .. n), S # {}
    PROVE  \E m \in S : \A p \in S : p <= m
  <1> DEFINE T == {n - p : p \in S}
  <1>1. T \in SUBSET Nat /\ T # {}
    <2>1. \A p \in S : n - p \in Nat
      OBVIOUS
    <2>2. PICK p \in S : TRUE
      OBVIOUS
    <2>3. n - p \in T
      BY <2>2
    <2> QED BY <2>1, <2>3
  <1>2. PICK d \in T : \A t \in T : d <= t
    <2> HIDE DEF T
    <2> QED BY <1>1, LeastElement
  <1>3. PICK m \in S : d = n - m
    OBVIOUS
  <1>4. ASSUME NEW p \in S PROVE p <= m
    <2>1. d <= n - p
      BY <1>2
    <2> QED BY <1>3, <2>1
  <1> QED BY <1>4

LEMMA PortSetFinite ==
    ASSUME NEW S \in SUBSET HostPorts
    PROVE  /\ IsFiniteSet(S) /\ Cardinality(S) \in Nat
           /\ \A T \in SUBSET S : Cardinality(T) \in Nat /\ Cardinality(T) <= Cardinality(S)
  <1>1. IsFiniteSet(HostPorts)
    BY ConfigAssumption, FS_Interval DEF HostPorts
  <1>2. IsFiniteSet(S)
    BY <1>1, FS_Subset
  <1> QED BY <1>2, FS_Subset, FS_CardinalityType

\* First fit never takes more than it was asked for.
LEMMA FirstFitBound ==
    ASSUME NEW n \in Id, NEW S \in SUBSET HostPorts
    PROVE  Cardinality(FirstFit(n, S)) <= n
  <1> DEFINE F == FirstFit(n, S)
  <1>1. F \in SUBSET S /\ F \in SUBSET HostPorts /\ F \in SUBSET (0 .. PortEnd)
    <2>1. F \in SUBSET S
      BY DEF FirstFit
    <2>2. HostPorts \in SUBSET (0 .. PortEnd)
      BY ConfigAssumption DEF HostPorts
    <2> HIDE DEF F
    <2> QED BY <2>1, <2>2
  <1>2. CASE F = {}
    BY <1>2, FS_EmptySet DEF Id
  <1>3. CASE F # {}
    <2>1. PICK m \in F : \A p \in F : p <= m
      <3> HIDE DEF F
      <3> QED BY <1>1, <1>3, GreatestElement, ConfigAssumption
    <2> DEFINE Below == {q \in S : q < m}
    <2>2. Cardinality(Below) < n
      BY <2>1 DEF FirstFit
    <2>3. Below \in SUBSET HostPorts /\ F \ {m} \in SUBSET Below
      <3>1. \A p \in F : p \in S /\ p \in Nat
        BY <1>1, ConfigAssumption
      <3> HIDE DEF F
      <3> QED BY <2>1, <3>1
    <2> HIDE DEF F, Below
    <2>4. Cardinality(F \ {m}) <= Cardinality(Below)
          /\ Cardinality(F \ {m}) \in Nat /\ Cardinality(Below) \in Nat
      BY <2>3, PortSetFinite
    <2>5. Cardinality(F \ {m}) = Cardinality(F) - 1
      BY <1>1, <2>1, PortSetFinite, FS_RemoveElement
    <2>6. Cardinality(F) \in Nat
      BY <1>1, PortSetFinite
    <2>7. Cardinality(F) <= n
      BY <2>2, <2>4, <2>5, <2>6 DEF Id
    <2> QED BY <2>7 DEF F
  <1> QED BY <1>2, <1>3

\* First fit finds a port when there are as many as it was asked for.
LEMMA FirstFitNonempty ==
    ASSUME NEW n \in Id, NEW S \in SUBSET HostPorts, n <= Cardinality(S)
    PROVE  FirstFit(n, S) # {}
  <1>1. S # {}
    BY FS_EmptySet DEF Id
  <1>2. S \in SUBSET Nat
    BY ConfigAssumption DEF HostPorts
  <1>3. PICK m \in S : \A p \in S : m <= p
    BY <1>1, <1>2, LeastElement
  <1>4. {q \in S : q < m} = {}
    <2>1. \A q \in S : ~ (q < m)
      BY <1>2, <1>3
    <2> QED BY <2>1
  <1>5. Cardinality({q \in S : q < m}) < n
    BY <1>4, FS_EmptySet DEF Id
  <1> QED BY <1>3, <1>5 DEF FirstFit

-------------------------------------------------------------------------------
(* The limits *)

LEMMA CountedPorts ==
    ASSUME NEW rows \in SUBSET Lease, NEW c, NEW kept \in SUBSET rows
    PROVE  /\ PortsOfRun(rows, c) \in SUBSET HostPorts
           /\ PortsOfUser(rows, c) \in SUBSET HostPorts
           /\ PortsOfRun(kept, c) \in SUBSET PortsOfRun(rows, c)
           /\ PortsOfUser(kept, c) \in SUBSET PortsOfUser(rows, c)
  BY DEF PortsOfRun, PortsOfUser, Held, Lease

\* Fewer rows cannot exceed what more rows did not.
LEMMA FewerWithinQuota ==
    ASSUME NEW rows \in SUBSET Lease, NEW kept \in SUBSET rows, NEW c,
           Cardinality(PortsOfRun(rows, c)) <= MaximumRun,
           Cardinality(PortsOfUser(rows, c)) <= MaximumUser
    PROVE  /\ Cardinality(PortsOfRun(kept, c)) <= MaximumRun
           /\ Cardinality(PortsOfUser(kept, c)) <= MaximumUser
  <1>1. /\ Cardinality(PortsOfRun(kept, c)) <= Cardinality(PortsOfRun(rows, c))
        /\ Cardinality(PortsOfUser(kept, c)) <= Cardinality(PortsOfUser(rows, c))
        /\ Cardinality(PortsOfRun(kept, c)) \in Nat /\ Cardinality(PortsOfRun(rows, c)) \in Nat
        /\ Cardinality(PortsOfUser(kept, c)) \in Nat
        /\ Cardinality(PortsOfUser(rows, c)) \in Nat
    BY CountedPorts, PortSetFinite
  <1> QED BY <1>1, ConfigAssumption

LEMMA JoinedBound ==
    ASSUME NEW S \in SUBSET HostPorts, NEW T \in SUBSET HostPorts, NEW n \in Nat,
           NEW limit \in Nat, Cardinality(T) <= n, Cardinality(S) + n <= limit
    PROVE  Cardinality(S \cup T) <= limit
  <1>1. IsFiniteSet(S) /\ IsFiniteSet(T) /\ Cardinality(S) \in Nat /\ Cardinality(T) \in Nat
        /\ Cardinality(S \cap T) \in Nat
    BY PortSetFinite
  <1>2. Cardinality(S \cup T) = Cardinality(S) + Cardinality(T) - Cardinality(S \cap T)
    BY <1>1, FS_Union
  <1> QED BY <1>1, <1>2

\* A grant adds, to what its own user and run hold, no more than checkLimits
\* counted in advance.
LEMMA GrantWithinQuota ==
    ASSUME NEW rows \in SUBSET Lease, NEW row \in Lease, NEW n \in Id, NEW m,
           Cardinality(row.ports) <= n, WithinLimits(rows, row, n),
           m \in rows =>
               /\ Cardinality(PortsOfRun(rows, m)) <= MaximumRun
               /\ Cardinality(PortsOfUser(rows, m)) <= MaximumUser,
           m \in rows \/ m = row
    PROVE  /\ Cardinality(PortsOfRun(rows \cup {row}, m)) <= MaximumRun
           /\ Cardinality(PortsOfUser(rows \cup {row}, m)) <= MaximumUser
  <1>1. row.ports \in SUBSET HostPorts /\ n \in Nat
        /\ MaximumRun \in Nat /\ MaximumUser \in Nat
    BY ConfigAssumption DEF Lease, Id
  <1>2. /\ PortsOfRun(rows, row) \in SUBSET HostPorts
        /\ PortsOfUser(rows, row) \in SUBSET HostPorts
    BY CountedPorts
  <1>3. Cardinality(PortsOfRun(rows \cup {row}, m)) <= MaximumRun
    <2>1. CASE m.user = row.user /\ m.run = row.run
      <3>1. PortsOfRun(rows \cup {row}, m) = PortsOfRun(rows, row) \cup row.ports
        BY <2>1 DEF PortsOfRun, Held
      <3> QED BY <1>1, <1>2, <3>1, JoinedBound DEF WithinLimits
    <2>2. CASE ~ (m.user = row.user /\ m.run = row.run)
      <3>1. PortsOfRun(rows \cup {row}, m) = PortsOfRun(rows, m) /\ m \in rows
        BY <2>2 DEF PortsOfRun, Held
      <3> QED BY <3>1
    <2> QED BY <2>1, <2>2
  <1>4. Cardinality(PortsOfUser(rows \cup {row}, m)) <= MaximumUser
    <2>1. CASE m.user = row.user
      <3>1. PortsOfUser(rows \cup {row}, m) = PortsOfUser(rows, row) \cup row.ports
        BY <2>1 DEF PortsOfUser, Held
      <3> QED BY <1>1, <1>2, <3>1, JoinedBound DEF WithinLimits
    <2>2. CASE m.user # row.user
      <3>1. PortsOfUser(rows \cup {row}, m) = PortsOfUser(rows, m) /\ m \in rows
        BY <2>2 DEF PortsOfUser, Held
      <3> QED BY <3>1
    <2> QED BY <2>1, <2>2
  <1> QED BY <1>3, <1>4

\* Changing an expiry changes nobody's count.
LEMMA RenewedCounts ==
    ASSUME NEW rows \in SUBSET Lease, NEW l \in rows, NEW e \in Nat, NEW c,
           NEW renewed, renewed = (rows \ {l}) \cup {[l EXCEPT !.expires = e]}
    PROVE  /\ PortsOfRun(renewed, c) = PortsOfRun(rows, c)
           /\ PortsOfUser(renewed, c) = PortsOfUser(rows, c)
  <1> DEFINE k == [l EXCEPT !.expires = e]
  <1>1. k.user = l.user /\ k.run = l.run /\ k.ports = l.ports
    BY DEF Lease
  <1> HIDE DEF k
  <1> SUFFICES /\ PortsOfRun((rows \ {l}) \cup {k}, c) = PortsOfRun(rows, c)
               /\ PortsOfUser((rows \ {l}) \cup {k}, c) = PortsOfUser(rows, c)
    BY DEF k
  <1>2. PortsOfUser((rows \ {l}) \cup {k}, c) = PortsOfUser(rows, c)
    BY <1>1 DEF PortsOfUser, Held
  <1>3. PortsOfRun((rows \ {l}) \cup {k}, c) = PortsOfRun(rows, c)
    BY <1>1 DEF PortsOfRun, Held
  <1> QED BY <1>2, <1>3

LEMMA StepWithinQuota ==
    ASSUME IInv, WithinQuota, [Next]_vars
    PROVE  WithinQuota'
  <1> DEFINE Within(rows, m) ==
               /\ Cardinality(PortsOfRun(rows, m)) <= MaximumRun
               /\ Cardinality(PortsOfUser(rows, m)) <= MaximumUser
  <1> SUFFICES ASSUME NEW m \in leases' PROVE Within(leases', m)
    BY DEF WithinQuota
  <1>1. leases \in SUBSET Lease /\ \A l \in leases : Within(leases, l)
    BY DEF IInv, TypeOK, WithinQuota
  <1>2. CASE leases' \subseteq leases
    BY <1>1, <1>2, FewerWithinQuota
  <1>3. CASE Renewed
    <2>1. PICK l \in leases, e \in Nat :
             leases' = (leases \ {l}) \cup {[l EXCEPT !.expires = e]}
      BY <1>3, RenewedRow
    <2>2. PICK k \in leases : k.user = m.user /\ k.run = m.run
      <3>1. [l EXCEPT !.expires = e].user = l.user /\ [l EXCEPT !.expires = e].run = l.run
        BY <1>1 DEF Lease
      <3> QED BY <2>1, <3>1
    <2>3. Within(leases, m)
      <3>1. PortsOfRun(leases, m) = PortsOfRun(leases, k)
            /\ PortsOfUser(leases, m) = PortsOfUser(leases, k)
        BY <2>2 DEF PortsOfRun, PortsOfUser
      <3>2. Within(leases, k)
        BY <1>1, <2>2
      <3> QED BY <3>1, <3>2
    <2>4. /\ PortsOfRun(leases', m) = PortsOfRun(leases, m)
          /\ PortsOfUser(leases', m) = PortsOfUser(leases, m)
      BY <1>1, <2>1, RenewedCounts
    <2> QED BY <2>3, <2>4
  <1>4. CASE Allocated
    <2>1. PICK now \in 0 .. clock : \E row \in Lease, c \in KeptCapabilities(now) :
             /\ row.user = c.user /\ row.run = c.run
             /\ AllocatedPorts(now, c, row.ports)
             /\ leases' = KeptLeases(now) \cup {row}
      BY <1>4, AllocatedRow
    <2>2. PICK row \in Lease, c \in KeptCapabilities(now) :
             /\ row.user = c.user /\ row.run = c.run
             /\ AllocatedPorts(now, c, row.ports)
             /\ leases' = KeptLeases(now) \cup {row}
      BY <2>1
    <2>3. PICK n \in Id : /\ row.ports = FirstFit(n, AvailableAfter(now))
                          /\ WithinLimits(KeptLeases(now), c, n)
      BY <2>2 DEF AllocatedPorts
    <2>4. Cardinality(row.ports) <= n
      BY <2>3, FirstFitBound DEF AvailableAfter, Available
    <2>5. WithinLimits(KeptLeases(now), row, n)
      BY <2>2, <2>3 DEF WithinLimits, PortsOfRun, PortsOfUser
    <2>6. KeptLeases(now) \in SUBSET leases
      BY DEF KeptLeases, Cascade, ActiveLeases
    <2>7. m \in KeptLeases(now) => Within(KeptLeases(now), m)
      BY <1>1, <2>6, FewerWithinQuota
    <2>8. KeptLeases(now) \in SUBSET Lease /\ (m \in KeptLeases(now) \/ m = row)
      BY <1>1, <2>2, <2>6
    <2> QED BY <2>2, <2>4, <2>5, <2>7, <2>8, GrantWithinQuota
  <1> QED BY <1>2, <1>3, <1>4, LeasesStep

\* No run and no user ever holds more ports than configured, whatever the
\* number of its capabilities and of its requests in flight.
THEOREM QuotasAreKept == Spec => []WithinQuota
  <1>1. Init => WithinQuota
    BY DEF Init, WithinQuota
  <1>2. IInv /\ WithinQuota /\ [Next]_vars => WithinQuota'
    BY StepWithinQuota
  <1> QED BY <1>1, <1>2, Invariance, PTL DEF Spec

-------------------------------------------------------------------------------
(* The broker implements LeasePool *)

Owner(rows) == [p \in HostPorts |-> HolderIn(rows, p)]

\* The ids of the leases that give up ports when only "kept" stay.
EndedIds(kept) == {l.id : l \in {m \in leases \ kept : m.ports # {}}}

LEMMA HolderOf ==
    ASSUME NEW rows, \A l, m \in rows : l.ports \cap m.ports # {} => l = m,
           NEW l \in rows, NEW p \in l.ports
    PROVE  HolderIn(rows, p) = l.id
  <1>1. \A m \in rows : p \in m.ports => m = l
    OBVIOUS
  <1> QED BY <1>1 DEF HolderIn

LEMMA HolderNone ==
    ASSUME NEW rows, NEW p, \A l \in rows : p \notin l.ports
    PROVE  HolderIn(rows, p) = NoLease
  BY DEF HolderIn

\* Deleting rows is ending leases.
LEMMA EndedRows ==
    ASSUME IInv, NEW kept \in SUBSET leases
    PROVE  /\ EndedIds(kept) \in SUBSET Pool!Leases
           /\ Owner(kept) = Pool!Without(EndedIds(kept))
  <1>1. /\ \A l, m \in leases : l.ports \cap m.ports # {} => l = m
        /\ \A l, m \in leases : l.id = m.id => l = m
        /\ leases \in SUBSET Lease
    BY DEF IInv, PortExclusive, LeaseIds, TypeOK
  <1>2. \A l \in leases : l.ports \subseteq HostPorts /\ l.id # NoLease
    BY <1>1 DEF Lease, Id, NoLease
  <1>3. ASSUME NEW l \in leases, l.ports # {} PROVE l.id \in Pool!Leases
    <2>1. PICK p \in l.ports : TRUE
      BY <1>3
    <2>2. HolderIn(leases, p) = l.id /\ p \in HostPorts
      BY <1>1, <1>2, <2>1, HolderOf
    <2> QED BY <1>2, <2>2 DEF Pool!Leases, Pool!None, NoLease
  <1>4. ASSUME NEW p \in HostPorts
        PROVE  HolderIn(kept, p) =
                 IF HolderIn(leases, p) \in EndedIds(kept) THEN NoLease ELSE HolderIn(leases, p)
    <2>1. CASE \E l \in kept : p \in l.ports
      <3>1. PICK l \in kept : p \in l.ports
        BY <2>1
      <3>2. HolderIn(kept, p) = l.id /\ HolderIn(leases, p) = l.id
        BY <1>1, <3>1, HolderOf
      <3>3. l.id \notin EndedIds(kept)
        BY <1>1 DEF EndedIds
      <3> QED BY <3>2, <3>3
    <2>2. CASE ~ (\E l \in kept : p \in l.ports) /\ \E l \in leases : p \in l.ports
      <3>1. PICK l \in leases : p \in l.ports
        BY <2>2
      <3>2. HolderIn(kept, p) = NoLease /\ HolderIn(leases, p) = l.id
        BY <1>1, <2>2, <3>1, HolderOf, HolderNone
      <3>3. l.id \in EndedIds(kept)
        BY <2>2, <3>1 DEF EndedIds
      <3> QED BY <3>2, <3>3
    <2>3. CASE \A l \in leases : p \notin l.ports
      <3>1. HolderIn(kept, p) = NoLease /\ HolderIn(leases, p) = NoLease
        BY <2>3, HolderNone
      <3> QED BY <3>1
    <2> QED BY <2>1, <2>2, <2>3
  <1>5. EndedIds(kept) \in SUBSET Pool!Leases
    BY <1>3 DEF EndedIds
  <1>6. Owner(kept) = Pool!Without(EndedIds(kept))
    BY <1>4 DEF Owner, Pool!Without, Pool!None, NoLease
  <1> QED BY <1>5, <1>6

LEMMA ShrinkIsEnd ==
    ASSUME IInv, leases' \subseteq leases, nextLease' = nextLease
    PROVE  Pool!Next
  <1>1. Owner(leases)' = Owner(leases')
    BY DEF Owner, HolderIn
  <1>2. Pool!End(EndedIds(leases'))
    BY <1>1, EndedRows DEF Pool!End, Owner
  <1> QED BY <1>2, EndedRows DEF Pool!Next

\* An expiry is not part of what the pool promises.
LEMMA RenewIsStutter ==
    ASSUME IInv, Renewed
    PROVE  UNCHANGED Pool!vars
  <1>1. PICK l \in leases, e \in Nat :
           /\ leases' = (leases \ {l}) \cup {[l EXCEPT !.expires = e]}
           /\ nextLease' = nextLease
    BY RenewedRow
  <1> DEFINE k == [l EXCEPT !.expires = e]
  <1>2. k.id = l.id /\ k.ports = l.ports
    BY DEF IInv, TypeOK, Lease
  <1> HIDE DEF k
  <1>3. leases' = (leases \ {l}) \cup {k}
    BY <1>1 DEF k
  <1>4. /\ \A m, n \in leases : m.ports \cap n.ports # {} => m = n
        /\ \A m, n \in leases' : m.ports \cap n.ports # {} => m = n
    BY <1>2, <1>3 DEF IInv, PortExclusive
  <1>5. ASSUME NEW p \in HostPorts PROVE HolderIn(leases', p) = HolderIn(leases, p)
    <2>1. CASE \E m \in leases : p \in m.ports
      <3>1. PICK m \in leases : p \in m.ports
        BY <2>1
      <3>2. PICK n \in leases' : n.id = m.id /\ p \in n.ports
        BY <1>2, <1>3, <3>1
      <3> QED BY <1>4, <3>1, <3>2, HolderOf
    <2>2. CASE \A m \in leases : p \notin m.ports
      <3>1. \A m \in leases' : p \notin m.ports
        BY <1>2, <1>3, <2>2
      <3> QED BY <2>2, <3>1, HolderNone
    <2> QED BY <2>1, <2>2
  <1> QED BY <1>1, <1>5 DEF Pool!vars

LEMMA AllocateIsGrant ==
    ASSUME IInv, Allocated
    PROVE  Pool!Next
  <1>1. PICK now \in 0 .. clock : \E row \in Lease, c \in KeptCapabilities(now) :
           /\ row.id = nextLease
           /\ row.ports \subseteq AvailableAfter(now)
           /\ AllocatedPorts(now, c, row.ports)
           /\ leases' = KeptLeases(now) \cup {row}
           /\ nextLease' = nextLease + 1
    BY AllocatedRow
  <1>2. PICK row \in Lease, c \in KeptCapabilities(now) :
           /\ row.id = nextLease
           /\ row.ports \subseteq AvailableAfter(now)
           /\ AllocatedPorts(now, c, row.ports)
           /\ leases' = KeptLeases(now) \cup {row}
           /\ nextLease' = nextLease + 1
    BY <1>1
  <1> DEFINE kept  == KeptLeases(now)
             ended == EndedIds(kept)
  <1>3. kept \in SUBSET leases
    BY DEF KeptLeases, Cascade, ActiveLeases
  <1>4. \A p \in row.ports : p \in HostPorts /\ \A l \in kept : p \notin l.ports
    BY <1>2 DEF AvailableAfter, Available, Held
  <1>5. row.ports # {}
    BY <1>2, FirstFitNonempty DEF AllocatedPorts, AvailableAfter, Available
  <1> HIDE DEF kept
  <1>6. ended \in SUBSET Pool!Leases /\ Owner(kept) = Pool!Without(ended)
    BY <1>3, EndedRows
  <1> HIDE DEF ended
  <1>7. leases' = kept \cup {row}
    BY <1>2 DEF kept
  <1>8. \A l, m \in leases' : l.ports \cap m.ports # {} => l = m
    BY <1>3, <1>4, <1>7 DEF IInv, PortExclusive
  <1>9. ASSUME NEW p \in HostPorts
        PROVE  HolderIn(leases', p) =
                 IF p \in row.ports THEN nextLease ELSE HolderIn(kept, p)
    <2>1. CASE p \in row.ports
      BY <1>2, <1>7, <1>8, <2>1, HolderOf
    <2>2. CASE p \notin row.ports /\ \E l \in kept : p \in l.ports
      <3>1. PICK l \in kept : p \in l.ports
        BY <2>2
      <3>2. HolderIn(leases', p) = l.id /\ HolderIn(kept, p) = l.id
        BY <1>7, <1>8, <3>1, HolderOf
      <3> QED BY <2>2, <3>2
    <2>3. CASE p \notin row.ports /\ \A l \in kept : p \notin l.ports
      BY <1>7, <2>3, HolderNone
    <2> QED BY <2>1, <2>2, <2>3
  <1>10. \A p \in row.ports : Pool!Without(ended)[p] = Pool!None
    BY <1>4, <1>6, HolderNone DEF Owner, Pool!None, NoLease
  <1>11. nextLease' - 1 = nextLease /\ nextLease - 1 + 1 = nextLease
    BY <1>2 DEF IInv, TypeOK, Id
  <1>12. \A p \in HostPorts : Pool!Without(ended)[p] = HolderIn(kept, p)
    BY <1>6 DEF Owner
  <1>13. [p \in HostPorts |-> HolderIn(leases', p)] =
           [p \in HostPorts |-> IF p \in row.ports THEN nextLease' - 1
                               ELSE Pool!Without(ended)[p]]
    BY <1>9, <1>11, <1>12
  <1>14. Pool!Grant(ended, row.ports)
    BY <1>5, <1>10, <1>11, <1>13 DEF Pool!Grant
  <1>15. row.ports \in SUBSET HostPorts
    BY <1>4
  <1> QED BY <1>6, <1>14, <1>15 DEF Pool!Next

\* The broker's lease table is a LeasePool: a lease's ports change hands
\* together, under an id never used before, and crashes, restarts, failing
\* statements and waiting requests do not show.
THEOREM BrokerImplementsPool == Spec => ImplementsPool
  <1>1. Init => Pool!Init
    BY DEF Init, Pool!Init, HolderIn, Pool!None, NoLease
  <1>2. IInv /\ [Next]_vars => [Pool!Next]_(Pool!vars)
    BY LeasesStep, ShrinkIsEnd, RenewIsStutter, AllocateIsGrant
  <1> QED BY <1>1, <1>2, Invariance, PTL DEF Spec, ImplementsPool, Pool!Spec

===============================================================================
