------------------------------ MODULE PortBroker ------------------------------
(***************************************************************************)
(* The port-lease broker of internal/resource: run capabilities and port   *)
(* leases in a database, one forwarding listener per leased port in        *)
(* memory, one mutex, allocations that wait for capacity on a channel the  *)
(* manager closes, a reaper, and restart from the database.                *)
(*                                                                         *)
(* One action is one critical section of manager.mutex, or one step a      *)
(* request takes outside it.  Time is the integer "clock", and a stored    *)
(* expiry is compared with it as the code compares with time.Now().  A     *)
(* failing store call is a choice made when StoreMayFail; a process that   *)
(* dies inside a critical section is such a failure followed by Crash.     *)
(***************************************************************************)
EXTENDS Integers, FiniteSets

CONSTANTS
    Users, Runs,            \* who a capability is issued for
    Handlers,               \* concurrent API requests
    PortStart, PortEnd,     \* the pool
    DefaultTTL, MaximumTTL, \* of a lease; the maximum also bounds a capability
    MaximumRun, MaximumUser,\* ports one run, or one user, may hold
    Waits,                  \* how long an allocation may ask to wait
    Contended,              \* pool ports that other processes may bind too
    StoreMayFail,           \* whether database statements may fail
    MaxTime,                \* bound on the clock
    MaxCapabilities,        \* bound on the capabilities ever issued
    MaxLeases,              \* bound on the leases ever granted
    MaxPorts                \* bound on the ports of one request

HostPorts == PortStart .. PortEnd

ASSUME ConfigAssumption ==
    /\ PortStart \in Nat /\ PortEnd \in Nat /\ PortStart <= PortEnd
    /\ DefaultTTL \in Nat /\ MaximumTTL \in Nat
    /\ 1 <= DefaultTTL /\ DefaultTTL <= MaximumTTL
    /\ MaximumRun \in Nat /\ MaximumUser \in Nat
    /\ 1 <= MaximumRun /\ MaximumRun <= MaximumUser

ASSUME ModelAssumption ==
    /\ Waits \subseteq Nat
    /\ Contended \subseteq HostPorts
    /\ StoreMayFail \in BOOLEAN
    /\ MaxTime \in Nat /\ MaxCapabilities \in Nat
    /\ MaxLeases \in Nat /\ MaxPorts \in Nat

VARIABLES
    clock,          \* now
    status,         \* the process: "down", "up", "closing", "closed"
    capabilities,   \* table of capability rows
    leases,         \* table of lease rows
    nextCap,        \* the next fresh capability hash
    nextLease,      \* the next fresh lease id
    proxies,        \* manager.proxies: the lease each open listener forwards
    changed,        \* requests whose copy of manager.changed is still open
    req,            \* where each API request is
    foreign         \* pool ports bound by other processes

tables == <<capabilities, leases>>
supply == <<nextCap, nextLease>>
vars == <<clock, status, capabilities, leases, nextCap, nextLease,
          proxies, changed, req, foreign>>

NoLease == 0
Id      == Nat \ {0}
Status  == {"down", "up", "closing", "closed"}
Serving == status \in {"up", "closing"}     \* the database is open

Capability == [hash : Id, user : Users, run : Runs, expires : Nat]
Lease      == [id : Id, cap : Id, user : Users, run : Runs,
               ports : SUBSET HostPorts, expires : Nat]

Idle    == [pc |-> "idle"]
Request == {Idle}
    \cup [pc : {"ready"}, cap : Capability]
    \cup [pc : {"loop", "wait"}, cap : Capability, need : Id,
          deadline : Nat, patient : BOOLEAN]
    \cup [pc : {"try"}, cap : Capability, need : Id,
          deadline : Nat, patient : BOOLEAN, since : Nat]
Allocating == {"loop", "try", "wait"}

-------------------------------------------------------------------------------
(* Reading the tables *)

UncappedTime(first, second) == first     \* mutant
MinimumTime(first, second) == IF second < first THEN second ELSE first

LiveCapabilities(now) == {c \in capabilities : c.expires > now}
ActiveAtExpiry(now)   == {l \in leases : l.expires >= now}     \* mutant
ActiveLeases(now)     == {l \in leases : l.expires > now}
ExpiredLeases(now)    == {l \in leases : l.expires <= now}

Hashes(caps) == {c.hash : c \in caps}
Held(rows)   == UNION {l.ports : l \in rows}

\* The lease row that owns a port.
HolderIn(rows, p) ==
    IF \E l \in rows : p \in l.ports
    THEN (CHOOSE l \in rows : p \in l.ports).id
    ELSE NoLease

\* Deleting a capability deletes its leases (the cascading foreign key).
Cascade(rows, caps) == {l \in rows : l.cap \in Hashes(caps)}

-------------------------------------------------------------------------------
(* Pieces of critical sections *)

\* Mutant: stops after the first port.
CloseFirstProxy(rows) ==
    [p \in HostPorts |-> IF p \in Held(rows) /\ \A q \in Held(rows) : p <= q
                         THEN NoLease ELSE proxies[p]]

\* closeLeaseProxies finds the listener by port, whoever it forwards for.
CloseLeaseProxies(rows) ==
    [p \in HostPorts |-> IF p \in Held(rows) THEN NoLease ELSE proxies[p]]

\* removeExpiredLocked, when every statement succeeds: the capabilities and
\* the leases that stay, and the requests whose channel is still open.
KeptCapabilities(now) == LiveCapabilities(now)
CascadeOnly(now)      == Cascade(leases, KeptCapabilities(now))     \* mutant
KeptLeases(now)       == Cascade(ActiveLeases(now), KeptCapabilities(now))
SilentPurge(now)      == changed     \* mutant
KeptWaiting(now)      == IF ExpiredLeases(now) = {} THEN changed ELSE {}

RemoveExpired(now) ==
    /\ capabilities' = KeptCapabilities(now)
    /\ leases' = KeptLeases(now)
    /\ proxies' = CloseLeaseProxies(ExpiredLeases(now))

\* removeExpiredLocked, when a delete fails: the listeners are closed, the
\* rows may or may not be gone, and nobody is told.
RemoveExpiredFails(now) ==
    /\ StoreMayFail
    /\ leases' \in {leases, ActiveLeases(now)}
    /\ proxies' = CloseLeaseProxies(ExpiredLeases(now))
    /\ UNCHANGED <<capabilities, changed>>

\* Mutant: relies on Listen alone to find the ports in use.
BindableOnly(rows, opened) ==
    {p \in HostPorts : p \notin foreign /\ opened[p] = NoLease}

\* Listen fails on a port that some socket, ours or not, is bound to; the
\* code skips a port of an active lease without trying.
Available(rows, opened) ==
    {p \in HostPorts : p \notin Held(rows) /\ p \notin foreign /\ opened[p] = NoLease}

AvailableAfter(now) == Available(KeptLeases(now), CloseLeaseProxies(ExpiredLeases(now)))

\* Mutant: the loop advances before the port is recorded.
FirstFitNext(n, free) == {p + 1 : p \in {r \in free : Cardinality({q \in free : q < r}) < n}}

\* reserveListeners walks the pool upwards.
FirstFit(n, free) == {p \in free : Cardinality({q \in free : q < p}) < n}

\* checkLimits; leases have no port in common, so this counts each port once.
PortsOfUser(rows, c) == Held({l \in rows : l.user = c.user})
PortsOfRun(rows, c)  == Held({l \in rows : l.user = c.user /\ l.run = c.run})
\* Mutant: compares what is held before the request.
WithinLimitsSoFar(rows, c, n) ==
    /\ Cardinality(PortsOfRun(rows, c)) < MaximumRun
    /\ Cardinality(PortsOfUser(rows, c)) < MaximumUser

WithinLimits(rows, c, n) ==
    /\ Cardinality(PortsOfRun(rows, c)) + n <= MaximumRun
    /\ Cardinality(PortsOfUser(rows, c)) + n <= MaximumUser

Return(h) == req' = [req EXCEPT ![h] = Idle]

-------------------------------------------------------------------------------
(* Time, and sockets of other processes *)

Tick ==
    /\ clock < MaxTime
    /\ clock' = clock + 1
    /\ UNCHANGED <<status, tables, supply, proxies, changed, req, foreign>>

ForeignBind(p) ==
    /\ p \notin foreign /\ proxies[p] = NoLease
    /\ foreign' = foreign \cup {p}
    /\ UNCHANGED <<clock, status, tables, supply, proxies, changed, req>>

ForeignRelease(p) ==
    /\ p \in foreign
    /\ foreign' = foreign \ {p}
    /\ UNCHANGED <<clock, status, tables, supply, proxies, changed, req>>

-------------------------------------------------------------------------------
(* Capabilities *)

\* IssueCapability takes no lock; its one effect is the inserted row.
IssueCapability(user, run, ttl) ==
    /\ Serving /\ nextCap <= MaxCapabilities
    /\ capabilities' = capabilities \cup
          {[hash |-> nextCap, user |-> user, run |-> run, expires |-> clock + ttl]}
    /\ nextCap' = nextCap + 1
    /\ UNCHANGED <<clock, status, leases, nextLease, proxies, changed, req, foreign>>

\* A request keeps the copy of the row that Authenticate returned.
Authenticate(h) ==
    /\ Serving /\ req[h] = Idle
    /\ \E c \in LiveCapabilities(clock) :
          req' = [req EXCEPT ![h] = [pc |-> "ready", cap |-> c]]
    /\ UNCHANGED <<clock, status, tables, supply, proxies, changed, foreign>>

-------------------------------------------------------------------------------
(* Allocate *)

\* Only so many allocations are let in that MaxLeases bounds the ids used.
AllocateEnter(h, need, wait) ==
    /\ status # "down" /\ req[h].pc = "ready"
    /\ nextLease + Cardinality({g \in Handlers : req[g].pc \in Allocating}) <= MaxLeases
    /\ wait = 0 \/ clock + wait < MaxTime
    /\ req' = [req EXCEPT ![h] = [pc |-> "loop", cap |-> req[h].cap, need |-> need,
                                  deadline |-> clock + wait, patient |-> wait > 0]]
    /\ UNCHANGED <<clock, status, tables, supply, proxies, changed, foreign>>

\* Each round copies manager.changed under the mutex and lets go of it; the
\* "now" of the attempt that follows is read before the mutex is taken again.
Snapshot(h) ==
    /\ status # "down" /\ req[h].pc = "loop"
    /\ changed' = changed \cup {h}
    /\ req' = [req EXCEPT ![h] = [pc |-> "try", cap |-> req[h].cap, need |-> req[h].need,
                                  deadline |-> req[h].deadline,
                                  patient |-> req[h].patient, since |-> clock]]
    /\ UNCHANGED <<clock, status, tables, supply, proxies, foreign>>

\* allocateOnce's critical section runs with a "now" that may be stale.
Trying(h, now) ==
    /\ status # "down" /\ req[h].pc = "try"
    /\ req[h].since <= now /\ now <= clock

Admitted(h, now) ==
    /\ Trying(h, now) /\ Serving
    /\ req[h].cap.hash \in Hashes(LiveCapabilities(now))

\* The capability is gone or expired, or the store is closed or fails.
Forbidden(h, now) ==
    /\ Trying(h, now)
    /\ StoreMayFail \/ ~Admitted(h, now)
    /\ Return(h)
    /\ changed' = changed \ {h}
    /\ UNCHANGED <<clock, status, tables, supply, proxies, foreign>>

PurgeFails(h, now) ==
    /\ Admitted(h, now)
    /\ RemoveExpiredFails(now)
    /\ Return(h)
    /\ UNCHANGED <<clock, status, supply, foreign>>

\* The limits forbid it, or a statement after the purge fails.
Denied(h, now) ==
    /\ Admitted(h, now)
    /\ RemoveExpired(now)
    /\ StoreMayFail \/ ~WithinLimits(KeptLeases(now), req[h].cap, req[h].need)
    /\ Return(h)
    /\ changed' = KeptWaiting(now) \ {h}
    /\ UNCHANGED <<clock, status, supply, foreign>>

\* ErrExhausted: wait for the channel copied by Snapshot, or give up.
Exhausted(h, now) ==
    /\ Admitted(h, now)
    /\ RemoveExpired(now)
    /\ WithinLimits(KeptLeases(now), req[h].cap, req[h].need)
    /\ Cardinality(AvailableAfter(now)) < req[h].need
    /\ IF req[h].patient /\ clock <= req[h].deadline
       THEN /\ req' = [req EXCEPT ![h] = [pc |-> "wait", cap |-> req[h].cap,
                                          need |-> req[h].need,
                                          deadline |-> req[h].deadline, patient |-> TRUE]]
            /\ changed' = KeptWaiting(now)
       ELSE /\ Return(h)
            /\ changed' = KeptWaiting(now) \ {h}
    /\ UNCHANGED <<clock, status, supply, foreign>>

NewLease(h, now, ttl, ports) ==
    [id |-> nextLease, cap |-> req[h].cap.hash, user |-> req[h].cap.user,
     run |-> req[h].cap.run, ports |-> ports,
     expires |-> MinimumTime(now + (IF ttl = 0 THEN DefaultTTL ELSE ttl), req[h].cap.expires)]

\* The caller's ttl is chosen here, where it is first used; 0 is the default.
Granted(h, now, ttl) ==
    /\ Admitted(h, now)
    /\ WithinLimits(KeptLeases(now), req[h].cap, req[h].need)
    /\ Cardinality(AvailableAfter(now)) >= req[h].need
    /\ LET ports == FirstFit(req[h].need, AvailableAfter(now))
       IN  /\ leases' = KeptLeases(now) \cup {NewLease(h, now, ttl, ports)}
           /\ proxies' = [p \in HostPorts |-> IF p \in ports THEN nextLease
                                      ELSE CloseLeaseProxies(ExpiredLeases(now))[p]]
    /\ capabilities' = KeptCapabilities(now)
    /\ nextLease' = nextLease + 1
    /\ Return(h)
    /\ changed' = KeptWaiting(now) \ {h}
    /\ UNCHANGED <<clock, status, nextCap, foreign>>

Attempt(h) ==
    \E now \in 0 .. clock :
        \/ Forbidden(h, now)
        \/ PurgeFails(h, now)
        \/ Denied(h, now)
        \/ Exhausted(h, now)
        \/ \E ttl \in 0 .. MaximumTTL : Granted(h, now, ttl)

\* The three ways out of the select: signal, timer, cancelled request.
Wake(h) ==
    /\ req[h].pc = "wait" /\ h \notin changed
    /\ req' = [req EXCEPT ![h].pc = "loop"]
    /\ UNCHANGED <<clock, status, tables, supply, proxies, changed, foreign>>

Leave(h) ==
    /\ Return(h)
    /\ changed' = changed \ {h}
    /\ UNCHANGED <<clock, status, tables, supply, proxies, foreign>>

\* Mutant: the timer is never armed.
TimerUnarmed(h) ==
    /\ FALSE
    /\ Leave(h)

Timeout(h) ==
    /\ req[h].pc = "wait" /\ clock >= req[h].deadline
    /\ Leave(h)

Cancel(h) ==
    /\ req[h].pc = "wait"
    /\ Leave(h)

-------------------------------------------------------------------------------
(* The other operations on leases *)

Renew(h, ttl) ==
    /\ Serving /\ req[h].pc = "ready"
    /\ req[h].cap.hash \in Hashes(LiveCapabilities(clock))
    /\ \E l \in ActiveLeases(clock) :
          /\ l.cap = req[h].cap.hash
          /\ leases' = (leases \ {l}) \cup
                {[l EXCEPT !.expires = MinimumTime(clock + ttl, req[h].cap.expires)]}
    /\ Return(h)
    /\ UNCHANGED <<clock, status, capabilities, supply, proxies, changed, foreign>>

\* releaseWhere: the row goes, then the listeners, then everyone is told.
RemoveLease(l) ==
    /\ leases' = leases \ {l}
    /\ proxies' = CloseLeaseProxies({l})
    /\ changed' = {}
    /\ UNCHANGED <<clock, status, capabilities, supply, foreign>>

\* Mutant: the owner is not compared.
ReleaseAny(h) ==
    /\ Serving /\ req[h].pc = "ready"
    /\ \E l \in leases : RemoveLease(l)
    /\ Return(h)

\* Release does not ask whether the capability is still valid.
Release(h) ==
    /\ Serving /\ req[h].pc = "ready"
    /\ \E l \in leases : l.cap = req[h].cap.hash /\ RemoveLease(l)
    /\ Return(h)

\* A request that fails validation, finds nothing, or meets a failing store.
Reject(h) ==
    /\ status # "down" /\ req[h].pc = "ready"
    /\ Return(h)
    /\ UNCHANGED <<clock, status, tables, supply, proxies, changed, foreign>>

Revoke ==
    /\ Serving
    /\ \E l \in leases : RemoveLease(l)
    /\ UNCHANGED req

LeasesOf(hash) == {l \in leases : l.cap = hash}

RevokeCapability(c) ==
    /\ Serving
    /\ capabilities' = capabilities \ {c}
    /\ leases' = Cascade(leases, capabilities \ {c})
    /\ proxies' = CloseLeaseProxies(LeasesOf(c.hash))
    /\ changed' = {}
    /\ UNCHANGED <<clock, status, supply, req, foreign>>

\* The listeners are closed before the row is deleted.
RevokeCapabilityFails(c) ==
    /\ Serving /\ StoreMayFail
    /\ proxies' = CloseLeaseProxies(LeasesOf(c.hash))
    /\ UNCHANGED <<clock, status, tables, supply, changed, req, foreign>>

-------------------------------------------------------------------------------
(* The reaper, shutdown and restart *)

Reap ==
    /\ Serving
    /\ RemoveExpired(clock)
    /\ changed' = KeptWaiting(clock)
    /\ UNCHANGED <<clock, status, supply, req, foreign>>

ReapFails ==
    /\ Serving
    /\ RemoveExpiredFails(clock)
    /\ UNCHANGED <<clock, status, supply, req, foreign>>

\* Close drops the listeners under the mutex, releases it, and only then
\* closes the store: an operation may come between.
CloseBegin ==
    /\ status = "up"
    /\ status' = "closing"
    /\ proxies' = [p \in HostPorts |-> NoLease]
    /\ UNCHANGED <<clock, tables, supply, changed, req, foreign>>

CloseEnd ==
    /\ status = "closing"
    /\ status' = "closed"
    /\ UNCHANGED <<clock, tables, supply, proxies, changed, req, foreign>>

\* The process ends, after Close or at any other moment.
Crash ==
    /\ status # "down"
    /\ status' = "down"
    /\ proxies' = [p \in HostPorts |-> NoLease]
    /\ changed' = {}
    /\ req' = [h \in Handlers |-> Idle]
    /\ UNCHANGED <<clock, tables, supply, foreign>>

\* Mutant: probes the port after the one that was leased.
LostNeighbour(rows) == {l \in rows : {p + 1 : p \in l.ports} \cap foreign # {}}

\* Rows whose ports cannot all be bound again.
Lost(rows) == {l \in rows : l.ports \cap foreign # {}}

\* Mutant: a row that cannot be restored stays.
ReconcileKeeping(ignored) ==
    /\ ignored \subseteq Lost(KeptLeases(clock))
    /\ capabilities' = KeptCapabilities(clock)
    /\ leases' = KeptLeases(clock)

\* Mutant: a lease is restored on the ports that can be bound.
ReconcileTrimming(ignored) ==
    /\ ignored = {}
    /\ capabilities' = KeptCapabilities(clock)
    /\ leases' = {[l EXCEPT !.ports = @ \ foreign] : l \in KeptLeases(clock)}

\* reconcile: collect what expired, restore every row it can, delete the
\* others (a delete that fails is ignored).
Reconcile(ignored) ==
    LET rows == KeptLeases(clock)
    IN  /\ ignored \subseteq Lost(rows)
        /\ ignored # {} => StoreMayFail
        /\ capabilities' = KeptCapabilities(clock)
        /\ leases' = (rows \ Lost(rows)) \cup ignored

\* Its error is the one of the last row visited: nil if that row was restored.
Open ==
    /\ status = "down"
    /\ LET rows == KeptLeases(clock)
       IN  /\ \E ignored \in SUBSET Lost(rows) : Reconcile(ignored)
           /\ rows # {} => rows \ Lost(rows) # {}
           /\ proxies' = [p \in HostPorts |-> HolderIn(rows \ Lost(rows), p)]
    /\ status' = "up"
    /\ UNCHANGED <<clock, supply, changed, req, foreign>>

\* The last row was lost: the daemon exits with the error.
OpenFails ==
    /\ status = "down"
    /\ Lost(KeptLeases(clock)) # {}
    /\ \E ignored \in SUBSET Lost(KeptLeases(clock)) : Reconcile(ignored)
    /\ UNCHANGED <<clock, status, supply, proxies, changed, req, foreign>>

OpenStoreFails ==
    /\ status = "down"
    /\ RemoveExpiredFails(clock)
    /\ UNCHANGED <<clock, status, supply, req, foreign>>

-------------------------------------------------------------------------------
Init ==
    /\ clock = 0
    /\ status = "down"
    /\ capabilities = {} /\ leases = {}
    /\ nextCap = 1 /\ nextLease = 1
    /\ proxies = [p \in HostPorts |-> NoLease]
    /\ changed = {}
    /\ req = [h \in Handlers |-> Idle]
    /\ foreign = {}

Allocate(h) ==
    \/ \E need \in 1 .. MaxPorts, wait \in Waits : AllocateEnter(h, need, wait)
    \/ Snapshot(h)
    \/ Attempt(h)
    \/ Wake(h)
    \/ Timeout(h)
    \/ Cancel(h)

RequestStep(h) ==
    \/ Authenticate(h)
    \/ Allocate(h)
    \/ \E ttl \in 1 .. MaximumTTL : Renew(h, ttl)
    \/ Release(h)
    \/ Reject(h)

AdminStep ==
    \/ \E user \in Users, run \in Runs, ttl \in 1 .. MaximumTTL :
          IssueCapability(user, run, ttl)
    \/ Revoke
    \/ \E c \in capabilities : RevokeCapability(c)
    \/ \E c \in capabilities : RevokeCapabilityFails(c)

ProcessStep ==
    Reap \/ ReapFails \/ CloseBegin \/ CloseEnd \/ Crash
         \/ Open \/ OpenFails \/ OpenStoreFails

Environment ==
    \/ Tick
    \/ \E p \in Contended : ForeignBind(p) \/ ForeignRelease(p)

Next ==
    \/ \E h \in Handlers : RequestStep(h)
    \/ AdminStep
    \/ ProcessStep
    \/ Environment

Spec == Init /\ [][Next]_vars

(* The code's own steps are taken when they can be: goroutines are         *)
(* scheduled, the mutex is handed on, the timer fires, the reap loop ticks *)
(* every 15 seconds.  Nothing is assumed of callers, other processes, the  *)
(* store or the administrator.                                             *)
Fairness ==
    /\ WF_vars(Tick)
    /\ WF_vars(Reap)
    /\ \A h \in Handlers :
          /\ WF_vars(Snapshot(h))
          /\ WF_vars(Attempt(h))
          /\ WF_vars(Wake(h))
          /\ WF_vars(Timeout(h))

FairSpec == Spec /\ Fairness

-------------------------------------------------------------------------------
(* Properties *)

\* Every variable keeps to its type: in particular leased ports are pool
\* ports, and a request never mixes the fields of two stages of Allocate.
TypeOK ==
    /\ clock \in Nat /\ status \in Status
    /\ capabilities \subseteq Capability /\ leases \subseteq Lease
    /\ nextCap \in Id /\ nextLease \in Id
    /\ proxies \in [HostPorts -> Nat]
    /\ changed \subseteq Handlers
    /\ req \in [Handlers -> Request]
    /\ foreign \subseteq HostPorts

\* No port is in two lease rows, expired ones that wait for the reaper
\* included, whatever statements failed before: allocateOnce hands out only
\* ports outside the rows it read under the same lock.
PortExclusive ==
    \A l, m \in leases : l.ports \cap m.ports # {} => l = m

\* An open listener forwards for a lease that is still in the database and
\* owns that port: no path removes a row and leaves its listener behind, not
\* even the cascade that deletes the leases of a capability.
ProxyHasLease ==
    \A p \in HostPorts : proxies[p] # NoLease =>
        \E l \in leases : l.id = proxies[p] /\ p \in l.ports

\* A lease never outlives its capability: the capability's row is there as
\* long as the lease's is, and expires no earlier, so collecting expired
\* capabilities never cascades into a lease that is still active.
LeaseWithinCapability ==
    \A l \in leases : \E c \in capabilities :
        /\ c.hash = l.cap /\ c.user = l.user /\ c.run = l.run
        /\ l.expires <= c.expires

\* No run and no user holds more ports than configured, whichever
\* capabilities and concurrent requests it used, and across restarts.
WithinQuota ==
    \A l \in leases :
        /\ Cardinality(PortsOfRun(leases, l)) <= MaximumRun
        /\ Cardinality(PortsOfUser(leases, l)) <= MaximumUser

\* While the daemon is up every unexpired lease is forwarded, on all its
\* ports: after allocations, collections, restarts and rows lost to other
\* processes' sockets alike.
LeaseIsForwarded ==
    status = "up" =>
        \A l \in ActiveLeases(clock) : \A p \in l.ports : proxies[p] = l.id

\* A request parked on a channel that nobody has closed could not be served:
\* whatever freed ports since it looked has also woken it.
NoLostWakeup ==
    \A h \in Handlers :
        req[h].pc = "wait" /\ h \in changed =>
            Cardinality(Available(leases, proxies)) < req[h].need

\* After its expiry a lease is over: no renewal brings it back, no restart
\* or allocation opens a listener for it, although its row may still be there.
EndedStaysEnded ==
    [][\A l \in ExpiredLeases(clock) :
          /\ \A m \in leases' : m.id = l.id => m.expires <= clock
          /\ \A p \in HostPorts : proxies'[p] = l.id => proxies[p] = l.id]_vars

\* What an API request does never touches an unexpired lease of another
\* capability, neither its row nor its listeners.
TenantIsolation ==
    [][\A h \in Handlers : req'[h] # req[h] /\ req[h] # Idle /\ status' = status =>
          \A l \in ActiveLeases(clock) : l.cap # req[h].cap.hash =>
              /\ l \in leases'
              /\ \A p \in l.ports : proxies'[p] = proxies[p]]_vars

\* A restart brings back, with its old id and expiry, every unexpired lease
\* whose ports can be bound, and forwards it.
RestartKeepsLeases ==
    [][status = "down" /\ status' = "up" =>
          \A l \in ActiveLeases(clock) : l.ports \cap foreign = {} =>
              /\ l \in leases'
              /\ \A p \in l.ports : proxies'[p] = l.id]_vars

Pool == INSTANCE LeasePool WITH
    Ports  <- HostPorts,
    holder <- [p \in HostPorts |-> HolderIn(leases, p)],
    issued <- nextLease - 1

\* The table of leases is a LeasePool: all of a lease's ports change hands
\* together, under fresh ids, and crashes and restarts are invisible.
ImplementsPool == Pool!Spec

\* Every allocation returns: its wait ends with a lease or an error, however
\* often it is woken for nothing, unless the process dies first.
AllocateReturns ==
    \A h \in Handlers : req[h].pc \in Allocating ~> req[h] = Idle

\* An expired lease leaves the database while the daemon stays up.
ExpiredIsReaped ==
    \A i \in 1 .. MaxLeases :
        (status = "up" /\ \E l \in ExpiredLeases(clock) : l.id = i)
            ~> (status # "up" \/ \A l \in leases : l.id # i)

\* Losing one lease to another process's socket does not keep the daemon
\* from coming up with those it can restore ("Open initializes persistent
\* lease storage and restores active listeners").
RestartComesUp ==
    [][status = "down"
       /\ (\E l \in ActiveLeases(clock) : l \notin leases')
       /\ (\E l \in ActiveLeases(clock) : l \in leases' /\ l.ports \cap foreign = {})
          => status' = "up"]_vars
==============================================================================
