---------------------------- MODULE ResourceDaemon ----------------------------
(***************************************************************************)
(* llama-stackd: the HTTP handlers of internal/resourceapi and their        *)
(* client, the job scheduler that expires leases, and the start and stop   *)
(* of the process, over the manager.  PortBroker says what happens inside  *)
(* a call of the manager; here such a call is one step on the lease table. *)
(* What this module is about is what the handlers do between two calls,    *)
(* with other requests, failing calls and the end of the process between.  *)
(***************************************************************************)
EXTENDS Integers, FiniteSets

CONSTANTS
    Handlers,       \* concurrent requests
    Capabilities,   \* run credentials that may be issued
    Capacity,       \* how many leases fit the pool
    MaximumWait,    \* ports.maximum_wait_seconds
    Seconds,        \* values of wait_seconds in requests
    SecondUnit,     \* time.Second as a time.Duration
    WordSize,       \* 2^w for a time.Duration of w bits
    MaxTTL, MaxTime, MaxLeases  \* bounds

ASSUME DaemonAssumption ==
    /\ IsFiniteSet(Handlers) /\ Capabilities # {}
    /\ Capacity \in Nat /\ MaximumWait \in Nat /\ Seconds \subseteq Int
    /\ SecondUnit \in Nat \ {0} /\ WordSize \in Nat \ {0}
    /\ MaxTTL \in Nat /\ MaxTime \in Nat /\ MaxLeases \in Nat

VARIABLES
    proc,       \* where run() is
    listening,  \* the HTTP server accepts connections
    open,       \* which of the manager and the job client are open
    rows,       \* the lease table
    jobs,       \* the times of the pending expiry jobs, in gasket's own database
    restoring,  \* leases the start has still to schedule
    credential, \* what became of each capability
    call,       \* the request each handler is working on
    nextLease,  \* the next lease id
    excused,    \* leases whose scheduling or clean-up is known to have failed
    clock

vars == <<proc, listening, open, rows, jobs, restoring, credential, call,
          nextLease, excused, clock>>

process == <<proc, listening, open>>
tables == <<rows, nextLease, credential>>
book == <<jobs, restoring, excused>>

-----------------------------------------------------------------------------
(* Durations.  A conversion from seconds multiplies two 64-bit integers.  *)

Wrap(n) == LET r == n % WordSize
           IN  IF 2 * r >= WordSize THEN r - WordSize ELSE r

Duration(seconds) == Wrap(seconds * SecondUnit)

MaxWait == Duration(MaximumWait)

\* The wait is converted first and compared afterwards.
WaitAccepted(wait) == wait >= 0 /\ wait <= MaxWait

-----------------------------------------------------------------------------
(* States. *)

Lease == [id : 1..MaxLeases, cap : Capabilities, until : Nat]
\* What a tenant asks for, directly or through the MCP tool of the same name.
Operations == {"none", "allocate", "renew", "release"}
Phases == {"idle", "call", "waiting", "schedule", "undo", "reply"}
Statuses == {"none", "ok", "error"}

Call == [phase : Phases, op : Operations, cap : Capabilities, id : 0..MaxLeases,
         wait : Int, until : Nat, status : Statuses]

AnyCapability == CHOOSE c \in Capabilities : TRUE

Idle == [phase |-> "idle", op |-> "none", cap |-> AnyCapability, id |-> 0,
         wait |-> 0, until |-> 0, status |-> "none"]

Processes == {"down", "opening", "up", "draining", "closing", "aborting"}

ActiveAtEnd == {l \in rows : l.until >= clock}     \* mutant
Active == {l \in rows : l.until > clock}
Ids(leases) == {l.id : l \in leases}
Without(id) == {l \in rows : l.id # id}

Later(a, b) == IF a > b THEN a ELSE b

\* scheduleExpiry: RunIn(max(0, until - now)).
JobFor(until) == Later(until, clock)

Init ==
    /\ proc = "down" /\ listening = FALSE /\ open = {}
    /\ rows = {} /\ jobs = {} /\ restoring = {}
    /\ credential = [c \in Capabilities |-> "none"]
    /\ call = [h \in Handlers |-> Idle]
    /\ nextLease = 1 /\ excused = {} /\ clock = 0

Tick == clock < MaxTime /\ clock' = clock + 1
        /\ UNCHANGED <<process, tables, book, call>>

-----------------------------------------------------------------------------
(* The start: open the manager, open the scheduler, schedule every lease  *)
(* that was restored, serve.                                              *)

\* Mutant: only the leases created by this process are scheduled.
StartAfresh ==
    /\ proc = "down"
    /\ \E kept \in SUBSET Active : rows' = kept /\ restoring' = {}
    /\ proc' = "opening" /\ open' = {"manager", "jobs"}
    /\ UNCHANGED <<listening, jobs, credential, call, nextLease, excused, clock>>

\* A restored lease is one that is active and whose ports could be bound.
Start ==
    /\ proc = "down"
    /\ \E kept \in SUBSET Active : rows' = kept /\ restoring' = kept
    /\ proc' = "opening" /\ open' = {"manager", "jobs"}
    /\ UNCHANGED <<listening, jobs, credential, call, nextLease, excused, clock>>

Restore ==
    /\ proc = "opening"
    /\ \E l \in restoring :
        /\ jobs' = jobs \union {JobFor(l.until)}
        /\ restoring' = restoring \ {l}
        /\ excused' = excused \ {l.id}
    /\ UNCHANGED <<process, tables, call, clock>>

Serve ==
    /\ proc = "opening" /\ restoring = {}
    /\ proc' = "up" /\ listening' = TRUE
    /\ UNCHANGED <<open, tables, book, call, clock>>

-----------------------------------------------------------------------------
(* The scheduler and the manager's own reap loop.                         *)

Expired == rows \ Active

\* A job that fails is pending until its retries are used up, which gasket counts.
RunJob ==
    /\ proc = "up"
    /\ \E at \in jobs :
        /\ at <= clock
        /\ jobs' = jobs \ {at}
        /\ \/ rows' = Active /\ UNCHANGED excused
           \/ excused' = excused \union Ids(Expired) /\ UNCHANGED rows
    /\ UNCHANGED <<process, restoring, credential, call, nextLease, clock>>

ManagerReap ==
    /\ "manager" \in open /\ Expired # {}
    /\ rows' = Active
    /\ UNCHANGED <<process, nextLease, credential, book, call, clock>>

-----------------------------------------------------------------------------
(* The handlers. *)

Busy(h) == call[h].phase # "idle"

\* The answer keeps what a property reads of it: whether an allocation failed.
Reply(h, status) ==
    call' = [call EXCEPT ![h] =
                IF @.op = "allocate"
                THEN [@ EXCEPT !.phase = "reply", !.wait = 0, !.until = 0, !.status = status]
                ELSE [Idle EXCEPT !.phase = "reply", !.status = status]]

\* Allocations that may still take an id.
Admitted == {h \in Handlers : call[h].op = "allocate" /\ call[h].phase \in {"call", "waiting"}}

Accept(h) == listening /\ ~Busy(h)

\* A tenant's request: the capability is looked up, then the body is decoded and,
\* for an allocation, the range of the wait checked.
Receive(h) ==
    /\ Accept(h) /\ "manager" \in open
    /\ \E op \in {"allocate", "renew", "release"}, c \in Capabilities,
          id \in 0..MaxLeases, s \in Seconds :
        /\ credential[c] = "live"
        /\ id < nextLease
        /\ id # 0 <=> op \in {"renew", "release"}
        /\ IF op = "allocate"
           THEN /\ WaitAccepted(Duration(s))
                /\ nextLease + Cardinality(Admitted) <= MaxLeases
           ELSE Duration(s) = 0
        /\ call' = [call EXCEPT ![h] = [Idle EXCEPT !.phase = "call", !.op = op, !.cap = c,
                                                    !.id = id, !.wait = Duration(s)]]
    /\ UNCHANGED <<process, tables, book, clock>>

\* A request that is refused (a wrong token, a body that does not decode, a wait out of
\* range) or that only reads (the two lists and the health check).
Inspect(h) ==
    /\ Accept(h) /\ Reply(h, "none")
    /\ UNCHANGED <<process, tables, book, clock>>

At(h, phase, op) == call[h].phase = phase /\ call[h].op = op

\* A call of the manager that a failing statement or a closed store ends early.
ManagerFails(h) ==
    /\ call[h].phase = "call"
    /\ Reply(h, "error")
    /\ UNCHANGED <<process, tables, book, clock>>

\* allocate: the lease is in the table before its expiry is scheduled.
Grant(h) ==
    /\ call[h].op = "allocate" /\ call[h].phase \in {"call", "waiting"}
    /\ "manager" \in open /\ credential[call[h].cap] = "live"
    /\ Cardinality(Active) < Capacity
    /\ \E ttl \in 1..MaxTTL :
        /\ rows' = Active \union {[id |-> nextLease, cap |-> call[h].cap, until |-> clock + ttl]}
        /\ call' = [call EXCEPT ![h].phase = "schedule", ![h].id = nextLease,
                                ![h].wait = 0, ![h].until = clock + ttl]
    /\ nextLease' = nextLease + 1
    /\ UNCHANGED <<process, credential, book, clock>>

\* A capability revoked since it was looked up, or a full pool: give up or wait.
Exhausted(h) ==
    /\ At(h, "call", "allocate") /\ "manager" \in open
    /\ \/ credential[call[h].cap] # "live" /\ Reply(h, "error")
       \/ /\ credential[call[h].cap] = "live" /\ Cardinality(Active) >= Capacity
          /\ \/ call[h].wait = 0 /\ Reply(h, "error")
             \/ call[h].wait # 0 /\ call' = [call EXCEPT ![h].phase = "waiting"]
    /\ UNCHANGED <<process, tables, book, clock>>

\* The timer, the request's context, or the revocation of the capability.
WaitEnds(h) ==
    /\ call[h].phase = "waiting"
    /\ Reply(h, "error")
    /\ UNCHANGED <<process, tables, book, clock>>

\* Mutant: the renewed lease is added beside the old one.
RenewAdds(h) ==
    /\ At(h, "call", "renew") /\ "manager" \in open
    /\ \E l \in Active, ttl \in 1..MaxTTL :
        /\ l.id = call[h].id /\ l.cap = call[h].cap
        /\ rows' = rows \union {[l EXCEPT !.until = clock + ttl]}
        /\ call' = [call EXCEPT ![h].phase = "schedule", ![h].until = clock + ttl]
    /\ UNCHANGED <<process, nextLease, credential, book, clock>>

RenewCall(h) ==
    /\ At(h, "call", "renew") /\ "manager" \in open
    /\ \/ /\ credential[call[h].cap] = "live"
          /\ \E l \in Active, ttl \in 1..MaxTTL :
              /\ l.id = call[h].id /\ l.cap = call[h].cap
              /\ rows' = Without(l.id) \union {[l EXCEPT !.until = clock + ttl]}
              /\ call' = [call EXCEPT ![h].phase = "schedule", ![h].until = clock + ttl]
       \/ /\ \/ credential[call[h].cap] # "live"
             \/ ~\E l \in Active : l.id = call[h].id /\ l.cap = call[h].cap
          /\ Reply(h, "error") /\ UNCHANGED rows
    /\ UNCHANGED <<process, nextLease, credential, book, clock>>

\* api.schedule; it fails once the job client is closed, and may fail before.
Schedule(h) ==
    /\ call[h].phase = "schedule" /\ "jobs" \in open
    /\ jobs' = jobs \union {JobFor(call[h].until)}
    /\ Reply(h, "ok")
    /\ UNCHANGED <<process, tables, restoring, excused, clock>>

\* Mutant: a failing schedule is reported and the lease kept.
ScheduleGivesUp(h) ==
    /\ call[h].phase = "schedule"
    /\ Reply(h, "error")
    /\ excused' = IF call[h].op = "renew" THEN excused \union {call[h].id} ELSE excused
    /\ UNCHANGED <<process, tables, jobs, restoring, clock>>

\* A failing schedule takes a new lease back and leaves a renewal standing.
ScheduleFails(h) ==
    /\ call[h].phase = "schedule"
    /\ \/ /\ call[h].op = "allocate"
          /\ call' = [call EXCEPT ![h].phase = "undo"] /\ UNCHANGED excused
       \/ /\ call[h].op = "renew"
          /\ Reply(h, "error") /\ excused' = excused \union {call[h].id}
    /\ UNCHANGED <<process, tables, jobs, restoring, clock>>

\* The release that takes a new lease back; its error is dropped.
Undo(h) ==
    /\ call[h].phase = "undo"
    /\ Reply(h, "error")
    /\ \/ /\ "manager" \in open
          /\ rows' = Without(call[h].id) /\ UNCHANGED excused
       \/ /\ excused' = excused \union {call[h].id} /\ UNCHANGED rows
    /\ UNCHANGED <<process, nextLease, credential, jobs, restoring, clock>>

\* The manager removes a lease whose owner it has compared.
Release(h) ==
    /\ At(h, "call", "release") /\ "manager" \in open
    /\ LET own == {l \in rows : l.id = call[h].id /\ l.cap = call[h].cap}
       IN  /\ rows' = rows \ own
           /\ Reply(h, IF own = {} THEN "error" ELSE "ok")
    /\ UNCHANGED <<process, nextLease, credential, book, clock>>

\* An administrator's request is one call of the manager after the token check:
\* issue a credential, delete one with its leases, or remove any lease.
Administer(h) ==
    /\ Accept(h) /\ "manager" \in open
    /\ \/ \E c \in Capabilities :
            /\ credential[c] = "none"
            /\ credential' = [credential EXCEPT ![c] = "live"]
            /\ Reply(h, "none") /\ UNCHANGED rows
       \/ \E c \in Capabilities :
            /\ credential[c] = "live"
            /\ credential' = [credential EXCEPT ![c] = "revoked"]
            /\ rows' = {l \in rows : l.cap # c}
            /\ Reply(h, "none")
       \/ \E l \in rows :
            /\ rows' = rows \ {l}
            /\ Reply(h, "none") /\ UNCHANGED credential
    /\ UNCHANGED <<process, nextLease, book, clock>>

Handle(h) ==
    \/ ManagerFails(h) \/ Grant(h) \/ Exhausted(h) \/ WaitEnds(h)
    \/ RenewCall(h) \/ Schedule(h) \/ ScheduleFails(h) \/ Undo(h)
    \/ Release(h)

-----------------------------------------------------------------------------
(* The client, and the MCP tools that make one client call each.          *)

Succeeds(status) == status = "ok"

\* The answer reaches the client or is lost with the connection.
Deliver(h) ==
    /\ call[h].phase = "reply"
    /\ call' = [call EXCEPT ![h] = Idle]
    /\ UNCHANGED <<process, tables, book, clock>>

-----------------------------------------------------------------------------
(* The end of run(). *)

\* Mutant: the listener is closed when the wait is over.
ShutdownLate ==
    /\ proc = "up" /\ proc' = "draining" /\ UNCHANGED listening
    /\ UNCHANGED <<open, tables, book, call, clock>>

\* A signal: the scheduler stops, and server.Shutdown closes the listener before it
\* waits for the handlers.
Shutdown ==
    /\ proc = "up" /\ proc' = "draining" /\ listening' = FALSE
    /\ UNCHANGED <<open, tables, book, call, clock>>

Drained ==
    /\ proc = "draining" /\ \A h \in Handlers : ~Busy(h)
    /\ proc' = "closing"
    /\ UNCHANGED <<listening, open, tables, book, call, clock>>

\* Mutant: Shutdown waits for the handlers without a deadline.
DrainWaits ==
    /\ proc = "draining" /\ (\A h \in Handlers : ~Busy(h)) /\ proc' = "aborting"
    /\ UNCHANGED <<listening, open, tables, book, call, clock>>

DrainTimesOut ==
    /\ proc = "draining" /\ proc' = "aborting"
    /\ UNCHANGED <<listening, open, tables, book, call, clock>>

\* ListenAndServe, or jobs.Run, or a step of the start returns an error.
Fails ==
    /\ proc \in {"opening", "up"} /\ proc' = "aborting"
    /\ listening' \in {FALSE, listening}
    /\ UNCHANGED <<open, tables, book, call, clock>>

\* The deferred calls: the job client is closed before the manager.
CloseJobs ==
    /\ proc \in {"closing", "aborting"} /\ "jobs" \in open
    /\ open' = open \ {"jobs"}
    /\ UNCHANGED <<proc, listening, tables, book, call, clock>>

CloseManager ==
    /\ proc \in {"closing", "aborting"} /\ open = {"manager"}
    /\ open' = {}
    /\ UNCHANGED <<proc, listening, tables, book, call, clock>>

Ends ==
    /\ proc' = "down" /\ listening' = FALSE /\ open' = {}
    /\ call' = [h \in Handlers |-> Idle] /\ restoring' = {}
    /\ UNCHANGED <<tables, jobs, excused, clock>>

Exit == proc \in {"closing", "aborting"} /\ open = {} /\ Ends

Crash == proc # "down" /\ Ends

Stopping == Drained \/ DrainTimesOut \/ CloseJobs \/ CloseManager \/ Exit

Next ==
    \/ Tick \/ Start \/ Restore \/ Serve \/ RunJob \/ ManagerReap
    \/ \E h \in Handlers : Receive(h) \/ Administer(h) \/ Inspect(h) \/ Handle(h) \/ Deliver(h)
    \/ Shutdown \/ Fails \/ Stopping \/ Crash

Spec == Init /\ [][Next]_vars

\* The deferred calls run once run() returns; handlers, the scheduler, callers, signals,
\* failures and restarts owe nothing.
Fairness == WF_vars(Stopping)

FairSpec == Spec /\ Fairness

-----------------------------------------------------------------------------
(* Properties. *)

TypeOK ==
    /\ proc \in Processes /\ listening \in BOOLEAN /\ open \subseteq {"manager", "jobs"}
    /\ rows \subseteq Lease /\ restoring \subseteq Lease /\ jobs \subseteq Nat
    /\ credential \in [Capabilities -> {"none", "live", "revoked"}]
    /\ call \in [Handlers -> Call]
    /\ \A l, m \in rows : l.id = m.id => l = m
    /\ nextLease \in 1..(MaxLeases + 1) /\ clock \in 0..MaxTime
    /\ excused \subseteq 1..MaxLeases

\* A job that will collect a lease when it expires, or is due already.
Covers(at, l) == at = l.until \/ (l.until < at /\ at <= clock)

Scheduling(l) ==
    \E h \in Handlers : call[h].phase \in {"schedule", "undo"} /\ call[h].id = l.id

\* Outside a stopped process every lease has a job that will collect it, a handler that
\* is about to schedule it or to take it back, a place in the list of the start, or
\* a failure that was reported: whatever crashed or failed before, no lease is forgotten.
LeaseHasJob ==
    proc # "down" =>
        \A l \in rows :
            \/ \E at \in jobs : Covers(at, l)
            \/ Scheduling(l) \/ l \in restoring \/ l.id \in excused

\* An allocation that is answered with an error has left no lease behind, except
\* when the release that takes it back failed as well.
ErrorTakesNothing ==
    \A h \in Handlers :
        (At(h, "reply", "allocate") /\ ~Succeeds(call[h].status)) =>
            call[h].id \notin Ids(rows) \ excused

\* After a drain that ended in time no handler meets a manager that is being closed.
DrainedIsQuiet == proc = "closing" => \A h \in Handlers : ~Busy(h)

\* Once the end has begun the process ends, whatever the handlers wait for.
StopIsBounded == proc \in {"draining", "closing", "aborting"} ~> proc = "down"

Book == INSTANCE LeaseBook WITH
    entries <- rows,
    granted <- nextLease - 1,
    known   <- {c \in Capabilities : credential[c] # "none"},
    valid   <- {c \in Capabilities : credential[c] = "live"},
    now     <- clock,
    up      <- proc # "down"

\* What the daemon serves is a LeaseBook: with releases between a grant and its
\* schedule, revocations during a wait, late jobs and restarts, a lease is granted to a
\* capability that exists, is renewed only before its end, and goes before it only with
\* its capability, by a release or an administrator, or with the process.
ImplementsBook == Book!Spec
==============================================================================
