-------------------------- MODULE ResourceDaemonProofs --------------------------
(***************************************************************************)
(* The safety properties of ResourceDaemon hold for any number of handlers *)
(* and capabilities, any capacity, any maximum wait and any word size.     *)
(***************************************************************************)
EXTENDS ResourceDaemon, FiniteSetTheorems, TLAPS

(* The inductive invariant. *)

\* Leases are numbered below nextLease, each number is in one row, and what the
\* start still has to schedule is what it has kept.
RowsAreNumbered ==
    /\ \A l \in rows : l.id < nextLease
    /\ proc = "opening" => \A l \in restoring, m \in rows : l.id = m.id => l = m

\* What a handler carries in each phase.
CarriesOf(k) ==
    /\ k.phase = "idle" => k = Idle
    /\ k.phase = "waiting" => k.op = "allocate"
    /\ k.phase \in {"call", "waiting"} => k.op # "none"
    /\ k.phase \in {"call", "waiting"} /\ k.op = "allocate" => k.id = 0
    /\ k.phase \in {"schedule", "undo"} => k.id # 0 /\ k.op \in {"allocate", "renew"}
    /\ k.phase = "undo" => k.op = "allocate"
    /\ k.id < nextLease

CallsCarry == \A h \in Handlers : CarriesOf(call[h])

\* Every admitted allocation finds an id within the bound.
IdsSuffice == nextLease + Cardinality(Admitted) <= MaxLeases + 1

\* No request is accepted or under way before the start is over and after a drain.
DrainIsDeaf ==
    /\ listening => proc \in {"up", "aborting"}
    /\ proc \in {"down", "opening", "closing"} => \A h \in Handlers : call[h] = Idle

\* The handler that answers for a row: one that schedules this very expiry, or one that
\* takes the lease back.
Answers(h, l) ==
    /\ call[h].id = l.id
    /\ \/ call[h].phase = "schedule" /\ call[h].until = l.until
       \/ call[h].phase = "undo"

Accounted(l) ==
    \/ \E at \in jobs : Covers(at, l)
    \/ \E h \in Handlers : Answers(h, l)
    \/ l \in restoring \/ l.id \in excused

RowsAreAccounted == proc # "down" => \A l \in rows : Accounted(l)

IInv ==
    /\ TypeOK /\ RowsAreNumbered /\ CallsCarry /\ IdsSuffice
    /\ DrainIsDeaf /\ RowsAreAccounted /\ ErrorTakesNothing

-----------------------------------------------------------------------------
(* Operators. *)

LEMMA WrapIsInt ==
    \A n \in Int : Wrap(n) \in Int
  BY DaemonAssumption DEF Wrap

LEMMA DurationIsInt ==
    MaxWait \in Int /\ \A s \in Seconds : Duration(s) \in Int
  BY WrapIsInt, DaemonAssumption DEF MaxWait, Duration

LEMMA IdleIsCall == Idle \in Call
  BY DaemonAssumption DEF Idle, AnyCapability, Call, Phases, Operations, Statuses

\* One field of a request at a time.
LEMMA FieldUpdates ==
    ASSUME NEW c \in Call
    PROVE  /\ \A p \in Phases : [c EXCEPT !.phase = p] \in Call
           /\ \A n \in 0..MaxLeases : [c EXCEPT !.id = n] \in Call
           /\ [c EXCEPT !.wait = 0] \in Call
           /\ \A n \in Int : [c EXCEPT !.wait = n] \in Call
           /\ \A v \in Operations : [c EXCEPT !.op = v] \in Call
           /\ \A v \in Capabilities : [c EXCEPT !.cap = v] \in Call
           /\ \A n \in Nat : [c EXCEPT !.until = n] \in Call
           /\ \A v \in Statuses : [c EXCEPT !.status = v] \in Call
  BY DEF Call

\* A step of handler h leaves the other requests alone.
Only(h) ==
    /\ call' \in [Handlers -> Call]
    /\ \A g \in Handlers \ {h} : call'[g] = call[g]

LEMMA Updated ==
    ASSUME TypeOK, NEW h \in Handlers, NEW k \in Call, call' = [call EXCEPT ![h] = k]
    PROVE  Only(h) /\ call'[h] = k
  BY DEF TypeOK, Only

LEMMA ReplyIsCall ==
    ASSUME TypeOK, NEW h \in Handlers, NEW status \in Statuses, Reply(h, status)
    PROVE  /\ Only(h) /\ call'[h].phase = "reply"
           /\ IF call[h].op = "allocate"
              THEN /\ call'[h].op = "allocate" /\ call'[h].id = call[h].id
                   /\ call'[h].status = status
              ELSE call'[h].op = "none" /\ call'[h].id = 0
  <1> DEFINE c == call[h]
  <1>1. c \in Call
    BY DEF TypeOK
  <1>2. call' = [call EXCEPT ![h] =
            IF c.op = "allocate"
            THEN [c EXCEPT !.phase = "reply", !.wait = 0, !.until = 0, !.status = status]
            ELSE [Idle EXCEPT !.phase = "reply", !.status = status]]
    BY DEF Reply, TypeOK
  <1>3. CASE c.op = "allocate"
    <2> DEFINE k == [c EXCEPT !.phase = "reply", !.wait = 0, !.until = 0, !.status = status]
    <2>1. [c EXCEPT !.phase = "reply"] \in Call
      BY <1>1, FieldUpdates DEF Phases
    <2>2. [[c EXCEPT !.phase = "reply"] EXCEPT !.wait = 0] \in Call
      BY <2>1, FieldUpdates
    <2>3. [[[c EXCEPT !.phase = "reply"] EXCEPT !.wait = 0] EXCEPT !.until = 0] \in Call
      BY <2>2, FieldUpdates
    <2>4. [[[[c EXCEPT !.phase = "reply"] EXCEPT !.wait = 0] EXCEPT !.until = 0]
              EXCEPT !.status = status] \in Call
      BY <2>3, FieldUpdates
    <2>5. k = [[[[c EXCEPT !.phase = "reply"] EXCEPT !.wait = 0] EXCEPT !.until = 0]
                  EXCEPT !.status = status]
      OBVIOUS
    <2>6. k.phase = "reply" /\ k.op = c.op /\ k.id = c.id /\ k.status = status
      BY <1>1 DEF Call
    <2>7. call' = [call EXCEPT ![h] = k] /\ k \in Call
      BY <1>2, <1>3, <2>4, <2>5
    <2> HIDE DEF k
    <2> QED BY <2>6, <2>7, <1>3, Updated
  <1>4. CASE c.op # "allocate"
    <2> DEFINE k == [Idle EXCEPT !.phase = "reply", !.status = status]
    <2>1. k \in Call /\ k.phase = "reply" /\ k.op = "none" /\ k.id = 0
      BY IdleIsCall DEF Call, Phases, Idle
    <2>2. call' = [call EXCEPT ![h] = k]
      BY <1>2, <1>4
    <2> HIDE DEF k
    <2> QED BY <2>1, <2>2, <1>4, Updated
  <1> QED BY <1>3, <1>4

LEMMA PhaseIsCall ==
    ASSUME TypeOK, NEW h \in Handlers, NEW p \in Phases, call' = [call EXCEPT ![h].phase = p]
    PROVE  /\ Only(h) /\ call'[h].phase = p /\ call'[h].op = call[h].op
           /\ call'[h].id = call[h].id
  <1> DEFINE k == [call[h] EXCEPT !.phase = p]
  <1>1. call[h] \in Call
    BY DEF TypeOK
  <1>2. k \in Call /\ k.phase = p /\ k.op = call[h].op /\ k.id = call[h].id
    BY <1>1 DEF Call
  <1>3. call' = [call EXCEPT ![h] = k]
    OBVIOUS
  <1> HIDE DEF k
  <1> QED BY <1>2, <1>3, Updated

GrantCall(h, n, t) ==
    call' = [call EXCEPT ![h].phase = "schedule", ![h].id = n, ![h].wait = 0, ![h].until = t]

LEMMA GrantIsCall ==
    ASSUME TypeOK, NEW h \in Handlers, NEW n \in 0..MaxLeases, NEW t \in Nat,
           GrantCall(h, n, t)
    PROVE  /\ Only(h) /\ call'[h].phase = "schedule" /\ call'[h].op = call[h].op
           /\ call'[h].id = n /\ call'[h].until = t
  <1> DEFINE c == call[h]
             k == [[[[c EXCEPT !.phase = "schedule"] EXCEPT !.id = n] EXCEPT !.wait = 0]
                      EXCEPT !.until = t]
  <1>1. c \in Call
    BY DEF TypeOK
  <1>2. [c EXCEPT !.phase = "schedule"] \in Call
    BY <1>1, FieldUpdates DEF Phases
  <1>3. [[c EXCEPT !.phase = "schedule"] EXCEPT !.id = n] \in Call
    BY <1>2, FieldUpdates
  <1>4. [[[c EXCEPT !.phase = "schedule"] EXCEPT !.id = n] EXCEPT !.wait = 0] \in Call
    BY <1>3, FieldUpdates
  <1>5. k \in Call
    BY <1>4, FieldUpdates
  <1>6. k.phase = "schedule" /\ k.id = n /\ k.until = t /\ k.op = c.op
    BY <1>1 DEF Call
  <1>7. call' = [call EXCEPT ![h] = k]
    BY DEF GrantCall
  <1> HIDE DEF k
  <1> QED BY <1>5, <1>6, <1>7, Updated

LEMMA RenewIsCall ==
    ASSUME TypeOK, NEW h \in Handlers, NEW t \in Nat,
           call' = [call EXCEPT ![h].phase = "schedule", ![h].until = t]
    PROVE  /\ Only(h) /\ call'[h].phase = "schedule" /\ call'[h].op = call[h].op
           /\ call'[h].id = call[h].id /\ call'[h].until = t
  <1> DEFINE c == call[h]
             k == [[c EXCEPT !.phase = "schedule"] EXCEPT !.until = t]
  <1>1. c \in Call
    BY DEF TypeOK
  <1>2. [c EXCEPT !.phase = "schedule"] \in Call
    BY <1>1, FieldUpdates DEF Phases
  <1>3. k \in Call
    BY <1>2, FieldUpdates
  <1>4. k.phase = "schedule" /\ k.id = c.id /\ k.until = t /\ k.op = c.op
    BY <1>1 DEF Call
  <1>5. call' = [call EXCEPT ![h] = k]
    OBVIOUS
  <1> HIDE DEF k
  <1> QED BY <1>3, <1>4, <1>5, Updated

ReceiveCall(h, op, c, id, wait) ==
    call' = [call EXCEPT ![h] = [Idle EXCEPT !.phase = "call", !.op = op, !.cap = c,
                                             !.id = id, !.wait = wait]]

\* A request that is taken on: an allocation has no lease yet and an id to come.
LEMMA ReceiveIsCall ==
    ASSUME TypeOK, NEW h \in Handlers, Receive(h)
    PROVE  /\ Only(h) /\ listening /\ call[h].phase = "idle" /\ call'[h].phase = "call"
           /\ call'[h].op # "none" /\ call'[h].id < nextLease
           /\ call'[h].op = "allocate" =>
                /\ call'[h].id = 0
                /\ nextLease + Cardinality(Admitted) <= MaxLeases
  <1>1. PICK op \in {"allocate", "renew", "release"}, c \in Capabilities,
             id \in 0..MaxLeases, s \in Seconds :
          /\ id < nextLease
          /\ id # 0 <=> op \in {"renew", "release"}
          /\ op = "allocate" => nextLease + Cardinality(Admitted) <= MaxLeases
          /\ ReceiveCall(h, op, c, id, Duration(s))
    <2>1. PICK op \in {"allocate", "renew", "release"}, c \in Capabilities,
               id \in 0..MaxLeases, s \in Seconds :
            /\ credential[c] = "live"
            /\ id < nextLease
            /\ id # 0 <=> op \in {"renew", "release"}
            /\ IF op = "allocate"
               THEN WaitAccepted(Duration(s)) /\ nextLease + Cardinality(Admitted) <= MaxLeases
               ELSE Duration(s) = 0
            /\ call' = [call EXCEPT ![h] = [Idle EXCEPT !.phase = "call", !.op = op, !.cap = c,
                                                        !.id = id, !.wait = Duration(s)]]
      BY DEF Receive
    <2>2. ReceiveCall(h, op, c, id, Duration(s))
      BY <2>1 DEF ReceiveCall
    <2> QED BY <2>1, <2>2
  <1> DEFINE k == [Idle EXCEPT !.phase = "call", !.op = op, !.cap = c, !.id = id,
                               !.wait = Duration(s)]
             k1 == [Idle EXCEPT !.phase = "call"]
             k2 == [k1 EXCEPT !.op = op]
             k3 == [k2 EXCEPT !.cap = c]
             k4 == [k3 EXCEPT !.id = id]
  <1>2. k1 \in Call
    BY IdleIsCall, FieldUpdates DEF Phases
  <1>3. k2 \in Call
    BY <1>2, FieldUpdates DEF Operations
  <1>4. k3 \in Call
    BY <1>3, FieldUpdates
  <1>5. k4 \in Call
    BY <1>4, FieldUpdates
  <1>6. Duration(s) \in Int
    BY DurationIsInt
  <1>7. [k4 EXCEPT !.wait = Duration(s)] \in Call
    <2> HIDE DEF k4
    <2> QED BY <1>5, <1>6, FieldUpdates
  <1>8. k = [k4 EXCEPT !.wait = Duration(s)]
    OBVIOUS
  <1>9. k.phase = "call" /\ k.op = op /\ k.id = id
    BY IdleIsCall DEF Call
  <1>10. k \in Call /\ call' = [call EXCEPT ![h] = k]
    BY <1>1, <1>7, <1>8 DEF ReceiveCall
  <1> HIDE DEF k
  <1>11. Only(h) /\ call'[h] = k
    BY <1>10, Updated
  <1> QED BY <1>1, <1>9, <1>11 DEF Receive, Accept, Busy

-----------------------------------------------------------------------------
(* What the steps of a handler do to its request.  They leave the process  *)
(* as it is; only a grant takes a lease id.                                 *)

Takes(h) ==
    /\ listening /\ call[h].phase = "idle" /\ call'[h].phase = "call"
    /\ call'[h].op # "none" /\ call'[h].id < nextLease
    /\ call'[h].op = "allocate" =>
         call'[h].id = 0 /\ nextLease + Cardinality(Admitted) <= MaxLeases
    /\ nextLease' = nextLease

Grants(h) ==
    /\ call[h].op = "allocate" /\ call[h].phase \in {"call", "waiting"}
    /\ call'[h].phase = "schedule" /\ call'[h].op = "allocate" /\ call'[h].id = nextLease
    /\ nextLease \in 1..MaxLeases /\ nextLease' = nextLease + 1

Moves(h) ==
    /\ \/ call[h].phase = "call" /\ call'[h].phase = "waiting" /\ call[h].op = "allocate"
       \/ /\ call[h].phase = "call" /\ call'[h].phase = "schedule" /\ call[h].op = "renew"
          /\ call[h].id # 0
       \/ call[h].phase = "schedule" /\ call'[h].phase = "undo" /\ call[h].op = "allocate"
    /\ call'[h].op = call[h].op /\ call'[h].id = call[h].id
    /\ nextLease' = nextLease

Replies(h) ==
    /\ call[h].phase # "idle" \/ listening
    /\ call[h].phase # "reply"
    /\ call'[h].phase = "reply"
    /\ IF call[h].op = "allocate"
       THEN call'[h].op = "allocate" /\ call'[h].id = call[h].id
       ELSE call'[h].op = "none" /\ call'[h].id = 0
    /\ nextLease' = nextLease

Delivers(h) ==
    call[h].phase = "reply" /\ call'[h] = Idle /\ nextLease' = nextLease

Serves(h) ==
    /\ Only(h) /\ UNCHANGED process
    /\ Takes(h) \/ Grants(h) \/ Moves(h) \/ Replies(h) \/ Delivers(h)

HandlerNext(h) == Receive(h) \/ Administer(h) \/ Inspect(h) \/ Handle(h) \/ Deliver(h)

\* An allocation that was admitted finds the next id within the bound.
LEMMA AdmittedIsCounted ==
    ASSUME IdsSuffice, TypeOK, NEW h \in Handlers, h \in Admitted
    PROVE  nextLease \in 1..MaxLeases
  <1>1. IsFiniteSet(Admitted)
    BY FS_Subset, DaemonAssumption DEF Admitted
  <1>2. Cardinality(Admitted) \in Nat /\ Cardinality(Admitted) # 0
    BY <1>1, FS_CardinalityType, FS_EmptySet
  <1> QED BY <1>2, DaemonAssumption DEF IdsSuffice, TypeOK

LEMMA HandlerServes ==
    ASSUME TypeOK, CallsCarry, IdsSuffice, NEW h \in Handlers, HandlerNext(h)
    PROVE  Serves(h)
  <1> USE DEF Serves
  <1>1. CASE Receive(h)
    BY <1>1, ReceiveIsCall DEF Receive, Takes, tables
  <1>2. CASE Administer(h)
    <2>1. Reply(h, "none") /\ UNCHANGED <<process, nextLease>> /\ call[h].phase = "idle" /\ listening
      BY <1>2 DEF Administer, Accept, Busy
    <2> QED BY <2>1, ReplyIsCall DEF Replies, Statuses
  <1>3. CASE Inspect(h)
    <2>1. Reply(h, "none") /\ UNCHANGED <<process, nextLease>> /\ call[h].phase = "idle" /\ listening
      BY <1>3 DEF Inspect, Accept, Busy, tables
    <2> QED BY <2>1, ReplyIsCall DEF Replies, Statuses
  <1>4. CASE Handle(h)
    <2>1. CASE ManagerFails(h)
      BY <2>1, ReplyIsCall DEF ManagerFails, Replies, Statuses, tables
    <2>2. CASE Grant(h)
      <3>1. h \in Admitted
        BY <2>2 DEF Grant, Admitted
      <3>2. nextLease \in 1..MaxLeases
        BY <3>1, AdmittedIsCounted
      <3>3. PICK ttl \in 1..MaxTTL : GrantCall(h, nextLease, clock + ttl)
        BY <2>2 DEF Grant, GrantCall
      <3>4. nextLease \in 0..MaxLeases /\ clock + ttl \in Nat
        BY <3>2, DaemonAssumption DEF TypeOK
      <3> QED BY <2>2, <3>2, <3>3, <3>4, GrantIsCall DEF Grant, Grants
    <2>3. CASE Exhausted(h)
      <3>1. CASE Reply(h, "error")
        BY <2>3, <3>1, ReplyIsCall DEF Exhausted, Replies, Statuses, tables, At
      <3>2. CASE call' = [call EXCEPT ![h].phase = "waiting"]
        BY <2>3, <3>2, PhaseIsCall DEF Exhausted, Moves, Phases, tables, At
      <3> QED BY <2>3, <3>1, <3>2 DEF Exhausted
    <2>4. CASE WaitEnds(h)
      BY <2>4, ReplyIsCall DEF WaitEnds, Replies, Statuses, tables
    <2>5. CASE RenewCall(h)
      <3>1. CASE Reply(h, "error")
        BY <2>5, <3>1, ReplyIsCall DEF RenewCall, Replies, Statuses, At
      <3>2. CASE \E l \in Active, ttl \in 1..MaxTTL :
                   /\ l.id = call[h].id
                   /\ call' = [call EXCEPT ![h].phase = "schedule", ![h].until = clock + ttl]
        <4>1. PICK l \in Active, ttl \in 1..MaxTTL :
                   /\ l.id = call[h].id
                   /\ call' = [call EXCEPT ![h].phase = "schedule", ![h].until = clock + ttl]
          BY <3>2
        <4>2. clock + ttl \in Nat /\ l.id # 0
          BY DaemonAssumption DEF TypeOK, Active, Lease
        <4> QED BY <2>5, <4>1, <4>2, RenewIsCall DEF RenewCall, Moves, At
      <3> QED BY <2>5, <3>1, <3>2 DEF RenewCall
    <2>6. CASE Schedule(h)
      BY <2>6, ReplyIsCall DEF Schedule, Replies, Statuses, tables
    <2>7. CASE ScheduleFails(h)
      <3>1. CASE Reply(h, "error")
        BY <2>7, <3>1, ReplyIsCall DEF ScheduleFails, Replies, Statuses, tables
      <3>2. CASE call[h].op = "allocate" /\ call' = [call EXCEPT ![h].phase = "undo"]
        BY <2>7, <3>2, PhaseIsCall DEF ScheduleFails, Moves, Phases, tables
      <3> QED BY <2>7, <3>1, <3>2 DEF ScheduleFails
    <2>8. CASE Undo(h)
      BY <2>8, ReplyIsCall DEF Undo, Replies, Statuses
    <2>9. CASE Release(h)
      <3>1. Reply(h, "error") \/ Reply(h, "ok")
        BY <2>9 DEF Release
      <3> QED BY <2>9, <3>1, ReplyIsCall DEF Release, Replies, Statuses, At
    <2> QED BY <1>4, <2>1, <2>2, <2>3, <2>4, <2>5, <2>6, <2>7, <2>8, <2>9 DEF Handle
  <1>5. CASE Deliver(h)
    BY <1>5, IdleIsCall, Updated DEF Deliver, Delivers, tables
  <1> QED BY <1>1, <1>2, <1>3, <1>4, <1>5 DEF HandlerNext

\* Steps of the process, which leave every request as it is, and its end.
ProcessNext ==
    \/ Tick \/ Start \/ Restore \/ Serve \/ RunJob \/ ManagerReap
    \/ Shutdown \/ Fails \/ Drained \/ DrainTimesOut \/ CloseJobs \/ CloseManager

LEMMA NextCases ==
    ASSUME [Next]_vars
    PROVE  \/ ProcessNext
           \/ \E h \in Handlers : HandlerNext(h)
           \/ Ends
           \/ UNCHANGED vars
  BY DEF Next, ProcessNext, HandlerNext, Stopping, Exit, Crash

LEMMA ProcessKeepsCalls ==
    ASSUME ProcessNext
    PROVE  call' = call /\ nextLease' = nextLease
  BY DEF ProcessNext, Tick, Start, Restore, Serve, RunJob, ManagerReap, Shutdown, Fails,
         Drained, DrainTimesOut, CloseJobs, CloseManager, tables

-----------------------------------------------------------------------------
(* The invariant, conjunct by conjunct. *)

LEMMA CallsStep ==
    ASSUME IInv, [Next]_vars
    PROVE  call' \in [Handlers -> Call] /\ CallsCarry' /\ nextLease' \in 1..(MaxLeases + 1)
  <1> USE DEF IInv
  <1>1. CASE ProcessNext
    BY <1>1, ProcessKeepsCalls DEF TypeOK, CallsCarry, CarriesOf
  <1>2. ASSUME NEW h \in Handlers, HandlerNext(h)
        PROVE  call' \in [Handlers -> Call] /\ CallsCarry' /\ nextLease' \in 1..(MaxLeases + 1)
    <2>1. Serves(h)
      BY <1>2, HandlerServes
    <2>2. nextLease \in 1..(MaxLeases + 1) /\ MaxLeases \in Nat
      BY DaemonAssumption DEF TypeOK
    <2>3. nextLease' \in 1..(MaxLeases + 1) /\ nextLease <= nextLease'
      BY <2>1, <2>2 DEF Serves, Takes, Grants, Moves, Replies, Delivers
    <2>4. \A g \in Handlers : call[g].id \in Nat /\ CarriesOf(call[g])
      BY DaemonAssumption DEF TypeOK, Call, CallsCarry
    <2>5. \A g \in Handlers \ {h} : CarriesOf(call[g])'
      BY <2>1, <2>2, <2>3, <2>4 DEF Serves, Only, CarriesOf
    <2>6. CarriesOf(call[h])'
      <3>1. CASE Takes(h)
        BY <3>1, <2>2, <2>3, <2>4 DEF Takes, CarriesOf
      <3>2. CASE Grants(h)
        BY <3>2, <2>2, <2>3, <2>4 DEF Grants, CarriesOf
      <3>3. CASE Moves(h)
        BY <3>3, <2>2, <2>3, <2>4 DEF Moves, CarriesOf
      <3>4. CASE Replies(h)
        BY <3>4, <2>2, <2>3, <2>4 DEF Replies, CarriesOf
      <3>5. CASE Delivers(h)
        BY <3>5, <2>2, <2>3 DEF Delivers, CarriesOf, Idle
      <3> QED BY <2>1, <3>1, <3>2, <3>3, <3>4, <3>5 DEF Serves
    <2> QED BY <2>1, <2>3, <2>5, <2>6 DEF Serves, Only, CallsCarry
  <1>3. CASE Ends
    BY <1>3, IdleIsCall DEF Ends, TypeOK, CallsCarry, CarriesOf, Idle, tables
  <1>4. CASE UNCHANGED vars
    BY <1>4 DEF vars, tables, TypeOK, CallsCarry, CarriesOf
  <1> QED BY <1>1, <1>2, <1>3, <1>4, NextCases

LEMMA IdsStep ==
    ASSUME IInv, [Next]_vars
    PROVE  IdsSuffice'
  <1> USE DEF IInv
  <1>1. IsFiniteSet(Admitted) /\ Cardinality(Admitted) \in Nat
    BY FS_Subset, FS_CardinalityType, DaemonAssumption DEF Admitted
  <1>2. MaxLeases \in Nat /\ nextLease \in Nat
    BY DaemonAssumption DEF TypeOK
  <1>3. ASSUME nextLease' = nextLease, Admitted' \subseteq Admitted
        PROVE  IdsSuffice'
    <2>1. Cardinality(Admitted') <= Cardinality(Admitted) /\ Cardinality(Admitted') \in Nat
      BY <1>1, <1>3, FS_Subset, FS_CardinalityType
    <2> QED BY <1>1, <1>2, <1>3, <2>1 DEF IdsSuffice
  <1>4. CASE ProcessNext
    BY <1>3, <1>4, ProcessKeepsCalls DEF Admitted
  <1>5. ASSUME NEW h \in Handlers, HandlerNext(h)
        PROVE  IdsSuffice'
    <2>1. Serves(h)
      BY <1>5, HandlerServes
    <2>2. CASE Takes(h) /\ call'[h].op = "allocate"
      <3>1. Admitted' \subseteq Admitted \cup {h}
        BY <2>1 DEF Serves, Only, Admitted
      <3>2. h \notin Admitted
        BY <2>2 DEF Takes, Admitted
      <3>3. IsFiniteSet(Admitted \cup {h})
            /\ Cardinality(Admitted \cup {h}) = Cardinality(Admitted) + 1
        BY <1>1, <3>2, FS_AddElement
      <3>4. Cardinality(Admitted') <= Cardinality(Admitted) + 1 /\ Cardinality(Admitted') \in Nat
        BY <3>1, <3>3, FS_Subset, FS_CardinalityType
      <3> QED BY <1>1, <1>2, <2>2, <3>4 DEF Takes, IdsSuffice
    <2>3. CASE Grants(h)
      <3>1. h \in Admitted /\ Admitted' \subseteq Admitted \ {h}
        BY <2>1, <2>3 DEF Serves, Only, Grants, Admitted
      <3>2. IsFiniteSet(Admitted \ {h})
            /\ Cardinality(Admitted \ {h}) = Cardinality(Admitted) - 1
        BY <1>1, <3>1, FS_RemoveElement
      <3>3. Cardinality(Admitted') <= Cardinality(Admitted) - 1 /\ Cardinality(Admitted') \in Nat
        BY <3>1, <3>2, FS_Subset, FS_CardinalityType
      <3> QED BY <1>1, <1>2, <2>3, <3>3 DEF Grants, IdsSuffice
    <2>4. CASE ~(Takes(h) /\ call'[h].op = "allocate") /\ ~Grants(h)
      <3>1. Admitted' \subseteq Admitted
        BY <2>1, <2>4 DEF Serves, Only, Takes, Moves, Replies, Delivers, Admitted, Idle
      <3> QED BY <1>3, <2>1, <2>4, <3>1 DEF Serves, Takes, Moves, Replies, Delivers
    <2> QED BY <2>2, <2>3, <2>4
  <1>6. CASE Ends
    BY <1>3, <1>6 DEF Ends, Admitted, Idle, tables
  <1>7. CASE UNCHANGED vars
    BY <1>3, <1>7 DEF vars, tables, Admitted
  <1> QED BY <1>4, <1>5, <1>6, <1>7, NextCases

LEMMA DrainStep ==
    ASSUME IInv, [Next]_vars
    PROVE  DrainIsDeaf'
  <1> USE DEF IInv
  <1>1. CASE ProcessNext
    <2>1. call' = call
      BY <1>1, ProcessKeepsCalls
    <2>2. CASE Drained
      BY <2>1, <2>2 DEF Drained, DrainIsDeaf, Busy, CallsCarry, CarriesOf
    <2>3. CASE Tick \/ Restore \/ RunJob \/ ManagerReap \/ CloseJobs \/ CloseManager
      <3>1. proc' = proc /\ listening' = listening
        BY <2>3 DEF Tick, Restore, RunJob, ManagerReap, CloseJobs, CloseManager, process
      <3> QED BY <2>1, <3>1 DEF DrainIsDeaf
    <2>4. CASE Start
      BY <2>1, <2>4 DEF Start, DrainIsDeaf
    <2>5. CASE Serve \/ Shutdown \/ Fails \/ DrainTimesOut
      <3>1. CASE Serve
        BY <3>1 DEF Serve, DrainIsDeaf
      <3>2. CASE Shutdown
        BY <3>2 DEF Shutdown, DrainIsDeaf
      <3>3. CASE Fails \/ DrainTimesOut
        BY <3>3 DEF Fails, DrainTimesOut, DrainIsDeaf
      <3> QED BY <2>5, <3>1, <3>2, <3>3
    <2> QED BY <1>1, <2>2, <2>3, <2>4, <2>5 DEF ProcessNext
  <1>2. ASSUME NEW h \in Handlers, HandlerNext(h)
        PROVE  DrainIsDeaf'
    <2>1. Serves(h)
      BY <1>2, HandlerServes
    <2>2. listening \/ call[h].phase # "idle"
      BY <2>1 DEF Serves, Takes, Grants, Moves, Replies, Delivers
    <2>3. proc \notin {"down", "opening", "closing"}
      BY <2>2 DEF DrainIsDeaf, Idle
    <2> QED BY <2>1, <2>3 DEF Serves, DrainIsDeaf, process
  <1>3. CASE Ends
    BY <1>3 DEF Ends, DrainIsDeaf
  <1>4. CASE UNCHANGED vars
    BY <1>4 DEF vars, process, DrainIsDeaf
  <1> QED BY <1>1, <1>2, <1>3, <1>4, NextCases

\* The rows only shrink, except that a grant adds one and a renewal replaces one.
GrantedRow(h, ttl) ==
    /\ call[h].op = "allocate" /\ call'[h].phase = "schedule" /\ call'[h].until = clock + ttl
    /\ call'[h].id = nextLease /\ nextLease' = nextLease + 1 /\ nextLease \in 1..MaxLeases
    /\ rows' = Active \union {[id |-> nextLease, cap |-> call[h].cap, until |-> clock + ttl]}

RenewedRow(h, l, ttl) ==
    /\ call[h].phase = "call" /\ call'[h].phase = "schedule" /\ call'[h].until = clock + ttl
    /\ call'[h].id = l.id /\ nextLease' = nextLease
    /\ rows' = Without(l.id) \union {[l EXCEPT !.until = clock + ttl]}

RowsGrow ==
    \E h \in Handlers :
        /\ Only(h) /\ call[h].phase \in {"call", "waiting"}
        /\ UNCHANGED <<process, credential, book, clock>>
        /\ \E ttl \in 1..MaxTTL :
            \/ GrantedRow(h, ttl)
            \/ \E l \in Active : l.cap = call[h].cap /\ RenewedRow(h, l, ttl)

LEMMA RowsChange ==
    ASSUME TypeOK, IdsSuffice, [Next]_vars
    PROVE  rows' \subseteq rows \/ RowsGrow
  <1>1. CASE ProcessNext
    BY <1>1 DEF ProcessNext, Tick, Start, Restore, Serve, RunJob, ManagerReap, Shutdown, Fails,
       Drained, DrainTimesOut, CloseJobs, CloseManager, tables, Active
  <1>2. ASSUME NEW h \in Handlers, HandlerNext(h)
        PROVE  rows' \subseteq rows \/ RowsGrow
    <2>1. CASE Grant(h)
      <3>1. h \in Admitted
        BY <2>1 DEF Grant, Admitted
      <3>2. nextLease \in 1..MaxLeases
        BY <3>1, AdmittedIsCounted
      <3>3. PICK ttl \in 1..MaxTTL :
              /\ rows' = Active \union {[id |-> nextLease, cap |-> call[h].cap, until |-> clock + ttl]}
              /\ call' = [call EXCEPT ![h].phase = "schedule", ![h].id = nextLease,
                                      ![h].wait = 0, ![h].until = clock + ttl]
        BY <2>1 DEF Grant
      <3>4. nextLease \in 0..MaxLeases /\ clock + ttl \in Nat
        BY <3>2, DaemonAssumption DEF TypeOK
      <3>5. /\ Only(h) /\ call'[h].phase = "schedule" /\ call'[h].until = clock + ttl
            /\ call'[h].id = nextLease
        <4>1. GrantCall(h, nextLease, clock + ttl)
          BY <3>3 DEF GrantCall
        <4> QED BY <3>4, <4>1, GrantIsCall
      <3>6. GrantedRow(h, ttl)
        BY <2>1, <3>2, <3>3, <3>5 DEF Grant, GrantedRow
      <3> QED BY <2>1, <3>5, <3>6 DEF Grant, RowsGrow
    <2>2. CASE RenewCall(h) /\ rows' # rows
      <3>1. PICK l \in Active, ttl \in 1..MaxTTL :
              /\ l.id = call[h].id /\ l.cap = call[h].cap
              /\ rows' = Without(l.id) \union {[l EXCEPT !.until = clock + ttl]}
              /\ call' = [call EXCEPT ![h].phase = "schedule", ![h].until = clock + ttl]
        BY <2>2 DEF RenewCall
      <3>2. clock + ttl \in Nat
        BY DaemonAssumption DEF TypeOK
      <3>3. Only(h) /\ RenewedRow(h, l, ttl)
        BY <2>2, <3>1, <3>2, RenewIsCall DEF RenewCall, RenewedRow, At
      <3> QED BY <2>2, <3>1, <3>3 DEF RenewCall, RowsGrow, At
    <2>3. CASE ~Grant(h) /\ ~(RenewCall(h) /\ rows' # rows)
      BY <1>2, <2>3 DEF HandlerNext, Receive, Administer, Inspect, Deliver, Handle, ManagerFails,
         Exhausted, WaitEnds, Schedule, ScheduleFails, Undo, Release, tables, Without
    <2> QED BY <2>1, <2>2, <2>3
  <1>3. CASE Ends
    BY <1>3 DEF Ends, tables
  <1>4. CASE UNCHANGED vars
    BY <1>4 DEF vars, tables
  <1> QED BY <1>1, <1>2, <1>3, <1>4, NextCases

LEMMA NewRows ==
    ASSUME TypeOK, NEW l \in rows, NEW t \in Nat
    PROVE  /\ [l EXCEPT !.until = t] \in Lease
           /\ [l EXCEPT !.until = t].id = l.id /\ [l EXCEPT !.until = t].until = t
  BY DEF TypeOK, Lease

LEMMA RowsStep ==
    ASSUME IInv, [Next]_vars
    PROVE  /\ rows' \subseteq Lease
           /\ \A l, m \in rows' : l.id = m.id => l = m
           /\ \A l \in rows' : l.id < nextLease'
  <1> USE DEF IInv
  <1>1. nextLease <= nextLease' /\ nextLease \in Nat /\ nextLease' \in Nat
    <2>1. nextLease \in Nat
      BY DaemonAssumption DEF TypeOK
    <2>2. CASE ProcessNext
      BY <2>1, <2>2, ProcessKeepsCalls
    <2>3. ASSUME NEW h \in Handlers, HandlerNext(h)
          PROVE  nextLease' = nextLease \/ nextLease' = nextLease + 1
      BY <2>3, HandlerServes DEF Serves, Takes, Grants, Moves, Replies, Delivers
    <2>4. CASE Ends \/ UNCHANGED vars
      BY <2>1, <2>4 DEF Ends, vars, tables
    <2> QED BY <2>1, <2>2, <2>3, <2>4, NextCases
  <1>2. CASE rows' \subseteq rows
    BY <1>1, <1>2 DEF TypeOK, RowsAreNumbered, Lease
  <1>3. ASSUME NEW h \in Handlers, NEW ttl \in 1..MaxTTL, GrantedRow(h, ttl)
        PROVE  /\ rows' \subseteq Lease
               /\ \A l, m \in rows' : l.id = m.id => l = m
               /\ \A l \in rows' : l.id < nextLease'
    <2> DEFINE new == [id |-> nextLease, cap |-> call[h].cap, until |-> clock + ttl]
    <2>1. clock + ttl \in Nat /\ call[h].cap \in Capabilities
      BY DaemonAssumption DEF TypeOK, Call
    <2>2. new \in Lease /\ new.id = nextLease
      BY <1>3, <2>1 DEF GrantedRow, Lease
    <2>3. rows' = Active \union {new} /\ nextLease' = nextLease + 1 /\ Active \subseteq rows
      BY <1>3 DEF GrantedRow, Active
    <2>4. \A l \in rows : l \in Lease /\ l.id \in Nat /\ l.id < nextLease
      BY DEF TypeOK, Lease, RowsAreNumbered
    <2> HIDE DEF new
    <2> QED BY <1>1, <2>2, <2>3, <2>4 DEF TypeOK
  <1>4. ASSUME NEW h \in Handlers, NEW ttl \in 1..MaxTTL, NEW l \in Active, RenewedRow(h, l, ttl)
        PROVE  /\ rows' \subseteq Lease
               /\ \A k, m \in rows' : k.id = m.id => k = m
               /\ \A k \in rows' : k.id < nextLease'
    <2> DEFINE new == [l EXCEPT !.until = clock + ttl]
    <2>1. clock + ttl \in Nat /\ l \in rows
      BY DaemonAssumption DEF TypeOK, Active
    <2>2. new \in Lease /\ new.id = l.id
      BY <2>1, NewRows
    <2>3. rows' = Without(l.id) \union {new} /\ nextLease' = nextLease
      BY <1>4 DEF RenewedRow
    <2> HIDE DEF new
    <2> QED BY <2>1, <2>2, <2>3 DEF TypeOK, RowsAreNumbered, Without
  <1> QED BY <1>2, <1>3, <1>4, RowsChange DEF RowsGrow

LEMMA TypeStep ==
    ASSUME IInv, [Next]_vars
    PROVE  TypeOK'
  <1> USE DEF IInv
  <1>1. /\ proc' \in Processes /\ listening' \in BOOLEAN /\ open' \subseteq {"manager", "jobs"}
        /\ restoring' \subseteq Lease /\ jobs' \subseteq Nat
        /\ credential' \in [Capabilities -> {"none", "live", "revoked"}]
        /\ clock' \in 0..MaxTime /\ excused' \subseteq 1..MaxLeases
    <2> USE DaemonAssumption
    <2> DEFINE Shape ==
          /\ proc' \in Processes /\ listening' \in BOOLEAN /\ open' \subseteq {"manager", "jobs"}
          /\ restoring' \subseteq Lease /\ jobs' \subseteq Nat
          /\ credential' \in [Capabilities -> {"none", "live", "revoked"}]
          /\ clock' \in 0..MaxTime /\ excused' \subseteq 1..MaxLeases
    <2>1. \A l \in rows : l \in Lease /\ l.id \in 1..MaxLeases
      BY DEF TypeOK, Lease
    <2>2. \A t \in Nat : JobFor(t) \in Nat
      BY DEF JobFor, Later, TypeOK
    <2>3. CASE ProcessNext
      <3>1. CASE Restore
        BY <2>2, <3>1 DEF Restore, TypeOK, Lease, process, tables
      <3>2. CASE RunJob
        <4>1. Ids(Expired) \subseteq 1..MaxLeases
          BY <2>1 DEF Ids, Expired
        <4>2. /\ jobs' \subseteq jobs /\ (excused' = excused \/ excused' = excused \cup Ids(Expired))
              /\ UNCHANGED <<process, restoring, credential, clock>>
          BY <3>2 DEF RunJob
        <4> QED BY <4>1, <4>2 DEF TypeOK, process
      <3>3. CASE Start
        <4>1. /\ proc' = "opening" /\ open' = {"manager", "jobs"} /\ restoring' \subseteq rows
              /\ UNCHANGED <<listening, jobs, credential, excused, clock>>
          BY <3>3 DEF Start, Active
        <4> QED BY <4>1 DEF TypeOK, Processes
      <3>4. CASE Tick
        BY <3>4 DEF Tick, TypeOK, process, tables, book
      <3>5. CASE ManagerReap \/ Serve \/ Shutdown \/ Fails \/ Drained \/ DrainTimesOut
                   \/ CloseJobs \/ CloseManager
        BY <3>5 DEF ManagerReap, Serve, Shutdown, Fails, Drained, DrainTimesOut, CloseJobs,
           CloseManager, TypeOK, Processes, process, tables, book
      <3> QED BY <2>3, <3>1, <3>2, <3>3, <3>4, <3>5 DEF ProcessNext
    <2>4. ASSUME NEW h \in Handlers, HandlerNext(h)
          PROVE  Shape
      <3>1. CASE Schedule(h)
        BY <2>2, <3>1 DEF Schedule, TypeOK, Call, process, tables
      <3>2. CASE ScheduleFails(h)
        <4>1. call[h].id \in 1..MaxLeases
          BY <3>2 DEF ScheduleFails, TypeOK, Call, CallsCarry, CarriesOf
        <4> QED BY <3>2, <4>1 DEF ScheduleFails, TypeOK, process, tables
      <3>3. CASE Undo(h)
        <4>1. call[h].id \in 1..MaxLeases
          BY <3>3 DEF Undo, TypeOK, Call, CallsCarry, CarriesOf
        <4> QED BY <3>3, <4>1 DEF Undo, TypeOK, process
      <3>4. CASE Administer(h)
        BY <3>4 DEF Administer, TypeOK, process, book
      <3>5. CASE ~Schedule(h) /\ ~ScheduleFails(h) /\ ~Undo(h) /\ ~Administer(h)
        <4>1. UNCHANGED <<process, credential, book, clock>>
          BY <2>4, <3>5 DEF HandlerNext, Receive, Inspect, Deliver, Handle, ManagerFails, Grant,
             Exhausted, WaitEnds, RenewCall, Release, tables
        <4> QED BY <4>1 DEF TypeOK, process, book
      <3> QED BY <3>1, <3>2, <3>3, <3>4, <3>5
    <2>5. CASE Ends
      BY <2>5 DEF Ends, TypeOK, Processes, tables
    <2>6. CASE UNCHANGED vars
      BY <2>6 DEF vars, process, tables, book, TypeOK
    <2> HIDE DEF Shape
    <2>7. Shape
      BY <2>3, <2>4, <2>5, <2>6, NextCases DEF Shape
    <2> QED BY <2>7 DEF Shape
  <1> QED BY <1>1, CallsStep, RowsStep DEF TypeOK

\* The handlers are quiet while the process is down or starting.
LEMMA HandlerIsUp ==
    ASSUME IInv, NEW h \in Handlers, HandlerNext(h)
    PROVE  proc \notin {"down", "opening", "closing"} /\ proc' = proc
  <1>1. Serves(h)
    BY HandlerServes DEF IInv
  <1>2. listening \/ call[h].phase # "idle"
    BY <1>1 DEF Serves, Takes, Grants, Moves, Replies, Delivers
  <1> QED BY <1>1, <1>2 DEF IInv, DrainIsDeaf, Idle, Serves, process

LEMMA NumbersStep ==
    ASSUME IInv, [Next]_vars
    PROVE  RowsAreNumbered'
  <1> USE DEF IInv
  <1>1. ASSUME proc' = "opening"
        PROVE  \A l \in restoring', m \in rows' : l.id = m.id => l = m
    <2>1. CASE Start
      BY <2>1 DEF Start, Active, TypeOK
    <2>2. CASE ProcessNext /\ ~Start
      BY <1>1, <2>2 DEF ProcessNext, Tick, Restore, Serve, RunJob, ManagerReap, Shutdown, Fails,
         Drained, DrainTimesOut, CloseJobs, CloseManager, process, tables, book, Active,
         RowsAreNumbered
    <2>3. ~\E h \in Handlers : HandlerNext(h)
      BY <1>1, HandlerIsUp
    <2>4. ~Ends
      BY <1>1 DEF Ends
    <2>5. CASE UNCHANGED vars
      BY <1>1, <2>5 DEF vars, process, tables, book, RowsAreNumbered
    <2> QED BY <2>1, <2>2, <2>3, <2>4, <2>5, NextCases
  <1> QED BY <1>1, RowsStep DEF RowsAreNumbered

LEMMA RowIds ==
    ASSUME IInv, [Next]_vars
    PROVE  Ids(rows') \subseteq Ids(rows) \union {nextLease}
  <1> USE DEF IInv
  <1>1. CASE rows' \subseteq rows
    BY <1>1 DEF Ids
  <1>2. ASSUME NEW h \in Handlers, NEW ttl \in 1..MaxTTL, GrantedRow(h, ttl)
        PROVE  Ids(rows') \subseteq Ids(rows) \union {nextLease}
    BY <1>2 DEF GrantedRow, Ids, Active
  <1>3. ASSUME NEW h \in Handlers, NEW ttl \in 1..MaxTTL, NEW l \in Active, RenewedRow(h, l, ttl)
        PROVE  Ids(rows') \subseteq Ids(rows)
    <2>1. l \in rows /\ clock + ttl \in Nat
      BY DaemonAssumption DEF TypeOK, Active
    <2>2. [l EXCEPT !.until = clock + ttl].id = l.id
      BY <2>1, NewRows
    <2> QED BY <1>3, <2>1, <2>2 DEF RenewedRow, Ids, Without
  <1> QED BY <1>1, <1>2, <1>3, RowsChange DEF RowsGrow

LEMMA ErrorStep ==
    ASSUME IInv, [Next]_vars
    PROVE  ErrorTakesNothing'
  <1> USE DEF IInv
  <1> SUFFICES ASSUME NEW g \in Handlers, At(g, "reply", "allocate")',
                      ~Succeeds(call[g].status)'
               PROVE  (call[g].id \notin Ids(rows) \ excused)'
    BY DEF ErrorTakesNothing
  <1>1. 0 \notin Ids(rows)'
    BY RowsStep DEF Ids, Lease
  <1>2. CASE call'[g] = call[g] /\ excused \subseteq excused'
    <2>1. call[g].id \notin Ids(rows) \ excused
      BY <1>2 DEF ErrorTakesNothing, At
    <2>2. call[g].id # nextLease
      BY DaemonAssumption DEF TypeOK, Call, CallsCarry, CarriesOf
    <2> QED BY <1>2, <2>1, <2>2, RowIds
  <1>3. CASE ProcessNext
    <2>1. call' = call
      BY <1>3, ProcessKeepsCalls
    <2>2. ~Restore
      BY <2>1 DEF Restore, DrainIsDeaf, At, Idle
    <2>3. excused \subseteq excused'
      BY <1>3, <2>2 DEF ProcessNext, Tick, Start, Serve, RunJob, ManagerReap, Shutdown, Fails,
         Drained, DrainTimesOut, CloseJobs, CloseManager, book
    <2> QED BY <1>2, <2>1, <2>3
  <1>4. ASSUME NEW h \in Handlers, HandlerNext(h)
        PROVE  (call[g].id \notin Ids(rows) \ excused)'
    <2>1. excused \subseteq excused'
      BY <1>4 DEF HandlerNext, Receive, Administer, Inspect, Deliver, Handle, ManagerFails, Grant,
         Exhausted, WaitEnds, RenewCall, Schedule, ScheduleFails, Undo, Release, book
    <2>2. Serves(h)
      BY <1>4, HandlerServes
    <2>3. CASE g # h
      BY <1>2, <2>1, <2>2, <2>3 DEF Serves, Only
    <2>4. CASE g = h
      <3>1. Replies(h)
        BY <2>2, <2>4 DEF Serves, Takes, Grants, Moves, Delivers, Idle, At
      <3>2. call[h].op = "allocate" /\ call'[h].id = call[h].id
        BY <2>4, <3>1 DEF Replies, At
      <3>3. call[h].phase \in {"call", "waiting", "schedule", "undo"}
        BY <3>1, <3>2 DEF TypeOK, Call, Phases, Replies, CallsCarry, CarriesOf, Idle
      <3>4. CASE call[h].phase \in {"call", "waiting"}
        BY <1>1, <2>4, <3>2, <3>4 DEF CallsCarry, CarriesOf
      <3>5. CASE call[h].phase = "schedule"
        <4>1. Schedule(h) \/ ScheduleFails(h)
          BY <1>4, <3>5 DEF HandlerNext, Receive, Accept, Busy, Administer, Inspect, Deliver,
             Handle, ManagerFails, Grant, Exhausted, WaitEnds, RenewCall, Undo, Release, At
        <4>2. CASE Schedule(h)
          BY <2>4, <3>2, <4>2, ReplyIsCall DEF Schedule, Statuses, Succeeds
        <4>3. CASE ScheduleFails(h)
          <5>1. call' = [call EXCEPT ![h].phase = "undo"]
            BY <3>2, <4>3 DEF ScheduleFails
          <5> QED BY <3>1, <5>1, PhaseIsCall DEF Replies, Phases
        <4> QED BY <4>1, <4>2, <4>3
      <3>6. CASE call[h].phase = "undo"
        <4>1. Undo(h)
          BY <1>4, <3>6 DEF HandlerNext, Receive, Accept, Busy, Administer, Inspect, Deliver,
             Handle, ManagerFails, Grant, Exhausted, WaitEnds, RenewCall, Schedule,
             ScheduleFails, Release, At
        <4> QED BY <2>4, <3>2, <4>1 DEF Undo, Ids, Without
      <3> QED BY <3>3, <3>4, <3>5, <3>6
    <2> QED BY <2>3, <2>4
  <1>5. ~Ends
    BY DEF Ends, At, Idle
  <1>6. CASE UNCHANGED vars
    BY <1>2, <1>6 DEF vars, book
  <1> QED BY <1>3, <1>4, <1>5, <1>6, NextCases

\* A job scheduled for the end of a lease collects it, in time or late.
LEMMA JobCovers ==
    ASSUME TypeOK, NEW l \in Lease
    PROVE  Covers(JobFor(l.until), l)
  BY DaemonAssumption DEF TypeOK, Lease, JobFor, Later, Covers

\* A lease that is accounted for stays so as long as what accounts for it stays.
LEMMA StaysAccounted ==
    ASSUME NEW l, Accounted(l), clock' = clock, jobs \subseteq jobs',
           restoring \subseteq restoring', excused \subseteq excused',
           \A h \in Handlers : Answers(h, l) => Answers(h, l)'
    PROVE  Accounted(l)'
  BY DEF Accounted, Covers

LEMMA ProcessAccounts ==
    ASSUME IInv, ProcessNext, NEW l \in rows', proc' # "down"
    PROVE  Accounted(l)'
  <1> USE DEF IInv
  <1>1. call' = call
    BY ProcessKeepsCalls
  <1>2. CASE Start
    BY <1>2 DEF Start, Accounted
  <1>3. CASE ~Start
    <2>1. proc # "down" /\ l \in rows
      BY <1>3 DEF ProcessNext, Tick, Restore, Serve, RunJob, ManagerReap, Shutdown, Fails,
         Drained, DrainTimesOut, CloseJobs, CloseManager, process, tables, Active
    <2>2. Accounted(l) /\ l \in Lease
      BY <2>1 DEF RowsAreAccounted, TypeOK
    <2>3. CASE Restore
      <3>1. PICK r \in restoring :
              /\ jobs' = jobs \union {JobFor(r.until)} /\ restoring' = restoring \ {r}
              /\ excused' = excused \ {r.id} /\ clock' = clock /\ proc = "opening"
        BY <2>3 DEF Restore
      <3>2. CASE l.id = r.id
        <4>1. l = r
          BY <2>1, <3>1, <3>2 DEF RowsAreNumbered
        <4>2. JobFor(l.until) \in jobs'
          BY <3>1, <4>1
        <4> QED
          <5> DEFINE at == JobFor(l.until)
          <5>1. at \in jobs' /\ (at = l.until \/ (l.until < at /\ at <= clock'))
            BY <2>2, <3>1, <4>2, JobCovers DEF Covers
          <5> HIDE DEF at
          <5> QED BY <5>1 DEF Accounted, Covers
      <3>3. CASE l.id # r.id
        BY <1>1, <2>2, <3>1, <3>3 DEF Accounted, Answers, Covers
      <3> QED BY <3>2, <3>3
    <2>4. CASE RunJob
      <3>1. PICK at \in jobs :
              /\ at <= clock /\ jobs' = jobs \ {at} /\ clock' = clock
              /\ restoring' = restoring
              /\ \/ rows' = Active /\ excused' = excused
                 \/ excused' = excused \union Ids(Expired)
        BY <2>4 DEF RunJob
      <3>2. CASE Covers(at, l)
        <4>1. l.until <= clock
          BY <2>2, <3>1, <3>2 DEF Covers, TypeOK, Lease
        <4>2. l \notin Active /\ l \in Expired
          BY <2>1, <2>2, <4>1 DEF Active, Expired, TypeOK, Lease
        <4> QED BY <3>1, <4>2 DEF Ids, Accounted
      <3>3. CASE ~Covers(at, l)
        BY <1>1, <2>2, <3>1, <3>3 DEF Accounted, Answers, Covers
      <3> QED BY <3>2, <3>3
    <2>5. CASE Tick
      <3>1. clock' = clock + 1 /\ jobs' = jobs /\ restoring' = restoring /\ excused' = excused
        BY <2>5 DEF Tick, book
      <3>2. \A at \in jobs : Covers(at, l) => Covers(at, l)'
        BY <3>1 DEF Covers, TypeOK
      <3> QED BY <1>1, <2>2, <3>1, <3>2 DEF Accounted, Answers
    <2>6. CASE ~Restore /\ ~RunJob /\ ~Tick
      <3>1. clock' = clock /\ jobs' = jobs /\ restoring' = restoring /\ excused' = excused
        BY <1>3, <2>6 DEF ProcessNext, Serve, ManagerReap, Shutdown, Fails, Drained,
           DrainTimesOut, CloseJobs, CloseManager, book
      <3> QED BY <1>1, <2>2, <3>1, StaysAccounted DEF Answers
    <2> QED BY <2>3, <2>4, <2>5, <2>6
  <1> QED BY <1>2, <1>3

LEMMA HandlerAccounts ==
    ASSUME IInv, NEW h \in Handlers, HandlerNext(h), NEW l \in rows \intersect rows'
    PROVE  Accounted(l)'
  <1> USE DEF IInv
  <1>1. Accounted(l) /\ l \in Lease
    BY HandlerIsUp DEF RowsAreAccounted, TypeOK
  <1>2. /\ clock' = clock /\ jobs \subseteq jobs' /\ restoring' = restoring
        /\ excused \subseteq excused'
    BY DEF HandlerNext, Receive, Administer, Inspect, Deliver, Handle, ManagerFails, Grant,
       Exhausted, WaitEnds, RenewCall, Schedule, ScheduleFails, Undo, Release, book
  <1>3. Only(h)
    BY HandlerServes DEF Serves
  <1>4. \A g \in Handlers \ {h} : Answers(g, l) => Answers(g, l)'
    BY <1>3 DEF Only, Answers
  <1>5. CASE ~Answers(h, l)
    BY <1>1, <1>2, <1>4, <1>5, StaysAccounted
  <1>6. CASE Answers(h, l)
    <2>1. Schedule(h) \/ ScheduleFails(h) \/ Undo(h)
      BY <1>6 DEF HandlerNext, Answers, Receive, Accept, Busy, Administer, Inspect, Deliver,
         Handle, ManagerFails, Grant, Exhausted, WaitEnds, RenewCall, Release, At
    <2>2. CASE Schedule(h)
      <3> DEFINE at == JobFor(l.until)
      <3>1. at \in jobs'
        BY <1>6, <2>2 DEF Schedule, Answers
      <3>2. at = l.until \/ (l.until < at /\ at <= clock')
        BY <1>1, <1>2, JobCovers DEF Covers
      <3> HIDE DEF at
      <3> QED BY <3>1, <3>2 DEF Accounted, Covers
    <2>3. CASE ScheduleFails(h)
      <3>1. CASE call[h].op = "allocate" /\ call' = [call EXCEPT ![h].phase = "undo"]
        BY <1>6, <3>1, PhaseIsCall DEF Phases, Answers, Accounted
      <3>2. CASE excused' = excused \union {call[h].id}
        BY <1>6, <3>2 DEF Answers, Accounted
      <3> QED BY <2>3, <3>1, <3>2 DEF ScheduleFails
    <2>4. CASE Undo(h)
      BY <1>6, <2>4 DEF Undo, Answers, Accounted, Without
    <2> QED BY <2>1, <2>2, <2>3, <2>4
  <1> QED BY <1>5, <1>6

LEMMA AccountsStep ==
    ASSUME IInv, [Next]_vars
    PROVE  RowsAreAccounted'
  <1> USE DEF IInv
  <1> SUFFICES ASSUME NEW l \in rows', proc' # "down"
               PROVE  Accounted(l)'
    BY DEF RowsAreAccounted
  <1>1. CASE ProcessNext
    BY <1>1, ProcessAccounts
  <1>2. ASSUME NEW h \in Handlers, HandlerNext(h), l \in rows
        PROVE  Accounted(l)'
    BY <1>2, HandlerAccounts
  <1>3. CASE l \notin rows
    <2>1. PICK h \in Handlers, ttl \in 1..MaxTTL :
            \/ GrantedRow(h, ttl)
            \/ \E k \in Active : RenewedRow(h, k, ttl)
      BY <1>3, RowsChange DEF RowsGrow
    <2>2. CASE GrantedRow(h, ttl)
      <3>1. l = [id |-> nextLease, cap |-> call[h].cap, until |-> clock + ttl]
        BY <1>3, <2>2 DEF GrantedRow, Active
      <3>2. Answers(h, l)'
        BY <2>2, <3>1 DEF GrantedRow, Answers
      <3> QED BY <3>2 DEF Accounted
    <2>3. ASSUME NEW k \in Active, RenewedRow(h, k, ttl)
          PROVE  Accounted(l)'
      <3>1. k \in rows /\ clock + ttl \in Nat
        BY DaemonAssumption DEF TypeOK, Active
      <3>2. l = [k EXCEPT !.until = clock + ttl]
        BY <1>3, <2>3 DEF RenewedRow, Without
      <3>3. l.id = k.id /\ l.until = clock + ttl
        BY <3>1, <3>2, NewRows
      <3> QED BY <2>3, <3>3 DEF RenewedRow, Answers, Accounted
    <2> QED BY <2>1, <2>2, <2>3
  <1>4. ~Ends
    BY DEF Ends
  <1>5. CASE UNCHANGED vars
    <2>1. l \in rows /\ proc # "down"
      BY <1>5 DEF vars, process, tables
    <2>2. Accounted(l)
      BY <2>1 DEF RowsAreAccounted
    <2> QED BY <1>5, <2>2, StaysAccounted DEF vars, book, Answers
  <1> QED BY <1>1, <1>2, <1>3, <1>4, <1>5, NextCases

-----------------------------------------------------------------------------
(* The theorems. *)

LEMMA InitIInv == Init => IInv
  <1> SUFFICES ASSUME Init PROVE IInv
    OBVIOUS
  <1>1. TypeOK
    <2>1. call \in [Handlers -> Call]
      BY IdleIsCall DEF Init
    <2>2. /\ rows = {} /\ jobs = {} /\ restoring = {} /\ excused = {}
          /\ proc = "down" /\ clock = 0 /\ nextLease = 1
      BY DEF Init
    <2>3. credential \in [Capabilities -> {"none", "live", "revoked"}]
      BY DEF Init
    <2>4. proc \in Processes /\ listening \in BOOLEAN /\ open \subseteq {"manager", "jobs"}
      BY DEF Init, Processes
    <2>5. nextLease \in 1..(MaxLeases + 1) /\ clock \in 0..MaxTime
      BY <2>2, DaemonAssumption
    <2> QED BY <2>1, <2>2, <2>3, <2>4, <2>5 DEF TypeOK
  <1>2. CallsCarry
    BY DEF Init, CallsCarry, CarriesOf, Idle
  <1>3. IdsSuffice
    <2>1. Admitted = {}
      BY DEF Init, Admitted, Idle
    <2> QED BY <2>1, FS_EmptySet, DaemonAssumption DEF Init, IdsSuffice
  <1>4. RowsAreNumbered /\ DrainIsDeaf /\ RowsAreAccounted /\ ErrorTakesNothing
    BY DEF Init, RowsAreNumbered, DrainIsDeaf, RowsAreAccounted, ErrorTakesNothing, At, Idle
  <1> QED BY <1>1, <1>2, <1>3, <1>4 DEF IInv

LEMMA StepIInv == IInv /\ [Next]_vars => IInv'
  BY TypeStep, NumbersStep, CallsStep, IdsStep, DrainStep, AccountsStep, ErrorStep DEF IInv

\* Every reachable state satisfies the inductive invariant.
THEOREM DaemonInvariance == Spec => []IInv
  BY InitIInv, StepIInv, PTL DEF Spec

\* Every variable keeps its type, and no lease id is in two rows.
THEOREM DaemonTypeCorrect == Spec => []TypeOK
  BY DaemonInvariance, PTL DEF IInv

\* Whatever fails, crashes or overtakes: outside a stopped process each lease has something
\* that will collect it, or a failure that was reported.
THEOREM LeasesHaveJobs == Spec => []LeaseHasJob
  <1>1. IInv => LeaseHasJob
    BY DEF IInv, RowsAreAccounted, Accounted, Answers, LeaseHasJob, Scheduling
  <1> QED BY <1>1, DaemonInvariance, PTL

\* An allocation that is answered with an error has left no lease behind.
THEOREM ErrorsTakeNothing == Spec => []ErrorTakesNothing
  BY DaemonInvariance, PTL DEF IInv

\* After a drain that ended in time no handler is left.
THEOREM DrainsAreQuiet == Spec => []DrainedIsQuiet
  <1>1. IInv => DrainedIsQuiet
    BY DEF IInv, DrainIsDeaf, DrainedIsQuiet, Busy, Idle
  <1> QED BY <1>1, DaemonInvariance, PTL

-----------------------------------------------------------------------------
(* The daemon keeps the LeaseBook.  Beside IInv the refinement needs that  *)
(* a lease in the table has a live capability, so that the promise of      *)
(* LeaseBook!Of is kept by a collection, and that a stopped process has    *)
(* no manager open.                                                        *)

BookInv ==
    /\ proc = "down" => open = {}
    /\ \A l \in rows : credential[l.cap] = "live"

Live == {c \in Capabilities : credential[c] = "live"}

LEMMA LiveStep ==
    ASSUME IInv, BookInv, [Next]_vars
    PROVE  BookInv'
  <1> USE DEF IInv, BookInv
  <1>1. CASE ProcessNext
    BY <1>1 DEF ProcessNext, Tick, Start, Restore, Serve, RunJob, ManagerReap, Shutdown, Fails,
       Drained, DrainTimesOut, CloseJobs, CloseManager, process, tables, Active
  <1>2. ASSUME NEW h \in Handlers, HandlerNext(h)
        PROVE  BookInv'
    <2>1. proc' # "down"
      BY <1>2, HandlerIsUp
    <2>2. CASE Administer(h)
      BY <2>1, <2>2 DEF Administer, TypeOK, Lease
    <2>3. CASE Grant(h)
      BY <2>1, <2>3 DEF Grant, Active
    <2>4. CASE RenewCall(h)
      <3>1. CASE rows' = rows
        BY <2>1, <2>4, <3>1 DEF RenewCall
      <3>2. CASE rows' # rows
        <4>1. PICK l \in Active, ttl \in 1..MaxTTL :
                rows' = Without(l.id) \union {[l EXCEPT !.until = clock + ttl]}
          BY <2>4, <3>2 DEF RenewCall
        <4>2. l \in rows /\ [l EXCEPT !.until = clock + ttl].cap = l.cap
          BY <4>1 DEF Active, TypeOK, Lease
        <4> QED BY <2>1, <2>4, <4>1, <4>2 DEF RenewCall, Without
      <3> QED BY <3>1, <3>2
    <2>5. CASE ~Administer(h) /\ ~Grant(h) /\ ~RenewCall(h)
      BY <1>2, <2>1, <2>5 DEF HandlerNext, Receive, Inspect, Deliver, Handle, ManagerFails,
         Exhausted, WaitEnds, Schedule, ScheduleFails, Undo, Release, tables, Without
    <2> QED BY <2>2, <2>3, <2>4, <2>5
  <1>3. CASE Ends
    BY <1>3 DEF Ends, tables
  <1>4. CASE UNCHANGED vars
    BY <1>4 DEF vars, process, tables
  <1> QED BY <1>1, <1>2, <1>3, <1>4, NextCases

\* Steps that a holder of capabilities does not see.
LEMMA UnseenByBook ==
    ASSUME UNCHANGED <<tables, clock>>, proc = "down" <=> proc' = "down"
    PROVE  UNCHANGED Book!vars
  BY DEF Book!vars, tables

\* Collecting what is over leaves only leases of live capabilities.
LEMMA CollectionIsKept ==
    ASSUME TypeOK, BookInv
    PROVE  /\ Book!Active = Active
           /\ Book!Collected(Active, Live)
  BY DEF Book!Active, Book!Collected, Book!Of, Active, Live, BookInv, TypeOK, Lease

LEMMA ProcessKeepsBook ==
    ASSUME IInv, BookInv, ProcessNext
    PROVE  [Book!Next]_Book!vars
  <1> USE DEF IInv
  <1>1. CASE Tick
    BY <1>1 DEF Tick, tables, process, Book!Advance, Book!Next
  <1>2. CASE Start
    <2>1. Book!Restart
      BY <1>2 DEF Start, Book!Restart, Book!Of, Active, BookInv, TypeOK, Lease
    <2> QED BY <2>1 DEF Book!Next
  <1>3. CASE RunJob \/ ManagerReap
    <2>1. CASE rows' = Active
      <3>1. proc # "down" /\ proc' = proc /\ UNCHANGED <<nextLease, credential, clock>>
        BY <1>3 DEF RunJob, ManagerReap, process, BookInv
      <3>2. Active \in SUBSET rows /\ Live \in SUBSET Live
        BY DEF Active
      <3>3. Book!Collect
        BY <2>1, <3>1, <3>2, CollectionIsKept DEF Book!Collect, Live
      <3> QED BY <3>3 DEF Book!Next
    <2>2. CASE rows' # Active
      <3>1. RunJob /\ UNCHANGED rows
        BY <1>3, <2>2 DEF RunJob, ManagerReap
      <3> QED BY <3>1, UnseenByBook DEF RunJob, process, tables
    <2> QED BY <2>1, <2>2
  <1>4. CASE ~Tick /\ ~Start /\ ~RunJob /\ ~ManagerReap
    <2>1. UNCHANGED <<tables, clock>> /\ (proc = "down" <=> proc' = "down")
      BY <1>4 DEF ProcessNext, Restore, Serve, Shutdown, Fails, Drained, DrainTimesOut,
         CloseJobs, CloseManager, process
    <2> QED BY <2>1, UnseenByBook
  <1> QED BY <1>1, <1>2, <1>3, <1>4

\* A new lease has the next id and a capability that is live.
LEMMA GrantIsInBook ==
    ASSUME IInv, BookInv, NEW h \in Handlers, Grant(h), proc # "down"
    PROVE  Book!Next
  <1> USE DEF IInv
  <1>0. PICK c \in Capabilities : c = call[h].cap
    BY DEF TypeOK, Call
  <1>1. PICK ttl \in 1..MaxTTL :
          rows' = Active \union {[id |-> nextLease, cap |-> c, until |-> clock + ttl]}
    BY <1>0 DEF Grant
  <1> DEFINE e == [id |-> nextLease, cap |-> c, until |-> clock + ttl]
  <1>2. /\ c \in Live /\ nextLease' = nextLease + 1
        /\ UNCHANGED <<process, credential, clock>>
    BY <1>0 DEF Grant, Live
  <1>3. nextLease \in Int /\ e.id = nextLease - 1 + 1 /\ e.cap = c
    BY DaemonAssumption DEF TypeOK
  <1>4. Active \in SUBSET rows /\ e \in rows'
    BY <1>1 DEF Active
  <1>5. rows' = Active \union {e}
    BY <1>1
  <1>6. nextLease' - 1 = (nextLease - 1) + 1
    BY <1>2, <1>3
  <1> HIDE DEF e
  <1>7. Book!Grant(c)
    BY <1>2, <1>3, <1>4, <1>5, <1>6, CollectionIsKept DEF Book!Grant, Live, process
  <1> QED BY <1>7 DEF Book!Next

\* A renewal replaces one active row by another of the same lease.
LEMMA RenewIsInBook ==
    ASSUME IInv, BookInv, NEW h \in Handlers, RenewCall(h), rows' # rows, proc # "down"
    PROVE  Book!Next
  <1> USE DEF IInv
  <1>1. PICK l \in Active, ttl \in 1..MaxTTL :
          rows' = Without(l.id) \union {[l EXCEPT !.until = clock + ttl]}
    BY DEF RenewCall
  <1> DEFINE f == [l EXCEPT !.until = clock + ttl]
  <1>2. l \in rows /\ l \in Lease /\ clock + ttl \in Nat /\ clock \in Nat /\ ttl > 0
    BY DaemonAssumption DEF Active, TypeOK
  <1>3. f.id = l.id /\ f.cap = l.cap /\ f.until > clock
    BY <1>2 DEF Lease
  <1>4. rows' = Without(l.id) \union {f}
    BY <1>1
  <1>5. Without(l.id) = rows \ {l}
    BY <1>2 DEF Without, TypeOK
  <1>6. UNCHANGED <<process, nextLease, credential, clock>>
    BY DEF RenewCall
  <1> HIDE DEF f
  <1>7. Book!Renew(l)
    BY <1>1, <1>3, <1>4, <1>5, <1>6, CollectionIsKept DEF Book!Renew, process
  <1> QED BY <1>2, <1>7 DEF Book!Next

\* Removing the rows of one id ends one lease at most.
LEMMA RemovalIsInBook ==
    ASSUME IInv, NEW own \in SUBSET rows, \A l, m \in own : l.id = m.id,
           rows' = rows \ own, UNCHANGED <<process, nextLease, credential, clock>>,
           proc # "down"
    PROVE  [Book!Next]_Book!vars
  <1> USE DEF IInv
  <1>1. CASE own = {}
    BY <1>1, UnseenByBook DEF tables, process
  <1>2. CASE own # {}
    <2>1. PICK l \in own : TRUE
      BY <1>2
    <2>2. own = {l} /\ l \in rows
      BY <2>1 DEF TypeOK
    <2>3. Book!End(l)
      BY <2>2 DEF Book!End, process
    <2> QED BY <2>2, <2>3 DEF Book!Next
  <1> QED BY <1>1, <1>2

LEMMA AdministerIsInBook ==
    ASSUME IInv, BookInv, NEW h \in Handlers, Administer(h), proc # "down"
    PROVE  [Book!Next]_Book!vars
  <1> USE DEF IInv
  <1>1. UNCHANGED <<process, nextLease, clock>>
    BY DEF Administer, process
  <1>2. ASSUME NEW c \in Capabilities, credential[c] = "none",
               credential' = [credential EXCEPT ![c] = "live"], rows' = rows
        PROVE  Book!Issue(c)
    BY <1>1, <1>2 DEF Book!Issue, TypeOK, process
  <1>3. ASSUME NEW c \in Capabilities, credential[c] = "live",
               credential' = [credential EXCEPT ![c] = "revoked"],
               rows' = {l \in rows : l.cap # c}
        PROVE  Book!Revoke(c)
    <2>1. Live' = Live \ {c}
      BY <1>3 DEF Live, TypeOK
    <2>2. {l \in rows : l.cap # c} = {l \in rows : l.cap \in Live'}
      BY <2>1 DEF Live, BookInv, TypeOK, Lease
    <2>3. {d \in Capabilities : credential'[d] # "none"}
            = {d \in Capabilities : credential[d] # "none"}
      BY <1>3 DEF TypeOK
    <2> QED BY <1>1, <1>3, <2>1, <2>2, <2>3 DEF Book!Revoke, Book!Of, Live, process
  <1>4. ASSUME NEW l \in rows, rows' = rows \ {l}, credential' = credential
        PROVE  [Book!Next]_Book!vars
    <2>1. {l} \in SUBSET rows /\ \A k, m \in {l} : k.id = m.id
      OBVIOUS
    <2> QED BY <1>1, <1>4, <2>1, RemovalIsInBook
  <1> QED BY <1>2, <1>3, <1>4 DEF Administer, Book!Next

LEMMA HandlerKeepsBook ==
    ASSUME IInv, BookInv, NEW h \in Handlers, HandlerNext(h)
    PROVE  [Book!Next]_Book!vars
  <1> USE DEF IInv
  <1>1. proc # "down" /\ proc' = proc
    BY HandlerIsUp
  <1>2. CASE Administer(h)
    BY <1>1, <1>2, AdministerIsInBook
  <1>3. CASE Grant(h)
    BY <1>1, <1>3, GrantIsInBook
  <1>4. CASE RenewCall(h) /\ rows' # rows
    BY <1>1, <1>4, RenewIsInBook
  <1>5. CASE Release(h)
    <2> DEFINE own == {l \in rows : l.id = call[h].id /\ l.cap = call[h].cap}
    <2>1. /\ own \in SUBSET rows /\ \A l, m \in own : l.id = m.id
          /\ rows' = rows \ own /\ UNCHANGED <<process, nextLease, credential, clock>>
      BY <1>5 DEF Release
    <2> HIDE DEF own
    <2> QED BY <1>1, <2>1, RemovalIsInBook
  <1>6. CASE Undo(h)
    <2> DEFINE own == {l \in rows : l.id = call[h].id}
    <2>1. UNCHANGED <<process, nextLease, credential, clock>>
      BY <1>6 DEF Undo
    <2>2. own \in SUBSET rows /\ \A l, m \in own : l.id = m.id
      OBVIOUS
    <2>3. CASE rows' = rows
      BY <1>1, <2>1, <2>3, UnseenByBook DEF tables
    <2>4. CASE rows' = rows \ own
      <3> HIDE DEF own
      <3> QED BY <1>1, <2>1, <2>2, <2>4, RemovalIsInBook
    <2> QED BY <1>6, <2>3, <2>4 DEF Undo, Without
  <1>7. CASE /\ ~Administer(h) /\ ~Grant(h) /\ ~Release(h) /\ ~Undo(h)
             /\ ~(RenewCall(h) /\ rows' # rows)
    <2>1. UNCHANGED <<tables, clock>>
      BY <1>7 DEF HandlerNext, Receive, Inspect, Deliver, Handle, ManagerFails,
         Exhausted, WaitEnds, RenewCall, Schedule, ScheduleFails, tables
    <2> QED BY <1>1, <2>1, UnseenByBook
  <1> QED BY <1>2, <1>3, <1>4, <1>5, <1>6, <1>7

LEMMA BookStep ==
    ASSUME IInv, BookInv, [Next]_vars
    PROVE  [Book!Next]_Book!vars
  <1>1. CASE ProcessNext
    BY <1>1, ProcessKeepsBook
  <1>2. ASSUME NEW h \in Handlers, HandlerNext(h)
        PROVE  [Book!Next]_Book!vars
    BY <1>2, HandlerKeepsBook
  <1>3. CASE Ends
    BY <1>3 DEF Ends, tables, Book!Stop, Book!Next
  <1>4. CASE UNCHANGED vars
    <2>1. UNCHANGED <<tables, clock>> /\ proc' = proc
      BY <1>4 DEF vars, tables
    <2> QED BY <2>1, UnseenByBook
  <1> QED BY <1>1, <1>2, <1>3, <1>4, NextCases

\* What the daemon serves is a LeaseBook: with handlers between two calls, late jobs,
\* failures and restarts, a lease is renewed only before its end and goes before it only
\* with its capability, by a release or an administrator, or with the process.
THEOREM DaemonKeepsBook == Spec => ImplementsBook
  <1>1. Init => BookInv
    BY DEF Init, BookInv
  <1>2. Init => Book!Init
    BY DEF Init, Book!Init
  <1>3. Spec => []BookInv
    BY <1>1, LiveStep, DaemonInvariance, PTL DEF Spec
  <1> QED BY <1>2, <1>3, BookStep, DaemonInvariance, PTL DEF Spec, ImplementsBook, Book!Spec

-----------------------------------------------------------------------------
(* The wait of a request. *)

\* Seconds whose nanoseconds fit a word of the Duration.
Fits(s) == -WordSize <= 2 * (s * SecondUnit) /\ 2 * (s * SecondUnit) < WordSize

LEMMA DurationFits ==
    ASSUME NEW s \in Int, Fits(s)
    PROVE  Duration(s) = s * SecondUnit
  <1> DEFINE n == s * SecondUnit
  <1>1. /\ n \in Int /\ WordSize \in Nat /\ WordSize > 0
        /\ -WordSize <= 2 * n /\ 2 * n < WordSize
    BY DaemonAssumption DEF Fits
  <1> HIDE DEF n
  <1>2. CASE n >= 0
    <2>1. n % WordSize = n
      BY <1>1, <1>2
    <2> QED BY <1>1, <1>2, <2>1 DEF Duration, Wrap, n
  <1>3. CASE n < 0
    <2>1. n % WordSize = n + WordSize
      BY <1>1, <1>3
    <2>2. Wrap(n) = n
      BY <1>1, <1>3, <2>1 DEF Wrap
    <2> QED BY <2>2 DEF Duration, n
  <1> QED BY <1>1, <1>2, <1>3

\* A product of a whole number of seconds keeps their order.
LEMMA SecondsKeepOrder ==
    ASSUME NEW s \in Int, NEW t \in Int
    PROVE  s <= t <=> s * SecondUnit <= t * SecondUnit
  <1> DEFINE u == SecondUnit
  <1>1. u \in Nat /\ u >= 1
    BY DaemonAssumption
  <1> HIDE DEF u
  <1>2. CASE s <= t
    <2>1. t - s \in Nat /\ (t - s) * u \in Nat
      BY <1>1, <1>2
    <2>2. (t - s) * u = t * u - s * u
      BY <1>1
    <2>3. s * u \in Int /\ t * u \in Int
      BY <1>1
    <2>4. s * u <= t * u
      BY <2>1, <2>2, <2>3
    <2> QED BY <1>2, <2>4 DEF u
  <1>3. CASE s > t
    <2>1. s - t \in Nat /\ s - t >= 1 /\ (s - t) * u >= 1
      BY <1>1, <1>3
    <2>2. (s - t) * u = s * u - t * u
      BY <1>1
    <2>3. s * u \in Int /\ t * u \in Int
      BY <1>1
    <2>4. ~(s * u <= t * u)
      BY <2>1, <2>2, <2>3
    <2> QED BY <1>3, <2>4 DEF u
  <1> QED BY <1>2, <1>3

\* The conversion to nanoseconds comes before the range check of a wait.  It changes the
\* verdict only for seconds that do not fit the word: any other wait is accepted exactly
\* when it is in range.
THEOREM WaitsThatFitAreChecked ==
    ASSUME NEW s \in Int, Fits(s), Fits(MaximumWait)
    PROVE  WaitAccepted(Duration(s)) <=> s \in 0..MaximumWait
  <1>1. MaximumWait \in Int /\ MaxWait = MaximumWait * SecondUnit
    BY DurationFits, DaemonAssumption DEF MaxWait
  <1>2. Duration(s) = s * SecondUnit /\ 0 * SecondUnit = 0
    BY DurationFits, DaemonAssumption
  <1>3. 0 <= s <=> 0 * SecondUnit <= s * SecondUnit
    BY SecondsKeepOrder
  <1>4. s <= MaximumWait <=> s * SecondUnit <= MaximumWait * SecondUnit
    BY <1>1, SecondsKeepOrder
  <1>5. 0 <= s <=> s * SecondUnit >= 0
    BY <1>2, <1>3, DaemonAssumption
  <1> HIDE DEF WaitAccepted
  <1>6. WaitAccepted(Duration(s)) <=> (s * SecondUnit >= 0 /\ s * SecondUnit <= MaxWait)
    BY <1>2 DEF WaitAccepted
  <1> QED BY <1>1, <1>4, <1>5, <1>6
================================================================================
