----------------------------- MODULE ToolboxProofs -----------------------------
(***************************************************************************)
(* The safety properties of Toolbox hold for any number of requests, any   *)
(* identity headers, any output limit, however often a container starts,   *)
(* and for every answer of the search service.                             *)
(***************************************************************************)
EXTENDS Toolbox, TLAPS

(* The inductive invariant. *)

\* A name that stands for one directory below its parent.
OneComponent(key) ==
    /\ key \notin {<<>>, <<".">>, <<".", ".">>}
    /\ \A i \in DOMAIN key : key[i] # "/"

\* The buffer holds the first bytes of what was sent, and the mark says whether it
\* holds all of them.
Buffered(r) ==
    /\ r.kept = IF r.sent <= MaxOutput THEN r.sent ELSE MaxOutput
    /\ r.truncated <=> r.sent > MaxOutput

\* An inspection tells something unless it was killed, and only one that told of no
\* running container is followed by podman run.
Inspecting(r) ==
    /\ (r.phase = "inspect" /\ r.exit # "none" /\ r.saw = "nothing") => r.context # "live"
    /\ r.phase = "replace" => r.saw \in {"stopped", "error"}
    /\ r.saw # "nothing" => r.phase \in Working

\* What a request carries in each phase.
Carries(r) ==
    /\ r.phase = "idle" => r = Idle
    /\ r.phase \in Working => r.key \in Keys
    /\ r.ran => r.phase \in {"running", "reply"}
    /\ (r.phase = "reply" /\ r.context = "deadline" /\ ~r.timedOut) => ~r.ran
    /\ Buffered(r)
    /\ Inspecting(r)
    /\ r.results = GatewaySearch(r.asked, r.answer)

CallsCarry == \A c \in Calls : Carries(call[c])

\* What a request saw stopped is no newer than the container, and older than a running
\* one.
Unseen(r, box) ==
    r.saw = "stopped" =>
        /\ r.seen <= box[r.key].generation
        /\ r.seen = box[r.key].generation => box[r.key].state # "running"

ReplacesAreOlder == \A c \in Calls : Unseen(call[c], container)

IInv == TypeOK /\ CallsCarry /\ ReplacesAreOlder

-----------------------------------------------------------------------------
(* Operators. *)

LEMMA MinOfTwo ==
    ASSUME NEW a \in Int, NEW b \in Int
    PROVE  Min({a, b}) = IF a <= b THEN a ELSE b
  BY DEF Min

\* For every number of results asked for and every answer of the service: the gateway gives
\* no more results than asked for; it gives what the MCP server gives whenever that
\* succeeds on the status 200; and where only the gateway succeeds, the MCP server could
\* not decode the results or would not read that far.
THEOREM SearchesCompare ==
    ASSUME NEW max \in Int, NEW answer \in Answer,
           NEW gateway, gateway = GatewaySearch(max, answer),
           NEW server, server = ServerSearch(max, answer)
    PROVE  /\ gateway \in PassedOn..MaxResults /\ server \in Failed..MaxResults
           /\ gateway # Failed => gateway <= Limit(max)
           /\ server # Failed => server <= Limit(max)
           /\ (server # Failed /\ answer.status = "ok") => gateway = server
           /\ (server = Failed /\ gateway # Failed) =>
                 \/ answer.results \in {"undecoded", "other"}
                 \/ answer.body > ServerBody
  <1>1. /\ answer.n \in Nat /\ answer.body \in Nat
        /\ answer.status \in {"ok", "success", "failure"}
        /\ answer.results \in {"decoded", "undecoded", "other", "none", "invalid"}
    BY DEF Answer
  <1>2. Limit(max) \in Int
    BY DEF Limit, DefaultResults
  <1> DEFINE limit == Limit(max)
             listed == AtMost(answer.n, limit)
  <1>3. limit \in 1..MaxResults => listed \in 0..MaxResults /\ listed <= limit
    BY <1>1, <1>2 DEF AtMost, MaxResults
  <1>4. gateway = IF \/ limit \notin 1..MaxResults \/ answer.status # "ok"
                     \/ answer.body > GatewayBody \/ answer.results = "invalid"
                  THEN Failed
                  ELSE IF answer.results \in {"decoded", "undecoded"} THEN listed
                  ELSE IF answer.results = "none" THEN 0 ELSE PassedOn
    BY DEF GatewaySearch
  <1>5. server = IF \/ limit \notin 1..MaxResults \/ answer.status = "failure"
                    \/ answer.body > ServerBody
                    \/ answer.results \in {"undecoded", "other", "invalid"}
                 THEN Failed
                 ELSE IF answer.results = "decoded" THEN listed ELSE 0
    BY DEF ServerSearch
  <1>6. limit \in Int
    BY <1>2
  <1> HIDE DEF limit, listed
  <1>7. /\ gateway \in PassedOn..MaxResults /\ server \in Failed..MaxResults
        /\ gateway # Failed => gateway <= limit
        /\ server # Failed => server <= limit
    BY <1>3, <1>4, <1>5, <1>6 DEF Failed, PassedOn, MaxResults
  <1>8. (server # Failed /\ answer.status = "ok") => gateway = server
    BY <1>1, <1>3, <1>4, <1>5 DEF Failed, GatewayBody, ServerBody
  <1>9. (server = Failed /\ gateway # Failed) =>
            answer.results \in {"undecoded", "other"} \/ answer.body > ServerBody
    BY <1>1, <1>3, <1>4, <1>5 DEF Failed
  <1> QED BY <1>7, <1>8, <1>9 DEF limit

LEMMA AnswersAreAnswers ==
    Answers \union {NoAnswer} \subseteq Answer /\ Asked \union {0} \subseteq Int
  BY ToolboxAssumption DEF NoAnswer, Answer

LEMMA SanitizedIsOneComponent ==
    ASSUME NEW candidate
    PROVE  OneComponent(sanitizeWorkspaceKey(candidate))
  <1> DEFINE key == [i \in DOMAIN candidate |-> IF candidate[i] = "/" THEN "_" ELSE candidate[i]]
  <1>1. \A i \in DOMAIN key : key[i] # "/"
    OBVIOUS
  <1>2. OneComponent(Default)
    BY DEF OneComponent, Default
  <1>3. sanitizeWorkspaceKey(candidate) =
            IF key \in {<<>>, <<".">>, <<".", ".">>} THEN Default ELSE key
    BY DEF sanitizeWorkspaceKey
  <1> HIDE DEF key
  <1> QED BY <1>1, <1>2, <1>3 DEF OneComponent

LEMMA KeysAreNames ==
    \A k \in Keys \union {Default} : OneComponent(k)
  <1>1. OneComponent(Default)
    BY DEF OneComponent, Default
  <1>2. ASSUME NEW h \in Headers
        PROVE  OneComponent(identifyWorkspace(h).key)
    BY <1>1, SanitizedIsOneComponent DEF identifyWorkspace
  <1> QED BY <1>1, <1>2 DEF Keys

LEMMA IdleIsCall == Idle \in Call
  BY ToolboxAssumption
  DEF Idle, Call, Phases, Contexts, Exits, Sights, MaxResults, Failed, PassedOn

\* One field of a request at a time.
LEMMA FieldUpdates ==
    ASSUME NEW r \in Call
    PROVE  /\ \A p \in Phases : [r EXCEPT !.phase = p] \in Call
           /\ \A k \in Keys \union {Default} : [r EXCEPT !.key = k] \in Call
           /\ \A x \in Contexts : [r EXCEPT !.context = x] \in Call
           /\ \A s \in Sights : [r EXCEPT !.saw = s] \in Call
           /\ \A n \in 0..MaxStarts : [r EXCEPT !.seen = n] \in Call
           /\ \A b \in BOOLEAN : [r EXCEPT !.started = b] \in Call
           /\ \A b \in BOOLEAN : [r EXCEPT !.ran = b] \in Call
           /\ \A n \in 0..MaxSent : [r EXCEPT !.sent = n] \in Call
           /\ \A n \in 0..MaxOutput : [r EXCEPT !.kept = n] \in Call
           /\ \A b \in BOOLEAN : [r EXCEPT !.truncated = b] \in Call
           /\ \A x \in Exits : [r EXCEPT !.exit = x] \in Call
           /\ \A b \in BOOLEAN : [r EXCEPT !.open = b] \in Call
           /\ \A b \in BOOLEAN : [r EXCEPT !.timedOut = b] \in Call
           /\ \A n \in Asked \union {0} : [r EXCEPT !.asked = n] \in Call
           /\ \A a \in Answers \union {NoAnswer} : [r EXCEPT !.answer = a] \in Call
           /\ \A n \in PassedOn..MaxResults : [r EXCEPT !.results = n] \in Call
  <1>1. \A p \in Phases : [r EXCEPT !.phase = p] \in Call
    BY DEF Call
  <1>2. \A k \in Keys \union {Default} : [r EXCEPT !.key = k] \in Call
    BY DEF Call
  <1>3. \A x \in Contexts : [r EXCEPT !.context = x] \in Call
    BY DEF Call
  <1>4. \A s \in Sights : [r EXCEPT !.saw = s] \in Call
    BY DEF Call
  <1>5. \A n \in 0..MaxStarts : [r EXCEPT !.seen = n] \in Call
    BY DEF Call
  <1>6. \A b \in BOOLEAN : [r EXCEPT !.started = b] \in Call
    BY DEF Call
  <1>7. \A b \in BOOLEAN : [r EXCEPT !.ran = b] \in Call
    BY DEF Call
  <1>8. \A n \in 0..MaxSent : [r EXCEPT !.sent = n] \in Call
    BY DEF Call
  <1>9. \A n \in 0..MaxOutput : [r EXCEPT !.kept = n] \in Call
    BY DEF Call
  <1>10. \A b \in BOOLEAN : [r EXCEPT !.truncated = b] \in Call
    BY DEF Call
  <1>11. \A x \in Exits : [r EXCEPT !.exit = x] \in Call
    BY DEF Call
  <1>12. \A b \in BOOLEAN : [r EXCEPT !.open = b] \in Call
    BY DEF Call
  <1>13. \A b \in BOOLEAN : [r EXCEPT !.timedOut = b] \in Call
    BY DEF Call
  <1>14. \A n \in Asked \union {0} : [r EXCEPT !.asked = n] \in Call
    BY DEF Call
  <1>15. \A a \in Answers \union {NoAnswer} : [r EXCEPT !.answer = a] \in Call
    BY DEF Call
  <1>16. \A n \in PassedOn..MaxResults : [r EXCEPT !.results = n] \in Call
    BY DEF Call
  <1> QED BY <1>1, <1>2, <1>3, <1>4, <1>5, <1>6, <1>7, <1>8, <1>9, <1>10,
              <1>11, <1>12, <1>13, <1>14, <1>15, <1>16

\* What no step on the container changes in a request.
SameWork(k, r) ==
    /\ k.context = r.context /\ k.ran = r.ran
    /\ k.sent = r.sent /\ k.kept = r.kept /\ k.truncated = r.truncated
    /\ k.asked = r.asked /\ k.answer = r.answer /\ k.results = r.results

LEMMA StartedFields ==
    ASSUME NEW c, call[c] \in Call, NEW p \in Phases,
           NEW k, k = Started(c, p)
    PROVE  /\ k \in Call /\ SameWork(k, call[c])
           /\ k.phase = p /\ k.key = call[c].key /\ k.exit = "none"
           /\ k.saw = call[c].saw /\ k.seen = call[c].seen
  <1> DEFINE r == call[c]
             one == [r EXCEPT !.phase = p]
             two == [one EXCEPT !.exit = "none"]
  <1>1. one \in Call
    BY FieldUpdates
  <1> HIDE DEF one
  <1>2. two \in Call
    BY <1>1, FieldUpdates DEF Exits
  <1> HIDE DEF two
  <1>3. [two EXCEPT !.open = TRUE] \in Call
    BY <1>2, FieldUpdates
  <1>4. k = [two EXCEPT !.open = TRUE]
    BY DEF Started, one, two
  <1>5. k.phase = p /\ k.key = r.key /\ k.exit = "none" /\ k.saw = r.saw /\ k.seen = r.seen
    BY DEF Started, Call
  <1>6. SameWork(k, r)
    BY DEF Started, Call, SameWork
  <1> QED BY <1>3, <1>4, <1>5, <1>6

LEMMA OverFields ==
    ASSUME NEW c, call[c] \in Call, NEW exit \in Exits, NEW k, k = Over(c, exit)
    PROVE  /\ k \in Call /\ SameWork(k, call[c])
           /\ k.phase = "reply" /\ k.saw = "nothing" /\ k.timedOut = call[c].timedOut
  <1> DEFINE r == call[c]
             one == [r EXCEPT !.phase = "reply"]
             two == [one EXCEPT !.exit = exit]
             three == [two EXCEPT !.open = FALSE]
             four == [three EXCEPT !.saw = "nothing"]
  <1> 0 \in 0..MaxStarts
    BY ToolboxAssumption
  <1>1. one \in Call
    BY FieldUpdates DEF Phases
  <1> HIDE DEF one
  <1>2. two \in Call
    BY <1>1, FieldUpdates
  <1> HIDE DEF two
  <1>3. three \in Call
    BY <1>2, FieldUpdates
  <1> HIDE DEF three
  <1>4. four \in Call
    BY <1>3, FieldUpdates DEF Sights
  <1> HIDE DEF four
  <1>5. [four EXCEPT !.seen = 0] \in Call
    BY <1>4, FieldUpdates
  <1>6. k = [four EXCEPT !.seen = 0]
    BY DEF Over, one, two, three, four
  <1>7. k.phase = "reply" /\ k.saw = "nothing" /\ k.timedOut = r.timedOut
    BY DEF Over, Call
  <1>8. SameWork(k, r)
    BY DEF Over, Call, SameWork
  <1> QED BY <1>5, <1>6, <1>7, <1>8

LEMMA ResultFields ==
    ASSUME NEW c, call[c] \in Call, NEW exit \in Exits, NEW k, k = Result(c, exit)
    PROVE  /\ k \in Call /\ SameWork(k, call[c]) /\ k.phase = "reply" /\ k.saw = "nothing"
           /\ k.timedOut = (call[c].context = "deadline")
  <1> DEFINE o == Over(c, exit)
             late == call[c].context = "deadline"
  <1>1. /\ o \in Call /\ SameWork(o, call[c]) /\ o.phase = "reply" /\ o.saw = "nothing"
    BY OverFields
  <1>2. k = [o EXCEPT !.timedOut = late]
    BY DEF Result
  <1>3. late \in BOOLEAN
    OBVIOUS
  <1> HIDE DEF o, late
  <1>4. k \in Call
    BY <1>1, <1>2, <1>3, FieldUpdates
  <1>5. k.phase = o.phase /\ k.saw = o.saw /\ k.timedOut = late
    BY <1>1, <1>2 DEF Call
  <1>6. SameWork(k, o)
    BY <1>1, <1>2 DEF Call, SameWork
  <1> QED BY <1>1, <1>4, <1>5, <1>6 DEF SameWork, late

LEMMA EndedFields ==
    ASSUME NEW c, call[c] \in Call, NEW exit \in {"code", "failed"}, NEW open \in BOOLEAN,
           NEW k, k = Ended(c, exit, open)
    PROVE  /\ k \in Call /\ SameWork(k, call[c]) /\ k.phase = call[c].phase
           /\ k.key = call[c].key /\ k.saw = call[c].saw /\ k.seen = call[c].seen
           /\ k.exit # "none"
  <1> DEFINE r == call[c]
             one == [r EXCEPT !.exit = exit]
  <1>1. one \in Call
    BY FieldUpdates DEF Exits
  <1> HIDE DEF one
  <1>2. [one EXCEPT !.open = open] \in Call /\ [r EXCEPT !.open = FALSE] \in Call
    BY <1>1, FieldUpdates
  <1>3. k = IF r.exit = "none" THEN [one EXCEPT !.open = open] ELSE [r EXCEPT !.open = FALSE]
    BY DEF Ended, one
  <1>4. k \in Call
    BY <1>2, <1>3
  <1>5. k.phase = r.phase /\ k.key = r.key /\ k.saw = r.saw /\ k.seen = r.seen
        /\ k.exit # "none"
    BY DEF Ended, Call
  <1>6. SameWork(k, r)
    BY DEF Ended, Call, SameWork
  <1> QED BY <1>4, <1>5, <1>6

-----------------------------------------------------------------------------
(* What a step leaves behind. *)

Boxes == [Keys -> [state : {"absent", "stopped", "running"}, generation : 0..MaxStarts]]

\* A request that keeps what its step must not lose.
Sound(r) == r \in Call /\ Carries(r)

\* The containers after a step: one that runs has run before, or is newer than all that
\* was seen of that key.
Later(box) ==
    \A k \in Keys :
        \/ box[k].generation > container[k].generation
        \/ /\ box[k].generation = container[k].generation
           /\ box[k].state = "running" => container[k].state = "running"

LEMMA UnseenStays ==
    ASSUME NEW r, Sound(r), Unseen(r, container), container \in Boxes,
           NEW box \in Boxes, Later(box)
    PROVE  Unseen(r, box)
  <1> SUFFICES ASSUME r.saw = "stopped"
               PROVE  /\ r.seen <= box[r.key].generation
                      /\ r.seen = box[r.key].generation => box[r.key].state # "running"
    BY DEF Unseen
  <1>1. r.key \in Keys /\ r.seen \in 0..MaxStarts
    BY DEF Sound, Carries, Inspecting, Call
  <1>2. container[r.key].generation \in 0..MaxStarts /\ box[r.key].generation \in 0..MaxStarts
    BY <1>1 DEF Boxes
  <1>3. /\ r.seen <= container[r.key].generation
        /\ r.seen = container[r.key].generation => container[r.key].state # "running"
    BY DEF Unseen
  <1>4. CASE box[r.key].generation > container[r.key].generation
    BY <1>1, <1>2, <1>3, <1>4, ToolboxAssumption
  <1>5. CASE /\ box[r.key].generation = container[r.key].generation
             /\ box[r.key].state = "running" => container[r.key].state = "running"
    BY <1>3, <1>5
  <1> QED BY <1>1, <1>4, <1>5 DEF Later

\* A step of request c on the containers.
LEMMA OneRequest ==
    ASSUME IInv, NEW c \in Calls, NEW k, Becomes(c, k), Sound(k), Unseen(k, container'),
           container' \in Boxes, Later(container')
    PROVE  IInv'
  <1>1. call \in [Calls -> Call] /\ container \in Boxes
    BY DEF IInv, TypeOK, Boxes
  <1>2. call' \in [Calls -> Call]
    BY <1>1 DEF Becomes, Sound
  <1>3. \A d \in Calls : call'[d] = IF d = c THEN k ELSE call[d]
    BY <1>1 DEF Becomes
  <1>4. TypeOK'
    BY <1>2 DEF TypeOK, Boxes
  <1>5. CallsCarry'
    BY <1>3 DEF IInv, CallsCarry, Sound
  <1>6. \A d \in Calls : Unseen(call[d], container')
    <2>1. \A d \in Calls : Sound(call[d]) /\ Unseen(call[d], container)
      BY <1>1 DEF IInv, CallsCarry, ReplacesAreOlder, Sound
    <2> QED BY <1>1, <2>1, UnseenStays
  <1>7. ReplacesAreOlder'
    BY <1>3, <1>6 DEF ReplacesAreOlder
  <1> QED BY <1>4, <1>5, <1>7 DEF IInv

\* A step of request c that leaves the containers alone.
LEMMA OneRequestOnly ==
    ASSUME IInv, NEW c \in Calls, NEW k, Becomes(c, k), Sound(k), Unseen(k, container),
           container' = container
    PROVE  IInv'
  <1>1. container' \in Boxes /\ Later(container')
    BY DEF IInv, TypeOK, Boxes, Later
  <1>2. Unseen(k, container')
    OBVIOUS
  <1> QED BY <1>1, <1>2, OneRequest

\* A request that is answered carries what it must, if its command was not executed or
\* the answer tells whether its deadline has passed.
LEMMA AnswerIsSound ==
    ASSUME NEW r, Sound(r), NEW k \in Call, SameWork(k, r), k.phase = "reply",
           k.saw = "nothing", ~r.ran \/ k.timedOut = (r.context = "deadline")
    PROVE  Sound(k) /\ \A box : Unseen(k, box)
  <1>1. Buffered(k)
    BY DEF Sound, Carries, Buffered, SameWork
  <1>2. k.results = GatewaySearch(k.asked, k.answer)
    BY DEF Sound, Carries, SameWork
  <1>3. (k.phase = "reply" /\ k.context = "deadline" /\ ~k.timedOut) => ~k.ran
    BY DEF SameWork
  <1>4. Sound(k)
    BY <1>1, <1>2, <1>3 DEF Sound, Carries, Working, Inspecting
  <1> QED BY <1>4 DEF Unseen

LEMMA WorkingIsSound ==
    ASSUME NEW r, Sound(r), NEW k \in Call, SameWork(k, r), k.phase \in Working, k.key \in Keys,
           r.ran => k.phase = "running", Inspecting(k)
    PROVE  Sound(k)
  <1>1. Buffered(k)
    BY DEF Sound, Carries, Buffered, SameWork
  <1>2. k.results = GatewaySearch(k.asked, k.answer)
    BY DEF Sound, Carries, SameWork
  <1>3. k.ran => k.phase \in {"running", "reply"}
    BY DEF SameWork
  <1> QED BY <1>1, <1>2, <1>3 DEF Sound, Carries, Working

\* What a step of request c starts from.
LEMMA Before ==
    ASSUME IInv, NEW c \in Calls
    PROVE  /\ Sound(call[c]) /\ call[c] \in Call /\ Unseen(call[c], container)
           /\ call[c].ran => call[c].phase \in {"running", "reply"}
           /\ call[c].phase = "idle" => call[c] = Idle
           /\ call[c].phase \in Working => call[c].key \in Keys
           /\ Inspecting(call[c])
           /\ container \in Boxes
  BY DEF IInv, TypeOK, CallsCarry, ReplacesAreOlder, Sound, Carries, Boxes

LEMMA RefusedIsSound ==
    ASSUME IInv, NEW c \in Calls, ~call[c].ran
    PROVE  Sound(Refused(c)) /\ \A box : Unseen(Refused(c), box)
  <1>1. Sound(call[c]) /\ call[c] \in Call
    BY Before
  <1>2. /\ Refused(c) \in Call /\ SameWork(Refused(c), call[c])
        /\ Refused(c).phase = "reply" /\ Refused(c).saw = "nothing"
    BY <1>1, OverFields DEF Refused, Exits
  <1> QED BY <1>1, <1>2, AnswerIsSound

LEMMA ResultIsSound ==
    ASSUME IInv, NEW c \in Calls, NEW exit \in Exits
    PROVE  Sound(Result(c, exit)) /\ \A box : Unseen(Result(c, exit), box)
  <1>1. Sound(call[c]) /\ call[c] \in Call
    BY Before
  <1>2. /\ Result(c, exit) \in Call /\ SameWork(Result(c, exit), call[c])
        /\ Result(c, exit).phase = "reply" /\ Result(c, exit).saw = "nothing"
        /\ Result(c, exit).timedOut = (call[c].context = "deadline")
    BY <1>1, ResultFields
  <1> QED BY <1>1, <1>2, AnswerIsSound

LEMMA IdleIsSound ==
    Sound(Idle) /\ \A box : Unseen(Idle, box)
  <1>1. Buffered(Idle)
    BY ToolboxAssumption DEF Buffered, Idle
  <1>2. Idle.results = GatewaySearch(Idle.asked, Idle.answer)
    BY DEF Idle, GatewaySearch, NoAnswer
  <1>3. Idle.phase = "idle" /\ ~Idle.ran /\ Idle.saw = "nothing"
    BY DEF Idle
  <1>4. Sound(Idle)
    BY <1>1, <1>2, <1>3, IdleIsCall DEF Sound, Carries, Working, Inspecting
  <1> QED BY <1>3, <1>4 DEF Unseen

\* A client that ends leaves its request in its phase.
LEMMA EndedIsSound ==
    ASSUME IInv, NEW c \in Calls, call[c].phase \in Working \ {"inspect"},
           NEW exit \in {"code", "failed"}, NEW open \in BOOLEAN,
           NEW k, k = Ended(c, exit, open)
    PROVE  Sound(k) /\ k \in Call /\ SameWork(k, call[c]) /\ k.phase = call[c].phase
           /\ (\A box : Unseen(call[c], box) => Unseen(k, box))
  <1> DEFINE r == call[c]
  <1>1. r \in Call /\ Sound(r) /\ r.key \in Keys /\ Inspecting(r)
        /\ (r.ran => r.phase = "running")
    BY Before DEF Working, Phases
  <1>2. /\ k \in Call /\ SameWork(k, r) /\ k.phase = r.phase /\ k.key = r.key
        /\ k.saw = r.saw /\ k.seen = r.seen
    BY <1>1, EndedFields
  <1>3. Inspecting(k)
    BY <1>1, <1>2 DEF Inspecting
  <1>4. Sound(k)
    BY <1>1, <1>2, <1>3, WorkingIsSound
  <1> QED BY <1>2, <1>4 DEF Unseen

-----------------------------------------------------------------------------
(* Steps of the gateway. *)

LEMMA ReceiveStep ==
    ASSUME IInv, NEW c \in Calls, Receive(c)
    PROVE  IInv'
  <1>0. container' = container /\ call[c].phase = "idle"
    BY DEF Receive, At
  <1>1. call[c] = Idle /\ ~call[c].ran /\ call[c] \in Call
        /\ Sound(call[c]) /\ call[c].saw = "nothing"
    <2>1. ~Idle.ran /\ Idle.saw = "nothing"
      BY DEF Idle
    <2> QED BY <1>0, <2>1, Before
  <1>2. PICK h \in Headers :
            \/ Becomes(c, [Refused(c) EXCEPT !.key = identifyWorkspace(h).key])
            \/ Becomes(c, [Started(c, "inspect") EXCEPT !.key = identifyWorkspace(h).key])
    BY DEF Receive
  <1> DEFINE key == identifyWorkspace(h).key
  <1>3. key \in Keys
    BY DEF Keys
  <1>4. ASSUME NEW k, k = [Refused(c) EXCEPT !.key = key]
        PROVE  Sound(k) /\ Unseen(k, container)
    <2>1. /\ Refused(c) \in Call /\ SameWork(Refused(c), call[c])
          /\ Refused(c).phase = "reply" /\ Refused(c).saw = "nothing"
      BY <1>1, OverFields DEF Refused, Exits
    <2> HIDE DEF key
    <2>2. k \in Call
      BY <1>3, <1>4, <2>1, FieldUpdates
    <2>3. k.phase = "reply" /\ k.saw = "nothing"
      BY <1>4, <2>1 DEF Call
    <2>4. SameWork(k, call[c])
      BY <1>4, <2>1 DEF Call, SameWork
    <2> QED BY <1>1, <2>2, <2>3, <2>4, AnswerIsSound
  <1>5. ASSUME NEW k, k = [Started(c, "inspect") EXCEPT !.key = key]
        PROVE  Sound(k) /\ Unseen(k, container)
    <2> DEFINE s == Started(c, "inspect")
    <2>1. /\ s \in Call /\ SameWork(s, call[c]) /\ s.phase = "inspect" /\ s.exit = "none"
          /\ s.saw = "nothing"
      BY <1>1, StartedFields DEF Phases
    <2> HIDE DEF key, s
    <2>2. k = [s EXCEPT !.key = key]
      BY <1>5 DEF s
    <2>3. k \in Call
      BY <1>3, <2>1, <2>2, FieldUpdates
    <2>4. k.phase = "inspect" /\ k.saw = "nothing" /\ k.key = key /\ k.exit = "none"
      BY <2>1, <2>2 DEF Call
    <2>5. SameWork(k, call[c])
      BY <2>1, <2>2 DEF Call, SameWork
    <2> QED BY <1>1, <1>3, <2>3, <2>4, <2>5, WorkingIsSound
            DEF Working, Phases, Inspecting, Unseen
  <1> QED BY <1>0, <1>2, <1>4, <1>5, OneRequestOnly

LEMMA RejectStep ==
    ASSUME IInv, NEW c \in Calls, Reject(c)
    PROVE  IInv'
  <1>1. ~call[c].ran
    BY Before DEF Reject, At, Idle
  <1>2. Sound(Refused(c)) /\ Unseen(Refused(c), container)
    BY <1>1, RefusedIsSound
  <1>3. Becomes(c, Refused(c)) /\ container' = container
    BY DEF Reject
  <1> QED BY <1>2, <1>3, OneRequestOnly

LEMMA SearchStep ==
    ASSUME IInv, NEW c \in Calls, Search(c)
    PROVE  IInv'
  <1>1. PICK max \in Asked, answer \in Answers :
            Becomes(c, [call[c] EXCEPT !.phase = "reply", !.asked = max, !.answer = answer,
                                       !.results = GatewaySearch(max, answer)])
    BY DEF Search
  <1> DEFINE n == GatewaySearch(max, answer)
             one == [Idle EXCEPT !.phase = "reply"]
             two == [one EXCEPT !.asked = max]
             three == [two EXCEPT !.answer = answer]
             k == [three EXCEPT !.results = n]
  <1>2. call[c] = Idle
    BY Before DEF Search, At
  <1>3. n \in PassedOn..MaxResults
    BY SearchesCompare, AnswersAreAnswers
  <1>4. n = GatewaySearch(max, answer)
    OBVIOUS
  <1>5. Becomes(c, k)
    BY <1>1, <1>2
  <1>6. k.phase = "reply" /\ ~k.ran /\ k.asked = max /\ k.answer = answer /\ k.results = n
        /\ k.saw = "nothing"
    BY DEF Idle
  <1>7. k.sent = Idle.sent /\ k.kept = Idle.kept /\ k.truncated = Idle.truncated
    BY DEF Idle
  <1> HIDE DEF n, k
  <1>8. one \in Call
    BY IdleIsCall, FieldUpdates DEF Phases
  <1> HIDE DEF one
  <1>9. two \in Call
    BY <1>8, FieldUpdates
  <1> HIDE DEF two
  <1>10. three \in Call
    BY <1>9, FieldUpdates
  <1> HIDE DEF three
  <1>11. k \in Call
    BY <1>3, <1>10, FieldUpdates DEF k
  <1>12. Buffered(k)
    BY <1>7, IdleIsSound DEF Sound, Carries, Buffered
  <1>13. Sound(k) /\ Unseen(k, container)
    BY <1>4, <1>6, <1>11, <1>12 DEF Sound, Carries, Working, Unseen, Inspecting
  <1>14. container' = container
    BY DEF Search
  <1> QED BY <1>5, <1>13, <1>14, OneRequestOnly

LEMMA ReplyStep ==
    ASSUME IInv, NEW c \in Calls, Reply(c)
    PROVE  IInv'
  <1>1. Becomes(c, Idle) /\ container' = container
    BY DEF Reply
  <1> QED BY <1>1, IdleIsSound, OneRequestOnly

LEMMA ExecuteIsSound ==
    ASSUME IInv, NEW c \in Calls, call[c].phase \in Working, ~call[c].ran
    PROVE  Sound(Execute(c)) /\ Unseen(Execute(c), container)
  <1> DEFINE s == Started(c, "exec")
             one == [s EXCEPT !.saw = "nothing"]
             k == [one EXCEPT !.seen = 0]
  <1>1. call[c] \in Call /\ Sound(call[c]) /\ call[c].key \in Keys
    BY Before
  <1>2. /\ s \in Call /\ SameWork(s, call[c]) /\ s.phase = "exec" /\ s.key = call[c].key
        /\ s.exit = "none"
    BY <1>1, StartedFields DEF Phases
  <1>3. Execute(c) = IF Live(c) THEN k ELSE Result(c, "failed")
    BY DEF Execute
  <1> HIDE DEF s
  <1>4. k.phase = "exec" /\ k.key = s.key /\ k.saw = "nothing" /\ k.exit = "none"
    BY <1>2 DEF Call
  <1>5. SameWork(k, s)
    BY <1>2 DEF Call, SameWork
  <1>6. one \in Call
    BY <1>2, FieldUpdates DEF Sights
  <1> HIDE DEF one
  <1> 0 \in 0..MaxStarts
    BY ToolboxAssumption
  <1>7. k \in Call
    BY <1>6, FieldUpdates
  <1> HIDE DEF k
  <1>8. SameWork(k, call[c])
    BY <1>2, <1>5 DEF SameWork
  <1>9. Sound(k) /\ Unseen(k, container)
    BY <1>1, <1>2, <1>4, <1>7, <1>8, WorkingIsSound DEF Working, Phases, Inspecting, Unseen
  <1> QED BY <1>3, <1>9, ResultIsSound DEF Exits

\* Only an inspection that told of a container which does not run is followed by podman run.
LEMMA ReplacingIsSound ==
    ASSUME IInv, NEW c \in Calls, At(c, "inspect"), call[c].exit # "none", Live(c),
           call[c].saw # "running"
    PROVE  Sound(Started(c, "replace")) /\ Unseen(Started(c, "replace"), container)
  <1> DEFINE k == Started(c, "replace")
  <1>1. /\ call[c] \in Call /\ Sound(call[c]) /\ call[c].key \in Keys /\ ~call[c].ran
        /\ Inspecting(call[c]) /\ Unseen(call[c], container)
    BY Before DEF At, Working, Phases
  <1>2. /\ k \in Call /\ SameWork(k, call[c]) /\ k.phase = "replace" /\ k.key = call[c].key
        /\ k.saw = call[c].saw /\ k.seen = call[c].seen
    BY <1>1, StartedFields DEF Phases
  <1>3. call[c].saw \in {"stopped", "error"}
    BY <1>1 DEF Inspecting, At, Live, Call, Sights
  <1> HIDE DEF k
  <1>4. Sound(k) /\ Unseen(k, container)
    BY <1>1, <1>2, <1>3, WorkingIsSound DEF Working, Phases, Inspecting, Unseen
  <1> QED BY <1>4 DEF k

LEMMA ReturnStep ==
    ASSUME IInv, NEW c \in Calls, Return(c)
    PROVE  IInv'
  <1>1. container' = container /\ call[c].phase \in Working /\ call[c].exit # "none"
        /\ call[c] \in Call
    BY Before DEF Return, Busy
  <1>2. CASE At(c, "inspect") /\ Becomes(c, AfterInspect(c))
    <2>1. ~call[c].ran
      BY <1>2, Before DEF At
    <2>2. Sound(AfterInspect(c)) /\ Unseen(AfterInspect(c), container)
      <3>1. CASE call[c].saw = "running"
        BY <1>1, <2>1, <3>1, ExecuteIsSound DEF AfterInspect
      <3>2. CASE call[c].saw # "running" /\ Live(c)
        BY <1>1, <1>2, <3>2, ReplacingIsSound DEF AfterInspect
      <3>3. CASE call[c].saw # "running" /\ ~Live(c)
        BY <2>1, <3>3, RefusedIsSound DEF AfterInspect
      <3> QED BY <3>1, <3>2, <3>3
    <2> QED BY <1>1, <1>2, <2>2, OneRequestOnly
  <1>3. CASE call[c].phase \in {"replace", "create"} /\ Becomes(c, AfterRun(c))
    <2>1. ~call[c].ran
      BY <1>3, Before
    <2>2. Sound(AfterRun(c)) /\ Unseen(AfterRun(c), container)
      BY <1>1, <2>1, ExecuteIsSound, RefusedIsSound DEF AfterRun
    <2> QED BY <1>1, <1>3, <2>2, OneRequestOnly
  <1>4. CASE Becomes(c, AfterExec(c))
    <2>1. Sound(AfterExec(c)) /\ Unseen(AfterExec(c), container)
      BY ResultIsSound DEF AfterExec, Exits
    <2> QED BY <1>1, <1>4, <2>1, OneRequestOnly
  <1> QED BY <1>2, <1>3, <1>4 DEF Return

-----------------------------------------------------------------------------
(* Steps of podman, the commands and the context. *)

\* What an inspection tells is no newer than the container.
LEMMA InspectedStep ==
    ASSUME IInv, NEW c \in Calls, At(c, "inspect"),
           NEW saw \in {"stopped", "running", "error"}, NEW seen \in 0..MaxStarts,
           saw = "stopped" => /\ seen = container[call[c].key].generation
                              /\ container[call[c].key].state # "running",
           Inspected(c, saw, seen), container' = container
    PROVE  IInv'
  <1>1. PICK open \in BOOLEAN :
            Becomes(c, [Ended(c, "code", open) EXCEPT !.saw = saw, !.seen = seen])
    BY DEF Inspected
  <1> DEFINE e == Ended(c, "code", open)
             one == [e EXCEPT !.saw = saw]
             k == [one EXCEPT !.seen = seen]
  <1>2. /\ call[c] \in Call /\ Sound(call[c]) /\ call[c].key \in Keys /\ ~call[c].ran
        /\ container \in Boxes /\ call[c].phase = "inspect"
    BY Before DEF At, Working, Phases
  <1>3. e \in Call /\ SameWork(e, call[c]) /\ e.phase = "inspect" /\ e.key = call[c].key
    BY <1>2, EndedFields
  <1>4. Becomes(c, k)
    BY <1>1
  <1> HIDE DEF e
  <1>5. k.phase = "inspect" /\ k.key = e.key /\ k.saw = saw /\ k.seen = seen
    BY <1>3 DEF Call
  <1>6. SameWork(k, e)
    BY <1>3 DEF Call, SameWork
  <1>7. one \in Call
    BY <1>3, FieldUpdates DEF Sights
  <1> HIDE DEF one
  <1>8. k \in Call
    BY <1>7, FieldUpdates
  <1> HIDE DEF k
  <1>9. SameWork(k, call[c]) /\ k.key = call[c].key
    BY <1>3, <1>5, <1>6 DEF SameWork
  <1>10. Sound(k)
    BY <1>2, <1>5, <1>8, <1>9, WorkingIsSound DEF Working, Phases, Inspecting
  <1>11. Unseen(k, container)
    <2>1. container[call[c].key].generation \in Nat /\ seen \in Nat
      BY <1>2, ToolboxAssumption DEF Boxes
    <2> QED BY <1>5, <1>9, <2>1 DEF Unseen
  <1> QED BY <1>4, <1>10, <1>11, OneRequestOnly

LEMMA InspectStep ==
    ASSUME IInv, NEW c \in Calls, Inspect(c)
    PROVE  IInv'
  <1> DEFINE box == container[call[c].key]
  <1>1. At(c, "inspect") /\ container' = container /\ box.generation \in 0..MaxStarts
        /\ 0 \in 0..MaxStarts
    BY Before, ToolboxAssumption DEF Inspect, At, Working, Phases, Boxes
  <1>2. CASE Inspected(c, "running", 0)
    BY <1>1, <1>2, InspectedStep
  <1>3. CASE box.state = "stopped" /\ Inspected(c, "stopped", box.generation)
    BY <1>1, <1>3, InspectedStep
  <1>4. CASE Inspected(c, "error", 0)
    BY <1>1, <1>4, InspectedStep
  <1> QED BY <1>2, <1>3, <1>4 DEF Inspect

\* A container that does not run afterwards is not newer than before.
LEMMA NotRunning ==
    ASSUME IInv, NEW b \in Keys, NEW s \in {"absent", "stopped"},
           NEW box, box = [container EXCEPT ![b].state = s]
    PROVE  box \in Boxes /\ Later(box) /\ \A r : Unseen(r, container) /\ Sound(r) => Unseen(r, box)
  <1>1. container \in Boxes
    BY DEF IInv, TypeOK, Boxes
  <1>2. box \in Boxes
    BY <1>1 DEF Boxes
  <1>3. Later(box)
    BY <1>1 DEF Boxes, Later
  <1> QED BY <1>1, <1>2, <1>3, UnseenStays

LEMMA RemoveStep ==
    ASSUME IInv, NEW c \in Calls, Remove(c)
    PROVE  IInv'
  <1> DEFINE r == call[c]
             k == [r EXCEPT !.phase = "create"]
  <1>1. r.phase = "replace" /\ r \in Call /\ Sound(r) /\ r.key \in Keys /\ ~r.ran
        /\ Unseen(r, container) /\ Inspecting(r)
    BY Before DEF Remove, At, Working, Phases
  <1>2. container' \in Boxes /\ Later(container') /\ Unseen(r, container')
    BY <1>1, NotRunning DEF Remove
  <1>3. Becomes(c, k)
    BY DEF Remove
  <1>4. k \in Call
    BY <1>1, FieldUpdates DEF Phases
  <1>5. k.phase = "create" /\ k.key = r.key /\ k.saw = r.saw /\ k.seen = r.seen
    BY <1>1 DEF Call
  <1>6. SameWork(k, r)
    BY <1>1 DEF Call, SameWork
  <1> HIDE DEF k
  <1>7. Sound(k) /\ Unseen(k, container')
    BY <1>1, <1>2, <1>4, <1>5, <1>6, WorkingIsSound DEF Working, Phases, Inspecting, Unseen
  <1> QED BY <1>2, <1>3, <1>7, OneRequest

\* A container that starts is newer than every inspection.
LEMMA CreateStep ==
    ASSUME IInv, NEW c \in Calls, Create(c)
    PROVE  IInv'
  <1> DEFINE r == call[c]
  <1>1. r.phase = "create" /\ r \in Call /\ Sound(r) /\ r.key \in Keys /\ ~r.ran
        /\ Unseen(r, container) /\ container \in Boxes
    BY Before DEF Create, At, Working, Phases
  <1>2. /\ container[r.key].generation < MaxStarts
        /\ container' = [container EXCEPT ![r.key] =
                            [state |-> "running",
                             generation |-> container[r.key].generation + 1]]
    BY <1>1 DEF Create
  <1>3. container' \in Boxes /\ Later(container')
    <2>1. container[r.key].generation + 1 \in 0..MaxStarts
          /\ container[r.key].generation + 1 > container[r.key].generation
      BY <1>1, <1>2, ToolboxAssumption DEF Boxes
    <2> QED BY <1>1, <1>2, <2>1 DEF Boxes, Later
  <1>4. PICK open \in BOOLEAN :
            Becomes(c, [Ended(c, "code", open) EXCEPT !.started = TRUE])
    BY DEF Create
  <1> DEFINE e == Ended(c, "code", open)
             k == [e EXCEPT !.started = TRUE]
  <1>5. e \in Call /\ SameWork(e, r) /\ e.phase = "create" /\ e.key = r.key
        /\ e.saw = r.saw /\ e.seen = r.seen
    BY <1>1, EndedFields
  <1>6. Becomes(c, k)
    BY <1>4
  <1> HIDE DEF e
  <1>7. k \in Call
    BY <1>5, FieldUpdates
  <1>8. k.phase = "create" /\ k.key = r.key /\ k.saw = r.saw /\ k.seen = r.seen
    BY <1>5 DEF Call
  <1>9. SameWork(k, e)
    BY <1>5 DEF Call, SameWork
  <1> HIDE DEF k
  <1>10. SameWork(k, r)
    BY <1>5, <1>9 DEF SameWork
  <1>11. Sound(k)
    BY <1>1, <1>7, <1>8, <1>10, WorkingIsSound DEF Working, Phases, Inspecting
  <1>12. Unseen(k, container')
    <2>1. Unseen(r, container')
      BY <1>1, <1>3, UnseenStays
    <2> QED BY <1>8, <2>1 DEF Unseen
  <1> QED BY <1>3, <1>6, <1>11, <1>12, OneRequest

LEMMA FailStep ==
    ASSUME IInv, NEW c \in Calls, Fail(c)
    PROVE  IInv'
  <1>1. call[c].phase \in {"replace", "create"} /\ Unseen(call[c], container)
        /\ call[c].key \in Keys /\ Sound(call[c])
    BY Before DEF Fail, Working, Phases
  <1>2. PICK open \in BOOLEAN : Becomes(c, Ended(c, "failed", open))
    BY DEF Fail
  <1> DEFINE k == Ended(c, "failed", open)
  <1>3. Sound(k) /\ \A box : Unseen(call[c], box) => Unseen(k, box)
    BY <1>1, EndedIsSound DEF Working, Phases
  <1>4. Becomes(c, k)
    BY <1>2
  <1> HIDE DEF k
  <1>5. CASE UNCHANGED container
    BY <1>1, <1>3, <1>4, <1>5, OneRequestOnly
  <1>6. CASE container' = [container EXCEPT ![call[c].key].state = "stopped"]
    <2>1. container' \in Boxes /\ Later(container') /\ Unseen(call[c], container')
      BY <1>1, <1>6, NotRunning
    <2> QED BY <1>3, <1>4, <2>1, OneRequest
  <1> QED BY <1>5, <1>6 DEF Fail

\* A client that ends in any other phase.
LEMMA EndStep ==
    ASSUME IInv, NEW c \in Calls, call[c].phase \in {"exec", "running"},
           NEW open \in BOOLEAN, Becomes(c, Ended(c, "code", open)), container' = container
    PROVE  IInv'
  <1> DEFINE k == Ended(c, "code", open)
  <1>1. Unseen(call[c], container)
    BY Before
  <1>2. Sound(k) /\ \A box : Unseen(call[c], box) => Unseen(k, box)
    BY EndedIsSound DEF Working, Phases
  <1>3. Becomes(c, k)
    OBVIOUS
  <1> HIDE DEF k
  <1> QED BY <1>1, <1>2, <1>3, OneRequestOnly

LEMMA ExecStep ==
    ASSUME IInv, NEW c \in Calls, Exec(c)
    PROVE  IInv'
  <1> DEFINE r == call[c]
             one == [r EXCEPT !.phase = "running"]
             two == [one EXCEPT !.ran = TRUE]
             k == [two EXCEPT !.started = FALSE]
  <1>1. r.phase = "exec" /\ r \in Call /\ Sound(r) /\ r.key \in Keys
        /\ Unseen(r, container)
    BY Before DEF Exec, At, Working, Phases
  <1>2. container' = container
    BY DEF Exec
  <1>3. ASSUME NEW open \in BOOLEAN, Becomes(c, Ended(c, "code", open))
        PROVE  IInv'
    BY <1>1, <1>2, <1>3, EndStep
  <1>4. CASE Becomes(c, k)
    <2>1. k.phase = "running" /\ k.key = r.key /\ k.saw = r.saw /\ k.seen = r.seen
          /\ k.results = r.results
      BY <1>1 DEF Call
    <2>2. k.sent = r.sent /\ k.kept = r.kept /\ k.truncated = r.truncated
      BY <1>1 DEF Call
    <2>3. k.asked = r.asked /\ k.answer = r.answer
      BY <1>1 DEF Call
    <2>4. one \in Call
      BY <1>1, FieldUpdates DEF Phases
    <2>5. two \in Call
      BY <2>4, FieldUpdates
    <2>6. k \in Call
      BY <2>5, FieldUpdates
    <2> HIDE DEF k
    <2>7. Buffered(k) /\ k.results = GatewaySearch(k.asked, k.answer)
      BY <1>1, <2>1, <2>2, <2>3 DEF Sound, Carries, Buffered
    <2>8. Sound(k) /\ Unseen(k, container)
      BY <1>1, <2>1, <2>6, <2>7 DEF Sound, Carries, Working, Phases, Unseen, Inspecting
    <2> QED BY <1>2, <1>4, <2>8, OneRequestOnly
  <1>5. k = [call[c] EXCEPT !.phase = "running", !.ran = TRUE, !.started = FALSE]
    OBVIOUS
  <1> HIDE DEF k
  <1> QED BY <1>3, <1>4, <1>5 DEF Exec

LEMMA WriteIsPrefix ==
    ASSUME NEW r \in Call, Buffered(r), NEW n \in Chunks,
           NEW w, w = Write(r.kept, r.truncated, n)
    PROVE  /\ w.kept \in 0..MaxOutput /\ w.truncated \in BOOLEAN
           /\ w.kept = IF r.sent + n <= MaxOutput THEN r.sent + n ELSE MaxOutput
           /\ w.truncated <=> r.sent + n > MaxOutput
  <1>1. r.sent \in Nat /\ r.kept \in 0..MaxOutput /\ r.truncated \in BOOLEAN
    BY ToolboxAssumption DEF Call
  <1>2. n \in Nat /\ n > 0 /\ MaxOutput \in Nat
    BY ToolboxAssumption
  <1>3. CASE r.kept = MaxOutput
    <2>1. w = [kept |-> r.kept, truncated |-> TRUE]
      BY <1>2, <1>3 DEF Write
    <2>2. w.kept = MaxOutput /\ w.truncated = TRUE
      BY <1>3, <2>1
    <2>3. r.sent >= MaxOutput
      BY <1>1, <1>2, <1>3 DEF Buffered
    <2>4. r.sent + n > MaxOutput /\ ~(r.sent + n <= MaxOutput) /\ MaxOutput \in 0..MaxOutput
      BY <1>1, <1>2, <2>3
    <2> QED BY <2>2, <2>4
  <1>4. CASE r.kept # MaxOutput
    <2>1. r.sent < MaxOutput /\ r.kept = r.sent
      BY <1>1, <1>2, <1>4 DEF Buffered
    <2>2. r.truncated = FALSE
      BY <1>1, <1>2, <2>1 DEF Buffered
    <2>3. CASE n > MaxOutput - r.kept
      <3>1. w = [kept |-> MaxOutput, truncated |-> TRUE]
        BY <1>1, <1>2, <1>4, <2>3 DEF Write
      <3>2. w.kept = MaxOutput /\ w.truncated = TRUE
        BY <3>1
      <3>3. r.sent + n > MaxOutput /\ ~(r.sent + n <= MaxOutput) /\ MaxOutput \in 0..MaxOutput
        BY <1>1, <1>2, <2>1, <2>3
      <3> QED BY <3>2, <3>3
    <2>4. CASE ~(n > MaxOutput - r.kept)
      <3>1. w = [kept |-> r.kept + n, truncated |-> r.truncated]
        BY <1>1, <1>2, <1>4, <2>4 DEF Write
      <3>2. w.kept = r.kept + n /\ w.truncated = FALSE
        BY <2>2, <3>1
      <3>3. ~(r.sent + n > MaxOutput) /\ r.sent + n <= MaxOutput /\ r.sent + n \in 0..MaxOutput
        BY <1>1, <1>2, <2>1, <2>4
      <3> QED BY <2>1, <3>2, <3>3
    <2> QED BY <2>3, <2>4
  <1> QED BY <1>3, <1>4

LEMMA OutputStep ==
    ASSUME IInv, NEW c \in Calls, Output(c)
    PROVE  IInv'
  <1> DEFINE r == call[c]
  <1>1. r.phase = "running" /\ r \in Call /\ Sound(r) /\ r.key \in Keys
        /\ Unseen(r, container) /\ container' = container
    BY Before DEF Output, At, Working, Phases
  <1>2. PICK n \in Chunks :
            /\ call[c].sent + n <= MaxSent
            /\ LET w == Write(call[c].kept, call[c].truncated, n)
               IN  Becomes(c, [call[c] EXCEPT !.sent = @ + n, !.kept = w.kept,
                                              !.truncated = w.truncated])
    BY DEF Output
  <1> DEFINE w == Write(r.kept, r.truncated, n)
             sent == r.sent + n
             one == [r EXCEPT !.sent = sent]
             two == [one EXCEPT !.kept = w.kept]
             k == [two EXCEPT !.truncated = w.truncated]
  <1>3. /\ w.kept \in 0..MaxOutput /\ w.truncated \in BOOLEAN
        /\ w.kept = IF sent <= MaxOutput THEN sent ELSE MaxOutput
        /\ w.truncated <=> sent > MaxOutput
    BY <1>1, WriteIsPrefix DEF Sound, Carries
  <1>4. sent \in 0..MaxSent
    BY <1>1, <1>2, ToolboxAssumption DEF Call
  <1>5. Becomes(c, k)
    BY <1>2
  <1> HIDE DEF w, sent
  <1>6. k.phase = r.phase /\ k.key = r.key /\ k.results = r.results
        /\ k.saw = r.saw /\ k.seen = r.seen
    BY <1>1 DEF Call
  <1>7. k.sent = sent /\ k.kept = w.kept /\ k.truncated = w.truncated
    BY <1>1 DEF Call
  <1>8. k.asked = r.asked /\ k.answer = r.answer
    BY <1>1 DEF Call
  <1>9. one \in Call
    BY <1>1, <1>4, FieldUpdates
  <1>10. two \in Call
    BY <1>3, <1>9, FieldUpdates
  <1>11. k \in Call
    BY <1>3, <1>10, FieldUpdates
  <1> HIDE DEF k
  <1>12. Buffered(k)
    BY <1>3, <1>7 DEF Buffered
  <1>13. Sound(k) /\ Unseen(k, container)
    BY <1>1, <1>6, <1>8, <1>11, <1>12
    DEF Sound, Carries, Working, Phases, Unseen, Inspecting
  <1> QED BY <1>1, <1>5, <1>13, OneRequestOnly

LEMMA FinishStep ==
    ASSUME IInv, NEW c \in Calls, Finish(c)
    PROVE  IInv'
  <1>1. call[c].phase = "running" /\ container' = container
    BY DEF Finish, At
  <1>2. PICK open \in BOOLEAN : Becomes(c, Ended(c, "code", open))
    BY DEF Finish
  <1> QED BY <1>1, <1>2, EndStep

\* A step that changes neither what a request works on nor what it has done.
LEMMA SameRequest ==
    ASSUME IInv, NEW c \in Calls, call[c].phase \in Working, NEW k \in Call, Becomes(c, k),
           k.phase = call[c].phase, k.key = call[c].key,
           k.saw = call[c].saw, k.seen = call[c].seen, SameWork(k, call[c]),
           k.exit = call[c].exit \/ call[c].context # "live",
           container' = container
    PROVE  IInv'
  <1>1. Sound(call[c]) /\ call[c].key \in Keys /\ Inspecting(call[c])
        /\ Unseen(call[c], container) /\ (call[c].ran => call[c].phase = "running")
    BY Before DEF Working, Phases
  <1>2. Inspecting(k)
    BY <1>1 DEF Inspecting, SameWork
  <1>3. Sound(k) /\ Unseen(k, container)
    BY <1>1, <1>2, WorkingIsSound DEF Unseen
  <1> QED BY <1>3, OneRequestOnly

LEMMA LetGoStep ==
    ASSUME IInv, NEW c \in Calls, LetGo(c)
    PROVE  IInv'
  <1> DEFINE r == call[c]
             k == [r EXCEPT !.open = FALSE]
  <1>1. r.phase \in Working /\ container' = container /\ Becomes(c, k) /\ r \in Call
    BY Before DEF LetGo, Held, Busy
  <1>2. k \in Call
    BY <1>1, FieldUpdates
  <1>3. k.phase = r.phase /\ k.key = r.key /\ k.saw = r.saw /\ k.seen = r.seen
        /\ k.exit = r.exit
    BY <1>1 DEF Call
  <1>4. SameWork(k, r)
    BY <1>1 DEF Call, SameWork
  <1> HIDE DEF k
  <1> QED BY <1>1, <1>2, <1>3, <1>4, SameRequest

LEMMA KillStep ==
    ASSUME IInv, NEW c \in Calls, Kill(c)
    PROVE  IInv'
  <1> DEFINE r == call[c]
  <1>1. PICK open \in BOOLEAN :
            Becomes(c, [call[c] EXCEPT !.exit = "killed", !.open = open])
    BY DEF Kill
  <1> DEFINE one == [r EXCEPT !.exit = "killed"]
             k == [one EXCEPT !.open = open]
  <1>2. r.phase \in Working /\ container' = container /\ r \in Call /\ r.context # "live"
    BY Before DEF Kill, Busy, Live
  <1>3. Becomes(c, k)
    BY <1>1
  <1>4. k.phase = r.phase /\ k.key = r.key /\ k.saw = r.saw /\ k.seen = r.seen
    BY <1>2 DEF Call
  <1>5. SameWork(k, r)
    BY <1>2 DEF Call, SameWork
  <1>6. one \in Call
    BY <1>2, FieldUpdates DEF Exits
  <1>7. k \in Call
    BY <1>6, FieldUpdates
  <1> HIDE DEF k
  <1> QED BY <1>2, <1>3, <1>4, <1>5, <1>7, SameRequest

LEMMA ContextStep ==
    ASSUME IInv, NEW c \in Calls, NEW x \in {"deadline", "cancelled"},
           call[c].phase \in Working, Becomes(c, [call[c] EXCEPT !.context = x]),
           container' = container
    PROVE  IInv'
  <1> DEFINE r == call[c]
             k == [r EXCEPT !.context = x]
  <1>1. r \in Call /\ Sound(r) /\ Unseen(r, container) /\ r.phase # "reply"
        /\ r.phase # "idle"
    BY Before DEF Working
  <1>2. k \in Call
    BY <1>1, FieldUpdates DEF Contexts
  <1>3. k.phase = r.phase /\ k.key = r.key /\ k.saw = r.saw /\ k.seen = r.seen
        /\ k.exit = r.exit /\ k.context = x
    BY <1>1 DEF Call
  <1>4. k.sent = r.sent /\ k.kept = r.kept /\ k.truncated = r.truncated /\ k.ran = r.ran
    BY <1>1 DEF Call
  <1>5. k.asked = r.asked /\ k.answer = r.answer /\ k.results = r.results
    BY <1>1 DEF Call
  <1>6. Becomes(c, k)
    OBVIOUS
  <1> HIDE DEF k
  <1>7. Buffered(k)
    BY <1>1, <1>4 DEF Sound, Carries, Buffered
  <1>8. Sound(k)
    BY <1>1, <1>2, <1>3, <1>4, <1>5, <1>7 DEF Sound, Carries, Working, Inspecting
  <1>9. Unseen(k, container)
    BY <1>1, <1>3 DEF Unseen
  <1> QED BY <1>6, <1>8, <1>9, OneRequestOnly

LEMMA DiesStep ==
    ASSUME IInv, NEW b \in Keys, Dies(b)
    PROVE  IInv'
  <1>1. call' = call /\ container' = [container EXCEPT ![b].state = "stopped"]
    BY DEF Dies
  <1>2. /\ container' \in Boxes
        /\ \A r : Unseen(r, container) /\ Sound(r) => Unseen(r, container')
    BY <1>1, NotRunning
  <1>3. \A d \in Calls : Unseen(call[d], container')
    BY <1>2, Before
  <1>4. TypeOK'
    BY <1>1, <1>2 DEF IInv, TypeOK, Boxes
  <1> QED BY <1>1, <1>3, <1>4 DEF IInv, CallsCarry, ReplacesAreOlder

-----------------------------------------------------------------------------
(* The theorems. *)

LEMMA NextStep ==
    ASSUME IInv, Next
    PROVE  IInv'
  <1>1. ASSUME NEW c \in Calls, Gateway(c)
        PROVE  IInv'
    BY <1>1, ReceiveStep, RejectStep, SearchStep, ReturnStep, ReplyStep DEF Gateway
  <1>2. ASSUME NEW c \in Calls, Podman(c)
        PROVE  IInv'
    BY <1>2, InspectStep, RemoveStep, CreateStep, FailStep, ExecStep, OutputStep, FinishStep,
       LetGoStep DEF Podman
  <1>3. ASSUME NEW c \in Calls, Context(c)
        PROVE  IInv'
    <2>1. CASE Deadline(c)
      BY <2>1, ContextStep DEF Deadline, Busy
    <2>2. CASE Disconnect(c)
      BY <2>2, ContextStep DEF Disconnect, Busy
    <2> QED BY <1>3, <2>1, <2>2, KillStep DEF Context
  <1>4. ASSUME NEW k \in Keys, Dies(k)
        PROVE  IInv'
    BY <1>4, DiesStep
  <1> QED BY <1>1, <1>2, <1>3, <1>4 DEF Next

LEMMA StutterStep ==
    ASSUME IInv, UNCHANGED vars
    PROVE  IInv'
  <1>1. call' = call /\ container' = container
    BY DEF vars
  <1> QED BY <1>1 DEF IInv, TypeOK, CallsCarry, ReplacesAreOlder

\* Every reachable state satisfies the inductive invariant, whatever podman, the commands
\* and the clients do.
THEOREM ToolboxInvariance == Spec => []IInv
  <1>1. Init => IInv
    <2> SUFFICES ASSUME Init
                 PROVE  IInv
      OBVIOUS
    <2>1. TypeOK
      BY IdleIsCall, ToolboxAssumption DEF Init, TypeOK
    <2>2. CallsCarry
      BY IdleIsSound DEF Init, CallsCarry, Sound
    <2>3. ReplacesAreOlder
      BY IdleIsSound DEF Init, ReplacesAreOlder
    <2> QED BY <2>1, <2>2, <2>3 DEF IInv
  <1>2. IInv /\ [Next]_vars => IInv'
    BY NextStep, StutterStep
  <1> QED BY <1>1, <1>2, PTL DEF Spec

\* Every state of the gateway is one of its types.
THEOREM ToolboxTypeCorrect == Spec => []TypeOK
  <1>1. IInv => TypeOK
    BY DEF IInv
  <1> QED BY <1>1, ToolboxInvariance, PTL

\* Whatever the headers of the requests say, each works on one directory directly below
\* agent-workspaces.
THEOREM KeysAreOneComponent == Spec => []KeyIsOneComponent
  <1>1. IInv => KeyIsOneComponent
    <2> SUFFICES ASSUME IInv, NEW c \in Calls
                 PROVE  OneComponent(call[c].key)
      BY DEF KeyIsOneComponent, OneComponent
    <2>1. call[c].key \in Keys \union {Default}
      BY DEF IInv, TypeOK, Call
    <2> QED BY <2>1, KeysAreNames
  <1> QED BY <1>1, ToolboxInvariance, PTL

\* For every limit and every way to cut the output into writes, a request keeps the first
\* bytes up to the limit and tells truly whether there were more.
THEOREM OutputsArePrefixes == Spec => []OutputIsPrefix
  <1>1. IInv => OutputIsPrefix
    <2> SUFFICES ASSUME IInv, NEW c \in Calls
                 PROVE  /\ call[c].kept = Min({call[c].sent, MaxOutput})
                        /\ call[c].truncated <=> call[c].sent > MaxOutput
      BY DEF OutputIsPrefix
    <2>1. Buffered(call[c]) /\ call[c].sent \in Int /\ MaxOutput \in Int
      BY Before, ToolboxAssumption DEF Sound, Carries, Call
    <2> QED BY <2>1, MinOfTwo DEF Buffered
  <1> QED BY <1>1, ToolboxInvariance, PTL

\* An answer that does not tell of a timeout after the deadline is one of a command that
\* was never executed, whoever ended it and however often podman hangs.
THEOREM TimeoutsAreTold == Spec => []TimeoutIsTold
  <1>1. IInv => TimeoutIsTold
    BY DEF IInv, CallsCarry, Carries, TimeoutIsTold, At
  <1> QED BY <1>1, ToolboxInvariance, PTL

\* Every search a request makes compares with the MCP server's as SearchesCompare says.
THEOREM SearchesDoAgree == Spec => []SearchesAgree
  <1>1. IInv => SearchesAgree
    <2> SUFFICES ASSUME IInv, NEW c \in Calls, NEW r, r = call[c],
                        NEW server, server = ServerSearch(r.asked, r.answer)
                 PROVE  /\ r.results <= Limit(r.asked) \/ r.results = Failed
                        /\ (server # Failed /\ r.answer.status = "ok") => r.results = server
                        /\ (server = Failed /\ r.results # Failed) =>
                              \/ r.answer.results \in {"undecoded", "other"}
                              \/ r.answer.body > ServerBody
      BY DEF SearchesAgree
    <2>1. r.results = GatewaySearch(r.asked, r.answer)
      BY DEF IInv, CallsCarry, Carries
    <2>2. r.asked \in Int /\ r.answer \in Answer
      BY Before, AnswersAreAnswers DEF Call
    <2> QED BY <2>1, <2>2, SearchesCompare
  <1> QED BY <1>1, ToolboxInvariance, PTL

\* A running container is only replaced by a request whose inspection failed or is older
\* than the container: one that saw this very container stopped has never to do with it
\* once it runs, because each start gives a container that no inspection has seen.
THEOREM OnlyUnseenReplaced == Spec => ReplaceOnlyUnseen
  <1> DEFINE Justified ==
                \A k \in Keys :
                    (State(k) = "running" /\ container'[k].state = "absent") =>
                        \E c \in Calls :
                            /\ At(c, "replace") /\ call[c].key = k
                            /\ call[c].saw = "error" \/ call[c].seen < container[k].generation
  <1>1. IInv /\ [Next]_vars => Justified
    <2> SUFFICES ASSUME IInv, [Next]_vars, NEW k \in Keys,
                        State(k) = "running", container'[k].state = "absent"
                 PROVE  \E c \in Calls :
                            /\ At(c, "replace") /\ call[c].key = k
                            /\ call[c].saw = "error" \/ call[c].seen < container[k].generation
      OBVIOUS
    <2>1. container[k].state = "running" /\ container' # container /\ container \in Boxes
      BY DEF State, IInv, TypeOK, Boxes
    <2>2. ~UNCHANGED vars
      BY <2>1 DEF vars
    <2>3. ASSUME NEW c \in Calls, Remove(c)
          PROVE  /\ At(c, "replace") /\ call[c].key = k
                 /\ call[c].saw = "error" \/ call[c].seen < container[k].generation
      <3>1. At(c, "replace") /\ container' = [container EXCEPT ![call[c].key].state = "absent"]
        BY <2>3 DEF Remove
      <3>2. call[c].key = k
        BY <2>1, <3>1 DEF Boxes
      <3>3. Unseen(call[c], container) /\ call[c].seen \in 0..MaxStarts
            /\ call[c].saw \in {"stopped", "error"}
        BY <3>1, Before DEF Call, Inspecting, At
      <3>4. container[k].generation \in 0..MaxStarts
        BY <2>1 DEF Boxes
      <3> QED BY <2>1, <3>1, <3>2, <3>3, <3>4, ToolboxAssumption DEF Unseen, At
    <2>4. ASSUME NEW c \in Calls, Create(c)
          PROVE  FALSE
      <3>1. PICK s : container' = [container EXCEPT ![call[c].key] =
                         [state |-> "running", generation |-> s]]
        BY <2>4 DEF Create
      <3> QED BY <2>1, <3>1 DEF Boxes
    <2>5. ASSUME NEW b \in Keys, container' = [container EXCEPT ![b].state = "stopped"]
          PROVE  FALSE
      BY <2>1, <2>5 DEF Boxes
    <2>6. ASSUME NEW c \in Calls, Fail(c)
          PROVE  FALSE
      <3>1. call[c].key \in Keys
        BY <2>6, Before DEF Fail, Working, Phases
      <3> QED BY <2>1, <2>5, <2>6, <3>1 DEF Fail
    <2>7. ASSUME NEW c \in Calls, Gateway(c) \/ Context(c)
          PROVE  FALSE
      BY <2>1, <2>7 DEF Gateway, Receive, Reject, Search, Return, Reply,
                        Context, Deadline, Disconnect, Kill
    <2>8. PICK c \in Calls : Podman(c)
      BY <2>2, <2>5, <2>7 DEF Next, Dies
    <2>9. Remove(c)
      BY <2>1, <2>4, <2>6, <2>8 DEF Podman, Inspect, Exec, Output, Finish, LetGo
    <2> QED BY <2>3, <2>9
  <1> QED BY <1>1, ToolboxInvariance, PTL DEF Spec, ReplaceOnlyUnseen
================================================================================
