-------------------------------- MODULE Toolbox --------------------------------
(***************************************************************************)
(* llama-stack-agent-tools: concurrent exec requests over one persistent   *)
(* container per workspace key, driven by podman client processes that the *)
(* request's context kills, the bounded output of a command, and the web   *)
(* search that the gateway and an MCP server offer.  Podman, containers,   *)
(* commands and the search service are external: modelled from how the     *)
(* gateway calls them.                                                     *)
(***************************************************************************)
EXTENDS Integers, Sequences, FiniteSetsExt

CONSTANTS
    Calls,            \* concurrent exec requests
    Headers,          \* the identity headers of a request, in the order they are tried
    RequireIdentity,  \* agent_tools.require_identity
    Blocked,          \* keys whose directory cannot be made: a file has that name
    MaxOutput,        \* agent_tools.max_output_bytes
    Chunks,           \* sizes of what a command writes at once
    Asked,            \* numbers of results that searches ask for
    Answers,          \* answers of the search service
    MaxSent, MaxStarts   \* bounds

\* An answer of SearXNG: its status (200, another success, anything else or no answer at
\* all), the MiB that its JSON value takes, rounded up, and its results: how many, if they are a list
\* of what the MCP server can decode or of something else; "other" is a value that is no
\* list, "none" is null or no value, and "invalid" is a body that is no JSON object.
Answer == [status : {"ok", "success", "failure"}, body : Nat,
           results : {"decoded", "undecoded", "other", "none", "invalid"}, n : Nat]

ASSUME ToolboxAssumption ==
    /\ RequireIdentity \in BOOLEAN /\ MaxOutput \in Nat
    /\ Chunks \subseteq Nat \ {0} /\ MaxSent \in Nat
    /\ MaxStarts \in Nat
    /\ Asked \subseteq Int /\ Answers \subseteq Answer

-----------------------------------------------------------------------------
(* Workspace keys.  An identity is a sequence of characters, empty when the *)
(* header is missing or blank; "/" stands for every character that is not a *)
(* letter, a digit, or one of - _ and the dot.                              *)

Default == <<"default">>

\* Mutant: the names that path.Join resolves are only caught before sanitising.
SanitizeEmptyOnly(candidate) ==
    LET key == [i \in DOMAIN candidate |-> IF candidate[i] = "/" THEN "_" ELSE candidate[i]]
    IN  IF key = <<>> THEN Default ELSE key

sanitizeWorkspaceKey(candidate) ==
    LET key == [i \in DOMAIN candidate |-> IF candidate[i] = "/" THEN "_" ELSE candidate[i]]
    IN  IF key \in {<<>>, <<".">>, <<".", ".">>} THEN Default ELSE key

identifyWorkspace(headers) ==
    LET given == {i \in DOMAIN headers : headers[i] # <<>>}
    IN  [found |-> given # {},
         key   |-> IF given = {} THEN Default ELSE sanitizeWorkspaceKey(headers[Min(given)])]

Keys == {identifyWorkspace(h).key : h \in Headers}

VARIABLES
    call,        \* the request each handler is working on
    container    \* the container named after each key

vars == <<call, container>>

-----------------------------------------------------------------------------
(* States. *)

\* "replace" and "create": podman run before and after it has removed the container of
\* that name; "exec" and "running": podman exec before and after it starts the command.
Phases == {"idle", "inspect", "replace", "create", "exec", "running", "reply"}
Working == Phases \ {"idle", "reply"}

\* How the podman client of the request has ended: not yet, killed by the end of the
\* context, with an exit code, or without one; in an answer, the exit code or -1.
Exits == {"none", "killed", "code", "failed"}
Contexts == {"live", "deadline", "cancelled"}
Sights == {"nothing", "stopped", "running", "error"}   \* what podman inspect told

DefaultResults == 5
MaxResults == 10
Failed == -1        \* a search that is answered with an error
PassedOn == -2      \* an answer without a list of results, given to the client as it is

NoAnswer == [status |-> "failure", body |-> 0, results |-> "none", n |-> 0]

\* seen: the container's generation when it was inspected; started: this request started
\* the container; ran: its command ran; open: a process has the client's output open.
\* asked, answer, results: of a search, how many results it asked for, what the service
\* answered and how many were given.
Call == [phase : Phases, key : Keys \union {Default}, context : Contexts, saw : Sights,
         seen : 0..MaxStarts, started : BOOLEAN, ran : BOOLEAN, sent : 0..MaxSent,
         kept : 0..MaxOutput, truncated : BOOLEAN, exit : Exits, open : BOOLEAN,
         timedOut : BOOLEAN, asked : Asked \union {0}, answer : Answers \union {NoAnswer},
         results : PassedOn..MaxResults]

Idle == [phase |-> "idle", key |-> Default, context |-> "live", saw |-> "nothing",
         seen |-> 0, started |-> FALSE, ran |-> FALSE, sent |-> 0,
         kept |-> 0, truncated |-> FALSE, exit |-> "none", open |-> FALSE,
         timedOut |-> FALSE, asked |-> 0, answer |-> NoAnswer, results |-> Failed]

Init ==
    /\ call = [c \in Calls |-> Idle]
    /\ container = [k \in Keys |-> [state |-> "absent", generation |-> 0]]

At(c, phase) == call[c].phase = phase
Live(c) == call[c].context = "live"
State(k) == container[k].state
Busy(c) == call[c].phase \in Working

Becomes(c, r) == call' = [call EXCEPT ![c] = r]

\* Cmd.Start: the client process, which inherits the pipe of its output.
Started(c, phase) == [call[c] EXCEPT !.phase = phase, !.exit = "none", !.open = TRUE]

\* runToolbox returns: what it knew of the container is forgotten.
Over(c, exit) == [call[c] EXCEPT !.phase = "reply", !.exit = exit, !.open = FALSE,
                                 !.saw = "nothing", !.seen = 0]

\* It returns before the command was executed.
Refused(c) == Over(c, "failed")

\* Mutant: a command that returned is not looked at for its deadline.
ResultByExit(c, exit) ==
    [Over(c, exit) EXCEPT !.timedOut = exit = "failed" /\ call[c].context = "deadline"]

\* What process.Run and the context say when the command is over.
Result(c, exit) == [Over(c, exit) EXCEPT !.timedOut = call[c].context = "deadline"]

-----------------------------------------------------------------------------
(* The handler: it starts a podman client and takes up what has become of it once *)
(* that has ended and its output has been read to the end.                        *)

\* A wrong bearer key, a body that does not decode, an empty command.
Reject(c) == At(c, "idle") /\ Becomes(c, Refused(c)) /\ UNCHANGED container

\* The identity, and the directory that the container will mount: MkdirAll leaves an
\* existing one alone, so that only its failure matters.
Receive(c) ==
    /\ At(c, "idle")
    /\ \E h \in Headers :
        LET identity == identifyWorkspace(h)
        IN  \/ Becomes(c, [Refused(c) EXCEPT !.key = identity.key])
           \/ /\ RequireIdentity => identity.found
              /\ identity.key \notin Blocked
              /\ Becomes(c, [Started(c, "inspect") EXCEPT !.key = identity.key])
    /\ UNCHANGED container

\* Cmd.Start fails once the context has ended.
Execute(c) ==
    IF Live(c) THEN [Started(c, "exec") EXCEPT !.saw = "nothing", !.seen = 0]
               ELSE Result(c, "failed")

\* Only a running container is used as it is.
AfterInspect(c) ==
    IF call[c].saw = "running" THEN Execute(c)
    ELSE IF Live(c) THEN Started(c, "replace") ELSE Refused(c)

\* The error of the inspection is still there when podman run succeeds.
AfterRun(c) ==
    IF call[c].exit = "code" /\ call[c].saw # "error" THEN Execute(c) ELSE Refused(c)

AfterExec(c) == Result(c, IF call[c].exit = "code" THEN "code" ELSE "failed")

\* Output, CombinedOutput and Run return when the client has ended and nobody has the
\* pipe of its output open any more.
Return(c) ==
    /\ Busy(c) /\ call[c].exit # "none" /\ ~call[c].open
    /\ \/ At(c, "inspect") /\ Becomes(c, AfterInspect(c))
       \/ call[c].phase \in {"replace", "create"} /\ Becomes(c, AfterRun(c))
       \/ call[c].phase \in {"exec", "running"} /\ Becomes(c, AfterExec(c))
    /\ UNCHANGED container

Reply(c) ==
    /\ At(c, "reply") /\ Becomes(c, Idle)
    /\ UNCHANGED container

-----------------------------------------------------------------------------
(* The podman client, or a process of its own that outlives it when it is killed. *)

Works(c) == call[c].open /\ call[c].exit \in {"none", "killed"}

\* It ends; open: a process it leaves behind still has its output open.
Ended(c, exit, open) ==
    IF call[c].exit = "none" THEN [call[c] EXCEPT !.exit = exit, !.open = open]
                             ELSE [call[c] EXCEPT !.open = FALSE]

Inspected(c, saw, seen) ==
    \E open \in BOOLEAN :
        Becomes(c, [Ended(c, "code", open) EXCEPT !.saw = saw, !.seen = seen])

\* Mutant: the printed state is not looked at.
InspectOnly(c) ==
    /\ At(c, "inspect") /\ call[c].exit = "none"
    /\ LET box == container[call[c].key]
       IN  IF box.state = "absent" THEN Inspected(c, "error", 0)
                                   ELSE Inspected(c, "stopped", box.generation)
    /\ UNCHANGED container

\* podman inspect prints the state, or returns an error: there is no such container,
\* or it failed for another reason.
Inspect(c) ==
    /\ At(c, "inspect") /\ call[c].exit = "none"
    /\ LET box == container[call[c].key]
       IN  \/ box.state = "running" /\ Inspected(c, "running", 0)
           \/ box.state = "stopped" /\ Inspected(c, "stopped", box.generation)
           \/ Inspected(c, "error", 0)
    /\ UNCHANGED container

\* podman run --replace first removes the container of that name, whatever its state.
Remove(c) ==
    /\ At(c, "replace") /\ Works(c)
    /\ container' = [container EXCEPT ![call[c].key].state = "absent"]
    /\ Becomes(c, [call[c] EXCEPT !.phase = "create"])

\* ... then starts a new one, unless the name is taken again.
Create(c) ==
    /\ At(c, "create") /\ Works(c)
    /\ LET k == call[c].key
       IN  /\ State(k) = "absent" /\ container[k].generation < MaxStarts
           /\ container' = [container EXCEPT ![k] =
                               [state |-> "running", generation |-> @.generation + 1]]
    /\ \E open \in BOOLEAN :
        Becomes(c, [Ended(c, "code", open) EXCEPT !.started = TRUE])

\* podman run fails on the way, and may leave a container that does not run.
Fail(c) ==
    /\ call[c].phase \in {"replace", "create"} /\ Works(c)
    /\ \E open \in BOOLEAN : Becomes(c, Ended(c, "failed", open))
    /\ \/ UNCHANGED container
       \/ /\ At(c, "create") /\ State(call[c].key) = "absent"
          /\ container' = [container EXCEPT ![call[c].key].state = "stopped"]

\* podman exec starts the command, or fails, as in a container that is gone meanwhile.
Exec(c) ==
    /\ At(c, "exec") /\ Works(c)
    /\ \/ /\ State(call[c].key) = "running"
          /\ Becomes(c, [call[c] EXCEPT !.phase = "running", !.ran = TRUE, !.started = FALSE])
       \/ \E open \in BOOLEAN : Becomes(c, Ended(c, "code", open))
    /\ UNCHANGED container

\* Mutant: reaching the limit counts as passing it.
WriteEager(kept, truncated, n) ==
    IF n >= MaxOutput - kept
    THEN [kept |-> MaxOutput, truncated |-> TRUE]
    ELSE [kept |-> kept + n, truncated |-> truncated]

\* Mutant: the write that passes the limit is kept whole.
WriteWhole(kept, truncated, n) ==
    IF kept >= MaxOutput
    THEN [kept |-> kept, truncated |-> TRUE]
    ELSE [kept |-> kept + n, truncated |-> truncated \/ kept + n > MaxOutput]

\* limitedBuffer.Write: what it keeps of n bytes and whether it has dropped any.
Write(kept, truncated, n) ==
    LET remaining == MaxOutput - kept
    IN  IF remaining = 0
        THEN [kept |-> kept, truncated |-> TRUE]
        ELSE IF n > remaining
             THEN [kept |-> MaxOutput, truncated |-> TRUE]
             ELSE [kept |-> kept + n, truncated |-> truncated]

\* Whoever has the pipe open writes to it, also after the client has ended.
Output(c) ==
    /\ At(c, "running") /\ call[c].open
    /\ \E n \in Chunks :
        /\ call[c].sent + n <= MaxSent
        /\ LET w == Write(call[c].kept, call[c].truncated, n)
           IN  Becomes(c, [call[c] EXCEPT !.sent = @ + n, !.kept = w.kept,
                                          !.truncated = w.truncated])
    /\ UNCHANGED container

\* The command ends, by itself or with its container.
Finish(c) ==
    /\ At(c, "running") /\ Works(c)
    /\ \E open \in BOOLEAN : Becomes(c, Ended(c, "code", open))
    /\ UNCHANGED container

\* The client has ended, but a process that inherited its output has not closed it.
Held(c) == Busy(c) /\ call[c].exit # "none" /\ call[c].open

\* The last of those processes closes it.
LetGo(c) ==
    /\ Held(c) /\ Becomes(c, [call[c] EXCEPT !.open = FALSE])
    /\ UNCHANGED container

-----------------------------------------------------------------------------
(* The context. *)

Deadline(c) ==
    /\ Busy(c) /\ Live(c)
    /\ Becomes(c, [call[c] EXCEPT !.context = "deadline"])
    /\ UNCHANGED container

Disconnect(c) ==
    /\ Busy(c) /\ Live(c)
    /\ Becomes(c, [call[c] EXCEPT !.context = "cancelled"])
    /\ UNCHANGED container

\* Mutant: podman run is started without the context.
KillButRun(c) ==
    /\ call[c].phase \in {"inspect", "exec", "running"} /\ ~Live(c) /\ call[c].exit = "none"
    /\ \E open \in BOOLEAN : Becomes(c, [call[c] EXCEPT !.exit = "killed", !.open = open])
    /\ UNCHANGED container

\* The end of the context kills the podman client.  A child process of podman survives
\* it: it has the output open and goes on working, and so does a command in the container.
Kill(c) ==
    /\ Busy(c) /\ ~Live(c) /\ call[c].exit = "none"
    /\ \E open \in BOOLEAN : Becomes(c, [call[c] EXCEPT !.exit = "killed", !.open = open])
    /\ UNCHANGED container

-----------------------------------------------------------------------------
(* Web search, by the gateway and by the MCP server: each asks SearXNG once and reads *)
(* at most some MiB of its answer.                                                    *)

GatewayBody == 4
ServerBody == 2

Limit(max) == IF max = 0 THEN DefaultResults ELSE max
AtMost(n, limit) == IF n > limit THEN limit ELSE n

\* Mutant: the default is only applied after the check of the range.
SearchNoDefault(max, answer) ==
    IF \/ max \notin 1..MaxResults \/ answer.status # "ok"
       \/ answer.body > GatewayBody \/ answer.results = "invalid"
    THEN Failed
    ELSE IF answer.results \in {"decoded", "undecoded"} THEN AtMost(answer.n, Limit(max))
    ELSE IF answer.results = "none" THEN 0 ELSE PassedOn

\* The gateway wants the status 200 and a JSON object, and cuts its results if they are
\* a list: how many it gives.
GatewaySearch(max, answer) ==
    IF \/ Limit(max) \notin 1..MaxResults \/ answer.status # "ok"
       \/ answer.body > GatewayBody \/ answer.results = "invalid"
    THEN Failed
    ELSE IF answer.results \in {"decoded", "undecoded"} THEN AtMost(answer.n, Limit(max))
    ELSE IF answer.results = "none" THEN 0 ELSE PassedOn

\* The MCP server takes every success, and decodes the results.
ServerSearch(max, answer) ==
    IF \/ Limit(max) \notin 1..MaxResults \/ answer.status = "failure"
       \/ answer.body > ServerBody \/ answer.results \in {"undecoded", "other", "invalid"}
    THEN Failed
    ELSE IF answer.results = "decoded" THEN AtMost(answer.n, Limit(max)) ELSE 0

\* The gateway's handler: one exchange with SearXNG, and no state of its own.
Search(c) ==
    /\ At(c, "idle")
    /\ \E max \in Asked, answer \in Answers :
        Becomes(c, [call[c] EXCEPT !.phase = "reply", !.asked = max, !.answer = answer,
                                   !.results = GatewaySearch(max, answer)])
    /\ UNCHANGED container

-----------------------------------------------------------------------------
(* The host. *)

\* The container's main process is killed, or the user's runtime directory goes.
Dies(k) ==
    /\ State(k) = "running"
    /\ container' = [container EXCEPT ![k].state = "stopped"]
    /\ UNCHANGED call

Gateway(c) == Receive(c) \/ Reject(c) \/ Search(c) \/ Return(c) \/ Reply(c)

Podman(c) ==
    \/ Inspect(c) \/ Remove(c) \/ Create(c) \/ Fail(c) \/ Exec(c) \/ Output(c) \/ Finish(c)
    \/ LetGo(c)

Context(c) == Deadline(c) \/ Disconnect(c) \/ Kill(c)

Next ==
    \/ \E c \in Calls : Gateway(c) \/ Podman(c) \/ Context(c)
    \/ \E k \in Keys : Dies(k)

Spec == Init /\ [][Next]_vars

\* Timers fire, a client whose context has ended is killed, and a call whose output is at
\* its end returns.  Podman and its commands may hang, whoever has inherited the output
\* may keep it open, and the client of the gateway may never read its answer.
Fairness ==
    \A c \in Calls : WF_vars(Deadline(c)) /\ WF_vars(Kill(c)) /\ WF_vars(Return(c))

FairSpec == Spec /\ Fairness

-----------------------------------------------------------------------------
(* Properties. *)

TypeOK ==
    /\ call \in [Calls -> Call]
    /\ container \in [Keys -> [state : {"absent", "stopped", "running"},
                              generation : 0..MaxStarts]]

\* A workspace's directory is directly below agent-workspaces: whatever the headers of
\* a request say, its key is one component of a path that the file system does not
\* resolve.
KeyIsOneComponent ==
    \A c \in Calls :
        LET key == call[c].key
        IN  /\ key \notin {<<>>, <<".">>, <<".", ".">>}
            /\ \A i \in DOMAIN key : key[i] # "/"

\* However the output is cut into writes, a request keeps the first bytes up to the
\* limit, and says that it was truncated exactly when a byte was dropped.
OutputIsPrefix ==
    \A c \in Calls :
        /\ call[c].kept = Min({call[c].sent, MaxOutput})
        /\ call[c].truncated <=> call[c].sent > MaxOutput

\* A request whose command ran past the deadline says so, whatever the exit code and
\* whoever ended the command; one that does not say so was not executed.
TimeoutIsTold ==
    \A c \in Calls :
        (At(c, "reply") /\ call[c].context = "deadline" /\ ~call[c].timedOut) => ~call[c].ran

\* A running container, with what earlier requests left in it, is only removed by a
\* request whose inspection failed or is older than the container.
ReplaceOnlyUnseen ==
    [][\A k \in Keys :
        (State(k) = "running" /\ container'[k].state = "absent") =>
            \E c \in Calls :
                /\ At(c, "replace") /\ call[c].key = k
                /\ call[c].saw = "error" \/ call[c].seen < container[k].generation]_vars

\* Whatever hangs in podman or in its command, a request gets its answer ready: at its
\* deadline the podman client is killed and no further one is started.  Only a process
\* that outlives the client and keeps its output open for ever keeps the request too.
EveryCallEnds ==
    \A c \in Calls : []<>~Held(c) => (Busy(c) ~> At(c, "reply"))

\* runToolbox "executes one command inside the persistent container": a request that
\* started the container is not answered as one that could not execute its command,
\* unless its own context ended.
StartedIsUsed ==
    \A c \in Calls :
        (At(c, "reply") /\ call[c].started /\ Live(c)) => call[c].exit # "failed"

\* A search never gives more results than were asked for.  The gateway gives the number
\* that the MCP server would give whenever that succeeds on the status 200, and gives
\* results where the MCP server fails only if these do not decode or take too many bytes.
SearchesAgree ==
    \A c \in Calls :
        LET r == call[c]
            server == ServerSearch(r.asked, r.answer)
        IN  /\ r.results <= Limit(r.asked) \/ r.results = Failed
            /\ (server # Failed /\ r.answer.status = "ok") => r.results = server
            /\ (server = Failed /\ r.results # Failed) =>
                  \/ r.answer.results \in {"undecoded", "other"}
                  \/ r.answer.body > ServerBody
================================================================================
