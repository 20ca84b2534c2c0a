# A formal model of llama-stack

llama-stack installs and runs a local LLM stack on one host. Its concurrent, persistent
logic is the **port-lease broker** in `internal/resource`: agents lease host ports
for a limited time, the broker forwards them to the agent's workspace, and all of it
must survive expiry, revocation, full pools, failing statements and restarts. Around it
are the daemon that serves it and schedules expiries, a gateway that runs agents'
commands in persistent containers, and an installer that brings secrets, models,
generated files and services into agreement. Each of them is modelled here, as far as
it keeps state or can be interrupted.

Contents: [inventory](#1-inventory), [modules](#2-modules), the models and the code:
[broker](#3-the-broker-model-and-the-code), [proxy](#4-the-proxy-model-and-the-code),
[daemon](#5-the-daemon-model-and-the-code), [toolbox](#6-the-toolbox-model-and-the-code),
[installation](#7-the-installation-model-and-the-code),
[model store](#8-the-model-store-and-the-code);
[runs](#9-what-the-runs-check), [findings](#10-findings), [proofs](#11-what-is-proved),
[what is left out](#12-what-is-not-modelled), [plan](#13-plan).

## 1. Inventory

| component | state it keeps | operations | hard behaviour | what makes it correct |
|---|---|---|---|---|
| **Port-lease broker**, `internal/resource/manager.go`, `store.go`, `types.go` | SQLite tables of capabilities and leases (a lease references its capability, deletes cascade); a map of open listeners; a channel closed when capacity changes; one mutex | IssueCapability, Authenticate, Allocate (with wait), List, ListAll, Renew, Release, Revoke, RevokeCapability, Reap, Open (reconcile), Close | requests interleave; `now` is read before the mutex; waiting and waking; two deletes in one collection; crash between any two steps; ports taken by other processes | a port has one lease; listeners and rows agree; limits hold; a lease stays within its capability; waiters are woken; restart restores |
| **TCP proxy** of a leased port, `internal/resource/proxy.go` | listener, closed flag, set of client connections, one mutex | serve, forward, close | accept racing close; connections that outlive the lease | after close nothing is forwarded; every tracked connection is closed |
| **HTTP API and client**, `internal/resourceapi/api.go` | none of its own | eight routes, each a token check, one manager call and, for allocate and renew, a job to schedule | the manager call has taken effect when scheduling fails | an error means nothing was taken |
| **Daemon**, `cmd/llama-stackd/main.go` | the manager, the job client, the HTTP server | start, reschedule restored leases, serve, stop | three ways to stop, requests in flight, deferred closes | no listener survives; every restored lease has a job |
| **MCP resource server**, `cmd/llama-stack-resource-mcp` | none | four tools, each one API call | none of its own | an answer that is lost leaves what the API did |
| **Agent tools gateway**, `cmd/llama-stack-agent-tools` | one podman container per workspace key, workspace directories, an output buffer per call | exec, search | concurrent first requests of one workspace; deadlines and lost clients while podman runs; output limit | a running container is kept for later requests; a timeout is told; output is bounded; a request is over at its deadline |
| **Search MCP server**, `cmd/llama-stack-search-mcp` | none | search | defaults and limits at their ends; statuses, sizes and shapes of an answer that the gateway takes otherwise | where it succeeds on the status 200, the gateway gives as many results |
| **Installer and CLI**, `cmd/llama-stack` | secrets, directories, unit files, models on disk | install, render, model add/list, lifecycle commands | interrupted, repeated and concurrent installs; concurrent imports beside a starting server | secrets survive; an undisturbed install completes what was begun; a registered model is complete and gets served |
| **Model profiles**, `internal/modelprofile` | a preset file | Render | an ambiguous model; a model that appears during the start | what is served has its profile |
| **Rendering**, `internal/render` | generated files | Write | files replaced one by one, an interruption between them | the files agree with one configuration |
| **Configuration**, `internal/config` | none | Load, Validate | boundaries | every accepted configuration is usable |
| **Privilege, doctor** | none | read-only checks | none | |
| scripts, containers, config | none | shell | none | |

Interactions: the CLI, the MCP resource server and agents reach the broker through
the HTTP API; the daemon opens the manager, gives the API a scheduler built on
gasket jobs, and registers `Reap` as the consumer of those jobs; the manager starts
its own reap loop and one goroutine per proxy. Everything inside the manager meets
at `manager.mutex`, the database and the `changed` channel. The tools gateway and the
installer share nothing with the broker but the configuration file; the installer's
`model add` meets llama-server's start in the models directory and at systemd.

## 2. Modules

| module | what it is |
|---|---|
| `LeasePool` | the abstract promise: a pool of ports, leases that get and give up all their ports in one step under fresh ids |
| `LeaseBook` | the abstract promise to the holders of capabilities: leases under fresh ids of a capability that exists, which end before their time only with it, by a release, or with the process |
| `PortBroker` | the manager and its store: state, every operation, properties, the refinement mapping to `LeasePool` |
| `MCPortBroker` | symmetry for model checking |
| `PortBrokerProofs` | the inductive invariant of the broker, its lemmas, and the invariants read off from it |
| `PortPoolProofs` | first fit, the limits, and that the broker implements `LeasePool` |
| `PortBrokerStepProofs` | what a step of the broker may never do; that leases are served: restarts, listeners, and the waking of requests; that the broker implements `LeaseBook` |
| `ResourceDaemon` | `llama-stackd` and the HTTP API: what handlers, scheduler, start and stop do between calls of the manager; the refinement mapping to `LeaseBook` |
| `ResourceDaemonProofs` | the inductive invariant of the daemon, its theorems, and that it implements `LeaseBook` |
| `Toolbox` | exec requests over persistent containers, the output buffer, workspace keys, searches |
| `ToolboxProofs` | the inductive invariant of the toolbox and its theorems |
| `Installation` | `install` and `render`: secrets, images, generated files, systemd's view, running services |
| `InstallationProofs` | its inductive invariant and theorems |
| `ModelStore` | `model add` and the start of llama-server with the presets it renders |
| `ModelStoreProofs` | its inductive invariant and theorems |
| `Proxy` | the forwarding proxy of one leased port: accept loop, `forward` with its copiers, `close` |
| `MCProxy`, `MCResourceDaemon`, `MCToolbox`, `MCInstallation`, `MCModelStore` | values and symmetries for model checking the module of that name |
| `ProxyProofs` | the inductive invariant of the proxy and its theorems |

A definition marked *mutant* is a variant of the one that follows it with a plausible
mistake. Nothing refers to it; it is there to be put in the original's place, to see
that the property named beside it in `PROJECT.json` is then violated.

`PortBroker` and `Proxy` meet where the manager calls `newProxy`, `serve` and `close`:
`proxies[p] = l` in `PortBroker` is a `Proxy` that has not been closed, and every
`CloseLeaseProxies` is a `Close` of each proxy concerned. `ResourceDaemon` stands above
`PortBroker`: there a call of the manager is one step on the lease table, by what
`PortBroker` shows of it, and the subject is what may come between two calls. What ties
the two is `LeaseBook`: both implement it, the broker with the critical sections, stale
times and failing statements inside a call, the daemon with what comes between calls.

## 3. The broker model and the code

**State.** `capabilities` and `leases` are the two tables, as sets of rows.
Token hashes and lease ids are random in the code; here they are taken from
the counters `nextCap` and `nextLease`, so an id is never drawn twice.
`proxies` is `manager.proxies`: for each pool port, the lease its open listener
forwards for, or `NoLease`. `changed` is the channel: it holds the requests whose
copy of `manager.changed` has not been closed, so *closing the channel and making a
new one* is `changed' = {}`. `req` has one record for each concurrent API request,
with exactly the values the goroutine carries: the copy of the capability row that
`Authenticate` returned, and inside `Allocate` the number of ports, the deadline,
whether it waits, and the time at which `now` may have been read. `status` is the
process: down, up, or inside `Close` (`closing`: listeners dropped, database open;
`closed`: database closed). `foreign` are the pool ports other processes have bound.
`clock` is the time all expiries are compared with.

**Steps.** A critical section of `manager.mutex` is one action. Steps outside it are
actions of their own, because other requests may come between:

| code | actions |
|---|---|
| `Allocate`, entry | `AllocateEnter` |
| `Allocate`, copy of the channel under the mutex | `Snapshot` |
| `allocateOnce` | `Attempt`: `Forbidden`, `PurgeFails`, `Denied`, `Exhausted`, `Granted`, one for each way out |
| the `select` | `Wake` (channel), `Timeout` (timer), `Cancel` (context) |
| `IssueCapability`, `Authenticate`, `Renew`, `Release`, `Revoke`, `RevokeCapability`, `Reap` | the actions of those names; `Reject` is a request that ends in an error with no effect |
| `Close` | `CloseBegin`, `CloseEnd` |
| `Open` with `reconcile` | `Open`, `OpenFails`, `OpenStoreFails` |
| end of the process | `Crash`, at any moment |

`allocateOnce` reads `now` before it locks the mutex, so an attempt uses any time
between `Snapshot` and its critical section. The purge, the limits, the choice of
ports, the row and the listeners are one action, as in the code. First fit is kept:
the lowest ports that no active row owns and that can be bound.

**Failures.** With `StoreMayFail`, any operation that makes a store call may
return early. Where several calls change state the half-done outcomes are actions:
`PurgeFails`, `ReapFails` and `OpenStoreFails` (listeners closed, rows deleted or not,
no signal), `Denied` (purged, then an error), `RevokeCapabilityFails` (listeners
closed, rows kept), an ignored failing delete in `Reconcile`. A crash inside a
critical section is such an outcome followed by `Crash`.

**Abstractions.** Target hosts, target ports, workspace ids and creation times are
left out: no decision of the manager depends on them. A request names only how many
ports it wants. The caller's TTL is chosen where it is used. `len(record.Ports)` is
summed as the size of the union of the rows' ports, which is the same number because
`PortExclusive` holds. The order in which `reconcile` visits rows is left open
(it is an argument of the database library): the row visited last may be any. The
database library, `net.Listen` and the clock are external; the model relies on a
statement being atomic, on a cascading delete, and on a port being bindable by
one socket at a time.

**Bounds.** `MaxTime`, `MaxCapabilities`, `MaxLeases` and `MaxPorts` bound the clock,
the rows ever created and the size of a request. An allocation is admitted only
when the leases it could create fit `MaxLeases`, so that no request is stuck on the bound
itself, and its deadline lies before `MaxTime`, so that every wait can time out.

## 4. The proxy model and the code

One `Proxy` is one leased port. `closed` is the flag, and stands for the listener too,
which is closed in the same critical section and nowhere else. `phase` says where each
connection is: in the kernel's backlog (`queued`), returned by `Accept` and not yet
registered (`arrived`), inside `forward` (`dial`, `copy`), or over (`gone`).
`proxy.connections` holds the connections in `dial` and `copy`. `open` are the sockets
this process has, one for the client and one for the target; `broken` and `ended` are
what their peers did: a reset, or the end of their input with the connection still
readable. `copier[c][s]` is the goroutine that copies what side `s` of `c` sends:
waiting to read, holding one piece to write, or ended. `sent` and `passed` count pieces.

| code | actions |
|---|---|
| `serve` | `Accept`, `AcceptFails`, `Register` (under the mutex: drop the client if closed) |
| `forward` | `Dial`, `DialFails`, `Finish`; both end in `Return`, the deferred calls |
| the two `io.Copy` | `Read`, `ReadEnds`, `Write`, `WriteFails` for each side |
| `close` | `Close`, one critical section |
| clients and target | `Connect`, `Send`, `EndInput`, `Reset` |

The deferred closes and the delete of `forward` are one step: `close` on a socket that
is already closed does nothing, so nothing can come between that would show. The data
are counted, not named: `io.Copy` keeps order, and what can go wrong is how much
arrives. A client connects once; `Clients` and `MaxSent` are the bounds.

## 5. The daemon model and the code

`ResourceDaemon` has the process (`proc`, `listening`, `open`: which of the manager and
the job client are open), the lease table `rows` and the state of each capability, the
pending `jobs` in gasket's own database, and one record per concurrent request in
`call`. A request that has reached the manager is in one of the phases `call`, `waiting`,
`schedule` (the manager has answered, `api.schedule` has not), `undo` (scheduling failed,
the release has not been made), `reply` (the answer is not delivered).

| code | actions |
|---|---|
| `run`, start | `Start` (manager and job client opened; the manager keeps some active leases), `Restore` for each of them, `Serve` |
| `api.allocate`, `renew`, `release` | `Receive`; `Grant`, `Exhausted`, `WaitEnds`, `RenewCall`, `Release`; `Schedule`, `ScheduleFails`, `Undo`; `ManagerFails` |
| the administrator's routes | `Administer`; reads and refused requests are `Inspect` |
| `Client`, MCP tools | `Receive` and `Deliver`: one client call per tool; the answer may be lost |
| the consumer of expiry jobs, `reapLoop` | `RunJob`, which may fail for good, and `ManagerReap` |
| end of `run` | `Shutdown` with `Drained` or `DrainTimesOut`; `Fails`; `CloseJobs`, `CloseManager` in the order of the deferred calls; `Exit`; `Crash` |

`excused` records the leases for which a failure was reported or dropped: a renewal whose
scheduling failed, a release that failed after a failed scheduling, a job that used up its
retries. Leases in `rows` belong to `Capacity` places instead of ports. The jobs survive a
crash and the next start adds to them. `Duration` multiplies at `WordSize`, so an absurd
`wait_seconds` may wrap into the accepted range (with seconds 11, unit 12 and words of 64
in the run); what is then waited for is a wait the handler does accept.

## 6. The toolbox model and the code

`Toolbox` has one record per concurrent request and the container named after each workspace
key with the number of times it was started. A request that works waits for one podman
client: `exit` says how that process has ended, and `open` that some process has the pipe of
its output open. Podman and commands are external: they may fail or hang anywhere.

| code | actions |
|---|---|
| `execute`, `identifyWorkspace`, `workspacePath` | `Receive`, `Reject` |
| `Output`, `CombinedOutput` and `Run` returning in `ensureToolboxContainer` and `runToolbox` | `Return`, which goes on with `AfterInspect`, `AfterRun`, `AfterExec` |
| podman, started there | `Inspect`; `Remove` and `Create`, since `podman run --replace` removes what has the name and then creates, so others may come between; `Fail`; `Exec`, `Output`, `Finish` |
| the context of `exec.CommandContext` | `Deadline`, `Disconnect`; `Kill` is the podman client it kills |
| `limitedBuffer.Write` | `Write`, used by `Output` |
| `writeJSON` | `Reply` |
| `search`, of the gateway and of the MCP server | `Search`, `GatewaySearch`, `ServerSearch` |
| the host | `Dies`, `LetGo` |

Killing the client and the return of the call are two steps. The buffers are no files and no
`WaitDelay` is set, so the call also waits until the pipe of the output is closed: a
client may leave a process behind that has it open (`Held`), goes on with podman's work and
writes to it, until it closes it (`LetGo`), if ever.

`saw` is what the inspection told; its error stays, as the code keeps it in its named result.
Workspace keys are short sequences in which `/` stands for any character that is
replaced. Output is counted: a chunk is its length. A search is one exchange without state of
its own. The answer of the service is one record for both programs (`Answer`: status, size
and shape), and each has the conditions of its own source for it: the gateway wants the
status 200, reads 4 MiB and passes on results that are no list; the MCP server takes every
success, reads 2 MiB and fails on what does not decode.

## 7. The installation model and the code

`Installation` follows a version of the configuration through the host: `config`, one
`secret` file with its key and owner, `images`, the generated files on `disk`, what systemd
has `loaded` of them, and the version each `running` container was started with. Every
`command` is an `install` or a `render` and holds the copy of the configuration it
loaded. A key is a number from the counter `made`; 0 is what a file holds that was created
and not written.

| code | actions |
|---|---|
| `main`, `run` | `Begin` |
| `ensureSecret` | `Stat`, `CreateSecret`, `WriteSecret`, `ChownSecret` |
| `buildToolboxImage`, `pullServiceImages` | `Fetch` |
| `render.Write` | `WriteTarget`, `WriteUnits` (one file a step, the Quadlets of disabled services too), `WriteEnv` |
| `setGeneratedOwnership`, `systemctl` | `SetGeneratedOwnership`, `Reload`, `Enable` |
| an error or a crash | `Ends`, from any phase |
| administrator and host | `Edit`, `RestartTarget`, `Stop` |

One secret stands for the secrets, which are alike and made in sequence. Each generated file is
replaced by a rename, so it has one version or another. Directories and accounts are made
by operations that do nothing when they exist, and are left out. `alone` is history:
no other command was under way since this one began.

## 8. The model store and the code

`ModelStore` has the models directory (`model`: the import each registered name is from, and
whether it is whole; `temp` and `orphans`: temporary files of running and crashed imports),
the phase of each `model add`, llama-server and its `preset` file.

| code | actions |
|---|---|
| `addLocalModel` | `Look` (the name is free), `CreateTemp`, `Copy`, `Settle` (account, owner), `Rename`, `Restart`; the deferred removal is in `Fails`; `RestartFails`, `Crash` |
| `runLlamaServer`, `modelprofile.Render` | `List` (the directory is read), `Render` (no model with two profiles; the preset file replaced), `Exec` |
| systemd, llama-server | `Start` (on request, and after a failure: `Restart=on-failure`), `ServerFails`, `Stop` |

`Restart` is `systemctl try-reload-or-restart`: it starts an active unit again, one that is
still starting included. A profile is known only by which names it matches.

## 9. What the runs check

| run | instance | properties |
|---|---|---|
| `broker_safety` | 2 requests, 2 capabilities, 2 leases, 2 ports of which one is contended, statements fail | `TypeOK`, `PortExclusive`, `ProxyHasLease`, `LeaseWithinCapability`, `EndedStaysEnded`, `TenantIsolation`, `ImplementsPool` |
| `broker_forwarding` | 1 request, 2 runs of one user, 4 ports of which two are contended, limits 2 and 3, crashes and restarts, a store that works | `LeaseIsForwarded`, `WithinQuota`, `RestartKeepsLeases` |
| `broker_liveness` | 2 waiting requests, 1 capability, 2 ports, no contention, a store that works, under `Fairness` | `NoLostWakeup`, `AllocateReturns`, `ExpiredIsReaped` |
| `proxy_safety` | 2 clients, one piece from each end, resets, `Accept` fails | `TypeOK`, `ClosedDropsClients`, `ClosedCarriesNothing`, `AnswerIsDelivered` |
| `proxy_liveness` | 2 clients that may stall, no resets, `Accept` works, under `Fairness` | `CloseEndsForwarding`, `BacklogIsServed` |
| `daemon` | 2 requests, 1 capability, room for 1 lease, 2 leases ever, waits 0, 3 and 11 s at 64-value words, failures, crashes and restarts, under `Fairness` | `TypeOK`, `LeaseHasJob`, `ErrorTakesNothing`, `DrainedIsQuiet`, `StopIsBounded`, `ImplementsBook` |
| `toolbox` | 2 requests, 3 sets of headers of which one names a directory that cannot be made, output limit 1 with writes of 1 and 2, 2 starts of each container, searches for 0, 1 and 11 results, 11 answers, under `Fairness` | `TypeOK`, `KeyIsOneComponent`, `OutputIsPrefix`, `TimeoutIsTold`, `SearchesAgree`, `ReplaceOnlyUnseen`, `EveryCallEnds` |
| `installation` | 2 commands, 1 container service, 1 edit of the configuration, 2 keys | `TypeOK`, `SecretIsKept`, `AloneIsComplete` |
| `models` | 2 imports, a name with one profile and one with two, 2 renames, under `Fairness` | `TypeOK`, `RegisteredAreWhole`, `ServedHasProfile`, `ReplacedOnlyUnseen`, `ImportIsServed` |

- `PortExclusive`: no port in two rows. It must hold even when listeners were closed
  for rows that stayed (a failed revocation), so binding the port is not enough.
- `ProxyHasLease`: no listener outlives its row. The cascade of a capability's delete
  is the path that could break it, and `LeaseWithinCapability` is why it does not.
- `WithinQuota`: the run and user limits hold over all rows, across capabilities.
- `EndedStaysEnded`: an expired lease is never renewed, restored or given a listener,
  although its row may wait for the reaper.
- `TenantIsolation`: a request's steps leave other capabilities' unexpired leases and
  their listeners alone, including the purge inside an allocation.
- `ImplementsPool`: the broker refines `LeasePool` under
  `holder[p]` = the row that owns `p`, `issued` = `nextLease - 1`. Crashes, restarts,
  waiting and renewals are stuttering steps of the pool.
- `LeaseIsForwarded`: while up, every unexpired lease is forwarded on all its ports.
- `RestartKeepsLeases`: a restart restores every unexpired lease it can bind.
- `NoLostWakeup`: a request still parked on an open channel could not be served.
- `AllocateReturns`, `ExpiredIsReaped`: every allocation ends, every expired lease is
  collected while the daemon stays up.
- `ClosedDropsClients`: after `close` no client is left open; the case that could break
  it is a client that `Accept` returned just before.
- `ClosedCarriesNothing`: after `close` nothing is read from a client and nothing
  reaches one, dials that succeed late included. One piece per connection that was
  already read may still be written to the target.
- `AnswerIsDelivered`: between two well ends, of which the client keeps its side open,
  the target's whole answer arrives although the first copier to end ends both.
- `CloseEndsForwarding`: after `close` no goroutine and no socket stays, although the
  ends are silent and clients stall. It fails when the *target* stops reading
  (`Stalling = {"target"}`): `close` closes clients only, so a copier blocked in a write to
  the target, and the one waiting for the target to send, have nothing to wake them.
- `BacklogIsServed`: a client in the backlog is accepted or refused.
- `LeaseHasJob`: outside a stopped process each lease has a job that comes no later than
  its end (or is due), or a handler or start about to schedule it, or a reported failure.
  Crashes between the insert and the job, and renewals that move the end, could break it.
- `ErrorTakesNothing`: an allocation answered with an error holds no lease.
- `DrainedIsQuiet`: no handler meets a manager that is closed after a drain in time.
- `StopIsBounded`: a signal or an error ends the process.
- `ImplementsBook`: the daemon refines `LeaseBook` under `entries` = the lease table,
  `granted` = `nextLease - 1`, `valid` = the live credentials, `up` = the process runs. A
  lease is renewed only before its end, goes to a capability that still exists, and leaves
  before its end only by a release, a revocation, an administrator or a restart. Waiting,
  scheduling, jobs and answers are stuttering steps.
- `KeyIsOneComponent`: a workspace key is one component of a path, and not `.` or `..`.
- `OutputIsPrefix`: however output is cut into writes, the limit's first bytes are kept and
  `truncated` says exactly whether one was dropped.
- `TimeoutIsTold`: a command that ran past the deadline says so, with an exit code or not.
- `ReplaceOnlyUnseen`: a running container is removed only on an inspection that failed or
  is older than the container.
- `EveryCallEnds`: whatever hangs in podman or a command, a request gets its answer ready, if
  its output is closed again and again: only a process that outlives the killed client and
  keeps the output open for ever keeps the request. That the client takes the answer is
  not claimed.
- `SearchesAgree`: no search gives more results than asked for; the gateway gives the
  MCP server's number whenever that succeeds on the status 200, and succeeds alone only with
  results that do not decode or an answer above 2 MiB.
- `SecretIsKept`: a written secret is replaced by no command that saw it.
- `AloneIsComplete`: an undisturbed command that succeeds leaves files, their key and owner, and
  systemd's view all of its configuration, whatever was interrupted before. The key is the
  one of the secret file, which may be empty or owned by root after a crash (section 10).
- `RegisteredAreWhole`: a registered name is a whole copy. `ReplacedOnlyUnseen`: an import
  replaces only a model that was not there when it looked.
- `ServedHasProfile`: a running server offers a model without its profile only while the
  restart of its import is to come or has failed: a model registered between the listing and
  the start of the server is not forgotten. `ImportIsServed`: it is served in the end.

The bounds are small but reach the cases that matter: two leases and two
capabilities are enough for a lease to be freed while another request waits, for one
capability's expiry to cascade past another's lease, and for a restart to lose
one lease and keep one; three time units let a capability expire, a stale `now`
differ from the clock, and a wait time out; four ports with limits two and three let
each limit bind while the pool still has room. For the proxy, two clients let one be
closed while the other is between `Accept` and the mutex, and one piece in each
direction is enough to be held in a copier when the other direction ends. For the daemon,
two requests and room for one lease let one wait, be refused or lose its lease to the other's
release between the grant and the schedule; one time unit lets a lease expire. Two starts of a
container let one request replace what another has started; one container is enough, since
requests of different keys share nothing, so the other key's directory cannot be made and its
requests are refused. Writes of 1 and 2 over a limit of 1 end at it, pass it inside a write
and come after it; the answers of the search service lie on both sides of every condition of
its two readers. Two commands and two keys
let one install overwrite another's secret; one service is enough for its unit, the
target and its state to disagree, and `finding_restart` has two. Two imports and two renames
let one replace the other's model, beside a server in every phase. Requests, clients, commands
and services are interchangeable, and the runs without liveness use that symmetry.

**Fairness.** `Tick`, the reap loop (a ticker of 15 seconds in a goroutine that only
`Close` stops), and the steps of an allocation that the Go scheduler, the mutex or
the timer will take (`Snapshot`, `Attempt`, `Wake`, `Timeout`). Callers,
administrators, other processes, failures, crashes and restarts get none: a stopped
daemon may stay down, which is why `ExpiredIsReaped` speaks of a daemon that is up.
In `Proxy`, the goroutines run, a dial ends within its ten seconds, `Accept` returns
when there is a client or the listener is closed, and a write returns unless its reader
may stall. The ends owe nothing: they may be silent for ever, and `Close` need not come.
In `ResourceDaemon`, the deferred calls run (`Stopping`);
handlers, jobs, signals and restarts owe nothing. In `Toolbox`, timers fire, a podman client
whose context has ended is killed (`SIGKILL` ends it), and a call whose client has ended and
whose output is closed returns; podman and commands may hang, a process may keep the output open,
and a client may never read its answer (the server has no `WriteTimeout`). In
`ModelStore`, an import goes on, systemd starts a failed server again (`Restart=on-failure`,
five seconds later), and `List`, `Render` and `Exec` are strongly fair: a start that is tried again
and again does not fail each time for a reason outside this code. An ambiguous model
disables `Render` and is excepted in the property.

## 10. Findings

Each is a run with one property that a comment or the README states and the code does
not keep; TLC prints the steps.

| run | what happens |
|---|---|
| `finding_open` | `reconcile` keeps the `Listen` error of a lease it dropped. If that row was the last one visited, `Open` fails and the daemon exits, with the other leases already restored. The dropped row is gone, so the next start succeeds. |
| `finding_first_call` | `ensureToolboxContainer` keeps the error of `podman inspect` in its named result. For a workspace without a container, inspect fails, `podman run` starts one, and the function still returns the error: the first command is answered with exit code -1 and never executed. |
| `finding_restart` | No rendered unit is `PartOf=` the target, so restarting the target leaves running services on their old configuration. |

More behaviours are worth knowing. They are in the models; no run states their opposite.

- Broker, with a failing statement: a collection that deletes the expired leases and then
  fails on the capabilities does not signal, now or later, and a waiting request with free
  capacity sleeps until its wait ends (`NoLostWakeup` fails with `StoreMayFail`);
  `RevokeCapability` closes listeners before it deletes the row, so a failing delete leaves
  active leases that nothing forwards until a restart (`LeaseIsForwarded` fails).
- Broker: an allocation between the two halves of `Close` opens listeners that nothing closes.
  `Renew` with a TTL smaller than the time left shortens a lease.
- Proxy: one failing `Accept` (too many open files) ends the loop for good, while the listener
  stays open (`BacklogIsServed` fails with `AcceptMayFail`). `forward` returns at the first
  end of input, so a client that ends its input after its request loses the rest of the answer.
- Daemon: a `wait_seconds` far out of range may wrap into it.
- Installer: Quadlets of disabled services keep `WantedBy=` the target, which therefore starts
  them without a pulled image. A crash while a secret is written leaves an empty or
  root-owned file that later installs keep. Two installs at once may both make a key, and the
  environment file may hold the first.
- Toolbox: without `WaitDelay`, a process that outlives the killed podman client and has its
  output open keeps the request past its timeout, for as long as it likes (`EveryCallEnds` without
  its condition fails). One answer of SearXNG may be a result of one search and an
  error of the other: another success than 200 (MCP server only); more than 2 and at most 4 MiB, or
  results that are no list of the expected fields (gateway only).
- Models: a crash leaves `.model-*.gguf`, which is then listed and offered. One model that two
  profiles match keeps the server down for all.

## 11. What is proved

**The broker.** For every pool, limit, set of users, runs, requests and waits, with or
without failures and contention:

- `TypeCorrect`: `Spec => []TypeOK`;
- `PortsAreExclusive`, `ListenersHaveLeases`, `LeasesStayWithinCapability`:
  `PortExclusive`, `ProxyHasLease` and `LeaseWithinCapability` are invariants;
- `ExpiredLeasesStayEnded`, `TenantsAreIsolated`: every step keeps `EndedStaysEnded` and
  `TenantIsolation`;
- `QuotasAreKept`: `WithinQuota` is an invariant;
- `BrokerImplementsPool`: `Spec => ImplementsPool`;
- `RestartRestores`: every step keeps `RestartKeepsLeases`;
- `BrokerKeepsBook`: `Spec => Book!Spec`, the refinement of `LeaseBook`.

Two more hold under a condition on the constants, which their statements assume:

- `LeasesAreForwarded`: with `~StoreMayFail`, `LeaseIsForwarded` is an invariant;
- `NobodySleepsThrough`: with `~StoreMayFail` and `Contended = {}`, so is `NoLostWakeup`.

The conditions are needed: section 10 says what a failing statement does to both, and
nobody is told when another process gives a port back.

They rest on the inductive invariant `IInv`. The first properties are not
inductive alone. A listener is safe from the cascade only because a lease expires no
later than its capability (`KeptIsActive`); a new lease satisfies that only because the
capability copy carried by the request still agrees with the table
(`CopiesAgree`); that in turn needs hashes to be fresh and unique (`CapabilityIds`);
and a failing start may delete rows without touching listeners only because a process
that is down has none (`DownIsSilent`). `CapabilitiesStep` and `LeasesStep` look at
every action once and sort the steps into deletions, an issue, a renewal and an
allocation; the conjuncts are then proved over those few kinds, except
`ProxyHasLease`, which is proved action by action because rows and listeners
change in different orders.

`EndedStaysEnded` and `TenantIsolation` use the invariant on both sides of a step: a
lease that is active now was active at the stale `now` of an allocation, so its purge
spares it (`PurgeSparesActive`). `WithinQuota` needs that first fit never returns more
ports than asked for (`FirstFitBound`), from the greatest port it returns; the
refinement needs that it returns some (`FirstFitNonempty`), from the least one free.
A step that deletes rows ends, in `LeasePool`, the leases whose ports it freed
(`EndedRows`), a renewal is a stutter, an allocation ends what it purged and grants.

`LeaseIsForwarded` and `NoLostWakeup` are inductive together with `IInv`. Closing the
listeners of some rows spares the others because no port is in two rows
(`OthersForwarded`). What is free is what no row and no other process has, since every
listener has its row (`FreePorts`); and a request that is still parked after a step
either has just counted the free ports (`JustParked`) or was parked before, with no
row's ports given up in between (`StaysParked`, `ParkedStep`).

For `LeaseBook`, an entry is a row without its ports, and rows with different ids have
different entries (`EntriesDiffer`). Whatever deletes rows leaves each lease with its
capability (`CascadeStep` says so of all steps), so a purge, failing or not, is a `Collect`
(`PurgeIsInBook`), and a start, failing or not, a `Restart`. A renewal ends after now because
the copy a request carries is the capability that was found live (`CopiesAgree`). No run
checks this refinement; `daemon` checks the one above it.

**The proxy.** For any number of clients and pieces, with `Accept` failing, and ends
resetting and stalling: `CloseDropsEveryClient` (`ClosedDropsClients`), `CloseCarriesNothing`
(`ClosedCarriesNothing`), `AnswersAreDelivered` (`AnswerIsDelivered`) and
`ProxyTypeCorrect` (`TypeOK`, which has that no copier has passed on more than its end has sent). The invariant adds
which sockets and goroutines a connection has in each phase (`SocketsOfPhase`), that
a copier holds at most one piece (`PassedWithinSent`), and that on an untouched
connection the client's copier goes on while the target's ends only when its answer
is through (`AnswerInTime`): that is why ending at the first copier loses nothing.

**The daemon.** For any number of handlers and capabilities, any capacity, wait and word
size: `DaemonTypeCorrect` (`TypeOK`), `LeasesHaveJobs` (`LeaseHasJob`), `ErrorsTakeNothing`
(`ErrorTakesNothing`) and `DrainsAreQuiet` (`DrainedIsQuiet`). `LeaseHasJob` is not inductive:
a handler about to schedule an *earlier* end of the same lease would satisfy it, and be no
help. `RowsAreAccounted` asks for the handler that schedules this very end (`Answers`);
`CallsCarry` says what a handler holds in each phase; `RowsAreNumbered` that ids are below
`nextLease` and name one row, so that `Undo` takes back the right one; `IdsSuffice` that every
admitted allocation finds an id; `DrainIsDeaf` that nothing is accepted or under way before
the start is over and after a drain.

`DaemonKeepsBook`: `Spec => ImplementsBook`. Beside `IInv` it needs `BookInv`: a lease in the
table has a live credential, or a collection could not promise what it leaves, and a process
that is down has no manager open. `Undo` and `Release` end one lease at most because no id is
in two rows (`RemovalIsInBook`); a grant or a renewal is one step of the book although its
expiry is not scheduled yet.

`WaitsThatFitAreChecked`: the wait is multiplied into nanoseconds before it is compared with
the maximum. If the nanoseconds of the wait and of the maximum fit the word (`Fits`), it is
accepted exactly when it is in range: only seconds that do not fit are judged wrongly.

**The toolbox.** For any number of requests, headers, output limit and number of starts:
`ToolboxTypeCorrect` (`TypeOK`), `KeysAreOneComponent` (`KeyIsOneComponent`), `OutputsArePrefixes`
(`OutputIsPrefix`), `TimeoutsAreTold` (`TimeoutIsTold`), `SearchesDoAgree` (`SearchesAgree`, from
`SearchesCompare`, which holds of every number asked for and every answer of the service, and
gives exactly where the two searches differ) and `OnlyUnseenReplaced`
(`ReplaceOnlyUnseen`). `OutputIsPrefix` is inductive with what the buffer's mark says; a timeout
is told because a command that ran is marked in every phase up to the answer (`Carries`); and a
request replaces a running container only unseen because its inspection is never newer than the
container, and older once that runs (`ReplacesAreOlder`): each start makes a container that no
inspection has seen.

**The installation.** For any number of commands, services, edits and keys:
`InstallationTypeCorrect` (`TypeOK`), `SecretsAreKept` (`SecretIsKept`), because a command that
writes found no file (`WritersSawNone`), and `AloneIsCompleted` (`AloneIsComplete`), because
while a command is alone every other is over (`AloneMeansAlone`) and each file it has passed
has its version (`AloneIsOnCourse`).

**The model store.** For any number of imports, names and profiles: `ModelTypeCorrect`
(`TypeOK`), `ModelsAreWhole` (`RegisteredAreWhole`, by `CopiesAreWhole` for the temporary files),
`ModelsAreKept` (`ReplacedOnlyUnseen`, by `LookedBefore`) and `ServedHaveProfiles`
(`ServedHasProfile`, by `StartSeesAll`: in each phase of a start, a model is either in what the
start has seen or its import's restart is to come or has failed).

Assumed: `ConfigAssumption` (the `[ports]` checks of `config.Validate`), and
`ModelAssumption`, `ProxyAssumption`, `DaemonAssumption`, `ToolboxAssumption`,
`InstallationAssumption`: types of
the remaining constants, finitely many handlers and profiles, and at least one capability,
one model name. Nothing else.

Model-checked only: the liveness properties (`AllocateReturns`, `ExpiredIsReaped`,
`CloseEndsForwarding`, `BacklogIsServed`, `StopIsBounded`, `EveryCallEnds`,
`ImportIsServed`), which the prover does not handle. Every invariant and every action
property of a passing run has its theorem.

## 12. What is not modelled

- **Privilege checks, doctor**: they read users and probe the host once, in sequence.
- **Build, scripts, containers**: shell and image recipes that run once on an idle host.
- **Text**: what units, settings, presets and messages say, except where a property depends on it
  (the target's `Wants=`, the Quadlets' `WantedBy=`, `Restart=on-failure`).
- **Validation** of the configuration, except the `[ports]` checks that the broker assumes.
- **Libraries**: SQLite, gasket, podman, systemd, HTTP, llama-server are external and modelled
  from how the code uses them.

## 13. Plan

Done: `LeasePool`, `LeaseBook`, `PortBroker`, `Proxy`, `ResourceDaemon`, `Installation`,
`ModelStore` and `Toolbox`, each component with its proofs. Left: a specification of the
daemon over the broker's own steps, instead of the two refinements of `LeaseBook`.
