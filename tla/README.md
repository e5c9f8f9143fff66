# Wktbox in TLA+

Wktbox is a Go CLI that runs isolated Docker development boxes.  This directory
holds a model of its control logic, the TLC configurations that check it and the
TLAPS proofs about it.  Line numbers refer to the sources under `src/`.

## Inventory

| Component | Source | State it keeps | Operations | Interacts with |
|---|---|---|---|---|
| State store | `internal/state/store.go` | `state.json`: box records and connection records | Load (drops stale temporary files), Save (temporary file, fsync, rename, directory fsync) | every manager operation |
| Locks | `internal/lock/lock.go` | `state.lock`, `boxes/<id>/box.lock`, `port-transaction/transaction.lock` (flock) | Global, Box, Acquire; released by the OS when the process dies | manager, loopback daemon (transaction lock only) |
| Box manager | `internal/sandbox/manager.go` | nothing in memory; reads and writes the store, the box directory and Docker | ensure, Inspect, SyncLoopback, List, Stop, Restart, Touch, Destroy | store, locks, compose backend, relay |
| Port transactions | `internal/sandbox/ports.go`, `render.go` | `ports.json`, `ports.override.yml`, snapshots of both | ImportPorts, PublishPorts, PortMappings, RemovePortMappings, apply, rollback | store, all three locks, relay, portbridge, daemon |
| Connections | `internal/sandbox/connections.go`, `internal/connection/identity.go` | `Connections` of `state.json`, Docker networks | Connect, Connections, Disconnect, reconcile for a box, remove a box | store, compose backend |
| Compose backend | `internal/compose/client.go` | Docker itself | Up, Start, Stop, Restart, Down, Inspect, ListManaged, network calls, port calls | Docker daemon |
| Host import relay | `internal/portforward/relay.go`, `relay_process.go`, `protocol.go` | listener, PID file, listen record, token | Run, Ensure, Probe, Stop, replace | manager, import proxies |
| Import reconciler | `internal/loopback/imports.go`, `imports_process.go` | active proxies, warnings, failures | Preflight, Apply (transaction or event mode), Statuses, Close | daemon, workload network namespaces |
| Loopback daemon | `internal/loopback/daemon.go`, `reconciler.go`, `discovery.go`, `control.go` | event stream, debounce timer, active routes, status | Run, Sync, SyncImports, PreflightImports, Status | inner Docker events, transaction lock, import reconciler |
| Publication bridge | `internal/loopback/publish.go` | a listener and a goroutine per publication | Listen, Serve, Close | inner Docker ports |
| Port allocator | `internal/ports/allocator.go` | nothing; reads the blocks of all records and probes the host | Reserve | manager.ensure |
| Interconnect DNS | `internal/interconnect/dns.go` | a UDP and a TCP listener | ServeDNS, ProbeDNS | Docker DNS |
| Agent integration | `internal/agentintegration/*.go` | skill directory and a block in the instruction file, per target | Install, Uninstall, Status with rollback | the user's files |
| Application and prune | `internal/cli/root.go`, `internal/app/app.go`, `internal/prune` | nothing; decides which box a directory has | up, run, exec, compose, task, stop, restart, destroy, list, logs, port, status, prune | manager, several calls per command |
| Executor, CLI, output, doctor, config, discovery, environment, gateway, gitbridge, identity, redact, process | same-named packages | nothing | parsing, rendering, probes | application |

The last row, sequential conversions and plain I/O, is not modelled.

### How the components interact

* Every CLI command is its own operating-system process.  It takes `state.lock`,
  then `boxes/<id>/box.lock`, loads `state.json`, corrects it from Docker
  (`loadAndReconcile`), works, saves and exits.  The state lock is held for the
  whole command, so commands follow one another, unless one of them is killed.
* A port command takes, besides, the box's transaction lock.  The same lock is
  taken by the event loop of the *loopback sidecar* (`wktbox loopback-proxy`), a
  process in the box's own container, before it reads `ports.json`.  This is
  the one place where two processes share files while both run.
* A port command makes the sidecar reconcile its candidate through a control
  command (`docker exec ... imports-apply`), which must not take that lock
  again: it uses the in-memory mutex of the daemon only.
* The sidecar starts one proxy process for each import in each workload's
  network namespace; the proxies connect to the *host relay*, a process that the
  manager starts on the host.  Publications go the other way, through the
  portbridge container.
* A CLI command calls the manager several times (`run`: ensure, child process,
  touch; `prune`: list, look at directories, destroy one by one).  Between two
  calls nothing is locked.
* The agent integration touches files of the user's own, which no lock protects.
* Containers start, die and restart by themselves, Docker's event stream ends
  and is subscribed to again, processes take and release ports.

### What is hard here, and the properties it needs

| Component | Hard behaviour | Correct when |
|---|---|---|
| Box manager | read-change-write of one file by many processes; Docker disagrees with the record; a degradation must outlive every reload | no update is lost; a successful `up` serves every mapping; a degradation goes only with a successful activation |
| Port transactions | five fallible steps, undone in a different order by fallible steps, under a time limit, next to a sidecar that reads the same files | whole request or nothing; a rollback that fails in part is recorded; no candidate is seen from outside |
| Loopback daemon | coalesced events, lost streams, three callers of one reconciler | every workload ends up with a proxy for each import; no deadlock of lock and mutex |
| Import reconciler | probe, stop, start and swap are apart, and containers restart and proxies exit in between; container ID and PID change independently | no proxy is lost; only a real conflict stops a workload; a refused command leaves nothing |
| Connections | a record and two kinds of Docker objects changed step by step, killed anywhere | boxes share a network only when the record says so; a failed connect is recorded; `up` repairs |
| Host relay | PID file, token and listen record of a process that outlives its starter; requests time out, relays come up late, the address changes | a relay that is kept listens where it is asked to; it accepts the token of the file; some later `ensure` succeeds |
| Publication bridge, DNS, sidecar process | sockets opened one by one; results of goroutines in any order; a cancelled context at any moment | a server that gives up leaves no socket open; a stopped container stops; no server goes on with one of two parts |
| Port allocator, application, prune | blocks derived from a file that many processes write, next to programs that take ports; decisions that are stale when acted upon | blocks of ports are disjoint and stay; no container without a record |
| Agent integration | five renames with copies aside, undone in reverse; a kill or an edit between two of them | whole or unchanged; nothing the user wrote disappears |

## Plan

Each area has modules for its state and its operations, one MC module with
configurations, and proofs where a theorem is within reach.

| Order | Module | State |
|---|---|---|
| 1 | `BoxState`, `BoxLifecycle`, `PortTransaction`, `BoxManager` (each extends the one before) | checked |
| 2 | `PortLedger`, the abstract specification that `BoxManager` instantiates | checked, proved |
| 3 | `BoxManagerProofs` (types, locks), `BoxRecordProofs` (records, ledger, port transactions) | proved |
| 4 | `Workloads`, `ImportReconciler`, `LoopbackDaemon`, `LoopbackProofs` | checked, safety proved |
| 5 | `Connections`, `ConnectionProofs` | checked, two of five properties proved |
| 6 | `RelayProcess`, `RelayProofs`: the host relay as a process | checked, safety proved |
| 7 | `AgentText`, `AgentIntegration`, `AgentProofs`: install and uninstall | checked, one of three properties proved |
| 8 | `Fleet`, `FleetProofs`: all boxes, port blocks, the CLI commands, prune | checked, proved |
| 9 | `Servers`, `ServersProofs`: bridge, resolver and sidecar as processes | checked, safety proved |

`Fleet` is the composition: one call of the manager is one of its steps, and
`BoxManager` is the inside of that step; `BoxManager` in turn takes the relay as
one value and the sidecar's sync as two steps, which `RelayProcess` and
`LoopbackDaemon` take apart.  Left to be proved: `UpReattaches`, `ReadyIsAttached`
and `FailureKept` of the connections and `SuccessMeansDone` of the agent
integration.

## The models

Constants of the same meaning in all of them: `MayFail` lists the kinds of failure
that may occur (a failing call, a kill, an outage ...), and `MaxFaults` bounds how
many occur in one behaviour.  A step that may fail has a disjunct `Fault(kind)`.
Operators that are preceded by the comment "Mutant" are wrong variants of the one
that follows; no specification uses them.  They show that a property fails when
the code is changed in that way.

### One box: `BoxState`, `BoxLifecycle`, `PortTransaction`, `BoxManager`

State: the three locks; `saved`, the box's record in `state.json`; the port files
`config` (`ports.json`) and `override` (`ports.override.yml`); `docker`, `bridge`,
`relay`, `proxies`: what runs; `daemon`: whether the sidecar's event loop
reconciles; for every CLI process `p` the position `pc[p]` and the locals
`job[p]` (operation, argument, the loaded record, the candidate, the snapshot of
the files, what failed so far).

| Code | Actions |
|---|---|
| `withBox`, `lock.Acquire` | `Begin`, `LockBox`, `Unlock` |
| `loadAndReconcileUnlocked` | `Load` |
| `ensure`, `Restart`, `Stop`, `Destroy` | `Render`, `Decide`, `Mark`, `ComposeDown`, `ComposeUp`, `Verify`, `Commit`, `PersistError`, `Settle`, `Forget` |
| `Inspect`, `Touch`, `SyncLoopback` | `InspectBox`, `Touch`, `SyncLoopback` |
| `activateRuntime`, `applyPortMappings`, `rollbackPortMappings` | `EnsureRelay`, `ProbeRelay`, `ApplyBridge`, `ApplyImports`, `HaltRelay`, shared by three callers that differ in `Needed` (what they do) and `Order` (when) |
| `ImportPorts`, `PublishPorts`, `RemovePortMappings` | `Preflight`, `BeginTransaction`, `NoTransaction`, `Write`, `Unwrite`, `SaveCandidate`, `Unkeep`, `RestoreFiles`, `SaveRolledBack`, `Resave`, `EndTransaction`, `Expire` (the 15 s of the rollback) |
| the sidecar's `Daemon.Sync` | `DaemonBegin`, `DaemonApply` |
| environment | `Crash` (kill of a CLI process), `Outage` (containers, relay) |

Abstractions.  One box with one Compose project, so `docker` is one value for its
four containers.  Mappings are model values.  A Compose `stop` may or may not
reach a portbridge of a profile that is not given.  The snapshot of the port
files is taken at one moment, preflight is one step, and the order of probes is
arbitrary.  The daemon's lock and mutex are taken in one step here; in
`LoopbackDaemon` they are two (`LoopLocks`, then `LoopSync`).  An `Inspect` that
fails within `ensure` counts as "not ready".  Port blocks and worktrees are in
`Fleet`; times are left out.

A step that fails may have done its work: `compose up --wait portbridge` can time
out after the container runs with the new publications (`client.go:678`), and
`imports-apply` fails after the apply when its answer is lost or the event stream
is not connected (`cmd/wktbox-loopback/main.go:193`).  `ApplyBridge`, `ApplyImports`,
`ComposeUp`, `SyncLoopback` and `EnsureRelay` have these outcomes too.

`PortLedger` is what the port commands promise.  Its state is the set of desired
mappings, whether the box is degraded, and what each client asks for (`asked`, which
`BoxManager` maps to the operation and argument of each command).  A request is
granted as a whole (`Add`, `Remove`), or refused; there is no step that adds or
removes a part of one.  A refused port request may leave the box degraded
(`Degrade`), which only a client that restores or destroys the box takes back.

### The sidecar: `Workloads`, `ImportReconciler`, `LoopbackDaemon`

`Workloads` has the network namespaces: `starts` (the PID of a container is
the number of its start), `running`, `held` (ports that other processes hold),
`proxies` (proxy processes, which keep the namespace of their PID alive) and
`routes` (automatic routes in Webtop).  `ImportReconciler` has `imports.go`:
`active`, `warnings`, `failures` and `call`, the `Apply` in progress.  `Apply` is
`Begin`, `Probe`/`StopConflicting` per workload, `Start` per proxy, `Swap`, so
that containers and proxies change between any two of its steps.
`LoopbackDaemon` has the three callers: the event loop (`Subscribe`, debounce,
resync, lost stream), the control commands `sync` and `imports-apply`,
and a port command with its candidate, rollback and kill.  The event loop and
`sync` take the transaction lock (`LoopLocks`, `ControlLocks`) and then the mutex
(`LoopSync`, `ControlSync`); a port command has the lock when its `ApplyImports`
asks for the mutex.

Abstractions.  The listeners on 127.0.0.1 and on ::1 are one.  The readiness pipe
of a proxy is part of `Start`.  A killed command's control call goes on in the
sidecar and nobody reads its answer.  Conflicts between two publications, the
backoff and the status file are left out.

### Connections: `Connections`

State: `saved` (boxes and connections of `state.json`), `containers`, `running`,
`networks`, `attached` (endpoints), `cmd` (the one command and its locals).
`connect`, `disconnect` and what `up`, `restart` and `destroy` do to connections:
the load, the first save (`RecordIntent`), Compose (`Compose`, `Down`), one step
per Docker call (`EnsureNetwork`, `Attach`, `Verify`, `Detach`, `RemoveNetwork`),
the last save (`SaveResult`).  There is one command at a time because the box
model shows that the state lock is held for a whole command (`LocksHeld`).

Abstractions.  A connection ID is the set of boxes it is the hash of.  The
connections of a box are taken in any order.  Networks of that name which Wktbox
does not manage, a network pruned while stopped containers are still in it, and a
box directory that `destroy` cannot remove are left out.

### The host relay: `RelayProcess`

State: `box` (it has reserved the relay port); per process `relay[r]`, its place,
address and token; the files `token`, `pid` and `listen`; `bind`, the address that
`relayHost` chooses now; `foreign`, the addresses on which other programs hold the
port; `cmd`, the command and its locals.

| Code | Actions |
|---|---|
| `relayOptions`, `EnsureRelayToken` | `Begin`, `TakeToken`, `MintToken` |
| `EnsureRelayProcess` | `Probe`, `CheckListen` (`relayListensOn`), `Replace` and `Drain` (`replaceRelay`), `Launch`, `Await` |
| `StopRelayProcess`, `Destroy` | `Stop`, `RemoveFiles` |
| `nativeRelayLifecycle.Probe` | `Ask` |
| `RunRelayProcess`, `Relay.Close` | `ReadToken`, `WriteToken`, `Bind`, `RecordPID`, `RecordListen`, `Close`, `Unlist`, `Exit` |
| environment | `Create` (a new box gets the port), `Dies`, `Killed`, `Rebind`, `Intrude`, `Leave` |

Commands follow one another, as `LocksHeld` says, but a relay that a killed or
impatient command has started comes up later, next to other commands.
Abstractions.  One relay port; a probe and a stop request are one step each;
`writePrivateFile` replaces a file whole; forwarded connections leave no state.

### Agent integration: `AgentText`, `AgentIntegration`

`AgentText` has the conversions of `files.go` as operators over sequences of
tokens: user text, line break, start marker, end marker, the text between.
`AgentIntegration` has the skill directory and the instruction file of each target,
the temporary files and the position of each command.  `Begin`, `Status` (skip or
go on), then for an install `Stage`, `ReadAndRender`, `Backup`, `Activate`,
`Commit`, and on a failure `Discard` and `Restore`; for an uninstall `Strip`,
`Unskill`, `Unfile`, and on a failure `Refile`, `Unrefile`; at the end `Purge`,
`Forget` and `Sync`.  `Overlapping` says whether commands and edits of the user
may fall between two steps of a command.  Abstractions.  A skill directory is
bundled, modified or absent; the status is read in one step; file modes and the
empty parent directory are left out.

### All boxes: `Fleet`

State: `dir` (what each directory is), `boxes` (`state.json`), `docker`, `taken`
(ports of other programs), `run` (per process its command: position, box, exit code
of the child, candidates of `prune`).  `CallEnsure` (with `Reserve`),
`CallInspect`, `CallTouch`, `CallSync`, `Call` (stop, restart, destroy), `List`,
`Stat` and `Prune` are calls of the manager with all their outcomes; `Child` is the
child process, `Confirm` the question of `destroy`.  Directories are made and
removed, and ports taken and released, at any time.  Abstractions.  A call of the
manager is one step, since it holds the state lock; a box is identified by
directory and kind of discovery (the code hashes both); `run` stands for `compose`
and `task` too; port mappings and connections are in their own modules.

### Servers: `Servers`

`publish-serve`, `dns-serve` and `serve` of `wktbox-loopback`: `sock` and `worker`,
the socket and goroutine of each part, `results` in the order in which they come in,
`cancelled`.  `Bind`, `Serve`, `Start`, `Ends`, `Fails`, `DaemonEnds`, `Watch` (the
goroutine that closes on cancellation), `First` and `End` (how results are
collected), `Cancel`.  Abstractions.  Forwarded connections and queries, which end
with the process, and the inside of the daemon.

## What is checked

`tlc -config <run>.cfg <module>` in this directory.

| Run | Question | Bounds |
|---|---|---|
| `BoxSafety` | A port command is applied or undone as a whole (`AppliedOrUndone`); the sidecar never works on a candidate (`CandidateHidden`); files at rest are those of the record (`FilesAgree`); a successful `up` or `restart` serves every mapping (`UpRestores`) | two commands, two imports, one publication, one failure of any kind except kills, outages and a box directory that cannot be removed |
| `BoxRollback` | A rollback that fails in part is recorded (`FailedRollbackDegrades`), a degraded box is not ready (`ReadyNotDegraded`) and stays degraded until it is activated or destroyed (`DegradedSticks`); every request is granted as a whole or refused (`LedgerSpec`) | the same with three failures: one for the activation, two for the rollback; no failing write of the files, no timeout |
| `BoxLive` | The locks exclude (`LocksHeld`), no record is overwritten (`NoLostUpdate`), commands end (`CommandsEnd`), proxies converge (`ProxiesConverge`) | two commands, one import, one publication, two failures of every kind, kills and outages too |
| `SidecarSafety` | No reachable proxy is forgotten (`OwnedProxies`), a refused command leaves nothing (`RefusedLeavesNothing`), only the owner of a port is stopped (`OnlyOwnersStopped`), a successful Apply explains what it did not serve (`AppliedExplained`) | one workload that starts twice and publishes a port, Webtop, three imports of which two share a name and two a port, one failure of nine kinds: no kill of a command and no failing snapshot |
| `SidecarLive` | Proxies (`Converges`) and routes (`RoutesConverge`) end up as they should | one import and one publication that compete for a Webtop port, two starts, one failure of eleven kinds, lost streams and kills included |
| `Connections` | Boxes share a network only as recorded (`Isolated`), records are well formed (`WellFormed`), `up` and `restart` reattach (`UpReattaches`), ready means attached (`ReadyIsAttached`), a failure stays recorded (`FailureKept`) | three boxes, a connection of two and one of three, one name, one failure of any kind at any step |
| `Relay` | A kept relay listens as asked (`KeptIsAsked`); it has the token of the file (`TokenAgrees`); some later `ensure` succeeds (`EnsureHeals`) | two relays, three addresses, three tokens, two failures of eight kinds, changes of the address included |
| `Agent` | A command that fails half-way changes nothing or all (`AllOrNothing`), success means done (`SuccessMeansDone`), no text of the user disappears (`ProseKept`) | two commands over both targets, two failures, kills or edits |
| `Fleet` | Blocks are disjoint (`BlocksDisjoint`) and kept (`KeepsBlock`), no container without its record (`Recorded`) | two directories, two processes, all commands, room for two blocks of six ports, one port that others take, one failure or kill |
| `Servers` | A server that has ended left nothing open and says why (`EndsClean`); it ends when it should (`EndsWhenDue`) | up to three publications on two ports, the two parts of the other servers, two failures |
| `ExitPanics`, `PruneDestroysLive` | counterexamples, see below | as small as the counterexample |

Why the bounds are enough.  Two commands are the fewest that compete for the
locks, and the sidecar is a third holder.  Two imports let a command add or remove
one and keep the other, and make a request of two fail after its first; imports
and publications differ only by direction, so that more mappings repeat the same
cases.  Failures matter in sequences (an activation step, then a rollback step,
then the Save of the degradation), which is three.  A workload that starts twice
has an old and a new PID.  The three imports of `SidecarSafety` are one, the same name
on another port, and another name on the port of the first: an import can be
removed, refused and asked for again under either name and on either port, which is
all that `ValidateSet` leaves open over time.  A killed command or a failing
snapshot is left out there because the code then does lose a proxy
(`ReplacedImportLost.cfg`, `OwnProxyStops.cfg`, below); `SidecarLive` has both.
Three boxes are the fewest for which a connection loses a member and survives.
Two relays are one that is kept or late and one that
replaces it; three addresses are the wildcard, the loopback address that probes it
and one that it also covers.  Two targets make a command fail after its first; the
texts of the instruction files are those that differ for the conversions (no file,
prose alone, prose around an outdated block, a current block, half a block).  A block that others
take a port of, with room for two, makes the allocator skip, reuse and run out.
Three publications on two ports make some share one.  Larger instances were run
once without an error: the sidecar with two failures, requests with up to four
failures of the kinds that neither write nor hide their failure, the
connections with two failures (24 million states), the relay with three processes,
and the agent integration with every text of up to three tokens (`Short` of
`MCAgentIntegration`).

Every property was also tried on a program with one bug (a lock not taken, a
step of the rollback forgotten, a proxy not closed ...); the wrong operators stand
next to the right ones in the modules, and `PROJECT.json` pairs them with the
properties they violate.

### Fairness

`BoxManager!FairSpec`: a step of a running command is weakly fair: nothing blocks
it.  A command that waits for the transaction lock, or for the sidecar, is
strongly fair: `lock.Acquire` polls every 50 ms, and the event loop gives up the
lock between two syncs for at least its debounce of 100 ms, so that the poll
finds it free infinitely often.  The sidecar's own steps are weakly fair: a sync
is made at least every 30 s.  Taking the *state* lock is not fair: no claim is
made that a waiting command starts.
`LoopbackDaemon!FairSpec`: the event loop, the steps of `Apply` and the end of a
control command are weakly fair.  `LoopLocks`, `LoopSync`, `ControlSync` and the two
steps of a command that wait for the lock or the mutex are strongly fair: Go's mutex
hands over to a waiter that starves, and the lock is polled.  Containers, failures
and users are never fair.  With the lock and the mutex the other way round
(`LoopLocksLast`) a loop and a command wait for each other, and `Converges` fails.
`RelayProcess!FairSpec`: the steps of a command, and of each relay, are weakly
fair; nothing makes a user run a command.  `EnsureHeals` therefore assumes that
`ensure` ends infinitely often, that from some point on the address stays and the
port is free of other programs, and that no relay is left that holds the address
but is not found where it is probed (`Unfound`); a relay of an earlier address that
is found is replaced.
`Servers!FairSpec`: goroutines are scheduled; nothing makes an accept fail or a
container stop.

## Where documents and code disagree

| Run | What happens |
|---|---|
| `ExitPanics` | a proxy that exits between two loops of `Apply` leaves a nil entry in the table, and the next sync calls Close on it: the sidecar ends (`imports.go:220`) |
| `PruneDestroysLive` | `README.md:275-276` says that `--force` destroys only boxes whose workspace no longer exists; directories are looked at once, before the boxes are destroyed one by one, and a worktree that was made again meanwhile loses its running box (`app.go:424`, `:434-446`) |

More counterexamples, kept as configurations to be run by hand:

| Configuration | Module | What happens |
|---|---|---|
| `UpLeavesBridge.cfg` | `MCBoxManager` | a first publication whose activation and rollback fail; `up` then reports ready and clears the degradation, and the portbridge of the refused publication still runs (`manager.go:227`) |
| `DestroyLeavesRelay.cfg` | `MCBoxManager` | a first import whose activation and rollback fail: `destroy` finds no import in the record and leaves the relay running |
| `RestartServesCandidate.cfg` | `MCBoxManager` | a port removal killed after it wrote its files: `restart` reports ready without serving the mapping that is still recorded |
| `KilledCandidateSeen.cfg` | `MCBoxManager` | the kernel releases the lock of a killed command, and the sidecar reconciles its candidate |
| `RollbackUnrecorded.cfg` | `MCBoxManager` | port files that can neither be written nor restored: the box stays recorded as ready; with `MayFail = {"bridge", "timeout"}`, a rollback that takes longer than its 15 s, which also bound the Save of the degradation (`ports.go:448`) |
| `ReplacedImportLost.cfg` | `MCLoopbackDaemon` | a port import is killed before its Save, and the same name is imported with another port: the entry is replaced, and the proxy of the first port serves on and is in no table (`imports.go:222`), although the port forwarding plan (`:418`) says that there is one child per container and name and that the old set is closed.  A lost answer, a failing snapshot in the rollback and an `up` do the same without a kill (`MayFail = {"snapshot"}`) |
| `OwnProxyStops.cfg` | `MCLoopbackDaemon` | an import recorded with another source stops the workload because the sidecar's own proxy holds the port |
| `ProxyOutlivesContainer.cfg` | `MCLoopbackDaemon` | a container that restarts between two syncs: the proxy of the old PID is never closed |
| `DesktopLosesAll.cfg` | `MCLoopbackDaemon` | one taken port in Webtop takes all other imports from Webtop, without a warning |
| `FailureHidden.cfg` | `MCLoopbackDaemon` | a proxy that could not be restarted is reported as listening, because the proxy of the old PID is |
| `ConnectOmitsMember.cfg` | `MCConnections` | a connection of three from which one box was destroyed and created again: `connect` with the three succeeds and leaves it out (`connections.go:84`) |
| `OutdatedBindKept.cfg` | `MCRelayProcess` | a relay on one address, and `ensure` asks for another that it cannot be probed at: the old relay goes on next to the new one, although `relay_process_test.go:189` says that a different bind "stops the running relay before relaunching" (`relay_process.go:175`) |
| `RebindNeverHeals.cfg` | `MCRelayProcess` | a relay on the gateway address, and `WKTBOX_RELAY_BIND` becomes `0.0.0.0`: `ensure` probes 127.0.0.1, finds nobody, launches a relay whose address is in use, and fails for ever; `stop` and `destroy` do not find the old relay either (`relay_process.go:170-214`) |
| `OverlapLosesText.cfg` | `MCAgentIntegration` | an edit between the moment the instructions are read and the moment they are renamed is lost |
| `ExitCodeLost.cfg` | `MCFleet` | a child runs and fails, and the touch after it fails too: the command reports the touch, although `README.md:72-73` says that it "returns the child exit code" (`app.go:449`) |
| `SecondBox.cfg` | `MCFleet` | Git fails once: the directory counts as a plain one and gets a second box (`worktree.go:71`) |
| `DeadPublication.cfg` | `MCServers` | one listener of the bridge fails: `Serve` waits for all the others, and the bridge counts as running (`publish.go:96`, `docs/port-forwarding.md:119-121`) |

One more, met while stating `TokenAgrees`: a relay that comes up so late that its
box was destroyed and created again serves the port with a lost token, so that no
later `ensure` can use or stop it.  `TokenAgrees` and `EnsureHeals` therefore assume
that no box is destroyed while a relay is on the way to its port (`InTime`).

## What is proved

`tlapm <module>.tla` checks each proof.  All theorems hold for any number of
processes, mappings, boxes, relays, workloads and publications; where the third
column is empty, for failures of every kind in any number too.

| Theorem | Says | Under |
|---|---|---|
| `BoxManagerProofs!TypeInvariance` | `Spec => []TypeOK` of the box | |
| `BoxManagerProofs!Exclusion` | `Spec => []LocksHeld` | |
| `BoxRecordProofs!NoUpdateLost` | `Spec => []NoLostUpdate` | |
| `BoxRecordProofs!DegradedNotReady` | `Spec => []ReadyNotDegraded` | |
| `BoxRecordProofs!DegradationSticks` | `Spec => DegradedSticks` | |
| `BoxRecordProofs!BoxImplementsLedger` | `Spec => LedgerSpec`: the box implements `PortLedger`, whole requests or none of them | |
| `BoxRecordProofs!FilesAgreeAtRest` | `Spec => []FilesAgree` | `FewFailures` |
| `BoxRecordProofs!CandidateStaysHidden` | `Spec => []CandidateHidden` | `FewFailures` |
| `BoxRecordProofs!UpRestoresAll` | `Spec => UpRestores` | `FewFailures`, no outage |
| `BoxRecordProofs!FailedRollbackAdmitted` | `Spec => []FailedRollbackDegrades` | one of: at most one failure; no failure to save or write and no timeout; at most three failures, none of them a write, a timeout, a kill, a failed removal or an outage |
| `BoxRecordProofs!RequestsWhole` | `Spec => []AppliedOrUndone` | no kill, failed removal or outage; and at most one failure, or any number of them when neither a save nor a write fails, no rollback runs out of time, and no failing stop of the relay is taken for done |
| `LoopbackProofs!LoopbackTypes` | `Spec => []TypeOK` of the sidecar | |
| `LoopbackProofs!OwnedHolds` | `Spec => []OwnedProxies` | `Undisturbed` |
| `LoopbackProofs!StopsOwnersOnly` | `Spec => OnlyOwnersStopped` | `Undisturbed` |
| `LoopbackProofs!RefusedIsGone` | `Spec => RefusedLeavesNothing` | `Undisturbed` |
| `LoopbackProofs!AppliedIsExplained` | `Spec => AppliedExplained` | |
| `ConnectionProofs!ConnectionTypes` | `Spec => []TypeOK` of the connections | |
| `ConnectionProofs!Isolation` | `Spec => []Isolated` | |
| `ConnectionProofs!RecordsWellFormed` | `Spec => []WellFormed` | |
| `RelayProofs!RelayTypes` | `Spec => []TypeOK` of the relay | |
| `RelayProofs!RelayKept` | `Spec => KeptIsAsked` | |
| `RelayProofs!RelayTokens` | `Spec => TokenAgrees`, which assumes `InTime` | |
| `AgentProofs!AgentTypes` | `Spec => []TypeOK` of the agent integration | |
| `AgentProofs!AgentWhole` | `Spec => AllOrNothing` | `~Overlapping` |
| `FleetProofs!FleetTypes` | `Spec => []TypeOK` of all boxes | |
| `FleetProofs!BlocksStayDisjoint` | `Spec => []BlocksDisjoint` | |
| `FleetProofs!ContainersRecorded` | `Spec => []Recorded` | |
| `FleetProofs!PortsKept` | `Spec => KeepsBlock` | |
| `ServersProofs!ServersEndClean` | `Spec => []EndsClean` | |

Assumptions on the constants: `BoxAssumption` (imports and publications are
disjoint; `NoOne`, `Daemon` and the processes are different; the failures are of
the known kinds), `WorkloadAssumption` (Webtop is no workload; bounds are
numbers), `NoProxyAssumption` (the zero value is no proxy), `ConnectionAssumption`
(selections are sets of boxes; "no name" is not a name and "no record" not a
record), `RelayAssumption` (the wildcard and loopback addresses are addresses, and
"nobody" is none), `AgentAssumption` (targets and texts), `FleetAssumption`
(positive base and size of blocks, commands and kinds of directories are known)
and `ServersAssumption` (commands and kinds of failures are known).

The hypotheses of the third column exclude what breaks the property in the code.
`FewFailures` says that no command is killed, no removal of a box stops half-way,
and that at most one failure happens or none of them is a failure to save or to
write: then any number of other failures may happen.  `KilledCandidateSeen`,
`RestartServesCandidate` and `RollbackUnrecorded` are the counterexamples without
it; the second also shows why a timeout is excluded.  The run
`BoxSafety` checks the instance with one failure, and `BoxRollback` the third of the
cases of `FailedRollbackAdmitted`.  `Undisturbed` says that no command is killed and
every sync gets its snapshot and its `ports.json`, for any imports, also those that
are asked for again with another port or source; or, with failures of every kind,
that no two imports that are ever requested share a name or a local port.
`ValidateSet` enforces the latter for the imports of one moment only, and
`ReplacedImportLost` and `OwnProxyStops` are what happens when neither is the case.

The box.  Layers, each using the one before.  *Types*.  *Locks*: a process
knows from its position which locks it holds; `LocksHeld` alone is not inductive
because the position does not say whether a process works on a transaction, so
`LockInv` adds which modes occur at which position (`ModeKnown`).  *Records*:
`NoLostUpdate` is inductive only together with what a process knows of the
record it has loaded and of its candidate (`Knows`); another process cannot
change the record because of `LocksHeld`.  `DegradedSticks` needs one fact more
(`Sticky`): while a failed Save may have left either record, the one that the
rollback saves is as degraded as the one it may replace.  *Ledger*: while a Save
has failed and may still have replaced `state.json`, `saved` is ahead of the
promise; the mapping `Desired` then takes the record the command has loaded.  That a
command in a transaction asks for mappings that are all new, or all there, of a box
that is not degraded, is known from the load on (`Admitted`, `LedgerInv`).  The proof
shows for each action that `Desired` and the degradation change as the request of the
command says (`Grants`), or not at all, and that the request is answered then.

The port transactions.  The five theorems about what a request leaves behind have
hypotheses on the failures, and their invariants have none: where the code may let
files, record and Docker disagree, the invariant says what that disagreement costs.
`Standing` says what is in Docker and on disk; `PortInv` what a command knows of
the box at each position (what was written, started and probed), that a failed step
has cost a failure, and a rollback without time two.  `FilesInv` follows the files: they are
those of the record, or of the candidate in a transaction, or the price is paid
(`Costly`: a kill, a removal that stops half-way, two failures to write).
`ServingInv` adds what `up` has restored on its way to the commit, unless an
outage was seen.  `ConfessedInv` counts what it takes for a rollback to fail in
part without saying so: two failures for the failed part, and one more for the Save
of the degradation; fewer only with the kinds of `Unusual` (`BadLuck`).  For
`AppliedOrUndone` this is not enough: that a refused mapping is served nowhere after
the rollback needs that it was served nowhere before the request.  `CalmInv`
describes the box before its first failure, where nothing is served that is not
recorded, and `UndoneInv` carries that through the rollback, which takes back the
bridge, the proxies and the relay one after the other; a part that it could not
take back is remembered in `job[p].bad`.  A second failure leaves more than that
only when it is hidden (`Hidden`).  Only the theorems combine these
invariants with a bound on the failures.  All six layers were checked with TLC on
instances with up to four failures before they were proved.

The sidecar.  `OwnedProxies` is inductive with an argument about time (`Past`):
specs and entries carry the PID their container had when they were made, a
container never gets a PID back, so that no entry is newer than the call in
progress, and a proxy replaced by the call is one nobody can reach any more.
`Explained` and `Called` say how the sets of a call in progress belong together;
`OnlyOwnersStopped` then holds because the one who holds a port that is in use is
either a process of the workload or a proxy, and that proxy is an entry, which `Apply`
would not probe.  All of this needs that the imports that can meet at one moment,
those of the files, of the command, of the call and of the entries (`Maps`), have
different names and ports, so that the proxy found on a port is the one that was
asked for, and a replaced entry has the port of its successor.  `Valid(Import)`
says so at once.  Without kills and failing snapshots it is an invariant (`Calm`): a
command begins when the entries are among the imports of the files (`Fresh`), its
candidate is valid with them, and its rollback closes what it added before the next
one begins; a box whose rollback failed is degraded until `up` has applied the files.
`RefusedLeavesNothing` compares entries and file: who asked for a call waits for it
with the lock (`Asked`), so that the file is still the one it was told (`Answered`).

The connections.  `Isolated` speaks of what is saved, but steps change what is
loaded and Docker.  `ConnectionInv` says of the loaded state of a command that it
covers every network and endpoint there is (`Covers`), that it lists nothing that
is not saved (`Sheltered`), that it could be saved as it is (`WellNamed`), and how
far the command is (`AtWork`, `Leaving`: once Compose has removed the containers
of a box, none of its endpoints is left, and it is a member only of connections
that are still to be done).  Creating a network is safe because the record is
sheltered by what is saved; forgetting a connection is safe because the network
is gone.

The relay.  `KeptIsAsked` is about a comparison with a file that any relay may have
written or removed.  Two facts make it right: relays that hold the port have
addresses that do not overlap (`Exclusive`), and the listen record, when there is
one while a relay serves, is that relay's address or one that does not overlap with
it (`Faithful`).  With `TypeOK` they are inductive.  `TokenAgrees` is about
behaviours in which no box is destroyed while a relay is on the way to its port
(`[]InTime`): the token of the file is made before the first relay is launched
(`Minted`), every relay that binds has taken it (`Tokened`), and it changes only
with the box, when no relay is on its way (`Quiet`).

The servers.  That nothing is opened after the end needs that every goroutine has
returned when all results are in (`Counted`: results are counted against
goroutines); that the error is told needs that nobody closes a socket before a stop
or a first result (`Blamed`).

The agent integration.  For each process `Sound` says what skill, instructions and
backups are at its position, relative to what it found; it is inductive because no
other command runs and no edit is made meanwhile (that at most one runs is part of
`Whole`, and `OverlapLosesText` shows what happens otherwise).

All boxes.  `BlocksDisjoint` is inductive only with `Fitting`, that a record has a
block the allocator can give and containers have the block of their record;
`Reserve` chooses a start that overlaps no other record.  Two blocks that do not
overlap as intervals are disjoint as sets of ports.

### Model-checked only

Liveness (`CommandsEnd`, `ProxiesConverge`, `Converges`, `RoutesConverge`,
`EnsureHeals`, `EndsWhenDue`) is out of the prover's reach.  `ProseKept` needs
what the conversions of `AgentText` keep of a text of any length, which is an
induction over the text.  `SuccessMeansDone`,
`UpReattaches`, `ReadyIsAttached` and `FailureKept` are checked and not yet proved.

## Not modelled

* Parsing of commands and of Docker output, rendering of Compose files other than
  the port files, output, doctor, configuration, environment, gateway, gitbridge,
  redaction and the executor: conversions, probes and I/O without state of their own.
* `shell` and `open`, which are `exec` with another child.
* A `state.json` that is corrupt or lost: every operation refuses to work on it.
* What is forwarded: the bytes of the relay, of proxies and of the bridge, and DNS
  queries.  The sidecar's status file, the backoff of its event loop and conflicts
  between two publications of one port.
* The Docker child of a killed command may go on in the real system; in the box
  model only its call in the sidecar does.
