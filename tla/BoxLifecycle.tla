---------------------------- MODULE BoxLifecycle ----------------------------
(***************************************************************************)
(* The lifecycle commands of sandbox.Manager: ensure (wktbox up), Inspect,  *)
(* List, PortMappings, SyncLoopback, Stop, Restart, Touch and Destroy.      *)
(* Every command takes the state lock and, but for List, the box lock; it   *)
(* loads and reconciles the record, works, saves the record and unlocks.    *)
(* The port commands share the begin, the load and the runtime steps        *)
(* (relay, probe, bridge, imports, halt); their own steps are in module     *)
(* PortTransaction.                                                         *)
(***************************************************************************)
EXTENDS BoxState

-----------------------------------------------------------------------------
\* Begin, lock, load and unlock.

Arguments(o) ==
  CASE o = "import"  -> SUBSET Imports \ {{}}
    [] o = "publish" -> SUBSET Publications \ {{}}
    [] o = "remove"  -> SUBSET Mappings \ {{}}
    [] OTHER         -> {{}}

\* Mutant: a command does not wait for the state lock.
BeginUnlocked(p, o, a) ==
  /\ pc[p] = "idle"
  /\ globalLock' = p
  /\ Goto(p, "load")
  /\ job' = [job EXCEPT ![p] = NewJob(o, a)]
  /\ UNCHANGED <<boxLock, txLock, saved, files, runtime, faults>>

\* lockBox: the state lock first, then the box lock.  List takes only the first.
Begin(p, o, a) ==
  /\ pc[p] = "idle" /\ globalLock = NoOne
  /\ globalLock' = p
  /\ Goto(p, IF o = "list" THEN "load" ELSE "box")
  /\ job' = [job EXCEPT ![p] = NewJob(o, a)]
  /\ UNCHANGED <<boxLock, txLock, saved, files, runtime, faults>>

LockBox(p) ==
  /\ pc[p] = "box" /\ boxLock = NoOne
  /\ boxLock' = p
  /\ Goto(p, "load")
  /\ UNCHANGED <<globalLock, txLock, saved, files, runtime, job, faults>>

\* What a method demands of the loaded record before it changes anything.
Admits(o, a, r) ==
  /\ o \notin {"list", "ensure"} => r.exists
  /\ o \in {"import", "publish"} => r.status = "ready" /\ a \cap r.maps = {}
  /\ o = "remove" => r.status \in {"ready", "stopped"} /\ a \subseteq r.maps

FirstStep ==
  [list |-> "unlock", ports |-> "unlock", inspect |-> "inspect",
   touch |-> "touch", sync |-> "sync", ensure |-> "render", restart |-> "mark",
   stop |-> "mark", destroy |-> "mark", import |-> "preflight",
   publish |-> "preflight", remove |-> "transaction"]

Load(p) ==
  /\ pc[p] = "load"
  /\ LET r == Reconciled
         admitted == Admits(job[p].op, job[p].arg, r)
     IN \/ /\ Saves(p, r)
           /\ job' = [job EXCEPT ![p].rec = r,
                        ![p].ok = admitted /\ FirstStep[job[p].op] = "unlock"]
           /\ Goto(p, IF admitted THEN FirstStep[job[p].op] ELSE "unlock")
        \/ /\ Fails(p, "list") /\ UNCHANGED <<saved, job>> /\ Goto(p, "unlock")
        \/ /\ SaveFails(p, r) /\ UNCHANGED job /\ Goto(p, "unlock")
  /\ UNCHANGED <<locks, files, runtime>>

\* Mutant: the box lock is kept.
UnlockGlobal(p) ==
  /\ pc[p] = "unlock"
  /\ globalLock' = NoOne
  /\ Goto(p, "idle")
  /\ job' = [job EXCEPT ![p] = NoJob]
  /\ UNCHANGED <<boxLock, txLock, saved, files, runtime, faults>>

\* The deferred unlock: the box lock, then the state lock.
Unlock(p) ==
  /\ pc[p] = "unlock"
  /\ boxLock' = IF boxLock = p THEN NoOne ELSE boxLock
  /\ globalLock' = NoOne
  /\ Goto(p, "idle")
  /\ job' = [job EXCEPT ![p] = NoJob]
  /\ UNCHANGED <<txLock, saved, files, runtime, faults>>

\* The last Save of a method, and its result.
Finish(p, r) ==
  /\ \/ Saves(p, r) /\ job' = [job EXCEPT ![p].ok = TRUE]
     \/ SaveFails(p, r) /\ UNCHANGED job
  /\ Goto(p, "unlock")

-----------------------------------------------------------------------------
\* Inspect, Touch and SyncLoopback.

InspectBox(p) ==
  /\ pc[p] = "inspect"
  /\ LET r == [job[p].rec EXCEPT !.status = InspectedStatus(job[p].rec)]
     IN \/ ComposeAccepts(job[p].rec) /\ Finish(p, r)
        \/ /\ (~ComposeAccepts(job[p].rec) /\ faults' = faults) \/ Fails(p, "list")
           /\ UNCHANGED <<saved, job>> /\ Goto(p, "unlock")
  /\ UNCHANGED <<locks, files, runtime>>

Touch(p) ==
  /\ pc[p] = "touch" /\ Finish(p, job[p].rec)
  /\ UNCHANGED <<locks, files, runtime>>

\* Daemon.Sync in the sidecar, under the transaction lock and its own mutex.
\* Its answer can be lost, too.
SyncLoopback(p) ==
  /\ pc[p] = "sync"
  /\ \/ /\ Reachable /\ ComposeAccepts(job[p].rec)
        /\ txLock = NoOne /\ daemon = "idle"
        /\ Works(p)
        /\ proxies' = config \cap Imports
        /\ job' = [job EXCEPT ![p].ok = TRUE]
     \/ /\ ~(Reachable /\ ComposeAccepts(job[p].rec)) /\ faults' = faults
        /\ UNCHANGED <<proxies, job>>
     \/ /\ Fails(p, "apply") /\ UNCHANGED job
        /\ \/ proxies' = proxies
           \/ Reachable /\ ComposeAccepts(job[p].rec) /\ txLock = NoOne /\ daemon = "idle"
              /\ proxies' = config \cap Imports
  /\ Goto(p, "unlock")
  /\ UNCHANGED <<locks, saved, files, docker, bridge, relay, daemon>>

-----------------------------------------------------------------------------
\* The steps that change the port runtime, for all three modes.

\* Mutant: the sidecar is left to find the imports by itself.
NeededWithoutImports(r, step) ==
  CASE step \in {"relay", "probe", "halt"} -> ImportsOf(r) # {}
    [] step = "bridge"  -> PublicationsOf(r) # {}
    [] step = "imports" -> FALSE

NeededByLifecycle(r, step) ==
  CASE step \in {"relay", "probe", "imports", "halt"} -> ImportsOf(r) # {}
    [] step = "bridge" -> PublicationsOf(r) # {}

\* Mutant: the bridge is applied only for the publications that remain.
NeededForTheRest(prev, cand, step) ==
  CASE step \in {"relay", "probe"} -> ImportsOf(cand) # {}
    [] step = "bridge"  -> PublicationsOf(cand) # {}
    [] step = "imports" -> ImportsOf(prev) # ImportsOf(cand)
    [] step = "halt"    -> ImportsOf(cand) = {} /\ ImportsOf(prev) # {}

NeededByActivation(prev, cand, step) ==
  CASE step \in {"relay", "probe"} -> ImportsOf(cand) # {}
    [] step = "bridge"  -> PublicationsOf(prev) # PublicationsOf(cand)
    [] step = "imports" -> ImportsOf(prev) # ImportsOf(cand)
    [] step = "halt"    -> ImportsOf(cand) = {} /\ ImportsOf(prev) # {}

\* Mutant: a rollback keeps the relay of a first import.
NeededButHalt(prev, cand, step) ==
  CASE step = "relay"   -> ImportsOf(prev) # {}
    [] step = "bridge"  -> PublicationsOf(prev) # PublicationsOf(cand)
    [] step = "imports" -> ImportsOf(prev) # ImportsOf(cand)
    [] OTHER            -> FALSE

NeededByRollback(prev, cand, step) ==
  CASE step = "relay"   -> ImportsOf(prev) # {}
    [] step = "bridge"  -> PublicationsOf(prev) # PublicationsOf(cand)
    [] step = "imports" -> ImportsOf(prev) # ImportsOf(cand)
    [] step = "halt"    -> ImportsOf(prev) = {}
    [] OTHER            -> FALSE

Needed(p, step) ==
  CASE job[p].mode = "lifecycle" -> NeededByLifecycle(job[p].rec, step)
    [] job[p].mode = "activate" ->
         NeededByActivation(job[p].rec, Candidate(p), step)
    [] job[p].mode = "rollback" ->
         NeededByRollback(job[p].rec, Candidate(p), step)

\* The order of the steps: startImportRelay .. applyActivePortRuntime, then
\* activatePortMappings, then rollbackPortMappings.
Order ==
  [lifecycle |-> [relay |-> "up", bridge |-> "probe", probe |-> "imports",
                  imports |-> "commit", halt |-> "settle"],
   activate  |-> [relay |-> "probe", probe |-> "bridge", bridge |-> "imports",
                  imports |-> "halt", halt |-> "save"],
   rollback  |-> [relay |-> "bridge", bridge |-> "imports",
                  imports |-> "halt", halt |-> "restate", probe |-> "bridge"]]

AfterStep(p, step) ==
  IF job[p].mode = "lifecycle" /\ step = "relay" THEN
    IF job[p].fast THEN "bridge"
    ELSE IF job[p].op = "restart" THEN "down" ELSE "up"
  ELSE Order[job[p].mode][step]

Proceed(p, step) == Goto(p, AfterStep(p, step)) /\ Keep(p)

\* A failed step ends a lifecycle command in persistError and an activation in
\* a rollback on a fresh context; a rollback goes on and remembers the failure.
Fallback(p, step) ==
  \/ job[p].mode = "lifecycle" /\ Goto(p, "error") /\ Keep(p)
  \/ /\ job[p].mode = "activate" /\ Goto(p, "restore")
     /\ job' = [job EXCEPT ![p].mode = "rollback"]
  \/ /\ job[p].mode = "rollback" /\ Goto(p, AfterStep(p, step))
     /\ job' = [job EXCEPT ![p].bad = TRUE]

Skip(p, step) ==
  /\ ~Needed(p, step) /\ Proceed(p, step)
  /\ UNCHANGED <<relay, bridge, proxies, faults>>

\* relay.Ensure: probe, stop a relay of another address or version, launch,
\* wait until it answers.  It fails with either relay running, or none.
EnsureRelay(p) ==
  /\ pc[p] = "relay"
  /\ \/ Skip(p, "relay")
     \/ /\ Needed(p, "relay") /\ UNCHANGED <<bridge, proxies>>
        /\ \/ Works(p) /\ relay' = TRUE /\ Proceed(p, "relay")
           \/ Fails(p, "relay") /\ relay' \in BOOLEAN /\ Fallback(p, "relay")
  /\ UNCHANGED <<locks, saved, files, docker, daemon>>

\* RelayProbe, run in the loopback container.
ProbeRelay(p) ==
  /\ pc[p] = "probe"
  /\ UNCHANGED <<relay, bridge, proxies>>
  /\ \/ Skip(p, "probe")
     \/ /\ Needed(p, "probe")
        /\ \/ /\ relay /\ Reachable /\ ComposeAccepts(Target(p))
              /\ Works(p) /\ Proceed(p, "probe")
           \/ /\ ~(relay /\ Reachable /\ ComposeAccepts(Target(p))) /\ faults' = faults
              /\ Fallback(p, "probe")
           \/ Fails(p, "probe") /\ Fallback(p, "probe")
  /\ UNCHANGED <<locks, saved, files, docker, daemon>>

\* PortRuntimeApply: compose up portbridge, or compose rm --stop portbridge.
\* The bridge serves what ports.json lists and the override publishes.  An
\* up --wait that fails may have left the container as it was, removed it, or
\* started it with the new publications.
Bridged(p) ==
  IF PublicationsOf(Target(p)) = {} THEN {} ELSE override \cap config

ApplyBridge(p) ==
  /\ pc[p] = "bridge"
  /\ \/ Skip(p, "bridge")
     \/ /\ Needed(p, "bridge") /\ UNCHANGED <<relay, proxies>>
        /\ \/ /\ ComposeAccepts(Target(p)) /\ Works(p)
              /\ bridge' = Bridged(p) /\ Proceed(p, "bridge")
           \/ /\ ~ComposeAccepts(Target(p)) /\ faults' = faults
              /\ bridge' = bridge /\ Fallback(p, "bridge")
           \/ /\ ComposeAccepts(Target(p)) /\ Fails(p, "bridge")
              /\ bridge' \in {bridge, {}, Bridged(p)} /\ Fallback(p, "bridge")
  /\ UNCHANGED <<locks, saved, files, docker, daemon>>

\* PortImportApply: SyncImports in the sidecar, under its mutex only.  It
\* starts the new proxies, and closes those no longer wanted when all of them
\* are ready; a proxy that does not start takes the new ones back.  The call
\* can fail although they were applied: its answer is lost, or the sidecar
\* reports that its event stream is not connected.
ApplyImports(p) ==
  /\ pc[p] = "imports"
  /\ \/ Skip(p, "imports")
     \/ /\ Needed(p, "imports") /\ UNCHANGED <<relay, bridge>>
        /\ \/ /\ Reachable /\ ComposeAccepts(Target(p)) /\ daemon = "idle"
              /\ Works(p) /\ proxies' = config \cap Imports /\ Proceed(p, "imports")
           \/ /\ ~(Reachable /\ ComposeAccepts(Target(p))) /\ faults' = faults
              /\ proxies' = proxies /\ Fallback(p, "imports")
           \/ /\ Fails(p, "apply") /\ Fallback(p, "imports")
              /\ \/ proxies' = proxies
                 \/ Reachable /\ ComposeAccepts(Target(p)) /\ daemon = "idle"
                    /\ proxies' = config \cap Imports
  /\ UNCHANGED <<locks, saved, files, docker, daemon>>

\* relay.Stop.  A network error, also a timeout of a relay that is alive,
\* counts as stopped.
HaltRelay(p) ==
  /\ pc[p] = "halt"
  /\ \/ Skip(p, "halt")
     \/ /\ Needed(p, "halt") /\ UNCHANGED <<bridge, proxies>>
        /\ \/ Works(p) /\ relay' = FALSE /\ Proceed(p, "halt")
           \/ Fails(p, "swallow") /\ relay' = relay /\ Proceed(p, "halt")
           \/ relay /\ Fault("unstop") /\ relay' = relay /\ Fallback(p, "halt")
  /\ UNCHANGED <<locks, saved, files, docker, daemon>>
-----------------------------------------------------------------------------
\* ensure (wktbox up).

\* Render writes compose.yml, then ports.json, then ports.override.yml, and
\* reports a change also for files this model does not have.  A new box first
\* reserves its ports.
Render(p) ==
  /\ pc[p] = "render"
  /\ LET r == job[p].rec
     IN \/ /\ Works(p)
           /\ rendered' = TRUE /\ config' = r.maps /\ override' = PublicationsOf(r)
           /\ \E c \in BOOLEAN :
                /\ files # <<TRUE, r.maps, PublicationsOf(r)>> => c
                /\ job' = [job EXCEPT ![p].changed = c]
           /\ Goto(p, "decide")
        \/ /\ Fails(p, "write")
           /\ \/ UNCHANGED files
              \/ rendered' = TRUE /\ config' \in {config, r.maps} /\ override' = override
           /\ Keep(p) /\ Goto(p, "unlock")
  /\ UNCHANGED <<locks, saved, runtime>>

\* Inspect chooses: a ready box whose files did not change is only refreshed,
\* any other is created or started.  An Inspect that fails counts as not ready.
FastPath(p) ==
  /\ job[p].rec.exists /\ ReadyFor(job[p].rec) /\ ~job[p].changed
  /\ ComposeAccepts(job[p].rec)

Decide(p) ==
  /\ pc[p] = "decide"
  /\ \/ /\ FastPath(p) /\ Works(p)
        /\ job' = [job EXCEPT ![p].fast = TRUE, ![p].rec.status = "ready"]
        /\ saved' = saved /\ Goto(p, "relay")
     \/ \E inspected \in BOOLEAN :
          /\ inspected \/ "list" \in MayFail
          /\ inspected => ~FastPath(p)
          /\ LET stopped == inspected /\ job[p].rec.exists /\ Present /\ ~Running
                 r == [job[p].rec EXCEPT
                         !.exists = TRUE,
                         !.status = IF stopped THEN "starting" ELSE "creating"]
             IN \/ /\ Saves(p, r) /\ job' = [job EXCEPT ![p].rec = r]
                   /\ Goto(p, "relay")
                \/ SaveFails(p, r) /\ Keep(p) /\ Goto(p, "unlock")
  /\ UNCHANGED <<locks, files, runtime>>

-----------------------------------------------------------------------------
\* Start, stop, verify and commit.

\* Stop, Restart and Destroy record what they are about to do.
MarkedStatus(o) ==
  CASE o = "restart" -> "starting" [] o = "stop" -> "stopping" [] OTHER -> "destroying"

Mark(p) ==
  /\ pc[p] = "mark"
  /\ LET r == [job[p].rec EXCEPT !.status = MarkedStatus(job[p].op)]
     IN \/ /\ Saves(p, r) /\ job' = [job EXCEPT ![p].rec = r]
           /\ Goto(p, IF job[p].op = "restart" THEN "relay" ELSE "down")
        \/ SaveFails(p, r) /\ Keep(p) /\ Goto(p, "unlock")
  /\ UNCHANGED <<locks, files, runtime>>

\* compose stop (Stop and the first half of Restart) or compose down (Destroy).
\* A stop that does not select the ports profile may leave a portbridge running.
ComposeDown(p) ==
  /\ pc[p] = "down"
  /\ \/ /\ ComposeAccepts(job[p].rec) /\ Works(p)
        /\ docker' = IF job[p].op = "destroy" \/ docker = "absent" THEN "absent"
                     ELSE "stopped"
        /\ bridge' \in IF job[p].op = "destroy" \/ PublicationsOf(job[p].rec) # {}
                      THEN {{}} ELSE {bridge, {}}
        /\ SidecarDies
        /\ Goto(p, IF job[p].op = "restart" THEN "up" ELSE "halt")
     \/ /\ ~ComposeAccepts(job[p].rec) /\ faults' = faults
        /\ UNCHANGED <<docker, bridge>> /\ SidecarStays
        /\ Goto(p, "error")
     \/ /\ Fails(p, "docker")
        /\ \/ UNCHANGED <<docker, bridge>> /\ SidecarStays
           \/ /\ docker # "absent" /\ docker' = "stopped" /\ bridge' \in {bridge, {}}
              /\ SidecarDies
        /\ Goto(p, "error")
  /\ UNCHANGED <<globalLock, boxLock, saved, files, relay, job>>

\* compose up --wait.  It recreates containers whose configuration changed, and
\* leaves the portbridge alone when the ports profile is not selected.
ComposeUp(p) ==
  /\ pc[p] = "up"
  /\ \/ /\ ComposeAccepts(job[p].rec) /\ Works(p)
        /\ docker' = "running"
        /\ bridge' = IF PublicationsOf(job[p].rec) = {} THEN bridge
                     ELSE override \cap config
        /\ SidecarDies \/ (Reachable /\ SidecarStays)
        /\ Goto(p, "verify")
     \/ /\ ~ComposeAccepts(job[p].rec) /\ faults' = faults
        /\ UNCHANGED <<docker, bridge>> /\ SidecarStays
        /\ Goto(p, "error")
     \/ /\ Fails(p, "docker")
        /\ \/ UNCHANGED docker /\ SidecarStays
           \/ docker' = "unhealthy" /\ SidecarDies
        /\ bridge' \in {bridge, Bridged(p)}
        /\ Goto(p, "error")
  /\ UNCHANGED <<globalLock, boxLock, saved, files, relay, job>>

Verify(p) ==
  /\ pc[p] = "verify"
  /\ LET ready == ReadyFor(job[p].rec) /\ ComposeAccepts(job[p].rec)
     IN \/ ready /\ Works(p) /\ Goto(p, "bridge")
        \/ ~ready /\ faults' = faults /\ Goto(p, "error")
        \/ Fails(p, "list") /\ Goto(p, "error")
  /\ UNCHANGED <<locks, saved, files, runtime, job>>

\* The record ensure and Restart leave; it is saved also when a connection of
\* the box cannot be reconciled, and the command then fails.
CommittedRecord(r) == [r EXCEPT !.status = "ready", !.rtErr = FALSE]

Commit(p) ==
  /\ pc[p] = "commit"
  /\ LET r == CommittedRecord(job[p].rec)
     IN \/ Finish(p, r)
        \/ Fault("conn") /\ saved' = r /\ Keep(p) /\ Goto(p, "unlock")
  /\ UNCHANGED <<locks, files, runtime>>

\* persistError: the status only; PortRuntimeError stays as it is.
PersistError(p) ==
  /\ pc[p] = "error"
  /\ LET r == [job[p].rec EXCEPT !.status = "error"]
     IN Saves(p, r) \/ SaveFails(p, r)
  /\ Keep(p) /\ Goto(p, "unlock")
  /\ UNCHANGED <<locks, files, runtime>>

\* The end of Stop; for Destroy, the connections and the box directory first.
Settle(p) ==
  /\ pc[p] = "settle"
  /\ \/ /\ job[p].op = "stop"
        /\ Finish(p, [job[p].rec EXCEPT !.status = "stopped"])
        /\ UNCHANGED files
     \/ /\ job[p].op = "destroy"
        /\ \/ /\ Works(p) /\ rendered' = FALSE /\ config' = {} /\ override' = {}
              /\ Goto(p, "forget")
           \/ Fault("conn") /\ UNCHANGED files /\ Goto(p, "unlock")
           \/ /\ Fault("rmdir") /\ rendered' \in {rendered, FALSE}
              /\ config' \in {config, {}} /\ override' \in {override, {}}
              /\ Goto(p, "unlock")
        /\ Keep(p) /\ saved' = saved
  /\ UNCHANGED <<locks, runtime>>

Forget(p) ==
  /\ pc[p] = "forget" /\ Finish(p, NoRecord)
  /\ UNCHANGED <<locks, files, runtime>>
=============================================================================
