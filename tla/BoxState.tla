------------------------------ MODULE BoxState ------------------------------
(***************************************************************************)
(* What one Wktbox box is made of: its record in state.json, its generated  *)
(* files, its Docker containers, its host import relay and the import       *)
(* proxies of its loopback sidecar, and the three file locks that order the *)
(* commands which change them.                                              *)
(*                                                                          *)
(* Every CLI invocation is a process.  A process holds the working copies   *)
(* of one Manager method (the Go locals) in job[p] and its position in that *)
(* method in pc[p].  A step that calls Docker, the relay or the file system *)
(* may fail: MayFail says which kinds of step, MaxFaults how many times.    *)
(*                                                                          *)
(* Abstracted: names, paths, worktrees, timestamps, error texts and port    *)
(* numbers; a mapping is a model value, and a box has one Compose project,  *)
(* so that "docker" stands for its docker, webtop, loopback and             *)
(* interconnect containers together.                                        *)
(***************************************************************************)
EXTENDS Naturals, FiniteSets

CONSTANTS
  Procs,          \* concurrent CLI invocations
  Imports,        \* port mappings with direction "import"
  Publications,   \* port mappings with direction "publish"
  Daemon,         \* the loopback sidecar, as a holder of the transaction lock
  NoOne,          \* holder of a free lock
  MayFail,        \* the kinds of failure that occur, a subset of FaultKinds
  MaxFaults       \* how many of them occur in a behaviour

\* "list"    a Docker query;           "save"   write state.json
\* "write"   the generated files;      "docker" compose up, stop, down
\* "relay"   start the host relay;     "unstop" stop it, with an error
\* "swallow" stop it, error swallowed; "probe"  reach it, or bind a port
\* "bridge"  compose up/rm portbridge; "apply"  imports-apply in the sidecar
\* "conn"    the box's connections;    "rmdir"  remove its directory
\* "timeout" of the rollback;          "crash"  kill of a CLI process
\* "outage"  containers or the relay die by themselves
FaultKinds == {"list", "save", "write", "docker", "relay", "unstop", "swallow",
               "probe", "bridge", "apply", "conn", "rmdir", "timeout", "crash",
               "outage"}

ASSUME BoxAssumption ==
  /\ MaxFaults \in Nat
  /\ MayFail \subseteq FaultKinds
  /\ Imports \cap Publications = {}
  /\ NoOne \notin Procs /\ Daemon \notin Procs /\ NoOne # Daemon

VARIABLES
  globalLock,     \* state.lock
  boxLock,        \* boxes/<id>/box.lock
  txLock,         \* boxes/<id>/port-transaction/transaction.lock
  saved,          \* the record of the box in state.json
  rendered,       \* TRUE when compose.yml is there
  config,         \* the mappings in ports.json, {} when absent
  override,       \* the publications in ports.override.yml, {} when absent
  docker,         \* the containers of the box
  bridge,         \* the publications the portbridge container serves
  relay,          \* TRUE while the host import relay process runs
  proxies,        \* the imports the sidecar has proxies for
  daemon,         \* "apply" while the sidecar's event loop reconciles
  pc, job,        \* position and locals of every CLI invocation
  faults          \* failures so far

locks == <<globalLock, boxLock, txLock>>
files == <<rendered, config, override>>
sidecar == <<proxies, daemon>>
runtime == <<docker, bridge, relay, sidecar>>
vars == <<locks, saved, files, runtime, pc, job, faults>>

Mappings == Imports \cup Publications
Holders == Procs \cup {NoOne}

Statuses == {"creating", "ready", "stopping", "stopped", "starting", "error",
             "destroying"}
DockerStates == {"absent", "stopped", "unhealthy", "running"}

\* A box record; rtErr says that PortRuntimeError is not empty.
\* PortOverridePath is set exactly when the record has publications.
Records == [exists : BOOLEAN, status : Statuses, maps : SUBSET Mappings,
            rtErr : BOOLEAN]
NoRecord == [exists |-> FALSE, status |-> "stopped", maps |-> {}, rtErr |-> FALSE]

ImportsOf(r) == r.maps \cap Imports
PublicationsOf(r) == r.maps \cap Publications

\* Container and runtime health: any container running makes the project
\* Running; Ready also wants the four core containers healthy, and the
\* portbridge running when the record has publications.
Present == docker # "absent" \/ bridge # {}
Reachable == docker \in {"unhealthy", "running"}
Running == Reachable \/ bridge # {}
ReadyFor(r) == docker = "running" /\ (PublicationsOf(r) # {} => bridge # {})

\* Compose refuses every command of a project whose files are not all there.
ComposeAccepts(r) == rendered /\ (PublicationsOf(r) # {} => override # {})

\* loadAndReconcileUnlocked: the record state.json holds, corrected by what
\* Docker reports.  A box Docker does not know keeps only the status creating.
ReconciledStatus(r) ==
  IF Running /\ ReadyFor(r) THEN IF r.rtErr THEN "error" ELSE "ready"
  ELSE IF Running THEN "error" ELSE "stopped"

\* Mutant: a reconciled record is made anew, without its degradation.
ReconciledAnew ==
  IF Present THEN [exists |-> TRUE, status |-> ReconciledStatus(saved),
                   maps |-> saved.maps, rtErr |-> FALSE]
  ELSE saved

Reconciled ==
  IF Present
  THEN [saved EXCEPT !.exists = TRUE, !.status = ReconciledStatus(saved)]
  ELSE IF saved.exists /\ saved.status # "creating"
       THEN [saved EXCEPT !.status = "stopped"]
       ELSE saved

\* Mutant: Inspect reports what Compose says of a degraded box.
InspectedStatusOfCompose(r) ==
  IF ReadyFor(r) THEN "ready" ELSE IF Running THEN "error" ELSE "stopped"

\* statusFromCompose, with the correction Inspect makes for a degraded box.
InspectedStatus(r) ==
  IF ReadyFor(r) THEN IF r.rtErr THEN "error" ELSE "ready"
  ELSE IF Running THEN "error" ELSE "stopped"

-----------------------------------------------------------------------------
\* What a CLI process is doing.

PortOps == {"import", "publish", "remove"}
Ops == {"list", "ports", "inspect", "touch", "sync", "ensure", "restart",
        "stop", "destroy"} \cup PortOps

\* Which runtime a step works for: a lifecycle command's record, the candidate
\* of a port transaction, or the previous record a rollback returns to.
Modes == {"lifecycle", "activate", "rollback"}

\* rec: the record the method works on (in a transaction: the previous one);
\* cand: the candidate mappings; snap: port files captured before the change;
\* changed: Render changed a file; fast: ensure found the box ready; bad: a
\* rollback step failed; expired: its 15 s are over; ok: the method's result.
Jobs == [op : Ops, arg : SUBSET Mappings, mode : Modes, rec : Records,
         cand : SUBSET Mappings, snapC : SUBSET Mappings,
         snapO : SUBSET Publications, changed : BOOLEAN, fast : BOOLEAN,
         bad : BOOLEAN, expired : BOOLEAN, ok : BOOLEAN]
NewJob(o, a) ==
  [op |-> o, arg |-> a, mode |-> "lifecycle", rec |-> NoRecord, cand |-> {},
   snapC |-> {}, snapO |-> {}, changed |-> FALSE, fast |-> FALSE, bad |-> FALSE,
   expired |-> FALSE, ok |-> FALSE]
NoJob == NewJob("list", {})

Candidate(p) == [job[p].rec EXCEPT !.maps = job[p].cand]

\* The record whose Compose project and relay a step of p uses.
Target(p) == IF job[p].mode = "activate" THEN Candidate(p) ELSE job[p].rec

Goto(p, l) == pc' = [pc EXCEPT ![p] = l]
Note(p, f, v) == job' = [job EXCEPT ![p][f] = v]
Keep(p) == job' = job

-----------------------------------------------------------------------------
\* Failures.

Fault(k) == k \in MayFail /\ faults < MaxFaults /\ faults' = faults + 1

\* A step that uses the context works while the context lives; once it has
\* expired the step fails without any further fault.
Works(p) == ~job[p].expired /\ faults' = faults
Fails(p, k) == (job[p].expired /\ faults' = faults) \/ Fault(k)

\* Save: write a temporary file, rename it, sync the directory.  A failure
\* after the rename has replaced the file; an expired context stops it before.
Saves(p, r) == Works(p) /\ saved' = r
SaveFails(p, r) ==
  \/ job[p].expired /\ faults' = faults /\ saved' = saved
  \/ Fault("save") /\ saved' \in {saved, r}

\* The sidecar dies with its container: its proxies and its locks go.
SidecarDies ==
  /\ daemon' = "idle" /\ proxies' = {}
  /\ txLock' = IF txLock = Daemon THEN NoOne ELSE txLock
SidecarStays == UNCHANGED <<sidecar, txLock>>
=============================================================================
