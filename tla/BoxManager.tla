----------------------------- MODULE BoxManager -----------------------------
(***************************************************************************)
(* The commands of the box manager running against one box, next to the     *)
(* reconciling sidecar of the box, killed processes and dying containers.   *)
(* At the end: what is expected of them.                                    *)
(***************************************************************************)
EXTENDS PortTransaction

-----------------------------------------------------------------------------
\* The sidecar's event loop: Daemon.Sync holds the transaction lock, then its
\* mutex, while it reads ports.json and makes its proxies agree.

\* Mutant: the event loop does not take the transaction lock.
DaemonBeginUnlocked ==
  /\ Reachable /\ daemon = "idle"
  /\ daemon' = "apply"
  /\ UNCHANGED <<locks, saved, files, docker, bridge, relay, proxies, pc, job, faults>>

DaemonBegin ==
  /\ Reachable /\ daemon = "idle" /\ txLock = NoOne
  /\ txLock' = Daemon /\ daemon' = "apply"
  /\ UNCHANGED <<globalLock, boxLock, saved, files, docker, bridge, relay,
                 proxies, pc, job, faults>>

\* Mutants: every mapping gets a proxy; a proxy is never stopped.
DaemonApplyAll ==
  /\ daemon = "apply"
  /\ proxies' = config /\ faults' = faults
  /\ daemon' = "idle" /\ txLock' = NoOne
  /\ UNCHANGED <<globalLock, boxLock, saved, files, docker, bridge, relay, pc, job>>
DaemonApplyMore ==
  /\ daemon = "apply"
  /\ proxies' = proxies \cup (config \cap Imports) /\ faults' = faults
  /\ daemon' = "idle" /\ txLock' = NoOne
  /\ UNCHANGED <<globalLock, boxLock, saved, files, docker, bridge, relay, pc, job>>

DaemonApply ==
  /\ daemon = "apply"
  /\ \/ proxies' = config \cap Imports /\ faults' = faults
     \/ proxies' = proxies /\ Fault("apply")
  /\ daemon' = "idle" /\ txLock' = NoOne
  /\ UNCHANGED <<globalLock, boxLock, saved, files, docker, bridge, relay, pc, job>>

-----------------------------------------------------------------------------
\* The environment.

\* A killed process: the kernel drops its locks, its locals are gone.
Crash(p) ==
  /\ pc[p] # "idle" /\ Fault("crash")
  /\ globalLock' = IF globalLock = p THEN NoOne ELSE globalLock
  /\ boxLock' = IF boxLock = p THEN NoOne ELSE boxLock
  /\ txLock' = IF txLock = p THEN NoOne ELSE txLock
  /\ Goto(p, "idle")
  /\ job' = [job EXCEPT ![p] = NoJob]
  /\ UNCHANGED <<saved, files, runtime>>

\* A host reboot or a failing container, and a relay that ends by itself.
Outage ==
  /\ Fault("outage")
  /\ \/ /\ Reachable /\ docker' \in {"stopped", "unhealthy"}
        /\ bridge' \in {bridge, {}} /\ relay' = relay /\ SidecarDies
     \/ relay /\ relay' = FALSE /\ UNCHANGED <<docker, bridge>> /\ SidecarStays
  /\ UNCHANGED <<globalLock, boxLock, saved, files, pc, job>>

-----------------------------------------------------------------------------
Init ==
  /\ globalLock = NoOne /\ boxLock = NoOne /\ txLock = NoOne
  /\ saved = NoRecord
  /\ rendered = FALSE /\ config = {} /\ override = {}
  /\ docker = "absent" /\ bridge = {} /\ relay = FALSE
  /\ proxies = {} /\ daemon = "idle"
  /\ pc = [p \in Procs |-> "idle"] /\ job = [p \in Procs |-> NoJob]
  /\ faults = 0

Starts(p) == \E o \in Ops : \E a \in Arguments(o) : Begin(p, o, a)

\* The steps of a command that nobody else can hold up for long.
Lifecycle(p) ==
  \/ LockBox(p) \/ Load(p) \/ Unlock(p) \/ InspectBox(p) \/ Touch(p)
  \/ Render(p) \/ Decide(p) \/ Mark(p) \/ ComposeDown(p) \/ ComposeUp(p)
  \/ Verify(p) \/ Commit(p) \/ PersistError(p) \/ Settle(p) \/ Forget(p)
Runtime(p) ==
  \/ EnsureRelay(p) \/ ProbeRelay(p) \/ ApplyBridge(p) \/ HaltRelay(p)
Transaction(p) ==
  \/ Write(p) \/ Unwrite(p) \/ SaveCandidate(p) \/ Unkeep(p) \/ RestoreFiles(p)
  \/ SaveRolledBack(p) \/ Resave(p) \/ EndTransaction(p)

\* The steps that wait for the sidecar.
Sidecar(p) ==
  \/ SyncLoopback(p) \/ ApplyImports(p) \/ Preflight(p)
  \/ BeginTransaction(p) \/ NoTransaction(p)

Step(p) == Lifecycle(p) \/ Runtime(p) \/ Transaction(p) \/ Sidecar(p)

Next ==
  \/ \E p \in Procs : Starts(p) \/ Step(p) \/ Expire(p) \/ Crash(p)
  \/ DaemonBegin \/ DaemonApply \/ Outage

Spec == Init /\ [][Next]_vars

\* A running command goes on by itself.  One that waits for the sidecar polls
\* the lock every 50 ms, while the sidecar's syncs are apart by its debounce,
\* so that it finds the lock free again and again and takes it.  The sidecar
\* syncs at least every 30 s.
FairSpec ==
  /\ Spec
  /\ \A p \in Procs :
       WF_vars(Lifecycle(p) \/ Runtime(p) \/ Transaction(p)) /\ SF_vars(Sidecar(p))
  /\ WF_vars(DaemonApply) /\ WF_vars(DaemonBegin)

-----------------------------------------------------------------------------
Steps == {"idle", "box", "load", "unlock", "inspect", "touch", "sync", "render",
          "decide", "mark", "down", "up", "verify", "commit", "error", "settle",
          "forget", "relay", "probe", "bridge", "imports", "halt", "preflight",
          "transaction", "write", "unwrite", "keep", "unkeep", "save", "resave",
          "restore", "restate", "end"}

TypeOK ==
  /\ globalLock \in Holders /\ boxLock \in Holders
  /\ txLock \in Holders \cup {Daemon}
  /\ saved \in Records
  /\ rendered \in BOOLEAN /\ config \subseteq Mappings
  /\ override \subseteq Publications
  /\ docker \in DockerStates /\ bridge \subseteq Publications /\ relay \in BOOLEAN
  /\ proxies \subseteq Imports /\ daemon \in {"idle", "apply"}
  /\ pc \in [Procs -> Steps] /\ job \in [Procs -> Jobs]
  /\ faults \in 0 .. MaxFaults

-----------------------------------------------------------------------------
\* Safety.

\* The phases of p in which it has loaded the record, and those in which the
\* candidate may have reached state.json although its Save failed.
Loaded(p) == pc[p] \notin {"idle", "box", "load"}
InTransaction(p) == job[p].mode # "lifecycle" /\ pc[p] # "unlock"
Undecided(p) ==
  InTransaction(p) /\ ~job[p].ok
  /\ (job[p].mode = "rollback" \/ pc[p] \in {"unkeep", "resave", "end"})
Failed(p) == pc[p] = "unlock" /\ job[p].mode # "lifecycle" /\ ~job[p].ok

\* The locks say who works: the holder of the state lock is the only process
\* inside a command, the box lock is held from its acquisition to the end, and
\* the transaction lock is held by whoever reads or writes candidate files.
LocksHeld ==
  /\ \A p \in Procs : (pc[p] # "idle" <=> globalLock = p)
  /\ \A p \in Procs :
       boxLock = p <=> pc[p] \notin {"idle", "box"} /\ job[p].op # "list"
  /\ \A p \in Procs : (InTransaction(p) <=> txLock = p)
  /\ (daemon = "apply") <=> (txLock = Daemon)

\* No lost update: the record a command works on is the one in state.json,
\* whatever other commands, kills and failures happen, until it saves its own.
NoLostUpdate ==
  \A p \in Procs :
    Loaded(p) /\ pc[p] \notin {"unlock", "end"} /\ ~Undecided(p)
      => saved.maps = job[p].rec.maps /\ saved.rtErr = job[p].rec.rtErr

\* A box whose port runtime is degraded is not recorded as ready.
ReadyNotDegraded == saved.status = "ready" => ~saved.rtErr

\* The sidecar reconciles committed imports only: while it holds the
\* transaction lock, ports.json lists the imports of the saved record.
CandidateHidden ==
  daemon = "apply" /\ saved.exists /\ ~saved.rtErr
    => config \cap Imports = ImportsOf(saved)

\* When no command runs, the files of an existing box that is not degraded
\* are those of its record.
FilesAgree ==
  globalLock = NoOne /\ saved.exists /\ docker # "absent" /\ ~saved.rtErr
    => config = saved.maps /\ override = PublicationsOf(saved)

\* A port command that succeeded has saved, written and, on a running box,
\* activated the whole request.
AppliedWhole ==
  \A p \in Procs :
    pc[p] = "unlock" /\ job[p].mode # "lifecycle" /\ job[p].ok
      => LET c == Candidate(p) IN
         /\ saved.maps = c.maps /\ config = c.maps /\ override = PublicationsOf(c)
         /\ job[p].rec.status = "ready" =>
              /\ PublicationsOf(c) # PublicationsOf(job[p].rec)
                   => bridge = PublicationsOf(c)
              /\ ImportsOf(c) # ImportsOf(job[p].rec) => proxies = ImportsOf(c)
              /\ ImportsOf(c) # {} => relay

\* A port command that failed leaves the previous record, and either reports
\* the box degraded or leaves the previous files and nothing of its request.
UndoneWhole ==
  \A p \in Procs :
    Failed(p)
      => LET new == job[p].cand \ job[p].rec.maps IN
         /\ saved.maps = job[p].rec.maps
         /\ saved.rtErr \/
              /\ config = saved.maps /\ override = PublicationsOf(saved)
              /\ bridge \cap new = {} /\ proxies \cap new = {}
              /\ new \cap Imports # {} /\ ImportsOf(saved) = {} => ~relay

\* A request is applied or undone as a whole.
AppliedOrUndone == AppliedWhole /\ UndoneWhole

\* A rollback of which a part failed leaves the box recorded as degraded.
FailedRollbackDegrades ==
  \A p \in Procs :
    Failed(p) /\ (job[p].bad \/ config # job[p].snapC \/ override # job[p].snapO)
      => saved.rtErr

-----------------------------------------------------------------------------
\* Action properties.

Serves(r) ==
  /\ docker = "running"
  /\ PublicationsOf(r) \subseteq bridge /\ ImportsOf(r) \subseteq proxies
  /\ ImportsOf(r) # {} => relay

Succeeds(p, o) == pc[p] = "commit" /\ job[p].op = o /\ job'[p].ok

\* wktbox up and wktbox restart restore both directions: when one succeeds,
\* every mapping of the record is served.
UpRestores ==
  [][\A p \in Procs :
       Succeeds(p, "ensure") \/ Succeeds(p, "restart") => Serves(job[p].rec)]_vars

\* Only a successful activation by up or restart, or the deletion of the
\* record, takes a degradation back.
DegradedSticks ==
  [][saved.rtErr /\ ~saved'.rtErr
       => \E p \in Procs : pc[p] \in {"commit", "forget"}]_vars

-----------------------------------------------------------------------------
\* Liveness.

\* Every command ends, also when it must wait for the sidecar, and gives its
\* locks back.
CommandsEnd == \A p \in Procs : pc[p] # "idle" ~> pc[p] = "idle"

\* Once no command runs and the box stays up, the sidecar has proxies for
\* exactly the imports in ports.json.
ProxiesConverge ==
  <>[](globalLock = NoOne /\ Reachable) => <>[](proxies = config \cap Imports)

-----------------------------------------------------------------------------
\* The box implements the ledger of its desired mappings.  While a failed
\* Save may or may not have replaced state.json, the ledger is unchanged.
Desired ==
  IF \E p \in Procs : Undecided(p)
  THEN job[CHOOSE p \in Procs : Undecided(p)].rec.maps
  ELSE saved.maps

\* What p asks of the ledger, from the start of its command until it has its
\* result.  The other commands ask for nothing.
RequestKind == [import |-> "add", publish |-> "add", remove |-> "remove",
                ensure |-> "restore", restart |-> "restore", destroy |-> "destroy"]
Asks(p) ==
  pc[p] \notin {"idle", "unlock"} /\ ~job[p].ok /\ job[p].op \in DOMAIN RequestKind
RequestOf(p) ==
  IF Asks(p) THEN [kind |-> RequestKind[job[p].op], maps |-> job[p].arg]
  ELSE [kind |-> "none", maps |-> {}]
Asked == [p \in Procs |-> RequestOf(p)]

Ledger == INSTANCE PortLedger
            WITH Clients <- Procs, desired <- Desired, degraded <- saved.rtErr, asked <- Asked
LedgerSpec == Ledger!Spec

-----------------------------------------------------------------------------
\* What the documentation says and the code does not do.

\* docs/port-forwarding.md: a successful restart or up reconciles the runtime
\* and clears the degradation, so that nothing the record does not list is
\* left running.
UpReconciles ==
  [][\A p \in Procs :
       saved.rtErr /\ (Succeeds(p, "ensure") \/ Succeeds(p, "restart"))
         => bridge \subseteq PublicationsOf(job[p].rec)
            /\ (relay => ImportsOf(job[p].rec) # {})]_vars

\* The port forwarding design: destroy stops the host relay.
DestroyStopsRelay ==
  [][\A p \in Procs : pc[p] = "forget" /\ job'[p].ok => ~relay]_vars

\* The port forwarding design: restart renders configuration and reconciles
\* every mapping.
RestartReconciles ==
  [][\A p \in Procs : Succeeds(p, "restart") => Serves(job[p].rec)]_vars
=============================================================================
