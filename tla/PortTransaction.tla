-------------------------- MODULE PortTransaction --------------------------
(***************************************************************************)
(* ImportPorts, PublishPorts and RemovePortMappings of sandbox.Manager: the *)
(* candidate mappings are written to the port files under the transaction   *)
(* lock, activated, and saved.  A stopped box is only written and saved.    *)
(* A failure restores the files, then the runtime of the previous record,   *)
(* then saves the previous record, as degraded when a part of that failed.  *)
(***************************************************************************)
EXTENDS BoxLifecycle

\* PortImportPreflight asks the sidecar, under its mutex, whether every new
\* import can bind; preflightPublicationBindings tries the new host listeners.
Preflight(p) ==
  /\ pc[p] = "preflight"
  /\ LET asked == job[p].op = "publish" \/ (Reachable /\ ComposeAccepts(job[p].rec))
     IN \/ asked /\ (job[p].op = "import" => daemon = "idle")
           /\ Works(p) /\ Goto(p, "transaction")
        \/ ~asked /\ faults' = faults /\ Goto(p, "unlock")
        \/ Fails(p, "probe") /\ Goto(p, "unlock")
  /\ UNCHANGED <<locks, saved, files, runtime, job>>

\* Mutant: only the first mapping of a request is added.
CandidateOfFirst(p) ==
  IF job[p].op = "remove" THEN job[p].rec.maps \ job[p].arg
  ELSE job[p].rec.maps \cup {CHOOSE m \in job[p].arg : TRUE}

CandidateMappings(p) ==
  IF job[p].op = "remove" THEN job[p].rec.maps \ job[p].arg
  ELSE job[p].rec.maps \cup job[p].arg

\* lock.Acquire of the transaction lock, and the snapshots of both port files.
BeginTransaction(p) ==
  /\ pc[p] = "transaction" /\ txLock = NoOne
  /\ txLock' = p
  /\ job' = [job EXCEPT ![p].cand = CandidateMappings(p), ![p].mode = "activate",
               ![p].snapC = config, ![p].snapO = override]
  /\ Goto(p, "write")
  /\ UNCHANGED <<globalLock, boxLock, saved, files, runtime, faults>>

\* Without the lock, the port directory or a snapshot nothing is begun.
NoTransaction(p) ==
  /\ pc[p] = "transaction"
  /\ Fault("write") /\ Goto(p, "unlock")
  /\ UNCHANGED <<locks, saved, files, runtime, job>>

\* RenderPortFiles: ports.json, then ports.override.yml.
Write(p) ==
  /\ pc[p] = "write"
  /\ \/ /\ Works(p)
        /\ config' = job[p].cand /\ override' = job[p].cand \cap Publications
        /\ Goto(p, IF job[p].rec.status = "stopped" THEN "keep" ELSE "relay")
     \/ /\ Fault("write")
        /\ config' \in {config, job[p].cand} /\ override' = override
        /\ Goto(p, "unwrite")
  /\ UNCHANGED <<locks, saved, rendered, runtime, job>>

\* Mutant: only ports.json is restored.
RestoredConfig(p) ==
  /\ config' = job[p].snapC /\ override' = override /\ faults' = faults

\* restorePortFile for both files: both are tried, either may fail.
Restored(p) ==
  /\ config' = job[p].snapC /\ override' = job[p].snapO /\ faults' = faults
HalfRestored(p) ==
  /\ Fault("write")
  /\ \/ config' = config /\ override' \in {override, job[p].snapO}
     \/ config' = job[p].snapC /\ override' = override

\* A failed RenderPortFiles restores the files and saves nothing.
Unwrite(p) ==
  /\ pc[p] = "unwrite"
  /\ Restored(p) \/ HalfRestored(p)
  /\ Goto(p, "end")
  /\ UNCHANGED <<locks, saved, rendered, runtime, job>>

\* Save of the candidate, for a stopped box and after a successful activation.
SaveCandidate(p) ==
  /\ pc[p] \in {"keep", "save"}
  /\ \/ /\ Saves(p, Candidate(p)) /\ job' = [job EXCEPT ![p].ok = TRUE]
        /\ Goto(p, "end")
     \/ /\ SaveFails(p, Candidate(p))
        /\ IF pc[p] = "keep" THEN Keep(p) /\ Goto(p, "unkeep")
           ELSE job' = [job EXCEPT ![p].mode = "rollback"] /\ Goto(p, "restore")
  /\ UNCHANGED <<locks, files, runtime>>

\* The stopped box: restore the files, and save the previous record again,
\* degraded when the files could not be restored.
Degraded(r) == [r EXCEPT !.status = "error", !.rtErr = TRUE]

Unkeep(p) ==
  /\ pc[p] = "unkeep"
  /\ \/ Restored(p) /\ Keep(p)
     \/ HalfRestored(p) /\ job' = [job EXCEPT ![p].rec = Degraded(@)]
  /\ Goto(p, "resave")
  /\ UNCHANGED <<locks, saved, rendered, runtime>>

\* rollbackPortMappings, first part: the files.
RestoreFiles(p) ==
  /\ pc[p] = "restore"
  /\ \/ Restored(p) /\ Keep(p)
     \/ HalfRestored(p) /\ job' = [job EXCEPT ![p].bad = TRUE]
  /\ Goto(p, "relay")
  /\ UNCHANGED <<locks, saved, rendered, runtime>>

\* The 15 seconds of the rollback are over: what uses its context now fails.
Expire(p) ==
  /\ job[p].mode = "rollback" /\ ~job[p].expired
  /\ pc[p] \in {"relay", "bridge", "imports", "halt", "restate", "resave"}
  /\ Fault("timeout")
  /\ job' = [job EXCEPT ![p].expired = TRUE]
  /\ UNCHANGED <<locks, saved, files, runtime, pc>>

\* Mutant: the failures of a rollback are only returned.
RolledBackQuietly(p) == job[p].rec

\* rollbackPortMappings, last part: the previous record, degraded when a step
\* of the rollback failed; a Save that fails is tried once more, degraded.
RolledBack(p) == IF job[p].bad THEN Degraded(job[p].rec) ELSE job[p].rec

SaveRolledBack(p) ==
  /\ pc[p] = "restate"
  /\ LET r == RolledBack(p)
     IN \/ Saves(p, r) /\ Keep(p) /\ Goto(p, "end")
        \/ /\ SaveFails(p, r) /\ Goto(p, "resave")
           /\ job' = [job EXCEPT ![p].rec = Degraded(r)]
  /\ UNCHANGED <<locks, files, runtime>>

Resave(p) ==
  /\ pc[p] = "resave"
  /\ Saves(p, job[p].rec) \/ SaveFails(p, job[p].rec)
  /\ Keep(p) /\ Goto(p, "end")
  /\ UNCHANGED <<locks, files, runtime>>

\* Mutant: an early return keeps the transaction lock.
EndWithoutUnlock(p) ==
  /\ pc[p] = "end"
  /\ Goto(p, "unlock")
  /\ UNCHANGED <<locks, saved, files, runtime, job, faults>>

EndTransaction(p) ==
  /\ pc[p] = "end"
  /\ txLock' = NoOne
  /\ Goto(p, "unlock")
  /\ UNCHANGED <<globalLock, boxLock, saved, files, runtime, job, faults>>
=============================================================================
