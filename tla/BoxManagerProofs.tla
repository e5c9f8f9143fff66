-------------------------- MODULE BoxManagerProofs --------------------------
(***************************************************************************)
(* Proofs about BoxManager, for every set of processes and mappings and any *)
(* number of failures: type correctness, the exclusion the locks give, and  *)
(* that a degraded box is never recorded as ready.                          *)
(***************************************************************************)
EXTENDS BoxManager, TLAPS

-----------------------------------------------------------------------------
\* The helpers of the actions stay within their types.

RuntimeSteps == {"relay", "probe", "bridge", "imports", "halt"}

\* What Docker reports turns a record into a record.
LEMMA ReconciledType ==
  ASSUME saved \in Records
  PROVE  Reconciled \in Records
BY DEF Reconciled, ReconciledStatus, Records, Statuses

LEMMA InspectedType ==
  ASSUME NEW r
  PROVE  InspectedStatus(r) \in Statuses
BY DEF InspectedStatus, Statuses

\* Updates of a record and of the locals of a process.
LEMMA RecordType ==
  ASSUME NEW r \in Records, NEW s \in Statuses, NEW e \in BOOLEAN
  PROVE  /\ [r EXCEPT !.status = s] \in Records
         /\ [r EXCEPT !.status = s, !.rtErr = e] \in Records
         /\ [r EXCEPT !.exists = TRUE, !.status = s] \in Records
BY DEF Records

LEMMA CandidateType ==
  ASSUME TypeOK, NEW p \in Procs
  PROVE  /\ job[p] \in Jobs /\ job[p].rec \in Records /\ job[p].mode \in Modes
         /\ job[p].cand \subseteq Mappings
         /\ job[p].snapC \subseteq Mappings /\ job[p].snapO \subseteq Publications
         /\ Candidate(p) \in Records /\ Target(p) \in Records
BY DEF TypeOK, Jobs, Candidate, Target, Records

LEMMA JobRecType ==
  ASSUME NEW j \in Jobs, NEW r \in Records, NEW b \in BOOLEAN
  PROVE  /\ [j EXCEPT !.rec = r] \in Jobs
         /\ [j EXCEPT !.rec = r, !.ok = b] \in Jobs
         /\ [j EXCEPT !.fast = b, !.rec = r] \in Jobs
BY DEF Jobs

LEMMA JobFlagType ==
  ASSUME NEW j \in Jobs, NEW b \in BOOLEAN
  PROVE  /\ [j EXCEPT !.ok = b] \in Jobs
         /\ [j EXCEPT !.bad = b] \in Jobs
         /\ [j EXCEPT !.expired = b] \in Jobs
         /\ [j EXCEPT !.changed = b] \in Jobs
BY DEF Jobs

LEMMA JobModeType ==
  ASSUME NEW j \in Jobs, NEW m \in Modes
  PROVE  [j EXCEPT !.mode = m] \in Jobs
BY DEF Jobs

LEMMA NewJobType ==
  ASSUME NEW o \in Ops, NEW a \in SUBSET Mappings
  PROVE  NewJob(o, a) \in Jobs
BY DEF NewJob, Jobs, NoRecord, Records, Statuses, Modes

LEMMA NoJobType == NoJob \in Jobs
BY NewJobType DEF NoJob, Ops

\* Failures are counted up to their bound.
LEMMA FaultType ==
  ASSUME TypeOK, NEW p \in Procs, NEW k,
         Works(p) \/ Fails(p, k) \/ Fault(k) \/ faults' = faults
  PROVE  faults' \in 0 .. MaxFaults
BY BoxAssumption DEF TypeOK, Works, Fails, Fault

\* A Save leaves a record in state.json, whether it fails or not.
LEMMA SaveType ==
  ASSUME TypeOK, NEW p \in Procs, NEW r \in Records,
         Saves(p, r) \/ SaveFails(p, r)
  PROVE  saved' \in Records /\ faults' \in 0 .. MaxFaults
BY BoxAssumption DEF TypeOK, Saves, SaveFails, Works, Fault

LEMMA FinishType ==
  ASSUME TypeOK, NEW p \in Procs, NEW r \in Records, Finish(p, r)
  PROVE  /\ saved' \in Records /\ faults' \in 0 .. MaxFaults
         /\ pc' \in [Procs -> Steps] /\ job' \in [Procs -> Jobs]
<1>1. saved' \in Records /\ faults' \in 0 .. MaxFaults
  BY SaveType DEF Finish
<1>2. pc' \in [Procs -> Steps]
  BY DEF Finish, Goto, Steps, TypeOK
<1>3. job[p] \in Jobs /\ [job[p] EXCEPT !.ok = TRUE] \in Jobs
  BY JobFlagType DEF TypeOK
<1>4. job' \in [Procs -> Jobs]
  BY <1>3 DEF Finish, TypeOK
<1> QED
  BY <1>1, <1>2, <1>4

\* The step after a runtime step is a step, whether that one failed or not.
LEMMA AfterStepType ==
  ASSUME NEW p \in Procs, job \in [Procs -> Jobs], NEW step \in RuntimeSteps
  PROVE  AfterStep(p, step) \in Steps
<1>1. job[p].mode \in Modes
  BY DEF Jobs
<1> QED
  BY <1>1 DEF AfterStep, Order, Modes, Steps, RuntimeSteps

LEMMA ProceedType ==
  ASSUME NEW p \in Procs, NEW step \in RuntimeSteps, Proceed(p, step),
         pc \in [Procs -> Steps], job \in [Procs -> Jobs]
  PROVE  pc' \in [Procs -> Steps] /\ job' \in [Procs -> Jobs]
BY AfterStepType DEF Proceed, Goto, Keep

LEMMA FallbackType ==
  ASSUME NEW p \in Procs, NEW step \in RuntimeSteps, Fallback(p, step),
         pc \in [Procs -> Steps], job \in [Procs -> Jobs]
  PROVE  pc' \in [Procs -> Steps] /\ job' \in [Procs -> Jobs]
<1>1. job[p] \in Jobs /\ job[p].mode \in Modes
  BY DEF Jobs
<1>2. CASE job[p].mode = "lifecycle"
  BY <1>1, <1>2 DEF Fallback, Goto, Keep, Steps, Modes
<1>3. CASE job[p].mode = "activate"
  BY <1>1, <1>3 DEF Fallback, Goto, Steps, Modes, Jobs
<1>4. CASE job[p].mode = "rollback"
  <2>1. AfterStep(p, step) \in Steps
    BY AfterStepType
  <2>2. pc' = [pc EXCEPT ![p] = AfterStep(p, step)]
        /\ job' = [job EXCEPT ![p].bad = TRUE]
    BY <1>4 DEF Fallback, Goto
  <2>3. [job[p] EXCEPT !.bad = TRUE] \in Jobs
    BY <1>1 DEF Jobs
  <2> QED
    BY <2>1, <2>2, <2>3
<1> QED
  BY <1>1, <1>2, <1>3, <1>4 DEF Modes

-----------------------------------------------------------------------------
\* Every action preserves the types.

LEMMA BeginType ==
  ASSUME TypeOK, NEW p \in Procs, NEW o \in Ops, NEW a \in Arguments(o), Begin(p, o, a)
  PROVE  TypeOK'
<1>1. NewJob(o, a) \in Jobs
  BY NewJobType DEF Arguments, Mappings
<1>2. job' \in [Procs -> Jobs]
  BY <1>1 DEF Begin, TypeOK
<1>3. pc' \in [Procs -> Steps]
  BY DEF Begin, Goto, TypeOK, Steps
<1> QED
  BY <1>2, <1>3 DEF TypeOK, Begin, Holders, files, runtime, sidecar

LEMMA LockBoxType ==
  ASSUME TypeOK, NEW p \in Procs, LockBox(p)
  PROVE  TypeOK'
BY DEF TypeOK, LockBox, Goto, files, runtime, sidecar, Steps, Holders

LEMMA LoadType ==
  ASSUME TypeOK, NEW p \in Procs, Load(p)
  PROVE  TypeOK'
<1>1. job[p] \in Jobs /\ Reconciled \in Records
  BY CandidateType, ReconciledType DEF TypeOK
<1>2. saved' \in Records /\ faults' \in 0 .. MaxFaults
  BY <1>1, SaveType, FaultType DEF Load, TypeOK
<1>3. job[p].op \in Ops /\ FirstStep[job[p].op] \in Steps
  BY <1>1 DEF Jobs, Ops, PortOps, FirstStep, Steps
<1>4. pc' \in [Procs -> Steps]
  BY <1>3 DEF Load, Goto, TypeOK, Steps
<1>5. \A b \in BOOLEAN : [job[p] EXCEPT !.rec = Reconciled, !.ok = b] \in Jobs
  BY <1>1, JobRecType
<1>6. job' \in [Procs -> Jobs]
  BY <1>5 DEF Load, TypeOK
<1> QED
  BY <1>2, <1>4, <1>6 DEF TypeOK, Load, locks, files, runtime, sidecar

LEMMA UnlockType ==
  ASSUME TypeOK, NEW p \in Procs, Unlock(p)
  PROVE  TypeOK'
<1>1. pc' \in [Procs -> Steps] /\ job' \in [Procs -> Jobs]
  BY NoJobType DEF Unlock, Goto, TypeOK, Steps
<1> QED
  BY <1>1 DEF TypeOK, Unlock, Holders, files, runtime, sidecar

LEMMA InspectBoxType ==
  ASSUME TypeOK, NEW p \in Procs, InspectBox(p)
  PROVE  TypeOK'
<1> DEFINE r == [job[p].rec EXCEPT !.status = InspectedStatus(job[p].rec)]
<1>1. r \in Records
  BY CandidateType, InspectedType, RecordType
<1>2. CASE Finish(p, r)
  BY <1>1, <1>2, FinishType DEF TypeOK, InspectBox, locks, files, runtime, sidecar
<1>3. CASE ~Finish(p, r)
  <2>1. faults' \in 0 .. MaxFaults
    BY <1>3, FaultType DEF InspectBox
  <2> QED
    BY <1>3, <2>1 DEF TypeOK, InspectBox, Goto, Steps, locks, files, runtime, sidecar
<1> QED
  BY <1>2, <1>3

LEMMA TouchType ==
  ASSUME TypeOK, NEW p \in Procs, Touch(p)
  PROVE  TypeOK'
BY CandidateType, FinishType DEF TypeOK, Touch, locks, files, runtime, sidecar

LEMMA SyncLoopbackType ==
  ASSUME TypeOK, NEW p \in Procs, SyncLoopback(p)
  PROVE  TypeOK'
<1>1. faults' \in 0 .. MaxFaults
  BY FaultType DEF SyncLoopback
<1>2. [job[p] EXCEPT !.ok = TRUE] \in Jobs
  BY CandidateType, JobFlagType
<1>3. job' \in [Procs -> Jobs]
  BY <1>2 DEF SyncLoopback, TypeOK
<1>4. pc' \in [Procs -> Steps]
  BY DEF SyncLoopback, Goto, TypeOK, Steps
<1> QED
  BY <1>1, <1>3, <1>4 DEF TypeOK, SyncLoopback, locks, files, runtime, sidecar

LEMMA EnsureRelayType ==
  ASSUME TypeOK, NEW p \in Procs, EnsureRelay(p)
  PROVE  TypeOK'
<1>1. "relay" \in RuntimeSteps
  BY DEF RuntimeSteps
<1>2. Proceed(p, "relay") \/ Fallback(p, "relay")
  BY DEF EnsureRelay, Skip
<1>3. pc' \in [Procs -> Steps] /\ job' \in [Procs -> Jobs]
  BY <1>1, <1>2, ProceedType, FallbackType DEF TypeOK
<1>4. faults' \in 0 .. MaxFaults
  BY FaultType DEF EnsureRelay, Skip
<1> QED
  BY <1>3, <1>4 DEF TypeOK, EnsureRelay, Skip, locks, files, runtime, sidecar

LEMMA ProbeRelayType ==
  ASSUME TypeOK, NEW p \in Procs, ProbeRelay(p)
  PROVE  TypeOK'
<1>1. "probe" \in RuntimeSteps
  BY DEF RuntimeSteps
<1>2. Proceed(p, "probe") \/ Fallback(p, "probe")
  BY DEF ProbeRelay, Skip
<1>3. pc' \in [Procs -> Steps] /\ job' \in [Procs -> Jobs]
  BY <1>1, <1>2, ProceedType, FallbackType DEF TypeOK
<1>4. faults' \in 0 .. MaxFaults
  BY FaultType DEF ProbeRelay, Skip
<1> QED
  BY <1>3, <1>4 DEF TypeOK, ProbeRelay, Skip, locks, files, runtime, sidecar

LEMMA ApplyBridgeType ==
  ASSUME TypeOK, NEW p \in Procs, ApplyBridge(p)
  PROVE  TypeOK'
<1>1. "bridge" \in RuntimeSteps
  BY DEF RuntimeSteps
<1>2. Proceed(p, "bridge") \/ Fallback(p, "bridge")
  BY DEF ApplyBridge, Skip
<1>3. pc' \in [Procs -> Steps] /\ job' \in [Procs -> Jobs]
  BY <1>1, <1>2, ProceedType, FallbackType DEF TypeOK
<1>4. faults' \in 0 .. MaxFaults
  BY FaultType DEF ApplyBridge, Skip
<1> QED
  BY <1>3, <1>4 DEF TypeOK, ApplyBridge, Bridged, Skip, locks, files, runtime, sidecar

LEMMA ApplyImportsType ==
  ASSUME TypeOK, NEW p \in Procs, ApplyImports(p)
  PROVE  TypeOK'
<1>1. "imports" \in RuntimeSteps
  BY DEF RuntimeSteps
<1>2. Proceed(p, "imports") \/ Fallback(p, "imports")
  BY DEF ApplyImports, Skip
<1>3. pc' \in [Procs -> Steps] /\ job' \in [Procs -> Jobs]
  BY <1>1, <1>2, ProceedType, FallbackType DEF TypeOK
<1>4. faults' \in 0 .. MaxFaults
  BY FaultType DEF ApplyImports, Skip
<1> QED
  BY <1>3, <1>4 DEF TypeOK, ApplyImports, Skip, locks, files, runtime, sidecar

LEMMA HaltRelayType ==
  ASSUME TypeOK, NEW p \in Procs, HaltRelay(p)
  PROVE  TypeOK'
<1>1. "halt" \in RuntimeSteps
  BY DEF RuntimeSteps
<1>2. Proceed(p, "halt") \/ Fallback(p, "halt")
  BY DEF HaltRelay, Skip
<1>3. pc' \in [Procs -> Steps] /\ job' \in [Procs -> Jobs]
  BY <1>1, <1>2, ProceedType, FallbackType DEF TypeOK
<1>4. faults' \in 0 .. MaxFaults
  BY FaultType DEF HaltRelay, Skip
<1> QED
  BY <1>3, <1>4 DEF TypeOK, HaltRelay, Skip, locks, files, runtime, sidecar

LEMMA RenderType ==
  ASSUME TypeOK, NEW p \in Procs, Render(p)
  PROVE  TypeOK'
<1>1. job[p] \in Jobs /\ job[p].rec.maps \subseteq Mappings
  BY CandidateType DEF Records
<1>2. faults' \in 0 .. MaxFaults
  BY FaultType DEF Render
<1>3. \A c \in BOOLEAN : [job[p] EXCEPT !.changed = c] \in Jobs
  BY <1>1, JobFlagType
<1>4. job' \in [Procs -> Jobs]
  BY <1>3 DEF Render, Keep, TypeOK
<1>5. pc' \in [Procs -> Steps]
  BY DEF Render, Goto, TypeOK, Steps
<1>6. rendered' \in BOOLEAN /\ config' \subseteq Mappings /\ override' \subseteq Publications
  BY <1>1 DEF Render, TypeOK, files, PublicationsOf
<1> QED
  BY <1>2, <1>4, <1>5, <1>6 DEF TypeOK, Render, locks, runtime, sidecar

LEMMA DecideType ==
  ASSUME TypeOK, NEW p \in Procs, Decide(p)
  PROVE  TypeOK'
<1>1. job[p] \in Jobs /\ job[p].rec \in Records
  BY CandidateType
<1>2. CASE /\ FastPath(p) /\ Works(p)
           /\ job' = [job EXCEPT ![p].fast = TRUE, ![p].rec.status = "ready"]
           /\ saved' = saved /\ Goto(p, "relay")
  <2>1. [job[p].rec EXCEPT !.status = "ready"] \in Records
    BY <1>1, RecordType DEF Statuses
  <2>2. [job[p] EXCEPT !.fast = TRUE, !.rec = [job[p].rec EXCEPT !.status = "ready"]] \in Jobs
    BY <1>1, <2>1, JobRecType
  <2>3. job' = [job EXCEPT ![p] = [job[p] EXCEPT !.fast = TRUE,
                               !.rec = [job[p].rec EXCEPT !.status = "ready"]]]
    BY <1>1, <1>2 DEF TypeOK, Jobs
  <2>4. job' \in [Procs -> Jobs]
    BY <2>2, <2>3 DEF TypeOK
  <2>5. pc' \in [Procs -> Steps] /\ faults' \in 0 .. MaxFaults
    BY <1>2, FaultType DEF Goto, TypeOK, Steps
  <2> QED
    BY <1>2, <2>4, <2>5 DEF TypeOK, Decide, locks, files, runtime, sidecar
<1>3. ASSUME NEW s \in {"starting", "creating"},
             LET r == [job[p].rec EXCEPT !.exists = TRUE, !.status = s]
             IN \/ /\ Saves(p, r) /\ job' = [job EXCEPT ![p].rec = r]
                   /\ Goto(p, "relay")
                \/ SaveFails(p, r) /\ Keep(p) /\ Goto(p, "unlock")
      PROVE  TypeOK'
  <2> DEFINE r == [job[p].rec EXCEPT !.exists = TRUE, !.status = s]
  <2>1. r \in Records
    BY <1>1, RecordType DEF Statuses
  <2> HIDE DEF r
  <2>2. saved' \in Records /\ faults' \in 0 .. MaxFaults
    BY <1>3, <2>1, SaveType DEF r
  <2>3. [job[p] EXCEPT !.rec = r] \in Jobs
    BY <1>1, <2>1, JobRecType
  <2>4. job' \in [Procs -> Jobs]
    BY <1>3, <2>3 DEF Keep, TypeOK, r
  <2>5. pc' \in [Procs -> Steps]
    BY <1>3 DEF Goto, TypeOK, Steps
  <2> QED
    BY <2>2, <2>4, <2>5 DEF TypeOK, Decide, locks, files, runtime, sidecar
<1> QED
  BY <1>2, <1>3 DEF Decide

LEMMA MarkType ==
  ASSUME TypeOK, NEW p \in Procs, Mark(p)
  PROVE  TypeOK'
<1> DEFINE r == [job[p].rec EXCEPT !.status = MarkedStatus(job[p].op)]
<1>1. job[p] \in Jobs /\ r \in Records
  BY CandidateType, RecordType DEF MarkedStatus, Statuses
<1>2. [job[p] EXCEPT !.rec = r] \in Jobs
  BY <1>1, JobRecType
<1>3. saved' \in Records /\ faults' \in 0 .. MaxFaults
  BY <1>1, SaveType DEF Mark
<1>4. pc' \in [Procs -> Steps] /\ job' \in [Procs -> Jobs]
  BY <1>2 DEF Mark, Goto, Keep, TypeOK, Steps
<1> QED
  BY <1>3, <1>4 DEF TypeOK, Mark, files, runtime, sidecar, locks

LEMMA ComposeDownType ==
  ASSUME TypeOK, NEW p \in Procs, ComposeDown(p)
  PROVE  TypeOK'
<1>1. faults' \in 0 .. MaxFaults
  BY FaultType DEF ComposeDown
<1>2. pc' \in [Procs -> Steps]
  BY DEF ComposeDown, Goto, TypeOK, Steps
<1>3. docker' \in DockerStates /\ bridge' \subseteq Publications
  BY DEF ComposeDown, TypeOK, DockerStates
<1>4. /\ txLock' \in Holders \cup {Daemon}
      /\ proxies' \subseteq Imports /\ daemon' \in {"idle", "apply"}
  BY DEF ComposeDown, SidecarDies, SidecarStays, sidecar, TypeOK, Holders
<1> QED
  BY <1>1, <1>2, <1>3, <1>4 DEF TypeOK, ComposeDown, files

LEMMA ComposeUpType ==
  ASSUME TypeOK, NEW p \in Procs, ComposeUp(p)
  PROVE  TypeOK'
<1>1. faults' \in 0 .. MaxFaults
  BY FaultType DEF ComposeUp
<1>2. pc' \in [Procs -> Steps]
  BY DEF ComposeUp, Goto, TypeOK, Steps
<1>3. docker' \in DockerStates /\ bridge' \subseteq Publications
  BY DEF ComposeUp, Bridged, TypeOK, DockerStates
<1>4. /\ txLock' \in Holders \cup {Daemon}
      /\ proxies' \subseteq Imports /\ daemon' \in {"idle", "apply"}
  BY DEF ComposeUp, SidecarDies, SidecarStays, sidecar, TypeOK, Holders
<1> QED
  BY <1>1, <1>2, <1>3, <1>4 DEF TypeOK, ComposeUp, files

LEMMA VerifyType ==
  ASSUME TypeOK, NEW p \in Procs, Verify(p)
  PROVE  TypeOK'
<1>1. faults' \in 0 .. MaxFaults
  BY FaultType DEF Verify
<1>2. pc' \in [Procs -> Steps]
  BY DEF Verify, Goto, TypeOK, Steps
<1> QED
  BY <1>1, <1>2 DEF TypeOK, Verify, locks, files, runtime, sidecar

LEMMA CommitType ==
  ASSUME TypeOK, NEW p \in Procs, Commit(p)
  PROVE  TypeOK'
<1> DEFINE r == CommittedRecord(job[p].rec)
<1>1. r \in Records
  BY CandidateType, RecordType DEF CommittedRecord, Statuses
<1> HIDE DEF r
<1>2. CASE Finish(p, r)
  BY <1>1, <1>2, FinishType DEF TypeOK, Commit, locks, files, runtime, sidecar
<1>3. CASE Fault("conn") /\ saved' = r /\ Keep(p) /\ Goto(p, "unlock")
  <2>1. faults' \in 0 .. MaxFaults /\ pc' \in [Procs -> Steps]
    BY <1>3, FaultType DEF Goto, TypeOK, Steps
  <2> QED
    BY <1>1, <1>3, <2>1 DEF TypeOK, Commit, Keep, locks, files, runtime, sidecar
<1> QED
  BY <1>2, <1>3 DEF Commit, r

LEMMA PersistErrorType ==
  ASSUME TypeOK, NEW p \in Procs, PersistError(p)
  PROVE  TypeOK'
<1>1. [job[p].rec EXCEPT !.status = "error"] \in Records
  BY CandidateType, RecordType DEF Statuses
<1>2. saved' \in Records /\ faults' \in 0 .. MaxFaults
  BY <1>1, SaveType DEF PersistError
<1>3. pc' \in [Procs -> Steps]
  BY DEF PersistError, Goto, TypeOK, Steps
<1> QED
  BY <1>2, <1>3 DEF TypeOK, PersistError, Keep, locks, files, runtime, sidecar

LEMMA SettleType ==
  ASSUME TypeOK, NEW p \in Procs, Settle(p)
  PROVE  TypeOK'
<1>1. CASE job[p].op = "stop"
  <2>1. [job[p].rec EXCEPT !.status = "stopped"] \in Records
    BY CandidateType, RecordType DEF Statuses
  <2> QED
    BY <1>1, <2>1, FinishType DEF TypeOK, Settle, locks, files, runtime, sidecar
<1>2. CASE job[p].op # "stop"
  <2>1. faults' \in 0 .. MaxFaults
    BY <1>2, FaultType DEF Settle
  <2>2. pc' \in [Procs -> Steps]
    BY <1>2 DEF Settle, Goto, TypeOK, Steps
  <2>3. rendered' \in BOOLEAN /\ config' \subseteq Mappings /\ override' \subseteq Publications
    BY <1>2 DEF Settle, TypeOK, files
  <2> QED
    BY <1>2, <2>1, <2>2, <2>3 DEF TypeOK, Settle, Keep, locks, runtime, sidecar
<1> QED
  BY <1>1, <1>2

LEMMA ForgetType ==
  ASSUME TypeOK, NEW p \in Procs, Forget(p)
  PROVE  TypeOK'
<1>1. NoRecord \in Records
  BY DEF NoRecord, Records, Statuses
<1> QED
  BY <1>1, FinishType DEF TypeOK, Forget, locks, files, runtime, sidecar

LEMMA PreflightType ==
  ASSUME TypeOK, NEW p \in Procs, Preflight(p) \/ NoTransaction(p)
  PROVE  TypeOK'
<1>1. faults' \in 0 .. MaxFaults
  BY FaultType DEF Preflight, NoTransaction
<1>2. pc' \in [Procs -> Steps]
  BY DEF Preflight, NoTransaction, Goto, TypeOK, Steps
<1> QED
  BY <1>1, <1>2 DEF TypeOK, Preflight, NoTransaction, locks, files, runtime, sidecar

LEMMA BeginTransactionType ==
  ASSUME TypeOK, NEW p \in Procs, BeginTransaction(p)
  PROVE  TypeOK'
<1>1. job[p] \in Jobs /\ CandidateMappings(p) \subseteq Mappings
  BY CandidateType DEF CandidateMappings, Jobs, Records
<1>2. [job[p] EXCEPT !.cand = CandidateMappings(p), !.mode = "activate",
                     !.snapC = config, !.snapO = override] \in Jobs
  BY <1>1 DEF Jobs, Modes, TypeOK, Mappings
<1>3. job' \in [Procs -> Jobs] /\ pc' \in [Procs -> Steps]
  BY <1>2 DEF BeginTransaction, Goto, TypeOK, Steps
<1> QED
  BY <1>3 DEF TypeOK, BeginTransaction, Holders, files, runtime, sidecar

LEMMA WriteType ==
  ASSUME TypeOK, NEW p \in Procs, Write(p)
  PROVE  TypeOK'
<1>1. faults' \in 0 .. MaxFaults /\ pc' \in [Procs -> Steps]
  BY FaultType DEF Write, Goto, TypeOK, Steps
<1>2. config' \subseteq Mappings /\ override' \subseteq Publications
  BY CandidateType DEF Write, TypeOK
<1> QED
  BY <1>1, <1>2 DEF TypeOK, Write, locks, runtime, sidecar

LEMMA UnwriteType ==
  ASSUME TypeOK, NEW p \in Procs, Unwrite(p)
  PROVE  TypeOK'
<1>1. config' \subseteq Mappings /\ override' \subseteq Publications
        /\ faults' \in 0 .. MaxFaults
  BY CandidateType, FaultType DEF Unwrite, TypeOK, Restored, HalfRestored
<1>2. pc' \in [Procs -> Steps]
  BY DEF Unwrite, Goto, TypeOK, Steps
<1> QED
  BY <1>1, <1>2 DEF TypeOK, Unwrite, locks, runtime, sidecar

LEMMA SaveCandidateType ==
  ASSUME TypeOK, NEW p \in Procs, SaveCandidate(p)
  PROVE  TypeOK'
<1>1. Candidate(p) \in Records /\ job[p] \in Jobs
  BY CandidateType
<1>2. saved' \in Records /\ faults' \in 0 .. MaxFaults
  BY <1>1, SaveType DEF SaveCandidate
<1>3. /\ [job[p] EXCEPT !.ok = TRUE] \in Jobs
      /\ [job[p] EXCEPT !.mode = "rollback"] \in Jobs
  BY <1>1, JobFlagType, JobModeType DEF Modes
<1>4. job' \in [Procs -> Jobs] /\ pc' \in [Procs -> Steps]
  BY <1>3 DEF SaveCandidate, Goto, Keep, TypeOK, Steps
<1> QED
  BY <1>2, <1>4 DEF TypeOK, SaveCandidate, locks, files, runtime, sidecar

LEMMA UnkeepType ==
  ASSUME TypeOK, NEW p \in Procs, Unkeep(p)
  PROVE  TypeOK'
<1>1. config' \subseteq Mappings /\ override' \subseteq Publications
        /\ faults' \in 0 .. MaxFaults
  BY CandidateType, FaultType DEF Unkeep, TypeOK, Restored, HalfRestored
<1>2. job[p] \in Jobs /\ Degraded(job[p].rec) \in Records
  BY CandidateType, RecordType DEF Degraded, Statuses
<1>3. [job[p] EXCEPT !.rec = Degraded(job[p].rec)] \in Jobs
  BY <1>2, JobRecType
<1>4. job' \in [Procs -> Jobs] /\ pc' \in [Procs -> Steps]
  BY <1>3 DEF Unkeep, Goto, Keep, TypeOK, Steps
<1> QED
  BY <1>1, <1>4 DEF TypeOK, Unkeep, locks, runtime, sidecar

LEMMA RestoreFilesType ==
  ASSUME TypeOK, NEW p \in Procs, RestoreFiles(p)
  PROVE  TypeOK'
<1>1. config' \subseteq Mappings /\ override' \subseteq Publications
        /\ faults' \in 0 .. MaxFaults
  BY CandidateType, FaultType DEF RestoreFiles, TypeOK, Restored, HalfRestored
<1>2. [job[p] EXCEPT !.bad = TRUE] \in Jobs
  BY CandidateType, JobFlagType
<1>3. job' \in [Procs -> Jobs] /\ pc' \in [Procs -> Steps]
  BY <1>2 DEF RestoreFiles, Goto, Keep, TypeOK, Steps
<1> QED
  BY <1>1, <1>3 DEF TypeOK, RestoreFiles, locks, runtime, sidecar

LEMMA ExpireType ==
  ASSUME TypeOK, NEW p \in Procs, Expire(p)
  PROVE  TypeOK'
<1>1. [job[p] EXCEPT !.expired = TRUE] \in Jobs
  BY CandidateType, JobFlagType
<1>2. job' \in [Procs -> Jobs] /\ faults' \in 0 .. MaxFaults
  BY <1>1, FaultType DEF Expire, TypeOK
<1> QED
  BY <1>2 DEF TypeOK, Expire, locks, files, runtime, sidecar

LEMMA SaveRolledBackType ==
  ASSUME TypeOK, NEW p \in Procs, SaveRolledBack(p)
  PROVE  TypeOK'
<1> DEFINE r == RolledBack(p)
<1>1. r \in Records /\ Degraded(r) \in Records /\ job[p] \in Jobs
  BY CandidateType, RecordType DEF RolledBack, Degraded, Statuses
<1> HIDE DEF r
<1>2. saved' \in Records /\ faults' \in 0 .. MaxFaults
  BY <1>1, SaveType DEF SaveRolledBack, r
<1>3. [job[p] EXCEPT !.rec = Degraded(r)] \in Jobs
  BY <1>1, JobRecType
<1>4. job' \in [Procs -> Jobs] /\ pc' \in [Procs -> Steps]
  BY <1>3 DEF SaveRolledBack, Goto, Keep, TypeOK, Steps, r
<1> QED
  BY <1>2, <1>4 DEF TypeOK, SaveRolledBack, locks, files, runtime, sidecar

LEMMA ResaveType ==
  ASSUME TypeOK, NEW p \in Procs, Resave(p)
  PROVE  TypeOK'
<1>1. saved' \in Records /\ faults' \in 0 .. MaxFaults
  BY CandidateType, SaveType DEF Resave
<1>2. job' \in [Procs -> Jobs] /\ pc' \in [Procs -> Steps]
  BY DEF Resave, Goto, Keep, TypeOK, Steps
<1> QED
  BY <1>1, <1>2 DEF TypeOK, Resave, locks, files, runtime, sidecar

LEMMA EndTransactionType ==
  ASSUME TypeOK, NEW p \in Procs, EndTransaction(p)
  PROVE  TypeOK'
BY DEF TypeOK, EndTransaction, Goto, Holders, files, runtime, sidecar, Steps

LEMMA CrashType ==
  ASSUME TypeOK, NEW p \in Procs, Crash(p)
  PROVE  TypeOK'
<1>1. pc' \in [Procs -> Steps] /\ job' \in [Procs -> Jobs]
  BY NoJobType DEF Crash, Goto, TypeOK, Steps
<1>2. faults' \in 0 .. MaxFaults
  BY FaultType DEF Crash
<1> QED
  BY <1>1, <1>2 DEF TypeOK, Crash, Holders, files, runtime, sidecar

\* The sidecar and the environment.
LEMMA EnvironmentType ==
  ASSUME TypeOK, DaemonBegin \/ DaemonApply \/ Outage
  PROVE  TypeOK'
<1>1. CASE DaemonBegin
  BY <1>1 DEF TypeOK, DaemonBegin, files
<1>2. CASE DaemonApply
  <2>1. faults' \in 0 .. MaxFaults
    BY <1>2, BoxAssumption DEF DaemonApply, Fault, TypeOK
  <2> QED
    BY <1>2, <2>1 DEF TypeOK, DaemonApply, Holders, files
<1>3. CASE Outage
  <2>1. faults' \in 0 .. MaxFaults
    BY <1>3, BoxAssumption DEF Outage, Fault, TypeOK
  <2> QED
    BY <1>3, <2>1 DEF TypeOK, Outage, SidecarDies, SidecarStays, sidecar, Holders,
                      DockerStates, files
<1> QED
  BY <1>1, <1>2, <1>3

\* Every step preserves the types.
LEMMA NextType ==
  ASSUME TypeOK, [Next]_vars
  PROVE  TypeOK'
<1>1. CASE UNCHANGED vars
  BY <1>1 DEF TypeOK, vars, locks, files, runtime, sidecar
<1>2. ASSUME NEW p \in Procs, Starts(p) PROVE TypeOK'
  BY <1>2, BeginType DEF Starts
<1>3. ASSUME NEW p \in Procs, Step(p) PROVE TypeOK'
  <2>1. CASE Lifecycle(p)
    BY <2>1, LockBoxType, LoadType, UnlockType, InspectBoxType, TouchType,
       RenderType, DecideType, MarkType, ComposeDownType, ComposeUpType,
       VerifyType, CommitType, PersistErrorType, SettleType, ForgetType
       DEF Lifecycle
  <2>2. CASE Runtime(p)
    BY <2>2, EnsureRelayType, ProbeRelayType, ApplyBridgeType, HaltRelayType
       DEF Runtime
  <2>3. CASE Transaction(p)
    BY <2>3, WriteType, UnwriteType, SaveCandidateType, UnkeepType,
       RestoreFilesType, SaveRolledBackType, ResaveType, EndTransactionType
       DEF Transaction
  <2>4. CASE Sidecar(p)
    BY <2>4, SyncLoopbackType, ApplyImportsType, PreflightType,
       BeginTransactionType DEF Sidecar
  <2> QED
    BY <1>3, <2>1, <2>2, <2>3, <2>4 DEF Step
<1>4. ASSUME NEW p \in Procs, Expire(p) \/ Crash(p) PROVE TypeOK'
  BY <1>4, ExpireType, CrashType
<1> QED
  BY <1>1, <1>2, <1>3, <1>4, EnvironmentType DEF Next

LEMMA InitType ==
  ASSUME Init
  PROVE  TypeOK
<1>1. saved \in Records
  BY DEF Init, NoRecord, Records, Statuses
<1>2. pc \in [Procs -> Steps] /\ job \in [Procs -> Jobs]
  BY NoJobType DEF Init, Steps
<1>3. faults \in 0 .. MaxFaults
  BY BoxAssumption DEF Init
<1> QED
  BY <1>1, <1>2, <1>3 DEF Init, TypeOK, Holders, DockerStates

\* The type invariant holds in every reachable state.
THEOREM TypeInvariance == Spec => []TypeOK
<1>1. Init => TypeOK
  BY InitType
<1>2. TypeOK /\ [Next]_vars => TypeOK'
  BY NextType
<1> QED
  BY <1>1, <1>2, PTL DEF Spec

-----------------------------------------------------------------------------
(***************************************************************************)
(* The exclusion the three file locks of a box give, proved for any number *)
(* of commands and failures.  LocksHeld is not inductive by itself: that a *)
(* step keeps the transaction lock with a transaction needs to know in     *)
(* which mode each step runs.  ModeKnown says it.                          *)
(***************************************************************************)

PlainSteps == {"idle", "box", "load", "inspect", "touch", "sync", "render",
               "decide", "mark", "down", "up", "verify", "commit", "error",
               "settle", "forget", "preflight", "transaction"}
TransactionSteps == {"write", "unwrite", "keep", "unkeep", "save", "resave",
                     "restore", "restate", "end"}
ActivationSteps == {"write", "keep", "save"}

\* A step outside the runtime steps and unlock runs in known modes only, and
\* a command that asks for the box lock is not List.
ModeKnown ==
  \A p \in Procs :
    /\ pc[p] \in PlainSteps => job[p].mode = "lifecycle"
    /\ pc[p] \in TransactionSteps => job[p].mode # "lifecycle"
    /\ pc[p] \in ActivationSteps => job[p].mode = "activate"
    /\ pc[p] = "box" => job[p].op # "list"

LockInv == TypeOK /\ ModeKnown /\ LocksHeld

\* A step of p inside a command, which takes and gives back no lock of p, and
\* does not change between a transaction and a lifecycle command.
SameMode(p) ==
  /\ job'[p].op = job[p].op
  /\ job'[p].mode # "lifecycle" <=> job[p].mode # "lifecycle"
  /\ pc'[p] \in PlainSteps => job'[p].mode = "lifecycle"
  /\ pc'[p] \in TransactionSteps => job'[p].mode # "lifecycle"
  /\ pc'[p] \in ActivationSteps => job'[p].mode = "activate"
  /\ pc'[p] = "unlock" => job'[p].mode = "lifecycle"

Inner(p) ==
  /\ pc[p] \notin {"idle", "box", "unlock"} /\ pc'[p] \notin {"idle", "box"}
  /\ UNCHANGED <<globalLock, boxLock>>
  /\ UNCHANGED <<daemon, txLock>> \/ SidecarDies
  /\ \A q \in Procs \ {p} : pc'[q] = pc[q] /\ job'[q] = job[q]
  /\ SameMode(p)

LEMMA InnerKeeps ==
  ASSUME LockInv, NEW p \in Procs, Inner(p), TypeOK'
  PROVE  LockInv'
<1>1. ModeKnown'
  BY DEF LockInv, ModeKnown, Inner, SameMode
<1>2. \A q \in Procs : InTransaction(q)' <=> InTransaction(q)
  <2> TAKE q \in Procs
  <2>1. CASE q = p
    BY <2>1 DEF InTransaction, Inner, SameMode
  <2>2. CASE q # p
    BY <2>2 DEF InTransaction, Inner
  <2> QED
    BY <2>1, <2>2
<1>3. \A q \in Procs : txLock' = q <=> txLock = q
  BY BoxAssumption DEF Inner, SidecarDies
<1>4. (daemon' = "apply") <=> (txLock' = Daemon)
  BY BoxAssumption DEF Inner, SidecarDies, LockInv, LocksHeld
<1>5. \A q \in Procs : (pc'[q] # "idle" <=> globalLock' = q)
  BY DEF Inner, LockInv, LocksHeld
<1>6. \A q \in Procs :
        boxLock' = q <=> pc'[q] \notin {"idle", "box"} /\ job'[q].op # "list"
  BY DEF Inner, LockInv, LocksHeld, SameMode
<1>7. \A q \in Procs : InTransaction(q)' <=> txLock' = q
  BY <1>2, <1>3 DEF LockInv, LocksHeld
<1> QED
  BY <1>1, <1>4, <1>5, <1>6, <1>7 DEF LockInv, LocksHeld

\* What the locals of p say of its locks does not change.
SameLocals(p) ==
  /\ \A q \in Procs \ {p} : job'[q] = job[q]
  /\ job'[p].op = job[p].op /\ job'[p].mode = job[p].mode

\* A step that goes to l is a step inside the command when l fits the mode.
LEMMA InnerStep ==
  ASSUME LockInv, NEW p \in Procs, NEW l \in Steps \ {"idle", "box"},
         pc[p] \notin {"idle", "box", "unlock"},
         UNCHANGED <<globalLock, boxLock>>,
         UNCHANGED <<daemon, txLock>> \/ SidecarDies,
         pc' = [pc EXCEPT ![p] = l],
         \A q \in Procs \ {p} : job'[q] = job[q],
         job'[p].op = job[p].op,
         job'[p].mode # "lifecycle" <=> job[p].mode # "lifecycle",
         l \in PlainSteps => job[p].mode = "lifecycle",
         l \in TransactionSteps => job[p].mode # "lifecycle",
         l \in ActivationSteps => job'[p].mode = "activate",
         l = "unlock" => job[p].mode = "lifecycle"
  PROVE  Inner(p)
<1>1. pc'[p] = l /\ \A q \in Procs \ {p} : pc'[q] = pc[q]
  BY DEF LockInv, TypeOK
<1> QED
  BY <1>1 DEF Inner, SameMode

LEMMA PlainStep ==
  ASSUME LockInv, NEW p \in Procs, pc[p] \in PlainSteps
  PROVE  job[p].mode = "lifecycle"
BY DEF LockInv, ModeKnown

\* The same for a command that is not in a transaction, and for one that is.
LEMMA PlainInner ==
  ASSUME LockInv, NEW p \in Procs, NEW l \in (PlainSteps \ {"idle", "box"}) \cup RuntimeSteps \cup {"unlock"},
         pc[p] \in PlainSteps \ {"idle", "box"},
         UNCHANGED <<globalLock, boxLock>>,
         UNCHANGED <<daemon, txLock>> \/ SidecarDies,
         pc' = [pc EXCEPT ![p] = l], SameLocals(p)
  PROVE  Inner(p)
<1>1. job[p].mode = "lifecycle" /\ job'[p].mode = "lifecycle"
  BY PlainStep DEF SameLocals
<1>2. l \in Steps \ {"idle", "box"} /\ l \notin TransactionSteps \cup ActivationSteps
  BY DEF PlainSteps, RuntimeSteps, Steps, TransactionSteps, ActivationSteps
<1>3. pc[p] \notin {"idle", "box", "unlock"}
  BY DEF PlainSteps
<1> QED
  BY <1>1, <1>2, <1>3, InnerStep DEF SameLocals

LEMMA TransactionInner ==
  ASSUME LockInv, NEW p \in Procs, NEW l \in TransactionSteps \cup RuntimeSteps,
         pc[p] \in TransactionSteps,
         UNCHANGED <<globalLock, boxLock, daemon, txLock>>,
         pc' = [pc EXCEPT ![p] = l],
         \A q \in Procs \ {p} : job'[q] = job[q],
         job'[p].op = job[p].op, job'[p].mode # "lifecycle",
         l \in ActivationSteps => job'[p].mode = "activate"
  PROVE  Inner(p)
<1>1. job[p].mode # "lifecycle"
  BY DEF LockInv, ModeKnown
<1>2. l \in Steps \ {"idle", "box", "unlock"} /\ l \notin PlainSteps
  BY DEF PlainSteps, RuntimeSteps, Steps, TransactionSteps
<1>3. pc[p] \notin {"idle", "box", "unlock"}
  BY DEF TransactionSteps
<1> QED
  BY <1>1, <1>2, <1>3, InnerStep

\* The updates of locals the actions make.
LEMMA KeptLocals ==
  ASSUME LockInv, NEW p \in Procs, job' = job
  PROVE  SameLocals(p)
BY DEF SameLocals

LEMMA ChangedLocals ==
  ASSUME LockInv, NEW p \in Procs, NEW r, NEW b,
         \/ job' = [job EXCEPT ![p].ok = b]
         \/ job' = [job EXCEPT ![p].rec = r]
         \/ job' = [job EXCEPT ![p].rec = r, ![p].ok = b]
         \/ job' = [job EXCEPT ![p].changed = b]
         \/ job' = [job EXCEPT ![p].bad = b]
         \/ job' = [job EXCEPT ![p].expired = b]
         \/ job' = [job EXCEPT ![p].fast = TRUE, ![p].rec.status = r]
  PROVE  SameLocals(p)
BY DEF SameLocals, LockInv, TypeOK, Jobs

-----------------------------------------------------------------------------
\* The steps inside a command.

LEMMA FinishInner ==
  ASSUME LockInv, NEW p \in Procs, NEW r \in Records, Finish(p, r),
         pc[p] \in PlainSteps \ {"idle", "box"}, UNCHANGED locks, daemon' = daemon
  PROVE  Inner(p)
<1>1. SameLocals(p)
  BY KeptLocals, ChangedLocals DEF Finish
<1> QED
  BY <1>1, PlainInner DEF Finish, Goto, locks

LEMMA LoadInner ==
  ASSUME LockInv, NEW p \in Procs, Load(p)
  PROVE  Inner(p)
<1>1. FirstStep[job[p].op] \in (PlainSteps \ {"idle", "box"}) \cup {"unlock"}
  BY CandidateType DEF LockInv, Jobs, Ops, PortOps, FirstStep, PlainSteps
<1>2. SameLocals(p)
  BY KeptLocals, ChangedLocals DEF Load
<1>3. PICK l \in {FirstStep[job[p].op], "unlock"} : Goto(p, l)
  BY DEF Load
<1> QED
  BY <1>1, <1>2, <1>3, PlainInner DEF Load, Goto, locks, runtime, sidecar, PlainSteps

\* The lifecycle steps.
LEMMA PlainStepsInner ==
  ASSUME LockInv, NEW p \in Procs,
         \/ SyncLoopback(p) \/ Render(p) \/ Mark(p) \/ ComposeDown(p)
         \/ ComposeUp(p) \/ Verify(p) \/ PersistError(p) \/ Preflight(p) \/ NoTransaction(p)
  PROVE  Inner(p)
<1> USE DEF Goto, locks, runtime, sidecar, SidecarStays, SidecarDies, Keep,
            PlainSteps, RuntimeSteps
<1>1. CASE SyncLoopback(p)
  <2>1. SameLocals(p)
    BY <1>1, KeptLocals, ChangedLocals DEF SyncLoopback
  <2> QED
    BY <1>1, <2>1, PlainInner DEF SyncLoopback
<1>2. CASE Render(p)
  <2>1. SameLocals(p)
    BY <1>2, KeptLocals, ChangedLocals DEF Render
  <2> QED
    BY <1>2, <2>1, PlainInner DEF Render
<1>3. CASE Mark(p)
  <2>1. SameLocals(p)
    BY <1>3, KeptLocals, ChangedLocals DEF Mark
  <2> QED
    BY <1>3, <2>1, PlainInner DEF Mark
<1>4. CASE ComposeDown(p)
  BY <1>4, KeptLocals, PlainInner DEF ComposeDown
<1>5. CASE ComposeUp(p)
  BY <1>5, KeptLocals, PlainInner DEF ComposeUp
<1>6. CASE Verify(p)
  BY <1>6, KeptLocals, PlainInner DEF Verify
<1>7. CASE PersistError(p)
  BY <1>7, KeptLocals, PlainInner DEF PersistError
<1>8. CASE Preflight(p) \/ NoTransaction(p)
  BY <1>8, KeptLocals, PlainInner DEF Preflight, NoTransaction
<1> QED
  BY <1>1, <1>2, <1>3, <1>4, <1>5, <1>6, <1>7, <1>8

LEMMA DecideInner ==
  ASSUME LockInv, NEW p \in Procs, Decide(p)
  PROVE  Inner(p)
<1>1. SameLocals(p)
  BY KeptLocals, ChangedLocals DEF Decide, Keep
<1>2. PICK l \in {"relay", "unlock"} : Goto(p, l)
  BY DEF Decide
<1> QED
  BY <1>1, <1>2, PlainInner DEF Decide, Goto, locks, runtime, sidecar, PlainSteps, RuntimeSteps

\* The steps that end with a Save.
LEMMA SavingStepsInner ==
  ASSUME LockInv, NEW p \in Procs,
         InspectBox(p) \/ Touch(p) \/ Commit(p) \/ Settle(p) \/ Forget(p)
  PROVE  Inner(p)
<1> USE DEF locks, runtime, sidecar
<1>1. pc[p] \in {"inspect", "touch", "commit", "settle", "forget"}
      /\ UNCHANGED locks /\ daemon' = daemon
  BY DEF InspectBox, Touch, Commit, Settle, Forget
<1>2. pc[p] \in PlainSteps \ {"idle", "box"}
  BY <1>1 DEF PlainSteps
<1>3. SameLocals(p) /\ \E l \in {"unlock", "forget"} : Goto(p, l)
  <2>1. SameLocals(p)
    BY KeptLocals, ChangedLocals
       DEF InspectBox, Touch, Commit, Settle, Forget, Finish, Keep
  <2> QED
    BY <2>1 DEF InspectBox, Touch, Commit, Settle, Forget, Finish
<1> QED
  BY <1>1, <1>2, <1>3, PlainInner DEF Goto, PlainSteps

\* The runtime steps, in all three modes.
LEMMA ProceedInner ==
  ASSUME LockInv, NEW p \in Procs, NEW step \in RuntimeSteps, pc[p] = step,
         UNCHANGED <<globalLock, boxLock, daemon, txLock>>,
         Proceed(p, step) \/ Fallback(p, step)
  PROVE  Inner(p)
<1>1. job[p].mode \in Modes /\ step \notin {"idle", "box", "unlock"}
  BY CandidateType DEF LockInv, RuntimeSteps
<1>2. CASE job[p].mode = "lifecycle"
  <2>1. PICK l \in {"error", AfterStep(p, step)} : Goto(p, l) /\ job' = job
    BY <1>2 DEF Proceed, Fallback, Keep
  <2>2. AfterStep(p, step) \in {"bridge", "down", "up", "probe", "imports", "commit", "settle"}
    BY <1>2 DEF AfterStep, Order, RuntimeSteps
  <2> QED
    BY <1>1, <1>2, <2>1, <2>2, InnerStep DEF Goto, Steps, TransactionSteps, ActivationSteps
<1>3. CASE job[p].mode # "lifecycle"
  <2>1. PICK l \in {"restore", AfterStep(p, step)} : Goto(p, l)
    BY <1>3 DEF Proceed, Fallback
  <2>2. AfterStep(p, step) \in {"bridge", "probe", "imports", "halt", "save", "restate"}
    BY <1>1, <1>3 DEF AfterStep, Order, RuntimeSteps, Modes
  <2>3. /\ \A q \in Procs \ {p} : job'[q] = job[q]
        /\ job'[p].op = job[p].op /\ job'[p].mode # "lifecycle"
    BY <1>3 DEF Proceed, Fallback, Keep, LockInv, TypeOK, Jobs
  <2>4. l \in ActivationSteps => job'[p].mode = "activate"
    <3>1. job[p].mode = "rollback" => AfterStep(p, step) \in {"bridge", "imports", "halt", "restate"}
      BY DEF AfterStep, Order, RuntimeSteps
    <3>2. l = AfterStep(p, step) /\ l # "restore" => job'[p].mode = job[p].mode
      BY <1>3, <2>1 DEF Proceed, Fallback, Keep, Goto, LockInv, TypeOK, Jobs
    <3> QED
      BY <1>1, <1>3, <2>1, <3>1, <3>2 DEF ActivationSteps, Modes
  <2> QED
    BY <1>1, <1>3, <2>1, <2>2, <2>3, <2>4, InnerStep DEF Goto, Steps, PlainSteps
<1> QED
  BY <1>2, <1>3

LEMMA RuntimeStepsInner ==
  ASSUME LockInv, NEW p \in Procs, Runtime(p) \/ ApplyImports(p)
  PROVE  Inner(p)
<1>1. \E step \in RuntimeSteps :
        /\ pc[p] = step /\ UNCHANGED <<globalLock, boxLock, daemon, txLock>>
        /\ Proceed(p, step) \/ Fallback(p, step)
  <2> USE DEF Skip, RuntimeSteps, locks
  <2>1. CASE EnsureRelay(p)
    BY <2>1 DEF EnsureRelay
  <2>2. CASE ProbeRelay(p)
    BY <2>2 DEF ProbeRelay
  <2>3. CASE ApplyBridge(p)
    BY <2>3 DEF ApplyBridge
  <2>4. CASE HaltRelay(p)
    BY <2>4 DEF HaltRelay
  <2>5. CASE ApplyImports(p)
    BY <2>5 DEF ApplyImports
  <2> QED
    BY <2>1, <2>2, <2>3, <2>4, <2>5 DEF Runtime
<1> QED
  BY <1>1, ProceedInner

\* The steps of a transaction that keep its lock.
LEMMA TransactionStepsInner ==
  ASSUME LockInv, NEW p \in Procs,
         \/ Write(p) \/ Unwrite(p) \/ SaveCandidate(p) \/ Unkeep(p)
         \/ RestoreFiles(p) \/ SaveRolledBack(p) \/ Resave(p)
  PROVE  Inner(p)
<1>1. /\ pc[p] \in TransactionSteps
      /\ UNCHANGED <<globalLock, boxLock, daemon, txLock>>
      /\ \E l \in TransactionSteps \cup RuntimeSteps : Goto(p, l)
  BY DEF Write, Unwrite, SaveCandidate, Unkeep, RestoreFiles, SaveRolledBack, Resave,
         locks, runtime, sidecar, TransactionSteps, RuntimeSteps
<1>2. job[p].mode # "lifecycle"
  BY <1>1 DEF LockInv, ModeKnown
<1>3. SameLocals(p) \/ job' = [job EXCEPT ![p].mode = "rollback"]
  BY KeptLocals, ChangedLocals
     DEF Write, Unwrite, SaveCandidate, Unkeep, RestoreFiles, SaveRolledBack, Resave, Keep
<1>4. /\ \A q \in Procs \ {p} : job'[q] = job[q]
      /\ job'[p].op = job[p].op /\ job'[p].mode # "lifecycle"
  BY <1>2, <1>3 DEF SameLocals, LockInv, TypeOK, Jobs
<1>5. pc'[p] \in ActivationSteps => job'[p].mode = "activate"
  <2>1. CASE Write(p)
    BY <2>1 DEF Write, Goto, ActivationSteps, LockInv, TypeOK, ModeKnown
  <2>2. CASE ~Write(p)
    BY <2>2 DEF Unwrite, SaveCandidate, Unkeep, RestoreFiles, SaveRolledBack, Resave,
                Goto, ActivationSteps, LockInv, TypeOK
  <2> QED
    BY <2>1, <2>2
<1>6. PICK l \in TransactionSteps \cup RuntimeSteps : Goto(p, l)
  BY <1>1
<1>7. pc'[p] = l
  BY <1>6 DEF Goto, LockInv, TypeOK
<1> QED
  BY <1>1, <1>4, <1>5, <1>6, <1>7, TransactionInner DEF Goto

-----------------------------------------------------------------------------
\* The steps that take or give back a lock.

LEMMA BeginLocks ==
  ASSUME LockInv, NEW p \in Procs, NEW o, NEW a, Begin(p, o, a), TypeOK'
  PROVE  LockInv'
<1>1. /\ pc[p] = "idle" /\ job[p].mode = "lifecycle"
      /\ job'[p].op = o /\ job'[p].mode = "lifecycle"
      /\ pc'[p] = IF o = "list" THEN "load" ELSE "box"
  BY PlainStep DEF Begin, Goto, NewJob, LockInv, TypeOK, PlainSteps
<1>2. \A q \in Procs \ {p} : pc'[q] = pc[q] /\ job'[q] = job[q] /\ pc[q] = "idle"
  BY BoxAssumption DEF Begin, Goto, LockInv, TypeOK, LocksHeld
<1>3. ModeKnown'
  BY <1>1, <1>2 DEF ModeKnown, LockInv, TransactionSteps, ActivationSteps, PlainSteps
<1>4. LocksHeld'
  <2> USE DEF LockInv
  <2>1. \A q \in Procs : (pc'[q] # "idle" <=> globalLock' = q)
    BY <1>1, <1>2 DEF Begin, LocksHeld
  <2>2. \A q \in Procs :
          boxLock' = q <=> pc'[q] \notin {"idle", "box"} /\ job'[q].op # "list"
    BY <1>1, <1>2 DEF Begin, LocksHeld
  <2>3. \A q \in Procs : InTransaction(q)' <=> InTransaction(q)
    BY <1>1, <1>2 DEF InTransaction
  <2> QED
    BY <2>1, <2>2, <2>3 DEF LocksHeld, Begin, runtime, sidecar
<1> QED
  BY <1>3, <1>4 DEF LockInv

\* A step of the holder of the state lock leaves the others idle.
LEMMA OthersIdle ==
  ASSUME LockInv, NEW p \in Procs, pc[p] # "idle"
  PROVE  globalLock = p /\ \A q \in Procs \ {p} : pc[q] = "idle"
BY DEF LockInv, LocksHeld

LEMMA LockBoxLocks ==
  ASSUME LockInv, NEW p \in Procs, LockBox(p), TypeOK'
  PROVE  LockInv'
<1>1. /\ pc[p] = "box" /\ pc'[p] = "load" /\ job[p].op # "list"
      /\ job[p].mode = "lifecycle" /\ boxLock = NoOne /\ boxLock' = p
  BY PlainStep DEF LockBox, Goto, LockInv, TypeOK, ModeKnown, PlainSteps
<1>2. \A q \in Procs \ {p} : pc'[q] = pc[q] /\ pc[q] = "idle"
  BY <1>1, OthersIdle DEF LockBox, Goto, LockInv, TypeOK
<1>3. ModeKnown'
  BY <1>1, <1>2 DEF ModeKnown, LockInv, LockBox, TransactionSteps, ActivationSteps,
                       PlainSteps
<1>4. LocksHeld'
  <2> USE DEF LockInv
  <2>1. \A q \in Procs : (pc'[q] # "idle" <=> globalLock' = q)
    BY <1>1, <1>2 DEF LockBox, LocksHeld
  <2>2. \A q \in Procs :
          boxLock' = q <=> pc'[q] \notin {"idle", "box"} /\ job'[q].op # "list"
    BY <1>1, <1>2 DEF LockBox, LocksHeld
  <2>3. \A q \in Procs : InTransaction(q)' <=> InTransaction(q)
    BY <1>1, <1>2 DEF InTransaction, LockBox
  <2> QED
    BY <2>1, <2>2, <2>3 DEF LocksHeld, LockBox, runtime, sidecar
<1> QED
  BY <1>3, <1>4 DEF LockInv

\* The end of a command, by its unlock or by a kill.
LEMMA ReleaseLocks ==
  ASSUME LockInv, NEW p \in Procs, Unlock(p) \/ Crash(p), TypeOK'
  PROVE  LockInv'
<1>1. /\ pc[p] # "idle" /\ globalLock = p /\ globalLock' = NoOne
      /\ boxLock' = IF boxLock = p THEN NoOne ELSE boxLock
      /\ daemon' = daemon
      /\ pc'[p] = "idle" /\ job'[p].mode = "lifecycle"
  BY OthersIdle DEF Unlock, Crash, Goto, NoJob, NewJob, runtime, sidecar, LockInv, TypeOK
<1>2. \A q \in Procs \ {p} : pc'[q] = pc[q] /\ pc[q] = "idle" /\ job'[q] = job[q]
  BY <1>1, OthersIdle DEF Unlock, Crash, Goto, LockInv, TypeOK
<1>3. txLock' = IF txLock = p THEN NoOne ELSE txLock
  BY DEF Unlock, Crash, LockInv, LocksHeld, InTransaction
<1>4. ModeKnown'
  BY <1>1, <1>2 DEF ModeKnown, LockInv, TransactionSteps, ActivationSteps, PlainSteps
<1>5. LocksHeld'
  <2> USE DEF LockInv
  <2>1. \A q \in Procs : (pc'[q] # "idle" <=> globalLock' = q)
    BY <1>1, <1>2, BoxAssumption
  <2>2. \A q \in Procs :
          boxLock' = q <=> pc'[q] \notin {"idle", "box"} /\ job'[q].op # "list"
    BY <1>1, <1>2, BoxAssumption DEF LocksHeld
  <2>3. \A q \in Procs : (InTransaction(q)' <=> txLock' = q)
    BY <1>1, <1>2, <1>3, BoxAssumption DEF LocksHeld, InTransaction
  <2>4. (daemon' = "apply") <=> (txLock' = Daemon)
    BY <1>1, <1>3, BoxAssumption DEF LocksHeld
  <2> QED
    BY <2>1, <2>2, <2>3, <2>4 DEF LocksHeld
<1> QED
  BY <1>4, <1>5 DEF LockInv

LEMMA TransactionLocks ==
  ASSUME LockInv, NEW p \in Procs, BeginTransaction(p) \/ EndTransaction(p), TypeOK'
  PROVE  LockInv'
<1>1. /\ pc[p] \in {"transaction", "end"} /\ job'[p].op = job[p].op
      /\ pc[p] = "transaction" =>
           job'[p].mode = "activate" /\ pc'[p] = "write" /\ txLock = NoOne /\ txLock' = p
      /\ pc[p] = "end" => pc'[p] = "unlock" /\ txLock' = NoOne
      /\ UNCHANGED <<globalLock, boxLock, daemon>>
  BY DEF BeginTransaction, EndTransaction, Goto, LockInv, TypeOK, Jobs, runtime, sidecar
<1>2. \A q \in Procs \ {p} : pc'[q] = pc[q] /\ pc[q] = "idle" /\ job'[q] = job[q]
  BY <1>1, OthersIdle DEF BeginTransaction, EndTransaction, Goto, LockInv, TypeOK
<1>3. pc[p] = "end" => txLock = p
  BY <1>1 DEF LockInv, LocksHeld, InTransaction, ModeKnown, TransactionSteps
<1>4. ModeKnown'
  BY <1>1, <1>2 DEF ModeKnown, LockInv, TransactionSteps, ActivationSteps, PlainSteps
<1>5. LocksHeld'
  <2> USE DEF LockInv
  <2>1. \A q \in Procs : (pc'[q] # "idle" <=> globalLock' = q)
    BY <1>1, <1>2 DEF LocksHeld
  <2>2. \A q \in Procs :
          boxLock' = q <=> pc'[q] \notin {"idle", "box"} /\ job'[q].op # "list"
    BY <1>1, <1>2 DEF LocksHeld
  <2>3. \A q \in Procs : (InTransaction(q)' <=> txLock' = q)
    BY <1>1, <1>2, <1>3, BoxAssumption DEF LocksHeld, InTransaction
  <2>4. (daemon' = "apply") <=> (txLock' = Daemon)
    BY <1>1, <1>3, BoxAssumption DEF LocksHeld
  <2> QED
    BY <2>1, <2>2, <2>3, <2>4 DEF LocksHeld
<1> QED
  BY <1>4, <1>5 DEF LockInv

\* Nobody inside a command moves.
LEMMA SilentLocks ==
  ASSUME LockInv, TypeOK',
         \/ DaemonBegin \/ DaemonApply \/ Outage \/ UNCHANGED vars
         \/ \E p \in Procs : Expire(p)
  PROVE  LockInv'
<1> USE DEF LockInv, locks, runtime, sidecar
<1>1. /\ UNCHANGED <<globalLock, boxLock, pc>>
      /\ \A q \in Procs : job'[q].op = job[q].op /\ job'[q].mode = job[q].mode
  BY DEF DaemonBegin, DaemonApply, Outage, Expire, vars, TypeOK, Jobs
<1>2. \A q \in Procs : txLock' = q <=> txLock = q
  BY BoxAssumption DEF DaemonBegin, DaemonApply, Outage, Expire, vars, SidecarDies,
                       SidecarStays, LocksHeld
<1>3. (daemon' = "apply") <=> (txLock' = Daemon)
  BY BoxAssumption DEF DaemonBegin, DaemonApply, Outage, Expire, vars, SidecarDies,
                       SidecarStays, LocksHeld
<1> QED
  BY <1>1, <1>2, <1>3 DEF ModeKnown, LocksHeld, InTransaction

-----------------------------------------------------------------------------
LEMMA NextLocks ==
  ASSUME LockInv, [Next]_vars
  PROVE  LockInv'
<1>1. TypeOK'
  BY NextType DEF LockInv
<1>2. ASSUME NEW p \in Procs, Starts(p) PROVE LockInv'
  BY <1>1, <1>2, BeginLocks DEF Starts
<1>3. ASSUME NEW p \in Procs, Step(p) PROVE LockInv'
  <2>1. CASE LockBox(p) \/ Unlock(p) \/ BeginTransaction(p) \/ EndTransaction(p)
    BY <1>1, <2>1, LockBoxLocks, ReleaseLocks, TransactionLocks
  <2>2. CASE ~(LockBox(p) \/ Unlock(p) \/ BeginTransaction(p) \/ EndTransaction(p))
    <3>1. Inner(p)
      BY <1>3, <2>2, LoadInner, PlainStepsInner, DecideInner, SavingStepsInner,
         RuntimeStepsInner, TransactionStepsInner
         DEF Step, Lifecycle, Transaction, Sidecar
    <3> QED
      BY <1>1, <3>1, InnerKeeps
  <2> QED
    BY <2>1, <2>2
<1>4. ASSUME NEW p \in Procs, Expire(p) \/ Crash(p) PROVE LockInv'
  BY <1>1, <1>4, ReleaseLocks, SilentLocks
<1>5. CASE DaemonBegin \/ DaemonApply \/ Outage \/ UNCHANGED vars
  BY <1>1, <1>5, SilentLocks
<1> QED
  BY <1>2, <1>3, <1>4, <1>5 DEF Next

LEMMA InitLocks ==
  ASSUME Init
  PROVE  LockInv
<1>1. TypeOK
  BY InitType
<1>2. ModeKnown /\ LocksHeld
  BY BoxAssumption DEF Init, ModeKnown, LocksHeld, InTransaction, NoJob, NewJob,
                       PlainSteps, TransactionSteps, ActivationSteps
<1> QED
  BY <1>1, <1>2 DEF LockInv

\* The locks exclude: in every reachable state the holder of the state lock is
\* the only process inside a command, the box lock and the transaction lock
\* are held exactly while they must be, and the sidecar reconciles only while
\* it holds the transaction lock.
THEOREM Exclusion == Spec => []LocksHeld
<1>1. Init => LockInv
  BY InitLocks
<1>2. LockInv /\ [Next]_vars => LockInv'
  BY NextLocks
<1>3. LockInv => LocksHeld
  BY DEF LockInv
<1> QED
  BY <1>1, <1>2, <1>3, PTL DEF Spec
=============================================================================
