--------------------------- MODULE BoxRecordProofs ---------------------------
(***************************************************************************)
(* The record of a box and the port transactions, proved for any number of  *)
(* commands and mappings.  First, whatever fails: no command overwrites     *)
(* another one, a degraded box is not recorded as ready and stays degraded  *)
(* until it is restored.  RecordKnown adds what a command knows of the      *)
(* record it has loaded.                                                    *)
(*                                                                          *)
(* Then, in layers: what stands in Docker and on disk (Standing), what a    *)
(* port command knows of the box (PortInv), what it asks of the ledger of   *)
(* the mappings (LedgerInv), how the files follow the record (FilesInv),    *)
(* what up restores (ServingInv), what a rollback admits (ConfessedInv),    *)
(* the box before its first failure (CalmInv) and what a failed request     *)
(* takes back (UndoneInv).  The layers hold whatever fails: they name the   *)
(* failures it takes for the box to disagree, and only the theorems after   *)
(* the ledger assume that fewer of them happen.                             *)
(***************************************************************************)
EXTENDS BoxManagerProofs

Unloaded == {"idle", "box", "load"}

\* What a command knows of the loaded record: it has not succeeded before its
\* last Save, the box exists, nobody else has changed the record, a transaction
\* has not read a degraded record as ready, and a Save that failed has left
\* the previous mappings or the candidate.
Unfinished(p) == pc[p] \notin {"unlock", "end"} => ~job[p].ok
BoxExists(p) ==
  pc[p] \notin Unloaded \cup {"render", "decide", "unlock"} => job[p].rec.exists
OwnRecord(p) ==
  Loaded(p) /\ pc[p] \notin {"unlock", "end"} /\ ~Undecided(p)
    => saved.maps = job[p].rec.maps /\ saved.rtErr = job[p].rec.rtErr
GoodRecord(p) ==
  (job[p].mode # "lifecycle" \/ pc[p] \in {"touch", "preflight", "transaction"})
    => (job[p].rec.status = "ready" => ~job[p].rec.rtErr)
HalfSaved(p) == Undecided(p) => saved.maps \in {job[p].rec.maps, job[p].cand}
WholeRequest(p) == job[p].mode # "lifecycle" => job[p].cand = CandidateMappings(p)

Knows(p) ==
  /\ Unfinished(p) /\ BoxExists(p) /\ OwnRecord(p) /\ GoodRecord(p)
  /\ HalfSaved(p) /\ WholeRequest(p)

RecordKnown == \A p \in Procs : Knows(p)

RecordInv == LockInv /\ RecordKnown /\ ReadyNotDegraded

\* It is enough to look at the command that makes a step: the others are idle.
LEMMA OnlyMover ==
  ASSUME RecordInv, LockInv', NEW p \in Procs,
         \A q \in Procs \ {p} : pc'[q] = pc[q] /\ job'[q] = job[q] /\ pc[q] = "idle",
         Knows(p)', ReadyNotDegraded'
  PROVE  RecordInv'
<1>1. ASSUME NEW q \in Procs \ {p} PROVE Knows(q)'
  <2>1. pc'[q] = "idle" /\ ~job'[q].ok
    BY DEF RecordInv, RecordKnown, Knows, Unfinished
  <2>2. job'[q].mode = "lifecycle"
    BY <2>1 DEF LockInv, ModeKnown, PlainSteps
  <2> QED
    BY <2>1, <2>2 DEF Knows, Unfinished, BoxExists, OwnRecord, GoodRecord, HalfSaved,
                WholeRequest, Loaded, Undecided, InTransaction, Unloaded
<1> QED
  BY <1>1 DEF RecordInv, RecordKnown

\* A command begins when no other one runs, and steps only as the holder of
\* the state lock.
LEMMA OneMoves ==
  ASSUME LockInv, NEW p \in Procs, Starts(p) \/ Step(p) \/ Crash(p)
  PROVE  \A q \in Procs \ {p} : pc[q] = "idle"
<1>1. CASE Starts(p)
  BY <1>1, BoxAssumption DEF Starts, Begin, LockInv, LocksHeld
<1>2. CASE pc[p] # "idle"
  BY <1>2, OthersIdle
<1> QED
  BY <1>1, <1>2
     DEF Step, Lifecycle, Runtime, Transaction, Sidecar, Crash, LockBox, Load, Unlock,
         InspectBox, Touch, Render, Decide, Mark, ComposeDown, ComposeUp, Verify, Commit,
         PersistError, Settle, Forget, EnsureRelay, ProbeRelay, ApplyBridge, HaltRelay,
         Write, Unwrite, SaveCandidate, Unkeep, RestoreFiles, SaveRolledBack, Resave,
         EndTransaction, SyncLoopback, ApplyImports,
         Preflight, NoTransaction, BeginTransaction

-----------------------------------------------------------------------------
\* Lifecycle steps.

\* A lifecycle command that is about to unlock has nothing left to know, and
\* one that goes on knows enough when it has the saved record.
LEMMA UnlockKnows ==
  ASSUME NEW p \in Procs, pc'[p] = "unlock", job'[p].mode = "lifecycle"
  PROVE  Knows(p)'
BY DEF Knows, Unfinished, BoxExists, OwnRecord, GoodRecord, HalfSaved,
       WholeRequest, Undecided, InTransaction

LEMMA WorkingKnows ==
  ASSUME NEW p \in Procs, job'[p].mode = "lifecycle", ~job'[p].ok,
         job'[p].rec.exists,
         saved'.maps = job'[p].rec.maps, saved'.rtErr = job'[p].rec.rtErr,
         pc'[p] \notin {"touch", "preflight", "transaction"}
  PROVE  Knows(p)'
BY DEF Knows, Unfinished, BoxExists, OwnRecord, GoodRecord, HalfSaved,
       WholeRequest, Undecided, InTransaction

\* The record of a lifecycle command that has decided to work.
LEMMA Working ==
  ASSUME RecordInv, NEW p \in Procs, pc[p] \in PlainSteps \cup RuntimeSteps,
         pc[p] \notin Unloaded \cup {"render", "decide"}, job[p].mode = "lifecycle"
  PROVE  /\ job[p].rec \in Records /\ job[p].rec.exists /\ ~job[p].ok
         /\ saved.maps = job[p].rec.maps /\ saved.rtErr = job[p].rec.rtErr
         /\ saved.status = "ready" => ~saved.rtErr
<1>1. job[p].rec \in Records
  BY CandidateType DEF RecordInv, LockInv
<1>2. pc[p] \notin {"unlock", "end"}
  BY DEF PlainSteps, RuntimeSteps
<1>3. Knows(p) /\ ReadyNotDegraded
  BY DEF RecordInv, RecordKnown
<1>4. ~job[p].ok /\ job[p].rec.exists
  BY <1>2, <1>3 DEF Knows, Unfinished, BoxExists, Unloaded
<1>5. Loaded(p) /\ ~Undecided(p)
  BY <1>4 DEF Loaded, Unloaded, Undecided, InTransaction
<1> QED
  BY <1>1, <1>2, <1>3, <1>4, <1>5 DEF Knows, OwnRecord, ReadyNotDegraded

LEMMA ReconciledKnown ==
  ASSUME saved \in Records, ReadyNotDegraded
  PROVE  /\ Reconciled.maps = saved.maps /\ Reconciled.rtErr = saved.rtErr
         /\ Reconciled.status = "ready" => ~Reconciled.rtErr
BY DEF Reconciled, ReconciledStatus, Records, ReadyNotDegraded

LEMMA LoadKnows ==
  ASSUME RecordInv, NEW p \in Procs, Load(p)
  PROVE  Knows(p)' /\ ReadyNotDegraded'
<1>1. /\ pc[p] = "load" /\ job[p].mode = "lifecycle" /\ ~job[p].ok
      /\ job[p] \in Jobs /\ saved \in Records
  BY PlainStep, CandidateType
     DEF Load, PlainSteps, RecordInv, LockInv, TypeOK, RecordKnown, Knows, Unfinished
<1>2. Inner(p)
  BY LoadInner DEF RecordInv
<1>3. job'[p].mode = "lifecycle"
  BY <1>1 DEF Load, RecordInv, LockInv, TypeOK, Jobs
<1>4. saved' \in {saved, Reconciled}
  BY DEF Load, Saves, SaveFails
<1>5. ReadyNotDegraded'
  BY <1>1, <1>4, ReconciledKnown DEF RecordInv, ReadyNotDegraded
<1>6. CASE pc'[p] = "unlock"
  BY <1>3, <1>5, <1>6, UnlockKnows
<1>7. CASE pc'[p] # "unlock"
  <2>1. /\ saved' = Reconciled /\ Admits(job[p].op, job[p].arg, Reconciled)
        /\ pc'[p] = FirstStep[job[p].op]
        /\ job'[p].rec = Reconciled /\ ~job'[p].ok /\ job'[p].op = job[p].op
    BY <1>1, <1>7 DEF Load, Goto, Saves, RecordInv, LockInv, TypeOK, Jobs
  <2>2. /\ pc'[p] # "render" => Reconciled.exists
        /\ pc'[p] \in PlainSteps
    BY <1>1, <1>7, <2>1 DEF Admits, FirstStep, Jobs, Ops, PortOps, PlainSteps
  <2>3. Reconciled.status = "ready" => ~Reconciled.rtErr
    BY <1>1, ReconciledKnown DEF RecordInv
  <2>4. /\ pc'[p] # "render" => job'[p].rec.exists
        /\ saved' = job'[p].rec
        /\ job'[p].rec.status = "ready" => ~job'[p].rec.rtErr
    BY <2>1, <2>2, <2>3
  <2>5. ~Undecided(p)' /\ ~job'[p].ok
    BY <1>3, <2>1 DEF Undecided, InTransaction
  <2> QED
    BY <1>3, <1>5, <2>4, <2>5
       DEF Knows, Unfinished, BoxExists, OwnRecord, GoodRecord, HalfSaved, WholeRequest
<1> QED
  BY <1>6, <1>7

\* Render leaves the record alone, and Decide saves one with its mappings.
LEMMA RenderKnows ==
  ASSUME RecordInv, NEW p \in Procs, Render(p)
  PROVE  Knows(p)' /\ ReadyNotDegraded'
<1>1. /\ pc[p] = "render" /\ job[p].mode = "lifecycle" /\ job[p] \in Jobs
      /\ Knows(p) /\ ReadyNotDegraded
  BY PlainStep, CandidateType DEF Render, PlainSteps, RecordInv, LockInv, RecordKnown
<1>2. \/ job' = job
      \/ \E c \in BOOLEAN : job' = [job EXCEPT ![p].changed = c]
  BY DEF Render, Keep
<1>3. /\ job'[p].rec = job[p].rec /\ job'[p].ok = job[p].ok
      /\ job'[p].mode = "lifecycle"
  BY <1>1, <1>2 DEF RecordInv, LockInv, TypeOK, Jobs
<1>4. pc'[p] \in {"decide", "unlock"} /\ saved' = saved
  BY DEF Render, Goto, RecordInv, LockInv, TypeOK
<1> QED
  BY <1>1, <1>3, <1>4 DEF Knows, Unfinished, BoxExists, OwnRecord, GoodRecord, HalfSaved, Loaded,
           WholeRequest, Undecided, InTransaction, ReadyNotDegraded

LEMMA DecideKnows ==
  ASSUME RecordInv, NEW p \in Procs, Decide(p)
  PROVE  Knows(p)' /\ ReadyNotDegraded'
<1>1. /\ pc[p] = "decide" /\ job[p].mode = "lifecycle" /\ job[p] \in Jobs
      /\ job[p].rec \in Records /\ Knows(p) /\ ReadyNotDegraded /\ ~job[p].ok
  BY PlainStep, CandidateType
     DEF Decide, PlainSteps, RecordInv, LockInv, RecordKnown, Knows, Unfinished
<1>2. CASE pc'[p] = "unlock"
  <2>1. job'[p].mode = "lifecycle"
    BY <1>1, DecideInner DEF Inner, SameMode, RecordInv
  <2>2. saved' = saved \/ saved'.status \in {"starting", "creating"}
    BY <1>1 DEF Decide, Saves, SaveFails, Records
  <2> QED
    BY <1>1, <1>2, <2>1, <2>2, UnlockKnows DEF ReadyNotDegraded
<1>3. CASE pc'[p] # "unlock" /\ saved' = saved /\ job[p].rec.exists
           /\ job' = [job EXCEPT ![p].fast = TRUE, ![p].rec.status = "ready"]
  <2>1. /\ job'[p].rec.maps = job[p].rec.maps /\ job'[p].rec.rtErr = job[p].rec.rtErr
        /\ job'[p].rec.exists = job[p].rec.exists
        /\ ~job'[p].ok /\ job'[p].mode = "lifecycle"
    BY <1>1, <1>3 DEF RecordInv, LockInv, TypeOK, Jobs, Records
  <2>2. saved.maps = job[p].rec.maps /\ saved.rtErr = job[p].rec.rtErr
    BY <1>1, <1>3 DEF Knows, OwnRecord, Loaded, Undecided, InTransaction
  <2>3. pc'[p] = "relay"
    BY <1>3 DEF Decide, Goto, RecordInv, LockInv, TypeOK
  <2> QED
    BY <1>1, <1>3, <2>1, <2>2, <2>3, WorkingKnows DEF ReadyNotDegraded
<1>4. CASE \E s \in {"starting", "creating"} :
             LET r == [job[p].rec EXCEPT !.exists = TRUE, !.status = s]
             IN saved' = r /\ job' = [job EXCEPT ![p].rec = r] /\ Goto(p, "relay")
  <2>1. /\ job'[p].rec = saved' /\ saved'.exists /\ saved'.status # "ready"
        /\ ~job'[p].ok /\ job'[p].mode = "lifecycle" /\ pc'[p] = "relay"
    BY <1>1, <1>4 DEF Goto, RecordInv, LockInv, TypeOK, Jobs, Records
  <2> QED
    BY <2>1, WorkingKnows DEF ReadyNotDegraded
<1> QED
  <2>1. CASE /\ FastPath(p) /\ Works(p)
             /\ job' = [job EXCEPT ![p].fast = TRUE, ![p].rec.status = "ready"]
             /\ saved' = saved /\ Goto(p, "relay")
    <3>1. pc'[p] # "unlock"
      BY <2>1 DEF Goto, RecordInv, LockInv, TypeOK
    <3> QED
      BY <1>3, <2>1, <3>1 DEF FastPath
  <2>2. CASE Goto(p, "unlock")
    <3>1. pc'[p] = "unlock"
      BY <2>2 DEF Goto, RecordInv, LockInv, TypeOK
    <3> QED
      BY <1>2, <3>1
  <2> QED
    BY <1>4, <2>1, <2>2 DEF Decide, Saves

\* The steps that save a last time, or nothing, and unlock.
LEMMA LastKnows ==
  ASSUME RecordInv, NEW p \in Procs,
         \/ InspectBox(p) \/ Touch(p) \/ SyncLoopback(p) \/ Commit(p)
         \/ PersistError(p) \/ Settle(p) \/ Forget(p)
  PROVE  Knows(p)' /\ ReadyNotDegraded'
<1>1. /\ pc[p] \in {"inspect", "touch", "sync", "commit", "error", "settle", "forget"}
      /\ job[p].rec \in Records /\ job[p].mode = "lifecycle" /\ pc \in [Procs -> Steps]
  BY PlainStep, CandidateType
     DEF InspectBox, Touch, SyncLoopback, Commit, PersistError, Settle, Forget,
         PlainSteps, RecordInv, LockInv, TypeOK
<1>2. /\ job[p].rec.exists /\ ~job[p].ok
      /\ saved.maps = job[p].rec.maps /\ saved.rtErr = job[p].rec.rtErr
      /\ saved.status = "ready" => ~saved.rtErr
  BY <1>1, Working DEF PlainSteps, Unloaded
<1>3. job'[p].mode = "lifecycle"
  BY <1>1, PlainStepsInner, SavingStepsInner DEF Inner, SameMode, RecordInv
<1>4. \/ pc'[p] = "unlock"
      \/ pc'[p] = "forget" /\ Settle(p) /\ job' = job /\ saved' = saved
  BY <1>1 DEF InspectBox, Touch, SyncLoopback, Commit, PersistError, Settle, Forget,
              Goto, Finish, Keep
<1>5. Knows(p)'
  BY <1>2, <1>3, <1>4, UnlockKnows, WorkingKnows
<1>6. ReadyNotDegraded'
  <2> USE DEF Finish, Saves, SaveFails, ReadyNotDegraded
  <2>1. CASE InspectBox(p)
    BY <1>1, <1>2, <2>1 DEF InspectBox, InspectedStatus, Records
  <2>2. CASE Touch(p)
    <3>1. job[p].rec.status = "ready" => ~job[p].rec.rtErr
      BY <2>2 DEF Touch, RecordInv, RecordKnown, Knows, GoodRecord
    <3> QED
      BY <1>2, <2>2, <3>1 DEF Touch
  <2>3. CASE SyncLoopback(p)
    BY <1>2, <2>3 DEF SyncLoopback
  <2>4. CASE Commit(p)
    BY <1>1, <1>2, <2>4 DEF Commit, CommittedRecord, Records
  <2>5. CASE PersistError(p)
    BY <1>1, <1>2, <2>5 DEF PersistError, Records
  <2>6. CASE Settle(p)
    BY <1>1, <1>2, <2>6 DEF Settle, Records
  <2>7. CASE Forget(p)
    BY <1>2, <2>7 DEF Forget, NoRecord
  <2> QED
    BY <2>1, <2>2, <2>3, <2>4, <2>5, <2>6, <2>7
<1> QED
  BY <1>5, <1>6

LEMMA MarkKnows ==
  ASSUME RecordInv, NEW p \in Procs, Mark(p)
  PROVE  Knows(p)' /\ ReadyNotDegraded'
<1>1. /\ pc[p] = "mark" /\ job[p] \in Jobs /\ job[p].rec \in Records
      /\ job[p].mode = "lifecycle" /\ pc \in [Procs -> Steps] /\ job \in [Procs -> Jobs]
  BY PlainStep, CandidateType DEF Mark, PlainSteps, RecordInv, LockInv, TypeOK
<1>2. /\ job[p].rec.exists /\ ~job[p].ok
      /\ saved.status = "ready" => ~saved.rtErr
  BY <1>1, Working DEF PlainSteps, Unloaded
<1> DEFINE r == [job[p].rec EXCEPT !.status = MarkedStatus(job[p].op)]
<1>3. r.status # "ready" /\ r.exists
  BY <1>1, <1>2 DEF MarkedStatus, Records
<1>4. saved' \in {saved, r}
  BY DEF Mark, Saves, SaveFails
<1>5. ReadyNotDegraded'
  BY <1>2, <1>3, <1>4 DEF ReadyNotDegraded
<1>6. CASE Saves(p, r) /\ job' = [job EXCEPT ![p].rec = r]
           /\ Goto(p, IF job[p].op = "restart" THEN "relay" ELSE "down")
  <2>1. /\ job'[p].rec = r /\ saved' = r /\ ~job'[p].ok /\ job'[p].mode = "lifecycle"
        /\ pc'[p] \in {"relay", "down"}
    BY <1>1, <1>2, <1>6 DEF Saves, Goto, Jobs
  <2> HIDE DEF r
  <2> QED
    BY <1>3, <1>5, <2>1, WorkingKnows
<1>7. CASE SaveFails(p, r) /\ Keep(p) /\ Goto(p, "unlock")
  BY <1>1, <1>5, <1>7, UnlockKnows DEF Goto, Keep
<1> QED
  BY <1>6, <1>7 DEF Mark

\* The steps that change only containers or wait for the sidecar.
LEMMA ComposeKnows ==
  ASSUME RecordInv, NEW p \in Procs, ComposeDown(p) \/ ComposeUp(p) \/ Verify(p)
  PROVE  Knows(p)' /\ ReadyNotDegraded'
<1>1. /\ pc[p] \in {"down", "up", "verify"} /\ saved' = saved /\ job' = job
      /\ pc'[p] \in {"up", "halt", "error", "verify", "bridge"}
  BY DEF ComposeDown, ComposeUp, Verify, Goto, RecordInv, LockInv, TypeOK
<1>2. job[p].mode = "lifecycle"
  BY <1>1, PlainStep DEF PlainSteps, RecordInv
<1> QED
  BY <1>1, <1>2, Working, WorkingKnows DEF PlainSteps, Unloaded, RecordInv, ReadyNotDegraded

LEMMA PreflightKnows ==
  ASSUME RecordInv, NEW p \in Procs, Preflight(p) \/ NoTransaction(p)
  PROVE  Knows(p)' /\ ReadyNotDegraded'
<1>1. /\ pc[p] \in {"preflight", "transaction"} /\ saved' = saved /\ job' = job
      /\ pc'[p] \in {"transaction", "unlock"}
      /\ Knows(p) /\ ReadyNotDegraded
  BY DEF Preflight, NoTransaction, Goto, RecordInv, LockInv, TypeOK, RecordKnown
<1>2. job[p].mode = "lifecycle"
  BY <1>1, PlainStep DEF PlainSteps, RecordInv
<1> QED
  BY <1>1, <1>2 DEF Knows, Unfinished, BoxExists, OwnRecord, GoodRecord, HalfSaved, Loaded,
           WholeRequest, Undecided, InTransaction, ReadyNotDegraded, Unloaded

-----------------------------------------------------------------------------
\* The runtime steps, in all three modes: no Save, and a failed activation
\* turns into a rollback with the record as it was.
LEMMA RuntimeKnows ==
  ASSUME RecordInv, NEW p \in Procs, Runtime(p) \/ ApplyImports(p)
  PROVE  Knows(p)' /\ ReadyNotDegraded'
<1>1. \E step \in RuntimeSteps :
        pc[p] = step /\ saved' = saved /\ (Proceed(p, step) \/ Fallback(p, step))
  BY DEF Runtime, EnsureRelay, ProbeRelay, ApplyBridge, HaltRelay, ApplyImports,
         Skip, RuntimeSteps
<1>2. PICK step \in RuntimeSteps :
        pc[p] = step /\ (Proceed(p, step) \/ Fallback(p, step))
  BY <1>1
<1>3. saved' = saved /\ Knows(p) /\ ReadyNotDegraded /\ job[p] \in Jobs
      /\ job[p].mode \in Modes /\ pc \in [Procs -> Steps] /\ job \in [Procs -> Jobs]
  BY <1>1, CandidateType DEF RecordInv, RecordKnown, LockInv, TypeOK
<1>4. /\ job'[p].rec = job[p].rec /\ job'[p].ok = job[p].ok /\ job'[p].op = job[p].op
      /\ job'[p].arg = job[p].arg /\ job'[p].cand = job[p].cand
      /\ job'[p].mode = job[p].mode \/ (job[p].mode = "activate" /\ job'[p].mode = "rollback")
  BY <1>2, <1>3 DEF Proceed, Fallback, Keep, Jobs
<1>5. step \notin Unloaded \cup {"render", "decide", "unlock", "end", "touch",
                                 "preflight", "transaction", "unkeep", "resave"}
  BY DEF RuntimeSteps, Unloaded
<1>6. pc'[p] \in {AfterStep(p, step), "error", "restore"}
  BY <1>2, <1>3 DEF Proceed, Fallback, Goto
<1>7. AfterStep(p, step) \in {"bridge", "down", "up", "probe", "imports", "commit",
                              "settle", "halt", "save", "restate"}
  BY <1>3 DEF AfterStep, Order, RuntimeSteps, Modes
<1>8. pc'[p] \notin {"unlock", "end", "touch", "preflight", "transaction", "unkeep", "resave"}
  BY <1>6, <1>7
<1>9. /\ job[p].rec.exists /\ ~job[p].ok
      /\ job[p].mode # "rollback" =>
           saved.maps = job[p].rec.maps /\ saved.rtErr = job[p].rec.rtErr
  BY <1>2, <1>3, <1>5
     DEF Knows, Unfinished, BoxExists, OwnRecord, Loaded, Undecided, Unloaded
<1>10. CASE job[p].mode = "lifecycle"
  BY <1>3, <1>4, <1>8, <1>9, <1>10, WorkingKnows DEF ReadyNotDegraded
<1>11. CASE job[p].mode # "lifecycle"
  <2>1. GoodRecord(p)' /\ WholeRequest(p)'
    BY <1>3, <1>4, <1>11 DEF Knows, GoodRecord, WholeRequest, CandidateMappings
  <2>2. Unfinished(p)' /\ BoxExists(p)'
    BY <1>4, <1>9 DEF Unfinished, BoxExists
  <2>3. InTransaction(p)'
    BY <1>4, <1>8, <1>11 DEF InTransaction
  <2>4. OwnRecord(p)'
    BY <1>3, <1>4, <1>9, <2>3 DEF OwnRecord, Undecided
  <2>5. HalfSaved(p)'
    <3>1. CASE job[p].mode = "rollback"
      BY <1>2, <1>3, <1>4, <1>5, <1>9, <3>1 DEF Knows, HalfSaved, Undecided, InTransaction
    <3>2. CASE job[p].mode # "rollback"
      BY <1>3, <1>4, <1>9, <3>2 DEF HalfSaved
    <3> QED
      BY <3>1, <3>2
  <2> QED
    BY <1>3, <2>1, <2>2, <2>4, <2>5 DEF Knows, ReadyNotDegraded
<1> QED
  BY <1>10, <1>11

-----------------------------------------------------------------------------
\* The steps of a port transaction.

LEMMA BeginTransactionKnows ==
  ASSUME RecordInv, NEW p \in Procs, BeginTransaction(p)
  PROVE  Knows(p)' /\ ReadyNotDegraded'
<1>1. /\ pc[p] = "transaction" /\ job[p] \in Jobs /\ job \in [Procs -> Jobs]
      /\ job[p].mode = "lifecycle" /\ pc \in [Procs -> Steps] /\ Knows(p)
      /\ ReadyNotDegraded
  BY PlainStep, CandidateType
     DEF BeginTransaction, PlainSteps, RecordInv, RecordKnown, LockInv, TypeOK
<1>2. /\ job[p].rec.exists /\ ~job[p].ok
      /\ saved.maps = job[p].rec.maps /\ saved.rtErr = job[p].rec.rtErr
  BY <1>1, Working DEF PlainSteps, Unloaded
<1>3. /\ pc'[p] = "write" /\ saved' = saved /\ job'[p].mode = "activate"
      /\ job'[p].rec = job[p].rec /\ ~job'[p].ok
      /\ job'[p].op = job[p].op /\ job'[p].arg = job[p].arg
      /\ job'[p].cand = CandidateMappings(p)
  BY <1>1, <1>2 DEF BeginTransaction, Goto, Jobs
<1>4. GoodRecord(p)'
  BY <1>1, <1>3 DEF Knows, GoodRecord
<1>5. WholeRequest(p)'
  BY <1>3 DEF WholeRequest, CandidateMappings
<1> QED
  BY <1>1, <1>2, <1>3, <1>4, <1>5
     DEF Knows, Unfinished, BoxExists, OwnRecord, HalfSaved, Undecided, ReadyNotDegraded

\* What a transaction knows of the record before a step.
LEMMA InTransactionKnows ==
  ASSUME RecordInv, NEW p \in Procs, pc[p] \in TransactionSteps \ {"end"}
  PROVE  /\ job[p] \in Jobs /\ job[p].rec \in Records /\ job \in [Procs -> Jobs]
         /\ pc \in [Procs -> Steps] /\ saved \in Records
         /\ job[p].mode # "lifecycle" /\ InTransaction(p) /\ ~job[p].ok
         /\ job[p].rec.exists /\ job[p].cand = CandidateMappings(p)
         /\ job[p].rec.status = "ready" => ~job[p].rec.rtErr
         /\ saved.status = "ready" => ~saved.rtErr
         /\ saved.maps \in {job[p].rec.maps, job[p].cand}
         /\ job[p].mode # "rollback" /\ pc[p] \notin {"unkeep", "resave"} =>
              saved.maps = job[p].rec.maps /\ saved.rtErr = job[p].rec.rtErr
<1>1. /\ job[p] \in Jobs /\ job[p].rec \in Records /\ job \in [Procs -> Jobs]
      /\ pc \in [Procs -> Steps] /\ saved \in Records
      /\ job[p].mode # "lifecycle" /\ Knows(p) /\ ReadyNotDegraded
  BY CandidateType DEF RecordInv, RecordKnown, LockInv, ModeKnown, TypeOK
<1>2. pc[p] \notin Unloaded \cup {"render", "decide", "unlock", "end"}
  BY DEF TransactionSteps, Unloaded
<1> QED
  BY <1>1, <1>2
     DEF Knows, Unfinished, BoxExists, OwnRecord, GoodRecord, HalfSaved, WholeRequest,
         Undecided, InTransaction, Loaded, Unloaded, ReadyNotDegraded

\* The steps that touch only the port files.
LEMMA FilesKnow ==
  ASSUME RecordInv, NEW p \in Procs, Write(p) \/ Unwrite(p) \/ RestoreFiles(p)
  PROVE  Knows(p)' /\ ReadyNotDegraded'
<1>1. pc[p] \in TransactionSteps \ {"end"} /\ pc[p] \in {"write", "unwrite", "restore"}
  BY DEF Write, Unwrite, RestoreFiles, TransactionSteps
<1>2. /\ saved' = saved /\ pc'[p] \in {"keep", "relay", "unwrite", "end"}
      /\ job'[p].rec = job[p].rec /\ job'[p].ok = job[p].ok
      /\ job'[p].op = job[p].op /\ job'[p].arg = job[p].arg
      /\ job'[p].cand = job[p].cand /\ job'[p].mode = job[p].mode
  BY <1>1, InTransactionKnows DEF Write, Unwrite, RestoreFiles, Goto, Keep, Jobs
<1>3. GoodRecord(p)' /\ WholeRequest(p)'
  BY <1>1, <1>2, InTransactionKnows DEF GoodRecord, WholeRequest, CandidateMappings
<1> QED
  BY <1>1, <1>2, <1>3, InTransactionKnows
     DEF Knows, Unfinished, BoxExists, OwnRecord, HalfSaved, Undecided, InTransaction,
         ReadyNotDegraded

LEMMA SaveCandidateKnows ==
  ASSUME RecordInv, NEW p \in Procs, SaveCandidate(p)
  PROVE  Knows(p)' /\ ReadyNotDegraded'
<1>1. pc[p] \in TransactionSteps \ {"end"} /\ pc[p] \in {"keep", "save"}
  BY DEF SaveCandidate, TransactionSteps
<1> DEFINE c == Candidate(p)
<1>2. /\ c.maps = job[p].cand /\ c.rtErr = job[p].rec.rtErr /\ c.status = job[p].rec.status
  BY <1>1, InTransactionKnows DEF Candidate, Records
<1>3. saved' \in {saved, c}
  BY DEF SaveCandidate, Saves, SaveFails
<1> HIDE DEF c
<1>4. ReadyNotDegraded'
  BY <1>1, <1>2, <1>3, InTransactionKnows DEF ReadyNotDegraded
<1>5. saved'.maps \in {job[p].rec.maps, job[p].cand}
  BY <1>1, <1>2, <1>3, InTransactionKnows
<1>6. /\ job'[p].rec = job[p].rec /\ job'[p].op = job[p].op
      /\ job'[p].arg = job[p].arg /\ job'[p].cand = job[p].cand
      /\ \/ pc'[p] = "end" /\ job'[p].mode # "lifecycle" /\ job'[p].ok
         \/ pc'[p] = "unkeep" /\ job'[p].mode = job[p].mode /\ ~job'[p].ok
         \/ pc'[p] = "restore" /\ job'[p].mode = "rollback" /\ ~job'[p].ok
  BY <1>1, InTransactionKnows DEF SaveCandidate, Goto, Keep, Jobs
<1>7. GoodRecord(p)' /\ WholeRequest(p)'
  BY <1>1, <1>6, InTransactionKnows DEF GoodRecord, WholeRequest, CandidateMappings
<1>8. InTransaction(p)'
  BY <1>1, <1>6, InTransactionKnows DEF InTransaction
<1> QED
  BY <1>1, <1>4, <1>5, <1>6, <1>7, <1>8, InTransactionKnows
     DEF Knows, Unfinished, BoxExists, OwnRecord, HalfSaved, Undecided

\* The steps that return to the previous record, degraded or not.
LEMMA DegradedKnown ==
  ASSUME NEW r \in Records
  PROVE  /\ Degraded(r).maps = r.maps /\ Degraded(r).exists = r.exists
         /\ Degraded(r).rtErr = TRUE /\ Degraded(r).status = "error"
         /\ Degraded(r) \in Records
BY DEF Degraded, Records, Statuses

LEMMA UndoKnows ==
  ASSUME RecordInv, NEW p \in Procs, Unkeep(p) \/ SaveRolledBack(p) \/ Resave(p)
  PROVE  Knows(p)' /\ ReadyNotDegraded'
<1>1. /\ pc[p] \in TransactionSteps \ {"end"} /\ pc[p] \in {"unkeep", "restate", "resave"}
      /\ pc'[p] \in {"resave", "end"}
  BY InTransactionKnows DEF Unkeep, SaveRolledBack, Resave, TransactionSteps, Goto
<1> DEFINE r == job[p].rec
           d == Degraded(job[p].rec)
<1>3. /\ d.maps = r.maps /\ d.exists = r.exists /\ d.rtErr /\ d.status = "error"
      /\ Degraded(d).maps = r.maps /\ Degraded(d).exists = r.exists
      /\ Degraded(d).rtErr /\ Degraded(d).status = "error"
  BY <1>1, InTransactionKnows, DegradedKnown
<1>4. saved' \in {saved, r, d}
  BY DEF Unkeep, SaveRolledBack, Resave, Saves, SaveFails, RolledBack
<1>5. job'[p].rec \in {r, d, Degraded(d)}
  BY <1>1, InTransactionKnows
     DEF Unkeep, SaveRolledBack, Resave, Keep, RolledBack, Jobs
<1>6. /\ job'[p].ok = job[p].ok /\ job'[p].op = job[p].op /\ job'[p].arg = job[p].arg
      /\ job'[p].cand = job[p].cand /\ job'[p].mode = job[p].mode
  BY <1>1, InTransactionKnows DEF Unkeep, SaveRolledBack, Resave, Keep, Jobs
<1> HIDE DEF d
<1>7. /\ job'[p].rec.maps = r.maps /\ job'[p].rec.exists
      /\ job'[p].rec.status = "ready" => ~job'[p].rec.rtErr
  BY <1>1, <1>3, <1>5, InTransactionKnows
<1>8. ReadyNotDegraded'
  BY <1>1, <1>3, <1>4, InTransactionKnows DEF ReadyNotDegraded
<1>9. saved'.maps \in {r.maps, job[p].cand}
  BY <1>1, <1>3, <1>4, InTransactionKnows
<1>10. GoodRecord(p)' /\ WholeRequest(p)'
  BY <1>1, <1>6, <1>7, InTransactionKnows DEF GoodRecord, WholeRequest, CandidateMappings
<1>11. Unfinished(p)' /\ BoxExists(p)' /\ HalfSaved(p)'
  BY <1>1, <1>6, <1>7, <1>9, InTransactionKnows DEF Unfinished, BoxExists, HalfSaved
<1>12. OwnRecord(p)'
  BY <1>1, <1>6, InTransactionKnows DEF OwnRecord, Undecided, InTransaction
<1> QED
  BY <1>8, <1>10, <1>11, <1>12 DEF Knows

LEMMA EndTransactionKnows ==
  ASSUME RecordInv, NEW p \in Procs, EndTransaction(p)
  PROVE  Knows(p)' /\ ReadyNotDegraded'
<1>1. /\ pc'[p] = "unlock" /\ job' = job /\ saved' = saved /\ Knows(p) /\ ReadyNotDegraded
  BY DEF EndTransaction, Goto, RecordInv, RecordKnown, LockInv, TypeOK
<1> QED
  BY <1>1 DEF Knows, Unfinished, BoxExists, OwnRecord, GoodRecord, HalfSaved, WholeRequest,
              CandidateMappings, Undecided, InTransaction, ReadyNotDegraded

-----------------------------------------------------------------------------
\* The steps outside the record.

LEMMA EndsKnow ==
  ASSUME RecordInv, NEW p \in Procs, Unlock(p) \/ Crash(p) \/ LockBox(p) \/ Starts(p)
  PROVE  Knows(p)' /\ ReadyNotDegraded'
<1>1. /\ saved' = saved /\ pc'[p] \in Unloaded /\ ReadyNotDegraded
      /\ ~job'[p].ok /\ job'[p].mode = "lifecycle"
  <2>1. CASE Unlock(p) \/ Crash(p)
    BY <2>1 DEF Unlock, Crash, Goto, NoJob, NewJob, RecordInv, LockInv, TypeOK, Unloaded
  <2>2. CASE Starts(p)
    BY <2>2 DEF Starts, Begin, Goto, NewJob, RecordInv, LockInv, TypeOK, Unloaded
  <2>3. CASE LockBox(p)
    <3>1. pc[p] = "box" /\ job[p].mode = "lifecycle"
      BY <2>3, PlainStep DEF LockBox, PlainSteps, RecordInv
    <3> QED
      BY <2>3, <3>1 DEF LockBox, Goto, RecordInv, LockInv, TypeOK, Unloaded,
                        RecordKnown, Knows, Unfinished
  <2> QED
    BY <2>1, <2>2, <2>3
<1> QED
  BY <1>1 DEF Knows, Unfinished, BoxExists, OwnRecord, GoodRecord, HalfSaved,
              WholeRequest, Loaded, Undecided, InTransaction, ReadyNotDegraded, Unloaded

LEMMA SilentKnows ==
  ASSUME RecordInv, LockInv',
         \/ DaemonBegin \/ DaemonApply \/ Outage \/ UNCHANGED vars
         \/ \E p \in Procs : Expire(p)
  PROVE  RecordInv'
<1>1. /\ saved' = saved /\ pc' = pc
      /\ \A q \in Procs :
           /\ job'[q].op = job[q].op /\ job'[q].mode = job[q].mode
           /\ job'[q].rec = job[q].rec /\ job'[q].ok = job[q].ok
           /\ job'[q].cand = job[q].cand /\ job'[q].arg = job[q].arg
  BY DEF DaemonBegin, DaemonApply, Outage, Expire, vars, RecordInv, LockInv, TypeOK, Jobs
<1>2. ASSUME NEW q \in Procs PROVE Knows(q)'
  <2>1. Knows(q)
    BY DEF RecordInv, RecordKnown
  <2>2. Undecided(q)' <=> Undecided(q)
    BY <1>1 DEF Undecided, InTransaction
  <2>3. WholeRequest(q)'
    BY <1>1, <2>1 DEF Knows, WholeRequest, CandidateMappings
  <2> QED
    BY <1>1, <2>1, <2>2, <2>3
       DEF Knows, Unfinished, BoxExists, OwnRecord, GoodRecord, HalfSaved, Loaded
<1> QED
  BY <1>1, <1>2 DEF RecordInv, RecordKnown, ReadyNotDegraded

LEMMA OthersStay ==
  ASSUME LockInv, NEW p \in Procs, Starts(p) \/ Step(p) \/ Crash(p)
  PROVE  \A q \in Procs \ {p} : pc'[q] = pc[q] /\ job'[q] = job[q]
<1>1. CASE LockBox(p) \/ Unlock(p) \/ BeginTransaction(p) \/ EndTransaction(p)
           \/ Starts(p) \/ Crash(p)
  BY <1>1 DEF LockBox, Unlock, BeginTransaction, EndTransaction, Starts, Begin, Crash,
              Goto, LockInv, TypeOK
<1>2. CASE ~(LockBox(p) \/ Unlock(p) \/ BeginTransaction(p) \/ EndTransaction(p)
             \/ Starts(p) \/ Crash(p))
  <2>1. Inner(p)
    BY <1>2, LoadInner, PlainStepsInner, DecideInner, SavingStepsInner,
       RuntimeStepsInner, TransactionStepsInner
       DEF Step, Lifecycle, Transaction, Sidecar
  <2> QED
    BY <2>1 DEF Inner
<1> QED
  BY <1>1, <1>2

LEMMA StepKnows ==
  ASSUME RecordInv, NEW p \in Procs, Starts(p) \/ Step(p) \/ Crash(p)
  PROVE  Knows(p)' /\ ReadyNotDegraded'
BY EndsKnow, LoadKnows, RenderKnows, DecideKnows, LastKnows, MarkKnows, ComposeKnows,
   PreflightKnows, RuntimeKnows, BeginTransactionKnows, FilesKnow, SaveCandidateKnows,
   UndoKnows, EndTransactionKnows
   DEF Step, Lifecycle, Transaction, Sidecar

LEMMA NextKnows ==
  ASSUME RecordInv, [Next]_vars
  PROVE  RecordInv'
<1>1. LockInv'
  BY NextLocks DEF RecordInv
<1>2. ASSUME NEW p \in Procs, Starts(p) \/ Step(p) \/ Crash(p)
      PROVE  RecordInv'
  <2>1. Knows(p)' /\ ReadyNotDegraded'
    BY <1>2, StepKnows
  <2>2. \A q \in Procs \ {p} : pc'[q] = pc[q] /\ job'[q] = job[q]
    BY <1>2, OthersStay DEF RecordInv
  <2>3. \A q \in Procs \ {p} : pc[q] = "idle"
    BY <1>2, OneMoves DEF RecordInv
  <2> QED
    BY <1>1, <2>1, <2>2, <2>3, OnlyMover
<1> QED
  BY <1>1, <1>2, SilentKnows DEF Next

LEMMA InitKnows ==
  ASSUME Init
  PROVE  RecordInv
<1>1. LockInv
  BY InitLocks
<1>2. RecordKnown /\ ReadyNotDegraded
  BY DEF Init, RecordKnown, Knows, Unfinished, BoxExists, OwnRecord, GoodRecord, HalfSaved,
         WholeRequest, Loaded, Undecided, InTransaction, ReadyNotDegraded, Unloaded,
         NoJob, NewJob, NoRecord
<1> QED
  BY <1>1, <1>2 DEF RecordInv

\* No command overwrites the record another one has changed since it loaded it.
THEOREM NoUpdateLost == Spec => []NoLostUpdate
<1>1. RecordInv => NoLostUpdate
  BY DEF RecordInv, RecordKnown, Knows, OwnRecord, NoLostUpdate
<1>2. Init => RecordInv
  BY InitKnows
<1>3. RecordInv /\ [Next]_vars => RecordInv'
  BY NextKnows
<1> QED
  BY <1>1, <1>2, <1>3, PTL DEF Spec

\* A box recorded as ready has no degraded port runtime.
THEOREM DegradedNotReady == Spec => []ReadyNotDegraded
<1>1. RecordInv => ReadyNotDegraded
  BY DEF RecordInv
<1>2. Init => RecordInv
  BY InitKnows
<1>3. RecordInv /\ [Next]_vars => RecordInv'
  BY NextKnows
<1> QED
  BY <1>1, <1>2, <1>3, PTL DEF Spec

-----------------------------------------------------------------------------
\* What a step does to the desired mappings, the ones of the ledger.

\* The desired mappings, for the one command that may be undecided.
DesiredBy(p) == IF Undecided(p) THEN job[p].rec.maps ELSE saved.maps

LEMMA DesiredNow ==
  ASSUME NEW p \in Procs, \A q \in Procs \ {p} : ~Undecided(q)
  PROVE  Desired = DesiredBy(p)
BY DEF Desired, DesiredBy

LEMMA DesiredThen ==
  ASSUME NEW p \in Procs, \A q \in Procs \ {p} : ~Undecided(q)'
  PROVE  Desired' = DesiredBy(p)'
<1>1. CASE Undecided(p)'
  <2>1. (CHOOSE q \in Procs : Undecided(q)') = p
    BY <1>1
  <2> QED
    BY <1>1, <2>1 DEF Desired, DesiredBy
<1>2. CASE ~Undecided(p)'
  BY <1>2 DEF Desired, DesiredBy
<1> QED
  BY <1>1, <1>2

LEMMA IdleDecided ==
  ASSUME RecordInv, NEW q \in Procs, pc[q] = "idle"
  PROVE  ~Undecided(q)
BY PlainStep DEF RecordInv, PlainSteps, Undecided, InTransaction

\* What a step of p does to the desired mappings: nothing, the whole request of
\* a transaction, which is over then, or the removal of the box.
Grants(p) ==
  /\ InTransaction(p) /\ ~job[p].ok /\ ~Asks(p)' /\ ~Undecided(p)'
  /\ DesiredBy(p) = job[p].rec.maps /\ DesiredBy(p)' = job[p].cand
  /\ saved'.rtErr = saved.rtErr
  /\ IF Undecided(p) THEN saved' = saved
     ELSE pc[p] \in {"keep", "save"} /\ saved.rtErr = job[p].rec.rtErr
Whole(p) ==
  \/ DesiredBy(p)' = DesiredBy(p)
  \/ Grants(p)
  \/ pc[p] = "forget" /\ saved' = NoRecord /\ DesiredBy(p)' = {}

\* A step outside a transaction that keeps the mappings of the record.
LEMMA PlainWhole ==
  ASSUME NEW p \in Procs, job[p].mode = "lifecycle", job'[p].mode = "lifecycle",
         saved'.maps = saved.maps
  PROVE  Whole(p)
BY DEF Whole, DesiredBy, Undecided, InTransaction

LEMMA LifecycleWhole ==
  ASSUME RecordInv, NEW p \in Procs, Lifecycle(p), pc[p] # "unlock"
  PROVE  Whole(p)
<1>1. job[p].rec \in Records /\ saved \in Records
  BY CandidateType DEF RecordInv, LockInv, TypeOK
<1>2. pc[p] \in PlainSteps \ {"idle"} /\ job[p].mode = "lifecycle"
  <2>1. pc[p] \in PlainSteps \ {"idle"}
    BY DEF Lifecycle, LockBox, Load, Unlock, InspectBox, Touch, Render, Decide, Mark,
           ComposeDown, ComposeUp, Verify, Commit, PersistError, Settle, Forget, PlainSteps
  <2> QED
    BY <2>1, PlainStep DEF RecordInv
<1>3. job'[p].mode = "lifecycle"
  <2>1. CASE LockBox(p)
    BY <1>2, <2>1 DEF LockBox
  <2>2. CASE ~LockBox(p)
    <3>1. Inner(p)
      BY <2>2, LoadInner, PlainStepsInner, DecideInner, SavingStepsInner
         DEF Lifecycle, RecordInv, Unlock
    <3> QED
      BY <1>2, <3>1 DEF Inner, SameMode
  <2> QED
    BY <2>1, <2>2
<1>4. CASE Forget(p)
  <2>1. saved' \in {saved, NoRecord}
    BY <1>4 DEF Forget, Finish, Saves, SaveFails
  <2>2. DesiredBy(p)' = saved'.maps
    BY <1>3 DEF DesiredBy, Undecided, InTransaction
  <2> QED
    BY <1>2, <1>3, <1>4, <2>1, <2>2, PlainWhole DEF Forget, Whole, NoRecord
<1>5. CASE LockBox(p) \/ Load(p) \/ Render(p)
  <2>1. saved' = saved \/ saved' = Reconciled
    BY <1>5 DEF LockBox, Load, Render, Saves, SaveFails
  <2>2. saved'.maps = saved.maps
    BY <1>1, <2>1, ReconciledKnown DEF RecordInv
  <2> QED
    BY <1>2, <1>3, <2>2, PlainWhole
<1>6. CASE Decide(p)
  <2>1. saved.maps = job[p].rec.maps
    BY <1>2, <1>6 DEF Decide, RecordInv, RecordKnown, Knows, OwnRecord, Loaded,
                      Undecided, InTransaction
  <2>2. saved'.maps \in {saved.maps, job[p].rec.maps}
    BY <1>1, <1>6 DEF Decide, Saves, SaveFails, Records
  <2> QED
    BY <1>2, <1>3, <2>1, <2>2, PlainWhole
<1>7. CASE ~(Forget(p) \/ LockBox(p) \/ Load(p) \/ Render(p) \/ Decide(p))
  <2>1. pc[p] \notin Unloaded \cup {"render", "decide"}
    BY <1>7 DEF Lifecycle, Unlock, InspectBox, Touch, Mark, ComposeDown, ComposeUp, Verify,
                Commit, PersistError, Settle, Unloaded
  <2>2. saved.maps = job[p].rec.maps
    BY <1>2, <2>1, Working
  <2>3. saved'.maps \in {saved.maps, job[p].rec.maps}
    BY <1>1, <1>7 DEF Lifecycle, Unlock, InspectBox, Touch, Mark, ComposeDown, ComposeUp,
                Verify, Commit, PersistError, Settle, Finish, Saves, SaveFails,
                CommittedRecord, Records
  <2> QED
    BY <1>2, <1>3, <2>2, <2>3, PlainWhole
<1> QED
  BY <1>4, <1>5, <1>6, <1>7

LEMMA SidecarWhole ==
  ASSUME RecordInv, NEW p \in Procs,
         \/ SyncLoopback(p) \/ Preflight(p) \/ NoTransaction(p) \/ BeginTransaction(p)
         \/ Expire(p) \/ Starts(p)
  PROVE  Whole(p)
<1>1. CASE SyncLoopback(p) \/ Preflight(p) \/ NoTransaction(p)
  <2>1. job[p].mode = "lifecycle"
    BY <1>1, PlainStep DEF SyncLoopback, Preflight, NoTransaction, PlainSteps, RecordInv
  <2>2. job'[p].mode = "lifecycle"
    BY <1>1, <2>1, PlainStepsInner DEF Inner, SameMode, RecordInv,
                                      SyncLoopback, Preflight, NoTransaction
  <2> QED
    BY <1>1, <2>1, <2>2, PlainWhole DEF SyncLoopback, Preflight, NoTransaction
<1>2. CASE BeginTransaction(p)
  <2>1. job[p].mode = "lifecycle" /\ job'[p].mode = "activate" /\ pc'[p] = "write"
    BY <1>2, PlainStep DEF BeginTransaction, Goto, PlainSteps, RecordInv, LockInv, TypeOK, Jobs
  <2> QED
    BY <1>2, <2>1 DEF BeginTransaction, Whole, DesiredBy, Undecided, InTransaction
<1>3. CASE Expire(p)
  BY <1>3 DEF Expire, Whole, DesiredBy, Undecided, InTransaction, RecordInv, LockInv, TypeOK, Jobs
<1>4. CASE Starts(p)
  <2>1. job[p].mode = "lifecycle"
    BY <1>4, PlainStep DEF Starts, Begin, PlainSteps, RecordInv
  <2>2. job'[p].mode = "lifecycle" /\ saved' = saved
    BY <1>4 DEF Starts, Begin, NewJob, RecordInv, LockInv, TypeOK
  <2> QED
    BY <2>1, <2>2, PlainWhole
<1> QED
  BY <1>1, <1>2, <1>3, <1>4

LEMMA RuntimeWhole ==
  ASSUME RecordInv, NEW p \in Procs, Runtime(p) \/ ApplyImports(p)
  PROVE  Whole(p)
<1>1. \E step \in RuntimeSteps :
        pc[p] = step /\ saved' = saved /\ (Proceed(p, step) \/ Fallback(p, step))
  BY DEF Runtime, EnsureRelay, ProbeRelay, ApplyBridge, HaltRelay, ApplyImports,
         Skip, RuntimeSteps
<1>2. PICK step \in RuntimeSteps :
        pc[p] = step /\ (Proceed(p, step) \/ Fallback(p, step))
  BY <1>1
<1>3. saved' = saved /\ Knows(p) /\ job[p] \in Jobs /\ job[p].mode \in Modes
      /\ pc \in [Procs -> Steps] /\ job \in [Procs -> Jobs]
  BY <1>1, CandidateType DEF RecordInv, RecordKnown, LockInv, TypeOK
<1>4. /\ job'[p].rec = job[p].rec /\ job'[p].ok = job[p].ok
      /\ job'[p].mode = job[p].mode \/ (job[p].mode = "activate" /\ job'[p].mode = "rollback")
  BY <1>2, <1>3 DEF Proceed, Fallback, Keep, Jobs
<1>5. pc[p] \notin Unloaded \cup {"unlock", "end", "unkeep", "resave"}
  BY <1>2 DEF RuntimeSteps, Unloaded
<1>6. pc'[p] \in {AfterStep(p, step), "error", "restore"}
  BY <1>2, <1>3 DEF Proceed, Fallback, Goto
<1>7. AfterStep(p, step) \in {"bridge", "down", "up", "probe", "imports", "commit",
                              "settle", "halt", "save", "restate"}
  BY <1>3 DEF AfterStep, Order, RuntimeSteps, Modes
<1>8. ~job[p].ok /\ (job[p].mode # "rollback" => saved.maps = job[p].rec.maps)
  BY <1>3, <1>5 DEF Knows, Unfinished, OwnRecord, Loaded, Undecided, Unloaded
<1>9. pc'[p] \notin {"unlock", "unkeep", "resave"}
  BY <1>6, <1>7
<1> QED
  BY <1>3, <1>4, <1>5, <1>8, <1>9 DEF Whole, DesiredBy, Undecided, InTransaction, Modes

\* The steps of a transaction: only the Save of the candidate changes what is
\* desired.
LEMMA TransactionWhole ==
  ASSUME RecordInv, NEW p \in Procs, Transaction(p), pc[p] # "end"
  PROVE  Whole(p)
<1>1. pc[p] \in TransactionSteps \ {"end"}
  BY DEF Transaction, Write, Unwrite, SaveCandidate, Unkeep, RestoreFiles, SaveRolledBack,
         Resave, EndTransaction, TransactionSteps
<1>2. DesiredBy(p) = job[p].rec.maps
  BY <1>1, InTransactionKnows DEF DesiredBy, Undecided, TransactionSteps
<1>3. CASE Write(p) \/ Unwrite(p) \/ RestoreFiles(p)
  <2>1. /\ saved' = saved /\ pc'[p] \in {"keep", "relay", "unwrite", "end"}
        /\ pc[p] \in {"write", "unwrite", "restore"}
        /\ job'[p].rec = job[p].rec /\ job'[p].ok = job[p].ok
        /\ job'[p].mode = job[p].mode
    BY <1>1, <1>3, InTransactionKnows DEF Write, Unwrite, RestoreFiles, Goto, Keep, Jobs
  <2> QED
    BY <1>1, <2>1, InTransactionKnows DEF Whole, DesiredBy, Undecided, InTransaction
<1>4. CASE SaveCandidate(p)
  <2>1. /\ Candidate(p).maps = job[p].cand /\ Candidate(p).rtErr = job[p].rec.rtErr
        /\ saved.maps = job[p].rec.maps /\ saved.rtErr = job[p].rec.rtErr
    <3>1. job[p].mode = "activate" /\ pc[p] \in {"keep", "save"}
      BY <1>4 DEF SaveCandidate, RecordInv, LockInv, ModeKnown, ActivationSteps
    <3> QED
      BY <1>1, <3>1, InTransactionKnows DEF Candidate, Records
  <2>2. /\ job'[p].rec = job[p].rec
        /\ \/ saved' = Candidate(p) /\ job'[p].ok
           \/ pc'[p] = "unkeep" /\ job'[p].mode = job[p].mode /\ ~job'[p].ok
           \/ pc'[p] = "restore" /\ job'[p].mode = "rollback" /\ ~job'[p].ok
    BY <1>1, <1>4, InTransactionKnows DEF SaveCandidate, Saves, Goto, Keep, Jobs
  <2>3. CASE job'[p].ok
    <3>1. DesiredBy(p)' = job[p].cand
      BY <1>1, <2>2, <2>3, InTransactionKnows DEF DesiredBy, Undecided, Candidate, Records
    <3>2. ~Undecided(p) /\ pc[p] \in {"keep", "save"}
      BY <1>1, <1>4, InTransactionKnows
         DEF SaveCandidate, Undecided, RecordInv, LockInv, ModeKnown, ActivationSteps
    <3>3. ~Asks(p)' /\ ~Undecided(p)'
      BY <2>3 DEF Asks, Undecided
    <3>4. InTransaction(p) /\ ~job[p].ok
      BY <1>1, InTransactionKnows
    <3>5. saved'.rtErr = saved.rtErr
      BY <2>1, <2>2, <2>3
    <3> QED
      BY <1>2, <2>1, <3>1, <3>2, <3>3, <3>4, <3>5 DEF Whole, Grants
  <2>4. CASE ~job'[p].ok
    <3>1. Undecided(p)'
      BY <1>1, <2>2, <2>4, InTransactionKnows DEF Undecided, InTransaction
    <3> QED
      BY <1>2, <2>2, <3>1 DEF Whole, DesiredBy
  <2> QED
    BY <2>3, <2>4
<1>5. CASE Unkeep(p) \/ SaveRolledBack(p)
  <2>1. job'[p].rec.maps = job[p].rec.maps
    <3>1. job'[p].rec \in {job[p].rec, Degraded(job[p].rec), Degraded(Degraded(job[p].rec))}
      BY <1>1, <1>5, InTransactionKnows DEF Unkeep, SaveRolledBack, Keep, RolledBack, Jobs
    <3> QED
      BY <1>1, <3>1, InTransactionKnows, DegradedKnown
  <2>2. /\ job'[p].ok = job[p].ok /\ job'[p].mode = job[p].mode
        /\ \/ pc'[p] = "resave"
           \/ pc'[p] = "end" /\ pc[p] = "restate" /\ saved' = RolledBack(p)
    BY <1>1, <1>5, InTransactionKnows DEF Unkeep, SaveRolledBack, Saves, Goto, Keep, Jobs
  <2>3. RolledBack(p).maps = job[p].rec.maps
    BY <1>1, InTransactionKnows, DegradedKnown DEF RolledBack
  <2> QED
    BY <1>1, <1>2, <2>1, <2>2, <2>3, InTransactionKnows
       DEF Whole, DesiredBy, Undecided, InTransaction
<1>6. CASE Resave(p)
  <2>1. job' = job /\ saved' \in {saved, job[p].rec} /\ pc'[p] = "end"
    BY <1>1, <1>6, InTransactionKnows DEF Resave, Saves, SaveFails, Keep, Goto
  <2>2. Undecided(p)'
    BY <1>1, <2>1, InTransactionKnows DEF Undecided, InTransaction
  <2> QED
    BY <1>2, <2>1, <2>2 DEF Whole, DesiredBy
<1> QED
  BY <1>1, <1>3, <1>4, <1>5, <1>6 DEF Transaction, EndTransaction

\* The end of a transaction and of a command, and a kill.
LEMMA EndWhole ==
  ASSUME RecordInv, NEW p \in Procs, EndTransaction(p) \/ Unlock(p) \/ Crash(p)
  PROVE  Whole(p)
<1>1. saved' = saved /\ ~Undecided(p)' /\ ~Asks(p)'
  BY DEF EndTransaction, Unlock, Crash, Goto, NoJob, NewJob, Undecided, InTransaction, Asks,
         RecordInv, LockInv, TypeOK
<1>2. Knows(p)
  BY DEF RecordInv, RecordKnown
<1>3. CASE Undecided(p)
  <2>1. saved.maps \in {job[p].rec.maps, job[p].cand} /\ job[p].mode # "lifecycle"
    BY <1>2, <1>3 DEF Knows, HalfSaved, Undecided, InTransaction
  <2> QED
    BY <1>1, <1>3, <2>1 DEF Whole, Grants, DesiredBy, Undecided
<1>4. CASE ~Undecided(p)
  BY <1>1, <1>4 DEF Whole, DesiredBy
<1> QED
  BY <1>3, <1>4

-----------------------------------------------------------------------------
(***************************************************************************)
(* Nothing but a successful activation and the removal of the box takes a  *)
(* degradation back, whatever fails.  The delicate steps are those of a    *)
(* transaction whose Save failed: state.json may hold either record then,  *)
(* and the record a rollback saves must be as degraded as the one it may   *)
(* replace.  Sticky says so.                                               *)
(***************************************************************************)

Sticky(p) == Undecided(p) /\ pc[p] # "end" /\ saved.rtErr => job[p].rec.rtErr

StickyInv == RecordInv /\ \A p \in Procs : Sticky(p)

\* A step of p keeps the degradation, but for the last ones of up, of destroy
\* and of a transaction that could not be taken back.
KeepsDegraded(p) ==
  /\ saved.rtErr /\ ~saved'.rtErr => pc[p] \in {"commit", "forget"}
  /\ ~saved.rtErr /\ saved'.rtErr => pc[p] \in {"restate", "resave"}

LEMMA LifecycleSticks ==
  ASSUME RecordInv, NEW p \in Procs, Lifecycle(p), pc[p] # "unlock"
  PROVE  Sticky(p)' /\ KeepsDegraded(p)
<1>1. job[p].rec \in Records /\ saved \in Records
  BY CandidateType DEF RecordInv, LockInv, TypeOK
<1>2. pc[p] \in PlainSteps \ {"idle"} /\ job[p].mode = "lifecycle"
  <2>1. pc[p] \in PlainSteps \ {"idle"}
    BY DEF Lifecycle, LockBox, Load, Unlock, InspectBox, Touch, Render, Decide, Mark,
           ComposeDown, ComposeUp, Verify, Commit, PersistError, Settle, Forget, PlainSteps
  <2> QED
    BY <2>1, PlainStep DEF RecordInv
<1>3. job'[p].mode = "lifecycle"
  <2>1. CASE LockBox(p)
    BY <1>2, <2>1 DEF LockBox
  <2>2. CASE ~LockBox(p)
    <3>1. Inner(p)
      BY <2>2, LoadInner, PlainStepsInner, DecideInner, SavingStepsInner
         DEF Lifecycle, RecordInv, Unlock
    <3> QED
      BY <1>2, <3>1 DEF Inner, SameMode
  <2> QED
    BY <2>1, <2>2
<1>4. Sticky(p)'
  BY <1>3 DEF Sticky, Undecided, InTransaction
<1>5. CASE LockBox(p) \/ Load(p) \/ Render(p)
  <2>1. saved' = saved \/ saved' = Reconciled
    BY <1>5 DEF LockBox, Load, Render, Saves, SaveFails
  <2> QED
    BY <1>1, <1>4, <2>1, ReconciledKnown DEF RecordInv, KeepsDegraded
<1>6. CASE Decide(p)
  <2>1. saved.rtErr = job[p].rec.rtErr
    BY <1>2, <1>6 DEF Decide, RecordInv, RecordKnown, Knows, OwnRecord, Loaded,
                      Undecided, InTransaction
  <2>2. saved'.rtErr \in {saved.rtErr, job[p].rec.rtErr}
    BY <1>1, <1>6 DEF Decide, Saves, SaveFails, Records
  <2> QED
    BY <1>4, <2>1, <2>2 DEF KeepsDegraded
<1>7. CASE Commit(p) \/ Forget(p)
  <2>1. saved' \in {saved, CommittedRecord(job[p].rec), NoRecord}
    BY <1>7 DEF Commit, Forget, Finish, Saves, SaveFails
  <2>2. saved'.rtErr => saved.rtErr
    <3>1. ~CommittedRecord(job[p].rec).rtErr
      BY <1>1 DEF CommittedRecord, Records
    <3>2. ~NoRecord.rtErr
      BY DEF NoRecord
    <3> QED
      BY <2>1, <3>1, <3>2
  <2> QED
    BY <1>4, <1>7, <2>2 DEF Commit, Forget, KeepsDegraded
<1>8. CASE ~(LockBox(p) \/ Load(p) \/ Render(p) \/ Decide(p) \/ Commit(p) \/ Forget(p))
  <2>1. pc[p] \notin Unloaded \cup {"render", "decide"}
    BY <1>8 DEF Lifecycle, Unlock, InspectBox, Touch, Mark, ComposeDown, ComposeUp, Verify,
                PersistError, Settle, Unloaded
  <2>2. saved.rtErr = job[p].rec.rtErr
    BY <1>2, <2>1, Working
  <2>3. saved'.rtErr \in {saved.rtErr, job[p].rec.rtErr}
    BY <1>1, <1>8 DEF Lifecycle, Unlock, InspectBox, Touch, Mark, ComposeDown, ComposeUp,
                Verify, PersistError, Settle, Finish, Saves, SaveFails, Records
  <2> QED
    BY <1>4, <2>2, <2>3 DEF KeepsDegraded
<1> QED
  BY <1>5, <1>6, <1>7, <1>8

LEMMA SidecarSticks ==
  ASSUME StickyInv, NEW p \in Procs,
         \/ SyncLoopback(p) \/ Preflight(p) \/ NoTransaction(p) \/ BeginTransaction(p)
         \/ Starts(p) \/ EndTransaction(p) \/ Unlock(p) \/ Crash(p)
  PROVE  Sticky(p)' /\ KeepsDegraded(p)
<1> USE DEF StickyInv
<1>1. saved' = saved
  BY DEF SyncLoopback,
         Preflight, NoTransaction, BeginTransaction, Starts, Begin, EndTransaction,
         Unlock, Crash
<1>2. CASE SyncLoopback(p) \/ Preflight(p) \/ NoTransaction(p)
  <2>1. job[p].mode = "lifecycle"
    BY <1>2, PlainStep DEF SyncLoopback, Preflight, NoTransaction, PlainSteps, RecordInv
  <2>2. job'[p].mode = "lifecycle"
    BY <1>2, <2>1, PlainStepsInner DEF Inner, SameMode, RecordInv,
                                      SyncLoopback, Preflight, NoTransaction
  <2> QED
    BY <1>1, <2>2 DEF Sticky, Undecided, InTransaction, KeepsDegraded
<1>3. CASE BeginTransaction(p)
  <2>1. job'[p].mode = "activate" /\ pc'[p] = "write"
    BY <1>3 DEF BeginTransaction, Goto, RecordInv, LockInv, TypeOK, Jobs
  <2> QED
    BY <1>1, <2>1 DEF Sticky, Undecided, KeepsDegraded
<1>4. CASE Starts(p) \/ EndTransaction(p) \/ Unlock(p) \/ Crash(p)
  <2>1. job'[p].mode = "lifecycle" \/ pc'[p] = "unlock"
    BY <1>4 DEF Starts, Begin, EndTransaction, Unlock, Crash, NoJob, NewJob, Goto,
                RecordInv, LockInv, TypeOK
  <2> QED
    BY <1>1, <2>1 DEF Sticky, Undecided, InTransaction, KeepsDegraded
<1> QED
  BY <1>2, <1>3, <1>4

LEMMA RuntimeSticks ==
  ASSUME StickyInv, NEW p \in Procs, Runtime(p) \/ ApplyImports(p)
  PROVE  Sticky(p)' /\ KeepsDegraded(p)
<1> USE DEF StickyInv
<1>1. \E step \in RuntimeSteps :
        pc[p] = step /\ saved' = saved /\ (Proceed(p, step) \/ Fallback(p, step))
  BY DEF Runtime, EnsureRelay, ProbeRelay, ApplyBridge, HaltRelay, ApplyImports,
         Skip, RuntimeSteps
<1>2. PICK step \in RuntimeSteps :
        pc[p] = step /\ saved' = saved /\ (Proceed(p, step) \/ Fallback(p, step))
  BY <1>1
<1>3. /\ Knows(p) /\ Sticky(p) /\ job[p] \in Jobs /\ job[p].mode \in Modes
      /\ pc \in [Procs -> Steps] /\ job \in [Procs -> Jobs]
  BY CandidateType DEF RecordInv, RecordKnown, LockInv, TypeOK
<1>4. job'[p].rec = job[p].rec /\ job'[p].ok = job[p].ok
  BY <1>2, <1>3 DEF Proceed, Fallback, Keep, Jobs
<1>5. pc[p] \notin Unloaded \cup {"unlock", "end", "unkeep", "resave"}
  BY <1>2 DEF RuntimeSteps, Unloaded
<1>6. CASE Undecided(p)
  BY <1>2, <1>3, <1>4, <1>5, <1>6 DEF Sticky, KeepsDegraded
<1>7. CASE ~Undecided(p)
  BY <1>2, <1>3, <1>4, <1>5, <1>7
     DEF Knows, OwnRecord, Loaded, Unloaded, Sticky, KeepsDegraded
<1> QED
  BY <1>6, <1>7

LEMMA TransactionSticks ==
  ASSUME StickyInv, NEW p \in Procs, Transaction(p), pc[p] # "end"
  PROVE  Sticky(p)' /\ KeepsDegraded(p)
<1> USE DEF StickyInv
<1>1. pc[p] \in TransactionSteps \ {"end"}
  BY DEF Transaction, Write, Unwrite, SaveCandidate, Unkeep, RestoreFiles, SaveRolledBack,
         Resave, EndTransaction, TransactionSteps
<1>2. saved.rtErr => job[p].rec.rtErr
  <2>1. CASE Undecided(p)
    BY <1>1, <2>1 DEF Sticky, TransactionSteps
  <2>2. CASE ~Undecided(p)
    BY <1>1, <2>2, InTransactionKnows DEF Undecided
  <2> QED
    BY <2>1, <2>2
<1>3. /\ Candidate(p).rtErr = job[p].rec.rtErr
      /\ Degraded(job[p].rec).rtErr /\ Degraded(Degraded(job[p].rec)).rtErr
  <2>1. job[p].rec \in Records
    BY <1>1, InTransactionKnows
  <2>2. Degraded(job[p].rec) \in Records /\ Degraded(job[p].rec).rtErr
    BY <2>1, DegradedKnown
  <2>3. Degraded(Degraded(job[p].rec)).rtErr
    BY <2>2, DegradedKnown
  <2> QED
    BY <2>1, <2>2, <2>3 DEF Candidate, Records
<1>4. CASE Write(p) \/ Unwrite(p) \/ RestoreFiles(p) \/ Unkeep(p) \/ SaveCandidate(p)
  <2>1. saved' \in {saved, Candidate(p)}
    BY <1>4 DEF Write, Unwrite, RestoreFiles, Unkeep, SaveCandidate, Saves, SaveFails
  <2>2. job'[p].rec \in {job[p].rec, Degraded(job[p].rec)}
    BY <1>1, <1>4, InTransactionKnows
       DEF Write, Unwrite, RestoreFiles, Unkeep, SaveCandidate, Keep, Jobs
  <2>3. CASE SaveCandidate(p)
    <3>1. job[p].mode = "activate" /\ pc[p] \in {"keep", "save"}
      BY <2>3 DEF SaveCandidate, RecordInv, LockInv, ModeKnown, ActivationSteps
    <3>2. saved.rtErr = job[p].rec.rtErr
      BY <1>1, <3>1, InTransactionKnows
    <3> QED
      BY <1>3, <2>1, <2>2, <3>2 DEF Sticky, KeepsDegraded
  <2>4. CASE ~SaveCandidate(p)
    <3>1. saved' = saved
      BY <1>4, <2>4 DEF Write, Unwrite, RestoreFiles, Unkeep
    <3> QED
      BY <1>2, <1>3, <2>2, <3>1 DEF Sticky, KeepsDegraded
  <2> QED
    BY <2>3, <2>4
<1>5. CASE SaveRolledBack(p)
  <2>1. /\ saved' \in {saved, RolledBack(p)}
        /\ \/ job'[p].rec = Degraded(RolledBack(p))
           \/ pc'[p] = "end"
    BY <1>1, <1>5, InTransactionKnows DEF SaveRolledBack, Saves, SaveFails, Goto, Jobs
  <2>2. RolledBack(p) \in {job[p].rec, Degraded(job[p].rec)}
    BY DEF RolledBack
  <2> QED
    BY <1>2, <1>3, <1>5, <2>1, <2>2 DEF SaveRolledBack, Sticky, KeepsDegraded
<1>6. CASE Resave(p)
  <2>1. saved' \in {saved, job[p].rec} /\ pc'[p] = "end"
    BY <1>1, <1>6, InTransactionKnows DEF Resave, Saves, SaveFails, Goto
  <2> QED
    BY <1>2, <1>6, <2>1 DEF Resave, Sticky, KeepsDegraded
<1> QED
  BY <1>1, <1>4, <1>5, <1>6 DEF Transaction, EndTransaction

LEMMA NextSticks ==
  ASSUME StickyInv, [Next]_vars
  PROVE  /\ StickyInv'
         /\ saved.rtErr /\ ~saved'.rtErr => \E p \in Procs : pc[p] \in {"commit", "forget"}
<1>1. RecordInv'
  BY NextKnows DEF StickyInv
<1>2. ASSUME NEW p \in Procs, Starts(p) \/ Step(p) \/ Crash(p)
      PROVE  StickyInv' /\ KeepsDegraded(p)
  <2>1. Sticky(p)' /\ KeepsDegraded(p)
    BY <1>2, LifecycleSticks, RuntimeSticks, TransactionSticks, SidecarSticks
       DEF Step, Lifecycle, Transaction, Sidecar, Unlock, EndTransaction, LockBox, Load,
           InspectBox, Touch, Render, Decide, Mark, ComposeDown, ComposeUp, Verify,
           Commit, PersistError, Settle, Forget, Write, Unwrite, SaveCandidate, Unkeep,
           RestoreFiles, SaveRolledBack, Resave, StickyInv
  <2>2. \A q \in Procs \ {p} : pc'[q] = pc[q] /\ job'[q] = job[q] /\ pc[q] = "idle"
    BY <1>2, OthersStay, OneMoves DEF StickyInv, RecordInv
  <2>3. \A q \in Procs \ {p} : Sticky(q)'
    BY <2>2, IdleDecided DEF StickyInv, Sticky, Undecided, InTransaction
  <2> QED
    BY <1>1, <2>1, <2>3 DEF StickyInv
<1>3. CASE \/ DaemonBegin \/ DaemonApply \/ Outage \/ UNCHANGED vars
           \/ \E p \in Procs : Expire(p)
  <2>1. /\ saved' = saved /\ pc' = pc
        /\ \A q \in Procs :
             job'[q].mode = job[q].mode /\ job'[q].rec = job[q].rec /\ job'[q].ok = job[q].ok
    BY <1>3 DEF DaemonBegin, DaemonApply, Outage, Expire, vars, StickyInv, RecordInv,
                LockInv, TypeOK, Jobs
  <2> QED
    BY <1>1, <2>1 DEF StickyInv, Sticky, Undecided, InTransaction
<1> QED
  BY <1>2, <1>3 DEF Next, KeepsDegraded

\* A degradation is taken back by the end of up, restart or destroy only.
THEOREM DegradationSticks == Spec => DegradedSticks
<1>1. ASSUME Init PROVE StickyInv
  <2>1. RecordInv /\ \A p \in Procs : pc[p] = "idle"
    BY <1>1, InitKnows DEF Init
  <2> QED
    BY <2>1, IdleDecided DEF StickyInv, Sticky
<1>2. StickyInv /\ [Next]_vars
        => StickyInv' /\ [saved.rtErr /\ ~saved'.rtErr
                            => \E p \in Procs : pc[p] \in {"commit", "forget"}]_vars
  BY NextSticks
<1> QED
  BY <1>1, <1>2, PTL DEF Spec, DegradedSticks

-----------------------------------------------------------------------------
(***************************************************************************)
(* What stands in Docker and on disk: no container without compose.yml, no *)
(* proxy without a sidecar, and nothing of a box that is being removed.    *)
(***************************************************************************)

Position(p) ==
  /\ pc[p] \in {"decide", "up"} => rendered
  /\ pc[p] = "relay" /\ job[p].mode = "lifecycle" /\ job[p].op # "restart" => rendered
  /\ pc[p] \in {"halt", "settle"} /\ job[p].mode = "lifecycle" /\ job[p].op = "destroy"
       => ~Present
  /\ pc[p] = "forget" => ~Present /\ ~rendered /\ config = {} /\ override = {}

Stands ==
  /\ Present => rendered
  /\ Reachable \/ (proxies = {} /\ daemon = "idle")

Standing == Stands /\ \A p \in Procs : Position(p)

\* Who moves, and what the locals of the one who moves are.
LEMMA MoverKnown ==
  ASSUME LockInv, NEW p \in Procs
  PROVE  /\ pc \in [Procs -> Steps] /\ job \in [Procs -> Jobs] /\ job[p] \in Jobs
         /\ job[p].mode \in Modes /\ job[p].rec \in Records /\ saved \in Records
         /\ pc[p] \in PlainSteps => job[p].mode = "lifecycle"
         /\ pc[p] \in TransactionSteps => job[p].mode # "lifecycle"
         /\ pc[p] \in ActivationSteps => job[p].mode = "activate"
BY CandidateType DEF LockInv, TypeOK, ModeKnown

\* A step that leaves containers, proxies and files alone.
Untouched == UNCHANGED <<rendered, config, override, docker, bridge, proxies, daemon>>

LEMMA StandsKept ==
  ASSUME Stands, Untouched
  PROVE  Stands'
BY DEF Stands, Untouched, Present, Reachable

\* Layer by layer: a process that is idle has nothing to keep.
LEMMA MoverStanding ==
  ASSUME RecordInv, NEW p \in Procs, Starts(p) \/ Step(p) \/ Crash(p),
         Stands', Position(p)'
  PROVE  Standing'
<1>1. \A q \in Procs \ {p} : pc'[q] = "idle"
  BY OthersStay, OneMoves DEF RecordInv
<1> QED
  BY <1>1 DEF Standing, Position

LEMMA PlainStands ==
  ASSUME RecordInv, Standing, NEW p \in Procs,
         \/ Starts(p) \/ LockBox(p) \/ Load(p) \/ Unlock(p) \/ InspectBox(p) \/ Touch(p)
         \/ Mark(p) \/ Verify(p) \/ Commit(p) \/ PersistError(p) \/ Forget(p)
         \/ Preflight(p) \/ NoTransaction(p) \/ BeginTransaction(p) \/ EndTransaction(p)
         \/ Crash(p)
  PROVE  Stands' /\ Position(p)'
<1> USE MoverKnown DEF RecordInv
<1>1. Untouched
  BY DEF Untouched, Starts, Begin, LockBox, Load, Unlock, InspectBox, Touch, Mark, Verify,
         Commit, PersistError, Forget,
         Preflight, NoTransaction, BeginTransaction, EndTransaction, Crash,
         files, runtime, sidecar
<1>2. Stands'
  BY <1>1, StandsKept DEF Standing
<1>3. pc'[p] \notin {"decide", "up", "halt", "settle", "forget"}
  <2>1. CASE Load(p)
    <3>1. job[p].op \in Ops
      BY DEF Jobs
    <3>2. FirstStep[job[p].op] \notin {"decide", "up", "halt", "settle", "forget"}
      BY <3>1 DEF FirstStep, Ops, PortOps
    <3> QED
      BY <2>1, <3>2 DEF Load, Goto
  <2>2. CASE ~Load(p)
    BY <2>2 DEF Starts, Begin, LockBox, Unlock, InspectBox, Touch, Mark, Verify,
         Commit, PersistError, Forget,
         Preflight, NoTransaction, BeginTransaction, EndTransaction, Crash,
         Finish, Goto
  <2> QED
    BY <2>1, <2>2
<1>4. pc'[p] = "relay" => job'[p].op = "restart"
  <2>1. CASE Load(p)
    <3>1. job[p].op \in Ops
      BY DEF Jobs
    <3>2. FirstStep[job[p].op] # "relay"
      BY <3>1 DEF FirstStep, Ops, PortOps
    <3> QED
      BY <2>1, <3>2 DEF Load, Goto
  <2>2. CASE Mark(p)
    BY <2>2 DEF Mark, Goto, Keep, Jobs
  <2>3. CASE ~Load(p) /\ ~Mark(p)
    BY <2>3 DEF Starts, Begin, LockBox, Unlock, InspectBox, Touch, Verify,
         Commit, PersistError, Forget,
         Preflight, NoTransaction, BeginTransaction, EndTransaction, Crash,
         Finish, Goto
  <2> QED
    BY <2>1, <2>2, <2>3
<1> QED
  BY <1>2, <1>3, <1>4 DEF Position

LEMMA RenderStands ==
  ASSUME RecordInv, Standing, NEW p \in Procs, Render(p) \/ Decide(p) \/ Settle(p)
  PROVE  Stands' /\ Position(p)'
<1> USE MoverKnown DEF RecordInv
<1>1. UNCHANGED <<docker, bridge, proxies, daemon>>
  BY DEF Render, Decide, Settle, runtime, sidecar
<1>2. CASE Render(p)
  BY <1>1, <1>2 DEF Render, Goto, files, Standing, Stands, Present, Reachable, Position
<1>3. CASE Decide(p)
  <2>1. rendered /\ UNCHANGED files /\ pc'[p] \in {"relay", "unlock"}
    BY <1>3 DEF Decide, Goto, Standing, Position
  <2> QED
    BY <1>1, <2>1 DEF files, Standing, Stands, Present, Reachable, Position
<1>4. CASE Settle(p)
  <2>1. pc[p] = "settle" /\ job[p].mode = "lifecycle"
    BY <1>4 DEF Settle, PlainSteps
  <2>2. job[p].op = "destroy" => ~Present
    BY <2>1 DEF Standing, Position
  <2>3. Stands'
    BY <1>1, <1>4, <2>2 DEF Settle, files, Standing, Stands, Present, Reachable
  <2>4. pc'[p] \in {"unlock", "forget"}
    BY <1>4 DEF Settle, Finish, Goto
  <2>5. pc'[p] = "forget" => /\ job[p].op = "destroy"
                             /\ ~rendered' /\ config' = {} /\ override' = {}
    BY <1>4 DEF Settle, Finish, Goto
  <2> QED
    BY <1>1, <2>2, <2>3, <2>4, <2>5 DEF Position, Present
<1> QED
  BY <1>2, <1>3, <1>4

LEMMA ComposeStands ==
  ASSUME RecordInv, Standing, NEW p \in Procs, ComposeDown(p) \/ ComposeUp(p)
  PROVE  Stands' /\ Position(p)'
<1> USE MoverKnown DEF RecordInv
<1>1. job' = job /\ UNCHANGED files
  BY DEF ComposeDown, ComposeUp
<1>2. CASE ComposeDown(p)
  <2>1. Stands'
    BY <1>1, <1>2 DEF ComposeDown, files, Standing, Stands, Present, Reachable, SidecarDies,
                      SidecarStays, sidecar
  <2>2. \/ pc'[p] = "up" /\ rendered
        \/ pc'[p] = "halt" /\ (job[p].op = "destroy" => docker' = "absent" /\ bridge' = {})
        \/ pc'[p] = "error"
    BY <1>2 DEF ComposeDown, Goto, ComposeAccepts
  <2> QED
    BY <1>1, <2>1, <2>2 DEF Position, Present, files
<1>3. CASE ComposeUp(p)
  <2>1. rendered
    BY <1>3 DEF ComposeUp, Standing, Position
  <2>2. Stands'
    BY <1>1, <1>3, <2>1 DEF ComposeUp, files, Standing, Stands, Present, Reachable, SidecarDies,
                      SidecarStays, sidecar
  <2>3. pc'[p] \in {"verify", "error"}
    BY <1>3 DEF ComposeUp, Goto
  <2> QED
    BY <2>2, <2>3 DEF Position
<1> QED
  BY <1>2, <1>3

LEMMA WriteStands ==
  ASSUME RecordInv, Standing, NEW p \in Procs, Transaction(p) \/ SyncLoopback(p)
  PROVE  Stands' /\ Position(p)'
<1> USE MoverKnown DEF RecordInv
<1>1. UNCHANGED <<docker, bridge, rendered, daemon>>
  BY DEF Transaction, Write, Unwrite, SaveCandidate, Unkeep, RestoreFiles, SaveRolledBack,
         Resave, EndTransaction, SyncLoopback, runtime, sidecar, files
<1>2. proxies' = proxies \/ Reachable
  BY DEF Transaction, Write, Unwrite, SaveCandidate, Unkeep, RestoreFiles, SaveRolledBack,
         Resave, EndTransaction, SyncLoopback, runtime, sidecar
<1>3. Stands'
  BY <1>1, <1>2 DEF Standing, Stands, Present, Reachable
<1>4. /\ pc'[p] \notin {"decide", "up", "halt", "settle", "forget"}
      /\ pc'[p] = "relay" => job'[p].mode # "lifecycle"
  <2>1. pc'[p] \in {"unwrite", "keep", "relay", "end", "unkeep", "restore", "resave", "unlock"}
    BY DEF Transaction, Write, Unwrite, SaveCandidate, Unkeep, RestoreFiles, SaveRolledBack,
         Resave, EndTransaction, SyncLoopback, Goto
  <2>2. pc'[p] = "relay" => pc[p] \in {"write", "restore"} /\ job'[p].mode = job[p].mode
    BY DEF Transaction, Write, Unwrite, SaveCandidate, Unkeep, RestoreFiles, SaveRolledBack,
         Resave, EndTransaction, SyncLoopback, Goto, Keep, Jobs
  <2> QED
    BY <2>1, <2>2 DEF TransactionSteps
<1> QED
  BY <1>3, <1>4 DEF Position

-----------------------------------------------------------------------------
\* What a runtime step does to the locals and the position of its process.
SameRequest(p) ==
  /\ job'[p].op = job[p].op /\ job'[p].arg = job[p].arg /\ job'[p].rec = job[p].rec
  /\ job'[p].cand = job[p].cand /\ job'[p].snapC = job[p].snapC
  /\ job'[p].snapO = job[p].snapO /\ job'[p].fast = job[p].fast
  /\ job'[p].expired = job[p].expired /\ job'[p].ok = job[p].ok

Proceeds(p, step) ==
  job'[p] = job[p] /\ pc'[p] = AfterStep(p, step)
FallsBack(p, step) ==
  \/ job[p].mode = "lifecycle" /\ pc'[p] = "error" /\ job'[p] = job[p]
  \/ /\ job[p].mode = "activate" /\ pc'[p] = "restore" /\ SameRequest(p)
     /\ job'[p].mode = "rollback" /\ job'[p].bad = job[p].bad
  \/ /\ job[p].mode = "rollback" /\ pc'[p] = AfterStep(p, step) /\ SameRequest(p)
     /\ job'[p].mode = "rollback" /\ job'[p].bad

LEMMA RuntimeStep ==
  ASSUME LockInv, NEW p \in Procs, NEW step \in RuntimeSteps
  PROVE  /\ Proceed(p, step) => Proceeds(p, step)
         /\ Fallback(p, step) => FallsBack(p, step)
BY MoverKnown DEF Proceed, Fallback, Goto, Keep, Proceeds, FallsBack, SameRequest, Jobs

\* The order of the runtime steps.
LEMMA NextStep ==
  ASSUME NEW p \in Procs, job[p].mode \in Modes
  PROVE  /\ job[p].mode = "lifecycle" =>
              /\ AfterStep(p, "relay") = IF job[p].fast THEN "bridge"
                                         ELSE IF job[p].op = "restart" THEN "down" ELSE "up"
              /\ AfterStep(p, "bridge") = "probe" /\ AfterStep(p, "probe") = "imports"
              /\ AfterStep(p, "imports") = "commit" /\ AfterStep(p, "halt") = "settle"
         /\ job[p].mode = "activate" =>
              /\ AfterStep(p, "relay") = "probe" /\ AfterStep(p, "probe") = "bridge"
              /\ AfterStep(p, "bridge") = "imports" /\ AfterStep(p, "imports") = "halt"
              /\ AfterStep(p, "halt") = "save"
         /\ job[p].mode = "rollback" =>
              /\ AfterStep(p, "relay") = "bridge" /\ AfterStep(p, "bridge") = "imports"
              /\ AfterStep(p, "imports") = "halt" /\ AfterStep(p, "halt") = "restate"
              /\ AfterStep(p, "probe") = "bridge"
BY DEF AfterStep, Order

LEMMA RuntimeStands ==
  ASSUME RecordInv, Standing, NEW p \in Procs, Runtime(p) \/ ApplyImports(p)
  PROVE  Stands' /\ Position(p)'
<1> USE MoverKnown DEF RecordInv
<1>1. UNCHANGED <<docker, rendered, config, override, daemon>>
  BY DEF Runtime, EnsureRelay, ProbeRelay, ApplyBridge, HaltRelay, ApplyImports, Skip, files
<1>2. PICK step \in RuntimeSteps :
        pc[p] = step /\ (Proceeds(p, step) \/ FallsBack(p, step))
  <2>1. \E step \in RuntimeSteps :
          pc[p] = step /\ (Proceed(p, step) \/ Fallback(p, step))
    BY DEF Runtime, EnsureRelay, ProbeRelay, ApplyBridge, HaltRelay, ApplyImports,
           Skip, RuntimeSteps
  <2> QED
    BY <2>1, RuntimeStep
<1>3. bridge' = bridge \/ bridge' = {} \/ (step = "bridge" /\ rendered)
  BY <1>2 DEF Runtime, EnsureRelay, ProbeRelay, ApplyBridge, HaltRelay, ApplyImports, Skip,
              ComposeAccepts
<1>4. proxies' = proxies \/ Reachable \/ proxies' = proxies \cap config
  BY DEF Runtime, EnsureRelay, ProbeRelay, ApplyBridge, HaltRelay, ApplyImports, Skip
<1>5. Stands'
  BY <1>1, <1>3, <1>4 DEF Standing, Stands, Present, Reachable
<1>6. Position(p)
  BY DEF Standing
<1>7. CASE job[p].mode = "lifecycle"
  <2>1. job'[p] = job[p] /\ pc'[p] \in {AfterStep(p, step), "error"}
    BY <1>2, <1>7 DEF Proceeds, FallsBack
  <2>2. \/ pc'[p] = "up" /\ step = "relay" /\ job[p].op # "restart"
        \/ pc'[p] = "settle" /\ step = "halt"
        \/ pc'[p] \in {"bridge", "down", "probe", "imports", "commit", "error"}
    BY <1>7, <2>1, NextStep DEF RuntimeSteps
  <2> QED
    BY <1>1, <1>2, <1>3, <1>5, <1>6, <1>7, <2>1, <2>2 DEF Position, Present
<1>8. CASE job[p].mode # "lifecycle"
  <2>1. job'[p].mode # "lifecycle" /\ pc'[p] \in {AfterStep(p, step), "restore"}
    BY <1>2, <1>8 DEF Proceeds, FallsBack
  <2>2. pc'[p] \in {"bridge", "probe", "imports", "halt", "save", "restate", "restore"}
    BY <1>8, <2>1, NextStep DEF RuntimeSteps, Modes
  <2> QED
    BY <1>5, <2>1, <2>2 DEF Position
<1> QED
  BY <1>7, <1>8

LEMMA SilentStands ==
  ASSUME RecordInv, Standing,
         \/ DaemonBegin \/ DaemonApply \/ Outage \/ UNCHANGED vars
         \/ \E p \in Procs : Expire(p)
  PROVE  Standing'
<1>1. /\ pc' = pc /\ UNCHANGED files
      /\ \A q \in Procs : job'[q].mode = job[q].mode /\ job'[q].op = job[q].op
  BY DEF DaemonBegin, DaemonApply, Outage, Expire, vars, RecordInv, LockInv, TypeOK, Jobs
<1>2. Stands' /\ (~Present => ~Present')
  BY DEF DaemonBegin, DaemonApply, Outage, Expire, vars, runtime, sidecar, files, Standing,
         Stands, Present, Reachable, SidecarDies, SidecarStays
<1> QED
  BY <1>1, <1>2 DEF Standing, Position, files

LEMMA NextStands ==
  ASSUME RecordInv, Standing, [Next]_vars
  PROVE  Standing'
<1>1. ASSUME NEW p \in Procs, Starts(p) \/ Step(p) \/ Crash(p)
      PROVE  Standing'
  BY <1>1, MoverStanding, PlainStands, RenderStands, ComposeStands, WriteStands, RuntimeStands
     DEF Step, Lifecycle, Sidecar
<1> QED
  BY <1>1, SilentStands DEF Next

-----------------------------------------------------------------------------
(***************************************************************************)
(* What a port command knows of the box while it works, whatever fails.    *)
(* Nothing is assumed of the failures; where the box may have lost what    *)
(* the command gave it, the price of the loss is named instead: failing is *)
(* never free, and a rollback that ran out of time has cost two failures.  *)
(***************************************************************************)

Among(kinds) == kinds \cap MayFail # {}
OutageSeen == Among({"outage"}) /\ faults >= 1

FilesAre(m) == config = m /\ override = m \cap Publications
Snapped(p) == config = job[p].snapC /\ override = job[p].snapO

\* A command that will not apply its request, and one that works on ports.
Failing(p) ==
  /\ job[p].mode # "lifecycle" /\ ~job[p].ok
  /\ \/ job[p].mode = "rollback"
     \/ pc[p] \in {"unwrite", "unkeep", "resave", "end", "unlock"}
OnPorts(p) == pc[p] \in {"preflight", "transaction"} \/ InTransaction(p)

StatusKnown(p) ==
  /\ pc[p] \in {"unwrite", "unkeep"} => job[p].mode = "activate"
  /\ pc[p] \in {"restore", "restate"} => job[p].mode = "rollback"
  /\ pc[p] = "preflight" => job[p].rec.status = "ready"
  /\ pc[p] \in {"transaction", "write"} =>
       \/ job[p].rec.status = "ready"
       \/ job[p].rec.status = "stopped" /\ job[p].op = "remove"
  /\ job[p].mode # "lifecycle" /\ pc[p] \in RuntimeSteps \cup {"save", "restore", "restate"}
       => job[p].rec.status = "ready"
  /\ pc[p] \in {"keep", "unkeep"} => job[p].rec.status = "stopped" /\ job[p].op = "remove"

BoxKnown(p) ==
  OnPorts(p) =>
    /\ job[p].rec.status = "ready" => docker # "absent" /\ (docker = "running" \/ OutageSeen)
    /\ job[p].rec.status = "stopped" => ~Running

Priced(p) ==
  /\ job[p].expired => job[p].mode = "rollback" /\ faults >= 2 /\ Among({"timeout"})
  /\ job[p].bad => job[p].mode = "rollback"
  /\ Failing(p) => faults >= 1

FilesKnown(p) ==
  /\ pc[p] = "write" => Snapped(p)
  /\ job[p].mode = "activate" /\ pc[p] \in RuntimeSteps \cup {"keep", "save"}
       => FilesAre(job[p].cand)
  /\ job[p].mode # "lifecycle" /\ job[p].ok =>
       job[p].mode = "activate" /\ FilesAre(job[p].cand) /\ saved.maps = job[p].cand
  /\ job[p].mode = "rollback" /\ pc[p] # "restore" /\ ~job[p].bad => Snapped(p)
  /\ job[p].mode = "rollback" /\ pc[p] = "resave" => job[p].rec.rtErr
  /\ job[p].mode = "activate" /\ pc[p] = "resave" =>
       Snapped(p) \/ (job[p].rec.rtErr /\ faults >= 2 /\ Among({"write"}))

Reached(p, steps) == pc[p] \in steps \/ job[p].ok
Activated(p) ==
  job[p].mode = "activate" /\ job[p].rec.status = "ready" /\ ~OutageSeen =>
    /\ Reached(p, {"probe", "bridge", "imports", "halt", "save"})
         /\ job[p].cand \cap Imports # {} => relay
    /\ Reached(p, {"imports", "halt", "save"})
         /\ job[p].cand \cap Publications # PublicationsOf(job[p].rec)
         => bridge = job[p].cand \cap Publications
    /\ Reached(p, {"halt", "save"}) /\ job[p].cand \cap Imports # ImportsOf(job[p].rec)
         => proxies = job[p].cand \cap Imports

PortKnown(p) ==
  /\ StatusKnown(p) /\ BoxKnown(p) /\ Priced(p) /\ FilesKnown(p) /\ Activated(p)

PortInv == RecordInv /\ Standing /\ \A p \in Procs : PortKnown(p)

\* Failures are only counted up.
LEMMA FaultsCount ==
  ASSUME LockInv
  PROVE  /\ faults \in Nat
         /\ faults' = faults => (OutageSeen' <=> OutageSeen)
         /\ faults' = faults + 1 => faults' \in Nat /\ (OutageSeen => OutageSeen')
         /\ \A k : Fault(k) => faults' = faults + 1 /\ Among({k})
BY BoxAssumption DEF LockInv, TypeOK, OutageSeen, Among, Fault

LEMMA FaultsGrow ==
  ASSUME LockInv, [Next]_vars
  PROVE  faults' = faults \/ faults' = faults + 1
<1>1. ASSUME NEW p \in Procs, Starts(p) \/ Step(p) \/ Expire(p) \/ Crash(p)
      PROVE  faults' = faults \/ faults' = faults + 1
  BY <1>1 DEF Starts, Begin, Step, Lifecycle, Runtime, Transaction, Sidecar, Crash, Expire,
         LockBox, Load, Unlock, InspectBox, Touch, Render, Decide, Mark, ComposeDown,
         ComposeUp, Verify, Commit, PersistError, Settle, Forget, EnsureRelay, ProbeRelay,
         ApplyBridge, HaltRelay, Write, Unwrite, SaveCandidate, Unkeep, RestoreFiles,
         SaveRolledBack, Resave, EndTransaction, SyncLoopback, ApplyImports,
         Preflight, NoTransaction,
         BeginTransaction, Skip, Finish, Saves, SaveFails, Works, Fails, Fault, Restored,
         HalfRestored
<1> QED
  BY <1>1 DEF Next, DaemonBegin, DaemonApply, Outage, Fault, vars

\* A command that is not in a transaction and about to enter none.
LEMMA PlainPort ==
  ASSUME LockInv', NEW p \in Procs, job'[p].mode = "lifecycle",
         pc'[p] \notin {"preflight", "transaction"},
         ~job'[p].expired, ~job'[p].bad
  PROVE  PortKnown(p)'
<1>1. pc'[p] \notin TransactionSteps
  BY DEF LockInv, ModeKnown
<1> QED
  BY <1>1 DEF PortKnown, StatusKnown, BoxKnown, Priced, FilesKnown, Activated, OnPorts,
              InTransaction, Failing, TransactionSteps

LEMMA PlainLocals ==
  ASSUME PortInv, NEW p \in Procs, job[p].mode = "lifecycle"
  PROVE  ~job[p].expired /\ ~job[p].bad
BY DEF PortInv, PortKnown, Priced

\* The updates of its locals a lifecycle command makes.
LEMMA SameLimits ==
  ASSUME LockInv, NEW p \in Procs, NEW r, NEW b,
         \/ job' = job
         \/ job' = [job EXCEPT ![p].ok = b]
         \/ job' = [job EXCEPT ![p].rec = r]
         \/ job' = [job EXCEPT ![p].changed = b]
         \/ job' = [job EXCEPT ![p].fast = TRUE, ![p].rec.status = r]
  PROVE  /\ job'[p].mode = job[p].mode /\ job'[p].expired = job[p].expired
         /\ job'[p].bad = job[p].bad
BY DEF LockInv, TypeOK, Jobs

\* The lifecycle steps but Load.
LEMMA LifecyclePort ==
  ASSUME PortInv, LockInv', NEW p \in Procs,
         \/ Lifecycle(p) /\ pc[p] # "load"
         \/ SyncLoopback(p) \/ Starts(p) \/ Crash(p)
  PROVE  PortKnown(p)'
<1> USE MoverKnown DEF PortInv, RecordInv
<1>1. CASE Starts(p) \/ Crash(p) \/ Unlock(p)
  <2>1. /\ pc'[p] \in {"idle", "load", "box"} /\ job'[p].mode = "lifecycle"
        /\ ~job'[p].expired /\ ~job'[p].bad
    BY <1>1 DEF Starts, Begin, Crash, Unlock, Goto, NoJob, NewJob
  <2> QED
    BY <2>1, PlainPort
<1>2. CASE ~(Starts(p) \/ Crash(p) \/ Unlock(p))
  <2>1. pc[p] \in PlainSteps
    BY <1>2 DEF Lifecycle, LockBox, Load, InspectBox, Touch, Render, Decide, Mark,
           ComposeDown, ComposeUp, Verify, Commit, PersistError, Settle, Forget,
           SyncLoopback, PlainSteps
  <2>2. ~job[p].expired /\ ~job[p].bad
    BY <2>1, PlainLocals
  <2>3. /\ job'[p].mode = job[p].mode /\ job'[p].expired = job[p].expired
        /\ job'[p].bad = job[p].bad
    BY <1>2, SameLimits
       DEF Lifecycle, LockBox, Load, InspectBox, Touch, Render, Decide, Mark,
           ComposeDown, ComposeUp, Verify, Commit, PersistError, Settle, Forget,
           SyncLoopback, Finish, Keep
  <2>4. pc'[p] \notin {"preflight", "transaction"}
    BY <1>2 DEF Lifecycle, LockBox, Load, InspectBox, Touch, Render, Decide, Mark,
           ComposeDown, ComposeUp, Verify, Commit, PersistError, Settle, Forget,
           SyncLoopback, Finish, Goto
  <2> QED
    BY <2>1, <2>2, <2>3, <2>4, PlainPort
<1> QED
  BY <1>1, <1>2

LEMMA LoadPort ==
  ASSUME PortInv, LockInv', NEW p \in Procs, Load(p)
  PROVE  PortKnown(p)'
<1> USE MoverKnown DEF PortInv, RecordInv
<1>1. job[p].mode = "lifecycle" /\ ~job[p].expired /\ ~job[p].bad /\ ~job[p].ok
  BY PlainLocals DEF Load, PlainSteps, RecordKnown, Knows, Unfinished
<1>2. job'[p].mode = "lifecycle" /\ ~job'[p].expired /\ ~job'[p].bad /\ job'[p].op = job[p].op
  BY <1>1 DEF Load, Jobs
<1>3. CASE pc'[p] \notin {"preflight", "transaction"}
  BY <1>2, <1>3, PlainPort
<1>4. CASE pc'[p] \in {"preflight", "transaction"}
  <2>1. /\ Admits(job[p].op, job[p].arg, Reconciled) /\ job'[p].rec = Reconciled
        /\ pc'[p] = FirstStep[job[p].op] /\ docker' = docker /\ bridge' = bridge
    BY <1>4 DEF Load, Goto, runtime, Jobs
  <2>2. job[p].op \in Ops
    BY DEF Jobs
  <2>3. \/ pc'[p] = "preflight" /\ Reconciled.exists /\ Reconciled.status = "ready"
        \/ /\ pc'[p] = "transaction" /\ Reconciled.exists /\ job[p].op = "remove"
           /\ Reconciled.status \in {"ready", "stopped"}
    BY <1>4, <2>1, <2>2 DEF Admits, FirstStep, Ops, PortOps
  <2>4. /\ Reconciled.exists /\ Reconciled.status = "ready" => docker = "running"
        /\ Reconciled.exists /\ Reconciled.status = "stopped" => ~Running
    BY DEF Reconciled, ReconciledStatus, Present, Running, Reachable, ReadyFor, Records
  <2> QED
    BY <1>2, <1>4, <2>1, <2>3, <2>4
       DEF PortKnown, StatusKnown, BoxKnown, Priced, FilesKnown, Activated, OnPorts,
           InTransaction, Failing, RuntimeSteps, Running, Reachable
<1> QED
  BY <1>3, <1>4

\* The steps before the transaction.
LEMMA BeginPort ==
  ASSUME PortInv, LockInv', NEW p \in Procs,
         Preflight(p) \/ NoTransaction(p) \/ BeginTransaction(p)
  PROVE  PortKnown(p)'
<1> USE MoverKnown DEF PortInv, RecordInv
<1>1. /\ job[p].mode = "lifecycle" /\ ~job[p].expired /\ ~job[p].bad /\ ~job[p].ok
      /\ pc[p] \in {"preflight", "transaction"}
  BY PlainLocals
     DEF Preflight, NoTransaction, BeginTransaction, PlainSteps, RecordKnown, Knows, Unfinished
<1>2. PortKnown(p) /\ UNCHANGED <<docker, bridge, config, override>>
  BY DEF Preflight, NoTransaction, BeginTransaction, runtime, files
<1>3. CASE Preflight(p) \/ NoTransaction(p)
  <2>1. job' = job /\ pc'[p] \in {"transaction", "unlock"}
    BY <1>3 DEF Preflight, NoTransaction, Goto
  <2>2. faults' = faults \/ faults' = faults + 1
    BY <1>3 DEF Preflight, NoTransaction, Works, Fails, Fault
  <2>3. OutageSeen => OutageSeen'
    BY <2>2, FaultsCount
  <2> QED
    BY <1>1, <1>2, <2>1, <2>3
       DEF PortKnown, StatusKnown, BoxKnown, Priced, FilesKnown, Activated, OnPorts,
           InTransaction, Failing, RuntimeSteps, Running, Reachable
<1>4. CASE BeginTransaction(p)
  <2>1. /\ pc[p] = "transaction" /\ pc'[p] = "write" /\ job'[p].mode = "activate"
        /\ job'[p].rec = job[p].rec /\ job'[p].op = job[p].op
        /\ ~job'[p].expired /\ ~job'[p].bad /\ ~job'[p].ok
        /\ job'[p].snapC = config /\ job'[p].snapO = override /\ faults' = faults
    BY <1>1, <1>4 DEF BeginTransaction, Goto, Jobs
  <2>2. OutageSeen' <=> OutageSeen
    BY <2>1, FaultsCount
  <2> QED
    BY <1>2, <2>1, <2>2
       DEF PortKnown, StatusKnown, BoxKnown, Priced, FilesKnown, Activated, OnPorts, Snapped,
           InTransaction, Failing, RuntimeSteps, Running, Reachable, Reached
<1> QED
  BY <1>3, <1>4

-----------------------------------------------------------------------------
\* What the steps of a transaction do, in terms of the locals of its process.

SameTransaction(p) ==
  /\ job'[p].op = job[p].op /\ job'[p].arg = job[p].arg /\ job'[p].cand = job[p].cand
  /\ job'[p].snapC = job[p].snapC /\ job'[p].snapO = job[p].snapO
  /\ job'[p].expired = job[p].expired
Paid(k) == faults' = faults + 1 /\ Among({k})

WriteStep(p) ==
  /\ pc[p] = "write" /\ job'[p] = job[p] /\ saved' = saved
  /\ \/ /\ config' = job[p].cand /\ override' = job[p].cand \cap Publications
        /\ faults' = faults
        /\ pc'[p] = IF job[p].rec.status = "stopped" THEN "keep" ELSE "relay"
     \/ pc'[p] = "unwrite" /\ Paid("write")
UnwriteStep(p) ==
  /\ pc[p] = "unwrite" /\ pc'[p] = "end" /\ job'[p] = job[p] /\ saved' = saved
  /\ \/ config' = job[p].snapC /\ override' = job[p].snapO /\ faults' = faults
     \/ Paid("write")
SaveStep(p) ==
  /\ pc[p] \in {"keep", "save"} /\ SameTransaction(p) /\ job'[p].rec = job[p].rec
  /\ job'[p].bad = job[p].bad /\ UNCHANGED <<config, override>>
  /\ \/ /\ pc'[p] = "end" /\ job'[p].ok /\ job'[p].mode = job[p].mode
        /\ saved'.maps = job[p].cand /\ saved'.rtErr = job[p].rec.rtErr
        /\ saved'.exists = job[p].rec.exists /\ faults' = faults
     \/ /\ ~job'[p].ok
        /\ \/ pc[p] = "keep" /\ pc'[p] = "unkeep" /\ job'[p].mode = job[p].mode
           \/ pc[p] = "save" /\ pc'[p] = "restore" /\ job'[p].mode = "rollback"
        /\ \/ job[p].expired /\ saved' = saved /\ faults' = faults
           \/ Paid("save") /\ saved'.maps \in {saved.maps, job[p].cand}
UnkeepStep(p) ==
  /\ pc[p] = "unkeep" /\ pc'[p] = "resave" /\ SameTransaction(p) /\ saved' = saved
  /\ job'[p].mode = job[p].mode /\ job'[p].ok = job[p].ok /\ job'[p].bad = job[p].bad
  /\ job'[p].rec.maps = job[p].rec.maps
  /\ \/ /\ config' = job[p].snapC /\ override' = job[p].snapO /\ faults' = faults
        /\ job'[p].rec = job[p].rec
     \/ Paid("write") /\ job'[p].rec.rtErr /\ job'[p].rec.status = "error"
RestoreStep(p) ==
  /\ pc[p] = "restore" /\ pc'[p] = "relay" /\ SameTransaction(p) /\ saved' = saved
  /\ job'[p].mode = job[p].mode /\ job'[p].ok = job[p].ok /\ job'[p].rec = job[p].rec
  /\ \/ /\ config' = job[p].snapC /\ override' = job[p].snapO /\ faults' = faults
        /\ job'[p].bad = job[p].bad
     \/ Paid("write") /\ job'[p].bad
RestateStep(p) ==
  /\ pc[p] = "restate" /\ SameTransaction(p) /\ UNCHANGED <<config, override>>
  /\ job'[p].mode = job[p].mode /\ job'[p].ok = job[p].ok /\ job'[p].bad = job[p].bad
  /\ job'[p].rec.maps = job[p].rec.maps
  /\ \/ /\ pc'[p] = "end" /\ job'[p].rec = job[p].rec /\ faults' = faults
        /\ saved'.maps = job[p].rec.maps /\ (job[p].bad => saved'.rtErr)
     \/ /\ pc'[p] = "resave" /\ job'[p].rec.rtErr /\ job'[p].rec.status = "error"
        /\ \/ job[p].expired /\ saved' = saved /\ faults' = faults
           \/ Paid("save") /\ saved'.maps \in {saved.maps, job[p].rec.maps}
ResaveStep(p) ==
  /\ pc[p] = "resave" /\ pc'[p] = "end" /\ job'[p] = job[p]
  /\ UNCHANGED <<config, override>>
  /\ \/ saved' = job[p].rec /\ faults' = faults
     \/ job[p].expired /\ saved' = saved /\ faults' = faults
     \/ Paid("save") /\ saved'.maps \in {saved.maps, job[p].rec.maps}

LEMMA TransactionStep ==
  ASSUME RecordInv, NEW p \in Procs, Transaction(p), pc[p] # "end"
  PROVE  /\ UNCHANGED <<rendered, runtime>>
         /\ \/ WriteStep(p) \/ UnwriteStep(p) \/ SaveStep(p) \/ UnkeepStep(p)
            \/ RestoreStep(p) \/ RestateStep(p) \/ ResaveStep(p)
<1> USE DEF Goto, Keep, Paid, Fault, Among, SameTransaction
<1>1. pc[p] \in TransactionSteps \ {"end"}
  BY DEF Transaction, Write, Unwrite, SaveCandidate, Unkeep, RestoreFiles, SaveRolledBack,
         Resave, EndTransaction, TransactionSteps
<1>2. /\ job[p] \in Jobs /\ job[p].rec \in Records /\ job \in [Procs -> Jobs]
      /\ pc \in [Procs -> Steps] /\ ~job[p].ok
  BY <1>1, InTransactionKnows
<1>3. CASE Write(p)
  BY <1>2, <1>3 DEF Write, Works, WriteStep
<1>4. CASE Unwrite(p)
  BY <1>2, <1>4 DEF Unwrite, Restored, HalfRestored, UnwriteStep
<1>5. CASE SaveCandidate(p)
  <2>1. /\ Candidate(p).maps = job[p].cand /\ Candidate(p).rtErr = job[p].rec.rtErr
        /\ Candidate(p).exists = job[p].rec.exists
    BY <1>2 DEF Candidate, Records
  <2>2. CASE Saves(p, Candidate(p)) /\ job' = [job EXCEPT ![p].ok = TRUE] /\ Goto(p, "end")
    BY <1>2, <1>5, <2>1, <2>2 DEF SaveCandidate, Saves, Works, SaveStep, files, Jobs
  <2>3. CASE /\ SaveFails(p, Candidate(p))
             /\ IF pc[p] = "keep" THEN Keep(p) /\ Goto(p, "unkeep")
                ELSE job' = [job EXCEPT ![p].mode = "rollback"] /\ Goto(p, "restore")
    <3>1. \/ job[p].expired /\ saved' = saved /\ faults' = faults
          \/ Paid("save") /\ saved'.maps \in {saved.maps, job[p].cand}
      BY <2>1, <2>3 DEF SaveFails
    <3> QED
      BY <1>2, <1>5, <2>3, <3>1 DEF SaveCandidate, SaveStep, files, Jobs
  <2> QED
    BY <1>5, <2>2, <2>3 DEF SaveCandidate, files
<1>6. /\ Degraded(job[p].rec).maps = job[p].rec.maps /\ Degraded(job[p].rec).rtErr
      /\ Degraded(job[p].rec).status = "error"
      /\ RolledBack(p).maps = job[p].rec.maps /\ (job[p].bad => RolledBack(p).rtErr)
      /\ Degraded(RolledBack(p)).maps = job[p].rec.maps /\ Degraded(RolledBack(p)).rtErr
      /\ Degraded(RolledBack(p)).status = "error"
  <2>1. Degraded(job[p].rec) \in Records /\ RolledBack(p) \in Records
    BY <1>2, DegradedKnown DEF RolledBack
  <2> QED
    BY <1>2, <2>1, DegradedKnown DEF RolledBack
<1>7. CASE Unkeep(p)
  BY <1>2, <1>6, <1>7 DEF Unkeep, Restored, HalfRestored, UnkeepStep, Jobs
<1>8. CASE RestoreFiles(p)
  BY <1>2, <1>8 DEF RestoreFiles, Restored, HalfRestored, RestoreStep, Jobs
<1>9. CASE SaveRolledBack(p)
  BY <1>2, <1>6, <1>9 DEF SaveRolledBack, Saves, SaveFails, Works, RestateStep, files, Jobs
<1>10. CASE Resave(p)
  <2>1. \/ saved' = job[p].rec /\ faults' = faults
        \/ job[p].expired /\ saved' = saved /\ faults' = faults
        \/ Paid("save") /\ saved'.maps \in {saved.maps, job[p].rec.maps}
    BY <1>10 DEF Resave, Saves, SaveFails, Works
  <2> QED
    BY <1>2, <1>10, <2>1 DEF Resave, ResaveStep, files
<1> QED
  BY <1>1, <1>3, <1>4, <1>5, <1>7, <1>8, <1>9, <1>10 DEF Transaction, EndTransaction

\* A port command knows as much after a step of its transaction.
LEMMA TransactionPort ==
  ASSUME PortInv, LockInv', NEW p \in Procs, Transaction(p), pc[p] # "end"
  PROVE  PortKnown(p)'
<1> USE DEF PortInv
<1>1. /\ pc[p] \in TransactionSteps \ {"end"}
      /\ WriteStep(p) \/ UnwriteStep(p) \/ SaveStep(p) \/ UnkeepStep(p)
           \/ RestoreStep(p) \/ RestateStep(p) \/ ResaveStep(p)
      /\ UNCHANGED <<docker, bridge, relay, proxies, rendered>>
  BY TransactionStep
     DEF runtime, sidecar, WriteStep, UnwriteStep, SaveStep, UnkeepStep, RestoreStep,
         RestateStep, ResaveStep, TransactionSteps
<1>2. /\ job[p].mode \in {"activate", "rollback"} /\ ~job[p].ok /\ InTransaction(p)
      /\ pc[p] \in ActivationSteps => job[p].mode = "activate"
  BY <1>1, MoverKnown, InTransactionKnows DEF RecordInv, Modes
<1>3. StatusKnown(p) /\ BoxKnown(p) /\ Priced(p) /\ FilesKnown(p) /\ Activated(p)
  BY DEF PortKnown
<1>4. /\ faults \in Nat
      /\ \/ faults' = faults
         \/ faults' = faults + 1
      /\ OutageSeen => OutageSeen'
  <2>1. faults' = faults \/ faults' = faults + 1
    BY <1>1 DEF WriteStep, UnwriteStep, SaveStep, UnkeepStep, RestoreStep, RestateStep,
                ResaveStep, Paid
  <2> QED
    BY <2>1, FaultsCount DEF RecordInv
<1>5. /\ job'[p].expired = job[p].expired
      /\ job'[p].rec = job[p].rec \/ job'[p].rec.status = "error"
      /\ job'[p].op = job[p].op
      /\ job'[p].mode = job[p].mode \/ job'[p].mode = "rollback"
      /\ job'[p].bad => job[p].bad \/ job'[p].mode = "rollback"
  BY <1>1, <1>3 DEF WriteStep, UnwriteStep, SaveStep, UnkeepStep, RestoreStep, RestateStep,
              ResaveStep, SameTransaction, StatusKnown
<1>6. BoxKnown(p)'
  BY <1>1, <1>2, <1>3, <1>4, <1>5 DEF BoxKnown, OnPorts, Running, Reachable
<1>7. StatusKnown(p)'
  BY <1>1, <1>2, <1>3
     DEF WriteStep, UnwriteStep, SaveStep, UnkeepStep, RestoreStep, RestateStep,
         ResaveStep, SameTransaction, StatusKnown, RuntimeSteps, ActivationSteps
<1>8. Priced(p)'
  <2>1. Failing(p) \/ job[p].mode = "activate"
    BY <1>2 DEF Failing
  <2>2. CASE Failing(p)
    BY <1>3, <1>4, <1>5, <2>2 DEF Priced
  <2>3. CASE ~Failing(p) /\ job[p].mode = "activate"
    <3>1. ~job[p].expired /\ ~job[p].bad
      BY <1>3, <2>3 DEF Priced
    <3>2. WriteStep(p) \/ SaveStep(p)
      BY <1>1, <1>2, <1>3, <2>3 DEF Failing, UnwriteStep, UnkeepStep, RestoreStep, RestateStep,
                       ResaveStep, StatusKnown
    <3>3. ~job'[p].bad /\ ~job'[p].expired
      BY <3>1, <3>2 DEF WriteStep, SaveStep, SameTransaction
    <3>4. Failing(p)' => faults' = faults + 1
      BY <1>2, <2>3, <3>1, <3>2 DEF WriteStep, SaveStep, Failing, Paid
    <3> QED
      BY <1>4, <3>3, <3>4 DEF Priced
  <2> QED
    BY <2>1, <2>2, <2>3
<1>9. FilesKnown(p)' /\ Activated(p)'
  <2> USE DEF FilesKnown, FilesAre, Snapped, RuntimeSteps
  <2>1. CASE WriteStep(p)
    BY <1>1, <1>2, <1>3, <2>1 DEF WriteStep, Activated, Reached, ActivationSteps
  <2>2. CASE UnwriteStep(p)
    BY <1>1, <1>2, <1>3, <2>2 DEF UnwriteStep, Activated, Reached, StatusKnown
  <2>3. CASE SaveStep(p)
    <3>1. FilesKnown(p)'
      BY <1>1, <1>2, <1>3, <2>3 DEF SaveStep, SameTransaction, ActivationSteps
    <3>2. Activated(p)'
      BY <1>1, <1>2, <1>3, <1>4, <2>3
         DEF SaveStep, SameTransaction, Activated, Reached, ActivationSteps, StatusKnown
    <3> QED
      BY <3>1, <3>2
  <2>4. CASE UnkeepStep(p)
    <3>1. job[p].mode = "activate" /\ faults >= 1
      BY <1>2, <1>3, <2>4 DEF UnkeepStep, StatusKnown, Priced, Failing
    <3> QED
      BY <1>1, <1>2, <1>3, <1>4, <2>4, <3>1
         DEF UnkeepStep, SameTransaction, Activated, Reached, Paid
  <2>5. CASE RestoreStep(p)
    BY <1>1, <1>2, <1>3, <2>5 DEF RestoreStep, SameTransaction, Activated, StatusKnown
  <2>6. CASE RestateStep(p)
    BY <1>1, <1>2, <1>3, <2>6 DEF RestateStep, SameTransaction, Activated, StatusKnown
  <2>7. CASE ResaveStep(p)
    BY <1>1, <1>2, <1>3, <2>7 DEF ResaveStep, Activated, Reached
  <2> QED
    BY <1>1, <2>1, <2>2, <2>3, <2>4, <2>5, <2>6, <2>7
<1> QED
  BY <1>6, <1>7, <1>8, <1>9 DEF PortKnown

LEMMA EndPort ==
  ASSUME PortInv, LockInv', NEW p \in Procs, EndTransaction(p)
  PROVE  PortKnown(p)'
<1> USE MoverKnown DEF PortInv, RecordInv
<1>1. /\ pc[p] = "end" /\ pc'[p] = "unlock" /\ job' = job /\ PortKnown(p)
      /\ UNCHANGED <<saved, files, runtime, faults>> /\ job[p].mode # "lifecycle"
  BY DEF EndTransaction, Goto, TransactionSteps
<1>2. OutageSeen' <=> OutageSeen
  BY <1>1, FaultsCount
<1>3. StatusKnown(p)' /\ BoxKnown(p)' /\ FilesKnown(p)' /\ Activated(p)'
  BY <1>1, <1>2
     DEF PortKnown, StatusKnown, BoxKnown, FilesKnown, Activated, OnPorts, Snapped,
         InTransaction, RuntimeSteps, Reached, runtime, files, FilesAre, sidecar
<1>4. Priced(p)'
  BY <1>1 DEF PortKnown, Priced, Failing
<1> QED
  BY <1>3, <1>4 DEF PortKnown

-----------------------------------------------------------------------------
\* The runtime steps of a transaction.

\* An activation works on what its candidate asks for: only an outage can have
\* taken it away.
LEMMA ActivationAccepted ==
  ASSUME PortInv, NEW p \in Procs, job[p].mode = "activate", pc[p] \in RuntimeSteps
  PROVE  /\ ~job[p].expired /\ ~job[p].bad /\ ~job[p].ok /\ job[p].rec.status = "ready"
         /\ FilesAre(job[p].cand) /\ ComposeAccepts(Target(p))
         /\ ImportsOf(Candidate(p)) = job[p].cand \cap Imports
         /\ PublicationsOf(Candidate(p)) = job[p].cand \cap Publications
         /\ Reachable \/ OutageSeen
         /\ pc[p] # "relay" /\ ImportsOf(Candidate(p)) # {} => relay \/ OutageSeen
<1> USE MoverKnown DEF PortInv, RecordInv
<1>1. StatusKnown(p) /\ BoxKnown(p) /\ Priced(p) /\ FilesKnown(p) /\ Activated(p)
  BY DEF PortKnown
<1>2. Candidate(p).maps = job[p].cand
  BY DEF Candidate, Records
<1>3. ~job[p].ok
  BY DEF RecordKnown, Knows, Unfinished, RuntimeSteps
<1>4. job[p].rec.status = "ready" /\ FilesAre(job[p].cand) /\ ~job[p].expired /\ ~job[p].bad
  BY <1>1 DEF StatusKnown, FilesKnown, Priced
<1>5. docker # "absent" /\ (docker = "running" \/ OutageSeen)
  BY <1>1, <1>4 DEF BoxKnown, OnPorts, InTransaction, RuntimeSteps
<1>6. rendered
  BY <1>5 DEF Standing, Stands, Present
<1>7. ComposeAccepts(Target(p))
  BY <1>2, <1>4, <1>6 DEF ComposeAccepts, Target, PublicationsOf, FilesAre
<1>8. pc[p] # "relay" /\ job[p].cand \cap Imports # {} => relay \/ OutageSeen
  BY <1>1, <1>4 DEF Activated, Reached, RuntimeSteps
<1> QED
  BY <1>2, <1>3, <1>4, <1>5, <1>7, <1>8 DEF ImportsOf, PublicationsOf, Reachable

\* What a runtime step of a transaction leaves alone, and that an activation
\* which does not go on has failed.
LEMMA RuntimeCosts ==
  ASSUME PortInv, NEW p \in Procs, job[p].mode # "lifecycle",
         Runtime(p) \/ ApplyImports(p)
  PROVE  /\ pc[p] \in RuntimeSteps
         /\ Proceeds(p, pc[p]) \/ FallsBack(p, pc[p])
         /\ UNCHANGED <<saved, rendered, config, override, docker, daemon>>
         /\ \/ faults' = faults
            \/ faults' = faults + 1
         /\ job[p].mode = "activate" =>
              \/ Proceeds(p, pc[p])
              \/ FallsBack(p, pc[p]) /\ faults' >= 1
<1> USE MoverKnown DEF PortInv, RecordInv
<1>1. PICK step \in RuntimeSteps :
        pc[p] = step /\ (Proceed(p, step) \/ Fallback(p, step))
  BY DEF Runtime, EnsureRelay, ProbeRelay, ApplyBridge, HaltRelay, ApplyImports,
         Skip, RuntimeSteps
<1>2. /\ Proceed(p, step) => Proceeds(p, step)
      /\ Fallback(p, step) => FallsBack(p, step)
  BY RuntimeStep
<1>3. /\ UNCHANGED <<saved, rendered, config, override, docker, daemon>>
      /\ \/ faults' = faults
         \/ faults' = faults + 1
  BY DEF Runtime, EnsureRelay, ProbeRelay, ApplyBridge, HaltRelay, ApplyImports,
         Skip, files, Works, Fails, Fault
<1>4. ASSUME job[p].mode = "activate", ~Proceed(p, step)
      PROVE  faults' >= 1
  <2>1. /\ ~job[p].expired /\ ComposeAccepts(Target(p)) /\ (Reachable \/ OutageSeen)
        /\ pc[p] # "relay" /\ ImportsOf(Candidate(p)) # {} => relay \/ OutageSeen
    BY <1>1, <1>4, ActivationAccepted
  <2>2. faults' = faults + 1 \/ OutageSeen
    <3>1. CASE EnsureRelay(p)
      BY <1>1, <1>4, <2>1, <3>1 DEF EnsureRelay, Skip, Fails, Fault
    <3>2. CASE ProbeRelay(p)
      BY <1>1, <1>4, <2>1, <3>2 DEF ProbeRelay, Skip, Fails, Fault, Needed, NeededByActivation
    <3>3. CASE ApplyBridge(p)
      BY <1>1, <1>4, <2>1, <3>3 DEF ApplyBridge, Skip, Fails, Fault
    <3>4. CASE HaltRelay(p)
      BY <1>1, <1>4, <2>1, <3>4 DEF HaltRelay, Skip, Fails, Fault
    <3>5. CASE ApplyImports(p)
      BY <1>1, <1>4, <2>1, <3>5 DEF ApplyImports, Skip, Fails, Fault
    <3> QED
      BY <3>1, <3>2, <3>3, <3>4, <3>5 DEF Runtime
  <2>3. faults \in Nat
    BY FaultsCount
  <2> QED
    BY <1>3, <2>2, <2>3 DEF OutageSeen
<1> QED
  BY <1>1, <1>2, <1>3, <1>4

\* What an activation finds done when it goes on from a runtime step.
LEMMA ActivationStep ==
  ASSUME PortInv, NEW p \in Procs, job[p].mode = "activate",
         Runtime(p) \/ ApplyImports(p), Proceeds(p, pc[p])
  PROVE  /\ pc[p] = "relay" /\ job[p].cand \cap Imports # {} => relay'
         /\ pc[p] # "relay" /\ job[p].cand \cap Imports # {} => relay' = relay
         /\ pc[p] = "bridge" /\ job[p].cand \cap Publications # PublicationsOf(job[p].rec)
              => bridge' = job[p].cand \cap Publications
         /\ pc[p] # "bridge" => bridge' = bridge
         /\ pc[p] = "imports" /\ job[p].cand \cap Imports # ImportsOf(job[p].rec)
              => proxies' = job[p].cand \cap Imports
         /\ pc[p] # "imports" => proxies' = proxies
<1>1. pc[p] \in RuntimeSteps
  BY RuntimeCosts
<1>2. /\ FilesAre(job[p].cand)
      /\ ImportsOf(Candidate(p)) = job[p].cand \cap Imports
      /\ PublicationsOf(Candidate(p)) = job[p].cand \cap Publications
      /\ Target(p) = Candidate(p)
  BY <1>1, ActivationAccepted DEF Target
<1>3. job'[p].mode = "activate"
  BY DEF Proceeds
<1>4. \A step \in RuntimeSteps : ~Fallback(p, step)
  BY <1>3, MoverKnown DEF Fallback, PortInv, RecordInv, Jobs
<1> USE <1>1, <1>2, <1>4 DEF RuntimeSteps, Needed, NeededByActivation, Skip
<1>5. CASE EnsureRelay(p)
  BY <1>5 DEF EnsureRelay
<1>6. CASE ProbeRelay(p)
  BY <1>6 DEF ProbeRelay
<1>7. CASE ApplyBridge(p)
  <2>1. pc[p] = "bridge" /\ proxies' = proxies /\ relay' = relay
    BY <1>7 DEF ApplyBridge
  <2>2. Needed(p, "bridge") => bridge' = job[p].cand \cap Publications
    BY <1>7 DEF ApplyBridge, Bridged, FilesAre
  <2> QED
    BY <2>1, <2>2
<1>8. CASE HaltRelay(p)
  BY <1>8 DEF HaltRelay
<1>9. CASE ApplyImports(p)
  <2>1. pc[p] = "imports" /\ bridge' = bridge /\ relay' = relay
    BY <1>9 DEF ApplyImports
  <2>2. Needed(p, "imports") => proxies' = job[p].cand \cap Imports
    BY <1>9 DEF ApplyImports, FilesAre
  <2> QED
    BY <2>1, <2>2
<1> QED
  BY <1>5, <1>6, <1>7, <1>8, <1>9 DEF Runtime

LEMMA RuntimePort ==
  ASSUME PortInv, LockInv', NEW p \in Procs, Runtime(p) \/ ApplyImports(p)
  PROVE  PortKnown(p)'
<1> USE MoverKnown DEF PortInv, RecordInv
<1>0. pc[p] \in RuntimeSteps
  BY DEF Runtime, EnsureRelay, ProbeRelay, ApplyBridge, HaltRelay, ApplyImports, RuntimeSteps
<1>1. CASE job[p].mode = "lifecycle"
  <2>1. Proceeds(p, pc[p]) \/ FallsBack(p, pc[p])
    <3>1. Proceed(p, pc[p]) \/ Fallback(p, pc[p])
      BY DEF Runtime, EnsureRelay, ProbeRelay, ApplyBridge, HaltRelay, ApplyImports, Skip
    <3> QED
      BY <1>0, <3>1, RuntimeStep
  <2>2. job'[p] = job[p] /\ pc'[p] \in {AfterStep(p, pc[p]), "error"}
    BY <1>1, <2>1 DEF Proceeds, FallsBack
  <2>3. pc'[p] \notin {"preflight", "transaction"}
    BY <1>0, <1>1, <2>2, NextStep DEF RuntimeSteps
  <2> QED
    BY <1>1, <2>2, <2>3, PlainLocals, PlainPort
<1>2. CASE job[p].mode # "lifecycle"
  <2>1. /\ Proceeds(p, pc[p]) \/ FallsBack(p, pc[p])
        /\ UNCHANGED <<saved, rendered, config, override, docker, daemon>>
        /\ \/ faults' = faults
           \/ faults' = faults + 1
        /\ job[p].mode = "activate" =>
             \/ Proceeds(p, pc[p])
             \/ FallsBack(p, pc[p]) /\ faults' >= 1
    BY <1>2, RuntimeCosts
  <2>2. faults \in Nat /\ (OutageSeen => OutageSeen')
    BY <2>1, FaultsCount
  <2>3. /\ StatusKnown(p) /\ BoxKnown(p) /\ Priced(p) /\ FilesKnown(p) /\ Activated(p)
        /\ ~job[p].ok /\ job[p].rec.status = "ready"
    BY <1>0, <1>2 DEF PortKnown, StatusKnown, RecordKnown, Knows, Unfinished, RuntimeSteps
  <2>4. docker # "absent" /\ (docker = "running" \/ OutageSeen)
    BY <1>0, <1>2, <2>3 DEF BoxKnown, OnPorts, InTransaction, RuntimeSteps
  <2>5. BoxKnown(p)'
    BY <2>1, <2>2, <2>3, <2>4 DEF BoxKnown, Proceeds, FallsBack, SameRequest
  <2>6. CASE job[p].mode = "activate" /\ Proceeds(p, pc[p])
    <3>1. /\ job'[p] = job[p] /\ FilesAre(job[p].cand) /\ ~job[p].expired /\ ~job[p].bad
          /\ pc'[p] = AfterStep(p, pc[p])
      BY <1>0, <2>6, ActivationAccepted DEF Proceeds
    <3>2. /\ pc[p] = "relay" => pc'[p] = "probe"
          /\ pc[p] = "probe" => pc'[p] = "bridge"
          /\ pc[p] = "bridge" => pc'[p] = "imports"
          /\ pc[p] = "imports" => pc'[p] = "halt"
          /\ pc[p] = "halt" => pc'[p] = "save"
          /\ pc'[p] \in {"probe", "bridge", "imports", "halt", "save"}
      BY <1>0, <2>6, <3>1, NextStep DEF RuntimeSteps
    <3>3. Activated(p)'
      <4>1. SUFFICES ASSUME ~OutageSeen'
                     PROVE  Activated(p)'
        BY DEF Activated
      <4>2. /\ Reached(p, {"probe", "bridge", "imports", "halt", "save"})
                 /\ job[p].cand \cap Imports # {} => relay
            /\ Reached(p, {"imports", "halt", "save"})
                 /\ job[p].cand \cap Publications # PublicationsOf(job[p].rec)
                 => bridge = job[p].cand \cap Publications
            /\ Reached(p, {"halt", "save"}) /\ job[p].cand \cap Imports # ImportsOf(job[p].rec)
                 => proxies = job[p].cand \cap Imports
        BY <2>2, <2>3, <2>6, <4>1 DEF Activated
      <4>3. (job'[p].cand \cap Imports # {} => relay')
        BY <1>0, <2>6, <3>1, <4>2, ActivationStep DEF Reached, RuntimeSteps
      <4>4. pc'[p] \in {"imports", "halt", "save"}
              /\ job'[p].cand \cap Publications # PublicationsOf(job[p].rec)
              => bridge' = job'[p].cand \cap Publications
        BY <1>0, <2>6, <3>1, <3>2, <4>2, ActivationStep DEF Reached, RuntimeSteps
      <4>5. pc'[p] \in {"halt", "save"} /\ job'[p].cand \cap Imports # ImportsOf(job[p].rec)
              => proxies' = job'[p].cand \cap Imports
        BY <1>0, <2>6, <3>1, <3>2, <4>2, ActivationStep DEF Reached, RuntimeSteps
      <4> QED
        BY <2>3, <3>1, <4>3, <4>4, <4>5 DEF Activated, Reached, PublicationsOf, ImportsOf
    <3>4. StatusKnown(p)'
      BY <2>3, <3>1, <3>2 DEF StatusKnown, RuntimeSteps
    <3>5. Priced(p)'
      BY <2>3, <2>6, <3>1, <3>2 DEF Priced, Failing
    <3>6. FilesKnown(p)'
      BY <2>1, <2>3, <2>6, <3>1, <3>2 DEF FilesKnown, FilesAre, RuntimeSteps
    <3> QED
      BY <2>5, <3>3, <3>4, <3>5, <3>6 DEF PortKnown
  <2>7. CASE job[p].mode = "activate" /\ ~Proceeds(p, pc[p])
    <3>1. /\ SameRequest(p) /\ job'[p].mode = "rollback" /\ job'[p].bad = job[p].bad
          /\ pc'[p] = "restore" /\ faults' >= 1
      BY <2>1, <2>7 DEF FallsBack
    <3>2. ~job[p].expired /\ ~job[p].bad
      BY <1>0, <2>7, ActivationAccepted
    <3> QED
      BY <2>3, <2>5, <3>1, <3>2
         DEF PortKnown, StatusKnown, Priced, FilesKnown, Activated, Failing, SameRequest,
             RuntimeSteps
  <2>8. CASE job[p].mode = "rollback"
    <3>1. /\ SameRequest(p) /\ job'[p].mode = "rollback" /\ (job[p].bad => job'[p].bad)
          /\ pc'[p] \in {"bridge", "imports", "halt", "restate"}
      BY <1>0, <2>1, <2>8, NextStep DEF Proceeds, FallsBack, SameRequest, RuntimeSteps
    <3>2. faults' >= faults
      BY <2>1, <2>2
    <3>3. Priced(p)'
      <4>1. faults >= 1 /\ faults' \in Nat
        BY <2>1, <2>2, <2>3, <2>8 DEF Priced, Failing
      <4>2. job[p].expired => faults' >= 2 /\ Among({"timeout"})
        BY <2>2, <2>3, <3>2, <4>1 DEF Priced
      <4> QED
        BY <2>2, <3>1, <3>2, <4>1, <4>2 DEF Priced, SameRequest
    <3>4. StatusKnown(p)' /\ FilesKnown(p)' /\ Activated(p)'
      BY <1>0, <2>1, <2>3, <2>8, <3>1
         DEF StatusKnown, FilesKnown, Activated, SameRequest, RuntimeSteps, Snapped
    <3> QED
      BY <2>5, <3>3, <3>4 DEF PortKnown
  <2> QED
    BY <1>2, <2>6, <2>7, <2>8 DEF Modes
<1> QED
  BY <1>1, <1>2

-----------------------------------------------------------------------------
\* Every step.

\* The deadline of a rollback: it fails for its first fault, and this is its
\* second.
LEMMA ExpirePort ==
  ASSUME PortInv, LockInv', NEW p \in Procs, Expire(p)
  PROVE  \A q \in Procs : PortKnown(q)'
<1> USE MoverKnown DEF PortInv, RecordInv
<1>1. ASSUME NEW q \in Procs
      PROVE  /\ job'[q].op = job[q].op /\ job'[q].mode = job[q].mode
             /\ job'[q].rec = job[q].rec /\ job'[q].ok = job[q].ok
             /\ job'[q].cand = job[q].cand /\ job'[q].bad = job[q].bad
             /\ job'[q].snapC = job[q].snapC /\ job'[q].snapO = job[q].snapO
             /\ q # p => job'[q].expired = job[q].expired
  BY DEF Expire, Jobs
<1>2. /\ pc' = pc /\ faults' = faults + 1 /\ faults \in Nat /\ Among({"timeout"})
      /\ UNCHANGED <<saved, rendered, config, override, docker, bridge, relay, proxies>>
  BY FaultsCount DEF Expire, runtime, sidecar, files, Fault, Among
<1>3. OutageSeen => OutageSeen'
  BY <1>2, FaultsCount
<1>4. ASSUME NEW q \in Procs PROVE PortKnown(q)'
  <2>1. StatusKnown(q) /\ BoxKnown(q) /\ Priced(q) /\ FilesKnown(q) /\ Activated(q)
    BY DEF PortKnown
  <2>2. Failing(p) /\ job[p].mode = "rollback" /\ faults >= 1
    <3>1. job[p].mode = "rollback" /\ ~job[p].ok
      BY DEF Expire, PortKnown, FilesKnown
    <3> QED
      BY <3>1 DEF PortKnown, Failing, Priced
  <2>3. Priced(q)'
    <3>1. faults' >= 2 /\ faults' >= faults
      BY <1>2, <2>2
    <3>2. Failing(q)' <=> Failing(q)
      BY <1>1, <1>2 DEF Failing
    <3> QED
      BY <1>1, <1>2, <2>1, <2>2, <3>1, <3>2 DEF Priced
  <2>4. BoxKnown(q)'
    BY <1>1, <1>2, <1>3, <2>1 DEF BoxKnown, OnPorts, InTransaction, Running, Reachable
  <2>5. StatusKnown(q)' /\ Activated(q)'
    BY <1>1, <1>2, <1>3, <2>1 DEF StatusKnown, Activated, Reached
  <2>6. FilesKnown(q)'
    <3>1. faults' >= faults
      BY <1>2
    <3> QED
      BY <1>1, <1>2, <2>1, <3>1 DEF FilesKnown, FilesAre, Snapped
  <2> QED
    BY <2>3, <2>4, <2>5, <2>6 DEF PortKnown
<1> QED
  BY <1>4

LEMMA SilentPort ==
  ASSUME PortInv, LockInv', DaemonBegin \/ DaemonApply \/ Outage \/ UNCHANGED vars,
         NEW p \in Procs
  PROVE  PortKnown(p)'
<1> USE DEF PortInv, RecordInv
<1>1. /\ pc' = pc /\ job' = job /\ UNCHANGED <<saved, config, override>>
      /\ \/ faults' = faults
         \/ faults' = faults + 1
  BY DEF DaemonBegin, DaemonApply, Outage, vars, files, Fault
<1>2. faults \in Nat /\ (OutageSeen => OutageSeen')
  BY <1>1, FaultsCount
<1>3. StatusKnown(p) /\ BoxKnown(p) /\ Priced(p) /\ FilesKnown(p) /\ Activated(p)
  BY DEF PortKnown
<1>4. faults' >= faults
  BY <1>1, <1>2
<1>5. StatusKnown(p)' /\ FilesKnown(p)'
  BY <1>1, <1>2, <1>3, <1>4 DEF StatusKnown, FilesKnown, FilesAre, Snapped
<1>6. Priced(p)'
  <2>1. Failing(p)' <=> Failing(p)
    BY <1>1 DEF Failing
  <2> QED
    BY <1>1, <1>2, <1>3, <1>4, <2>1 DEF Priced
<1>7. CASE ~Outage
  <2>1. UNCHANGED <<docker, bridge, relay>>
    BY <1>7 DEF DaemonBegin, DaemonApply, vars, runtime
  <2>2. BoxKnown(p)'
    BY <1>1, <1>2, <1>3, <2>1 DEF BoxKnown, OnPorts, InTransaction, Running, Reachable
  <2>3. CASE ~DaemonApply
    <3>1. proxies' = proxies
      BY <1>7, <2>3 DEF DaemonBegin, vars, runtime, sidecar
    <3> QED
      BY <1>1, <1>2, <1>3, <1>5, <1>6, <2>1, <2>2, <3>1 DEF PortKnown, Activated, Reached
  <2>4. CASE DaemonApply
    <3>1. ~InTransaction(p)
      BY <2>4, BoxAssumption DEF DaemonApply, LockInv, LocksHeld
    <3>2. /\ proxies' = config \cap Imports \/ proxies' = proxies
          /\ job[p].ok /\ job[p].mode # "lifecycle" => config = job[p].cand
      BY <1>3, <2>4 DEF DaemonApply, FilesKnown, FilesAre
    <3>3. Activated(p)'
      BY <1>1, <1>2, <1>3, <2>1, <3>1, <3>2 DEF Activated, Reached, InTransaction
    <3> QED
      BY <1>5, <1>6, <2>2, <3>3 DEF PortKnown
  <2> QED
    BY <2>3, <2>4
<1>8. CASE Outage
  <2>1. OutageSeen'
    <3>1. faults' = faults + 1 /\ Among({"outage"})
      BY <1>8, FaultsCount DEF Outage
    <3>2. faults' >= 1
      BY <1>2, <3>1
    <3> QED
      BY <3>1, <3>2 DEF OutageSeen, Among
  <2>2. /\ docker' = docker \/ (Reachable /\ docker' \in {"stopped", "unhealthy"})
        /\ bridge' = bridge \/ Reachable
    BY <1>8 DEF Outage
  <2>3. BoxKnown(p)'
    BY <1>1, <1>3, <2>1, <2>2 DEF BoxKnown, OnPorts, InTransaction, Running, Reachable
  <2> QED
    BY <1>5, <1>6, <2>1, <2>3 DEF PortKnown, Activated
<1> QED
  BY <1>7, <1>8

LEMMA OthersPort ==
  ASSUME PortInv, LockInv', NEW p \in Procs, Starts(p) \/ Step(p) \/ Crash(p)
  PROVE  \A q \in Procs \ {p} : PortKnown(q)'
<1>1. ASSUME NEW q \in Procs \ {p} PROVE PortKnown(q)'
  <2>1. pc'[q] = "idle" /\ job'[q] = job[q] /\ pc[q] = "idle"
    BY OthersStay, OneMoves DEF PortInv, RecordInv
  <2>2. job[q].mode = "lifecycle"
    BY <2>1 DEF PortInv, RecordInv, LockInv, ModeKnown, PlainSteps
  <2> QED
    BY <2>1, <2>2, PlainLocals, PlainPort
<1> QED
  BY <1>1

LEMMA NextPort ==
  ASSUME PortInv, [Next]_vars
  PROVE  PortInv'
<1>1. RecordInv' /\ Standing' /\ LockInv'
  BY NextKnows, NextStands DEF PortInv, RecordInv
<1>2. ASSUME NEW p \in Procs, Starts(p) \/ Step(p) \/ Crash(p)
      PROVE  PortKnown(p)'
  <2>1. pc[p] = "end" /\ Transaction(p) => EndTransaction(p)
    BY DEF Transaction, Write, Unwrite, SaveCandidate, Unkeep, RestoreFiles, SaveRolledBack,
           Resave
  <2>2. Lifecycle(p) /\ pc[p] = "load" => Load(p)
    BY DEF Lifecycle, LockBox, Load, InspectBox, Touch, Render, Decide, Mark,
           ComposeDown, ComposeUp, Verify, Commit, PersistError, Settle, Forget, Unlock
  <2> QED
    BY <1>1, <1>2, <2>1, <2>2, LifecyclePort, LoadPort, BeginPort, RuntimePort,
       TransactionPort, EndPort
       DEF Step, Sidecar
<1>3. ASSUME NEW p \in Procs, Starts(p) \/ Step(p) \/ Crash(p)
      PROVE  \A q \in Procs : PortKnown(q)'
  BY <1>1, <1>2, <1>3, OthersPort
<1>4. \A q \in Procs : PortKnown(q)'
  BY <1>1, <1>3, ExpirePort, SilentPort DEF Next
<1> QED
  BY <1>1, <1>4 DEF PortInv

LEMMA InitPort ==
  ASSUME Init
  PROVE  PortInv
<1>1. RecordInv
  BY InitKnows
<1>2. Standing
  BY DEF Init, Standing, Stands, Position, Present
<1>3. ASSUME NEW p \in Procs PROVE PortKnown(p)
  <2>1. pc[p] = "idle" /\ job[p] = NoJob
    BY DEF Init
  <2> QED
    BY <2>1 DEF PortKnown, StatusKnown, BoxKnown, Priced, FilesKnown, Activated, OnPorts,
              InTransaction, Failing, NoJob, NewJob
<1> QED
  BY <1>1, <1>2, <1>3 DEF PortInv

-----------------------------------------------------------------------------
(***************************************************************************)
(* The box implements PortLedger, whatever fails, is killed or times out.  *)
(* Whole, above, says what a step does to the desired mappings, StickyInv  *)
(* when a degradation may go.  Admitted adds what a command still knows of *)
(* its request: it has been admitted against the record, and a candidate   *)
(* that adds mappings has only been saved for a box that is not degraded.  *)
(* Every step is then a request, its answer, a degradation or a stutter.   *)
(***************************************************************************)

Lifting == {"render", "decide", "relay", "up", "verify", "bridge", "probe",
            "imports", "commit"}
Admitted(p) ==
  /\ OnPorts(p) => /\ job[p].op \in PortOps
                   /\ job[p].op = "remove" => job[p].arg \subseteq job[p].rec.maps
                   /\ job[p].op # "remove" => job[p].arg \cap job[p].rec.maps = {}
  /\ Undecided(p) /\ job[p].op # "remove" /\ saved.maps # job[p].rec.maps => ~saved.rtErr
  /\ job[p].mode = "lifecycle" /\ pc[p] \in Lifting => job[p].op \in {"ensure", "restart"}
  /\ pc[p] = "forget" => job[p].op = "destroy"

LedgerInv == StickyInv /\ PortInv /\ \A p \in Procs : Admitted(p)

\* A lifecycle step that reaches none of these phases.
LEMMA PlainAdmitted ==
  ASSUME NEW p \in Procs, job'[p].mode = "lifecycle",
         pc'[p] \notin Lifting \cup {"forget", "preflight", "transaction"}
  PROVE  Admitted(p)'
BY DEF Admitted, OnPorts, Undecided, InTransaction

\* The steps that enter no transaction and take no step of one.
LEMMA StepPlain ==
  ASSUME RecordInv, [Next]_vars, NEW p \in Procs,
         \/ Starts(p) \/ Lifecycle(p) \/ SyncLoopback(p) \/ Preflight(p)
         \/ NoTransaction(p) \/ Crash(p)
         \/ ((Runtime(p) \/ ApplyImports(p)) /\ job[p].mode = "lifecycle")
  PROVE  job'[p].mode = "lifecycle"
<1> USE DEF RecordInv
<1>1. LockInv' /\ LockInv
  BY NextLocks
<1>2. pc'[p] \in PlainSteps \/ job'[p].mode = job[p].mode
  <2>1. CASE Starts(p) \/ Crash(p) \/ Unlock(p)
    BY <2>1 DEF Starts, Begin, Crash, Unlock, Goto, PlainSteps, LockInv, TypeOK
  <2>2. CASE Load(p)
    BY <2>2, MoverKnown DEF Load, Jobs
  <2>3. CASE /\ Lifecycle(p) \/ SyncLoopback(p) \/ Preflight(p) \/ NoTransaction(p)
             /\ ~Load(p) /\ ~Unlock(p)
    BY <2>3, SameLimits
       DEF Lifecycle, LockBox, InspectBox, Touch, Render, Decide,
         Mark, ComposeDown, ComposeUp, Verify, Commit, PersistError, Settle, Forget,
         SyncLoopback, Preflight, NoTransaction, Finish, Keep
  <2>4. CASE (Runtime(p) \/ ApplyImports(p)) /\ job[p].mode = "lifecycle"
    BY <2>4, MoverKnown
       DEF Runtime, EnsureRelay, ProbeRelay, ApplyBridge,
         HaltRelay, ApplyImports, Skip, Keep, Fallback, Proceed
  <2> QED
    BY <2>1, <2>2, <2>3, <2>4
<1>3. pc[p] \in PlainSteps \/ pc'[p] \in PlainSteps \/ job[p].mode = "lifecycle"
  BY DEF Starts, Begin, Lifecycle, LockBox, Load, InspectBox, Touch, Render, Decide,
       Mark, ComposeDown, ComposeUp, Verify, Commit, PersistError, Settle, Unlock, Forget,
       SyncLoopback, Preflight, NoTransaction, Crash, Goto, PlainSteps, LockInv, TypeOK
<1> QED
  BY <1>1, <1>2, <1>3, MoverKnown DEF LockInv, ModeKnown

\* The commands that are refused at the door, or let in.
LEMMA LoadAdmitted ==
  ASSUME LedgerInv, NEW p \in Procs, Load(p)
  PROVE  Admitted(p)'
<1> USE MoverKnown DEF LedgerInv, PortInv, RecordInv
<1>1. job'[p].mode = "lifecycle" /\ job'[p].op = job[p].op /\ job'[p].arg = job[p].arg
  BY DEF Load, PlainSteps, Jobs
<1>2. CASE pc'[p] = "unlock"
  BY <1>1, <1>2, PlainAdmitted DEF Lifting
<1>3. CASE pc'[p] # "unlock"
  <2>1. /\ Admits(job[p].op, job[p].arg, Reconciled) /\ job'[p].rec = Reconciled
        /\ pc'[p] = FirstStep[job[p].op]
    BY <1>3 DEF Load, Goto, Jobs
  <2>2. job[p].op \in Ops
    BY DEF Jobs
  <2>3. \/ pc'[p] \notin Lifting \cup {"forget", "preflight", "transaction"}
        \/ pc'[p] = "render" /\ job[p].op = "ensure"
        \/ /\ pc'[p] \in {"preflight", "transaction"} /\ job[p].op \in PortOps
           /\ job[p].op = "remove" => job[p].arg \subseteq Reconciled.maps
           /\ job[p].op # "remove" => job[p].arg \cap Reconciled.maps = {}
    <3>1. CASE job[p].op \in PortOps
      BY <2>1, <3>1 DEF Admits, FirstStep, PortOps
    <3>2. CASE job[p].op \notin PortOps
      BY <2>1, <2>2, <3>2 DEF FirstStep, Ops, PortOps, Lifting
    <3> QED
      BY <3>1, <3>2
  <2>4. CASE pc'[p] \notin Lifting \cup {"forget", "preflight", "transaction"}
    BY <1>1, <2>4, PlainAdmitted
  <2>5. CASE pc'[p] \in Lifting \cup {"forget", "preflight", "transaction"}
    BY <1>1, <2>1, <2>3, <2>5 DEF Admitted, OnPorts, Undecided, InTransaction, Lifting
  <2> QED
    BY <2>4, <2>5
<1> QED
  BY <1>2, <1>3

\* up and restart keep their command until they commit; destroy alone forgets.
LEMMA LifecycleAdmitted ==
  ASSUME LedgerInv, [Next]_vars, NEW p \in Procs,
         \/ Lifecycle(p) /\ pc[p] # "load"
         \/ Starts(p) \/ SyncLoopback(p) \/ Crash(p)
  PROVE  Admitted(p)'
<1> USE MoverKnown DEF LedgerInv, PortInv, RecordInv
<1>1. job'[p].mode = "lifecycle"
  BY StepPlain
<1>2. CASE Starts(p) \/ Crash(p) \/ Unlock(p) \/ SyncLoopback(p) \/ LockBox(p)
  BY <1>1, <1>2, PlainAdmitted
     DEF Starts, Begin, Crash, Unlock, SyncLoopback, LockBox, Goto, Lifting
<1>3. CASE ~(Starts(p) \/ Crash(p) \/ Unlock(p) \/ SyncLoopback(p) \/ LockBox(p))
  <2>1. pc[p] \in PlainSteps /\ job[p].mode = "lifecycle"
    BY <1>3 DEF Lifecycle, Load, InspectBox, Touch, Render, Decide, Mark, ComposeDown,
                ComposeUp, Verify, Commit, PersistError, Settle, Forget, PlainSteps
  <2>2. job'[p].op = job[p].op
    BY <1>3, KeptLocals, ChangedLocals
       DEF SameLocals, Lifecycle, Load, InspectBox, Touch, Render, Decide, Mark, ComposeDown,
           ComposeUp, Verify, Commit, PersistError, Settle, Forget, Finish, Keep
  <2>3. \/ pc'[p] \notin Lifting \cup {"forget", "preflight", "transaction"}
        \/ pc[p] \in Lifting /\ pc'[p] \in Lifting
        \/ pc[p] \in {"mark", "down"} /\ job[p].op = "restart" /\ pc'[p] \in Lifting
        \/ pc[p] = "settle" /\ job[p].op = "destroy" /\ pc'[p] = "forget"
    <3>1. CASE Decide(p)
      BY <3>1 DEF Decide, Goto, Lifting
    <3>2. CASE Mark(p)
      BY <3>2 DEF Mark, Goto, Lifting
    <3>3. CASE Render(p) \/ ComposeDown(p) \/ ComposeUp(p) \/ Verify(p)
      BY <3>3 DEF Render, ComposeDown, ComposeUp, Verify, Goto, Lifting
    <3>4. CASE Settle(p)
      BY <3>4 DEF Settle, Finish, Goto, Lifting
    <3>5. CASE InspectBox(p) \/ Touch(p) \/ Commit(p) \/ PersistError(p) \/ Forget(p)
      BY <3>5 DEF InspectBox, Touch, Commit, PersistError, Forget, Finish, Goto, Lifting
    <3> QED
      BY <1>3, <3>1, <3>2, <3>3, <3>4, <3>5 DEF Lifecycle, Load
  <2>4. pc'[p] # "forget" \/ pc'[p] \notin Lifting
    BY DEF Lifting
  <2> QED
    BY <1>1, <2>1, <2>2, <2>3, <2>4, PlainAdmitted
       DEF Admitted, OnPorts, Undecided, InTransaction, Lifting
<1> QED
  BY <1>2, <1>3

LEMMA BeginAdmitted ==
  ASSUME LedgerInv, NEW p \in Procs,
         Preflight(p) \/ NoTransaction(p) \/ BeginTransaction(p)
  PROVE  Admitted(p)'
<1> USE MoverKnown DEF LedgerInv, PortInv, RecordInv
<1>1. Admitted(p) /\ OnPorts(p)
  BY DEF Preflight, NoTransaction, BeginTransaction, OnPorts
<1>2. /\ job'[p].op = job[p].op /\ job'[p].arg = job[p].arg /\ job'[p].rec = job[p].rec
      /\ pc'[p] \in {"transaction", "unlock", "write"}
      /\ pc'[p] \in {"transaction", "unlock"} => job'[p].mode = "lifecycle"
      /\ pc'[p] = "write" => job'[p].mode = "activate"
  BY DEF Preflight, NoTransaction, BeginTransaction, Goto, PlainSteps, Jobs
<1> QED
  BY <1>1, <1>2 DEF Admitted, OnPorts, Undecided, InTransaction, Lifting

LEMMA RuntimeAdmitted ==
  ASSUME LedgerInv, NEW p \in Procs, Runtime(p) \/ ApplyImports(p)
  PROVE  Admitted(p)'
<1> USE MoverKnown DEF LedgerInv, PortInv, RecordInv
<1>1. PICK step \in RuntimeSteps :
        pc[p] = step /\ (Proceeds(p, step) \/ FallsBack(p, step))
  <2>1. \E step \in RuntimeSteps :
          pc[p] = step /\ (Proceed(p, step) \/ Fallback(p, step))
    BY DEF Runtime, EnsureRelay, ProbeRelay, ApplyBridge, HaltRelay, ApplyImports,
           Skip, RuntimeSteps
  <2> QED
    BY <2>1, RuntimeStep
<1>2. Admitted(p) /\ Knows(p) /\ saved' = saved
  BY DEF RecordKnown, Runtime, EnsureRelay, ProbeRelay, ApplyBridge, HaltRelay, ApplyImports
<1>3. CASE job[p].mode = "lifecycle"
  <2>1. job'[p] = job[p] /\ pc'[p] \in {AfterStep(p, step), "error"}
    BY <1>1, <1>3 DEF Proceeds, FallsBack
  <2>2. \/ pc'[p] \in {"settle", "down", "error"}
        \/ step \in Lifting /\ pc'[p] \in Lifting
    BY <1>3, <2>1, NextStep DEF RuntimeSteps, Lifting
  <2> QED
    BY <1>1, <1>2, <1>3, <2>1, <2>2, PlainAdmitted
       DEF Admitted, OnPorts, Undecided, InTransaction, Lifting
<1>4. CASE job[p].mode # "lifecycle"
  <2>1. /\ SameRequest(p) /\ job'[p].mode \in {job[p].mode, "rollback"}
        /\ pc'[p] \in {AfterStep(p, step), "restore"}
    BY <1>1, <1>4 DEF Proceeds, FallsBack, SameRequest
  <2>2. pc'[p] \in {"bridge", "probe", "imports", "halt", "save", "restate", "restore"}
    BY <1>4, <2>1, NextStep DEF RuntimeSteps, Modes
  <2>3. OnPorts(p)
    BY <1>1, <1>4 DEF OnPorts, InTransaction, RuntimeSteps
  <2>4. Undecided(p) \/ saved.maps = job[p].rec.maps
    BY <1>1, <1>2 DEF Knows, OwnRecord, Loaded, RuntimeSteps
  <2> QED
    BY <1>2, <1>4, <2>1, <2>2, <2>3, <2>4 DEF Admitted, SameRequest
<1> QED
  BY <1>3, <1>4

LEMMA TransactionAdmitted ==
  ASSUME LedgerInv, NEW p \in Procs, Transaction(p), pc[p] # "end"
  PROVE  Admitted(p)'
<1> USE MoverKnown DEF LedgerInv, PortInv, RecordInv
<1>1. /\ pc[p] \in TransactionSteps \ {"end"}
      /\ WriteStep(p) \/ UnwriteStep(p) \/ SaveStep(p) \/ UnkeepStep(p)
           \/ RestoreStep(p) \/ RestateStep(p) \/ ResaveStep(p)
  BY TransactionStep
     DEF WriteStep, UnwriteStep, SaveStep, UnkeepStep, RestoreStep, RestateStep,
         ResaveStep, TransactionSteps
<1>2. /\ Admitted(p) /\ Knows(p) /\ PortKnown(p) /\ InTransaction(p) /\ OnPorts(p)
      /\ Undecided(p) \/ saved.maps = job[p].rec.maps
  BY <1>1, InTransactionKnows
     DEF RecordKnown, OnPorts, Knows, OwnRecord, Loaded, TransactionSteps
<1>3. /\ job'[p].op = job[p].op /\ job'[p].arg = job[p].arg
      /\ job'[p].rec.maps = job[p].rec.maps /\ job'[p].mode # "lifecycle"
      /\ pc'[p] # "forget"
  BY <1>1, <1>2, InTransactionKnows
     DEF WriteStep, UnwriteStep, SaveStep, UnkeepStep, RestoreStep, RestateStep,
         ResaveStep, SameTransaction
<1>4. job[p].op # "remove" /\ saved'.maps # job[p].rec.maps /\ ~job'[p].ok => ~saved'.rtErr
  <2>1. CASE SaveStep(p)
    <3>1. SUFFICES ASSUME job[p].op # "remove", ~job'[p].ok PROVE ~saved'.rtErr
      OBVIOUS
    <3>2. SaveCandidate(p)
      BY <2>1 DEF SaveStep, Transaction, Write, Unwrite, Unkeep, RestoreFiles, SaveRolledBack,
                  Resave, EndTransaction
    <3>3. saved' \in {saved, Candidate(p)}
      BY <3>2 DEF SaveCandidate, Saves, SaveFails
    <3>4. job[p].rec.status = "ready" /\ pc[p] = "save"
      BY <1>2, <2>1, <3>1 DEF SaveStep, PortKnown, StatusKnown, InTransaction
    <3>5. ~job[p].rec.rtErr /\ saved.rtErr = job[p].rec.rtErr
      BY <1>1, <3>4, InTransactionKnows DEF ActivationSteps
    <3> QED
      BY <1>1, <3>3, <3>5, InTransactionKnows DEF Candidate, Records
  <2>2. CASE RestateStep(p) \/ ResaveStep(p)
    <3>1. saved' = saved \/ saved'.maps = job[p].rec.maps
      <4>1. saved' \in {saved, RolledBack(p), job[p].rec}
        BY <1>1, <2>2 DEF RestateStep, ResaveStep, Transaction, Write, Unwrite, SaveCandidate,
              Unkeep, RestoreFiles, SaveRolledBack, Resave, EndTransaction, Saves, SaveFails
      <4> QED
        BY <1>1, <4>1, InTransactionKnows, DegradedKnown DEF RolledBack
    <3> QED
      BY <1>2, <3>1 DEF Admitted
  <2>3. CASE ~(SaveStep(p) \/ RestateStep(p) \/ ResaveStep(p))
    BY <1>1, <1>2, <2>3 DEF WriteStep, UnwriteStep, UnkeepStep, RestoreStep, Admitted
  <2> QED
    BY <2>1, <2>2, <2>3
<1> QED
  BY <1>2, <1>3, <1>4 DEF Admitted, Undecided, InTransaction, OnPorts

LEMMA SilentAdmitted ==
  ASSUME LedgerInv, NEW q \in Procs,
         \/ DaemonBegin \/ DaemonApply \/ Outage \/ UNCHANGED vars
         \/ \E p \in Procs : Expire(p)
  PROVE  Admitted(q)' /\ RequestOf(q)' = RequestOf(q) /\ (Undecided(q)' <=> Undecided(q))
         /\ saved' = saved /\ job'[q].rec = job[q].rec
<1>1. /\ saved' = saved /\ pc' = pc
      /\ job'[q].mode = job[q].mode /\ job'[q].rec = job[q].rec /\ job'[q].ok = job[q].ok
      /\ job'[q].op = job[q].op /\ job'[q].arg = job[q].arg
  BY DEF DaemonBegin, DaemonApply, Outage, Expire, vars, LedgerInv, PortInv, RecordInv,
         LockInv, TypeOK, Jobs
<1>2. Undecided(q)' <=> Undecided(q)
  BY <1>1 DEF Undecided, InTransaction
<1> QED
  BY <1>1, <1>2 DEF LedgerInv, Admitted, OnPorts, InTransaction, RequestOf, Asks

\* What a command asks for does not change before it has its result.
LEMMA SameArguments ==
  ASSUME LockInv, NEW p \in Procs, NEW r, NEW b,
         \/ job' = job
         \/ job' = [job EXCEPT ![p].ok = b]
         \/ job' = [job EXCEPT ![p].rec = r]
         \/ job' = [job EXCEPT ![p].rec = r, ![p].ok = b]
         \/ job' = [job EXCEPT ![p].changed = b]
         \/ job' = [job EXCEPT ![p].fast = TRUE, ![p].rec.status = r]
  PROVE  job'[p].op = job[p].op /\ job'[p].arg = job[p].arg
BY DEF LockInv, TypeOK, Jobs

LEMMA RequestFollows ==
  ASSUME LockInv, NEW p \in Procs, Starts(p) \/ Step(p) \/ Crash(p)
  PROVE  ~Asks(p) \/ ~Asks(p)' \/ RequestOf(p)' = RequestOf(p)
<1>1. CASE Starts(p) \/ Crash(p) \/ Unlock(p) \/ EndTransaction(p)
  BY <1>1, MoverKnown DEF Starts, Begin, Crash, Unlock, EndTransaction, Goto, Asks
<1>2. CASE ~(Starts(p) \/ Crash(p) \/ Unlock(p) \/ EndTransaction(p))
  <2>1. CASE Lifecycle(p) \/ SyncLoopback(p) \/ Preflight(p) \/ NoTransaction(p)
    <3>1. job'[p].op = job[p].op /\ job'[p].arg = job[p].arg
      <4>1. CASE Load(p) \/ Decide(p) \/ Render(p) \/ Mark(p)
        <5>1. CASE Load(p)
          BY <5>1, MoverKnown DEF Load, Jobs
        <5>2. CASE Decide(p)
          BY <5>2, SameArguments DEF Decide, Keep
        <5>3. CASE Render(p) \/ Mark(p)
          BY <5>3, SameArguments DEF Render, Mark, Keep
        <5> QED
          BY <4>1, <5>1, <5>2, <5>3
      <4>2. CASE LockBox(p) \/ ComposeDown(p) \/ ComposeUp(p) \/ Verify(p)
                 \/ PersistError(p) \/ Preflight(p) \/ NoTransaction(p)
        BY <4>2 DEF LockBox, ComposeDown, ComposeUp, Verify, PersistError, Preflight,
                    NoTransaction, Keep
      <4>3. CASE InspectBox(p) \/ Touch(p) \/ Commit(p) \/ Settle(p) \/ Forget(p)
                 \/ SyncLoopback(p)
        BY <4>3, SameArguments DEF InspectBox, Touch, Commit, Settle, Forget, SyncLoopback,
                                   Finish, Keep
      <4> QED
        BY <1>2, <2>1, <4>1, <4>2, <4>3 DEF Lifecycle
    <3> QED
      BY <3>1 DEF RequestOf, Asks
  <2>2. CASE BeginTransaction(p)
    BY <2>2, MoverKnown DEF BeginTransaction, RequestOf, Asks, Jobs
  <2>3. CASE Runtime(p) \/ ApplyImports(p)
    <3>1. PICK step \in RuntimeSteps : Proceed(p, step) \/ Fallback(p, step)
      BY <2>3 DEF Runtime, EnsureRelay, ProbeRelay, ApplyBridge, HaltRelay, ApplyImports,
                  Skip, RuntimeSteps
    <3>2. job'[p].op = job[p].op /\ job'[p].arg = job[p].arg
      BY <3>1, RuntimeStep DEF Proceeds, FallsBack, SameRequest
    <3> QED
      BY <3>2 DEF RequestOf, Asks
  <2>4. CASE Transaction(p)
    <3>1. job'[p].op = job[p].op /\ job'[p].arg = job[p].arg
      BY <1>2, <2>4, MoverKnown
         DEF Transaction, Write, Unwrite, SaveCandidate, Unkeep, RestoreFiles, SaveRolledBack,
             Resave, Keep, Jobs
    <3> QED
      BY <3>1 DEF RequestOf, Asks
  <2> QED
    BY <1>2, <2>1, <2>2, <2>3, <2>4 DEF Step, Sidecar
<1> QED
  BY <1>1, <1>2

LEMMA RequestType ==
  ASSUME LockInv, NEW p \in Procs
  PROVE  /\ RequestOf(p) \in Ledger!Requests
         /\ ~Asks(p) => RequestOf(p) = Ledger!Nothing
         /\ Asks(p) => /\ RequestOf(p).maps = job[p].arg
                       /\ job[p].op = "remove" => RequestOf(p).kind = "remove"
                       /\ job[p].op \in {"import", "publish"} => RequestOf(p).kind = "add"
                       /\ job[p].op \in {"ensure", "restart"} => RequestOf(p).kind = "restore"
                       /\ job[p].op = "destroy" => RequestOf(p).kind = "destroy"
<1>1. job[p].arg \subseteq Mappings
  BY MoverKnown DEF Jobs
<1>2. CASE Asks(p)
  BY <1>1, <1>2 DEF RequestOf, RequestKind, Asks, Ledger!Requests, Ledger!Kinds
<1>3. CASE ~Asks(p)
  BY <1>3 DEF RequestOf, Ledger!Requests, Ledger!Kinds, Ledger!Nothing
<1> QED
  BY <1>2, <1>3

\* What a step of p is for the ledger: an answer that changes nothing or a new
\* request, a degradation, the end of up, of destroy, or of a transaction.
Moves(p) ==
  \/ /\ DesiredBy(p)' = DesiredBy(p) /\ saved'.rtErr = saved.rtErr
     /\ ~Asks(p) \/ ~Asks(p)' \/ RequestOf(p)' = RequestOf(p)
  \/ /\ DesiredBy(p)' = DesiredBy(p) /\ saved'.rtErr = TRUE
     /\ Asks(p) /\ job[p].op \in PortOps /\ RequestOf(p)' = RequestOf(p)
  \/ /\ DesiredBy(p)' = DesiredBy(p) /\ saved'.rtErr = FALSE
     /\ Asks(p) /\ job[p].op \in {"ensure", "restart"} /\ ~Asks(p)'
  \/ /\ DesiredBy(p)' = {} /\ saved'.rtErr = FALSE
     /\ Asks(p) /\ job[p].op = "destroy" /\ ~Asks(p)'
  \/ /\ DesiredBy(p) = job[p].rec.maps /\ DesiredBy(p)' = CandidateMappings(p)
     /\ saved'.rtErr = saved.rtErr
     /\ Asks(p) /\ job[p].op \in PortOps /\ ~Asks(p)'
     /\ job[p].op = "remove" => job[p].arg \subseteq job[p].rec.maps
     /\ job[p].op # "remove" => job[p].arg \cap job[p].rec.maps = {} /\ ~saved.rtErr

LEMMA StepMoves ==
  ASSUME LedgerInv, NEW p \in Procs, Starts(p) \/ Step(p) \/ Crash(p)
  PROVE  Moves(p)
<1> USE MoverKnown DEF LedgerInv, PortInv, RecordInv
<1>1. Whole(p)
  BY LifecycleWhole, RuntimeWhole, TransactionWhole, SidecarWhole, EndWhole
     DEF Step, Lifecycle, Transaction, Sidecar, Unlock, EndTransaction, LockBox, Load,
         InspectBox, Touch, Render, Decide, Mark, ComposeDown, ComposeUp, Verify,
         Commit, PersistError, Settle, Forget, Write, Unwrite, SaveCandidate, Unkeep,
         RestoreFiles, SaveRolledBack, Resave
<1>2. KeepsDegraded(p)
  BY LifecycleSticks, RuntimeSticks, TransactionSticks, SidecarSticks
     DEF Step, Lifecycle, Transaction, Sidecar, Unlock, EndTransaction, LockBox, Load,
         InspectBox, Touch, Render, Decide, Mark, ComposeDown, ComposeUp, Verify,
         Commit, PersistError, Settle, Forget, Write, Unwrite, SaveCandidate, Unkeep,
         RestoreFiles, SaveRolledBack, Resave
<1>3. /\ Admitted(p) /\ Knows(p) /\ PortKnown(p)
      /\ saved.rtErr \in BOOLEAN /\ saved'.rtErr \in BOOLEAN
  <2>1. LockInv'
    BY NextLocks DEF Next
  <2> QED
    BY <2>1 DEF RecordKnown, Records, LockInv, TypeOK
<1>4. ~Asks(p) \/ ~Asks(p)' \/ RequestOf(p)' = RequestOf(p)
  BY RequestFollows
<1>5. CASE Grants(p)
  <2>1. OnPorts(p) /\ job[p].mode # "lifecycle" /\ pc[p] # "idle"
    BY <1>5 DEF Grants, OnPorts, InTransaction, PlainSteps
  <2>2. job[p].op \in PortOps /\ Asks(p)
    BY <1>3, <1>5, <2>1 DEF Admitted, Grants, InTransaction, Asks, RequestKind, PortOps
  <2>3. job[p].cand = CandidateMappings(p)
    BY <1>3, <2>1 DEF Knows, WholeRequest
  <2>4. CASE DesiredBy(p)' = DesiredBy(p)
    BY <1>5, <2>4 DEF Moves, Grants
  <2>5. CASE DesiredBy(p)' # DesiredBy(p) /\ job[p].op # "remove"
    <3>1. ASSUME Undecided(p) PROVE ~saved.rtErr
      <4>1. saved.maps # job[p].rec.maps
        BY <1>5, <2>5, <3>1 DEF Grants, DesiredBy
      <4> QED
        BY <1>3, <2>5, <3>1, <4>1 DEF Admitted
    <3>2. ASSUME ~Undecided(p) PROVE ~saved.rtErr
      <4>1. job[p].rec.status = "ready"
        BY <1>3, <1>5, <2>1, <2>5, <3>2 DEF Grants, PortKnown, StatusKnown
      <4> QED
        BY <1>3, <1>5, <2>1, <3>2, <4>1 DEF Grants, Knows, GoodRecord
    <3>3. ~saved.rtErr
      BY <3>1, <3>2
    <3> QED
      BY <1>3, <1>5, <2>1, <2>2, <2>3, <2>5, <3>3 DEF Moves, Grants, Admitted
  <2>6. CASE job[p].op = "remove"
    BY <1>3, <1>5, <2>1, <2>2, <2>3, <2>6 DEF Moves, Grants, Admitted
  <2> QED
    BY <2>4, <2>5, <2>6
<1>6. CASE pc[p] = "forget"
  <2>1. job[p].mode = "lifecycle" /\ DesiredBy(p) = saved.maps
    BY <1>6 DEF PlainSteps, DesiredBy, Undecided, InTransaction
  <2>2. Forget(p) \/ Crash(p)
    BY <1>6 DEF Starts, Begin, Step, Lifecycle, Runtime, Transaction, Sidecar, LockBox,
         Load, Unlock, InspectBox, Touch, Render, Decide, Mark, ComposeDown, ComposeUp,
         Verify, Commit, PersistError, Settle, EnsureRelay, ProbeRelay, ApplyBridge, HaltRelay,
         Write, Unwrite, SaveCandidate, Unkeep, RestoreFiles, SaveRolledBack, Resave,
         EndTransaction, SyncLoopback, ApplyImports, Preflight, NoTransaction, BeginTransaction
  <2>3. CASE Crash(p)
    <3>1. saved' = saved /\ ~Undecided(p)'
      BY <2>3 DEF Crash, NoJob, NewJob, Undecided, InTransaction, LockInv, TypeOK
    <3> QED
      BY <1>4, <2>1, <3>1 DEF Moves, DesiredBy
  <2>4. CASE Forget(p)
    <3>1. ~job[p].ok /\ job[p].op = "destroy"
      BY <1>3, <1>6 DEF Knows, Unfinished, Admitted
    <3>2. Asks(p)
      BY <1>6, <3>1 DEF Asks, RequestKind
    <3>3. saved' \in {saved, NoRecord} /\ pc'[p] = "unlock"
      BY <2>4 DEF Forget, Finish, Saves, SaveFails, Goto
    <3>4. ~Asks(p)' /\ ~Undecided(p)'
      BY <3>3 DEF Asks, Undecided, InTransaction
    <3>5. NoRecord.maps = {} /\ NoRecord.rtErr = FALSE
      BY DEF NoRecord
    <3> QED
      BY <2>1, <3>1, <3>2, <3>3, <3>4, <3>5 DEF Moves, DesiredBy
  <2> QED
    BY <2>2, <2>3, <2>4
<1>7. CASE DesiredBy(p)' = DesiredBy(p) /\ pc[p] # "forget"
  <2>1. CASE saved'.rtErr = saved.rtErr
    BY <1>4, <1>7, <2>1 DEF Moves
  <2>2. CASE saved.rtErr /\ ~saved'.rtErr
    <3>1. pc[p] = "commit"
      BY <1>2, <1>7, <2>2 DEF KeepsDegraded
    <3>2. Commit(p)
      BY <2>2, <3>1 DEF Starts, Begin, Crash, Step, Lifecycle, Runtime, Transaction, Sidecar,
         LockBox, Load, Unlock, InspectBox, Touch, Render, Decide, Mark, ComposeDown,
         ComposeUp, Verify, Forget, PersistError, Settle, EnsureRelay, ProbeRelay, ApplyBridge,
         HaltRelay, Write, Unwrite, SaveCandidate, Unkeep, RestoreFiles, SaveRolledBack,
         Resave, EndTransaction, SyncLoopback, ApplyImports, Preflight, NoTransaction,
         BeginTransaction
    <3>3. ~job[p].ok /\ job[p].op \in {"ensure", "restart"}
      BY <1>3, <3>1 DEF Knows, Unfinished, Admitted, Lifting, PlainSteps
    <3>4. Asks(p)
      BY <3>1, <3>3 DEF Asks, RequestKind
    <3>5. ~Asks(p)'
      BY <3>2 DEF Commit, Finish, Goto, Asks
    <3> QED
      BY <1>3, <1>7, <2>2, <3>3, <3>4, <3>5 DEF Moves
  <2>3. CASE ~saved.rtErr /\ saved'.rtErr
    <3>1. pc[p] \in {"restate", "resave"}
      BY <1>2, <2>3 DEF KeepsDegraded
    <3>2. SaveRolledBack(p) \/ Resave(p)
      BY <2>3, <3>1 DEF Starts, Begin, Crash, Step, Lifecycle, Runtime, Transaction, Sidecar,
         LockBox, Load, Unlock, InspectBox, Touch, Render, Decide, Mark, ComposeDown,
         ComposeUp, Verify, Commit, Forget, PersistError, Settle, EnsureRelay, ProbeRelay,
         ApplyBridge, HaltRelay, Write, Unwrite, SaveCandidate, Unkeep, RestoreFiles,
         EndTransaction, SyncLoopback, ApplyImports, Preflight, NoTransaction,
         BeginTransaction
    <3>3. ~job[p].ok /\ OnPorts(p)
      BY <3>1, InTransactionKnows DEF TransactionSteps, OnPorts
    <3>4. job[p].op \in PortOps
      BY <1>3, <3>3 DEF Admitted
    <3>5. pc'[p] \in {"resave", "end"} /\ job'[p].ok = job[p].ok /\ job'[p].op = job[p].op
      BY <3>2 DEF SaveRolledBack, Resave, Goto, Keep, Jobs
    <3>6. Asks(p) /\ Asks(p)'
      BY <3>1, <3>3, <3>4, <3>5 DEF Asks, RequestKind, PortOps
    <3> QED
      BY <1>3, <1>4, <1>7, <2>3, <3>4, <3>6 DEF Moves
  <2> QED
    BY <1>3, <2>1, <2>2, <2>3
<1> QED
  BY <1>1, <1>5, <1>6, <1>7 DEF Whole

LEMMA MovesAreLedger ==
  ASSUME LockInv, LockInv', NEW p \in Procs, Moves(p),
         Desired = DesiredBy(p), Desired' = DesiredBy(p)',
         \A q \in Procs \ {p} : RequestOf(q)' = RequestOf(q)
  PROVE  [Ledger!Next]_<<Desired, saved.rtErr, Asked>>
<1> DEFINE r == RequestOf(p)'
<1>1. Asked' = [Asked EXCEPT ![p] = r] /\ Asked[p] = RequestOf(p)
  BY DEF Asked
<1>2. /\ r \in Ledger!Requests /\ Ledger!Nothing = [kind |-> "none", maps |-> {}]
      /\ ~Asks(p) => Asked[p] = Ledger!Nothing
      /\ ~Asks(p)' => r = Ledger!Nothing
  <2>1. job'[p].arg \subseteq Mappings
    BY DEF LockInv, TypeOK, Jobs
  <2>2. r \in Ledger!Requests /\ (~Asks(p)' => r = Ledger!Nothing)
    BY <2>1 DEF RequestOf, RequestKind, Asks, Ledger!Requests, Ledger!Kinds, Ledger!Nothing
  <2> QED
    BY <1>1, <2>2, RequestType DEF Ledger!Nothing
<1>3. Asks(p) => /\ Asked[p].maps = job[p].arg
                 /\ job[p].op = "remove" => Asked[p].kind = "remove"
                 /\ job[p].op \in {"import", "publish"} => Asked[p].kind = "add"
                 /\ job[p].op \in {"ensure", "restart"} => Asked[p].kind = "restore"
                 /\ job[p].op = "destroy" => Asked[p].kind = "destroy"
  BY <1>1, RequestType
<1> HIDE DEF r
<1>4. CASE /\ Desired' = Desired /\ saved'.rtErr = saved.rtErr
           /\ ~Asks(p) \/ ~Asks(p)' \/ r = RequestOf(p)
  <2>1. CASE ~Asks(p)
    BY <1>1, <1>2, <1>4, <2>1 DEF Ledger!Next, Ledger!Ask
  <2>2. CASE ~Asks(p)'
    BY <1>1, <1>2, <1>4, <2>2 DEF Ledger!Next, Ledger!Refuse, Ledger!Answered
  <2>3. CASE r = RequestOf(p)
    <3>1. Asked' = Asked
      BY <1>1, <2>3 DEF Asked
    <3> QED
      BY <1>4, <3>1
  <2> QED
    BY <1>4, <2>1, <2>2, <2>3
<1>5. CASE /\ Desired' = Desired /\ saved'.rtErr = TRUE
           /\ Asks(p) /\ job[p].op \in PortOps /\ r = RequestOf(p)
  <2>1. Asked' = Asked
    BY <1>1, <1>5 DEF Asked
  <2>2. Asked[p].kind \in {"add", "remove"}
    BY <1>3, <1>5 DEF PortOps
  <2> QED
    BY <1>5, <2>1, <2>2 DEF Ledger!Next, Ledger!Degrade
<1>6. CASE /\ Desired' = Desired /\ saved'.rtErr = FALSE
           /\ Asks(p) /\ job[p].op \in {"ensure", "restart"} /\ ~Asks(p)'
  BY <1>1, <1>2, <1>3, <1>6 DEF Ledger!Next, Ledger!Restore, Ledger!Answered
<1>7. CASE /\ Desired' = {} /\ saved'.rtErr = FALSE
           /\ Asks(p) /\ job[p].op = "destroy" /\ ~Asks(p)'
  BY <1>1, <1>2, <1>3, <1>7 DEF Ledger!Next, Ledger!Destroy, Ledger!Answered
<1>8. CASE /\ Desired = job[p].rec.maps /\ Desired' = CandidateMappings(p)
           /\ saved'.rtErr = saved.rtErr
           /\ Asks(p) /\ job[p].op \in PortOps /\ ~Asks(p)'
           /\ job[p].op = "remove" => job[p].arg \subseteq job[p].rec.maps
           /\ job[p].op # "remove" => job[p].arg \cap job[p].rec.maps = {} /\ ~saved.rtErr
  <2>1. Ledger!Answered(p)
    BY <1>1, <1>2, <1>8 DEF Ledger!Answered
  <2>2. CASE job[p].op = "remove"
    BY <1>3, <1>8, <2>1, <2>2 DEF Ledger!Next, Ledger!Remove, CandidateMappings
  <2>3. CASE job[p].op # "remove"
    BY <1>3, <1>8, <2>1, <2>3 DEF Ledger!Next, Ledger!Add, CandidateMappings, PortOps
  <2> QED
    BY <2>2, <2>3
<1> QED
  BY <1>4, <1>5, <1>6, <1>7, <1>8 DEF Moves, r

\* Every step of the box is one of the ledger, and Admitted is inductive.
LEMMA NextLedger ==
  ASSUME LedgerInv, [Next]_vars
  PROVE  LedgerInv' /\ [Ledger!Next]_<<Desired, saved.rtErr, Asked>>
<1> USE DEF LedgerInv, PortInv, RecordInv
<1>1. StickyInv' /\ PortInv' /\ LockInv'
  BY NextSticks, NextPort, NextLocks
<1>2. ASSUME NEW p \in Procs, Starts(p) \/ Step(p) \/ Crash(p)
      PROVE  (\A q \in Procs : Admitted(q)') /\ [Ledger!Next]_<<Desired, saved.rtErr, Asked>>
  <2>1. \A q \in Procs \ {p} : pc'[q] = pc[q] /\ job'[q] = job[q] /\ pc[q] = "idle"
    BY <1>2, OthersStay, OneMoves
  <2>2. ASSUME NEW q \in Procs \ {p}
        PROVE  /\ ~Undecided(q) /\ ~Undecided(q)' /\ Admitted(q)'
               /\ RequestOf(q)' = RequestOf(q)
    <3>1. job[q].mode = "lifecycle" /\ job'[q].mode = "lifecycle" /\ pc'[q] = "idle"
      BY <2>1, PlainStep DEF PlainSteps
    <3> QED
      BY <2>1, <3>1, PlainAdmitted DEF Undecided, InTransaction, RequestOf, Asks, Lifting
  <2>3. Moves(p)
    BY <1>2, StepMoves
  <2>4. Desired = DesiredBy(p) /\ Desired' = DesiredBy(p)'
    BY <2>2, DesiredNow, DesiredThen
  <2>5. [Ledger!Next]_<<Desired, saved.rtErr, Asked>>
    BY <1>1, <2>2, <2>3, <2>4, MovesAreLedger
  <2>6. Admitted(p)'
    <3>1. CASE Load(p)
      BY <3>1, LoadAdmitted
    <3>2. CASE EndTransaction(p)
      BY <3>2 DEF EndTransaction, Goto, Admitted, OnPorts, Undecided, InTransaction, Lifting,
                  LockInv, TypeOK
    <3>3. CASE ~Load(p) /\ ~EndTransaction(p)
      <4>1. Lifecycle(p) => pc[p] # "load"
        BY <3>3 DEF Lifecycle, LockBox, Unlock, InspectBox, Touch, Render, Decide, Mark,
             ComposeDown, ComposeUp, Verify, Commit, PersistError, Settle, Forget
      <4>2. Transaction(p) => pc[p] # "end"
        BY <3>3 DEF Transaction, Write, Unwrite, SaveCandidate, Unkeep, RestoreFiles,
             SaveRolledBack, Resave
      <4> QED
        BY <1>2, <4>1, <4>2, LifecycleAdmitted, BeginAdmitted, RuntimeAdmitted,
           TransactionAdmitted DEF Step, Sidecar
    <3> QED
      BY <3>1, <3>2, <3>3
  <2> QED
    BY <2>2, <2>5, <2>6
<1>3. ASSUME \/ DaemonBegin \/ DaemonApply \/ Outage \/ UNCHANGED vars
             \/ \E p \in Procs : Expire(p)
      PROVE  (\A q \in Procs : Admitted(q)') /\ UNCHANGED <<Desired, saved.rtErr, Asked>>
  <2>1. \A q \in Procs :
          /\ Admitted(q)' /\ RequestOf(q)' = RequestOf(q) /\ (Undecided(q)' <=> Undecided(q))
          /\ saved' = saved /\ job'[q].rec = job[q].rec
    BY <1>3, SilentAdmitted
  <2>2. Asked' = Asked
    BY <2>1 DEF Asked
  <2>3. saved' = saved
    BY <1>3 DEF DaemonBegin, DaemonApply, Outage, Expire, vars
  <2>4. Desired' = Desired
    <3>1. CASE \E p \in Procs : Undecided(p)
      <4>1. PICK p \in Procs : Undecided(p)
        BY <3>1
      <4>2. \A q \in Procs \ {p} : pc[q] = "idle"
        BY <4>1, IdleDecided, OthersIdle
      <4>3. \A q \in Procs \ {p} : ~Undecided(q) /\ ~Undecided(q)'
        BY <2>1, <4>2, IdleDecided
      <4>4. Desired = DesiredBy(p) /\ Desired' = DesiredBy(p)'
        BY <4>3, DesiredNow, DesiredThen
      <4> QED
        BY <2>1, <4>1, <4>4 DEF DesiredBy
    <3>2. CASE ~ \E p \in Procs : Undecided(p)
      BY <2>1, <2>3, <3>2 DEF Desired
    <3> QED
      BY <3>1, <3>2
  <2> QED
    BY <2>1, <2>2, <2>3, <2>4
<1> QED
  BY <1>1, <1>2, <1>3 DEF Next

LEMMA InitLedger ==
  ASSUME Init
  PROVE  LedgerInv /\ Ledger!Init
<1>1. \A p \in Procs : pc[p] = "idle" /\ job[p].mode = "lifecycle"
  BY DEF Init, NoJob, NewJob
<1>2. PortInv /\ \A p \in Procs : ~Undecided(p)
  BY <1>1, InitPort DEF Undecided, InTransaction
<1>3. StickyInv /\ \A p \in Procs : Admitted(p)
  BY <1>1, <1>2 DEF StickyInv, Sticky, PortInv, Admitted, OnPorts, InTransaction, Lifting
<1>4. saved.maps = {} /\ saved.rtErr = FALSE
  BY DEF Init, NoRecord
<1>5. Asked = [c \in Procs |-> Ledger!Nothing]
  BY <1>1 DEF Asked, RequestOf, Asks, Ledger!Nothing
<1> QED
  BY <1>2, <1>3, <1>4, <1>5 DEF LedgerInv, Ledger!Init, Desired

\* The box implements the port ledger: every request is granted as a whole, or
\* refused, or its command is killed and it is either.
THEOREM BoxImplementsLedger == Spec => LedgerSpec
<1>1. Init => LedgerInv /\ Ledger!Init
  BY InitLedger
<1>2. LedgerInv /\ [Next]_vars => LedgerInv' /\ [Ledger!Next]_<<Desired, saved.rtErr, Asked>>
  BY NextLedger
<1> QED
  BY <1>1, <1>2, PTL DEF Spec, LedgerSpec, Ledger!Spec

-----------------------------------------------------------------------------
(***************************************************************************)
(* The files and the record.  They part in a transaction and between the   *)
(* two halves of a removal; elsewhere only failures part them: a kill or a *)
(* removal that stops half-way, or two failures to write.  One failure to  *)
(* write is enough only for a box that is not rendered.                    *)
(***************************************************************************)

Costly ==
  \/ Among({"crash", "rmdir"}) /\ faults >= 1
  \/ Among({"save", "write"}) /\ faults >= 2
Excused == Costly \/ (Among({"save", "write"}) /\ faults >= 1 /\ ~rendered)

SnapKept(p) ==
  job[p].snapC = job[p].rec.maps /\ job[p].snapO = PublicationsOf(job[p].rec)
Undoing(p) ==
  Failing(p) /\ (pc[p] \in {"resave", "end", "unlock"}
                   \/ (job[p].mode = "rollback" /\ pc[p] # "restore"))

RequestKnown(p) ==
  /\ job[p].mode # "lifecycle" /\ ~job[p].ok /\ ~Failing(p) => SnapKept(p) \/ Excused
  /\ Failing(p) => SnapKept(p) \/ Costly
  /\ Undecided(p) => saved.maps = job[p].rec.maps \/ Among({"save"})
  /\ Failing(p) /\ pc[p] \in {"end", "unlock"} => saved.maps = job[p].rec.maps \/ Costly
  /\ Undoing(p) => Snapped(p) \/ Costly

Settled == \A p \in Procs : job[p].mode = "lifecycle" /\ pc[p] # "forget"
FilesSettled == Settled => FilesAre(saved.maps) \/ Excused

FilesInv == PortInv /\ FilesSettled /\ \A p \in Procs : RequestKnown(p)

\* No failure is ever forgotten.
LEMMA PricesStay ==
  ASSUME PortInv, [Next]_vars
  PROVE  /\ faults \in Nat /\ faults' \in Nat /\ faults' >= faults
         /\ Costly => Costly'
         /\ Excused /\ rendered' = rendered => Excused'
         /\ \A k \in {"crash", "rmdir"} : Fault(k) \/ Paid(k) => Costly'
         /\ \A k \in {"save", "write"} :
              Fault(k) \/ Paid(k) =>
                /\ Excused => Costly'
                /\ faults >= 1 => Costly'
                /\ ~rendered' => Excused'
<1>1. /\ faults \in Nat
      /\ \/ faults' = faults
         \/ faults' = faults + 1
      /\ \A k : Fault(k) \/ Paid(k) => faults' = faults + 1 /\ Among({k})
  BY FaultsCount, FaultsGrow DEF PortInv, RecordInv, Paid
<1>2. /\ Among({"crash"}) => Among({"crash", "rmdir"})
      /\ Among({"rmdir"}) => Among({"crash", "rmdir"})
      /\ Among({"save"}) => Among({"save", "write"})
      /\ Among({"write"}) => Among({"save", "write"})
  BY DEF Among
<1>3. Excused => faults >= 1
  BY <1>1 DEF Excused, Costly
<1>4. faults' \in Nat /\ faults' >= faults
  BY <1>1
<1>5. (Costly => Costly') /\ (Excused /\ rendered' = rendered => Excused')
  BY <1>1, <1>4 DEF Costly, Excused
<1>6. ASSUME NEW k \in {"crash", "rmdir"}, Fault(k) \/ Paid(k)
      PROVE  Costly'
  BY <1>1, <1>2, <1>6 DEF Costly
<1>7. ASSUME NEW k \in {"save", "write"}, Fault(k) \/ Paid(k)
      PROVE  /\ faults >= 1 => Costly'
             /\ ~rendered' => Excused'
  <2>1. faults' = faults + 1 /\ Among({"save", "write"})
    BY <1>1, <1>2, <1>7
  <2> QED
    BY <1>1, <2>1 DEF Costly, Excused
<1> QED
  BY <1>1, <1>3, <1>4, <1>5, <1>6, <1>7

LEMMA PlainRequest ==
  ASSUME NEW p \in Procs, job'[p].mode = "lifecycle"
  PROVE  RequestKnown(p)'
BY DEF RequestKnown, Failing, Undoing, Undecided, InTransaction

\* The end of a port command: what the command leaves on disk and in the record.
LEMMA UnlockedFiles ==
  ASSUME FilesInv, NEW p \in Procs, pc[p] = "unlock", job[p].mode # "lifecycle"
  PROVE  FilesAre(saved.maps) \/ Costly
<1>1. RequestKnown(p) /\ FilesKnown(p)
  BY DEF FilesInv, PortInv, PortKnown
<1>2. CASE job[p].ok
  BY <1>1, <1>2 DEF FilesKnown
<1>3. CASE ~job[p].ok
  <2>1. Failing(p) /\ Undoing(p)
    BY <1>3 DEF Failing, Undoing
  <2> QED
    BY <1>1, <2>1 DEF RequestKnown, SnapKept, Snapped, FilesAre, PublicationsOf
<1> QED
  BY <1>2, <1>3

LEMMA TransactionFiles ==
  ASSUME FilesInv, [Next]_vars, NEW p \in Procs, Transaction(p)
  PROVE  RequestKnown(p)'
<1> USE MoverKnown DEF FilesInv, PortInv, RecordInv
<1>1. RequestKnown(p) /\ Priced(p) /\ StatusKnown(p) /\ BoxKnown(p) /\ FilesKnown(p)
  BY DEF PortKnown
<1>2. CASE pc[p] = "end"
  <2>1. /\ EndTransaction(p) /\ pc'[p] = "unlock" /\ job' = job
        /\ UNCHANGED <<saved, config, override, rendered, faults>>
    BY <1>2 DEF Transaction, Write, Unwrite, SaveCandidate, Unkeep, RestoreFiles,
                SaveRolledBack, Resave, EndTransaction, Goto, files
  <2>2. Failing(p)' => Failing(p)
    BY <1>2, <2>1 DEF Failing
  <2>3. ~Undecided(p)'
    BY <2>1 DEF Undecided, InTransaction
  <2>4. /\ Failing(p)' => Undoing(p)
        /\ Undoing(p)' => Failing(p)'
        /\ Costly' <=> Costly
        /\ Excused' <=> Excused
    BY <1>2, <2>1, <2>2 DEF Undoing, Costly, Excused
  <2>5. job'[p].mode # "lifecycle" /\ ~job'[p].ok => Failing(p)'
    BY <2>1 DEF Failing
  <2> QED
    BY <1>1, <1>2, <2>1, <2>2, <2>3, <2>4, <2>5 DEF RequestKnown, SnapKept, Snapped
<1>3. CASE pc[p] # "end"
  <2>1. /\ rendered' = rendered /\ docker' = docker /\ bridge' = bridge
        /\ WriteStep(p) \/ UnwriteStep(p) \/ SaveStep(p) \/ UnkeepStep(p)
            \/ RestoreStep(p) \/ RestateStep(p) \/ ResaveStep(p)
    BY <1>3, TransactionStep DEF runtime
  <2>2. /\ faults \in Nat /\ faults' \in Nat /\ faults' >= faults
        /\ Costly => Costly'
        /\ Excused => Excused'
        /\ \A k \in {"save", "write"} :
             Paid(k) => (Excused => Costly') /\ (faults >= 1 => Costly')
    BY <2>1, PricesStay
  <2>3. /\ ~job[p].ok /\ InTransaction(p) /\ job[p].mode \in {"activate", "rollback"}
        /\ ~Undecided(p) => saved.maps = job[p].rec.maps
        /\ pc[p] \in TransactionSteps
    <3>1. pc[p] \in TransactionSteps \ {"end"}
      BY <2>1 DEF WriteStep, UnwriteStep, SaveStep, UnkeepStep, RestoreStep, RestateStep,
                  ResaveStep, TransactionSteps
    <3>2. ~job[p].ok /\ job[p].mode \in {"activate", "rollback"}
      BY <3>1, InTransactionKnows DEF Modes
    <3>3. InTransaction(p)
      BY <3>1, <3>2 DEF InTransaction, TransactionSteps
    <3>4. ~Undecided(p) => saved.maps = job[p].rec.maps
      BY <3>1 DEF RecordKnown, Knows, OwnRecord, Loaded, TransactionSteps
    <3> QED
      BY <3>1, <3>2, <3>3, <3>4
  <2>4. Undecided(p) <=> job[p].mode = "rollback" \/ pc[p] \in {"unkeep", "resave", "end"}
    BY <2>3 DEF Undecided
  <2>5. Failing(p) => faults >= 1
    BY <1>1 DEF Priced
  <2>6. Among({"save"}) /\ faults >= 2 => Costly
    BY DEF Among, Costly
  <2>7. Failing(p)' => SnapKept(p)' \/ Costly'
    <3>1. job'[p].snapC = job[p].snapC /\ job'[p].snapO = job[p].snapO
          /\ job'[p].rec.maps = job[p].rec.maps
      BY <2>1 DEF WriteStep, UnwriteStep, SaveStep, UnkeepStep, RestoreStep, RestateStep,
                  ResaveStep, SameTransaction
    <3>2. SnapKept(p) => SnapKept(p)'
      BY <3>1 DEF SnapKept, PublicationsOf
    <3>3. CASE Failing(p)
      BY <1>1, <2>2, <3>2, <3>3 DEF RequestKnown
    <3>4. CASE ~Failing(p)
      <4>1. SnapKept(p) \/ Excused
        BY <1>1, <2>3, <3>4 DEF RequestKnown
      <4>2. WriteStep(p) \/ SaveStep(p)
        BY <1>1, <2>1, <2>3, <3>4
           DEF Failing, UnwriteStep, UnkeepStep, RestoreStep, RestateStep, ResaveStep, StatusKnown
      <4>3. ASSUME Failing(p)' PROVE Paid("write") \/ Paid("save")
        BY <1>1, <2>3, <3>4, <4>2, <4>3 DEF WriteStep, SaveStep, Failing, Priced
      <4> QED
        BY <2>2, <3>2, <4>1, <4>3
    <3> QED
      BY <3>3, <3>4
  <2>8. job'[p].mode # "lifecycle" /\ ~job'[p].ok /\ ~Failing(p)' => SnapKept(p)' \/ Excused'
    <3>1. ASSUME ~job'[p].ok, ~Failing(p)'
          PROVE  WriteStep(p) /\ job'[p] = job[p] /\ ~Failing(p)
      BY <1>1, <2>1, <2>3, <3>1
         DEF WriteStep, UnwriteStep, SaveStep, UnkeepStep, RestoreStep, RestateStep,
             ResaveStep, Failing, StatusKnown
    <3> QED
      BY <1>1, <2>2, <2>3, <3>1 DEF RequestKnown, SnapKept, PublicationsOf
  <2>9. Undecided(p)' => saved'.maps = job'[p].rec.maps \/ Among({"save"})
    <3>1. CASE WriteStep(p) \/ UnwriteStep(p)
      BY <1>1, <2>3, <2>4, <3>1 DEF WriteStep, UnwriteStep, RequestKnown, Undecided
    <3>2. CASE SaveStep(p)
      BY <1>1, <2>3, <2>4, <3>2 DEF SaveStep, SameTransaction, RequestKnown, Undecided, Paid
    <3>3. CASE UnkeepStep(p) \/ RestoreStep(p)
      BY <1>1, <2>3, <2>4, <3>3 DEF UnkeepStep, RestoreStep, RequestKnown, StatusKnown
    <3>4. CASE RestateStep(p) \/ ResaveStep(p)
      BY <1>1, <2>3, <2>4, <3>4 DEF RestateStep, ResaveStep, RequestKnown, StatusKnown, Paid
    <3> QED
      BY <2>1, <3>1, <3>2, <3>3, <3>4
  <2>10. Failing(p)' /\ pc'[p] \in {"end", "unlock"}
           => saved'.maps = job'[p].rec.maps \/ Costly'
    <3>1. CASE WriteStep(p) \/ UnwriteStep(p)
      BY <1>1, <2>3, <2>4, <3>1 DEF WriteStep, UnwriteStep, StatusKnown
    <3>2. CASE SaveStep(p) \/ UnkeepStep(p) \/ RestoreStep(p)
      BY <2>3, <3>2 DEF SaveStep, UnkeepStep, RestoreStep, Failing
    <3>3. CASE RestateStep(p)
      BY <3>3 DEF RestateStep
    <3>4. CASE ResaveStep(p)
      <4>1. Failing(p)
        BY <2>3, <3>4 DEF Failing, ResaveStep
      <4>2. job[p].expired => faults >= 2
        BY <1>1 DEF Priced
      <4>3. saved.maps = job[p].rec.maps \/ Among({"save"})
        BY <1>1, <2>4, <3>4 DEF ResaveStep, RequestKnown
      <4> QED
        BY <2>2, <2>5, <2>6, <3>4, <4>1, <4>2, <4>3 DEF ResaveStep
    <3> QED
      BY <2>1, <3>1, <3>2, <3>3, <3>4
  <2>11. Undoing(p)' => Snapped(p)' \/ Costly'
    <3>1. CASE WriteStep(p) \/ SaveStep(p)
      BY <1>1, <2>3, <3>1 DEF WriteStep, SaveStep, Undoing, Failing, StatusKnown, ActivationSteps
    <3>2. CASE UnwriteStep(p) \/ UnkeepStep(p) \/ RestoreStep(p)
      <4>1. Failing(p)
        BY <2>3, <3>2, <1>1 DEF Failing, UnwriteStep, UnkeepStep, RestoreStep, StatusKnown
      <4> QED
        BY <2>2, <2>5, <3>2, <4>1 DEF UnwriteStep, UnkeepStep, RestoreStep, SameTransaction,
                                      Snapped
    <3>3. CASE RestateStep(p) \/ ResaveStep(p)
      <4>1. Undoing(p)
        BY <1>1, <2>3, <3>3 DEF Failing, Undoing, RestateStep, ResaveStep, StatusKnown
      <4> QED
        BY <1>1, <2>2, <3>3, <4>1 DEF RequestKnown, RestateStep, ResaveStep,
                                      SameTransaction, Snapped
    <3> QED
      BY <2>1, <3>1, <3>2, <3>3
  <2> QED
    BY <2>7, <2>8, <2>9, <2>10, <2>11 DEF RequestKnown
<1> QED
  BY <1>2, <1>3

-----------------------------------------------------------------------------
\* Between the transactions.

\* When nobody is in a transaction, the files are those of the record.
LEMMA QuietFiles ==
  ASSUME FilesInv, \A p \in Procs : ~InTransaction(p) /\ pc[p] # "forget"
  PROVE  FilesAre(saved.maps) \/ Excused
<1>1. CASE Settled
  BY <1>1 DEF FilesInv, FilesSettled
<1>2. CASE ~Settled
  <2>1. PICK p \in Procs : job[p].mode # "lifecycle"
    BY <1>2 DEF Settled
  <2>2. pc[p] = "unlock"
    BY <2>1 DEF InTransaction
  <2> QED
    BY <2>1, <2>2, UnlockedFiles DEF Excused
<1> QED
  BY <1>1, <1>2

\* A lifecycle command loads, works on and saves the mappings of the record.
LEMMA SameMappings ==
  ASSUME FilesInv, NEW p \in Procs, Lifecycle(p) \/ Sidecar(p) \/ Runtime(p),
         pc[p] # "forget"
  PROVE  saved'.maps = saved.maps
<1> USE MoverKnown DEF FilesInv, PortInv, RecordInv
<1>1. job[p].rec.maps = saved.maps \/ pc[p] \in {"idle", "box", "load", "unlock"}
             \/ job[p].mode # "lifecycle"
  BY DEF RecordKnown, Knows, OwnRecord, Loaded, Undecided, InTransaction, TransactionSteps
<1>2. CASE pc[p] \in {"inspect", "touch", "decide", "mark", "commit", "error", "settle"}
  <2>1. job[p].rec.maps = saved.maps
    BY <1>1, <1>2 DEF PlainSteps
  <2> QED
    BY <1>2, <2>1
       DEF Lifecycle, Sidecar, Runtime, LockBox, Load, InspectBox, Touch, Render, Decide, Mark,
           ComposeDown, ComposeUp, Verify, Commit, PersistError, Settle, Forget, Unlock,
           EnsureRelay, ProbeRelay, ApplyBridge, HaltRelay, SyncLoopback, ApplyImports,
           Preflight, NoTransaction, BeginTransaction, Finish, Saves, SaveFails,
           CommittedRecord, Records
<1>3. CASE pc[p] \notin {"inspect", "touch", "decide", "mark", "commit", "error", "settle"}
  <2>1. CASE Load(p)
    BY <2>1, ReconciledKnown DEF Load, Saves, SaveFails
  <2>2. CASE ~Load(p)
    BY <1>3, <2>2
       DEF Lifecycle, Sidecar, Runtime, LockBox, InspectBox, Touch, Render, Decide, Mark,
           ComposeDown, ComposeUp, Verify, Commit, PersistError, Settle, Forget, Unlock,
           EnsureRelay, ProbeRelay, ApplyBridge, HaltRelay, SyncLoopback, ApplyImports,
           Preflight, NoTransaction, BeginTransaction
  <2> QED
    BY <2>1, <2>2
<1> QED
  BY <1>2, <1>3

\* What settles the box again, or finds it settled.
LEMMA PlainFiles ==
  ASSUME FilesInv, [Next]_vars, NEW p \in Procs,
         Starts(p) \/ Lifecycle(p) \/ SyncLoopback(p) \/ Preflight(p) \/ NoTransaction(p)
           \/ ((Runtime(p) \/ ApplyImports(p)) /\ job[p].mode = "lifecycle")
           \/ Crash(p),
         pc'[p] # "forget"
  PROVE  FilesAre(saved.maps)' \/ Excused'
<1> USE MoverKnown DEF FilesInv, PortInv, RecordInv
<1>1. CASE Crash(p)
  <2>1. Fault("crash")
    BY <1>1 DEF Crash
  <2> QED
    BY <2>1, PricesStay DEF Excused
<1>2. CASE Forget(p)
  <2>1. pc[p] = "forget" /\ ~rendered /\ config = {} /\ override = {} /\ ~job[p].expired
    BY <1>2, PlainLocals DEF Forget, Standing, Position, PlainSteps
  <2>2. UNCHANGED <<rendered, config, override>>
    BY <1>2 DEF Forget, files
  <2>3. saved' = NoRecord \/ Fault("save")
    BY <1>2, <2>1 DEF Forget, Finish, Saves, SaveFails
  <2>4. NoRecord.maps = {}
    BY DEF NoRecord
  <2>5. CASE saved' = NoRecord
    BY <2>1, <2>2, <2>4, <2>5 DEF FilesAre
  <2>6. CASE Fault("save")
    BY <2>1, <2>2, <2>6, PricesStay
  <2> QED
    BY <2>3, <2>5, <2>6
<1>3. CASE ~Crash(p) /\ ~Forget(p)
  <2>1. \A q \in Procs \ {p} : pc[q] = "idle"
    BY OneMoves DEF Step, Sidecar
  <2>2. ~InTransaction(p) /\ pc[p] # "forget"
    <3>1. pc[p] \in PlainSteps \cup {"unlock"} \/ job[p].mode = "lifecycle"
      BY <1>3 DEF Starts, Begin, Lifecycle, LockBox, Load, InspectBox, Touch, Render, Decide,
           Mark, ComposeDown, ComposeUp, Verify, Commit, PersistError, Settle, Unlock,
           SyncLoopback, Preflight, NoTransaction, PlainSteps
    <3>2. pc[p] # "forget"
      BY <1>3 DEF Starts, Begin, Lifecycle, LockBox, Load, InspectBox, Touch, Render, Decide,
           Mark, ComposeDown, ComposeUp, Verify, Commit, PersistError, Settle, Unlock,
           SyncLoopback,
           Preflight, NoTransaction, Runtime, EnsureRelay, ProbeRelay, ApplyBridge, HaltRelay,
           ApplyImports
    <3> QED
      BY <3>1, <3>2 DEF InTransaction
  <2>3. FilesAre(saved.maps) \/ Excused
    <3>1. \A q \in Procs \ {p} : ~InTransaction(q) /\ pc[q] # "forget"
      BY <2>1 DEF InTransaction, LockInv, ModeKnown, PlainSteps
    <3> QED
      BY <2>2, <3>1, QuietFiles
  <2>4. saved'.maps = saved.maps
    <3>1. CASE Starts(p)
      BY <3>1 DEF Starts, Begin
    <3>2. CASE ~Starts(p)
      BY <1>3, <2>2, <3>2, SameMappings DEF Sidecar
    <3> QED
      BY <3>1, <3>2
  <2>5. CASE Render(p)
    <3>1. /\ job[p].rec.maps = saved.maps /\ ~job[p].expired
      BY <2>5, PlainLocals
         DEF Render, RecordKnown, Knows, OwnRecord, Loaded, Undecided, InTransaction, PlainSteps
    <3>2. CASE config' = job[p].rec.maps /\ override' = PublicationsOf(job[p].rec)
      BY <2>4, <3>1, <3>2 DEF FilesAre, PublicationsOf
    <3>3. CASE Fault("write")
      <4>1. CASE Excused
        BY <3>3, <4>1, PricesStay DEF Excused
      <4>2. CASE FilesAre(saved.maps)
        BY <2>4, <2>5, <3>1, <4>2 DEF Render, FilesAre, files, PublicationsOf
      <4> QED
        BY <2>3, <4>1, <4>2
    <3> QED
      BY <2>5, <3>1, <3>2, <3>3 DEF Render, Fails
  <2>6. CASE Settle(p)
    <3>1. (UNCHANGED files) \/ Fault("rmdir")
      BY <2>6, <1>3 DEF Settle, Goto
    <3>2. CASE UNCHANGED files
      BY <2>3, <2>4, <3>2, PricesStay DEF files, FilesAre
    <3>3. CASE Fault("rmdir")
      BY <3>3, PricesStay DEF Excused
    <3> QED
      BY <3>1, <3>2, <3>3
  <2>7. CASE ~Render(p) /\ ~Settle(p)
    <3>1. UNCHANGED files
      BY <1>3, <2>7
         DEF Starts, Begin, Lifecycle, LockBox, Load, InspectBox, Touch, Decide,
           Mark, ComposeDown, ComposeUp, Verify, Commit, PersistError, Unlock,
           SyncLoopback,
           Preflight, NoTransaction, Runtime, EnsureRelay, ProbeRelay, ApplyBridge, HaltRelay,
           ApplyImports
    <3> QED
      BY <2>3, <2>4, <3>1, PricesStay DEF files, FilesAre
  <2> QED
    BY <2>5, <2>6, <2>7
<1> QED
  BY <1>1, <1>2, <1>3

\* The start and the runtime steps of a transaction.
LEMMA BeginFiles ==
  ASSUME FilesInv, [Next]_vars, NEW p \in Procs, BeginTransaction(p)
  PROVE  RequestKnown(p)' /\ job'[p].mode # "lifecycle"
<1> USE MoverKnown DEF FilesInv, PortInv, RecordInv
<1>1. /\ pc[p] = "transaction" /\ pc'[p] = "write" /\ job'[p].mode = "activate"
      /\ job'[p].rec = job[p].rec /\ ~job'[p].ok
      /\ job'[p].snapC = config /\ job'[p].snapO = override
      /\ saved' = saved /\ rendered' = rendered
  BY DEF BeginTransaction, Goto, Jobs, files, RecordKnown, Knows, Unfinished
<1>2. saved.maps = job[p].rec.maps
  BY <1>1 DEF RecordKnown, Knows, OwnRecord, Loaded, Undecided, InTransaction, PlainSteps
<1>3. FilesAre(saved.maps) \/ Excused
  <2>1. \A q \in Procs \ {p} : pc[q] = "idle"
    BY OneMoves DEF Step, Sidecar
  <2>2. \A q \in Procs : ~InTransaction(q) /\ pc[q] # "forget"
    BY <1>1, <2>1 DEF InTransaction, LockInv, ModeKnown, PlainSteps
  <2> QED
    BY <2>2, QuietFiles
<1>4. Excused => Excused'
  BY <1>1, PricesStay
<1>5. SnapKept(p)' \/ Excused'
  BY <1>1, <1>2, <1>3, <1>4 DEF SnapKept, FilesAre, PublicationsOf
<1> QED
  BY <1>1, <1>5 DEF RequestKnown, Failing, Undoing, Undecided

LEMMA RuntimeFiles ==
  ASSUME FilesInv, [Next]_vars, NEW p \in Procs, Runtime(p) \/ ApplyImports(p),
         job[p].mode # "lifecycle"
  PROVE  RequestKnown(p)' /\ job'[p].mode # "lifecycle"
<1> USE MoverKnown DEF FilesInv, PortInv, RecordInv
<1>1. /\ pc[p] \in RuntimeSteps
      /\ Proceeds(p, pc[p]) \/ FallsBack(p, pc[p])
      /\ UNCHANGED <<saved, rendered, config, override, docker, daemon>>
  BY RuntimeCosts
<1>2. /\ SameRequest(p) /\ job'[p].mode \in {"activate", "rollback"}
      /\ pc'[p] \in RuntimeSteps \cup {"save", "restate", "restore"}
      /\ job'[p].mode = "activate" => job[p].mode = "activate"
      /\ job[p].mode = "activate" /\ job'[p].mode = "rollback" => pc'[p] = "restore"
  BY <1>1, NextStep DEF Proceeds, FallsBack, SameRequest, RuntimeSteps, Modes
<1>3. ~job[p].ok
  BY <1>1 DEF RecordKnown, Knows, Unfinished, RuntimeSteps
<1>4. RequestKnown(p) /\ StatusKnown(p) /\ BoxKnown(p)
  BY DEF PortKnown
<1>5. rendered
  <2>1. job[p].rec.status = "ready" /\ OnPorts(p)
    BY <1>1, <1>4 DEF StatusKnown, OnPorts, InTransaction, RuntimeSteps
  <2> QED
    BY <1>4, <2>1 DEF BoxKnown, Standing, Stands, Present
<1>6. (Excused => Costly) /\ (Costly => Costly')
  BY <1>5, PricesStay DEF Excused
<1>7. SnapKept(p)' \/ Costly'
  BY <1>2, <1>3, <1>4, <1>6 DEF RequestKnown, SnapKept, SameRequest, PublicationsOf
<1>8. Undecided(p)' => saved'.maps = job'[p].rec.maps \/ Among({"save"})
  <2>1. CASE Undecided(p)
    BY <1>1, <1>2, <1>4, <2>1 DEF RequestKnown, SameRequest
  <2>2. CASE ~Undecided(p)
    BY <1>1, <1>2, <2>2
       DEF RecordKnown, Knows, OwnRecord, Loaded, SameRequest, RuntimeSteps
  <2> QED
    BY <2>1, <2>2
<1>9. pc'[p] \notin {"end", "unlock"}
  BY <1>2 DEF RuntimeSteps
<1>10. Undoing(p)' => Snapped(p)' \/ Costly'
  <2>1. CASE job[p].mode = "rollback"
    <3>1. Undoing(p)
      BY <1>1, <1>3, <2>1 DEF Undoing, Failing, RuntimeSteps
    <3> QED
      BY <1>1, <1>2, <1>4, <1>6, <3>1 DEF RequestKnown, Snapped, SameRequest
  <2>2. CASE job[p].mode = "activate"
    BY <1>2, <1>3, <2>2 DEF Undoing, Failing, SameRequest, RuntimeSteps
  <2> QED
    BY <2>1, <2>2 DEF Modes
<1> QED
  BY <1>2, <1>7, <1>8, <1>9, <1>10 DEF RequestKnown, Excused

LEMMA SilentFiles ==
  ASSUME FilesInv, [Next]_vars,
         \/ DaemonBegin \/ DaemonApply \/ Outage \/ UNCHANGED vars
         \/ \E p \in Procs : Expire(p)
  PROVE  FilesSettled' /\ \A p \in Procs : RequestKnown(p)'
<1> USE DEF FilesInv, PortInv, RecordInv
<1>1. /\ saved' = saved /\ pc' = pc /\ UNCHANGED files
      /\ \A q \in Procs :
           /\ job'[q].mode = job[q].mode /\ job'[q].rec = job[q].rec
           /\ job'[q].ok = job[q].ok
           /\ job'[q].snapC = job[q].snapC /\ job'[q].snapO = job[q].snapO
  BY DEF DaemonBegin, DaemonApply, Outage, Expire, vars, LockInv, TypeOK, Jobs
<1>2. (Costly => Costly') /\ (Excused => Excused')
  BY <1>1, PricesStay DEF files
<1>3. ASSUME NEW q \in Procs PROVE RequestKnown(q)'
  <2>1. /\ Failing(q)' <=> Failing(q)
        /\ Undoing(q)' <=> Undoing(q)
        /\ Undecided(q)' <=> Undecided(q)
    BY <1>1 DEF Failing, Undoing, Undecided, InTransaction
  <2>2. RequestKnown(q)
    OBVIOUS
  <2> QED
    BY <1>1, <1>2, <2>1, <2>2 DEF RequestKnown, SnapKept, Snapped, files
<1>4. FilesSettled'
  <2>1. Settled' <=> Settled
    BY <1>1 DEF Settled
  <2> QED
    BY <1>1, <1>2, <2>1 DEF FilesSettled, FilesAre, files
<1> QED
  BY <1>3, <1>4

LEMMA StepFiles ==
  ASSUME FilesInv, [Next]_vars, NEW p \in Procs, Starts(p) \/ Step(p) \/ Crash(p)
  PROVE  RequestKnown(p)' /\ FilesSettled'
<1> USE DEF FilesInv, PortInv, RecordInv
<1>1. CASE \/ Starts(p) \/ Lifecycle(p) \/ SyncLoopback(p) \/ Preflight(p)
           \/ NoTransaction(p) \/ Crash(p)
           \/ ((Runtime(p) \/ ApplyImports(p)) /\ job[p].mode = "lifecycle")
  <2>1. job'[p].mode = "lifecycle"
    BY <1>1, StepPlain
  <2>2. RequestKnown(p)'
    BY <2>1, PlainRequest
  <2>3. FilesSettled'
    BY <1>1, PlainFiles DEF FilesSettled, Settled
  <2> QED
    BY <2>2, <2>3
<1>2. CASE BeginTransaction(p)
  BY <1>2, BeginFiles DEF FilesSettled, Settled
<1>3. CASE (Runtime(p) \/ ApplyImports(p)) /\ job[p].mode # "lifecycle"
  BY <1>3, RuntimeFiles DEF FilesSettled, Settled
<1>4. CASE Transaction(p)
  <2>1. job'[p].mode # "lifecycle"
    <3>1. job[p].mode # "lifecycle"
      BY <1>4, MoverKnown
         DEF Transaction, Write, Unwrite, SaveCandidate, Unkeep, RestoreFiles,
             SaveRolledBack, Resave, EndTransaction, TransactionSteps
    <3> QED
      BY <1>4, <3>1, MoverKnown
         DEF Transaction, Write, Unwrite, SaveCandidate, Unkeep, RestoreFiles,
             SaveRolledBack, Resave, EndTransaction, Keep, Jobs
  <2> QED
    BY <1>4, <2>1, TransactionFiles DEF FilesSettled, Settled
<1> QED
  BY <1>1, <1>2, <1>3, <1>4 DEF Step, Sidecar

LEMMA NextFiles ==
  ASSUME FilesInv, [Next]_vars
  PROVE  FilesInv'
<1>1. PortInv' /\ LockInv'
  BY NextPort DEF FilesInv, PortInv, RecordInv
<1>2. ASSUME NEW p \in Procs, Starts(p) \/ Step(p) \/ Crash(p)
      PROVE  FilesSettled' /\ \A q \in Procs : RequestKnown(q)'
  <2>1. RequestKnown(p)' /\ FilesSettled'
    BY <1>2, StepFiles
  <2>2. ASSUME NEW q \in Procs \ {p} PROVE RequestKnown(q)'
    <3>1. pc'[q] = "idle"
      BY <1>2, OthersStay, OneMoves DEF FilesInv, PortInv, RecordInv
    <3>2. job'[q].mode = "lifecycle"
      BY <1>1, <3>1 DEF LockInv, ModeKnown, PlainSteps
    <3> QED
      BY <3>2, PlainRequest
  <2> QED
    BY <2>1, <2>2
<1>3. FilesSettled' /\ \A q \in Procs : RequestKnown(q)'
  BY <1>2, SilentFiles DEF Next
<1> QED
  BY <1>1, <1>3 DEF FilesInv

LEMMA InitFiles ==
  ASSUME Init
  PROVE  FilesInv
<1>1. PortInv
  BY InitPort
<1>2. FilesSettled
  BY DEF Init, FilesSettled, FilesAre, NoRecord
<1>3. ASSUME NEW p \in Procs PROVE RequestKnown(p)
  BY DEF Init, NoJob, NewJob, RequestKnown, Failing, Undoing, Undecided, InTransaction
<1> QED
  BY <1>1, <1>2, <1>3 DEF FilesInv

\* No command is killed and no removal stops half-way, and at most one step
\* fails, or any number of steps that do not write.
FewFailures ==
  /\ {"crash", "rmdir"} \cap MayFail = {}
  /\ MaxFaults <= 1 \/ {"save", "write"} \cap MayFail = {}

LEMMA NeverCostly ==
  ASSUME LockInv, FewFailures
  PROVE  ~Costly
<1>1. ~Among({"crash", "rmdir"})
  BY DEF FewFailures, Among
<1>2. Among({"save", "write"}) => faults <= 1
  BY BoxAssumption DEF FewFailures, Among, LockInv, TypeOK
<1>3. faults \in Nat
  BY FaultsCount
<1> QED
  BY <1>1, <1>2, <1>3 DEF Costly

\* The files of a box at rest are those of its record, unless it is degraded.
THEOREM FilesAgreeAtRest ==
  ASSUME FewFailures
  PROVE  Spec => []FilesAgree
<1>1. ASSUME FilesInv PROVE FilesAgree
  <2>1. SUFFICES ASSUME globalLock = NoOne, docker # "absent"
                 PROVE  config = saved.maps /\ override = PublicationsOf(saved)
    BY DEF FilesAgree
  <2>2. \A p \in Procs : pc[p] = "idle"
    BY <1>1, <2>1, BoxAssumption DEF FilesInv, PortInv, RecordInv, LockInv, LocksHeld
  <2>3. \A p \in Procs : ~InTransaction(p) /\ pc[p] # "forget"
    BY <1>1, <2>2
       DEF FilesInv, PortInv, RecordInv, LockInv, ModeKnown, PlainSteps, InTransaction
  <2>4. rendered
    BY <1>1, <2>1 DEF FilesInv, PortInv, Standing, Stands, Present
  <2>5. ~Costly
    BY <1>1, NeverCostly DEF FilesInv, PortInv, RecordInv
  <2> QED
    BY <1>1, <2>3, <2>4, <2>5, QuietFiles DEF Excused, FilesAre, PublicationsOf
<1>2. Init => FilesInv
  BY InitFiles
<1>3. FilesInv /\ [Next]_vars => FilesInv'
  BY NextFiles
<1> QED
  BY <1>1, <1>2, <1>3, PTL DEF Spec

\* The sidecar never reads a candidate: what it reconciles is the record.
THEOREM CandidateStaysHidden ==
  ASSUME FewFailures
  PROVE  Spec => []CandidateHidden
<1>1. ASSUME FilesInv PROVE CandidateHidden
  <2>1. SUFFICES ASSUME daemon = "apply"
                 PROVE  config \cap Imports = ImportsOf(saved)
    BY DEF CandidateHidden
  <2>2. \A p \in Procs : ~InTransaction(p)
    BY <1>1, <2>1, BoxAssumption DEF FilesInv, PortInv, RecordInv, LockInv, LocksHeld
  <2>3. Present /\ rendered
    BY <1>1, <2>1 DEF FilesInv, PortInv, Standing, Stands, Present, Reachable
  <2>4. \A p \in Procs : pc[p] # "forget"
    BY <1>1, <2>3 DEF FilesInv, PortInv, Standing, Position
  <2>5. ~Costly
    BY <1>1, NeverCostly DEF FilesInv, PortInv, RecordInv
  <2> QED
    BY <1>1, <2>2, <2>3, <2>4, <2>5, QuietFiles DEF Excused, FilesAre, ImportsOf
<1>2. Init => FilesInv
  BY InitFiles
<1>3. FilesInv /\ [Next]_vars => FilesInv'
  BY NextFiles
<1> QED
  BY <1>1, <1>2, <1>3, PTL DEF Spec

-----------------------------------------------------------------------------
(***************************************************************************)
(* What up and restart have restored, on their way to the commit.  An       *)
(* outage may take it away; files that are not those of the record, which   *)
(* costs what Costly says, may keep it from being restored.                 *)
(***************************************************************************)

Restores(p) == job[p].mode = "lifecycle" /\ job[p].op \in {"ensure", "restart"}

Fresh(p) ==
  /\ pc[p] \in {"box", "load", "render", "decide", "mark"} => ~job[p].fast
  /\ pc[p] = "mark" => job[p].op # "ensure"
  /\ pc[p] \in {"render", "decide"} => job[p].op = "ensure"
  /\ pc[p] = "relay" /\ job[p].mode = "lifecycle" /\ job[p].fast => job[p].op = "ensure"
Restoring(p) ==
  /\ (pc[p] = "relay" /\ job[p].fast)
       \/ pc[p] \in {"verify", "bridge", "probe", "imports", "commit"} => docker = "running"
  /\ pc[p] \in {"down", "up", "verify", "bridge", "probe", "imports", "commit"}
       => (ImportsOf(job[p].rec) # {} => relay)
  /\ pc[p] \in {"probe", "imports", "commit"} => PublicationsOf(job[p].rec) \subseteq bridge \/ Costly
  /\ pc[p] = "commit" => ImportsOf(job[p].rec) \subseteq proxies \/ Costly
Serving(p) == Fresh(p) /\ (Restores(p) => OutageSeen \/ Restoring(p))

ServingInv == FilesInv /\ \A p \in Procs : Serving(p)

RestoringSteps == {"relay", "down", "up", "verify", "bridge", "probe", "imports", "commit"}

LEMMA ServesNothing ==
  ASSUME NEW p \in Procs, Fresh(p)',
         pc'[p] \notin RestoringSteps \/ job'[p].mode # "lifecycle"
  PROVE  Serving(p)'
BY DEF Serving, Restores, Restoring, RestoringSteps

\* A box that up or restart works on has the files of its record.
LEMMA RestoringFiles ==
  ASSUME FilesInv, NEW p \in Procs, job[p].mode = "lifecycle", docker = "running",
         pc[p] \in {"bridge", "probe", "imports", "commit"}
  PROVE  (/\ config = job[p].rec.maps /\ override = PublicationsOf(job[p].rec)
          /\ job[p].rec.maps = saved.maps) \/ Costly
<1> USE MoverKnown DEF FilesInv, PortInv, RecordInv
<1>1. \A q \in Procs \ {p} : pc[q] = "idle"
  BY OthersIdle
<1>2. \A q \in Procs : ~InTransaction(q) /\ pc[q] # "forget"
  BY <1>1 DEF InTransaction, LockInv, ModeKnown, PlainSteps
<1>3. rendered
  BY DEF Standing, Stands, Present
<1>4. job[p].rec.maps = saved.maps
  BY DEF RecordKnown, Knows, OwnRecord, Loaded, Undecided, InTransaction
<1> QED
  BY <1>2, <1>3, <1>4, QuietFiles DEF Excused, FilesAre, PublicationsOf

LEMMA RestoringRuntime ==
  ASSUME ServingInv, [Next]_vars, NEW p \in Procs, job[p].mode = "lifecycle",
         Runtime(p) \/ ApplyImports(p)
  PROVE  Serving(p)'
<1> USE MoverKnown DEF ServingInv, FilesInv, PortInv, RecordInv
<1>1. /\ pc[p] \in RuntimeSteps /\ docker' = docker
      /\ Proceeds(p, pc[p]) \/ FallsBack(p, pc[p])
  <2>1. pc[p] \in RuntimeSteps /\ docker' = docker
          /\ (Proceed(p, pc[p]) \/ Fallback(p, pc[p]))
    BY DEF Runtime, EnsureRelay, ProbeRelay, ApplyBridge, HaltRelay, ApplyImports, Skip,
           RuntimeSteps
  <2> QED
    BY <2>1, RuntimeStep
<1>2. job'[p] = job[p] /\ pc'[p] \in {AfterStep(p, pc[p]), "error"}
  BY <1>1 DEF Proceeds, FallsBack
<1>3. pc'[p] \notin {"box", "load", "render", "decide", "mark", "relay"}
  BY <1>1, <1>2, NextStep DEF RuntimeSteps
<1>4. Fresh(p)'
  BY <1>3 DEF Fresh
<1>5. ASSUME pc'[p] # "error", Restores(p), pc[p] # "halt"
      PROVE  OutageSeen' \/ Restoring(p)'
  <2>1. /\ ~Fallback(p, pc[p]) /\ pc'[p] = AfterStep(p, pc[p]) /\ ~job[p].expired
        /\ Target(p) = job[p].rec
    BY <1>2, <1>5, PlainLocals DEF Fallback, Goto, Target
  <2>2. /\ pc[p] = "relay" => pc'[p] \in {"bridge", "down", "up"}
                              /\ (pc'[p] = "bridge" => job[p].fast)
        /\ pc[p] = "bridge" => pc'[p] = "probe"
        /\ pc[p] = "probe" => pc'[p] = "imports"
        /\ pc[p] = "imports" => pc'[p] = "commit"
    BY <2>1, NextStep
  <2>3. (Costly => Costly') /\ (OutageSeen => OutageSeen')
    BY PricesStay, FaultsGrow, FaultsCount
  <2>4. SUFFICES ASSUME ~OutageSeen PROVE Restoring(p)'
    BY <2>3
  <2>5. Restoring(p)
    BY <1>5, <2>4 DEF Serving
  <2>6. CASE pc[p] = "relay"
    <3>1. ImportsOf(job[p].rec) # {} => relay'
      BY <2>1, <2>6 DEF Runtime, EnsureRelay, ProbeRelay, ApplyBridge, HaltRelay, ApplyImports,
                        Skip, Needed, NeededByLifecycle
    <3> QED
      BY <1>1, <1>2, <2>2, <2>5, <2>6, <3>1 DEF Restoring, ImportsOf
  <2>7. CASE pc[p] = "probe"
    <3>1. UNCHANGED <<relay, bridge, proxies>>
      BY <2>7 DEF Runtime, EnsureRelay, ProbeRelay, ApplyBridge, HaltRelay, ApplyImports
    <3> QED
      BY <1>1, <1>2, <2>2, <2>3, <2>5, <2>7, <3>1 DEF Restoring, ImportsOf, PublicationsOf
  <2>8. CASE pc[p] = "bridge"
    <3>1. ApplyBridge(p) /\ relay' = relay
      BY <2>8 DEF Runtime, EnsureRelay, ProbeRelay, ApplyBridge, HaltRelay, ApplyImports, Skip
    <3>2. PublicationsOf(job[p].rec) # {} => bridge' = override \cap config
      BY <2>1, <2>8, <3>1 DEF ApplyBridge, Bridged, Skip, Needed, NeededByLifecycle
    <3>3. docker = "running"
      BY <2>5, <2>8 DEF Restoring
    <3>4. PublicationsOf(job[p].rec) \subseteq bridge' \/ Costly
      BY <2>8, <3>2, <3>3, RestoringFiles DEF PublicationsOf
    <3> QED
      BY <1>1, <1>2, <2>2, <2>3, <2>5, <2>8, <3>1, <3>3, <3>4
         DEF Restoring, ImportsOf, PublicationsOf
  <2>9. CASE pc[p] = "imports"
    <3>1. ApplyImports(p) /\ relay' = relay /\ bridge' = bridge
      BY <2>9 DEF Runtime, EnsureRelay, ProbeRelay, ApplyBridge, HaltRelay, ApplyImports, Skip
    <3>2. ImportsOf(job[p].rec) # {} => proxies' = config \cap Imports
      BY <2>1, <2>9, <3>1 DEF ApplyImports, Skip, Needed, NeededByLifecycle
    <3>3. docker = "running"
      BY <2>5, <2>9 DEF Restoring
    <3>4. ImportsOf(job[p].rec) \subseteq proxies' \/ Costly
      BY <2>9, <3>2, <3>3, RestoringFiles DEF ImportsOf
    <3> QED
      BY <1>1, <1>2, <2>2, <2>3, <2>5, <2>9, <3>1, <3>3, <3>4
         DEF Restoring, ImportsOf, PublicationsOf
  <2> QED
    BY <1>1, <1>5, <2>6, <2>7, <2>8, <2>9 DEF RuntimeSteps
<1>6. CASE pc'[p] \in {"error", "settle"}
  BY <1>4, <1>6, ServesNothing DEF RestoringSteps
<1>7. pc[p] = "halt" => pc'[p] \in {"error", "settle"}
  BY <1>2, NextStep
<1> QED
  BY <1>2, <1>4, <1>5, <1>6, <1>7 DEF Serving, Restores

\* The Compose steps of up and restart.
LEMMA RestoringCompose ==
  ASSUME ServingInv, [Next]_vars, NEW p \in Procs,
         ComposeDown(p) \/ ComposeUp(p) \/ Verify(p)
  PROVE  Serving(p)'
<1> USE MoverKnown DEF ServingInv, FilesInv, PortInv, RecordInv
<1>1. /\ job' = job /\ relay' = relay /\ job[p].mode = "lifecycle"
      /\ pc'[p] \in {"up", "halt", "error", "verify", "bridge"}
      /\ pc[p] \in {"down", "up", "verify"}
  BY DEF ComposeDown, ComposeUp, Verify, Goto, runtime, PlainSteps
<1>2. Fresh(p)'
  BY <1>1 DEF Fresh
<1>3. CASE pc'[p] \in {"halt", "error"}
  BY <1>2, <1>3, ServesNothing DEF RestoringSteps
<1>4. CASE pc'[p] \in {"up", "verify", "bridge"}
  <2>1. pc'[p] \in {"verify", "bridge"} => docker' = "running" \/ (docker' = docker /\ pc[p] = "verify")
    BY <1>4 DEF ComposeDown, ComposeUp, Verify, Goto, runtime
  <2>2. OutageSeen => OutageSeen'
    BY FaultsGrow, FaultsCount
  <2>3. Restoring(p) => Restoring(p)'
    BY <1>1, <1>4, <2>1 DEF Restoring, ImportsOf
  <2> QED
    BY <1>1, <1>2, <2>2, <2>3 DEF Serving, Restores
<1> QED
  BY <1>1, <1>3, <1>4

LEMMA RestoringStart ==
  ASSUME ServingInv, [Next]_vars, NEW p \in Procs,
         \/ Starts(p) \/ LockBox(p) \/ Load(p) \/ Render(p) \/ Decide(p) \/ Mark(p)
  PROVE  Serving(p)'
<1> USE MoverKnown DEF ServingInv, FilesInv, PortInv, RecordInv
<1>1. CASE Starts(p)
  BY <1>1, ServesNothing DEF Starts, Begin, Goto, NewJob, Fresh, RestoringSteps
<1>2. CASE ~Starts(p)
  <2>1. /\ pc[p] \in {"box", "load", "render", "decide", "mark"}
        /\ ~job[p].fast /\ job[p].mode = "lifecycle"
    BY <1>2 DEF LockBox, Load, Render, Decide, Mark, Serving, Fresh, PlainSteps
  <2>2. CASE Load(p)
    <3>1. job[p].op \in Ops
      BY DEF Jobs
    <3>2. FirstStep[job[p].op] \notin RestoringSteps
      BY <3>1 DEF FirstStep, Ops, PortOps, RestoringSteps
    <3>3. ~job'[p].fast /\ job'[p].op = job[p].op
      BY <2>1, <2>2 DEF Load, Jobs
    <3>4. pc'[p] = FirstStep[job[p].op] \/ pc'[p] = "unlock"
      <4>1. \/ Goto(p, FirstStep[job[p].op])
            \/ Goto(p, "unlock")
        BY <2>2 DEF Load
      <4> QED
        BY <4>1 DEF Goto
    <3>5. /\ FirstStep[job[p].op] = "mark" => job[p].op # "ensure"
          /\ FirstStep[job[p].op] = "render" => job[p].op = "ensure"
          /\ FirstStep[job[p].op] \notin {"decide", "relay"}
      BY <3>1 DEF FirstStep, Ops, PortOps
    <3>6. pc'[p] \notin RestoringSteps
      BY <3>2, <3>4 DEF RestoringSteps
    <3> QED
      BY <3>3, <3>4, <3>5, <3>6, ServesNothing DEF Fresh
  <2>3. CASE LockBox(p) \/ Render(p)
    <3>1. /\ pc'[p] \in {"load", "decide", "unlock"}
          /\ pc'[p] = "decide" => job[p].op = "ensure"
      BY <2>3 DEF LockBox, Render, Goto, Serving, Fresh
    <3>2. ~job'[p].fast /\ job'[p].op = job[p].op
      <4>1. job' = job \/ \E c \in BOOLEAN : job' = [job EXCEPT ![p].changed = c]
        BY <2>3 DEF LockBox, Render, Keep
      <4> QED
        BY <2>1, <4>1 DEF Jobs
    <3> QED
      BY <3>1, <3>2, ServesNothing DEF Fresh, RestoringSteps
  <2>4. CASE Decide(p)
    <3>1. pc'[p] \in {"relay", "unlock"} /\ docker' = docker
      BY <2>4 DEF Decide, Goto, runtime
    <3>2. Fresh(p)'
      <4>1. job[p].op = "ensure"
        BY <2>4 DEF Decide, Serving, Fresh
      <4>2. job'[p].op = job[p].op
        BY <2>4, DecideInner DEF Inner, SameMode
      <4> QED
        BY <3>1, <4>1, <4>2 DEF Fresh
    <3>3. CASE FastPath(p)
      <4>1. docker' = "running"
        BY <3>1, <3>3 DEF FastPath, ReadyFor
      <4> QED
        BY <3>1, <3>2, <4>1 DEF Serving, Restoring
    <3>4. CASE ~FastPath(p)
      <4>1. ~job'[p].fast
        BY <2>1, <2>4, <3>4 DEF Decide, Keep, Jobs
      <4> QED
        BY <3>1, <3>2, <4>1 DEF Serving, Restoring
    <3> QED
      BY <3>3, <3>4
  <2>5. CASE Mark(p)
    <3>1. /\ pc'[p] \in {"relay", "down", "unlock"} /\ ~job'[p].fast
          /\ job'[p].op = job[p].op
          /\ pc'[p] = "down" => job[p].op # "restart"
      BY <2>1, <2>5 DEF Mark, Goto, Keep, Jobs
    <3>2. job[p].op # "ensure"
      BY <2>5 DEF Mark, Serving, Fresh
    <3> QED
      BY <3>1, <3>2 DEF Serving, Fresh, Restores, Restoring
  <2> QED
    BY <1>2, <2>2, <2>3, <2>4, <2>5
<1> QED
  BY <1>1, <1>2

LEMMA RestoringRest ==
  ASSUME ServingInv, [Next]_vars, NEW p \in Procs,
         \/ Unlock(p) \/ InspectBox(p) \/ Touch(p) \/ Commit(p) \/ PersistError(p)
         \/ Settle(p) \/ Forget(p) \/ SyncLoopback(p) \/ Preflight(p) \/ NoTransaction(p)
         \/ BeginTransaction(p) \/ Transaction(p) \/ Crash(p)
         \/ ((Runtime(p) \/ ApplyImports(p)) /\ job[p].mode # "lifecycle")
  PROVE  Serving(p)'
<1> USE MoverKnown DEF ServingInv, FilesInv, PortInv, RecordInv
<1>1. CASE (Runtime(p) \/ ApplyImports(p)) /\ job[p].mode # "lifecycle"
  <2>1. job'[p].mode # "lifecycle" /\ pc[p] \in RuntimeSteps
          /\ (pc'[p] = AfterStep(p, pc[p]) \/ pc'[p] = "restore")
    <3>1. pc[p] \in RuntimeSteps /\ (Proceeds(p, pc[p]) \/ FallsBack(p, pc[p]))
      BY <1>1, RuntimeCosts
    <3> QED
      BY <1>1, <3>1 DEF Proceeds, FallsBack
  <2>2. pc'[p] \in {"bridge", "probe", "imports", "halt", "save", "restate", "restore"}
    BY <1>1, <2>1, NextStep DEF RuntimeSteps, Modes
  <2> QED
    BY <2>1, <2>2, ServesNothing DEF Fresh
<1>2. CASE Transaction(p)
  <2>1. pc'[p] \in {"unwrite", "keep", "relay", "end", "unkeep", "restore", "resave", "unlock"}
    BY <1>2 DEF Transaction, Write, Unwrite, SaveCandidate, Unkeep, RestoreFiles,
                SaveRolledBack, Resave, EndTransaction, Goto
  <2>2. pc'[p] = "relay" => pc[p] \in {"write", "restore"} /\ job'[p].mode = job[p].mode
    BY <1>2 DEF Transaction, Write, Unwrite, SaveCandidate, Unkeep, RestoreFiles,
                SaveRolledBack, Resave, EndTransaction, Goto, Keep, Jobs
  <2> QED
    BY <2>1, <2>2, ServesNothing DEF TransactionSteps, RestoringSteps, Fresh
<1>3. CASE \/ Unlock(p) \/ InspectBox(p) \/ Touch(p) \/ Commit(p) \/ PersistError(p)
           \/ Settle(p) \/ Forget(p) \/ SyncLoopback(p) \/ Preflight(p) \/ NoTransaction(p)
           \/ BeginTransaction(p) \/ Crash(p)
  <2>1. pc'[p] \in {"idle", "unlock", "forget", "transaction", "write"}
    BY <1>3 DEF Unlock, InspectBox, Touch, Commit, PersistError, Settle, Forget,
                SyncLoopback,
                Preflight, NoTransaction, BeginTransaction, Crash, Finish, Goto
  <2> QED
    BY <2>1, ServesNothing DEF Fresh, RestoringSteps
<1> QED
  BY <1>1, <1>2, <1>3

LEMMA RestoringSilent ==
  ASSUME ServingInv, [Next]_vars, NEW q \in Procs,
         \/ DaemonBegin \/ DaemonApply \/ Outage \/ UNCHANGED vars
         \/ \E p \in Procs : Expire(p)
  PROVE  Serving(q)'
<1> USE DEF ServingInv, FilesInv, PortInv, RecordInv
<1>1. /\ pc' = pc
      /\ job'[q].mode = job[q].mode /\ job'[q].rec = job[q].rec
      /\ job'[q].op = job[q].op /\ job'[q].fast = job[q].fast
  BY DEF DaemonBegin, DaemonApply, Outage, Expire, vars, LockInv, TypeOK, Jobs
<1>2. Fresh(q)'
  BY <1>1 DEF Serving, Fresh
<1>3. (Costly => Costly') /\ (OutageSeen => OutageSeen') /\ (Outage => OutageSeen')
  <2>1. Outage => faults' = faults + 1 /\ Among({"outage"})
    BY FaultsCount DEF Outage
  <2>2. faults \in Nat /\ (OutageSeen => OutageSeen')
    BY FaultsGrow, FaultsCount
  <2> QED
    BY <2>1, <2>2, PricesStay DEF OutageSeen
<1>4. ASSUME Restores(q), Restoring(q), ~Outage PROVE Restoring(q)'
  <2>1. UNCHANGED <<docker, bridge, relay>>
    BY <1>4 DEF DaemonBegin, DaemonApply, Expire, vars, runtime
  <2>2. pc[q] = "commit" => ImportsOf(job[q].rec) \subseteq proxies' \/ Costly
    <3>1. CASE DaemonApply
      <4>1. SUFFICES ASSUME pc[q] = "commit", ~Costly
                     PROVE  ImportsOf(job[q].rec) \subseteq proxies'
        OBVIOUS
      <4>2. docker = "running" /\ ImportsOf(job[q].rec) \subseteq proxies
        BY <1>4, <4>1 DEF Restoring
      <4>3. config = job[q].rec.maps
        BY <1>4, <4>1, <4>2, RestoringFiles DEF Restores
      <4>4. proxies' = config \cap Imports \/ proxies' = proxies
        BY <3>1 DEF DaemonApply
      <4> QED
        BY <4>2, <4>3, <4>4 DEF ImportsOf
    <3>2. CASE ~DaemonApply
      BY <1>4, <3>2 DEF DaemonBegin, Expire, vars, runtime, sidecar, Restoring
    <3> QED
      BY <3>1, <3>2
  <2> QED
    BY <1>1, <1>3, <1>4, <2>1, <2>2 DEF Restoring, ImportsOf, PublicationsOf
<1>5. CASE ~Outage
  BY <1>1, <1>2, <1>3, <1>4, <1>5 DEF Serving, Restores
<1>6. CASE Outage
  BY <1>1, <1>2, <1>3, <1>6 DEF Serving, Restores
<1> QED
  BY <1>5, <1>6

LEMMA NextServing ==
  ASSUME ServingInv, [Next]_vars
  PROVE  ServingInv'
<1>1. FilesInv' /\ LockInv'
  BY NextFiles DEF ServingInv, FilesInv, PortInv, RecordInv
<1>2. ASSUME NEW p \in Procs, Starts(p) \/ Step(p) \/ Crash(p)
      PROVE  \A q \in Procs : Serving(q)'
  <2>1. Serving(p)'
    BY <1>2, RestoringStart, RestoringCompose, RestoringRuntime, RestoringRest
       DEF Step, Lifecycle, Sidecar
  <2>2. ASSUME NEW q \in Procs \ {p} PROVE Serving(q)'
    <3>1. pc'[q] = "idle"
      BY <1>2, OthersStay, OneMoves DEF ServingInv, FilesInv, PortInv, RecordInv
    <3> QED
      BY <3>1, ServesNothing DEF RestoringSteps, Fresh
  <2> QED
    BY <2>1, <2>2
<1>3. \A q \in Procs : Serving(q)'
  BY <1>2, RestoringSilent DEF Next
<1> QED
  BY <1>1, <1>3 DEF ServingInv

LEMMA InitServing ==
  ASSUME Init
  PROVE  ServingInv
<1>1. ASSUME NEW p \in Procs PROVE Serving(p)
  BY DEF Init, Serving, Fresh, Restores, Restoring, NoJob, NewJob
<1> QED
  BY <1>1, InitFiles DEF ServingInv

\* When up or restart succeeds, every mapping is served, as long as the files
\* follow the record and no container dies on the way.
THEOREM UpRestoresAll ==
  ASSUME FewFailures, "outage" \notin MayFail
  PROVE  Spec => UpRestores
<1>1. ASSUME ServingInv, [Next]_vars
      PROVE  [\A p \in Procs :
                Succeeds(p, "ensure") \/ Succeeds(p, "restart") => Serves(job[p].rec)]_vars
  <2>1. SUFFICES ASSUME NEW p \in Procs, Succeeds(p, "ensure") \/ Succeeds(p, "restart")
                 PROVE  Serves(job[p].rec)
    OBVIOUS
  <2>2. pc[p] = "commit" /\ job[p].op \in {"ensure", "restart"}
    BY <2>1 DEF Succeeds
  <2>3. job[p].mode = "lifecycle"
    BY <1>1, <2>2, MoverKnown DEF ServingInv, FilesInv, PortInv, RecordInv, PlainSteps
  <2>4. ~Costly
    BY <1>1, NeverCostly DEF ServingInv, FilesInv, PortInv, RecordInv
  <2>5. ~OutageSeen
    BY DEF OutageSeen, Among
  <2>6. Restoring(p)
    BY <1>1, <2>2, <2>3, <2>5 DEF ServingInv, Serving, Restores
  <2> QED
    BY <2>2, <2>4, <2>6 DEF Restoring, Serves
<1>2. Init => ServingInv
  BY InitServing
<1>3. ServingInv /\ [Next]_vars => ServingInv'
  BY NextServing
<1> QED
  BY <1>1, <1>2, <1>3, PTL DEF Spec, UpRestores

-----------------------------------------------------------------------------
(***************************************************************************)
(* What a rollback admits.  A rollback of which a part fails has met its    *)
(* second failure, and a record that does not say so its third: the one     *)
(* exception is a write that fails twice before anything was saved.         *)
(***************************************************************************)

Unusual == Among({"write", "timeout", "crash", "rmdir", "outage"})
BadLuck ==
  /\ faults >= 2 /\ Among({"save", "write", "timeout"})
  /\ Unusual \/ faults >= 4

Confessed(p) ==
  /\ job[p].bad => faults >= 2 \/ Unusual
  /\ job[p].bad /\ pc[p] = "resave" => faults >= 3 \/ Unusual
  /\ Failing(p) /\ pc[p] \in {"end", "unlock"} /\ (job[p].bad \/ ~Snapped(p))
       => saved.rtErr \/ BadLuck

ConfessedInv == FilesInv /\ \A p \in Procs : Confessed(p)

LEMMA KindsOfFailure ==
  /\ Among({"write"}) => Unusual /\ Among({"save", "write", "timeout"})
  /\ Among({"timeout"}) => Unusual /\ Among({"save", "write", "timeout"})
  /\ Among({"save"}) => Among({"save", "write", "timeout"})
  /\ Among({"crash", "rmdir"}) \/ Among({"outage"}) => Unusual
BY DEF Among, Unusual

LEMMA PlainConfessed ==
  ASSUME NEW p \in Procs, job'[p].mode = "lifecycle", ~job'[p].bad
  PROVE  Confessed(p)'
BY DEF Confessed, Failing

\* A rollback goes on from a runtime step unless that step costs a failure, or
\* something unusual happened.
LEMMA RollbackStep ==
  ASSUME FilesInv, [Next]_vars, NEW p \in Procs, job[p].mode = "rollback",
         Runtime(p) \/ ApplyImports(p)
  PROVE  Proceeds(p, pc[p]) \/ faults' >= 2 \/ Unusual
<1> USE MoverKnown DEF FilesInv, PortInv, RecordInv
<1>1. /\ pc[p] \in RuntimeSteps /\ ~job[p].ok /\ Failing(p) /\ Undoing(p)
      /\ job[p].rec.status = "ready" /\ InTransaction(p)
  <2>1. pc[p] \in RuntimeSteps
    BY RuntimeCosts
  <2>2. ~job[p].ok /\ StatusKnown(p)
    BY <2>1 DEF PortKnown, RecordKnown, Knows, Unfinished, RuntimeSteps
  <2> QED
    BY <2>1, <2>2 DEF StatusKnown, Failing, Undoing, RuntimeSteps, InTransaction
<1>2. Priced(p) /\ BoxKnown(p) /\ RequestKnown(p)
  BY DEF PortKnown
<1>3. faults \in Nat /\ faults >= 1
  BY <1>1, <1>2, PricesStay DEF Priced
<1>4. SUFFICES ASSUME ~Unusual, ~(faults' >= 2)
               PROVE  Proceeds(p, pc[p])
  OBVIOUS
<1>5. ~Costly /\ ~OutageSeen /\ ~job[p].expired
  <2>1. ~(faults >= 2)
    BY <1>3, <1>4, PricesStay
  <2> QED
    BY <1>2, <1>4, <2>1, KindsOfFailure DEF Costly, OutageSeen, Priced
<1>6. docker = "running" /\ rendered
  BY <1>1, <1>2, <1>5 DEF BoxKnown, OnPorts, Standing, Stands, Present
<1>7. override = PublicationsOf(job[p].rec)
  BY <1>1, <1>2, <1>5 DEF RequestKnown, Snapped, SnapKept
<1>8. Target(p) = job[p].rec /\ ComposeAccepts(job[p].rec) /\ Reachable
  BY <1>6, <1>7 DEF Target, ComposeAccepts, Reachable
<1>9. \A k : ~Fault(k)
  BY <1>3, <1>4 DEF Fault
<1>10. ~Needed(p, "probe")
  BY DEF Needed, NeededByRollback
<1>11. Proceed(p, pc[p])
  <2>1. CASE EnsureRelay(p)
    BY <1>5, <1>9, <2>1 DEF EnsureRelay, Skip, Fails
  <2>2. CASE ProbeRelay(p)
    BY <1>10, <2>2 DEF ProbeRelay, Skip
  <2>3. CASE ApplyBridge(p)
    BY <1>5, <1>8, <1>9, <2>3 DEF ApplyBridge, Skip, Fails
  <2>4. CASE HaltRelay(p)
    BY <1>5, <1>9, <2>4 DEF HaltRelay, Skip, Fails
  <2>5. CASE ApplyImports(p)
    BY <1>5, <1>8, <1>9, <2>5 DEF ApplyImports, Skip, Fails
  <2> QED
    BY <2>1, <2>2, <2>3, <2>4, <2>5 DEF Runtime
<1> QED
  BY <1>1, <1>11, RuntimeStep

LEMMA RuntimeConfessed ==
  ASSUME ConfessedInv, [Next]_vars, NEW p \in Procs, job[p].mode # "lifecycle",
         Runtime(p) \/ ApplyImports(p)
  PROVE  Confessed(p)'
<1> USE MoverKnown DEF ConfessedInv, FilesInv, PortInv, RecordInv
<1>1. /\ pc[p] \in RuntimeSteps
      /\ Proceeds(p, pc[p]) \/ FallsBack(p, pc[p])
  BY RuntimeCosts
<1>2. pc'[p] \notin {"resave", "end", "unlock"}
  <2>1. pc'[p] = AfterStep(p, pc[p]) \/ pc'[p] = "restore"
    BY <1>1 DEF Proceeds, FallsBack
  <2> QED
    BY <1>1, <2>1, NextStep DEF RuntimeSteps, Modes
<1>3. Confessed(p) /\ Priced(p)
  BY DEF PortKnown
<1>4. faults \in Nat /\ faults' \in Nat /\ faults' >= faults
  BY PricesStay
<1>5. job'[p].bad => faults' >= 2 \/ Unusual
  <2>1. CASE job[p].mode = "activate"
    <3>1. ~job'[p].bad
      BY <1>1, <1>3, <2>1 DEF Proceeds, FallsBack, Priced
    <3> QED
      BY <3>1
  <2>2. CASE job[p].mode = "rollback"
    <3>1. Proceeds(p, pc[p]) => job'[p].bad = job[p].bad
      BY DEF Proceeds
    <3>2. job[p].bad => faults' >= 2 \/ Unusual
      BY <1>3, <1>4 DEF Confessed
    <3> QED
      BY <2>2, <3>1, <3>2, RollbackStep
  <2> QED
    BY <2>1, <2>2 DEF Modes
<1> QED
  BY <1>2, <1>5 DEF Confessed, Unusual, Among

LEMMA TransactionConfessed ==
  ASSUME ConfessedInv, [Next]_vars, NEW p \in Procs, Transaction(p)
  PROVE  Confessed(p)'
<1> USE MoverKnown, KindsOfFailure DEF ConfessedInv, FilesInv, PortInv, RecordInv
<1>1. Confessed(p) /\ Priced(p) /\ FilesKnown(p) /\ StatusKnown(p)
  BY DEF PortKnown
<1>2. /\ faults \in Nat /\ faults' \in Nat /\ faults' >= faults
      /\ BadLuck => BadLuck'
      /\ Unusual' <=> Unusual
  <2>1. faults \in Nat /\ faults' \in Nat /\ faults' >= faults
    BY PricesStay
  <2> QED
    BY <2>1 DEF BadLuck, Unusual, Among
<1>3. CASE pc[p] = "end"
  <2>1. /\ pc'[p] = "unlock" /\ job' = job /\ UNCHANGED <<saved, config, override>>
    BY <1>3 DEF Transaction, Write, Unwrite, SaveCandidate, Unkeep, RestoreFiles,
                SaveRolledBack, Resave, EndTransaction, Goto, files
  <2>2. Failing(p)' => Failing(p)
    BY <1>3, <2>1 DEF Failing
  <2> QED
    BY <1>1, <1>2, <1>3, <2>1, <2>2 DEF Confessed, Snapped
<1>4. CASE pc[p] # "end"
  <2>1. \/ WriteStep(p) \/ UnwriteStep(p) \/ SaveStep(p) \/ UnkeepStep(p)
        \/ RestoreStep(p) \/ RestateStep(p) \/ ResaveStep(p)
    BY <1>4, TransactionStep
  <2>2. ~job[p].ok /\ job[p].mode \in {"activate", "rollback"}
    <3>1. pc[p] \in TransactionSteps \ {"end"}
      BY <2>1 DEF WriteStep, UnwriteStep, SaveStep, UnkeepStep, RestoreStep, RestateStep,
                  ResaveStep, TransactionSteps
    <3> QED
      BY <3>1, InTransactionKnows DEF Modes
  <2>3. Failing(p) => faults >= 1
    BY <1>1 DEF Priced
  <2>4. job[p].bad => faults' >= 2 \/ Unusual
    BY <1>1, <1>2 DEF Confessed
  <2>5. CASE WriteStep(p) \/ SaveStep(p)
    <3>1. ~job'[p].bad
      BY <1>1, <2>5, MoverKnown DEF WriteStep, SaveStep, Priced, ActivationSteps
    <3>2. Failing(p)' => pc'[p] \notin {"end", "unlock"}
      BY <2>5 DEF WriteStep, SaveStep, Failing
    <3> QED
      BY <3>1, <3>2 DEF Confessed
  <2>6. CASE UnwriteStep(p)
    <3>1. Failing(p) /\ ~job'[p].bad
      BY <1>1, <2>2, <2>6 DEF UnwriteStep, Failing, Priced, StatusKnown
    <3>2. Snapped(p)' \/ BadLuck'
      <4>1. CASE Paid("write")
        <5>1. faults' >= 2 /\ Unusual
          BY <1>2, <2>3, <3>1, <4>1 DEF Paid
        <5>2. Among({"save", "write", "timeout"})
          BY <4>1 DEF Paid
        <5> QED
          BY <1>2, <5>1, <5>2 DEF BadLuck, Among
      <4> QED
        BY <2>6, <4>1 DEF UnwriteStep, Snapped
    <3> QED
      BY <3>1, <3>2 DEF Confessed
  <2>7. CASE UnkeepStep(p)
    <3>1. ~job'[p].bad /\ pc'[p] = "resave"
      BY <1>1, <2>7 DEF UnkeepStep, Priced, StatusKnown
    <3> QED
      BY <3>1 DEF Confessed
  <2>8. CASE RestoreStep(p)
    <3>1. job'[p].bad => faults' >= 2 \/ Unusual
      BY <2>4, <2>8 DEF RestoreStep, Paid
    <3>2. pc'[p] = "relay"
      BY <2>8 DEF RestoreStep
    <3> QED
      BY <1>2, <3>1, <3>2 DEF Confessed
  <2>9. CASE RestateStep(p)
    <3>1. /\ job[p].mode = "rollback" /\ job'[p].bad = job[p].bad /\ Failing(p)
          /\ pc'[p] \in {"end", "resave"}
      BY <1>1, <2>2, <2>9 DEF RestateStep, StatusKnown, Failing
    <3>2. job'[p].bad /\ pc'[p] = "resave" => faults' >= 3 \/ Unusual
      <4>1. pc'[p] = "resave" => job[p].expired \/ Paid("save")
        BY <2>9 DEF RestateStep
      <4>2. job[p].expired => Unusual
        BY <1>1 DEF Priced
      <4>3. Paid("save") /\ job[p].bad => faults' >= 3 \/ Unusual
        BY <1>1, <1>2 DEF Confessed, Paid
      <4> QED
        BY <3>1, <4>1, <4>2, <4>3
    <3>3. pc'[p] = "end" /\ (job'[p].bad \/ ~Snapped(p)') => saved'.rtErr
      BY <1>1, <2>9, <3>1 DEF RestateStep, FilesKnown, Snapped, SameTransaction
    <3> QED
      BY <1>2, <2>4, <3>1, <3>2, <3>3 DEF Confessed
  <2>10. CASE ResaveStep(p)
    <3>1. /\ pc[p] = "resave" /\ pc'[p] = "end" /\ job'[p] = job[p] /\ Failing(p)
          /\ UNCHANGED <<config, override>>
      BY <2>2, <2>10 DEF ResaveStep, Failing
    <3>2. SUFFICES ASSUME job[p].bad \/ ~Snapped(p)
                   PROVE  saved'.rtErr \/ BadLuck'
      BY <1>2, <2>4, <3>1 DEF Confessed, Snapped
    <3>3. job[p].rec.rtErr
      BY <1>1, <2>2, <3>1, <3>2 DEF FilesKnown, Priced
    <3>4. job[p].bad \/ (faults >= 2 /\ Among({"write"}))
      BY <1>1, <2>2, <3>1, <3>2 DEF FilesKnown, Priced
    <3>5. CASE saved' = job[p].rec
      BY <3>3, <3>5
    <3>6. CASE job[p].expired
      <4>1. faults' >= 2 /\ Unusual /\ Among({"save", "write", "timeout"})
        BY <1>1, <1>2, <3>6 DEF Priced
      <4> QED
        BY <1>2, <4>1 DEF BadLuck, Among
    <3>7. CASE Paid("save")
      <4>1. Among({"save", "write", "timeout"}) /\ faults' = faults + 1 /\ faults' >= 2
        BY <1>2, <2>3, <3>1, <3>7 DEF Paid
      <4>2. Unusual \/ faults >= 3
        BY <1>1, <3>1, <3>4 DEF Confessed
      <4>3. Unusual \/ faults' >= 4
        BY <1>2, <4>1, <4>2
      <4> QED
        BY <1>2, <4>1, <4>3 DEF BadLuck, Among
    <3> QED
      BY <2>10, <3>5, <3>6, <3>7 DEF ResaveStep
  <2> QED
    BY <2>1, <2>5, <2>6, <2>7, <2>8, <2>9, <2>10
<1> QED
  BY <1>3, <1>4

LEMMA SilentConfessed ==
  ASSUME ConfessedInv, [Next]_vars, NEW q \in Procs,
         \/ DaemonBegin \/ DaemonApply \/ Outage \/ UNCHANGED vars
         \/ \E p \in Procs : Expire(p)
  PROVE  Confessed(q)'
<1> USE DEF ConfessedInv, FilesInv, PortInv, RecordInv
<1>1. /\ saved' = saved /\ pc' = pc /\ UNCHANGED files
      /\ job'[q].mode = job[q].mode /\ job'[q].bad = job[q].bad /\ job'[q].ok = job[q].ok
      /\ job'[q].snapC = job[q].snapC /\ job'[q].snapO = job[q].snapO
  BY DEF DaemonBegin, DaemonApply, Outage, Expire, vars, LockInv, TypeOK, Jobs
<1>2. /\ faults \in Nat /\ faults' \in Nat /\ faults' >= faults
  BY PricesStay
<1>3. (BadLuck => BadLuck') /\ (Unusual' <=> Unusual)
  BY <1>2 DEF BadLuck, Unusual, Among
<1>4. Failing(q)' <=> Failing(q)
  BY <1>1 DEF Failing
<1>5. Snapped(q)' <=> Snapped(q)
  BY <1>1 DEF Snapped, files
<1> QED
  BY <1>1, <1>2, <1>3, <1>4, <1>5 DEF Confessed

\* The steps outside the transactions know nothing of a rollback.
LEMMA RestConfessed ==
  ASSUME ConfessedInv, [Next]_vars, NEW p \in Procs,
         \/ Starts(p) \/ Lifecycle(p) \/ Sidecar(p) \/ Runtime(p) \/ Crash(p)
  PROVE  Confessed(p)'
<1> USE MoverKnown DEF ConfessedInv, FilesInv, PortInv, RecordInv
<1>1. CASE (Runtime(p) \/ ApplyImports(p)) /\ job[p].mode # "lifecycle"
  BY <1>1, RuntimeConfessed
<1>2. CASE BeginTransaction(p)
  <2>1. job'[p].mode = "activate" /\ pc'[p] = "write" /\ ~job'[p].bad
    BY <1>2, PlainLocals DEF BeginTransaction, Goto, Jobs, PlainSteps
  <2> QED
    BY <2>1 DEF Confessed
<1>3. CASE \/ Starts(p) \/ Lifecycle(p) \/ SyncLoopback(p) \/ Preflight(p)
           \/ NoTransaction(p) \/ Crash(p)
           \/ ((Runtime(p) \/ ApplyImports(p)) /\ job[p].mode = "lifecycle")
  <2>1. PortKnown(p)' /\ LockInv'
    BY NextPort
  <2>2. job'[p].mode = "lifecycle"
    BY <1>3, StepPlain
  <2>3. ~job'[p].bad
    BY <2>1, <2>2 DEF PortKnown, Priced
  <2> QED
    BY <2>2, <2>3, PlainConfessed
<1> QED
  BY <1>1, <1>2, <1>3 DEF Sidecar

LEMMA NextConfessed ==
  ASSUME ConfessedInv, [Next]_vars
  PROVE  ConfessedInv'
<1>1. FilesInv' /\ PortInv' /\ LockInv'
  BY NextFiles DEF ConfessedInv, FilesInv, PortInv, RecordInv
<1>2. ASSUME NEW p \in Procs, Starts(p) \/ Step(p) \/ Crash(p)
      PROVE  \A q \in Procs : Confessed(q)'
  <2>1. Confessed(p)'
    BY <1>2, RestConfessed, TransactionConfessed DEF Step
  <2>2. ASSUME NEW q \in Procs \ {p} PROVE Confessed(q)'
    <3>1. pc'[q] = "idle"
      BY <1>2, OthersStay, OneMoves DEF ConfessedInv, FilesInv, PortInv, RecordInv
    <3>2. job'[q].mode = "lifecycle"
      BY <1>1, <3>1 DEF LockInv, ModeKnown, PlainSteps
    <3>3. ~job'[q].bad
      BY <1>1, <3>2 DEF PortInv, PortKnown, Priced
    <3> QED
      BY <3>2, <3>3, PlainConfessed
  <2> QED
    BY <2>1, <2>2
<1>3. \A q \in Procs : Confessed(q)'
  BY <1>2, SilentConfessed DEF Next
<1> QED
  BY <1>1, <1>3 DEF ConfessedInv

LEMMA InitConfessed ==
  ASSUME Init
  PROVE  ConfessedInv
<1>1. ASSUME NEW p \in Procs PROVE Confessed(p)
  BY DEF Init, Confessed, Failing, NoJob, NewJob
<1> QED
  BY <1>1, InitFiles DEF ConfessedInv

\* A rollback of which a part fails leaves the box recorded as degraded, when
\* saving the record cannot fail too, and else as long as too few failures
\* happen for it, none of them in the files.
THEOREM FailedRollbackAdmitted ==
  ASSUME \/ MaxFaults <= 1
         \/ {"save", "write", "timeout"} \cap MayFail = {}
         \/ /\ MaxFaults <= 3
            /\ {"write", "timeout", "crash", "rmdir", "outage"} \cap MayFail = {}
  PROVE  Spec => []FailedRollbackDegrades
<1>1. ASSUME ConfessedInv PROVE FailedRollbackDegrades
  <2>1. faults \in Nat /\ faults <= MaxFaults
    BY <1>1, BoxAssumption DEF ConfessedInv, FilesInv, PortInv, RecordInv, LockInv, TypeOK
  <2>2. ~BadLuck
    BY <2>1, BoxAssumption DEF BadLuck, Unusual, Among
  <2> QED
    BY <1>1, <2>2 DEF ConfessedInv, Confessed, FailedRollbackDegrades, Failed, Failing, Snapped
<1>2. Init => ConfessedInv
  BY InitConfessed
<1>3. ConfessedInv /\ [Next]_vars => ConfessedInv'
  BY NextConfessed
<1> QED
  BY <1>1, <1>2, <1>3, PTL DEF Spec

-----------------------------------------------------------------------------
(***************************************************************************)
(* Before the first failure nothing runs that the record does not list: the *)
(* portbridge and the sidecar serve mappings of the record only, and the    *)
(* relay runs for a box that is up and has imports.  A transaction is on    *)
(* its way from the mappings of the record to those of the candidate.       *)
(***************************************************************************)

OnlyListed ==
  /\ bridge \subseteq saved.maps /\ proxies \subseteq saved.maps
  /\ relay => ImportsOf(saved) # {}
Turning == {"relay", "down", "up", "halt"}

CalmBox ==
  /\ (\A p \in Procs : job[p].mode = "lifecycle") => OnlyListed
  /\ (\A p \in Procs : job[p].mode = "lifecycle" /\ pc[p] \notin Turning)
       => (relay => Reachable)
  /\ (\A p \in Procs : pc[p] # "forget") /\ saved.exists => rendered
CalmStep(p) ==
  /\ (pc[p] = "settle" /\ job[p].op = "destroy") \/ pc[p] = "forget" => ~relay
  /\ Loaded(p) /\ pc[p] \notin {"unlock", "forget"} /\ job[p].rec.exists => rendered
CalmRequest(p) ==
  job[p].mode = "activate" =>
    /\ pc[p] \in {"write", "relay", "probe", "bridge", "keep"} => bridge \subseteq job[p].rec.maps
    /\ Reached(p, {"imports", "halt", "save"}) => bridge \subseteq job[p].cand
    /\ pc[p] \in {"write", "relay", "probe", "bridge", "imports", "keep"}
         => proxies \subseteq job[p].rec.maps
    /\ Reached(p, {"halt", "save"}) => proxies \subseteq job[p].cand
    /\ relay /\ pc[p] \in {"write", "keep"}
         => ImportsOf(job[p].rec) # {} /\ job[p].rec.status # "stopped"
    /\ relay /\ pc[p] \in RuntimeSteps
         => ImportsOf(job[p].rec) # {} \/ job[p].cand \cap Imports # {}
    /\ relay /\ Reached(p, {"save"}) => job[p].cand \cap Imports # {} /\ Reachable

Calm == CalmBox /\ \A p \in Procs : CalmStep(p) /\ CalmRequest(p)
CalmInv == ServingInv /\ (faults = 0 => Calm)

\* A step after which nothing has failed yet.
LEMMA NothingFailed ==
  ASSUME CalmInv, [Next]_vars, faults' = 0
  PROVE  /\ faults = 0 /\ Calm /\ ~Costly /\ ~Excused /\ ~OutageSeen
         /\ \A k : ~Fault(k) /\ ~Paid(k)
         /\ \A p \in Procs : ~job[p].expired /\ ~Failing(p) /\ job[p].mode # "rollback"
<1> USE DEF CalmInv, ServingInv, FilesInv, PortInv, RecordInv
<1>1. faults = 0
  BY PricesStay
<1>2. \A k : ~Fault(k) /\ ~Paid(k)
  BY <1>1 DEF Fault, Paid
<1>3. ~Costly /\ ~Excused /\ ~OutageSeen
  BY <1>1 DEF Costly, Excused, OutageSeen
<1>4. ASSUME NEW p \in Procs
      PROVE  ~job[p].expired /\ ~Failing(p) /\ job[p].mode # "rollback"
  <2>1. Priced(p) /\ FilesKnown(p)
    BY DEF PortKnown
  <2>2. ~job[p].expired /\ ~Failing(p)
    BY <1>1, <2>1 DEF Priced
  <2> QED
    BY <2>1, <2>2 DEF FilesKnown, Failing
<1> QED
  BY <1>1, <1>2, <1>3, <1>4

\* What a command that moves finds, when nothing has failed yet.
LEMMA MoverCalm ==
  ASSUME CalmInv, [Next]_vars, faults' = 0, NEW p \in Procs,
         Starts(p) \/ Step(p) \/ Crash(p)
  PROVE  /\ job[p].mode = "lifecycle" => OnlyListed
         /\ job[p].mode = "lifecycle" /\ pc[p] \notin Turning => (relay => Reachable)
         /\ pc[p] # "forget" /\ saved.exists => rendered
         /\ CalmStep(p) /\ CalmRequest(p)
         /\ ~InTransaction(p) /\ pc[p] # "forget" => FilesAre(saved.maps)
<1> USE DEF CalmInv, ServingInv, FilesInv, PortInv, RecordInv
<1>1. \A q \in Procs \ {p} : pc[q] = "idle"
  BY OneMoves
<1>2. \A q \in Procs \ {p} : job[q].mode = "lifecycle" /\ ~InTransaction(q)
  BY <1>1 DEF LockInv, ModeKnown, PlainSteps, InTransaction
<1>3. Calm /\ ~Excused
  BY NothingFailed
<1>4. ~InTransaction(p) /\ pc[p] # "forget" => FilesAre(saved.maps)
  BY <1>1, <1>2, <1>3, QuietFiles
<1> QED
  BY <1>1, <1>2, <1>3, <1>4 DEF Calm, CalmBox, Turning

\* A lifecycle command leaves the box calm.
LEMMA PlainCalm ==
  ASSUME NEW p \in Procs, job'[p].mode = "lifecycle", OnlyListed',
         pc'[p] \notin Turning => (relay' => Reachable'),
         pc'[p] # "forget" /\ saved'.exists => rendered',
         CalmStep(p)'
  PROVE  CalmBox' /\ CalmStep(p)' /\ CalmRequest(p)'
BY DEF CalmBox, CalmRequest

\* The steps that leave the runtime alone.
LEMMA SteadyCalm ==
  ASSUME CalmInv, [Next]_vars, faults' = 0, NEW p \in Procs,
         \/ Starts(p) \/ LockBox(p) \/ Load(p) \/ InspectBox(p) \/ Touch(p)
         \/ Render(p) \/ Decide(p) \/ Mark(p) \/ Verify(p) \/ Commit(p)
         \/ PersistError(p) \/ Preflight(p) \/ NoTransaction(p)
  PROVE  CalmBox' /\ CalmStep(p)' /\ CalmRequest(p)'
<1> USE MoverKnown DEF CalmInv, ServingInv, FilesInv, PortInv, RecordInv
<1>1. /\ UNCHANGED <<docker, bridge, relay, proxies>>
      /\ pc[p] \in PlainSteps /\ pc[p] \notin Turning /\ pc[p] # "forget"
      /\ pc'[p] \notin {"settle", "forget"}
  <2>1. CASE Load(p)
    <3>1. job[p].op \in Ops
      BY DEF Jobs
    <3>2. FirstStep[job[p].op] \notin {"settle", "forget"}
      BY <3>1 DEF FirstStep, Ops, PortOps
    <3>3. pc'[p] = FirstStep[job[p].op] \/ pc'[p] = "unlock"
      <4>1. \/ Goto(p, FirstStep[job[p].op])
            \/ Goto(p, "unlock")
        BY <2>1 DEF Load
      <4> QED
        BY <4>1 DEF Goto
    <3> QED
      BY <2>1, <3>2, <3>3 DEF Load, runtime, sidecar, PlainSteps, Turning
  <2>2. CASE ~Load(p)
    BY <2>2
       DEF Starts, Begin, LockBox, InspectBox, Touch, Render, Decide, Mark, Verify, Commit,
           PersistError,
           Preflight, NoTransaction, Finish, Goto, runtime, sidecar, PlainSteps, Turning
  <2> QED
    BY <2>1, <2>2
<1>2. job[p].mode = "lifecycle" /\ job'[p].mode = "lifecycle" /\ ~InTransaction(p)
  <2>1. job'[p].mode = "lifecycle"
    BY StepPlain DEF Lifecycle
  <2> QED
    BY <1>1, <2>1 DEF InTransaction
<1>3. /\ OnlyListed /\ (relay => Reachable) /\ (saved.exists => rendered)
      /\ CalmStep(p)
  BY <1>1, <1>2, MoverCalm DEF Step, Lifecycle, Sidecar
<1>4. saved'.maps = saved.maps
  <2>1. CASE Starts(p)
    BY <2>1 DEF Starts, Begin
  <2>2. CASE ~Starts(p)
    BY <1>1, <2>2, SameMappings DEF Lifecycle, Sidecar
  <2> QED
    BY <2>1, <2>2
<1>5. OnlyListed' /\ (relay' => Reachable')
  BY <1>1, <1>3, <1>4 DEF OnlyListed, ImportsOf, Reachable
<1>6. /\ \A k : ~Fault(k)
      /\ ~job[p].expired
  BY NothingFailed
<1>7. /\ saved'.exists => rendered'
      /\ Loaded(p)' /\ pc'[p] # "unlock" /\ job'[p].rec.exists => rendered'
  <2>1. CASE Starts(p) \/ LockBox(p)
    BY <1>3, <2>1 DEF Starts, Begin, LockBox, Goto, Loaded, files
  <2>2. CASE Load(p)
    <3>1. rendered' = rendered
      BY <2>2 DEF Load, files
    <3>2. Reconciled.exists => rendered
      BY <1>3 DEF Reconciled, Standing, Stands, Records
    <3>3. /\ saved' \in {saved, Reconciled}
          /\ pc'[p] # "unlock" => job'[p].rec = Reconciled
      BY <2>2, <1>6 DEF Load, Saves, SaveFails, Goto, Jobs
    <3> QED
      BY <1>3, <3>1, <3>2, <3>3
  <2>3. CASE Render(p)
    BY <1>3, <1>6, <2>3 DEF Render, Fails
  <2>4. CASE Decide(p)
    <3>1. rendered /\ rendered' = rendered
      BY <2>4 DEF Decide, Standing, Position, files
    <3> QED
      BY <3>1
  <2>5. CASE InspectBox(p) \/ Touch(p) \/ Mark(p) \/ Verify(p) \/ Commit(p)
             \/ PersistError(p) \/ Preflight(p) \/ NoTransaction(p)
    <3>1. rendered' = rendered
      BY <2>5 DEF InspectBox, Touch, Mark, Verify, Commit, PersistError,
                  Preflight, NoTransaction, files
    <3>2. job[p].rec.exists /\ rendered
      <4>1. job[p].rec.exists
        BY <2>5 DEF InspectBox, Touch, Mark, Verify, Commit, PersistError,
                    Preflight, NoTransaction,
                    RecordKnown, Knows, BoxExists, Unloaded
      <4>2. Loaded(p) /\ pc[p] \notin {"unlock", "forget"}
        BY <2>5 DEF InspectBox, Touch, Mark, Verify, Commit, PersistError,
                    Preflight, NoTransaction, Loaded
      <4> QED
        BY <1>3, <4>1, <4>2 DEF CalmStep
    <3> QED
      BY <3>1, <3>2
  <2> QED
    BY <2>1, <2>2, <2>3, <2>4, <2>5
<1>8. CalmStep(p)'
  BY <1>1, <1>7 DEF CalmStep
<1> QED
  BY <1>2, <1>5, <1>7, <1>8, PlainCalm

\* Compose stops and starts the box.
LEMMA ComposeCalm ==
  ASSUME CalmInv, [Next]_vars, faults' = 0, NEW p \in Procs,
         ComposeDown(p) \/ ComposeUp(p)
  PROVE  CalmBox' /\ CalmStep(p)' /\ CalmRequest(p)'
<1> USE MoverKnown DEF CalmInv, ServingInv, FilesInv, PortInv, RecordInv
<1>1. /\ pc[p] \in {"down", "up"} /\ job' = job /\ relay' = relay /\ saved' = saved
      /\ UNCHANGED files /\ job[p].mode = "lifecycle"
  BY DEF ComposeDown, ComposeUp, PlainSteps
<1>2. ~InTransaction(p)
  BY <1>1 DEF InTransaction
<1>3. OnlyListed /\ CalmStep(p) /\ FilesAre(saved.maps) /\ (saved.exists => rendered)
  BY <1>1, <1>2, MoverCalm DEF Step, Lifecycle
<1>4. /\ \A k : ~Fault(k)
      /\ ~job[p].expired
  BY NothingFailed
<1>5. job[p].rec.maps = saved.maps /\ job[p].rec.exists
  BY <1>1, <1>2 DEF RecordKnown, Knows, OwnRecord, BoxExists, Loaded, Undecided, Unloaded
<1>6. ComposeAccepts(job[p].rec)
  <2>1. rendered
    BY <1>1, <1>3, <1>5 DEF CalmStep, Loaded
  <2> QED
    BY <1>3, <1>5, <2>1 DEF ComposeAccepts, FilesAre, PublicationsOf
<1>7. /\ bridge' \subseteq saved.maps /\ proxies' \in {proxies, {}}
      /\ pc'[p] \in {"up", "halt"} \/ (pc'[p] = "verify" /\ docker' = "running")
  <2>1. CASE ComposeDown(p)
    BY <1>3, <1>4, <1>6, <2>1 DEF ComposeDown, Fails, Goto, OnlyListed, SidecarDies
  <2>2. CASE ComposeUp(p)
    BY <1>3, <1>4, <1>6, <2>2
       DEF ComposeUp, Fails, Goto, OnlyListed, SidecarDies, SidecarStays, sidecar, FilesAre
  <2> QED
    BY <2>1, <2>2
<1>8. OnlyListed'
  BY <1>1, <1>3, <1>7 DEF OnlyListed, ImportsOf
<1>9. pc'[p] \notin Turning => Reachable'
  BY <1>7 DEF Turning, Reachable
<1>10. CalmStep(p)'
  BY <1>1, <1>3, <1>7 DEF CalmStep, Loaded, files
<1> QED
  BY <1>1, <1>3, <1>8, <1>9, <1>10, PlainCalm DEF files

\* The runtime steps of up, restart, stop and destroy.
LEMMA LifecycleCalm ==
  ASSUME CalmInv, [Next]_vars, faults' = 0, NEW p \in Procs,
         Runtime(p) \/ ApplyImports(p), job[p].mode = "lifecycle"
  PROVE  CalmBox' /\ CalmStep(p)' /\ CalmRequest(p)'
<1> USE MoverKnown DEF CalmInv, ServingInv, FilesInv, PortInv, RecordInv
<1>1. /\ pc[p] \in RuntimeSteps /\ UNCHANGED <<saved, rendered, docker, config>>
      /\ Proceed(p, pc[p]) \/ Fallback(p, pc[p])
  BY DEF Runtime, EnsureRelay, ProbeRelay, ApplyBridge, HaltRelay, ApplyImports, Skip,
         RuntimeSteps, files
<1>2. job'[p] = job[p] /\ pc'[p] \in {AfterStep(p, pc[p]), "error"}
  BY <1>1, RuntimeStep DEF Proceeds, FallsBack
<1>3. /\ OnlyListed /\ CalmStep(p) /\ FilesAre(saved.maps) /\ (saved.exists => rendered)
      /\ pc[p] \notin Turning => (relay => Reachable)
  BY <1>1, MoverCalm DEF Step, Sidecar, InTransaction, RuntimeSteps
<1>4. /\ \A k : ~Fault(k)
      /\ ~job[p].expired /\ ~OutageSeen
  BY NothingFailed
<1>5. job[p].rec.maps = saved.maps
  BY <1>1 DEF RecordKnown, Knows, OwnRecord, Loaded, Undecided, InTransaction, RuntimeSteps
<1>6. /\ bridge' \subseteq saved.maps /\ proxies' \subseteq saved.maps
      /\ relay' => ImportsOf(saved) # {}
      /\ pc[p] # "relay" => (relay' => relay)
      /\ pc[p] = "halt" => ~relay'
  <2>1. CASE EnsureRelay(p)
    <3>1. Needed(p, "relay") => ImportsOf(saved) # {}
      BY <1>5 DEF Needed, NeededByLifecycle, ImportsOf
    <3>2. /\ pc[p] = "relay" /\ UNCHANGED <<bridge, proxies>>
          /\ relay' = relay \/ Needed(p, "relay")
      BY <2>1 DEF EnsureRelay, Skip
    <3> QED
      BY <1>3, <3>1, <3>2 DEF OnlyListed
  <2>2. CASE ProbeRelay(p)
    BY <1>3, <2>2 DEF ProbeRelay, Skip, OnlyListed
  <2>3. CASE ApplyBridge(p)
    BY <1>3, <1>4, <2>3 DEF ApplyBridge, Bridged, Skip, OnlyListed, Fails, FilesAre
  <2>4. CASE ApplyImports(p)
    BY <1>3, <1>4, <2>4 DEF ApplyImports, Skip, OnlyListed, Fails, FilesAre
  <2>5. CASE HaltRelay(p)
    <3>1. ~relay'
      BY <1>3, <1>4, <1>5, <2>5
         DEF HaltRelay, Skip, OnlyListed, Fails, Needed, NeededByLifecycle, ImportsOf
    <3> QED
      BY <1>3, <2>5, <3>1 DEF HaltRelay, Skip, OnlyListed
  <2> QED
    BY <2>1, <2>2, <2>3, <2>4, <2>5 DEF Runtime
<1>7. OnlyListed'
  BY <1>1, <1>6 DEF OnlyListed, ImportsOf
<1>8. ASSUME pc'[p] \notin Turning, relay' PROVE Reachable'
  <2>1. CASE pc[p] = "relay"
    <3>1. Proceed(p, "relay")
      BY <1>4, <2>1
         DEF Runtime, EnsureRelay, ProbeRelay, ApplyBridge, HaltRelay, ApplyImports, Skip, Fails
    <3>2. /\ pc'[p] = AfterStep(p, "relay")
      BY <3>1 DEF Proceed, Goto
    <3>3. job[p].fast
      BY <1>8, <3>2, NextStep DEF Turning
    <3>4. docker = "running"
      <4>1. job[p].op = "ensure"
        BY <2>1, <3>3 DEF Serving, Fresh
      <4> QED
        BY <1>4, <2>1, <3>3, <4>1 DEF Serving, Restores, Restoring
    <3> QED
      BY <1>1, <3>4 DEF Reachable
  <2>2. CASE pc[p] = "halt"
    BY <1>6, <1>8, <2>2
  <2>3. CASE pc[p] \notin {"relay", "halt"}
    BY <1>1, <1>3, <1>6, <1>8, <2>3 DEF RuntimeSteps, Turning, Reachable
  <2> QED
    BY <2>1, <2>2, <2>3
<1>9. pc'[p] # "forget" /\ (pc'[p] = "settle" => pc[p] = "halt")
  BY <1>1, <1>2, NextStep DEF RuntimeSteps
<1>10. CalmStep(p)'
  BY <1>1, <1>2, <1>3, <1>6, <1>9 DEF CalmStep, Loaded, RuntimeSteps
<1> QED
  BY <1>1, <1>2, <1>3, <1>7, <1>8, <1>10, PlainCalm

\* The steps that end a lifecycle command, and wktbox sync.
LEMMA EndingCalm ==
  ASSUME CalmInv, [Next]_vars, faults' = 0, NEW p \in Procs,
         Settle(p) \/ Forget(p) \/ SyncLoopback(p)
  PROVE  CalmBox' /\ CalmStep(p)' /\ CalmRequest(p)'
<1> USE MoverKnown DEF CalmInv, ServingInv, FilesInv, PortInv, RecordInv
<1>1. /\ job[p].mode = "lifecycle" /\ pc[p] \in {"settle", "forget", "sync"}
      /\ ~InTransaction(p) /\ UNCHANGED <<docker, bridge, relay>>
  BY DEF Settle, Forget, SyncLoopback, PlainSteps, InTransaction, runtime
<1>2. job'[p].mode = "lifecycle"
  BY StepPlain DEF Lifecycle
<1>3. /\ OnlyListed /\ CalmStep(p) /\ (relay => Reachable)
      /\ pc[p] # "forget" => FilesAre(saved.maps) /\ (saved.exists => rendered)
  BY <1>1, MoverCalm DEF Step, Sidecar, Lifecycle, Turning
<1>4. /\ \A k : ~Fault(k)
      /\ ~job[p].expired
  BY NothingFailed
<1>5. relay' => Reachable'
  BY <1>1, <1>3 DEF Reachable
<1>6. CASE Forget(p)
  <2>1. pc[p] = "forget" /\ saved' = NoRecord /\ pc'[p] = "unlock" /\ proxies' = proxies
    BY <1>4, <1>6 DEF Forget, Finish, Saves, SaveFails, Goto, runtime, sidecar
  <2>2. bridge = {} /\ proxies = {} /\ ~relay
    BY <1>3, <2>1 DEF Standing, Position, Stands, Present, Reachable, CalmStep
  <2>3. OnlyListed'
    BY <1>1, <2>1, <2>2 DEF OnlyListed
  <2>4. CalmStep(p)' /\ ~saved'.exists
    BY <2>1 DEF CalmStep, NoRecord
  <2> QED
    BY <1>2, <1>5, <2>3, <2>4, PlainCalm
<1>7. CASE Settle(p)
  <2>1. /\ pc[p] = "settle" /\ saved'.maps = saved.maps /\ proxies' = proxies
        /\ \/ pc'[p] = "unlock" /\ UNCHANGED files
           \/ pc'[p] = "forget" /\ job[p].op = "destroy"
        /\ saved'.exists => saved.exists \/ job[p].rec.exists
    <3>1. saved'.maps = saved.maps
      BY <1>1, <1>7, SameMappings DEF Lifecycle, Settle
    <3> QED
      BY <1>4, <1>7, <3>1 DEF Settle, Finish, Saves, SaveFails, Goto, runtime, sidecar, Records
  <2>2. OnlyListed'
    BY <1>1, <1>3, <2>1 DEF OnlyListed, ImportsOf
  <2>3. job[p].rec.exists => rendered
    BY <1>3, <2>1 DEF CalmStep, Loaded
  <2>4. CalmStep(p)'
    BY <1>1, <1>3, <2>1 DEF CalmStep
  <2>5. pc'[p] # "forget" /\ saved'.exists => rendered'
    BY <1>3, <2>1, <2>3 DEF files
  <2> QED
    BY <1>2, <1>5, <2>2, <2>4, <2>5, PlainCalm
<1>8. CASE SyncLoopback(p)
  <2>1. /\ saved' = saved /\ UNCHANGED files /\ pc'[p] = "unlock" /\ pc[p] = "sync"
        /\ proxies' = proxies \/ proxies' = config \cap Imports
    BY <1>8 DEF SyncLoopback, Goto
  <2>2. OnlyListed'
    BY <1>1, <1>3, <2>1 DEF OnlyListed, ImportsOf, FilesAre
  <2>3. CalmStep(p)'
    BY <2>1 DEF CalmStep
  <2> QED
    BY <1>2, <1>3, <1>5, <2>1, <2>2, <2>3, PlainCalm DEF files
<1> QED
  BY <1>6, <1>7, <1>8

\* The end of a command: a port command that succeeded leaves what its
\* candidate lists, which is now the record.
LEMMA UnlockCalm ==
  ASSUME CalmInv, [Next]_vars, faults' = 0, NEW p \in Procs, Unlock(p)
  PROVE  CalmBox' /\ CalmStep(p)' /\ CalmRequest(p)'
<1> USE MoverKnown DEF CalmInv, ServingInv, FilesInv, PortInv, RecordInv
<1>1. /\ pc[p] = "unlock" /\ pc'[p] = "idle" /\ job'[p].mode = "lifecycle"
      /\ UNCHANGED <<saved, rendered, docker, bridge, relay, proxies>>
  BY DEF Unlock, Goto, NoJob, NewJob, files, runtime, sidecar
<1>2. CalmRequest(p) /\ (saved.exists => rendered)
      /\ (job[p].mode = "lifecycle" => OnlyListed /\ (relay => Reachable))
  BY <1>1, MoverCalm DEF Step, Lifecycle, Turning
<1>3. CASE job[p].mode = "lifecycle"
  BY <1>1, <1>2, <1>3, PlainCalm DEF OnlyListed, ImportsOf, Reachable, CalmStep, Loaded
<1>4. CASE job[p].mode # "lifecycle"
  <2>1. job[p].ok /\ job[p].mode = "activate"
    BY <1>1, <1>4, NothingFailed DEF Failing, Modes
  <2>2. saved.maps = job[p].cand
    BY <2>1 DEF PortKnown, FilesKnown
  <2>3. OnlyListed /\ (relay => Reachable)
    BY <1>2, <2>1, <2>2 DEF CalmRequest, Reached, OnlyListed, ImportsOf
  <2> QED
    BY <1>1, <1>2, <2>3, PlainCalm DEF OnlyListed, ImportsOf, Reachable, CalmStep, Loaded
<1> QED
  BY <1>3, <1>4

-----------------------------------------------------------------------------
\* A port command at work before the first failure.

\* What is left to show of a command in a transaction.
LEMMA BusyCalm ==
  ASSUME CalmInv, [Next]_vars, faults' = 0, NEW p \in Procs, Step(p),
         job'[p].mode # "lifecycle", pc'[p] \notin {"settle", "forget"},
         UNCHANGED <<saved, rendered>>, pc[p] # "forget",
         CalmRequest(p)'
  PROVE  /\ CalmBox' /\ CalmRequest(p)'
         /\ (Loaded(p)' /\ job'[p].rec.exists => rendered') => CalmStep(p)'
<1> USE MoverKnown DEF CalmInv, ServingInv, FilesInv, PortInv, RecordInv
<1>1. saved'.exists => rendered'
  BY MoverCalm
<1> QED
  BY <1>1 DEF CalmBox, CalmStep

LEMMA BeginCalm ==
  ASSUME CalmInv, [Next]_vars, faults' = 0, NEW p \in Procs, BeginTransaction(p)
  PROVE  CalmBox' /\ CalmStep(p)' /\ CalmRequest(p)'
<1> USE MoverKnown DEF CalmInv, ServingInv, FilesInv, PortInv, RecordInv
<1>1. /\ pc[p] = "transaction" /\ pc'[p] = "write" /\ job[p].mode = "lifecycle" /\ ~job[p].ok
      /\ job'[p].mode = "activate" /\ job'[p].rec = job[p].rec /\ ~job'[p].ok
      /\ UNCHANGED <<saved, rendered, docker, bridge, relay, proxies>>
  <2>1. pc[p] = "transaction" /\ job[p].mode = "lifecycle" /\ ~job[p].ok
    BY DEF BeginTransaction, PlainSteps, RecordKnown, Knows, Unfinished
  <2> QED
    BY <2>1 DEF BeginTransaction, Goto, Jobs, files, runtime, sidecar
<1>2. OnlyListed /\ (relay => Reachable) /\ CalmStep(p)
  BY <1>1, MoverCalm DEF Step, Sidecar, Turning
<1>3. job[p].rec.maps = saved.maps
  BY <1>1 DEF RecordKnown, Knows, OwnRecord, Loaded, Undecided, InTransaction
<1>4. job[p].rec.status = "stopped" => ~Reachable
  BY <1>1 DEF PortKnown, BoxKnown, OnPorts, Running
<1>5. CalmRequest(p)'
  BY <1>1, <1>2, <1>3, <1>4 DEF CalmRequest, Reached, OnlyListed, ImportsOf, RuntimeSteps
<1>6. Loaded(p)' /\ job'[p].rec.exists => rendered'
  BY <1>1, <1>2 DEF CalmStep, Loaded
<1> QED
  BY <1>1, <1>5, <1>6, BusyCalm DEF Step, Sidecar

\* The steps that apply a candidate.
LEMMA ActivationCalm ==
  ASSUME CalmInv, [Next]_vars, faults' = 0, NEW p \in Procs,
         Runtime(p) \/ ApplyImports(p), job[p].mode # "lifecycle"
  PROVE  CalmBox' /\ CalmStep(p)' /\ CalmRequest(p)'
<1> USE MoverKnown DEF CalmInv, ServingInv, FilesInv, PortInv, RecordInv
<1>1. job[p].mode = "activate" /\ ~OutageSeen /\ \A k : ~Fault(k)
  BY NothingFailed DEF Modes
<1>2. /\ pc[p] \in RuntimeSteps /\ Proceeds(p, pc[p])
      /\ UNCHANGED <<saved, rendered, docker>>
  BY <1>1, RuntimeCosts
<1>3. job'[p] = job[p] /\ pc'[p] = AfterStep(p, pc[p])
  BY <1>2 DEF Proceeds
<1>4. /\ pc[p] = "relay" => pc'[p] = "probe"
      /\ pc[p] = "probe" => pc'[p] = "bridge"
      /\ pc[p] = "bridge" => pc'[p] = "imports"
      /\ pc[p] = "imports" => pc'[p] = "halt"
      /\ pc[p] = "halt" => pc'[p] = "save"
  BY <1>1, <1>3, NextStep
<1>5. ~job[p].ok /\ ~job[p].expired /\ Reachable
      /\ ImportsOf(Candidate(p)) = job[p].cand \cap Imports
      /\ PublicationsOf(Candidate(p)) = job[p].cand \cap Publications
  BY <1>1, <1>2, ActivationAccepted
<1>6. CalmRequest(p) /\ CalmStep(p)
  BY MoverCalm DEF Step, Sidecar
<1>7. bridge \subseteq Publications /\ proxies \subseteq Imports
  BY DEF LockInv, TypeOK
<1>8. /\ pc[p] = "bridge" => bridge' \subseteq job[p].cand
      /\ pc[p] # "bridge" => bridge' = bridge
  <2>1. CASE pc[p] # "bridge"
    BY <1>1, <1>2, <2>1, ActivationStep
  <2>2. CASE pc[p] = "bridge" /\ job[p].cand \cap Publications # PublicationsOf(job[p].rec)
    BY <1>1, <1>2, <2>2, ActivationStep
  <2>3. CASE pc[p] = "bridge" /\ job[p].cand \cap Publications = PublicationsOf(job[p].rec)
    <3>1. ~Needed(p, "bridge")
      BY <1>1, <1>5, <2>3 DEF Needed, NeededByActivation
    <3>2. bridge' = bridge
      BY <2>3, <3>1 DEF Runtime, EnsureRelay, ProbeRelay, ApplyBridge, HaltRelay, ApplyImports,
                        Skip
    <3>3. bridge \subseteq job[p].rec.maps
      BY <1>1, <1>6, <2>3 DEF CalmRequest
    <3> QED
      BY <1>7, <2>3, <3>2, <3>3 DEF PublicationsOf
  <2> QED
    BY <2>1, <2>2, <2>3
<1>9. /\ pc[p] = "imports" => proxies' \subseteq job[p].cand
      /\ pc[p] # "imports" => proxies' = proxies
  <2>1. CASE pc[p] # "imports"
    BY <1>1, <1>2, <2>1, ActivationStep
  <2>2. CASE pc[p] = "imports" /\ job[p].cand \cap Imports # ImportsOf(job[p].rec)
    BY <1>1, <1>2, <2>2, ActivationStep
  <2>3. CASE pc[p] = "imports" /\ job[p].cand \cap Imports = ImportsOf(job[p].rec)
    <3>1. ~Needed(p, "imports")
      BY <1>1, <1>5, <2>3 DEF Needed, NeededByActivation
    <3>2. proxies' = proxies
      BY <2>3, <3>1 DEF Runtime, EnsureRelay, ProbeRelay, ApplyBridge, HaltRelay, ApplyImports,
                        Skip
    <3>3. proxies \subseteq job[p].rec.maps
      BY <1>1, <1>6, <2>3 DEF CalmRequest
    <3> QED
      BY <1>7, <2>3, <3>2, <3>3 DEF ImportsOf
  <2> QED
    BY <2>1, <2>2, <2>3
<1>10. /\ pc[p] = "relay" => relay' = relay \/ job[p].cand \cap Imports # {}
       /\ pc[p] \notin {"relay", "halt"} => relay' = relay
       /\ pc[p] = "halt" => ~relay' \/ (relay /\ ~Needed(p, "halt"))
  <2>1. CASE EnsureRelay(p)
    BY <1>1, <1>5, <2>1 DEF EnsureRelay, Skip, Needed, NeededByActivation
  <2>2. CASE HaltRelay(p)
    BY <1>1, <1>5, <2>2 DEF HaltRelay, Skip, Fails
  <2>3. CASE ProbeRelay(p) \/ ApplyBridge(p) \/ ApplyImports(p)
    BY <2>3 DEF ProbeRelay, ApplyBridge, ApplyImports, Skip
  <2> QED
    BY <2>1, <2>2, <2>3 DEF Runtime
<1>11. /\ relay /\ pc[p] \in RuntimeSteps => ImportsOf(job[p].rec) # {} \/ job[p].cand \cap Imports # {}
       /\ pc[p] \in {"relay", "probe", "bridge"} => bridge \subseteq job[p].rec.maps
       /\ pc[p] \in {"imports", "halt"} => bridge \subseteq job[p].cand
       /\ pc[p] \in {"relay", "probe", "bridge", "imports"} => proxies \subseteq job[p].rec.maps
       /\ pc[p] = "halt" => proxies \subseteq job[p].cand
  BY <1>1, <1>6 DEF CalmRequest, Reached
<1>12. relay' /\ pc[p] = "halt" => job[p].cand \cap Imports # {} /\ Reachable'
  <2>1. SUFFICES ASSUME relay', pc[p] = "halt"
                 PROVE  job[p].cand \cap Imports # {} /\ Reachable'
    OBVIOUS
  <2>2. ~Needed(p, "halt") /\ relay
    BY <1>10, <2>1
  <2>3. ImportsOf(job[p].rec) = {} \/ job[p].cand \cap Imports # {}
    BY <1>1, <1>5, <2>2 DEF Needed, NeededByActivation
  <2> QED
    BY <1>2, <1>5, <1>11, <2>1, <2>2, <2>3 DEF Reachable, RuntimeSteps
<1>13. CalmRequest(p)'
  BY <1>2, <1>3, <1>4, <1>5, <1>8, <1>9, <1>10, <1>11, <1>12
     DEF CalmRequest, Reached, RuntimeSteps, ImportsOf
<1>14. pc'[p] \in {"probe", "bridge", "imports", "halt", "save"}
  BY <1>2, <1>4 DEF RuntimeSteps
<1>15. Loaded(p)' /\ job'[p].rec.exists => rendered'
  BY <1>2, <1>3, <1>6 DEF CalmStep, Loaded, RuntimeSteps
<1>16. pc[p] # "forget"
  BY <1>2 DEF RuntimeSteps
<1> QED
  BY <1>1, <1>2, <1>3, <1>13, <1>14, <1>15, <1>16, BusyCalm DEF Step, Sidecar

\* The steps that write, save and end.
LEMMA TransactionCalm ==
  ASSUME CalmInv, [Next]_vars, faults' = 0, NEW p \in Procs, Transaction(p)
  PROVE  CalmBox' /\ CalmStep(p)' /\ CalmRequest(p)'
<1> USE MoverKnown DEF CalmInv, ServingInv, FilesInv, PortInv, RecordInv
<1>1. ~Failing(p) /\ ~job[p].expired /\ job[p].mode # "rollback" /\ \A k : ~Paid(k)
  BY NothingFailed
<1>2. CalmRequest(p) /\ CalmStep(p) /\ (pc[p] # "forget" /\ saved.exists => rendered)
  BY MoverCalm DEF Step
<1>3. UNCHANGED <<rendered, docker, bridge, relay, proxies>> /\ pc[p] \in TransactionSteps
  BY DEF Transaction, Write, Unwrite, SaveCandidate, Unkeep, RestoreFiles,
         SaveRolledBack, Resave, EndTransaction, runtime, sidecar, files, TransactionSteps
<1>4. job[p].mode = "activate"
  BY <1>1, <1>3 DEF Modes
<1>5. pc[p] # "forget" /\ Loaded(p) /\ (job[p].rec.exists => rendered)
  BY <1>2, <1>3 DEF CalmStep, Loaded, TransactionSteps
<1>6. CASE pc[p] = "end"
  <2>1. /\ pc'[p] = "unlock" /\ job' = job /\ saved' = saved
    BY <1>6 DEF Transaction, Write, Unwrite, SaveCandidate, Unkeep, RestoreFiles,
                SaveRolledBack, Resave, EndTransaction, Goto
  <2>2. job[p].ok
    BY <1>1, <1>4, <1>6 DEF Failing
  <2>3. CalmRequest(p)'
    BY <1>2, <1>3, <1>4, <2>1, <2>2 DEF CalmRequest, Reached, Reachable, RuntimeSteps
  <2> QED
    BY <1>2, <1>3, <1>4, <1>5, <2>1, <2>3 DEF CalmBox, CalmStep
<1>7. CASE pc[p] # "end"
  <2>1. ~job[p].ok
    <3>1. pc[p] \in TransactionSteps \ {"end"}
      BY <1>3, <1>7
    <3> QED
      BY <3>1, InTransactionKnows
  <2>2. WriteStep(p) \/ SaveStep(p)
    <3>1. StatusKnown(p)
      BY DEF PortKnown
    <3>2. pc[p] \notin {"unwrite", "unkeep", "resave", "restore", "restate"}
      BY <1>1, <1>4, <2>1, <3>1 DEF Failing, StatusKnown
    <3> QED
      BY <1>7, <3>2, TransactionStep
         DEF UnwriteStep, UnkeepStep, RestoreStep, RestateStep, ResaveStep
  <2>3. CASE WriteStep(p)
    <3>1. /\ pc[p] = "write" /\ job'[p] = job[p] /\ saved' = saved
          /\ pc'[p] \in {"keep", "relay"}
      BY <1>1, <2>3 DEF WriteStep
    <3>2. CalmRequest(p)'
      BY <1>2, <1>3, <1>4, <2>1, <3>1 DEF CalmRequest, Reached, Reachable, RuntimeSteps, ImportsOf
    <3> QED
      BY <1>2, <1>3, <1>4, <1>5, <3>1, <3>2 DEF CalmBox, CalmStep
  <2>4. CASE SaveStep(p)
    <3>1. /\ pc[p] \in {"keep", "save"} /\ pc'[p] = "end" /\ job'[p].ok
          /\ job'[p].mode = "activate" /\ job'[p].rec = job[p].rec /\ job'[p].cand = job[p].cand
          /\ saved'.exists = job[p].rec.exists
      BY <1>1, <1>4, <2>4 DEF SaveStep, SameTransaction
    <3>2. pc[p] = "keep" => bridge = {} /\ proxies = {} /\ ~relay
      <4>1. SUFFICES ASSUME pc[p] = "keep" PROVE bridge = {} /\ proxies = {} /\ ~relay
        OBVIOUS
      <4>2. job[p].rec.status = "stopped"
        BY <4>1 DEF PortKnown, StatusKnown
      <4>3. InTransaction(p)
        BY <1>4, <4>1 DEF InTransaction
      <4>4. ~Running
        BY <4>2, <4>3 DEF PortKnown, BoxKnown, OnPorts
      <4>5. ~relay
        BY <1>2, <1>4, <4>1, <4>2 DEF CalmRequest
      <4> QED
        BY <4>4, <4>5 DEF Running, Standing, Stands
    <3>3. /\ bridge \subseteq job[p].cand /\ proxies \subseteq job[p].cand
          /\ relay => job[p].cand \cap Imports # {} /\ Reachable
      BY <1>2, <1>4, <3>1, <3>2 DEF CalmRequest, Reached
    <3>4. CalmRequest(p)'
      BY <1>3, <3>1, <3>3 DEF CalmRequest, Reached, Reachable, RuntimeSteps
    <3> QED
      BY <1>2, <1>3, <1>4, <1>5, <3>1, <3>4 DEF CalmBox, CalmStep
  <2> QED
    BY <2>2, <2>3, <2>4
<1> QED
  BY <1>6, <1>7

\* A sync of the sidecar: it finds no transaction, and reads the record's files.
LEMMA SyncCalm ==
  ASSUME CalmInv, [Next]_vars, faults' = 0, DaemonApply
  PROVE  CalmBox' /\ \A p \in Procs : CalmStep(p)' /\ CalmRequest(p)'
<1> USE MoverKnown DEF CalmInv, ServingInv, FilesInv, PortInv, RecordInv
<1>1. Calm /\ ~Excused /\ (\A k : ~Fault(k)) /\ \A p \in Procs : ~Failing(p) /\ job[p].mode # "rollback"
  BY NothingFailed
<1>2. /\ daemon = "apply" /\ proxies' = config \cap Imports
      /\ UNCHANGED <<saved, rendered, docker, bridge, relay, pc, job>>
  BY <1>1 DEF DaemonApply, files
<1>3. \A p \in Procs : ~InTransaction(p)
  BY <1>2, BoxAssumption DEF LockInv, LocksHeld
<1>4. \A p \in Procs : pc[p] # "forget"
  BY <1>2 DEF Standing, Stands, Position, Present, Reachable
<1>5. config = saved.maps
  BY <1>1, <1>3, <1>4, QuietFiles DEF FilesAre
<1>6. CalmBox'
  BY <1>1, <1>2, <1>5 DEF Calm, CalmBox, OnlyListed, ImportsOf, Reachable
<1>7. ASSUME NEW p \in Procs PROVE CalmStep(p)' /\ CalmRequest(p)'
  <2>1. CalmStep(p) /\ CalmRequest(p)
    BY <1>1 DEF Calm
  <2>2. CalmStep(p)'
    BY <1>2, <2>1 DEF CalmStep, Loaded
  <2>3. CASE job[p].mode = "activate"
    <3>1. pc[p] = "unlock"
      BY <1>3, <2>3 DEF InTransaction
    <3>2. job[p].ok
      BY <1>1, <2>3, <3>1 DEF Failing
    <3>3. config = job[p].cand
      BY <2>3, <3>2 DEF PortKnown, FilesKnown, FilesAre
    <3> QED
      BY <1>2, <2>1, <2>2, <2>3, <3>1, <3>2, <3>3
         DEF CalmRequest, Reached, RuntimeSteps, Reachable
  <2>4. CASE job[p].mode # "activate"
    BY <1>2, <2>2, <2>4 DEF CalmRequest
  <2> QED
    BY <2>3, <2>4
<1> QED
  BY <1>6, <1>7

LEMMA StepCalm ==
  ASSUME CalmInv, [Next]_vars, faults' = 0, NEW p \in Procs, Starts(p) \/ Step(p)
  PROVE  CalmBox' /\ CalmStep(p)' /\ CalmRequest(p)'
<1>1. CASE (Runtime(p) \/ ApplyImports(p)) /\ job[p].mode = "lifecycle"
  BY <1>1, LifecycleCalm
<1>2. CASE (Runtime(p) \/ ApplyImports(p)) /\ job[p].mode # "lifecycle"
  BY <1>2, ActivationCalm
<1>3. CASE ~(Runtime(p) \/ ApplyImports(p))
  BY <1>3, SteadyCalm, ComposeCalm, EndingCalm, UnlockCalm, BeginCalm, TransactionCalm
     DEF Step, Lifecycle, Sidecar
<1> QED
  BY <1>1, <1>2, <1>3

LEMMA NextCalm ==
  ASSUME CalmInv, [Next]_vars
  PROVE  CalmInv'
<1>1. ServingInv'
  BY NextServing DEF CalmInv
<1>2. ASSUME faults' = 0 PROVE Calm'
  <2>1. Calm /\ \A k : ~Fault(k)
    BY <1>2, NothingFailed
  <2>2. ASSUME NEW p \in Procs, Starts(p) \/ Step(p)
        PROVE  Calm'
    <3>1. CalmBox' /\ CalmStep(p)' /\ CalmRequest(p)'
      BY <1>2, <2>2, StepCalm
    <3>2. ASSUME NEW q \in Procs \ {p} PROVE CalmStep(q)' /\ CalmRequest(q)'
      <4>1. pc'[q] = "idle"
        BY <2>2, OthersStay, OneMoves DEF CalmInv, ServingInv, FilesInv, PortInv, RecordInv
      <4>2. job'[q].mode = "lifecycle"
        BY <1>1, <4>1 DEF ServingInv, FilesInv, PortInv, RecordInv, LockInv, ModeKnown, PlainSteps
      <4> QED
        BY <4>1, <4>2 DEF CalmStep, CalmRequest, Loaded
    <3> QED
      BY <3>1, <3>2 DEF Calm
  <2>3. CASE DaemonApply
    BY <1>2, <2>3, SyncCalm DEF Calm
  <2>4. CASE DaemonBegin \/ UNCHANGED vars
    <3>1. UNCHANGED <<saved, rendered, docker, bridge, relay, proxies, pc, job>>
      BY <2>4 DEF DaemonBegin, vars, files, runtime, sidecar
    <3> QED
      BY <2>1, <3>1 DEF Calm, CalmBox, CalmStep, CalmRequest, OnlyListed, ImportsOf, Reachable,
                        Loaded, Reached
  <2>5. ~Outage /\ \A p \in Procs : ~Expire(p) /\ ~Crash(p)
    BY <2>1 DEF Outage, Expire, Crash
  <2> QED
    BY <2>2, <2>3, <2>4, <2>5 DEF Next
<1> QED
  BY <1>1, <1>2 DEF CalmInv

LEMMA InitCalm ==
  ASSUME Init
  PROVE  CalmInv
<1>1. CalmBox
  BY DEF Init, CalmBox, OnlyListed, NoRecord
<1>2. ASSUME NEW p \in Procs PROVE CalmStep(p) /\ CalmRequest(p)
  BY DEF Init, CalmStep, CalmRequest, Loaded, NoJob, NewJob
<1> QED
  BY <1>1, <1>2, InitServing DEF CalmInv, Calm

-----------------------------------------------------------------------------
(***************************************************************************)
(* What a failed port command takes back.  Its first failure finds the box  *)
(* calm, or is met in an activation, of which the rollback then undoes one  *)
(* part after the other; a part it cannot undo is remembered as bad.  Two    *)
(* failures leave more when one of them is hidden: of a write, of a rollback *)
(* out of time, or of a stop that is taken for done.                        *)
(***************************************************************************)

Requested(p) == job[p].cand \ job[p].rec.maps
Hidden == Among({"save", "write", "timeout", "swallow"}) /\ faults >= 2
Waived(p) == job[p].bad \/ Hidden \/ Costly
Past(p, steps) == Failing(p) /\ (job[p].mode = "activate" \/ pc[p] \in steps)

Ending == {"restate", "resave", "end", "unlock"}
Undone(p) ==
  \/ Waived(p)
  \/ /\ Past(p, Ending \cup {"imports", "halt"}) => bridge \cap Requested(p) = {}
     /\ Past(p, Ending \cup {"halt"}) => proxies \cap Requested(p) = {}
     /\ Past(p, Ending) /\ Requested(p) \cap Imports # {} /\ ImportsOf(job[p].rec) = {}
          => ~relay

UndoneInv == CalmInv /\ \A p \in Procs : Undone(p)

LEMMA NothingToUndo ==
  ASSUME NEW p \in Procs, \A steps : ~Past(p, steps)'
  PROVE  Undone(p)'
BY DEF Undone

\* A step that waives nothing and serves no more than before.
LEMMA StaysUndone ==
  ASSUME NEW p \in Procs, Undone(p), Waived(p) => Waived(p)',
         job'[p].cand = job[p].cand, job'[p].rec.maps = job[p].rec.maps,
         bridge' \subseteq bridge, proxies' \subseteq proxies, relay' => relay,
         \A steps \in {Ending \cup {"imports", "halt"}, Ending \cup {"halt"}, Ending} :
           Past(p, steps)' => Past(p, steps)
  PROVE  Undone(p)'
BY DEF Undone, Requested, ImportsOf

LEMMA StaysWaived ==
  ASSUME UndoneInv, [Next]_vars, NEW p \in Procs, job[p].bad => job'[p].bad
  PROVE  Waived(p) => Waived(p)'
<1>1. faults \in Nat /\ faults' \in Nat /\ faults' >= faults /\ (Costly => Costly')
  BY PricesStay DEF UndoneInv, CalmInv, ServingInv, FilesInv
<1> QED
  BY <1>1 DEF Waived, Hidden

LEMMA SecondHides ==
  ASSUME UndoneInv, [Next]_vars, faults >= 1,
         NEW k \in {"save", "write", "timeout", "swallow"}, Fault(k) \/ Paid(k)
  PROVE  Hidden'
<1>1. faults \in Nat /\ faults' = faults + 1 /\ Among({k})
  BY FaultsCount, FaultsGrow
     DEF UndoneInv, CalmInv, ServingInv, FilesInv, PortInv, RecordInv, Paid
<1> QED
  BY <1>1 DEF Hidden, Among

\* The steps of a rollback that change the runtime.
LEMMA RollbackUndoes ==
  ASSUME UndoneInv, [Next]_vars, NEW p \in Procs, job[p].mode = "rollback",
         Runtime(p) \/ ApplyImports(p)
  PROVE  Undone(p)'
<1> USE MoverKnown DEF UndoneInv, CalmInv, ServingInv, FilesInv, PortInv, RecordInv
<1>1. /\ pc[p] \in RuntimeSteps /\ ~job[p].ok /\ Failing(p) /\ Undoing(p)
      /\ Proceeds(p, pc[p]) \/ FallsBack(p, pc[p])
  <2>1. /\ pc[p] \in RuntimeSteps
        /\ Proceeds(p, pc[p]) \/ FallsBack(p, pc[p])
    BY RuntimeCosts
  <2>2. ~job[p].ok
    BY <2>1 DEF RecordKnown, Knows, Unfinished, RuntimeSteps
  <2> QED
    BY <2>1, <2>2 DEF Failing, Undoing, RuntimeSteps
<1>2. SUFFICES ASSUME ~Waived(p)' PROVE Undone(p)'
  BY DEF Undone
<1>3. job'[p] = job[p] /\ pc'[p] = AfterStep(p, pc[p]) /\ ~job[p].bad
  BY <1>1, <1>2 DEF Proceeds, FallsBack, Waived
<1>4. Undone(p) /\ ~Waived(p)
  BY <1>2, <1>3, StaysWaived
<1>5. ~job[p].expired /\ ~Fault("swallow") /\ ~Costly
  <2>1. Priced(p) /\ ~Hidden /\ ~Hidden' /\ ~Costly
    BY <1>2, <1>4 DEF PortKnown, Waived
  <2>2. faults >= 1
    BY <1>1, <2>1 DEF Priced
  <2>3. ~Fault("swallow")
    BY <2>1, <2>2, SecondHides
  <2>4. Among({"timeout"}) => Among({"save", "write", "timeout", "swallow"})
    BY DEF Among
  <2> QED
    BY <2>1, <2>3, <2>4 DEF Priced, Hidden
<1>6. config = job[p].rec.maps /\ override = PublicationsOf(job[p].rec)
  <2>1. RequestKnown(p)
    OBVIOUS
  <2> QED
    BY <1>1, <1>5, <2>1 DEF RequestKnown, SnapKept, Snapped
<1>7. /\ pc[p] = "relay" => pc'[p] = "bridge"
      /\ pc[p] = "probe" => pc'[p] = "bridge"
      /\ pc[p] = "bridge" => pc'[p] = "imports"
      /\ pc[p] = "imports" => pc'[p] = "halt"
      /\ pc[p] = "halt" => pc'[p] = "restate"
  BY <1>3, NextStep
<1>8. \A step \in RuntimeSteps : ~Fallback(p, step)
  <2>1. ASSUME NEW step \in RuntimeSteps, Fallback(p, step) PROVE FALSE
    <3>1. job'[p].bad
      BY <2>1, RuntimeStep DEF FallsBack
    <3> QED
      BY <1>2, <3>1 DEF Waived
  <2> QED
    BY <2>1
<1>9. /\ ImportsOf(Candidate(p)) = job[p].cand \cap Imports
      /\ PublicationsOf(Candidate(p)) = job[p].cand \cap Publications
      /\ Target(p) = job[p].rec
      /\ bridge \subseteq Publications /\ proxies \subseteq Imports
  <2>1. Candidate(p).maps = job[p].cand
    BY DEF Candidate, Records
  <2> QED
    BY <2>1 DEF Target, ImportsOf, PublicationsOf, LockInv, TypeOK
<1>10. Requested(p)' = Requested(p)
  BY <1>3 DEF Requested
<1>11. /\ pc[p] = "bridge" => bridge' \cap Requested(p) = {}
       /\ pc[p] # "bridge" => bridge' = bridge
  <2>1. CASE ApplyBridge(p)
    <3>1. pc[p] = "bridge" /\ (Needed(p, "bridge") => bridge' \subseteq override \cap config)
      BY <1>8, <2>1 DEF ApplyBridge, Bridged, Skip, RuntimeSteps
    <3>2. CASE Needed(p, "bridge")
      BY <1>6, <3>1, <3>2 DEF Requested
    <3>3. CASE ~Needed(p, "bridge")
      <4>1. bridge' = bridge
        BY <2>1, <3>3 DEF ApplyBridge, Skip
      <4>2. job[p].cand \cap Publications = job[p].rec.maps \cap Publications
        BY <1>9, <3>3 DEF Needed, NeededByRollback, PublicationsOf
      <4> QED
        BY <1>9, <3>1, <4>1, <4>2 DEF Requested
    <3> QED
      BY <3>1, <3>2, <3>3
  <2>2. CASE ~ApplyBridge(p)
    BY <2>2 DEF Runtime, EnsureRelay, ProbeRelay, HaltRelay, ApplyImports, Skip
  <2> QED
    BY <2>1, <2>2
<1>12. /\ pc[p] = "imports" => proxies' \cap Requested(p) = {}
       /\ pc[p] # "imports" => proxies' = proxies
  <2>1. CASE ApplyImports(p)
    <3>1. pc[p] = "imports" /\ (Needed(p, "imports") => proxies' = config \cap Imports)
      BY <1>8, <2>1 DEF ApplyImports, Skip, RuntimeSteps
    <3>2. CASE Needed(p, "imports")
      BY <1>6, <3>1, <3>2 DEF Requested
    <3>3. CASE ~Needed(p, "imports")
      <4>1. proxies' = proxies
        BY <2>1, <3>3 DEF ApplyImports, Skip
      <4>2. job[p].cand \cap Imports = job[p].rec.maps \cap Imports
        BY <1>9, <3>3 DEF Needed, NeededByRollback, ImportsOf
      <4> QED
        BY <1>9, <3>1, <4>1, <4>2 DEF Requested
    <3> QED
      BY <3>1, <3>2, <3>3
  <2>2. CASE ~ApplyImports(p)
    BY <2>2 DEF Runtime, EnsureRelay, ProbeRelay, HaltRelay, ApplyBridge, Skip
  <2> QED
    BY <2>1, <2>2
<1>13. pc[p] = "halt" /\ ImportsOf(job[p].rec) = {} => ~relay'
  <2>1. SUFFICES ASSUME pc[p] = "halt", ImportsOf(job[p].rec) = {} PROVE ~relay'
    OBVIOUS
  <2>2. Needed(p, "halt")
    BY <2>1 DEF Needed, NeededByRollback
  <2> QED
    BY <1>5, <1>8, <2>1, <2>2
       DEF Runtime, EnsureRelay, ProbeRelay, HaltRelay, ApplyBridge, ApplyImports, Skip,
           Fails, RuntimeSteps
<1>14. /\ Past(p, Ending \cup {"imports", "halt"})' => pc[p] \in {"bridge", "imports", "halt"}
       /\ Past(p, Ending \cup {"halt"})' => pc[p] \in {"imports", "halt"}
       /\ Past(p, Ending)' => pc[p] = "halt"
  BY <1>1, <1>3, <1>7 DEF Past, Ending, RuntimeSteps
<1>15. /\ pc[p] \in {"imports", "halt"} => Past(p, Ending \cup {"imports", "halt"})
       /\ pc[p] = "halt" => Past(p, Ending \cup {"halt"})
  BY <1>1 DEF Past
<1> QED
  BY <1>3, <1>4, <1>10, <1>11, <1>12, <1>13, <1>14, <1>15 DEF Undone

\* An activation that fails enters a rollback, which has undone nothing yet.
LEMMA ActivationUndoes ==
  ASSUME UndoneInv, NEW p \in Procs, job[p].mode = "activate",
         Runtime(p) \/ ApplyImports(p)
  PROVE  Undone(p)'
<1> USE MoverKnown DEF UndoneInv, CalmInv, ServingInv, FilesInv, PortInv, RecordInv
<1>1. /\ pc[p] \in RuntimeSteps
      /\ Proceeds(p, pc[p]) \/ FallsBack(p, pc[p])
  BY RuntimeCosts
<1>2. CASE Proceeds(p, pc[p])
  <2>1. job'[p].mode = "activate" /\ pc'[p] \in {"probe", "bridge", "imports", "halt", "save"}
    BY <1>1, <1>2, NextStep DEF Proceeds, RuntimeSteps
  <2> QED
    BY <2>1, NothingToUndo DEF Past, Failing
<1>3. CASE FallsBack(p, pc[p])
  <2>1. job'[p].mode = "rollback" /\ pc'[p] = "restore"
    BY <1>3 DEF FallsBack
  <2> QED
    BY <2>1 DEF Undone, Past, Ending
<1> QED
  BY <1>1, <1>2, <1>3

\* The steps of a transaction that leave the runtime alone.
LEMMA TransactionUndoes ==
  ASSUME UndoneInv, [Next]_vars, NEW p \in Procs, Transaction(p)
  PROVE  Undone(p)'
<1> USE MoverKnown DEF UndoneInv, CalmInv, ServingInv, FilesInv, PortInv, RecordInv
<1>1. /\ UNCHANGED <<bridge, relay, proxies>>
      /\ Undone(p) /\ Priced(p) /\ StatusKnown(p)
  BY DEF Transaction, Write, Unwrite, SaveCandidate, Unkeep, RestoreFiles, SaveRolledBack,
         Resave, EndTransaction, runtime, sidecar, PortKnown
<1>2. faults \in Nat
  BY PricesStay
<1>3. CASE pc[p] = "end"
  <2>1. pc'[p] = "unlock" /\ job' = job
    BY <1>3 DEF Transaction, Write, Unwrite, SaveCandidate, Unkeep, RestoreFiles,
                SaveRolledBack, Resave, EndTransaction, Goto
  <2>2. Waived(p) => Waived(p)'
    BY <2>1, StaysWaived
  <2>3. \A steps \in {Ending \cup {"imports", "halt"}, Ending \cup {"halt"}, Ending} :
          Past(p, steps)' => Past(p, steps)
    BY <1>3, <2>1 DEF Past, Ending, Failing
  <2> QED
    BY <1>1, <2>1, <2>2, <2>3, StaysUndone
<1>4. CASE pc[p] # "end"
  <2>1. \/ WriteStep(p) \/ UnwriteStep(p) \/ SaveStep(p) \/ UnkeepStep(p)
        \/ RestoreStep(p) \/ RestateStep(p) \/ ResaveStep(p)
    BY <1>4, TransactionStep
  <2>2. ~job[p].ok /\ job[p].mode \in {"activate", "rollback"}
    <3>1. pc[p] \in TransactionSteps \ {"end"}
      BY <2>1 DEF WriteStep, UnwriteStep, SaveStep, UnkeepStep, RestoreStep, RestateStep,
                  ResaveStep, TransactionSteps
    <3> QED
      BY <3>1, InTransactionKnows DEF Modes
  <2>3. ASSUME Paid("write") \/ Paid("save"), pc[p] \in {"write", "keep"},
               job'[p].cand = job[p].cand, job'[p].rec.maps = job[p].rec.maps
        PROVE  Undone(p)'
    <3>1. CASE faults = 0
      <4>1. CalmRequest(p) /\ job[p].mode = "activate"
        BY <2>3, <3>1 DEF Calm, ActivationSteps
      <4>2. /\ bridge \subseteq job[p].rec.maps /\ proxies \subseteq job[p].rec.maps
            /\ relay => ImportsOf(job[p].rec) # {}
        BY <2>3, <4>1 DEF CalmRequest
      <4> QED
        BY <1>1, <2>3, <4>2 DEF Undone, Requested, ImportsOf
    <3>2. CASE faults # 0
      <4>1. faults >= 1
        BY <1>2, <3>2
      <4>2. Hidden'
        BY <2>3, <4>1, SecondHides
      <4> QED
        BY <4>2 DEF Undone, Waived
    <3> QED
      BY <3>1, <3>2
  <2>4. CASE WriteStep(p)
    <3>1. CASE Paid("write")
      BY <2>3, <2>4, <3>1 DEF WriteStep
    <3>2. CASE ~Paid("write")
      <4>1. job'[p].mode = "activate" /\ pc'[p] \in {"keep", "relay"}
        BY <2>4, <3>2 DEF WriteStep, ActivationSteps
      <4> QED
        BY <4>1, NothingToUndo DEF Past, Failing
    <3> QED
      BY <3>1, <3>2
  <2>5. CASE SaveStep(p)
    <3>1. CASE job'[p].ok
      BY <3>1, NothingToUndo DEF Past, Failing
    <3>2. CASE pc'[p] = "restore"
      BY <2>5, <3>2 DEF SaveStep, Undone, Past, Ending
    <3>3. CASE pc'[p] = "unkeep" /\ ~job'[p].ok
      <4>1. pc[p] = "keep" /\ Paid("save")
        BY <1>1, <2>5, <3>3 DEF SaveStep, Priced, ActivationSteps
      <4> QED
        BY <2>3, <2>5, <4>1 DEF SaveStep, SameTransaction
    <3> QED
      BY <2>5, <3>1, <3>2, <3>3 DEF SaveStep
  <2>6. CASE RestoreStep(p)
    <3>1. job'[p].mode = "rollback" /\ pc'[p] = "relay"
      BY <1>1, <2>6 DEF RestoreStep, StatusKnown
    <3> QED
      BY <3>1 DEF Undone, Past, Ending
  <2>7. CASE UnwriteStep(p) \/ UnkeepStep(p) \/ RestateStep(p) \/ ResaveStep(p)
    <3>1. /\ job'[p].cand = job[p].cand /\ job'[p].rec.maps = job[p].rec.maps
          /\ job'[p].bad = job[p].bad /\ job'[p].mode = job[p].mode
          /\ pc[p] \in {"unwrite", "unkeep", "restate", "resave"}
      BY <2>7 DEF UnwriteStep, UnkeepStep, RestateStep, ResaveStep, SameTransaction
    <3>2. job[p].mode = "activate" \/ pc[p] \in {"restate", "resave"}
      BY <1>1, <3>1 DEF StatusKnown
    <3>3. Failing(p)
      BY <1>1, <2>2, <3>1 DEF StatusKnown, Failing
    <3>4. Waived(p) => Waived(p)'
      BY <3>1, StaysWaived
    <3>5. \A steps \in {Ending \cup {"imports", "halt"}, Ending \cup {"halt"}, Ending} :
            Past(p, steps)
      BY <3>2, <3>3 DEF Past, Ending
    <3> QED
      BY <1>1, <3>1, <3>4, <3>5, StaysUndone
  <2> QED
    BY <2>1, <2>4, <2>5, <2>6, <2>7
<1> QED
  BY <1>3, <1>4

\* The sidecar, the environment and the deadline give nothing back that was
\* taken: a sync finds the previous files.
LEMMA SilentUndoes ==
  ASSUME UndoneInv, [Next]_vars, NEW q \in Procs,
         \/ DaemonBegin \/ DaemonApply \/ Outage \/ UNCHANGED vars
         \/ \E p \in Procs : Expire(p)
  PROVE  Undone(q)'
<1> USE MoverKnown DEF UndoneInv, CalmInv, ServingInv, FilesInv, PortInv, RecordInv
<1>1. /\ pc' = pc
      /\ job'[q].mode = job[q].mode /\ job'[q].bad = job[q].bad /\ job'[q].ok = job[q].ok
      /\ job'[q].cand = job[q].cand /\ job'[q].rec = job[q].rec
  BY DEF DaemonBegin, DaemonApply, Outage, Expire, vars, LockInv, TypeOK, Jobs
<1>2. Undone(q) /\ (Waived(q) => Waived(q)')
  BY <1>1, StaysWaived
<1>3. \A steps : Past(q, steps)' <=> Past(q, steps)
  BY <1>1 DEF Past, Failing
<1>4. bridge' \subseteq bridge /\ (relay' => relay)
  BY DEF DaemonBegin, DaemonApply, Outage, Expire, vars, runtime, sidecar
<1>5. CASE proxies' \subseteq proxies
  BY <1>1, <1>2, <1>3, <1>4, <1>5, StaysUndone
<1>6. CASE ~(proxies' \subseteq proxies)
  <2>1. DaemonApply /\ daemon = "apply" /\ proxies' \subseteq config
    BY <1>6 DEF DaemonBegin, DaemonApply, Outage, Expire, vars, runtime, sidecar,
                SidecarDies, SidecarStays
  <2>2. ~InTransaction(q)
    BY <2>1, BoxAssumption DEF LockInv, LocksHeld
  <2>3. SUFFICES ASSUME Failing(q), ~Waived(q)
                 PROVE  Undone(q)'
    BY <1>2, <1>3, NothingToUndo DEF Past, Undone
  <2>4. pc[q] = "unlock"
    BY <2>2, <2>3 DEF Failing, InTransaction
  <2>5. config = job[q].rec.maps
    <3>1. RequestKnown(q) /\ Undoing(q) /\ ~Costly
      BY <2>3, <2>4 DEF Undoing, Waived
    <3> QED
      BY <2>3, <3>1 DEF RequestKnown, SnapKept, Snapped
  <2>6. Past(q, Ending \cup {"imports", "halt"}) /\ Past(q, Ending)
    BY <2>3, <2>4 DEF Past, Ending
  <2> QED
    BY <1>1, <1>2, <1>4, <2>1, <2>3, <2>5, <2>6 DEF Undone, Requested, ImportsOf
<1> QED
  BY <1>5, <1>6

LEMMA StepUndoes ==
  ASSUME UndoneInv, [Next]_vars, NEW p \in Procs, Starts(p) \/ Step(p) \/ Crash(p)
  PROVE  Undone(p)'
<1> USE MoverKnown DEF UndoneInv, CalmInv, ServingInv, FilesInv, PortInv, RecordInv
<1>1. CASE (Runtime(p) \/ ApplyImports(p)) /\ job[p].mode # "lifecycle"
  BY <1>1, RollbackUndoes, ActivationUndoes DEF Modes
<1>2. CASE BeginTransaction(p)
  <2>1. job'[p].mode = "activate" /\ pc'[p] = "write"
    BY <1>2 DEF BeginTransaction, Goto
  <2> QED
    BY <2>1, NothingToUndo DEF Past, Failing
<1>3. CASE Transaction(p)
  BY <1>3, TransactionUndoes
<1>4. CASE \/ Starts(p) \/ Lifecycle(p) \/ SyncLoopback(p) \/ Preflight(p)
           \/ NoTransaction(p) \/ Crash(p)
           \/ ((Runtime(p) \/ ApplyImports(p)) /\ job[p].mode = "lifecycle")
  <2>1. job'[p].mode = "lifecycle"
    BY <1>4, StepPlain
  <2> QED
    BY <2>1, NothingToUndo DEF Past, Failing
<1> QED
  BY <1>1, <1>2, <1>3, <1>4 DEF Step, Sidecar

LEMMA NextUndone ==
  ASSUME UndoneInv, [Next]_vars
  PROVE  UndoneInv'
<1> USE DEF UndoneInv
<1>1. CalmInv' /\ LockInv'
  BY NextCalm DEF CalmInv, ServingInv, FilesInv, PortInv, RecordInv
<1>2. ASSUME NEW p \in Procs, Starts(p) \/ Step(p) \/ Crash(p)
      PROVE  \A q \in Procs : Undone(q)'
  <2>1. Undone(p)'
    BY <1>2, StepUndoes
  <2>2. ASSUME NEW q \in Procs \ {p} PROVE Undone(q)'
    <3>1. pc'[q] = "idle"
      BY <1>2, OthersStay, OneMoves DEF CalmInv, ServingInv, FilesInv, PortInv, RecordInv
    <3>2. job'[q].mode = "lifecycle"
      BY <1>1, <3>1 DEF LockInv, ModeKnown, PlainSteps
    <3> QED
      BY <3>2, NothingToUndo DEF Past, Failing
  <2> QED
    BY <2>1, <2>2
<1>3. \A q \in Procs : Undone(q)'
  BY <1>2, SilentUndoes DEF Next
<1> QED
  BY <1>1, <1>3

\* A port request is applied or undone as a whole, or the box is degraded, when
\* nothing dies (no process, no container and no removal of the box) and at most
\* one step fails, or any number of steps that neither write nor hide that they
\* failed.
THEOREM RequestsWhole ==
  ASSUME {"crash", "rmdir", "outage"} \cap MayFail = {},
         MaxFaults <= 1 \/ {"save", "write", "timeout", "swallow"} \cap MayFail = {}
  PROVE  Spec => []AppliedOrUndone
<1>1. ASSUME UndoneInv, ConfessedInv PROVE AppliedOrUndone
  <2> USE <1>1, MoverKnown DEF UndoneInv, CalmInv, ServingInv, FilesInv, PortInv, RecordInv
  <2>1. ~Costly /\ ~OutageSeen /\ ~Hidden /\ ~BadLuck
    <3>1. ~Costly
      BY NeverCostly DEF FewFailures
    <3>2. ~Among({"outage"})
      BY DEF Among
    <3>3. \/ faults \in Nat /\ ~(faults >= 2)
          \/ /\ ~Among({"save", "write", "timeout"})
             /\ ~Among({"save", "write", "timeout", "swallow"})
      BY BoxAssumption DEF LockInv, TypeOK, Among
    <3> QED
      BY <3>1, <3>2, <3>3 DEF OutageSeen, BadLuck, Hidden
  <2>2. ASSUME NEW p \in Procs
        PROVE  /\ Candidate(p).maps = job[p].cand
               /\ ImportsOf(Candidate(p)) = job[p].cand \cap Imports
               /\ PublicationsOf(Candidate(p)) = job[p].cand \cap Publications
    BY DEF Candidate, Records, ImportsOf, PublicationsOf
  <2>3. AppliedWhole
    <3>1. SUFFICES ASSUME NEW p \in Procs, pc[p] = "unlock", job[p].mode # "lifecycle", job[p].ok
                   PROVE  LET c == Candidate(p) IN
                          /\ saved.maps = c.maps /\ config = c.maps
                          /\ override = PublicationsOf(c)
                          /\ job[p].rec.status = "ready" =>
                               /\ PublicationsOf(c) # PublicationsOf(job[p].rec)
                                    => bridge = PublicationsOf(c)
                               /\ ImportsOf(c) # ImportsOf(job[p].rec) => proxies = ImportsOf(c)
                               /\ ImportsOf(c) # {} => relay
      BY DEF AppliedWhole
    <3>2. job[p].mode = "activate" /\ FilesAre(job[p].cand) /\ saved.maps = job[p].cand
      BY <3>1 DEF PortKnown, FilesKnown
    <3>3. Activated(p)
      BY DEF PortKnown
    <3> QED
      BY <2>1, <2>2, <3>1, <3>2, <3>3 DEF Activated, Reached, FilesAre
  <2>4. UndoneWhole
    <3>1. SUFFICES ASSUME NEW p \in Procs, Failed(p)
                   PROVE  /\ saved.maps = job[p].rec.maps
                          /\ saved.rtErr \/
                               /\ config = saved.maps /\ override = PublicationsOf(saved)
                               /\ bridge \cap Requested(p) = {} /\ proxies \cap Requested(p) = {}
                               /\ Requested(p) \cap Imports # {} /\ ImportsOf(saved) = {} => ~relay
      BY DEF UndoneWhole, Requested
    <3>2. Failing(p) /\ Undoing(p) /\ pc[p] = "unlock"
      BY <3>1 DEF Failed, Failing, Undoing
    <3>3. RequestKnown(p) /\ Undone(p) /\ Confessed(p)
      BY DEF ConfessedInv
    <3>4. saved.maps = job[p].rec.maps /\ Snapped(p) /\ SnapKept(p)
      BY <2>1, <3>2, <3>3 DEF RequestKnown
    <3>5. SUFFICES ASSUME ~saved.rtErr
                   PROVE  /\ config = saved.maps /\ override = PublicationsOf(saved)
                          /\ bridge \cap Requested(p) = {} /\ proxies \cap Requested(p) = {}
                          /\ Requested(p) \cap Imports # {} /\ ImportsOf(saved) = {} => ~relay
      BY <3>4
    <3>6. ~Waived(p)
      BY <2>1, <3>2, <3>3, <3>5 DEF Confessed, Waived
    <3>7. config = saved.maps /\ override = PublicationsOf(saved)
      BY <3>4 DEF Snapped, SnapKept, PublicationsOf
    <3>8. /\ Past(p, Ending \cup {"imports", "halt"}) /\ Past(p, Ending \cup {"halt"})
          /\ Past(p, Ending)
      BY <3>2 DEF Past, Ending
    <3> QED
      BY <3>3, <3>4, <3>6, <3>7, <3>8 DEF Undone, ImportsOf
  <2> QED
    BY <2>3, <2>4 DEF AppliedOrUndone
<1>2. ASSUME Init PROVE UndoneInv
  <2>1. ASSUME NEW p \in Procs PROVE Undone(p)
    BY <1>2 DEF Init, Undone, Past, Failing, NoJob, NewJob
  <2> QED
    BY <1>2, <2>1, InitCalm DEF UndoneInv
<1>3. UndoneInv /\ [Next]_vars => UndoneInv'
  BY NextUndone
<1>4. Init => ConfessedInv
  BY InitConfessed
<1>5. ConfessedInv /\ [Next]_vars => ConfessedInv'
  BY NextConfessed
<1> QED
  BY <1>1, <1>2, <1>3, <1>4, <1>5, PTL DEF Spec
=============================================================================
