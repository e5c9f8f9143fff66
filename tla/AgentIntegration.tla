-------------------------- MODULE AgentIntegration --------------------------
(***************************************************************************)
(* Installing Wktbox for coding agents (agentintegration/manager.go): per  *)
(* target a skill directory, and a block in an instructions file that      *)
(* belongs to the user.                                                    *)
(*                                                                         *)
(* Both are replaced by renames, with copies aside until the end; nothing  *)
(* locks out a second command or an editor, and a command can be killed    *)
(* between two renames.                                                    *)
(*                                                                         *)
(* Abstracted: a skill directory is bundled, modified or absent; reading   *)
(* the status is one step; file modes; the empty parent of a skill.  A     *)
(* process runs one command; its temporary files are its own.              *)
(***************************************************************************)
EXTENDS AgentText, FiniteSets

CONSTANTS
  Procs,          \* the commands, each run by a process of its own
  Order,          \* the targets in the order of expandTargets
  Texts,          \* per target, the instructions that may exist before the first command
  Overlapping,    \* commands and edits of the user may overlap a command
  MayFail,        \* the kinds of failure that occur, a subset of FaultKinds
  MaxFaults       \* how many of them occur in a behaviour

\* "io" a call on the file system fails;  "kill" a command is killed
\* "edit" not a failure, but bounded as well: the user edits
FaultKinds == {"io", "kill", "edit"}

\* The content of a file that is not there, and what reading it gives.
NoFile == <<"nofile">>
Read(x) == IF x = NoFile THEN <<>> ELSE x

Targets == {Order[i] : i \in DOMAIN Order}

ASSUME AgentAssumption ==
  /\ Order \in Seq({"codex", "claude"}) /\ Order # <<>>
  /\ \A t \in Targets : Texts[t] \subseteq Text \cup {NoFile}
  /\ Overlapping \in BOOLEAN
  /\ MayFail \subseteq FaultKinds /\ MaxFaults \in Nat

VARIABLES
  skill,          \* per target, the skill directory: "absent", "bundled" or "modified"
  file,           \* per target, the instructions file
  temp,           \* per process, its temporary files: what is staged and the backups
  run,            \* per process, its command
  faults          \* failures and edits so far

vars == <<skill, file, temp, run, faults>>

Skills == {"absent", "bundled", "modified"}
NoTemp == [staged |-> FALSE, text |-> NoFile, skill |-> "absent", file |-> NoFile]

Places == {"new", "status", "stage", "read", "backup", "activate", "commit", "discard",
           "strip", "unskill", "unfile", "refile", "unrefile", "restore",
           "purge", "forget", "sync", "done", "killed"}
\* skill and file: what the command has found at its target;  spoiled: a call that
\* undoes the others has failed as well
New == [op |-> "none", force |-> FALSE, dry |-> FALSE, todo |-> <<>>, at |-> "new", ok |-> FALSE,
        skill |-> "absent", file |-> NoFile, spoiled |-> FALSE]

Target(p) == Head(run[p].todo)
Running(p) == run[p].at \notin {"new", "done", "killed"}
Undisturbed == Overlapping \/ \A p \in Procs : ~Running(p)

Fault(k) == k \in MayFail /\ faults < MaxFaults /\ faults' = faults + 1
NoFault == faults' = faults

Goto(p, at) == run' = [run EXCEPT ![p].at = at]
\* What every return does (defer): nothing staged is left.
Unstaged(p) == temp' = [temp EXCEPT ![p].staged = FALSE, ![p].text = NoFile]
Ended(p, ok, spoiled) ==
  [op |-> run[p].op, force |-> run[p].force, dry |-> FALSE, todo |-> <<>>, at |-> "done",
   ok |-> ok, skill |-> "absent", file |-> NoFile, spoiled |-> spoiled]
Over(p, ok) == Ended(p, ok, FALSE)
Fail(p) == run' = [run EXCEPT ![p] = Over(p, FALSE)] /\ Unstaged(p)
IOError(p) == Fault("io") /\ Fail(p)
\* Mutant: the loop over the targets does not end.
NextForever(p) ==
  run' = [run EXCEPT ![p].at = "status", ![p].todo = Tail(@)] /\ Unstaged(p)
NextTarget(p) ==
  LET rest == Tail(run[p].todo) IN
  /\ run' = IF rest = <<>> THEN [run EXCEPT ![p] = Over(p, TRUE)]
            ELSE [run EXCEPT ![p].at = "status", ![p].todo = rest]
  /\ Unstaged(p)

-----------------------------------------------------------------------------
\* Install, Uninstall: the targets one after the other, up to the first failure.
Begin(p, op, force, dry, todo) ==
  /\ run[p].at = "new" /\ Undisturbed /\ NoFault
  /\ run' = [run EXCEPT ![p] = [New EXCEPT !.op = op, !.force = force, !.dry = dry,
                                           !.todo = todo, !.at = "status"]]
  /\ UNCHANGED <<skill, file, temp>>

\* A skill that the user has modified is refused without force.
Conflict(p) == skill[Target(p)] = "modified" /\ ~run[p].force
\* Mutant: the block is not looked for.
CompleteSkill(p) == skill[Target(p)] = "bundled"
Complete(p) == skill[Target(p)] = "bundled" /\ Managed(Read(file[Target(p)]))

\* installTarget and uninstallTarget look at the target.
Status(p) ==
  LET t == Target(p)
      looked == [run EXCEPT ![p].skill = skill[t], ![p].file = file[t]]
  IN  /\ run[p].at = "status"
      /\ \/ Conflict(p) /\ NoFault /\ Fail(p)
         \/ /\ ~Conflict(p) /\ run[p].op = "install" /\ (Complete(p) \/ run[p].dry)
            /\ NoFault /\ NextTarget(p)
         \/ /\ ~Conflict(p) /\ run[p].op = "install" /\ ~Complete(p) /\ ~run[p].dry
            /\ NoFault /\ UNCHANGED temp
            /\ run' = [looked EXCEPT ![p].at = IF skill[t] = "bundled" THEN "read" ELSE "stage"]
         \/ /\ ~Conflict(p) /\ run[p].op = "uninstall" /\ NoFault /\ UNCHANGED temp
            /\ run' = [looked EXCEPT ![p].at = "strip"]
         \/ IOError(p)
      /\ UNCHANGED <<skill, file>>

InstallsSkill(p) == run[p].skill # "bundled"
InstallsText(p) == ~Managed(Read(run[p].file))

\* copySkillTree, into a directory next to the skill
CopySkill(p) == temp' = [temp EXCEPT ![p].staged = TRUE]

Stage(p) ==
  /\ run[p].at = "stage"
  /\ \/ NoFault /\ CopySkill(p)
        /\ Goto(p, IF InstallsText(p) THEN "read" ELSE "backup")
     \/ IOError(p)
  /\ UNCHANGED <<skill, file>>

\* The instructions are read again, rendered and staged (prepareAtomicFile).
ReadAndRender(p) ==
  LET x == Read(file[Target(p)]) IN
  /\ run[p].at = "read"
  /\ \/ Broken(x) /\ NoFault /\ Fail(p)
     \/ ~Broken(x) /\ NoFault /\ temp' = [temp EXCEPT ![p].text = Render(x)]
        /\ Goto(p, IF InstallsSkill(p) THEN "backup" ELSE "commit")
     \/ IOError(p)
  /\ UNCHANGED <<skill, file>>

\* The skill that was found is renamed to a backup; it must still be there.
Aside(p, next) ==
  LET t == Target(p) IN
  \/ run[p].skill = "absent" /\ NoFault /\ Goto(p, next) /\ UNCHANGED <<skill, temp>>
  \/ /\ run[p].skill # "absent" /\ skill[t] # "absent" /\ NoFault /\ Goto(p, next)
     /\ skill' = [skill EXCEPT ![t] = "absent"]
     /\ temp' = [temp EXCEPT ![p].skill = skill[t]]
  \/ /\ run[p].skill # "absent" /\ UNCHANGED skill
     /\ (skill[t] = "absent" /\ NoFault /\ Fail(p)) \/ IOError(p)

Backup(p) == run[p].at = "backup" /\ Aside(p, "activate") /\ UNCHANGED file

\* A directory is renamed only to a place that is free.
Activate(p) ==
  LET t == Target(p) IN
  /\ run[p].at = "activate"
  /\ \/ skill[t] = "absent" /\ NoFault
        /\ skill' = [skill EXCEPT ![t] = "bundled"]
        /\ temp' = [temp EXCEPT ![p].staged = FALSE]
        /\ Goto(p, IF InstallsText(p) THEN "commit" ELSE "purge")
     \/ /\ (skill[t] # "absent" /\ NoFault) \/ Fault("io")
        /\ Goto(p, "restore") /\ UNCHANGED <<skill, temp>>
  /\ UNCHANGED file

\* The staged instructions replace the file.
Commit(p) ==
  /\ run[p].at = "commit"
  /\ \/ NoFault /\ file' = [file EXCEPT ![Target(p)] = temp[p].text]
        /\ temp' = [temp EXCEPT ![p].text = NoFile] /\ Goto(p, "purge")
     \/ Fault("io") /\ Goto(p, IF InstallsSkill(p) THEN "discard" ELSE "restore")
        /\ UNCHANGED <<file, temp>>
  /\ UNCHANGED skill

\* rollbackSkill of an install.  A removal that fails leaves a part behind.
Discard(p) ==
  LET t == Target(p) IN
  /\ run[p].at = "discard"
  /\ \/ NoFault /\ skill' = [skill EXCEPT ![t] = "absent"] /\ Goto(p, "restore")
     \/ Fault("io") /\ skill' = [skill EXCEPT ![t] = IF @ = "absent" THEN @ ELSE "modified"]
        /\ run' = [run EXCEPT ![p].at = "restore", ![p].spoiled = TRUE]
  /\ UNCHANGED <<file, temp>>

\* The backup of the skill, if there is one, goes back to its place, which must be
\* free; what fails here is ignored.
Restore(p) ==
  LET t == Target(p) IN
  /\ run[p].at = "restore" /\ UNCHANGED file
  /\ \/ /\ temp[p].skill # "absent" /\ skill[t] = "absent" /\ NoFault
        /\ skill' = [skill EXCEPT ![t] = temp[p].skill]
        /\ temp' = [temp EXCEPT ![p] = [NoTemp EXCEPT !.file = temp[p].file]]
        /\ run' = [run EXCEPT ![p] = Ended(p, FALSE, run[p].spoiled)]
     \/ /\ temp[p].skill = "absent" \/ skill[t] # "absent"
        /\ NoFault /\ Unstaged(p) /\ UNCHANGED skill
        /\ run' = [run EXCEPT ![p] = Ended(p, FALSE, run[p].spoiled)]
     \/ /\ temp[p].skill # "absent" /\ Fault("io") /\ Unstaged(p) /\ UNCHANGED skill
        /\ run' = [run EXCEPT ![p] = Ended(p, FALSE, TRUE)]

-----------------------------------------------------------------------------
\* uninstallTarget
HasMarkers(p) == Marked(Read(run[p].file))

\* What is left of the instructions; none are kept for nothing.
Rest(x) == IF Marked(x) /\ Remove(x) # <<>> THEN Remove(x) ELSE NoFile

Strip(p) ==
  LET t == Target(p)
      x == Read(file[t])
  IN  /\ run[p].at = "strip"
      /\ \/ Broken(x) /\ NoFault /\ Fail(p)
         \/ /\ ~Broken(x) /\ ((~Marked(x) /\ run[p].skill = "absent") \/ run[p].dry)
            /\ NoFault /\ NextTarget(p)
         \/ /\ ~Broken(x) /\ (Marked(x) \/ run[p].skill # "absent") /\ ~run[p].dry /\ NoFault
            /\ temp' = [temp EXCEPT ![p].text = Rest(x)]
            /\ run' = [run EXCEPT ![p].file = file[t], ![p].at = "unskill"]
         \/ IOError(p)
      /\ UNCHANGED <<skill, file>>

Unskill(p) ==
  run[p].at = "unskill" /\ Aside(p, IF HasMarkers(p) THEN "unfile" ELSE "purge") /\ UNCHANGED file

\* The instructions are renamed to a backup; they must still be there.
Unfile(p) ==
  LET t == Target(p) IN
  /\ run[p].at = "unfile"
  /\ \/ file[t] # NoFile /\ NoFault /\ file' = [file EXCEPT ![t] = NoFile]
        /\ temp' = [temp EXCEPT ![p].file = file[t]]
        /\ Goto(p, IF temp[p].text = NoFile THEN "purge" ELSE "refile")
     \/ /\ (file[t] = NoFile /\ NoFault) \/ Fault("io")
        /\ Goto(p, "restore") /\ UNCHANGED <<file, temp>>
  /\ UNCHANGED skill

\* Mutant: only the skill is restored.
RefileAlone(p) ==
  /\ run[p].at = "refile"
  /\ \/ NoFault /\ file' = [file EXCEPT ![Target(p)] = temp[p].text]
        /\ temp' = [temp EXCEPT ![p].text = NoFile] /\ Goto(p, "purge")
     \/ Fault("io") /\ Goto(p, "restore") /\ UNCHANGED <<file, temp>>
  /\ UNCHANGED skill
Refile(p) ==
  /\ run[p].at = "refile"
  /\ \/ NoFault /\ file' = [file EXCEPT ![Target(p)] = temp[p].text]
        /\ temp' = [temp EXCEPT ![p].text = NoFile] /\ Goto(p, "purge")
     \/ Fault("io") /\ Goto(p, "unrefile") /\ UNCHANGED <<file, temp>>
  /\ UNCHANGED skill

\* A file is renamed over another one; what fails here is ignored.
Unrefile(p) ==
  /\ run[p].at = "unrefile"
  /\ \/ NoFault /\ file' = [file EXCEPT ![Target(p)] = temp[p].file]
        /\ temp' = [temp EXCEPT ![p].file = NoFile] /\ Goto(p, "restore")
     \/ Fault("io") /\ UNCHANGED <<file, temp>>
        /\ run' = [run EXCEPT ![p].at = "restore", ![p].spoiled = TRUE]
  /\ UNCHANGED skill

-----------------------------------------------------------------------------
\* Once both are in place the backups are removed.
Purge(p) ==
  /\ run[p].at = "purge"
  /\ \/ NoFault /\ temp' = [temp EXCEPT ![p].skill = "absent"]
        /\ Goto(p, IF run[p].op = "install" THEN "sync" ELSE "forget")
     \/ temp[p].skill # "absent" /\ IOError(p)
  /\ UNCHANGED <<skill, file>>

Forget(p) ==
  /\ run[p].at = "forget"
  /\ \/ NoFault /\ temp' = [temp EXCEPT ![p].file = NoFile] /\ Goto(p, "sync")
     \/ temp[p].file # NoFile /\ IOError(p)
  /\ UNCHANGED <<skill, file>>

\* The directories are synced and the status is read again.
Sync(p) ==
  /\ run[p].at = "sync" /\ ((NoFault /\ NextTarget(p)) \/ IOError(p))
  /\ UNCHANGED <<skill, file>>

Step(p) == \/ Status(p) \/ Stage(p) \/ ReadAndRender(p) \/ Backup(p) \/ Activate(p) \/ Commit(p)
           \/ Discard(p) \/ Restore(p) \/ Strip(p) \/ Unskill(p) \/ Unfile(p) \/ Refile(p)
           \/ Unrefile(p) \/ Purge(p) \/ Forget(p) \/ Sync(p)

-----------------------------------------------------------------------------
\* The environment: a kill leaves every file as it is.
Killed(p) ==
  /\ Running(p) /\ Fault("kill") /\ Goto(p, "killed") /\ UNCHANGED <<skill, file, temp>>
Write(t) ==
  /\ Undisturbed /\ Fault("edit") /\ file' = [file EXCEPT ![t] = Append(Read(@), "a")]
  /\ UNCHANGED <<skill, temp, run>>
Modify(t) ==
  /\ Undisturbed /\ skill[t] = "bundled" /\ Fault("edit")
  /\ skill' = [skill EXCEPT ![t] = "modified"] /\ UNCHANGED <<file, temp, run>>

Init ==
  /\ skill \in [Targets -> Skills] /\ file \in [Targets -> UNION {Texts[t] : t \in Targets}]
  /\ \A t \in Targets : file[t] \in Texts[t]
  /\ temp = [p \in Procs |-> NoTemp] /\ run = [p \in Procs |-> New] /\ faults = 0

\* The target is one or all of them (Options.Target).
Todos == {<<Order[i]>> : i \in DOMAIN Order} \cup {Order}

Next ==
  \/ \E p \in Procs :
       \/ Step(p) \/ Killed(p)
       \/ \E op \in {"install", "uninstall"}, force, dry \in BOOLEAN, todo \in Todos :
            Begin(p, op, force, dry, todo)
  \/ \E t \in Targets : Write(t) \/ Modify(t)

Spec == Init /\ [][Next]_vars

-----------------------------------------------------------------------------
Commands ==
  [op : {"none", "install", "uninstall"}, force : BOOLEAN, dry : BOOLEAN,
   todo : Seq(Targets), at : Places, ok : BOOLEAN, skill : Skills,
   file : Text \cup {NoFile}, spoiled : BOOLEAN]

Temps == [staged : BOOLEAN, text : Text \cup {NoFile}, skill : Skills, file : Text \cup {NoFile}]

\* Types; a command at work has a target, and nothing is staged by one that is not.
TypeOK ==
  /\ skill \in [Targets -> Skills] /\ file \in [Targets -> Text \cup {NoFile}]
  /\ temp \in [Procs -> Temps]
  /\ run \in [Procs -> Commands] /\ faults \in 0 .. MaxFaults
  /\ \A p \in Procs : Running(p) => run[p].todo # <<>>

Found(p) == <<run[p].skill, run[p].file>>
Wanted(p) ==
  LET x == Read(run[p].file) IN
  IF run[p].op = "install"
  THEN <<"bundled", IF Managed(x) THEN run[p].file ELSE Render(x)>>
  ELSE <<"absent", IF Marked(x) THEN Rest(x) ELSE run[p].file>>
Left(p) == <<skill'[Target(p)], file'[Target(p)]>>

\* A command that fails half-way leaves its target as it was or as it was asked for,
\* skill and instructions together, unless the undoing fails as well (rollbackSkill,
\* the backups of installTarget and uninstallTarget).
FailsWhole(p) ==
  /\ run[p].at \notin {"new", "status", "done"}
  /\ run'[p].at = "done" /\ ~run'[p].ok /\ ~run'[p].spoiled
  => \/ Left(p) = Found(p)
     \/ run[p].at \in {"purge", "forget", "sync"} /\ Left(p) = Wanted(p)
AllOrNothing == [][\A p \in Procs : FailsWhole(p)]_vars

\* A command that says to have succeeded at a target, and not only to have looked at
\* it, leaves it as asked for: the bundled skill and the block, or no skill and no
\* marker but those of a second block (installTarget, uninstallTarget).
Succeeds(p) ==
  LET t == Target(p) IN
  /\ run[p].at \in {"status", "strip", "sync"} /\ ~run[p].dry
  /\ \/ run'[p].at = "done" /\ run'[p].ok
     \/ run'[p].at = "status" /\ run'[p].todo # run[p].todo
  => IF run[p].op = "install" THEN skill'[t] = "bundled" /\ Managed(Read(file'[t]))
     ELSE skill'[t] = "absent" /\ (Marked(Read(file'[t])) => file'[t] = Remove(run[p].file))
SuccessMeansDone == [][\A p \in Procs : Succeeds(p)]_vars

\* No command makes something disappear that the user has written outside the block:
\* it stays in the instructions or in a backup, also of a command that was killed
\* (Commit, Unfile, Refile, Forget).
Written == {Prose(Read(file[t])) : t \in Targets} \cup {Prose(Read(temp[p].file)) : p \in Procs}
ProseKept == [][run' # run => Written \ {<<>>} \subseteq Written']_vars
=============================================================================
