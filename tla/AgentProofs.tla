---------------------------- MODULE AgentProofs ----------------------------
(***************************************************************************)
(* A command of the agent integration that fails half-way leaves the skill *)
(* and the instructions as they were or as they were asked for: proved for *)
(* any number of commands, targets, texts and failures, when no command    *)
(* and no edit overlaps another one.                                       *)
(*                                                                         *)
(* The inductive invariant says, for every place of a command, where the   *)
(* skill and the text are that it has found: in their places or in its     *)
(* backups.                                                                *)
(***************************************************************************)
EXTENDS AgentIntegration, TLAPS, SequenceTheorems, WellFoundedInduction

-----------------------------------------------------------------------------
\* Texts.

\* A token that a text has has a first place.
LEMMA FirstPlace ==
  ASSUME NEW x \in Text, NEW k, Has(x, k)
  PROVE  Index(x, k) \in 1 .. Len(x)
<1> DEFINE T == {i \in 1 .. Len(x) : x[i] = k}
           R == {r \in Nat \X Nat : r[1] < r[2]}
<1>1. DOMAIN x = 1 .. Len(x) /\ Len(x) \in Nat BY DEF Text
<1>2. T # {} /\ T \subseteq Nat BY <1>1 DEF Has
<1>3. R = OpToRel(<, Nat) BY DEF OpToRel
<1>4. PICK i \in T : \A j \in T : <<j, i>> \notin R
  <2>1. IsWellFoundedOn(R, Nat) BY <1>3, NatLessThanWellFounded
  <2> HIDE DEF T, R
  <2> QED BY <1>2, <2>1, WFMin
<1>5. i \in DOMAIN x /\ x[i] = k /\ \A j \in 1 .. i - 1 : x[j] # k
  <2>1. i \in 1 .. Len(x) /\ x[i] = k OBVIOUS
  <2>2. ASSUME NEW j \in 1 .. i - 1 PROVE x[j] # k
    <3>1. j \in Nat /\ i \in Nat /\ j < i /\ j \in 1 .. Len(x) BY <1>1, <2>1
    <3>2. <<j, i>> \in R BY <3>1
    <3> QED BY <1>4, <3>1, <3>2
  <2> QED BY <1>1, <2>1, <2>2
<1>6. Index(x, k) \in DOMAIN x BY <1>5 DEF Index
<1> QED BY <1>1, <1>6

LEMMA PartsType ==
  ASSUME NEW x \in Text, NEW k, Has(x, k)
  PROVE  Before(x, k) \in Text /\ After(x, k) \in Text
<1>1. Index(x, k) \in 1 .. Len(x) /\ Len(x) \in Nat BY FirstPlace DEF Text
<1>2. SubSeq(x, 1, Index(x, k) - 1) \in Seq(Tokens)
  BY <1>1, SubSeqProperties, \A i \in 1 .. Index(x, k) - 1 : x[i] \in Tokens DEF Text
<1>3. SubSeq(x, Index(x, k) + 1, Len(x)) \in Seq(Tokens)
  BY <1>1, SubSeqProperties, \A i \in Index(x, k) + 1 .. Len(x) : x[i] \in Tokens DEF Text
<1> QED BY <1>2, <1>3 DEF Before, After, Text

\* Rendering and removing a block give a text.
LEMMA RenderType ==
  ASSUME NEW x \in Text, ~Broken(x)
  PROVE  Render(x) \in Text
<1>1. Block \in Seq(Tokens) /\ <<"n">> \in Seq(Tokens) /\ Separator(x) \in Seq(Tokens)
  <2>1. Block \in Seq(Tokens) BY DEF Block, Tokens
  <2>2. <<>> \in Seq(Tokens) /\ <<"n">> \in Seq(Tokens) /\ <<"n", "n">> \in Seq(Tokens)
    BY DEF Tokens
  <2> QED BY <2>1, <2>2 DEF Separator
<1>2. CASE Marked(x)
  <2>1. Before(x, "S") \in Text /\ After(x, "E") \in Text BY <1>2, PartsType DEF Broken
  <2>2. Before(x, "S") \o Block \in Seq(Tokens) BY <1>1, <2>1, ConcatProperties DEF Text
  <2>3. Before(x, "S") \o Block \o After(x, "E") \in Seq(Tokens)
    BY <2>1, <2>2, ConcatProperties DEF Text
  <2> QED BY <1>2, <2>3 DEF Render, Text
<1>3. CASE ~Marked(x)
  <2>1. Block \o <<"n">> \in Seq(Tokens) BY <1>1, ConcatProperties
  <2>2. x \o Separator(x) \in Seq(Tokens) BY <1>1, ConcatProperties DEF Text
  <2>3. x \o Separator(x) \o Block \in Seq(Tokens) BY <1>1, <2>2, ConcatProperties
  <2>4. x \o Separator(x) \o Block \o <<"n">> \in Seq(Tokens) BY <1>1, <2>3, ConcatProperties
  <2> QED BY <1>3, <2>1, <2>4 DEF Render, Text
<1> QED BY <1>2, <1>3

LEMMA RemoveType ==
  ASSUME NEW x \in Text, Marked(x), ~Broken(x)
  PROVE  Remove(x) \in Text
<1> DEFINE b == Before(x, "S")
           a == After(x, "E")
<1>1. b \in Text /\ a \in Text BY PartsType DEF Broken
<1>2. b \o a \in Seq(Tokens) BY <1>1, ConcatProperties DEF Text
<1>3. StartsLine(a) => Tail(a) \in Seq(Tokens) BY <1>1, HeadTailProperties DEF StartsLine, Text
<1>4. EndsWith(b, <<"n", "n">>) => SubSeq(b, 1, Len(b) - 1) \o a \in Seq(Tokens)
  <2> SUFFICES ASSUME EndsWith(b, <<"n", "n">>) PROVE SubSeq(b, 1, Len(b) - 1) \o a \in Seq(Tokens)
    OBVIOUS
  <2>1. Len(b) \in Nat /\ \A i \in 1 .. Len(b) - 1 : b[i] \in Tokens BY <1>1 DEF Text
  <2>2. SubSeq(b, 1, Len(b) - 1) \in Seq(Tokens) BY <2>1, SubSeqProperties
  <2> QED BY <1>1, <2>2, ConcatProperties DEF Text
<1> HIDE DEF a, b
<1>5. StartsLine(a) => b \o Tail(a) \in Seq(Tokens) BY <1>1, <1>3, ConcatProperties DEF Text
<1>6. \/ EndsWith(b, <<"n", "n">>) /\ Remove(x) = SubSeq(b, 1, Len(b) - 1) \o a
      \/ StartsLine(a) /\ Remove(x) = b \o Tail(a)
      \/ Remove(x) = b \o a
  BY DEF Remove, a, b
<1> QED BY <1>2, <1>4, <1>5, <1>6 DEF Text

LEMMA NoFileIsNoText == NoFile \notin Text
BY DEF NoFile, Text, Tokens

LEMMA ReadType == \A x \in Text \cup {NoFile} : Read(x) \in Text
BY DEF Read, Text

-----------------------------------------------------------------------------
\* Types.

LEMMA EndedType ==
  ASSUME TypeOK, NEW p \in Procs, NEW ok \in BOOLEAN, NEW spoiled \in BOOLEAN
  PROVE  Ended(p, ok, spoiled) \in Commands /\ Ended(p, ok, spoiled).at = "done"
<1>1. run[p] \in Commands BY DEF TypeOK
<1>2. <<>> \in Seq(Targets) /\ "done" \in Places /\ "absent" \in Skills BY DEF Places, Skills
<1> QED BY <1>1, <1>2 DEF Commands, Ended

LEMMA OverType ==
  ASSUME TypeOK, NEW p \in Procs, NEW ok \in BOOLEAN
  PROVE  Over(p, ok) \in Commands /\ Over(p, ok).at = "done"
BY EndedType DEF Over

\* A step that gives one command a new state.
LEMMA PutType ==
  ASSUME TypeOK, NEW p \in Procs, NEW c \in Commands, run' = [run EXCEPT ![p] = c],
         c.at \in {"new", "done", "killed"} \/ c.todo # <<>>,
         skill' \in [Targets -> Skills], file' \in [Targets -> Text \cup {NoFile}],
         temp' \in [Procs -> Temps],
         faults' \in 0 .. MaxFaults
  PROVE  TypeOK'
<1>1. run' \in [Procs -> Commands] BY DEF TypeOK
<1>2. ASSUME NEW q \in Procs, Running(q)' PROVE run'[q].todo # <<>>
  <2>1. CASE q = p BY <1>2, <2>1 DEF TypeOK, Running
  <2>2. CASE q # p
    <3>1. run'[q] = run[q] BY <2>2 DEF TypeOK
    <3> QED BY <1>2, <3>1 DEF TypeOK, Running
  <2> QED BY <2>1, <2>2
<1> QED BY <1>1, <1>2 DEF TypeOK

\* A return that fails.
LEMMA FailType ==
  ASSUME TypeOK, NEW p \in Procs, Fail(p), UNCHANGED <<skill, file>>, faults' \in 0 .. MaxFaults
  PROVE  TypeOK'
<1>1. Over(p, FALSE) \in Commands /\ Over(p, FALSE).at = "done" BY OverType
<1>2. run' = [run EXCEPT ![p] = Over(p, FALSE)] /\ Unstaged(p) BY DEF Fail
<1>3. temp' \in [Procs -> Temps]
  BY <1>2 DEF TypeOK, Unstaged, Temps
<1>4. skill' \in [Targets -> Skills] /\ file' \in [Targets -> Text \cup {NoFile}] BY DEF TypeOK
<1> QED BY <1>1, <1>2, <1>3, <1>4, PutType

LEMMA FaultType ==
  ASSUME TypeOK, NEW k, NoFault \/ Fault(k)
  PROVE  faults' \in 0 .. MaxFaults
BY AgentAssumption DEF TypeOK, NoFault, Fault

\* What a step in the middle of a command changes: the place, its files, its target.
LEMMA MidType ==
  ASSUME TypeOK, NEW p \in Procs, Running(p), faults' \in 0 .. MaxFaults,
         NEW at \in Places,
         \/ Goto(p, at)
         \/ run' = [run EXCEPT ![p].at = at, ![p].spoiled = TRUE]
         \/ \E s \in Skills, x \in Text \cup {NoFile} :
              run' = [run EXCEPT ![p].skill = s, ![p].file = x, ![p].at = at]
         \/ \E x \in Text \cup {NoFile} : run' = [run EXCEPT ![p].file = x, ![p].at = at],
         skill' \in [Targets -> Skills], file' \in [Targets -> Text \cup {NoFile}],
         temp' \in [Procs -> Temps]
  PROVE  TypeOK'
<1>0. run[p] \in Commands /\ run[p].todo # <<>> BY DEF TypeOK
<1> USE DEF Commands
<1>1. CASE Goto(p, at)
  <2> DEFINE c == [run[p] EXCEPT !.at = at]
  <2>1. c \in Commands /\ c.todo = run[p].todo /\ run' = [run EXCEPT ![p] = c]
    BY <1>0, <1>1 DEF Goto
  <2> HIDE DEF c
  <2> QED BY <1>0, <2>1, PutType
<1>2. CASE run' = [run EXCEPT ![p].at = at, ![p].spoiled = TRUE]
  <2> DEFINE c == [run[p] EXCEPT !.at = at, !.spoiled = TRUE]
  <2>1. c \in Commands /\ c.todo = run[p].todo /\ run' = [run EXCEPT ![p] = c]
    BY <1>0, <1>2 DEF TypeOK
  <2> HIDE DEF c
  <2> QED BY <1>0, <2>1, PutType
<1>3. CASE \E s \in Skills, x \in Text \cup {NoFile} :
              run' = [run EXCEPT ![p].skill = s, ![p].file = x, ![p].at = at]
  <2>1. PICK s \in Skills, x \in Text \cup {NoFile} :
              run' = [run EXCEPT ![p].skill = s, ![p].file = x, ![p].at = at]
    BY <1>3
  <2> DEFINE c == [run[p] EXCEPT !.skill = s, !.file = x, !.at = at]
  <2>2. c \in Commands /\ c.todo = run[p].todo /\ run' = [run EXCEPT ![p] = c]
    BY <1>0, <2>1 DEF TypeOK
  <2> HIDE DEF c
  <2> QED BY <1>0, <2>2, PutType
<1>4. CASE \E x \in Text \cup {NoFile} : run' = [run EXCEPT ![p].file = x, ![p].at = at]
  <2>1. PICK x \in Text \cup {NoFile} : run' = [run EXCEPT ![p].file = x, ![p].at = at] BY <1>4
  <2> DEFINE c == [run[p] EXCEPT !.file = x, !.at = at]
  <2>2. c \in Commands /\ c.todo = run[p].todo /\ run' = [run EXCEPT ![p] = c]
    BY <1>0, <2>1 DEF TypeOK
  <2> HIDE DEF c
  <2> QED BY <1>0, <2>2, PutType
<1> QED BY <1>1, <1>2, <1>3, <1>4

LEMMA TargetType ==
  ASSUME TypeOK, NEW p \in Procs, Running(p)
  PROVE  /\ run[p].todo # <<>> /\ Target(p) \in Targets /\ run[p] \in Commands
         /\ skill[Target(p)] \in Skills /\ file[Target(p)] \in Text \cup {NoFile}
         /\ Read(file[Target(p)]) \in Text
<1>1. run[p] \in Commands /\ run[p].todo # <<>> BY DEF TypeOK
<1>2. Target(p) \in Targets BY <1>1, HeadTailProperties DEF Target, Commands
<1> QED BY <1>1, <1>2, ReadType DEF TypeOK

LEMMA NextTargetType ==
  ASSUME TypeOK, NEW p \in Procs, Running(p), NextTarget(p), UNCHANGED <<skill, file>>,
         faults' \in 0 .. MaxFaults
  PROVE  TypeOK'
<1>1. run[p] \in Commands /\ run[p].todo # <<>> BY TargetType
<1>2. Tail(run[p].todo) \in Seq(Targets) BY <1>1, HeadTailProperties DEF Commands
<1>3. Over(p, TRUE) \in Commands /\ Over(p, TRUE).at = "done" BY OverType
<1>4. temp' \in [Procs -> Temps]
  BY DEF TypeOK, NextTarget, Unstaged, Temps
<1>5. skill' \in [Targets -> Skills] /\ file' \in [Targets -> Text \cup {NoFile}] BY DEF TypeOK
<1>6. CASE Tail(run[p].todo) = <<>>
  <2>1. run' = [run EXCEPT ![p] = Over(p, TRUE)] BY <1>6 DEF NextTarget
  <2> QED BY <1>3, <1>4, <1>5, <2>1, PutType
<1>7. CASE Tail(run[p].todo) # <<>>
  <2> DEFINE c == [run[p] EXCEPT !.at = "status", !.todo = Tail(run[p].todo)]
  <2>1. run' = [run EXCEPT ![p] = c] BY <1>7 DEF NextTarget, TypeOK
  <2>2. c \in Commands /\ c.todo = Tail(run[p].todo) BY <1>1, <1>2 DEF Commands, Places
  <2> HIDE DEF c
  <2> QED BY <1>4, <1>5, <1>7, <2>1, <2>2, PutType
<1> QED BY <1>6, <1>7

LEMMA AsideType ==
  ASSUME TypeOK, NEW p \in Procs, Running(p), NEW next \in Places, Aside(p, next), UNCHANGED file
  PROVE  TypeOK'
<1>1. Target(p) \in Targets /\ skill[Target(p)] \in Skills BY TargetType
<1>2. faults' \in 0 .. MaxFaults BY FaultType DEF Aside, IOError
<1>3. CASE Fail(p) /\ UNCHANGED skill BY <1>2, <1>3, FailType
<1>4. CASE Goto(p, next) /\ UNCHANGED <<skill, temp>> BY <1>2, <1>4, MidType DEF TypeOK
<1>5. CASE /\ Goto(p, next)
           /\ skill' = [skill EXCEPT ![Target(p)] = "absent"]
           /\ temp' = [temp EXCEPT ![p].skill = skill[Target(p)]]
  <2>1. skill' \in [Targets -> Skills] BY <1>1, <1>5 DEF TypeOK, Skills
  <2>2. temp' \in [Procs -> Temps] BY <1>1, <1>5 DEF TypeOK, Temps
  <2>3. file' \in [Targets -> Text \cup {NoFile}] BY DEF TypeOK
  <2> QED BY <1>2, <1>5, <2>1, <2>2, <2>3, MidType
<1> QED BY <1>3, <1>4, <1>5 DEF Aside, IOError

LEMMA StepType ==
  ASSUME TypeOK, NEW p \in Procs, Step(p)
  PROVE  TypeOK'
<1>1. Running(p)
  BY DEF Step, Running, Status, Stage, ReadAndRender, Backup, Activate, Commit, Discard, Restore,
         Strip, Unskill, Unfile, Refile, Unrefile, Purge, Forget, Sync
<1>2. /\ Target(p) \in Targets /\ run[p] \in Commands
      /\ skill[Target(p)] \in Skills /\ file[Target(p)] \in Text \cup {NoFile}
      /\ Read(file[Target(p)]) \in Text
  BY <1>1, TargetType
<1>3. /\ skill \in [Targets -> Skills] /\ file \in [Targets -> Text \cup {NoFile}]
      /\ temp \in [Procs -> Temps] /\ temp[p] \in Temps
  BY DEF TypeOK
<1>4. \A x : x \in Places <=> x \in {"new", "status", "stage", "read", "backup", "activate", "commit",
        "discard", "strip", "unskill", "unfile", "refile", "unrefile", "restore", "purge", "forget",
        "sync", "done", "killed"}
  BY DEF Places
<1>5. Unstaged(p) => temp' \in [Procs -> Temps]
  <2> SUFFICES ASSUME Unstaged(p) PROVE temp' \in [Procs -> Temps] OBVIOUS
  <2> DEFINE c == [temp[p] EXCEPT !.staged = FALSE, !.text = NoFile]
  <2>1. c \in Temps BY <1>3 DEF Temps
  <2>2. temp' = [temp EXCEPT ![p] = c] BY <1>3 DEF Unstaged, Temps
  <2> HIDE DEF c
  <2> QED BY <1>3, <2>1, <2>2
<1>6. \A x \in Text \cup {NoFile} : [temp EXCEPT ![p].text = x] \in [Procs -> Temps]
  BY <1>3 DEF Temps
<1>7. \A x \in Text \cup {NoFile} : [temp EXCEPT ![p].file = x] \in [Procs -> Temps]
  BY <1>3 DEF Temps
<1>8. \A b \in BOOLEAN : [temp EXCEPT ![p].staged = b] \in [Procs -> Temps]
  BY <1>3 DEF Temps
<1>9. [temp EXCEPT ![p].skill = "absent"] \in [Procs -> Temps]
  BY <1>3 DEF Temps, Skills
<1>10. \A x \in Text \cup {NoFile} : [file EXCEPT ![Target(p)] = x] \in [Targets -> Text \cup {NoFile}]
  BY <1>2, <1>3
<1>11. \A x \in Skills : [skill EXCEPT ![Target(p)] = x] \in [Targets -> Skills]
  BY <1>2, <1>3
<1>12. \A x \in Text : Broken(x) \/ ~Marked(x) \/ Remove(x) \in Text BY RemoveType
<1>a. CASE Status(p)
  <2>1. CASE IOError(p) \/ (NoFault /\ Fail(p))
    BY <1>a, <2>1, FaultType, FailType DEF Status, IOError
  <2>2. CASE NoFault /\ NextTarget(p) BY <1>1, <1>a, <2>2, FaultType, NextTargetType DEF Status
  <2>3. ASSUME NEW at \in {"read", "stage", "strip"}, NoFault, UNCHANGED temp,
               run' = [run EXCEPT ![p].skill = skill[Target(p)], ![p].file = file[Target(p)], ![p].at = at]
        PROVE TypeOK'
    <3>1. faults' \in 0 .. MaxFaults BY <2>3, FaultType
    <3>2. UNCHANGED <<skill, file>> BY <1>a DEF Status
    <3>3. skill' \in [Targets -> Skills] /\ file' \in [Targets -> Text \cup {NoFile}] /\ temp' \in [Procs -> Temps]
      BY <1>3, <2>3, <3>2
    <3>4. at \in Places BY <1>4
    <3> QED BY <1>1, <1>2, <2>3, <3>1, <3>3, <3>4, MidType
  <2> QED BY <1>2, <1>a, <2>1, <2>2, <2>3 DEF Status, TypeOK, Commands
<1>b. CASE Stage(p)
  <2>1. CASE IOError(p) BY <1>b, <2>1, FaultType, FailType DEF Stage, IOError
  <2>2. CASE ~IOError(p)
    BY <1>1, <1>3, <1>4, <1>8, <1>b, <2>2, FaultType, MidType DEF Stage, CopySkill
  <2> QED BY <2>1, <2>2
<1>c. CASE ReadAndRender(p)
  <2>1. CASE IOError(p) \/ (NoFault /\ Fail(p))
    BY <1>c, <2>1, FaultType, FailType DEF ReadAndRender, IOError
  <2>2. CASE ~(IOError(p) \/ (NoFault /\ Fail(p)))
    <3>1. ~Broken(Read(file[Target(p)])) BY <1>c, <2>2 DEF ReadAndRender
    <3>2. Render(Read(file[Target(p)])) \in Text BY <1>2, <3>1, RenderType
    <3>3. temp' = [temp EXCEPT ![p].text = Render(Read(file[Target(p)]))]
      BY <1>c, <2>2 DEF ReadAndRender
    <3>4. temp' \in [Procs -> Temps] BY <1>6, <3>2, <3>3
    <3>5. NoFault /\ UNCHANGED <<skill, file>> /\ (Goto(p, "backup") \/ Goto(p, "commit"))
      BY <1>c, <2>2 DEF ReadAndRender
    <3> QED BY <1>1, <1>3, <1>4, <3>4, <3>5, FaultType, MidType
  <2> QED BY <2>1, <2>2
<1>d. CASE Backup(p) BY <1>1, <1>4, <1>d, AsideType DEF Backup
<1>e. CASE Activate(p)
  <2>1. faults' \in 0 .. MaxFaults BY <1>e, FaultType DEF Activate
  <2>2. "bundled" \in Skills BY DEF Skills
  <2> QED BY <1>1, <1>3, <1>4, <1>8, <1>11, <1>e, <2>1, <2>2, MidType DEF Activate
<1>f. CASE Commit(p)
  <2>1. faults' \in 0 .. MaxFaults BY <1>f, FaultType DEF Commit
  <2>2. temp[p].text \in Text \cup {NoFile} BY <1>3 DEF Temps
  <2>3. temp' \in [Procs -> Temps] BY <1>3, <1>6, <1>f DEF Commit
  <2>4. file' \in [Targets -> Text \cup {NoFile}] BY <1>3, <1>10, <1>f, <2>2 DEF Commit
  <2> QED BY <1>1, <1>3, <1>4, <1>f, <2>1, <2>3, <2>4, MidType DEF Commit
<1>g. CASE Discard(p)
  <2>1. faults' \in 0 .. MaxFaults BY <1>g, FaultType DEF Discard
  <2>2. skill' \in [Targets -> Skills] BY <1>3, <1>g DEF Discard, Skills
  <2> QED BY <1>1, <1>3, <1>4, <1>g, <2>1, <2>2, MidType DEF Discard
<1>h. CASE Restore(p)
  <2>1. faults' \in 0 .. MaxFaults BY <1>h, FaultType DEF Restore
  <2>s. run[p].spoiled \in BOOLEAN BY <1>2 DEF Commands
  <2>2. /\ Ended(p, FALSE, run[p].spoiled) \in Commands /\ Ended(p, FALSE, TRUE) \in Commands
        /\ Ended(p, FALSE, run[p].spoiled).at = "done" /\ Ended(p, FALSE, TRUE).at = "done"
    BY <1>2, <2>s, EndedType
  <2>3. temp' \in [Procs -> Temps]
    <3> DEFINE c == [NoTemp EXCEPT !.file = temp[p].file]
    <3>1. c \in Temps BY <1>3 DEF Temps, Skills, NoTemp
    <3>2. Unstaged(p) \/ temp' = [temp EXCEPT ![p] = [NoTemp EXCEPT !.file = temp[p].file]]
      BY <1>h DEF Restore
    <3> HIDE DEF c
    <3> QED BY <1>3, <1>5, <3>1, <3>2 DEF c
  <2>4. skill' \in [Targets -> Skills] BY <1>3, <1>11, <1>h DEF Restore, Temps
  <2>5. file' \in [Targets -> Text \cup {NoFile}] BY <1>3, <1>h DEF Restore
  <2>6. \/ run' = [run EXCEPT ![p] = Ended(p, FALSE, run[p].spoiled)]
        \/ run' = [run EXCEPT ![p] = Ended(p, FALSE, TRUE)]
    BY <1>h DEF Restore
  <2> QED BY <2>1, <2>2, <2>3, <2>4, <2>5, <2>6, PutType
<1>i. CASE Strip(p)
  <2>1. CASE IOError(p) \/ (NoFault /\ Fail(p))
    BY <1>i, <2>1, FaultType, FailType DEF Strip, IOError
  <2>2. CASE NoFault /\ NextTarget(p) BY <1>1, <1>i, <2>2, FaultType, NextTargetType DEF Strip
  <2>3. CASE ~(IOError(p) \/ (NoFault /\ Fail(p)) \/ (NoFault /\ NextTarget(p)))
    <3> DEFINE x == Read(file[Target(p)])
    <3>1. /\ ~Broken(x) /\ NoFault /\ UNCHANGED <<skill, file>>
          /\ temp' = [temp EXCEPT ![p].text = Rest(x)]
          /\ run' = [run EXCEPT ![p].file = file[Target(p)], ![p].at = "unskill"]
      BY <1>i, <2>3 DEF Strip
    <3>2. Rest(x) \in Text \cup {NoFile} BY <1>2, <1>12, <3>1 DEF Rest
    <3> HIDE DEF x
    <3>3. temp' \in [Procs -> Temps] BY <1>6, <3>1, <3>2
    <3> QED BY <1>1, <1>2, <1>3, <1>4, <3>1, <3>3, FaultType, MidType
  <2> QED BY <2>1, <2>2, <2>3
<1>j. CASE Unskill(p) BY <1>1, <1>4, <1>j, AsideType DEF Unskill
<1>k. CASE Unfile(p)
  <2>1. faults' \in 0 .. MaxFaults BY <1>k, FaultType DEF Unfile
  <2>3. temp' \in [Procs -> Temps] BY <1>2, <1>3, <1>7, <1>k DEF Unfile
  <2>4. file' \in [Targets -> Text \cup {NoFile}] BY <1>3, <1>10, <1>k DEF Unfile
  <2> QED BY <1>1, <1>3, <1>4, <1>k, <2>1, <2>3, <2>4, MidType DEF Unfile
<1>l. CASE Refile(p)
  <2>1. faults' \in 0 .. MaxFaults BY <1>l, FaultType DEF Refile
  <2>2. temp[p].text \in Text \cup {NoFile} BY <1>3 DEF Temps
  <2>3. temp' \in [Procs -> Temps] BY <1>3, <1>6, <1>l DEF Refile
  <2>4. file' \in [Targets -> Text \cup {NoFile}] BY <1>3, <1>10, <1>l, <2>2 DEF Refile
  <2> QED BY <1>1, <1>3, <1>4, <1>l, <2>1, <2>3, <2>4, MidType DEF Refile
<1>m. CASE Unrefile(p)
  <2>1. faults' \in 0 .. MaxFaults BY <1>m, FaultType DEF Unrefile
  <2>2. temp[p].file \in Text \cup {NoFile} BY <1>3 DEF Temps
  <2>3. temp' \in [Procs -> Temps] BY <1>3, <1>7, <1>m DEF Unrefile
  <2>4. file' \in [Targets -> Text \cup {NoFile}] BY <1>3, <1>10, <1>m, <2>2 DEF Unrefile
  <2> QED BY <1>1, <1>3, <1>4, <1>m, <2>1, <2>3, <2>4, MidType DEF Unrefile
<1>n. CASE Purge(p)
  <2>1. CASE IOError(p) BY <1>n, <2>1, FaultType, FailType DEF Purge, IOError
  <2>2. CASE ~IOError(p)
    BY <1>1, <1>3, <1>4, <1>9, <1>n, <2>2, FaultType, MidType DEF Purge
  <2> QED BY <2>1, <2>2
<1>o. CASE Forget(p)
  <2>1. CASE IOError(p) BY <1>o, <2>1, FaultType, FailType DEF Forget, IOError
  <2>2. CASE ~IOError(p)
    <3>1. temp' \in [Procs -> Temps] BY <1>7, <1>o, <2>2 DEF Forget
    <3> QED BY <1>1, <1>3, <1>4, <1>o, <2>2, <3>1, FaultType, MidType DEF Forget
  <2> QED BY <2>1, <2>2
<1>p. CASE Sync(p)
  <2>1. CASE IOError(p) BY <1>p, <2>1, FaultType, FailType DEF Sync, IOError
  <2>2. CASE ~IOError(p) BY <1>1, <1>p, <2>2, FaultType, NextTargetType DEF Sync
  <2> QED BY <2>1, <2>2
<1> QED
  BY <1>a, <1>b, <1>c, <1>d, <1>e, <1>f, <1>g, <1>h, <1>i, <1>j, <1>k, <1>l, <1>m, <1>n, <1>o, <1>p
  DEF Step

THEOREM AgentTypes == Spec => []TypeOK
<1>1. Init => TypeOK
  <2> SUFFICES ASSUME Init PROVE TypeOK OBVIOUS
  <2>1. file \in [Targets -> Text \cup {NoFile}] BY AgentAssumption DEF Init
  <2>2. NoTemp \in Temps /\ New \in Commands
    BY DEF NoTemp, Temps, New, Commands, Skills, Places
  <2>3. temp \in [Procs -> Temps] /\ run \in [Procs -> Commands] BY <2>2 DEF Init
  <2>4. \A p \in Procs : ~Running(p) BY DEF Init, Running, New
  <2> QED BY <2>1, <2>3, <2>4, AgentAssumption DEF Init, TypeOK
<1>2. TypeOK /\ [Next]_vars => TypeOK'
  <2> SUFFICES ASSUME TypeOK, [Next]_vars PROVE TypeOK' OBVIOUS
  <2>1. CASE UNCHANGED vars BY <2>1 DEF vars, TypeOK, Running
  <2>2. ASSUME NEW p \in Procs, Step(p) PROVE TypeOK' BY <2>2, StepType
  <2>3. ASSUME NEW p \in Procs, Killed(p) PROVE TypeOK'
    <3>1. faults' \in 0 .. MaxFaults BY <2>3, FaultType DEF Killed
    <3>2. "killed" \in Places BY DEF Places
    <3> QED BY <2>3, <3>1, <3>2, MidType DEF Killed, TypeOK
  <2>4. ASSUME NEW p \in Procs, NEW op \in {"install", "uninstall"}, NEW force \in BOOLEAN,
               NEW dry \in BOOLEAN, NEW todo \in Todos, Begin(p, op, force, dry, todo)
        PROVE TypeOK'
    <3>1. todo \in Seq(Targets) /\ todo # <<>>
      <4>1. Order \in Seq(Targets) /\ Order # <<>> BY AgentAssumption DEF Targets
      <4>2. \A i \in DOMAIN Order : <<Order[i]>> \in Seq(Targets) /\ <<Order[i]>> # <<>>
        BY DEF Targets
      <4> QED BY <4>1, <4>2 DEF Todos
    <3> DEFINE c == [New EXCEPT !.op = op, !.force = force, !.dry = dry, !.todo = todo, !.at = "status"]
    <3>2. c \in Commands /\ c.todo = todo BY <3>1 DEF New, Commands, Skills, Places
    <3>3. run' = [run EXCEPT ![p] = c] BY <2>4 DEF Begin
    <3>4. faults' \in 0 .. MaxFaults /\ UNCHANGED <<skill, file, temp>> BY <2>4, FaultType DEF Begin
    <3> HIDE DEF c
    <3> QED BY <3>1, <3>2, <3>3, <3>4, PutType DEF TypeOK
  <2>5. ASSUME NEW t \in Targets, Write(t) PROVE TypeOK'
    <3>1. Append(Read(file[t]), "a") \in Text
      BY ReadType, AppendProperties DEF TypeOK, Text, Tokens
    <3>2. file' \in [Targets -> Text \cup {NoFile}] BY <2>5, <3>1 DEF Write, TypeOK
    <3> QED BY <2>5, <3>2, FaultType DEF Write, TypeOK, Running
  <2>6. ASSUME NEW t \in Targets, Modify(t) PROVE TypeOK'
    BY <2>6, FaultType DEF Modify, TypeOK, Running, Skills
  <2> QED BY <2>1, <2>2, <2>3, <2>4, <2>5, <2>6 DEF Next
<1> QED BY <1>1, <1>2, PTL DEF Spec

-----------------------------------------------------------------------------
\* Nothing half-done.

\* Where the skill and the instructions are that the command has found.
Sound(p) ==
  LET t == Target(p)
      at == run[p].at
  IN  /\ at \in {"new", "status", "stage", "read", "backup", "strip", "unskill", "forget", "sync"}
         => temp[p].skill = "absent"
      /\ at \in {"stage", "read", "backup", "activate", "commit", "discard"} => run[p].op = "install"
      /\ at \in {"strip", "unskill", "unfile", "refile", "unrefile"} => run[p].op = "uninstall"
      /\ at \in {"stage", "read", "backup", "strip", "unskill"} => Found(p) = <<skill[t], file[t]>>
      /\ at \in {"stage", "backup", "activate", "discard"} => InstallsSkill(p)
      /\ at \in {"read", "commit"} => InstallsText(p)
      /\ at \in {"backup", "activate", "commit"} /\ InstallsText(p)
         => temp[p].text = Render(Read(run[p].file))
      /\ at \in {"activate", "discard", "unfile", "refile", "unrefile"} => temp[p].skill = run[p].skill
      /\ at \in {"activate", "unfile", "refile", "unrefile"} => skill[t] = "absent"
      /\ at \in {"commit", "discard"} => skill[t] = "bundled"
      /\ at = "commit" => temp[p].skill = IF InstallsSkill(p) THEN run[p].skill ELSE "absent"
      /\ at \in {"activate", "commit", "discard", "unfile"} => file[t] = run[p].file
      /\ at \in {"unskill", "unfile", "refile"} => temp[p].text = Rest(Read(run[p].file))
      /\ at \in {"unfile", "refile"} => HasMarkers(p)
      /\ at \in {"refile", "unrefile"} => temp[p].file = run[p].file
      /\ at = "restore" /\ ~run[p].spoiled
         => /\ file[t] = run[p].file
            /\ \/ skill[t] = "absent" /\ temp[p].skill = run[p].skill
               \/ skill[t] = run[p].skill /\ temp[p].skill = "absent"
      /\ at \in {"purge", "forget", "sync"} => <<skill[t], file[t]>> = Wanted(p)

Whole == \A p \in Procs : Sound(p) /\ \A q \in Procs : Running(p) /\ Running(q) => p = q

\* What every step of a command keeps.
LEMMA Frame ==
  ASSUME TypeOK, NEW p \in Procs, Step(p) \/ Killed(p)
  PROVE  /\ Running(p) /\ Target(p) \in Targets
         /\ \A q \in Procs \ {p} : run'[q] = run[q] /\ temp'[q] = temp[q]
<1>1. CASE Killed(p) BY <1>1, TargetType DEF Killed, Goto, TypeOK
<1>2. CASE Step(p)
  <2>1. Running(p)
    BY <1>2 DEF Step, Running, Status, Stage, ReadAndRender, Backup, Activate, Commit, Discard,
           Restore, Strip, Unskill, Unfile, Refile, Unrefile, Purge, Forget, Sync
  <2>2. \A q \in Procs \ {p} : run'[q] = run[q] /\ temp'[q] = temp[q]
    BY <1>2 DEF Step, Status, Stage, ReadAndRender, Backup, Activate, Commit, Discard,
           Restore, Strip, Unskill, Unfile, Refile, Unrefile, Purge, Forget, Sync,
           CopySkill, Aside, IOError, Fail, NextTarget, Unstaged, Goto, TypeOK
  <2> QED BY <2>1, <2>2, TargetType
<1> QED BY <1>1, <1>2

\* A command that is over has nothing left to be sound.
LEMMA EndedSound ==
  ASSUME TypeOK, NEW p \in Procs, run'[p].at \in {"done", "killed"}
  PROVE  Sound(p)'
BY DEF Sound

LEMMA FailSound ==
  ASSUME TypeOK, Whole, NEW p \in Procs, Running(p), Fail(p), UNCHANGED <<skill, file>>,
         run[p].at \in {"status", "stage", "read", "backup", "strip", "unskill", "purge", "forget", "sync"}
  PROVE  Sound(p)' /\ FailsWhole(p)
<1>1. run'[p].at = "done"
  BY OverType DEF Fail, TypeOK
<1>2. Sound(p)' BY <1>1, EndedSound
<1>3. Sound(p) BY DEF Whole
<1>4. Left(p) = <<skill[Target(p)], file[Target(p)]>> BY DEF Left
<1> QED BY <1>2, <1>3, <1>4 DEF FailsWhole, Sound

LEMMA NextSound ==
  ASSUME TypeOK, Whole, NEW p \in Procs, Running(p), NextTarget(p), UNCHANGED <<skill, file>>,
         temp[p].skill = "absent"
  PROVE  Sound(p)' /\ FailsWhole(p)
<1>1. /\ run[p] \in Commands /\ temp[p] \in Temps BY DEF TypeOK
<1>2. temp'[p].skill = "absent" BY DEF NextTarget, Unstaged, TypeOK, Temps
<1>3. CASE Tail(run[p].todo) = <<>>
  <2>1. run'[p].at = "done" /\ run'[p].ok BY <1>3 DEF NextTarget, Over, Ended, TypeOK
  <2> QED BY <2>1, EndedSound DEF FailsWhole
<1>4. CASE Tail(run[p].todo) # <<>>
  <2>1. run'[p].at = "status" BY <1>1, <1>4 DEF NextTarget, TypeOK, Commands
  <2> QED BY <1>2, <2>1 DEF Sound, FailsWhole
<1> QED BY <1>3, <1>4

\* A step that goes on at the same target: what the command knows, and what it has aside.
LEMMA GotoFacts ==
  ASSUME TypeOK, NEW p \in Procs, NEW at, Goto(p, at)
  PROVE  /\ run'[p].at = at /\ run'[p].op = run[p].op /\ run'[p].skill = run[p].skill
         /\ run'[p].file = run[p].file /\ run'[p].spoiled = run[p].spoiled
         /\ Target(p)' = Target(p) /\ InstallsSkill(p)' = InstallsSkill(p)
         /\ InstallsText(p)' = InstallsText(p) /\ HasMarkers(p)' = HasMarkers(p)
         /\ Wanted(p)' = Wanted(p) /\ Found(p)' = Found(p)
<1>1. run'[p] = [run[p] EXCEPT !.at = at] /\ run[p] \in Commands BY DEF Goto, TypeOK
<1>2. /\ run'[p].at = at /\ run'[p].op = run[p].op /\ run'[p].skill = run[p].skill
      /\ run'[p].file = run[p].file /\ run'[p].spoiled = run[p].spoiled /\ run'[p].todo = run[p].todo
  BY <1>1 DEF Commands
<1> QED BY <1>2 DEF Target, InstallsSkill, InstallsText, HasMarkers, Wanted, Found

LEMMA StepSound ==
  ASSUME TypeOK, Whole, ~Overlapping, NEW p \in Procs, Step(p)
  PROVE  Sound(p)' /\ FailsWhole(p)
<1>1. Running(p) /\ Target(p) \in Targets BY Frame
<1>2. Sound(p) BY DEF Whole
<1>3. /\ run[p] \in Commands /\ temp[p] \in Temps
      /\ skill \in [Targets -> Skills] /\ file \in [Targets -> Text \cup {NoFile}]
      /\ temp \in [Procs -> Temps] /\ run \in [Procs -> Commands]
  BY DEF TypeOK
<1> DEFINE t == Target(p)
<1>4. ASSUME IOError(p) \/ (NoFault /\ Fail(p)), UNCHANGED <<skill, file>>,
             run[p].at \in {"status", "stage", "read", "backup", "strip", "unskill", "purge", "forget", "sync"}
      PROVE  Sound(p)' /\ FailsWhole(p)
  BY <1>1, <1>4, FailSound DEF IOError
<1>a. CASE Status(p)
  <2>1. CASE IOError(p) \/ (NoFault /\ Fail(p)) BY <1>4, <1>a, <2>1 DEF Status
  <2>2. CASE NoFault /\ NextTarget(p) BY <1>1, <1>2, <1>a, <2>2, NextSound DEF Status, Sound
  <2>3. CASE ~(IOError(p) \/ (NoFault /\ Fail(p)) \/ (NoFault /\ NextTarget(p)))
    <3> DEFINE at == IF run[p].op = "uninstall" THEN "strip"
                     ELSE IF skill[t] = "bundled" THEN "read" ELSE "stage"
    <3>1. /\ run' = [run EXCEPT ![p].skill = skill[t], ![p].file = file[t], ![p].at = at]
          /\ UNCHANGED <<skill, file, temp>>
          /\ run[p].op = "install" /\ skill[t] = "bundled" => ~Managed(Read(file[t]))
          /\ run[p].op \in {"install", "uninstall"}
      BY <1>a, <2>3 DEF Status, Complete
    <3>2. /\ run'[p].at = at /\ run'[p].op = run[p].op /\ run'[p].skill = skill[t]
          /\ run'[p].file = file[t] /\ run'[p].todo = run[p].todo
      BY <1>3, <3>1 DEF Commands
    <3>3. Target(p)' = t BY <3>2 DEF Target
    <3>4. temp'[p].skill = "absent" BY <1>2, <1>a, <3>1 DEF Sound, Status
    <3>5. FailsWhole(p) BY <1>a DEF FailsWhole, Status
    <3> QED BY <3>1, <3>2, <3>3, <3>4, <3>5 DEF Sound, InstallsSkill, InstallsText, Found
  <2> QED BY <2>1, <2>2, <2>3
<1>b. CASE Stage(p)
  <2>1. CASE IOError(p) BY <1>4, <1>b, <2>1 DEF Stage
  <2>2. CASE ~IOError(p)
    <3>1. /\ temp'[p].skill = temp[p].skill /\ UNCHANGED <<skill, file>>
          /\ Goto(p, IF InstallsText(p) THEN "read" ELSE "backup")
      BY <1>3, <1>b, <2>2 DEF Stage, CopySkill, Temps
    <3> QED BY <1>2, <1>b, <3>1, GotoFacts DEF Sound, Stage, FailsWhole
  <2> QED BY <2>1, <2>2
<1>c. CASE ReadAndRender(p)
  <2>1. CASE IOError(p) \/ (NoFault /\ Fail(p)) BY <1>4, <1>c, <2>1 DEF ReadAndRender
  <2>2. CASE ~(IOError(p) \/ (NoFault /\ Fail(p)))
    <3>1. /\ temp'[p].skill = temp[p].skill /\ temp'[p].text = Render(Read(file[t]))
          /\ UNCHANGED <<skill, file>>
          /\ Goto(p, IF InstallsSkill(p) THEN "backup" ELSE "commit")
      BY <1>3, <1>c, <2>2 DEF ReadAndRender, Temps
    <3>2. /\ file[t] = run[p].file /\ skill[t] = run[p].skill /\ InstallsText(p)
          /\ temp[p].skill = "absent"
      BY <1>2, <1>c DEF Sound, ReadAndRender, Found
    <3> QED BY <1>2, <1>c, <3>1, <3>2, GotoFacts DEF Sound, ReadAndRender, FailsWhole, InstallsSkill
  <2> QED BY <2>1, <2>2
<1>5. ASSUME NEW next \in {"activate", "unfile", "purge"}, Aside(p, next), UNCHANGED file,
             run[p].at \in {"backup", "unskill"}
      PROVE  \/ Sound(p)' /\ FailsWhole(p)
             \/ /\ Goto(p, next) /\ skill'[t] = "absent" /\ temp'[p].skill = run[p].skill
                /\ temp'[p].text = temp[p].text
  <2>1. run[p].skill = skill[t] /\ temp[p].skill = "absent" BY <1>2, <1>5 DEF Sound, Found
  <2>2. CASE (IOError(p) \/ (NoFault /\ Fail(p))) /\ UNCHANGED skill BY <1>4, <1>5, <2>2
  <2>3. CASE run[p].skill = "absent" /\ NoFault /\ Goto(p, next) /\ UNCHANGED <<skill, temp>>
    BY <2>1, <2>3
  <2>4. CASE /\ Goto(p, next) /\ skill' = [skill EXCEPT ![t] = "absent"]
             /\ temp' = [temp EXCEPT ![p].skill = skill[t]]
    BY <1>1, <1>3, <2>1, <2>4 DEF Temps
  <2> QED BY <1>5, <2>2, <2>3, <2>4 DEF Aside
<1>d. CASE Backup(p)
  <2>1. \/ Sound(p)' /\ FailsWhole(p)
        \/ /\ Goto(p, "activate") /\ skill'[t] = "absent" /\ temp'[p].skill = run[p].skill
           /\ temp'[p].text = temp[p].text
    BY <1>5, <1>d DEF Backup
  <2>2. run[p].at = "backup" /\ UNCHANGED file BY <1>d DEF Backup
  <2> QED BY <1>2, <2>1, <2>2, GotoFacts DEF Sound, FailsWhole, Found
<1>e. CASE Activate(p)
  <2>1. skill[t] = "absent" /\ temp[p].skill = run[p].skill /\ file[t] = run[p].file
    BY <1>2, <1>e DEF Sound, Activate
  <2>2. CASE Goto(p, "restore") /\ UNCHANGED <<skill, temp>>
    BY <1>e, <2>1, <2>2, GotoFacts DEF Sound, Activate, FailsWhole
  <2>3. CASE /\ skill' = [skill EXCEPT ![t] = "bundled"] /\ temp' = [temp EXCEPT ![p].staged = FALSE]
             /\ Goto(p, IF InstallsText(p) THEN "commit" ELSE "purge")
    <3>1. skill'[t] = "bundled" /\ temp'[p].skill = temp[p].skill /\ temp'[p].text = temp[p].text
      BY <1>1, <1>3, <2>3 DEF Temps
    <3>2. run[p].op = "install" /\ InstallsSkill(p) /\ UNCHANGED file BY <1>2, <1>e DEF Sound, Activate
    <3>3. ~InstallsText(p) => Wanted(p) = <<"bundled", run[p].file>>
      BY <3>2 DEF Wanted, InstallsText
    <3> QED BY <1>2, <1>e, <2>1, <2>3, <3>1, <3>2, <3>3, GotoFacts DEF Sound, Activate, FailsWhole
  <2> QED BY <1>e, <2>2, <2>3 DEF Activate
<1>f. CASE Commit(p)
  <2>1. /\ skill[t] = "bundled" /\ file[t] = run[p].file /\ run[p].op = "install" /\ InstallsText(p)
        /\ temp[p].text = Render(Read(run[p].file)) /\ UNCHANGED skill /\ run[p].at = "commit"
        /\ temp[p].skill = IF InstallsSkill(p) THEN run[p].skill ELSE "absent"
    BY <1>2, <1>f DEF Sound, Commit
  <2>2. CASE /\ file' = [file EXCEPT ![t] = temp[p].text] /\ Goto(p, "purge")
             /\ temp' = [temp EXCEPT ![p].text = NoFile]
    <3>1. file'[t] = temp[p].text BY <1>1, <1>3, <2>2
    <3>2. Wanted(p) = <<"bundled", temp[p].text>> BY <2>1 DEF Wanted, InstallsText
    <3> QED BY <2>1, <2>2, <3>1, <3>2, GotoFacts DEF Sound, FailsWhole
  <2>3. CASE Goto(p, IF InstallsSkill(p) THEN "discard" ELSE "restore") /\ UNCHANGED <<file, temp>>
    BY <2>1, <2>3, GotoFacts DEF Sound, FailsWhole, InstallsSkill
  <2> QED BY <1>f, <2>2, <2>3 DEF Commit
<1>g. CASE Discard(p)
  <2>1. temp[p].skill = run[p].skill /\ file[t] = run[p].file /\ run[p].at = "discard"
        /\ UNCHANGED <<file, temp>>
    BY <1>2, <1>g DEF Sound, Discard
  <2>2. CASE skill' = [skill EXCEPT ![t] = "absent"] /\ Goto(p, "restore")
    <3>1. skill'[t] = "absent" BY <1>1, <1>3, <2>2
    <3> QED BY <2>1, <2>2, <3>1, GotoFacts DEF Sound, FailsWhole
  <2>3. CASE run' = [run EXCEPT ![p].at = "restore", ![p].spoiled = TRUE]
    <3>1. run'[p].at = "restore" /\ run'[p].spoiled = TRUE BY <1>3, <2>3 DEF Commands
    <3> QED BY <2>1, <3>1 DEF Sound, FailsWhole
  <2> QED BY <1>g, <2>2, <2>3 DEF Discard
<1>h. CASE Restore(p)
  <2>1. ~run[p].spoiled
        => /\ file[t] = run[p].file
           /\ \/ skill[t] = "absent" /\ temp[p].skill = run[p].skill
              \/ skill[t] = run[p].skill /\ temp[p].skill = "absent"
    BY <1>2, <1>h DEF Sound, Restore
  <2>2. CASE run' = [run EXCEPT ![p] = Ended(p, FALSE, TRUE)]
    <3>1. run'[p].at = "done" /\ run'[p].spoiled = TRUE BY <1>3, <2>2 DEF Ended
    <3> QED BY <3>1, EndedSound DEF FailsWhole
  <2>3. CASE run' = [run EXCEPT ![p] = Ended(p, FALSE, run[p].spoiled)] /\ run[p].spoiled
    <3>1. run'[p].at = "done" /\ run'[p].spoiled BY <1>3, <2>3 DEF Ended
    <3> QED BY <3>1, EndedSound DEF FailsWhole
  <2>4. CASE run' = [run EXCEPT ![p] = Ended(p, FALSE, run[p].spoiled)] /\ ~run[p].spoiled
    <3>1. run'[p].at = "done" BY <1>3, <2>4 DEF Ended
    <3>2. ASSUME run'[p].at = "done", ~run'[p].spoiled PROVE Left(p) = Found(p)
      <4>0. run'[p] # Ended(p, FALSE, TRUE) BY <3>2 DEF Ended
      <4>1. CASE temp[p].skill # "absent" /\ skill[t] = "absent"
                 /\ skill' = [skill EXCEPT ![t] = temp[p].skill]
        <5>1. skill'[t] = run[p].skill /\ file'[t] = run[p].file
          BY <1>1, <1>3, <1>h, <2>1, <2>4, <4>1 DEF Restore
        <5> QED BY <5>1 DEF Left, Found
      <4>2. CASE (temp[p].skill = "absent" \/ skill[t] # "absent") /\ UNCHANGED skill
        <5>1. skill'[t] = run[p].skill /\ file'[t] = run[p].file
          BY <1>h, <2>1, <2>4, <4>2 DEF Restore
        <5> QED BY <5>1 DEF Left, Found
      <4>3. run'[p] = Ended(p, FALSE, run[p].spoiled) BY <1>3, <2>4
      <4> QED BY <1>3, <1>h, <4>0, <4>1, <4>2 DEF Restore
    <3> QED BY <3>1, <3>2, EndedSound DEF FailsWhole
  <2> QED BY <1>h, <2>2, <2>3, <2>4 DEF Restore
<1>i. CASE Strip(p)
  <2>1. CASE IOError(p) \/ (NoFault /\ Fail(p)) BY <1>4, <1>i, <2>1 DEF Strip
  <2>2. CASE NoFault /\ NextTarget(p) BY <1>1, <1>2, <1>i, <2>2, NextSound DEF Strip, Sound
  <2>3. CASE ~(IOError(p) \/ (NoFault /\ Fail(p)) \/ (NoFault /\ NextTarget(p)))
    <3>1. /\ temp' = [temp EXCEPT ![p].text = Rest(Read(file[t]))]
          /\ run' = [run EXCEPT ![p].file = file[t], ![p].at = "unskill"]
          /\ UNCHANGED <<skill, file>>
      BY <1>i, <2>3 DEF Strip
    <3>2. /\ run'[p].at = "unskill" /\ run'[p].op = run[p].op /\ run'[p].skill = run[p].skill
          /\ run'[p].file = file[t] /\ run'[p].todo = run[p].todo
      BY <1>3, <3>1 DEF Commands
    <3>3. Target(p)' = t BY <3>2 DEF Target
    <3>4. temp'[p].skill = temp[p].skill /\ temp'[p].text = Rest(Read(file[t]))
      BY <1>3, <3>1 DEF Temps
    <3>5. temp[p].skill = "absent" /\ run[p].op = "uninstall" /\ skill[t] = run[p].skill
      BY <1>2, <1>i DEF Sound, Strip, Found
    <3> QED BY <3>1, <3>2, <3>3, <3>4, <3>5 DEF Sound, FailsWhole, Found
  <2> QED BY <2>1, <2>2, <2>3
<1>j. CASE Unskill(p)
  <2>1. \/ Sound(p)' /\ FailsWhole(p)
        \/ /\ Goto(p, IF HasMarkers(p) THEN "unfile" ELSE "purge") /\ skill'[t] = "absent"
           /\ temp'[p].skill = run[p].skill /\ temp'[p].text = temp[p].text
    BY <1>5, <1>j DEF Unskill
  <2>2. run[p].at = "unskill" /\ UNCHANGED file BY <1>j DEF Unskill
  <2>3. run[p].op = "uninstall" /\ file[t] = run[p].file /\ temp[p].text = Rest(Read(run[p].file))
    BY <1>2, <2>2 DEF Sound, Found
  <2>4. ~HasMarkers(p) => Wanted(p) = <<"absent", run[p].file>>
    BY <2>3 DEF Wanted, HasMarkers
  <2> QED BY <2>1, <2>2, <2>3, <2>4, GotoFacts DEF Sound, FailsWhole
<1>6. HasMarkers(p) /\ run[p].op = "uninstall" => Wanted(p) = <<"absent", Rest(Read(run[p].file))>>
  BY DEF Wanted, HasMarkers
<1>k. CASE Unfile(p)
  <2>1. /\ skill[t] = "absent" /\ temp[p].skill = run[p].skill /\ file[t] = run[p].file
        /\ temp[p].text = Rest(Read(run[p].file)) /\ HasMarkers(p) /\ run[p].op = "uninstall"
        /\ UNCHANGED skill /\ run[p].at = "unfile"
    BY <1>2, <1>k DEF Sound, Unfile
  <2>2. CASE Goto(p, "restore") /\ UNCHANGED <<file, temp>>
    BY <2>1, <2>2, GotoFacts DEF Sound, FailsWhole
  <2>3. CASE /\ file' = [file EXCEPT ![t] = NoFile] /\ temp' = [temp EXCEPT ![p].file = file[t]]
             /\ Goto(p, IF temp[p].text = NoFile THEN "purge" ELSE "refile")
    <3>1. file'[t] = NoFile BY <1>1, <1>3, <2>3
    <3>2. temp'[p].file = file[t] /\ temp'[p].text = temp[p].text /\ temp'[p].skill = temp[p].skill
      BY <1>3, <2>3 DEF Temps
    <3> QED BY <1>6, <2>1, <2>3, <3>1, <3>2, GotoFacts DEF Sound, FailsWhole
  <2> QED BY <1>k, <2>2, <2>3 DEF Unfile
<1>l. CASE Refile(p)
  <2>1. /\ skill[t] = "absent" /\ temp[p].skill = run[p].skill /\ temp[p].file = run[p].file
        /\ temp[p].text = Rest(Read(run[p].file)) /\ HasMarkers(p) /\ run[p].op = "uninstall"
        /\ UNCHANGED skill /\ run[p].at = "refile"
    BY <1>2, <1>l DEF Sound, Refile
  <2>2. CASE Goto(p, "unrefile") /\ UNCHANGED <<file, temp>>
    BY <2>1, <2>2, GotoFacts DEF Sound, FailsWhole
  <2>3. CASE file' = [file EXCEPT ![t] = temp[p].text] /\ Goto(p, "purge")
    <3>1. file'[t] = temp[p].text BY <1>1, <1>3, <2>3
    <3> QED BY <1>6, <2>1, <2>3, <3>1, GotoFacts DEF Sound, FailsWhole
  <2> QED BY <1>l, <2>2, <2>3 DEF Refile
<1>m. CASE Unrefile(p)
  <2>1. /\ skill[t] = "absent" /\ temp[p].skill = run[p].skill /\ temp[p].file = run[p].file
        /\ UNCHANGED skill /\ run[p].at = "unrefile"
    BY <1>2, <1>m DEF Sound, Unrefile
  <2>2. CASE /\ file' = [file EXCEPT ![t] = temp[p].file]
             /\ temp' = [temp EXCEPT ![p].file = NoFile] /\ Goto(p, "restore")
    <3>1. file'[t] = temp[p].file /\ temp'[p].skill = temp[p].skill BY <1>1, <1>3, <2>2 DEF Temps
    <3> QED BY <2>1, <2>2, <3>1, GotoFacts DEF Sound, FailsWhole
  <2>3. CASE run' = [run EXCEPT ![p].at = "restore", ![p].spoiled = TRUE]
    <3>1. run'[p].at = "restore" /\ run'[p].spoiled = TRUE BY <1>3, <2>3 DEF Commands
    <3> QED BY <2>1, <3>1 DEF Sound, FailsWhole
  <2> QED BY <1>m, <2>2, <2>3 DEF Unrefile
<1>n. CASE Purge(p)
  <2>1. CASE IOError(p) BY <1>4, <1>n, <2>1 DEF Purge
  <2>2. CASE ~IOError(p)
    <3>1. /\ temp' = [temp EXCEPT ![p].skill = "absent"] /\ UNCHANGED <<skill, file>>
          /\ Goto(p, IF run[p].op = "install" THEN "sync" ELSE "forget")
      BY <1>n, <2>2 DEF Purge
    <3>2. temp'[p].skill = "absent" BY <1>3, <3>1 DEF Temps
    <3> QED BY <1>2, <1>n, <3>1, <3>2, GotoFacts DEF Sound, Purge, FailsWhole
  <2> QED BY <2>1, <2>2
<1>o. CASE Forget(p)
  <2>1. CASE IOError(p) BY <1>4, <1>o, <2>1 DEF Forget
  <2>2. CASE ~IOError(p)
    <3>1. temp' = [temp EXCEPT ![p].file = NoFile] /\ UNCHANGED <<skill, file>> /\ Goto(p, "sync")
      BY <1>o, <2>2 DEF Forget
    <3>2. temp'[p].skill = temp[p].skill BY <1>3, <3>1 DEF Temps
    <3> QED BY <1>2, <1>o, <3>1, <3>2, GotoFacts DEF Sound, Forget, FailsWhole
  <2> QED BY <2>1, <2>2
<1>p. CASE Sync(p)
  <2>1. CASE IOError(p) BY <1>4, <1>p, <2>1 DEF Sync
  <2>2. CASE ~IOError(p) BY <1>1, <1>2, <1>p, <2>2, NextSound DEF Sync, Sound
  <2> QED BY <2>1, <2>2
<1> QED
  BY <1>a, <1>b, <1>c, <1>d, <1>e, <1>f, <1>g, <1>h, <1>i, <1>j, <1>k, <1>l, <1>m, <1>n, <1>o, <1>p
  DEF Step

\* One command at a time, without an edit beside it, fails as a whole.
THEOREM AgentWhole == ~Overlapping => (Spec => AllOrNothing)
<1> SUFFICES ASSUME ~Overlapping PROVE Spec => AllOrNothing OBVIOUS
<1>1. Init => Whole
  BY DEF Init, Whole, Sound, Running, New, NoTemp
<1>2. TypeOK /\ Whole /\ [Next]_vars => Whole' /\ [\A p \in Procs : FailsWhole(p)]_vars
  <2> SUFFICES ASSUME TypeOK, Whole, [Next]_vars
               PROVE  Whole' /\ [\A p \in Procs : FailsWhole(p)]_vars
    OBVIOUS
  <2>1. CASE UNCHANGED vars
    BY <2>1 DEF vars, Whole, Sound, Running, Target, Found, Wanted, InstallsSkill, InstallsText, HasMarkers
  <2>2. ASSUME NEW p \in Procs, Step(p) \/ Killed(p), Sound(p)' /\ FailsWhole(p)
        PROVE  Whole' /\ \A q \in Procs : FailsWhole(q)
    <3>1. Running(p) /\ \A q \in Procs \ {p} : run'[q] = run[q] /\ temp'[q] = temp[q]
      BY <2>2, Frame
    <3>2. ASSUME NEW q \in Procs \ {p} PROVE ~Running(q) /\ Sound(q) BY <3>1 DEF Whole
    <3>3. ASSUME NEW q \in Procs \ {p} PROVE Sound(q)' /\ ~Running(q)' /\ FailsWhole(q)
      <4>1. run'[q] = run[q] /\ temp'[q] = temp[q] BY <3>1
      <4>2. run[q].at \in {"new", "done", "killed"} BY <3>2 DEF Running
      <4>3. run[q].at = "new" => temp[q].skill = "absent" BY <3>2 DEF Sound
      <4> QED BY <4>1, <4>2, <4>3 DEF Sound, Running, FailsWhole
    <3> QED BY <2>2, <3>3 DEF Whole
  <2>3. ASSUME NEW p \in Procs, Step(p) PROVE Whole' /\ \A q \in Procs : FailsWhole(q)
    BY <2>2, <2>3, StepSound
  <2>4. ASSUME NEW p \in Procs, Killed(p) PROVE Whole' /\ \A q \in Procs : FailsWhole(q)
    <3>1. run'[p].at = "killed" BY <2>4, GotoFacts DEF Killed
    <3> QED BY <2>2, <2>4, <3>1, EndedSound DEF FailsWhole
  <2>5. ASSUME NEW p \in Procs, NEW op, NEW force, NEW dry, NEW todo, Begin(p, op, force, dry, todo)
        PROVE  Whole' /\ \A q \in Procs : FailsWhole(q)
    <3>1. \A q \in Procs : ~Running(q) /\ Sound(q) BY <2>5 DEF Begin, Undisturbed, Whole
    <3>2. run[p].at = "new" /\ temp' = temp BY <2>5 DEF Begin
    <3>3. run'[p].at = "status" BY <2>5 DEF Begin, New, TypeOK
    <3>4. \A q \in Procs \ {p} : run'[q] = run[q] BY <2>5 DEF Begin, TypeOK
    <3>5. temp[p].skill = "absent" BY <3>1, <3>2 DEF Sound
    <3>6. Sound(p)' /\ FailsWhole(p) BY <3>2, <3>3, <3>5 DEF Sound, FailsWhole
    <3>7. ASSUME NEW q \in Procs \ {p} PROVE Sound(q)' /\ ~Running(q)' /\ FailsWhole(q)
      <4>1. run'[q] = run[q] /\ temp'[q] = temp[q] BY <3>2, <3>4
      <4>2. run[q].at \in {"new", "done", "killed"} BY <3>1 DEF Running
      <4>3. run[q].at = "new" => temp[q].skill = "absent" BY <3>1 DEF Sound
      <4> QED BY <4>1, <4>2, <4>3 DEF Sound, Running, FailsWhole
    <3> QED BY <3>6, <3>7 DEF Whole
  <2>6. ASSUME NEW t \in Targets, Write(t) \/ Modify(t)
        PROVE  Whole' /\ \A q \in Procs : FailsWhole(q)
    <3>1. \A q \in Procs : ~Running(q) /\ Sound(q) BY <2>6 DEF Write, Modify, Undisturbed, Whole
    <3>2. run' = run /\ temp' = temp BY <2>6 DEF Write, Modify
    <3>3. ASSUME NEW q \in Procs PROVE Sound(q)' /\ ~Running(q)' /\ FailsWhole(q)
      <4>1. run[q].at \in {"new", "done", "killed"} BY <3>1 DEF Running
      <4>2. run[q].at = "new" => temp[q].skill = "absent" BY <3>1 DEF Sound
      <4> QED BY <3>2, <4>1, <4>2 DEF Sound, Running, FailsWhole
    <3> QED BY <3>3 DEF Whole
  <2> QED BY <2>1, <2>3, <2>4, <2>5, <2>6 DEF Next
<1> QED BY <1>1, <1>2, AgentTypes, PTL DEF Spec, AllOrNothing
=============================================================================
