---------------------------- MODULE FleetProofs ----------------------------
(***************************************************************************)
(* Proofs about Fleet for any number of processes, directories, ports,     *)
(* commands and failures.                                                  *)
(*                                                                         *)
(* Every call of the box manager does one of three things to the records:  *)
(* nothing, what loadAndReconcile does, or that and one box saved so that  *)
(* its record and containers fit (Shaped).  One lemma per command shows    *)
(* its shape, and one lemma per shape that the invariant Whole is kept.    *)
(***************************************************************************)
EXTENDS Fleet, TLAPS

Records == [status : Statuses, start : Starts]
\* The containers that a box with ports from s can have.
Made(s) == [state : {"stopped", "sick", "running"}, start : {s}]

\* The inductive invariant.  A record has a block (TypeOK lets it have none), and
\* containers have the block of their record; that makes what Docker tells agree with
\* the records, so that Reserve sees every block.
Fitting ==
  \A b \in Boxes : /\ boxes[b] = NoBox \/ boxes[b] \in Records
                   /\ docker[b] = Gone \/ (boxes[b] # NoBox /\ docker[b] \in Made(boxes[b].start))
Whole == TypeOK /\ Fitting /\ BlocksDisjoint

Keeps(b, r) == IF boxes[b] = NoBox THEN r.start \in Reserve(Known, b) ELSE r.start = boxes[b].start
Fits(b, r, k) ==
  \/ r = NoBox /\ k = Gone
  \/ r \in Records /\ Keeps(b, r) /\ (k = Gone \/ k \in Made(r.start))
Shaped ==
  \/ UNCHANGED <<boxes, docker>>
  \/ Noted
  \/ \E b \in Boxes : \E r, k : Fits(b, r, k) /\ Saved(b, r, k)

-----------------------------------------------------------------------------
\* A block that the allocator can give starts at no less than its base.
LEMMA StartsPositive == \A s \in Starts : s \in Nat /\ s # 0
  BY FleetAssumption DEF Starts

\* Reconciling changes statuses, but neither whether a box is recorded nor its ports.
LEMMA KnownSame ==
  ASSUME Whole
  PROVE  /\ Known \in [Boxes -> [status : Statuses \cup {"none"}, start : Starts \cup {0}]]
         /\ \A b \in Boxes : /\ Known[b].start = boxes[b].start
                             /\ Known[b] = NoBox <=> boxes[b] = NoBox
                             /\ boxes[b] # NoBox => Known[b] \in Records
<1>1. ASSUME NEW b \in Boxes
      PROVE  /\ Known[b] = NoBox \/ Known[b] \in Records
             /\ Known[b].start = boxes[b].start
             /\ Known[b] = NoBox <=> boxes[b] = NoBox
  <2>1. Known[b] = Reconciled(boxes[b], docker[b])
    BY DEF Known
  <2>2. CASE docker[b] = Gone
    <3>1. CASE boxes[b] = NoBox
      BY <2>1, <2>2, <3>1 DEF Reconciled, Gone
    <3>2. CASE boxes[b] # NoBox
      BY <2>1, <2>2, <3>2 DEF Whole, Fitting, Reconciled, Gone, Box, NoBox, Records, Statuses
    <3> QED BY <3>1, <3>2
  <2>3. CASE docker[b] # Gone
    <3>1. boxes[b] # NoBox /\ boxes[b] \in Records /\ docker[b] \in Made(boxes[b].start)
      BY <2>3 DEF Whole, Fitting
    <3>2. Known[b] = Box(ListedStatus(docker[b]), boxes[b].start)
      BY <2>1, <3>1 DEF Reconciled, Made
    <3>3. ListedStatus(docker[b]) \in Statuses \ {"none"}
      BY DEF ListedStatus, Statuses
    <3> QED BY <3>1, <3>2, <3>3 DEF Box, NoBox, Records
  <2> QED BY <2>2, <2>3
<1>2. NoBox \notin Records
  BY DEF NoBox, Records, Statuses
<1>3. \A b \in Boxes : Known[b] \in [status : Statuses \cup {"none"}, start : Starts \cup {0}]
  BY <1>1 DEF NoBox, Records
<1>4. Known \in [Boxes -> [status : Statuses \cup {"none"}, start : Starts \cup {0}]]
  BY <1>3 DEF Known
<1> QED BY <1>1, <1>4

\* Blocks that do not overlap have no port in common.
LEMMA NoCommonPort ==
  ASSUME NEW s \in Nat, NEW t \in Nat, ~Overlap(s, t)
  PROVE  Block(s) \cap Block(t) = {}
  BY FleetAssumption DEF Overlap, Block

\* Reserve gives a block that no other record has a port of.
LEMMA ReserveFresh ==
  ASSUME Whole, NEW b \in Boxes, NEW s \in Reserve(Known, b)
  PROVE  /\ s \in Starts
         /\ \A c \in Boxes : c # b /\ boxes[c].start # 0 => Block(s) \cap Block(boxes[c].start) = {}
<1>1. s \in Free(Known, b)
  BY DEF Reserve
<1>2. s \in Starts
  BY <1>1 DEF Free
<1>3. ASSUME NEW c \in Boxes, c # b, boxes[c].start # 0
      PROVE  Block(s) \cap Block(boxes[c].start) = {}
  <2>1. Known[c].start = boxes[c].start
    BY KnownSame
  <2>2. boxes[c].start \in Used(Known, b)
    BY <1>3, <2>1 DEF Used
  <2>3. ~Overlap(s, boxes[c].start)
    BY <1>1, <2>2 DEF Free
  <2>4. boxes[c].start \in Nat /\ s \in Nat
    BY <1>2, <1>3, StartsPositive DEF Whole, TypeOK
  <2> QED BY <2>3, <2>4, NoCommonPort
<1> QED BY <1>2, <1>3

-----------------------------------------------------------------------------
\* What a step of a shape keeps.

\* Reconciling keeps the invariant.
LEMMA NotedKeeps ==
  ASSUME Whole, Noted
  PROVE  /\ boxes' \in [Boxes -> [status : Statuses \cup {"none"}, start : Starts \cup {0}]]
         /\ docker' \in [Boxes -> [state : {"none", "stopped", "sick", "running"},
                                   start : Starts \cup {0}]]
         /\ Fitting' /\ BlocksDisjoint'
         /\ \A b \in Boxes : boxes'[b].start = boxes[b].start
<1>1. \A b \in Boxes : /\ boxes'[b].start = boxes[b].start
                       /\ boxes'[b] = NoBox <=> boxes[b] = NoBox
                       /\ boxes[b] # NoBox => boxes'[b] \in Records
  BY KnownSame DEF Noted
<1>2. boxes' \in [Boxes -> [status : Statuses \cup {"none"}, start : Starts \cup {0}]]
  BY KnownSame DEF Noted
<1>3. docker' = docker
  BY DEF Noted
<1>4. Fitting'
  BY <1>1, <1>3 DEF Whole, Fitting
<1>5. BlocksDisjoint'
  BY <1>1 DEF Whole, BlocksDisjoint
<1> QED BY <1>1, <1>2, <1>3, <1>4, <1>5 DEF Whole, TypeOK

\* Saving one box that fits keeps the invariant, and the box its ports.
LEMMA SavedKeeps ==
  ASSUME Whole, NEW b \in Boxes, NEW r, NEW k, Fits(b, r, k), Saved(b, r, k)
  PROVE  /\ boxes' \in [Boxes -> [status : Statuses \cup {"none"}, start : Starts \cup {0}]]
         /\ docker' \in [Boxes -> [state : {"none", "stopped", "sick", "running"},
                                   start : Starts \cup {0}]]
         /\ Fitting' /\ BlocksDisjoint'
         /\ \A c \in Boxes : boxes[c].start # 0 /\ boxes'[c] # NoBox
                             => boxes'[c].start = boxes[c].start
<1>1. /\ boxes'[b] = r /\ docker'[b] = k
      /\ \A c \in Boxes \ {b} : boxes'[c] = Known[c] /\ docker'[c] = docker[c]
  BY KnownSame DEF Saved, Whole, TypeOK
<1>2. r \in Records \cup {NoBox}
  BY DEF Fits
<1>3. boxes' \in [Boxes -> [status : Statuses \cup {"none"}, start : Starts \cup {0}]]
  <2>1. r \in [status : Statuses \cup {"none"}, start : Starts \cup {0}]
    BY <1>2 DEF Records, NoBox
  <2> QED BY <2>1, KnownSame DEF Saved
<1>4. docker' \in [Boxes -> [state : {"none", "stopped", "sick", "running"},
                             start : Starts \cup {0}]]
  <2>1. k \in [state : {"none", "stopped", "sick", "running"}, start : Starts \cup {0}]
    BY DEF Fits, Records, Made, Gone
  <2> QED BY <2>1 DEF Saved, Whole, TypeOK
<1>5. \A c \in Boxes \ {b} : /\ boxes'[c].start = boxes[c].start
                             /\ boxes'[c] = NoBox <=> boxes[c] = NoBox
                             /\ boxes[c] # NoBox => boxes'[c] \in Records
  BY <1>1, KnownSame
<1>6. Fitting'
  <2>1. NoBox \notin Records
    BY DEF NoBox, Records, Statuses
  <2>2. \A c \in Boxes \ {b} : /\ boxes'[c] = NoBox \/ boxes'[c] \in Records
                               /\ \/ docker'[c] = Gone
                                  \/ boxes'[c] # NoBox /\ docker'[c] \in Made(boxes'[c].start)
    BY <1>1, <1>5 DEF Whole, Fitting
  <2>3. /\ boxes'[b] = NoBox \/ boxes'[b] \in Records
        /\ docker'[b] = Gone \/ (boxes'[b] # NoBox /\ docker'[b] \in Made(boxes'[b].start))
    BY <1>1, <2>1 DEF Fits
  <2> QED BY <2>2, <2>3 DEF Fitting
<1>7. \A c \in Boxes \ {b} : r.start # 0 /\ boxes[c].start # 0
                             => Block(r.start) \cap Block(boxes[c].start) = {}
  <2>1. CASE r = NoBox
    BY <2>1 DEF NoBox
  <2>2. CASE r \in Records /\ boxes[b] = NoBox /\ r.start \in Reserve(Known, b)
    BY <2>2, ReserveFresh
  <2>3. CASE r.start = boxes[b].start
    BY <2>3 DEF Whole, BlocksDisjoint
  <2> QED BY <2>1, <2>2, <2>3 DEF Fits, Keeps
<1>8. BlocksDisjoint'
  <2>1. SUFFICES ASSUME NEW c \in Boxes, NEW d \in Boxes, c # d,
                        boxes'[c].start # 0, boxes'[d].start # 0
                 PROVE  Block(boxes'[c].start) \cap Block(boxes'[d].start) = {}
    BY DEF BlocksDisjoint, Block
  <2>2. CASE c = b
    <3>1. Block(r.start) \cap Block(boxes[d].start) = {}
      BY <2>1, <2>2, <1>1, <1>5, <1>7
    <3> QED BY <2>1, <2>2, <3>1, <1>1, <1>5
  <2>3. CASE d = b
    <3>1. Block(r.start) \cap Block(boxes[c].start) = {}
      BY <2>1, <2>3, <1>1, <1>5, <1>7
    <3> QED BY <2>1, <2>3, <3>1, <1>1, <1>5
  <2>4. CASE c # b /\ d # b
    BY <2>1, <2>4, <1>5 DEF Whole, BlocksDisjoint
  <2> QED BY <2>2, <2>3, <2>4
<1>9. \A c \in Boxes : boxes[c].start # 0 /\ boxes'[c] # NoBox => boxes'[c].start = boxes[c].start
  BY <1>1, <1>5 DEF Fits, Keeps, NoBox
<1> QED BY <1>3, <1>4, <1>6, <1>8, <1>9

-----------------------------------------------------------------------------
\* What the commands' calls do: each has a shape, and moves its process.

\* Ends and moves of one process keep the types of commands.
LEMMA Moves ==
  ASSUME CommandsOK, NEW p \in Procs
  PROVE  /\ \A exit \in {0, 1, 3} : End(p, exit) => CommandsOK'
         /\ \A at \in Places : /\ Goto(p, at)
                               /\ at \in {"idle", "list", "stat", "prune"} \/ run[p].box \in Boxes
                               => CommandsOK'
<1>1. ASSUME NEW exit \in {0, 1, 3}, End(p, exit) PROVE CommandsOK'
  BY <1>1 DEF CommandsOK, CommandTypes, End, Idle, Places, Nowhere, Boxes
<1>2. ASSUME NEW at \in Places, Goto(p, at),
             at \in {"idle", "list", "stat", "prune"} \/ run[p].box \in Boxes
      PROVE  CommandsOK'
  BY <1>2 DEF CommandsOK, CommandTypes, Goto, Nowhere, Boxes
<1> QED BY <1>1, <1>2

\* So does any update of its record within the types.
LEMMA Updates ==
  ASSUME CommandsOK, NEW p \in Procs, NEW r \in CommandTypes,
         r.at \in {"idle", "list", "stat", "prune"} \/ r.box \in Boxes,
         run' = [run EXCEPT ![p] = r]
  PROVE  CommandsOK'
  BY DEF CommandsOK, CommandTypes

\* A failure ends the command.
LEMMA Fails ==
  ASSUME CommandsOK, NEW p \in Procs, Fail(p)
  PROVE  CommandsOK'
  BY Moves DEF Fail

\* What counts failures, keeps their bound.
LEMMA Faults ==
  ASSUME faults \in 0 .. MaxFaults
  PROVE  (NoFault \/ \E k \in FaultKinds : Fault(k)) => faults' \in 0 .. MaxFaults
  BY FleetAssumption DEF NoFault, Fault

\* A step of a command: its shape, its process, and the number of failures.
Fine == Shaped /\ CommandsOK' /\ faults' \in 0 .. MaxFaults

\* What fails before anything is saved.
LEMMA UnreadFine ==
  ASSUME Whole, NEW p \in Procs, Unread(p)
  PROVE  Fine
  BY Fails, Faults DEF Whole, TypeOK, Unread, Fine, Shaped, FaultKinds

LEMMA MissingFine ==
  ASSUME Whole, NEW p \in Procs, NEW b, Missing(p, b)
  PROVE  Fine
  BY Fails, Faults DEF Whole, TypeOK, Missing, Fine, Shaped

\* A call that breaks off leaves a box that fits, when what it may leave does.
LEMMA BreaksFine ==
  ASSUME Whole, NEW p \in Procs, NEW b \in Boxes, NEW status \in Statuses, NEW start,
         NEW possible,
         \A x \in Statuses : \A k \in possible : Fits(b, Box(x, start), k),
         Breaks(p, b, status, start, possible)
  PROVE  Fine
<1>1. CommandsOK'
  BY Fails DEF Breaks, Whole, TypeOK
<1>2. faults' \in 0 .. MaxFaults
  BY Faults DEF Breaks, Whole, TypeOK, FaultKinds
<1>3. CASE Noted
  BY <1>1, <1>2, <1>3 DEF Fine, Shaped
<1>4. CASE \E k \in possible : Saved(b, Box(status, start), k)
  BY <1>1, <1>2, <1>4 DEF Fine, Shaped
<1>5. CASE \E k \in possible : Saved(b, Box("error", start), k)
  BY <1>1, <1>2, <1>5 DEF Fine, Shaped, Statuses
<1> QED BY <1>3, <1>4, <1>5 DEF Breaks

\* A record with the ports of the box and containers with them, or without containers, fit.
LEMMA BoxFits ==
  ASSUME Whole, NEW b \in Boxes, NEW x \in Statuses, NEW s \in Starts,
         IF boxes[b] = NoBox THEN s \in Reserve(Known, b) ELSE s = boxes[b].start,
         NEW k, k = Gone \/ k \in Made(s)
  PROVE  Fits(b, Box(x, s), k)
  BY DEF Fits, Keeps, Box, Records

\* What up makes of containers.
LEMMA UppedMade ==
  ASSUME NEW b \in Boxes, NEW s, NEW k \in Upped(b, s)
  PROVE  k \in Made(s)
  BY DEF Upped, Made, Containers

-----------------------------------------------------------------------------
\* One lemma per call of the box manager.  next is what the command does after it.

LEMMA EnsureFine ==
  ASSUME Whole, NEW p \in Procs, run[p].box \in Boxes, NEW ACTION next, next => CommandsOK',
         Ensure(p, next)
  PROVE  Fine
<1> DEFINE b == run[p].box
           intent == IF docker[b].state = "stopped" THEN "starting" ELSE "creating"
<1>1. CASE Unread(p)
  BY <1>1, UnreadFine
<1>2. CASE NoFault /\ Noted /\ Fail(p)
  BY <1>2, Fails, Faults DEF Whole, TypeOK, Fine, Shaped
<1>3. ASSUME NEW s \in StartOf(b)
      PROVE  /\ s \in Starts
             /\ IF boxes[b] = NoBox THEN s \in Reserve(Known, b) ELSE s = boxes[b].start
             /\ docker[b] = Gone \/ docker[b] \in Made(s)
             /\ \A x \in Statuses : \A k : k = Gone \/ k \in Made(s) => Fits(b, Box(x, s), k)
  <2>1. Known[b].start = boxes[b].start /\ (boxes[b].start = 0 <=> boxes[b] = NoBox)
    BY KnownSame, StartsPositive DEF Whole, Fitting, NoBox, Records
  <2>2. CASE boxes[b] = NoBox
    <3>1. s \in Reserve(Known, b)
      BY <1>3, <2>1, <2>2 DEF StartOf, NoBox
    <3> QED BY <2>2, <3>1, ReserveFresh, BoxFits DEF Whole, Fitting
  <2>3. CASE boxes[b] # NoBox
    <3>1. s = boxes[b].start /\ s \in Starts
      BY <1>3, <2>1, <2>3 DEF StartOf, Whole, Fitting, Records
    <3> QED BY <2>3, <3>1, BoxFits DEF Whole, Fitting
  <2> QED BY <2>2, <2>3
<1>4. \A s \in StartOf(b), x \in Statuses : \A k :
        /\ k = docker[b] \/ k \in Upped(b, s) \/ k \in Made(s) => Fits(b, Box(x, s), k)
        /\ k = docker[b] \/ k \in Upped(b, s) \/ k \in Made(s) => k = Gone \/ k \in Made(s)
  BY <1>3, UppedMade
<1>5. ASSUME NEW s \in StartOf(b), NoFault, next, Saved(b, Box("ready", s), docker[b])
      PROVE  Fine
  BY <1>4, <1>5, Faults DEF Fine, Shaped, Whole, TypeOK, Statuses
<1>6. ASSUME NEW s \in StartOf(b), NoFault, next,
             Saved(b, Box("ready", s), Containers("running", s))
      PROVE  Fine
  <2>1. Containers("running", s) \in Made(s)
    BY DEF Containers, Made
  <2> QED BY <1>4, <1>6, <2>1, Faults DEF Fine, Shaped, Whole, TypeOK, Statuses
<1>7. ASSUME NEW s \in StartOf(b), NoFault, Fail(p),
             Saved(b, Box("error", s), Containers("stopped", s))
      PROVE  Fine
  <2>1. Containers("stopped", s) \in Made(s)
    BY DEF Containers, Made
  <2> QED BY <1>4, <1>7, <2>1, Faults, Fails DEF Fine, Shaped, Whole, TypeOK, Statuses
<1>8. ASSUME NEW s \in StartOf(b), Breaks(p, b, intent, s, {docker[b]} \cup Upped(b, s))
      PROVE  Fine
  <2>1. \A x \in Statuses : \A k \in {docker[b]} \cup Upped(b, s) : Fits(b, Box(x, s), k)
    BY <1>4
  <2>2. intent \in Statuses
    BY DEF Statuses
  <2> HIDE DEF intent
  <2> QED BY <1>8, <2>1, <2>2, BreaksFine
<1> QED BY <1>1, <1>2, <1>5, <1>6, <1>7, <1>8 DEF Ensure

LEMMA ReadFine ==
  ASSUME Whole, NEW p \in Procs, NEW ACTION next, next => CommandsOK', Read(p, next)
  PROVE  Fine
<1>1. CASE Unread(p)
  BY <1>1, UnreadFine
<1>2. CASE Missing(p, run[p].box)
  BY <1>2, MissingFine
<1>3. CASE NoFault /\ Noted /\ next
  BY <1>3, Faults DEF Fine, Shaped, Whole, TypeOK
<1>4. CASE (Fault("kill") \/ Fault("docker")) /\ Noted /\ Fail(p)
  BY <1>4, Fails, Faults DEF Fine, Shaped, Whole, TypeOK, FaultKinds
<1> QED BY <1>1, <1>2, <1>3, <1>4 DEF Read

\* The ports of a record that there is, and what its containers can be.
LEMMA RecordFits ==
  ASSUME Whole, NEW b \in Boxes, Known[b] # NoBox
  PROVE  \A x \in Statuses : \A k :
           k = Gone \/ k = docker[b] \/ k \in Made(boxes[b].start) => Fits(b, Box(x, Known[b].start), k)
<1>1. boxes[b] # NoBox /\ Known[b].start = boxes[b].start /\ boxes[b].start \in Starts
  BY KnownSame DEF Whole, Fitting, Records
<1>2. docker[b] = Gone \/ docker[b] \in Made(boxes[b].start)
  BY DEF Whole, Fitting
<1> QED BY <1>1, <1>2, BoxFits

LEMMA StopFine ==
  ASSUME Whole, NEW p \in Procs, run[p].box \in Boxes, Stop(p)
  PROVE  Fine
<1> DEFINE b == run[p].box
           stopped == IF docker[b] = Gone THEN Gone ELSE Containers("stopped", docker[b].start)
<1>1. CASE Unread(p)
  BY <1>1, UnreadFine
<1>2. CASE Missing(p, b)
  BY <1>2, MissingFine
<1>3. stopped = Gone \/ stopped \in Made(boxes[b].start)
  BY DEF Whole, Fitting, Made, Containers
<1> HIDE DEF stopped
<1>4. CASE Known[b] # NoBox /\ NoFault /\ End(p, 0) /\ Saved(b, Box("stopped", Known[b].start), stopped)
  <2>1. Fits(b, Box("stopped", Known[b].start), stopped)
    BY <1>3, <1>4, RecordFits DEF Statuses
  <2> QED BY <1>4, <2>1, Moves, Faults DEF Fine, Shaped, Whole, TypeOK
<1>5. CASE Known[b] # NoBox /\ Breaks(p, b, "stopping", Known[b].start, {docker[b], stopped})
  <2>1. \A x \in Statuses : \A k \in {docker[b], stopped} : Fits(b, Box(x, Known[b].start), k)
    BY <1>3, <1>5, RecordFits
  <2> QED BY <1>5, <2>1, BreaksFine DEF Statuses
<1> QED BY <1>1, <1>2, <1>4, <1>5 DEF Stop, stopped

LEMMA RestartFine ==
  ASSUME Whole, NEW p \in Procs, run[p].box \in Boxes, Restart(p)
  PROVE  Fine
<1> DEFINE b == run[p].box
           s == IF docker[b] = Gone THEN Known[b].start ELSE docker[b].start
<1>1. CASE Unread(p)
  BY <1>1, UnreadFine
<1>2. CASE Missing(p, b)
  BY <1>2, MissingFine
<1>3. ASSUME Known[b] # NoBox
      PROVE  /\ s = boxes[b].start
             /\ \A k \in {docker[b]} \cup Upped(b, s) \cup Made(s) : \A x \in Statuses :
                  Fits(b, Box(x, Known[b].start), k)
  <2>1. s = boxes[b].start
    BY KnownSame DEF Whole, Fitting, Made
  <2> QED BY <1>3, <2>1, RecordFits, UppedMade
<1>4. Containers("running", s) \in Made(s) /\ Containers("stopped", s) \in Made(s)
  BY DEF Made, Containers
<1> HIDE DEF s
<1>5. CASE /\ Known[b] # NoBox /\ NoFault /\ End(p, 0)
           /\ Saved(b, Box("ready", Known[b].start), Containers("running", s))
  <2>1. Fits(b, Box("ready", Known[b].start), Containers("running", s))
    BY <1>3, <1>4, <1>5 DEF Statuses
  <2> QED BY <1>5, <2>1, Moves, Faults DEF Fine, Shaped, Whole, TypeOK
<1>6. CASE /\ Known[b] # NoBox /\ NoFault /\ Fail(p)
           /\ Saved(b, Box("error", Known[b].start), Containers("stopped", s))
  <2>1. Fits(b, Box("error", Known[b].start), Containers("stopped", s))
    BY <1>3, <1>4, <1>6 DEF Statuses
  <2> QED BY <1>6, <2>1, Fails, Faults DEF Fine, Shaped, Whole, TypeOK
<1>7. CASE /\ Known[b] # NoBox
           /\ Breaks(p, b, "starting", Known[b].start, {docker[b]} \cup Upped(b, s))
  <2>1. \A x \in Statuses : \A k \in {docker[b]} \cup Upped(b, s) : Fits(b, Box(x, Known[b].start), k)
    BY <1>3, <1>7
  <2> QED BY <1>7, <2>1, BreaksFine DEF Statuses
<1> QED BY <1>1, <1>2, <1>5, <1>6, <1>7 DEF Restart, s

LEMMA DestroyFine ==
  ASSUME Whole, NEW p \in Procs, NEW b \in Boxes, NEW ACTION next, next => CommandsOK',
         Destroy(p, b, next)
  PROVE  Fine
<1> DEFINE left == {docker[b], Gone} \cup IF docker[b] = Gone THEN {}
                                          ELSE {Containers("stopped", docker[b].start)}
<1>1. CASE Unread(p)
  BY <1>1, UnreadFine
<1>2. CASE Missing(p, b)
  BY <1>2, MissingFine
<1>3. CASE NoFault /\ next /\ Saved(b, NoBox, Gone)
  <2>1. Fits(b, NoBox, Gone)
    BY DEF Fits
  <2> QED BY <1>3, <2>1, Faults DEF Fine, Shaped, Whole, TypeOK
<1>4. \A k \in left : k = Gone \/ k = docker[b] \/ k \in Made(boxes[b].start)
  BY DEF Whole, Fitting, Made, Containers
<1> HIDE DEF left
<1>5. CASE Known[b] # NoBox /\ Breaks(p, b, "destroying", Known[b].start, left)
  <2>1. \A x \in Statuses : \A k \in left : Fits(b, Box(x, Known[b].start), k)
    BY <1>4, <1>5, RecordFits
  <2> QED BY <1>5, <2>1, BreaksFine DEF Statuses
<1> QED BY <1>1, <1>2, <1>3, <1>5 DEF Destroy, left

-----------------------------------------------------------------------------
\* One lemma per step of a command.

\* What a command does that holds no lock, changes no record.
LEMMA UnlockedFine ==
  ASSUME Whole, NEW p \in Procs, CommandsOK', faults' \in 0 .. MaxFaults,
         UNCHANGED <<boxes, docker>>
  PROVE  Fine
  BY DEF Fine, Shaped

\* A process that knows its box, knows it from Resolve.
LEMMA KnowsBox ==
  ASSUME Whole, NEW p \in Procs, run[p].at \notin {"idle", "list", "stat", "prune"}
  PROVE  run[p].box \in Boxes
  BY DEF Whole, TypeOK, CommandsOK, CommandTypes

LEMMA BeginFine ==
  ASSUME Whole, NEW p \in Procs, NEW cmd \in Commands, NEW d \in Dirs, Begin(p, cmd, d)
  PROVE  Fine
<1>1. Discovered(d) \in Boxes /\ <<d, "plain">> \in Boxes
  BY DEF Discovered, Boxes
<1>2. FirstPlace(cmd) \in Places
  BY DEF FirstPlace, Places
<1>3. ASSUME NEW b \in Boxes \cup {Nowhere}, run' = [run EXCEPT ![p] = Started(cmd, b)],
             FirstPlace(cmd) = "list" \/ b \in Boxes
      PROVE  CommandsOK'
  BY <1>2, <1>3 DEF CommandsOK, CommandTypes, Started, Idle, Whole, TypeOK
<1>4. CommandsOK'
  BY <1>1, <1>3 DEF Begin
<1>5. faults' \in 0 .. MaxFaults
  BY Faults DEF Begin, Whole, TypeOK, FaultKinds
<1> QED BY <1>4, <1>5, UnlockedFine DEF Begin

LEMMA CallEnsureFine ==
  ASSUME Whole, NEW p \in Procs, CallEnsure(p)
  PROVE  Fine
<1>1. run[p].box \in Boxes
  BY KnowsBox DEF CallEnsure
<1>2. Ensured(p) => CommandsOK'
  BY <1>1, Moves, Fails DEF Ensured, Whole, TypeOK, Places
<1> QED BY <1>1, <1>2, EnsureFine DEF CallEnsure

LEMMA CallInspectFine ==
  ASSUME Whole, NEW p \in Procs, CallInspect(p)
  PROVE  Fine
<1>1. run[p].box \in Boxes
  BY KnowsBox DEF CallInspect
<1>2. Inspected(p) => CommandsOK'
  BY <1>1, Moves, Fails DEF Inspected, Whole, TypeOK, Places
<1> QED BY <1>2, ReadFine DEF CallInspect

LEMMA ChildFine ==
  ASSUME Whole, NEW p \in Procs, Child(p)
  PROVE  Fine
<1>1. run[p].box \in Boxes
  BY KnowsBox DEF Child
<1>2. ASSUME NEW code \in {0, 1, 3},
             run' = [run EXCEPT ![p].at = "touch", ![p].code = code]
      PROVE  CommandsOK'
  <2> DEFINE r == [run[p] EXCEPT !.at = "touch", !.code = code]
  <2>1. r \in CommandTypes /\ r.box \in Boxes
    BY <1>1, <1>2 DEF CommandsOK, CommandTypes, Whole, TypeOK, Places
  <2>2. run' = [run EXCEPT ![p] = r]
    BY <1>2, Zenon
  <2> HIDE DEF r
  <2> QED BY <2>1, <2>2, Updates DEF Whole, TypeOK
<1>3. ASSUME run' = [run EXCEPT ![p].at = "touch", ![p].failed = TRUE]
      PROVE  CommandsOK'
  <2> DEFINE r == [run[p] EXCEPT !.at = "touch", !.failed = TRUE]
  <2>1. r \in CommandTypes /\ r.box \in Boxes
    <3>1. run[p] \in CommandTypes /\ TRUE \in BOOLEAN /\ "touch" \in Places
      BY DEF CommandsOK, Whole, TypeOK, Places
    <3>2. \A yes \in BOOLEAN : [run[p] EXCEPT !.at = "touch", !.failed = yes] \in CommandTypes
      BY <3>1 DEF CommandTypes
    <3> QED BY <1>1, <3>1, <3>2 DEF CommandTypes
  <2>2. run' = [run EXCEPT ![p] = r]
    BY <1>3, Zenon
  <2> HIDE DEF r
  <2> QED BY <2>1, <2>2, Updates DEF Whole, TypeOK
<1>4. faults' \in 0 .. MaxFaults
  BY Faults DEF Child, Whole, TypeOK, FaultKinds
<1> QED BY <1>2, <1>3, <1>4, UnlockedFine DEF Child

LEMMA CallTouchFine ==
  ASSUME Whole, NEW p \in Procs, CallTouch(p)
  PROVE  Fine
<1>1. run[p].box \in Boxes /\ run[p].code \in {0, 1, 3}
  BY KnowsBox DEF CallTouch, Whole, TypeOK, CommandsOK, CommandTypes
<1>2. Touched(p) => CommandsOK'
  BY <1>1, Moves, Fails DEF Touched, Whole, TypeOK, Places
<1> QED BY <1>2, ReadFine DEF CallTouch

LEMMA CallSyncFine ==
  ASSUME Whole, NEW p \in Procs, CallSync(p)
  PROVE  Fine
<1>1. End(p, 0) => CommandsOK'
  BY Moves DEF Whole, TypeOK
<1> QED BY <1>1, ReadFine DEF CallSync

LEMMA ConfirmFine ==
  ASSUME Whole, NEW p \in Procs, Confirm(p)
  PROVE  Fine
<1>1. run[p].box \in Boxes
  BY KnowsBox DEF Confirm
<1>2. CommandsOK'
  BY <1>1, Moves, Fails DEF Confirm, Whole, TypeOK, Places
<1>3. faults' \in 0 .. MaxFaults
  BY Faults DEF Confirm, Whole, TypeOK
<1> QED BY <1>2, <1>3, UnlockedFine DEF Confirm

LEMMA CallFine ==
  ASSUME Whole, NEW p \in Procs, Call(p)
  PROVE  Fine
<1>1. run[p].box \in Boxes
  BY KnowsBox DEF Call
<1>2. End(p, 0) => CommandsOK'
  BY Moves DEF Whole, TypeOK
<1>3. CASE Stop(p)
  BY <1>1, <1>3, StopFine
<1>4. CASE Restart(p)
  BY <1>1, <1>4, RestartFine
<1>5. CASE Destroy(p, run[p].box, End(p, 0))
  BY <1>1, <1>2, <1>5, DestroyFine
<1>6. CASE Read(p, End(p, 0))
  BY <1>2, <1>6, ReadFine
<1> QED BY <1>3, <1>4, <1>5, <1>6 DEF Call

LEMMA ListFine ==
  ASSUME Whole, NEW p \in Procs, List(p)
  PROVE  Fine
<1>1. CASE Unread(p)
  BY <1>1, UnreadFine
<1>2. CASE NoFault /\ Noted /\ End(p, 0)
  BY <1>2, Moves, Faults DEF Fine, Shaped, Whole, TypeOK
<1>3. CASE /\ NoFault /\ Noted
           /\ run' = [run EXCEPT ![p].at = "stat", ![p].left = {b \in Boxes : Known[b] # NoBox}]
  <2> DEFINE r == [run[p] EXCEPT !.at = "stat", !.left = {b \in Boxes : Known[b] # NoBox}]
  <2>1. r \in CommandTypes /\ r.at = "stat"
    BY DEF CommandsOK, CommandTypes, Whole, TypeOK, Places
  <2>2. run' = [run EXCEPT ![p] = r]
    BY <1>3, Zenon
  <2> HIDE DEF r
  <2>3. CommandsOK'
    BY <2>1, <2>2, Updates DEF Whole, TypeOK
  <2> QED BY <1>3, <2>3, Faults DEF Fine, Shaped, Whole, TypeOK
<1> QED BY <1>1, <1>2, <1>3 DEF List

LEMMA StatFine ==
  ASSUME Whole, NEW p \in Procs, Stat(p)
  PROVE  Fine
<1>1. ASSUME NEW b \in run[p].left,
             run' = [run EXCEPT ![p].left = @ \ {b},
                                ![p].found = IF dir[b[1]] = "absent" THEN @ \cup {b} ELSE @]
      PROVE  CommandsOK'
  <2> DEFINE found == IF dir[b[1]] = "absent" THEN run[p].found \cup {b} ELSE run[p].found
             r == [run[p] EXCEPT !.left = @ \ {b}, !.found = found]
  <2>1. b \in Boxes /\ run[p] \in CommandTypes /\ run[p].at = "stat"
    BY DEF Stat, Whole, TypeOK, CommandsOK, CommandTypes
  <2>2. found \in SUBSET Boxes
    BY <2>1 DEF CommandTypes
  <2>3. run' = [run EXCEPT ![p] = r]
    BY <1>1, Zenon
  <2> HIDE DEF found
  <2>4. r \in CommandTypes /\ r.at = "stat"
    BY <2>1, <2>2 DEF CommandTypes
  <2> HIDE DEF r
  <2> QED BY <2>3, <2>4, Updates DEF Whole, TypeOK
<1>2. Goto(p, "prune") \/ End(p, 0) => CommandsOK'
  BY Moves DEF Whole, TypeOK, Places
<1>3. faults' \in 0 .. MaxFaults
  BY Faults DEF Stat, Whole, TypeOK
<1> QED BY <1>1, <1>2, <1>3, UnlockedFine DEF Stat

LEMMA PruneFine ==
  ASSUME Whole, NEW p \in Procs, Prune(p)
  PROVE  Fine
<1>1. ASSUME NEW b \in run[p].found, PruneOne(p, b)
      PROVE  Fine
  <2> DEFINE next == run' = [run EXCEPT ![p].found = @ \ {b}]
  <2>1. b \in Boxes
    BY DEF Whole, TypeOK, CommandsOK, CommandTypes
  <2>2. ASSUME next PROVE CommandsOK'
    <3> DEFINE r == [run[p] EXCEPT !.found = @ \ {b}]
    <3>1. r \in CommandTypes /\ r.at = "prune"
      BY DEF Prune, Whole, TypeOK, CommandsOK, CommandTypes
    <3>2. run' = [run EXCEPT ![p] = r]
      BY <2>2, Zenon
    <3> HIDE DEF r
    <3> QED BY <3>1, <3>2, Updates DEF Whole, TypeOK
  <2>3. Destroy(p, b, next)
    BY <1>1 DEF PruneOne
  <2> HIDE DEF next
  <2> QED BY <2>1, <2>2, <2>3, DestroyFine
<1>2. ASSUME NoFault, End(p, 0), UNCHANGED <<boxes, docker>>
      PROVE  Fine
  BY <1>2, Moves, Faults, UnlockedFine DEF Whole, TypeOK
<1> QED BY <1>1, <1>2 DEF Prune

-----------------------------------------------------------------------------
\* A step of the system keeps the invariant, and the ports of every box that stays.

LEMMA CommandFine ==
  ASSUME Whole, NEW p \in Procs,
         Step(p) \/ \E cmd \in Commands, d \in Dirs : Begin(p, cmd, d)
  PROVE  Fine
  BY BeginFine, CallEnsureFine, CallInspectFine, ChildFine, CallTouchFine, CallSyncFine,
     ConfirmFine, CallFine, ListFine, StatFine, PruneFine DEF Step

Kept == \A b \in Boxes : boxes[b].start # 0 /\ boxes'[b] # NoBox => boxes'[b].start = boxes[b].start

\* The three shapes together.
LEMMA ShapedKeeps ==
  ASSUME Whole, Shaped
  PROVE  /\ boxes' \in [Boxes -> [status : Statuses \cup {"none"}, start : Starts \cup {0}]]
         /\ docker' \in [Boxes -> [state : {"none", "stopped", "sick", "running"},
                                   start : Starts \cup {0}]]
         /\ Fitting' /\ BlocksDisjoint' /\ Kept
<1>1. CASE UNCHANGED <<boxes, docker>>
  BY <1>1 DEF Whole, TypeOK, Fitting, BlocksDisjoint, Kept
<1>2. CASE Noted
  BY <1>2, NotedKeeps DEF Kept
<1>3. ASSUME NEW b \in Boxes, NEW r, NEW k, Fits(b, r, k), Saved(b, r, k)
      PROVE  /\ boxes' \in [Boxes -> [status : Statuses \cup {"none"}, start : Starts \cup {0}]]
             /\ docker' \in [Boxes -> [state : {"none", "stopped", "sick", "running"},
                                       start : Starts \cup {0}]]
             /\ Fitting' /\ BlocksDisjoint' /\ Kept
  BY <1>3, SavedKeeps DEF Kept
<1> QED BY <1>1, <1>2, <1>3 DEF Shaped

LEMMA NextKeeps ==
  ASSUME Whole, [Next]_vars
  PROVE  Whole' /\ Kept
<1>1. CASE \E p \in Procs : /\ Step(p) \/ \E cmd \in Commands, d \in Dirs : Begin(p, cmd, d)
                            /\ UNCHANGED <<dir, taken>>
  <2>1. Fine /\ dir' = dir /\ taken' = taken
    BY <1>1, CommandFine
  <2>2. TypeOK' /\ Fitting' /\ BlocksDisjoint' /\ Kept
    BY <2>1, ShapedKeeps DEF Fine, Whole, TypeOK
  <2> QED BY <2>2 DEF Whole
<1>2. ASSUME UNCHANGED <<boxes, docker, run, faults>>,
             dir' \in [Dirs -> {"git", "plain", "absent"}], taken' \subseteq Nat
      PROVE  Whole' /\ Kept
  BY <1>2 DEF Whole, TypeOK, CommandsOK, CommandTypes, Fitting, BlocksDisjoint, Kept
<1>3. CASE \E d \in Dirs : /\ Remove(d) \/ \E kind \in Kinds : Make(d, kind)
                           /\ UNCHANGED <<boxes, docker, taken, run, faults>>
  <2>1. dir' \in [Dirs -> {"git", "plain", "absent"}] /\ taken' \subseteq Nat
    BY <1>3, FleetAssumption DEF Remove, Make, Whole, TypeOK
  <2> QED BY <1>2, <1>3, <2>1
<1>4. CASE \E n \in Foreign : /\ Take(n) \/ Release(n)
                              /\ UNCHANGED <<dir, boxes, docker, run, faults>>
  <2>1. dir' \in [Dirs -> {"git", "plain", "absent"}] /\ taken' \subseteq Nat
    BY <1>4, FleetAssumption DEF Take, Release, Whole, TypeOK
  <2> QED BY <1>2, <1>4, <2>1
<1>5. CASE UNCHANGED vars
  BY <1>2, <1>5 DEF vars, Whole, TypeOK
<1> QED BY <1>1, <1>3, <1>4, <1>5 DEF Next

LEMMA InitWhole == Init => Whole
<1> SUFFICES ASSUME Init PROVE Whole
  OBVIOUS
<1>1. TypeOK
  BY FleetAssumption DEF Init, TypeOK, CommandsOK, CommandTypes, Idle, NoBox, Gone, Places
<1>2. Fitting /\ BlocksDisjoint
  BY DEF Init, Fitting, BlocksDisjoint, NoBox
<1> QED BY <1>1, <1>2 DEF Whole

LEMMA AlwaysWhole == Spec => []Whole
  BY InitWhole, NextKeeps, PTL DEF Spec

\* Types, for any instance (Reserve, Resolve).
THEOREM FleetTypes == Spec => []TypeOK
<1>1. Whole => TypeOK
  BY DEF Whole
<1> QED BY <1>1, AlwaysWhole, PTL

\* No two boxes are recorded with a port in common, for any number of boxes, commands and
\* failures (Reserve, ensure, loadAndReconcile).
THEOREM BlocksStayDisjoint == Spec => []BlocksDisjoint
<1>1. Whole => BlocksDisjoint
  BY DEF Whole
<1> QED BY <1>1, AlwaysWhole, PTL

\* Containers always have a record with their ports (ensure, Destroy).
THEOREM ContainersRecorded == Spec => []Recorded
<1>1. Whole => Recorded
  BY DEF Whole, Fitting, Recorded, Made
<1> QED BY <1>1, AlwaysWhole, PTL

\* A box keeps its ports until it is destroyed (ensure, persistError).
THEOREM PortsKept == Spec => KeepsBlock
<1>1. Whole /\ [Next]_vars => [Kept]_vars
  BY NextKeeps
<1> QED BY <1>1, AlwaysWhole, PTL DEF Spec, KeepsBlock, Kept
=============================================================================
