------------------------------- MODULE Fleet -------------------------------
(***************************************************************************)
(* The commands of the CLI (cli/root.go, app/app.go) over all the boxes of *)
(* a user: which box a directory has, which block of ports a box has, and  *)
(* what commands do that call the box manager several times.               *)
(*                                                                         *)
(* A call of the box manager holds the global lock and is one step here;   *)
(* BoxManager models its inside.  Between two calls of a command nothing   *)
(* is locked: a child process runs, a user is asked, directories are       *)
(* looked at, while others work on the same boxes.                         *)
(*                                                                         *)
(* Abstracted: a box is identified by the directory and by whether Git was *)
(* found there (a hash of both); ports are published as one block; "run"   *)
(* stands for compose and task too; port mappings and connections are in   *)
(* their own modules.                                                      *)
(***************************************************************************)
EXTENDS Integers, FiniteSets

CONSTANTS
  Procs,          \* the processes of the CLI
  Dirs,           \* the directories that can be a workspace
  Base, Size,     \* NewAllocator(base, blockSize)
  MaxPort,        \* 65535
  Foreign,        \* the ports that other programs of the host may take
  Kinds,          \* what a directory can be, a subset of {"git", "plain"}
  Commands,       \* the commands that are run
  MayFail,        \* the kinds of failure that occur, a subset of FaultKinds
  MaxFaults       \* how many of them occur in a behaviour

\* "list" the state or Docker cannot be read;  "docker" a call of Docker or of the relay
\* fails;  "kill" the command is killed, or the state cannot be saved any more;  "probe"
\* git fails
FaultKinds == {"list", "docker", "kill", "probe"}

AllCommands == {"up", "run", "exec", "logs", "status", "port", "stop", "restart",
                "destroy", "list", "prune", "prune --force"}

ASSUME FleetAssumption ==
  /\ Base \in Nat \ {0} /\ Size \in Nat \ {0} /\ MaxPort \in Nat /\ Foreign \subseteq Nat
  /\ Kinds \subseteq {"git", "plain"} /\ Commands \subseteq AllCommands
  /\ MayFail \subseteq FaultKinds /\ MaxFaults \in Nat

VARIABLES
  dir,            \* per directory, what is there: "git", "plain" or "absent"
  boxes,          \* state.json: per box, its record or NoBox
  docker,         \* per box, its containers
  taken,          \* the ports that other programs of the host listen on
  run,            \* per process, its command
  faults          \* failures so far

vars == <<dir, boxes, docker, taken, run, faults>>

\* ForWorktree and ForPath
Boxes == Dirs \X {"git", "plain"}
Nowhere == <<"none", "none">>

Statuses == {"creating", "starting", "ready", "stopping", "stopped", "destroying", "error"}
NoBox == [status |-> "none", start |-> 0]
Box(status, start) == [status |-> status, start |-> start]
Gone == [state |-> "none", start |-> 0]
Containers(state, start) == [state |-> state, start |-> start]

Fault(k) == k \in MayFail /\ faults < MaxFaults /\ faults' = faults + 1
NoFault == faults' = faults

-----------------------------------------------------------------------------
\* Blocks of ports (ports/allocator.go).

Block(start) == start .. start + Size - 1
Overlap(s, t) == s <= t + Size - 1 /\ t <= s + Size - 1
Starts == {s \in Base .. MaxPort : s + Size - 1 <= MaxPort /\ (s - Base) % Size = 0}

\* Containers that run, healthy or not, hold their ports.
Up(k) == k.state \in {"running", "sick"}
HeldBy(others) == taken \cup UNION {Block(docker[x].start) : x \in {y \in others : Up(docker[y])}}

\* Mutant: only the blocks of boxes that run are used.
UsedUp(known, b) == {docker[x].start : x \in {y \in Boxes \ {b} : Up(docker[y])}}
Used(known, b) == {known[x].start : x \in {y \in Boxes \ {b} : known[y].start # 0}}
Free(known, b) ==
  {s \in Starts : /\ \A t \in Used(known, b) : ~Overlap(s, t)
                  /\ Block(s) \cap HeldBy(Boxes) = {}}
\* Mutant: the next block after as many as are used.
ReserveNext(known, b) == {Base + Size * Cardinality(Used(known, b))}
\* Reserve: the first block that no record has and on whose ports it can listen
Reserve(known, b) == {s \in Free(known, b) : \A t \in Free(known, b) : s <= t}

-----------------------------------------------------------------------------
\* loadAndReconcile: what the records say is corrected by what Docker has.
ListedStatus(k) ==
  CASE k.state = "running" -> "ready" [] k.state = "stopped" -> "stopped" [] OTHER -> "error"
\* Docker tells the ports of containers that run.
Reconciled(r, k) ==
  IF k.state # "none" THEN Box(ListedStatus(k), IF Up(k) THEN k.start ELSE r.start)
  ELSE IF r = NoBox \/ r.status = "creating" THEN r ELSE Box("stopped", r.start)
Known == [b \in Boxes |-> Reconciled(boxes[b], docker[b])]

Noted == boxes' = Known /\ UNCHANGED docker
Saved(b, r, k) == boxes' = [Known EXCEPT ![b] = r] /\ docker' = [docker EXCEPT ![b] = k]

-----------------------------------------------------------------------------
\* Commands.
Places == {"idle", "ensure", "inspect", "child", "touch", "sync", "confirm", "call", "list",
           "stat", "prune"}
\* code: of the child;  found: boxes to look at, then those to destroy;
\* exit: how the last command ended
Idle(exit) == [cmd |-> "none", at |-> "idle", box |-> Nowhere, code |-> 0,
               failed |-> FALSE, left |-> {}, found |-> {}, exit |-> exit]

Goto(p, at) == run' = [run EXCEPT ![p].at = at]
End(p, exit) == run' = [run EXCEPT ![p] = Idle(exit)]
Fail(p) == End(p, 1)

\* What cannot be read is not changed.
Unread(p) == Fault("list") /\ Fail(p) /\ UNCHANGED <<boxes, docker>>
\* The box is not in the state: ErrBoxNotFound.
Missing(p, b) == Known[b] = NoBox /\ NoFault /\ Noted /\ Fail(p)

\* A call that has saved what it intends and does not come to its end: what it was
\* doing to the containers may be done or not.
Breaks(p, b, status, start, possible) ==
  /\ Fail(p)
  /\ \/ Fault("kill") /\ Noted
     \/ \E k \in possible : \/ Fault("kill") /\ Saved(b, Box(status, start), k)
                            \/ Fault("docker") /\ Saved(b, Box("error", start), k)

\* What docker compose up makes of the containers: without its ports it starts none.
Startable(b, start) == Block(start) \cap HeldBy(Boxes \ {b}) = {}
Upped(b, start) ==
  {Containers(x, start) : x \in IF Startable(b, start) THEN {"stopped", "sick", "running"}
                                ELSE {"stopped"}}

Discovered(d) == IF dir[d] = "git" THEN <<d, "git">> ELSE <<d, "plain">>
\* Mutant: every box but a new one is reserved a block again.
StartAnew(b) == Reserve(Known, b)
\* ensure: the ports on the record, or new ones
StartOf(b) == IF Known[b].start # 0 THEN {Known[b].start} ELSE Reserve(Known, b)

\* Manager.ensure, up to the success that goes on to the place next
Ensure(p, next) ==
  LET b == run[p].box
      k == docker[b]
      intent == IF k.state = "stopped" THEN "starting" ELSE "creating"
  IN  \/ Unread(p)
      \/ StartOf(b) = {} /\ NoFault /\ Noted /\ Fail(p)
      \/ \E s \in StartOf(b) :
           \/ /\ k.state = "running" /\ NoFault /\ next
              /\ Saved(b, Box("ready", s), k)
           \/ Startable(b, s) /\ NoFault /\ next /\ Saved(b, Box("ready", s), Containers("running", s))
           \/ ~Startable(b, s) /\ NoFault /\ Fail(p) /\ Saved(b, Box("error", s), Containers("stopped", s))
           \/ Breaks(p, b, intent, s, {k} \cup Upped(b, s))

\* Inspect, Touch, SyncLoopback, List, and the port commands as far as they are seen here
Read(p, next) ==
  \/ Unread(p)
  \/ Missing(p, run[p].box)
  \/ Known[run[p].box] # NoBox /\ NoFault /\ Noted /\ next
  \/ (Fault("kill") \/ Fault("docker")) /\ Noted /\ Fail(p)

Stop(p) ==
  LET b == run[p].box
      r == Known[b]
      stopped == IF docker[b] = Gone THEN Gone ELSE Containers("stopped", docker[b].start)
  IN  \/ Unread(p) \/ Missing(p, b)
      \/ r # NoBox /\ NoFault /\ End(p, 0) /\ Saved(b, Box("stopped", r.start), stopped)
      \/ r # NoBox /\ Breaks(p, b, "stopping", r.start, {docker[b], stopped})

\* docker compose stop, then up
Restart(p) ==
  LET b == run[p].box
      r == Known[b]
      s == IF docker[b] = Gone THEN r.start ELSE docker[b].start
  IN  \/ Unread(p) \/ Missing(p, b)
      \/ /\ r # NoBox /\ Startable(b, s) /\ NoFault /\ End(p, 0)
         /\ Saved(b, Box("ready", r.start), Containers("running", s))
      \/ /\ r # NoBox /\ ~Startable(b, s) /\ NoFault /\ Fail(p)
         /\ Saved(b, Box("error", r.start), Containers("stopped", s))
      \/ r # NoBox /\ Breaks(p, b, "starting", r.start, {docker[b]} \cup Upped(b, s))

\* Mutant: the record goes although the containers may be there.
DestroyForgets(p, b, next) ==
  LET r == Known[b] IN
  \/ Unread(p) \/ Missing(p, b)
  \/ r # NoBox /\ NoFault /\ next /\ Saved(b, NoBox, Gone)
  \/ r # NoBox /\ Fault("docker") /\ Fail(p) /\ \E k \in {docker[b], Gone} : Saved(b, NoBox, k)
\* Manager.Destroy: docker compose down, the relay, the connections, the files
Destroy(p, b, next) ==
  LET r == Known[b] IN
  \/ Unread(p) \/ Missing(p, b)
  \/ r # NoBox /\ NoFault /\ next /\ Saved(b, NoBox, Gone)
  \/ /\ r # NoBox
     /\ Breaks(p, b, "destroying", r.start,
               {docker[b], Gone} \cup IF docker[b] = Gone THEN {}
                                      ELSE {Containers("stopped", docker[b].start)})

-----------------------------------------------------------------------------
\* Resolve: the directory of a command, and the box that it has.
FirstPlace(cmd) ==
  CASE cmd \in {"up", "run"} -> "ensure"
    [] cmd \in {"exec", "logs", "status", "port", "destroy"} -> "inspect"
    [] cmd \in {"stop", "restart"} -> "call"
    [] OTHER -> "list"

Started(cmd, b) == [Idle(0) EXCEPT !.cmd = cmd, !.at = FirstPlace(cmd), !.box = b]
Begin(p, cmd, d) ==
  /\ run[p].at = "idle" /\ UNCHANGED <<boxes, docker>>
  /\ \/ FirstPlace(cmd) = "list" /\ NoFault /\ run' = [run EXCEPT ![p] = Started(cmd, Nowhere)]
     \/ /\ FirstPlace(cmd) # "list" /\ dir[d] # "absent" /\ NoFault
        /\ run' = [run EXCEPT ![p] = Started(cmd, Discovered(d))]
     \/ /\ FirstPlace(cmd) # "list" /\ dir[d] = "git" /\ Fault("probe")
        /\ run' = [run EXCEPT ![p] = Started(cmd, <<d, "plain">>)]

\* App.Ensure: what Git is in the box may not be valid.
Ensured(p) == \/ run[p].cmd = "up" /\ End(p, 0)
              \/ run[p].cmd # "up" /\ Goto(p, "child")
              \/ Fail(p)
CallEnsure(p) == run[p].at = "ensure" /\ Ensure(p, Ensured(p))

\* exec, import and publish want a box that is ready; mappings of a stopped one can be
\* removed, and those of any box listed.
Ready(p) == Known[run[p].box].status = "ready"
Inspected(p) ==
  LET cmd == run[p].cmd IN
  \/ cmd = "status" /\ End(p, 0)
  \/ cmd = "destroy" /\ Goto(p, "confirm")
  \/ (cmd = "logs" \/ (cmd = "exec" /\ Ready(p))) /\ Goto(p, "child")
  \/ cmd = "port" /\ Goto(p, "call")
  \/ cmd \in {"exec", "port"} /\ ~Ready(p) /\ Fail(p)
CallInspect(p) == run[p].at = "inspect" /\ Read(p, Inspected(p))

\* The child process: docker compose exec, without a lock.  Codes 0 and 3 stand for all.
Child(p) ==
  /\ run[p].at = "child" /\ UNCHANGED <<boxes, docker>>
  /\ \/ \E code \in IF Up(docker[run[p].box]) THEN {0, 3} ELSE {1} :
          NoFault /\ run' = [run EXCEPT ![p].at = "touch", ![p].code = code]
     \/ Fault("docker") /\ run' = [run EXCEPT ![p].at = "touch", ![p].failed = TRUE]

\* App.Run, App.Logs: the box is touched whatever the child has done.
Touched(p) ==
  IF run[p].failed THEN Fail(p)
  ELSE IF run[p].code # 0 THEN End(p, run[p].code)
  ELSE IF run[p].cmd = "run" THEN Goto(p, "sync") ELSE End(p, 0)
CallTouch(p) == run[p].at = "touch" /\ Read(p, Touched(p))

CallSync(p) == run[p].at = "sync" /\ Read(p, End(p, 0))

Confirm(p) ==
  /\ run[p].at = "confirm" /\ NoFault /\ UNCHANGED <<boxes, docker>>
  /\ Goto(p, "call") \/ Fail(p)

Call(p) ==
  /\ run[p].at = "call"
  /\ \/ run[p].cmd = "stop" /\ Stop(p)
     \/ run[p].cmd = "restart" /\ Restart(p)
     \/ run[p].cmd = "destroy" /\ Destroy(p, run[p].box, End(p, 0))
     \/ run[p].cmd = "port" /\ Read(p, End(p, 0))

\* Prune: the boxes are listed, then their directories are looked at one by one, then
\* those are destroyed, one by one, whose directory was not there.
List(p) ==
  /\ run[p].at = "list"
  /\ \/ Unread(p)
     \/ /\ NoFault /\ Noted
        /\ IF run[p].cmd = "list" THEN End(p, 0)
           ELSE run' = [run EXCEPT ![p].at = "stat", ![p].left = {b \in Boxes : Known[b] # NoBox}]

\* Discover
Stat(p) ==
  /\ run[p].at = "stat" /\ NoFault /\ UNCHANGED <<boxes, docker>>
  /\ \/ \E b \in run[p].left :
          run' = [run EXCEPT ![p].left = @ \ {b},
                             ![p].found = IF dir[b[1]] = "absent" THEN @ \cup {b} ELSE @]
     \/ /\ run[p].left = {}
        /\ IF run[p].cmd = "prune --force" THEN Goto(p, "prune") ELSE End(p, 0)

PruneOne(p, b) == Destroy(p, b, run' = [run EXCEPT ![p].found = @ \ {b}])
Prune(p) ==
  /\ run[p].at = "prune"
  /\ \/ \E b \in run[p].found : PruneOne(p, b)
     \/ run[p].found = {} /\ NoFault /\ End(p, 0) /\ UNCHANGED <<boxes, docker>>

Step(p) == \/ CallEnsure(p) \/ CallInspect(p) \/ Child(p) \/ CallTouch(p) \/ CallSync(p)
           \/ Confirm(p) \/ Call(p) \/ List(p) \/ Stat(p) \/ Prune(p)

-----------------------------------------------------------------------------
\* The user, and other programs.
Make(d, kind) == dir[d] = "absent" /\ dir' = [dir EXCEPT ![d] = kind]
Remove(d) == dir[d] # "absent" /\ dir' = [dir EXCEPT ![d] = "absent"]
Take(n) == n \notin HeldBy(Boxes) /\ taken' = taken \cup {n}
Release(n) == n \in taken /\ taken' = taken \ {n}

Init ==
  /\ dir = [d \in Dirs |-> "absent"] /\ boxes = [b \in Boxes |-> NoBox]
  /\ docker = [b \in Boxes |-> Gone] /\ taken = {}
  /\ run = [p \in Procs |-> Idle(0)] /\ faults = 0

Next ==
  \/ \E p \in Procs : /\ \/ Step(p)
                         \/ \E cmd \in Commands, d \in Dirs : Begin(p, cmd, d)
                      /\ UNCHANGED <<dir, taken>>
  \/ \E d \in Dirs : /\ Remove(d) \/ \E kind \in Kinds : Make(d, kind)
                     /\ UNCHANGED <<boxes, docker, taken, run, faults>>
  \/ \E n \in Foreign : (Take(n) \/ Release(n)) /\ UNCHANGED <<dir, boxes, docker, run, faults>>

Spec == Init /\ [][Next]_vars

-----------------------------------------------------------------------------
\* Types: every block is one that the allocator can give (Reserve), and a command knows
\* its box from Resolve on.
CommandTypes ==
  [cmd : Commands \cup {"none"}, at : Places, box : Boxes \cup {Nowhere}, code : {0, 1, 3},
   failed : BOOLEAN, left : SUBSET Boxes, found : SUBSET Boxes, exit : {0, 1, 3}]
CommandsOK ==
  /\ run \in [Procs -> CommandTypes]
  /\ \A p \in Procs : run[p].at \in {"idle", "list", "stat", "prune"} \/ run[p].box \in Boxes
TypeOK ==
  /\ dir \in [Dirs -> {"git", "plain", "absent"}]
  /\ boxes \in [Boxes -> [status : Statuses \cup {"none"}, start : Starts \cup {0}]]
  /\ docker \in [Boxes -> [state : {"none", "stopped", "sick", "running"}, start : Starts \cup {0}]]
  /\ taken \subseteq Nat /\ faults \in 0 .. MaxFaults
  /\ CommandsOK

\* Boxes that are recorded have different ports, stopped and broken ones included, so
\* that each can be started at any time (Reserve, loadAndReconcile).
BlocksDisjoint ==
  \A b, c \in Boxes : b # c /\ boxes[b].start # 0 /\ boxes[c].start # 0
                      => Block(boxes[b].start) \cap Block(boxes[c].start) = {}

\* Containers are never without a record of their ports: what a command that fails or is
\* killed leaves behind can be listed and destroyed (ensure, Destroy).
Recorded ==
  \A b \in Boxes : docker[b] # Gone => boxes[b] # NoBox /\ boxes[b].start = docker[b].start

\* A box keeps its ports until it is destroyed, through stops, failures and programs that
\* take them (ensure).
KeepsBlock ==
  [][\A b \in Boxes : boxes[b].start # 0 /\ boxes'[b] # NoBox => boxes'[b].start = boxes[b].start]_vars

\* Prune destroys only boxes whose directory does not exist.
PrunesMissing ==
  [][\A p \in Procs, b \in Boxes :
       run[p].at = "prune" /\ run'[p] # run[p] /\ boxes[b] # NoBox /\ boxes'[b] = NoBox
       => dir[b[1]] = "absent"]_vars

\* The exit code of a child that has run and failed is the exit code of the command.
ReturnsChildCode ==
  [][\A p \in Procs : run[p].code # 0 /\ run'[p].at = "idle" => run'[p].exit = run[p].code]_vars

\* A directory that is a Git worktree has no second box.
OneBoxEach == \A d \in Dirs : boxes[<<d, "git">>] = NoBox \/ boxes[<<d, "plain">>] = NoBox
=============================================================================
