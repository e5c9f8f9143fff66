---------------------------- MODULE Connections ----------------------------
(***************************************************************************)
(* Connections between boxes: `connect` and `disconnect`, and what `up`,    *)
(* `restart` and `destroy` of a box do to them, Docker call by Docker call. *)
(*                                                                          *)
(* Every command holds the global lock from its first load of state.json to *)
(* its end (BoxManager), so commands follow one another; what interleaves   *)
(* with their steps are the containers, failures and kills.                 *)
(*                                                                          *)
(* Abstracted: a connection ID is the set of boxes it is the hash of; a box *)
(* is ready when its services run; selectors, versions and times are left   *)
(* out; a network of that name that Wktbox does not manage does not occur.  *)
(***************************************************************************)
EXTENDS Naturals, FiniteSets

CONSTANTS
  Box,
  Selections,     \* the sets of boxes that are asked to be connected
  Names,          \* the names connections are given
  NoName,         \* a connection without a name
  NoRecord,       \* the record of a connection that is not listed
  MayFail,        \* the kinds of failure that occur, a subset of FaultKinds
  MaxFaults       \* how many of them occur in a behaviour

\* "list" and "save" at the ends of a command;  "docker" a call that fails
\* "service" a container stops by itself;       "crash"  kill of the command
\* "prune"   a network nobody uses is removed by hand
FaultKinds == {"list", "save", "docker", "service", "crash", "prune"}

ASSUME ConnectionAssumption ==
  /\ \A S \in Selections : S \subseteq Box
  /\ NoName \notin Names
  /\ NoRecord \notin [members : SUBSET Box, name : Names \cup {NoName},
                      status : {"ready", "degraded", "error"}]
  /\ MayFail \subseteq FaultKinds /\ MaxFaults \in Nat

VARIABLES
  saved,          \* state.json: the boxes and the connections
  containers,     \* the boxes that have containers
  running,        \* <<box, service>>: the containers that run
  networks,       \* the connections that have a network
  attached,       \* <<connection, box, service>>: endpoints of the networks
  cmd,            \* the command that runs, and its locals
  faults          \* failures so far

docker == <<containers, running, networks, attached>>
vars == <<saved, docker, cmd, faults>>

Service == {"docker", "webtop"}
Endpoints(S) == S \X Service
Ready(b) == Endpoints({b}) \subseteq running

ConnIds == {S \in SUBSET Box : Cardinality(S) >= 2}
Records == [members : ConnIds, name : Names \cup {NoName},
            status : {"ready", "degraded", "error"}]
States == [boxes : SUBSET Box, conns : [ConnIds -> Records \cup {NoRecord}]]
NoState == [boxes |-> {}, conns |-> [c \in ConnIds |-> NoRecord]]

\* mem is the loaded state; ready the boxes it calls ready; conn the connection
\* at work and todo its endpoints still to do; left the connections after it.
Idle == [op |-> "none", box |-> {}, step |-> "idle", mem |-> NoState, ready |-> {},
         conn |-> {}, todo |-> {}, left |-> {}, ok |-> FALSE]
Steps == {"idle", "record", "compose", "down", "next", "network", "attach", "verify",
          "detach", "remove", "save", "done"}
Commands ==
  [op : {"none", "connect", "disconnect", "up", "restart", "destroy"},
   box : SUBSET Box, step : Steps, mem : States, ready : SUBSET Box,
   conn : ConnIds \cup {{}}, todo : SUBSET Endpoints(Box), left : SUBSET ConnIds,
   ok : BOOLEAN]

Fault(k) == k \in MayFail /\ faults < MaxFaults /\ faults' = faults + 1
NoFault == faults' = faults

Record == cmd.mem.conns[cmd.conn]
With(st, c, r) == [st EXCEPT !.conns[c] = r]
Without(st, c) == With(st, c, NoRecord)
Listed(st) == {c \in ConnIds : st.conns[c] # NoRecord}
ConnsOf(st, b) == {c \in Listed(st) : b \in st.conns[c].members}

\* Mutant: connections recorded as ready need nothing.
ToReconcileUnready(st, b) == {c \in ConnsOf(st, b) : st.conns[c].status # "ready"}
\* reconcileConnectionsForBox, removeBoxFromConnections: every one of the box.
ToReconcile(st, b) == ConnsOf(st, b)

Goto(step) == cmd' = [cmd EXCEPT !.step = step]
Done(ok) == cmd' = [cmd EXCEPT !.step = "done", !.ok = ok]

-----------------------------------------------------------------------------
\* loadAndReconcile: the boxes Docker shows are in the loaded state.
Loaded == [saved EXCEPT !.boxes = @ \cup containers]
Load(started) ==
  /\ cmd = Idle
  /\ \/ /\ NoFault /\ saved' = Loaded /\ cmd' = started
     \/ Fault("list") /\ UNCHANGED <<saved, cmd>>
     \/ Fault("save") /\ saved' \in {saved, Loaded} /\ UNCHANGED cmd
  /\ UNCHANGED docker
Started(op, bs, st) ==
  [Idle EXCEPT !.op = op, !.box = bs, !.mem = st, !.ok = TRUE,
               !.ready = {b \in Loaded.boxes : Ready(b)}]

\* Connect: two boxes or more, all of them ready; the name is free, and the
\* connection has no other name.  A known connection keeps its members.

\* Mutant: one box is enough.
ConnectableAlone(S) == S \subseteq Loaded.boxes /\ \A b \in S : Ready(b)
Connectable(S) ==
  S \in ConnIds /\ S \subseteq Loaded.boxes /\ \A b \in S : Ready(b)

Recorded(S, name) ==
  IF S \in Listed(Loaded)
  THEN [Loaded.conns[S] EXCEPT !.name = IF @ = NoName THEN name ELSE @]
  ELSE [members |-> S, name |-> name, status |-> "degraded"]

Connect(S, name) ==
  /\ Connectable(S)
  /\ name # NoName =>
       \A c \in Listed(Loaded) \ {S} : Loaded.conns[c].name # name
  /\ S \in Listed(Loaded) =>
       NoName \in {name, Loaded.conns[S].name} \/ Loaded.conns[S].name = name
  /\ Load([Started("connect", S, With(Loaded, S, Recorded(S, name)))
             EXCEPT !.step = "record", !.conn = S])

Disconnect(c) ==
  /\ c \in Listed(Loaded)
  /\ Load([Started("disconnect", {}, Loaded)
             EXCEPT !.step = "detach", !.conn = c,
                    !.todo = Endpoints(Loaded.conns[c].members)])

\* ensure: a ready box may need nothing of Compose.
Up(b) ==
  \/ Load([Started("up", {b}, [Loaded EXCEPT !.boxes = @ \cup {b}])
             EXCEPT !.step = "record", !.ready = @ \cup {b}])
  \/ Ready(b) /\ Load([Started("up", {b}, Loaded)
             EXCEPT !.step = "next", !.left = ToReconcile(Loaded, b)])
Restart(b) ==
  /\ b \in Loaded.boxes
  /\ Load([Started("restart", {b}, Loaded) EXCEPT !.step = "record", !.ready = @ \cup {b}])
Destroy(b) ==
  /\ b \in Loaded.boxes
  /\ Load([Started("destroy", {b}, Loaded) EXCEPT !.step = "record", !.ready = @ \ {b}])

\* Mutant: connect saves nothing before it has worked.
RecordNothing ==
  /\ cmd.step = "record" /\ NoFault
  /\ Goto(CASE cmd.op = "connect" -> "network" [] cmd.op = "destroy" -> "down"
            [] OTHER -> "compose")
  /\ UNCHANGED <<saved, docker>>

\* The first save of the command: what it intends.
RecordIntent ==
  /\ cmd.step = "record"
  /\ \/ /\ NoFault /\ saved' = cmd.mem
        /\ Goto(CASE cmd.op = "connect" -> "network" [] cmd.op = "destroy" -> "down"
                  [] OTHER -> "compose")
     \/ Fault("save") /\ saved' \in {saved, cmd.mem} /\ Done(FALSE)
  /\ UNCHANGED docker

\* docker compose up, after a stop when it is a restart: containers that it
\* creates anew are in no network of a connection.
Compose ==
  /\ cmd.step = "compose"
  /\ \E b \in cmd.box :
       /\ containers' = containers \cup {b}
       /\ \/ /\ running' = running \cup Endpoints({b}) /\ NoFault
             /\ cmd' = [cmd EXCEPT !.step = "next", !.left = ToReconcile(cmd.mem, b)]
          \/ /\ Fault("docker") /\ Done(FALSE)
             /\ \E S \in SUBSET Endpoints({b}) : running' = (running \ Endpoints({b})) \cup S
       /\ attached' \in {attached, {a \in attached : a[2] # b}}
  /\ UNCHANGED <<saved, networks>>

\* docker compose down.
Down ==
  /\ cmd.step = "down"
  /\ \/ /\ NoFault
        /\ containers' = containers \ cmd.box
        /\ running' = running \ Endpoints(cmd.box)
        /\ attached' = {a \in attached : a[2] \notin cmd.box}
        /\ \E b \in cmd.box :
             cmd' = [cmd EXCEPT !.step = "next", !.left = ToReconcile(cmd.mem, b)]
     \/ Fault("docker") /\ Done(FALSE) /\ UNCHANGED <<containers, running, attached>>
  /\ UNCHANGED <<saved, networks>>

-----------------------------------------------------------------------------
\* The connections of one box, one after the other: destroy takes the box out
\* of each and removes those that are left with one member.

\* Mutant: destroy keeps a connection that is left with one member.
NextKeepingAll ==
  /\ cmd.step = "next" /\ NoFault
  /\ \/ cmd.left = {} /\ Goto("save")
     \/ \E c \in cmd.left :
          LET rest == cmd.mem.conns[c].members \ cmd.box
              on == [cmd EXCEPT !.conn = c, !.left = @ \ {c}]
          IN cmd' = IF cmd.op # "destroy" THEN [on EXCEPT !.step = "network"]
                    ELSE [on EXCEPT !.step = "network",
                                    !.mem = With(@, c, [@.conns[c] EXCEPT !.members = rest])]
  /\ UNCHANGED <<saved, docker>>

NextConnection ==
  /\ cmd.step = "next" /\ NoFault
  /\ \/ cmd.left = {} /\ Goto("save")
     \/ \E c \in cmd.left :
          LET rest == cmd.mem.conns[c].members \ cmd.box
              on == [cmd EXCEPT !.conn = c, !.left = @ \ {c}]
          IN cmd' = IF cmd.op # "destroy" THEN [on EXCEPT !.step = "network"]
                    ELSE IF rest \notin ConnIds
                    THEN [on EXCEPT !.step = "detach",
                                    !.todo = Endpoints(cmd.mem.conns[c].members)]
                    ELSE [on EXCEPT !.step = "network",
                                    !.mem = With(@, c, [@.conns[c] EXCEPT !.members = rest])]
  /\ UNCHANGED <<saved, docker>>

\* A Docker call of reconcileConnection or of the disconnection has failed: the
\* connection is recorded with the error, but not by destroy.

\* Mutant: the error is returned and not recorded.
FailsQuietly ==
  IF cmd.op = "destroy" THEN Done(FALSE)
  ELSE cmd' = [cmd EXCEPT !.step = "save", !.ok = FALSE, !.todo = {}, !.left = {}]
Fails ==
  IF cmd.op = "destroy" THEN Done(FALSE)
  ELSE cmd' = [cmd EXCEPT !.step = "save", !.ok = FALSE, !.todo = {}, !.left = {},
                          !.mem = With(@, cmd.conn, [Record EXCEPT !.status = "error"])]

\* reconcileConnection: the network, the endpoints of the ready members, and the
\* inspection that decides on the status.
EnsureNetwork ==
  /\ cmd.step = "network"
  /\ \/ /\ NoFault /\ networks' = networks \cup {cmd.conn}
        /\ cmd' = [cmd EXCEPT !.step = "attach",
                              !.todo = Endpoints(Record.members \cap cmd.ready)]
     \/ Fault("docker") /\ networks' = networks /\ Fails
  /\ UNCHANGED <<saved, containers, running, attached>>

\* A container that does not run cannot be resolved.
Attach ==
  /\ cmd.step = "attach"
  /\ \/ cmd.todo = {} /\ NoFault /\ Goto("verify") /\ attached' = attached
     \/ \E e \in cmd.todo :
          \/ /\ e \in running /\ cmd.conn \in networks /\ NoFault
             /\ attached' = attached \cup {<<cmd.conn, e[1], e[2]>>}
             /\ cmd' = [cmd EXCEPT !.todo = @ \ {e}]
          \/ /\ \/ (e \notin running \/ cmd.conn \notin networks) /\ NoFault
                \/ Fault("docker")
             /\ Fails /\ attached' = attached
  /\ UNCHANGED <<saved, containers, running, networks>>

\* The endpoints an inspection shows are those of containers that run.
Active(c, e) == <<c, e[1], e[2]>> \in attached /\ e \in running

\* Mutant: a member that was not ready does not count.
ObservedOfReady(r) ==
  IF \A e \in Endpoints(r.members \cap cmd.ready) : Active(cmd.conn, e)
  THEN "ready" ELSE "degraded"
Observed(r) ==
  IF /\ r.members \subseteq cmd.ready
     /\ \A e \in Endpoints(r.members) : Active(cmd.conn, e)
  THEN "ready" ELSE "degraded"

Verify ==
  /\ cmd.step = "verify"
  /\ \/ /\ cmd.conn \in networks /\ NoFault
        /\ cmd' = [cmd EXCEPT
                     !.step = IF cmd.op = "connect" THEN "save" ELSE "next",
                     !.mem = With(@, cmd.conn, [Record EXCEPT !.status = Observed(Record)])]
     \/ /\ \/ cmd.conn \notin networks /\ NoFault
           \/ Fault("docker")
        /\ Fails
  /\ UNCHANGED <<saved, docker>>

\* disconnectConnectionRuntime: the endpoints, then the network.  Only an
\* endpoint of a container that runs keeps Docker from removing the network.
Detach ==
  /\ cmd.step = "detach"
  /\ \/ cmd.todo = {} /\ NoFault /\ Goto("remove") /\ attached' = attached
     \/ \E e \in cmd.todo :
          \/ /\ NoFault
             /\ attached' = attached \ {<<cmd.conn, e[1], e[2]>>}
             /\ cmd' = [cmd EXCEPT !.todo = @ \ {e}]
          \/ Fault("docker") /\ Fails /\ attached' = attached
  /\ UNCHANGED <<saved, containers, running, networks>>

RemoveNetwork ==
  /\ cmd.step = "remove"
  /\ \/ /\ \A e \in Endpoints(Box) : ~Active(cmd.conn, e)
        /\ NoFault /\ networks' = networks \ {cmd.conn}
        /\ cmd' = [cmd EXCEPT !.step = IF cmd.op = "destroy" THEN "next" ELSE "save",
                              !.mem = Without(@, cmd.conn)]
     \/ /\ \/ (\E e \in Endpoints(Box) : Active(cmd.conn, e)) /\ NoFault
           \/ Fault("docker")
        /\ networks' = networks /\ Fails
  /\ UNCHANGED <<saved, containers, running, attached>>

\* The last save: of destroy without the box.
Final == IF cmd.op = "destroy" THEN [cmd.mem EXCEPT !.boxes = @ \ cmd.box] ELSE cmd.mem
SaveResult ==
  /\ cmd.step = "save"
  /\ \/ NoFault /\ saved' = Final
        /\ Done(cmd.ok)
     \/ Fault("save") /\ saved' \in {saved, Final} /\ Done(FALSE)
  /\ UNCHANGED docker

End == cmd.step = "done" /\ cmd' = Idle /\ NoFault /\ UNCHANGED <<saved, docker>>

-----------------------------------------------------------------------------
\* What happens besides.

Killed == cmd # Idle /\ Fault("crash") /\ cmd' = Idle /\ UNCHANGED <<saved, docker>>
ServiceStops(e) ==
  /\ e \in running /\ Fault("service") /\ running' = running \ {e}
  /\ UNCHANGED <<saved, containers, networks, attached, cmd>>
Pruned(c) ==
  /\ c \in networks /\ (\A a \in attached : a[1] # c) /\ Fault("prune")
  /\ networks' = networks \ {c}
  /\ UNCHANGED <<saved, containers, running, attached, cmd>>

Init ==
  /\ saved = NoState /\ containers = {} /\ running = {}
  /\ networks = {} /\ attached = {} /\ cmd = Idle /\ faults = 0

Asked ==
  \/ \E S \in Selections, n \in Names \cup {NoName} : Connect(S, n)
  \/ \E c \in ConnIds : Disconnect(c)
  \/ \E b \in Box : Up(b) \/ Restart(b) \/ Destroy(b)
Reconciles == EnsureNetwork \/ Attach \/ Verify
Removes == Detach \/ RemoveNetwork
Next ==
  \/ Asked \/ RecordIntent \/ Compose \/ Down \/ NextConnection
  \/ Reconciles \/ Removes \/ SaveResult \/ End \/ Killed
  \/ \E e \in Endpoints(Box) : ServiceStops(e)
  \/ \E c \in ConnIds : Pruned(c)

Spec == Init /\ [][Next]_vars

-----------------------------------------------------------------------------
TypeOK ==
  /\ saved \in States /\ cmd \in Commands
  /\ containers \subseteq Box /\ running \subseteq Endpoints(containers)
  /\ networks \subseteq ConnIds /\ attached \subseteq ConnIds \X Box \X Service
  /\ faults \in 0 .. MaxFaults

\* Boxes share a network only when state.json says so, also while a command
\* works and after it has been killed at any point: what it will create is saved
\* before, and what it removes is forgotten after (connections.go Connect,
\* Disconnect, removeBoxFromConnections).
Isolated ==
  /\ networks \subseteq Listed(saved)
  /\ \A a \in attached :
       a[1] \in Listed(saved) /\ a[2] \in saved.conns[a[1]].members

\* A recorded connection has two members or more, all of them recorded boxes, and
\* no name is given twice (Connect, Destroy).
WellFormed ==
  \A c \in Listed(saved) :
    /\ saved.conns[c].members \in ConnIds
    /\ saved.conns[c].members \subseteq saved.boxes
    /\ \A d \in Listed(saved) \ {c} :
         saved.conns[c].name \in Names => saved.conns[d].name # saved.conns[c].name

Succeeds(ops) == cmd.op \in ops /\ cmd.step # "done" /\ cmd'.step = "done" /\ cmd'.ok

\* A successful up or restart has attached the box to every connection that it
\* is a member of, whatever Compose did to its containers
\* (manager.go ensure, reconcileConnectionsForBox).
UpReattaches ==
  [][Succeeds({"up", "restart"}) =>
       \A b \in cmd.box : \A c \in ConnsOf(saved', b), s \in Service :
         <<c, b, s>> \in attached]_vars

\* A connection is recorded as ready only with every endpoint of every member
\* attached (reconcileConnection).
ReadyIsAttached ==
  [][\A c \in Listed(saved') :
       saved'.conns[c].status = "ready" /\ (c \in Listed(saved) => saved.conns[c].status # "ready") =>
         \A e \in Endpoints(saved'.conns[c].members) : <<c, e[1], e[2]>> \in attached]_vars

\* A connect or disconnect that a Docker call stops half-way stays in state.json
\* with its error, to be done again (Connect, Disconnect).
FailureKept ==
  [][cmd.step = "save" /\ cmd.op \in {"connect", "disconnect"} /\ ~cmd.ok /\ NoFault =>
       cmd.conn \in Listed(saved') /\ saved'.conns[cmd.conn].status = "error"]_vars

\* connect is idempotent for the same set of boxes: when it succeeds, the boxes
\* it was asked to connect share the network.
ConnectsAll ==
  [][Succeeds({"connect"}) =>
       \A b \in cmd.box, s \in Service :
         <<cmd.conn, b, s>> \in attached]_vars
=============================================================================
