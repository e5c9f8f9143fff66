--------------------------- MODULE LoopbackDaemon ---------------------------
(***************************************************************************)
(* The loopback sidecar of one box: its event loop (subscription, first     *)
(* sync, debounced events, resync), its control socket, the port commands   *)
(* that work through it, and the workloads that come and go meanwhile.      *)
(*                                                                          *)
(* BoxManager has all of this as single steps of the sidecar; here every    *)
(* probe, stop and start of an import is a step, and BoxManager's port      *)
(* transaction is reduced to what the sidecar sees of it.                   *)
(*                                                                          *)
(* Abstracted: backoff and jitter, log limits, the status file; a snapshot  *)
(* lists and inspects the containers at one moment; ctx is never cancelled. *)
(***************************************************************************)
EXTENDS ImportReconciler

VARIABLES
  alive,          \* the sidecar's container runs
  loop,           \* where the event loop is
  subscribed,     \* the Docker event stream is open
  debounce,       \* the debounce timer is armed
  txLock,         \* who holds transaction.lock
  files,          \* the imports in ports.json
  record,         \* the imports of the box's record
  degraded,       \* the record has a runtime error
  command         \* the port command, and its locals

sidecar == <<alive, loop, subscribed, debounce>>
box == <<txLock, files, record, degraded, command>>
vars == <<workloads, reconciler, call, sidecar, box>>

Loops == {"subscribe", "first", "sync", "consume"}
Commands == [step : {"idle", "write", "apply", "undo", "reapply", "commit", "end", "up"},
             cand : SUBSET Import, snap : SUBSET Import]
NoCommand == [step |-> "idle", cand |-> {}, snap |-> {}]

\* ValidateSet: names and local ports are unique.
Valid(maps) ==
  \A m, n \in maps : m # n => m.name # n.name /\ m.port # n.port

-----------------------------------------------------------------------------
\* Daemon.sync: the snapshot, the automatic routes, ports.json, Apply.

\* Mutant: routes of ports that are published no longer stay.
RoutesKept(desired) == routes \cup {p \in desired : ~Taken(Desktop, p)}

\* Reconciler.Apply: routes no longer desired close, the others that can be
\* bound in Webtop open.
RoutesFor(desired) ==
  (routes \cap desired) \cup {p \in desired : ~Taken(Desktop, p)}

Desired == UNION {Publishes[w] : w \in running \cap Workload}

\* The end of the process, of its locks too: a sync over a zero entry in active
\* brings it about.
SidecarEnds ==
  /\ alive' = FALSE /\ loop' = "subscribe" /\ subscribed' = FALSE
  /\ debounce' = FALSE
  /\ proxies' = {} /\ routes' = {}
  /\ active' = <<>> /\ warnings' = {} /\ failures' = {} /\ call' = NoCall
  /\ txLock' = IF txLock \in {"loop", "control"} THEN "free" ELSE txLock

\* It fails early when no snapshot can be taken, or after the routes, when
\* ports.json cannot be read.
Sync(by, mode) ==
  /\ alive
  /\ \/ /\ ~Panics /\ NoFault
        /\ Begin(by, mode, files)
        /\ routes' = RoutesFor(Desired)
        /\ UNCHANGED <<namespaces, proxies, sidecar, txLock>>
     \/ /\ BeginFails(by)
        /\ routes' \in {routes, RoutesFor(Desired)}
        /\ UNCHANGED <<namespaces, proxies, sidecar, txLock>>
     \/ /\ Panics /\ call.step = "idle" /\ NoFault
        /\ SidecarEnds /\ UNCHANGED namespaces

\* The step of Apply that comes next.
Reconcile ==
  /\ \E s \in Spec4Proxy : Probe(s) \/ StopConflicting(s) \/ Start(s)
  /\ UNCHANGED <<alive, loop, subscribed, box>>
  /\ debounce' = (debounce \/ (subscribed /\ running' # running))
Finish == Swap /\ UNCHANGED <<sidecar, box>>

-----------------------------------------------------------------------------
\* The event loop.

Subscribe ==
  /\ alive /\ loop = "subscribe"
  /\ subscribed' = TRUE /\ debounce' = FALSE /\ loop' = "first"
  /\ UNCHANGED <<workloads, reconciler, call, alive, box>>

\* Mutant: the mutex is taken first, and held while the transaction lock is
\* awaited.
LoopLocksLast ==
  /\ loop \in {"first", "sync"} /\ txLock # "loop"
  /\ \/ /\ call.step = "idle" /\ UNCHANGED txLock
        /\ call' = [NoCall EXCEPT !.step = "locks", !.by = "loop"]
     \/ /\ call.step = "locks" /\ txLock = "free"
        /\ call' = NoCall /\ txLock' = "loop"
  /\ UNCHANGED <<workloads, reconciler, sidecar, files, record, degraded, command>>

\* Daemon.Sync, in event mode: the transaction lock, then the mutex.  A call in
\* progress is what holds the mutex.
LoopLocks ==
  /\ loop \in {"first", "sync"} /\ txLock = "free"
  /\ txLock' = "loop"
  /\ UNCHANGED <<workloads, reconciler, call, sidecar, files, record, degraded, command>>
LoopSync ==
  /\ loop \in {"first", "sync"} /\ txLock = "loop" /\ call.by # "loop"
  /\ Sync("loop", "event")
  /\ UNCHANGED <<files, record, degraded, command>>

LoopReturns ==
  /\ call.by = "loop" /\ call.step \in {"ok", "error"}
  /\ call' = NoCall /\ txLock' = "free"
  /\ IF loop = "first" /\ call.step = "error"
     THEN loop' = "subscribe" /\ subscribed' = FALSE /\ debounce' = FALSE
     ELSE loop' = "consume" /\ UNCHANGED <<subscribed, debounce>>
  /\ UNCHANGED <<workloads, reconciler, alive, files, record, degraded, command>>

DebounceFires ==
  /\ loop = "consume" /\ debounce
  /\ debounce' = FALSE /\ loop' = "sync"
  /\ UNCHANGED <<workloads, reconciler, call, alive, subscribed, box>>
ResyncFires ==
  /\ loop = "consume" /\ loop' = "sync"
  /\ UNCHANGED <<workloads, reconciler, call, alive, subscribed, debounce, box>>

StreamEnds ==
  /\ subscribed /\ Fault("stream") /\ subscribed' = FALSE
  /\ UNCHANGED <<namespaces, proxies, routes, reconciler, call, alive, loop,
                 debounce, box>>
LoopNotices ==
  /\ loop = "consume" /\ ~subscribed
  /\ loop' = "subscribe" /\ debounce' = FALSE
  /\ UNCHANGED <<workloads, reconciler, call, alive, subscribed, box>>

\* SyncLoopback asks for a sync over the control socket.
ControlLocks ==
  /\ alive /\ txLock = "free"
  /\ txLock' = "control"
  /\ UNCHANGED <<workloads, reconciler, call, sidecar, files, record, degraded, command>>
ControlSync ==
  /\ txLock = "control" /\ call.by # "control" /\ Sync("control", "event")
  /\ UNCHANGED <<files, record, degraded, command>>
ControlReturns ==
  /\ call.by = "control" /\ call.step \in {"ok", "error"}
  /\ call' = NoCall /\ txLock' = "free"
  /\ UNCHANGED <<workloads, reconciler, sidecar, files, record, degraded, command>>

-----------------------------------------------------------------------------
\* The port commands, one at a time: the box lock orders them.

Goto(step) == command' = [command EXCEPT !.step = step]

ImportPorts(m) ==
  /\ command.step = "idle" /\ alive /\ ~degraded
  /\ m \notin record /\ Valid(record \cup {m})
  /\ call.step = "idle" /\ PreflightPasses(record \cup {m})
  /\ command' = [step |-> "write", cand |-> record \cup {m}, snap |-> files]
  /\ UNCHANGED <<workloads, reconciler, call, sidecar, txLock, files, record, degraded>>

RemovePortMappings(m) ==
  /\ command.step = "idle" /\ alive /\ ~degraded
  /\ m \in record
  /\ command' = [step |-> "write", cand |-> record \ {m}, snap |-> files]
  /\ UNCHANGED <<workloads, reconciler, call, sidecar, txLock, files, record, degraded>>

WriteCandidate ==
  /\ command.step = "write" /\ txLock = "free"
  /\ txLock' = "command" /\ files' = command.cand
  /\ command' = [command EXCEPT !.step = "apply", !.snap = files]
  /\ UNCHANGED <<workloads, reconciler, call, sidecar, record, degraded>>

\* imports-apply: transaction mode, under the mutex only.  Without a sidecar it
\* fails at once.
AfterFailure == [apply |-> "undo", reapply |-> "end", up |-> "idle"]
AfterSuccess == [apply |-> "commit", reapply |-> "end", up |-> "idle"]

Fails(step) ==
  /\ Goto(AfterFailure[step])
  /\ degraded' = (degraded \/ step = "reapply")
Succeeds(step) ==
  /\ Goto(AfterSuccess[step])
  /\ degraded' = (degraded /\ step # "up")

ApplyImports ==
  /\ command.step \in {"apply", "reapply", "up"} /\ call.by # "command"
  /\ \/ /\ Sync("command", "transaction") /\ alive'
        /\ UNCHANGED <<degraded, command>>
     \/ /\ Sync("command", "transaction") /\ ~alive' /\ Fails(command.step)
     \/ /\ ~alive /\ Fails(command.step)
        /\ UNCHANGED <<workloads, reconciler, call, sidecar, txLock>>
  /\ UNCHANGED <<files, record>>

\* Its answer is an error also while the event stream is not connected.
ApplyReturns ==
  /\ call.by = "command" /\ call.step \in {"ok", "error"}
  /\ call' = NoCall
  /\ IF call.step = "ok" /\ loop # "subscribe"
     THEN Succeeds(command.step) ELSE Fails(command.step)
  /\ UNCHANGED <<workloads, reconciler, sidecar, txLock, files, record>>

Commit ==
  /\ command.step = "commit"
  /\ \/ NoFault /\ record' = command.cand /\ Goto("end")
     \/ Fault("save") /\ record' = record /\ Goto("undo")
  /\ UNCHANGED <<namespaces, proxies, routes, reconciler, call, sidecar, txLock,
                 files, degraded>>

\* Mutant: the rollback restores the files and leaves the sidecar to itself.
UndoFiles ==
  /\ command.step = "undo"
  /\ files' = command.snap /\ Goto("end")
  /\ UNCHANGED <<workloads, reconciler, call, sidecar, txLock, record, degraded>>

Undo ==
  /\ command.step = "undo"
  /\ files' = command.snap /\ Goto("reapply")
  /\ UNCHANGED <<workloads, reconciler, call, sidecar, txLock, record, degraded>>

EndCommand ==
  /\ command.step = "end"
  /\ txLock' = "free" /\ command' = NoCommand
  /\ UNCHANGED <<workloads, reconciler, call, sidecar, files, record, degraded>>

\* wktbox up: the files of the record, the containers, the imports if any.
\* Proxies that no import of the record asks for are left to the next sync.
Up ==
  /\ command.step = "idle"
  /\ files' = record
  /\ alive' = TRUE
  /\ IF record = {} THEN degraded' = FALSE /\ command' = NoCommand
     ELSE Goto("up") /\ degraded' = degraded
  /\ UNCHANGED <<workloads, reconciler, call, loop, subscribed, debounce, txLock,
                 record>>

\* A killed command; what it asked of the sidecar goes on.
CommandDies ==
  /\ command.step # "idle" /\ Fault("crash")
  /\ command' = NoCommand
  /\ txLock' = IF txLock = "command" THEN "free" ELSE txLock
  /\ call' = IF call.by = "command" THEN [call EXCEPT !.by = "nobody"] ELSE call
  /\ UNCHANGED <<namespaces, proxies, routes, reconciler, sidecar, files, record,
                 degraded>>
NobodyReturns ==
  /\ call.by = "nobody" /\ call.step \in {"ok", "error"}
  /\ call' = NoCall
  /\ UNCHANGED <<workloads, reconciler, sidecar, box>>

-----------------------------------------------------------------------------
\* The workloads; a start or an end of one is an event.

Environment ==
  /\ \/ \E c \in Workload : (Starting(c) \/ Dying(c)) /\ debounce' = (debounce \/ subscribed)
     \/ \E c \in Target, p \in Port : Binds(c, p) /\ UNCHANGED debounce
     \/ \E h \in held : Frees(h) /\ UNCHANGED debounce
     \/ \E s \in proxies : ProxyExits(s) /\ UNCHANGED debounce
  /\ UNCHANGED <<reconciler, call, alive, loop, subscribed, box>>

Outage ==
  /\ alive /\ Fault("outage") /\ SidecarEnds
  /\ IF call.by = "command" THEN Fails(command.step) ELSE UNCHANGED <<command, degraded>>
  /\ UNCHANGED <<namespaces, files, record>>

Init ==
  /\ WorkloadsInit /\ ReconcilerInit
  /\ alive = TRUE /\ loop = "subscribe" /\ subscribed = FALSE /\ debounce = FALSE
  /\ txLock = "free" /\ files = {} /\ record = {} /\ degraded = FALSE
  /\ command = NoCommand

Loop == Subscribe \/ LoopLocks \/ LoopSync \/ LoopReturns \/ DebounceFires \/ ResyncFires
         \/ LoopNotices
Control == ControlLocks \/ ControlSync \/ ControlReturns \/ NobodyReturns
Working == WriteCandidate \/ ApplyImports \/ ApplyReturns \/ Commit \/ Undo \/ EndCommand
Asking == Up \/ \E m \in Import : ImportPorts(m) \/ RemovePortMappings(m)

Next ==
  \/ Reconcile \/ Finish \/ Loop \/ Control \/ Working \/ Asking
  \/ StreamEnds \/ CommandDies \/ Environment \/ Outage

Spec == Init /\ [][Next]_vars

\* The sidecar goes on by itself, and so do a command that runs and a sync that
\* was asked for and has the lock.  The loop and the command poll the transaction
\* lock every 50 ms and find it free again and again; the sidecar's mutex is
\* fair; its select serves the debounce timer or the 30 s ticker.
FairSpec ==
  /\ Spec
  /\ WF_vars(Reconcile) /\ WF_vars(Finish)
  /\ WF_vars(Subscribe) /\ SF_vars(LoopLocks) /\ SF_vars(LoopSync)
  /\ WF_vars(LoopReturns)
  /\ WF_vars(DebounceFires \/ ResyncFires)
  /\ SF_vars(ControlSync) /\ WF_vars(ControlReturns) /\ WF_vars(NobodyReturns)
  /\ SF_vars(WriteCandidate) /\ SF_vars(ApplyImports)
  /\ WF_vars(ApplyReturns \/ Commit \/ Undo \/ EndCommand)

-----------------------------------------------------------------------------
TypeOK ==
  /\ WorkloadsType /\ ReconcilerType
  /\ alive \in BOOLEAN /\ loop \in Loops
  /\ subscribed \in BOOLEAN /\ debounce \in BOOLEAN
  /\ txLock \in {"free", "loop", "control", "command"}
  /\ files \subseteq Import /\ record \subseteq Import
  /\ degraded \in BOOLEAN /\ command \in Commands

Entries == {active[k] : k \in DOMAIN active}

\* The sidecar never loses a proxy that a workload can still reach: it is an
\* entry, or was started by the call in progress (imports.go Apply).
OwnedProxies ==
  \A s \in proxies : Alive(s) => s \in Entries \cup call.started

\* A port command that ends, and has not marked the box degraded, leaves only
\* proxies for what ports.json says: a refused or failed import or removal
\* leaves nothing of its candidate (ports.go rollbackPortMappings).
RefusedLeavesNothing ==
  [][command.step = "end" /\ command'.step = "idle" /\ command' # command
       /\ ~degraded /\ alive =>
       \A s \in proxies : Alive(s) => s.map \in files]_vars

\* A workload is stopped only for a port that a process of its own held when it
\* was probed, never for one of the sidecar's proxies (imports.go Apply).
OnlyOwnersStopped ==
  [][call.step = "probe" /\ call'.step = "stop" =>
       \A s \in call'.victim : <<s.cont, s.map.port>> \in held]_vars

\* When Apply succeeds, every import of a workload it saw and that still runs
\* has an entry, and no import that has an entry has a warning.
AppliedExplained ==
  [][call.step = "start" /\ call'.step = "ok" =>
       /\ \A s \in call.specs :
            s.cont \in Workload /\ Alive(s) => Key(s) \in DOMAIN active'
       /\ \A w \in warnings' : <<w.cont, w.name>> \notin DOMAIN active']_vars

\* Once no more commands are given, the last one ends, and the workloads end up
\* with a proxy for every import and with no other, unless the sidecar has ended
\* (daemon.go consume; the lock and the mutex are taken in one order).
Served ==
  /\ \A c \in running \cap Workload, m \in files :
       [cont |-> c, pid |-> starts[c], map |-> m] \in proxies
  /\ \A s \in proxies : Alive(s) => s.map \in files
Converges ==
  <>[][~Asking]_vars => <>[](command.step = "idle" /\ (alive => Served))

\* The Webtop ports end up with a route for every published port that nothing
\* else holds, and for no other (reconciler.go Apply).
RoutesConverge ==
  <>[](alive => /\ routes \subseteq Desired
                /\ \A p \in Desired : Taken(Desktop, p))

-----------------------------------------------------------------------------
\* What documents and tests say, and the code does not do.

\* The parent owns and terminates children when containers stop.
ChildrenTerminated == call.step = "ok" => proxies \subseteq Entries

\* There is one child per container and mapping name, and a replaced import
\* closes the old one.
OneChildPerKey ==
  call.step = "idle" =>
    \A s, t \in proxies : Alive(s) /\ Alive(t) /\ Key(s) = Key(t) => s = t

\* An import is missing in Webtop only where its port is in use there, and a
\* warning then says so.
DesktopKeepsOthers ==
  call.step = "ok" =>
    \A m \in files :
      \/ [cont |-> Desktop, pid |-> starts[Desktop], map |-> m] \in proxies
      \/ \E w \in warnings : w.cont = Desktop /\ w.name = m.name

\* The statuses retain a proxy restart that failed.
FailuresShown == call.step = "idle" => failures \subseteq NotListening

\* A proxy that exits unexpectedly is restarted: the sidecar goes on.
ExitSurvived == alive
=============================================================================
