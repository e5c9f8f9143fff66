--------------------------- MODULE LoopbackProofs ---------------------------
(***************************************************************************)
(* The sidecar owns every proxy that a workload can reach, stops no        *)
(* workload for a proxy of its own, explains what an Apply left out, and   *)
(* keeps nothing of a port command that was refused: proved for any number *)
(* of workloads, imports, starts and failures.                             *)
(*                                                                         *)
(* What makes it inductive is time: the specs of a call and the entries    *)
(* carry the PID that a container had when they were made, and a container *)
(* that has gone never gets that PID back.                                 *)
(*                                                                         *)
(* Ownership also needs that mappings which meet differ in name and port.  *)
(* ValidateSet says so of one request; that it is so over time, while a    *)
(* name is asked for again with another port, is Calm: it needs that no    *)
(* command is killed and no snapshot fails (ReplacedImportLost.cfg).       *)
(***************************************************************************)
EXTENDS LoopbackDaemon, TLAPS

\* An entry for a proxy, not the zero value.
Entered(k) == k \in DOMAIN active /\ active[k] # NoProxy

\* The parts of a call fit together.
Called ==
  /\ call.todo \subseteq call.specs /\ call.started \subseteq call.specs
  /\ call.victim \subseteq call.todo /\ \A s \in call.victim : s.cont # Desktop
  /\ call.step # "stop" => call.victim = {}
  /\ call.step # "start" => call.started = {}
  /\ call.step = "start" =>
       \A s \in call.todo \cup call.started : s.cont \notin call.skipped
  /\ \A s, t \in call.specs : s.cont = t.cont => s.pid = t.pid

\* No PID is of the future, and no entry is newer than the call in progress.
Past ==
  /\ \A s \in proxies \cup call.specs : s.pid <= starts[s.cont]
  /\ \A k \in DOMAIN active : Entered(k) =>
       /\ active[k].pid <= starts[active[k].cont]
       /\ \A t \in call.specs : t.cont = active[k].cont => active[k].pid <= t.pid
Keyed == \A k \in DOMAIN active : Entered(k) => Key(active[k]) = k

\* A workload that is skipped has gone, and a warning is for what is skipped.
Explained ==
  /\ \A s \in call.specs :
       s.cont \in call.skipped /\ s.cont \in Workload => ~Alive(s)
  /\ \A w \in warnings, s \in call.specs :
       Key(s) = <<w.cont, w.name>> /\ call.step \in {"probe", "stop", "start"} =>
         \/ s.cont \in call.skipped
         \/ call.step # "start" /\ s \in call.todo

Reconciling == Called /\ Past /\ Keyed /\ Explained

\* Who asked for the call in progress waits for it, and holds the lock.
Asked ==
  /\ call.step = "idle" => call = NoCall
  /\ call.by = "command" => command.step \in {"apply", "reapply", "up"}
  /\ call.by \in {"loop", "control"} => txLock = call.by
  /\ command.step \in {"apply", "reapply", "commit", "undo", "end"} => txLock = "command"

EntriesAsked == \A k \in DOMAIN active : Entered(k) => active[k].map \in files
\* What a port command was told is still so when it ends.
Answered ==
  /\ call.by = "command" /\ command.step \in {"apply", "reapply"} =>
       /\ \A s \in call.specs : s.map \in files
       /\ call.step = "ok" => EntriesAsked
  /\ command.step = "commit" \/ (command.step = "end" /\ ~degraded) =>
       call = NoCall /\ EntriesAsked

Core == TypeOK /\ Reconciling /\ Asked /\ Answered

-----------------------------------------------------------------------------
\* Types.

LEMMA FaultsType ==
  ASSUME TypeOK, NEW k, NoFault \/ Fault(k)
  PROVE  faults' \in 0 .. MaxFaults
BY WorkloadAssumption DEF TypeOK, WorkloadsType, NoFault, Fault

\* The specs of what runs are specs of proxies.
LEMMA SpecsType ==
  ASSUME TypeOK, NEW maps \in SUBSET Import
  PROVE  /\ Specs(maps) \subseteq Spec4Proxy
         /\ KeysOf(Specs(maps)) \subseteq Keys
BY DEF TypeOK, WorkloadsType, Specs, Spec4Proxy, KeysOf, Key, Keys

LEMMA KeyType ==
  ASSUME NEW s \in Spec4Proxy
  PROVE  /\ Key(s) \in Keys /\ s.cont \in Target /\ s.map \in Import
         /\ s.pid \in 0 .. MaxStarts /\ s.map.name \in {m.name : m \in Import}
BY DEF Spec4Proxy, Key, Keys

LEMMA NoCallType == NoCall \in Calls
BY DEF NoCall, Calls, Callers

LEMMA EndCallType ==
  ASSUME TypeOK, NEW result \in {"ok", "error"}, EndCall(result)
  PROVE  /\ call' \in Calls
         /\ call'.step = result /\ call'.by = call.by /\ call'.specs = call.specs
         /\ call'.todo = {} /\ call'.skipped = {} /\ call'.started = {}
         /\ call'.victim = {}
BY DEF TypeOK, ReconcilerType, EndCall, NoCall, Calls

\* The call after the probe of s.
LEMMA ProbesOnType ==
  ASSUME TypeOK, NEW s, NEW skipped \in SUBSET Target, ProbesOn(s, skipped)
  PROVE  /\ call' \in Calls /\ call'.by = call.by /\ call'.mode = call.mode
         /\ call'.specs = call.specs /\ call'.skipped = skipped
         /\ call'.started = call.started /\ call'.victim = {}
         /\ \/ call'.step = "probe" /\ call'.todo = call.todo \ {s}
            \/ /\ call'.step = "start" /\ call.todo \ {s} = {}
               /\ call'.todo = {t \in call.specs : t.cont \notin skipped}
<1> DEFINE rest == call.todo \ {s}
<1>1. CASE rest # {}
  <2>1. call' = [call EXCEPT !.step = "probe", !.todo = rest,
                             !.skipped = skipped, !.victim = {}]
    BY <1>1 DEF ProbesOn
  <2> QED BY <2>1 DEF TypeOK, ReconcilerType, Calls
<1>2. CASE rest = {}
  <2>1. call' = [call EXCEPT !.step = "start", !.victim = {},
                             !.todo = {t \in call.specs : t.cont \notin skipped},
                             !.skipped = skipped]
    BY <1>2 DEF ProbesOn
  <2> QED BY <1>2, <2>1 DEF TypeOK, ReconcilerType, Calls
<1> QED BY <1>1, <1>2

\* A turn of the first loop, one of the second, a stop and the end of Apply.
LEMMA ProbeTypes ==
  ASSUME TypeOK, NEW s \in Spec4Proxy, Probe(s), UNCHANGED <<sidecar, box>>
  PROVE  TypeOK'
<1>1. s.cont \in Target /\ Key(s) \in Keys /\ s.map.name \in {m.name : m \in Import}
  BY KeyType
<1>2. faults' \in 0 .. MaxFaults BY FaultsType DEF Probe
<1>3. call' \in Calls
  <2>1. ASSUME NEW k \in SUBSET Target, ProbesOn(s, k) PROVE call' \in Calls
    BY <2>1, ProbesOnType
  <2>2. ASSUME EndCall("error") PROVE call' \in Calls BY <2>2, EndCallType
  <2>3. call.skipped \subseteq Target /\ call.skipped \cup {s.cont} \subseteq Target
    BY <1>1 DEF TypeOK, ReconcilerType, Calls
  <2>4. ASSUME call' = [call EXCEPT !.step = "stop", !.victim = {s}]
        PROVE  call' \in Calls
    BY <2>4 DEF TypeOK, ReconcilerType, Calls
  <2> QED BY <2>1, <2>2, <2>3, <2>4 DEF Probe
<1>4. warnings' \subseteq [cont : Target, name : {m.name : m \in Import}, code : Codes]
  <2>1. Unwarned(s) \subseteq warnings BY DEF Unwarned
  <2>2. [cont |-> s.cont, name |-> s.map.name, code |-> "desktop"]
          \in [cont : Target, name : {m.name : m \in Import}, code : Codes]
    BY <1>1 DEF Codes
  <2>3. warnings' \in {warnings, Unwarned(s), Warned(s, "desktop")} BY DEF Probe
  <2> QED BY <2>1, <2>2, <2>3 DEF Warned, TypeOK, ReconcilerType
<1>5. failures' \subseteq Keys BY DEF Probe, TypeOK, ReconcilerType
<1> QED BY <1>2, <1>3, <1>4, <1>5 DEF Probe, TypeOK, ReconcilerType, WorkloadsType,
       namespaces, sidecar, box

LEMMA StopTypes ==
  ASSUME TypeOK, NEW s \in Spec4Proxy, StopConflicting(s), UNCHANGED box,
         UNCHANGED <<alive, loop, subscribed>>, debounce' \in BOOLEAN,
         s.cont # Desktop
  PROVE  TypeOK'
<1>1. s.cont \in Target /\ Key(s) \in Keys /\ s.map.name \in {m.name : m \in Import}
  BY KeyType
<1>2. faults' \in 0 .. MaxFaults BY FaultsType DEF StopConflicting
<1>3. call' \in Calls
  <2>1. call.skipped \cup {s.cont} \subseteq Target
    BY <1>1 DEF TypeOK, ReconcilerType, Calls
  <2> QED BY <2>1, ProbesOnType, EndCallType DEF StopConflicting
<1>4. warnings' \subseteq [cont : Target, name : {m.name : m \in Import}, code : Codes]
  <2>1. Unwarned(s) \subseteq warnings BY DEF Unwarned
  <2>2. [cont |-> s.cont, name |-> s.map.name, code |-> "conflict"]
          \in [cont : Target, name : {m.name : m \in Import}, code : Codes]
    BY <1>1 DEF Codes
  <2>3. warnings' \in {warnings, Warned(s, "conflict")} BY DEF StopConflicting
  <2> QED BY <2>1, <2>2, <2>3 DEF Warned, TypeOK, ReconcilerType
<1>5. failures' \subseteq Keys BY DEF StopConflicting, TypeOK, ReconcilerType
<1>6. /\ starts' = starts /\ running' \subseteq running /\ held' \subseteq held
      /\ Desktop \in running => Desktop \in running'
  BY DEF StopConflicting, Gone, namespaces
<1> QED BY <1>2, <1>3, <1>4, <1>5, <1>6 DEF StopConflicting, TypeOK, ReconcilerType,
       WorkloadsType, box

LEMMA StartTypes ==
  ASSUME TypeOK, NEW s \in Spec4Proxy, Start(s), UNCHANGED <<sidecar, box>>
  PROVE  TypeOK'
<1>1. Key(s) \in Keys BY KeyType
<1>2. faults' \in 0 .. MaxFaults BY FaultsType DEF Start
<1>3. call' \in Calls
  <2>1. ASSUME call' = [call EXCEPT !.todo = @ \ {s}] PROVE call' \in Calls
    BY <2>1 DEF TypeOK, ReconcilerType, Calls
  <2>2. ASSUME call' = [call EXCEPT !.todo = @ \ {s}, !.started = @ \cup {s}]
        PROVE  call' \in Calls
    BY <2>2 DEF TypeOK, ReconcilerType, Calls
  <2>3. ASSUME EndCall("error") PROVE call' \in Calls BY <2>3, EndCallType
  <2> QED BY <2>1, <2>2, <2>3 DEF Start
<1>4. KeysOf(call.started) \subseteq Keys
  <2>1. call.started \subseteq Spec4Proxy BY DEF TypeOK, ReconcilerType, Calls
  <2> QED BY <2>1, KeyType DEF KeysOf
<1>5. failures' \subseteq Keys
  BY <1>1, <1>4 DEF Start, TypeOK, ReconcilerType
<1>6. proxies' \subseteq Spec4Proxy BY DEF Start, TypeOK, WorkloadsType
<1> QED BY <1>2, <1>3, <1>5, <1>6 DEF Start, TypeOK, ReconcilerType, WorkloadsType,
       namespaces, sidecar, box

\* The entries after Apply: one for every key of a spec it did not skip.
Wanted == {s \in call.specs : s.cont \notin call.skipped}
Chosen(k) == CHOOSE s \in Wanted : Key(s) = k

LEMMA Chooses ==
  ASSUME NEW k \in KeysOf(Wanted)
  PROVE  Chosen(k) \in Wanted /\ Key(Chosen(k)) = k
BY DEF KeysOf, Chosen

LEMMA Swapped ==
  ASSUME Swap
  PROVE  /\ DOMAIN active' = KeysOf(Wanted)
         /\ \A k \in KeysOf(Wanted) : active'[k] = NextEntry(Chosen(k))
         /\ proxies' = proxies \ {active[k] : k \in DOMAIN active \ KeysOf(Wanted)}
         /\ EndCall("ok")
         /\ UNCHANGED <<namespaces, routes, warnings, failures, faults>>
BY DEF Swap, Wanted, Chosen

\* An entry after Apply is for a proxy that runs, or that this call started.
LEMMA NextEntries ==
  ASSUME NEW s
  PROVE  \/ NextEntry(s) = NoProxy
         \/ NextEntry(s) = s /\ (Serving(s) \/ s \in call.started)
BY DEF NextEntry, Serving

LEMMA SwapTypes ==
  ASSUME TypeOK, Swap, UNCHANGED <<sidecar, box>>
  PROVE  TypeOK'
<1>1. Wanted \subseteq Spec4Proxy BY DEF TypeOK, ReconcilerType, Calls, Wanted
<1>2. DOMAIN active' \subseteq Keys
  <2>1. KeysOf(Wanted) \subseteq Keys BY <1>1, KeyType DEF KeysOf
  <2> QED BY <2>1, Swapped
<1>3. \A k \in DOMAIN active' : active'[k] \in Spec4Proxy \cup {NoProxy}
  <2>1. TAKE k \in DOMAIN active'
  <2>2. Chosen(k) \in Spec4Proxy BY <1>1, Swapped, Chooses
  <2>3. active'[k] = NextEntry(Chosen(k)) BY Swapped
  <2> QED BY <2>2, <2>3, NextEntries
<1>4. call' \in Calls BY Swapped, EndCallType
<1> QED BY <1>2, <1>3, <1>4, Swapped DEF TypeOK, ReconcilerType, WorkloadsType,
       namespaces, sidecar, box

\* What a Begin leaves: the entries of proxies that run.
LEMMA Begun ==
  ASSUME TypeOK, NEW by \in Callers, NEW mode \in {"event", "transaction"},
         NEW maps \in SUBSET Import, Begin(by, mode, maps)
  PROVE  /\ call' \in Calls
         /\ call'.step \in {"probe", "start"} /\ call'.by = by
         /\ call'.step = "start" => call'.specs = {}
         /\ call'.todo = call'.specs
         /\ \A s \in call'.specs :
              s.cont \in running /\ s.pid = starts[s.cont] /\ s.map \in maps
         /\ call'.skipped = {} /\ call'.started = {} /\ call'.victim = {}
         /\ DOMAIN active' = {k \in DOMAIN active : active[k] \in proxies}
         /\ DOMAIN active' \subseteq DOMAIN active
         /\ \A k \in DOMAIN active' : active'[k] = active[k]
         /\ warnings' \subseteq warnings /\ failures' \subseteq failures
<1>1. call' = [NoCall EXCEPT !.step = IF Specs(maps) = {} THEN "start" ELSE "probe",
                             !.by = by, !.mode = mode,
                             !.specs = Specs(maps), !.todo = Specs(maps)]
  BY DEF Begin
<1>2. Specs(maps) \subseteq Spec4Proxy BY SpecsType
<1>3. call' \in Calls BY <1>1, <1>2 DEF NoCall, Calls
<1>4. /\ call'.specs = Specs(maps) /\ call'.todo = Specs(maps)
      /\ call'.step = "start" => Specs(maps) = {}
  BY <1>1 DEF NoCall
<1>5. \A s \in Specs(maps) :
        s.cont \in running /\ s.pid = starts[s.cont] /\ s.map \in maps
  BY DEF Specs
<1> QED BY <1>1, <1>3, <1>4, <1>5 DEF Begin, NoCall

LEMMA BeginFailed ==
  ASSUME NEW by \in Callers, BeginFails(by)
  PROVE  /\ call' \in Calls /\ call'.step = "error" /\ call'.by = by
         /\ call'.specs = {} /\ call'.todo = {} /\ call'.skipped = {}
         /\ call'.started = {} /\ call'.victim = {}
         /\ UNCHANGED reconciler
<1>1. call' = [NoCall EXCEPT !.step = "error", !.by = by] BY DEF BeginFails
<1> QED BY <1>1 DEF BeginFails, NoCall, Calls

LEMMA RoutesType ==
  ASSUME TypeOK
  PROVE  RoutesFor(Desired) \subseteq Port
BY DEF TypeOK, WorkloadsType, RoutesFor, Desired, Port

LEMMA EndedType ==
  ASSUME TypeOK, SidecarEnds
  PROVE  /\ ReconcilerType' /\ proxies' = {} /\ routes' = {}
         /\ alive' = FALSE /\ loop' \in Loops /\ subscribed' = FALSE /\ debounce' = FALSE
         /\ call' = NoCall /\ warnings' = {} /\ DOMAIN active' = {}
         /\ txLock' \in {"free", "loop", "control", "command"}
         /\ txLock' = IF txLock \in {"loop", "control"} THEN "free" ELSE txLock
BY NoCallType DEF TypeOK, SidecarEnds, ReconcilerType, Loops

LEMMA SyncTypes ==
  ASSUME TypeOK, NEW by \in Callers, NEW mode \in {"event", "transaction"},
         Sync(by, mode)
  PROVE  /\ WorkloadsType' /\ ReconcilerType' /\ alive' \in BOOLEAN /\ loop' \in Loops
         /\ subscribed' \in BOOLEAN /\ debounce' \in BOOLEAN
         /\ txLock' \in {"free", "loop", "control", "command"}
<1>1. CASE /\ NoFault /\ Begin(by, mode, files) /\ routes' = RoutesFor(Desired)
           /\ UNCHANGED <<namespaces, proxies, sidecar, txLock>>
  <2>1. files \in SUBSET Import BY DEF TypeOK
  <2>2. ReconcilerType'
    <3>1. /\ call' \in Calls /\ warnings' \subseteq warnings /\ failures' \subseteq failures
          /\ DOMAIN active' \subseteq DOMAIN active
          /\ \A k \in DOMAIN active' : active'[k] = active[k]
      BY <1>1, <2>1, Begun
    <3>2. \A k \in DOMAIN active' : active'[k] \in Spec4Proxy \cup {NoProxy}
      BY <3>1 DEF TypeOK, ReconcilerType
    <3> QED BY <3>1, <3>2 DEF TypeOK, ReconcilerType
  <2>3. faults' \in 0 .. MaxFaults BY <1>1, FaultsType
  <2> QED BY <1>1, <2>2, <2>3, RoutesType DEF TypeOK, WorkloadsType, namespaces, sidecar
<1>2. CASE /\ BeginFails(by) /\ routes' \in {routes, RoutesFor(Desired)}
           /\ UNCHANGED <<namespaces, proxies, sidecar, txLock>>
  <2>1. faults' \in 0 .. MaxFaults BY <1>2, FaultsType DEF BeginFails
  <2> QED BY <1>2, <2>1, BeginFailed, RoutesType
       DEF TypeOK, WorkloadsType, ReconcilerType, namespaces, sidecar, reconciler
<1>3. CASE NoFault /\ SidecarEnds /\ UNCHANGED namespaces
  <2>1. faults' \in 0 .. MaxFaults BY <1>3, FaultsType
  <2> QED BY <1>3, <2>1, EndedType DEF TypeOK, WorkloadsType, namespaces
<1> QED BY <1>1, <1>2, <1>3 DEF Sync

-----------------------------------------------------------------------------
\* Types of the steps of Next.

LEMMA ReconcileTypes ==
  ASSUME TypeOK, Called, Reconcile
  PROVE  TypeOK'
<1>1. PICK s \in Spec4Proxy : Probe(s) \/ StopConflicting(s) \/ Start(s)
  BY DEF Reconcile
<1>2. /\ UNCHANGED <<alive, loop, subscribed, box>>
      /\ debounce' = (debounce \/ (subscribed /\ running' # running))
  BY DEF Reconcile
<1>3. CASE Probe(s)
  <2>1. UNCHANGED running BY <1>3 DEF Probe, namespaces
  <2>2. debounce' = debounce BY <1>2, <2>1 DEF TypeOK
  <2> QED BY <1>2, <1>3, <2>2, ProbeTypes DEF sidecar
<1>4. CASE StopConflicting(s)
  <2>1. s.cont # Desktop BY <1>4 DEF StopConflicting, Called
  <2>2. debounce' \in BOOLEAN BY <1>2
  <2> QED BY <1>2, <1>4, <2>1, <2>2, StopTypes
<1>5. CASE Start(s)
  <2>1. UNCHANGED running BY <1>5 DEF Start, namespaces
  <2>2. debounce' = debounce BY <1>2, <2>1 DEF TypeOK
  <2> QED BY <1>2, <1>5, <2>2, StartTypes DEF sidecar
<1> QED BY <1>1, <1>3, <1>4, <1>5

LEMMA SyncingTypes ==
  ASSUME TypeOK, LoopSync \/ ControlSync
  PROVE  TypeOK'
<1>1. ASSUME NEW by \in {"loop", "control"}, Sync(by, "event"),
             UNCHANGED <<files, record, degraded, command>>
      PROVE  TypeOK'
  <2>1. /\ WorkloadsType' /\ ReconcilerType' /\ alive' \in BOOLEAN /\ loop' \in Loops
        /\ subscribed' \in BOOLEAN /\ debounce' \in BOOLEAN
        /\ txLock' \in {"free", "loop", "control", "command"}
    BY <1>1, SyncTypes DEF Callers
  <2> QED BY <1>1, <2>1 DEF TypeOK
<1> QED BY <1>1 DEF LoopSync, ControlSync

\* What a port command goes on with.
LEMMA Goes ==
  ASSUME TypeOK, NEW step \in {"write", "apply", "undo", "reapply", "commit", "end", "up", "idle"},
         Goto(step)
  PROVE  /\ command' \in Commands /\ command'.step = step
         /\ command'.cand = command.cand /\ command'.snap = command.snap
BY DEF TypeOK, Goto, Commands

LEMMA Ends ==
  ASSUME TypeOK, NEW step \in {"apply", "reapply", "up"}, Fails(step) \/ Succeeds(step)
  PROVE  /\ command' \in Commands /\ degraded' \in BOOLEAN
         /\ step = "apply" => command'.step \in {"undo", "commit"} /\ degraded' = degraded
         /\ step = "reapply" => command'.step = "end"
         /\ step = "reapply" /\ Fails(step) => degraded' = TRUE
         /\ step = "up" => command'.step = "idle"
         /\ command'.step = "commit" => Succeeds(step)
<1>1. ASSUME Fails(step)
      PROVE  /\ Goto(AfterFailure[step]) /\ degraded' = (degraded \/ step = "reapply")
             /\ AfterFailure[step] = IF step = "apply" THEN "undo"
                                     ELSE IF step = "reapply" THEN "end" ELSE "idle"
  BY <1>1 DEF Fails, AfterFailure
<1>2. ASSUME Succeeds(step)
      PROVE  /\ Goto(AfterSuccess[step]) /\ degraded' = (degraded /\ step # "up")
             /\ AfterSuccess[step] = IF step = "apply" THEN "commit"
                                     ELSE IF step = "reapply" THEN "end" ELSE "idle"
  BY <1>2 DEF Succeeds, AfterSuccess
<1>3. degraded \in BOOLEAN BY DEF TypeOK
<1> QED BY <1>1, <1>2, <1>3, Goes

\* The steps of the loop and of the control socket that only turn a page.
LEMMA LoopTypes ==
  ASSUME TypeOK, \/ Subscribe \/ LoopReturns \/ DebounceFires \/ ResyncFires \/ LoopNotices
                 \/ ControlReturns \/ NobodyReturns \/ StreamEnds
                 \/ LoopLocks \/ ControlLocks
  PROVE  TypeOK'
<1>1. ASSUME UNCHANGED <<workloads, reconciler, alive, box>>, call' \in Calls,
             loop' \in Loops, subscribed' \in BOOLEAN, debounce' \in BOOLEAN
      PROVE  TypeOK'
  BY <1>1 DEF TypeOK, WorkloadsType, ReconcilerType, workloads, namespaces,
              reconciler, box
<1>2. call \in Calls /\ NoCall \in Calls BY NoCallType DEF TypeOK, ReconcilerType
<1>3. CASE Subscribe BY <1>1, <1>2, <1>3 DEF Subscribe, Loops
<1>4. CASE LoopReturns
  <2>1. loop' \in Loops /\ subscribed' \in BOOLEAN /\ debounce' \in BOOLEAN /\ call' \in Calls
    BY <1>2, <1>4 DEF LoopReturns, Loops, TypeOK
  <2> QED BY <1>4, <2>1 DEF LoopReturns, TypeOK, WorkloadsType, ReconcilerType, workloads,
             namespaces, reconciler
<1>5. CASE DebounceFires BY <1>1, <1>2, <1>5 DEF DebounceFires, Loops, TypeOK
<1>6. CASE ResyncFires BY <1>1, <1>2, <1>6 DEF ResyncFires, Loops, TypeOK
<1>7. CASE LoopNotices BY <1>1, <1>2, <1>7 DEF LoopNotices, Loops, TypeOK
<1>8. CASE ControlReturns
  BY <1>2, <1>8 DEF ControlReturns, TypeOK, WorkloadsType, ReconcilerType, workloads,
     namespaces, reconciler, sidecar
<1>9. CASE NobodyReturns
  BY <1>1, <1>2, <1>9 DEF NobodyReturns, TypeOK, sidecar
<1>10. CASE StreamEnds
  <2>1. faults' \in 0 .. MaxFaults BY <1>10, FaultsType DEF StreamEnds
  <2> QED BY <1>10, <2>1 DEF StreamEnds, TypeOK, WorkloadsType, ReconcilerType,
             namespaces, reconciler, box
<1>11. CASE LoopLocks \/ ControlLocks
  BY <1>11 DEF LoopLocks, ControlLocks, TypeOK, WorkloadsType, ReconcilerType, workloads,
     namespaces, reconciler, sidecar
<1> QED BY <1>3, <1>4, <1>5, <1>6, <1>7, <1>8, <1>9, <1>10, <1>11

\* The steps of a port command, and of up.
LEMMA CommandTypes ==
  ASSUME TypeOK, \/ \E m \in Import : ImportPorts(m) \/ RemovePortMappings(m)
                 \/ WriteCandidate \/ Undo \/ EndCommand \/ Up
  PROVE  TypeOK'
<1>1. ASSUME UNCHANGED <<workloads, reconciler, call, loop, subscribed, debounce>>,
             alive' \in BOOLEAN, txLock' \in {"free", "loop", "control", "command"},
             files' \subseteq Import, record' = record, degraded' \in BOOLEAN,
             command' \in Commands
      PROVE  TypeOK'
  BY <1>1 DEF TypeOK, WorkloadsType, ReconcilerType, workloads, namespaces, reconciler
<1>2. /\ command.cand \subseteq Import /\ command.snap \subseteq Import
      /\ NoCommand \in Commands
  BY DEF TypeOK, Commands, NoCommand
<1>3. ASSUME NEW m \in Import, ImportPorts(m) PROVE TypeOK'
  <2>1. command' \in Commands BY <1>3 DEF ImportPorts, Commands, TypeOK
  <2> QED BY <1>1, <1>3, <2>1 DEF ImportPorts, TypeOK, sidecar
<1>4. ASSUME NEW m \in Import, RemovePortMappings(m) PROVE TypeOK'
  <2>1. command' \in Commands BY <1>4 DEF RemovePortMappings, Commands, TypeOK
  <2> QED BY <1>1, <1>4, <2>1 DEF RemovePortMappings, TypeOK, sidecar
<1>5. CASE WriteCandidate
  <2>1. command' \in Commands BY <1>5 DEF WriteCandidate, Commands, TypeOK
  <2> QED BY <1>1, <1>2, <1>5, <2>1 DEF WriteCandidate, TypeOK, sidecar
<1>6. CASE Undo
  <2>1. command' \in Commands BY <1>6, Goes DEF Undo
  <2> QED BY <1>1, <1>2, <1>6, <2>1 DEF Undo, TypeOK, sidecar
<1>7. CASE EndCommand
  BY <1>1, <1>2, <1>7 DEF EndCommand, TypeOK, sidecar
<1>8. CASE Up
  <2>1. command' \in Commands /\ degraded' \in BOOLEAN
    BY <1>2, <1>8, Goes DEF Up, TypeOK
  <2> QED BY <1>1, <1>8, <2>1 DEF Up, TypeOK
<1> QED BY <1>3, <1>4, <1>5, <1>6, <1>7, <1>8

LEMMA CommitTypes ==
  ASSUME TypeOK, Commit
  PROVE  TypeOK'
<1>1. command' \in Commands /\ record' \subseteq Import
  BY Goes DEF Commit, TypeOK, Commands
<1>2. faults' \in 0 .. MaxFaults BY FaultsType DEF Commit
<1> QED BY <1>1, <1>2 DEF Commit, TypeOK, WorkloadsType, ReconcilerType, namespaces,
       reconciler, sidecar

LEMMA ApplyTypes ==
  ASSUME TypeOK, Asked, ApplyImports \/ ApplyReturns
  PROVE  TypeOK'
<1>1. CASE ApplyReturns
  <2>1. command.step \in {"apply", "reapply", "up"} BY <1>1 DEF ApplyReturns, Asked
  <2>2. command' \in Commands /\ degraded' \in BOOLEAN
    BY <1>1, <2>1, Ends DEF ApplyReturns
  <2> QED BY <1>1, <2>2, NoCallType DEF ApplyReturns, TypeOK, WorkloadsType,
         ReconcilerType, workloads, namespaces, reconciler, sidecar
<1>2. CASE ApplyImports
  <2>1. command.step \in {"apply", "reapply", "up"} /\ UNCHANGED <<files, record>>
    BY <1>2 DEF ApplyImports
  <2>2. command' \in Commands /\ degraded' \in BOOLEAN
    BY <1>2, <2>1, Ends DEF ApplyImports, TypeOK
  <2>3. /\ WorkloadsType' /\ ReconcilerType' /\ alive' \in BOOLEAN /\ loop' \in Loops
        /\ subscribed' \in BOOLEAN /\ debounce' \in BOOLEAN
        /\ txLock' \in {"free", "loop", "control", "command"}
    <3>1. CASE Sync("command", "transaction") BY <3>1, SyncTypes DEF Callers
    <3>2. CASE UNCHANGED <<workloads, reconciler, call, sidecar, txLock>>
      BY <3>2 DEF TypeOK, WorkloadsType, ReconcilerType, workloads, namespaces,
                  reconciler, sidecar
    <3> QED BY <1>2, <3>1, <3>2 DEF ApplyImports
  <2> QED BY <2>1, <2>2, <2>3 DEF TypeOK
<1> QED BY <1>1, <1>2

LEMMA DeathTypes ==
  ASSUME TypeOK, Asked, CommandDies \/ Outage
  PROVE  TypeOK'
<1>1. faults' \in 0 .. MaxFaults BY FaultsType DEF CommandDies, Outage
<1>2. CASE CommandDies
  <2>1. call' \in Calls
    <3>1. [call EXCEPT !.by = "nobody"] \in Calls
      BY DEF TypeOK, ReconcilerType, Calls, Callers
    <3> QED BY <1>2, <3>1 DEF CommandDies, TypeOK, ReconcilerType
  <2>2. command' \in Commands BY <1>2 DEF CommandDies, NoCommand, Commands
  <2> QED BY <1>1, <1>2, <2>1, <2>2 DEF CommandDies, TypeOK, WorkloadsType,
         ReconcilerType, namespaces, reconciler, sidecar
<1>3. CASE Outage
  <2>1. command' \in Commands /\ degraded' \in BOOLEAN
    <3>1. CASE call.by = "command" BY <1>3, <3>1, Ends DEF Outage, Asked
    <3>2. CASE call.by # "command" BY <1>3, <3>2 DEF Outage, TypeOK
    <3> QED BY <3>1, <3>2
  <2> QED BY <1>1, <1>3, <2>1, EndedType DEF Outage, TypeOK, WorkloadsType, namespaces
<1> QED BY <1>2, <1>3

\* What the workloads do by themselves.
LEMMA WorldTypes ==
  ASSUME TypeOK,
         \/ \E c \in Workload : Starting(c) \/ Dying(c)
         \/ \E c \in Target, p \in Port : Binds(c, p)
         \/ \E h \in held : Frees(h)
         \/ \E s \in proxies : ProxyExits(s)
  PROVE  WorkloadsType'
<1> USE DEF TypeOK, WorkloadsType
<1>0. UNCHANGED faults => faults' \in 0 .. MaxFaults OBVIOUS
<1>1. ASSUME NEW c \in Workload, Starting(c) PROVE WorkloadsType'
  <2>1. c \in Target /\ starts[c] \in 0 .. MaxStarts /\ starts[c] < MaxStarts
    BY <1>1 DEF Starting, Target
  <2>2. starts[c] + 1 \in 0 .. MaxStarts BY <2>1, WorkloadAssumption
  <2> QED BY <1>0, <1>1, <2>1, <2>2 DEF Starting
<1>2. ASSUME NEW c \in Workload, Dying(c) PROVE WorkloadsType'
  <2>1. c # Desktop BY WorkloadAssumption
  <2> QED BY <1>0, <1>2, <2>1 DEF Dying, Gone
<1>3. ASSUME NEW c \in Target, NEW p \in Port, Binds(c, p) PROVE WorkloadsType'
  <2>1. faults' \in 0 .. MaxFaults BY <1>3, FaultsType DEF Binds
  <2> QED BY <1>3, <2>1 DEF Binds
<1>4. ASSUME NEW h \in held, Frees(h) PROVE WorkloadsType'
  <2>1. faults' \in 0 .. MaxFaults BY <1>4, FaultsType DEF Frees
  <2> QED BY <1>4, <2>1 DEF Frees
<1>5. ASSUME NEW s \in proxies, ProxyExits(s) PROVE WorkloadsType'
  <2>1. faults' \in 0 .. MaxFaults BY <1>5, FaultsType DEF ProxyExits
  <2> QED BY <1>5, <2>1 DEF ProxyExits, namespaces
<1> QED BY <1>1, <1>2, <1>3, <1>4, <1>5

LEMMA EnvironmentTypes ==
  ASSUME TypeOK, Environment
  PROVE  TypeOK'
<1>1. debounce' \in BOOLEAN BY DEF Environment, TypeOK
<1>2. WorkloadsType' BY WorldTypes DEF Environment
<1> QED BY <1>1, <1>2 DEF Environment, TypeOK, ReconcilerType, reconciler, box

\* A step of the system keeps the types.
LEMMA TypeStep ==
  ASSUME TypeOK, Called, Asked, Next
  PROVE  TypeOK'
<1>1. CASE Finish BY <1>1, SwapTypes DEF Finish
<1>2. CASE Loop BY <1>2, LoopTypes, SyncingTypes DEF Loop
<1>3. CASE Control BY <1>3, LoopTypes, SyncingTypes DEF Control
<1>4. CASE Working BY <1>4, CommandTypes, CommitTypes, ApplyTypes DEF Working
<1>5. CASE Asking BY <1>5, CommandTypes DEF Asking
<1> QED BY <1>1, <1>2, <1>3, <1>4, <1>5, ReconcileTypes, LoopTypes, DeathTypes,
       EnvironmentTypes DEF Next

-----------------------------------------------------------------------------
\* The call, the entries and the warnings.

\* Nothing that these parts speak of changes.
LEMMA SameReconciling ==
  ASSUME Reconciling, UNCHANGED <<starts, running, proxies, active, warnings>>,
         \/ UNCHANGED call
         \/ call' = NoCall
         \/ call' = [call EXCEPT !.by = "nobody"] /\ call \in Calls
  PROVE  Reconciling'
<1> USE DEF Reconciling, Called, Past, Keyed, Explained, Alive, Entered, Key
<1>1. CASE UNCHANGED call BY <1>1
<1>2. CASE call' = NoCall BY <1>2 DEF NoCall
<1>3. CASE call' = [call EXCEPT !.by = "nobody"] /\ call \in Calls
  <2>1. /\ call'.step = call.step /\ call'.specs = call.specs /\ call'.todo = call.todo
        /\ call'.skipped = call.skipped /\ call'.started = call.started
        /\ call'.victim = call.victim
    BY <1>3 DEF Calls
  <2> QED BY <1>3, <2>1
<1> QED BY <1>1, <1>2, <1>3

\* The sidecar ends.
LEMMA EndedReconciling ==
  ASSUME TypeOK, SidecarEnds, UNCHANGED starts
  PROVE  Reconciling'
BY EndedType DEF Reconciling, Called, Past, Keyed, Explained, Entered, NoCall

\* Workloads start and end, processes bind, proxies exit: what has gone stays so.
LEMMA StaysGone ==
  ASSUME TypeOK, Past,
         \/ \E c \in Workload : Starting(c) \/ Dying(c)
         \/ \E c \in Target, p \in Port : Binds(c, p)
         \/ \E h \in held : Frees(h)
         \/ \E s \in proxies : ProxyExits(s)
         \/ UNCHANGED <<starts, running>> /\ proxies' \subseteq proxies
         \/ \E c \in Workload : Gone(c) /\ UNCHANGED proxies
  PROVE  /\ \A c \in Target : starts[c] \in Nat /\ starts'[c] \in Nat /\ starts[c] <= starts'[c]
         /\ proxies' \subseteq proxies
         /\ \A s \in proxies \cup call.specs : ~Alive(s) => ~Alive(s)'
<1>0. /\ starts \in [Target -> 0 .. MaxStarts] /\ MaxStarts \in Nat
      /\ \A s \in proxies \cup call.specs :
            s.cont \in Target /\ s.pid \in Nat /\ s.pid <= starts[s.cont]
  BY WorkloadAssumption DEF TypeOK, WorkloadsType, ReconcilerType, Calls, Spec4Proxy, Past
<1>1. ASSUME UNCHANGED starts, running' \subseteq running, proxies' \subseteq proxies
      PROVE  /\ \A c \in Target : starts[c] \in Nat /\ starts'[c] \in Nat /\ starts[c] <= starts'[c]
             /\ proxies' \subseteq proxies
             /\ \A s \in proxies \cup call.specs : ~Alive(s) => ~Alive(s)'
  BY <1>0, <1>1 DEF Alive
<1>2. ASSUME NEW c \in Workload, Starting(c)
      PROVE  /\ \A d \in Target : starts[d] \in Nat /\ starts'[d] \in Nat /\ starts[d] <= starts'[d]
             /\ proxies' \subseteq proxies
             /\ \A s \in proxies \cup call.specs : ~Alive(s) => ~Alive(s)'
  <2>1. /\ c \in Target /\ starts' = [starts EXCEPT ![c] = @ + 1]
        /\ running' = running \cup {c} /\ proxies' = proxies
    BY <1>2 DEF Starting, Target
  <2>2. /\ \A d \in Target : starts'[d] = IF d = c THEN starts[d] + 1 ELSE starts[d]
        /\ \A d \in Target : starts[d] \in Nat
    BY <1>0, <2>1
  <2>3. ASSUME NEW s \in proxies \cup call.specs, ~Alive(s) PROVE ~Alive(s)'
    <3>1. CASE s.cont = c
      <4>1. starts'[s.cont] = starts[s.cont] + 1 BY <1>0, <2>2, <3>1
      <4> QED BY <1>0, <2>2, <4>1 DEF Alive
    <3>2. CASE s.cont # c BY <1>0, <2>1, <2>2, <2>3, <3>2 DEF Alive
    <3> QED BY <3>1, <3>2
  <2> QED BY <2>1, <2>2, <2>3
<1> QED BY <1>1, <1>2 DEF Dying, Gone, Binds, Frees, ProxyExits, namespaces

\* Numbers of the parts that carry a PID.
LEMMA Pids ==
  ASSUME TypeOK
  PROVE  /\ \A c \in Target : starts[c] \in Nat
         /\ \A s \in Spec4Proxy : s.pid \in Nat /\ s.cont \in Target
         /\ proxies \subseteq Spec4Proxy /\ call.specs \subseteq Spec4Proxy
         /\ call.todo \subseteq Spec4Proxy /\ call.started \subseteq Spec4Proxy
         /\ \A k \in DOMAIN active : Entered(k) => active[k] \in Spec4Proxy
BY WorkloadAssumption
DEF TypeOK, WorkloadsType, ReconcilerType, Calls, Spec4Proxy, Entered

\* Time passes and proxies exit while the sidecar's own state stays.
LEMMA TimePasses ==
  ASSUME TypeOK, Reconciling, UNCHANGED <<active, warnings, call>>,
         \A c \in Target : starts'[c] \in Nat /\ starts[c] <= starts'[c],
         proxies' \subseteq proxies,
         \A s \in proxies \cup call.specs : ~Alive(s) => ~Alive(s)'
  PROVE  Reconciling'
<1>1. Called' BY DEF Reconciling, Called
<1>2. Past'
  <2>1. ASSUME NEW s \in proxies \cup call.specs PROVE s.pid <= starts'[s.cont]
    <3>1. s.pid <= starts[s.cont] BY DEF Reconciling, Past
    <3>2. s.pid \in Nat /\ s.cont \in Target BY Pids
    <3>3. starts[s.cont] \in Nat /\ starts'[s.cont] \in Nat /\ starts[s.cont] <= starts'[s.cont]
      BY <3>2, Pids
    <3> QED BY <3>1, <3>2, <3>3
  <2>2. ASSUME NEW k \in DOMAIN active, Entered(k)
        PROVE  active[k].pid <= starts'[active[k].cont]
    <3>1. active[k].pid <= starts[active[k].cont] BY <2>2 DEF Reconciling, Past
    <3>2. active[k].pid \in Nat /\ active[k].cont \in Target BY <2>2, Pids
    <3>3. /\ starts[active[k].cont] \in Nat /\ starts'[active[k].cont] \in Nat
          /\ starts[active[k].cont] <= starts'[active[k].cont]
      BY <3>2, Pids
    <3> QED BY <3>1, <3>2, <3>3
  <2> QED BY <2>1, <2>2 DEF Reconciling, Past, Entered
<1>3. Keyed' BY DEF Reconciling, Keyed, Entered, Key
<1>4. Explained' BY DEF Reconciling, Explained, Key
<1> QED BY <1>1, <1>2, <1>3, <1>4 DEF Reconciling

LEMMA EnvironmentReconciling ==
  ASSUME TypeOK, Reconciling, Environment
  PROVE  Reconciling'
BY StaysGone, TimePasses DEF Environment, Reconciling, reconciler

\* Fewer warnings and fewer entries, and a call that begins or has ended.
LEMMA BeginReconciling ==
  ASSUME TypeOK, Reconciling, NEW by \in Callers, NEW mode \in {"event", "transaction"},
         NEW maps \in SUBSET Import,
         Begin(by, mode, maps), UNCHANGED <<starts, running, proxies>>
  PROVE  Reconciling'
<1>1. /\ call'.step \in {"probe", "start"} /\ call'.todo = call'.specs
      /\ call'.skipped = {} /\ call'.started = {} /\ call'.victim = {}
      /\ DOMAIN active' \subseteq DOMAIN active
      /\ \A k \in DOMAIN active' : active'[k] = active[k]
  BY Begun
<1>2. /\ call'.step = "start" => call'.specs = {}
      /\ \A s \in call'.specs : s.cont \in Target /\ s.pid = starts[s.cont]
  <2>1. \A c \in running : c \in Target BY DEF TypeOK, WorkloadsType
  <2> QED BY <2>1, Begun
<1>3. \A k \in DOMAIN active' : Entered(k)' => Entered(k) /\ k \in DOMAIN active
  BY <1>1 DEF Entered
<1>4. Called' BY <1>1, <1>2 DEF Called
<1>5. Past'
  <2>1. \A s \in call'.specs : s.pid <= starts[s.cont] BY <1>2, Pids
  <2>2. ASSUME NEW k \in DOMAIN active', Entered(k)'
        PROVE  /\ active[k].pid <= starts[active[k].cont] /\ active'[k] = active[k]
               /\ \A t \in call'.specs : t.cont = active[k].cont => active[k].pid <= t.pid
    <3>1. active[k].pid <= starts[active[k].cont] /\ active'[k] = active[k]
      BY <1>1, <1>3, <2>2 DEF Reconciling, Past
    <3> QED BY <1>2, <3>1
  <2> QED BY <1>1, <2>1, <2>2 DEF Reconciling, Past
<1>6. Keyed' BY <1>1, <1>3 DEF Reconciling, Keyed, Key
<1>7. Explained' BY <1>1, <1>2 DEF Explained
<1> QED BY <1>4, <1>5, <1>6, <1>7 DEF Reconciling

LEMMA BeginFailedReconciling ==
  ASSUME TypeOK, Reconciling, NEW by \in Callers, BeginFails(by),
         UNCHANGED <<starts, running, proxies>>
  PROVE  Reconciling'
<1>1. /\ call'.step = "error" /\ call'.specs = {} /\ call'.todo = {}
      /\ call'.skipped = {} /\ call'.started = {} /\ call'.victim = {}
      /\ UNCHANGED <<active, warnings>>
  BY BeginFailed DEF reconciler
<1> QED BY <1>1 DEF Reconciling, Called, Past, Keyed, Explained, Entered, Key

LEMMA SyncReconciling ==
  ASSUME TypeOK, Reconciling, NEW by \in Callers, NEW mode \in {"event", "transaction"},
         Sync(by, mode)
  PROVE  Reconciling'
<1>1. files \in SUBSET Import BY DEF TypeOK
<1> QED BY <1>1, BeginReconciling, BeginFailedReconciling, EndedReconciling
     DEF Sync, namespaces

\* A call that ends without a new entry, and with fewer proxies.
LEMMA EndReconciling ==
  ASSUME TypeOK, Reconciling, NEW result \in {"ok", "error"}, EndCall(result),
         UNCHANGED <<starts, running, active, warnings>>, proxies' \subseteq proxies
  PROVE  Reconciling'
<1>1. /\ call'.step = result /\ call'.specs = call.specs
      /\ call'.todo = {} /\ call'.skipped = {} /\ call'.started = {} /\ call'.victim = {}
  BY EndCallType
<1> QED BY <1>1 DEF Reconciling, Called, Past, Keyed, Explained, Entered, Key

\* The next probe, or the starts.
LEMMA ProbesOnReconciling ==
  ASSUME TypeOK, Reconciling, call.step \in {"probe", "stop"},
         NEW s \in call.todo, NEW skipped \in SUBSET Target, ProbesOn(s, skipped),
         UNCHANGED <<starts, active, proxies>>, call.skipped \subseteq skipped,
         \A t \in call.specs : ~Alive(t) => ~Alive(t)',
         \A t \in call.specs :
           t.cont \in skipped \ call.skipped /\ t.cont \in Workload => ~Alive(t)',
         \A w \in warnings' :
           \/ w \in warnings /\ (Key(s) # <<w.cont, w.name>> \/ s.cont \in skipped)
           \/ w.cont \in skipped
  PROVE  Reconciling'
<1>1. /\ call'.specs = call.specs /\ call'.skipped = skipped
      /\ call'.started = call.started /\ call'.victim = {}
      /\ \/ call'.step = "probe" /\ call'.todo = call.todo \ {s}
         \/ /\ call'.step = "start" /\ call.todo \ {s} = {}
            /\ call'.todo = {t \in call.specs : t.cont \notin skipped}
  BY ProbesOnType
<1>2. call.started = {} BY DEF Reconciling, Called
<1>3. Called' BY <1>1, <1>2 DEF Reconciling, Called
<1>4. Past' BY <1>1 DEF Reconciling, Past, Entered
<1>5. Keyed' BY DEF Reconciling, Keyed, Entered, Key
<1>6. Explained'
  <2>1. ASSUME NEW t \in call.specs, t.cont \in skipped, t.cont \in Workload
        PROVE  ~Alive(t)'
    BY <2>1 DEF Reconciling, Explained
  <2>2. ASSUME NEW w \in warnings', NEW t \in call.specs, Key(t) = <<w.cont, w.name>>
        PROVE  t.cont \in skipped \/ (t \in call.todo \ {s})
    <3>1. t.cont = w.cont BY <2>2 DEF Key
    <3>2. CASE w.cont \in skipped BY <3>1, <3>2
    <3>3. CASE w \in warnings /\ (Key(s) # <<w.cont, w.name>> \/ s.cont \in skipped)
      <4>1. t.cont \in call.skipped \/ t \in call.todo
        BY <2>2, <3>3 DEF Reconciling, Explained
      <4>2. CASE t = s BY <2>2, <3>3, <4>2
      <4>3. CASE t # s BY <4>1, <4>3
      <4> QED BY <4>2, <4>3
    <3> QED BY <3>2, <3>3
  <2> QED BY <1>1, <2>1, <2>2 DEF Explained, Key
<1> QED BY <1>3, <1>4, <1>5, <1>6 DEF Reconciling

\* A turn of the first loop.
LEMMA ProbeReconciling ==
  ASSUME TypeOK, Reconciling, NEW s \in Spec4Proxy, Probe(s)
  PROVE  Reconciling'
<1>0. /\ call.step = "probe" /\ s \in call.todo /\ s \in call.specs
      /\ UNCHANGED <<starts, running, proxies, active>>
  BY DEF Probe, Reconciling, Called, namespaces
<1>1. /\ call.skipped \in SUBSET Target /\ call.skipped \cup {s.cont} \in SUBSET Target
      /\ \A t \in call.specs : Alive(t)' = Alive(t)
  BY <1>0, KeyType DEF TypeOK, ReconcilerType, Calls, Alive
<1>2. \A w \in Unwarned(s) : w \in warnings /\ Key(s) # <<w.cont, w.name>>
  BY DEF Unwarned
<1>3. ASSUME ProbesOn(s, call.skipped), warnings' = Unwarned(s) PROVE Reconciling'
  BY <1>0, <1>1, <1>2, <1>3, ProbesOnReconciling
<1>4. ASSUME ~Alive(s), ProbesOn(s, call.skipped \cup {s.cont}), UNCHANGED warnings
      PROVE  Reconciling'
  <2>1. \A t \in call.specs : t.cont = s.cont => ~Alive(t)
    <3>1. \A t \in call.specs : t.cont = s.cont => t.pid = s.pid
      BY <1>0 DEF Reconciling, Called
    <3> QED BY <1>4, <3>1 DEF Alive
  <2> QED BY <1>0, <1>1, <1>4, <2>1, ProbesOnReconciling
<1>5. ASSUME EndCall("error"), UNCHANGED warnings PROVE Reconciling'
  BY <1>0, <1>5, EndReconciling
<1>6. ASSUME s.cont = Desktop, ProbesOn(s, call.skipped \cup {s.cont}),
             warnings' = Warned(s, "desktop")
      PROVE  Reconciling'
  <2>1. \A w \in warnings' : w \in Unwarned(s) \/ w.cont = s.cont
    BY <1>6 DEF Warned
  <2>2. s.cont \notin Workload BY <1>6, WorkloadAssumption
  <2> QED BY <1>0, <1>1, <1>2, <1>6, <2>1, <2>2, ProbesOnReconciling
<1>7. ASSUME ProbesOn(s, call.skipped), s.cont \in call.skipped, UNCHANGED warnings
      PROVE  Reconciling'
  BY <1>0, <1>1, <1>7, ProbesOnReconciling
<1>8. ASSUME call' = [call EXCEPT !.step = "stop", !.victim = {s}], s.cont # Desktop,
             UNCHANGED warnings
      PROVE  Reconciling'
  <2>1. /\ call'.step = "stop" /\ call'.victim = {s} /\ call'.todo = call.todo
        /\ call'.specs = call.specs /\ call'.skipped = call.skipped
        /\ call'.started = call.started
    BY <1>8 DEF TypeOK, ReconcilerType, Calls
  <2> QED BY <1>0, <1>1, <1>8, <2>1
        DEF Reconciling, Called, Past, Keyed, Explained, Entered, Key
<1> QED BY <1>3, <1>4, <1>5, <1>6, <1>7, <1>8 DEF Probe

\* A stop: whatever the container was, it has gone.
LEMMA StopReconciling ==
  ASSUME TypeOK, Reconciling, NEW s \in Spec4Proxy, StopConflicting(s)
  PROVE  Reconciling'
<1>0. /\ call.step = "stop" /\ s \in call.todo /\ s \in call.specs /\ s.cont # Desktop
      /\ UNCHANGED <<starts, proxies, active>>
  BY DEF StopConflicting, Reconciling, Called, Gone, namespaces
<1>1. s.cont \in Workload /\ call.skipped \cup {s.cont} \in SUBSET Target
  BY <1>0, KeyType DEF TypeOK, ReconcilerType, Calls, Target
<1>2. ASSUME ProbesOn(s, call.skipped \cup {s.cont}), warnings' = Warned(s, "conflict"),
             IF s.cont \in running THEN Gone(s.cont) ELSE UNCHANGED namespaces
      PROVE  Reconciling'
  <2>1. running' = running \ {s.cont} BY <1>2 DEF Gone, namespaces
  <2>2. \A t \in call.specs : ~Alive(t) => ~Alive(t)' BY <1>0, <2>1 DEF Alive
  <2>3. \A t \in call.specs : t.cont = s.cont => ~Alive(t)' BY <2>1 DEF Alive
  <2>4. \A w \in warnings' :
           \/ w \in warnings /\ Key(s) # <<w.cont, w.name>>
           \/ w.cont = s.cont
    BY <1>2 DEF Warned, Unwarned
  <2> QED BY <1>0, <1>1, <1>2, <2>2, <2>3, <2>4, ProbesOnReconciling
<1>3. ASSUME EndCall("error"), UNCHANGED <<namespaces, warnings>> PROVE Reconciling'
  BY <1>0, <1>3, EndReconciling DEF namespaces
<1> QED BY <1>2, <1>3 DEF StopConflicting

\* A turn of the second loop.
LEMMA StartReconciling ==
  ASSUME TypeOK, Reconciling, NEW s \in Spec4Proxy, Start(s)
  PROVE  Reconciling'
<1>0. /\ call.step = "start" /\ s \in call.todo /\ s \in call.specs
      /\ s.cont \notin call.skipped /\ call.victim = {}
      /\ UNCHANGED <<starts, running, active, warnings>>
  BY DEF Start, Reconciling, Called, namespaces
<1>1. ASSUME proxies' \subseteq proxies, EndCall("error") PROVE Reconciling'
  BY <1>0, <1>1, EndReconciling
<1>2. ASSUME proxies' \subseteq proxies \cup {s}, call' \in Calls, call'.step = "start",
             call'.todo = call.todo \ {s}, call'.started \subseteq call.started \cup {s},
             call'.specs = call.specs, call'.skipped = call.skipped,
             call'.victim = {}
      PROVE  Reconciling'
  <2>1. Called' BY <1>0, <1>2 DEF Reconciling, Called
  <2>2. Past' BY <1>0, <1>2 DEF Reconciling, Past, Entered
  <2>3. Keyed' BY <1>0 DEF Reconciling, Keyed, Entered, Key
  <2>4. Explained' BY <1>0, <1>2 DEF Reconciling, Explained, Key, Alive
  <2> QED BY <2>1, <2>2, <2>3, <2>4 DEF Reconciling
<1>3. CASE call' = [call EXCEPT !.todo = @ \ {s}] /\ UNCHANGED proxies
  <2>1. /\ call' \in Calls /\ call'.step = "start" /\ call'.todo = call.todo \ {s}
        /\ call'.started = call.started /\ call'.specs = call.specs
        /\ call'.skipped = call.skipped /\ call'.victim = {}
    BY <1>0, <1>3 DEF TypeOK, ReconcilerType, Calls
  <2> QED BY <1>2, <1>3, <2>1
<1>4. CASE /\ call' = [call EXCEPT !.todo = @ \ {s}, !.started = @ \cup {s}]
           /\ proxies' = proxies \cup {s}
  <2>1. /\ call' \in Calls /\ call'.step = "start" /\ call'.todo = call.todo \ {s}
        /\ call'.started = call.started \cup {s} /\ call'.specs = call.specs
        /\ call'.skipped = call.skipped /\ call'.victim = {}
    BY <1>0, <1>4 DEF TypeOK, ReconcilerType, Calls
  <2> QED BY <1>2, <1>4, <2>1
<1> QED BY <1>1, <1>3, <1>4 DEF Start

\* The end of Apply: the new entries are for specs of the call, or as before.
LEMMA SwappedEntries ==
  ASSUME TypeOK, Reconciling, Swap, NEW k \in DOMAIN active', Entered(k)'
  PROVE  /\ active'[k] \in Wanted /\ Key(active'[k]) = k
         /\ active'[k] \in proxies \/ active'[k] \in call.started
<1>1. k \in KeysOf(Wanted) /\ active'[k] = NextEntry(Chosen(k)) BY Swapped
<1>2. active'[k] # NoProxy BY DEF Entered
<1>3. active'[k] = Chosen(k) /\ (Serving(Chosen(k)) \/ Chosen(k) \in call.started)
  BY <1>1, <1>2, NextEntries
<1> QED BY <1>1, <1>3, Chooses DEF Serving

LEMMA SwapReconciling ==
  ASSUME TypeOK, Reconciling, Swap
  PROVE  Reconciling'
<1>1. /\ call'.step = "ok" /\ call'.specs = call.specs
      /\ call'.todo = {} /\ call'.skipped = {} /\ call'.started = {} /\ call'.victim = {}
      /\ UNCHANGED <<starts, running, warnings>> /\ proxies' \subseteq proxies
  BY Swapped, EndCallType DEF namespaces
<1>2. \A k \in DOMAIN active' : Entered(k)' => active'[k] \in Wanted /\ Key(active'[k]) = k
  BY SwappedEntries
<1>3. Wanted \subseteq call.specs BY DEF Wanted
<1>4. Called' BY <1>1 DEF Reconciling, Called
<1>5. Past'
  <2>1. ASSUME NEW k \in DOMAIN active', Entered(k)'
        PROVE  /\ active'[k].pid <= starts'[active'[k].cont]
               /\ \A t \in call'.specs : t.cont = active'[k].cont => active'[k].pid <= t.pid
    <3>1. active'[k] \in call.specs /\ active'[k] \in Spec4Proxy
      BY <1>2, <1>3, <2>1, Pids
    <3>2. active'[k].pid <= starts[active'[k].cont] /\ active'[k].pid \in Nat
      BY <3>1, Pids DEF Reconciling, Past
    <3>3. \A t \in call.specs : t.cont = active'[k].cont => active'[k].pid = t.pid
      BY <3>1 DEF Reconciling, Called
    <3> QED BY <1>1, <3>2, <3>3
  <2> QED BY <1>1, <2>1 DEF Reconciling, Past
<1>6. Keyed' BY <1>2 DEF Keyed, Key
<1>7. Explained' BY <1>1 DEF Explained
<1> QED BY <1>4, <1>5, <1>6, <1>7 DEF Reconciling

\* A step of the system keeps what the reconciler knows.
LEMMA ReconcilingStep ==
  ASSUME TypeOK, Reconciling, Next
  PROVE  Reconciling'
<1>1. call \in Calls BY DEF TypeOK, ReconcilerType
<1>2. CASE Reconcile
  BY <1>2, ProbeReconciling, StopReconciling, StartReconciling DEF Reconcile
<1>3. CASE Finish BY <1>3, SwapReconciling DEF Finish
<1>4. CASE Loop
  BY <1>4, SameReconciling, SyncReconciling
  DEF Loop, Subscribe, LoopLocks, LoopSync, LoopReturns, DebounceFires, ResyncFires, LoopNotices,
      Callers, workloads, namespaces, reconciler
<1>5. CASE Control
  BY <1>5, SameReconciling, SyncReconciling
  DEF Control, ControlLocks, ControlSync, ControlReturns, NobodyReturns, Callers, workloads,
      namespaces, reconciler
<1>6. CASE Working
  <2>1. CASE ApplyImports
    BY <2>1, SameReconciling, SyncReconciling
    DEF ApplyImports, Callers, workloads, namespaces, reconciler
  <2> QED BY <1>6, <2>1, SameReconciling
        DEF Working, WriteCandidate, ApplyReturns, Commit, Undo, EndCommand, workloads,
            namespaces, reconciler
<1>7. CASE Asking
  BY <1>7, SameReconciling
  DEF Asking, Up, ImportPorts, RemovePortMappings, workloads, namespaces, reconciler
<1>8. CASE StreamEnds BY <1>8, SameReconciling DEF StreamEnds, namespaces, reconciler
<1>9. CASE CommandDies
  BY <1>1, <1>9, SameReconciling DEF CommandDies, namespaces, reconciler
<1>10. CASE Environment BY <1>10, EnvironmentReconciling
<1>11. CASE Outage BY <1>11, EndedReconciling DEF Outage, namespaces
<1> QED BY <1>2, <1>3, <1>4, <1>5, <1>6, <1>7, <1>8, <1>9, <1>10, <1>11 DEF Next

-----------------------------------------------------------------------------
\* Who waits for the call, and what it answers.

LEMMA NoCallFields ==
  /\ NoCall.step = "idle" /\ NoCall.by = "nobody" /\ NoCall.specs = {}
  /\ NoCall.started = {}
BY DEF NoCall

\* The steps of a call go on for who asked for it.
LEMMA CallGoesOn ==
  ASSUME TypeOK, NEW s \in Spec4Proxy, Probe(s) \/ StopConflicting(s) \/ Start(s)
  PROVE  /\ call.step \notin {"idle", "ok", "error"}
         /\ call'.step \notin {"idle", "ok"}
         /\ call'.by = call.by /\ call'.specs = call.specs /\ active' = active
<1>1. ASSUME NEW k \in SUBSET Target, ProbesOn(s, k)
      PROVE  /\ call'.step \in {"probe", "start"} /\ call'.by = call.by
             /\ call'.specs = call.specs
  BY <1>1, ProbesOnType
<1>2. ASSUME EndCall("error")
      PROVE  call'.step = "error" /\ call'.by = call.by /\ call'.specs = call.specs
  BY <1>2, EndCallType
<1>3. call.skipped \in SUBSET Target /\ call.skipped \cup {s.cont} \in SUBSET Target
  BY KeyType DEF TypeOK, ReconcilerType, Calls
<1>4. CASE Probe(s)
  <2>1. ASSUME call' = [call EXCEPT !.step = "stop", !.victim = {s}]
        PROVE  call'.step = "stop" /\ call'.by = call.by /\ call'.specs = call.specs
    BY <2>1 DEF TypeOK, ReconcilerType, Calls
  <2> QED BY <1>1, <1>2, <1>3, <1>4, <2>1 DEF Probe
<1>5. CASE StopConflicting(s) BY <1>1, <1>2, <1>3, <1>5 DEF StopConflicting
<1>6. CASE Start(s)
  <2>1. ASSUME \/ call' = [call EXCEPT !.todo = @ \ {s}]
               \/ call' = [call EXCEPT !.todo = @ \ {s}, !.started = @ \cup {s}]
        PROVE  call'.step = call.step /\ call'.by = call.by /\ call'.specs = call.specs
    BY <2>1 DEF TypeOK, ReconcilerType, Calls
  <2> QED BY <1>2, <1>6, <2>1 DEF Start
<1> QED BY <1>4, <1>5, <1>6

\* A call begins with no other one in progress, and reads the files as they are.
LEMMA SyncBegins ==
  ASSUME TypeOK, NEW by \in Callers, NEW mode \in {"event", "transaction"},
         Sync(by, mode)
  PROVE  /\ call.step = "idle"
         /\ \/ /\ alive' /\ call'.by = by /\ call'.step \in {"probe", "start", "error"}
               /\ \A s \in call'.specs : s.map \in files
               /\ UNCHANGED txLock
            \/ /\ ~alive' /\ call' = NoCall
               /\ txLock' = IF txLock \in {"loop", "control"} THEN "free" ELSE txLock
<1>2. CASE Begin(by, mode, files) /\ UNCHANGED <<sidecar, txLock>> /\ alive
  <2>1. call.step = "idle" BY <1>2 DEF Begin
  <2>2. /\ call'.by = by /\ call'.step \in {"probe", "start"}
        /\ call'.specs = Specs(files)
    BY <1>2 DEF Begin, NoCall
  <2>3. \A s \in Specs(files) : s.map \in files BY DEF Specs
  <2> QED BY <1>2, <2>1, <2>2, <2>3 DEF sidecar
<1>3. CASE BeginFails(by) /\ UNCHANGED <<sidecar, txLock>> /\ alive
  BY <1>3, BeginFailed DEF BeginFails, sidecar
<1>4. CASE call.step = "idle" /\ SidecarEnds BY <1>4, EndedType
<1> QED BY <1>2, <1>3, <1>4 DEF Sync

LEMMA ReconcileAsked ==
  ASSUME TypeOK, Asked, Answered, Reconcile
  PROVE  Asked' /\ Answered'
<1>1. PICK s \in Spec4Proxy : Probe(s) \/ StopConflicting(s) \/ Start(s)
  BY DEF Reconcile
<1>2. /\ call.step \notin {"idle", "ok", "error"} /\ call'.step \notin {"idle", "ok"}
      /\ call'.by = call.by /\ call'.specs = call.specs /\ active' = active
  BY <1>1, CallGoesOn
<1>3. UNCHANGED <<txLock, files, degraded, command>> BY DEF Reconcile, box
<1>4. call # NoCall BY <1>2, NoCallFields
<1> QED BY <1>2, <1>3, <1>4 DEF Asked, Answered

LEMMA FinishAsked ==
  ASSUME TypeOK, Reconciling, Asked, Answered, Finish
  PROVE  Asked' /\ Answered'
<1>1. /\ call.step = "start" /\ call'.step = "ok"
      /\ call'.by = call.by /\ call'.specs = call.specs
      /\ UNCHANGED <<txLock, files, degraded, command>>
  BY Swapped, EndCallType DEF Finish, Swap, box
<1>2. call # NoCall BY <1>1, NoCallFields
<1>3. \A k \in DOMAIN active' : Entered(k)' => active'[k] \in call.specs
  BY SwappedEntries DEF Finish, Wanted
<1>4. (\A s \in call.specs : s.map \in files) => EntriesAsked'
  BY <1>1, <1>3 DEF EntriesAsked
<1> QED BY <1>1, <1>2, <1>4 DEF Asked, Answered

\* The loop and the control socket begin a call with the lock only, and a port
\* command that has its answer holds it.
LEMMA SyncingAsked ==
  ASSUME TypeOK, Asked, Answered, LoopSync \/ ControlSync
  PROVE  Asked' /\ Answered'
<1>1. PICK by \in {"loop", "control"} :
        /\ Sync(by, "event") /\ txLock = by
        /\ UNCHANGED <<files, degraded, command>>
  BY DEF LoopSync, ControlSync
<1>2. command.step \notin {"apply", "reapply", "commit", "undo", "end"}
  BY <1>1 DEF Asked
<1>3. \/ /\ UNCHANGED txLock /\ call'.by = by
         /\ call'.step \in {"probe", "start", "error"}
      \/ call' = NoCall
  BY <1>1, SyncBegins DEF Callers
<1>4. CASE /\ UNCHANGED txLock /\ call'.by = by
           /\ call'.step \in {"probe", "start", "error"}
  BY <1>1, <1>2, <1>4 DEF Asked, Answered
<1>5. CASE call' = NoCall
  BY <1>1, <1>2, <1>5, NoCallFields DEF Asked, Answered
<1> QED BY <1>3, <1>4, <1>5

\* The lock is taken when no port command has it.
LEMMA LocksAsked ==
  ASSUME TypeOK, Asked, Answered, LoopLocks \/ ControlLocks
  PROVE  Asked' /\ Answered'
<1>1. /\ UNCHANGED <<call, active, files, degraded, command>>
      /\ txLock = "free" /\ txLock' \in {"loop", "control"}
  BY DEF LoopLocks, ControlLocks, reconciler
<1> QED BY <1>1 DEF Asked, Answered, EntriesAsked, Entered

LEMMA ReturnsAsked ==
  ASSUME TypeOK, Asked, Answered, LoopReturns \/ ControlReturns \/ NobodyReturns
  PROVE  Asked' /\ Answered'
<1>1. /\ call.by \in {"loop", "control", "nobody"} /\ call.step \in {"ok", "error"}
      /\ call' = NoCall /\ UNCHANGED <<active, files, degraded, command>>
      /\ txLock' = txLock \/ (call.by \in {"loop", "control"} /\ txLock' = "free")
  BY DEF LoopReturns, ControlReturns, NobodyReturns, reconciler, box
<1>2. command.step \in {"apply", "reapply", "commit", "undo", "end"} => txLock' = txLock
  BY <1>1 DEF Asked
<1> QED BY <1>1, <1>2, NoCallFields DEF Asked, Answered, EntriesAsked, Entered

\* A port command that fails at its apply is undone; at its reapply, it degrades.
LEMMA Fallen ==
  ASSUME TypeOK, NEW step \in {"apply", "reapply", "up"}, Fails(step)
  PROVE  /\ step = "apply" => command'.step = "undo"
         /\ step = "reapply" => command'.step = "end" /\ degraded'
         /\ step = "up" => command'.step = "idle"
<1>1. /\ step = "apply" => AfterFailure[step] = "undo"
      /\ step = "reapply" => AfterFailure[step] = "end"
      /\ step = "up" => AfterFailure[step] = "idle"
  BY DEF AfterFailure
<1>2. Goto(AfterFailure[step]) /\ degraded' = (degraded \/ step = "reapply")
  BY DEF Fails
<1>3. AfterFailure[step] \in {"undo", "end", "idle"} BY <1>1
<1>4. command'.step = AfterFailure[step] BY <1>2, <1>3, Goes
<1> QED BY <1>1, <1>2, <1>4

\* A port command and its answers.
LEMMA ApplyAsked ==
  ASSUME TypeOK, Asked, Answered, ApplyImports
  PROVE  Asked' /\ Answered'
<1>1. /\ command.step \in {"apply", "reapply", "up"} /\ UNCHANGED files
      /\ call.by # "command"
  BY DEF ApplyImports
<1>2. CASE Sync("command", "transaction") /\ alive' /\ UNCHANGED <<degraded, command>>
  <2>1. /\ call'.by = "command" /\ call'.step \in {"probe", "start", "error"}
        /\ \A s \in call'.specs : s.map \in files
        /\ UNCHANGED txLock
    BY <1>2, SyncBegins, NoCallFields DEF Callers
  <2> QED BY <1>1, <1>2, <2>1 DEF Asked, Answered
<1>3. ASSUME Fails(command.step)
      PROVE  /\ command'.step = "end" => degraded'
             /\ command'.step \in {"undo", "end", "idle"}
             /\ command'.step \in {"undo", "end"} => command.step \in {"apply", "reapply"}
  BY <1>1, <1>3, Fallen
<1>4. CASE /\ call' = NoCall /\ Fails(command.step)
           /\ txLock' = IF txLock \in {"loop", "control"} THEN "free" ELSE txLock
  BY <1>1, <1>3, <1>4, NoCallFields DEF Asked, Answered
<1>5. CASE Fails(command.step) /\ UNCHANGED <<call, txLock>>
  BY <1>1, <1>3, <1>5 DEF Asked, Answered
<1> QED BY <1>2, <1>4, <1>5, SyncBegins DEF ApplyImports, Callers

LEMMA ApplyReturnsAsked ==
  ASSUME TypeOK, Asked, Answered, ApplyReturns
  PROVE  Asked' /\ Answered'
<1>1. /\ call.by = "command" /\ call.step \in {"ok", "error"} /\ call' = NoCall
      /\ command.step \in {"apply", "reapply", "up"}
      /\ UNCHANGED <<active, txLock, files>>
  BY DEF ApplyReturns, Asked, reconciler
<1>2. /\ UNCHANGED degraded \/ command.step \in {"reapply", "up"}
      /\ command'.step \in {"undo", "commit"} \/ command.step \in {"reapply", "up"}
      /\ command.step = "reapply" => command'.step = "end"
      /\ command.step = "up" => command'.step = "idle"
  BY <1>1, Ends DEF ApplyReturns
<1>3. ASSUME \/ command'.step = "commit"
             \/ command'.step = "end" /\ ~degraded'
      PROVE  /\ command.step \in {"apply", "reapply"} /\ call.step = "ok"
             /\ EntriesAsked
  <2>1. command.step \in {"apply", "reapply"} BY <1>1, <1>2, <1>3
  <2>2. ASSUME Fails(command.step) PROVE FALSE BY <1>1, <1>3, <2>2, Fallen
  <2>3. call.step = "ok" BY <2>2 DEF ApplyReturns
  <2> QED BY <1>1, <2>1, <2>3 DEF Answered
<1>4. EntriesAsked => EntriesAsked' BY <1>1 DEF EntriesAsked, Entered
<1>5. command'.step \in {"undo", "commit", "end", "idle"} BY <1>1, <1>2
<1>6. command'.step # "idle" => txLock' = "command" BY <1>1, <1>2 DEF Asked
<1> QED BY <1>1, <1>3, <1>4, <1>5, <1>6, NoCallFields DEF Asked, Answered

LEMMA CommandAsked ==
  ASSUME TypeOK, Asked, Answered,
         \/ \E m \in Import : ImportPorts(m) \/ RemovePortMappings(m)
         \/ WriteCandidate \/ Commit \/ Undo \/ EndCommand \/ Up
  PROVE  Asked' /\ Answered'
<1>1. command.step \in {"idle", "write", "commit", "undo", "end"} /\ UNCHANGED <<call, active>>
  BY DEF ImportPorts, RemovePortMappings, WriteCandidate, Commit, Undo, EndCommand, Up,
         reconciler
<1>2. call.by # "command" BY <1>1 DEF Asked
<1>3. ASSUME command'.step \notin {"commit", "end"}, UNCHANGED txLock,
             command'.step \in {"apply", "reapply", "undo"} => txLock = "command"
      PROVE  Asked' /\ Answered'
  BY <1>1, <1>2, <1>3 DEF Asked, Answered
<1>4. CASE \E m \in Import : ImportPorts(m) \/ RemovePortMappings(m)
  <2>1. command'.step = "write" /\ UNCHANGED txLock
    BY <1>4 DEF ImportPorts, RemovePortMappings
  <2> QED BY <1>3, <2>1
<1>5. CASE WriteCandidate
  <2>1. command'.step = "apply" /\ txLock = "free" /\ txLock' = "command"
    BY <1>5 DEF WriteCandidate, TypeOK, Commands
  <2> QED BY <1>1, <1>2, <2>1 DEF Asked, Answered
<1>6. CASE Commit
  <2>1. UNCHANGED <<txLock, files, degraded>> BY <1>6 DEF Commit
  <2>2. command'.step = "end" \/ command'.step = "undo" BY <1>6, Goes DEF Commit
  <2>3. command.step = "commit" BY <1>6 DEF Commit
  <2> QED BY <1>1, <1>2, <2>1, <2>2, <2>3 DEF Asked, Answered, EntriesAsked, Entered
<1>7. CASE Undo
  <2>1. command'.step = "reapply" /\ UNCHANGED txLock /\ command.step = "undo"
    BY <1>7, Goes DEF Undo
  <2> QED BY <1>3, <2>1 DEF Asked
<1>8. CASE EndCommand
  <2>1. command'.step = "idle" /\ txLock' = "free" /\ command.step = "end"
    BY <1>8 DEF EndCommand, NoCommand
  <2>2. txLock = "command" BY <2>1 DEF Asked
  <2> QED BY <1>1, <1>2, <2>1, <2>2 DEF Asked, Answered
<1>9. CASE Up
  <2>1. UNCHANGED txLock /\ command'.step \in {"idle", "up"}
    BY <1>9, Goes DEF Up, NoCommand
  <2> QED BY <1>3, <2>1
<1> QED BY <1>4, <1>5, <1>6, <1>7, <1>8, <1>9

LEMMA DeathAsked ==
  ASSUME TypeOK, Asked, Answered, CommandDies \/ Outage
  PROVE  Asked' /\ Answered'
<1>1. CASE CommandDies
  <2>1. /\ command'.step = "idle" /\ UNCHANGED <<files, degraded>>
        /\ txLock' = IF txLock = "command" THEN "free" ELSE txLock
        /\ call' = IF call.by = "command" THEN [call EXCEPT !.by = "nobody"] ELSE call
    BY <1>1 DEF CommandDies, NoCommand
  <2>2. CASE call.by = "command"
    <3>1. call'.by = "nobody" /\ call'.step = call.step
      BY <2>1, <2>2 DEF TypeOK, ReconcilerType, Calls
    <3>2. call.step # "idle" BY <2>2, NoCallFields DEF Asked
    <3> QED BY <2>1, <3>1, <3>2 DEF Asked, Answered
  <2>3. CASE call.by # "command" BY <2>1, <2>3 DEF Asked, Answered
  <2> QED BY <2>2, <2>3
<1>2. CASE Outage
  <2>1. /\ call' = NoCall /\ DOMAIN active' = {} /\ UNCHANGED files
        /\ txLock' = IF txLock \in {"loop", "control"} THEN "free" ELSE txLock
    BY <1>2, EndedType DEF Outage
  <2>2. EntriesAsked' BY <2>1 DEF EntriesAsked
  <2>3. command'.step \in {"apply", "reapply", "commit", "undo", "end"} =>
          command.step \in {"apply", "reapply", "commit", "undo", "end"}
    <3>1. CASE call.by = "command"
      <4>1. command.step \in {"apply", "reapply", "up"} /\ Fails(command.step)
        BY <1>2, <3>1 DEF Outage, Asked
      <4> QED BY <4>1, Fallen
    <3>2. CASE call.by # "command" BY <1>2, <3>2 DEF Outage
    <3> QED BY <3>1, <3>2
  <2> QED BY <2>1, <2>2, <2>3, NoCallFields DEF Asked, Answered
<1> QED BY <1>1, <1>2

LEMMA SameAsked ==
  ASSUME Asked, Answered, UNCHANGED <<call, active, txLock, files, degraded, command>>
  PROVE  Asked' /\ Answered'
BY DEF Asked, Answered, EntriesAsked, Entered

LEMMA AskedStep ==
  ASSUME TypeOK, Reconciling, Asked, Answered, Next
  PROVE  Asked' /\ Answered'
<1>1. CASE Loop
  BY <1>1, SameAsked, SyncingAsked, LocksAsked, ReturnsAsked
  DEF Loop, Subscribe, DebounceFires, ResyncFires, LoopNotices, reconciler, box
<1>2. CASE Control
  BY <1>2, SyncingAsked, LocksAsked, ReturnsAsked DEF Control
<1>3. CASE Working
  BY <1>3, CommandAsked, ApplyAsked, ApplyReturnsAsked DEF Working
<1>4. CASE Asking BY <1>4, CommandAsked DEF Asking
<1>5. CASE StreamEnds BY <1>5, SameAsked DEF StreamEnds, reconciler, box
<1>6. CASE Environment BY <1>6, SameAsked DEF Environment, reconciler, box
<1> QED BY <1>1, <1>2, <1>3, <1>4, <1>5, <1>6, ReconcileAsked, FinishAsked, DeathAsked
       DEF Next

-----------------------------------------------------------------------------
LEMMA CoreInit == Init => Core
<1> SUFFICES ASSUME Init PROVE Core OBVIOUS
<1>1. TypeOK
  <2>1. starts \in [Target -> 0 .. MaxStarts] /\ faults \in 0 .. MaxFaults
    BY WorkloadAssumption DEF Init, WorkloadsInit
  <2>2. WorkloadsType BY <2>1 DEF Init, WorkloadsInit, WorkloadsType, Target
  <2>3. DOMAIN active = {} BY DEF Init, ReconcilerInit
  <2>4. ReconcilerType BY <2>3, NoCallType DEF Init, ReconcilerInit, ReconcilerType
  <2>5. command \in Commands BY DEF Init, NoCommand, Commands
  <2> QED BY <2>2, <2>4, <2>5 DEF Init, TypeOK, Loops
<1>2. Reconciling
  <2>1. DOMAIN active = {} /\ call = NoCall /\ proxies = {}
    BY DEF Init, ReconcilerInit, WorkloadsInit
  <2> QED BY <2>1 DEF NoCall, Reconciling, Called, Past, Keyed, Explained, Entered
<1>3. Asked /\ Answered
  <2>1. call = NoCall /\ command.step = "idle" BY DEF Init, ReconcilerInit, NoCommand
  <2> QED BY <2>1, NoCallFields DEF Asked, Answered
<1> QED BY <1>1, <1>2, <1>3 DEF Core

LEMMA CoreStep == Core /\ [Next]_vars => Core'
<1> SUFFICES ASSUME Core, [Next]_vars PROVE Core' OBVIOUS
<1>1. CASE Next
  BY <1>1, TypeStep, ReconcilingStep, AskedStep DEF Core, Reconciling
<1>2. CASE UNCHANGED vars
  <2>1. TypeOK'
    BY <1>2 DEF Core, TypeOK, WorkloadsType, ReconcilerType, vars, workloads, namespaces,
       reconciler, sidecar, box
  <2>2. Reconciling'
    BY <1>2, SameReconciling DEF Core, vars, workloads, namespaces, reconciler
  <2>3. Asked' /\ Answered' BY <1>2, SameAsked DEF Core, vars, reconciler, box
  <2> QED BY <2>1, <2>2, <2>3 DEF Core
<1> QED BY <1>1, <1>2

LEMMA CoreHolds == Spec => []Core
BY CoreInit, CoreStep, PTL DEF Spec

\* The variables of the sidecar and of the port commands have their types
\* (loopback/daemon.go, sandbox/ports.go).
THEOREM LoopbackTypes == Spec => []TypeOK
<1>1. Core => TypeOK BY DEF Core
<1> QED BY <1>1, CoreHolds, PTL

\* When Apply succeeds, what still runs has its entries, and only what has no
\* entry has a warning.
LEMMA ExplainedStep ==
  ASSUME Core, [Next]_vars, call.step = "start", call'.step = "ok"
  PROVE  /\ \A s \in call.specs :
              s.cont \in Workload /\ Alive(s) => Key(s) \in DOMAIN active'
         /\ \A w \in warnings' : <<w.cont, w.name>> \notin DOMAIN active'
<1>1. Swap
  <2>1. ~Reconcile
    <3>1. \A s \in Spec4Proxy :
            Probe(s) \/ StopConflicting(s) \/ Start(s) => call'.step # "ok"
      BY CallGoesOn DEF Core
    <3> QED BY <3>1 DEF Reconcile
  <2>2. ASSUME UNCHANGED call \/ call' = NoCall PROVE FALSE BY <2>2, NoCallFields
  <2>3. ASSUME NEW by \in Callers, NEW mode \in {"event", "transaction"}, Sync(by, mode)
        PROVE  FALSE
    BY <2>3, SyncBegins DEF Core
  <2>4. ~Loop
    BY <2>2, <2>3 DEF Loop, Subscribe, LoopLocks, LoopSync, LoopReturns, DebounceFires, ResyncFires,
       LoopNotices, Callers
  <2>5. ~Control BY <2>2, <2>3 DEF Control, ControlLocks, ControlSync, ControlReturns, NobodyReturns, Callers
  <2>6. ~Working
    BY <2>2, <2>3 DEF Working, WriteCandidate, ApplyImports, ApplyReturns, Commit, Undo,
       EndCommand, Callers
  <2>7. ~Asking BY <2>2 DEF Asking, Up, ImportPorts, RemovePortMappings
  <2>8. ~CommandDies
    <3>1. [call EXCEPT !.by = "nobody"].step = call.step
      BY DEF Core, TypeOK, ReconcilerType, Calls
    <3> QED BY <3>1 DEF CommandDies
  <2>9. ~Outage BY <2>2, EndedType DEF Outage, Core
  <2> QED BY <2>1, <2>2, <2>4, <2>5, <2>6, <2>7, <2>8, <2>9
        DEF Next, Finish, StreamEnds, Environment, vars
<1>2. DOMAIN active' = KeysOf(Wanted) /\ UNCHANGED warnings BY <1>1, Swapped
<1>3. ASSUME NEW s \in call.specs, s.cont \in Workload, Alive(s)
      PROVE  Key(s) \in KeysOf(Wanted)
  BY <1>3 DEF Core, Reconciling, Explained, Wanted, KeysOf
<1>4. ASSUME NEW w \in warnings, <<w.cont, w.name>> \in KeysOf(Wanted) PROVE FALSE
  <2>1. PICK s \in Wanted : Key(s) = <<w.cont, w.name>> BY <1>4 DEF KeysOf
  <2> QED BY <1>4, <2>1 DEF Core, Reconciling, Explained, Wanted
<1> QED BY <1>2, <1>3, <1>4

\* When Apply succeeds, every import of a workload it saw and that still runs has
\* an entry, and no import that has an entry has a warning (imports.go Apply).
THEOREM AppliedIsExplained == Spec => AppliedExplained
<1>1. Core /\ [Next]_vars =>
        [call.step = "start" /\ call'.step = "ok" =>
           /\ \A s \in call.specs :
                s.cont \in Workload /\ Alive(s) => Key(s) \in DOMAIN active'
           /\ \A w \in warnings' : <<w.cont, w.name>> \notin DOMAIN active']_vars
  BY ExplainedStep
<1> QED BY <1>1, CoreHolds, PTL DEF Spec, AppliedExplained

-----------------------------------------------------------------------------
\* Which mappings can meet.

\* No port command is killed, and every snapshot of the containers and every
\* read of ports.json succeeds; or no two imports that ever occur share a name
\* or a port.
Undisturbed ==
  \/ {"crash", "snapshot"} \cap MayFail = {}
  \/ Valid(Import)

\* The mappings that files, commands, calls and entries speak of.
Maps ==
  record \cup files \cup command.cand
    \cup {s.map : s \in call.specs}
    \cup {active[k].map : k \in {j \in DOMAIN active : Entered(j)}}

\* What a call works on is in ports.json, and so is what a successful one leaves.
Reading ==
  /\ call.by = "nobody" => call = NoCall
  /\ call.step = "error" => call.specs # {}
  /\ \A s \in call.specs : s.map \in files
  /\ call.by = "command" /\ call.step = "ok" => EntriesAsked

\* ports.json is of the record, but for a candidate.
Filed ==
  /\ command.step \in {"idle", "write", "up", "reapply", "end"} => files = record
  /\ command.step \in {"idle", "up"} => command.cand = {}
  /\ command.step \in {"apply", "commit"} => files = command.cand
  /\ command.step \in {"apply", "commit", "undo"} => command.snap = record

\* Between the commands of a box that is not degraded no entry is older than
\* ports.json, and without imports there is no entry.
Fresh ==
  /\ ~alive => DOMAIN active = {} /\ call = NoCall
  /\ command.step \in {"idle", "write", "up", "commit", "end"}
       /\ (~degraded \/ record = {}) => EntriesAsked

Calm == Reading /\ Filed /\ Fresh /\ Valid(Maps)

LEMMA MapsValid ==
  ASSUME NEW S, NEW T, Valid(S), T \subseteq S
  PROVE  Valid(T)
BY DEF Valid

\* What speaks of a mapping.
LEMMA MapsHas ==
  /\ record \subseteq Maps /\ files \subseteq Maps /\ command.cand \subseteq Maps
  /\ \A s \in call.specs : s.map \in Maps
  /\ \A k \in DOMAIN active : Entered(k) => active[k].map \in Maps
BY DEF Maps

\* No mapping comes into play: then those of the next state are valid too.
LEMMA MapsStay ==
  ASSUME Valid(Maps), record' \subseteq Maps, files' \subseteq Maps,
         command'.cand \subseteq Maps,
         \A s \in call'.specs : s.map \in Maps,
         \A k \in DOMAIN active' : Entered(k)' => (active'[k].map) \in Maps
  PROVE  Valid(Maps)'
<1>1. Maps' \subseteq Maps BY DEF Maps
<1> QED BY <1>1 DEF Valid

\* Steps that leave files, entries and command alone.
LEMMA SameCalm ==
  ASSUME Calm, UNCHANGED <<active, files, record, degraded, command>>,
         alive, alive', Reading',
         \A s \in call'.specs : s.map \in files
  PROVE  Calm'
<1>1. Filed' BY DEF Calm, Filed
<1>2. EntriesAsked => EntriesAsked' BY DEF EntriesAsked, Entered
<1>3. Fresh' BY <1>2 DEF Calm, Fresh
<1>4. Valid(Maps)' BY MapsStay, MapsHas DEF Calm, Entered
<1> QED BY <1>1, <1>3, <1>4 DEF Calm

\* The call goes on, ends, or is none.
LEMMA ReconcileCalm ==
  ASSUME Core, Calm, Reconcile
  PROVE  Calm'
<1>1. PICK s \in Spec4Proxy : Probe(s) \/ StopConflicting(s) \/ Start(s)
  BY DEF Reconcile
<1>2. /\ call.step \notin {"idle", "ok", "error"} /\ call'.step \notin {"idle", "ok"}
      /\ call'.by = call.by /\ call'.specs = call.specs /\ active' = active
  BY <1>1, CallGoesOn DEF Core
<1>3. UNCHANGED <<files, record, degraded, command, alive>> BY DEF Reconcile, box
<1>4. call.by # "nobody" BY <1>2, NoCallFields DEF Calm, Reading
<1>5. call.specs # {}
  BY <1>1 DEF Probe, StopConflicting, Start, Core, Reconciling, Called
<1>6. Reading' BY <1>2, <1>3, <1>4, <1>5 DEF Calm, Reading
<1>7. alive BY <1>2, NoCallFields DEF Calm, Fresh
<1> QED BY <1>2, <1>3, <1>6, <1>7, SameCalm DEF Calm, Reading

LEMMA FinishCalm ==
  ASSUME Core, Calm, Finish
  PROVE  Calm'
<1>1. /\ call.step = "start" /\ call'.step = "ok"
      /\ call'.by = call.by /\ call'.specs = call.specs
      /\ UNCHANGED <<files, record, degraded, command, alive>>
  BY Swapped, EndCallType DEF Core, Finish, Swap, box, sidecar
<1>2. call.by # "nobody" BY <1>1, NoCallFields DEF Calm, Reading
<1>3. \A k \in DOMAIN active' : Entered(k)' => active'[k] \in call.specs
  BY SwappedEntries DEF Core, Finish, Wanted
<1>4. EntriesAsked' BY <1>1, <1>3 DEF Calm, Reading, EntriesAsked
<1>5. Reading' BY <1>1, <1>2, <1>4 DEF Calm, Reading
<1>6. Filed' BY <1>1 DEF Calm, Filed
<1>7. Fresh'
  <2>1. alive
    <3>1. call # NoCall BY <1>1, NoCallFields
    <3> QED BY <3>1 DEF Calm, Fresh
  <2> QED BY <1>1, <1>4, <2>1 DEF Fresh
<1>8. Valid(Maps)' BY <1>1, <1>3, MapsStay, MapsHas DEF Calm
<1> QED BY <1>5, <1>6, <1>7, <1>8 DEF Calm

\* The call has ended, or is as it was.
LEMMA PagesCalm ==
  ASSUME Calm, UNCHANGED <<alive, active, files, record, degraded, command>>,
         call' = NoCall \/ UNCHANGED call
  PROVE  Calm'
<1>1. EntriesAsked => EntriesAsked' BY DEF EntriesAsked, Entered
<1>2. Reading' BY <1>1, NoCallFields DEF Calm, Reading
<1>3. Filed' /\ Fresh' BY <1>1 DEF Calm, Filed, Fresh
<1>4. \A s \in call'.specs : s.map \in files BY NoCallFields DEF Calm, Reading
<1>5. Valid(Maps)' BY <1>4, MapsStay, MapsHas DEF Calm, Entered
<1> QED BY <1>2, <1>3, <1>5 DEF Calm

\* A sync begins a call over what ports.json says, with no new entry, or ends the
\* sidecar.
LEMMA SyncCalm ==
  ASSUME Core, Calm, {"crash", "snapshot"} \cap MayFail = {}, UNCHANGED files,
         NEW by \in Callers, by # "nobody",
         NEW mode \in {"event", "transaction"}, Sync(by, mode)
  PROVE  /\ Reading' /\ \A s \in call'.specs : s.map \in files
         /\ \A k \in DOMAIN active' :
              Entered(k)' => Entered(k) /\ active'[k] = active[k]
         /\ ~alive' => DOMAIN active' = {} /\ call' = NoCall
<1>1. ~Fault("snapshot") BY DEF Fault
<1>2. CASE Begin(by, mode, files) /\ UNCHANGED sidecar /\ alive
  <2>1. TypeOK /\ files \in SUBSET Import BY DEF Core, TypeOK
  <2>2. /\ call'.step \in {"probe", "start"} /\ call'.by = by
        /\ \A s \in call'.specs : s.map \in files
        /\ DOMAIN active' \subseteq DOMAIN active
        /\ \A k \in DOMAIN active' : active'[k] = active[k]
    <3>1. Begin(by, mode, files) BY <1>2
    <3>2. \A s \in call'.specs : s.map \in files
      BY <1>2, SyncBegins, NoCallFields DEF Core
    <3>3. call'.step \in {"probe", "start"} /\ call'.by = by
      BY <2>1, <3>1, Begun
    <3>4. DOMAIN active' \subseteq DOMAIN active BY <2>1, <3>1, Begun
    <3>5. \A k \in DOMAIN active' : active'[k] = active[k] BY <2>1, <3>1, Begun
    <3> QED BY <3>2, <3>3, <3>4, <3>5
  <2>3. Reading' BY <2>2 DEF Reading
  <2>4. alive' BY <1>2 DEF sidecar
  <2>5. \A k \in DOMAIN active' :
          Entered(k)' => Entered(k) /\ active'[k] = active[k]
    BY <2>2 DEF Entered
  <2> QED BY <2>2, <2>3, <2>4, <2>5
<1>3. CASE SidecarEnds
  <2>1. call' = NoCall /\ ~alive' /\ DOMAIN active' = {}
    BY <1>3, EndedType DEF Core
  <2> QED BY <2>1, NoCallFields DEF Reading
<1> QED BY <1>1, <1>2, <1>3 DEF Sync, BeginFails

\* With fewer entries and another call, as long as the command goes on as it is.
LEMMA FewerCalm ==
  ASSUME Calm, UNCHANGED <<files, record>>, Reading',
         command'.cand = command.cand,
         \A s \in call'.specs : s.map \in files,
         \A k \in DOMAIN active' :
           Entered(k)' => Entered(k) /\ active'[k] = active[k]
  PROVE  Valid(Maps)' /\ (EntriesAsked => EntriesAsked')
<1>1. EntriesAsked => EntriesAsked' BY DEF EntriesAsked, Entered
<1>2. Valid(Maps)' BY MapsStay, MapsHas DEF Calm, Entered
<1> QED BY <1>1, <1>2

LEMMA SyncingCalm ==
  ASSUME Core, Calm, {"crash", "snapshot"} \cap MayFail = {}, LoopSync \/ ControlSync
  PROVE  Calm'
<1>1. PICK by \in Callers : by # "nobody" /\ Sync(by, "event")
  BY DEF LoopSync, ControlSync, Callers
<1>2. UNCHANGED <<files, record, degraded, command>> BY DEF LoopSync, ControlSync
<1>3. /\ Reading' /\ \A s \in call'.specs : s.map \in files
      /\ \A k \in DOMAIN active' :
           Entered(k)' => Entered(k) /\ active'[k] = active[k]
      /\ ~alive' => DOMAIN active' = {} /\ call' = NoCall
  BY <1>1, <1>2, SyncCalm
<1>4. Valid(Maps)' /\ (EntriesAsked => EntriesAsked') BY <1>2, <1>3, FewerCalm
<1>5. Filed' /\ Fresh' BY <1>2, <1>3, <1>4 DEF Calm, Filed, Fresh
<1> QED BY <1>3, <1>4, <1>5 DEF Calm

\* A sidecar that is not there has no entry, and what a failed step goes on with
\* has the files it needs.
LEMMA FallenCalm ==
  ASSUME TypeOK, Filed, NEW step \in {"apply", "reapply", "up"}, command.step = step,
         Fails(step), UNCHANGED <<files, record>>
  PROVE  Filed' /\ command'.cand = command.cand /\ command'.snap = command.snap
<1>1. /\ Goto(AfterFailure[step]) /\ AfterFailure[step] \in {"undo", "end", "idle"}
      /\ step = "apply" => AfterFailure[step] = "undo"
      /\ step = "reapply" => AfterFailure[step] = "end"
      /\ step = "up" => AfterFailure[step] = "idle"
  BY DEF AfterFailure, Fails
<1>2. /\ command'.step = AfterFailure[step] /\ command'.cand = command.cand
      /\ command'.snap = command.snap
  BY <1>1, Goes
<1> QED BY <1>1, <1>2 DEF Filed

LEMMA ApplyCalm ==
  ASSUME Core, Calm, {"crash", "snapshot"} \cap MayFail = {}, ApplyImports
  PROVE  Calm'
<1>1. /\ command.step \in {"apply", "reapply", "up"} /\ UNCHANGED <<files, record>>
      /\ call.by # "command"
  BY DEF ApplyImports
<1>2. ASSUME Sync("command", "transaction")
      PROVE  /\ Reading' /\ \A s \in call'.specs : s.map \in files
             /\ \A k \in DOMAIN active' :
                  Entered(k)' => Entered(k) /\ active'[k] = active[k]
             /\ ~alive' => DOMAIN active' = {} /\ call' = NoCall
  BY <1>1, <1>2, SyncCalm DEF Callers
<1>3. CASE Sync("command", "transaction") /\ alive' /\ UNCHANGED <<degraded, command>>
  <2>1. Valid(Maps)' /\ (EntriesAsked => EntriesAsked') BY <1>1, <1>2, <1>3, FewerCalm
  <2>2. Filed' /\ Fresh' BY <1>1, <1>2, <1>3, <2>1 DEF Calm, Filed, Fresh
  <2> QED BY <1>2, <1>3, <2>1, <2>2 DEF Calm
<1>4. ASSUME Fails(command.step), ~alive', DOMAIN active' = {}, call' = NoCall
      PROVE  Calm'
  <2>1. Filed' /\ command'.cand = command.cand
    BY <1>1, <1>4, FallenCalm DEF Core, Calm
  <2>2. EntriesAsked' /\ Reading' BY <1>4, NoCallFields DEF EntriesAsked, Reading
  <2>3. Fresh' BY <1>4, <2>2 DEF Fresh
  <2>4. Valid(Maps)' BY <1>1, <1>4, <2>1, <2>2, NoCallFields, FewerCalm
  <2> QED BY <2>1, <2>2, <2>3, <2>4 DEF Calm
<1>5. CASE Sync("command", "transaction") /\ ~alive' /\ Fails(command.step)
  BY <1>2, <1>4, <1>5
<1>6. CASE ~alive /\ Fails(command.step) /\ UNCHANGED <<reconciler, call, sidecar>>
  <2>1. ~alive' /\ DOMAIN active' = {} /\ call' = NoCall
    BY <1>6 DEF Calm, Fresh, sidecar, reconciler
  <2> QED BY <1>4, <1>6, <2>1
<1> QED BY <1>3, <1>5, <1>6 DEF ApplyImports

\* A call that fails had something to do: without imports a rollback reapplies.
LEMMA ReturnsCalm ==
  ASSUME Core, Calm, ApplyReturns
  PROVE  Calm'
<1>1. /\ call.by = "command" /\ call.step \in {"ok", "error"} /\ call' = NoCall
      /\ command.step \in {"apply", "reapply", "up"}
      /\ UNCHANGED <<alive, active, files, record>>
      /\ (Succeeds(command.step) /\ call.step = "ok") \/ Fails(command.step)
  BY DEF ApplyReturns, Core, Asked, reconciler, sidecar
<1>2. EntriesAsked => EntriesAsked' BY <1>1 DEF EntriesAsked, Entered
<1>3. Reading' BY <1>1, NoCallFields DEF Reading
<1>4. CASE Succeeds(command.step) /\ call.step = "ok"
  <2>1. /\ Goto(AfterSuccess[command.step])
        /\ AfterSuccess[command.step] \in {"commit", "end", "idle"}
        /\ command.step = "apply" => AfterSuccess[command.step] = "commit"
        /\ command.step = "reapply" => AfterSuccess[command.step] = "end"
        /\ command.step = "up" => AfterSuccess[command.step] = "idle"
    BY <1>1, <1>4 DEF AfterSuccess, Succeeds
  <2>2. /\ command'.step = AfterSuccess[command.step] /\ command'.cand = command.cand
        /\ command'.snap = command.snap
    BY <2>1, Goes DEF Core
  <2>3. Filed' BY <1>1, <2>1, <2>2 DEF Calm, Filed
  <2>4. EntriesAsked' BY <1>1, <1>2, <1>4 DEF Calm, Reading
  <2>5. Fresh' BY <1>1, <2>4 DEF Calm, Fresh
  <2>6. Valid(Maps)' BY <1>1, <1>3, <2>2, NoCallFields, FewerCalm DEF Entered
  <2> QED BY <1>3, <2>3, <2>5, <2>6 DEF Calm
<1>5. CASE Fails(command.step)
  <2>1. Filed' /\ command'.cand = command.cand
    BY <1>1, <1>5, FallenCalm DEF Core, Calm
  <2>2. Valid(Maps)' BY <1>1, <1>3, <2>1, NoCallFields, FewerCalm DEF Entered
  <2>3. Fresh'
    <3>1. CASE command.step = "apply"
      <4>1. command'.step = "undo" BY <1>5, <3>1, Fallen DEF Core
      <4> QED BY <1>1, <4>1 DEF Calm, Fresh
    <3>2. CASE command.step = "reapply"
      <4>1. command'.step = "end" /\ degraded' BY <1>5, <3>2, Fallen DEF Core
      <4>2. ASSUME record = {} PROVE EntriesAsked
        <5>1. files = {} BY <3>2, <4>2 DEF Calm, Filed
        <5>2. call.specs = {} BY <5>1 DEF Calm, Reading
        <5> QED BY <1>1, <5>2 DEF Calm, Reading
      <4> QED BY <1>1, <1>2, <4>1, <4>2 DEF Calm, Fresh
    <3>3. CASE command.step = "up"
      <4>1. command'.step = "idle" /\ degraded' = degraded
        <5>1. degraded' = (degraded \/ command.step = "reapply") BY <1>5 DEF Fails
        <5> QED BY <1>5, <3>3, <5>1, Fallen DEF Core, TypeOK
      <4> QED BY <1>1, <1>2, <3>3, <4>1 DEF Calm, Fresh
    <3> QED BY <1>1, <3>1, <3>2, <3>3
  <2> QED BY <1>3, <2>1, <2>2, <2>3 DEF Calm
<1> QED BY <1>1, <1>4, <1>5

\* The commands: only an import brings a mapping into play, and then everything
\* else is of the record.
LEMMA ImportCalm ==
  ASSUME Core, Calm, NEW m \in Import, ImportPorts(m)
  PROVE  Calm'
<1>1. /\ UNCHANGED <<alive, active, call, files, record, degraded>>
      /\ command.step = "idle" /\ ~degraded /\ Valid(record \cup {m})
      /\ command'.step = "write" /\ command'.cand = record \cup {m}
  BY DEF ImportPorts, reconciler, sidecar
<1>2. files = record /\ EntriesAsked BY <1>1 DEF Calm, Filed, Fresh
<1>3. EntriesAsked' BY <1>1, <1>2 DEF EntriesAsked, Entered
<1>4. Reading' BY <1>1, <1>3 DEF Calm, Reading
<1>5. Filed' /\ Fresh' BY <1>1, <1>2, <1>3 DEF Calm, Filed, Fresh
<1>6. Valid(Maps)'
  <2>1. Maps' \subseteq record \cup {m}
    BY <1>1, <1>2, <1>3 DEF Maps, EntriesAsked, Calm, Reading
  <2> QED BY <1>1, <2>1 DEF Valid
<1> QED BY <1>4, <1>5, <1>6 DEF Calm

LEMMA RemoveCalm ==
  ASSUME Core, Calm, NEW m \in Import, RemovePortMappings(m)
  PROVE  Calm'
<1>1. /\ UNCHANGED <<alive, active, call, files, record, degraded>>
      /\ command.step = "idle"
      /\ command'.step = "write" /\ command'.cand = record \ {m}
  BY DEF RemovePortMappings, reconciler, sidecar
<1>2. EntriesAsked => EntriesAsked' BY <1>1 DEF EntriesAsked, Entered
<1>3. Reading' BY <1>1, <1>2 DEF Calm, Reading
<1>4. Filed' /\ Fresh' BY <1>1, <1>2 DEF Calm, Filed, Fresh
<1>5. Valid(Maps)' BY <1>1, MapsStay, MapsHas DEF Calm, Reading, Entered
<1> QED BY <1>3, <1>4, <1>5 DEF Calm

\* While a port command has the transaction lock nobody else has a call.
LEMMA Alone ==
  ASSUME Core, Calm, \/ command.step \in {"commit", "undo", "end"}
                     \/ command.step = "write" /\ txLock = "free"
  PROVE  call = NoCall
BY DEF Core, Asked, Calm, Reading, TypeOK, ReconcilerType, Calls, Callers

LEMMA CommandCalm ==
  ASSUME Core, Calm, WriteCandidate \/ Commit \/ Undo \/ EndCommand
  PROVE  Calm'
<1>1. call = NoCall /\ UNCHANGED <<alive, active, call, degraded>>
  BY Alone DEF WriteCandidate, Commit, Undo, EndCommand, reconciler, sidecar
<1>2. Reading' /\ \A s \in call'.specs : s.map \in Maps
  BY <1>1, NoCallFields DEF Reading
<1>3. UNCHANGED files => (EntriesAsked => EntriesAsked')
  BY <1>1 DEF EntriesAsked, Entered
<1>4. ASSUME record' \subseteq Maps, files' \subseteq Maps, command'.cand \subseteq Maps
      PROVE  Valid(Maps)'
  BY <1>1, <1>2, <1>4, MapsStay, MapsHas DEF Calm, Entered
<1>5. CASE WriteCandidate
  <2>1. /\ command.step = "write" /\ command'.step = "apply" /\ UNCHANGED record
        /\ files' = command.cand /\ command'.cand = command.cand /\ command'.snap = files
    BY <1>5 DEF WriteCandidate, Core, TypeOK, Commands
  <2>2. Filed' /\ Fresh' BY <1>1, <2>1 DEF Calm, Filed, Fresh
  <2> QED BY <1>2, <1>4, <2>1, <2>2, MapsHas DEF Calm
<1>6. CASE Commit
  <2>1. /\ command.step = "commit" /\ UNCHANGED files /\ command'.cand = command.cand
        /\ command'.snap = command.snap
        /\ \/ record' = command.cand /\ command'.step = "end"
           \/ UNCHANGED record /\ command'.step = "undo"
    BY <1>6, Goes DEF Commit, Core
  <2>2. EntriesAsked' BY <1>3, <2>1 DEF Core, Answered
  <2>3. Filed' /\ Fresh' BY <1>1, <2>1, <2>2 DEF Calm, Filed, Fresh
  <2> QED BY <1>2, <1>4, <2>1, <2>3, MapsHas DEF Calm
<1>7. CASE Undo
  <2>1. /\ command.step = "undo" /\ UNCHANGED record /\ command'.cand = command.cand
        /\ files' = command.snap /\ command'.step = "reapply"
    BY <1>7, Goes DEF Undo, Core
  <2>2. Filed' /\ Fresh' BY <1>1, <2>1 DEF Calm, Filed, Fresh
  <2> QED BY <1>2, <1>4, <2>1, <2>2, MapsHas DEF Calm, Filed
<1>8. CASE EndCommand
  <2>1. /\ command.step = "end" /\ UNCHANGED <<files, record>>
        /\ command'.step = "idle" /\ command'.cand = {}
    BY <1>8 DEF EndCommand, NoCommand
  <2>2. Filed' /\ Fresh' BY <1>1, <1>3, <2>1 DEF Calm, Filed, Fresh
  <2> QED BY <1>2, <1>4, <2>1, <2>2, MapsHas DEF Calm
<1> QED BY <1>5, <1>6, <1>7, <1>8

\* up clears a degradation at once when the record has no import: there is then
\* no entry either.
LEMMA UpCalm ==
  ASSUME Core, Calm, Up
  PROVE  Calm'
<1>1. /\ command.step = "idle" /\ alive' /\ files' = record
      /\ UNCHANGED <<active, call, record>>
      /\ \/ record = {} /\ command' = NoCommand
         \/ /\ record # {} /\ degraded' = degraded /\ command'.step = "up"
            /\ command'.cand = command.cand
  BY Goes DEF Up, reconciler, Core
<1>2. files = record /\ command.cand = {} BY <1>1 DEF Calm, Filed
<1>3. EntriesAsked => EntriesAsked' BY <1>1, <1>2 DEF EntriesAsked, Entered
<1>4. command'.step \in {"idle", "up"} /\ command'.cand = {}
  BY <1>1, <1>2 DEF NoCommand
<1>5. Reading' BY <1>1, <1>2, <1>3 DEF Calm, Reading
<1>6. Filed' /\ Fresh' BY <1>1, <1>2, <1>3, <1>4 DEF Calm, Filed, Fresh
<1>7. Valid(Maps)' BY <1>1, <1>2, <1>4, MapsStay, MapsHas DEF Calm, Reading, Entered
<1> QED BY <1>5, <1>6, <1>7 DEF Calm

LEMMA OutageCalm ==
  ASSUME Core, Calm, Outage
  PROVE  Calm'
<1>1. /\ ~alive' /\ DOMAIN active' = {} /\ call' = NoCall /\ UNCHANGED <<files, record>>
      /\ IF call.by = "command" THEN Fails(command.step) ELSE UNCHANGED <<command, degraded>>
  BY EndedType DEF Outage, Core
<1>2. Reading' /\ EntriesAsked' BY <1>1, NoCallFields DEF Reading, EntriesAsked
<1>3. Filed' /\ command'.cand = command.cand
  <2>1. CASE call.by = "command"
    BY <1>1, <2>1, FallenCalm DEF Core, Asked, Calm
  <2>2. CASE call.by # "command" BY <1>1, <2>2 DEF Calm, Filed
  <2> QED BY <2>1, <2>2
<1>4. Fresh' BY <1>1, <1>2 DEF Fresh
<1>5. Valid(Maps)' BY <1>1, <1>2, <1>3, NoCallFields, FewerCalm
<1> QED BY <1>2, <1>3, <1>4, <1>5 DEF Calm

LEMMA CalmStep ==
  ASSUME {"crash", "snapshot"} \cap MayFail = {}, Core, Calm, [Next]_vars
  PROVE  Calm'
<1>1. CASE Loop
  <2>1. CASE LoopSync BY <2>1, SyncingCalm
  <2>2. CASE ~LoopSync
    BY <1>1, <2>2, PagesCalm
    DEF Loop, Subscribe, LoopLocks, LoopReturns, DebounceFires, ResyncFires, LoopNotices,
        reconciler, sidecar, box
  <2> QED BY <2>1, <2>2
<1>2. CASE Control
  <2>1. CASE ControlSync BY <2>1, SyncingCalm
  <2>2. CASE ~ControlSync
    BY <1>2, <2>2, PagesCalm
    DEF Control, ControlLocks, ControlReturns, NobodyReturns, reconciler, sidecar, box
  <2> QED BY <2>1, <2>2
<1>3. CASE Working BY <1>3, CommandCalm, ApplyCalm, ReturnsCalm DEF Working
<1>4. CASE Asking BY <1>4, ImportCalm, RemoveCalm, UpCalm DEF Asking
<1>5. CASE StreamEnds BY <1>5, PagesCalm DEF StreamEnds, reconciler, box
<1>6. CASE CommandDies BY <1>6 DEF CommandDies, Fault
<1>7. CASE Environment BY <1>7, PagesCalm DEF Environment, reconciler, box
<1>8. CASE UNCHANGED vars BY <1>8, PagesCalm DEF vars, reconciler, sidecar, box
<1> QED BY <1>1, <1>2, <1>3, <1>4, <1>5, <1>6, <1>7, <1>8, ReconcileCalm, FinishCalm,
           OutageCalm DEF Next

LEMMA CalmInit == Init => Calm
<1> SUFFICES ASSUME Init PROVE Calm OBVIOUS
<1>1. /\ call = NoCall /\ DOMAIN active = {} /\ files = {} /\ record = {} /\ alive
      /\ command.step = "idle" /\ command.cand = {}
  BY DEF Init, ReconcilerInit, NoCommand
<1>2. Maps = {} BY <1>1, NoCallFields DEF Maps
<1> QED BY <1>1, <1>2, NoCallFields
       DEF Calm, Reading, Filed, Fresh, EntriesAsked, Valid

\* The mappings that ever meet have different names and ports.
LEMMA MapsHold == Undisturbed => (Spec => []Valid(Maps))
<1>1. CASE {"crash", "snapshot"} \cap MayFail = {}
  <2>1. Core /\ Calm /\ [Next]_vars => Calm' BY <1>1, CalmStep
  <2>2. Calm => Valid(Maps) BY DEF Calm
  <2> QED BY <2>1, <2>2, CalmInit, CoreHolds, PTL DEF Spec
<1>2. CASE Valid(Import)
  <2>1. Core => Valid(Maps)
    <3> SUFFICES ASSUME Core PROVE Maps \subseteq Import BY <1>2, MapsValid
    <3>1. \A s \in call.specs : s.map \in Import
      BY KeyType DEF Core, TypeOK, ReconcilerType, Calls
    <3>2. \A k \in DOMAIN active : Entered(k) => active[k].map \in Import
      BY KeyType DEF Core, TypeOK, ReconcilerType, Entered
    <3> QED BY <3>1, <3>2 DEF Maps, Core, TypeOK, Commands
  <2> QED BY <2>1, CoreHolds, PTL
<1> QED BY <1>1, <1>2 DEF Undisturbed

-----------------------------------------------------------------------------
\* Ownership.

\* An alive proxy that is an entry is the entry of its key.
LEMMA OwnEntry ==
  ASSUME Core, NEW s \in Spec4Proxy, s \in Entries
  PROVE  Key(s) \in DOMAIN active /\ active[Key(s)] = s
BY NoProxyAssumption DEF Core, Reconciling, Keyed, Entered, Entries

\* Two proxies for the same target, PID and name, or port, are one.
LEMMA OneSpec ==
  ASSUME Valid(Maps), NEW s \in Spec4Proxy, NEW t \in Spec4Proxy,
         s.map \in Maps, t.map \in Maps, s.cont = t.cont, s.pid = t.pid,
         s.map.name = t.map.name \/ s.map.port = t.map.port
  PROVE  s = t
BY DEF Valid, Spec4Proxy

\* The mapping of an entry or of a spec of the call is in play.
LEMMA Plays ==
  ASSUME Core, NEW s, s \in Entries \cap Spec4Proxy \/ s \in call.specs
  PROVE  s.map \in Maps
BY NoProxyAssumption, MapsHas DEF Entries, Entered

\* A step that adds no proxy, brings none to life and keeps what was started.
LEMMA OwnedStays ==
  ASSUME Core, OwnedProxies, proxies' \subseteq proxies,
         \A s \in proxies : ~Alive(s) => ~Alive(s)', UNCHANGED active,
         call'.started = call.started \/ call.step # "start"
  PROVE  OwnedProxies'
<1>1. call.started \subseteq call'.started BY DEF Core, Reconciling, Called
<1> QED BY <1>1 DEF OwnedProxies, Entries

LEMMA BeginOwned ==
  ASSUME Core, OwnedProxies, NEW by \in Callers, NEW mode \in {"event", "transaction"},
         Begin(by, mode, files), UNCHANGED <<starts, running, proxies>>
  PROVE  OwnedProxies'
<1>1. call.started = {} BY NoCallFields DEF Begin, Core, Asked
<1>2. /\ DOMAIN active' = {k \in DOMAIN active : active[k] \in proxies}
      /\ \A k \in DOMAIN active' : active'[k] = active[k]
  BY DEF Begin
<1>3. \A s \in proxies : s \in Entries => s \in Entries' BY <1>2 DEF Entries
<1> QED BY <1>1, <1>3 DEF OwnedProxies, Alive

LEMMA SyncOwned ==
  ASSUME Core, OwnedProxies, NEW by \in Callers, NEW mode \in {"event", "transaction"},
         Sync(by, mode)
  PROVE  OwnedProxies'
<1>1. CASE Begin(by, mode, files) /\ UNCHANGED <<namespaces, proxies>>
  BY <1>1, BeginOwned DEF namespaces
<1>2. CASE BeginFails(by) /\ UNCHANGED <<namespaces, proxies>>
  BY <1>2, OwnedStays DEF BeginFails, namespaces, reconciler, Alive
<1>3. CASE SidecarEnds BY <1>3, EndedType DEF OwnedProxies, Core
<1> QED BY <1>1, <1>2, <1>3 DEF Sync

\* A proxy that Start adds is of this call; one that fails takes its own with it.
LEMMA StartOwned ==
  ASSUME Core, OwnedProxies, NEW s \in Spec4Proxy, Start(s)
  PROVE  OwnedProxies'
<1>0. UNCHANGED <<starts, running, active>> BY DEF Start, namespaces
<1>1. CASE call' = [call EXCEPT !.todo = @ \ {s}] /\ UNCHANGED proxies
  <2>1. call'.started = call.started BY <1>1 DEF Core, TypeOK, ReconcilerType, Calls
  <2> QED BY <1>0, <1>1, <2>1 DEF OwnedProxies, Entries, Alive
<1>2. CASE /\ call' = [call EXCEPT !.todo = @ \ {s}, !.started = @ \cup {s}]
           /\ proxies' = proxies \cup {s}
  <2>1. call'.started = call.started \cup {s}
    BY <1>2 DEF Core, TypeOK, ReconcilerType, Calls
  <2> QED BY <1>0, <1>2, <2>1 DEF OwnedProxies, Entries, Alive
<1>3. CASE proxies' = proxies \ call.started
  BY <1>0, <1>3 DEF OwnedProxies, Entries, Alive
<1> QED BY <1>1, <1>2, <1>3 DEF Start

\* What Apply started gets its entry, and an entry that a workload can still
\* reach keeps its key or is closed.
LEMMA SwapOwned ==
  ASSUME Valid(Maps), Core, OwnedProxies, Swap
  PROVE  OwnedProxies'
<1>1. /\ DOMAIN active' = KeysOf(Wanted)
      /\ \A k \in KeysOf(Wanted) : active'[k] = NextEntry(Chosen(k))
      /\ proxies' = proxies \ {active[k] : k \in DOMAIN active \ KeysOf(Wanted)}
      /\ UNCHANGED <<starts, running>> /\ call.step = "start" /\ call.todo = {}
  BY Swapped DEF namespaces, Swap
<1>2. Wanted \subseteq Spec4Proxy /\ Wanted \subseteq call.specs
  BY Pids DEF Core, Wanted
<1> SUFFICES ASSUME NEW s \in proxies', Alive(s) PROVE s \in Entries'
  BY <1>1 DEF OwnedProxies, Alive
<1>3. s \in proxies /\ s \in Spec4Proxy /\ s \in Entries \cup call.started
  BY <1>1, Pids DEF OwnedProxies, Core
<1>4. CASE Key(s) \in KeysOf(Wanted) /\ Chosen(Key(s)) = s
  <2>1. NextEntry(s) = s
    <3>1. CASE s \in Entries BY <1>3, <3>1, OwnEntry DEF NextEntry, Serving
    <3>2. CASE s \in call.started BY <3>2 DEF NextEntry, Serving
    <3> QED BY <1>3, <3>1, <3>2
  <2> QED BY <1>1, <1>4, <2>1 DEF Entries
<1>5. CASE s \in call.started
  <2>1. s \in Wanted BY <1>1, <1>5 DEF Core, Reconciling, Called, Wanted
  <2>2. Key(s) \in KeysOf(Wanted) BY <2>1 DEF KeysOf
  <2>3. Chosen(Key(s)) \in Wanted /\ Key(Chosen(Key(s))) = Key(s) BY <2>2, Chooses
  <2>4. Chosen(Key(s)).pid = s.pid /\ Chosen(Key(s)).cont = s.cont
    BY <1>2, <2>1, <2>3 DEF Core, Reconciling, Called, Key
  <2>5. Chosen(Key(s)).map.name = s.map.name BY <2>3 DEF Key
  <2>6. Chosen(Key(s)) = s BY <1>2, <1>3, <2>1, <2>3, <2>4, <2>5, Plays, OneSpec
  <2> QED BY <1>4, <2>2, <2>6
<1>6. CASE s \in Entries
  <2>1. Key(s) \in DOMAIN active /\ active[Key(s)] = s BY <1>3, <1>6, OwnEntry
  <2>2. Key(s) \in KeysOf(Wanted) BY <1>1, <2>1
  <2> DEFINE t == Chosen(Key(s))
  <2>3. t \in Wanted /\ Key(t) = Key(s) BY <2>2, Chooses
  <2>4. t.cont = s.cont /\ t.map.name = s.map.name BY <2>3 DEF Key
  <2>5. t \in call.specs /\ t \in Spec4Proxy BY <1>2, <2>3
  <2>6. s.pid <= t.pid /\ t.pid <= starts[s.cont] /\ s.pid = starts[s.cont]
    <3>1. Entered(Key(s)) BY <1>3, <2>1, NoProxyAssumption DEF Entered
    <3> QED BY <2>1, <2>4, <2>5, <3>1 DEF Core, Reconciling, Past, Alive
  <2>7. t.pid = s.pid
    <3>1. t.pid \in Nat /\ s.pid \in Nat BY <1>3, <2>5, Pids DEF Core
    <3> QED BY <2>6, <3>1
  <2>8. t = s BY <1>3, <1>6, <2>4, <2>5, <2>7, Plays, OneSpec
  <2> QED BY <1>4, <2>2, <2>8
<1> QED BY <1>3, <1>5, <1>6

LEMMA OwnedStep ==
  ASSUME Valid(Maps), Core, OwnedProxies, [Next]_vars
  PROVE  OwnedProxies'
<1>1. ASSUME UNCHANGED <<starts, running, proxies, active>>,
             UNCHANGED call \/ (call' = NoCall /\ call.step # "start")
      PROVE  OwnedProxies'
  BY <1>1, OwnedStays DEF Alive
<1>2. CASE Reconcile
  <2>1. PICK s \in Spec4Proxy : Probe(s) \/ StopConflicting(s) \/ Start(s)
    BY <1>2 DEF Reconcile
  <2>2. CASE Probe(s)
    BY <2>2, OwnedStays DEF Probe, namespaces, Alive
  <2>3. CASE StopConflicting(s)
    <3>1. running' \subseteq running /\ UNCHANGED <<starts, proxies, active>>
      BY <2>3 DEF StopConflicting, Gone, namespaces
    <3> QED BY <2>3, <3>1, OwnedStays DEF StopConflicting, Alive
  <2> QED BY <2>1, <2>2, <2>3, StartOwned
<1>3. CASE Finish BY <1>3, SwapOwned DEF Finish
<1>4. CASE Loop
  BY <1>1, <1>4, SyncOwned
  DEF Loop, Subscribe, LoopLocks, LoopSync, LoopReturns, DebounceFires, ResyncFires, LoopNotices,
      Callers, workloads, namespaces, reconciler
<1>5. CASE Control
  BY <1>1, <1>5, SyncOwned
  DEF Control, ControlLocks, ControlSync, ControlReturns, NobodyReturns, Callers, workloads,
      namespaces, reconciler
<1>6. CASE Working
  BY <1>1, <1>6, SyncOwned
  DEF Working, WriteCandidate, ApplyImports, ApplyReturns, Commit, Undo, EndCommand,
      Callers, workloads, namespaces, reconciler
<1>7. CASE Asking
  BY <1>1, <1>7
  DEF Asking, Up, ImportPorts, RemovePortMappings, workloads, namespaces, reconciler
<1>8. CASE StreamEnds BY <1>1, <1>8 DEF StreamEnds, namespaces, reconciler
<1>9. CASE CommandDies
  <2>1. call'.started = call.started
    BY <1>9 DEF CommandDies, Core, TypeOK, ReconcilerType, Calls
  <2> QED BY <1>9, <2>1, OwnedStays DEF CommandDies, namespaces, reconciler, Alive
<1>10. CASE Environment
  BY <1>10, StaysGone, OwnedStays DEF Environment, reconciler, Core, Reconciling
<1>11. CASE Outage BY <1>11, EndedType DEF Outage, OwnedProxies, Core
<1>12. CASE UNCHANGED vars
  BY <1>1, <1>12 DEF vars, workloads, namespaces, reconciler
<1> QED BY <1>2, <1>3, <1>4, <1>5, <1>6, <1>7, <1>8, <1>9, <1>10, <1>11, <1>12 DEF Next

LEMMA OwnedInit == Init => OwnedProxies
BY DEF Init, WorkloadsInit, OwnedProxies

\* The sidecar never loses a proxy that a workload can still reach: it is an
\* entry, or was started by the call in progress (imports.go Apply).
THEOREM OwnedHolds == Undisturbed => (Spec => []OwnedProxies)
<1> SUFFICES ASSUME Undisturbed PROVE Spec => []OwnedProxies OBVIOUS
<1>1. Core /\ Valid(Maps) /\ OwnedProxies /\ [Next]_vars => OwnedProxies'
  BY OwnedStep
<1> QED BY <1>1, OwnedInit, CoreHolds, MapsHold, PTL DEF Spec

\* A proxy of the sidecar is served by its entry: what holds a port beyond it
\* is a process of the workload.
LEMMA HolderOwns ==
  ASSUME Valid(Maps), Core, OwnedProxies, call.started = {},
         NEW s \in Spec4Proxy, s \in call.specs, Alive(s), ~Serving(s), s.cont # Desktop,
         Taken(s.cont, s.map.port)
  PROVE  <<s.cont, s.map.port>> \in held
<1> SUFFICES ASSUME Proxied(s.cont, s.map.port) PROVE FALSE BY DEF Taken
<1>1. PICK t \in proxies : t.cont = s.cont /\ Alive(t) /\ t.map.port = s.map.port
  BY DEF Proxied
<1>2. t \in Spec4Proxy /\ t.pid = s.pid BY <1>1, Pids DEF Core, Alive
<1>3. t = s
  <2>1. t \in Entries BY <1>1 DEF OwnedProxies
  <2> QED BY <1>1, <1>2, <2>1, Plays, OneSpec
<1>4. s \in proxies /\ s \in Entries BY <1>1, <1>3 DEF OwnedProxies
<1> QED BY <1>4, OwnEntry DEF Serving

LEMMA StoppedStep ==
  ASSUME Valid(Maps), Core, OwnedProxies, [Next]_vars,
         call.step = "probe", call'.step = "stop"
  PROVE  \A s \in call'.victim : <<s.cont, s.map.port>> \in held
<1>1. Reconcile
  <2>1. ASSUME UNCHANGED call \/ call' = NoCall PROVE FALSE BY <2>1, NoCallFields
  <2>2. ASSUME NEW by \in Callers, NEW mode \in {"event", "transaction"}, Sync(by, mode)
        PROVE  FALSE
    BY <2>2, SyncBegins DEF Core
  <2>3. ~Finish BY DEF Finish, Swap
  <2>4. ~Loop
    BY <2>1, <2>2 DEF Loop, Subscribe, LoopLocks, LoopSync, LoopReturns, DebounceFires, ResyncFires,
       LoopNotices, Callers
  <2>5. ~Control BY <2>1, <2>2 DEF Control, ControlLocks, ControlSync, ControlReturns, NobodyReturns, Callers
  <2>6. ~Working
    BY <2>1, <2>2 DEF Working, WriteCandidate, ApplyImports, ApplyReturns, Commit, Undo,
       EndCommand, Callers
  <2>7. ~Asking BY <2>1 DEF Asking, Up, ImportPorts, RemovePortMappings
  <2>8. ~CommandDies
    <3>1. [call EXCEPT !.by = "nobody"].step = call.step
      BY DEF Core, TypeOK, ReconcilerType, Calls
    <3> QED BY <3>1 DEF CommandDies
  <2>9. ~Outage BY <2>1, EndedType DEF Outage, Core
  <2> QED BY <2>1, <2>3, <2>4, <2>5, <2>6, <2>7, <2>8, <2>9
        DEF Next, StreamEnds, Environment, vars
<1>2. PICK s \in Spec4Proxy : Probe(s)
  BY <1>1 DEF Reconcile, StopConflicting, Start
<1>3. call.started = {} /\ s \in call.specs
  BY <1>2 DEF Probe, Core, Reconciling, Called
<1>4. /\ ~Serving(s) /\ Alive(s) /\ Taken(s.cont, s.map.port) /\ s.cont # Desktop
      /\ call' = [call EXCEPT !.step = "stop", !.victim = {s}]
  <2>1. ASSUME NEW k \in SUBSET Target, ProbesOn(s, k) PROVE FALSE
    BY <2>1, ProbesOnType DEF Core
  <2>2. ~EndCall("error") BY EndCallType DEF Core
  <2>3. call.skipped \in SUBSET Target /\ call.skipped \cup {s.cont} \in SUBSET Target
    BY KeyType DEF Core, TypeOK, ReconcilerType, Calls
  <2> QED BY <1>2, <2>1, <2>2, <2>3 DEF Probe
<1>5. call'.victim = {s} BY <1>4 DEF Core, TypeOK, ReconcilerType, Calls
<1> QED BY <1>3, <1>4, <1>5, HolderOwns

\* A workload is stopped only for a port that a process of its own held when it
\* was probed, never for one of the sidecar's proxies (imports.go Apply).
THEOREM StopsOwnersOnly == Undisturbed => (Spec => OnlyOwnersStopped)
<1> SUFFICES ASSUME Undisturbed PROVE Spec => OnlyOwnersStopped OBVIOUS
<1>1. Core /\ Valid(Maps) /\ OwnedProxies /\ [Next]_vars =>
        [call.step = "probe" /\ call'.step = "stop" =>
           \A s \in call'.victim : <<s.cont, s.map.port>> \in held]_vars
  BY StoppedStep
<1> QED BY <1>1, OwnedHolds, CoreHolds,
           MapsHold, PTL DEF Spec, OnlyOwnersStopped

\* A port command that ends, and has not marked the box degraded, leaves only
\* proxies for what ports.json says (ports.go rollbackPortMappings).
THEOREM RefusedIsGone == Undisturbed => (Spec => RefusedLeavesNothing)
<1> SUFFICES ASSUME Undisturbed PROVE Spec => RefusedLeavesNothing OBVIOUS
<1>1. ASSUME Core, OwnedProxies, command.step = "end", ~degraded,
             NEW s \in proxies, Alive(s)
      PROVE  s.map \in files
  <2>1. call.started = {} /\ EntriesAsked BY <1>1, NoCallFields DEF Core, Answered
  <2>2. s \in Entries /\ s \in Spec4Proxy BY <1>1, <2>1, Pids DEF OwnedProxies, Core
  <2> QED BY <1>1, <2>1, <2>2, OwnEntry, NoProxyAssumption DEF EntriesAsked, Entered
<1>2. Core /\ OwnedProxies /\ [Next]_vars =>
        [command.step = "end" /\ command'.step = "idle" /\ command' # command
           /\ ~degraded /\ alive =>
           \A s \in proxies : Alive(s) => s.map \in files]_vars
  BY <1>1
<1> QED BY <1>2, OwnedHolds, CoreHolds, PTL DEF Spec, RefusedLeavesNothing
=============================================================================
