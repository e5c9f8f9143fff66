-------------------------- MODULE ImportReconciler --------------------------
(***************************************************************************)
(* ImportReconciler of the sidecar: the proxies it believes to run, its     *)
(* warnings and failures, and one call of Apply at a time, in the steps     *)
(* between which the namespaces may change: a probe, a stop, a start.       *)
(*                                                                          *)
(* The probes and starts of one call go through the containers in the order *)
(* of their names; the model takes them in any order.                       *)
(***************************************************************************)
EXTENDS Workloads

CONSTANT NoProxy    \* the zero value of activeImport

ASSUME NoProxyAssumption == NoProxy \notin Spec4Proxy

VARIABLES
  active,         \* key -> what its proxy was started for
  warnings,       \* [cont, name, code]
  failures,       \* the keys whose proxy could not be started
  call            \* the Apply in progress, and its result

reconciler == <<active, warnings, failures>>

\* Mutant: the key is the container ID alone.
KeyOfContainer(s) == <<s.cont>>

\* importKey: the container ID and the name of the mapping.
Key(s) == <<s.cont, s.map.name>>
KeysOf(S) == {Key(s) : s \in S}
Keys == Target \X {m.name : m \in Import}

Codes == {"conflict", "desktop"}
Callers == {"loop", "control", "command", "nobody"}
Calls == [step : {"idle", "probe", "stop", "start", "ok", "error"},
          by : Callers, mode : {"event", "transaction"},
          specs : SUBSET Spec4Proxy, todo : SUBSET Spec4Proxy,
          skipped : SUBSET Target, started : SUBSET Spec4Proxy,
          victim : SUBSET Spec4Proxy]
NoCall == [step |-> "idle", by |-> "nobody", mode |-> "event", specs |-> {},
           todo |-> {}, skipped |-> {}, started |-> {}, victim |-> {}]

\* importSpecs, over the containers that run now.
Specs(maps) == {[cont |-> c, pid |-> starts[c], map |-> m] : c \in running, m \in maps}

\* Mutants: every call starts its proxies anew; the PID is not compared.
ServingNever(s) == FALSE
ServingAnyPid(s) ==
  /\ Key(s) \in DOMAIN active /\ active[Key(s)] # NoProxy
  /\ active[Key(s)].map = s.map
  /\ active[Key(s)] \in proxies

\* The key has a proxy, made for this very spec, that runs.
Serving(s) ==
  /\ Key(s) \in DOMAIN active /\ active[Key(s)] = s
  /\ s \in proxies

\* Mutant: a warning stays when its import works again.
StillWarned(s) == warnings

\* delete(warnings, key), and a new warning for the key.
Unwarned(s) == {w \in warnings : <<w.cont, w.name>> # Key(s)}
Warned(s, code) ==
  Unwarned(s) \cup {[cont |-> s.cont, name |-> s.map.name, code |-> code]}

-----------------------------------------------------------------------------
\* Preflight: what a port command asks before it changes anything.

PreflightPasses(maps) ==
  \A s \in Specs(maps) :
    Serving(s) \/ s.cont = Desktop \/ ~Taken(s.cont, s.map.port)

-----------------------------------------------------------------------------
\* Apply.

\* The call ends, with a result for its caller.
EndCall(result) ==
  call' = [NoCall EXCEPT !.step = result, !.by = call.by, !.specs = call.specs]

\* After a probe: the next probe, or the starts.
ProbesOn(s, skipped) ==
  LET rest == call.todo \ {s}
  IN call' = IF rest # {}
             THEN [call EXCEPT !.step = "probe", !.todo = rest,
                               !.skipped = skipped, !.victim = {}]
             ELSE [call EXCEPT !.step = "start", !.victim = {},
                               !.todo = {t \in call.specs : t.cont \notin skipped},
                               !.skipped = skipped]

\* A zero entry is read as a proxy that is not running, and closed: Close of
\* a nil interface ends the sidecar.
Panics == \E k \in DOMAIN active : active[k] = NoProxy

\* pruneWarnings, pruneExited and pruneFailures.
Begin(by, mode, maps) ==
  /\ call.step = "idle"
  /\ LET specs == Specs(maps)
         names == {m.name : m \in maps}
         kept == {k \in DOMAIN active : active[k] \in proxies}
     IN /\ warnings' = {w \in warnings : w.name \in names}
        /\ active' = [k \in kept |-> active[k]]
        /\ failures' = failures \cap KeysOf(specs)
        /\ call' = [NoCall EXCEPT !.step = IF specs = {} THEN "start" ELSE "probe",
                                  !.by = by, !.mode = mode,
                                  !.specs = specs, !.todo = specs]

\* Apply is not reached: no snapshot of the containers, or no ports.json.
BeginFails(by) ==
  /\ call.step = "idle" /\ Fault("snapshot")
  /\ call' = [NoCall EXCEPT !.step = "error", !.by = by]
  /\ UNCHANGED reconciler

\* One turn of the first loop.  A probe binds the port and gives it back.
Probe(s) ==
  /\ call.step = "probe" /\ s \in call.todo
  /\ UNCHANGED <<namespaces, proxies, routes, active>>
  /\ \/ /\ Serving(s) /\ NoFault
        /\ ProbesOn(s, call.skipped)
        /\ warnings' = Unwarned(s) /\ failures' = failures \ {Key(s)}
     \/ /\ ~Serving(s) /\ ~Alive(s) /\ NoFault
        /\ ProbesOn(s, call.skipped \cup {s.cont})
        /\ failures' = failures \ {Key(s)} /\ UNCHANGED warnings
     \/ /\ ~Serving(s) /\ Alive(s) /\ ~Taken(s.cont, s.map.port) /\ NoFault
        /\ ProbesOn(s, call.skipped)
        /\ warnings' = Unwarned(s) /\ UNCHANGED failures
     \/ /\ ~Serving(s) /\ Alive(s) /\ Fault("probe")
        /\ EndCall("error") /\ UNCHANGED <<warnings, failures>>
     \/ /\ ~Serving(s) /\ Alive(s) /\ Taken(s.cont, s.map.port) /\ NoFault
        /\ \/ /\ s.cont = Desktop
              /\ ProbesOn(s, call.skipped \cup {s.cont})
              /\ warnings' = Warned(s, "desktop") /\ failures' = failures \ {Key(s)}
           \/ /\ s.cont # Desktop /\ call.mode = "transaction"
              /\ EndCall("error") /\ UNCHANGED <<warnings, failures>>
           \/ /\ s.cont # Desktop /\ call.mode = "event" /\ s.cont \in call.skipped
              /\ ProbesOn(s, call.skipped) /\ UNCHANGED <<warnings, failures>>
           \/ /\ s.cont # Desktop /\ call.mode = "event" /\ s.cont \notin call.skipped
              /\ call' = [call EXCEPT !.step = "stop", !.victim = {s}]
              /\ UNCHANGED <<warnings, failures>>

\* docker stop, by the ID of the container.
StopConflicting(s) ==
  /\ call.step = "stop" /\ s \in call.victim
  /\ UNCHANGED <<proxies, routes, active>>
  /\ \/ /\ IF s.cont \in running THEN Gone(s.cont) ELSE UNCHANGED namespaces
        /\ NoFault
        /\ ProbesOn(s, call.skipped \cup {s.cont})
        /\ warnings' = Warned(s, "conflict") /\ failures' = failures \ {Key(s)}
     \/ /\ Fault("stop")
        /\ EndCall("error") /\ UNCHANGED <<namespaces, warnings, failures>>

\* One turn of the second loop.  A start that fails closes the proxies this
\* call has started and records all of them as failed.
Start(s) ==
  /\ call.step = "start" /\ s \in call.todo
  /\ UNCHANGED <<namespaces, routes, active, warnings>>
  /\ \/ /\ Serving(s) /\ NoFault
        /\ call' = [call EXCEPT !.todo = @ \ {s}] /\ UNCHANGED <<proxies, failures>>
     \/ /\ ~Serving(s) /\ Alive(s) /\ ~Taken(s.cont, s.map.port) /\ NoFault
        /\ proxies' = proxies \cup {s}
        /\ call' = [call EXCEPT !.todo = @ \ {s}, !.started = @ \cup {s}]
        /\ failures' = failures \ {Key(s)}
     \/ /\ ~Serving(s)
        /\ \/ (~Alive(s) \/ Taken(s.cont, s.map.port)) /\ NoFault
           \/ Fault("start")
        /\ proxies' = proxies \ call.started
        /\ failures' = failures \cup {Key(s)} \cup KeysOf(call.started)
        /\ EndCall("error")

\* The entry a key gets: a proxy that has exited since the second loop found
\* it running was not started again, and leaves the zero value.
NextEntry(s) ==
  CASE Serving(s) -> active[Key(s)]
    [] ~Serving(s) /\ s \in call.started -> s
    [] OTHER -> NoProxy

\* Mutant: proxies that are no longer wanted are left running.
SwapClosingNone ==
  /\ call.step = "start" /\ call.todo = {}
  /\ LET next == {s \in call.specs : s.cont \notin call.skipped}
     IN /\ active' = [k \in KeysOf(next) |->
                        NextEntry(CHOOSE s \in next : Key(s) = k)]
        /\ proxies' = proxies
  /\ EndCall("ok")
  /\ UNCHANGED <<namespaces, routes, warnings, failures, faults>>

\* The end of Apply: the new entries replace the old ones, and the proxies
\* whose key has no new entry are closed.
Swap ==
  /\ call.step = "start" /\ call.todo = {}
  /\ LET next == {s \in call.specs : s.cont \notin call.skipped}
     IN /\ active' = [k \in KeysOf(next) |->
                        NextEntry(CHOOSE s \in next : Key(s) = k)]
        /\ proxies' = proxies \ {active[k] : k \in DOMAIN active \ KeysOf(next)}
  /\ EndCall("ok")
  /\ UNCHANGED <<namespaces, routes, warnings, failures, faults>>

\* Statuses: what the sidecar says of its imports.
StatusOf(k) == IF active[k] \in proxies THEN "listening" ELSE "exited"
Listening == {k \in DOMAIN active : StatusOf(k) = "listening"}
NotListening ==
  {k \in DOMAIN active : StatusOf(k) = "exited" /\ active[k] # NoProxy}
    \cup (failures \ DOMAIN active)

ReconcilerInit ==
  active = <<>> /\ warnings = {} /\ failures = {} /\ call = NoCall

ReconcilerType ==
  /\ DOMAIN active \subseteq Keys
  /\ \A k \in DOMAIN active : active[k] \in Spec4Proxy \cup {NoProxy}
  /\ warnings \subseteq [cont : Target, name : {m.name : m \in Import}, code : Codes]
  /\ failures \subseteq Keys
  /\ call \in Calls
=============================================================================
