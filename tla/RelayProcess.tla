--------------------------- MODULE RelayProcess ---------------------------
(***************************************************************************)
(* The host import relay of one box: a process that a command starts,      *)
(* keeps, replaces or stops, and that outlives the command                 *)
(* (portforward/relay_process.go and relay.go).                            *)
(*                                                                          *)
(* The commands of a box follow one another, because each holds the box    *)
(* lock (BoxManager), but a command can be killed or give up, and a relay  *)
(* that it has started then comes up later, next to the commands that      *)
(* follow.                                                                 *)
(*                                                                          *)
(* Abstracted: all addresses have the one relay port of the box; a probe   *)
(* and a stop request are one step each; an import that a workload opens   *)
(* leaves no state; files are replaced whole (writePrivateFile).  A relay  *)
(* is one of the processes in Relays, and a process that has ended may be  *)
(* started again as another relay.                                         *)
(***************************************************************************)
EXTENDS Naturals

CONSTANTS
  Relays,         \* the processes that may become a relay
  Hosts,          \* the addresses a relay can be told to listen on
  Wildcard,       \* 0.0.0.0: every address
  Loopback,       \* 127.0.0.1
  Tokens,         \* the tokens that may be drawn
  Nobody,         \* no token, no process, no address
  MayFail,        \* the kinds of failure that occur, a subset of FaultKinds
  MaxFaults       \* how many of them occur in a behaviour

\* "write" a file cannot be written;  "launch" the relay cannot be started
\* "late"  a relay takes longer to come up than a command waits for it, or than
\*         the Docker calls of the next command last
\* "slow"  an answer comes after the time limit of a probe or of a stop
\* "die"   a relay is killed;         "crash"  a command is killed
\* "rebind" the host or its user chooses another address for relays
\* "foreign" another program listens on the relay port
FaultKinds == {"write", "launch", "late", "slow", "die", "crash", "rebind", "foreign"}

ASSUME RelayAssumption ==
  /\ {Wildcard, Loopback} \subseteq Hosts /\ Nobody \notin Hosts \cup Tokens \cup Relays
  /\ MayFail \subseteq FaultKinds /\ MaxFaults \in Nat

VARIABLES
  box,            \* the box exists: it has reserved the relay port
  relay,          \* per process: where it is, its address and its token
  token,          \* port-relay.token
  pid,            \* port-relay.pid
  listen,         \* port-relay.listen, the address the last relay recorded
  bind,           \* the address that relayHost chooses now
  foreign,        \* addresses on which another program listens
  cmd,            \* the command that runs, and its locals
  faults          \* failures so far

files == <<token, pid, listen>>
vars == <<box, relay, files, bind, foreign, cmd, faults>>

Places == {"gone", "launched", "minting", "ready", "bound", "recorded", "serving",
           "asked", "closed", "unlisted"}
Processes == [at : Places, host : Hosts \cup {Nobody}, token : Tokens \cup {Nobody}]
Gone == [at |-> "gone", host |-> Nobody, token |-> Nobody]

Commands ==
  [op : {"none", "ensure", "stop", "destroy", "probe"},
   at : {"idle", "token", "minting", "probe", "check", "replace", "drain", "launch",
         "await", "stop", "remove", "ask", "done"},
   host : Hosts \cup {Nobody}, token : Tokens \cup {Nobody}, ok : BOOLEAN]
Idle == [op |-> "none", at |-> "idle", host |-> Nobody, token |-> Nobody, ok |-> FALSE]

Fault(k) == k \in MayFail /\ faults < MaxFaults /\ faults' = faults + 1
NoFault == faults' = faults

\* Two listeners cannot have addresses that overlap.
Overlap(h, i) == h = i \/ Wildcard \in {h, i}
Holds(r) == relay[r].at \in {"bound", "recorded", "serving", "asked"}
Taken(h) ==
  \/ \E i \in foreign : Overlap(h, i)
  \/ \E r \in Relays : Holds(r) /\ Overlap(h, relay[r].host)

\* relayOptions: a relay on every address is asked on the loopback address.
Probed(h) == IF h = Wildcard THEN Loopback ELSE h
Reaches(h, i) == i \in {h, Wildcard}
Asked == Probed(cmd.host)

\* What a request to the probed address finds.
Answering == {r \in Relays : relay[r].at \in {"serving", "asked"} /\ Reaches(Asked, relay[r].host)}
Accepting == {r \in Answering : relay[r].token = cmd.token}
Starting == {r \in Relays : relay[r].at \in {"bound", "recorded"} /\ Reaches(Asked, relay[r].host)}
Stranger == \E i \in foreign : Reaches(Asked, i)
OnTheWay == {r \in Relays : relay[r].at \in {"launched", "minting", "ready", "bound", "recorded"}}

ProbeOk == Accepting # {} /\ NoFault
ProbeFails == (Accepting = {} /\ NoFault) \/ Fault("slow")

Fresh == Tokens \ ({token, cmd.token} \cup {relay[r].token : r \in Relays})

Goto(at) == cmd' = [cmd EXCEPT !.at = at]
Done(ok) == cmd' = [cmd EXCEPT !.at = "done", !.ok = ok]

-----------------------------------------------------------------------------
\* The relay process: RunRelayProcess.

\* Mutant: every relay draws a token of its own.
OwnToken(r) ==
  /\ relay[r].at = "launched" /\ NoFault
  /\ \E t \in Fresh : relay' = [relay EXCEPT ![r].at = "ready", ![r].token = t]
  /\ UNCHANGED <<box, files, bind, foreign, cmd>>
\* EnsureRelayToken: the token of the file, or else a new one that is written.
ReadToken(r) ==
  /\ relay[r].at = "launched" /\ NoFault
  /\ \/ token # Nobody /\ relay' = [relay EXCEPT ![r].at = "ready", ![r].token = token]
     \/ token = Nobody /\ \E t \in Fresh :
          relay' = [relay EXCEPT ![r].at = "minting", ![r].token = t]
  /\ UNCHANGED <<box, files, bind, foreign, cmd>>

WriteToken(r) ==
  /\ relay[r].at = "minting"
  /\ \/ NoFault /\ token' = relay[r].token /\ relay' = [relay EXCEPT ![r].at = "ready"]
     \/ Fault("write") /\ relay' = [relay EXCEPT ![r] = Gone] /\ UNCHANGED token
  /\ UNCHANGED <<box, pid, listen, bind, foreign, cmd>>

\* net.Listen
Bind(r) ==
  /\ relay[r].at = "ready" /\ NoFault
  /\ relay' = [relay EXCEPT ![r] =
       IF Taken(relay[r].host) THEN Gone ELSE [@ EXCEPT !.at = "bound"]]
  /\ UNCHANGED <<box, files, bind, foreign, cmd>>

RecordPID(r) ==
  /\ relay[r].at = "bound"
  /\ \/ NoFault /\ pid' = r /\ relay' = [relay EXCEPT ![r].at = "recorded"]
     \/ Fault("write") /\ relay' = [relay EXCEPT ![r] = Gone] /\ UNCHANGED pid
  /\ UNCHANGED <<box, token, listen, bind, foreign, cmd>>

\* Mutant: the relay records the address at which it is probed.
RecordProbed(r) ==
  /\ relay[r].at = "recorded" /\ NoFault
  /\ listen' = Probed(relay[r].host) /\ relay' = [relay EXCEPT ![r].at = "serving"]
  /\ UNCHANGED <<box, token, pid, bind, foreign, cmd>>
\* A relay whose listen record cannot be written removes its PID and ends.
RecordListen(r) ==
  /\ relay[r].at = "recorded"
  /\ \/ NoFault /\ listen' = relay[r].host /\ relay' = [relay EXCEPT ![r].at = "serving"]
     \/ Fault("write") /\ relay' = [relay EXCEPT ![r].at = "unlisted"] /\ UNCHANGED listen
  /\ UNCHANGED <<box, token, pid, bind, foreign, cmd>>

\* handle, Close: the answer to a stop request is sent before the listener closes.
Close(r) ==
  /\ relay[r].at = "asked" /\ NoFault
  /\ relay' = [relay EXCEPT ![r].at = "closed"]
  /\ UNCHANGED <<box, files, bind, foreign, cmd>>

\* The deferred removals, in reverse order: they remove whatever is there.
Unlist(r) ==
  /\ relay[r].at = "closed" /\ NoFault
  /\ listen' = Nobody /\ relay' = [relay EXCEPT ![r].at = "unlisted"]
  /\ UNCHANGED <<box, token, pid, bind, foreign, cmd>>
Exit(r) ==
  /\ relay[r].at = "unlisted" /\ NoFault
  /\ pid' = Nobody /\ relay' = [relay EXCEPT ![r] = Gone]
  /\ UNCHANGED <<box, token, listen, bind, foreign, cmd>>

RelayStep(r) == \/ ReadToken(r) \/ WriteToken(r) \/ Bind(r) \/ RecordPID(r)
                \/ RecordListen(r) \/ Close(r) \/ Unlist(r) \/ Exit(r)

-----------------------------------------------------------------------------
\* The commands: EnsureRelayProcess, StopRelayProcess, Probe.
world == <<box, relay, files, bind, foreign>>

\* A new box gets this port if the allocator finds it free on every address.
Create ==
  /\ ~box /\ cmd = Idle /\ ~Taken(Wildcard) /\ NoFault
  /\ box' = TRUE /\ UNCHANGED <<relay, files, bind, foreign, cmd>>

\* Mutant: the command works on the address that the last relay recorded.
BeginRecorded(op) ==
  /\ box /\ cmd = Idle /\ ((OnTheWay = {} /\ NoFault) \/ Fault("late"))
  /\ cmd' = [Idle EXCEPT !.op = op, !.host = listen, !.at = "token"]
  /\ UNCHANGED world

\* relayOptions.  The Docker calls before it last longer than a relay needs.
Begin(op) ==
  /\ box /\ cmd = Idle /\ ((OnTheWay = {} /\ NoFault) \/ Fault("late"))
  /\ cmd' = [Idle EXCEPT !.op = op, !.host = bind, !.at = "token"]
  /\ UNCHANGED world

\* EnsureRelayToken for Ensure; the others only read.  A box without a token has
\* no relay to stop.
TakeToken ==
  /\ cmd.at = "token" /\ NoFault
  /\ \/ token # Nobody /\ cmd' = [cmd EXCEPT !.token = token, !.at =
          CASE cmd.op = "ensure" -> "probe" [] cmd.op = "probe" -> "ask" [] OTHER -> "stop"]
     \/ token = Nobody /\ cmd.op = "ensure"
        /\ \E t \in Fresh : cmd' = [cmd EXCEPT !.token = t, !.at = "minting"]
     \/ token = Nobody /\ cmd.op = "probe" /\ Done(FALSE)
     \/ token = Nobody /\ cmd.op = "stop" /\ Done(TRUE)
     \/ token = Nobody /\ cmd.op = "destroy" /\ Goto("remove")
  /\ UNCHANGED world

MintToken ==
  /\ cmd.at = "minting"
  /\ \/ NoFault /\ token' = cmd.token /\ Goto("probe")
     \/ Fault("write") /\ Done(FALSE) /\ UNCHANGED token
  /\ UNCHANGED <<box, relay, pid, listen, bind, foreign>>

Probe ==
  /\ cmd.at = "probe"
  /\ \/ ProbeOk /\ Goto("check")
     \/ ProbeFails /\ Goto("launch")
  /\ UNCHANGED world

\* Mutant: a relay of another address is reported instead of replaced.
RefuseListen ==
  /\ cmd.at = "check" /\ NoFault /\ Done(listen = cmd.host)
  /\ UNCHANGED world
\* relayListensOn: a relay is kept if its record names the asked address.
CheckListen ==
  /\ cmd.at = "check" /\ NoFault
  /\ \/ listen = cmd.host /\ Done(TRUE)
     \/ listen # cmd.host /\ Goto("replace")
  /\ UNCHANGED world

\* StopRelay at the probed address; the time limit of a stop is a network error.
StopAnswered ==
  \E r \in Accepting : NoFault /\ relay' = [relay EXCEPT ![r].at = "asked"]
StopRefused == Answering = {} /\ Starting = {} /\ ~Stranger /\ NoFault /\ UNCHANGED relay
StopRejected ==
  (\E r \in Answering : relay[r].token # cmd.token) /\ NoFault /\ UNCHANGED relay
StopTimesOut ==
  \/ Stranger /\ NoFault /\ UNCHANGED relay
  \/ Answering # {} /\ Fault("slow")
     /\ \/ UNCHANGED relay
        \/ \E r \in Accepting : relay' = [relay EXCEPT ![r].at = "asked"]
Misanswered == Stranger /\ NoFault /\ UNCHANGED relay

\* replaceRelay: stop, then wait until nobody answers.
Replace ==
  /\ cmd.at = "replace"
  /\ \/ StopAnswered /\ Goto("drain")
     \/ (StopRefused \/ StopRejected \/ StopTimesOut \/ Misanswered) /\ Done(FALSE)
  /\ UNCHANGED <<box, files, bind, foreign>>

Drain ==
  /\ cmd.at = "drain"
  /\ \/ ProbeFails /\ Goto("launch")
     \/ /\ ((\E r \in Accepting : relay[r].at = "serving") /\ NoFault) \/ Fault("late")
        /\ Accepting # {} /\ Done(FALSE)
  /\ UNCHANGED world

Launch ==
  /\ cmd.at = "launch"
  /\ \/ /\ NoFault /\ Goto("await")
        /\ \E r \in Relays :
             /\ relay[r] = Gone
             /\ relay' = [relay EXCEPT ![r].at = "launched", ![r].host = cmd.host]
     \/ Fault("launch") /\ Done(FALSE) /\ UNCHANGED relay
  /\ UNCHANGED <<box, files, bind, foreign>>

\* Ensure waits five seconds for an answer.
Await ==
  /\ cmd.at = "await"
  /\ \/ ProbeOk /\ Done(TRUE)
     \/ Accepting = {} /\ ((OnTheWay = {} /\ NoFault) \/ Fault("late")) /\ Done(FALSE)
  /\ UNCHANGED world

Stop ==
  /\ cmd.at = "stop"
  /\ \/ (StopAnswered \/ StopRefused \/ StopTimesOut)
        /\ IF cmd.op = "destroy" THEN Goto("remove") ELSE Done(TRUE)
     \/ (StopRejected \/ Misanswered) /\ Done(FALSE)
  /\ UNCHANGED <<box, files, bind, foreign>>

\* Destroy: the box directory goes with its files.
RemoveFiles ==
  /\ cmd.at = "remove" /\ NoFault /\ Done(TRUE)
  /\ box' = FALSE /\ token' = Nobody /\ pid' = Nobody /\ listen' = Nobody
  /\ UNCHANGED <<relay, bind, foreign>>

\* nativeRelayLifecycle.Probe
Ask ==
  /\ cmd.at = "ask"
  /\ (ProbeOk /\ Done(TRUE)) \/ (ProbeFails /\ Done(FALSE))
  /\ UNCHANGED world

Return == cmd.at = "done" /\ cmd' = Idle /\ NoFault /\ UNCHANGED world

CommandStep == \/ TakeToken \/ MintToken \/ Probe \/ CheckListen \/ Replace \/ Drain
               \/ Launch \/ Await \/ Stop \/ RemoveFiles \/ Ask \/ Return

-----------------------------------------------------------------------------
\* The environment.
Dies(r) ==
  /\ relay[r] # Gone /\ Fault("die") /\ relay' = [relay EXCEPT ![r] = Gone]
  /\ UNCHANGED <<box, files, bind, foreign, cmd>>
Killed == cmd # Idle /\ Fault("crash") /\ cmd' = Idle /\ UNCHANGED world
Rebind(h) ==
  /\ h # bind /\ Fault("rebind") /\ bind' = h
  /\ UNCHANGED <<box, relay, files, foreign, cmd>>
Intrude(h) ==
  /\ ~Taken(h) /\ Fault("foreign") /\ foreign' = foreign \cup {h}
  /\ UNCHANGED <<box, relay, files, bind, cmd>>
Leave(h) ==
  /\ h \in foreign /\ NoFault /\ foreign' = foreign \ {h}
  /\ UNCHANGED <<box, relay, files, bind, cmd>>

Init ==
  /\ box = FALSE
  /\ relay = [r \in Relays |-> Gone]
  /\ token = Nobody /\ pid = Nobody /\ listen = Nobody
  /\ bind \in Hosts /\ foreign = {} /\ cmd = Idle /\ faults = 0

Next ==
  \/ Create
  \/ \E op \in {"ensure", "stop", "destroy", "probe"} : Begin(op)
  \/ CommandStep
  \/ \E r \in Relays : RelayStep(r) \/ Dies(r)
  \/ Killed
  \/ \E h \in Hosts : Rebind(h) \/ Intrude(h) \/ Leave(h)

Spec == Init /\ [][Next]_vars
FairSpec == Spec /\ WF_vars(CommandStep) /\ \A r \in Relays : WF_vars(RelayStep(r))

-----------------------------------------------------------------------------
\* Types; a command knows its address, and a relay that listens has an address and
\* a token (RunRelayProcess, relayOptions).
TypeOK ==
  /\ box \in BOOLEAN /\ relay \in [Relays -> Processes] /\ cmd \in Commands
  /\ token \in Tokens \cup {Nobody} /\ pid \in Relays \cup {Nobody}
  /\ listen \in Hosts \cup {Nobody} /\ bind \in Hosts
  /\ foreign \subseteq Hosts /\ faults \in 0 .. MaxFaults
  /\ cmd.at # "idle" => cmd.host # Nobody
  /\ \A r \in Relays : /\ relay[r].at # "gone" => relay[r].host # Nobody
                       /\ relay[r].at \notin {"gone", "launched"} => relay[r].token # Nobody

\* A relay that Ensure keeps listens on the address that is asked for, and not on
\* one that only includes it: whatever relays have written and removed the listen
\* record before, it never names another address that would have been reachable in
\* the same way (EnsureRelayProcess, relayListensOn).
KeptIsAsked ==
  [][cmd.at = "check" /\ cmd'.at = "done" =>
       \A r \in Answering : relay[r].host = cmd.host]_vars

\* No box is destroyed while a relay is on the way to its port.
InTime == cmd.at = "remove" => OnTheWay = {}

\* A relay of the box accepts the token that commands and the sidecar read from
\* the token file, also when the box was destroyed and created again
\* (EnsureRelayToken, Destroy).  It takes that relays come up in time: one that
\* read the file of the former box and binds later serves with a lost token.
Agree ==
  box /\ cmd.at # "remove" =>
    \A r \in Relays : relay[r].at = "serving" => relay[r].token = token
TokenAgrees == []InTime => []Agree

Ended == cmd.op = "ensure" /\ cmd.at = "done"

\* A relay that holds the asked address, but does not answer where that address
\* is probed: one on a single address, once relays shall listen on every address.
Unfound ==
  \E r \in Relays : Holds(r) /\ Overlap(bind, relay[r].host)
                    /\ ~Reaches(Probed(bind), relay[r].host)

\* The address of relays changes no more, and no other program holds the port.
Settles == (\E h \in Hosts : <>[](bind = h)) /\ <>[](foreign = {})

\* Whatever failed and however often the address changed before: when commands go
\* on to ensure the relay, the address and the port are settled and no relay is
\* left unfound, some Ensure succeeds (EnsureRelayProcess).  A relay with a lost
\* token would refuse to stop.
EnsureHeals == []InTime /\ Settles /\ <>[]~Unfound /\ []<>Ended => []<>(Ended /\ cmd.ok)

\* What the code does not do: find the relay that is left on another address.
RebindHeals == []InTime /\ Settles /\ []<>Ended => []<>(Ended /\ cmd.ok)

\* "A different desired bind stops the running relay before relaunching": after an
\* Ensure that succeeds no relay serves another address (the comment in
\* TestEnsureRelayProcessReplacesRelayWithOutdatedBind).
EnsureReplaces ==
  [][cmd.op = "ensure" /\ cmd.at # "done" /\ cmd'.at = "done" /\ cmd'.ok =>
       \A r \in Relays : relay[r].at = "serving" => relay[r].host = cmd.host]_vars
=============================================================================
