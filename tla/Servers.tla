------------------------------ MODULE Servers ------------------------------
(***************************************************************************)
(* The long-lived commands of wktbox-loopback in the containers of a box,  *)
(* as processes that open sockets and serve them with one goroutine each:  *)
(*                                                                         *)
(*   publish-serve   the bridge of published ports, a listener per         *)
(*                   publication (loopback/publish.go)                     *)
(*   dns-serve       the resolver of connected boxes, one UDP and one TCP  *)
(*                   listener (interconnect/dns.go)                        *)
(*   serve           the sidecar: control socket and daemon                *)
(*                                                                         *)
(* A context that is cancelled, an accept that fails and a port that is    *)
(* taken reach the goroutines of one process in any order; what matters is *)
(* whether all of them end, and what the process then reports.             *)
(*                                                                         *)
(* Abstracted: connections and queries that are forwarded, which end with  *)
(* the process; the inside of the daemon (LoopbackDaemon).                 *)
(***************************************************************************)
EXTENDS Integers, Sequences, SequencesExt

CONSTANTS
  Commands,       \* a subset of {"publish", "dns", "sidecar"}
  Ports,          \* the source ports of publications
  MaxRoutes,      \* the number of publications
  MayFail,        \* a subset of {"bind", "accept", "close"}
  MaxFaults

ASSUME ServersAssumption ==
  /\ Commands \subseteq {"publish", "dns", "sidecar"} /\ MayFail \subseteq {"bind", "accept", "close"}
  /\ MaxRoutes \in Nat \ {0} /\ MaxFaults \in Nat

VARIABLES
  cmd,            \* the command of the process
  addr,           \* what its parts listen on
  taken,          \* what others listen on
  at,             \* "bind", "serve", "ended"
  sock,           \* per part, its socket
  worker,         \* per part, its goroutine
  cancelled,      \* the context of the process
  stopping,       \* the first result has come in (dns, sidecar)
  results,        \* the results of the goroutines, in the order they come in
  exit,           \* what the process reports
  faults

vars == <<cmd, addr, taken, at, sock, worker, cancelled, stopping, results, exit, faults>>
conf == <<cmd, addr, taken>>

Parts == DOMAIN addr
Fault(k) == k \in MayFail /\ faults < MaxFaults /\ faults' = faults + 1

Closed(s) == [i \in DOMAIN s |-> IF s[i] = "open" THEN "closed" ELSE s[i]]

CanBind(i) == addr[i] \notin taken /\ \A j \in Parts : sock[j] = "open" => addr[j] # addr[i]

\* The sidecar's parts begin at once; the others open all their sockets first.
Init ==
  /\ cmd \in Commands
  /\ addr \in CASE cmd = "publish" -> UNION {[1 .. n -> Ports] : n \in 1 .. MaxRoutes}
                [] cmd = "dns" -> {<<"udp", "tcp">>}
                [] cmd = "sidecar" -> {<<"control", "daemon">>}
  /\ taken \in SUBSET (Ports \cup {"udp", "tcp"})
  /\ at = IF cmd = "sidecar" THEN "serve" ELSE "bind"
  /\ sock = [i \in Parts |-> "none"]
  /\ worker = [i \in Parts |-> IF cmd = "sidecar" THEN "starts" ELSE "none"]
  /\ cancelled = FALSE /\ stopping = FALSE /\ results = <<>> /\ exit = "none" /\ faults = 0

-----------------------------------------------------------------------------
\* PublishServer.Listen, ServeDNS: the sockets are opened one after the other; when one
\* cannot be opened, those before it are closed.
Tried == Len(SelectSeq(sock, LAMBDA s : s # "none"))

\* Mutant: those before it stay open.
AbandonLast == at' = "ended" /\ exit' = "error" /\ UNCHANGED sock
Abandon == at' = "ended" /\ exit' = "error" /\ sock' = Closed(sock)

Bind ==
  /\ at = "bind" /\ Tried < Len(addr)
  /\ \/ /\ CanBind(Tried + 1) /\ sock' = [sock EXCEPT ![Tried + 1] = "open"]
        /\ UNCHANGED <<at, exit>>
     \/ ~CanBind(Tried + 1) /\ Abandon
  /\ UNCHANGED <<conf, worker, cancelled, stopping, results, faults>>

\* The goroutines are started, one of them for the context.
Serve ==
  /\ at = "bind" /\ Tried = Len(addr)
  /\ at' = "serve" /\ worker' = [i \in Parts |-> "runs"]
  /\ UNCHANGED <<conf, sock, cancelled, stopping, results, exit, faults>>

\* The goroutine of the context closes every socket.
\* Mutant: only the first.
ClosedFirst == [sock EXCEPT ![1] = IF @ = "open" THEN "closed" ELSE @]
ClosedAll == Closed(sock)
Stop == cancelled \/ (stopping /\ cmd = "sidecar")
Watch ==
  /\ at = "serve" /\ Stop /\ \E i \in Parts : sock[i] = "open"
  /\ sock' = ClosedAll
  /\ UNCHANGED <<conf, at, worker, cancelled, stopping, results, exit, faults>>

-----------------------------------------------------------------------------
\* A goroutine returns.
Return(i, result) ==
  worker' = [worker EXCEPT ![i] = "over"] /\ results' = Append(results, result)

\* ServeControl and Daemon.Run begin: the control socket is opened in its goroutine.
Start(i) ==
  /\ worker[i] = "starts"
  /\ \/ /\ worker' = [worker EXCEPT ![i] = "runs"]
        /\ sock' = IF addr[i] = "control" THEN [sock EXCEPT ![i] = "open"] ELSE sock
        /\ UNCHANGED <<results, faults>>
     \/ addr[i] = "control" /\ Fault("bind") /\ Return(i, "error") /\ UNCHANGED sock
  /\ UNCHANGED <<conf, at, cancelled, stopping, exit>>

\* Accept or ReadFrom finds its socket closed, or fails; the socket stays as it is, but
\* the control socket is closed.
Ends(i) ==
  /\ worker[i] = "runs" /\ sock[i] = "closed" /\ Return(i, "ok")
  /\ UNCHANGED <<conf, at, sock, cancelled, stopping, exit, faults>>
Fails(i) ==
  /\ worker[i] = "runs" /\ sock[i] = "open" /\ Fault("accept") /\ Return(i, "error")
  /\ sock' = IF cmd = "sidecar" THEN [sock EXCEPT ![i] = "closed"] ELSE sock
  /\ UNCHANGED <<conf, at, cancelled, stopping, exit>>

\* Daemon.Run ends with its context, and closes proxies and routes, which may fail.
DaemonEnds(i) ==
  /\ addr[i] = "daemon" /\ worker[i] = "runs" /\ Stop
  /\ \/ Return(i, "ok") /\ UNCHANGED faults
     \/ Fault("close") /\ Return(i, "error")
  /\ UNCHANGED <<conf, at, sock, cancelled, stopping, exit>>

\* ServeDNS, runSidecar: the first result ends the others.  (Serve has none.)
\* Mutant: it waits for the second without closing.
FirstAwaited == UNCHANGED sock
FirstCloses == sock' = IF cmd = "dns" THEN Closed(sock) ELSE sock
First ==
  /\ at = "serve" /\ cmd # "publish" /\ ~stopping /\ results # <<>>
  /\ stopping' = TRUE /\ FirstCloses
  /\ UNCHANGED <<conf, at, worker, cancelled, results, exit, faults>>

\* Mutant: the second result is returned.
ReportLast == results[Len(results)]
Report ==
  IF "error" \in ToSet(results) /\ ~(cmd = "dns" /\ cancelled) THEN "error" ELSE "ok"
End ==
  /\ at = "serve" /\ Len(results) = Len(addr) /\ (cmd = "publish" \/ stopping)
  /\ at' = "ended" /\ exit' = Report /\ sock' = Closed(sock)
  /\ UNCHANGED <<conf, worker, cancelled, stopping, results, faults>>

\* The container is stopped.
Cancel ==
  /\ ~cancelled /\ at # "ended" /\ cancelled' = TRUE
  /\ UNCHANGED <<conf, at, sock, worker, stopping, results, exit, faults>>

Runs == Bind \/ Serve \/ Watch \/ First \/ End
Works(i) == Start(i) \/ Ends(i) \/ Fails(i) \/ DaemonEnds(i)
Next == Runs \/ Cancel \/ \E i \in Parts : Works(i)

Spec == Init /\ [][Next]_vars
\* Goroutines are scheduled; nothing makes an accept fail.
Routines == 1 .. (IF MaxRoutes > 2 THEN MaxRoutes ELSE 2)
FairSpec ==
  /\ Spec /\ WF_vars(Runs)
  /\ \A i \in Routines : WF_vars(i \in Parts /\ (Start(i) \/ Ends(i) \/ DaemonEnds(i)))

-----------------------------------------------------------------------------
\* A server that has ended, for whatever reason, also because a later socket was taken,
\* has left no socket open, and says why unless it was asked to end (Listen, Serve,
\* ServeDNS, runSidecar).
EndsClean ==
  at = "ended" => /\ \A i \in Parts : sock[i] # "open"
                  /\ cancelled \/ exit = "error"

\* A server ends when it should: when its container is stopped, at whatever moment and
\* whatever has failed before; and the resolver when one of its two listeners has ended,
\* the sidecar when its control socket or its daemon has (Serve, ServeDNS, runSidecar).
EndsWhenDue == cancelled \/ (cmd # "publish" /\ results # <<>>) ~> at = "ended"

\* "observed state checks the publication bridge ... rather than assuming every mapping is
\* healthy": a bridge that goes on running accepts on every listener, since whether it
\* runs is all that is observed (Serve, ListManaged).
BridgeServes == cmd = "publish" /\ results # <<>> ~> at = "ended"
=============================================================================
