--------------------------- MODULE ServersProofs ---------------------------
(***************************************************************************)
(* A server that has ended has left no socket open and says why: proved    *)
(* for any number of publications and failures.                            *)
(*                                                                         *)
(* Neither half follows from the step that ends the server alone.  That no *)
(* socket is opened later needs that every goroutine has returned when all *)
(* results are in, so results are counted against goroutines; that the     *)
(* result names an error needs that nothing closes a socket, and no daemon *)
(* ends by itself, before a stop or a first result.                        *)
(***************************************************************************)
EXTENDS Servers, FiniteSets, FiniteSetTheorems, TLAPS

Workers == {"none", "starts", "runs", "over"}
Sockets == {"none", "open", "closed"}
Types ==
  /\ cmd \in {"publish", "dns", "sidecar"}
  /\ Len(addr) \in Nat \ {0} /\ Parts = 1 .. Len(addr)
  /\ at \in {"bind", "serve", "ended"}
  /\ sock \in [Parts -> Sockets] /\ worker \in [Parts -> Workers]
  /\ results \in Seq({"ok", "error"}) /\ cancelled \in BOOLEAN /\ stopping \in BOOLEAN
  /\ exit \in {"none", "ok", "error"}

Returned == {i \in Parts : worker[i] = "over"}
\* Every result is that of a goroutine which has returned.
Counted == Len(results) = Cardinality(Returned)
\* Who has ended starts nothing again, and has goroutines only once it serves.
Settled ==
  /\ at = "bind" => \A i \in Parts : worker[i] = "none" /\ sock[i] # "closed"
  /\ at = "bind" => results = <<>>
  /\ at = "ended" => \A i \in Parts : worker[i] \in {"none", "over"}
  /\ stopping => results # <<>>
\* As long as nobody stops the server, what ends ends with an error.
Blamed ==
  ~cancelled /\ at = "serve" =>
    /\ results # <<>> => "error" \in ToSet(results)
    /\ (\E i \in Parts : sock[i] = "closed") => results # <<>>
IInv == Types /\ Counted /\ Settled /\ Blamed /\ EndsClean

-----------------------------------------------------------------------------
\* One result more.
LEMMA AppendedResult ==
  ASSUME NEW s \in Seq({"ok", "error"}), NEW r \in {"ok", "error"}
  PROVE  /\ Append(s, r) \in Seq({"ok", "error"}) /\ Append(s, r) # <<>>
         /\ Len(Append(s, r)) = Len(s) + 1
         /\ "error" \in ToSet(s) \/ r = "error" => "error" \in ToSet(Append(s, r))
<1>1. /\ Append(s, r) \in Seq({"ok", "error"}) /\ Len(Append(s, r)) = Len(s) + 1
      /\ \A j \in 1 .. Len(s) : Append(s, r)[j] = s[j]
      /\ Append(s, r)[Len(s) + 1] = r
  OBVIOUS
<1>2. DOMAIN Append(s, r) = 1 .. Len(s) + 1 /\ DOMAIN s = 1 .. Len(s) BY <1>1
<1>3. /\ ToSet(s) = {s[j] : j \in DOMAIN s}
      /\ ToSet(Append(s, r)) = {Append(s, r)[j] : j \in DOMAIN Append(s, r)}
  BY DEF ToSet
<1>4. ASSUME "error" \in ToSet(s) PROVE "error" \in ToSet(Append(s, r))
  <2>1. PICK j \in 1 .. Len(s) : s[j] = "error" BY <1>2, <1>3, <1>4
  <2> QED BY <1>1, <1>2, <1>3, <2>1
<1>5. ASSUME r = "error" PROVE "error" \in ToSet(Append(s, r))
  BY <1>1, <1>2, <1>3, <1>5
<1> QED BY <1>1, <1>4, <1>5

\* One goroutine more has returned.
LEMMA OneReturns ==
  ASSUME Types, Counted, NEW i \in Parts, worker[i] # "over", NEW r \in {"ok", "error"},
         Return(i, r), UNCHANGED addr
  PROVE  /\ Counted' /\ worker' \in [Parts -> Workers]
         /\ \A j \in Parts : j # i => worker'[j] = worker[j]
         /\ worker'[i] = "over"
<1> USE DEF Types, Return, Workers, Parts
<1>1. Returned' = Returned \cup {i} /\ i \notin Returned BY DEF Returned
<1>2. IsFiniteSet(Parts) BY FS_Interval
<1>3. IsFiniteSet(Returned) BY <1>2, FS_Subset DEF Returned
<1>4. Cardinality(Returned') = Cardinality(Returned) + 1 BY <1>1, <1>3, FS_AddElement
<1> QED BY <1>4, AppendedResult DEF Counted

\* When all results are in, all goroutines have returned.
LEMMA AllReturned ==
  ASSUME Types, Counted, Len(results) = Len(addr)
  PROVE  \A i \in Parts : worker[i] = "over"
<1>0. Parts = 1 .. Len(addr) /\ Len(addr) \in Nat \ {0} BY DEF Types
<1>1. IsFiniteSet(Parts) /\ Cardinality(Parts) = Len(addr)
  <2>1. 1 \in Int /\ Len(addr) \in Int BY <1>0
  <2>2. IsFiniteSet(1 .. Len(addr)) BY <2>1, FS_Interval
  <2>3. Cardinality(1 .. Len(addr)) =
          IF 1 > Len(addr) THEN 0 ELSE Len(addr) - 1 + 1
    BY <2>1, FS_Interval
  <2>4. ~(1 > Len(addr)) /\ Len(addr) - 1 + 1 = Len(addr) BY <1>0
  <2> QED BY <1>0, <2>2, <2>3, <2>4
<1>2. Returned \subseteq Parts /\ Cardinality(Returned) = Cardinality(Parts)
  BY <1>1 DEF Counted, Returned
<1>3. Returned = Parts BY <1>1, <1>2, FS_Subset
<1> QED BY <1>3 DEF Returned

\* A change of the sockets leaves the goroutines counted.
LEMMA CountedStays ==
  ASSUME Counted, UNCHANGED <<addr, worker, results>>
  PROVE  Counted'
BY DEF Counted, Returned, Parts

-----------------------------------------------------------------------------
LEMMA InvInit == Init => IInv
<1> SUFFICES ASSUME Init PROVE IInv OBVIOUS
<1>1. Len(addr) \in Nat \ {0} /\ Parts = 1 .. Len(addr)
  <2>1. CASE cmd = "publish"
    <3>1. PICK n \in 1 .. MaxRoutes : addr \in [1 .. n -> Ports]
      BY <2>1, ServersAssumption DEF Init
    <3>2. DOMAIN addr = 1 .. n /\ n \in Nat \ {0} BY <3>1
    <3>3. addr \in Seq(Ports) BY <3>1, <3>2
    <3> QED BY <3>2, <3>3 DEF Parts
  <2>2. CASE cmd = "dns"
    <3>1. addr = <<"udp", "tcp">> BY <2>2 DEF Init
    <3> QED BY <3>1 DEF Parts
  <2>3. CASE cmd = "sidecar"
    <3>1. addr = <<"control", "daemon">> BY <2>3 DEF Init
    <3> QED BY <3>1 DEF Parts
  <2> QED BY <2>1, <2>2, <2>3, ServersAssumption DEF Init
<1>2. Types
  <2>1. cmd \in {"publish", "dns", "sidecar"} BY ServersAssumption DEF Init
  <2>2. at \in {"bind", "serve", "ended"} BY DEF Init
  <2>3. sock \in [Parts -> Sockets] BY DEF Init, Sockets
  <2>4. worker \in [Parts -> Workers] BY DEF Init, Workers
  <2>5. results \in Seq({"ok", "error"}) BY DEF Init
  <2> QED BY <1>1, <2>1, <2>2, <2>3, <2>4, <2>5 DEF Init, Types
<1>3. Returned = {} BY DEF Init, Returned
<1>4. Counted BY <1>3, FS_EmptySet DEF Init, Counted
<1>5. Settled /\ Blamed /\ EndsClean BY <1>2 DEF Init, Settled, Blamed, EndsClean
<1> QED BY <1>2, <1>4, <1>5 DEF IInv

-----------------------------------------------------------------------------
\* Closing sockets leaves none open.
LEMMA ClosedType ==
  ASSUME sock \in [Parts -> Sockets]
  PROVE  /\ Closed(sock) \in [Parts -> Sockets]
         /\ \A i \in Parts : Closed(sock)[i] # "open"
BY DEF Closed, Sockets

\* The steps of the process: Bind, Serve, Watch, First, End.
LEMMA BindStep == IInv /\ Bind => IInv'
<1> SUFFICES ASSUME IInv, Bind PROVE IInv' OBVIOUS
<1> USE DEF IInv, Bind, conf
<1>1. Parts' = Parts /\ Returned' = Returned BY DEF Parts, Returned
<1>2. at = "bind" /\ results = <<>> /\ \A i \in Parts : worker[i] = "none" BY DEF Settled
<1>3. Counted' BY CountedStays
<1>4. CASE Abandon
  <2>1. at' = "ended" /\ exit' = "error" /\ sock' = Closed(sock) BY <1>4 DEF Abandon
  <2>2. sock' \in [Parts -> Sockets] /\ \A i \in Parts : sock'[i] # "open"
    BY <2>1, ClosedType DEF Types
  <2>3. Types' BY <1>1, <2>1, <2>2 DEF Types
  <2>4. Settled' /\ Blamed' /\ EndsClean'
    BY <1>1, <1>2, <2>1, <2>2 DEF Settled, Blamed, EndsClean
  <2> QED BY <1>3, <2>3, <2>4
<1>5. CASE ~Abandon
  <2>1. sock' = [sock EXCEPT ![Tried + 1] = "open"] /\ at' = at /\ exit' = exit BY <1>5
  <2>2. sock' \in [Parts -> Sockets] /\ \A i \in Parts : sock'[i] # "closed"
    BY <1>2, <2>1 DEF Types, Sockets, Settled
  <2>3. Types' BY <1>1, <2>1, <2>2 DEF Types
  <2>4. Settled' /\ Blamed' /\ EndsClean'
    BY <1>1, <1>2, <2>1, <2>2 DEF Settled, Blamed, EndsClean
  <2> QED BY <1>3, <2>3, <2>4
<1> QED BY <1>4, <1>5

LEMMA ServeStep == IInv /\ Serve => IInv'
<1> SUFFICES ASSUME IInv, Serve PROVE IInv' OBVIOUS
<1> USE DEF IInv, Serve, conf
<1>1. Parts' = Parts BY DEF Parts
<1>2. Returned' = {} /\ Returned = {} BY <1>1 DEF Returned, Settled
<1>3. Counted' BY <1>2 DEF Counted
<1>4. Types' BY <1>1 DEF Types, Workers
<1> QED BY <1>1, <1>3, <1>4 DEF Settled, Blamed, EndsClean

LEMMA WatchStep == IInv /\ Watch => IInv'
<1> SUFFICES ASSUME IInv, Watch PROVE IInv' OBVIOUS
<1> USE DEF IInv, Watch, conf, ClosedAll
<1>1. Parts' = Parts BY DEF Parts
<1>2. Counted' BY CountedStays
<1>3. Types' BY <1>1, ClosedType DEF Types
<1>4. Blamed' BY <1>1 DEF Blamed, Stop, Settled
<1> QED BY <1>1, <1>2, <1>3, <1>4 DEF Settled, EndsClean

LEMMA FirstStep == IInv /\ First => IInv'
<1> SUFFICES ASSUME IInv, First PROVE IInv' OBVIOUS
<1> USE DEF IInv, First, FirstCloses, conf
<1>1. Parts' = Parts BY DEF Parts
<1>2. Counted' BY CountedStays
<1>3. Types' BY <1>1, ClosedType DEF Types
<1> QED BY <1>1, <1>2, <1>3 DEF Blamed, Settled, EndsClean

LEMMA EndStep == IInv /\ End => IInv'
<1> SUFFICES ASSUME IInv, End PROVE IInv' OBVIOUS
<1> USE DEF IInv, End, conf
<1>1. Parts' = Parts BY DEF Parts
<1>2. Counted' BY CountedStays
<1>3. \A i \in Parts : worker[i] = "over" BY AllReturned
<1>4. sock' \in [Parts -> Sockets] /\ \A i \in Parts : sock'[i] # "open"
  BY ClosedType DEF Types
<1>5. results # <<>> BY DEF Types
<1>6. Types' BY <1>1, <1>4 DEF Types, Report
<1>7. cancelled \/ Report = "error" BY <1>5 DEF Blamed, Report
<1>8. EndsClean' BY <1>1, <1>4, <1>7 DEF EndsClean
<1> QED BY <1>1, <1>2, <1>3, <1>6, <1>8 DEF Settled, Blamed

\* The steps of a goroutine.
LEMMA WorkStep == ASSUME IInv, NEW i \in Parts, Works(i) PROVE IInv'
<1> USE DEF IInv, conf
<1>1. Parts' = Parts /\ UNCHANGED <<cmd, addr, at, cancelled, stopping, exit>>
  BY DEF Works, Start, Ends, Fails, DaemonEnds, Parts
<1>2. worker[i] \in {"starts", "runs"} /\ at = "serve"
  BY DEF Works, Start, Ends, Fails, DaemonEnds, Settled, Types
<1>3. sock' \in [Parts -> Sockets]
  BY DEF Works, Start, Ends, Fails, DaemonEnds, Types, Sockets
<1>4. ASSUME NEW r \in {"ok", "error"}, Return(i, r),
             r = "ok" /\ ~cancelled => results # <<>>
      PROVE  IInv'
  <2>1. Counted' /\ worker' \in [Parts -> Workers] BY <1>1, <1>2, <1>4, OneReturns
  <2>2. results' = Append(results, r) BY <1>4 DEF Return
  <2>3. /\ results' \in Seq({"ok", "error"}) /\ results' # <<>>
        /\ "error" \in ToSet(results) \/ r = "error" => "error" \in ToSet(results')
    BY <1>4, <2>2, AppendedResult DEF Types
  <2>4. Types' BY <1>1, <1>3, <2>1, <2>3 DEF Types
  <2>5. Blamed' BY <1>1, <1>2, <1>4, <2>3 DEF Blamed
  <2> QED BY <1>1, <1>2, <2>1, <2>3, <2>4, <2>5 DEF Settled, EndsClean
<1>5. CASE Start(i)
  <2>1. CASE Return(i, "error") BY <1>4, <2>1
  <2>2. CASE ~Return(i, "error")
    <3>1. /\ worker' = [worker EXCEPT ![i] = "runs"] /\ results' = results
          /\ sock' = IF addr[i] = "control" THEN [sock EXCEPT ![i] = "open"] ELSE sock
      BY <1>5, <2>2 DEF Start
    <3>2. Types' BY <1>1, <1>3, <3>1 DEF Types, Workers
    <3>3. Returned' = Returned BY <1>1, <1>2, <3>1 DEF Returned, Types
    <3>4. Blamed' BY <1>1, <3>1 DEF Blamed, Types
    <3> QED BY <1>1, <1>2, <3>1, <3>2, <3>3, <3>4 DEF Counted, Settled, EndsClean
  <2> QED BY <2>1, <2>2
<1>6. CASE Ends(i)
  <2>1. Return(i, "ok") /\ sock[i] = "closed" BY <1>6 DEF Ends
  <2>2. ~cancelled => results # <<>> BY <1>2, <2>1 DEF Blamed
  <2> QED BY <1>4, <2>1, <2>2
<1>7. CASE Fails(i) BY <1>4, <1>7 DEF Fails
<1>8. CASE DaemonEnds(i)
  <2>1. ~cancelled => results # <<>> BY <1>8 DEF DaemonEnds, Stop, Settled
  <2> QED BY <1>4, <1>8, <2>1 DEF DaemonEnds
<1> QED BY <1>5, <1>6, <1>7, <1>8 DEF Works

LEMMA CancelStep == IInv /\ Cancel => IInv'
<1> SUFFICES ASSUME IInv, Cancel PROVE IInv' OBVIOUS
<1> USE DEF IInv, Cancel, conf
<1>1. Parts' = Parts BY DEF Parts
<1>2. Counted' BY CountedStays
<1> QED BY <1>1, <1>2 DEF Types, Settled, Blamed, EndsClean

LEMMA InvStep == IInv /\ [Next]_vars => IInv'
<1> SUFFICES ASSUME IInv, [Next]_vars PROVE IInv' OBVIOUS
<1>1. CASE UNCHANGED vars
  BY <1>1 DEF vars, conf, IInv, Types, Counted, Returned, Settled, Blamed, EndsClean, Parts
<1> QED
  BY <1>1, BindStep, ServeStep, WatchStep, FirstStep, EndStep, WorkStep, CancelStep
  DEF Next, Runs

\* A server that has ended, for whatever reason, has left no socket open and says why
\* (Listen, Serve, ServeDNS, runSidecar).
THEOREM ServersEndClean == Spec => []EndsClean
<1>1. IInv => EndsClean BY DEF IInv
<1> QED BY <1>1, InvInit, InvStep, PTL DEF Spec
=============================================================================
