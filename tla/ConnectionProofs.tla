--------------------------- MODULE ConnectionProofs ---------------------------
(***************************************************************************)
(* Connections, proved for any number of boxes, connections and failures:   *)
(* boxes share a network only as state.json says, and what state.json says  *)
(* is well formed.                                                          *)
(*                                                                          *)
(* Both follow from what a command keeps of its loaded state at every step: *)
(* it covers the networks there are, it is sheltered by what is saved, and  *)
(* it is well named, so that it can be saved at the end.                    *)
(***************************************************************************)
EXTENDS Connections, TLAPS

Working == {"network", "attach", "verify", "detach", "remove"}

\* The loaded state of a command, relative to Docker and to what is saved.
Covers(st) ==
  /\ networks \subseteq Listed(st)
  /\ \A a \in attached : a[1] \in Listed(st) /\ a[2] \in st.conns[a[1]].members
Sheltered(st, in) ==
  \A c \in Listed(st) :
    c \in Listed(in) /\ st.conns[c].members \subseteq in.conns[c].members
WellNamed(st) ==
  \A c \in Listed(st) :
    /\ st.conns[c].members \subseteq st.boxes
    /\ \A d \in Listed(st) \ {c} :
         st.conns[c].name \in Names => st.conns[d].name # st.conns[c].name

\* The connection at work and those still to do.
AtWork(d) ==
  /\ d.step = "record" /\ d.op = "connect" => d.conn \in Listed(d.mem) /\ d.left = {}
  /\ d.step = "compose" => d.op # "destroy"
  /\ d.step \in Working => d.conn \in Listed(d.mem) /\ d.left \subseteq Listed(d.mem) \ {d.conn}
  /\ d.step = "next" => d.left \subseteq Listed(d.mem)
  /\ d.step = "attach" => d.todo \subseteq Endpoints(d.mem.conns[d.conn].members)
  /\ d.step = "detach" => \A a \in attached : a[1] = d.conn => <<a[2], a[3]>> \in d.todo
  /\ d.step = "remove" => \A a \in attached : a[1] # d.conn

\* destroy: the box has no endpoint any more, and it is a member only of
\* connections that it has not yet been taken out of.
Leaving(d) ==
  /\ d.step \in {"record", "down"} => \E b \in Box : d.box = {b}
  /\ d.step \in Working \cup {"next", "save"} => \A a \in attached : a[2] \notin d.box
  /\ d.step \in {"network", "attach", "verify"} => d.mem.conns[d.conn].members \cap d.box = {}
  /\ d.step \in Working \cup {"next", "save"} =>
       \A c \in Listed(d.mem) :
         \/ d.mem.conns[c].members \cap d.box = {}
         \/ d.step = "next" /\ c \in d.left
         \/ d.step \in Working /\ c \in d.left
         \/ d.step \in {"detach", "remove"} /\ c = d.conn

CommandInv(d, in) ==
  d.step \notin {"idle", "done"} =>
    /\ Covers(d.mem) /\ WellNamed(d.mem)
    /\ d.step # "record" => Sheltered(d.mem, in)
    /\ AtWork(d)
    /\ d.op = "destroy" => Leaving(d)

ConnectionInv ==
  TypeOK /\ Covers(saved) /\ WellNamed(saved) /\ CommandInv(cmd, saved)

-----------------------------------------------------------------------------
\* What the operators on loaded states do.
LEMMA WithType ==
  ASSUME NEW st \in States, NEW c \in ConnIds, NEW r \in Records \cup {NoRecord}
  PROVE  /\ With(st, c, r) \in States /\ With(st, c, r).boxes = st.boxes
         /\ With(st, c, r).conns[c] = r
         /\ \A d \in ConnIds \ {c} : With(st, c, r).conns[d] = st.conns[d]
BY DEF With, States

LEMMA RecordNotNone == NoRecord \notin Records
BY ConnectionAssumption DEF Records, ConnIds

LEMMA ListedRecord ==
  ASSUME NEW st \in States, NEW c \in Listed(st)
  PROVE  c \in ConnIds /\ st.conns[c] \in Records /\ st.conns[c].members \in ConnIds
         /\ st.conns[c].members \subseteq Box
BY DEF Listed, States, Records, ConnIds

\* A record of the same members may replace the one of a listed connection.
LEMMA ReplaceRecord ==
  ASSUME NEW st \in States, NEW c \in Listed(st), NEW r \in Records,
         r.members = st.conns[c].members, r.name = st.conns[c].name,
         Covers(st), WellNamed(st)
  PROVE  /\ With(st, c, r) \in States /\ Listed(With(st, c, r)) = Listed(st)
         /\ \A d \in Listed(st) : With(st, c, r).conns[d].members = st.conns[d].members
         /\ Covers(With(st, c, r)) /\ WellNamed(With(st, c, r))
<1>1. c \in ConnIds BY DEF Listed
<1>2. /\ With(st, c, r) \in States /\ With(st, c, r).boxes = st.boxes
      /\ With(st, c, r).conns[c] = r
      /\ \A d \in ConnIds \ {c} : With(st, c, r).conns[d] = st.conns[d]
  BY <1>1, WithType
<1>3. Listed(With(st, c, r)) = Listed(st)
  BY <1>1, <1>2, RecordNotNone DEF Listed
<1>4. \A d \in Listed(st) : /\ With(st, c, r).conns[d].members = st.conns[d].members
                            /\ With(st, c, r).conns[d].name = st.conns[d].name
  BY <1>2 DEF Listed
<1> QED BY <1>2, <1>3, <1>4 DEF Covers, WellNamed

-----------------------------------------------------------------------------
LEMMA InitEstablishes == Init => ConnectionInv
BY ConnectionAssumption
   DEF Init, ConnectionInv, TypeOK, States, Commands, Steps, Idle, NoState, Covers, WellNamed,
       CommandInv, Listed, Endpoints

LEMMA LoadedKept ==
  ASSUME ConnectionInv
  PROVE  /\ Loaded \in States /\ Loaded.conns = saved.conns /\ Listed(Loaded) = Listed(saved)
         /\ Loaded.boxes = saved.boxes \cup containers
         /\ Covers(Loaded) /\ WellNamed(Loaded)
<1>1. /\ Loaded \in States /\ Loaded.conns = saved.conns
      /\ Loaded.boxes = saved.boxes \cup containers
  BY DEF Loaded, ConnectionInv, TypeOK, States
<1>2. Listed(Loaded) = Listed(saved)
  BY <1>1 DEF Listed
<1> QED BY <1>1, <1>2 DEF ConnectionInv, Covers, WellNamed

\* A load keeps the invariant when what it starts does.
LEMMA LoadKeeps ==
  ASSUME ConnectionInv, NEW d \in Commands, CommandInv(d, Loaded), Load(d)
  PROVE  ConnectionInv'
<1>1. docker' = docker
  BY DEF Load
<1>2. saved' \in {saved, Loaded} /\ faults' \in 0 .. MaxFaults
  BY ConnectionAssumption DEF Load, NoFault, Fault, ConnectionInv, TypeOK
<1>3. cmd' = cmd \/ (cmd' = d /\ saved' = Loaded)
  BY DEF Load
<1>4. cmd = Idle /\ Idle.step = "idle"
  BY DEF Load, Idle
<1>5. TypeOK'
  BY <1>1, <1>2, <1>3, LoadedKept DEF ConnectionInv, TypeOK, docker
<1>6. Covers(saved)' /\ WellNamed(saved)'
  BY <1>1, <1>2, LoadedKept DEF ConnectionInv, Covers, WellNamed, docker, Listed
<1>7. CommandInv(cmd, saved)'
  <2>1. CASE cmd' = cmd
    BY <2>1, <1>4 DEF CommandInv
  <2>2. CASE cmd' = d /\ saved' = Loaded
    BY <2>2, <1>1 DEF CommandInv, Covers, WellNamed, Sheltered, AtWork, Leaving, docker, Listed
  <2> QED BY <2>1, <2>2, <1>3
<1> QED BY <1>5, <1>6, <1>7 DEF ConnectionInv

-----------------------------------------------------------------------------
\* The commands as they start.
Operations == {"connect", "disconnect", "up", "restart", "destroy"}

LEMMA StartedType ==
  ASSUME ConnectionInv, NEW op \in Operations,
         NEW bs \in SUBSET Box, NEW st \in States
  PROVE  /\ Started(op, bs, st) \in Commands
         /\ Started(op, bs, st).op = op /\ Started(op, bs, st).box = bs
         /\ Started(op, bs, st).mem = st /\ Started(op, bs, st).left = {}
<1>1. Idle \in Commands
  BY ConnectionAssumption DEF Idle, Commands, Steps, NoState, States, Endpoints
<1>2. {b \in Loaded.boxes : Ready(b)} \in SUBSET Box
  BY LoadedKept DEF States
<1> QED BY <1>1, <1>2 DEF Started, Idle, Commands, Operations

LEMMA ShelteredByItself ==
  ASSUME NEW st, NEW in, st.conns = in.conns
  PROVE  Sheltered(st, in)
BY DEF Sheltered, Listed

LEMMA ConnectKeeps ==
  ASSUME ConnectionInv, NEW S \in Selections, NEW n \in Names \cup {NoName}, Connect(S, n)
  PROVE  ConnectionInv'
<1> DEFINE r == Recorded(S, n)
           st == With(Loaded, S, r)
           d == [Started("connect", S, st) EXCEPT !.step = "record", !.conn = S]
<1>1. S \in ConnIds /\ S \in SUBSET Box /\ S \subseteq Loaded.boxes
  BY DEF Connect, Connectable, ConnIds
<1>2. S \in Listed(Loaded) =>
        /\ Loaded.conns[S] \in Records
        /\ r.members = Loaded.conns[S].members
        /\ r.name \in {n, Loaded.conns[S].name}
        /\ r.name = n \/ r.name = Loaded.conns[S].name
        /\ r \in Records
  <2> SUFFICES ASSUME S \in Listed(Loaded)
      PROVE  Loaded.conns[S] \in Records /\ r.members = Loaded.conns[S].members
             /\ r.name \in {n, Loaded.conns[S].name} /\ r \in Records
    OBVIOUS
  <2>1. Loaded.conns[S] \in Records
    BY LoadedKept, ListedRecord
  <2> QED BY <2>1 DEF Recorded, Records
<1>3. S \notin Listed(Loaded) => r = [members |-> S, name |-> n, status |-> "degraded"]
  BY DEF Recorded
<1>4. r \in Records
  BY <1>1, <1>2, <1>3 DEF Records
<1>5. /\ st \in States /\ st.boxes = Loaded.boxes /\ st.conns[S] = r
      /\ \A e \in ConnIds \ {S} : st.conns[e] = Loaded.conns[e]
  BY <1>1, <1>4, LoadedKept, WithType
<1>6. Listed(st) = Listed(Loaded) \cup {S}
  BY <1>1, <1>4, <1>5, RecordNotNone DEF Listed
<1>7. Covers(st)
  <2>1. \A a \in attached : a[1] \in Listed(Loaded) /\ a[2] \in Loaded.conns[a[1]].members
    BY LoadedKept DEF Covers
  <2>2. \A a \in attached : st.conns[a[1]].members = Loaded.conns[a[1]].members
    BY <2>1, <1>2, <1>5 DEF Listed
  <2> QED BY <2>1, <2>2, <1>6, LoadedKept DEF Covers
<1>8. WellNamed(st)
  <2>1. \A e \in Listed(Loaded) \ {S} :
          /\ st.conns[e] = Loaded.conns[e]
          /\ r.name \in Names => Loaded.conns[e].name # r.name
    <3> SUFFICES ASSUME NEW e \in Listed(Loaded) \ {S}
        PROVE  st.conns[e] = Loaded.conns[e] /\ (r.name \in Names => Loaded.conns[e].name # r.name)
      OBVIOUS
    <3>1. CASE r.name = n
      BY <3>1, <1>5, ConnectionAssumption DEF Connect, Listed
    <3>2. CASE r.name # n
      BY <3>2, <1>2, <1>3, <1>5, LoadedKept DEF WellNamed, Listed
    <3> QED BY <3>1, <3>2
  <2>2. r.members \subseteq Loaded.boxes
    BY <1>1, <1>2, <1>3, LoadedKept DEF WellNamed
  <2>3. \A e \in Listed(Loaded) \ {S} :
          /\ Loaded.conns[e].members \subseteq Loaded.boxes
          /\ \A f \in Listed(Loaded) \ {e} :
               Loaded.conns[e].name \in Names => Loaded.conns[f].name # Loaded.conns[e].name
    BY LoadedKept DEF WellNamed
  <2> QED BY <1>5, <1>6, <2>1, <2>2, <2>3 DEF WellNamed
<1>9. /\ d \in Commands /\ d.op = "connect" /\ d.step = "record" /\ d.mem = st
      /\ d.conn = S /\ d.left = {}
  <2>0. "connect" \in Operations /\ S \in SUBSET Box /\ st \in States
    BY <1>1, <1>5 DEF Operations
  <2>1. /\ Started("connect", S, st) \in Commands
        /\ Started("connect", S, st).op = "connect" /\ Started("connect", S, st).box = S
        /\ Started("connect", S, st).mem = st /\ Started("connect", S, st).left = {}
    BY <2>0, StartedType
  <2> QED BY <2>1, <1>1 DEF Commands, Steps
<1>10. CommandInv(d, Loaded)
  BY <1>6, <1>7, <1>8, <1>9 DEF CommandInv, AtWork, Working
<1>11. Load(d)
  BY DEF Connect
<1> QED BY <1>9, <1>10, <1>11, LoadKeeps

LEMMA DisconnectKeeps ==
  ASSUME ConnectionInv, NEW c \in ConnIds, Disconnect(c)
  PROVE  ConnectionInv'
<1> DEFINE d == [Started("disconnect", {}, Loaded)
                   EXCEPT !.step = "detach", !.conn = c,
                          !.todo = Endpoints(Loaded.conns[c].members)]
<1>1. c \in Listed(Loaded) /\ Loaded.conns[c].members \subseteq Box
  BY LoadedKept, ListedRecord DEF Disconnect
<1>2. /\ d \in Commands /\ d.op = "disconnect" /\ d.step = "detach" /\ d.mem = Loaded
      /\ d.conn = c /\ d.left = {} /\ d.todo = Endpoints(Loaded.conns[c].members)
  <2>0. "disconnect" \in Operations /\ {} \in SUBSET Box /\ Loaded \in States
    BY LoadedKept DEF Operations
  <2>1. /\ Started("disconnect", {}, Loaded) \in Commands
        /\ Started("disconnect", {}, Loaded).op = "disconnect" /\ Started("disconnect", {}, Loaded).box = {}
        /\ Started("disconnect", {}, Loaded).mem = Loaded /\ Started("disconnect", {}, Loaded).left = {}
    BY <2>0, StartedType
  <2> QED BY <2>1, <1>1 DEF Commands, Steps, Endpoints
<1>3. \A a \in attached : a[1] = c => <<a[2], a[3]>> \in Endpoints(Loaded.conns[c].members)
  BY LoadedKept DEF Covers, ConnectionInv, TypeOK, Endpoints
<1>4. CommandInv(d, Loaded)
  BY <1>1, <1>2, <1>3, LoadedKept, ShelteredByItself DEF CommandInv, AtWork, Working
<1> QED BY <1>2, <1>4, LoadKeeps DEF Disconnect

\* A command of one box starts from the loaded state, the box added perhaps.
LEMMA BoxCommandKeeps ==
  ASSUME ConnectionInv, NEW d \in Commands, NEW b \in Box, NEW st \in States,
         st.conns = Loaded.conns, Loaded.boxes \subseteq st.boxes,
         d.mem = st, d.box = {b}, d.op \in {"up", "restart", "destroy"},
         \/ d.step = "record"
         \/ d.step = "next" /\ d.op # "destroy" /\ d.left = ConnsOf(Loaded, b),
         Load(d)
  PROVE  ConnectionInv'
<1>1. Listed(st) = Listed(Loaded) /\ Sheltered(st, Loaded)
  BY ShelteredByItself DEF Listed
<1>2. Covers(st) /\ WellNamed(st)
  BY <1>1, LoadedKept DEF Covers, WellNamed
<1>3. ConnsOf(Loaded, b) \subseteq Listed(Loaded)
  BY DEF ConnsOf
<1>4. AtWork(d)
  BY <1>1, <1>3 DEF AtWork, Working
<1>5. d.op = "destroy" => Leaving(d)
  BY DEF Leaving, Working
<1> QED BY <1>1, <1>2, <1>4, <1>5, LoadKeeps DEF CommandInv

LEMMA UpKeeps ==
  ASSUME ConnectionInv, NEW b \in Box, Up(b)
  PROVE  ConnectionInv'
<1> DEFINE st == [Loaded EXCEPT !.boxes = @ \cup {b}]
           new == [Started("up", {b}, st) EXCEPT !.step = "record", !.ready = @ \cup {b}]
           old == [Started("up", {b}, Loaded)
                     EXCEPT !.step = "next", !.left = ToReconcile(Loaded, b)]
<1>1. st \in States /\ st.conns = Loaded.conns /\ Loaded.boxes \subseteq st.boxes
  BY LoadedKept DEF States
<1>2. new \in Commands /\ new.mem = st /\ new.box = {b} /\ new.op = "up" /\ new.step = "record"
  <2>0. "up" \in Operations /\ {b} \in SUBSET Box /\ st \in States
    BY <1>1 DEF Operations
  <2>1. /\ Started("up", {b}, st) \in Commands
        /\ Started("up", {b}, st).op = "up" /\ Started("up", {b}, st).box = {b}
        /\ Started("up", {b}, st).mem = st /\ Started("up", {b}, st).left = {}
    BY <2>0, StartedType
  <2> QED BY <2>1 DEF Commands, Steps
<1>3. ToReconcile(Loaded, b) = ConnsOf(Loaded, b) /\ ConnsOf(Loaded, b) \subseteq ConnIds
  BY DEF ToReconcile, ConnsOf, Listed
<1>4. /\ old \in Commands /\ old.mem = Loaded /\ old.box = {b} /\ old.op = "up"
      /\ old.step = "next" /\ old.left = ConnsOf(Loaded, b)
  <2>0. "up" \in Operations /\ {b} \in SUBSET Box /\ Loaded \in States
    BY LoadedKept DEF Operations
  <2>1. /\ Started("up", {b}, Loaded) \in Commands
        /\ Started("up", {b}, Loaded).op = "up" /\ Started("up", {b}, Loaded).box = {b}
        /\ Started("up", {b}, Loaded).mem = Loaded /\ Started("up", {b}, Loaded).left = {}
    BY <2>0, StartedType
  <2> QED BY <2>1, <1>3 DEF Commands, Steps
<1>5. Load(new) \/ Load(old)
  BY DEF Up
<1>6. CASE Load(new)
  BY <1>6, <1>1, <1>2, BoxCommandKeeps
<1>7. CASE Load(old)
  BY <1>7, <1>4, LoadedKept, BoxCommandKeeps
<1> QED BY <1>5, <1>6, <1>7

LEMMA RestartKeeps ==
  ASSUME ConnectionInv, NEW b \in Box, Restart(b)
  PROVE  ConnectionInv'
<1> DEFINE d == [Started("restart", {b}, Loaded) EXCEPT !.step = "record", !.ready = @ \cup {b}]
<1>1. d \in Commands /\ d.mem = Loaded /\ d.box = {b} /\ d.op = "restart" /\ d.step = "record"
  <2>0. "restart" \in Operations /\ {b} \in SUBSET Box /\ Loaded \in States
    BY LoadedKept DEF Operations
  <2>1. /\ Started("restart", {b}, Loaded) \in Commands
        /\ Started("restart", {b}, Loaded).op = "restart" /\ Started("restart", {b}, Loaded).box = {b}
        /\ Started("restart", {b}, Loaded).mem = Loaded /\ Started("restart", {b}, Loaded).left = {}
    BY <2>0, StartedType
  <2> QED BY <2>1 DEF Commands, Steps
<1> QED BY <1>1, LoadedKept, BoxCommandKeeps DEF Restart

LEMMA DestroyKeeps ==
  ASSUME ConnectionInv, NEW b \in Box, Destroy(b)
  PROVE  ConnectionInv'
<1> DEFINE d == [Started("destroy", {b}, Loaded) EXCEPT !.step = "record", !.ready = @ \ {b}]
<1>1. d \in Commands /\ d.mem = Loaded /\ d.box = {b} /\ d.op = "destroy" /\ d.step = "record"
  <2>0. "destroy" \in Operations /\ {b} \in SUBSET Box /\ Loaded \in States
    BY LoadedKept DEF Operations
  <2>1. /\ Started("destroy", {b}, Loaded) \in Commands
        /\ Started("destroy", {b}, Loaded).op = "destroy" /\ Started("destroy", {b}, Loaded).box = {b}
        /\ Started("destroy", {b}, Loaded).mem = Loaded /\ Started("destroy", {b}, Loaded).left = {}
    BY <2>0, StartedType
  <2> QED BY <2>1 DEF Commands, Steps
<1> QED BY <1>1, LoadedKept, BoxCommandKeeps DEF Destroy

-----------------------------------------------------------------------------
\* What the steps of a command keep of what they do not touch.
LEMMA CommandType ==
  ASSUME ConnectionInv
  PROVE  /\ cmd \in Commands /\ cmd.mem \in States /\ cmd.box \subseteq Box
         /\ cmd.left \subseteq ConnIds /\ cmd.todo \subseteq Endpoints(Box)
         /\ saved \in States
BY DEF ConnectionInv, TypeOK, Commands

\* A command that has ended, or is over by force, promises nothing.
LEMMA OverKeeps ==
  ASSUME ConnectionInv, cmd' = Idle \/ cmd' = [cmd EXCEPT !.step = "done", !.ok = FALSE],
         saved' = saved, networks' \subseteq networks, attached' \subseteq attached,
         containers' \subseteq Box, running' \subseteq Endpoints(containers)',
         faults' \in 0 .. MaxFaults
  PROVE  ConnectionInv'
<1>1. Idle \in Commands /\ Idle.step = "idle"
  BY ConnectionAssumption DEF Idle, Commands, Steps, NoState, States, Endpoints
<1>2. cmd' \in Commands /\ cmd'.step \in {"idle", "done"}
  BY <1>1, CommandType DEF Commands, Steps
<1>3. TypeOK'
  BY <1>2 DEF ConnectionInv, TypeOK
<1>4. Covers(saved)' /\ WellNamed(saved)'
  BY DEF ConnectionInv, Covers, WellNamed, Listed
<1>5. CommandInv(cmd, saved)'
  BY <1>2 DEF CommandInv
<1> QED BY <1>3, <1>4, <1>5 DEF ConnectionInv

LEMMA FaultCount ==
  ASSUME ConnectionInv, NoFault \/ \E k \in FaultKinds : Fault(k)
  PROVE  faults' \in 0 .. MaxFaults
BY ConnectionAssumption DEF NoFault, Fault, ConnectionInv, TypeOK

\* The first save.
LEMMA RecordIntentKeeps ==
  ASSUME ConnectionInv, RecordIntent
  PROVE  ConnectionInv'
<1> DEFINE next == CASE cmd.op = "connect" -> "network" [] cmd.op = "destroy" -> "down"
                     [] OTHER -> "compose"
<1>1. /\ Covers(cmd.mem) /\ WellNamed(cmd.mem) /\ AtWork(cmd) /\ cmd.step = "record"
      /\ cmd.op = "destroy" => Leaving(cmd)
  BY DEF ConnectionInv, CommandInv, RecordIntent
<1>2. saved' \in {saved, cmd.mem} /\ docker' = docker
  BY DEF RecordIntent
<1>3. faults' \in 0 .. MaxFaults
  BY FaultCount DEF RecordIntent, FaultKinds
<1>4. Covers(saved)' /\ WellNamed(saved)'
  BY <1>1, <1>2 DEF ConnectionInv, Covers, WellNamed, docker, Listed
<1>5. \/ saved' = cmd.mem /\ cmd' = [cmd EXCEPT !.step = next]
      \/ cmd' = [cmd EXCEPT !.step = "done", !.ok = FALSE]
  BY DEF RecordIntent, Goto, Done
<1>6. next \in Steps
  BY DEF Steps
<1>7. TypeOK'
  BY <1>2, <1>3, <1>5, <1>6, CommandType DEF ConnectionInv, TypeOK, docker, Commands, Steps
<1>8. CommandInv(cmd, saved)'
  <2>1. CASE saved' = cmd.mem /\ cmd' = [cmd EXCEPT !.step = next]
    <3>1. /\ cmd'.mem = cmd.mem /\ cmd'.step = next /\ cmd'.op = cmd.op /\ cmd'.box = cmd.box
          /\ cmd'.conn = cmd.conn /\ cmd'.left = cmd.left
      BY <2>1, CommandType DEF Commands
    <3>2. Covers(cmd.mem)' /\ WellNamed(cmd.mem)' /\ Sheltered(cmd.mem, saved)'
      BY <1>1, <1>2, <2>1, <3>1 DEF Covers, WellNamed, Sheltered, docker, Listed
    <3>3. AtWork(cmd)'
      BY <1>1, <3>1 DEF AtWork, Working, Listed
    <3>4. cmd'.op = "destroy" => Leaving(cmd)'
      BY <1>1, <3>1 DEF Leaving, Working
    <3> QED BY <3>2, <3>3, <3>4 DEF CommandInv
  <2>2. CASE cmd' = [cmd EXCEPT !.step = "done", !.ok = FALSE]
    BY <2>2, CommandType DEF CommandInv, Commands
  <2> QED BY <1>5, <2>1, <2>2
<1> QED BY <1>4, <1>7, <1>8 DEF ConnectionInv

\* Compose, for up and restart, and for destroy.
LEMMA ComposeKeeps ==
  ASSUME ConnectionInv, Compose
  PROVE  ConnectionInv'
<1> PICK b \in cmd.box :
      /\ containers' = containers \cup {b}
      /\ \/ /\ running' = running \cup Endpoints({b}) /\ NoFault
            /\ cmd' = [cmd EXCEPT !.step = "next", !.left = ToReconcile(cmd.mem, b)]
         \/ /\ Fault("docker") /\ Done(FALSE)
            /\ \E S \in SUBSET Endpoints({b}) : running' = (running \ Endpoints({b})) \cup S
      /\ attached' \in {attached, {a \in attached : a[2] # b}}
  BY DEF Compose
<1>1. b \in Box /\ containers' \subseteq Box
  BY CommandType DEF ConnectionInv, TypeOK
<1>2. running' \subseteq Endpoints(containers)'
  BY DEF ConnectionInv, TypeOK, Endpoints
<1>3. attached' \subseteq attached /\ networks' = networks /\ saved' = saved
  BY DEF Compose
<1>4. faults' \in 0 .. MaxFaults
  BY FaultCount DEF FaultKinds
<1>5. CASE cmd' = [cmd EXCEPT !.step = "next", !.left = ToReconcile(cmd.mem, b)]
  <2>1. ToReconcile(cmd.mem, b) \subseteq Listed(cmd.mem) /\ Listed(cmd.mem) \subseteq ConnIds
    BY DEF ToReconcile, ConnsOf, Listed
  <2>2. /\ cmd' \in Commands /\ cmd'.mem = cmd.mem /\ cmd'.step = "next" /\ cmd'.op = cmd.op
        /\ cmd'.left = ToReconcile(cmd.mem, b)
    BY <1>5, <2>1, CommandType DEF Commands, Steps
  <2>3. TypeOK'
    BY <1>1, <1>2, <1>3, <1>4, <2>2 DEF ConnectionInv, TypeOK
  <2>4. /\ Covers(cmd.mem) /\ WellNamed(cmd.mem) /\ Sheltered(cmd.mem, saved)
        /\ cmd.op # "destroy"
    BY DEF ConnectionInv, CommandInv, Compose, AtWork
  <2>5. Covers(saved)' /\ WellNamed(saved)'
    BY <1>3 DEF ConnectionInv, Covers, WellNamed, Listed
  <2>6. Covers(cmd.mem)' /\ WellNamed(cmd.mem)' /\ Sheltered(cmd.mem, saved)'
    BY <1>3, <2>2, <2>4 DEF Covers, WellNamed, Sheltered, Listed
  <2>7. AtWork(cmd)'
    BY <2>1, <2>2 DEF AtWork, Working, Listed
  <2> QED BY <2>2, <2>3, <2>4, <2>5, <2>6, <2>7 DEF ConnectionInv, CommandInv
<1>6. CASE Done(FALSE)
  BY <1>1, <1>2, <1>3, <1>4, <1>6, OverKeeps DEF Done
<1> QED BY <1>5, <1>6

LEMMA DownKeeps ==
  ASSUME ConnectionInv, Down
  PROVE  ConnectionInv'
<1>1. faults' \in 0 .. MaxFaults /\ networks' = networks /\ saved' = saved
  BY FaultCount DEF Down, FaultKinds
<1>2. CASE Done(FALSE) /\ UNCHANGED <<containers, running, attached>>
  BY <1>1, <1>2, OverKeeps DEF Done, ConnectionInv, TypeOK, Endpoints
<1>3. ASSUME NEW b \in cmd.box,
             cmd' = [cmd EXCEPT !.step = "next", !.left = ToReconcile(cmd.mem, b)],
             containers' = containers \ cmd.box, running' = running \ Endpoints(cmd.box),
             attached' = {a \in attached : a[2] \notin cmd.box}
      PROVE  ConnectionInv'
  <2>1. /\ ToReconcile(cmd.mem, b) = ConnsOf(cmd.mem, b)
        /\ ConnsOf(cmd.mem, b) \subseteq Listed(cmd.mem) /\ Listed(cmd.mem) \subseteq ConnIds
    BY DEF ToReconcile, ConnsOf, Listed
  <2>2. /\ cmd' \in Commands /\ cmd'.mem = cmd.mem /\ cmd'.step = "next" /\ cmd'.op = cmd.op
        /\ cmd'.left = ConnsOf(cmd.mem, b) /\ cmd'.box = cmd.box
    BY <1>3, <2>1, CommandType DEF Commands, Steps
  <2>3. running' \subseteq Endpoints(containers)' /\ attached' \subseteq attached
    BY <1>3 DEF ConnectionInv, TypeOK, Endpoints
  <2>4. TypeOK'
    BY <1>1, <1>3, <2>2, <2>3 DEF ConnectionInv, TypeOK
  <2>5. /\ Covers(cmd.mem) /\ WellNamed(cmd.mem) /\ Sheltered(cmd.mem, saved)
        /\ cmd.op = "destroy" => cmd.box = {b}
    BY DEF ConnectionInv, CommandInv, Down, Leaving
  <2>6. Covers(saved)' /\ WellNamed(saved)'
    BY <1>1, <2>3 DEF ConnectionInv, Covers, WellNamed, Listed
  <2>7. Covers(cmd.mem)' /\ WellNamed(cmd.mem)' /\ Sheltered(cmd.mem, saved)'
    BY <1>1, <2>2, <2>3, <2>5 DEF Covers, WellNamed, Sheltered, Listed
  <2>8. AtWork(cmd)'
    BY <2>1, <2>2 DEF AtWork, Working, Listed
  <2>9. cmd'.op = "destroy" => Leaving(cmd)'
    BY <1>3, <2>2, <2>5 DEF Leaving, Working, ConnsOf, Listed
  <2> QED BY <2>4, <2>6, <2>7, <2>8, <2>9 DEF ConnectionInv, CommandInv
<1> QED BY <1>2, <1>3 DEF Down

-----------------------------------------------------------------------------
\* A step of the command alone keeps the invariant when its new locals do.
LEMMA LocalStepKeeps ==
  ASSUME ConnectionInv, NEW d \in Commands, CommandInv(d, saved), cmd' = d,
         saved' = saved, docker' = docker, faults' \in 0 .. MaxFaults
  PROVE  ConnectionInv'
<1>1. TypeOK'
  BY DEF ConnectionInv, TypeOK, docker
<1>2. Covers(saved)' /\ WellNamed(saved)'
  BY DEF ConnectionInv, Covers, WellNamed, docker, Listed
<1>3. CommandInv(cmd, saved)'
  BY DEF CommandInv, Covers, WellNamed, Sheltered, AtWork, Leaving, docker, Listed
<1> QED BY <1>1, <1>2, <1>3 DEF ConnectionInv

\* The connections of the box, one after the other.
LEMMA NextConnectionKeeps ==
  ASSUME ConnectionInv, NextConnection
  PROVE  ConnectionInv'
<1>1. docker' = docker /\ saved' = saved /\ faults' \in 0 .. MaxFaults
  BY FaultCount DEF NextConnection
<1>2. /\ Covers(cmd.mem) /\ WellNamed(cmd.mem) /\ Sheltered(cmd.mem, saved)
      /\ cmd.left \subseteq Listed(cmd.mem) /\ (cmd.op = "destroy" => Leaving(cmd))
      /\ cmd.step = "next"
  BY DEF ConnectionInv, CommandInv, NextConnection, AtWork
<1>3. CASE cmd.left = {} /\ Goto("save")
  <2> DEFINE d == [cmd EXCEPT !.step = "save"]
  <2>1. /\ d \in Commands /\ d.step = "save" /\ d.mem = cmd.mem /\ d.op = cmd.op
        /\ d.box = cmd.box
    BY CommandType DEF Commands, Steps
  <2>2. cmd.op = "destroy" => Leaving(d)
    BY <1>2, <1>3, <2>1 DEF Leaving, Working
  <2>3. CommandInv(d, saved)
    BY <1>2, <2>1, <2>2 DEF CommandInv, AtWork, Working
  <2> QED BY <1>1, <1>3, <2>1, <2>3, LocalStepKeeps DEF Goto
<1>4. ASSUME NEW c \in cmd.left
      PROVE  LET rest == cmd.mem.conns[c].members \ cmd.box
                 on == [cmd EXCEPT !.conn = c, !.left = @ \ {c}]
             IN cmd' = (IF cmd.op # "destroy" THEN [on EXCEPT !.step = "network"]
                       ELSE IF rest \notin ConnIds
                       THEN [on EXCEPT !.step = "detach",
                                       !.todo = Endpoints(cmd.mem.conns[c].members)]
                       ELSE [on EXCEPT !.step = "network",
                                       !.mem = With(@, c, [@.conns[c] EXCEPT !.members = rest])])
                => ConnectionInv'
  <2> DEFINE rest == cmd.mem.conns[c].members \ cmd.box
             on == [cmd EXCEPT !.conn = c, !.left = @ \ {c}]
             reach == [on EXCEPT !.step = "network"]
             gone == [on EXCEPT !.step = "detach",
                                !.todo = Endpoints(cmd.mem.conns[c].members)]
             r == [cmd.mem.conns[c] EXCEPT !.members = rest]
             st == With(cmd.mem, c, r)
             fewer == [on EXCEPT !.step = "network", !.mem = st]
  <2>1. /\ c \in Listed(cmd.mem) /\ c \in ConnIds /\ cmd.mem.conns[c] \in Records
        /\ cmd.mem.conns[c].members \subseteq Box
    BY <1>2, CommandType, ListedRecord
  <2>2. /\ on \in Commands /\ on.op = cmd.op /\ on.box = cmd.box /\ on.mem = cmd.mem
        /\ on.conn = c /\ on.left = cmd.left \ {c}
    BY <2>1, CommandType DEF Commands
  <2> HIDE DEF on
  <2>3. CASE cmd.op # "destroy" /\ cmd' = reach
    <3>1. /\ reach \in Commands /\ reach.op = cmd.op /\ reach.mem = cmd.mem /\ reach.conn = c
          /\ reach.left = cmd.left \ {c} /\ reach.step = "network"
      BY <2>2 DEF Commands, Steps
    <3>2. CommandInv(reach, saved)
      BY <1>2, <2>1, <2>3, <3>1 DEF CommandInv, AtWork, Working
    <3> QED BY <1>1, <2>3, <3>1, <3>2, LocalStepKeeps
  <2>4. CASE cmd.op = "destroy" /\ cmd' = gone
    <3>1. /\ gone \in Commands /\ gone.op = "destroy" /\ gone.mem = cmd.mem /\ gone.conn = c
          /\ gone.left = cmd.left \ {c} /\ gone.step = "detach" /\ gone.box = cmd.box
          /\ gone.todo = Endpoints(cmd.mem.conns[c].members)
      BY <2>1, <2>2, <2>4 DEF Commands, Steps, Endpoints
    <3>2. \A a \in attached : a[1] = c => <<a[2], a[3]>> \in gone.todo
      BY <1>2, <3>1 DEF Covers, ConnectionInv, TypeOK, Endpoints
    <3>3. AtWork(gone)
      BY <1>2, <2>1, <3>1, <3>2 DEF AtWork, Working
    <3>4. Leaving(gone)
      BY <1>2, <2>4, <3>1 DEF Leaving, Working
    <3>5. CommandInv(gone, saved)
      BY <1>2, <3>1, <3>3, <3>4 DEF CommandInv
    <3> QED BY <1>1, <2>4, <3>1, <3>5, LocalStepKeeps
  <2>5. CASE cmd.op = "destroy" /\ rest \in ConnIds /\ cmd' = fewer
    <3>1. r \in Records /\ r.members = rest /\ r.name = cmd.mem.conns[c].name
      BY <2>1, <2>5 DEF Records
    <3> HIDE DEF r
    <3>2. /\ st \in States /\ st.boxes = cmd.mem.boxes /\ st.conns[c] = r
          /\ \A e \in ConnIds \ {c} : st.conns[e] = cmd.mem.conns[e]
      <4>1. cmd.mem \in States /\ c \in ConnIds /\ r \in Records \cup {NoRecord}
        BY <2>1, <3>1, CommandType
      <4> QED BY <4>1, WithType
    <3> HIDE DEF st
    <3>3. Listed(st) = Listed(cmd.mem)
      BY <2>1, <3>1, <3>2, RecordNotNone DEF Listed
    <3>4. \A a \in attached : a[2] \notin cmd.box
      BY <1>2, <2>5 DEF Leaving
    <3>5. \A e \in Listed(st) :
            /\ st.conns[e].members \subseteq cmd.mem.conns[e].members
            /\ cmd.mem.conns[e].members \subseteq st.conns[e].members \cup cmd.box
            /\ st.conns[e].name = cmd.mem.conns[e].name
      BY <3>1, <3>2 DEF Listed
    <3>6. Covers(st)
      BY <1>2, <3>3, <3>4, <3>5 DEF Covers
    <3>7. WellNamed(st)
      BY <1>2, <3>2, <3>3, <3>5 DEF WellNamed
    <3>8. Sheltered(st, saved)
      BY <1>2, <3>3, <3>5 DEF Sheltered
    <3>9. /\ fewer \in Commands /\ fewer.op = "destroy" /\ fewer.mem = st /\ fewer.conn = c
          /\ fewer.left = cmd.left \ {c} /\ fewer.step = "network" /\ fewer.box = cmd.box
      BY <2>2, <2>5, <3>2 DEF Commands, Steps
    <3>10. AtWork(fewer)
      BY <1>2, <2>1, <3>3, <3>9 DEF AtWork, Working
    <3>11. \A e \in Listed(st) : e \in cmd.left \ {c} \/ st.conns[e].members \cap cmd.box = {}
      <4>1. \A e \in Listed(cmd.mem) : e \in cmd.left \/ cmd.mem.conns[e].members \cap cmd.box = {}
        BY <1>2, <2>5 DEF Leaving, Working
      <4>2. st.conns[c].members \cap cmd.box = {}
        BY <3>1, <3>2
      <4>3. \A e \in Listed(st) \ {c} : st.conns[e] = cmd.mem.conns[e]
        BY <3>2 DEF Listed
      <4> QED BY <3>3, <4>1, <4>2, <4>3
    <3>12. Leaving(fewer)
      BY <3>1, <3>2, <3>4, <3>9, <3>11 DEF Leaving, Working
    <3>13. CommandInv(fewer, saved)
      BY <3>6, <3>7, <3>8, <3>9, <3>10, <3>12 DEF CommandInv
    <3> QED BY <1>1, <2>5, <3>9, <3>13, LocalStepKeeps
  <2> QED BY <2>3, <2>4, <2>5 DEF on
<1> QED BY <1>3, <1>4 DEF NextConnection

-----------------------------------------------------------------------------
\* What holds of a command while it works on a connection.
LEMMA AtWorkOn ==
  ASSUME ConnectionInv, cmd.step \in Working
  PROVE  /\ Covers(cmd.mem) /\ WellNamed(cmd.mem) /\ Sheltered(cmd.mem, saved)
         /\ cmd.conn \in Listed(cmd.mem) /\ cmd.left \subseteq Listed(cmd.mem) \ {cmd.conn}
         /\ cmd.conn \in ConnIds /\ Record \in Records /\ Record.members \subseteq Box
         /\ cmd.conn \in Listed(saved) /\ Record.members \subseteq saved.conns[cmd.conn].members
         /\ (cmd.op = "destroy" => Leaving(cmd))
<1>1. /\ Covers(cmd.mem) /\ WellNamed(cmd.mem) /\ Sheltered(cmd.mem, saved)
      /\ AtWork(cmd) /\ (cmd.op = "destroy" => Leaving(cmd))
  BY DEF ConnectionInv, CommandInv, Working
<1>2. cmd.conn \in Listed(cmd.mem) /\ cmd.left \subseteq Listed(cmd.mem) \ {cmd.conn}
  BY <1>1 DEF AtWork
<1>3. cmd.conn \in ConnIds /\ Record \in Records /\ Record.members \subseteq Box
  BY <1>2, CommandType, ListedRecord DEF Record
<1> QED BY <1>1, <1>2, <1>3 DEF Sheltered, Record

\* The connection at work with another status, recorded.
LEMMA StatusKeeps ==
  ASSUME ConnectionInv, cmd.step \in Working, NEW status \in {"ready", "degraded", "error"}
  PROVE  LET st == With(cmd.mem, cmd.conn, [Record EXCEPT !.status = status])
         IN /\ st \in States /\ Listed(st) = Listed(cmd.mem)
            /\ \A c \in Listed(st) : st.conns[c].members = cmd.mem.conns[c].members
            /\ Covers(st) /\ WellNamed(st) /\ Sheltered(st, saved)
<1> DEFINE r == [Record EXCEPT !.status = status]
           st == With(cmd.mem, cmd.conn, r)
<1>1. r \in Records /\ r.members = Record.members /\ r.name = Record.name
  BY AtWorkOn DEF Records
<1> HIDE DEF r
<1>2. /\ st \in States /\ Listed(st) = Listed(cmd.mem) /\ Covers(st) /\ WellNamed(st)
      /\ \A c \in Listed(cmd.mem) : st.conns[c].members = cmd.mem.conns[c].members
  <2>1. cmd.mem \in States /\ cmd.conn \in Listed(cmd.mem) /\ Covers(cmd.mem) /\ WellNamed(cmd.mem)
    BY CommandType, AtWorkOn
  <2> QED BY <1>1, <2>1, ReplaceRecord DEF Record
<1>3. Sheltered(st, saved)
  BY <1>2, AtWorkOn DEF Sheltered
<1> QED BY <1>2, <1>3 DEF r

\* A failed Docker call.
LEMMA FailsKeeps ==
  ASSUME ConnectionInv, cmd.step \in Working, Fails,
         saved' = saved, docker' = docker, faults' \in 0 .. MaxFaults
  PROVE  ConnectionInv'
<1> DEFINE st == With(cmd.mem, cmd.conn, [Record EXCEPT !.status = "error"])
           d == [cmd EXCEPT !.step = "save", !.ok = FALSE, !.todo = {}, !.left = {}, !.mem = st]
<1>1. CASE cmd.op = "destroy"
  BY <1>1, OverKeeps DEF Fails, Done, docker, ConnectionInv, TypeOK
<1>2. CASE cmd.op # "destroy"
  <2>1. /\ st \in States /\ Listed(st) = Listed(cmd.mem)
        /\ Covers(st) /\ WellNamed(st) /\ Sheltered(st, saved)
    BY StatusKeeps
  <2> HIDE DEF st
  <2>2. d \in Commands /\ d.step = "save" /\ d.mem = st /\ d.op = cmd.op
    BY <2>1, CommandType DEF Commands, Steps
  <2>3. CommandInv(d, saved)
    BY <1>2, <2>1, <2>2 DEF CommandInv, AtWork, Working
  <2>4. cmd' = d
    BY <1>2 DEF Fails, st
  <2> QED BY <2>2, <2>3, <2>4, LocalStepKeeps
<1> QED BY <1>1, <1>2

LEMMA EnsureNetworkKeeps ==
  ASSUME ConnectionInv, EnsureNetwork
  PROVE  ConnectionInv'
<1>1. cmd.step \in Working /\ saved' = saved /\ faults' \in 0 .. MaxFaults
      /\ containers' = containers /\ running' = running /\ attached' = attached
  BY FaultCount DEF EnsureNetwork, Working, FaultKinds
<1> DEFINE d == [cmd EXCEPT !.step = "attach", !.todo = Endpoints(Record.members \cap cmd.ready)]
<1>2. CASE networks' = networks /\ Fails
  BY <1>1, <1>2, FailsKeeps DEF docker
<1>3. CASE networks' = networks \cup {cmd.conn} /\ cmd' = d
  <2>1. /\ d \in Commands /\ d.step = "attach" /\ d.mem = cmd.mem /\ d.op = cmd.op
        /\ d.conn = cmd.conn /\ d.left = cmd.left /\ d.box = cmd.box
        /\ d.todo \subseteq Endpoints(Record.members)
    BY <1>1, CommandType, AtWorkOn DEF Commands, Steps, Endpoints
  <2> HIDE DEF d
  <2>2. TypeOK'
    BY <1>1, <1>3, <2>1, AtWorkOn DEF ConnectionInv, TypeOK
  <2>3. Covers(saved)' /\ WellNamed(saved)'
    BY <1>1, <1>3, AtWorkOn DEF ConnectionInv, Covers, WellNamed, Listed
  <2>4. Covers(cmd.mem)' /\ WellNamed(cmd.mem)' /\ Sheltered(cmd.mem, saved)'
    BY <1>1, <1>3, <2>1, AtWorkOn DEF Covers, WellNamed, Sheltered, Listed
  <2>5. AtWork(cmd)'
    BY <1>3, <2>1, AtWorkOn, <1>1 DEF AtWork, Working, Listed, Record, Endpoints
  <2>6. cmd'.op = "destroy" => Leaving(cmd)'
    <3> SUFFICES ASSUME cmd.op = "destroy" PROVE Leaving(cmd)'
      BY <1>3, <2>1
    <3>1. /\ \A a \in attached : a[2] \notin cmd.box
          /\ Record.members \cap cmd.box = {}
          /\ \A c \in Listed(cmd.mem) : cmd.mem.conns[c].members \cap cmd.box = {} \/ c \in cmd.left
      BY <1>1, AtWorkOn DEF Leaving, EnsureNetwork, Record, Working
    <3> QED BY <1>1, <1>3, <2>1, <3>1 DEF Leaving, Working, Listed, Record
  <2> QED BY <2>2, <2>3, <2>4, <2>5, <2>6 DEF ConnectionInv, CommandInv
<1> QED BY <1>2, <1>3 DEF EnsureNetwork

LEMMA AttachKeeps ==
  ASSUME ConnectionInv, Attach
  PROVE  ConnectionInv'
<1>1. cmd.step \in Working /\ cmd.step = "attach" /\ saved' = saved /\ faults' \in 0 .. MaxFaults
      /\ containers' = containers /\ running' = running /\ networks' = networks
  BY FaultCount DEF Attach, Working, FaultKinds
<1>2. /\ cmd.todo \subseteq Endpoints(Record.members)
      /\ cmd.op = "destroy" =>
           /\ \A a \in attached : a[2] \notin cmd.box
           /\ Record.members \cap cmd.box = {}
           /\ \A c \in Listed(cmd.mem) : cmd.mem.conns[c].members \cap cmd.box = {} \/ c \in cmd.left
  BY <1>1, AtWorkOn DEF ConnectionInv, CommandInv, AtWork, Leaving, Record, Working
<1>3. CASE attached' = attached /\ Fails
  BY <1>1, <1>3, FailsKeeps DEF docker
<1>4. CASE attached' = attached /\ Goto("verify")
  <2> DEFINE d == [cmd EXCEPT !.step = "verify"]
  <2>1. /\ d \in Commands /\ d.step = "verify" /\ d.mem = cmd.mem /\ d.op = cmd.op
        /\ d.conn = cmd.conn /\ d.left = cmd.left /\ d.box = cmd.box
    BY CommandType DEF Commands, Steps
  <2>2. AtWork(d)
    BY <1>1, <2>1, AtWorkOn DEF AtWork, Working
  <2>3. d.op = "destroy" => Leaving(d)
    BY <1>2, <2>1 DEF Leaving, Working, Record
  <2>4. CommandInv(d, saved)
    BY <1>1, <2>1, <2>2, <2>3, AtWorkOn DEF CommandInv
  <2> QED BY <1>1, <1>4, <2>1, <2>4, LocalStepKeeps DEF Goto, docker
<1>5. ASSUME NEW e \in cmd.todo, attached' = attached \cup {<<cmd.conn, e[1], e[2]>>},
             cmd' = [cmd EXCEPT !.todo = @ \ {e}]
      PROVE  ConnectionInv'
  <2>1. e[1] \in Record.members /\ e[1] \in Box /\ e[2] \in Service
    BY <1>1, <1>2, AtWorkOn DEF Endpoints
  <2>2. /\ cmd' \in Commands /\ cmd'.step = "attach" /\ cmd'.mem = cmd.mem /\ cmd'.op = cmd.op
        /\ cmd'.conn = cmd.conn /\ cmd'.left = cmd.left /\ cmd'.box = cmd.box
        /\ cmd'.todo \subseteq cmd.todo
    BY <1>1, <1>5, CommandType DEF Commands
  <2>3. attached' \subseteq ConnIds \X Box \X Service
    BY <1>1, <1>5, <2>1, AtWorkOn DEF ConnectionInv, TypeOK
  <2>4. TypeOK'
    BY <1>1, <2>2, <2>3 DEF ConnectionInv, TypeOK
  <2>5. \A a \in attached' : a \in attached \/ (a[1] = cmd.conn /\ a[2] = e[1])
    BY <1>5
  <2>6. Covers(saved)' /\ WellNamed(saved)'
    BY <1>1, <2>1, <2>5, AtWorkOn DEF ConnectionInv, Covers, WellNamed, Listed
  <2>7. Covers(cmd.mem)' /\ WellNamed(cmd.mem)' /\ Sheltered(cmd.mem, saved)'
    BY <1>1, <2>1, <2>2, <2>5, AtWorkOn DEF Covers, WellNamed, Sheltered, Listed, Record
  <2>8. AtWork(cmd)'
    BY <1>1, <1>2, <2>2, AtWorkOn DEF AtWork, Working, Listed, Record, Endpoints
  <2>9. cmd'.op = "destroy" => Leaving(cmd)'
    <3> SUFFICES ASSUME cmd.op = "destroy" PROVE Leaving(cmd)'
      BY <2>2
    <3>1. \A a \in attached' : a[2] \notin cmd.box
      BY <1>2, <2>1, <2>5
    <3> QED BY <1>2, <2>2, <3>1 DEF Leaving, Working, Listed, Record
  <2> QED BY <2>4, <2>6, <2>7, <2>8, <2>9 DEF ConnectionInv, CommandInv
<1> QED BY <1>3, <1>4, <1>5 DEF Attach

LEMMA VerifyKeeps ==
  ASSUME ConnectionInv, Verify
  PROVE  ConnectionInv'
<1>1. cmd.step \in Working /\ cmd.step = "verify" /\ saved' = saved /\ faults' \in 0 .. MaxFaults
      /\ docker' = docker
  BY FaultCount DEF Verify, Working, FaultKinds
<1>2. CASE Fails
  BY <1>1, <1>2, FailsKeeps
<1> DEFINE st == With(cmd.mem, cmd.conn, [Record EXCEPT !.status = Observed(Record)])
           d == [cmd EXCEPT !.step = IF cmd.op = "connect" THEN "save" ELSE "next", !.mem = st]
<1>3. CASE cmd' = d
  <2>1. Observed(Record) \in {"ready", "degraded", "error"}
    BY DEF Observed
  <2>2. /\ st \in States /\ Listed(st) = Listed(cmd.mem)
        /\ \A c \in Listed(st) : st.conns[c].members = cmd.mem.conns[c].members
        /\ Covers(st) /\ WellNamed(st) /\ Sheltered(st, saved)
    BY <1>1, <2>1, StatusKeeps
  <2> HIDE DEF st
  <2>3. /\ d \in Commands /\ d.mem = st /\ d.op = cmd.op /\ d.box = cmd.box
        /\ d.conn = cmd.conn /\ d.left = cmd.left
        /\ d.step = IF cmd.op = "connect" THEN "save" ELSE "next"
    BY <2>2, CommandType DEF Commands, Steps
  <2> HIDE DEF d
  <2>4. AtWork(d)
    BY <1>1, <2>2, <2>3, AtWorkOn DEF AtWork, Working
  <2>5. d.op = "destroy" => Leaving(d)
    <3> SUFFICES ASSUME cmd.op = "destroy" PROVE Leaving(d)
      BY <2>3
    <3>1. /\ \A a \in attached : a[2] \notin cmd.box
          /\ \A c \in Listed(cmd.mem) : cmd.mem.conns[c].members \cap cmd.box = {} \/ c \in cmd.left
      BY <1>1, AtWorkOn DEF Leaving, Working
    <3> QED BY <2>2, <2>3, <3>1 DEF Leaving, Working
  <2>6. CommandInv(d, saved)
    BY <2>2, <2>3, <2>4, <2>5 DEF CommandInv
  <2> QED BY <1>1, <1>3, <2>3, <2>6, LocalStepKeeps
<1> QED BY <1>2, <1>3 DEF Verify

LEMMA DetachKeeps ==
  ASSUME ConnectionInv, Detach
  PROVE  ConnectionInv'
<1>1. cmd.step \in Working /\ cmd.step = "detach" /\ saved' = saved /\ faults' \in 0 .. MaxFaults
      /\ containers' = containers /\ running' = running /\ networks' = networks
  BY FaultCount DEF Detach, Working, FaultKinds
<1>2. \A a \in attached : a[1] = cmd.conn => <<a[2], a[3]>> \in cmd.todo
  BY <1>1 DEF ConnectionInv, CommandInv, AtWork
<1>3. cmd.op = "destroy" =>
        /\ \A a \in attached : a[2] \notin cmd.box
        /\ \A c \in Listed(cmd.mem) \ {cmd.conn} :
             cmd.mem.conns[c].members \cap cmd.box = {} \/ c \in cmd.left
  BY <1>1, AtWorkOn DEF Leaving, Working
<1>4. CASE attached' = attached /\ Fails
  BY <1>1, <1>4, FailsKeeps DEF docker
<1>5. CASE cmd.todo = {} /\ attached' = attached /\ Goto("remove")
  <2> DEFINE d == [cmd EXCEPT !.step = "remove"]
  <2>1. /\ d \in Commands /\ d.step = "remove" /\ d.mem = cmd.mem /\ d.op = cmd.op
        /\ d.conn = cmd.conn /\ d.left = cmd.left /\ d.box = cmd.box
    BY CommandType DEF Commands, Steps
  <2>2. AtWork(d)
    BY <1>1, <1>2, <1>5, <2>1, AtWorkOn DEF AtWork, Working
  <2>3. d.op = "destroy" => Leaving(d)
    BY <1>3, <2>1 DEF Leaving, Working
  <2>4. CommandInv(d, saved)
    BY <1>1, <2>1, <2>2, <2>3, AtWorkOn DEF CommandInv
  <2> QED BY <1>1, <1>5, <2>1, <2>4, LocalStepKeeps DEF Goto, docker
<1>6. ASSUME NEW e \in cmd.todo, attached' = attached \ {<<cmd.conn, e[1], e[2]>>},
             cmd' = [cmd EXCEPT !.todo = @ \ {e}]
      PROVE  ConnectionInv'
  <2>1. /\ cmd' \in Commands /\ cmd'.step = "detach" /\ cmd'.mem = cmd.mem /\ cmd'.op = cmd.op
        /\ cmd'.conn = cmd.conn /\ cmd'.left = cmd.left /\ cmd'.box = cmd.box
        /\ cmd'.todo = cmd.todo \ {e}
    BY <1>1, <1>6, CommandType DEF Commands
  <2>2. TypeOK'
    BY <1>1, <1>6, <2>1 DEF ConnectionInv, TypeOK
  <2>3. Covers(saved)' /\ WellNamed(saved)'
    BY <1>1, <1>6 DEF ConnectionInv, Covers, WellNamed, Listed
  <2>4. Covers(cmd.mem)' /\ WellNamed(cmd.mem)' /\ Sheltered(cmd.mem, saved)'
    BY <1>1, <1>6, <2>1, AtWorkOn DEF Covers, WellNamed, Sheltered, Listed
  <2>5. \A a \in attached' : a[1] = cmd.conn => <<a[2], a[3]>> \in cmd.todo \ {e}
    <3> SUFFICES ASSUME NEW a \in attached', a[1] = cmd.conn
        PROVE  <<a[2], a[3]>> \in cmd.todo \ {e}
      OBVIOUS
    <3>1. a \in attached /\ a # <<cmd.conn, e[1], e[2]>> /\ a \in ConnIds \X Box \X Service
      BY <1>6 DEF ConnectionInv, TypeOK
    <3>2. a = <<a[1], a[2], a[3]>>
      BY <3>1
    <3>3. <<a[2], a[3]>> # e
      BY <3>1, <3>2
    <3> QED BY <1>2, <3>1, <3>3
  <2>6. AtWork(cmd)'
    BY <1>1, <2>1, <2>5, AtWorkOn DEF AtWork, Working, Listed
  <2>7. cmd'.op = "destroy" => Leaving(cmd)'
    BY <1>3, <1>6, <2>1 DEF Leaving, Working, Listed
  <2> QED BY <2>2, <2>3, <2>4, <2>6, <2>7 DEF ConnectionInv, CommandInv
<1> QED BY <1>4, <1>5, <1>6 DEF Detach

LEMMA RemoveNetworkKeeps ==
  ASSUME ConnectionInv, RemoveNetwork
  PROVE  ConnectionInv'
<1>1. cmd.step \in Working /\ cmd.step = "remove" /\ saved' = saved /\ faults' \in 0 .. MaxFaults
      /\ containers' = containers /\ running' = running /\ attached' = attached
  BY FaultCount DEF RemoveNetwork, Working, FaultKinds
<1>2. CASE networks' = networks /\ Fails
  BY <1>1, <1>2, FailsKeeps DEF docker
<1> DEFINE st == Without(cmd.mem, cmd.conn)
           d == [cmd EXCEPT !.step = IF cmd.op = "destroy" THEN "next" ELSE "save", !.mem = st]
<1>3. CASE networks' = networks \ {cmd.conn} /\ cmd' = d
  <2>1. /\ st \in States /\ st.boxes = cmd.mem.boxes /\ st.conns[cmd.conn] = NoRecord
        /\ \A c \in ConnIds \ {cmd.conn} : st.conns[c] = cmd.mem.conns[c]
    <3>1. cmd.mem \in States /\ cmd.conn \in ConnIds /\ NoRecord \in Records \cup {NoRecord}
      BY <1>1, CommandType, AtWorkOn
    <3> QED BY <3>1, WithType DEF Without
  <2> HIDE DEF st
  <2>2. Listed(st) = Listed(cmd.mem) \ {cmd.conn}
    BY <2>1 DEF Listed
  <2>3. \A c \in Listed(st) : st.conns[c] = cmd.mem.conns[c]
    BY <2>1, <2>2 DEF Listed
  <2>4. /\ d \in Commands /\ d.mem = st /\ d.op = cmd.op /\ d.box = cmd.box /\ d.left = cmd.left
        /\ d.step = IF cmd.op = "destroy" THEN "next" ELSE "save"
    BY <2>1, CommandType DEF Commands, Steps
  <2> HIDE DEF d
  <2>5. \A a \in attached : a[1] # cmd.conn
    BY <1>1 DEF ConnectionInv, CommandInv, AtWork
  <2>6. TypeOK'
    BY <1>1, <1>3, <2>4 DEF ConnectionInv, TypeOK
  <2>7. Covers(saved)' /\ WellNamed(saved)'
    BY <1>1, <1>3 DEF ConnectionInv, Covers, WellNamed, Listed
  <2>8. Covers(cmd.mem)'
    <3>1. networks' \subseteq Listed(cmd.mem) \ {cmd.conn}
      BY <1>1, <1>3, AtWorkOn DEF Covers
    <3>2. \A a \in attached : a[1] \in Listed(st) /\ a[2] \in st.conns[a[1]].members
      BY <1>1, <2>2, <2>3, <2>5, AtWorkOn DEF Covers
    <3> QED BY <1>1, <1>3, <2>2, <2>4, <3>1, <3>2 DEF Covers, Listed
  <2>9. WellNamed(cmd.mem)'
    <3>1. WellNamed(st)
      BY <1>1, <2>1, <2>2, <2>3, AtWorkOn DEF WellNamed
    <3> QED BY <1>3, <2>4, <3>1 DEF WellNamed, Listed
  <2>10. Sheltered(cmd.mem, saved)'
    BY <1>1, <1>3, <2>2, <2>3, <2>4, AtWorkOn DEF Sheltered, Listed
  <2>11. AtWork(cmd)'
    BY <1>1, <1>3, <2>2, <2>4, AtWorkOn DEF AtWork, Working, Listed
  <2>12. cmd'.op = "destroy" => Leaving(cmd)'
    <3> SUFFICES ASSUME cmd.op = "destroy" PROVE Leaving(cmd)'
      BY <1>3, <2>4
    <3>1. /\ \A a \in attached : a[2] \notin cmd.box
          /\ \A c \in Listed(cmd.mem) \ {cmd.conn} :
               cmd.mem.conns[c].members \cap cmd.box = {} \/ c \in cmd.left
      BY <1>1, AtWorkOn DEF Leaving, Working
    <3>2. \A c \in Listed(st) : st.conns[c].members \cap cmd.box = {} \/ c \in cmd.left
      BY <2>2, <2>3, <3>1
    <3> QED BY <1>1, <1>3, <2>4, <3>1, <3>2 DEF Leaving, Working, Listed
  <2> QED BY <2>6, <2>7, <2>8, <2>9, <2>10, <2>11, <2>12 DEF ConnectionInv, CommandInv
<1> QED BY <1>2, <1>3 DEF RemoveNetwork

\* The last save.
LEMMA SaveResultKeeps ==
  ASSUME ConnectionInv, SaveResult
  PROVE  ConnectionInv'
<1>1. cmd.step = "save" /\ saved' \in {saved, Final} /\ docker' = docker /\ faults' \in 0 .. MaxFaults
  BY FaultCount DEF SaveResult, FaultKinds
<1>2. Covers(cmd.mem) /\ WellNamed(cmd.mem) /\ (cmd.op = "destroy" => Leaving(cmd))
  BY <1>1 DEF ConnectionInv, CommandInv
<1>3. /\ Final \in States /\ Final.conns = cmd.mem.conns
      /\ \A c \in Listed(cmd.mem) : cmd.mem.conns[c].members \subseteq Final.boxes
  <2>1. CASE cmd.op = "destroy"
    <3>1. /\ Final = [cmd.mem EXCEPT !.boxes = @ \ cmd.box]
          /\ cmd.mem \in [boxes : SUBSET Box, conns : [ConnIds -> Records \cup {NoRecord}]]
      BY <2>1, CommandType DEF Final, States
    <3>2. /\ Final \in States /\ Final.conns = cmd.mem.conns
          /\ Final.boxes = cmd.mem.boxes \ cmd.box
      BY <3>1 DEF States
    <3>3. \A c \in Listed(cmd.mem) : /\ cmd.mem.conns[c].members \subseteq cmd.mem.boxes
                                    /\ cmd.mem.conns[c].members \cap cmd.box = {}
      BY <1>1, <1>2, <2>1 DEF WellNamed, Leaving, Working
    <3> QED BY <3>2, <3>3
  <2>2. CASE cmd.op # "destroy"
    BY <1>2, <2>2, CommandType DEF Final, WellNamed
  <2> QED BY <2>1, <2>2
<1>4. Listed(Final) = Listed(cmd.mem)
  BY <1>3 DEF Listed
<1>5. Covers(Final) /\ WellNamed(Final)
  BY <1>2, <1>3, <1>4 DEF Covers, WellNamed
<1>6. Covers(saved)' /\ WellNamed(saved)'
  BY <1>1, <1>5 DEF ConnectionInv, Covers, WellNamed, docker, Listed
<1>7. cmd' \in Commands /\ cmd'.step = "done"
  BY CommandType DEF SaveResult, Done, Commands, Steps
<1>8. TypeOK'
  BY <1>1, <1>3, <1>7 DEF ConnectionInv, TypeOK, docker
<1>9. CommandInv(cmd, saved)'
  BY <1>7 DEF CommandInv
<1> QED BY <1>6, <1>8, <1>9 DEF ConnectionInv

-----------------------------------------------------------------------------
\* The end of a command, a kill, and what happens to Docker besides.
LEMMA RestKeeps ==
  ASSUME ConnectionInv,
         \/ End \/ Killed \/ UNCHANGED vars
         \/ \E e \in Endpoints(Box) : ServiceStops(e)
         \/ \E c \in ConnIds : Pruned(c)
  PROVE  ConnectionInv'
<1>1. CASE End
  BY <1>1, FaultCount, OverKeeps DEF End, docker, ConnectionInv, TypeOK, Endpoints
<1>2. CASE Killed
  BY <1>2, FaultCount, OverKeeps DEF Killed, FaultKinds, docker, ConnectionInv, TypeOK, Endpoints
<1>3. CASE UNCHANGED vars
  BY <1>3, CommandType, LocalStepKeeps DEF vars, ConnectionInv, TypeOK
<1>4. ASSUME \/ \E e \in Endpoints(Box) : ServiceStops(e)
             \/ \E c \in ConnIds : Pruned(c)
      PROVE  ConnectionInv'
  <2>1. /\ saved' = saved /\ cmd' = cmd /\ containers' = containers /\ attached' = attached
        /\ running' \subseteq running /\ networks' \subseteq networks
    BY <1>4 DEF ServiceStops, Pruned
  <2>2. faults' \in 0 .. MaxFaults
    BY <1>4, FaultCount DEF ServiceStops, Pruned, FaultKinds
  <2>3. TypeOK'
    BY <2>1, <2>2 DEF ConnectionInv, TypeOK, Endpoints
  <2>4. Covers(saved)' /\ WellNamed(saved)'
    BY <2>1 DEF ConnectionInv, Covers, WellNamed, Listed
  <2>5. CommandInv(cmd, saved)'
    BY <2>1 DEF ConnectionInv, CommandInv, Covers, WellNamed, Sheltered, AtWork, Leaving, Listed
  <2> QED BY <2>3, <2>4, <2>5 DEF ConnectionInv
<1> QED BY <1>1, <1>2, <1>3, <1>4

LEMMA NextKeeps ==
  ASSUME ConnectionInv, [Next]_vars
  PROVE  ConnectionInv'
<1>1. CASE Asked
  BY <1>1, ConnectKeeps, DisconnectKeeps, UpKeeps, RestartKeeps, DestroyKeeps DEF Asked
<1>2. CASE RecordIntent \/ Compose \/ Down \/ NextConnection
  BY <1>2, RecordIntentKeeps, ComposeKeeps, DownKeeps, NextConnectionKeeps
<1>3. CASE Reconciles
  BY <1>3, EnsureNetworkKeeps, AttachKeeps, VerifyKeeps DEF Reconciles
<1>4. CASE Removes
  BY <1>4, DetachKeeps, RemoveNetworkKeeps DEF Removes
<1>5. CASE SaveResult
  BY <1>5, SaveResultKeeps
<1>6. CASE \/ End \/ Killed \/ UNCHANGED vars
           \/ \E e \in Endpoints(Box) : ServiceStops(e)
           \/ \E c \in ConnIds : Pruned(c)
  BY <1>6, RestKeeps
<1> QED BY <1>1, <1>2, <1>3, <1>4, <1>5, <1>6 DEF Next

LEMMA ConnectionInvariance == Spec => []ConnectionInv
<1>1. Init => ConnectionInv
  BY InitEstablishes
<1>2. ConnectionInv /\ [Next]_vars => ConnectionInv'
  BY NextKeeps
<1> QED BY <1>1, <1>2, PTL DEF Spec

\* Every variable keeps to its type (state/model.go, connections.go).
THEOREM ConnectionTypes == Spec => []TypeOK
<1>1. ConnectionInv => TypeOK
  BY DEF ConnectionInv
<1> QED BY <1>1, ConnectionInvariance, PTL

\* Whatever is asked, fails or is killed, and for any number of boxes: boxes
\* share a network only when state.json says so (connections.go Connect,
\* Disconnect, removeBoxFromConnections).
THEOREM Isolation == Spec => []Isolated
<1>1. ConnectionInv => Isolated
  BY DEF ConnectionInv, Covers, Isolated
<1> QED BY <1>1, ConnectionInvariance, PTL

\* The recorded connections join two recorded boxes or more, and no two of them
\* have one name, at every point a command may stop (Connect, Destroy).
THEOREM RecordsWellFormed == Spec => []WellFormed
<1>1. ConnectionInv => WellFormed
  <2>1. ConnectionInv => \A c \in Listed(saved) : saved.conns[c].members \in ConnIds
    BY ListedRecord DEF ConnectionInv, TypeOK
  <2> QED BY <2>1 DEF ConnectionInv, WellNamed, WellFormed
<1> QED BY <1>1, ConnectionInvariance, PTL
=============================================================================
