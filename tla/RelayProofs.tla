---------------------------- MODULE RelayProofs ----------------------------
(***************************************************************************)
(* The relay that Ensure keeps listens on the address that is asked for:   *)
(* proved for any number of relays, addresses, tokens and faults.          *)
(*                                                                         *)
(* The listen record alone does not say so, because every relay writes and *)
(* removes the same file.  The inductive invariant adds that listeners of  *)
(* overlapping addresses exclude each other, so whoever wrote the record   *)
(* last, it names no address that a serving relay only overlaps.           *)
(*                                                                         *)
(* Relays that come up in time have the token of the file: it is drawn     *)
(* before the first relay is launched and changes only with the box.       *)
(***************************************************************************)
EXTENDS RelayProcess, TLAPS

\* Two relays cannot have listeners whose addresses overlap (Bind).
Exclusive ==
  \A r, s \in Relays : r # s /\ Holds(r) /\ Holds(s) => ~Overlap(relay[r].host, relay[s].host)

\* The record names a serving relay's address or one out of its reach.
Faithful ==
  \A r \in Relays : /\ relay[r].at \in {"serving", "asked"} /\ listen # Nobody
                    /\ Overlap(listen, relay[r].host)
                    => listen = relay[r].host

IInv == TypeOK /\ Exclusive /\ Faithful

USE DEF NoFault, Fault

-----------------------------------------------------------------------------
\* A faulty and a faultless step keep the count of faults in its bounds.
LEMMA FaultsType ==
  ASSUME faults \in 0 .. MaxFaults, NEW k, Fault(k) \/ NoFault
  PROVE  faults' \in 0 .. MaxFaults
BY RelayAssumption

LEMMA TypeInit == Init => TypeOK
<1> SUFFICES ASSUME Init PROVE TypeOK OBVIOUS
<1>1. Gone \in Processes BY DEF Gone, Processes, Places
<1>2. Idle \in Commands BY DEF Idle, Commands
<1>3. relay \in [Relays -> Processes] BY <1>1 DEF Init
<1>4. faults \in 0 .. MaxFaults BY RelayAssumption DEF Init
<1>5. \A r \in Relays : relay[r].at = "gone" BY DEF Init, Gone
<1> QED BY <1>1, <1>2, <1>3, <1>4, <1>5 DEF TypeOK, Init, Idle

\* What the steps of a relay do to the relays: one of them gets a place, perhaps
\* a token, or ends.
LEMMA RelayType ==
  ASSUME TypeOK, NEW r \in Relays, RelayStep(r)
  PROVE  TypeOK'
<1> USE DEF TypeOK, Processes, Places, Gone, files
<1>0. relay[r] \in Processes OBVIOUS
<1>f. faults' \in 0 .. MaxFaults
  BY RelayAssumption DEF RelayStep, ReadToken, WriteToken, Bind, RecordPID, RecordListen,
     Close, Unlist, Exit
<1>1. CASE ReadToken(r)
  <2>1. CASE token # Nobody
    BY <1>1, <1>f, <2>1 DEF ReadToken
  <2>2. CASE token = Nobody
    <3>1. PICK t \in Fresh : relay' = [relay EXCEPT ![r].at = "minting", ![r].token = t]
      BY <1>1, <2>2 DEF ReadToken
    <3>2. t \in Tokens /\ t # Nobody BY RelayAssumption DEF Fresh
    <3> QED BY <1>1, <1>f, <3>1, <3>2 DEF ReadToken
  <2> QED BY <2>1, <2>2
<1>2. CASE WriteToken(r) BY <1>2, <1>f DEF WriteToken
<1>3. CASE Bind(r) BY <1>3, <1>f DEF Bind
<1>4. CASE RecordPID(r) BY <1>4, <1>f DEF RecordPID
<1>5. CASE RecordListen(r) BY <1>5, <1>f DEF RecordListen
<1>6. CASE Close(r) BY <1>6, <1>f DEF Close
<1>7. CASE Unlist(r) BY <1>7, <1>f DEF Unlist
<1>8. CASE Exit(r) BY <1>8, <1>f DEF Exit
<1> QED BY <1>1, <1>2, <1>3, <1>4, <1>5, <1>6, <1>7, <1>8 DEF RelayStep

\* A stop changes at most the place of one relay that serves.
LEMMA StopChanges ==
  ASSUME TypeOK,
         StopAnswered \/ StopRefused \/ StopRejected \/ StopTimesOut \/ Misanswered
  PROVE  /\ \/ relay' = relay
            \/ \E r \in Relays : /\ relay[r].at \in {"serving", "asked"}
                                 /\ relay' = [relay EXCEPT ![r].at = "asked"]
         /\ faults' \in 0 .. MaxFaults
BY RelayAssumption DEF StopAnswered, StopRefused, StopRejected, StopTimesOut, Misanswered,
   Accepting, Answering, TypeOK

\* What a step of a command does to the relays and to the listen record.
CommandEffect ==
  /\ listen' \in {listen, Nobody}
  /\ \/ relay' = relay
     \/ \E r \in Relays : /\ relay[r].at \in {"serving", "asked"}
                          /\ relay' = [relay EXCEPT ![r].at = "asked"]
     \/ /\ cmd.host # Nobody
        /\ \E r \in Relays :
             /\ relay[r] = Gone
             /\ relay' = [relay EXCEPT ![r].at = "launched", ![r].host = cmd.host]

-----------------------------------------------------------------------------
\* A step of a command leaves the types and has that effect.
LEMMA CommandType ==
  ASSUME TypeOK, CommandStep
  PROVE  TypeOK' /\ CommandEffect
<1> USE DEF TypeOK, Commands, world, files, Goto, Done
<1>0. cmd \in Commands /\ Idle \in Commands BY DEF Idle
<1>r. ASSUME CommandEffect, UNCHANGED <<bind, foreign>>, box' \in BOOLEAN,
             token' \in Tokens \cup {Nobody}, pid' \in Relays \cup {Nobody},
             listen' \in Hosts \cup {Nobody}, cmd' \in Commands, faults' \in 0 .. MaxFaults,
             cmd'.at # "idle" => cmd'.host # Nobody
      PROVE  TypeOK'
  <2> USE DEF Processes, Places, Gone
  <2>1. relay' \in [Relays -> Processes]
    <3>1. CASE \E r \in Relays : /\ relay[r].at \in {"serving", "asked"}
                                 /\ relay' = [relay EXCEPT ![r].at = "asked"]
      BY <3>1
    <3>2. CASE \E r \in Relays :
                 /\ cmd.host # Nobody /\ relay[r] = Gone
                 /\ relay' = [relay EXCEPT ![r].at = "launched", ![r].host = cmd.host]
      BY <3>2
    <3> QED BY <1>r, <3>1, <3>2 DEF CommandEffect
  <2>2. \A r \in Relays : /\ relay'[r].at # "gone" => relay'[r].host # Nobody
                          /\ relay'[r].at \notin {"gone", "launched"} => relay'[r].token # Nobody
    <3>1. CASE \E r \in Relays : /\ relay[r].at \in {"serving", "asked"}
                                 /\ relay' = [relay EXCEPT ![r].at = "asked"]
      BY <3>1
    <3>2. CASE \E r \in Relays :
                 /\ cmd.host # Nobody /\ relay[r] = Gone
                 /\ relay' = [relay EXCEPT ![r].at = "launched", ![r].host = cmd.host]
      BY <3>2
    <3> QED BY <1>r, <3>1, <3>2 DEF CommandEffect
  <2> QED BY <1>r, <2>1, <2>2
<1>f. ASSUME UNCHANGED relay, listen' \in {listen, Nobody} PROVE CommandEffect
  BY <1>f DEF CommandEffect
<1>1. CASE TakeToken
  <2> USE DEF TakeToken
  <2>1. CommandEffect BY <1>1, <1>f
  <2>2. cmd' \in Commands /\ (cmd'.at # "idle" => cmd'.host # Nobody)
    <3>1. CASE token = Nobody /\ cmd.op = "ensure"
      <4>1. PICK t \in Fresh : cmd' = [cmd EXCEPT !.token = t, !.at = "minting"] BY <1>1, <3>1
      <4>2. t \in Tokens BY DEF Fresh
      <4> QED BY <1>1, <1>0, <4>1, <4>2
    <3>2. CASE ~(token = Nobody /\ cmd.op = "ensure") BY <1>1, <1>0, <3>2
    <3> QED BY <3>1, <3>2
  <2> QED BY <1>1, <1>r, <2>1, <2>2
<1>2. CASE MintToken
  <2>1. CommandEffect BY <1>2, <1>f DEF MintToken
  <2>2. cmd' \in Commands /\ (cmd'.at # "idle" => cmd'.host # Nobody) BY <1>2, <1>0 DEF MintToken
  <2>3. faults' \in 0 .. MaxFaults BY <1>2, RelayAssumption DEF MintToken
  <2> QED BY <1>2, <1>r, <2>1, <2>2, <2>3 DEF MintToken
<1>3. CASE Probe \/ CheckListen \/ Drain \/ Await \/ Ask \/ Return
  <2> USE DEF Probe, CheckListen, Drain, Await, Ask, Return, ProbeOk, ProbeFails
  <2>1. UNCHANGED world BY <1>3
  <2>2. CommandEffect BY <2>1, <1>f
  <2>3. cmd' \in Commands /\ (cmd'.at # "idle" => cmd'.host # Nobody) BY <1>3, <1>0 DEF Idle
  <2>4. faults' \in 0 .. MaxFaults BY <1>3, RelayAssumption
  <2> QED BY <1>r, <2>1, <2>2, <2>3, <2>4
<1>4. CASE Replace
  <2>1. CommandEffect BY <1>4, StopChanges DEF Replace, CommandEffect
  <2>2. cmd' \in Commands /\ (cmd'.at # "idle" => cmd'.host # Nobody) BY <1>4, <1>0 DEF Replace
  <2>3. faults' \in 0 .. MaxFaults BY <1>4, StopChanges DEF Replace
  <2> QED BY <1>4, <1>r, <2>1, <2>2, <2>3 DEF Replace
<1>5. CASE Launch
  <2>1. CommandEffect BY <1>5 DEF Launch, CommandEffect
  <2>2. cmd' \in Commands /\ (cmd'.at # "idle" => cmd'.host # Nobody) BY <1>5, <1>0 DEF Launch
  <2>3. faults' \in 0 .. MaxFaults BY <1>5, RelayAssumption DEF Launch
  <2> QED BY <1>5, <1>r, <2>1, <2>2, <2>3 DEF Launch
<1>6. CASE Stop
  <2>1. CommandEffect BY <1>6, StopChanges DEF Stop, CommandEffect
  <2>2. cmd' \in Commands /\ (cmd'.at # "idle" => cmd'.host # Nobody) BY <1>6, <1>0 DEF Stop
  <2>3. faults' \in 0 .. MaxFaults BY <1>6, StopChanges DEF Stop
  <2> QED BY <1>6, <1>r, <2>1, <2>2, <2>3 DEF Stop
<1>7. CASE RemoveFiles
  <2>1. CommandEffect BY <1>7, <1>f DEF RemoveFiles
  <2>2. cmd' \in Commands /\ (cmd'.at # "idle" => cmd'.host # Nobody) BY <1>7, <1>0 DEF RemoveFiles
  <2> QED BY <1>7, <1>r, <2>1, <2>2 DEF RemoveFiles
<1> QED BY <1>1, <1>2, <1>3, <1>4, <1>5, <1>6, <1>7 DEF CommandStep

\* The steps outside relays and commands.
LEMMA OutsideType ==
  ASSUME TypeOK,
         Create \/ (\E op \in {"ensure", "stop", "destroy", "probe"} : Begin(op)) \/ Killed
           \/ (\E h \in Hosts : Rebind(h) \/ Intrude(h) \/ Leave(h))
  PROVE  TypeOK' /\ UNCHANGED <<relay, listen>>
<1> USE DEF TypeOK, Commands, world, files
<1>1. Idle \in Commands BY DEF Idle
<1>2. UNCHANGED <<relay, token, pid, listen>> BY DEF Create, Begin, Killed, Rebind, Intrude, Leave
<1>3. faults' \in 0 .. MaxFaults
  BY RelayAssumption DEF Create, Begin, Killed, Rebind, Intrude, Leave
<1>4. CASE \E op \in {"ensure", "stop", "destroy", "probe"} : Begin(op)
  <2>1. PICK op \in {"ensure", "stop", "destroy", "probe"} : Begin(op) BY <1>4
  <2>2. cmd' \in Commands /\ cmd'.host # Nobody
    BY <2>1, <1>1, RelayAssumption DEF Begin, Idle
  <2> QED BY <1>2, <1>3, <2>1, <2>2 DEF Begin
<1>5. CASE Create BY <1>2, <1>3, <1>5 DEF Create
<1>6. CASE Killed BY <1>1, <1>2, <1>3, <1>6 DEF Killed, Idle
<1>7. CASE \E h \in Hosts : Rebind(h) \/ Intrude(h) \/ Leave(h)
  BY <1>2, <1>3, <1>7 DEF Rebind, Intrude, Leave
<1> QED BY <1>2, <1>4, <1>5, <1>6, <1>7

-----------------------------------------------------------------------------
\* A relay that holds a listener, did so before or has just bound it.
LEMMA RelayKeeps ==
  ASSUME IInv, TypeOK', NEW r \in Relays, RelayStep(r)
  PROVE  Exclusive' /\ Faithful'
<1> USE DEF IInv, TypeOK, Processes, Places, Gone, files
<1>1. \A s \in Relays : s # r => relay'[s] = relay[s]
  BY DEF RelayStep, ReadToken, WriteToken, Bind, RecordPID, RecordListen, Close, Unlist, Exit
<1>2. CASE Bind(r)
  <2>1. Exclusive'
    <3>1. CASE Taken(relay[r].host) BY <1>1, <1>2, <3>1 DEF Bind, Exclusive, Holds, Overlap
    <3>2. CASE ~Taken(relay[r].host)
      <4>1. \A s \in Relays : Holds(s) => ~Overlap(relay[r].host, relay[s].host)
        BY <3>2 DEF Taken, Overlap
      <4>2. relay'[r].host = relay[r].host BY <1>2, <3>2 DEF Bind
      <4> QED BY <1>1, <4>1, <4>2 DEF Exclusive, Holds, Overlap
    <3> QED BY <3>1, <3>2
  <2>2. Faithful' BY <1>1, <1>2 DEF Bind, Faithful, Overlap
  <2> QED BY <2>1, <2>2
<1>3. CASE RecordListen(r)
  <2>1. relay'[r].host = relay[r].host \/ ~Holds(r)' BY <1>3 DEF RecordListen, Holds
  <2>2. Holds(r) BY <1>3 DEF RecordListen, Holds
  <2>3. Exclusive' BY <1>1, <2>1, <2>2 DEF Exclusive, Holds, Overlap
  <2>4. Faithful'
    <3>1. CASE listen' = relay[r].host
      <4>1. \A s \in Relays : s # r /\ relay[s].at \in {"serving", "asked"}
               => ~Overlap(relay[r].host, relay[s].host)
        BY <2>2 DEF Exclusive, Holds
      <4> QED BY <1>1, <1>3, <3>1, <4>1 DEF Faithful, Overlap, RecordListen
    <3>2. CASE listen' # relay[r].host
      <4>1. listen' = listen /\ relay'[r].at = "unlisted" BY <1>3, <3>2 DEF RecordListen
      <4> QED BY <1>1, <4>1 DEF Faithful, Overlap
    <3> QED BY <3>1, <3>2
  <2> QED BY <2>3, <2>4
<1>4. CASE ~Bind(r) /\ ~RecordListen(r)
  <2> USE DEF RelayStep, ReadToken, WriteToken, RecordPID, Close, Unlist, Exit
  <2>1. Holds(r)' => Holds(r) /\ relay'[r].host = relay[r].host BY <1>4 DEF Holds
  <2>2. relay'[r].at \in {"serving", "asked"} => relay[r].at \in {"serving", "asked"}
    BY <1>4
  <2>3. listen' \in {listen, Nobody} BY <1>4
  <2>4. Exclusive' BY <1>1, <2>1 DEF Exclusive, Holds, Overlap
  <2>5. Faithful' BY <1>1, <2>1, <2>2, <2>3 DEF Faithful, Holds, Overlap
  <2> QED BY <2>4, <2>5
<1> QED BY <1>2, <1>3, <1>4

\* A command asks a relay to end or launches one, which holds nothing yet.
LEMMA CommandKeeps ==
  ASSUME IInv, CommandEffect
  PROVE  Exclusive' /\ Faithful'
<1> USE DEF IInv, TypeOK, Processes, Places, Gone
<1>1. \A r \in Relays : /\ Holds(r)' => Holds(r) /\ relay'[r].host = relay[r].host
                        /\ relay'[r].at \in {"serving", "asked"}
                             => relay[r].at \in {"serving", "asked"}
  <2> SUFFICES ASSUME NEW r \in Relays
               PROVE  /\ Holds(r)' => Holds(r) /\ relay'[r].host = relay[r].host
                      /\ relay'[r].at \in {"serving", "asked"}
                           => relay[r].at \in {"serving", "asked"}
    OBVIOUS
  <2>1. CASE relay' = relay BY <2>1 DEF Holds
  <2>2. ASSUME NEW s \in Relays, relay[s].at \in {"serving", "asked"},
               relay' = [relay EXCEPT ![s].at = "asked"]
        PROVE  /\ Holds(r)' => Holds(r) /\ relay'[r].host = relay[r].host
               /\ relay'[r].at \in {"serving", "asked"} => relay[r].at \in {"serving", "asked"}
    BY <2>2 DEF Holds
  <2>3. ASSUME NEW s \in Relays, relay[s] = Gone,
               relay' = [relay EXCEPT ![s].at = "launched", ![s].host = cmd.host]
        PROVE  /\ Holds(r)' => Holds(r) /\ relay'[r].host = relay[r].host
               /\ relay'[r].at \in {"serving", "asked"} => relay[r].at \in {"serving", "asked"}
    BY <2>3 DEF Holds
  <2> QED BY <2>1, <2>2, <2>3 DEF CommandEffect
<1>2. listen' \in {listen, Nobody} BY DEF CommandEffect
<1>3. Exclusive' BY <1>1 DEF Exclusive, Holds, Overlap
<1>4. Faithful' BY <1>1, <1>2 DEF Faithful, Holds, Overlap
<1> QED BY <1>3, <1>4

LEMMA InvStep == IInv /\ [Next]_vars => IInv'
<1> SUFFICES ASSUME IInv, [Next]_vars PROVE IInv' OBVIOUS
<1> USE DEF IInv
<1>1. CASE \E r \in Relays : RelayStep(r) BY <1>1, RelayType, RelayKeeps
<1>2. CASE CommandStep BY <1>2, CommandType, CommandKeeps
<1>3. CASE \E r \in Relays : Dies(r)
  <2>1. PICK r \in Relays : Dies(r) BY <1>3
  <2>2. \A s \in Relays : relay'[s] = relay[s] \/ relay'[s].at = "gone"
    BY <2>1 DEF Dies, Gone, TypeOK
  <2>3. TypeOK'
    BY <2>1, RelayAssumption DEF Dies, Gone, TypeOK, Processes, Places, files
  <2>4. listen' = listen BY <2>1 DEF Dies, files
  <2>5. Exclusive' BY <2>2 DEF Exclusive, Holds, Overlap
  <2>6. Faithful' BY <2>2, <2>4 DEF Faithful, Overlap
  <2> QED BY <2>3, <2>5, <2>6
<1>4. CASE Create \/ (\E op \in {"ensure", "stop", "destroy", "probe"} : Begin(op)) \/ Killed
             \/ (\E h \in Hosts : Rebind(h) \/ Intrude(h) \/ Leave(h))
  BY <1>4, OutsideType DEF Exclusive, Faithful, Holds, Overlap
<1>5. CASE UNCHANGED vars
  BY <1>5 DEF vars, files, TypeOK, Exclusive, Faithful, Holds, Overlap
<1> QED BY <1>1, <1>2, <1>3, <1>4, <1>5 DEF Next

LEMMA InvInit == Init => IInv
<1> SUFFICES ASSUME Init PROVE IInv OBVIOUS
<1>1. \A r \in Relays : relay[r].at = "gone" BY DEF Init, Gone
<1> QED BY <1>1, TypeInit DEF IInv, Exclusive, Faithful, Holds

LEMMA Invariance == Spec => []IInv
BY InvInit, InvStep, PTL DEF Spec

\* Types, and the addresses and tokens of relays that listen, hold in every state.
THEOREM RelayTypes == Spec => []TypeOK
BY Invariance, PTL DEF IInv

\* A relay that Ensure keeps listens on the asked address (EnsureRelayProcess).
THEOREM RelayKept == Spec => KeptIsAsked
<1> DEFINE Kept == cmd.at = "check" /\ cmd'.at = "done" =>
                     \A r \in Answering : relay[r].host = cmd.host
<1>1. ASSUME IInv, [Next]_vars PROVE [Kept]_vars
  <2> SUFFICES ASSUME cmd.at = "check", cmd'.at = "done", NEW r \in Answering
               PROVE  relay[r].host = cmd.host
    OBVIOUS
  <2> USE DEF IInv, TypeOK, Commands
  <2>1. CheckListen
    <3>1. ~(UNCHANGED vars) BY DEF vars
    <3>2. ~Create /\ ~(\E op \in {"ensure", "stop", "destroy", "probe"} : Begin(op)) /\ ~Killed
      BY DEF Create, Begin, Killed, Idle
    <3>3. ~(\E s \in Relays : RelayStep(s) \/ Dies(s))
      BY DEF RelayStep, ReadToken, WriteToken, Bind, RecordPID, RecordListen, Close, Unlist,
             Exit, Dies
    <3>4. ~(\E h \in Hosts : Rebind(h) \/ Intrude(h) \/ Leave(h)) BY DEF Rebind, Intrude, Leave
    <3> QED BY <1>1, <3>1, <3>2, <3>3, <3>4
          DEF Next, CommandStep, TakeToken, MintToken, Probe, Replace, Drain, Launch, Await, Stop,
              RemoveFiles, Ask, Return
  <2>2. listen = cmd.host
    <3>1. cmd' = [cmd EXCEPT !.at = "replace"] => cmd'.at = "replace" OBVIOUS
    <3> QED BY <2>1, <3>1 DEF CheckListen, Goto
  <2>3. r \in Relays /\ relay[r].at \in {"serving", "asked"} /\ Reaches(Asked, relay[r].host)
    BY DEF Answering
  <2>4. Overlap(cmd.host, relay[r].host) BY <2>3 DEF Reaches, Asked, Probed, Overlap
  <2>5. cmd.host # Nobody BY <1>1
  <2> QED BY <1>1, <2>2, <2>3, <2>4, <2>5 DEF Faithful
<1> QED BY <1>1, Invariance, PTL DEF Spec, KeptIsAsked
-----------------------------------------------------------------------------
\* What the token file says, as long as relays come up in time: the token of a box is
\* made by a command, before it launches the first relay, and no relay is on the way
\* when the box goes with its files, or while there is no box.
Bearing == {"ready", "bound", "recorded", "serving", "asked"}
Tokened ==
  \A r \in Relays :
    /\ relay[r].at # "minting"
    /\ relay[r].at = "launched" => token # Nobody
    /\ box /\ relay[r].at \in Bearing => relay[r].token = token
Quiet == ~box => cmd.at \in {"idle", "done"} /\ OnTheWay = {}
Minted ==
  /\ cmd.at = "minting" => token = Nobody /\ cmd.token \in Tokens
  /\ cmd.at \in {"probe", "check", "replace", "drain", "launch", "await"} => token # Nobody
TokenInv == Tokened /\ Quiet /\ Minted

\* A relay takes the token of the file, and draws none.
LEMMA RelayToken ==
  ASSUME TypeOK, TokenInv, NEW r \in Relays, RelayStep(r)
  PROVE  TokenInv'
<1> USE DEF TypeOK, Processes, Places, Gone, files, TokenInv
<1>2. CASE ReadToken(r)
  <2>1. /\ UNCHANGED <<box, cmd, token>> /\ token # Nobody
        /\ relay' = [relay EXCEPT ![r].at = "ready", ![r].token = token]
    BY <1>2 DEF ReadToken, Tokened
  <2>2. r \in OnTheWay BY <1>2 DEF ReadToken, OnTheWay
  <2>3. Tokened' BY <2>1 DEF Tokened
  <2> QED BY <2>1, <2>2, <2>3 DEF Quiet, Minted
<1>3. CASE ~ReadToken(r)
  <2>1. /\ UNCHANGED <<box, cmd, token>>
        /\ \A s \in Relays : s # r => relay'[s] = relay[s]
    BY <1>3 DEF RelayStep, WriteToken, Bind, RecordPID, RecordListen, Close, Unlist, Exit, Tokened
  <2>2. /\ relay'[r].at \in {"bound", "recorded"} => relay[r].at \in {"ready", "bound"}
        /\ relay'[r].at \in Bearing => relay[r].at \in Bearing /\ relay'[r].token = relay[r].token
        /\ relay'[r].at \notin {"launched", "minting", "ready"}
    BY <1>3 DEF RelayStep, WriteToken, Bind, RecordPID, RecordListen, Close, Unlist, Exit, Bearing,
                Tokened
  <2>3. Tokened' BY <2>1, <2>2 DEF Tokened
  <2>4. OnTheWay' \subseteq OnTheWay BY <2>1, <2>2 DEF OnTheWay
  <2> QED BY <2>1, <2>3, <2>4 DEF Quiet, Minted
<1> QED BY <1>2, <1>3

\* Asking a relay to stop leaves the tokens.
LEMMA AskedKeepsTokens ==
  ASSUME TypeOK, TokenInv, UNCHANGED <<box, token>>,
         \/ relay' = relay
         \/ \E r \in Relays : /\ relay[r].at \in {"serving", "asked"}
                              /\ relay' = [relay EXCEPT ![r].at = "asked"]
  PROVE  Tokened'
BY DEF TypeOK, Processes, TokenInv, Tokened, Bearing

\* A command mints the token only while there is none, launches relays only with it,
\* and removes it only when no relay is on the way.
LEMMA CommandToken ==
  ASSUME TypeOK, TokenInv, InTime, CommandStep
  PROVE  TokenInv'
<1> USE DEF TypeOK, Commands, world, files, Goto, Done, TokenInv
<1>1. cmd.at \notin {"idle", "done"} => box BY DEF Quiet
<1>2. CASE TakeToken
  <2>1. UNCHANGED <<box, relay, token>> /\ box BY <1>1, <1>2 DEF TakeToken
  <2>2. Tokened' BY <2>1, AskedKeepsTokens
  <2>4. Minted'
    <3>1. CASE token # Nobody BY <1>2, <2>1, <3>1 DEF TakeToken, Minted
    <3>2. CASE token = Nobody /\ cmd.op = "ensure"
      <4>1. PICK t \in Fresh : cmd' = [cmd EXCEPT !.token = t, !.at = "minting"]
        BY <1>2, <3>2 DEF TakeToken
      <4> QED BY <2>1, <3>2, <4>1 DEF Minted, Fresh
    <3>3. CASE token = Nobody /\ cmd.op # "ensure"
      <4>1. cmd'.at \in {"done", "remove"} BY <1>2, <3>3 DEF TakeToken
      <4> QED BY <4>1 DEF Minted
    <3> QED BY <3>1, <3>2, <3>3
  <2> QED BY <2>1, <2>2, <2>4 DEF Quiet
<1>3. CASE MintToken
  <2>1. UNCHANGED <<box, relay>> /\ token = Nobody /\ box BY <1>1, <1>3 DEF MintToken, Minted
  <2>2. \A r \in Relays : relay[r].at \notin Bearing \cup {"launched", "minting"}
    BY <2>1 DEF Tokened, Bearing
  <2>3. Tokened' BY <2>1, <2>2 DEF Tokened, Bearing
  <2>4. Minted' BY <1>3, RelayAssumption DEF MintToken, Minted
  <2> QED BY <2>1, <2>3, <2>4 DEF Quiet
<1>4. CASE Probe \/ CheckListen \/ Drain \/ Await \/ Ask \/ Return
  <2> USE DEF Probe, CheckListen, Drain, Await, Ask, Return
  <2>1. UNCHANGED <<box, relay, token>> BY <1>4
  <2>2. Tokened' BY <2>1, AskedKeepsTokens
  <2>3. Quiet' BY <1>1, <1>4, <2>1 DEF Quiet, OnTheWay, Idle
  <2>4. /\ cmd'.at # "minting"
        /\ cmd'.at \in {"probe", "check", "replace", "drain", "launch", "await"}
             => cmd.at \in {"probe", "check", "drain"}
    <3>1. CASE Probe \/ CheckListen \/ Drain BY <3>1
    <3>2. CASE Await \/ Ask
      <4>1. cmd'.at = "done" BY <3>2
      <4> QED BY <4>1
    <3>3. CASE Return BY <3>3 DEF Idle
    <3> QED BY <1>4, <3>1, <3>2, <3>3
  <2>5. Minted' BY <2>1, <2>4 DEF Minted
  <2> QED BY <2>2, <2>3, <2>5
<1>5. CASE Replace \/ Stop
  <2> USE DEF Replace, Stop
  <2>1. UNCHANGED <<box, token>> /\ box BY <1>1, <1>5
  <2>2. Tokened' BY <1>5, <2>1, StopChanges, AskedKeepsTokens
  <2>3. Minted' BY <1>5, <2>1 DEF Minted
  <2> QED BY <2>1, <2>2, <2>3 DEF Quiet
<1>6. CASE Launch
  <2>1. UNCHANGED <<box, token>> /\ box /\ token # Nobody BY <1>1, <1>6 DEF Launch, Minted
  <2>2. Tokened'
    <3>1. ASSUME NEW r \in Relays, relay[r] = Gone,
                 relay' = [relay EXCEPT ![r].at = "launched", ![r].host = cmd.host]
          PROVE  Tokened'
      BY <2>1, <3>1 DEF Tokened, Bearing, Processes
    <3> QED BY <1>6, <2>1, <3>1, AskedKeepsTokens DEF Launch
  <2>3. Minted' BY <1>6, <2>1 DEF Launch, Minted
  <2> QED BY <2>1, <2>2, <2>3 DEF Quiet
<1>7. CASE RemoveFiles
  <2>1. /\ UNCHANGED relay /\ box' = FALSE /\ OnTheWay = {} /\ cmd'.at = "done"
    BY <1>7 DEF RemoveFiles, InTime
  <2>2. \A r \in Relays : relay[r].at \notin {"launched", "minting"} BY <2>1 DEF OnTheWay
  <2> QED BY <2>1, <2>2 DEF Tokened, Quiet, Minted, OnTheWay
<1> QED BY <1>2, <1>3, <1>4, <1>5, <1>6, <1>7 DEF CommandStep

\* A new box finds the port free, so that no relay of a former box serves.
LEMMA OutsideToken ==
  ASSUME TypeOK, TokenInv,
         \/ Create \/ (\E op \in {"ensure", "stop", "destroy", "probe"} : Begin(op)) \/ Killed
         \/ \E h \in Hosts : Rebind(h) \/ Intrude(h) \/ Leave(h)
         \/ \E r \in Relays : Dies(r)
         \/ UNCHANGED vars
  PROVE  TokenInv'
<1> USE DEF TypeOK, Processes, Places, Commands, files, world, TokenInv
<1>1. CASE Create
  <2>1. UNCHANGED <<relay, token, cmd>> /\ box' /\ cmd.at = "idle"
    BY <1>1 DEF Create, Idle
  <2>2. \A r \in Relays : ~Holds(r) BY <1>1 DEF Create, Taken, Overlap
  <2>3. OnTheWay = {} BY <1>1 DEF Create, Quiet
  <2>4. \A r \in Relays : relay[r].at \notin Bearing BY <2>2, <2>3 DEF Holds, OnTheWay, Bearing
  <2> QED BY <2>1, <2>4 DEF Tokened, Quiet, Minted
<1>2. CASE \E r \in Relays : Dies(r)
  <2>1. PICK r \in Relays : Dies(r) BY <1>2
  <2>2. /\ \A s \in Relays : relay'[s] = relay[s] \/ relay'[s].at = "gone"
        /\ UNCHANGED <<box, token, cmd>>
    BY <2>1 DEF Dies, Gone
  <2>3. Tokened' BY <2>2 DEF Tokened, Bearing
  <2>4. OnTheWay' \subseteq OnTheWay BY <2>2 DEF OnTheWay
  <2> QED BY <2>2, <2>3, <2>4 DEF Quiet, Minted
<1>3. CASE ~Create /\ ~\E r \in Relays : Dies(r)
  <2>1. UNCHANGED <<box, relay, token>>
    BY <1>3 DEF Begin, Killed, Rebind, Intrude, Leave, vars
  <2>2. Tokened' BY <2>1, AskedKeepsTokens
  <2>3. cmd' = cmd \/ cmd'.at = "idle" \/ (box /\ cmd'.at = "token")
    <3>1. CASE \E op \in {"ensure", "stop", "destroy", "probe"} : Begin(op)
      BY <3>1 DEF Begin, Idle
    <3>2. CASE Killed BY <3>2 DEF Killed, Idle
    <3> QED BY <1>3, <3>1, <3>2 DEF Rebind, Intrude, Leave, vars
  <2> QED BY <2>1, <2>2, <2>3 DEF Quiet, Minted, OnTheWay
<1> QED BY <1>1, <1>2, <1>3

LEMMA TokenStep == TypeOK /\ TokenInv /\ InTime /\ [Next]_vars => TokenInv'
BY RelayToken, CommandToken, OutsideToken DEF Next

LEMMA TokenInit == Init => TokenInv
BY DEF Init, TokenInv, Tokened, Quiet, Minted, Bearing, OnTheWay, Idle, Gone

\* A relay accepts the token of the file, also when the box was destroyed and created
\* again (EnsureRelayToken, Destroy), as long as relays come up in time.
THEOREM RelayTokens == Spec => TokenAgrees
<1>1. TokenInv => Agree BY DEF TokenInv, Tokened, Agree, Bearing
<1> QED BY <1>1, TokenInit, TokenStep, RelayTypes, PTL DEF Spec, TokenAgrees
=============================================================================
