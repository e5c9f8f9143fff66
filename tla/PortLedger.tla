----------------------------- MODULE PortLedger -----------------------------
(***************************************************************************)
(* What the port commands of a box promise: a set of desired mappings, and  *)
(* requests of the clients that are granted as a whole or refused, whatever *)
(* fails on the way.  A port request that is refused may degrade the box;   *)
(* only a client that restores it, or destroys it, takes that back.         *)
(***************************************************************************)
CONSTANTS Mappings, Clients

VARIABLES
  desired,    \* the mappings the box is to serve
  degraded,   \* TRUE when it may serve others
  asked       \* what every client asks for

Kinds == {"none", "add", "remove", "restore", "destroy"}
Requests == [kind : Kinds, maps : SUBSET Mappings]
Nothing == [kind |-> "none", maps |-> {}]

Init == desired = {} /\ degraded = FALSE /\ asked = [c \in Clients |-> Nothing]

Ask(c) ==
  /\ asked[c] = Nothing
  /\ \E r \in Requests : asked' = [asked EXCEPT ![c] = r]
  /\ UNCHANGED <<desired, degraded>>

Answered(c) == asked' = [asked EXCEPT ![c] = Nothing]

\* A box that is not degraded gets all of the mappings, which are all new.
Add(c) ==
  /\ asked[c].kind = "add" /\ ~degraded
  /\ asked[c].maps \cap desired = {} /\ desired' = desired \cup asked[c].maps
  /\ Answered(c) /\ UNCHANGED degraded

\* A box loses all of the mappings, which were all there.
Remove(c) ==
  /\ asked[c].kind = "remove"
  /\ asked[c].maps \subseteq desired /\ desired' = desired \ asked[c].maps
  /\ Answered(c) /\ UNCHANGED degraded

Refuse(c) == Answered(c) /\ UNCHANGED <<desired, degraded>>

\* Before it is refused, a request may have changed what the box serves.
Degrade(c) ==
  /\ asked[c].kind \in {"add", "remove"}
  /\ degraded' = TRUE /\ UNCHANGED <<desired, asked>>

Restore(c) ==
  /\ asked[c].kind = "restore"
  /\ degraded' = FALSE /\ Answered(c) /\ UNCHANGED desired

Destroy(c) ==
  /\ asked[c].kind = "destroy"
  /\ desired' = {} /\ degraded' = FALSE /\ Answered(c)

Next ==
  \E c \in Clients :
    \/ Ask(c) \/ Add(c) \/ Remove(c) \/ Refuse(c)
    \/ Degrade(c) \/ Restore(c) \/ Destroy(c)

Spec == Init /\ [][Next]_<<desired, degraded, asked>>
=============================================================================
