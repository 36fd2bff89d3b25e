----------------------------- MODULE PeerTable -----------------------------
(***************************************************************************)
(* What the node lists of a process are, without their order, their        *)
(* records and their duplicates: two sets of other processes.  A message   *)
(* is the only source of members.  A set of random peers forgets one only  *)
(* for another, when it is full, or when time passes; an important peer    *)
(* is first a random one or named in an exchange of important peers.       *)
(* Client shows that the lists of src/node.c, updated as src/protocol.c    *)
(* does, behave like this.                                                 *)
(***************************************************************************)
EXTENDS Integers, FiniteSets

CONSTANTS
  Self,      \* the process itself
  Offers,    \* the sets of processes that a message may name
  MaxRandom  \* how many random peers are kept

VARIABLES random, important

vars == <<random, important>>

Init == random = {} /\ important = {}

(* An exchange of random peers that names S: as many are kept as there is  *)
(* room for.                                                               *)
MeetRandom(S) ==
  LET known == random \cup (S \ {Self})
  IN  /\ random' \subseteq known
      /\ random' = known \/ Cardinality(random') = MaxRandom
      /\ Cardinality(random') <= MaxRandom
      /\ important' \subseteq important \cup random'

MeetImportant(S) ==
  /\ important' \subseteq important \cup (S \ {Self})
  /\ UNCHANGED random

Forget == random' \subseteq random /\ important' \subseteq important

Next == Forget \/ \E S \in Offers : MeetRandom(S) \/ MeetImportant(S)

Spec == Init /\ [][Next]_vars
=============================================================================
