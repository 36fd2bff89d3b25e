--------------------------- MODULE NodeCollection ---------------------------
(***************************************************************************)
(* The list operations of src/node.c as operators on sequences of node     *)
(* records.  A NodeCollection of the program is an array with a length     *)
(* (nodeCount) and a capacity (maxNodeCount); here it is a sequence, and   *)
(* the capacity is an argument of the operations that look at it.          *)
(*                                                                         *)
(* qsort leaves the order of equal elements open, so whatever depends on   *)
(* it is a set of possible results.                                        *)
(***************************************************************************)
EXTENDS Integers, Sequences, FiniteSets, Functions

CONSTANTS
  Unit,        \* the utility 1.0; utilities are integers, scaled by Unit
  UtilityMax   \* DBL_MAX, the utility of a node at distance zero

ASSUME UnitAssumption == Unit \in Nat \ {0}
ASSUME UtilityMaxAssumption == UtilityMax \in Nat

(***************************************************************************)
(* struct Node.  A network address (ipAddr, port) is one value; the radac  *)
(* address is carried along by every operation and read by none, so it is  *)
(* left out.  A position is a point on a line, in the unit of coordRange:  *)
(* only the distance of two positions is ever used.                        *)
(***************************************************************************)
Node == [ nodeID     : Nat,
          addr       : Nat,
          pos        : Int,
          coordRange : Nat,
          timeStamp  : Nat,
          utility    : Nat ]

NodeLists == Seq(Node)

IDs(S) == {r.nodeID : r \in S}

UniqueIDs(s) == \A i, j \in DOMAIN s : s[i].nodeID = s[j].nodeID => i = j

(* Node_new, and Node_createOwnNode with the fields of the configuration.  *)
NewNode(id, addr, pos, range, time) ==
  [ nodeID |-> id, addr |-> addr, pos |-> pos, coordRange |-> range,
    timeStamp |-> time, utility |-> 0 ]

-----------------------------------------------------------------------------
(* Utility                                                                 *)

(* Node_utility: the squared sum of the two coordination ranges over the   *)
(* squared distance.  It reaches Unit exactly when the ranges touch.       *)
NodeUtility(a, b) ==
  LET reach  == a.coordRange + b.coordRange
      dist   == a.pos - b.pos
  IN  IF dist = 0 THEN UtilityMax ELSE (Unit * reach * reach) \div (dist * dist)

(* NodeCollection_calculateUtility: every record of nc with respect to n.  *)
CalculateUtility(nc, n) ==
  [i \in DOMAIN nc |-> [nc[i] EXCEPT !.utility = NodeUtility(n, nc[i])]]

(* Mutant: a node whose range only just touches is no candidate.           *)
StrictCandidate(r) == r.utility > Unit

IsCandidate(r) == r.utility >= Unit

CandidateNodes(nc) == {r \in Range(nc) : IsCandidate(r)}

CountCandidateNodes(nc) == Cardinality({i \in DOMAIN nc : IsCandidate(nc[i])})

-----------------------------------------------------------------------------
(* Appending, sorting, trimming                                            *)

(* Mutant: the identifier to ignore is not looked at.                      *)
AcceptedAll(b, ignoreID) == DOMAIN b

(* The positions of b that NodeCollection_append does not skip.            *)
Accepted(b, ignoreID) == {i \in DOMAIN b : b[i].nodeID # ignoreID}

(* NodeCollection_append: the records of the longer list.  The records of  *)
(* b that are not to be ignored are copied in order while there is room    *)
(* for one more; the rest are dropped.                                     *)
Appended(a, b, max, ignoreID) ==
  LET fits(i) == Cardinality({j \in Accepted(b, ignoreID) : j <= i})
                   <= max - Len(a)
  IN  Range(a) \cup {b[i] : i \in {j \in Accepted(b, ignoreID) : fits(j)}}

(* The orders in which qsort may leave the records S when it sorts them by *)
(* a field, highest value first.                                           *)
SortedBy(S, field) ==
  {s \in [1..Cardinality(S) -> S] :
     \A i, j \in 1..Cardinality(S) :
       i < j => s[i] # s[j] /\ s[i][field] >= s[j][field]}

(* NodeCollection_removeDuplicateNodes: what is left of the records S.     *)
(* One record of every identifier survives.  It is the one that the sort   *)
(* by identifier put last in its group, an order the sort leaves open;     *)
(* module DuplicateRemoval has the passes over the array.                  *)
WithoutDuplicates(S) ==
  {T \in SUBSET S :
     /\ \A r \in S : \E t \in T : t.nodeID = r.nodeID
     /\ \A s, t \in T : s.nodeID = t.nodeID => s = t}

(* NodeCollection_removeExcessNodes.                                       *)
RemoveExcessNodes(nc, floor) ==
  IF Len(nc) > floor THEN SubSeq(nc, 1, floor) ELSE nc

(* Mutant: a node is kept for one second more.                             *)
UnexpiredLate(nc, now, maxAge) == {r \in Range(nc) : r.timeStamp >= now - maxAge}

(* NodeCollection_removeExpiredNodes, without the final sort: the records  *)
(* younger than maxAge.                                                    *)
Unexpired(nc, now, maxAge) == {r \in Range(nc) : r.timeStamp > now - maxAge}
=============================================================================
