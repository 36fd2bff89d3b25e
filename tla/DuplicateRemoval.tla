-------------------------- MODULE DuplicateRemoval --------------------------
(***************************************************************************)
(* NodeCollection_removeDuplicateNodes of src/node.c, pass by pass over    *)
(* the array: sort by identifier, walk over neighbouring pairs and null    *)
(* one of two duplicates, sort again so that the nulled records come last, *)
(* cut them off.  A nulled record is one whose identifier is 0.            *)
(***************************************************************************)
EXTENDS NodeCollection

CONSTANT Inputs   \* the arrays the function is called with

ASSUME InputsAssumption ==
  Inputs \subseteq {s \in NodeLists : \A r \in Range(s) : r.nodeID # 0}

VARIABLES
  input,      \* the array as it was passed
  nodes,      \* nc->nodes, up to the old nodeCount
  i,          \* the loop variable, counted from 1
  nodeCount,  \* newNodeCount, assigned to nc->nodeCount at the end
  pc

vars == <<input, nodes, i, nodeCount, pc>>

Init ==
  /\ input \in Inputs
  /\ nodes = input
  /\ i = 1
  /\ nodeCount = Len(input)
  /\ pc = "sort"

(* NodeCollection_sortByNodeID: qsort with comp_sort_id.                   *)
SortsByNodeID(s) ==
  {[k \in DOMAIN s |-> s[p[k]]] :
     p \in {q \in Bijection(DOMAIN s, DOMAIN s) :
              \A j, k \in DOMAIN s : j < k => s[q[j]].nodeID >= s[q[k]].nodeID}}

Sort ==
  /\ pc = "sort"
  /\ nodes' \in SortsByNodeID(nodes)
  /\ pc' = "scan"
  /\ UNCHANGED <<input, i, nodeCount>>

(* Node_nullOutNode on entry k.                                            *)
NullOut(s, k) == [s EXCEPT ![k].nodeID = 0]

(* Node_swapPointers is given the addresses of two structs cast to         *)
(* addresses of pointers: it exchanges as many bytes as a pointer has, at  *)
(* the start of the structs.  That is the identifiers, not the records.    *)
SwapPointers(s, j, k) ==
  [s EXCEPT ![j].nodeID = s[k].nodeID, ![k].nodeID = s[j].nodeID]

(* Mutants: the second duplicate is nulled and not moved out of the way;   *)
(* of two records of equal age both are nulled.                            *)
ScanPairNoSwap(s, j) ==
  IF s[j].nodeID # s[j + 1].nodeID THEN s
  ELSE IF s[j].timeStamp < s[j + 1].timeStamp THEN NullOut(s, j)
  ELSE NullOut(s, j + 1)

ScanPairBoth(s, j) ==
  IF s[j].nodeID # s[j + 1].nodeID THEN s
  ELSE IF s[j].timeStamp = s[j + 1].timeStamp THEN NullOut(NullOut(s, j), j + 1)
  ELSE IF s[j].timeStamp < s[j + 1].timeStamp THEN NullOut(s, j)
  ELSE SwapPointers(NullOut(s, j + 1), j, j + 1)

(* One turn of the loop: if the neighbours are duplicates one is nulled,   *)
(* and the other is, or is meant to be, the one next in line.              *)
ScanPair(s, j) ==
  IF s[j].nodeID # s[j + 1].nodeID THEN s
  ELSE IF s[j].timeStamp < s[j + 1].timeStamp THEN NullOut(s, j)
  ELSE SwapPointers(NullOut(s, j + 1), j, j + 1)

(* Mutants: both duplicates are taken off the count; the loop variable     *)
(* does not advance when there is nothing to do.                           *)
ScanCountsBoth ==
  /\ pc = "scan"
  /\ i < Len(nodes)
  /\ nodes' = ScanPair(nodes, i)
  /\ nodeCount' = IF nodes[i].nodeID = nodes[i + 1].nodeID
                  THEN nodeCount - 2 ELSE nodeCount
  /\ i' = i + 1
  /\ UNCHANGED <<input, pc>>

ScanStays ==
  /\ pc = "scan"
  /\ i < Len(nodes)
  /\ nodes' = ScanPair(nodes, i)
  /\ nodeCount' = IF nodes[i].nodeID = nodes[i + 1].nodeID
                  THEN nodeCount - 1 ELSE nodeCount
  /\ i' = IF nodes[i].nodeID = nodes[i + 1].nodeID THEN i + 1 ELSE i
  /\ UNCHANGED <<input, pc>>

Scan ==
  /\ pc = "scan"
  /\ i < Len(nodes)
  /\ nodes' = ScanPair(nodes, i)
  /\ nodeCount' = IF nodes[i].nodeID = nodes[i + 1].nodeID
                  THEN nodeCount - 1 ELSE nodeCount
  /\ i' = i + 1
  /\ UNCHANGED <<input, pc>>

Finish ==
  /\ pc = "scan"
  /\ i >= Len(nodes)
  /\ nodes' \in SortsByNodeID(nodes)
  /\ pc' = "done"
  /\ UNCHANGED <<input, i, nodeCount>>

Next == Sort \/ Scan \/ Finish

Spec == Init /\ [][Next]_vars /\ WF_vars(Next)

-----------------------------------------------------------------------------
(* What the list holds after the call.                                     *)
Result == Range(SubSeq(nodes, 1, nodeCount))

(* The type invariant.                                                     *)
TypeOK ==
  /\ input \in Inputs
  /\ nodes \in NodeLists /\ Len(nodes) = Len(input)
  /\ i \in 1..(Len(input) + 1)
  /\ nodeCount \in 0..Len(input)
  /\ pc \in {"sort", "scan", "done"}

(* The records that are left are exactly one of every identifier of the    *)
(* input, each a record of the input and not a mixture of two, and they    *)
(* are counted right: the outcome Protocol assumes of the function.        *)
LeavesOnePerID ==
  pc = "done" => /\ Result \in WithoutDuplicates(Range(input))
                 /\ Cardinality(Result) = nodeCount

(* While the array is scanned every identifier is still there, and no more *)
(* records are nulled than are taken off the count.                        *)
NothingLost ==
  pc = "scan" =>
    /\ \A r \in Range(input) : \E s \in Range(nodes) : s.nodeID = r.nodeID
    /\ Cardinality({k \in DOMAIN nodes : nodes[k].nodeID = 0})
         = Len(input) - nodeCount

(* The call returns.                                                       *)
Returns == <>(pc = "done")

(* node.h, NodeCollection_removeDuplicateNodes: of the records with one    *)
(* identifier the most recent one is kept.                                 *)
KeepsMostRecent ==
  pc = "done" => \A r \in Result, s \in Range(input) :
                   r.nodeID = s.nodeID => r.timeStamp >= s.timeStamp
=============================================================================
