------------------------------ MODULE Protocol ------------------------------
(***************************************************************************)
(* The routines of src/protocol.c as operators: how a received list        *)
(* updates the two lists a client keeps, what a client sends, and to whom. *)
(* They are shared by every module in which a client takes steps.          *)
(***************************************************************************)
EXTENDS NodeCollection

CONSTANTS
  N,             \* PROTO_N: how many random nodes are kept
  M,             \* PROTO_M: with K, the first capacity of the important nodes
  K,             \* PROTO_K: headroom, growth step and payload size
  NodesMaxSize,  \* P2PDPRD_NODES_MAX_SIZE: a list does not grow beyond it
  TopNodes       \* the 10 of Node_getRandomImportantNode

ASSUME SizesAssumption == /\ N \in Nat \ {0}
                          /\ M \in Nat
                          /\ K \in Nat
                          /\ NodesMaxSize \in Nat
                          /\ TopNodes \in Nat \ {0, 1}

(* NodeCollection_pack and NodeCollection_unpack: the utility of a record  *)
(* does not travel.  The receiver computes it before it reads it.          *)
OnTheWire(nc) == [i \in DOMAIN nc |-> [nc[i] EXCEPT !.utility = 0]]

Packet(type, to, nc) == [type |-> type, to |-> to, nodes |-> OnTheWire(nc)]

-----------------------------------------------------------------------------
(* Updating the lists                                                      *)

(* Mutants: no trim; no sort by time stamp before the trim.                *)
UntrimmedRandomNodes(nc, rn, self) ==
  UNION {SortedBy(T, "timeStamp") :
           T \in WithoutDuplicates(Appended(rn, nc, 2 * N, self))}

UnsortedRandomNodes(nc, rn, self) ==
  {RemoveExcessNodes(s, N) :
     s \in UNION {SortedBy(T, "nodeID") :
                     T \in WithoutDuplicates(Appended(rn, nc, 2 * N, self))}}

(* Protocol_updateRandomNodes: append, one record per identifier, sort by  *)
(* time stamp, keep N of the 2N.                                           *)
UpdatedRandomNodes(nc, rn, self) ==
  LET kept == WithoutDuplicates(Appended(rn, nc, 2 * N, self))
  IN  {RemoveExcessNodes(s, N) : s \in UNION {SortedBy(T, "timeStamp") : T \in kept}}

(* Mutants: the headroom is not reserved; the hard limit is never reached. *)
LateGrownCapacity(nc, max) ==
  IF CountCandidateNodes(nc) > max /\ max + K <= NodesMaxSize
  THEN max + K ELSE max

TimidGrownCapacity(nc, max) ==
  IF CountCandidateNodes(nc) > max - K /\ max + K < NodesMaxSize
  THEN max + K ELSE max

(* The growth test of Protocol_updateImportantNodes and                    *)
(* NodeCollection_grow: by K when the candidates alone exceed what a trim  *)
(* would leave, unless that passes the hard limit.                         *)
GrownCapacity(nc, max) ==
  IF CountCandidateNodes(nc) > max - K /\ max + K <= NodesMaxSize
  THEN max + K ELSE max

(* Mutants: trimmed to the capacity; sorted by time stamp; the utilities   *)
(* not calculated.                                                         *)
FullImportantNodes(nc, in, max, own) ==
  LET kept == WithoutDuplicates(
                Appended(in, CalculateUtility(nc, own), max, own.nodeID))
      trimmed(s) == LET size == GrownCapacity(s, max)
                    IN  [nodes |-> RemoveExcessNodes(s, size), max |-> size]
  IN  {trimmed(s) : s \in UNION {SortedBy(T, "utility") : T \in kept}}

TimeSortedImportantNodes(nc, in, max, own) ==
  LET kept == WithoutDuplicates(
                Appended(in, CalculateUtility(nc, own), max, own.nodeID))
      trimmed(s) == LET size == GrownCapacity(s, max)
                    IN  [nodes |-> RemoveExcessNodes(s, size - K), max |-> size]
  IN  {trimmed(s) : s \in UNION {SortedBy(T, "timeStamp") : T \in kept}}

UncalculatedImportantNodes(nc, in, max, own) ==
  LET kept == WithoutDuplicates(Appended(in, nc, max, own.nodeID))
      trimmed(s) == LET size == GrownCapacity(s, max)
                    IN  [nodes |-> RemoveExcessNodes(s, size - K), max |-> size]
  IN  {trimmed(s) : s \in UNION {SortedBy(T, "utility") : T \in kept}}

(* Protocol_updateImportantNodes: the records of nc, and only those, are   *)
(* given their utility for the client's own position; then append, one     *)
(* record per identifier, sort by utility, grow, trim.                     *)
UpdatedImportantNodes(nc, in, max, own) ==
  LET kept == WithoutDuplicates(
                Appended(in, CalculateUtility(nc, own), max, own.nodeID))
      trimmed(s) == LET size == GrownCapacity(s, max)
                    IN  [nodes |-> RemoveExcessNodes(s, size - K), max |-> size]
  IN  {trimmed(s) : s \in UNION {SortedBy(T, "utility") : T \in kept}}

-----------------------------------------------------------------------------
(* What is sent                                                            *)

(* Mutant: the whole list.                                                 *)
FullRandomPayload(rn, own) == <<own>> \o rn

(* Protocol_sendRandomNodes: the own node and the list without its last    *)
(* record (the copy loop stops at nodeCount - 1).                          *)
RandomPayload(rn, own) ==
  IF Len(rn) > 1 THEN <<own>> \o SubSeq(rn, 1, Len(rn) - 1) ELSE <<own>>

(* Mutants: one record more; the utilities not calculated for the peer.    *)
LongImportantPayloads(in, own, peer) ==
  IF Len(in) > K
  THEN {<<own>> \o RemoveExcessNodes(s, K + 1) :
          s \in SortedBy(Range(CalculateUtility(in, peer)), "utility")}
  ELSE {<<own>> \o in}

OwnImportantPayloads(in, own, peer) ==
  {<<own>> \o RemoveExcessNodes(in, K)}

(* Protocol_sendImportantNodes: the own node and the list, or the K of its *)
(* records that are the most useful to the receiver.                       *)
ImportantPayloads(in, own, peer) ==
  IF Len(in) > K
  THEN {<<own>> \o RemoveExcessNodes(s, K) :
          s \in SortedBy(Range(CalculateUtility(in, peer)), "utility")}
  ELSE {<<own>> \o in}

-----------------------------------------------------------------------------
(* Whom to contact                                                         *)

(* Node_getRandomPeerNode; the loop of at most 100 draws is taken to find  *)
(* a record that is not the client's own whenever there is one.            *)
PeerChoices(rn, self) == {r \in Range(rn) : r.nodeID # self}

(* Node_getRandomImportantNode: in a long list only the first nine, or the *)
(* first as many as there are candidates.                                  *)
ImportantRange(in) ==
  IF Len(in) < TopNodes THEN Len(in)
  ELSE IF CountCandidateNodes(in) < TopNodes THEN TopNodes - 1
  ELSE CountCandidateNodes(in)

ImportantChoices(in, self) ==
  {r \in {in[i] : i \in 1..ImportantRange(in)} : r.nodeID # self}
=============================================================================
