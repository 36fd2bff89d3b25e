---------------------------- MODULE ClientProofs ----------------------------
(***************************************************************************)
(* The invariants of Client, for all values of its constants.              *)
(*                                                                         *)
(* The type invariant is inductive by itself.  Headroom, DistinctPeers and *)
(* ImportantSorted are each inductive under it: what a merge or a cleanup  *)
(* leaves in a list follows from the lemmas of ProtocolLemmas.  So do the  *)
(* action properties, and that every step of the random nodes is a step of *)
(* PeerTable.  Two theorems say on which sizes they rest: MessagesFit, and *)
(* N <= K, which the defaults of the program satisfy.                      *)
(***************************************************************************)
EXTENDS Client, ProtocolLemmas

(* The own node is a node.                                                 *)
LEMMA OwnNodeType == TypeOK => OwnNode \in Node
<1> SUFFICES ASSUME TypeOK PROVE OwnNode \in Node
  OBVIOUS
<1>1. place.pos \in Int /\ place.coordRange \in Nat /\ now \in Nat
  BY TimesAssumption DEF TypeOK, Place
<1> QED
  BY <1>1, NewNodeType, SelfAssumption DEF OwnNode

(* A message of the environment has a sender and a list of nodes.          *)
LEMMA MessageType ==
  ASSUME NEW m \in Messages
  PROVE  /\ m.type \in PayloadTypes
         /\ m.nodes \in NodeLists
         /\ m.nodes[1] \in Node
<1>1. m \in [type : PayloadTypes, nodes : NodeLists \ {<<>>}]
  BY MessagesAssumption
<1>2. m.nodes \in NodeLists /\ m.nodes # <<>>
  BY <1>1
<1>3. m.nodes[1] \in Node
  BY <1>2 DEF NodeLists
<1> QED
  BY <1>1, <1>2, <1>3

(* A packet is a typed message to an address.                              *)
LEMMA PacketType ==
  ASSUME NEW type \in PayloadTypes, NEW to \in Nat, NEW nc \in NodeLists
  PROVE  Packet(type, to, nc) \in [type : PayloadTypes, to : Nat, nodes : NodeLists]
BY OnTheWireType DEF Packet

(* What a merge of random nodes leaves behind, from well-typed lists.      *)
LEMMA MergeRandomProperties ==
  ASSUME TypeOK, NEW nc \in NodeLists, MergeRandom(nc)
  PROVE  /\ randomNodes' \in NodeLists
         /\ Len(randomNodes') <= N
         /\ UniqueIDs(randomNodes')
         /\ IDs(Range(randomNodes'))
              \subseteq IDs(Range(randomNodes)) \cup (IDs(Range(nc)) \ {Self})
         /\ importantNodes' \in NodeLists
         /\ maxImportant' \in Nat /\ maxImportant' >= maxImportant
         /\ maxImportant' # maxImportant => maxImportant' <= NodesMaxSize
         /\ Len(importantNodes') <= maxImportant' - K
         /\ UniqueIDs(importantNodes')
         /\ ImportantSorted'
         /\ IDs(Range(importantNodes'))
              \subseteq IDs(Range(importantNodes)) \cup (IDs(Range(randomNodes')) \ {Self})
<1>1. PICK rn \in UpdatedRandomNodes(nc, randomNodes, Self) :
        \E in \in UpdatedImportantNodes(rn, importantNodes, maxImportant, OwnNode) :
          /\ randomNodes' = CalculateUtility(rn, OwnNode)
          /\ importantNodes' = in.nodes
          /\ maxImportant' = in.max
  BY DEF MergeRandom
<1>2. PICK in \in UpdatedImportantNodes(rn, importantNodes, maxImportant, OwnNode) :
          /\ randomNodes' = CalculateUtility(rn, OwnNode)
          /\ importantNodes' = in.nodes
          /\ maxImportant' = in.max
  BY <1>1
<1>3. /\ randomNodes \in NodeLists /\ importantNodes \in NodeLists
      /\ maxImportant \in Nat /\ maxImportant >= K
  BY SizesAssumption DEF TypeOK
<1>4. OwnNode \in Node /\ OwnNode.nodeID = Self
  BY OwnNodeType DEF OwnNode, NewNode
<1>5. /\ rn \in NodeLists
      /\ Len(rn) <= N
      /\ UniqueIDs(rn)
      /\ Range(rn) \subseteq Range(randomNodes) \cup {r \in Range(nc) : r.nodeID # Self}
  BY <1>3, UpdatedRandomProperties
<1>6. /\ randomNodes' \in NodeLists
      /\ Len(randomNodes') = Len(rn)
      /\ \A i \in 1..Len(rn) : randomNodes'[i].nodeID = rn[i].nodeID
  BY <1>2, <1>4, <1>5, CalculateUtilityType
<1>7. DOMAIN rn = 1..Len(rn) /\ DOMAIN randomNodes' = 1..Len(rn)
  BY <1>5, <1>6 DEF NodeLists
<1>8. UniqueIDs(randomNodes') /\ IDs(Range(randomNodes')) = IDs(Range(rn))
  BY <1>5, <1>6, <1>7 DEF UniqueIDs, IDs, Range
<1>9. IDs(Range(randomNodes'))
        \subseteq IDs(Range(randomNodes)) \cup (IDs(Range(nc)) \ {Self})
  BY <1>5, <1>8 DEF IDs
<1>10. /\ in.nodes \in NodeLists
       /\ in.max \in Nat /\ in.max >= maxImportant
       /\ in.max # maxImportant => in.max <= NodesMaxSize
       /\ Len(in.nodes) <= in.max - K
       /\ UniqueIDs(in.nodes)
       /\ \A i, j \in DOMAIN in.nodes :
            i < j => in.nodes[i].utility >= in.nodes[j].utility
       /\ IDs(Range(in.nodes))
            \subseteq IDs(Range(importantNodes)) \cup (IDs(Range(rn)) \ {OwnNode.nodeID})
  BY <1>3, <1>4, <1>5, UpdatedImportantProperties
<1>11. ImportantSorted'
  BY <1>2, <1>10 DEF ImportantSorted
<1> QED
  BY <1>2, <1>4, <1>5, <1>6, <1>8, <1>9, <1>10, <1>11

(* What a merge of important nodes leaves behind, from well-typed lists.   *)
LEMMA MergeImportantProperties ==
  ASSUME TypeOK, NEW nc \in NodeLists, MergeImportant(nc)
  PROVE  /\ randomNodes' = randomNodes
         /\ importantNodes' \in NodeLists
         /\ maxImportant' \in Nat /\ maxImportant' >= maxImportant
         /\ maxImportant' # maxImportant => maxImportant' <= NodesMaxSize
         /\ Len(importantNodes') <= maxImportant' - K
         /\ UniqueIDs(importantNodes')
         /\ ImportantSorted'
         /\ IDs(Range(importantNodes'))
              \subseteq IDs(Range(importantNodes)) \cup (IDs(Range(nc)) \ {Self})
<1>1. PICK in \in UpdatedImportantNodes(nc, importantNodes, maxImportant, OwnNode) :
          /\ importantNodes' = in.nodes
          /\ maxImportant' = in.max
  BY DEF MergeImportant
<1>2. /\ importantNodes \in NodeLists
      /\ maxImportant \in Nat /\ maxImportant >= K
  BY SizesAssumption DEF TypeOK
<1>3. OwnNode \in Node /\ OwnNode.nodeID = Self
  BY OwnNodeType DEF OwnNode, NewNode
<1>4. /\ in.nodes \in NodeLists
      /\ in.max \in Nat /\ in.max >= maxImportant
      /\ in.max # maxImportant => in.max <= NodesMaxSize
      /\ Len(in.nodes) <= in.max - K
      /\ UniqueIDs(in.nodes)
      /\ \A i, j \in DOMAIN in.nodes :
           i < j => in.nodes[i].utility >= in.nodes[j].utility
      /\ IDs(Range(in.nodes))
           \subseteq IDs(Range(importantNodes)) \cup (IDs(Range(nc)) \ {OwnNode.nodeID})
  BY <1>2, <1>3, UpdatedImportantProperties
<1>5. ImportantSorted'
  BY <1>1, <1>4 DEF ImportantSorted
<1> QED
  BY <1>1, <1>3, <1>4, <1>5 DEF MergeImportant

(* A received message is merged into both lists or into the important      *)
(* nodes only.                                                             *)
LEMMA ReceiveMerges ==
  ASSUME Receive
  PROVE  \E m \in Messages : /\ MergeRandom(m.nodes) \/ MergeImportant(m.nodes)
                             /\ received' = m
BY DEF Receive, ReceiveRandom, ReceiveRandomRequest, ReceiveImportant,
       ReceiveImportantRequest

(* What the cleanup leaves behind: records that were there, reordered.     *)
LEMMA CleanupProperties ==
  ASSUME TypeOK, Cleanup
  PROVE  /\ randomNodes' \in NodeLists
         /\ Range(randomNodes') \subseteq Range(randomNodes)
         /\ Len(randomNodes') <= Len(randomNodes)
         /\ importantNodes' \in NodeLists
         /\ Range(importantNodes') \subseteq Range(importantNodes)
         /\ Len(importantNodes') <= Len(importantNodes)
         /\ ImportantSorted'
         /\ UniqueIDs(randomNodes) => UniqueIDs(randomNodes')
         /\ UniqueIDs(importantNodes) => UniqueIDs(importantNodes')
<1>1. randomNodes \in NodeLists /\ importantNodes \in NodeLists
  BY DEF TypeOK
<1>2. ASSUME NEW s \in NodeLists, NEW field,
             NEW t \in SortedBy(Unexpired(s, now, NodeMaxAge), field)
      PROVE  /\ t \in NodeLists
             /\ Range(t) \subseteq Range(s)
             /\ Len(t) <= Len(s)
             /\ \A i, j \in 1..Len(t) : i < j => t[i][field] >= t[j][field]
             /\ UniqueIDs(s) => UniqueIDs(t)
  <2> DEFINE S == Unexpired(s, now, NodeMaxAge)
  <2>1. /\ S \subseteq Range(s) /\ S \subseteq Node /\ IsFiniteSet(S)
        /\ Cardinality(S) <= Len(s)
    BY UnexpiredProperties
  <2> HIDE DEF S
  <2>2. /\ t \in NodeLists
        /\ Len(t) = Cardinality(S)
        /\ Range(t) \subseteq S
        /\ \A i, j \in 1..Len(t) : i < j => t[i][field] >= t[j][field]
    BY <2>1, SortedByProperties DEF S
  <2>3. ASSUME UniqueIDs(s) PROVE UniqueIDs(t)
    <3>1. \A q, r \in S : q.nodeID = r.nodeID => q = r
      BY <2>1, <2>3 DEF UniqueIDs, Range
    <3> QED
      BY <2>1, <3>1, SortedByUnique DEF S
  <2> QED
    BY <2>1, <2>2, <2>3 DEF S
<1>3. /\ randomNodes' \in SortedBy(Unexpired(randomNodes, now, NodeMaxAge), "nodeID")
      /\ importantNodes' \in SortedBy(Unexpired(importantNodes, now, NodeMaxAge), "utility")
  BY DEF Cleanup
<1>4. /\ randomNodes' \in NodeLists
      /\ Range(randomNodes') \subseteq Range(randomNodes)
      /\ Len(randomNodes') <= Len(randomNodes)
      /\ UniqueIDs(randomNodes) => UniqueIDs(randomNodes')
  BY <1>1, <1>2, <1>3
<1>5. /\ importantNodes' \in NodeLists
      /\ Range(importantNodes') \subseteq Range(importantNodes)
      /\ Len(importantNodes') <= Len(importantNodes)
      /\ \A i, j \in 1..Len(importantNodes') :
           i < j => importantNodes'[i].utility >= importantNodes'[j].utility
      /\ UniqueIDs(importantNodes) => UniqueIDs(importantNodes')
  BY <1>1, <1>2, <1>3
<1>6. ImportantSorted'
  BY <1>5 DEF ImportantSorted, NodeLists
<1> QED
  BY <1>4, <1>5, <1>6

(* The requests of a cleanup are packets.                                  *)
LEMMA RequestsType ==
  ASSUME TypeOK, NEW rn \in NodeLists, NEW in \in NodeLists,
         NEW rq \in RandomRequests(rn), NEW iq \in ImportantRequests(in)
  PROVE  rq \cup iq \subseteq [type : PayloadTypes, to : Nat, nodes : NodeLists]
<1> DEFINE Packets == [type : PayloadTypes, to : Nat, nodes : NodeLists]
<1>1. OwnNode \in Node
  BY OwnNodeType
<1>2. "RND_REQ" \in PayloadTypes /\ "IMP_REQ" \in PayloadTypes
  BY DEF PayloadTypes, RequestTypes
<1>3. rq \subseteq Packets
  <2>1. CASE PeerChoices(rn, Self) = {}
    <3>1. rq = {Packet("RND_REQ", Origin, <<OwnNode>>)}
      BY <2>1 DEF RandomRequests
    <3>2. <<OwnNode>> \in NodeLists
      BY <1>1 DEF NodeLists
    <3> QED
      BY <1>2, <3>1, <3>2, PacketType, SelfAssumption
  <2>2. CASE PeerChoices(rn, Self) # {}
    <3>1. PICK peer \in PeerChoices(rn, Self) :
            rq = {Packet("RND_REQ", peer.addr, RandomPayload(rn, OwnNode))}
      BY <2>2 DEF RandomRequests
    <3>2. peer \in Range(rn)
      BY DEF PeerChoices
    <3>3. peer.addr \in Nat
      BY <3>2, RangeFinite DEF Node
    <3>4. RandomPayload(rn, OwnNode) \in NodeLists
      BY <1>1, RandomPayloadType
    <3> QED
      BY <1>2, <3>1, <3>3, <3>4, PacketType
  <2> QED
    BY <2>1, <2>2
<1>4. iq \subseteq Packets
  <2>1. CASE ImportantChoices(in, Self) = {}
    BY <2>1 DEF ImportantRequests
  <2>2. CASE ImportantChoices(in, Self) # {}
    <3>1. PICK peer \in ImportantChoices(in, Self) :
            \E payload \in ImportantPayloads(in, OwnNode, peer) :
              iq = {Packet("IMP_REQ", peer.addr, payload)}
      BY <2>2 DEF ImportantRequests
    <3>2. PICK payload \in ImportantPayloads(in, OwnNode, peer) :
            iq = {Packet("IMP_REQ", peer.addr, payload)}
      BY <3>1
    <3>3. 1..ImportantRange(in) \subseteq 1..Len(in)
      BY ImportantRangeBound DEF NodeLists
    <3>4. peer \in Node
      <4>1. PICK i \in 1..ImportantRange(in) : peer = in[i]
        BY DEF ImportantChoices
      <4> QED
        BY <3>3, <4>1 DEF NodeLists
    <3>5. payload \in NodeLists
      BY <1>1, <3>4, ImportantPayloadType
    <3> QED
      BY <1>2, <3>2, <3>4, <3>5, PacketType DEF Node
  <2> QED
    BY <2>1, <2>2
<1> QED
  BY <1>3, <1>4

-----------------------------------------------------------------------------
(* Type correctness                                                        *)

(* What is published are nodes, to subscribers.                            *)
LEMMA PublicationType ==
  ASSUME TypeOK, NEW in \in NodeLists
  PROVE  Publication(in) \in [to : SUBSET Subscribers, nodes : SUBSET Node]
<1>1. CandidateNodes(in) \subseteq Node
  BY RangeFinite DEF CandidateNodes
<1>2. OwnNode \in Node
  BY OwnNodeType
<1> QED
  BY <1>1, <1>2 DEF Publication, NoPublication, TypeOK

(* The parts of the type invariant, by the actions that may disturb them.  *)
ListsOK == /\ randomNodes \in NodeLists
           /\ importantNodes \in NodeLists
           /\ maxImportant \in Nat /\ maxImportant >= M + K
LocalOK == /\ place \in Place
           /\ subs \subseteq Subscribers /\ IsFiniteSet(subs) /\ Cardinality(subs) <= MaxSubs
LoopOK  == /\ now \in 0..MaxTime /\ lastCleanup \in 0..now
           /\ phase \in {"select", "check", "exited"}
TraceOK == /\ received \in Messages \cup {NoMessage}
           /\ sent \subseteq [type : PayloadTypes, to : Nat, nodes : NodeLists]
           /\ published \in [to : SUBSET Subscribers, nodes : SUBSET Node]

LEMMA TypeParts == TypeOK <=> ListsOK /\ LocalOK /\ LoopOK /\ TraceOK
BY DEF TypeOK, ListsOK, LocalOK, LoopOK, TraceOK

LEMMA QuietTrace == Quiet => TraceOK'
BY DEF Quiet, TraceOK, NoPublication

(* Every step keeps the types.                                             *)
LEMMA TypeStep == TypeOK /\ [Next]_vars => TypeOK'
<1> SUFFICES ASSUME TypeOK, [Next]_vars PROVE TypeOK'
  OBVIOUS
<1>0. ListsOK /\ LocalOK /\ LoopOK /\ TraceOK
  BY TypeParts
<1> USE DEF lists
<1>1. CASE Tick
  <2>1. ListsOK' /\ LocalOK'
    BY <1>0, <1>1 DEF Tick, ListsOK, LocalOK
  <2>2. LoopOK'
    BY <1>0, <1>1, TimesAssumption DEF Tick, LoopOK
  <2> QED
    BY <1>1, <2>1, <2>2, QuietTrace, TypeParts DEF Tick, TypeOK, ListsOK, LocalOK, LoopOK, TraceOK
<1>2. CASE Idle
  BY <1>0, <1>2, QuietTrace DEF Idle, TypeOK, ListsOK, LocalOK, LoopOK, TraceOK
<1>3. CASE Receive
  <2>1. PICK m \in Messages : /\ MergeRandom(m.nodes) \/ MergeImportant(m.nodes)
                             /\ received' = m
    BY <1>3, ReceiveMerges
  <2>2. m.nodes \in NodeLists
    BY MessageType
  <2>3. ListsOK'
    <3>1. CASE MergeRandom(m.nodes)
      BY <1>0, <2>2, <3>1, MergeRandomProperties, SizesAssumption DEF ListsOK
    <3>2. CASE MergeImportant(m.nodes)
      BY <1>0, <2>2, <3>2, MergeImportantProperties, SizesAssumption DEF ListsOK
    <3> QED
      BY <2>1, <3>1, <3>2
  <2>4. sent' \subseteq [type : PayloadTypes, to : Nat, nodes : NodeLists]
    <3>1. PICK n \in Messages : \/ ReceiveRandom(n)
                               \/ ReceiveRandomRequest(n)
                               \/ ReceiveImportant(n)
                               \/ ReceiveImportantRequest(n)
      BY <1>3 DEF Receive
    <3>2. n.nodes[1] \in Node /\ n.nodes[1].addr \in Nat
      BY MessageType DEF Node
    <3>3. OwnNode \in Node
      BY OwnNodeType
    <3>4. CASE ReceiveRandom(n) \/ ReceiveImportant(n)
      BY <3>4 DEF ReceiveRandom, ReceiveImportant
    <3>5. CASE ReceiveRandomRequest(n)
      <4>1. RandomPayload(randomNodes, OwnNode) \in NodeLists
        BY <1>0, <3>3, RandomPayloadType DEF ListsOK
      <4>2. "RND_NOREQ" \in PayloadTypes
        BY DEF PayloadTypes
      <4> QED
        BY <3>2, <3>5, <4>1, <4>2, PacketType DEF ReceiveRandomRequest
    <3>6. CASE ReceiveImportantRequest(n)
      <4>1. PICK payload \in ImportantPayloads(importantNodes, OwnNode, n.nodes[1]) :
              sent' = {Packet("IMP_NOREQ", n.nodes[1].addr, payload)}
        BY <3>6 DEF ReceiveImportantRequest
      <4>2. payload \in NodeLists
        BY <1>0, <3>2, <3>3, ImportantPayloadType DEF ListsOK
      <4>3. "IMP_NOREQ" \in PayloadTypes
        BY DEF PayloadTypes
      <4> QED
        BY <3>2, <4>1, <4>2, <4>3, PacketType
    <3> QED
      BY <3>1, <3>4, <3>5, <3>6
  <2>5. TraceOK'
    BY <1>3, <2>1, <2>4 DEF Receive, TraceOK, NoPublication
  <2>6. LocalOK' /\ LoopOK'
    BY <1>0, <1>3 DEF Receive, LocalOK, LoopOK
  <2> QED
    BY <2>3, <2>5, <2>6 DEF TypeOK, ListsOK, LocalOK, LoopOK, TraceOK
<1>4. CASE LocalRequest
  <2>1. LocalOK'
    <3>1. CASE \E p \in Places : SetPlace(p)
      <4>1. PICK p \in Places : SetPlace(p)
        BY <3>1
      <4>2. p \in Place /\ place \in Place
        BY <1>0, RequestsAssumption DEF LocalOK
      <4>3. place' \in Place
        BY <4>1, <4>2 DEF SetPlace, Place
      <4> QED
        BY <1>0, <4>1, <4>3 DEF SetPlace, LocalOK
    <3>2. ASSUME NEW s \in Subscribers, Subscribe(s) PROVE LocalOK'
      <4>1. IsFiniteSet(subs) /\ Cardinality(subs) \in Nat
        BY <1>0, FS_CardinalityType DEF LocalOK
      <4>2. /\ IsFiniteSet(subs \cup {s})
            /\ Cardinality(subs \cup {s}) =
                 IF s \in subs THEN Cardinality(subs) ELSE Cardinality(subs) + 1
        BY <4>1, FS_AddElement
      <4> QED
        BY <1>0, <3>2, <4>1, <4>2, RequestsAssumption DEF Subscribe, LocalOK
    <3>3. ASSUME NEW s \in Subscribers, Unsubscribe(s) PROVE LocalOK'
      <4>1. IsFiniteSet(subs) /\ Cardinality(subs) \in Nat
        BY <1>0, FS_CardinalityType DEF LocalOK
      <4>2. /\ IsFiniteSet(subs \ {s})
            /\ Cardinality(subs \ {s}) =
                 IF s \in subs THEN Cardinality(subs) - 1 ELSE Cardinality(subs)
        BY <4>1, FS_RemoveElement
      <4> QED
        BY <1>0, <3>3, <4>1, <4>2, RequestsAssumption DEF Unsubscribe, LocalOK
    <3> QED
      BY <1>4, <3>1, <3>2, <3>3 DEF LocalRequest
  <2>2. ListsOK' /\ LoopOK' /\ TraceOK'
    BY <1>0, <1>4, QuietTrace DEF LocalRequest, ListsOK, LoopOK
  <2> QED
    BY <2>1, <2>2 DEF TypeOK, ListsOK, LocalOK, LoopOK, TraceOK
<1>5. CASE NoCleanup
  BY <1>0, <1>5, QuietTrace DEF NoCleanup, TypeOK, ListsOK, LocalOK, LoopOK, TraceOK
<1>6. CASE Cleanup
  <2>1. randomNodes' \in NodeLists /\ importantNodes' \in NodeLists
    BY <1>6, CleanupProperties
  <2>2. ListsOK' /\ LocalOK'
    BY <1>0, <1>6, <2>1 DEF Cleanup, ListsOK, LocalOK
  <2>3. LoopOK'
    BY <1>0, <1>6, TimesAssumption DEF Cleanup, LoopOK
  <2>4. sent' \subseteq [type : PayloadTypes, to : Nat, nodes : NodeLists]
    BY <1>6, <2>1, RequestsType DEF Cleanup
  <2>5. published' \in [to : SUBSET Subscribers, nodes : SUBSET Node]
    BY <1>6, <2>1, PublicationType DEF Cleanup
  <2>6. TraceOK'
    BY <1>6, <2>4, <2>5 DEF Cleanup, TraceOK
  <2> QED
    BY <2>2, <2>3, <2>6 DEF TypeOK, ListsOK, LocalOK, LoopOK, TraceOK
<1>7. CASE Exit
  <2>1. ListsOK'
    BY <1>7, SizesAssumption DEF Exit, ListsOK, NodeLists
  <2>2. LocalOK'
    BY <1>0, <1>7, FS_EmptySet, RequestsAssumption DEF Exit, LocalOK
  <2>3. LoopOK' /\ TraceOK'
    BY <1>0, <1>7, QuietTrace DEF Exit, LoopOK
  <2> QED
    BY <2>1, <2>2, <2>3 DEF TypeOK, ListsOK, LocalOK, LoopOK, TraceOK
<1>8. CASE UNCHANGED vars
  BY <1>8 DEF vars, TypeOK
<1> QED
  BY <1>1, <1>2, <1>3, <1>4, <1>5, <1>6, <1>7, <1>8 DEF Next

(* Every behaviour keeps the type invariant: whatever arrives, the lists   *)
(* are lists of nodes, the capacity never shrinks below its first value,   *)
(* the subscriber list never holds more than it has room for.              *)
THEOREM TypeCorrect == Spec => []TypeOK
<1>1. Init => TypeOK
  <2> SUFFICES ASSUME Init PROVE TypeOK
    OBVIOUS
  <2>1. ListsOK
    BY SizesAssumption DEF Init, ListsOK, NodeLists
  <2>2. LocalOK
    BY FS_EmptySet, RequestsAssumption DEF Init, LocalOK
  <2>3. LoopOK
    BY TimesAssumption DEF Init, LoopOK
  <2>4. TraceOK
    BY DEF Init, TraceOK, NoPublication
  <2> QED
    BY <2>1, <2>2, <2>3, <2>4, TypeParts
<1> QED
  BY <1>1, TypeStep, PTL DEF Spec

-----------------------------------------------------------------------------
(* Headroom                                                                *)

LEMMA HeadroomStep == TypeOK /\ Headroom /\ [Next]_vars => Headroom'
<1> SUFFICES ASSUME TypeOK, Headroom, [Next]_vars PROVE Headroom'
  OBVIOUS
<1>0. /\ Len(randomNodes) \in Nat /\ Len(importantNodes) \in Nat
      /\ maxImportant \in Nat /\ N \in Nat /\ K \in Nat /\ M \in Nat
      /\ NodesMaxSize \in Nat
  BY SizesAssumption DEF TypeOK, NodeLists
<1>1. CASE UNCHANGED lists
  BY <1>1 DEF lists, Headroom
<1>2. CASE Receive
  <2>1. PICK m \in Messages : MergeRandom(m.nodes) \/ MergeImportant(m.nodes)
    BY <1>2, ReceiveMerges
  <2>2. m.nodes \in NodeLists
    BY MessageType
  <2>3. CASE MergeRandom(m.nodes)
    BY <1>0, <2>2, <2>3, MergeRandomProperties DEF Headroom
  <2>4. CASE MergeImportant(m.nodes)
    BY <1>0, <2>2, <2>4, MergeImportantProperties DEF Headroom
  <2> QED
    BY <2>1, <2>3, <2>4
<1>3. CASE Cleanup
  <2>1. /\ randomNodes' \in NodeLists /\ Len(randomNodes') <= Len(randomNodes)
        /\ importantNodes' \in NodeLists /\ Len(importantNodes') <= Len(importantNodes)
        /\ maxImportant' = maxImportant
    BY <1>3, CleanupProperties DEF Cleanup
  <2>2. Len(randomNodes') \in Nat /\ Len(importantNodes') \in Nat
    BY <2>1 DEF NodeLists
  <2> QED
    BY <1>0, <2>1, <2>2 DEF Headroom
<1>4. CASE Exit
  BY <1>0, <1>4 DEF Exit, Headroom
<1> QED
  BY <1>1, <1>2, <1>3, <1>4
     DEF Next, vars, lists, Tick, Idle, LocalRequest, NoCleanup

(* Whatever arrives, after every step N further random nodes and K further *)
(* important nodes fit, and the capacity grows only to the hard limit.     *)
THEOREM HeadroomHolds == Spec => []Headroom
<1>1. Init => Headroom
  BY SizesAssumption DEF Init, Headroom
<1> QED
  BY <1>1, HeadroomStep, TypeCorrect, PTL DEF Spec

-----------------------------------------------------------------------------
(* Distinct peers                                                          *)

LEMMA DistinctPeersStep == TypeOK /\ DistinctPeers /\ [Next]_vars => DistinctPeers'
<1> SUFFICES ASSUME TypeOK, DistinctPeers, [Next]_vars PROVE DistinctPeers'
  OBVIOUS
<1>0. /\ Self \notin IDs(Range(randomNodes)) /\ UniqueIDs(randomNodes)
      /\ Self \notin IDs(Range(importantNodes)) /\ UniqueIDs(importantNodes)
  BY DEF DistinctPeers
<1>1. CASE UNCHANGED lists
  BY <1>1 DEF lists, DistinctPeers
<1>2. CASE Receive
  <2>1. PICK m \in Messages : MergeRandom(m.nodes) \/ MergeImportant(m.nodes)
    BY <1>2, ReceiveMerges
  <2>2. m.nodes \in NodeLists
    BY MessageType
  <2>3. CASE MergeRandom(m.nodes)
    <3>1. UniqueIDs(randomNodes') /\ UniqueIDs(importantNodes')
      BY <2>2, <2>3, MergeRandomProperties
    <3>2. Self \notin IDs(Range(randomNodes'))
      BY <1>0, <2>2, <2>3, MergeRandomProperties
    <3>3. Self \notin IDs(Range(importantNodes'))
      BY <1>0, <2>2, <2>3, MergeRandomProperties
    <3> QED
      BY <3>1, <3>2, <3>3 DEF DistinctPeers
  <2>4. CASE MergeImportant(m.nodes)
    <3>1. UniqueIDs(importantNodes') /\ randomNodes' = randomNodes
      BY <2>2, <2>4, MergeImportantProperties
    <3>2. Self \notin IDs(Range(importantNodes'))
      BY <1>0, <2>2, <2>4, MergeImportantProperties
    <3> QED
      BY <1>0, <3>1, <3>2 DEF DistinctPeers
  <2> QED
    BY <2>1, <2>3, <2>4
<1>3. CASE Cleanup
  <2>1. /\ UniqueIDs(randomNodes') /\ Range(randomNodes') \subseteq Range(randomNodes)
        /\ UniqueIDs(importantNodes') /\ Range(importantNodes') \subseteq Range(importantNodes)
    BY <1>0, <1>3, CleanupProperties
  <2> QED
    BY <1>0, <2>1 DEF DistinctPeers, IDs
<1>4. CASE Exit
  <2>1. \A s : s = <<>> => UniqueIDs(s) /\ IDs(Range(s)) = {}
    BY DEF UniqueIDs, IDs, Range
  <2> QED
    BY <1>4, <2>1 DEF Exit, DistinctPeers
<1> QED
  BY <1>1, <1>2, <1>3, <1>4
     DEF Next, vars, lists, Tick, Idle, LocalRequest, NoCleanup

(* No list ever holds the client itself or two records of one node.        *)
THEOREM DistinctPeersHolds == Spec => []DistinctPeers
<1>1. Init => DistinctPeers
  BY DEF Init, DistinctPeers, UniqueIDs, IDs, Range
<1> QED
  BY <1>1, DistinctPeersStep, TypeCorrect, PTL DEF Spec

-----------------------------------------------------------------------------
(* The order of the important nodes                                        *)

LEMMA ImportantSortedStep ==
  TypeOK /\ ImportantSorted /\ [Next]_vars => ImportantSorted'
<1> SUFFICES ASSUME TypeOK, ImportantSorted, [Next]_vars PROVE ImportantSorted'
  OBVIOUS
<1>1. CASE UNCHANGED lists
  BY <1>1 DEF lists, ImportantSorted
<1>2. CASE Receive
  <2>1. PICK m \in Messages : MergeRandom(m.nodes) \/ MergeImportant(m.nodes)
    BY <1>2, ReceiveMerges
  <2>2. m.nodes \in NodeLists
    BY MessageType
  <2> QED
    BY <2>1, <2>2, MergeRandomProperties, MergeImportantProperties
<1>3. CASE Cleanup
  BY <1>3, CleanupProperties
<1>4. CASE Exit
  BY <1>4 DEF Exit, ImportantSorted
<1> QED
  BY <1>1, <1>2, <1>3, <1>4
     DEF Next, vars, lists, Tick, Idle, LocalRequest, NoCleanup

(* The important nodes are always sorted by their stored utilities.        *)
THEOREM ImportantSortedHolds == Spec => []ImportantSorted
<1>1. Init => ImportantSorted
  BY DEF Init, ImportantSorted
<1> QED
  BY <1>1, ImportantSortedStep, TypeCorrect, PTL DEF Spec

-----------------------------------------------------------------------------
(* The payloads                                                            *)

(* Packing a list that starts with the own node changes neither that nor   *)
(* its length, identifiers and time stamps.                                *)
LEMMA PacketNodes ==
  ASSUME NEW type, NEW to, NEW nc \in NodeLists, Len(nc) >= 1,
         nc[1] = OwnNode, OwnNode \in Node
  PROVE  LET p == Packet(type, to, nc)
         IN  /\ p.type = type /\ p.to = to
             /\ Len(p.nodes) = Len(nc)
             /\ DOMAIN p.nodes = 1..Len(nc)
             /\ p.nodes[1] = OwnNode
             /\ \A i \in 1..Len(nc) : /\ p.nodes[i].nodeID = nc[i].nodeID
                                     /\ p.nodes[i].timeStamp = nc[i].timeStamp
             /\ UniqueIDs(nc) => UniqueIDs(p.nodes)
<1> DEFINE w == OnTheWire(nc)
<1>1. /\ w \in NodeLists /\ Len(w) = Len(nc)
      /\ \A i \in 1..Len(nc) : w[i] = [nc[i] EXCEPT !.utility = 0]
  BY OnTheWireType
<1> HIDE DEF w
<1>2. Len(nc) \in Nat /\ DOMAIN nc = 1..Len(nc) /\ DOMAIN w = 1..Len(nc)
  BY <1>1 DEF NodeLists
<1>3. \A i \in 1..Len(nc) : /\ w[i].nodeID = nc[i].nodeID
                            /\ w[i].timeStamp = nc[i].timeStamp
  <2> SUFFICES ASSUME NEW i \in 1..Len(nc)
               PROVE  w[i].nodeID = nc[i].nodeID /\ w[i].timeStamp = nc[i].timeStamp
    OBVIOUS
  <2>1. nc[i] \in Node /\ w[i] = [nc[i] EXCEPT !.utility = 0]
    BY <1>1 DEF NodeLists
  <2> QED
    BY <2>1 DEF Node
<1>4. w[1] = OwnNode
  <2>1. w[1] = [OwnNode EXCEPT !.utility = 0]
    BY <1>1, <1>2
  <2>2. OwnNode.utility = 0
    BY DEF OwnNode, NewNode
  <2> QED
    BY <2>1, <2>2 DEF Node
<1>5. UniqueIDs(nc) => UniqueIDs(w)
  BY <1>2, <1>3 DEF UniqueIDs
<1> QED
  BY <1>1, <1>2, <1>3, <1>4, <1>5 DEF Packet, w

(* The packet of a payload of random nodes.                                *)
LEMMA RandomPacket ==
  ASSUME TypeOK, NEW rn \in NodeLists, UniqueIDs(rn), Self \notin IDs(Range(rn)),
         Len(rn) <= N, NEW type, NEW to
  PROVE  LET p == Packet(type, to, RandomPayload(rn, OwnNode))
         IN  /\ p.type = type /\ p.to = to
             /\ p.nodes[1] = OwnNode /\ UniqueIDs(p.nodes) /\ Len(p.nodes) <= N
             /\ \A r \in Range(p.nodes) : \/ r.nodeID = Self
                                         \/ \E q \in Range(rn) : r.timeStamp = q.timeStamp
<1> DEFINE nc == RandomPayload(rn, OwnNode)
<1>1. OwnNode \in Node /\ OwnNode.nodeID = Self
  BY OwnNodeType DEF OwnNode, NewNode
<1>2. /\ nc \in NodeLists
      /\ Len(nc) >= 1 /\ (Len(nc) <= Len(rn) \/ Len(nc) = 1)
      /\ nc[1] = OwnNode
  BY <1>1, RandomPayloadType
<1>3. UniqueIDs(nc) /\ \A i \in 2..Len(nc) : nc[i] \in Range(rn)
  BY <1>1, RandomPayloadRecords
<1> HIDE DEF nc
<1> DEFINE p == Packet(type, to, nc)
<1>4. /\ p.type = type /\ p.to = to
      /\ Len(p.nodes) = Len(nc) /\ DOMAIN p.nodes = 1..Len(nc)
      /\ p.nodes[1] = OwnNode
      /\ \A i \in 1..Len(nc) : /\ p.nodes[i].nodeID = nc[i].nodeID
                              /\ p.nodes[i].timeStamp = nc[i].timeStamp
      /\ UniqueIDs(p.nodes)
  BY <1>1, <1>2, <1>3, PacketNodes
<1> HIDE DEF p
<1>5. Len(p.nodes) <= N
  BY <1>2, <1>4, SizesAssumption DEF NodeLists
<1>6. ASSUME NEW i \in DOMAIN p.nodes
      PROVE  \/ p.nodes[i].nodeID = Self
             \/ \E q \in Range(rn) : p.nodes[i].timeStamp = q.timeStamp
  <2>1. CASE i = 1
    BY <1>1, <1>4, <2>1
  <2>2. CASE i # 1
    <3>1. i \in 2..Len(nc)
      BY <1>2, <1>4, <2>2 DEF NodeLists
    <3> QED
      BY <1>3, <1>4, <3>1
  <2> QED
    BY <2>1, <2>2
<1> QED
  BY <1>4, <1>5, <1>6 DEF p, nc, Range

(* The packet of a payload of important nodes.                             *)
LEMMA ImportantPacket ==
  ASSUME TypeOK, NEW in \in NodeLists, UniqueIDs(in), Self \notin IDs(Range(in)),
         NEW peer \in Node, NEW nc \in ImportantPayloads(in, OwnNode, peer),
         NEW type, NEW to
  PROVE  LET p == Packet(type, to, nc)
         IN  /\ p.type = type /\ p.to = to
             /\ p.nodes[1] = OwnNode /\ UniqueIDs(p.nodes) /\ Len(p.nodes) <= K + 1
             /\ \A r \in Range(p.nodes) : \/ r.nodeID = Self
                                         \/ \E q \in Range(in) : r.timeStamp = q.timeStamp
<1>1. OwnNode \in Node /\ OwnNode.nodeID = Self
  BY OwnNodeType DEF OwnNode, NewNode
<1>2. nc \in NodeLists /\ Len(nc) >= 1 /\ Len(nc) <= K + 1 /\ nc[1] = OwnNode
  BY <1>1, ImportantPayloadType
<1>3. UniqueIDs(nc) /\ \A i \in 2..Len(nc) : \E r \in Range(in) :
                         nc[i].nodeID = r.nodeID /\ nc[i].timeStamp = r.timeStamp
  BY <1>1, ImportantPayloadRecords
<1> DEFINE p == Packet(type, to, nc)
<1>4. /\ p.type = type /\ p.to = to
      /\ Len(p.nodes) = Len(nc) /\ DOMAIN p.nodes = 1..Len(nc)
      /\ p.nodes[1] = OwnNode
      /\ \A i \in 1..Len(nc) : /\ p.nodes[i].nodeID = nc[i].nodeID
                              /\ p.nodes[i].timeStamp = nc[i].timeStamp
      /\ UniqueIDs(p.nodes)
  BY <1>1, <1>2, <1>3, PacketNodes
<1> HIDE DEF p
<1>5. ASSUME NEW i \in DOMAIN p.nodes
      PROVE  \/ p.nodes[i].nodeID = Self
             \/ \E q \in Range(in) : p.nodes[i].timeStamp = q.timeStamp
  <2>1. CASE i = 1
    BY <1>1, <1>4, <2>1
  <2>2. CASE i # 1
    <3>1. i \in 2..Len(nc)
      BY <1>2, <1>4, <2>2 DEF NodeLists
    <3> QED
      BY <1>3, <1>4, <3>1
  <2> QED
    BY <2>1, <2>2
<1> QED
  BY <1>2, <1>4, <1>5 DEF p, Range

(* The packets of a cleanup, from the lists it leaves.                     *)
LEMMA RequestProperties ==
  ASSUME TypeOK,
         NEW rn \in NodeLists, UniqueIDs(rn), Self \notin IDs(Range(rn)), Len(rn) <= N,
         NEW in \in NodeLists, UniqueIDs(in), Self \notin IDs(Range(in)),
         NEW rq \in RandomRequests(rn), NEW iq \in ImportantRequests(in),
         NEW p \in rq \cup iq
  PROVE  /\ p.nodes[1] = OwnNode /\ UniqueIDs(p.nodes)
         /\ \/ p.type = "RND_REQ" /\ Len(p.nodes) <= N
            \/ p.type = "IMP_REQ" /\ Len(p.nodes) <= K + 1
         /\ \A r \in Range(p.nodes) :
              \/ r.nodeID = Self
              \/ \E q \in Range(rn) \cup Range(in) : r.timeStamp = q.timeStamp
         /\ p.to = Origin \/ \E q \in Range(rn) \cup Range(in) : q.addr = p.to
<1>1. CASE p \in rq
  <2>1. CASE PeerChoices(rn, Self) = {}
    <3>1. p = Packet("RND_REQ", Origin, <<OwnNode>>)
      BY <1>1, <2>1 DEF RandomRequests
    <3>2. OwnNode \in Node /\ OwnNode.nodeID = Self
      BY OwnNodeType DEF OwnNode, NewNode
    <3>3. <<OwnNode>> \in NodeLists /\ UniqueIDs(<<OwnNode>>)
      BY <3>2 DEF NodeLists, UniqueIDs
    <3> HIDE DEF OwnNode
    <3>4. /\ p.type = "RND_REQ" /\ p.to = Origin
          /\ Len(p.nodes) = 1 /\ DOMAIN p.nodes = 1..1
          /\ p.nodes[1] = OwnNode /\ UniqueIDs(p.nodes)
      BY <3>1, <3>2, <3>3, PacketNodes
    <3>5. \A r \in Range(p.nodes) : r.nodeID = Self
      BY <3>2, <3>4 DEF Range
    <3> QED
      BY <3>4, <3>5, SizesAssumption
  <2>2. CASE PeerChoices(rn, Self) # {}
    <3>1. PICK peer \in PeerChoices(rn, Self) :
            p = Packet("RND_REQ", peer.addr, RandomPayload(rn, OwnNode))
      BY <1>1, <2>2 DEF RandomRequests
    <3>2. peer \in Range(rn)
      BY DEF PeerChoices
    <3> QED
      BY <3>1, <3>2, RandomPacket
  <2> QED
    BY <2>1, <2>2
<1>2. CASE p \in iq
  <2>1. ImportantChoices(in, Self) # {}
    BY <1>2 DEF ImportantRequests
  <2>2. PICK peer \in ImportantChoices(in, Self) :
          \E payload \in ImportantPayloads(in, OwnNode, peer) :
            iq = {Packet("IMP_REQ", peer.addr, payload)}
    BY <2>1 DEF ImportantRequests
  <2>3. PICK payload \in ImportantPayloads(in, OwnNode, peer) :
          p = Packet("IMP_REQ", peer.addr, payload)
    BY <1>2, <2>2
  <2>4. peer \in Node /\ peer \in Range(in)
    <3>1. 1..ImportantRange(in) \subseteq 1..Len(in)
      BY ImportantRangeBound DEF NodeLists
    <3>2. PICK i \in 1..ImportantRange(in) : peer = in[i]
      BY DEF ImportantChoices
    <3> QED
      BY <3>1, <3>2 DEF NodeLists, Range
  <2> QED
    BY <2>3, <2>4, ImportantPacket
<1> QED
  BY <1>1, <1>2

(* PayloadsFit depends on what was sent, the place and the clock only.     *)
LEMMA PayloadsFitStep ==
  TypeOK /\ Headroom /\ DistinctPeers /\ PayloadsFit /\ [Next]_vars => PayloadsFit'
<1> SUFFICES ASSUME TypeOK, Headroom, DistinctPeers, PayloadsFit, [Next]_vars
             PROVE  PayloadsFit'
  OBVIOUS
<1>0. /\ randomNodes \in NodeLists /\ UniqueIDs(randomNodes)
      /\ Self \notin IDs(Range(randomNodes)) /\ Len(randomNodes) <= N
      /\ importantNodes \in NodeLists /\ UniqueIDs(importantNodes)
      /\ Self \notin IDs(Range(importantNodes))
  BY DEF TypeOK, Headroom, DistinctPeers
<1>1. CASE sent' = {}
  BY <1>1 DEF PayloadsFit
<1>2. CASE Receive
  <2>1. OwnNode' = OwnNode
    BY <1>2 DEF Receive, OwnNode
  <2>2. PICK m \in Messages : \/ ReceiveRandom(m)
                             \/ ReceiveRandomRequest(m)
                             \/ ReceiveImportant(m)
                             \/ ReceiveImportantRequest(m)
    BY <1>2 DEF Receive
  <2>3. CASE ReceiveRandom(m) \/ ReceiveImportant(m)
    BY <1>1, <2>3 DEF ReceiveRandom, ReceiveImportant
  <2>4. CASE ReceiveRandomRequest(m)
    <3>1. sent' = {Packet("RND_NOREQ", m.nodes[1].addr,
                          RandomPayload(randomNodes, OwnNode))}
      BY <2>4 DEF ReceiveRandomRequest
    <3> QED
      BY <1>0, <2>1, <3>1, RandomPacket DEF PayloadsFit
  <2>5. CASE ReceiveImportantRequest(m)
    <3>1. PICK payload \in ImportantPayloads(importantNodes, OwnNode, m.nodes[1]) :
            sent' = {Packet("IMP_NOREQ", m.nodes[1].addr, payload)}
      BY <2>5 DEF ReceiveImportantRequest
    <3>2. m.nodes[1] \in Node
      BY MessageType
    <3> QED
      BY <1>0, <2>1, <3>1, <3>2, ImportantPacket DEF PayloadsFit
  <2> QED
    BY <2>2, <2>3, <2>4, <2>5
<1>3. CASE Cleanup
  <2>1. OwnNode' = OwnNode
    BY <1>3 DEF Cleanup, OwnNode
  <2>2. /\ randomNodes' \in NodeLists /\ UniqueIDs(randomNodes')
        /\ Range(randomNodes') \subseteq Range(randomNodes)
        /\ Len(randomNodes') <= Len(randomNodes)
        /\ importantNodes' \in NodeLists /\ UniqueIDs(importantNodes')
        /\ Range(importantNodes') \subseteq Range(importantNodes)
    BY <1>0, <1>3, CleanupProperties
  <2>3. /\ Self \notin IDs(Range(randomNodes')) /\ Len(randomNodes') <= N
        /\ Self \notin IDs(Range(importantNodes'))
    BY <1>0, <2>2, SizesAssumption DEF IDs, NodeLists
  <2>4. PICK rq \in RandomRequests(randomNodes'), iq \in ImportantRequests(importantNodes') :
          sent' = rq \cup iq
    BY <1>3 DEF Cleanup
  <2>5. \A p \in rq \cup iq :
          /\ p.nodes[1] = OwnNode /\ UniqueIDs(p.nodes)
          /\ \/ p.type = "RND_REQ" /\ Len(p.nodes) <= N
             \/ p.type = "IMP_REQ" /\ Len(p.nodes) <= K + 1
    BY <2>2, <2>3, RequestProperties
  <2> QED
    BY <2>1, <2>4, <2>5 DEF PayloadsFit
<1>4. CASE UNCHANGED vars
  BY <1>4 DEF vars, PayloadsFit, OwnNode
<1>5. ASSUME Tick \/ Idle \/ LocalRequest \/ NoCleanup \/ Exit PROVE sent' = {}
  BY <1>5 DEF Tick, Idle, LocalRequest, NoCleanup, Exit, Quiet
<1> QED
  BY <1>1, <1>2, <1>3, <1>4, <1>5 DEF Next

(* Every packet fits its receiver: at most N random nodes, or the own node *)
(* and K important ones, the own node first and no node twice.             *)
THEOREM PayloadsFitHolds == Spec => []PayloadsFit
<1>1. Init => PayloadsFit
  BY DEF Init, PayloadsFit
<1> QED
  BY <1>1, PayloadsFitStep, TypeCorrect, HeadroomHolds, DistinctPeersHolds, PTL DEF Spec

(* RequestsFresh needs no more than the invariants of the lists.           *)
LEMMA RequestsFreshStep ==
  TypeOK /\ Headroom /\ DistinctPeers /\ RequestsFresh /\ [Next]_vars => RequestsFresh'
<1> SUFFICES ASSUME TypeOK, Headroom, DistinctPeers, RequestsFresh, [Next]_vars
             PROVE  RequestsFresh'
  OBVIOUS
<1>0. /\ randomNodes \in NodeLists /\ UniqueIDs(randomNodes)
      /\ Self \notin IDs(Range(randomNodes)) /\ Len(randomNodes) <= N
      /\ importantNodes \in NodeLists /\ UniqueIDs(importantNodes)
      /\ Self \notin IDs(Range(importantNodes))
  BY DEF TypeOK, Headroom, DistinctPeers
<1>1. CASE \A p \in sent' : p.type \notin RequestTypes
  BY <1>1 DEF RequestsFresh
<1>2. CASE Receive
  <2>1. PICK m \in Messages : \/ ReceiveRandom(m)
                             \/ ReceiveRandomRequest(m)
                             \/ ReceiveImportant(m)
                             \/ ReceiveImportantRequest(m)
    BY <1>2 DEF Receive
  <2>2. \A p \in sent' : p.type \in {"RND_NOREQ", "IMP_NOREQ"}
    BY <2>1 DEF ReceiveRandom, ReceiveRandomRequest, ReceiveImportant,
                ReceiveImportantRequest, Packet
  <2> QED
    BY <1>1, <2>2 DEF RequestTypes
<1>3. CASE Cleanup
  <2>1. /\ randomNodes' \in NodeLists /\ UniqueIDs(randomNodes')
        /\ Range(randomNodes') \subseteq Range(randomNodes)
        /\ Len(randomNodes') <= Len(randomNodes)
        /\ importantNodes' \in NodeLists /\ UniqueIDs(importantNodes')
        /\ Range(importantNodes') \subseteq Range(importantNodes)
    BY <1>0, <1>3, CleanupProperties
  <2>2. /\ Self \notin IDs(Range(randomNodes')) /\ Len(randomNodes') <= N
        /\ Self \notin IDs(Range(importantNodes'))
    BY <1>0, <2>1, SizesAssumption DEF IDs, NodeLists
  <2>3. PICK rq \in RandomRequests(randomNodes'), iq \in ImportantRequests(importantNodes') :
          sent' = rq \cup iq
    BY <1>3 DEF Cleanup
  <2>4. \A r \in Range(randomNodes') \cup Range(importantNodes') :
          r.timeStamp > now' - NodeMaxAge
    <3>1. /\ randomNodes' \in SortedBy(Unexpired(randomNodes, now, NodeMaxAge), "nodeID")
          /\ importantNodes' \in SortedBy(Unexpired(importantNodes, now, NodeMaxAge), "utility")
          /\ now' = now
      BY <1>3 DEF Cleanup
    <3>2. /\ Range(randomNodes') \subseteq Unexpired(randomNodes, now, NodeMaxAge)
          /\ Range(importantNodes') \subseteq Unexpired(importantNodes, now, NodeMaxAge)
      BY <1>0, <3>1, UnexpiredProperties, SortedByProperties
    <3> QED
      BY <3>1, <3>2 DEF Unexpired
  <2>5. \A p \in rq \cup iq :
          /\ \A r \in Range(p.nodes) :
               \/ r.nodeID = Self
               \/ \E q \in Range(randomNodes') \cup Range(importantNodes') :
                    r.timeStamp = q.timeStamp
          /\ \/ p.to = Origin
             \/ \E q \in Range(randomNodes') \cup Range(importantNodes') : q.addr = p.to
    BY <2>1, <2>2, RequestProperties
  <2> QED
    BY <2>3, <2>4, <2>5 DEF RequestsFresh, Fresh
<1>4. CASE UNCHANGED vars
  <2>1. /\ sent' = sent /\ now' = now /\ randomNodes' = randomNodes
        /\ importantNodes' = importantNodes
    BY <1>4 DEF vars, lists
  <2> QED
    BY <2>1 DEF RequestsFresh, Fresh
<1>5. ASSUME Tick \/ Idle \/ LocalRequest \/ NoCleanup \/ Exit PROVE sent' = {}
  BY <1>5 DEF Tick, Idle, LocalRequest, NoCleanup, Exit, Quiet
<1> QED
  BY <1>1, <1>2, <1>3, <1>4, <1>5 DEF Next

(* The periodic requests carry no expired record and go only to the origin *)
(* or to peers whose record has not expired.                               *)
THEOREM RequestsFreshHolds == Spec => []RequestsFresh
<1>1. Init => RequestsFresh
  BY DEF Init, RequestsFresh
<1> QED
  BY <1>1, RequestsFreshStep, TypeCorrect, HeadroomHolds, DistinctPeersHolds, PTL DEF Spec

(* A publication is that of the last cleanup, which expired the important  *)
(* nodes just before; the own node is not among them.                      *)
LEMMA PublicationSoundStep ==
  TypeOK /\ DistinctPeers /\ PublicationSound /\ [Next]_vars => PublicationSound'
<1> SUFFICES ASSUME TypeOK, DistinctPeers, PublicationSound, [Next]_vars
             PROVE  PublicationSound'
  OBVIOUS
<1>1. CASE published' = NoPublication
  BY <1>1 DEF PublicationSound, NoPublication
<1>2. CASE Cleanup
  <2>1. /\ published' = Publication(importantNodes') /\ subs' = subs /\ now' = now
        /\ importantNodes' \in SortedBy(Unexpired(importantNodes, now, NodeMaxAge), "utility")
    BY <1>2 DEF Cleanup
  <2>2. OwnNode' = OwnNode
    BY <1>2 DEF Cleanup, OwnNode
  <2>3. Range(importantNodes') \subseteq Unexpired(importantNodes, now, NodeMaxAge)
    BY <2>1, UnexpiredProperties, SortedByProperties DEF TypeOK
  <2>4. /\ \A r \in Range(importantNodes') : r.timeStamp > now - NodeMaxAge
        /\ \A r \in Range(importantNodes') : r.nodeID # Self
    BY <2>3 DEF Unexpired, DistinctPeers, IDs
  <2>5. OwnNode.nodeID = Self
    BY DEF OwnNode, NewNode
  <2>6. CandidateNodes(importantNodes') = {r \in Range(importantNodes') : r.utility >= Unit}
    BY DEF CandidateNodes, IsCandidate
  <2>7. CASE subs = {}
    BY <1>1, <2>1, <2>7 DEF Publication
  <2>8. CASE subs # {}
    <3>1. /\ published'.to = subs
          /\ published'.nodes =
               {OwnNode} \cup {r \in CandidateNodes(importantNodes') : r.nodeID # Self}
      BY <2>1, <2>2, <2>8 DEF Publication
    <3>2. published'.nodes \ {OwnNode} =
            {r \in Range(importantNodes') : r.timeStamp > now - NodeMaxAge /\ r.utility >= Unit}
      BY <2>4, <2>5, <2>6, <3>1
    <3> QED
      BY <2>1, <2>2, <3>1, <3>2 DEF PublicationSound, Fresh
  <2> QED
    BY <2>7, <2>8
<1>3. CASE UNCHANGED vars
  <2>1. /\ published' = published /\ now' = now /\ subs' = subs
        /\ importantNodes' = importantNodes /\ OwnNode' = OwnNode
    BY <1>3 DEF vars, lists, OwnNode
  <2> QED
    BY <2>1 DEF PublicationSound, Fresh
<1>4. ASSUME Tick \/ Idle \/ Receive \/ LocalRequest \/ NoCleanup \/ Exit
      PROVE  published' = NoPublication
  BY <1>4 DEF Tick, Idle, Receive, LocalRequest, NoCleanup, Exit, Quiet
<1> QED
  BY <1>1, <1>2, <1>3, <1>4 DEF Next

(* Subscribers are told of the client itself and of exactly the candidates *)
(* among the important nodes whose record has not expired.                 *)
THEOREM PublicationSoundHolds == Spec => []PublicationSound
<1>1. Init => PublicationSound
  BY DEF Init, PublicationSound, NoPublication
<1> QED
  BY <1>1, PublicationSoundStep, TypeCorrect, DistinctPeersHolds, PTL DEF Spec

-----------------------------------------------------------------------------
(* What a merge may not lose                                               *)

(* Peers that keep no more random nodes than this client send no more than *)
(* fit the places it keeps free (PayloadsFit shows it of the sender).      *)
MessagesFit ==
  \A m \in Messages : m.type \in {"RND_REQ", "RND_NOREQ"} => Len(m.nodes) <= N

(* Only a received message is handled, and merged as its type says.        *)
LEMMA HandledMessage ==
  ASSUME Next, received'.type # "NONE"
  PROVE  /\ received' \in Messages
         /\ HandlesRandom => MergeRandom(received'.nodes)
         /\ ~HandlesRandom => MergeImportant(received'.nodes)
<1>1. Receive
  BY DEF Next, Tick, Idle, LocalRequest, NoCleanup, Cleanup, Exit, Quiet, NoMessage
<1> QED
  BY <1>1 DEF Receive, ReceiveRandom, ReceiveRandomRequest, ReceiveImportant,
              ReceiveImportantRequest, HandlesRandom, Handles

(* A node that is forgotten was cut off by the trim after the sort by time *)
(* stamp, which cuts only when N records are left.                         *)
LEMMA NewestKeptStep ==
  ASSUME MessagesFit, TypeOK, Headroom, Next
  PROVE  KeepsNewest
<1> SUFFICES ASSUME HandlesRandom PROVE KeepsNewest
  BY DEF KeepsNewest
<1> DEFINE nc == received'.nodes
           known == {r \in Range(randomNodes) \cup Range(nc) : r.nodeID # Self}
<1>1. /\ nc \in NodeLists /\ Len(nc) <= N /\ MergeRandom(nc)
      /\ randomNodes \in NodeLists /\ Len(randomNodes) <= N
      /\ OwnNode \in Node
  BY HandledMessage, MessageType, OwnNodeType
     DEF HandlesRandom, Handles, MessagesFit, TypeOK, Headroom
<1>2. PICK rn \in UpdatedRandomNodes(nc, randomNodes, Self) :
        randomNodes' = CalculateUtility(rn, OwnNode)
  BY <1>1 DEF MergeRandom
<1>3. rn \in NodeLists
  BY <1>1, UpdatedRandomProperties
<1>4. /\ Len(randomNodes') = Len(rn) /\ IDs(Range(randomNodes')) = IDs(Range(rn))
      /\ \A r \in Range(randomNodes') : \E q \in Range(rn) : r.timeStamp = q.timeStamp
  BY <1>1, <1>2, <1>3, CalculateUtilityType, CalculateUtilityKeeps
<1> HIDE DEF nc
<1>5. ASSUME NEW id \in IDs(known) \ IDs(Range(randomNodes'))
      PROVE  /\ Len(randomNodes') = N
             /\ \E d \in known : d.nodeID = id /\
                  \A r \in Range(randomNodes') : r.timeStamp >= d.timeStamp
  <2>1. PICK d \in known : d.nodeID = id
    BY <1>5 DEF IDs
  <2>2. d \in Range(randomNodes) \cup Range(nc) /\ d.nodeID # Self
        /\ d.nodeID \notin IDs(Range(rn))
    BY <1>4, <1>5, <2>1
  <2>3. /\ Len(rn) = N
        /\ \E e \in Range(randomNodes) \cup Range(nc) :
             /\ e.nodeID = d.nodeID
             /\ \A r \in Range(rn) : r.timeStamp >= e.timeStamp
    BY <1>1, <2>2, UpdatedRandomForgets
  <2> QED
    BY <1>4, <2>1, <2>2, <2>3
<1> QED
  BY <1>5 DEF KeepsNewest, nc

(* A merge of random nodes forgets a node only for N others, none of which *)
(* is older than the record it forgets, as long as the peers send no more  *)
(* random nodes than they have to.                                         *)
THEOREM NewestKeptHolds ==
  ASSUME MessagesFit
  PROVE  Spec => NewestKept
<1>1. TypeOK /\ Headroom /\ [Next]_vars => [KeepsNewest]_vars
  BY NewestKeptStep
<1> QED
  BY <1>1, TypeCorrect, HeadroomHolds, PTL DEF Spec, NewestKept

(* A merge updates the important nodes from a list that it has scored.     *)
LEMMA MergedUpdate ==
  ASSUME TypeOK, Headroom, Next, Handles(PayloadTypes)
  PROVE  \E nc \in NodeLists :
           /\ Merged = CalculateUtility(nc, OwnNode)
           /\ HandlesRandom => Len(nc) <= N
           /\ \E in \in UpdatedImportantNodes(nc, importantNodes, maxImportant, OwnNode) :
                importantNodes' = in.nodes /\ maxImportant' = in.max
<1> DEFINE m == received'.nodes
<1>1. /\ m \in NodeLists
      /\ HandlesRandom => MergeRandom(m)
      /\ ~HandlesRandom => MergeImportant(m)
  <2>1. received'.type # "NONE"
    BY DEF Handles, PayloadTypes, RequestTypes
  <2> QED
    BY <2>1, HandledMessage, MessageType
<1>2. CASE HandlesRandom
  <2>1. PICK rn \in UpdatedRandomNodes(m, randomNodes, Self) :
          /\ randomNodes' = CalculateUtility(rn, OwnNode)
          /\ \E in \in UpdatedImportantNodes(rn, importantNodes, maxImportant, OwnNode) :
               importantNodes' = in.nodes /\ maxImportant' = in.max
    BY <1>1, <1>2 DEF MergeRandom
  <2>2. rn \in NodeLists /\ Len(rn) <= N
    BY <1>1, UpdatedRandomProperties DEF TypeOK
  <2> QED
    BY <1>2, <2>1, <2>2 DEF Merged
<1>3. CASE ~HandlesRandom
  <2>1. \E in \in UpdatedImportantNodes(m, importantNodes, maxImportant, OwnNode) :
          importantNodes' = in.nodes /\ maxImportant' = in.max
    BY <1>1, <1>3 DEF MergeImportant
  <2> QED
    BY <1>1, <1>3, <2>1 DEF Merged
<1> QED
  BY <1>2, <1>3

(* What a merge starts from.                                               *)
LEMMA ImportantFit ==
  ASSUME TypeOK, Headroom
  PROVE  /\ importantNodes \in NodeLists
         /\ maxImportant \in Nat /\ maxImportant >= K
         /\ Len(importantNodes) <= maxImportant /\ Len(importantNodes) <= maxImportant - K
         /\ OwnNode \in Node /\ OwnNode.nodeID = Self
<1>1. /\ maxImportant \in Nat /\ maxImportant >= M + K
      /\ Len(importantNodes) \in Nat /\ Len(importantNodes) <= maxImportant - K
  BY DEF TypeOK, Headroom, NodeLists
<1> QED
  BY <1>1, OwnNodeType, SizesAssumption DEF TypeOK, OwnNode, NewNode

(* An important node is always appended, so only a full list forgets it.   *)
LEMMA MostUsefulKeptStep ==
  ASSUME TypeOK, Headroom, Next
  PROVE  KeepsMostUseful
<1> SUFFICES ASSUME Handles(PayloadTypes),
                    NEW id \in IDs(Range(importantNodes)) \ IDs(Range(importantNodes'))
             PROVE  Outranked(id)
  BY DEF KeepsMostUseful
<1>1. PICK nc \in NodeLists :
        /\ Merged = CalculateUtility(nc, OwnNode)
        /\ \E in \in UpdatedImportantNodes(nc, importantNodes, maxImportant, OwnNode) :
             importantNodes' = in.nodes /\ maxImportant' = in.max
  BY MergedUpdate
<1>2. PICK in \in UpdatedImportantNodes(nc, importantNodes, maxImportant, OwnNode) :
        importantNodes' = in.nodes /\ maxImportant' = in.max
  BY <1>1
<1>3. CalculateUtility(nc, OwnNode) \in NodeLists
  BY ImportantFit, CalculateUtilityType
<1>4. id \in IDs(Appended(importantNodes, CalculateUtility(nc, OwnNode), maxImportant,
                         OwnNode.nodeID))
  BY <1>3, ImportantFit, AppendedProperties DEF IDs
<1>5. \E d \in Range(importantNodes) \cup Range(CalculateUtility(nc, OwnNode)) :
        d.nodeID = id /\ NoRoomFor(d, in)
  BY <1>2, <1>4, ImportantFit, UpdatedImportantForgets
<1> QED
  BY <1>1, <1>2, <1>5 DEF Outranked, NoRoomFor

(* However many nodes Protocol_updateImportantNodes merges, it evicts an   *)
(* important node only from a list that is full of nodes at least as       *)
(* useful, and a candidate only when the list has reached the hard limit.  *)
THEOREM MostUsefulKeptHolds == Spec => MostUsefulKept
<1>1. TypeOK /\ Headroom /\ [Next]_vars => [KeepsMostUseful]_vars
  BY MostUsefulKeptStep
<1> QED
  BY <1>1, TypeCorrect, HeadroomHolds, PTL DEF Spec, MostUsefulKept

(* All the random nodes fit the places the important nodes keep free.      *)
LEMMA RandomPromotedStep ==
  ASSUME N <= K, TypeOK, Headroom, DistinctPeers', Next
  PROVE  PromotesRandom
<1> SUFFICES ASSUME HandlesRandom,
                    NEW id \in IDs(Range(randomNodes')) \ IDs(Range(importantNodes'))
             PROVE  Outranked(id)
  BY DEF PromotesRandom
<1>1. Handles(PayloadTypes)
  BY DEF HandlesRandom, Handles, PayloadTypes, RequestTypes
<1>2. PICK nc \in NodeLists :
        /\ Merged = CalculateUtility(nc, OwnNode) /\ Len(nc) <= N
        /\ \E in \in UpdatedImportantNodes(nc, importantNodes, maxImportant, OwnNode) :
             importantNodes' = in.nodes /\ maxImportant' = in.max
  BY <1>1, MergedUpdate
<1>3. PICK in \in UpdatedImportantNodes(nc, importantNodes, maxImportant, OwnNode) :
        importantNodes' = in.nodes /\ maxImportant' = in.max
  BY <1>2
<1>4. randomNodes' = CalculateUtility(nc, OwnNode)
  BY <1>2 DEF Merged
<1>5. id \in IDs(Range(nc)) \ {OwnNode.nodeID}
  <2>1. id \in IDs(Range(nc))
    BY <1>4, ImportantFit, CalculateUtilityKeeps
  <2>2. id # Self
    BY DEF DistinctPeers
  <2> QED
    BY <2>1, <2>2, ImportantFit
<1>6. Len(nc) <= K
  BY <1>2, SizesAssumption DEF NodeLists
<1>7. id \in IDs(Appended(importantNodes, CalculateUtility(nc, OwnNode), maxImportant,
                         OwnNode.nodeID))
  BY <1>5, <1>6, ImportantFit, AppendedAll
<1>8. \E d \in Range(importantNodes) \cup Range(CalculateUtility(nc, OwnNode)) :
        d.nodeID = id /\ NoRoomFor(d, in)
  BY <1>3, <1>7, ImportantFit, UpdatedImportantForgets
<1> QED
  BY <1>2, <1>3, <1>8 DEF Outranked, NoRoomFor

(* With N <= K every random node is an important node after a merge of     *)
(* random nodes, unless the list is full of nodes at least as useful as a  *)
(* record of it; and so is every random node that is a candidate, unless   *)
(* the list has reached the hard limit or that record is none.             *)
THEOREM RandomPromotedHolds ==
  ASSUME N <= K
  PROVE  Spec => RandomPromoted
<1>1. TypeOK /\ Headroom /\ DistinctPeers' /\ [Next]_vars => [PromotesRandom]_vars
  BY RandomPromotedStep
<1> QED
  BY <1>1, TypeCorrect, HeadroomHolds, DistinctPeersHolds, PTL DEF Spec, RandomPromoted

(* The answer is chosen by the utilities for the one who asks.             *)
LEMMA RepliesUsefulStep ==
  ASSUME TypeOK, Next
  PROVE  AnswersMostUseful
<1> SUFFICES ASSUME Handles({"IMP_REQ"}) PROVE AnswersMostUseful
  BY DEF AnswersMostUseful
<1> DEFINE peer == received'.nodes[1]
<1>1. received' \in Messages /\ ReceiveImportantRequest(received')
  <2>1. Receive
    BY DEF Handles, Next, Tick, Idle, LocalRequest, NoCleanup, Cleanup, Exit, Quiet,
           NoMessage
  <2> QED
    BY <2>1 DEF Receive, ReceiveRandom, ReceiveRandomRequest, ReceiveImportant, Handles
<1>2. /\ peer \in Node /\ importantNodes \in NodeLists
      /\ OwnNode \in Node /\ OwnNode.nodeID = Self
  BY <1>1, MessageType, OwnNodeType DEF TypeOK, OwnNode, NewNode
<1>3. PICK nc \in ImportantPayloads(importantNodes, OwnNode, peer) :
        sent' = {Packet("IMP_NOREQ", peer.addr, nc)}
  BY <1>1 DEF ReceiveImportantRequest
<1> HIDE DEF peer
<1>4. nc \in NodeLists /\ nc[1] = OwnNode
  BY <1>2, <1>3, ImportantPayloadType
<1>5. ASSUME NEW p \in sent', NEW r \in Range(importantNodes), NEW s \in Range(p.nodes)
      PROVE  \/ r.nodeID \in IDs(Range(p.nodes)) \/ s.nodeID = Self
             \/ NodeUtility(peer, r) <= NodeUtility(peer, s)
  <2>1. p.nodes = OnTheWire(nc)
    BY <1>3 DEF Packet
  <2>2. /\ DOMAIN nc = 1..Len(nc) /\ DOMAIN p.nodes = 1..Len(nc)
        /\ \A i \in 1..Len(nc) :
             nc[i] \in Node /\ p.nodes[i] = [nc[i] EXCEPT !.utility = 0]
    BY <1>4, <2>1 DEF OnTheWire, NodeLists
  <2>3. PICK i \in 1..Len(nc) : s = [nc[i] EXCEPT !.utility = 0]
    BY <2>2 DEF Range
  <2>4. s.nodeID = nc[i].nodeID /\ NodeUtility(peer, s) = NodeUtility(peer, nc[i])
    <3>1. /\ s.nodeID = nc[i].nodeID /\ s.pos = nc[i].pos
          /\ s.coordRange = nc[i].coordRange
      BY <2>2, <2>3 DEF Node
    <3> QED
      BY <3>1, UtilityOfPlace
  <2>5. IDs(Range(p.nodes)) = IDs(Range(nc))
    <3>1. \A j \in 1..Len(nc) : p.nodes[j].nodeID = nc[j].nodeID
      BY <2>2 DEF Node
    <3> QED
      BY <2>2, <3>1 DEF IDs, Range
  <2> QED
    BY <1>2, <1>3, <1>4, <2>4, <2>5, ImportantPayloadUseful
<1> QED
  BY <1>5 DEF AnswersMostUseful, peer

(* The answer to a request for important nodes carries those of the list   *)
(* that are the most useful to the one who asks.                           *)
THEOREM RepliesUsefulHolds == Spec => RepliesUseful
<1>1. TypeOK /\ [Next]_vars => [AnswersMostUseful]_vars
  BY RepliesUsefulStep
<1> QED
  BY <1>1, TypeCorrect, PTL DEF Spec, RepliesUseful

-----------------------------------------------------------------------------
(* The lists are a peer table                                              *)

(* The cardinality that comes with the instance is the usual one.         *)
LEMMA TableCardinality ==
  ASSUME NEW S
  PROVE  Table!Cardinality(S) = Cardinality(S)
BY DEF Table!Cardinality, Cardinality

(* A merge of a message about random nodes is an exchange of random peers. *)
LEMMA MergeRandomMeets ==
  ASSUME TypeOK, Headroom, DistinctPeers, NEW nc \in NodeLists, Len(nc) <= N,
         MergeRandom(nc)
  PROVE  Table!MeetRandom(IDs(Range(nc)))
<1> DEFINE random == IDs(Range(randomNodes))
           known  == random \cup (IDs(Range(nc)) \ {Self})
<1>1. /\ randomNodes' \in NodeLists /\ UniqueIDs(randomNodes')
      /\ Len(randomNodes') <= N
      /\ random' \subseteq known
      /\ IDs(Range(importantNodes')) \subseteq IDs(Range(importantNodes)) \cup random'
  BY MergeRandomProperties
<1>2. Cardinality(random') = Len(randomNodes')
  BY <1>1, IDsCardinality
<1>3. PICK rn \in UpdatedRandomNodes(nc, randomNodes, Self) :
        randomNodes' = CalculateUtility(rn, OwnNode)
  BY DEF MergeRandom
<1>4. randomNodes \in NodeLists /\ Len(randomNodes) <= N /\ Self \notin random
  BY DEF TypeOK, Headroom, DistinctPeers
<1>5. rn \in NodeLists
  BY <1>4, UpdatedRandomProperties
<1>6. Len(randomNodes') = Len(rn) /\ random' = IDs(Range(rn))
  BY <1>3, <1>5, OwnNodeType, CalculateUtilityType, CalculateUtilityKeeps
<1>7. ASSUME NEW id \in known, id \notin random' PROVE Len(randomNodes') = N
  <2>1. PICK d \in Range(randomNodes) \cup Range(nc) : d.nodeID = id
    BY DEF IDs
  <2>2. d.nodeID # Self /\ d.nodeID \notin IDs(Range(rn))
    BY <1>4, <1>6, <1>7, <2>1
  <2>3. Len(rn) = N
    BY <1>4, <2>2, UpdatedRandomForgets
  <2> QED
    BY <1>6, <2>3
<1> HIDE DEF known
<1>8. random' = known \/ Cardinality(random') = N
  BY <1>1, <1>2, <1>7
<1> QED
  BY <1>1, <1>2, <1>8, TableCardinality DEF Table!MeetRandom, known

(* Every step is a step of the table or leaves it alone.                   *)
LEMMA KeepsTableStep ==
  ASSUME MessagesFit, TypeOK, Headroom, DistinctPeers, [Next]_vars
  PROVE  [Table!Next]_(Table!vars)
<1>1. CASE UNCHANGED lists
  BY <1>1 DEF lists, Table!vars
<1>2. CASE Receive
  <2>1. PICK m \in Messages : ReceiveRandom(m) \/ ReceiveRandomRequest(m)
                                \/ ReceiveImportant(m) \/ ReceiveImportantRequest(m)
    BY <1>2 DEF Receive
  <2>2. m.nodes \in NodeLists /\ IDs(Range(m.nodes)) \in Named
    BY MessageType DEF Named
  <2>3. CASE ReceiveRandom(m) \/ ReceiveRandomRequest(m)
    <3>1. Len(m.nodes) <= N /\ MergeRandom(m.nodes)
      BY <2>3 DEF MessagesFit, ReceiveRandom, ReceiveRandomRequest
    <3>2. Table!MeetRandom(IDs(Range(m.nodes)))
      BY <2>2, <3>1, MergeRandomMeets
    <3> QED
      BY <2>2, <3>2 DEF Table!Next
  <2>4. CASE ReceiveImportant(m) \/ ReceiveImportantRequest(m)
    <3>1. MergeImportant(m.nodes)
      BY <2>4 DEF ReceiveImportant, ReceiveImportantRequest
    <3>2. Table!MeetImportant(IDs(Range(m.nodes)))
      BY <2>2, <3>1, MergeImportantProperties DEF Table!MeetImportant
    <3> QED
      BY <2>2, <3>2 DEF Table!Next
  <2> QED
    BY <2>1, <2>3, <2>4
<1>3. CASE Cleanup
  <2>1. /\ Range(randomNodes') \subseteq Range(randomNodes)
        /\ Range(importantNodes') \subseteq Range(importantNodes)
    BY <1>3, CleanupProperties
  <2>2. Table!Forget
    BY <2>1 DEF Table!Forget, IDs
  <2> QED
    BY <2>2 DEF Table!Next
<1>4. CASE Exit
  <2>1. IDs(Range(randomNodes')) = {} /\ IDs(Range(importantNodes')) = {}
    BY <1>4 DEF Exit, IDs, Range
  <2>2. Table!Forget
    BY <2>1 DEF Table!Forget
  <2> QED
    BY <2>2 DEF Table!Next
<1>5. ASSUME Tick \/ Idle \/ LocalRequest \/ NoCleanup \/ UNCHANGED vars
      PROVE  UNCHANGED lists
  BY <1>5 DEF Tick, Idle, LocalRequest, NoCleanup, vars, lists
<1> QED
  BY <1>1, <1>2, <1>3, <1>4, <1>5 DEF Next

(* The lists of a process, as sets of identifiers, implement the table.    *)
THEOREM KeepsTableHolds ==
  ASSUME MessagesFit
  PROVE  Spec => KeepsTable
<1>1. Init => Table!Init
  BY DEF Init, Table!Init, IDs, Range
<1>2. TypeOK /\ Headroom /\ DistinctPeers /\ [Next]_vars => [Table!Next]_(Table!vars)
  BY KeepsTableStep
<1> QED
  BY <1>1, <1>2, TypeCorrect, HeadroomHolds, DistinctPeersHolds, PTL
     DEF Spec, KeepsTable, Table!Spec
=============================================================================
