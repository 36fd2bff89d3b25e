------------------------------- MODULE Client -------------------------------
(***************************************************************************)
(* One p2pdprd process: the main loop of src/p2p-dprd.c around the         *)
(* protocol routines of src/protocol.c.  An iteration of the loop handles  *)
(* at most one event (phase "select") and then runs the periodic cleanup   *)
(* if it is due (phase "check").  The process is single-threaded; the      *)
(* clock moves only while select waits.                                    *)
(*                                                                         *)
(* The peers, the network and the local users are the environment: any     *)
(* message of Messages may arrive at any time, any number of times and in  *)
(* any order, and any local request may be made.                           *)
(***************************************************************************)
EXTENDS Protocol

CONSTANTS
  Self,          \* CLIENT_id
  OwnAddr,       \* NETWORK_ownIP, NETWORK_port
  Origin,        \* NETWORK_originPeerIP, NETWORK_originPeerPort
  NodeMaxAge,    \* PROTO_nodeMaxAge
  ProtoTimeout,  \* PROTO_timeout
  Messages,      \* the decodable messages that may arrive
  Places,        \* the positions and ranges local requests may set
  Subscribers,   \* the socket addresses local requests may name
  MaxSubs,       \* MAX_NUM_SUBSCRIBERS
  MaxTime        \* bound: the clock stops there

RequestTypes == {"RND_REQ", "IMP_REQ"}
PayloadTypes == RequestTypes \cup {"RND_NOREQ", "IMP_NOREQ"}

Place == [pos : Int, coordRange : Nat]

ASSUME SelfAssumption == /\ Self \in Nat \ {0}
                         /\ OwnAddr \in Nat
                         /\ Origin \in Nat
ASSUME TimesAssumption == /\ NodeMaxAge \in Nat
                          /\ ProtoTimeout \in Nat
                          /\ MaxTime \in Nat
ASSUME MessagesAssumption ==
  /\ Messages \subseteq [type : PayloadTypes, nodes : NodeLists \ {<<>>}]
  /\ \A m \in Messages : 0 \notin IDs(Range(m.nodes))
ASSUME RequestsAssumption == /\ Places # {} /\ Places \subseteq Place
                             /\ MaxSubs \in Nat

VARIABLES
  randomNodes,     \* the random nodes
  importantNodes,  \* the important nodes
  maxImportant,    \* importantNodes->maxNodeCount
  place,           \* CLIENT_lat, CLIENT_lon, CLIENT_coordRange
  subs,            \* the addresses in the subscriber list
  now,             \* time(NULL)
  lastCleanup,     \* last_cleanup_timestamp
  phase,           \* where the main loop is
  received,        \* the message the last step handled
  sent,            \* the packets the last step sent to peers
  published        \* what the last step sent to subscribers

lists == <<randomNodes, importantNodes, maxImportant>>
vars  == <<lists, place, subs, now, lastCleanup, phase, received, sent, published>>

NoMessage     == [type |-> "NONE", nodes |-> <<>>]
NoPublication == [to |-> {}, nodes |-> {}]

(* The step exchanges nothing with peers or subscribers.                   *)
Quiet == /\ received' = NoMessage
         /\ sent' = {}
         /\ published' = NoPublication

OwnNode == NewNode(Self, OwnAddr, place.pos, place.coordRange, now)

-----------------------------------------------------------------------------
Init ==
  /\ randomNodes = <<>>
  /\ importantNodes = <<>>
  /\ maxImportant = M + K
  /\ place \in Places
  /\ subs = {}
  /\ now = 0
  /\ lastCleanup = now
  /\ phase = "select"
  /\ received = NoMessage
  /\ sent = {}
  /\ published = NoPublication

(* A second passes while select waits.                                     *)
Tick ==
  /\ phase = "select"
  /\ now < MaxTime
  /\ now' = now + 1
  /\ Quiet
  /\ UNCHANGED <<lists, place, subs, lastCleanup, phase>>

(* select returns and nothing is done: its timeout, an error, a payload of *)
(* another type, a local request that cannot be decoded.                   *)
Idle ==
  /\ phase = "select"
  /\ phase' = "check"
  /\ Quiet
  /\ UNCHANGED <<lists, place, subs, now, lastCleanup>>

-----------------------------------------------------------------------------
(* Protocol_receiveFromPeer, one action per payload type.  A request is    *)
(* answered to the address in the first record of the message, from the    *)
(* lists as they are before the message is merged.                         *)

(* Protocol_updateRandomNodes(nc, randomNodes), then                       *)
(* Protocol_updateImportantNodes(randomNodes, importantNodes), which also  *)
(* leaves in the random nodes the utilities it computes.                   *)
MergeRandom(nc) ==
  \E rn \in UpdatedRandomNodes(nc, randomNodes, Self) :
    \E in \in UpdatedImportantNodes(rn, importantNodes, maxImportant, OwnNode) :
      /\ randomNodes' = CalculateUtility(rn, OwnNode)
      /\ importantNodes' = in.nodes
      /\ maxImportant' = in.max

MergeImportant(nc) ==
  /\ \E in \in UpdatedImportantNodes(nc, importantNodes, maxImportant, OwnNode) :
       /\ importantNodes' = in.nodes
       /\ maxImportant' = in.max
  /\ UNCHANGED randomNodes

ReceiveRandom(m) ==
  /\ m.type = "RND_NOREQ"
  /\ MergeRandom(m.nodes)
  /\ sent' = {}

ReceiveRandomRequest(m) ==
  /\ m.type = "RND_REQ"
  /\ MergeRandom(m.nodes)
  /\ sent' = {Packet("RND_NOREQ", m.nodes[1].addr,
                     RandomPayload(randomNodes, OwnNode))}

ReceiveImportant(m) ==
  /\ m.type = "IMP_NOREQ"
  /\ MergeImportant(m.nodes)
  /\ sent' = {}

ReceiveImportantRequest(m) ==
  /\ m.type = "IMP_REQ"
  /\ MergeImportant(m.nodes)
  /\ \E payload \in ImportantPayloads(importantNodes, OwnNode, m.nodes[1]) :
       sent' = {Packet("IMP_NOREQ", m.nodes[1].addr, payload)}

Receive ==
  /\ phase = "select"
  /\ \E m \in Messages : /\ \/ ReceiveRandom(m)
                            \/ ReceiveRandomRequest(m)
                            \/ ReceiveImportant(m)
                            \/ ReceiveImportantRequest(m)
                         /\ received' = m
  /\ phase' = "check"
  /\ published' = NoPublication
  /\ UNCHANGED <<place, subs, now, lastCleanup>>

-----------------------------------------------------------------------------
(* LocalIO_handleRequest                                                   *)

(* SET_POSITION and SET_COORDINATION_RANGE; LocalRequest_unpack refuses    *)
(* the deprecated SET_POS_AND_RANGE.  The lists keep their utilities.      *)
SetPlace(p) ==
  /\ place' \in {[place EXCEPT !.pos = p.pos],
                 [place EXCEPT !.coordRange = p.coordRange]}
  /\ UNCHANGED subs

(* Mutant: the limit is not checked.                                       *)
SubscribeUnchecked(s) ==
  /\ subs' = subs \cup {s}
  /\ UNCHANGED place

(* SUB_CANDNODES: SubscriberList_addSub refuses when the list is full.     *)
Subscribe(s) ==
  /\ subs' = IF Cardinality(subs) < MaxSubs THEN subs \cup {s} ELSE subs
  /\ UNCHANGED place

(* UNSUB_CANDNODES *)
Unsubscribe(s) ==
  /\ subs' = subs \ {s}
  /\ UNCHANGED place

LocalRequest ==
  /\ phase = "select"
  /\ \/ \E p \in Places : SetPlace(p)
     \/ \E s \in Subscribers : Subscribe(s) \/ Unsubscribe(s)
  /\ phase' = "check"
  /\ Quiet
  /\ UNCHANGED <<lists, now, lastCleanup>>

-----------------------------------------------------------------------------
(* The end of an iteration                                                 *)

CleanupDue == now - lastCleanup > ProtoTimeout

NoCleanup ==
  /\ phase = "check"
  /\ ~CleanupDue
  /\ phase' = "select"
  /\ Quiet
  /\ UNCHANGED <<lists, place, subs, now, lastCleanup>>

(* The requests of Protocol_timeout, from the cleaned lists: the random    *)
(* nodes to one of them, or the own node alone to the origin peer when     *)
(* there is none (Protocol_bootstrap), and the important nodes to one of   *)
(* them, if there is one.                                                  *)
RandomRequests(rn) ==
  IF PeerChoices(rn, Self) = {}
  THEN {{Packet("RND_REQ", Origin, <<OwnNode>>)}}
  ELSE {{Packet("RND_REQ", peer.addr, RandomPayload(rn, OwnNode))} :
          peer \in PeerChoices(rn, Self)}

ImportantRequests(in) ==
  IF ImportantChoices(in, Self) = {}
  THEN {{}}
  ELSE UNION {{{Packet("IMP_REQ", peer.addr, payload)} :
                 payload \in ImportantPayloads(in, OwnNode, peer)} :
                peer \in ImportantChoices(in, Self)}

(* LocalIO_sendCandidateNodes: the own node and the candidates, to all     *)
(* subscribers; the order of the records is left out.                      *)
Publication(in) ==
  IF subs = {} THEN NoPublication
  ELSE [to |-> subs,
        nodes |-> {OwnNode} \cup {r \in CandidateNodes(in) : r.nodeID # Self}]

(* Protocol_timeout, then the publication of the candidates.  Removing the *)
(* expired nodes leaves the random nodes sorted by identifier; the         *)
(* important nodes are sorted by utility again.                            *)
Cleanup ==
  /\ phase = "check"
  /\ CleanupDue
  /\ randomNodes' \in
       SortedBy(Unexpired(randomNodes, now, NodeMaxAge), "nodeID")
  /\ importantNodes' \in
       SortedBy(Unexpired(importantNodes, now, NodeMaxAge), "utility")
  /\ \E rq \in RandomRequests(randomNodes'),
        iq \in ImportantRequests(importantNodes') : sent' = rq \cup iq
  /\ received' = NoMessage
  /\ published' = Publication(importantNodes')
  /\ lastCleanup' = now
  /\ phase' = "select"
  /\ UNCHANGED <<maxImportant, place, subs, now>>

-----------------------------------------------------------------------------
(* The process ends, and its memory with it: on SIGTERM or SIGINT; by      *)
(* exit(0) when sendto fails (IO_sendBytes); by exit(EXIT_FAILURE) when    *)
(* the sockets that the publications leave open have used up the           *)
(* descriptors and the log file cannot be opened (log_event).  What the    *)
(* last handler sent before it failed is left out.                         *)
Exit ==
  /\ phase = "select" \/ (phase = "check" /\ CleanupDue)
  /\ phase' = "exited"
  /\ randomNodes' = <<>>
  /\ importantNodes' = <<>>
  /\ maxImportant' = M + K
  /\ subs' = {}
  /\ Quiet
  /\ UNCHANGED <<place, now, lastCleanup>>

Next == Tick \/ Idle \/ Receive \/ LocalRequest \/ NoCleanup \/ Cleanup \/ Exit

Spec == Init /\ [][Next]_vars

-----------------------------------------------------------------------------
(* Properties                                                              *)

Fresh(r) == r.timeStamp > now - NodeMaxAge

(* The type invariant.                                                     *)
TypeOK ==
  /\ randomNodes \in NodeLists
  /\ importantNodes \in NodeLists
  /\ maxImportant \in Nat /\ maxImportant >= M + K
  /\ place \in Place
  /\ subs \subseteq Subscribers /\ IsFiniteSet(subs) /\ Cardinality(subs) <= MaxSubs
  /\ now \in 0..MaxTime /\ lastCleanup \in 0..now
  /\ phase \in {"select", "check", "exited"}
  /\ received \in Messages \cup {NoMessage}
  /\ sent \subseteq [type : PayloadTypes, to : Nat, nodes : NodeLists]
  /\ published \in [to : SUBSET Subscribers, nodes : SUBSET Node]

(* Whatever arrived, both lists have room again when the loop gets back to *)
(* select: for N more random nodes and for K more important ones.  The     *)
(* capacity grows past its first value only up to the hard limit.          *)
Headroom ==
  /\ Len(randomNodes) <= N
  /\ Len(importantNodes) <= maxImportant - K
  /\ maxImportant > M + K => maxImportant <= NodesMaxSize

(* A client never keeps a record of itself, although its peers send it     *)
(* back to it, and never keeps two records of one node: a list can be full *)
(* of distinct peers only, and a request never goes to the client itself.  *)
DistinctPeers ==
  \A list \in {randomNodes, importantNodes} :
    /\ Self \notin IDs(Range(list))
    /\ UniqueIDs(list)

(* The important nodes are sorted by utility whenever a handler is done,   *)
(* also after the expiry that sorted them by identifier: the trim, and the *)
(* choice among the top of the list, rely on it.                           *)
ImportantSorted ==
  \A i, j \in DOMAIN importantNodes :
    i < j => importantNodes[i].utility >= importantNodes[j].utility

(* What a client sends fits its peers: a random payload fits the N places  *)
(* they keep free, an important payload has at most K records after the    *)
(* sender's own, and no node occurs twice in it.                           *)
PayloadsFit ==
  \A p \in sent :
    /\ p.nodes[1] = OwnNode
    /\ UniqueIDs(p.nodes)
    /\ IF p.type \in {"RND_REQ", "RND_NOREQ"} THEN Len(p.nodes) <= N
       ELSE Len(p.nodes) <= K + 1

(* No expired record leaves with the requests of the periodic cleanup, and *)
(* they go to peers whose record has not expired, or to the origin.        *)
RequestsFresh ==
  \A p \in sent : p.type \in RequestTypes =>
    /\ \A r \in Range(p.nodes) : Fresh(r) \/ r.nodeID = Self
    /\ \/ p.to = Origin
       \/ \E r \in Range(randomNodes) \cup Range(importantNodes) :
            Fresh(r) /\ r.addr = p.to

(* Subscribers are told of the client itself and, of the important nodes,  *)
(* exactly those whose record has not expired and whose range touched the  *)
(* client's own when their utility was last calculated.                    *)
PublicationSound ==
  published.to # {} =>
    /\ published.to = subs
    /\ OwnNode \in published.nodes
    /\ published.nodes \ {OwnNode} =
         {r \in Range(importantNodes) : Fresh(r) /\ r.utility >= Unit}

(* The step handles a message of one of the types.                         *)
Handles(types) == received'.type \in types
HandlesRandom  == Handles({"RND_REQ", "RND_NOREQ"})

(* A merge of random nodes forgets a node only when N others remain, none  *)
(* of which is older than the record it forgets.  (Of a node that both     *)
(* lists mention, either record may be the one that is compared.)          *)
KeepsNewest ==
  HandlesRandom =>
    LET known == {r \in Range(randomNodes) \cup Range(received'.nodes) :
                    r.nodeID # Self}
    IN  \A id \in IDs(known) \ IDs(Range(randomNodes')) :
          /\ Len(randomNodes') = N
          /\ \E d \in known : d.nodeID = id /\
               \A r \in Range(randomNodes') : r.timeStamp >= d.timeStamp

(* No merge forgets a newer random node for an older one.                  *)
NewestKept == [][KeepsNewest]_vars

(* The records that a merge adds to the important nodes, with the          *)
(* utilities for the client's own place.                                   *)
Merged == IF HandlesRandom THEN randomNodes'
          ELSE CalculateUtility(received'.nodes, OwnNode)

(* The merge left the node out for others: the list is as full as a trim   *)
(* leaves it, and of the records the merge had of the node there is one    *)
(* that every important node is at least as useful as; if that record is a *)
(* candidate, the list may grow no more.                                   *)
Outranked(id) ==
  \E d \in Range(importantNodes) \cup Range(Merged) :
    /\ d.nodeID = id
    /\ Len(importantNodes') = maxImportant' - K
    /\ \A r \in Range(importantNodes') : r.utility >= d.utility
    /\ IsCandidate(d) => maxImportant' + K > NodesMaxSize

(* However many records a merge brings, and of whichever nodes, it evicts  *)
(* an important node only for more useful ones, and a candidate only at    *)
(* the hard limit.  (Of a node that both lists mention, either record may  *)
(* be the one that is compared.)                                           *)
KeepsMostUseful ==
  Handles(PayloadTypes) =>
    \A id \in IDs(Range(importantNodes)) \ IDs(Range(importantNodes')) : Outranked(id)

(* No merge loses an important node to a less useful one.                  *)
MostUsefulKept == [][KeepsMostUseful]_vars

(* After a merge of random nodes every random node is an important node    *)
(* too, unless the important nodes that are kept are more useful, and      *)
(* every random node whose range touches the client's own is unless they   *)
(* may grow no more.  This needs N <= K: the random nodes must fit the     *)
(* places the important nodes keep free.  (A node that has been an         *)
(* important one with too low a utility, because it or the client was      *)
(* elsewhere, may keep that record, whose utility is not calculated again, *)
(* and go with it.)                                                        *)
PromotesRandom ==
  HandlesRandom =>
    \A id \in IDs(Range(randomNodes')) \ IDs(Range(importantNodes')) : Outranked(id)

(* Every merge offers its random nodes to the important nodes.             *)
RandomPromoted == [][PromotesRandom]_vars

(* The answer to a request for important nodes carries those of the list   *)
(* that are the most useful to the one who asks: no record left out has a  *)
(* higher utility for it than a record sent.                               *)
AnswersMostUseful ==
  Handles({"IMP_REQ"}) =>
    LET utility(r) == NodeUtility(received'.nodes[1], r)
    IN  \A p \in sent' : \A r \in Range(importantNodes), s \in Range(p.nodes) :
          r.nodeID \in IDs(Range(p.nodes)) \/ s.nodeID = Self
            \/ utility(r) <= utility(s)

(* Every answer carries the most useful nodes.                             *)
RepliesUseful == [][AnswersMostUseful]_vars

(* The peers that a message may name.                                      *)
Named == {IDs(Range(m.nodes)) : m \in Messages}

(* Seen from outside the lists are sets of peers that only messages add    *)
(* to: the order, the duplicates and the room in the arrays do not show.   *)
Table == INSTANCE PeerTable WITH
  Offers    <- Named,
  MaxRandom <- N,
  random    <- IDs(Range(randomNodes)),
  important <- IDs(Range(importantNodes))

KeepsTable == Table!Spec
=============================================================================
