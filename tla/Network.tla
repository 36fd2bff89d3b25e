------------------------------ MODULE Network ------------------------------
(***************************************************************************)
(* Several p2pdprd processes and the network between them.  Each runs the  *)
(* handlers of src/protocol.c on lists of its own and reads a clock of its *)
(* own; packets may be lost, duplicated, delayed and reordered; processes  *)
(* end and start again under a new identifier; local users move them.      *)
(*                                                                         *)
(* Time is relative.  The present is always NodeMaxAge, and when a second  *)
(* passes every time stamp falls by one instead; below 0, where a record   *)
(* has expired on every clock, stamps are not told apart.                  *)
(*                                                                         *)
(* The order in which the main loop serves its sockets is that of module   *)
(* MainLoop: here a process may take any of its steps, and a cleanup that  *)
(* is due happens within MaxPeriod.  The utilities that a merge leaves in  *)
(* the random nodes are left out: each use computes them anew.             *)
(***************************************************************************)
EXTENDS Protocol

CONSTANTS
  Clients,       \* the addresses of the processes
  Origin,        \* of each: NETWORK_originPeerIP, NETWORK_originPeerPort
  Skew,          \* of each: how many seconds its clock is ahead
  Places,        \* of each: the positions and ranges it may be given
  NodeMaxAge,    \* PROTO_nodeMaxAge
  ProtoTimeout,  \* PROTO_timeout
  MaxPeriod,     \* the longest time between two cleanups, see MainLoop
  MaxDelay,      \* the longest time a packet is under way
  MaxPackets,    \* bound: so many packets are under way
  MaxUpsets      \* bound: so many restarts and moves

ASSUME ClientsAssumption ==
  /\ Clients # {} /\ Clients \subseteq Nat /\ IsFiniteSet(Clients)
  /\ Origin \in [Clients -> Clients]
  /\ Skew \in [Clients -> Nat]
  /\ Places \in [Clients -> (SUBSET [pos : Int, coordRange : Nat]) \ {{}}]
ASSUME PeriodsAssumption ==
  /\ {NodeMaxAge, ProtoTimeout, MaxPeriod, MaxDelay} \subseteq Nat
  /\ ProtoTimeout < MaxPeriod
  /\ MaxPackets \in Nat \ {0, 1}
  /\ MaxUpsets \in Nat

VARIABLES
  up,         \* the processes that run
  id,         \* CLIENT_id of each, 0 before it first starts
  place,      \* CLIENT_lat, CLIENT_lon, CLIENT_coordRange
  random,     \* the random nodes
  important,  \* the important nodes
  capacity,   \* importantNodes->maxNodeCount
  idle,       \* seconds since last_cleanup_timestamp
  net,        \* the packets under way
  seed,       \* the identifier that rand gives in the second that a clock
              \* shows, by how far it is ahead; 0 if none started in it yet
  issued,     \* how many identifiers rand has given so far
  gone,       \* history: seconds since an identifier was last in use
  settled,    \* history: seconds since a process was last moved
  upsets      \* how many restarts and moves there were

lists   == <<random, important, capacity>>
history == <<gone, settled, upsets>>
seeds   == <<seed, issued>>
vars    == <<up, id, place, lists, idle, net, seeds, history>>

MinOf(a, b) == IF a < b THEN a ELSE b
MaxOf(a, b) == IF a > b THEN a ELSE b

(* What time() returns, and what a process says of itself.                 *)
Clock(c)   == NodeMaxAge + Skew[c]
OwnNode(c) == NewNode(id[c], c, place[c].pos, place[c].coordRange, Clock(c))

(* The identifiers that may be in use: one for each start.                 *)
Identifiers == 1..(Cardinality(Clients) + MaxUpsets)

(* The clock that is furthest ahead.                                       *)
MaxSkew == CHOOSE s \in Range(Skew) : \A t \in Range(Skew) : t <= s

(* Beyond this many seconds the histories do not count on.                 *)
Horizon == NodeMaxAge + MaxSkew

-----------------------------------------------------------------------------
Init ==
  /\ up = {}
  /\ id = [c \in Clients |-> 0]
  /\ place \in {f \in [Clients -> UNION Range(Places)] : \A c \in Clients : f[c] \in Places[c]}
  /\ random = [c \in Clients |-> <<>>]
  /\ important = [c \in Clients |-> <<>>]
  /\ capacity = [c \in Clients |-> M + K]
  /\ idle = [c \in Clients |-> 0]
  /\ net = {}
  /\ seed = [s \in 0..MaxSkew |-> 0]
  /\ issued = 0
  /\ gone = [i \in Identifiers |-> Horizon]
  /\ settled = [c \in Clients |-> Horizon]
  /\ upsets = 0

-----------------------------------------------------------------------------
(* The network                                                             *)

(* The packets S are sent while others are under way; when there are more  *)
(* than the network holds, older ones are lost.                            *)
Send(S, others) ==
  net' \in {S \cup kept : kept \in
              {T \in SUBSET others :
                 Cardinality(T) = MinOf(Cardinality(others),
                                        MaxPackets - Cardinality(S))}}

-----------------------------------------------------------------------------
(* The life of a process                                                   *)

Upset == upsets < MaxUpsets /\ upsets' = upsets + 1

Silent(c) ==
  /\ random' = [random EXCEPT ![c] = <<>>]
  /\ important' = [important EXCEPT ![c] = <<>>]
  /\ capacity' = [capacity EXCEPT ![c] = M + K]
  /\ idle' = [idle EXCEPT ![c] = 0]

(* What rand returns after srand(time(NULL)), by the clock of c: the same  *)
(* for starts in one second, different ones in different seconds.          *)
RandAfterSeed(c) == IF seed[Skew[c]] = 0 THEN issued + 1 ELSE seed[Skew[c]]

(* main: the process has its identifier, and the lists are empty.          *)
Start(c) ==
  /\ c \notin up
  /\ \/ id[c] = 0 /\ UNCHANGED upsets
     \/ id[c] # 0 /\ Upset
  /\ up' = up \cup {c}
  /\ id' = [id EXCEPT ![c] = RandAfterSeed(c)]
  /\ seed' = [seed EXCEPT ![Skew[c]] = RandAfterSeed(c)]
  /\ issued' = IF seed[Skew[c]] = 0 THEN issued + 1 ELSE issued
  /\ gone' = [gone EXCEPT ![RandAfterSeed(c)] = 0]
  /\ UNCHANGED <<place, lists, idle, net, settled>>

(* A signal, or one of the calls of exit: the memory is lost, the packets  *)
(* that were sent are not.                                                 *)
Stop(c) ==
  /\ c \in up
  /\ up' = up \ {c}
  /\ Silent(c)
  /\ UNCHANGED <<id, place, net, seeds, history>>

(* SET_POSITION and SET_COORDINATION_RANGE.                                *)
Move(c, p) ==
  /\ c \in up
  /\ p # place[c]
  /\ place' = [place EXCEPT ![c] = p]
  /\ settled' = [settled EXCEPT ![c] = 0]
  /\ Upset
  /\ UNCHANGED <<up, id, lists, idle, net, seeds, gone>>

-----------------------------------------------------------------------------
(* Protocol_receiveFromPeer                                                *)

MergeRandom(c, nc) ==
  \E rn \in UpdatedRandomNodes(nc, random[c], id[c]) :
    \E in \in UpdatedImportantNodes(rn, important[c], capacity[c], OwnNode(c)) :
      /\ random' = [random EXCEPT ![c] = rn]
      /\ important' = [important EXCEPT ![c] = in.nodes]
      /\ capacity' = [capacity EXCEPT ![c] = in.max]

MergeImportant(c, nc) ==
  \E in \in UpdatedImportantNodes(nc, important[c], capacity[c], OwnNode(c)) :
    /\ important' = [important EXCEPT ![c] = in.nodes]
    /\ capacity' = [capacity EXCEPT ![c] = in.max]
    /\ UNCHANGED random

(* The answers c may give to p, from the lists as they are before the      *)
(* merge, to the address in the first record of p.                         *)
Replies(c, p) ==
  LET asker == p.nodes[1]
  IN  CASE p.type = "RND_REQ" ->
             {{Packet("RND_NOREQ", asker.addr, RandomPayload(random[c], OwnNode(c)))}}
        [] p.type = "IMP_REQ" ->
             {{Packet("IMP_NOREQ", asker.addr, payload)} :
                payload \in ImportantPayloads(important[c], OwnNode(c), asker)}
        [] OTHER -> {{}}

(* The packet p is delivered, and may come again.                          *)
Receive(c, p) ==
  /\ c \in up
  /\ p.to = c
  /\ IF p.type \in {"RND_REQ", "RND_NOREQ"}
     THEN MergeRandom(c, p.nodes) ELSE MergeImportant(c, p.nodes)
  /\ \E reply \in Replies(c, p), others \in {net, net \ {p}} : Send(reply, others)
  /\ UNCHANGED <<up, id, place, idle, seeds, history>>

-----------------------------------------------------------------------------
(* Protocol_timeout, when it is due: expire, then a request to a random    *)
(* peer, or to the origin peer if there is none, and one to an important   *)
(* peer, if there is one.                                                  *)
CleanupDue(c) == idle[c] > ProtoTimeout

(* Mutant: the origin peer is not contacted.                               *)
RandomRequestsToPeers(c, rn) ==
  IF PeerChoices(rn, id[c]) = {} THEN {{}}
  ELSE {{Packet("RND_REQ", peer.addr, RandomPayload(rn, OwnNode(c)))} :
          peer \in PeerChoices(rn, id[c])}

RandomRequests(c, rn) ==
  IF PeerChoices(rn, id[c]) = {}
  THEN {{Packet("RND_REQ", Origin[c], <<OwnNode(c)>>)}}
  ELSE {{Packet("RND_REQ", peer.addr, RandomPayload(rn, OwnNode(c)))} :
          peer \in PeerChoices(rn, id[c])}

ImportantRequests(c, in) ==
  IF ImportantChoices(in, id[c]) = {}
  THEN {{}}
  ELSE UNION {{{Packet("IMP_REQ", peer.addr, payload)} :
                 payload \in ImportantPayloads(in, OwnNode(c), peer)} :
                peer \in ImportantChoices(in, id[c])}

Cleanup(c) ==
  /\ c \in up
  /\ CleanupDue(c)
  /\ \E rn \in SortedBy(Unexpired(random[c], Clock(c), NodeMaxAge), "nodeID"),
        in \in SortedBy(Unexpired(important[c], Clock(c), NodeMaxAge), "utility") :
       /\ random' = [random EXCEPT ![c] = rn]
       /\ important' = [important EXCEPT ![c] = in]
       /\ \E rq \in RandomRequests(c, rn), iq \in ImportantRequests(c, in) :
            Send(rq \cup iq, net)
  /\ idle' = [idle EXCEPT ![c] = 0]
  /\ UNCHANGED <<up, id, place, capacity, seeds, history>>

-----------------------------------------------------------------------------
(* A second passes, unless a cleanup is overdue or a packet may no longer  *)
(* be under way.  Every time stamp is one second further in the past.      *)
Age(p)    == Clock(p.nodes[1].addr) - p.nodes[1].timeStamp
Older(nc) == [i \in DOMAIN nc |-> [nc[i] EXCEPT !.timeStamp = MaxOf(0, @ - 1)]]

Tick ==
  /\ \A c \in up : idle[c] < MaxPeriod
  /\ random' = [c \in Clients |-> Older(random[c])]
  /\ important' = [c \in Clients |-> Older(important[c])]
  /\ net' = {[p EXCEPT !.nodes = Older(@)] : p \in {q \in net : Age(q) < MaxDelay}}
  /\ idle' = [c \in Clients |-> IF c \in up THEN idle[c] + 1 ELSE 0]
  /\ seed' = [s \in 0..MaxSkew |-> IF s < MaxSkew THEN seed[s + 1] ELSE 0]
  /\ gone' = [i \in Identifiers |->
                IF \E c \in up : id[c] = i THEN 0 ELSE MinOf(Horizon, gone[i] + 1)]
  /\ settled' = [c \in Clients |-> MinOf(Horizon, settled[c] + 1)]
  /\ UNCHANGED <<up, id, place, capacity, issued, upsets>>

Next ==
  \/ Tick
  \/ \E c \in Clients : \/ Start(c) \/ Stop(c) \/ Cleanup(c)
                        \/ \E p \in Places[c] : Move(c, p)
                        \/ \E p \in net : Receive(c, p)

Spec == Init /\ [][Next]_vars

(* The clock goes on, the main loop gets to the cleanup (CleansAgain of    *)
(* module MainLoop), and of the packets of one type that one process sends *)
(* to another again and again not all are lost.                            *)
Types == {"RND_REQ", "RND_NOREQ", "IMP_REQ", "IMP_NOREQ"}

Deliver(c, d, type) ==
  \E p \in net : p.nodes[1].addr = d /\ p.type = type /\ Receive(c, p)

Fairness ==
  /\ WF_vars(Tick)
  /\ \A c \in Clients : WF_vars(Cleanup(c))
  /\ \A c, d \in Clients : \A t \in Types : c # d => SF_vars(Deliver(c, d, t))

FairSpec == Spec /\ Fairness

-----------------------------------------------------------------------------
(* Properties                                                              *)

(* The type invariant.                                                     *)
TypeOK ==
  /\ up \subseteq Clients
  /\ id \in [Clients -> {0} \cup Identifiers]
  /\ place \in [Clients -> UNION Range(Places)]
  /\ random \in [Clients -> NodeLists] /\ \A c \in Clients : Len(random[c]) <= N
  /\ important \in [Clients -> NodeLists]
  /\ capacity \in [Clients -> Nat]
  /\ \A c \in Clients : Len(important[c]) <= capacity[c] - K
  /\ idle \in [Clients -> 0..MaxPeriod]
  /\ net \subseteq [type : Types, to : Clients, nodes : NodeLists]
  /\ Cardinality(net) <= MaxPackets
  /\ seed \in [0..MaxSkew -> {0} \cup Identifiers]
  /\ issued \in Nat
  /\ gone \in [Identifiers -> 0..Horizon]
  /\ settled \in [Clients -> 0..Horizon]
  /\ upsets \in 0..MaxUpsets

(* The process has just cleaned up: from these lists it chooses the peers  *)
(* it contacts and publishes the candidates.                               *)
CleanedUp(c) == c \in up' /\ idle'[c] < idle[c]

(* However often records are passed on, and back, by processes that know   *)
(* nothing of their owner: what a process uses at a cleanup is a record of *)
(* an identifier that was in use less than PROTO_nodeMaxAge seconds ago,   *)
(* give or take the difference of the two clocks.                          *)
UsesAlive(c) ==
  CleanedUp(c) =>
    \A r \in Range(random'[c]) \cup Range(important'[c]) :
      gone[r.nodeID] < NodeMaxAge + Skew[r.addr] - Skew[c]

(* Every process does so, always.                                          *)
PublishedAlive == [][\A c \in Clients : UsesAlive(c)]_vars

(* A move does not recalculate the utilities of the important nodes, but   *)
(* PROTO_nodeMaxAge seconds later, give or take the clocks, every utility  *)
(* a process publishes by is that of its present place.                    *)
UsesCurrent(c) ==
  CleanedUp(c) =>
    \A r \in Range(important'[c]) :
      \/ settled[c] < NodeMaxAge + Skew[r.addr] - Skew[c]
      \/ r.utility = NodeUtility(OwnNode(c), r)

(* Every process does so, always.                                          *)
PublishedCurrent == [][\A c \in Clients : UsesCurrent(c)]_vars

(* c and d have positions and ranges that touch, and c has an important    *)
(* node at d's address that is a candidate.                                *)
Touching(c, d) == NodeUtility(OwnNode(c), OwnNode(d)) >= Unit
Known(c, d) == \E r \in CandidateNodes(important[c]) : r.addr = d

(* Two processes with different identifiers that stay in reach of each     *)
(* other find each other, and again whenever they lose each other, though  *)
(* they know only the origin peer, whatever packets are lost, and whoever  *)
(* starts first.                                                           *)
Discovery ==
  \A c, d \in Clients :
    c # d /\ <>[]({c, d} \subseteq up /\ Touching(c, d) /\ id[c] # id[d])
      => []<>Known(c, d)

(* What README.md says of any two clients, which the code does not keep:   *)
(* "After a few seconds the two clients should find each other".  The      *)
(* identifier is rand() after srand(time(NULL)).                           *)
FindEachOther ==
  \A c, d \in Clients :
    c # d /\ <>[]({c, d} \subseteq up /\ Touching(c, d)) => []<>Known(c, d)
=============================================================================
