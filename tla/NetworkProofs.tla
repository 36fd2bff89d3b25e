--------------------------- MODULE NetworkProofs ---------------------------
(***************************************************************************)
(* The invariant and the action properties of Network, for all values of   *)
(* its constants.                                                          *)
(*                                                                         *)
(* TypeOK is not inductive: that a second start finds an identifier left   *)
(* needs a count of the starts (IdentifiersFit), and that an answer goes   *)
(* to a process needs that every record that travels names one.  Stamped   *)
(* says of every record, wherever it is, that its time stamp is no later   *)
(* than its identifier was last in use by the clock of its address; Scored *)
(* says of every important node that its utility is that of the present    *)
(* place of the process, or that it dates from before the last move.       *)
(***************************************************************************)
EXTENDS Network, ProtocolLemmas

(* How many starts there were, or moves, which use up the same bound.      *)
Starts == Cardinality({c \in Clients : id[c] # 0}) + upsets

IdentifiersFit ==
  /\ \A c \in up : id[c] # 0 /\ gone[id[c]] = 0
  /\ issued <= Starts

Stamped(r) ==
  /\ r.addr \in Clients /\ r.nodeID \in Identifiers
  /\ \/ r.timeStamp = 0
     \/ r.timeStamp + gone[r.nodeID] <= NodeMaxAge + Skew[r.addr]

AllStamped(nc) == \A r \in Range(nc) : Stamped(r)

ListsStamped == \A c \in Clients : AllStamped(random[c]) /\ AllStamped(important[c])

(* The packets under way are finitely many, none of them empty.            *)
PacketsStamped ==
  /\ IsFiniteSet(net)
  /\ \A p \in net : p.nodes # <<>> /\ AllStamped(p.nodes)

Scored(c, r) ==
  \/ r.utility = NodeUtility(OwnNode(c), r)
  \/ r.timeStamp = 0
  \/ r.timeStamp + settled[c] <= NodeMaxAge + Skew[r.addr]

UtilitiesScored == \A c \in Clients : \A r \in Range(important[c]) : Scored(c, r)

(* The inductive invariant.                                                *)
Inv == TypeOK /\ IdentifiersFit /\ ListsStamped /\ PacketsStamped /\ UtilitiesScored

-----------------------------------------------------------------------------
(* The constants                                                           *)

(* No clock is ahead of the one that is furthest ahead.                    *)
LEMMA MaxSkewType ==
  /\ MaxSkew \in Nat
  /\ \A c \in Clients : Skew[c] \in 0..MaxSkew
<1>1. Skew \in Surjection(Clients, Range(Skew)) /\ Range(Skew) \subseteq Nat
  <2>1. /\ Skew \in [Clients -> Nat] /\ DOMAIN Skew = Clients
        /\ Range(Skew) = {Skew[c] : c \in Clients}
    BY ClientsAssumption DEF Range
  <2>2. Skew \in [Clients -> Range(Skew)]
    BY <2>1
  <2> QED
    BY <2>1, <2>2 DEF Surjection
<1>2. IsFiniteSet(Range(Skew))
  BY <1>1, ClientsAssumption, FS_Surjection
<1>3. Range(Skew) # {}
  <2>1. PICK c \in Clients : TRUE
    BY ClientsAssumption
  <2>2. Skew[c] \in Range(Skew)
    BY <1>1 DEF Surjection
  <2> QED
    BY <2>2
<1>4. \E s \in Range(Skew) : \A t \in Range(Skew) : t <= s
  BY <1>1, <1>2, <1>3, GreatestElement
<1>5. MaxSkew \in Range(Skew) /\ \A t \in Range(Skew) : t <= MaxSkew
  BY <1>4 DEF MaxSkew
<1>6. MaxSkew \in Nat
  BY <1>1, <1>5
<1>7. ASSUME NEW c \in Clients PROVE Skew[c] \in Nat /\ Skew[c] <= MaxSkew
  <2>1. Skew[c] \in Range(Skew)
    BY <1>1 DEF Surjection
  <2> QED
    BY <1>1, <1>5, <2>1
<1>8. ASSUME NEW c \in Clients PROVE Skew[c] \in 0..MaxSkew
  BY <1>6, <1>7
<1> QED
  BY <1>6, <1>8

(* The histories count up to a number.                                     *)
LEMMA HorizonType == Horizon \in Nat
<1>1. NodeMaxAge \in Nat /\ MaxSkew \in Nat
  BY MaxSkewType, PeriodsAssumption
<1> QED
  BY <1>1 DEF Horizon

(* A place is a position and a range.                                      *)
LEMMA PlaceType == UNION Range(Places) \subseteq [pos : Int, coordRange : Nat]
BY ClientsAssumption DEF Range

(* What the constants are.                                                 *)
LEMMA ConstantTypes ==
  /\ Cardinality(Clients) \in Nat
  /\ NodeMaxAge \in Nat /\ ProtoTimeout \in Nat /\ MaxPeriod \in Nat
  /\ MaxUpsets \in Nat /\ MaxPackets \in Nat /\ MaxPackets >= 2
  /\ \A c \in Clients : c \in Nat /\ Skew[c] \in Nat /\ Origin[c] \in Clients
<1>1. Cardinality(Clients) \in Nat
  BY ClientsAssumption, FS_CardinalityType
<1>2. MaxUpsets \in Nat /\ MaxPackets \in Nat /\ MaxPackets >= 2
  BY PeriodsAssumption
<1> QED
  BY <1>1, <1>2, ClientsAssumption, PeriodsAssumption

(* Identifiers are numbers; 0 is none of them.                             *)
LEMMA IdentifiersType ==
  \A i : i \in Identifiers <=> /\ i \in Nat /\ 1 <= i
                               /\ i <= Cardinality(Clients) + MaxUpsets
<1> DEFINE n == Cardinality(Clients) + MaxUpsets
<1>1. n \in Nat
  BY ConstantTypes
<1> HIDE DEF n
<1>2. \A i : i \in 1..n <=> i \in Nat /\ 1 <= i /\ i <= n
  BY <1>1
<1> QED
  BY <1>2 DEF n, Identifiers

-----------------------------------------------------------------------------
(* Records                                                                 *)

(* What a process says of itself is a node, and stamped while it runs.     *)
LEMMA OwnNodeType ==
  ASSUME TypeOK, NEW c \in Clients
  PROVE  /\ OwnNode(c) \in Node
         /\ OwnNode(c).nodeID = id[c] /\ OwnNode(c).addr = c
         /\ OwnNode(c).timeStamp = NodeMaxAge + Skew[c]
         /\ OwnNode(c).pos = place[c].pos
         /\ OwnNode(c).coordRange = place[c].coordRange
<1>1. id[c] \in Nat /\ place[c].pos \in Int /\ place[c].coordRange \in Nat
  <2>1. id[c] \in {0} \cup Identifiers /\ place[c] \in UNION Range(Places)
    BY DEF TypeOK
  <2>2. place[c] \in [pos : Int, coordRange : Nat]
    BY <2>1, PlaceType
  <2>3. place[c].pos \in Int /\ place[c].coordRange \in Nat
    BY <2>2
  <2>4. id[c] \in Nat
    BY <2>1, IdentifiersType
  <2> QED
    BY <2>3, <2>4
<1>2. Clock(c) = NodeMaxAge + Skew[c] /\ Clock(c) \in Nat /\ c \in Nat
  BY ConstantTypes DEF Clock
<1>3. OwnNode(c) \in Node
  BY <1>1, <1>2, NewNodeType DEF OwnNode
<1> QED
  BY <1>2, <1>3 DEF OwnNode, NewNode

(* While a process runs, what it says of itself is stamped.                *)
LEMMA OwnNodeStamped ==
  ASSUME TypeOK, IdentifiersFit, NEW c \in up
  PROVE  OwnNode(c) \in Node /\ Stamped(OwnNode(c))
<1>1. c \in Clients /\ id[c] \in Identifiers /\ gone[id[c]] = 0
  BY DEF TypeOK, IdentifiersFit
<1> QED
  BY <1>1, OwnNodeType, ConstantTypes DEF Stamped

(* A stamp does not look at the utility.                                   *)
LEMMA StampedUtility ==
  ASSUME NEW q \in Node, Stamped(q), NEW u \in Nat
  PROVE  [q EXCEPT !.utility = u] \in Node /\ Stamped([q EXCEPT !.utility = u])
BY DEF Node, Stamped

(* What is stamped stays so when utilities are calculated, when a list is  *)
(* packed, merged, sent.                                                   *)
LEMMA CalculatedStamped ==
  ASSUME NEW nc \in NodeLists, NEW n \in Node, AllStamped(nc)
  PROVE  AllStamped(CalculateUtility(nc, n))
<1>1. ASSUME NEW r \in Range(CalculateUtility(nc, n)) PROVE Stamped(r)
  <2>1. PICK q \in Range(nc) : /\ q \in Node
                               /\ r = [q EXCEPT !.utility = NodeUtility(n, q)]
    BY CalculateUtilityRecords
  <2>2. NodeUtility(n, q) \in Nat
    BY <2>1, UtilityType
  <2> QED
    BY <2>1, <2>2, StampedUtility DEF AllStamped
<1> QED
  BY <1>1 DEF AllStamped

(* A packet of stamped records is one that may be under way.               *)
LEMMA PacketStamped ==
  ASSUME NEW type \in Types, NEW to \in Clients, NEW nc \in NodeLists,
         nc # <<>>, AllStamped(nc)
  PROVE  LET p == Packet(type, to, nc)
         IN  /\ p \in [type : Types, to : Clients, nodes : NodeLists]
             /\ p.nodes # <<>> /\ AllStamped(p.nodes)
<1>1. OnTheWire(nc) \in NodeLists /\ Len(OnTheWire(nc)) = Len(nc)
  BY OnTheWireType
<1>2. OnTheWire(nc) # <<>>
  BY <1>1 DEF NodeLists
<1>3. ASSUME NEW r \in Range(OnTheWire(nc)) PROVE Stamped(r)
  <2>1. PICK q \in Range(nc) : q \in Node /\ r = [q EXCEPT !.utility = 0]
    BY OnTheWireRecords
  <2> QED
    BY <2>1, StampedUtility DEF AllStamped
<1> QED
  BY <1>1, <1>2, <1>3 DEF Packet, AllStamped

(* What a process sends to another: the own node and records of its lists. *)
LEMMA RandomPacket ==
  ASSUME TypeOK, IdentifiersFit, NEW c \in up, NEW type \in Types, NEW to \in Clients,
         NEW rn \in NodeLists, AllStamped(rn)
  PROVE  LET p == Packet(type, to, RandomPayload(rn, OwnNode(c)))
         IN  /\ p \in [type : Types, to : Clients, nodes : NodeLists]
             /\ p.nodes # <<>> /\ AllStamped(p.nodes)
<1> DEFINE nc == RandomPayload(rn, OwnNode(c))
<1>1. OwnNode(c) \in Node /\ Stamped(OwnNode(c))
  BY OwnNodeStamped
<1>2. nc \in NodeLists /\ Len(nc) >= 1
  BY <1>1, RandomPayloadType
<1>3. Range(nc) \subseteq {OwnNode(c)} \cup Range(rn)
  BY <1>1, RandomPayloadSources
<1> HIDE DEF nc
<1>4. nc # <<>> /\ AllStamped(nc)
  BY <1>1, <1>2, <1>3 DEF AllStamped
<1> QED
  BY <1>2, <1>4, PacketStamped DEF nc

(* The same of a packet of important nodes.                                *)
LEMMA ImportantPacket ==
  ASSUME TypeOK, IdentifiersFit, NEW c \in up, NEW type \in Types, NEW to \in Clients,
         NEW in \in NodeLists, AllStamped(in), NEW peer \in Node,
         NEW nc \in ImportantPayloads(in, OwnNode(c), peer)
  PROVE  LET p == Packet(type, to, nc)
         IN  /\ p \in [type : Types, to : Clients, nodes : NodeLists]
             /\ p.nodes # <<>> /\ AllStamped(p.nodes)
<1>1. OwnNode(c) \in Node /\ Stamped(OwnNode(c))
  BY OwnNodeStamped
<1>2. nc \in NodeLists /\ Len(nc) >= 1
  BY <1>1, ImportantPayloadType
<1>3. Range(nc) \subseteq {OwnNode(c)} \cup Range(in) \cup Range(CalculateUtility(in, peer))
  BY <1>1, ImportantPayloadSources
<1>4. AllStamped(CalculateUtility(in, peer))
  BY CalculatedStamped
<1>5. nc # <<>> /\ AllStamped(nc)
  BY <1>1, <1>2, <1>3, <1>4 DEF AllStamped
<1> QED
  BY <1>2, <1>5, PacketStamped

-----------------------------------------------------------------------------
(* What steps leave alone                                                  *)

(* A stamp holds as long as the identifier was not in use less recently.   *)
LEMMA StampedStays ==
  ASSUME gone \in [Identifiers -> Nat], gone' \in [Identifiers -> Nat],
         \A i \in Identifiers : gone'[i] <= gone[i],
         NEW r \in Node, Stamped(r)
  PROVE  Stamped(r)'
<1>1. r.addr \in Clients /\ r.nodeID \in Identifiers /\ r.timeStamp \in Nat
  BY DEF Stamped, Node
<1>2. gone[r.nodeID] \in Nat /\ gone'[r.nodeID] \in Nat /\ gone'[r.nodeID] <= gone[r.nodeID]
  BY <1>1
<1>3. Skew[r.addr] \in Nat /\ NodeMaxAge \in Nat
  BY <1>1, ConstantTypes
<1> DEFINE since == gone[r.nodeID]
           since2 == gone'[r.nodeID]
           bound == NodeMaxAge + Skew[r.addr]
<1>4. bound \in Nat
  BY <1>3
<1>5. r.timeStamp = 0 \/ r.timeStamp + since <= bound
  BY DEF Stamped
<1> HIDE DEF since, since2, bound
<1>6. r.timeStamp = 0 \/ r.timeStamp + since2 <= bound
  BY <1>1, <1>2, <1>4, <1>5 DEF since, since2
<1> QED
  BY <1>1, <1>6 DEF Stamped, since2, bound

(* The records that were under way or in lists, after a step that sends    *)
(* and merges nothing.                                                     *)
LEMMA SameRecords ==
  ASSUME TypeOK, ListsStamped, PacketsStamped,
         gone' \in [Identifiers -> Nat], \A i \in Identifiers : gone'[i] <= gone[i],
         net' = net,
         \A c \in Clients : /\ random'[c] = random[c] \/ random'[c] = <<>>
                            /\ important'[c] = important[c] \/ important'[c] = <<>>
  PROVE  ListsStamped' /\ PacketsStamped'
<1>1. gone \in [Identifiers -> Nat]
  BY HorizonType DEF TypeOK
<1>2. ASSUME NEW nc \in NodeLists, AllStamped(nc) PROVE AllStamped(nc)'
  <2>1. Range(nc) \subseteq Node
    BY RangeFinite
  <2> QED
    BY <1>1, <1>2, <2>1, StampedStays DEF AllStamped
<1>3. AllStamped(<<>>)'
  BY DEF AllStamped, Range
<1>4. ASSUME NEW c \in Clients PROVE AllStamped(random[c])' /\ AllStamped(important[c])'
  <2>1. /\ random[c] \in NodeLists /\ important[c] \in NodeLists
        /\ AllStamped(random[c]) /\ AllStamped(important[c])
    BY DEF TypeOK, ListsStamped
  <2>2. \A nc \in NodeLists : AllStamped(nc) => AllStamped(nc)'
    BY <1>2
  <2>3. random'[c] \in NodeLists => (random'[c] = random[c] => AllStamped(random[c])')
    BY <2>1, <2>2 DEF AllStamped, Stamped
  <2>4. important'[c] \in NodeLists => (important'[c] = important[c] => AllStamped(important[c])')
    BY <2>1, <2>2 DEF AllStamped, Stamped
  <2>5. random'[c] = <<>> => AllStamped(random[c])'
    BY <1>3 DEF AllStamped, Stamped
  <2>6. important'[c] = <<>> => AllStamped(important[c])'
    BY <1>3 DEF AllStamped, Stamped
  <2> QED
    BY <2>1, <2>3, <2>4, <2>5, <2>6
<1>5. ASSUME NEW p \in net PROVE p.nodes # <<>> /\ AllStamped(p.nodes)'
  <2>1. p.nodes \in NodeLists /\ p.nodes # <<>> /\ AllStamped(p.nodes)
    BY DEF TypeOK, PacketsStamped
  <2> QED
    BY <1>2, <2>1
<1> QED
  BY <1>4, <1>5 DEF ListsStamped, PacketsStamped

(* A score holds as long as the process is not moved.                      *)
LEMMA ScoredStays ==
  ASSUME NEW c \in Clients, NEW r, Scored(c, r),
         place'[c] = place[c], settled'[c] = settled[c]
  PROVE  Scored(c, r)'
<1>1. /\ OwnNode(c)'.pos = OwnNode(c).pos
      /\ OwnNode(c)'.coordRange = OwnNode(c).coordRange
  BY DEF OwnNode, NewNode
<1>2. NodeUtility(OwnNode(c)', r) = NodeUtility(OwnNode(c), r)
  BY <1>1, UtilityOfPlace
<1>3. NodeUtility(OwnNode(c), r)' = NodeUtility(OwnNode(c)', r)
  BY DEF NodeUtility
<1> QED
  BY <1>2, <1>3 DEF Scored

-----------------------------------------------------------------------------
(* The life of a process                                                   *)

(* The starts are counted, and there are identifiers for all of them.      *)
LEMMA StartsBound ==
  ASSUME TypeOK
  PROVE  LET S == {c \in Clients : id[c] # 0}
         IN  /\ IsFiniteSet(S) /\ Cardinality(S) \in Nat
             /\ Cardinality(S) <= Cardinality(Clients)
             /\ S # Clients => Cardinality(S) < Cardinality(Clients)
             /\ upsets \in Nat /\ upsets <= MaxUpsets
             /\ Starts = Cardinality(S) + upsets
<1> DEFINE S == {c \in Clients : id[c] # 0}
<1>1. S \subseteq Clients /\ IsFiniteSet(Clients)
  BY ClientsAssumption
<1>2. upsets \in Nat /\ upsets <= MaxUpsets
  BY ConstantTypes DEF TypeOK
<1>3. Starts = Cardinality(S) + upsets
  BY DEF Starts
<1> HIDE DEF S
<1>4. /\ IsFiniteSet(S) /\ Cardinality(S) <= Cardinality(Clients)
      /\ Cardinality(Clients) = Cardinality(S) => Clients = S
  BY <1>1, FS_Subset
<1>5. Cardinality(S) \in Nat /\ Cardinality(Clients) \in Nat
  BY <1>4, FS_CardinalityType, ConstantTypes
<1>6. S # Clients => Cardinality(S) < Cardinality(Clients)
  BY <1>4, <1>5
<1> QED
  BY <1>2, <1>3, <1>4, <1>5, <1>6 DEF S

(* A start is one more, and rand has an identifier left for it.            *)
LEMMA StartCounts ==
  ASSUME TypeOK, IdentifiersFit, NEW c \in Clients, Start(c)
  PROVE  /\ Starts \in Nat /\ Starts' = Starts + 1
         /\ RandAfterSeed(c) \in Identifiers
         /\ issued' \in Nat /\ issued' <= Starts'
         /\ upsets' \in 0..MaxUpsets
<1> DEFINE S == {d \in Clients : id[d] # 0}
<1>1. /\ IsFiniteSet(S) /\ Cardinality(S) \in Nat
      /\ Cardinality(S) <= Cardinality(Clients)
      /\ S # Clients => Cardinality(S) < Cardinality(Clients)
      /\ upsets \in Nat /\ upsets <= MaxUpsets
      /\ Starts = Cardinality(S) + upsets
  BY StartsBound
<1> DEFINE new == RandAfterSeed(c)
<1>2. /\ id' = [id EXCEPT ![c] = new] /\ issued' \in {issued, issued + 1}
      /\ issued \in Nat /\ issued <= Starts
  BY DEF Start, TypeOK, IdentifiersFit
<1>3. new \in Identifiers \/ new = issued + 1
  <2>1. Skew[c] \in 0..MaxSkew
    BY MaxSkewType
  <2>2. seed[Skew[c]] \in {0} \cup Identifiers
    BY <2>1 DEF TypeOK
  <2> QED
    BY <2>2 DEF RandAfterSeed
<1>4. new \in Nat /\ new # 0
  BY <1>2, <1>3, IdentifiersType
<1> HIDE DEF new
<1>5. {d \in Clients : id'[d] # 0} = S \cup {c}
  BY <1>2, <1>4 DEF TypeOK
<1>6. Starts' = Cardinality(S \cup {c}) + upsets'
  BY <1>5 DEF Starts
<1>7. MaxUpsets \in Nat /\ Cardinality(Clients) \in Nat
  BY ConstantTypes
<1>8. ASSUME id[c] = 0
      PROVE  Starts \in Nat /\ Starts' = Starts + 1 /\ upsets' \in 0..MaxUpsets
             /\ issued + 1 <= Cardinality(Clients) + MaxUpsets
  <2>1. upsets' = upsets
    BY <1>8 DEF Start
  <2>2. c \notin S
    BY <1>8
  <2>3. S # Clients
    BY <2>2
  <2> HIDE DEF S
  <2>4. Cardinality(S \cup {c}) = Cardinality(S) + 1
    BY <1>1, <2>2, FS_AddElement
  <2>5. Starts \in Nat /\ Starts' = Starts + 1
    BY <1>1, <1>6, <2>1, <2>4
  <2>6. issued + 1 <= Cardinality(Clients) + MaxUpsets
    BY <1>1, <1>2, <1>7, <2>3
  <2>7. upsets' \in 0..MaxUpsets
    BY <1>1, <1>7, <2>1
  <2> QED
    BY <2>5, <2>6, <2>7
<1>9. ASSUME id[c] # 0
      PROVE  Starts \in Nat /\ Starts' = Starts + 1 /\ upsets' \in 0..MaxUpsets
             /\ issued + 1 <= Cardinality(Clients) + MaxUpsets
  <2>1. upsets' = upsets + 1 /\ upsets < MaxUpsets
    BY <1>9 DEF Start, Upset
  <2>2. S \cup {c} = S
    <3>1. c \in S
      BY <1>9
    <3> HIDE DEF S
    <3> QED
      BY <3>1
  <2> HIDE DEF S
  <2>3. Starts \in Nat /\ Starts' = Starts + 1
    <3>1. Cardinality(S \cup {c}) = Cardinality(S)
      BY <2>2
    <3>2. Starts' = Cardinality(S) + (upsets + 1)
      BY <1>6, <2>1, <3>1
    <3>3. Cardinality(S) \in Nat /\ upsets \in Nat /\ Starts = Cardinality(S) + upsets
      BY <1>1
    <3> QED
      BY <3>2, <3>3
  <2>4. issued + 1 <= Cardinality(Clients) + MaxUpsets
    BY <1>1, <1>2, <1>7, <2>1
  <2>5. upsets' \in 0..MaxUpsets
    <3>1. upsets \in Nat /\ MaxUpsets \in Nat
      BY <1>1, <1>7
    <3> QED
      BY <2>1, <3>1
  <2> QED
    BY <2>3, <2>4, <2>5
<1>10. /\ Starts \in Nat /\ Starts' = Starts + 1
       /\ issued + 1 <= Cardinality(Clients) + MaxUpsets
       /\ upsets' \in 0..MaxUpsets
  BY <1>8, <1>9
<1>11. new \in Identifiers
  <2>1. issued + 1 \in Nat /\ 1 <= issued + 1
    BY <1>2
  <2> QED
    BY <1>3, <1>10, <2>1, IdentifiersType
<1>12. issued' \in Nat /\ issued' <= Starts'
  BY <1>2, <1>10
<1> QED
  BY <1>10, <1>11, <1>12 DEF new

(* A start: its identifier is in use from now on, all else as it was.      *)
LEMMA StartInv ==
  ASSUME Inv, NEW c \in Clients, Start(c)
  PROVE  Inv'
<1> DEFINE new == RandAfterSeed(c)
<1>1. TypeOK /\ IdentifiersFit /\ ListsStamped /\ PacketsStamped /\ UtilitiesScored
  BY DEF Inv
<1>2. /\ up' = up \cup {c}
      /\ id' = [id EXCEPT ![c] = new]
      /\ seed' = [seed EXCEPT ![Skew[c]] = new]
      /\ gone' = [gone EXCEPT ![new] = 0]
      /\ UNCHANGED <<place, random, important, capacity, idle, net, settled>>
  BY DEF Start, lists
<1>3. /\ new \in Identifiers /\ upsets' \in 0..MaxUpsets
      /\ issued' \in Nat /\ issued' <= Starts'
  BY <1>1, StartCounts
<1> HIDE DEF new
<1>4. Horizon \in Nat
  BY HorizonType
<1>5. gone \in [Identifiers -> 0..Horizon] /\ id \in [Clients -> {0} \cup Identifiers]
  BY <1>1 DEF TypeOK
<1>6. /\ gone' \in [Identifiers -> 0..Horizon] /\ id' \in [Clients -> {0} \cup Identifiers]
      /\ \A i \in Identifiers : gone'[i] = IF i = new THEN 0 ELSE gone[i]
      /\ \A d \in Clients : id'[d] = IF d = c THEN new ELSE id[d]
  BY <1>2, <1>3, <1>4, <1>5
<1>7. TypeOK'
  <2>1. up' \subseteq Clients
    BY <1>1, <1>2 DEF TypeOK
  <2>2. seed' \in [0..MaxSkew -> {0} \cup Identifiers]
    BY <1>1, <1>2, <1>3, MaxSkewType DEF TypeOK
  <2> QED
    BY <1>1, <1>2, <1>3, <1>6, <2>1, <2>2 DEF TypeOK
<1>8. IdentifiersFit'
  <2>1. up \subseteq Clients /\ new # 0
    BY <1>1, <1>3, IdentifiersType DEF TypeOK
  <2>2. ASSUME NEW d \in up' PROVE id'[d] # 0 /\ gone'[id'[d]] = 0
    <3>1. CASE d = c
      BY <1>3, <1>6, <2>1, <3>1
    <3>2. CASE d # c
      <4>1. d \in up /\ id[d] # 0 /\ gone[id[d]] = 0 /\ d \in Clients
        BY <1>1, <1>2, <2>1, <3>2 DEF IdentifiersFit
      <4>2. id'[d] = id[d] /\ id[d] \in Identifiers
        BY <1>5, <1>6, <3>2, <4>1
      <4> QED
        BY <1>6, <4>1, <4>2
    <3> QED
      BY <3>1, <3>2
  <2> QED
    BY <1>3, <2>2 DEF IdentifiersFit
<1>9. ListsStamped' /\ PacketsStamped'
  <2>1. gone' \in [Identifiers -> Nat] /\ \A i \in Identifiers : gone'[i] <= gone[i]
    BY <1>4, <1>5, <1>6
  <2> QED
    BY <1>1, <1>2, <2>1, SameRecords
<1>10. UtilitiesScored'
  BY <1>1, <1>2, ScoredStays DEF UtilitiesScored
<1> QED
  BY <1>7, <1>8, <1>9, <1>10 DEF Inv

(* The end of a process: its lists are lost, all else as it was.           *)
LEMMA StopInv ==
  ASSUME Inv, NEW c \in Clients, Stop(c)
  PROVE  Inv'
<1>1. TypeOK /\ IdentifiersFit /\ ListsStamped /\ PacketsStamped /\ UtilitiesScored
  BY DEF Inv
<1>2. /\ up' = up \ {c}
      /\ random' = [random EXCEPT ![c] = <<>>]
      /\ important' = [important EXCEPT ![c] = <<>>]
      /\ capacity' = [capacity EXCEPT ![c] = M + K]
      /\ idle' = [idle EXCEPT ![c] = 0]
      /\ UNCHANGED <<id, place, net, seed, issued, gone, settled, upsets>>
  BY DEF Stop, Silent, seeds, history
<1>3. /\ random \in [Clients -> NodeLists] /\ important \in [Clients -> NodeLists]
      /\ capacity \in [Clients -> Nat] /\ idle \in [Clients -> 0..MaxPeriod]
  BY <1>1 DEF TypeOK
<1>4. M + K \in Nat /\ (M + K) - K = M /\ M \in Nat /\ N \in Nat /\ 0 \in 0..MaxPeriod
  BY SizesAssumption, ConstantTypes
<1>5. <<>> \in NodeLists /\ Len(<<>>) = 0 /\ Range(<<>>) = {}
  BY DEF NodeLists, Range
<1>6. ASSUME NEW d \in Clients
      PROVE  /\ random'[d] = IF d = c THEN <<>> ELSE random[d]
             /\ important'[d] = IF d = c THEN <<>> ELSE important[d]
             /\ capacity'[d] = IF d = c THEN M + K ELSE capacity[d]
  BY <1>2, <1>3
<1>7. TypeOK'
  <2>1. /\ random' \in [Clients -> NodeLists] /\ important' \in [Clients -> NodeLists]
        /\ capacity' \in [Clients -> Nat] /\ idle' \in [Clients -> 0..MaxPeriod]
    BY <1>2, <1>3, <1>4, <1>5
  <2>2. \A d \in Clients : Len(random'[d]) <= N /\ Len(important'[d]) <= capacity'[d] - K
    <3> SUFFICES ASSUME NEW d \in Clients
                 PROVE  Len(random'[d]) <= N /\ Len(important'[d]) <= capacity'[d] - K
      OBVIOUS
    <3>1. Len(random[d]) <= N /\ Len(important[d]) <= capacity[d] - K
      BY <1>1 DEF TypeOK
    <3>2. CASE d = c
      <4>1. random'[d] = <<>> /\ important'[d] = <<>> /\ capacity'[d] = M + K
        BY <1>6, <3>2
      <4>2. Len(random'[d]) = 0 /\ Len(important'[d]) = 0
        BY <1>5, <4>1
      <4>3. capacity'[d] - K = M
        BY <1>4, <4>1
      <4>4. 0 <= N /\ 0 <= M
        BY <1>4
      <4> QED
        BY <4>2, <4>3, <4>4
    <3>3. CASE d # c
      BY <1>6, <3>1, <3>3
    <3> QED
      BY <3>2, <3>3
  <2>3. up' \subseteq Clients
    BY <1>1, <1>2 DEF TypeOK
  <2> QED
    BY <1>1, <1>2, <2>1, <2>2, <2>3 DEF TypeOK
<1>8. IdentifiersFit'
  BY <1>1, <1>2 DEF IdentifiersFit, Starts
<1>9. ListsStamped' /\ PacketsStamped'
  <2>1. gone' \in [Identifiers -> Nat] /\ \A i \in Identifiers : gone'[i] <= gone[i]
    BY <1>1, <1>2, HorizonType DEF TypeOK
  <2> QED
    BY <1>1, <1>2, <1>6, <2>1, SameRecords
<1>10. UtilitiesScored'
  <2> SUFFICES ASSUME NEW d \in Clients, NEW r \in Range(important'[d]) PROVE Scored(d, r)'
    BY DEF UtilitiesScored
  <2>1. d # c /\ r \in Range(important[d])
    BY <1>5, <1>6
  <2> QED
    BY <1>1, <1>2, <2>1, ScoredStays DEF UtilitiesScored
<1> QED
  BY <1>7, <1>8, <1>9, <1>10 DEF Inv

(* A move: what was scored for the old place is older than the move.       *)
LEMMA MoveInv ==
  ASSUME Inv, NEW c \in Clients, NEW p \in Places[c], Move(c, p)
  PROVE  Inv'
<1>1. TypeOK /\ IdentifiersFit /\ ListsStamped /\ PacketsStamped /\ UtilitiesScored
  BY DEF Inv
<1>2. /\ place' = [place EXCEPT ![c] = p]
      /\ settled' = [settled EXCEPT ![c] = 0]
      /\ upsets < MaxUpsets /\ upsets' = upsets + 1
      /\ UNCHANGED <<up, id, random, important, capacity, idle, net, seed, issued,
                     gone>>
  BY DEF Move, Upset, lists, seeds
<1>3. Horizon \in Nat /\ MaxUpsets \in Nat
  BY HorizonType, ConstantTypes
<1>4. TypeOK'
  <2>1. p \in UNION Range(Places)
    BY ClientsAssumption DEF Range
  <2>2. place' \in [Clients -> UNION Range(Places)] /\ settled' \in [Clients -> 0..Horizon]
    BY <1>1, <1>2, <1>3, <2>1 DEF TypeOK
  <2>3. upsets' \in 0..MaxUpsets
    BY <1>1, <1>2, <1>3 DEF TypeOK
  <2> QED
    BY <1>1, <1>2, <2>2, <2>3 DEF TypeOK
<1>5. IdentifiersFit'
  <2>1. Starts' = Starts + 1 /\ Starts \in Nat
    BY <1>1, <1>2, StartsBound DEF Starts
  <2>2. issued \in Nat /\ issued <= Starts
    BY <1>1 DEF TypeOK, IdentifiersFit
  <2>3. issued <= Starts'
    BY <2>1, <2>2
  <2> QED
    BY <1>1, <1>2, <2>3 DEF IdentifiersFit
<1>6. ListsStamped' /\ PacketsStamped'
  <2>1. gone' \in [Identifiers -> Nat] /\ \A i \in Identifiers : gone'[i] <= gone[i]
    BY <1>1, <1>2, HorizonType DEF TypeOK
  <2> QED
    BY <1>1, <1>2, <2>1, SameRecords
<1>7. UtilitiesScored'
  <2> SUFFICES ASSUME NEW d \in Clients, NEW r \in Range(important[d]) PROVE Scored(d, r)'
    BY <1>2 DEF UtilitiesScored
  <2>1. CASE d # c
    <3>1. place'[d] = place[d] /\ settled'[d] = settled[d]
      BY <1>1, <1>2, <2>1 DEF TypeOK
    <3> QED
      BY <1>1, <3>1, ScoredStays DEF UtilitiesScored
  <2>2. CASE d = c
    <3>1. settled'[d] = 0
      BY <1>1, <1>2, <2>2 DEF TypeOK
    <3>2. Stamped(r) /\ r \in Node
      BY <1>1, RangeFinite DEF ListsStamped, AllStamped, TypeOK
    <3>3. r.addr \in Clients /\ gone[r.nodeID] \in Nat /\ r.timeStamp \in Nat
      BY <1>1, <1>3, <3>2 DEF Stamped, TypeOK, Node
    <3>4. NodeMaxAge + Skew[r.addr] \in Nat
      BY <3>3, ConstantTypes
    <3>5. r.timeStamp = 0 \/ r.timeStamp + 0 <= NodeMaxAge + Skew[r.addr]
      BY <3>2, <3>3, <3>4 DEF Stamped
    <3> QED
      BY <3>1, <3>5 DEF Scored
  <2> QED
    BY <2>1, <2>2
<1> QED
  BY <1>4, <1>5, <1>6, <1>7 DEF Inv

-----------------------------------------------------------------------------
(* Packets                                                                 *)

SoundPacket(p) ==
  /\ p \in [type : Types, to : Clients, nodes : NodeLists]
  /\ p.nodes # <<>> /\ AllStamped(p.nodes)

(* The network holds what is sent and some of what was under way, and      *)
(* never more than its bound.                                              *)
LEMMA SendProperties ==
  ASSUME NEW S, IsFiniteSet(S), Cardinality(S) <= 2,
         NEW others, IsFiniteSet(others), Send(S, others)
  PROVE  /\ IsFiniteSet(net') /\ Cardinality(net') <= MaxPackets
         /\ net' \subseteq S \cup others
<1>1. PICK T \in SUBSET others :
        /\ net' = S \cup T
        /\ Cardinality(T) = MinOf(Cardinality(others), MaxPackets - Cardinality(S))
  BY DEF Send
<1>2. IsFiniteSet(T)
  BY <1>1, FS_Subset
<1>3. /\ Cardinality(S) \in Nat /\ Cardinality(T) \in Nat /\ Cardinality(others) \in Nat
  BY <1>2, FS_CardinalityType
<1>4. IsFiniteSet(S \cup T) /\ Cardinality(S \cup T) <= Cardinality(S) + Cardinality(T)
  <2>1. /\ IsFiniteSet(S \cup T)
        /\ Cardinality(S \cup T) = Cardinality(S) + Cardinality(T) - Cardinality(S \cap T)
    BY <1>2, FS_Union
  <2>2. Cardinality(S \cap T) \in Nat
    BY <1>2, FS_Subset, FS_CardinalityType
  <2>3. Cardinality(S \cup T) \in Nat
    BY <2>1, FS_CardinalityType
  <2> QED
    BY <1>3, <2>1, <2>2, <2>3
<1>5. Cardinality(T) <= MaxPackets - Cardinality(S)
  BY <1>1, <1>3, ConstantTypes DEF MinOf
<1>6. Cardinality(S \cup T) <= MaxPackets
  <2>1. Cardinality(S \cup T) \in Nat /\ MaxPackets \in Nat
    BY <1>4, FS_CardinalityType, ConstantTypes
  <2> QED
    BY <1>3, <1>4, <1>5, <2>1
<1> QED
  BY <1>1, <1>4, <1>6

(* Sound packets are sent: sound packets are under way.                    *)
LEMMA SentSound ==
  ASSUME TypeOK, PacketsStamped, gone' = gone,
         NEW S, IsFiniteSet(S), Cardinality(S) <= 2, \A p \in S : SoundPacket(p),
         NEW others \in SUBSET net, Send(S, others)
  PROVE  /\ net' \subseteq [type : Types, to : Clients, nodes : NodeLists]
         /\ Cardinality(net') <= MaxPackets
         /\ PacketsStamped'
<1>1. IsFiniteSet(others)
  BY FS_Subset DEF PacketsStamped
<1>2. /\ IsFiniteSet(net') /\ Cardinality(net') <= MaxPackets
      /\ net' \subseteq S \cup others
  BY <1>1, SendProperties
<1>3. \A p \in net : SoundPacket(p)
  BY DEF SoundPacket, PacketsStamped, TypeOK
<1>4. \A p \in net' : SoundPacket(p)
  BY <1>2, <1>3
<1>5. \A nc : AllStamped(nc) => AllStamped(nc)'
  BY DEF AllStamped, Stamped
<1> QED
  BY <1>2, <1>4, <1>5 DEF SoundPacket, PacketsStamped

-----------------------------------------------------------------------------
(* Protocol_receiveFromPeer                                                *)

(* What an update makes of the important nodes of a process.               *)
LEMMA ImportantMerged ==
  ASSUME TypeOK, ListsStamped, NEW c \in Clients,
         NEW nc \in NodeLists, AllStamped(nc),
         NEW in \in UpdatedImportantNodes(nc, important[c], capacity[c], OwnNode(c))
  PROVE  /\ in.nodes \in NodeLists /\ in.max \in Nat
         /\ Len(in.nodes) <= in.max - K
         /\ AllStamped(in.nodes)
         /\ \A r \in Range(in.nodes) :
              r \in Range(important[c]) \/ r.utility = NodeUtility(OwnNode(c), r)
<1>1. important[c] \in NodeLists /\ Len(important[c]) \in Nat
  BY DEF TypeOK, NodeLists
<1>2. capacity[c] \in Nat /\ Len(important[c]) <= capacity[c] - K
  BY DEF TypeOK
<1>3. capacity[c] >= K
  BY <1>1, <1>2, SizesAssumption
<1>4. OwnNode(c) \in Node
  BY OwnNodeType
<1>5. in.nodes \in NodeLists /\ in.max \in Nat /\ Len(in.nodes) <= in.max - K
  BY <1>1, <1>2, <1>3, <1>4, UpdatedImportantProperties
<1>6. Range(in.nodes) \subseteq Range(important[c]) \cup Range(CalculateUtility(nc, OwnNode(c)))
  BY <1>1, <1>2, <1>3, <1>4, UpdatedImportantRecords
<1>7. AllStamped(CalculateUtility(nc, OwnNode(c)))
  BY <1>4, CalculatedStamped
<1>8. AllStamped(in.nodes)
  BY <1>6, <1>7 DEF AllStamped, ListsStamped
<1>9. ASSUME NEW r \in Range(CalculateUtility(nc, OwnNode(c)))
      PROVE  r.utility = NodeUtility(OwnNode(c), r)
  <2>1. PICK q \in Range(nc) : /\ q \in Node
                               /\ r = [q EXCEPT !.utility = NodeUtility(OwnNode(c), q)]
    BY <1>4, CalculateUtilityRecords
  <2>2. /\ r.utility = NodeUtility(OwnNode(c), q)
        /\ r.pos = q.pos /\ r.coordRange = q.coordRange
    BY <2>1 DEF Node
  <2>3. NodeUtility(OwnNode(c), r) = NodeUtility(OwnNode(c), q)
    BY <2>2, UtilityOfPlace
  <2> QED
    BY <2>2, <2>3
<1> QED
  BY <1>5, <1>6, <1>8, <1>9

(* What a merge makes of the lists of all processes.                       *)
LEMMA MergeProperties ==
  ASSUME TypeOK, ListsStamped, NEW c \in Clients, NEW nc \in NodeLists, AllStamped(nc),
         MergeRandom(c, nc) \/ MergeImportant(c, nc)
  PROVE  /\ random' \in [Clients -> NodeLists] /\ important' \in [Clients -> NodeLists]
         /\ capacity' \in [Clients -> Nat]
         /\ \A d \in Clients :
              /\ Len(random'[d]) <= N /\ Len(important'[d]) <= capacity'[d] - K
              /\ AllStamped(random'[d]) /\ AllStamped(important'[d])
              /\ \A r \in Range(important'[d]) :
                   r \in Range(important[d]) \/ r.utility = NodeUtility(OwnNode(d), r)
<1>1. /\ random \in [Clients -> NodeLists] /\ important \in [Clients -> NodeLists]
      /\ capacity \in [Clients -> Nat]
      /\ \A d \in Clients :
           /\ Len(random[d]) <= N /\ Len(important[d]) <= capacity[d] - K
           /\ AllStamped(random[d]) /\ AllStamped(important[d])
  BY DEF TypeOK, ListsStamped
<1>2. PICK rn \in NodeLists, mc \in NodeLists :
        /\ Len(rn) <= N /\ AllStamped(rn) /\ AllStamped(mc)
        /\ random' = [random EXCEPT ![c] = rn]
        /\ \E in \in UpdatedImportantNodes(mc, important[c], capacity[c], OwnNode(c)) :
             /\ important' = [important EXCEPT ![c] = in.nodes]
             /\ capacity' = [capacity EXCEPT ![c] = in.max]
  <2>1. CASE MergeRandom(c, nc)
    <3>1. PICK rn \in UpdatedRandomNodes(nc, random[c], id[c]) :
            \E in \in UpdatedImportantNodes(rn, important[c], capacity[c], OwnNode(c)) :
              /\ random' = [random EXCEPT ![c] = rn]
              /\ important' = [important EXCEPT ![c] = in.nodes]
              /\ capacity' = [capacity EXCEPT ![c] = in.max]
      BY <2>1 DEF MergeRandom
    <3>2. /\ rn \in NodeLists /\ Len(rn) <= N
          /\ Range(rn) \subseteq Range(random[c]) \cup {r \in Range(nc) : r.nodeID # id[c]}
      BY <1>1, UpdatedRandomProperties
    <3>3. AllStamped(rn)
      BY <1>1, <3>2 DEF AllStamped
    <3> QED
      BY <3>1, <3>2, <3>3
  <2>2. CASE MergeImportant(c, nc)
    <3>1. random' = [random EXCEPT ![c] = random[c]]
      BY <1>1, <2>2 DEF MergeImportant
    <3> QED
      BY <1>1, <2>2, <3>1 DEF MergeImportant
  <2> QED
    BY <2>1, <2>2
<1>3. PICK in \in UpdatedImportantNodes(mc, important[c], capacity[c], OwnNode(c)) :
        /\ important' = [important EXCEPT ![c] = in.nodes]
        /\ capacity' = [capacity EXCEPT ![c] = in.max]
  BY <1>2
<1>4. /\ in.nodes \in NodeLists /\ in.max \in Nat
      /\ Len(in.nodes) <= in.max - K
      /\ AllStamped(in.nodes)
      /\ \A r \in Range(in.nodes) :
           r \in Range(important[c]) \/ r.utility = NodeUtility(OwnNode(c), r)
  BY <1>2, ImportantMerged
<1>5. /\ random' \in [Clients -> NodeLists] /\ important' \in [Clients -> NodeLists]
      /\ capacity' \in [Clients -> Nat]
  BY <1>1, <1>2, <1>3, <1>4
<1>6. ASSUME NEW d \in Clients
      PROVE  /\ Len(random'[d]) <= N /\ Len(important'[d]) <= capacity'[d] - K
             /\ AllStamped(random'[d]) /\ AllStamped(important'[d])
             /\ \A r \in Range(important'[d]) :
                  r \in Range(important[d]) \/ r.utility = NodeUtility(OwnNode(d), r)
  <2>1. CASE d = c
    <3>1. random'[d] = rn /\ important'[d] = in.nodes /\ capacity'[d] = in.max
      BY <1>1, <1>2, <1>3, <2>1
    <3> QED
      BY <1>2, <1>4, <2>1, <3>1
  <2>2. CASE d # c
    <3>1. random'[d] = random[d] /\ important'[d] = important[d] /\ capacity'[d] = capacity[d]
      BY <1>1, <1>2, <1>3, <2>2
    <3> QED
      BY <1>1, <3>1
  <2> QED
    BY <2>1, <2>2
<1> QED
  BY <1>5, <1>6

(* A list of one sound packet, or of none.                                 *)
LEMMA AtMostOne ==
  ASSUME NEW S, S = {} \/ \E q : S = {q}
  PROVE  IsFiniteSet(S) /\ Cardinality(S) \in Nat /\ Cardinality(S) <= 1
<1>1. CASE S = {}
  BY <1>1, FS_EmptySet
<1>2. CASE \E q : S = {q}
  BY <1>2, FS_Singleton
<1> QED
  BY <1>1, <1>2

(* The first record of a packet names a process to answer.                 *)
LEMMA AskerType ==
  ASSUME TypeOK, PacketsStamped, NEW p \in net
  PROVE  /\ p.nodes[1] \in Node /\ Stamped(p.nodes[1]) /\ p.nodes[1].addr \in Clients
         /\ p.type \in Types /\ p.nodes \in NodeLists /\ AllStamped(p.nodes)
<1>1. /\ p.type \in Types /\ p.nodes \in NodeLists
      /\ p.nodes # <<>> /\ AllStamped(p.nodes)
  BY DEF TypeOK, PacketsStamped
<1>2. 1 \in DOMAIN p.nodes /\ p.nodes[1] \in Node
  BY <1>1 DEF NodeLists
<1>3. Stamped(p.nodes[1])
  BY <1>1, <1>2 DEF AllStamped, Range
<1> QED
  BY <1>1, <1>2, <1>3 DEF Stamped

(* An answer goes to a process and holds stamped records only.             *)
LEMMA RepliesSound ==
  ASSUME TypeOK, IdentifiersFit, ListsStamped, PacketsStamped,
         NEW c \in up, NEW p \in net, NEW S \in Replies(c, p)
  PROVE  IsFiniteSet(S) /\ Cardinality(S) <= 2 /\ \A q \in S : SoundPacket(q)
<1> DEFINE asker == p.nodes[1]
<1>1. asker \in Node /\ asker.addr \in Clients
  BY AskerType
<1>2. /\ c \in Clients /\ random[c] \in NodeLists /\ important[c] \in NodeLists
      /\ AllStamped(random[c]) /\ AllStamped(important[c])
  BY DEF TypeOK, ListsStamped
<1>3. "RND_NOREQ" \in Types /\ "IMP_NOREQ" \in Types
  BY DEF Types
<1>4. S = {} \/ \E q : S = {q} /\ SoundPacket(q)
  <2>1. CASE p.type = "RND_REQ"
    <3>1. S = {Packet("RND_NOREQ", asker.addr, RandomPayload(random[c], OwnNode(c)))}
      BY <2>1 DEF Replies
    <3> HIDE DEF asker
    <3>2. SoundPacket(Packet("RND_NOREQ", asker.addr, RandomPayload(random[c], OwnNode(c))))
      BY <1>1, <1>2, <1>3, RandomPacket DEF SoundPacket
    <3> QED
      BY <3>1, <3>2
  <2>2. CASE p.type = "IMP_REQ"
    <3>1. PICK payload \in ImportantPayloads(important[c], OwnNode(c), asker) :
            S = {Packet("IMP_NOREQ", asker.addr, payload)}
      BY <2>2 DEF Replies
    <3> HIDE DEF asker
    <3>2. SoundPacket(Packet("IMP_NOREQ", asker.addr, payload))
      BY <1>1, <1>2, <1>3, ImportantPacket DEF SoundPacket
    <3> QED
      BY <3>1, <3>2
  <2>3. CASE p.type # "RND_REQ" /\ p.type # "IMP_REQ"
    BY <2>3 DEF Replies
  <2> QED
    BY <2>1, <2>2, <2>3
<1>5. IsFiniteSet(S) /\ Cardinality(S) \in Nat /\ Cardinality(S) <= 1
  BY <1>4, AtMostOne
<1>6. Cardinality(S) <= 2
  BY <1>5
<1> QED
  BY <1>4, <1>5, <1>6

(* A packet is delivered: what the merge keeps was stamped before.         *)
LEMMA ReceiveInv ==
  ASSUME Inv, NEW c \in Clients, NEW p \in net, Receive(c, p)
  PROVE  Inv'
<1>1. TypeOK /\ IdentifiersFit /\ ListsStamped /\ PacketsStamped /\ UtilitiesScored
  BY DEF Inv
<1>2. /\ c \in up
      /\ MergeRandom(c, p.nodes) \/ MergeImportant(c, p.nodes)
      /\ UNCHANGED <<up, id, place, idle, seed, issued, gone, settled, upsets>>
  BY DEF Receive, seeds, history
<1>3. PICK reply \in Replies(c, p), others \in {net, net \ {p}} : Send(reply, others)
  BY DEF Receive
<1>4. /\ random' \in [Clients -> NodeLists] /\ important' \in [Clients -> NodeLists]
      /\ capacity' \in [Clients -> Nat]
      /\ \A d \in Clients :
           /\ Len(random'[d]) <= N /\ Len(important'[d]) <= capacity'[d] - K
           /\ AllStamped(random'[d]) /\ AllStamped(important'[d])
           /\ \A r \in Range(important'[d]) :
                r \in Range(important[d]) \/ r.utility = NodeUtility(OwnNode(d), r)
  BY <1>1, <1>2, AskerType, MergeProperties
<1>5. /\ net' \subseteq [type : Types, to : Clients, nodes : NodeLists]
      /\ Cardinality(net') <= MaxPackets
      /\ PacketsStamped'
  <2>1. others \in SUBSET net /\ gone' = gone
    BY <1>2, <1>3
  <2>2. IsFiniteSet(reply) /\ Cardinality(reply) <= 2 /\ \A q \in reply : SoundPacket(q)
    BY <1>1, <1>2, RepliesSound
  <2> QED
    BY <1>1, <1>3, <2>1, <2>2, SentSound
<1>6. TypeOK'
  BY <1>1, <1>2, <1>4, <1>5 DEF TypeOK
<1>7. IdentifiersFit'
  BY <1>1, <1>2 DEF IdentifiersFit, Starts
<1>8. ListsStamped'
  <2>1. \A nc : AllStamped(nc) => AllStamped(nc)'
    BY <1>2 DEF AllStamped, Stamped
  <2> QED
    BY <1>2, <1>4 DEF ListsStamped, AllStamped, Stamped
<1>9. UtilitiesScored'
  <2> SUFFICES ASSUME NEW d \in Clients, NEW r \in Range(important'[d]) PROVE Scored(d, r)'
    BY DEF UtilitiesScored
  <2>1. place'[d] = place[d] /\ settled'[d] = settled[d]
    BY <1>2
  <2>2. Scored(d, r)
    BY <1>1, <1>4 DEF UtilitiesScored, Scored
  <2> QED
    BY <2>1, <2>2, ScoredStays
<1> QED
  BY <1>5, <1>6, <1>7, <1>8, <1>9 DEF Inv

-----------------------------------------------------------------------------
(* Protocol_timeout                                                        *)

(* The requests of a cleanup, from lists that have been cleaned.           *)
LEMMA RandomRequestsSound ==
  ASSUME TypeOK, IdentifiersFit, NEW c \in up, NEW rn \in NodeLists, AllStamped(rn),
         NEW S \in RandomRequests(c, rn)
  PROVE  \E q : S = {q} /\ SoundPacket(q)
<1>1. c \in Clients /\ Origin[c] \in Clients /\ "RND_REQ" \in Types
  BY ConstantTypes DEF TypeOK, Types
<1>2. CASE PeerChoices(rn, id[c]) = {}
  <2>1. S = {Packet("RND_REQ", Origin[c], <<OwnNode(c)>>)}
    BY <1>2 DEF RandomRequests
  <2>2. OwnNode(c) \in Node /\ Stamped(OwnNode(c))
    BY OwnNodeStamped
  <2> DEFINE own == OwnNode(c)
  <2> HIDE DEF own
  <2>3. /\ <<own>> \in Seq({own}) /\ Len(<<own>>) = 1 /\ <<own>> # <<>>
        /\ Range(<<own>>) = {own}
    BY DEF Range
  <2>4. <<OwnNode(c)>> \in NodeLists /\ <<OwnNode(c)>> # <<>> /\ AllStamped(<<OwnNode(c)>>)
    BY <2>2, <2>3 DEF own, NodeLists, AllStamped
  <2>5. SoundPacket(Packet("RND_REQ", Origin[c], <<OwnNode(c)>>))
    BY <1>1, <2>4, PacketStamped DEF SoundPacket
  <2> QED
    BY <2>1, <2>5
<1>3. CASE PeerChoices(rn, id[c]) # {}
  <2>1. PICK peer \in PeerChoices(rn, id[c]) :
          S = {Packet("RND_REQ", peer.addr, RandomPayload(rn, OwnNode(c)))}
    BY <1>3 DEF RandomRequests
  <2>2. peer.addr \in Clients
    BY DEF PeerChoices, AllStamped, Stamped
  <2>3. SoundPacket(Packet("RND_REQ", peer.addr, RandomPayload(rn, OwnNode(c))))
    BY <1>1, <2>2, RandomPacket DEF SoundPacket
  <2> QED
    BY <2>1, <2>3
<1> QED
  BY <1>2, <1>3

(* The request to an important peer, if there is one.                      *)
LEMMA ImportantRequestsSound ==
  ASSUME TypeOK, IdentifiersFit, NEW c \in up, NEW in \in NodeLists, AllStamped(in),
         NEW S \in ImportantRequests(c, in)
  PROVE  S = {} \/ \E q : S = {q} /\ SoundPacket(q)
<1>1. CASE ImportantChoices(in, id[c]) = {}
  BY <1>1 DEF ImportantRequests
<1>2. CASE ImportantChoices(in, id[c]) # {}
  <2>1. PICK peer \in ImportantChoices(in, id[c]) :
          S \in {{Packet("IMP_REQ", peer.addr, payload)} :
                   payload \in ImportantPayloads(in, OwnNode(c), peer)}
    BY <1>2 DEF ImportantRequests
  <2>2. PICK payload \in ImportantPayloads(in, OwnNode(c), peer) :
          S = {Packet("IMP_REQ", peer.addr, payload)}
    BY <2>1
  <2>3. peer \in Range(in) /\ peer \in Node
    <3>1. PICK i \in 1..ImportantRange(in) : peer = in[i]
      BY DEF ImportantChoices
    <3>2. /\ ImportantRange(in) \in Nat /\ ImportantRange(in) <= Len(in)
          /\ Len(in) \in Nat /\ DOMAIN in = 1..Len(in)
      BY ImportantRangeBound DEF NodeLists
    <3>3. i \in DOMAIN in
      BY <3>1, <3>2
    <3>4. peer \in Range(in)
      BY <3>1, <3>3 DEF Range
    <3> QED
      BY <3>4, RangeFinite
  <2>4. peer.addr \in Clients /\ "IMP_REQ" \in Types
    BY <2>3 DEF AllStamped, Stamped, Types
  <2>5. SoundPacket(Packet("IMP_REQ", peer.addr, payload))
    BY <2>3, <2>4, ImportantPacket DEF SoundPacket
  <2> QED
    BY <2>2, <2>5
<1> QED
  BY <1>1, <1>2

(* What a cleanup leaves and sends.                                        *)
LEMMA CleanupProperties ==
  ASSUME Inv, NEW c \in Clients, Cleanup(c)
  PROVE  \E rn \in NodeLists, in \in NodeLists :
           /\ random' = [random EXCEPT ![c] = rn]
           /\ important' = [important EXCEPT ![c] = in]
           /\ Len(rn) <= Len(random[c]) /\ Len(in) <= Len(important[c])
           /\ Range(rn) \subseteq Range(random[c])
           /\ Range(in) \subseteq Range(important[c])
           /\ \A r \in Range(rn) \cup Range(in) : r.timeStamp > Clock(c) - NodeMaxAge
           /\ \E rq \in RandomRequests(c, rn), iq \in ImportantRequests(c, in) :
                Send(rq \cup iq, net)
<1>1. random[c] \in NodeLists /\ important[c] \in NodeLists
  BY DEF Inv, TypeOK
<1>2. PICK rn \in SortedBy(Unexpired(random[c], Clock(c), NodeMaxAge), "nodeID"),
           in \in SortedBy(Unexpired(important[c], Clock(c), NodeMaxAge), "utility") :
       /\ random' = [random EXCEPT ![c] = rn]
       /\ important' = [important EXCEPT ![c] = in]
       /\ \E rq \in RandomRequests(c, rn), iq \in ImportantRequests(c, in) :
            Send(rq \cup iq, net)
  BY DEF Cleanup
<1>3. /\ rn \in NodeLists /\ Len(rn) <= Len(random[c])
      /\ Range(rn) \subseteq Range(random[c])
      /\ \A r \in Range(rn) : r.timeStamp > Clock(c) - NodeMaxAge
  BY <1>1, CleanedProperties
<1>4. /\ in \in NodeLists /\ Len(in) <= Len(important[c])
      /\ Range(in) \subseteq Range(important[c])
      /\ \A r \in Range(in) : r.timeStamp > Clock(c) - NodeMaxAge
  BY <1>1, CleanedProperties
<1> QED
  BY <1>2, <1>3, <1>4

(* A cleanup: it only removes records, and sends stamped ones.             *)
LEMMA CleanupInv ==
  ASSUME Inv, NEW c \in Clients, Cleanup(c)
  PROVE  Inv'
<1>1. TypeOK /\ IdentifiersFit /\ ListsStamped /\ PacketsStamped /\ UtilitiesScored
  BY DEF Inv
<1>2. /\ c \in up /\ idle' = [idle EXCEPT ![c] = 0]
      /\ UNCHANGED <<up, id, place, capacity, seed, issued, gone, settled, upsets>>
  BY DEF Cleanup, seeds, history
<1>3. PICK rn \in NodeLists, in \in NodeLists :
           /\ random' = [random EXCEPT ![c] = rn]
           /\ important' = [important EXCEPT ![c] = in]
           /\ Len(rn) <= Len(random[c]) /\ Len(in) <= Len(important[c])
           /\ Range(rn) \subseteq Range(random[c])
           /\ Range(in) \subseteq Range(important[c])
           /\ \E rq \in RandomRequests(c, rn), iq \in ImportantRequests(c, in) :
                Send(rq \cup iq, net)
  BY CleanupProperties
<1>4. /\ random \in [Clients -> NodeLists] /\ important \in [Clients -> NodeLists]
      /\ capacity \in [Clients -> Nat] /\ idle \in [Clients -> 0..MaxPeriod]
      /\ \A d \in Clients :
           /\ Len(random[d]) <= N /\ Len(important[d]) <= capacity[d] - K
           /\ AllStamped(random[d]) /\ AllStamped(important[d])
  BY <1>1 DEF TypeOK, ListsStamped
<1>5. AllStamped(rn) /\ AllStamped(in)
  BY <1>3, <1>4 DEF AllStamped
<1>6. ASSUME NEW d \in Clients
      PROVE  /\ random'[d] = IF d = c THEN rn ELSE random[d]
             /\ important'[d] = IF d = c THEN in ELSE important[d]
  BY <1>3, <1>4
<1>7. /\ net' \subseteq [type : Types, to : Clients, nodes : NodeLists]
      /\ Cardinality(net') <= MaxPackets
      /\ PacketsStamped'
  <2>1. PICK rq \in RandomRequests(c, rn), iq \in ImportantRequests(c, in) :
          Send(rq \cup iq, net)
    BY <1>3
  <2>2. \E q : rq = {q} /\ SoundPacket(q)
    BY <1>1, <1>2, <1>5, RandomRequestsSound
  <2>3. iq = {} \/ \E q : iq = {q} /\ SoundPacket(q)
    BY <1>1, <1>2, <1>5, ImportantRequestsSound
  <2>4. /\ IsFiniteSet(rq) /\ Cardinality(rq) \in Nat /\ Cardinality(rq) <= 1
        /\ IsFiniteSet(iq) /\ Cardinality(iq) \in Nat /\ Cardinality(iq) <= 1
    BY <2>2, <2>3, AtMostOne
  <2>5. IsFiniteSet(rq \cup iq) /\ Cardinality(rq \cup iq) <= 2
    <3>1. /\ IsFiniteSet(rq \cup iq)
          /\ Cardinality(rq \cup iq)
               = Cardinality(rq) + Cardinality(iq) - Cardinality(rq \cap iq)
      BY <2>4, FS_Union
    <3>2. Cardinality(rq \cap iq) \in Nat
      BY <2>4, FS_Subset, FS_CardinalityType
    <3> QED
      BY <2>4, <3>1, <3>2
  <2>6. \A q \in rq \cup iq : SoundPacket(q)
    BY <2>2, <2>3
  <2>7. net \in SUBSET net /\ gone' = gone
    BY <1>2
  <2> QED
    BY <1>1, <2>1, <2>5, <2>6, <2>7, SentSound
<1>8. TypeOK'
  <2>1. random' \in [Clients -> NodeLists] /\ important' \in [Clients -> NodeLists]
    BY <1>3, <1>4
  <2>2. idle' \in [Clients -> 0..MaxPeriod]
    BY <1>2, <1>4, ConstantTypes
  <2>3. ASSUME NEW d \in Clients
        PROVE  Len(random'[d]) <= N /\ Len(important'[d]) <= capacity[d] - K
    <3>1. CASE d = c
      <4>1. /\ Len(rn) \in Nat /\ Len(in) \in Nat
            /\ Len(random[c]) \in Nat /\ Len(important[c]) \in Nat
            /\ capacity[c] \in Nat /\ N \in Nat /\ K \in Nat
        BY <1>4, SizesAssumption DEF NodeLists
      <4>2. Len(rn) <= N /\ Len(in) <= capacity[c] - K
        BY <1>3, <1>4, <4>1
      <4> QED
        BY <1>6, <3>1, <4>2
    <3>2. CASE d # c
      BY <1>4, <1>6, <3>2
    <3> QED
      BY <3>1, <3>2
  <2> QED
    BY <1>1, <1>2, <1>7, <2>1, <2>2, <2>3 DEF TypeOK
<1>9. IdentifiersFit'
  BY <1>1, <1>2 DEF IdentifiersFit, Starts
<1>10. ListsStamped'
  <2>1. \A d \in Clients : AllStamped(random'[d]) /\ AllStamped(important'[d])
    BY <1>4, <1>5, <1>6
  <2> QED
    BY <1>2, <2>1 DEF ListsStamped, AllStamped, Stamped
<1>11. UtilitiesScored'
  <2> SUFFICES ASSUME NEW d \in Clients, NEW r \in Range(important'[d]) PROVE Scored(d, r)'
    BY DEF UtilitiesScored
  <2>1. r \in Range(important[d])
    BY <1>3, <1>6
  <2> QED
    BY <1>1, <1>2, <2>1, ScoredStays DEF UtilitiesScored
<1> QED
  BY <1>7, <1>8, <1>9, <1>10, <1>11 DEF Inv

-----------------------------------------------------------------------------
(* A second passes                                                         *)

(* Every time stamp falls by a second, or stays at 0.                      *)
LEMMA OlderProperties ==
  ASSUME NEW nc \in NodeLists
  PROVE  /\ Older(nc) \in NodeLists /\ Len(Older(nc)) = Len(nc)
         /\ \A r \in Range(Older(nc)) : \E q \in Range(nc) :
              /\ q \in Node
              /\ r = [q EXCEPT !.timeStamp = MaxOf(0, q.timeStamp - 1)]
<1>1. /\ DOMAIN nc = 1..Len(nc) /\ Len(nc) \in Nat
      /\ \A i \in 1..Len(nc) : nc[i] \in Node
  BY DEF NodeLists
<1>2. ASSUME NEW i \in 1..Len(nc)
      PROVE  /\ Older(nc)[i] = [nc[i] EXCEPT !.timeStamp = MaxOf(0, nc[i].timeStamp - 1)]
             /\ Older(nc)[i] \in Node
  <2>1. Older(nc)[i] = [nc[i] EXCEPT !.timeStamp = MaxOf(0, nc[i].timeStamp - 1)]
    BY <1>1 DEF Older
  <2>2. nc[i] \in Node /\ nc[i].timeStamp \in Nat
    BY <1>1 DEF Node
  <2>3. MaxOf(0, nc[i].timeStamp - 1) \in Nat
    BY <2>2 DEF MaxOf
  <2> QED
    BY <2>1, <2>2, <2>3 DEF Node
<1>3. DOMAIN Older(nc) = 1..Len(nc) /\ Older(nc) \in [1..Len(nc) -> Node]
  BY <1>1, <1>2 DEF Older
<1>4. Older(nc) \in NodeLists /\ Len(Older(nc)) = Len(nc)
  BY <1>1, <1>3 DEF NodeLists
<1>5. ASSUME NEW r \in Range(Older(nc))
      PROVE  \E q \in Range(nc) :
               /\ q \in Node
               /\ r = [q EXCEPT !.timeStamp = MaxOf(0, q.timeStamp - 1)]
  <2>1. PICK i \in 1..Len(nc) : r = Older(nc)[i]
    BY <1>3 DEF Range
  <2>2. nc[i] \in Range(nc) /\ nc[i] \in Node
    BY <1>1 DEF Range
  <2> QED
    BY <1>2, <2>1, <2>2
<1> QED
  BY <1>4, <1>5

(* A stamp and what it is compared with move apart by at most a second.    *)
LEMMA Apart ==
  ASSUME NEW stamp \in Nat, NEW since \in Nat, NEW since2 \in Nat, NEW bound \in Nat,
         since2 <= since + 1, stamp = 0 \/ stamp + since <= bound
  PROVE  MaxOf(0, stamp - 1) = 0 \/ MaxOf(0, stamp - 1) + since2 <= bound
<1>1. CASE stamp <= 1
  <2>1. ~(0 > stamp - 1) => stamp - 1 = 0
    BY <1>1
  <2> QED
    BY <2>1 DEF MaxOf
<1>2. CASE ~(stamp <= 1)
  <2>1. ~(0 > stamp - 1)
    BY <1>2
  <2>2. MaxOf(0, stamp - 1) = stamp - 1
    BY <2>1 DEF MaxOf
  <2>3. (stamp - 1) + since2 <= bound
    BY <1>2
  <2> QED
    BY <2>2, <2>3
<1> QED
  BY <1>1, <1>2

(* The histories count a second more, or begin anew.                       *)
LEMMA TickHistory ==
  ASSUME TypeOK, Tick
  PROVE  /\ gone' \in [Identifiers -> 0..Horizon] /\ settled' \in [Clients -> 0..Horizon]
         /\ \A i \in Identifiers : gone'[i] <= gone[i] + 1
         /\ \A c \in Clients : settled'[c] <= settled[c] + 1
         /\ \A c \in up : id[c] \in Identifiers => gone'[id[c]] = 0
<1>1. Horizon \in Nat
  BY HorizonType
<1>2. gone \in [Identifiers -> 0..Horizon] /\ settled \in [Clients -> 0..Horizon]
  BY DEF TypeOK
<1>3. /\ gone' = [i \in Identifiers |->
                    IF \E c \in up : id[c] = i THEN 0 ELSE MinOf(Horizon, gone[i] + 1)]
      /\ settled' = [c \in Clients |-> MinOf(Horizon, settled[c] + 1)]
  BY DEF Tick
<1>4. ASSUME NEW s \in 0..Horizon
      PROVE  MinOf(Horizon, s + 1) \in 0..Horizon /\ MinOf(Horizon, s + 1) <= s + 1
  <2>1. s \in Nat /\ s <= Horizon
    BY <1>1
  <2>2. CASE Horizon < s + 1
    <3>1. MinOf(Horizon, s + 1) = Horizon
      BY <2>2 DEF MinOf
    <3> QED
      BY <1>1, <2>1, <2>2, <3>1
  <2>3. CASE ~(Horizon < s + 1)
    <3>1. MinOf(Horizon, s + 1) = s + 1
      BY <2>3 DEF MinOf
    <3> QED
      BY <1>1, <2>1, <2>3, <3>1
  <2> QED
    BY <2>2, <2>3
<1>5. 0 \in 0..Horizon
  BY <1>1
<1>6. ASSUME NEW i \in Identifiers
      PROVE  gone'[i] \in 0..Horizon /\ gone'[i] <= gone[i] + 1
  <2>1. gone[i] \in 0..Horizon
    BY <1>2
  <2>2. CASE \E c \in up : id[c] = i
    <3>1. gone'[i] = 0
      BY <1>3, <2>2
    <3>2. 0 <= gone[i] + 1
      BY <1>1, <2>1
    <3> QED
      BY <1>5, <3>1, <3>2
  <2>3. CASE ~(\E c \in up : id[c] = i)
    <3>1. gone'[i] = MinOf(Horizon, gone[i] + 1)
      BY <1>3, <2>3
    <3> QED
      BY <1>4, <2>1, <3>1
  <2> QED
    BY <2>2, <2>3
<1>7. ASSUME NEW c \in Clients
      PROVE  settled'[c] \in 0..Horizon /\ settled'[c] <= settled[c] + 1
  BY <1>2, <1>3, <1>4
<1>8. gone' \in [Identifiers -> 0..Horizon] /\ settled' \in [Clients -> 0..Horizon]
  BY <1>3, <1>6, <1>7
<1>9. \A c \in up : id[c] \in Identifiers => gone'[id[c]] = 0
  BY <1>3
<1> QED
  BY <1>6, <1>7, <1>8, <1>9

(* What was stamped is stamped a second later.                             *)
LEMMA OlderStamped ==
  ASSUME TypeOK, Tick, NEW nc \in NodeLists, AllStamped(nc)
  PROVE  \A r \in Range(Older(nc)) : Stamped(r)'
<1> SUFFICES ASSUME NEW r \in Range(Older(nc)) PROVE Stamped(r)'
  OBVIOUS
<1>1. PICK q \in Range(nc) : /\ q \in Node
                             /\ r = [q EXCEPT !.timeStamp = MaxOf(0, q.timeStamp - 1)]
  BY OlderProperties
<1>2. /\ r.addr = q.addr /\ r.nodeID = q.nodeID
      /\ r.timeStamp = MaxOf(0, q.timeStamp - 1) /\ q.timeStamp \in Nat
  BY <1>1 DEF Node
<1>3. /\ q.addr \in Clients /\ q.nodeID \in Identifiers
      /\ q.timeStamp = 0 \/ q.timeStamp + gone[q.nodeID] <= NodeMaxAge + Skew[q.addr]
  BY DEF AllStamped, Stamped
<1>4. /\ gone[q.nodeID] \in Nat /\ gone'[q.nodeID] \in Nat
      /\ gone'[q.nodeID] <= gone[q.nodeID] + 1
  <2>1. /\ gone' \in [Identifiers -> 0..Horizon]
        /\ \A i \in Identifiers : gone'[i] <= gone[i] + 1
    BY TickHistory
  <2>2. gone \in [Identifiers -> 0..Horizon] /\ Horizon \in Nat
    BY HorizonType DEF TypeOK
  <2>3. q.nodeID \in Identifiers
    BY <1>3
  <2> QED
    BY <2>1, <2>2, <2>3
<1>5. NodeMaxAge + Skew[q.addr] \in Nat
  BY <1>3, ConstantTypes
<1>6. \/ r.timeStamp = 0
      \/ r.timeStamp + gone'[q.nodeID] <= NodeMaxAge + Skew[q.addr]
  BY <1>2, <1>3, <1>4, <1>5, Apart
<1> QED
  BY <1>2, <1>3, <1>6 DEF Stamped

(* What was scored is scored a second later.                               *)
LEMMA OlderScored ==
  ASSUME TypeOK, Tick, NEW c \in Clients, NEW nc \in NodeLists, AllStamped(nc),
         \A q \in Range(nc) : Scored(c, q), NEW r \in Range(Older(nc))
  PROVE  Scored(c, r)'
<1>1. PICK q \in Range(nc) : /\ q \in Node
                             /\ r = [q EXCEPT !.timeStamp = MaxOf(0, q.timeStamp - 1)]
  BY OlderProperties
<1>2. /\ r.addr = q.addr /\ r.pos = q.pos /\ r.coordRange = q.coordRange
      /\ r.utility = q.utility
      /\ r.timeStamp = MaxOf(0, q.timeStamp - 1) /\ q.timeStamp \in Nat
  BY <1>1 DEF Node
<1>3. q.addr \in Clients
  BY DEF AllStamped, Stamped
<1>4. \/ q.utility = NodeUtility(OwnNode(c), q)
      \/ q.timeStamp = 0
      \/ q.timeStamp + settled[c] <= NodeMaxAge + Skew[q.addr]
  BY DEF Scored
<1>5. place' = place
  BY DEF Tick
<1>6. CASE q.utility = NodeUtility(OwnNode(c), q)
  <2>1. /\ OwnNode(c)'.pos = OwnNode(c).pos
        /\ OwnNode(c)'.coordRange = OwnNode(c).coordRange
    BY <1>5 DEF OwnNode, NewNode
  <2>2. NodeUtility(OwnNode(c)', r) = NodeUtility(OwnNode(c), q)
    BY <1>2, <2>1, UtilityOfPlace
  <2>3. NodeUtility(OwnNode(c), r)' = NodeUtility(OwnNode(c)', r)
    BY DEF NodeUtility
  <2> QED
    BY <1>2, <1>6, <2>2, <2>3 DEF Scored
<1>7. CASE q.timeStamp = 0 \/ q.timeStamp + settled[c] <= NodeMaxAge + Skew[q.addr]
  <2>1. /\ settled[c] \in Nat /\ settled'[c] \in Nat
        /\ settled'[c] <= settled[c] + 1
    <3>1. settled \in [Clients -> 0..Horizon] /\ Horizon \in Nat
      BY HorizonType DEF TypeOK
    <3>2. settled' \in [Clients -> 0..Horizon] /\ settled'[c] <= settled[c] + 1
      BY TickHistory
    <3> QED
      BY <3>1, <3>2
  <2>2. NodeMaxAge + Skew[q.addr] \in Nat
    BY <1>3, ConstantTypes
  <2>3. \/ r.timeStamp = 0
        \/ r.timeStamp + settled'[c] <= NodeMaxAge + Skew[q.addr]
    BY <1>2, <1>7, <2>1, <2>2, Apart
  <2> QED
    BY <1>2, <2>3 DEF Scored
<1> QED
  BY <1>4, <1>6, <1>7

(* Some packets are lost, the others grow older.                           *)
LEMMA TickPackets ==
  ASSUME TypeOK, PacketsStamped, Tick
  PROVE  /\ net' \subseteq [type : Types, to : Clients, nodes : NodeLists]
         /\ Cardinality(net') <= MaxPackets
         /\ PacketsStamped'
<1> DEFINE S == {q \in net : Age(q) < MaxDelay}
           older(p) == [p EXCEPT !.nodes = Older(p.nodes)]
           f == [p \in S |-> older(p)]
<1>1. net' = {older(p) : p \in S}
  BY DEF Tick
<1>2. S \subseteq net /\ IsFiniteSet(net) /\ Cardinality(net) <= MaxPackets
  BY DEF PacketsStamped, TypeOK
<1>3. f \in Surjection(S, net')
  BY <1>1 DEF Surjection
<1>4. ASSUME NEW p \in net
      PROVE  /\ older(p) \in [type : Types, to : Clients, nodes : NodeLists]
             /\ older(p).nodes # <<>>
             /\ \A r \in Range(older(p).nodes) : Stamped(r)'
  <2>1. /\ p \in [type : Types, to : Clients, nodes : NodeLists]
        /\ p.nodes \in NodeLists /\ p.nodes # <<>> /\ AllStamped(p.nodes)
    BY DEF PacketsStamped, TypeOK
  <2>2. Older(p.nodes) \in NodeLists /\ Len(Older(p.nodes)) = Len(p.nodes)
    BY <2>1, OlderProperties
  <2>3. Older(p.nodes) # <<>>
    BY <2>1, <2>2 DEF NodeLists
  <2>4. \A r \in Range(Older(p.nodes)) : Stamped(r)'
    BY <2>1, OlderStamped
  <2>5. older(p).nodes = Older(p.nodes)
    BY <2>1
  <2>6. older(p) \in [type : Types, to : Clients, nodes : NodeLists]
    BY <2>1, <2>2
  <2> QED
    BY <2>3, <2>4, <2>5, <2>6
<1> HIDE DEF S, f
<1>5. IsFiniteSet(S) /\ Cardinality(S) <= Cardinality(net)
  BY <1>2, FS_Subset
<1>6. IsFiniteSet(net') /\ Cardinality(net') <= Cardinality(S)
  BY <1>3, <1>5, FS_Surjection
<1>7. Cardinality(net') <= MaxPackets
  <2>1. /\ Cardinality(net') \in Nat /\ Cardinality(S) \in Nat
        /\ Cardinality(net) \in Nat /\ MaxPackets \in Nat
    BY <1>2, <1>5, <1>6, FS_CardinalityType, ConstantTypes
  <2> QED
    BY <1>2, <1>5, <1>6, <2>1
<1>8. net' \subseteq [type : Types, to : Clients, nodes : NodeLists]
  BY <1>1, <1>2, <1>4
<1>9. \A p \in net' : p.nodes # <<>> /\ \A r \in Range(p.nodes) : Stamped(r)'
  BY <1>1, <1>2, <1>4
<1> QED
  BY <1>6, <1>7, <1>8, <1>9 DEF PacketsStamped, AllStamped

(* A second passes: all that is compared moves by the same second.         *)
LEMMA TickInv ==
  ASSUME Inv, Tick
  PROVE  Inv'
<1>1. TypeOK /\ IdentifiersFit /\ ListsStamped /\ PacketsStamped /\ UtilitiesScored
  BY DEF Inv
<1>2. /\ \A c \in up : idle[c] < MaxPeriod
      /\ random' = [c \in Clients |-> Older(random[c])]
      /\ important' = [c \in Clients |-> Older(important[c])]
      /\ idle' = [c \in Clients |-> IF c \in up THEN idle[c] + 1 ELSE 0]
      /\ seed' = [s \in 0..MaxSkew |-> IF s < MaxSkew THEN seed[s + 1] ELSE 0]
      /\ UNCHANGED <<up, id, place, capacity, issued, upsets>>
  BY DEF Tick
<1>3. /\ gone' \in [Identifiers -> 0..Horizon] /\ settled' \in [Clients -> 0..Horizon]
      /\ \A c \in up : id[c] \in Identifiers => gone'[id[c]] = 0
  BY <1>1, TickHistory
<1>4. /\ net' \subseteq [type : Types, to : Clients, nodes : NodeLists]
      /\ Cardinality(net') <= MaxPackets
      /\ PacketsStamped'
  BY <1>1, TickPackets
<1>5. ASSUME NEW c \in Clients
      PROVE  /\ random[c] \in NodeLists /\ important[c] \in NodeLists
             /\ random'[c] = Older(random[c]) /\ important'[c] = Older(important[c])
             /\ random'[c] \in NodeLists /\ important'[c] \in NodeLists
             /\ Len(random'[c]) <= N /\ Len(important'[c]) <= capacity[c] - K
  <2>1. /\ random[c] \in NodeLists /\ important[c] \in NodeLists
        /\ Len(random[c]) <= N /\ Len(important[c]) <= capacity[c] - K
    BY <1>1 DEF TypeOK
  <2>2. random'[c] = Older(random[c]) /\ important'[c] = Older(important[c])
    BY <1>2
  <2>3. /\ Older(random[c]) \in NodeLists /\ Len(Older(random[c])) = Len(random[c])
        /\ Older(important[c]) \in NodeLists /\ Len(Older(important[c])) = Len(important[c])
    BY <2>1, OlderProperties
  <2> QED
    BY <2>1, <2>2, <2>3
<1>6. seed' \in [0..MaxSkew -> {0} \cup Identifiers]
  <2> SUFFICES ASSUME NEW s \in 0..MaxSkew, s < MaxSkew
               PROVE  seed[s + 1] \in {0} \cup Identifiers
    BY <1>2
  <2>1. s + 1 \in 0..MaxSkew
    BY MaxSkewType
  <2> QED
    BY <1>1, <2>1 DEF TypeOK
<1>7. TypeOK'
  <2>1. random' \in [Clients -> NodeLists] /\ important' \in [Clients -> NodeLists]
    BY <1>2, <1>5
  <2>2. idle' \in [Clients -> 0..MaxPeriod]
    <3> SUFFICES ASSUME NEW c \in Clients PROVE idle'[c] \in 0..MaxPeriod
      BY <1>2
    <3>1. idle[c] \in 0..MaxPeriod /\ MaxPeriod \in Nat
      BY <1>1, ConstantTypes DEF TypeOK
    <3>2. CASE c \in up
      <4>1. idle'[c] = idle[c] + 1 /\ idle[c] < MaxPeriod
        BY <1>2, <3>2
      <4> QED
        BY <3>1, <4>1
    <3>3. CASE c \notin up
      BY <1>2, <3>1, <3>3
    <3> QED
      BY <3>2, <3>3
  <2> QED
    BY <1>1, <1>2, <1>3, <1>4, <1>5, <1>6, <2>1, <2>2 DEF TypeOK
<1>8. IdentifiersFit'
  <2>1. Starts' = Starts /\ issued' = issued
    BY <1>2 DEF Starts
  <2>2. \A c \in up : id[c] # 0 /\ gone'[id[c]] = 0
    BY <1>1, <1>3 DEF IdentifiersFit, TypeOK
  <2> QED
    BY <1>1, <1>2, <2>1, <2>2 DEF IdentifiersFit
<1>9. ListsStamped'
  <2> SUFFICES ASSUME NEW c \in Clients
               PROVE  AllStamped(random[c])' /\ AllStamped(important[c])'
    BY DEF ListsStamped
  <2>1. AllStamped(random[c]) /\ AllStamped(important[c])
    BY <1>1 DEF ListsStamped
  <2>2. \A r \in Range(Older(random[c])) : Stamped(r)'
    BY <1>1, <1>5, <2>1, OlderStamped
  <2>3. \A r \in Range(Older(important[c])) : Stamped(r)'
    BY <1>1, <1>5, <2>1, OlderStamped
  <2> QED
    BY <1>5, <2>2, <2>3 DEF AllStamped
<1>10. UtilitiesScored'
  <2> SUFFICES ASSUME NEW c \in Clients, NEW r \in Range(important'[c]) PROVE Scored(c, r)'
    BY DEF UtilitiesScored
  <2>1. /\ AllStamped(important[c]) /\ \A q \in Range(important[c]) : Scored(c, q)
    BY <1>1 DEF ListsStamped, UtilitiesScored
  <2>2. r \in Range(Older(important[c])) /\ important[c] \in NodeLists
    BY <1>5
  <2> QED
    BY <1>1, <2>1, <2>2, OlderScored
<1> QED
  BY <1>4, <1>7, <1>8, <1>9, <1>10 DEF Inv

-----------------------------------------------------------------------------
(* The theorems                                                            *)

(* The invariant holds when no process has started.                        *)
LEMMA InvInit == Init => Inv
<1> SUFFICES ASSUME Init PROVE Inv
  OBVIOUS
<1>1. /\ up = {} /\ id = [c \in Clients |-> 0]
      /\ place \in {f \in [Clients -> UNION Range(Places)] : \A c \in Clients : f[c] \in Places[c]}
      /\ random = [c \in Clients |-> <<>>] /\ important = [c \in Clients |-> <<>>]
      /\ capacity = [c \in Clients |-> M + K] /\ idle = [c \in Clients |-> 0]
      /\ net = {} /\ seed = [s \in 0..MaxSkew |-> 0] /\ issued = 0
      /\ gone = [i \in Identifiers |-> Horizon] /\ settled = [c \in Clients |-> Horizon]
      /\ upsets = 0
  BY DEF Init
<1>2. /\ Horizon \in Nat /\ M + K \in Nat /\ (M + K) - K = M
      /\ MaxPeriod \in Nat /\ MaxUpsets \in Nat /\ MaxPackets \in Nat
      /\ N \in Nat /\ M \in Nat
  BY HorizonType, SizesAssumption, ConstantTypes
<1>3. <<>> \in NodeLists /\ Len(<<>>) = 0 /\ Range(<<>>) = {}
  BY DEF NodeLists, Range
<1>4. IsFiniteSet({}) /\ Cardinality({}) = 0
  BY FS_EmptySet
<1>5. TypeOK
  <2>1. \A c \in Clients : Len(random[c]) <= N /\ Len(important[c]) <= capacity[c] - K
    <3> SUFFICES ASSUME NEW c \in Clients
                 PROVE  Len(random[c]) <= N /\ Len(important[c]) <= capacity[c] - K
      OBVIOUS
    <3>1. random[c] = <<>> /\ important[c] = <<>> /\ capacity[c] - K = M
      BY <1>1, <1>2
    <3>2. Len(random[c]) = 0 /\ Len(important[c]) = 0
      BY <1>3, <3>1
    <3> QED
      BY <1>2, <3>1, <3>2
  <2>2. /\ random \in [Clients -> NodeLists] /\ important \in [Clients -> NodeLists]
        /\ capacity \in [Clients -> Nat] /\ idle \in [Clients -> 0..MaxPeriod]
        /\ id \in [Clients -> {0} \cup Identifiers]
    BY <1>1, <1>2, <1>3
  <2>3. /\ gone \in [Identifiers -> 0..Horizon] /\ settled \in [Clients -> 0..Horizon]
        /\ upsets \in 0..MaxUpsets
        /\ seed \in [0..MaxSkew -> {0} \cup Identifiers] /\ issued \in Nat
    BY <1>1, <1>2
  <2>4. Cardinality(net) <= MaxPackets
    BY <1>1, <1>2, <1>4
  <2> QED
    BY <1>1, <2>1, <2>2, <2>3, <2>4 DEF TypeOK
<1>6. IdentifiersFit
  <2>1. Starts \in Nat
    BY <1>5, StartsBound
  <2>2. issued <= Starts
    BY <1>1, <2>1
  <2> QED
    BY <1>1, <2>2 DEF IdentifiersFit
<1>7. ListsStamped /\ PacketsStamped /\ UtilitiesScored
  BY <1>1, <1>3, <1>4 DEF ListsStamped, PacketsStamped, UtilitiesScored, AllStamped
<1> QED
  BY <1>5, <1>6, <1>7 DEF Inv

(* Every step keeps the invariant.                                         *)
LEMMA InvStep == Inv /\ [Next]_vars => Inv'
<1> SUFFICES ASSUME Inv, [Next]_vars PROVE Inv'
  OBVIOUS
<1>1. CASE Tick
  BY <1>1, TickInv
<1>2. ASSUME NEW c \in Clients, Start(c) PROVE Inv'
  BY <1>2, StartInv
<1>3. ASSUME NEW c \in Clients, Stop(c) PROVE Inv'
  BY <1>3, StopInv
<1>4. ASSUME NEW c \in Clients, Cleanup(c) PROVE Inv'
  BY <1>4, CleanupInv
<1>5. ASSUME NEW c \in Clients, NEW p \in Places[c], Move(c, p) PROVE Inv'
  BY <1>5, MoveInv
<1>6. ASSUME NEW c \in Clients, NEW p \in net, Receive(c, p) PROVE Inv'
  BY <1>6, ReceiveInv
<1>7. CASE UNCHANGED vars
  <2>1. UNCHANGED <<up, id, place, random, important, capacity, idle, net, seed,
                    issued, gone, settled, upsets>>
    BY <1>7 DEF vars, lists, seeds, history
  <2> QED
    BY <2>1 DEF Inv, TypeOK, IdentifiersFit, Starts, ListsStamped, PacketsStamped,
                UtilitiesScored, AllStamped, Stamped, Scored, OwnNode
<1> QED
  BY <1>1, <1>2, <1>3, <1>4, <1>5, <1>6, <1>7 DEF Next

(* The invariant always holds.                                             *)
LEMMA InvAlways == Spec => []Inv
<1> QED
  BY InvInit, InvStep, PTL DEF Spec

(* The type invariant: however often processes start again, move and pass  *)
(* records on, identifiers do not run out, the lists keep their bounds and *)
(* every packet goes to a process.                                         *)
THEOREM TypeCorrect == Spec => []TypeOK
<1>1. Inv => TypeOK
  BY DEF Inv
<1> QED
  BY <1>1, InvAlways, PTL

-----------------------------------------------------------------------------
(* The action properties                                                   *)

(* No other step looks like a cleanup.                                     *)
LEMMA OnlyCleanup ==
  ASSUME Inv, [Next]_vars, NEW c \in Clients, CleanedUp(c)
  PROVE  Cleanup(c)
<1>1. c \in up' /\ idle'[c] < idle[c]
  BY DEF CleanedUp
<1>2. idle \in [Clients -> 0..MaxPeriod] /\ idle[c] \in Nat
  BY ConstantTypes DEF Inv, TypeOK
<1>3. ~(idle[c] < idle[c]) /\ ~(idle[c] + 1 < idle[c])
  BY <1>2
<1>4. idle' # idle
  BY <1>1, <1>3
<1>5. ~Tick
  <2> SUFFICES ASSUME Tick PROVE FALSE
    OBVIOUS
  <2>1. idle'[c] = idle[c] + 1
    BY <1>1 DEF Tick
  <2> QED
    BY <1>1, <1>3, <2>1
<1>6. ASSUME NEW d \in Clients, Start(d) PROVE FALSE
  BY <1>4, <1>6 DEF Start
<1>7. ASSUME NEW d \in Clients, Stop(d) PROVE FALSE
  <2>1. up' = up \ {d} /\ idle' = [idle EXCEPT ![d] = 0]
    BY <1>7 DEF Stop, Silent
  <2>2. c # d
    BY <1>1, <2>1
  <2>3. idle'[c] = idle[c]
    BY <1>2, <2>1, <2>2
  <2> QED
    BY <1>1, <1>3, <2>3
<1>8. ASSUME NEW d \in Clients, NEW p \in Places[d], Move(d, p) PROVE FALSE
  BY <1>4, <1>8 DEF Move
<1>9. ASSUME NEW d \in Clients, NEW p \in net, Receive(d, p) PROVE FALSE
  BY <1>4, <1>9 DEF Receive
<1>10. ~UNCHANGED vars
  BY <1>4 DEF vars
<1>11. ASSUME NEW d \in Clients, Cleanup(d), d # c PROVE FALSE
  <2>1. idle' = [idle EXCEPT ![d] = 0]
    BY <1>11 DEF Cleanup
  <2>2. idle'[c] = idle[c]
    BY <1>2, <1>11, <2>1
  <2> QED
    BY <1>1, <1>3, <2>2
<1> QED
  BY <1>5, <1>6, <1>7, <1>8, <1>9, <1>10, <1>11 DEF Next

(* What is in the lists after a cleanup was there before and is younger    *)
(* than PROTO_nodeMaxAge by the clock of the process.                      *)
LEMMA CleanedYoung ==
  ASSUME Inv, NEW c \in Clients, Cleanup(c)
  PROVE  /\ Range(random'[c]) \subseteq Range(random[c])
         /\ Range(important'[c]) \subseteq Range(important[c])
         /\ \A r \in Range(random'[c]) \cup Range(important'[c]) :
              /\ r.timeStamp \in Nat /\ r.timeStamp > Skew[c]
              /\ Stamped(r)
<1>1. PICK rn \in NodeLists, in \in NodeLists :
           /\ random' = [random EXCEPT ![c] = rn]
           /\ important' = [important EXCEPT ![c] = in]
           /\ Range(rn) \subseteq Range(random[c])
           /\ Range(in) \subseteq Range(important[c])
           /\ \A r \in Range(rn) \cup Range(in) : r.timeStamp > Clock(c) - NodeMaxAge
  BY CleanupProperties
<1>2. random'[c] = rn /\ important'[c] = in
  BY <1>1 DEF Inv, TypeOK
<1>3. Clock(c) - NodeMaxAge = Skew[c]
  <2>1. NodeMaxAge \in Nat /\ Skew[c] \in Nat
    BY ConstantTypes
  <2> QED
    BY <2>1 DEF Clock
<1>4. Range(rn) \subseteq Node /\ Range(in) \subseteq Node
  BY RangeFinite
<1>5. \A r \in Range(rn) \cup Range(in) : r.timeStamp \in Nat
  BY <1>4 DEF Node
<1>6. \A r \in Range(rn) \cup Range(in) : Stamped(r)
  BY <1>1 DEF Inv, ListsStamped, AllStamped
<1> QED
  BY <1>1, <1>2, <1>3, <1>5, <1>6

(* What a cleanup keeps is stamped, and younger than its age.              *)
LEMMA UsesAliveStep ==
  ASSUME Inv, [Next]_vars, NEW c \in Clients
  PROVE  UsesAlive(c)
<1> SUFFICES ASSUME CleanedUp(c), NEW r \in Range(random'[c]) \cup Range(important'[c])
             PROVE  gone[r.nodeID] < NodeMaxAge + Skew[r.addr] - Skew[c]
  BY DEF UsesAlive
<1>1. r.timeStamp \in Nat /\ r.timeStamp > Skew[c] /\ Stamped(r)
  BY OnlyCleanup, CleanedYoung
<1>2. r.addr \in Clients /\ r.nodeID \in Identifiers
  BY <1>1 DEF Stamped
<1>3. /\ Skew[c] \in Nat /\ Skew[r.addr] \in Nat /\ NodeMaxAge \in Nat
      /\ gone[r.nodeID] \in Nat
  <2>1. /\ Skew[c] \in Nat /\ Skew[r.addr] \in Nat /\ NodeMaxAge \in Nat
    BY <1>2, ConstantTypes
  <2>2. gone \in [Identifiers -> 0..Horizon] /\ Horizon \in Nat
    BY HorizonType DEF Inv, TypeOK
  <2>3. gone[r.nodeID] \in Nat
    BY <1>2, <2>2
  <2> QED
    BY <2>1, <2>3
<1>4. r.timeStamp # 0
  BY <1>1, <1>3
<1>5. r.timeStamp + gone[r.nodeID] <= NodeMaxAge + Skew[r.addr]
  BY <1>1, <1>4 DEF Stamped
<1> QED
  BY <1>1, <1>3, <1>5

(* What a cleanup keeps is scored, and younger than its age.               *)
LEMMA UsesCurrentStep ==
  ASSUME Inv, [Next]_vars, NEW c \in Clients
  PROVE  UsesCurrent(c)
<1> SUFFICES ASSUME CleanedUp(c), NEW r \in Range(important'[c])
             PROVE  \/ settled[c] < NodeMaxAge + Skew[r.addr] - Skew[c]
                    \/ r.utility = NodeUtility(OwnNode(c), r)
  BY DEF UsesCurrent
<1>1. /\ r.timeStamp \in Nat /\ r.timeStamp > Skew[c] /\ Stamped(r)
      /\ r \in Range(important[c])
  BY OnlyCleanup, CleanedYoung
<1>2. r.addr \in Clients
  BY <1>1 DEF Stamped
<1>3. /\ Skew[c] \in Nat /\ Skew[r.addr] \in Nat /\ NodeMaxAge \in Nat
      /\ settled[c] \in Nat
  <2>1. /\ Skew[c] \in Nat /\ Skew[r.addr] \in Nat /\ NodeMaxAge \in Nat
    BY <1>2, ConstantTypes
  <2>2. settled \in [Clients -> 0..Horizon] /\ Horizon \in Nat
    BY HorizonType DEF Inv, TypeOK
  <2>3. settled[c] \in Nat
    BY <1>2, <2>2
  <2> QED
    BY <2>1, <2>3
<1>4. r.timeStamp # 0
  BY <1>1, <1>3
<1>5. \/ r.utility = NodeUtility(OwnNode(c), r)
      \/ r.timeStamp + settled[c] <= NodeMaxAge + Skew[r.addr]
  BY <1>1, <1>4 DEF Inv, UtilitiesScored, Scored
<1>6. r.timeStamp + settled[c] <= NodeMaxAge + Skew[r.addr] =>
        settled[c] < NodeMaxAge + Skew[r.addr] - Skew[c]
  BY <1>1, <1>3
<1> QED
  BY <1>5, <1>6

(* For any number of processes, whatever packets are lost, repeated and    *)
(* passed on: what a process uses at a cleanup is of an identifier in use  *)
(* less than PROTO_nodeMaxAge seconds ago, by the clock of its address.    *)
THEOREM PublishedAliveHolds == Spec => PublishedAlive
<1>1. Inv /\ [Next]_vars => \A c \in Clients : UsesAlive(c)
  BY UsesAliveStep
<1>2. Inv /\ [Next]_vars => [\A c \in Clients : UsesAlive(c)]_vars
  BY <1>1
<1> QED
  BY <1>2, InvAlways, PTL DEF Spec, PublishedAlive

(* For any number of processes and moves: a process publishes by utilities *)
(* of its present place, but for PROTO_nodeMaxAge seconds after a move.    *)
THEOREM PublishedCurrentHolds == Spec => PublishedCurrent
<1>1. Inv /\ [Next]_vars => \A c \in Clients : UsesCurrent(c)
  BY UsesCurrentStep
<1>2. Inv /\ [Next]_vars => [\A c \in Clients : UsesCurrent(c)]_vars
  BY <1>1
<1> QED
  BY <1>2, InvAlways, PTL DEF Spec, PublishedCurrent
=============================================================================
