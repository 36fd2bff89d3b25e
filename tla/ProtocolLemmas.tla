--------------------------- MODULE ProtocolLemmas ---------------------------
(***************************************************************************)
(* What the operators of NodeCollection and Protocol return, preserve and  *)
(* bound, for all lists and all values of the constants, and the facts     *)
(* about finite sets of positions and numbers that this rests on.  The     *)
(* proofs about the state machines cite these lemmas and expand none of    *)
(* the operators.                                                          *)
(***************************************************************************)
EXTENDS Protocol, FiniteSetTheorems, FunctionTheorems, SequenceTheorems,
        WellFoundedInduction, TLAPS

-----------------------------------------------------------------------------
(* Finite sets                                                             *)

(* The indices of a list are as many as it is long.                        *)
LEMMA IntervalCardinality ==
  ASSUME NEW n \in Nat
  PROVE  IsFiniteSet(1..n) /\ Cardinality(1..n) = n
<1>1. IsFiniteSet(1..n) /\ Cardinality(1..n) = IF 1 > n THEN 0 ELSE n - 1 + 1
  BY FS_Interval, 1 \in Int, n \in Int
<1> QED
  BY <1>1

(* A set of positions that is not empty has a last one.                    *)
LEMMA LastPosition ==
  ASSUME NEW n \in Nat, NEW S, S \subseteq 1..n, S # {}
  PROVE  \E m \in S : \A k \in S : k <= m
<1> DEFINE R == OpToRel(<, Nat)
           T == {d \in 0..n : n - d \in S}
<1>1. IsWellFoundedOn(R, Nat)
  BY NatLessThanWellFounded
<1>2. \A x, y \in Nat : <<y, x>> \in R <=> y < x
  BY DEF OpToRel
<1>3. T \subseteq Nat /\ T # {}
  <2>1. PICK k \in S : k \in 1..n
    OBVIOUS
  <2>2. n - k \in T
    BY <2>1
  <2>3. T \subseteq Nat
    OBVIOUS
  <2> HIDE DEF T
  <2> QED
    BY <2>2, <2>3
<1> HIDE DEF R
<1>4. PICK d \in T : \A e \in T : ~(<<e, d>> \in R)
  BY <1>1, <1>3, WFMin
<1>5. \A e \in T : ~(e < d)
  BY <1>2, <1>3, <1>4
<1>6. ASSUME NEW k \in S PROVE k <= n - d
  <2>1. n - k \in T
    OBVIOUS
  <2> QED
    BY <1>5, <2>1
<1> QED
  BY <1>6

(* The first positions of a set, as many as room.                          *)
LEMMA FirstPositions ==
  ASSUME NEW n \in Nat, NEW S, S \subseteq 1..n, NEW room \in Nat,
         NEW F, F = {i \in S : Cardinality({j \in S : j <= i}) <= room}
  PROVE  /\ IsFiniteSet(F) /\ Cardinality(F) <= room
         /\ Cardinality(S) <= room => F = S
<1>1. IsFiniteSet(1..n)
  BY IntervalCardinality
<1>2. IsFiniteSet(S) /\ IsFiniteSet(F)
  BY <1>1, FS_Subset
<1>3. Cardinality(F) <= room
  <2>1. CASE F = {}
    <3>1. Cardinality(F) = 0
      BY <1>2, <2>1, FS_EmptySet
    <3> QED
      BY <3>1
  <2>2. CASE F # {}
    <3>1. PICK m \in F : \A k \in F : k <= m
      BY <2>2, LastPosition
    <3> DEFINE G == {j \in S : j <= m}
    <3>2. F \subseteq G /\ G \subseteq S
      BY <3>1
    <3>3. Cardinality(G) <= room
      OBVIOUS
    <3> HIDE DEF G
    <3>4. IsFiniteSet(G) /\ Cardinality(F) <= Cardinality(G)
      BY <1>2, <3>2, FS_Subset
    <3>5. Cardinality(F) \in Nat /\ Cardinality(G) \in Nat
      BY <1>2, <3>4, FS_CardinalityType
    <3> QED
      BY <3>3, <3>4, <3>5
  <2> QED
    BY <2>1, <2>2
<1>4. ASSUME Cardinality(S) <= room, NEW i \in S
      PROVE  Cardinality({j \in S : j <= i}) <= room
  <2> DEFINE G == {j \in S : j <= i}
  <2>1. G \subseteq S
    OBVIOUS
  <2> HIDE DEF G
  <2>2. IsFiniteSet(G) /\ Cardinality(G) <= Cardinality(S)
    BY <1>2, <2>1, FS_Subset
  <2>3. Cardinality(G) \in Nat /\ Cardinality(S) \in Nat
    BY <1>2, <2>2, FS_CardinalityType
  <2>4. Cardinality(G) <= room
    BY <1>4, <2>2, <2>3
  <2> QED
    BY <2>4 DEF G
<1> QED
  BY <1>2, <1>3, <1>4

(* A finite set of numbers that is not empty has a greatest element.       *)
LEMMA GreatestElement ==
  ASSUME NEW S \in SUBSET Nat, IsFiniteSet(S), S # {}
  PROVE  \E m \in S : \A k \in S : k <= m
<1> DEFINE R == OpToRel(<, Nat)
           Has(T) == \E m \in T : \A k \in T : k <= m
           Bad == {n \in Nat : \E T \in SUBSET Nat :
                     /\ IsFiniteSet(T) /\ T # {} /\ ~Has(T)
                     /\ n = Cardinality(T)}
<1>1. IsWellFoundedOn(R, Nat)
  BY NatLessThanWellFounded
<1>2. \A x, y \in Nat : <<y, x>> \in R <=> y < x
  BY DEF OpToRel
<1> HIDE DEF R
<1>3. Bad = {}
  <2> SUFFICES ASSUME Bad # {} PROVE FALSE
    OBVIOUS
  <2>1. Bad \subseteq Nat
    OBVIOUS
  <2>2. PICK n \in Bad : \A e \in Bad : ~(<<e, n>> \in R)
    <3> HIDE DEF Bad
    <3> QED
      BY <1>1, <2>1, WFMin
  <2>3. \A e \in Bad : ~(e < n)
    BY <1>2, <2>1, <2>2
  <2>4. PICK T \in SUBSET Nat : /\ IsFiniteSet(T) /\ T # {} /\ ~Has(T)
                                /\ n = Cardinality(T)
    BY <2>2
  <2>5. PICK x \in T : TRUE
    BY <2>4
  <2> DEFINE U == T \ {x}
  <2>6. IsFiniteSet(U) /\ Cardinality(U) = n - 1 /\ n \in Nat
    BY <2>1, <2>2, <2>4, <2>5, FS_RemoveElement
  <2>7. U \in SUBSET Nat /\ T = U \cup {x} /\ x \in Nat
    BY <2>5
  <2> HIDE DEF U
  <2>8. Cardinality(U) \in Nat
    BY <2>6, FS_CardinalityType
  <2>9. Cardinality(U) < n
    BY <2>6
  <2>10. Cardinality(U) \notin Bad
    BY <2>3, <2>9
  <2>11. CASE U = {}
    <3>1. T = {x}
      BY <2>7, <2>11
    <3>2. Has(T)
      BY <2>7, <3>1
    <3> QED
      BY <2>4, <3>2
  <2>12. CASE U # {}
    <3>1. PICK m \in U : \A k \in U : k <= m
      BY <2>6, <2>7, <2>8, <2>10, <2>12
    <3>2. m \in Nat
      BY <2>7
    <3>3. CASE x <= m
      BY <2>4, <2>7, <3>1, <3>3
    <3>4. CASE ~(x <= m)
      <4>1. \A k \in T : k <= x
        BY <2>7, <3>1, <3>2, <3>4
      <4> QED
        BY <2>4, <2>7, <4>1
    <3> QED
      BY <3>3, <3>4
  <2> QED
    BY <2>11, <2>12
<1>4. Cardinality(S) \in Nat
  BY FS_CardinalityType
<1>5. Cardinality(S) \notin Bad
  BY <1>3
<1> QED
  BY <1>4, <1>5

-----------------------------------------------------------------------------
(* Lists of nodes                                                          *)

(* The records of a list are finitely many nodes, no more than it is long. *)
LEMMA RangeFinite ==
  ASSUME NEW s \in NodeLists
  PROVE  /\ Range(s) \subseteq Node /\ IsFiniteSet(Range(s))
         /\ Cardinality(Range(s)) <= Len(s)
<1>1. Range(s) = {s[i] : i \in 1..Len(s)} /\ \A i \in 1..Len(s) : s[i] \in Node
  BY DEF Range, NodeLists
<1>2. s \in Surjection(1..Len(s), Range(s))
  BY <1>1 DEF Surjection, NodeLists
<1>3. IsFiniteSet(1..Len(s)) /\ Cardinality(1..Len(s)) = Len(s)
  BY IntervalCardinality DEF NodeLists
<1>4. IsFiniteSet(Range(s)) /\ Cardinality(Range(s)) <= Cardinality(1..Len(s))
  BY <1>2, <1>3, FS_Surjection
<1> QED
  BY <1>1, <1>3, <1>4

(* The own node is a node.                                                 *)
LEMMA NewNodeType ==
  ASSUME NEW id \in Nat, NEW addr \in Nat, NEW pos \in Int,
         NEW range \in Nat, NEW time \in Nat
  PROVE  NewNode(id, addr, pos, range, time) \in Node
BY DEF NewNode, Node

(* A list without duplicates has as many identifiers as it is long.        *)
LEMMA IDsCardinality ==
  ASSUME NEW s \in NodeLists, UniqueIDs(s)
  PROVE  IsFiniteSet(IDs(Range(s))) /\ Cardinality(IDs(Range(s))) = Len(s)
<1> DEFINE D == 1..Len(s)
           f == [i \in D |-> s[i].nodeID]
<1>1. DOMAIN s = D /\ Len(s) \in Nat
  BY DEF NodeLists
<1>2. IsFiniteSet(D) /\ Cardinality(D) = Len(s)
  BY <1>1, IntervalCardinality
<1>3. IDs(Range(s)) = {s[i].nodeID : i \in D}
  BY <1>1 DEF IDs, Range
<1>4. f \in Surjection(D, IDs(Range(s)))
  BY <1>3 DEF Surjection
<1>5. f \in [D -> IDs(Range(s))] /\ \A i, j \in D : f[i] = f[j] => i = j
  BY <1>1, <1>3 DEF UniqueIDs
<1> HIDE DEF D, f
<1>6. f \in Injection(D, IDs(Range(s)))
  BY <1>5, Fun_IsInj
<1> QED
  BY <1>2, <1>4, <1>6, FS_Surjection

(* The own node in front of a list of other nodes.                         *)
LEMMA PrependProperties ==
  ASSUME NEW own \in Node, NEW t \in NodeLists
  PROVE  LET p == <<own>> \o t
         IN  /\ p \in NodeLists /\ Len(p) = Len(t) + 1
             /\ p[1] = own
             /\ \A i \in 2..Len(p) : i - 1 \in 1..Len(t) /\ p[i] = t[i - 1]
             /\ (UniqueIDs(t) /\ own.nodeID \notin IDs(Range(t))) => UniqueIDs(p)
<1> DEFINE p == <<own>> \o t
<1>1. <<own>> \in Seq(Node) /\ Len(<<own>>) = 1 /\ <<own>>[1] = own
  OBVIOUS
<1>2. Len(t) \in Nat /\ DOMAIN t = 1..Len(t)
  BY DEF NodeLists
<1>3. /\ p \in Seq(Node)
      /\ Len(p) = 1 + Len(t)
      /\ \A i \in 1..(1 + Len(t)) : p[i] = IF i <= 1 THEN <<own>>[i] ELSE t[i - 1]
  BY <1>1, ConcatProperties DEF NodeLists
<1> HIDE DEF p
<1>4. /\ p \in NodeLists /\ Len(p) = Len(t) + 1 /\ DOMAIN p = 1..(Len(t) + 1)
      /\ p[1] = own
      /\ \A i \in 2..Len(p) : i - 1 \in 1..Len(t) /\ p[i] = t[i - 1]
  BY <1>1, <1>2, <1>3 DEF NodeLists
<1>5. ASSUME UniqueIDs(t), own.nodeID \notin IDs(Range(t)) PROVE UniqueIDs(p)
  <2>1. \A i \in 2..Len(p) : p[i].nodeID # own.nodeID
    BY <1>2, <1>4, <1>5 DEF IDs, Range
  <2>2. ASSUME NEW i \in 1..Len(p), NEW j \in 1..Len(p), p[i].nodeID = p[j].nodeID
        PROVE  i = j
    <3>1. CASE i = 1 \/ j = 1
      BY <1>2, <1>4, <2>1, <2>2, <3>1
    <3>2. CASE i # 1 /\ j # 1
      <4>1. i \in 2..Len(p) /\ j \in 2..Len(p)
        BY <1>2, <1>4, <3>2
      <4>2. t[i - 1].nodeID = t[j - 1].nodeID /\ i - 1 \in DOMAIN t /\ j - 1 \in DOMAIN t
        BY <1>2, <1>4, <2>2, <4>1
      <4>3. i - 1 = j - 1
        BY <1>5, <4>2 DEF UniqueIDs
      <4> QED
        BY <1>2, <1>4, <4>1, <4>3
    <3> QED
      BY <3>1, <3>2
  <2> QED
    BY <1>4, <2>2 DEF UniqueIDs
<1> QED
  BY <1>4, <1>5 DEF p

-----------------------------------------------------------------------------
(* Utility                                                                 *)

(* Utilities are natural numbers.                                          *)
LEMMA UtilityType ==
  ASSUME NEW a \in Node, NEW b \in Node
  PROVE  NodeUtility(a, b) \in Nat
<1> DEFINE reach == a.coordRange + b.coordRange
           dist  == a.pos - b.pos
<1>1. reach \in Nat /\ dist \in Int
  BY DEF Node
<1>2. Unit * reach \in Nat
  BY <1>1, UnitAssumption
<1>3. Unit * reach * reach \in Nat
  BY <1>1, <1>2
<1>4. CASE dist = 0
  BY <1>4, UtilityMaxAssumption DEF NodeUtility
<1>5. CASE dist # 0
  <2>1. dist * dist \in Nat \ {0}
    BY <1>1, <1>5
  <2>2. (Unit * reach * reach) \div (dist * dist) \in Nat
    BY <1>3, <2>1
  <2> QED
    BY <1>5, <2>2 DEF NodeUtility
<1> QED
  BY <1>4, <1>5

(* The utility that a node has for another one depends on their places     *)
(* only, which packing and calculating utilities leave alone.              *)
LEMMA UtilityOfPlace ==
  ASSUME NEW a, NEW b, a.pos = b.pos, a.coordRange = b.coordRange,
         NEW q, NEW r, q.pos = r.pos, q.coordRange = r.coordRange
  PROVE  NodeUtility(a, q) = NodeUtility(b, r)
BY DEF NodeUtility

(* Computing utilities keeps the length of a list and its identifiers and  *)
(* time stamps.                                                            *)
LEMMA CalculateUtilityType ==
  ASSUME NEW nc \in NodeLists, NEW n \in Node
  PROVE  /\ CalculateUtility(nc, n) \in NodeLists
         /\ Len(CalculateUtility(nc, n)) = Len(nc)
         /\ \A i \in 1..Len(nc) :
              /\ CalculateUtility(nc, n)[i].nodeID = nc[i].nodeID
              /\ CalculateUtility(nc, n)[i].timeStamp = nc[i].timeStamp
              /\ CalculateUtility(nc, n)[i].utility = NodeUtility(n, nc[i])
<1> DEFINE c == CalculateUtility(nc, n)
<1>1. DOMAIN nc = 1..Len(nc) /\ Len(nc) \in Nat
  BY DEF NodeLists
<1>2. ASSUME NEW i \in 1..Len(nc)
      PROVE  /\ c[i] \in Node
             /\ c[i].nodeID = nc[i].nodeID
             /\ c[i].timeStamp = nc[i].timeStamp
             /\ c[i].utility = NodeUtility(n, nc[i])
  <2>1. nc[i] \in Node
    BY DEF NodeLists
  <2>2. NodeUtility(n, nc[i]) \in Nat
    BY <2>1, UtilityType
  <2>3. c[i] = [nc[i] EXCEPT !.utility = NodeUtility(n, nc[i])]
    BY <1>1 DEF CalculateUtility
  <2> QED
    BY <2>1, <2>2, <2>3 DEF Node
<1>3. c \in [1..Len(nc) -> Node]
  BY <1>1, <1>2 DEF CalculateUtility
<1> QED
  BY <1>1, <1>2, <1>3 DEF NodeLists

(* Calculating the utilities changes no identifier and no time stamp.      *)
LEMMA CalculateUtilityKeeps ==
  ASSUME NEW nc \in NodeLists, NEW n \in Node
  PROVE  LET c == CalculateUtility(nc, n)
         IN  /\ IDs(Range(c)) = IDs(Range(nc))
             /\ UniqueIDs(nc) => UniqueIDs(c)
             /\ \A r \in Range(c) : \E q \in Range(nc) :
                  /\ r.nodeID = q.nodeID /\ r.timeStamp = q.timeStamp
                  /\ r.utility = NodeUtility(n, q)
<1> DEFINE c == CalculateUtility(nc, n)
<1>1. /\ c \in NodeLists /\ Len(c) = Len(nc)
      /\ \A i \in 1..Len(nc) : /\ c[i].nodeID = nc[i].nodeID
                              /\ c[i].timeStamp = nc[i].timeStamp
                              /\ c[i].utility = NodeUtility(n, nc[i])
  BY CalculateUtilityType
<1> HIDE DEF c
<1>2. DOMAIN nc = 1..Len(nc) /\ DOMAIN c = 1..Len(nc)
  BY <1>1 DEF NodeLists
<1>3. IDs(Range(c)) = IDs(Range(nc))
  BY <1>1, <1>2 DEF IDs, Range
<1>4. UniqueIDs(nc) => UniqueIDs(c)
  BY <1>1, <1>2 DEF UniqueIDs
<1>5. \A r \in Range(c) : \E q \in Range(nc) :
        /\ r.nodeID = q.nodeID /\ r.timeStamp = q.timeStamp
        /\ r.utility = NodeUtility(n, q)
  BY <1>1, <1>2 DEF Range
<1> QED
  BY <1>3, <1>4, <1>5 DEF c

(* Calculating utilities changes nothing else.                             *)
LEMMA CalculateUtilityRecords ==
  ASSUME NEW nc \in NodeLists, NEW n \in Node,
         NEW r \in Range(CalculateUtility(nc, n))
  PROVE  \E q \in Range(nc) : /\ q \in Node
                              /\ r = [q EXCEPT !.utility = NodeUtility(n, q)]
<1>1. DOMAIN nc = 1..Len(nc) /\ \A i \in 1..Len(nc) : nc[i] \in Node
  BY DEF NodeLists
<1>2. PICK i \in DOMAIN nc : r = [nc[i] EXCEPT !.utility = NodeUtility(n, nc[i])]
  BY DEF CalculateUtility, Range
<1>3. nc[i] \in Range(nc) /\ nc[i] \in Node
  BY <1>1 DEF Range
<1> QED
  BY <1>2, <1>3

-----------------------------------------------------------------------------
(* Append, remove duplicates, sort, trim                                   *)

(* Appending adds records of the appended list only, and not the ignored   *)
(* ones.                                                                   *)
LEMMA AppendedProperties ==
  ASSUME NEW a \in NodeLists, NEW b \in NodeLists, NEW max, NEW self
  PROVE  LET S == Appended(a, b, max, self)
         IN  /\ S \subseteq Node /\ IsFiniteSet(S)
             /\ Range(a) \subseteq S
             /\ S \subseteq Range(a) \cup {r \in Range(b) : r.nodeID # self}
<1> DEFINE S == Appended(a, b, max, self)
           fits(i) == Cardinality({j \in Accepted(b, self) : j <= i}) <= max - Len(a)
<1>1. S = Range(a) \cup {b[i] : i \in {j \in Accepted(b, self) : fits(j)}}
  BY DEF Appended
<1>2. \A i \in {j \in Accepted(b, self) : fits(j)} :
        b[i] \in Range(b) /\ b[i].nodeID # self
  BY DEF Accepted, Range
<1>3. S \subseteq Range(a) \cup {r \in Range(b) : r.nodeID # self}
  BY <1>1, <1>2
<1>4. IsFiniteSet(Range(a) \cup Range(b)) /\ Range(a) \cup Range(b) \subseteq Node
  BY RangeFinite, FS_Union
<1>5. IsFiniteSet(S)
  BY <1>3, <1>4, FS_Subset
<1> QED
  BY <1>1, <1>3, <1>4, <1>5

(* The positions an append accepts are positions of the list.              *)
LEMMA AcceptedPositions ==
  ASSUME NEW b \in NodeLists, NEW self
  PROVE  /\ Accepted(b, self) \subseteq 1..Len(b)
         /\ IsFiniteSet(Accepted(b, self))
         /\ Cardinality(Accepted(b, self)) \in Nat
         /\ Cardinality(Accepted(b, self)) <= Len(b)
<1>1. Accepted(b, self) \subseteq 1..Len(b) /\ Len(b) \in Nat
  BY DEF Accepted, NodeLists
<1>2. IsFiniteSet(1..Len(b)) /\ Cardinality(1..Len(b)) = Len(b)
  BY <1>1, IntervalCardinality
<1> QED
  BY <1>1, <1>2, FS_Subset, FS_CardinalityType

(* An append never passes the capacity, and drops nothing that fits.       *)
LEMMA AppendedFits ==
  ASSUME NEW a \in NodeLists, NEW b \in NodeLists, NEW max \in Nat, NEW self,
         Len(a) <= max
  PROVE  LET S == Appended(a, b, max, self)
         IN  /\ Cardinality(S) <= max
             /\ Cardinality(Accepted(b, self)) <= max - Len(a)
                  => S = Range(a) \cup {r \in Range(b) : r.nodeID # self}
<1> DEFINE A == Accepted(b, self)
           room == max - Len(a)
           F == {i \in A : Cardinality({j \in A : j <= i}) <= room}
           S == Appended(a, b, max, self)
           B == {b[i] : i \in F}
<1>1. Len(a) \in Nat /\ Len(b) \in Nat /\ room \in Nat /\ DOMAIN b = 1..Len(b)
  BY DEF NodeLists
<1>2. A \subseteq 1..Len(b)
  BY AcceptedPositions
<1>3. S = Range(a) \cup B
  BY DEF Appended
<1>4. A = {i \in DOMAIN b : b[i].nodeID # self}
  BY DEF Accepted
<1> HIDE DEF A
<1>5. /\ IsFiniteSet(F) /\ Cardinality(F) <= room
      /\ Cardinality(A) <= room => F = A
  <2> HIDE DEF room
  <2> QED
    BY <1>1, <1>2, FirstPositions
<1> HIDE DEF F, room, S
<1>6. IsFiniteSet(B) /\ Cardinality(B) <= Cardinality(F)
  <2> DEFINE f == [i \in F |-> b[i]]
  <2>1. f \in Surjection(F, B)
    BY DEF Surjection
  <2> HIDE DEF f, B
  <2> QED
    BY <1>5, <2>1, FS_Surjection
<1> HIDE DEF B
<1>7. /\ IsFiniteSet(Range(a)) /\ Cardinality(Range(a)) <= Len(a)
      /\ Cardinality(Range(a)) \in Nat
  BY RangeFinite, FS_CardinalityType
<1>8. Cardinality(S) <= max
  <2>1. /\ IsFiniteSet(S)
        /\ Cardinality(S) = Cardinality(Range(a)) + Cardinality(B)
                              - Cardinality(Range(a) \cap B)
    BY <1>3, <1>6, <1>7, FS_Union
  <2>2. Cardinality(Range(a) \cap B) \in Nat
    BY <1>7, FS_Intersection, FS_CardinalityType
  <2>3. Cardinality(B) \in Nat /\ Cardinality(F) \in Nat
    BY <1>5, <1>6, FS_CardinalityType
  <2>4. Cardinality(B) <= max - Len(a)
    BY <1>1, <1>5, <1>6, <2>3 DEF room
  <2> QED
    BY <1>1, <1>7, <2>1, <2>2, <2>3, <2>4
<1>9. ASSUME Cardinality(A) <= room
      PROVE  S = Range(a) \cup {r \in Range(b) : r.nodeID # self}
  <2>1. B = {b[i] : i \in A}
    BY <1>5, <1>9 DEF B
  <2>2. {b[i] : i \in A} = {r \in Range(b) : r.nodeID # self}
    BY <1>4 DEF Range
  <2> QED
    BY <1>3, <2>1, <2>2
<1> QED
  BY <1>8, <1>9 DEF A, room, S

(* What is left without duplicates are records that were there, no two of  *)
(* one node.                                                               *)
LEMMA WithoutDuplicatesProperties ==
  ASSUME NEW S, S \subseteq Node, IsFiniteSet(S), NEW T \in WithoutDuplicates(S)
  PROVE  /\ T \subseteq S /\ IsFiniteSet(T)
         /\ \A s, t \in T : s.nodeID = t.nodeID => s = t
         /\ \A r \in S : \E t \in T : t.nodeID = r.nodeID
<1>1. T \subseteq S
  BY DEF WithoutDuplicates
<1>2. IsFiniteSet(T)
  BY <1>1, FS_Subset
<1> QED
  BY <1>1, <1>2 DEF WithoutDuplicates

(* A sorted order of finitely many nodes is a list of them, each once.     *)
LEMMA SortedByProperties ==
  ASSUME NEW S, S \subseteq Node, IsFiniteSet(S), NEW field,
         NEW s \in SortedBy(S, field)
  PROVE  /\ s \in NodeLists
         /\ Len(s) = Cardinality(S)
         /\ \A i \in 1..Len(s) : s[i] \in S
         /\ Range(s) \subseteq S
         /\ \A i, j \in 1..Len(s) : i < j => s[i] # s[j] /\ s[i][field] >= s[j][field]
<1>1. Cardinality(S) \in Nat
  BY FS_CardinalityType
<1>2. s \in [1..Cardinality(S) -> S]
  BY DEF SortedBy
<1>3. s \in NodeLists /\ Len(s) = Cardinality(S)
  BY <1>1, <1>2 DEF NodeLists
<1>4. \A i \in 1..Len(s) : s[i] \in S
  BY <1>2, <1>3
<1>5. Range(s) \subseteq S
  BY <1>2 DEF Range
<1> QED
  BY <1>3, <1>4, <1>5 DEF SortedBy

(* Sorting distinct nodes gives a list without duplicates.                 *)
LEMMA SortedByUnique ==
  ASSUME NEW S, S \subseteq Node, IsFiniteSet(S), NEW field,
         NEW s \in SortedBy(S, field),
         \A r, t \in S : r.nodeID = t.nodeID => r = t
  PROVE  UniqueIDs(s)
<1>1. s \in NodeLists /\ DOMAIN s = 1..Len(s) /\ Len(s) \in Nat
  BY SortedByProperties DEF NodeLists
<1>2. /\ \A i \in 1..Len(s) : s[i] \in S
      /\ \A i, j \in 1..Len(s) : i < j => s[i] # s[j]
  BY SortedByProperties
<1>3. ASSUME NEW i \in 1..Len(s), NEW j \in 1..Len(s), s[i].nodeID = s[j].nodeID
      PROVE  i = j
  <2>1. s[i] = s[j]
    BY <1>2, <1>3
  <2> QED
    BY <2>1, <1>1, <1>2
<1> QED
  BY <1>1, <1>3 DEF UniqueIDs

(* Sorting loses nothing.                                                  *)
LEMMA SortedByComplete ==
  ASSUME NEW S, S \subseteq Node, IsFiniteSet(S), NEW field,
         NEW s \in SortedBy(S, field)
  PROVE  Range(s) = S
<1> DEFINE D == 1..Cardinality(S)
<1>1. Cardinality(S) \in Nat
  BY FS_CardinalityType
<1>2. s \in [D -> S] /\ \A i, j \in D : i < j => s[i] # s[j]
  BY DEF SortedBy
<1>3. \A i, j \in D : s[i] = s[j] => i = j
  BY <1>1, <1>2
<1>4. IsFiniteSet(D) /\ Cardinality(D) = Cardinality(S)
  BY <1>1, IntervalCardinality
<1> HIDE DEF D
<1>5. s \in Injection(D, S)
  BY <1>2, <1>3, Fun_IsInj
<1>6. s \in Surjection(D, S)
  BY <1>4, <1>5, FS_Injection
<1> QED
  BY <1>2, <1>6 DEF Surjection, Range

(* Trimming keeps a prefix of at most the given length.                    *)
LEMMA RemoveExcessProperties ==
  ASSUME NEW s \in NodeLists, NEW floor \in Nat
  PROVE  LET t == RemoveExcessNodes(s, floor)
         IN  /\ t \in NodeLists
             /\ Len(t) <= floor /\ Len(t) <= Len(s)
             /\ \A i \in 1..Len(t) : t[i] = s[i]
             /\ Range(t) \subseteq Range(s)
<1> DEFINE t == RemoveExcessNodes(s, floor)
<1>1. Len(s) \in Nat /\ DOMAIN s = 1..Len(s) /\ \A i \in 1..Len(s) : s[i] \in Node
  BY DEF NodeLists
<1>2. t \in NodeLists /\ Len(t) <= floor /\ Len(t) <= Len(s)
      /\ \A i \in 1..Len(t) : t[i] = s[i]
  <2>1. CASE Len(s) > floor
    <3>1. t = SubSeq(s, 1, floor)
      BY <2>1 DEF RemoveExcessNodes
    <3>2. \A i \in 1..floor : s[i] \in Node
      BY <1>1, <2>1
    <3>3. /\ SubSeq(s, 1, floor) \in Seq(Node)
          /\ Len(SubSeq(s, 1, floor)) = IF 1 <= floor THEN floor - 1 + 1 ELSE 0
          /\ \A i \in 1..(floor - 1 + 1) : SubSeq(s, 1, floor)[i] = s[1 + i - 1]
      BY <3>2, SubSeqProperties
    <3> QED
      BY <1>1, <2>1, <3>1, <3>3 DEF NodeLists
  <2>2. CASE ~(Len(s) > floor)
    BY <1>1, <2>2 DEF RemoveExcessNodes
  <2> QED
    BY <2>1, <2>2
<1>3. Range(t) \subseteq Range(s)
  <2>1. DOMAIN t = 1..Len(t) /\ Len(t) \in Nat
    BY <1>2 DEF NodeLists
  <2> QED
    BY <1>1, <1>2, <2>1 DEF Range
<1> QED
  BY <1>2, <1>3

(* What a trim of a sorted list removes ranks no higher than what it       *)
(* keeps, and it removes something only if it keeps as many as it may.     *)
LEMMA TrimKeepsTop ==
  ASSUME NEW s \in NodeLists, NEW floor \in Nat, NEW field,
         \A i, j \in 1..Len(s) : i < j => s[i][field] >= s[j][field],
         NEW r \in Range(s), r \notin Range(RemoveExcessNodes(s, floor))
  PROVE  LET t == RemoveExcessNodes(s, floor)
         IN  Len(t) = floor /\ \A q \in Range(t) : q[field] >= r[field]
<1> DEFINE t == RemoveExcessNodes(s, floor)
<1>1. DOMAIN s = 1..Len(s) /\ Len(s) \in Nat
  BY DEF NodeLists
<1>2. Len(s) > floor
  BY DEF RemoveExcessNodes
<1>3. t = SubSeq(s, 1, floor)
  BY <1>2 DEF RemoveExcessNodes
<1>4. Len(t) = floor /\ DOMAIN t = 1..floor /\ \A i \in 1..floor : t[i] = s[i]
  <2>1. \A i \in 1..floor : s[i] \in Node
    BY <1>1, <1>2 DEF NodeLists
  <2>2. /\ t \in Seq(Node)
        /\ Len(t) = IF 1 <= floor THEN floor - 1 + 1 ELSE 0
        /\ \A i \in 1..(floor - 1 + 1) : t[i] = s[1 + i - 1]
    BY <1>3, <2>1, SubSeqProperties
  <2>3. Len(t) = floor
    BY <2>2
  <2> QED
    BY <2>2, <2>3
<1> HIDE DEF t
<1>5. PICK k \in 1..Len(s) : r = s[k]
  BY <1>1 DEF Range
<1>6. k > floor
  BY <1>1, <1>4, <1>5 DEF Range, t
<1>7. \A i \in 1..floor : s[i][field] >= r[field]
  BY <1>1, <1>2, <1>5, <1>6
<1> QED
  BY <1>4, <1>7 DEF t, Range

(* The number of candidates is a natural number.                           *)
LEMMA CandidatesCounted ==
  ASSUME NEW s \in NodeLists
  PROVE  CountCandidateNodes(s) \in Nat
<1>1. {i \in DOMAIN s : IsCandidate(s[i])} \subseteq 1..Len(s) /\ Len(s) \in Nat
  BY DEF NodeLists
<1> QED
  BY <1>1, IntervalCardinality, FS_Subset, FS_CardinalityType DEF CountCandidateNodes

(* A trim of a list sorted by utility that leaves room for all candidates  *)
(* removes none of them.                                                   *)
LEMMA TrimKeepsCandidates ==
  ASSUME NEW s \in NodeLists, NEW floor \in Nat,
         \A i, j \in 1..Len(s) : i < j => s[i].utility >= s[j].utility,
         CountCandidateNodes(s) <= floor,
         NEW r \in Range(s), IsCandidate(r)
  PROVE  r \in Range(RemoveExcessNodes(s, floor))
<1> DEFINE t == RemoveExcessNodes(s, floor)
           C == {i \in DOMAIN s : IsCandidate(s[i])}
<1>0. DOMAIN s = 1..Len(s) /\ Len(s) \in Nat /\ \A i \in 1..Len(s) : s[i] \in Node
  BY DEF NodeLists
<1>1. DOMAIN s = 1..Len(s) /\ Len(s) \in Nat /\ \A i \in 1..Len(s) : s[i].utility \in Nat
  BY <1>0 DEF Node
<1>2. PICK k \in 1..Len(s) : r = s[k]
  BY <1>1 DEF Range
<1>3. 1..k \subseteq C
  BY <1>1, <1>2, UnitAssumption DEF IsCandidate
<1>4. IsFiniteSet(C)
  <2>1. C \subseteq 1..Len(s)
    BY <1>1
  <2> QED
    BY <1>1, <2>1, IntervalCardinality, FS_Subset
<1>5. Cardinality(C) <= floor
  BY DEF CountCandidateNodes
<1> HIDE DEF C
<1>6. k <= floor
  <2>1. Cardinality(1..k) = k
    BY <1>2, IntervalCardinality
  <2>2. Cardinality(1..k) <= Cardinality(C) /\ Cardinality(C) \in Nat
    BY <1>3, <1>4, FS_Subset, FS_CardinalityType
  <2> QED
    BY <1>2, <1>5, <2>1, <2>2
<1>7. CASE Len(s) > floor
  <2>1. t = SubSeq(s, 1, floor)
    BY <1>7 DEF RemoveExcessNodes
  <2>2. \A i \in 1..floor : s[i] \in Node
    BY <1>1, <1>7 DEF NodeLists
  <2>3. /\ t \in Seq(Node)
        /\ Len(t) = IF 1 <= floor THEN floor - 1 + 1 ELSE 0
        /\ \A i \in 1..(floor - 1 + 1) : t[i] = s[1 + i - 1]
    BY <2>1, <2>2, SubSeqProperties
  <2> HIDE DEF t
  <2>4. k \in DOMAIN t /\ t[k] = s[k]
    BY <1>2, <1>6, <2>3
  <2> QED
    BY <1>2, <2>4 DEF Range, t
<1>8. CASE ~(Len(s) > floor)
  BY <1>8 DEF RemoveExcessNodes
<1> QED
  BY <1>7, <1>8

-----------------------------------------------------------------------------
(* The cleanup                                                             *)

(* The records that have not expired are finitely many of the list's.      *)
LEMMA UnexpiredProperties ==
  ASSUME NEW s \in NodeLists, NEW time, NEW age
  PROVE  LET S == Unexpired(s, time, age)
         IN  /\ S \subseteq Range(s) /\ S \subseteq Node /\ IsFiniteSet(S)
             /\ Cardinality(S) <= Len(s)
<1> DEFINE S == Unexpired(s, time, age)
<1>1. S \subseteq Range(s)
  BY DEF Unexpired
<1> HIDE DEF S
<1>2. /\ Range(s) \subseteq Node /\ IsFiniteSet(Range(s))
      /\ Cardinality(Range(s)) <= Len(s) /\ Len(s) \in Nat
  BY RangeFinite DEF NodeLists
<1>3. IsFiniteSet(S) /\ Cardinality(S) <= Cardinality(Range(s))
  BY <1>1, <1>2, FS_Subset
<1>4. Cardinality(S) \in Nat /\ Cardinality(Range(s)) \in Nat
  BY <1>2, <1>3, FS_CardinalityType
<1>5. Cardinality(S) <= Len(s)
  BY <1>2, <1>3, <1>4
<1> QED
  BY <1>1, <1>2, <1>3, <1>5 DEF S

(* What a cleanup leaves of a list: some of its records, none expired.     *)
LEMMA CleanedProperties ==
  ASSUME NEW s \in NodeLists, NEW time, NEW age, NEW field,
         NEW t \in SortedBy(Unexpired(s, time, age), field)
  PROVE  /\ t \in NodeLists /\ Len(t) <= Len(s)
         /\ Range(t) \subseteq Range(s)
         /\ \A r \in Range(t) : r.timeStamp > time - age
<1> DEFINE S == Unexpired(s, time, age)
<1>1. /\ S \subseteq Range(s) /\ S \subseteq Node /\ IsFiniteSet(S)
      /\ Cardinality(S) <= Len(s)
  BY UnexpiredProperties
<1>2. \A r \in S : r.timeStamp > time - age
  BY DEF Unexpired
<1> HIDE DEF S
<1>3. t \in NodeLists /\ Len(t) = Cardinality(S) /\ Range(t) \subseteq S
  BY <1>1, SortedByProperties DEF S
<1> QED
  BY <1>1, <1>2, <1>3

-----------------------------------------------------------------------------
(* The updates                                                             *)

(* The random nodes after an update: at most N, no node twice, and the     *)
(* client itself only if it was among them before.                         *)
LEMMA UpdatedRandomProperties ==
  ASSUME NEW nc \in NodeLists, NEW rn \in NodeLists, NEW self,
         NEW new \in UpdatedRandomNodes(nc, rn, self)
  PROVE  /\ new \in NodeLists
         /\ Len(new) <= N
         /\ UniqueIDs(new)
         /\ Range(new) \subseteq Range(rn) \cup {r \in Range(nc) : r.nodeID # self}
<1> DEFINE S == Appended(rn, nc, 2 * N, self)
<1>1. /\ S \subseteq Node /\ IsFiniteSet(S)
      /\ S \subseteq Range(rn) \cup {r \in Range(nc) : r.nodeID # self}
  BY AppendedProperties
<1>2. PICK T \in WithoutDuplicates(S) :
        \E s \in SortedBy(T, "timeStamp") : new = RemoveExcessNodes(s, N)
  BY DEF UpdatedRandomNodes
<1> HIDE DEF S
<1>3. PICK s \in SortedBy(T, "timeStamp") : new = RemoveExcessNodes(s, N)
  BY <1>2
<1>4. /\ T \subseteq S /\ T \subseteq Node /\ IsFiniteSet(T)
      /\ \A r, t \in T : r.nodeID = t.nodeID => r = t
  BY <1>1, WithoutDuplicatesProperties
<1>5. s \in NodeLists /\ Range(s) \subseteq T
  BY <1>4, SortedByProperties
<1>6. UniqueIDs(s)
  BY <1>4, SortedByUnique
<1>7. /\ new \in NodeLists
      /\ Len(new) <= N /\ Len(new) <= Len(s)
      /\ \A i \in 1..Len(new) : new[i] = s[i]
      /\ Range(new) \subseteq Range(s)
  BY <1>3, <1>5, RemoveExcessProperties, SizesAssumption
<1>8. UniqueIDs(new)
  BY <1>5, <1>6, <1>7 DEF UniqueIDs, NodeLists
<1> QED
  BY <1>1, <1>4, <1>5, <1>7, <1>8

(* The capacity grows by K within the hard limit, or stays.                *)
LEMMA GrownCapacityProperties ==
  ASSUME NEW nc, NEW max \in Nat
  PROVE  LET size == GrownCapacity(nc, max)
         IN  /\ size \in Nat /\ size >= max
             /\ size # max => size <= NodesMaxSize
BY SizesAssumption DEF GrownCapacity

(* The important nodes after an update: K places are free, they are sorted *)
(* by utility, no node occurs twice, and the client itself only if it was  *)
(* among them before.                                                      *)
LEMMA UpdatedImportantProperties ==
  ASSUME NEW nc \in NodeLists, NEW in \in NodeLists, NEW max \in Nat, max >= K,
         NEW own \in Node,
         NEW new \in UpdatedImportantNodes(nc, in, max, own)
  PROVE  /\ new.nodes \in NodeLists
         /\ new.max \in Nat /\ new.max >= max
         /\ new.max # max => new.max <= NodesMaxSize
         /\ Len(new.nodes) <= new.max - K
         /\ UniqueIDs(new.nodes)
         /\ \A i, j \in DOMAIN new.nodes :
              i < j => new.nodes[i].utility >= new.nodes[j].utility
         /\ IDs(Range(new.nodes))
              \subseteq IDs(Range(in)) \cup (IDs(Range(nc)) \ {own.nodeID})
<1> DEFINE scored == CalculateUtility(nc, own)
           S == Appended(in, scored, max, own.nodeID)
           trimmed(s) == LET size == GrownCapacity(s, max)
                         IN  [nodes |-> RemoveExcessNodes(s, size - K), max |-> size]
<1>1. scored \in NodeLists /\ Len(scored) = Len(nc)
      /\ \A i \in 1..Len(nc) : scored[i].nodeID = nc[i].nodeID
  BY CalculateUtilityType
<1>2. IDs(Range(scored)) \subseteq IDs(Range(nc))
  BY <1>1 DEF IDs, Range, NodeLists
<1> HIDE DEF scored
<1>3. /\ S \subseteq Node /\ IsFiniteSet(S)
      /\ S \subseteq Range(in) \cup {r \in Range(scored) : r.nodeID # own.nodeID}
  BY <1>1, AppendedProperties
<1>4. PICK T \in WithoutDuplicates(S) :
        \E s \in SortedBy(T, "utility") : new = trimmed(s)
  BY DEF UpdatedImportantNodes, scored
<1> HIDE DEF S
<1>5. PICK s \in SortedBy(T, "utility") : new = trimmed(s)
  BY <1>4
<1>6. /\ T \subseteq S /\ T \subseteq Node /\ IsFiniteSet(T)
      /\ \A r, t \in T : r.nodeID = t.nodeID => r = t
  BY <1>3, WithoutDuplicatesProperties
<1>7. /\ s \in NodeLists /\ Range(s) \subseteq T
      /\ \A i, j \in 1..Len(s) : i < j => s[i].utility >= s[j].utility
  BY <1>6, SortedByProperties
<1>8. UniqueIDs(s)
  BY <1>6, SortedByUnique
<1> DEFINE size == GrownCapacity(s, max)
<1>9. size \in Nat /\ size >= max /\ (size # max => size <= NodesMaxSize)
  BY GrownCapacityProperties
<1>10. new.nodes = RemoveExcessNodes(s, size - K) /\ new.max = size
  BY <1>5
<1> HIDE DEF size
<1>11. size - K \in Nat
  BY <1>9, SizesAssumption
<1>12. /\ new.nodes \in NodeLists
       /\ Len(new.nodes) <= size - K /\ Len(new.nodes) <= Len(s)
       /\ \A i \in 1..Len(new.nodes) : new.nodes[i] = s[i]
       /\ Range(new.nodes) \subseteq Range(s)
  BY <1>7, <1>10, <1>11, RemoveExcessProperties
<1>13. /\ DOMAIN new.nodes = 1..Len(new.nodes) /\ DOMAIN s = 1..Len(s)
       /\ \A i \in DOMAIN new.nodes : i \in DOMAIN s /\ new.nodes[i] = s[i]
  <2>1. /\ DOMAIN new.nodes = 1..Len(new.nodes) /\ Len(new.nodes) \in Nat
        /\ DOMAIN s = 1..Len(s) /\ Len(s) \in Nat
    BY <1>7, <1>12 DEF NodeLists
  <2> QED
    BY <1>12, <2>1
<1>14. /\ UniqueIDs(new.nodes)
       /\ \A i, j \in DOMAIN new.nodes :
            i < j => new.nodes[i].utility >= new.nodes[j].utility
  BY <1>7, <1>8, <1>13 DEF UniqueIDs
<1>15. IDs(Range(new.nodes))
         \subseteq IDs(Range(in)) \cup (IDs(Range(nc)) \ {own.nodeID})
  BY <1>2, <1>3, <1>6, <1>7, <1>12 DEF IDs
<1> QED
  BY <1>9, <1>10, <1>12, <1>14, <1>15

(* The important nodes after an update were there before or are records of *)
(* the list with the utility for the client's place.                       *)
LEMMA UpdatedImportantRecords ==
  ASSUME NEW nc \in NodeLists, NEW in \in NodeLists, NEW max \in Nat, max >= K,
         NEW own \in Node,
         NEW new \in UpdatedImportantNodes(nc, in, max, own)
  PROVE  Range(new.nodes) \subseteq Range(in) \cup Range(CalculateUtility(nc, own))
<1> DEFINE scored == CalculateUtility(nc, own)
           S == Appended(in, scored, max, own.nodeID)
           trimmed(s) == LET size == GrownCapacity(s, max)
                         IN  [nodes |-> RemoveExcessNodes(s, size - K), max |-> size]
<1>1. scored \in NodeLists
  BY CalculateUtilityType
<1> HIDE DEF scored
<1>2. /\ S \subseteq Node /\ IsFiniteSet(S)
      /\ S \subseteq Range(in) \cup Range(scored)
  BY <1>1, AppendedProperties
<1>3. PICK T \in WithoutDuplicates(S) :
        \E s \in SortedBy(T, "utility") : new = trimmed(s)
  BY DEF UpdatedImportantNodes, scored
<1> HIDE DEF S
<1>4. PICK s \in SortedBy(T, "utility") : new = trimmed(s)
  BY <1>3
<1>5. T \subseteq S /\ T \subseteq Node /\ IsFiniteSet(T)
  BY <1>2, WithoutDuplicatesProperties
<1>6. s \in NodeLists /\ Range(s) \subseteq T
  BY <1>5, SortedByProperties
<1> DEFINE size == GrownCapacity(s, max)
<1>7. size \in Nat /\ size >= max
  BY GrownCapacityProperties
<1>8. new.nodes = RemoveExcessNodes(s, size - K)
  BY <1>4
<1> HIDE DEF size
<1>9. size - K \in Nat
  BY <1>7, SizesAssumption
<1>10. Range(new.nodes) \subseteq Range(s)
  BY <1>6, <1>8, <1>9, RemoveExcessProperties
<1> QED
  BY <1>2, <1>5, <1>6, <1>10 DEF scored

-----------------------------------------------------------------------------
(* What survives an update                                                 *)

(* An update of the random nodes from no more records than they keep free  *)
(* forgets a node only for N others, none older than a record it had of    *)
(* the node.                                                               *)
LEMMA UpdatedRandomForgets ==
  ASSUME NEW nc \in NodeLists, Len(nc) <= N,
         NEW rn \in NodeLists, Len(rn) <= N, NEW self,
         NEW new \in UpdatedRandomNodes(nc, rn, self),
         NEW d \in Range(rn) \cup Range(nc), d.nodeID # self,
         d.nodeID \notin IDs(Range(new))
  PROVE  /\ Len(new) = N
         /\ \E e \in Range(rn) \cup Range(nc) :
              /\ e.nodeID = d.nodeID
              /\ \A r \in Range(new) : r.timeStamp >= e.timeStamp
<1> DEFINE S == Appended(rn, nc, 2 * N, self)
<1>1. S \subseteq Node /\ IsFiniteSet(S)
  BY AppendedProperties
<1>2. S = Range(rn) \cup {r \in Range(nc) : r.nodeID # self}
  <2>1. /\ 2 * N \in Nat /\ Len(rn) \in Nat /\ Len(nc) \in Nat
        /\ Len(rn) <= 2 * N /\ N <= 2 * N - Len(rn)
    BY SizesAssumption DEF NodeLists
  <2>2. /\ Cardinality(Accepted(nc, self)) \in Nat
        /\ Cardinality(Accepted(nc, self)) <= Len(nc)
    BY AcceptedPositions
  <2>3. Cardinality(Accepted(nc, self)) <= 2 * N - Len(rn)
    BY <2>1, <2>2, SizesAssumption
  <2> QED
    BY <2>1, <2>3, AppendedFits
<1>3. PICK T \in WithoutDuplicates(S) :
        \E s \in SortedBy(T, "timeStamp") : new = RemoveExcessNodes(s, N)
  BY DEF UpdatedRandomNodes
<1>4. d \in S
  BY <1>2
<1> HIDE DEF S
<1>5. PICK s \in SortedBy(T, "timeStamp") : new = RemoveExcessNodes(s, N)
  BY <1>3
<1>6. /\ T \subseteq S /\ T \subseteq Node /\ IsFiniteSet(T)
      /\ \E t \in T : t.nodeID = d.nodeID
  BY <1>1, <1>4, WithoutDuplicatesProperties
<1>7. PICK e \in T : e.nodeID = d.nodeID
  BY <1>6
<1>8. /\ s \in NodeLists /\ Range(s) = T
      /\ \A i, j \in 1..Len(s) : i < j => s[i].timeStamp >= s[j].timeStamp
  BY <1>6, SortedByProperties, SortedByComplete
<1>9. e \in Range(s) /\ e \notin Range(new)
  BY <1>7, <1>8 DEF IDs
<1>10. Len(new) = N /\ \A r \in Range(new) : r.timeStamp >= e.timeStamp
  BY <1>5, <1>8, <1>9, TrimKeepsTop, SizesAssumption
<1> QED
  BY <1>2, <1>6, <1>7, <1>10

(* The important nodes after an update have no room for the record t: they *)
(* are as many as a trim leaves and at least as useful, and if t is a      *)
(* candidate the list may grow no more.                                    *)
NoRoomFor(t, new) ==
  /\ Len(new.nodes) = new.max - K
  /\ \A r \in Range(new.nodes) : r.utility >= t.utility
  /\ IsCandidate(t) => new.max + K > NodesMaxSize

(* An update of the important nodes, one record per identifier of what     *)
(* was appended, keeps every one of these that there is room for.          *)
LEMMA UpdatedImportantChoice ==
  ASSUME NEW nc \in NodeLists, NEW in \in NodeLists, NEW max \in Nat, max >= K,
         Len(in) <= max, NEW own \in Node,
         NEW new \in UpdatedImportantNodes(nc, in, max, own)
  PROVE  \E T \in WithoutDuplicates(
                    Appended(in, CalculateUtility(nc, own), max, own.nodeID)) :
           \A t \in T : t \in Range(new.nodes) \/ NoRoomFor(t, new)
<1> DEFINE scored == CalculateUtility(nc, own)
           S == Appended(in, scored, max, own.nodeID)
           trimmed(s) == LET size == GrownCapacity(s, max)
                         IN  [nodes |-> RemoveExcessNodes(s, size - K), max |-> size]
<1>1. scored \in NodeLists
  BY CalculateUtilityType
<1> HIDE DEF scored
<1>2. S \subseteq Node /\ IsFiniteSet(S) /\ Cardinality(S) <= max
  BY <1>1, AppendedProperties, AppendedFits
<1>3. PICK T \in WithoutDuplicates(S) :
        \E s \in SortedBy(T, "utility") : new = trimmed(s)
  BY DEF UpdatedImportantNodes, scored
<1> HIDE DEF S
<1>4. PICK s \in SortedBy(T, "utility") : new = trimmed(s)
  BY <1>3
<1>5. T \subseteq S /\ T \subseteq Node /\ IsFiniteSet(T)
  BY <1>2, WithoutDuplicatesProperties
<1>6. /\ s \in NodeLists /\ Range(s) = T /\ Len(s) = Cardinality(T)
      /\ \A i, j \in 1..Len(s) : i < j => s[i].utility >= s[j].utility
  BY <1>5, SortedByProperties, SortedByComplete
<1>7. Len(s) <= max
  <2>1. /\ Cardinality(T) <= Cardinality(S)
        /\ Cardinality(T) \in Nat /\ Cardinality(S) \in Nat
    BY <1>2, <1>5, FS_Subset, FS_CardinalityType
  <2> QED
    BY <1>2, <1>6, <2>1
<1> DEFINE size == GrownCapacity(s, max)
<1>8. new.nodes = RemoveExcessNodes(s, size - K) /\ new.max = size
  BY <1>4
<1>9. size \in Nat /\ size - K \in Nat
  BY GrownCapacityProperties, SizesAssumption
<1>10. ASSUME NEW t \in T, t \notin Range(new.nodes) PROVE NoRoomFor(t, new)
  <2>1. Len(new.nodes) = size - K /\ \A r \in Range(new.nodes) : r.utility >= t.utility
    <3> HIDE DEF size
    <3> QED
      BY <1>6, <1>8, <1>9, <1>10, TrimKeepsTop
  <2>2. ASSUME IsCandidate(t) PROVE size + K > NodesMaxSize
    <3>1. CASE CountCandidateNodes(s) > max - K /\ max + K <= NodesMaxSize
      <4>1. size - K = max
        BY <3>1, SizesAssumption DEF GrownCapacity
      <4>2. new.nodes = s
        BY <1>6, <1>7, <1>8, <4>1 DEF RemoveExcessNodes, NodeLists
      <4> QED
        BY <1>6, <1>10, <4>2
    <3>2. CASE max + K > NodesMaxSize
      BY <3>2, SizesAssumption DEF GrownCapacity
    <3>3. CASE CountCandidateNodes(s) <= max - K
      <4>1. CountCandidateNodes(s) \in Nat
        BY <1>6, CandidatesCounted
      <4>2. size = max /\ max - K \in Nat
        BY <3>3, <4>1, SizesAssumption DEF GrownCapacity
      <4>3. t \in Range(new.nodes)
        BY <1>6, <1>8, <2>2, <3>3, <4>2, TrimKeepsCandidates
      <4> QED
        BY <1>10, <4>3
    <3>4. CountCandidateNodes(s) \in Nat
      BY <1>6, CandidatesCounted
    <3> QED
      BY <3>1, <3>2, <3>3, <3>4, SizesAssumption
  <2> QED
    BY <1>8, <2>1, <2>2 DEF NoRoomFor
<1> QED
  BY <1>10 DEF S, scored

(* An update forgets a node that was appended only if it has no room for a *)
(* record it had of the node.                                              *)
LEMMA UpdatedImportantForgets ==
  ASSUME NEW nc \in NodeLists, NEW in \in NodeLists, NEW max \in Nat, max >= K,
         Len(in) <= max, NEW own \in Node,
         NEW new \in UpdatedImportantNodes(nc, in, max, own),
         NEW id \in IDs(Appended(in, CalculateUtility(nc, own), max, own.nodeID)),
         id \notin IDs(Range(new.nodes))
  PROVE  \E d \in Range(in) \cup Range(CalculateUtility(nc, own)) :
           d.nodeID = id /\ NoRoomFor(d, new)
<1> DEFINE scored == CalculateUtility(nc, own)
           S == Appended(in, scored, max, own.nodeID)
<1>1. scored \in NodeLists
  BY CalculateUtilityType
<1> HIDE DEF scored
<1>2. S \subseteq Node /\ IsFiniteSet(S) /\ S \subseteq Range(in) \cup Range(scored)
  BY <1>1, AppendedProperties
<1>3. PICK T \in WithoutDuplicates(S) :
        \A t \in T : t \in Range(new.nodes) \/ NoRoomFor(t, new)
  BY UpdatedImportantChoice DEF scored
<1>4. PICK r \in S : r.nodeID = id
  BY DEF IDs, scored
<1> HIDE DEF S
<1>5. PICK t \in T : t.nodeID = id
  BY <1>2, <1>4, WithoutDuplicatesProperties
<1>6. t \in Range(in) \cup Range(scored)
  BY <1>2, <1>5, WithoutDuplicatesProperties
<1>7. t \notin Range(new.nodes)
  BY <1>5 DEF IDs
<1> QED
  BY <1>3, <1>5, <1>6, <1>7 DEF scored

(* All the nodes of a list that fits the K free places are appended, but   *)
(* the client itself.                                                      *)
LEMMA AppendedAll ==
  ASSUME NEW nc \in NodeLists, Len(nc) <= K,
         NEW in \in NodeLists, NEW max \in Nat, Len(in) <= max - K, NEW own \in Node
  PROVE  IDs(Range(nc)) \ {own.nodeID}
           \subseteq IDs(Appended(in, CalculateUtility(nc, own), max, own.nodeID))
<1> DEFINE scored == CalculateUtility(nc, own)
           S == Appended(in, scored, max, own.nodeID)
<1>1. scored \in NodeLists /\ Len(scored) = Len(nc) /\ IDs(Range(scored)) = IDs(Range(nc))
  BY CalculateUtilityType, CalculateUtilityKeeps
<1> HIDE DEF scored
<1>2. Len(in) \in Nat /\ Len(nc) \in Nat /\ Len(in) <= max
  BY SizesAssumption DEF NodeLists
<1>3. S = Range(in) \cup {q \in Range(scored) : q.nodeID # own.nodeID}
  <2>1. /\ Cardinality(Accepted(scored, own.nodeID)) \in Nat
        /\ Cardinality(Accepted(scored, own.nodeID)) <= Len(nc)
    BY <1>1, AcceptedPositions
  <2>2. Cardinality(Accepted(scored, own.nodeID)) <= max - Len(in)
    BY <1>2, <2>1, SizesAssumption
  <2> QED
    BY <1>1, <1>2, <2>2, AppendedFits
<1> QED
  BY <1>1, <1>3 DEF IDs, S, scored

-----------------------------------------------------------------------------
(* The payloads                                                            *)

(* Packing changes nothing but the utilities.                              *)
LEMMA OnTheWireType ==
  ASSUME NEW nc \in NodeLists
  PROVE  /\ OnTheWire(nc) \in NodeLists
         /\ Len(OnTheWire(nc)) = Len(nc)
         /\ \A i \in 1..Len(nc) : OnTheWire(nc)[i] = [nc[i] EXCEPT !.utility = 0]
<1> DEFINE w == OnTheWire(nc)
<1>1. DOMAIN nc = 1..Len(nc) /\ Len(nc) \in Nat
  BY DEF NodeLists
<1>2. ASSUME NEW i \in 1..Len(nc)
      PROVE  w[i] \in Node /\ w[i] = [nc[i] EXCEPT !.utility = 0]
  <2>1. nc[i] \in Node
    BY DEF NodeLists
  <2>2. w[i] = [nc[i] EXCEPT !.utility = 0]
    BY <1>1 DEF OnTheWire
  <2> QED
    BY <2>1, <2>2 DEF Node
<1>3. w \in [1..Len(nc) -> Node]
  BY <1>1, <1>2 DEF OnTheWire
<1> QED
  BY <1>1, <1>2, <1>3 DEF NodeLists

(* Packing forgets the utilities and changes nothing else.                 *)
LEMMA OnTheWireRecords ==
  ASSUME NEW nc \in NodeLists, NEW r \in Range(OnTheWire(nc))
  PROVE  \E q \in Range(nc) : q \in Node /\ r = [q EXCEPT !.utility = 0]
<1>1. DOMAIN nc = 1..Len(nc) /\ \A i \in 1..Len(nc) : nc[i] \in Node
  BY DEF NodeLists
<1>2. PICK i \in DOMAIN nc : r = [nc[i] EXCEPT !.utility = 0]
  BY DEF OnTheWire, Range
<1>3. nc[i] \in Range(nc) /\ nc[i] \in Node
  BY <1>1 DEF Range
<1> QED
  BY <1>2, <1>3

(* A random payload is a list of at most N nodes, if the random nodes are. *)
LEMMA RandomPayloadType ==
  ASSUME NEW rn \in NodeLists, NEW own \in Node
  PROVE  LET p == RandomPayload(rn, own)
         IN  /\ p \in NodeLists
             /\ Len(p) >= 1 /\ (Len(p) <= Len(rn) \/ Len(p) = 1)
             /\ p[1] = own
             /\ \A i \in 2..Len(p) : i - 1 \in 1..Len(rn) /\ p[i] = rn[i - 1]
<1>1. Len(rn) \in Nat /\ \A i \in 1..Len(rn) : rn[i] \in Node
  BY DEF NodeLists
<1>2. CASE Len(rn) > 1
  <2> DEFINE t == SubSeq(rn, 1, Len(rn) - 1)
  <2>1. \A i \in 1..(Len(rn) - 1) : rn[i] \in Node
    BY <1>1
  <2>2. /\ t \in Seq(Node)
        /\ Len(t) = IF 1 <= Len(rn) - 1 THEN Len(rn) - 1 - 1 + 1 ELSE 0
        /\ \A i \in 1..(Len(rn) - 1 - 1 + 1) : t[i] = rn[1 + i - 1]
    BY <1>1, <2>1, SubSeqProperties
  <2>3. <<own>> \in Seq(Node) /\ Len(<<own>>) = 1 /\ <<own>>[1] = own
    OBVIOUS
  <2>4. RandomPayload(rn, own) = <<own>> \o t
    BY <1>2 DEF RandomPayload
  <2> HIDE DEF t
  <2>5. /\ <<own>> \o t \in Seq(Node)
        /\ Len(<<own>> \o t) = 1 + Len(t)
        /\ \A i \in 1..(1 + Len(t)) : (<<own>> \o t)[i] =
             IF i <= 1 THEN <<own>>[i] ELSE t[i - 1]
    BY <2>2, <2>3, ConcatProperties
  <2> QED
    BY <1>1, <1>2, <2>2, <2>3, <2>4, <2>5 DEF NodeLists
<1>3. CASE ~(Len(rn) > 1)
  BY <1>1, <1>3 DEF RandomPayload, NodeLists
<1> QED
  BY <1>2, <1>3

(* A payload of random nodes holds the own node and records of the list.   *)
LEMMA RandomPayloadSources ==
  ASSUME NEW rn \in NodeLists, NEW own \in Node
  PROVE  Range(RandomPayload(rn, own)) \subseteq {own} \cup Range(rn)
<1> DEFINE p == RandomPayload(rn, own)
<1>1. /\ p \in NodeLists
      /\ p[1] = own
      /\ \A i \in 2..Len(p) : i - 1 \in 1..Len(rn) /\ p[i] = rn[i - 1]
  BY RandomPayloadType
<1> HIDE DEF p
<1>2. DOMAIN p = 1..Len(p) /\ Len(p) \in Nat /\ DOMAIN rn = 1..Len(rn)
  BY <1>1 DEF NodeLists
<1>3. ASSUME NEW i \in 1..Len(p) PROVE p[i] \in {own} \cup Range(rn)
  <2>1. CASE i = 1
    BY <1>1, <2>1
  <2>2. CASE i # 1
    <3>1. i \in 2..Len(p)
      BY <1>2, <2>2
    <3>2. i - 1 \in DOMAIN rn /\ p[i] = rn[i - 1]
      BY <1>1, <1>2, <3>1
    <3> QED
      BY <3>2 DEF Range
  <2> QED
    BY <2>1, <2>2
<1>4. Range(p) \subseteq {own} \cup Range(rn)
  BY <1>2, <1>3 DEF Range
<1> QED
  BY <1>4 DEF p

(* What a payload of random nodes has after the own node are records of    *)
(* the list, none of them twice.                                           *)
LEMMA RandomPayloadRecords ==
  ASSUME NEW rn \in NodeLists, NEW own \in Node,
         UniqueIDs(rn), own.nodeID \notin IDs(Range(rn))
  PROVE  LET p == RandomPayload(rn, own)
         IN  /\ UniqueIDs(p)
             /\ \A i \in 2..Len(p) : p[i] \in Range(rn)
<1>1. Len(rn) \in Nat /\ DOMAIN rn = 1..Len(rn) /\ \A i \in 1..Len(rn) : rn[i] \in Node
  BY DEF NodeLists
<1>2. CASE Len(rn) > 1
  <2> DEFINE t == SubSeq(rn, 1, Len(rn) - 1)
  <2>1. \A i \in 1..(Len(rn) - 1) : rn[i] \in Node
    BY <1>1
  <2>2. /\ t \in Seq(Node)
        /\ Len(t) = IF 1 <= Len(rn) - 1 THEN Len(rn) - 1 - 1 + 1 ELSE 0
        /\ \A i \in 1..(Len(rn) - 1 - 1 + 1) : t[i] = rn[1 + i - 1]
    BY <1>1, <2>1, SubSeqProperties
  <2> HIDE DEF t
  <2>3. /\ t \in NodeLists /\ DOMAIN t = 1..(Len(rn) - 1) /\ Len(t) = Len(rn) - 1
        /\ \A i \in DOMAIN t : i \in DOMAIN rn /\ t[i] = rn[i]
    <3>1. Len(t) = Len(rn) - 1 /\ t \in NodeLists
      <4>1. t \in NodeLists
        BY <2>2 DEF NodeLists
      <4>2. 1 <= Len(rn) - 1 /\ Len(rn) - 1 - 1 + 1 = Len(rn) - 1
        BY <1>1, <1>2
      <4> QED
        BY <2>2, <4>1, <4>2
    <3>2. DOMAIN t = 1..(Len(rn) - 1)
      BY <3>1 DEF NodeLists
    <3>3. ASSUME NEW i \in 1..(Len(rn) - 1)
          PROVE  i \in DOMAIN rn /\ t[i] = rn[i]
      <4>1. i \in 1..(Len(rn) - 1 - 1 + 1) /\ 1 + i - 1 = i /\ i \in 1..Len(rn)
        BY <1>1
      <4> QED
        BY <1>1, <2>2, <4>1
    <3> QED
      BY <3>1, <3>2, <3>3
  <2>4. UniqueIDs(t) /\ Range(t) \subseteq Range(rn)
    BY <2>3 DEF UniqueIDs, Range
  <2>5. own.nodeID \notin IDs(Range(t))
    BY <2>4 DEF IDs
  <2>6. UniqueIDs(<<own>> \o t) /\ \A i \in 2..Len(<<own>> \o t) : (<<own>> \o t)[i] \in Range(t)
    <3> DEFINE p == <<own>> \o t
    <3>1. /\ \A i \in 2..Len(p) : i - 1 \in 1..Len(t) /\ p[i] = t[i - 1]
          /\ (UniqueIDs(t) /\ own.nodeID \notin IDs(Range(t))) => UniqueIDs(p)
      BY <2>3, PrependProperties
    <3>2. \A i \in 1..Len(t) : t[i] \in Range(t)
      BY <2>3 DEF Range
    <3> HIDE DEF p
    <3> QED
      BY <2>4, <2>5, <3>1, <3>2 DEF p
  <2> QED
    BY <1>2, <2>4, <2>6 DEF RandomPayload, t
<1>3. CASE ~(Len(rn) > 1)
  BY <1>3 DEF RandomPayload, UniqueIDs
<1> QED
  BY <1>2, <1>3

(* An important payload is the own node and at most K records of the list  *)
(* (with other utilities).                                                 *)
LEMMA ImportantPayloadType ==
  ASSUME NEW in \in NodeLists, NEW own \in Node, NEW peer \in Node,
         NEW p \in ImportantPayloads(in, own, peer)
  PROVE  /\ p \in NodeLists
         /\ Len(p) >= 1 /\ Len(p) <= K + 1
         /\ p[1] = own
<1> DEFINE scored == CalculateUtility(in, peer)
<1>1. PICK t \in NodeLists : Len(t) <= K /\ p = <<own>> \o t
  <2>1. CASE Len(in) > K
    <3>1. PICK s \in SortedBy(Range(scored), "utility") :
            p = <<own>> \o RemoveExcessNodes(s, K)
      BY <2>1 DEF ImportantPayloads
    <3>2. Range(scored) \subseteq Node /\ IsFiniteSet(Range(scored))
      BY CalculateUtilityType, RangeFinite
    <3>3. s \in NodeLists
      BY <3>2, SortedByProperties
    <3>4. RemoveExcessNodes(s, K) \in NodeLists /\ Len(RemoveExcessNodes(s, K)) <= K
      BY <3>3, RemoveExcessProperties, SizesAssumption
    <3> QED
      BY <3>1, <3>4
  <2>2. CASE ~(Len(in) > K)
    <3>1. p = <<own>> \o in
      BY <2>2 DEF ImportantPayloads
    <3>2. Len(in) <= K
      BY <2>2, SizesAssumption DEF NodeLists
    <3> QED
      BY <3>1, <3>2
  <2> QED
    BY <2>1, <2>2
<1>2. <<own>> \in Seq(Node) /\ Len(<<own>>) = 1 /\ <<own>>[1] = own
  OBVIOUS
<1>3. /\ <<own>> \o t \in Seq(Node)
      /\ Len(<<own>> \o t) = 1 + Len(t)
      /\ \A i \in 1..(1 + Len(t)) : (<<own>> \o t)[i] =
           IF i <= 1 THEN <<own>>[i] ELSE t[i - 1]
  BY <1>2, ConcatProperties DEF NodeLists
<1>4. Len(t) \in Nat
  BY DEF NodeLists
<1> QED
  BY <1>1, <1>2, <1>3, <1>4, SizesAssumption DEF NodeLists

(* A payload of important nodes holds the own node and records of the      *)
(* list, with their utilities or with those for the receiver.              *)
LEMMA ImportantPayloadSources ==
  ASSUME NEW in \in NodeLists, NEW own \in Node, NEW peer \in Node,
         NEW p \in ImportantPayloads(in, own, peer)
  PROVE  Range(p) \subseteq {own} \cup Range(in) \cup Range(CalculateUtility(in, peer))
<1> DEFINE scored == CalculateUtility(in, peer)
<1>1. PICK t \in NodeLists : /\ Range(t) \subseteq Range(in) \cup Range(scored)
                             /\ p = <<own>> \o t
  <2>1. CASE Len(in) > K
    <3>1. PICK s \in SortedBy(Range(scored), "utility") :
            p = <<own>> \o RemoveExcessNodes(s, K)
      BY <2>1 DEF ImportantPayloads
    <3>2. Range(scored) \subseteq Node /\ IsFiniteSet(Range(scored))
      BY CalculateUtilityType, RangeFinite
    <3> HIDE DEF scored
    <3>3. s \in NodeLists /\ Range(s) \subseteq Range(scored)
      BY <3>2, SortedByProperties
    <3>4. /\ RemoveExcessNodes(s, K) \in NodeLists
          /\ Range(RemoveExcessNodes(s, K)) \subseteq Range(s)
      BY <3>3, RemoveExcessProperties, SizesAssumption
    <3> QED
      BY <3>1, <3>3, <3>4
  <2>2. CASE ~(Len(in) > K)
    BY <2>2 DEF ImportantPayloads
  <2> QED
    BY <2>1, <2>2
<1> HIDE DEF scored
<1>2. /\ p \in NodeLists /\ Len(p) = Len(t) + 1
      /\ p[1] = own
      /\ \A i \in 2..Len(p) : i - 1 \in 1..Len(t) /\ p[i] = t[i - 1]
  BY <1>1, PrependProperties
<1>3. DOMAIN p = 1..Len(p) /\ Len(p) \in Nat /\ DOMAIN t = 1..Len(t) /\ Len(t) \in Nat
  BY <1>2 DEF NodeLists
<1>4. ASSUME NEW i \in 1..Len(p) PROVE p[i] \in {own} \cup Range(t)
  <2>1. CASE i = 1
    BY <1>2, <2>1
  <2>2. CASE i # 1
    <3>1. i \in 2..Len(p)
      BY <1>3, <2>2
    <3>2. i - 1 \in DOMAIN t /\ p[i] = t[i - 1]
      BY <1>2, <1>3, <3>1
    <3> QED
      BY <3>2 DEF Range
  <2> QED
    BY <2>1, <2>2
<1>5. Range(p) \subseteq {own} \cup Range(t)
  BY <1>3, <1>4 DEF Range
<1> QED
  BY <1>1, <1>5 DEF scored

(* What a payload of important nodes has after the own node are records of *)
(* the list (with other utilities), none of them twice.                    *)
LEMMA ImportantPayloadRecords ==
  ASSUME NEW in \in NodeLists, NEW own \in Node, NEW peer \in Node,
         UniqueIDs(in), own.nodeID \notin IDs(Range(in)),
         NEW p \in ImportantPayloads(in, own, peer)
  PROVE  /\ UniqueIDs(p)
         /\ \A i \in 2..Len(p) : \E r \in Range(in) :
              p[i].nodeID = r.nodeID /\ p[i].timeStamp = r.timeStamp
<1> DEFINE scored == CalculateUtility(in, peer)
           Stems(t) == \A i \in 1..Len(t) : \E r \in Range(in) :
                         t[i].nodeID = r.nodeID /\ t[i].timeStamp = r.timeStamp
<1>1. Len(in) \in Nat /\ DOMAIN in = 1..Len(in)
  BY DEF NodeLists
<1>2. PICK t \in NodeLists : UniqueIDs(t) /\ Stems(t) /\ p = <<own>> \o t
  <2>1. CASE Len(in) > K
    <3>1. PICK s \in SortedBy(Range(scored), "utility") :
            p = <<own>> \o RemoveExcessNodes(s, K)
      BY <2>1 DEF ImportantPayloads
    <3>2. /\ scored \in NodeLists /\ Len(scored) = Len(in)
          /\ \A i \in 1..Len(in) : /\ scored[i].nodeID = in[i].nodeID
                                   /\ scored[i].timeStamp = in[i].timeStamp
      BY CalculateUtilityType
    <3> HIDE DEF scored
    <3>3. DOMAIN scored = 1..Len(in)
      BY <3>2 DEF NodeLists
    <3>4. Range(scored) \subseteq Node /\ IsFiniteSet(Range(scored))
      BY <3>2, RangeFinite
    <3>5. \A q, r \in Range(scored) : q.nodeID = r.nodeID => q = r
      BY <1>1, <3>2, <3>3 DEF UniqueIDs, Range
    <3>6. \A q \in Range(scored) : \E r \in Range(in) :
            q.nodeID = r.nodeID /\ q.timeStamp = r.timeStamp
      BY <1>1, <3>2, <3>3 DEF Range
    <3>7. s \in NodeLists /\ (\A i \in 1..Len(s) : s[i] \in Range(scored)) /\ UniqueIDs(s)
      BY <3>4, <3>5, SortedByProperties, SortedByUnique
    <3> DEFINE u == RemoveExcessNodes(s, K)
    <3>8. /\ u \in NodeLists /\ Len(u) <= Len(s)
          /\ \A i \in 1..Len(u) : u[i] = s[i]
      BY <3>7, RemoveExcessProperties, SizesAssumption
    <3> HIDE DEF u
    <3>9. /\ DOMAIN u = 1..Len(u) /\ Len(u) \in Nat
          /\ DOMAIN s = 1..Len(s) /\ Len(s) \in Nat
      BY <3>7, <3>8 DEF NodeLists
    <3>10. \A i \in 1..Len(u) : i \in 1..Len(s) /\ u[i] = s[i]
      BY <3>8, <3>9
    <3>11. UniqueIDs(u) /\ Stems(u)
      BY <3>6, <3>7, <3>9, <3>10 DEF UniqueIDs
    <3> QED
      BY <3>1, <3>8, <3>11 DEF u
  <2>2. CASE ~(Len(in) > K)
    <3>1. p = <<own>> \o in
      BY <2>2 DEF ImportantPayloads
    <3>2. Stems(in)
      BY <1>1 DEF Range
    <3> QED
      BY <3>1, <3>2
  <2> QED
    BY <2>1, <2>2
<1>3. own.nodeID \notin IDs(Range(t))
  <2>1. DOMAIN t = 1..Len(t)
    BY DEF NodeLists
  <2>2. \A q \in Range(t) : \E r \in Range(in) : q.nodeID = r.nodeID
    BY <1>2, <2>1 DEF Range
  <2> QED
    BY <2>2 DEF IDs
<1>4. /\ UniqueIDs(p)
      /\ \A i \in 2..Len(p) : i - 1 \in 1..Len(t) /\ p[i] = t[i - 1]
  BY <1>2, <1>3, PrependProperties
<1> QED
  BY <1>2, <1>4

(* An answer to a request for important nodes: the own node, then records  *)
(* of the list such that none left out is more useful to the peer.         *)
LEMMA ImportantPayloadUseful ==
  ASSUME NEW in \in NodeLists, NEW own \in Node, NEW peer \in Node,
         NEW nc \in ImportantPayloads(in, own, peer),
         NEW r \in Range(in), NEW i \in 1..Len(nc)
  PROVE  \/ r.nodeID \in IDs(Range(nc))
         \/ i = 1
         \/ NodeUtility(peer, r) <= NodeUtility(peer, nc[i])
<1>1. CASE Len(in) > K
  <2> DEFINE c == CalculateUtility(in, peer)
  <2>1. /\ c \in NodeLists /\ Len(c) = Len(in)
        /\ DOMAIN in = 1..Len(in) /\ DOMAIN c = 1..Len(in)
        /\ \A k \in 1..Len(in) :
             /\ in[k] \in Node
             /\ c[k] = [in[k] EXCEPT !.utility = NodeUtility(peer, in[k])]
             /\ c[k].nodeID = in[k].nodeID
             /\ c[k].utility = NodeUtility(peer, in[k])
    <3>1. /\ DOMAIN in = 1..Len(in) /\ \A k \in 1..Len(in) : in[k] \in Node
      BY DEF NodeLists
    <3>2. c \in NodeLists /\ Len(c) = Len(in)
      BY CalculateUtilityType
    <3>3. /\ DOMAIN c = 1..Len(in)
          /\ \A k \in 1..Len(in) :
               c[k] = [in[k] EXCEPT !.utility = NodeUtility(peer, in[k])]
      BY <3>1 DEF CalculateUtility
    <3>4. \A k \in 1..Len(in) : /\ c[k].nodeID = in[k].nodeID
                                /\ c[k].utility = NodeUtility(peer, in[k])
      BY CalculateUtilityType
    <3> QED
      BY <3>1, <3>2, <3>3, <3>4
  <2> HIDE DEF c
  <2>2. PICK s \in SortedBy(Range(c), "utility") :
          nc = <<own>> \o RemoveExcessNodes(s, K)
    BY <1>1 DEF ImportantPayloads, c
  <2>3. Range(c) \subseteq Node /\ IsFiniteSet(Range(c))
    BY <2>1, RangeFinite
  <2>4. /\ s \in NodeLists /\ Range(s) = Range(c)
        /\ \A j, k \in 1..Len(s) : j < k => s[j].utility >= s[k].utility
    BY <2>3, SortedByProperties, SortedByComplete
  <2> DEFINE t == RemoveExcessNodes(s, K)
  <2>5. t \in NodeLists /\ Range(t) \subseteq Range(s)
    BY <2>4, RemoveExcessProperties, SizesAssumption
  <2>6. /\ Len(nc) = Len(t) + 1 /\ Len(t) \in Nat
        /\ \A j \in 2..Len(nc) : j - 1 \in 1..Len(t) /\ nc[j] = t[j - 1]
        /\ nc \in NodeLists
    BY <2>2, <2>5, PrependProperties DEF NodeLists
  <2>7. PICK k \in 1..Len(in) : r = in[k]
    BY <2>1 DEF Range
  <2>8. c[k] \in Range(s)
    BY <2>1, <2>4 DEF Range
  <2>9. CASE c[k] \in Range(t)
    <3>1. PICK j \in 1..Len(t) : t[j] = c[k]
      BY <2>5, <2>9 DEF Range, NodeLists
    <3>2. j + 1 \in DOMAIN nc /\ nc[j + 1] = c[k]
      BY <2>6, <3>1 DEF NodeLists
    <3> QED
      BY <2>1, <2>7, <3>2 DEF IDs, Range
  <2>10. CASE c[k] \notin Range(t) /\ i # 1
    <3>1. \A q \in Range(t) : q.utility >= c[k].utility
      BY <2>4, <2>8, <2>10, TrimKeepsTop, SizesAssumption
    <3> HIDE DEF t
    <3>2. nc[i] \in Range(t)
      <4>1. i \in 2..Len(nc)
        BY <2>6, <2>10
      <4>2. i - 1 \in DOMAIN t /\ nc[i] = t[i - 1]
        BY <2>5, <2>6, <4>1 DEF NodeLists
      <4> QED
        BY <4>2 DEF Range
    <3>3. PICK j \in 1..Len(in) : nc[i] = c[j]
      <4>1. nc[i] \in Range(c)
        BY <2>4, <2>5, <3>2
      <4> QED
        BY <2>1, <4>1 DEF Range
    <3>4. NodeUtility(peer, nc[i]) = NodeUtility(peer, in[j])
      <4>1. /\ in[j] \in Node
            /\ nc[i] = [in[j] EXCEPT !.utility = NodeUtility(peer, in[j])]
        BY <2>1, <3>3
      <4>2. nc[i].pos = in[j].pos /\ nc[i].coordRange = in[j].coordRange
        BY <4>1 DEF Node
      <4> QED
        BY <4>2, UtilityOfPlace
    <3>5. c[k].utility <= c[j].utility
      <4>1. c[j].utility >= c[k].utility
        BY <3>1, <3>2, <3>3
      <4>2. c[j].utility \in Nat /\ c[k].utility \in Nat
        BY <2>1, UtilityType
      <4> QED
        BY <4>1, <4>2
    <3> QED
      BY <2>1, <2>7, <3>3, <3>4, <3>5
  <2> QED
    BY <2>9, <2>10
<1>2. CASE ~(Len(in) > K)
  <2>1. nc = <<own>> \o in
    BY <1>2 DEF ImportantPayloads
  <2>2. /\ Len(nc) = Len(in) + 1 /\ nc \in NodeLists /\ Len(in) \in Nat
        /\ \A j \in 2..Len(nc) : nc[j] = in[j - 1]
    BY <2>1, PrependProperties DEF NodeLists
  <2>3. PICK k \in 1..Len(in) : r = in[k]
    BY DEF Range, NodeLists
  <2>4. k + 1 \in DOMAIN nc /\ nc[k + 1] = r
    BY <2>2, <2>3 DEF NodeLists
  <2> QED
    BY <2>4 DEF IDs, Range
<1> QED
  BY <1>1, <1>2

-----------------------------------------------------------------------------
(* Whom to contact                                                         *)

(* The choice among the important nodes stays within the list.             *)
LEMMA ImportantRangeBound ==
  ASSUME NEW in \in NodeLists
  PROVE  ImportantRange(in) \in Nat /\ ImportantRange(in) <= Len(in)
<1> DEFINE C == {i \in DOMAIN in : IsCandidate(in[i])}
<1>1. Len(in) \in Nat /\ DOMAIN in = 1..Len(in)
  BY DEF NodeLists
<1>2. IsFiniteSet(1..Len(in)) /\ Cardinality(1..Len(in)) = Len(in)
  BY <1>1, IntervalCardinality
<1>3. C \subseteq 1..Len(in)
  BY <1>1
<1> HIDE DEF C
<1>4. Cardinality(C) \in Nat /\ Cardinality(C) <= Len(in)
  BY <1>2, <1>3, FS_Subset, FS_CardinalityType
<1>5. CountCandidateNodes(in) \in Nat /\ CountCandidateNodes(in) <= Len(in)
  BY <1>4 DEF CountCandidateNodes, C
<1> QED
  BY <1>1, <1>5, SizesAssumption DEF ImportantRange
=============================================================================
