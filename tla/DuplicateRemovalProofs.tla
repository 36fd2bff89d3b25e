----------------------- MODULE DuplicateRemovalProofs -----------------------
(***************************************************************************)
(* NodeCollection_removeDuplicateNodes leaves exactly one record of every  *)
(* identifier and counts them right, whatever array it is called with and  *)
(* however qsort orders equal elements.  That is what the operator         *)
(* WithoutDuplicates of NodeCollection, and Protocol with it, assume of    *)
(* the function.  That the call returns is liveness and left to model      *)
(* checking.                                                               *)
(***************************************************************************)
EXTENDS DuplicateRemoval, FiniteSetTheorems, FunctionTheorems, SequenceTheorems,
        WellFoundedInduction, TLAPS

-----------------------------------------------------------------------------
(* Sets of positions                                                       *)

(* The indices of a list are as many as it is long.                        *)
LEMMA IntervalCardinality ==
  ASSUME NEW n \in Nat
  PROVE  IsFiniteSet(1..n) /\ Cardinality(1..n) = n
<1>1. IsFiniteSet(1..n) /\ Cardinality(1..n) = IF 1 > n THEN 0 ELSE n - 1 + 1
  BY FS_Interval, 1 \in Int, n \in Int
<1> QED
  BY <1>1

(* A set of positions that is not empty has a last one.                    *)
LEMMA LastPosition ==
  ASSUME NEW n \in Nat, NEW S, S \subseteq 1..n, S # {}
  PROVE  \E m \in S : \A k \in S : k <= m
<1> DEFINE R == OpToRel(<, Nat)
           T == {d \in 0..n : n - d \in S}
<1>1. IsWellFoundedOn(R, Nat)
  BY NatLessThanWellFounded
<1>2. \A x, y \in Nat : <<y, x>> \in R <=> y < x
  BY DEF OpToRel
<1>3. T \subseteq Nat /\ T # {}
  <2>1. PICK k \in S : k \in 1..n
    OBVIOUS
  <2>2. n - k \in T
    BY <2>1
  <2>3. T \subseteq Nat
    OBVIOUS
  <2> HIDE DEF T
  <2> QED
    BY <2>2, <2>3
<1> HIDE DEF R
<1>4. PICK d \in T : \A e \in T : ~(<<e, d>> \in R)
  BY <1>1, <1>3, WFMin
<1>5. \A e \in T : ~(e < d)
  BY <1>2, <1>3, <1>4
<1>6. ASSUME NEW k \in S PROVE k <= n - d
  <2>1. n - k \in T
    OBVIOUS
  <2> QED
    BY <1>5, <2>1
<1> QED
  BY <1>6

-----------------------------------------------------------------------------
(* The inductive invariant                                                 *)

(* The places before place j whose record has a duplicate next in line:    *)
(* those the loop has nulled when it comes to j.                           *)
Nulled(s, j) == {k \in 1..(j - 1) : s[k].nodeID = s[k + 1].nodeID}

(* The sorted array s when the loop comes to place j.                      *)
After(s, j) ==
  [k \in DOMAIN s |-> IF k \in Nulled(s, j) THEN NullOut(s, k)[k] ELSE s[k]]

(* The array stays what some sort of the input makes of it, less the       *)
(* records nulled so far, and the count is that of the others.             *)
Inv ==
  /\ input \in Inputs
  /\ i \in Nat /\ i >= 1 /\ (i <= Len(input) \/ i = 1)
  /\ pc \in {"sort", "scan", "done"}
  /\ pc = "sort" => nodes = input /\ i = 1 /\ nodeCount = Len(input)
  /\ pc = "scan" => \E s \in SortsByNodeID(input) :
                      /\ nodes = After(s, i)
                      /\ nodeCount = Len(input) - Cardinality(Nulled(s, i))
  /\ pc = "done" => /\ nodes \in NodeLists /\ Len(nodes) = Len(input)
                    /\ nodeCount \in 0..Len(input)
  /\ LeavesOnePerID

-----------------------------------------------------------------------------
(* Sorting                                                                 *)

(* A list's indices and identifiers.                                       *)
LEMMA ListRecords ==
  ASSUME NEW s \in NodeLists
  PROVE  /\ DOMAIN s = 1..Len(s) /\ Len(s) \in Nat
         /\ \A k \in 1..Len(s) : s[k] \in Node /\ s[k].nodeID \in Nat
<1>1. DOMAIN s = 1..Len(s) /\ Len(s) \in Nat /\ \A k \in 1..Len(s) : s[k] \in Node
  BY DEF NodeLists
<1> QED
  BY <1>1 DEF Node

(* Sorting by identifier permutes the records and leaves them ordered.     *)
LEMMA SortPermutes ==
  ASSUME NEW s \in NodeLists, NEW t \in SortsByNodeID(s)
  PROVE  \E p \in Bijection(1..Len(s), 1..Len(s)) :
           /\ t \in NodeLists /\ Len(t) = Len(s)
           /\ \A k \in 1..Len(s) : p[k] \in 1..Len(s) /\ t[k] = s[p[k]]
           /\ \A j, k \in 1..Len(s) : j < k => t[j].nodeID >= t[k].nodeID
<1> DEFINE D == 1..Len(s)
<1>1. DOMAIN s = D /\ Len(s) \in Nat /\ \A k \in D : s[k] \in Node
  BY DEF NodeLists
<1>2. PICK p \in Bijection(D, D) :
        /\ t = [k \in D |-> s[p[k]]]
        /\ \A j, k \in D : j < k => s[p[j]].nodeID >= s[p[k]].nodeID
  BY <1>1 DEF SortsByNodeID
<1>3. \A k \in D : p[k] \in D
  BY <1>2 DEF Bijection, Injection
<1>4. t \in [D -> Node]
  BY <1>1, <1>2, <1>3
<1>5. t \in NodeLists /\ Len(t) = Len(s)
  BY <1>1, <1>4 DEF NodeLists
<1>6. \A k \in D : t[k] = s[p[k]]
  BY <1>2
<1> QED
  BY <1>2, <1>3, <1>5, <1>6

(* The records are the same before and after sorting.                      *)
LEMMA SortKeepsRecords ==
  ASSUME NEW s \in NodeLists, NEW t \in SortsByNodeID(s)
  PROVE  Range(t) = Range(s)
<1>1. PICK p \in Bijection(1..Len(s), 1..Len(s)) :
        /\ t \in NodeLists /\ Len(t) = Len(s)
        /\ \A k \in 1..Len(s) : p[k] \in 1..Len(s) /\ t[k] = s[p[k]]
  BY SortPermutes
<1>2. \A m \in 1..Len(s) : \E k \in 1..Len(s) : p[k] = m
  BY <1>1 DEF Bijection, Surjection
<1>3. DOMAIN s = 1..Len(s) /\ DOMAIN t = 1..Len(s)
  BY <1>1 DEF NodeLists
<1>4. Range(t) = {t[k] : k \in 1..Len(s)} /\ Range(s) = {s[k] : k \in 1..Len(s)}
  BY <1>3 DEF Range
<1>5. Range(t) \subseteq Range(s)
  BY <1>1, <1>4
<1>6. Range(s) \subseteq Range(t)
  <2>1. ASSUME NEW m \in 1..Len(s) PROVE s[m] \in Range(t)
    <3>1. PICK k \in 1..Len(s) : p[k] = m
      BY <1>2
    <3>2. t[k] = s[m]
      BY <1>1, <3>1
    <3> QED
      BY <1>4, <3>2
  <2> QED
    BY <1>4, <2>1
<1> QED
  BY <1>5, <1>6

(* A sorted input is a list of the records of the input, none of which is  *)
(* nulled, highest identifier first.                                       *)
LEMMA SortedInput ==
  ASSUME NEW in \in Inputs, NEW s \in SortsByNodeID(in)
  PROVE  /\ in \in NodeLists /\ s \in NodeLists /\ Len(s) = Len(in)
         /\ Range(s) = Range(in)
         /\ \A k \in 1..Len(s) : s[k] \in Node /\ s[k].nodeID \in Nat \ {0}
         /\ \A j, k \in 1..Len(s) : j < k => s[j].nodeID >= s[k].nodeID
<1>1. in \in NodeLists /\ \A r \in Range(in) : r.nodeID # 0
  BY InputsAssumption
<1>2. /\ s \in NodeLists /\ Len(s) = Len(in)
      /\ \A j, k \in 1..Len(s) : j < k => s[j].nodeID >= s[k].nodeID
  BY <1>1, SortPermutes
<1>3. Range(s) = Range(in)
  BY <1>1, SortKeepsRecords
<1>4. \A k \in 1..Len(s) : s[k] \in Range(s) /\ s[k] \in Node
  BY <1>2 DEF Range, NodeLists
<1>5. \A k \in 1..Len(s) : s[k].nodeID \in Nat \ {0}
  BY <1>1, <1>3, <1>4 DEF Node
<1> QED
  BY <1>1, <1>2, <1>3, <1>4, <1>5

-----------------------------------------------------------------------------
(* Scanning                                                                *)

(* The array as the loop leaves it is a list as long as before.  A nulled  *)
(* place has the identifier 0, every other place its record.               *)
LEMMA AfterProperties ==
  ASSUME NEW s \in NodeLists, NEW j
  PROVE  LET a == After(s, j)
         IN  /\ a \in NodeLists /\ Len(a) = Len(s)
             /\ \A k \in 1..Len(s) :
                  /\ k \in Nulled(s, j) => a[k].nodeID = 0
                  /\ k \notin Nulled(s, j) => a[k] = s[k]
<1> DEFINE a == After(s, j)
<1>1. DOMAIN s = 1..Len(s) /\ Len(s) \in Nat /\ \A k \in 1..Len(s) : s[k] \in Node
  BY DEF NodeLists
<1>2. \A k \in 1..Len(s) : NullOut(s, k)[k] = [s[k] EXCEPT !.nodeID = 0]
  BY <1>1 DEF NullOut
<1>3. \A k \in 1..Len(s) :
        /\ NullOut(s, k)[k] \in Node
        /\ NullOut(s, k)[k].nodeID = 0
  <2>1. ASSUME NEW r \in Node
        PROVE  [r EXCEPT !.nodeID = 0] \in Node /\ [r EXCEPT !.nodeID = 0].nodeID = 0
    BY DEF Node
  <2>2. ASSUME NEW k \in 1..Len(s)
        PROVE  NullOut(s, k)[k] \in Node /\ NullOut(s, k)[k].nodeID = 0
    <3>1. s[k] \in Node /\ NullOut(s, k)[k] = [s[k] EXCEPT !.nodeID = 0]
      BY <1>1, <1>2
    <3> QED
      BY <2>1, <3>1
  <2> QED
    BY <2>2
<1>4. a = [k \in 1..Len(s) |->
             IF k \in Nulled(s, j) THEN NullOut(s, k)[k] ELSE s[k]]
  BY <1>1 DEF After
<1>5. a \in [1..Len(s) -> Node]
  BY <1>1, <1>3, <1>4
<1>6. a \in NodeLists /\ Len(a) = Len(s)
  BY <1>1, <1>5 DEF NodeLists
<1>7. \A k \in 1..Len(s) :
        /\ k \in Nulled(s, j) => a[k].nodeID = 0
        /\ k \notin Nulled(s, j) => a[k] = s[k]
  BY <1>3, <1>4
<1> QED
  BY <1>6, <1>7

(* Nothing is nulled before the first turn of the loop.                    *)
LEMMA AfterNothing ==
  ASSUME NEW s \in NodeLists
  PROVE  After(s, 1) = s /\ Nulled(s, 1) = {} /\ Cardinality(Nulled(s, 1)) = 0
<1>1. Nulled(s, 1) = {}
  BY DEF Nulled
<1>2. DOMAIN s = 1..Len(s) /\ s = [k \in 1..Len(s) |-> s[k]]
  BY DEF NodeLists
<1>3. After(s, 1) = s
  BY <1>1, <1>2 DEF After
<1> QED
  BY <1>1, <1>3, FS_EmptySet

(* Whichever of the two duplicates is nulled, the identifiers are swapped  *)
(* in the one case and not in the other, so that it is always the record   *)
(* of the first that goes: the time stamps make no difference.             *)
LEMMA ScanPairNullsFirst ==
  ASSUME NEW s \in NodeLists, NEW j \in 1..Len(s), j + 1 \in 1..Len(s)
  PROVE  ScanPair(s, j) = IF s[j].nodeID = s[j + 1].nodeID
                          THEN NullOut(s, j) ELSE s
<1>1. DOMAIN s = 1..Len(s) /\ \A k \in 1..Len(s) : s[k] \in Node
  BY DEF NodeLists
<1>2. s[j] \in Node /\ s[j + 1] \in Node /\ j # j + 1
  BY <1>1
<1>3. CASE s[j].nodeID = s[j + 1].nodeID /\ ~(s[j].timeStamp < s[j + 1].timeStamp)
  <2> DEFINE n == NullOut(s, j + 1)
             t == SwapPointers(n, j, j + 1)
  <2>1. n = [s EXCEPT ![j + 1] = [s[j + 1] EXCEPT !.nodeID = 0]]
    BY <1>1, <1>2 DEF NullOut
  <2>2. DOMAIN n = 1..Len(s) /\ n[j] = s[j]
        /\ n[j + 1] = [s[j + 1] EXCEPT !.nodeID = 0]
        /\ \A k \in 1..Len(s) : k # j + 1 => n[k] = s[k]
    BY <1>1, <1>2, <2>1
  <2>3. n[j + 1].nodeID = 0 /\ n[j].nodeID = s[j].nodeID
    BY <1>2, <2>2 DEF Node
  <2> HIDE DEF n
  <2>4. t = [n EXCEPT ![j] = [n[j] EXCEPT !.nodeID = 0],
                      ![j + 1] = [n[j + 1] EXCEPT !.nodeID = s[j].nodeID]]
    BY <1>2, <2>2, <2>3 DEF SwapPointers
  <2>5. [n[j + 1] EXCEPT !.nodeID = s[j].nodeID] = s[j + 1]
    BY <1>2, <1>3, <2>2 DEF Node
  <2>6. t = [n EXCEPT ![j] = [s[j] EXCEPT !.nodeID = 0], ![j + 1] = s[j + 1]]
    BY <2>2, <2>4, <2>5
  <2>7. NullOut(s, j) = [s EXCEPT ![j] = [s[j] EXCEPT !.nodeID = 0]]
    BY <1>1 DEF NullOut
  <2>8. t = NullOut(s, j)
    <3>1. /\ t = [k \in 1..Len(s) |-> t[k]]
          /\ NullOut(s, j) = [k \in 1..Len(s) |-> NullOut(s, j)[k]]
      BY <1>1, <2>2, <2>6, <2>7
    <3>2. ASSUME NEW k \in 1..Len(s) PROVE t[k] = NullOut(s, j)[k]
      <4>1. CASE k = j
        BY <1>1, <1>2, <2>2, <2>6, <2>7, <4>1
      <4>2. CASE k = j + 1
        BY <1>1, <1>2, <2>2, <2>6, <2>7, <4>2
      <4>3. CASE k # j /\ k # j + 1
        BY <1>1, <2>2, <2>6, <2>7, <4>3
      <4> QED
        BY <4>1, <4>2, <4>3
    <3> HIDE DEF t
    <3> QED
      BY <3>1, <3>2
  <2>9. ScanPair(s, j) = t
    BY <1>3 DEF ScanPair, n
  <2> QED
    BY <1>3, <2>8, <2>9
<1>4. CASE s[j].nodeID = s[j + 1].nodeID /\ s[j].timeStamp < s[j + 1].timeStamp
  BY <1>4 DEF ScanPair
<1>5. CASE s[j].nodeID # s[j + 1].nodeID
  BY <1>5 DEF ScanPair
<1> QED
  BY <1>3, <1>4, <1>5

(* The places nulled are some of the list's, and finitely many.            *)
LEMMA NulledPlaces ==
  ASSUME NEW s \in NodeLists, NEW j \in Nat, j <= Len(s) \/ j = 1
  PROVE  /\ Nulled(s, j) \subseteq 1..Len(s) /\ IsFiniteSet(Nulled(s, j))
         /\ Cardinality(Nulled(s, j)) \in 0..Len(s)
<1>1. Nulled(s, j) \subseteq 1..Len(s) /\ Len(s) \in Nat
  BY DEF Nulled, NodeLists
<1>2. IsFiniteSet(1..Len(s)) /\ Cardinality(1..Len(s)) = Len(s)
  BY <1>1, IntervalCardinality
<1>3. /\ IsFiniteSet(Nulled(s, j))
      /\ Cardinality(Nulled(s, j)) <= Cardinality(1..Len(s))
  BY <1>1, <1>2, FS_Subset
<1> QED
  BY <1>1, <1>2, <1>3, FS_CardinalityType

(* One turn of the loop takes the array from place j to the next one, and  *)
(* nulls place j, which was not nulled yet, or none.                       *)
LEMMA ScanAdvances ==
  ASSUME NEW s \in NodeLists, NEW j \in Nat, j >= 1, j < Len(s)
  PROVE  LET a == After(s, j)
             duplicate == a[j].nodeID = a[j + 1].nodeID
         IN  /\ ScanPair(a, j) = After(s, j + 1)
             /\ Cardinality(Nulled(s, j + 1)) =
                  IF duplicate THEN Cardinality(Nulled(s, j)) + 1
                  ELSE Cardinality(Nulled(s, j))
<1> DEFINE a == After(s, j)
<1>1. DOMAIN s = 1..Len(s) /\ Len(s) \in Nat /\ j \in 1..Len(s) /\ j + 1 \in 1..Len(s)
  BY DEF NodeLists
<1>2. j \notin Nulled(s, j) /\ j + 1 \notin Nulled(s, j)
  BY DEF Nulled
<1>3. /\ a \in NodeLists /\ Len(a) = Len(s)
      /\ a[j] = s[j] /\ a[j + 1] = s[j + 1]
  BY <1>1, <1>2, AfterProperties
<1>4. DOMAIN a = 1..Len(s)
  BY <1>3 DEF NodeLists
<1>5. ScanPair(a, j) = IF s[j].nodeID = s[j + 1].nodeID THEN NullOut(a, j) ELSE a
  BY <1>1, <1>3, ScanPairNullsFirst
<1>6. CASE s[j].nodeID = s[j + 1].nodeID
  <2>1. Nulled(s, j + 1) = Nulled(s, j) \cup {j}
    <3>1. 1..((j + 1) - 1) = (1..(j - 1)) \cup {j}
      OBVIOUS
    <3> QED
      BY <1>6, <3>1 DEF Nulled
  <2>2. NullOut(a, j) = [a EXCEPT ![j] = [s[j] EXCEPT !.nodeID = 0]]
    BY <1>1, <1>3, <1>4 DEF NullOut
  <2>3. After(s, j + 1) =
          [k \in 1..Len(s) |->
             IF k \in Nulled(s, j) \cup {j} THEN NullOut(s, k)[k] ELSE s[k]]
    BY <1>1, <2>1 DEF After
  <2>4. a = [k \in 1..Len(s) |->
               IF k \in Nulled(s, j) THEN NullOut(s, k)[k] ELSE s[k]]
    BY <1>1 DEF After
  <2>5. NullOut(s, j)[j] = [s[j] EXCEPT !.nodeID = 0]
    BY <1>1 DEF NullOut
  <2> HIDE DEF a
  <2>6. NullOut(a, j) = After(s, j + 1)
    <3> DEFINE b == After(s, j + 1)
               c == NullOut(a, j)
    <3>1. c = [k \in 1..Len(s) |-> c[k]] /\ b = [k \in 1..Len(s) |-> b[k]]
      BY <1>4, <2>2, <2>3
    <3>2. c[j] = b[j]
      BY <1>1, <1>4, <2>2, <2>3, <2>5
    <3>3. \A k \in 1..Len(s) : k # j => c[k] = a[k]
      BY <1>4, <2>2
    <3>4. \A k \in 1..Len(s) : k # j => b[k] = a[k]
      BY <2>3, <2>4
    <3> HIDE DEF b, c
    <3>5. \A k \in 1..Len(s) : c[k] = b[k]
      BY <3>2, <3>3, <3>4
    <3> QED
      BY <3>1, <3>5 DEF b, c
  <2>7. Cardinality(Nulled(s, j + 1)) = Cardinality(Nulled(s, j)) + 1
    BY <1>1, <1>2, <2>1, NulledPlaces, FS_AddElement
  <2> QED
    BY <1>3, <1>5, <1>6, <2>6, <2>7 DEF a
<1>7. CASE s[j].nodeID # s[j + 1].nodeID
  <2>1. Nulled(s, j + 1) = Nulled(s, j)
    <3>1. 1..((j + 1) - 1) = (1..(j - 1)) \cup {j}
      OBVIOUS
    <3> QED
      BY <1>7, <3>1 DEF Nulled
  <2>2. After(s, j + 1) = a
    BY <2>1 DEF After
  <2> QED
    BY <1>3, <1>5, <1>7, <2>1, <2>2
<1> QED
  BY <1>6, <1>7

(* Of every group of duplicates the last one is not nulled.                *)
LEMMA IdentifierKept ==
  ASSUME NEW s \in NodeLists, NEW j \in Nat, j <= Len(s) \/ j = 1,
         NEW k \in 1..Len(s)
  PROVE  \E m \in (1..Len(s)) \ Nulled(s, j) : s[m].nodeID = s[k].nodeID
<1> DEFINE G == {m \in 1..Len(s) : s[m].nodeID = s[k].nodeID}
<1>1. Len(s) \in Nat /\ G \subseteq 1..Len(s) /\ k \in G
  BY DEF NodeLists
<1>2. PICK m \in G : \A h \in G : h <= m
  BY <1>1, LastPosition
<1>3. m \notin Nulled(s, j)
  <2> SUFFICES ASSUME m \in Nulled(s, j) PROVE FALSE
    OBVIOUS
  <2>1. m \in 1..(j - 1) /\ s[m].nodeID = s[m + 1].nodeID
    BY DEF Nulled
  <2>2. m + 1 \in 1..Len(s)
    BY <1>1, <2>1
  <2>3. m + 1 \in G
    BY <2>1, <2>2
  <2> QED
    BY <1>1, <1>2, <2>2, <2>3
<1> QED
  BY <1>1, <1>2, <1>3

(* When the loop has come to the end of a sorted array, the records that   *)
(* are not nulled have one identifier each.                                *)
LEMMA SurvivorsDiffer ==
  ASSUME NEW s \in NodeLists, NEW j \in Nat, j >= Len(s),
         \A h, k \in 1..Len(s) : h < k => s[h].nodeID >= s[k].nodeID,
         NEW k \in (1..Len(s)) \ Nulled(s, j),
         NEW m \in (1..Len(s)) \ Nulled(s, j),
         s[k].nodeID = s[m].nodeID
  PROVE  k = m
<1>1. Len(s) \in Nat /\ \A h \in 1..Len(s) : s[h].nodeID \in Nat
  BY ListRecords
<1>2. ASSUME NEW x \in (1..Len(s)) \ Nulled(s, j), NEW y \in 1..Len(s),
             s[x].nodeID = s[y].nodeID
      PROVE  ~(x < y)
  <2> SUFFICES ASSUME x < y PROVE FALSE
    OBVIOUS
  <2>1. x + 1 \in 1..Len(s) /\ x \in 1..(j - 1) /\ (x + 1 = y \/ x + 1 < y)
    BY <1>1
  <2>2. s[x].nodeID >= s[x + 1].nodeID
    BY <2>1
  <2>3. s[x + 1].nodeID >= s[y].nodeID
    BY <1>1, <2>1
  <2>4. s[x].nodeID = s[x + 1].nodeID
    BY <1>1, <1>2, <2>1, <2>2, <2>3
  <2> QED
    BY <2>1, <2>4 DEF Nulled
<1>3. ~(k < m) /\ ~(m < k)
  BY <1>2
<1> QED
  BY <1>1, <1>3

(* The records that are not nulled are then a result of WithoutDuplicates, *)
(* one at each place.                                                      *)
LEMMA Survivors ==
  ASSUME NEW s \in NodeLists, NEW j \in Nat, j >= Len(s), j <= Len(s) \/ j = 1,
         \A h, k \in 1..Len(s) : h < k => s[h].nodeID >= s[k].nodeID
  PROVE  LET M == (1..Len(s)) \ Nulled(s, j)
             S == {s[k] : k \in M}
         IN  /\ S \in WithoutDuplicates(Range(s))
             /\ Cardinality(S) = Cardinality(M)
             /\ Cardinality(M) = Len(s) - Cardinality(Nulled(s, j))
<1> DEFINE M == (1..Len(s)) \ Nulled(s, j)
           S == {s[k] : k \in M}
<1>1. Len(s) \in Nat /\ DOMAIN s = 1..Len(s)
  BY DEF NodeLists
<1>2. Range(s) = {s[k] : k \in 1..Len(s)}
  BY <1>1 DEF Range
<1>3. \A x, y \in M : s[x].nodeID = s[y].nodeID => x = y
  BY SurvivorsDiffer
<1>4. S \in WithoutDuplicates(Range(s))
  <2>1. S \in SUBSET Range(s)
    BY <1>2
  <2>2. \A r \in Range(s) : \E t \in S : t.nodeID = r.nodeID
    <3>1. ASSUME NEW k \in 1..Len(s) PROVE \E t \in S : t.nodeID = s[k].nodeID
      <4>1. PICK m \in M : s[m].nodeID = s[k].nodeID
        BY IdentifierKept
      <4> QED
        BY <4>1
    <3> QED
      BY <1>2, <3>1
  <2>3. \A q, t \in S : q.nodeID = t.nodeID => q = t
    BY <1>3
  <2> QED
    BY <2>1, <2>2, <2>3 DEF WithoutDuplicates
<1>5. IsFiniteSet(1..Len(s)) /\ Cardinality(1..Len(s)) = Len(s)
  BY <1>1, IntervalCardinality
<1>6. IsFiniteSet(M) /\ Cardinality(M) = Len(s) - Cardinality(Nulled(s, j))
  <2>1. Nulled(s, j) \subseteq 1..Len(s) /\ IsFiniteSet(Nulled(s, j))
    BY NulledPlaces
  <2>2. /\ IsFiniteSet(M)
        /\ Cardinality(M) = Cardinality(1..Len(s))
                            - Cardinality((1..Len(s)) \cap Nulled(s, j))
    BY <1>5, <2>1, FS_Difference
  <2>3. (1..Len(s)) \cap Nulled(s, j) = Nulled(s, j)
    BY <2>1
  <2> QED
    BY <1>5, <2>2, <2>3
<1>7. Cardinality(S) = Cardinality(M)
  <2> DEFINE f == [k \in M |-> s[k]]
  <2>1. f \in Bijection(M, S)
    <3>1. f \in [M -> S] /\ \A r \in S : \E k \in M : f[k] = r
      OBVIOUS
    <3>2. \A x, y \in M : f[x] = f[y] => x = y
      BY <1>3
    <3> QED
      BY <3>1, <3>2 DEF Bijection, Injection, Surjection, IsInjective
  <2>2. ExistsBijection(M, S)
    BY <2>1 DEF ExistsBijection
  <2> QED
    BY <1>6, <2>2, FS_Bijection
<1> QED
  BY <1>4, <1>6, <1>7

(* Sorting brings the records with an identifier to the front: cut to      *)
(* their number the array holds them and nothing else.                     *)
LEMMA CutKeepsOthers ==
  ASSUME NEW a \in NodeLists, NEW t \in SortsByNodeID(a),
         NEW M, M = {k \in 1..Len(a) : a[k].nodeID # 0}
  PROVE  Range(SubSeq(t, 1, Cardinality(M))) = {a[k] : k \in M}
<1> DEFINE D == 1..Len(a)
           P == {k \in D : t[k].nodeID # 0}
           c == Cardinality(M)
<1>1. PICK p \in Bijection(D, D) :
        /\ t \in NodeLists /\ Len(t) = Len(a)
        /\ \A k \in D : p[k] \in D /\ t[k] = a[p[k]]
        /\ \A j, k \in D : j < k => t[j].nodeID >= t[k].nodeID
  BY SortPermutes
<1>2. Len(a) \in Nat /\ \A k \in D : t[k].nodeID \in Nat
  BY <1>1, ListRecords
<1>3. /\ \A m \in D : \E k \in D : p[k] = m
      /\ \A x, y \in D : p[x] = p[y] => x = y
  BY <1>1 DEF Bijection, Surjection, Injection, IsInjective
<1>4. IsFiniteSet(D) /\ Cardinality(D) = Len(a)
  BY <1>2, IntervalCardinality
<1>5. IsFiniteSet(P) /\ IsFiniteSet(M) /\ c \in Nat
  BY <1>4, FS_Subset, FS_CardinalityType
<1>6. ASSUME NEW m \in M PROVE \E k \in P : p[k] = m /\ t[k] = a[m]
  <2>1. m \in D /\ a[m].nodeID # 0
    OBVIOUS
  <2>2. PICK k \in D : p[k] = m
    BY <1>3, <2>1
  <2>3. t[k] = a[m]
    BY <1>1, <2>2
  <2>4. k \in P
    BY <2>1, <2>3
  <2> QED
    BY <2>2, <2>3, <2>4
<1>7. ASSUME NEW k \in P PROVE p[k] \in M /\ t[k] = a[p[k]]
  BY <1>1
<1>8. Cardinality(P) = c
  <2> DEFINE f == [k \in P |-> p[k]]
  <2>1. f \in [P -> M]
    BY <1>7
  <2>2. \A m \in M : \E k \in P : f[k] = m
    BY <1>6
  <2>3. \A x, y \in P : f[x] = f[y] => x = y
    BY <1>3
  <2>4. f \in Bijection(P, M)
    BY <2>1, <2>2, <2>3 DEF Bijection, Injection, Surjection, IsInjective
  <2>5. ExistsBijection(P, M)
    BY <2>4 DEF ExistsBijection
  <2> QED
    BY <1>5, <2>5, FS_Bijection
<1>9. P = 1..c /\ c <= Len(a)
  <2>1. CASE P = {}
    <3>1. Cardinality(P) = 0
      BY <2>1, FS_EmptySet
    <3> HIDE DEF P, c
    <3> QED
      BY <1>2, <1>8, <2>1, <3>1
  <2>2. CASE P # {}
    <3>1. P \subseteq D
      OBVIOUS
    <3>2. PICK m \in P : \A k \in P : k <= m
      BY <1>2, <2>2, <3>1, LastPosition
    <3>3. ASSUME NEW k \in 1..m PROVE k \in P
      <4>1. k \in D /\ m \in D /\ (k = m \/ k < m)
        BY <1>2, <3>2
      <4>2. t[m].nodeID # 0 /\ t[m].nodeID \in Nat /\ t[k].nodeID \in Nat
        BY <1>2, <3>2, <4>1
      <4>3. t[k].nodeID >= t[m].nodeID
        BY <1>1, <4>1, <4>2
      <4> QED
        BY <4>1, <4>2, <4>3
    <3>4. P = 1..m /\ m \in Nat /\ m <= Len(a)
      BY <1>2, <3>1, <3>2, <3>3
    <3>5. Cardinality(1..m) = m
      BY <3>4, IntervalCardinality
    <3> QED
      BY <1>8, <3>4, <3>5
  <2> QED
    BY <2>1, <2>2
<1>10. Range(SubSeq(t, 1, c)) = {t[k] : k \in 1..c}
  <2>1. t \in Seq(Node) /\ 1 \in 1..(Len(t) + 1) /\ c \in 0..Len(t)
    BY <1>1, <1>2, <1>5, <1>9 DEF NodeLists
  <2>2. SubSeq(t, 1, c) = [k \in 1..c |-> t[k]]
    BY <2>1
  <2>3. DOMAIN SubSeq(t, 1, c) = 1..c /\ \A k \in 1..c : SubSeq(t, 1, c)[k] = t[k]
    BY <2>2
  <2> QED
    BY <2>3 DEF Range
<1>11. {t[k] : k \in P} = {a[k] : k \in M}
  <2> HIDE DEF P, D
  <2> QED
    BY <1>6, <1>7
<1> HIDE DEF c
<1> QED
  BY <1>9, <1>10, <1>11 DEF c

-----------------------------------------------------------------------------
(* The invariant                                                           *)

LEMMA InvInit == Init => Inv
<1> SUFFICES ASSUME Init PROVE Inv
  OBVIOUS
<1> QED
  BY DEF Init, Inv, LeavesOnePerID

LEMMA InvSort == Inv /\ Sort => Inv'
<1> SUFFICES ASSUME Inv, Sort PROVE Inv'
  OBVIOUS
<1>1. input \in Inputs /\ nodes = input /\ i = 1 /\ nodeCount = Len(input)
  BY DEF Inv, Sort
<1>2. pc' = "scan" /\ input' = input /\ i' = i /\ nodeCount' = nodeCount
  BY DEF Sort
<1>3. nodes' \in SortsByNodeID(input)
  BY <1>1 DEF Sort
<1>4. nodes' \in NodeLists /\ input \in NodeLists /\ Len(input) \in Nat
  BY <1>1, <1>3, SortedInput, ListRecords
<1>5. nodes' = After(nodes', 1) /\ Cardinality(Nulled(nodes', 1)) = 0
  BY <1>4, AfterNothing
<1>6. \E s \in SortsByNodeID(input') :
        /\ nodes' = After(s, i')
        /\ nodeCount' = Len(input') - Cardinality(Nulled(s, i'))
  BY <1>1, <1>2, <1>3, <1>4, <1>5
<1> QED
  BY <1>1, <1>2, <1>6 DEF Inv, LeavesOnePerID

LEMMA InvScan == Inv /\ Scan => Inv'
<1> SUFFICES ASSUME Inv, Scan PROVE Inv'
  OBVIOUS
<1>1. /\ input \in Inputs
      /\ i \in Nat /\ i >= 1
      /\ pc = "scan" /\ i < Len(nodes)
  BY DEF Inv, Scan
<1>2. PICK s \in SortsByNodeID(input) :
        /\ nodes = After(s, i)
        /\ nodeCount = Len(input) - Cardinality(Nulled(s, i))
  BY <1>1 DEF Inv
<1>3. s \in NodeLists /\ Len(s) = Len(input) /\ Len(s) \in Nat
  BY <1>1, SortedInput, ListRecords
<1>4. Len(nodes) = Len(s)
  BY <1>2, <1>3, AfterProperties
<1>5. /\ ScanPair(nodes, i) = After(s, i + 1)
      /\ Cardinality(Nulled(s, i + 1)) =
           IF nodes[i].nodeID = nodes[i + 1].nodeID
           THEN Cardinality(Nulled(s, i)) + 1 ELSE Cardinality(Nulled(s, i))
  BY <1>1, <1>2, <1>3, <1>4, ScanAdvances
<1>6. /\ input' = input /\ i' = i + 1 /\ pc' = "scan"
      /\ nodes' = ScanPair(nodes, i)
      /\ nodeCount' = IF nodes[i].nodeID = nodes[i + 1].nodeID
                      THEN nodeCount - 1 ELSE nodeCount
  BY DEF Scan
<1>7. Cardinality(Nulled(s, i)) \in Nat
  BY <1>1, <1>3, <1>4, NulledPlaces
<1>8. nodeCount' = Len(input') - Cardinality(Nulled(s, i'))
  BY <1>2, <1>3, <1>5, <1>6, <1>7
<1>9. i' \in Nat /\ i' >= 1 /\ i' <= Len(input')
  BY <1>1, <1>3, <1>4, <1>6
<1> QED
  BY <1>1, <1>5, <1>6, <1>8, <1>9 DEF Inv, LeavesOnePerID

LEMMA InvFinish == Inv /\ Finish => Inv'
<1> SUFFICES ASSUME Inv, Finish PROVE Inv'
  OBVIOUS
<1>1. /\ input \in Inputs
      /\ i \in Nat /\ i >= 1 /\ (i <= Len(input) \/ i = 1)
      /\ pc = "scan" /\ i >= Len(nodes)
  BY DEF Inv, Finish
<1>2. PICK s \in SortsByNodeID(input) :
        /\ nodes = After(s, i)
        /\ nodeCount = Len(input) - Cardinality(Nulled(s, i))
  BY <1>1 DEF Inv
<1>3. /\ s \in NodeLists /\ Len(s) = Len(input) /\ Len(s) \in Nat
      /\ Range(s) = Range(input)
      /\ \A k \in 1..Len(s) : s[k] \in Node /\ s[k].nodeID \in Nat \ {0}
      /\ \A j, k \in 1..Len(s) : j < k => s[j].nodeID >= s[k].nodeID
  BY <1>1, SortedInput, ListRecords
<1>4. /\ nodes \in NodeLists /\ Len(nodes) = Len(s)
      /\ \A k \in 1..Len(s) :
           /\ k \in Nulled(s, i) => nodes[k].nodeID = 0
           /\ k \notin Nulled(s, i) => nodes[k] = s[k]
  BY <1>2, <1>3, AfterProperties
<1> DEFINE M == (1..Len(s)) \ Nulled(s, i)
<1>5. /\ {s[k] : k \in M} \in WithoutDuplicates(Range(s))
      /\ Cardinality({s[k] : k \in M}) = Cardinality(M)
      /\ Cardinality(M) = Len(s) - Cardinality(Nulled(s, i))
  BY <1>1, <1>3, <1>4, Survivors
<1>6. M = {k \in 1..Len(nodes) : nodes[k].nodeID # 0}
  BY <1>3, <1>4
<1>7. {s[k] : k \in M} = {nodes[k] : k \in M}
  BY <1>4
<1>8. /\ nodes' \in SortsByNodeID(nodes) /\ pc' = "done"
      /\ input' = input /\ i' = i /\ nodeCount' = nodeCount
  BY DEF Finish
<1>9. nodeCount' = Cardinality(M)
  BY <1>2, <1>3, <1>5, <1>8
<1>10. Range(SubSeq(nodes', 1, nodeCount')) = {nodes[k] : k \in M}
  <2> HIDE DEF M
  <2> QED
    BY <1>4, <1>6, <1>8, <1>9, CutKeepsOthers
<1>11. LeavesOnePerID'
  <2> HIDE DEF M
  <2>1. Result' = {s[k] : k \in M}
    BY <1>7, <1>10 DEF Result
  <2>2. Result' \in WithoutDuplicates(Range(input'))
    BY <1>3, <1>5, <1>8, <2>1
  <2>3. Cardinality(Result') = nodeCount'
    BY <1>5, <1>9, <2>1
  <2> QED
    BY <2>2, <2>3 DEF LeavesOnePerID
<1>12. nodes' \in NodeLists /\ Len(nodes') = Len(input')
  BY <1>3, <1>4, <1>8, SortPermutes
<1>13. nodeCount' \in 0..Len(input')
  <2>1. Cardinality(Nulled(s, i)) \in 0..Len(s)
    BY <1>1, <1>3, <1>4, NulledPlaces
  <2> QED
    BY <1>2, <1>3, <1>8, <2>1
<1> QED
  BY <1>1, <1>8, <1>11, <1>12, <1>13 DEF Inv

LEMMA InvStutter == Inv /\ UNCHANGED vars => Inv'
<1> SUFFICES ASSUME Inv, UNCHANGED vars PROVE Inv'
  OBVIOUS
<1>1. /\ input' = input /\ nodes' = nodes /\ i' = i
      /\ nodeCount' = nodeCount /\ pc' = pc
  BY DEF vars
<1> QED
  BY <1>1 DEF Inv, LeavesOnePerID, Result

LEMMA Invariance == Spec => []Inv
<1>1. Inv /\ [Next]_vars => Inv'
  BY InvSort, InvScan, InvFinish, InvStutter DEF Next
<1> QED
  BY InvInit, <1>1, PTL DEF Spec

-----------------------------------------------------------------------------
(* The theorems                                                            *)

(* The array stays a list of nodes as long as before and the count stays   *)
(* within it (newNodeCount of NodeCollection_removeDuplicateNodes).        *)
THEOREM TypeCorrect == Spec => []TypeOK
<1>1. Inv => TypeOK
  <2> SUFFICES ASSUME Inv PROVE TypeOK
    OBVIOUS
  <2>1. /\ input \in Inputs /\ pc \in {"sort", "scan", "done"}
        /\ i \in Nat /\ i >= 1 /\ (i <= Len(input) \/ i = 1)
    BY DEF Inv
  <2>2. input \in NodeLists /\ Len(input) \in Nat
    BY <2>1, InputsAssumption, ListRecords
  <2>3. i \in 1..(Len(input) + 1)
    BY <2>1, <2>2
  <2>4. /\ nodes \in NodeLists /\ Len(nodes) = Len(input)
        /\ nodeCount \in 0..Len(input)
    <3>1. CASE pc = "sort"
      BY <2>2, <3>1 DEF Inv
    <3>2. CASE pc = "scan"
      <4>1. PICK s \in SortsByNodeID(input) :
              /\ nodes = After(s, i)
              /\ nodeCount = Len(input) - Cardinality(Nulled(s, i))
        BY <3>2 DEF Inv
      <4>2. s \in NodeLists /\ Len(s) = Len(input)
        BY <2>1, SortedInput
      <4>3. nodes \in NodeLists /\ Len(nodes) = Len(input)
        BY <4>1, <4>2, AfterProperties
      <4>4. Cardinality(Nulled(s, i)) \in 0..Len(s)
        BY <2>1, <4>2, NulledPlaces
      <4> QED
        BY <2>2, <4>1, <4>2, <4>3, <4>4
    <3>3. CASE pc = "done"
      BY <3>3 DEF Inv
    <3> QED
      BY <2>1, <3>1, <3>2, <3>3
  <2> QED
    BY <2>1, <2>3, <2>4 DEF TypeOK
<1> QED
  BY Invariance, <1>1, PTL

(* The call leaves exactly one record of every identifier, each a record   *)
(* it was given, and counts them right, although the nulling and the       *)
(* swapping of identifiers take the record before for the duplicate        *)
(* whatever the time stamps are.                                           *)
THEOREM LeavesOnePerIDHolds == Spec => []LeavesOnePerID
<1>1. Inv => LeavesOnePerID
  BY DEF Inv
<1> QED
  BY Invariance, <1>1, PTL

(* While the loop runs no identifier is lost and the count is short by     *)
(* exactly the records nulled.                                             *)
THEOREM NothingLostHolds == Spec => []NothingLost
<1>1. Inv => NothingLost
  <2> SUFFICES ASSUME Inv, pc = "scan"
               PROVE  /\ \A r \in Range(input) :
                           \E q \in Range(nodes) : q.nodeID = r.nodeID
                      /\ Cardinality({k \in DOMAIN nodes : nodes[k].nodeID = 0})
                           = Len(input) - nodeCount
    BY DEF NothingLost
  <2>1. input \in Inputs /\ i \in Nat /\ i >= 1 /\ (i <= Len(input) \/ i = 1)
    BY DEF Inv
  <2>2. PICK s \in SortsByNodeID(input) :
          /\ nodes = After(s, i)
          /\ nodeCount = Len(input) - Cardinality(Nulled(s, i))
    BY DEF Inv
  <2>3. /\ s \in NodeLists /\ Len(s) = Len(input) /\ Len(s) \in Nat
        /\ Range(s) = Range(input) /\ DOMAIN s = 1..Len(s)
        /\ \A k \in 1..Len(s) : s[k].nodeID \in Nat \ {0}
    BY <2>1, SortedInput, ListRecords
  <2>4. /\ nodes \in NodeLists /\ Len(nodes) = Len(s)
        /\ \A k \in 1..Len(s) :
             /\ k \in Nulled(s, i) => nodes[k].nodeID = 0
             /\ k \notin Nulled(s, i) => nodes[k] = s[k]
    BY <2>2, <2>3, AfterProperties
  <2>5. DOMAIN nodes = 1..Len(s)
    BY <2>4, ListRecords
  <2>6. ASSUME NEW r \in Range(input)
        PROVE  \E q \in Range(nodes) : q.nodeID = r.nodeID
    <3>1. PICK k \in 1..Len(s) : s[k] = r
      BY <2>3 DEF Range
    <3>2. PICK m \in (1..Len(s)) \ Nulled(s, i) : s[m].nodeID = s[k].nodeID
      <4>1. s \in NodeLists /\ i \in Nat /\ (i <= Len(s) \/ i = 1)
        BY <2>1, <2>3
      <4> QED
        BY <4>1, IdentifierKept
    <3>3. nodes[m] \in Range(nodes) /\ nodes[m] = s[m]
      BY <2>4, <2>5 DEF Range
    <3> QED
      BY <3>1, <3>2, <3>3
  <2>7. Nulled(s, i) \subseteq 1..Len(s) /\ Cardinality(Nulled(s, i)) \in 0..Len(s)
    BY <2>1, <2>3, NulledPlaces
  <2>8. {k \in DOMAIN nodes : nodes[k].nodeID = 0} = Nulled(s, i)
    BY <2>3, <2>4, <2>5, <2>7
  <2>9. Len(input) - nodeCount = Cardinality(Nulled(s, i))
    BY <2>2, <2>3, <2>7
  <2> QED
    BY <2>6, <2>8, <2>9
<1> QED
  BY Invariance, <1>1, PTL

=============================================================================
