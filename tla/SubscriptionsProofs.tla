------------------------ MODULE SubscriptionsProofs ------------------------
(***************************************************************************)
(* The array of subscribers keeps the promise of SubscriberSet, for any    *)
(* number of addresses, subscribers and descriptors: every step is a step  *)
(* of the set or leaves it alone.  That a publication which has begun goes *)
(* on is liveness and left to model checking.                              *)
(***************************************************************************)
EXTENDS Subscriptions, FiniteSetTheorems, SequenceTheorems, TLAPS

-----------------------------------------------------------------------------
(* The list                                                                *)

(* A bounded sequence is a sequence that is not too long.                  *)
LEMMA BoundedSequence ==
  ASSUME NEW S, NEW n \in Nat, NEW s
  PROVE  s \in BoundedSeq(S, n) <=> s \in Seq(S) /\ Len(s) <= n
<1>1. ASSUME s \in BoundedSeq(S, n) PROVE s \in Seq(S) /\ Len(s) <= n
  <2>1. PICK m \in 0..n : s \in [1..m -> S]
    BY <1>1 DEF BoundedSeq, SeqOf
  <2> QED
    BY <2>1
<1>2. ASSUME s \in Seq(S), Len(s) <= n PROVE s \in BoundedSeq(S, n)
  <2>1. Len(s) \in 0..n /\ s \in [1..Len(s) -> S]
    BY <1>2
  <2> QED
    BY <2>1 DEF BoundedSeq, SeqOf
<1> QED
  BY <1>1, <1>2

(* A list has at most as many addresses as it is long.                     *)
LEMMA AddressesCounted ==
  ASSUME NEW S, NEW s \in Seq(S)
  PROVE  /\ IsFiniteSet(Range(s)) /\ Cardinality(Range(s)) \in Nat
         /\ Cardinality(Range(s)) <= Len(s)
<1>1. IsFiniteSet(1..Len(s)) /\ Cardinality(1..Len(s)) = Len(s)
  <2>1. 1 \in Int /\ Len(s) \in Int /\ Len(s) >= 0
    OBVIOUS
  <2>2. /\ IsFiniteSet(1..Len(s))
        /\ Cardinality(1..Len(s)) = IF 1 > Len(s) THEN 0 ELSE Len(s) - 1 + 1
    BY <2>1, FS_Interval
  <2> QED
    BY <2>1, <2>2
<1>2. s \in Surjection(1..Len(s), Range(s))
  BY DEF Range, Surjection
<1> QED
  BY <1>1, <1>2, FS_Surjection, FS_CardinalityType

(* Adding a subscriber changes the list only if there is room and the      *)
(* address is new.                                                         *)
LEMMA AddSubProperties ==
  ASSUME NEW list \in BoundedSeq(Addresses, MaxNumSubs), IsInjective(list),
         NEW a \in Addresses
  PROVE  LET new == AddSub(list, a)
         IN  /\ new \in BoundedSeq(Addresses, MaxNumSubs)
             /\ IsInjective(new)
             /\ \/ new = list
                \/ /\ Len(list) < MaxNumSubs
                   /\ Range(new) = Range(list) \cup {a}
<1> DEFINE new == AddSub(list, a)
<1>1. list \in Seq(Addresses) /\ Len(list) <= MaxNumSubs
  BY BoundedSequence, SizeAssumption
<1>2. CASE Len(list) < MaxNumSubs /\ a \notin Range(list)
  <2>1. new = Append(list, a)
    BY <1>2 DEF AddSub
  <2>2. /\ new \in Seq(Addresses) /\ Len(new) = Len(list) + 1
        /\ DOMAIN new = 1..(Len(list) + 1) /\ DOMAIN list = 1..Len(list)
        /\ \A k \in 1..Len(list) : new[k] = list[k]
        /\ new[Len(list) + 1] = a
        /\ Len(list) \in Nat
    BY <1>1, <2>1, AppendProperties
  <2> HIDE DEF new
  <2>3. new \in BoundedSeq(Addresses, MaxNumSubs)
    BY <1>2, <2>2, BoundedSequence, SizeAssumption
  <2>4. IsInjective(new)
    <3> SUFFICES ASSUME NEW j \in 1..(Len(list) + 1), NEW k \in 1..(Len(list) + 1),
                        new[j] = new[k]
                 PROVE  j = k
      BY <2>2 DEF IsInjective
    <3>1. \A l \in 1..Len(list) : new[l] # a
      BY <1>2, <2>2 DEF Range
    <3>2. CASE j \in 1..Len(list) /\ k \in 1..Len(list)
      BY <2>2, <3>2 DEF IsInjective
    <3>3. CASE ~(j \in 1..Len(list) /\ k \in 1..Len(list))
      BY <2>2, <3>1, <3>3
    <3> QED
      BY <3>2, <3>3
  <2>5. Range(new) = Range(list) \cup {a}
    <3>1. 1..(Len(list) + 1) = 1..Len(list) \cup {Len(list) + 1}
      BY <2>2
    <3> QED
      BY <2>2, <3>1 DEF Range
  <2> QED
    BY <1>2, <2>3, <2>4, <2>5 DEF new
<1>3. CASE ~(Len(list) < MaxNumSubs /\ a \notin Range(list))
  BY <1>3 DEF AddSub
<1> QED
  BY <1>2, <1>3

(* Removing a subscriber removes its address, and nothing else.            *)
LEMMA RemoveSubProperties ==
  ASSUME NEW list \in BoundedSeq(Addresses, MaxNumSubs), IsInjective(list),
         NEW a \in Addresses
  PROVE  LET new == RemoveSub(list, a)
         IN  /\ new \in BoundedSeq(Addresses, MaxNumSubs)
             /\ IsInjective(new)
             /\ Range(new) = Range(list) \ {a}
<1> DEFINE new == RemoveSub(list, a)
<1>1. /\ list \in Seq(Addresses) /\ Len(list) <= MaxNumSubs
      /\ Len(list) \in Nat /\ DOMAIN list = 1..Len(list)
  BY BoundedSequence, SizeAssumption
<1>2. CASE a \in Range(list)
  <2>1. PICK p \in 1..Len(list) : list[p] = a
    BY <1>1, <1>2 DEF Range
  <2>2. SelectLastInSeq(list, LAMBDA b : b = a) = p
    <3>1. {k \in 1..Len(list) : list[k] = a} = {p}
      BY <1>1, <2>1 DEF IsInjective
    <3>2. Max({p}) = p
      BY DEF Max
    <3> QED
      BY <3>1, <3>2 DEF SelectLastInSeq
  <2> DEFINE front == SubSeq(list, 1, p - 1)
             back  == SubSeq(list, p + 1, Len(list))
  <2>3. new = front \o back
    BY <1>2, <2>2 DEF RemoveSub, RemoveAt
  <2>4. /\ front \in Seq(Addresses) /\ Len(front) = p - 1
        /\ \A k \in 1..(p - 1) : front[k] = list[k]
    <3>1. \A k \in 1..(p - 1) : list[k] \in Addresses
      BY <1>1, <2>1
    <3>2. /\ front \in Seq(Addresses)
          /\ Len(front) = IF 1 <= p - 1 THEN p - 1 - 1 + 1 ELSE 0
          /\ \A k \in 1..(p - 1 - 1 + 1) : front[k] = list[1 + k - 1]
      BY <2>1, <3>1, SubSeqProperties
    <3> QED
      BY <2>1, <3>2
  <2>5. /\ back \in Seq(Addresses) /\ Len(back) = Len(list) - p
        /\ \A k \in 1..(Len(list) - p) : back[k] = list[p + k]
    <3>1. \A k \in (p + 1)..Len(list) : list[k] \in Addresses
      BY <1>1, <2>1
    <3>2. /\ back \in Seq(Addresses)
          /\ Len(back) = IF p + 1 <= Len(list) THEN Len(list) - (p + 1) + 1 ELSE 0
          /\ \A k \in 1..(Len(list) - (p + 1) + 1) : back[k] = list[p + 1 + k - 1]
      BY <1>1, <2>1, <3>1, SubSeqProperties
    <3> HIDE DEF back
    <3>3. Len(back) = Len(list) - p /\ Len(list) - (p + 1) + 1 = Len(list) - p
      <4>1. p \in Int /\ Len(list) \in Int /\ p <= Len(list)
        BY <1>1, <2>1
      <4>2. CASE p + 1 <= Len(list)
        BY <3>2, <4>1, <4>2
      <4>3. CASE p = Len(list)
        BY <3>2, <4>1, <4>3
      <4> QED
        BY <4>1, <4>2, <4>3
    <3>4. ASSUME NEW k \in 1..(Len(list) - p) PROVE back[k] = list[p + k]
      <4>1. p + 1 + k - 1 = p + k
        BY <2>1
      <4> QED
        BY <3>2, <3>3, <4>1
    <3> QED
      BY <3>2, <3>3, <3>4
  <2> HIDE DEF front, back, new
  <2>6. /\ new \in Seq(Addresses) /\ Len(new) = Len(list) - 1
        /\ DOMAIN new = 1..(Len(list) - 1)
        /\ \A k \in 1..(Len(list) - 1) :
             new[k] = IF k < p THEN list[k] ELSE list[k + 1]
    <3>1. /\ new \in Seq(Addresses) /\ Len(new) = Len(front) + Len(back)
          /\ \A k \in 1..(Len(front) + Len(back)) :
               new[k] = IF k <= Len(front) THEN front[k] ELSE back[k - Len(front)]
      BY <2>3, <2>4, <2>5, ConcatProperties
    <3>2. Len(front) + Len(back) = Len(list) - 1
      BY <1>1, <2>1, <2>4, <2>5
    <3>3. ASSUME NEW k \in 1..(Len(list) - 1)
          PROVE  new[k] = IF k < p THEN list[k] ELSE list[k + 1]
      <4>0. new[k] = IF k <= p - 1 THEN front[k] ELSE back[k - (p - 1)]
        BY <2>4, <3>1, <3>2
      <4>1. CASE k < p
        <5>1. k <= p - 1 /\ k \in 1..(p - 1)
          BY <2>1, <4>1
        <5> QED
          BY <2>4, <4>0, <4>1, <5>1
      <4>2. CASE k >= p
        <5>1. new[k] = back[k - (p - 1)]
          BY <2>1, <4>0, <4>2
        <5>2. k - (p - 1) \in 1..(Len(list) - p) /\ p + (k - (p - 1)) = k + 1
          BY <1>1, <2>1, <4>2
        <5> QED
          BY <2>1, <2>5, <4>2, <5>1, <5>2
      <4> QED
        BY <2>1, <4>1, <4>2
    <3> QED
      BY <3>1, <3>2, <3>3
  <2>7. new \in BoundedSeq(Addresses, MaxNumSubs)
    BY <1>1, <2>6, BoundedSequence, SizeAssumption
  <2>8. IsInjective(new)
    <3> SUFFICES ASSUME NEW j \in 1..(Len(list) - 1), NEW k \in 1..(Len(list) - 1),
                        new[j] = new[k]
                 PROVE  j = k
      BY <2>6 DEF IsInjective
    <3> DEFINE at(x) == IF x < p THEN x ELSE x + 1
    <3>1. new[j] = list[at(j)] /\ new[k] = list[at(k)]
      BY <2>6
    <3>2. at(j) \in 1..Len(list) /\ at(k) \in 1..Len(list)
      BY <1>1, <2>1
    <3> HIDE DEF at
    <3>3. at(j) = at(k)
      BY <1>1, <3>1, <3>2 DEF IsInjective
    <3> QED
      BY <2>1, <3>3 DEF at
  <2>9. Range(new) = Range(list) \ {a}
    <3>1. ASSUME NEW b \in Range(new) PROVE b \in Range(list) \ {a}
      <4>1. PICK k \in 1..(Len(list) - 1) : b = new[k]
        BY <2>6 DEF Range
      <4>2. PICK l \in 1..Len(list) : b = list[l] /\ l # p
        <5>1. CASE k < p
          BY <1>1, <2>1, <2>6, <4>1, <5>1
        <5>2. CASE ~(k < p)
          <6>1. k + 1 \in 1..Len(list) /\ k + 1 # p /\ b = list[k + 1]
            BY <1>1, <2>1, <2>6, <4>1, <5>2
          <6> QED
            BY <6>1
        <5> QED
          BY <5>1, <5>2
      <4> QED
        BY <1>1, <2>1, <4>2 DEF Range, IsInjective
    <3>2. ASSUME NEW b \in Range(list) \ {a} PROVE b \in Range(new)
      <4>1. PICK l \in 1..Len(list) : b = list[l] /\ l # p
        BY <1>1, <2>1 DEF Range
      <4>2. CASE l < p
        <5>1. l \in 1..(Len(list) - 1) /\ new[l] = b
          BY <1>1, <2>1, <2>6, <4>1, <4>2
        <5> QED
          BY <2>6, <5>1 DEF Range
      <4>3. CASE l > p
        <5>1. l - 1 \in 1..(Len(list) - 1) /\ ~(l - 1 < p) /\ (l - 1) + 1 = l
          BY <1>1, <2>1, <4>1, <4>3
        <5>2. new[l - 1] = b
          BY <2>6, <4>1, <5>1
        <5> QED
          BY <2>6, <5>1, <5>2 DEF Range
      <4> QED
        BY <2>1, <4>1, <4>2, <4>3
    <3> QED
      BY <3>1, <3>2
  <2> QED
    BY <2>7, <2>8, <2>9 DEF new
<1>3. CASE a \notin Range(list)
  BY <1>3 DEF RemoveSub
<1> QED
  BY <1>2, <1>3

-----------------------------------------------------------------------------
(* The invariants.  The index of the publication loop stays within the     *)
(* list, which nothing changes while the loop runs.                        *)
IndexInPlace ==
  /\ pc \in {"loop", "select", "check"} => i = 0
  /\ pc = "publish" => i \in 1..(Len(subs) + 1)
  /\ pc = "send" => i \in 1..Len(subs)

Inv == TypeOK /\ UniqueAddresses /\ IndexInPlace

LEMMA InvInit == Init => Inv
<1> SUFFICES ASSUME Init PROVE Inv
  OBVIOUS
<1>1. subs \in BoundedSeq(Addresses, MaxNumSubs) /\ IsInjective(subs)
  <2>1. subs = <<>> /\ subs \in Seq(Addresses) /\ Len(subs) = 0
    BY DEF Init
  <2>2. Len(subs) <= MaxNumSubs
    BY <2>1, SizeAssumption
  <2>3. subs \in BoundedSeq(Addresses, MaxNumSubs)
    BY <2>1, <2>2, BoundedSequence, SizeAssumption
  <2>4. IsInjective(subs)
    BY <2>1 DEF IsInjective
  <2> QED
    BY <2>3, <2>4
<1>2. queue \in [Addresses -> 0..QueueSize]
  BY SizeAssumption DEF Init
<1> QED
  BY <1>1, <1>2, SizeAssumption DEF Init, Inv, TypeOK, UniqueAddresses, IndexInPlace

(* Only the requests and the publication loop touch the list and the index *)
(* of the loop.                                                            *)
LEMMA InvStep == Inv /\ [Next]_vars => Inv'
<1> SUFFICES ASSUME Inv, [Next]_vars PROVE Inv'
  OBVIOUS
<1>0. /\ subs \in BoundedSeq(Addresses, MaxNumSubs) /\ IsInjective(subs)
      /\ Len(subs) \in Nat /\ Len(subs) <= MaxNumSubs
      /\ MaxNumSubs \in Nat /\ i \in 0..(MaxNumSubs + 1)
      /\ free \in 0..Descriptors /\ Descriptors \in Nat
      /\ queue \in [Addresses -> 0..QueueSize] /\ QueueSize \in Nat
  BY BoundedSequence, SizeAssumption DEF Inv, TypeOK, UniqueAddresses
<1> USE DEF Inv, TypeOK, UniqueAddresses, IndexInPlace
<1>1. CASE LoopTest
  BY <1>1 DEF LoopTest, users
<1>2. CASE ShutDown
  BY <1>2 DEF ShutDown, users
<1>3. CASE OtherEvent
  BY <1>3 DEF OtherEvent, users
<1>4. ASSUME NEW a \in Addresses, Subscribe(a) PROVE Inv'
  <2>1. subs' \in BoundedSeq(Addresses, MaxNumSubs) /\ IsInjective(subs')
    BY <1>0, <1>4, AddSubProperties DEF Subscribe
  <2>2. pc' \in {"check", "exited"} /\ pc = "select"
    BY <1>4 DEF Subscribe, Logged
  <2> QED
    BY <1>4, <2>1, <2>2 DEF Subscribe, users
<1>5. ASSUME NEW a \in Addresses, Unsubscribe(a) PROVE Inv'
  <2>1. subs' \in BoundedSeq(Addresses, MaxNumSubs) /\ IsInjective(subs')
    BY <1>0, <1>5, RemoveSubProperties DEF Unsubscribe
  <2>2. pc' \in {"check", "exited"} /\ pc = "select"
    BY <1>5 DEF Unsubscribe, Logged
  <2> QED
    BY <1>5, <2>1, <2>2 DEF Unsubscribe, users
<1>6. CASE NotDue
  BY <1>6 DEF NotDue, users
<1>7. CASE Due
  <2>1. /\ pc' \in {"loop", "publish", "exited"}
        /\ i' = IF pc' = "publish" THEN 1 ELSE 0
        /\ UNCHANGED <<running, subs, free, linked, bound, queue>>
    BY <1>7 DEF Due, Logged, users
  <2>2. 1 \in 1..(Len(subs) + 1) /\ i' \in 0..(MaxNumSubs + 1)
    BY <1>0, <2>1
  <2> QED
    BY <2>1, <2>2
<1>8. CASE OpenSocket
  <2>1. /\ pc = "publish" /\ i <= Len(subs)
        /\ \/ pc' = "send" /\ free' = free - 1 /\ free > 0
           \/ pc' = "exited" /\ free' = free
        /\ UNCHANGED <<running, subs, i, linked, bound, queue>>
    BY <1>8 DEF OpenSocket, users
  <2>2. free' \in 0..Descriptors /\ i \in 1..Len(subs)
    BY <1>0, <2>1
  <2> QED
    BY <2>1, <2>2
<1>9. CASE Send
  <2>1. /\ pc = "send" /\ i' = i + 1 /\ pc' \in {"publish", "exited"}
        /\ UNCHANGED <<running, subs, free, linked, bound>>
        /\ \/ queue' = queue
           \/ queue[subs[i]] < QueueSize /\ queue' = [queue EXCEPT ![subs[i]] = @ + 1]
    BY <1>9 DEF Send, Logged
  <2>2. subs[i] \in Addresses /\ i \in 1..Len(subs)
    BY <1>0, <2>1, BoundedSequence
  <2>3. queue' \in [Addresses -> 0..QueueSize]
    <3>1. CASE queue' = queue
      BY <1>0, <3>1
    <3>2. CASE queue[subs[i]] < QueueSize /\ queue' = [queue EXCEPT ![subs[i]] = @ + 1]
      <4>1. queue[subs[i]] \in 0..QueueSize
        BY <1>0, <2>2
      <4>2. queue[subs[i]] + 1 \in 0..QueueSize
        BY <1>0, <3>2, <4>1
      <4> QED
        BY <1>0, <3>2, <4>2
    <3> QED
      BY <2>1, <3>1, <3>2
  <2>4. i' \in 1..(Len(subs) + 1) /\ i' \in 0..(MaxNumSubs + 1)
    BY <1>0, <2>1, <2>2
  <2> QED
    BY <2>1, <2>3, <2>4
<1>10. CASE FinishPublication
  BY <1>0, <1>10 DEF FinishPublication, users, Logged
<1>11. CASE Signal
  BY <1>11 DEF Signal, users, Logged
<1>12. ASSUME NEW a \in Addresses, Start(a) \/ Die(a) \/ Read(a) PROVE Inv'
  <2>1. UNCHANGED <<pc, running, subs, i, free, linked>>
    BY <1>12 DEF Start, Die, Read, process
  <2>2. bound' \subseteq Addresses
    BY <1>12 DEF Start, Die, Read, process
  <2>3. queue' \in [Addresses -> 0..QueueSize]
    <3>1. queue[a] \in 0..QueueSize
      BY <1>0
    <3>2. CASE Read(a)
      <4>1. queue[a] - 1 \in 0..QueueSize /\ queue' = [queue EXCEPT ![a] = @ - 1]
        BY <1>0, <3>1, <3>2 DEF Read
      <4> QED
        BY <1>0, <4>1
    <3>3. CASE ~Read(a)
      BY <1>0, <1>12, <3>3 DEF Start, Die
    <3> QED
      BY <3>2, <3>3
  <2> QED
    BY <2>1, <2>2, <2>3
<1>13. CASE UNCHANGED vars
  BY <1>13 DEF vars, process, users
<1> QED
  BY <1>1, <1>2, <1>3, <1>4, <1>5, <1>6, <1>7, <1>8, <1>9, <1>10, <1>11, <1>12, <1>13
  DEF Next, Process, Users

LEMMA InvAlways == Spec => []Inv
  BY InvInit, InvStep, PTL DEF Spec

(* The type invariant of the local service holds for all constants.        *)
THEOREM TypeCorrect == Spec => []TypeOK
<1>1. Inv => TypeOK
  BY DEF Inv
<1> QED
  BY <1>1, InvAlways, PTL

(* A subscriber has one entry, whatever was requested before, so that one  *)
(* request ends a subscription.                                            *)
THEOREM UniqueAddressesHolds == Spec => []UniqueAddresses
<1>1. Inv => UniqueAddresses
  BY DEF Inv
<1> QED
  BY <1>1, InvAlways, PTL

-----------------------------------------------------------------------------
(* The promise                                                             *)

(* The cardinality that comes with the instance is the usual one.          *)
LEMMA PromiseCardinality ==
  ASSUME NEW S
  PROVE  Promise!Cardinality(S) = Cardinality(S)
BY DEF Promise!Cardinality, Cardinality

LEMMA PromiseInit == Init => Promise!Init
<1> SUFFICES ASSUME Init PROVE Promise!Init
  OBVIOUS
<1>1. Range(subs) = {}
  BY DEF Init, Range
<1>2. Pending = {} /\ Ended = FALSE
  BY DEF Init, Pending, Ended
<1> QED
  BY <1>1, <1>2 DEF Promise!Init

(* A step that leaves the set and the publication alone is allowed while   *)
(* the process lives.                                                      *)
LEMMA PromiseIdle ==
  ASSUME ~Ended, UNCHANGED <<subs, Pending>>
  PROVE  Promise!Next
<1>1. Ended' \in BOOLEAN
  BY DEF Ended
<1>2. Promise!Stop
  BY DEF Promise!Stop
<1> QED
  BY <1>1, <1>2 DEF Promise!Next

LEMMA PromiseStep == Inv /\ [Next]_vars => [Promise!Next]_(Promise!vars)
<1> SUFFICES ASSUME Inv, [Next]_vars PROVE [Promise!Next]_(Promise!vars)
  OBVIOUS
<1>0. /\ subs \in BoundedSeq(Addresses, MaxNumSubs) /\ IsInjective(subs)
      /\ subs \in Seq(Addresses) /\ Len(subs) \in Nat /\ DOMAIN subs = 1..Len(subs)
      /\ Ended' \in BOOLEAN /\ IndexInPlace
  BY BoundedSequence, SizeAssumption DEF Inv, TypeOK, UniqueAddresses, Ended
<1>1. CASE LoopTest \/ ShutDown \/ OtherEvent \/ NotDue \/ OpenSocket \/ Signal
  <2>1. UNCHANGED <<subs, i>> /\ ~Ended
    BY <1>1 DEF LoopTest, ShutDown, OtherEvent, NotDue, OpenSocket, Signal, Ended
  <2>2. UNCHANGED <<subs, Pending>>
    BY <2>1 DEF Pending
  <2> QED
    BY <2>1, <2>2, PromiseIdle
<1>2. ASSUME NEW a \in Addresses, Subscribe(a) PROVE Promise!Next
  <2>1. pc = "select" /\ i = 0 /\ i' = i /\ subs' = AddSub(subs, a)
    BY <1>0, <1>2 DEF Subscribe, IndexInPlace
  <2>2. ~Ended /\ Pending = {} /\ Pending' = {}
    BY <2>1 DEF Ended, Pending
  <2>3. CASE subs' = subs
    BY <2>2, <2>3, PromiseIdle
  <2>4. CASE Len(subs) < MaxNumSubs /\ Range(subs') = Range(subs) \cup {a}
    <3>1. Cardinality(Range(subs)) < MaxNumSubs
      BY <1>0, <2>4, AddressesCounted, SizeAssumption
    <3>2. Promise!Add(a)
      BY <2>2, <2>4, <3>1, PromiseCardinality DEF Promise!Add
    <3> QED
      BY <1>0, <2>2, <3>2 DEF Promise!Next
  <2> QED
    BY <1>0, <2>1, <2>3, <2>4, AddSubProperties
<1>3. ASSUME NEW a \in Addresses, Unsubscribe(a) PROVE Promise!Next
  <2>1. pc = "select" /\ i = 0 /\ i' = i /\ subs' = RemoveSub(subs, a)
    BY <1>0, <1>3 DEF Unsubscribe, IndexInPlace
  <2>2. ~Ended /\ Pending = {} /\ Pending' = {}
    BY <2>1 DEF Ended, Pending
  <2>3. Range(subs') = Range(subs) \ {a}
    BY <1>0, <2>1, RemoveSubProperties
  <2>4. Promise!Remove(a)
    BY <2>2, <2>3 DEF Promise!Remove
  <2> QED
    BY <1>0, <2>2, <2>4 DEF Promise!Next
<1>4. CASE Due
  <2>1. /\ pc = "check" /\ i = 0 /\ subs' = subs
        /\ i' = IF pc' = "publish" THEN 1 ELSE 0
    BY <1>0, <1>4 DEF Due, IndexInPlace
  <2>2. ~Ended /\ Pending = {}
    BY <2>1 DEF Ended, Pending
  <2>3. CASE i' = 0
    <3>1. Pending' = {}
      BY <2>3 DEF Pending
    <3> QED
      BY <2>1, <2>2, <3>1, PromiseIdle
  <2>4. CASE i' = 1
    <3>1. Pending' = Range(subs)
      BY <1>0, <2>1, <2>4 DEF Pending, Range
    <3>2. Promise!Publish
      BY <2>1, <2>2, <3>1 DEF Promise!Publish
    <3> QED
      BY <1>0, <2>2, <3>2 DEF Promise!Next
  <2> QED
    BY <2>1, <2>3, <2>4
<1>5. CASE Send
  <2>1. pc = "send" /\ i \in 1..Len(subs) /\ i' = i + 1 /\ subs' = subs
    BY <1>0, <1>5 DEF Send, IndexInPlace
  <2>2. ~Ended /\ subs[i] \in Addresses
    BY <1>0, <2>1 DEF Ended
  <2>3. /\ Pending = {subs[k] : k \in i..Len(subs)}
        /\ Pending' = {subs[k] : k \in (i + 1)..Len(subs)}
    BY <1>0, <2>1 DEF Pending
  <2>4. subs[i] \in Pending
    BY <1>0, <2>1, <2>3
  <2>5. Pending' = Pending \ {subs[i]}
    <3>1. i..Len(subs) = {i} \cup (i + 1)..Len(subs) /\ i \notin (i + 1)..Len(subs)
      BY <1>0, <2>1
    <3>2. \A k \in (i + 1)..Len(subs) : subs[k] # subs[i]
      BY <1>0, <2>1 DEF IsInjective
    <3> QED
      BY <2>3, <3>1, <3>2
  <2>6. Promise!Serve(subs[i])
    BY <2>1, <2>4, <2>5 DEF Promise!Serve
  <2> QED
    BY <1>0, <2>2, <2>6 DEF Promise!Next
<1>6. CASE FinishPublication
  <2>1. pc = "publish" /\ i \in 1..(Len(subs) + 1) /\ i > Len(subs)
        /\ i' = 0 /\ subs' = subs
    BY <1>0, <1>6 DEF FinishPublication, IndexInPlace
  <2>2. i..Len(subs) = {}
    BY <1>0, <2>1
  <2>3. ~Ended /\ Pending = {} /\ Pending' = {}
    BY <2>1, <2>2 DEF Ended, Pending
  <2> QED
    BY <2>1, <2>3, PromiseIdle
<1>7. ASSUME Users \/ UNCHANGED vars
      PROVE  UNCHANGED Promise!vars
  <2>1. UNCHANGED <<pc, subs, i>>
    BY <1>7 DEF Users, Start, Die, Read, vars, process
  <2> QED
    BY <2>1 DEF Promise!vars, Pending, Ended
<1> QED
  BY <1>1, <1>2, <1>3, <1>4, <1>5, <1>6, <1>7 DEF Next, Process

(* The safety of the promise (KeepsPromise without its fairness): one      *)
(* request ends a subscription, the set never changes during a publication *)
(* and a publication reaches every subscriber once (subscribe.c, and       *)
(* LocalIO_sendCandidateNodes).                                            *)
THEOREM PromiseSafe == Spec => Promise!Init /\ [][Promise!Next]_(Promise!vars)
<1> QED
  BY PromiseInit, PromiseStep, InvAlways, PTL DEF Spec
=============================================================================
