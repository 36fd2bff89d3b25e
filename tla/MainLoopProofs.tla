--------------------------- MODULE MainLoopProofs ---------------------------
(***************************************************************************)
(* How long a signal can take to end the process, and how long the lists   *)
(* can go without a cleanup, proved for every timeout, variation and rate  *)
(* of arrival.                                                             *)
(***************************************************************************)
EXTENDS MainLoop, TLAPS

(* The longest timer is a natural number.                                  *)
LEMMA LongestTimerNat == LongestTimer \in Nat
<1> DEFINE base == Timeout * PerSecond
<1>1. base \in Nat
  BY TimingAssumption
<1>2. LongestTimer = base + Variation - 1
  BY DEF LongestTimer
<1> HIDE DEF base
<1> QED
  BY <1>1, <1>2, TimingAssumption

(* A timer that is set again is at most the longest timer.                 *)
LEMMA TimerInRange ==
  ASSUME NEW v \in 0..(Variation - 1)
  PROVE  Timeout * PerSecond + v \in 0..LongestTimer
<1> DEFINE base == Timeout * PerSecond
<1>1. base \in Nat
  BY TimingAssumption
<1>2. LongestTimer = base + Variation - 1
  BY DEF LongestTimer
<1> HIDE DEF base
<1>3. base + v \in 0..LongestTimer
  BY <1>1, <1>2, TimingAssumption
<1> QED
  BY <1>3 DEF base

(* The clock keeps its type.                                               *)
LEMMA TimeKeepsTypes ==
  ASSUME TypeOK, TimePasses
  PROVE  /\ subsec' \in 0..(PerSecond - 1)
         /\ age' \in Nat
         /\ overdue' \in 0..OverdueMax
         /\ credit' \in 0..Rate
<1>1. subsec' \in 0..(PerSecond - 1)
  BY TimingAssumption DEF TypeOK, TimePasses
<1>2. age' \in Nat
  BY DEF TypeOK, TimePasses
<1>3. overdue' \in 0..OverdueMax
  BY LongestTimerNat DEF TypeOK, TimePasses, OverdueMax
<1>4. credit' \in 0..Rate
  BY TimingAssumption DEF TimePasses
<1> QED
  BY <1>1, <1>2, <1>3, <1>4

-----------------------------------------------------------------------------
(* The types.  A handler takes a datagram off its socket: that there is    *)
(* one is part of the invariant.                                           *)
DatagramThere ==
  pc = "handle" => \/ cause = "network" /\ network > 0
                   \/ cause = "local" /\ local > 0

TypeInv == TypeOK /\ DatagramThere

LEMMA TypeInit == Init => TypeInv
  BY TimingAssumption, LongestTimerNat
  DEF Init, TypeInv, TypeOK, DatagramThere, OverdueMax

LEMMA TypeStep == TypeInv /\ [Next]_vars => TypeInv'
<1> SUFFICES ASSUME TypeInv, [Next]_vars PROVE TypeInv'
  OBVIOUS
<1> USE DEF TypeInv, TypeOK, DatagramThere
<1>1. CASE LoopTest
  BY <1>1 DEF LoopTest, clock, sockets
<1>2. CASE CallSelect
  BY <1>2 DEF CallSelect, clock, sockets
<1>3. CASE SelectTimesOut
  <2>1. timer' \in 0..LongestTimer
    BY <1>3, TimerInRange DEF SelectTimesOut
  <2> QED
    BY <1>3, <2>1 DEF SelectTimesOut, clock, sockets
<1>4. CASE SelectReady
  BY <1>4 DEF SelectReady, Ready, clock, sockets
<1>5. CASE Handle
  <2>1. network' \in 0..QueueSize /\ local' \in 0..QueueSize
    BY <1>5, TimingAssumption DEF Handle
  <2>2. CASE TimePasses
    <3>1. /\ pc' = "check"
          /\ UNCHANGED <<running, cause, timer>>
      BY <1>5 DEF Handle
    <3>2. /\ subsec' \in 0..(PerSecond - 1)
          /\ age' \in Nat
          /\ overdue' \in 0..OverdueMax
          /\ credit' \in 0..Rate
      BY <2>2, TimeKeepsTypes
    <3> QED
      BY <2>1, <3>1, <3>2
  <2>3. CASE UNCHANGED clock
    BY <1>5, <2>1, <2>3 DEF Handle, clock
  <2> QED
    BY <1>5, <2>2, <2>3 DEF Handle
<1>6. CASE Check
  BY <1>6 DEF Check, sockets
<1>7. CASE Wait
  <2>1. timer' \in 0..LongestTimer
    BY <1>7, LongestTimerNat DEF Wait
  <2>2. /\ subsec' \in 0..(PerSecond - 1)
        /\ age' \in Nat
        /\ overdue' \in 0..OverdueMax
        /\ credit' \in 0..Rate
    BY <1>7, TimeKeepsTypes DEF Wait
  <2> QED
    BY <1>7, <2>1, <2>2 DEF Wait, sockets
<1>8. CASE Signal
  BY <1>8 DEF Signal, clock, sockets
<1>9. CASE Arrive
  BY <1>9, TimingAssumption DEF Arrive
<1>10. CASE Fail
  BY <1>10 DEF Fail, clock, sockets
<1>11. CASE UNCHANGED vars
  BY <1>11 DEF vars, clock, sockets
<1> QED
  BY <1>1, <1>2, <1>3, <1>4, <1>5, <1>6, <1>7, <1>8, <1>9, <1>10, <1>11
  DEF Next, Loop

LEMMA TypeAlways == Spec => []TypeInv
  BY TypeInit, TypeStep, PTL DEF Spec

(* The type invariant of the main loop holds for all constants.            *)
THEOREM TypeCorrect == Spec => []TypeOK
<1>1. TypeInv => TypeOK
  BY DEF TypeInv
<1> QED
  BY <1>1, TypeAlways, PTL

-----------------------------------------------------------------------------
(* The deadline of a signal: what it may have waited at each place of the  *)
(* loop.  No time passes between the test of RUNNING and select, in select *)
(* the timer leaves the rest, a handler adds one tick.                     *)
Deadline ==
  /\ running \/ pc = "call" => overdue = 0
  /\ pc = "select" => overdue + timer <= LongestTimer
  /\ pc = "handle" => overdue <= LongestTimer
  /\ overdue <= LongestTimer + 1

LEMMA DeadlineInit == Init => Deadline
  BY LongestTimerNat DEF Init, Deadline

LEMMA DeadlineStep == TypeInv /\ Deadline /\ [Next]_vars => Deadline'
<1> SUFFICES ASSUME TypeInv, Deadline, [Next]_vars PROVE Deadline'
  OBVIOUS
<1> LongestTimer' = LongestTimer
  BY DEF LongestTimer
<1>0. overdue \in Nat /\ timer \in 0..LongestTimer /\ LongestTimer \in Nat
  BY LongestTimerNat DEF TypeInv, TypeOK, OverdueMax
<1> USE <1>0 DEF Deadline
<1>1. CASE LoopTest
  BY <1>1 DEF LoopTest, clock, sockets
<1>2. CASE CallSelect
  BY <1>2 DEF CallSelect, clock, sockets
<1>3. CASE SelectTimesOut
  BY <1>3 DEF SelectTimesOut, clock, sockets
<1>4. CASE SelectReady
  BY <1>4 DEF SelectReady, clock, sockets
<1>5. CASE Handle
  <2>1. overdue' <= LongestTimer + 1 /\ (running => overdue' = 0)
    BY <1>5 DEF Handle, TimePasses, clock
  <2> QED
    BY <1>5, <2>1 DEF Handle
<1>6. CASE Check
  BY <1>6 DEF Check, sockets
<1>7. CASE Wait
  <2>1. timer' = timer - 1 /\ timer > 0 /\ pc = "select" /\ pc' = pc /\ running' = running
    BY <1>7 DEF Wait
  <2>2. IF running THEN overdue' = 0 ELSE overdue' \in {overdue, overdue + 1}
    BY <1>7 DEF Wait, TimePasses
  <2> QED
    BY <2>1, <2>2
<1>8. CASE Signal
  BY <1>8 DEF Signal, clock, sockets
<1>9. CASE Arrive
  BY <1>9 DEF Arrive
<1>10. CASE Fail
  BY <1>10 DEF Fail, clock, sockets
<1>11. CASE UNCHANGED vars
  BY <1>11 DEF vars, clock, sockets
<1> QED
  BY <1>1, <1>2, <1>3, <1>4, <1>5, <1>6, <1>7, <1>8, <1>9, <1>10, <1>11
  DEF Next, Loop

(* From a signal to the end of the process there is at most the longest    *)
(* timer and the handler of the moment, for every timeout and variation    *)
(* and whatever arrives (terminate, and select in main).                   *)
THEOREM StopDelayHolds == Spec => []StopDelay
<1>1. Spec => []Deadline
  BY TypeAlways, DeadlineInit, DeadlineStep, PTL DEF Spec
<1>2. Deadline => StopDelay
  BY DEF Deadline, StopDelay
<1> QED
  BY <1>1, <1>2, PTL

-----------------------------------------------------------------------------
(* The period of the cleanup: how old the last one may be, in ticks, at    *)
(* each place of the loop.  The test of an iteration leaves no cleanup     *)
(* older than the timeout; in select the age and the timer together do not *)
(* grow; a handler adds one tick.                                          *)
Elapsed == age * PerSecond + subsec

LongestAge == LongestTimer + (Timeout + 1) * PerSecond - 1

Period ==
  /\ pc \in {"loop", "call"} => age <= Timeout
  /\ pc = "select" => Elapsed + timer <= LongestAge
  /\ pc = "handle" => Elapsed <= LongestAge
  /\ Elapsed <= LongestAge + 1

(* Products and quotients of natural numbers.                              *)
LEMMA ProductNat ==
  ASSUME NEW a \in Nat, NEW b \in Nat
  PROVE  a * b \in Nat
OBVIOUS

LEMMA Quotient ==
  ASSUME NEW a \in Nat, NEW p \in Nat, p > 0
  PROVE  /\ a \div p \in Nat /\ a % p \in 0..(p - 1)
         /\ a = (a \div p) * p + (a % p)
<1>1. a % p \in 0..(p - 1)
  OBVIOUS
<1>2. a = (a \div p) * p + (a % p)
  OBVIOUS
<1>3. a \div p \in Nat
  OBVIOUS
<1> QED
  BY <1>1, <1>2, <1>3

LEMMA ProductOrder ==
  ASSUME NEW a \in Nat, NEW b \in Nat, NEW p \in Nat, a <= b
  PROVE  a * p <= b * p
<1>1. b * p = a * p + (b - a) * p
  OBVIOUS
<1>2. (b - a) * p \in Nat /\ a * p \in Nat
  OBVIOUS
<1> QED
  BY <1>1, <1>2

(* The ticks are natural numbers.                                          *)
LEMMA ElapsedType ==
  ASSUME TypeOK
  PROVE  /\ Elapsed \in Nat /\ timer \in Nat /\ LongestTimer \in Nat
         /\ age \in Nat /\ subsec \in 0..(PerSecond - 1)
         /\ timer <= LongestTimer
         /\ LongestAge \in Nat
<1>1. /\ age \in Nat /\ subsec \in 0..(PerSecond - 1) /\ timer \in Nat
      /\ timer <= LongestTimer /\ LongestTimer \in Nat
  BY LongestTimerNat DEF TypeOK
<1>2. age * PerSecond \in Nat
  BY <1>1, TimingAssumption
<1>3. Elapsed \in Nat
  BY <1>1, <1>2, TimingAssumption DEF Elapsed
<1>4. (Timeout + 1) * PerSecond \in Nat /\ (Timeout + 1) * PerSecond >= PerSecond
  <2>1. Timeout * PerSecond \in Nat
    BY TimingAssumption
  <2>2. (Timeout + 1) * PerSecond = Timeout * PerSecond + PerSecond
    BY TimingAssumption
  <2> QED
    BY <2>1, <2>2, TimingAssumption
<1> DEFINE base == (Timeout + 1) * PerSecond
<1>5. LongestAge = LongestTimer + base - 1
  BY DEF LongestAge
<1> HIDE DEF base
<1>6. LongestAge \in Nat
  BY <1>1, <1>4, <1>5, TimingAssumption DEF base
<1> QED
  BY <1>1, <1>3, <1>6

(* A tick is a tick: seconds and the rest of them count it once.           *)
LEMMA TickElapses ==
  ASSUME TypeOK, TimePasses
  PROVE  Elapsed' = Elapsed + 1
<1> DEFINE P == PerSecond
<1>1. /\ age \in Nat /\ subsec \in 0..(P - 1) /\ P \in Nat \ {0}
      /\ subsec' = (subsec + 1) % P
      /\ age' = IF subsec' = 0 THEN age + 1 ELSE age
  BY TimingAssumption DEF TypeOK, TimePasses
<1>2. CASE subsec + 1 < P
  <2>1. subsec' = subsec + 1 /\ age' = age
    BY <1>1, <1>2
  <2> QED
    BY <1>1, <2>1 DEF Elapsed
<1>3. CASE subsec + 1 = P
  <2>1. subsec' = 0 /\ age' = age + 1
    BY <1>1, <1>3
  <2>2. (age + 1) * P = age * P + P
    BY <1>1
  <2> QED
    BY <1>1, <1>3, <2>1, <2>2 DEF Elapsed
<1> QED
  BY <1>1, <1>2, <1>3

(* A cleanup no older than the timeout leaves time for the longest timer.  *)
LEMMA YoungEnough ==
  ASSUME TypeOK, age <= Timeout
  PROVE  Elapsed + LongestTimer <= LongestAge
<1> DEFINE ticks == age * PerSecond
           base  == Timeout * PerSecond
<1>1. ticks <= base
  BY ProductOrder, TimingAssumption DEF TypeOK
<1>2. (Timeout + 1) * PerSecond = base + PerSecond
  BY TimingAssumption
<1>3. ticks \in Nat /\ base \in Nat
  BY TimingAssumption DEF TypeOK
<1>4. Elapsed = ticks + subsec /\ LongestAge = LongestTimer + (base + PerSecond) - 1
  BY <1>2 DEF Elapsed, LongestAge
<1> HIDE DEF ticks, base
<1> QED
  BY <1>1, <1>3, <1>4, LongestTimerNat, TimingAssumption DEF TypeOK

LEMMA PeriodInit == Init => Period
<1> SUFFICES ASSUME Init PROVE Period
  OBVIOUS
<1>1. TypeOK
  BY TypeInit DEF TypeInv
<1>2. Elapsed + LongestTimer <= LongestAge
  BY <1>1, YoungEnough, TimingAssumption DEF Init
<1> QED
  BY <1>1, <1>2, ElapsedType, TimingAssumption DEF Init, Period

LEMMA PeriodStep == TypeInv /\ Period /\ [Next]_vars => Period'
<1> SUFFICES ASSUME TypeInv, Period, [Next]_vars PROVE Period'
  OBVIOUS
<1>0. TypeOK /\ TypeOK'
  BY TypeStep DEF TypeInv
<1>a. /\ Elapsed \in Nat /\ timer \in Nat /\ LongestTimer \in Nat /\ LongestAge \in Nat
      /\ age \in Nat /\ timer <= LongestTimer /\ Timeout \in Nat
  BY <1>0, ElapsedType, TimingAssumption
<1>b. Elapsed' \in Nat /\ LongestAge' = LongestAge
  <2>1. age' \in Nat /\ subsec' \in Nat
    BY <1>0, TimingAssumption DEF TypeOK
  <2>2. \A a, s \in Nat : a * PerSecond + s \in Nat
    <3>1. ASSUME NEW a \in Nat, NEW s \in Nat PROVE a * PerSecond + s \in Nat
      BY ProductNat, TimingAssumption
    <3> QED
      BY <3>1
  <2>3. Elapsed' \in Nat
    BY <2>1, <2>2 DEF Elapsed
  <2>4. LongestAge' = LongestAge
    BY DEF LongestAge, LongestTimer
  <2> QED
    BY <2>3, <2>4
<1>c. UNCHANGED <<age, subsec>> => Elapsed' = Elapsed
  BY DEF Elapsed
<1> USE <1>a, <1>b DEF Period
<1>1. CASE LoopTest
  BY <1>1, <1>c DEF LoopTest, clock
<1>2. CASE CallSelect
  <2>1. Elapsed + LongestTimer <= LongestAge
    BY <1>0, <1>2, YoungEnough DEF CallSelect
  <2> QED
    BY <1>2, <1>c, <2>1 DEF CallSelect, clock
<1>3. CASE SelectTimesOut
  BY <1>3, <1>c DEF SelectTimesOut, clock
<1>4. CASE SelectReady
  BY <1>4, <1>c DEF SelectReady, clock
<1>5. CASE Handle
  <2>1. Elapsed' <= Elapsed + 1
    BY <1>0, <1>5, <1>c, TickElapses DEF Handle, clock
  <2> QED
    BY <1>5, <2>1 DEF Handle
<1>6. CASE Check
  <2>1. age' <= Timeout /\ pc' = "loop"
    BY <1>6 DEF Check
  <2>2. Elapsed' <= Elapsed
    <3> DEFINE then == age * PerSecond
               next == age' * PerSecond
    <3>1. age' \in Nat /\ age' <= age /\ subsec' = subsec
      BY <1>6 DEF Check
    <3>2. next <= then
      BY <3>1, ProductOrder, TimingAssumption
    <3>3. PerSecond \in Nat /\ subsec \in Nat
      BY <1>0, TimingAssumption DEF TypeOK
    <3>4. next \in Nat /\ then \in Nat
      BY <3>1, <3>3, ProductNat
    <3>5. Elapsed = then + subsec /\ Elapsed' = next + subsec
      BY <3>1 DEF Elapsed
    <3> HIDE DEF then, next
    <3> QED
      BY <3>2, <3>3, <3>4, <3>5
  <2> QED
    BY <2>1, <2>2
<1>7. CASE Wait
  <2>1. timer' = timer - 1 /\ timer > 0 /\ pc = "select" /\ pc' = pc
    BY <1>7 DEF Wait
  <2>2. Elapsed' = Elapsed + 1
    BY <1>0, <1>7, TickElapses DEF Wait
  <2> QED
    BY <2>1, <2>2
<1>8. CASE Signal
  BY <1>8, <1>c DEF Signal, clock
<1>9. CASE Arrive
  BY <1>9, <1>c DEF Arrive
<1>10. CASE Fail
  BY <1>10, <1>c DEF Fail, clock
<1>11. CASE UNCHANGED vars
  BY <1>11, <1>c DEF vars, clock
<1> QED
  BY <1>1, <1>2, <1>3, <1>4, <1>5, <1>6, <1>7, <1>8, <1>9, <1>10, <1>11
  DEF Next, Loop

(* In whole seconds.                                                       *)
LEMMA PeriodInSeconds == TypeOK /\ Period => CleanupPeriod
<1> SUFFICES ASSUME TypeOK, Period PROVE CleanupPeriod
  OBVIOUS
<1> DEFINE P == PerSecond
           q == (Variation - 1) \div P
           rest == (Variation - 1) % P
           limit == 2 * Timeout + q + 1
           base == Timeout * P
           whole == q * P
           ticks == age * P
<1>1. /\ P \in Nat /\ P > 0 /\ Timeout \in Nat /\ Variation - 1 \in Nat
      /\ age \in Nat /\ subsec \in 0..(P - 1)
  BY TimingAssumption DEF TypeOK
<1>2. /\ q \in Nat /\ rest \in 0..(P - 1)
      /\ Variation - 1 = whole + rest
  BY <1>1, Quotient
<1>3. base \in Nat /\ whole \in Nat /\ ticks \in Nat
  <2> HIDE DEF q
  <2> QED
    BY <1>1, <1>2, ProductNat
<1>4. (Timeout + 1) * P = base + P
  BY <1>1
<1>5. ticks + subsec <= base + Variation - 1 + (base + P) - 1 + 1
  BY <1>4 DEF Period, Elapsed, LongestAge, LongestTimer
<1>6. ASSUME age >= limit + 1 PROVE FALSE
  <2>1. (limit + 1) * P <= ticks
    <3> HIDE DEF q
    <3>1. limit + 1 \in Nat
      BY <1>1, <1>2
    <3> HIDE DEF limit
    <3> QED
      BY <1>1, <1>6, <3>1, ProductOrder
  <2>2. (limit + 1) * P = base + base + whole + P + P
    <3> HIDE DEF q
    <3> QED
      BY <1>1, <1>2
  <2> HIDE DEF limit, base, whole, ticks, rest, q
  <2> QED
    BY <1>1, <1>2, <1>3, <1>5, <2>1, <2>2
<1> HIDE DEF q
<1>7. limit \in Nat
  BY <1>1, <1>2
<1>8. age <= limit
  <2> HIDE DEF limit
  <2> QED
    BY <1>1, <1>6, <1>7
<1> QED
  BY <1>8 DEF CleanupPeriod, q

(* Between two cleanups there are at most two timeouts, the variation and  *)
(* a second, whatever arrives and however the handlers take their time.    *)
THEOREM CleanupPeriodHolds == Spec => []CleanupPeriod
<1>1. Spec => []Period
  BY TypeAlways, PeriodInit, PeriodStep, PTL DEF Spec
<1>2. TypeInv /\ Period => CleanupPeriod
  BY PeriodInSeconds DEF TypeInv
<1> QED
  BY <1>1, <1>2, TypeAlways, PTL
=============================================================================
