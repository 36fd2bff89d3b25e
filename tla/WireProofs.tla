----------------------------- MODULE WireProofs -----------------------------
(***************************************************************************)
(* What is packed is understood: for all widths of bytes and doubles, all  *)
(* sizes of buffers and all collections, positions, ranges and paths.      *)
(*                                                                         *)
(* The library's induction takes an operator as a parameter, so induction  *)
(* is over a set of numbers here, from the well-foundedness of <, and that *)
(* a recursive function exists is proved from it.  On that rest the powers *)
(* of two, the bytes of an integer, the loops of enc754 and the codec: it  *)
(* is inverse, and is IEEE 754, on the numbers with a full significand.    *)
(* The layouts follow part by part: Holds says that a buffer has certain   *)
(* bytes at an offset.  The invariant at the end says what is under way.   *)
(***************************************************************************)
EXTENDS Wire, SequenceTheorems, FiniteSetTheorems, WellFoundedInduction, TLAPS

-----------------------------------------------------------------------------
(* Induction and recursion                                                 *)

(* A set of natural numbers that is not empty has a least element.         *)
LEMMA LeastNumber ==
  ASSUME NEW T \in SUBSET Nat, T # {}
  PROVE  \E m \in T : \A k \in T : m <= k
<1> DEFINE R == OpToRel(<, Nat)
<1>1. IsWellFoundedOn(R, Nat)
  BY NatLessThanWellFounded
<1>2. \A x, y \in Nat : <<y, x>> \in R <=> y < x
  BY DEF OpToRel
<1> HIDE DEF R
<1>3. T \subseteq Nat /\ T # {}
  OBVIOUS
<1>4. \E m \in T : \A k \in T : ~(<<k, m>> \in R)
  BY <1>1, <1>3, WFMin
<1>5. \A m, k \in T : ~(<<k, m>> \in R) => m <= k
  BY <1>2, <1>3
<1> QED
  BY <1>4, <1>5

(* A set that holds zero and with every number the next holds them all.    *)
LEMMA Induction ==
  ASSUME NEW S, 0 \in S, \A n \in Nat : n \in S => n + 1 \in S
  PROVE  Nat \subseteq S
<1> SUFFICES ASSUME Nat \ S # {} PROVE FALSE
  OBVIOUS
<1>1. PICK m \in Nat \ S : \A k \in Nat \ S : m <= k
  BY LeastNumber
<1>2. m # 0 /\ m - 1 \in Nat /\ m - 1 \in S
  BY <1>1
<1> QED
  BY <1>1, <1>2

(* The functions that start with x and go on by a step, up to n or always. *)
Steps(S) == [Nat -> [S -> S]]

IteratesTo(n, f, S, x, step) ==
  /\ f \in [0..n -> S]
  /\ f[0] = x
  /\ \A k \in Nat : k < n => f[k + 1] = step[k][f[k]]

Iterates(f, S, x, step) ==
  /\ f \in [Nat -> S]
  /\ f[0] = x
  /\ \A k \in Nat : f[k + 1] = step[k][f[k]]

(* A step can be taken n times from any start.                             *)
LEMMA FiniteRecursion ==
  ASSUME NEW S, NEW x \in S, NEW step \in Steps(S), NEW n \in Nat
  PROVE  \E f : IteratesTo(n, f, S, x, step)
<1> DEFINE T == {m \in Nat : \E f : IteratesTo(m, f, S, x, step)}
<1>1. 0 \in T
  <2>1. IteratesTo(0, [k \in 0..0 |-> x], S, x, step)
    BY DEF IteratesTo
  <2> QED
    BY <2>1
<1>2. ASSUME NEW m \in Nat, m \in T PROVE m + 1 \in T
  <2>1. PICK f : IteratesTo(m, f, S, x, step)
    BY <1>2
  <2> DEFINE g == [k \in 0..(m + 1) |-> IF k = m + 1 THEN step[m][f[m]] ELSE f[k]]
  <2>2. f \in [0..m -> S] /\ f[m] \in S
    BY <2>1 DEF IteratesTo
  <2>3. step[m][f[m]] \in S
    BY <2>2 DEF Steps
  <2>4. g \in [0..(m + 1) -> S]
    BY <2>2, <2>3
  <2>5. g[0] = x
    BY <2>1 DEF IteratesTo
  <2>6. ASSUME NEW k \in Nat, k < m + 1 PROVE g[k + 1] = step[k][g[k]]
    <3>1. g[k] = f[k]
      BY <2>6
    <3>2. CASE k = m
      BY <3>1, <3>2
    <3>3. CASE k # m
      <4>1. k < m /\ g[k + 1] = f[k + 1]
        BY <2>6, <3>3
      <4> QED
        BY <2>1, <3>1, <4>1 DEF IteratesTo
    <3> QED
      BY <3>2, <3>3
  <2> HIDE DEF g
  <2>7. IteratesTo(m + 1, g, S, x, step)
    BY <2>4, <2>5, <2>6 DEF IteratesTo
  <2> QED
    BY <2>7
<1> HIDE DEF T
<1>3. Nat \subseteq T
  BY <1>1, <1>2, Induction
<1>4. n \in T
  BY <1>3
<1> QED
  BY <1>4 DEF T

(* So there is a function on all the natural numbers that takes it again   *)
(* and again.                                                              *)
LEMMA Recursion ==
  ASSUME NEW S, NEW x \in S, NEW step \in Steps(S)
  PROVE  \E f : Iterates(f, S, x, step)
<1> DEFINE upTo(n) == CHOOSE f : IteratesTo(n, f, S, x, step)
           F == [n \in Nat |-> upTo(n)[n]]
<1>1. ASSUME NEW n \in Nat PROVE IteratesTo(n, upTo(n), S, x, step)
  <2>1. \E f : IteratesTo(n, f, S, x, step)
    BY FiniteRecursion
  <2> QED
    BY <2>1
<1> HIDE DEF upTo
<1>2. ASSUME NEW n \in Nat PROVE upTo(n + 1)[n] = upTo(n)[n]
  <2> DEFINE g == upTo(n)
             h == upTo(n + 1)
             T == {k \in Nat : k <= n => h[k] = g[k]}
  <2>1. IteratesTo(n, g, S, x, step) /\ IteratesTo(n + 1, h, S, x, step)
    BY <1>1
  <2> HIDE DEF g, h
  <2>2. 0 \in T
    BY <2>1 DEF IteratesTo
  <2>3. ASSUME NEW k \in Nat, k \in T PROVE k + 1 \in T
    <3> SUFFICES ASSUME k + 1 <= n PROVE h[k + 1] = g[k + 1]
      OBVIOUS
    <3>1. h[k] = g[k]
      BY <2>3
    <3>2. k < n /\ k < n + 1
      OBVIOUS
    <3> QED
      BY <2>1, <3>1, <3>2 DEF IteratesTo
  <2> HIDE DEF T
  <2>4. Nat \subseteq T
    BY <2>2, <2>3, Induction
  <2>5. n \in T
    BY <2>4
  <2> QED
    BY <2>5 DEF T, g, h
<1>3. F[0] = x
  BY <1>1 DEF IteratesTo
<1>4. ASSUME NEW k \in Nat PROVE F[k + 1] = step[k][F[k]]
  <2>1. k + 1 \in Nat /\ k < k + 1
    OBVIOUS
  <2>2. upTo(k + 1)[k + 1] = step[k][upTo(k + 1)[k]]
    BY <1>1, <2>1 DEF IteratesTo
  <2> QED
    BY <1>2, <2>1, <2>2
<1>5. F \in [Nat -> S]
  <2>1. ASSUME NEW n \in Nat PROVE upTo(n)[n] \in S
    BY <1>1 DEF IteratesTo
  <2> QED
    BY <2>1
<1> HIDE DEF F
<1>6. Iterates(F, S, x, step)
  BY <1>3, <1>4, <1>5 DEF Iterates
<1> QED
  BY <1>6

-----------------------------------------------------------------------------
(* Powers of two                                                           *)

(* The recursive function Pow2 is defined at every natural number and      *)
(* satisfies its recursion.                                                *)
LEMMA Pow2Type ==
  /\ Pow2 \in [Nat -> Nat \ {0}]
  /\ Pow2[0] = 1
  /\ \A n \in Nat : Pow2[n + 1] = 2 * Pow2[n]
<1> DEFINE Body(f) == [n \in Nat |-> IF n = 0 THEN 1 ELSE 2 * f[n - 1]]
           twice == [k \in Nat |-> [m \in Nat |-> 2 * m]]
<1>1. \E f : f = Body(f)
  <2>1. PICK f : Iterates(f, Nat, 1, twice)
    <3>1. twice \in Steps(Nat) /\ 1 \in Nat
      BY DEF Steps
    <3> HIDE DEF twice
    <3> QED
      BY <3>1, Recursion
  <2>2. /\ f \in [Nat -> Nat] /\ f[0] = 1
        /\ \A k \in Nat : f[k + 1] = 2 * f[k]
    BY <2>1 DEF Iterates
  <2>3. ASSUME NEW n \in Nat, n # 0 PROVE f[n] = 2 * f[n - 1]
    <3>1. n - 1 \in Nat /\ (n - 1) + 1 = n
      BY <2>3
    <3> QED
      BY <2>2, <3>1
  <2>4. f = Body(f)
    BY <2>2, <2>3
  <2> QED
    BY <2>4
<1>2. Pow2 = Body(Pow2)
  BY <1>1 DEF Pow2
<1>3. Pow2[0] = 1 /\ \A n \in Nat : Pow2[n + 1] = 2 * Pow2[n]
  BY <1>2
<1> DEFINE T == {n \in Nat : Pow2[n] \in Nat \ {0}}
<1>4. 0 \in T
  BY <1>3
<1>5. ASSUME NEW n \in Nat, n \in T PROVE n + 1 \in T
  BY <1>3, <1>5
<1> HIDE DEF T
<1>6. Nat \subseteq T
  BY <1>4, <1>5, Induction
<1> QED
  BY <1>2, <1>3, <1>6 DEF T

(* Shifting by m + n is shifting by m and by n.                            *)
LEMMA Pow2Sum ==
  ASSUME NEW m \in Nat, NEW n \in Nat
  PROVE  Pow2[m + n] = Pow2[m] * Pow2[n]
<1> DEFINE T == {k \in Nat : Pow2[m + k] = Pow2[m] * Pow2[k]}
<1>1. 0 \in T
  BY Pow2Type
<1>2. ASSUME NEW k \in Nat, k \in T PROVE k + 1 \in T
  <2>1. Pow2[m + (k + 1)] = 2 * Pow2[m + k] /\ Pow2[k + 1] = 2 * Pow2[k]
    <3>1. m + k \in Nat /\ m + (k + 1) = (m + k) + 1
      OBVIOUS
    <3> QED
      BY <3>1, Pow2Type
  <2>2. Pow2[m] \in Nat /\ Pow2[k] \in Nat
    BY Pow2Type
  <2>3. Pow2[m + k] = Pow2[m] * Pow2[k]
    BY <1>2
  <2>4. \A a, b \in Nat : 2 * (a * b) = a * (2 * b)
    OBVIOUS
  <2> QED
    BY <2>1, <2>2, <2>3, <2>4
<1> HIDE DEF T
<1>3. Nat \subseteq T
  BY <1>1, <1>2, Induction
<1> QED
  BY <1>3 DEF T

(* A longer shift is not smaller.                                          *)
LEMMA Pow2Order ==
  ASSUME NEW m \in Nat, NEW n \in Nat, m <= n
  PROVE  Pow2[m] <= Pow2[n]
<1> DEFINE T == {k \in Nat : Pow2[m] <= Pow2[m + k]}
<1>1. 0 \in T
  BY Pow2Type
<1>2. ASSUME NEW k \in Nat, k \in T PROVE k + 1 \in T
  <2>1. m + k \in Nat /\ m + (k + 1) = (m + k) + 1
    OBVIOUS
  <2>2. Pow2[m + (k + 1)] = 2 * Pow2[m + k] /\ Pow2[m + k] \in Nat /\ Pow2[m] \in Nat
    BY <2>1, Pow2Type
  <2> QED
    BY <1>2, <2>2
<1> HIDE DEF T
<1>3. Nat \subseteq T
  BY <1>1, <1>2, Induction
<1>4. n - m \in T /\ m + (n - m) = n
  BY <1>3
<1> QED
  BY <1>4 DEF T

(* Every number is below some power.                                       *)
LEMMA Pow2Exceeds ==
  ASSUME NEW n \in Nat
  PROVE  n < Pow2[n]
<1> DEFINE T == {k \in Nat : k < Pow2[k]}
<1>1. 0 \in T
  BY Pow2Type
<1>2. ASSUME NEW k \in Nat, k \in T PROVE k + 1 \in T
  BY <1>2, Pow2Type
<1> HIDE DEF T
<1>3. Nat \subseteq T
  BY <1>1, <1>2, Induction
<1> QED
  BY <1>3 DEF T

(* Every positive number lies between two neighbouring powers.             *)
LEMMA Bracket ==
  ASSUME NEW x \in Nat \ {0}
  PROVE  \E k \in Nat : Pow2[k] <= x /\ x < Pow2[k + 1]
<1> DEFINE T == {k \in Nat : x < Pow2[k]}
<1>1. T \in SUBSET Nat /\ T # {}
  <2>1. x \in T
    BY Pow2Exceeds
  <2> QED
    BY <2>1
<1>2. PICK m \in T : \A k \in T : m <= k
  <2> HIDE DEF T
  <2> QED
    BY <1>1, LeastNumber
<1>3. m # 0
  BY Pow2Type
<1>4. m - 1 \in Nat /\ (m - 1) + 1 = m /\ m - 1 \notin T
  BY <1>2, <1>3
<1>5. Pow2[m - 1] <= x
  BY <1>4, Pow2Type
<1> QED
  BY <1>4, <1>5

-----------------------------------------------------------------------------
(* Division                                                                *)

(* A number is its quotient times the divisor and its remainder.           *)
LEMMA DivMod ==
  ASSUME NEW a \in Nat, NEW p \in Nat \ {0}
  PROVE  /\ a \div p \in Nat /\ a % p \in 0..(p - 1)
         /\ a = (a \div p) * p + (a % p)
<1>1. a % p \in 0..(p - 1)
  OBVIOUS
<1>2. a = (a \div p) * p + (a % p)
  OBVIOUS
<1>3. a \div p \in Nat
  OBVIOUS
<1> QED
  BY <1>1, <1>2, <1>3

(* Products keep the order.                                                *)
LEMMA ProductOrder ==
  ASSUME NEW a \in Nat, NEW b \in Nat, NEW p \in Nat, a <= b
  PROVE  a * p \in Nat /\ b * p \in Nat /\ a * p <= b * p
<1>1. b * p = a * p + (b - a) * p
  OBVIOUS
<1>2. \A x, y \in Nat : x * y \in Nat
  OBVIOUS
<1>3. a * p \in Nat /\ b * p \in Nat /\ (b - a) * p \in Nat
  BY <1>2
<1> QED
  BY <1>1, <1>3

(* The product of a smaller number is smaller by a factor at least.        *)
LEMMA ProductStrict ==
  ASSUME NEW a \in Nat, NEW b \in Nat, NEW p \in Nat, a < b
  PROVE  a * p + p <= b * p
<1>1. (a + 1) * p <= b * p /\ (a + 1) * p = a * p + p
  BY ProductOrder
<1> QED
  BY <1>1

(* Quotient and remainder are the only ones.                               *)
LEMMA DivUnique ==
  ASSUME NEW a \in Nat, NEW p \in Nat \ {0}, NEW q \in Nat, NEW r \in 0..(p - 1),
         a = q * p + r
  PROVE  a \div p = q /\ a % p = r
<1> DEFINE d == a \div p
           m == a % p
<1>1. d \in Nat /\ m \in 0..(p - 1) /\ a = d * p + m
  BY DivMod
<1> HIDE DEF d, m
<1>2. q * p \in Nat /\ d * p \in Nat
  BY <1>1, ProductOrder
<1>3. ~(d < q)
  <2> SUFFICES ASSUME d < q PROVE FALSE
    OBVIOUS
  <2>1. d * p + p <= q * p
    BY <1>1, ProductStrict
  <2> QED
    BY <1>1, <1>2, <2>1
<1>4. ~(q < d)
  <2> SUFFICES ASSUME q < d PROVE FALSE
    OBVIOUS
  <2>1. q * p + p <= d * p
    BY <1>1, ProductStrict
  <2> QED
    BY <1>1, <1>2, <2>1
<1>5. d = q
  BY <1>1, <1>3, <1>4
<1>6. m = r
  BY <1>1, <1>2, <1>5
<1> QED
  BY <1>5, <1>6 DEF d, m

(* Dividing by a product is dividing twice.                                *)
LEMMA DivDiv ==
  ASSUME NEW a \in Nat, NEW p \in Nat \ {0}, NEW q \in Nat \ {0}
  PROVE  p * q \in Nat \ {0} /\ a \div (p * q) = (a \div p) \div q
<1> DEFINE b == a \div p
           r == a % p
           c == b \div q
           s == b % q
<1>1. b \in Nat /\ r \in 0..(p - 1) /\ a = b * p + r
  BY DivMod
<1>2. c \in Nat /\ s \in 0..(q - 1) /\ b = c * q + s
  BY <1>1, DivMod
<1> HIDE DEF b, r, c, s
<1>3. c * q \in Nat /\ s * p \in Nat /\ p * q \in Nat /\ s * p + p <= q * p
  BY <1>2, ProductOrder, ProductStrict
<1>4. p * q \in Nat \ {0}
  BY <1>3
<1>5. a = c * (p * q) + (s * p + r)
  <2>1. \A x, y, z, w \in Nat : (x * y + z) * w = x * (w * y) + z * w
    OBVIOUS
  <2>2. b * p = c * (p * q) + s * p
    BY <1>2, <2>1
  <2>3. c * (p * q) \in Nat
    BY <1>2, <1>3, ProductOrder
  <2> QED
    BY <1>1, <1>3, <2>2, <2>3
<1>6. s * p + r \in 0..(p * q - 1)
  <2>1. q * p = p * q
    OBVIOUS
  <2> QED
    BY <1>1, <1>3, <2>1
<1>7. a \div (p * q) = c
  BY <1>2, <1>4, <1>5, <1>6, DivUnique
<1> QED
  BY <1>4, <1>7 DEF b, c

(* A quotient is below a number if the dividend is below its multiple.     *)
LEMMA DivBelow ==
  ASSUME NEW a \in Nat, NEW p \in Nat \ {0}, NEW q \in Nat
  PROVE  a < q * p <=> a \div p < q
<1> DEFINE d == a \div p
           m == a % p
<1>1. d \in Nat /\ m \in 0..(p - 1) /\ a = d * p + m
  BY DivMod
<1> HIDE DEF d, m
<1>2. q * p \in Nat /\ d * p \in Nat
  BY <1>1, ProductOrder
<1>3. ASSUME d < q PROVE a < q * p
  <2>1. d * p + p <= q * p
    BY <1>1, <1>3, ProductStrict
  <2> QED
    BY <1>1, <1>2, <2>1
<1>4. ASSUME ~(d < q) PROVE ~(a < q * p)
  <2>1. q * p <= d * p
    BY <1>1, <1>4, ProductOrder
  <2> QED
    BY <1>1, <1>2, <2>1
<1> QED
  BY <1>3, <1>4 DEF d

(* A multiple of a power of two is one of every smaller power.             *)
LEMMA MultipleOfSmaller ==
  ASSUME NEW m \in Nat, NEW n \in Nat, m <= n, NEW a \in Nat, a % Pow2[n] = 0
  PROVE  a % Pow2[m] = 0
<1> DEFINE d == a \div Pow2[n]
<1>1. Pow2[n] = Pow2[n - m] * Pow2[m]
  <2>1. n - m \in Nat /\ (n - m) + m = n
    OBVIOUS
  <2> QED
    BY <2>1, Pow2Sum
<1>2. /\ Pow2[n] \in Nat \ {0} /\ Pow2[m] \in Nat \ {0} /\ Pow2[n - m] \in Nat
  BY Pow2Type, n - m \in Nat
<1>3. d \in Nat /\ a = d * Pow2[n] + 0
  BY <1>2, DivMod
<1> HIDE DEF d
<1>4. d * Pow2[n] = (d * Pow2[n - m]) * Pow2[m] /\ d * Pow2[n - m] \in Nat
  <2>1. \A x, y, z \in Nat : x * (y * z) = (x * y) * z /\ x * y \in Nat
    OBVIOUS
  <2> QED
    BY <1>1, <1>2, <1>3, <2>1
<1>5. a = (d * Pow2[n - m]) * Pow2[m] + 0 /\ 0 \in 0..(Pow2[m] - 1)
  BY <1>2, <1>3, <1>4
<1> QED
  BY <1>2, <1>4, <1>5, DivUnique

-----------------------------------------------------------------------------
(* Integers as bytes                                                       *)

(* What the assumption on the widths gives.                                *)
LEMMA Widths ==
  /\ ByteBits \in Nat \ {0} /\ ExpBits \in Nat \ {0, 1}
  /\ SigBits \in Nat \ {0} /\ 8 * ByteBits = 1 + ExpBits + SigBits
  /\ Base \in Nat \ {0} /\ Bias \in Nat \ {0}
  /\ Pow2[ExpBits] = 2 * Bias + 2
<1>1. /\ ByteBits \in Nat \ {0} /\ ExpBits \in Nat \ {0, 1}
      /\ SigBits \in Nat \ {0} /\ 8 * ByteBits = 1 + ExpBits + SigBits
  BY WidthsAssumption DEF SigBits
<1>2. Base \in Nat \ {0}
  BY <1>1, Pow2Type DEF Base
<1>3. ExpBits - 1 \in Nat /\ (ExpBits - 1) + 1 = ExpBits /\ 1 <= ExpBits - 1
  BY <1>1
<1>4. Pow2[ExpBits] = 2 * Pow2[ExpBits - 1]
  BY <1>3, Pow2Type
<1>5. Pow2[ExpBits - 1] \in Nat /\ Pow2[ExpBits - 1] > 1
  BY <1>3, Pow2Type, Pow2Exceeds
<1> QED
  BY <1>1, <1>2, <1>4, <1>5 DEF Bias

(* The values of a byte.                                                   *)
Byte == 0..(Base - 1)

(* A packed integer is as many bytes as asked for.                         *)
LEMMA BytesType ==
  ASSUME NEW i \in Nat, NEW n \in Nat
  PROVE  Bytes(i, n) \in Seq(Byte) /\ Len(Bytes(i, n)) = n
<1>1. ASSUME NEW k \in 1..n PROVE (i \div Pow2[ByteBits * (n - k)]) % Base \in Byte
  <2>1. n - k \in Nat /\ ByteBits \in Nat
    BY Widths
  <2>2. ByteBits * (n - k) \in Nat
    BY <2>1, ProductOrder
  <2>3. i \div Pow2[ByteBits * (n - k)] \in Nat
    BY <2>2, Pow2Type, DivMod
  <2> QED
    BY <2>3, Widths, DivMod DEF Byte
<1> QED
  BY <1>1 DEF Bytes

(* The recursion of ValueOf, and its bounds.                               *)
LEMMA ValueOfSteps ==
  ASSUME NEW b \in Seq(Byte)
  PROVE  \E v \in [0..Len(b) -> Nat] :
           /\ v[0] = 0
           /\ \A k \in Nat : k < Len(b) => v[k + 1] = v[k] * Base + b[k + 1]
           /\ ValueOf(b) = v[Len(b)]
<1> DEFINE n == Len(b)
           step == [k \in Nat |-> [m \in Nat |-> IF k < n THEN m * Base + b[k + 1] ELSE 0]]
           Body(v) == [k \in 0..n |-> IF k = 0 THEN 0 ELSE v[k - 1] * Base + b[k]]
           value == CHOOSE v : v = Body(v)
<1>1. n \in Nat /\ \A k \in 1..n : b[k] \in Nat
  <2>1. \A k \in 1..Len(b) : b[k] \in Byte
    OBVIOUS
  <2> QED
    BY <2>1, Widths DEF Byte
<1> HIDE DEF n
<1>2. step \in Steps(Nat) /\ 0 \in Nat
  <2>1. ASSUME NEW k \in Nat, NEW m \in Nat, k < n PROVE m * Base + b[k + 1] \in Nat
    <3>1. m * Base \in Nat /\ k + 1 \in 1..n
      BY <1>1, <2>1, Widths, ProductOrder
    <3> QED
      BY <1>1, <3>1
  <2> QED
    BY <2>1 DEF Steps
<1>3. PICK f : IteratesTo(n, f, Nat, 0, step)
  <2> HIDE DEF step
  <2> QED
    BY <1>1, <1>2, FiniteRecursion
<1>4. f \in [0..n -> Nat] /\ f[0] = 0
  BY <1>3 DEF IteratesTo
<1>5. ASSUME NEW k \in Nat, k < n PROVE f[k + 1] = f[k] * Base + b[k + 1]
  <2>1. f[k] \in Nat
    BY <1>1, <1>4, <1>5
  <2>2. f[k + 1] = step[k][f[k]]
    BY <1>3, <1>5 DEF IteratesTo
  <2> QED
    BY <1>5, <2>1, <2>2
<1> HIDE DEF step
<1>6. ASSUME NEW k \in 0..n, k # 0 PROVE f[k] = f[k - 1] * Base + b[k]
  <2>1. k - 1 \in Nat /\ (k - 1) + 1 = k /\ k - 1 < n
    BY <1>1, <1>6
  <2> QED
    BY <1>5, <2>1
<1>7. f = Body(f)
  BY <1>4, <1>6
<1>8. value = Body(value)
  BY <1>7
<1>9. ValueOf(b) = value[n]
  BY DEF ValueOf, n
<1> HIDE DEF value
<1>10. value[0] = 0 /\ \A k \in 1..n : value[k] = value[k - 1] * Base + b[k]
  BY <1>1, <1>8
<1> DEFINE T == {k \in Nat : k <= n => value[k] = f[k]}
<1>11. 0 \in T
  BY <1>4, <1>10
<1>12. ASSUME NEW k \in Nat, k \in T PROVE k + 1 \in T
  <2> SUFFICES ASSUME k + 1 <= n PROVE value[k + 1] = f[k + 1]
    OBVIOUS
  <2>1. value[k] = f[k] /\ k < n /\ k + 1 \in 1..n /\ (k + 1) - 1 = k
    BY <1>1, <1>12
  <2> QED
    BY <1>5, <1>10, <2>1
<1> HIDE DEF T
<1>13. Nat \subseteq T
  BY <1>11, <1>12, Induction
<1>14. ValueOf(b) = f[n]
  BY <1>1, <1>9, <1>13 DEF T
<1> QED
  BY <1>4, <1>5, <1>14 DEF n

(* One more byte.                                                          *)
LEMMA BytePower ==
  ASSUME NEW k \in Nat
  PROVE  /\ ByteBits * k \in Nat /\ Pow2[ByteBits * k] \in Nat \ {0}
         /\ Pow2[ByteBits * (k + 1)] = Pow2[ByteBits * k] * Base
<1>1. ByteBits \in Nat /\ ByteBits * k \in Nat
  BY Widths, ProductOrder
<1>2. ByteBits * (k + 1) = ByteBits * k + ByteBits
  BY <1>1
<1> QED
  BY <1>1, <1>2, Pow2Type, Pow2Sum DEF Base

(* The value of n bytes has n bytes.                                       *)
LEMMA ValueOfType ==
  ASSUME NEW b \in Seq(Byte)
  PROVE  ValueOf(b) \in 0..(Pow2[ByteBits * Len(b)] - 1)
<1>1. PICK v \in [0..Len(b) -> Nat] :
        /\ v[0] = 0
        /\ \A k \in Nat : k < Len(b) => v[k + 1] = v[k] * Base + b[k + 1]
        /\ ValueOf(b) = v[Len(b)]
  BY ValueOfSteps
<1> DEFINE T == {k \in Nat : k <= Len(b) => v[k] < Pow2[ByteBits * k]}
<1>2. 0 \in T
  <2>1. Pow2[ByteBits * 0] \in Nat \ {0}
    BY BytePower
  <2> QED
    BY <1>1, <2>1
<1>3. ASSUME NEW k \in Nat, k \in T PROVE k + 1 \in T
  <2> SUFFICES ASSUME k + 1 <= Len(b) PROVE v[k + 1] < Pow2[ByteBits * (k + 1)]
    OBVIOUS
  <2>1. v[k] \in Nat /\ v[k] < Pow2[ByteBits * k]
    BY <1>1, <1>3
  <2>2. v[k + 1] = v[k] * Base + b[k + 1] /\ b[k + 1] \in 0..(Base - 1)
    <3>1. k < Len(b) /\ k + 1 \in 1..Len(b)
      OBVIOUS
    <3>2. b[k + 1] \in Byte
      BY <3>1
    <3> QED
      BY <1>1, <3>1, <3>2 DEF Byte
  <2>3. /\ Base \in Nat /\ v[k] * Base \in Nat /\ Pow2[ByteBits * k] \in Nat
        /\ v[k] * Base + Base <= Pow2[ByteBits * k] * Base
    <3>1. Base \in Nat /\ Pow2[ByteBits * k] \in Nat
      BY BytePower, Widths
    <3>2. v[k] * Base + Base <= Pow2[ByteBits * k] * Base
      BY <2>1, <3>1, ProductStrict
    <3>3. v[k] * Base \in Nat
      BY <2>1, <3>1, ProductOrder
    <3> QED
      BY <3>1, <3>2, <3>3
  <2>4. v[k + 1] < Pow2[ByteBits * k] * Base
    <3>1. PICK t \in Nat : t = Pow2[ByteBits * k] * Base
      BY <2>3, ProductOrder
    <3>2. PICK s \in Nat : s = v[k] * Base /\ s + Base <= t
      BY <2>3, <3>1
    <3>3. PICK d \in 0..(Base - 1) : v[k + 1] = s + d
      BY <2>2, <3>2
    <3>4. s + d < t
      BY <2>3, <3>2
    <3> QED
      BY <3>1, <3>3, <3>4
  <2> QED
    BY <2>4, BytePower
<1> HIDE DEF T
<1>4. Nat \subseteq T
  BY <1>2, <1>3, Induction
<1>5. Len(b) \in T /\ Len(b) \in Nat
  BY <1>4
<1>6. v[Len(b)] \in Nat /\ v[Len(b)] < Pow2[ByteBits * Len(b)]
  BY <1>5 DEF T
<1>7. Pow2[ByteBits * Len(b)] \in Nat
  BY <1>5, BytePower
<1> QED
  BY <1>1, <1>6, <1>7

(* Cutting off one byte more.                                              *)
LEMMA BytesLeft ==
  ASSUME NEW i \in Nat, NEW m \in Nat
  PROVE  /\ i \div Pow2[ByteBits * m] \in Nat
         /\ i \div Pow2[ByteBits * (m + 1)] = (i \div Pow2[ByteBits * m]) \div Base
<1> DEFINE w == Pow2[ByteBits * m]
<1>1. w \in Nat \ {0} /\ Base \in Nat \ {0}
  BY BytePower, Widths
<1>2. Pow2[ByteBits * (m + 1)] = w * Base
  BY BytePower
<1> HIDE DEF w
<1>4. i \div (w * Base) = (i \div w) \div Base
  <2>1. \A v \in Nat \ {0} : i \div (v * Base) = (i \div v) \div Base
    BY Widths, DivDiv
  <2> QED
    BY <1>1, <2>1
<1>3. i \div w \in Nat
  BY <1>1, DivMod
<1> QED
  BY <1>2, <1>3, <1>4 DEF w

(* pack8 to pack64 and their unpack functions: what is unpacked from an    *)
(* integer's bytes is that integer, if they are enough to hold it.         *)
THEOREM BytesInverse ==
  ASSUME NEW n \in Nat, NEW i \in Nat, i < Pow2[ByteBits * n]
  PROVE  ValueOf(Bytes(i, n)) = i
<1> DEFINE b == Bytes(i, n)
           rest(k) == i \div Pow2[ByteBits * (n - k)]
<1>1. b \in Seq(Byte) /\ Len(b) = n /\ \A k \in 1..n : b[k] = rest(k) % Base
  BY BytesType DEF Bytes
<1> HIDE DEF b
<1>2. PICK v \in [0..n -> Nat] :
        /\ v[0] = 0
        /\ \A k \in Nat : k < n => v[k + 1] = v[k] * Base + b[k + 1]
        /\ ValueOf(b) = v[n]
  BY <1>1, ValueOfSteps
<1> DEFINE T == {k \in Nat : k <= n => v[k] = rest(k)}
<1>3. 0 \in T
  <2>1. Pow2[ByteBits * n] \in Nat \ {0} /\ i < 1 * Pow2[ByteBits * n]
    <3>1. Pow2[ByteBits * n] \in Nat \ {0}
      BY BytePower
    <3> QED
      BY <3>1
  <2>2. i \div Pow2[ByteBits * n] < 1 /\ i \div Pow2[ByteBits * n] \in Nat
    BY <2>1, DivBelow, DivMod
  <2>3. rest(0) = 0
    BY <2>2
  <2> QED
    BY <1>2, <2>3
<1>4. ASSUME NEW k \in Nat, k \in T PROVE k + 1 \in T
  <2> SUFFICES ASSUME k + 1 <= n PROVE v[k + 1] = rest(k + 1)
    OBVIOUS
  <2> DEFINE d == rest(k + 1)
  <2>1. n - (k + 1) \in Nat /\ (n - (k + 1)) + 1 = n - k
    OBVIOUS
  <2>2. /\ i \div Pow2[ByteBits * (n - (k + 1))] \in Nat
        /\ i \div Pow2[ByteBits * ((n - (k + 1)) + 1)]
             = (i \div Pow2[ByteBits * (n - (k + 1))]) \div Base
    BY <2>1, BytesLeft
  <2>3. rest(k) = d \div Base /\ d \in Nat
    BY <2>1, <2>2
  <2>4. v[k] = rest(k) /\ k + 1 \in 1..n
    BY <1>4
  <2>5. v[k + 1] = v[k] * Base + b[k + 1] /\ b[k + 1] = d % Base
    BY <1>1, <1>2, <2>4
  <2> HIDE DEF rest
  <2>6. d = (d \div Base) * Base + (d % Base)
    BY <2>3, DivMod, Widths
  <2> QED
    BY <2>3, <2>4, <2>5, <2>6
<1> HIDE DEF T
<1>5. Nat \subseteq T
  BY <1>3, <1>4, Induction
<1>6. v[n] = rest(n)
  BY <1>5 DEF T
<1>7. rest(n) = i
  <2>1. ByteBits * (n - n) = 0
    BY Widths
  <2>2. i \div 1 = i
    OBVIOUS
  <2> QED
    BY <2>1, <2>2, Pow2Type
<1> QED
  BY <1>2, <1>6, <1>7 DEF b

-----------------------------------------------------------------------------
(* The unit and the bits of a double                                       *)

(* The units in which doubles are counted: one and infinity.               *)
LEMMA Units ==
  /\ One \in Nat \ {0} /\ SigBits + Bias - 1 \in Nat
  /\ One = Pow2[SigBits] * Pow2[Bias - 1]
  /\ Infinity \in Nat \ {0} /\ Infinity = Pow2[SigBits + 2 * Bias]
  /\ Pow2[SigBits] \in Nat \ {0} /\ Pow2[ExpBits] \in Nat \ {0} /\ Pow2[Bias - 1] \in Nat \ {0}
<1>1. /\ SigBits \in Nat /\ Bias - 1 \in Nat /\ 2 * Bias \in Nat /\ ExpBits \in Nat
      /\ SigBits + Bias - 1 = SigBits + (Bias - 1)
      /\ SigBits + 2 * Bias \in Nat
      /\ SigBits + Pow2[ExpBits] - 2 = SigBits + 2 * Bias
  BY Widths
<1>2. /\ Pow2[SigBits + (Bias - 1)] \in Nat \ {0} /\ Pow2[SigBits + 2 * Bias] \in Nat \ {0}
      /\ Pow2[SigBits] \in Nat \ {0} /\ Pow2[ExpBits] \in Nat \ {0}
      /\ Pow2[Bias - 1] \in Nat \ {0}
  BY <1>1, Pow2Type
<1>3. Pow2[SigBits + (Bias - 1)] = Pow2[SigBits] * Pow2[Bias - 1]
  BY <1>1, Pow2Sum
<1> QED
  BY <1>1, <1>2, <1>3 DEF One, Infinity

(* A sign, an exponent and a fraction as one number.                       *)
Code(top, e, f) == (top * Pow2[ExpBits] + e) * Pow2[SigBits] + f

(* The fields of a code are found where they were put: dec754 cuts out the *)
(* exponent and the significand, and tells the sign.                       *)
LEMMA CodeFields ==
  ASSUME NEW top \in {0, 1}, NEW e \in 0..(Pow2[ExpBits] - 1), NEW f \in 0..(Pow2[SigBits] - 1)
  PROVE  /\ Code(top, e, f) \in Nat
         /\ Code(top, e, f) < Pow2[8 * ByteBits]
         /\ (Code(top, e, f) \div Pow2[SigBits]) % Pow2[ExpBits] = e
         /\ Code(top, e, f) % Pow2[SigBits] = f
         /\ Code(top, e, f) >= Pow2[ExpBits + SigBits] <=> top = 1
         /\ Code(top, e, f) = 0 <=> top = 0 /\ e = 0 /\ f = 0
<1> DEFINE P == Pow2[ExpBits]
           Q == Pow2[SigBits]
           h == top * P + e
           i == Code(top, e, f)
<1>1. P \in Nat \ {0} /\ Q \in Nat \ {0}
  BY Units
<1>2. Pow2[ExpBits + SigBits] = P * Q /\ Pow2[8 * ByteBits] = 2 * (P * Q) /\ P * Q \in Nat
  <2>1. /\ ExpBits \in Nat /\ SigBits \in Nat /\ ExpBits + SigBits \in Nat
        /\ 8 * ByteBits = (ExpBits + SigBits) + 1
    BY Widths
  <2>2. Pow2[ExpBits + SigBits] = P * Q
    BY <2>1, Pow2Sum
  <2>3. Pow2[8 * ByteBits] = 2 * Pow2[ExpBits + SigBits]
    BY <2>1, Pow2Type
  <2>4. P * Q \in Nat
    BY <1>1, ProductOrder
  <2> QED
    BY <2>2, <2>3, <2>4
<1>3. i = h * Q + f
  BY DEF Code
<1>4. h \in Nat /\ (top = 0 => h = e) /\ (top = 1 => h = P + e)
  BY <1>1
<1>5. h \div P = top /\ h % P = e
  BY <1>1, <1>4, DivUnique
<1> HIDE DEF P, Q, h, i
<1>6. h * Q \in Nat /\ i \in Nat
  BY <1>1, <1>3, <1>4, ProductOrder
<1>7. i \div Q = h /\ i % Q = f
  BY <1>1, <1>3, <1>4, <1>6, DivUnique DEF Q
<1>8. i < 2 * (P * Q)
  <2>1. h < 2 * P /\ 2 * P \in Nat
    BY <1>1, <1>4 DEF P
  <2>2. i \div Q < 2 * P
    BY <1>7, <2>1
  <2>3. i < (2 * P) * Q
    BY <1>1, <1>6, <2>1, <2>2, DivBelow
  <2>4. (2 * P) * Q = 2 * (P * Q)
    BY <1>1
  <2> QED
    BY <2>3, <2>4
<1>9. i >= P * Q <=> top = 1
  <2>1. h < P <=> top = 0
    BY <1>1, <1>4 DEF P
  <2>2. i < P * Q <=> i \div Q < P
    BY <1>1, <1>6, DivBelow
  <2> QED
    BY <1>2, <1>6, <1>7, <2>1, <2>2
<1>10. i = 0 <=> top = 0 /\ e = 0 /\ f = 0
  <2>1. ASSUME i = 0 PROVE top = 0 /\ e = 0 /\ f = 0
    <3>1. h = 0 /\ f = 0
      <4>1. 0 \div Q = 0 /\ 0 % Q = 0
        <5>1. 0 = 0 * Q + 0 /\ 0 \in 0..(Q - 1)
          BY <1>1
        <5> QED
          BY <1>1, <5>1, DivUnique
      <4> QED
        BY <1>7, <2>1, <4>1
    <3>2. P \in Nat /\ P > 0
      BY <1>1
    <3>3. top # 1
      BY <1>4, <3>1, <3>2
    <3> QED
      BY <1>4, <3>1, <3>3
  <2>2. ASSUME top = 0 /\ e = 0 /\ f = 0 PROVE i = 0
    BY <1>1, <1>3, <1>4, <2>2
  <2> QED
    BY <2>1, <2>2
<1> QED
  BY <1>2, <1>5, <1>6, <1>7, <1>8, <1>9, <1>10 DEF P, Q, h, i

(* The size of a number and its sign.                                      *)
LEMMA AbsType ==
  ASSUME NEW x \in Int
  PROVE  /\ Abs(x) \in Nat /\ (Abs(x) = 0 <=> x = 0)
         /\ x = IF x < 0 THEN -Abs(x) ELSE Abs(x)
BY DEF Abs

(* Of two powers on either side of a number the first is the smaller one.  *)
LEMMA PowersApart ==
  ASSUME NEW m \in Nat, NEW n \in Nat, NEW x \in Nat, Pow2[m] <= x, x < Pow2[n]
  PROVE  m < n
<1> SUFFICES ASSUME n <= m PROVE FALSE
  OBVIOUS
<1>1. Pow2[m] \in Nat /\ Pow2[n] \in Nat
  BY Pow2Type
<1>2. Pow2[n] <= Pow2[m]
  BY Pow2Order
<1> QED
  BY <1>1, <1>2

(* x is m units of the exponent e: the bits of a significand and a power.  *)
Scaled(x, m, e) ==
  /\ e \in 1..(2 * Bias)
  /\ m \in Nat /\ Pow2[SigBits] <= m /\ m < 2 * Pow2[SigBits]
  /\ x = m * Pow2[e - 1]
  /\ Pow2[SigBits + e - 1] <= x /\ x < Pow2[SigBits + e]

(* A double of a full significand is of that form.                         *)
LEMMA NormalForm ==
  ASSUME NEW x \in Double, Normal(x), x # 0
  PROVE  \E m, e : Scaled(Abs(x), m, e)
<1>1. PICK a \in Nat : a = Abs(x) /\ a # 0
  BY AbsType DEF Double
<1>2. Pow2[SigBits] <= a /\ a < Infinity
  BY <1>1 DEF Normal
<1>3. PICK g \in 1..(Pow2[ExpBits] - 2) : a % Pow2[g - 1] = 0 /\ a < Pow2[SigBits + g]
  BY <1>1, <1>2 DEF Double
<1>4. PICK k \in Nat : Pow2[k] <= a /\ a < Pow2[k + 1]
  BY <1>1, Bracket
<1>5. SigBits \in Nat /\ Bias \in Nat /\ g \in 1..(2 * Bias)
  BY Widths
<1>6. SigBits < k + 1 /\ k < SigBits + g
  <2>1. k + 1 \in Nat /\ SigBits + g \in Nat
    BY <1>5
  <2> QED
    BY <1>2, <1>3, <1>4, <1>5, <2>1, PowersApart
<1>7. PICK e \in 1..(2 * Bias) : e = k - SigBits + 1 /\ e <= g
  BY <1>5, <1>6
<1>8. e - 1 \in Nat /\ g - 1 \in Nat /\ SigBits + e - 1 = k /\ SigBits + e = k + 1
  BY <1>5, <1>7
<1>9. a % Pow2[e - 1] = 0
  BY <1>3, <1>7, <1>8, MultipleOfSmaller
<1>10. PICK p \in Nat \ {0} : p = Pow2[e - 1]
  BY <1>8, Pow2Type
<1>11. PICK q \in Nat \ {0} : q = Pow2[SigBits]
  BY Units
<1>12. Pow2[k] = q * p /\ Pow2[k + 1] = (2 * q) * p
  <2>1. k = SigBits + (e - 1) /\ k + 1 = (SigBits + 1) + (e - 1) /\ SigBits + 1 \in Nat
    BY <1>5, <1>8
  <2>2. Pow2[k] = Pow2[SigBits] * Pow2[e - 1]
    BY <1>5, <1>8, <2>1, Pow2Sum
  <2>3. Pow2[k + 1] = Pow2[SigBits + 1] * Pow2[e - 1]
    <3>1. Pow2[(SigBits + 1) + (e - 1)] = Pow2[SigBits + 1] * Pow2[e - 1]
      BY <1>8, <2>1, Pow2Sum
    <3> QED
      BY <2>1, <3>1
  <2>4. Pow2[SigBits + 1] = 2 * Pow2[SigBits]
    BY <1>5, Pow2Type
  <2> QED
    BY <1>10, <1>11, <2>2, <2>3, <2>4
<1>13. PICK m \in Nat : m = a \div p /\ a = m * p
  <2>1. a \div p \in Nat /\ a = (a \div p) * p + (a % p)
    BY DivMod
  <2>2. a % p = 0
    BY <1>9, <1>10
  <2>3. \A y \in Nat : y * p \in Nat
    OBVIOUS
  <2> QED
    BY <2>1, <2>2, <2>3
<1>14. m < 2 * q
  BY <1>4, <1>12, <1>13, DivBelow, 2 * q \in Nat
<1>15. q <= m
  <2>1. m < q => a < q * p
    BY <1>13, DivBelow
  <2>2. q * p \in Nat
    BY ProductOrder
  <2> QED
    BY <1>4, <1>12, <2>1, <2>2
<1> QED
  BY <1>1, <1>4, <1>8, <1>10, <1>11, <1>13, <1>14, <1>15 DEF Scaled

-----------------------------------------------------------------------------
(* The codecs of doubles                                                   *)

(* The exponent e of a number with a full significand.                     *)
HasExponent(a, e) == /\ e \in 1..(Pow2[ExpBits] - 1)
                     /\ Pow2[SigBits + e - 1] <= a /\ a < Pow2[SigBits + e]

(* A number has one exponent.                                              *)
LEMMA OneExponent ==
  ASSUME NEW a \in Nat, NEW e, NEW g, HasExponent(a, e), HasExponent(a, g)
  PROVE  e = g
<1>1. /\ e \in Nat \ {0} /\ g \in Nat \ {0}
      /\ SigBits + e - 1 \in Nat /\ SigBits + g - 1 \in Nat
      /\ SigBits + e \in Nat /\ SigBits + g \in Nat /\ SigBits \in Nat
  BY Widths DEF HasExponent
<1>2. SigBits + e - 1 < SigBits + g /\ SigBits + g - 1 < SigBits + e
  BY <1>1, PowersApart DEF HasExponent
<1> QED
  BY <1>1, <1>2

(* Every number with a full significand has one.                           *)
LEMMA SomeExponent ==
  ASSUME NEW a \in Nat, Pow2[SigBits] <= a, a <= Infinity
  PROVE  \E e : HasExponent(a, e)
<1>1. a # 0
  BY Units
<1>2. PICK k \in Nat : Pow2[k] <= a /\ a < Pow2[k + 1]
  BY <1>1, Bracket
<1>3. SigBits \in Nat /\ SigBits + 2 * Bias + 1 \in Nat /\ k + 1 \in Nat
  BY Widths
<1>4. a < Pow2[SigBits + 2 * Bias + 1]
  <2>1. SigBits + 2 * Bias \in Nat /\ SigBits + 2 * Bias + 1 = (SigBits + 2 * Bias) + 1
    BY Widths
  <2>2. Pow2[SigBits + 2 * Bias + 1] = 2 * Infinity
    BY <2>1, Units, Pow2Type
  <2> QED
    BY <2>2, Units
<1>5. SigBits < k + 1 /\ k < SigBits + 2 * Bias + 1
  BY <1>2, <1>3, <1>4, PowersApart
<1>6. /\ k - SigBits + 1 \in 1..(Pow2[ExpBits] - 1)
      /\ SigBits + (k - SigBits + 1) - 1 = k /\ SigBits + (k - SigBits + 1) = k + 1
  BY <1>3, <1>5, Widths
<1>7. HasExponent(a, k - SigBits + 1)
  BY <1>2, <1>6 DEF HasExponent
<1> QED
  BY <1>7

(* The bit of the sign.                                                    *)
Top(x) == IF x < 0 THEN 1 ELSE 0

(* The bits of IEEE 754 of a number with a full significand.               *)
LEMMA IEEEBitsParts ==
  ASSUME NEW x \in Int, NEW e, Pow2[SigBits] <= Abs(x), HasExponent(Abs(x), e)
  PROVE  IEEEBits(x) = Top(x) * Pow2[ExpBits + SigBits]
                         + (e * Pow2[SigBits] + (Abs(x) \div Pow2[e - 1] - Pow2[SigBits]))
<1>1. PICK a \in Nat : a = Abs(x)
  BY AbsType
<1> DEFINE exp == CHOOSE g \in 1..(Pow2[ExpBits] - 1) :
                    Pow2[SigBits + g - 1] <= Abs(x) /\ Abs(x) < Pow2[SigBits + g]
<1>2. HasExponent(a, exp)
  BY <1>1 DEF HasExponent
<1>3. exp = e
  BY <1>1, <1>2, OneExponent
<1> HIDE DEF exp
<1>4. IEEEBits(x) = IF x < 0
        THEN Pow2[ExpBits + SigBits]
               + (exp * Pow2[SigBits] + Abs(x) \div Pow2[exp - 1] - Pow2[SigBits])
        ELSE exp * Pow2[SigBits] + Abs(x) \div Pow2[exp - 1] - Pow2[SigBits]
  <2>1. Pow2[SigBits] \in Nat
    BY Units
  <2>2. ~(Abs(x) < Pow2[SigBits])
    BY <1>1, <2>1
  <2> QED
    BY <2>2 DEF IEEEBits, exp
<1>5. PICK c \in Nat : c = e * Pow2[SigBits]
  BY <1>2, <1>3, Units, ProductOrder DEF HasExponent
<1>6. PICK d \in Nat : d = Abs(x) \div Pow2[e - 1]
  <2>1. e - 1 \in Nat
    BY <1>2, <1>3, Units DEF HasExponent
  <2>2. Pow2[e - 1] \in Nat \ {0}
    BY <2>1, Pow2Type
  <2> QED
    BY <1>1, <2>2, DivMod
<1>7. Pow2[SigBits] \in Nat /\ Pow2[ExpBits + SigBits] \in Nat
  <2>1. ExpBits + SigBits \in Nat /\ SigBits \in Nat
    BY Widths
  <2> QED
    BY <2>1, Pow2Type
<1> QED
  BY <1>3, <1>4, <1>5, <1>6, <1>7 DEF Top

(* What a scaled number is made of.                                        *)
LEMMA ScaledParts ==
  ASSUME NEW a \in Nat, NEW m, NEW e, Scaled(a, m, e)
  PROVE  /\ HasExponent(a, e) /\ a \div Pow2[e - 1] = m /\ Pow2[SigBits] <= a
         /\ e - 1 \in Nat /\ m \in Nat /\ e \in 1..(Pow2[ExpBits] - 2)
         /\ m - Pow2[SigBits] \in 0..(Pow2[SigBits] - 1)
<1>1. e \in 1..(Pow2[ExpBits] - 2) /\ e - 1 \in Nat /\ Pow2[ExpBits] \in Nat
  BY Widths DEF Scaled
<1>2. PICK p \in Nat \ {0} : p = Pow2[e - 1]
  BY <1>1, Pow2Type
<1>3. m \in Nat /\ a = m * p + 0 /\ 0 \in 0..(p - 1)
  BY <1>2 DEF Scaled
<1>4. a \div p = m
  BY <1>2, <1>3, DivUnique
<1>5. Pow2[SigBits] \in Nat /\ Pow2[SigBits] <= m /\ m < 2 * Pow2[SigBits] /\ m <= a
  <2>1. 1 * m <= p * m /\ 1 * m = m /\ p * m = m * p
    BY <1>2, <1>3, ProductOrder
  <2> QED
    BY <1>3, <2>1, Units DEF Scaled
<1>6. HasExponent(a, e)
  BY <1>1 DEF HasExponent, Scaled
<1> QED
  BY <1>1, <1>2, <1>3, <1>4, <1>5, <1>6

(* IEEE 754 packs a scaled number as its sign, exponent and significand.   *)
LEMMA IEEEBitsScaled ==
  ASSUME NEW x \in Int, NEW m, NEW e, Scaled(Abs(x), m, e)
  PROVE  IEEEBits(x) = Code(Top(x), e, m - Pow2[SigBits])
<1>1. PICK a \in Nat : a = Abs(x)
  BY AbsType
<1>2. /\ HasExponent(a, e) /\ a \div Pow2[e - 1] = m /\ Pow2[SigBits] <= a
      /\ e \in Nat /\ m \in Nat
  BY <1>1, ScaledParts
<1>3. PICK p \in Nat, q \in Nat : p = Pow2[ExpBits] /\ q = Pow2[SigBits]
  BY Units
<1>4. Pow2[ExpBits + SigBits] = p * q
  <2>1. ExpBits \in Nat /\ SigBits \in Nat
    BY Widths
  <2> QED
    BY <1>3, <2>1, Pow2Sum
<1>5. IEEEBits(x) = Top(x) * (p * q) + (e * q + (m - q))
  BY <1>1, <1>2, <1>3, <1>4, IEEEBitsParts
<1>6. Top(x) \in Nat
  BY DEF Top
<1>7. \A t \in Nat : t * (p * q) + (e * q + (m - q)) = (t * p + e) * q + (m - q)
  BY <1>2
<1> QED
  BY <1>3, <1>5, <1>6, <1>7 DEF Code

(* IEEE 754 packs every double as a natural number.                        *)
LEMMA IEEEBitsType ==
  ASSUME NEW x \in Double
  PROVE  IEEEBits(x) \in Nat
<1>1. x \in Int
  BY DEF Double
<1>2. PICK a \in Nat : a = Abs(x)
  BY <1>1, AbsType
<1>3. PICK q \in Nat \ {0} : q = Pow2[SigBits]
  BY Units
<1>4. PICK h \in Nat : h = Pow2[ExpBits + SigBits]
  <2>1. ExpBits + SigBits \in Nat
    BY Widths
  <2> QED
    BY <2>1, Pow2Type
<1>5. CASE a < q
  BY <1>1, <1>2, <1>3, <1>4, <1>5 DEF IEEEBits
<1>6. CASE q <= a
  <2>1. a <= Infinity
    <3>1. CASE a = Infinity
      BY <3>1
    <3>2. CASE a # Infinity
      <4>1. PICK e \in 1..(Pow2[ExpBits] - 2) : a < Pow2[SigBits + e]
        BY <1>2, <3>2 DEF Double
      <4>2. e \in Nat /\ SigBits + e \in Nat /\ SigBits + 2 * Bias \in Nat /\ e <= 2 * Bias
        BY Widths
      <4>3. Pow2[SigBits + e] <= Infinity
        BY <4>2, Units, Widths, Pow2Order
      <4>4. Pow2[SigBits + e] \in Nat /\ Infinity \in Nat
        BY <4>2, Units, Pow2Type
      <4> QED
        BY <4>1, <4>3, <4>4
    <3> QED
      BY <3>1, <3>2
  <2>2. PICK e : HasExponent(a, e)
    BY <1>3, <1>6, <2>1, SomeExponent
  <2>3. e \in Nat /\ e - 1 \in Nat /\ 1 <= e
    BY <2>2, Units DEF HasExponent
  <2>4. Pow2[e - 1] \in Nat \ {0}
    BY <2>3, Pow2Type
  <2>5. a \div Pow2[e - 1] \in Nat
    BY <2>4, DivMod
  <2>6. 1 * q <= e * q /\ e * q \in Nat
    BY <1>3, <2>3, ProductOrder
  <2>7. IEEEBits(x) = Top(x) * h + (e * q + (a \div Pow2[e - 1] - q))
    BY <1>1, <1>2, <1>3, <1>4, <1>6, <2>2, IEEEBitsParts
  <2>8. Top(x) * h \in Nat
    BY DEF Top
  <2>9. e * q + (a \div Pow2[e - 1] - q) \in Nat
    BY <2>5, <2>6
  <2> QED
    BY <2>7, <2>8, <2>9
<1> QED
  BY <1>2, <1>3, <1>5, <1>6

(* What a code of a full significand stands for, to both decoders.         *)
LEMMA CodeValue ==
  ASSUME NEW x \in Int, NEW m, NEW e, Scaled(Abs(x), m, e)
  PROVE  LET i == Code(Top(x), e, m - Pow2[SigBits])
         IN  i \in Nat /\ i < Pow2[8 * ByteBits] /\ Dec754(i) = x /\ IEEEValue(i) = x
<1>1. PICK i : i = Code(Top(x), e, m - Pow2[SigBits])
  OBVIOUS
<1>2. /\ Abs(x) \in Nat
      /\ e \in 1..(Pow2[ExpBits] - 2) /\ e \in 0..(Pow2[ExpBits] - 1) /\ e - 1 \in Nat
      /\ m \in Nat /\ m - Pow2[SigBits] \in 0..(Pow2[SigBits] - 1)
      /\ Top(x) \in {0, 1}
  BY AbsType, ScaledParts, Units DEF Top
<1>3. /\ i \in Nat /\ i < Pow2[8 * ByteBits]
      /\ (i \div Pow2[SigBits]) % Pow2[ExpBits] = e
      /\ i % Pow2[SigBits] = m - Pow2[SigBits]
      /\ i >= Pow2[ExpBits + SigBits] <=> Top(x) = 1
      /\ i # 0
  BY <1>1, <1>2, CodeFields
<1>4. Pow2[SigBits] \in Nat /\ Pow2[SigBits] + (m - Pow2[SigBits]) = m
  BY <1>2, Units
<1>5. /\ e # 0 /\ e # Pow2[ExpBits] - 1
      /\ m * Pow2[e - 1] = Abs(x)
  BY <1>2, Units DEF Scaled
<1>6. x = IF i >= Pow2[ExpBits + SigBits] THEN -Abs(x) ELSE Abs(x)
  BY <1>3, AbsType DEF Top
<1>7. Dec754(i) = x
  BY <1>3, <1>4, <1>5, <1>6 DEF Dec754
<1>8. IEEEValue(i) = x
  BY <1>3, <1>4, <1>5, <1>6 DEF IEEEValue
<1> QED
  BY <1>1, <1>3, <1>7, <1>8

(* What IEEE 754 unpacks is a number.                                      *)
LEMMA IEEEValueType ==
  ASSUME NEW i \in Nat
  PROVE  IEEEValue(i) \in Int
<1>1. PICK q \in Nat \ {0}, p \in Nat \ {0} : q = Pow2[SigBits] /\ p = Pow2[ExpBits]
  BY Units
<1>2. PICK f \in Nat : f = i % q
  BY <1>1, DivMod
<1>3. PICK e \in Nat : e = (i \div q) % p
  <2>1. PICK d \in Nat : d = i \div q
    BY <1>1, DivMod
  <2>2. d % p \in Nat
    OBVIOUS
  <2> QED
    BY <2>1, <2>2
<1>4. e # 0 => (q + f) * Pow2[e - 1] \in Nat
  <2> SUFFICES ASSUME e # 0 PROVE (q + f) * Pow2[e - 1] \in Nat
    OBVIOUS
  <2>1. Pow2[e - 1] \in Nat /\ q + f \in Nat
    BY Pow2Type
  <2> QED
    BY <2>1, ProductOrder
<1>5. IEEEValue(i) \in {f, -f, (q + f) * Pow2[e - 1], -((q + f) * Pow2[e - 1])}
  BY <1>1, <1>2, <1>3 DEF IEEEValue
<1> QED
  BY <1>1, <1>2, <1>3, <1>4 DEF IEEEValue

(* Whatever is unpacked, a double can hold.                                *)
LEMMA DoubleSigned ==
  ASSUME NEW s \in Nat, s \in Double
  PROVE  -s \in Double
BY DEF Double, Abs

(* dec754 gives a double, whatever bits it is called with.                 *)
LEMMA Dec754Type ==
  ASSUME NEW i \in Nat
  PROVE  Dec754(i) \in Double
<1>1. PICK q \in Nat \ {0}, p \in Nat \ {0} : q = Pow2[SigBits] /\ p = Pow2[ExpBits]
  BY Units
<1>2. PICK f \in 0..(q - 1) : f = i % q
  BY <1>1, DivMod
<1>3. PICK e \in 0..(p - 1) : e = (i \div q) % p
  <2>1. i \div q \in Nat
    BY <1>1, DivMod
  <2> QED
    BY <1>1, <2>1, DivMod
<1> DEFINE r == q + f
<1>4. r \in Nat /\ r < 2 * q
  BY <1>2
<1>5. ASSUME NEW s \in Nat, s <= q PROVE s \in Double
  <2>1. 1 \in 1..(Pow2[ExpBits] - 2) /\ 1 - 1 = 0
    BY Widths
  <2>2. Abs(s) = s
    BY DEF Abs
  <2>3. s % Pow2[1 - 1] = 0
    BY Pow2Type
  <2>4. s < Pow2[SigBits + 1]
    <3>1. SigBits \in Nat
      BY Widths
    <3>2. Pow2[SigBits + 1] = 2 * q
      BY <1>1, <3>1, Pow2Type
    <3> QED
      BY <1>5, <3>2
  <2> QED
    BY <2>1, <2>2, <2>3, <2>4 DEF Double
<1>6. Infinity \in Nat /\ Infinity \in Double
  BY Units DEF Double, Abs
<1>7. ASSUME e # 0, e # p - 1 PROVE r * Pow2[e - 1] \in Nat /\ r * Pow2[e - 1] \in Double
  <2>1. e - 1 \in Nat /\ SigBits + 1 \in Nat /\ SigBits \in Nat
        /\ SigBits + e = (SigBits + 1) + (e - 1) /\ e \in 1..(Pow2[ExpBits] - 2)
    BY <1>1, <1>7, Widths
  <2>2. PICK g \in Nat \ {0} : g = Pow2[e - 1]
    BY <2>1, Pow2Type
  <2>3. PICK s \in Nat : s = r * g
    BY <1>4, <2>2, ProductOrder
  <2>4. s = r * g + 0 /\ 0 \in 0..(g - 1)
    BY <2>2, <2>3
  <2>5. s % g = 0
    BY <1>4, <2>4, DivUnique
  <2>6. Pow2[SigBits + e] = (2 * q) * g
    <3>1. Pow2[SigBits + e] = Pow2[SigBits + 1] * Pow2[e - 1]
      BY <2>1, Pow2Sum
    <3>2. Pow2[SigBits + 1] = 2 * q
      BY <1>1, <2>1, Pow2Type
    <3> QED
      BY <2>2, <3>1, <3>2
  <2>7. s < (2 * q) * g
    <3>1. s \div g = r
      BY <1>4, <2>4, DivUnique
    <3>2. 2 * q \in Nat
      OBVIOUS
    <3> QED
      BY <1>4, <3>1, <3>2, DivBelow
  <2>8. Abs(s) = s
    BY DEF Abs
  <2>9. s \in Double
    BY <2>1, <2>2, <2>5, <2>6, <2>7, <2>8 DEF Double
  <2> QED
    BY <2>2, <2>3, <2>9
<1> DEFINE half == r \div 2
           size == CASE e = 0 -> IF r % 2 = 1 /\ half % 2 = 1 THEN half + 1 ELSE half
                     [] e = p - 1 -> Infinity
                     [] OTHER -> r * Pow2[e - 1]
<1>8. size \in Nat /\ size \in Double
  <2>1. CASE e = 0
    <3>1. half \in Nat /\ half + 1 <= q
      BY <1>4
    <3>2. size = IF r % 2 = 1 /\ half % 2 = 1 THEN half + 1 ELSE half
      <4>1. e # p - 1
        BY <1>1, <2>1, Widths
      <4> QED
        BY <2>1, <4>1
    <3> HIDE DEF half, r, size
    <3>3. size \in Nat /\ size <= q
      BY <3>1, <3>2
    <3> QED
      BY <1>5, <3>3
  <2>2. CASE e # 0 /\ e = p - 1
    BY <1>6, <2>2
  <2>3. CASE e # 0 /\ e # p - 1
    BY <1>7, <2>3
  <2> QED
    BY <2>1, <2>2, <2>3
<1>9. Dec754(i) = IF i = 0 THEN 0
                  ELSE IF i >= Pow2[ExpBits + SigBits] THEN -size ELSE size
  BY <1>1, <1>2, <1>3 DEF Dec754
<1> HIDE DEF size
<1>10. 0 \in Double
  BY <1>1, <1>5
<1> QED
  BY <1>8, <1>9, <1>10, DoubleSigned

(* The highest power of two that is not above a number.                    *)
IsLog(x, k) == k \in Nat /\ Pow2[k] <= x /\ x < Pow2[k + 1]

(* A number has one logarithm.                                             *)
LEMMA LogUnique ==
  ASSUME NEW x \in Nat, NEW k, NEW n, IsLog(x, k), IsLog(x, n)
  PROVE  k = n
<1>1. k \in Nat /\ n \in Nat /\ k + 1 \in Nat /\ n + 1 \in Nat
  BY DEF IsLog
<1>2. k < n + 1 /\ n < k + 1
  BY <1>1, PowersApart DEF IsLog
<1> QED
  BY <1>1, <1>2

(* Doubling adds one to it.                                                *)
LEMMA LogDoubled ==
  ASSUME NEW x \in Nat, NEW k, IsLog(x, k)
  PROVE  IsLog(2 * x, k + 1)
<1>1. /\ Pow2[k] \in Nat /\ Pow2[k + 1] = 2 * Pow2[k]
      /\ k + 1 \in Nat /\ Pow2[(k + 1) + 1] = 2 * Pow2[k + 1]
  BY Pow2Type DEF IsLog
<1> QED
  BY <1>1 DEF IsLog

(* Halving takes one from it.                                              *)
LEMMA LogHalved ==
  ASSUME NEW x \in Nat, NEW k \in Nat, IsLog(x, k + 1)
  PROVE  IsLog(x \div 2, k)
<1>1. PICK p \in Nat : p = Pow2[k] /\ Pow2[k + 1] = 2 * p /\ Pow2[(k + 1) + 1] = 4 * p
  <2>1. /\ Pow2[k] \in Nat /\ Pow2[k + 1] = 2 * Pow2[k]
        /\ k + 1 \in Nat /\ Pow2[(k + 1) + 1] = 2 * Pow2[k + 1]
    BY Pow2Type
  <2> QED
    BY <2>1
<1>2. 2 * p <= x /\ x < 4 * p
  BY <1>1 DEF IsLog
<1>3. p <= x \div 2 /\ x \div 2 < 2 * p
  BY <1>2
<1> QED
  BY <1>1, <1>3 DEF IsLog

(* The tests of the loops of enc754 compare logarithms.                    *)
LEMMA OneLog ==
  /\ SigBits + Bias - 1 \in Nat /\ One = Pow2[SigBits + Bias - 1] /\ One \in Nat \ {0}
  /\ \A x \in Nat : \A k : IsLog(x, k) =>
        /\ x >= One <=> k >= SigBits + Bias - 1
        /\ x < 2 * One <=> k < SigBits + Bias
<1>1. PICK q \in Nat : q = SigBits + Bias - 1 /\ q + 1 = SigBits + Bias
  BY Units, Widths
<1>2. One = Pow2[q] /\ One \in Nat \ {0} /\ 2 * One = Pow2[q + 1]
  BY <1>1, Pow2Type DEF One
<1>3. ASSUME NEW x \in Nat, NEW k, IsLog(x, k) PROVE x >= One <=> k >= q
  <2>1. k \in Nat /\ k + 1 \in Nat
    BY <1>3 DEF IsLog
  <2>2. ASSUME x >= One PROVE k >= q
    <3>1. q < k + 1
      BY <1>2, <1>3, <2>1, <2>2, PowersApart DEF IsLog
    <3> QED
      BY <2>1, <3>1
  <2>3. ASSUME k >= q PROVE x >= One
    <3>1. Pow2[q] <= Pow2[k] /\ Pow2[k] \in Nat
      BY <2>1, <2>3, Pow2Order, Pow2Type
    <3> QED
      BY <1>2, <1>3, <3>1 DEF IsLog
  <2> QED
    BY <2>2, <2>3
<1>4. ASSUME NEW x \in Nat, NEW k, IsLog(x, k) PROVE x < 2 * One <=> k < q + 1
  <2>1. k \in Nat /\ k + 1 \in Nat
    BY <1>4 DEF IsLog
  <2>2. ASSUME x < 2 * One PROVE k < q + 1
    BY <1>2, <1>4, <2>1, <2>2, PowersApart DEF IsLog
  <2>3. ASSUME k < q + 1 PROVE x < 2 * One
    <3>1. Pow2[k + 1] <= Pow2[q + 1] /\ Pow2[k + 1] \in Nat
      BY <2>1, <2>3, Pow2Order, Pow2Type
    <3> QED
      BY <1>2, <1>4, <3>1 DEF IsLog
  <2> QED
    BY <2>2, <2>3
<1> QED
  BY <1>1, <1>2, <1>3, <1>4

(* The two loops of enc754 end, and with these numbers.                    *)
LEMMA DivPower ==
  ASSUME NEW x \in Nat, NEW n \in Nat
  PROVE  /\ x \div Pow2[n] \in Nat /\ x \div 2 \in Nat
         /\ (x \div 2) \div Pow2[n] = x \div Pow2[n + 1]
<1>1. PICK p \in Nat \ {0} : p = Pow2[n] /\ Pow2[n + 1] = 2 * p
  BY Pow2Type
<1>2. x \div p \in Nat /\ x \div 2 \in Nat
  BY DivMod
<1>3. \A d \in Nat \ {0} : x \div (d * p) = (x \div d) \div p
  BY DivDiv
<1>4. x \div (2 * p) = (x \div 2) \div p
  BY <1>3, 2 \in Nat \ {0}
<1> QED
  BY <1>1, <1>2, <1>4

(* The first loop of enc754: n rounds halve the number n times and count   *)
(* n.                                                                      *)
LEMMA HalvedForm ==
  ASSUME NEW x \in Nat, NEW n \in Nat, IsLog(x, SigBits + Bias - 1 + n)
  PROVE  Halved[x] = [norm |-> x \div Pow2[n], shift |-> n]
<1>1. PICK q \in Nat : q = SigBits + Bias - 1
  BY Units
<1>2. One \in Nat \ {0} /\ \A y \in Nat : \A k :
        IsLog(y, k) => /\ y >= One <=> k >= q
                       /\ y < 2 * One <=> k < q + 1
  BY <1>1, OneLog, Widths
<1> DEFINE Pos == Nat \ {0}
           Body(f) == [y \in Pos |-> IF y < 2 * One THEN [norm |-> y, shift |-> 0]
                                     ELSE [f[y \div 2] EXCEPT !.shift = @ + 1]]
           lg(y) == CHOOSE k : IsLog(y, k)
           F == [y \in Pos |-> IF y < One THEN [norm |-> y, shift |-> 0]
                               ELSE [norm |-> y \div Pow2[lg(y) - q], shift |-> lg(y) - q]]
<1>3. ASSUME NEW y \in Pos PROVE IsLog(y, lg(y))
  <2>1. \E k : IsLog(y, k)
    BY Bracket DEF IsLog
  <2> QED
    BY <2>1
<1>4. ASSUME NEW y \in Nat, NEW k \in Nat, IsLog(y, q + k)
      PROVE  y \in Pos /\ F[y] = [norm |-> y \div Pow2[k], shift |-> k]
  <2>1. q + k \in Nat /\ q + k >= q
    OBVIOUS
  <2>2. y >= One
    BY <1>2, <1>4, <2>1
  <2>3. y \in Pos /\ ~(y < One)
    BY <1>2, <2>2
  <2>4. lg(y) = q + k
    BY <1>3, <1>4, <2>3, LogUnique
  <2> HIDE DEF lg
  <2>5. lg(y) - q = k
    BY <2>4
  <2> QED
    BY <2>3, <2>5
<1>5. ASSUME NEW y \in Pos, y < One PROVE F[y] = [norm |-> y, shift |-> 0]
  BY <1>5
<1> HIDE DEF F, lg
<1>6. F = Body(F)
  <2>1. ASSUME NEW y \in Pos, y < 2 * One PROVE F[y] = [norm |-> y, shift |-> 0]
    <3>1. CASE y < One
      BY <1>5, <3>1
    <3>2. CASE ~(y < One)
      <4>1. PICK k \in Nat : IsLog(y, k)
        BY <1>3 DEF IsLog
      <4>2. k = q /\ q + 0 = q
        BY <1>2, <2>1, <3>2, <4>1
      <4>3. F[y] = [norm |-> y \div Pow2[0], shift |-> 0]
        BY <1>4, <4>1, <4>2
      <4>4. y \div Pow2[0] = y
        BY Pow2Type
      <4> QED
        BY <4>3, <4>4
    <3> QED
      BY <3>1, <3>2
  <2>2. ASSUME NEW y \in Pos, ~(y < 2 * One)
        PROVE  F[y] = [F[y \div 2] EXCEPT !.shift = @ + 1]
    <3>1. PICK k \in Nat : IsLog(y, k)
      BY <1>3 DEF IsLog
    <3>2. k >= q + 1
      BY <1>2, <2>2, <3>1
    <3>3. PICK n2 \in Nat : k = (q + n2) + 1
      <4>1. k - q - 1 \in Nat /\ k = (q + (k - q - 1)) + 1
        BY <3>2
      <4> QED
        BY <4>1
    <3>4. y \div 2 \in Nat /\ IsLog(y \div 2, q + n2)
      BY <3>1, <3>3, LogHalved, DivPower
    <3>5. F[y \div 2] = [norm |-> (y \div 2) \div Pow2[n2], shift |-> n2]
      BY <1>4, <3>4
    <3>6. F[y] = [norm |-> y \div Pow2[n2 + 1], shift |-> n2 + 1]
      <4>1. n2 + 1 \in Nat /\ q + (n2 + 1) = k
        BY <3>3
      <4> QED
        BY <1>4, <3>1, <4>1
    <3>7. (y \div 2) \div Pow2[n2] = y \div Pow2[n2 + 1]
      BY DivPower
    <3> QED
      BY <3>5, <3>6, <3>7
  <2>3. F = [y \in Pos |-> F[y]]
    BY DEF F
  <2> QED
    BY <2>1, <2>2, <2>3
<1>7. Halved = Body(Halved)
  BY <1>6 DEF Halved
<1> DEFINE T == {k \in Nat : \A y \in Nat : IsLog(y, q + k) => Halved[y] = F[y]}
<1>8. 0 \in T
  <2> SUFFICES ASSUME NEW y \in Nat, IsLog(y, q + 0) PROVE Halved[y] = F[y]
    OBVIOUS
  <2>1. q + 0 \in Nat /\ q + 0 < q + 1
    OBVIOUS
  <2>2. y < 2 * One
    BY <1>2, <2>1
  <2>3. y \in Pos
    BY <1>4
  <2> QED
    BY <1>6, <1>7, <2>2, <2>3
<1>9. ASSUME NEW k \in Nat, k \in T PROVE k + 1 \in T
  <2> SUFFICES ASSUME NEW y \in Nat, IsLog(y, q + (k + 1)) PROVE Halved[y] = F[y]
    OBVIOUS
  <2>1. q + k \in Nat /\ q + (k + 1) = (q + k) + 1
    OBVIOUS
  <2>2. y \div 2 \in Nat /\ IsLog(y \div 2, q + k)
    BY <2>1, LogHalved, DivPower
  <2>3. Halved[y \div 2] = F[y \div 2]
    BY <1>9, <2>2
  <2>4. k + 1 \in Nat /\ ~(q + (k + 1) < q + 1)
    OBVIOUS
  <2>5. y \in Pos /\ ~(y < 2 * One)
    BY <1>2, <1>4, <2>4
  <2> QED
    BY <1>6, <1>7, <2>3, <2>5, SMTT(30)
<1> HIDE DEF T
<1>10. Nat \subseteq T
  BY <1>8, <1>9, Induction
<1>11. Halved[x] = F[x]
  BY <1>1, <1>10 DEF T
<1> QED
  BY <1>1, <1>4, <1>11

(* The second loop of enc754: n rounds double the number n times and count *)
(* down n.                                                                 *)
LEMMA DoubledForm ==
  ASSUME NEW x \in Nat, NEW k \in Nat, NEW n \in Nat, k + n = SigBits + Bias - 1, IsLog(x, k)
  PROVE  Doubled[x] = [norm |-> x * Pow2[n], shift |-> -n]
<1>1. PICK q \in Nat : q = SigBits + Bias - 1
  BY Units
<1>2. One \in Nat \ {0} /\ \A y \in Nat : \A j : IsLog(y, j) => (y >= One <=> j >= q)
  BY <1>1, OneLog
<1> DEFINE Pos == Nat \ {0}
           Body(f) == [y \in Pos |-> IF y >= One THEN [norm |-> y, shift |-> 0]
                                     ELSE [f[2 * y] EXCEPT !.shift = @ - 1]]
           lg(y) == CHOOSE j : IsLog(y, j)
           F == [y \in Pos |-> IF y >= One THEN [norm |-> y, shift |-> 0]
                               ELSE [norm |-> y * Pow2[q - lg(y)], shift |-> lg(y) - q]]
<1>3. ASSUME NEW y \in Pos PROVE IsLog(y, lg(y))
  <2>1. \E j : IsLog(y, j)
    BY Bracket DEF IsLog
  <2> QED
    BY <2>1
<1>4. ASSUME NEW y \in Nat, NEW j \in Nat, IsLog(y, j) PROVE y \in Pos /\ lg(y) = j
  <2>1. y # 0
    <3>1. Pow2[j] \in Nat \ {0} /\ Pow2[j] <= y
      BY <1>4, Pow2Type DEF IsLog
    <3> QED
      BY <3>1
  <2> QED
    BY <1>3, <1>4, <2>1, LogUnique
<1> HIDE DEF lg
<1>5. ASSUME NEW y \in Nat, NEW j \in Nat, NEW m \in Nat, j + m = q, IsLog(y, j)
      PROVE  F[y] = [norm |-> y * Pow2[m], shift |-> -m]
  <2>1. y \in Pos /\ lg(y) = j /\ q - lg(y) = m /\ lg(y) - q = -m
    BY <1>4, <1>5
  <2>2. CASE m = 0
    <3>1. y >= One
      BY <1>2, <1>5, <2>2
    <3>2. y * Pow2[m] = y
      BY <2>2, Pow2Type
    <3> QED
      BY <2>1, <2>2, <3>1, <3>2
  <2>3. CASE m # 0
    <3>1. ~(j >= q)
      BY <1>5, <2>3
    <3>2. ~(y >= One)
      BY <1>2, <1>5, <3>1
    <3> QED
      BY <2>1, <3>2
  <2> QED
    BY <2>2, <2>3
<1>6. ASSUME NEW y \in Pos, y >= One PROVE F[y] = [norm |-> y, shift |-> 0]
  BY <1>6
<1> HIDE DEF F
<1>7. F = Body(F)
  <2>1. ASSUME NEW y \in Pos, ~(y >= One)
        PROVE  F[y] = [F[2 * y] EXCEPT !.shift = @ - 1]
    <3>1. PICK j \in Nat : IsLog(y, j)
      BY <1>3 DEF IsLog
    <3>2. j < q
      BY <1>2, <2>1, <3>1
    <3>3. PICK m \in Nat : j + (m + 1) = q /\ (j + 1) + m = q
      <4>1. q - j - 1 \in Nat /\ j + ((q - j - 1) + 1) = q /\ (j + 1) + (q - j - 1) = q
        BY <3>2
      <4> QED
        BY <4>1
    <3>4. 2 * y \in Nat /\ j + 1 \in Nat /\ IsLog(2 * y, j + 1)
      BY <3>1, LogDoubled
    <3>5. F[2 * y] = [norm |-> (2 * y) * Pow2[m], shift |-> -m]
      BY <1>5, <3>3, <3>4
    <3>6. F[y] = [norm |-> y * Pow2[m + 1], shift |-> -(m + 1)]
      BY <1>5, <3>1, <3>3, m + 1 \in Nat
    <3>7. (2 * y) * Pow2[m] = y * Pow2[m + 1]
      <4>1. Pow2[m] \in Nat /\ Pow2[m + 1] = 2 * Pow2[m]
        BY Pow2Type
      <4>2. \A p \in Nat : (2 * y) * p = y * (2 * p)
        OBVIOUS
      <4> QED
        BY <4>1, <4>2
    <3>8. -(m + 1) = (-m) - 1
      OBVIOUS
    <3> QED
      BY <3>5, <3>6, <3>7, <3>8
  <2>2. F = [y \in Pos |-> F[y]]
    BY DEF F
  <2> QED
    BY <1>6, <2>1, <2>2
<1>8. Doubled = Body(Doubled)
  BY <1>7 DEF Doubled
<1> DEFINE T == {m \in Nat : \A y, j \in Nat : j + m = q /\ IsLog(y, j) => Doubled[y] = F[y]}
<1>9. 0 \in T
  <2> SUFFICES ASSUME NEW y \in Nat, NEW j \in Nat, j + 0 = q, IsLog(y, j)
               PROVE  Doubled[y] = F[y]
    OBVIOUS
  <2>1. j >= q
    OBVIOUS
  <2>2. y \in Pos /\ y >= One
    BY <1>2, <1>4, <2>1
  <2> QED
    BY <1>7, <1>8, <2>2
<1>10. ASSUME NEW m \in Nat, m \in T PROVE m + 1 \in T
  <2> SUFFICES ASSUME NEW y \in Nat, NEW j \in Nat, j + (m + 1) = q, IsLog(y, j)
               PROVE  Doubled[y] = F[y]
    OBVIOUS
  <2>1. 2 * y \in Nat /\ j + 1 \in Nat /\ (j + 1) + m = q /\ IsLog(2 * y, j + 1)
    BY LogDoubled
  <2>2. Doubled[2 * y] = F[2 * y]
    BY <1>10, <2>1
  <2>3. ~(j >= q)
    OBVIOUS
  <2>4. y \in Pos /\ ~(y >= One)
    BY <1>2, <1>4, <2>3
  <2> QED
    BY <1>7, <1>8, <2>2, <2>4
<1> HIDE DEF T
<1>11. Nat \subseteq T
  BY <1>9, <1>10, Induction
<1>12. Doubled[x] = F[x]
  BY <1>1, <1>11 DEF T
<1> QED
  BY <1>1, <1>5, <1>12

(* The loops return: a number of at least one, and a shift.                *)
LEMMA NormalisedType ==
  ASSUME NEW x \in Nat \ {0}
  PROVE  /\ Normalised(x).norm \in Nat /\ Normalised(x).norm >= One
         /\ Normalised(x).shift \in Int
<1>1. PICK q \in Nat : q = SigBits + Bias - 1 /\ One = Pow2[q]
  BY Units DEF One
<1>2. PICK k \in Nat : IsLog(x, k)
  BY Bracket DEF IsLog
<1>3. x >= One <=> k >= q
  BY <1>1, <1>2, OneLog
<1>4. CASE k >= q
  <2>1. PICK n \in Nat : k = q + n
    <3>1. k - q \in Nat /\ k = q + (k - q)
      BY <1>4
    <3> QED
      BY <3>1
  <2>2. Normalised(x) = [norm |-> x \div Pow2[n], shift |-> n]
    BY <1>1, <1>2, <1>3, <1>4, <2>1, HalvedForm DEF Normalised
  <2>3. PICK o \in Nat, p \in Nat \ {0} : o = One /\ p = Pow2[n]
    BY Units, Pow2Type
  <2>4. o * p <= x
    BY <1>1, <1>2, <2>1, <2>3, Pow2Sum DEF IsLog
  <2>5. x \div p \in Nat
    BY DivMod
  <2>6. x < o * p <=> x \div p < o
    BY DivBelow
  <2>7. o * p \in Nat
    BY ProductOrder
  <2> QED
    BY <2>2, <2>3, <2>4, <2>5, <2>6, <2>7
<1>5. CASE k < q
  <2>1. PICK n \in Nat : k + n = q
    <3>1. q - k \in Nat /\ k + (q - k) = q
      BY <1>5
    <3> QED
      BY <3>1
  <2>2. Normalised(x) = [norm |-> x * Pow2[n], shift |-> -n]
    BY <1>1, <1>2, <1>3, <1>5, <2>1, DoubledForm DEF Normalised
  <2>3. PICK c \in Nat, p \in Nat \ {0} : c = Pow2[k] /\ p = Pow2[n]
    BY Pow2Type
  <2>4. c * p = One /\ c <= x
    <3>1. Pow2[k] * Pow2[n] = Pow2[k + n]
      BY <2>1, Pow2Sum
    <3>2. Pow2[k] <= x
      BY <1>2 DEF IsLog
    <3> QED
      BY <1>1, <2>1, <2>3, <3>1, <3>2
  <2>5. x * p \in Nat /\ c * p <= x * p
    BY <2>4, ProductOrder
  <2> QED
    BY <2>2, <2>3, <2>4, <2>5
<1> QED
  BY <1>4, <1>5

(* enc754 packs a number as a natural number.                              *)
LEMMA Enc754Type ==
  ASSUME NEW x \in Int
  PROVE  Enc754(x) \in Nat
<1>1. CASE x = 0
  BY <1>1 DEF Enc754
<1>2. CASE x # 0
  <2> DEFINE n           == Normalised(Abs(x))
             significand == (n.norm - One) \div Pow2[Bias - 1]
             exp         == (n.shift + Bias) % Pow2[ExpBits + 1]
             top         == IF x < 0 \/ exp >= Pow2[ExpBits] THEN 1 ELSE 0
  <2>1. /\ n.norm \in Nat /\ n.norm >= One /\ One \in Nat
        /\ n.shift + Bias \in Int /\ Pow2[Bias - 1] \in Nat \ {0}
    BY <1>2, AbsType, NormalisedType, Units, Widths
  <2>2. PICK h \in Nat \ {0}, q \in Nat : h = Pow2[ExpBits] /\ q = Pow2[SigBits]
    BY Units
  <2> HIDE DEF n
  <2>3. significand \in Nat
    <3>1. n.norm - One \in Nat
      BY <2>1
    <3> QED
      BY <2>1, <3>1, DivMod
  <2>4. exp % Pow2[ExpBits] \in Nat
    <3>1. PICK g \in Nat \ {0} : g = Pow2[ExpBits + 1]
      BY Widths, Pow2Type
    <3>2. \A z \in Int : z % g \in Nat
      OBVIOUS
    <3>3. exp \in Nat
      BY <2>1, <3>1, <3>2
    <3>4. \A z \in Nat : z % h \in Nat
      OBVIOUS
    <3> HIDE DEF exp
    <3> QED
      BY <2>2, <3>3, <3>4
  <2>5. top \in Nat
    OBVIOUS
  <2>6. Enc754(x) = (top * Pow2[ExpBits] + (exp % Pow2[ExpBits])) * Pow2[SigBits] + significand
    BY <1>2 DEF Enc754, n
  <2> HIDE DEF exp, top, significand
  <2>7. PICK t \in Nat, r \in Nat, s \in Nat :
          t = top /\ r = exp % Pow2[ExpBits] /\ s = significand
    BY <2>3, <2>4, <2>5
  <2>8. Enc754(x) = (t * h + r) * q + s
    BY <2>2, <2>6, <2>7
  <2>9. (t * h + r) * q + s \in Nat
    OBVIOUS
  <2> QED
    BY <2>8, <2>9
<1> QED
  BY <1>1, <1>2

(* A scaled number is normalised to its significand and its exponent.      *)
LEMMA NormalisedScaled ==
  ASSUME NEW x \in Nat, NEW m, NEW e, Scaled(x, m, e)
  PROVE  Normalised(x) = [norm |-> m * Pow2[Bias - 1], shift |-> e - Bias]
<1>1. PICK q \in Nat : q = SigBits + Bias - 1
  BY Units
<1>2. PICK k \in Nat : k = SigBits + e - 1 /\ k + 1 = SigBits + e /\ k - q = e - Bias
  BY <1>1, Widths DEF Scaled
<1>3. IsLog(x, k)
  BY <1>2 DEF IsLog, Scaled
<1>4. x >= One <=> k >= q
  BY <1>1, <1>3, OneLog
<1>5. e - 1 \in Nat /\ Bias - 1 \in Nat /\ Bias \in Nat /\ e \in Nat /\ m \in Nat
  BY Widths DEF Scaled
<1>6. PICK p \in Nat \ {0}, b \in Nat \ {0} : p = Pow2[e - 1] /\ b = Pow2[Bias - 1]
  BY <1>5, Pow2Type
<1>7. x = m * p
  BY <1>6 DEF Scaled
<1>8. CASE k >= q
  <2>1. PICK n \in Nat : n = k - q /\ q + n = k
    BY <1>8
  <2>2. Normalised(x) = [norm |-> x \div Pow2[n], shift |-> n]
    BY <1>1, <1>3, <1>4, <1>8, <2>1, HalvedForm DEF Normalised
  <2>3. PICK g \in Nat \ {0} : g = Pow2[n]
    BY Pow2Type
  <2>4. p = b * g
    <3>1. e - 1 = (Bias - 1) + n
      BY <1>2, <1>5, <2>1
    <3> QED
      BY <1>5, <1>6, <2>3, <3>1, Pow2Sum
  <2>5. x = (m * b) * g + 0 /\ m * b \in Nat /\ 0 \in 0..(g - 1)
    <3>1. \A y, z, w \in Nat : y * (z * w) = (y * z) * w + 0 /\ y * z \in Nat
      OBVIOUS
    <3> QED
      BY <1>5, <1>7, <2>4, <3>1
  <2>6. x \div g = m * b
    BY <2>5, DivUnique
  <2> QED
    BY <1>2, <1>6, <2>1, <2>2, <2>3, <2>6
<1>9. CASE k < q
  <2>1. PICK n \in Nat : -n = k - q /\ k + n = q
    <3>1. q - k \in Nat /\ k + (q - k) = q /\ -(q - k) = k - q
      BY <1>9
    <3> QED
      BY <3>1
  <2>2. Normalised(x) = [norm |-> x * Pow2[n], shift |-> -n]
    BY <1>1, <1>3, <1>4, <1>9, <2>1, DoubledForm DEF Normalised
  <2>3. PICK g \in Nat \ {0} : g = Pow2[n]
    BY Pow2Type
  <2>4. b = p * g
    <3>1. Bias - 1 = (e - 1) + n
      BY <1>2, <1>5, <2>1
    <3> QED
      BY <1>5, <1>6, <2>3, <3>1, Pow2Sum
  <2>5. x * g = m * b
    <3>1. \A y, z, w \in Nat : y * (z * w) = (y * z) * w
      OBVIOUS
    <3> QED
      BY <1>5, <1>7, <2>4, <3>1
  <2> QED
    BY <1>2, <1>6, <2>1, <2>2, <2>3, <2>5
<1> QED
  BY <1>8, <1>9

(* enc754 packs a scaled number as its sign, exponent and significand, as  *)
(* IEEE 754 does.                                                          *)
LEMMA Enc754Scaled ==
  ASSUME NEW x \in Int, NEW m, NEW e, Scaled(Abs(x), m, e)
  PROVE  Enc754(x) = Code(Top(x), e, m - Pow2[SigBits])
<1>1. PICK a \in Nat : a = Abs(x)
  BY AbsType
<1>2. /\ e \in 1..(Pow2[ExpBits] - 2) /\ m \in Nat /\ Pow2[SigBits] <= a
      /\ m - Pow2[SigBits] \in Nat
  BY <1>1, ScaledParts, Units
<1>3. x # 0
  BY <1>1, <1>2, AbsType, Units
<1>4. Normalised(a) = [norm |-> m * Pow2[Bias - 1], shift |-> e - Bias]
  BY <1>1, NormalisedScaled
<1>5. (m * Pow2[Bias - 1] - One) \div Pow2[Bias - 1] = m - Pow2[SigBits]
  <2>1. PICK b \in Nat \ {0}, q \in Nat, f \in Nat :
          b = Pow2[Bias - 1] /\ q = Pow2[SigBits] /\ f = m - q
    BY <1>2, Units
  <2>2. m * b - q * b = f * b
    <3>1. m = f + q
      BY <1>2, <2>1
    <3>2. \A y, z, w \in Nat : (y + z) * w - z * w = y * w
      OBVIOUS
    <3> QED
      BY <3>1, <3>2
  <2>3. f * b \in Nat /\ f * b = f * b + 0 /\ 0 \in 0..(b - 1)
    BY ProductOrder
  <2>4. (f * b) \div b = f
    BY <2>3, DivUnique
  <2>5. One = q * b
    BY <2>1, Units
  <2> QED
    BY <2>1, <2>2, <2>4, <2>5
<1>6. ((e - Bias) + Bias) % Pow2[ExpBits + 1] = e /\ e % Pow2[ExpBits] = e /\ e < Pow2[ExpBits]
  <2>1. PICK h \in Nat : h = Pow2[ExpBits] /\ Pow2[ExpBits + 1] = 2 * h
    BY Widths, Pow2Type
  <2>2. (e - Bias) + Bias = e
    BY <1>2, Widths
  <2>3. e \in Nat /\ e < h
    BY <1>2, <2>1
  <2>4. e % h = e /\ e % (2 * h) = e
    BY <2>3
  <2> QED
    BY <2>1, <2>2, <2>3, <2>4
<1>7. ~(e >= Pow2[ExpBits])
  BY <1>2, <1>6, Units
<1> QED
  BY <1>1, <1>3, <1>4, <1>5, <1>6, <1>7 DEF Enc754, Code, Top

(* enc754 and dec754: of every double with a full significand, and of      *)
(* zero, enc754 packs the bits of IEEE 754, and what it packs dec754       *)
(* unpacks, and so does the struct module of Python.                       *)
THEOREM DoubleCodec ==
  ASSUME NEW x \in Double, Normal(x)
  PROVE  /\ Enc754(x) \in Nat /\ Enc754(x) < Pow2[8 * ByteBits] /\ IEEEBits(x) = Enc754(x)
         /\ Dec754(Enc754(x)) = x /\ IEEEValue(Enc754(x)) = x
<1>1. x \in Int
  BY DEF Double
<1>2. CASE x # 0
  <2>1. PICK m, e : Scaled(Abs(x), m, e)
    BY <1>2, NormalForm
  <2> QED
    BY <1>1, <2>1, CodeValue, IEEEBitsScaled, Enc754Scaled
<1>3. CASE x = 0
  <2>1. PICK q \in Nat \ {0}, p \in Nat \ {0} : q = Pow2[SigBits] /\ p = Pow2[ExpBits]
    BY Units
  <2>2. Pow2[8 * ByteBits] \in Nat \ {0} /\ Pow2[ExpBits + SigBits] \in Nat \ {0}
    <3>1. 8 * ByteBits \in Nat /\ ExpBits + SigBits \in Nat
      BY Widths
    <3> QED
      BY <3>1, Pow2Type
  <2>3. Enc754(x) = 0 /\ Dec754(0) = 0
    BY <1>3 DEF Enc754, Dec754
  <2>4. IEEEBits(x) = 0
    BY <1>3, <2>1 DEF IEEEBits, Abs
  <2>5. 0 \div q = 0 /\ 0 % q = 0 /\ 0 % p = 0
    <3>1. \A z \in Nat \ {0} : 0 = 0 * z + 0 /\ 0 \in 0..(z - 1)
      OBVIOUS
    <3> QED
      BY <3>1, DivUnique
  <2>6. IEEEValue(0) = 0
    BY <2>1, <2>2, <2>5 DEF IEEEValue
  <2> QED
    BY <1>3, <2>2, <2>3, <2>4, <2>6
<1> QED
  BY <1>2, <1>3

-----------------------------------------------------------------------------
(* Layouts                                                                 *)

(* The buffer has these bytes at an offset.                                *)
Holds(buf, o, bytes) ==
  /\ o \in Nat /\ buf \in Seq(Byte) /\ bytes \in Seq(Byte)
  /\ o + Len(bytes) <= Len(buf)
  /\ \A k \in 1..Len(bytes) : buf[o + k] = bytes[k]

(* A sequence holds itself.                                                *)
LEMMA HoldsItself ==
  ASSUME NEW s \in Seq(Byte)
  PROVE  Holds(s, 0, s)
<1>1. Len(s) \in Nat /\ 0 + Len(s) <= Len(s) /\ \A k \in 1..Len(s) : 0 + k = k
  OBVIOUS
<1> QED
  BY <1>1 DEF Holds

(* What a sequence holds, it holds with something appended.                *)
LEMMA HoldsLeft ==
  ASSUME NEW s \in Seq(Byte), NEW t \in Seq(Byte), NEW o, NEW p, Holds(s, o, p)
  PROVE  Holds(s \o t, o, p)
<1>1. /\ s \o t \in Seq(Byte) /\ Len(s \o t) = Len(s) + Len(t)
      /\ \A i \in 1..(Len(s) + Len(t)) : (s \o t)[i] = IF i <= Len(s) THEN s[i]
                                                       ELSE t[i - Len(s)]
  BY ConcatProperties
<1>2. o \in Nat /\ p \in Seq(Byte) /\ o + Len(p) <= Len(s)
      /\ \A k \in 1..Len(p) : s[o + k] = p[k]
  BY DEF Holds
<1>3. Len(s) \in Nat /\ Len(t) \in Nat /\ Len(p) \in Nat
  BY <1>2
<1>4. ASSUME NEW k \in 1..Len(p) PROVE (s \o t)[o + k] = p[k]
  <2>1. o + k \in 1..(Len(s) + Len(t)) /\ o + k <= Len(s)
    BY <1>2, <1>3
  <2> QED
    BY <1>1, <1>2, <2>1
<1> QED
  BY <1>1, <1>2, <1>3, <1>4 DEF Holds

(* What is appended is held at the end.                                    *)
LEMMA HoldsRight ==
  ASSUME NEW s \in Seq(Byte), NEW t \in Seq(Byte)
  PROVE  Holds(s \o t, Len(s), t)
<1>1. /\ s \o t \in Seq(Byte) /\ Len(s \o t) = Len(s) + Len(t)
      /\ \A i \in 1..(Len(s) + Len(t)) : (s \o t)[i] = IF i <= Len(s) THEN s[i]
                                                       ELSE t[i - Len(s)]
  BY ConcatProperties
<1>2. Len(s) \in Nat /\ Len(t) \in Nat
  OBVIOUS
<1>3. ASSUME NEW k \in 1..Len(t) PROVE (s \o t)[Len(s) + k] = t[k]
  <2>1. /\ Len(s) + k \in 1..(Len(s) + Len(t)) /\ ~(Len(s) + k <= Len(s))
        /\ Len(s) + k - Len(s) = k
    BY <1>2
  <2> QED
    BY <1>1, <2>1
<1> QED
  BY <1>1, <1>2, <1>3 DEF Holds

(* A part of a part is a part.                                             *)
LEMMA HoldsWithin ==
  ASSUME NEW a, NEW o, NEW b, NEW j, NEW c, Holds(a, o, b), Holds(b, j, c)
  PROVE  Holds(a, o + j, c)
<1>1. /\ a \in Seq(Byte) /\ b \in Seq(Byte) /\ c \in Seq(Byte) /\ o \in Nat /\ j \in Nat
      /\ o + Len(b) <= Len(a) /\ j + Len(c) <= Len(b)
      /\ \A k \in 1..Len(b) : a[o + k] = b[k]
      /\ \A k \in 1..Len(c) : b[j + k] = c[k]
  BY DEF Holds
<1>2. Len(a) \in Nat /\ Len(b) \in Nat /\ Len(c) \in Nat
  BY <1>1
<1>3. ASSUME NEW k \in 1..Len(c) PROVE a[o + j + k] = c[k]
  <2>1. j + k \in 1..Len(b) /\ o + (j + k) = o + j + k
    BY <1>1, <1>2
  <2> QED
    BY <1>1, <2>1
<1> QED
  BY <1>1, <1>2, <1>3 DEF Holds

(* The bytes at an offset.                                                 *)
LEMMA AtType ==
  ASSUME NEW buf \in Seq(Byte), NEW o \in Nat, NEW n \in Nat, o + n <= Len(buf)
  PROVE  /\ At(buf, o, n) \in Seq(Byte) /\ Len(At(buf, o, n)) = n
         /\ \A k \in 1..n : At(buf, o, n)[k] = buf[o + k]
<1>1. Len(buf) \in Nat /\ o + 1 \in Int /\ o + n \in Int
  OBVIOUS
<1>2. \A i \in (o + 1)..(o + n) : i \in 1..Len(buf) /\ buf[i] \in Byte
  <2> SUFFICES ASSUME NEW i \in (o + 1)..(o + n) PROVE i \in 1..Len(buf) /\ buf[i] \in Byte
    OBVIOUS
  <2>1. i \in 1..Len(buf)
    BY <1>1
  <2> QED
    BY <2>1
<1>3. /\ SubSeq(buf, o + 1, o + n) \in Seq(Byte)
      /\ Len(SubSeq(buf, o + 1, o + n)) = IF o + 1 <= o + n THEN o + n - (o + 1) + 1 ELSE 0
      /\ \A i \in 1..(o + n - (o + 1) + 1) : SubSeq(buf, o + 1, o + n)[i] = buf[o + 1 + i - 1]
  BY <1>1, <1>2, SubSeqProperties, SMTT(30)
<1>4. /\ o + n - (o + 1) + 1 = n
      /\ (IF o + 1 <= o + n THEN o + n - (o + 1) + 1 ELSE 0) = n
  OBVIOUS
<1>5. ASSUME NEW k \in 1..n PROVE SubSeq(buf, o + 1, o + n)[k] = buf[o + k]
  <2>1. k \in 1..(o + n - (o + 1) + 1) /\ o + 1 + k - 1 = o + k
    OBVIOUS
  <2>2. SubSeq(buf, o + 1, o + n)[k] = buf[o + 1 + k - 1]
    BY <1>3, <2>1
  <2> QED
    BY <2>1, <2>2
<1>6. Len(SubSeq(buf, o + 1, o + n)) = n
  BY <1>3, <1>4
<1> QED
  BY <1>3, <1>5, <1>6 DEF At

(* An integer read from n bytes has n bytes.                               *)
LEMMA UnpackedType ==
  ASSUME NEW buf \in Seq(Byte), NEW o \in Nat, NEW n \in Nat, o + n <= Len(buf)
  PROVE  ValueOf(At(buf, o, n)) \in 0..(Pow2[ByteBits * n] - 1)
BY AtType, ValueOfType

(* An integer is read where its bytes are held: Pack and Unpack of upack.c *)
(* are inverse on what fits the width.                                     *)
LEMMA HoldsInteger ==
  ASSUME NEW buf, NEW o, NEW n \in Nat, NEW i \in Nat, i < Pow2[ByteBits * n],
         Holds(buf, o, Bytes(i, n))
  PROVE  ValueOf(At(buf, o, n)) = i
<1>1. Bytes(i, n) \in Seq(Byte) /\ Len(Bytes(i, n)) = n
  BY BytesType
<1>2. /\ buf \in Seq(Byte) /\ o \in Nat /\ o + n <= Len(buf)
      /\ \A k \in 1..n : buf[o + k] = Bytes(i, n)[k]
  BY <1>1 DEF Holds
<1>3. At(buf, o, n) = Bytes(i, n)
  <2>1. /\ At(buf, o, n) \in Seq(Byte) /\ Len(At(buf, o, n)) = n
        /\ \A k \in 1..n : At(buf, o, n)[k] = buf[o + k]
    BY <1>2, AtType
  <2>2. \A k \in 1..n : At(buf, o, n)[k] = Bytes(i, n)[k]
    BY <1>2, <2>1
  <2>3. PICK s \in Seq(Byte), t \in Seq(Byte) : s = At(buf, o, n) /\ t = Bytes(i, n)
    BY <1>1, <2>1
  <2>4. s = t
    BY <1>1, <2>1, <2>2, <2>3, SeqEqual
  <2> QED
    BY <2>3, <2>4
<1> QED
  BY <1>3, BytesInverse

(* The words of the layout in bytes.                                       *)
LEMMA Words ==
  /\ Word16 = 0..(Pow2[ByteBits * 2] - 1) /\ Word32 = 0..(Pow2[ByteBits * 4] - 1)
  /\ Base = Pow2[ByteBits * 1] /\ Pow2[8 * ByteBits] = Pow2[ByteBits * 8]
  /\ Word16 \subseteq Nat /\ Word32 \subseteq Nat
<1>1. /\ 2 * ByteBits = ByteBits * 2 /\ 4 * ByteBits = ByteBits * 4
      /\ 8 * ByteBits = ByteBits * 8 /\ ByteBits * 1 = ByteBits
  BY Widths
<1> QED
  BY <1>1 DEF Word16, Word32, Base

(* One part more.                                                          *)
Joined(r, s, t) ==
  /\ r = s \o t /\ r \in Seq(Byte) /\ Len(r) = Len(s) + Len(t)
  /\ Holds(r, Len(s), t)
  /\ \A o, p : Holds(s, o, p) => Holds(r, o, p)

(* Appending is one part more.                                             *)
LEMMA Appended ==
  ASSUME NEW s \in Seq(Byte), NEW t \in Seq(Byte)
  PROVE  Joined(s \o t, s, t)
BY ConcatProperties, HoldsLeft, HoldsRight DEF Joined

(* The fields of a node, each at its offset.                               *)
HoldsNode(buf, n) ==
  /\ Holds(buf, 0, Bytes(n.nodeID, 4))
  /\ Holds(buf, 4, Bytes(Enc754(n.lat), 8))
  /\ Holds(buf, 12, Bytes(Enc754(n.lon), 8))
  /\ Holds(buf, 20, Bytes(n.coordRange, 2))
  /\ Holds(buf, 22, Bytes(n.ipAddr, 4))
  /\ Holds(buf, 26, Bytes(n.port, 2))
  /\ Holds(buf, 28, Bytes(n.radac_ip, 4))
  /\ Holds(buf, 32, Bytes(n.radac_port, 2))
  /\ Holds(buf, 34, Bytes(n.timeStamp, 4))

(* A packed node has NodeSize bytes and its fields where UnpackNode looks  *)
(* for them.                                                               *)
LEMMA NodePacked ==
  ASSUME NEW n \in WireNode
  PROVE  /\ PackNode(n) \in Seq(Byte) /\ Len(PackNode(n)) = 38
         /\ HoldsNode(PackNode(n), n)
<1>1. /\ n.nodeID \in Nat /\ n.coordRange \in Nat /\ n.ipAddr \in Nat /\ n.port \in Nat
      /\ n.radac_ip \in Nat /\ n.radac_port \in Nat /\ n.timeStamp \in Nat
      /\ Enc754(n.lat) \in Nat /\ Enc754(n.lon) \in Nat
  BY Words, Enc754Type DEF WireNode
<1>2. PICK a \in Seq(Byte), b \in Seq(Byte), c \in Seq(Byte), d \in Seq(Byte), e \in Seq(Byte),
           f \in Seq(Byte), g \in Seq(Byte), h \in Seq(Byte), i \in Seq(Byte) :
        /\ a = Bytes(n.nodeID, 4) /\ b = Bytes(Enc754(n.lat), 8)
        /\ c = Bytes(Enc754(n.lon), 8) /\ d = Bytes(n.coordRange, 2)
        /\ e = Bytes(n.ipAddr, 4) /\ f = Bytes(n.port, 2) /\ g = Bytes(n.radac_ip, 4)
        /\ h = Bytes(n.radac_port, 2) /\ i = Bytes(n.timeStamp, 4)
  BY <1>1, BytesType
<1>3. /\ Len(a) = 4 /\ Len(b) = 8 /\ Len(c) = 8 /\ Len(d) = 2 /\ Len(e) = 4
      /\ Len(f) = 2 /\ Len(g) = 4 /\ Len(h) = 2 /\ Len(i) = 4
  BY <1>1, <1>2, BytesType
<1>4. PackNode(n) = a \o b \o c \o d \o e \o f \o g \o h \o i
  BY <1>2 DEF PackNode, Pack16, Pack32, Pack64, PackDouble
<1>5. Holds(a, 0, a)
  BY HoldsItself
<1>6. PICK s2 \in Seq(Byte) : Joined(s2, a, b)
  BY Appended DEF Joined
<1>7. PICK s3 \in Seq(Byte) : Joined(s3, s2, c)
  BY Appended DEF Joined
<1>8. PICK s4 \in Seq(Byte) : Joined(s4, s3, d)
  BY Appended DEF Joined
<1>9. PICK s5 \in Seq(Byte) : Joined(s5, s4, e)
  BY Appended DEF Joined
<1>10. PICK s6 \in Seq(Byte) : Joined(s6, s5, f)
  BY Appended DEF Joined
<1>11. PICK s7 \in Seq(Byte) : Joined(s7, s6, g)
  BY Appended DEF Joined
<1>12. PICK s8 \in Seq(Byte) : Joined(s8, s7, h)
  BY Appended DEF Joined
<1>13. PICK s9 \in Seq(Byte) : Joined(s9, s8, i)
  BY Appended DEF Joined
<1>14. PackNode(n) = s9
  BY <1>4, <1>6, <1>7, <1>8, <1>9, <1>10, <1>11, <1>12, <1>13 DEF Joined
<1>15. /\ Len(s2) = 12 /\ Len(s3) = 20 /\ Len(s4) = 22 /\ Len(s5) = 26
       /\ Len(s6) = 28 /\ Len(s7) = 32 /\ Len(s8) = 34 /\ Len(s9) = 38
  BY <1>3, <1>6, <1>7, <1>8, <1>9, <1>10, <1>11, <1>12, <1>13 DEF Joined
<1>16. /\ Holds(s2, 4, b) /\ Holds(s3, 12, c) /\ Holds(s4, 20, d) /\ Holds(s5, 22, e)
       /\ Holds(s6, 26, f) /\ Holds(s7, 28, g) /\ Holds(s8, 32, h) /\ Holds(s9, 34, i)
  BY <1>3, <1>15, <1>6, <1>7, <1>8, <1>9, <1>10, <1>11, <1>12, <1>13 DEF Joined
<1>17. /\ \A o, p : Holds(s8, o, p) => Holds(s9, o, p)
       /\ \A o, p : Holds(s7, o, p) => Holds(s9, o, p)
       /\ \A o, p : Holds(s6, o, p) => Holds(s9, o, p)
       /\ \A o, p : Holds(s5, o, p) => Holds(s9, o, p)
       /\ \A o, p : Holds(s4, o, p) => Holds(s9, o, p)
       /\ \A o, p : Holds(s3, o, p) => Holds(s9, o, p)
       /\ \A o, p : Holds(s2, o, p) => Holds(s9, o, p)
       /\ \A o, p : Holds(a, o, p) => Holds(s9, o, p)
  BY <1>6, <1>7, <1>8, <1>9, <1>10, <1>11, <1>12, <1>13 DEF Joined
<1>18. /\ Holds(s9, 0, a) /\ Holds(s9, 4, b) /\ Holds(s9, 12, c) /\ Holds(s9, 20, d)
       /\ Holds(s9, 22, e) /\ Holds(s9, 26, f) /\ Holds(s9, 28, g) /\ Holds(s9, 32, h)
       /\ Holds(s9, 34, i)
  BY <1>5, <1>16, <1>17
<1> QED
  BY <1>2, <1>14, <1>15, <1>18 DEF HoldsNode

(* Parts of one length, one after the other.                               *)
LEMMA Flattened ==
  ASSUME NEW parts \in Seq(Seq(Byte)), \A i \in 1..Len(parts) : Len(parts[i]) = 38
  PROVE  /\ FlattenSeq(parts) \in Seq(Byte) /\ Len(FlattenSeq(parts)) = 38 * Len(parts)
         /\ \A i \in 1..Len(parts) : Holds(FlattenSeq(parts), 38 * (i - 1), parts[i])
<1>1. PICK n \in Nat : n = Len(parts)
  OBVIOUS
<1>2. \A i \in 1..n : parts[i] \in Seq(Byte) /\ Len(parts[i]) = 38
  BY <1>1
<1>3. CASE n = 0
  <2>1. FlattenSeq(parts) = parts
    BY <1>1, <1>3 DEF FlattenSeq
  <2>3. parts = <<>>
    BY <1>1, <1>3, EmptySeq
  <2>2. <<>> \in Seq(Byte) /\ Len(<<>>) = 0
    OBVIOUS
  <2> QED
    BY <2>1, <2>2, <2>3
<1>4. CASE n # 0
  <2> DEFINE Body(f) == [i \in 1..n |-> IF i = 1 THEN parts[i] ELSE f[i - 1] \o parts[i]]
             flatten == CHOOSE f : f = Body(f)
             step == [k \in Nat |-> [s \in Seq(Byte) |-> IF k < n THEN s \o parts[k + 1] ELSE s]]
  <2>1. step \in Steps(Seq(Byte)) /\ <<>> \in Seq(Byte)
    <3>1. ASSUME NEW k \in Nat, NEW s \in Seq(Byte), k < n PROVE s \o parts[k + 1] \in Seq(Byte)
      <4>1. parts[k + 1] \in Seq(Byte)
        BY <1>2, <3>1
      <4> QED
        BY <4>1, ConcatProperties
    <3> QED
      BY <3>1 DEF Steps
  <2>2. PICK f : IteratesTo(n, f, Seq(Byte), <<>>, step)
    <3> HIDE DEF step
    <3> QED
      BY <2>1, FiniteRecursion
  <2>3. f \in [0..n -> Seq(Byte)] /\ f[0] = <<>>
    BY <2>2 DEF IteratesTo
  <2>4. ASSUME NEW k \in Nat, k < n PROVE f[k + 1] = f[k] \o parts[k + 1]
    <3>1. f[k] \in Seq(Byte)
      BY <2>3, <2>4
    <3>2. f[k + 1] = step[k][f[k]]
      <4> HIDE DEF step
      <4> QED
        BY <2>2, <2>4 DEF IteratesTo
    <3>3. PICK s \in Seq(Byte) : s = f[k]
      BY <3>1
    <3>4. step[k][s] = s \o parts[k + 1]
      BY <2>4
    <3> QED
      BY <3>2, <3>3, <3>4
  <2> HIDE DEF step
  <2>5. f[1] = parts[1]
    <3>1. parts[1] \in Seq(Byte)
      BY <1>2, <1>4
    <3>2. <<>> \o parts[1] = parts[1]
      BY <3>1, ConcatEmptySeq
    <3>3. 0 \in Nat /\ 0 < n /\ 0 + 1 = 1
      BY <1>4
    <3>4. f[0 + 1] = f[0] \o parts[0 + 1]
      BY <2>4, <3>3
    <3> QED
      BY <2>3, <3>2, <3>3, <3>4
  <2> DEFINE g == [i \in 1..n |-> f[i]]
  <2>6. ASSUME NEW i \in 1..n PROVE g[i] = IF i = 1 THEN parts[i] ELSE g[i - 1] \o parts[i]
    <3>1. CASE i = 1
      BY <2>5, <3>1
    <3>2. CASE i # 1
      <4>1. i - 1 \in Nat /\ i - 1 < n /\ (i - 1) + 1 = i /\ i - 1 \in 1..n
        BY <3>2
      <4>2. f[i] = f[i - 1] \o parts[i]
        BY <2>4, <4>1
      <4> QED
        BY <3>2, <4>1, <4>2
    <3> QED
      BY <3>1, <3>2
  <2>7. g = Body(g)
    <3>1. g = [i \in 1..n |-> g[i]]
      OBVIOUS
    <3> HIDE DEF g
    <3> QED
      BY <2>6, <3>1
  <2>8. flatten = Body(flatten)
    <3> HIDE DEF g
    <3> QED
      BY <2>7
  <2>9. FlattenSeq(parts) = flatten[n]
    BY <1>1, <1>4 DEF FlattenSeq
  <2> HIDE DEF flatten, g
  <2>10. flatten[1] = parts[1] /\ \A i \in 1..n : i # 1 => flatten[i] = flatten[i - 1] \o parts[i]
    <3>1. \A i \in 1..n : flatten[i] = IF i = 1 THEN parts[i] ELSE flatten[i - 1] \o parts[i]
      BY <2>8
    <3>2. 1 \in 1..n
      BY <1>4
    <3> QED
      BY <3>1, <3>2
  <2> DEFINE Good(s, k) == /\ s \in Seq(Byte) /\ Len(s) = 38 * k
                           /\ \A i \in 1..k : Holds(s, 38 * (i - 1), parts[i])
             T == {k \in Nat : k < n => Good(flatten[k + 1], k + 1)}
  <2>11. 0 \in T
    <3>1. parts[1] \in Seq(Byte) /\ Len(parts[1]) = 38
      BY <1>2, <1>4
    <3>2. Holds(parts[1], 0, parts[1])
      BY <3>1, HoldsItself
    <3>3. Good(parts[1], 1)
      <4>1. \A i \in 1..1 : i = 1 /\ 38 * (i - 1) = 0
        OBVIOUS
      <4> QED
        BY <3>1, <3>2, <4>1
    <3> QED
      BY <2>10, <3>3
  <2>12. ASSUME NEW k \in Nat, k \in T PROVE k + 1 \in T
    <3> SUFFICES ASSUME k + 1 < n PROVE Good(flatten[(k + 1) + 1], (k + 1) + 1)
      OBVIOUS
    <3>1. PICK j \in 1..n : j = (k + 1) + 1
      OBVIOUS
    <3>2. j - 1 = k + 1 /\ j # 1 /\ k < n
      BY <3>1
    <3>3. PICK s \in Seq(Byte) : s = flatten[j - 1] /\ Good(s, j - 1)
      BY <2>12, <3>1, <3>2
    <3>4. PICK t \in Seq(Byte) : t = parts[j] /\ Len(t) = 38
      BY <1>2
    <3>5. /\ s \o t \in Seq(Byte) /\ Len(s \o t) = Len(s) + Len(t)
          /\ Holds(s \o t, Len(s), t)
          /\ \A o, p : Holds(s, o, p) => Holds(s \o t, o, p)
      BY Appended DEF Joined
    <3>6. Len(s) = 38 * (j - 1) /\ Len(s) + Len(t) = 38 * j
      BY <3>3, <3>4
    <3>7. ASSUME NEW i \in 1..j PROVE Holds(s \o t, 38 * (i - 1), parts[i])
      <4>1. CASE i = j
        BY <3>4, <3>5, <3>6, <4>1
      <4>2. CASE i # j
        <5>1. i \in 1..(j - 1)
          BY <4>2
        <5>2. Holds(s, 38 * (i - 1), parts[i])
          BY <3>3, <5>1
        <5> QED
          BY <3>5, <5>2
      <4> QED
        BY <4>1, <4>2
    <3>8. flatten[j] = s \o t
      BY <2>10, <3>2, <3>3, <3>4
    <3>9. Good(flatten[j], j)
      BY <3>5, <3>6, <3>7, <3>8
    <3> QED
      BY <3>1, <3>9
  <2> HIDE DEF T, Good
  <2>13. Nat \subseteq T
    BY <2>11, <2>12, Induction
  <2>14. Good(flatten[n], n)
    <3>1. n - 1 \in T /\ n - 1 < n /\ (n - 1) + 1 = n
      BY <1>4, <2>13
    <3> QED
      BY <3>1 DEF T
  <2> QED
    BY <1>1, <2>9, <2>14 DEF Good
<1> QED
  BY <1>3, <1>4

(* What can be sent: the numbers fit their fields.                         *)
WireCollection(c) ==
  /\ c.versionID \in Word16 /\ c.payloadType \in Byte
  /\ c.nodes \in Seq(WireNode) /\ Len(c.nodes) \in Word16
  /\ \A i \in 1..Len(c.nodes) : c.nodes[i].lat \in Double /\ c.nodes[i].lon \in Double

(* A packed collection has its fields and every node at the offset where   *)
(* NodeCollection_unpack looks for them.                                   *)
LEMMA CollectionPacked ==
  ASSUME NEW c, WireCollection(c)
  PROVE  LET packed == PackCollection(c)
         IN  /\ packed \in Seq(Byte) /\ Len(packed) = 5 + 38 * Len(c.nodes)
             /\ Holds(packed, 0, Bytes(c.versionID, 2))
             /\ Holds(packed, 2, Bytes(c.payloadType, 1))
             /\ Holds(packed, 3, Bytes(Len(c.nodes), 2))
             /\ \A i \in 1..Len(c.nodes) : Holds(packed, 5 + 38 * (i - 1), PackNode(c.nodes[i]))
<1>1. c.versionID \in Nat /\ c.payloadType \in Nat /\ Len(c.nodes) \in Nat
  BY Words, Widths DEF WireCollection, Byte
<1>2. PICK a \in Seq(Byte), b \in Seq(Byte), d \in Seq(Byte) :
        /\ a = Bytes(c.versionID, 2) /\ b = Bytes(c.payloadType, 1) /\ d = Bytes(Len(c.nodes), 2)
        /\ Len(a) = 2 /\ Len(b) = 1 /\ Len(d) = 2
  <2>1. /\ Bytes(c.versionID, 2) \in Seq(Byte) /\ Len(Bytes(c.versionID, 2)) = 2
        /\ Bytes(c.payloadType, 1) \in Seq(Byte) /\ Len(Bytes(c.payloadType, 1)) = 1
    BY <1>1, BytesType
  <2>2. PICK m \in Nat : m = Len(c.nodes)
    BY <1>1
  <2>3. Bytes(m, 2) \in Seq(Byte) /\ Len(Bytes(m, 2)) = 2
    BY BytesType
  <2> QED
    BY <2>1, <2>2, <2>3
<1>3. PICK n \in Nat : n = Len(c.nodes) /\ DOMAIN c.nodes = 1..n
  BY <1>1 DEF WireCollection
<1>4. PICK parts : parts = [i \in 1..n |-> PackNode(c.nodes[i])]
  OBVIOUS
<1>5. \A i \in 1..n : PackNode(c.nodes[i]) \in Seq(Byte) /\ Len(PackNode(c.nodes[i])) = 38
  <2>1. \A i \in 1..n : c.nodes[i] \in WireNode
    BY <1>3 DEF WireCollection
  <2> QED
    BY <2>1, NodePacked
<1>6. parts \in Seq(Seq(Byte)) /\ Len(parts) = n /\ \A i \in 1..Len(parts) : Len(parts[i]) = 38
  BY <1>4, <1>5
<1>7. PICK f \in Seq(Byte) :
        /\ f = FlattenSeq(parts) /\ Len(f) = 38 * n
        /\ \A i \in 1..n : Holds(f, 38 * (i - 1), parts[i])
  BY <1>6, Flattened
<1>8. PackCollection(c) = a \o b \o d \o f
  BY <1>2, <1>3, <1>4, <1>7 DEF PackCollection, Pack8, Pack16
<1>9. PICK s \in Seq(Byte) : Joined(s, a, b)
  BY Appended DEF Joined
<1>10. PICK t \in Seq(Byte) : Joined(t, s, d)
  BY Appended DEF Joined
<1>11. PICK u \in Seq(Byte) : Joined(u, t, f)
  BY Appended DEF Joined
<1>12. PackCollection(c) = u
  BY <1>8, <1>9, <1>10, <1>11 DEF Joined
<1>13. Len(s) = 3 /\ Len(t) = 5 /\ Len(u) = 5 + 38 * n
  <2>1. Len(s) = Len(a) + Len(b) /\ Len(t) = Len(s) + Len(d) /\ Len(u) = Len(t) + Len(f)
    BY <1>9, <1>10, <1>11 DEF Joined
  <2> QED
    BY <1>2, <1>7, <2>1
<1>14. Holds(a, 0, a) /\ Holds(s, 2, b) /\ Holds(t, 3, d) /\ Holds(u, 5, f)
  BY <1>2, <1>9, <1>10, <1>11, <1>13, HoldsItself DEF Joined
<1>15. Holds(u, 0, a) /\ Holds(u, 2, b) /\ Holds(u, 3, d)
  BY <1>9, <1>10, <1>11, <1>14 DEF Joined
<1>16. ASSUME NEW i \in 1..n PROVE Holds(u, 5 + 38 * (i - 1), PackNode(c.nodes[i]))
  <2>1. Holds(f, 38 * (i - 1), parts[i])
    BY <1>7
  <2>2. PICK j : j = 38 * (i - 1)
    OBVIOUS
  <2>3. Holds(u, 5 + j, parts[i])
    BY <1>14, <2>1, <2>2, HoldsWithin
  <2> QED
    BY <1>4, <2>2, <2>3
<1> QED
  BY <1>2, <1>3, <1>12, <1>13, <1>15, <1>16

(* A node with numbers of a full significand is unpacked as it was packed, *)
(* by the daemon and by the Python program.                                *)
LEMMA NodeUnpacked ==
  ASSUME NEW buf, NEW o, NEW n \in WireNode,
         n.lat \in Double, n.lon \in Double, Normal(n.lat), Normal(n.lon),
         Holds(buf, o, PackNode(n))
  PROVE  /\ UnpackNode(buf, o, UnpackDouble(buf, o + 4), UnpackDouble(buf, o + 12)) = n
         /\ UnpackNode(buf, o, IEEEValue(Unpack64(buf, o + 4)), IEEEValue(Unpack64(buf, o + 12))) = n
<1>1. PICK p : p = PackNode(n) /\ Holds(buf, o, p) /\ HoldsNode(p, n) /\ o \in Nat
  BY NodePacked DEF Holds
<1>2. \A j, s : Holds(p, j, s) => Holds(buf, o + j, s)
  BY <1>1, HoldsWithin
<1>3. o + 0 = o
  BY <1>1
<1>4. /\ n.nodeID \in Nat /\ n.nodeID < Pow2[ByteBits * 4]
      /\ n.coordRange \in Nat /\ n.coordRange < Pow2[ByteBits * 2]
      /\ n.ipAddr \in Nat /\ n.ipAddr < Pow2[ByteBits * 4]
      /\ n.port \in Nat /\ n.port < Pow2[ByteBits * 2]
      /\ n.radac_ip \in Nat /\ n.radac_ip < Pow2[ByteBits * 4]
      /\ n.radac_port \in Nat /\ n.radac_port < Pow2[ByteBits * 2]
      /\ n.timeStamp \in Nat /\ n.timeStamp < Pow2[ByteBits * 4]
  <2>1. /\ n.nodeID \in Word32 /\ n.coordRange \in Word16 /\ n.ipAddr \in Word32
        /\ n.port \in Word16 /\ n.radac_ip \in Word32 /\ n.radac_port \in Word16
        /\ n.timeStamp \in Word32
    BY DEF WireNode
  <2>2. /\ \A i \in Word16 : i \in Nat /\ i < Pow2[ByteBits * 2]
        /\ \A i \in Word32 : i \in Nat /\ i < Pow2[ByteBits * 4]
    <3>1. Pow2[ByteBits * 2] \in Nat /\ Pow2[ByteBits * 4] \in Nat
      BY BytePower
    <3> QED
      BY <3>1, Words
  <2> QED
    BY <2>1, <2>2
<1>5. PICK x \in Nat, y \in Nat :
        /\ x = Enc754(n.lat) /\ y = Enc754(n.lon)
        /\ x < Pow2[ByteBits * 8] /\ y < Pow2[ByteBits * 8]
        /\ Dec754(x) = n.lat /\ IEEEValue(x) = n.lat
        /\ Dec754(y) = n.lon /\ IEEEValue(y) = n.lon
  BY DoubleCodec, Words
<1>6. /\ Holds(buf, o, Bytes(n.nodeID, 4)) /\ Holds(buf, o + 4, Bytes(x, 8))
      /\ Holds(buf, o + 12, Bytes(y, 8)) /\ Holds(buf, o + 20, Bytes(n.coordRange, 2))
      /\ Holds(buf, o + 22, Bytes(n.ipAddr, 4)) /\ Holds(buf, o + 26, Bytes(n.port, 2))
      /\ Holds(buf, o + 28, Bytes(n.radac_ip, 4)) /\ Holds(buf, o + 32, Bytes(n.radac_port, 2))
      /\ Holds(buf, o + 34, Bytes(n.timeStamp, 4))
  BY <1>1, <1>2, <1>3, <1>5 DEF HoldsNode
<1>7. /\ Unpack32(buf, o) = n.nodeID /\ Unpack16(buf, o + 20) = n.coordRange
      /\ Unpack32(buf, o + 22) = n.ipAddr /\ Unpack16(buf, o + 26) = n.port
      /\ Unpack32(buf, o + 28) = n.radac_ip /\ Unpack16(buf, o + 32) = n.radac_port
      /\ Unpack32(buf, o + 34) = n.timeStamp
  BY <1>4, <1>6, HoldsInteger DEF Unpack16, Unpack32
<1>8. Unpack64(buf, o + 4) = x /\ Unpack64(buf, o + 12) = y
  BY <1>5, <1>6, HoldsInteger DEF Unpack64
<1>9. n = [ nodeID |-> n.nodeID, lat |-> n.lat, lon |-> n.lon, coordRange |-> n.coordRange,
            ipAddr |-> n.ipAddr, port |-> n.port, radac_ip |-> n.radac_ip,
            radac_port |-> n.radac_port, timeStamp |-> n.timeStamp ]
  BY DEF WireNode
<1> QED
  BY <1>5, <1>7, <1>8, <1>9 DEF UnpackNode, UnpackDouble

(* What is unpacked from any bytes has the types of a node.                *)
LEMMA UnpackedNodeType ==
  ASSUME NEW buf \in Seq(Byte), NEW o \in Nat, o + 38 <= Len(buf), NEW lat \in Int, NEW lon \in Int
  PROVE  UnpackNode(buf, o, lat, lon) \in WireNode
<1>1. ASSUME NEW q \in Nat, q + 4 <= Len(buf) PROVE Unpack32(buf, q) \in Word32
  BY <1>1, UnpackedType, Words DEF Unpack32
<1>2. ASSUME NEW q \in Nat, q + 2 <= Len(buf) PROVE Unpack16(buf, q) \in Word16
  BY <1>2, UnpackedType, Words DEF Unpack16
<1>3. /\ Len(buf) \in Nat /\ o + 4 <= Len(buf)
      /\ o + 20 \in Nat /\ (o + 20) + 2 <= Len(buf) /\ o + 22 \in Nat /\ (o + 22) + 4 <= Len(buf)
      /\ o + 26 \in Nat /\ (o + 26) + 2 <= Len(buf) /\ o + 28 \in Nat /\ (o + 28) + 4 <= Len(buf)
      /\ o + 32 \in Nat /\ (o + 32) + 2 <= Len(buf) /\ o + 34 \in Nat /\ (o + 34) + 4 <= Len(buf)
  OBVIOUS
<1>4. /\ Unpack32(buf, o) \in Word32 /\ Unpack16(buf, o + 20) \in Word16
      /\ Unpack32(buf, o + 22) \in Word32 /\ Unpack16(buf, o + 26) \in Word16
      /\ Unpack32(buf, o + 28) \in Word32 /\ Unpack16(buf, o + 32) \in Word16
      /\ Unpack32(buf, o + 34) \in Word32
  BY <1>1, <1>2, <1>3
<1> QED
  BY <1>4 DEF UnpackNode, WireNode

(* What is held in the first n bytes is held by every sequence that has    *)
(* the same.                                                               *)
LEMMA HoldsSame ==
  ASSUME NEW a, NEW b \in Seq(Byte), NEW n \in Nat, NEW o, NEW p, Holds(a, o, p),
         o + Len(p) <= n, n <= Len(b), \A k \in 1..n : b[k] = a[k]
  PROVE  Holds(b, o, p)
<1>1. /\ o \in Nat /\ a \in Seq(Byte) /\ p \in Seq(Byte) /\ \A k \in 1..Len(p) : a[o + k] = p[k]
      /\ Len(p) \in Nat /\ Len(b) \in Nat
  BY DEF Holds
<1>2. ASSUME NEW k \in 1..Len(p) PROVE b[o + k] = p[k]
  <2>1. o + k \in 1..n
    BY <1>1
  <2> QED
    BY <1>1, <2>1
<1> QED
  BY <1>1, <1>2 DEF Holds

(* A buffer after a datagram was read into it: the datagram in front,      *)
(* behind it what was there.                                               *)
LEMMA FilledType ==
  ASSUME NEW n \in Nat, NEW buffer \in [1..n -> Byte], NEW bytes \in Seq(Byte)
  PROVE  /\ Filled(buffer, bytes) \in [1..n -> Byte]
         /\ Filled(buffer, bytes) \in Seq(Byte) /\ Len(Filled(buffer, bytes)) = n
         /\ \A k \in 1..n : Filled(buffer, bytes)[k] = IF k <= Len(bytes) THEN bytes[k]
                                                       ELSE buffer[k]
<1>1. Filled(buffer, bytes) = [k \in 1..n |-> IF k <= Len(bytes) THEN bytes[k] ELSE buffer[k]]
  BY DEF Filled
<1>2. \A k \in 1..n : (IF k <= Len(bytes) THEN bytes[k] ELSE buffer[k]) \in Byte
  <2> SUFFICES ASSUME NEW k \in 1..n, k <= Len(bytes) PROVE bytes[k] \in Byte
    OBVIOUS
  <2>1. k \in 1..Len(bytes)
    OBVIOUS
  <2> QED
    BY <2>1
<1>3. Filled(buffer, bytes) \in [1..n -> Byte]
  BY <1>1, <1>2
<1>4. PICK f \in [1..n -> Byte] : f = Filled(buffer, bytes)
  BY <1>3
<1>5. f \in Seq(Byte) /\ Len(f) = n
  OBVIOUS
<1> QED
  BY <1>1, <1>4, <1>5

(* NodeCollection_unpack gives a list of nodes, whatever the buffer holds  *)
(* and however far the header makes it read beyond.                        *)
LEMMA CollectionType ==
  ASSUME NEW buf \in Seq(Byte), Len(buf) >= 5, NEW beyond \in Byte
  PROVE  UnpackCollection(buf, beyond).nodes \in Seq(WireNode)
<1>1. PICK count \in Nat : count = Unpack16(buf, 3)
  <2>1. Unpack16(buf, 3) \in 0..(Pow2[ByteBits * 2] - 1)
    BY UnpackedType DEF Unpack16
  <2> QED
    BY <2>1
<1>2. PICK rest \in Seq(Byte) : rest = [k \in 1..(38 * count) |-> beyond] /\ Len(rest) = 38 * count
  <2>1. PICK m \in Nat : m = 38 * count
    OBVIOUS
  <2>2. [k \in 1..m |-> beyond] \in Seq(Byte) /\ Len([k \in 1..m |-> beyond]) = m
    OBVIOUS
  <2> QED
    BY <2>1, <2>2
<1>3. PICK all \in Seq(Byte) : all = buf \o rest /\ Len(all) = Len(buf) + 38 * count
  <2>1. buf \o rest \in Seq(Byte) /\ Len(buf \o rest) = Len(buf) + Len(rest)
    BY ConcatProperties
  <2> QED
    BY <1>2, <2>1
<1>4. UnpackCollection(buf, beyond).nodes =
        [i \in 1..count |-> UnpackNode(all, 5 + 38 * (i - 1), UnpackDouble(all, 5 + 38 * (i - 1) + 4),
                                       UnpackDouble(all, 5 + 38 * (i - 1) + 12))]
  BY <1>1, <1>2, <1>3 DEF UnpackCollection, HeaderSize, NodeSize
<1>5. ASSUME NEW i \in 1..count
      PROVE  UnpackNode(all, 5 + 38 * (i - 1), UnpackDouble(all, 5 + 38 * (i - 1) + 4),
                        UnpackDouble(all, 5 + 38 * (i - 1) + 12)) \in WireNode
  <2>1. PICK o \in Nat : o = 5 + 38 * (i - 1) /\ o + 38 <= Len(all)
    <3>1. 5 + 38 * (i - 1) \in Nat /\ 5 + 38 * (i - 1) + 38 <= Len(buf) + 38 * count
      OBVIOUS
    <3> QED
      BY <1>3, <3>1
  <2>2. ASSUME NEW q \in Nat, q + 8 <= Len(all) PROVE UnpackDouble(all, q) \in Int
    <3>1. Unpack64(all, q) \in Nat
      BY <2>2, UnpackedType DEF Unpack64
    <3> QED
      BY <3>1, Dec754Type DEF UnpackDouble, Double
  <2>3. UnpackDouble(all, o + 4) \in Int /\ UnpackDouble(all, o + 12) \in Int
    <3>1. o + 4 \in Nat /\ (o + 4) + 8 <= Len(all) /\ o + 12 \in Nat /\ (o + 12) + 8 <= Len(all)
      BY <2>1
    <3> QED
      BY <2>2, <3>1
  <2>4. UnpackNode(all, o, UnpackDouble(all, o + 4), UnpackDouble(all, o + 12)) \in WireNode
    BY <2>1, <2>3, UnpackedNodeType
  <2> QED
    BY <2>1, <2>4
<1> QED
  BY <1>4, <1>5

(* The nodes that a buffer holds in full are those that were packed.       *)
LEMMA CollectionUnpacked ==
  ASSUME NEW buf \in Seq(Byte), NEW beyond \in Byte, NEW c, WireCollection(c),
         NEW n \in Nat, n <= Len(buf), n <= Len(PackCollection(c)),
         \A k \in 1..n : buf[k] = PackCollection(c)[k],
         NEW i \in Nat \ {0}, 5 + 38 * i <= n,
         Normal(c.nodes[i].lat), Normal(c.nodes[i].lon)
  PROVE  UnpackCollection(buf, beyond).nodes[i] = c.nodes[i]
<1>1. PICK packed \in Seq(Byte) :
        /\ packed = PackCollection(c) /\ Len(packed) = 5 + 38 * Len(c.nodes)
        /\ Holds(packed, 3, Bytes(Len(c.nodes), 2))
        /\ \A j \in 1..Len(c.nodes) : Holds(packed, 5 + 38 * (j - 1), PackNode(c.nodes[j]))
  BY CollectionPacked
<1>2. PICK count \in Nat : count = Len(c.nodes) /\ count < Pow2[ByteBits * 2]
  <2>1. Len(c.nodes) \in Word16 /\ Pow2[ByteBits * 2] \in Nat
    BY BytePower DEF WireCollection
  <2> QED
    BY <2>1, Words
<1>3. i \in 1..count /\ c.nodes[i] \in WireNode
  <2>1. i \in 1..count
    BY <1>1, <1>2
  <2> QED
    BY <1>2, <2>1 DEF WireCollection
<1>4. Unpack16(buf, 3) = count
  <2>1. PICK b \in Seq(Byte) : b = Bytes(count, 2) /\ Len(b) = 2
    BY BytesType
  <2>2. Holds(packed, 3, b)
    <3>1. Holds(packed, 3, Bytes(Len(c.nodes), 2)) /\ count = Len(c.nodes)
      BY <1>1, <1>2
    <3> QED
      BY <2>1, <3>1, Zenon
  <2>3. 3 + Len(b) <= n
    <3>1. 3 + 2 <= n
      OBVIOUS
    <3> QED
      BY <2>1, <3>1, Zenon
  <2>4. \A k \in 1..n : buf[k] = packed[k]
    BY <1>1
  <2>5. Holds(buf, 3, b)
    <3>1. n \in Nat /\ n <= Len(buf)
      OBVIOUS
    <3> QED
      BY <2>2, <2>3, <2>4, <3>1, HoldsSame, SMTT(30)
  <2> QED
    BY <1>2, <2>1, <2>5, HoldsInteger DEF Unpack16
<1>5. PICK o \in Nat : o = 5 + 38 * (i - 1) /\ o + 38 <= n
  <2>1. 5 + 38 * (i - 1) \in Nat /\ 5 + 38 * (i - 1) + 38 <= n
    OBVIOUS
  <2> QED
    BY <2>1
<1>6. PICK node \in Seq(Byte) : node = PackNode(c.nodes[i]) /\ Len(node) = 38
  BY <1>3, NodePacked
<1>7. Holds(buf, o, node)
  <2>1. Holds(packed, o, node)
    BY <1>1, <1>2, <1>3, <1>5, <1>6
  <2>2. o + Len(node) <= n /\ \A k \in 1..n : buf[k] = packed[k]
    BY <1>1, <1>5, <1>6
  <2> QED
    BY <2>1, <2>2, HoldsSame
<1>8. PICK rest \in Seq(Byte) : rest = [k \in 1..(38 * count) |-> beyond]
  <2>1. [k \in 1..(38 * count) |-> beyond] \in Seq(Byte)
    OBVIOUS
  <2> QED
    BY <2>1
<1>9. PICK all \in Seq(Byte) : all = buf \o rest /\ Holds(all, o, node)
  <2>1. Joined(buf \o rest, buf, rest)
    BY Appended
  <2> QED
    BY <1>7, <2>1 DEF Joined
<1>10. UnpackCollection(buf, beyond).nodes =
         [j \in 1..count |-> UnpackNode(all, 5 + 38 * (j - 1), UnpackDouble(all, 5 + 38 * (j - 1) + 4),
                                        UnpackDouble(all, 5 + 38 * (j - 1) + 12))]
  BY <1>4, <1>8, <1>9 DEF UnpackCollection, HeaderSize, NodeSize
<1>11. c.nodes[i].lat \in Double /\ c.nodes[i].lon \in Double
  BY <1>2, <1>3 DEF WireCollection
<1>12. UnpackNode(all, o, UnpackDouble(all, o + 4), UnpackDouble(all, o + 12)) = c.nodes[i]
  <2>1. PICK nd \in WireNode : nd = c.nodes[i] /\ Holds(all, o, PackNode(nd))
    BY <1>3, <1>6, <1>9
  <2>2. nd.lat \in Double /\ nd.lon \in Double /\ Normal(nd.lat) /\ Normal(nd.lon)
    BY <1>11, <2>1
  <2> QED
    BY <2>1, <2>2, NodeUnpacked
<1> QED
  BY <1>3, <1>5, <1>10, <1>12

(* The same for the user's program.                                        *)
ReadNodes(b) ==
  [i \in 1..Unpack16(b, 3) |->
     UnpackNode(b, 5 + 38 * (i - 1), IEEEValue(Unpack64(b, 5 + 38 * (i - 1) + 4)),
                IEEEValue(Unpack64(b, 5 + 38 * (i - 1) + 12)))]

(* What the user's program reads is a list of nodes.                       *)
LEMMA ReadNodesType ==
  ASSUME NEW b \in Seq(Byte), Len(b) >= 5, Len(b) >= 5 + 38 * Unpack16(b, 3)
  PROVE  ReadNodes(b) \in Seq(WireNode)
<1>1. PICK count \in Nat : count = Unpack16(b, 3)
  <2>1. Unpack16(b, 3) \in 0..(Pow2[ByteBits * 2] - 1)
    BY UnpackedType DEF Unpack16
  <2> QED
    BY <2>1
<1>2. ASSUME NEW i \in 1..count
      PROVE  UnpackNode(b, 5 + 38 * (i - 1), IEEEValue(Unpack64(b, 5 + 38 * (i - 1) + 4)),
                        IEEEValue(Unpack64(b, 5 + 38 * (i - 1) + 12))) \in WireNode
  <2>1. PICK o \in Nat : o = 5 + 38 * (i - 1) /\ o + 38 <= Len(b)
    <3>1. 5 + 38 * (i - 1) \in Nat /\ 5 + 38 * (i - 1) + 38 <= 5 + 38 * count
      OBVIOUS
    <3> QED
      BY <1>1, <3>1
  <2>2. ASSUME NEW q \in Nat, q + 8 <= Len(b) PROVE IEEEValue(Unpack64(b, q)) \in Int
    <3>1. Unpack64(b, q) \in Nat
      BY <2>2, UnpackedType DEF Unpack64
    <3> QED
      BY <3>1, IEEEValueType
  <2>3. IEEEValue(Unpack64(b, o + 4)) \in Int /\ IEEEValue(Unpack64(b, o + 12)) \in Int
    <3>1. o + 4 \in Nat /\ (o + 4) + 8 <= Len(b) /\ o + 12 \in Nat /\ (o + 12) + 8 <= Len(b)
      BY <2>1
    <3> QED
      BY <2>2, <3>1
  <2>4. UnpackNode(b, o, IEEEValue(Unpack64(b, o + 4)), IEEEValue(Unpack64(b, o + 12)))
          \in WireNode
    BY <2>1, <2>3, UnpackedNodeType
  <2> QED
    BY <2>1, <2>4
<1> QED
  BY <1>1, <1>2 DEF ReadNodes

(* Each of the two numbers of a position is read whatever the other is.    *)
LEMMA PositionRead ==
  ASSUME NEW buf, NEW o, NEW n \in WireNode, n.lat \in Double, n.lon \in Double,
         Holds(buf, o, PackNode(n))
  PROVE  /\ Normal(n.lat) => IEEEValue(Unpack64(buf, o + 4)) = n.lat
         /\ Normal(n.lon) => IEEEValue(Unpack64(buf, o + 12)) = n.lon
<1>1. /\ Holds(buf, o + 4, Bytes(Enc754(n.lat), 8))
      /\ Holds(buf, o + 12, Bytes(Enc754(n.lon), 8))
  <2>1. PICK p : p = PackNode(n) /\ Holds(buf, o, p) /\ HoldsNode(p, n)
    BY NodePacked
  <2> QED
    BY <2>1, HoldsWithin DEF HoldsNode
<1>2. ASSUME NEW x \in Double, Normal(x), NEW q, Holds(buf, q, Bytes(Enc754(x), 8))
      PROVE  IEEEValue(Unpack64(buf, q)) = x
  <2>1. PICK i \in Nat : i = Enc754(x) /\ i < Pow2[ByteBits * 8] /\ IEEEValue(i) = x
    BY <1>2, DoubleCodec, Words
  <2>2. Unpack64(buf, q) = i
    BY <1>2, <2>1, HoldsInteger DEF Unpack64
  <2> QED
    BY <2>1, <2>2
<1> QED
  BY <1>1, <1>2

(* The user's program reads the nodes of a collection as they were packed. *)
LEMMA NodesRead ==
  ASSUME NEW c, WireCollection(c)
  PROVE  LET b == PackCollection(c)
         IN  /\ Unpack16(b, 3) = Len(c.nodes)
             /\ Len(ReadNodes(b)) = Len(c.nodes)
             /\ \A i \in 1..Len(c.nodes) :
                  /\ Normal(c.nodes[i].lat) => ReadNodes(b)[i].lat = c.nodes[i].lat
                  /\ Normal(c.nodes[i].lon) => ReadNodes(b)[i].lon = c.nodes[i].lon
                  /\ Normal(c.nodes[i].lat) /\ Normal(c.nodes[i].lon) =>
                       ReadNodes(b)[i] = c.nodes[i]
<1>1. PICK b \in Seq(Byte) :
        /\ b = PackCollection(c)
        /\ Holds(b, 3, Bytes(Len(c.nodes), 2))
        /\ \A j \in 1..Len(c.nodes) : Holds(b, 5 + 38 * (j - 1), PackNode(c.nodes[j]))
  BY CollectionPacked
<1>2. PICK count \in Nat : count = Len(c.nodes) /\ count < Pow2[ByteBits * 2]
  <2>1. Len(c.nodes) \in Word16 /\ Pow2[ByteBits * 2] \in Nat
    BY BytePower DEF WireCollection
  <2> QED
    BY <2>1, Words
<1>3. Unpack16(b, 3) = count
  <2>1. Holds(b, 3, Bytes(count, 2))
    <3>1. Holds(b, 3, Bytes(Len(c.nodes), 2)) /\ count = Len(c.nodes)
      BY <1>1, <1>2
    <3> QED
      BY <3>1, Zenon
  <2> QED
    BY <1>2, <2>1, HoldsInteger DEF Unpack16
<1>4. ReadNodes(b) = [i \in 1..count |->
        UnpackNode(b, 5 + 38 * (i - 1), IEEEValue(Unpack64(b, 5 + 38 * (i - 1) + 4)),
                   IEEEValue(Unpack64(b, 5 + 38 * (i - 1) + 12)))]
  BY <1>3 DEF ReadNodes
<1>5. Len(ReadNodes(b)) = count
  BY <1>4
<1>6. ASSUME NEW i \in 1..count
      PROVE  c.nodes[i] \in WireNode /\ Holds(b, 5 + 38 * (i - 1), PackNode(c.nodes[i]))
  <2>1. i \in 1..Len(c.nodes)
    BY <1>2
  <2>2. c.nodes[i] \in WireNode
    BY <2>1 DEF WireCollection
  <2>3. Holds(b, 5 + 38 * (i - 1), PackNode(c.nodes[i]))
    BY <1>1, <2>1
  <2> QED
    BY <2>2, <2>3
<1>7. ASSUME NEW i \in 1..count, Normal(c.nodes[i].lat), Normal(c.nodes[i].lon)
      PROVE  ReadNodes(b)[i] = c.nodes[i]
  <2>1. PICK o : o = 5 + 38 * (i - 1)
    OBVIOUS
  <2>2. PICK nd \in WireNode : nd = c.nodes[i] /\ Holds(b, o, PackNode(nd))
    BY <1>6, <2>1
  <2>3. nd.lat \in Double /\ nd.lon \in Double /\ Normal(nd.lat) /\ Normal(nd.lon)
    BY <1>2, <1>7, <2>2 DEF WireCollection
  <2>4. UnpackNode(b, o, IEEEValue(Unpack64(b, o + 4)), IEEEValue(Unpack64(b, o + 12))) = nd
    BY <2>2, <2>3, NodeUnpacked
  <2> QED
    BY <1>4, <2>1, <2>2, <2>4
<1>8. ASSUME NEW i \in 1..count
      PROVE  /\ Normal(c.nodes[i].lat) => ReadNodes(b)[i].lat = c.nodes[i].lat
             /\ Normal(c.nodes[i].lon) => ReadNodes(b)[i].lon = c.nodes[i].lon
  <2>1. PICK o : o = 5 + 38 * (i - 1)
    OBVIOUS
  <2>2. PICK nd \in WireNode : nd = c.nodes[i] /\ Holds(b, o, PackNode(nd))
    BY <1>6, <2>1
  <2>3. nd.lat \in Double /\ nd.lon \in Double
    BY <1>2, <2>2 DEF WireCollection
  <2>4. /\ Normal(nd.lat) => IEEEValue(Unpack64(b, o + 4)) = nd.lat
        /\ Normal(nd.lon) => IEEEValue(Unpack64(b, o + 12)) = nd.lon
    BY <2>2, <2>3, PositionRead
  <2>5. ReadNodes(b)[i] =
          UnpackNode(b, o, IEEEValue(Unpack64(b, o + 4)), IEEEValue(Unpack64(b, o + 12)))
    BY <1>4, <2>1
  <2>6. /\ ReadNodes(b)[i].lat = IEEEValue(Unpack64(b, o + 4))
        /\ ReadNodes(b)[i].lon = IEEEValue(Unpack64(b, o + 12))
    BY <2>5 DEF UnpackNode
  <2> QED
    BY <2>2, <2>4, <2>6
<1> QED
  BY <1>1, <1>2, <1>3, <1>5, <1>7, <1>8

-----------------------------------------------------------------------------
(* Requests                                                                *)

(* What the assumptions on the sizes give.                                 *)
LEMMA Sizes ==
  /\ Byte = 0..(Base - 1) /\ Base \in Nat /\ Base > 4
  /\ SizeRange \in Nat \ {0}
  /\ PeerBuffer \in Nat /\ PeerBuffer >= 5 /\ LocalBuffer \in Nat /\ LocalBuffer >= 17
  /\ UserBuffer \in Nat /\ UserBuffer >= 5
  /\ AddrMaxLength \in Nat /\ LocalBuffer >= AddrMaxLength
  /\ \A p \in Paths : /\ p \in Seq(Byte) /\ Len(p) < AddrMaxLength
                      /\ \A k \in 1..Len(p) : p[k] # 0
<1>1. /\ Byte = 0..(Base - 1) /\ Base \in Nat /\ Base > 4
      /\ SizeRange \in Nat \ {0}
      /\ PeerBuffer \in Nat /\ PeerBuffer >= 5 /\ LocalBuffer \in Nat /\ LocalBuffer >= 17
      /\ UserBuffer \in Nat /\ UserBuffer >= 5
      /\ AddrMaxLength \in Nat /\ LocalBuffer >= AddrMaxLength
  BY SizesAssumption, Widths DEF Byte, HeaderSize, PositionRequestSize
<1>2. ASSUME NEW p \in Paths
      PROVE  /\ p \in Seq(Byte) /\ Len(p) < AddrMaxLength
             /\ \A k \in 1..Len(p) : p[k] # 0
  <2>1. p \in Seq(1..(Base - 1)) /\ Len(p) < AddrMaxLength
    BY PathsAssumption
  <2>2. 1..(Base - 1) \subseteq Byte
    BY <1>1
  <2>3. p \in Seq(Byte)
    BY <2>1, <2>2, SeqMonotonic
  <2>4. \A k \in 1..Len(p) : p[k] \in 1..(Base - 1)
    BY <2>1, ElementOfSeq
  <2>5. \A k \in 1..Len(p) : p[k] # 0
    BY <1>1, <2>4
  <2> QED
    BY <2>1, <2>3, <2>5
<1> QED
  BY <1>1, <1>2

(* The three forms of a request.                                           *)
LEMMA RequestCases ==
  ASSUME NEW r \in Requests
  PROVE  \/ r.type = 0 /\ r.lat \in Double /\ r.lon \in Double
         \/ r.type = 1 /\ r.coord_range \in Word16
         \/ r.type \in {3, 4} /\ r.sock_path \in Paths
<1>1. Ranges \subseteq Word16 /\ \A p \in Positions : p.lat \in Double /\ p.lon \in Double
  BY SizesAssumption
<1>2. \/ \E p \in Positions : r = [type |-> 0, lat |-> p.lat, lon |-> p.lon]
      \/ r \in [type : {1}, coord_range : Ranges]
      \/ r \in [type : {3, 4}, sock_path : Paths]
  BY DEF Requests, SET_POSITION, SET_COORDINATION_RANGE, SUB_CANDNODES, UNSUB_CANDNODES
<1>3. CASE \E p \in Positions : r = [type |-> 0, lat |-> p.lat, lon |-> p.lon]
  BY <1>1, <1>3
<1>4. CASE r \in [type : {1}, coord_range : Ranges]
  BY <1>1, <1>4
<1>5. CASE r \in [type : {3, 4}, sock_path : Paths]
  BY <1>5
<1> QED
  BY <1>2, <1>3, <1>4, <1>5

(* A request fits the buffer, and its fields are where they are expected.  *)
LEMMA RequestPacked ==
  ASSUME NEW r \in Requests
  PROVE  LET packed == PackRequest(r)
         IN  /\ packed \in Seq(Byte) /\ Len(packed) <= LocalBuffer
             /\ Holds(packed, 0, Bytes(r.type, 1))
             /\ r.type = 0 => /\ Holds(packed, 1, Bytes(IEEEBits(r.lat), 8))
                              /\ Holds(packed, 9, Bytes(IEEEBits(r.lon), 8))
             /\ r.type = 1 => Holds(packed, 1, Bytes(r.coord_range, 2))
             /\ r.type \in {3, 4} => /\ Holds(packed, 1, r.sock_path)
                                     /\ Len(packed) = 1 + Len(r.sock_path)
<1>1. r.type \in Nat /\ r.type \in {0, 1, 3, 4}
  BY RequestCases
<1>2. PICK a \in Seq(Byte) : a = Bytes(r.type, 1) /\ Len(a) = 1 /\ Holds(a, 0, a)
  BY <1>1, BytesType, HoldsItself
<1>3. CASE r.type = 0
  <2>1. r.lat \in Double /\ r.lon \in Double
    BY <1>3, RequestCases
  <2>2. PICK b \in Seq(Byte), c \in Seq(Byte) :
          /\ b = Bytes(IEEEBits(r.lat), 8) /\ c = Bytes(IEEEBits(r.lon), 8)
          /\ Len(b) = 8 /\ Len(c) = 8
    BY <2>1, IEEEBitsType, BytesType
  <2>3. PackRequest(r) = a \o (b \o c)
    <3>1. PackRequest(r) = Pack8(r.type) \o (Pack64(IEEEBits(r.lat)) \o Pack64(IEEEBits(r.lon)))
      <4>1. r.type = SET_POSITION /\ r.type # SET_COORDINATION_RANGE
        BY <1>3 DEF SET_POSITION, SET_COORDINATION_RANGE
      <4> QED
        BY <4>1, Zenon DEF PackRequest
    <3> QED
      BY <1>2, <2>2, <3>1, Zenon DEF Pack8, Pack64
  <2>4. PICK s \in Seq(Byte) : Joined(s, a, b)
    <3>1. Joined(a \o b, a, b)
      BY Appended
    <3> QED
      BY <3>1 DEF Joined
  <2>5. PICK t \in Seq(Byte) : Joined(t, s, c)
    <3>1. Joined(s \o c, s, c)
      BY Appended
    <3> QED
      BY <3>1 DEF Joined
  <2>6. PackRequest(r) = t
    <3>1. (a \o b) \o c = a \o (b \o c)
      BY ConcatAssociative, SMTT(30)
    <3> QED
      BY <2>3, <2>4, <2>5, <3>1 DEF Joined
  <2>7. Len(s) = 9 /\ Len(t) = 17
    <3>1. Len(s) = Len(a) + Len(b) /\ Len(t) = Len(s) + Len(c)
      BY <2>4, <2>5 DEF Joined
    <3> QED
      BY <1>2, <2>2, <3>1
  <2>8. Holds(s, 0, a) /\ Holds(s, 1, b) /\ Holds(t, 9, c)
    BY <1>2, <2>4, <2>5, <2>7 DEF Joined
  <2>9. Holds(t, 0, a) /\ Holds(t, 1, b)
    BY <2>5, <2>8 DEF Joined
  <2>10. Len(t) <= LocalBuffer
    BY <2>7, Sizes
  <2> QED
    BY <1>2, <1>3, <2>2, <2>6, <2>8, <2>9, <2>10
<1>4. CASE r.type = 1
  <2>1. r.coord_range \in Nat
    BY <1>4, RequestCases, Words
  <2>2. PICK b \in Seq(Byte) : b = Bytes(r.coord_range, 2) /\ Len(b) = 2
    BY <2>1, BytesType
  <2>3. PackRequest(r) = a \o b
    <3>1. PackRequest(r) = Pack8(r.type) \o Pack16(r.coord_range)
      <4>1. r.type # SET_POSITION /\ r.type = SET_COORDINATION_RANGE
        BY <1>4 DEF SET_POSITION, SET_COORDINATION_RANGE
      <4> QED
        BY <4>1, Zenon DEF PackRequest
    <3> QED
      BY <1>2, <2>2, <3>1, Zenon DEF Pack8, Pack16
  <2>4. PICK s \in Seq(Byte) : Joined(s, a, b)
    BY Appended DEF Joined
  <2>5. Len(s) = 3
    <3>1. Len(s) = Len(a) + Len(b)
      BY <2>4 DEF Joined
    <3> QED
      BY <1>2, <2>2, <3>1
  <2>6. PackRequest(r) = s /\ Holds(s, 0, a) /\ Holds(s, 1, b)
    BY <1>2, <2>3, <2>4 DEF Joined
  <2>7. Len(s) <= LocalBuffer
    BY <2>5, Sizes
  <2> QED
    BY <1>2, <1>4, <2>2, <2>6, <2>7
<1>5. CASE r.type \in {3, 4}
  <2>1. PICK p \in Seq(Byte) : p = r.sock_path /\ Len(p) < AddrMaxLength
    BY <1>5, RequestCases, Sizes
  <2>2. PackRequest(r) = a \o p
    <3>1. PackRequest(r) = Pack8(r.type) \o r.sock_path
      <4>1. r.type # SET_POSITION /\ r.type # SET_COORDINATION_RANGE
        BY <1>5 DEF SET_POSITION, SET_COORDINATION_RANGE
      <4> QED
        BY <4>1, Zenon DEF PackRequest
    <3> QED
      BY <1>2, <2>1, <3>1, Zenon DEF Pack8
  <2>3. PICK s \in Seq(Byte) : Joined(s, a, p)
    BY Appended DEF Joined
  <2>4. Len(s) = 1 + Len(p)
    BY <1>2, <2>3 DEF Joined
  <2>5. PackRequest(r) = s /\ Holds(s, 0, a) /\ Holds(s, 1, p)
    BY <1>2, <2>2, <2>3 DEF Joined
  <2>6. Len(s) <= LocalBuffer
    <3>1. Len(p) \in Nat
      OBVIOUS
    <3> QED
      BY <2>1, <2>4, <3>1, Sizes
  <2> QED
    BY <1>2, <1>5, <2>1, <2>4, <2>5, <2>6
<1> QED
  BY <1>1, <1>3, <1>4, <1>5

(* The end of a string is the first zero after it or the end of the buffer. *)
LEMMA StringFound ==
  ASSUME NEW buf \in Seq(Byte), NEW p \in Seq(Byte), Holds(buf, 1, p), Len(p) < AddrMaxLength,
         \A k \in 1..Len(p) : p[k] # 0,
         \A k \in 1..Len(buf) : k > 1 + Len(p) => buf[k] = 0
  PROVE  StringAt(buf, 1) = p
<1>1. PICK n \in Nat, m \in Nat :
        n = Len(p) /\ m = Len(buf) /\ 1 + n <= m /\ \A k \in 1..n : buf[1 + k] = p[k]
  BY DEF Holds
<1> DEFINE ends == {k \in 0..(m - 1) : k = m - 1 \/ buf[1 + k + 1] = 0}
           len == CHOOSE k \in ends : \A j \in ends : k <= j
<1>2. n \in ends
  <2>1. n \in 0..(m - 1)
    BY <1>1
  <2>2. CASE n # m - 1
    <3>1. 1 + n + 1 \in 1..Len(buf) /\ 1 + n + 1 > 1 + Len(p)
      BY <1>1, <2>2
    <3>2. buf[1 + n + 1] = 0
      BY <3>1
    <3> QED
      BY <2>1, <3>2
  <2>3. CASE n = m - 1
    BY <2>1, <2>3
  <2> QED
    BY <2>2, <2>3
<1>3. \A j \in ends : n <= j
  <2> SUFFICES ASSUME NEW j \in 0..(m - 1), j < n, j = m - 1 \/ buf[1 + j + 1] = 0 PROVE FALSE
    OBVIOUS
  <2>1. j # m - 1 /\ j + 1 \in 1..n /\ 1 + (j + 1) = 1 + j + 1
    BY <1>1
  <2>2. buf[1 + (j + 1)] = p[j + 1]
    BY <1>1, <2>1
  <2>3. p[j + 1] # 0
    BY <1>1, <2>1
  <2> QED
    BY <2>1, <2>2, <2>3
<1>4. len = n
  <2>1. len \in ends /\ \A j \in ends : len <= j
    BY <1>2, <1>3
  <2>2. ends \subseteq Int
    OBVIOUS
  <2> HIDE DEF ends, len
  <2> QED
    BY <1>2, <1>3, <2>1, <2>2
<1>5. StringAt(buf, 1) = At(buf, 1, IF len < AddrMaxLength THEN len ELSE AddrMaxLength - 1)
  BY <1>1 DEF StringAt
<1> HIDE DEF len
<1>6. StringAt(buf, 1) = At(buf, 1, n)
  BY <1>1, <1>4, <1>5
<1> HIDE DEF ends
<1>7. PICK s \in Seq(Byte) :
        s = At(buf, 1, n) /\ Len(s) = n /\ \A k \in 1..n : s[k] = buf[1 + k]
  <2>1. 1 \in Nat /\ 1 + n <= Len(buf)
    BY <1>1
  <2>2. /\ At(buf, 1, n) \in Seq(Byte) /\ Len(At(buf, 1, n)) = n
        /\ \A k \in 1..n : At(buf, 1, n)[k] = buf[1 + k]
    BY <2>1, AtType
  <2> QED
    BY <2>2
<1>8. s = p
  BY <1>1, <1>7, SeqEqual
<1> QED
  BY <1>6, <1>7, <1>8

(* A request in the cleared buffer is unpacked as it was packed.           *)
LEMMA RequestReceived ==
  ASSUME NEW r \in Requests
  PROVE  LET buf == Filled(Zeros(LocalBuffer), PackRequest(r))
         IN  /\ buf \in [1..LocalBuffer -> Byte]
             /\ Unpack8(buf, 0) = r.type
             /\ UnpackDouble(buf, 1) \in Double /\ UnpackDouble(buf, 9) \in Double
             /\ r.type = 0 => /\ Normal(r.lat) => UnpackDouble(buf, 1) = r.lat
                              /\ Normal(r.lon) => UnpackDouble(buf, 9) = r.lon
             /\ r.type = 1 => Unpack16(buf, 1) = r.coord_range
             /\ r.type \in {3, 4} => StringAt(buf, 1) = r.sock_path
<1>1. PICK packed \in Seq(Byte) :
        /\ packed = PackRequest(r) /\ Len(packed) <= LocalBuffer
        /\ Holds(packed, 0, Bytes(r.type, 1))
        /\ r.type = 0 => /\ Holds(packed, 1, Bytes(IEEEBits(r.lat), 8))
                         /\ Holds(packed, 9, Bytes(IEEEBits(r.lon), 8))
        /\ r.type = 1 => Holds(packed, 1, Bytes(r.coord_range, 2))
        /\ r.type \in {3, 4} => /\ Holds(packed, 1, r.sock_path)
                                /\ Len(packed) = 1 + Len(r.sock_path)
  BY RequestPacked
<1>2. Zeros(LocalBuffer) \in [1..LocalBuffer -> Byte] /\ LocalBuffer \in Nat
  BY Sizes DEF Zeros
<1>3. PICK buf \in Seq(Byte) :
        /\ buf = Filled(Zeros(LocalBuffer), packed) /\ buf \in [1..LocalBuffer -> Byte]
        /\ Len(buf) = LocalBuffer
        /\ \A k \in 1..LocalBuffer : buf[k] = IF k <= Len(packed) THEN packed[k]
                                              ELSE Zeros(LocalBuffer)[k]
  BY <1>2, FilledType
<1>4. Holds(buf, 0, packed)
  <2>1. Len(packed) \in Nat /\ 0 + Len(packed) <= Len(packed) /\ Len(packed) <= Len(buf)
    BY <1>1, <1>3
  <2>2. \A k \in 1..Len(packed) : buf[k] = packed[k]
    BY <1>1, <1>2, <1>3
  <2> QED
    BY <2>1, <2>2, HoldsItself, HoldsSame
<1>5. \A j, s : Holds(packed, j, s) => Holds(buf, j, s)
  <2> SUFFICES ASSUME NEW j, NEW s, Holds(packed, j, s) PROVE Holds(buf, j, s)
    OBVIOUS
  <2>1. Holds(buf, 0 + j, s)
    BY <1>4, HoldsWithin
  <2>2. 0 + j = j
    BY DEF Holds
  <2> QED
    BY <2>1, <2>2
<1>6. Unpack8(buf, 0) = r.type
  <2>1. r.type \in Nat /\ r.type < Base
    BY RequestCases, Sizes
  <2>2. r.type < Pow2[ByteBits * 1]
    BY <2>1, Words
  <2>3. Holds(buf, 0, Bytes(r.type, 1))
    BY <1>1, <1>5
  <2> QED
    BY <2>1, <2>2, <2>3, HoldsInteger DEF Unpack8
<1>7. UnpackDouble(buf, 1) \in Double /\ UnpackDouble(buf, 9) \in Double
  <2>1. Unpack64(buf, 1) \in Nat /\ Unpack64(buf, 9) \in Nat
    <3>1. 1 + 8 <= Len(buf) /\ 9 + 8 <= Len(buf)
      BY <1>3, Sizes
    <3> QED
      BY <3>1, UnpackedType DEF Unpack64
  <2> QED
    BY <2>1, Dec754Type DEF UnpackDouble
<1>8. ASSUME NEW x \in Double, Normal(x), NEW o, Holds(packed, o, Bytes(IEEEBits(x), 8))
      PROVE  UnpackDouble(buf, o) = x
  <2>1. PICK i \in Nat : i = IEEEBits(x) /\ i < Pow2[ByteBits * 8] /\ Dec754(i) = x
    BY <1>8, DoubleCodec, Words
  <2>2. Holds(buf, o, Bytes(i, 8))
    BY <1>5, <1>8, <2>1
  <2>3. Unpack64(buf, o) = i
    BY <2>1, <2>2, HoldsInteger DEF Unpack64
  <2> QED
    BY <2>1, <2>3 DEF UnpackDouble
<1>9. r.type = 0 => /\ Normal(r.lat) => UnpackDouble(buf, 1) = r.lat
                    /\ Normal(r.lon) => UnpackDouble(buf, 9) = r.lon
  <2>1. r.type = 0 => r.lat \in Double /\ r.lon \in Double
    BY RequestCases
  <2> QED
    BY <1>1, <1>8, <2>1
<1>10. r.type = 1 => Unpack16(buf, 1) = r.coord_range
  <2> SUFFICES ASSUME r.type = 1 PROVE Unpack16(buf, 1) = r.coord_range
    OBVIOUS
  <2>1. r.coord_range \in Word16
    BY RequestCases
  <2>2. r.coord_range \in Nat /\ r.coord_range < Pow2[ByteBits * 2]
    <3>1. Pow2[ByteBits * 2] \in Nat
      BY BytePower
    <3> QED
      BY <2>1, <3>1, Words
  <2>3. Holds(buf, 1, Bytes(r.coord_range, 2))
    BY <1>1, <1>5
  <2> QED
    BY <2>2, <2>3, HoldsInteger DEF Unpack16
<1>11. r.type \in {3, 4} => StringAt(buf, 1) = r.sock_path
  <2> SUFFICES ASSUME r.type \in {3, 4} PROVE StringAt(buf, 1) = r.sock_path
    OBVIOUS
  <2>1. PICK p \in Seq(Byte) :
          p = r.sock_path /\ Len(p) < AddrMaxLength /\ \A k \in 1..Len(p) : p[k] # 0
    <3>1. r.sock_path \in Paths
      BY RequestCases
    <3> QED
      BY <3>1, Sizes
  <2>2. Holds(buf, 1, p) /\ Len(packed) = 1 + Len(p)
    BY <1>1, <1>5, <2>1
  <2>3. \A k \in 1..Len(buf) : k > 1 + Len(p) => buf[k] = 0
    <3> SUFFICES ASSUME NEW k \in 1..LocalBuffer, k > 1 + Len(p) PROVE buf[k] = 0
      BY <1>3
    <3>1. ~(k <= Len(packed))
      BY <1>2, <2>2
    <3>2. buf[k] = Zeros(LocalBuffer)[k]
      BY <1>3, <3>1
    <3> QED
      BY <3>2 DEF Zeros
  <2> QED
    BY <2>1, <2>2, <2>3, StringFound
<1> QED
  BY <1>1, <1>3, <1>6, <1>7, <1>9, <1>10, <1>11

-----------------------------------------------------------------------------
(* The invariant                                                           *)

(* The numbers that the model names fit their words.                       *)
LEMMA SmallNumbers ==
  /\ 1 \in Word16 /\ 1 \in Word32 /\ 4 \in Byte /\ 0 \in Byte /\ Base - 1 \in Byte
<1>1. Base \in Nat /\ Base > 4
  BY Sizes
<1>2. Pow2[ByteBits * 2] \in Nat /\ Pow2[ByteBits * 4] \in Nat
  BY BytePower
<1>3. Pow2[ByteBits * 2] >= Base /\ Pow2[ByteBits * 4] >= Base
  <2>1. /\ ByteBits \in Nat /\ ByteBits * 2 \in Nat /\ ByteBits * 4 \in Nat
        /\ ByteBits <= ByteBits * 2 /\ ByteBits <= ByteBits * 4
    BY Widths
  <2> QED
    BY <2>1, Pow2Order DEF Base
<1> QED
  BY <1>1, <1>2, <1>3, Words DEF Byte

(* What peers send has the widths of the layout.                           *)
LEMMA SentCollections ==
  ASSUME NEW c \in Collections
  PROVE  WireCollection(c) /\ Len(c.nodes) + 1 \in Word16
<1>1. /\ c.versionID \in Word16 /\ c.payloadType \in Byte
      /\ c.nodes \in Seq(WireNode) /\ Len(c.nodes) + 1 \in Word16
      /\ \A n \in Range(c.nodes) : n.lat \in Double /\ n.lon \in Double
  BY SizesAssumption DEF Byte
<1>2. \A i \in 1..Len(c.nodes) : c.nodes[i] \in Range(c.nodes)
  BY <1>1 DEF Range
<1>3. Len(c.nodes) \in Word16
  <2>1. Pow2[ByteBits * 2] \in Nat
    BY BytePower
  <2>2. Len(c.nodes) \in Nat
    BY <1>1
  <2> QED
    BY <1>1, <2>1, <2>2, Words
<1> QED
  BY <1>1, <1>2, <1>3 DEF WireCollection

(* So has what the process publishes.                                      *)
Published(nodes) == [versionID |-> 1, payloadType |-> 4, nodes |-> <<OwnNode>> \o nodes]

(* Where a process can be.                                                 *)
Place == [lat : Double, lon : Double, coordRange : Word16]

(* A publication has the widths of the layout, and the process comes first *)
(* in it.                                                                  *)
LEMMA PublishedCollection ==
  ASSUME NEW c \in Collections, place \in Place
  PROVE  /\ WireCollection(Published(c.nodes))
         /\ Len(Published(c.nodes).nodes) >= 1
         /\ Published(c.nodes).nodes[1].lat = place.lat
         /\ Published(c.nodes).nodes[1].lon = place.lon
<1>1. /\ c.nodes \in Seq(WireNode) /\ Len(c.nodes) + 1 \in Word16
      /\ \A i \in 1..Len(c.nodes) : c.nodes[i].lat \in Double /\ c.nodes[i].lon \in Double
  BY SentCollections DEF WireCollection
<1>2. PICK own \in WireNode : /\ own = OwnNode /\ own.lat = place.lat /\ own.lon = place.lon
                              /\ own.lat \in Double /\ own.lon \in Double
  <2>1. place.lat \in Double /\ place.lon \in Double /\ place.coordRange \in Word16
    BY DEF Place
  <2>2. Double \subseteq Int
    BY DEF Double
  <2>3. OwnNode \in WireNode
    BY <2>1, <2>2, SmallNumbers DEF OwnNode, WireNode
  <2>4. OwnNode.lat = place.lat /\ OwnNode.lon = place.lon
    BY DEF OwnNode
  <2> QED
    BY <2>1, <2>3, <2>4
<1>3. PICK s \in Seq(WireNode) : s = <<own>> /\ Len(s) = 1 /\ s[1] = own
  <2>1. <<own>> \in Seq(WireNode)
    OBVIOUS
  <2>2. Len(<<own>>) = 1 /\ <<own>>[1] = own
    OBVIOUS
  <2> QED
    BY <2>1, <2>2
<1>4. PICK t \in Seq(WireNode) : t = c.nodes
  BY <1>1
<1>5. PICK all \in Seq(WireNode) :
        /\ all = s \o t /\ Len(all) = 1 + Len(t)
        /\ \A i \in 1..(1 + Len(t)) : all[i] = IF i <= 1 THEN s[i] ELSE t[i - 1]
  <2>1. /\ s \o t \in Seq(WireNode) /\ Len(s \o t) = Len(s) + Len(t)
        /\ \A i \in 1..(Len(s) + Len(t)) : (s \o t)[i] = IF i <= Len(s) THEN s[i]
                                                         ELSE t[i - Len(s)]
    BY ConcatProperties
  <2>2. PICK all \in Seq(WireNode) : all = s \o t
    BY <2>1
  <2>3. Len(all) = 1 + Len(t)
    BY <1>3, <2>1, <2>2
  <2>4. \A i \in 1..(1 + Len(t)) : all[i] = IF i <= 1 THEN s[i] ELSE t[i - 1]
    BY <1>3, <2>1, <2>2
  <2> QED
    BY <2>2, <2>3, <2>4
<1>6. Published(c.nodes).versionID = 1 /\ Published(c.nodes).payloadType = 4
      /\ Published(c.nodes).nodes = all
  BY <1>2, <1>3, <1>4, <1>5 DEF Published
<1>7. Len(c.nodes) \in Nat /\ all[1] = own
  BY <1>1, <1>3, <1>4, <1>5
<1>8. ASSUME NEW i \in 1..Len(all) PROVE all[i].lat \in Double /\ all[i].lon \in Double
  <2>1. CASE i = 1
    BY <1>2, <1>7, <2>1
  <2>2. CASE i # 1
    <3>1. i \in 1..(1 + Len(c.nodes)) /\ i - 1 \in 1..Len(c.nodes) /\ ~(i <= 1)
      BY <1>3, <1>4, <1>5, <1>7, <2>2
    <3>2. all[i] = c.nodes[i - 1]
      BY <1>3, <1>4, <1>5, <3>1
    <3> QED
      BY <1>1, <3>1, <3>2
  <2> QED
    BY <2>1, <2>2
<1>9. Len(all) \in Word16
  <2>1. 1 + Len(c.nodes) = Len(c.nodes) + 1
    BY <1>7
  <2> QED
    BY <1>1, <1>3, <1>4, <1>5, <2>1
<1>10. WireCollection(Published(c.nodes))
  BY <1>3, <1>4, <1>5, <1>6, <1>8, <1>9, SmallNumbers DEF WireCollection
<1>11. Len(all) >= 1
  BY <1>3, <1>4, <1>5, <1>7
<1> QED
  BY <1>2, <1>6, <1>7, <1>10, <1>11

(* A datagram is cut to the size of its buffer.                            *)
LEMMA CutType ==
  ASSUME NEW s \in Seq(Byte), NEW n \in Nat
  PROVE  /\ Cut(s, n) \in Seq(Byte)
         /\ Len(Cut(s, n)) = IF Len(s) > n THEN n ELSE Len(s)
         /\ Len(s) <= n => Cut(s, n) = s
<1>1. Len(s) \in Nat
  OBVIOUS
<1>2. CASE Len(s) > n
  <2>1. SubSeq(s, 1, n) \in Seq(Byte) /\ Len(SubSeq(s, 1, n)) = n
    BY <1>1, <1>2
  <2> QED
    BY <1>1, <1>2, <2>1 DEF Cut
<1>3. CASE ~(Len(s) > n)
  BY <1>1, <1>3 DEF Cut
<1> QED
  BY <1>2, <1>3

(* What was packed is under way, and with a request the process will be as *)
(* the user wants it.                                                      *)
Pending(r) ==
  /\ asked.coordRange = IF r.type = 1 THEN r.coord_range ELSE place.coordRange
  /\ Normal(asked.lat) => asked.lat = IF r.type = 0 THEN r.lat ELSE place.lat
  /\ Normal(asked.lon) => asked.lon = IF r.type = 0 THEN r.lon ELSE place.lon
  /\ accepted = CASE r.type = 3 -> AddSub(subs, r.sock_path)
                  [] r.type = 4 -> subs \ {r.sock_path}
                  [] OTHER -> subs

FromPeer ==
  datagram.to = "peer" =>
    /\ WireCollection(content)
    /\ datagram.bytes = SubSeq(PackCollection(content), 1,
                               Len(PackCollection(content)) % SizeRange)

ToUser ==
  datagram.to = "user" =>
    /\ WireCollection(content) /\ Len(content.nodes) >= 1
    /\ datagram.bytes = PackCollection(content)
    /\ content.nodes[1].lat = place.lat /\ content.nodes[1].lon = place.lon

ToProcess ==
  datagram.to = "process" =>
    /\ content \in Requests /\ datagram.bytes = PackRequest(content)
    /\ Pending(content)

Inv == TypeOK /\ FromPeer /\ ToUser /\ ToProcess /\ PlaceAsAsked /\ SubscribedAsAccepted

(* The lists of subscribers that the limit permits: a request keeps to it. *)
SubLists ==
  {list \in SUBSET Paths : IsFiniteSet(list) /\ Cardinality(list) <= MaxNumSubs}

LEMMA SubListKept ==
  ASSUME NEW list \in SubLists, NEW p \in Paths
  PROVE  AddSub(list, p) \in SubLists /\ list \ {p} \in SubLists
<1>1. IsFiniteSet(list) /\ Cardinality(list) \in Nat /\ Cardinality(list) <= MaxNumSubs
  BY FS_CardinalityType DEF SubLists
<1>2. list \ {p} \in SubLists
  <2>1. IsFiniteSet(list \ {p}) /\ Cardinality(list \ {p}) <= Cardinality(list)
    BY <1>1, FS_Subset
  <2>2. Cardinality(list \ {p}) \in Nat
    BY <2>1, FS_CardinalityType
  <2> QED
    BY <1>1, <2>1, <2>2, SizesAssumption DEF SubLists
<1>3. CASE Cardinality(list) < MaxNumSubs
  <2>1. /\ IsFiniteSet(list \cup {p})
        /\ Cardinality(list \cup {p}) = IF p \in list THEN Cardinality(list)
                                        ELSE Cardinality(list) + 1
    BY <1>1, FS_AddElement
  <2>2. Cardinality(list \cup {p}) <= MaxNumSubs
    BY <1>1, <1>3, <2>1, SizesAssumption
  <2> QED
    BY <1>2, <1>3, <2>1, <2>2 DEF AddSub, SubLists
<1>4. CASE ~(Cardinality(list) < MaxNumSubs)
  BY <1>2, <1>4 DEF AddSub
<1> QED
  BY <1>3, <1>4

(* The empty list is one, and so are those of the type invariant.          *)
LEMMA SubListsTyped ==
  /\ {} \in SubLists
  /\ \A list : list \in SubLists <=>
       list \subseteq Paths /\ IsFiniteSet(list) /\ Cardinality(list) <= MaxNumSubs
<1>1. MaxNumSubs \in Nat /\ IsFiniteSet({}) /\ Cardinality({}) = 0
  BY SizesAssumption, FS_EmptySet
<1> QED
  BY <1>1 DEF SubLists

(* A remainder is not above the number.                                    *)
LEMMA ModBelow ==
  ASSUME NEW a \in Nat, NEW b \in Nat \ {0}
  PROVE  a % b \in Nat /\ a % b <= a
<1>1. PICK q \in Nat, m \in Nat : a % b = m /\ a = q * b + m
  <2>1. a \div b \in Nat /\ a % b \in 0..(b - 1) /\ a = (a \div b) * b + (a % b)
    BY DivMod
  <2>2. a % b \in Nat
    BY <2>1
  <2> QED
    BY <2>1, <2>2
<1>2. q * b \in Nat
  BY ProductOrder
<1> QED
  BY <1>1, <1>2

(* The initial states.                                                     *)
LEMMA Start == Init => Inv
<1> SUFFICES ASSUME Init PROVE Inv
  OBVIOUS
<1>1. place \in Place
  BY SizesAssumption DEF Init, Place
<1>2. /\ Zeros(PeerBuffer) \in [1..PeerBuffer -> Byte]
      /\ Zeros(LocalBuffer) \in [1..LocalBuffer -> Byte]
  BY SmallNumbers DEF Zeros
<1>3. /\ <<>> \in Seq(WireNode) /\ datagram = [to |-> "nobody", bytes |-> <<>>]
      /\ datagram.to = "nobody" /\ <<>> \in Seq(Byte)
  BY DEF Init, NoDatagram
<1>4. datagram \in [to : {"nobody", "peer", "process", "user"}, bytes : Seq(Byte)]
  BY <1>3
<1>5. TypeOK
  BY <1>1, <1>2, <1>3, <1>4, SubListsTyped DEF Init, TypeOK, Place, Byte
<1>6. PlaceAsAsked /\ SubscribedAsAccepted
  BY DEF Init, PlaceAsAsked, SubscribedAsAccepted
<1> QED
  BY <1>3, <1>5, <1>6 DEF Inv, FromPeer, ToUser, ToProcess

(* The steps, each for itself.                                             *)
LEMMA PeerSendsKeeps ==
  ASSUME Inv, NEW c \in Collections, PeerSends(c)
  PROVE  Inv'
<1>1. /\ datagram = NoDatagram /\ content' = c /\ received' = <<>> /\ told' = <<>>
      /\ datagram' = [to |-> "peer",
                      bytes |-> SubSeq(PackCollection(c), 1, Len(PackCollection(c)) % SizeRange)]
      /\ UNCHANGED <<place, subs, stuck, heap, local, asked, accepted>>
  BY DEF PeerSends, Transmit, memory, wishes
<1>2. WireCollection(c)
  BY SentCollections
<1>3. PICK packed \in Seq(Byte) : packed = PackCollection(c)
  BY <1>2, CollectionPacked
<1>4. SubSeq(packed, 1, Len(packed) % SizeRange) \in Seq(Byte)
  <2>1. Len(packed) \in Nat /\ SizeRange \in Nat \ {0}
    BY Sizes
  <2>2. Len(packed) % SizeRange \in Nat /\ Len(packed) % SizeRange <= Len(packed)
    BY <2>1, ModBelow
  <2> QED
    BY <2>2
<1>5. /\ datagram'.to = "peer"
      /\ datagram'.bytes = SubSeq(PackCollection(c), 1, Len(PackCollection(c)) % SizeRange)
      /\ datagram' \in [to : {"nobody", "peer", "process", "user"}, bytes : Seq(Byte)]
  BY <1>1, <1>3, <1>4
<1>6. <<>> \in Seq(WireNode)
  OBVIOUS
<1>7. TypeOK'
  BY <1>1, <1>5, <1>6 DEF Inv, TypeOK, Byte
<1>8. PlaceAsAsked' /\ SubscribedAsAccepted'
  BY <1>1 DEF Inv, PlaceAsAsked, SubscribedAsAccepted, NoDatagram
<1>9. FromPeer' /\ ToUser' /\ ToProcess'
  BY <1>1, <1>2, <1>5 DEF FromPeer, ToUser, ToProcess
<1> QED
  BY <1>7, <1>8, <1>9 DEF Inv

LEMMA ReceiveFromPeerKeeps ==
  ASSUME Inv, ReceiveFromPeer
  PROVE  Inv'
<1>1. /\ datagram.to = "peer" /\ datagram' = NoDatagram
      /\ UNCHANGED <<place, subs, stuck, local, content, told, asked, accepted>>
  BY DEF ReceiveFromPeer, wishes
<1>2. heap \in [1..PeerBuffer -> Byte] /\ datagram.bytes \in Seq(Byte)
  BY DEF Inv, TypeOK, Byte
<1>3. PICK buffer \in [1..PeerBuffer -> Byte], beyond \in Byte :
        /\ heap' = Filled(buffer, datagram.bytes)
        /\ received' = UnpackCollection(heap', beyond).nodes
  <2>1. Zeros(PeerBuffer) \in [1..PeerBuffer -> Byte]
    BY SmallNumbers DEF Zeros
  <2> QED
    BY <1>2, <2>1, SmallNumbers DEF ReceiveFromPeer
<1>4. PeerBuffer \in Nat /\ PeerBuffer >= 5
  BY Sizes
<1>5. PICK buf : /\ buf = heap' /\ buf \in [1..PeerBuffer -> Byte]
                 /\ buf \in Seq(Byte) /\ Len(buf) = PeerBuffer
  <2>1. PICK bytes \in Seq(Byte) : bytes = datagram.bytes
    BY <1>2
  <2>2. /\ Filled(buffer, bytes) \in [1..PeerBuffer -> Byte]
        /\ Filled(buffer, bytes) \in Seq(Byte) /\ Len(Filled(buffer, bytes)) = PeerBuffer
    BY <1>4, FilledType
  <2> QED
    BY <1>3, <2>1, <2>2
<1>6. received' \in Seq(WireNode)
  BY <1>3, <1>4, <1>5, CollectionType
<1>7. /\ datagram'.to = "nobody"
      /\ datagram' \in [to : {"nobody", "peer", "process", "user"}, bytes : Seq(Byte)]
  BY <1>1 DEF NoDatagram
<1>8. TypeOK'
  BY <1>1, <1>5, <1>6, <1>7 DEF Inv, TypeOK, Byte
<1>9. PlaceAsAsked' /\ SubscribedAsAccepted'
  BY <1>1 DEF Inv, PlaceAsAsked, SubscribedAsAccepted
<1> QED
  BY <1>7, <1>8, <1>9 DEF Inv, FromPeer, ToUser, ToProcess

LEMMA UserAsksKeeps ==
  ASSUME Inv, NEW r \in Requests, UserAsks(r)
  PROVE  Inv'
<1>1. /\ datagram = NoDatagram /\ content' = r /\ received' = <<>> /\ told' = <<>>
      /\ datagram' = [to |-> "process", bytes |-> PackRequest(r)]
      /\ UNCHANGED <<place, subs, stuck, heap, local>>
  BY DEF UserAsks, Transmit, memory
<1>2. /\ asked' = CASE r.type = 0 -> [asked EXCEPT !.lat = r.lat, !.lon = r.lon]
                    [] r.type = 1 -> [asked EXCEPT !.coordRange = r.coord_range]
                    [] OTHER -> asked
      /\ accepted' = CASE r.type = 3 -> AddSub(accepted, r.sock_path)
                       [] r.type = 4 -> accepted \ {r.sock_path}
                       [] OTHER -> accepted
  BY DEF UserAsks, AddSub, SET_POSITION, SET_COORDINATION_RANGE, SUB_CANDNODES,
         UNSUB_CANDNODES
<1>3. \/ r.type = 0 /\ r.lat \in Double /\ r.lon \in Double
      \/ r.type = 1 /\ r.coord_range \in Word16
      \/ r.type \in {3, 4} /\ r.sock_path \in Paths
  BY RequestCases
<1>4. /\ asked \in Place /\ accepted \in SubLists
      /\ asked.coordRange = place.coordRange /\ subs = accepted
      /\ Normal(asked.lat) => place.lat = asked.lat
      /\ Normal(asked.lon) => place.lon = asked.lon
  BY <1>1, SubListsTyped
     DEF Inv, TypeOK, Place, PlaceAsAsked, SubscribedAsAccepted, NoDatagram
<1>5. r.type = 0 =>
         /\ asked' = [lat |-> r.lat, lon |-> r.lon, coordRange |-> asked.coordRange]
         /\ accepted' = accepted
  <2> SUFFICES ASSUME r.type = 0
               PROVE  /\ asked' = [lat |-> r.lat, lon |-> r.lon, coordRange |-> asked.coordRange]
                      /\ accepted' = accepted
    OBVIOUS
  <2>1. asked' = [asked EXCEPT !.lat = r.lat, !.lon = r.lon]
    <3>1. r.type # 1
      OBVIOUS
    <3> QED
      BY <1>2, <3>1, Zenon
  <2>2. r.type # 3 /\ r.type # 4
    OBVIOUS
  <2>3. accepted' = accepted
    BY <1>2, <2>2
  <2>4. PICK x, y, z : asked = [lat |-> x, lon |-> y, coordRange |-> z]
    BY <1>4 DEF Place
  <2> QED
    BY <2>1, <2>3, <2>4
<1>6. asked' \in Place /\ accepted' \in SubLists
  <2>1. CASE r.type = 0
    BY <1>3, <1>4, <1>5, <2>1 DEF Place
  <2>2. CASE r.type = 1
    BY <1>2, <1>3, <1>4, <2>2 DEF Place
  <2>3. CASE r.type \in {3, 4}
    <3>1. asked' = asked
      BY <1>2, <2>3
    <3>2. accepted' = AddSub(accepted, r.sock_path) \/ accepted' = accepted \ {r.sock_path}
      BY <1>2, <2>3
    <3>3. r.sock_path \in Paths
      BY <1>3, <2>3
    <3> QED
      BY <1>4, <3>1, <3>2, <3>3, SubListKept
  <2> QED
    BY <1>3, <2>1, <2>2, <2>3
<1>7. /\ datagram'.to = "process" /\ datagram'.bytes = PackRequest(r)
      /\ datagram' \in [to : {"nobody", "peer", "process", "user"}, bytes : Seq(Byte)]
  BY <1>1, RequestPacked
<1>8. <<>> \in Seq(WireNode)
  OBVIOUS
<1>9. TypeOK'
  BY <1>1, <1>6, <1>7, <1>8, SubListsTyped DEF Inv, TypeOK, Byte, Place
<1>10. Pending(content)'
  <2>1. CASE r.type = 0
    <3>1. /\ asked'.lat = r.lat /\ asked'.lon = r.lon
          /\ asked'.coordRange = asked.coordRange /\ accepted' = accepted
      BY <1>5, <2>1
    <3> QED
      BY <1>1, <1>4, <2>1, <3>1 DEF Pending
  <2>2. CASE r.type = 1
    BY <1>1, <1>2, <1>4, <2>2 DEF Pending, Place
  <2>3. CASE r.type = 3
    BY <1>1, <1>2, <1>4, <2>3 DEF Pending
  <2>4. CASE r.type = 4
    BY <1>1, <1>2, <1>4, <2>4 DEF Pending
  <2> QED
    BY <1>3, <2>1, <2>2, <2>3, <2>4
<1> QED
  BY <1>1, <1>7, <1>9, <1>10
     DEF Inv, FromPeer, ToUser, ToProcess, PlaceAsAsked, SubscribedAsAccepted

LEMMA HandleRequestKeeps ==
  ASSUME Inv, HandleRequest
  PROVE  Inv'
<1>1. /\ datagram.to = "process" /\ datagram' = NoDatagram /\ local' = LocalReceived
      /\ UNCHANGED <<received, stuck, heap, content, told, asked, accepted>>
  BY DEF HandleRequest, wishes
<1>2. PICK r \in Requests : r = content /\ datagram.bytes = PackRequest(r) /\ Pending(r)
  BY <1>1 DEF Inv, ToProcess
<1>3. PICK buf \in [1..LocalBuffer -> Byte], x \in Double, y \in Double :
        /\ buf = local' /\ Unpack8(buf, 0) = r.type
        /\ x = UnpackDouble(buf, 1) /\ y = UnpackDouble(buf, 9)
        /\ r.type = 0 => (Normal(r.lat) => x = r.lat) /\ (Normal(r.lon) => y = r.lon)
        /\ r.type = 1 => Unpack16(buf, 1) = r.coord_range
        /\ r.type \in {3, 4} => StringAt(buf, 1) = r.sock_path
  <2>1. local' = Filled(Zeros(LocalBuffer), PackRequest(r))
    BY <1>1, <1>2 DEF LocalReceived
  <2> QED
    BY <2>1, RequestReceived
<1>4. \/ r.type = 0 /\ r.lat \in Double /\ r.lon \in Double
      \/ r.type = 1 /\ r.coord_range \in Word16
      \/ r.type \in {3, 4} /\ r.sock_path \in Paths
  BY RequestCases
<1>5. /\ place' = CASE r.type = 0 -> [place EXCEPT !.lat = x, !.lon = y]
                    [] r.type = 1 -> [place EXCEPT !.coordRange = Unpack16(buf, 1)]
                    [] OTHER -> place
      /\ subs' = CASE r.type = 3 -> AddSub(subs, StringAt(buf, 1))
                   [] r.type = 4 -> subs \ {StringAt(buf, 1)}
                   [] OTHER -> subs
  BY <1>3 DEF HandleRequest, SET_POSITION, SET_COORDINATION_RANGE, SUB_CANDNODES, UNSUB_CANDNODES
<1>6. /\ place \in Place /\ accepted \in SubLists
      /\ asked.coordRange = IF r.type = 1 THEN r.coord_range ELSE place.coordRange
      /\ Normal(asked.lat) => asked.lat = IF r.type = 0 THEN r.lat ELSE place.lat
      /\ Normal(asked.lon) => asked.lon = IF r.type = 0 THEN r.lon ELSE place.lon
      /\ accepted = CASE r.type = 3 -> AddSub(subs, r.sock_path)
                      [] r.type = 4 -> subs \ {r.sock_path}
                      [] OTHER -> subs
  BY <1>2, SubListsTyped DEF Pending, Inv, TypeOK, Place
<1>7. PICK lat \in Double, lon \in Double, range \in Word16 :
        place = [lat |-> lat, lon |-> lon, coordRange |-> range]
  BY <1>6 DEF Place
<1>8. /\ place' \in Place /\ place'.coordRange = asked.coordRange
      /\ Normal(asked.lat) => place'.lat = asked.lat
      /\ Normal(asked.lon) => place'.lon = asked.lon
  <2>1. CASE r.type = 0
    <3>1. r.type # 1
      BY <2>1
    <3>2. place' = [place EXCEPT !.lat = x, !.lon = y]
      BY <1>5, <2>1, <3>1, Zenon
    <3>3. place' = [lat |-> x, lon |-> y, coordRange |-> range]
      BY <1>7, <3>2
    <3>4. /\ asked.coordRange = range
          /\ Normal(asked.lat) => asked.lat = r.lat
          /\ Normal(asked.lon) => asked.lon = r.lon
      BY <1>6, <1>7, <2>1
    <3> QED
      BY <1>3, <2>1, <3>3, <3>4 DEF Place
  <2>2. CASE r.type = 1
    <3>1. r.type # 0
      BY <2>2
    <3>2. place' = [place EXCEPT !.coordRange = Unpack16(buf, 1)]
      BY <1>5, <2>2, <3>1, Zenon
    <3>3. place' = [lat |-> lat, lon |-> lon, coordRange |-> r.coord_range]
      BY <1>3, <1>7, <2>2, <3>2
    <3> QED
      BY <1>4, <1>6, <1>7, <2>2, <3>3 DEF Place
  <2>3. CASE r.type \in {3, 4}
    <3>1. r.type # 0 /\ r.type # 1
      BY <2>3
    <3>2. place' = place
      BY <1>5, <3>1, Zenon
    <3> QED
      BY <1>6, <3>1, <3>2
  <2> QED
    BY <1>4, <2>1, <2>2, <2>3
<1>9. subs' = accepted
  <2>1. CASE r.type \in {3, 4}
    BY <1>3, <1>5, <1>6, <2>1
  <2>2. CASE r.type \notin {3, 4}
    BY <1>5, <1>6, <2>2
  <2> QED
    BY <2>1, <2>2
<1>10. /\ datagram'.to = "nobody"
       /\ datagram' \in [to : {"nobody", "peer", "process", "user"}, bytes : Seq(Byte)]
  BY <1>1 DEF NoDatagram
<1>11. TypeOK'
  BY <1>1, <1>3, <1>6, <1>8, <1>9, <1>10, SubListsTyped DEF Inv, TypeOK, Byte, Place
<1>12. PlaceAsAsked' /\ SubscribedAsAccepted'
  BY <1>1, <1>8, <1>9 DEF PlaceAsAsked, SubscribedAsAccepted
<1> QED
  BY <1>10, <1>11, <1>12 DEF Inv, FromPeer, ToUser, ToProcess

LEMMA PublishKeeps ==
  ASSUME Inv, NEW c \in Collections, Publish(c.nodes)
  PROVE  Inv'
<1>1. PICK p : /\ p = Published(c.nodes) /\ WireCollection(p) /\ Len(p.nodes) >= 1
               /\ p.nodes[1].lat = place.lat /\ p.nodes[1].lon = place.lon
  BY PublishedCollection DEF Inv, TypeOK, Place
<1>2. /\ datagram = NoDatagram
      /\ UNCHANGED <<place, subs, heap, local, asked, accepted>>
      /\ \/ /\ datagram' = [to |-> "user", bytes |-> PackCollection(p)] /\ content' = p
            /\ received' = <<>> /\ told' = <<>> /\ UNCHANGED stuck
         \/ stuck' = TRUE /\ UNCHANGED <<datagram, content, received, told>>
  BY <1>1 DEF Publish, Published, Transmit, memory, wishes
<1>3. PlaceAsAsked' /\ SubscribedAsAccepted'
  BY <1>2 DEF Inv, PlaceAsAsked, SubscribedAsAccepted, NoDatagram
<1>4. CASE datagram' = [to |-> "user", bytes |-> PackCollection(p)] /\ content' = p
           /\ received' = <<>> /\ told' = <<>> /\ UNCHANGED stuck
  <2>1. PackCollection(p) \in Seq(Byte)
    BY <1>1, CollectionPacked
  <2>2. /\ datagram'.to = "user" /\ datagram'.bytes = PackCollection(p)
        /\ datagram' \in [to : {"nobody", "peer", "process", "user"}, bytes : Seq(Byte)]
    BY <1>4, <2>1
  <2>3. <<>> \in Seq(WireNode)
    OBVIOUS
  <2>4. TypeOK'
    BY <1>2, <1>4, <2>2, <2>3 DEF Inv, TypeOK, Byte
  <2>5. FromPeer' /\ ToUser' /\ ToProcess'
    BY <1>1, <1>2, <1>4, <2>2 DEF FromPeer, ToUser, ToProcess
  <2> QED
    BY <1>3, <2>4, <2>5 DEF Inv
<1>5. CASE stuck' = TRUE /\ UNCHANGED <<datagram, content, received, told>>
  <2>1. TypeOK'
    BY <1>2, <1>5 DEF Inv, TypeOK
  <2>2. datagram'.to = "nobody"
    BY <1>2, <1>5 DEF NoDatagram
  <2> QED
    BY <1>3, <2>1, <2>2 DEF Inv, FromPeer, ToUser, ToProcess
<1> QED
  BY <1>2, <1>4, <1>5

(* What the user's program reads.                                          *)
LEMMA UserReadsNodes ==
  ASSUME UserReads
  PROVE  LET bytes == Cut(datagram.bytes, UserBuffer)
         IN  told' = IF Len(bytes) < 5 + 38 * Unpack16(bytes, 3) THEN told ELSE ReadNodes(bytes)
BY DEF UserReads, ReadNodes, HeaderSize, NodeSize

LEMMA UserReadsKeeps ==
  ASSUME Inv, UserReads
  PROVE  Inv'
<1>1. /\ datagram.to = "user" /\ datagram' = NoDatagram
      /\ UNCHANGED <<place, subs, received, stuck, heap, local, content, asked, accepted>>
  BY DEF UserReads, memory, wishes
<1>2. PICK packed \in Seq(Byte) : packed = datagram.bytes /\ Len(packed) >= 5
  <2>1. WireCollection(content) /\ datagram.bytes = PackCollection(content)
    BY <1>1 DEF Inv, ToUser
  <2>2. /\ PackCollection(content) \in Seq(Byte)
        /\ Len(PackCollection(content)) = 5 + 38 * Len(content.nodes)
    BY <2>1, CollectionPacked
  <2>3. Len(content.nodes) \in Nat
    BY <2>1 DEF WireCollection
  <2>4. 5 + 38 * Len(content.nodes) >= 5
    BY <2>3
  <2> QED
    BY <2>1, <2>2, <2>4
<1>3. PICK bytes \in Seq(Byte) : bytes = Cut(packed, UserBuffer) /\ Len(bytes) >= 5
  <2>1. UserBuffer \in Nat /\ UserBuffer >= 5
    BY Sizes
  <2> QED
    BY <1>2, <2>1, CutType
<1>4. told' \in Seq(WireNode)
  <2>1. told' = IF Len(bytes) < 5 + 38 * Unpack16(bytes, 3) THEN told ELSE ReadNodes(bytes)
    BY <1>2, <1>3, UserReadsNodes
  <2>2. CASE Len(bytes) < 5 + 38 * Unpack16(bytes, 3)
    BY <2>1, <2>2 DEF Inv, TypeOK
  <2>3. CASE ~(Len(bytes) < 5 + 38 * Unpack16(bytes, 3))
    <3>1. Unpack16(bytes, 3) \in Nat
      BY <1>3, UnpackedType DEF Unpack16
    <3>2. Len(bytes) >= 5 + 38 * Unpack16(bytes, 3)
      BY <2>3, <3>1
    <3> QED
      BY <1>3, <2>1, <2>3, <3>2, ReadNodesType
  <2> QED
    BY <2>2, <2>3
<1>5. /\ datagram'.to = "nobody"
      /\ datagram' \in [to : {"nobody", "peer", "process", "user"}, bytes : Seq(Byte)]
  BY <1>1 DEF NoDatagram
<1>6. TypeOK'
  BY <1>1, <1>4, <1>5 DEF Inv, TypeOK, Byte
<1>7. PlaceAsAsked' /\ SubscribedAsAccepted'
  BY <1>1 DEF Inv, PlaceAsAsked, SubscribedAsAccepted
<1> QED
  BY <1>5, <1>6, <1>7 DEF Inv, FromPeer, ToUser, ToProcess

(* Every step keeps the invariant.                                         *)
LEMMA StepKeeps == Inv /\ [Next]_vars => Inv'
<1> SUFFICES ASSUME Inv, [Next]_vars PROVE Inv'
  OBVIOUS
<1>1. ASSUME NEW c \in Collections, PeerSends(c) PROVE Inv'
  BY <1>1, PeerSendsKeeps
<1>2. ASSUME NEW c \in Collections, Publish(c.nodes) PROVE Inv'
  BY <1>2, PublishKeeps
<1>3. ASSUME NEW r \in Requests, UserAsks(r) PROVE Inv'
  BY <1>3, UserAsksKeeps
<1>4. CASE ReceiveFromPeer
  BY <1>4, ReceiveFromPeerKeeps
<1>5. CASE HandleRequest
  BY <1>5, HandleRequestKeeps
<1>6. CASE UserReads
  BY <1>6, UserReadsKeeps
<1>7. CASE UNCHANGED vars
  BY <1>7 DEF vars, memory, wishes, Inv, TypeOK, FromPeer, ToUser, ToProcess, Pending,
              PlaceAsAsked, SubscribedAsAccepted
<1> QED
  BY <1>1, <1>2, <1>3, <1>4, <1>5, <1>6, <1>7 DEF Next

(* The invariant holds in every behaviour.                                 *)
LEMMA InvHolds == Spec => []Inv
BY Start, StepKeeps, PTL DEF Spec

(* All variables keep their types: whatever arrives, the buffers hold      *)
(* bytes, the numbers read from them have their widths and a position that *)
(* is decoded is a double again.                                           *)
THEOREM TypeCorrect == Spec => []TypeOK
<1>1. Inv => TypeOK
  BY DEF Inv
<1> QED
  BY <1>1, InvHolds, PTL

(* After LocalIO_handleRequest the process is where the user's program put *)
(* it and has the range it was given: what Python packs for a position and *)
(* a range, LocalRequest_unpack and dec754 give back.                      *)
THEOREM PlaceAsAskedHolds == Spec => []PlaceAsAsked
<1>1. Inv => PlaceAsAsked
  BY DEF Inv
<1> QED
  BY <1>1, InvHolds, PTL

(* The subscriber list holds the paths the user's program named while it   *)
(* had room, for every limit: the cleared buffer ends every path, so no    *)
(* byte of an earlier request is taken for part of it, and no path holds a *)
(* place that SubscriberList_addSub refused or that was taken back.        *)
THEOREM SubscribedAsAcceptedHolds == Spec => []SubscribedAsAccepted
<1>1. Inv => SubscribedAsAccepted
  BY DEF Inv
<1> QED
  BY <1>1, InvHolds, PTL

(* Each datagram is read by the one it was sent to.                        *)
LEMMA Readers ==
  ASSUME [Next]_vars
  PROVE  /\ Read("peer") => ReceiveFromPeer
         /\ Read("user") => UserReads
<1>1. ASSUME datagram.to \in {"peer", "user"}, NEW c \in Collections
      PROVE  ~PeerSends(c) /\ ~Publish(c.nodes)
  <2>1. datagram # NoDatagram
    BY <1>1 DEF NoDatagram
  <2> QED
    BY <2>1 DEF PeerSends, Publish, Transmit
<1>2. ASSUME datagram.to \in {"peer", "user"}, NEW r \in Requests PROVE ~UserAsks(r)
  <2>1. datagram # NoDatagram
    BY <1>2 DEF NoDatagram
  <2> QED
    BY <2>1 DEF UserAsks, Transmit
<1>3. /\ ReceiveFromPeer => datagram.to = "peer"
      /\ HandleRequest => datagram.to = "process"
      /\ UserReads => datagram.to = "user"
  BY DEF ReceiveFromPeer, HandleRequest, UserReads
<1>4. UNCHANGED vars => datagram' = datagram
  BY DEF vars
<1> QED
  BY <1>1, <1>2, <1>3, <1>4 DEF Next, Read

(* The step that receives from a peer.                                     *)
LEMMA PeerUnderstood ==
  ASSUME Inv, ReceiveFromPeer
  PROVE  LET size == Len(Cut(datagram.bytes, PeerBuffer))
         IN  AgreeUpTo((size - HeaderSize) \div NodeSize, content.nodes, received')
<1>1. PICK c : /\ c = content /\ WireCollection(c)
               /\ datagram.bytes = SubSeq(PackCollection(c), 1, Len(PackCollection(c)) % SizeRange)
  BY DEF Inv, FromPeer, ReceiveFromPeer
<1>2. PICK packed \in Seq(Byte) : packed = PackCollection(c)
  BY <1>1, CollectionPacked
<1>3. PICK bytes \in Seq(Byte) :
        /\ bytes = datagram.bytes /\ Len(bytes) <= Len(packed)
        /\ \A k \in 1..Len(bytes) : bytes[k] = packed[k]
  <2>1. PICK m \in Nat : m = Len(packed) % SizeRange /\ m <= Len(packed)
    <3>1. Len(packed) \in Nat /\ SizeRange \in Nat \ {0}
      BY Sizes
    <3> QED
      BY <3>1, ModBelow
  <2>2. /\ SubSeq(packed, 1, m) \in Seq(Byte) /\ Len(SubSeq(packed, 1, m)) = m
        /\ \A k \in 1..m : SubSeq(packed, 1, m)[k] = packed[k]
    BY <2>1
  <2> QED
    BY <1>1, <1>2, <2>1, <2>2
<1>4. PICK size \in Nat :
        /\ size = Len(Cut(datagram.bytes, PeerBuffer))
        /\ size <= PeerBuffer /\ size <= Len(bytes)
  <2>1. PeerBuffer \in Nat /\ Len(bytes) \in Nat
    BY Sizes
  <2>2. Len(Cut(bytes, PeerBuffer)) = IF Len(bytes) > PeerBuffer THEN PeerBuffer ELSE Len(bytes)
    BY <2>1, CutType
  <2> QED
    BY <1>3, <2>1, <2>2
<1>5. PICK buf \in Seq(Byte), beyond \in Byte :
        /\ received' = UnpackCollection(buf, beyond).nodes /\ Len(buf) = PeerBuffer
        /\ \A k \in 1..size : buf[k] = packed[k]
  <2>1. heap \in [1..PeerBuffer -> Byte] /\ Zeros(PeerBuffer) \in [1..PeerBuffer -> Byte]
    BY SmallNumbers DEF Inv, TypeOK, Byte, Zeros
  <2>2. PICK buffer \in [1..PeerBuffer -> Byte], beyond \in Byte :
          /\ heap' = Filled(buffer, bytes)
          /\ received' = UnpackCollection(heap', beyond).nodes
    BY <1>3, <2>1, SmallNumbers DEF ReceiveFromPeer
  <2>3. PICK buf \in Seq(Byte) :
          /\ buf = Filled(buffer, bytes) /\ Len(buf) = PeerBuffer
          /\ \A k \in 1..PeerBuffer : buf[k] = IF k <= Len(bytes) THEN bytes[k] ELSE buffer[k]
    <3>1. PeerBuffer \in Nat
      BY Sizes
    <3>2. /\ Filled(buffer, bytes) \in Seq(Byte) /\ Len(Filled(buffer, bytes)) = PeerBuffer
          /\ \A k \in 1..PeerBuffer :
               Filled(buffer, bytes)[k] = IF k <= Len(bytes) THEN bytes[k] ELSE buffer[k]
      BY <3>1, FilledType
    <3> QED
      BY <3>2
  <2>4. ASSUME NEW k \in 1..size PROVE buf[k] = packed[k]
    <3>1. k \in 1..PeerBuffer /\ k <= Len(bytes) /\ k \in 1..Len(bytes)
      BY <1>4, Sizes
    <3> QED
      BY <1>3, <2>3, <3>1
  <2> QED
    BY <2>2, <2>3, <2>4
<1>6. ASSUME NEW i \in 1..((size - 5) \div 38), Normal(c.nodes[i].lat), Normal(c.nodes[i].lon)
      PROVE  received'[i] = c.nodes[i]
  <2>1. i \in Nat \ {0} /\ 5 + 38 * i <= size
    <3>1. PICK q \in Int : q = (size - 5) \div 38 /\ 38 * q <= size - 5
      OBVIOUS
    <3>2. i \in Nat \ {0} /\ i <= q
      BY <3>1
    <3> QED
      BY <3>1, <3>2
  <2>2. size <= Len(buf) /\ size <= Len(packed)
    BY <1>3, <1>4, <1>5
  <2>3. /\ WireCollection(c) /\ size <= Len(buf) /\ size <= Len(PackCollection(c))
        /\ \A k \in 1..size : buf[k] = PackCollection(c)[k]
    BY <1>1, <1>2, <1>5, <2>2
  <2>4. PICK j \in Nat \ {0} : /\ j = i /\ 5 + 38 * j <= size
                               /\ Normal(c.nodes[j].lat) /\ Normal(c.nodes[j].lon)
    BY <1>6, <2>1
  <2>5. UnpackCollection(buf, beyond).nodes[j] = c.nodes[j]
    BY <2>3, <2>4, CollectionUnpacked
  <2> QED
    BY <1>5, <2>4, <2>5
<1> QED
  BY <1>1, <1>4, <1>6 DEF AgreeUpTo, HeaderSize, NodeSize

(* Two processes understand each other: NodeCollection_unpack and dec754   *)
(* give back every node that arrived whole, whatever the buffer from       *)
(* malloc held before and wherever the datagram was cut.                   *)
THEOREM PeersUnderstoodHolds == Spec => PeersUnderstood
<1>1. Inv /\ [Next]_vars =>
        (Read("peer") =>
           LET size == Len(Cut(datagram.bytes, PeerBuffer))
           IN  AgreeUpTo((size - HeaderSize) \div NodeSize, content.nodes, received'))
  BY Readers, PeerUnderstood
<1> QED
  BY <1>1, InvHolds, PTL DEF Spec, PeersUnderstood

(* The step in which the user's program reads.                             *)
LEMMA UserUnderstood ==
  ASSUME Inv, UserReads, Len(datagram.bytes) <= UserBuffer
  PROVE  /\ Len(told') = Len(content.nodes)
         /\ AgreeUpTo(Len(told'), content.nodes, told')
         /\ Normal(asked.lat) => told'[1].lat = asked.lat
         /\ Normal(asked.lon) => told'[1].lon = asked.lon
<1>1. PICK c : /\ c = content /\ datagram.bytes = PackCollection(c)
               /\ WireCollection(c) /\ Len(c.nodes) >= 1
               /\ c.nodes[1].lat = place.lat /\ c.nodes[1].lon = place.lon
  BY DEF Inv, ToUser, UserReads
<1>2. PICK b \in Seq(Byte) : b = datagram.bytes /\ b = PackCollection(c)
  BY <1>1, CollectionPacked
<1>3. Len(b) = 5 + 38 * Len(c.nodes) /\ Len(c.nodes) \in Nat
  BY <1>1, <1>2, CollectionPacked DEF WireCollection
<1>4. Cut(datagram.bytes, UserBuffer) = b
  BY <1>1, <1>2, Sizes, CutType
<1>5. /\ Unpack16(b, 3) = Len(c.nodes)
      /\ Len(ReadNodes(b)) = Len(c.nodes)
      /\ \A i \in 1..Len(c.nodes) :
           /\ Normal(c.nodes[i].lat) => ReadNodes(b)[i].lat = c.nodes[i].lat
           /\ Normal(c.nodes[i].lon) => ReadNodes(b)[i].lon = c.nodes[i].lon
           /\ Normal(c.nodes[i].lat) /\ Normal(c.nodes[i].lon) => ReadNodes(b)[i] = c.nodes[i]
  BY <1>1, <1>2, NodesRead
<1>6. told' = ReadNodes(b)
  <2>1. told' = IF Len(b) < 5 + 38 * Unpack16(b, 3) THEN told ELSE ReadNodes(b)
    BY <1>4, UserReadsNodes
  <2>2. ~(Len(b) < 5 + 38 * Unpack16(b, 3))
    BY <1>3, <1>5
  <2> QED
    BY <2>1, <2>2
<1>7. AgreeUpTo(Len(told'), content.nodes, told')
  BY <1>1, <1>5, <1>6 DEF AgreeUpTo
<1>8. /\ Normal(asked.lat) => place.lat = asked.lat
      /\ Normal(asked.lon) => place.lon = asked.lon
  BY DEF Inv, PlaceAsAsked, UserReads
<1>9. 1 \in 1..Len(c.nodes)
  BY <1>1, <1>3
<1> QED
  BY <1>1, <1>5, <1>6, <1>7, <1>8, <1>9

(* The user's program reads what LocalIO_sendCandidateNodes published, and *)
(* the first node is at the place the user asked for: the layouts of       *)
(* serialize.c and of the Python program are the same, and enc754 packs    *)
(* what the struct module unpacks.                                         *)
THEOREM UserInformedHolds == Spec => UserInformed
<1>1. Inv /\ [Next]_vars =>
        (Read("user") /\ Len(datagram.bytes) <= UserBuffer =>
           /\ Len(told') = Len(content.nodes)
           /\ AgreeUpTo(Len(told'), content.nodes, told')
           /\ Normal(asked.lat) => told'[1].lat = asked.lat
           /\ Normal(asked.lon) => told'[1].lon = asked.lon)
  BY Readers, UserUnderstood
<1> QED
  BY <1>1, InvHolds, PTL DEF Spec, UserInformed
=============================================================================
