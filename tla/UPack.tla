------------------------------- MODULE UPack -------------------------------
(***************************************************************************)
(* The codec of src/upack/upack.c: unsigned integers as bytes, highest     *)
(* first, and floating point numbers as the bits of IEEE 754.              *)
(*                                                                         *)
(* The widths are parameters: the code has bytes of 8 bits and 11 bits of  *)
(* exponent.  A number of n bytes takes n * ByteBits bits, a double eight  *)
(* bytes.  Doubles are integers here, in units of the smallest one; the    *)
(* infinities are the first numbers too large to be represented.           *)
(***************************************************************************)
EXTENDS Integers, Sequences

CONSTANTS
  ByteBits,  \* bits of a byte
  ExpBits    \* bits of the exponent of a double

(* 1 << n.                                                                 *)
Pow2[n \in Nat] == IF n = 0 THEN 1 ELSE 2 * Pow2[n - 1]

SigBits == 8 * ByteBits - ExpBits - 1
Bias    == Pow2[ExpBits - 1] - 1

ASSUME WidthsAssumption == /\ ByteBits \in Nat \ {0}
                           /\ ExpBits \in Nat \ {0, 1}
                           /\ SigBits > 0

Base     == Pow2[ByteBits]
One      == Pow2[SigBits + Bias - 1]
Infinity == Pow2[SigBits + Pow2[ExpBits] - 2]

Abs(x) == IF x < 0 THEN -x ELSE x

(* The numbers that use the whole significand, and zero.                   *)
Normal(x) == x = 0 \/ (Pow2[SigBits] <= Abs(x) /\ Abs(x) < Infinity)
Finite(x) == Abs(x) < Infinity

(* The numbers that a double can hold: the infinities, and those with no   *)
(* digit but the SigBits + 1 highest and none below the smallest unit.     *)
Double == {x \in Int :
             \/ Abs(x) = Infinity
             \/ \E e \in 1..(Pow2[ExpBits] - 2) :
                  Abs(x) % Pow2[e - 1] = 0 /\ Abs(x) < Pow2[SigBits + e]}

-----------------------------------------------------------------------------
(* Integers.  What does not fit the bytes is cut off by the parameter type.*)

(* Mutant: the parts are not cut off to a byte.                            *)
BytesUncut(i, n) == [k \in 1..n |-> i \div Pow2[ByteBits * (n - k)]]

Bytes(i, n) == [k \in 1..n |-> (i \div Pow2[ByteBits * (n - k)]) % Base]

ValueOf(b) ==
  LET value[k \in 0..Len(b)] == IF k = 0 THEN 0 ELSE value[k - 1] * Base + b[k]
  IN  value[Len(b)]

(* The n bytes of a buffer at an offset.                                   *)
At(buf, offset, n) == SubSeq(buf, offset + 1, offset + n)

Pack8(i)  == Bytes(i, 1)
Pack16(i) == Bytes(i, 2)
Pack32(i) == Bytes(i, 4)
Pack64(i) == Bytes(i, 8)

Unpack8(buf, offset)  == ValueOf(At(buf, offset, 1))
Unpack16(buf, offset) == ValueOf(At(buf, offset, 2))
Unpack32(buf, offset) == ValueOf(At(buf, offset, 4))
Unpack64(buf, offset) == ValueOf(At(buf, offset, 8))

-----------------------------------------------------------------------------
(* Floating point                                                          *)

(* The two loops of enc754: a positive number is halved or doubled until   *)
(* it is at least one and less than two.                                   *)
Halved[x \in Nat \ {0}] ==
  IF x < 2 * One THEN [norm |-> x, shift |-> 0]
  ELSE [Halved[x \div 2] EXCEPT !.shift = @ + 1]

Doubled[x \in Nat \ {0}] ==
  IF x >= One THEN [norm |-> x, shift |-> 0]
  ELSE [Doubled[2 * x] EXCEPT !.shift = @ - 1]

Normalised(x) == IF x >= One THEN Halved[x] ELSE Doubled[x]

(* Mutant: the bias is one too large.                                      *)
Enc754Biased(x) ==
  IF x = 0 THEN 0
  ELSE LET n   == Normalised(Abs(x))
           exp == n.shift + Bias + 1
           top == IF x < 0 THEN 1 ELSE 0
       IN  (top * Pow2[ExpBits] + (exp % Pow2[ExpBits])) * Pow2[SigBits]
             + (n.norm - One) \div Pow2[Bias - 1]

(* enc754.  It does not return for an infinity.  Of a number below         *)
(* 2^-Bias the exponent is negative and the shift spreads its sign over    *)
(* the bits above the significand.                                         *)
Enc754(x) ==
  IF x = 0 THEN 0
  ELSE LET n           == Normalised(Abs(x))
           significand == (n.norm - One) \div Pow2[Bias - 1]
           exp         == (n.shift + Bias) % Pow2[ExpBits + 1]
           top         == IF x < 0 \/ exp >= Pow2[ExpBits] THEN 1 ELSE 0
       IN  (top * Pow2[ExpBits] + (exp % Pow2[ExpBits])) * Pow2[SigBits] + significand

(* Mutant: the one is added only where the exponent is not zero, and the   *)
(* bias is one too small.                                                  *)
Dec754Unbiased(i) ==
  LET exp  == (i \div Pow2[SigBits]) % Pow2[ExpBits]
      size == IF exp = 0 THEN i % Pow2[SigBits]
              ELSE (Pow2[SigBits] + (i % Pow2[SigBits])) * Pow2[exp]
  IN  IF i >= Pow2[ExpBits + SigBits] THEN -size ELSE size

(* dec754.  A one is added to every significand, also where the exponent   *)
(* is zero; the highest exponent overflows to an infinity.                 *)
Dec754(i) ==
  LET exp    == (i \div Pow2[SigBits]) % Pow2[ExpBits]
      result == Pow2[SigBits] + (i % Pow2[SigBits])
      half   == result \div 2
      size   == CASE exp = 0 -> IF result % 2 = 1 /\ half % 2 = 1 THEN half + 1 ELSE half
                  [] exp = Pow2[ExpBits] - 1 -> Infinity
                  [] OTHER -> result * Pow2[exp - 1]
  IN  IF i = 0 THEN 0
      ELSE IF i >= Pow2[ExpBits + SigBits] THEN -size ELSE size

PackDouble(x)             == Pack64(Enc754(x))
UnpackDouble(buf, offset) == Dec754(Unpack64(buf, offset))

-----------------------------------------------------------------------------
(* IEEE 754 itself, as the struct module of Python packs and unpacks it.   *)
(* Neither -0 nor a NaN occurs.                                            *)
IEEEBits(x) ==
  LET size == Abs(x)
      exp  == CHOOSE e \in 1..(Pow2[ExpBits] - 1) :
                Pow2[SigBits + e - 1] <= size /\ size < Pow2[SigBits + e]
      bits == IF size < Pow2[SigBits] THEN size
              ELSE exp * Pow2[SigBits] + size \div Pow2[exp - 1] - Pow2[SigBits]
  IN  IF x < 0 THEN Pow2[ExpBits + SigBits] + bits ELSE bits

IEEEValue(i) ==
  LET exp      == (i \div Pow2[SigBits]) % Pow2[ExpBits]
      fraction == i % Pow2[SigBits]
      size     == IF exp = 0 THEN fraction ELSE (Pow2[SigBits] + fraction) * Pow2[exp - 1]
  IN  IF i >= Pow2[ExpBits + SigBits] THEN -size ELSE size
=============================================================================
