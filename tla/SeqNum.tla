------------------------------- MODULE SeqNum -------------------------------
(***************************************************************************)
(* TCP sequence numbers as tun2http keeps them: uint32_t values, compared  *)
(* by compare_u32 (util.c).  The width is a parameter so that TLC can walk *)
(* round the whole circle: 2 * Half stands for 2^32.                       *)
(*                                                                         *)
(* compare_u32 subtracts two ints, and the subtraction overflows when the  *)
(* operands are half a circle apart or more.  That is undefined, and each  *)
(* build settles it in its own way, so what the two comparisons yield on   *)
(* overflow are constants: FALSE and TRUE for (OverflowMore, OverflowLess) *)
(* is what a subtract instruction that wraps gives.                        *)
(***************************************************************************)
EXTENDS Integers

CONSTANTS
  Half,           \* 2^31 in the code
  OverflowLess,   \* value of  i2 - i1 < 0x7FFFFFFF  when i2 - i1 overflows
  OverflowMore    \* value of  i1 - i2 > 0x7FFFFFFF  when i1 - i2 overflows

ASSUME HalfAssumption == Half \in Nat /\ Half > 1
ASSUME OverflowAssumption == OverflowLess \in BOOLEAN /\ OverflowMore \in BOOLEAN

Modulus == 2 * Half
U32 == 0 .. Modulus - 1

(* Mutant: the sum does not wrap. *)
Add_unbounded(s, n) == s + n

(* uint32_t addition and subtraction: both operands are in U32. *)
Add(s, n) == IF s + n < Modulus THEN s + n ELSE s + n - Modulus
Sub(s, n) == IF s >= n THEN s - n ELSE s - n + Modulus

(* The conversion of a uint32_t to int. *)
Signed(s) == IF s < Half THEN s ELSE s - Modulus

MaxInt == Half - 1

(* i2 - i1 < 0x7FFFFFFF and i1 - i2 > 0x7FFFFFFF in int arithmetic, where  *)
(* d is the mathematical difference: an int difference never exceeds       *)
(* 0x7FFFFFFF.                                                             *)
LessThanMax(d) == IF d > MaxInt THEN OverflowLess ELSE d < MaxInt
MoreThanMax(d) == d > MaxInt /\ OverflowMore

(* Mutant: the numbers are compared as they are. *)
compare_u32_unsigned(s1, s2) == IF s1 = s2 THEN 0 ELSE IF s1 < s2 THEN -1 ELSE 1

compare_u32(s1, s2) ==
  LET i1 == Signed(s1)
      i2 == Signed(s2)
  IN  IF s1 = s2 THEN 0
      ELSE IF \/ i1 < i2 /\ LessThanMax(i2 - i1)
              \/ i1 > i2 /\ MoreThanMax(i1 - i2)
           THEN -1 ELSE 1

-----------------------------------------------------------------------------
(* RFC 1982, section 3.2, which the comment in compare_u32 names: s1 < s2  *)
(* when going up from s1 one meets s2 within less than half a circle.      *)
(* Numbers exactly half a circle apart have no order.                      *)
SerialLess(s1, s2) == s1 # s2 /\ Sub(s2, s1) < Half
SerialCompare(s1, s2) ==
  IF s1 = s2 THEN 0 ELSE IF SerialLess(s1, s2) THEN -1 ELSE 1

(* The two ints are closer than 0x7FFFFFFF.                                *)
Close(s1, s2) ==
  LET d == Signed(s1) - Signed(s2) IN -MaxInt < d /\ d < MaxInt

(* Close numbers compare as RFC 1982 says, across zero as well: sequence   *)
(* numbers wrap from 0xFFFFFFFF to 0 unnoticed.                            *)
CompareIsSerial(s1, s2) ==
  Close(s1, s2) => compare_u32(s1, s2) = SerialCompare(s1, s2)
=============================================================================
