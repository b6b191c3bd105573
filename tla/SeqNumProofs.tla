---------------------------- MODULE SeqNumProofs ----------------------------
(***************************************************************************)
(* Facts about sequence numbers, for every width of the circle and every   *)
(* way a build settles the overflow in compare_u32.                        *)
(***************************************************************************)
EXTENDS SeqNum, SetInduction, TLAPS

(* uint32_t arithmetic stays in uint32_t. *)
LEMMA AddInRange == \A s, n \in U32 : Add(s, n) \in U32
  BY HalfAssumption DEF U32, Modulus, Add

LEMMA SubInRange == \A s, n \in U32 : Sub(s, n) \in U32
  BY HalfAssumption DEF U32, Modulus, Sub

(* Subtraction measures how far an addition has moved. *)
LEMMA SubOfAdd == \A s, n \in U32 : Sub(Add(s, n), s) = n
  BY HalfAssumption DEF U32, Modulus, Add, Sub

LEMMA AddOfSub == \A s, n \in U32 : Add(s, Sub(n, s)) = n
  BY HalfAssumption DEF U32, Modulus, Add, Sub

(* The order of two additions is of no account. *)
LEMMA AddAssociative ==
  \A s, m, n \in U32 : Add(Add(s, m), n) = Add(s, Add(m, n))
  BY HalfAssumption DEF U32, Modulus, Add

(* Positions are counted from an origin a, as offsets in a stream are:     *)
(* what an addition does to a position, ...                                *)
LEMMA SubOfSum ==
  \A a, s, n \in U32 :
    Sub(Add(s, n), a) = IF Sub(s, a) + n < Modulus
                        THEN Sub(s, a) + n ELSE Sub(s, a) + n - Modulus
  BY HalfAssumption DEF U32, Modulus, Add, Sub

(* ... and how far apart two positions are.                                *)
LEMMA SubOfSubs ==
  \A a, s, n \in U32 :
    Sub(n, s) = IF Sub(n, a) >= Sub(s, a)
                THEN Sub(n, a) - Sub(s, a) ELSE Sub(n, a) - Sub(s, a) + Modulus
  BY HalfAssumption DEF U32, Modulus, Sub

(* A position belongs to one number.                                       *)
LEMMA SubInjective ==
  \A a, s, n \in U32 : Sub(s, a) = Sub(n, a) => s = n
  BY HalfAssumption DEF U32, Modulus, Sub

(* compare_u32 of two numbers less than 0x7FFFFFFF apart as ints is their  *)
(* RFC 1982 order, whatever an overflow would give: the numbers may lie on *)
(* both sides of zero.                                                     *)
THEOREM CompareCloseIsSerial == \A s1, s2 \in U32 : CompareIsSerial(s1, s2)
<1> SUFFICES ASSUME NEW s1 \in U32, NEW s2 \in U32, Close(s1, s2)
             PROVE  compare_u32(s1, s2) = SerialCompare(s1, s2)
    BY DEF CompareIsSerial
<1>1. CASE s1 = s2
    BY <1>1 DEF compare_u32, SerialCompare
<1>2. CASE Signed(s1) < Signed(s2)
  <2>1. LessThanMax(Signed(s2) - Signed(s1))
      BY <1>2, HalfAssumption DEF LessThanMax, Close, Signed, MaxInt, U32, Modulus
  <2>2. SerialLess(s1, s2)
      BY <1>2, HalfAssumption DEF SerialLess, Sub, Close, Signed, MaxInt, U32, Modulus
  <2> QED BY <1>2, <2>1, <2>2, HalfAssumption
          DEF compare_u32, SerialCompare, SerialLess
<1>3. CASE Signed(s1) > Signed(s2)
  <2>1. ~MoreThanMax(Signed(s1) - Signed(s2))
      BY <1>3, HalfAssumption DEF MoreThanMax, Close, Signed, MaxInt, U32, Modulus
  <2>2. ~SerialLess(s1, s2) /\ s1 # s2
      BY <1>3, HalfAssumption DEF SerialLess, Sub, Close, Signed, MaxInt, U32, Modulus
  <2>3. ~(Signed(s1) < Signed(s2))
      BY <1>3, HalfAssumption DEF Signed, U32, Modulus
  <2> QED BY <2>1, <2>2, <2>3 DEF compare_u32, SerialCompare
<1> QED BY <1>1, <1>2, <1>3, HalfAssumption DEF Signed, U32, Modulus

=============================================================================
