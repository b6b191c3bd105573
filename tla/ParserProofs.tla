---------------------------- MODULE ParserProofs ----------------------------
(***************************************************************************)
(* The pure functions of tun2http for all inputs and not only those that   *)
(* grow in MCParsers: what holds of an operator is a lemma for every       *)
(* argument, from which the property of the run follows.                   *)
(***************************************************************************)
EXTENDS MCParsers, SeqNumProofs, SequenceTheorems

(* Every input of MCParsers for comparisons is a pair of numbers. *)
NumberInput == kind = "number" => input \in [1 .. 2 -> U32]

(* compare_u32 agrees with RFC 1982 for close numbers on any circle, and   *)
(* whatever the build makes of the overflow.                               *)
THEOREM CompareCorrect == Spec => []CompareCloseNumbers
<1>1. Init => NumberInput
  BY HalfAssumption DEF Init, NumberInput, U32, Modulus, EmptyMessage
<1>2. NumberInput /\ [Next]_<<kind, input>> => NumberInput'
  <2> SUFFICES ASSUME NumberInput, [Next]_<<kind, input>>, kind' = "number"
               PROVE  input' \in [1 .. 2 -> U32]
    BY DEF NumberInput
  <2>1. kind = "number"
    BY DEF Next
  <2>2. input \in [1 .. 2 -> U32]
    BY <2>1 DEF NumberInput
  <2>3. CASE Count
    <3>1. PICK i \in {1, 2} : input' = [input EXCEPT ![i] = Add(@, 1)]
      BY <2>3 DEF Count
    <3>2. 1 \in U32 /\ input[i] \in U32
      BY <2>2, HalfAssumption DEF U32, Modulus
    <3>3. Add(input[i], 1) \in U32
      BY <3>2, AddInRange
    <3> QED BY <2>2, <3>1, <3>3
  <2>4. CASE input' = input
    BY <2>2, <2>4
  <2> QED BY <2>1, <2>3, <2>4
          DEF Next, AddByte, AddToken, SetSession, AddExtension, AddName
<1>3. NumberInput => CompareCloseNumbers
  BY CompareCloseIsSerial DEF NumberInput, CompareCloseNumbers
<1> QED BY <1>1, <1>2, <1>3, PTL DEF Spec

-----------------------------------------------------------------------------
(* Packets of any size, with any header and extension headers. *)

IsPacket(p) ==
  /\ p.version \in {4, 6} /\ p.ihl \in Nat /\ (p.version = 4 => p.ihl >= 5)
  /\ p.offset \in Nat /\ p.size \in Nat /\ p.total \in Nat
  /\ p.next \in Seq(Nat) /\ p.next # << >>

(* handle_ip finds the transport header of a whole packet without          *)
(* extension headers, however long its options are.                        *)
LEMMA TransportFound ==
  ASSUME NEW p, IsPacket(p), IsWhole(p), Len(p.next) = 1
  PROVE  (IF p.version = 4 THEN Transport4(p) ELSE Transport6(p))
           = [to |-> ProtocolOf(p), at |-> TransportOf(p)]
<1>1. /\ p.next \in Seq(Nat) /\ p.size \in Nat /\ p.ihl \in Nat
      /\ p.total = p.size /\ p.offset = 0 /\ p.size >= TransportOf(p)
  BY DEF IsPacket, IsWhole
<1>2. ProtocolOf(p) = p.next[1]
  BY DEF ProtocolOf, Last
<1>3. CASE p.version = 4
  <2>1. TransportOf(p) = p.ihl * 4 /\ p.ihl * 4 = 20 + (p.ihl - 5) * 4 /\ ~(p.size < 20)
    BY <1>1, <1>3 DEF TransportOf, IsPacket
  <2>2. ~LooksFragmented(p)
    BY <1>1 DEF LooksFragmented
  <2> QED BY <1>1, <1>2, <1>3, <2>1, <2>2 DEF Transport4
<1>4. CASE p.version = 6
  <2>1. TransportOf(p) = 40 /\ ~(p.size < 40)
    BY <1>1, <1>4 DEF TransportOf
  <2>2. Len(Tail(p.next)) = 0 /\ Tail(p.next) \in Seq(Nat)
    <3>1. p.next # << >>
      BY DEF IsPacket
    <3> QED BY <1>1, <3>1, HeadTailProperties
  <2>3. SelectInSeq(Tail(p.next), LAMBDA n : ~is_lower_layer(n)) = 0
    BY <2>2 DEF SelectInSeq
  <2> QED BY <1>2, <1>4, <2>1, <2>3 DEF Transport6
<1> QED BY <1>3, <1>4 DEF IsPacket

LEMMA WholeDelivered ==
  ASSUME NEW p, IsPacket(p)
  PROVE  WholeIsDelivered(p)
<1> SUFFICES ASSUME IsWhole(p), Len(p.next) = 1
             PROVE  handle_ip(p) =
               IF /\ is_upper_layer(ProtocolOf(p))
                  /\ p.size >= TransportOf(p) + HeaderSize(ProtocolOf(p))
               THEN [to |-> ProtocolOf(p), at |-> TransportOf(p)] ELSE Dropped
  BY DEF WholeIsDelivered
<1> DEFINE found == [to |-> ProtocolOf(p), at |-> TransportOf(p)]
<1>1. handle_ip(p) = IF is_upper_layer(found.to) /\ ~TooShort(p, found) THEN found ELSE Dropped
  BY TransportFound DEF handle_ip
<1>2. p.size \in Nat /\ TransportOf(p) \in Nat /\ p.size >= TransportOf(p)
  BY DEF IsPacket, IsWhole, TransportOf
<1>3. is_upper_layer(ProtocolOf(p)) => HeaderSize(ProtocolOf(p)) \in Nat
  BY DEF is_upper_layer, HeaderSize, TCP, UDP, ICMP, ICMPV6
<1>4. is_upper_layer(ProtocolOf(p)) =>
        (TooShort(p, found) <=> p.size < TransportOf(p) + HeaderSize(ProtocolOf(p)))
  BY <1>2, <1>3 DEF TooShort
<1> QED BY <1>1, <1>2, <1>3, <1>4

(* Whole packets reach the handler of their protocol with the transport    *)
(* header as payload, and those too short for it none: of handle_ip, for   *)
(* every size, length of options, and protocol number.                     *)
THEOREM DeliveryCorrect == Spec => []PacketIsDelivered
<1> DEFINE PacketInput == kind = "packet" => IsPacket(input)
<1>1. Init => PacketInput
  <2> SUFFICES ASSUME NEW p \in Packets PROVE IsPacket(p)
    BY DEF Init
  <2>1. CASE p \in Packets4
    <3>1. PICK n \in {ICMP, TCP, UDP, 2} : p.next = <<n>>
      BY <2>1 DEF Packets4
    <3>2. n \in Nat
      BY DEF ICMP, TCP, UDP
    <3>3. p.next \in Seq(Nat) /\ p.next # << >>
      BY <3>1, <3>2
    <3>4. /\ p.version = 4 /\ p.ihl \in 5 .. 7 /\ p.offset \in {0, 8, 32}
          /\ p.size \in {19, 27, 40, 44, 48} /\ p.total \in {40, 44, 48}
      BY <2>1 DEF Packets4
    <3> QED BY <3>3, <3>4 DEF IsPacket
  <2>2. CASE p \in Packets6
    <3>1. \/ \E n \in {ICMPV6, TCP, UDP, 59} : p.next = <<n>>
          \/ \E m \in {0, 60}, n \in {TCP, UDP, 59, 60} : p.next = <<m, n>>
          \/ \E n \in {ICMPV6, UDP} : p.next = <<0, 60, n>>
      BY <2>2 DEF Packets6
    <3>2. \A k, m, n \in Nat :
            /\ <<n>> \in Seq(Nat) /\ <<n>> # << >>
            /\ <<m, n>> \in Seq(Nat) /\ <<m, n>> # << >>
            /\ <<k, m, n>> \in Seq(Nat) /\ <<k, m, n>> # << >>
      OBVIOUS
    <3>3. p.next \in Seq(Nat) /\ p.next # << >>
      <4>1. /\ 0 \in Nat /\ 60 \in Nat /\ 59 \in Nat /\ ICMPV6 \in Nat /\ TCP \in Nat /\ UDP \in Nat
        BY DEF ICMPV6, TCP, UDP
      <4>2. CASE \E n \in {ICMPV6, TCP, UDP, 59} : p.next = <<n>>
        BY <3>2, <4>1, <4>2
      <4>3. CASE \E m \in {0, 60}, n \in {TCP, UDP, 59, 60} : p.next = <<m, n>>
        BY <3>2, <4>1, <4>3
      <4>4. CASE \E n \in {ICMPV6, UDP} : p.next = <<0, 60, n>>
        BY <3>2, <4>1, <4>4
      <4> QED BY <3>1, <4>2, <4>3, <4>4
    <3>4. /\ p.version = 6 /\ p.ihl = 0 /\ p.offset = 0
          /\ p.size \in {39, 48, 60, 84} /\ p.total \in {48, 60, 84}
      BY <2>2 DEF Packets6
    <3> QED BY <3>3, <3>4 DEF IsPacket
  <2> QED BY <2>1, <2>2 DEF Packets
<1>2. PacketInput /\ [Next]_<<kind, input>> => PacketInput'
  BY DEF Next, Count, AddByte, AddToken, SetSession, AddExtension, AddName
<1>3. PacketInput => PacketIsDelivered
  BY WholeDelivered DEF PacketIsDelivered
<1> QED BY <1>1, <1>2, <1>3, PTL DEF Spec


-----------------------------------------------------------------------------
(* The Internet checksum of buffers of any length, and bytes of any size.  *)

M == Word - 1

LEMMA WordFacts == Base \in Nat /\ Base > 1 /\ Word \in Nat /\ Word = M + 1 /\ M \in Nat /\ M > 2
<1>1. Base * Base > 3
  BY BaseAssumption
<1> QED BY <1>1, BaseAssumption DEF Word, M

(* A remainder is known by what it is.                                     *)
LEMMA Division ==
  ASSUME NEW d \in Nat \ {0}, NEW q \in Int, NEW r \in 0 .. d - 1
  PROVE  (d * q + r) % d = r /\ (d * q + r) \div d = q
<1> DEFINE n == d * q + r
           q1 == n \div d
           r1 == n % d
<1>1. q1 \in Int /\ r1 \in 0 .. d - 1 /\ n = d * q1 + r1
  OBVIOUS
<1>2. n = d * q + r /\ n \in Int
  OBVIOUS
<1> HIDE DEF n, q1, r1
<1>3. d * (q1 - q) = r - r1
  <2>1. d * (q1 - q) = d * q1 - d * q
    BY <1>1
  <2> QED BY <1>1, <1>2, <2>1
<1>4. ~(q1 - q >= 1)
  <2> SUFFICES ASSUME q1 - q >= 1 PROVE FALSE
    OBVIOUS
  <2>1. d * (q1 - q) >= d
    BY <1>1
  <2> QED BY <1>1, <1>3, <2>1
<1>5. ~(q1 - q <= -1)
  <2> SUFFICES ASSUME q1 - q <= -1 PROVE FALSE
    OBVIOUS
  <2>1. d * (q1 - q) <= -d
    BY <1>1
  <2> QED BY <1>1, <1>3, <2>1
<1>6. q1 = q
  BY <1>1, <1>4, <1>5
<1> QED BY <1>1, <1>2, <1>6 DEF n, q1, r1

(* What is left of a sum when its carries are added to it: the remainder   *)
(* modulo all ones, which is zero for zero alone.                          *)
EndAround(s) == IF s = 0 THEN 0 ELSE 1 + ((s - 1) % M)

LEMMA EndAroundIs ==
  ASSUME NEW s \in Nat
  PROVE  /\ EndAround(s) \in 0 .. M
         /\ EndAround(s) = 0 <=> s = 0
         /\ \E q \in Nat : s = M * q + EndAround(s)
<1>1. CASE s = 0
  <2>1. M * 0 + 0 = 0 /\ 0 \in Nat
    BY WordFacts
  <2> QED BY <1>1, <2>1, WordFacts DEF EndAround
<1>2. CASE s # 0
  <2> DEFINE q == (s - 1) \div M
             r == (s - 1) % M
  <2>1. q \in Int /\ r \in 0 .. M - 1 /\ s - 1 = M * q + r
    BY WordFacts
  <2>2. EndAround(s) = 1 + r
    BY <1>2 DEF EndAround
  <2> HIDE DEF q, r
  <2>3. q >= 0
    <3> SUFFICES ASSUME q <= -1 PROVE FALSE
      BY <2>1
    <3>1. M * q <= -M
      BY <2>1, WordFacts
    <3> QED BY <1>2, <2>1, <3>1, WordFacts
  <2>4. s = M * q + (1 + r) /\ 1 + r \in 0 .. M /\ 1 + r # 0
    BY <2>1, WordFacts
  <2> QED BY <1>2, <2>1, <2>2, <2>3, <2>4
<1> QED BY <1>1, <1>2

LEMMA EndAroundOf ==
  ASSUME NEW q \in Nat, NEW r \in 1 .. M PROVE EndAround(M * q + r) = r
<1>1. M * q \in Nat /\ M * q + r # 0 /\ (M * q + r) - 1 = M * q + (r - 1) /\ r - 1 \in 0 .. M - 1
  BY WordFacts
<1>2. (M * q + (r - 1)) % M = r - 1
  BY <1>1, WordFacts, Division
<1> QED BY <1>1, <1>2 DEF EndAround

(* One round of the loop that folds. *)
LEMMA EndAroundFolds ==
  ASSUME NEW s \in Nat
  PROVE  IF s < Word THEN EndAround(s) = s
         ELSE /\ (s % Word) + (s \div Word) \in 0 .. s - 1
              /\ EndAround(s) = EndAround((s % Word) + (s \div Word))
<1>1. CASE s < Word
  <2>1. CASE s = 0
    BY <2>1, WordFacts DEF EndAround
  <2>2. CASE s # 0
    <3>1. s \in 1 .. M /\ M * 0 + s = s
      BY <1>1, <2>2, WordFacts
    <3> QED BY <1>1, <3>1, EndAroundOf
  <2> QED BY <2>1, <2>2
<1>2. CASE ~(s < Word)
  <2> DEFINE q == s \div Word
             r == s % Word
             t == r + q
  <2>1. q \in Int /\ r \in 0 .. Word - 1 /\ s = Word * q + r
    <3>1. Word \in Nat \ {0} /\ s \in Int
      BY WordFacts
    <3> HIDE DEF q, r
    <3>2. \A d \in Nat \ {0}, n \in Int :
            n \div d \in Int /\ n % d \in 0 .. d - 1 /\ n = d * (n \div d) + (n % d)
      OBVIOUS
    <3> QED BY <3>1, <3>2 DEF q, r
  <2> HIDE DEF q, r
  <2>2. q >= 1
    <3> SUFFICES ASSUME q <= 0 PROVE FALSE
      BY <2>1
    <3>1. Word * q <= 0
      BY <2>1, WordFacts
    <3> QED BY <1>2, <2>1, <3>1, WordFacts
  <2>3. Word * q = M * q + q /\ M * q >= 3
    <3>1. Word * q = (M + 1) * q /\ (M + 1) * q = M * q + q
      BY <2>1, WordFacts
    <3>2. M * q >= M
      BY <2>1, <2>2, WordFacts
    <3> QED BY <3>1, <3>2, <2>1, WordFacts
  <2>4. t \in 1 .. s - 1 /\ s = M * q + t
    BY <2>1, <2>2, <2>3, WordFacts
  <2> HIDE DEF t
  <2>5. PICK p \in Nat : t = M * p + EndAround(t)
    BY <2>4, EndAroundIs
  <2>6. EndAround(t) \in 1 .. M
    BY <2>4, EndAroundIs, WordFacts
  <2>7. s = M * (q + p) + EndAround(t) /\ q + p \in Nat
    <3>1. M * (q + p) = M * q + M * p
      BY <2>1, <2>5, WordFacts
    <3>2. M * q \in Int /\ M * p \in Int
      BY <2>1, <2>5, WordFacts
    <3> QED BY <2>1, <2>2, <2>4, <2>5, <2>6, <3>1, <3>2
  <2>8. EndAround(s) = EndAround(t)
    BY <2>6, <2>7, EndAroundOf
  <2>9. s % Word = r /\ s \div Word = q
    BY DEF q, r
  <2> QED BY <1>2, <2>4, <2>8, <2>9 DEF t
<1> QED BY <1>1, <1>2

(* The loop that folds gives just that. *)
LEMMA FoldedIs == \A s \in Nat : Folded[s] = EndAround(s)
<1> DEFINE Round(f, s) == IF s < Word THEN s ELSE f[(s % Word) + (s \div Word)]
<1>1. \E f : f = [s \in Nat |-> Round(f, s)]
  <2> DEFINE f == [s \in Nat |-> EndAround(s)]
  <2>1. ASSUME NEW s \in Nat PROVE f[s] = Round(f, s)
    <3>1. CASE s < Word
      BY <3>1, EndAroundFolds
    <3>2. CASE ~(s < Word)
      <4>1. (s % Word) + (s \div Word) \in Nat
        BY <3>2, EndAroundFolds
      <4> QED BY <3>2, <4>1, EndAroundFolds
    <3> QED BY <3>1, <3>2
  <2>2. f = [s \in Nat |-> f[s]]
    OBVIOUS
  <2> HIDE DEF f, Round
  <2>3. f = [s \in Nat |-> Round(f, s)]
    BY <2>1, <2>2
  <2> QED BY <2>3
<1>2. Folded = [s \in Nat |-> Round(Folded, s)]
  <2>1. Folded = CHOOSE f : f = [s \in Nat |-> Round(f, s)]
    BY DEF Folded
  <2> HIDE DEF Round
  <2> QED BY <1>1, <2>1
<1>3. \A s \in Nat : Folded[s] = Round(Folded, s)
  <2> HIDE DEF Round
  <2> QED BY <1>2
<1> DEFINE Same == {n \in Nat : \A s \in 0 .. n : Folded[s] = EndAround(s)}
<1>4. Nat \subseteq Same
  <2>1. 0 \in Same
    <3>1. \A s \in 0 .. 0 : s \in Nat /\ s < Word
      BY WordFacts
    <3> QED BY <1>3, <3>1, EndAroundFolds
  <2>2. ASSUME NEW n \in Nat, n \in Same PROVE n + 1 \in Same
    <3> SUFFICES Folded[n + 1] = EndAround(n + 1)
      <4>1. \A s \in 0 .. n + 1 : s \in 0 .. n \/ s = n + 1
        OBVIOUS
      <4> QED BY <2>2, <4>1
    <3>1. CASE n + 1 < Word
      BY <1>3, <3>1, EndAroundFolds
    <3>2. CASE ~(n + 1 < Word)
      <4> DEFINE t == ((n + 1) % Word) + ((n + 1) \div Word)
      <4>1. t \in 0 .. n /\ EndAround(n + 1) = EndAround(t)
        BY <3>2, EndAroundFolds
      <4>2. Folded[n + 1] = Folded[t]
        BY <1>3, <3>2
      <4>3. Folded[t] = EndAround(t)
        BY <2>2, <4>1
      <4> QED BY <4>1, <4>2, <4>3
    <3> QED BY <3>1, <3>2
  <2> HIDE DEF Same
  <2> QED BY <2>1, <2>2, NatInSet
<1> QED BY <1>4


-----------------------------------------------------------------------------
(* Sums of words. *)

Bytes == 0 .. Base - 1

LEMMA WordsOf ==
  ASSUME NEW b \in Seq(Bytes)
  PROVE  /\ Words(b) \in Nat /\ Len(b) \in Nat
         /\ Len(b) <= 2 * Words(b) /\ 2 * Words(b) <= Len(b) + 1
         /\ \A n \in 1 .. Words(b) : WordAt(b, n) \in Nat
<1>1. Len(b) \in Nat /\ \A i \in 1 .. Len(b) : b[i] \in Bytes
  OBVIOUS
<1>2. /\ Words(b) \in Nat /\ Len(b) <= 2 * Words(b) /\ 2 * Words(b) <= Len(b) + 1
  BY <1>1 DEF Words
<1>3. ASSUME NEW n \in 1 .. Words(b) PROVE WordAt(b, n) \in Nat
  <2>1. 2 * n - 1 \in 1 .. Len(b)
    BY <1>1, <1>2
  <2>2. b[2 * n - 1] \in Nat
    BY <1>1, <2>1, WordFacts DEF Bytes
  <2>3. CASE 2 * n <= Len(b)
    <3>1. 2 * n \in 1 .. Len(b)
      BY <2>1, <2>3
    <3>2. b[2 * n] \in Nat
      BY <1>1, <3>1, WordFacts DEF Bytes
    <3>3. Base * b[2 * n] \in Nat
      BY <3>2, WordFacts
    <3> QED BY <2>2, <2>3, <3>3 DEF WordAt
  <2>4. CASE ~(2 * n <= Len(b))
    BY <2>2, <2>4 DEF WordAt
  <2> QED BY <2>3, <2>4
<1> QED BY <1>1, <1>2, <1>3

(* The loop over the words. *)
LEMMA SumsAre ==
  ASSUME NEW start \in Nat, NEW b \in Seq(Bytes)
  PROVE  /\ Sums(start, b)[0] = start
         /\ \A n \in 1 .. Words(b) : Sums(start, b)[n] = Sums(start, b)[n - 1] + WordAt(b, n)
         /\ \A n \in 0 .. Words(b) : Sums(start, b)[n] \in Nat
<1> DEFINE Step(f, n) == IF n = 0 THEN start ELSE f[n - 1] + WordAt(b, n)
           Defined == {k \in Nat : \E f : f = [n \in 0 .. k |-> Step(f, n)]}
<1>1. Nat \subseteq Defined
  <2>1. 0 \in Defined
    <3> DEFINE f == [n \in 0 .. 0 |-> start]
    <3>1. f = [n \in 0 .. 0 |-> Step(f, n)]
      OBVIOUS
    <3> QED BY <3>1
  <2>2. ASSUME NEW k \in Nat, k \in Defined PROVE k + 1 \in Defined
    <3>1. PICK f : f = [n \in 0 .. k |-> Step(f, n)]
      BY <2>2
    <3> DEFINE g == [n \in 0 .. k + 1 |-> IF n <= k THEN f[n] ELSE Step(f, n)]
    <3>2. ASSUME NEW n \in 0 .. k + 1 PROVE g[n] = Step(g, n)
      <4>1. \A m \in 0 .. k : g[m] = f[m] /\ f[m] = Step(f, m)
        <5> HIDE DEF Step
        <5>1. \A m \in 0 .. k : m \in 0 .. k + 1 /\ m <= k
          OBVIOUS
        <5> QED BY <3>1, <5>1
      <4>2. n # 0 => n - 1 \in 0 .. k
        OBVIOUS
      <4>3. g[n] = Step(f, n)
        <5> HIDE DEF Step
        <5>1. g[n] = IF n <= k THEN f[n] ELSE Step(f, n)
          OBVIOUS
        <5>2. n <= k => n \in 0 .. k
          OBVIOUS
        <5> HIDE DEF g
        <5> QED BY <4>1, <5>1, <5>2
      <4>4. n # 0 => g[n - 1] = f[n - 1]
        BY <4>1, <4>2
      <4> HIDE DEF g
      <4> QED BY <4>3, <4>4
    <3>3. g = [n \in 0 .. k + 1 |-> Step(g, n)]
      <4>1. g = [n \in 0 .. k + 1 |-> g[n]]
        OBVIOUS
      <4> HIDE DEF g, Step
      <4> QED BY <3>2, <4>1
    <3> HIDE DEF g, Step
    <3> QED BY <3>3
  <2> HIDE DEF Defined
  <2> QED BY <2>1, <2>2, NatInSet
<1> DEFINE sum == CHOOSE f : f = [n \in 0 .. Words(b) |-> Step(f, n)]
<1>2. Words(b) \in Nat /\ \A n \in 1 .. Words(b) : WordAt(b, n) \in Nat
  BY WordsOf
<1>3. sum = [n \in 0 .. Words(b) |-> Step(sum, n)]
  <2> HIDE DEF Step
  <2> QED BY <1>1, <1>2
<1>4. Sums(start, b) = sum
  BY DEF Sums
<1> HIDE DEF sum, Defined
<1>5. \A n \in 0 .. Words(b) : sum[n] = Step(sum, n)
  <2> HIDE DEF Step
  <2> QED BY <1>3
<1>6. sum[0] = start
  BY <1>2, <1>5
<1>7. \A n \in 1 .. Words(b) : sum[n] = sum[n - 1] + WordAt(b, n)
  BY <1>2, <1>5
<1> DEFINE Natural == {n \in Nat : n <= Words(b) => sum[n] \in Nat}
<1>8. Nat \subseteq Natural
  <2>1. 0 \in Natural
    BY <1>6
  <2>2. ASSUME NEW n \in Nat, n \in Natural PROVE n + 1 \in Natural
    <3> SUFFICES ASSUME n + 1 <= Words(b) PROVE sum[n + 1] \in Nat
      OBVIOUS
    <3>1. n + 1 \in 1 .. Words(b) /\ (n + 1) - 1 = n /\ n <= Words(b)
      BY <1>2
    <3>2. sum[n + 1] = sum[n] + WordAt(b, n + 1)
      BY <1>7, <3>1
    <3> QED BY <1>2, <2>2, <3>1, <3>2
  <2> HIDE DEF Natural
  <2> QED BY <2>1, <2>2, NatInSet
<1>9. \A n \in 0 .. Words(b) : sum[n] \in Nat
  BY <1>2, <1>8
<1> QED BY <1>4, <1>6, <1>7, <1>9

(* The words of x are those of y from the m-th on, where the i-th is w     *)
(* more, and so they sum up to w more.                                     *)
Extra(n, i, w) == IF n = i THEN w ELSE 0
ExtraBy(n, i, w) == IF n >= i THEN w ELSE 0
SameWords(x, y, m, i, w) ==
  \A n \in 1 .. Words(x) : WordAt(y, m + n) = WordAt(x, n) + Extra(n, i, w)
SameSums(s, x, r, y, m, i, w) ==
  \A n \in 0 .. Words(x) :
    Sums(r, y)[m + n] = Sums(r, y)[m] + (Sums(s, x)[n] - s) + ExtraBy(n, i, w)

LEMMA SumsDiffer ==
  ASSUME NEW s \in Nat, NEW x \in Seq(Bytes), NEW r \in Nat, NEW y \in Seq(Bytes),
         NEW m \in Nat, NEW i \in Nat \ {0}, NEW w \in Nat, m + Words(x) <= Words(y),
         SameWords(x, y, m, i, w)
  PROVE  SameSums(s, x, r, y, m, i, w)
<1> USE DEF SameWords, SameSums
<1>1. /\ Words(x) \in Nat /\ Words(y) \in Nat
      /\ \A n \in 1 .. Words(x) : WordAt(x, n) \in Nat
  BY WordsOf
<1> DEFINE a == Sums(s, x)
           b == Sums(r, y)
<1>2. /\ a[0] = s /\ \A n \in 1 .. Words(x) : a[n] = a[n - 1] + WordAt(x, n)
      /\ \A n \in 0 .. Words(x) : a[n] \in Nat
  BY SumsAre
<1>3. /\ \A n \in 1 .. Words(y) : b[n] = b[n - 1] + WordAt(y, n)
      /\ \A n \in 0 .. Words(y) : b[n] \in Nat
  BY SumsAre
<1> HIDE DEF a, b
<1> DEFINE Differ(n) == b[m + n] = b[m] + (a[n] - s) + ExtraBy(n, i, w)
           All == {n \in Nat : n <= Words(x) => Differ(n)}
<1>4. Nat \subseteq All
  <2>1. 0 \in All
    <3>1. m + 0 = m /\ m \in 0 .. Words(y) /\ ~(0 >= i)
      BY <1>1
    <3>2. b[m] \in Nat
      BY <1>3, <3>1
    <3>3. ExtraBy(0, i, w) = 0
      BY <3>1 DEF ExtraBy
    <3> QED BY <1>2, <3>1, <3>2, <3>3
  <2>2. ASSUME NEW n \in Nat, n \in All PROVE n + 1 \in All
    <3> SUFFICES ASSUME n + 1 <= Words(x) PROVE Differ(n + 1)
      OBVIOUS
    <3>1. /\ n + 1 \in 1 .. Words(x) /\ (n + 1) - 1 = n /\ n \in 0 .. Words(x)
          /\ m + (n + 1) \in 1 .. Words(y) /\ (m + (n + 1)) - 1 = m + n
          /\ m \in 0 .. Words(y) /\ m + n \in 0 .. Words(y)
      BY <1>1
    <3>2. a[n + 1] = a[n] + WordAt(x, n + 1)
      BY <1>2, <3>1
    <3>3. b[m + (n + 1)] = b[m + n] + WordAt(y, m + (n + 1))
      BY <1>3, <3>1
    <3>4. WordAt(y, m + (n + 1)) = WordAt(x, n + 1) + Extra(n + 1, i, w)
      BY <3>1
    <3>5. /\ WordAt(x, n + 1) \in Nat /\ a[n] \in Nat /\ a[n + 1] \in Nat
          /\ b[m] \in Nat /\ b[m + n] \in Nat /\ b[m + (n + 1)] \in Nat
      BY <1>1, <1>2, <1>3, <3>1
    <3>6. Differ(n)
      BY <2>2, <3>1
    <3>7. /\ n + 1 = i => ~(n >= i) /\ n + 1 >= i
          /\ n + 1 # i => (n >= i <=> n + 1 >= i)
      OBVIOUS
    <3> DEFINE b1 == b[m + (n + 1)]
               b0 == b[m + n]
               bm == b[m]
               a1 == a[n + 1]
               a0 == a[n]
               v == WordAt(x, n + 1)
               e1 == ExtraBy(n + 1, i, w)
               e0 == ExtraBy(n, i, w)
               e == Extra(n + 1, i, w)
    <3>8. e1 = e0 + e /\ e \in Nat /\ e0 \in Nat
      BY <3>7 DEF Extra, ExtraBy
    <3>9. /\ a1 = a0 + v /\ b1 = b0 + (v + e) /\ b0 = bm + (a0 - s) + e0
          /\ v \in Nat /\ a0 \in Nat /\ b0 \in Nat /\ bm \in Nat
      BY <3>2, <3>3, <3>4, <3>5, <3>6
    <3> HIDE DEF b1, b0, bm, a1, a0, v, e1, e0, e
    <3>10. b1 = bm + (a1 - s) + e1
      BY <3>8, <3>9
    <3> QED BY <3>10 DEF b1, bm, a1, e1
  <2> HIDE DEF All
  <2> QED BY <2>1, <2>2, NatInSet
<1> QED BY <1>1, <1>4 DEF a, b


-----------------------------------------------------------------------------
(* What a sender stores and a receiver sums. *)

(* The sum of A and B, of which the first was folded before the second was *)
(* added, and the complement of all that: together all ones.               *)
LEMMA Complement ==
  ASSUME NEW A \in Nat, NEW B \in Nat
  PROVE  LET csum == EndAround(EndAround(A) + B)
         IN  csum \in 0 .. M /\ EndAround((A + B) + (M - csum)) = M
<1> DEFINE c1 == EndAround(A)
           csum == EndAround(c1 + B)
<1>1. c1 \in 0 .. M /\ (c1 = 0 <=> A = 0) /\ \E q \in Nat : A = M * q + c1
  BY EndAroundIs
<1> HIDE DEF c1
<1>2. c1 + B \in Nat
  BY <1>1, WordFacts
<1>3. /\ csum \in 0 .. M /\ (csum = 0 <=> c1 + B = 0)
      /\ \E q \in Nat : c1 + B = M * q + csum
  BY <1>2, EndAroundIs
<1> HIDE DEF csum
<1>4. PICK q1 \in Nat : A = M * q1 + c1
  BY <1>1
<1>5. PICK q2 \in Nat : c1 + B = M * q2 + csum
  BY <1>3
<1>6. M * (q1 + q2) = M * q1 + M * q2 /\ M * q1 \in Int /\ M * q2 \in Int
  BY <1>4, <1>5, WordFacts
<1>7. (A + B) + (M - csum) = M * (q1 + q2) + M
  BY <1>1, <1>3, <1>4, <1>5, <1>6, WordFacts
<1>8. EndAround(M * (q1 + q2) + M) = M
  <2>1. q1 + q2 \in Nat /\ M \in 1 .. M
    BY <1>4, <1>5, WordFacts
  <2> QED BY <2>1, EndAroundOf
<1> QED BY <1>3, <1>7, <1>8 DEF csum, c1

LEMMA BytesOfWord ==
  ASSUME NEW w \in 0 .. M
  PROVE  w % Base \in Bytes /\ w \div Base \in Bytes /\ (w % Base) + Base * (w \div Base) = w
<1> DEFINE q == w \div Base
           r == w % Base
<1>1. q \in Int /\ r \in 0 .. Base - 1 /\ w = Base * q + r
  BY WordFacts
<1> HIDE DEF q, r
<1>2. q >= 0
  <2> SUFFICES ASSUME q <= -1 PROVE FALSE
    BY <1>1
  <2>1. Base * q <= -Base
    BY <1>1, WordFacts
  <2> QED BY <1>1, <2>1, WordFacts
<1>3. q <= Base - 1
  <2> SUFFICES ASSUME q >= Base PROVE FALSE
    BY <1>1, WordFacts
  <2>1. Base * q >= Base * Base
    BY <1>1, WordFacts
  <2> QED BY <1>1, <2>1, WordFacts DEF Word
<1>4. r \in Bytes /\ q \in Bytes /\ r + Base * q = w
  <2>1. Base * q \in Int
    BY <1>1, WordFacts
  <2> QED BY <1>1, <1>2, <1>3, <2>1, WordFacts DEF Bytes
<1> QED BY <1>4 DEF q, r

LEMMA WithWordIs ==
  ASSUME NEW b \in Seq(Bytes), NEW i \in 1 .. Len(b) \div 2, NEW w \in 0 .. M
  PROVE  LET f == WithWord(b, i, w)
         IN  /\ f \in Seq(Bytes) /\ Len(f) = Len(b) /\ Words(f) = Words(b)
             /\ i \in 1 .. Words(b)
             /\ WordAt(f, i) = w
             /\ \A n \in 1 .. Words(b) : n # i => WordAt(f, n) = WordAt(b, n)
<1> DEFINE lo == w % Base
           hi == w \div Base
           f1 == [b EXCEPT ![2 * i - 1] = lo]
           f == [f1 EXCEPT ![2 * i] = hi]
<1>1. lo \in Bytes /\ hi \in Bytes /\ lo + Base * hi = w
  BY BytesOfWord
<1>2. Len(b) \in Nat /\ i \in Nat /\ 2 * i <= Len(b) /\ i >= 1
  BY WordsOf
<1>3. 2 * i - 1 \in 1 .. Len(b) /\ 2 * i \in 1 .. Len(b)
  BY <1>2
<1>4. WithWord(b, i, w) = f
  BY DEF WithWord
<1> HIDE DEF lo, hi
<1>5. /\ f1 \in Seq(Bytes) /\ Len(f1) = Len(b)
      /\ \A j \in 1 .. Len(b) : f1[j] = IF j = 2 * i - 1 THEN lo ELSE b[j]
  BY <1>1, <1>3, ExceptSeq
<1> HIDE DEF f1
<1>6. /\ f \in Seq(Bytes) /\ Len(f) = Len(b)
      /\ \A j \in 1 .. Len(b) : f[j] = IF j = 2 * i THEN hi ELSE f1[j]
  BY <1>1, <1>3, <1>5, ExceptSeq
<1> HIDE DEF f
<1>7. Words(f) = Words(b) /\ i \in 1 .. Words(b)
  BY <1>2, <1>6, WordsOf DEF Words
<1>8. WordAt(f, i) = w
  <2>1. f[2 * i - 1] = lo /\ f[2 * i] = hi
    BY <1>2, <1>3, <1>5, <1>6
  <2> QED BY <1>1, <1>2, <1>6, <2>1 DEF WordAt
<1>9. ASSUME NEW n \in 1 .. Words(b), n # i PROVE WordAt(f, n) = WordAt(b, n)
  <2>1. 2 * n - 1 \in 1 .. Len(b) /\ (2 * n <= Len(b) => 2 * n \in 1 .. Len(b))
    BY WordsOf
  <2>2. /\ 2 * n - 1 # 2 * i - 1 /\ 2 * n - 1 # 2 * i /\ 2 * n # 2 * i - 1 /\ 2 * n # 2 * i
    BY <1>2, <1>9
  <2>3. f[2 * n - 1] = b[2 * n - 1] /\ (2 * n <= Len(b) => f[2 * n] = b[2 * n])
    BY <1>5, <1>6, <2>1, <2>2
  <2> QED BY <1>6, <2>3 DEF WordAt
<1> QED BY <1>4, <1>6, <1>7, <1>8, <1>9

(* A buffer that is summed in two pieces, the first of an even number of   *)
(* bytes.                                                                  *)
LEMMA SumInPieces ==
  ASSUME NEW b \in Seq(Bytes), NEW k \in 0 .. Len(b) \div 2, NEW s \in Nat
  PROVE  LET x == SubSeq(b, 1, 2 * k)
             y == SubSeq(b, 2 * k + 1, Len(b))
         IN  /\ SumOf(0, x) \in Nat
             /\ \E rest \in Nat : SumOf(s, y) = s + rest /\ SumOf(0, b) = SumOf(0, x) + rest
<1> DEFINE x == SubSeq(b, 1, 2 * k)
           y == SubSeq(b, 2 * k + 1, Len(b))
<1>1. Len(b) \in Nat /\ k \in Nat /\ 2 * k <= Len(b) /\ \A i \in 1 .. Len(b) : b[i] \in Bytes
  BY WordsOf
<1>2. /\ x \in Seq(Bytes) /\ Len(x) = 2 * k
      /\ \A i \in 1 .. 2 * k : x[i] = b[i]
  <2>1. \A i \in 1 .. 2 * k : b[i] \in Bytes
    BY <1>1
  <2>2. x \in Seq(Bytes) /\ Len(x) = IF 1 <= 2 * k THEN 2 * k - 1 + 1 ELSE 0
    BY <1>1, <2>1, SubSeqProperties
  <2>3. \A i \in 1 .. 2 * k - 1 + 1 : x[i] = b[1 + i - 1]
    BY <1>1, <2>1, SubSeqProperties
  <2> QED BY <1>1, <2>2, <2>3
<1>3. /\ y \in Seq(Bytes) /\ Len(y) = Len(b) - 2 * k
      /\ \A i \in 1 .. Len(b) - 2 * k : y[i] = b[2 * k + i]
  <2>1. \A i \in 2 * k + 1 .. Len(b) : b[i] \in Bytes
    BY <1>1
  <2>2. y \in Seq(Bytes) /\ Len(y) = IF 2 * k + 1 <= Len(b) THEN Len(b) - (2 * k + 1) + 1 ELSE 0
    BY <1>1, <2>1, SubSeqProperties
  <2>3. \A i \in 1 .. Len(b) - (2 * k + 1) + 1 : y[i] = b[2 * k + 1 + i - 1]
    BY <1>1, <2>1, SubSeqProperties
  <2> HIDE DEF y
  <2>4. Len(b) - (2 * k + 1) + 1 = Len(b) - 2 * k /\ Len(b) - 2 * k >= 0
    BY <1>1
  <2>5. Len(y) = Len(b) - 2 * k
    <3>1. CASE 2 * k + 1 <= Len(b)
      BY <2>2, <2>4, <3>1
    <3>2. CASE ~(2 * k + 1 <= Len(b))
      <4>1. Len(y) = 0
        BY <2>2, <3>2
      <4>2. 0 = Len(b) - 2 * k
        BY <1>1, <3>2
      <4> QED BY <4>1, <4>2
    <3> QED BY <3>1, <3>2
  <2>6. ASSUME NEW i \in 1 .. Len(b) - 2 * k PROVE y[i] = b[2 * k + i]
    <3>1. i \in 1 .. Len(b) - (2 * k + 1) + 1 /\ 2 * k + 1 + i - 1 = 2 * k + i
      BY <1>1
    <3> QED BY <2>3, <3>1
  <2> QED BY <2>2, <2>5, <2>6
<1> HIDE DEF x, y
<1>4. Words(x) = k /\ Words(y) = Words(b) - k /\ Words(b) \in Nat /\ k <= Words(b)
  <2> DEFINE l == Len(b)
             lx == Len(x)
             ly == Len(y)
  <2>1. l \in Nat /\ k \in Nat /\ 2 * k <= l /\ lx = 2 * k /\ ly = l - 2 * k
    BY <1>1, <1>2, <1>3
  <2> HIDE DEF l, lx, ly
  <2>2. /\ (lx + 1) \div 2 = k /\ (ly + 1) \div 2 = ((l + 1) \div 2) - k
        /\ (l + 1) \div 2 \in Nat /\ k <= (l + 1) \div 2
    BY <2>1
  <2> QED BY <2>2 DEF Words, l, lx, ly
<1>5. ASSUME NEW n \in 1 .. Words(x) PROVE WordAt(b, 0 + n) = WordAt(x, n) + Extra(n, 1, 0)
  <2>1. 2 * n - 1 \in 1 .. 2 * k /\ 2 * n \in 1 .. 2 * k /\ 2 * n <= Len(b) /\ 0 + n = n
    BY <1>1, <1>4
  <2>2. x[2 * n - 1] = b[2 * n - 1] /\ x[2 * n] = b[2 * n]
    BY <1>2, <2>1
  <2>3. WordAt(b, n) = WordAt(x, n)
    <3>1. 2 * n <= Len(x) /\ 2 * n <= Len(b)
      BY <1>2, <2>1
    <3> QED BY <2>2, <3>1 DEF WordAt
  <2>4. WordAt(x, n) \in Nat
    BY <1>2, WordsOf
  <2>5. Extra(n, 1, 0) = 0
    BY DEF Extra
  <2> HIDE DEF Extra
  <2> QED BY <2>1, <2>3, <2>4, <2>5
<1>6. ASSUME NEW n \in 1 .. Words(y) PROVE WordAt(b, k + n) = WordAt(y, n) + Extra(n, 1, 0)
  <2>1. /\ 2 * n - 1 \in 1 .. Len(y)
        /\ 2 * (k + n) - 1 = 2 * k + (2 * n - 1) /\ 2 * (k + n) = 2 * k + 2 * n
        /\ 2 * n <= Len(y) <=> 2 * (k + n) <= Len(b)
        /\ 2 * n <= Len(y) => 2 * n \in 1 .. Len(y)
    <3>1. /\ Words(y) \in Nat /\ 2 * Words(y) <= Len(y) + 1 /\ Len(y) \in Nat
          /\ n \in Nat /\ 1 <= n /\ n <= Words(y)
      <4>1. Words(y) \in Nat /\ 2 * Words(y) <= Len(y) + 1 /\ Len(y) \in Nat
        BY <1>3, WordsOf
      <4> QED BY <4>1
    <3>2. Len(b) = Len(y) + 2 * k
      BY <1>1, <1>3
    <3> DEFINE l == Len(y)
               m == Len(b)
               h == Words(y)
    <3>3. /\ h \in Nat /\ 2 * h <= l + 1 /\ l \in Nat /\ n \in Nat /\ 1 <= n /\ n <= h
          /\ m = l + 2 * k /\ k \in Nat
      BY <1>1, <3>1, <3>2
    <3> HIDE DEF l, m, h
    <3>4. /\ 2 * n - 1 \in 1 .. l
          /\ 2 * (k + n) - 1 = 2 * k + (2 * n - 1) /\ 2 * (k + n) = 2 * k + 2 * n
          /\ 2 * n <= l <=> 2 * (k + n) <= m
          /\ 2 * n <= l => 2 * n \in 1 .. l
      BY <3>3
    <3> QED BY <3>4 DEF l, m
  <2>2. b[2 * (k + n) - 1] = y[2 * n - 1] /\ (2 * n <= Len(y) => b[2 * (k + n)] = y[2 * n])
    BY <1>3, <2>1
  <2>3. WordAt(b, k + n) = WordAt(y, n)
    BY <2>1, <2>2 DEF WordAt
  <2>4. WordAt(y, n) \in Nat
    BY <1>3, WordsOf
  <2>5. Extra(n, 1, 0) = 0
    BY DEF Extra
  <2> QED BY <2>3, <2>4, <2>5
<1>7. \A n \in 0 .. Words(x) :
        Sums(0, b)[0 + n] = Sums(0, b)[0] + (Sums(0, x)[n] - 0) + ExtraBy(n, 1, 0)
  <2>1. 0 \in Nat /\ 1 \in Nat \ {0} /\ 0 + Words(x) <= Words(b)
    BY <1>1, <1>4
  <2>2. SameWords(x, b, 0, 1, 0)
    BY <1>5 DEF SameWords
  <2>3. SameSums(0, x, 0, b, 0, 1, 0)
    BY <1>2, <2>1, <2>2, SumsDiffer
  <2> QED BY <2>3 DEF SameSums
<1>8. ASSUME NEW t \in Nat
      PROVE  \A n \in 0 .. Words(y) :
               Sums(0, b)[k + n] = Sums(0, b)[k] + (Sums(t, y)[n] - t) + ExtraBy(n, 1, 0)
  <2>1. 0 \in Nat /\ 1 \in Nat \ {0} /\ k + Words(y) <= Words(b) /\ k \in Nat
    BY <1>1, <1>4
  <2>2. SameWords(y, b, k, 1, 0)
    BY <1>6 DEF SameWords
  <2>3. SameSums(t, y, 0, b, k, 1, 0)
    BY <1>3, <2>1, <2>2, SumsDiffer
  <2> QED BY <2>3 DEF SameSums
<1>9. /\ Sums(0, b)[0] = 0 /\ Sums(0, x)[k] \in Nat /\ Sums(0, b)[k] \in Nat
      /\ Sums(0, b)[Words(b)] \in Nat
      /\ Sums(0, y)[Words(y)] \in Nat /\ Sums(s, y)[Words(y)] \in Nat
  <2>1. k \in 0 .. Words(x) /\ k \in 0 .. Words(b) /\ Words(b) \in 0 .. Words(b) /\ Words(y) \in 0 .. Words(y)
    BY <1>1, <1>4
  <2> QED BY <1>2, <1>3, <2>1, SumsAre
<1>10. Sums(0, b)[k] = Sums(0, x)[k]
  <2>1. k \in 0 .. Words(x) /\ 0 + k = k
    BY <1>1, <1>4
  <2>2. Sums(0, b)[k] = Sums(0, b)[0] + (Sums(0, x)[k] - 0) + ExtraBy(k, 1, 0)
    BY <1>7, <2>1
  <2>3. ExtraBy(k, 1, 0) = 0
    BY DEF ExtraBy
  <2> QED BY <1>9, <2>2, <2>3
<1>11. ASSUME NEW t \in Nat, Sums(t, y)[Words(y)] \in Nat
       PROVE  Sums(0, b)[Words(b)] = Sums(0, b)[k] + (Sums(t, y)[Words(y)] - t)
  <2>1. Words(y) \in 0 .. Words(y) /\ k + Words(y) = Words(b)
    BY <1>4
  <2>2. Sums(0, b)[Words(b)] = Sums(0, b)[k] + (Sums(t, y)[Words(y)] - t) + ExtraBy(Words(y), 1, 0)
    BY <1>8, <2>1
  <2>3. ExtraBy(Words(y), 1, 0) = 0
    BY DEF ExtraBy
  <2> QED BY <1>9, <1>11, <2>2, <2>3
<1> DEFINE rest == Sums(0, y)[Words(y)]
<1>12. SumOf(s, y) = s + rest /\ SumOf(0, b) = SumOf(0, x) + rest /\ rest \in Nat
  <2>1. Sums(0, b)[Words(b)] = Sums(0, b)[k] + (rest - 0)
    BY <1>9, <1>11
  <2>2. Sums(0, b)[Words(b)] = Sums(0, b)[k] + (Sums(s, y)[Words(y)] - s)
    BY <1>9, <1>11
  <2> HIDE DEF rest
  <2>3. rest \in Nat
    BY <1>9 DEF rest
  <2> DEFINE S == Sums(0, b)[Words(b)]
             T == Sums(0, b)[k]
             U == Sums(s, y)[Words(y)]
  <2>4. S \in Nat /\ T \in Nat /\ U \in Nat /\ S = T + (rest - 0) /\ S = T + (U - s)
    BY <1>9, <2>1, <2>2
  <2>5. SumOf(s, y) = U /\ SumOf(0, b) = S /\ SumOf(0, x) = T
    BY <1>4, <1>10 DEF SumOf
  <2> HIDE DEF S, T, U
  <2>6. U = s + rest /\ S = T + rest
    BY <2>3, <2>4
  <2> QED BY <2>3, <2>5, <2>6
<1>13. SumOf(0, x) \in Nat
  BY <1>4, <1>9 DEF SumOf
<1> HIDE DEF rest
<1> QED BY <1>12, <1>13 DEF x, y

LEMMA CheckedBuffer ==
  ASSUME NEW b \in Seq(Bytes), NEW i \in 1 .. Len(b) \div 2, NEW k \in 0 .. Len(b) \div 2
  PROVE  calc_checksum(0, Checksummed(b, i, 2 * k)) = Word - 1
<1> DEFINE zero == WithWord(b, i, 0)
           x == SubSeq(zero, 1, 2 * k)
           y == SubSeq(zero, 2 * k + 1, Len(zero))
           c1 == EndAround(SumOf(0, x))
           csum == calc_checksum(calc_checksum(0, x), y)
           w == M - csum
           full == WithWord(b, i, w)
<1>1. /\ zero \in Seq(Bytes) /\ Len(zero) = Len(b) /\ Words(zero) = Words(b) /\ i \in 1 .. Words(b)
      /\ WordAt(zero, i) = 0
      /\ \A n \in 1 .. Words(b) : n # i => WordAt(zero, n) = WordAt(b, n)
  <2>1. 0 \in 0 .. M
    BY WordFacts
  <2> QED BY <2>1, WithWordIs
<1> HIDE DEF zero
<1>2. k \in 0 .. Len(zero) \div 2
  BY <1>1
<1>3. SumOf(0, x) \in Nat
  BY <1>1, <1>2, SumInPieces
<1>4. c1 \in Nat
  <2> HIDE DEF x
  <2>1. c1 \in 0 .. M
    BY <1>3, EndAroundIs
  <2> HIDE DEF c1
  <2> QED BY <2>1, WordFacts
<1>5. PICK rest \in Nat : SumOf(c1, y) = c1 + rest /\ SumOf(0, zero) = SumOf(0, x) + rest
  <2> HIDE DEF c1
  <2> QED BY <1>1, <1>2, <1>4, SumInPieces
<1>6. csum = EndAround(c1 + rest)
  <2>1. calc_checksum(0, x) = c1
    BY <1>3, FoldedIs DEF calc_checksum
  <2>2. c1 + rest \in Nat
    BY <1>4
  <2>3. calc_checksum(c1, y) = EndAround(c1 + rest)
    BY <1>5, <2>2, FoldedIs DEF calc_checksum
  <2> QED BY <2>1, <2>3
<1>7. csum \in 0 .. M /\ EndAround((SumOf(0, x) + rest) + (M - csum)) = M
  <2> HIDE DEF csum, x
  <2> QED BY <1>3, <1>6, Complement DEF c1
<1>8. w \in 0 .. M /\ w \in Nat
  <2> HIDE DEF csum
  <2> QED BY <1>7, WordFacts
<1>9. Checksummed(b, i, 2 * k) = full
  BY DEF Checksummed, zero, M
<1> HIDE DEF w
<1>10. /\ full \in Seq(Bytes) /\ Words(full) = Words(b)
       /\ WordAt(full, i) = w
       /\ \A n \in 1 .. Words(b) : n # i => WordAt(full, n) = WordAt(b, n)
  BY <1>8, WithWordIs
<1> HIDE DEF full
<1>11. Words(b) \in Nat /\ \A n \in 1 .. Words(b) : WordAt(b, n) \in Nat
  BY WordsOf
<1>12. ASSUME NEW n \in 1 .. Words(zero)
       PROVE  WordAt(full, 0 + n) = WordAt(zero, n) + Extra(n, i, w)
  <2>1. 0 + n = n /\ n \in 1 .. Words(b)
    BY <1>1
  <2>2. CASE n = i
    BY <1>1, <1>8, <1>10, <2>1, <2>2 DEF Extra
  <2>3. CASE n # i
    BY <1>1, <1>10, <1>11, <2>1, <2>3 DEF Extra
  <2> QED BY <2>2, <2>3
<1>13. \A n \in 0 .. Words(zero) :
         Sums(0, full)[0 + n] =
           Sums(0, full)[0] + (Sums(0, zero)[n] - 0) + ExtraBy(n, i, w)
  <2>1. 0 + Words(zero) <= Words(full) /\ i \in Nat \ {0}
    BY <1>1, <1>10, <1>11
  <2>2. 0 \in Nat
    OBVIOUS
  <2>3. SameWords(zero, full, 0, i, w)
    BY <1>12 DEF SameWords
  <2>4. SameSums(0, zero, 0, full, 0, i, w)
    BY <1>1, <1>8, <1>10, <2>1, <2>2, <2>3, SumsDiffer
  <2> QED BY <2>4 DEF SameSums
<1>14. SumOf(0, full) = SumOf(0, zero) + w
  <2>1. /\ Words(b) \in 0 .. Words(zero) /\ 0 + Words(b) = Words(b) /\ Words(b) >= i
        /\ 0 \in 0 .. Words(full)
    BY <1>1, <1>10, <1>11
  <2>2. Sums(0, full)[0] = 0 /\ Sums(0, zero)[Words(b)] \in Nat
    BY <1>1, <1>10, <2>1, SumsAre
  <2>3. Sums(0, full)[Words(b)] =
          Sums(0, full)[0] + (Sums(0, zero)[Words(b)] - 0) + ExtraBy(Words(b), i, w)
    BY <1>13, <2>1
  <2>4. ExtraBy(Words(b), i, w) = w
    BY <2>1 DEF ExtraBy
  <2> QED BY <1>1, <1>8, <1>10, <2>1, <2>2, <2>3, <2>4 DEF SumOf
<1>15. SumOf(0, full) \in Nat /\ EndAround(SumOf(0, full)) = M
  <2> HIDE DEF x, csum
  <2>1. SumOf(0, full) = (SumOf(0, x) + rest) + (M - csum)
    BY <1>5, <1>14 DEF w
  <2> QED BY <1>3, <1>5, <1>7, <1>8, <1>14, <2>1
<1> QED BY <1>9, <1>15, FoldedIs DEF calc_checksum, M

(* The checksum that write_tcp, write_udp and write_icmp store, whatever   *)
(* the length of a packet, its bytes, the place of the field and the       *)
(* pieces it is summed in, is one that the receiver's sum confirms.        *)
THEOREM ChecksumCorrect == Spec => []ChecksumIsAccepted
<1> DEFINE BufferInput == kind = "buffer" => input \in Seq(Bytes)
<1>1. Init => BufferInput
  BY EmptySeq DEF Init
<1>2. BufferInput /\ [Next]_<<kind, input>> => BufferInput'
  <2> SUFFICES ASSUME BufferInput, [Next]_<<kind, input>>, kind' = "buffer"
               PROVE  input' \in Seq(Bytes)
    OBVIOUS
  <2>1. kind = "buffer" /\ input \in Seq(Bytes)
    BY DEF Next
  <2>2. CASE AddByte
    BY <2>1, <2>2, AppendProperties DEF AddByte, Bytes
  <2>3. CASE input' = input
    BY <2>1, <2>3
  <2> QED BY <2>1, <2>2, <2>3 DEF Next, Count, AddToken, SetSession, AddExtension, AddName
<1>3. BufferInput => ChecksumIsAccepted
  BY CheckedBuffer DEF ChecksumIsAccepted, ReceiverAccepts
<1> QED BY <1>1, <1>2, <1>3, PTL DEF Spec

-----------------------------------------------------------------------------
(* The least of a set of numbers. *)
LEMMA LeastIs ==
  ASSUME NEW I \in SUBSET Nat, I # {}
  PROVE  Min(I) \in I /\ \A i \in I : Min(I) <= i
<1> DEFINE Below == {n \in Nat : \A i \in I : n <= i}
<1> SUFFICES ASSUME \A m \in I : \E i \in I : ~(m <= i) PROVE FALSE
  BY DEF Min
<1>1. 0 \in Below
  OBVIOUS
<1>2. \A n \in Nat : n \in Below => n + 1 \in Below
  <2> SUFFICES ASSUME NEW n \in Nat, n \in Below, NEW i \in I PROVE n + 1 <= i
    OBVIOUS
  <2> QED OBVIOUS
<1>3. Nat \subseteq Below
  <2> HIDE DEF Below
  <2> QED BY <1>1, <1>2, NatInSet
<1>4. PICK i \in I : TRUE
  OBVIOUS
<1>5. i + 1 \in Nat /\ ~(i + 1 <= i)
  OBVIOUS
<1> QED BY <1>3, <1>4, <1>5

(* A part of a sequence, and two sequences joined. *)
LEMMA SliceIs ==
  ASSUME NEW T, NEW s \in Seq(T), NEW m \in Nat, NEW n \in Nat,
         1 <= m, m <= n + 1, n <= Len(s)
  PROVE  /\ SubSeq(s, m, n) \in Seq(T)
         /\ Len(SubSeq(s, m, n)) = n + 1 - m
         /\ \A j \in 1 .. n + 1 - m : SubSeq(s, m, n)[j] = s[m + j - 1]
<1>1. Len(s) \in Nat /\ \A i \in m .. n : s[i] \in T
  OBVIOUS
<1>2. /\ SubSeq(s, m, n) \in Seq(T)
      /\ Len(SubSeq(s, m, n)) = IF m <= n THEN n - m + 1 ELSE 0
      /\ \A i \in 1 .. n - m + 1 : SubSeq(s, m, n)[i] = s[m + i - 1]
  BY <1>1, SubSeqProperties
<1>3. n - m + 1 = n + 1 - m /\ (~(m <= n) => n + 1 - m = 0)
  OBVIOUS
<1> QED BY <1>2, <1>3

(* Two sequences joined: the parts are where one expects them. *)
LEMMA JoinIs ==
  ASSUME NEW T, NEW a \in Seq(T), NEW b \in Seq(T)
  PROVE  /\ a \o b \in Seq(T)
         /\ Len(a) \in Nat /\ Len(b) \in Nat /\ Len(a \o b) = Len(a) + Len(b)
         /\ \A i \in 1 .. Len(a) : (a \o b)[i] = a[i]
         /\ \A i \in 1 .. Len(b) : (a \o b)[Len(a) + i] = b[i]
BY ConcatProperties

(* Two tokens joined are a pair. *)
LEMMA PairIs == ASSUME NEW T, NEW x \in T, NEW y \in T PROVE <<x>> \o <<y>> = <<x, y>>
<1> DEFINE a == <<x>>
           b == <<y>>
<1>1. a \in Seq(T) /\ b \in Seq(T) /\ Len(a) = 1 /\ Len(b) = 1 /\ a[1] = x /\ b[1] = y
  OBVIOUS
<1> DEFINE c == <<x, y>>
<1>2. c \in Seq(T) /\ Len(c) = 2 /\ c[1] = x /\ c[2] = y
  OBVIOUS
<1> HIDE DEF a, b, c
<1> DEFINE d == a \o b
<1>3. d \in Seq(T) /\ Len(d) = 2 /\ d[1] = x /\ d[2] = y
  <2>1. /\ d \in Seq(T) /\ Len(d) = Len(a) + Len(b)
        /\ \A i \in 1 .. Len(a) : d[i] = a[i]
        /\ \A i \in 1 .. Len(b) : d[Len(a) + i] = b[i]
    <3>1. a \in Seq(T) /\ b \in Seq(T)
      BY <1>1
    <3> QED BY <3>1, JoinIs
  <2> HIDE DEF d
  <2>2. 1 \in 1 .. 1 /\ 1 + 1 = 2
    OBVIOUS
  <2> QED BY <1>1, <2>1, <2>2
<1> HIDE DEF d
<1>4. \A i \in 1 .. 2 : c[i] = d[i]
  BY <1>2, <1>3
<1>5. c = d
  BY <1>2, <1>3, <1>4, SeqEqual
<1> QED BY <1>5 DEF a, b, c, d

(* The first place of a token. *)
LEMMA FoundAt ==
  ASSUME NEW T, NEW data \in Seq(T), NEW value
  PROVE  LET at == find_data(data, value)
         IN  /\ at \in 0 .. Len(data)
             /\ at = 0 => \A i \in 1 .. Len(data) : data[i] # value
             /\ at # 0 => data[at] = value /\ \A i \in 1 .. at - 1 : data[i] # value
<1> DEFINE I == {i \in 1 .. Len(data) : data[i] = value}
<1>1. I \in SUBSET Nat /\ I \subseteq 1 .. Len(data) /\ Len(data) \in Nat
  OBVIOUS
<1>2. find_data(data, value) = IF I # {} THEN Min(I) ELSE 0
  BY DEF find_data, SelectInSeq
<1>3. CASE I = {}
  BY <1>1, <1>2, <1>3
<1>4. CASE I # {}
  <2> DEFINE at == Min(I)
  <2>1. at \in I /\ \A i \in I : at <= i
    BY <1>1, <1>4, LeastIs
  <2>2. find_data(data, value) = at /\ at \in 1 .. Len(data) /\ data[at] = value
    BY <1>2, <1>4, <2>1
  <2>3. \A i \in 1 .. at - 1 : data[i] # value
    BY <2>1, <2>2
  <2> QED BY <1>1, <2>2, <2>3
<1> QED BY <1>3, <1>4

(* No method is another, or another token that the code looks for. *)
LEMMA MethodsDiffer ==
  /\ Len(Methods) = 7
  /\ \A i, j \in 1 .. 7 : Methods[i] = Methods[j] => i = j
  /\ \A i \in 1 .. 7 : Methods[i] \notin {"Host:", "http:", CR}
BY DEF Methods, CR

(* What patch_http_url makes of a segment that begins with a method, if    *)
(* none that it looks for earlier follows.                                 *)
LEMMA PatchedIs ==
  ASSUME NEW T, NEW data \in Seq(T), data # << >>,
         NEW m \in 1 .. 7, data[1] = Methods[m],
         \A i \in 2 .. Len(data) : \A k \in 1 .. m - 1 : data[i] # Methods[k],
         NEW behind
  PROVE  patch_http_url(data, behind) =
           IF find_data(data, "Host:") = 0 \/ (1 < Len(data) /\ data[2] = "http:") THEN data
           ELSE SubSeq(data, 1, 1) \o <<"http:">> \o HostName(data, behind)
                  \o SubSeq(data, 2, Len(data))
<1>1. Len(data) \in Nat /\ Len(data) >= 1
  OBVIOUS
<1>2. /\ \A k \in 1 .. m - 1 : find_data(data, Methods[k]) = 0
      /\ find_data(data, Methods[m]) # 0
  <2>1. ASSUME NEW k \in 1 .. m - 1 PROVE \A i \in 1 .. Len(data) : data[i] # Methods[k]
    <3> SUFFICES ASSUME NEW i \in 1 .. Len(data) PROVE data[i] # Methods[k]
      OBVIOUS
    <3>1. i = 1 \/ i \in 2 .. Len(data)
      BY <1>1
    <3> QED BY <2>1, <3>1, MethodsDiffer
  <2>2. 1 \in 1 .. Len(data)
    BY <1>1
  <2> QED BY <2>1, <2>2, FoundAt
<1>3. find_data(data, Methods[m]) = 1
  <2> DEFINE at == find_data(data, Methods[m])
  <2>1. at \in 0 .. Len(data) /\ at # 0 /\ \A i \in 1 .. at - 1 : data[i] # Methods[m]
    BY <1>2, FoundAt
  <2> QED BY <1>1, <2>1
<1> DEFINE I == {i \in 1 .. Len(Methods) : find_data(data, Methods[i]) # 0}
           word == SelectInSeq(Methods, LAMBDA w : find_data(data, w) # 0)
<1>4. word = m
  <2>1. m \in I /\ \A i \in I : i \in 1 .. 7 /\ i >= m
    BY <1>2, MethodsDiffer
  <2>2. word = IF I # {} THEN Min(I) ELSE 0
    BY DEF SelectInSeq
  <2>3. Min(I) \in I /\ Min(I) <= m
    <3> HIDE DEF I
    <3>1. I \in SUBSET Nat /\ I # {}
      BY <2>1
    <3> QED BY <2>1, <3>1, LeastIs
  <2> QED BY <2>1, <2>2, <2>3
<1>5. patch_http_url(data, behind) =
        IF find_data(data, "Host:") = 0 \/ word = 0 THEN data
        ELSE IF find_data(data, Methods[word]) < Len(data)
                /\ data[find_data(data, Methods[word]) + 1] = "http:" THEN data
        ELSE SubSeq(data, 1, find_data(data, Methods[word])) \o <<"http:">> \o HostName(data, behind)
               \o SubSeq(data, find_data(data, Methods[word]) + 1, Len(data))
  BY DEF patch_http_url
<1>6. word # 0
  BY <1>4
<1> DEFINE at == find_data(data, Methods[word])
<1>7. at = 1
  BY <1>3, <1>4
<1>8. patch_http_url(data, behind) =
        IF find_data(data, "Host:") = 0 \/ word = 0 THEN data
        ELSE IF at < Len(data) /\ data[at + 1] = "http:" THEN data
        ELSE SubSeq(data, 1, at) \o <<"http:">> \o HostName(data, behind)
               \o SubSeq(data, at + 1, Len(data))
  BY <1>5
<1> HIDE DEF word, at
<1>9. at + 1 = 2
  BY <1>7
<1> QED BY <1>6, <1>7, <1>8, <1>9

(* The name of the host is in the segment, whatever follows it.            *)
LEMMA HostIs ==
  ASSUME NEW T, NEW data \in Seq(T), NEW behind \in Seq(T),
         NEW h \in 1 .. Len(data), h = find_data(data, "Host:"),
         \E i \in h .. Len(data) : data[i] = CR
  PROVE  LET end == find_data(SubSeq(data, h + 1, Len(data)), CR)
         IN  /\ end \in 1 .. Len(data) - h
             /\ HostName(data, behind) = SubSeq(data, h + 1, h + end - 1)
<1> DEFINE line == SubSeq(data, h + 1, Len(data))
           host == line \o behind
<1>1. /\ line \in Seq(T) /\ Len(line) = Len(data) - h
      /\ \A i \in 1 .. Len(line) : line[i] = data[h + i]
      /\ host \in Seq(T) /\ Len(host) = Len(line) + Len(behind)
      /\ \A i \in 1 .. Len(line) : host[i] = line[i]
      /\ Len(line) \in Nat /\ Len(behind) \in Nat /\ Len(data) \in Nat
  <2> DEFINE n == Len(data)
  <2>1. n \in Nat /\ h \in 1 .. n
    OBVIOUS
  <2>2. h + 1 \in Nat /\ 1 <= h + 1 /\ h + 1 <= n + 1 /\ n <= Len(data)
    BY <2>1
  <2> HIDE DEF n
  <2>3. /\ SubSeq(data, h + 1, n) \in Seq(T) /\ Len(SubSeq(data, h + 1, n)) = n + 1 - (h + 1)
        /\ \A i \in 1 .. n + 1 - (h + 1) : SubSeq(data, h + 1, n)[i] = data[(h + 1) + i - 1]
    BY <2>1, <2>2, SliceIs
  <2>4. n + 1 - (h + 1) = n - h /\ \A i \in 1 .. n - h : (h + 1) + i - 1 = h + i
    BY <2>1
  <2>5. /\ line \in Seq(T) /\ Len(line) = Len(data) - h
        /\ \A i \in 1 .. Len(line) : line[i] = data[h + i]
    <3>1. line = SubSeq(data, h + 1, n) /\ n = Len(data)
      BY DEF n
    <3> DEFINE s == SubSeq(data, h + 1, n)
    <3>2. s \in Seq(T) /\ Len(s) = n - h /\ \A i \in 1 .. n - h : s[i] = data[h + i]
      BY <2>3, <2>4
    <3> HIDE DEF line, s
    <3>3. line = s
      BY <3>1 DEF s
    <3>4. \A i \in 1 .. Len(s) : s[i] = data[h + i]
      BY <3>2
    <3> QED BY <3>1, <3>2, <3>3, <3>4
  <2> HIDE DEF line
  <2>6. /\ host \in Seq(T) /\ Len(host) = Len(line) + Len(behind)
        /\ \A i \in 1 .. Len(line) : host[i] = line[i]
        /\ Len(line) \in Nat /\ Len(behind) \in Nat
    BY <2>5, JoinIs
  <2> QED BY <2>1, <2>5, <2>6 DEF n
<1>2. PICK i \in 1 .. Len(line) : line[i] = CR
  <2>1. data[h] = "Host:"
    BY FoundAt
  <2>2. PICK i \in h .. Len(data) : data[i] = CR
    OBVIOUS
  <2>3. i # h
    BY <2>1, <2>2 DEF CR
  <2>4. i - h \in 1 .. Len(line) /\ h + (i - h) = i
    BY <1>1, <2>3
  <2> QED BY <1>1, <2>2, <2>4
<1> DEFINE end == find_data(line, CR)
           stop == find_data(host, CR)
<1> HIDE DEF line
<1>3. end \in 1 .. Len(line) /\ line[end] = CR /\ \A j \in 1 .. end - 1 : line[j] # CR
  <2>1. /\ end \in 0 .. Len(line)
        /\ end = 0 => \A j \in 1 .. Len(line) : line[j] # CR
        /\ end # 0 => line[end] = CR /\ \A j \in 1 .. end - 1 : line[j] # CR
    BY <1>1, FoundAt
  <2> HIDE DEF end
  <2>2. end # 0
    BY <1>2, <2>1
  <2>3. Len(line) \in Nat
    BY <1>1
  <2>4. end \in 1 .. Len(line)
    BY <2>1, <2>2, <2>3
  <2> QED BY <2>1, <2>2, <2>4
<1>4. HostName(data, behind) = IF stop = 0 THEN host ELSE SubSeq(host, 1, stop - 1)
  BY DEF HostName, line
<1> HIDE DEF host, end
<1>5. stop \in 1 .. Len(host) /\ host[stop] = CR /\ \A j \in 1 .. stop - 1 : host[j] # CR
  <2>1. /\ stop \in 0 .. Len(host)
        /\ stop = 0 => \A j \in 1 .. Len(host) : host[j] # CR
        /\ stop # 0 => host[stop] = CR /\ \A j \in 1 .. stop - 1 : host[j] # CR
    BY <1>1, FoundAt
  <2> HIDE DEF stop
  <2>2. i \in 1 .. Len(host) /\ host[i] = CR
    BY <1>1, <1>2
  <2>3. stop # 0
    BY <2>1, <2>2
  <2>4. Len(host) \in Nat
    BY <1>1
  <2>5. stop \in 1 .. Len(host)
    BY <2>1, <2>3, <2>4
  <2> QED BY <2>1, <2>3, <2>5
<1> HIDE DEF stop
<1>6. stop = end
  <2>1. /\ end \in Nat /\ stop \in Nat /\ 1 <= end /\ 1 <= stop
        /\ end <= Len(line) /\ Len(line) \in Nat
    BY <1>1, <1>3, <1>5
  <2>2. ASSUME stop < end PROVE FALSE
    <3>1. stop \in 1 .. end - 1 /\ stop \in 1 .. Len(line)
      BY <2>1, <2>2
    <3>2. host[stop] = line[stop]
      BY <1>1, <3>1
    <3>3. line[stop] # CR
      BY <1>3, <3>1
    <3> QED BY <1>5, <3>2, <3>3
  <2>3. ASSUME end < stop PROVE FALSE
    <3>1. end \in 1 .. stop - 1 /\ end \in 1 .. Len(line)
      BY <2>1, <2>3
    <3>2. host[end] = line[end]
      BY <1>1, <3>1
    <3>3. host[end] # CR
      BY <1>5, <3>1
    <3> QED BY <1>3, <3>2, <3>3
  <2> QED BY <2>1, <2>2, <2>3
<1>7. HostName(data, behind) = SubSeq(host, 1, end - 1)
  BY <1>3, <1>4, <1>6, <1>1
<1>8. SubSeq(host, 1, end - 1) = SubSeq(data, h + 1, h + end - 1)
  <2> DEFINE n == end - 1
             a == h + 1
             b == h + end - 1
             s == SubSeq(host, 1, n)
             t == SubSeq(data, a, b)
  <2>0. end \in Nat /\ 1 <= end /\ h \in Nat /\ Len(data) \in Nat /\ h + end <= Len(data)
    <3>1. \A x, e, l, k \in Nat : e \in 1 .. l /\ l = k - x => 1 <= e /\ x + e <= k
      OBVIOUS
    <3>2. /\ h \in Nat /\ end \in Nat /\ Len(line) \in Nat /\ Len(data) \in Nat
          /\ Len(line) = Len(data) - h /\ end \in 1 .. Len(line)
      BY <1>1, <1>3
    <3> QED BY <3>1, <3>2
  <2>1. n \in Nat /\ n <= Len(host) /\ n <= Len(line) /\ host \in Seq(T)
    <3>1. \A e, l, k \in Nat : e \in 1 .. l => e - 1 \in Nat /\ e - 1 <= l + k /\ e - 1 <= l
      OBVIOUS
    <3>2. /\ end \in Nat /\ end \in 1 .. Len(line) /\ Len(line) \in Nat /\ Len(behind) \in Nat
          /\ Len(host) = Len(line) + Len(behind) /\ host \in Seq(T)
      BY <1>1, <1>3, <2>0
    <3> QED BY <3>1, <3>2
  <2>2. a \in Nat /\ b \in Nat /\ 1 <= a /\ a <= b + 1 /\ b <= Len(data) /\ b + 1 - a = n
    <3>1. \A x, e, l \in Nat : 1 <= e /\ x + e <= l =>
            /\ x + 1 \in Nat /\ x + e - 1 \in Nat /\ 1 <= x + 1 /\ x + 1 <= x + e - 1 + 1
            /\ x + e - 1 <= l /\ x + e - 1 + 1 - (x + 1) = e - 1
      OBVIOUS
    <3> QED BY <2>0, <3>1
  <2>3. \A j \in 1 .. n : 1 + j - 1 = j /\ a + j - 1 = h + j /\ j \in 1 .. Len(line)
    BY <2>1
  <2>4. 1 \in Nat /\ 1 <= 1 /\ 1 <= n + 1 /\ n + 1 - 1 = n
    BY <2>1
  <2> HIDE DEF n, a, b
  <2>5. s \in Seq(T) /\ Len(s) = n /\ \A j \in 1 .. n : s[j] = host[1 + j - 1]
    <3>1. /\ s \in Seq(T) /\ Len(s) = n + 1 - 1
          /\ \A j \in 1 .. n + 1 - 1 : s[j] = host[1 + j - 1]
      BY <2>1, <2>4, SliceIs
    <3> QED BY <2>4, <3>1
  <2>6. t \in Seq(T) /\ Len(t) = n /\ \A j \in 1 .. n : t[j] = data[a + j - 1]
    BY <2>2, SliceIs
  <2> HIDE DEF s, t
  <2>7. ASSUME NEW j \in 1 .. n PROVE s[j] = t[j]
    <3>1. 1 + j - 1 = j /\ a + j - 1 = h + j /\ j \in 1 .. Len(line)
      BY <2>3
    <3>2. s[j] = host[j] /\ t[j] = data[h + j]
      BY <2>5, <2>6, <3>1
    <3>3. host[j] = line[j] /\ line[j] = data[h + j]
      BY <1>1, <3>1
    <3> QED BY <3>2, <3>3
  <2>8. s = t
    BY <2>5, <2>6, <2>7, SeqEqual
  <2> QED BY <2>8 DEF s, t, n, a, b
<1> QED BY <1>1, <1>3, <1>7, <1>8 DEF end, line

(* A request is patched once, for every request and all that follows it.   *)
LEMMA RequestIsPatched ==
  ASSUME NEW T, {"Host:", "http:", "text"} \subseteq T, NEW data \in Seq(T)
  PROVE  TargetIsAbsolute(data)
<1> SUFFICES ASSUME IsRequest(data) PROVE TargetIsAbsolute(data)
  BY DEF TargetIsAbsolute
<1> DEFINE h == find_data(data, "Host:")
           host == HostName(data, << >>)
           begins == <<data[1], "http:">> \o host \o Tail(data)
           patched == IF data[2] = "http:" THEN data ELSE begins
<1>1. PICK m \in 1 .. 7 :
        /\ data # << >> /\ data[1] = Methods[m]
        /\ \A i \in 2 .. Len(data) : \A k \in 1 .. m - 1 : data[i] # Methods[k]
  BY MethodsDiffer DEF IsRequest
<1>2. \A i \in 2 .. Len(data) : \A k \in 1 .. m - 1 : data[i] # Methods[k]
  BY <1>1
<1>3. h \in 2 .. Len(data) /\ data[h] = "Host:" /\ \E i \in h .. Len(data) : data[i] = CR
  <2>1. h > 1 /\ \E i \in h .. Len(data) : data[i] = CR
    BY DEF IsRequest
  <2>2. h \in 0 .. Len(data) /\ (h # 0 => data[h] = "Host:")
    BY FoundAt
  <2> HIDE DEF h
  <2> QED BY <2>1, <2>2
<1>4. Len(data) \in Nat /\ 1 < Len(data) /\ h \in 1 .. Len(data) /\ h # 0
  <2> HIDE DEF h
  <2> QED BY <1>3
<1> DEFINE end == find_data(SubSeq(data, h + 1, Len(data)), CR)
<1>5. /\ end \in 1 .. Len(data) - h
      /\ \A behind \in Seq(T) : HostName(data, behind) = SubSeq(data, h + 1, h + end - 1)
  BY <1>3, <1>4, HostIs
<1> HIDE DEF end, h
<1>6. host = SubSeq(data, h + 1, h + end - 1)
  <2>1. << >> \in Seq(T)
    OBVIOUS
  <2> QED BY <1>5, <2>1
<1>7. \A behind \in Seq(T) : HostName(data, behind) = host
  BY <1>5, <1>6
<1>8. /\ host \in Seq(T)
      /\ \A i \in 1 .. Len(host) : \A k \in 1 .. m - 1 : host[i] # Methods[k]
  <2>1. /\ host \in Seq(T) /\ Len(host) = end - 1
        /\ \A j \in 1 .. end - 1 : host[j] = data[h + j]
    <3> DEFINE a == h + 1
               b == h + end - 1
    <3>1. a \in Nat /\ b \in Nat /\ 1 <= a /\ a <= b + 1 /\ b <= Len(data) /\ b + 1 - a = end - 1
      BY <1>4, <1>5
    <3> HIDE DEF a, b, host
    <3>2. host = SubSeq(data, a, b)
      BY <1>6 DEF a, b
    <3>3. \A j \in 1 .. end - 1 : host[j] = data[a + j - 1]
      BY <3>1, <3>2, SliceIs
    <3>4. host \in Seq(T) /\ Len(host) = end - 1
      BY <3>1, <3>2, SliceIs
    <3>5. \A j \in 1 .. end - 1 : a + j - 1 = h + j
      BY <1>4, <1>5 DEF a
    <3> QED BY <3>3, <3>4, <3>5
  <2> HIDE DEF host
  <2> SUFFICES ASSUME NEW i \in 1 .. Len(host), NEW k \in 1 .. m - 1 PROVE host[i] # Methods[k]
    BY <2>1
  <2>2. host[i] = data[h + i] /\ h + i \in 2 .. Len(data)
    BY <1>3, <1>4, <1>5, <1>6, <2>1
  <2> QED BY <1>2, <2>2
<1> HIDE DEF host
<1>9. \A behind \in Seq(T) : patch_http_url(data, behind) = patched
  <2> SUFFICES ASSUME NEW behind \in Seq(T) PROVE patch_http_url(data, behind) = patched
    OBVIOUS
  <2>1. patch_http_url(data, behind) =
          IF h = 0 \/ (1 < Len(data) /\ data[2] = "http:") THEN data
          ELSE SubSeq(data, 1, 1) \o <<"http:">> \o HostName(data, behind)
                 \o SubSeq(data, 2, Len(data))
    BY <1>1, <1>2, PatchedIs DEF h
  <2>2. SubSeq(data, 1, 1) \o <<"http:">> = <<data[1], "http:">>
    <3> DEFINE s == SubSeq(data, 1, 1)
    <3>1. s \in Seq(T) /\ Len(s) = 1 /\ s[1] = data[1]
      BY <1>4, SliceIs
    <3> HIDE DEF s
    <3>2. s = <<data[1]>>
      BY <3>1
    <3>3. data[1] \in T /\ "http:" \in T
      BY <1>4
    <3> QED BY <3>2, <3>3, PairIs DEF s
  <2>4. SubSeq(data, 2, Len(data)) = Tail(data)
    BY <1>1, <1>4
  <2>3. HostName(data, behind) = host
    BY <1>7
  <2> QED BY <1>4, <2>1, <2>2, <2>3, <2>4
<1>10. \A behind \in Seq(T) : patch_http_url(patched, behind) = patched
  <2>1. CASE data[2] = "http:"
    BY <1>9, <2>1
  <2>2. CASE data[2] # "http:"
    <3> DEFINE first == <<data[1], "http:">>
               rest == host \o Tail(data)
    <3>1. /\ first \in Seq(T) /\ Len(first) = 2 /\ first[1] = data[1] /\ first[2] = "http:"
          /\ Tail(data) \in Seq(T) /\ Len(Tail(data)) = Len(data) - 1
          /\ \A i \in 1 .. Len(data) - 1 : Tail(data)[i] = data[i + 1]
      BY <1>1, <1>4
    <3>2. \A i \in 1 .. Len(Tail(data)) : \A k \in 1 .. m - 1 : Tail(data)[i] # Methods[k]
      <4> SUFFICES ASSUME NEW i \in 1 .. Len(data) - 1, NEW k \in 1 .. m - 1
                   PROVE Tail(data)[i] # Methods[k]
        BY <3>1
      <4>1. i + 1 \in 2 .. Len(data)
        BY <1>4
      <4> QED BY <1>2, <3>1, <4>1
    <3>3. /\ rest \in Seq(T) /\ Len(rest) \in Nat
          /\ \A i \in 1 .. Len(rest) : \A k \in 1 .. m - 1 : rest[i] # Methods[k]
      <4> HIDE DEF first
      <4> DEFINE t == Tail(data)
      <4>1. t \in Seq(T) /\ Len(t) \in Nat /\ Len(host) \in Nat
        BY <1>8, <3>1
      <4> HIDE DEF t
      <4>2. /\ host \o t \in Seq(T) /\ Len(host \o t) = Len(host) + Len(t)
            /\ \A i \in 1 .. Len(host) : (host \o t)[i] = host[i]
            /\ \A i \in 1 .. Len(t) : (host \o t)[Len(host) + i] = t[i]
        BY <1>8, <4>1, JoinIs
      <4>3. ASSUME NEW i \in 1 .. Len(host) + Len(t), NEW k \in 1 .. m - 1
            PROVE  (host \o t)[i] # Methods[k]
        <5>1. CASE i \in 1 .. Len(host)
          BY <1>8, <4>2, <5>1
        <5>2. CASE i \notin 1 .. Len(host)
          <6> DEFINE j == i - Len(host)
          <6>1. j \in 1 .. Len(t) /\ i = Len(host) + j
            BY <4>1, <5>2
          <6> HIDE DEF j
          <6> QED BY <3>2, <4>2, <6>1 DEF t
        <5> QED BY <5>1, <5>2
      <4>4. rest = host \o t
        BY DEF t
      <4> HIDE DEF rest
      <4>5. Len(rest) = Len(host) + Len(t) /\ Len(rest) \in Nat /\ rest \in Seq(T)
        BY <4>1, <4>2, <4>4
      <4> QED BY <4>3, <4>4, <4>5
    <3>4. begins = first \o rest
      BY <1>8, <3>1
    <3> HIDE DEF first, rest
    <3>5. /\ begins \in Seq(T) /\ Len(begins) = 2 + Len(rest)
          /\ begins[1] = data[1] /\ begins[2] = "http:"
          /\ \A i \in 3 .. 2 + Len(rest) : begins[i] = rest[i - 2]
      <4> HIDE DEF begins
      <4>1. /\ begins \in Seq(T) /\ Len(begins) = 2 + Len(rest)
            /\ \A i \in 1 .. 2 : begins[i] = first[i]
            /\ \A i \in 1 .. Len(rest) : begins[2 + i] = rest[i]
        <5>1. /\ begins \in Seq(T) /\ Len(begins) = Len(first) + Len(rest)
              /\ \A i \in 1 .. Len(first) : begins[i] = first[i]
              /\ \A i \in 1 .. Len(rest) : begins[Len(first) + i] = rest[i]
          <6>1. first \in Seq(T) /\ rest \in Seq(T)
            BY <3>1, <3>3
          <6> QED BY <3>4, <6>1, JoinIs
        <5> QED BY <3>1, <5>1
      <4>2. \A i \in 3 .. 2 + Len(rest) : i - 2 \in 1 .. Len(rest) /\ 2 + (i - 2) = i
        BY <3>3
      <4>3. 1 \in 1 .. 2 /\ 2 \in 1 .. 2
        OBVIOUS
      <4> QED BY <3>1, <4>1, <4>2, <4>3
    <3> HIDE DEF begins
    <3>6. \A i \in 2 .. Len(begins) : \A k \in 1 .. m - 1 : begins[i] # Methods[k]
      <4> SUFFICES ASSUME NEW i \in 2 .. 2 + Len(rest), NEW k \in 1 .. m - 1
                   PROVE begins[i] # Methods[k]
        BY <3>5
      <4>1. CASE i = 2
        BY <3>5, <4>1, MethodsDiffer
      <4>2. CASE i # 2
        <5>1. i \in 3 .. 2 + Len(rest) /\ i - 2 \in 1 .. Len(rest)
          BY <3>3, <4>2
        <5> QED BY <3>3, <3>5, <5>1
      <4> QED BY <4>1, <4>2
    <3>7. begins # << >> /\ 1 < Len(begins) /\ begins[1] = Methods[m]
      BY <1>1, <3>3, <3>5
    <3>8. \A behind \in Seq(T) : patch_http_url(begins, behind) = begins
      BY <3>5, <3>6, <3>7, PatchedIs
    <3> QED BY <2>2, <3>8
  <2> QED BY <2>1, <2>2
<1>11. << >> \in Seq(T) /\ <<"Host:", "text">> \in Seq(T)
  OBVIOUS
<1> HIDE DEF patched
<1>12. \A behind \in {<< >>, <<"Host:", "text">>} :
          /\ patch_http_url(data, behind) = patched
          /\ patch_http_url(patched, behind) = patched
  BY <1>9, <1>10, <1>11
<1> QED BY <1>12 DEF TargetIsAbsolute, patched, begins, host

(* A request becomes one for a proxy, and stays one: of patch_http_url,    *)
(* for requests of any length, wherever its header is.                     *)
THEOREM RequestCorrect == Spec => []RequestIsForProxy
<1> DEFINE RequestInput == kind = "request" => input \in Seq(Tokens)
<1>1. Init => RequestInput
  BY DEF Init
<1>2. RequestInput /\ [Next]_<<kind, input>> => RequestInput'
  <2> SUFFICES ASSUME RequestInput, [Next]_<<kind, input>>, kind' = "request"
               PROVE  input' \in Seq(Tokens)
    OBVIOUS
  <2>1. CASE UNCHANGED <<kind, input>>
    BY <2>1
  <2>2. CASE AddToken
    <3>1. PICK token \in Tokens : input' = Append(input, token)
      BY <2>2 DEF AddToken
    <3>2. input \in Seq(Tokens)
      BY <2>2 DEF AddToken
    <3> QED BY <3>1, <3>2
  <2> QED BY <2>1, <2>2
          DEF Next, Count, AddByte, SetSession, AddExtension, AddName
<1>3. RequestInput => RequestIsForProxy
  BY RequestIsPatched DEF RequestIsForProxy, Tokens
<1> QED BY <1>1, <1>2, <1>3, PTL DEF Spec

(* A loop that goes from x to next[x] until it stops computes a function,  *)
(* even if it does not stop everywhere: x has the value of the place where *)
(* the loop from x stops, if any, and next[x] stops at the same.           *)
IsLoop(f, S, Stop, next, v) == f = [x \in S |-> IF x \in Stop THEN v[x] ELSE f[next[x]]]

LEMMA LoopIsFunction ==
  ASSUME NEW S, NEW Stop, NEW next, NEW v, \A x \in S \ Stop : next[x] \in S
  PROVE  \E f : IsLoop(f, S, Stop, next, v)
<1> DEFINE Steps(p, n) == \A i \in 0 .. n - 1 : p[i] \notin Stop /\ p[i + 1] = next[p[i]]
           Path(p, n, x, y) == /\ p \in [0 .. n -> S] /\ p[0] = x /\ p[n] = y
                               /\ y \in Stop /\ Steps(p, n)
           Ends(x) == {y \in S : \E n \in Nat : \E p : Path(p, n, x, y)}
           f == [x \in S |-> v[CHOOSE y : y \in Ends(x)]]
<1>1. ASSUME NEW x \in S, x \in Stop PROVE Ends(x) = {x}
  <2>1. x \in Ends(x)
    <3> DEFINE p == [i \in 0 .. 0 |-> x]
    <3>1. Path(p, 0, x, x)
      BY <1>1
    <3> HIDE DEF Path, p
    <3>2. \E n \in Nat : \E q : Path(q, n, x, x)
      <4>1. 0 \in Nat
        OBVIOUS
      <4> QED BY <3>1, <4>1
    <3> QED BY <3>2
  <2>2. ASSUME NEW y \in Ends(x) PROVE y = x
    <3>0. PICK n \in Nat : \E p : Path(p, n, x, y)
      OBVIOUS
    <3>1. PICK p : Path(p, n, x, y)
      BY <3>0
    <3>2. n # 0 => 0 \in 0 .. n - 1
      OBVIOUS
    <3>3. n = 0
      BY <1>1, <3>1, <3>2
    <3> QED BY <3>1, <3>3
  <2> QED BY <2>1, <2>2
<1>2. ASSUME NEW x \in S, x \notin Stop PROVE Ends(x) = Ends(next[x])
  <2>1. ASSUME NEW y \in Ends(x) PROVE y \in Ends(next[x])
    <3>0. PICK n \in Nat : \E p : Path(p, n, x, y)
      OBVIOUS
    <3>1. PICK p : Path(p, n, x, y)
      BY <3>0
    <3>2. n # 0
      BY <1>2, <3>1
    <3> DEFINE m == n - 1
               q == [i \in 0 .. m |-> p[i + 1]]
    <3>3. m \in Nat /\ m + 1 = n /\ 0 \in 0 .. m /\ m \in 0 .. m /\ 0 \in 0 .. n - 1
      BY <3>2
    <3>4. \A i \in 0 .. m : i + 1 \in 0 .. n
      BY <3>3
    <3>5. \A i \in 0 .. m - 1 : i \in 0 .. m /\ i + 1 \in 0 .. m /\ i + 1 \in 0 .. n - 1
      BY <3>3
    <3> HIDE DEF m
    <3>6. q \in [0 .. m -> S] /\ q[0] = p[1] /\ q[m] = y
      BY <3>1, <3>3, <3>4
    <3>7. p[1] = next[x]
      <4>1. p[0 + 1] = next[p[0]] /\ p[0] = x
        BY <3>1, <3>3
      <4> QED BY <4>1
    <3>8. Steps(q, m)
      <4> SUFFICES ASSUME NEW i \in 0 .. m - 1 PROVE q[i] \notin Stop /\ q[i + 1] = next[q[i]]
        OBVIOUS
      <4>1. q[i] = p[i + 1] /\ q[i + 1] = p[(i + 1) + 1]
        BY <3>5
      <4>2. p[i + 1] \notin Stop /\ p[(i + 1) + 1] = next[p[i + 1]]
        BY <3>1, <3>5
      <4> QED BY <4>1, <4>2
    <3> HIDE DEF q
    <3>9. Path(q, m, next[x], y)
      BY <3>1, <3>6, <3>7, <3>8
    <3> QED BY <3>3, <3>9
  <2>2. ASSUME NEW y \in Ends(next[x]) PROVE y \in Ends(x)
    <3>0. PICK m \in Nat : \E q : Path(q, m, next[x], y)
      OBVIOUS
    <3>1. PICK q : Path(q, m, next[x], y)
      BY <3>0
    <3> DEFINE n == m + 1
               p == [i \in 0 .. n |-> IF i = 0 THEN x ELSE q[i - 1]]
    <3>2. n \in Nat /\ n # 0 /\ n - 1 = m /\ 0 \in 0 .. n /\ n \in 0 .. n
      OBVIOUS
    <3>3. \A i \in 0 .. n : i # 0 => i - 1 \in 0 .. m
      OBVIOUS
    <3>4. \A i \in 0 .. n - 1 : i \in 0 .. n /\ i + 1 \in 0 .. n /\ i + 1 # 0 /\ i + 1 - 1 = i
      OBVIOUS
    <3>5. \A i \in 0 .. n - 1 : i # 0 => i - 1 \in 0 .. m - 1 /\ (i - 1) + 1 = i
      OBVIOUS
    <3> HIDE DEF n
    <3>6. p \in [0 .. n -> S] /\ p[0] = x /\ p[n] = y
      BY <3>1, <3>2, <3>3
    <3>7. Steps(p, n)
      <4> SUFFICES ASSUME NEW i \in 0 .. n - 1 PROVE p[i] \notin Stop /\ p[i + 1] = next[p[i]]
        OBVIOUS
      <4>1. p[i + 1] = q[i]
        BY <3>4
      <4>2. CASE i = 0
        BY <1>2, <3>1, <3>6, <4>1, <4>2
      <4>3. CASE i # 0
        <5>1. p[i] = q[i - 1]
          BY <3>4, <4>3
        <5>2. q[i - 1] \notin Stop /\ q[(i - 1) + 1] = next[q[i - 1]] /\ (i - 1) + 1 = i
          BY <3>1, <3>5, <4>3
        <5> QED BY <4>1, <5>1, <5>2
      <4> QED BY <4>2, <4>3
    <3> HIDE DEF p
    <3>8. Path(p, n, x, y)
      BY <3>1, <3>6, <3>7
    <3>9. y \in S
      OBVIOUS
    <3> HIDE DEF Path
    <3> QED BY <3>2, <3>8, <3>9
  <2> QED BY <2>1, <2>2
<1> HIDE DEF Ends
<1>3. \A x \in S : f[x] = IF x \in Stop THEN v[x] ELSE f[next[x]]
  <2> SUFFICES ASSUME NEW x \in S PROVE f[x] = IF x \in Stop THEN v[x] ELSE f[next[x]]
    OBVIOUS
  <2>1. CASE x \in Stop
    BY <1>1, <2>1
  <2>2. CASE x \notin Stop
    BY <1>2, <2>2
  <2> QED BY <2>1, <2>2
<1>4. f = [x \in S |-> IF x \in Stop THEN v[x] ELSE f[next[x]]]
  <2>1. f = [x \in S |-> f[x]]
    OBVIOUS
  <2> HIDE DEF f
  <2> QED BY <1>3, <2>1
<1> HIDE DEF f
<1> QED BY <1>4 DEF IsLoop

(* The parts of a sequence of sequences in the one made of them. *)
IsSplit(off, s, flat) ==
  /\ off \in [0 .. Len(s) -> Nat] /\ off[0] = 0 /\ off[Len(s)] = Len(flat)
  /\ \A i \in 1 .. Len(s) :
       /\ off[i] = off[i - 1] + Len(s[i]) /\ off[i] <= Len(flat)
       /\ \A j \in 1 .. Len(s[i]) : flat[off[i - 1] + j] = s[i][j]

LEMMA FlattenedIs ==
  ASSUME NEW T, NEW s \in Seq(Seq(T))
  PROVE  FlattenSeq(s) \in Seq(T) /\ \E off : IsSplit(off, s, FlattenSeq(s))
<1>0. Len(s) \in Nat /\ \A i \in 1 .. Len(s) : s[i] \in Seq(T) /\ Len(s[i]) \in Nat
  OBVIOUS
<1>1. CASE s = << >>
  <2>1. Len(s) = 0 /\ FlattenSeq(s) = << >>
    BY <1>1 DEF FlattenSeq
  <2>2. << >> \in Seq(T) /\ Len(<< >>) = 0
    OBVIOUS
  <2> DEFINE off == [i \in 0 .. 0 |-> 0]
  <2>3. off \in [0 .. 0 -> Nat] /\ off[0] = 0 /\ 1 .. 0 = {}
    OBVIOUS
  <2>4. off[Len(s)] = Len(FlattenSeq(s)) /\ off \in [0 .. Len(s) -> Nat] /\ 1 .. Len(s) = {}
    BY <2>1, <2>2, <2>3
  <2> HIDE DEF off
  <2>5. IsSplit(off, s, FlattenSeq(s))
    BY <2>3, <2>4 DEF IsSplit
  <2> QED BY <2>1, <2>2, <2>5
<1>2. CASE s # << >>
  <2>0. Len(s) # 0
    BY <1>2
  <2> DEFINE Body(f, i) == IF i = 1 THEN s[i] ELSE f[i - 1] \o s[i]
             Defined == {n \in Nat : \E f : f = [i \in 1 .. n |-> Body(f, i)]}
  <2>1. Len(s) \in Defined
    <3>1. 0 \in Defined
      <4>1. 1 .. 0 = {}
        OBVIOUS
      <4> DEFINE f == [i \in 1 .. 0 |-> 0]
      <4>2. f = [i \in 1 .. 0 |-> Body(f, i)]
        BY <4>1
      <4> HIDE DEF f
      <4> QED BY <4>2
    <3>2. \A n \in Nat : n \in Defined => n + 1 \in Defined
      <4> SUFFICES ASSUME NEW n \in Nat, n \in Defined PROVE n + 1 \in Defined
        OBVIOUS
      <4> HIDE DEF Body
      <4>1. PICK f : f = [i \in 1 .. n |-> Body(f, i)]
        OBVIOUS
      <4> DEFINE g == [i \in 1 .. n + 1 |-> IF i \in 1 .. n THEN f[i] ELSE Body(f, i)]
      <4>2. \A i \in 1 .. n + 1 : g[i] = Body(g, i)
        <5> SUFFICES ASSUME NEW i \in 1 .. n + 1 PROVE g[i] = Body(g, i)
          OBVIOUS
        <5>1. g[i] = Body(f, i)
          BY <4>1
        <5>2. i # 1 => i - 1 \in 1 .. n + 1 /\ i - 1 \in 1 .. n
          OBVIOUS
        <5>3. i # 1 => g[i - 1] = f[i - 1]
          BY <5>2
        <5> HIDE DEF g
        <5> QED BY <5>1, <5>3 DEF Body
      <4>3. g = [i \in 1 .. n + 1 |-> Body(g, i)]
        <5>1. g = [i \in 1 .. n + 1 |-> g[i]]
          OBVIOUS
        <5> HIDE DEF g
        <5> QED BY <4>2, <5>1
      <4> HIDE DEF g
      <4> QED BY <4>3
    <3> HIDE DEF Defined
    <3>3. Nat \subseteq Defined
      BY <3>1, <3>2, NatInSet
    <3> QED BY <1>0, <3>3
  <2> DEFINE flatten == CHOOSE f : f = [i \in 1 .. Len(s) |-> Body(f, i)]
  <2>2. FlattenSeq(s) = flatten[Len(s)]
    BY <2>0 DEF FlattenSeq
  <2>3. flatten = [i \in 1 .. Len(s) |-> Body(flatten, i)]
    <3> HIDE DEF Body
    <3> QED BY <2>1
  <2> HIDE DEF flatten
  <2>4. \A i \in 1 .. Len(s) : flatten[i] = Body(flatten, i)
    <3> HIDE DEF Body
    <3> QED BY <2>3
  <2> DEFINE g == [i \in 0 .. Len(s) |-> IF i = 0 THEN << >> ELSE flatten[i]]
  <2>5. g[0] = << >> /\ g[Len(s)] = FlattenSeq(s)
    BY <1>0, <2>0, <2>2
  <2>6. \A i \in 1 .. Len(s) : g[i - 1] \in Seq(T) => g[i] = g[i - 1] \o s[i]
    <3> SUFFICES ASSUME NEW i \in 1 .. Len(s), g[i - 1] \in Seq(T) PROVE g[i] = g[i - 1] \o s[i]
      OBVIOUS
    <3>1. i \in 0 .. Len(s) /\ i # 0 /\ i - 1 \in 0 .. Len(s)
      BY <1>0
    <3>2. g[i] = Body(flatten, i)
      BY <2>4, <3>1
    <3>3. CASE i = 1
      <4>1. g[i - 1] = << >>
        BY <1>0, <3>3
      <4>2. << >> \o s[i] = s[i]
        BY <1>0, ConcatEmptySeq
      <4> HIDE DEF g
      <4> QED BY <3>2, <3>3, <4>1, <4>2
    <3>4. CASE i # 1
      <4>1. g[i - 1] = flatten[i - 1]
        BY <3>1, <3>4
      <4> HIDE DEF g
      <4> QED BY <3>2, <3>4, <4>1
    <3> QED BY <3>3, <3>4
  <2> HIDE DEF g
  <2>7. \A i \in 0 .. Len(s) : g[i] \in Seq(T)
    <3> DEFINE Typed == {n \in Nat : n <= Len(s) => g[n] \in Seq(T)}
    <3>1. 0 \in Typed
      <4>1. g[0] \in Seq(T)
        BY <2>5
      <4> QED BY <4>1
    <3>2. \A n \in Nat : n \in Typed => n + 1 \in Typed
      <4> SUFFICES ASSUME NEW n \in Nat, n \in Typed, n + 1 <= Len(s) PROVE g[n + 1] \in Seq(T)
        OBVIOUS
      <4>1. n + 1 \in 1 .. Len(s) /\ (n + 1) - 1 = n /\ n <= Len(s)
        BY <1>0
      <4>2. g[n] \in Seq(T) /\ s[n + 1] \in Seq(T)
        BY <1>0, <4>1
      <4>3. g[n + 1] = g[n] \o s[n + 1]
        BY <2>6, <4>1, <4>2
      <4> QED BY <4>2, <4>3, JoinIs
    <3>3. Nat \subseteq Typed
      <4> HIDE DEF Typed
      <4> QED BY <3>1, <3>2, NatInSet
    <3> QED BY <1>0, <3>3
  <2> DEFINE off == [i \in 0 .. Len(s) |-> Len(g[i])]
  <2>8. \A i \in 0 .. Len(s) : Len(g[i]) \in Nat /\ off[i] = Len(g[i])
    BY <2>7
  <2>9. off \in [0 .. Len(s) -> Nat] /\ off[0] = 0 /\ off[Len(s)] = Len(FlattenSeq(s))
    <3>1. 0 \in 0 .. Len(s) /\ Len(s) \in 0 .. Len(s)
      BY <1>0
    <3>2. off[0] = Len(g[0]) /\ off[Len(s)] = Len(g[Len(s)])
      BY <2>8, <3>1
    <3>3. Len(<< >>) = 0
      OBVIOUS
    <3>4. off[0] = 0
      BY <2>5, <3>2, <3>3
    <3>5. off[Len(s)] = Len(FlattenSeq(s))
      BY <2>5, <3>2
    <3>6. off \in [0 .. Len(s) -> Nat]
      BY <2>8
    <3> QED BY <3>4, <3>5, <3>6
  <2> HIDE DEF off
  <2>10. ASSUME NEW i \in 1 .. Len(s)
         PROVE  /\ off[i - 1] \in Nat /\ off[i] \in Nat /\ off[i] = off[i - 1] + Len(s[i])
                /\ \A j \in 1 .. off[i - 1] : g[i][j] = g[i - 1][j]
                /\ \A j \in 1 .. Len(s[i]) : g[i][off[i - 1] + j] = s[i][j]
    <3>1. i \in 0 .. Len(s) /\ i - 1 \in 0 .. Len(s)
      BY <1>0
    <3> DEFINE a == g[i - 1]
               b == s[i]
               c == g[i]
    <3>2. a \in Seq(T) /\ b \in Seq(T) /\ off[i - 1] = Len(a) /\ off[i] = Len(c)
      BY <1>0, <2>7, <2>8, <3>1
    <3>3. c = a \o b
      BY <2>6, <3>2
    <3> HIDE DEF a, b, c
    <3>4. /\ Len(a) \in Nat /\ Len(b) \in Nat /\ Len(c) = Len(a) + Len(b)
          /\ \A j \in 1 .. Len(a) : c[j] = a[j]
          /\ \A j \in 1 .. Len(b) : c[Len(a) + j] = b[j]
      BY <3>2, <3>3, JoinIs
    <3>5. off[i - 1] \in Nat /\ off[i] \in Nat /\ off[i] = off[i - 1] + Len(b)
      BY <3>2, <3>4
    <3>6. /\ \A j \in 1 .. off[i - 1] : c[j] = a[j]
          /\ \A j \in 1 .. Len(b) : c[off[i - 1] + j] = b[j]
      BY <3>2, <3>4
    <3> QED BY <3>5, <3>6 DEF a, b, c
  <2>11. ASSUME NEW i \in 1 .. Len(s)
         PROVE  off[i] <= off[Len(s)] /\ \A j \in 1 .. off[i] : g[Len(s)][j] = g[i][j]
    <3> DEFINE Kept == {d \in Nat : i + d <= Len(s) =>
                          off[i] <= off[i + d] /\ \A j \in 1 .. off[i] : g[i + d][j] = g[i][j]}
    <3>0. off[i] \in Nat
      BY <2>10
    <3>1. 0 \in Kept
      <4>1. i + 0 = i
        OBVIOUS
      <4> QED BY <3>0, <4>1
    <3>2. \A d \in Nat : d \in Kept => d + 1 \in Kept
      <4> SUFFICES ASSUME NEW d \in Nat, d \in Kept, i + (d + 1) <= Len(s)
                   PROVE  /\ off[i] <= off[i + (d + 1)]
                          /\ \A j \in 1 .. off[i] : g[i + (d + 1)][j] = g[i][j]
        OBVIOUS
      <4> DEFINE k == i + (d + 1)
      <4>1. k \in 1 .. Len(s) /\ k - 1 = i + d /\ i + d <= Len(s)
        BY <1>0
      <4>2. off[i] <= off[k - 1] /\ \A j \in 1 .. off[i] : g[k - 1][j] = g[i][j]
        BY <4>1
      <4> HIDE DEF k
      <4>3. /\ off[k - 1] \in Nat /\ off[k] = off[k - 1] + Len(s[k]) /\ Len(s[k]) \in Nat
            /\ \A j \in 1 .. off[k - 1] : g[k][j] = g[k - 1][j]
        BY <1>0, <2>10, <4>1
      <4>4. off[i] <= off[k] /\ \A j \in 1 .. off[i] : j \in 1 .. off[k - 1]
        BY <3>0, <4>2, <4>3
      <4>5. \A j \in 1 .. off[i] : g[k][j] = g[i][j]
        BY <4>2, <4>3, <4>4
      <4> QED BY <4>4, <4>5 DEF k
    <3>3. Nat \subseteq Kept
      <4> HIDE DEF Kept
      <4> QED BY <3>1, <3>2, NatInSet
    <3> DEFINE d == Len(s) - i
    <3>4. d \in Nat /\ i + d = Len(s)
      BY <1>0
    <3> HIDE DEF d
    <3>5. d \in Kept
      BY <3>3, <3>4
    <3>6. i + d <= Len(s)
      BY <1>0, <3>4
    <3>7. off[i] <= off[i + d] /\ \A j \in 1 .. off[i] : g[i + d][j] = g[i][j]
      BY <3>5, <3>6
    <3> QED BY <3>4, <3>7
  <2>12. \A i \in 1 .. Len(s) :
           /\ off[i] = off[i - 1] + Len(s[i]) /\ off[i] <= Len(FlattenSeq(s))
           /\ \A j \in 1 .. Len(s[i]) : FlattenSeq(s)[off[i - 1] + j] = s[i][j]
    <3> SUFFICES ASSUME NEW i \in 1 .. Len(s), NEW j \in 1 .. Len(s[i])
                 PROVE  FlattenSeq(s)[off[i - 1] + j] = s[i][j]
      BY <2>9, <2>10, <2>11
    <3>1. Len(s[i]) \in Nat /\ off[i - 1] \in Nat /\ off[i] = off[i - 1] + Len(s[i])
      BY <1>0, <2>10
    <3>2. off[i - 1] + j \in 1 .. off[i]
      BY <3>1
    <3>3. g[Len(s)][off[i - 1] + j] = g[i][off[i - 1] + j]
      BY <2>11, <3>2
    <3> QED BY <2>5, <2>10, <3>3
  <2>13. FlattenSeq(s) \in Seq(T)
    BY <1>0, <2>5, <2>7
  <2>14. IsSplit(off, s, FlattenSeq(s))
    BY <2>9, <2>12 DEF IsSplit
  <2> QED BY <2>13, <2>14
<1> QED BY <1>1, <1>2

(* What a hello is made of. *)
EntryType == [type : Nat, name : Seq(Nat)]
ExtensionType == [type : Nat, entries : Seq(EntryType)]

(* The first place of a type. *)
LEMMA FirstOfTypeIs ==
  ASSUME NEW T, NEW s \in Seq(T)
  PROVE  LET at == FirstOfType(s)
         IN  /\ at \in 0 .. Len(s)
             /\ at = 0 => \A i \in 1 .. Len(s) : s[i].type # ServerName
             /\ at # 0 => s[at].type = ServerName /\ \A i \in 1 .. at - 1 : s[i].type # ServerName
<1> DEFINE I == {i \in 1 .. Len(s) : s[i].type = ServerName}
<1>1. I \in SUBSET Nat /\ I \subseteq 1 .. Len(s) /\ Len(s) \in Nat
  OBVIOUS
<1>2. FirstOfType(s) = IF I # {} THEN Min(I) ELSE 0
  BY DEF FirstOfType, SelectInSeq
<1>3. CASE I = {}
  BY <1>1, <1>2, <1>3
<1>4. CASE I # {}
  <2> DEFINE at == Min(I)
  <2>1. at \in I /\ \A i \in I : at <= i
    BY <1>1, <1>4, LeastIs
  <2>2. FirstOfType(s) = at /\ at \in 1 .. Len(s) /\ s[at].type = ServerName
    BY <1>2, <1>4, <2>1
  <2>3. \A i \in 1 .. at - 1 : s[i].type # ServerName
    BY <2>1, <2>2
  <2> QED BY <1>1, <2>2, <2>3
<1> QED BY <1>3, <1>4

(* A sequence with one element put before it. *)
LEMMA PrependIs ==
  ASSUME NEW T, NEW x \in T, NEW s \in Seq(T)
  PROVE  /\ <<x>> \o s \in Seq(T) /\ Len(s) \in Nat /\ Len(<<x>> \o s) = 1 + Len(s)
         /\ (<<x>> \o s)[1] = x
         /\ \A j \in 1 .. Len(s) : (<<x>> \o s)[1 + j] = s[j]
<1> DEFINE a == <<x>>
<1>1. a \in Seq(T) /\ Len(a) = 1 /\ a[1] = x
  OBVIOUS
<1> HIDE DEF a
<1>2. /\ a \o s \in Seq(T) /\ Len(s) \in Nat /\ Len(a \o s) = Len(a) + Len(s)
      /\ \A i \in 1 .. Len(a) : (a \o s)[i] = a[i]
      /\ \A i \in 1 .. Len(s) : (a \o s)[Len(a) + i] = s[i]
  <2>1. a \in Seq(T)
    BY <1>1
  <2> QED BY <2>1, JoinIs
<1>3. 1 \in 1 .. 1
  OBVIOUS
<1>4. /\ a \o s \in Seq(T) /\ Len(s) \in Nat /\ Len(a \o s) = 1 + Len(s)
      /\ (a \o s)[1] = x
      /\ \A i \in 1 .. Len(s) : (a \o s)[1 + i] = s[i]
  BY <1>1, <1>2, <1>3
<1> QED BY <1>4 DEF a

(* A vector of TLS is its contents after their length. *)
LEMMA VectorIs ==
  ASSUME NEW s \in Seq(Nat)
  PROVE  /\ Vector(s) \in Seq(Nat) /\ Len(s) \in Nat /\ Len(Vector(s)) = 1 + Len(s)
         /\ Vector(s)[1] = Len(s)
         /\ \A j \in 1 .. Len(s) : Vector(s)[1 + j] = s[j]
<1>1. Len(s) \in Nat /\ Vector(s) = <<Len(s)>> \o s
  BY DEF Vector
<1> QED BY <1>1, PrependIs

(* An entry is encoded as its type, the length of its name and the name. *)
LEMMA EncodedEntryIs ==
  ASSUME NEW e \in EntryType
  PROVE  /\ EncodedEntry(e) \in Seq(Nat) /\ Len(e.name) \in Nat
         /\ Len(EncodedEntry(e)) = 2 + Len(e.name)
         /\ EncodedEntry(e)[1] = e.type /\ EncodedEntry(e)[2] = Len(e.name)
         /\ \A j \in 1 .. Len(e.name) : EncodedEntry(e)[2 + j] = e.name[j]
<1> DEFINE v == Vector(e.name)
<1>0. e.name \in Seq(Nat) /\ e.type \in Nat
  BY DEF EntryType
<1>2. /\ v \in Seq(Nat) /\ Len(e.name) \in Nat /\ Len(v) = 1 + Len(e.name)
      /\ v[1] = Len(e.name) /\ \A j \in 1 .. Len(e.name) : v[1 + j] = e.name[j]
  BY <1>0, VectorIs
<1>3. EncodedEntry(e) = <<e.type>> \o v
  BY DEF EncodedEntry
<1> HIDE DEF v
<1> DEFINE c == EncodedEntry(e)
<1>4. /\ c \in Seq(Nat) /\ Len(c) = 1 + Len(v) /\ c[1] = e.type
      /\ \A i \in 1 .. Len(v) : c[1 + i] = v[i]
  BY <1>0, <1>2, <1>3, PrependIs
<1> HIDE DEF c
<1>5. 1 \in 1 .. Len(v) /\ 1 + 1 = 2 /\ 1 + Len(v) = 2 + Len(e.name)
  BY <1>2
<1>6. \A j \in 1 .. Len(e.name) : 1 + j \in 1 .. Len(v) /\ 1 + (1 + j) = 2 + j
  BY <1>2
<1>7. /\ c \in Seq(Nat) /\ Len(c) = 2 + Len(e.name) /\ c[1] = e.type /\ c[2] = Len(e.name)
      /\ \A j \in 1 .. Len(e.name) : c[2 + j] = e.name[j]
  BY <1>2, <1>4, <1>5, <1>6
<1> QED BY <1>2, <1>7 DEF c

(* The loop over the entries of an extension. *)
EntryStops(data) ==
  {pos \in Nat : pos + 1 >= Len(data) \/ pos + 1 + data[pos + 1] > Len(data)
                 \/ data[pos] = ServerName}
EntryName(data, pos) ==
  IF pos + 1 >= Len(data) \/ pos + 1 + data[pos + 1] > Len(data) THEN NoName
  ELSE SubSeq(data, pos + 2, pos + 1 + data[pos + 1])
IsEntryLoop(f, data) ==
  \A pos \in Nat : f[pos] = IF pos \in EntryStops(data) THEN EntryName(data, pos)
                            ELSE f[pos + 2 + data[pos + 1]]

(* The loop over entries computes a function, for any bytes. *)
LEMMA EntryLoop ==
  ASSUME NEW data \in Seq(Nat)
  PROVE  \E f : parse_server_name_extension(data) = f[2] /\ IsEntryLoop(f, data)
<1> DEFINE Body(f, pos) ==
             IF pos + 1 >= Len(data) THEN NoName
             ELSE LET len == data[pos + 1]
                  IN  IF pos + 1 + len > Len(data) THEN NoName
                      ELSE IF data[pos] = ServerName THEN SubSeq(data, pos + 2, pos + 1 + len)
                      ELSE f[pos + 2 + len]
           next == [pos \in Nat |-> pos + 2 + data[pos + 1]]
           v == [pos \in Nat |-> EntryName(data, pos)]
           Stop == EntryStops(data)
<1>1. Len(data) \in Nat /\ \A i \in 1 .. Len(data) : data[i] \in Nat
  OBVIOUS
<1>2. \A pos \in Nat \ Stop : next[pos] \in Nat
  <2> SUFFICES ASSUME NEW pos \in Nat, pos \notin Stop PROVE next[pos] \in Nat
    OBVIOUS
  <2>1. ~(pos + 1 >= Len(data))
    BY DEF EntryStops
  <2>2. data[pos + 1] \in Nat
    BY <1>1, <2>1
  <2> QED BY <2>2
<1>3. \A f, pos : pos \in Nat =>
        Body(f, pos) = IF pos \in Stop THEN v[pos] ELSE f[next[pos]]
  <2> SUFFICES ASSUME NEW f, NEW pos \in Nat
               PROVE  Body(f, pos) = IF pos \in Stop THEN v[pos] ELSE f[next[pos]]
    OBVIOUS
  <2> QED BY DEF EntryStops, EntryName
<1>4. \E f : f = [pos \in Nat |-> IF pos \in Stop THEN v[pos] ELSE f[next[pos]]]
  <2> HIDE DEF Stop, v, next
  <2>1. \A x \in Nat \ Stop : next[x] \in Nat
    BY <1>2
  <2>2. PICK f : IsLoop(f, Nat, Stop, next, v)
    BY <2>1, LoopIsFunction
  <2> QED BY <2>2 DEF IsLoop
<1>5. \E f : f = [pos \in Nat |-> Body(f, pos)]
  <2> HIDE DEF Body, Stop, v, next
  <2>1. PICK f : f = [pos \in Nat |-> IF pos \in Stop THEN v[pos] ELSE f[next[pos]]]
    BY <1>4
  <2>2. f = [pos \in Nat |-> Body(f, pos)]
    BY <1>3, <2>1
  <2> QED BY <2>2
<1> DEFINE f == CHOOSE f : f = [pos \in Nat |-> Body(f, pos)]
<1>6. parse_server_name_extension(data) = f[2]
  BY DEF parse_server_name_extension
<1>7. f = [pos \in Nat |-> Body(f, pos)]
  <2> HIDE DEF Body
  <2> QED BY <1>5
<1> HIDE DEF f
<1>8. \A pos \in Nat : f[pos] = IF pos \in Stop THEN v[pos] ELSE f[next[pos]]
  <2> HIDE DEF Body, Stop, v, next
  <2> QED BY <1>3, <1>7
<1>9. \A pos \in Nat : f[pos] = IF pos \in Stop THEN EntryName(data, pos)
                                ELSE f[pos + 2 + data[pos + 1]]
  BY <1>8
<1>10. IsEntryLoop(f, data)
  BY <1>9 DEF IsEntryLoop
<1> QED BY <1>6, <1>10

(* A value that is the same from each place to the next is the same at all.*)
LEMMA SameToTheEnd ==
  ASSUME NEW g, NEW n \in Nat, \A i \in 1 .. n : g[i - 1] = g[i]
  PROVE  g[0] = g[n]
<1> DEFINE Same == {m \in Nat : m <= n => g[0] = g[m]}
<1>1. 0 \in Same
  OBVIOUS
<1>2. \A m \in Nat : m \in Same => m + 1 \in Same
  <2> SUFFICES ASSUME NEW m \in Nat, m \in Same, m + 1 <= n PROVE g[0] = g[m + 1]
    OBVIOUS
  <2>1. m + 1 \in 1 .. n /\ (m + 1) - 1 = m
    OBVIOUS
  <2>2. g[0] = g[m] /\ g[(m + 1) - 1] = g[m + 1]
    BY <2>1
  <2> QED BY <2>1, <2>2
<1>3. Nat \subseteq Same
  <2> HIDE DEF Same
  <2> QED BY <1>1, <1>2, NatInSet
<1> QED BY <1>3

(* What the loop makes of an entry that it meets. *)
HoldsEntry(data, pos, e) ==
  /\ pos >= 1 /\ data[pos] = e.type /\ data[pos + 1] = Len(e.name)
  /\ pos + 1 + Len(e.name) <= Len(data)
  /\ \A j \in 1 .. Len(e.name) : data[pos + 1 + j] = e.name[j]

(* It is the host name, or the loop goes on after it. *)
LEMMA EntryAt ==
  ASSUME NEW data \in Seq(Nat), NEW f, IsEntryLoop(f, data),
         NEW e \in EntryType, NEW pos \in Nat, HoldsEntry(data, pos, e)
  PROVE  f[pos] = IF e.type = ServerName THEN e.name ELSE f[pos + 2 + Len(e.name)]
<1> DEFINE name == e.name
           l == Len(name)
<1>1. /\ name \in Seq(Nat) /\ l \in Nat /\ Len(data) \in Nat /\ pos >= 1
      /\ data[pos] = e.type /\ data[pos + 1] = l /\ pos + 1 + l <= Len(data)
      /\ \A j \in 1 .. l : data[pos + 1 + j] = name[j]
      /\ l = Len(name)
  BY DEF EntryType, HoldsEntry
<1>2. f[pos] = IF pos \in EntryStops(data) THEN EntryName(data, pos) ELSE f[pos + 2 + l]
  BY <1>1 DEF IsEntryLoop
<1> HIDE DEF l, name
<1>3. CASE pos + 1 >= Len(data)
  <2>1. l = 0 /\ pos + 2 \in Nat
    BY <1>1, <1>3
  <2>2. name = NoName
    BY <1>1, <2>1, EmptySeq DEF NoName
  <2>3. \A p \in Nat : p + 1 >= Len(data) => p \in EntryStops(data) /\ EntryName(data, p) = NoName
    BY DEF EntryStops, EntryName
  <2>4. f[pos] = NoName
    BY <1>3, <2>3 DEF IsEntryLoop
  <2>5. (pos + 2) + 1 >= Len(data)
    BY <1>1, <1>3
  <2>6. f[pos + 2] = NoName
    BY <2>1, <2>3, <2>5 DEF IsEntryLoop
  <2>7. pos + 2 + l = pos + 2
    BY <2>1
  <2>8. f[pos + 2 + l] = NoName
    BY <2>6, <2>7
  <2>9. f[pos] = IF e.type = ServerName THEN name ELSE f[pos + 2 + l]
    BY <2>2, <2>4, <2>8
  <2> QED BY <2>9 DEF l, name
<1>4. CASE ~(pos + 1 >= Len(data))
  <2>1. ~(pos + 1 + data[pos + 1] > Len(data))
    BY <1>1
  <2>2. pos \in EntryStops(data) <=> e.type = ServerName
    BY <1>1, <1>4, <2>1 DEF EntryStops
  <2>3. EntryName(data, pos) = SubSeq(data, pos + 2, pos + 1 + data[pos + 1])
    BY <1>4, <2>1 DEF EntryName
  <2>4. SubSeq(data, pos + 2, pos + 1 + l) = name
    <3> DEFINE m == pos + 2
               n == pos + 1 + l
               t == SubSeq(data, m, n)
    <3>1. m \in Nat /\ n \in Nat /\ 1 <= m /\ m <= n + 1 /\ n <= Len(data) /\ n + 1 - m = l
      BY <1>1
    <3>2. \A j \in 1 .. l : m + j - 1 = pos + 1 + j
      BY <1>1
    <3> HIDE DEF m, n
    <3>3. t \in Seq(Nat) /\ Len(t) = n + 1 - m /\ \A j \in 1 .. n + 1 - m : t[j] = data[m + j - 1]
      BY <3>1, SliceIs
    <3>4. Len(t) = l /\ \A j \in 1 .. l : t[j] = data[m + j - 1]
      BY <3>1, <3>3
    <3>5. \A j \in 1 .. l : t[j] = name[j]
      BY <1>1, <3>2, <3>4
    <3> HIDE DEF t
    <3>6. t = name
      BY <1>1, <3>3, <3>4, <3>5, SeqEqual
    <3> QED BY <3>6 DEF t, m, n
  <2>5. f[pos] = IF e.type = ServerName THEN name ELSE f[pos + 2 + l]
    BY <1>1, <1>2, <2>2, <2>3, <2>4
  <2> QED BY <2>5 DEF l, name
<1> QED BY <1>3, <1>4

(* The entries of an extension are read to the first host name. *)
LEMMA EntriesAreRead ==
  ASSUME NEW entries \in Seq(EntryType)
  PROVE  LET s == [i \in DOMAIN entries |-> EncodedEntry(entries[i])]
             h == FirstOfType(entries)
         IN  /\ FlattenSeq(s) \in Seq(Nat)
             /\ parse_server_name_extension(Vector(FlattenSeq(s))) =
                  IF h = 0 THEN NoName ELSE entries[h].name
<1> DEFINE s == [i \in DOMAIN entries |-> EncodedEntry(entries[i])]
           h == FirstOfType(entries)
           flat == FlattenSeq(s)
           data == Vector(flat)
           N == Len(entries)
<1>1. N \in Nat /\ DOMAIN entries = 1 .. N /\ \A i \in 1 .. N : entries[i] \in EntryType
  OBVIOUS
<1>2. \A i \in 1 .. N : s[i] = EncodedEntry(entries[i]) /\ s[i] \in Seq(Nat)
  BY <1>1, EncodedEntryIs
<1>3. s \in Seq(Seq(Nat)) /\ Len(s) = N
  BY <1>1, <1>2
<1> HIDE DEF s, N
<1>4. PICK off \in [0 .. N -> Nat] :
        /\ off[0] = 0 /\ off[N] = Len(flat)
        /\ \A i \in 1 .. N :
             /\ off[i] = off[i - 1] + Len(s[i]) /\ off[i] <= Len(flat)
             /\ \A j \in 1 .. Len(s[i]) : flat[off[i - 1] + j] = s[i][j]
  <2>1. PICK off : IsSplit(off, s, flat)
    BY <1>3, FlattenedIs
  <2> HIDE DEF flat
  <2>2. off \in [0 .. N -> Nat] /\ off[0] = 0 /\ off[N] = Len(flat)
    BY <1>3, <2>1 DEF IsSplit
  <2> QED BY <1>3, <2>1, <2>2 DEF IsSplit
<1>5. flat \in Seq(Nat)
  BY <1>3, FlattenedIs
<1> HIDE DEF flat
<1>6. /\ data \in Seq(Nat) /\ Len(flat) \in Nat /\ Len(data) = 1 + Len(flat)
      /\ \A j \in 1 .. Len(flat) : data[1 + j] = flat[j]
  BY <1>5, VectorIs
<1> HIDE DEF data
<1>7. PICK f : parse_server_name_extension(data) = f[2] /\ IsEntryLoop(f, data)
  BY <1>6, EntryLoop
<1>8. ASSUME NEW i \in 1 .. N
      PROVE  /\ off[i - 1] \in Nat /\ off[i] \in Nat
             /\ f[2 + off[i - 1]] = IF entries[i].type = ServerName THEN entries[i].name
                                    ELSE f[2 + off[i]]
  <2> DEFINE e == entries[i]
             l == Len(e.name)
             p == off[i - 1]
             pos == 2 + p
             c == s[i]
  <2>1. /\ e \in EntryType /\ c = EncodedEntry(e) /\ i \in 0 .. N /\ i - 1 \in 0 .. N
    BY <1>1, <1>2
  <2>2. p \in Nat /\ off[i] \in Nat /\ pos \in Nat /\ pos >= 1
    BY <2>1
  <2> HIDE DEF e, p
  <2>3. /\ l \in Nat /\ Len(c) = 2 + l /\ c[1] = e.type /\ c[2] = l
        /\ \A j \in 1 .. l : c[2 + j] = e.name[j]
    BY <2>1, EncodedEntryIs
  <2> HIDE DEF l, c
  <2>4. /\ off[i] = p + Len(c) /\ off[i] <= Len(flat)
        /\ \A j \in 1 .. Len(c) : flat[p + j] = c[j]
    BY <1>4 DEF p, c
  <2>5. \A j \in 1 .. 2 + l : p + j \in 1 .. Len(flat) /\ 1 + (p + j) = 1 + p + j
    BY <1>6, <2>2, <2>3, <2>4
  <2>6. \A j \in 1 .. 2 + l : data[1 + p + j] = c[j]
    BY <1>6, <2>3, <2>4, <2>5
  <2>7. /\ 1 \in 1 .. 2 + l /\ 2 \in 1 .. 2 + l /\ \A j \in 1 .. l : 2 + j \in 1 .. 2 + l
        /\ 1 + p + 1 = pos /\ 1 + p + 2 = pos + 1
        /\ \A j \in 1 .. l : 1 + p + (2 + j) = pos + 1 + j
    BY <2>2, <2>3
  <2>8. /\ data[pos] = e.type /\ data[pos + 1] = l
        /\ \A j \in 1 .. l : data[pos + 1 + j] = e.name[j]
    <3>1. data[1 + p + 1] = c[1] /\ data[1 + p + 2] = c[2]
      BY <2>6, <2>7
    <3>2. \A j \in 1 .. l : data[1 + p + (2 + j)] = c[2 + j]
      BY <2>6, <2>7
    <3> QED BY <2>3, <2>7, <3>1, <3>2
  <2>9. pos + 1 + l <= Len(data) /\ pos + 2 + l = 2 + off[i]
    BY <1>6, <2>2, <2>3, <2>4
  <2> HIDE DEF pos
  <2>10. f[pos] = IF e.type = ServerName THEN e.name ELSE f[pos + 2 + l]
    <3>1. HoldsEntry(data, pos, e)
      <4>1. pos + 1 + l <= Len(data) /\ pos >= 1
        BY <2>2, <2>9
      <4> QED BY <2>8, <4>1 DEF l, HoldsEntry
    <3>2. f[pos] = IF e.type = ServerName THEN e.name ELSE f[pos + 2 + Len(e.name)]
      <4>1. data \in Seq(Nat) /\ IsEntryLoop(f, data) /\ e \in EntryType /\ pos \in Nat
        BY <1>6, <1>7, <2>1, <2>2
      <4> QED BY <3>1, <4>1, EntryAt
    <3> QED BY <3>2 DEF l
  <2> QED BY <2>2, <2>9, <2>10 DEF pos, p, e
<1> DEFINE g == [i \in 0 .. N |-> f[2 + off[i]]]
<1>9. h \in 0 .. N /\ (h = 0 => \A i \in 1 .. N : entries[i].type # ServerName)
      /\ (h # 0 => entries[h].type = ServerName /\ \A i \in 1 .. h - 1 : entries[i].type # ServerName)
  BY <1>1, FirstOfTypeIs DEF N
<1> HIDE DEF h
<1>10. \A i \in 1 .. N : i \in 0 .. N /\ i - 1 \in 0 .. N
  BY <1>1
<1>11. \A i \in 1 .. N : entries[i].type # ServerName => g[i - 1] = g[i]
  BY <1>8, <1>10
<1>12. g[0] = f[2]
  <2>1. 0 \in 0 .. N /\ 2 + off[0] = 2
    BY <1>1, <1>4
  <2> QED BY <2>1
<1>13. CASE h = 0
  <2>1. g[0] = g[N]
    <3> HIDE DEF g
    <3> QED BY <1>1, <1>9, <1>11, <1>13, SameToTheEnd
  <2>2. N \in 0 .. N /\ g[N] = f[2 + Len(flat)]
    BY <1>1, <1>4
  <2>3. 2 + Len(flat) \in Nat /\ (2 + Len(flat)) + 1 >= Len(data)
    BY <1>6
  <2>4. f[2 + Len(flat)] = NoName
    <3> DEFINE p == 2 + Len(flat)
    <3>1. p \in Nat /\ p + 1 >= Len(data)
      BY <2>3
    <3> HIDE DEF p
    <3>2. f[p] = NoName
      BY <1>7, <3>1 DEF IsEntryLoop, EntryStops, EntryName
    <3> QED BY <3>2 DEF p
  <2>5. parse_server_name_extension(data) = NoName
    BY <1>7, <1>12, <2>1, <2>2, <2>4
  <2> QED BY <1>5, <1>13, <2>5 DEF s, flat, data, h
<1>14. CASE h # 0
  <2>1. h \in 1 .. N /\ h - 1 \in Nat /\ h - 1 \in 0 .. N
    BY <1>1, <1>9, <1>14
  <2>2. \A i \in 1 .. h - 1 : i \in 1 .. N
    BY <1>1, <2>1
  <2>3. g[0] = g[h - 1]
    <3>1. \A i \in 1 .. h - 1 : g[i - 1] = g[i]
      BY <1>9, <1>11, <1>14, <2>2
    <3> DEFINE m == h - 1
    <3> HIDE DEF g, m
    <3>2. m \in Nat /\ \A i \in 1 .. m : g[i - 1] = g[i]
      BY <2>1, <3>1 DEF m
    <3>3. g[0] = g[m]
      BY <3>2, SameToTheEnd
    <3> QED BY <3>3 DEF m
  <2>4. g[h - 1] = f[2 + off[h - 1]]
    BY <2>1
  <2>5. f[2 + off[h - 1]] = entries[h].name
    BY <1>8, <1>9, <1>14, <2>1
  <2>6. parse_server_name_extension(data) = entries[h].name
    BY <1>7, <1>12, <2>3, <2>4, <2>5
  <2> QED BY <1>5, <1>14, <2>6 DEF s, flat, data, h
<1> QED BY <1>13, <1>14

(* An extension is its type and the length of contents that are read to    *)
(* the first host name in it.                                              *)
LEMMA EncodedExtensionIs ==
  ASSUME NEW e \in ExtensionType
  PROVE  \E v \in Seq(Nat) :
           /\ Len(v) \in Nat
           /\ EncodedExtension(e) \in Seq(Nat) /\ Len(EncodedExtension(e)) = 2 + Len(v)
           /\ EncodedExtension(e)[1] = e.type /\ EncodedExtension(e)[2] = Len(v)
           /\ \A j \in 1 .. Len(v) : EncodedExtension(e)[2 + j] = v[j]
           /\ parse_server_name_extension(v) =
                LET h == FirstOfType(e.entries) IN IF h = 0 THEN NoName ELSE e.entries[h].name
<1> DEFINE entries == e.entries
           flat == FlattenSeq([i \in DOMAIN entries |-> EncodedEntry(entries[i])])
           v == Vector(flat)
           w == Vector(v)
           c == EncodedExtension(e)
           h == FirstOfType(entries)
<1>0. entries \in Seq(EntryType) /\ e.type \in Nat
  BY DEF ExtensionType
<1>1. c = <<e.type>> \o w
  BY DEF EncodedExtension
<1>2. /\ flat \in Seq(Nat)
      /\ parse_server_name_extension(v) = IF h = 0 THEN NoName ELSE entries[h].name
  <2> HIDE DEF entries
  <2> QED BY <1>0, EntriesAreRead
<1> HIDE DEF flat, c
<1>3. v \in Seq(Nat)
  BY <1>2, VectorIs
<1> HIDE DEF v
<1>4. /\ w \in Seq(Nat) /\ Len(v) \in Nat /\ Len(w) = 1 + Len(v)
      /\ w[1] = Len(v) /\ \A j \in 1 .. Len(v) : w[1 + j] = v[j]
  BY <1>3, VectorIs
<1> HIDE DEF w
<1>5. /\ c \in Seq(Nat) /\ Len(c) = 1 + Len(w) /\ c[1] = e.type
      /\ \A i \in 1 .. Len(w) : c[1 + i] = w[i]
  BY <1>0, <1>1, <1>4, PrependIs
<1>6. 1 \in 1 .. Len(w) /\ 1 + 1 = 2 /\ 1 + Len(w) = 2 + Len(v)
  BY <1>4
<1>7. \A j \in 1 .. Len(v) : 1 + j \in 1 .. Len(w) /\ 1 + (1 + j) = 2 + j
  BY <1>4
<1>8. /\ c \in Seq(Nat) /\ Len(c) = 2 + Len(v) /\ c[1] = e.type /\ c[2] = Len(v)
      /\ \A j \in 1 .. Len(v) : c[2 + j] = v[j]
  BY <1>4, <1>5, <1>6, <1>7
<1> QED BY <1>2, <1>3, <1>4, <1>8 DEF c

(* The loop over the extensions. *)
ExtensionStops(data) == {pos \in Nat : pos + 1 > Len(data) \/ data[pos] = ServerName}
ExtensionName(data, pos) ==
  IF pos + 1 > Len(data) \/ pos + 1 + data[pos + 1] > Len(data) THEN NoName
  ELSE parse_server_name_extension(SubSeq(data, pos + 2, pos + 1 + data[pos + 1]))
IsExtensionLoop(f, data) ==
  \A pos \in Nat : f[pos] = IF pos \in ExtensionStops(data) THEN ExtensionName(data, pos)
                            ELSE f[pos + 2 + data[pos + 1]]

(* The loop over extensions computes a function, for any bytes. *)
LEMMA ExtensionLoop ==
  ASSUME NEW data \in Seq(Nat)
  PROVE  \E f : parse_extensions(data) = f[1] /\ IsExtensionLoop(f, data)
<1> DEFINE Body(f, pos) ==
             IF pos + 1 > Len(data) THEN NoName
             ELSE LET len == data[pos + 1]
                  IN  IF data[pos] # ServerName THEN f[pos + 2 + len]
                      ELSE IF pos + 1 + len > Len(data) THEN NoName
                      ELSE parse_server_name_extension(SubSeq(data, pos + 2, pos + 1 + len))
           next == [pos \in Nat |-> pos + 2 + data[pos + 1]]
           v == [pos \in Nat |-> ExtensionName(data, pos)]
           Stop == ExtensionStops(data)
<1>1. Len(data) \in Nat /\ \A i \in 1 .. Len(data) : data[i] \in Nat
  OBVIOUS
<1>2. \A pos \in Nat \ Stop : next[pos] \in Nat
  <2> SUFFICES ASSUME NEW pos \in Nat, pos \notin Stop PROVE next[pos] \in Nat
    OBVIOUS
  <2>1. ~(pos + 1 > Len(data))
    BY DEF ExtensionStops
  <2>2. data[pos + 1] \in Nat
    BY <1>1, <2>1
  <2> QED BY <2>2
<1>3. \A f, pos : pos \in Nat =>
        Body(f, pos) = IF pos \in Stop THEN v[pos] ELSE f[next[pos]]
  <2> SUFFICES ASSUME NEW f, NEW pos \in Nat
               PROVE  Body(f, pos) = IF pos \in Stop THEN v[pos] ELSE f[next[pos]]
    OBVIOUS
  <2> QED BY DEF ExtensionStops, ExtensionName
<1>4. \E f : f = [pos \in Nat |-> IF pos \in Stop THEN v[pos] ELSE f[next[pos]]]
  <2> HIDE DEF Stop, v, next
  <2>1. \A x \in Nat \ Stop : next[x] \in Nat
    BY <1>2
  <2>2. PICK f : IsLoop(f, Nat, Stop, next, v)
    BY <2>1, LoopIsFunction
  <2> QED BY <2>2 DEF IsLoop
<1>5. \E f : f = [pos \in Nat |-> Body(f, pos)]
  <2> HIDE DEF Body, Stop, v, next
  <2>1. PICK f : f = [pos \in Nat |-> IF pos \in Stop THEN v[pos] ELSE f[next[pos]]]
    BY <1>4
  <2>2. f = [pos \in Nat |-> Body(f, pos)]
    BY <1>3, <2>1
  <2> QED BY <2>2
<1> DEFINE f == CHOOSE f : f = [pos \in Nat |-> Body(f, pos)]
<1>6. parse_extensions(data) = f[1]
  BY DEF parse_extensions
<1>7. f = [pos \in Nat |-> Body(f, pos)]
  <2> HIDE DEF Body
  <2> QED BY <1>5
<1> HIDE DEF f
<1>8. \A pos \in Nat : f[pos] = IF pos \in Stop THEN v[pos] ELSE f[next[pos]]
  <2> HIDE DEF Body, Stop, v, next
  <2> QED BY <1>3, <1>7
<1>9. \A pos \in Nat : f[pos] = IF pos \in Stop THEN ExtensionName(data, pos)
                                ELSE f[pos + 2 + data[pos + 1]]
  BY <1>8
<1>10. IsExtensionLoop(f, data)
  BY <1>9 DEF IsExtensionLoop
<1> QED BY <1>6, <1>10

(* What the loop makes of an extension with the contents v. *)
HoldsExtension(data, pos, type, v) ==
  /\ pos >= 1 /\ data[pos] = type /\ data[pos + 1] = Len(v)
  /\ pos + 1 + Len(v) <= Len(data)
  /\ \A j \in 1 .. Len(v) : data[pos + 1 + j] = v[j]

(* It is the one for server names, or the loop goes on after it. *)
LEMMA ExtensionAt ==
  ASSUME NEW data \in Seq(Nat), NEW f, IsExtensionLoop(f, data),
         NEW type, NEW v \in Seq(Nat), NEW pos \in Nat, HoldsExtension(data, pos, type, v)
  PROVE  f[pos] = IF type = ServerName THEN parse_server_name_extension(v)
                  ELSE f[pos + 2 + Len(v)]
<1> DEFINE l == Len(v)
<1>1. /\ l \in Nat /\ Len(data) \in Nat /\ pos >= 1
      /\ data[pos] = type /\ data[pos + 1] = l /\ pos + 1 + l <= Len(data)
      /\ \A j \in 1 .. l : data[pos + 1 + j] = v[j]
      /\ l = Len(v)
  BY DEF HoldsExtension
<1> HIDE DEF l
<1>2. f[pos] = IF pos \in ExtensionStops(data) THEN ExtensionName(data, pos) ELSE f[pos + 2 + l]
  BY <1>1 DEF IsExtensionLoop
<1>3. ~(pos + 1 > Len(data)) /\ ~(pos + 1 + data[pos + 1] > Len(data))
  BY <1>1
<1>4. pos \in ExtensionStops(data) <=> type = ServerName
  BY <1>1, <1>3 DEF ExtensionStops
<1> DEFINE m == pos + 2
           n == pos + 1 + l
           t == SubSeq(data, m, n)
<1>5. ExtensionName(data, pos) = parse_server_name_extension(t)
  BY <1>1, <1>3 DEF ExtensionName
<1>6. t = v
  <2>1. m \in Nat /\ n \in Nat /\ 1 <= m /\ m <= n + 1 /\ n <= Len(data) /\ n + 1 - m = l
    BY <1>1
  <2>2. \A j \in 1 .. l : m + j - 1 = pos + 1 + j
    BY <1>1
  <2> HIDE DEF m, n
  <2>3. t \in Seq(Nat) /\ Len(t) = n + 1 - m /\ \A j \in 1 .. n + 1 - m : t[j] = data[m + j - 1]
    BY <2>1, SliceIs
  <2>4. Len(t) = l /\ \A j \in 1 .. l : t[j] = data[m + j - 1]
    BY <2>1, <2>3
  <2>5. \A j \in 1 .. l : t[j] = v[j]
    BY <1>1, <2>2, <2>4
  <2> HIDE DEF t
  <2> QED BY <1>1, <2>3, <2>4, <2>5, SeqEqual
<1> HIDE DEF t
<1>7. f[pos] = IF type = ServerName THEN parse_server_name_extension(v) ELSE f[pos + 2 + l]
  BY <1>2, <1>4, <1>5, <1>6
<1> QED BY <1>7 DEF l

(* The extensions of a hello are read to the first for server names. *)
LEMMA ExtensionsAreRead ==
  ASSUME NEW extensions \in Seq(ExtensionType)
  PROVE  LET s == [i \in DOMAIN extensions |-> EncodedExtension(extensions[i])]
         IN  /\ FlattenSeq(s) \in Seq(Nat)
             /\ parse_extensions(FlattenSeq(s)) = NameOf(extensions)
<1> DEFINE s == [i \in DOMAIN extensions |-> EncodedExtension(extensions[i])]
           h == FirstOfType(extensions)
           data == FlattenSeq(s)
           N == Len(extensions)
<1>1. N \in Nat /\ DOMAIN extensions = 1 .. N /\ \A i \in 1 .. N : extensions[i] \in ExtensionType
  OBVIOUS
<1>2. \A i \in 1 .. N : s[i] = EncodedExtension(extensions[i]) /\ s[i] \in Seq(Nat)
  BY <1>1, EncodedExtensionIs
<1>3. s \in Seq(Seq(Nat)) /\ Len(s) = N
  BY <1>1, <1>2
<1> HIDE DEF s, N
<1>4. PICK off \in [0 .. N -> Nat] :
        /\ off[0] = 0 /\ off[N] = Len(data)
        /\ \A i \in 1 .. N :
             /\ off[i] = off[i - 1] + Len(s[i]) /\ off[i] <= Len(data)
             /\ \A j \in 1 .. Len(s[i]) : data[off[i - 1] + j] = s[i][j]
  <2>1. PICK off : IsSplit(off, s, data)
    BY <1>3, FlattenedIs
  <2> HIDE DEF data
  <2>2. off \in [0 .. N -> Nat] /\ off[0] = 0 /\ off[N] = Len(data)
    BY <1>3, <2>1 DEF IsSplit
  <2> QED BY <1>3, <2>1, <2>2 DEF IsSplit
<1>5. data \in Seq(Nat)
  BY <1>3, FlattenedIs
<1> HIDE DEF data
<1>6. Len(data) \in Nat
  BY <1>5
<1>7. PICK f : parse_extensions(data) = f[1] /\ IsExtensionLoop(f, data)
  BY <1>5, ExtensionLoop
<1> DEFINE Name(e) == LET k == FirstOfType(e.entries) IN IF k = 0 THEN NoName ELSE e.entries[k].name
<1>8. ASSUME NEW i \in 1 .. N
      PROVE  /\ off[i - 1] \in Nat /\ off[i] \in Nat
             /\ f[1 + off[i - 1]] = IF extensions[i].type = ServerName THEN Name(extensions[i])
                                    ELSE f[1 + off[i]]
  <2> DEFINE e == extensions[i]
             p == off[i - 1]
             pos == 1 + p
             c == s[i]
  <2>1. /\ e \in ExtensionType /\ c = EncodedExtension(e) /\ i \in 0 .. N /\ i - 1 \in 0 .. N
    BY <1>1, <1>2
  <2>2. p \in Nat /\ off[i] \in Nat /\ pos \in Nat /\ pos >= 1
    BY <2>1
  <2> HIDE DEF e, p
  <2>3. PICK v \in Seq(Nat) :
          /\ Len(v) \in Nat /\ Len(c) = 2 + Len(v) /\ c[1] = e.type /\ c[2] = Len(v)
          /\ \A j \in 1 .. Len(v) : c[2 + j] = v[j]
          /\ parse_server_name_extension(v) = Name(e)
    BY <2>1, EncodedExtensionIs
  <2> DEFINE l == Len(v)
  <2>4. /\ l \in Nat /\ Len(c) = 2 + l /\ c[1] = e.type /\ c[2] = l
        /\ \A j \in 1 .. l : c[2 + j] = v[j]
    BY <2>3
  <2> HIDE DEF l, c
  <2>5. /\ off[i] = p + Len(c) /\ off[i] <= Len(data)
        /\ \A j \in 1 .. Len(c) : data[p + j] = c[j]
    BY <1>4 DEF p, c
  <2>6. \A j \in 1 .. 2 + l : data[p + j] = c[j]
    BY <2>4, <2>5
  <2>7. /\ 1 \in 1 .. 2 + l /\ 2 \in 1 .. 2 + l /\ \A j \in 1 .. l : 2 + j \in 1 .. 2 + l
        /\ p + 1 = pos /\ p + 2 = pos + 1
        /\ \A j \in 1 .. l : p + (2 + j) = pos + 1 + j
    BY <2>2, <2>4
  <2>8. /\ data[pos] = e.type /\ data[pos + 1] = l
        /\ \A j \in 1 .. l : data[pos + 1 + j] = v[j]
    BY <2>4, <2>6, <2>7
  <2>9. pos + 1 + l <= Len(data) /\ pos + 2 + l = 1 + off[i]
    BY <1>6, <2>2, <2>4, <2>5
  <2> HIDE DEF pos, Name
  <2>10. HoldsExtension(data, pos, e.type, v)
    BY <2>2, <2>8, <2>9 DEF l, HoldsExtension
  <2>11. f[pos] = IF e.type = ServerName THEN parse_server_name_extension(v)
                  ELSE f[pos + 2 + Len(v)]
    BY <1>5, <1>7, <2>2, <2>10, ExtensionAt
  <2>12. f[pos] = IF e.type = ServerName THEN Name(e) ELSE f[pos + 2 + l]
    BY <2>3, <2>11 DEF l
  <2> QED BY <2>2, <2>9, <2>12 DEF pos, p, e
<1> HIDE DEF Name
<1> DEFINE g == [i \in 0 .. N |-> f[1 + off[i]]]
<1>9. h \in 0 .. N /\ (h = 0 => \A i \in 1 .. N : extensions[i].type # ServerName)
      /\ (h # 0 => /\ extensions[h].type = ServerName
                   /\ \A i \in 1 .. h - 1 : extensions[i].type # ServerName)
  BY <1>1, FirstOfTypeIs DEF N
<1>15. NameOf(extensions) = IF h = 0 THEN NoName ELSE Name(extensions[h])
  <2>1. CASE h = 0
    <3>1. FirstOfType(<< >>) = 0
      <4>1. << >> \in Seq(Nat) /\ Len(<< >>) = 0
        OBVIOUS
      <4>2. FirstOfType(<< >>) \in 0 .. 0
        BY <4>1, FirstOfTypeIs
      <4> QED BY <4>2
    <3> QED BY <2>1, <3>1 DEF NameOf
  <2>2. CASE h # 0
    BY <2>2 DEF NameOf, Name
  <2> QED BY <2>1, <2>2
<1> HIDE DEF h
<1>10. \A i \in 1 .. N : i \in 0 .. N /\ i - 1 \in 0 .. N
  BY <1>1
<1>11. \A i \in 1 .. N : extensions[i].type # ServerName => g[i - 1] = g[i]
  BY <1>8, <1>10
<1>12. g[0] = f[1]
  <2>1. 0 \in 0 .. N /\ 1 + off[0] = 1
    BY <1>1, <1>4
  <2> QED BY <2>1
<1>13. CASE h = 0
  <2>1. g[0] = g[N]
    <3> HIDE DEF g
    <3> QED BY <1>1, <1>9, <1>11, <1>13, SameToTheEnd
  <2>2. N \in 0 .. N /\ g[N] = f[1 + Len(data)]
    BY <1>1, <1>4
  <2>3. f[1 + Len(data)] = NoName
    <3> DEFINE p == 1 + Len(data)
    <3>1. p \in Nat /\ p + 1 > Len(data)
      BY <1>6
    <3> HIDE DEF p
    <3>2. f[p] = NoName
      BY <1>7, <3>1 DEF IsExtensionLoop, ExtensionStops, ExtensionName
    <3> QED BY <3>2 DEF p
  <2>4. parse_extensions(data) = NoName
    BY <1>7, <1>12, <2>1, <2>2, <2>3
  <2> QED BY <1>5, <1>13, <1>15, <2>4 DEF s, data
<1>14. CASE h # 0
  <2>1. h \in 1 .. N /\ h - 1 \in Nat /\ h - 1 \in 0 .. N
    BY <1>1, <1>9, <1>14
  <2>2. \A i \in 1 .. h - 1 : i \in 1 .. N
    BY <1>1, <2>1
  <2>3. g[0] = g[h - 1]
    <3>1. \A i \in 1 .. h - 1 : g[i - 1] = g[i]
      BY <1>9, <1>11, <1>14, <2>2
    <3> DEFINE m == h - 1
    <3> HIDE DEF g, m
    <3>2. m \in Nat /\ \A i \in 1 .. m : g[i - 1] = g[i]
      BY <2>1, <3>1 DEF m
    <3>3. g[0] = g[m]
      BY <3>2, SameToTheEnd
    <3> QED BY <3>3 DEF m
  <2>4. g[h - 1] = f[1 + off[h - 1]]
    BY <2>1
  <2>5. f[1 + off[h - 1]] = Name(extensions[h])
    BY <1>8, <1>9, <1>14, <2>1
  <2>6. parse_extensions(data) = Name(extensions[h])
    BY <1>7, <1>12, <2>3, <2>4, <2>5
  <2> QED BY <1>5, <1>14, <1>15, <2>6 DEF s, data
<1> QED BY <1>13, <1>14

(* Where the fields of a hello are. *)
LEMMA HelloIs ==
  ASSUME NEW session \in Seq(Nat), NEW extensions \in Seq(ExtensionType)
  PROVE  LET hello == Hello(session, extensions)
             ls == Len(session)
         IN  \E flat \in Seq(Nat) :
               /\ parse_extensions(flat) = NameOf(extensions)
               /\ hello \in Seq(Nat) /\ ls \in Nat /\ Len(flat) \in Nat
               /\ Len(hello) = 13 + ls + Len(flat)
               /\ hello[1] = Handshake /\ hello[2] = 3 /\ hello[4] = 9 + ls + Len(flat)
               /\ hello[5] = ClientHello /\ hello[7] = ls /\ hello[8 + ls] = 2
               /\ hello[11 + ls] = 1 /\ hello[13 + ls] = Len(flat)
               /\ \A j \in 1 .. Len(flat) : hello[13 + ls + j] = flat[j]
<1> DEFINE flat == FlattenSeq([i \in DOMAIN extensions |-> EncodedExtension(extensions[i])])
           ls == Len(session)
           lf == Len(flat)
           vs == Vector(session)
           v2 == Vector(<<7, 7>>)
           v1 == Vector(<<0>>)
           vf == Vector(flat)
           b0 == <<ClientHello, 0>>
           b1 == b0 \o vs
           b2 == b1 \o v2
           b3 == b2 \o v1
           b4 == b3 \o vf
           v4 == Vector(b4)
           h0 == <<Handshake, 3, 1>>
           hello == h0 \o v4
<1>1. Hello(session, extensions) = hello
  BY DEF Hello
<1>2. flat \in Seq(Nat) /\ parse_extensions(flat) = NameOf(extensions)
  BY ExtensionsAreRead
<1> HIDE DEF flat
<1>3. ls \in Nat /\ lf \in Nat
  BY <1>2
<1>4. vs \in Seq(Nat) /\ Len(vs) = 1 + ls /\ vs[1] = ls
  BY VectorIs
<1>5. v2 \in Seq(Nat) /\ Len(v2) = 3 /\ v2[1] = 2
  <2> DEFINE t == <<7, 7>>
  <2>1. t \in Seq(Nat) /\ Len(t) = 2
    OBVIOUS
  <2> HIDE DEF t
  <2>2. Vector(t) \in Seq(Nat) /\ Len(Vector(t)) = 1 + Len(t) /\ Vector(t)[1] = Len(t)
    BY <2>1, VectorIs
  <2>3. Vector(t) \in Seq(Nat) /\ Len(Vector(t)) = 3 /\ Vector(t)[1] = 2
    BY <2>1, <2>2
  <2> QED BY <2>3 DEF t
<1>6. v1 \in Seq(Nat) /\ Len(v1) = 2 /\ v1[1] = 1
  <2> DEFINE t == <<0>>
  <2>1. t \in Seq(Nat) /\ Len(t) = 1
    OBVIOUS
  <2> HIDE DEF t
  <2>2. Vector(t) \in Seq(Nat) /\ Len(Vector(t)) = 1 + Len(t) /\ Vector(t)[1] = Len(t)
    BY <2>1, VectorIs
  <2>3. Vector(t) \in Seq(Nat) /\ Len(Vector(t)) = 2 /\ Vector(t)[1] = 1
    BY <2>1, <2>2
  <2> QED BY <2>3 DEF t
<1>7. vf \in Seq(Nat) /\ Len(vf) = 1 + lf /\ vf[1] = lf /\ \A j \in 1 .. lf : vf[1 + j] = flat[j]
  BY <1>2, VectorIs
<1>8. b0 \in Seq(Nat) /\ Len(b0) = 2 /\ b0[1] = ClientHello
  BY DEF ClientHello
<1>9. h0 \in Seq(Nat) /\ Len(h0) = 3 /\ h0[1] = Handshake /\ h0[2] = 3
  BY DEF Handshake
<1> HIDE DEF ls, lf, vs, v2, v1, vf, b0, h0
<1>10. b1 \in Seq(Nat) /\ Len(b1) = 3 + ls /\ b1[1] = ClientHello /\ b1[3] = ls
  <2>0. b1 = b0 \o vs
    OBVIOUS
  <2>00. b0 \in Seq(Nat) /\ vs \in Seq(Nat)
    BY <1>4, <1>8
  <2> HIDE DEF b1
  <2>1. /\ b1 \in Seq(Nat) /\ Len(b1) = Len(b0) + Len(vs)
        /\ \A i \in 1 .. Len(b0) : b1[i] = b0[i]
        /\ \A i \in 1 .. Len(vs) : b1[Len(b0) + i] = vs[i]
    BY <2>0, <2>00, JoinIs
  <2>2. 1 \in 1 .. 2 /\ 1 \in 1 .. 1 + ls /\ b1[2 + 1] = b1[3]
    BY <1>3
  <2> QED BY <1>3, <1>4, <1>8, <2>1, <2>2
<1> HIDE DEF b1
<1>11. b2 \in Seq(Nat) /\ Len(b2) = 6 + ls /\ b2[1] = ClientHello /\ b2[3] = ls /\ b2[4 + ls] = 2
  <2>0. b2 = b1 \o v2
    OBVIOUS
  <2>00. b1 \in Seq(Nat) /\ v2 \in Seq(Nat)
    BY <1>5, <1>10
  <2> HIDE DEF b2
  <2>1. /\ b2 \in Seq(Nat) /\ Len(b2) = Len(b1) + Len(v2)
        /\ \A i \in 1 .. Len(b1) : b2[i] = b1[i]
        /\ \A i \in 1 .. Len(v2) : b2[Len(b1) + i] = v2[i]
    BY <2>0, <2>00, JoinIs
  <2>2. 1 \in 1 .. 3 + ls /\ 3 \in 1 .. 3 + ls /\ 1 \in 1 .. 3 /\ (3 + ls) + 1 = 4 + ls
    BY <1>3
  <2>3. b2[1] = ClientHello /\ b2[3] = ls
    BY <1>10, <2>1, <2>2
  <2>4. b2[(3 + ls) + 1] = 2
    BY <1>5, <1>10, <2>1, <2>2
  <2>5. Len(b2) = 6 + ls
    BY <1>3, <1>5, <1>10, <2>1
  <2> QED BY <2>1, <2>2, <2>3, <2>4, <2>5
<1> HIDE DEF b2
<1>12. /\ b3 \in Seq(Nat) /\ Len(b3) = 8 + ls /\ b3[1] = ClientHello /\ b3[3] = ls
       /\ b3[4 + ls] = 2 /\ b3[7 + ls] = 1
  <2>0. b3 = b2 \o v1
    OBVIOUS
  <2>00. b2 \in Seq(Nat) /\ v1 \in Seq(Nat)
    BY <1>6, <1>11
  <2> HIDE DEF b3
  <2>1. /\ b3 \in Seq(Nat) /\ Len(b3) = Len(b2) + Len(v1)
        /\ \A i \in 1 .. Len(b2) : b3[i] = b2[i]
        /\ \A i \in 1 .. Len(v1) : b3[Len(b2) + i] = v1[i]
    BY <2>0, <2>00, JoinIs
  <2>2. /\ 1 \in 1 .. 6 + ls /\ 3 \in 1 .. 6 + ls /\ 4 + ls \in 1 .. 6 + ls
        /\ 1 \in 1 .. 2 /\ (6 + ls) + 1 = 7 + ls
    BY <1>3
  <2>3. b3[1] = ClientHello /\ b3[3] = ls /\ b3[4 + ls] = 2
    BY <1>11, <2>1, <2>2
  <2>4. b3[(6 + ls) + 1] = 1
    BY <1>6, <1>11, <2>1, <2>2
  <2>5. Len(b3) = 8 + ls
    BY <1>3, <1>6, <1>11, <2>1
  <2> QED BY <2>1, <2>2, <2>3, <2>4, <2>5
<1> HIDE DEF b3
<1>13. /\ b4 \in Seq(Nat) /\ Len(b4) = 9 + ls + lf /\ b4[1] = ClientHello /\ b4[3] = ls
       /\ b4[4 + ls] = 2 /\ b4[7 + ls] = 1 /\ b4[9 + ls] = lf
       /\ \A j \in 1 .. lf : b4[9 + ls + j] = flat[j]
  <2>0. b4 = b3 \o vf
    OBVIOUS
  <2>00. b3 \in Seq(Nat) /\ vf \in Seq(Nat)
    BY <1>7, <1>12
  <2> HIDE DEF b4
  <2>1. /\ b4 \in Seq(Nat) /\ Len(b4) = Len(b3) + Len(vf)
        /\ \A i \in 1 .. Len(b3) : b4[i] = b3[i]
        /\ \A i \in 1 .. Len(vf) : b4[Len(b3) + i] = vf[i]
    BY <2>0, <2>00, JoinIs
  <2>2. /\ 1 \in 1 .. 8 + ls /\ 3 \in 1 .. 8 + ls /\ 4 + ls \in 1 .. 8 + ls /\ 7 + ls \in 1 .. 8 + ls
        /\ 1 \in 1 .. 1 + lf /\ (8 + ls) + 1 = 9 + ls
    BY <1>3
  <2>3. b4[1] = ClientHello /\ b4[3] = ls /\ b4[4 + ls] = 2 /\ b4[7 + ls] = 1
    BY <1>12, <2>1, <2>2
  <2>4. b4[(8 + ls) + 1] = lf
    BY <1>7, <1>12, <2>1, <2>2
  <2>5. Len(b4) = 9 + ls + lf
    BY <1>3, <1>7, <1>12, <2>1
  <2>7. ASSUME NEW j \in 1 .. lf PROVE b4[9 + ls + j] = flat[j]
    <3>1. 1 + j \in 1 .. 1 + lf /\ (8 + ls) + (1 + j) = 9 + ls + j
      BY <1>3
    <3>2. b4[(8 + ls) + (1 + j)] = vf[1 + j] /\ vf[1 + j] = flat[j]
      BY <1>7, <1>12, <2>1, <3>1
    <3> QED BY <3>1, <3>2
  <2> QED BY <2>1, <2>2, <2>3, <2>4, <2>5, <2>7
<1> HIDE DEF b4
<1>14. /\ v4 \in Seq(Nat) /\ Len(v4) = 1 + Len(b4) /\ v4[1] = Len(b4)
       /\ \A j \in 1 .. Len(b4) : v4[1 + j] = b4[j]
  BY <1>13, VectorIs
<1> HIDE DEF v4
<1>15. /\ hello \in Seq(Nat) /\ Len(hello) = 3 + Len(v4)
       /\ hello[1] = Handshake /\ hello[2] = 3
       /\ \A i \in 1 .. Len(v4) : hello[3 + i] = v4[i]
  <2>0. hello = h0 \o v4
    OBVIOUS
  <2>00. h0 \in Seq(Nat) /\ v4 \in Seq(Nat)
    BY <1>9, <1>14
  <2> HIDE DEF hello
  <2>1. /\ hello \in Seq(Nat) /\ Len(hello) = Len(h0) + Len(v4)
        /\ \A i \in 1 .. Len(h0) : hello[i] = h0[i]
        /\ \A i \in 1 .. Len(v4) : hello[Len(h0) + i] = v4[i]
    BY <2>0, <2>00, JoinIs
  <2>2. 1 \in 1 .. 3 /\ 2 \in 1 .. 3
    OBVIOUS
  <2> QED BY <1>9, <2>1, <2>2
<1> HIDE DEF hello
<1>16. hello[4] = 9 + ls + lf /\ Len(hello) = 13 + ls + lf
  <2>1. 1 \in 1 .. Len(v4) /\ hello[3 + 1] = hello[4]
    BY <1>3, <1>13, <1>14
  <2> QED BY <1>3, <1>13, <1>14, <1>15, <2>1
<1>17. \A j \in 1 .. 9 + ls + lf : hello[4 + j] = b4[j]
  <2>1. 9 + ls + lf \in Nat /\ Len(b4) = 9 + ls + lf /\ Len(v4) = 1 + Len(b4)
    BY <1>3, <1>13, <1>14
  <2> DEFINE n == 9 + ls + lf
  <2> HIDE DEF n
  <2>2. n \in Nat /\ Len(b4) = n /\ Len(v4) = 1 + n
    BY <2>1 DEF n
  <2> SUFFICES ASSUME NEW j \in 1 .. n PROVE hello[4 + j] = b4[j]
    BY DEF n
  <2>3. 1 + j \in 1 .. 1 + n /\ 3 + (1 + j) = 4 + j
    BY <2>2
  <2>4. v4[1 + j] = b4[j] /\ hello[3 + (1 + j)] = v4[1 + j]
    BY <1>14, <1>15, <2>2, <2>3
  <2> QED BY <2>3, <2>4
<1>18. /\ hello[5] = ClientHello /\ hello[7] = ls /\ hello[8 + ls] = 2
       /\ hello[11 + ls] = 1 /\ hello[13 + ls] = lf
  <2> DEFINE n == 9 + ls + lf
  <2>1. /\ 1 \in 1 .. n /\ 3 \in 1 .. n /\ 4 + ls \in 1 .. n /\ 7 + ls \in 1 .. n
        /\ 9 + ls \in 1 .. n
        /\ 4 + 1 = 5 /\ 4 + 3 = 7 /\ 4 + (4 + ls) = 8 + ls /\ 4 + (7 + ls) = 11 + ls
        /\ 4 + (9 + ls) = 13 + ls
    BY <1>3
  <2> HIDE DEF n
  <2>2. \A j \in 1 .. n : hello[4 + j] = b4[j]
    BY <1>17 DEF n
  <2>3. hello[4 + 1] = b4[1] /\ hello[4 + 3] = b4[3] /\ hello[4 + (4 + ls)] = b4[4 + ls]
    BY <2>1, <2>2
  <2>4. hello[4 + (7 + ls)] = b4[7 + ls] /\ hello[4 + (9 + ls)] = b4[9 + ls]
    BY <2>1, <2>2
  <2> QED BY <1>13, <2>1, <2>3, <2>4
<1>19. \A j \in 1 .. lf : hello[13 + ls + j] = flat[j]
  <2> SUFFICES ASSUME NEW j \in 1 .. lf PROVE hello[13 + ls + j] = flat[j]
    OBVIOUS
  <2>1. 9 + ls + j \in 1 .. 9 + ls + lf /\ 4 + (9 + ls + j) = 13 + ls + j
    BY <1>3
  <2>2. hello[4 + (9 + ls + j)] = b4[9 + ls + j]
    BY <1>17, <2>1
  <2> QED BY <1>13, <2>1, <2>2
<1>20. /\ parse_extensions(flat) = NameOf(extensions)
       /\ hello \in Seq(Nat) /\ ls \in Nat /\ Len(flat) \in Nat
       /\ Len(hello) = 13 + ls + Len(flat)
       /\ hello[1] = Handshake /\ hello[2] = 3 /\ hello[4] = 9 + ls + Len(flat)
       /\ hello[5] = ClientHello /\ hello[7] = ls /\ hello[8 + ls] = 2
       /\ hello[11 + ls] = 1 /\ hello[13 + ls] = Len(flat)
       /\ \A j \in 1 .. Len(flat) : hello[13 + ls + j] = flat[j]
  BY <1>2, <1>3, <1>15, <1>16, <1>18, <1>19 DEF lf
<1> QED BY <1>1, <1>2, <1>20 DEF ls

(* A whole hello is understood, and no part of it is. *)
LEMMA HelloIsRead ==
  ASSUME NEW session \in Seq(Nat), NEW extensions \in Seq(ExtensionType)
  PROVE  ServerNameIsFound(session, extensions)
<1> DEFINE hello == Hello(session, extensions)
           ls == Len(session)
<1>1. PICK flat \in Seq(Nat) :
        /\ parse_extensions(flat) = NameOf(extensions)
        /\ hello \in Seq(Nat) /\ ls \in Nat /\ Len(flat) \in Nat
        /\ Len(hello) = 13 + ls + Len(flat)
        /\ hello[1] = Handshake /\ hello[2] = 3 /\ hello[4] = 9 + ls + Len(flat)
        /\ hello[5] = ClientHello /\ hello[7] = ls /\ hello[8 + ls] = 2
        /\ hello[11 + ls] = 1 /\ hello[13 + ls] = Len(flat)
        /\ \A j \in 1 .. Len(flat) : hello[13 + ls + j] = flat[j]
  BY HelloIs
<1> HIDE DEF hello, ls
<1> DEFINE lf == Len(flat)
           n == 13 + ls + lf
<1>2. ls \in Nat /\ lf \in Nat /\ Len(hello) = n
  BY <1>1
<1>3. parse_tls_header(hello) = NameOf(extensions)
  <2> DEFINE Skip(pos) == IF pos <= n THEN pos + 1 + hello[pos] ELSE pos
             m == 14 + ls
             t == SubSeq(hello, m, n)
  <2>1. Skip(7) = 8 + ls
    BY <1>1, <1>2
  <2>2. Skip(8 + ls) = 11 + ls
    <3>1. 8 + ls <= n
      BY <1>2
    <3>2. Skip(8 + ls) = 8 + ls + 1 + 2
      BY <1>1, <3>1
    <3> QED BY <1>2, <3>2
  <2>3. Skip(11 + ls) = 13 + ls
    <3>1. 11 + ls <= n
      BY <1>2
    <3>2. Skip(11 + ls) = 11 + ls + 1 + 1
      BY <1>1, <3>1
    <3> QED BY <1>2, <3>2
  <2>4. (IF Len(hello) >= 4 THEN 4 + hello[4] ELSE 0) = n
    BY <1>1, <1>2
  <2>5. t = flat
    <3>1. m \in Nat /\ n \in Nat /\ 1 <= m /\ m <= n + 1 /\ n <= Len(hello) /\ n + 1 - m = lf
      BY <1>2
    <3>2. \A j \in 1 .. lf : m + j - 1 = 13 + ls + j
      BY <1>2
    <3> HIDE DEF m, n
    <3>3. t \in Seq(Nat) /\ Len(t) = n + 1 - m /\ \A j \in 1 .. n + 1 - m : t[j] = hello[m + j - 1]
      <4>1. hello \in Seq(Nat)
        BY <1>1
      <4> HIDE DEF hello
      <4> QED BY <3>1, <4>1, SliceIs, SMTT(20)
    <3>4. Len(t) = lf /\ \A j \in 1 .. lf : t[j] = flat[j]
      BY <1>1, <3>1, <3>2, <3>3
    <3> HIDE DEF t
    <3> QED BY <3>3, <3>4, SeqEqual
  <2>6. Skip(Skip(Skip(7))) = 13 + ls
    BY <2>1, <2>2, <2>3
  <2>7. /\ Len(hello) >= 4 /\ ~(Len(hello) < n) /\ ~(n < 5)
        /\ ~(13 + ls > n) /\ 13 + ls + lf = n /\ (13 + ls) + 1 = m
    BY <1>2
  <2>12. ~(hello[2] < 3)
    BY <1>1
  <2>8. parse_tls_header(hello) =
          LET extensions_1 == Skip(Skip(Skip(7)))
          IN  IF \/ Len(hello) < 4 \/ hello[1] # Handshake \/ hello[2] < 3
                 \/ Len(hello) < n
                 \/ n < 5 \/ hello[5] # ClientHello
                 \/ extensions_1 > n \/ extensions_1 + hello[extensions_1] > n
              THEN NoName
              ELSE parse_extensions(SubSeq(hello, extensions_1 + 1, extensions_1 + hello[extensions_1]))
    <3> HIDE DEF n
    <3> QED BY <2>4 DEF parse_tls_header
  <2> HIDE DEF Skip
  <2>9. parse_tls_header(hello) =
          IF \/ Len(hello) < 4 \/ hello[1] # Handshake \/ hello[2] < 3
             \/ Len(hello) < n
             \/ n < 5 \/ hello[5] # ClientHello
             \/ 13 + ls > n \/ 13 + ls + lf > n
          THEN NoName
          ELSE parse_extensions(SubSeq(hello, (13 + ls) + 1, 13 + ls + lf))
    BY <1>1, <2>6, <2>8
  <2>10. ~(Len(hello) < 4) /\ ~(13 + ls + lf > n)
    BY <1>2
  <2>11. parse_tls_header(hello) = parse_extensions(SubSeq(hello, (13 + ls) + 1, n))
    <3> HIDE DEF n, m, t
    <3> QED BY <1>1, <2>7, <2>9, <2>10, <2>12
  <2> QED BY <1>1, <2>5, <2>7, <2>11
<1>4. ASSUME NEW k \in 0 .. Len(hello) - 1 PROVE parse_tls_header(SubSeq(hello, 1, k)) = NoName
  <2> DEFINE p == SubSeq(hello, 1, k)
  <2>1. k \in Nat /\ k < n
    BY <1>2
  <2>2. 1 \in Nat /\ 1 <= 1 /\ 1 <= k + 1 /\ k <= Len(hello) /\ k + 1 - 1 = k
    BY <1>2, <2>1
  <2>3. Len(p) = k + 1 - 1 /\ \A j \in 1 .. k + 1 - 1 : p[j] = hello[1 + j - 1]
    BY <1>1, <2>1, <2>2, SliceIs
  <2> HIDE DEF p
  <2>4. Len(p) = k /\ (k >= 4 => p[4] = hello[4])
    BY <2>1, <2>2, <2>3
  <2>5. CASE k < 4
    BY <2>4, <2>5 DEF parse_tls_header, p
  <2>6. CASE ~(k < 4)
    <3>1. (IF Len(p) >= 4 THEN 4 + p[4] ELSE 0) = n /\ Len(p) < n
      BY <1>1, <1>2, <2>1, <2>4, <2>6
    <3>2. parse_tls_header(p) = NoName
      <4> HIDE DEF n
      <4> QED BY <3>1 DEF parse_tls_header
    <3> QED BY <3>2 DEF p
  <2> QED BY <2>1, <2>5, <2>6
<1> QED BY <1>3, <1>4 DEF ServerNameIsFound, hello

(* A server name is found in a hello that is whole, and in no part of one:  *)
(* of get_server_name, for any number of extensions.                       *)
THEOREM HelloCorrect == Spec => []HelloIsUnderstood
<1> DEFINE Hellos == [session : Seq(Nat), extensions : Seq(ExtensionType)]
           HelloInput == kind = "hello" => input \in Hellos
<1>0. Extensions \subseteq ExtensionType
  <2>1. Entries \subseteq EntryType
    <3>1. <<5>> \in Seq(Nat) /\ <<5, 6>> \in Seq(Nat)
      OBVIOUS
    <3>2. {<<5>>, <<5, 6>>} \subseteq Seq(Nat) /\ {0, 1} \subseteq Nat
      BY <3>1
    <3> QED BY <3>2 DEF Entries, EntryType
  <2>2. \A e, f \in EntryType : << >> \in Seq(EntryType) /\ <<e>> \in Seq(EntryType) /\ <<e, f>> \in Seq(EntryType)
    OBVIOUS
  <2>3. ({<< >>} \cup {<<e>> : e \in Entries} \cup {<<e, f>> : e, f \in Entries}) \subseteq Seq(EntryType)
    <3>1. \A e \in Entries : <<e>> \in Seq(EntryType)
      BY <2>1, <2>2
    <3>2. \A e, f \in Entries : <<e, f>> \in Seq(EntryType)
      BY <2>1, <2>2
    <3>3. << >> \in Seq(EntryType)
      OBVIOUS
    <3>4. {<<e>> : e \in Entries} \subseteq Seq(EntryType)
      BY <3>1, Zenon
    <3>5. {<<e, f>> : e, f \in Entries} \subseteq Seq(EntryType)
      <4> SUFFICES ASSUME NEW s \in {<<e, f>> : e, f \in Entries} PROVE s \in Seq(EntryType)
        OBVIOUS
      <4>1. PICK e \in Entries, f \in Entries : s = <<e, f>>
        OBVIOUS
      <4> QED BY <3>2, <4>1
    <3> DEFINE one == {<<e>> : e \in Entries}
               two == {<<e, f>> : e, f \in Entries}
    <3> HIDE DEF one, two
    <3>6. one \subseteq Seq(EntryType) /\ two \subseteq Seq(EntryType)
      BY <3>4, <3>5 DEF one, two
    <3>7. {<< >>} \cup one \cup two \subseteq Seq(EntryType)
      BY <3>3, <3>6
    <3> QED BY <3>7 DEF one, two
  <2>4. {0, 1} \subseteq Nat
    OBVIOUS
  <2> QED BY <2>3, <2>4 DEF Extensions, ExtensionType
<1>1. Init => HelloInput
  <2>1. << >> \in Seq(Nat) /\ << >> \in Seq(ExtensionType)
    OBVIOUS
  <2>2. [session |-> << >>, extensions |-> << >>] \in Hellos
    BY <2>1
  <2> QED BY <2>2 DEF Init
<1>2. HelloInput /\ [Next]_<<kind, input>> => HelloInput'
  <2> SUFFICES ASSUME HelloInput, [Next]_<<kind, input>>, kind' = "hello"
               PROVE  input' \in Hellos
    OBVIOUS
  <2>1. kind = "hello" /\ input \in Hellos
    BY DEF Next
  <2>2. CASE SetSession
    <3>1. input' = [input EXCEPT !.session = <<3, 3>>] /\ <<3, 3>> \in Seq(Nat)
      BY <2>2 DEF SetSession
    <3> QED BY <2>1, <3>1
  <2>3. CASE AddExtension
    <3>1. PICK e \in Extensions : input' = [input EXCEPT !.extensions = Append(@, e)]
      BY <2>3 DEF AddExtension
    <3>2. e \in ExtensionType /\ input.extensions \in Seq(ExtensionType)
      BY <1>0, <2>1, <3>1
    <3>3. Append(input.extensions, e) \in Seq(ExtensionType)
      BY <3>2, AppendProperties
    <3> QED BY <2>1, <3>1, <3>3
  <2>4. CASE input' = input
    BY <2>1, <2>4
  <2> QED BY <2>1, <2>2, <2>3, <2>4 DEF Next, Count, AddByte, AddToken, AddName
<1>3. HelloInput => HelloIsUnderstood
  BY HelloIsRead DEF HelloIsUnderstood
<1> QED BY <1>1, <1>2, <1>3, PTL DEF Spec

(* Two counts that grow alike differ by what the second begins with. *)
GrowAlike(f, g, n, d) ==
  /\ f \in [0 .. n -> Nat] /\ f[0] = 0 /\ \A i \in 0 .. n : g[d + i] \in Nat
  /\ \A i \in 1 .. n : f[i] - f[i - 1] = g[d + i] - g[d + i - 1]

LEMMA CountsDiffer ==
  ASSUME NEW n \in Nat, NEW d \in Nat, NEW f, NEW g, GrowAlike(f, g, n, d)
  PROVE  f[n] = g[d + n] - g[d]
<1> DEFINE Alike == {i \in Nat : i <= n => f[i] = g[d + i] - g[d]}
<1>0. /\ f \in [0 .. n -> Nat] /\ f[0] = 0 /\ \A i \in 0 .. n : g[d + i] \in Nat
      /\ \A i \in 1 .. n : f[i] - f[i - 1] = g[d + i] - g[d + i - 1]
  BY DEF GrowAlike
<1>1. 0 \in Alike
  <2>1. d + 0 = d /\ 0 \in 0 .. n
    OBVIOUS
  <2>2. g[d] \in Nat /\ f[0] = 0
    BY <1>0, <2>1
  <2> DEFINE a == g[d]
  <2>3. a \in Nat /\ g[d + 0] = a
    BY <2>1, <2>2
  <2> HIDE DEF a
  <2>4. f[0] = g[d + 0] - a
    BY <2>2, <2>3
  <2> QED BY <2>4 DEF a
<1>2. \A i \in Nat : i \in Alike => i + 1 \in Alike
  <2> SUFFICES ASSUME NEW i \in Nat, i \in Alike, i + 1 <= n
               PROVE  f[i + 1] = g[d + (i + 1)] - g[d]
    OBVIOUS
  <2>1. /\ i + 1 \in 1 .. n /\ (i + 1) - 1 = i /\ d + (i + 1) - 1 = d + i /\ d + 0 = d
        /\ i \in 0 .. n /\ i + 1 \in 0 .. n /\ 0 \in 0 .. n
    OBVIOUS
  <2> DEFINE f0 == f[i]
             f1 == f[i + 1]
             g0 == g[d]
             g1 == g[d + i]
             g2 == g[d + (i + 1)]
  <2>2. f0 = g1 - g0
    OBVIOUS
  <2>3. f1 - f0 = g2 - g1
    BY <1>0, <2>1
  <2>4. f0 \in Nat /\ f1 \in Nat /\ g0 \in Nat /\ g1 \in Nat /\ g2 \in Nat
    BY <1>0, <2>1
  <2> HIDE DEF f0, f1, g0, g1, g2
  <2>5. f1 = g2 - g0
    BY <2>2, <2>3, <2>4
  <2> QED BY <2>5 DEF f1, g2, g0
<1>3. Nat \subseteq Alike
  <2> HIDE DEF Alike
  <2> QED BY <1>1, <1>2, NatInSet
<1> QED BY <1>3

(* Where the labels of a name begin in what encodes it. *)
IsOffsets(off, labels) ==
  /\ off \in [0 .. Len(labels) -> Nat] /\ off[0] = 0
  /\ \A i \in 1 .. Len(labels) : off[i] = off[i - 1] + 1 + Len(labels[i])

(* An encoded name holds each label after its length, at its offset. *)
LEMMA EncodedIs ==
  ASSUME NEW labels \in Seq(Seq(Nat))
  PROVE  LET code == Encoded(labels)
         IN  /\ code \in Seq(Nat)
             /\ \E off : /\ IsOffsets(off, labels) /\ off[Len(labels)] = Len(code)
                         /\ \A i \in 1 .. Len(labels) :
                              /\ off[i] <= Len(code)
                              /\ code[off[i - 1] + 1] = Len(labels[i])
                              /\ \A j \in 1 .. Len(labels[i]) : code[off[i - 1] + 1 + j] = labels[i][j]
<1> DEFINE s == [i \in DOMAIN labels |-> <<Len(labels[i])>> \o labels[i]]
           N == Len(labels)
           code == FlattenSeq(s)
<1>0. Encoded(labels) = code
  BY DEF Encoded
<1>1. N \in Nat /\ DOMAIN labels = 1 .. N /\ \A i \in 1 .. N : labels[i] \in Seq(Nat)
  OBVIOUS
<1>2. ASSUME NEW i \in 1 .. N
      PROVE  /\ s[i] \in Seq(Nat) /\ Len(labels[i]) \in Nat /\ Len(s[i]) = 1 + Len(labels[i])
             /\ s[i][1] = Len(labels[i])
             /\ \A j \in 1 .. Len(labels[i]) : s[i][1 + j] = labels[i][j]
  <2> DEFINE a == labels[i]
             c == s[i]
  <2>1. a \in Seq(Nat) /\ Len(a) \in Nat /\ c = <<Len(a)>> \o a
    BY <1>1
  <2> HIDE DEF a, c
  <2>2. /\ c \in Seq(Nat) /\ Len(c) = 1 + Len(a) /\ c[1] = Len(a)
        /\ \A j \in 1 .. Len(a) : c[1 + j] = a[j]
    BY <2>1, PrependIs
  <2> QED BY <2>1, <2>2 DEF a, c
<1>3. s \in Seq(Seq(Nat)) /\ Len(s) = N
  BY <1>1, <1>2
<1> HIDE DEF s, N
<1>4. PICK off \in [0 .. N -> Nat] :
        /\ off[0] = 0 /\ off[N] = Len(code)
        /\ \A i \in 1 .. N :
             /\ off[i] = off[i - 1] + Len(s[i]) /\ off[i] <= Len(code)
             /\ \A j \in 1 .. Len(s[i]) : code[off[i - 1] + j] = s[i][j]
  <2>1. PICK off : IsSplit(off, s, code)
    BY <1>3, FlattenedIs
  <2> HIDE DEF code
  <2>2. off \in [0 .. N -> Nat] /\ off[0] = 0 /\ off[N] = Len(code)
    BY <1>3, <2>1 DEF IsSplit
  <2> QED BY <1>3, <2>1, <2>2 DEF IsSplit
<1>5. code \in Seq(Nat)
  BY <1>3, FlattenedIs
<1> HIDE DEF code
<1>6. ASSUME NEW i \in 1 .. N
      PROVE  /\ off[i] = off[i - 1] + 1 + Len(labels[i]) /\ off[i] <= Len(code)
             /\ code[off[i - 1] + 1] = Len(labels[i])
             /\ \A j \in 1 .. Len(labels[i]) : code[off[i - 1] + 1 + j] = labels[i][j]
  <2> DEFINE l == Len(labels[i])
             p == off[i - 1]
             c == s[i]
  <2>1. /\ l \in Nat /\ Len(c) = 1 + l /\ c[1] = l
        /\ \A j \in 1 .. l : c[1 + j] = labels[i][j]
    BY <1>2
  <2>2. p \in Nat
    <3>1. i - 1 \in 0 .. N
      BY <1>1
    <3> QED BY <3>1
  <2>3. /\ off[i] = p + Len(c) /\ off[i] <= Len(code)
        /\ \A j \in 1 .. Len(c) : code[p + j] = c[j]
    BY <1>4
  <2> HIDE DEF l, p, c
  <2>4. code[p + 1] = l
    <3>1. 1 \in 1 .. Len(c)
      BY <2>1
    <3> QED BY <2>1, <2>3, <3>1
  <2>5. ASSUME NEW j \in 1 .. l PROVE code[p + 1 + j] = labels[i][j]
    <3>1. 1 + j \in 1 .. Len(c) /\ p + (1 + j) = p + 1 + j
      BY <2>1, <2>2
    <3> QED BY <2>1, <2>3, <3>1
  <2>6. off[i] = p + 1 + l
    BY <2>1, <2>2, <2>3
  <2> QED BY <2>3, <2>4, <2>5, <2>6 DEF l, p
<1>7. IsOffsets(off, labels)
  BY <1>4, <1>6 DEF IsOffsets, N
<1>8. /\ IsOffsets(off, labels) /\ off[Len(labels)] = Len(code)
      /\ \A i \in 1 .. Len(labels) :
           /\ off[i] <= Len(code)
           /\ code[off[i - 1] + 1] = Len(labels[i])
           /\ \A j \in 1 .. Len(labels[i]) : code[off[i - 1] + 1 + j] = labels[i][j]
  BY <1>4, <1>6, <1>7 DEF N
<1> QED BY <1>0, <1>5, <1>8

(* How long the encoding of some of the labels is. *)
LEMMA PartIs ==
  ASSUME NEW labels \in Seq(Seq(Nat)), NEW off, IsOffsets(off, labels),
         NEW m \in Nat, NEW n \in Nat, m <= n, n <= Len(labels)
  PROVE  Len(Encoded(SubSeq(labels, m + 1, n))) = off[n] - off[m]
<1> DEFINE t == SubSeq(labels, m + 1, n)
           k == n - m
<1>1. k \in Nat /\ m + k = n /\ m + 1 \in Nat /\ 1 <= m + 1 /\ m + 1 <= n + 1 /\ n + 1 - (m + 1) = k
  OBVIOUS
<1>2. Len(labels) \in Nat /\ \A i \in 1 .. k : (m + 1) + i - 1 = m + i
  OBVIOUS
<1> HIDE DEF k
<1>3. t \in Seq(Seq(Nat)) /\ Len(t) = k /\ \A i \in 1 .. k : t[i] = labels[m + i]
  <2>1. /\ t \in Seq(Seq(Nat)) /\ Len(t) = n + 1 - (m + 1)
        /\ \A i \in 1 .. n + 1 - (m + 1) : t[i] = labels[(m + 1) + i - 1]
    BY <1>1, SliceIs
  <2> HIDE DEF t
  <2> QED BY <1>1, <1>2, <2>1
<1> HIDE DEF t
<1>4. PICK f : IsOffsets(f, t) /\ f[k] = Len(Encoded(t))
  BY <1>3, EncodedIs
<1>5. f \in [0 .. k -> Nat] /\ f[0] = 0 /\ \A i \in 1 .. k : f[i] = f[i - 1] + 1 + Len(t[i])
  BY <1>3, <1>4 DEF IsOffsets
<1>6. /\ off \in [0 .. Len(labels) -> Nat]
      /\ \A i \in 1 .. Len(labels) : off[i] = off[i - 1] + 1 + Len(labels[i])
  BY DEF IsOffsets
<1>7. \A i \in 0 .. k : off[m + i] \in Nat
  <2>1. \A i \in 0 .. k : m + i \in 0 .. Len(labels)
    BY <1>1, <1>2
  <2> QED BY <1>6, <2>1
<1>8. ASSUME NEW i \in 1 .. k PROVE f[i] - f[i - 1] = off[m + i] - off[m + i - 1]
  <2>1. m + i \in 1 .. Len(labels) /\ m + i - 1 \in 0 .. Len(labels) /\ i - 1 \in 0 .. k
        /\ m + i \in 0 .. Len(labels) /\ i \in 0 .. k
    BY <1>1, <1>2
  <2>2. t[i] = labels[m + i] /\ t[i] \in Seq(Nat)
    <3>1. t[i] = labels[m + i]
      BY <1>3
    <3>2. t \in Seq(Seq(Nat)) /\ i \in 1 .. Len(t)
      BY <1>3
    <3>3. t[i] \in Seq(Nat)
      BY <3>2
    <3> QED BY <3>1, <3>3
  <2> DEFINE l == Len(t[i])
  <2>3. l \in Nat /\ f[i] = f[i - 1] + 1 + l /\ off[m + i] = off[m + i - 1] + 1 + l
    <3>1. l \in Nat
      BY <2>2
    <3>2. f[i] = f[i - 1] + 1 + l
      BY <1>5
    <3>3. off[m + i] = off[m + i - 1] + 1 + l
      BY <1>6, <2>1, <2>2
    <3> QED BY <3>1, <3>2, <3>3
  <2>4. f[i - 1] \in Nat /\ off[m + i - 1] \in Nat
    BY <1>5, <1>6, <2>1
  <2> HIDE DEF l
  <2> QED BY <2>3, <2>4
<1>9. GrowAlike(f, off, k, m)
  BY <1>5, <1>7, <1>8 DEF GrowAlike
<1>10. f[k] = off[n] - off[m]
  <2>1. k \in Nat
    BY <1>1
  <2>2. f[k] = off[m + k] - off[m]
    BY <1>9, <2>1, CountsDiffer
  <2> QED BY <1>1, <2>2
<1> QED BY <1>4, <1>10 DEF t

(* The loop of get_qname, and that over the places of a name in the        *)
(* message.                                                                *)
WalkStops(data) ==
  {p \in Place : LET len == Byte(data, p.ptr)
                 IN  \/ len = 0
                     \/ /\ ~IsPointer(len)
                        /\ p.ptr + 1 + len > Len(data) \/ p.noff + len > DNS_QNAME_MAX}
WalkResult(data, p) ==
  IF Byte(data, p.ptr) = 0 THEN [labels |-> p.labels, end |-> p.ptr + 1] ELSE Invalid
WalkNext(data, p) ==
  LET len == Byte(data, p.ptr)
  IN  IF IsPointer(len) THEN [p EXCEPT !.ptr = Target(data, p.ptr)]
      ELSE IF p.noff + len = DNS_QNAME_MAX THEN Start(After(data, p.ptr))
      ELSE [ptr |-> After(data, p.ptr), noff |-> p.noff + len + 1,
            labels |-> Append(p.labels, Label(data, p.ptr))]
IsWalk(W, data) ==
  \A p \in Place : W[p] = IF p \in WalkStops(data) THEN WalkResult(data, p)
                          ELSE W[WalkNext(data, p)]

(* A byte of a message is a number, also past its end. *)
LEMMA ByteIs ==
  ASSUME NEW data \in Seq(Nat), NEW ptr \in Nat
  PROVE  Byte(data, ptr) \in Nat
<1>1. CASE ptr < Len(data)
  <2>1. ptr + 1 \in 1 .. Len(data)
    BY <1>1
  <2>2. data[ptr + 1] \in Nat
    BY <2>1
  <2> QED BY <1>1, <2>2 DEF Byte
<1>2. CASE ~(ptr < Len(data))
  BY <1>2 DEF Byte
<1> QED BY <1>1, <1>2

(* A pointer leads to a place. *)
LEMMA TargetIs ==
  ASSUME NEW data \in Seq(Nat), NEW ptr \in Nat
  PROVE  Target(data, ptr) \in Nat
<1> DEFINE a == Byte(data, ptr)
           b == Byte(data, ptr + 1)
<1>1. a \in Nat /\ b \in Nat
  BY ByteIs
<1> HIDE DEF a, b
<1>2. (a % 64) * 256 + b \in Nat
  BY <1>1
<1> QED BY <1>2 DEF Target, a, b

(* A label that fits in the message is made of the bytes after its length. *)
LEMMA LabelIs ==
  ASSUME NEW data \in Seq(Nat), NEW ptr \in Nat, ptr + 1 + Byte(data, ptr) <= Len(data)
  PROVE  LET label == Label(data, ptr)
         IN  /\ label \in Seq(Nat) /\ Len(label) = Byte(data, ptr)
             /\ \A j \in 1 .. Byte(data, ptr) : label[j] = data[ptr + 1 + j]
<1> DEFINE l == Byte(data, ptr)
           m == ptr + 2
           n == ptr + 1 + l
           t == SubSeq(data, m, n)
<1>1. l \in Nat
  BY ByteIs
<1>2. n <= Len(data)
  OBVIOUS
<1> HIDE DEF l
<1>3. m \in Nat /\ n \in Nat /\ 1 <= m /\ m <= n + 1 /\ n + 1 - m = l
      /\ \A j \in 1 .. l : m + j - 1 = ptr + 1 + j
  BY <1>1
<1> HIDE DEF m, n
<1>4. t \in Seq(Nat) /\ Len(t) = n + 1 - m /\ \A j \in 1 .. n + 1 - m : t[j] = data[m + j - 1]
  BY <1>2, <1>3, SliceIs
<1> HIDE DEF t
<1>5. t \in Seq(Nat) /\ Len(t) = l /\ \A j \in 1 .. l : t[j] = data[ptr + 1 + j]
  BY <1>3, <1>4
<1>6. Label(data, ptr) = t
  BY DEF Label, t, m, n, l
<1> QED BY <1>5, <1>6 DEF l

(* The loop goes from a place to a place. *)
LEMMA WalkNextIs ==
  ASSUME NEW data \in Seq(Nat), NEW p \in Place, p \notin WalkStops(data)
  PROVE  WalkNext(data, p) \in Place
<1> DEFINE len == Byte(data, p.ptr)
<1>1. p.ptr \in Nat /\ p.noff \in Nat /\ p.labels \in Seq(Seq(Nat))
  BY DEF Place
<1>2. len \in Nat /\ Target(data, p.ptr) \in Nat
  BY <1>1, ByteIs, TargetIs
<1>3. After(data, p.ptr) \in Nat
  <2> HIDE DEF len
  <2>1. p.ptr + len + 1 \in Nat
    BY <1>1, <1>2
  <2> QED BY <2>1 DEF After, len
<1>4. CASE IsPointer(len)
  <2>1. WalkNext(data, p) = [p EXCEPT !.ptr = Target(data, p.ptr)]
    BY <1>4 DEF WalkNext
  <2> QED BY <1>2, <2>1 DEF Place
<1>5. CASE ~IsPointer(len) /\ p.noff + len = DNS_QNAME_MAX
  <2>1. WalkNext(data, p) = Start(After(data, p.ptr))
    BY <1>5 DEF WalkNext
  <2>2. << >> \in Seq(Seq(Nat))
    OBVIOUS
  <2> QED BY <1>3, <2>1, <2>2 DEF Place, Start
<1>6. CASE ~IsPointer(len) /\ p.noff + len # DNS_QNAME_MAX
  <2> DEFINE label == Label(data, p.ptr)
  <2>1. WalkNext(data, p) = [ptr |-> After(data, p.ptr), noff |-> p.noff + len + 1,
                             labels |-> Append(p.labels, label)]
    BY <1>6 DEF WalkNext
  <2>2. ~(p.ptr + 1 + len > Len(data))
    BY <1>6 DEF WalkStops
  <2>3. p.ptr + 1 + len <= Len(data)
    <3> HIDE DEF len
    <3> QED BY <1>1, <1>2, <2>2
  <2>4. label \in Seq(Nat)
    BY <1>1, <2>3, LabelIs
  <2> HIDE DEF label, len
  <2>5. Append(p.labels, label) \in Seq(Seq(Nat)) /\ p.noff + len + 1 \in Nat
    BY <1>1, <1>2, <2>4, AppendProperties
  <2> QED BY <1>3, <2>1, <2>5 DEF Place
<1> QED BY <1>4, <1>5, <1>6

(* The loop of get_qname computes a function, though a pointer to itself   *)
(* would keep it for ever.                                                 *)
LEMMA WalkLoop ==
  ASSUME NEW data \in Seq(Nat), NEW off
  PROVE  \E W : Walk(data, off) = W[Start(off)] /\ IsWalk(W, data)
<1> DEFINE Body(W, p) ==
             LET len == Byte(data, p.ptr)
             IN  IF len = 0 THEN [labels |-> p.labels, end |-> p.ptr + 1]
                 ELSE IF IsPointer(len) THEN W[[p EXCEPT !.ptr = Target(data, p.ptr)]]
                 ELSE IF p.ptr + 1 + len > Len(data) \/ p.noff + len > DNS_QNAME_MAX THEN Invalid
                 ELSE IF p.noff + len = DNS_QNAME_MAX THEN W[Start(After(data, p.ptr))]
                 ELSE W[[ptr |-> After(data, p.ptr), noff |-> p.noff + len + 1,
                         labels |-> Append(p.labels, Label(data, p.ptr))]]
           next == [p \in Place |-> WalkNext(data, p)]
           v == [p \in Place |-> WalkResult(data, p)]
           Stop == WalkStops(data)
<1>2. \A p \in Place \ Stop : next[p] \in Place
  <2> SUFFICES ASSUME NEW p \in Place, p \notin Stop PROVE next[p] \in Place
    OBVIOUS
  <2>1. WalkNext(data, p) \in Place
    BY WalkNextIs
  <2> QED BY <2>1
<1>3. \A W, p : p \in Place =>
        Body(W, p) = IF p \in Stop THEN v[p] ELSE W[next[p]]
  <2> SUFFICES ASSUME NEW W, NEW p \in Place
               PROVE  Body(W, p) = IF p \in Stop THEN v[p] ELSE W[next[p]]
    OBVIOUS
  <2> DEFINE len == Byte(data, p.ptr)
             over == p.ptr + 1 + len > Len(data) \/ p.noff + len > DNS_QNAME_MAX
  <2>0. v[p] = WalkResult(data, p) /\ next[p] = WalkNext(data, p)
    OBVIOUS
  <2>1. p \in Stop <=> len = 0 \/ (~IsPointer(len) /\ over)
    BY DEF WalkStops
  <2>2. CASE len = 0
    BY <2>0, <2>1, <2>2 DEF WalkResult
  <2>3. CASE len # 0 /\ IsPointer(len)
    <3>1. WalkNext(data, p) = [p EXCEPT !.ptr = Target(data, p.ptr)]
      BY <2>3 DEF WalkNext
    <3>2. Body(W, p) = W[[p EXCEPT !.ptr = Target(data, p.ptr)]]
      BY <2>3
    <3> QED BY <2>0, <2>1, <2>3, <3>1, <3>2
  <2>4. CASE len # 0 /\ ~IsPointer(len) /\ over
    <3>1. Body(W, p) = Invalid
      BY <2>4
    <3>2. WalkResult(data, p) = Invalid
      BY <2>4 DEF WalkResult
    <3> QED BY <2>0, <2>1, <2>4, <3>1, <3>2
  <2>5. CASE len # 0 /\ ~IsPointer(len) /\ ~over
    <3>1. Body(W, p) = W[WalkNext(data, p)]
      BY <2>5 DEF WalkNext
    <3> QED BY <2>0, <2>1, <2>5, <3>1
  <2> QED BY <2>2, <2>3, <2>4, <2>5
<1>5. \E W : W = [p \in Place |-> Body(W, p)]
  <2> HIDE DEF Body, Stop, v, next
  <2>0. PICK W : IsLoop(W, Place, Stop, next, v)
    BY <1>2, LoopIsFunction
  <2>1. W = [p \in Place |-> IF p \in Stop THEN v[p] ELSE W[next[p]]]
    BY <2>0 DEF IsLoop
  <2>2. W = [p \in Place |-> Body(W, p)]
    BY <1>3, <2>1
  <2> QED BY <2>2
<1> DEFINE W == CHOOSE W : W = [p \in Place |-> Body(W, p)]
<1>6. Walk(data, off) = W[Start(off)]
  BY DEF Walk
<1>7. W = [p \in Place |-> Body(W, p)]
  <2> HIDE DEF Body
  <2> QED BY <1>5
<1> HIDE DEF W
<1>8. \A p \in Place : W[p] = IF p \in Stop THEN v[p] ELSE W[next[p]]
  <2> HIDE DEF Body, Stop, v, next
  <2> QED BY <1>3, <1>7
<1>9. \A p \in Place : W[p] = IF p \in Stop THEN WalkResult(data, p) ELSE W[WalkNext(data, p)]
  BY <1>8
<1>10. IsWalk(W, data)
  BY <1>9 DEF IsWalk
<1> QED BY <1>6, <1>10

(* Whether a pointer is met. *)
IsSearch(C, data) ==
  \A ptr \in Nat :
    C[ptr] = IF Byte(data, ptr) = 0 \/ IsPointer(Byte(data, ptr)) THEN Byte(data, ptr) # 0
             ELSE C[After(data, ptr)]

(* So does the search for a pointer. *)
LEMMA SearchLoop ==
  ASSUME NEW data \in Seq(Nat), NEW off
  PROVE  \E C : Compressed(data, off) = C[off] /\ IsSearch(C, data)
<1> DEFINE Body(C, ptr) ==
             LET len == Byte(data, ptr)
             IN  IF len = 0 \/ IsPointer(len) THEN len # 0 ELSE C[After(data, ptr)]
           next == [ptr \in Nat |-> After(data, ptr)]
           v == [ptr \in Nat |-> Byte(data, ptr) # 0]
           Stop == {ptr \in Nat : Byte(data, ptr) = 0 \/ IsPointer(Byte(data, ptr))}
<1>1. \A ptr \in Nat \ Stop : next[ptr] \in Nat
  <2> SUFFICES ASSUME NEW ptr \in Nat PROVE After(data, ptr) \in Nat
    OBVIOUS
  <2> DEFINE len == Byte(data, ptr)
  <2>1. len \in Nat
    BY ByteIs
  <2> HIDE DEF len
  <2>2. ptr + len + 1 \in Nat
    BY <2>1
  <2> QED BY <2>2 DEF After, len
<1>2. \A C, ptr : ptr \in Nat => Body(C, ptr) = IF ptr \in Stop THEN v[ptr] ELSE C[next[ptr]]
  OBVIOUS
<1>3. \E C : C = [ptr \in Nat |-> Body(C, ptr)]
  <2> HIDE DEF Body, Stop, v, next
  <2>0. PICK C : IsLoop(C, Nat, Stop, next, v)
    BY <1>1, LoopIsFunction
  <2>1. C = [ptr \in Nat |-> IF ptr \in Stop THEN v[ptr] ELSE C[next[ptr]]]
    BY <2>0 DEF IsLoop
  <2>2. C = [ptr \in Nat |-> Body(C, ptr)]
    BY <1>2, <2>1
  <2> QED BY <2>2
<1> DEFINE C == CHOOSE C : C = [ptr \in Nat |-> Body(C, ptr)]
<1>4. Compressed(data, off) = C[off]
  BY DEF Compressed
<1>5. C = [ptr \in Nat |-> Body(C, ptr)]
  <2> HIDE DEF Body
  <2> QED BY <1>3
<1> HIDE DEF C
<1>6. \A ptr \in Nat : C[ptr] = Body(C, ptr)
  <2> HIDE DEF Body
  <2> QED BY <1>5
<1>7. IsSearch(C, data)
  BY <1>6 DEF IsSearch
<1> QED BY <1>4, <1>7

(* A name is its first label and the others. *)
LEMMA FirstLabelIs ==
  ASSUME NEW labels \in Seq(Seq(Nat)), labels # << >>
  PROVE  /\ Head(labels) \in Seq(Nat) /\ Tail(labels) \in Seq(Seq(Nat))
         /\ Len(Head(labels)) \in Nat /\ Len(Encoded(Tail(labels))) \in Nat
         /\ Len(Encoded(labels)) = 1 + Len(Head(labels)) + Len(Encoded(Tail(labels)))
         /\ \A written \in Seq(Seq(Nat)) :
              Append(written, Head(labels)) \o Tail(labels) = written \o labels
<1> DEFINE N == Len(labels)
           h == Head(labels)
           t == Tail(labels)
<1>1. /\ N \in Nat /\ N # 0 /\ h = labels[1] /\ h \in Seq(Nat) /\ Len(h) \in Nat
      /\ t \in Seq(Seq(Nat)) /\ Len(t) = N - 1 /\ \A i \in 1 .. N - 1 : t[i] = labels[1 + i]
  OBVIOUS
<1> HIDE DEF N, h, t
<1>2. Len(Encoded(labels)) = 1 + Len(h) + Len(Encoded(t)) /\ Len(Encoded(t)) \in Nat
  <2>1. PICK off : IsOffsets(off, labels) /\ off[N] = Len(Encoded(labels))
    BY EncodedIs DEF N
  <2>2. off \in [0 .. N -> Nat] /\ off[0] = 0 /\ off[1] = off[0] + 1 + Len(labels[1])
    <3>1. 1 \in 1 .. N /\ 1 - 1 = 0
      BY <1>1
    <3> QED BY <2>1, <3>1 DEF IsOffsets, N
  <2>3. SubSeq(labels, 1 + 1, N) = t
    <3> DEFINE s == SubSeq(labels, 1 + 1, N)
    <3>1. 1 + 1 \in Nat /\ N \in Nat /\ 1 <= 1 + 1 /\ 1 + 1 <= N + 1 /\ N <= Len(labels)
          /\ N + 1 - (1 + 1) = N - 1
      BY <1>1 DEF N
    <3>2. /\ s \in Seq(Seq(Nat)) /\ Len(s) = N + 1 - (1 + 1)
          /\ \A i \in 1 .. N + 1 - (1 + 1) : s[i] = labels[(1 + 1) + i - 1]
      BY <3>1, SliceIs
    <3>3. \A i \in 1 .. N - 1 : (1 + 1) + i - 1 = 1 + i
      BY <1>1
    <3> HIDE DEF s
    <3>4. Len(s) = Len(t) /\ \A i \in 1 .. Len(s) : s[i] = t[i]
      <4>1. Len(s) = N - 1 /\ \A i \in 1 .. N - 1 : s[i] = labels[(1 + 1) + i - 1]
        BY <3>1, <3>2
      <4>2. Len(t) = N - 1 /\ \A i \in 1 .. N - 1 : t[i] = labels[1 + i]
        BY <1>1
      <4> QED BY <3>3, <4>1, <4>2
    <3>5. s = t
      BY <1>1, <3>2, <3>4, SeqEqual
    <3> QED BY <3>5 DEF s
  <2>4. Len(Encoded(SubSeq(labels, 1 + 1, N))) = off[N] - off[1]
    <3>1. 1 \in Nat /\ N \in Nat /\ 1 <= N /\ N <= Len(labels)
      BY <1>1 DEF N
    <3> QED BY <2>1, <3>1, PartIs
  <2>5. Len(Encoded(t)) \in Nat
    BY <1>1, EncodedIs
  <2> DEFINE o1 == off[1]
             oN == off[N]
  <2>6. o1 \in Nat /\ oN \in Nat
    <3>1. 1 \in 0 .. N /\ N \in 0 .. N
      BY <1>1
    <3> QED BY <2>2, <3>1
  <2>7. o1 = 1 + Len(h)
    BY <1>1, <2>2
  <2>8. Len(Encoded(t)) = oN - o1
    BY <2>3, <2>4
  <2>9. Len(Encoded(labels)) = oN
    BY <2>1
  <2> HIDE DEF o1, oN
  <2> QED BY <1>1, <2>5, <2>6, <2>7, <2>8, <2>9
<1>3. ASSUME NEW written \in Seq(Seq(Nat))
      PROVE  Append(written, h) \o t = written \o labels
  <2> DEFINE a == Append(written, h)
             x == a \o t
             y == written \o labels
             k == Len(written)
  <2>1. /\ a \in Seq(Seq(Nat)) /\ k \in Nat /\ Len(a) = k + 1
        /\ \A i \in 1 .. k : a[i] = written[i]
        /\ a[k + 1] = h
    BY <1>1, AppendProperties
  <2> HIDE DEF a
  <2>2. x = a \o t /\ y = written \o labels
    OBVIOUS
  <2> HIDE DEF x, y
  <2>3. /\ x \in Seq(Seq(Nat)) /\ Len(x) = Len(a) + Len(t)
        /\ \A i \in 1 .. Len(a) : x[i] = a[i]
        /\ \A i \in 1 .. Len(t) : x[Len(a) + i] = t[i]
    <3>1. a \in Seq(Seq(Nat)) /\ t \in Seq(Seq(Nat))
      BY <1>1, <2>1
    <3> QED BY <2>2, <3>1, JoinIs
  <2>4. /\ y \in Seq(Seq(Nat)) /\ Len(y) = k + N
        /\ \A i \in 1 .. k : y[i] = written[i]
        /\ \A i \in 1 .. N : y[k + i] = labels[i]
    BY <2>2, JoinIs DEF N
  <2> HIDE DEF k
  <2>5. Len(x) = Len(y)
    BY <1>1, <2>1, <2>3, <2>4
  <2>6. ASSUME NEW i \in 1 .. Len(x) PROVE x[i] = y[i]
    <3>0. Len(x) = k + N /\ Len(a) = k + 1 /\ Len(t) = N - 1
      BY <1>1, <2>1, <2>3
    <3>1. CASE i <= k
      <4>1. i \in 1 .. Len(a) /\ i \in 1 .. k
        BY <2>1, <3>0, <3>1
      <4> QED BY <2>1, <2>3, <2>4, <4>1
    <3>2. CASE i = k + 1
      <4>1. i \in 1 .. Len(a) /\ 1 \in 1 .. N
        BY <1>1, <2>1, <3>0, <3>2
      <4>2. x[i] = h
        BY <2>1, <2>3, <3>2, <4>1
      <4>3. y[k + 1] = labels[1]
        BY <2>4, <4>1
      <4> QED BY <1>1, <3>2, <4>2, <4>3
    <3>3. CASE i > k + 1
      <4> DEFINE j == i - (k + 1)
      <4>1. /\ j \in 1 .. N - 1 /\ (k + 1) + j = i /\ 1 + j \in 1 .. N /\ k + (1 + j) = i
        BY <1>1, <2>1, <3>0, <3>3
      <4> HIDE DEF j
      <4>2. x[(k + 1) + j] = t[j]
        BY <2>3, <3>0, <4>1
      <4>3. y[k + (1 + j)] = labels[1 + j] /\ t[j] = labels[1 + j]
        BY <1>1, <2>4, <4>1
      <4> QED BY <4>1, <4>2, <4>3
    <3>4. i \in Int /\ k \in Int
      BY <2>1
    <3> QED BY <3>1, <3>2, <3>3, <3>4
  <2>7. x = y
    BY <2>3, <2>4, <2>5, <2>6, SeqEqual
  <2> QED BY <2>7 DEF x, y, a
<1> QED BY <1>1, <1>2, <1>3 DEF h, t

(* How the bytes of a message hold a name. *)
NameType == [at : Nat, labels : Seq(Seq(Nat)), end : Nat]
HoldsPointer(data, names, n) ==
  /\ IsPointer(Byte(data, n.at)) /\ n.at + 1 < Len(data)
  /\ n.end # 0 => n.end = n.at + 2
  /\ \E q \in names : q.at = Target(data, n.at) /\ q.at < n.at /\ q.labels = n.labels
HoldsLabel(data, names, n) ==
  LET next == After(data, n.at)
  IN  /\ Byte(data, n.at) \in 1 .. 63 /\ next < Len(data)
      /\ Label(data, n.at) = Head(n.labels)
      /\ \/ /\ Tail(n.labels) = << >> /\ Byte(data, next) = 0
            /\ n.end # 0 => n.end = next + 1
         \/ \E q \in names :
              /\ q.at = next /\ q.labels = Tail(n.labels)
              /\ n.end # 0 => q.end = n.end /\ ~IsPointer(Byte(data, next))
HoldsName(data, names, n) ==
  /\ n \in NameType /\ IsName(n.labels)
  /\ HoldsPointer(data, names, n) \/ HoldsLabel(data, names, n)
MessageInv(m) == m.bytes \in Seq(Nat) /\ \A n \in m.names : HoldsName(m.bytes, m.names, n)

(* What the loops make of a name, after any labels that leave room for it. *)
PlaceOf(ptr, noff, labels) == [ptr |-> ptr, noff |-> noff, labels |-> labels]
IsRead(W, C, data, n) ==
  \A noff \in Nat, written \in Seq(Seq(Nat)) :
    noff + Len(Encoded(n.labels)) < DNS_QNAME_MAX =>
      \E end \in Nat :
        /\ W[PlaceOf(n.at, noff, written)] = [labels |-> written \o n.labels, end |-> end]
        /\ n.end # 0 /\ ~IsPointer(Byte(data, n.at)) => end = n.end /\ C[n.at] = FALSE

(* A place is what its fields say. *)
LEMMA PlaceOfIs ==
  ASSUME NEW ptr \in Nat, NEW noff \in Nat, NEW labels \in Seq(Seq(Nat))
  PROVE  LET p == PlaceOf(ptr, noff, labels)
         IN  p \in Place /\ p.ptr = ptr /\ p.noff = noff /\ p.labels = labels
BY DEF PlaceOf, Place

(* A label with something after it is inside the message. *)
LEMMA AfterIs ==
  ASSUME NEW data \in Seq(Nat), NEW ptr \in Nat, After(data, ptr) < Len(data)
  PROVE  LET len == Byte(data, ptr)
         IN  /\ len \in Nat /\ After(data, ptr) \in Nat /\ After(data, ptr) = ptr + len + 1
             /\ ptr < Len(data) /\ ptr + 1 + len < Len(data)
<1> DEFINE len == Byte(data, ptr)
           next == After(data, ptr)
           L == Len(data)
<1>1. len \in Nat /\ L \in Nat /\ next = ptr + len + 1 /\ next < L
  BY ByteIs DEF After
<1> HIDE DEF len, next, L
<1>2. next \in Nat /\ ptr < L /\ ptr + 1 + len < L
  BY <1>1
<1> QED BY <1>1, <1>2 DEF len, next, L

(* A pointer to a name that is read is read as that name. *)
LEMMA PointerIsRead ==
  ASSUME NEW data \in Seq(Nat), NEW W, NEW C, IsWalk(W, data),
         NEW n \in NameType, NEW q \in NameType, IsRead(W, C, data, q),
         IsPointer(Byte(data, n.at)), q.at = Target(data, n.at), q.labels = n.labels
  PROVE  IsRead(W, C, data, n)
<1> SUFFICES ASSUME NEW noff \in Nat, NEW written \in Seq(Seq(Nat)),
                    noff + Len(Encoded(n.labels)) < DNS_QNAME_MAX
             PROVE  \E end \in Nat :
                      /\ W[PlaceOf(n.at, noff, written)] = [labels |-> written \o n.labels, end |-> end]
                      /\ n.end # 0 /\ ~IsPointer(Byte(data, n.at)) => end = n.end /\ C[n.at] = FALSE
  BY DEF IsRead
<1> DEFINE p == PlaceOf(n.at, noff, written)
           p2 == PlaceOf(q.at, noff, written)
<1>1. n.at \in Nat /\ q.at \in Nat
  BY DEF NameType
<1>2. p \in Place /\ p.ptr = n.at
  BY <1>1, PlaceOfIs
<1>3. Byte(data, n.at) # 0
  <2>1. Byte(data, n.at) \in Nat
    BY <1>1, ByteIs
  <2> QED BY <2>1 DEF IsPointer
<1>4. p \notin WalkStops(data)
  BY <1>2, <1>3 DEF WalkStops
<1>5. WalkNext(data, p) = p2
  BY <1>2 DEF WalkNext, PlaceOf
<1>6. W[p] = W[p2]
  <2> HIDE DEF p, p2
  <2> QED BY <1>2, <1>4, <1>5 DEF IsWalk
<1>7. PICK end \in Nat : W[p2] = [labels |-> written \o q.labels, end |-> end]
  BY DEF IsRead
<1> QED BY <1>6, <1>7

(* A label is read if the labels after it are. *)
LEMMA LabelIsRead ==
  ASSUME NEW data \in Seq(Nat), NEW names, NEW W, NEW C, IsWalk(W, data), IsSearch(C, data),
         NEW n \in NameType, IsName(n.labels), HoldsLabel(data, names, n),
         \A q \in names : q \in NameType,
         \A q \in names : q.labels = Tail(n.labels) => IsRead(W, C, data, q)
  PROVE  IsRead(W, C, data, n)
<1> SUFFICES ASSUME NEW noff \in Nat, NEW written \in Seq(Seq(Nat)),
                    noff + Len(Encoded(n.labels)) < DNS_QNAME_MAX
             PROVE  \E end \in Nat :
                      /\ W[PlaceOf(n.at, noff, written)] = [labels |-> written \o n.labels, end |-> end]
                      /\ n.end # 0 /\ ~IsPointer(Byte(data, n.at)) => end = n.end /\ C[n.at] = FALSE
  BY DEF IsRead
<1> DEFINE p == PlaceOf(n.at, noff, written)
           len == Byte(data, n.at)
           next == After(data, n.at)
           h == Head(n.labels)
           t == Tail(n.labels)
           after == Append(written, h)
           p2 == PlaceOf(next, noff + len + 1, after)
           size == Len(Encoded(t))
<1>1. n.at \in Nat /\ n.labels \in Seq(Seq(Nat)) /\ n.labels # << >>
  BY DEF NameType, IsName
<1>2. len \in 1 .. 63 /\ next < Len(data) /\ Label(data, n.at) = h
  BY DEF HoldsLabel
<1>3. /\ next = n.at + len + 1 /\ next \in Nat
      /\ n.at + 1 + len <= Len(data) /\ ~(n.at + 1 + len > Len(data))
  <2>1. /\ len \in Nat /\ next \in Nat /\ next = n.at + len + 1
        /\ n.at + 1 + len < Len(data)
    BY <1>1, <1>2, AfterIs
  <2>2. n.at + 1 + len \in Nat /\ Len(data) \in Nat
    <3> HIDE DEF len
    <3> QED BY <1>1, <2>1
  <2> DEFINE end == n.at + 1 + len
             L == Len(data)
  <2>3. end \in Nat /\ L \in Nat /\ end < L
    BY <2>1, <2>2
  <2> HIDE DEF end, L
  <2>4. end <= L /\ ~(end > L)
    BY <2>3
  <2> QED BY <2>1, <2>4 DEF end, L
<1>4. Len(h) = len /\ h \in Seq(Nat) /\ t \in Seq(Seq(Nat)) /\ size \in Nat
      /\ Len(Encoded(n.labels)) = 1 + len + size /\ after \o t = written \o n.labels
  <2>1. Len(h) = len
    BY <1>1, <1>2, <1>3, LabelIs
  <2>2. /\ h \in Seq(Nat) /\ t \in Seq(Seq(Nat)) /\ size \in Nat
        /\ Len(Encoded(n.labels)) = 1 + Len(h) + size /\ after \o t = written \o n.labels
    BY <1>1, FirstLabelIs
  <2> HIDE DEF h, t, size, after
  <2> QED BY <2>1, <2>2
<1>5. noff + (1 + len + size) < DNS_QNAME_MAX
  BY <1>4
<1> HIDE DEF size
<1>6. after \in Seq(Seq(Nat))
  BY <1>4, AppendProperties
<1>7. p \in Place /\ p.ptr = n.at /\ p.noff = noff /\ p.labels = written
  BY <1>1, PlaceOfIs
<1>8. ~IsPointer(len) /\ len # 0 /\ noff + len + 1 \in Nat
      /\ ~(n.at + 1 + len > Len(data)) /\ ~(noff + len > DNS_QNAME_MAX) /\ noff + len # DNS_QNAME_MAX
  <2> HIDE DEF len
  <2>1. len \in 1 .. 63 /\ size \in Nat
    BY <1>2, <1>4
  <2>2. ~IsPointer(len) /\ len # 0 /\ noff + len + 1 \in Nat
        /\ ~(noff + len > DNS_QNAME_MAX) /\ noff + len # DNS_QNAME_MAX
    BY <1>5, <2>1 DEF IsPointer, DNS_QNAME_MAX
  <2> QED BY <1>3, <2>2
<1>9. p \notin WalkStops(data)
  <2> HIDE DEF p
  <2> QED BY <1>7, <1>8 DEF WalkStops
<1>10. WalkNext(data, p) = p2
  <2> HIDE DEF p
  <2>1. WalkNext(data, p) = [ptr |-> next, noff |-> noff + len + 1, labels |-> Append(written, h)]
    BY <1>2, <1>7, <1>8 DEF WalkNext
  <2> QED BY <2>1 DEF PlaceOf
<1>11. W[p] = W[p2]
  <2> HIDE DEF p, p2
  <2> QED BY <1>7, <1>9, <1>10 DEF IsWalk
<1>12. C[n.at] = C[next]
  BY <1>1, <1>8 DEF IsSearch
<1>13. CASE /\ t = << >> /\ Byte(data, next) = 0
            /\ n.end # 0 => n.end = next + 1
  <2>1. p2 \in Place /\ p2.ptr = next /\ p2.labels = after
    <3> HIDE DEF next, len, after
    <3> QED BY <1>3, <1>6, <1>8, PlaceOfIs
  <2>2. W[p2] = [labels |-> after, end |-> next + 1]
    <3> HIDE DEF p2
    <3>1. p2 \in WalkStops(data)
      BY <1>13, <2>1 DEF WalkStops
    <3>2. W[p2] = WalkResult(data, p2)
      BY <2>1, <3>1 DEF IsWalk
    <3> QED BY <1>13, <2>1, <3>2 DEF WalkResult
  <2>3. after = written \o n.labels
    <3>1. after \o << >> = after
      BY <1>6, ConcatEmptySeq
    <3> HIDE DEF after
    <3> QED BY <1>4, <1>13, <3>1
  <2>4. C[next] = FALSE
    <3> HIDE DEF next
    <3>1. C[next] = (Byte(data, next) # 0)
      BY <1>3, <1>13 DEF IsSearch
    <3> QED BY <1>13, <3>1
  <2>5. next + 1 \in Nat
    BY <1>3
  <2> HIDE DEF p, p2, next, after, len
  <2> QED BY <1>11, <1>12, <1>13, <2>2, <2>3, <2>4, <2>5 DEF p
<1>14. ASSUME NEW q \in names, q.at = next, q.labels = t,
              n.end # 0 => q.end = n.end /\ ~IsPointer(Byte(data, next))
       PROVE  \E end \in Nat :
                /\ W[p] = [labels |-> written \o n.labels, end |-> end]
                /\ n.end # 0 /\ ~IsPointer(len) => end = n.end /\ C[n.at] = FALSE
  <2>1. IsRead(W, C, data, q)
    BY <1>14
  <2>2. noff + len + 1 + Len(Encoded(q.labels)) < DNS_QNAME_MAX
    <3>1. noff + len + 1 + size < DNS_QNAME_MAX
      <4> HIDE DEF len
      <4> QED BY <1>2, <1>4, <1>5 DEF DNS_QNAME_MAX
    <3> QED BY <1>14, <3>1 DEF size
  <2>3. PICK end \in Nat :
          /\ W[PlaceOf(q.at, noff + len + 1, after)] = [labels |-> after \o q.labels, end |-> end]
          /\ q.end # 0 /\ ~IsPointer(Byte(data, q.at)) => end = q.end /\ C[q.at] = FALSE
    <3> HIDE DEF len, after
    <3> QED BY <1>6, <1>8, <2>1, <2>2 DEF IsRead
  <2>4. W[p2] = [labels |-> written \o n.labels, end |-> end]
    <3> HIDE DEF after, next, len
    <3> QED BY <1>4, <1>14, <2>3
  <2> HIDE DEF p, p2, next, after, len
  <2> QED BY <1>11, <1>12, <1>14, <2>3, <2>4
<1>15. \/ /\ t = << >> /\ Byte(data, next) = 0
          /\ n.end # 0 => n.end = next + 1
       \/ \E q \in names :
            /\ q.at = next /\ q.labels = t
            /\ n.end # 0 => q.end = n.end /\ ~IsPointer(Byte(data, next))
  BY DEF HoldsLabel
<1> HIDE DEF next, t, len, p
<1>16. CASE \E q \in names :
              /\ q.at = next /\ q.labels = t
              /\ n.end # 0 => q.end = n.end /\ ~IsPointer(Byte(data, next))
  BY <1>14, <1>16 DEF p, len
<1> QED BY <1>13, <1>15, <1>16

(* Every name is read: by induction on its labels, and on its place for    *)
(* the pointers, which lead back.                                          *)
LEMMA EveryNameIsRead ==
  ASSUME NEW data \in Seq(Nat), NEW names, NEW W, NEW C, IsWalk(W, data), IsSearch(C, data),
         \A n \in names : HoldsName(data, names, n)
  PROVE  \A n \in names : IsRead(W, C, data, n)
<1> DEFINE Done(n) == IsRead(W, C, data, n)
           Short(k) == \A n \in names : Len(n.labels) <= k => Done(n)
           Before(k, a) == \A n \in names : Len(n.labels) = k + 1 /\ n.at < a => Done(n)
           Lengths == {k \in Nat : Short(k)}
<1>1. \A n \in names :
        /\ n \in NameType /\ IsName(n.labels) /\ n.at \in Nat
        /\ n.labels \in Seq(Seq(Nat)) /\ n.labels # << >>
        /\ Len(n.labels) \in Nat /\ Len(n.labels) # 0
        /\ Len(Tail(n.labels)) = Len(n.labels) - 1
        /\ HoldsPointer(data, names, n) \/ HoldsLabel(data, names, n)
  <2> SUFFICES ASSUME NEW n \in names
               PROVE  /\ n \in NameType /\ IsName(n.labels) /\ n.at \in Nat
                      /\ n.labels \in Seq(Seq(Nat)) /\ n.labels # << >>
                      /\ Len(n.labels) \in Nat /\ Len(n.labels) # 0
                      /\ Len(Tail(n.labels)) = Len(n.labels) - 1
                      /\ HoldsPointer(data, names, n) \/ HoldsLabel(data, names, n)
    OBVIOUS
  <2>1. /\ n \in NameType /\ IsName(n.labels)
        /\ HoldsPointer(data, names, n) \/ HoldsLabel(data, names, n)
    BY DEF HoldsName
  <2>2. n.at \in Nat /\ n.labels \in Seq(Seq(Nat)) /\ n.labels # << >>
    BY <2>1 DEF NameType, IsName
  <2>3. Len(n.labels) \in Nat /\ Len(n.labels) # 0 /\ Len(Tail(n.labels)) = Len(n.labels) - 1
    BY <2>2
  <2> QED BY <2>1, <2>2, <2>3
<1> HIDE DEF Done
<1>2. 0 \in Lengths
  BY <1>1
<1>3. ASSUME NEW k \in Nat, k \in Lengths PROVE k + 1 \in Lengths
  <2> DEFINE Places == {a \in Nat : Before(k, a)}
  <2>1. 0 \in Places
    BY <1>1
  <2>2. ASSUME NEW a \in Nat, a \in Places PROVE a + 1 \in Places
    <3> SUFFICES ASSUME NEW n \in names, Len(n.labels) = k + 1, n.at < a + 1 PROVE Done(n)
      OBVIOUS
    <3>1. CASE HoldsPointer(data, names, n)
      <4>1. PICK q \in names : q.at = Target(data, n.at) /\ q.at < n.at /\ q.labels = n.labels
        BY <3>1 DEF HoldsPointer
      <4>2. q.at < a /\ Len(q.labels) = k + 1
        BY <1>1, <4>1
      <4>3. Done(q)
        BY <2>2, <4>2
      <4> QED BY <1>1, <3>1, <4>1, <4>3, PointerIsRead DEF HoldsPointer, Done
    <3>2. CASE HoldsLabel(data, names, n)
      <4>1. ASSUME NEW q \in names, q.labels = Tail(n.labels) PROVE Done(q)
        <5>1. Len(q.labels) = (k + 1) - 1
          BY <1>1, <4>1
        <5>2. Len(q.labels) <= k
          BY <5>1
        <5> QED BY <1>3, <5>2
      <4>2. \A q \in names : q \in NameType
        BY <1>1
      <4>3. n \in NameType /\ IsName(n.labels)
        BY <1>1
      <4>4. \A q \in names : q.labels = Tail(n.labels) => IsRead(W, C, data, q)
        BY <4>1 DEF Done
      <4>5. IsRead(W, C, data, n)
        BY <3>2, <4>2, <4>3, <4>4, LabelIsRead
      <4> QED BY <4>5 DEF Done
    <3> QED BY <1>1, <3>1, <3>2
  <2>3. Nat \subseteq Places
    <3> HIDE DEF Places
    <3> QED BY <2>1, <2>2, NatInSet
  <2>4. ASSUME NEW n \in names, Len(n.labels) <= k + 1 PROVE Done(n)
    <3>1. CASE Len(n.labels) <= k
      BY <1>3, <3>1
    <3>2. CASE Len(n.labels) = k + 1
      <4>1. n.at + 1 \in Nat /\ n.at < n.at + 1
        BY <1>1
      <4>2. n.at + 1 \in Places
        BY <2>3, <4>1
      <4> QED BY <3>2, <4>1, <4>2
    <3>3. Len(n.labels) \in Nat
      BY <1>1
    <3> QED BY <2>4, <3>1, <3>2, <3>3
  <2> QED BY <2>4
<1>4. Nat \subseteq Lengths
  <2> HIDE DEF Lengths
  <2> QED BY <1>2, <1>3, NatInSet
<1>5. ASSUME NEW n \in names PROVE Done(n)
  <2> DEFINE k == Len(n.labels)
  <2>1. k \in Nat /\ k <= k
    BY <1>1
  <2>2. k \in Lengths
    BY <1>4, <2>1
  <2> QED BY <2>1, <2>2
<1> QED BY <1>5 DEF Done

(* get_qname reads the names of a message. *)
LEMMA MessageIsRead ==
  ASSUME NEW m, MessageInv(m)
  PROVE  NamesAreRead(m)
<1> DEFINE data == m.bytes
           names == m.names
<1>1. data \in Seq(Nat) /\ \A n \in names : HoldsName(data, names, n)
  BY DEF MessageInv
<1> HIDE DEF data, names
<1> SUFFICES ASSUME NEW n \in names
             PROVE  LET found == get_qname(data, n.at)
                    IN  found.labels = n.labels /\ (n.end # 0 => found.end = n.end)
  BY DEF NamesAreRead, data, names
<1>2. n \in NameType /\ IsName(n.labels) /\ (HoldsPointer(data, names, n) \/ HoldsLabel(data, names, n))
  BY <1>1 DEF HoldsName
<1>3. n.at \in Nat /\ n.labels \in Seq(Seq(Nat)) /\ n.labels # << >>
  BY <1>2 DEF NameType, IsName
<1>4. PICK W : Walk(data, n.at) = W[Start(n.at)] /\ IsWalk(W, data)
  BY <1>1, WalkLoop
<1>5. PICK C : Compressed(data, n.at) = C[n.at] /\ IsSearch(C, data)
  BY <1>1, SearchLoop
<1>6. IsRead(W, C, data, n)
  BY <1>1, <1>4, <1>5, EveryNameIsRead
<1>7. PICK end \in Nat :
        /\ W[PlaceOf(n.at, 0, << >>)] = [labels |-> << >> \o n.labels, end |-> end]
        /\ n.end # 0 /\ ~IsPointer(Byte(data, n.at)) => end = n.end /\ C[n.at] = FALSE
  <2>1. 0 \in Nat /\ << >> \in Seq(Seq(Nat))
    OBVIOUS
  <2>2. Len(Encoded(n.labels)) < DNS_QNAME_MAX
    BY <1>2 DEF IsName
  <2>3. Len(Encoded(n.labels)) \in Nat
    BY <1>3, EncodedIs
  <2>4. 0 + Len(Encoded(n.labels)) < DNS_QNAME_MAX
    BY <2>2, <2>3
  <2> QED BY <1>6, <2>1, <2>4 DEF IsRead
<1> DEFINE walk == [labels |-> n.labels, end |-> end]
<1>8. Walk(data, n.at) = walk
  <2>1. << >> \o n.labels = n.labels
    BY <1>3, ConcatEmptySeq
  <2>2. Start(n.at) = PlaceOf(n.at, 0, << >>)
    BY DEF Start, PlaceOf
  <2> QED BY <1>4, <1>7, <2>1, <2>2
<1>9. get_qname(data, n.at) = IF Compressed(data, n.at) THEN [walk EXCEPT !.end = n.at + 2] ELSE walk
  <2>1. walk.labels # << >>
    BY <1>3
  <2> HIDE DEF walk
  <2> QED BY <1>8, <2>1 DEF get_qname
<1>10. get_qname(data, n.at).labels = n.labels
  <2>1. CASE Compressed(data, n.at)
    BY <1>9, <2>1
  <2>2. CASE ~Compressed(data, n.at)
    BY <1>9, <2>2
  <2> QED BY <2>1, <2>2
<1>11. ASSUME n.end # 0 PROVE get_qname(data, n.at).end = n.end
  <2>1. CASE HoldsPointer(data, names, n)
    <3>1. IsPointer(Byte(data, n.at)) /\ n.end = n.at + 2
      BY <1>11, <2>1 DEF HoldsPointer
    <3>2. Byte(data, n.at) # 0
      <4>1. Byte(data, n.at) \in Nat
        BY <1>1, <1>3, ByteIs
      <4> QED BY <3>1, <4>1 DEF IsPointer
    <3>3. C[n.at] = (Byte(data, n.at) # 0)
      BY <1>3, <1>5, <3>1 DEF IsSearch
    <3>4. Compressed(data, n.at) = TRUE
      BY <1>5, <3>2, <3>3
    <3> QED BY <1>9, <3>1, <3>4
  <2>2. CASE HoldsLabel(data, names, n)
    <3>1. ~IsPointer(Byte(data, n.at))
      <4>1. Byte(data, n.at) \in 1 .. 63
        BY <2>2 DEF HoldsLabel
      <4> QED BY <4>1 DEF IsPointer
    <3>2. end = n.end /\ Compressed(data, n.at) = FALSE
      BY <1>5, <1>7, <1>11, <3>1
    <3> QED BY <1>9, <3>2
  <2> QED BY <1>2, <2>1, <2>2
<1> QED BY <1>10, <1>11

(* A name that a message holds is held by one that begins with it. *)
Begins(data, data2) ==
  Len(data) <= Len(data2) /\ \A j \in 1 .. Len(data) : data2[j] = data[j]

(* The bytes of a message stay when something is appended to it. *)
LEMMA SameByte ==
  ASSUME NEW data \in Seq(Nat), NEW data2 \in Seq(Nat), Begins(data, data2),
         NEW ptr \in Nat, ptr < Len(data)
  PROVE  Byte(data2, ptr) = Byte(data, ptr)
<1>1. ptr + 1 \in 1 .. Len(data) /\ ptr < Len(data2)
  BY DEF Begins
<1>2. data2[ptr + 1] = data[ptr + 1]
  BY <1>1 DEF Begins
<1> QED BY <1>1, <1>2 DEF Byte

(* And so do its names. *)
LEMMA StillHolds ==
  ASSUME NEW data \in Seq(Nat), NEW data2 \in Seq(Nat), Begins(data, data2),
         NEW names, NEW names2, names \subseteq names2, NEW n, HoldsName(data, names, n)
  PROVE  HoldsName(data2, names2, n)
<1>1. n \in NameType /\ IsName(n.labels) /\ n.at \in Nat
  BY DEF HoldsName, NameType
<1>2. CASE HoldsPointer(data, names, n)
  <2>1. /\ IsPointer(Byte(data, n.at)) /\ n.at + 1 < Len(data)
        /\ n.end # 0 => n.end = n.at + 2
        /\ \E q \in names : q.at = Target(data, n.at) /\ q.at < n.at /\ q.labels = n.labels
    BY <1>2 DEF HoldsPointer
  <2>2. /\ n.at < Len(data) /\ n.at + 1 \in Nat /\ n.at + 1 < Len(data2)
        /\ n.at + 1 < Len(data)
    BY <1>1, <2>1 DEF Begins
  <2>3. Byte(data2, n.at) = Byte(data, n.at) /\ Byte(data2, n.at + 1) = Byte(data, n.at + 1)
    BY <1>1, <2>2, SameByte
  <2>4. Target(data2, n.at) = Target(data, n.at)
    BY <2>3 DEF Target
  <2>5. HoldsPointer(data2, names2, n)
    BY <2>1, <2>2, <2>3, <2>4 DEF HoldsPointer
  <2> QED BY <1>1, <2>5 DEF HoldsName
<1>3. CASE HoldsLabel(data, names, n)
  <2> DEFINE next == After(data, n.at)
             len == Byte(data, n.at)
  <2>1. /\ len \in 1 .. 63 /\ next < Len(data)
        /\ Label(data, n.at) = Head(n.labels)
        /\ \/ /\ Tail(n.labels) = << >> /\ Byte(data, next) = 0
              /\ n.end # 0 => n.end = next + 1
           \/ \E q \in names :
                /\ q.at = next /\ q.labels = Tail(n.labels)
                /\ n.end # 0 => q.end = n.end /\ ~IsPointer(Byte(data, next))
    BY <1>3 DEF HoldsLabel
  <2>2. /\ len \in Nat /\ next \in Nat /\ next = n.at + len + 1
        /\ n.at < Len(data) /\ n.at + 1 + len < Len(data)
    BY <1>1, <2>1, AfterIs
  <2> HIDE DEF len, next
  <2>3. /\ next < Len(data2)
        /\ n.at + 1 + len <= Len(data) /\ n.at + 1 + len <= Len(data2)
    <3> DEFINE L == Len(data)
               L2 == Len(data2)
    <3>0. next < L
      BY <2>1
    <3>1. L \in Nat /\ L2 \in Nat /\ L <= L2 /\ next < L /\ n.at + 1 + len < L
      <4>1. L \in Nat /\ L2 \in Nat
        OBVIOUS
      <4>2. L <= L2
        BY DEF Begins
      <4> QED BY <2>2, <3>0, <4>1, <4>2
    <3> HIDE DEF L, L2
    <3>2. next < L2 /\ n.at + 1 + len <= L /\ n.at + 1 + len <= L2
      <4>1. next \in Nat /\ n.at + 1 + len \in Nat
        BY <1>1, <2>2
      <4>2. \A x, y \in Nat : x < L /\ y < L => x < L2 /\ y <= L /\ y <= L2
        BY <3>1
      <4> QED BY <3>1, <4>1, <4>2
    <3> QED BY <3>2 DEF L, L2
  <2>4. Byte(data2, n.at) = len /\ Byte(data2, next) = Byte(data, next)
    <3>1. Byte(data2, n.at) = Byte(data, n.at)
      BY <1>1, <2>2, SameByte
    <3>2. next < Len(data)
      BY <2>1
    <3> QED BY <2>2, <3>1, <3>2, SameByte DEF len
  <2>5. After(data2, n.at) = next
    BY <2>4 DEF After, next, len
  <2>6. Label(data2, n.at) = Label(data, n.at)
    <3> DEFINE s == Label(data, n.at)
               t == Label(data2, n.at)
    <3>1. s \in Seq(Nat) /\ Len(s) = len /\ \A j \in 1 .. len : s[j] = data[n.at + 1 + j]
      <4>1. n.at + 1 + Byte(data, n.at) <= Len(data)
        BY <2>3 DEF len
      <4>2. /\ s \in Seq(Nat) /\ Len(s) = Byte(data, n.at)
            /\ \A j \in 1 .. Byte(data, n.at) : s[j] = data[n.at + 1 + j]
        BY <1>1, <4>1, LabelIs
      <4> QED BY <4>2 DEF len
    <3>2. t \in Seq(Nat) /\ Len(t) = len /\ \A j \in 1 .. len : t[j] = data2[n.at + 1 + j]
      <4>1. n.at + 1 + Byte(data2, n.at) <= Len(data2)
        BY <2>3, <2>4
      <4>2. /\ t \in Seq(Nat) /\ Len(t) = Byte(data2, n.at)
            /\ \A j \in 1 .. Byte(data2, n.at) : t[j] = data2[n.at + 1 + j]
        BY <1>1, <4>1, LabelIs
      <4> QED BY <2>4, <4>2
    <3> HIDE DEF s, t
    <3>3. ASSUME NEW j \in 1 .. len PROVE t[j] = s[j]
      <4> DEFINE L == Len(data)
      <4>0. L \in Nat /\ n.at + 1 + len <= L
        BY <2>3
      <4> HIDE DEF L
      <4>2. n.at \in Nat /\ len \in Nat
        BY <1>1, <2>2
      <4>3. n.at + 1 + j \in 1 .. L
        BY <4>0, <4>2
      <4>1. n.at + 1 + j \in 1 .. Len(data)
        BY <4>3 DEF L
      <4>4. data2[n.at + 1 + j] = data[n.at + 1 + j]
        BY <4>1 DEF Begins
      <4> QED BY <3>1, <3>2, <4>4
    <3>4. t = s
      BY <3>1, <3>2, <3>3, SeqEqual
    <3> QED BY <3>4 DEF s, t
  <2>7. HoldsLabel(data2, names2, n)
    BY <2>1, <2>3, <2>4, <2>5, <2>6 DEF HoldsLabel
  <2> QED BY <1>1, <2>7 DEF HoldsName
<1> QED BY <1>2, <1>3 DEF HoldsName

(* A name begins inside its message. *)
LEMMA PlaceIsInside ==
  ASSUME NEW data \in Seq(Nat), NEW names, NEW n, HoldsName(data, names, n)
  PROVE  n.at \in Nat /\ n.at < Len(data)
<1>1. n.at \in Nat
  BY DEF HoldsName, NameType
<1>2. CASE HoldsPointer(data, names, n)
  BY <1>1, <1>2 DEF HoldsPointer
<1>3. CASE HoldsLabel(data, names, n)
  <2> DEFINE len == Byte(data, n.at)
  <2>1. len \in Nat
    BY <1>1, ByteIs
  <2>2. n.at + len + 1 < Len(data)
    BY <1>3 DEF HoldsLabel, After
  <2> HIDE DEF len
  <2> QED BY <1>1, <2>1, <2>2
<1> QED BY <1>2, <1>3 DEF HoldsName

(* The rest of a sequence from a place on. *)
LEMMA RestIs ==
  ASSUME NEW T, NEW s \in Seq(T), NEW i \in Nat, i < Len(s)
  PROVE  LET r == SubSeq(s, i + 1, Len(s))
         IN  /\ r \in Seq(T) /\ r # << >> /\ Head(r) = s[i + 1]
             /\ Tail(r) = SubSeq(s, (i + 1) + 1, Len(s))
<1> DEFINE N == Len(s)
           r == SubSeq(s, i + 1, N)
           q == SubSeq(s, (i + 1) + 1, N)
<1>1. N \in Nat /\ N <= Len(s) /\ i + 1 \in Nat /\ 1 <= i + 1 /\ i + 1 <= N + 1
      /\ N + 1 - (i + 1) = N - i
      /\ (i + 1) + 1 \in Nat /\ 1 <= (i + 1) + 1 /\ (i + 1) + 1 <= N + 1
      /\ N + 1 - ((i + 1) + 1) = N - i - 1 /\ N - i \in Nat /\ N - i >= 1
  OBVIOUS
<1> HIDE DEF N
<1>2. /\ r \in Seq(T) /\ Len(r) = N + 1 - (i + 1)
      /\ \A j \in 1 .. N + 1 - (i + 1) : r[j] = s[(i + 1) + j - 1]
  BY <1>1, SliceIs
<1>3. /\ q \in Seq(T) /\ Len(q) = N + 1 - ((i + 1) + 1)
      /\ \A j \in 1 .. N + 1 - ((i + 1) + 1) : q[j] = s[((i + 1) + 1) + j - 1]
  BY <1>1, SliceIs
<1> HIDE DEF r, q
<1>4. Len(r) = N - i /\ Len(q) = N - i - 1
  BY <1>1, <1>2, <1>3
<1>5. r # << >> /\ Head(r) = r[1] /\ Tail(r) \in Seq(T) /\ Len(Tail(r)) = Len(r) - 1
      /\ \A j \in 1 .. Len(r) - 1 : Tail(r)[j] = r[j + 1]
  BY <1>1, <1>2, <1>4, HeadTailProperties
<1>6. r[1] = s[i + 1]
  <2>1. 1 \in 1 .. N + 1 - (i + 1) /\ (i + 1) + 1 - 1 = i + 1
    BY <1>1
  <2> QED BY <1>2, <2>1
<1>7. Tail(r) = q
  <2>1. ASSUME NEW j \in 1 .. N - i - 1 PROVE Tail(r)[j] = q[j]
    <3>1. /\ j \in 1 .. Len(r) - 1 /\ j + 1 \in 1 .. N + 1 - (i + 1)
          /\ j \in 1 .. N + 1 - ((i + 1) + 1)
          /\ (i + 1) + (j + 1) - 1 = ((i + 1) + 1) + j - 1
      BY <1>1, <1>4
    <3> QED BY <1>2, <1>3, <1>5, <3>1
  <2>2. Len(Tail(r)) = N - i - 1
    BY <1>1, <1>4, <1>5
  <2> QED BY <1>3, <1>4, <1>5, <2>1, <2>2, SeqEqual
<1> QED BY <1>2, <1>5, <1>6, <1>7 DEF r, q, N

(* The labels after some of those written are the rest of the whole name.  *)
LEMMA WholeIs ==
  ASSUME NEW T, NEW labels \in Seq(T), NEW rest \in Seq(T), NEW i \in 0 .. Len(labels)
  PROVE  SubSeq(labels, i + 1, Len(labels)) \o rest
           = SubSeq(labels \o rest, i + 1, Len(labels \o rest))
<1> DEFINE N == Len(labels)
           all == labels \o rest
           total == Len(all)
           a == SubSeq(labels, i + 1, N)
           x == a \o rest
           y == SubSeq(all, i + 1, total)
<1>0. all = labels \o rest /\ x = a \o rest
  OBVIOUS
<1> HIDE DEF all, x
<1>1. /\ all \in Seq(T) /\ total = N + Len(rest) /\ N \in Nat /\ Len(rest) \in Nat
      /\ \A j \in 1 .. N : all[j] = labels[j]
      /\ \A j \in 1 .. Len(rest) : all[N + j] = rest[j]
  BY <1>0, JoinIs
<1>2. i \in Nat /\ i + 1 \in Nat /\ 1 <= i + 1 /\ i + 1 <= N + 1 /\ N <= Len(labels)
      /\ i <= N /\ N + 1 - (i + 1) = N - i /\ N - i \in Nat
      /\ i + 1 <= total + 1 /\ total <= Len(all) /\ total \in Nat /\ total + 1 - (i + 1) = total - i
  <2>1. total \in Nat /\ total = N + Len(rest) /\ Len(rest) \in Nat
    BY <1>1
  <2>2. N <= Len(labels) /\ total <= Len(all)
    BY <1>1, <2>1
  <2>3. i \in 0 .. N /\ N \in Nat
    BY <1>1
  <2> HIDE DEF total, N
  <2> QED BY <2>1, <2>2, <2>3
<1> HIDE DEF N, total
<1>3. /\ a \in Seq(T) /\ Len(a) = N + 1 - (i + 1)
      /\ \A j \in 1 .. N + 1 - (i + 1) : a[j] = labels[(i + 1) + j - 1]
  <2>1. N \in Nat
    BY <1>1
  <2> QED BY <1>2, <2>1, SliceIs
<1>4. /\ y \in Seq(T) /\ Len(y) = total + 1 - (i + 1)
      /\ \A j \in 1 .. total + 1 - (i + 1) : y[j] = all[(i + 1) + j - 1]
  <2>1. all \in Seq(T)
    BY <1>1
  <2> QED BY <1>2, <2>1, SliceIs
<1> HIDE DEF a, y
<1>5. /\ x \in Seq(T) /\ Len(x) = Len(a) + Len(rest)
      /\ \A j \in 1 .. Len(a) : x[j] = a[j]
      /\ \A j \in 1 .. Len(rest) : x[Len(a) + j] = rest[j]
  <2>1. a \in Seq(T)
    BY <1>3
  <2> QED BY <1>0, <2>1, JoinIs
<1>6. Len(a) = N - i /\ Len(x) = total - i /\ Len(y) = total - i /\ total - i \in Nat
  BY <1>1, <1>2, <1>3, <1>4, <1>5
<1>7. ASSUME NEW j \in 1 .. total - i PROVE x[j] = y[j]
  <2>0. y[j] = all[i + j]
    <3>1. j \in 1 .. total + 1 - (i + 1) /\ (i + 1) + j - 1 = i + j
      BY <1>2
    <3> QED BY <1>4, <3>1
  <2>1. CASE j <= N - i
    <3>1. j \in 1 .. Len(a) /\ j \in 1 .. N + 1 - (i + 1) /\ (i + 1) + j - 1 = i + j
          /\ i + j \in 1 .. N
      BY <1>1, <1>2, <1>6, <2>1
    <3> QED BY <1>1, <1>3, <1>5, <2>0, <3>1
  <2>2. CASE ~(j <= N - i)
    <3> DEFINE k == j - (N - i)
    <3>1. k \in 1 .. Len(rest) /\ (N - i) + k = j /\ N + k = i + j
      BY <1>1, <1>2, <1>6, <2>2
    <3> HIDE DEF k
    <3>2. x[(N - i) + k] = rest[k] /\ all[N + k] = rest[k]
      BY <1>1, <1>5, <1>6, <3>1
    <3> QED BY <2>0, <3>1, <3>2
  <2> QED BY <2>1, <2>2
<1>8. x = y
  BY <1>4, <1>5, <1>6, <1>7, SeqEqual
<1> QED BY <1>8 DEF x, y, a, N, total, all

(* The bytes of a pointer lead to its target. *)
LEMMA PointerLeadsTo ==
  ASSUME NEW at \in Nat, at < 64 * 256
  PROVE  /\ IsPointer(192 + at \div 256) /\ 192 + at \div 256 \in Nat /\ at % 256 \in Nat
         /\ ((192 + at \div 256) % 64) * 256 + (at % 256) = at
<1> DEFINE d == at \div 256
           r == at % 256
<1>1. d \in Nat /\ r \in Nat /\ at = 256 * d + r /\ d < 64
  OBVIOUS
<1> HIDE DEF d, r
<1>2. (192 + d) % 64 = d /\ 192 + d >= 64 /\ 192 + d \in Nat
  BY <1>1
<1>3. d * 256 + r = at
  BY <1>1
<1>4. IsPointer(192 + d)
  BY <1>2 DEF IsPointer
<1> QED BY <1>1, <1>2, <1>3, <1>4 DEF d, r

(* A message is still one after a name is put into it. *)
LEMMA MessageGrows ==
  ASSUME NEW m, MessageInv(m), NEW labels \in Seq(Seq(Nat)), NEW rest \in Seq(Seq(Nat)),
         NEW tail, IsName(labels \o rest),
         \/ tail = << 0 >> /\ rest = << >>
         \/ \E q \in m.names : tail = PointerTo(q) /\ rest = q.labels /\ CanPointTo(q)
  PROVE  MessageInv(WithName(m, labels, tail, rest))
<1> DEFINE data == m.bytes
           names == m.names
           code == Encoded(labels)
           N == Len(labels)
           all == labels \o rest
           L == Len(data)
           begun == data \o code
           data2 == begun \o tail
           at(i) == L + Len(Encoded(SubSeq(labels, 1, i)))
           whole(i) == SubSeq(labels, i + 1, N) \o rest
           end(i) == IF tail = <<0>> \/ i = N THEN at(N) + Len(tail) ELSE 0
           New(i) == [at |-> at(i), labels |-> whole(i), end |-> end(i)]
           names2 == names \cup {New(i) : i \in {j \in 0 .. N : whole(j) # << >>}}
<1>1. WithName(m, labels, tail, rest) = [bytes |-> data2, names |-> names2]
  BY DEF WithName
<1>2. data \in Seq(Nat) /\ \A n \in names : HoldsName(data, names, n)
  BY DEF MessageInv
<1>3. /\ \/ tail = <<0>> /\ rest = << >>
         \/ \E q \in names : tail = PointerTo(q) /\ rest = q.labels /\ CanPointTo(q)
      /\ N \in Nat
  OBVIOUS
<1>4. tail \in Seq(Nat) /\ Len(tail) \in Nat /\ Len(tail) >= 1
  <2>1. CASE tail = <<0>>
    BY <2>1
  <2>2. ASSUME NEW q \in names, tail = PointerTo(q), CanPointTo(q)
        PROVE  tail \in Seq(Nat) /\ Len(tail) = 2
    <3>1. q.at \in Nat
      BY <1>2, PlaceIsInside
    <3>2. 192 + q.at \div 256 \in Nat /\ q.at % 256 \in Nat
      <4>1. q.at < 64 * 256
        BY <2>2 DEF CanPointTo
      <4> QED BY <3>1, <4>1, PointerLeadsTo
    <3> QED BY <2>2, <3>2 DEF PointerTo
  <2>3. CASE \E q \in names : tail = PointerTo(q) /\ CanPointTo(q)
    <3>1. tail \in Seq(Nat) /\ Len(tail) = 2
      BY <2>2, <2>3
    <3> QED BY <3>1
  <2> QED BY <1>3, <2>1, <2>3
<1>5. /\ all \in Seq(Seq(Nat)) /\ Len(all) = N + Len(rest) /\ Len(rest) \in Nat
      /\ \A j \in 1 .. N : all[j] = labels[j]
  BY JoinIs
<1>6. PICK off :
        /\ IsOffsets(off, labels) /\ off[Len(labels)] = Len(code)
        /\ \A i \in 1 .. Len(labels) :
             /\ off[i] <= Len(code)
             /\ code[off[i - 1] + 1] = Len(labels[i])
             /\ \A j \in 1 .. Len(labels[i]) : code[off[i - 1] + 1 + j] = labels[i][j]
  BY EncodedIs
<1>7. code \in Seq(Nat) /\ Len(code) \in Nat /\ L \in Nat
  <2>1. code \in Seq(Nat)
    BY EncodedIs
  <2> HIDE DEF code
  <2> QED BY <1>2, <2>1
<1>8. /\ off \in [0 .. N -> Nat] /\ off[0] = 0 /\ off[N] = Len(code)
      /\ \A i \in 1 .. N : off[i] = off[i - 1] + 1 + Len(labels[i])
  BY <1>6 DEF IsOffsets
<1>9. /\ data2 \in Seq(Nat) /\ Len(data2) = L + Len(code) + Len(tail)
      /\ \A j \in 1 .. L : data2[j] = data[j]
      /\ \A j \in 1 .. Len(code) : data2[L + j] = code[j]
      /\ \A j \in 1 .. Len(tail) : data2[L + Len(code) + j] = tail[j]
  <2>1. begun = data \o code /\ data2 = begun \o tail
    OBVIOUS
  <2> HIDE DEF begun, data2, data, code, L
  <2>2. /\ begun \in Seq(Nat) /\ Len(begun) = Len(data) + Len(code)
        /\ \A j \in 1 .. Len(data) : begun[j] = data[j]
        /\ \A j \in 1 .. Len(code) : begun[Len(data) + j] = code[j]
    <3>1. data \in Seq(Nat) /\ code \in Seq(Nat)
      BY <1>2, <1>7
    <3> QED BY <2>1, <3>1, JoinIs
  <2>3. /\ data2 \in Seq(Nat) /\ Len(data2) = Len(begun) + Len(tail)
        /\ \A j \in 1 .. Len(begun) : data2[j] = begun[j]
        /\ \A j \in 1 .. Len(tail) : data2[Len(begun) + j] = tail[j]
    <3>1. begun \in Seq(Nat) /\ tail \in Seq(Nat)
      BY <1>4, <2>2
    <3> QED BY <2>1, <3>1, JoinIs
  <2>4. Len(data) = L
    BY DEF L
  <2>5. Len(begun) = L + Len(code)
    BY <2>2, <2>4
  <2>6. \A j \in 1 .. L : j \in 1 .. L + Len(code)
    BY <1>7
  <2>7. \A j \in 1 .. Len(code) : L + j \in 1 .. L + Len(code)
    BY <1>7
  <2>8. \A j \in 1 .. L : data2[j] = data[j]
    BY <2>2, <2>3, <2>4, <2>5, <2>6
  <2>9. \A j \in 1 .. Len(code) : data2[L + j] = code[j]
    BY <2>2, <2>3, <2>4, <2>5, <2>7
  <2> QED BY <2>3, <2>5, <2>8, <2>9
<1> DEFINE K == Len(code)
           E == Len(tail)
<1>10. /\ L \in Nat /\ K \in Nat /\ E \in Nat /\ E >= 1 /\ Len(data2) = L + K + E
       /\ off[N] = K
       /\ \A j \in 1 .. K : data2[L + j] = code[j]
       /\ \A j \in 1 .. E : data2[L + K + j] = tail[j]
  BY <1>4, <1>7, <1>8, <1>9
<1>11. \A i \in 1 .. N : /\ off[i] <= K /\ code[off[i - 1] + 1] = Len(labels[i])
                         /\ \A j \in 1 .. Len(labels[i]) : code[off[i - 1] + 1 + j] = labels[i][j]
  BY <1>6
<1>12. Begins(data, data2)
  <2>1. L <= Len(data2)
    <3> HIDE DEF L, K, E, data2
    <3> QED BY <1>10
  <2> QED BY <1>9, <2>1 DEF Begins
<1>13. \A i \in 0 .. N : at(i) = L + off[i] /\ off[i] \in Nat /\ off[i] <= K
  <2> SUFFICES ASSUME NEW i \in 0 .. N PROVE at(i) = L + off[i] /\ off[i] \in Nat /\ off[i] <= K
    OBVIOUS
  <2>1. 0 \in Nat /\ i \in Nat /\ 0 <= i /\ i <= Len(labels) /\ 0 + 1 = 1
    BY <1>3
  <2>2. Len(Encoded(SubSeq(labels, 0 + 1, i))) = off[i] - off[0]
    BY <1>6, <2>1, PartIs
  <2>3. off[i] \in Nat /\ off[0] = 0
    BY <1>8
  <2> DEFINE o == off[i]
  <2>4. o \in Nat /\ o - 0 = o
    BY <2>3
  <2>5. Len(Encoded(SubSeq(labels, 1, i))) = off[i]
    BY <2>1, <2>2, <2>3, <2>4
  <2>6. off[i] <= K
    <3>1. CASE i = 0
      BY <1>7, <2>3, <3>1
    <3>2. CASE i # 0
      <4>1. i \in 1 .. N
        BY <1>3, <3>2
      <4> QED BY <1>11, <4>1
    <3> QED BY <3>1, <3>2
  <2> QED BY <2>3, <2>5, <2>6
<1>14. \A i \in 0 .. N : whole(i) = SubSeq(all, i + 1, Len(all))
  BY WholeIs
<1>15. /\ whole(N) = rest
       /\ \A i \in 0 .. N : whole(i) \in Seq(Seq(Nat)) /\ (whole(i) # << >> => IsName(whole(i)))
       /\ \A i \in 0 .. N - 1 : /\ whole(i) # << >> /\ Head(whole(i)) = labels[i + 1]
                                /\ Tail(whole(i)) = whole(i + 1)
                                /\ Len(labels[i + 1]) \in 1 .. 63 /\ labels[i + 1] \in Seq(Nat)
  <2>1. whole(N) = rest
    <3>1. SubSeq(labels, N + 1, N) = << >>
      BY <1>3
    <3>2. << >> \o rest = rest
      BY ConcatEmptySeq
    <3> QED BY <3>1, <3>2
  <2>2. ASSUME NEW i \in 0 .. N
        PROVE  whole(i) \in Seq(Seq(Nat)) /\ (whole(i) # << >> => IsName(whole(i)))
    <3> DEFINE total == Len(all)
               w == SubSeq(all, i + 1, total)
    <3>1. total \in Nat /\ total <= Len(all) /\ i \in Nat /\ i <= total
      <4> HIDE DEF all, N
      <4> QED BY <1>3, <1>5
    <3> HIDE DEF total, all
    <3>2. i + 1 \in Nat /\ 1 <= i + 1 /\ i + 1 <= total + 1 /\ total + 1 - (i + 1) = total - i
          /\ total - i \in Nat
      BY <3>1
    <3>3. /\ w \in Seq(Seq(Nat)) /\ Len(w) = total + 1 - (i + 1)
          /\ \A j \in 1 .. total + 1 - (i + 1) : w[j] = all[(i + 1) + j - 1]
      <4>1. all \in Seq(Seq(Nat))
        BY <1>5
      <4> QED BY <3>1, <3>2, <4>1, SliceIs
    <3>4. w = whole(i)
      BY <1>14 DEF total
    <3>5. Len(Encoded(w)) < DNS_QNAME_MAX
      <4>1. PICK offA : IsOffsets(offA, all) /\ offA[total] = Len(Encoded(all))
        BY <1>5, EncodedIs DEF total
      <4>2. Len(Encoded(w)) = offA[total] - offA[i]
        <5>1. all \in Seq(Seq(Nat))
          BY <1>5
        <5> QED BY <3>1, <4>1, <5>1, PartIs
      <4>3. offA[i] \in Nat /\ offA[total] \in Nat
        <5>1. i \in 0 .. total /\ total \in 0 .. total
          BY <3>1
        <5> QED BY <4>1, <5>1 DEF IsOffsets, total
      <4>4. Len(Encoded(all)) < DNS_QNAME_MAX
        BY DEF IsName, all
      <4> DEFINE a == offA[i]
                 b == offA[total]
      <4>5. a \in Nat /\ b \in Nat /\ b < DNS_QNAME_MAX /\ Len(Encoded(w)) = b - a
        BY <4>1, <4>2, <4>3, <4>4
      <4> HIDE DEF a, b
      <4>6. b - a < DNS_QNAME_MAX
        BY <4>5 DEF DNS_QNAME_MAX
      <4> QED BY <4>5, <4>6
    <3>6. \A j \in DOMAIN w : Len(w[j]) \in 1 .. 63
      <4> SUFFICES ASSUME NEW j \in DOMAIN w PROVE Len(w[j]) \in 1 .. 63
        OBVIOUS
      <4>0. j \in 1 .. total - i
        <5>1. DOMAIN w = 1 .. Len(w)
          BY <3>3
        <5> QED BY <3>2, <3>3, <5>1
      <4>1. j \in 1 .. total + 1 - (i + 1) /\ (i + 1) + j - 1 = i + j /\ i + j \in 1 .. total
        BY <3>1, <3>2, <4>0
      <4>2. w[j] = all[i + j]
        BY <3>3, <4>1
      <4>3. \A k \in DOMAIN all : Len(all[k]) \in 1 .. 63
        BY DEF IsName, all
      <4>4. DOMAIN all = 1 .. total
        BY <1>5 DEF total
      <4> QED BY <4>1, <4>2, <4>3, <4>4
    <3> HIDE DEF w
    <3>7. w # << >> => IsName(w)
      BY <3>5, <3>6 DEF IsName
    <3> QED BY <3>3, <3>4, <3>7
  <2>3. ASSUME NEW i \in 0 .. N - 1
        PROVE  /\ whole(i) # << >> /\ Head(whole(i)) = labels[i + 1]
               /\ Tail(whole(i)) = whole(i + 1)
               /\ Len(labels[i + 1]) \in 1 .. 63 /\ labels[i + 1] \in Seq(Nat)
    <3>1. i \in 0 .. N /\ i + 1 \in 0 .. N /\ i + 1 \in 1 .. N /\ i \in Nat /\ i < Len(all)
          /\ i + 1 \in 1 .. Len(all)
      <4> HIDE DEF all, N
      <4> QED BY <1>3, <1>5
    <3>2. whole(i) = SubSeq(all, i + 1, Len(all)) /\ whole(i + 1) = SubSeq(all, (i + 1) + 1, Len(all))
      BY <1>14, <3>1
    <3>3. all \in Seq(Seq(Nat)) /\ all[i + 1] = labels[i + 1]
      BY <1>5, <3>1
    <3>4. \A k \in DOMAIN all : Len(all[k]) \in 1 .. 63
      BY DEF IsName
    <3>5. labels[i + 1] \in Seq(Nat)
      BY <3>1
    <3> HIDE DEF all, whole
    <3>6. DOMAIN all = 1 .. Len(all)
      BY <3>3
    <3>7. LET r == SubSeq(all, i + 1, Len(all))
          IN  /\ r # << >> /\ Head(r) = all[i + 1]
              /\ Tail(r) = SubSeq(all, (i + 1) + 1, Len(all))
      BY <3>1, <3>3, RestIs
    <3> QED BY <3>1, <3>2, <3>3, <3>4, <3>5, <3>6, <3>7
  <2> QED BY <2>1, <2>2, <2>3
<1>16. rest = << >> => tail = <<0>>
  <2> SUFFICES ASSUME NEW q \in names, rest = q.labels PROVE rest # << >>
    BY <1>3
  <2>1. IsName(q.labels)
    BY <1>2 DEF HoldsName
  <2> QED BY <2>1 DEF IsName
<1> HIDE DEF data, names, code, N, all, L, data2, begun, at, whole, K, E
<1>17. ASSUME NEW i \in 0 .. N - 1
       PROVE  LET p == L + off[i]
                  l == Len(labels[i + 1])
              IN  /\ Byte(data2, p) = l /\ l \in 1 .. 63 /\ p \in Nat
                  /\ After(data2, p) = L + off[i + 1] /\ L + off[i + 1] < Len(data2)
                  /\ Label(data2, p) = labels[i + 1]
  <2> DEFINE o == off[i]
             o2 == off[i + 1]
             l == Len(labels[i + 1])
             p == L + o
             end2 == Len(data2)
  <2>1. i \in 0 .. N /\ i + 1 \in 0 .. N /\ i + 1 \in 1 .. N /\ (i + 1) - 1 = i
    BY <1>3
  <2>2. o \in Nat /\ o2 \in Nat /\ o2 <= K /\ l \in 1 .. 63 /\ l \in Nat /\ labels[i + 1] \in Seq(Nat)
    <3>1. o \in Nat /\ o2 \in Nat /\ o2 <= K
      BY <1>13, <2>1
    <3>2. l \in 1 .. 63 /\ labels[i + 1] \in Seq(Nat)
      BY <1>15
    <3> QED BY <3>1, <3>2
  <2>3. o2 = o + 1 + l
    BY <1>8, <2>1
  <2>4. code[o + 1] = l /\ \A j \in 1 .. l : code[o + 1 + j] = labels[i + 1][j]
    BY <1>11, <2>1
  <2>5. end2 \in Nat /\ end2 = L + K + E
    BY <1>10
  <2> HIDE DEF o, o2, l, end2
  <2>6. /\ p \in Nat /\ o + 1 \in 1 .. K /\ p < end2 /\ p + l + 1 = L + o2 /\ L + o2 < end2
        /\ L + (o + 1) = p + 1 /\ p + 1 + l <= end2
    BY <1>10, <2>2, <2>3, <2>5
  <2>7. Byte(data2, p) = l
    <3>1. data2[L + (o + 1)] = l
      BY <1>10, <2>4, <2>6
    <3> HIDE DEF p
    <3>2. data2[p + 1] = l /\ p < Len(data2)
      BY <2>6, <3>1 DEF end2
    <3> QED BY <3>2 DEF Byte
  <2>8. After(data2, p) = L + o2
    <3> HIDE DEF p
    <3> QED BY <2>6, <2>7 DEF After
  <2>9. Label(data2, p) = labels[i + 1]
    <3> DEFINE s == Label(data2, p)
               t == labels[i + 1]
    <3>1. s \in Seq(Nat) /\ Len(s) = l /\ \A j \in 1 .. l : s[j] = data2[p + 1 + j]
      <4> HIDE DEF p
      <4>1. p + 1 + Byte(data2, p) <= Len(data2)
        BY <2>6, <2>7 DEF end2
      <4>2. /\ s \in Seq(Nat) /\ Len(s) = Byte(data2, p)
            /\ \A j \in 1 .. Byte(data2, p) : s[j] = data2[p + 1 + j]
        BY <1>9, <2>6, <4>1, LabelIs
      <4> QED BY <2>7, <4>2
    <3>2. ASSUME NEW j \in 1 .. l PROVE data2[p + 1 + j] = t[j]
      <4>1. o + 1 + j \in 1 .. K /\ L + (o + 1 + j) = p + 1 + j
        BY <1>10, <2>2, <2>3
      <4> HIDE DEF p
      <4>2. data2[L + (o + 1 + j)] = code[o + 1 + j]
        BY <1>10, <4>1
      <4> QED BY <2>4, <4>1, <4>2
    <3>3. t \in Seq(Nat) /\ Len(t) = l
      BY <2>2 DEF l
    <3> HIDE DEF s, t
    <3>4. s = t
      BY <3>1, <3>2, <3>3, SeqEqual
    <3> QED BY <3>4 DEF s, t
  <2> QED BY <2>2, <2>6, <2>7, <2>8, <2>9 DEF o, o2, l, p, end2
<1>18. \A i \in 0 .. N : /\ New(i).at = L + off[i] /\ New(i).labels = whole(i) /\ New(i).end = end(i)
                         /\ (whole(i) # << >> => New(i) \in NameType /\ New(i) \in names2)
  <2> SUFFICES ASSUME NEW i \in 0 .. N
               PROVE  /\ New(i).at = L + off[i] /\ New(i).labels = whole(i) /\ New(i).end = end(i)
                      /\ (whole(i) # << >> => New(i) \in NameType /\ New(i) \in names2)
    OBVIOUS
  <2>1. at(i) = L + off[i] /\ at(i) \in Nat /\ at(N) \in Nat
    <3>1. N \in 0 .. N
      BY <1>3
    <3>2. off[i] \in Nat /\ off[N] \in Nat /\ at(i) = L + off[i] /\ at(N) = L + off[N]
      BY <1>13, <3>1
    <3>3. \A x, y \in Nat : x + y \in Nat
      OBVIOUS
    <3> QED BY <1>10, <3>2, <3>3
  <2>2. end(i) \in Nat
    <3> DEFINE a == at(N)
               b == Len(tail)
    <3>1. a \in Nat /\ b \in Nat
      BY <1>4, <2>1
    <3> HIDE DEF a, b
    <3>2. a + b \in Nat /\ 0 \in Nat
      BY <3>1
    <3> QED BY <3>2 DEF a, b
  <2>3. whole(i) \in Seq(Seq(Nat))
    BY <1>15
  <2> HIDE DEF end
  <2> QED BY <2>1, <2>2, <2>3 DEF NameType
<1>19. ASSUME NEW i \in 0 .. N - 1 PROVE HoldsName(data2, names2, New(i))
  <2> DEFINE n == New(i)
             next == L + off[i + 1]
  <2>1. i \in 0 .. N /\ i + 1 \in 0 .. N /\ i # N /\ (i + 1 # N => i + 1 \in 0 .. N - 1)
    BY <1>3
  <2>2. /\ n.at = L + off[i] /\ n.labels = whole(i) /\ n.end = end(i) /\ whole(i) # << >>
        /\ n \in NameType /\ IsName(n.labels)
        /\ Head(n.labels) = labels[i + 1] /\ Tail(n.labels) = whole(i + 1)
    BY <1>15, <1>18, <2>1
  <2>3. /\ Byte(data2, n.at) \in 1 .. 63 /\ After(data2, n.at) = next /\ next < Len(data2)
        /\ Label(data2, n.at) = Head(n.labels)
    BY <1>17, <2>2
  <2>4. CASE whole(i + 1) = << >>
    <3>1. i + 1 = N
      BY <1>15, <2>1, <2>4
    <3>2. rest = << >> /\ tail = <<0>>
      BY <1>15, <1>16, <2>4, <3>1
    <3>3. next = L + K /\ next \in Nat
      BY <1>10, <3>1
    <3>4. Byte(data2, next) = 0
      <4>1. 1 \in 1 .. E /\ tail[1] = 0
        BY <1>10, <3>2
      <4>2. data2[L + K + 1] = 0
        BY <1>10, <4>1
      <4>3. data2[next + 1] = 0
        BY <3>3, <4>2
      <4> HIDE DEF next
      <4> QED BY <2>3, <4>3 DEF Byte
    <3>5. n.end = next + 1
      <4>1. n.end = at(N) + Len(tail)
        BY <2>2, <3>2
      <4>2. Len(tail) = 1
        BY <3>2
      <4>3. at(N) = next
        BY <1>13, <2>1, <3>1
      <4> QED BY <4>1, <4>2, <4>3
    <3> HIDE DEF n, next
    <3>6. HoldsLabel(data2, names2, n)
      BY <2>2, <2>3, <2>4, <3>4, <3>5 DEF HoldsLabel
    <3> QED BY <2>2, <3>6 DEF HoldsName, n
  <2>5. CASE whole(i + 1) # << >>
    <3> DEFINE q == New(i + 1)
    <3>1. q \in names2 /\ q.at = next /\ q.labels = Tail(n.labels) /\ q.end = end(i + 1)
      BY <1>18, <2>1, <2>2, <2>5
    <3>2. n.end # 0 => q.end = n.end /\ ~IsPointer(Byte(data2, next))
      <4> SUFFICES ASSUME n.end # 0 PROVE q.end = n.end /\ ~IsPointer(Byte(data2, next))
        OBVIOUS
      <4>1. tail = <<0>>
        BY <2>1, <2>2
      <4>2. q.end = n.end
        BY <2>2, <3>1, <4>1
      <4>3. i + 1 # N
        <5>1. rest = << >>
          <6> SUFFICES ASSUME NEW q_1 \in names, tail = PointerTo(q_1) PROVE FALSE
            BY <1>3
          <6>1. Len(PointerTo(q_1)) = 2
            BY DEF PointerTo
          <6> QED BY <4>1, <6>1
        <5> QED BY <1>15, <2>5, <5>1
      <4>4. Byte(data2, next) \in 1 .. 63
        <5>1. i + 1 \in 0 .. N - 1
          BY <2>1, <4>3
        <5> QED BY <1>17, <5>1
      <4>5. ~IsPointer(Byte(data2, next))
        <5> DEFINE b == Byte(data2, next)
        <5> HIDE DEF b
        <5>1. b \in 1 .. 63
          BY <4>4 DEF b
        <5>2. ~IsPointer(b)
          BY <5>1 DEF IsPointer
        <5> QED BY <5>2 DEF b
      <4> QED BY <4>2, <4>5
    <3> HIDE DEF n, next, q
    <3>3. HoldsLabel(data2, names2, n)
      BY <2>2, <2>3, <3>1, <3>2 DEF HoldsLabel
    <3> QED BY <2>2, <3>3 DEF HoldsName, n
  <2> QED BY <2>4, <2>5
<1>20. ASSUME whole(N) # << >> PROVE HoldsName(data2, names2, New(N))
  <2> DEFINE n == New(N)
             p == L + K
  <2>0. rest # << >> /\ N \in 0 .. N
    BY <1>3, <1>15, <1>20
  <2>1. PICK q \in names : tail = PointerTo(q) /\ rest = q.labels /\ CanPointTo(q)
    BY <1>3, <2>0
  <2>2. /\ n.at = p /\ n.labels = rest /\ n.end = at(N) + Len(tail) /\ at(N) = p
        /\ n \in NameType /\ IsName(n.labels)
    <3>1. n.at = L + off[N] /\ n.labels = whole(N) /\ n.end = end(N) /\ n \in NameType
      BY <1>18, <1>20, <2>0
    <3>2. IsName(whole(N)) /\ whole(N) = rest
      BY <1>15, <1>20, <2>0
    <3>3. L + off[N] = p /\ at(N) = L + off[N]
      BY <1>10, <1>13, <2>0
    <3>4. end(N) = at(N) + Len(tail)
      OBVIOUS
    <3> HIDE DEF n, p, end
    <3> QED BY <3>1, <3>2, <3>3, <3>4
  <2>3. q.at \in Nat /\ q.at < L /\ q.at < 64 * 256
    <3>1. q.at \in Nat /\ q.at < Len(data)
      BY <1>2, PlaceIsInside
    <3> QED BY <2>1, <3>1 DEF CanPointTo, L
  <2> DEFINE d == 192 + q.at \div 256
             r == q.at % 256
  <2>4. d \in Nat /\ r \in Nat /\ IsPointer(d) /\ (d % 64) * 256 + r = q.at
    <3> DEFINE a == q.at
    <3>1. a \in Nat /\ a < 64 * 256
      BY <2>3
    <3> HIDE DEF a
    <3>2. /\ IsPointer(192 + a \div 256) /\ 192 + a \div 256 \in Nat /\ a % 256 \in Nat
          /\ ((192 + a \div 256) % 64) * 256 + (a % 256) = a
      BY <3>1, PointerLeadsTo
    <3> QED BY <3>2 DEF a
  <2>5. Len(tail) = 2 /\ tail[1] = d /\ tail[2] = r
    BY <2>1 DEF PointerTo
  <2> HIDE DEF d, r
  <2>6. Byte(data2, p) = d /\ Byte(data2, p + 1) = r /\ p + 1 < Len(data2) /\ p \in Nat
    <3>1. 1 \in 1 .. E /\ 2 \in 1 .. E /\ E = 2
      BY <2>5 DEF E
    <3>2. data2[L + K + 1] = d /\ data2[L + K + 2] = r
      BY <1>10, <2>5, <3>1
    <3>3. p \in Nat /\ p < Len(data2) /\ p + 1 < Len(data2) /\ (p + 1) + 1 = L + K + 2
      BY <1>10, <3>1
    <3>4. data2[p + 1] = d /\ data2[(p + 1) + 1] = r
      BY <3>2, <3>3
    <3> HIDE DEF p
    <3>5. Byte(data2, p) = d
      BY <3>3, <3>4 DEF Byte
    <3>6. Byte(data2, p + 1) = r
      BY <3>3, <3>4 DEF Byte
    <3> QED BY <3>3, <3>5, <3>6
  <2>7. Target(data2, p) = q.at
    <3> HIDE DEF p
    <3> QED BY <2>4, <2>6 DEF Target
  <2>8. q.at < p
    BY <1>10, <2>3
  <2>9. n.end = p + 2
    BY <2>2, <2>5
  <2> HIDE DEF n, p
  <2>10. q \in names2
    OBVIOUS
  <2>11. HoldsPointer(data2, names2, n)
    BY <2>1, <2>2, <2>4, <2>6, <2>7, <2>8, <2>9, <2>10 DEF HoldsPointer
  <2> QED BY <2>2, <2>11 DEF HoldsName, n
<1>21. ASSUME NEW n \in names2 PROVE HoldsName(data2, names2, n)
  <2>1. CASE n \in names
    <3>1. names \subseteq names2
      OBVIOUS
    <3> HIDE DEF names2
    <3> QED BY <1>2, <1>9, <1>12, <2>1, <3>1, StillHolds
  <2>2. CASE n \notin names
    <3>1. PICK i \in 0 .. N : whole(i) # << >> /\ n = New(i)
      BY <2>2
    <3>2. CASE i = N
      BY <1>20, <3>1, <3>2
    <3>3. CASE i # N
      <4>1. i \in 0 .. N - 1
        BY <1>3, <3>3
      <4> QED BY <1>19, <3>1, <4>1
    <3> QED BY <3>2, <3>3
  <2> QED BY <2>1, <2>2
<1> HIDE DEF names2
<1> QED BY <1>1, <1>9, <1>21 DEF MessageInv

(* Every name of a DNS message is read as it was written, through any      *)
(* number of pointers, and its end is found: of get_qname, for messages of *)
(* any length.                                                             *)
THEOREM NamesCorrect == Spec => []NamesAreUnderstood
<1> DEFINE MessageInput == kind = "message" => MessageInv(input)
<1>1. Init => MessageInput
  <2>1. << >> \in Seq(Nat)
    OBVIOUS
  <2>2. MessageInv(EmptyMessage)
    BY <2>1 DEF MessageInv, EmptyMessage
  <2> QED BY <2>2 DEF Init
<1>2. MessageInput /\ [Next]_<<kind, input>> => MessageInput'
  <2> SUFFICES ASSUME MessageInput, [Next]_<<kind, input>>, kind' = "message"
               PROVE  MessageInv(input')
    BY DEF MessageInv, HoldsName, HoldsPointer, HoldsLabel
  <2>1. kind = "message" /\ MessageInv(input)
    BY DEF Next
  <2>2. CASE AddName
    <3>1. PICK labels \in {<< >>, <<<<1>>>>, <<<<1, 2>>>>, <<<<2>>, <<1>>>>} :
            \/ IsName(labels) /\ input' = WithName(input, labels, <<0>>, << >>)
            \/ \E name \in input.names :
                 /\ CanPointTo(name) /\ IsName(labels \o name.labels)
                 /\ input' = WithName(input, labels, PointerTo(name), name.labels)
      BY <2>2 DEF AddName
    <3>2. labels \in Seq(Seq(Nat)) /\ << >> \in Seq(Seq(Nat))
      <4>1. <<1>> \in Seq(Nat) /\ <<2>> \in Seq(Nat) /\ <<1, 2>> \in Seq(Nat)
        OBVIOUS
      <4>2. \A a, b \in Seq(Nat) : <<a>> \in Seq(Seq(Nat)) /\ <<a, b>> \in Seq(Seq(Nat))
        OBVIOUS
      <4>3. << >> \in Seq(Seq(Nat))
        OBVIOUS
      <4> QED BY <3>1, <4>1, <4>2, <4>3
    <3>3. CASE IsName(labels) /\ input' = WithName(input, labels, <<0>>, << >>)
      <4> DEFINE tail == <<0>>
                 rest == << >>
      <4>1. rest \in Seq(Seq(Nat)) /\ labels \o rest = labels
        BY <3>2, ConcatEmptySeq
      <4>2. tail = <<0>> /\ rest = << >> /\ input' = WithName(input, labels, tail, rest)
        BY <3>3
      <4> HIDE DEF tail, rest
      <4>3. IsName(labels \o rest)
        BY <3>3, <4>1
      <4>4. MessageInv(WithName(input, labels, tail, rest))
        BY <2>1, <3>2, <4>1, <4>2, <4>3, MessageGrows
      <4> QED BY <4>2, <4>4
    <3>4. ASSUME NEW name \in input.names, CanPointTo(name), IsName(labels \o name.labels),
                 input' = WithName(input, labels, PointerTo(name), name.labels)
          PROVE  MessageInv(input')
      <4> DEFINE rest == name.labels
                 tail == PointerTo(name)
      <4>1. rest \in Seq(Seq(Nat))
        <5>1. HoldsName(input.bytes, input.names, name)
          BY <2>1 DEF MessageInv
        <5> QED BY <5>1 DEF HoldsName, NameType
      <4>2. \E q \in input.names : tail = PointerTo(q) /\ rest = q.labels /\ CanPointTo(q)
        BY <3>4
      <4>3. IsName(labels \o rest) /\ input' = WithName(input, labels, tail, rest)
        BY <3>4
      <4> HIDE DEF tail, rest
      <4>4. MessageInv(WithName(input, labels, tail, rest))
        BY <2>1, <3>2, <4>1, <4>2, <4>3, MessageGrows
      <4> QED BY <4>3, <4>4
    <3> QED BY <3>1, <3>3, <3>4
  <2>3. CASE input' = input
    BY <2>1, <2>3
  <2> QED BY <2>1, <2>2, <2>3 DEF Next, Count, AddByte, AddToken, SetSession, AddExtension
<1>3. MessageInput => NamesAreUnderstood
  BY MessageIsRead DEF NamesAreUnderstood
<1> QED BY <1>1, <1>2, <1>3, PTL DEF Spec

=============================================================================
