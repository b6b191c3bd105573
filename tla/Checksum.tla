------------------------------ MODULE Checksum ------------------------------
(***************************************************************************)
(* calc_checksum (util.c), the Internet checksum that write_tcp, write_udp *)
(* and write_icmp compute piece by piece: pseudo header, header, options   *)
(* and data.  Base is the number of values of a byte.  Words are read as   *)
(* the host, which is little-endian, has them.                             *)
(***************************************************************************)
EXTENDS Naturals, Sequences

CONSTANT Base    \* 256
ASSUME BaseAssumption == Base \in Nat /\ Base > 1

Word == Base * Base

(* The 16 bits at *buf++; the last byte of an odd number stands alone. *)
WordAt(buffer, i) ==
  buffer[2 * i - 1] + (IF 2 * i <= Len(buffer) THEN Base * buffer[2 * i] ELSE 0)

(* while (sum >> 16) sum = (sum & 0xFFFF) + (sum >> 16). *)
Folded[sum \in Nat] ==
  IF sum < Word THEN sum ELSE Folded[(sum % Word) + (sum \div Word)]

(* What the sum is after each word. *)
Words(buffer) == (Len(buffer) + 1) \div 2
Sums(start, buffer) ==
  LET sum[n \in 0 .. Words(buffer)] ==
        IF n = 0 THEN start ELSE sum[n - 1] + WordAt(buffer, n)
  IN  sum
SumOf(start, buffer) == Sums(start, buffer)[Words(buffer)]

(* Mutant: the carry of the carry is lost. *)
calc_checksum_one_carry(start, buffer) ==
  LET sum == SumOf(start, buffer) IN ((sum % Word) + (sum \div Word)) % Word

calc_checksum(start, buffer) == Folded[SumOf(start, buffer)]

-----------------------------------------------------------------------------
(* A buffer with a word put where its checksum belongs. *)
WithWord(buffer, i, w) ==
  [buffer EXCEPT ![2 * i - 1] = w % Base, ![2 * i] = w \div Base]

(* As the write functions do it: with the field zero, header and rest are  *)
(* summed one after the other and the complement is stored.                *)
Checksummed(buffer, i, split) ==
  LET zero == WithWord(buffer, i, 0)
      csum == calc_checksum(calc_checksum(0, SubSeq(zero, 1, split)),
                            SubSeq(zero, split + 1, Len(zero)))
  IN  WithWord(buffer, i, Word - 1 - csum)

(* The receiver, who sums everything at once, gets all ones, wherever the  *)
(* field is and wherever an even number of bytes ends the first piece.     *)
ReceiverAccepts(buffer) ==
  \A i \in 1 .. Len(buffer) \div 2, k \in 0 .. Len(buffer) \div 2 :
    calc_checksum(0, Checksummed(buffer, i, 2 * k)) = Word - 1

=============================================================================
