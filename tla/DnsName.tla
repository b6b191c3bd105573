------------------------------ MODULE DnsName -------------------------------
(***************************************************************************)
(* get_qname (dns.c): a name in a DNS message, which is a sequence of      *)
(* labels after their length that ends with a zero or with a pointer to a  *)
(* name before it.  Offsets count from 0; a byte of a label is a number.   *)
(***************************************************************************)
EXTENDS Naturals, SequencesExt

DNS_QNAME_MAX == 255

Byte(data, ptr) == IF ptr < Len(data) THEN data[ptr + 1] ELSE 0
IsPointer(len) == len >= 64                   \* len & 0xC0
Target(data, ptr) == (Byte(data, ptr) % 64) * 256 + Byte(data, ptr + 1)
Label(data, ptr) == SubSeq(data, ptr + 2, ptr + 1 + Byte(data, ptr))

(* Mutant: a label is skipped without its length. *)
After_label(data, ptr) == ptr + Byte(data, ptr)

After(data, ptr) == ptr + Byte(data, ptr) + 1

(* Where the loop stands: the place in the message, and the bytes and the  *)
(* labels written so far.                                                  *)
Place == [ptr : Nat, noff : Nat, labels : Seq(Seq(Nat))]
Start(ptr) == [ptr |-> ptr, noff |-> 0, labels |-> << >>]

(* The labels from a place on after those written, and where ptr is after  *)
(* the last, or Invalid for a label that does not fit in the message or    *)
(* the name.  noff is a uint8_t: at 256 the name begins anew.  A pointer   *)
(* that leads to itself keeps the loop for ever.                           *)
Invalid == [labels |-> << >>, end |-> 0]
Walk(data, off) ==
  LET W[p \in Place] ==
        LET len == Byte(data, p.ptr)
        IN  IF len = 0 THEN [labels |-> p.labels, end |-> p.ptr + 1]
            ELSE IF IsPointer(len) THEN W[[p EXCEPT !.ptr = Target(data, p.ptr)]]
            ELSE IF p.ptr + 1 + len > Len(data) \/ p.noff + len > DNS_QNAME_MAX THEN Invalid
            ELSE IF p.noff + len = DNS_QNAME_MAX THEN W[Start(After(data, p.ptr))]
            ELSE W[[ptr |-> After(data, p.ptr), noff |-> p.noff + len + 1,
                    labels |-> Append(p.labels, Label(data, p.ptr))]]
  IN  W[Start(off)]

(* Whether the walk meets a pointer. *)
Compressed(data, off) ==
  LET C[ptr \in Nat] ==
        LET len == Byte(data, ptr)
        IN  IF len = 0 \/ IsPointer(len) THEN len # 0 ELSE C[After(data, ptr)]
  IN  C[off]

(* The labels and the offset after the name, which is off + 2 even when    *)
(* labels come before the pointer; an empty name is invalid.               *)
get_qname(data, off) ==
  LET walk == Walk(data, off)
  IN  IF walk.labels = << >> THEN Invalid
      ELSE IF Compressed(data, off) THEN [walk EXCEPT !.end = off + 2]
      ELSE walk

-----------------------------------------------------------------------------
(* A message with the names in it, those that begin within another name    *)
(* too: where they are, their labels, and where they end.  No end is given *)
(* of labels with a pointer after them, as get_qname does not find it.     *)
EmptyMessage == [bytes |-> << >>, names |-> {}]

Encoded(labels) == FlattenSeq([i \in DOMAIN labels |-> <<Len(labels[i])>> \o labels[i]])
(* What a name server may write (RFC 1035): 255 bytes with the zero, labels *)
(* of 1 to 63, and pointers of 14 bits.                                    *)
IsName(labels) ==
  /\ labels # << >> /\ Len(Encoded(labels)) < DNS_QNAME_MAX
  /\ \A i \in DOMAIN labels : Len(labels[i]) \in 1 .. 63
CanPointTo(name) == name.at < 64 * 256
PointerTo(name) == <<192 + name.at \div 256, name.at % 256>>

(* A name is appended: labels and a zero, or a pointer to one before it.   *)
WithName(m, labels, tail, rest) ==
  LET at(i) == Len(m.bytes) + Len(Encoded(SubSeq(labels, 1, i)))
      whole(i) == SubSeq(labels, i + 1, Len(labels)) \o rest
      end(i) == IF tail = <<0>> \/ i = Len(labels) THEN at(Len(labels)) + Len(tail) ELSE 0
  IN  [bytes |-> m.bytes \o Encoded(labels) \o tail,
       names |-> m.names \cup
         {[at |-> at(i), labels |-> whole(i), end |-> end(i)] :
            i \in {j \in 0 .. Len(labels) : whole(j) # << >>}}]

(* The labels of every name are found, through any number of pointers, and *)
(* the offset after it, from which the next field is read.                 *)
NamesAreRead(m) ==
  \A name \in m.names :
    LET found == get_qname(m.bytes, name.at)
    IN  found.labels = name.labels /\ (name.end # 0 => found.end = name.end)

=============================================================================
