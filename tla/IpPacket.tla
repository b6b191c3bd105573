------------------------------ MODULE IpPacket ------------------------------
(***************************************************************************)
(* What handle_ip (ip.c) makes of a packet before it looks at sessions:    *)
(* where its transport header is, and to which handler it goes.            *)
(*                                                                         *)
(* A packet of IPv4 has ihl words of header, one of IPv6 extension headers *)
(* of eight bytes; next are the protocol numbers of the header and of the  *)
(* extension headers, in their order.                                      *)
(***************************************************************************)
EXTENDS Naturals, SequencesExt

ICMP == 1
TCP == 6
UDP == 17
ICMPV6 == 58

is_lower_layer(protocol) == protocol \in {0, 43, 44, 50, 51, 60, 135}
is_upper_layer(protocol) == protocol \in {TCP, UDP, ICMP, ICMPV6}

(* sizeof(struct icmp), struct udphdr, struct tcphdr. *)
HeaderSize(protocol) == CASE protocol \in {ICMP, ICMPV6} -> 28
                          [] protocol = UDP -> 8
                          [] protocol = TCP -> 20

Dropped == [to |-> 0, at |-> 0]

(* ip4hdr->frag_off & IP_MF on a little-endian host: the bit of 32 in the  *)
(* fragment offset, not the flag.                                          *)
LooksFragmented(p) == (p.offset \div 32) % 2 = 1

(* Mutant: options are not skipped. *)
Transport4_no_options(p) ==
  IF p.size < 20 \/ LooksFragmented(p) \/ p.total # p.size THEN Dropped
  ELSE [to |-> p.next[1], at |-> 20]

Transport4(p) ==
  IF p.size < 20 \/ LooksFragmented(p) \/ p.total # p.size THEN Dropped
  ELSE [to |-> p.next[1], at |-> 20 + (p.ihl - 5) * 4]

(* The walk stops at the extension header before a transport header: then  *)
(* the protocol is not an upper layer's, and counts as not found.          *)
Transport6(p) ==
  LET stop == SelectInSeq(Tail(p.next), LAMBDA n : ~is_lower_layer(n))
      last == IF stop = 0 THEN Len(p.next) ELSE stop
  IN  IF p.size < 40 THEN Dropped
      ELSE IF ~is_upper_layer(p.next[1]) /\ is_upper_layer(p.next[last])
      THEN [to |-> p.next[last], at |-> 40 + 40 + 8 * (last - 1)]
      ELSE [to |-> p.next[1], at |-> 40]

(* length - (payload - pkt) is a size_t: less than nothing is very much.   *)
TooShort(p, found) ==
  p.size >= found.at /\ p.size - found.at < HeaderSize(found.to)

(* Which handler gets the packet, and the offset of its payload. *)
handle_ip(p) ==
  LET found == IF p.version = 4 THEN Transport4(p) ELSE Transport6(p)
  IN  IF is_upper_layer(found.to) /\ ~TooShort(p, found) THEN found ELSE Dropped

-----------------------------------------------------------------------------
(* Where the transport header really is, and what it is.                   *)
ProtocolOf(p) == Last(p.next)
TransportOf(p) == IF p.version = 4 THEN p.ihl * 4 ELSE 40 + 8 * (Len(p.next) - 1)

(* A packet that is whole has its length and its options in its header and *)
(* is no fragment.                                                         *)
IsWhole(p) == p.total = p.size /\ p.size >= TransportOf(p) /\ ~p.more /\ p.offset = 0

(* Whole packets without extension headers go to the handler of their      *)
(* protocol with the transport header as payload, IP options skipped; one  *)
(* too short for that header goes to none.                                 *)
WholeIsDelivered(p) ==
  IsWhole(p) /\ Len(p.next) = 1 =>
    handle_ip(p) =
      IF /\ is_upper_layer(ProtocolOf(p))
         /\ p.size >= TransportOf(p) + HeaderSize(ProtocolOf(p))
      THEN [to |-> ProtocolOf(p), at |-> TransportOf(p)] ELSE Dropped

(* "Skip extension headers", a comment in handle_ip. *)
ExtensionsAreSkipped(p) ==
  p.version = 6 /\ IsWhole(p) /\ is_upper_layer(ProtocolOf(p))
  /\ p.size >= TransportOf(p) + HeaderSize(ProtocolOf(p))
    => handle_ip(p) = [to |-> ProtocolOf(p), at |-> TransportOf(p)]

=============================================================================
