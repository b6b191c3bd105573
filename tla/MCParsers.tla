----------------------------- MODULE MCParsers ------------------------------
(***************************************************************************)
(* The pure functions of tun2http on all small inputs.  An input of each   *)
(* kind grows step by step, so that TLC meets every one.                   *)
(***************************************************************************)
EXTENDS SeqNum, Checksum, HttpPatch, TlsHello, DnsName, IpPacket

CONSTANTS MaxBytes, MaxTokens, MaxExtensions, MaxMessage

VARIABLES kind, input

Entries == [type : {0, 1}, name : {<<5>>, <<5, 6>>}]
Extensions == [type : {0, 1}, entries : {<< >>} \cup {<<e>> : e \in Entries}
                                        \cup {<<e, f>> : e, f \in Entries}]
Tokens == {"GET", "PUT", "Host:", "http:", CR, "text"}
Packets4 ==
  [version : {4}, ihl : 5 .. 7, more : BOOLEAN, offset : {0, 8, 32},
   next : {<<n>> : n \in {ICMP, TCP, UDP, 2}}, size : {19, 27, 40, 44, 48}, total : {40, 44, 48}]
Packets6 ==
  [version : {6}, ihl : {0}, more : {FALSE}, offset : {0},
   next : {<<n>> : n \in {ICMPV6, TCP, UDP, 59}}
          \cup {<<m, n>> : m \in {0, 60}, n \in {TCP, UDP, 59, 60}}
          \cup {<<0, 60, n>> : n \in {ICMPV6, UDP}},
   size : {39, 48, 60, 84}, total : {48, 60, 84}]
Packets == Packets4 \cup Packets6

Init ==
  \/ kind = "number" /\ input = <<0, 0>>
  \/ kind = "buffer" /\ input = << >>
  \/ kind = "request" /\ input = << >>
  \/ kind = "hello" /\ input = [session |-> << >>, extensions |-> << >>]
  \/ kind = "message" /\ input = EmptyMessage
  \/ kind = "packet" /\ input \in Packets

Count == kind = "number" /\ \E i \in {1, 2} : input' = [input EXCEPT ![i] = Add(@, 1)]
AddByte ==
  /\ kind = "buffer" /\ Len(input) < MaxBytes
  /\ \E b \in 0 .. Base - 1 : input' = Append(input, b)
AddToken ==
  /\ kind = "request" /\ Len(input) < MaxTokens
  /\ \E token \in Tokens : input' = Append(input, token)
SetSession ==
  /\ kind = "hello" /\ input.session = << >>
  /\ input' = [input EXCEPT !.session = <<3, 3>>]
AddExtension ==
  /\ kind = "hello" /\ Len(input.extensions) < MaxExtensions
  /\ \E e \in Extensions : input' = [input EXCEPT !.extensions = Append(@, e)]
AddName ==
  /\ kind = "message" /\ Len(input.bytes) < MaxMessage
  /\ \E labels \in {<< >>, <<<<1>>>>, <<<<1, 2>>>>, <<<<2>>, <<1>>>>} :
       \/ IsName(labels) /\ input' = WithName(input, labels, <<0>>, << >>)
       \/ \E name \in input.names :
            /\ CanPointTo(name) /\ IsName(labels \o name.labels)
            /\ input' = WithName(input, labels, PointerTo(name), name.labels)

Next ==
  /\ Count \/ AddByte \/ AddToken \/ SetSession \/ AddExtension \/ AddName
  /\ UNCHANGED kind
Spec == Init /\ [][Next]_<<kind, input>>

(* compare_u32 orders numbers that are close as signed integers as RFC     *)
(* 1982 does, on both sides of zero.                                       *)
CompareCloseNumbers == kind = "number" => CompareIsSerial(input[1], input[2])

(* The checksum that a write function stores is the one a receiver accepts,*)
(* though it is computed in pieces.                                        *)
ChecksumIsAccepted == kind = "buffer" => ReceiverAccepts(input)

(* A request is made one for a proxy, once.                                *)
RequestIsForProxy == kind = "request" => TargetIsAbsolute(input)

(* A server name is found in every hello that is whole, and in no part.    *)
HelloIsUnderstood == kind = "hello" => ServerNameIsFound(input.session, input.extensions)

(* A name in a DNS message is read through its pointers, and up to its end.*)
NamesAreUnderstood == kind = "message" => NamesAreRead(input)

(* A whole packet gets to its handler with its transport header.           *)
PacketIsDelivered == kind = "packet" => WholeIsDelivered(input)

(* handle_ip: "Skip extension headers". *)
ExtensionHeadersAreSkipped == kind = "packet" => ExtensionsAreSkipped(input)
=============================================================================
