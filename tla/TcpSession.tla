----------------------------- MODULE TcpSession -----------------------------
(***************************************************************************)
(* One TCP session of tun2http, from the client's SYN to the freeing of    *)
(* its ng_session (tcp.c), driven by the event loop of session.c.          *)
(*                                                                         *)
(* A client behind the tun device talks TCP to the session; the session    *)
(* owns a non-blocking socket to the local proxy (ports 80 and 443) or to  *)
(* the destination itself.  Only the loop thread touches a session, so the *)
(* handlers are atomic; what interleaves is the order of events in a       *)
(* batch, the kernel completing a connect, the passing of time, and what   *)
(* the client and the server choose to send.                               *)
(*                                                                         *)
(* Data are positions in two streams.  The client's bytes have the         *)
(* sequence numbers after its SYN; since a retransmission carries the same *)
(* bytes, a segment is its number and length.                              *)
(***************************************************************************)
EXTENDS SeqNum, SequencesExt, FiniteSets

CONSTANTS
  Port,          \* the destination port: 80, 443 or another
  RemoteStart,   \* the client's initial sequence number
  LocalStarts,   \* what rand() may give for ours
  ClientBytes,   \* length of the client's stream, its FIN comes after it
  SynLengths,    \* bytes the client may send along with its SYN
  ServerBytes,   \* length of the server's stream, its EOF comes after it
  Windows,       \* windows the client may advertise, scaled
  Mss            \* the client's maximum segment size

ASSUME PortAssumption == Port \in Nat
ASSUME StartAssumption == RemoteStart \in U32 /\ LocalStarts \subseteq U32
ASSUME StreamAssumption == /\ ClientBytes \in Nat /\ ClientBytes + 3 < Modulus
                           /\ ServerBytes \in Nat /\ ServerBytes + 3 < Modulus
ASSUME WindowAssumption == Windows \subseteq Nat /\ Mss \in Nat \ {0}
ASSUME SynAssumption == SynLengths \subseteq U32

VARIABLES
  state,         \* tcp.state, or "NONE" when there is no session
  socket,        \* s->socket: "none" (-1), "connecting" or "up"
  connect_sent,  \* progress of the CONNECT request to the proxy
  local_start,   \* our initial sequence number
  local_seq,     \* next sequence number to write to the client
  remote_seq,    \* next sequence number to take from the client
  acked,         \* highest acknowledgement seen from the client
  send_window,   \* window the client last advertised
  forward,       \* segments queued for the socket
  sent,          \* client bytes counted as passed to the socket
  taken,         \* those of them the socket really took
  received,      \* server bytes read from the socket
  events,        \* s->ev.events without EPOLLERR, which is always there
  aged,          \* more time than the session's timeout since tcp.time
  phase,         \* where handle_events is
  batch,         \* the events epoll_wait returned, the rest to be handled
  flags          \* flags of the session's event in batch

tcp == <<local_start, local_seq, remote_seq, acked, send_window, forward,
         sent, taken, received>>
vars == <<state, socket, connect_sent, tcp, events, aged, phase, batch, flags>>

States == {"NONE", "LISTEN", "SYN_RECV", "ESTABLISHED", "FIN_WAIT1",
           "CLOSE_WAIT", "LAST_ACK", "CLOSING", "CLOSE"}
Open == {"LISTEN", "SYN_RECV", "ESTABLISHED", "FIN_WAIT1", "CLOSE_WAIT", "LAST_ACK"}
Segment == [seq : U32, len : U32, sent : U32]

(* Port 443 goes through the proxy's CONNECT before the client's bytes.    *)
Tunnel == Port = 443
PreTunnel == Tunnel /\ connect_sent # "ESTABLISHED"

-----------------------------------------------------------------------------
(* Segments written to the tun device. *)

(* Mutant: a closed session is taken for a closing one again. *)
Reset_reopens(st) == "CLOSING"

(* write_rst: the session ends whatever the tun device says. *)
Reset(st) == IF st = "CLOSE" THEN "CLOSE" ELSE "CLOSING"
(* In LISTEN write_rst takes the SYN into account so as to acknowledge it. *)
ResetSeq(st, seq) == IF st = "LISTEN" THEN Add(seq, 1) ELSE seq

(* write_ack, write_data, write_syn_ack, write_fin_ack: the session is to  *)
(* be closed when the tun device refuses the packet.                       *)
Written(ok, st) == IF ok THEN st ELSE "CLOSING"

(* Mutant: what is in flight is forgotten. *)
get_send_window_ignores_flight == send_window

(* What the client may still be sent. *)
get_send_window ==
  LET behind == IF compare_u32(acked, local_seq) <= 0
                THEN Sub(local_seq, acked) ELSE acked
  IN  IF behind < send_window THEN send_window - behind ELSE 0

-----------------------------------------------------------------------------
(* The client. *)

Syns ==
  [syn : {TRUE}, ack : {FALSE}, fin : {FALSE}, rst : {FALSE},
   seq : {RemoteStart}, ackno : {0}, len : SynLengths, win : Windows]

(* The client has our SYN-ACK. *)
Synchronized == local_seq # local_start

(* Any part of its stream, first sent or sent again; the bytes before it   *)
(* may be lost on the way.                                                 *)
StreamPackets ==
  {p \in [syn : {FALSE}, ack : {TRUE}, fin : BOOLEAN, rst : BOOLEAN,
          seq : {Add(RemoteStart, i) : i \in 1 .. ClientBytes + 2},
          ackno : {0}, len : 0 .. ClientBytes, win : Windows] :
     LET end == Sub(p.seq, RemoteStart) + p.len
     IN  /\ p.len > 0 => end <= ClientBytes + 1
         /\ p.fin => end = ClientBytes + 1
         /\ p.rst => p.len = 0 /\ ~p.fin}

(* It acknowledges any position it has reached. *)
ClientPackets ==
  Syns \cup
  IF Synchronized
  THEN {[p EXCEPT !.ackno = Add(local_start, k)] :
          p \in StreamPackets, k \in 1 .. Sub(local_seq, local_start)}
  ELSE {}

-----------------------------------------------------------------------------
Entry(p) == [seq |-> p.seq, len |-> p.len, sent |-> 0]

(* Mutant: a segment is appended wherever it belongs. *)
queue_tcp_appends(next, p) ==
  forward' = IF compare_u32(p.seq, next) < 0 THEN forward ELSE Append(forward, Entry(p))

(* queue_tcp: the forward list is kept in sequence order, in front of next, *)
(* the sequence number the session expects: place is where the first       *)
(* segment that is not before p stands.  One that is there already keeps   *)
(* its length, even when the new one is longer.                            *)
queue_tcp(next, p) ==
  \E place \in 1 .. Len(forward) + 1 :
    /\ \A i \in 1 .. place - 1 : compare_u32(forward[i].seq, p.seq) < 0
    /\ place <= Len(forward) => compare_u32(forward[place].seq, p.seq) >= 0
    /\ forward' = IF \/ compare_u32(p.seq, next) < 0
                     \/ place <= Len(forward) /\ forward[place].seq = p.seq
                  THEN forward
                  ELSE InsertAt(forward, place, Entry(p))

(* The first n segments of the queue follow one another from remote_seq.   *)
InOrder(n) ==
  \A i \in 1 .. n :
    Add(forward[i].seq, forward[i].sent) =
      IF i = 1 THEN remote_seq ELSE Add(forward[i-1].seq, forward[i-1].len)

(* What the forwarding loop can do: n whole segments go to the socket,     *)
(* then part of the next, then it stops because the queue, the order or    *)
(* the socket's buffer ends.  When send fails, its -1 is greater than len, *)
(* a size_t, and the segment counts as sent; so does one on port 80 whose  *)
(* rewritten request the socket takes only in part.  These are refused.    *)
ForwardOutcomes ==
  {f \in [whole : 0 .. Len(forward), part : 0 .. ClientBytes,
          refused : SUBSET DOMAIN forward] :
     /\ InOrder(f.whole)
     /\ f.refused \subseteq 1 .. f.whole
     /\ f.part > 0 =>
          /\ f.whole < Len(forward) /\ InOrder(f.whole + 1)
          /\ f.part < forward[f.whole + 1].len - forward[f.whole + 1].sent}

NoForward == [whole |-> 0, part |-> 0, refused |-> {}]

Forwarded(f) ==
  LET rest == SubSeq(forward, f.whole + 1, Len(forward))
  IN  IF f.part = 0 THEN rest ELSE [rest EXCEPT ![1].sent = @ + f.part]

(* The positions of the client's stream in the given whole segments and in *)
(* the part.                                                               *)
ForwardedBytes(f, whole) ==
  {n \in U32 :
     \/ \E i \in whole :
          Sub(n, forward[i].seq) \in forward[i].sent .. forward[i].len - 1
     \/ /\ f.part > 0
        /\ LET s == forward[f.whole + 1]
           IN  Sub(n, s.seq) \in s.sent .. s.sent + f.part - 1}

(* Mutant: a segment sent in part counts as sent. *)
ForwardedSeq_whole_segment(f) ==
  IF f.part > 0
  THEN LET s == forward[f.whole + 1] IN Add(s.seq, s.len)
  ELSE IF f.whole > 0
  THEN Add(forward[f.whole].seq, forward[f.whole].len)
  ELSE remote_seq

(* remote_seq after the loop: the end of what was sent. *)
ForwardedSeq(f) ==
  IF f.part > 0
  THEN LET s == forward[f.whole + 1] IN Add(s.seq, s.sent + f.part)
  ELSE IF f.whole > 0
  THEN Add(forward[f.whole].seq, forward[f.whole].len)
  ELSE remote_seq

-----------------------------------------------------------------------------
(* The session is freed. *)
Forget ==
  /\ state' = "NONE" /\ connect_sent' = "NOT_SENT"
  /\ local_start' = 0 /\ local_seq' = 0 /\ remote_seq' = 0 /\ acked' = 0
  /\ send_window' = 0 /\ forward' = <<>>
  /\ sent' = 0 /\ taken' = 0 /\ received' = 0
  /\ events' = {} /\ aged' = FALSE

(* The loop of handle_events: monitor, check, wait, handle the batch. *)

Init ==
  /\ state = "NONE" /\ socket = "none" /\ connect_sent = "NOT_SENT"
  /\ local_start = 0 /\ local_seq = 0 /\ remote_seq = 0 /\ acked = 0
  /\ send_window = 0 /\ forward = <<>>
  /\ sent = 0 /\ taken = 0 /\ received = 0
  /\ events = {} /\ aged = FALSE
  /\ phase = "monitor" /\ batch = <<>> /\ flags = {}

(* What monitor_tcp_session asks epoll for; room says whether the socket's *)
(* send buffer takes the rest of the first segment.                        *)
Interest(room) ==
  CASE state = "LISTEN" ->
         IF connect_sent = "SENT" /\ Tunnel THEN {"IN"} ELSE {"OUT"}
    [] state \in {"ESTABLISHED", "CLOSE_WAIT"} ->
         (IF get_send_window > 0 THEN {"IN"} ELSE {}) \cup
         (IF forward # <<>> /\ InOrder(1) /\ room THEN {"OUT"} ELSE {})
    [] OTHER -> {}

(* Mutant: remote_seq is not put back after the prompting ACK. *)
MonitorSession_keeps_probe ==
  /\ phase = "monitor" /\ phase' = "check"
  /\ socket # "none"
  /\ LET probing == /\ state \in {"ESTABLISHED", "CLOSE_WAIT"}
                    /\ get_send_window = 0
     IN remote_seq' = IF probing THEN Sub(remote_seq, 1) ELSE remote_seq
  /\ \E room \in BOOLEAN : events' = Interest(room)
  /\ UNCHANGED <<state, socket, connect_sent, local_start, local_seq, acked,
                 send_window, forward, sent, taken, received, aged, batch, flags>>

(* monitor_tcp_session.  With a closed send window it may write an ACK to  *)
(* prompt the client; the write, or EPOLL_CTL_MOD, may fail.               *)
MonitorSession ==
  /\ phase = "monitor" /\ phase' = "check"
  /\ socket # "none"
  /\ \E room, written, changed \in BOOLEAN :
       /\ ~written => /\ state \in {"ESTABLISHED", "CLOSE_WAIT"}
                      /\ get_send_window = 0
       /\ ~changed => Interest(room) # events
       /\ events' = Interest(room)
       /\ state' = Written(written /\ changed, state)
  /\ UNCHANGED <<socket, connect_sent, tcp, aged, batch, flags>>

NothingToMonitor ==
  /\ phase = "monitor" /\ phase' = "check"
  /\ socket = "none"
  /\ UNCHANGED <<state, socket, connect_sent, tcp, events, aged, batch, flags>>

(* Sessions were checked less than EPOLL_MIN_CHECK milliseconds ago. *)
SkipCheck ==
  /\ phase = "check" /\ phase' = "poll"
  /\ UNCHANGED <<state, socket, connect_sent, tcp, events, aged, batch, flags>>

(* Mutants: a session in CLOSING is forgotten; only a session whose        *)
(* handshake is done can time out.                                         *)
CloseSession_only_timeout ==
  /\ phase = "check" /\ phase' = "poll"
  /\ state \in Open /\ aged
  /\ state' = "CLOSE" /\ socket' = "none" /\ aged' = FALSE
  /\ sent' = 0 /\ taken' = 0 /\ received' = 0
  /\ UNCHANGED <<connect_sent, local_start, local_seq, remote_seq, acked,
                 send_window, forward, events, batch, flags>>

CloseSession_after_handshake ==
  /\ phase = "check" /\ phase' = "poll"
  /\ state = "CLOSING" \/ (state \in Open \ {"LISTEN", "SYN_RECV"} /\ aged)
  /\ state' = "CLOSE" /\ socket' = "none" /\ aged' = FALSE
  /\ sent' = 0 /\ taken' = 0 /\ received' = 0
  /\ UNCHANGED <<connect_sent, local_start, local_seq, remote_seq, acked,
                 send_window, forward, events, batch, flags>>

(* check_tcp_session: a session that timed out or is closing is closed. *)
CloseSession ==
  /\ phase = "check" /\ phase' = "poll"
  /\ \/ state = "CLOSING"
     \/ state \in Open /\ aged
  /\ state' = "CLOSE"
  /\ socket' = "none"
  /\ aged' = FALSE
  /\ sent' = 0 /\ taken' = 0 /\ received' = 0
  /\ UNCHANGED <<connect_sent, local_start, local_seq, remote_seq, acked,
                 send_window, forward, events, batch, flags>>

(* ... a closed one lingers for TCP_KEEP_TIMEOUT and is then freed, *)
KeepClosed ==
  /\ phase = "check" /\ phase' = "poll"
  /\ state = "CLOSE" /\ ~aged
  /\ sent' = 0 /\ taken' = 0 /\ received' = 0
  /\ UNCHANGED <<state, socket, connect_sent, local_start, local_seq, remote_seq,
                 acked, send_window, forward, events, aged, batch, flags>>

FreeSession ==
  /\ phase = "check" /\ phase' = "poll"
  /\ state = "CLOSE" /\ aged
  /\ Forget
  /\ UNCHANGED <<socket, batch, flags>>

(* ... and the others are left alone. *)
KeepSession ==
  /\ phase = "check" /\ phase' = "poll"
  /\ \/ state = "NONE"
     \/ state \in Open /\ ~aged
  /\ UNCHANGED <<state, socket, connect_sent, tcp, events, aged, batch, flags>>

Batches == {<<>>, <<"tun">>, <<"sock">>, <<"tun", "sock">>, <<"sock", "tun">>}

(* epoll_wait: the kernel lists the ready descriptors in any order.  An    *)
(* error can always be pending, the rest only when it was asked for.       *)
Poll ==
  /\ phase = "poll"
  /\ \E ready \in SUBSET (events \cup {"ERR"}), b \in Batches :
       /\ socket # "up" => ready \subseteq {"ERR"}
       /\ socket = "none" => ready = {}
       /\ Contains(b, "sock") <=> ready # {}
       /\ batch' = b /\ flags' = ready
       /\ phase' = IF b = <<>> THEN "monitor" ELSE "events"
  /\ UNCHANGED <<state, socket, connect_sent, tcp, events, aged>>

(* The kernel completes the connect at any time, and time passes. *)
Connected ==
  /\ socket = "connecting" /\ socket' = "up"
  /\ UNCHANGED <<state, connect_sent, tcp, events, aged, phase, batch, flags>>

Age ==
  /\ state # "NONE" /\ ~aged /\ aged' = TRUE
  /\ UNCHANGED <<state, socket, connect_sent, tcp, events, phase, batch, flags>>

(* epoll_wait or reading the tun device fails: the thread leaves the loop, *)
(* its epoll descriptor is closed and the session stays behind.            *)
LoopFails ==
  /\ phase \in {"poll", "events"} /\ phase' = "stopped"
  /\ batch' = <<>> /\ flags' = {}
  /\ UNCHANGED <<state, socket, connect_sent, tcp, events, aged>>

(* check_allowed, as the next thread starts: what is open is reset.        *)
StartLoop ==
  /\ phase = "stopped" /\ phase' = "monitor"
  /\ state' = IF state \in Open THEN Reset(state) ELSE state
  /\ remote_seq' = ResetSeq(state, remote_seq)
  /\ UNCHANGED <<socket, connect_sent, local_start, local_seq, acked, send_window,
                 forward, sent, taken, received, events, aged, batch, flags>>

(* clear: jni_stop has joined the thread, which leaves the loop, and the   *)
(* rest of a batch, when it meets the byte in the pipe; jni_done clears    *)
(* after a stop as well.                                                   *)
Clear ==
  /\ phase \in {"poll", "events", "stopped"} /\ phase' = "stopped"
  /\ batch' = <<>> /\ flags' = {}
  /\ Forget /\ socket' = "none"

Turn(source) == phase = "events" /\ Head(batch) = source
EndTurn ==
  /\ batch' = Tail(batch)
  /\ phase' = IF Len(batch) = 1 THEN "monitor" ELSE "events"

-----------------------------------------------------------------------------
(* A packet from the client, one of those check_tun reads while the tun    *)
(* device is readable.  A packet for a closed session, or for no session   *)
(* and without SYN, is answered with RST and changes nothing here.         *)

(* is_readable says no more. *)
TunDrained ==
  /\ Turn("tun") /\ EndTurn
  /\ UNCHANGED <<state, socket, connect_sent, tcp, events, aged, flags>>

(* handle_tcp for a SYN without session: a session waits for its socket to *)
(* connect.  Data on the SYN are queued under the number of the SYN.       *)
NewSession(p) ==
  /\ p.syn
  /\ state = "NONE" /\ state' = "LISTEN"
  /\ socket' = "connecting"
  /\ connect_sent' = IF Port = 80 THEN "ESTABLISHED" ELSE "NOT_SENT"
  /\ send_window' = p.win
  /\ remote_seq' = p.seq
  /\ forward' = IF p.len = 0 THEN <<>> ELSE <<Entry(p)>>
  /\ local_start' \in LocalStarts /\ local_seq' = local_start'
  /\ acked' = 0 /\ sent' = 0 /\ taken' = 0 /\ received' = 0
  /\ events' = {"OUT"} /\ aged' = FALSE

(* handle_tcp on port 443 until the proxy has opened the tunnel: whatever  *)
(* the packet is, it makes the session send CONNECT if it has not, and     *)
(* then joins the queue.  Mutant: send's result is not looked at.          *)
BeforeTunnel == state # "NONE" /\ PreTunnel

SendConnect_unchecked(p) ==
  /\ BeforeTunnel
  /\ connect_sent = "NOT_SENT" /\ connect_sent' = "SENT"
  /\ state' = "LISTEN"
  /\ queue_tcp(remote_seq, p)
  /\ UNCHANGED <<socket, local_start, local_seq, remote_seq, acked, send_window,
                 sent, taken, received, events, aged>>

SendConnect(p) ==
  /\ BeforeTunnel
  /\ connect_sent = "NOT_SENT" /\ connect_sent' = "SENT"
  /\ socket = "up"
  /\ state' = "LISTEN"
  /\ queue_tcp(remote_seq, p)
  /\ UNCHANGED <<socket, local_start, local_seq, remote_seq, acked, send_window,
                 sent, taken, received, events, aged>>

SendConnectFails(p) ==
  /\ BeforeTunnel
  /\ connect_sent = "NOT_SENT"
  /\ state' = Reset(state)
  /\ remote_seq' = ResetSeq(state, remote_seq)
  /\ queue_tcp(remote_seq', p)
  /\ UNCHANGED <<socket, connect_sent, local_start, local_seq, acked, send_window,
                 sent, taken, received, events, aged>>

(* Mutant: a packet refreshes the time of a session, be it closed or not. *)
AwaitTunnel_refreshes(p) ==
  /\ BeforeTunnel
  /\ connect_sent = "SENT"
  /\ queue_tcp(remote_seq, p)
  /\ aged' = FALSE
  /\ UNCHANGED <<state, socket, connect_sent, local_start, local_seq, remote_seq,
                 acked, send_window, sent, taken, received, events>>

AwaitTunnel(p) ==
  /\ BeforeTunnel
  /\ connect_sent = "SENT"
  /\ queue_tcp(remote_seq, p)
  /\ UNCHANGED <<state, socket, connect_sent, local_start, local_seq, remote_seq,
                 acked, send_window, sent, taken, received, events, aged>>

(* handle_tcp for any other session that is not closed. *)
Receive(p) ==
  /\ state \in Open /\ ~PreTunnel
  /\ aged' = FALSE
  /\ send_window' = p.win
  /\ UNCHANGED <<socket, connect_sent, local_start, local_seq, sent, taken, received, events>>

(* Data have nowhere to go once the socket is closed, and do not come      *)
(* after a FIN.                                                            *)
Refused(p) == p.len > 0 /\ (socket = "none" \/ state = "CLOSE_WAIT")

RefuseData(p) ==
  /\ Receive(p) /\ Refused(p)
  /\ state' = Reset(state)
  /\ remote_seq' = ResetSeq(state, remote_seq)
  /\ UNCHANGED <<forward, acked>>

Accept(p) ==
  /\ Receive(p) /\ ~Refused(p)
  /\ IF p.len > 0 THEN queue_tcp(remote_seq, p) ELSE UNCHANGED forward

(* Mutant: the socket is closed at once. *)
ReceiveRst_closes_socket(p) ==
  /\ state \in Open /\ ~PreTunnel /\ p.rst
  /\ state' = "CLOSING" /\ socket' = "none"
  /\ UNCHANGED <<connect_sent, tcp, events, aged>>


ReceiveRst(p) ==
  /\ Accept(p) /\ p.rst
  /\ state' = "CLOSING"
  /\ UNCHANGED <<remote_seq, acked>>

(* The packet acknowledges all that was written, or nothing at all. *)
UpToDate(p) == ~p.rst /\ (p.ack => p.ackno = local_seq)

RepeatedSyn(p) ==
  /\ Accept(p) /\ UpToDate(p) /\ p.syn
  /\ UNCHANGED <<state, remote_seq, acked>>

(* The client closes.  With a queue, its FIN is counted when the queue has *)
(* been forwarded.                                                         *)
ReceiveFin(p) ==
  /\ Accept(p) /\ UpToDate(p) /\ ~p.syn /\ p.fin
  /\ \E ok \in BOOLEAN :
       \/ /\ state = "ESTABLISHED" /\ forward' = <<>>
          /\ remote_seq' = Add(remote_seq, 1)
          /\ state' = IF ok THEN "CLOSE_WAIT" ELSE "CLOSING"
       \/ /\ state = "ESTABLISHED" /\ forward' # <<>>
          /\ state' = "CLOSE_WAIT"
          /\ UNCHANGED remote_seq
       \/ /\ state = "FIN_WAIT1"
          /\ remote_seq' = Add(remote_seq, 1)
          /\ state' = IF ok THEN "CLOSE" ELSE "CLOSING"
       \/ /\ state \notin {"ESTABLISHED", "FIN_WAIT1"}
          /\ UNCHANGED <<state, remote_seq>>
  /\ UNCHANGED acked

ReceiveAck(p) ==
  /\ Accept(p) /\ UpToDate(p) /\ ~p.syn /\ ~p.fin /\ p.ack
  /\ acked' = p.ackno
  /\ state' = CASE state = "SYN_RECV" -> "ESTABLISHED"
                [] state = "LAST_ACK" -> "CLOSING"
                [] OTHER -> state
  /\ UNCHANGED remote_seq

(* The packet acknowledges something else: a keep alive changes nothing,   *)
(* an older acknowledgement moves acked forward only, one for data never   *)
(* written resets the session.                                             *)
ReceiveOldAck(p) ==
  /\ Accept(p) /\ ~p.rst /\ ~UpToDate(p)
  /\ \/ Add(p.ackno, 1) = local_seq
     \/ compare_u32(p.ackno, local_seq) < 0
  /\ acked' = IF /\ Add(p.ackno, 1) # local_seq
                  /\ compare_u32(p.ackno, acked) > 0
               THEN p.ackno ELSE acked
  /\ UNCHANGED <<state, remote_seq>>

ReceiveFutureAck(p) ==
  /\ Accept(p) /\ ~p.rst /\ ~UpToDate(p)
  /\ Add(p.ackno, 1) # local_seq
  /\ compare_u32(p.ackno, local_seq) > 0
  /\ state' = Reset(state)
  /\ remote_seq' = ResetSeq(state, remote_seq)
  /\ UNCHANGED acked

handle_tcp(p) ==
  \/ NewSession(p) \/ SendConnect(p) \/ SendConnectFails(p) \/ AwaitTunnel(p)
  \/ RefuseData(p) \/ ReceiveRst(p) \/ RepeatedSyn(p) \/ ReceiveFin(p)
  \/ ReceiveAck(p) \/ ReceiveOldAck(p) \/ ReceiveFutureAck(p)

ClientPacket ==
  /\ Turn("tun")
  /\ \E p \in ClientPackets : handle_tcp(p)
  /\ UNCHANGED <<phase, batch, flags>>

-----------------------------------------------------------------------------
(* check_tcp_socket: the session's own event. *)

SocketTurn == Turn("sock") /\ EndTurn /\ flags' = {}

SocketError ==
  /\ SocketTurn /\ "ERR" \in flags
  /\ state' = Reset(state)
  /\ remote_seq' = ResetSeq(state, remote_seq)
  /\ aged' = FALSE
  /\ UNCHANGED <<socket, connect_sent, local_start, local_seq, acked, send_window,
                 forward, sent, taken, received, events>>

(* Mutant: the handshake with the client is taken to be done, even if the  *)
(* SYN-ACK was never sent.                                                 *)
TunnelOpened_establishes ==
  /\ SocketTurn /\ "ERR" \notin flags
  /\ state = "LISTEN" /\ "IN" \in flags
  /\ connect_sent = "SENT" /\ connect_sent' = "ESTABLISHED"
  /\ state' = "ESTABLISHED"
  /\ UNCHANGED <<socket, tcp, events, aged>>

(* The proxy answers CONNECT; a short or other answer, or none, ends it.   *)
TunnelOpened ==
  /\ SocketTurn /\ "ERR" \notin flags
  /\ state = "LISTEN" /\ "IN" \in flags
  /\ connect_sent = "SENT" /\ connect_sent' = "ESTABLISHED"
  /\ state' = "SYN_RECV"
  /\ UNCHANGED <<socket, tcp, events, aged>>

TunnelRefused ==
  /\ SocketTurn /\ "ERR" \notin flags
  /\ state = "LISTEN" /\ "IN" \in flags
  /\ state' = Reset(state)
  /\ remote_seq' = ResetSeq(state, remote_seq)
  /\ UNCHANGED <<socket, connect_sent, local_start, local_seq, acked, send_window,
                 forward, sent, taken, received, events, aged>>

(* The socket is connected: the client's SYN is acknowledged. *)
SendSynAck ==
  /\ SocketTurn /\ "ERR" \notin flags
  /\ state = "LISTEN" /\ "IN" \notin flags
  /\ remote_seq' = Add(remote_seq, 1)
  /\ \/ /\ state' = "SYN_RECV" /\ local_seq' = Add(local_seq, 1) /\ aged' = FALSE
     \/ /\ state' = "CLOSING" /\ UNCHANGED <<local_seq, aged>>
  /\ UNCHANGED <<socket, connect_sent, local_start, acked, send_window, forward,
                 sent, taken, received, events>>

(* Reading from the server, in the state st the forwarding has left. *)
Readable(st) ==
  st \in {"ESTABLISHED", "CLOSE_WAIT"} /\ "IN" \in flags /\ get_send_window > 0

ReadData(st) ==
  /\ \E n \in 1 .. ServerBytes, ok \in BOOLEAN :
       /\ n <= get_send_window /\ n <= Mss
       /\ received + n <= ServerBytes
       /\ received' = received + n
       /\ local_seq' = IF ok THEN Add(local_seq, n) ELSE local_seq
       /\ state' = Written(ok, st)
  /\ UNCHANGED socket

(* Mutants: the FIN does not wait for the queue; the socket stays open.    *)
ReadEof_with_queue(st) ==
  /\ socket' = "none"
  /\ local_seq' = Add(local_seq, 1)
  /\ state' = IF st = "ESTABLISHED" THEN "FIN_WAIT1" ELSE "LAST_ACK"
  /\ UNCHANGED received

ReadEof_keeps_socket(st) ==
  /\ \/ /\ forward' = <<>>
        /\ local_seq' = Add(local_seq, 1)
        /\ state' = IF st = "ESTABLISHED" THEN "FIN_WAIT1" ELSE "LAST_ACK"
     \/ state' = "CLOSING" /\ UNCHANGED local_seq
  /\ UNCHANGED <<socket, received>>

(* EOF is passed on as a FIN, unless client data are still queued. *)
ReadEof(st) ==
  /\ socket' = "none"
  /\ \/ /\ forward' = <<>>
        /\ local_seq' = Add(local_seq, 1)
        /\ state' = IF st = "ESTABLISHED" THEN "FIN_WAIT1" ELSE "LAST_ACK"
     \/ state' = "CLOSING" /\ UNCHANGED local_seq
  /\ UNCHANGED received

ReadNothing(st) ==
  /\ \/ state' = st
     \/ Readable(st) /\ state' = "CLOSING"
  /\ UNCHANGED <<socket, local_seq, received>>

(* Forward, acknowledge what was forwarded or a window that opened again,  *)
(* then read.                                                              *)
ForwardAndRead ==
  /\ SocketTurn /\ "ERR" \notin flags /\ state # "LISTEN"
  /\ \E f \in IF "OUT" \in flags THEN ForwardOutcomes ELSE {NoForward},
        opened, ok \in BOOLEAN :
       LET fwd == f.whole > 0 \/ f.part > 0
           acking == fwd \/ opened
           confirm == fwd /\ forward' = <<>> /\ state = "CLOSE_WAIT"
           st == IF acking THEN Written(ok, state) ELSE state
       IN /\ forward' = Forwarded(f)
          /\ sent' = sent + Cardinality(ForwardedBytes(f, 1 .. f.whole))
          /\ taken' = taken + Cardinality(ForwardedBytes(f, (1 .. f.whole) \ f.refused))
          /\ remote_seq' = IF confirm THEN Add(ForwardedSeq(f), 1) ELSE ForwardedSeq(f)
          /\ aged' = (aged /\ ~(acking /\ ok) /\ ~Readable(st))
          /\ \/ ReadNothing(st)
             \/ Readable(st) /\ (ReadData(st) \/ ReadEof(st))
  /\ UNCHANGED <<connect_sent, local_start, acked, send_window, events>>

SocketEvent ==
  \/ SocketError \/ TunnelOpened \/ TunnelRefused \/ SendSynAck \/ ForwardAndRead

-----------------------------------------------------------------------------
Loop ==
  \/ MonitorSession \/ NothingToMonitor
  \/ SkipCheck \/ CloseSession \/ KeepClosed \/ FreeSession \/ KeepSession
  \/ Poll \/ TunDrained \/ SocketEvent
  \/ LoopFails \/ StartLoop \/ Clear

Next == Loop \/ ClientPacket \/ Connected \/ Age

(* The loop thread runs; check_tcp_session gets its turn again and again   *)
(* because the clock moves on between two passes; the client does not keep *)
(* the tun device readable for ever; time passes.                          *)
Fairness ==
  /\ WF_vars(MonitorSession \/ NothingToMonitor \/ SkipCheck \/ Poll \/ SocketEvent)
  /\ SF_vars(CloseSession \/ FreeSession)
  /\ WF_vars(TunDrained)
  /\ WF_vars(Age)

Spec == Init /\ [][Next]_vars /\ Fairness

-----------------------------------------------------------------------------
(* Every variable has the type of its field. *)
TypeOK ==
  /\ state \in States
  /\ socket \in {"none", "connecting", "up"}
  /\ connect_sent \in {"NOT_SENT", "SENT", "ESTABLISHED"}
  /\ local_start \in U32 /\ local_seq \in U32
  /\ remote_seq \in U32 /\ acked \in U32
  /\ send_window \in Nat /\ sent \in Nat /\ taken \in Nat /\ received \in 0 .. ServerBytes
  /\ forward \in Seq(Segment)
  /\ events \subseteq {"IN", "OUT"} /\ aged \in BOOLEAN
  /\ phase \in {"monitor", "check", "poll", "events", "stopped"}
  /\ batch \in Batches /\ flags \subseteq {"IN", "OUT", "ERR"}

(* A state that still needs the socket has it, a state after the server's  *)
(* EOF does not: only CLOSING may be either way, until check_tcp_session.  *)
SocketAgreesWithState ==
  /\ state \in {"LISTEN", "SYN_RECV", "ESTABLISHED", "CLOSE_WAIT"} => socket # "none"
  /\ state \in {"NONE", "FIN_WAIT1", "LAST_ACK", "CLOSE"} => socket = "none"

(* The event of a batch never outlives the socket it was reported for: no  *)
(* handler before it in the batch closes the socket or frees the session.  *)
EventHasSession ==
  (\E i \in DOMAIN batch : batch[i] = "sock") => socket # "none" /\ flags # {}

(* Once the handshake is done remote_seq stands at the client's SYN, the   *)
(* bytes forwarded, and its FIN if the queue before it is out; local_seq   *)
(* at our SYN, the bytes read from the server and our FIN.                 *)
Count(n) == IF n THEN 1 ELSE 0
SequenceAccounting ==
  state \in {"ESTABLISHED", "FIN_WAIT1", "CLOSE_WAIT", "LAST_ACK"} =>
    /\ Sub(remote_seq, RemoteStart) =
         1 + sent + Count(\/ state = "LAST_ACK"
                          \/ state = "CLOSE_WAIT" /\ forward = <<>>)
    /\ Sub(local_seq, local_start) =
         1 + received + Count(state \in {"FIN_WAIT1", "LAST_ACK"})

(* The client is told of the server's EOF only after all it had sent until *)
(* then went to the server.                                                *)
FinAfterForward == state \in {"FIN_WAIT1", "LAST_ACK"} => forward = <<>>

(* The queue stays in the client's order and no position is there twice.   *)
QueueInOrder ==
  \A i, j \in DOMAIN forward :
    i < j => Sub(forward[i].seq, RemoteStart) < Sub(forward[j].seq, RemoteStart)

(* What is written to the client never exceeds the window it advertised.   *)
WithinWindow ==
  [][local_seq' # local_seq /\ state' \in {"ESTABLISHED", "CLOSE_WAIT"}
       => Sub(local_seq', acked') <= send_window']_vars

(* A session given up stays so until it is closed and freed, with one      *)
(* exception: a packet on port 443 that gets CONNECT out.                  *)
ClosedForGood ==
  [][/\ state = "CLOSE" => state' \in {"CLOSE", "NONE"}
     /\ state = "CLOSING" => \/ state' \in {"CLOSING", "CLOSE", "NONE"}
                             \/ connect_sent = "NOT_SENT" /\ connect_sent' = "SENT"]_vars

(* What is taken from the client and written to it only advances while the session is open. *)
NeverBackwards ==
  [][{state, state'} \subseteq Open \ {"LISTEN"}
       => /\ Sub(remote_seq', remote_seq) < Half
          /\ Sub(local_seq', local_seq) < Half]_vars

(* While the loop runs, a session given up is closed, a closed one freed,  *)
(* and one that had no traffic for its timeout is not left alone.          *)
Stopped == phase = "stopped"
ClosingIsClosed == state = "CLOSING" ~> (state \in {"CLOSE", "LISTEN"} \/ Stopped)
ClosedIsFreed == state = "CLOSE" ~> (state = "NONE" \/ Stopped)
IdleIsClosed == aged ~> (~aged \/ Stopped)

(* What makes the socket invariants inductive: epoll's events are handled  *)
(* in the events phase only, and no byte of the client is taken in before  *)
(* the proxy has opened the tunnel.                                        *)
BatchInPhase == phase = "events" <=> batch # <<>>
NoDataBeforeTunnel ==
  PreTunnel => state \in {"NONE", "LISTEN", "SYN_RECV", "CLOSING", "CLOSE"}

IInv ==
  /\ TypeOK /\ BatchInPhase /\ NoDataBeforeTunnel
  /\ SocketAgreesWithState /\ EventHasSession /\ FinAfterForward

-----------------------------------------------------------------------------
(* The life of the session, as the event loop sees it. *)
Life ==
  CASE state = "NONE" -> "none"
    [] state \in Open -> "active"
    [] state = "CLOSING" -> "finishing"
    [] state = "CLOSE" -> "closed"

Lifecycle == INSTANCE TcpLifecycle
               WITH life <- Life, up <- socket # "none", at <- phase

(* Seen through Life the session does what the event loop expects of one,  *)
(* and nothing else: SessionTable relies on it.                            *)
ImplementsLifecycle == Lifecycle!Spec

-----------------------------------------------------------------------------
(* What comments of tcp.c say and the code does not keep. *)

(* handle_tcp on a repeated SYN: "The socket is probably not opened yet",  *)
(* and nothing is done.                                                    *)
RepeatedSynIsIgnored ==
  [][ClientPacket /\ state # "NONE" /\ ~Synchronized => state' = state]_vars

(* check_tcp_socket: "Always forward data".  The head of the queue is      *)
(* never a segment whose bytes have gone already: such a head stays, and   *)
(* nothing behind it is ever forwarded.                                    *)
HeadIsNotStale ==
  state = "ESTABLISHED" /\ forward # <<>> =>
    Sub(Add(Head(forward).seq, Head(forward).sent), RemoteStart) >=
      Sub(remote_seq, RemoteStart)

(* check_tcp_socket: "Retry later" of a send that failed with EAGAIN.      *)
(* What counts as sent, and is acknowledged to the client, the socket has  *)
(* taken.                                                                  *)
SentIsTaken == sent = taken

(* handle_tcp: "future ACK".  Only what was never written is one: the      *)
(* client acknowledges what it got, and no session ends for that.          *)
WrittenIsNoFuture ==
  [][~\E p \in ClientPackets : Turn("tun") /\ ReceiveFutureAck(p)]_vars

=============================================================================

