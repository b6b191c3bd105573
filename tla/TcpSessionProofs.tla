-------------------------- MODULE TcpSessionProofs --------------------------
(***************************************************************************)
(* Type correctness and the socket invariants of TcpSession, and that it   *)
(* implements TcpLifecycle, for every port, stream length, window and      *)
(* initial sequence number, and every width of the sequence numbers.       *)
(***************************************************************************)
EXTENDS TcpSession, SeqNumProofs, SequenceTheorems, FiniteSetTheorems

-----------------------------------------------------------------------------
(* The operators. *)

PacketType == [syn : BOOLEAN, ack : BOOLEAN, fin : BOOLEAN, rst : BOOLEAN,
               seq : U32, ackno : U32, len : U32, win : Nat]

LEMMA Constants ==
  /\ Half \in Nat /\ Half > 1 /\ Modulus \in Nat /\ Modulus > 3
  /\ RemoteStart \in U32 /\ LocalStarts \subseteq U32
  /\ ClientBytes \in Nat /\ ClientBytes + 3 < Modulus /\ ServerBytes \in Nat
  /\ ServerBytes + 3 < Modulus /\ Windows \subseteq Nat /\ SynLengths \subseteq U32
  /\ 0 \in U32 /\ 1 \in U32
  BY HalfAssumption, StartAssumption, StreamAssumption, WindowAssumption, SynAssumption
     DEF Modulus, U32

(* What the client sends is a packet of numbers. *)
LEMMA ClientPacketType ==
  ASSUME TypeOK, NEW p \in ClientPackets
  PROVE  p \in PacketType
<1>1. ASSUME NEW q \in Syns PROVE q \in PacketType
    BY Constants DEF Syns, PacketType
<1>2. ASSUME NEW q \in StreamPackets PROVE q \in PacketType
  <2>1. {Add(RemoteStart, i) : i \in 1 .. ClientBytes + 2} \subseteq U32
    <3>1. \A i \in 1 .. ClientBytes + 2 : i \in U32
        BY Constants DEF U32
    <3> QED BY <3>1, Constants, AddInRange
  <2>2. 0 .. ClientBytes \subseteq U32
      BY Constants DEF U32
  <2> QED BY <2>1, <2>2, Constants DEF StreamPackets, PacketType
<1>3. CASE p \in Syns
    BY <1>1, <1>3
<1>4. CASE p \notin Syns
  <2>1. PICK q \in StreamPackets, k \in 1 .. Sub(local_seq, local_start) :
          p = [q EXCEPT !.ackno = Add(local_start, k)]
      BY <1>4 DEF ClientPackets
  <2>2. Sub(local_seq, local_start) \in U32
      BY SubInRange DEF TypeOK
  <2>3. k \in U32
      BY <2>2, Constants DEF U32
  <2>4. Add(local_start, k) \in U32
      BY <2>3, AddInRange DEF TypeOK
  <2> QED BY <2>1, <2>4, <1>2 DEF PacketType
<1> QED BY <1>3, <1>4

(* queue_tcp leaves a list of segments. *)
LEMMA QueueType ==
  ASSUME forward \in Seq(Segment), NEW p \in PacketType, NEW next, queue_tcp(next, p)
  PROVE  forward' \in Seq(Segment)
<1>1. Entry(p) \in Segment
    BY Constants DEF Entry, Segment, PacketType
<1>2. PICK place \in 1 .. Len(forward) + 1 :
        forward' = forward \/ forward' = InsertAt(forward, place, Entry(p))
    BY DEF queue_tcp
<1>3. InsertAt(forward, place, Entry(p)) \in Seq(Segment)
  <2>1. Len(forward) \in Nat /\ place \in Int /\ \A i \in 1 .. Len(forward) : forward[i] \in Segment
      BY LenProperties, ElementOfSeq
  <2>2. SubSeq(forward, 1, place - 1) \in Seq(Segment)
      BY <2>1, SubSeqProperties
  <2>3. SubSeq(forward, place, Len(forward)) \in Seq(Segment)
      BY <2>1, SubSeqProperties
  <2>4. <<Entry(p)>> \in Seq(Segment)
      BY <1>1
  <2> QED BY <2>2, <2>3, <2>4, ConcatProperties DEF InsertAt
<1> QED BY <1>2, <1>3

(* The forwarding loop leaves a list of segments and a sequence number. *)
LEMMA ForwardType ==
  ASSUME TypeOK, NEW f \in ForwardOutcomes
  PROVE  /\ Forwarded(f) \in Seq(Segment)
         /\ ForwardedSeq(f) \in U32
         /\ \A whole : Cardinality(ForwardedBytes(f, whole)) \in Nat
<1>0. /\ f.whole \in 0 .. Len(forward) /\ f.part \in 0 .. ClientBytes
      /\ f.part > 0 =>
           /\ f.whole < Len(forward)
           /\ f.part < forward[f.whole + 1].len - forward[f.whole + 1].sent
    BY DEF ForwardOutcomes
<1>1. /\ Len(forward) \in Nat
      /\ \A i \in 1 .. Len(forward) : forward[i] \in Segment
    BY LenProperties, ElementOfSeq DEF TypeOK
<1>2. SubSeq(forward, f.whole + 1, Len(forward)) \in Seq(Segment)
    BY <1>0, <1>1, SubSeqProperties
<1>3. ASSUME NEW whole PROVE Cardinality(ForwardedBytes(f, whole)) \in Nat
  <2>1. IsFiniteSet(U32)
      BY Constants, FS_Interval DEF U32
  <2>2. IsFiniteSet(ForwardedBytes(f, whole))
      BY <2>1, FS_Subset DEF ForwardedBytes
  <2> QED BY <2>2, FS_CardinalityType
<1>4. CASE f.part = 0
  <2>1. Forwarded(f) = SubSeq(forward, f.whole + 1, Len(forward))
      BY <1>4 DEF Forwarded
  <2>2. f.whole > 0 => Add(forward[f.whole].seq, forward[f.whole].len) \in U32
      BY <1>0, <1>1, AddInRange DEF Segment
  <2>3. ForwardedSeq(f) \in U32
      BY <1>0, <1>4, <2>2 DEF ForwardedSeq, TypeOK
  <2> QED BY <1>2, <1>3, <2>1, <2>3
<1>5. CASE f.part > 0
  <2> DEFINE rest == SubSeq(forward, f.whole + 1, Len(forward))
             s == forward[f.whole + 1]
  <2>0. f.part \in Nat /\ f.part # 0 /\ f.whole + 1 \in 1 .. Len(forward)
      BY <1>0, <1>1, <1>5, Constants
  <2>1. s \in Segment /\ s.sent + f.part \in U32
    <3>1. s \in Segment
        BY <2>0, <1>1
    <3>2. s.sent \in Int /\ s.len \in Int /\ 0 <= s.sent /\ s.len < Modulus
        BY <3>1, Constants DEF Segment, U32
    <3>3. f.part < s.len - s.sent
        BY <1>0, <1>5
    <3> HIDE DEF s
    <3> QED BY <2>0, <3>1, <3>2, <3>3, Constants DEF U32
  <2>2. Len(rest) >= 1 /\ rest[1] = s
      BY <1>0, <1>1, <1>5, SubSeqProperties
  <2>3. Forwarded(f) = [rest EXCEPT ![1].sent = @ + f.part]
      BY <2>0 DEF Forwarded
  <2>4. [s EXCEPT !.sent = @ + f.part] \in Segment
      BY <2>1 DEF Segment
  <2>5. [rest EXCEPT ![1] = [s EXCEPT !.sent = @ + f.part]] \in Seq(Segment)
      BY <1>2, <2>2, <2>4, LenProperties, ExceptSeq
  <2>6. Forwarded(f) \in Seq(Segment)
      BY <2>2, <2>3, <2>5
  <2>7. ForwardedSeq(f) \in U32
      BY <1>5, <2>1, AddInRange DEF ForwardedSeq, Segment
  <2> QED BY <1>3, <2>6, <2>7
<1> QED BY <1>0, <1>4, <1>5

(* No forwarding is one of the outcomes. *)
LEMMA NoForwardIsOutcome == TypeOK => NoForward \in ForwardOutcomes
  BY LenProperties, Constants DEF NoForward, ForwardOutcomes, InOrder, TypeOK

-----------------------------------------------------------------------------
(* Types. *)

TypeInv == TypeOK /\ BatchInPhase

(* The next states of a session are states. *)
LEMMA ResetType ==
  /\ \A st \in States : Reset(st) \in States
  /\ \A st \in States : \A ok \in BOOLEAN : Written(ok, st) \in States
  /\ \A st, seq : seq \in U32 => ResetSeq(st, seq) \in U32
  BY Constants, AddInRange DEF Reset, Written, ResetSeq, States

(* A freed session. *)
LEMMA ForgetType ==
  ASSUME Forget
  PROVE  /\ state' \in States /\ connect_sent' \in {"NOT_SENT", "SENT", "ESTABLISHED"}
         /\ local_start' \in U32 /\ local_seq' \in U32
         /\ remote_seq' \in U32 /\ acked' \in U32
         /\ send_window' \in Nat /\ sent' \in Nat /\ taken' \in Nat /\ received' \in 0 .. ServerBytes
         /\ forward' \in Seq(Segment)
         /\ events' \subseteq {"IN", "OUT"} /\ aged' \in BOOLEAN
<1>1. state' \in States
    BY DEF Forget, States
<1>2. send_window' \in Nat /\ sent' \in Nat /\ taken' \in Nat /\ received' \in 0 .. ServerBytes
    BY Constants DEF Forget
<1>3. forward' \in Seq(Segment)
    BY DEF Forget
<1>4. events' \subseteq {"IN", "OUT"} /\ aged' \in BOOLEAN
    BY DEF Forget
<1> QED BY <1>1, <1>2, <1>3, <1>4, Constants DEF Forget

(* Handling an event takes it off the batch. *)
LEMMA EndTurnType ==
  ASSUME TypeInv, phase = "events", EndTurn
  PROVE  batch' \in Batches /\ phase' \in {"monitor", "events"} /\ BatchInPhase'
<1>1. batch \in Batches /\ batch # <<>>
    BY DEF TypeInv, TypeOK, BatchInPhase
<1>2. ASSUME NEW e \in {"tun", "sock"}, batch = <<e>>
      PROVE  Len(batch) = 1 /\ Tail(batch) = <<>>
    BY <1>2
<1>3. ASSUME NEW e \in {"tun", "sock"}, NEW g \in {"tun", "sock"}, batch = <<e, g>>
      PROVE  Len(batch) = 2 /\ Tail(batch) = <<g>>
    BY <1>3
<1>4. CASE \E e \in {"tun", "sock"} : batch = <<e>>
  <2>1. Len(batch) = 1 /\ Tail(batch) = <<>>
      BY <1>2, <1>4
  <2> QED BY <2>1 DEF EndTurn, Batches, BatchInPhase
<1>5. CASE \E e, g \in {"tun", "sock"} : batch = <<e, g>>
  <2>1. PICK g \in {"tun", "sock"} : Len(batch) = 2 /\ Tail(batch) = <<g>>
      BY <1>3, <1>5
  <2>2. batch' = <<g>> /\ phase' = "events"
      BY <2>1 DEF EndTurn
  <2>3. batch' # <<>> /\ batch' \in Batches
      BY <2>2 DEF Batches
  <2> QED BY <2>2, <2>3 DEF BatchInPhase
<1> QED BY <1>1, <1>4, <1>5 DEF Batches

LEMMA TypeInit == Init => TypeInv
<1> SUFFICES ASSUME Init PROVE TypeInv
    OBVIOUS
<1>1. forward \in Seq(Segment) /\ batch \in Batches
    BY DEF Init, Batches
<1>2. send_window \in Nat /\ sent \in Nat /\ taken \in Nat /\ received \in 0 .. ServerBytes
    BY Constants DEF Init
<1>3. state \in States /\ aged \in BOOLEAN
    BY DEF Init, States
<1>4. events \subseteq {"IN", "OUT"} /\ flags \subseteq {"IN", "OUT", "ERR"}
    BY DEF Init
<1>5. BatchInPhase
    BY DEF Init, BatchInPhase
<1> QED BY <1>1, <1>2, <1>3, <1>4, <1>5, Constants DEF Init, TypeInv, TypeOK

LEMMA TypeLoop ==
  ASSUME TypeInv,
         \/ MonitorSession \/ NothingToMonitor \/ SkipCheck \/ CloseSession
         \/ KeepClosed \/ FreeSession \/ KeepSession \/ Poll \/ LoopFails
         \/ StartLoop \/ Clear \/ Connected \/ Age
  PROVE  TypeInv'
<1> USE DEF TypeInv
<1>0. <<>> \in Batches /\ <<>> \in Seq(Segment)
    BY DEF Batches
<1>1. CASE MonitorSession
  <2>1. state' \in States
      BY <1>1, ResetType DEF MonitorSession, TypeOK
  <2>2. events' \subseteq {"IN", "OUT"}
      BY <1>1 DEF MonitorSession, Interest
  <2> QED BY <1>1, <2>1, <2>2 DEF MonitorSession, TypeOK, BatchInPhase, tcp
<1>2. CASE NothingToMonitor \/ SkipCheck \/ KeepSession
    BY <1>2 DEF NothingToMonitor, SkipCheck, KeepSession, TypeOK, BatchInPhase, tcp
<1>3. CASE CloseSession
  <2>1. state' \in States
      BY <1>3 DEF CloseSession, States
  <2>2. aged' \in BOOLEAN
      BY <1>3 DEF CloseSession
  <2>3. sent' \in Nat /\ taken' \in Nat /\ received' \in 0 .. ServerBytes
      BY <1>3, Constants DEF CloseSession
  <2> QED BY <1>3, <2>1, <2>2, <2>3 DEF CloseSession, TypeOK, BatchInPhase
<1>4. CASE KeepClosed
    BY <1>4, Constants DEF KeepClosed, TypeOK, BatchInPhase
<1>5. CASE FreeSession
    BY <1>5, ForgetType DEF FreeSession, TypeOK, BatchInPhase
<1>6. CASE Poll
  <2>1. batch' \in Batches /\ flags' \subseteq {"IN", "OUT", "ERR"}
        /\ phase' = IF batch' = <<>> THEN "monitor" ELSE "events"
      BY <1>6 DEF Poll, TypeOK
  <2> QED BY <1>6, <2>1 DEF Poll, TypeOK, BatchInPhase, tcp
<1>7. CASE LoopFails
    BY <1>0, <1>7 DEF LoopFails, TypeOK, BatchInPhase, tcp
<1>8. CASE StartLoop
    BY <1>8, ResetType DEF StartLoop, TypeOK, BatchInPhase
<1>9. CASE Clear
    BY <1>0, <1>9, ForgetType DEF Clear, TypeOK, BatchInPhase
<1>10. CASE Connected
    BY <1>10 DEF Connected, TypeOK, BatchInPhase, tcp
<1>11. CASE Age
    BY <1>11 DEF Age, TypeOK, BatchInPhase, tcp
<1> QED BY <1>1, <1>2, <1>3, <1>4, <1>5, <1>6, <1>7, <1>8, <1>9, <1>10, <1>11

LEMMA TypePacket ==
  ASSUME TypeInv, NEW p \in ClientPackets, handle_tcp(p),
         UNCHANGED <<phase, batch, flags>>
  PROVE  TypeInv'
<1> USE DEF TypeInv
<1>0. p \in PacketType /\ p.seq \in U32 /\ p.ackno \in U32 /\ p.win \in Nat
      /\ Add(remote_seq, 1) \in U32 /\ <<>> \in Seq(Segment)
    BY ClientPacketType, AddInRange, Constants DEF PacketType, TypeOK
<1>1. CASE NewSession(p)
  <2>1. Entry(p) \in Segment
      BY <1>0, Constants DEF Entry, Segment, PacketType
  <2>2. forward' \in Seq(Segment)
      BY <1>0, <1>1, <2>1 DEF NewSession
  <2>3. state' \in States /\ aged' \in BOOLEAN
      BY <1>1 DEF NewSession, States
  <2>4. local_start' \in U32 /\ local_seq' \in U32 /\ remote_seq' \in U32 /\ acked' \in U32
      BY <1>0, <1>1, Constants DEF NewSession
  <2>5. send_window' \in Nat /\ sent' \in Nat /\ taken' \in Nat /\ received' \in 0 .. ServerBytes
      BY <1>0, <1>1, Constants DEF NewSession
  <2>6. events' \subseteq {"IN", "OUT"}
      BY <1>1 DEF NewSession
  <2>7. /\ socket' \in {"none", "connecting", "up"}
        /\ connect_sent' \in {"NOT_SENT", "SENT", "ESTABLISHED"}
      BY <1>1 DEF NewSession
  <2> QED BY <2>2, <2>3, <2>4, <2>5, <2>6, <2>7 DEF TypeOK, BatchInPhase
<1>2. CASE SendConnect(p)
  <2>1. forward' \in Seq(Segment)
      BY <1>0, <1>2, QueueType DEF SendConnect, TypeOK
  <2> QED BY <1>2, <2>1 DEF SendConnect, TypeOK, BatchInPhase, States
<1>3. CASE SendConnectFails(p)
  <2>1. forward' \in Seq(Segment)
      BY <1>0, <1>3, QueueType DEF SendConnectFails, TypeOK
  <2> QED BY <1>3, <2>1, ResetType DEF SendConnectFails, TypeOK, BatchInPhase
<1>4. CASE AwaitTunnel(p)
  <2>1. forward' \in Seq(Segment)
      BY <1>0, <1>4, QueueType DEF AwaitTunnel, TypeOK
  <2> QED BY <1>4, <2>1 DEF AwaitTunnel, TypeOK, BatchInPhase
<1>5. CASE RefuseData(p)
    BY <1>0, <1>5, ResetType DEF RefuseData, Receive, TypeOK, BatchInPhase
<1>6. ASSUME Accept(p), state' \in States, remote_seq' \in U32, acked' \in U32
      PROVE  TypeInv'
  <2>1. forward' \in Seq(Segment)
      BY <1>0, <1>6, QueueType DEF Accept, TypeOK
  <2> QED BY <1>0, <1>6, <2>1 DEF Accept, Receive, TypeOK, BatchInPhase
<1>7. CASE ReceiveRst(p)
    BY <1>6, <1>7 DEF ReceiveRst, TypeOK, States
<1>8. CASE RepeatedSyn(p)
    BY <1>6, <1>8 DEF RepeatedSyn, TypeOK
<1>9. CASE ReceiveFin(p)
    BY <1>0, <1>6, <1>9 DEF ReceiveFin, TypeOK, States
<1>10. CASE ReceiveAck(p)
    BY <1>0, <1>6, <1>10 DEF ReceiveAck, TypeOK, States
<1>11. CASE ReceiveOldAck(p)
    BY <1>0, <1>6, <1>11 DEF ReceiveOldAck, TypeOK
<1>12. CASE ReceiveFutureAck(p)
    BY <1>6, <1>12, ResetType DEF ReceiveFutureAck, TypeOK
<1> QED BY <1>1, <1>2, <1>3, <1>4, <1>5, <1>7, <1>8, <1>9, <1>10, <1>11, <1>12
        DEF handle_tcp

LEMMA TypeSocket ==
  ASSUME TypeInv, TunDrained \/ SocketEvent
  PROVE  TypeInv'
<1> USE DEF TypeInv
<1>0. Add(remote_seq, 1) \in U32 /\ Add(local_seq, 1) \in U32
    BY AddInRange, Constants DEF TypeOK
<1>1. ASSUME phase = "events" /\ EndTurn, flags' = {} \/ UNCHANGED flags
      PROVE  /\ batch' \in Batches /\ BatchInPhase'
             /\ phase' \in {"monitor", "check", "poll", "events", "stopped"}
             /\ flags' \subseteq {"IN", "OUT", "ERR"}
    BY <1>1, EndTurnType DEF TypeOK
<1>2. CASE TunDrained
    BY <1>1, <1>2 DEF TunDrained, Turn, TypeOK, tcp
<1>3. CASE SocketError
    BY <1>1, <1>3, ResetType DEF SocketError, SocketTurn, Turn, TypeOK
<1>4. CASE TunnelOpened
    BY <1>1, <1>4 DEF TunnelOpened, SocketTurn, Turn, TypeOK, States, tcp
<1>5. CASE TunnelRefused
    BY <1>1, <1>5, ResetType DEF TunnelRefused, SocketTurn, Turn, TypeOK
<1>6. CASE SendSynAck
    BY <1>0, <1>1, <1>6 DEF SendSynAck, SocketTurn, Turn, TypeOK, States
<1>7. CASE ForwardAndRead
  <2>0. PICK f \in IF "OUT" \in flags THEN ForwardOutcomes ELSE {NoForward},
             opened \in BOOLEAN, ok \in BOOLEAN :
          LET fwd == f.whole > 0 \/ f.part > 0
              acking == fwd \/ opened
              confirm == fwd /\ forward' = <<>> /\ state = "CLOSE_WAIT"
              st == IF acking THEN Written(ok, state) ELSE state
          IN /\ forward' = Forwarded(f)
             /\ sent' = sent + Cardinality(ForwardedBytes(f, 1 .. f.whole))
             /\ taken' = taken + Cardinality(ForwardedBytes(f, (1 .. f.whole) \ f.refused))
             /\ remote_seq' = IF confirm THEN Add(ForwardedSeq(f), 1) ELSE ForwardedSeq(f)
             /\ aged' = (aged /\ ~(acking /\ ok) /\ ~Readable(st))
             /\ \/ ReadNothing(st)
                \/ Readable(st) /\ (ReadData(st) \/ ReadEof(st))
      BY <1>7 DEF ForwardAndRead
  <2>1. f \in ForwardOutcomes
      BY NoForwardIsOutcome
  <2> DEFINE st == IF (f.whole > 0 \/ f.part > 0) \/ opened
                   THEN Written(ok, state) ELSE state
  <2>2. /\ forward' \in Seq(Segment)
        /\ sent' \in Nat /\ taken' \in Nat
        /\ ForwardedSeq(f) \in U32
      BY <2>0, <2>1, ForwardType DEF TypeOK
  <2>3. remote_seq' \in U32
      BY <2>0, <2>2, AddInRange, Constants
  <2>4. aged' \in BOOLEAN
      BY <2>0 DEF TypeOK
  <2>5. st \in States
      BY ResetType DEF TypeOK
  <2>6. ReadNothing(st) \/ ReadData(st) \/ ReadEof(st)
      BY <2>0
  <2> HIDE DEF st
  <2>7. /\ state' \in States /\ socket' \in {"none", "connecting", "up"}
        /\ local_seq' \in U32 /\ received' \in 0 .. ServerBytes
    <3>1. CASE ReadNothing(st)
        BY <2>5, <3>1 DEF ReadNothing, TypeOK, States
    <3>2. CASE ReadData(st)
      <4>1. PICK n \in 1 .. ServerBytes, written \in BOOLEAN :
              /\ received' = received + n /\ received + n <= ServerBytes
              /\ local_seq' = IF written THEN Add(local_seq, n) ELSE local_seq
              /\ state' = Written(written, st)
          BY <3>2 DEF ReadData
      <4>2. n \in U32 /\ received' \in 0 .. ServerBytes
          BY <4>1, Constants DEF U32, TypeOK
      <4>3. local_seq' \in U32
          BY <4>1, <4>2, AddInRange DEF TypeOK
      <4> QED BY <2>5, <3>2, <4>1, <4>2, <4>3, ResetType DEF ReadData, TypeOK
    <3>3. CASE ReadEof(st)
        BY <1>0, <3>3 DEF ReadEof, TypeOK, States
    <3> QED BY <2>6, <3>1, <3>2, <3>3
  <2> QED BY <1>1, <1>7, <2>2, <2>3, <2>4, <2>7
          DEF ForwardAndRead, SocketTurn, Turn, TypeOK
<1> QED BY <1>2, <1>3, <1>4, <1>5, <1>6, <1>7 DEF SocketEvent

LEMMA TypeStutter == TypeInv /\ UNCHANGED vars => TypeInv'
  BY DEF TypeInv, TypeOK, BatchInPhase, vars, tcp

LEMMA TypeNext == TypeInv /\ [Next]_vars => TypeInv'
<1> SUFFICES ASSUME TypeInv, Next PROVE TypeInv'
    BY TypeStutter
<1>1. CASE ClientPacket
    BY <1>1, TypePacket DEF ClientPacket
<1>2. CASE ~ClientPacket
    BY <1>2, TypeLoop, TypeSocket DEF Next, Loop
<1> QED BY <1>1, <1>2

(* Every variable always has its type: in particular the sequence numbers  *)
(* stay 32-bit numbers in all of the arithmetic of tcp.c, and no more than *)
(* the server's stream is ever read.                                       *)
THEOREM TypeCorrect == Spec => []TypeOK
<1>1. TypeInv => TypeOK
    BY DEF TypeInv
<1> QED BY <1>1, TypeInit, TypeNext, PTL DEF Spec

-----------------------------------------------------------------------------
(* The socket.  SocketAgreesWithState needs EventHasSession: a handler of  *)
(* the session's event may count on its socket.  That needs the events to  *)
(* be handled before the next pass closes sessions (BatchInPhase).         *)
(* FinAfterForward needs both, and that a tunnel is open by the time of a  *)
(* FIN: before that every packet of the client is queued.                  *)

SocketEventPending == \E i \in DOMAIN batch : batch[i] = "sock"

(* A batch holds the session's event at most once. *)
LEMMA OneEvent ==
  ASSUME TypeInv, phase = "events", EndTurn
  PROVE  /\ Head(batch) = "sock" => SocketEventPending /\ ~SocketEventPending'
         /\ SocketEventPending' => SocketEventPending
<1>1. batch \in Batches /\ batch # <<>> /\ batch' = Tail(batch)
    BY DEF TypeInv, TypeOK, BatchInPhase, EndTurn
<1>2. CASE batch \in {<<"tun">>, <<"sock">>}
  <2>0. ASSUME NEW e \in {"tun", "sock"}, batch = <<e>>
        PROVE  1 \in DOMAIN batch /\ batch[1] = Head(batch) /\ Tail(batch) = <<>>
      BY <2>0
  <2>1. 1 \in DOMAIN batch /\ batch[1] = Head(batch) /\ Tail(batch) = <<>>
      BY <1>2, <2>0
  <2>2. ~SocketEventPending'
      BY <1>1, <2>1 DEF SocketEventPending
  <2> QED BY <2>1, <2>2 DEF SocketEventPending
<1>3. CASE batch = <<"tun", "sock">>
  <2>1. Head(batch) = "tun" /\ 2 \in DOMAIN batch /\ batch[2] = "sock"
      BY <1>3
  <2> QED BY <2>1 DEF SocketEventPending
<1>4. CASE batch = <<"sock", "tun">>
  <2>1. 1 \in DOMAIN batch /\ batch[1] = "sock" /\ Tail(batch) = <<"tun">>
      BY <1>4
  <2>2. ~SocketEventPending'
    <3>1. ASSUME NEW i \in DOMAIN <<"tun">> PROVE <<"tun">>[i] = "tun"
        BY <3>1
    <3> QED BY <1>1, <2>1, <3>1 DEF SocketEventPending
  <2> QED BY <2>1, <2>2 DEF SocketEventPending
<1> QED BY <1>1, <1>2, <1>3, <1>4 DEF Batches

SocketInv ==
  /\ NoDataBeforeTunnel /\ SocketAgreesWithState
  /\ EventHasSession /\ FinAfterForward

LEMMA SocketInit == Init => SocketInv
  BY DEF Init, SocketInv, NoDataBeforeTunnel, SocketAgreesWithState, EventHasSession,
         FinAfterForward

(* The parts of the invariant other than EventHasSession speak of the      *)
(* session alone.                                                          *)
LEMMA SocketLoop ==
  ASSUME TypeInv, SocketInv,
         \/ MonitorSession \/ NothingToMonitor \/ SkipCheck \/ CloseSession
         \/ KeepClosed \/ FreeSession \/ KeepSession \/ Poll \/ LoopFails
         \/ StartLoop \/ Clear \/ Connected \/ Age
  PROVE  SocketInv'
<1> USE DEF SocketInv, NoDataBeforeTunnel, SocketAgreesWithState, FinAfterForward, PreTunnel
<1>1. CASE MonitorSession
    BY <1>1 DEF MonitorSession, Written, EventHasSession, tcp
<1>2. CASE NothingToMonitor \/ SkipCheck \/ KeepSession \/ KeepClosed \/ Age
    BY <1>2 DEF NothingToMonitor, SkipCheck, KeepSession, KeepClosed, Age,
                EventHasSession, tcp
<1>3. CASE CloseSession
  <2>1. batch' = <<>>
      BY <1>3 DEF CloseSession, TypeInv, BatchInPhase
  <2>2. EventHasSession'
      BY <2>1 DEF EventHasSession
  <2> QED BY <1>3, <2>2 DEF CloseSession
<1>4. CASE FreeSession
  <2>1. batch' = <<>>
      BY <1>4 DEF FreeSession, TypeInv, BatchInPhase
  <2>2. EventHasSession'
      BY <2>1 DEF EventHasSession
  <2> QED BY <1>4, <2>2 DEF FreeSession, Forget
<1>5. CASE Poll
  <2>1. PICK ready \in SUBSET (events \cup {"ERR"}), b \in Batches :
          /\ socket = "none" => ready = {}
          /\ Contains(b, "sock") <=> ready # {}
          /\ batch' = b /\ flags' = ready
      BY <1>5 DEF Poll
  <2>2. EventHasSession'
    <3>1. b \in Seq({"tun", "sock"})
      <4> DEFINE S == Seq({"tun", "sock"})
      <4>1. <<>> \in S /\ <<"tun">> \in S /\ <<"sock">> \in S
          OBVIOUS
      <4>2. <<"tun", "sock">> \in S /\ <<"sock", "tun">> \in S
          OBVIOUS
      <4> HIDE DEF S
      <4>3. b \in S
          BY <2>1, <4>1, <4>2 DEF Batches
      <4> QED BY <4>3 DEF S
    <3>2. (\E i \in DOMAIN b : b[i] = "sock") <=> Contains(b, "sock")
        BY <3>1 DEF Contains
    <3> QED BY <1>5, <2>1, <3>2 DEF Poll, EventHasSession
  <2> QED BY <1>5, <2>2 DEF Poll, tcp
<1>6. CASE LoopFails
    BY <1>6 DEF LoopFails, EventHasSession, tcp
<1>7. CASE StartLoop
    BY <1>7 DEF StartLoop, EventHasSession, Reset, Open
<1>8. CASE Clear
    BY <1>8 DEF Clear, Forget, EventHasSession
<1>9. CASE Connected
    BY <1>9 DEF Connected, EventHasSession, tcp
<1> QED BY <1>1, <1>2, <1>3, <1>4, <1>5, <1>6, <1>7, <1>8, <1>9

LEMMA SocketPacket ==
  ASSUME TypeInv, SocketInv, NEW p \in ClientPackets, handle_tcp(p),
         UNCHANGED <<phase, batch, flags>>
  PROVE  SocketInv'
<1> USE DEF SocketInv, NoDataBeforeTunnel, SocketAgreesWithState, FinAfterForward, PreTunnel
<1>1. CASE NewSession(p)
  <2>1. EventHasSession'
      BY <1>1 DEF NewSession, EventHasSession
  <2> QED BY <1>1, <2>1 DEF NewSession
<1>2. CASE SendConnect(p)
    BY <1>2 DEF SendConnect, EventHasSession
<1>3. CASE SendConnectFails(p)
    BY <1>3 DEF SendConnectFails, BeforeTunnel, Reset, EventHasSession
<1>4. CASE AwaitTunnel(p)
    BY <1>4 DEF AwaitTunnel, BeforeTunnel, EventHasSession
<1>5. CASE RefuseData(p)
    BY <1>5 DEF RefuseData, Receive, Reset, EventHasSession
(* Without socket nothing is queued, so that only the state matters.       *)
<1>6. ASSUME Accept(p),
             \/ state' = state
             \/ state' \in {"CLOSING", "CLOSE"} /\ (state' = "CLOSE" => state = "FIN_WAIT1")
             \/ state = "SYN_RECV" /\ state' = "ESTABLISHED"
             \/ state = "ESTABLISHED" /\ state' = "CLOSE_WAIT"
      PROVE  SocketInv'
  <2>1. EventHasSession'
      BY <1>6 DEF Accept, Receive, EventHasSession
  <2>2. socket' = socket /\ (socket = "none" => forward' = forward)
      BY <1>6 DEF Accept, Refused, Receive
  <2> QED BY <1>6, <2>1, <2>2 DEF Accept, Receive
<1>7. CASE ReceiveRst(p) \/ RepeatedSyn(p) \/ ReceiveOldAck(p)
    BY <1>6, <1>7 DEF ReceiveRst, RepeatedSyn, ReceiveOldAck
<1>8. CASE ReceiveFin(p)
    BY <1>6, <1>8 DEF ReceiveFin
<1>9. CASE ReceiveAck(p)
    BY <1>6, <1>9 DEF ReceiveAck
<1>10. CASE ReceiveFutureAck(p)
  <2>1. state \in Open
      BY <1>10 DEF ReceiveFutureAck, Accept, Receive
  <2> QED BY <1>6, <1>10, <2>1 DEF ReceiveFutureAck, Reset, Open
<1> QED BY <1>1, <1>2, <1>3, <1>4, <1>5, <1>7, <1>8, <1>9, <1>10 DEF handle_tcp

LEMMA SocketOwnEvent ==
  ASSUME TypeInv, SocketInv, TunDrained \/ SocketEvent
  PROVE  SocketInv'
<1> USE DEF SocketInv, NoDataBeforeTunnel, SocketAgreesWithState, FinAfterForward, PreTunnel
<1>1. CASE TunDrained
    BY <1>1, OneEvent DEF TunDrained, Turn, EventHasSession, SocketEventPending, tcp
<1>2. ASSUME SocketTurn PROVE EventHasSession' /\ socket # "none"
    BY <1>2, OneEvent DEF SocketTurn, Turn, EventHasSession, SocketEventPending
<1>3. CASE SocketError
    BY <1>2, <1>3 DEF SocketError, Reset
<1>4. CASE TunnelOpened
    BY <1>2, <1>4 DEF TunnelOpened, tcp
<1>5. CASE TunnelRefused
    BY <1>2, <1>5 DEF TunnelRefused, Reset
<1>6. CASE SendSynAck
    BY <1>2, <1>6 DEF SendSynAck
<1>7. CASE ForwardAndRead
  <2>1. PICK f \in ForwardOutcomes, opened \in BOOLEAN, ok \in BOOLEAN :
          LET fwd == f.whole > 0 \/ f.part > 0
              acking == fwd \/ opened
              st == IF acking THEN Written(ok, state) ELSE state
          IN \/ ReadNothing(st)
             \/ Readable(st) /\ (ReadData(st) \/ ReadEof(st))
      BY <1>7, NoForwardIsOutcome DEF ForwardAndRead, TypeInv
  <2> DEFINE st == IF (f.whole > 0 \/ f.part > 0) \/ opened
                   THEN Written(ok, state) ELSE state
  <2>2. /\ EventHasSession' /\ socket # "none"
        /\ state \in {"SYN_RECV", "ESTABLISHED", "CLOSE_WAIT", "CLOSING"}
        /\ connect_sent' = connect_sent
      BY <1>2, <1>7 DEF ForwardAndRead, TypeInv, TypeOK, States
  <2>3. st \in {state, "CLOSING"}
      BY <2>2 DEF Reset, Written
  <2>4. ReadNothing(st) \/ (Readable(st) /\ (ReadData(st) \/ ReadEof(st)))
      BY <2>1
  <2> HIDE DEF st
  <2>5. CASE ReadNothing(st)
      BY <2>2, <2>3, <2>5 DEF ReadNothing
  <2>6. CASE Readable(st) /\ ReadData(st)
      BY <2>2, <2>3, <2>6 DEF Readable, ReadData, Written
  <2>7. CASE Readable(st) /\ ReadEof(st)
    <3>1. state \in {"ESTABLISHED", "CLOSE_WAIT"}
        BY <2>3, <2>7 DEF Readable
    <3> QED BY <2>2, <2>7, <3>1 DEF ReadEof
  <2> QED BY <2>4, <2>5, <2>6, <2>7
<1> QED BY <1>1, <1>3, <1>4, <1>5, <1>6, <1>7 DEF SocketEvent

LEMMA InductiveInit == Init => IInv
  BY TypeInit, SocketInit DEF IInv, TypeInv, SocketInv

LEMMA InductiveNext == IInv /\ [Next]_vars => IInv'
<1> SUFFICES ASSUME TypeInv, SocketInv, [Next]_vars PROVE TypeInv' /\ SocketInv'
    BY DEF IInv, TypeInv, SocketInv
<1>1. CASE ClientPacket
    BY <1>1, TypeNext, SocketPacket DEF ClientPacket
<1>2. CASE UNCHANGED vars
    BY <1>2, TypeNext DEF SocketInv, NoDataBeforeTunnel, SocketAgreesWithState,
       EventHasSession, FinAfterForward, PreTunnel, vars, tcp
<1>3. CASE Next /\ ~ClientPacket
    BY <1>3, TypeNext, SocketLoop, SocketOwnEvent DEF Next, Loop
<1> QED BY <1>1, <1>2, <1>3

LEMMA Inductive == Spec => []IInv
  BY InductiveInit, InductiveNext, PTL DEF Spec

(* A session in a state that uses its socket has one, and one that gave    *)
(* its socket up is in a state that does not.                              *)
THEOREM SocketCorrect == Spec => []SocketAgreesWithState
<1>1. IInv => SocketAgreesWithState
    BY DEF IInv
<1> QED BY <1>1, Inductive, PTL

(* The session of an event in the batch is there, with its socket, when    *)
(* the event is handled: s in ev->data.ptr is not dangling.                *)
THEOREM EventCorrect == Spec => []EventHasSession
<1>1. IInv => EventHasSession
    BY DEF IInv
<1> QED BY <1>1, Inductive, PTL

(* No byte is left in the queue behind the FIN we write to the client.     *)
THEOREM FinCorrect == Spec => []FinAfterForward
<1>1. IInv => FinAfterForward
    BY DEF IInv
<1> QED BY <1>1, Inductive, PTL

(* A session given up is closed, whatever packets and events still arrive. *)
THEOREM ClosedCorrect == Spec => ClosedForGood
<1> DEFINE Given == /\ state = "CLOSE" => state' \in {"CLOSE", "NONE"}
                    /\ state = "CLOSING" =>
                         \/ state' \in {"CLOSING", "CLOSE", "NONE"}
                         \/ connect_sent = "NOT_SENT" /\ connect_sent' = "SENT"
<1>1. IInv /\ [Next]_vars => [Given]_vars
  <2> SUFFICES ASSUME IInv, Next PROVE Given
      OBVIOUS
  <2>1. CASE ClientPacket
    <3>1. PICK p \in ClientPackets : handle_tcp(p)
        BY <2>1 DEF ClientPacket
    <3>2. CASE NewSession(p)
        BY <3>2 DEF NewSession
    <3>3. CASE SendConnect(p)
      <4>1. socket = "up" /\ state # "CLOSE"
          BY <3>3 DEF SendConnect, IInv, SocketAgreesWithState
      <4> QED BY <3>3, <4>1 DEF SendConnect
    <3>4. CASE SendConnectFails(p) \/ AwaitTunnel(p)
        BY <3>4 DEF SendConnectFails, AwaitTunnel, Reset
    <3>5. CASE Receive(p)
        BY <3>5 DEF Receive, Open
    <3> QED BY <3>1, <3>2, <3>3, <3>4, <3>5
            DEF handle_tcp, RefuseData, Accept, ReceiveRst, RepeatedSyn, ReceiveFin,
                ReceiveAck, ReceiveOldAck, ReceiveFutureAck
  <2>2. CASE SocketEvent
    <3>1. SocketTurn => state # "CLOSE"
      <4>1. SocketTurn => socket # "none"
          BY OneEvent DEF SocketTurn, Turn, IInv, TypeInv, EventHasSession,
             SocketEventPending
      <4> QED BY <4>1 DEF IInv, SocketAgreesWithState
    <3>2. CASE SocketError \/ TunnelOpened \/ TunnelRefused \/ SendSynAck
        BY <3>1, <3>2 DEF SocketError, TunnelOpened, TunnelRefused, SendSynAck, Reset
    <3>3. CASE ForwardAndRead
      <4>1. SUFFICES ASSUME state = "CLOSING" PROVE state' = "CLOSING"
          BY <3>1, <3>3 DEF ForwardAndRead
      <4>2. PICK st \in {"CLOSING"} :
              ReadNothing(st) \/ (Readable(st) /\ (ReadData(st) \/ ReadEof(st)))
        <5>1. \A ok \in BOOLEAN : Written(ok, state) = "CLOSING"
            BY <4>1 DEF Written
        <5> QED BY <3>3, <4>1, <5>1, NoForwardIsOutcome DEF ForwardAndRead, IInv
      <4> QED BY <4>2 DEF ReadNothing, Readable
    <3> QED BY <2>2, <3>2, <3>3 DEF SocketEvent
  <2>3. CASE MonitorSession \/ StartLoop
      BY <2>3 DEF MonitorSession, StartLoop, Written, Open, IInv, SocketAgreesWithState
  <2>4. CASE CloseSession \/ FreeSession \/ Clear
      BY <2>4 DEF CloseSession, FreeSession, Clear, Forget
  <2>5. CASE ~ClientPacket /\ ~SocketEvent /\ UNCHANGED state
      BY <2>5
  <2> QED BY <2>1, <2>2, <2>3, <2>4, <2>5
          DEF Next, Loop, NothingToMonitor, SkipCheck, KeepClosed, KeepSession, Poll,
              LoopFails, TunDrained, Connected, Age
<1> QED BY <1>1, Inductive, PTL DEF Spec, ClosedForGood

-----------------------------------------------------------------------------
(* TcpSession implements TcpLifecycle: seen through Life, whether it has a *)
(* socket and phase, every step of a session is a step of the life the     *)
(* event loop of session.c relies on, or a stutter.  Each lemma takes the  *)
(* actions of TcpSession that map to one action of TcpLifecycle.           *)

(* Life, written as what each state means. *)
LEMMA LifeOfState ==
  ASSUME TypeOK
  PROVE  /\ state = "NONE" <=> Life = "none"
         /\ state \in Open <=> Life = "active"
         /\ state = "CLOSING" <=> Life = "finishing"
         /\ state = "CLOSE" <=> Life = "closed"
  BY DEF TypeOK, States, Life, Open

LEMMA LifeOfNextState ==
  ASSUME TypeOK'
  PROVE  /\ state' = "NONE" <=> Life' = "none"
         /\ state' \in Open <=> Life' = "active"
         /\ state' = "CLOSING" <=> Life' = "finishing"
         /\ state' = "CLOSE" <=> Life' = "closed"
  BY DEF TypeOK, States, Life, Open

Up == socket # "none"

(* A step that leaves the state and the socket leaves the life. *)
LEMMA SameLife == UNCHANGED <<state, socket>> => UNCHANGED <<Life, Up>>
  BY DEF Life, Up, Open

LEMMA InitMaps == Init => Lifecycle!Init
<1> SUFFICES ASSUME Init PROVE Lifecycle!Init
    OBVIOUS
<1>1. Life = "none"
    BY InductiveInit, LifeOfState DEF Init, IInv
<1>2. (socket # "none") = FALSE /\ phase = "monitor"
    BY DEF Init
<1> QED BY <1>1, <1>2 DEF Lifecycle!Init

-----------------------------------------------------------------------------
(* The passes of the loop. *)

LEMMA MonitorMaps ==
  ASSUME TypeOK, TypeOK', SocketAgreesWithState, MonitorSession \/ NothingToMonitor
  PROVE  Lifecycle!Monitor
<1>1. /\ phase = "monitor" /\ phase' = "check" /\ UNCHANGED Up
      /\ \/ state' = state
         \/ Up /\ state' = "CLOSING"
    BY DEF MonitorSession, NothingToMonitor, Written, Up
<1>2. CASE state' = state
    BY <1>1, <1>2, LifeOfState, LifeOfNextState, SameLife
       DEF Lifecycle!Monitor, Lifecycle!MonitorSteps, Up, Life
<1>3. CASE Up /\ state' = "CLOSING"
  <2>1. state \in Open \cup {"CLOSING"}
      BY <1>3 DEF SocketAgreesWithState, TypeOK, States, Open, Up
  <2>2. Life' = "finishing" /\ Life \in {"active", "finishing"}
      BY <1>3, <2>1, LifeOfState, LifeOfNextState
  <2> QED BY <1>1, <1>3, <2>2 DEF Lifecycle!Monitor, Lifecycle!MonitorSteps, Up
<1> QED BY <1>1, <1>2, <1>3

LEMMA CheckMaps ==
  ASSUME TypeOK, TypeOK', SocketAgreesWithState,
         SkipCheck \/ CloseSession \/ KeepClosed \/ FreeSession \/ KeepSession
  PROVE  Lifecycle!Check
<1>1. phase = "check" /\ phase' = "poll"
    BY DEF SkipCheck, CloseSession, KeepClosed, FreeSession, KeepSession
<1>2. CASE SkipCheck \/ KeepClosed \/ KeepSession
  <2>1. UNCHANGED <<Life, Up>>
      BY <1>2, SameLife DEF SkipCheck, KeepClosed, KeepSession
  <2> QED BY <1>1, <2>1 DEF Lifecycle!Check, Up
<1>3. CASE CloseSession
  <2>1. /\ Life = "finishing" \/ (Life = "active" /\ aged)
        /\ Life' = "closed" /\ Up' = FALSE
      BY <1>3, LifeOfState, LifeOfNextState DEF CloseSession, Up
  <2>2. <<Life', Up'>> = Lifecycle!CheckStep(Life, Up, TRUE, FALSE)
      BY <2>1 DEF Lifecycle!CheckStep
  <2> QED BY <1>1, <2>2 DEF Lifecycle!Check, Up
<1>4. CASE FreeSession
  <2>1. Life = "closed" /\ Life' = "none" /\ Up' = FALSE
      BY <1>4, LifeOfState, LifeOfNextState
         DEF FreeSession, Forget, SocketAgreesWithState, Up
  <2>2. <<Life', Up'>> = Lifecycle!CheckStep(Life, Up, FALSE, TRUE)
      BY <2>1 DEF Lifecycle!CheckStep
  <2> QED BY <1>1, <2>2 DEF Lifecycle!Check, Up
<1> QED BY <1>2, <1>3, <1>4

LEMMA PollMaps == Poll => Lifecycle!Poll
<1> SUFFICES ASSUME Poll PROVE Lifecycle!Poll
    OBVIOUS
<1>1. phase = "poll" /\ phase' \in {"monitor", "events"} /\ UNCHANGED <<state, socket>>
    BY DEF Poll
<1> QED BY <1>1, SameLife DEF Lifecycle!Poll, Up

(* The end of a thread and the start of the next. *)
LEMMA ThreadMaps ==
  ASSUME TypeOK, TypeOK', SocketAgreesWithState
  PROVE  /\ LoopFails => Lifecycle!Stop
         /\ StartLoop => Lifecycle!Start
         /\ Clear => Lifecycle!Clear
<1>1. LoopFails => Lifecycle!Stop
    BY SameLife DEF LoopFails, Lifecycle!Stop, Up
<1>2. ASSUME StartLoop PROVE Lifecycle!Start
  <2>1. phase = "stopped" /\ phase' = "monitor" /\ UNCHANGED Up
      BY <1>2 DEF StartLoop, Up
  <2>2. CASE state \in Open
    <3>1. Life = "active" /\ Life' = "finishing"
        BY <1>2, <2>2, LifeOfState, LifeOfNextState DEF StartLoop, Reset, Open
    <3> QED BY <2>1, <3>1 DEF Lifecycle!Start, Lifecycle!AllowedStep, Up
  <2>3. CASE state \notin Open
    <3>1. Life # "active" /\ UNCHANGED Life
        BY <1>2, <2>1, <2>3, LifeOfState, SameLife DEF StartLoop
    <3> QED BY <2>1, <3>1 DEF Lifecycle!Start, Lifecycle!AllowedStep, Up
  <2> QED BY <2>2, <2>3
<1>3. ASSUME Clear PROVE Lifecycle!Clear
  <2>1. Life' = "none" /\ Up' = FALSE
      BY <1>3, LifeOfNextState DEF Clear, Forget, Up
  <2> QED BY <1>3, <2>1 DEF Clear, Lifecycle!Clear, Up
<1> QED BY <1>1, <1>2, <1>3

-----------------------------------------------------------------------------
(* Packets.  A new session is opened; for one that is there, CONNECT needs *)
(* a socket, and no state but FIN_WAIT1, without one, goes to CLOSE.       *)
LEMMA PacketMaps ==
  ASSUME TypeOK, TypeOK', SocketAgreesWithState, ClientPacket
  PROVE  Lifecycle!Open \/ Lifecycle!Packet
<1>1. phase = "events" /\ UNCHANGED phase
    BY DEF ClientPacket, Turn
<1>2. PICK p \in ClientPackets : handle_tcp(p)
    BY DEF ClientPacket
<1>3. CASE NewSession(p)
  <2>1. Life = "none" /\ Life' = "active" /\ Up' = TRUE
      BY <1>3, LifeOfState, LifeOfNextState DEF NewSession, Open, Up
  <2> QED BY <1>1, <2>1 DEF Lifecycle!Open, Up
<1>4. ASSUME Life # "none", UNCHANGED Up,
             \/ UNCHANGED Life
             \/ Life = "active" /\ Life' = "finishing"
             \/ Life = "active" /\ ~Up /\ Life' = "closed"
             \/ Life = "finishing" /\ Up /\ Life' = "active"
      PROVE  Lifecycle!Packet
    BY <1>1, <1>4 DEF Lifecycle!Packet, Lifecycle!PacketSteps, Up
<1>5. CASE SendConnect(p)
  <2>1. /\ Life # "none" /\ Up /\ UNCHANGED Up /\ Life' = "active"
        /\ state \in Open \cup {"CLOSING"}
      BY <1>5, LifeOfState, LifeOfNextState
         DEF SendConnect, BeforeTunnel, SocketAgreesWithState, TypeOK, States, Open, Up
  <2> QED BY <1>4, <2>1, LifeOfState
<1>6. CASE SendConnectFails(p)
  <2>1. Life # "none" /\ UNCHANGED Up
      BY <1>6, LifeOfState DEF SendConnectFails, BeforeTunnel, Up
  <2>2. UNCHANGED state \/ (state \in Open /\ state' = "CLOSING")
      BY <1>6 DEF SendConnectFails, BeforeTunnel, Reset, TypeOK, States, Open
  <2> QED BY <1>4, <2>1, <2>2, LifeOfState, LifeOfNextState DEF Life
<1>7. CASE AwaitTunnel(p)
  <2>1. Life # "none" /\ UNCHANGED <<Life, Up>>
      BY <1>7, LifeOfState, SameLife DEF AwaitTunnel, BeforeTunnel
  <2> QED BY <1>4, <2>1
<1>8. ASSUME Receive(p),
             \/ state' \in Open \cup {"CLOSING"}
             \/ state = "FIN_WAIT1" /\ state' = "CLOSE"
      PROVE  Lifecycle!Packet
  <2>1. Life = "active" /\ UNCHANGED Up
      BY <1>8, LifeOfState DEF Receive, Up
  <2>2. state = "FIN_WAIT1" => ~Up
      BY DEF SocketAgreesWithState, Up
  <2> QED BY <1>4, <1>8, <2>1, <2>2, LifeOfNextState
<1>9. CASE RefuseData(p) \/ ReceiveFutureAck(p)
  <2>1. Receive(p) /\ state' = "CLOSING"
      BY <1>9 DEF RefuseData, ReceiveFutureAck, Accept, Receive, Reset, Open
  <2> QED BY <1>8, <2>1
<1>10. CASE ReceiveRst(p) \/ RepeatedSyn(p) \/ ReceiveOldAck(p)
  <2>1. Receive(p) /\ state' \in {state, "CLOSING"}
      BY <1>10 DEF ReceiveRst, RepeatedSyn, ReceiveOldAck, Accept
  <2> QED BY <1>8, <2>1 DEF Receive
<1>11. CASE ReceiveFin(p)
    BY <1>8, <1>11 DEF ReceiveFin, Accept, Receive, Open
<1>12. CASE ReceiveAck(p)
    BY <1>8, <1>12 DEF ReceiveAck, Accept, Receive, Open
<1> QED BY <1>2, <1>3, <1>5, <1>6, <1>7, <1>9, <1>10, <1>11, <1>12 DEF handle_tcp

-----------------------------------------------------------------------------
(* Events.  A handler of the session's event runs with a socket, so that   *)
(* the session is active or finishing; the server's EOF, which closes the  *)
(* socket, is read from an active one only.                                *)
LEMMA EventMaps ==
  ASSUME IInv, TypeOK', TunDrained \/ SocketEvent
  PROVE  Lifecycle!Event
<1>1. phase = "events" /\ phase' \in {"events", "monitor"}
    BY DEF TunDrained, SocketEvent, SocketError, TunnelOpened, TunnelRefused,
           SendSynAck, ForwardAndRead, SocketTurn, Turn, EndTurn
<1>2. TypeInv /\ TypeOK
    BY DEF IInv, TypeInv
<1>3. CASE TunDrained
  <2>1. UNCHANGED <<Life, Up>>
      BY <1>3, SameLife DEF TunDrained
  <2> QED BY <1>1, <2>1 DEF Lifecycle!Event, Lifecycle!EventSteps, Up
<1>4. ASSUME SocketTurn
      PROVE  Up /\ state \in {"LISTEN", "SYN_RECV", "ESTABLISHED", "CLOSE_WAIT", "CLOSING"}
  <2>1. Up
      BY <1>2, <1>4, OneEvent
         DEF SocketTurn, Turn, IInv, EventHasSession, SocketEventPending, Up
  <2> QED BY <1>2, <2>1 DEF IInv, SocketAgreesWithState, TypeOK, States, Up
<1>5. ASSUME SocketTurn,
             \/ state \in Open /\ state' \in Open \cup {"CLOSING"}
             \/ state = "CLOSING" /\ state' = "CLOSING" /\ UNCHANGED socket
      PROVE  Lifecycle!Event
  <2>1. Up /\ Up' \in BOOLEAN
      BY <1>4, <1>5 DEF Up
  <2>2. \/ Life = "active" /\ Life' \in {"active", "finishing"}
        \/ Life = "finishing" /\ Life' = "finishing" /\ UNCHANGED Up
      BY <1>2, <1>5, LifeOfState, LifeOfNextState DEF Up
  <2> QED BY <1>1, <2>1, <2>2 DEF Lifecycle!Event, Lifecycle!EventSteps, Up
<1>6. CASE SocketError \/ TunnelRefused
    BY <1>4, <1>5, <1>6 DEF SocketError, TunnelRefused, Reset, Open
<1>7. CASE TunnelOpened \/ SendSynAck
    BY <1>5, <1>7 DEF TunnelOpened, SendSynAck, Open
<1>8. CASE ForwardAndRead
  <2>1. SocketTurn /\ state \in {"SYN_RECV", "ESTABLISHED", "CLOSE_WAIT", "CLOSING"}
      BY <1>4, <1>8 DEF ForwardAndRead
  <2>2. PICK st \in {state, "CLOSING"} :
          ReadNothing(st) \/ (Readable(st) /\ (ReadData(st) \/ ReadEof(st)))
    <3>1. \A ok \in BOOLEAN : Written(ok, state) \in {state, "CLOSING"}
        BY DEF Written
    <3> QED BY <1>8, <3>1 DEF ForwardAndRead
  <2>3. CASE ReadNothing(st)
      BY <1>5, <2>1, <2>2, <2>3 DEF ReadNothing, Open
  <2>4. CASE Readable(st) /\ (ReadData(st) \/ ReadEof(st))
    <3>1. state = st /\ state \in {"ESTABLISHED", "CLOSE_WAIT"}
        BY <2>2, <2>4 DEF Readable
    <3> QED BY <1>5, <2>1, <2>4, <3>1 DEF ReadData, ReadEof, Written, Open
  <2> QED BY <2>2, <2>3, <2>4
<1> QED BY <1>3, <1>6, <1>7, <1>8 DEF SocketEvent

-----------------------------------------------------------------------------
LEMMA StepMaps ==
  ASSUME IInv, IInv', [Next]_vars
  PROVE  [Lifecycle!Next]_(Lifecycle!vars)
<1> USE DEF IInv
<1>1. CASE Connected \/ Age \/ UNCHANGED vars
  <2>1. UNCHANGED <<Life, Up, phase>>
      BY <1>1, SameLife DEF Connected, Age, Life, Open, vars, Up
  <2> QED BY <2>1 DEF Lifecycle!vars, Up
<1>2. CASE ClientPacket
    BY <1>2, PacketMaps DEF Lifecycle!Next
<1>3. CASE Loop
    BY <1>3, MonitorMaps, CheckMaps, PollMaps, ThreadMaps, EventMaps
       DEF Loop, Lifecycle!Next
<1> QED BY <1>1, <1>2, <1>3 DEF Next

(* The session does what the event loop expects of one and nothing else,   *)
(* for every port, stream, window and initial sequence number: what        *)
(* SessionTable assumes of its TCP sessions holds of handle_tcp,           *)
(* check_tcp_socket, monitor_tcp_session and check_tcp_session.            *)
THEOREM LifecycleImplemented == Spec => ImplementsLifecycle
<1>1. IInv /\ IInv' /\ [Next]_vars => [Lifecycle!Next]_(Lifecycle!vars)
    BY StepMaps
<1> QED BY <1>1, InitMaps, Inductive, PTL DEF Spec, ImplementsLifecycle, Lifecycle!Spec

=============================================================================
