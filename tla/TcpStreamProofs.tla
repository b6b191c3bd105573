--------------------------- MODULE TcpStreamProofs ---------------------------
(***************************************************************************)
(* The two streams of a TCP session, for every port, stream, window and    *)
(* initial number: the sequence numbers count every byte once, the queue   *)
(* stays in order, the numbers never go back, and the client's window is   *)
(* kept.                                                                   *)
(***************************************************************************)
EXTENDS TcpSessionProofs, FunctionTheorems

(* Where a number stands in the client's stream: its SYN is at 0.          *)
Pos(s) == Sub(s, RemoteStart)

LEMMA PosRange == \A s \in U32 : Pos(s) \in U32 /\ Pos(s) \in Nat /\ Pos(s) < Modulus
<1>1. \A s \in U32 : Pos(s) \in U32
    BY SubInRange, Constants DEF Pos
<1> QED BY <1>1, Constants DEF U32

-----------------------------------------------------------------------------
(* Segments that follow one another. *)

(* Intervals a[i] .. b[i] - 1, each beginning where the one before it      *)
(* ended, cover everything from the first beginning to the last end.       *)
LEMMA ChainUnion ==
  ASSUME NEW w \in Nat, NEW r \in Nat,
         NEW a \in [1 .. w -> Nat], NEW b \in [1 .. w -> Nat],
         \A i \in 1 .. w : /\ a[i] = IF i = 1 THEN r ELSE b[i - 1]
                           /\ a[i] <= b[i]
  PROVE  /\ w > 0 => r <= b[w]
         /\ \A x \in Nat : (\E i \in 1 .. w : a[i] <= x /\ x < b[i])
                             <=> w > 0 /\ r <= x /\ x < b[w]
<1> DEFINE Covered(k) ==
      /\ k > 0 => r <= b[k]
      /\ \A x \in Nat : (\E i \in 1 .. k : a[i] <= x /\ x < b[i])
                          <=> k > 0 /\ r <= x /\ x < b[k]
    S == {k \in Nat : k <= w => Covered(k)}
<1>1. 0 \in S
    OBVIOUS
<1>2. ASSUME NEW k \in Nat, k \in S PROVE k + 1 \in S
  <2>1. SUFFICES ASSUME k + 1 <= w PROVE Covered(k + 1)
      OBVIOUS
  <2>2. Covered(k) /\ k \in 0 .. w /\ k + 1 \in 1 .. w
    <3> HIDE DEF Covered
    <3> QED BY <1>2, <2>1
  <2>3. /\ a[k + 1] = IF k = 0 THEN r ELSE b[k]
        /\ a[k + 1] <= b[k + 1] /\ a[k + 1] \in Nat /\ b[k + 1] \in Nat
        /\ k > 0 => b[k] \in Nat
      BY <2>2
  <2>4. ASSUME NEW x \in Nat
        PROVE (\E i \in 1 .. k + 1 : a[i] <= x /\ x < b[i])
                <=> \/ \E i \in 1 .. k : a[i] <= x /\ x < b[i]
                    \/ a[k + 1] <= x /\ x < b[k + 1]
    <3>1. 1 .. k + 1 = 1 .. k \cup {k + 1}
        OBVIOUS
    <3> QED BY <3>1
  <2>5. r <= b[k + 1]
      BY <2>2, <2>3
  <2>6. ASSUME NEW x \in Nat
        PROVE (\E i \in 1 .. k + 1 : a[i] <= x /\ x < b[i]) <=> r <= x /\ x < b[k + 1]
    <3>1. (\E i \in 1 .. k : a[i] <= x /\ x < b[i]) <=> k > 0 /\ r <= x /\ x < b[k]
        BY <2>2
    <3>2. k > 0 => r <= b[k]
        BY <2>2
    <3> DEFINE old == \E i \in 1 .. k : a[i] <= x /\ x < b[i]
               new == \E i \in 1 .. k + 1 : a[i] <= x /\ x < b[i]
    <3>3. new <=> old \/ (a[k + 1] <= x /\ x < b[k + 1])
        BY <2>4
    <3>4. old <=> k > 0 /\ r <= x /\ x < b[k]
        BY <3>1
    <3> HIDE DEF S, old, new
    <3>5. new <=> r <= x /\ x < b[k + 1]
        BY <2>3, <3>2, <3>3, <3>4
    <3> QED BY <3>5 DEF new
  <2> QED BY <2>5, <2>6
<1>3. Nat \subseteq S
  <2> HIDE DEF S
  <2> QED BY <1>1, <1>2, NatInSet
<1>4. w \in S
    BY <1>3
<1> QED BY <1>4

(* The numbers at the positions m .. n - 1 are n - m. *)
LEMMA PositionsCount ==
  ASSUME NEW m \in Nat, NEW n \in Nat, m <= n, n <= Modulus
  PROVE  Cardinality({s \in U32 : m <= Pos(s) /\ Pos(s) < n}) = n - m
<1> DEFINE S == {s \in U32 : m <= Pos(s) /\ Pos(s) < n}
           f == [x \in m .. n - 1 |-> Add(RemoteStart, x)]
<1>1. \A x \in m .. n - 1 : x \in U32
    BY Constants DEF U32
<1>2. \A x \in m .. n - 1 : f[x] \in U32 /\ Pos(f[x]) = x
    BY <1>1, Constants, AddInRange, SubOfAdd DEF Pos
<1>3. f \in [m .. n - 1 -> S]
    BY <1>2
<1>4. \A x, y \in m .. n - 1 : f[x] = f[y] => x = y
    BY <1>2
<1>5. ASSUME NEW s \in S PROVE \E x \in m .. n - 1 : f[x] = s
  <2>1. Pos(s) \in m .. n - 1
      BY SubInRange, Constants DEF Pos, U32
  <2>2. Add(RemoteStart, Pos(s)) = s
      BY AddOfSub, Constants DEF Pos
  <2> QED BY <2>1, <2>2
<1> HIDE DEF f, S
<1>6. f \in Bijection(m .. n - 1, S)
    BY <1>3, <1>4, <1>5, Fun_IsBij
<1>7. ExistsBijection(m .. n - 1, S)
    BY <1>6 DEF ExistsBijection
<1>8. IsFiniteSet(m .. n - 1) /\ Cardinality(m .. n - 1) = n - m
  <2>1. m \in Int /\ n - 1 \in Int /\ (n - 1) - m + 1 = n - m /\ (m > n - 1 => n - m = 0)
      OBVIOUS
  <2> QED BY <2>1, FS_Interval
<1>9. Cardinality(S) = n - m
    BY <1>7, <1>8, FS_Bijection
<1> QED BY <1>9 DEF S

-----------------------------------------------------------------------------
(* What is forwarded. *)

Streaming == state \in {"ESTABLISHED", "FIN_WAIT1", "CLOSE_WAIT", "LAST_ACK"}

(* A segment lies in the client's stream, but for data on its SYN; what    *)
(* was forwarded of one is part of it.                                     *)
SegmentInStream(s) ==
  /\ Pos(s.seq) <= ClientBytes + 2
  /\ Pos(s.seq) > 0 /\ s.len > 0 => Pos(s.seq) + s.len <= ClientBytes + 1
PartInStream(s) == s.sent > 0 => Pos(s.seq) > 0 /\ s.sent < s.len

(* The segment at n begins, but for the part that is gone, at n and ends   *)
(* in the stream.                                                          *)
LEMMA SegmentAt ==
  ASSUME NEW s \in Segment, SegmentInStream(s), PartInStream(s),
         NEW n \in U32, Add(s.seq, s.sent) = n, 1 <= Pos(n), Pos(n) <= ClientBytes + 1
  PROVE  /\ Pos(s.seq) > 0 /\ Pos(s.seq) + s.sent = Pos(n) /\ s.sent <= s.len
         /\ Pos(s.seq) + s.len <= ClientBytes + 1
         /\ Add(s.seq, s.len) \in U32 /\ Pos(Add(s.seq, s.len)) = Pos(s.seq) + s.len
<1>1. /\ s.seq \in U32 /\ s.sent \in U32 /\ s.len \in U32
      /\ s.sent \in Nat /\ s.len \in Nat
      /\ Pos(s.seq) \in Nat /\ Pos(s.seq) < Modulus
      /\ Add(s.seq, s.len) \in U32
    BY Constants, SubInRange, AddInRange DEF Segment, U32, Pos
<1>2. Pos(n) = IF Pos(s.seq) + s.sent < Modulus
               THEN Pos(s.seq) + s.sent ELSE Pos(s.seq) + s.sent - Modulus
    BY <1>1, SubOfSum, Constants DEF Pos
<1>3. Pos(Add(s.seq, s.len)) = IF Pos(s.seq) + s.len < Modulus
               THEN Pos(s.seq) + s.len ELSE Pos(s.seq) + s.len - Modulus
    BY <1>1, SubOfSum, Constants DEF Pos
<1> QED BY <1>1, <1>2, <1>3, Constants DEF SegmentInStream, PartInStream

(* The numbers of a piece of a segment are at the positions of the piece.  *)
LEMMA PieceAt ==
  ASSUME NEW s \in U32, NEW m \in Nat, NEW k \in Nat, Pos(s) + k < Modulus,
         NEW n \in U32
  PROVE  Sub(n, s) \in m .. k - 1 <=> Pos(s) + m <= Pos(n) /\ Pos(n) < Pos(s) + k
<1>1. /\ Pos(s) \in Nat /\ Pos(n) \in Nat /\ Pos(s) < Modulus /\ Pos(n) < Modulus
      /\ Sub(n, s) \in Nat
    BY Constants, SubInRange DEF U32, Pos
<1>2. Sub(n, s) = IF Pos(n) >= Pos(s) THEN Pos(n) - Pos(s) ELSE Pos(n) - Pos(s) + Modulus
    BY SubOfSubs, Constants DEF Pos
<1> QED BY <1>1, <1>2, Constants

QueueInStream ==
  \A i \in DOMAIN forward :
    /\ SegmentInStream(forward[i])
    /\ Streaming => PartInStream(forward[i])

Begins(i) == Pos(forward[i].seq) + forward[i].sent
Ends(i) == Pos(forward[i].seq) + forward[i].len

(* Segments in order follow one another in the stream as well. *)
LEMMA InOrderChain ==
  ASSUME TypeOK, QueueInStream, Streaming,
         1 <= Pos(remote_seq), Pos(remote_seq) <= ClientBytes + 1,
         NEW n \in 0 .. Len(forward), InOrder(n)
  PROVE  \A i \in 1 .. n :
           /\ Begins(i) = IF i = 1 THEN Pos(remote_seq) ELSE Ends(i - 1)
           /\ Pos(forward[i].seq) > 0 /\ forward[i].sent <= forward[i].len
           /\ Ends(i) <= ClientBytes + 1
           /\ Pos(Add(forward[i].seq, forward[i].len)) = Ends(i)
<1> DEFINE Chained(i) ==
      /\ Begins(i) = IF i = 1 THEN Pos(remote_seq) ELSE Ends(i - 1)
      /\ Pos(forward[i].seq) > 0 /\ forward[i].sent <= forward[i].len
      /\ Ends(i) <= ClientBytes + 1
      /\ Pos(Add(forward[i].seq, forward[i].len)) = Ends(i)
    S == {i \in Nat : 0 < i /\ i <= n => Chained(i)}
<1>1. /\ Len(forward) \in Nat /\ DOMAIN forward = 1 .. Len(forward)
      /\ \A i \in 1 .. n : /\ forward[i] \in Segment /\ SegmentInStream(forward[i])
                           /\ PartInStream(forward[i])
      /\ remote_seq \in U32
    BY LenProperties, ElementOfSeq DEF TypeOK, QueueInStream
<1>2. \A i \in 1 .. n : Add(forward[i].seq, forward[i].sent) =
        IF i = 1 THEN remote_seq ELSE Add(forward[i-1].seq, forward[i-1].len)
    BY DEF InOrder
<1>3. 0 \in S
    OBVIOUS
<1>4. ASSUME NEW i \in Nat, i \in S PROVE i + 1 \in S
  <2>1. SUFFICES ASSUME i + 1 <= n PROVE Chained(i + 1)
      OBVIOUS
  <2>2. i + 1 \in 1 .. n /\ (i + 1) - 1 = i /\ (i + 1 = 1 <=> i = 0)
      BY <2>1
  <2>3. CASE i = 0
    <3>1. Add(forward[1].seq, forward[1].sent) = remote_seq
        BY <1>2, <2>2, <2>3
    <3> QED BY <1>1, <2>2, <2>3, <3>1, SegmentAt DEF Begins, Ends
  <2>4. CASE i > 0
    <3>1. i \in 1 .. n
        BY <2>1, <2>4
    <3>2. Chained(i)
      <4> HIDE DEF Chained
      <4> QED BY <1>4, <3>1
    <3>3. forward[i].seq \in U32 /\ forward[i].len \in Nat /\ forward[i].len \in U32
        BY <1>1, <3>1, Constants DEF Segment, U32
    <3> DEFINE e == Add(forward[i].seq, forward[i].len)
    <3>4. e \in U32 /\ Pos(e) = Ends(i) /\ 1 <= Ends(i) /\ Ends(i) <= ClientBytes + 1
      <4>1. Pos(forward[i].seq) \in U32 /\ Pos(forward[i].seq) \in Nat
        <5>1. Pos(forward[i].seq) \in U32
            BY <3>3, SubInRange, Constants DEF Pos
        <5> QED BY <5>1, Constants DEF U32
      <4> QED BY <3>2, <3>3, <4>1, AddInRange DEF Ends
    <3>5. Add(forward[i + 1].seq, forward[i + 1].sent) = e
        BY <1>2, <2>2, <2>4
    <3> HIDE DEF e
    <3> QED BY <1>1, <2>2, <2>4, <3>4, <3>5, SegmentAt DEF Begins, Ends
  <2> QED BY <2>3, <2>4
<1>5. Nat \subseteq S
  <2> HIDE DEF S
  <2> QED BY <1>3, <1>4, NatInSet
<1>6. ASSUME NEW i \in 1 .. n PROVE Chained(i)
  <2> HIDE DEF Chained
  <2> QED BY <1>5
<1> QED BY <1>6

-----------------------------------------------------------------------------
(* The invariant.  A session whose CONNECT failed after the handshake may  *)
(* still be brought back to LISTEN by a packet of the client.              *)
Untunnelled ==
  state = "CLOSING" /\ Tunnel /\ connect_sent = "NOT_SENT" /\ Synchronized

NothingSent == sent = 0 /\ received = 0 /\ \A i \in DOMAIN forward : forward[i].sent = 0

(* Only CONNECT makes a session listen to what it has answered already.    *)
ConnectForTunnel ==
  /\ connect_sent = "SENT" => Tunnel
  /\ state = "LISTEN" /\ connect_sent # "SENT" =>
       ~Synchronized /\ remote_seq = RemoteStart /\ NothingSent

(* No event but an error is reported for a session that waits for the      *)
(* client, and none makes an answered SYN be answered again.               *)
Quiet ==
  /\ state = "SYN_RECV" \/ Untunnelled =>
       /\ socket # "none" /\ flags \subseteq {"ERR"}
       /\ phase \in {"check", "poll"} => events = {}
  /\ state = "LISTEN" /\ Synchronized =>
       /\ flags \subseteq {"ERR", "IN"}
       /\ phase \in {"check", "poll"} => events \subseteq {"IN"}

Handshaken ==
  \/ state = "LISTEN" /\ Synchronized
  \/ state = "SYN_RECV" /\ Synchronized /\ connect_sent # "SENT"
  \/ Untunnelled

HandshakeCounts ==
  Handshaken => /\ remote_seq = Add(RemoteStart, 1)
                /\ local_seq = Add(local_start, 1)
                /\ NothingSent

StreamBounds ==
  Streaming => /\ sent <= ClientBytes
               /\ Sub(acked, local_start) \in 1 .. Sub(local_seq, local_start)

Waiting == ConnectForTunnel /\ Quiet /\ HandshakeCounts
Accounts == StreamBounds /\ SequenceAccounting
StreamInv == IInv /\ Waiting /\ QueueInStream /\ Accounts

LEMMA StreamInit == Init => StreamInv
<1> SUFFICES ASSUME Init PROVE StreamInv
    OBVIOUS
<1>1. IInv
    BY InductiveInit
<1>2. Waiting /\ Accounts
    BY DEF Init, Waiting, ConnectForTunnel, Quiet, HandshakeCounts, Handshaken, Untunnelled,
       Accounts, StreamBounds, SequenceAccounting, Streaming
<1>3. QueueInStream
    BY DEF Init, QueueInStream
<1> QED BY <1>1, <1>2, <1>3 DEF StreamInv

(* An action that leaves the session alone.                                *)
LEMMA StreamFrame ==
  ASSUME StreamInv, Quiet', UNCHANGED <<state, connect_sent, tcp>>
  PROVE  Waiting' /\ QueueInStream' /\ Accounts'
<1> USE DEF StreamInv, tcp
<1>1. Waiting'
    BY DEF Waiting, ConnectForTunnel, HandshakeCounts, Handshaken, Untunnelled, Synchronized,
       NothingSent
<1>2. QueueInStream'
    BY DEF QueueInStream, SegmentInStream, PartInStream, Streaming
<1>3. Accounts'
    BY DEF Accounts, StreamBounds, SequenceAccounting, Streaming
<1> QED BY <1>1, <1>2, <1>3

(* An action after which the session is given up.                          *)
LEMMA StreamGivenUp ==
  ASSUME StreamInv,
         \/ state' \in {"NONE", "CLOSE"}
         \/ state' = "CLOSING" /\ ~(Tunnel /\ connect_sent' = "NOT_SENT" /\ Synchronized'),
         connect_sent' = "SENT" => Tunnel,
         \A i \in DOMAIN forward' : SegmentInStream(forward[i])'
  PROVE  Waiting' /\ QueueInStream' /\ Accounts'
<1> USE DEF StreamInv
<1>1. Waiting'
    BY DEF Waiting, ConnectForTunnel, Quiet, HandshakeCounts, Handshaken, Untunnelled
<1>2. QueueInStream'
    BY DEF QueueInStream, Streaming
<1>3. Accounts'
    BY DEF Accounts, StreamBounds, SequenceAccounting, Streaming
<1> QED BY <1>1, <1>2, <1>3

-----------------------------------------------------------------------------
(* Packets. *)

(* What the client sends lies in its stream, what it acknowledges has been *)
(* written.                                                                *)
LEMMA PacketInStream ==
  ASSUME TypeOK, NEW p \in ClientPackets
  PROVE  /\ SegmentInStream(Entry(p)) /\ Entry(p).sent = 0
         /\ (p.syn <=> ~p.ack) /\ (p.syn => p.seq = RemoteStart)
         /\ p.ack => /\ Synchronized
                     /\ Sub(p.ackno, local_start) \in 1 .. Sub(local_seq, local_start)
<1>1. ASSUME NEW q \in StreamPackets
      PROVE  /\ SegmentInStream(Entry(q)) /\ ~q.syn /\ q.ack
             /\ \A n : Entry([q EXCEPT !.ackno = n]) = Entry(q)
  <2>1. PICK i \in 1 .. ClientBytes + 2 : q.seq = Add(RemoteStart, i)
      BY DEF StreamPackets
  <2>2. i \in U32 /\ i > 0
      BY <2>1, Constants DEF U32
  <2>3. Pos(q.seq) = i
      BY <2>1, <2>2, SubOfAdd, Constants DEF Pos
  <2>4. q.len > 0 => i + q.len <= ClientBytes + 1
      BY <2>3 DEF StreamPackets, Pos
  <2>5. q.syn = FALSE /\ q.ack = TRUE
      BY DEF StreamPackets
  <2>6. \A n : Entry([q EXCEPT !.ackno = n]) = Entry(q)
      BY DEF StreamPackets, Entry
  <2> QED BY <2>1, <2>2, <2>3, <2>4, <2>5, <2>6, Constants DEF SegmentInStream, Entry
<1>2. CASE p \in Syns
  <2>1. p.seq = RemoteStart /\ p.syn = TRUE /\ p.ack = FALSE
      BY <1>2 DEF Syns
  <2>2. Pos(p.seq) = 0
      BY <2>1, Constants DEF Pos, Sub, U32
  <2> QED BY <2>1, <2>2, Constants DEF SegmentInStream, Entry
<1>3. CASE p \notin Syns
  <2>1. PICK q \in StreamPackets, k \in 1 .. Sub(local_seq, local_start) :
          p = [q EXCEPT !.ackno = Add(local_start, k)] /\ Synchronized
      BY <1>3 DEF ClientPackets
  <2>2. /\ p.syn = q.syn /\ p.ack = q.ack /\ p.ackno = Add(local_start, k)
        /\ Entry(p) = Entry(q)
      BY <2>1, <1>1 DEF StreamPackets
  <2>3. Sub(local_seq, local_start) \in U32 /\ local_start \in U32
      BY SubInRange DEF TypeOK
  <2>4. k \in U32
      BY <2>3, Constants DEF U32
  <2>5. Sub(p.ackno, local_start) = k
      BY <2>2, <2>3, <2>4, SubOfAdd
  <2>6. Entry(p).sent = 0
      BY DEF Entry
  <2> QED BY <1>1, <2>1, <2>2, <2>5, <2>6
<1> QED BY <1>2, <1>3

(* A segment inserted into a queue moves those from its place on. *)
Inserted(q, place, e, r) ==
  /\ r \in Seq(Segment)
  /\ Len(r) = Len(q) + 1
  /\ DOMAIN r = 1 .. Len(q) + 1
  /\ \A i \in 1 .. Len(q) + 1 :
       r[i] = IF i < place THEN q[i] ELSE IF i = place THEN e ELSE q[i - 1]

LEMMA InsertAtElements ==
  ASSUME NEW q \in Seq(Segment), NEW place \in 1 .. Len(q) + 1, NEW e \in Segment
  PROVE  Inserted(q, place, e, InsertAt(q, place, e))
<1> DEFINE r == InsertAt(q, place, e)
           before == SubSeq(q, 1, place - 1)
           after == SubSeq(q, place, Len(q))
           left == before \o <<e>>
<1>1. Len(q) \in Nat /\ place \in Int /\ \A i \in 1 .. Len(q) : q[i] \in Segment
    BY LenProperties, ElementOfSeq
<1>2. /\ before \in Seq(Segment) /\ Len(before) = place - 1
      /\ \A i \in 1 .. place - 1 : before[i] = q[i]
    BY <1>1, SubSeqProperties
<1>3. /\ after \in Seq(Segment) /\ Len(after) = Len(q) - place + 1
      /\ \A i \in 1 .. Len(q) - place + 1 : after[i] = q[place + i - 1]
    BY <1>1, SubSeqProperties
<1>4. <<e>> \in Seq(Segment) /\ Len(<<e>>) = 1 /\ <<e>>[1] = e
    OBVIOUS
<1>5. r = left \o after
    BY DEF InsertAt
<1> HIDE DEF r, before, after
<1>6. /\ left \in Seq(Segment) /\ Len(left) = place
      /\ \A i \in 1 .. place : left[i] = IF i < place THEN q[i] ELSE e
    BY <1>1, <1>2, <1>4, ConcatProperties
<1> HIDE DEF left
<1>7. /\ r \in Seq(Segment) /\ Len(r) = place + (Len(q) - place + 1)
      /\ \A i \in 1 .. Len(left) : r[i] = left[i]
      /\ \A i \in 1 .. Len(after) : r[Len(left) + i] = after[i]
  <2>1. /\ r \in Seq(Segment) /\ Len(r) = Len(left) + Len(after)
        /\ \A i \in 1 .. Len(left) + Len(after) :
             r[i] = IF i <= Len(left) THEN left[i] ELSE after[i - Len(left)]
      BY <1>3, <1>5, <1>6, ConcatProperties
  <2>2. Len(left) \in Nat /\ Len(after) \in Nat
      BY <1>3, <1>6, LenProperties
  <2>3. \A i \in 1 .. Len(left) : r[i] = left[i]
      BY <2>1, <2>2
  <2>4. \A i \in 1 .. Len(after) : r[Len(left) + i] = after[i]
    <3>1. \A i \in 1 .. Len(after) :
            /\ Len(left) + i \in 1 .. Len(left) + Len(after)
            /\ ~(Len(left) + i <= Len(left)) /\ (Len(left) + i) - Len(left) = i
        BY <2>2
    <3> QED BY <2>1, <3>1
  <2> QED BY <1>3, <1>6, <2>1, <2>3, <2>4
<1>8. Len(r) = Len(q) + 1 /\ DOMAIN r = 1 .. Len(q) + 1
  <2>1. Len(r) = Len(q) + 1
      BY <1>1, <1>7
  <2> QED BY <2>1, <1>7, LenProperties
<1>9. ASSUME NEW i \in 1 .. Len(q) + 1
      PROVE  r[i] = IF i < place THEN q[i] ELSE IF i = place THEN e ELSE q[i - 1]
  <2>0. i \in Int /\ place \in Int
      BY <1>1
  <2>1. CASE i <= place
    <3>1. i \in 1 .. place /\ r[i] = left[i]
        BY <1>6, <1>7, <2>0, <2>1
    <3> QED BY <1>6, <2>0, <2>1, <3>1
  <2>2. CASE i > place
    <3>1. /\ i - place \in 1 .. Len(q) - place + 1
          /\ place + (i - place) - 1 = i - 1 /\ place + (i - place) = i
        BY <1>1, <2>0, <2>2
    <3>2. r[i] = after[i - place] /\ after[i - place] = q[i - 1]
        BY <1>3, <1>6, <1>7, <3>1
    <3> QED BY <2>0, <2>2, <3>2
  <2> QED BY <2>0, <2>1, <2>2
<1> QED BY <1>7, <1>8, <1>9 DEF Inserted, r

(* queue_tcp adds the packet to the queue, or nothing.                     *)
LEMMA QueueHolds ==
  ASSUME forward \in Seq(Segment), NEW p \in PacketType, NEW next, queue_tcp(next, p)
  PROVE  \A i \in DOMAIN forward' :
           \/ forward'[i] = Entry(p)
           \/ \E j \in DOMAIN forward : forward'[i] = forward[j]
<1>1. PICK place \in 1 .. Len(forward) + 1 :
        forward' = forward \/ forward' = InsertAt(forward, place, Entry(p))
    BY DEF queue_tcp
<1>2. CASE forward' = InsertAt(forward, place, Entry(p))
  <2>1. /\ Len(forward) \in Nat /\ DOMAIN forward = 1 .. Len(forward)
        /\ Entry(p) \in Segment
      BY LenProperties, Constants DEF Entry, Segment, PacketType
  <2>2. /\ Len(forward') = Len(forward) + 1 /\ DOMAIN forward' = 1 .. Len(forward')
        /\ \A i \in 1 .. Len(forward') :
             forward'[i] = IF i < place THEN forward[i]
                           ELSE IF i = place THEN Entry(p) ELSE forward[i - 1]
    <3>1. Inserted(forward, place, Entry(p), forward')
        BY <1>2, <2>1, InsertAtElements
    <3> QED BY <3>1 DEF Inserted
  <2>3. ASSUME NEW i \in 1 .. Len(forward')
        PROVE  \/ forward'[i] = Entry(p)
               \/ \E j \in 1 .. Len(forward) : forward'[i] = forward[j]
    <3>1. CASE i < place
        BY <2>1, <2>2, <3>1
    <3>2. CASE i = place
        BY <2>1, <2>2, <3>2
    <3>3. CASE i > place
      <4>1. i - 1 \in 1 .. Len(forward) /\ ~(i < place) /\ i # place
          BY <2>1, <2>2, <3>3
      <4>2. forward'[i] = forward[i - 1]
          BY <2>2, <4>1
      <4> QED BY <4>1, <4>2
    <3> QED BY <2>1, <2>2, <3>1, <3>2, <3>3
  <2> QED BY <2>1, <2>2, <2>3
<1> QED BY <1>1, <1>2

LEMMA QueuedInStream ==
  ASSUME TypeOK, QueueInStream, NEW p \in ClientPackets, NEW next,
         queue_tcp(next, p) \/ forward' = forward
  PROVE  /\ \A i \in DOMAIN forward' : SegmentInStream(forward[i])'
         /\ (\A i \in DOMAIN forward : forward[i].sent = 0) =>
              \A i \in DOMAIN forward' : forward'[i].sent = 0
         /\ (\A i \in DOMAIN forward : PartInStream(forward[i])) =>
              \A i \in DOMAIN forward' : PartInStream(forward[i])'
<1>1. SegmentInStream(Entry(p)) /\ Entry(p).sent = 0 /\ p \in PacketType
    BY PacketInStream, ClientPacketType
<1>2. \A i \in DOMAIN forward' :
           \/ forward'[i] = Entry(p)
           \/ \E j \in DOMAIN forward : forward'[i] = forward[j]
  <2>1. CASE queue_tcp(next, p)
      BY <1>1, <2>1, QueueHolds DEF TypeOK
  <2>2. CASE forward' = forward
      BY <2>2
  <2> QED BY <2>1, <2>2
<1>3. \A j \in DOMAIN forward : SegmentInStream(forward[j])
    BY DEF QueueInStream
<1>4. ASSUME NEW i \in DOMAIN forward' PROVE SegmentInStream(forward[i])'
    BY <1>1, <1>2, <1>3 DEF SegmentInStream
<1>5. (\A i \in DOMAIN forward : forward[i].sent = 0) =>
              \A i \in DOMAIN forward' : forward'[i].sent = 0
    BY <1>1, <1>2
<1>6. (\A i \in DOMAIN forward : PartInStream(forward[i])) =>
              \A i \in DOMAIN forward' : PartInStream(forward[i])'
    BY <1>1, <1>2 DEF PartInStream
<1> QED BY <1>4, <1>5, <1>6

LEMMA StreamPacket ==
  ASSUME StreamInv, NEW p \in ClientPackets, handle_tcp(p),
         phase = "events", UNCHANGED <<phase, batch, flags>>
  PROVE  Waiting' /\ QueueInStream' /\ Accounts'
<1> USE DEF StreamInv
<1>0. /\ TypeOK /\ NoDataBeforeTunnel /\ SocketAgreesWithState
      /\ p.seq \in U32 /\ p \in PacketType
      /\ \A i \in DOMAIN forward : SegmentInStream(forward[i])
    BY ClientPacketType DEF IInv, QueueInStream, PacketType
<1>1. CASE NewSession(p)
  <2>1. /\ state' = "LISTEN" /\ ~Synchronized' /\ connect_sent' # "SENT"
        /\ sent' = 0 /\ received' = 0 /\ remote_seq' = RemoteStart
    <3>1. p.seq = RemoteStart
        BY <1>0, <1>1, PacketInStream DEF NewSession
    <3> QED BY <1>1, <3>1 DEF NewSession, Synchronized
  <2>2. ASSUME NEW i \in DOMAIN forward' PROVE forward'[i] = Entry(p)
    <3>1. CASE p.len = 0
        BY <1>1, <2>2, <3>1 DEF NewSession
    <3>2. CASE p.len # 0
      <4>1. forward' = <<Entry(p)>>
          BY <1>1, <3>2 DEF NewSession
      <4>2. \A j \in DOMAIN <<Entry(p)>> : <<Entry(p)>>[j] = Entry(p)
          OBVIOUS
      <4> QED BY <4>1, <4>2, <2>2
    <3> QED BY <3>1, <3>2
  <2>3. SegmentInStream(Entry(p)) /\ Entry(p).sent = 0
      BY <1>0, PacketInStream
  <2>4. Waiting'
      BY <2>1, <2>2, <2>3 DEF Waiting, ConnectForTunnel, Quiet, HandshakeCounts, Handshaken,
         Untunnelled, NothingSent
  <2>5. QueueInStream'
      BY <2>1, <2>2, <2>3 DEF QueueInStream, Streaming, SegmentInStream
  <2> QED BY <2>1, <2>4, <2>5 DEF Accounts, StreamBounds, SequenceAccounting, Streaming
<1>2. CASE SendConnect(p)
  <2>1. /\ \A i \in DOMAIN forward' : SegmentInStream(forward[i])'
        /\ (\A i \in DOMAIN forward : forward[i].sent = 0) =>
              \A i \in DOMAIN forward' : forward'[i].sent = 0
      BY <1>0, <1>2, QueuedInStream DEF SendConnect
  <2>2. Tunnel /\ state \in {"LISTEN", "SYN_RECV", "CLOSING"}
      BY <1>0, <1>2 DEF SendConnect, BeforeTunnel, PreTunnel, NoDataBeforeTunnel,
         SocketAgreesWithState
  <2>3. Synchronized => Handshaken
      BY <1>2, <2>2 DEF SendConnect, Handshaken, Untunnelled
  <2>4. Synchronized => flags \subseteq {"ERR"}
      BY <1>2, <2>2 DEF SendConnect, Waiting, Quiet, ConnectForTunnel, Untunnelled
  <2>5. Waiting'
    <3>1. ConnectForTunnel'
        BY <1>2, <2>2 DEF SendConnect, ConnectForTunnel
    <3>2. Quiet'
        BY <1>2, <2>4 DEF SendConnect, Quiet, Untunnelled, Synchronized
    <3>3. HandshakeCounts'
        BY <1>2, <2>1, <2>3 DEF SendConnect, Waiting, HandshakeCounts, Handshaken, Untunnelled,
           Synchronized, NothingSent
    <3> QED BY <3>1, <3>2, <3>3 DEF Waiting
  <2> QED BY <1>2, <2>1, <2>5 DEF SendConnect, QueueInStream, Accounts, StreamBounds,
             SequenceAccounting, Streaming
<1>3. CASE SendConnectFails(p)
  <2>1. /\ \A i \in DOMAIN forward' : SegmentInStream(forward[i])'
        /\ (\A i \in DOMAIN forward : forward[i].sent = 0) =>
              \A i \in DOMAIN forward' : forward'[i].sent = 0
      BY <1>0, <1>3, QueuedInStream DEF SendConnectFails
  <2>2. /\ Tunnel /\ state \in {"LISTEN", "SYN_RECV", "CLOSING", "CLOSE"}
        /\ connect_sent = "NOT_SENT" /\ connect_sent' = connect_sent
        /\ state' = Reset(state) /\ (Synchronized' <=> Synchronized)
      BY <1>0, <1>3 DEF SendConnectFails, BeforeTunnel, PreTunnel, NoDataBeforeTunnel,
         Synchronized
  <2>3. CASE ~Synchronized \/ state = "CLOSE"
      BY <2>1, <2>2, <2>3, StreamGivenUp DEF Reset
  <2>4. CASE Synchronized /\ state \in {"LISTEN", "SYN_RECV", "CLOSING"}
    <3>1. state # "LISTEN"
        BY <2>2, <2>4 DEF Waiting, ConnectForTunnel
    <3>2. Handshaken /\ state' = "CLOSING" /\ remote_seq' = remote_seq
        BY <1>3, <2>2, <2>4, <3>1 DEF Handshaken, Untunnelled, Reset, ResetSeq, SendConnectFails
    <3>3. socket' # "none" /\ flags' \subseteq {"ERR"}
        BY <1>3, <2>2, <2>4, <3>1 DEF SendConnectFails, Waiting, Quiet, Untunnelled
    <3>4. Waiting'
      <4>1. ConnectForTunnel'
          BY <2>2, <3>2 DEF ConnectForTunnel
      <4>2. Quiet'
          BY <3>2, <3>3 DEF Quiet
      <4>3. HandshakeCounts'
          BY <1>3, <2>1, <3>2 DEF SendConnectFails, Waiting, HandshakeCounts, NothingSent
      <4> QED BY <4>1, <4>2, <4>3 DEF Waiting
    <3> QED BY <2>1, <3>2, <3>4 DEF QueueInStream, Accounts, StreamBounds,
               SequenceAccounting, Streaming
  <2> QED BY <2>2, <2>3, <2>4
<1>4. CASE AwaitTunnel(p)
  <2>1. /\ \A i \in DOMAIN forward' : SegmentInStream(forward[i])'
        /\ (\A i \in DOMAIN forward : forward[i].sent = 0) =>
              \A i \in DOMAIN forward' : forward'[i].sent = 0
      BY <1>0, <1>4, QueuedInStream DEF AwaitTunnel
  <2>2. ~Streaming /\ state' = state
      BY <1>0, <1>4 DEF AwaitTunnel, BeforeTunnel, NoDataBeforeTunnel, Streaming
  <2>3. Waiting'
      BY <1>4, <2>1 DEF AwaitTunnel, Waiting, ConnectForTunnel, Quiet, HandshakeCounts,
         Handshaken, Untunnelled, Synchronized, NothingSent
  <2> QED BY <2>1, <2>2, <2>3 DEF QueueInStream, Accounts, StreamBounds,
             SequenceAccounting, Streaming
<1>5. CASE RefuseData(p) \/ ReceiveRst(p) \/ ReceiveFutureAck(p)
  <2>1. \A i \in DOMAIN forward' : SegmentInStream(forward[i])'
    <3>1. forward' = forward \/ queue_tcp(remote_seq, p)
        BY <1>5 DEF RefuseData, ReceiveRst, ReceiveFutureAck, Accept
    <3> QED BY <1>0, <3>1, QueuedInStream
  <2>2. state' = "CLOSING" /\ ~PreTunnel /\ connect_sent' = connect_sent
      BY <1>5 DEF RefuseData, ReceiveRst, ReceiveFutureAck, Accept, Receive, Reset, Open
  <2> QED BY <2>1, <2>2, StreamGivenUp DEF PreTunnel, Waiting, ConnectForTunnel
(* The packets that keep the session: remote_seq, but for the FIN, and     *)
(* everything on our side stay.                                            *)
<1>6. ASSUME Accept(p), p.ack \/ p.syn,
             \/ UNCHANGED <<state, remote_seq>>
             \/ /\ p.ack /\ state = "SYN_RECV" /\ state' = "ESTABLISHED" /\ remote_seq' = remote_seq
                /\ acked' = p.ackno
             \/ /\ state = "ESTABLISHED" /\ state' = "CLOSE_WAIT"
                /\ remote_seq' = IF forward' = <<>> THEN Add(remote_seq, 1) ELSE remote_seq,
             acked' = acked \/ (p.ack /\ acked' = p.ackno)
      PROVE  Waiting' /\ QueueInStream' /\ Accounts'
  <2>1. /\ ~PreTunnel /\ UNCHANGED <<socket, connect_sent, local_start, local_seq,
                                     sent, received, events>>
        /\ forward' = forward \/ queue_tcp(remote_seq, p)
        /\ state \in {"CLOSE_WAIT", "FIN_WAIT1", "LAST_ACK"} => forward' = forward
      BY <1>0, <1>6 DEF Accept, Receive, Refused, SocketAgreesWithState
  <2>2. /\ \A i \in DOMAIN forward' : SegmentInStream(forward[i])'
        /\ (\A i \in DOMAIN forward : forward[i].sent = 0) =>
              \A i \in DOMAIN forward' : forward'[i].sent = 0
        /\ (\A i \in DOMAIN forward : PartInStream(forward[i])) =>
              \A i \in DOMAIN forward' : PartInStream(forward[i])'
      BY <1>0, <2>1, QueuedInStream
  <2>3. p.ack => /\ Synchronized
                 /\ Sub(p.ackno, local_start) \in 1 .. Sub(local_seq, local_start)
      BY <1>0, PacketInStream
  <2>4. ~Untunnelled' /\ ~Untunnelled /\ Synchronized' = Synchronized
      BY <2>1 DEF Untunnelled, PreTunnel, Synchronized
  <2>5. Waiting'
      BY <1>6, <2>1, <2>2, <2>4 DEF Waiting, ConnectForTunnel, Quiet, HandshakeCounts,
         Handshaken, Synchronized, NothingSent
  <2>6. state = "SYN_RECV" /\ state' = "ESTABLISHED" =>
          /\ Pos(remote_seq) = 1 /\ Sub(local_seq, local_start) = 1 /\ NothingSent
    <3>1. SUFFICES ASSUME state = "SYN_RECV", state' = "ESTABLISHED"
                   PROVE  /\ Pos(remote_seq) = 1 /\ Sub(local_seq, local_start) = 1
                          /\ NothingSent
        OBVIOUS
    <3>2. Handshaken
        BY <1>6, <2>1, <2>3, <3>1 DEF Handshaken, PreTunnel, Waiting, ConnectForTunnel
    <3>3. remote_seq = Add(RemoteStart, 1) /\ local_seq = Add(local_start, 1) /\ NothingSent
        BY <3>2 DEF Waiting, HandshakeCounts
    <3> QED BY <3>3, <1>0, SubOfAdd, Constants DEF Pos, TypeOK
  <2>7. QueueInStream'
    <3>1. Streaming' => \A i \in DOMAIN forward : PartInStream(forward[i])
        BY <1>6, <2>6 DEF QueueInStream, Streaming, NothingSent, PartInStream
    <3> QED BY <2>2, <3>1 DEF QueueInStream
  <2>8. StreamBounds'
      BY <1>6, <2>1, <2>3, <2>6, Constants
         DEF Accounts, StreamBounds, Streaming, NothingSent
  <2>9. SequenceAccounting'
    <3>1. CASE state' = state
        BY <1>6, <2>1, <3>1 DEF Accounts, SequenceAccounting, Count
    <3>2. CASE state = "SYN_RECV" /\ state' = "ESTABLISHED"
        BY <1>6, <2>1, <2>6, <3>2 DEF SequenceAccounting, NothingSent, Pos, Count
    <3>3. CASE state = "ESTABLISHED" /\ state' = "CLOSE_WAIT"
      <4>1. Pos(remote_seq) = 1 + sent /\ Sub(local_seq, local_start) = 1 + received
          BY <1>0, <3>3 DEF Accounts, SequenceAccounting, Pos, Count, TypeOK
      <4>2. sent <= ClientBytes /\ sent \in Nat /\ received \in Nat
          BY <1>0, <3>3, Constants DEF Accounts, StreamBounds, Streaming, TypeOK
      <4>3. Pos(Add(remote_seq, 1)) = 1 + sent + 1
        <5>1. Sub(remote_seq, RemoteStart) + 1 < Modulus
            BY <4>1, <4>2, Constants DEF Pos
        <5> QED BY <1>0, <4>1, <5>1, SubOfSum, Constants DEF TypeOK, Pos
      <4> QED BY <1>6, <2>1, <3>3, <4>1, <4>2, <4>3 DEF SequenceAccounting, Pos, Count
    <3> QED BY <1>6, <3>1, <3>2, <3>3
  <2> QED BY <2>5, <2>7, <2>8, <2>9 DEF Accounts
<1>7. p.syn <=> ~p.ack
    BY <1>0, PacketInStream
<1>8. CASE RepeatedSyn(p)
    BY <1>6, <1>8 DEF RepeatedSyn
<1>9. CASE ReceiveOldAck(p)
    BY <1>6, <1>7, <1>9 DEF ReceiveOldAck, UpToDate
<1>10. CASE ReceiveAck(p)
  <2>1. CASE state = "LAST_ACK"
    <3>1. state' = "CLOSING" /\ ~PreTunnel /\ connect_sent' = connect_sent /\ forward' = forward
        BY <1>0, <1>10, <2>1 DEF ReceiveAck, Accept, Receive, Refused, SocketAgreesWithState
    <3> QED BY <1>0, <3>1, StreamGivenUp DEF PreTunnel, Waiting, ConnectForTunnel, SegmentInStream
  <2>2. CASE state # "LAST_ACK"
      BY <1>6, <1>7, <1>10, <2>2 DEF ReceiveAck
  <2> QED BY <2>1, <2>2
<1>11. CASE ReceiveFin(p)
  <2>1. CASE state' \in {"CLOSING", "CLOSE"}
    <3>1. ~PreTunnel /\ connect_sent' = connect_sent
          /\ (forward' = forward \/ queue_tcp(remote_seq, p))
        BY <1>11 DEF ReceiveFin, Accept, Receive
    <3>2. \A i \in DOMAIN forward' : SegmentInStream(forward[i])'
        BY <1>0, <3>1, QueuedInStream
    <3> QED BY <2>1, <3>1, <3>2, StreamGivenUp DEF PreTunnel, Waiting, ConnectForTunnel
  <2>2. CASE state' \notin {"CLOSING", "CLOSE"}
      BY <1>6, <1>7, <1>11, <2>2 DEF ReceiveFin
  <2> QED BY <2>1, <2>2
<1> QED BY <1>1, <1>2, <1>3, <1>4, <1>5, <1>8, <1>9, <1>10, <1>11 DEF handle_tcp

-----------------------------------------------------------------------------
(* The loop and the session's own event. *)

(* A session that is reset.  One that was waiting for its CONNECT keeps    *)
(* the numbers of its handshake.                                           *)
LEMMA StreamReset ==
  ASSUME StreamInv, state \in Open \cup {"CLOSING"}, state' = "CLOSING",
         UNCHANGED <<connect_sent, local_start, local_seq, sent, received, forward>>,
         state # "LISTEN" => socket' = socket /\ remote_seq' = remote_seq,
         flags' = flags \/ flags' = {},
         state \in {"SYN_RECV", "CLOSING"} /\ phase' \in {"check", "poll"} => events' = {}
  PROVE  Waiting' /\ QueueInStream' /\ Accounts'
<1> USE DEF StreamInv
<1>0. TypeOK /\ NoDataBeforeTunnel /\ \A i \in DOMAIN forward' : SegmentInStream(forward[i])'
    BY DEF IInv, QueueInStream, SegmentInStream
<1>1. connect_sent' = "SENT" => Tunnel
    BY DEF Waiting, ConnectForTunnel
<1>2. CASE ~(Tunnel /\ connect_sent = "NOT_SENT" /\ Synchronized)
  <2>1. ~(Tunnel /\ connect_sent' = "NOT_SENT" /\ Synchronized')
      BY <1>2 DEF Synchronized
  <2> QED BY <1>0, <1>1, <2>1, StreamGivenUp
<1>3. CASE Tunnel /\ connect_sent = "NOT_SENT" /\ Synchronized
  <2>1. state # "LISTEN"
      BY <1>3 DEF Waiting, ConnectForTunnel
  <2>2. state \in {"SYN_RECV", "CLOSING"}
      BY <1>0, <1>3, <2>1 DEF NoDataBeforeTunnel, PreTunnel, Open
  <2>3. (state = "SYN_RECV" \/ Untunnelled) /\ Handshaken
      BY <1>3, <2>2 DEF Handshaken, Untunnelled
  <2>4. ConnectForTunnel'
      BY <1>1 DEF ConnectForTunnel
  <2>5. Quiet'
      BY <2>1, <2>2, <2>3 DEF Waiting, Quiet
  <2>6. HandshakeCounts'
      BY <2>1, <2>3 DEF Waiting, HandshakeCounts, NothingSent
  <2> QED BY <1>0, <2>4, <2>5, <2>6 DEF Waiting, QueueInStream, Accounts, StreamBounds,
             SequenceAccounting, Streaming
<1> QED BY <1>2, <1>3

LEMMA StreamLoop ==
  ASSUME StreamInv,
         \/ MonitorSession \/ NothingToMonitor \/ SkipCheck \/ CloseSession
         \/ KeepClosed \/ FreeSession \/ KeepSession \/ Poll \/ LoopFails
         \/ StartLoop \/ Clear \/ Connected \/ Age \/ TunDrained
  PROVE  Waiting' /\ QueueInStream' /\ Accounts'
<1> USE DEF StreamInv
<1>0. /\ TypeOK /\ SocketAgreesWithState
      /\ \A i \in DOMAIN forward : SegmentInStream(forward[i])
      /\ connect_sent = "SENT" => Tunnel
    BY DEF IInv, QueueInStream, Waiting, ConnectForTunnel
<1>1. CASE MonitorSession
  <2>1. PICK room \in BOOLEAN : events' = Interest(room)
      BY <1>1 DEF MonitorSession
  <2>2. /\ state \in {"SYN_RECV", "CLOSING"} => events' = {}
        /\ state = "LISTEN" /\ Synchronized => events' = {"IN"}
      BY <1>0, <2>1 DEF Interest, Waiting, ConnectForTunnel
  <2>3. CASE state' = state
    <3>1. Quiet'
        BY <1>1, <2>2, <2>3 DEF MonitorSession, tcp, Waiting, Quiet, Untunnelled, Synchronized
    <3> QED BY <1>1, <2>3, <3>1, StreamFrame DEF MonitorSession
  <2>4. CASE state' # state
    <3>1. state' = "CLOSING" /\ socket # "none"
        BY <1>1, <2>4 DEF MonitorSession, Written
    <3>2. state \in Open \cup {"CLOSING"}
        BY <1>0, <3>1 DEF SocketAgreesWithState, TypeOK, States, Open
    <3> QED BY <1>1, <2>2, <3>1, <3>2, StreamReset DEF MonitorSession, tcp
  <2> QED BY <2>3, <2>4
<1>2. CASE NothingToMonitor
  <2>1. Quiet'
      BY <1>0, <1>2 DEF NothingToMonitor, tcp, Waiting, Quiet, Untunnelled, Synchronized,
         SocketAgreesWithState
  <2> QED BY <1>2, <2>1, StreamFrame DEF NothingToMonitor
<1>3. CASE SkipCheck \/ KeepSession
  <2>1. Quiet'
      BY <1>3 DEF SkipCheck, KeepSession, tcp, Waiting, Quiet, Untunnelled, Synchronized
  <2> QED BY <1>3, <2>1, StreamFrame DEF SkipCheck, KeepSession
<1>4. CASE CloseSession \/ KeepClosed
    BY <1>0, <1>4, StreamGivenUp DEF CloseSession, KeepClosed, SegmentInStream
<1>5. CASE FreeSession \/ Clear
    BY <1>5, StreamGivenUp DEF FreeSession, Clear, Forget
<1>6. CASE Poll
  <2>1. Quiet'
      BY <1>6 DEF Poll, tcp, Waiting, Quiet, Untunnelled, Synchronized
  <2> QED BY <1>6, <2>1, StreamFrame DEF Poll
<1>7. CASE LoopFails \/ TunDrained
  <2>1. phase' \in {"stopped", "monitor", "events"} /\ flags' \subseteq flags
      BY <1>7 DEF LoopFails, TunDrained, EndTurn
  <2>2. Quiet'
      BY <1>7, <2>1 DEF LoopFails, TunDrained, tcp, Waiting, Quiet, Untunnelled, Synchronized
  <2> QED BY <1>7, <2>2, StreamFrame DEF LoopFails, TunDrained
<1>8. CASE StartLoop
  <2>1. CASE state \in Open
    <3>1. state' = "CLOSING" /\ (state # "LISTEN" => remote_seq' = remote_seq)
        BY <1>8, <2>1 DEF StartLoop, Reset, ResetSeq, Open
    <3> QED BY <1>8, <2>1, <3>1, StreamReset DEF StartLoop
  <2>2. CASE state \notin Open
    <3>1. UNCHANGED <<state, connect_sent, tcp>>
        BY <1>8, <2>2 DEF StartLoop, ResetSeq, Open, tcp
    <3>2. Quiet'
        BY <1>8, <3>1 DEF StartLoop, tcp, Waiting, Quiet, Untunnelled, Synchronized
    <3> QED BY <3>1, <3>2, StreamFrame
  <2> QED BY <2>1, <2>2
<1>9. CASE Connected \/ Age
  <2>1. Quiet'
      BY <1>9 DEF Connected, Age, tcp, Waiting, Quiet, Untunnelled, Synchronized
  <2> QED BY <1>9, <2>1, StreamFrame DEF Connected, Age
<1> QED BY <1>1, <1>2, <1>3, <1>4, <1>5, <1>6, <1>7, <1>8, <1>9

LEMMA StreamSocket ==
  ASSUME StreamInv, SocketError \/ TunnelOpened \/ TunnelRefused \/ SendSynAck
  PROVE  Waiting' /\ QueueInStream' /\ Accounts'
<1> USE DEF StreamInv
<1>0. /\ TypeOK /\ SocketAgreesWithState /\ TypeInv
      /\ \A i \in DOMAIN forward : SegmentInStream(forward[i])
      /\ connect_sent = "SENT" => Tunnel
    BY DEF IInv, QueueInStream, Waiting, ConnectForTunnel, TypeInv
<1>1. /\ socket # "none" /\ flags # {} /\ flags' = {}
      /\ phase' \in {"monitor", "events"}
  <2>1. SocketTurn
      BY DEF SocketError, TunnelOpened, TunnelRefused, SendSynAck
  <2>2. SocketEventPending
      BY <1>0, <2>1, OneEvent DEF SocketTurn, Turn
  <2> QED BY <2>1, <2>2 DEF SocketTurn, EndTurn, IInv, EventHasSession, SocketEventPending
<1>2. state \in Open \cup {"CLOSING"}
    BY <1>0, <1>1 DEF SocketAgreesWithState, TypeOK, States, Open
<1>3. CASE SocketError \/ TunnelRefused
  <2>1. state' = "CLOSING" /\ (state # "LISTEN" => remote_seq' = remote_seq)
      BY <1>2, <1>3 DEF SocketError, TunnelRefused, Reset, ResetSeq, Open
  <2> QED BY <1>1, <1>2, <1>3, <2>1, StreamReset DEF SocketError, TunnelRefused
<1>4. CASE TunnelOpened
  <2>1. Waiting'
      BY <1>1, <1>4 DEF TunnelOpened, tcp, Waiting, ConnectForTunnel, Quiet, HandshakeCounts,
         Handshaken, Untunnelled, Synchronized, NothingSent
  <2>2. QueueInStream'
      BY <1>0, <1>4 DEF TunnelOpened, tcp, QueueInStream, SegmentInStream, Streaming
  <2> QED BY <1>4, <2>1, <2>2 DEF TunnelOpened, Accounts, StreamBounds, SequenceAccounting,
             Streaming
<1>5. CASE SendSynAck
  <2>1. ~Synchronized
      BY <1>1, <1>5 DEF SendSynAck, Waiting, Quiet
  <2>2. CASE state' = "CLOSING"
      BY <1>1, <1>5, <2>2, StreamReset DEF SendSynAck, Open
  <2>3. CASE state' = "SYN_RECV"
    <3>1. local_seq' = Add(local_seq, 1) /\ local_seq = local_start
        BY <1>5, <2>1, <2>3 DEF SendSynAck, Synchronized
    <3>2. HandshakeCounts'
        BY <1>5, <2>3, <3>1 DEF SendSynAck, Waiting, ConnectForTunnel, HandshakeCounts,
           Handshaken, Untunnelled, NothingSent
    <3>3. Waiting'
        BY <1>1, <1>5, <2>3, <3>2 DEF SendSynAck, Waiting, ConnectForTunnel, Quiet, Untunnelled
    <3>4. QueueInStream'
        BY <1>0, <1>5, <2>3 DEF SendSynAck, QueueInStream, SegmentInStream, Streaming
    <3> QED BY <2>3, <3>3, <3>4 DEF Accounts, StreamBounds, SequenceAccounting, Streaming
  <2> QED BY <1>5, <2>2, <2>3 DEF SendSynAck
<1> QED BY <1>3, <1>4, <1>5

-----------------------------------------------------------------------------
(* Forwarding. *)

(* remote_seq moves on by as many positions as bytes are forwarded, and no *)
(* further than the client's stream goes.                                  *)
LEMMA ForwardNumbers ==
  ASSUME TypeOK, QueueInStream, Streaming,
         1 <= Pos(remote_seq), Pos(remote_seq) <= ClientBytes + 1,
         NEW f \in ForwardOutcomes
  PROVE  /\ Pos(ForwardedSeq(f)) = Pos(remote_seq) + Cardinality(ForwardedBytes(f, 1 .. f.whole))
         /\ Pos(ForwardedSeq(f)) <= ClientBytes + 1
<1> DEFINE w == IF f.part > 0 THEN f.whole + 1 ELSE f.whole
           r == Pos(remote_seq)
           a == [i \in 1 .. w |-> Begins(i)]
           b == [i \in 1 .. w |-> IF i <= f.whole THEN Ends(i) ELSE Begins(i) + f.part]
<1>0. /\ f.whole \in Nat /\ f.whole <= Len(forward) /\ f.part \in Nat
      /\ f.part > 0 =>
           /\ f.whole < Len(forward)
           /\ f.part < forward[f.whole + 1].len - forward[f.whole + 1].sent
      /\ Len(forward) \in Nat
      /\ w \in Nat /\ w \in 0 .. Len(forward) /\ InOrder(w)
      /\ f.whole <= w /\ (f.part > 0 <=> w = f.whole + 1) /\ (f.part = 0 <=> w = f.whole)
  <2>1. /\ f.whole \in 0 .. Len(forward) /\ f.part \in 0 .. ClientBytes /\ InOrder(f.whole)
        /\ f.part > 0 =>
             /\ f.whole < Len(forward) /\ InOrder(f.whole + 1)
             /\ f.part < forward[f.whole + 1].len - forward[f.whole + 1].sent
      BY DEF ForwardOutcomes
  <2>2. Len(forward) \in Nat /\ f.part \in Nat
      BY <2>1, LenProperties, Constants DEF TypeOK
  <2> QED BY <2>1, <2>2
<1> HIDE DEF w
<1>1. \A i \in 1 .. w :
        /\ Begins(i) = IF i = 1 THEN r ELSE Ends(i - 1)
        /\ Pos(forward[i].seq) > 0 /\ forward[i].sent <= forward[i].len
        /\ Ends(i) <= ClientBytes + 1
        /\ Pos(Add(forward[i].seq, forward[i].len)) = Ends(i)
    BY <1>0, InOrderChain
<1>2. \A i \in 1 .. w :
        /\ forward[i] \in Segment /\ forward[i].seq \in U32
        /\ forward[i].sent \in Nat /\ forward[i].len \in Nat
        /\ Pos(forward[i].seq) \in Nat /\ Begins(i) \in Nat /\ Ends(i) \in Nat
  <2>1. ASSUME NEW i \in 1 .. w
        PROVE /\ forward[i] \in Segment /\ forward[i].seq \in U32
              /\ forward[i].sent \in Nat /\ forward[i].len \in Nat
              /\ Pos(forward[i].seq) \in Nat
    <3>1. i \in 1 .. Len(forward)
        BY <1>0
    <3>2. forward[i] \in Segment
        BY <3>1, ElementOfSeq DEF TypeOK
    <3>3. forward[i].seq \in U32 /\ Pos(forward[i].seq) \in U32
        BY <3>2, SubInRange, Constants DEF Segment, Pos
    <3> QED BY <3>2, <3>3, Constants DEF Segment, U32
  <2> QED BY <2>1 DEF Begins, Ends
<1>3. \A i \in 1 .. w : /\ i \in Nat
                        /\ b[i] = IF i <= f.whole THEN Ends(i) ELSE Begins(i) + f.part
                        /\ a[i] = Begins(i)
                        /\ ~(i <= f.whole) => f.part > 0 /\ i = f.whole + 1
    BY <1>0
<1>4. \A i \in 1 .. w : a[i] <= b[i] /\ b[i] <= ClientBytes + 1 /\ a[i] \in Nat /\ b[i] \in Nat
  <2>1. ASSUME NEW i \in 1 .. w
        PROVE  a[i] <= b[i] /\ b[i] <= ClientBytes + 1 /\ a[i] \in Nat /\ b[i] \in Nat
    <3>1. /\ b[i] = IF i <= f.whole THEN Ends(i) ELSE Begins(i) + f.part
          /\ a[i] = Begins(i)
          /\ ~(i <= f.whole) => f.part < forward[i].len - forward[i].sent
        BY <1>0, <1>3
    <3>2. /\ Pos(forward[i].seq) > 0 /\ forward[i].sent <= forward[i].len
          /\ Ends(i) <= ClientBytes + 1
        BY <1>1
    <3>3. /\ forward[i].sent \in Nat /\ forward[i].len \in Nat
          /\ Pos(forward[i].seq) \in Nat
        BY <1>2
    <3> HIDE DEF a, b
    <3>5. CASE i <= f.whole
        BY <3>1, <3>2, <3>3, <3>5 DEF Begins, Ends
    <3>6. CASE ~(i <= f.whole)
      <4>1. f.part \in Nat /\ f.part < forward[i].len - forward[i].sent
          BY <1>0, <3>1, <3>6
      <4>2. a[i] = Begins(i) /\ b[i] = Begins(i) + f.part
          BY <3>1, <3>6
      <4> QED BY <3>2, <3>3, <4>1, <4>2, Constants DEF Begins, Ends
    <3> QED BY <3>5, <3>6
  <2> QED BY <2>1
<1>5. a \in [1 .. w -> Nat] /\ b \in [1 .. w -> Nat]
  <2> DEFINE aa == a  bb == b
  <2>1. a = [i \in 1 .. w |-> a[i]] /\ b = [i \in 1 .. w |-> b[i]]
      OBVIOUS
  <2> HIDE DEF a, b
  <2> QED BY <1>4, <2>1
<1>6. \A i \in 1 .. w : a[i] = IF i = 1 THEN r ELSE b[i - 1]
  <2>1. ASSUME NEW i \in 1 .. w, i # 1 PROVE b[i - 1] = Ends(i - 1)
    <3>1. i - 1 \in 1 .. w /\ i - 1 <= f.whole
        BY <1>0, <2>1
    <3> QED BY <3>1
  <2> QED BY <1>1, <1>3, <2>1
<1>7. r \in Nat /\ r <= ClientBytes + 1 /\ remote_seq \in U32
  <2>1. r \in U32
      BY SubInRange, Constants DEF Pos, TypeOK
  <2> QED BY <2>1, Constants DEF U32, TypeOK
<1> HIDE DEF r, a, b
<1>8. /\ w > 0 => r <= b[w]
      /\ \A x \in Nat : (\E i \in 1 .. w : a[i] <= x /\ x < b[i])
                          <=> w > 0 /\ r <= x /\ x < b[w]
  <2>1. \A i \in 1 .. w : a[i] = (IF i = 1 THEN r ELSE b[i - 1]) /\ a[i] <= b[i]
      BY <1>4, <1>6
  <2>2. w \in Nat /\ r \in Nat
      BY <1>0, <1>7
  <2> QED BY <1>5, <2>1, <2>2, ChainUnion
<1>9. ASSUME NEW n \in U32
      PROVE  n \in ForwardedBytes(f, 1 .. f.whole) <=> \E i \in 1 .. w : a[i] <= Pos(n) /\ Pos(n) < b[i]
  <2>1. ASSUME NEW i \in 1 .. f.whole
        PROVE  i \in 1 .. w /\ (Sub(n, forward[i].seq) \in forward[i].sent .. forward[i].len - 1
                                  <=> a[i] <= Pos(n) /\ Pos(n) < b[i])
    <3>1. i \in 1 .. w /\ i <= f.whole
        BY <1>0
    <3>2. Pos(forward[i].seq) + forward[i].len < Modulus
        BY <1>1, <1>2, <3>1, Constants DEF Ends
    <3>3. a[i] = Pos(forward[i].seq) + forward[i].sent /\ b[i] = Pos(forward[i].seq) + forward[i].len
        BY <1>3, <3>1 DEF Begins, Ends
    <3> QED BY <1>2, <3>1, <3>2, <3>3, PieceAt
  <2>2. ASSUME f.part > 0
        PROVE  /\ w = f.whole + 1 /\ w \in 1 .. w
               /\ Sub(n, forward[w].seq) \in forward[w].sent .. forward[w].sent + f.part - 1
                     <=> a[w] <= Pos(n) /\ Pos(n) < b[w]
    <3>1. w = f.whole + 1 /\ w \in 1 .. w /\ ~(w <= f.whole) /\ f.part \in Nat
        BY <1>0, <2>2
    <3>2. /\ a[w] = Begins(w) /\ b[w] = Begins(w) + f.part
          /\ forward[w].seq \in U32 /\ Pos(forward[w].seq) \in Nat /\ forward[w].sent \in Nat
          /\ Begins(w) = Pos(forward[w].seq) + forward[w].sent /\ b[w] <= ClientBytes + 1
        BY <1>2, <1>3, <1>4, <3>1 DEF Begins
    <3>3. /\ a[w] = Pos(forward[w].seq) + forward[w].sent /\ b[w] = Pos(forward[w].seq) + (forward[w].sent + f.part)
          /\ forward[w].sent + f.part \in Nat /\ Pos(forward[w].seq) + (forward[w].sent + f.part) < Modulus
        BY <3>1, <3>2, Constants
    <3>4. Sub(n, forward[w].seq) \in forward[w].sent .. (forward[w].sent + f.part) - 1
                <=> a[w] <= Pos(n) /\ Pos(n) < b[w]
        BY <3>2, <3>3, PieceAt
    <3>5. (forward[w].sent + f.part) - 1 = forward[w].sent + f.part - 1
        BY <3>1, <3>2
    <3> QED BY <3>1, <3>4, <3>5
  <2>3. \A i \in 1 .. w : i \in 1 .. f.whole \/ (f.part > 0 /\ i = w)
      BY <1>0
  <2> QED BY <2>1, <2>2, <2>3 DEF ForwardedBytes
<1>10. ForwardedBytes(f, 1 .. f.whole) = {n \in U32 : w > 0 /\ r <= Pos(n) /\ Pos(n) < b[w]}
  <2>1. ForwardedBytes(f, 1 .. f.whole) \subseteq U32
      BY DEF ForwardedBytes
  <2>2. \A n \in U32 : Pos(n) \in Nat
      BY SubInRange, Constants DEF Pos, U32
  <2> QED BY <1>8, <1>9, <2>1, <2>2
<1>11. CASE w = 0
  <2>1. ForwardedBytes(f, 1 .. f.whole) = {}
      BY <1>10, <1>11
  <2>2. ForwardedSeq(f) = remote_seq
      BY <1>0, <1>11 DEF ForwardedSeq
  <2>3. Cardinality(ForwardedBytes(f, 1 .. f.whole)) = 0
      BY <2>1, FS_EmptySet
  <2> QED BY <1>7, <2>2, <2>3 DEF r
<1>12. CASE w > 0
  <2>1. w \in 1 .. w
      BY <1>0, <1>12
  <2>2. r <= b[w] /\ b[w] \in Nat /\ b[w] <= ClientBytes + 1
      BY <1>4, <1>8, <1>12, <2>1
  <2>3. ForwardedBytes(f, 1 .. f.whole) = {n \in U32 : r <= Pos(n) /\ Pos(n) < b[w]}
      BY <1>10, <1>12
  <2>4. Cardinality(ForwardedBytes(f, 1 .. f.whole)) = b[w] - r
      BY <1>7, <2>2, <2>3, PositionsCount, Constants
  <2>5. Pos(ForwardedSeq(f)) = b[w]
    <3>1. CASE f.part > 0
      <4> DEFINE s == forward[w]
      <4>1. w = f.whole + 1 /\ ForwardedSeq(f) = Add(s.seq, s.sent + f.part)
          BY <1>0, <3>1 DEF ForwardedSeq
      <4>2. b[w] = Pos(s.seq) + (s.sent + f.part) /\ s.seq \in U32 /\ Pos(s.seq) \in Nat
            /\ s.sent + f.part \in Nat
        <5>1. s.seq \in U32 /\ Pos(s.seq) \in Nat /\ s.sent \in Nat
            BY <1>2, <2>1
        <5>2. ~(w <= f.whole) /\ f.part \in Nat
            BY <1>0, <4>1
        <5>3. b[w] = Begins(w) + f.part
            BY <1>3, <2>1, <5>2
        <5>4. Begins(w) = Pos(s.seq) + s.sent
            BY DEF Begins
        <5> HIDE DEF s
        <5> QED BY <5>1, <5>2, <5>3, <5>4
      <4> HIDE DEF s
      <4>3. s.sent + f.part \in U32 /\ Pos(s.seq) + (s.sent + f.part) < Modulus
          BY <2>2, <4>2, Constants DEF U32
      <4> QED BY <4>1, <4>2, <4>3, SubOfSum, Constants DEF Pos
    <3>2. CASE f.part = 0
        BY <1>0, <1>1, <1>3, <1>12, <2>1, <3>2 DEF ForwardedSeq
    <3> QED BY <1>0, <3>1, <3>2
  <2> QED BY <1>7, <2>2, <2>4, <2>5 DEF r
<1> QED BY <1>0, <1>11, <1>12

(* The queue without its first k segments.                                 *)
LEMMA Remaining ==
  ASSUME NEW S, NEW q \in Seq(S), NEW k \in 0 .. Len(q)
  PROVE  LET rest == SubSeq(q, k + 1, Len(q))
         IN  /\ rest \in Seq(S) /\ DOMAIN rest = 1 .. Len(q) - k /\ Len(rest) = Len(q) - k
             /\ \A i \in DOMAIN rest : k + i \in 1 .. Len(q) /\ rest[i] = q[k + i]
<1> DEFINE rest == SubSeq(q, k + 1, Len(q))
<1>1. Len(q) \in Nat /\ \A i \in 1 .. Len(q) : q[i] \in S
    BY LenProperties, ElementOfSeq
<1>2. /\ rest \in Seq(S)
      /\ Len(rest) = IF k + 1 <= Len(q) THEN Len(q) - (k + 1) + 1 ELSE 0
      /\ \A i \in 1 .. Len(q) - (k + 1) + 1 : rest[i] = q[(k + 1) + i - 1]
    BY <1>1, SubSeqProperties
<1>3. DOMAIN rest = 1 .. Len(rest) /\ Len(rest) \in Nat
    BY <1>2, LenProperties
<1> HIDE DEF rest
<1>4. Len(rest) = Len(q) - k /\ Len(q) - (k + 1) + 1 = Len(q) - k
    BY <1>1, <1>2
<1>5. ASSUME NEW i \in 1 .. Len(q) - k
      PROVE rest[i] = q[k + i] /\ k + i \in 1 .. Len(q)
  <2>1. (k + 1) + i - 1 = k + i /\ k + i \in 1 .. Len(q)
      BY <1>1
  <2> QED BY <1>2, <1>4, <2>1
<1>6. /\ rest \in Seq(S) /\ DOMAIN rest = 1 .. Len(q) - k /\ Len(rest) = Len(q) - k
      /\ \A i \in DOMAIN rest : k + i \in 1 .. Len(q) /\ rest[i] = q[k + i]
    BY <1>2, <1>3, <1>4, <1>5
<1> QED BY <1>6 DEF rest

(* What remains in the queue lies in the stream.                           *)
LEMMA ForwardedInStream ==
  ASSUME TypeOK, QueueInStream, Streaming,
         NEW f \in ForwardOutcomes,
         f.part > 0 => 1 <= Pos(remote_seq) /\ Pos(remote_seq) <= ClientBytes + 1
  PROVE  \A i \in DOMAIN Forwarded(f) :
           SegmentInStream(Forwarded(f)[i]) /\ PartInStream(Forwarded(f)[i])
<1> DEFINE rest == SubSeq(forward, f.whole + 1, Len(forward))
<1>0. /\ f.whole \in 0 .. Len(forward) /\ f.part \in Nat /\ Len(forward) \in Nat
      /\ f.part > 0 =>
           /\ f.whole < Len(forward) /\ InOrder(f.whole + 1)
           /\ f.part < forward[f.whole + 1].len - forward[f.whole + 1].sent
  <2>1. /\ f.whole \in 0 .. Len(forward) /\ f.part \in 0 .. ClientBytes
        /\ f.part > 0 =>
             /\ f.whole < Len(forward) /\ InOrder(f.whole + 1)
             /\ f.part < forward[f.whole + 1].len - forward[f.whole + 1].sent
      BY DEF ForwardOutcomes
  <2>2. Len(forward) \in Nat /\ f.part \in Nat
      BY <2>1, LenProperties, Constants DEF TypeOK
  <2> QED BY <2>1, <2>2
<1>1. \A i \in 1 .. Len(forward) : /\ forward[i] \in Segment
                                   /\ SegmentInStream(forward[i]) /\ PartInStream(forward[i])
    BY LenProperties, ElementOfSeq DEF TypeOK, QueueInStream
<1>2. /\ rest \in Seq(Segment) /\ DOMAIN rest = 1 .. Len(rest) /\ Len(rest) \in Nat
      /\ Len(rest) = Len(forward) - f.whole
      /\ \A i \in DOMAIN rest : /\ rest[i] = forward[f.whole + i]
                                /\ f.whole + i \in 1 .. Len(forward)
  <2>1. forward \in Seq(Segment)
      BY DEF TypeOK
  <2>2. /\ rest \in Seq(Segment) /\ DOMAIN rest = 1 .. Len(forward) - f.whole
        /\ Len(rest) = Len(forward) - f.whole
        /\ \A i \in DOMAIN rest : /\ f.whole + i \in 1 .. Len(forward)
                                   /\ rest[i] = forward[f.whole + i]
      BY <1>0, <2>1, Remaining
  <2> HIDE DEF rest
  <2> QED BY <2>2, LenProperties
<1> HIDE DEF rest
<1>3. CASE f.part = 0
  <2>1. Forwarded(f) = rest
      BY <1>3 DEF Forwarded, rest
  <2> QED BY <1>1, <1>2, <2>1
<1>4. CASE f.part > 0
  <2>1. Forwarded(f) = [rest EXCEPT ![1].sent = @ + f.part]
    <3>1. f.part # 0
        BY <1>0, <1>4
    <3> QED BY <3>1 DEF Forwarded, rest
  <2>2. f.whole + 1 \in 1 .. Len(forward) /\ 1 \in DOMAIN rest /\ rest[1] = forward[f.whole + 1]
      BY <1>0, <1>2, <1>4
  <2>3. /\ DOMAIN Forwarded(f) = DOMAIN rest
        /\ Forwarded(f)[1] = [rest[1] EXCEPT !.sent = @ + f.part]
        /\ \A i \in DOMAIN rest : i # 1 => Forwarded(f)[i] = rest[i]
      BY <1>2, <2>1, <2>2
  <2>4. /\ rest[1] \in Segment /\ Forwarded(f)[1].seq = rest[1].seq
        /\ Forwarded(f)[1].len = rest[1].len
        /\ Forwarded(f)[1].sent = rest[1].sent + f.part
      BY <1>1, <2>2, <2>3 DEF Segment
  <2>5. SegmentInStream(rest[1]) /\ Pos(rest[1].seq) > 0
    <3>1. f.whole + 1 \in 0 .. Len(forward) /\ f.whole + 1 \in 1 .. f.whole + 1
        BY <1>0, <2>2
    <3>2. Pos(forward[f.whole + 1].seq) > 0
        BY <1>0, <1>4, <3>1, InOrderChain
    <3> QED BY <1>1, <2>2, <3>2
  <2>6. Forwarded(f)[1].sent < Forwarded(f)[1].len
    <3>1. rest[1].sent \in Nat /\ rest[1].len \in Nat
        BY <2>4, Constants DEF Segment, U32
    <3> QED BY <1>0, <1>4, <2>2, <2>4, <3>1
  <2>7. SegmentInStream(Forwarded(f)[1]) /\ PartInStream(Forwarded(f)[1])
      BY <2>4, <2>5, <2>6 DEF SegmentInStream, PartInStream
  <2> QED BY <1>1, <1>2, <2>3, <2>7
<1> QED BY <1>0, <1>3, <1>4

(* The segments that remain are those that were there, but for the count   *)
(* of what was sent.                                                       *)
LEMMA ForwardedSegments ==
  ASSUME TypeOK, QueueInStream, NEW f \in ForwardOutcomes
  PROVE  \A i \in DOMAIN Forwarded(f) : SegmentInStream(Forwarded(f)[i])
<1> DEFINE rest == SubSeq(forward, f.whole + 1, Len(forward))
<1>0. f.whole \in 0 .. Len(forward) /\ Len(forward) \in Nat
    BY LenProperties DEF ForwardOutcomes, TypeOK
<1>1. \A i \in 1 .. Len(forward) : forward[i] \in Segment /\ SegmentInStream(forward[i])
    BY LenProperties, ElementOfSeq DEF TypeOK, QueueInStream
<1>2. /\ DOMAIN rest = 1 .. Len(forward) - f.whole
      /\ \A i \in DOMAIN rest : /\ f.whole + i \in 1 .. Len(forward)
                                /\ rest[i] = forward[f.whole + i]
    BY <1>0, <1>1, Remaining
<1>3. \A i \in DOMAIN rest : rest[i] \in Segment /\ SegmentInStream(rest[i])
    BY <1>1, <1>2
<1>4. Forwarded(f) = IF f.part = 0 THEN rest ELSE [rest EXCEPT ![1].sent = @ + f.part]
    BY DEF Forwarded
<1> HIDE DEF rest
<1>5. CASE f.part = 0
    BY <1>3, <1>4, <1>5
<1>6. CASE f.part # 0
  <2>1. /\ DOMAIN Forwarded(f) = DOMAIN rest
        /\ \A i \in DOMAIN rest :
             Forwarded(f)[i] = IF i = 1 THEN [rest[1] EXCEPT !.sent = @ + f.part] ELSE rest[i]
      BY <1>4, <1>6
  <2>2. \A i \in DOMAIN rest : /\ Forwarded(f)[i].seq = rest[i].seq
                               /\ Forwarded(f)[i].len = rest[i].len
      BY <1>3, <2>1 DEF Segment
  <2> QED BY <1>3, <2>1, <2>2 DEF SegmentInStream
<1> QED BY <1>5, <1>6

(* Without forwarding the queue and remote_seq stay.                       *)
LEMMA ForwardedNothing ==
  ASSUME TypeOK, NEW f \in ForwardOutcomes
  PROVE  /\ ~(f.whole > 0 \/ f.part > 0) =>
              /\ Cardinality(ForwardedBytes(f, 1 .. f.whole)) = 0
              /\ ForwardedSeq(f) = remote_seq /\ Forwarded(f) = forward
         /\ f.whole > 0 \/ f.part > 0 => forward # <<>>
<1>1. /\ f.whole \in 0 .. Len(forward) /\ f.part \in 0 .. ClientBytes
      /\ f.part > 0 => f.whole < Len(forward)
      /\ Len(forward) \in Nat /\ f.whole \in Nat /\ f.part \in Nat
    BY LenProperties, Constants DEF ForwardOutcomes, TypeOK
<1>2. f.whole > 0 \/ f.part > 0 => forward # <<>>
    BY <1>1, EmptySeq DEF TypeOK
<1>3. ASSUME f.whole = 0, f.part = 0
      PROVE  /\ Cardinality(ForwardedBytes(f, 1 .. f.whole)) = 0
             /\ ForwardedSeq(f) = remote_seq /\ Forwarded(f) = forward
  <2>1. ForwardedBytes(f, 1 .. f.whole) = {}
      BY <1>3 DEF ForwardedBytes
  <2>2. ForwardedSeq(f) = remote_seq
      BY <1>3 DEF ForwardedSeq
  <2>3. Forwarded(f) = SubSeq(forward, 1, Len(forward))
      BY <1>3 DEF Forwarded
  <2>4. SubSeq(forward, 1, Len(forward)) = forward
      BY SubSeqFull DEF TypeOK
  <2> QED BY <2>1, <2>2, <2>3, <2>4, FS_EmptySet
<1> QED BY <1>1, <1>2, <1>3

(* What the session's event does once the socket is connected: forward f,  *)
(* and read in the state st that writing the acknowledgement has left.     *)
LEMMA ForwardStep ==
  ASSUME TypeOK, ForwardAndRead
  PROVE  \E f \in ForwardOutcomes, st \in {state, "CLOSING"} :
           LET fwd == f.whole > 0 \/ f.part > 0
               confirm == fwd /\ forward' = <<>> /\ state = "CLOSE_WAIT"
           IN /\ forward' = Forwarded(f)
              /\ sent' = sent + Cardinality(ForwardedBytes(f, 1 .. f.whole))
              /\ remote_seq' = IF confirm THEN Add(ForwardedSeq(f), 1) ELSE ForwardedSeq(f)
              /\ \/ ReadNothing(st)
                 \/ Readable(st) /\ (ReadData(st) \/ ReadEof(st))
<1>1. PICK f \in IF "OUT" \in flags THEN ForwardOutcomes ELSE {NoForward},
           opened \in BOOLEAN, ok \in BOOLEAN :
        LET fwd == f.whole > 0 \/ f.part > 0
            acking == fwd \/ opened
            confirm == fwd /\ forward' = <<>> /\ state = "CLOSE_WAIT"
            st == IF acking THEN Written(ok, state) ELSE state
        IN /\ forward' = Forwarded(f)
           /\ sent' = sent + Cardinality(ForwardedBytes(f, 1 .. f.whole))
           /\ remote_seq' = IF confirm THEN Add(ForwardedSeq(f), 1) ELSE ForwardedSeq(f)
           /\ \/ ReadNothing(st)
              \/ Readable(st) /\ (ReadData(st) \/ ReadEof(st))
    BY DEF ForwardAndRead
<1>2. f \in ForwardOutcomes
    BY NoForwardIsOutcome
<1> DEFINE st == IF (f.whole > 0 \/ f.part > 0) \/ opened THEN Written(ok, state) ELSE state
<1>3. st \in {state, "CLOSING"}
    BY DEF Written
<1> HIDE DEF st
<1>4. \/ ReadNothing(st)
      \/ Readable(st) /\ (ReadData(st) \/ ReadEof(st))
    BY <1>1 DEF st
<1> QED BY <1>1, <1>2, <1>3, <1>4

LEMMA StreamForward ==
  ASSUME StreamInv, ForwardAndRead
  PROVE  Waiting' /\ QueueInStream' /\ Accounts'
<1> USE DEF StreamInv
<1>0. /\ TypeOK /\ TypeOK' /\ SocketAgreesWithState /\ TypeInv /\ NoDataBeforeTunnel
    BY InductiveNext DEF IInv, TypeInv, Next, Loop, SocketEvent
<1>1. socket # "none" /\ flags # {} /\ "ERR" \notin flags /\ state # "LISTEN"
  <2>1. SocketTurn /\ "ERR" \notin flags /\ state # "LISTEN"
      BY DEF ForwardAndRead
  <2>2. SocketEventPending
      BY <1>0, <2>1, OneEvent DEF SocketTurn, Turn
  <2> QED BY <2>1, <2>2 DEF IInv, EventHasSession, SocketEventPending
<1>2. state \in {"ESTABLISHED", "CLOSE_WAIT", "CLOSING"} /\ ~Untunnelled
    BY <1>0, <1>1 DEF SocketAgreesWithState, TypeOK, States, Waiting, Quiet
<1>3. PICK f \in ForwardOutcomes, st \in {state, "CLOSING"} :
        LET fwd == f.whole > 0 \/ f.part > 0
            confirm == fwd /\ forward' = <<>> /\ state = "CLOSE_WAIT"
        IN /\ forward' = Forwarded(f)
           /\ sent' = sent + Cardinality(ForwardedBytes(f, 1 .. f.whole))
           /\ remote_seq' = IF confirm THEN Add(ForwardedSeq(f), 1) ELSE ForwardedSeq(f)
           /\ \/ ReadNothing(st)
              \/ Readable(st) /\ (ReadData(st) \/ ReadEof(st))
    BY <1>0, ForwardStep
<1>4. connect_sent' = connect_sent /\ local_start' = local_start /\ acked' = acked
    BY DEF ForwardAndRead
<1>5. CASE state' = "CLOSING"
  <2>1. ~(Tunnel /\ connect_sent' = "NOT_SENT" /\ Synchronized')
    <3>1. CASE state = "CLOSING"
      <4>1. local_seq' = local_seq
          BY <1>3, <3>1 DEF ReadNothing, Readable
      <4> QED BY <1>2, <1>4, <3>1, <4>1 DEF Untunnelled, Synchronized
    <3>2. CASE state # "CLOSING"
        BY <1>0, <1>2, <1>4, <3>2 DEF NoDataBeforeTunnel, PreTunnel
    <3> QED BY <3>1, <3>2
  <2>2. \A i \in DOMAIN forward' : SegmentInStream(forward[i])'
    <3> SUFFICES \A i \in DOMAIN Forwarded(f) : SegmentInStream(Forwarded(f)[i])
        BY <1>3 DEF SegmentInStream
    <3> QED BY <1>0, ForwardedSegments
  <2> QED BY <1>4, <1>5, <2>1, <2>2, StreamGivenUp DEF Waiting, ConnectForTunnel
<1>6. CASE state' # "CLOSING"
  <2>1. /\ state \in {"ESTABLISHED", "CLOSE_WAIT"} /\ st = state
        /\ state' \in {"ESTABLISHED", "CLOSE_WAIT", "FIN_WAIT1", "LAST_ACK"}
        /\ Streaming /\ Streaming'
      BY <1>2, <1>3, <1>6 DEF ReadNothing, Readable, ReadData, ReadEof, Written, Streaming
  <2>2. /\ Pos(remote_seq) = 1 + sent + Count(state = "CLOSE_WAIT" /\ forward = <<>>)
        /\ Sub(local_seq, local_start) = 1 + received
        /\ sent \in Nat /\ sent <= ClientBytes
      BY <1>0, <2>1, Constants DEF Accounts, StreamBounds, SequenceAccounting, Count, Pos, TypeOK
  <2> DEFINE moved == f.whole > 0 \/ f.part > 0
             n == Cardinality(ForwardedBytes(f, 1 .. f.whole))
  <2>3. /\ ~moved => n = 0 /\ ForwardedSeq(f) = remote_seq /\ (forward' = <<>> <=> forward = <<>>)
        /\ moved => forward # <<>>
      BY <1>0, <1>3, ForwardedNothing
  <2>4. moved => /\ Pos(remote_seq) = 1 + sent
                 /\ Pos(ForwardedSeq(f)) = 1 + sent + n /\ n \in Nat /\ sent + n <= ClientBytes
    <3>1. SUFFICES ASSUME moved PROVE
                 /\ Pos(remote_seq) = 1 + sent
                 /\ Pos(ForwardedSeq(f)) = 1 + sent + n /\ n \in Nat /\ sent + n <= ClientBytes
        OBVIOUS
    <3>2. Pos(remote_seq) = 1 + sent
        BY <2>2, <2>3, <3>1 DEF Count
    <3>3. n \in Nat
        BY <1>0, ForwardType
    <3> HIDE DEF n
    <3>4. 1 <= Pos(remote_seq) /\ Pos(remote_seq) <= ClientBytes + 1
        BY <2>2, <3>2, Constants
    <3>5. /\ Pos(ForwardedSeq(f)) = Pos(remote_seq) + n
          /\ Pos(ForwardedSeq(f)) <= ClientBytes + 1
        BY <1>0, <2>1, <3>4, ForwardNumbers DEF n
    <3> QED BY <2>2, <3>2, <3>3, <3>5, Constants
  <2>5. QueueInStream'
    <3>1. f.part > 0 => 1 <= Pos(remote_seq) /\ Pos(remote_seq) <= ClientBytes + 1
        BY <2>2, <2>4, Constants
    <3>2. \A i \in DOMAIN Forwarded(f) :
           SegmentInStream(Forwarded(f)[i]) /\ PartInStream(Forwarded(f)[i])
        BY <1>0, <2>1, <3>1, ForwardedInStream
    <3> QED BY <1>3, <3>2 DEF QueueInStream, SegmentInStream, PartInStream
  <2>6. Waiting'
      BY <1>4, <2>1 DEF Waiting, ConnectForTunnel, Quiet, HandshakeCounts, Handshaken, Untunnelled
  <2>7. /\ sent' = sent + n /\ sent' \in Nat /\ sent' <= ClientBytes
        /\ forward' = <<>> /\ state = "CLOSE_WAIT" => Pos(remote_seq') = 1 + sent' + 1
        /\ ~(forward' = <<>> /\ state = "CLOSE_WAIT") => Pos(remote_seq') = 1 + sent'
    <3>1. sent' = sent + n
        BY <1>3
    <3> HIDE DEF n
    <3>2. CASE ~moved
        BY <1>3, <2>2, <2>3, <3>1, <3>2 DEF Count
    <3>3. CASE moved
      <4>1. ForwardedSeq(f) \in U32
          BY <1>0, ForwardType
      <4>2. Pos(Add(ForwardedSeq(f), 1)) = 1 + sent' + 1
        <5>1. Sub(ForwardedSeq(f), RemoteStart) + 1 < Modulus
            BY <2>2, <2>4, <3>1, <3>3, Constants DEF Pos
        <5> QED BY <2>2, <2>4, <3>1, <3>3, <4>1, <5>1, SubOfSum, Constants DEF Pos
      <4> QED BY <1>3, <2>2, <2>4, <3>1, <3>3, <4>2
    <3> QED BY <3>2, <3>3
  <2>8. /\ Sub(local_seq', local_start) = 1 + received' + Count(state' \in {"FIN_WAIT1", "LAST_ACK"})
        /\ Sub(local_seq, local_start) <= Sub(local_seq', local_start)
        /\ \/ state' = state
           \/ state = "ESTABLISHED" /\ state' = "FIN_WAIT1"
           \/ state = "CLOSE_WAIT" /\ state' = "LAST_ACK" /\ forward' = <<>>
    <3>0. local_seq \in U32 /\ local_start \in U32 /\ received \in 0 .. ServerBytes
        BY <1>0 DEF TypeOK
    <3>1. CASE ReadNothing(st)
        BY <1>6, <2>1, <2>2, <3>0, <3>1, Constants DEF ReadNothing, Count
    <3>2. CASE ReadData(st)
      <4>1. PICK m \in 1 .. ServerBytes, ok \in BOOLEAN :
              /\ received + m <= ServerBytes
              /\ received' = received + m
              /\ local_seq' = IF ok THEN Add(local_seq, m) ELSE local_seq
              /\ state' = Written(ok, st)
          BY <3>2 DEF ReadData
      <4>2. ok = TRUE /\ state' = state
          BY <1>6, <2>1, <4>1 DEF Written
      <4>3. m \in U32 /\ Sub(local_seq, local_start) + m < Modulus
          BY <2>2, <3>0, <4>1, Constants DEF U32
      <4>4. Sub(Add(local_seq, m), local_start) = Sub(local_seq, local_start) + m
          BY <3>0, <4>3, SubOfSum
      <4> QED BY <2>1, <2>2, <3>0, <4>1, <4>2, <4>4, Constants DEF Count
    <3>3. CASE ReadEof(st)
      <4>1. /\ forward' = <<>> /\ local_seq' = Add(local_seq, 1) /\ received' = received
            /\ state' = IF state = "ESTABLISHED" THEN "FIN_WAIT1" ELSE "LAST_ACK"
          BY <1>6, <2>1, <3>3 DEF ReadEof
      <4>2. Sub(local_seq, local_start) + 1 < Modulus
          BY <2>2, <3>0, Constants
      <4>3. Sub(Add(local_seq, 1), local_start) = Sub(local_seq, local_start) + 1
          BY <3>0, <4>2, SubOfSum, Constants
      <4> QED BY <2>1, <2>2, <3>0, <4>1, <4>3, Constants DEF Count
    <3> QED BY <1>3, <3>1, <3>2, <3>3
  <2>9. SequenceAccounting'
    <3>1. Pos(remote_seq') = 1 + sent' + Count(\/ state' = "LAST_ACK"
                                               \/ state' = "CLOSE_WAIT" /\ forward' = <<>>)
        BY <2>1, <2>7, <2>8 DEF Count
    <3> QED BY <1>4, <2>8, <3>1 DEF SequenceAccounting, Pos, Count
  <2>10. StreamBounds'
    <3>1. /\ Sub(acked, local_start) \in 1 .. Sub(local_seq, local_start)
          /\ Sub(local_seq, local_start) \in Nat /\ Sub(local_seq', local_start) \in Nat
      <4>1. Sub(local_seq, local_start) \in U32 /\ Sub(local_seq', local_start) \in U32
          BY <1>0, <1>4, SubInRange DEF TypeOK
      <4> QED BY <2>1, <4>1, Constants DEF Accounts, StreamBounds, U32
    <3>2. Sub(acked, local_start) \in 1 .. Sub(local_seq', local_start)
        BY <2>8, <3>1
    <3> QED BY <1>4, <2>7, <3>2 DEF StreamBounds
  <2> QED BY <2>5, <2>6, <2>9, <2>10 DEF Accounts
<1> QED BY <1>5, <1>6

LEMMA StreamNext == StreamInv /\ [Next]_vars => StreamInv'
<1> SUFFICES ASSUME StreamInv, [Next]_vars PROVE StreamInv'
    OBVIOUS
<1>1. IInv'
    BY InductiveNext DEF StreamInv
<1>2. CASE ClientPacket
  <2>1. PICK p \in ClientPackets : handle_tcp(p)
      BY <1>2 DEF ClientPacket
  <2> QED BY <1>1, <1>2, <2>1, StreamPacket DEF ClientPacket, Turn, StreamInv
<1>3. CASE SocketEvent
    BY <1>1, <1>3, StreamSocket, StreamForward DEF SocketEvent, StreamInv
<1>4. CASE UNCHANGED vars
  <2>1. Quiet'
      BY <1>4 DEF vars, tcp, StreamInv, Waiting, Quiet, Untunnelled, Synchronized
  <2> QED BY <1>1, <1>4, <2>1, StreamFrame DEF vars, StreamInv
<1>5. CASE Next /\ ~ClientPacket /\ ~SocketEvent
    BY <1>1, <1>5, StreamLoop DEF Next, Loop, StreamInv
<1> QED BY <1>2, <1>3, <1>4, <1>5

LEMMA StreamAlways == Spec => []StreamInv
  BY StreamInit, StreamNext, PTL DEF Spec

(* Once the handshake is done the numbers of both directions count every   *)
(* byte once: remote_seq is the client's SYN, the bytes counted as sent,   *)
(* and its FIN as soon as no byte before it is queued; local_seq is our    *)
(* SYN, the bytes read from the server, and our FIN.                       *)
THEOREM SequenceCorrect == Spec => []SequenceAccounting
<1>1. StreamInv => SequenceAccounting
    BY DEF StreamInv, Accounts
<1> QED BY <1>1, StreamAlways, PTL

-----------------------------------------------------------------------------
(* The numbers only advance. *)

(* What an action does to the numbers of a session that stays open.        *)
LEMMA NumbersAdvance ==
  ASSUME StreamInv, Next, {state, state'} \subseteq Open \ {"LISTEN"}
  PROVE  /\ \/ remote_seq' \in {remote_seq, Add(remote_seq, 1)}
            \/ /\ Streaming /\ state # "LAST_ACK" /\ Streaming' /\ sent <= sent'
               /\ state = "CLOSE_WAIT" /\ forward = <<>> => remote_seq' = remote_seq
         /\ \/ local_seq' \in {local_seq, Add(local_seq, 1)}
            \/ \E n \in 1 .. ServerBytes : /\ n <= Mss /\ n <= get_send_window
                                           /\ local_seq' = Add(local_seq, n)
                                           /\ state' = state
                                           /\ state \in {"ESTABLISHED", "CLOSE_WAIT"}
                                           /\ UNCHANGED <<local_start, acked, send_window>>
<1> USE DEF StreamInv
<1>0. TypeOK /\ TypeInv /\ SocketAgreesWithState
    BY DEF IInv, TypeInv
<1>1. CASE ClientPacket
  <2>1. PICK p \in ClientPackets : handle_tcp(p)
      BY <1>1 DEF ClientPacket
  <2>2. CASE NewSession(p) \/ SendConnect(p)
      BY <2>2 DEF NewSession, SendConnect
  <2>3. CASE SendConnectFails(p) \/ AwaitTunnel(p)
      BY <2>3 DEF SendConnectFails, AwaitTunnel, ResetSeq
  <2>4. CASE Receive(p)
      BY <2>1, <2>4 DEF Receive, handle_tcp, NewSession, SendConnect, SendConnectFails,
         AwaitTunnel, BeforeTunnel, PreTunnel, RefuseData, Accept, ReceiveRst, RepeatedSyn,
         ReceiveFin, ReceiveAck, ReceiveOldAck, ReceiveFutureAck, ResetSeq
  <2> QED BY <2>1, <2>2, <2>3, <2>4 DEF handle_tcp, RefuseData, Accept, ReceiveRst, RepeatedSyn,
         ReceiveFin, ReceiveAck, ReceiveOldAck, ReceiveFutureAck
<1>2. CASE ForwardAndRead
  <2>1. PICK f \in ForwardOutcomes, st \in {state, "CLOSING"} :
          /\ forward' = Forwarded(f)
          /\ sent' = sent + Cardinality(ForwardedBytes(f, 1 .. f.whole))
          /\ ~(f.whole > 0 \/ f.part > 0) => remote_seq' = ForwardedSeq(f)
          /\ \/ ReadNothing(st)
             \/ Readable(st) /\ (ReadData(st) \/ ReadEof(st))
      BY <1>0, <1>2, ForwardStep
  <2>2. st = state
      BY <2>1 DEF ReadNothing, Readable, Open
  <2>3. socket # "none" /\ flags # {} /\ "ERR" \notin flags
    <3>1. SocketTurn /\ "ERR" \notin flags
        BY <1>2 DEF ForwardAndRead
    <3>2. SocketEventPending
        BY <1>0, <3>1, OneEvent DEF SocketTurn, Turn
    <3> QED BY <3>1, <3>2 DEF IInv, EventHasSession, SocketEventPending
  <2>4. state \in {"ESTABLISHED", "CLOSE_WAIT"}
      BY <1>0, <2>3 DEF SocketAgreesWithState, Waiting, Quiet, Open
  <2>5. Streaming /\ Streaming'
      BY <2>1, <2>2, <2>4 DEF Streaming, ReadNothing, Readable, ReadData, ReadEof, Written, Open
  <2>6. sent <= sent'
    <3>1. Cardinality(ForwardedBytes(f, 1 .. f.whole)) \in Nat /\ sent \in Nat
        BY <1>0, ForwardType DEF TypeOK
    <3> QED BY <2>1, <3>1
  <2>7. forward = <<>> => remote_seq' = remote_seq
      BY <1>0, <2>1, ForwardedNothing
  <2>8. /\ local_seq' = local_seq \/ local_seq' = Add(local_seq, 1)
           \/ \E n \in 1 .. ServerBytes : /\ n <= Mss /\ n <= get_send_window
                                          /\ local_seq' = Add(local_seq, n)
                                          /\ state' = state
        /\ UNCHANGED <<local_start, acked, send_window>>
    <3>1. CASE ReadNothing(st)
        BY <1>2, <3>1 DEF ReadNothing, ForwardAndRead
    <3>2. CASE ReadData(st)
        BY <1>2, <2>2, <3>2 DEF ReadData, Written, Open, ForwardAndRead
    <3>3. CASE ReadEof(st)
        BY <1>2, <3>3 DEF ReadEof, ForwardAndRead
    <3> QED BY <2>1, <3>1, <3>2, <3>3
  <2> QED BY <2>4, <2>5, <2>6, <2>7, <2>8
<1>3. CASE Next /\ ~ClientPacket /\ ~ForwardAndRead
  <2>1. CASE CloseSession \/ FreeSession \/ Clear \/ StartLoop \/ KeepClosed
      BY <2>1 DEF CloseSession, FreeSession, Clear, StartLoop, KeepClosed, Forget, Reset, Open
  <2>2. CASE SocketError \/ TunnelOpened \/ TunnelRefused \/ SendSynAck
      BY <2>2 DEF SocketError, TunnelOpened, TunnelRefused, SendSynAck, Reset, Open
  <2>3. CASE UNCHANGED tcp
      BY <2>3 DEF tcp
  <2> QED BY <1>3, <2>1, <2>2, <2>3
          DEF Next, Loop, SocketEvent, MonitorSession, NothingToMonitor, SkipCheck, KeepSession,
              Poll, TunDrained, LoopFails, Connected, Age
<1> QED BY <1>1, <1>2, <1>3

(* A single step takes less than half of the circle: the client's stream   *)
(* is shorter, and the segment size, 16 bits of an option, is.             *)
SmallSteps == ClientBytes + 1 < Half /\ Mss < Half

(* What is taken from the client and written to it advances: no packet and *)
(* no event, in any order, takes remote_seq or local_seq back while the    *)
(* session is open.                                                        *)
THEOREM AdvanceCorrect == ASSUME SmallSteps PROVE Spec => NeverBackwards
<1> DEFINE Advances == {state, state'} \subseteq Open \ {"LISTEN"}
                         => /\ Sub(remote_seq', remote_seq) < Half
                            /\ Sub(local_seq', local_seq) < Half
<1>1. ASSUME NEW s \in U32 PROVE Sub(s, s) = 0 /\ Sub(Add(s, 1), s) = 1 /\ Half > 1
    BY Constants, SubOfAdd DEF Sub, U32
<1>2. StreamInv /\ StreamInv' /\ [Next]_vars => [Advances]_vars
  <2> SUFFICES ASSUME StreamInv, StreamInv', Next, {state, state'} \subseteq Open \ {"LISTEN"}
               PROVE  /\ Sub(remote_seq', remote_seq) < Half
                      /\ Sub(local_seq', local_seq) < Half
      OBVIOUS
  <2>0. TypeOK /\ TypeOK'
      BY DEF StreamInv, IInv
  <2>1. Sub(local_seq', local_seq) < Half
    <3>1. CASE local_seq' \in {local_seq, Add(local_seq, 1)}
        BY <1>1, <2>0, <3>1, Constants DEF TypeOK
    <3>2. ASSUME NEW n \in 1 .. ServerBytes, n <= Mss, local_seq' = Add(local_seq, n)
          PROVE  Sub(local_seq', local_seq) < Half
      <4>1. n \in U32 /\ n < Half
          BY <3>2, Constants, WindowAssumption DEF SmallSteps, U32
      <4> QED BY <2>0, <3>2, <4>1, SubOfAdd DEF TypeOK
    <3> QED BY <3>1, <3>2, NumbersAdvance
  <2>2. Sub(remote_seq', remote_seq) < Half
    <3>1. CASE remote_seq' \in {remote_seq, Add(remote_seq, 1)}
        BY <1>1, <2>0, <3>1, Constants DEF TypeOK
    <3>2. CASE /\ Streaming /\ state # "LAST_ACK" /\ Streaming' /\ sent <= sent'
               /\ state = "CLOSE_WAIT" /\ forward = <<>> => remote_seq' = remote_seq
               /\ remote_seq' # remote_seq
      <4>1. Pos(remote_seq) = 1 + sent /\ sent \in Nat
          BY <2>0, <3>2
             DEF TypeOK, StreamInv, Accounts, SequenceAccounting, Streaming, Pos, Count
      <4>2. sent' \in Nat /\ sent' <= ClientBytes /\ Pos(remote_seq') \in {1 + sent', 2 + sent'}
        <5>1. sent' \in Nat /\ sent' <= ClientBytes
            BY <2>0, <3>2 DEF TypeOK, StreamInv, Accounts, StreamBounds
        <5>2. Pos(remote_seq') \in {1 + sent', 1 + sent' + 1}
            BY <3>2, <5>1 DEF StreamInv, Accounts, SequenceAccounting, Streaming, Pos, Count
        <5> QED BY <5>1, <5>2
      <4>3. Sub(remote_seq', remote_seq) =
              IF Pos(remote_seq') >= Pos(remote_seq)
              THEN Pos(remote_seq') - Pos(remote_seq)
              ELSE Pos(remote_seq') - Pos(remote_seq) + Modulus
          BY <2>0, SubOfSubs, Constants DEF Pos, TypeOK
      <4>4. /\ Pos(remote_seq') >= Pos(remote_seq)
            /\ Pos(remote_seq') - Pos(remote_seq) <= ClientBytes + 1
          BY <3>2, <4>1, <4>2, Constants
      <4> QED BY <4>1, <4>2, <4>3, <4>4, Constants DEF SmallSteps
    <3> QED BY <3>1, <3>2, NumbersAdvance
  <2> QED BY <2>1, <2>2
<1> QED BY <1>2, StreamAlways, PTL DEF Spec, NeverBackwards

-----------------------------------------------------------------------------
(* The client's window. *)

(* What may be in flight is less than a quarter of the circle.  An old     *)
(* acknowledgement can take acked back, across 2^31, so that the window    *)
(* alone does not bound what is in flight.                                 *)
SmallFlight == 2 * ServerBytes <= Half /\ ServerBytes < MaxInt

(* get_send_window never offers more than the window leaves.               *)
LEMMA WindowLeft ==
  ASSUME SmallFlight, TypeOK, StreamBounds, Streaming,
         Sub(local_seq, local_start) <= 1 + ServerBytes, get_send_window > 0
  PROVE  /\ Sub(local_seq, acked) \in 0 .. ServerBytes
         /\ get_send_window + Sub(local_seq, acked) <= send_window
<1> DEFINE d == Sub(local_seq, acked)
<1>1. /\ local_seq \in U32 /\ acked \in U32 /\ local_start \in U32 /\ send_window \in Nat
      /\ d \in U32 /\ d \in Nat
  <2>1. /\ local_seq \in U32 /\ acked \in U32 /\ local_start \in U32 /\ send_window \in Nat
      BY DEF TypeOK
  <2>2. d \in U32
      BY <2>1, SubInRange
  <2>3. d \in Nat
      BY <2>2, Constants DEF U32
  <2> QED BY <2>1, <2>2, <2>3
<1>2. d <= ServerBytes
  <2>1. d = IF Sub(local_seq, local_start) >= Sub(acked, local_start)
            THEN Sub(local_seq, local_start) - Sub(acked, local_start)
            ELSE Sub(local_seq, local_start) - Sub(acked, local_start) + Modulus
      BY <1>1, SubOfSubs
  <2>2. /\ Sub(local_seq, local_start) \in Nat
        /\ Sub(acked, local_start) \in 1 .. Sub(local_seq, local_start)
      BY <1>1, SubInRange, Constants DEF StreamBounds, U32
  <2> HIDE DEF d
  <2> QED BY <2>1, <2>2, Constants
<1>3. CASE compare_u32(acked, local_seq) <= 0
  <2>1. get_send_window = IF d < send_window THEN send_window - d ELSE 0
      BY <1>3 DEF get_send_window
  <2> HIDE DEF d
  <2>2. get_send_window = send_window - d
      BY <2>1
  <2>3. get_send_window + d <= send_window
      BY <1>1, <2>2
  <2> QED BY <1>1, <1>2, <2>3, Constants DEF d
<1>4. CASE ~(compare_u32(acked, local_seq) <= 0)
  <2>1. get_send_window = IF acked < send_window THEN send_window - acked ELSE 0
      BY <1>4 DEF get_send_window
  <2>2. d <= acked
    <3>1. acked # local_seq
        BY <1>4 DEF compare_u32
    <3>2. CASE Signed(acked) < Signed(local_seq)
      <4>1. ~LessThanMax(Signed(local_seq) - Signed(acked))
          BY <1>4, <3>1, <3>2 DEF compare_u32
      <4>2. Signed(local_seq) - Signed(acked) >= MaxInt
          BY <1>1, <4>1, HalfAssumption DEF LessThanMax, Signed, U32, Modulus, MaxInt
      <4>3. d = Signed(local_seq) - Signed(acked)
          BY <1>1, <3>2, HalfAssumption DEF Signed, U32, Modulus, Sub
      <4> HIDE DEF d
      <4> QED BY <1>1, <1>2, <4>2, <4>3, Constants DEF SmallFlight, MaxInt
    <3>3. CASE ~(Signed(acked) < Signed(local_seq))
      <4>1. d = Modulus - (Signed(acked) - Signed(local_seq))
          BY <1>1, <3>1, <3>3, HalfAssumption DEF Signed, U32, Modulus, Sub
      <4>2. /\ Signed(local_seq) >= -Half /\ Signed(local_seq) \in Int
            /\ Signed(acked) \in Int /\ (Signed(acked) >= 0 => acked = Signed(acked))
          BY <1>1, HalfAssumption DEF Signed, U32, Modulus
      <4> HIDE DEF d
      <4> QED BY <1>1, <1>2, <4>1, <4>2, Constants DEF SmallFlight, Modulus
    <3> QED BY <3>2, <3>3
  <2> HIDE DEF d
  <2>3. get_send_window = send_window - acked /\ acked \in Nat
      BY <1>1, <2>1, Constants DEF U32
  <2>4. get_send_window + d <= send_window
      BY <1>1, <2>2, <2>3
  <2> QED BY <1>1, <1>2, <2>4, Constants DEF d
<1> QED BY <1>3, <1>4

(* What is written to the client and not acknowledged stays within the     *)
(* window it advertised last, whichever acknowledgements were lost or came *)
(* late, and although compare_u32 may take acked for later than local_seq. *)
THEOREM WindowCorrect == ASSUME SmallFlight PROVE Spec => WithinWindow
<1> DEFINE Fits == local_seq' # local_seq /\ state' \in {"ESTABLISHED", "CLOSE_WAIT"}
                     => Sub(local_seq', acked') <= send_window'
<1>1. StreamInv /\ [Next]_vars => [Fits]_vars
  <2> SUFFICES ASSUME StreamInv, Next, local_seq' # local_seq,
                      state' \in {"ESTABLISHED", "CLOSE_WAIT"}
               PROVE  Sub(local_seq', acked') <= send_window'
      OBVIOUS
  <2>0. TypeOK
      BY DEF StreamInv, IInv
  <2>1. ForwardAndRead
      BY DEF Next, Loop, ClientPacket, handle_tcp, NewSession, SendConnect, SendConnectFails,
             AwaitTunnel, RefuseData, Accept, Receive, ReceiveRst, RepeatedSyn, ReceiveFin,
             ReceiveAck, ReceiveOldAck, ReceiveFutureAck, SocketEvent, SocketError,
             TunnelOpened, TunnelRefused, SendSynAck, MonitorSession, NothingToMonitor,
             SkipCheck, CloseSession, KeepClosed, FreeSession, KeepSession, Poll, TunDrained,
             LoopFails, StartLoop, Clear, Connected, Age, Forget, tcp
  <2>2. PICK st \in {state, "CLOSING"} :
          ReadNothing(st) \/ (Readable(st) /\ (ReadData(st) \/ ReadEof(st)))
      BY <2>0, <2>1, ForwardStep
  <2>3. Readable(st) /\ ReadData(st)
    <3>1. ~ReadNothing(st)
        BY DEF ReadNothing
    <3>2. ~ReadEof(st)
        BY DEF ReadEof
    <3> QED BY <2>2, <3>1, <3>2
  <2>4. PICK n \in 1 .. ServerBytes : /\ n <= get_send_window /\ local_seq' = Add(local_seq, n)
                                      /\ state' = st
      BY <2>3 DEF ReadData, Written
  <2>5. /\ state \in {"ESTABLISHED", "CLOSE_WAIT"} /\ acked' = acked
        /\ send_window' = send_window /\ get_send_window > 0
      BY <2>1, <2>2, <2>3, <2>4 DEF Readable, ForwardAndRead
  <2>6. Sub(local_seq, local_start) <= 1 + ServerBytes
      BY <2>0, <2>5, Constants DEF StreamInv, Accounts, SequenceAccounting, Count, TypeOK
  <2>7. /\ Sub(local_seq, acked) \in 0 .. ServerBytes
        /\ get_send_window + Sub(local_seq, acked) <= send_window
      BY <2>0, <2>5, <2>6, WindowLeft DEF StreamInv, Accounts, Streaming
  <2>8. Sub(Add(local_seq, n), acked) = Sub(local_seq, acked) + n
    <3>1. local_seq \in U32 /\ acked \in U32 /\ n \in U32
        BY <2>0, Constants DEF TypeOK, U32
    <3>2. Sub(local_seq, acked) + n < Modulus
        BY <2>7, Constants DEF SmallFlight, Modulus
    <3> QED BY <3>1, <3>2, SubOfSum
  <2>9. get_send_window \in Int /\ send_window \in Nat
      BY <2>0, SubInRange, Constants DEF get_send_window, TypeOK, U32
  <2> QED BY <2>4, <2>5, <2>7, <2>8, <2>9
<1> QED BY <1>1, StreamAlways, PTL DEF Spec, WithinWindow

-----------------------------------------------------------------------------
(* The order of the queue. *)

(* The client's numbers do not go from 2^31 - 1 to 2^31, and there are     *)
(* fewer than that: elsewhere compare_u32 does not order them.             *)
OneSign == /\ Signed(RemoteStart) + ClientBytes + 2 <= MaxInt
           /\ ClientBytes + 2 < MaxInt

(* compare_u32 tells the order of two places in the client's stream.       *)
LEMMA CompareInStream ==
  ASSUME OneSign, NEW s \in U32, NEW t \in U32,
         Pos(s) <= ClientBytes + 2, Pos(t) <= ClientBytes + 2
  PROVE  compare_u32(s, t) < 0 <=> Pos(s) < Pos(t)
<1>1. /\ Pos(s) \in Nat /\ Pos(t) \in Nat /\ Signed(RemoteStart) \in Int
      /\ ClientBytes \in Nat /\ Half \in Nat /\ Half > 1
    BY SubInRange, Constants DEF Pos, U32, Signed
<1>2. ASSUME NEW x \in U32, Pos(x) <= ClientBytes + 2
      PROVE  Signed(x) = Signed(RemoteStart) + Pos(x)
    BY <1>2, Constants DEF OneSign, Pos, Sub, Signed, MaxInt, U32, Modulus
<1>3. Signed(s) - Signed(t) = Pos(s) - Pos(t)
    BY <1>1, <1>2
<1>4. Close(s, t)
    BY <1>1, <1>3 DEF Close, OneSign, MaxInt
<1>5. compare_u32(s, t) = SerialCompare(s, t)
    BY <1>4, CompareCloseIsSerial DEF CompareIsSerial
<1>6. Sub(t, s) = IF Pos(t) >= Pos(s) THEN Pos(t) - Pos(s) ELSE Pos(t) - Pos(s) + Modulus
    BY SubOfSubs, Constants DEF Pos
<1>7. s = t <=> Pos(s) = Pos(t)
    BY SubInjective, Constants DEF Pos
<1>8. Sub(t, s) < Half <=> Pos(t) >= Pos(s)
    BY <1>1, <1>6 DEF OneSign, MaxInt, Modulus
<1> QED BY <1>1, <1>5, <1>7, <1>8 DEF SerialCompare, SerialLess

(* queue_tcp puts a segment where it belongs.                              *)
LEMMA QueueOrder ==
  ASSUME OneSign, TypeOK, QueueInStream, QueueInOrder,
         NEW p \in ClientPackets, NEW next, queue_tcp(next, p)
  PROVE  QueueInOrder'
<1>1. PICK place \in 1 .. Len(forward) + 1 :
        /\ \A i \in 1 .. place - 1 : compare_u32(forward[i].seq, p.seq) < 0
        /\ place <= Len(forward) => compare_u32(forward[place].seq, p.seq) >= 0
        /\ \/ forward' = forward
           \/ /\ place <= Len(forward) => forward[place].seq # p.seq
              /\ forward' = InsertAt(forward, place, Entry(p))
    BY DEF queue_tcp
<1>2. CASE forward' = forward
    BY <1>2 DEF QueueInOrder
<1>3. CASE /\ place <= Len(forward) => forward[place].seq # p.seq
           /\ forward' = InsertAt(forward, place, Entry(p))
  <2>1. /\ Len(forward) \in Nat /\ DOMAIN forward = 1 .. Len(forward)
        /\ Entry(p) \in Segment /\ p.seq \in U32 /\ Entry(p).seq = p.seq
        /\ Pos(p.seq) <= ClientBytes + 2 /\ Pos(p.seq) \in Nat
    <3>1. p \in PacketType /\ SegmentInStream(Entry(p))
        BY ClientPacketType, PacketInStream
    <3>2. p.seq \in U32
        BY <3>1 DEF PacketType
    <3>3. Entry(p) \in Segment /\ Entry(p).seq = p.seq
        BY <3>1, Constants DEF Entry, Segment, PacketType
    <3>4. Pos(p.seq) <= ClientBytes + 2 /\ Pos(p.seq) \in Nat
        BY <3>1, <3>2, <3>3, PosRange DEF SegmentInStream
    <3>5. Len(forward) \in Nat /\ DOMAIN forward = 1 .. Len(forward)
        BY LenProperties DEF TypeOK
    <3> QED BY <3>2, <3>3, <3>4, <3>5
  <2>2. \A i \in 1 .. Len(forward) :
          /\ forward[i].seq \in U32 /\ Pos(forward[i].seq) \in Nat
          /\ Pos(forward[i].seq) <= ClientBytes + 2
    <3>1. ASSUME NEW i \in 1 .. Len(forward)
          PROVE  /\ forward[i].seq \in U32 /\ Pos(forward[i].seq) \in Nat
                 /\ Pos(forward[i].seq) <= ClientBytes + 2
      <4>1. forward[i] \in Segment
          BY ElementOfSeq DEF TypeOK
      <4>2. forward[i].seq \in U32
          BY <4>1 DEF Segment
      <4>3. SegmentInStream(forward[i])
          BY <2>1 DEF QueueInStream
      <4> QED BY <4>2, <4>3, PosRange DEF SegmentInStream
    <3> QED BY <3>1
  <2>3. \A i, j \in 1 .. Len(forward) : i < j => Pos(forward[i].seq) < Pos(forward[j].seq)
      BY <2>1 DEF QueueInOrder, Pos
  <2>4. \A i \in 1 .. place - 1 : i \in 1 .. Len(forward) /\ Pos(forward[i].seq) < Pos(p.seq)
    <3>1. \A i \in 1 .. place - 1 : i \in 1 .. Len(forward)
        BY <2>1
    <3> QED BY <1>1, <2>1, <2>2, <3>1, CompareInStream
  <2>5. \A i \in place .. Len(forward) : i \in 1 .. Len(forward) /\ Pos(p.seq) < Pos(forward[i].seq)
    <3>1. CASE place <= Len(forward)
      <4>1. place \in 1 .. Len(forward)
          BY <2>1, <3>1
      <4>2. ~(Pos(forward[place].seq) < Pos(p.seq))
        <5>1. compare_u32(forward[place].seq, p.seq) >= 0
            BY <1>1, <3>1
        <5>2. ~(compare_u32(forward[place].seq, p.seq) < 0)
            BY <5>1 DEF compare_u32
        <5> QED BY <2>1, <2>2, <4>1, <5>2, CompareInStream
      <4>3. Pos(forward[place].seq) # Pos(p.seq)
          BY <1>3, <2>1, <2>2, <3>1, <4>1, SubInjective, Constants DEF Pos
      <4>4. Pos(p.seq) < Pos(forward[place].seq)
          BY <2>1, <2>2, <4>1, <4>2, <4>3
      <4>5. \A i \in place .. Len(forward) :
              i \in 1 .. Len(forward) /\ (i = place \/ place < i)
          BY <2>1
      <4> QED BY <2>1, <2>2, <2>3, <4>1, <4>4, <4>5
    <3>2. CASE ~(place <= Len(forward))
        BY <2>1, <3>2
    <3> QED BY <3>1, <3>2
  <2>6. /\ DOMAIN forward' = 1 .. Len(forward) + 1
        /\ \A i \in 1 .. Len(forward) + 1 :
             forward'[i] = IF i < place THEN forward[i]
                           ELSE IF i = place THEN Entry(p) ELSE forward[i - 1]
    <3>1. forward \in Seq(Segment)
        BY DEF TypeOK
    <3>2. Entry(p) \in Segment /\ forward' = InsertAt(forward, place, Entry(p))
        BY <1>3, <2>1
    <3>3. place \in 1 .. Len(forward) + 1
        BY <2>1
    <3>4. Inserted(forward, place, Entry(p), forward')
        BY <3>1, <3>2, <3>3, InsertAtElements
    <3> QED BY <3>4 DEF Inserted
  <2>7. ASSUME NEW i \in 1 .. Len(forward) + 1, NEW j \in 1 .. Len(forward) + 1, i < j
        PROVE  Pos(forward'[i].seq) < Pos(forward'[j].seq)
    <3>0. i \in Nat /\ j \in Nat /\ place \in Nat
        BY <2>1
    <3>1. CASE j < place
      <4>1. /\ forward'[i] = forward[i] /\ forward'[j] = forward[j]
            /\ i \in 1 .. Len(forward) /\ j \in 1 .. Len(forward)
          BY <2>1, <2>6, <2>7, <3>0, <3>1
      <4> QED BY <2>3, <2>7, <4>1
    <3>2. CASE j = place
      <4>1. forward'[i] = forward[i] /\ forward'[j] = Entry(p) /\ i \in 1 .. place - 1
          BY <2>6, <2>7, <3>0, <3>2
      <4> QED BY <2>1, <2>4, <4>1
    <3>3. CASE j > place
      <4>1. /\ forward'[j] = forward[j - 1] /\ j - 1 \in place .. Len(forward)
            /\ j - 1 \in 1 .. Len(forward)
          BY <2>1, <2>6, <3>0, <3>3
      <4>2. CASE i < place
        <5>1. forward'[i] = forward[i] /\ i \in 1 .. Len(forward) /\ i < j - 1
            BY <2>1, <2>6, <3>0, <3>3, <4>2
        <5> QED BY <2>3, <4>1, <5>1
      <4>3. CASE i = place
          BY <2>1, <2>5, <2>6, <3>0, <4>1, <4>3
      <4>4. CASE i > place
        <5>1. forward'[i] = forward[i - 1] /\ i - 1 \in 1 .. Len(forward) /\ i - 1 < j - 1
            BY <2>1, <2>6, <2>7, <3>0, <4>4
        <5> QED BY <2>3, <4>1, <5>1
      <4> QED BY <3>0, <4>2, <4>3, <4>4
    <3> QED BY <3>0, <3>1, <3>2, <3>3
  <2>8. DOMAIN forward' = 1 .. Len(forward) + 1
      BY <2>6
  <2>9. \A i, j \in DOMAIN forward' : i < j => Pos(forward'[i].seq) < Pos(forward'[j].seq)
      BY <2>7, <2>8
  <2> SUFFICES ASSUME NEW i \in DOMAIN forward', NEW j \in DOMAIN forward', i < j
               PROVE  Sub(forward'[i].seq, RemoteStart) < Sub(forward'[j].seq, RemoteStart)
      BY DEF QueueInOrder
  <2>10. Pos(forward'[i].seq) < Pos(forward'[j].seq)
      BY <2>9
  <2> QED BY <2>10 DEF Pos
<1> QED BY <1>1, <1>2, <1>3

(* Forwarding takes segments off the front of the queue.                   *)
LEMMA ForwardOrder ==
  ASSUME TypeOK, QueueInOrder, NEW f \in ForwardOutcomes, forward' = Forwarded(f)
  PROVE  QueueInOrder'
<1> DEFINE rest == SubSeq(forward, f.whole + 1, Len(forward))
<1>0. f.whole \in 0 .. Len(forward) /\ Len(forward) \in Nat
    BY LenProperties DEF ForwardOutcomes, TypeOK
<1>1. /\ DOMAIN rest = 1 .. Len(forward) - f.whole
      /\ \A i \in DOMAIN rest : /\ f.whole + i \in DOMAIN forward
                                /\ rest[i] = forward[f.whole + i]
                                /\ rest[i] \in Segment
  <2>1. forward \in Seq(Segment) /\ DOMAIN forward = 1 .. Len(forward)
      BY LenProperties DEF TypeOK
  <2>2. /\ rest \in Seq(Segment) /\ DOMAIN rest = 1 .. Len(forward) - f.whole
        /\ \A i \in DOMAIN rest : /\ f.whole + i \in 1 .. Len(forward)
                                   /\ rest[i] = forward[f.whole + i]
      BY <1>0, <2>1, Remaining
  <2> HIDE DEF rest
  <2> QED BY <2>1, <2>2, ElementOfSeq
<1>2. forward' = IF f.part = 0 THEN rest ELSE [rest EXCEPT ![1].sent = @ + f.part]
    BY DEF Forwarded
<1> HIDE DEF rest
<1>3. DOMAIN forward' = DOMAIN rest /\ \A i \in DOMAIN rest : forward'[i].seq = rest[i].seq
  <2>1. CASE f.part = 0
      BY <1>2, <2>1
  <2>2. CASE f.part # 0
    <3>1. /\ DOMAIN forward' = DOMAIN rest
          /\ \A i \in DOMAIN rest :
               forward'[i] = IF i = 1 THEN [rest[1] EXCEPT !.sent = @ + f.part] ELSE rest[i]
        BY <1>2, <2>2
    <3> QED BY <1>1, <3>1 DEF Segment
  <2> QED BY <2>1, <2>2
<1>4. \A i, j \in DOMAIN rest : i < j => f.whole + i < f.whole + j
    BY <1>0, <1>1
<1> QED BY <1>1, <1>3, <1>4 DEF QueueInOrder

(* The segments in the queue are in the client's order, and no position is *)
(* in it twice, in whatever order packets arrived and were repeated.       *)
THEOREM QueueCorrect == ASSUME OneSign PROVE Spec => []QueueInOrder
<1>1. Init => QueueInOrder
    BY DEF Init, QueueInOrder
<1>2. StreamInv /\ QueueInOrder /\ [Next]_vars => QueueInOrder'
  <2> SUFFICES ASSUME StreamInv, QueueInOrder, [Next]_vars PROVE QueueInOrder'
      OBVIOUS
  <2>0. TypeOK /\ QueueInStream
      BY DEF StreamInv, IInv
  <2>1. CASE forward' = forward
      BY <2>1 DEF QueueInOrder
  <2>2. CASE forward' = <<>>
      BY <2>2 DEF QueueInOrder
  <2>3. CASE ClientPacket
    <3>1. PICK p \in ClientPackets : handle_tcp(p)
        BY <2>3 DEF ClientPacket
    <3>2. CASE NewSession(p)
      <4>1. forward' = <<>> \/ forward' = <<Entry(p)>>
          BY <3>2 DEF NewSession
      <4>2. DOMAIN <<Entry(p)>> = {1}
          OBVIOUS
      <4> QED BY <2>2, <4>1, <4>2 DEF QueueInOrder
    <3>3. ASSUME NEW next, queue_tcp(next, p) PROVE QueueInOrder'
        BY <2>0, <3>3, QueueOrder
    <3>4. CASE ~NewSession(p)
        BY <2>1, <3>1, <3>3, <3>4
           DEF handle_tcp, SendConnect, SendConnectFails, AwaitTunnel, RefuseData, Accept,
               ReceiveRst, RepeatedSyn, ReceiveFin, ReceiveAck, ReceiveOldAck, ReceiveFutureAck
    <3> QED BY <3>2, <3>4
  <2>4. CASE ForwardAndRead
      BY <2>0, <2>4, ForwardStep, ForwardOrder
  <2>5. CASE [Next]_vars /\ ~ClientPacket /\ ~ForwardAndRead
      BY <2>1, <2>2, <2>5
         DEF Next, Loop, SocketEvent, SocketError, TunnelOpened, TunnelRefused, SendSynAck,
             MonitorSession, NothingToMonitor, SkipCheck, CloseSession, KeepClosed, FreeSession,
             KeepSession, Poll, TunDrained, LoopFails, StartLoop, Clear, Connected, Age, Forget,
             vars, tcp
  <2> QED BY <2>3, <2>4, <2>5
<1> QED BY <1>1, <1>2, StreamAlways, PTL DEF Spec
=============================================================================
