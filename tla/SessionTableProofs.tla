------------------------- MODULE SessionTableProofs -------------------------
(***************************************************************************)
(* Proofs about SessionTable, for any flows, limit and timeouts.  IInv is  *)
(* inductive; the safety invariants follow from it.                        *)
(***************************************************************************)
EXTENDS SessionTable, FiniteSetTheorems, TLAPS

(* What every step keeps: the invariant, and sessions that are given up.   *)
StaysGivenUp == \A p \in Pointers : GivenUp(p) => GivenUp(p)' \/ p \notin Allocated'
Preserved == IInv' /\ StaysGivenUp

LEMMA InductiveInit == Init => IInv
<1> SUFFICES ASSUME Init PROVE IInv
  OBVIOUS
<1>1. Allocated = {}
  BY DEF Init, Allocated
<1>2. TypeOK
  BY <1>1 DEF Init, TypeOK
<1> QED BY <1>1, <1>2 DEF IInv, Init, EventsHaveSessions, OneSessionPerFlow,
                          SocketUntilClosed, ReadyInPhase

(* The steps that leave the table as it is. *)
LEMMA InductivePhases ==
  ASSUME IInv, SkipCheck \/ Poll \/ ReadTun \/ TunDrained \/ Stop
  PROVE  Preserved
<1> USE PointerAssumption
    DEF IInv, TypeOK, EventsHaveSessions, ReadyInPhase, OneSessionPerFlow,
        SocketUntilClosed, Allocated, EndBatch, NULL, Preserved, StaysGivenUp, GivenUp
<1>1. CASE SkipCheck
  BY <1>1 DEF SkipCheck
<1>2. CASE Poll
  BY <1>2 DEF Poll, Watched
<1>3. CASE ReadTun
  BY <1>3 DEF ReadTun
<1>4. CASE TunDrained
  BY <1>4 DEF TunDrained
<1>5. CASE Stop
  BY <1>5 DEF Stop
<1> QED BY <1>1, <1>2, <1>3, <1>4, <1>5

(* A session that is opened is the only one of its flow, or renamed. *)
LEMMA InductiveNew ==
  ASSUME IInv, NEW flow \in Flows, NEW id \in Ids, NEW life \in {"active", "finishing"},
         NEW asked \in SUBSET Ids, NewSession(flow, id, life, asked),
         Found(flow) = {} \/ (Dhcp # {} /\ flow = Answered),
         phase = "tun", UNCHANGED <<sessions, phase, ready>>
  PROVE  Preserved
<1> DEFINE new == FreePointer
           s == [flow |-> flow, life |-> life, up |-> TRUE, watched |-> TRUE,
                 age |-> 0, id |-> id, asked |-> asked]
<1>1. new \in Pointers /\ new \notin Allocated
  BY DEF NewSession, FreePointer, TypeOK, IInv
<1>2. s \in Session
  BY TimeAssumption DEF Session, Lives
<1>3. /\ Allocated' = Allocated \cup {new}
      /\ table'[new] = s
      /\ \A p \in Allocated : table'[p] = table[p]
  BY <1>1 DEF NewSession, Allocated
<1> HIDE DEF new
<1>4. TypeOK'
  <2>1. table' \in [Allocated' -> Session]
    <3>1. table' = [p \in Allocated' |-> table'[p]]
      BY DEF NewSession, Allocated
    <3>2. \A p \in Allocated' : table'[p] \in Session
      BY <1>2, <1>3 DEF IInv, TypeOK
    <3> QED BY <3>1, <3>2
  <2> QED BY <1>1, <1>3, <2>1 DEF IInv, TypeOK
<1>5. EventsHaveSessions' /\ ReadyInPhase'
  BY <1>1, <1>3 DEF IInv, EventsHaveSessions, ReadyInPhase, TypeOK
<1>6. SocketUntilClosed'
  BY <1>3 DEF IInv, SocketUntilClosed
<1>7. OneSessionPerFlow'
  BY <1>3 DEF IInv, OneSessionPerFlow, Found, Of, ActiveSessions, TypeOK
<1>8. StaysGivenUp
  BY <1>3 DEF StaysGivenUp, GivenUp
<1> QED BY <1>4, <1>5, <1>6, <1>7, <1>8 DEF IInv, Preserved

(* A step on one session that keeps its flow and does not revive an echo   *)
(* session.  It may close the socket of a TCP session whose event it was.  *)
Keeps(p, s) ==
  /\ s.flow = table[p].flow \/ (Dhcp # {} /\ s.flow = Answered /\ table[p].flow \in Dhcp)
  /\ s.flow \notin Tcp /\ s.life = "active" => table[p].life = "active"
  /\ s.flow \notin Tcp => (s.up <=> s.life # "closed")

LEMMA InductiveUpdate ==
  ASSUME IInv, NEW p \in Allocated, NEW s \in Session,
         table' = [table EXCEPT ![p] = s],
         Keeps(p, s),
         UNCHANGED sessions,
         ready' \subseteq ready, s.up = table[p].up \/ p \notin ready',
         phase' \in {"tun", "events", "monitor"},
         phase' = "monitor" => ready' = {}
  PROVE  Preserved
<1>1. /\ Allocated' = Allocated
      /\ table'[p] = s
      /\ \A q \in Allocated \ {p} : table'[q] = table[q]
  BY DEF Allocated, IInv, TypeOK
<1>2. TypeOK'
  BY <1>1 DEF IInv, TypeOK, Allocated
<1>3. EventsHaveSessions' /\ ReadyInPhase'
  BY <1>1 DEF IInv, EventsHaveSessions, ReadyInPhase
<1>4. SocketUntilClosed'
  BY <1>1 DEF IInv, SocketUntilClosed, Keeps
<1>5. OneSessionPerFlow'
  BY <1>1, FlowAssumption DEF IInv, OneSessionPerFlow, Keeps
<1>6. StaysGivenUp
  BY <1>1, FlowAssumption, DhcpAssumption DEF StaysGivenUp, GivenUp, Keeps
<1> QED BY <1>2, <1>3, <1>4, <1>5, <1>6 DEF IInv, Preserved

(* The fields that a handler sets. *)
SetLife(s, life, age) == [s EXCEPT !.life = life, !.age = age]
SetUp(s, life, up, age) == [s EXCEPT !.life = life, !.up = up, !.age = age]
SetAsked(s, life, age, asked) == [s EXCEPT !.life = life, !.age = age, !.asked = asked]

LEMMA SetLifeSession ==
  ASSUME NEW s \in Session, NEW life \in Lives \ {"none"}, NEW age \in 0 .. MaxAge
  PROVE  /\ SetLife(s, life, age) \in Session
         /\ SetLife(s, life, age).flow = s.flow
         /\ SetLife(s, life, age).life = life
         /\ SetLife(s, life, age).up = s.up
<1> DEFINE s1 == [s EXCEPT !.life = life]
           s2 == [s1 EXCEPT !.age = age]
<1>1. s1 \in Session /\ s1.flow = s.flow /\ s1.life = life /\ s1.up = s.up
  BY DEF Session
<1> HIDE DEF s1
<1>2. s2 \in Session /\ s2.flow = s1.flow /\ s2.life = s1.life /\ s2.up = s1.up
  BY <1>1 DEF Session
<1>3. s2 = SetLife(s, life, age)
  BY DEF s1, SetLife
<1> HIDE DEF s2
<1> QED BY <1>1, <1>2, <1>3

LEMMA SetUpSession ==
  ASSUME NEW s \in Session, NEW life \in Lives \ {"none"}, NEW up \in BOOLEAN,
         NEW age \in 0 .. MaxAge
  PROVE  /\ SetUp(s, life, up, age) \in Session
         /\ SetUp(s, life, up, age).flow = s.flow
         /\ SetUp(s, life, up, age).life = life
         /\ SetUp(s, life, up, age).up = up
<1> DEFINE s1 == [s EXCEPT !.life = life]
           s2 == [s1 EXCEPT !.up = up]
           s3 == [s2 EXCEPT !.age = age]
<1>1. s1 \in Session /\ s1.flow = s.flow /\ s1.life = life
  BY DEF Session
<1> HIDE DEF s1
<1>2. s2 \in Session /\ s2.flow = s1.flow /\ s2.life = s1.life /\ s2.up = up
  BY <1>1 DEF Session
<1> HIDE DEF s2
<1>3. s3 \in Session /\ s3.flow = s2.flow /\ s3.life = s2.life /\ s3.up = s2.up
  BY <1>2 DEF Session
<1>4. s3 = SetUp(s, life, up, age)
  BY DEF s1, s2, SetUp
<1> HIDE DEF s3
<1> QED BY <1>1, <1>2, <1>3, <1>4

LEMMA SetAskedSession ==
  ASSUME NEW s \in Session, NEW life \in Lives \ {"none"}, NEW age \in 0 .. MaxAge,
         NEW asked \in SUBSET Ids
  PROVE  /\ SetAsked(s, life, age, asked) \in Session
         /\ SetAsked(s, life, age, asked).flow = s.flow
         /\ SetAsked(s, life, age, asked).life = life
         /\ SetAsked(s, life, age, asked).up = s.up
<1> DEFINE s1 == SetLife(s, life, age)
           s2 == [s1 EXCEPT !.asked = asked]
<1>1. s1 \in Session /\ s1.flow = s.flow /\ s1.life = life /\ s1.up = s.up
  BY SetLifeSession
<1> HIDE DEF s1
<1>2. s2 \in Session /\ s2.flow = s1.flow /\ s2.life = s1.life /\ s2.up = s1.up
  BY <1>1 DEF Session
<1>3. s2 = SetAsked(s, life, age, asked)
  BY DEF s1, SetLife, SetAsked
<1> HIDE DEF s2
<1> QED BY <1>1, <1>2, <1>3

LEMMA ZeroAge == MaxAge \in Nat /\ 0 \in 0 .. MaxAge
BY TimeAssumption

LEMMA FoundInTable ==
  ASSUME NEW f \in Flows, NEW p \in Found(f)
  PROVE  p \in Allocated /\ table[p].flow = f /\ (f \in Icmp => table[p].life = "active")
BY DEF Found, Of, ActiveSessions

LEMMA InductivePacket == ASSUME IInv, Packet PROVE Preserved
<1> USE FlowAssumption, DhcpAssumption, TimeAssumption
<1>1. ASSUME NEW f \in Udp, UdpPacket(f) PROVE Preserved
  <2>1. CASE Found(f) = {}
    <3>1. ASSUME NEW p \in Found(f) PROVE FALSE
      BY <2>1
    <3>2. PICK id \in Ids :
            \/ \E life \in {"active", "finishing"} : NewSession(f, id, life, {})
            \/ f \in Dhcp /\ NewSession(Answered, id, "active", {})
      BY <1>1, <3>1 DEF UdpPacket
    <3>3. f \in Flows /\ (f \in Dhcp => Answered \in Flows /\ Dhcp # {})
      BY DEF Flows
    <3>4. phase = "tun" /\ UNCHANGED <<sessions, phase, ready>>
      BY <1>1 DEF UdpPacket
    <3>5. CASE f \in Dhcp /\ NewSession(Answered, id, "active", {})
      BY <3>3, <3>4, <3>5, InductiveNew
    <3>6. ASSUME NEW life \in {"active", "finishing"}, NewSession(f, id, life, {})
          PROVE  Preserved
      BY <2>1, <3>3, <3>4, <3>6, InductiveNew
    <3> QED BY <3>2, <3>5, <3>6
  <2>2. ASSUME NEW p \in Found(f), ForwardUdp(p) \/ AnswerDhcp(p) PROVE Preserved
    <3>1. p \in Allocated /\ table[p].flow = f /\ table[p] \in Session /\ f \in Flows
      BY <2>2, FoundInTable DEF IInv, TypeOK, Flows
    <3>2. phase = "tun" /\ UNCHANGED <<sessions, phase, ready>>
      BY <1>1 DEF UdpPacket
    <3>3. table[p].up <=> table[p].life # "closed"
      BY <3>1 DEF IInv, SocketUntilClosed
    <3>4. ASSUME NEW life \in {"active", "finishing"}, table[p].life = "active",
                 table' = [table EXCEPT ![p].life = life, ![p].age = 0]
          PROVE  Preserved
      <4> DEFINE s == SetLife(table[p], life, 0)
      <4>1. /\ s \in Session /\ s.flow = f /\ s.up = table[p].up /\ s.life = life
        BY <3>1, SetLifeSession, ZeroAge DEF Lives
      <4>3. table' = [table EXCEPT ![p] = s]
        BY <3>1, <3>4 DEF Session, Allocated, SetLife
      <4>2. Keeps(p, s)
        BY <3>1, <3>3, <3>4, <4>1 DEF Keeps
      <4> HIDE DEF s
      <4> QED BY <3>1, <3>2, <4>1, <4>2, <4>3, InductiveUpdate
    <3>5. ASSUME NEW flow \in {f, Answered}, f \in Dhcp, table[p].life = "active",
                 table' = [table EXCEPT ![p].flow = flow]
          PROVE  Preserved
      <4> DEFINE s == [table[p] EXCEPT !.flow = flow]
      <4>1. /\ s \in Session /\ s.flow = flow /\ s.up = table[p].up
            /\ s.life = table[p].life /\ table' = [table EXCEPT ![p] = s]
        BY <3>1, <3>5 DEF Session, Flows
      <4>2. Keeps(p, s)
        BY <3>1, <3>3, <3>5, <4>1 DEF Keeps
      <4> HIDE DEF s
      <4> QED BY <3>1, <3>2, <4>1, <4>2, InductiveUpdate
    <3>6. CASE ForwardUdp(p)
      BY <3>4, <3>6 DEF ForwardUdp
    <3>7. CASE AnswerDhcp(p)
      BY <3>1, <3>5, <3>7 DEF AnswerDhcp
    <3> QED BY <2>2, <3>6, <3>7
  <2> QED BY <1>1, <2>1, <2>2 DEF UdpPacket
<1>2. ASSUME NEW f \in Icmp, NEW i \in Ids, IcmpPacket(f, i) PROVE Preserved
  <2>1. PICK life \in {"active", "finishing"}, asked \in SUBSET Ids :
          IF Found(f) = {} THEN NewSession(f, i, life, asked)
          ELSE \E p \in Found(f) :
                 table' = [table EXCEPT ![p].life = life, ![p].age = 0,
                                        ![p].asked = @ \cup asked]
    BY <1>2 DEF IcmpPacket
  <2>2. phase = "tun" /\ UNCHANGED <<sessions, phase, ready>> /\ f \in Flows
    BY <1>2 DEF IcmpPacket, Flows
  <2>3. CASE Found(f) = {}
    BY <2>1, <2>2, <2>3, InductiveNew
  <2>4. ASSUME NEW p \in Found(f),
               table' = [table EXCEPT ![p].life = life, ![p].age = 0,
                                      ![p].asked = @ \cup asked]
        PROVE  Preserved
    <3> DEFINE s == SetAsked(table[p], life, 0, table[p].asked \cup asked)
    <3>1. /\ p \in Allocated /\ table[p].flow = f /\ table[p] \in Session
          /\ table[p].life = "active"
      BY <2>2, <2>4, FoundInTable DEF IInv, TypeOK
    <3>2. table[p].up
      BY <3>1 DEF IInv, SocketUntilClosed
    <3>3. /\ s \in Session /\ s.flow = f /\ s.up = table[p].up /\ s.life = life
      <4>1. table[p].asked \cup asked \in SUBSET Ids
        BY <3>1 DEF Session
      <4> QED BY <3>1, <4>1, SetAskedSession, ZeroAge DEF Lives
    <3>5. table' = [table EXCEPT ![p] = s]
      BY <2>4, <3>1 DEF Session, Allocated, SetAsked
    <3>4. Keeps(p, s)
      BY <3>1, <3>2, <3>3 DEF Keeps
    <3> HIDE DEF s
    <3> QED BY <2>2, <3>1, <3>3, <3>4, <3>5, InductiveUpdate
  <2> QED BY <2>1, <2>3, <2>4
<1>3. ASSUME NEW f \in Tcp, NEW syn \in BOOLEAN, TcpPacket(f, syn) PROVE Preserved
  <2>1. phase = "tun" /\ UNCHANGED <<sessions, phase, ready>> /\ f \in Flows
    BY <1>3 DEF TcpPacket, Flows
  <2>2. CASE Found(f) = {}
    BY <1>3, <2>1, <2>2, InductiveNew DEF TcpPacket
  <2>3. ASSUME NEW p \in Found(f), NEW age \in {0, table[p].age},
               NEW step \in PacketSteps(table[p].life, table[p].up),
               table' = [table EXCEPT ![p].life = step[1], ![p].up = step[2], ![p].age = age]
        PROVE  Preserved
    <3> DEFINE s == SetUp(table[p], step[1], step[2], age)
    <3>1. p \in Allocated /\ table[p].flow = f /\ table[p] \in Session
      BY <2>1, <2>3, FoundInTable DEF IInv, TypeOK
    <3>2. step[2] = table[p].up /\ step[1] \in Lives \ {"none"}
      BY <2>3, <3>1 DEF PacketSteps, Session, Lives
    <3>3. s \in Session /\ s.flow = f /\ s.up = table[p].up
      <4>1. age \in 0 .. MaxAge /\ step[2] \in BOOLEAN
        BY <3>1, <3>2, ZeroAge DEF Session
      <4> QED BY <3>1, <3>2, <4>1, SetUpSession
    <3>5. table' = [table EXCEPT ![p] = s]
      BY <2>3, <3>1 DEF Session, Allocated, SetUp
    <3>4. Keeps(p, s)
      BY <2>1, <3>1, <3>3 DEF Keeps
    <3> HIDE DEF s
    <3> QED BY <2>1, <3>1, <3>3, <3>4, <3>5, InductiveUpdate
  <2>4. CASE Found(f) # {}
    BY <1>3, <2>3, <2>4 DEF TcpPacket
  <2> QED BY <2>2, <2>4
<1> QED BY <1>1, <1>2, <1>3 DEF Packet

(* The event of a session takes it off the batch. *)
LEMMA InductiveEvent == ASSUME IInv, Event PROVE Preserved
<1> USE FlowAssumption
<1>1. PICK p \in ready : UdpEvent(p) \/ IcmpEvent(p) \/ TcpEvent(p)
  BY DEF Event
<1>2. /\ p \in Allocated /\ table[p] \in Session /\ table[p].age \in 0 .. MaxAge
      /\ phase = "events" /\ ready' = ready \ {p} /\ UNCHANGED sessions
      /\ phase' \in {"monitor", "events"} /\ (phase' = "monitor" => ready' = {})
  BY <1>1 DEF IInv, TypeOK, Session, UdpEvent, IcmpEvent, TcpEvent, Turn, EndBatch
<1>3. table[p].flow \notin Tcp => table[p].up /\ table[p].life # "closed"
  <2>1. p # NULL
    BY <1>2, PointerAssumption DEF IInv, TypeOK, NULL
  <2>2. table[p].up
    BY <1>2, <2>1 DEF IInv, EventsHaveSessions
  <2> QED BY <1>2, <2>2 DEF IInv, SocketUntilClosed
<1>4. ASSUME UNCHANGED table PROVE Preserved
  BY <1>2, <1>4 DEF IInv, TypeOK, EventsHaveSessions, OneSessionPerFlow,
                    SocketUntilClosed, ReadyInPhase, Allocated,
                    Preserved, StaysGivenUp, GivenUp
<1>5. ASSUME NEW life \in {table[p].life, "finishing"}, table[p].flow \notin Tcp,
             table' = [table EXCEPT ![p].life = life, ![p].age = 0]
      PROVE  Preserved
  <2> DEFINE s == SetLife(table[p], life, 0)
  <2>1. /\ s \in Session /\ s.flow = table[p].flow /\ s.up = table[p].up /\ s.life = life
    <3>1. life \in Lives \ {"none"}
      BY <1>2, <1>5 DEF Session, Lives
    <3> QED BY <1>2, <3>1, SetLifeSession, ZeroAge
  <2>2. table' = [table EXCEPT ![p] = s]
    BY <1>2, <1>5 DEF Session, Allocated, SetLife
  <2>3. Keeps(p, s)
    BY <1>3, <1>5, <2>1 DEF Keeps
  <2> HIDE DEF s
  <2> QED BY <1>2, <2>1, <2>2, <2>3, InductiveUpdate
<1>6. ASSUME NEW life \in {table[p].life, "finishing"}, NEW i \in Ids,
             table[p].flow \notin Tcp,
             table' = [table EXCEPT ![p].life = life, ![p].age = 0, ![p].asked = @ \ {i}]
      PROVE  Preserved
  <2> DEFINE s == SetAsked(table[p], life, 0, table[p].asked \ {i})
  <2>1. /\ s \in Session /\ s.flow = table[p].flow /\ s.up = table[p].up /\ s.life = life
    <3>1. life \in Lives \ {"none"} /\ table[p].asked \ {i} \in SUBSET Ids
      BY <1>2, <1>6 DEF Session, Lives
    <3> QED BY <1>2, <3>1, SetAskedSession, ZeroAge
  <2>2. table' = [table EXCEPT ![p] = s]
    BY <1>2, <1>6 DEF Session, Allocated, SetAsked
  <2>3. Keeps(p, s)
    BY <1>3, <1>6, <2>1 DEF Keeps
  <2> HIDE DEF s
  <2> QED BY <1>2, <2>1, <2>2, <2>3, InductiveUpdate
<1>7. ASSUME NEW step \in EventSteps(table[p].life, table[p].up),
             NEW age \in {0, table[p].age}, table[p].flow \in Tcp,
             table' = [table EXCEPT ![p].life = step[1], ![p].up = step[2], ![p].age = age]
      PROVE  Preserved
  <2> DEFINE s == SetUp(table[p], step[1], step[2], age)
  <2>1. s \in Session /\ s.flow = table[p].flow
    <3>1. step[1] \in Lives \ {"none"} /\ step[2] \in BOOLEAN
      BY <1>2, <1>7 DEF EventSteps, Session, Lives
    <3>2. age \in 0 .. MaxAge
      BY <1>2, <1>7, ZeroAge
    <3> QED BY <1>2, <3>1, <3>2, SetUpSession
  <2>2. table' = [table EXCEPT ![p] = s]
    BY <1>2, <1>7 DEF Session, Allocated, SetUp
  <2>3. Keeps(p, s)
    BY <1>7, <2>1 DEF Keeps
  <2> HIDE DEF s
  <2> QED BY <1>2, <2>1, <2>2, <2>3, InductiveUpdate
<1>8. CASE UdpEvent(p)
  BY <1>4, <1>5, <1>8 DEF UdpEvent, Turn
<1>9. CASE IcmpEvent(p)
  <2>1. table[p].asked \subseteq Ids
    BY <1>2 DEF Session
  <2> QED BY <1>5, <1>6, <1>9, <2>1 DEF IcmpEvent, Turn
<1>10. CASE TcpEvent(p)
  BY <1>7, <1>10 DEF TcpEvent, Turn
<1> QED BY <1>1, <1>8, <1>9, <1>10

(* A pass over the list: sessions leave it or keep their flow. *)
LEMMA InductivePass ==
  ASSUME IInv, NEW D \in SUBSET Allocated, NEW f, table' = [p \in D |-> f[p]],
         \A p \in D : f[p] \in Session /\ Keeps(p, f[p]),
         sessions' \in Nat,
         ready' = ready,
         \A p \in ready : p = NULL \/ (p \in D /\ f[p].up = table[p].up),
         phase' \in {"monitor", "check", "poll", "events", "tun", "stopped"},
         phase' \notin {"events", "tun"} => ready = {}
  PROVE  Preserved
<1>1. Allocated' = D /\ \A p \in D : table'[p] = f[p]
  BY DEF Allocated
<1>2. TypeOK'
  BY <1>1 DEF IInv, TypeOK
<1>3. EventsHaveSessions' /\ ReadyInPhase'
  BY <1>1 DEF IInv, EventsHaveSessions, ReadyInPhase
<1>4. SocketUntilClosed'
  BY <1>1 DEF IInv, SocketUntilClosed, Keeps
<1>5. OneSessionPerFlow'
  BY <1>1, FlowAssumption DEF IInv, OneSessionPerFlow, Keeps
<1>6. StaysGivenUp
  BY <1>1, FlowAssumption, DhcpAssumption DEF StaysGivenUp, GivenUp, Keeps
<1> QED BY <1>2, <1>3, <1>4, <1>5, <1>6 DEF IInv, Preserved

LEMMA InductiveCount == ASSUME IInv, CountSessions PROVE Preserved
<1>1. PICK failed \in SUBSET Allocated :
        /\ \A p \in failed :
             table[p].flow \in Tcp
        /\ table' = [p \in Allocated |->
             IF p \in failed THEN [table[p] EXCEPT !.life = "finishing"] ELSE table[p]]
  BY DEF CountSessions
<1> DEFINE f == [p \in Allocated |->
             IF p \in failed THEN [table[p] EXCEPT !.life = "finishing"] ELSE table[p]]
<1>2. ASSUME NEW p \in Allocated PROVE f[p] \in Session /\ Keeps(p, f[p])
  <2>1. table[p] \in Session /\ (table[p].flow \notin Tcp => (table[p].up <=> table[p].life # "closed"))
    BY DEF IInv, TypeOK, SocketUntilClosed
  <2>2. CASE p \in failed
    BY <1>1, <2>1, <2>2, FlowAssumption DEF Session, Lives, Keeps
  <2>3. CASE p \notin failed
    BY <2>1, <2>3 DEF Keeps
  <2> QED BY <2>2, <2>3
<1>3. sessions' \in Nat
  <2>1. ActiveSessions \subseteq Pointers
    BY DEF IInv, TypeOK, ActiveSessions
  <2>2. IsFiniteSet(ActiveSessions)
    BY <2>1, PointerAssumption, FS_Subset
  <2> QED BY <2>2, FS_CardinalityType DEF CountSessions
<1>4. ready = {} /\ ready' = ready /\ phase' = "check"
  BY DEF CountSessions, IInv, ReadyInPhase
<1>5. table' = [p \in Allocated |-> f[p]]
  BY <1>1
<1> HIDE DEF f
<1> QED BY <1>2, <1>3, <1>4, <1>5, InductivePass

LEMMA InductiveCheck == ASSUME IInv, CheckSessions PROVE Preserved
<1>1. PICK late \in SUBSET ActiveSessions :
        LET after(p) == Checked(table[p], p \in late)
        IN  table' = [p \in {q \in Allocated : after(q)[1] # "none"} |->
              IF after(p)[1] = table[p].life THEN table[p]
              ELSE [table[p] EXCEPT !.life = after(p)[1], !.up = after(p)[2], !.age = 0]]
  BY DEF CheckSessions
<1> DEFINE after(p) == Checked(table[p], p \in late)
           D == {q \in Allocated : after(q)[1] # "none"}
           f == [p \in D |->
                  IF after(p)[1] = table[p].life THEN table[p]
                  ELSE SetUp(table[p], after(p)[1], after(p)[2], 0)]
<1>2. ASSUME NEW p \in D PROVE f[p] \in Session /\ Keeps(p, f[p])
  <2>1. /\ table[p] \in Session
        /\ table[p].flow \notin Tcp => (table[p].up <=> table[p].life # "closed")
    BY DEF IInv, TypeOK, SocketUntilClosed
  <2>2. \/ after(p)[1] = table[p].life
        \/ after(p) = <<"closed", FALSE>>
    BY <2>1 DEF Checked, CheckStep
  <2>3. CASE after(p)[1] = table[p].life
    BY <2>1, <2>3 DEF Keeps
  <2>4. CASE after(p)[1] # table[p].life /\ after(p) = <<"closed", FALSE>>
    <3> DEFINE s == SetUp(table[p], after(p)[1], after(p)[2], 0)
    <3>1. f[p] = s
      BY <2>4
    <3>2. after(p)[1] = "closed" /\ after(p)[2] \in BOOLEAN /\ ~after(p)[2]
      <4> HIDE DEF after
      <4>1. after(p)[1] = "closed"
        BY <2>4
      <4>2. after(p)[2] = FALSE
        BY <2>4
      <4> QED BY <4>1, <4>2
    <3> HIDE DEF after, f
    <3>3. after(p)[1] \in Lives \ {"none"}
      BY <3>2 DEF Lives
    <3>4. s \in Session /\ s.flow = table[p].flow /\ s.life = "closed" /\ ~s.up
      BY <2>1, <3>2, <3>3, SetUpSession, ZeroAge
    <3> HIDE DEF s
    <3> QED BY <3>1, <3>4 DEF Keeps
  <2> QED BY <2>2, <2>3, <2>4
<1>3. ready = {} /\ ready' = ready /\ phase' = "poll" /\ sessions' \in Nat
  BY DEF CheckSessions, IInv, TypeOK, ReadyInPhase
<1>4. table' = [p \in D |-> f[p]]
  BY <1>1 DEF SetUp
<1>5. D \in SUBSET Allocated
  OBVIOUS
<1> HIDE DEF f, D
<1> QED BY <1>2, <1>3, <1>4, <1>5, InductivePass

LEMMA InductiveStart == ASSUME IInv, Start PROVE Preserved
<1> DEFINE f == [p \in Allocated |->
       [table[p] EXCEPT !.life = AllowedStep(table[p].life, table[p].up)[1],
                        !.watched = FALSE]]
<1>1. ASSUME NEW p \in Allocated PROVE f[p] \in Session /\ Keeps(p, f[p])
  <2>1. /\ table[p] \in Session
        /\ table[p].flow \notin Tcp => (table[p].up <=> table[p].life # "closed")
    BY DEF IInv, TypeOK, SocketUntilClosed
  <2> DEFINE life == AllowedStep(table[p].life, table[p].up)[1]
             s == [table[p] EXCEPT !.life = life]
  <2>2. /\ life \in Lives \ {"none"}
        /\ life # "active"
        /\ life = "closed" <=> table[p].life = "closed"
    BY <2>1 DEF AllowedStep, Session, Lives
  <2> HIDE DEF life
  <2>3. s \in Session /\ s.flow = table[p].flow /\ s.life = life /\ s.up = table[p].up
    BY <2>1, <2>2 DEF Session
  <2>4. f[p] = [s EXCEPT !.watched = FALSE]
    BY DEF life
  <2> HIDE DEF s, f
  <2>5. /\ f[p] \in Session /\ f[p].flow = s.flow /\ f[p].life = s.life /\ f[p].up = s.up
    BY <2>3, <2>4 DEF Session
  <2> QED BY <2>1, <2>2, <2>3, <2>5 DEF Keeps
<1>2. ready = {} /\ ready' = ready /\ phase' = "monitor" /\ sessions' \in Nat
  BY DEF Start, IInv, TypeOK, ReadyInPhase
<1>3. table' = [p \in Allocated |-> f[p]]
  BY DEF Start
<1> HIDE DEF f
<1> QED BY <1>1, <1>2, <1>3, InductivePass

LEMMA InductiveTick == ASSUME IInv, Tick PROVE Preserved
<1> DEFINE f == [p \in Allocated |->
       [table[p] EXCEPT !.age = IF @ < MaxAge THEN @ + 1 ELSE @]]
<1>1. ASSUME NEW p \in Allocated
      PROVE  f[p] \in Session /\ Keeps(p, f[p]) /\ f[p].up = table[p].up
  <2>1. /\ table[p] \in Session
        /\ table[p].flow \notin Tcp => (table[p].up <=> table[p].life # "closed")
    BY DEF IInv, TypeOK, SocketUntilClosed
  <2> DEFINE age == IF table[p].age < MaxAge THEN table[p].age + 1 ELSE table[p].age
  <2>2. age \in 0 .. MaxAge
    BY <2>1, ZeroAge DEF Session
  <2>3. f[p] = [table[p] EXCEPT !.age = age]
    OBVIOUS
  <2> HIDE DEF age, f
  <2>4. /\ f[p] \in Session /\ f[p].flow = table[p].flow
        /\ f[p].life = table[p].life /\ f[p].up = table[p].up
    BY <2>1, <2>2, <2>3 DEF Session
  <2> QED BY <2>1, <2>4 DEF Keeps
<1>2. /\ ready' = ready /\ phase' = phase /\ sessions' \in Nat
      /\ phase' \in {"monitor", "check", "poll", "events", "tun", "stopped"}
      /\ phase' \notin {"events", "tun"} => ready = {}
      /\ \A p \in ready : p = NULL \/ p \in Allocated
  BY DEF Tick, IInv, TypeOK, ReadyInPhase, EventsHaveSessions
<1>3. table' = [p \in Allocated |-> f[p]]
  BY DEF Tick
<1> HIDE DEF f
<1> QED BY <1>1, <1>2, <1>3, InductivePass

LEMMA InductiveClear == ASSUME IInv, Clear PROVE Preserved
<1>1. Allocated' = {}
  BY DEF Clear, Allocated
<1>2. TypeOK'
  BY <1>1 DEF Clear, IInv, TypeOK, Allocated
<1> QED BY <1>1, <1>2 DEF Clear, IInv, EventsHaveSessions, OneSessionPerFlow,
                          SocketUntilClosed, ReadyInPhase, Preserved, StaysGivenUp

LEMMA InductiveNext == IInv /\ [Next]_vars => Preserved
<1> SUFFICES ASSUME IInv, [Next]_vars PROVE Preserved
  OBVIOUS
<1>1. CASE UNCHANGED vars
  BY <1>1 DEF vars, IInv, TypeOK, EventsHaveSessions, OneSessionPerFlow,
              SocketUntilClosed, ReadyInPhase, Allocated,
              Preserved, StaysGivenUp, GivenUp
<1> QED BY <1>1, InductivePhases, InductivePacket, InductiveEvent, InductiveCount,
           InductiveCheck, InductiveStart, InductiveTick, InductiveClear DEF Next

LEMMA Inductive == Spec => []IInv
<1>1. IInv /\ [Next]_vars => IInv'
  BY InductiveNext DEF Preserved
<1> QED BY <1>1, InductiveInit, PTL DEF Spec

-----------------------------------------------------------------------------
(* The list of session.c holds sessions whatever the flows and limits.     *)
THEOREM TypeCorrect == Spec => []TypeOK
<1>1. IInv => TypeOK
  BY DEF IInv
<1> QED BY <1>1, Inductive, PTL

(* What epoll_wait returned never dangles: the pointers of a batch of      *)
(* handle_events are to sessions on the list with an open socket.          *)
THEOREM EventsCorrect == Spec => []EventsHaveSessions
<1>1. IInv => EventsHaveSessions
  BY DEF IInv
<1> QED BY <1>1, Inductive, PTL

(* The lookups of handle_udp, handle_icmp and handle_tcp find at most one  *)
(* session, however packets, timeouts and restarts follow each other.      *)
THEOREM OneSessionCorrect == Spec => []OneSessionPerFlow
<1>1. IInv => OneSessionPerFlow
  BY DEF IInv
<1> QED BY <1>1, Inductive, PTL

(* The socket of a UDP or ICMP session is closed once, by the check.       *)
THEOREM SocketCorrect == Spec => []SocketUntilClosed
<1>1. IInv => SocketUntilClosed
  BY DEF IInv
<1> QED BY <1>1, Inductive, PTL

(* No packet, event or restart takes a UDP or ICMP session back that has   *)
(* been given up: it stays finishing or closed until it is freed.          *)
THEOREM GivenUpCorrect == Spec => NoRevival
<1>1. IInv /\ [Next]_vars => [StaysGivenUp]_vars
  BY InductiveNext DEF Preserved
<1>2. Spec => [][StaysGivenUp]_vars
  BY <1>1, Inductive, PTL DEF Spec
<1> QED BY <1>2 DEF NoRevival, StaysGivenUp


-----------------------------------------------------------------------------
(* The timeouts of get_udp_timeout, get_icmp_timeout and get_tcp_timeout.  *)

LEMMA QuotientOfNat ==
  ASSUME NEW n \in Nat, NEW d \in Nat \ {0}
  PROVE  /\ Quotient(n, d) \in Nat
         /\ \A k \in Nat : n <= k * d => Quotient(n, d) <= k
         /\ \A k \in Nat : n >= k * d => Quotient(n, d) >= k
<1> DEFINE q == n \div d
           r == n % d
<1>1. q \in Int /\ r \in 0 .. d - 1 /\ n = d * q + r
  OBVIOUS
<1>2. Quotient(n, d) = q
  BY DEF Quotient
<1> HIDE DEF q, r
<1>3. q >= 0
  <2> SUFFICES ASSUME q <= -1 PROVE FALSE
    BY <1>1
  <2>1. d * q <= -d
    BY <1>1
  <2> QED BY <1>1, <2>1
<1>4. ASSUME NEW k \in Nat, n <= k * d PROVE q <= k
  <2> SUFFICES ASSUME q >= k + 1 PROVE FALSE
    BY <1>1
  <2>1. d * q >= d * (k + 1)
    BY <1>1
  <2>2. d * (k + 1) = k * d + d
    OBVIOUS
  <2> QED BY <1>1, <1>4, <2>1, <2>2
<1>5. ASSUME NEW k \in Nat, n >= k * d PROVE q >= k
  <2> SUFFICES ASSUME q <= k - 1 PROVE FALSE
    BY <1>1
  <2>1. d * q <= d * (k - 1)
    BY <1>1
  <2>2. d * (k - 1) = k * d - d
    OBVIOUS
  <2> QED BY <1>1, <1>5, <2>1, <2>2
<1> QED BY <1>1, <1>2, <1>3, <1>4, <1>5

(* The timeout is not negative up to the limit, and not positive from the  *)
(* limit on.                                                               *)
LEMMA ScaledSign ==
  ASSUME NEW timeout \in Nat, sessions \in Nat
  PROVE  /\ Scaled(timeout) \in Int
         /\ sessions <= MaxSessions => Scaled(timeout) >= 0
         /\ sessions >= MaxSessions => Scaled(timeout) <= 0
<1> DEFINE part == Quotient(sessions * 100, MaxSessions)
           scale == 100 - part
<1>1. /\ part \in Nat
      /\ sessions <= MaxSessions => part <= 100
      /\ sessions >= MaxSessions => part >= 100
  <2>1. /\ sessions * 100 \in Nat /\ 100 \in Nat /\ MaxSessions \in Nat \ {0}
        /\ sessions <= MaxSessions => sessions * 100 <= 100 * MaxSessions
        /\ sessions >= MaxSessions => sessions * 100 >= 100 * MaxSessions
    BY LimitAssumption
  <2> QED BY <2>1, QuotientOfNat
<1> HIDE DEF part
<1>2. timeout * scale \in Int
  BY <1>1
<1>3. sessions <= MaxSessions => timeout * scale >= 0
  BY <1>1
<1>4. sessions >= MaxSessions => timeout * scale <= 0
  BY <1>1
<1>5. Scaled(timeout) = Quotient(timeout * scale, 100)
  BY DEF Scaled, part
<1> DEFINE n == timeout * scale
<1>6. /\ Quotient(n, 100) \in Int
      /\ n >= 0 => Quotient(n, 100) >= 0
      /\ n <= 0 => Quotient(n, 100) <= 0
  <2> HIDE DEF n
  <2> QED BY <1>2 DEF Quotient, n
<1> QED BY <1>2, <1>3, <1>4, <1>5, <1>6

LEMMA TimeoutsInNat == ASSUME NEW s \in Session PROVE Timeouts(s) \subseteq Nat
<1>1. s.flow \in Udp \/ s.flow \in Icmp \/ s.flow \in Tcp
  BY DEF Session, Flows
<1> QED BY <1>1, TimeAssumption DEF Timeouts

(* What check_udp_session, check_icmp_session and check_tcp_session make   *)
(* of an active session.                                                   *)
LEMMA CheckedActive ==
  ASSUME NEW s \in Session, s.life = "active", NEW S, NEW p
  PROVE  /\ p \notin S => Checked(s, p \in S)[1] = "active"
         /\ p \in S => Checked(s, p \in S)[1] # "active"
BY DEF Checked, CheckStep

(* The pass over the list, for one active session. *)
LEMMA CheckedByPass ==
  ASSUME IInv, CheckSessions, NEW p \in ActiveSessions
  PROVE  /\ (\A t \in Timeouts(table[p]) : ~Expired(table[p], t)) =>
              p \in Allocated' /\ table'[p].life = "active"
         /\ (\A t \in Timeouts(table[p]) : Expired(table[p], t)) =>
              p \notin ActiveSessions'
<1>1. p \in Allocated /\ table[p] \in Session /\ table[p].life = "active"
  BY DEF IInv, TypeOK, ActiveSessions
<1> DEFINE s == table[p]
<1>2. PICK late \in SUBSET {q \in ActiveSessions : \E t \in Timeouts(table[q]) : Expired(table[q], t)} :
       /\ \A q \in ActiveSessions :
            (\A t \in Timeouts(table[q]) : Expired(table[q], t)) => q \in late
       /\ LET after(q) == Checked(table[q], q \in late)
          IN  table' = [r \in {q \in Allocated : after(q)[1] # "none"} |->
                IF after(r)[1] = table[r].life THEN table[r]
                ELSE [table[r] EXCEPT !.life = after(r)[1], !.up = after(r)[2],
                                      !.age = 0]]
  BY DEF CheckSessions
<1> DEFINE after(q) == Checked(table[q], q \in late)
           D == {q \in Allocated : after(q)[1] # "none"}
<1>3. Allocated' = D
  BY <1>2 DEF Allocated
<1>4. p \in D => table'[p] = IF after(p)[1] = s.life THEN s
                             ELSE [s EXCEPT !.life = after(p)[1], !.up = after(p)[2], !.age = 0]
  BY <1>2
<1>5. ASSUME \A t \in Timeouts(s) : ~Expired(s, t)
      PROVE  p \in Allocated' /\ table'[p].life = "active"
  <2>1. p \notin late
    BY <1>2, <1>5
  <2>2. after(p)[1] = "active"
    BY <1>1, <2>1, CheckedActive
  <2> QED BY <1>1, <1>3, <1>4, <2>2
<1>6. ASSUME \A t \in Timeouts(s) : Expired(s, t)
      PROVE  p \notin ActiveSessions'
  <2>1. p \in late
    BY <1>2, <1>6
  <2>2. after(p)[1] # "active"
    BY <1>1, <2>1, CheckedActive
  <2>3. p \in D => table'[p].life # "active"
    <3> DEFINE life == after(p)[1]
               up == after(p)[2]
    <3> HIDE DEF life, up
    <3>1. p \in D => table'[p] = IF life = s.life THEN s
                                 ELSE [s EXCEPT !.life = life, !.up = up, !.age = 0]
      BY <1>4 DEF life, up
    <3>2. life # "active"
      BY <2>2 DEF life
    <3>3. s \in Session /\ s.life = "active"
      BY <1>1
    <3> HIDE DEF D, s
    <3> QED BY <3>1, <3>2, <3>3 DEF Session
  <2> QED BY <1>3, <2>3 DEF ActiveSessions
<1> QED BY <1>5, <1>6

(* get_udp_timeout and its like never go below zero up to the limit, so    *)
(* that no pass of handle_events closes a session that was just used.      *)
THEOREM BusyCorrect == Spec => BusyIsKept
<1> DEFINE Kept == \A p \in ActiveSessions :
       CheckSessions /\ sessions <= MaxSessions /\ table[p].age = 0
         => p \in Allocated' /\ table'[p].life = "active"
<1>1. IInv => Kept
  <2> SUFFICES ASSUME IInv, NEW p \in ActiveSessions, CheckSessions,
                      sessions <= MaxSessions, table[p].age = 0
               PROVE  p \in Allocated' /\ table'[p].life = "active"
    OBVIOUS
  <2>1. table[p] \in Session /\ sessions \in Nat
    BY DEF IInv, TypeOK, ActiveSessions
  <2>2. ASSUME NEW t \in Timeouts(table[p]) PROVE ~Expired(table[p], t)
    <3>1. t \in Nat
      BY <2>1, TimeoutsInNat
    <3> QED BY <2>1, <3>1, ScaledSign, LimitAssumption DEF Expired
  <2> QED BY <2>2, CheckedByPass
<1>2. IInv /\ [Next]_vars => [Kept]_vars
  BY <1>1
<1>3. Spec => [][Kept]_vars
  BY <1>2, Inductive, PTL DEF Spec
<1> QED BY <1>3 DEF BusyIsKept

(* From the limit on the timeouts are zero or less: the pass gives up      *)
(* every session that was idle for a second, of whatever protocol.         *)
THEOREM SheddingCorrect == Spec => OverLimitIsShed
<1> DEFINE Shed == \A p \in ActiveSessions :
       CheckSessions /\ sessions >= MaxSessions /\ table[p].age > 0
         => p \notin ActiveSessions'
<1>1. IInv => Shed
  <2> SUFFICES ASSUME IInv, NEW p \in ActiveSessions, CheckSessions,
                      sessions >= MaxSessions, table[p].age > 0
               PROVE  p \notin ActiveSessions'
    OBVIOUS
  <2>1. /\ table[p] \in Session /\ table[p].age \in Int /\ sessions \in Nat
    BY DEF IInv, TypeOK, ActiveSessions, Session
  <2>2. ASSUME NEW t \in Timeouts(table[p]) PROVE Expired(table[p], t)
    <3>1. t \in Nat
      BY <2>1, TimeoutsInNat
    <3> QED BY <2>1, <3>1, ScaledSign, LimitAssumption DEF Expired
  <2> QED BY <2>2, CheckedByPass
<1>2. IInv /\ [Next]_vars => [Shed]_vars
  BY <1>1
<1>3. Spec => [][Shed]_vars
  BY <1>2, Inductive, PTL DEF Spec
<1> QED BY <1>3 DEF OverLimitIsShed
=============================================================================
