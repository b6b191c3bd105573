---------------------------- MODULE SessionTable ----------------------------
(***************************************************************************)
(* The sessions of tun2http and the thread that runs them: handle_events   *)
(* and check_allowed (session.c) with the session limit of handle_ip       *)
(* (ip.c) and the handlers of UDP (udp.c, dhcp.c) and ICMP (icmp.c)        *)
(* sessions.  The TCP sessions take the steps of SessionLife.              *)
(*                                                                         *)
(* Every session is on one list and owns one socket.  A pass of the loop   *)
(* counts the sessions, checks them for timeouts, which are shorter the    *)
(* more sessions there are, waits for events and handles them.             *)
(***************************************************************************)
EXTENDS SessionLife, Integers, FiniteSets

CONSTANTS
  Udp, Dns, Icmp, Tcp,  \* flows: addresses and ports, for ICMP addresses only;
                        \* those of Dns are in Udp and go to port 53
  Dhcp, Answered,       \* flows of DHCP, in Udp, that differ in their source
                        \* address, and the one whose source is 10.1.10.1
  Ids,                  \* identifiers of echo requests
  Pointers,             \* where malloc may put a session
  MaxSessions,          \* a share of RLIMIT_NOFILE, 1000 at most
  Fwd53,                \* args->fwd53
  UdpTimeout, DnsTimeout, IcmpTimeout, TcpTimeouts, \* idle time allowed
  Keep,                 \* UDP_KEEP_TIMEOUT, TCP_KEEP_TIMEOUT
  MaxAge                \* bound: time is not told apart beyond it

ASSUME FlowAssumption ==
  /\ Dns \subseteq Udp /\ Udp \cap Icmp = {} /\ Udp \cap Tcp = {} /\ Icmp \cap Tcp = {}
ASSUME DhcpAssumption == Dhcp \subseteq Udp \ Dns /\ (Dhcp # {} => Answered \in Dhcp)
ASSUME PointerAssumption == Pointers \subseteq Nat \ {0} /\ IsFiniteSet(Pointers)
ASSUME LimitAssumption == MaxSessions \in Nat \ {0} /\ Fwd53 \in BOOLEAN
ASSUME TimeAssumption ==
  /\ {UdpTimeout, DnsTimeout, IcmpTimeout, Keep, MaxAge} \cup TcpTimeouts \subseteq Nat
  /\ \A t \in {UdpTimeout, DnsTimeout, IcmpTimeout, Keep} \cup TcpTimeouts : t < MaxAge

VARIABLES
  table,      \* the sessions on the list, by their pointer
  sessions,   \* how many were active when the pass began
  phase,      \* where handle_events is
  ready       \* events epoll_wait returned that are still to be handled:
              \* data.ptr of each, which is NULL for the tun device

vars == <<table, sessions, phase, ready>>

NULL == 0
Flows == Udp \cup Icmp \cup Tcp

(* life is UDP_ACTIVE, _FINISHING or _CLOSED, for ICMP ~stop or stop; age  *)
(* is the time since s->udp.time, s->icmp.time or s->tcp.time; watched     *)
(* says that epoll knows the socket; id is the identifier of the first     *)
(* echo request, asked those of the requests not yet answered.             *)
Session ==
  [flow : Flows, life : Lives \ {"none"}, up : BOOLEAN, watched : BOOLEAN,
   age : 0 .. MaxAge, id : Ids, asked : SUBSET Ids]

Allocated == DOMAIN table
ActiveSessions == {p \in Allocated : table[p].life = "active"}

(* Sockets that are polled: closing one takes it out of epoll.             *)
Watched == {p \in Allocated : table[p].up /\ table[p].watched}

-----------------------------------------------------------------------------
(* Timeouts. *)

Quotient(n, d) == IF n >= 0 THEN n \div d ELSE -((-n) \div d)   \* C's n / d

(* Mutant: the limit is not counted as reached at it, the timeout stays.   *)
Scaled_below_limit(timeout) ==
  IF sessions >= MaxSessions THEN timeout
  ELSE Quotient(timeout * (100 - Quotient(sessions * 100, MaxSessions)), 100)

(* get_udp_timeout, get_icmp_timeout, get_tcp_timeout: less time the more  *)
(* sessions there are, and less than none beyond the limit.                *)
Scaled(timeout) ==
  LET scale == 100 - Quotient(sessions * 100, MaxSessions)
  IN  Quotient(timeout * scale, 100)

(* What the timeout may be: that of TCP depends on the TCP state.          *)
Timeouts(s) ==
  CASE s.flow \in Dns -> {DnsTimeout}
    [] s.flow \in Udp \ Dns -> {UdpTimeout}
    [] s.flow \in Icmp -> {IcmpTimeout}
    [] s.flow \in Tcp -> TcpTimeouts

(* Mutant: a session expires when its time has come, not after. *)
Expired_on_time(s, timeout) == Scaled(timeout) <= s.age

Expired(s, timeout) == Scaled(timeout) < s.age

-----------------------------------------------------------------------------
Init ==
  /\ table = << >>
  /\ sessions = 0
  /\ phase = "monitor"
  /\ ready = {}

(* The first pass over the list counts, and monitors TCP sessions. *)
CountSessions ==
  /\ phase = "monitor" /\ phase' = "check"
  /\ sessions' = Cardinality(ActiveSessions)
  /\ \E failed \in SUBSET {p \in Allocated :
         /\ table[p].flow \in Tcp /\ table[p].up
         /\ <<"finishing", TRUE>> \in MonitorSteps(table[p].life, table[p].up)} :
       table' = [p \in Allocated |->
         IF p \in failed THEN [table[p] EXCEPT !.life = "finishing"] ELSE table[p]]
  /\ UNCHANGED ready

(* Less than EPOLL_MIN_CHECK milliseconds since the last check.            *)
SkipCheck ==
  /\ phase = "check" /\ phase' = "poll"
  /\ UNCHANGED <<table, sessions, ready>>

(* Mutant: a closed session is kept. *)
Checked_keeps_closed(s, expired) ==
  IF s.flow \in Icmp
  THEN IF s.life = "finishing" \/ expired THEN <<"none", FALSE>> ELSE <<s.life, s.up>>
  ELSE CheckStep(s.life, s.up, expired, FALSE)

(* check_icmp_session closes and frees at once; check_udp_session goes     *)
(* through the life of a TCP session.                                      *)
Checked(s, expired) ==
  IF s.flow \in Icmp
  THEN IF s.life = "finishing" \/ expired THEN <<"none", FALSE>> ELSE <<s.life, s.up>>
  ELSE CheckStep(s.life, s.up, expired, Keep < s.age)

(* The second pass; late are the active sessions that are idle for more    *)
(* than their timeout, with whatever timeout their TCP state has.          *)
CheckSessions ==
  /\ phase = "check" /\ phase' = "poll"
  /\ \E late \in SUBSET {p \in ActiveSessions : \E t \in Timeouts(table[p]) : Expired(table[p], t)} :
       /\ \A p \in ActiveSessions :
            (\A t \in Timeouts(table[p]) : Expired(table[p], t)) => p \in late
       /\ LET after(p) == Checked(table[p], p \in late)
          IN  table' = [p \in {q \in Allocated : after(q)[1] # "none"} |->
                IF after(p)[1] = table[p].life THEN table[p]
                ELSE [table[p] EXCEPT !.life = after(p)[1], !.up = after(p)[2],
                                      !.age = 0]]
  /\ UNCHANGED <<sessions, ready>>

Poll ==
  /\ phase = "poll"
  /\ ready' \in SUBSET (Watched \cup {NULL})
  /\ phase' = IF ready' = {} THEN "monitor" ELSE "events"
  /\ UNCHANGED <<table, sessions>>

(* The batch is handled in the order of the kernel's list, which is any.   *)
EndBatch(rest) == phase' = IF rest = {} THEN "monitor" ELSE "events"

-----------------------------------------------------------------------------
(* Packets from the tun device, as long as it is readable (check_tun). *)

ReadTun ==
  /\ phase = "events" /\ NULL \in ready
  /\ phase' = "tun" /\ ready' = ready \ {NULL}
  /\ UNCHANGED <<table, sessions>>

TunDrained ==
  /\ phase = "tun" /\ EndBatch(ready)
  /\ UNCHANGED <<table, sessions, ready>>

(* handle_ip drops what would open a session beyond the limit: an echo     *)
(* request, a datagram without session and every SYN.  sessions is the     *)
(* count of the pass.  has_udp_session is also true of what goes to port   *)
(* 53 when that is not forwarded.                                          *)
AtLimit == sessions >= MaxSessions

Of(flow) == {p \in Allocated : table[p].flow = flow}

(* Mutant: UDP overlooks a session that is being closed, as ICMP does.     *)
Found_active(flow) == Of(flow) \cap ActiveSessions

(* The session a packet belongs to: ICMP looks for one not stopped, UDP    *)
(* and TCP for any.                                                        *)
Found(flow) == IF flow \in Icmp THEN Of(flow) \cap ActiveSessions ELSE Of(flow)

FreePointer == CHOOSE p \in Pointers : p \notin Allocated   \* malloc

NewSession(flow, id, life, asked) ==
  /\ Pointers \ Allocated # {}
  /\ table' = [p \in Allocated \cup {FreePointer} |->
       IF p \in Allocated THEN table[p]
       ELSE [flow |-> flow, life |-> life, up |-> TRUE, watched |-> TRUE,
             age |-> 0, id |-> id, asked |-> asked]]

(* Mutants: a failed sendto closes the socket; a datagram takes a session  *)
(* back that has been given up.                                            *)
ForwardUdp_closes_socket(p) ==
  /\ table[p].life = "active"
  /\ \E up \in BOOLEAN :
       table' = [table EXCEPT ![p].life = IF up THEN @ ELSE "finishing",
                              ![p].age = 0, ![p].up = up]
ForwardUdp_revives(p) == table' = [table EXCEPT ![p].life = "active", ![p].age = 0]

(* A datagram for a session that is not active is ignored; sendto may fail *)
(* and finish the session.                                                 *)
ForwardUdp(p) ==
  /\ table[p].life = "active"
  /\ \E life \in {"active", "finishing"} :
       table' = [table EXCEPT ![p].life = life, ![p].age = 0]

(* check_dhcp: DHCP that is no request is not forwarded and changes        *)
(* nothing; a request is answered, and from then on the session is that of *)
(* another flow.                                                           *)
AnswerDhcp(p) ==
  /\ table[p].life = "active" /\ table[p].flow \in Dhcp
  /\ \E flow \in {table[p].flow, Answered} :
       table' = [table EXCEPT ![p].flow = flow]

(* handle_udp: a new session sends its datagram as well, or answers it. *)
UdpPacket(f) ==
  /\ phase = "tun"
  /\ \/ /\ Found(f) = {}
        /\ AtLimit => f \in Dns /\ ~Fwd53
        /\ \E id \in Ids :
             \/ \E life \in {"active", "finishing"} : NewSession(f, id, life, {})
             \/ f \in Dhcp /\ NewSession(Answered, id, "active", {})
     \/ \E p \in Found(f) : ForwardUdp(p) \/ AnswerDhcp(p)
  /\ UNCHANGED <<sessions, phase, ready>>

(* handle_icmp for an echo request with identifier i. *)
IcmpPacket(f, i) ==
  /\ phase = "tun"
  /\ ~AtLimit
  /\ \E sent \in BOOLEAN :
       LET life == IF sent THEN "active" ELSE "finishing"
           asked == IF sent THEN {i} ELSE {}
       IN  IF Found(f) = {}
           THEN NewSession(f, i, life, asked)
           ELSE \E p \in Found(f) :
                  table' = [table EXCEPT ![p].life = life, ![p].age = 0,
                                         ![p].asked = @ \cup asked]
  /\ UNCHANGED <<sessions, phase, ready>>

(* handle_tcp: a SYN opens a session when there is none. *)
TcpPacket(f, syn) ==
  /\ phase = "tun"
  /\ syn => ~AtLimit
  /\ IF Found(f) = {}
     THEN syn /\ \E id \in Ids : NewSession(f, id, "active", {})
     ELSE \E p \in Found(f), handled \in BOOLEAN :
            \E step \in PacketSteps(table[p].life, table[p].up) :
              table' = [table EXCEPT ![p].life = step[1], ![p].up = step[2],
                          ![p].age = IF handled /\ table[p].life = "active" THEN 0 ELSE @]
  /\ UNCHANGED <<sessions, phase, ready>>

-----------------------------------------------------------------------------
(* The event of a session. *)

Turn(p, flows) ==
  /\ phase = "events"
  /\ p \in ready /\ p \in Allocated /\ table[p].flow \in flows
  /\ ready' = ready \ {p} /\ EndBatch(ready')
  /\ UNCHANGED sessions

(* check_udp_socket for every datagram that can be read, one to port 53    *)
(* or a failure finishing the session.  An error event is not looked at,   *)
(* neither is one with nothing to read.                                    *)
UdpEvent(p) ==
  /\ Turn(p, Udp)
  /\ \/ UNCHANGED table
     \/ \E life \in {table[p].life, "finishing"} :
          table' = [table EXCEPT ![p].life = life, ![p].age = 0]

(* Mutant: a socket error closes the socket. *)
IcmpEvent_closes_socket(p) ==
  /\ Turn(p, Icmp)
  /\ table' = [table EXCEPT ![p].life = "finishing", ![p].up = FALSE, ![p].age = 0]

(* check_icmp_socket: an answer gets the session's identifier; an error    *)
(* stops the session.                                                      *)
IcmpEvent(p) ==
  /\ Turn(p, Icmp)
  /\ \/ \E i \in table[p].asked, life \in {table[p].life, "finishing"} :
          table' = [table EXCEPT ![p].life = life, ![p].age = 0, ![p].asked = @ \ {i}]
     \/ \E life \in {table[p].life, "finishing"} :
          table' = [table EXCEPT ![p].life = life, ![p].age = 0]

TcpEvent(p) ==
  /\ Turn(p, Tcp)
  /\ \E step \in EventSteps(table[p].life, table[p].up), age \in {0, table[p].age} :
       table' = [table EXCEPT ![p].life = step[1], ![p].up = step[2], ![p].age = age]

-----------------------------------------------------------------------------
(* The loop ends on the byte in the pipe or an error, and the sessions     *)
(* stay; clear frees them all; check_allowed ends them for the next        *)
(* thread, whose epoll does not know their sockets.                        *)

Stop ==
  /\ phase \in {"poll", "events", "tun"} /\ phase' = "stopped"
  /\ ready' = {}
  /\ UNCHANGED <<table, sessions>>

Clear ==
  /\ phase = "stopped" /\ phase' = "stopped"
  /\ table' = << >>
  /\ UNCHANGED <<sessions, ready>>

Start ==
  /\ phase = "stopped" /\ phase' = "monitor"
  /\ sessions' = 0
  /\ table' = [p \in Allocated |->
       [table[p] EXCEPT !.life = AllowedStep(table[p].life, table[p].up)[1],
                        !.watched = FALSE]]
  /\ UNCHANGED ready

(* A second passes. *)
Tick ==
  /\ \E p \in Allocated : table[p].age < MaxAge
  /\ table' = [p \in Allocated |->
       [table[p] EXCEPT !.age = IF @ < MaxAge THEN @ + 1 ELSE @]]
  /\ UNCHANGED <<sessions, phase, ready>>

Packet ==
  \/ \E f \in Udp : UdpPacket(f)
  \/ \E f \in Icmp, i \in Ids : IcmpPacket(f, i)
  \/ \E f \in Tcp, syn \in BOOLEAN : TcpPacket(f, syn)

Event == \E p \in ready : UdpEvent(p) \/ IcmpEvent(p) \/ TcpEvent(p)

Next ==
  \/ CountSessions \/ SkipCheck \/ CheckSessions \/ Poll
  \/ ReadTun \/ Packet \/ TunDrained \/ Event
  \/ Stop \/ Clear \/ Start \/ Tick

(* As in TcpSession: the thread runs, its checks are not skipped for ever, *)
(* the tun device is not readable for ever, and time passes.               *)
Fairness ==
  /\ WF_vars(CountSessions \/ SkipCheck \/ Poll \/ ReadTun \/ Event)
  /\ SF_vars(CheckSessions)
  /\ WF_vars(TunDrained)
  /\ WF_vars(Tick)

Spec == Init /\ [][Next]_vars /\ Fairness

-----------------------------------------------------------------------------
(* The list holds sessions, and ready what Poll may put there.             *)
TypeOK ==
  /\ Allocated \subseteq Pointers /\ table \in [Allocated -> Session]
  /\ sessions \in Nat
  /\ phase \in {"monitor", "check", "poll", "events", "tun", "stopped"}
  /\ ready \subseteq Pointers \cup {NULL}

(* No handler of a batch frees the session, or closes the socket, that     *)
(* another event of the batch is for: ev[i].data.ptr does not dangle.      *)
EventsHaveSessions == \A p \in ready \ {NULL} : p \in Allocated /\ table[p].up

(* A UDP flow has one session at most, and so has a TCP flow; an ICMP pair *)
(* has one that is not stopped.  Only the flow that check_dhcp gives its   *)
(* sessions may have many.                                                 *)
OneSessionPerFlow ==
  \A p, q \in Allocated :
    /\ table[p].flow = table[q].flow
    /\ table[p].flow \in Icmp => table[p].life = "active" /\ table[q].life = "active"
    /\ Dhcp # {} => table[p].flow # Answered
    => p = q

(* close(s->socket) in check_udp_session and check_icmp_session meets an   *)
(* open socket: it is given up with the last life but one, and only then.  *)
SocketUntilClosed ==
  \A p \in Allocated : table[p].flow \notin Tcp => (table[p].up <=> table[p].life # "closed")

(* Events are pending only while a batch is handled. *)
ReadyInPhase == phase \notin {"events", "tun"} => ready = {}

IInv ==
  /\ TypeOK /\ EventsHaveSessions /\ OneSessionPerFlow /\ SocketUntilClosed /\ ReadyInPhase

(* Below the limit no session is closed in the very second it was used.    *)
BusyIsKept ==
  [][\A p \in ActiveSessions :
       CheckSessions /\ sessions <= MaxSessions /\ table[p].age = 0
         => p \in Allocated' /\ table'[p].life = "active"]_vars

(* From the limit on, every session that was idle for a second is given    *)
(* up: what one batch may open beyond it does not stay.                    *)
OverLimitIsShed ==
  [][\A p \in ActiveSessions :
       CheckSessions /\ sessions >= MaxSessions /\ table[p].age > 0
         => p \notin ActiveSessions']_vars

(* A session that is given up stays so until it is freed, whatever packets *)
(* of its flow arrive.                                                     *)
GivenUp(p) == p \in Allocated /\ table[p].flow \notin Tcp /\ table[p].life # "active"
NoRevival == [][\A p \in Pointers : GivenUp(p) => GivenUp(p)' \/ p \notin Allocated']_vars

(* While the loop runs, what is given up is freed in the end.              *)
EndedIsFreed == \A p \in Pointers : GivenUp(p) ~> ~GivenUp(p) \/ phase = "stopped"

-----------------------------------------------------------------------------
(* What a comment says and the code does not keep.                         *)

(* check_icmp_socket: "restore original ID" of the request that is         *)
(* answered.                                                               *)
AnswersKeepId == \A p \in Allocated : table[p].asked \subseteq {table[p].id}

=============================================================================
