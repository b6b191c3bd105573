---------------------------- MODULE SessionLife ----------------------------
(***************************************************************************)
(* What the event loop of session.c relies on from a TCP session: how the  *)
(* handlers of tcp.c may change the life of the session and whether it has *)
(* a socket.  TcpLifecycle makes a specification of these steps, which     *)
(* TcpSession is shown to implement, and SessionTable uses them for the    *)
(* TCP sessions among the others.                                          *)
(*                                                                         *)
(* A life is "active", "finishing" (TCP_CLOSING: check_tcp_session is to   *)
(* close it), "closed" (TCP_CLOSE: it lingers) or "none".                  *)
(***************************************************************************)

Lives == {"none", "active", "finishing", "closed"}

(* monitor_tcp_session, which is for sessions with a socket: writing to    *)
(* the tun device, or changing the epoll registration, fails.              *)
MonitorSteps(life, up) ==
  {<<life, up>>} \cup IF life = "active" /\ up THEN {<<"finishing", up>>} ELSE {}

(* check_tcp_session: expired and lingered say that the session's time is  *)
(* over for its timeout and for TCP_KEEP_TIMEOUT.                          *)
CheckStep(life, up, expired, lingered) ==
  CASE life = "finishing" \/ (life = "active" /\ expired) -> <<"closed", FALSE>>
    [] life = "closed" /\ lingered -> <<"none", FALSE>>
    [] OTHER -> <<life, up>>

(* handle_tcp for a packet of the session: it may be given up, or be       *)
(* closed by the client's FIN after the server's; CONNECT on port 443      *)
(* takes a session back that has been given up.                            *)
PacketSteps(life, up) ==
  {<<life, up>>} \cup
  CASE life = "active" ->
         {<<"finishing", up>>} \cup IF up THEN {} ELSE {<<"closed", up>>}
    [] life = "finishing" /\ up -> {<<"active", up>>}
    [] OTHER -> {}

(* check_tcp_socket for an event of the session's socket, which the        *)
(* server's EOF closes.                                                    *)
EventSteps(life, up) ==
  IF up /\ life = "active"
  THEN {"active", "finishing"} \X BOOLEAN
  ELSE {<<life, up>>}

(* Mutant: the session is over but stays on the list. *)
AllowedStep_ends(life, up) == <<"none", FALSE>>

(* check_allowed, as a thread starts. *)
AllowedStep(life, up) == IF life = "active" THEN <<"finishing", up>> ELSE <<life, up>>

=============================================================================
