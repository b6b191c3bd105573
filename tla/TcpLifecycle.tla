---------------------------- MODULE TcpLifecycle ----------------------------
(***************************************************************************)
(* The life of one TCP session as the event loop of session.c drives it,   *)
(* without anything of TCP: the specification that TcpSession implements.  *)
(***************************************************************************)
EXTENDS SessionLife

VARIABLES
  life,   \* a member of Lives
  up,     \* the session has a socket
  at      \* where the loop of handle_events is

vars == <<life, up, at>>

Init == life = "none" /\ up = FALSE /\ at = "monitor"

(* The pass over the sessions, before the check. *)
Monitor ==
  /\ at = "monitor" /\ at' = "check"
  /\ <<life', up'>> \in MonitorSteps(life, up)

(* The check, unless the last one is too recent. *)
Check ==
  /\ at = "check" /\ at' = "poll"
  /\ \/ UNCHANGED <<life, up>>
     \/ \E expired, lingered \in BOOLEAN :
          <<life', up'>> = CheckStep(life, up, expired, lingered)

Poll ==
  /\ at = "poll" /\ at' \in {"monitor", "events"}
  /\ UNCHANGED <<life, up>>

(* A SYN without session opens one, with a socket. *)
Open ==
  /\ at = "events" /\ at' = at
  /\ life = "none" /\ life' = "active" /\ up' = TRUE

Packet ==
  /\ at = "events" /\ at' = at
  /\ life # "none"
  /\ <<life', up'>> \in PacketSteps(life, up)

(* An event of the session, which has a socket as long as it is in a       *)
(* batch, or the end of the events of the tun device.                      *)
Event ==
  /\ at = "events" /\ at' \in {"events", "monitor"}
  /\ <<life', up'>> \in EventSteps(life, up)

(* The thread ends, sessions stay, and another starts or all are freed. *)
Stop ==
  /\ at \in {"poll", "events"} /\ at' = "stopped"
  /\ UNCHANGED <<life, up>>

Start ==
  /\ at = "stopped" /\ at' = "monitor"
  /\ <<life', up'>> = AllowedStep(life, up)

Clear ==
  /\ at \in {"poll", "events", "stopped"} /\ at' = "stopped"
  /\ life' = "none" /\ up' = FALSE

Next == Monitor \/ Check \/ Poll \/ Open \/ Packet \/ Event \/ Stop \/ Start \/ Clear

Spec == Init /\ [][Next]_vars

=============================================================================
