----------------------------- MODULE TunnelLife -----------------------------
(***************************************************************************)
(* The tunnel as the rest of the application sees it: the service, whether *)
(* it has a tun device (running() of TunnelService) and whether a native   *)
(* thread serves that device.  TunnelThread implements it, App relies on   *)
(* it.                                                                     *)
(***************************************************************************)
VARIABLES
  service,  \* the service exists
  open,     \* it has a tun device
  serving   \* a native thread uses the device

vars == <<service, open, serving>>

Init == ~service /\ ~open /\ ~serving

Create == ~service /\ service' = TRUE /\ UNCHANGED <<open, serving>>

(* start: first the device, then the thread, which may fail to come.       *)
Open == service /\ ~open /\ open' = TRUE /\ UNCHANGED <<service, serving>>

Serve == open /\ ~serving /\ serving' = TRUE /\ UNCHANGED <<service, open>>

(* The thread ends, asked or not. *)
Leave == serving /\ serving' = FALSE /\ UNCHANGED <<service, open>>

(* stop: the device is closed when nobody serves it any more, and only     *)
(* then.                                                                   *)
Close == open /\ ~serving /\ open' = FALSE /\ UNCHANGED <<service, serving>>

Destroy == service /\ ~open /\ ~serving /\ service' = FALSE /\ UNCHANGED <<open, serving>>

Next == Create \/ Open \/ Serve \/ Leave \/ Close \/ Destroy

Spec == Init /\ [][Next]_vars

=============================================================================
