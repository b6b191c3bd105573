-------------------------------- MODULE App ---------------------------------
(***************************************************************************)
(* The application around the tunnel: MainActivity with its switch and its *)
(* connections to TunnelService and ShellService, the messages its main    *)
(* thread handles one after the other, and the Node.js process that        *)
(* ShellService runs.  The tunnel is a TunnelLife, which TunnelThread      *)
(* implements.                                                             *)
(*                                                                         *)
(* What the user clicks becomes an intent, and what a service does about   *)
(* it comes later; the activity looks at the services through references   *)
(* it got when it was last connected.                                      *)
(***************************************************************************)
EXTENDS Naturals, SequencesExt

CONSTANTS
  Procs,      \* processes that Runtime.exec may create
  NULL,
  MaxPending  \* bound: the user waits while as many messages are pending

ASSUME NullIsNoProc == NULL \notin Procs
ASSUME MaxPendingIsNat == MaxPending \in Nat

VARIABLES
  prefs,    \* the services that the preferences select
  consent,  \* VpnService.prepare returns no intent
  service, open, serving,  \* the tunnel, see TunnelLife
  shellProcess,            \* ShellService.shellProcess
  proc,     \* what the processes do; one that was destroyed may go on
  activity, \* what the activity does: "gone" when there is none
  menu,     \* its options menu, and so the switch, has been created
  shown,    \* the switch is on
  asking,   \* the dialog of VpnService.prepare is shown
  ref,      \* tunnelService, shellService: FALSE for null and for a service
            \* that has been destroyed
  started,  \* services that startService has started and that stay
  queue,    \* messages for the main thread
  disturbed \* history: since the last resume something happened that the
            \* activity is not told of

tunnel == <<service, open, serving>>
shell == <<shellProcess, proc>>
screen == <<activity, menu, shown, asking>>
vars == <<prefs, consent, tunnel, shell, screen, ref, started, queue, disturbed>>

Services == {"vpn", "shell"}
Kinds == {"bind", "connected", "start", "serve", "stop", "revoke", "destroy"}
Message == [what : Kinds, to : Services]

T == INSTANCE TunnelLife

(* running() of the services, and what the activity sees of it. *)
Running == {s \in Services : IF s = "vpn" THEN open ELSE shellProcess # NULL}
Seen(r) == {s \in Running : r[s]}

Messages(what, S) ==
  LET To(s) == IF s \in S THEN <<[what |-> what, to |-> s]>> ELSE << >>
  IN  To("vpn") \o To("shell")

(* The places of the queue that hold messages of some kinds. *)
PlacesOf(kinds, q) == {i \in DOMAIN q : q[i].what \in kinds}
Pending(kinds) == PlacesOf(kinds, queue)

(* A queue without its messages of some kinds. *)
Without(kinds, q) ==
  LET rest[n \in 0 .. Len(q)] ==
        IF n = 0 THEN << >>
        ELSE IF q[n].what \in kinds THEN rest[n - 1] ELSE Append(rest[n - 1], q[n])
  IN  rest[Len(q)]

-----------------------------------------------------------------------------
Init ==
  /\ prefs \in SUBSET Services /\ consent \in BOOLEAN
  /\ service = FALSE /\ open = FALSE /\ serving = FALSE
  /\ shellProcess = NULL /\ proc = [p \in Procs |-> "none"]
  /\ activity = "gone" /\ menu = FALSE /\ shown = FALSE /\ asking = FALSE
  /\ ref = [s \in Services |-> FALSE] /\ started = [s \in Services |-> FALSE]
  /\ queue = << >>
  /\ disturbed = FALSE

(* setChecked(on) and the listener, which runs when that changes the       *)
(* switch: it starts what is selected and does not run, or stops what      *)
(* runs.  When nothing is selected it turns the switch off again; a switch *)
(* that is telling its listener does not call it for that, so nothing is   *)
(* stopped.  startVpn asks for consent instead when there is none.  rest   *)
(* is the queue that the intents are appended to.                          *)
SetChecked(r, on, rest) ==
  LET starts == IF on THEN prefs \ Seen(r) ELSE {}
      stops  == IF on THEN {} ELSE Seen(r)
      denied == IF consent THEN {} ELSE starts \cap {"vpn"}
  IN  IF on = shown
      THEN queue' = rest /\ UNCHANGED <<shown, asking, started>>
      ELSE /\ shown' = (on /\ prefs # {})
           /\ asking' = (asking \/ denied # {})
           /\ queue' = rest \o Messages("start", starts \ denied) \o Messages("stop", stops)
           /\ started' = [s \in Services |-> started[s] \/ s \in (starts \ denied) \cup stops]

(* Mutant: the switch shows the tunnel only. *)
syncToggle_tunnel(r, rest) ==
  IF menu THEN SetChecked(r, "vpn" \in Seen(r), rest)
  ELSE queue' = rest /\ UNCHANGED <<shown, asking, started>>

(* syncToggle, which does nothing before there is a switch. *)
syncToggle(r, rest) ==
  IF menu THEN SetChecked(r, Seen(r) # {}, rest)
  ELSE queue' = rest /\ UNCHANGED <<shown, asking, started>>

-----------------------------------------------------------------------------
(* The activity and its user. *)

(* A new instance has no references and a switch that is off. *)
Launch ==
  /\ activity = "gone" /\ activity' = "created"
  /\ UNCHANGED <<prefs, consent, tunnel, shell, menu, shown, asking, ref, started, queue,
                 disturbed>>

(* onResume binds the services, which creates those that do not run yet. *)
Resume ==
  /\ activity \in {"created", "paused"} /\ ~asking /\ Len(queue) <= MaxPending
  /\ activity' = "resumed"
  /\ LET known == {s \in Services : started[s]}
     IN  syncToggle(ref, queue \o Messages("connected", known)
                               \o Messages("bind", Services \ known))
  /\ disturbed' = (Pending({"stop", "revoke"}) # {})
  /\ UNCHANGED <<prefs, consent, tunnel, shell, menu, ref>>

(* onCreateOptionsMenu, after onResume. *)
CreateMenu ==
  /\ activity = "resumed" /\ ~menu
  /\ menu' = TRUE
  /\ SetChecked(ref, Seen(ref) # {}, queue)
  /\ UNCHANGED <<prefs, consent, tunnel, shell, activity, ref, disturbed>>

Click ==
  /\ activity = "resumed" /\ menu /\ Len(queue) < MaxPending
  /\ SetChecked(ref, ~shown, queue)
  /\ disturbed' = (disturbed \/ queue # << >> \/ \E s \in Services : ~ref[s])
  /\ UNCHANGED <<prefs, consent, tunnel, shell, activity, menu, ref>>

(* onPause unbinds: what the connections had to come does not, and         *)
(* services that were not started are destroyed.  The references stay.     *)
Pause ==
  /\ activity = "resumed" /\ activity' = "paused"
  /\ queue' = Without({"bind", "connected"}, queue)
                \o Messages("destroy", {s \in Services : ~started[s]})
  /\ UNCHANGED <<prefs, consent, tunnel, shell, menu, shown, asking, ref, started, disturbed>>

Prefer ==
  /\ activity = "paused" /\ prefs' \in SUBSET Services
  /\ UNCHANGED <<consent, tunnel, shell, screen, ref, started, queue, disturbed>>

(* onActivityResult comes before onResume. *)
Answer(ok) ==
  /\ activity = "paused" /\ asking
  /\ asking' = FALSE
  /\ consent' = (consent \/ ok)
  /\ queue' = queue \o (IF ok THEN Messages("start", {"vpn"}) ELSE << >>)
  /\ started' = [started EXCEPT !["vpn"] = @ \/ ok]
  /\ UNCHANGED <<prefs, tunnel, shell, activity, menu, shown, ref, disturbed>>

Leave ==
  /\ activity = "paused" /\ ~asking
  /\ activity' = "gone" /\ menu' = FALSE /\ shown' = FALSE
  /\ ref' = [s \in Services |-> FALSE]
  /\ UNCHANGED <<prefs, consent, tunnel, shell, asking, started, queue, disturbed>>

-----------------------------------------------------------------------------
(* The main thread handles the message at the head of its queue. *)

Gets(what, to) == queue # << >> /\ Head(queue) = [what |-> what, to |-> to]
Done == queue' = Tail(queue)
OthersUnchanged == UNCHANGED <<prefs, consent, screen, disturbed>>

(* The service of a message is created before it gets the message. *)
CreateService ==
  /\ \E what \in {"bind", "connected", "start", "stop"} : Gets(what, "vpn")
  /\ T!Create
  /\ OthersUnchanged /\ UNCHANGED <<shell, ref, started, queue>>

Ready(s) == s = "vpn" => service

(* Mutant: onServiceConnected is not called. *)
Bind_unconnected(s) ==
  /\ Gets("bind", s) /\ Ready(s) /\ Done
  /\ OthersUnchanged /\ UNCHANGED <<tunnel, shell, ref, started>>

Bind(s) ==
  /\ Gets("bind", s) /\ Ready(s)
  /\ queue' = Append(Tail(queue), [what |-> "connected", to |-> s])
  /\ OthersUnchanged /\ UNCHANGED <<tunnel, shell, ref, started>>

(* Mutant: onServiceConnected does not look at the service. *)
Connected_no_sync(s) ==
  /\ Gets("connected", s) /\ Ready(s)
  /\ ref' = [ref EXCEPT ![s] = TRUE]
  /\ Done
  /\ OthersUnchanged /\ UNCHANGED <<tunnel, shell, started>>

Connected(s) ==
  /\ Gets("connected", s) /\ Ready(s)
  /\ ref' = [ref EXCEPT ![s] = TRUE]
  /\ syncToggle(ref', Tail(queue))
  /\ UNCHANGED <<prefs, consent, tunnel, shell, activity, menu, disturbed>>

(* TunnelService.start: establish, then jni_start in a step of its own. *)
StartTunnel ==
  /\ Gets("start", "vpn") /\ Ready("vpn")
  /\ IF open THEN Done /\ UNCHANGED tunnel
     ELSE consent /\ T!Open /\ queue' = <<[what |-> "serve", to |-> "vpn"]>> \o Tail(queue)
  /\ OthersUnchanged /\ UNCHANGED <<shell, ref, started>>

ServeTunnel ==
  /\ Gets("serve", "vpn") /\ Done
  /\ T!Serve \/ UNCHANGED tunnel
  /\ OthersUnchanged /\ UNCHANGED <<shell, ref, started>>

(* stop of TunnelService waits for the native thread; Close is not enabled *)
(* before that has left.                                                   *)
StopTunnelOr(otherwise) == IF open THEN T!Close ELSE otherwise

StopTunnel ==
  /\ Gets("stop", "vpn") /\ Ready("vpn") /\ Done
  /\ StopTunnelOr(UNCHANGED tunnel)
  /\ OthersUnchanged /\ UNCHANGED <<shell, ref, started>>

(* onRevoke stops the tunnel, and super.onRevoke the service, which the    *)
(* activity may still hold.                                                *)
Revoked ==
  /\ Gets("revoke", "vpn")
  /\ StopTunnelOr(UNCHANGED tunnel)
  /\ started' = [started EXCEPT !["vpn"] = FALSE]
  /\ queue' = Tail(queue) \o
       (IF activity = "resumed" THEN << >> ELSE Messages("destroy", {"vpn"}))
  /\ OthersUnchanged /\ UNCHANGED <<shell, ref>>

DestroyTunnel ==
  /\ Gets("destroy", "vpn")
  /\ IF open THEN T!Close /\ UNCHANGED <<ref, queue>>
     ELSE /\ T!Destroy \/ (~service /\ UNCHANGED tunnel)
          /\ ref' = [ref EXCEPT !["vpn"] = FALSE] /\ Done
  /\ OthersUnchanged /\ UNCHANGED <<shell, started>>

(* ShellService.start: exec may fail, which the activity is told as text.  *)
StartShell ==
  /\ Gets("start", "shell") /\ Done
  /\ \/ shellProcess # NULL /\ UNCHANGED <<shell, disturbed>>
     \/ /\ shellProcess = NULL
        /\ \E p \in Procs :
             /\ proc[p] = "none" /\ proc' = [proc EXCEPT ![p] = "live"]
             /\ shellProcess' = p
        /\ UNCHANGED disturbed
     \/ shellProcess = NULL /\ disturbed' = TRUE /\ UNCHANGED shell
  /\ UNCHANGED <<prefs, consent, screen, tunnel, ref, started>>

(* Mutants: the process is forgotten but not destroyed; one that has       *)
(* exited is not forgotten.                                                *)
EndShell_forgets == shellProcess' = NULL /\ UNCHANGED proc
EndShell_if_live ==
  IF \A p \in Procs : p = shellProcess => proc[p] # "live" THEN UNCHANGED shell
  ELSE /\ proc' = [proc EXCEPT ![shellProcess] = "asked"]
       /\ shellProcess' = NULL

(* ShellService.stop: a process that has exited already is destroyed too. *)
EndShell ==
  IF shellProcess = NULL THEN UNCHANGED shell
  ELSE /\ proc' = [proc EXCEPT ![shellProcess] = IF @ = "live" THEN "asked" ELSE @]
       /\ shellProcess' = NULL

StopShell ==
  /\ Gets("stop", "shell") /\ Done /\ EndShell
  /\ OthersUnchanged /\ UNCHANGED <<tunnel, ref, started>>

DestroyShell ==
  /\ Gets("destroy", "shell") /\ Done /\ EndShell
  /\ ref' = [ref EXCEPT !["shell"] = FALSE]
  /\ OthersUnchanged /\ UNCHANGED <<tunnel, started>>

Main ==
  \/ CreateService \/ StartTunnel \/ ServeTunnel \/ StopTunnel \/ Revoked \/ DestroyTunnel
  \/ StartShell \/ StopShell \/ DestroyShell
  \/ \E s \in Services : Bind(s) \/ Connected(s)

-----------------------------------------------------------------------------
(* What else goes on. *)

(* The native thread ends, asked by a stop that waits for it or not. *)
ThreadEnds ==
  /\ T!Leave
  /\ OthersUnchanged /\ UNCHANGED <<shell, ref, started, queue>>
Waiting == \E what \in {"stop", "revoke", "destroy"} : Gets(what, "vpn")
ThreadObeys == Waiting /\ ThreadEnds

(* A process exits; nobody looks. *)
ProcessExits(p) ==
  /\ proc[p] # "none" /\ proc' = [proc EXCEPT ![p] = "none"]
  /\ OthersUnchanged /\ UNCHANGED <<tunnel, shellProcess, ref, started, queue>>

(* Another VPN takes over: onRevoke. *)
Revoke ==
  /\ open /\ consent /\ consent' = FALSE
  /\ queue' = Append(queue, [what |-> "revoke", to |-> "vpn"])
  /\ disturbed' = TRUE
  /\ UNCHANGED <<prefs, tunnel, shell, screen, ref, started>>

(* The application's process dies: the system kills it, start throws as    *)
(* establish returned null, or sendMessage has no remoteMessager yet.      *)
(* START_STICKY brings started services back, with an intent that is null. *)
Die ==
  /\ service' = FALSE /\ open' = FALSE /\ serving' = FALSE
  /\ shellProcess' = NULL /\ proc' = [p \in Procs |-> "none"]
  /\ activity' = "gone" /\ menu' = FALSE /\ shown' = FALSE /\ asking' = FALSE
  /\ ref' = [s \in Services |-> FALSE]
  /\ queue' = << >>
  /\ UNCHANGED <<prefs, consent, started, disturbed>>
StartThrows == Gets("start", "vpn") /\ service /\ ~open /\ ~consent /\ Die

Next ==
  \/ Launch \/ Resume \/ CreateMenu \/ Click \/ Pause \/ Prefer \/ Leave
  \/ \E ok \in BOOLEAN : Answer(ok)
  \/ Main \/ ThreadEnds \/ Revoke \/ Die
  \/ \E p \in Procs : ProcessExits(p)

(* The main thread goes on, and a thread asked to end does: StopReturns of *)
(* TunnelThread.                                                           *)
Fairness == WF_vars(Main \/ StartThrows) /\ WF_vars(ThreadObeys)

Spec == Init /\ [][Next]_vars /\ Fairness

-----------------------------------------------------------------------------
TypeOK ==
  /\ prefs \subseteq Services /\ consent \in BOOLEAN
  /\ service \in BOOLEAN /\ open \in BOOLEAN /\ serving \in BOOLEAN
  /\ shellProcess \in Procs \cup {NULL}
  /\ proc \in [Procs -> {"none", "live", "asked"}]
  /\ activity \in {"gone", "created", "resumed", "paused"}
  /\ menu \in BOOLEAN /\ shown \in BOOLEAN /\ asking \in BOOLEAN
  /\ ref \in [Services -> BOOLEAN] /\ started \in [Services -> BOOLEAN]
  /\ queue \in Seq(Message) /\ disturbed \in BOOLEAN

(* ShellService knows every process that nobody asked to end, and no other *)
(* that was asked: none is left running without a way to stop it.          *)
ProcessHeld == \A p \in Procs : (proc[p] = "live" => p = shellProcess)

(* When the activity is connected and nothing is pending, the switch is on *)
(* only if a service runs, and it is on if one runs and any is selected,   *)
(* unless a start failed, the tunnel was revoked, or the user was quicker  *)
(* than the services.  Without a selection syncToggle cannot turn it on.   *)
Settled ==
  activity = "resumed" /\ menu /\ ~asking /\ queue = << >> /\ \A s \in Services : ref[s]
SwitchIsRight ==
  Settled /\ ~disturbed =>
    /\ shown => Running # {}
    /\ Running # {} /\ prefs # {} => shown

(* No step stops a service but the user's click on a switch that is on:    *)
(* the activity that syncs its switch does not switch anything off, nor    *)
(* does a switch that turns itself off for want of a selection.            *)
SyncStopsNothing ==
  [][Cardinality(Pending({"stop"})') > Cardinality(Pending({"stop"})) => Click /\ shown]_vars

(* A service that was asked to stop does, even if its thread or process    *)
(* has failed in between.                                                  *)
StopIsDone ==
  \A s \in Services : [what |-> "stop", to |-> s] \in ToSet(queue) ~> s \notin Running

-----------------------------------------------------------------------------
(* What SwitchIsRight rests on: an invariant about the order of messages.  *)

Connections == {"bind", "connected"}
PlacesFor(kinds, s, q) == {i \in PlacesOf(kinds, q) : q[i].to = s}

(* A message of some kind for s that comes after all that destroy s. *)
AskedAfter(kinds, s, q) ==
  {k \in PlacesFor(kinds, s, q) : \A i \in PlacesFor({"destroy"}, s, q) : i < k}

(* s is started, not destroyed any more, before the activity is connected  *)
(* for the last time.                                                      *)
StartedFirst(s, q) ==
  \E k \in AskedAfter({"start"}, s, q), j \in PlacesOf({"connected"}, q) : k < j

(* A start that is left when the activity has been connected. *)
StartsLate(q) ==
  /\ PlacesOf({"bind"}, q) = {}
  /\ \E i \in PlacesOf({"start"}, q) : \A j \in PlacesOf({"connected"}, q) : j < i

(* s runs when the activity is connected for the last time. *)
Lasts(s) ==
  \/ s \in Running /\ PlacesFor({"destroy"}, s, queue) = {}
  \/ StartedFirst(s, queue)

(* A service that is started again comes back after it is destroyed. *)
ComesBack ==
  \A s \in Services :
    started[s] /\ PlacesFor({"destroy"}, s, queue) # {} => AskedAfter({"start", "stop"}, s, queue) # {}

(* A resumed activity has its connections or waits for them, and what      *)
(* destroys services comes before.                                         *)
Connects ==
  IF activity = "resumed"
  THEN /\ \A i \in Pending({"destroy"}), j \in Pending(Connections) : i < j
       /\ \A s \in Services :
            PlacesFor(Connections, s, queue) # {} \/ (ref[s] /\ Pending({"destroy"}) = {})
  ELSE Pending(Connections) = {}

Followed == activity = "resumed" /\ ~disturbed
Connecting == Pending(Connections) # {} \/ ~menu

(* Nothing stops services meanwhile; what is destroyed is bound, or        *)
(* started, again; and a late start goes with a service that runs.         *)
StopsAreMeant ==
  Followed => Pending({"revoke"}) = {} /\ (Connecting => Pending({"stop"}) = {})
DestroyedComesBack ==
  Followed => \A s \in Services :
    PlacesFor({"destroy"}, s, queue) # {} => Pending({"bind"}) # {} \/ StartedFirst(s, queue)
LateStartsFit ==
  Followed /\ ~asking /\ Connecting /\ StartsLate(queue) => prefs # {} /\ \E s \in Services : Lasts(s)

(* The switch is what the services will be when the queue is empty; with   *)
(* nothing selected it may be off for services that go on.                 *)
SwitchFits ==
  Followed /\ ~asking /\ ~Connecting =>
    IF shown THEN Pending({"stop"}) = {} /\ (Running # {} \/ Pending({"start"}) # {})
    ELSE /\ Pending({"start"}) = {}
         /\ prefs # {} => \A s \in Running : PlacesFor({"stop"}, s, queue) # {}

(* The messages that are on their way lead to a switch that is right,      *)
(* however onServiceConnected, onResume, intents and clicks follow each    *)
(* other: an invariant that SwitchIsRight follows from.                    *)
SwitchInv ==
  /\ TypeOK /\ ComesBack /\ Connects /\ StopsAreMeant /\ DestroyedComesBack /\ LateStartsFit
  /\ SwitchFits

=============================================================================
