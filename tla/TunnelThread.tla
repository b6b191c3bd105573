---------------------------- MODULE TunnelThread ----------------------------
(***************************************************************************)
(* TunnelService (Java) and the native thread that handle_events runs in.  *)
(*                                                                         *)
(* The service's calls come one after another on the main thread of the    *)
(* application: onCreate, start, stop (also from onRevoke) and onDestroy.  *)
(* jni_start creates the thread, jni_stop writes a byte to a pipe that the *)
(* thread polls and joins it.  The thread may also leave its loop on its   *)
(* own, when epoll or the tun device fails, at any point of those calls.   *)
(* Both sides touch thread_id and the list of sessions without a lock.     *)
(***************************************************************************)
EXTENDS Integers, FiniteSets

CONSTANTS
  Threads,     \* what pthread_create may yield
  Descriptors, \* what establish() may yield
  NULL,        \* no thread, no descriptor
  MaxBytes     \* bound: no start with more bytes than that left in the pipe

ASSUME NullAssumption == NULL \notin Threads \cup Descriptors
ASSUME BytesAssumption == MaxBytes \in Nat

VARIABLES
  service,   \* the service exists: between onCreate and the end of onDestroy
  main,      \* what the main thread is about to do
  leaving,   \* it is in onDestroy
  found,     \* the thread jni_stop has found
  vpn,       \* TunnelService.vpn
  thread_id, \* the native variable
  at,        \* where each native thread is
  tun,       \* args->tun of each native thread
  pipe,      \* bytes in the pipe
  sessions,  \* ng_session # NULL
  failed     \* a thread has ended unasked, or was not even created, since the
             \* last start with an empty pipe

vars == <<service, main, leaving, found, vpn, thread_id, at, tun, pipe, sessions,
          failed>>
java == <<service, main, leaving, found, vpn>>

(* "created" and "loop" use the tun device and the sessions; "left" and    *)
(* "freed" are the clean up; in "ending" thread_id is 0 already.           *)
Places == {"none", "created", "loop", "left", "freed", "ending"}
Alive(t) == t # NULL /\ at[t] # "none"     \* pthread_kill(t, 0) == 0
Running == {t \in Threads : at[t] \in {"created", "loop"}}

Init ==
  /\ service = FALSE /\ main = "idle" /\ leaving = FALSE /\ found = NULL /\ vpn = NULL
  /\ thread_id = NULL
  /\ at = [t \in Threads |-> "none"] /\ tun = [t \in Threads |-> NULL]
  /\ pipe = 0 /\ sessions = FALSE /\ failed = FALSE

-----------------------------------------------------------------------------
(* The main thread. *)

(* onCreate: jni_init. *)
Create ==
  /\ ~service /\ service' = TRUE
  /\ pipe' = 0 /\ sessions' = FALSE /\ failed' = FALSE
  /\ UNCHANGED <<main, leaving, found, vpn, thread_id, at, tun>>

(* start, when there is no tunnel yet. *)
Start ==
  /\ service /\ main = "idle" /\ vpn = NULL
  /\ pipe <= MaxBytes
  /\ vpn' \in Descriptors
  /\ main' = "starting"
  /\ failed' = (failed /\ pipe > 0)
  /\ UNCHANGED <<service, leaving, found, thread_id, at, tun, pipe, sessions>>

(* establish() fails and start throws, which ends the whole process.       *)
StartThrows ==
  /\ service /\ main = "idle" /\ vpn = NULL
  /\ service' = FALSE /\ found' = NULL
  /\ thread_id' = NULL
  /\ at' = [t \in Threads |-> "none"] /\ tun' = [t \in Threads |-> NULL]
  /\ pipe' = 0 /\ sessions' = FALSE /\ failed' = FALSE
  /\ UNCHANGED <<main, leaving, vpn>>

(* jni_start; pthread_create may fail, and nobody is told.                 *)
StartNative ==
  /\ main = "starting" /\ main' = "idle"
  /\ \/ /\ ~Alive(thread_id)
        /\ \E t \in Threads :
             /\ at[t] = "none"
             /\ thread_id' = t
             /\ at' = [at EXCEPT ![t] = "created"]
             /\ tun' = [tun EXCEPT ![t] = vpn]
        /\ UNCHANGED failed
     \/ /\ failed' = TRUE
        /\ UNCHANGED <<thread_id, at, tun>>
  /\ UNCHANGED <<service, leaving, found, vpn, pipe, sessions>>

(* stop and onRevoke do nothing without a tunnel; onDestroy goes on with   *)
(* jni_done.                                                               *)
Stop ==
  /\ service /\ main = "idle" /\ vpn # NULL
  /\ main' = "stop"
  /\ UNCHANGED <<service, leaving, found, vpn, thread_id, at, tun, pipe, sessions, failed>>

Destroy ==
  /\ service /\ main = "idle" /\ leaving' = TRUE
  /\ main' = IF vpn # NULL THEN "stop" ELSE "done"
  /\ UNCHANGED <<service, found, vpn, thread_id, at, tun, pipe, sessions, failed>>

(* jni_stop: is there a thread? *)
FindThread ==
  /\ main = "stop"
  /\ found' = thread_id
  /\ main' = IF Alive(thread_id) THEN "write" ELSE "close"
  /\ UNCHANGED <<service, leaving, vpn, thread_id, at, tun, pipe, sessions, failed>>

(* Mutant: the byte is not written. *)
WritePipe_nothing ==
  /\ main = "write" /\ main' = "join"
  /\ UNCHANGED <<service, leaving, found, vpn, thread_id, at, tun, pipe, sessions, failed>>

WritePipe ==
  /\ main = "write" /\ main' = "join"
  /\ pipe' = pipe + 1
  /\ UNCHANGED <<service, leaving, found, vpn, thread_id, at, tun, sessions, failed>>

(* Mutant: the thread is not waited for. *)
JoinThread_at_once ==
  /\ main = "join" /\ main' = "clear"
  /\ UNCHANGED <<service, leaving, found, vpn, thread_id, at, tun, pipe, sessions, failed>>

(* pthread_join. *)
JoinThread ==
  /\ main = "join" /\ main' = "clear"
  /\ at[found] = "none"
  /\ UNCHANGED <<service, leaving, found, vpn, thread_id, at, tun, pipe, sessions, failed>>

(* clear, in jni_stop. *)
Clear ==
  /\ main = "clear" /\ main' = "close"
  /\ sessions' = FALSE
  /\ UNCHANGED <<service, leaving, found, vpn, thread_id, at, tun, pipe, failed>>

(* stopVPN: the tun device is closed. *)
StopVpn ==
  /\ main = "close"
  /\ main' = IF leaving THEN "done" ELSE "idle"
  /\ vpn' = NULL
  /\ UNCHANGED <<service, leaving, found, thread_id, at, tun, pipe, sessions, failed>>

(* Mutant: jni_done leaves the sessions to the next service. *)
Done_keeps_sessions ==
  /\ main = "done" /\ main' = "idle"
  /\ service' = FALSE /\ leaving' = FALSE
  /\ pipe' = 0 /\ failed' = FALSE
  /\ UNCHANGED <<found, vpn, thread_id, at, tun, sessions>>

(* jni_done: clear, and the pipe is closed. *)
Done ==
  /\ main = "done" /\ main' = "idle"
  /\ service' = FALSE /\ leaving' = FALSE
  /\ pipe' = 0 /\ sessions' = FALSE /\ failed' = FALSE
  /\ UNCHANGED <<found, vpn, thread_id, at, tun>>

Main ==
  \/ StartNative \/ FindThread \/ WritePipe \/ JoinThread \/ Clear \/ StopVpn \/ Done

-----------------------------------------------------------------------------
(* A native thread. *)

(* handle_events before its loop: check_allowed does not add or free       *)
(* sessions.  Without epoll or the descriptors in it the loop is not       *)
(* entered; if the thread cannot be attached to Java it returns at once,   *)
(* and thread_id stays.                                                    *)
Enter(t) ==
  /\ at[t] = "created"
  /\ \/ at' = [at EXCEPT ![t] = "loop"] /\ UNCHANGED failed
     \/ \E place \in {"left", "none"} :
          at' = [at EXCEPT ![t] = place] /\ failed' = TRUE
  /\ UNCHANGED <<java, thread_id, tun, pipe, sessions>>

(* Sessions come and go. *)
Work(t) ==
  /\ at[t] = "loop"
  /\ sessions' \in BOOLEAN
  /\ UNCHANGED <<java, thread_id, at, tun, pipe, failed>>

(* Mutant: the byte is not read. *)
ReadPipe_keeps_byte(t) ==
  /\ at[t] = "loop" /\ pipe > 0
  /\ at' = [at EXCEPT ![t] = "left"]
  /\ UNCHANGED <<java, thread_id, tun, pipe, sessions, failed>>

(* The pipe's event ends the loop. *)
ReadPipe(t) ==
  /\ at[t] = "loop" /\ pipe > 0
  /\ pipe' = pipe - 1
  /\ at' = [at EXCEPT ![t] = "left"]
  /\ UNCHANGED <<java, thread_id, tun, sessions, failed>>

(* Mutant: whoever leaves takes a byte out of the pipe. *)
Fail_takes_byte(t) ==
  /\ at[t] = "loop" /\ at' = [at EXCEPT ![t] = "left"]
  /\ failed' = TRUE
  /\ pipe' = pipe - 1
  /\ UNCHANGED <<java, thread_id, tun, sessions>>

(* So does an error of epoll_wait or the tun device. *)
Fail(t) ==
  /\ at[t] = "loop" /\ at' = [at EXCEPT ![t] = "left"]
  /\ failed' = TRUE
  /\ UNCHANGED <<java, thread_id, tun, pipe, sessions>>

(* The global reference and the arguments are freed. *)
Free(t) ==
  /\ at[t] = "left" /\ at' = [at EXCEPT ![t] = "freed"]
  /\ tun' = [tun EXCEPT ![t] = NULL]
  /\ UNCHANGED <<java, thread_id, pipe, sessions, failed>>

ForgetThread(t) ==
  /\ at[t] = "freed" /\ at' = [at EXCEPT ![t] = "ending"]
  /\ thread_id' = NULL
  /\ UNCHANGED <<java, tun, pipe, sessions, failed>>

Exit(t) ==
  /\ at[t] = "ending" /\ at' = [at EXCEPT ![t] = "none"]
  /\ UNCHANGED <<java, thread_id, tun, pipe, sessions, failed>>

Ends(t) == Enter(t) \/ ReadPipe(t) \/ Free(t) \/ ForgetThread(t) \/ Exit(t)

Next ==
  \/ Create \/ Start \/ StartThrows \/ Stop \/ Destroy \/ Main
  \/ \E t \in Threads : Ends(t) \/ Work(t) \/ Fail(t)

(* Both threads run; epoll reports the pipe as long as a byte is in it.    *)
Fairness ==
  /\ WF_vars(Main)
  /\ \A t \in Threads : WF_vars(Ends(t))

Spec == Init /\ [][Next]_vars /\ Fairness

-----------------------------------------------------------------------------
(* Every variable has its type. *)
TypeOK ==
  /\ service \in BOOLEAN /\ leaving \in BOOLEAN
  /\ main \in {"idle", "starting", "stop", "write", "join", "clear", "close", "done"}
  /\ vpn \in Descriptors \cup {NULL} /\ found \in Threads \cup {NULL}
  /\ thread_id \in Threads \cup {NULL}
  /\ at \in [Threads -> Places] /\ tun \in [Threads -> Descriptors \cup {NULL}]
  /\ pipe \in Nat /\ sessions \in BOOLEAN /\ failed \in BOOLEAN

(* A thread that uses the tun device is the one jni_stop will find, so     *)
(* there is one at most, and its descriptor has not been closed.           *)
RunningThread ==
  \A t \in Running : t = thread_id /\ vpn # NULL /\ tun[t] = vpn

(* clear frees the sessions, in jni_stop and jni_done, only when no thread *)
(* uses them: handle_events holds the lock, clear does not.                *)
ClearIsAlone == main \in {"clear", "done"} => Running = {}

(* While running() says so and no call is under way there is a thread: the *)
(* byte that stops one never reaches its successor.  A thread that fails   *)
(* is not noticed, and a byte it did not read stops the next one.          *)
TunnelIsServed ==
  main = "idle" /\ vpn # NULL /\ ~failed => Running # {}

(* A service that is gone leaves no thread that runs and no sessions.      *)
NothingLeft == ~service => Running = {} /\ ~sessions /\ vpn = NULL

(* What makes them inductive: a thread that is yet to clear thread_id is   *)
(* the thread it holds, and whatever runs is what jni_stop has found.      *)
OwnsThreadId ==
  \A t \in Threads : at[t] \in {"created", "loop", "left", "freed"} => t = thread_id
FoundRunning ==
  /\ main \in {"write", "join"} => Running \subseteq {found} /\ found # NULL
  /\ main \in {"starting", "clear", "close", "done"} => Running = {}
Tunnel ==
  /\ main \in {"starting", "stop", "write", "join", "clear", "close"} => vpn # NULL
  /\ main = "done" => vpn = NULL
ServiceGone == ~service => main = "idle" /\ vpn = NULL /\ ~sessions

(* While no thread has failed, a byte is in the pipe only between the write *)
(* and the moment the thread it is for has read it.                        *)
Served ==
  ~failed =>
    /\ main \in {"idle", "stop", "write"} /\ vpn # NULL => Running # {}
    /\ main = "join" => pipe = (IF Running = {} THEN 0 ELSE 1)
    /\ main # "join" => pipe = 0

IInv ==
  /\ TypeOK /\ RunningThread /\ OwnsThreadId /\ FoundRunning
  /\ Tunnel /\ ServiceGone /\ Served

(* Stopping the tunnel ends: the main thread is not stuck in pthread_join. *)
StopReturns == main = "stop" ~> main = "idle"

(* The rest of the application may take the tunnel for a TunnelLife: above *)
(* all, the device is closed only when no thread uses it.                  *)
Life == INSTANCE TunnelLife WITH open <- vpn # NULL, serving <- Running # {}
ImplementsLife == Life!Spec

=============================================================================
