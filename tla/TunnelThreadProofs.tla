------------------------- MODULE TunnelThreadProofs -------------------------
(***************************************************************************)
(* Proofs about TunnelThread, for any number of threads and descriptors.   *)
(* IInv is inductive; the safety invariants follow from it.                *)
(***************************************************************************)
EXTENDS TunnelThread, TLAPS

LEMMA InductiveInit == Init => IInv
<1> SUFFICES ASSUME Init PROVE IInv
  OBVIOUS
<1>1. TypeOK
  BY NullAssumption DEF Init, TypeOK, Places
<1>2. Running = {}
  BY DEF Init, Running
<1>3. RunningThread /\ FoundRunning
  BY <1>2 DEF Init, RunningThread, FoundRunning
<1>4. OwnsThreadId
  BY DEF Init, OwnsThreadId
<1>5. Tunnel /\ ServiceGone /\ Served
  BY <1>2 DEF Init, Tunnel, ServiceGone, Served
<1> QED BY <1>1, <1>3, <1>4, <1>5 DEF IInv

(* The calls of the main thread. *)
LEMMA InductiveMain ==
  ASSUME IInv, Create \/ Start \/ StartThrows \/ Stop \/ Destroy \/ Main
  PROVE  IInv'
<1> USE NullAssumption
    DEF IInv, TypeOK, Places, RunningThread, Running, OwnsThreadId, FoundRunning,
        Tunnel, ServiceGone, Served
<1>1. CASE Create
  BY <1>1 DEF Create
<1>2. CASE Start
  BY <1>2 DEF Start
<1>3. CASE StartThrows
  BY <1>3 DEF StartThrows
<1>4. CASE StartNative
  <2>1. CASE UNCHANGED <<thread_id, at, tun>>
    BY <1>4, <2>1 DEF StartNative
  <2>2. ASSUME NEW t \in Threads, ~Alive(thread_id), at[t] = "none", thread_id' = t,
               at' = [at EXCEPT ![t] = "created"], tun' = [tun EXCEPT ![t] = vpn],
               UNCHANGED failed
        PROVE  IInv'
    <3>1. \A u \in Threads : at[u] \in {"none", "ending"}
      BY <2>2 DEF Alive
    <3>2. Running' = {t}
      BY <2>2, <3>1
    <3> QED BY <1>4, <2>2, <3>1, <3>2 DEF StartNative
  <2> QED BY <1>4, <2>1, <2>2 DEF StartNative
<1>5. CASE Stop
  BY <1>5 DEF Stop
<1>6. CASE Destroy
  BY <1>6 DEF Destroy
<1>7. CASE FindThread
  BY <1>7 DEF FindThread, Alive
<1>8. CASE WritePipe
  BY <1>8 DEF WritePipe
<1>9. CASE JoinThread
  BY <1>9 DEF JoinThread
<1>10. CASE Clear
  BY <1>10 DEF Clear
<1>11. CASE StopVpn
  BY <1>11 DEF StopVpn
<1>12. CASE Done
  BY <1>12 DEF Done
<1> QED BY <1>1, <1>2, <1>3, <1>4, <1>5, <1>6, <1>7, <1>8, <1>9, <1>10, <1>11, <1>12
        DEF Main

(* The steps of a native thread: it never starts to run, and only the      *)
(* thread that thread_id holds clears it.                                  *)
LEMMA InductiveThread ==
  ASSUME IInv, NEW t \in Threads, Ends(t) \/ Work(t) \/ Fail(t)
  PROVE  IInv'
<1> USE NullAssumption
    DEF IInv, TypeOK, Places, RunningThread, Running, OwnsThreadId, FoundRunning,
        Tunnel, ServiceGone, Served, java
<1>1. CASE Enter(t)
  BY <1>1 DEF Enter
<1>2. CASE ReadPipe(t)
  BY <1>2 DEF ReadPipe
<1>3. CASE Free(t)
  BY <1>3 DEF Free
<1>4. CASE ForgetThread(t)
  BY <1>4 DEF ForgetThread
<1>5. CASE Exit(t)
  BY <1>5 DEF Exit
<1>6. CASE Work(t)
  BY <1>6 DEF Work
<1>7. CASE Fail(t)
  BY <1>7 DEF Fail
<1> QED BY <1>1, <1>2, <1>3, <1>4, <1>5, <1>6, <1>7 DEF Ends

LEMMA InductiveNext == IInv /\ [Next]_vars => IInv'
<1> SUFFICES ASSUME IInv, [Next]_vars PROVE IInv'
  OBVIOUS
<1>1. CASE UNCHANGED vars
  BY <1>1 DEF vars, IInv, TypeOK, Places, RunningThread, Running, OwnsThreadId,
              FoundRunning, Tunnel, ServiceGone, Served
<1> QED BY <1>1, InductiveMain, InductiveThread DEF Next

LEMMA Inductive == Spec => []IInv
BY InductiveInit, InductiveNext, PTL DEF Spec

(* Every variable has its type. *)
THEOREM TypeCorrect == Spec => []TypeOK
<1>1. IInv => TypeOK
  BY DEF IInv
<1> QED BY <1>1, Inductive, PTL

(* At most one native thread uses the tun device: the one in thread_id,    *)
(* with the descriptor the service holds open.                             *)
THEOREM RunningCorrect == Spec => []RunningThread
<1>1. IInv => RunningThread
  BY DEF IInv
<1> QED BY <1>1, Inductive, PTL

(* clear never frees sessions under a thread that uses them. *)
THEOREM ClearCorrect == Spec => []ClearIsAlone
<1>1. IInv => ClearIsAlone
  BY DEF IInv, FoundRunning, ClearIsAlone
<1> QED BY <1>1, Inductive, PTL

(* A service that is gone has left nothing behind. *)
THEOREM NothingLeftCorrect == Spec => []NothingLeft
<1>1. IInv => NothingLeft
  BY DEF IInv, ServiceGone, RunningThread, Running, NothingLeft
<1> QED BY <1>1, Inductive, PTL

(* A tunnel that claims to run is served: no byte meant for one thread     *)
(* stops another, unless a thread failed.                                  *)
THEOREM ServedCorrect == Spec => []TunnelIsServed
<1>1. IInv => TunnelIsServed
  BY DEF IInv, Served, TunnelIsServed
<1> QED BY <1>1, Inductive, PTL

-----------------------------------------------------------------------------
(* TunnelThread implements TunnelLife. *)

LEMMA LifeInit == Init => Life!Init
BY DEF Init, Life!Init, Running

(* The main thread: each of its steps is one of TunnelLife or a stutter. *)
LEMMA LifeMain ==
  ASSUME IInv, Create \/ Start \/ StartThrows \/ Stop \/ Destroy \/ Main
  PROVE  [Life!Next]_(Life!vars)
<1> USE NullAssumption DEF IInv, TypeOK, Life!vars, Life!Next
<1>1. CASE Create
  BY <1>1 DEF Create, Running, RunningThread, ServiceGone, Life!Create
<1>2. CASE Start
  BY <1>2 DEF Start, Running, Life!Open
<1>3. CASE StartThrows
  <2>1. Running = {} /\ Running' = {}
    BY <1>3 DEF StartThrows, Running, RunningThread
  <2> QED BY <1>3, <2>1 DEF StartThrows, Life!Destroy
<1>4. CASE StartNative
  <2>1. Running = {} /\ vpn # NULL
    BY <1>4 DEF StartNative, FoundRunning, Tunnel
  <2>2. CASE UNCHANGED <<thread_id, at, tun>>
    BY <1>4, <2>2 DEF StartNative, Running
  <2>3. ASSUME NEW t \in Threads, at' = [at EXCEPT ![t] = "created"]
        PROVE  Running' # {}
    BY <2>3 DEF Running
  <2> QED BY <1>4, <2>1, <2>2, <2>3 DEF StartNative, Life!Serve
<1>5. CASE Stop \/ Destroy \/ FindThread \/ WritePipe \/ JoinThread \/ Clear
  BY <1>5 DEF Stop, Destroy, FindThread, WritePipe, JoinThread, Clear, Running
<1>6. CASE StopVpn
  <2>1. Running = {} /\ Running' = {} /\ vpn # NULL
    BY <1>6 DEF StopVpn, FoundRunning, Tunnel, Running
  <2> QED BY <1>6, <2>1 DEF StopVpn, Life!Close
<1>7. CASE Done
  <2>1. Running = {} /\ Running' = {} /\ vpn = NULL /\ service
    BY <1>7 DEF Done, FoundRunning, Tunnel, ServiceGone, Running
  <2> QED BY <1>7, <2>1 DEF Done, Life!Destroy
<1> QED BY <1>1, <1>2, <1>3, <1>4, <1>5, <1>6, <1>7 DEF Main

(* A native thread: when it ends the device is served no more, as it was   *)
(* the only one.                                                           *)
LEMMA LifeThread ==
  ASSUME IInv, NEW t \in Threads, Ends(t) \/ Work(t) \/ Fail(t)
  PROVE  [Life!Next]_(Life!vars)
<1> USE DEF IInv, TypeOK, java, Life!vars
<1>1. UNCHANGED <<service, vpn>>
  BY DEF Ends, Enter, ReadPipe, Free, ForgetThread, Exit, Work, Fail
<1>2. \/ UNCHANGED Running
      \/ /\ at[t] \in {"created", "loop"}
         /\ \E place \in {"left", "none"} : at' = [at EXCEPT ![t] = place]
  BY DEF Ends, Enter, ReadPipe, Free, ForgetThread, Exit, Work, Fail, Running, Places
<1>3. ASSUME at[t] \in {"created", "loop"}, NEW place \in {"left", "none"},
             at' = [at EXCEPT ![t] = place]
      PROVE  Life!Leave
  <2>1. Running = {t}
    BY <1>3 DEF RunningThread, Running
  <2>2. Running' = {}
    BY <1>3, <2>1 DEF Running
  <2> QED BY <1>1, <2>1, <2>2 DEF Life!Leave
<1> QED BY <1>1, <1>2, <1>3 DEF Life!Next

LEMMA LifeNext == IInv /\ [Next]_vars => [Life!Next]_(Life!vars)
<1> SUFFICES ASSUME IInv, [Next]_vars PROVE [Life!Next]_(Life!vars)
  OBVIOUS
<1>1. CASE UNCHANGED vars
  BY <1>1 DEF vars, Life!vars, Running
<1> QED BY <1>1, LifeMain, LifeThread DEF Next

(* For any number of threads and descriptors, what the application sees of *)
(* the tunnel is a TunnelLife: the device is never closed under a thread.  *)
THEOREM LifeImplemented == Spec => ImplementsLife
BY LifeInit, LifeNext, Inductive, PTL DEF Spec, ImplementsLife, Life!Spec

=============================================================================
