----------------------------- MODULE AppProofs ------------------------------
(***************************************************************************)
(* Proofs about App, however clicks, intents and exits follow each other:  *)
(* ShellService holds the one process nobody has asked to end, the switch  *)
(* stops nothing by itself, and it shows what runs.                        *)
(***************************************************************************)
EXTENDS App, SetInduction, SequenceTheorems, FiniteSetTheorems, TLAPS

ShellInv ==
  /\ shellProcess \in Procs \cup {NULL}
  /\ proc \in [Procs -> {"none", "live", "asked"}]
  /\ ProcessHeld

LEMMA StartShellKeeps == ASSUME ShellInv, StartShell PROVE ShellInv'
<1>1. CASE UNCHANGED shell
  BY <1>1 DEF shell, ShellInv, ProcessHeld
<1>2. ASSUME shellProcess = NULL, NEW p \in Procs, proc' = [proc EXCEPT ![p] = "live"],
             shellProcess' = p
      PROVE  ShellInv'
  BY <1>2, NullIsNoProc DEF ShellInv, ProcessHeld
<1> QED BY <1>1, <1>2 DEF StartShell

LEMMA EndShellKeeps == ASSUME ShellInv, EndShell PROVE ShellInv'
<1>1. CASE shellProcess = NULL
  BY <1>1 DEF EndShell, shell, ShellInv, ProcessHeld
<1>2. CASE shellProcess \in Procs
  BY <1>2, NullIsNoProc DEF EndShell, ShellInv, ProcessHeld
<1> QED BY <1>1, <1>2 DEF ShellInv

LEMMA ProcessExitsKeeps ==
  ASSUME ShellInv, NEW p \in Procs, ProcessExits(p) PROVE ShellInv'
BY DEF ProcessExits, ShellInv, ProcessHeld

LEMMA DieKeeps == Die => ShellInv'
BY DEF Die, ShellInv, ProcessHeld

(* Every other step leaves ShellService alone. *)
LEMMA OthersKeepShell ==
  ASSUME Next
  PROVE  \/ UNCHANGED shell \/ StartShell \/ EndShell \/ Die
         \/ \E p \in Procs : ProcessExits(p)
<1>1. CASE Launch \/ Resume \/ CreateMenu \/ Click \/ Pause \/ Prefer \/ Leave
  BY <1>1 DEF Launch, Resume, CreateMenu, Click, Pause, Prefer, Leave
<1>2. CASE Revoke \/ ThreadEnds \/ \E ok \in BOOLEAN : Answer(ok)
  BY <1>2 DEF Revoke, ThreadEnds, Answer
<1>3. CASE Main
  BY <1>3 DEF Main, CreateService, StartTunnel, ServeTunnel, StopTunnel, Revoked,
              DestroyTunnel, StopShell, DestroyShell, Bind, Connected
<1> QED BY <1>1, <1>2, <1>3 DEF Next

(* No process of ShellService runs without a way to stop it: one that was  *)
(* not asked to end is shellProcess, so the next stop destroys it.         *)
THEOREM ProcessCorrect == Spec => []ProcessHeld
<1>1. Init => ShellInv
  BY NullIsNoProc DEF Init, ShellInv, ProcessHeld
<1>2. ShellInv /\ [Next]_vars => ShellInv'
  <2> SUFFICES ASSUME ShellInv, [Next]_vars PROVE ShellInv'
    OBVIOUS
  <2>1. CASE UNCHANGED vars \/ UNCHANGED shell
    BY <2>1 DEF vars, shell, ShellInv, ProcessHeld
  <2>2. CASE Next
    BY <2>1, <2>2, OthersKeepShell, StartShellKeeps, EndShellKeeps, ProcessExitsKeeps, DieKeeps
  <2> QED BY <2>1, <2>2
<1>3. ShellInv => ProcessHeld
  BY DEF ShellInv
<1> QED BY <1>1, <1>2, <1>3, PTL DEF Spec


-----------------------------------------------------------------------------
(* Queues. *)

(* Without selects the messages of other kinds, in their order: w is what  *)
(* it keeps of the first k messages of q, h says where they are.           *)
Picks(w, h, kinds, q, k) ==
  /\ h \in [1 .. Len(w) -> 1 .. k]
  /\ \A i \in 1 .. Len(w) : w[i] = q[h[i]] /\ w[i].what \notin kinds
  /\ \A i, j \in 1 .. Len(w) : i < j => h[i] < h[j]
  /\ \A m \in 1 .. k : q[m].what \notin kinds => \E i \in 1 .. Len(w) : h[i] = m

LEMMA WithoutSelects ==
  ASSUME NEW kinds, NEW q \in Seq(Message)
  PROVE  LET w == Without(kinds, q)
         IN  w \in Seq(Message) /\ \E h : Picks(w, h, kinds, q, Len(q))
<1> DEFINE Body(f, n) ==
             IF n = 0 THEN << >>
             ELSE IF q[n].what \in kinds THEN f[n - 1] ELSE Append(f[n - 1], q[n])
           Defined == {k \in Nat : \E f : f = [n \in 0 .. k |-> Body(f, n)]}
<1>1. Nat \subseteq Defined
  <2>1. 0 \in Defined
    <3> DEFINE f == [n \in 0 .. 0 |-> << >>]
    <3>1. f = [n \in 0 .. 0 |-> Body(f, n)]
      OBVIOUS
    <3> QED BY <3>1
  <2>2. ASSUME NEW k \in Nat, k \in Defined PROVE k + 1 \in Defined
    <3>1. PICK f : f = [n \in 0 .. k |-> Body(f, n)]
      BY <2>2
    <3> DEFINE g == [n \in 0 .. k + 1 |-> IF n <= k THEN f[n] ELSE Body(f, n)]
    <3>2. ASSUME NEW n \in 0 .. k + 1 PROVE g[n] = Body(g, n)
      <4>1. \A m \in 0 .. k : g[m] = f[m] /\ f[m] = Body(f, m)
        <5> HIDE DEF Body
        <5>1. \A m \in 0 .. k : m \in 0 .. k + 1 /\ m <= k
          OBVIOUS
        <5> QED BY <3>1, <5>1
      <4>2. n # 0 => n - 1 \in 0 .. k
        OBVIOUS
      <4>3. g[n] = Body(f, n)
        <5> HIDE DEF Body
        <5>1. g[n] = IF n <= k THEN f[n] ELSE Body(f, n)
          OBVIOUS
        <5>2. n <= k => n \in 0 .. k
          OBVIOUS
        <5> HIDE DEF g
        <5> QED BY <4>1, <5>1, <5>2
      <4>4. n # 0 => g[n - 1] = f[n - 1]
        BY <4>1, <4>2
      <4> HIDE DEF g
      <4> QED BY <4>3, <4>4
    <3>3. g = [n \in 0 .. k + 1 |-> Body(g, n)]
      <4>1. g = [n \in 0 .. k + 1 |-> g[n]]
        OBVIOUS
      <4> HIDE DEF g, Body
      <4> QED BY <3>2, <4>1
    <3> HIDE DEF g, Body
    <3> QED BY <3>3
  <2> HIDE DEF Defined
  <2> QED BY <2>1, <2>2, NatInSet
<1> DEFINE rest == CHOOSE f : f = [n \in 0 .. Len(q) |-> Body(f, n)]
<1>2. Len(q) \in Nat /\ \A n \in 1 .. Len(q) : q[n] \in Message
  OBVIOUS
<1>3. rest = [n \in 0 .. Len(q) |-> Body(rest, n)]
  <2> HIDE DEF Body
  <2> QED BY <1>1, <1>2
<1>4. Without(kinds, q) = rest[Len(q)]
  BY DEF Without
<1> HIDE DEF rest, Defined
<1>5. \A n \in 0 .. Len(q) : rest[n] = Body(rest, n)
  <2> HIDE DEF Body
  <2> QED BY <1>3
<1> DEFINE Good(w, k) == w \in Seq(Message) /\ \E h : Picks(w, h, kinds, q, k)
           Selected == {k \in Nat : k <= Len(q) => Good(rest[k], k)}
<1>6. Nat \subseteq Selected
  <2>1. 0 \in Selected
    <3>1. rest[0] = << >>
      BY <1>2, <1>5
    <3> DEFINE e == << >>
               h == [i \in 1 .. 0 |-> 0]
    <3>2. Len(e) = 0 /\ e \in Seq(Message)
      BY EmptySeq
    <3>3. h \in [1 .. 0 -> 1 .. 0] /\ \A m \in 1 .. 0 : FALSE
      OBVIOUS
    <3> HIDE DEF e, h
    <3>4. Picks(e, h, kinds, q, 0)
      BY <3>2, <3>3 DEF Picks
    <3>5. Good(e, 0)
      BY <3>2, <3>4
    <3> HIDE DEF Good
    <3> QED BY <3>1, <3>5 DEF e
  <2>2. ASSUME NEW k \in Nat, k \in Selected PROVE k + 1 \in Selected
    <3> HIDE DEF Good
    <3> SUFFICES ASSUME k + 1 <= Len(q) PROVE Good(rest[k + 1], k + 1)
      OBVIOUS
    <3> DEFINE w == rest[k]
    <3>1. Good(w, k)
      BY <1>2, <2>2
    <3>2. rest[k + 1] = IF q[k + 1].what \in kinds THEN w ELSE Append(w, q[k + 1])
      <4>1. k + 1 \in 0 .. Len(q) /\ k + 1 # 0 /\ (k + 1) - 1 = k
        BY <1>2
      <4> QED BY <1>5, <4>1
    <3>3. q[k + 1] \in Message
      BY <1>2
    <3> HIDE DEF w
    <3>4. w \in Seq(Message)
      BY <3>1 DEF Good
    <3>5. PICK h : Picks(w, h, kinds, q, k)
      BY <3>1 DEF Good
    <3>6. /\ h \in [1 .. Len(w) -> 1 .. k]
          /\ \A i \in 1 .. Len(w) : w[i] = q[h[i]] /\ w[i].what \notin kinds
          /\ \A i, j \in 1 .. Len(w) : i < j => h[i] < h[j]
          /\ \A m \in 1 .. k : q[m].what \notin kinds => \E i \in 1 .. Len(w) : h[i] = m
      BY <3>5 DEF Picks
    <3>7. \A m \in 1 .. k + 1 : m \in 1 .. k \/ m = k + 1
      OBVIOUS
    <3>8. CASE q[k + 1].what \in kinds
      <4>1. h \in [1 .. Len(w) -> 1 .. k + 1]
        BY <3>6
      <4>2. \A m \in 1 .. k + 1 : q[m].what \notin kinds => \E i \in 1 .. Len(w) : h[i] = m
        BY <3>6, <3>7, <3>8
      <4>3. Picks(w, h, kinds, q, k + 1)
        BY <3>6, <4>1, <4>2 DEF Picks
      <4>4. Good(w, k + 1)
        BY <3>4, <4>3 DEF Good
      <4> QED BY <3>2, <3>8, <4>4
    <3>9. CASE q[k + 1].what \notin kinds
      <4> DEFINE v == Append(w, q[k + 1])
                 g == [i \in 1 .. Len(w) + 1 |-> IF i <= Len(w) THEN h[i] ELSE k + 1]
      <4>1. /\ Len(w) \in Nat /\ v \in Seq(Message) /\ Len(v) = Len(w) + 1
            /\ \A i \in 1 .. Len(w) : v[i] = w[i]
            /\ v[Len(w) + 1] = q[k + 1]
        BY <3>3, <3>4, AppendProperties
      <4>2. rest[k + 1] = v
        BY <3>2, <3>9
      <4> HIDE DEF v
      <4>3. g \in [1 .. Len(v) -> 1 .. k + 1]
        BY <3>6, <4>1
      <4>4. /\ \A i \in 1 .. Len(w) : g[i] = h[i] /\ h[i] \in 1 .. k
            /\ g[Len(w) + 1] = k + 1
        <5>1. \A i \in 1 .. Len(w) : i \in 1 .. Len(w) + 1 /\ i <= Len(w)
          BY <4>1
        <5>2. Len(w) + 1 \in 1 .. Len(w) + 1 /\ ~(Len(w) + 1 <= Len(w))
          BY <4>1
        <5> QED BY <3>6, <5>1, <5>2
      <4> HIDE DEF g
      <4>5. \A i \in 1 .. Len(v) : i \in 1 .. Len(w) \/ i = Len(w) + 1
        BY <4>1
      <4>6. \A i \in 1 .. Len(v) : v[i] = q[g[i]] /\ v[i].what \notin kinds
        BY <3>6, <3>9, <4>1, <4>4, <4>5
      <4>7. \A i, j \in 1 .. Len(v) : i < j => g[i] < g[j]
        <5> SUFFICES ASSUME NEW i \in 1 .. Len(v), NEW j \in 1 .. Len(v), i < j
                     PROVE  g[i] < g[j]
          OBVIOUS
        <5>1. i \in 1 .. Len(w)
          BY <4>1
        <5> QED BY <3>6, <4>1, <4>4, <4>5, <5>1
      <4>8. ASSUME NEW m \in 1 .. k + 1, q[m].what \notin kinds
            PROVE  \E i \in 1 .. Len(v) : g[i] = m
        <5>1. CASE m = k + 1
          BY <4>1, <4>4, <5>1
        <5>2. CASE m \in 1 .. k
          <6>1. PICK i \in 1 .. Len(w) : h[i] = m
            BY <3>6, <4>8, <5>2
          <6>2. i \in 1 .. Len(v) /\ g[i] = m
            BY <4>1, <4>4, <6>1
          <6> QED BY <6>2
        <5> QED BY <3>7, <5>1, <5>2
      <4>9. Picks(v, g, kinds, q, k + 1)
        BY <4>3, <4>6, <4>7, <4>8 DEF Picks
      <4>10. Good(v, k + 1)
        BY <4>1, <4>9 DEF Good
      <4> QED BY <4>2, <4>10
    <3> QED BY <3>8, <3>9
  <2> HIDE DEF Selected
  <2> QED BY <2>1, <2>2, NatInSet
<1> HIDE DEF Good
<1>7. Good(rest[Len(q)], Len(q))
  <2>1. Len(q) \in Selected /\ Len(q) <= Len(q)
    <3> HIDE DEF Selected
    <3> QED BY <1>2, <1>6
  <2> QED BY <2>1
<1> QED BY <1>4, <1>7 DEF Good


LEMMA MessagesAre ==
  ASSUME NEW what \in Kinds, NEW S
  PROVE  LET new == Messages(what, S)
         IN  /\ new \in Seq(Message)
             /\ \A i \in 1 .. Len(new) : new[i].what = what /\ new[i].to \in S
             /\ \A s \in S \cap Services : \E i \in 1 .. Len(new) : new[i].to = s
<1> DEFINE To(s) == IF s \in S THEN <<[what |-> what, to |-> s]>> ELSE << >>
<1>1. \A s \in Services : [what |-> what, to |-> s] \in Message
  BY DEF Message
<1>2. "vpn" \in Services /\ "shell" \in Services /\ \A s \in Services : s \in {"vpn", "shell"}
  BY DEF Services
<1>3. ASSUME NEW s \in Services
      PROVE  /\ To(s) \in Seq(Message)
             /\ Len(To(s)) = IF s \in S THEN 1 ELSE 0
             /\ \A i \in 1 .. Len(To(s)) : To(s)[i].what = what /\ To(s)[i].to = s /\ s \in S
  BY <1>1
<1>4. Messages(what, S) = To("vpn") \o To("shell")
  BY DEF Messages
<1> DEFINE a == To("vpn")
           b == To("shell")
<1>5. /\ a \in Seq(Message) /\ b \in Seq(Message)
      /\ Len(a) = IF "vpn" \in S THEN 1 ELSE 0
      /\ Len(b) = IF "shell" \in S THEN 1 ELSE 0
      /\ \A i \in 1 .. Len(a) : a[i].what = what /\ a[i].to = "vpn" /\ "vpn" \in S
      /\ \A i \in 1 .. Len(b) : b[i].what = what /\ b[i].to = "shell" /\ "shell" \in S
  BY <1>2, <1>3
<1> HIDE DEF a, b, To
<1> DEFINE new == a \o b
<1>6. /\ new \in Seq(Message) /\ Len(new) = Len(a) + Len(b)
      /\ \A i \in 1 .. Len(a) : new[i] = a[i]
      /\ \A i \in 1 .. Len(b) : new[Len(a) + i] = b[i]
      /\ \A i \in 1 .. Len(new) : i \in 1 .. Len(a) \/ i - Len(a) \in 1 .. Len(b)
  BY <1>5, ConcatProperties
<1>7. Messages(what, S) = new
  BY <1>4 DEF a, b
<1> HIDE DEF new
<1>8. ASSUME NEW i \in 1 .. Len(new) PROVE new[i].what = what /\ new[i].to \in S
  <2>1. CASE i \in 1 .. Len(a)
    BY <1>5, <1>6, <2>1
  <2>2. CASE i - Len(a) \in 1 .. Len(b)
    <3>1. i = Len(a) + (i - Len(a))
      BY <1>5, <1>6
    <3>2. new[i] = b[i - Len(a)]
      BY <1>6, <2>2, <3>1
    <3> QED BY <1>5, <2>2, <3>2
  <2> QED BY <1>6, <2>1, <2>2
<1>9. ASSUME NEW s \in S \cap Services PROVE \E i \in 1 .. Len(new) : new[i].to = s
  <2>1. CASE s = "vpn"
    BY <1>5, <1>6, <2>1
  <2>2. CASE s = "shell"
    <3>1. 1 \in 1 .. Len(b) /\ Len(a) + 1 \in 1 .. Len(new)
      BY <1>5, <1>6, <2>2
    <3> QED BY <1>5, <1>6, <2>2, <3>1
  <2> QED BY <1>2, <2>1, <2>2
<1> QED BY <1>6, <1>7, <1>8, <1>9


-----------------------------------------------------------------------------
(* Types. *)

LEMMA ServicesAre == Services = {"vpn", "shell"}
  BY DEF Services

(* The message at the head of the queue, and the rest. *)
LEMMA HeadAndRest ==
  ASSUME queue \in Seq(Message), NEW what, NEW to, Gets(what, to)
  PROVE  /\ what \in Kinds /\ to \in Services
         /\ Tail(queue) \in Seq(Message)
         /\ [what |-> what, to |-> to] \in Message
<1>1. queue # << >> /\ Head(queue) = [what |-> what, to |-> to]
  BY DEF Gets
<1>2. Head(queue) \in Message /\ Tail(queue) \in Seq(Message)
  BY <1>1, HeadTailProperties
<1>3. [what |-> what, to |-> to].what = what /\ [what |-> what, to |-> to].to = to
  OBVIOUS
<1> QED BY <1>1, <1>2, <1>3 DEF Message

LEMMA AppendedMessages ==
  ASSUME NEW q \in Seq(Message), NEW what \in Kinds, NEW S
  PROVE  q \o Messages(what, S) \in Seq(Message)
  BY MessagesAre, ConcatProperties

LEMMA SetCheckedTypes ==
  ASSUME TypeOK, NEW r, NEW on \in BOOLEAN, NEW rest \in Seq(Message),
         SetChecked(r, on, rest)
  PROVE  /\ queue' \in Seq(Message) /\ shown' \in BOOLEAN /\ asking' \in BOOLEAN
         /\ started' \in [Services -> BOOLEAN]
<1> DEFINE starts == IF on THEN prefs \ Seen(r) ELSE {}
           stops  == IF on THEN {} ELSE Seen(r)
           denied == IF consent THEN {} ELSE starts \cap {"vpn"}
<1>1. CASE on = shown
  BY <1>1 DEF SetChecked, TypeOK
<1>2. CASE on # shown
  <2>1. /\ shown' = (on /\ prefs # {})
        /\ asking' = (asking \/ denied # {})
        /\ queue' = rest \o Messages("start", starts \ denied) \o Messages("stop", stops)
        /\ started' = [s \in Services |-> started[s] \/ s \in (starts \ denied) \cup stops]
    BY <1>2 DEF SetChecked
  <2> HIDE DEF starts, stops, denied
  <2>2. "start" \in Kinds /\ "stop" \in Kinds
    BY DEF Kinds
  <2>3. queue' \in Seq(Message)
    BY <2>1, <2>2, AppendedMessages
  <2> QED BY <2>1, <2>3 DEF TypeOK
<1> QED BY <1>1, <1>2

LEMMA SyncToggleTypes ==
  ASSUME TypeOK, NEW r, NEW rest \in Seq(Message), syncToggle(r, rest)
  PROVE  /\ queue' \in Seq(Message) /\ shown' \in BOOLEAN /\ asking' \in BOOLEAN
         /\ started' \in [Services -> BOOLEAN]
<1>1. (Seen(r) # {}) \in BOOLEAN
  OBVIOUS
<1>2. CASE menu
  BY <1>1, <1>2, SetCheckedTypes DEF syncToggle
<1>3. CASE ~menu
  BY <1>3 DEF syncToggle, TypeOK
<1> QED BY <1>2, <1>3

LEMMA ActivityTypes ==
  ASSUME TypeOK,
         \/ Launch \/ Resume \/ CreateMenu \/ Click \/ Pause \/ Prefer \/ Leave
         \/ \E ok \in BOOLEAN : Answer(ok)
  PROVE  TypeOK'
<1> USE DEF tunnel, shell, screen
<1>1. CASE Launch
  BY <1>1 DEF Launch, TypeOK
<1>2. CASE Resume
  <2> DEFINE known == {s \in Services : started[s]}
             rest == queue \o Messages("connected", known) \o Messages("bind", Services \ known)
  <2>1. "connected" \in Kinds /\ "bind" \in Kinds /\ queue \in Seq(Message)
    BY DEF Kinds, TypeOK
  <2>2. rest \in Seq(Message)
    <3> HIDE DEF known
    <3> QED BY <2>1, AppendedMessages
  <2>3. syncToggle(ref, rest)
    BY <1>2 DEF Resume
  <2> HIDE DEF rest
  <2>4. /\ queue' \in Seq(Message) /\ shown' \in BOOLEAN /\ asking' \in BOOLEAN
        /\ started' \in [Services -> BOOLEAN]
    BY <2>2, <2>3, SyncToggleTypes
  <2>5. disturbed' \in BOOLEAN /\ activity' = "resumed"
    BY <1>2 DEF Resume
  <2> QED BY <1>2, <2>4, <2>5 DEF Resume, TypeOK
<1>3. CASE CreateMenu
  <2>1. /\ queue' \in Seq(Message) /\ shown' \in BOOLEAN /\ asking' \in BOOLEAN
        /\ started' \in [Services -> BOOLEAN]
    <3>1. (Seen(ref) # {}) \in BOOLEAN /\ queue \in Seq(Message)
      BY DEF TypeOK
    <3> QED BY <1>3, <3>1, SetCheckedTypes DEF CreateMenu
  <2> QED BY <1>3, <2>1 DEF CreateMenu, TypeOK
<1>4. CASE Click
  <2>1. /\ queue' \in Seq(Message) /\ shown' \in BOOLEAN /\ asking' \in BOOLEAN
        /\ started' \in [Services -> BOOLEAN]
    <3>1. (~shown) \in BOOLEAN /\ queue \in Seq(Message)
      BY DEF TypeOK
    <3> QED BY <1>4, <3>1, SetCheckedTypes DEF Click
  <2>2. disturbed' \in BOOLEAN
    BY <1>4 DEF Click
  <2> QED BY <1>4, <2>1, <2>2 DEF Click, TypeOK
<1>5. CASE Pause
  <2>1. "destroy" \in Kinds /\ queue \in Seq(Message)
    BY DEF Kinds, TypeOK
  <2>2. Without({"bind", "connected"}, queue) \in Seq(Message)
    BY <2>1, WithoutSelects
  <2>3. queue' \in Seq(Message)
    BY <1>5, <2>1, <2>2, AppendedMessages DEF Pause
  <2> QED BY <1>5, <2>3 DEF Pause, TypeOK
<1>6. CASE Prefer
  BY <1>6 DEF Prefer, TypeOK
<1>7. CASE Leave
  BY <1>7 DEF Leave, TypeOK
<1>8. ASSUME NEW ok \in BOOLEAN, Answer(ok) PROVE TypeOK'
  <2>1. "start" \in Kinds /\ queue \in Seq(Message)
    BY DEF Kinds, TypeOK
  <2>2. queue' \in Seq(Message)
    <3>1. CASE ok
      BY <1>8, <2>1, <3>1, AppendedMessages DEF Answer
    <3>2. CASE ~ok
      BY <1>8, <2>1, <3>2, ConcatEmptySeq DEF Answer
    <3> QED BY <3>1, <3>2
  <2>3. started' \in [Services -> BOOLEAN]
    BY <1>8, ServicesAre DEF Answer, TypeOK
  <2> QED BY <1>8, <2>2, <2>3 DEF Answer, TypeOK
<1> QED BY <1>1, <1>2, <1>3, <1>4, <1>5, <1>6, <1>7, <1>8

LEMMA TunnelTypes ==
  ASSUME TypeOK,
         T!Create \/ T!Open \/ T!Serve \/ T!Leave \/ T!Close \/ T!Destroy \/ UNCHANGED tunnel
  PROVE  service' \in BOOLEAN /\ open' \in BOOLEAN /\ serving' \in BOOLEAN
  BY DEF TypeOK, T!Create, T!Open, T!Serve, T!Leave, T!Close, T!Destroy, tunnel

LEMMA MainTypes == ASSUME TypeOK, Main PROVE TypeOK'
<1> USE DEF tunnel, shell, screen, OthersUnchanged, Done
<1>1. queue \in Seq(Message)
  BY DEF TypeOK
<1>2. CASE CreateService
  <2>1. service' \in BOOLEAN /\ open' \in BOOLEAN /\ serving' \in BOOLEAN
    BY <1>2, TunnelTypes DEF CreateService
  <2> QED BY <1>2, <2>1 DEF CreateService, TypeOK
<1>3. CASE StartTunnel
  <2>1. service' \in BOOLEAN /\ open' \in BOOLEAN /\ serving' \in BOOLEAN
    BY <1>3, TunnelTypes DEF StartTunnel
  <2>2. Tail(queue) \in Seq(Message)
    BY <1>1, <1>3, HeadAndRest DEF StartTunnel
  <2>3. [what |-> "serve", to |-> "vpn"] \in Message
    BY DEF Message, Kinds, Services
  <2>4. <<[what |-> "serve", to |-> "vpn"]>> \o Tail(queue) \in Seq(Message)
    BY <2>2, <2>3, ConcatProperties
  <2>5. queue' \in Seq(Message)
    BY <1>3, <2>2, <2>4 DEF StartTunnel
  <2> QED BY <1>3, <2>1, <2>5 DEF StartTunnel, TypeOK
<1>4. CASE ServeTunnel
  <2>1. service' \in BOOLEAN /\ open' \in BOOLEAN /\ serving' \in BOOLEAN
    BY <1>4, TunnelTypes DEF ServeTunnel
  <2>2. Tail(queue) \in Seq(Message)
    BY <1>1, <1>4, HeadAndRest DEF ServeTunnel
  <2> QED BY <1>4, <2>1, <2>2 DEF ServeTunnel, TypeOK
<1>5. CASE StopTunnel
  <2>1. service' \in BOOLEAN /\ open' \in BOOLEAN /\ serving' \in BOOLEAN
    BY <1>5, TunnelTypes DEF StopTunnel, StopTunnelOr
  <2>2. Tail(queue) \in Seq(Message)
    BY <1>1, <1>5, HeadAndRest DEF StopTunnel
  <2> QED BY <1>5, <2>1, <2>2 DEF StopTunnel, TypeOK
<1>6. CASE Revoked
  <2>1. service' \in BOOLEAN /\ open' \in BOOLEAN /\ serving' \in BOOLEAN
    BY <1>6, TunnelTypes DEF Revoked, StopTunnelOr
  <2>2. Tail(queue) \in Seq(Message)
    BY <1>1, <1>6, HeadAndRest DEF Revoked
  <2>3. Tail(queue) \o << >> \in Seq(Message) /\ Tail(queue) \o Messages("destroy", {"vpn"}) \in Seq(Message)
    BY <2>2, AppendedMessages, ConcatEmptySeq DEF Kinds
  <2>4. queue' \in Seq(Message)
    BY <1>6, <2>3 DEF Revoked
  <2>5. started' \in [Services -> BOOLEAN]
    BY <1>6 DEF Revoked, TypeOK
  <2> QED BY <1>6, <2>1, <2>4, <2>5 DEF Revoked, TypeOK
<1>7. CASE DestroyTunnel
  <2>1. service' \in BOOLEAN /\ open' \in BOOLEAN /\ serving' \in BOOLEAN
    BY <1>7, TunnelTypes DEF DestroyTunnel
  <2>2. Tail(queue) \in Seq(Message)
    BY <1>1, <1>7, HeadAndRest DEF DestroyTunnel
  <2>3. queue' \in Seq(Message) /\ ref' \in [Services -> BOOLEAN]
    BY <1>1, <1>7, <2>2 DEF DestroyTunnel, TypeOK
  <2> QED BY <1>7, <2>1, <2>3 DEF DestroyTunnel, TypeOK
<1>9. ASSUME EndShell
      PROVE  shellProcess' \in Procs \cup {NULL} /\ proc' \in [Procs -> {"none", "live", "asked"}]
  BY <1>9 DEF EndShell, TypeOK
<1>10. CASE StartShell
  <2>1. Tail(queue) \in Seq(Message)
    BY <1>1, <1>10, HeadAndRest DEF StartShell
  <2>2. /\ shellProcess' \in Procs \cup {NULL} /\ proc' \in [Procs -> {"none", "live", "asked"}]
        /\ disturbed' \in BOOLEAN
    BY <1>10 DEF StartShell, TypeOK
  <2> QED BY <1>10, <2>1, <2>2 DEF StartShell, TypeOK
<1>11. CASE StopShell
  <2>1. Tail(queue) \in Seq(Message)
    BY <1>1, <1>11, HeadAndRest DEF StopShell
  <2> QED BY <1>9, <1>11, <2>1 DEF StopShell, TypeOK
<1>12. CASE DestroyShell
  <2>1. Tail(queue) \in Seq(Message)
    BY <1>1, <1>12, HeadAndRest DEF DestroyShell
  <2>2. ref' \in [Services -> BOOLEAN]
    BY <1>12 DEF DestroyShell, TypeOK
  <2> QED BY <1>9, <1>12, <2>1, <2>2 DEF DestroyShell, TypeOK
<1>13. ASSUME NEW s \in Services, Bind(s) PROVE TypeOK'
  <2>1. Tail(queue) \in Seq(Message)
    BY <1>1, <1>13, HeadAndRest DEF Bind
  <2>2. [what |-> "connected", to |-> s] \in Message
    BY DEF Message, Kinds
  <2>3. queue' \in Seq(Message)
    BY <1>13, <2>1, <2>2, AppendProperties DEF Bind
  <2> QED BY <1>13, <2>3 DEF Bind, TypeOK
<1>14. ASSUME NEW s \in Services, Connected(s) PROVE TypeOK'
  <2>1. Tail(queue) \in Seq(Message)
    BY <1>1, <1>14, HeadAndRest DEF Connected
  <2>2. /\ queue' \in Seq(Message) /\ shown' \in BOOLEAN /\ asking' \in BOOLEAN
        /\ started' \in [Services -> BOOLEAN]
    BY <1>14, <2>1, SyncToggleTypes DEF Connected
  <2>3. ref' \in [Services -> BOOLEAN]
    BY <1>14 DEF Connected, TypeOK
  <2> QED BY <1>14, <2>2, <2>3 DEF Connected, TypeOK
<1> QED BY <1>2, <1>3, <1>4, <1>5, <1>6, <1>7, <1>10, <1>11, <1>12, <1>13, <1>14 DEF Main

LEMMA TypeInit == Init => TypeOK
<1> SUFFICES ASSUME Init PROVE TypeOK
  OBVIOUS
<1>1. queue \in Seq(Message)
  BY EmptySeq DEF Init
<1> QED BY <1>1 DEF Init, TypeOK

LEMMA TypeNext == TypeOK /\ [Next]_vars => TypeOK'
<1> SUFFICES ASSUME TypeOK, [Next]_vars PROVE TypeOK'
  OBVIOUS
<1> USE DEF tunnel, shell, screen, OthersUnchanged
<1>1. CASE UNCHANGED vars
  BY <1>1 DEF vars, TypeOK
<1>2. CASE ThreadEnds
  <2>1. service' \in BOOLEAN /\ open' \in BOOLEAN /\ serving' \in BOOLEAN
    BY <1>2, TunnelTypes DEF ThreadEnds
  <2> QED BY <1>2, <2>1 DEF ThreadEnds, TypeOK
<1>3. CASE Revoke
  <2>1. [what |-> "revoke", to |-> "vpn"] \in Message /\ queue \in Seq(Message)
    BY DEF Message, Kinds, Services, TypeOK
  <2>2. queue' \in Seq(Message)
    BY <1>3, <2>1, AppendProperties DEF Revoke
  <2> QED BY <1>3, <2>2 DEF Revoke, TypeOK
<1>4. CASE Die
  <2>1. queue' \in Seq(Message)
    BY <1>4, EmptySeq DEF Die
  <2> QED BY <1>4, <2>1 DEF Die, TypeOK
<1>5. ASSUME NEW p \in Procs, ProcessExits(p) PROVE TypeOK'
  BY <1>5 DEF ProcessExits, TypeOK
<1> QED BY <1>1, <1>2, <1>3, <1>4, <1>5, ActivityTypes, MainTypes DEF Next

(* Whatever the user, the system and the services do, every variable of    *)
(* the application keeps its type: the queue holds messages, the services  *)
(* are known or not, and a process is one that exec created.               *)
THEOREM TypeCorrect == Spec => []TypeOK
  BY TypeInit, TypeNext, PTL DEF Spec


-----------------------------------------------------------------------------
(* Who asks services to stop. *)

Stops(q) == PlacesOf({"stop"}, q)

(* a has no more messages that stop a service than b: h maps each to one.  *)
NoMoreStops(a, b) ==
  \E h : /\ \A i \in Stops(a) : h[i] \in Stops(b)
         /\ \A i, j \in Stops(a) : h[i] = h[j] => i = j

LEMMA StopsFinite ==
  ASSUME NEW q \in Seq(Message)
  PROVE  IsFiniteSet(Stops(q)) /\ Stops(q) \subseteq 1 .. Len(q)
<1>1. Stops(q) \subseteq 1 .. Len(q) /\ Len(q) \in Nat
  BY LenProperties DEF Stops, PlacesOf
<1>2. IsFiniteSet(1 .. Len(q))
  BY <1>1, FS_Interval
<1> QED BY <1>1, <1>2, FS_Subset

LEMMA CountOfStops ==
  ASSUME NEW a \in Seq(Message), NEW b \in Seq(Message), NoMoreStops(a, b)
  PROVE  ~(Cardinality(Stops(a)) > Cardinality(Stops(b)))
<1>1. PICK h : /\ \A i \in Stops(a) : h[i] \in Stops(b)
               /\ \A i, j \in Stops(a) : h[i] = h[j] => i = j
  BY DEF NoMoreStops
<1> DEFINE g == [i \in Stops(a) |-> h[i]]
<1>2. g \in Injection(Stops(a), Stops(b))
  BY <1>1 DEF Injection, IsInjective
<1>3. IsFiniteSet(Stops(a)) /\ IsFiniteSet(Stops(b))
  BY StopsFinite
<1>4. /\ Cardinality(Stops(a)) \in Nat /\ Cardinality(Stops(b)) \in Nat
      /\ Cardinality(Stops(a)) <= Cardinality(Stops(b))
  BY <1>2, <1>3, FS_Injection, FS_CardinalityType
<1> QED BY <1>4

LEMMA SameStops ==
  ASSUME NEW q PROVE NoMoreStops(q, q)
<1> DEFINE h == [i \in Stops(q) |-> i]
<1>1. /\ \A i \in Stops(q) : h[i] \in Stops(q)
      /\ \A i, j \in Stops(q) : h[i] = h[j] => i = j
  OBVIOUS
<1> HIDE DEF h
<1> QED BY <1>1 DEF NoMoreStops

LEMMA RestHasNoMoreStops ==
  ASSUME NEW q \in Seq(Message), q # << >> PROVE NoMoreStops(Tail(q), q)
<1> DEFINE h == [i \in Stops(Tail(q)) |-> i + 1]
<1>1. /\ Len(Tail(q)) = Len(q) - 1 /\ Len(q) \in Nat
      /\ \A i \in 1 .. Len(Tail(q)) : Tail(q)[i] = q[i + 1]
      /\ Stops(Tail(q)) \subseteq 1 .. Len(Tail(q)) /\ DOMAIN q = 1 .. Len(q)
      /\ DOMAIN Tail(q) = 1 .. Len(Tail(q))
  BY HeadTailProperties, LenProperties, StopsFinite
<1>2. ASSUME NEW i \in Stops(Tail(q)) PROVE i + 1 \in Stops(q) /\ i \in Int /\ h[i] = i + 1
  <2>1. i \in 1 .. Len(Tail(q)) /\ Tail(q)[i].what \in {"stop"} /\ i + 1 \in 1 .. Len(q)
    BY <1>1 DEF Stops, PlacesOf
  <2> QED BY <1>1, <2>1 DEF Stops, PlacesOf
<1> HIDE DEF h
<1> QED BY <1>2 DEF NoMoreStops

LEMMA AppendedIsNoStop ==
  ASSUME NEW a \in Seq(Message), NEW b \in Seq(Message), NEW c, NoMoreStops(a, c),
         \A i \in 1 .. Len(b) : b[i].what # "stop"
  PROVE  NoMoreStops(a \o b, c)
<1>1. /\ Len(a) \in Nat /\ Len(b) \in Nat /\ DOMAIN a = 1 .. Len(a)
      /\ DOMAIN (a \o b) = 1 .. Len(a) + Len(b)
      /\ \A i \in 1 .. Len(a) + Len(b) :
           (a \o b)[i] = IF i <= Len(a) THEN a[i] ELSE b[i - Len(a)]
  BY ConcatProperties, LenProperties
<1>2. ASSUME NEW i \in Stops(a \o b) PROVE i \in Stops(a)
  <2>1. i \in 1 .. Len(a) + Len(b) /\ (a \o b)[i].what = "stop"
    BY <1>1 DEF Stops, PlacesOf
  <2>2. CASE i <= Len(a)
    BY <1>1, <2>1, <2>2 DEF Stops, PlacesOf
  <2>3. CASE ~(i <= Len(a))
    <3>1. i - Len(a) \in 1 .. Len(b)
      BY <1>1, <2>1, <2>3
    <3> QED BY <1>1, <2>1, <2>3, <3>1
  <2> QED BY <2>2, <2>3
<1> QED BY <1>2 DEF NoMoreStops

LEMMA PrependedIsNoStop ==
  ASSUME NEW a \in Seq(Message), NEW m \in Message, NEW c, NoMoreStops(a, c), m.what # "stop"
  PROVE  NoMoreStops(<<m>> \o a, c)
<1>1. /\ Len(a) \in Nat /\ DOMAIN a = 1 .. Len(a) /\ DOMAIN (<<m>> \o a) = 1 .. Len(a) + 1
      /\ (<<m>> \o a)[1] = m /\ \A i \in 1 .. Len(a) : (<<m>> \o a)[i + 1] = a[i]
  BY ConcatProperties, LenProperties
<1>2. PICK h : /\ \A i \in Stops(a) : h[i] \in Stops(c)
               /\ \A i, j \in Stops(a) : h[i] = h[j] => i = j
  BY DEF NoMoreStops
<1> DEFINE g == [i \in Stops(<<m>> \o a) |-> h[i - 1]]
<1>3. ASSUME NEW i \in Stops(<<m>> \o a)
      PROVE  i - 1 \in Stops(a) /\ i \in Int /\ g[i] = h[i - 1]
  <2>1. i \in 1 .. Len(a) + 1 /\ (<<m>> \o a)[i].what = "stop"
    BY <1>1 DEF Stops, PlacesOf
  <2>2. i # 1
    BY <1>1, <2>1
  <2>3. i - 1 \in 1 .. Len(a) /\ (i - 1) + 1 = i
    BY <1>1, <2>1, <2>2
  <2>4. a[i - 1].what = "stop"
    BY <1>1, <2>1, <2>3
  <2>5. i - 1 \in Stops(a)
    BY <1>1, <2>3, <2>4 DEF Stops, PlacesOf
  <2>6. g[i] = h[i - 1]
    OBVIOUS
  <2> HIDE DEF g
  <2> QED BY <1>1, <2>1, <2>5, <2>6
<1> HIDE DEF g
<1>4. /\ \A i \in Stops(<<m>> \o a) : g[i] \in Stops(c)
      /\ \A i, j \in Stops(<<m>> \o a) : g[i] = g[j] => i = j
  BY <1>2, <1>3
<1> QED BY <1>4, Zenon DEF NoMoreStops

LEMMA WithoutHasNoMoreStops ==
  ASSUME NEW kinds, NEW q \in Seq(Message) PROVE NoMoreStops(Without(kinds, q), q)
<1> DEFINE w == Without(kinds, q)
<1>1. w \in Seq(Message) /\ \E h : Picks(w, h, kinds, q, Len(q))
  BY WithoutSelects
<1> HIDE DEF w
<1>2. PICK h : Picks(w, h, kinds, q, Len(q))
  BY <1>1
<1>3. Stops(w) \subseteq 1 .. Len(w) /\ Len(w) \in Nat /\ DOMAIN q = 1 .. Len(q)
  BY <1>1, StopsFinite, LenProperties
<1>4. ASSUME NEW i \in Stops(w) PROVE h[i] \in Stops(q)
  BY <1>2, <1>3 DEF Picks, Stops, PlacesOf
<1>5. ASSUME NEW i \in Stops(w), NEW j \in Stops(w), h[i] = h[j] PROVE i = j
  <2>1. i \in 1 .. Len(w) /\ j \in 1 .. Len(w) /\ h[i] \in 1 .. Len(q) /\ h[j] \in 1 .. Len(q)
    BY <1>2, <1>3 DEF Picks
  <2>2. h[i] \in Int /\ h[j] \in Int
    BY <2>1
  <2>3. ~(i < j) /\ ~(j < i)
    BY <1>2, <1>5, <2>1, <2>2 DEF Picks
  <2> QED BY <2>1, <2>3
<1> QED BY <1>4, <1>5 DEF NoMoreStops, w

(* setChecked only starts services when it turns the switch on, or when    *)
(* the activity sees none that runs.                                       *)
LEMMA CheckOnlyStarts ==
  ASSUME TypeOK, NEW r, NEW on \in BOOLEAN, on \/ Seen(r) = {}, NEW rest \in Seq(Message),
         NoMoreStops(rest, queue), SetChecked(r, on, rest)
  PROVE  NoMoreStops(queue', queue)
<1> DEFINE starts == IF on THEN prefs \ Seen(r) ELSE {}
           stops  == IF on THEN {} ELSE Seen(r)
           denied == IF consent THEN {} ELSE starts \cap {"vpn"}
           begins == Messages("start", starts \ denied)
           ends == Messages("stop", stops)
<1>1. CASE on = shown
  BY <1>1 DEF SetChecked
<1>2. CASE on # shown
  <2>1. queue' = rest \o begins \o ends
    BY <1>2 DEF SetChecked
  <2>2. stops = {}
    OBVIOUS
  <2>3. "start" \in Kinds /\ "stop" \in Kinds
    BY DEF Kinds
  <2> HIDE DEF starts, stops, denied
  <2>4. /\ begins \in Seq(Message) /\ ends \in Seq(Message)
        /\ \A i \in 1 .. Len(begins) : begins[i].what = "start"
        /\ \A i \in 1 .. Len(ends) : ends[i].to \in {}
    BY <2>2, <2>3, MessagesAre
  <2> HIDE DEF begins, ends
  <2>5. NoMoreStops(rest \o begins, queue)
    BY <2>4, AppendedIsNoStop
  <2>6. rest \o begins \in Seq(Message)
    BY <2>4, ConcatProperties
  <2>7. NoMoreStops((rest \o begins) \o ends, queue)
    BY <2>4, <2>5, <2>6, AppendedIsNoStop
  <2> QED BY <2>1, <2>7
<1> QED BY <1>1, <1>2

LEMMA SyncToggleOnlyStarts ==
  ASSUME TypeOK, NEW r, NEW rest \in Seq(Message), NoMoreStops(rest, queue),
         syncToggle(r, rest)
  PROVE  NoMoreStops(queue', queue)
  BY CheckOnlyStarts DEF syncToggle

LEMMA AddedMessages ==
  ASSUME NEW a \in Seq(Message), NEW c, NoMoreStops(a, c), NEW what \in Kinds, what # "stop",
         NEW S
  PROVE  a \o Messages(what, S) \in Seq(Message) /\ NoMoreStops(a \o Messages(what, S), c)
<1> DEFINE b == Messages(what, S)
<1>1. b \in Seq(Message) /\ \A i \in 1 .. Len(b) : b[i].what = what
  BY MessagesAre
<1> HIDE DEF b
<1>2. NoMoreStops(a \o b, c) /\ a \o b \in Seq(Message)
  BY <1>1, AppendedIsNoStop, ConcatProperties
<1> QED BY <1>2 DEF b

(* The user's click on a switch that is on, and nothing else, adds a       *)
(* message that stops a service.                                           *)
LEMMA OnlyClickStops ==
  ASSUME TypeOK, [Next]_vars, ~(Click /\ shown)
  PROVE  NoMoreStops(queue', queue)
<1> DEFINE Goal == NoMoreStops(queue', queue)
<1>1. /\ queue \in Seq(Message) /\ NoMoreStops(queue, queue)
      /\ "connected" \in Kinds /\ "bind" \in Kinds /\ "destroy" \in Kinds /\ "start" \in Kinds
  BY SameStops DEF TypeOK, Kinds
<1>2. ASSUME UNCHANGED queue PROVE Goal
  BY <1>1, <1>2
<1>3. ASSUME queue # << >> PROVE Tail(queue) \in Seq(Message) /\ NoMoreStops(Tail(queue), queue)
  BY <1>1, <1>3, RestHasNoMoreStops, HeadTailProperties
<1>4. CASE Launch \/ Prefer \/ Leave \/ ThreadEnds \/ CreateService \/ UNCHANGED vars
  <2>1. UNCHANGED queue
    BY <1>4 DEF Launch, Prefer, Leave, ThreadEnds, CreateService, vars
  <2> QED BY <1>2, <2>1
<1>5. CASE \E p \in Procs : ProcessExits(p)
  BY <1>2, <1>5 DEF ProcessExits
<1>6. CASE Resume
  <2> DEFINE known == {s \in Services : started[s]}
             rest == queue \o Messages("connected", known) \o Messages("bind", Services \ known)
  <2>1. rest \in Seq(Message) /\ NoMoreStops(rest, queue)
    <3> HIDE DEF known
    <3> QED BY <1>1, AddedMessages
  <2>2. syncToggle(ref, rest)
    BY <1>6 DEF Resume
  <2> HIDE DEF rest
  <2> QED BY <2>1, <2>2, SyncToggleOnlyStarts
<1>7. CASE CreateMenu
  BY <1>1, <1>7, CheckOnlyStarts DEF CreateMenu
<1>8. CASE Pause
  <2> DEFINE w == Without({"bind", "connected"}, queue)
  <2>1. w \in Seq(Message) /\ NoMoreStops(w, queue)
    BY <1>1, WithoutSelects, WithoutHasNoMoreStops
  <2>2. queue' = w \o Messages("destroy", {s \in Services : ~started[s]})
    BY <1>8 DEF Pause
  <2> HIDE DEF w
  <2> QED BY <1>1, <2>1, <2>2, AddedMessages
<1>9. ASSUME NEW ok \in BOOLEAN, Answer(ok) PROVE Goal
  <2>1. CASE ok
    BY <1>1, <1>9, <2>1, AddedMessages DEF Answer
  <2>2. CASE ~ok
    BY <1>1, <1>9, <2>2, ConcatEmptySeq DEF Answer
  <2> QED BY <2>1, <2>2
<1>10. CASE StartTunnel
  <2>1. queue # << >>
    BY <1>10 DEF StartTunnel, Gets
  <2>2. CASE queue' = Tail(queue)
    BY <1>3, <2>1, <2>2
  <2>3. CASE queue' = <<[what |-> "serve", to |-> "vpn"]>> \o Tail(queue)
    <3> DEFINE m == [what |-> "serve", to |-> "vpn"]
    <3>1. m \in Message /\ m.what # "stop"
      BY DEF Message, Kinds, Services
    <3> HIDE DEF m
    <3>2. NoMoreStops(<<m>> \o Tail(queue), queue)
      BY <1>3, <2>1, <3>1, PrependedIsNoStop
    <3> QED BY <2>3, <3>2 DEF m
  <2> QED BY <1>10, <2>2, <2>3 DEF StartTunnel, Done
<1>11. CASE ServeTunnel \/ StopTunnel \/ StartShell \/ StopShell \/ DestroyShell
  <2>1. queue # << >> /\ queue' = Tail(queue)
    BY <1>11 DEF ServeTunnel, StopTunnel, StartShell, StopShell, DestroyShell, Gets, Done
  <2> QED BY <1>3, <2>1
<1>12. CASE Revoked
  <2>1. queue # << >>
    BY <1>12 DEF Revoked, Gets
  <2>2. /\ Tail(queue) \o << >> = Tail(queue)
        /\ NoMoreStops(Tail(queue) \o Messages("destroy", {"vpn"}), queue)
    BY <1>1, <1>3, <2>1, AddedMessages, ConcatEmptySeq
  <2> QED BY <1>3, <1>12, <2>1, <2>2 DEF Revoked
<1>13. CASE DestroyTunnel
  <2>1. queue # << >> /\ (queue' = queue \/ queue' = Tail(queue))
    BY <1>13 DEF DestroyTunnel, Gets, Done
  <2> QED BY <1>2, <1>3, <2>1
<1>14. ASSUME NEW s \in Services, Bind(s) PROVE Goal
  <2> DEFINE m == [what |-> "connected", to |-> s]
  <2>1. queue # << >> /\ queue' = Append(Tail(queue), m)
    BY <1>14 DEF Bind, Gets
  <2>2. m \in Message /\ m.what # "stop"
    BY DEF Message, Kinds
  <2> HIDE DEF m
  <2>3. queue' = Tail(queue) \o <<m>> /\ <<m>> \in Seq(Message)
    BY <1>3, <2>1, <2>2, AppendIsConcat
  <2>4. \A i \in 1 .. Len(<<m>>) : <<m>>[i].what # "stop"
    BY <2>2
  <2> QED BY <1>3, <2>1, <2>3, <2>4, AppendedIsNoStop
<1>15. ASSUME NEW s \in Services, Connected(s) PROVE Goal
  <2>1. queue # << >> /\ syncToggle(ref', Tail(queue))
    BY <1>15 DEF Connected, Gets
  <2> QED BY <1>3, <2>1, SyncToggleOnlyStarts
<1>16. CASE Revoke
  <2> DEFINE m == [what |-> "revoke", to |-> "vpn"]
  <2>1. queue' = Append(queue, m)
    BY <1>16 DEF Revoke
  <2>2. m \in Message /\ m.what # "stop"
    BY DEF Message, Kinds, Services
  <2> HIDE DEF m
  <2>3. queue' = queue \o <<m>> /\ <<m>> \in Seq(Message)
    BY <1>1, <2>1, <2>2, AppendIsConcat
  <2>4. \A i \in 1 .. Len(<<m>>) : <<m>>[i].what # "stop"
    BY <2>2
  <2> QED BY <1>1, <2>3, <2>4, AppendedIsNoStop
<1>17. CASE Die
  <2>1. Stops(queue') = {}
    BY <1>17 DEF Die, Stops, PlacesOf
  <2> QED BY <2>1 DEF NoMoreStops
<1>18. CASE Click /\ ~shown
  BY <1>1, <1>18, CheckOnlyStarts DEF Click
<1> QED BY <1>4, <1>5, <1>6, <1>7, <1>8, <1>9, <1>10, <1>11, <1>12, <1>13, <1>14, <1>15,
           <1>16, <1>17, <1>18 DEF Next, Main

(* No step but the user's click on a switch that is on stops a service:    *)
(* syncToggle, run by onResume, the menu and the connections, starts       *)
(* services or does nothing, whatever is pending and selected.             *)
THEOREM SyncCorrect == Spec => SyncStopsNothing
<1> DEFINE Quiet ==
       Cardinality(Pending({"stop"})') > Cardinality(Pending({"stop"})) => Click /\ shown
<1>1. TypeOK /\ TypeOK' /\ [Next]_vars => Quiet
  <2> SUFFICES ASSUME TypeOK, TypeOK', [Next]_vars, ~(Click /\ shown)
               PROVE  ~(Cardinality(Pending({"stop"})') > Cardinality(Pending({"stop"})))
    OBVIOUS
  <2>1. NoMoreStops(queue', queue)
    BY OnlyClickStops
  <2>2. Pending({"stop"}) = Stops(queue) /\ Pending({"stop"})' = Stops(queue')
    BY DEF Pending, Stops, PlacesOf
  <2>3. queue \in Seq(Message) /\ queue' \in Seq(Message)
    BY DEF TypeOK
  <2> QED BY <2>1, <2>2, <2>3, CountOfStops
<1>2. Spec => [][Quiet]_vars
  BY <1>1, TypeCorrect, PTL DEF Spec
<1> QED BY <1>2 DEF SyncStopsNothing

-----------------------------------------------------------------------------
(* Queues that are joined: a queue is its head and its rest, and what is   *)
(* sent is appended, so these facts say what every step does to the places *)
(* that SwitchInv is about.                                                *)

None(kinds, q) == PlacesOf(kinds, q) = {}
NoneFor(kinds, s, q) == PlacesFor(kinds, s, q) = {}
Asks(kinds, s, q) == AskedAfter(kinds, s, q) # {}
StartIsLast(q) ==
  \E i \in PlacesOf({"start"}, q) : \A j \in PlacesOf({"connected"}, q) : j < i
DestroysFirst(q) ==
  \A i \in PlacesOf({"destroy"}, q), j \in PlacesOf(Connections, q) : i < j

LEMMA Joined ==
  ASSUME NEW a \in Seq(Message), NEW b \in Seq(Message)
  PROVE  /\ Len(a) \in Nat /\ Len(b) \in Nat /\ a \o b \in Seq(Message)
         /\ DOMAIN a = 1 .. Len(a) /\ DOMAIN b = 1 .. Len(b)
         /\ DOMAIN (a \o b) = 1 .. Len(a) + Len(b)
         /\ \A i \in 1 .. Len(a) : (a \o b)[i] = a[i]
         /\ \A i \in 1 .. Len(b) : (a \o b)[Len(a) + i] = b[i]
<1>1. /\ Len(a) \in Nat /\ Len(b) \in Nat /\ DOMAIN a = 1 .. Len(a) /\ DOMAIN b = 1 .. Len(b)
      /\ a \o b \in Seq(Message) /\ DOMAIN (a \o b) = 1 .. Len(a) + Len(b)
      /\ \A i \in 1 .. Len(a) + Len(b) :
           (a \o b)[i] = IF i <= Len(a) THEN a[i] ELSE b[i - Len(a)]
  BY ConcatProperties, LenProperties
<1>2. \A i \in 1 .. Len(a) : (a \o b)[i] = a[i]
  BY <1>1
<1>3. ASSUME NEW i \in 1 .. Len(b) PROVE (a \o b)[Len(a) + i] = b[i]
  <2>1. Len(a) + i \in 1 .. Len(a) + Len(b) /\ ~(Len(a) + i <= Len(a)) /\ (Len(a) + i) - Len(a) = i
    BY <1>1
  <2> QED BY <1>1, <2>1
<1> QED BY <1>1, <1>2, <1>3

LEMMA PlacesJoined ==
  ASSUME NEW a \in Seq(Message), NEW b \in Seq(Message), NEW kinds
  PROVE  /\ PlacesOf(kinds, a) \subseteq 1 .. Len(a)
         /\ PlacesOf(kinds, b) \subseteq 1 .. Len(b)
         /\ \A i \in PlacesOf(kinds, a) : i \in PlacesOf(kinds, a \o b)
         /\ \A i \in PlacesOf(kinds, b) : Len(a) + i \in PlacesOf(kinds, a \o b)
         /\ \A k \in PlacesOf(kinds, a \o b) :
              \/ k \in PlacesOf(kinds, a)
              \/ \E i \in PlacesOf(kinds, b) : k = Len(a) + i
<1> DEFINE c == a \o b
<1>1. /\ Len(a) \in Nat /\ Len(b) \in Nat
      /\ DOMAIN a = 1 .. Len(a) /\ DOMAIN b = 1 .. Len(b) /\ DOMAIN c = 1 .. Len(a) + Len(b)
      /\ \A i \in 1 .. Len(a) : c[i] = a[i]
      /\ \A i \in 1 .. Len(b) : c[Len(a) + i] = b[i]
  BY Joined
<1> HIDE DEF c
<1>2. ASSUME NEW i \in PlacesOf(kinds, a) PROVE i \in PlacesOf(kinds, c)
  BY <1>1 DEF PlacesOf
<1>3. ASSUME NEW i \in PlacesOf(kinds, b) PROVE Len(a) + i \in PlacesOf(kinds, c)
  <2>1. i \in 1 .. Len(b) /\ Len(a) + i \in 1 .. Len(a) + Len(b)
    BY <1>1 DEF PlacesOf
  <2> QED BY <1>1, <2>1 DEF PlacesOf
<1>4. ASSUME NEW k \in PlacesOf(kinds, c)
      PROVE  k \in PlacesOf(kinds, a) \/ \E i \in PlacesOf(kinds, b) : k = Len(a) + i
  <2>1. k \in 1 .. Len(a) + Len(b) /\ c[k].what \in kinds
    BY <1>1 DEF PlacesOf
  <2>2. CASE k <= Len(a)
    BY <1>1, <2>1, <2>2 DEF PlacesOf
  <2>3. CASE ~(k <= Len(a))
    <3>1. k - Len(a) \in 1 .. Len(b) /\ k = Len(a) + (k - Len(a))
      BY <1>1, <2>1, <2>3
    <3>2. b[k - Len(a)].what \in kinds
      BY <1>1, <2>1, <3>1
    <3> QED BY <1>1, <3>1, <3>2 DEF PlacesOf
  <2> QED BY <2>2, <2>3
<1> QED BY <1>1, <1>2, <1>3, <1>4 DEF PlacesOf, c

LEMMA PlacesForJoined ==
  ASSUME NEW a \in Seq(Message), NEW b \in Seq(Message), NEW kinds, NEW s
  PROVE  /\ PlacesFor(kinds, s, a) \subseteq 1 .. Len(a)
         /\ PlacesFor(kinds, s, b) \subseteq 1 .. Len(b)
         /\ \A i \in PlacesFor(kinds, s, a) : i \in PlacesFor(kinds, s, a \o b)
         /\ \A i \in PlacesFor(kinds, s, b) : Len(a) + i \in PlacesFor(kinds, s, a \o b)
         /\ \A k \in PlacesFor(kinds, s, a \o b) :
              \/ k \in PlacesFor(kinds, s, a)
              \/ \E i \in PlacesFor(kinds, s, b) : k = Len(a) + i
<1> DEFINE c == a \o b
<1>1. /\ \A i \in 1 .. Len(a) : c[i] = a[i]
      /\ \A i \in 1 .. Len(b) : c[Len(a) + i] = b[i]
  BY Joined
<1>2. /\ PlacesOf(kinds, a) \subseteq 1 .. Len(a)
      /\ PlacesOf(kinds, b) \subseteq 1 .. Len(b)
      /\ \A i \in PlacesOf(kinds, a) : i \in PlacesOf(kinds, c)
      /\ \A i \in PlacesOf(kinds, b) : Len(a) + i \in PlacesOf(kinds, c)
      /\ \A k \in PlacesOf(kinds, c) :
           \/ k \in PlacesOf(kinds, a)
           \/ \E i \in PlacesOf(kinds, b) : k = Len(a) + i
  BY PlacesJoined
<1> HIDE DEF c
<1>3. /\ \A i \in PlacesFor(kinds, s, a) : i \in PlacesFor(kinds, s, c)
      /\ \A i \in PlacesFor(kinds, s, b) : Len(a) + i \in PlacesFor(kinds, s, c)
  BY <1>1, <1>2 DEF PlacesFor
<1>4. ASSUME NEW k \in PlacesFor(kinds, s, c)
      PROVE  k \in PlacesFor(kinds, s, a) \/ \E i \in PlacesFor(kinds, s, b) : k = Len(a) + i
  <2>1. k \in PlacesOf(kinds, c) /\ c[k].to = s
    BY DEF PlacesFor
  <2> QED BY <1>1, <1>2, <2>1 DEF PlacesFor
<1> QED BY <1>2, <1>3, <1>4 DEF PlacesFor, c

LEMMA NoneJoined ==
  ASSUME NEW a \in Seq(Message), NEW b \in Seq(Message), NEW kinds, NEW s
  PROVE  /\ None(kinds, a \o b) <=> None(kinds, a) /\ None(kinds, b)
         /\ NoneFor(kinds, s, a \o b) <=> NoneFor(kinds, s, a) /\ NoneFor(kinds, s, b)
<1>1. None(kinds, a \o b) <=> None(kinds, a) /\ None(kinds, b)
  BY PlacesJoined DEF None
<1>2. NoneFor(kinds, s, a \o b) <=> NoneFor(kinds, s, a) /\ NoneFor(kinds, s, b)
  BY PlacesForJoined DEF NoneFor
<1> QED BY <1>1, <1>2

LEMMA DestroysJoined ==
  ASSUME NEW a \in Seq(Message), NEW b \in Seq(Message)
  PROVE  DestroysFirst(a \o b) <=>
           /\ DestroysFirst(a) /\ DestroysFirst(b)
           /\ None(Connections, a) \/ None({"destroy"}, b)
<1> DEFINE c == a \o b
           n == Len(a)
           X(q) == PlacesOf({"destroy"}, q)
           Y(q) == PlacesOf(Connections, q)
<1>1. n \in Nat /\ Len(b) \in Nat
  BY LenProperties
<1>2. /\ X(a) \subseteq 1 .. n /\ X(b) \subseteq 1 .. Len(b)
      /\ \A i \in X(a) : i \in X(c)
      /\ \A i \in X(b) : n + i \in X(c)
      /\ \A k \in X(c) : k \in X(a) \/ \E i \in X(b) : k = n + i
  BY PlacesJoined
<1>3. /\ Y(a) \subseteq 1 .. n /\ Y(b) \subseteq 1 .. Len(b)
      /\ \A i \in Y(a) : i \in Y(c)
      /\ \A i \in Y(b) : n + i \in Y(c)
      /\ \A k \in Y(c) : k \in Y(a) \/ \E i \in Y(b) : k = n + i
  BY PlacesJoined
<1> DEFINE First(q) == \A i \in X(q), j \in Y(q) : i < j
<1> HIDE DEF c, n, X, Y
<1>4. ASSUME First(c) PROVE First(a) /\ First(b) /\ (Y(a) = {} \/ X(b) = {})
  <2>1. First(a)
    BY <1>2, <1>3, <1>4
  <2>2. First(b)
    BY <1>1, <1>2, <1>3, <1>4
  <2>3. ASSUME NEW i \in X(b), NEW j \in Y(a) PROVE FALSE
    <3>1. n + i < j
      BY <1>2, <1>3, <1>4
    <3> QED BY <1>1, <1>2, <1>3, <3>1
  <2> QED BY <2>1, <2>2, <2>3
<1>5. ASSUME First(a), First(b), Y(a) = {} \/ X(b) = {} PROVE First(c)
  <2> SUFFICES ASSUME NEW k \in X(c), NEW l \in Y(c) PROVE k < l
    OBVIOUS
  <2>1. CASE k \in X(a) /\ l \in Y(a)
    BY <1>5, <2>1
  <2>2. ASSUME k \in X(a), NEW j \in Y(b), l = n + j PROVE k < l
    BY <1>1, <1>2, <1>3, <2>2
  <2>3. ASSUME NEW i \in X(b), k = n + i, NEW j \in Y(b), l = n + j PROVE k < l
    BY <1>1, <1>2, <1>3, <1>5, <2>3
  <2> QED BY <1>2, <1>3, <1>5, <2>1, <2>2, <2>3
<1> QED BY <1>4, <1>5 DEF DestroysFirst, None, c, X, Y

LEMMA AsksJoined ==
  ASSUME NEW a \in Seq(Message), NEW b \in Seq(Message), NEW kinds, NEW s
  PROVE  Asks(kinds, s, a \o b) <=>
           Asks(kinds, s, b) \/ (Asks(kinds, s, a) /\ NoneFor({"destroy"}, s, b))
<1> DEFINE c == a \o b
           n == Len(a)
           X(q) == PlacesFor(kinds, s, q)
           Y(q) == PlacesFor({"destroy"}, s, q)
           Later(q) == \E k \in X(q) : \A i \in Y(q) : i < k
<1>1. n \in Nat /\ Len(b) \in Nat
  BY LenProperties
<1>2. /\ X(a) \subseteq 1 .. n /\ X(b) \subseteq 1 .. Len(b)
      /\ \A i \in X(a) : i \in X(c)
      /\ \A i \in X(b) : n + i \in X(c)
      /\ \A k \in X(c) : k \in X(a) \/ \E i \in X(b) : k = n + i
  BY PlacesForJoined
<1>3. /\ Y(a) \subseteq 1 .. n /\ Y(b) \subseteq 1 .. Len(b)
      /\ \A i \in Y(a) : i \in Y(c)
      /\ \A i \in Y(b) : n + i \in Y(c)
      /\ \A k \in Y(c) : k \in Y(a) \/ \E i \in Y(b) : k = n + i
  BY PlacesForJoined
<1> HIDE DEF c, n, X, Y
<1>4. ASSUME Later(c) PROVE Later(b) \/ (Later(a) /\ Y(b) = {})
  <2>1. PICK k \in X(c) : \A i \in Y(c) : i < k
    BY <1>4
  <2>2. CASE k \in X(a)
    <3>1. ASSUME NEW i \in Y(b) PROVE FALSE
      <4>1. n + i < k
        BY <1>3, <2>1
      <4> QED BY <1>1, <1>2, <1>3, <2>2, <4>1
    <3> QED BY <1>3, <2>1, <2>2, <3>1
  <2>3. ASSUME NEW j \in X(b), k = n + j PROVE Later(b)
    <3>1. ASSUME NEW i \in Y(b) PROVE i < j
      <4>1. n + i < n + j
        BY <1>3, <2>1, <2>3
      <4> QED BY <1>1, <1>2, <1>3, <4>1
    <3> QED BY <3>1
  <2> QED BY <1>2, <2>2, <2>3
<1>5. ASSUME Later(b) PROVE Later(c)
  <2>1. PICK j \in X(b) : \A i \in Y(b) : i < j
    BY <1>5
  <2>2. ASSUME NEW i \in Y(c) PROVE i < n + j
    BY <1>1, <1>2, <1>3, <2>1
  <2> QED BY <1>2, <2>2
<1>6. ASSUME Later(a), Y(b) = {} PROVE Later(c)
  BY <1>2, <1>3, <1>6
<1> QED BY <1>4, <1>5, <1>6 DEF Asks, AskedAfter, NoneFor, c, X, Y

LEMMA FirstJoined ==
  ASSUME NEW a \in Seq(Message), NEW b \in Seq(Message), NEW s
  PROVE  StartedFirst(s, a \o b) <=>
           \/ StartedFirst(s, b)
           \/ /\ NoneFor({"destroy"}, s, b)
              /\ StartedFirst(s, a) \/ (Asks({"start"}, s, a) /\ ~None({"connected"}, b))
<1> DEFINE c == a \o b
           n == Len(a)
           X(q) == PlacesFor({"start"}, s, q)
           Y(q) == PlacesFor({"destroy"}, s, q)
           Z(q) == PlacesOf({"connected"}, q)
           Later(q) == \E k \in X(q) : \A i \in Y(q) : i < k
           First(q) == \E k \in X(q), j \in Z(q) : k < j /\ \A i \in Y(q) : i < k
<1>1. n \in Nat /\ Len(b) \in Nat
  BY LenProperties
<1>2. /\ X(a) \subseteq 1 .. n /\ X(b) \subseteq 1 .. Len(b)
      /\ \A i \in X(a) : i \in X(c)
      /\ \A i \in X(b) : n + i \in X(c)
      /\ \A k \in X(c) : k \in X(a) \/ \E i \in X(b) : k = n + i
  BY PlacesForJoined
<1>3. /\ Y(a) \subseteq 1 .. n /\ Y(b) \subseteq 1 .. Len(b)
      /\ \A i \in Y(a) : i \in Y(c)
      /\ \A i \in Y(b) : n + i \in Y(c)
      /\ \A k \in Y(c) : k \in Y(a) \/ \E i \in Y(b) : k = n + i
  BY PlacesForJoined
<1>4. /\ Z(a) \subseteq 1 .. n /\ Z(b) \subseteq 1 .. Len(b)
      /\ \A i \in Z(a) : i \in Z(c)
      /\ \A i \in Z(b) : n + i \in Z(c)
      /\ \A k \in Z(c) : k \in Z(a) \/ \E i \in Z(b) : k = n + i
  BY PlacesJoined
<1> HIDE DEF c, n, X, Y, Z
<1>5. ASSUME First(c)
      PROVE  First(b) \/ (Y(b) = {} /\ (First(a) \/ (Later(a) /\ Z(b) # {})))
  <2>1. PICK k \in X(c), l \in Z(c) : k < l /\ \A i \in Y(c) : i < k
    BY <1>5
  <2>2. CASE k \in X(a)
    <3>1. ASSUME NEW i \in Y(b) PROVE FALSE
      <4>1. n + i < k
        BY <1>3, <2>1
      <4> QED BY <1>1, <1>2, <1>3, <2>2, <4>1
    <3>2. \A i \in Y(a) : i < k
      BY <1>3, <2>1
    <3>3. l \in Z(a) \/ Z(b) # {}
      BY <1>4
    <3> QED BY <2>1, <2>2, <3>1, <3>2, <3>3
  <2>3. ASSUME NEW j \in X(b), k = n + j PROVE First(b)
    <3>1. ASSUME NEW i \in Y(b) PROVE i < j
      <4>1. n + i < n + j
        BY <1>3, <2>1, <2>3
      <4> QED BY <1>1, <1>2, <1>3, <4>1
    <3>2. ~(l \in Z(a))
      BY <1>1, <1>2, <1>4, <2>1, <2>3
    <3>3. PICK m \in Z(b) : l = n + m
      BY <1>4, <3>2
    <3>4. j < m
      BY <1>1, <1>2, <1>4, <2>1, <2>3, <3>3
    <3> QED BY <3>1, <3>4
  <2> QED BY <1>2, <2>2, <2>3
<1>6. ASSUME First(b) PROVE First(c)
  <2>1. PICK j \in X(b), m \in Z(b) : j < m /\ \A i \in Y(b) : i < j
    BY <1>6
  <2>2. ASSUME NEW i \in Y(c) PROVE i < n + j
    BY <1>1, <1>2, <1>3, <2>1
  <2>3. n + j \in X(c) /\ n + m \in Z(c) /\ n + j < n + m
    BY <1>1, <1>2, <1>4, <2>1
  <2> QED BY <2>2, <2>3
<1>7. ASSUME First(a), Y(b) = {} PROVE First(c)
  <2>1. PICK k \in X(a), j \in Z(a) : k < j /\ \A i \in Y(a) : i < k
    BY <1>7
  <2>2. k \in X(c) /\ j \in Z(c) /\ \A i \in Y(c) : i < k
    BY <1>2, <1>3, <1>4, <1>7, <2>1
  <2> QED BY <2>1, <2>2
<1>8. ASSUME Later(a), Y(b) = {}, Z(b) # {} PROVE First(c)
  <2>1. PICK k \in X(a) : \A i \in Y(a) : i < k
    BY <1>8
  <2>2. PICK m \in Z(b) : TRUE
    BY <1>8
  <2>3. k \in X(c) /\ n + m \in Z(c) /\ \A i \in Y(c) : i < k
    BY <1>2, <1>3, <1>4, <1>8, <2>1
  <2>4. k < n + m
    BY <1>1, <1>2, <1>4
  <2> QED BY <2>3, <2>4
<1>9. ASSUME NEW q PROVE StartedFirst(s, q) <=> First(q)
  BY DEF StartedFirst, AskedAfter, X, Y, Z
<1>10. /\ Asks({"start"}, s, a) <=> Later(a)
       /\ NoneFor({"destroy"}, s, b) <=> Y(b) = {}
       /\ None({"connected"}, b) <=> Z(b) = {}
  BY DEF Asks, AskedAfter, NoneFor, None, X, Y, Z
<1> HIDE DEF First, Later
<1> QED BY <1>5, <1>6, <1>7, <1>8, <1>9, <1>10 DEF c

LEMMA LastJoined ==
  ASSUME NEW a \in Seq(Message), NEW b \in Seq(Message)
  PROVE  StartIsLast(a \o b) <=>
           StartIsLast(b) \/ (StartIsLast(a) /\ None({"connected"}, b))
<1> DEFINE c == a \o b
           n == Len(a)
           X(q) == PlacesOf({"start"}, q)
           Y(q) == PlacesOf({"connected"}, q)
           Later(q) == \E k \in X(q) : \A i \in Y(q) : i < k
<1>1. n \in Nat /\ Len(b) \in Nat
  BY LenProperties
<1>2. /\ X(a) \subseteq 1 .. n /\ X(b) \subseteq 1 .. Len(b)
      /\ \A i \in X(a) : i \in X(c)
      /\ \A i \in X(b) : n + i \in X(c)
      /\ \A k \in X(c) : k \in X(a) \/ \E i \in X(b) : k = n + i
  BY PlacesJoined
<1>3. /\ Y(a) \subseteq 1 .. n /\ Y(b) \subseteq 1 .. Len(b)
      /\ \A i \in Y(a) : i \in Y(c)
      /\ \A i \in Y(b) : n + i \in Y(c)
      /\ \A k \in Y(c) : k \in Y(a) \/ \E i \in Y(b) : k = n + i
  BY PlacesJoined
<1> HIDE DEF c, n, X, Y
<1>4. ASSUME Later(c) PROVE Later(b) \/ (Later(a) /\ Y(b) = {})
  <2>1. PICK k \in X(c) : \A i \in Y(c) : i < k
    BY <1>4
  <2>2. CASE k \in X(a)
    <3>1. ASSUME NEW i \in Y(b) PROVE FALSE
      <4>1. n + i < k
        BY <1>3, <2>1
      <4> QED BY <1>1, <1>2, <1>3, <2>2, <4>1
    <3> QED BY <1>3, <2>1, <2>2, <3>1
  <2>3. ASSUME NEW j \in X(b), k = n + j PROVE Later(b)
    <3>1. ASSUME NEW i \in Y(b) PROVE i < j
      <4>1. n + i < n + j
        BY <1>3, <2>1, <2>3
      <4> QED BY <1>1, <1>2, <1>3, <4>1
    <3> QED BY <3>1
  <2> QED BY <1>2, <2>2, <2>3
<1>5. ASSUME Later(b) PROVE Later(c)
  <2>1. PICK j \in X(b) : \A i \in Y(b) : i < j
    BY <1>5
  <2>2. ASSUME NEW i \in Y(c) PROVE i < n + j
    BY <1>1, <1>2, <1>3, <2>1
  <2> QED BY <1>2, <2>2
<1>6. ASSUME Later(a), Y(b) = {} PROVE Later(c)
  BY <1>2, <1>3, <1>6
<1> QED BY <1>4, <1>5, <1>6 DEF StartIsLast, None, c, X, Y

(* A queue of one message. *)
LEMMA OneMessage ==
  ASSUME NEW m \in Message, NEW kinds, NEW s
  PROVE  LET q == <<m>>
         IN  /\ q \in Seq(Message)
             /\ None(kinds, q) <=> m.what \notin kinds
             /\ NoneFor(kinds, s, q) <=> ~(m.what \in kinds /\ m.to = s)
             /\ DestroysFirst(q)
             /\ "destroy" \notin kinds =>
                  (Asks(kinds, s, q) <=> m.what \in kinds /\ m.to = s)
             /\ ~StartedFirst(s, q)
             /\ StartIsLast(q) <=> m.what = "start"
<1> DEFINE q == <<m>>
<1>1. q \in Seq(Message) /\ DOMAIN q = 1 .. 1 /\ q[1] = m
  OBVIOUS
<1> HIDE DEF q
<1>2. \A K : PlacesOf(K, q) = IF m.what \in K THEN {1} ELSE {}
  <2> TAKE K
  <2>1. \A i \in 1 .. 1 : i = 1
    OBVIOUS
  <2> QED BY <1>1, <2>1 DEF PlacesOf
<1>3. \A K : PlacesFor(K, s, q) = IF m.what \in K /\ m.to = s THEN {1} ELSE {}
  BY <1>1, <1>2 DEF PlacesFor
<1>4. None(kinds, q) <=> m.what \notin kinds
  BY <1>2 DEF None
<1>5. NoneFor(kinds, s, q) <=> ~(m.what \in kinds /\ m.to = s)
  BY <1>3 DEF NoneFor
<1>6. ASSUME NEW i \in PlacesOf({"destroy"}, q), NEW j \in PlacesOf(Connections, q) PROVE FALSE
  BY <1>2, <1>6 DEF Connections
<1>7. ASSUME "destroy" \notin kinds PROVE Asks(kinds, s, q) <=> m.what \in kinds /\ m.to = s
  <2>1. CASE m.what \in kinds
    <3>1. m.what \notin {"destroy"}
      BY <1>7, <2>1
    <3>2. PlacesFor({"destroy"}, s, q) = {}
      BY <1>3, <3>1
    <3> QED BY <1>3, <2>1, <3>2 DEF Asks, AskedAfter
  <2>2. CASE m.what \notin kinds
    BY <1>3, <2>2 DEF Asks, AskedAfter
  <2> QED BY <2>1, <2>2
<1>8. ~StartedFirst(s, q)
  <2> SUFFICES ASSUME NEW k \in PlacesFor({"start"}, s, q), NEW j \in PlacesOf({"connected"}, q)
               PROVE  FALSE
    BY DEF StartedFirst, AskedAfter
  <2>1. m.what \in {"start"} /\ m.what \in {"connected"}
    BY <1>2, <1>3
  <2> QED BY <2>1
<1>9. StartIsLast(q) <=> m.what = "start"
  <2>1. CASE m.what = "start"
    <3>1. m.what \in {"start"} /\ m.what \notin {"connected"}
      BY <2>1
    <3>2. PlacesOf({"start"}, q) = {1} /\ PlacesOf({"connected"}, q) = {}
      BY <1>2, <3>1
    <3> QED BY <2>1, <3>2 DEF StartIsLast
  <2>2. CASE m.what # "start"
    <3>1. m.what \notin {"start"}
      BY <2>2
    <3>2. PlacesOf({"start"}, q) = {}
      BY <1>2, <3>1
    <3> QED BY <2>2, <3>2 DEF StartIsLast
  <2> QED BY <2>1, <2>2
<1> QED BY <1>1, <1>4, <1>5, <1>6, <1>7, <1>8, <1>9 DEF DestroysFirst, q

(* A queue is its head and its rest. *)
LEMMA HeadJoined ==
  ASSUME NEW q \in Seq(Message), q # << >>
  PROVE  /\ Head(q) \in Message /\ Tail(q) \in Seq(Message) /\ <<Head(q)>> \in Seq(Message)
         /\ q = <<Head(q)>> \o Tail(q)
<1>1. Head(q) \in Message /\ Tail(q) \in Seq(Message)
  BY HeadTailProperties
<1>2. q = <<Head(q)>> \o Tail(q)
  BY <1>1, HeadTailProperties, ConcatProperties
<1> QED BY <1>1, <1>2

(* The messages that one handler sends. *)
LEMMA NewMessages ==
  ASSUME NEW what \in Kinds, NEW S, NEW kinds, NEW s \in Services
  PROVE  LET b == Messages(what, S)
         IN  /\ b \in Seq(Message)
             /\ what \notin kinds => None(kinds, b) /\ NoneFor(kinds, s, b) /\ ~Asks(kinds, s, b)
             /\ S = {} => None(kinds, b)
             /\ what \in kinds /\ s \in S => ~None(kinds, b) /\ ~NoneFor(kinds, s, b)
             /\ s \notin S => NoneFor(kinds, s, b)
             /\ what # "destroy" /\ what \in kinds /\ s \in S => Asks(kinds, s, b)
             /\ DestroysFirst(b) /\ ~StartedFirst(s, b)
<1> DEFINE b == Messages(what, S)
<1>1. /\ b \in Seq(Message)
      /\ \A i \in 1 .. Len(b) : b[i].what = what /\ b[i].to \in S
      /\ \A t \in S \cap Services : \E i \in 1 .. Len(b) : b[i].to = t
  BY MessagesAre
<1>2. DOMAIN b = 1 .. Len(b)
  BY <1>1, LenProperties
<1> HIDE DEF b
<1>3. \A K : what \notin K => PlacesOf(K, b) = {} /\ PlacesFor(K, s, b) = {}
  BY <1>1, <1>2 DEF PlacesOf, PlacesFor
<1>4. what \notin kinds => None(kinds, b) /\ NoneFor(kinds, s, b) /\ ~Asks(kinds, s, b)
  BY <1>3 DEF None, NoneFor, Asks, AskedAfter
<1>5. S = {} => None(kinds, b)
  BY <1>1, <1>2 DEF None, PlacesOf
<1>6. what \in kinds /\ s \in S => ~None(kinds, b) /\ ~NoneFor(kinds, s, b)
  BY <1>1, <1>2 DEF None, NoneFor, PlacesOf, PlacesFor
<1>7. s \notin S => NoneFor(kinds, s, b)
  BY <1>1, <1>2 DEF NoneFor, PlacesOf, PlacesFor
<1>8. ASSUME what # "destroy", what \in kinds, s \in S PROVE Asks(kinds, s, b)
  <2>1. PlacesFor({"destroy"}, s, b) = {}
    BY <1>3, <1>8
  <2> QED BY <1>6, <1>8, <2>1 DEF Asks, AskedAfter, NoneFor
<1>9. DestroysFirst(b)
  <2>1. what \notin {"destroy"} \/ what \notin Connections
    BY DEF Connections
  <2> QED BY <1>3, <2>1 DEF DestroysFirst
<1>10. ~StartedFirst(s, b)
  <2>1. what \notin {"start"} \/ what \notin {"connected"}
    OBVIOUS
  <2> QED BY <1>3, <2>1 DEF StartedFirst, AskedAfter
<1> QED BY <1>1, <1>4, <1>5, <1>6, <1>7, <1>8, <1>9, <1>10 DEF b

-----------------------------------------------------------------------------
(* The invariant that SwitchIsRight needs.  Its parts, with the state they *)
(* look at as parameters.                                                  *)

Back(st, q) ==
  \A s \in Services : st[s] /\ ~NoneFor({"destroy"}, s, q) => Asks({"start", "stop"}, s, q)
Joins(resumed, rf, q) ==
  IF resumed
  THEN /\ DestroysFirst(q)
       /\ \A s \in Services : ~NoneFor(Connections, s, q) \/ (rf[s] /\ None({"destroy"}, q))
  ELSE None(Connections, q)
Open(men, q) == ~None(Connections, q) \/ ~men
Meant(follows, men, q) ==
  follows => None({"revoke"}, q) /\ (Open(men, q) => None({"stop"}, q))
Doomed(follows, q) ==
  follows => \A s \in Services :
    NoneFor({"destroy"}, s, q) \/ ~None({"bind"}, q) \/ StartedFirst(s, q)
LastsIn(s, run, q) == (s \in run /\ NoneFor({"destroy"}, s, q)) \/ StartedFirst(s, q)
Late(follows, men, prf, run, q) ==
  follows /\ Open(men, q) /\ None({"bind"}, q) /\ StartIsLast(q)
    => prf # {} /\ \E s \in Services : LastsIn(s, run, q)
Fits(follows, men, prf, sh, run, q) ==
  follows /\ ~Open(men, q) =>
    IF sh THEN None({"stop"}, q) /\ (run # {} \/ ~None({"start"}, q))
    ELSE None({"start"}, q) /\ (prf # {} => \A s \in run : ~NoneFor({"stop"}, s, q))

Resumed == activity = "resumed"
Agreed == Followed /\ ~asking
Parts ==
  /\ Back(started, queue) /\ Joins(Resumed, ref, queue)
  /\ Meant(Followed, menu, queue) /\ Doomed(Followed, queue)
  /\ Late(Agreed, menu, prefs, Running, queue) /\ Fits(Agreed, menu, prefs, shown, Running, queue)
PartsNext ==
  /\ Back(started', queue') /\ Joins(Resumed', ref', queue')
  /\ Meant(Followed', menu', queue') /\ Doomed(Followed', queue')
  /\ Late(Agreed', menu', prefs', Running', queue')
  /\ Fits(Agreed', menu', prefs', shown', Running', queue')

LEMMA PartsAre ==
  /\ SwitchInv <=> TypeOK /\ Parts
  /\ SwitchInv' <=> TypeOK' /\ PartsNext
<1> USE DEF None, NoneFor, Asks, Pending, Resumed
<1>1. /\ ComesBack <=> Back(started, queue)
      /\ ComesBack' <=> Back(started', queue')
  BY DEF ComesBack, Back
<1>2. /\ Connects <=> Joins(Resumed, ref, queue)
      /\ Connects' <=> Joins(Resumed', ref', queue')
  BY DEF Connects, Joins, DestroysFirst
<1>3. /\ StopsAreMeant <=> Meant(Followed, menu, queue)
      /\ StopsAreMeant' <=> Meant(Followed', menu', queue')
  BY DEF StopsAreMeant, Meant, Connecting, Open
<1>4. /\ DestroyedComesBack <=> Doomed(Followed, queue)
      /\ DestroyedComesBack' <=> Doomed(Followed', queue')
  BY DEF DestroyedComesBack, Doomed
<1>5. /\ LateStartsFit <=> Late(Agreed, menu, prefs, Running, queue)
      /\ LateStartsFit' <=> Late(Agreed', menu', prefs', Running', queue')
  BY DEF LateStartsFit, Late, Agreed, Connecting, Open, Lasts, LastsIn, StartsLate, StartIsLast
<1>6. /\ SwitchFits <=> Fits(Agreed, menu, prefs, shown, Running, queue)
      /\ SwitchFits' <=> Fits(Agreed', menu', prefs', shown', Running', queue')
  BY DEF SwitchFits, Fits, Agreed, Connecting, Open
<1> QED BY <1>1, <1>2, <1>3, <1>4, <1>5, <1>6 DEF SwitchInv, Parts, PartsNext

(* The head of a queue and its rest. *)
LEMMA HeadFacts ==
  ASSUME NEW h \in Message, NEW m \in Seq(Message)
  PROVE  LET q == <<h>> \o m
         IN  /\ \A kinds : None(kinds, q) <=> h.what \notin kinds /\ None(kinds, m)
             /\ \A kinds, s : NoneFor(kinds, s, q) <=>
                                ~(h.what \in kinds /\ h.to = s) /\ NoneFor(kinds, s, m)
             /\ DestroysFirst(q) <=>
                  DestroysFirst(m) /\ (h.what \notin Connections \/ None({"destroy"}, m))
             /\ \A kinds, s : "destroy" \notin kinds =>
                  (Asks(kinds, s, q) <=>
                     Asks(kinds, s, m) \/
                       (h.what \in kinds /\ h.to = s /\ NoneFor({"destroy"}, s, m)))
             /\ \A s : StartedFirst(s, q) <=>
                  StartedFirst(s, m) \/
                    (/\ NoneFor({"destroy"}, s, m) /\ ~None({"connected"}, m)
                     /\ h.what = "start" /\ h.to = s)
             /\ StartIsLast(q) <=> StartIsLast(m) \/ (h.what = "start" /\ None({"connected"}, m))
<1> DEFINE o == <<h>>
           q == o \o m
<1>1. /\ o \in Seq(Message) /\ DestroysFirst(o)
      /\ \A kinds : None(kinds, o) <=> h.what \notin kinds
      /\ \A kinds, s : NoneFor(kinds, s, o) <=> ~(h.what \in kinds /\ h.to = s)
      /\ \A kinds, s : "destroy" \notin kinds =>
           (Asks(kinds, s, o) <=> h.what \in kinds /\ h.to = s)
      /\ \A s : ~StartedFirst(s, o)
      /\ StartIsLast(o) <=> h.what = "start"
  BY OneMessage
<1> HIDE DEF o
<1>2. \A kinds : None(kinds, q) <=> h.what \notin kinds /\ None(kinds, m)
  BY <1>1, NoneJoined
<1>3. \A kinds, s : NoneFor(kinds, s, q) <=> ~(h.what \in kinds /\ h.to = s) /\ NoneFor(kinds, s, m)
  BY <1>1, NoneJoined
<1>4. DestroysFirst(q) <=> DestroysFirst(m) /\ (h.what \notin Connections \/ None({"destroy"}, m))
  BY <1>1, DestroysJoined
<1>5. ASSUME NEW kinds, NEW s, "destroy" \notin kinds
      PROVE  Asks(kinds, s, q) <=>
               Asks(kinds, s, m) \/ (h.what \in kinds /\ h.to = s /\ NoneFor({"destroy"}, s, m))
  BY <1>1, <1>5, AsksJoined
<1>6. ASSUME NEW s
      PROVE  StartedFirst(s, q) <=>
               StartedFirst(s, m) \/
                 (/\ NoneFor({"destroy"}, s, m) /\ ~None({"connected"}, m)
                  /\ h.what = "start" /\ h.to = s)
  <2>1. Asks({"start"}, s, o) <=> h.what = "start" /\ h.to = s
    BY <1>1
  <2> QED BY <1>1, <2>1, FirstJoined
<1>7. StartIsLast(q) <=> StartIsLast(m) \/ (h.what = "start" /\ None({"connected"}, m))
  BY <1>1, LastJoined
<1> QED BY <1>2, <1>3, <1>4, <1>5, <1>6, <1>7 DEF o

(* What remains of a queue q when its head h is handled: r.                *)
Handles(q, h, r) ==
  /\ None({"destroy"}, q) <=> h.what # "destroy" /\ None({"destroy"}, r)
  /\ None(Connections, q) <=> h.what \notin Connections /\ None(Connections, r)
  /\ None({"stop"}, q) <=> h.what # "stop" /\ None({"stop"}, r)
  /\ None({"start"}, q) <=> h.what # "start" /\ None({"start"}, r)
  /\ None({"bind"}, q) <=> h.what # "bind" /\ None({"bind"}, r)
  /\ None({"connected"}, q) <=> h.what # "connected" /\ None({"connected"}, r)
  /\ None({"revoke"}, q) <=> h.what # "revoke" /\ None({"revoke"}, r)
  /\ \A s : NoneFor({"destroy"}, s, q) <=>
              ~(h.what = "destroy" /\ h.to = s) /\ NoneFor({"destroy"}, s, r)
  /\ \A s : NoneFor(Connections, s, q) <=>
              ~(h.what \in Connections /\ h.to = s) /\ NoneFor(Connections, s, r)
  /\ \A s : NoneFor({"stop"}, s, q) <=>
              ~(h.what = "stop" /\ h.to = s) /\ NoneFor({"stop"}, s, r)
  /\ DestroysFirst(q) <=> DestroysFirst(r) /\ (h.what \notin Connections \/ None({"destroy"}, r))
  /\ \A s : Asks({"start", "stop"}, s, q) <=>
              Asks({"start", "stop"}, s, r) \/
                (h.what \in {"start", "stop"} /\ h.to = s /\ NoneFor({"destroy"}, s, r))
  /\ \A s : Asks({"start"}, s, q) <=>
              Asks({"start"}, s, r) \/
                (h.what = "start" /\ h.to = s /\ NoneFor({"destroy"}, s, r))
  /\ \A s : StartedFirst(s, q) <=>
              StartedFirst(s, r) \/
                (/\ NoneFor({"destroy"}, s, r) /\ ~None({"connected"}, r)
                 /\ h.what = "start" /\ h.to = s)
  /\ StartIsLast(q) <=> StartIsLast(r) \/ (h.what = "start" /\ None({"connected"}, r))

LEMMA HandlesRest ==
  ASSUME NEW h \in Message, NEW m \in Seq(Message) PROVE Handles(<<h>> \o m, h, m)
<1> DEFINE q == <<h>> \o m
<1>1. /\ \A kinds : None(kinds, q) <=> h.what \notin kinds /\ None(kinds, m)
      /\ \A kinds, s : NoneFor(kinds, s, q) <=>
                         ~(h.what \in kinds /\ h.to = s) /\ NoneFor(kinds, s, m)
      /\ DestroysFirst(q) <=>
           DestroysFirst(m) /\ (h.what \notin Connections \/ None({"destroy"}, m))
      /\ \A kinds, s : "destroy" \notin kinds =>
           (Asks(kinds, s, q) <=>
              Asks(kinds, s, m) \/
                (h.what \in kinds /\ h.to = s /\ NoneFor({"destroy"}, s, m)))
      /\ \A s : StartedFirst(s, q) <=>
           StartedFirst(s, m) \/
             (/\ NoneFor({"destroy"}, s, m) /\ ~None({"connected"}, m)
              /\ h.what = "start" /\ h.to = s)
      /\ StartIsLast(q) <=> StartIsLast(m) \/ (h.what = "start" /\ None({"connected"}, m))
  BY HeadFacts
<1> HIDE DEF q
<1>2. \A k : None({k}, q) <=> h.what # k /\ None({k}, m)
  BY <1>1
<1>3. \A k, s : NoneFor({k}, s, q) <=> ~(h.what = k /\ h.to = s) /\ NoneFor({k}, s, m)
  BY <1>1
<1>4. \A s : Asks({"start"}, s, q) <=>
               Asks({"start"}, s, m) \/
                 (h.what = "start" /\ h.to = s /\ NoneFor({"destroy"}, s, m))
  <2>1. "destroy" \notin {"start"}
    OBVIOUS
  <2>2. h.what \in {"start"} <=> h.what = "start"
    OBVIOUS
  <2> QED BY <1>1, <2>1, <2>2
<1>5. \A s : Asks({"start", "stop"}, s, q) <=>
               Asks({"start", "stop"}, s, m) \/
                 (h.what \in {"start", "stop"} /\ h.to = s /\ NoneFor({"destroy"}, s, m))
  <2>1. "destroy" \notin {"start", "stop"}
    OBVIOUS
  <2> QED BY <1>1, <2>1
<1>6. None(Connections, q) <=> h.what \notin Connections /\ None(Connections, m)
  BY <1>1
<1>7. \A s : NoneFor(Connections, s, q) <=>
               ~(h.what \in Connections /\ h.to = s) /\ NoneFor(Connections, s, m)
  BY <1>1
<1> QED BY <1>1, <1>2, <1>3, <1>4, <1>5, <1>6, <1>7 DEF Handles, q

(* The start of the tunnel leaves a message, which nothing above is about. *)
LEMMA HandlesServe ==
  ASSUME NEW h \in Message, NEW m \in Seq(Message), NEW e \in Message, e.what = "serve"
  PROVE  Handles(<<h>> \o m, h, <<e>> \o m)
<1>1. Handles(<<e>> \o m, e, m) /\ Handles(<<h>> \o m, h, m)
  BY HandlesRest
<1> DEFINE r == <<e>> \o m
           q == <<h>> \o m
<1>2. /\ Handles(r, e, m) /\ Handles(q, h, m) /\ "serve" \notin Connections
  BY <1>1 DEF Connections
<1> HIDE DEF r, q
<1>3. /\ None({"destroy"}, r) <=> None({"destroy"}, m)
      /\ None(Connections, r) <=> None(Connections, m)
      /\ None({"stop"}, r) <=> None({"stop"}, m)
      /\ None({"start"}, r) <=> None({"start"}, m)
      /\ None({"bind"}, r) <=> None({"bind"}, m)
      /\ None({"connected"}, r) <=> None({"connected"}, m)
      /\ None({"revoke"}, r) <=> None({"revoke"}, m)
      /\ DestroysFirst(r) <=> DestroysFirst(m)
      /\ StartIsLast(r) <=> StartIsLast(m)
  BY <1>2 DEF Handles
<1>4. \A s : /\ NoneFor({"destroy"}, s, r) <=> NoneFor({"destroy"}, s, m)
             /\ NoneFor(Connections, s, r) <=> NoneFor(Connections, s, m)
             /\ NoneFor({"stop"}, s, r) <=> NoneFor({"stop"}, s, m)
             /\ Asks({"start"}, s, r) <=> Asks({"start"}, s, m)
             /\ Asks({"start", "stop"}, s, r) <=> Asks({"start", "stop"}, s, m)
             /\ StartedFirst(s, r) <=> StartedFirst(s, m)
  BY <1>2 DEF Handles
<1>5. Handles(q, h, r)
  BY <1>2, <1>3, <1>4 DEF Handles
<1> QED BY <1>5 DEF q, r

(* What a queue q is when b is appended to it: r. *)
Appends(q, b, r) ==
  /\ None({"destroy"}, r) <=> None({"destroy"}, q) /\ None({"destroy"}, b)
  /\ None(Connections, r) <=> None(Connections, q) /\ None(Connections, b)
  /\ None({"stop"}, r) <=> None({"stop"}, q) /\ None({"stop"}, b)
  /\ None({"start"}, r) <=> None({"start"}, q) /\ None({"start"}, b)
  /\ None({"bind"}, r) <=> None({"bind"}, q) /\ None({"bind"}, b)
  /\ None({"connected"}, r) <=> None({"connected"}, q) /\ None({"connected"}, b)
  /\ None({"revoke"}, r) <=> None({"revoke"}, q) /\ None({"revoke"}, b)
  /\ \A s : NoneFor({"destroy"}, s, r) <=> NoneFor({"destroy"}, s, q) /\ NoneFor({"destroy"}, s, b)
  /\ \A s : NoneFor(Connections, s, r) <=> NoneFor(Connections, s, q) /\ NoneFor(Connections, s, b)
  /\ \A s : NoneFor({"stop"}, s, r) <=> NoneFor({"stop"}, s, q) /\ NoneFor({"stop"}, s, b)
  /\ DestroysFirst(r) <=>
       /\ DestroysFirst(q) /\ DestroysFirst(b)
       /\ None(Connections, q) \/ None({"destroy"}, b)
  /\ \A s : Asks({"start", "stop"}, s, r) <=>
              \/ Asks({"start", "stop"}, s, b)
              \/ Asks({"start", "stop"}, s, q) /\ NoneFor({"destroy"}, s, b)
  /\ \A s : Asks({"start"}, s, r) <=>
              \/ Asks({"start"}, s, b)
              \/ Asks({"start"}, s, q) /\ NoneFor({"destroy"}, s, b)
  /\ \A s : StartedFirst(s, r) <=>
              \/ StartedFirst(s, b)
              \/ /\ NoneFor({"destroy"}, s, b)
                 /\ StartedFirst(s, q) \/ (Asks({"start"}, s, q) /\ ~None({"connected"}, b))
  /\ StartIsLast(r) <=> StartIsLast(b) \/ (StartIsLast(q) /\ None({"connected"}, b))

LEMMA AppendsJoined ==
  ASSUME NEW q \in Seq(Message), NEW b \in Seq(Message) PROVE Appends(q, b, q \o b)
<1> DEFINE r == q \o b
<1>1. \A kinds : None(kinds, r) <=> None(kinds, q) /\ None(kinds, b)
  BY NoneJoined
<1>2. \A kinds, s : NoneFor(kinds, s, r) <=> NoneFor(kinds, s, q) /\ NoneFor(kinds, s, b)
  BY NoneJoined
<1>3. DestroysFirst(r) <=>
        /\ DestroysFirst(q) /\ DestroysFirst(b)
        /\ None(Connections, q) \/ None({"destroy"}, b)
  BY DestroysJoined
<1>4. \A kinds, s : Asks(kinds, s, r) <=>
        Asks(kinds, s, b) \/ (Asks(kinds, s, q) /\ NoneFor({"destroy"}, s, b))
  BY AsksJoined
<1>5. \A s : StartedFirst(s, r) <=>
              \/ StartedFirst(s, b)
              \/ /\ NoneFor({"destroy"}, s, b)
                 /\ StartedFirst(s, q) \/ (Asks({"start"}, s, q) /\ ~None({"connected"}, b))
  BY FirstJoined
<1>6. StartIsLast(r) <=> StartIsLast(b) \/ (StartIsLast(q) /\ None({"connected"}, b))
  BY LastJoined
<1> HIDE DEF r
<1>7. Appends(q, b, r)
  BY <1>1, <1>2, <1>3, <1>4, <1>5, <1>6 DEF Appends
<1> QED BY <1>7 DEF r

(* A message is handled that connects nothing: what it does to the service *)
(* it is for.                                                              *)
Effect(h) ==
  /\ h.what = "start" => Running \subseteq Running' /\ Running' \subseteq Running \cup {h.to}
  /\ h.what = "start" => h.to \in Running' \/ disturbed'
  /\ h.what = "serve" => Running' = Running
  /\ h.what \in {"stop", "destroy"} => Running' = Running \ {h.to}
  /\ h.what # "destroy" => ref' = ref
  /\ h.what = "destroy" => \A s \in Services : ref'[s] => ref[s]

LEMMA HandledKeeps ==
  ASSUME Parts, NEW h \in Message, Handles(queue, h, queue'), Effect(h),
         h.what \in {"start", "serve", "stop", "destroy"},
         UNCHANGED <<prefs, screen, started>>, disturbed => disturbed'
  PROVE  PartsNext
<1> DEFINE q == queue
           r == queue'
<1>1. /\ menu' = menu /\ prefs' = prefs /\ shown' = shown /\ started' = started
      /\ Resumed' = Resumed
      /\ Followed' => Followed /\ Resumed /\ ~disturbed'
      /\ Agreed' => Agreed /\ Followed' /\ Followed
      /\ (Agreed => Followed) /\ (Followed => Resumed)
  BY DEF screen, Resumed, Followed, Agreed
<1>2. Running \subseteq Services /\ Running' \subseteq Services
  BY DEF Running
<1>3. /\ h.what \notin Connections /\ h.what # "bind" /\ h.what # "connected" /\ h.what # "revoke"
  BY DEF Connections
<1>4. Open(menu, r) <=> Open(menu, q)
  BY <1>3 DEF Open, Handles
<1>5. Back(started, r)
  <2>1. Back(started, q)
    BY DEF Parts
  <2> QED BY <2>1 DEF Back, Handles
<1>6. Joins(Resumed, ref', r)
  <2>1. Joins(Resumed, ref, q)
    BY DEF Parts
  <2>2. CASE ~Resumed
    BY <1>3, <2>1, <2>2 DEF Joins, Handles
  <2>3. CASE Resumed
    <3>1. DestroysFirst(r)
      BY <2>1, <2>3 DEF Joins, Handles
    <3>2. ASSUME NEW s \in Services
          PROVE  ~NoneFor(Connections, s, r) \/ (ref'[s] /\ None({"destroy"}, r))
      <4>1. ~NoneFor(Connections, s, q) \/ (ref[s] /\ None({"destroy"}, q))
        BY <2>1, <2>3 DEF Joins
      <4>2. CASE ~NoneFor(Connections, s, q)
        BY <1>3, <4>2 DEF Handles
      <4>3. CASE ref[s] /\ None({"destroy"}, q)
        <5>1. h.what # "destroy" /\ None({"destroy"}, r)
          BY <4>3 DEF Handles
        <5> QED BY <4>3, <5>1 DEF Effect
      <4> QED BY <4>1, <4>2, <4>3
    <3> QED BY <2>3, <3>1, <3>2 DEF Joins
  <2> QED BY <2>2, <2>3
<1>7. Meant(Followed', menu, r)
  <2>1. Meant(Followed, menu, q)
    BY DEF Parts
  <2> QED BY <1>1, <1>4, <2>1 DEF Meant, Handles
<1>8. Doomed(Followed', r)
  <2>1. Doomed(Followed, q)
    BY DEF Parts
  <2> SUFFICES ASSUME Followed', NEW s \in Services
               PROVE  NoneFor({"destroy"}, s, r) \/ ~None({"bind"}, r) \/ StartedFirst(s, r)
    BY DEF Doomed
  <2>2. NoneFor({"destroy"}, s, q) \/ ~None({"bind"}, q) \/ StartedFirst(s, q)
    BY <1>1, <2>1 DEF Doomed
  <2> QED BY <1>3, <2>2 DEF Handles
<1>9. Late(Agreed', menu, prefs, Running', r)
  <2> SUFFICES ASSUME Agreed', Open(menu, r), None({"bind"}, r), StartIsLast(r)
               PROVE  prefs # {} /\ \E s \in Services : LastsIn(s, Running', r)
    BY DEF Late
  <2>1. None({"bind"}, q) /\ StartIsLast(q)
    BY <1>3 DEF Handles
  <2>2. prefs # {} /\ \E s \in Services : LastsIn(s, Running, q)
    BY <1>1, <1>4, <2>1 DEF Parts, Late
  <2>3. h.what # "stop"
    <3>1. None({"stop"}, q)
      BY <1>1, <1>4, <2>2 DEF Parts, Meant
    <3> QED BY <3>1 DEF Handles
  <2>4. PICK s \in Services : LastsIn(s, Running, q)
    BY <2>2
  <2>5. CASE s \in Running /\ NoneFor({"destroy"}, s, q)
    <3>1. ~(h.what = "destroy" /\ h.to = s) /\ NoneFor({"destroy"}, s, r)
      BY <2>5 DEF Handles
    <3>2. s \in Running'
      BY <2>3, <2>5, <3>1 DEF Effect
    <3> QED BY <2>2, <3>1, <3>2 DEF LastsIn
  <2>6. CASE StartedFirst(s, q)
    <3>1. CASE StartedFirst(s, r)
      BY <2>2, <3>1 DEF LastsIn
    <3>2. CASE NoneFor({"destroy"}, s, r) /\ h.what = "start" /\ h.to = s
      <4>1. s \in Running'
        BY <1>1, <3>2 DEF Effect
      <4> QED BY <2>2, <3>2, <4>1 DEF LastsIn
    <3> QED BY <2>6, <3>1, <3>2 DEF Handles
  <2> QED BY <2>4, <2>5, <2>6 DEF LastsIn
<1>10. Fits(Agreed', menu, prefs, shown, Running', r)
  <2> SUFFICES ASSUME Agreed', ~Open(menu, r)
               PROVE  IF shown THEN None({"stop"}, r) /\ (Running' # {} \/ ~None({"start"}, r))
                      ELSE /\ None({"start"}, r)
                           /\ prefs # {} => \A s \in Running' : ~NoneFor({"stop"}, s, r)
    BY DEF Fits
  <2>1. IF shown THEN None({"stop"}, q) /\ (Running # {} \/ ~None({"start"}, q))
        ELSE None({"start"}, q) /\ (prefs # {} => \A s \in Running : ~NoneFor({"stop"}, s, q))
    BY <1>1, <1>4 DEF Parts, Fits
  <2>2. None({"destroy"}, q)
    <3>1. None(Connections, q)
      BY <1>4 DEF Open
    <3>2. \A s : NoneFor(Connections, s, q)
      BY <3>1 DEF None, NoneFor, PlacesFor
    <3>3. Joins(Resumed, ref, q) /\ "vpn" \in Services
      BY DEF Parts, Services
    <3> QED BY <1>1, <3>2, <3>3 DEF Joins
  <2>3. h.what # "destroy"
    BY <2>2 DEF Handles
  <2>4. CASE shown
    <3>1. h.what # "stop" /\ None({"stop"}, r)
      BY <2>1, <2>4 DEF Handles
    <3>2. Running' # {} \/ ~None({"start"}, r)
      <4>1. CASE h.what = "start"
        BY <1>1, <4>1 DEF Effect
      <4>2. CASE h.what = "serve"
        BY <2>1, <2>4, <4>2 DEF Effect, Handles
      <4> QED BY <2>3, <3>1, <4>1, <4>2
    <3> QED BY <2>4, <3>1, <3>2
  <2>5. CASE ~shown
    <3>1. h.what # "start" /\ None({"start"}, r)
      BY <2>1, <2>5 DEF Handles
    <3>2. ASSUME prefs # {}, NEW s \in Running' PROVE ~NoneFor({"stop"}, s, r)
      <4>1. s \in Running /\ ~(h.what = "stop" /\ h.to = s)
        BY <2>3, <3>1 DEF Effect
      <4>2. ~NoneFor({"stop"}, s, q)
        BY <2>1, <2>5, <3>2, <4>1
      <4> QED BY <4>1, <4>2 DEF Handles
    <3> QED BY <2>5, <3>1, <3>2
  <2> QED BY <2>4, <2>5
<1> QED BY <1>1, <1>5, <1>6, <1>7, <1>8, <1>9, <1>10 DEF PartsNext

LEMMA HeadHandled ==
  ASSUME TypeOK, NEW what, NEW to, Gets(what, to)
  PROVE  \E h \in Message :
           /\ h.what = what /\ h.to = to
           /\ Handles(queue, h, Tail(queue))
           /\ Handles(queue, h, <<[what |-> "serve", to |-> "vpn"]>> \o Tail(queue))
<1> DEFINE h == Head(queue)
           e == [what |-> "serve", to |-> "vpn"]
<1>1. queue # << >> /\ h = [what |-> what, to |-> to] /\ queue \in Seq(Message)
  BY DEF Gets, TypeOK
<1>2. /\ h \in Message /\ Tail(queue) \in Seq(Message) /\ queue = <<h>> \o Tail(queue)
  BY <1>1, HeadJoined
<1>3. h.what = what /\ h.to = to
  BY <1>1
<1>4. e \in Message /\ e.what = "serve"
  BY DEF Message, Kinds, Services
<1> HIDE DEF h, e
<1>5. Handles(queue, h, Tail(queue))
  BY <1>2, HandlesRest
<1>6. Handles(queue, h, <<e>> \o Tail(queue))
  BY <1>2, <1>4, HandlesServe
<1> QED BY <1>2, <1>3, <1>5, <1>6 DEF e

LEMMA RunningIs ==
  /\ \A s : s \in Running <=> (s = "vpn" /\ open) \/ (s = "shell" /\ shellProcess # NULL)
  /\ \A s : s \in Running' <=> (s = "vpn" /\ open') \/ (s = "shell" /\ shellProcess' # NULL)
  BY DEF Running, Services

(* A service handles a message. *)
LEMMA TunnelHandles ==
  ASSUME TypeOK, Parts,
         StartTunnel \/ ServeTunnel \/ StopTunnel \/ (DestroyTunnel /\ ~open)
  PROVE  PartsNext
<1> USE DEF OthersUnchanged, Done
<1>1. CASE StartTunnel
  <2>1. PICK h \in Message :
          /\ h.what = "start" /\ h.to = "vpn" /\ Handles(queue, h, Tail(queue))
          /\ Handles(queue, h, <<[what |-> "serve", to |-> "vpn"]>> \o Tail(queue))
    BY <1>1, HeadHandled DEF StartTunnel
  <2>2. Handles(queue, h, queue')
    BY <1>1, <2>1 DEF StartTunnel
  <2>3. open' /\ shellProcess' = shellProcess /\ ref' = ref
    BY <1>1 DEF StartTunnel, TypeOK, T!Open, tunnel, shell
  <2>4. Effect(h)
    BY <2>1, <2>3, RunningIs DEF Effect
  <2> QED BY <1>1, <2>1, <2>2, <2>4, HandledKeeps DEF StartTunnel
<1>2. CASE ServeTunnel
  <2>1. PICK h \in Message : h.what = "serve" /\ h.to = "vpn" /\ Handles(queue, h, Tail(queue))
    BY <1>2, HeadHandled DEF ServeTunnel
  <2>2. open' = open /\ shellProcess' = shellProcess /\ ref' = ref
    BY <1>2 DEF ServeTunnel, T!Serve, tunnel, shell
  <2>3. Running' = Running
    BY <2>2 DEF Running
  <2>4. Effect(h)
    BY <2>1, <2>2, <2>3 DEF Effect
  <2> QED BY <1>2, <2>1, <2>4, HandledKeeps DEF ServeTunnel
<1>3. CASE StopTunnel
  <2>1. PICK h \in Message : h.what = "stop" /\ h.to = "vpn" /\ Handles(queue, h, Tail(queue))
    BY <1>3, HeadHandled DEF StopTunnel
  <2>2. ~open' /\ shellProcess' = shellProcess /\ ref' = ref
    BY <1>3 DEF StopTunnel, StopTunnelOr, T!Close, tunnel, shell, TypeOK
  <2>3. Running' = Running \ {"vpn"}
    BY <2>2, RunningIs
  <2>4. Effect(h)
    BY <2>1, <2>2, <2>3 DEF Effect
  <2> QED BY <1>3, <2>1, <2>4, HandledKeeps DEF StopTunnel
<1>4. CASE DestroyTunnel /\ ~open
  <2>1. PICK h \in Message : h.what = "destroy" /\ h.to = "vpn" /\ Handles(queue, h, Tail(queue))
    BY <1>4, HeadHandled DEF DestroyTunnel
  <2>2. /\ ~open' /\ shellProcess' = shellProcess /\ queue' = Tail(queue)
        /\ ref' = [ref EXCEPT !["vpn"] = FALSE]
    BY <1>4 DEF DestroyTunnel, T!Destroy, tunnel, shell, TypeOK
  <2>3. Running' = Running \ {"vpn"}
    BY <2>2, RunningIs
  <2>4. \A s \in Services : ref'[s] => ref[s]
    BY <2>2 DEF TypeOK
  <2>5. Effect(h)
    BY <2>1, <2>3, <2>4 DEF Effect
  <2> QED BY <1>4, <2>1, <2>2, <2>5, HandledKeeps DEF DestroyTunnel
<1> QED BY <1>1, <1>2, <1>3, <1>4

LEMMA ShellHandles ==
  ASSUME TypeOK, Parts, StartShell \/ StopShell \/ DestroyShell
  PROVE  PartsNext
<1> USE DEF OthersUnchanged, Done
<1>1. EndShell => shellProcess' = NULL
  BY DEF EndShell, shell
<1>2. CASE StartShell
  <2>1. PICK h \in Message : h.what = "start" /\ h.to = "shell" /\ Handles(queue, h, Tail(queue))
    BY <1>2, HeadHandled DEF StartShell
  <2>2. /\ open' = open /\ ref' = ref /\ (disturbed => disturbed')
        /\ shellProcess' # NULL \/ (disturbed' /\ shellProcess' = shellProcess)
    BY <1>2, NullIsNoProc DEF StartShell, tunnel, shell
  <2>3. Effect(h)
    BY <2>1, <2>2, RunningIs DEF Effect
  <2> QED BY <1>2, <2>1, <2>2, <2>3, HandledKeeps DEF StartShell
<1>3. CASE StopShell
  <2>1. PICK h \in Message : h.what = "stop" /\ h.to = "shell" /\ Handles(queue, h, Tail(queue))
    BY <1>3, HeadHandled DEF StopShell
  <2>2. open' = open /\ ref' = ref /\ shellProcess' = NULL
    BY <1>1, <1>3 DEF StopShell, tunnel
  <2>3. Running' = Running \ {"shell"}
    BY <2>2, RunningIs
  <2>4. Effect(h)
    BY <2>1, <2>2, <2>3 DEF Effect
  <2> QED BY <1>3, <2>1, <2>4, HandledKeeps DEF StopShell
<1>4. CASE DestroyShell
  <2>1. PICK h \in Message : h.what = "destroy" /\ h.to = "shell" /\ Handles(queue, h, Tail(queue))
    BY <1>4, HeadHandled DEF DestroyShell
  <2>2. /\ open' = open /\ shellProcess' = NULL /\ ref' = [ref EXCEPT !["shell"] = FALSE]
    BY <1>1, <1>4 DEF DestroyShell, tunnel
  <2>3. Running' = Running \ {"shell"}
    BY <2>2, RunningIs
  <2>4. \A s \in Services : ref'[s] => ref[s]
    BY <2>2 DEF TypeOK
  <2>5. Effect(h)
    BY <2>1, <2>3, <2>4 DEF Effect
  <2> QED BY <1>4, <2>1, <2>5, HandledKeeps DEF DestroyShell
<1> QED BY <1>2, <1>3, <1>4

(* What is kept of a queue is asked for as it was. *)
LEMMA AsksWithout ==
  ASSUME NEW kinds, NEW asked, NEW q \in Seq(Message), NEW s, kinds \cap asked = {}
  PROVE  LET w == Without(kinds, q)
         IN  /\ ~NoneFor({"destroy"}, s, w) => ~NoneFor({"destroy"}, s, q)
             /\ Asks(asked, s, q) => Asks(asked, s, w)
             /\ None(kinds, w)
<1> DEFINE w == Without(kinds, q)
<1>1. w \in Seq(Message) /\ \E h : Picks(w, h, kinds, q, Len(q))
  BY WithoutSelects
<1> HIDE DEF w
<1>2. PICK h : Picks(w, h, kinds, q, Len(q))
  BY <1>1
<1>3. /\ h \in [1 .. Len(w) -> 1 .. Len(q)]
      /\ \A i \in 1 .. Len(w) : w[i] = q[h[i]] /\ w[i].what \notin kinds
      /\ \A i, j \in 1 .. Len(w) : i < j => h[i] < h[j]
      /\ \A m \in 1 .. Len(q) : q[m].what \notin kinds => \E i \in 1 .. Len(w) : h[i] = m
  BY <1>2 DEF Picks
<1>4. DOMAIN w = 1 .. Len(w) /\ DOMAIN q = 1 .. Len(q) /\ Len(w) \in Nat /\ Len(q) \in Nat
  BY <1>1, LenProperties
<1>5. \A i \in PlacesFor({"destroy"}, s, w) : i \in 1 .. Len(w) /\ h[i] \in PlacesFor({"destroy"}, s, q)
  BY <1>3, <1>4 DEF PlacesFor, PlacesOf
<1>6. ASSUME NEW k \in AskedAfter(asked, s, q) PROVE AskedAfter(asked, s, w) # {}
  <2>1. /\ k \in 1 .. Len(q) /\ q[k].what \in asked /\ q[k].to = s
        /\ \A i \in PlacesFor({"destroy"}, s, q) : i < k
    BY <1>4 DEF AskedAfter, PlacesFor, PlacesOf
  <2>2. q[k].what \notin kinds
    BY <2>1
  <2>3. PICK j \in 1 .. Len(w) : h[j] = k
    BY <1>3, <2>1, <2>2
  <2>4. j \in PlacesFor(asked, s, w)
    BY <1>3, <1>4, <2>1, <2>3 DEF PlacesFor, PlacesOf
  <2>5. ASSUME NEW i \in PlacesFor({"destroy"}, s, w) PROVE i < j
    <3>1. i \in 1 .. Len(w) /\ h[i] < h[j]
      BY <1>5, <2>1, <2>3
    <3>2. h[i] \in 1 .. Len(q) /\ h[j] \in 1 .. Len(q)
      BY <1>3, <3>1
    <3>3. ~(j < i) /\ i # j
      <4>1. j < i => h[j] < h[i]
        BY <1>3, <3>1
      <4> QED BY <1>4, <3>1, <3>2, <4>1
    <3> QED BY <1>4, <3>1, <3>3
  <2> QED BY <2>4, <2>5 DEF AskedAfter
<1>7. None(kinds, w)
  BY <1>3, <1>4 DEF None, PlacesOf
<1> QED BY <1>5, <1>6, <1>7 DEF NoneFor, Asks, w

(* Nothing happens to the services that the invariant is about. *)
LEMMA QuietKeeps ==
  ASSUME Parts, UNCHANGED <<prefs, screen, ref, started, queue, disturbed>>, Running' = Running
  PROVE  PartsNext
<1>1. /\ menu' = menu /\ prefs' = prefs /\ shown' = shown /\ started' = started
      /\ ref' = ref /\ queue' = queue
      /\ Resumed' = Resumed /\ Followed' = Followed /\ Agreed' = Agreed
  BY DEF screen, Resumed, Followed, Agreed
<1> QED BY <1>1 DEF Parts, PartsNext

(* Messages come and go while the activity is not there to follow them.    *)
LEMMA UnfollowedKeeps ==
  ASSUME ~Followed', Back(started', queue'), Joins(Resumed', ref', queue')
  PROVE  PartsNext
<1>1. ~Agreed'
  BY DEF Agreed
<1> QED BY <1>1 DEF PartsNext, Meant, Doomed, Late, Fits

(* A service that is destroyed closes its tunnel first. *)
LEMMA CloseKeeps ==
  ASSUME TypeOK, Parts, DestroyTunnel, open PROVE PartsNext
<1>1. PICK h \in Message : h.what = "destroy" /\ h.to = "vpn" /\ Handles(queue, h, Tail(queue))
  BY HeadHandled DEF DestroyTunnel
<1>2. ~NoneFor({"destroy"}, "vpn", queue) /\ ~None({"destroy"}, queue)
  BY <1>1 DEF Handles
<1>3. /\ menu' = menu /\ prefs' = prefs /\ shown' = shown /\ started' = started
      /\ ref' = ref /\ queue' = queue
      /\ Resumed' = Resumed /\ Followed' = Followed /\ Agreed' = Agreed
      /\ Agreed => Resumed
  BY DEF DestroyTunnel, OthersUnchanged, screen, Resumed, Followed, Agreed
<1>4. \A s \in Running : s # "vpn" => s \in Running'
  BY RunningIs DEF DestroyTunnel, shell
<1>5. Late(Agreed, menu, prefs, Running', queue)
  <2> SUFFICES ASSUME Agreed, Open(menu, queue), None({"bind"}, queue), StartIsLast(queue)
               PROVE  prefs # {} /\ \E s \in Services : LastsIn(s, Running', queue)
    BY DEF Late
  <2>1. prefs # {} /\ \E s \in Services : LastsIn(s, Running, queue)
    BY DEF Parts, Late
  <2>2. PICK s \in Services : LastsIn(s, Running, queue)
    BY <2>1
  <2>3. LastsIn(s, Running', queue)
    BY <1>2, <1>4, <2>2 DEF LastsIn
  <2> QED BY <2>1, <2>3
<1>6. Fits(Agreed, menu, prefs, shown, Running', queue)
  <2> SUFFICES ASSUME Agreed, ~Open(menu, queue) PROVE FALSE
    BY DEF Fits
  <2>1. None(Connections, queue)
    BY DEF Open
  <2>2. NoneFor(Connections, "vpn", queue) /\ "vpn" \in Services
    BY <2>1 DEF None, NoneFor, PlacesFor, Services
  <2> QED BY <1>2, <1>3, <2>2 DEF Parts, Joins
<1> QED BY <1>3, <1>5, <1>6 DEF Parts, PartsNext

(* The user goes, comes back to the dialog, or the process dies. *)
LEMMA AwayKeeps ==
  ASSUME TypeOK, Parts, Launch \/ Prefer \/ Leave \/ Die \/ \E ok \in BOOLEAN : Answer(ok)
  PROVE  PartsNext
<1>1. Back(started, queue) /\ Joins(Resumed, ref, queue) /\ queue \in Seq(Message)
  BY DEF Parts, TypeOK
<1>2. CASE Launch \/ Prefer \/ Leave
  <2>1. ~Resumed /\ ~Resumed' /\ ~Followed' /\ started' = started /\ queue' = queue
    BY <1>2 DEF Launch, Prefer, Leave, Resumed, Followed, screen
  <2>2. Joins(Resumed', ref', queue')
    BY <1>1, <2>1 DEF Joins
  <2> QED BY <1>1, <2>1, <2>2, UnfollowedKeeps
<1>3. CASE Die
  <2>1. ~Resumed' /\ ~Followed' /\ queue' = << >>
    BY <1>3 DEF Die, Resumed, Followed
  <2>2. \A kinds, s : None(kinds, queue') /\ NoneFor(kinds, s, queue')
    BY <2>1 DEF None, NoneFor, PlacesFor, PlacesOf
  <2> QED BY <2>1, <2>2, UnfollowedKeeps DEF Back, Joins
<1>4. ASSUME NEW ok \in BOOLEAN, Answer(ok) PROVE PartsNext
  <2> DEFINE b == IF ok THEN Messages("start", {"vpn"}) ELSE << >>
  <2>1. /\ ~Resumed /\ ~Resumed' /\ ~Followed' /\ queue' = queue \o b
        /\ \A s \in Services : started'[s] => started[s] \/ (s = "vpn" /\ ok)
    BY <1>4 DEF Answer, Resumed, Followed, TypeOK
  <2>2. /\ b \in Seq(Message)
        /\ \A s \in Services : NoneFor({"destroy"}, s, b)
        /\ None(Connections, b)
        /\ ok => Asks({"start", "stop"}, "vpn", b)
    <3>1. CASE ok
      <4>1. "start" \in Kinds /\ "start" \notin {"destroy"} /\ "start" \notin Connections
        BY DEF Kinds, Connections
      <4>2. "vpn" \in Services
        BY DEF Services
      <4>3. b = Messages("start", {"vpn"})
        BY <3>1
      <4> HIDE DEF b
      <4>4. ASSUME NEW s \in Services
            PROVE  b \in Seq(Message) /\ None(Connections, b) /\ NoneFor({"destroy"}, s, b)
        <5>1. b \in Seq(Message) /\ None(Connections, b)
          BY <4>1, <4>3, NewMessages
        <5>2. NoneFor({"destroy"}, s, b)
          BY <4>1, <4>3, NewMessages
        <5> QED BY <5>1, <5>2
      <4>5. "start" # "destroy" /\ "start" \in {"start", "stop"} /\ "vpn" \in {"vpn"}
        OBVIOUS
      <4>6. Asks({"start", "stop"}, "vpn", b)
        BY <4>1, <4>2, <4>3, <4>5, NewMessages
      <4> QED BY <4>2, <4>4, <4>6
    <3>2. CASE ~ok
      BY <3>2 DEF None, NoneFor, PlacesFor, PlacesOf
    <3> QED BY <3>1, <3>2
  <2> HIDE DEF b
  <2>3. Appends(queue, b, queue')
    BY <1>1, <2>1, <2>2, AppendsJoined
  <2>4. Joins(Resumed', ref', queue')
    BY <1>1, <2>1, <2>2, <2>3 DEF Joins, Appends
  <2>5. ASSUME NEW s \in Services, started'[s], ~NoneFor({"destroy"}, s, queue')
        PROVE  Asks({"start", "stop"}, s, queue')
    <3>1. ~NoneFor({"destroy"}, s, queue)
      BY <2>2, <2>3, <2>5 DEF Appends
    <3>2. CASE started[s]
      <4>1. Asks({"start", "stop"}, s, queue)
        BY <1>1, <3>1, <3>2 DEF Back
      <4> QED BY <2>2, <2>3, <4>1 DEF Appends
    <3>3. CASE s = "vpn" /\ ok
      BY <2>2, <2>3, <3>3 DEF Appends
    <3> QED BY <2>1, <2>5, <3>2, <3>3
  <2>6. Back(started', queue')
    BY <2>5 DEF Back
  <2> QED BY <2>1, <2>4, <2>6, UnfollowedKeeps
<1> QED BY <1>2, <1>3, <1>4

(* What one kind of message, that asks for nothing and connects nothing,   *)
(* does to a queue.                                                        *)
LEMMA AppendedFacts ==
  ASSUME NEW q \in Seq(Message), NEW what \in Kinds, NEW S, what \notin Connections
  PROVE  LET b == Messages(what, S)
         IN  /\ Appends(q, b, q \o b) /\ DestroysFirst(b)
             /\ None(Connections, b) /\ \A s \in Services : NoneFor(Connections, s, b)
             /\ \A s \in Services : s \notin S => NoneFor({"destroy"}, s, b)
<1> DEFINE b == Messages(what, S)
<1>1. b \in Seq(Message) /\ None(Connections, b) /\ DestroysFirst(b)
  BY ServicesAre, NewMessages
<1>2. ASSUME NEW s \in Services PROVE NoneFor(Connections, s, b)
  BY NewMessages
<1>3. ASSUME NEW s \in Services, s \notin S PROVE NoneFor({"destroy"}, s, b)
  BY <1>3, NewMessages
<1> HIDE DEF b
<1>4. Appends(q, b, q \o b)
  BY <1>1, AppendsJoined
<1> QED BY <1>1, <1>2, <1>3, <1>4 DEF b

LEMMA PauseKeeps == ASSUME TypeOK, Parts, Pause PROVE PartsNext
<1> DEFINE S == {s \in Services : ~started[s]}
           w == Without({"bind", "connected"}, queue)
           b == Messages("destroy", S)
<1>1. queue \in Seq(Message) /\ Back(started, queue)
  BY DEF Parts, TypeOK
<1>2. ~Resumed' /\ ~Followed' /\ started' = started /\ queue' = w \o b
  BY DEF Pause, Resumed, Followed
<1>3. w \in Seq(Message)
  BY <1>1, WithoutSelects
<1>4. ASSUME NEW s
      PROVE  /\ ~NoneFor({"destroy"}, s, w) => ~NoneFor({"destroy"}, s, queue)
             /\ Asks({"start", "stop"}, s, queue) => Asks({"start", "stop"}, s, w)
             /\ None({"bind", "connected"}, w)
  <2>1. {"bind", "connected"} \cap {"start", "stop"} = {}
    OBVIOUS
  <2> QED BY <1>1, <2>1, AsksWithout
<1>5. "destroy" \in Kinds /\ "destroy" \notin Connections
  BY DEF Kinds, Connections
<1> HIDE DEF w
<1>6. /\ Appends(w, b, w \o b) /\ None(Connections, b)
      /\ \A s \in Services : s \notin S => NoneFor({"destroy"}, s, b)
  BY <1>3, <1>5, AppendedFacts
<1> HIDE DEF b
<1>7. Joins(Resumed', ref', queue')
  BY <1>2, <1>4, <1>6 DEF Joins, Appends, Connections
<1>8. ASSUME NEW s \in Services, started[s], ~NoneFor({"destroy"}, s, queue')
      PROVE  Asks({"start", "stop"}, s, queue')
  <2>1. NoneFor({"destroy"}, s, b)
    BY <1>6, <1>8
  <2>2. ~NoneFor({"destroy"}, s, queue)
    BY <1>2, <1>4, <1>6, <1>8, <2>1 DEF Appends
  <2>3. Asks({"start", "stop"}, s, w)
    BY <1>1, <1>4, <1>8, <2>2 DEF Back
  <2> QED BY <1>2, <1>6, <2>1, <2>3 DEF Appends
<1>9. Back(started', queue')
  BY <1>2, <1>8 DEF Back
<1> QED BY <1>2, <1>7, <1>9, UnfollowedKeeps

(* Another VPN takes over. *)
LEMMA RevokeKeeps == ASSUME TypeOK, Parts, Revoke PROVE PartsNext
<1> DEFINE m == [what |-> "revoke", to |-> "vpn"]
           b == <<m>>
<1>1. /\ queue \in Seq(Message) /\ Back(started, queue) /\ Joins(Resumed, ref, queue)
  BY DEF Parts, TypeOK
<1>2. m \in Message /\ m.what = "revoke" /\ m.to = "vpn"
  BY DEF Message, Kinds, Services
<1>3. /\ ~Followed' /\ started' = started /\ ref' = ref /\ Resumed' = Resumed
      /\ queue' = Append(queue, m)
  BY DEF Revoke, screen, Resumed, Followed
<1> HIDE DEF m
<1>4. b \in Seq(Message) /\ queue' = queue \o b
  BY <1>1, <1>2, <1>3, AppendProperties, AppendIsConcat
<1>5. /\ None({"destroy"}, b) /\ None(Connections, b) /\ DestroysFirst(b)
      /\ \A s : NoneFor({"destroy"}, s, b) /\ NoneFor(Connections, s, b)
  BY <1>2, OneMessage DEF Connections
<1> HIDE DEF b
<1>6. Appends(queue, b, queue')
  BY <1>1, <1>4, AppendsJoined
<1>7. Joins(Resumed', ref', queue')
  BY <1>1, <1>3, <1>5, <1>6 DEF Joins, Appends
<1>8. Back(started', queue')
  BY <1>1, <1>3, <1>5, <1>6 DEF Back, Appends
<1> QED BY <1>3, <1>7, <1>8, UnfollowedKeeps

LEMMA RevokedKeeps == ASSUME TypeOK, Parts, Revoked PROVE PartsNext
<1> DEFINE r == Tail(queue)
           S == IF activity = "resumed" THEN {} ELSE {"vpn"}
           b == Messages("destroy", S)
<1>1. PICK h \in Message : h.what = "revoke" /\ h.to = "vpn" /\ Handles(queue, h, r)
  BY HeadHandled DEF Revoked
<1>2. /\ queue \in Seq(Message) /\ Back(started, queue) /\ Joins(Resumed, ref, queue)
      /\ Meant(Followed, menu, queue) /\ r \in Seq(Message)
  BY HeadAndRest DEF Parts, TypeOK, Revoked
<1>3. ~Followed
  BY <1>1, <1>2 DEF Meant, Handles
<1>4. /\ ~Followed' /\ ref' = ref /\ Resumed' = Resumed
      /\ \A s \in Services : started'[s] => started[s] /\ s # "vpn"
  BY <1>3 DEF Revoked, OthersUnchanged, screen, Resumed, Followed, TypeOK
<1>5. Messages("destroy", {}) = << >>
  BY DEF Messages
<1>6. queue' = r \o b
  BY <1>5 DEF Revoked
<1>7. "destroy" \in Kinds /\ "destroy" \notin Connections
  BY DEF Kinds, Connections
<1> HIDE DEF r
<1>8. /\ Appends(r, b, queue') /\ None(Connections, b) /\ DestroysFirst(b)
      /\ \A s \in Services : s \notin S => NoneFor({"destroy"}, s, b)
      /\ \A s \in Services : NoneFor(Connections, s, b)
  BY <1>2, <1>6, <1>7, AppendedFacts
<1>9. Resumed => None({"destroy"}, b)
  BY <1>5 DEF Resumed, None, PlacesOf
<1>10. /\ h.what # "destroy" /\ h.what # "start" /\ h.what # "stop" /\ h.what \notin Connections
       /\ h.what \notin {"start", "stop"}
  BY <1>1 DEF Connections
<1> HIDE DEF b
<1>11. Joins(Resumed', ref', queue')
  <2>1. CASE ~Resumed
    BY <1>1, <1>2, <1>4, <1>8, <2>1 DEF Joins, Handles, Appends
  <2>2. CASE Resumed
    <3>1. DestroysFirst(queue')
      BY <1>1, <1>2, <1>8, <1>9, <2>2 DEF Joins, Handles, Appends
    <3>2. ASSUME NEW s \in Services
          PROVE  ~NoneFor(Connections, s, queue') \/ (ref[s] /\ None({"destroy"}, queue'))
      <4>1. ~NoneFor(Connections, s, queue) \/ (ref[s] /\ None({"destroy"}, queue))
        BY <1>2, <2>2 DEF Joins
      <4>2. /\ NoneFor(Connections, s, r) => NoneFor(Connections, s, queue)
            /\ None({"destroy"}, queue) => None({"destroy"}, r)
        BY <1>1, <1>10 DEF Handles
      <4> QED BY <1>8, <1>9, <2>2, <4>1, <4>2 DEF Appends
    <3> QED BY <1>4, <2>2, <3>1, <3>2 DEF Joins
  <2> QED BY <2>1, <2>2
<1>12. ASSUME NEW s \in Services, started'[s], ~NoneFor({"destroy"}, s, queue')
       PROVE  Asks({"start", "stop"}, s, queue')
  <2>1. NoneFor({"destroy"}, s, b) /\ started[s]
    BY <1>4, <1>8, <1>12
  <2>2. ~NoneFor({"destroy"}, s, r)
    BY <1>8, <1>12, <2>1 DEF Appends
  <2>3. ~NoneFor({"destroy"}, s, queue)
    BY <1>1, <2>2 DEF Handles
  <2>4. Asks({"start", "stop"}, s, queue)
    BY <1>2, <2>1, <2>3 DEF Back
  <2>5. Asks({"start", "stop"}, s, r)
    BY <1>1, <1>10, <2>4 DEF Handles
  <2> QED BY <1>8, <2>1, <2>5 DEF Appends
<1>13. Back(started', queue')
  BY <1>12 DEF Back
<1> QED BY <1>4, <1>11, <1>13, UnfollowedKeeps

(* A binding becomes a connection that is still to come. *)
LEMMA BindKeeps ==
  ASSUME TypeOK, Parts, NEW to \in Services, Bind(to) PROVE PartsNext
<1> DEFINE r == Tail(queue)
           m == [what |-> "connected", to |-> to]
           b == <<m>>
<1>1. PICK h \in Message : h.what = "bind" /\ h.to = to /\ Handles(queue, h, r)
  BY HeadHandled DEF Bind
<1>2. m \in Message /\ m.what = "connected" /\ m.to = to
  BY DEF Message, Kinds
<1>3. /\ menu' = menu /\ prefs' = prefs /\ shown' = shown /\ started' = started
      /\ ref' = ref /\ Resumed' = Resumed /\ Followed' = Followed /\ Running' = Running
      /\ queue' = Append(r, m)
  BY DEF Bind, OthersUnchanged, screen, tunnel, shell, Resumed, Followed, Running
<1>4. queue \in Seq(Message) /\ r \in Seq(Message)
  BY HeadAndRest DEF Bind, TypeOK
<1> HIDE DEF m, r
<1>5. b \in Seq(Message) /\ queue' = r \o b
  BY <1>2, <1>3, <1>4, AppendProperties, AppendIsConcat
<1>6. /\ None({"destroy"}, b) /\ ~None(Connections, b) /\ ~None({"connected"}, b)
      /\ None({"start"}, b) /\ None({"stop"}, b) /\ None({"revoke"}, b) /\ DestroysFirst(b)
      /\ ~StartIsLast(b)
      /\ \A s : /\ NoneFor({"destroy"}, s, b) /\ NoneFor({"stop"}, s, b)
                /\ NoneFor(Connections, s, b) <=> s # to
                /\ ~Asks({"start"}, s, b) /\ ~Asks({"start", "stop"}, s, b)
  <2>1. "connected" \in Connections
    BY DEF Connections
  <2>2. /\ None({"destroy"}, b) /\ ~None(Connections, b) /\ ~None({"connected"}, b)
        /\ None({"start"}, b) /\ None({"stop"}, b) /\ None({"revoke"}, b) /\ DestroysFirst(b)
        /\ ~StartIsLast(b)
    BY <1>2, <2>1, OneMessage
  <2>3. ASSUME NEW s
        PROVE  /\ NoneFor({"destroy"}, s, b) /\ NoneFor({"stop"}, s, b)
               /\ NoneFor(Connections, s, b) <=> s # to
    BY <1>2, <2>1, OneMessage
  <2>4. ASSUME NEW s PROVE ~Asks({"start"}, s, b) /\ ~Asks({"start", "stop"}, s, b)
    BY <1>2, OneMessage
  <2> QED BY <2>2, <2>3, <2>4
<1> HIDE DEF b
<1>7. Appends(r, b, queue')
  BY <1>4, <1>5, AppendsJoined
<1>8. "bind" \in Connections /\ h.what \notin {"start", "stop"}
  BY <1>1 DEF Connections
<1>9. /\ ~None(Connections, queue) /\ ~None(Connections, queue')
      /\ Open(menu, queue) /\ Open(menu, queue') /\ ~StartIsLast(queue')
  BY <1>1, <1>6, <1>7, <1>8 DEF Open, Handles, Appends
<1>10. Joins(Resumed, ref, queue)
  BY DEF Parts
<1>11. Resumed /\ None({"destroy"}, r) /\ None({"destroy"}, queue')
  <2>1. Resumed /\ DestroysFirst(queue)
    BY <1>9, <1>10 DEF Joins
  <2>2. None({"destroy"}, r)
    BY <1>1, <1>8, <2>1 DEF Handles
  <2> QED BY <1>6, <1>7, <2>1, <2>2 DEF Appends
<1>12. Joins(Resumed', ref', queue')
  <2>1. DestroysFirst(queue')
    BY <1>1, <1>6, <1>7, <1>10, <1>11 DEF Joins, Handles, Appends
  <2>2. ASSUME NEW s \in Services
        PROVE  ~NoneFor(Connections, s, queue') \/ (ref[s] /\ None({"destroy"}, queue'))
    <3>1. CASE s = to
      BY <1>6, <1>7, <3>1 DEF Appends
    <3>2. CASE s # to
      <4>1. ~NoneFor(Connections, s, queue) \/ ref[s]
        BY <1>10, <1>11 DEF Joins
      <4>2. NoneFor(Connections, s, r) => NoneFor(Connections, s, queue)
        BY <1>1, <3>2 DEF Handles
      <4> QED BY <1>7, <1>11, <4>1, <4>2 DEF Appends
    <3> QED BY <3>1, <3>2
  <2> QED BY <1>3, <1>11, <2>1, <2>2 DEF Joins
<1>13. \A s : NoneFor({"destroy"}, s, queue')
  BY <1>11 DEF None, NoneFor, PlacesFor
<1>14. Back(started', queue') /\ Doomed(Followed', queue')
  BY <1>13 DEF Back, Doomed
<1>15. Meant(Followed', menu', queue')
  <2>1. Meant(Followed, menu, queue)
    BY DEF Parts
  <2>2. /\ None({"revoke"}, queue) <=> None({"revoke"}, queue')
        /\ None({"stop"}, queue) <=> None({"stop"}, queue')
    BY <1>1, <1>6, <1>7 DEF Handles, Appends
  <2> QED BY <1>3, <1>9, <2>1, <2>2 DEF Meant
<1>16. Late(Agreed', menu', prefs', Running', queue') /\ Fits(Agreed', menu', prefs', shown', Running', queue')
  BY <1>3, <1>9 DEF Late, Fits
<1> QED BY <1>12, <1>14, <1>15, <1>16 DEF PartsNext

(* What setChecked sends. *)
Silent(b) ==
  /\ None({"destroy"}, b) /\ None(Connections, b) /\ None({"bind"}, b) /\ None({"connected"}, b)
  /\ None({"revoke"}, b) /\ DestroysFirst(b)
  /\ \A s \in Services :
       NoneFor({"destroy"}, s, b) /\ NoneFor(Connections, s, b) /\ ~StartedFirst(s, b)

LEMMA ConnectionsAre ==
  ASSUME NEW q
  PROVE  /\ None(Connections, q) <=> None({"bind"}, q) /\ None({"connected"}, q)
         /\ None(Connections, q) => \A s : NoneFor(Connections, s, q)
         /\ None({"destroy"}, q) => \A s : NoneFor({"destroy"}, s, q)
         /\ None({"start"}, q) \/ ~None({"connected"}, q) \/ StartIsLast(q)
         /\ StartIsLast(q) => ~None({"start"}, q)
         /\ \A s : StartedFirst(s, q) => ~None({"connected"}, q)
         /\ \A s : None({"stop"}, q) /\ Asks({"start", "stop"}, s, q) => Asks({"start"}, s, q)
  BY DEF Connections, None, NoneFor, PlacesFor, PlacesOf, StartIsLast, StartedFirst, Asks, AskedAfter

LEMMA SentIsSilent ==
  ASSUME NEW what \in {"start", "stop"}, NEW S \in SUBSET Services
  PROVE  LET b == Messages(what, S)
         IN  /\ b \in Seq(Message) /\ Silent(b)
             /\ None({what}, b) <=> S = {}
             /\ \A k : k # what => None({k}, b)
             /\ \A s \in S : ~NoneFor({what}, s, b) /\ Asks({"start", "stop"}, s, b)
<1> DEFINE b == Messages(what, S)
<1>1. /\ what \in Kinds /\ what \notin {"destroy"} /\ what \notin Connections /\ what \notin {"bind"}
      /\ what \notin {"connected"} /\ what \notin {"revoke"} /\ what \in {what} /\ what # "destroy"
      /\ "vpn" \in Services
  BY DEF Kinds, Connections, Services
<1>2. b \in Seq(Message) /\ DestroysFirst(b) /\ \A K : what \notin K => None(K, b)
  BY <1>1, NewMessages
<1>3. ASSUME NEW s \in Services
      PROVE  NoneFor({"destroy"}, s, b) /\ NoneFor(Connections, s, b) /\ ~StartedFirst(s, b)
  <2>1. NoneFor({"destroy"}, s, b)
    BY <1>1, NewMessages
  <2>2. NoneFor(Connections, s, b)
    BY <1>1, NewMessages
  <2>3. ~StartedFirst(s, b)
    BY <1>1, NewMessages
  <2> QED BY <2>1, <2>2, <2>3
<1>4. ASSUME NEW s \in S
      PROVE  ~None({what}, b) /\ ~NoneFor({what}, s, b) /\ Asks({"start", "stop"}, s, b)
  <2>1. s \in Services /\ s \in S
    OBVIOUS
  <2>2. ~None({what}, b) /\ ~NoneFor({what}, s, b)
    BY <1>1, <2>1, NewMessages
  <2>3. Asks({"start", "stop"}, s, b)
    BY <1>1, <2>1, NewMessages
  <2> QED BY <2>2, <2>3
<1>5. S = {} => None({what}, b)
  BY <1>1, NewMessages
<1> HIDE DEF b
<1>6. Silent(b)
  BY <1>1, <1>2, <1>3 DEF Silent
<1>7. \A k : k # what => None({k}, b)
  BY <1>2
<1> QED BY <1>2, <1>4, <1>5, <1>6, <1>7 DEF b

LEMMA SentFacts ==
  ASSUME NEW S \in SUBSET Services, NEW P \in SUBSET Services
  PROVE  LET b == Messages("start", S) \o Messages("stop", P)
         IN  /\ b \in Seq(Message) /\ Silent(b)
             /\ None({"start"}, b) <=> S = {}
             /\ None({"stop"}, b) <=> P = {}
             /\ \A s \in P : ~NoneFor({"stop"}, s, b)
             /\ \A s \in S \cup P : Asks({"start", "stop"}, s, b)
<1> DEFINE x == Messages("start", S)
           y == Messages("stop", P)
           b == x \o y
<1>1. /\ x \in Seq(Message) /\ Silent(x)
      /\ None({"start"}, x) <=> S = {}
      /\ None({"stop"}, x)
      /\ \A s \in S : Asks({"start", "stop"}, s, x)
  <2>1. "stop" # "start" /\ "start" \in {"start", "stop"}
    OBVIOUS
  <2> QED BY <2>1, SentIsSilent
<1>2. /\ y \in Seq(Message) /\ Silent(y)
      /\ None({"stop"}, y) <=> P = {}
      /\ None({"start"}, y)
      /\ \A s \in P : ~NoneFor({"stop"}, s, y) /\ Asks({"start", "stop"}, s, y)
  <2>1. "stop" # "start" /\ "stop" \in {"start", "stop"}
    OBVIOUS
  <2> QED BY <2>1, SentIsSilent
<1> HIDE DEF x, y
<1>3. Appends(x, y, b) /\ b \in Seq(Message)
  BY <1>1, <1>2, AppendsJoined, ConcatProperties
<1> HIDE DEF b
<1>4. Silent(b)
  <2>1. ASSUME NEW s \in Services
        PROVE  NoneFor({"destroy"}, s, b) /\ NoneFor(Connections, s, b) /\ ~StartedFirst(s, b)
    <3>1. /\ NoneFor({"destroy"}, s, x) /\ NoneFor(Connections, s, x) /\ ~StartedFirst(s, x)
          /\ NoneFor({"destroy"}, s, y) /\ NoneFor(Connections, s, y) /\ ~StartedFirst(s, y)
          /\ None({"connected"}, y)
      BY <1>1, <1>2 DEF Silent
    <3> QED BY <1>3, <3>1 DEF Appends
  <2>2. /\ None({"destroy"}, b) /\ None(Connections, b) /\ None({"bind"}, b)
        /\ None({"connected"}, b) /\ None({"revoke"}, b) /\ DestroysFirst(b)
    BY <1>1, <1>2, <1>3 DEF Silent, Appends
  <2> QED BY <2>1, <2>2 DEF Silent
<1>5. (None({"start"}, b) <=> S = {}) /\ (None({"stop"}, b) <=> P = {})
  BY <1>1, <1>2, <1>3 DEF Appends
<1>6. \A s \in P : ~NoneFor({"stop"}, s, b)
  BY <1>2, <1>3 DEF Appends
<1>7. ASSUME NEW s \in S \cup P PROVE Asks({"start", "stop"}, s, b)
  <2>1. NoneFor({"destroy"}, s, y)
    BY <1>2 DEF Silent
  <2> QED BY <1>1, <1>2, <1>3, <2>1 DEF Appends
<1> QED BY <1>3, <1>4, <1>5, <1>6, <1>7 DEF b, x, y

Changes(r, on, b) ==
  /\ asking => asking'
  /\ \A s \in Services : started'[s] => started[s] \/ Asks({"start", "stop"}, s, b)
  /\ (on <=> shown) => (shown' <=> shown)
  /\ ~(on <=> shown) => (shown' <=> on /\ prefs # {})
  /\ ~None({"start"}, b) => on /\ ~shown /\ prefs # {}
  /\ ~None({"stop"}, b) => ~on /\ shown /\ Seen(r) # {}
  /\ ~(on <=> shown) /\ on /\ prefs \ Seen(r) # {} => asking' \/ ~None({"start"}, b)
  /\ ~(on <=> shown) /\ ~on => \A s \in Seen(r) : ~NoneFor({"stop"}, s, b)

LEMMA SetCheckedDoes ==
  ASSUME TypeOK, NEW r, NEW on \in BOOLEAN, NEW m \in Seq(Message), SetChecked(r, on, m)
  PROVE  \E b \in Seq(Message) : Appends(m, b, queue') /\ Silent(b) /\ Changes(r, on, b)
<1> DEFINE starts == IF on THEN prefs \ Seen(r) ELSE {}
           stops  == IF on THEN {} ELSE Seen(r)
           denied == IF consent THEN {} ELSE starts \cap {"vpn"}
<1>1. CASE on = shown
  <2>1. queue' = m /\ shown' = shown /\ asking' = asking /\ started' = started
    BY <1>1 DEF SetChecked
  <2> DEFINE b == << >>
  <2>2. b \in Seq(Message) /\ m = m \o b
    BY ConcatEmptySeq
  <2>3. \A kinds, s : None(kinds, b) /\ NoneFor(kinds, s, b)
    BY DEF None, NoneFor, PlacesFor, PlacesOf
  <2> HIDE DEF b
  <2>4. Silent(b)
    <3>1. DestroysFirst(b)
      BY <2>3 DEF DestroysFirst, None
    <3>2. \A s : ~StartedFirst(s, b)
      BY <2>3, ConnectionsAre
    <3> QED BY <2>3, <3>1, <3>2 DEF Silent
  <2>5. Appends(m, b, queue')
    BY <2>1, <2>2, AppendsJoined
  <2>6. Changes(r, on, b)
    BY <1>1, <2>1, <2>3 DEF Changes
  <2> QED BY <2>2, <2>4, <2>5, <2>6
<1>2. CASE on # shown
  <2> DEFINE S == starts \ denied
             b == Messages("start", S) \o Messages("stop", stops)
  <2>1. /\ shown' = (on /\ prefs # {})
        /\ asking' = (asking \/ denied # {})
        /\ queue' = (m \o Messages("start", S)) \o Messages("stop", stops)
        /\ started' = [s \in Services |-> started[s] \/ s \in S \cup stops]
    BY <1>2 DEF SetChecked
  <2>2. S \in SUBSET Services /\ stops \in SUBSET Services
    BY DEF TypeOK, Seen, Running
  <2>3. /\ ~on => S = {}
        /\ S # {} => prefs # {}
        /\ on /\ prefs \ Seen(r) # {} => denied # {} \/ S # {}
        /\ stops # {} => ~on /\ Seen(r) # {}
        /\ ~on => stops = Seen(r)
    OBVIOUS
  <2> HIDE DEF S, stops, denied
  <2>4. Messages("start", S) \in Seq(Message) /\ Messages("stop", stops) \in Seq(Message)
    BY MessagesAre DEF Kinds
  <2>5. queue' = m \o b
    <3> DEFINE x == Messages("start", S)
               y == Messages("stop", stops)
    <3>1. x \in Seq(Message) /\ y \in Seq(Message) /\ queue' = (m \o x) \o y
      BY <2>1, <2>4
    <3> HIDE DEF x, y
    <3>2. queue' = m \o (x \o y)
      BY <3>1, ConcatAssociative
    <3> QED BY <3>2 DEF x, y
  <2>6. /\ b \in Seq(Message) /\ Silent(b)
        /\ None({"start"}, b) <=> S = {}
        /\ None({"stop"}, b) <=> stops = {}
        /\ \A s \in stops : ~NoneFor({"stop"}, s, b)
        /\ \A s \in S \cup stops : Asks({"start", "stop"}, s, b)
    BY <2>2, SentFacts
  <2> HIDE DEF b
  <2>7. Appends(m, b, queue')
    BY <2>5, <2>6, AppendsJoined
  <2>8. ~(on <=> shown)
    BY <1>2 DEF TypeOK
  <2>9. \A s \in Services : started'[s] => started[s] \/ Asks({"start", "stop"}, s, b)
    BY <2>1, <2>6
  <2>10. Changes(r, on, b)
    BY <1>2, <2>1, <2>3, <2>6, <2>8, <2>9 DEF Changes
  <2> QED BY <2>6, <2>7, <2>10
<1> QED BY <1>1, <1>2

(* The queue that a resumed activity looks at its services with, before    *)
(* setChecked sends what follows from that.                                *)
Midway(m) ==
  /\ Resumed' /\ Back(started, m) /\ Joins(TRUE, ref', m)
  /\ Meant(Followed', FALSE, m) /\ Doomed(Followed', m)
  /\ Late(Followed' /\ ~asking, FALSE, prefs, Running, m)

LEMMA MenuLessKeeps ==
  ASSUME NEW m, Midway(m), prefs' = prefs, Running' = Running, ~menu', queue' = m,
         UNCHANGED <<shown, asking, started>>
  PROVE  PartsNext
<1>1. /\ Resumed' = TRUE /\ queue' = m /\ started' = started
      /\ Agreed' = (Followed' /\ ~asking)
  BY DEF Midway, Resumed, Agreed
<1>2. Back(started', queue') /\ Joins(Resumed', ref', queue')
  BY <1>1 DEF Midway, Joins
<1>3. Open(menu', m) /\ Open(FALSE, m)
  BY DEF Open
<1>4. Meant(Followed', menu', queue') /\ Doomed(Followed', queue')
  BY <1>1, <1>3 DEF Midway, Meant
<1>5. Late(Agreed', menu', prefs', Running', queue')
  BY <1>1, <1>3 DEF Midway, Late
<1>6. Fits(Agreed', menu', prefs', shown', Running', queue')
  BY <1>1, <1>3 DEF Fits
<1> QED BY <1>2, <1>4, <1>5, <1>6 DEF PartsNext

LEMMA SyncChanges ==
  ASSUME NEW r, NEW b, Changes(r, Seen(r) # {}, b)
  PROVE  /\ None({"stop"}, b)
         /\ ~None({"start"}, b) => prefs # {} /\ Seen(r) # {} /\ shown'
         /\ Seen(r) # {} /\ prefs # {} => shown'
         /\ shown' => Seen(r) # {}
         /\ asking => asking'
<1>1. CASE Seen(r) = {}
  BY <1>1 DEF Changes
<1>2. CASE Seen(r) # {}
  BY <1>2 DEF Changes
<1> QED BY <1>1, <1>2

(* The switch is set to what runs. *)
LEMMA SyncKeeps ==
  ASSUME TypeOK, NEW m \in Seq(Message), Midway(m), prefs' = prefs, Running' = Running,
         SetChecked(ref', Seen(ref') # {}, m)
  PROVE  PartsNext
<1>1. (Seen(ref') # {}) \in BOOLEAN
  OBVIOUS
<1>2. PICK b \in Seq(Message) :
        Appends(m, b, queue') /\ Silent(b) /\ Changes(ref', Seen(ref') # {}, b)
  BY <1>1, SetCheckedDoes
<1>3. /\ Seen(ref') \subseteq Running /\ Running \subseteq Services
  BY DEF Seen, Running
<1>4. /\ None({"stop"}, b)
      /\ ~None({"start"}, b) => prefs # {} /\ Seen(ref') # {} /\ shown'
      /\ Seen(ref') # {} /\ prefs # {} => shown'
      /\ shown' => Seen(ref') # {}
      /\ asking => asking'
  BY <1>2, SyncChanges
<1>5. /\ Followed' => Resumed'
      /\ Agreed' => Followed' /\ ~asking /\ ~asking'
  BY <1>4 DEF Agreed, Followed, Resumed
<1>6. Back(started', queue')
  <2> SUFFICES ASSUME NEW s \in Services, started'[s], ~NoneFor({"destroy"}, s, queue')
               PROVE  Asks({"start", "stop"}, s, queue')
    BY DEF Back
  <2>1. NoneFor({"destroy"}, s, b) /\ ~NoneFor({"destroy"}, s, m)
    BY <1>2 DEF Silent, Appends
  <2>2. Asks({"start", "stop"}, s, m) \/ Asks({"start", "stop"}, s, b)
    BY <1>2, <2>1 DEF Changes, Midway, Back
  <2> QED BY <1>2, <2>1, <2>2 DEF Appends
<1>7. Joins(Resumed', ref', queue')
  <2>1. DestroysFirst(queue')
    BY <1>2 DEF Midway, Joins, Appends, Silent
  <2>2. ASSUME NEW s \in Services
        PROVE  ~NoneFor(Connections, s, queue') \/ (ref'[s] /\ None({"destroy"}, queue'))
    <3>1. ~NoneFor(Connections, s, m) \/ (ref'[s] /\ None({"destroy"}, m))
      BY DEF Midway, Joins
    <3> QED BY <1>2, <3>1 DEF Appends, Silent
  <2> QED BY <2>1, <2>2 DEF Joins, Midway
<1>8. Meant(Followed', menu', queue')
  <2> SUFFICES ASSUME Followed'
               PROVE  None({"revoke"}, queue') /\ None({"stop"}, queue')
    BY DEF Meant
  <2>1. None({"revoke"}, m) /\ None({"stop"}, m)
    BY DEF Midway, Meant, Open
  <2> QED BY <1>2, <1>4, <2>1 DEF Appends, Silent
<1>9. Doomed(Followed', queue')
  <2> SUFFICES ASSUME Followed', NEW s \in Services
               PROVE  \/ NoneFor({"destroy"}, s, queue') \/ ~None({"bind"}, queue')
                      \/ StartedFirst(s, queue')
    BY DEF Doomed
  <2>1. NoneFor({"destroy"}, s, m) \/ ~None({"bind"}, m) \/ StartedFirst(s, m)
    BY DEF Midway, Doomed
  <2>2. NoneFor({"destroy"}, s, b)
    BY <1>2 DEF Silent
  <2> QED BY <1>2, <2>1, <2>2 DEF Appends
<1>10. ASSUME NEW s \in Services, LastsIn(s, Running, m) PROVE LastsIn(s, Running', queue')
  <2>1. NoneFor({"destroy"}, s, b)
    BY <1>2 DEF Silent
  <2> QED BY <1>2, <1>10, <2>1 DEF LastsIn, Appends
<1>11. Late(Agreed', menu', prefs', Running', queue')
  <2> SUFFICES ASSUME Agreed', None({"bind"}, queue'), StartIsLast(queue')
               PROVE  prefs # {} /\ \E s \in Services : LastsIn(s, Running', queue')
    BY DEF Late
  <2>1. None({"bind"}, m)
    BY <1>2 DEF Appends
  <2>2. CASE StartIsLast(b)
    <3>1. prefs # {} /\ Seen(ref') # {}
      BY <1>4, <2>2, ConnectionsAre
    <3>2. PICK s \in Services : s \in Running
      BY <1>3, <3>1
    <3>3. NoneFor({"destroy"}, s, m) \/ StartedFirst(s, m)
      BY <1>5, <2>1 DEF Midway, Doomed
    <3>4. LastsIn(s, Running, m)
      BY <3>2, <3>3 DEF LastsIn
    <3> QED BY <1>10, <3>1, <3>4
  <2>3. CASE StartIsLast(m)
    <3>1. Followed' /\ ~asking /\ Open(FALSE, m)
      BY <1>5 DEF Open
    <3>2. prefs # {} /\ \E s \in Services : LastsIn(s, Running, m)
      BY <2>1, <2>3, <3>1 DEF Midway, Late
    <3> QED BY <1>10, <3>2
  <2> QED BY <1>2, <2>2, <2>3 DEF Appends
<1>12. Fits(Agreed', menu', prefs', shown', Running', queue')
  <2> SUFFICES ASSUME Agreed', ~Open(menu', queue')
               PROVE  IF shown' THEN None({"stop"}, queue') /\ Running # {}
                      ELSE None({"start"}, queue') /\ (prefs # {} => Running = {})
    BY DEF Fits
  <2>1. None(Connections, m)
    BY <1>2 DEF Open, Appends
  <2>2. \A s \in Services : ref'[s]
    BY <2>1, ConnectionsAre DEF Midway, Joins
  <2>3. Seen(ref') = Running
    BY <1>3, <2>2 DEF Seen
  <2>4. CASE shown'
    <3>1. None({"stop"}, m)
      BY <1>4, <1>5, <2>4 DEF Midway, Meant, Open
    <3> QED BY <1>2, <1>4, <2>3, <2>4, <3>1 DEF Appends
  <2>5. CASE ~shown'
    <3>1. None({"start"}, m)
      <4> SUFFICES ASSUME ~None({"start"}, m) PROVE FALSE
        OBVIOUS
      <4>1. None({"bind"}, m) /\ None({"connected"}, m) /\ StartIsLast(m)
        BY <2>1, ConnectionsAre
      <4>2. Followed' /\ ~asking /\ Open(FALSE, m)
        BY <1>5 DEF Open
      <4>3. prefs # {} /\ \E s \in Services : LastsIn(s, Running, m)
        BY <4>1, <4>2 DEF Midway, Late
      <4>4. Running # {}
        BY <4>1, <4>3, ConnectionsAre DEF LastsIn
      <4> QED BY <1>4, <2>3, <2>5, <4>3, <4>4
    <3>2. None({"start"}, queue')
      BY <1>2, <1>4, <2>5, <3>1 DEF Appends
    <3>3. prefs # {} => Running = {}
      BY <1>4, <2>3, <2>5
    <3> QED BY <2>5, <3>2, <3>3
  <2> QED BY <2>4, <2>5
<1> QED BY <1>6, <1>7, <1>8, <1>9, <1>11, <1>12 DEF PartsNext

LEMMA CreateMenuKeeps == ASSUME TypeOK, Parts, CreateMenu PROVE PartsNext
<1>1. /\ Resumed /\ Resumed' /\ Followed' = Followed /\ ref' = ref /\ prefs' = prefs
      /\ Running' = Running /\ ~menu /\ queue \in Seq(Message)
      /\ SetChecked(ref, Seen(ref) # {}, queue)
  BY DEF CreateMenu, Resumed, Followed, Running, tunnel, shell, TypeOK
<1>2. menu = FALSE /\ Agreed = (Followed' /\ ~asking)
  BY <1>1 DEF Agreed, TypeOK
<1>3. Midway(queue)
  BY <1>1, <1>2 DEF Parts, Midway, Joins
<1>4. SetChecked(ref', Seen(ref') # {}, queue)
  BY <1>1
<1> QED BY <1>1, <1>3, <1>4, SyncKeeps

LEMMA ConnectedKeeps ==
  ASSUME TypeOK, Parts, NEW to \in Services, Connected(to) PROVE PartsNext
<1> DEFINE m == Tail(queue)
<1>1. PICK h \in Message : h.what = "connected" /\ h.to = to /\ Handles(queue, h, m)
  BY HeadHandled DEF Connected
<1>2. /\ queue \in Seq(Message) /\ m \in Seq(Message)
  BY HeadAndRest DEF Connected, TypeOK
<1>3. /\ Resumed' = Resumed /\ Followed' = Followed /\ prefs' = prefs /\ menu' = menu
      /\ Running' = Running /\ ref' = [ref EXCEPT ![to] = TRUE] /\ syncToggle(ref', m)
  BY DEF Connected, Resumed, Followed, Running, tunnel, shell
<1> HIDE DEF m
<1>4. /\ h.what \in Connections /\ h.what # "bind" /\ h.what # "stop" /\ h.what # "start"
      /\ h.what # "revoke" /\ h.what \notin {"start", "stop"}
  BY <1>1 DEF Connections
<1>5. ~None(Connections, queue) /\ Open(menu, queue) /\ Open(FALSE, m)
  BY <1>1, <1>4 DEF Open, Handles
<1>6. Resumed /\ DestroysFirst(queue) /\ None({"destroy"}, m) /\ DestroysFirst(m)
  <2>1. Resumed /\ DestroysFirst(queue)
    BY <1>5 DEF Parts, Joins
  <2> QED BY <1>1, <1>4, <2>1 DEF Handles
<1>7. \A s : NoneFor({"destroy"}, s, m)
  BY <1>6, ConnectionsAre
<1>8. Joins(TRUE, ref', m)
  <2>1. ASSUME NEW s \in Services
        PROVE  ~NoneFor(Connections, s, m) \/ (ref'[s] /\ None({"destroy"}, m))
    <3>1. CASE s = to
      BY <1>3, <1>6, <3>1 DEF TypeOK
    <3>2. CASE s # to
      <4>1. ~NoneFor(Connections, s, queue) \/ ref[s]
        BY <1>6 DEF Parts, Joins
      <4>2. NoneFor(Connections, s, m) => NoneFor(Connections, s, queue)
        BY <1>1, <3>2 DEF Handles
      <4>3. ref'[s] = ref[s]
        BY <1>3, <3>2 DEF TypeOK
      <4> QED BY <1>6, <4>1, <4>2, <4>3
    <3> QED BY <3>1, <3>2
  <2> QED BY <1>6, <2>1 DEF Joins
<1>9. Meant(Followed', FALSE, m)
  <2>1. Meant(Followed, menu, queue)
    BY DEF Parts
  <2>2. /\ None({"revoke"}, queue) => None({"revoke"}, m)
        /\ None({"stop"}, queue) => None({"stop"}, m)
    BY <1>1 DEF Handles
  <2>3. None({"stop"}, m) => None({"stop"}, queue)
    BY <1>1, <1>4 DEF Handles
  <2> QED BY <1>3, <1>5, <2>1, <2>2, <2>3 DEF Meant
<1>10. Late(Followed' /\ ~asking, FALSE, prefs, Running, m)
  <2> SUFFICES ASSUME Followed', ~asking, None({"bind"}, m), StartIsLast(m)
               PROVE  prefs # {} /\ \E s \in Services : LastsIn(s, Running, m)
    BY DEF Late
  <2>1. None({"bind"}, queue) /\ StartIsLast(queue) /\ Agreed
    BY <1>1, <1>3, <1>4 DEF Handles, Agreed
  <2>2. prefs # {} /\ \E s \in Services : LastsIn(s, Running, queue)
    BY <1>5, <2>1 DEF Parts, Late
  <2>3. ASSUME NEW s \in Services, LastsIn(s, Running, queue) PROVE LastsIn(s, Running, m)
    BY <1>1, <1>4, <1>7, <2>3 DEF LastsIn, Handles
  <2> QED BY <2>2, <2>3
<1>11. Midway(m)
  <2>1. Back(started, m) /\ Doomed(Followed', m)
    BY <1>7 DEF Back, Doomed
  <2> QED BY <1>3, <1>6, <1>8, <1>9, <1>10, <2>1 DEF Midway
<1>12. CASE menu
  <2>1. SetChecked(ref', Seen(ref') # {}, m)
    BY <1>3, <1>12 DEF syncToggle
  <2> QED BY <1>2, <1>3, <1>11, <2>1, SyncKeeps
<1>13. CASE ~menu
  <2>1. queue' = m /\ UNCHANGED <<shown, asking, started>>
    BY <1>3, <1>13 DEF syncToggle
  <2> QED BY <1>3, <1>11, <1>13, <2>1, MenuLessKeeps
<1> QED BY <1>12, <1>13

(* onResume asks for both connections, behind everything that is pending.  *)
LEMMA ResumeKeeps == ASSUME TypeOK, Parts, Resume PROVE PartsNext
<1> DEFINE known == {s \in Services : started[s]}
           c == Messages("connected", known)
           d == Messages("bind", Services \ known)
           n == queue \o c
           m == n \o d
<1>1. /\ Resumed' /\ ~Resumed /\ prefs' = prefs /\ menu' = menu /\ ref' = ref
      /\ Running' = Running /\ syncToggle(ref', m) /\ ~asking
      /\ disturbed' = (Pending({"stop", "revoke"}) # {})
      /\ queue \in Seq(Message)
  BY DEF Resume, Resumed, Running, tunnel, shell, TypeOK
<1>2. /\ "connected" \in Kinds /\ "bind" \in Kinds
      /\ "connected" \in Connections /\ "bind" \in Connections
      /\ "vpn" \in Services
  BY DEF Kinds, Connections, Services
<1>3. known \subseteq Services
  OBVIOUS
<1> DEFINE Plain(b) ==
             /\ b \in Seq(Message)
             /\ None({"destroy"}, b) /\ None({"stop"}, b) /\ None({"start"}, b)
             /\ None({"revoke"}, b) /\ ~StartIsLast(b)
             /\ \A s \in Services : NoneFor({"destroy"}, s, b)
             /\ DestroysFirst(b)
<1>4. ASSUME NEW what \in {"connected", "bind"}, NEW S PROVE Plain(Messages(what, S))
  <2> DEFINE b == Messages(what, S)
  <2>1. /\ what \in Kinds /\ what \notin {"destroy"} /\ what \notin {"stop"}
        /\ what \notin {"start"} /\ what \notin {"revoke"}
    BY <1>2
  <2>2. /\ b \in Seq(Message) /\ DestroysFirst(b) /\ None({"destroy"}, b) /\ None({"stop"}, b)
        /\ None({"start"}, b) /\ None({"revoke"}, b)
    <3>1. b \in Seq(Message) /\ DestroysFirst(b)
      BY <1>2, <2>1, NewMessages
    <3>2. \A K : what \notin K => None(K, b)
      BY <1>2, <2>1, NewMessages
    <3> HIDE DEF b
    <3> QED BY <2>1, <3>1, <3>2
  <2>3. \A s \in Services : NoneFor({"destroy"}, s, b)
    BY <2>2, ConnectionsAre
  <2>4. ~StartIsLast(b)
    BY <2>2, ConnectionsAre
  <2> HIDE DEF b
  <2> QED BY <2>2, <2>3, <2>4 DEF b
<1>5. Plain(c) /\ Plain(d)
  BY <1>4
<1>6. /\ \A s \in known : ~NoneFor(Connections, s, c)
      /\ \A s \in Services \ known : ~NoneFor(Connections, s, d) /\ ~None({"bind"}, d)
      /\ \A s \in known : ~None({"connected"}, c)
  <2> HIDE DEF known
  <2>1. ASSUME NEW s \in known PROVE ~NoneFor(Connections, s, c)
    BY <1>2, <1>3, NewMessages
  <2>2. ASSUME NEW s \in known PROVE ~None({"connected"}, c)
    <3>1. "connected" \in {"connected"}
      OBVIOUS
    <3> QED BY <1>2, <1>3, <3>1, NewMessages
  <2>3. ASSUME NEW s \in Services \ known PROVE ~NoneFor(Connections, s, d)
    BY <1>2, NewMessages
  <2>4. ASSUME NEW s \in Services \ known PROVE ~None({"bind"}, d)
    <3>1. "bind" \in {"bind"}
      OBVIOUS
    <3> QED BY <1>2, <1>3, <3>1, NewMessages
  <2> QED BY <2>1, <2>2, <2>3, <2>4
<1>7. \A s \in Services : started[s] <=> s \in known
  OBVIOUS
<1>8. /\ n \in Seq(Message) /\ Appends(queue, c, n)
      /\ m \in Seq(Message) /\ Appends(n, d, m)
  <2> HIDE DEF c, d
  <2>1. n \in Seq(Message) /\ Appends(queue, c, n)
    BY <1>1, <1>5, AppendsJoined, ConcatProperties
  <2> HIDE DEF n
  <2> QED BY <1>5, <2>1, AppendsJoined, ConcatProperties
<1> HIDE DEF known, c, d, n, m
<1>9. /\ None(Connections, queue) /\ DestroysFirst(queue) /\ Back(started, queue)
  <2>1. None(Connections, queue) /\ Back(started, queue)
    BY <1>1 DEF Parts, Joins
  <2> QED BY <2>1 DEF None, DestroysFirst
<1>10. Followed' => None({"stop"}, queue) /\ None({"revoke"}, queue)
  BY <1>1 DEF Followed, Pending, None, PlacesOf
<1>11. \A s \in Services : NoneFor({"destroy"}, s, m) <=> NoneFor({"destroy"}, s, queue)
  BY <1>5, <1>8 DEF Appends
<1>12. Back(started, m)
  <2> SUFFICES ASSUME NEW s \in Services, started[s], ~NoneFor({"destroy"}, s, m)
               PROVE  Asks({"start", "stop"}, s, m)
    BY DEF Back
  <2>1. Asks({"start", "stop"}, s, queue)
    BY <1>9, <1>11 DEF Back
  <2>2. Asks({"start", "stop"}, s, n)
    BY <1>5, <1>8, <2>1 DEF Appends
  <2> QED BY <1>5, <1>8, <2>2 DEF Appends
<1>13. Joins(TRUE, ref', m)
  <2>1. DestroysFirst(n)
    BY <1>5, <1>8, <1>9 DEF Appends
  <2>2. DestroysFirst(m)
    BY <1>5, <1>8, <2>1 DEF Appends
  <2>3. \A s \in Services : ~NoneFor(Connections, s, m)
    BY <1>6, <1>8 DEF Appends
  <2> QED BY <2>2, <2>3 DEF Joins
<1>14. Meant(Followed', FALSE, m)
  <2>1. Followed' => None({"stop"}, m) /\ None({"revoke"}, m)
    BY <1>5, <1>8, <1>10 DEF Appends
  <2> QED BY <2>1 DEF Meant
<1>15. None({"bind"}, m) => ~None({"connected"}, c) /\ \A s \in Services : started[s]
  BY <1>2, <1>3, <1>6, <1>7, <1>8 DEF Appends
<1>16. Doomed(Followed', m)
  <2> SUFFICES ASSUME Followed', NEW s \in Services, ~NoneFor({"destroy"}, s, m),
                      None({"bind"}, m)
               PROVE  StartedFirst(s, m)
    BY DEF Doomed
  <2>1. Asks({"start", "stop"}, s, queue)
    BY <1>9, <1>11, <1>15 DEF Back
  <2>2. Asks({"start"}, s, queue)
    BY <1>10, <2>1, ConnectionsAre
  <2>3. StartedFirst(s, n)
    BY <1>5, <1>8, <1>15, <2>2 DEF Appends
  <2> QED BY <1>5, <1>8, <2>3 DEF Appends
<1>17. Late(Followed' /\ ~asking, FALSE, prefs, Running, m)
  <2>1. None({"bind"}, m) => ~StartIsLast(m)
    BY <1>5, <1>8, <1>15 DEF Appends
  <2> QED BY <2>1 DEF Late
<1>18. Midway(m)
  BY <1>1, <1>12, <1>13, <1>14, <1>16, <1>17 DEF Midway
<1>19. CASE menu
  <2>1. SetChecked(ref', Seen(ref') # {}, m)
    BY <1>1, <1>19 DEF syncToggle
  <2> QED BY <1>1, <1>8, <1>18, <2>1, SyncKeeps
<1>20. CASE ~menu
  <2>1. queue' = m /\ UNCHANGED <<shown, asking, started>>
    BY <1>1, <1>20 DEF syncToggle
  <2> QED BY <1>1, <1>18, <1>20, <2>1, MenuLessKeeps
<1> QED BY <1>19, <1>20

(* A click counts as undisturbed only when all is quiet. *)
LEMMA ClickKeeps == ASSUME TypeOK, Parts, Click PROVE PartsNext
<1>1. /\ Resumed /\ Resumed' /\ prefs' = prefs /\ ref' = ref /\ menu /\ menu'
      /\ Running' = Running /\ SetChecked(ref, ~shown, queue)
      /\ queue \in Seq(Message) /\ shown \in BOOLEAN /\ (~shown) \in BOOLEAN
      /\ Followed' => Followed /\ queue = << >> /\ \A s \in Services : ref[s]
  BY DEF Click, Resumed, Followed, Running, tunnel, shell, TypeOK
<1>2. PICK b \in Seq(Message) :
        Appends(queue, b, queue') /\ Silent(b) /\ Changes(ref, ~shown, b)
  BY <1>1, SetCheckedDoes
<1>3. Back(started', queue')
  <2> SUFFICES ASSUME NEW s \in Services, started'[s], ~NoneFor({"destroy"}, s, queue')
               PROVE  Asks({"start", "stop"}, s, queue')
    BY DEF Back
  <2>1. NoneFor({"destroy"}, s, b) /\ ~NoneFor({"destroy"}, s, queue)
    BY <1>2 DEF Silent, Appends
  <2>2. Asks({"start", "stop"}, s, queue) \/ Asks({"start", "stop"}, s, b)
    BY <1>2, <2>1 DEF Changes, Parts, Back
  <2> QED BY <1>2, <2>1, <2>2 DEF Appends
<1>4. Joins(Resumed', ref', queue')
  <2>1. DestroysFirst(queue')
    BY <1>1, <1>2 DEF Parts, Joins, Appends, Silent
  <2>2. ASSUME NEW s \in Services
        PROVE  ~NoneFor(Connections, s, queue') \/ (ref[s] /\ None({"destroy"}, queue'))
    <3>1. ~NoneFor(Connections, s, queue) \/ (ref[s] /\ None({"destroy"}, queue))
      BY <1>1 DEF Parts, Joins
    <3> QED BY <1>2, <3>1 DEF Appends, Silent
  <2> QED BY <1>1, <2>1, <2>2 DEF Joins
<1>5. CASE ~Followed'
  BY <1>3, <1>4, <1>5, UnfollowedKeeps
<1>6. CASE Followed'
  <2>1. \A kinds, s : None(kinds, queue) /\ NoneFor(kinds, s, queue)
    BY <1>1, <1>6 DEF None, NoneFor, PlacesFor, PlacesOf
  <2>2. None({"revoke"}, queue') /\ None(Connections, queue') /\ ~Open(menu', queue')
    BY <1>1, <1>2, <2>1 DEF Appends, Silent, Open
  <2>3. \A s \in Services : NoneFor({"destroy"}, s, queue')
    BY <1>2, <2>1 DEF Appends, Silent
  <2>4. Meant(Followed', menu', queue') /\ Doomed(Followed', queue')
    BY <2>2, <2>3 DEF Meant, Doomed
  <2>5. Late(Agreed', menu', prefs', Running', queue')
    BY <2>2 DEF Late
  <2>6. Seen(ref) = Running
    BY <1>1, <1>6 DEF Seen, Running
  <2>7. Fits(Agreed', menu', prefs', shown', Running', queue')
    <3> SUFFICES ASSUME Agreed'
                 PROVE  IF shown' THEN None({"stop"}, queue') /\ (Running # {} \/ ~None({"start"}, queue'))
                        ELSE /\ None({"start"}, queue')
                             /\ prefs # {} => \A s \in Running : ~NoneFor({"stop"}, s, queue')
      BY <1>1 DEF Fits
    <3>1. ~asking'
      BY DEF Agreed
    <3>2. /\ None({"stop"}, queue') <=> None({"stop"}, b)
          /\ None({"start"}, queue') <=> None({"start"}, b)
          /\ \A s : ~NoneFor({"stop"}, s, b) => ~NoneFor({"stop"}, s, queue')
      BY <1>2, <2>1 DEF Appends
    <3>3. CASE shown
      <4>1. ~shown' /\ None({"start"}, b) /\ \A s \in Seen(ref) : ~NoneFor({"stop"}, s, b)
        BY <1>2, <3>3 DEF Changes
      <4> QED BY <2>6, <3>2, <4>1
    <3>4. CASE ~shown
      <4>1. CASE prefs # {}
        <5>1. /\ shown' /\ None({"stop"}, b)
              /\ prefs \ Seen(ref) # {} => ~None({"start"}, b)
          BY <1>2, <3>1, <3>4, <4>1 DEF Changes
        <5> QED BY <2>6, <3>2, <4>1, <5>1
      <4>2. CASE prefs = {}
        <5>1. ~shown' /\ None({"start"}, b)
          BY <1>2, <3>4, <4>2 DEF Changes
        <5> QED BY <3>2, <4>2, <5>1
      <4> QED BY <4>1, <4>2
    <3> QED BY <3>3, <3>4
  <2> QED BY <1>3, <1>4, <2>4, <2>5, <2>7 DEF PartsNext
<1> QED BY <1>5, <1>6

LEMMA SwitchInit == Init => SwitchInv
<1> SUFFICES ASSUME Init PROVE SwitchInv
  OBVIOUS
<1>1. TypeOK
  BY TypeInit
<1>2. queue = << >> /\ ~Resumed /\ ~Followed /\ ~Agreed
  BY DEF Init, Resumed, Followed, Agreed
<1>3. \A kinds, s : None(kinds, queue) /\ NoneFor(kinds, s, queue)
  BY <1>2 DEF None, NoneFor, PlacesFor, PlacesOf
<1>4. Parts
  BY <1>2, <1>3 DEF Parts, Back, Joins, Meant, Doomed, Late, Fits
<1> QED BY <1>1, <1>4, PartsAre

LEMMA SwitchNext == SwitchInv /\ [Next]_vars => SwitchInv'
<1> SUFFICES ASSUME SwitchInv, [Next]_vars PROVE SwitchInv'
  OBVIOUS
<1>1. TypeOK /\ Parts /\ TypeOK'
  <2>1. TypeOK /\ Parts
    BY PartsAre
  <2> QED BY <2>1, TypeNext
<1>2. CASE UNCHANGED vars
  <2>1. UNCHANGED <<prefs, screen, ref, started, queue, disturbed>> /\ Running' = Running
    BY <1>2 DEF vars, tunnel, shell, screen, Running
  <2> QED BY <1>1, <2>1, QuietKeeps, PartsAre
<1>3. CASE Launch \/ Prefer \/ Leave \/ Die \/ \E ok \in BOOLEAN : Answer(ok)
  BY <1>1, <1>3, AwayKeeps, PartsAre
<1>4. CASE Resume \/ CreateMenu \/ Click \/ Pause \/ Revoke
  BY <1>1, <1>4, ResumeKeeps, CreateMenuKeeps, ClickKeeps, PauseKeeps, RevokeKeeps, PartsAre
<1>5. CASE ThreadEnds \/ CreateService \/ \E p \in Procs : ProcessExits(p)
  <2>1. UNCHANGED <<prefs, screen, ref, started, queue, disturbed>> /\ Running' = Running
    BY <1>5 DEF ThreadEnds, CreateService, ProcessExits, OthersUnchanged, T!Leave, T!Create,
                shell, tunnel, screen, Running
  <2> QED BY <1>1, <2>1, QuietKeeps, PartsAre
<1>6. CASE StartTunnel \/ ServeTunnel \/ StopTunnel \/ DestroyTunnel
  <2>1. PartsNext
    BY <1>1, <1>6, TunnelHandles, CloseKeeps
  <2> QED BY <1>1, <2>1, PartsAre
<1>7. CASE StartShell \/ StopShell \/ DestroyShell \/ Revoked
  BY <1>1, <1>7, ShellHandles, RevokedKeeps, PartsAre
<1>8. CASE \E s \in Services : Bind(s) \/ Connected(s)
  BY <1>1, <1>8, BindKeeps, ConnectedKeeps, PartsAre
<1> QED BY <1>2, <1>3, <1>4, <1>5, <1>6, <1>7, <1>8 DEF Next, Main

(* What is on its way leads to a switch that is right, after every step.   *)
THEOREM MessagesCorrect == Spec => []SwitchInv
BY SwitchInit, SwitchNext, PTL DEF Spec

(* Whatever the user, the services and the system do in whatever order:    *)
(* when the activity is connected and nothing is pending, its switch is on *)
(* only if a service runs, and it is on if one runs and any is selected.   *)
THEOREM SwitchCorrect == Spec => []SwitchIsRight
<1>1. SwitchInv => SwitchIsRight
  <2> SUFFICES ASSUME SwitchInv, Settled, ~disturbed
               PROVE  (shown => Running # {}) /\ (Running # {} /\ prefs # {} => shown)
    BY DEF SwitchIsRight
  <2>1. Agreed /\ menu /\ queue = << >>
    BY DEF Settled, Agreed, Followed
  <2>2. \A kinds, s : None(kinds, queue) /\ NoneFor(kinds, s, queue)
    BY <2>1 DEF None, NoneFor, PlacesFor, PlacesOf
  <2>3. ~Open(menu, queue) /\ Fits(Agreed, menu, prefs, shown, Running, queue)
    BY <2>1, <2>2, PartsAre DEF Parts, Open
  <2> QED BY <2>1, <2>2, <2>3 DEF Fits
<1> QED BY <1>1, MessagesCorrect, PTL
=============================================================================
