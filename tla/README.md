# Nroxy in TLA+

Nroxy is an Android application that sends the traffic of other applications
through an HTTP proxy.  A `VpnService` hands it a tun device; a native thread
(`tun2http`, C) reads IP packets from it, plays the remote side of TCP, UDP and
ICMP, and talks to the proxy or to the destinations through sockets of its own.
These modules model the native core, the Java services and the activity that
switches them; the configurations check them with TLC and the `*Proofs` modules
hold proofs for TLAPS.  C files are in `src/app/src/main/cpp/tun2http/`, Java files in
`src/app/src/main/java/dev/nondanee/nroxy/`.

## Inventory

| component | state it keeps | operations | what makes it correct |
|---|---|---|---|
| sequence numbers, `util.c` | none | `compare_u32` | agrees with the serial number order for numbers in use together |
| TCP session, `tcp.c` | state, socket, numbers of both streams, acknowledged number, window, queue of client segments, CONNECT progress, time | `handle_tcp`, `check_tcp_socket`, `monitor_tcp_session`, `check_tcp_session`, `queue_tcp`, `write_*` | every byte and flag is counted once, in order; socket and state agree; what ends is closed and freed |
| event loop, `session.c`, `ip.c` | list of sessions, epoll registrations, counts of the pass | `handle_events`, `check_allowed`, `init`, `clear`, `check_tun`, `handle_ip` | events never outlive sessions; the limit; checks go on |
| UDP sessions, `udp.c` | active, finishing, closed; time | `handle_udp`, `check_udp_socket`, `check_udp_session` | one session for a flow; sockets closed once; freed in the end |
| ICMP sessions, `icmp.c` | stop, time, identifier | `handle_icmp`, `check_icmp_socket`, `check_icmp_session` | the same, and answers keep their identifier |
| native thread, `tun2http.c`, `TunnelService.java` | `vpn`, `thread_id`, pipe, arguments | `onCreate`, `start`, `stop`, `onRevoke`, `onDestroy`, `jni_*` | one thread, which ends before its descriptor and sessions go |
| packets, `ip.c` | none | `handle_ip` up to the dispatch, `get_uid` | a whole packet gets to its handler with its transport header |
| checksums, `util.c`, `write_*` | none | `calc_checksum`, `write_tcp`, `write_udp`, `write_icmp` | a receiver accepts what is computed in pieces |
| pure parsers, `http.c`, `tls.c`, `dns.c` | none | `patch_http_url`, `parse_tls_header`, `get_qname` | find what is there, once, and nothing in a part |
| DHCP, `dhcp.c` | the session's source address | `check_dhcp` | sessions of other flows are left alone |
| Node.js process, `ShellService.java` | process, two reader threads, messenger | `start`, `stop`, `onDestroy` | no process is left that cannot be stopped |
| activity, `MainActivity.java` | references to the services, the switch | `onResume`, `onPause`, `syncToggle`, the listener, `onServiceConnected`, `onActivityResult` | the switch shows what runs; nothing is switched off by itself |
| preferences, views | preferences | dialogs | user interface, not modelled |

Packets come from the tun device one by one and go to the handler of their
protocol; epoll reports the pipe, the tun device and the sockets of sessions in
one batch; between two batches the loop counts, monitors and checks all
sessions.  All of this is one thread, so handlers do not interleave with each
other.  What is hard is the order of things: what the batch holds, when the
kernel completes a connect or a send fails, what the client repeats, how time
passes, and what the main thread of the application does meanwhile.

The activity asks the services for things by intents, which the main thread
handles one after the other, and looks at them through references that it got
when it was last connected.  Changing the switch runs its listener, be it the
user or `syncToggle` that changes it.  So what is hard there is that the
activity acts on what a service was, while an intent is on its way, the native
thread or the process has ended, or Android has destroyed one side.

## Modules

`SeqNum` - numbers on a circle of `2 * Half` values, which stands for 2^32, and
`compare_u32` by its two int subtractions.  When one overflows, which is
undefined, the two comparisons have the values `OverflowLess` and
`OverflowMore`; the runs take those of wrapping subtraction.  The ends of the
type and the jump between them are at the same place for any `Half`.

`TcpSession` - one session.  Its variables are the fields of `tcp_session`;
`phase`, `batch` and `flags` are the place in `handle_events`, the events of
the batch still to be handled and the flags of the session's own event.

| actions | code |
|---|---|
| `MonitorSession`, `NothingToMonitor` | first pass over the sessions, `monitor_tcp_session` |
| `SkipCheck`, `CloseSession`, `KeepClosed`, `FreeSession`, `KeepSession` | second pass, `check_tcp_session` |
| `Poll` | `epoll_wait`: any of the requested events and an error, in any order with the tun device |
| `ClientPacket` | `handle_tcp`, one disjunct for each way through it, for any packet the client may send |
| `TunDrained` | the tun device is not readable any more |
| `SocketError`, `TunnelOpened`, `TunnelRefused`, `SendSynAck`, `ForwardAndRead` | `check_tcp_socket` |
| `LoopFails`, `StartLoop`, `Clear` | the thread fails, the next starts (`check_allowed`), `clear` |
| `Connected`, `Age` | the kernel and the clock |

The client is any TCP that sends its stream from `RemoteStart`, in segments of
any cut, repeats them in any order and as often as it likes, acknowledges any
position it may have reached, advertises any of `Windows` and resets when it
likes.  Bytes are positions: `sent` counts those that `check_tcp_socket` took
for sent, `taken` those the socket took, `received` those read from the server.

`TcpLifecycle` is the abstract specification of a session, as the event loop
sees it: no session, active, finishing (to be closed by the next check),
closed; with or without a socket.  `TcpSession` implements it under the mapping
`Life` (property `ImplementsLifecycle`).  The steps themselves are operators of
`SessionLife`.

`SessionTable` - the event loop with the list of all sessions: UDP and ICMP
from their files, TCP by the steps of `SessionLife`, so what is shown of
`TcpSession` justifies them here.  `table` maps the address of a session to
its fields; a freed address may be given out again, so `EventsHaveSessions` is
about dangling pointers.  `check_dhcp` overwrites the source address of its
session (`AnswerDhcp`), which then belongs to the flow `Answered`.  `age` is the time since the session was last used.

`TunnelThread` - the main thread of the application in `TunnelService` and the
JNI functions, step by step, against the native thread, which is seen as
created, in its loop, or in one of the steps of its end.  `failed` is a history
variable: a thread has ended unasked, or could not be created, since the last
start with an empty pipe.

`TunnelLife` is the abstract specification of the tunnel: whether the service
exists, whether it has a tun device, whether a native thread serves it; a
device is closed only when nobody serves it.  `TunnelThread` implements it
(property `ImplementsLife`), with the device for `vpn # NULL` and serving for a
thread that uses it.

`App` - the activity, both services and the queue of the main thread, with the
tunnel as a `TunnelLife` (`T!Open` and so on), so what is shown of
`TunnelThread` justifies it here.

| actions | code |
|---|---|
| `Launch`, `Resume`, `CreateMenu`, `Pause`, `Answer`, `Leave` | the life of `MainActivity`; `Resume` binds both services |
| `Click` | the user's click, and the listener it runs (`SetChecked`) |
| `CreateService`, `Bind`, `Connected` | a service is created, bound, and the activity told of it |
| `StartTunnel`, `ServeTunnel`, `StopTunnel`, `Revoked`, `DestroyTunnel` | `TunnelService` |
| `StartShell`, `StopShell`, `DestroyShell` | `ShellService`, whose process is one of `Procs` |
| `ThreadEnds`, `ProcessExits`, `Revoke`, `Die`, `Prefer` | the native thread, the process, another VPN, Android and the preferences |

`queue` holds the messages in their order.  `disturbed` is a history variable:
since it resumed, something happened that the code never tells the activity of
(a failed `exec`, a revoked VPN), or the user clicked, or the activity
resumed, while a stop was on its way.  `SwitchIsRight` is about the rest, and
`SwitchInv` is what it rests on.

`SetChecked` is `CompoundButton.setChecked` with the listener of
`onCreateOptionsMenu`.  A switch that is telling its listener does not call it
again, so when nothing is selected and the listener turns the switch off
(`MainActivity.java:127`), nothing is stopped.  A service may then go on behind a
switch that is off: it was started, the user took all services out of the
selection, and a new activity is connected to it.  `SwitchIsRight` therefore
wants the switch on for a running service only while any is selected; no comment
of the code promises more.  When nothing runs it wants the switch off, whatever is
selected.

`onRevoke`, which the code runs on a binder thread, is a message here.

The pure functions are modules of operators, each with a reference definition
and a predicate that relates the two:

* `Checksum`: `calc_checksum` against a receiver that sums all at once.
* `HttpPatch`: `patch_http_url` on sequences of tokens, against the request
  with its target made absolute; what follows the segment in its buffer is a
  parameter, as the code reads there.  A method and `Host:` are tokens with the
  space after them.
* `TlsHello`: `parse_tls_header` on numbers, against a hello that is encoded
  from its extensions, and against every part of it.
* `DnsName`: `get_qname`, against a message into which names are written,
  compressed or not, within the sizes of RFC 1035 (`IsName`, `CanPointTo`):
  the buffer of `get_qname` and its counter of 8 bits are made for these, and a
  pointer cannot say more.
* `IpPacket`: `handle_ip` up to its dispatch, against where the transport
  header is.

`MC*` modules bound the constants for TLC; `MCParsers` grows an input of each
kind step by step, so that TLC meets all of them up to its bounds.

## Runs

| run | what it asks |
|---|---|
| `parsers` | every pair of a circle of 16, every buffer, request, hello, message and packet up to the bounds |
| `tcp_direct` | a session on a port without proxy, windows of 0 and 1 bytes, data on the SYN, the client's numbers crossing zero and ours crossing 2^31 or not |
| `tcp_tunnel` | port 443 with CONNECT: socket and numbers, which the tunnel could break, the life of a session that CONNECT takes back, and liveness, with both sides' numbers crossing 2^31 |
| `session_table` | UDP flows to port 53 and of DHCP, one ICMP and one TCP flow, two addresses for sessions, a limit of one |
| `tunnel_thread` | starts, stops, destruction and failures, two threads and two descriptors |
| `app` | clicks, pauses and preferences, both services, two processes, two pending messages when the user clicks |

The properties, by what they guard:

* `SequenceAccounting`, `NeverBackwards`, `QueueInOrder`, `WithinWindow`,
  `FinAfterForward`: the two streams.  Each byte, SYN and FIN moves the numbers
  once, whatever is repeated, reordered, sent in part or refused.
* `SocketAgreesWithState`, `EventHasSession`, `EventsHaveSessions`,
  `SocketUntilClosed`: no handler meets a closed socket or a freed session.
* `ClosedForGood`, `NoRevival`, `OneSessionPerFlow`: the life of a session.
* `BusyIsKept`, `OverLimitIsShed`: the limit.  The count it is compared with is
  that of the last pass, so a batch may open more sessions than the limit says;
  timeouts are scaled by the count, which keeps what is in use as long as the
  limit is not passed and sheds what is idle from there on.
* `ClosingIsClosed`, `ClosedIsFreed`, `IdleIsClosed`, `EndedIsFreed`,
  `StopReturns`, `StopIsDone`: what must happen in the end.
* `RunningThread`, `ClearIsAlone`, `TunnelIsServed`, `NothingLeft`: the two
  threads.
* `ProcessHeld`, `SwitchIsRight`, `SyncStopsNothing`: the switch and what it
  stands for, and that only a click on a switch that is on stops anything;
  `SwitchInv`: that the messages on their way lead there.
* `CompareCloseNumbers`, `ChecksumIsAccepted`, `RequestIsForProxy`,
  `HelloIsUnderstood`, `NamesAreUnderstood`, `PacketIsDelivered`: the pure
  functions.
* `ImplementsLifecycle`, `ImplementsLife`: the abstract specifications.

Some of these leave out what the code is written to do, or what it does without
saying more: `TunnelIsServed` a tunnel whose thread failed or met a stray byte;
`OneSessionPerFlow` the flow that DHCP relabels sessions to; `ClosedForGood` a
session on port 443 that CONNECT takes back; `BusyIsKept` counts beyond the
limit, where the timeout is negative; `SequenceAccounting` does not mind a SYN
that is acknowledged before the tunnel is open; `RequestIsForProxy` is about
requests in which no method follows that the code looks for earlier;
`PacketIsDelivered` about whole packets without extension headers (a fragment may
get to a handler: `ip.c:113` looks for the flag in the wrong byte);
`HelloIsUnderstood` about hellos that are well formed, and their parts.

Six more runs each check one thing the code says of itself and does not keep,
and end in a counterexample:

| run | what the code says | what happens |
|---|---|---|
| `tcp_future_ack` | `tcp.c:890` logs a "future ACK", `util.c:27` names RFC 1982 | numbers on the two sides of 2^31 are ordered the wrong way: a repeated acknowledgement of written data resets the session |
| `tcp_repeated_syn` | `tcp.c:812`, a repeated SYN does nothing | on port 443, before the connect is done, it resets the session |
| `tcp_stale_head` | `tcp.c:295`, data are always forwarded | an overlapping segment stays at the head of the queue and blocks it |
| `tcp_lost_data` | `tcp.c:333`, a failed send is retried | `sent > len` compares -1 as unsigned; the bytes count as sent and are acknowledged |
| `icmp_id` | `icmp.c:105`, the original identifier is restored | it is the identifier of the session's first request |
| `ip_extensions` | `ip.c:142`, extension headers are skipped | the walk stops one header early and is undone; nobody handles the packet |

### Bounds

* `Half = 8`: 16 numbers hold streams of 2 bytes with SYN and FIN on both sides
  and every position relative to zero and to the sign change.  The starting
  numbers put a crossing inside the stream.
* Streams of 2 bytes on each side: two segments that follow one another, one
  that covers both, one that overlaps the end of the other, and each repeated.
  Partial sends need a segment of 2.
* Windows of 0, 1 and 2 bytes, two of them in a run: closed, smaller than what
  the server has to send, and all of it.
* Two addresses for sessions and a limit of one: the limit is met, passed in a
  batch, and an address reused.  Two flows of DHCP, one of them the one that
  answered sessions turn into.  Timeouts of 1 and 2 ticks with ages up to 3.
* `MaxBytes = 2`: a tunnel is not started with more than two stray bytes in the
  pipe.  Each needs a failure at one point of a stop.  The full pipe, on which
  the write in `jni_stop` would fail, is 65536 of them away.  After a failed
  write `jni_stop` skips the join and frees the sessions all the same.  The other
  way to that is a pipe that `jni_init` could not create; neither is modelled.
* `MaxPending = 2`: the user clicks while fewer messages than that are pending;
  the messages that follow from a step are not bounded.  Two processes: one
  that is held and one that was told to end and has not yet.
* Bytes of two values and buffers of 9: the sum carries twice.  Requests of 6
  tokens hold a method, a target, a host header and its end.  Hellos have up to
  two extensions of up to two names, before and after the one that counts;
  messages three names, the last reached through two pointers.

### Fairness

The loop thread runs and handles its batch (weak fairness of its steps).
Checks may be skipped when the last one is less than 100 ms ago, but `get_ms`
goes on, so closing and freeing have strong fairness.  The client does not keep
the tun device readable for ever (`TunDrained`): the inner loop of
`handle_events` would not end otherwise, and this is an assumption about
clients, not a guarantee of the code.  Time passes (`Age`, `Tick`).  The loop
may stop at any time, so liveness is "or the thread has stopped".  In
`TunnelThread` both threads run, and epoll reports the pipe as long as a byte
is in it.  In `App` the main thread goes on with its messages, and a native
thread that is asked to end does, which is `StopReturns`.

## Proofs

`tlapm` checks what follows for every value of the constants, from the named
assumptions on them.  Where a theorem needs more of the constants, its
statement says so, by a definition with a name.

| module | invariant | what follows |
|---|---|---|
| `SeqNumProofs` | | `CompareCloseIsSerial`; the ring laws of `Add` and `Sub` |
| `TcpSessionProofs` | `IInv` | `TypeOK`, `SocketAgreesWithState`, `EventHasSession`, `FinAfterForward`, `ClosedForGood`, the refinement of `TcpLifecycle` |
| `TcpStreamProofs` | `StreamInv` | `SequenceAccounting`, `NeverBackwards`, `WithinWindow`, `QueueInOrder` |
| `TunnelThreadProofs` | `IInv` | `TypeOK`, `RunningThread`, `ClearIsAlone`, `NothingLeft`, `TunnelIsServed`, the refinement of `TunnelLife` |
| `SessionTableProofs` | `IInv` | `TypeOK`, `EventsHaveSessions`, `OneSessionPerFlow`, `SocketUntilClosed`, `NoRevival`, `BusyIsKept`, `OverLimitIsShed` |
| `AppProofs` | `ShellInv`, `SwitchInv` | `TypeOK`, `ProcessHeld`, `SyncStopsNothing`, `SwitchIsRight` |
| `ParserProofs` | `MessageInv` | `CompareCloseNumbers`, `PacketIsDelivered`, `ChecksumIsAccepted`, `RequestIsForProxy`, `HelloIsUnderstood`, `NamesAreUnderstood` |
| `SetInduction` | | `NatInSet`: induction over the numbers |

**A session and the event loop.**  `IInv` of `TcpSession` is the type
invariant, `SocketAgreesWithState`, `EventHasSession` and `FinAfterForward`,
with two facts they need.  `BatchInPhase` says that events are pending only
while a batch is handled, so the steps between batches, the only ones that
close a socket but for the session's own event, cannot break
`EventHasSession`.  `NoDataBeforeTunnel` limits the states before CONNECT is
answered: there any packet may set the state to LISTEN, which needs a socket.
The argument goes by groups of actions (the loop, a packet, the session's
event); `OneEvent`, a batch holds one event of the session at most, is the
lemma behind the last group.  In the refinement, `Life` and the phase map each
step to one of the abstract actions (the time passing and the kernel's connect
to a stutter).  It needs `IInv`: a handler of the session's event is an abstract
`Event` because the session has its socket then, and a FIN closes a session at
once only where the socket has gone.

**The streams of a session.**  `SequenceAccounting` equates numbers that
`handle_tcp` and `check_tcp_socket` move at different times with what was
queued, sent and received, so `StreamInv` adds what is known between those
moments: `Waiting`, that nothing has moved before the handshake is over and
that no event makes an answered SYN be answered again; `QueueInStream`, that
segments lie within the stream; and `StreamBounds`, that the acknowledged
number is between the start and what was sent.  The number of positions a queue
covers is a cardinality, hence the lemmas about a queue into which one segment
is inserted (`Inserted`) or from which the head goes.  Three theorems have a
hypothesis on the constants:

* `AdvanceCorrect` has `SmallSteps`: stream and segment size are below half the
  circle, 2^31 bytes.  The segment size is an option of 16 bits; a longer
  stream wraps, and "forward" means nothing between its ends.
* `WindowCorrect` has `SmallFlight`: what the server has to send is at most a
  quarter of the circle, 2^30.  A repeated acknowledgement takes `acked` back,
  and from 2^31 on `compare_u32` takes it for one of the future, so the window
  alone does not bound what is in flight.
* `QueueCorrect` has `OneSign`: the client's numbers do not pass from 2^31 - 1
  to 2^31.  There `compare_u32` orders two neighbours the wrong way, which is
  the finding of `tcp_future_ack`; zero they may pass.

**The native thread.**  The heart of `IInv` is `OwnsThreadId`: a thread that is
yet to clear `thread_id` is the one it holds, so the unlocked assignment at its
end never hides another thread; that is what makes `jni_stop` find whatever
runs (`FoundRunning`), and so `RunningThread`, `ClearIsAlone` and `NothingLeft`
follow.  `ServedCorrect` adds that a tunnel without failure is served.  In the
refinement of `TunnelLife` each step is one of its actions or a stutter, and
`RunningThread` is why closing the device is one that nobody serves.

**The list of sessions.**  `ReadyInPhase` (events are pending only while a batch
is handled) is what `IInv` adds to the safety invariants: the check, the only
step that frees a session or closes its socket, then meets no pending event, and
so `EventsHaveSessions` holds.  `OneSessionPerFlow` needs the search of the
handlers to see every session of the flow, but for ICMP the stopped ones.
`BusyIsKept` and `OverLimitIsShed` are arithmetic: `ScaledSign` says that the
timeout scaled by the count is not negative up to the limit and not positive
from there on, although C divides towards zero, and `CheckedByPass` what the
pass over the list makes of one session.

**The switch.**  `SwitchIsRight` speaks of an empty queue only, so `SwitchInv`
says what the messages that are on their way will come to.  TLC checks it too,
in the run `app`, where it stands for `TypeOK`, which is its first part.

| part of `SwitchInv` | what it says |
|---|---|
| `Connects` | a resumed activity has its references or waits for them, and whatever destroys a service comes before it is connected |
| `ComesBack` | a started service that is to be destroyed has an intent after that, which creates it again |
| `StopsAreMeant` | until the activity is connected, no stop is on its way, and no revocation at any time |
| `DestroyedComesBack` | a service that is to be destroyed is bound or started again before the last connection |
| `LateStartsFit` | a start behind the last connection goes with a service that runs at that connection, so it turns nothing on the switch would not show |
| `SwitchFits` | once connected: with the switch on nothing stops and something runs or starts; with it off nothing starts and, if any service is selected, all that runs is asked to stop |

Each action has a lemma that it keeps the parts.  `syncToggle` needs a state
midway, after the references were looked at and before `setChecked` has run its
listener, whose intents are then appended one by one; lemmas about a queue that
loses its head, gets a message at its end or loses some of its messages carry
the parts over.  `SyncStopsNothing` needs only the types: `setChecked` sends stops
only when it turns the switch off and sees a service that runs, which
`syncToggle` never does (`CheckOnlyStarts`), and no other step but the user's
click appends a stop.

**The pure functions.**  `EndAround`, the remainder modulo all ones that is zero
for zero only, is a closed form of the loop that folds carries (`FoldedIs`), and
sums that differ by a multiple of all ones fold alike; so a sum that was folded
in between and stored complemented makes the receiver's all ones, for buffers of
any length, with an odd last byte or not, and bytes of any size.
`PacketIsDelivered` holds for any length of options and any protocol number.

The parsers of text are loops that go from place to place and need not end: a
pointer of a DNS message may lead to itself.  A function that is defined by such
a loop exists nevertheless, and that is `LoopIsFunction`: two places have the
same value if the loop from one comes to the other, and where it never stops any
value will do.  What is proved of the loops is what one step makes of an entry
(`EntryAt`), an extension (`ExtensionAt`) or a label; induction over the places
does the rest.  `FlattenedIs` says where each part is in what the encoders
write.

* `RequestIsPatched`: the request's method, the `Host:` header and the end of its
  line are where `find_data` finds them (`FoundAt`, `PatchedIs`, `HostIs`), also
  after the target was inserted before them.
* `HelloIsRead`: `HelloIs` gives the places of the fields in a hello, so the
  three skips of `parse_tls_header` come to the extensions; in a part of a hello
  the length of the record is larger than the segment.
* `NamesCorrect` has an inductive invariant, `MessageInv`: each name of a message
  is a pointer to a name before it, or a label followed by the end or by another
  name of the message.  `MessageGrows` keeps it when a name is appended
  (`StillHolds` for the names before), and `EveryNameIsRead` draws from it that
  the loop finds the labels: by induction on the number of labels and, within
  it, on the place, as a pointer keeps the labels but leads back.  `IsRead`
  speaks of a loop with labels already written, as many as leave room for the
  rest, because that is how a name continues.

`SetInduction` is why this is possible: the theorems of the library about
induction have an operator as a parameter, which no backend here can instantiate;
with a set of numbers in its place they follow from the well-foundedness of `<`.

The SMT encoding of `tlapm` 1.4.5 has an axiom that makes a sequence of every
value: `Len(s) = n <=> DOMAIN s = 1 .. n` for all `s` and `n`.  Next to a function
on another domain it is contradictory.  So that no proof rests on it, all of them
were also checked with `=>` from right to left in its place (and `Seq` as it is),
through a solver command (`--solver`) that rewrites the axiom before it calls Z3.

### Only model-checked

* Liveness: `ClosingIsClosed`, `ClosedIsFreed`, `IdleIsClosed`, `EndedIsFreed`,
  `StopReturns`, `StopIsDone`.  The prover does not reason about fairness, which
  is about `ENABLED`.
* That the runs that end in a counterexample do so is shown by TLC; a theorem
  would be about one trace.

## What is left out

* In the models of sessions: bytes, addresses, options, host names, checksums.
  Whether a host name is known is a choice.  So are the room in the socket's buffer, a receive window
  that opens again, whether a check is due and whether a write to the tun
  device succeeds: the models allow more than the code does.
* A socket that cannot be opened or added to epoll: the first changes no state,
  the second leaves a session without events until its timeout.
* A pipe that could not be created, and a write to it that fails.
* Memory behind a segment: a TLS hello whose lengths contradict each other.
* A wakeup with EPOLLHUP alone: the handler changes nothing but the time.
* `get_uid`, which reads `/proc/net` for a number that is only logged; what is
  read of DNS messages beside names, which is only logged; the fields of
  headers and of DHCP answers; requests over several segments.
* `onRevoke` at the same time as a stop on the main thread.
* The readers of the Node.js process and the text view; preferences.
* `block_udp`, `get_header`, `next_header` (nothing calls them), the `pcap` remains, and the lock, which only
  the loop thread takes.
* A session's handlers are atomic in `TcpSession` and `SessionTable`; that no
  other thread touches sessions meanwhile is `ClearIsAlone`.

## Plan

1. Done: `SeqNum`, `TcpSession` with `TcpLifecycle`, `SessionTable`,
   `TunnelThread` with `TunnelLife`, `App`, the pure functions, their runs and the
   two refinements.
2. Done: every safety invariant and action property of the stateful modules as a
   theorem, with the streams of `TcpSession`, the limit of `SessionTable` and the
   switch of `App`.
3. Done: the invariants about the pure functions.  Every invariant and every
   property without fairness that a passing run checks is stated by a theorem.
4. A second thread in `TunnelThread` that runs `onRevoke`.
