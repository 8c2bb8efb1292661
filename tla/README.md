# Verification of the DotVPN client

The repository is an Android VPN client: an application in Java
(`DotVpn/src/com/kernel5/dotvpn`) that runs OpenVPN 2.x as a process
(`DotVpn/openvpn`, with vendored OpenSSL, LZO and Snappy) and steers it over the
management interface. This directory holds TLA+ models of the parts of it that
have state worth arguing about, TLC configurations that check them on small
instances, and proofs, checked by TLAPS, of what holds for every instance.

Paths below are relative to `DotVpn/openvpn/src/openvpn` for `*.c` and `*.h`, and
to `DotVpn/src/com/kernel5/dotvpn/core` for `*.java`.

    tlc -config ReliableUdp.cfg MCReliable        one run
    tlapm TlsMulti_proofs.tla                     the proofs of a module

## 1. Inventory

| Component | State | Operations | Talks to |
|---|---|---|---|
| Reliability layer (`reliable.c`) | per key state: `send_reliable`, `rec_reliable`, each a window of buffers and a next packet id; `rec_ack`, an array of at most 8 ids | store, acknowledge, retransmit, deliver in sequence, purge what was acknowledged | called by `tls_process` and `tls_pre_decrypt` |
| TLS session (`ssl.c`) | `tls_session`: a primary and a retiring key state, each from `S_INITIAL` to `S_ACTIVE` or `S_ERROR`; the next key id | hard reset, soft reset, key exchange, time-out, retirement, choice of the key | the reliability layer below, data channel and `tls_multi` above |
| TLS multi (`ssl.c`) | three sessions: active, untrusted, lame duck | promotion of an authenticated session, demotion or reset of a failed one | every TLS session of a tunnel |
| Replay protection (`packet_id.c`, `crypto.c`) | a send counter; highest id and a list of arrival times; a file | give out an id, test and add, reap, persist | data and control channel |
| Fragmentation (`fragment.c`) | ring of 25 reassembly buffers keyed by an 8-bit sequence id | split, join, expire | data channel |
| Management interface (`manage.c`) | `hold_release`, output queue, the query in progress | hold, credential query, signals by command | the application, over a local socket |
| Restart loop (`openvpn.c`, `init.c`, `sig.c`, `ping.c`, `occ.c`, `push.c`) | the pending signal; contexts of three levels, of which a signal clears one, two or all | SIGUSR1, SIGHUP, SIGTERM, ping time-out, exit notification, push request and reply | everything |
| Event loop (`forward.c`, `event.c`, `socket.c`) | one packet of each direction under way; timers | read, process, write | everything |
| Server multiplexing (`multi.c`, `mbuf.c`, `pool.c`, `schedule.c`, `mroute.c`) | client instances, address pool, deferred packets, timer treap | learn, defer, reclaim, close | one context per client; never run by the shipped client |
| Management thread (`OpenVpnManagementThread.java`) | `mReleaseHold`, `mWaitingForRelease`, `mSocket`, static list `active` | pause, resume, reconnect, stop; handle HOLD, PASSWORD, NEED-OK, STATE, BYTECOUNT | process over a socket; main thread by unsynchronised fields |
| Device state (`DeviceStateReceiver.java`) | `network`, `userpause`, `screen`, `lastNetwork` | network change, screen on and off, pause by the user | management thread |
| Service lifecycle (`OpenVpnService.java`, `OpenVPNThread.java`, `OpenVPN.java`) | `mProcessThread`, `mManagement`, the receiver; status listeners | start, restart, stop, revoke, end of the process | both threads |
| Tunnel device, routes, options; cryptography, certificates, compression; JNI glue; screens, account and statistics; vendored libraries | configuration, or none | I/O, pure data transformation, layout | - |

What makes each correct, and what is hard about it:

* **Reliability layer.** Records reach TLS once, complete and in order; an
  acknowledgement is never ahead of the record; neither window clogs; everything
  written is delivered in the end. Hard: loss, repetition and reordering against
  two bounded buffers and an array of acknowledgements that drops what it has
  no room for.
* **TLS session.** The two peers agree on which keys belong together, although
  both may renegotiate at once, requests are repeated and key ids recycle every
  seven keys; the key a peer encrypts with is one the other still or already
  has; a negotiation ends.
* **TLS multi.** Nobody takes the place of the peer before authentication; a
  failed negotiation costs no working key. Hard: three sessions that move
  between three slots while packets of any of them, and of strangers, come.
* **Replay protection.** No id is accepted twice, however the window slides,
  restarts, expires or is restored; nothing else is refused. Hard: the edges of
  the window, the wrap of the id, a reap that runs rarely, a crash.
* **Management hold.** The process runs exactly when there is a network and the
  user has not paused. Hard: two threads and a process, no lock, messages that
  cross, a sleep between a decision and its execution.
* **Service lifecycle.** What the service refers to is the session that lives;
  the end of an old one leaves nothing of it behind; a stop reaches every
  process that is connected. Hard: the threads of several sessions and no lock, sessions that overlap, a list that is
  iterated while it changes.
* **Fragmentation.** No packet of mixed fragments; a packet of which everything
  comes comes out. Hard: sequence ids and slots that are used again.
* **Server multiplexing.** No address held twice, no instance used after it is
  closed, none kept for ever, no stale route used. Hard: five structures that
  refer to an instance, and everything that may close one.

`PROJECT.json` lists the hazards at their lines, with the properties that catch
each of them.

## 2. Modules

    ReliablePid  <-  Reliable  <-  MCReliable
                        |      <-  Reliable_proofs
                        +-- Stream == INSTANCE ControlStream   (abstract specification)
    TlsSession        <-  MCTlsSession
                      <-  TlsSession_proofs
    TlsMulti          <-  TlsMulti_proofs
    PacketId          <-  PacketId_proofs
    Fragment          <-  MCFragment
                      <-  Fragment_proofs
    Multi             <-  MCMulti
                      <-  Multi_proofs
    ManagementHold    <-  ManagementHold_proofs
    ServiceLifecycle  <-  ServiceLifecycle_proofs

An arrow is EXTENDS. Between the modules the interface is what one shows of
itself to the next: `TlsSession` relies on `Reliable` to repeat and order
records, `TlsMulti` takes a session as `TlsSession` describes it and moves it
between slots, `ServiceLifecycle` has the start and the end of the process
whose middle is `ManagementHold`.

### ReliablePid, Reliable: the control channel

`ReliablePid` has the comparisons of packet ids in modular arithmetic
(`reliable_pid_in_range1`, `_in_range2`, `_min`; `Half` is half the range of the
word). `Reliable` is the layer under its two callers, for one key state of each
of two peers. The sections of the loop in `tls_process` are actions in the
conditions of that loop: `InitialHandshake`, `ReceivedInitialAck`,
`SendReliable`, `Deliver`, `Write`, and `SendAck`, which the code reaches only
when nothing can be sent. An incoming packet is `Receive`, the whole of
`tls_pre_decrypt`'s control branch: link the session and end the hold
(`reliable_schedule_now`), purge what is acknowledged, store and acknowledge
(`StoreRecord`). `snd_buf` and `rcv_buf` are sets of the active entries of the
arrays, as no operation depends on the slot. `RetryTime` is the passing of
`next_try`. The link holds packets until they are received, received and kept,
or lost, in any order.

Simplified: a record is its number; session ids and HMACs match (a packet that
fails them is dropped before it reaches this layer, which is a `Lose`); a
timer is due or not, so the exponential back-off, which doubles `timeout` and
keeps the times of two entries apart, only sets how long an entry may wait. `XmitHold` is a peer whose output is held until
linked: a TCP server. `RemoteKnown` is a peer that was given the other's address.

### ControlStream: what the layer promises

Per direction, records are written and come out in the order written, each once.
`Reliable` implements it under the identity on `written` and `delivered`
(`StreamSpec`, checked and proved).

### TlsSession: keys and renegotiation

Two key states per peer (`primary`, `lame`) with the states and the comparisons
of `ssl_common.h`. The sections of `tls_process` that move a key state are
actions; `Process` is the control branch of `tls_pre_decrypt`, soft-reset request
first, key id afterwards, as in the code. `SoftReset` is
`key_state_soft_reset` with `key_state_init`. `EncryptKey` and `DecryptKey` are
the loops of `tls_pre_encrypt` and of the data branch of `tls_pre_decrypt`. The
reliability layer is replaced by what `Reliable` shows of it: a reset and one
record `KEY`, which stands for the handshake and the key exchange, are repeated
until acknowledged. The link is an ordered queue for TCP and a bag of packets
for UDP.

The clock is an order of events. An active key may be renegotiated at any time
(`Renegotiate`), by its age, its use or its packet ids, whatever the other peer is
at. A retiring key dies only after both peers have settled the next one:
`--tran-window` (3600) is larger than `--hand-window` (60). `tls_process` runs
between any two packets that are read: `Reads` waits until no section that changes
the state is due (`Due`), and, for a server on TCP, until it has written what it
owes, as `multi_tcp_post` goes on to `TA_SOCKET_WRITE` before anything else is read from
that client. A socket that takes no output for so long that this order breaks is
left out. Sections may therefore not be skipped, but packets may wait for ever.
`S_NORMAL_OP` is merged with `S_ACTIVE`; no property or guard tells them apart.
`HandshakeTimeout` leads to `S_ERROR`, where the model of the session stops:
what happens next is `TlsMulti`'s. A soft reset that is repeated is a packet of a
UDP link like any other, delivered again by the link or sent again.

### TlsMulti: the sessions of a tunnel

`struct tls_multi` of the peer that is the TLS server, with its three slots.
`tls_pre_decrypt` is the control branch of that function: which slot a packet
belongs to (`Match`, `InitialSlot`), a hard reset of somebody unknown
(`NewLink`, which relinks an untrusted negotiation as it is), a soft reset, a
record. `tls_multi_process` is one pass: `ProcessSlot` for the active and for the
untrusted session (`tls_process`, then `HandleError`: the session moves to
`TM_LAME_DUCK` if its retiring key is good, else begins anew), then
`LameDuckDies`, then `Promote`. The pass is one action, as in the code, and is a
composition of functions of the slots. `Expire` is the passing of a key's
`must_die`; `schedule_exit` sets `single_session`. A soft reset is acted upon
whenever the primary key can decrypt (`DecryptKeyEnabled`), as one that answers this
peer's next key or as one that repeats the last request. TLS and the credentials
may fail in any state of a key, an active one too (`fails`); `error` is the code's
local variable of that name.

The other peers are sessions 1, 2, ...; each answers what it is sent, late,
repeatedly or never. A key remembers whom TLS heard in its handshake (`by`),
which the code does not: it is what `TrustedPeer` is about. Handshakes have three
records (`HELLO`, `KEY`, `ACK`), one step for each state of `tls_process` that
`tls_multi` distinguishes. Left out: hard errors and `TLSMP_KILL`, which restart
the whole process; the address of a packet, which must be that of the session;
deferred authentication.

### Fragment: splitting and reassembly

`optimal_fragment_size` and `Fragments` are the sender; `fragment_incoming` with
`fragment_list_get_buf` the receiver, whose ring slides when a new sequence id
comes and begins anew when one is too far off. `modulo_subtract` is the
distance on the circle of ids. `fragment_ttl_reap` may come at any time, as the
clock is not modelled. A buffer is represented by the packet each of its parts is
from. The watched packet and the variables after it belong to the property
`WholeComesOut`; no action is guarded by them except by `newest`, which bounds
the link. Left out: packets that need no splitting, headers with a wrong type, which
are dropped before they touch the ring, and, of authenticated packets, those with a
size that is no multiple of 4 or that would overflow the buffer. The code drops them
only after it has found the slot (`fragment.c:183`), so that they slide the ring all the
same; no sender of this program makes them.

### Multi: the server of many clients

The state is one record after `struct multi_context`, and its functions are
operators on it, so that an action is the whole of what one branch of
`multi_process_io_udp` or `multi_process_timeout` does: `SocketWrite`,
`TunWrite`, `SocketRead`, `TunRead`, `Timeout`. Each ends in `Post`
(`multi_process_post`): the client may be closed by a signal, its connection
found established (`multi_connection_established`, with duplicates of the name
deleted, an address of the pool, the connect script, routes) and it may be left
pending. Beside these are `Kill` (`kill <cn>` over the management interface),
`Reap` and `Age`. A packet is a source and a destination; the contents of
`to_tun` and `to_link` are there or not. `refcount` and `route_count` are as in
the code, `allocated` is whether an instance has been freed. Assertions are
recorded in `failed`, and the loop runs until one fails.

`multi_instance.halt`, the hash by real address, the virtual hash with its cache
and generation (`fresh`), the counts of network lengths, the pool, the pending
client and the ring of deferred packets are all modelled: the properties relate
them. `now` is the time of the pool's clock, in whole seconds: the time of the
last release or one later, the same for all that one iteration of the loop
releases, as the loop reads the clock once (`Clock`). Simplified:
`earliest_wakeup` is any live client, so the treap of `schedule.c` is left out; the
order of a broadcast is that of creation. Left out: the TCP server (`mtcp.c`), TAP,
scripts at learned addresses, the check for stale routes, fixed and persisted pool
entries, `duplicate-cn`, files for a client with a fixed address, `max-clients`,
`connect-freq`, kill by address or id.

### PacketId: replay protection

`packet_id_alloc_outgoing`, `packet_id_reap_test`, `packet_id_test` and
`packet_id_add` as operators, the first as an action and the others inside the
action `openvpn_decrypt`, in its order. `seq_backtrack = 0` is the strict
sequence of TCP. Time is a counter of seconds, and a packet sent once may arrive
at any later time, any number of times. Short and long ids (with a time stamp)
are both initial states. `packet_id_persist_save`, `Restart` and `Crash` are the
life of the `--replay-persist` file; the flush and the load are atomic.
Two entries of the list are special (`SEQ_UNSEEN`, `SEQ_EXPIRED`), so time
starts behind them.

### ManagementHold: who stops and starts the process

The three threads of control. A method of `OpenVpnManagementThread` is the
sequence of its reads and writes of shared fields and of its commands, each a
step of its thread: `releaseHold` is `set mReleaseHold`, then `check
mWaitingForRelease`. Commands are dropped before `mSocket` is set
(`managmentCommand`). The sleep of three seconds in `releaseHoldCmd` needs no
clock (it sleeps if the last release is less than five seconds old): a step may
always be long in coming. `man_read` takes all the commands a
read returned before the process does anything else, hence a number `n` of them
in `management_hold`, `management_query_user_pass` and `RunCommands`. A SIGHUP in
the hold is ignored and answered with another HOLD; one during the credential
query is fatal (`misc.c:1066`); any other restart clears `hold_release` and holds
again, unless it comes before initialisation is over. Initialisation and main loop
are one phase, `run`.

The preferences have their defaults, which no screen changes:
`netchangereconnect` is on, so the constructor clears `mReleaseHold`;
`screenoff` is off, so `screen` stays `SHOULDBECONNECTED`. Pausing by the user
is `PAUSE_VPN` and `RESUME_VPN`, which the service handles and which no other
part of the application sends, so that either may come at any time, twice in a row
too. `redundant` is a history variable that no action is guarded by: the last thing
that mattered was a resume that changed nothing. A SIGHUP while the process still
initialises restarts it without a hold, as `tunnel_point_to_point` returns before it
clears `hold_release` (`openvpn.c:76`): the second case of `RunCommands`. Stopping a session is left to `ServiceLifecycle`.

### ServiceLifecycle: sessions of the service

Session *k* is the *k*-th start. A method of `OpenVpnService` is a sequence of
codes in `todo[t]`, one per read or write of a shared field, on the thread that
runs it: the main thread (`Start`, `Stop`, `Destroy`, `networkStateChange`), the
binder thread (`onRevoke`) and the process thread of each session
(`processDied`). What a caller does at once with the first of them is one step.
`management[k]` and `client[k]` are the management thread of *k* and the process
it accepted, which need not be its own: the path of the socket belongs to the
last thread that bound it, and a process that is late connects to that one.
`stopOpenVPN` iterates over the static Vector `active` while management threads
enter and leave it: `StopVisits` is one turn, `StopFails` the exception of the
iterator, which ends the application on the main thread and only the call on a
binder thread. Each iterator remembers the list and, for the property `StopReaches`
only, which threads were serving when it began (`served`). `onDestroy` tests and
unregisters the receiver in two steps (`checkReceiver`, `dismiss`), the second of which
throws if `endVpnService` came between. A receiver that was registered without a management crashes at the
first change of network. Sleeps (one second in `onStartCommand`) are not
waited for: anything may overtake them. The intents `PAUSE_VPN` and `RESUME_VPN`
have no sender in the application. Left out: notifications, state listeners,
profiles.

## 3. Runs

| Run | Module | What it asks | Result |
|---|---|---|---|
| `ReliableUdp` | `MCReliable` | nothing lost, buffers, refinement; two packets that overtake | holds |
| `ReliableLive` | `MCReliable` | both peers start, everything is delivered | holds |
| `TlsTcp` | `MCTlsSession` | keys paired, data readable, no gap, negotiations end | holds |
| `TlsUdp` | `MCTlsSession` | no gap on a link that repeats | violated |
| `TlsMulti` | `TlsMulti` | who is trusted, what is kept | holds |
| `Fragment` | `MCFragment` | unmixed, complete, number of fragments | holds |
| `Multi` | `MCMulti` | references, addresses, cache, assertions | holds |
| `TunHasSender` | `MCMulti` | an assertion of `multi.h` | violated |
| `PacketId` | `PacketId` | no replay, nothing late, nothing else refused, restarts | holds |
| `ManagementHold` | `ManagementHold` | decision, knowledge of the hold | holds |
| `HoldReleased` | `ManagementHold` | released means not held | violated |
| `ServiceLifecycle` | `ServiceLifecycle` | two sessions, their ends, stops, a revocation | holds |

**ReliableUdp.** The server learns the address from the first packet. The client
writes three records with windows of two and has two packets in flight, which are
kept and repeated at will and overtake each other; `rec_ack` has one place and
drops. So the send window is exhausted and reopened, records come out of order
and beyond the window, and acknowledgements are lost. `NothingLost` is about an
entry leaving the send buffer, `ReceiveBufferNeverClogs` about the one slot that
must stay free, `StreamSpec` is the refinement of `ControlStream`, which implies
delivery in order. Larger windows and more in flight are left to the proofs.

**ReliableLive.** A TCP server (output held until linked), receive window
smaller than the send window. Fairness: the event loop runs each section again
and again (weak, on the action); a timer expires (weak, per packet id); a packet
carrying a given id, or acknowledging it, that is sent for ever is received at
some time (strong, per id). The last is the meaning of a usable link; without it
the session times out, which `TlsSession` has as `HandshakeTimeout`.
`HandshakeStarts` fails if the hold is not ended by the first packet,
`WrittenIsDelivered` if nothing is sent twice.

**TlsTcp.** From nothing, up to three renegotiations by either or both at once, at
any time, with ids that wrap at two, so that the fourth key reuses an id (171,944
states). `SendKeyIsKnown`
says that data sent now is decrypted with the same key, or that the receiver is
about to read the record that completes it. It excepts a peer that has not settled its last
key while the other one has begun the next (section 4). `AlwaysAKey` is an action property:
once a peer can encrypt it always can. `NegotiationEnds` assumes that the loop
runs (weak fairness of the sections, strong of sending, as the one-packet link is
shared between records and acknowledgements) and that TCP delivers; a handshake
window may close.
**TlsUdp** starts with an established session, as the first handshake is in
`TlsTcp`, and adds repetition and overtaking; a packet that is lost is one that is never
received. It asks for `AlwaysAKey` only.

**TlsMulti.** Three sessions of other peers, four of our own, two renegotiations
each; both with and without `--single-session` (430 thousand states). Three remote
sessions suffice for one in each slot, four of our own for two failures, or a
failure and a promotion, in either order, and the second renegotiation for a soft
reset that is repeated before its key is active. `KeyIsKept` and
`StrangersAreHarmless` are about the step that loses the last key or replaces the
active session and say what may cause it.

**Fragment.** Eight packets of two or three fragments, a ring of two slots, seven
sequence ids, so that ids and slots are used again; every first sequence id.
Fragments of packets up to two behind and three ahead of the newest may come. The
latter is an assumption about the link that reassembly needs: with the real
constants (25 slots, 256 ids) no fragment may come more than 231 packets ahead of
the newest one, or an id would be taken for an older one (with four ahead, the
small instance violates `NeverMixed`). `WholeComesOut` excepts a packet
that is given up: its time to live is over, the window moved past it, or it came
while the ring, which starts at sequence id 0, had not met the first one.
`OptimalKeepsCount` compares `optimal_fragment_size` with what its comment says,
for all lengths to 100 and sizes to 30.

**Multi, TunHasSender.** Two names, two real addresses, a pool of two, three
instances over time, a queue of one packet. Both names have a network that covers
address 1 of the pool, of different length, and the second is pushed a host
address, so that routes, cached routes and pool entries are taken over and
replaced in both directions. Two real addresses are symmetric. `AssertionsHold`
covers `!mi->halt` in `multi_close_instance`, the one in `mbuf_add_item` and the
one on the counts of network lengths; `home` is the address a name had last and
serves `ReturnsHome` only.

**PacketId.** Window of two ids and one second, reaped every other second; four
seconds, five packets, ids that wrap at four, two restarts or crashes on either
side. All edges occur: list shorter than the window, full, slid, restarted behind
a far id, reaped in part. `LateIsRejected` allows what the reap interval costs:
`packet_id_reap_test` reaps at most every `SEQ_REAP_INTERVAL` (5) seconds, so an
id may be accepted that much later than `--replay-window t` says.

**ManagementHold.** Two types of network, six intents, three restarts by the
process itself, both streams unbounded (310 thousand states). `HoldIsKnown` says nothing
of a process that has exited.

**ServiceLifecycle.** Two sessions, so that one ends while its successor starts;
every thread takes its steps at any time. `ReceiverFollowsManagement`,
`EndedIsForgotten` and `EndsWithItsSessions` say what the fields are when the
threads that write them are between two calls. `EndedIsForgotten` does not ask that a
session keeps its thread and receiver when the one before it ends late: it may lose them.
`StopReaches` is an action property about the end of a stop: if the list is then as it
was when the stop began, the socket of every thread that was serving by then is
closed. The condition on the list is needed: a `Vector`'s iterator does not notice
a removal that leaves the list as long as it has come (2.5 million states).

Deadlock is checked in `TunHasSender` only: each other system may stop, when the bounds are used up or
nothing is left to do; progress is asked by the liveness properties instead.

Every property has a mutation of the model, a bug such as the code could have,
under which TLC finds it violated; they are the definitions commented
`Mutation`, which no specification uses.

## 4. Disagreements

* **Kill of the pending client** (`TunHasSender`). One turn of the UDP server's
  loop serves the management interface first (`mudp.c:153`). `kill <cn>` closes the
  client whose packet waits for the tunnel device, and `multi_close_instance`
  clears `m->pending` (`multi.c:533`). If the same `select` reported the device
  as writable, `multi_process_outgoing_tun` follows, and `ASSERT (mi)`
  (`multi.h:543`) ends the server. `multi_process_outgoing_link_pre` tests
  `m->pending` for this reason.
* **Repeated soft reset** (`TlsUdp`). `tls_pre_decrypt` acts on
  `P_CONTROL_SOFT_RESET_V1` whenever the primary key can decrypt, and before it compares
  the key id (`ssl.c:3042`). A server's key can decrypt from `S_SENT_KEY` on. If the
  request that led to this key comes again then, the unfinished key becomes the retiring
  one and the working one is freed: the server has no key to encrypt with until yet
  another negotiation ends, while the manual (`doc/openvpn.8:4472`) says that
  renegotiation is off the critical path of tunnel data. Over TCP nothing is
  repeated and `AlwaysAKey` holds.
* **Release during the hold** (`HoldReleased`). `handleHold` reads `mReleaseHold`
  and then writes `mWaitingForRelease`; `releaseHold` writes and reads them the
  other way round (lines 277 and 302). If they alternate nobody sends the
  release, and the process is held until the next change of network.

Met while modelling, but without a run of their own:

* *Restart with `--replay-persist`.* The manual (`doc/openvpn.8:4004`) promises to
  reject any replay of packets of the previous session. The file has the
  highest id only; the first new packet builds a window behind its id in which all
  entries are unseen (`packet_id.c:126`), and ids the previous session received are
  accepted again, up to the window behind it, if they have the same time stamp.
  `PersistHolds` (run `PacketId`) says where the promise is kept.
* *Renegotiation in quick succession.* Nothing keeps a peer from renegotiating, by
  bytes, packets or packet ids, before the other one has settled the last key. It
  frees the retiring key then, which the other one still prefers (`tls_pre_encrypt`),
  and drops the data sent under it until that peer settles. `SendKeyIsKnown`
  excepts this case.
* *Failure of an active key.* An error of TLS or of a record of the control channel in
  `S_ACTIVE` discards the key although tunnel data could still use it
  (`tls_multi_process`); if no retiring key is left the tunnel has none. `KeyIsKept` and
  `StrangersAreHarmless` name it.
* *Redundant resume.* `RESUME_VPN` when nothing is paused takes the branch of
  `userPause` that pauses (`DeviceStateReceiver.java:84`), which by its comment is to
  "Update the reason why we currently paused": the process is held although network and
  user want it to run, until the network is lost or changes its type, or the user pauses and resumes.
  `DecisionFollowsDevice` excepts exactly this case.
* *Pause during the release.* `releaseHoldCmd`, less than five seconds after the
  last release, sleeps three seconds and does not look at `mReleaseHold` again
  (`OpenVpnManagementThread.java:289`). A pause in between is lost: the process
  runs without a network or although the user paused.
* *Two processes.* "An old running VPN should now be exited"
  (`OpenVpnService.java:216`) after at most two sleeps of a second; nothing waits
  for it, and a second start may leave both processes running for a while.
* *Stop while sessions begin and end.* The iterator in `stopOpenVPN`
  (`OpenVpnManagementThread.java:480`) throws when a management thread enters
  `active` meanwhile, and ends silently when a thread it has visited leaves it and the
  rest is as short as it has come, so that the last thread is not told to stop. A thread
  whose process has not connected yet is visited, but there is nothing to close.
* *Late end of the previous session.* Its `processDied` clears the thread and
  unregisters the receiver of the session that has just started (`OpenVpnService.java:98`).

## 5. Proofs

### The reliability layer

`Reliable_proofs` proves, for every number of records, window, link capacity and
role of the peers:

| Theorem | States |
|---|---|
| `TypeCorrect` | `Spec => []TypeOK` |
| `Invariance` | `Spec => []IInv` |
| `DeliveryInOrder` | `Spec => []InOrderDelivery` |
| `Lossless` | `Spec => []NothingLost` |
| `BufferNeverClogs` | `Spec => []ReceiveBufferNeverClogs` |
| `WindowRespected` | `Spec => []SendWindowBound` |
| `RefinesStream` | `Spec => StreamSpec` |

*Assumption.* `ReliableAssumption`: sizes are positive, the peers differ, and no
peer writes as many records as would, with the windows, reach half of the id
space (2^31 in the program). The wrap of ids is thereby excluded; lemmas about
`ReliablePid` say what the modular comparisons compute below it.

*Inductive invariant.* `InOrderDelivery` and `NothingLost` are not inductive.
Nothing in them prevents a packet that carries the wrong record for its id, or
an acknowledgement in flight for a record nobody has; either violates them one
step later. `IInv` is the conjunction of

* `TypeOK`,
* `SendInv`: an entry of the send buffer has an id below the next one, and the
  record that id names;
* `NetInv`: so has every packet in flight, and the sender of an acknowledgement
  has the record it acknowledges;
* `RecInv`: what is in the receive buffer lies in the window and carries the
  record its id names; what has been delivered is `1, 2, ...` up to the next id;
* `AckInv`: what waits to be acknowledged has been received;
* `NothingLost`.

The key lemma is that having a record is stable: a step moves a record from the
receive buffer to `delivered`, and never drops it (`HasRecord`). Each action is
shown to preserve the conjuncts it can disturb; `NextIInv` combines them.
`ReceiveBufferNeverClogs` then needs a counting argument: `RecSize` distinct ids
in a window of `RecSize` include the first one. `SendWindowBound` is inductive
beside `IInv`. The refinement holds step by step: `Deliver` reads, `Write` and
`InitialHandshake` write, every other action stutters, by `IInv`.

### The sessions of a tunnel

`TlsMulti_proofs` proves, for every number of peers, sessions and
renegotiations:

| Theorem | States |
|---|---|
| `InvariantHolds` | `Spec => []IInv` |
| `PeersAreTrusted` | `Spec => []TrustedPeer` |
| `PeersHaveOneSession` | `Spec => []OneSessionPerPeer` |
| `StrangersCannotReplace` | `Spec => StrangersAreHarmless` |
| `ExpiredKeysDie` | `Spec => ExpiredIsKilled` |
| `KeysAreKept` | `Spec => KeyIsKept` |

*Assumption.* `TlsMultiAssumption`: there is a peer, and ids for the two sessions
that exist from the start.

*Inductive invariant.* `TrustedPeer` alone is not inductive: an untrusted session
with a key that can decrypt would be relinked to a stranger by the next hard
reset, and a record of an earlier peer that waits would complete the handshake of
a later one. `IInv` adds that the untrusted slot never has such a key or a
retiring one after a pass, that a record waits only between a packet and the pass
that follows it, for a key under negotiation and of the peer that is linked, that
only a key that could decrypt retires and only a retiring key expires, and that
session ids are not above the last one made, so that a new one differs from all
others.

*Argument.* A pass is a function of the record of slots and last id:
`ProcessSlot` twice, `LameDuckDies`, `Promote`. In between, the invariant does not
hold: a lemma per operator states what it keeps (`Core`, the part that holds
throughout, and `Places`, which slot may have what at that point) and what it
changes. The action properties follow from the same lemmas: the active session id
changes only in `HandleError`, after an error that `error` records, and in `Promote`,
and new ids exceed all others, which
is how a promotion is told from a new beginning.

### Replay protection

`PacketId_proofs` proves all the properties of the run `PacketId`, for every window,
clock, width of the ids and number of packets, wraps, restarts and crashes:

| Theorem | States |
|---|---|
| `PacketInvariance` | `Spec => []PacketInv` |
| `PacketTypes` | `Spec => []TypeOK` |
| `NothingIsReplayed` | `Spec => []NoReplay` |
| `LateOnesAreRejected` | `Spec => []LateIsRejected` |
| `FreshOnesAreAccepted` | `Spec => []FreshIsAccepted` |
| `FileKeeps` | `Spec => []PersistHolds` |

*Assumption.* `PacketIdAssumption`: the window has room for an id, reaping takes a
second at least, and the clock starts behind `SEQ_EXPIRED`, so that no time is
mistaken for a mark of the list.

*Inductive invariant.* `Window` reads the list both ways. What an entry says of the ids
accepted: a time is that at which its id was accepted (`Known`), an expired one has
an id not older that was accepted too long ago (`Aged`). What an id accepted says of
its entry: it is the time it came, or expired (`Marked`), so it is not unseen, and the id
is not beyond the latest (`Below`). The shape of the list: it is as long as its
capacity and the ids of the time stamp allow (`Sized`), an expired entry has only
expired ones behind it (`ExpiredStay`), and what was too old at the last reaping has
expired (`ReapedBy`). `PersistInv`: in the long form the latest id is what would be
saved, and no id from before the restart is beyond it.

*Argument.* `Adding` shows that `packet_id_add` does one of four things: the next id of
TCP, a window that starts again, one that slides, or an entry marked late; a lemma each
shows that the window is kept. `ReapingKeeps` does the same for reaping. The theorems
then compare the reaped record with what the test looks at: `NoReplay` needs
`Below` and `Marked`, `LateIsRejected` also `ReapedBy` and `ExpiredStay`,
`FreshIsAccepted` needs `Sized`, `Known` and `Aged`.

### The hold

`ManagementHold_proofs` proves, for every set of network types and any number of
intents and restarts:

| Theorem | States |
|---|---|
| `DecisionIsTheDevices` | `Spec => []DecisionFollowsDevice` |
| `HoldTypes` | `Spec => []TypeOK` |
| `TheHoldIsKnown` | `Spec => []HoldIsKnown` |

*Assumption.* `ManagementHoldAssumption`: -1 is no type of network, and the bounds
are natural numbers.

*Inductive invariants.* `DecisionFollowsDevice` speaks of the moments between two
intents, which come in any order. `DecisionInv` extends it to the methods in progress: what the main thread
still has to do (`todo["main"]`) ends with `mReleaseHold` set if the device wants
the connection, and no redundant resume has come, and cleared if not (`MainInv`); the management thread is nowhere in a
step that writes `mReleaseHold` (`ManagementInv`); and `lastNetwork` is -1 exactly
while there is no network (`DeviceInv`), without which `networkStateChange` would
take a network that returns for one it already has.

`HoldIsKnown` speaks of the moments when nothing is under way; `HoldInv` says where
the knowledge is in the others. Of a held process (`KnownInv`) either
`mWaitingForRelease` is set, or its `HOLD` message is on the way, or the management
thread has read it and is deciding, or one of the threads is about to send the
release, or the release is on the way. `SocketInv` says that before the process is
connected nobody is about to send one, since `managmentCommand` would drop it and
the hold would be forgotten; it holds because only the `HOLD` message sets
`mWaitingForRelease`. `HoldInv` contains `DecisionInv`, which bounds the steps each
thread can be at.

*Argument.* `Takes` says what a step does to the steps left of both threads, and
`MainAt` which steps the main thread can be at; each lemma then follows the steps of
one kind. Only intents change what the device wants, and they come when the main
thread has nothing left to do. For `HoldInv`, `MainMoves` and `ManagementMoves` say
what each step of a thread means for the hold, `HasAfter...` which messages remain in
a stream that is read or written, and `ThreadsKnow`, `IntentsKnow`, `MessagesKnow`
and `ProcessKnows` follow the four groups of actions.

### The service

`ServiceLifecycle_proofs` proves, for any number of sessions (the run has two):

| Theorem | States |
|---|---|
| `ServiceTypes` | `Spec => []TypeOK` |
| `ReceiverIsCurrent` | `Spec => []ReceiverFollowsManagement` |
| `TheEndedIsForgotten` | `Spec => []EndedIsForgotten` |
| `StopReachesAll` | `Spec => StopReaches` |
| `ServiceEnds` | `Spec => []EndsWithItsSessions` |

*Assumption.* `ServiceLifecycleAssumption`: there is at least one session.

*Inductive invariant.* `ServiceInv`. The main thread is at a step of one of four
groups (`MainInv`): `Starting`, from the intent until `mStarting` is cleared;
`Launching`, until the process runs; `Registering`; and `Stopping`, the steps of all
other methods. `mStarting` is set only in the first (`StartingInv`), and the receiver
may be of an earlier management only between `open` and `register`
(`ReceiverInv`). `EndsWithItsSessions` speaks of the moments when all threads rest;
`StartedInv` says what keeps the service started in the others: the last session is
being launched, or has a process, or its process thread is on its way through
`endVpnService`. That thread skips `stopSelf` only if it reads `mStarting` set, which
by `StartingInv` means that a later session has begun; this is why the two
invariants are needed together. `ListInv` keeps a management thread in `active` from
before it listens until its end, whoever else is removed from the list.

*Argument.* `Takes` and `Doing` say what a step and a call do to the steps left of
each thread; `MainMoves` and `EndingMoves` follow the main thread and a process thread
from group to group. `MainStays` and `OthersMove` cover the many actions that stay in
one group, so that `MainSteps`, `OtherSteps`, `Beginnings` and `SessionSteps` have
work to do at the boundaries only.

### The keys of a session

`TlsSession_proofs` proves all safety properties of the run `TlsTcp`, for any number of
keys and any capacity of the link:

| Theorem | States | Under |
|---|---|---|
| `TypeCorrect` | `Spec => []TypeOK` | |
| `KeysArePaired` | `Spec => []KeysPaired` | `NoIdTwice` or `Fifo` |
| `SendKeyKnown` | `Spec => []SendKeyIsKnown` | `Fifo` |
| `AlwaysHasKey` | `Spec => AlwaysAKey` | `Fifo` |

*Assumptions.* `NoIdTwice`: there are no more keys than ids; the link may do what it
likes. `Fifo`: the link is an ordered queue (TCP) and there are two ids besides 0
(`P_KEY_ID_MASK` is 7), so that two keys in a row never share one. Neither can be
dropped: on UDP an old record under an id that is used again pairs two keys that do
not belong together, and a repeated soft reset breaks the last two properties (section
4, run `TlsUdp`).

*Inductive invariants.* With `NoIdTwice` a key only ever takes the contribution of
its own number (`OwnKeys`). With `Fifo` ids are used again, and that follows from
the order of the two peers' progress, `IInv`: what each state of a key says of the
contribution it has (`KeyOk`); the retiring key is the one before the primary
(`LameOk`); the primary keys of the peers are at most one apart (`Spread`); a peer whose
contribution has come does not send its reset again, and one whose contribution is
acknowledged has been heard (`Sync`); packets in flight are of the other's key or its
neighbour, in the order of the keys and of what each peer did (`InFlight`). `Ahead` is what makes it
inductive: if one peer has begun the next key, the other one lacks at most
acknowledgements of the last, and they are on their way (`Complete`). `ClientOk` is
what the different order of the client's and the server's sections adds.

*Argument.* The sections of `tls_process` change the primary key only: one lemma covers
all of them. Sending, the end of a retiring key, a new key (by age or on request) and
receiving have a lemma each. The hard step is a request for the next key that reaches a
peer whose own key might not be active, which would make an unfinished key the
retiring one. On an ordered link everything the other peer sent for the last key has
been read before: its contribution and, as it was active, its acknowledgement of
this peer's. A peer takes every section that is due before it reads on (`Reads`), so its
key is active by then, and that is `AlwaysHasKey`. No time window enters the argument.
`SendKeyKnown` follows, with its exception, from `Spread` and `LameOk`.

### Fragments

`Fragment_proofs` proves all properties of the run `Fragment`, for any number of
packets, of slots and of sequence ids and any lengths:

| Theorem | States | Under |
|---|---|---|
| `TypeCorrect` | `Spec => []TypeOK` | |
| `SizesKeepCount` | `Spec => []OptimalKeepsCount` | |
| `NothingMixed` | `Spec => []NeverMixed` | `LinkBound` |
| `WholePacketsComeOut` | `Spec => []WholeComesOut` | `LinkBound` |

*Assumptions.* `FragmentAssumption`: there are slots, at least twice as many ids, and
packets are longer than a fragment and not longer than what `MAX_FRAGS` carry.
`LinkBound`: how late a fragment may come, how far ahead, and the slots add up to no
more than the ids: with 25 slots and 256 ids, 231 packets. The run is at this bound,
and one beyond it `NeverMixed` is violated.

*Inductive invariant.* The program knows sequence ids and slots, both of which are
used again; the invariant counts packets. `Ring(h)`: `h` is the packet at the head of the
ring, which need not have come (the ring begins at id 0 whatever the first id is),
and the slot of each packet of its window has fragments of that packet and of no
other, the marks beyond its last fragment included (`Contents`, `Of`). For the
packet that is watched, what came of it is in its slot (`Kept`), and nothing else
is (`Seen`).

*Argument.* `DiffIs` is where `LinkBound` is used: what `modulo_subtract` says of two ids is the
difference of the packets. `GetBufMoves` then follows
`fragment_list_get_buf` through its three cases, a ring that begins again, one
that slides and one that stays; `Put` says what the arriving fragment does to the
slot, and `PutContents`, `PutKeeps`, `PutOut` and `PutSeen` carry the parts of the
invariant through it. `OptimalSize` is arithmetic: rounding up the even share stays
within the rounded maximum, and so needs as many fragments.

### A server's clients

`Multi_proofs` proves all properties of the run `Multi`, for any clients, names,
pool, networks, routes and capacity of the queue:

| Theorem | States | Under |
|---|---|---|
| `TypeCorrect` | `Spec => []TypeOK` | |
| `ReferencesCount` | `Spec => []Accounted` | |
| `ServesClients` | `Spec => []NothingDangles` | |
| `AddressesAreOnes` | `Spec => []AddressIsOnes` | `OwnPushes` |
| `CacheCurrent` | `Spec => []CacheIsCurrent` | |
| `AssertionsKept` | `Spec => []AssertionsHold` | |
| `AddressReturns` | `Spec => ReturnsHome` | |

*Assumptions.* `MultiAssumption`: the sets of addresses are finite, the pool is
numbered from 0, networks and addresses are different keys, the queue has room for
a packet. `OwnPushes`, for `AddressIsOnes` only: a client may have a route
(`--max-routes-per-client` is not 0), and no two names are pushed the same address
by their connect scripts. The code checks neither; without them the route to a client's
address is missing, or that of the other client.

*Inductive invariant.* `Inv` speaks of the record that every function takes and
returns. `Counted` and `LengthsOk` are the counts of `Accounted`, `CacheOk` is
`CacheIsCurrent`. `RouteOk` says that a network leads to a client only if it is
one of the iroutes the client was given, and that a client without
`context_auth` has no routes; without it a client's reconnection would leave counts of
lengths behind. `Found` says that nothing that is served next is closed and that each
client is found once. `Progress` relates what a client's connection has done: until it
is established there is no address and no handle, a name is one connected
client's, and an instance not yet created is as at the beginning. `Leases` ties the
clients, the pool's entries and `home` together. `Addressed`, inductive with `Inv`
under `OwnPushes`, says that a client's address leads to it by a route that is not
cached.

*Argument.* The functions of the code are composed, so each has a lemma about any
record, not about the state: `multi_learn_addr`, which may take a route from
another client and so free an instance, `multi_close_instance`,
`multi_select_virtual_addr`, twice in `multi_connection_established`, and so on.
The loops (`CloseAll`, `multi_add_iroutes`, `multi_bcast`) are sequences of records
each from the one before, with an induction on their length. Halfway through
`multi_add_iroutes` a client has some of its iroutes, hence the parameters of
`RouteInv`. What neither connects nor closes a client is `Beside` the
rest: it keeps `Inv`, `home`, handles and names, and comes before or after the part of a
step that does. `NextKeeps` puts the steps together; `ReturnsHome` is `HomeStep` of
the same lemma.

### Only model-checked

Liveness (`HandshakeStarts`, `WrittenIsDelivered`, `NegotiationEnds`), which
rests on fairness and is beyond the prover.

## 6. Plan

Done: the reliability layer with its refinement and proofs; keys of a session,
sessions of a tunnel, replay protection, fragmentation, the UDP server, the hold and
the lifecycle of the application, each with proofs. In order of
importance, what remains:

1. **PacketId**: an abstract specification, the set of ids accepted, of which the
   window is a refinement (the invariants it takes are proved).
2. **RestartLoop**: signals, ping restart, exit notification, push request and
   reply; abstracts the process of `ManagementHold`, which shall refine it.
3. **Composition** of `ServiceLifecycle` with `ManagementHold`: a session that is
   stopped while it is held or paused.
4. **Multi**: the TCP server, the timer treap (`schedule.c`) against a priority
   queue, hard limits on clients.
5. **ReliablePid** around the wrap, against a reference over unbounded ids.

## 7. Not modelled

The repository is mostly third-party code: OpenSSL, LZO and Snappy are vendored
with it and, of its some 465,000 lines, OpenVPN and the application are about
a fifth. What is modelled is the part of those two that keeps protocol or
lifecycle state, so the share of all lines is small and will stay so.

* Event loop and sockets (`forward.c`, `event.c`, `socket.c`, `proxy.c`,
  `socks.c`) are the fairness of the models above them.
* Cryptography, certificates and compression are data transformations by
  libraries; a packet that fails authentication is a lost packet.
* `options.c`, `tun.c`, `route.c`, `helper.c`, `platform.c` are configuration and
  system calls for each operating system, without protocol state.
* `manage.c` is modelled as far as hold, credentials, kill by name and the end of
  the connection go; its other commands print state.
* Restart loop, ping, push and exit notification are planned, see above.
* Screens, account and statistics of the application are user interface and HTTP.
  The JNI glue keeps no state of this program.
