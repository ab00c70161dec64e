# A TLA+ model of soter2

soter2 is the core of a peer-to-peer messenger in C: UDP sockets, NAT punching,
a reliable transport over UDP (RUDP), discovery through "stating" servers and
gossip, relaying (TURN), end-to-end encryption, and an HTTP control interface.
This directory specifies the parts in which threads, packets and timers meet,
checks them with TLC on small instances, and proves the most important results
with TLAPS for every instance.

1. [The system](#1-the-system)
2. [The modules](#2-the-modules)
3. [What the runs check](#3-what-the-runs-check)
4. [What is proved](#4-what-is-proved)
5. [Disagreements found](#5-disagreements-found)
6. [What is not modelled](#6-what-is-not-modelled)
7. [Plan](#7-plan)

Paths below are relative to `src/code/devcore/` unless they start with `src/`.

## 1. The system

Every node runs five long-lived threads around one UDP socket, besides the
threads that serve HTTP requests:

    socket -> listener -> [packets] -> io daemon -> [passed_pkts]    -> RUDP dispatcher
                                                 -> [passed_packets] -> watcher (handlers)
    everyone -> [packets] -> sender -> socket
    st daemon: answers of the stating servers, RUDP connections for active peers
    HTTP threads: connect, disconnect, status

`[q]` is a *notified queue*: a `prot_queue` (a ring buffer under a mutex) and an
`mt_eventsock` (an eventfd). The tables that threads share (peers database,
connections, TURN bindings) have a mutex around each single operation; what a
thread does between two operations is not protected, and that is where most of
the hazards lie.

| component | state | operations | hard because | correct if |
|---|---|---|---|---|
| RUDP connection (`rudp/src/connection.c`) | packets in flight, sequence numbers, reordering buffer, acknowledgement counters | send, recv, PACK_DATA, PACK_RACK, timeouts | loss, duplicates, reordering, retries, the cap, callers racing with the timer | a stream in order, nothing lost in silence, every packet settled |
| RUDP dispatcher (`rudp/src/dispatcher.c`) | queue, table of connections | pass, establish, get, close, worker loop | packets and timers in one loop; closing while in use | no packet overlooked; sessions of one UID do not mix |
| notified queue (`base/src/base/prot_queue.c`, `base/src/multithr/events.c`) | ring, eventfd | push, upush, pop, grow; notify, wait, drain | push and notify are two steps, notifications merge; the ring wraps and grows | first in first out; no lost wake-up |
| sender, watcher, listener, daemons | queue, `is_running` | worker loop, stop and join | stopping while packets arrive | every packet handled; `_end` returns |
| peers database and handlers (`peersyst`, `interface`) | state and age of every peer | PUNCH, ACK, PING, PONG, connect, disconnect, dead peers | two hosts, lost packets, four threads on one table, stale copies | contact is made, the dead are forgotten, farewells end |
| packet path (`protocol`, `providers`, `interface/src/daemons.c`) | datagrams, queues | convert, check, listen, hand on | loss, damage, repetition, three threads | a handler gets what was sent, the right handler, in order |
| gossip (`gossip`) | entries about third nodes | create, pack, unpack, store, clean up | late and repeated entries, stale snapshots | an entry ages wherever it goes |
| NAT detection (`natpunch`) | addresses of STUN servers, answers | resolve, ask, compare, retry | threads, late answers | the type found is the type there is |
| stating, TURN | tables of peers, bindings | requests, answers, relaying | not finished, see section 6 | |
| end-to-end encryption (`e2ee`, `crypto`) | handshake state, keys, nonces | init, respond, encrypt, decrypt | order of two handshakes, restarts | both ends reach matching keys and counters |
| containers (`base/src/base`) | arrays, tables, hash tables | set, get, remove, grow, copy, move, swap | growth and rehashing under pointers callers hold | lists and maps; pointers stay |
| HTTP (`uhttp`) | clients, requests, responses | accept, read, parse, answer, stop | three threads, pieces of text, reused descriptors | no work left lying; answers to whoever asked; a stop is heeded |
| QUIC, SOCKS5 (`quic`, `proxy`) | sessions, descriptors | send, receive, callbacks; accept, connect, relay | two threads and a callback; threads sharing descriptor numbers | nothing overlooked; no thread uses another's socket |

`PROJECT.json` lists every component with its status, and every hazard with the
line where it bites and the property that covers it.

## 2. The modules

### RUDP connection: `RudpConnection`, `ReliableChannel`

One direction of a connection: the send half on one host, the receive half on
the other, and the network between. The two halves of a `rudp_connection` share
only the flag `closed`, so the reverse direction appears as one step,
`ReverseTimeouts`.

| action | code |
|---|---|
| `SendCheck`, `SendAgain`, `SendLocked` | `rudp_conn_send`: the test of `closed` is made before the lock is taken, so it is a step of its own, and several callers may be past it |
| `HandleData` (with `Reordering`, `Acknowledge`) | the PACK_DATA branch of `_rudp_dispatcher_net_handler`, and `_rudp_conn_reordering` |
| `HandleRack` | the PACK_RACK branch |
| `Timeouts` | `_rudp_conn_timeouts`: the scan that retransmits, and at the cap drops one packet and closes |
| `Recv` | `rudp_conn_recv` |

Abstractions, each of which allows at least what the code does:

* The network is the set of all packets ever sent: any of them may be received
  at any time, any number of times, or never.
* Time: which packets are due, whether the acknowledgement timer has run out
  and how the round-trip time compares with 30 and 100 ms are free choices.
* `pkts_net` is a set, not a queue: `_rudp_conn_reordering` examines all of it,
  and copies with the same number are the same packet.
* `packets_since_ack` stops at the largest threshold; it is only compared.

`ReliableChannel` says what a user of the connection relies on: messages are
accepted, delivered in that order, confirmed only after delivery, and dropped
only when the channel breaks. `RudpConnection` implements it through the
mapping `Channel`, stated as `ImplementsChannel`.

### The ring buffer: `ProtQueue`, `Fifo`

`prot_queue`, with `head`, `tail`, `count` and the array; a full ring is copied
into one of twice the length (`PushGrown`). `Fifo` is the queue its users see.
Cells never written hold any element. Each operation holds the mutex
throughout, so it is one step.

### The notified queue and its workers: `NotifiedQueue`, `SenderWorker`, `WatcherWorker`, `DispatcherWorker`

`NotifiedQueue` has the queue (which `ProtQueue` justifies as a sequence), the
eventfd as a Boolean (its counter is only read to be reset), the producers, for
whom push and notify are two steps, and the steps worker loops are made of:
poll, read, pop. The three workers put them together as their code does:

* `SenderWorker`: after a wake-up, pop until empty.
* `WatcherWorker`: after a wake-up, drain the eventfd again and pop one packet.
* `DispatcherWorker`: drain the eventfd after every wait, also one that timed
  out; check the timers; pop until empty only if the wait reported an event.
  `_daemon_io` and `_daemon_st` have the same order of steps.

### Two nodes: `PeerLink`

What two nodes know of each other. Each has the other's entry in its peers
database (`peer`, and `overdue` for a `last_seen` 10 s old), perhaps a
connection (`conn`), and four threads with a program counter each, because each
of them reads an entry and acts on its copy later:

| variable | thread | steps |
|---|---|---|
| `hnd` | watcher | `PunchRead`, `PunchApply`, `AckRead`, `AckApply`, `PingPong` (`interface/src/handlers.c`) |
| `io` | `_daemon_io` | `Ping`, `FindDead`, `CloseDead`, `RemoveDead` (`interface/src/daemons.c`) |
| `st` | `_daemon_st` | `FindActive`, `Establish` |
| `http` | HTTP thread | `Connect`, `NatPunch`, `GiveUp`, `Disconnect`, `CloseConn` (`interface/src/system.c`, `src/code/cli/src/peer/handler_connect.c`) |
| | dispatcher | `HandleFin` |

`net` counts the packets of each type on their way to each node, since one call may
send two (`rudp_conn_close` sends PACK_FIN twice, and each may meet another
connection); more than `MaxCopies` of a type are lost, which the environments below
allow or never reach. The state variable `env`, chosen in the initial state and never
changed, says whether the network loses or repeats packets, whether a node may
crash, and how often users connect and disconnect. A connect overwrites whatever
entry there is, as `s2_sys_new_peer` does. `heard`, `told` and `renewed` (a connect
has overwritten an active entry) are history.

### The way of a packet: `PacketPath`

From `pvd_sender_send` to the thread that handles the packet: conversion and
checksum (`ToWire`, in `pvd_sender_worker`), a network that loses, damages and
repeats datagrams, `protopack_recv` (`Refused`, `FromWire`), the listener's push
and notification, and `_daemon_io` dealing packets to the dispatcher or the
watcher. A field of 32 bits is a pair of bytes, so that a byte order forgotten
or applied twice shows. Texts with the same CRC are left out.

### The peers database: `PeersDb`

`peers_db_wait` against changers, whose unlock and notification are two steps,
and `_daemon_io` with its stale `now_ms`, its snapshot and `peers_db_utime`
(`PeersDbUtime`, which other threads call at any time), on a
clock wider than `last_seen`. `IoBusy` is the jump over the pings above one packet
a second. `PeerLink` takes the age of an entry as a free choice; this module has
the arithmetic.

### Gossip: `Gossip`

The entries of each node, the rounds of `_daemon_io` (`StartRound`, `SkipPeer`,
`GossipIter`), packing with the mistake of `gossip_to_data` as what it is, an
undefined read (`NotAnEntry`, `GossipIterDies`), and `FromPacket` on a network that
loses and repeats.

### NAT detection: `NatDetect`

`nat_parallel_req`: threads that resolve names into one array, two requests from
one port, answers that may be late, somebody else's or repeated, and the retry
after a timeout, which binds a socket that was closed.

### Encrypted sessions: `E2eeSession`

The `e2ee_connection` of two peers through any number of sessions: keys drawn,
handshakes sent and handled, nonces counted, sessions ended and begun again by
either side, over a reliable connection or over datagrams. libsodium is ideal: a
ciphertext opens under its key and nonce only.

The code asks for no order of its calls: `e2ee_conn_handshake_init` and
`e2ee_conn_handshake_resp` change the state of a connection whatever it is, the first
taking a session back to `HANDSHAKE_SENT`, the second replacing the keys and leaving
the nonces alone. The variable `usage`, fixed in the initial state, is "any", each call
at any time, or "example", the order of the repository's callers
(`src/.old/oldcli/examples/basic_e2ee.c:50`): send, wait for the handshake of the other,
then encrypt and decrypt. Only the liveness property needs the latter. Calls on a
connection that was zeroed by `e2ee_conn_end` are left out, but for
`e2ee_conn_init`.

### HTTP: `HttpMessages`, `HttpServer`

`HttpMessages` builds requests and responses as `api.c` does and parses every
beginning of their text as `parser.c` does; a text is a sequence of parts (first
line, CRLF, header, byte). `HttpServer` is the accepter, the runner and the thread in
`uhttp_server_poll_routes`, with three queues, three eventfds and descriptors
that are given out again. Accept, push and notify, and wait, pop and write are
separate steps.

### QUIC and SOCKS5: `QuicCore`, `Socks5`

`QuicCore` has the daemon loop (`quic_core_senditer`, `quic_wait_recviter`,
`quic_core_recviter`), `_quic_core_cb` within it, and an application that calls in
any order: it may read one packet for each `quic_wait_incpkt`, as
`src/code/quic/src/min_server.c:35` and `min_client.c:40` do, or go on until there is none
(`emptied`). `Socks5` has
the accept loop and the threads of its clients on one table of descriptors, the
uninitialised `remote` of a refused request included.

### Containers: `DynArray`, `HashTable`, `AbstractList`, `AbstractMaps`, `Ranks`, `Containers`

`DynArray` and `HashTable` are the data structures as functions on their
memory; `Containers` calls them through the protected wrappers, one step for each
call, as the mutex makes them; `AbstractList` and `AbstractMaps` say what their
users see. Answers are the codes of the code, which `AbstractMaps` has as constants:
`HT_SUCCESS` and `HT_NOT_FOUND` are both 0, so nobody learns from `ht_erase` whether
the key was there. `ht_swap` leaves capacities behind; tables of the same capacity are
swapped, and with others `HtSwap` does what the code does and sets `mixed`, after which
a behaviour makes no more calls. A loop of the code (`dyn_array_setself`, `prot_array_filter`, `_ht_rehash`)
is a recursive function on the number of its turns, and one turn is an operator of its
own (`SetselfTurn`, `FilterTurn`, `MoveNode`). `Ranks` numbers the members of a finite
set of numbers in their order, which says what `filter` and `setself` keep, and which
headers `parse_headers` takes. The hashes of keys are a constant, so keys may collide in
any way.

### Model-checking modules

`MCRudpConnection` and `MCPeerLink` hold what only TLC needs: symmetries, the
environments of the runs, fairness. Three more modules put components that do not
interact side by side: `MCNode` extends `WatcherWorker`, `DispatcherWorker`,
`PacketPath`, `PeersDb`, `Gossip`, `NatDetect` and `E2eeSession`; `MCServices` extends
`SenderWorker`, `E2eeSession` and `HttpServer`; `MCLibraries` extends `ProtQueue`,
`Containers`, `HttpMessages`, `QuicCore` and `Socks5`. A variable fixed in the
initial state says which of them a behaviour is about, and the others stand still.
They have no definition of the system in them, and the properties the runs check
are those of the components, the same definitions the theorems are about. Where
components do interact, the interaction is inside one module (`PeerLink` for
handlers, daemons, database and connections of two nodes; `PacketPath` for
sender, network, listener and daemon). `MCServices` has `E2eeSession` over RUDP with the calls in
the order of the example, `MCNode` over datagrams with the calls in any order.

## 3. What the runs check

| run | shows | bounds |
|---|---|---|
| `rudp_safety` | delivery in order, no silent loss, the head of the stream never stuck, acknowledgements at their cadence, undelivered packets within the reordering window, refinement of `ReliableChannel` | window 2, reorder window 2, cap 1, thresholds 2..3, 4 messages, two calling threads |
| `rudp_live` | every packet in flight settles; every message is acknowledged or the connection closes | window 2, 3 messages |
| `peer_link` | a peer is active only after packets both ways | 2 connects at any time, dead peers by mistake; with losses, 2 punches and 2 acknowledgements at once, or with repetition |
| `peer_live` | first contact, dead peers forgotten, farewells end | one of: two connects at any two moments, a crash, a disconnect |
| `node` | wake-ups of watcher and dispatcher are backed; packets arrive as sent; waiters miss no change; nobody is buried alive; gossip ages; the NAT is classified rightly; in any order of the calls the keys of a session agree, nonces are fresh, messages are opened once and in order | 2 producers and 4 packets; 2 packets and 2 datagrams; 2 changers, a clock of 6 for a type of 4; 2 nodes and a silent one, 3 rounds; 3 servers; 3 keypairs, 2 messages a session, 2 on the way |
| `services` | the sender loses no wake-up, sends everything and ends; a session in the order of the example is read to the end; the HTTP server leaves nothing lying, answers whoever asked, heeds a stop | 2 producers, 4 packets; 3 keypairs, 2 messages a session; 2 clients, 2 requests |
| `libraries` | ring, array, table and hash tables refine queue, list and maps; pointers stay; messages survive any cut; QUIC overlooks nothing; tunnels own their sockets | ring of 3 growing to 6; arrays to 4, capacity 4; bodies to 3, 2 extra headers; 2 connections; 2 clients, 4 descriptors |
| `watcher_lost_wakeup`, `dispatcher_lost_wakeup`, `peer_told`, `peers_wrap`, `gossip_packed` | violations, see section 5 | |

Why the bounds are enough to be interesting:

* In `rudp_safety` a window of two leaves a packet waiting behind a gap, so that
  a run of two is handed over at once; four messages let an old packet meet a
  receiver that has moved a full window on; a cap of 1 gives first transmission,
  retransmission and give-up; the threshold moves between its limits.
* Two producers are the fewest that overtake each other between push and
  notify, and four packets let notifications merge twice.
* A ring of three cells wraps at every position before it grows once.
* In `node` the clock passes the width of `last_seen`. `NotBuriedAlive` is stated for
  peers heard of before that; what becomes of the others is the violation of
  `peers_wrap`. An entry of gossip can outlive the hour while a copy is on
  its way; a third STUN server allows a retry, and answers of the first to come
  while the second is asked.
* In `node` three keypairs let one peer begin again while the other goes
  on, handle the new handshake with its old keypair, and read on from its old
  counter.
* In `services` two clients with one request or two let a descriptor be given out again
  while an answer for it is on its way.
* In `libraries` messages exceed the largest body, the largest head and the
  number of headers, and stay below; keys share chains; the array of QUIC
  sessions and the tables grow; four descriptors are enough for two tunnels, and
  too few for leaks to go on.
* In `peer_link` both users may connect, or one of them twice, over a network
  that loses or repeats anything. In `peer_live` no packet of the handshake or of a
  farewell is ever lost to `MaxCopies`: at most 2 punches, 3 acknowledgements and 9
  PACK_FIN are on their way at once; of pings and pongs, which are sent again and
  again, one is as good as many.

`CHECK_DEADLOCK FALSE` is set where the system rests by design: a worker that
has ended, two nodes with nothing left to say, components that have used up their bound.

Fairness, and why the code gives it:

* `TimerRuns` (for `InFlightSettles`): the dispatcher's wait ends after at most
  100 ms and the scan follows, so a packet in flight is due again and again.
  Nothing else is fair: acknowledgements may never come.
* `LinkCarries` (for `EventuallyAcknowledged`) is an assumption on the network:
  copies of each packet and each acknowledgement keep getting through. The
  retransmission timer gets *no* fairness there and may close the connection at
  any time.
* `FairSpec` of `SenderWorker`: the worker thread runs, and a producer that has
  pushed goes on to notify.
* `ESpec`: the application of `E2eeSession` sends its handshake and goes on
  receiving, as the example of the repository does. A session may end at any time.
  `EverythingOpened` is stated for RUDP and for the example's order of calls; without
  it messages can be lost, see section 5.
* `SSpec`: the thread of the HTTP runner is scheduled. `StopHeeded` supposes that
  clients have hung up, since the runner waits for a silent client for ever.
* `MCServices` states the fairness of these and of the sender, each conjunct for the
  behaviours of its component.
* `Fairness` of `PeerLink`: every thread goes on (an HTTP thread that waits for the
  handshake ends its wait, one way or the other: `NatPunch`, `GiveUp`). A packet that arrives waits in the
  watcher's first-in first-out queue for its turn while others are handled,
  hence strong fairness on the reading steps. (The lost wake-up of the watcher
  delays a packet until the next one arrives, which the pings provide.)
  `FirstContact` holds in environments without losses only, and excepts a connect
  over an entry that is active: see below.

Each property has a mutant, a plausible mistake in the code it is about, that
breaks it. The mutants stand beside the definitions they replace; no run uses
them.

## 4. What is proved

| module | theorem | says |
|---|---|---|
| `RudpConnectionProofs` | `TypeCorrect` | types |
| | `DeliveryInOrder` | `InOrderDelivery` |
| | `LossIsNeverSilent` | `NoSilentLoss` |
| | `HeadIsNeverStuck` | `HeadNotStuck` |
| | `ReachIsKept` | `WithinReach` |
| | `CadenceIsKept` | `AckCadence` |
| | `Refinement` | `RudpConnection` implements `ReliableChannel` |
| `SenderWorkerProofs` | `SenderNeverOverlooks` | `NoLostWakeup` for the sender |
| `PeerLinkProofs` | `TypeCorrect` | types |
| | `ActiveWasPunched` | `BothWays`, in every environment |
| `BaseProofs` | `RingIsFifo` | `ProtQueue` implements `Fifo` |
| | `PointersStay` | `PointersStable`, an action property |
| | `TableIsAMap` | every step of a `dyn_table` is one of `AbstractMaps` |
| | `ArrayIsAList` | every step of a `dyn_array` is one of `AbstractList` |
| `HashTableProofs` | `HashTablesAreMaps` | every step of two `dyn_htable`s is one of `AbstractMaps` |
| | `ContainersKeepPromises` | `ContainersAsPromised`: `Containers` implements `AbstractList` and `AbstractMaps`, until tables of different capacity are swapped |
| `E2eeSessionProofs` | `KeysAlwaysAgree` | `KeysAgree` |
| | `NoncesOnce` | `NonceOnce` |
| | `OpensAPrefix` | `OpensPrefix` |
| `NodeProofs` | `OnlyTimeouts` | `OnlyTimeoutsOverlook` for the dispatcher |
| | `PacketsArrive` | `ArrivesAsSent` |
| | `WaiterIsTold` | `WaiterSeesChange` |
| | `BuriesTheDeadOnly` | `NotBuriedAlive` |
| | `GossipAges` | `NeverRejuvenated` |
| | `FindsTheType` | `TypeIsRight` |
| | `NoFalseAlarms` | `NoFalseAlarm` |
| | `WakeUpsAreBacked` | `WakeFindsPacket` for the watcher |
| `LibraryProofs` | `TunnelsOwnTheirs` | `TunnelOwnsSockets` |
| | `CoreInvariant` | the invariant of `QuicCore` |
| | `QuicOverlooksNothing` | `NothingOverlooked` |
| | `SessionIsThere` | `SessionWhenTold` |
| | `ServerInvariant` | the invariant of `HttpServer` |
| | `NoWorkLeft` | `NothingLeftLying` |
| | `AnswersAreTheirs` | `AnswersFit` |
| | `PiecesDoNotMatter` | `WaitsForTheRest` |
| | `WhatIsBuiltIsRead` | `RoundTrip` |

All are for every value of the constants that meets the assumptions:

* `WindowAssumption`: RUDP_SEND_WINDOW is at most RUDP_REORDER_WINDOW (they are
  equal in `rudp/include/rudp/connection.h`).
* `NoWrap` and `HalfRange`: sequence numbers do not reach the end of `uint32_t`,
  and the reordering window is less than half their range, which makes the
  signed difference of the code a plain comparison (`WindowMeaning`).
* `LinkAssumption`, `SidesAssumption`: a link, and an encrypted session, have two ends;
  the copies of a packet on their way are bounded by a number.
* `LinksAssumption`: the peers of a node are nodes and silent hosts, and a node is
  not a peer of itself.
* `TimeAssumption`: `last_seen` has some width, and a peer is dead after some time.
* `TypesAssumption`: "PACK_NULL", which `ArrivesAsSent` uses for what is no packet,
  is not among the types sent.
* `HashAssumption`: a hash is a number, and the first capacity and the load factor
  are not 0.
* `HttpAssumption`: the parser has room for two headers (`MAX_HEADERS` is 20 in
  `uhttp/include/uhttp/api.h`), since the length of a response is its second.
* `ServersAssumption`, `ClientsAssumption`, `QueueAssumption`,
  `DescriptorsAssumption`, `RingAssumption`, `ContainersAssumption`,
  `SizesAssumption`, `ThresholdAssumption`: finite sets where the code starts one
  thread for each member, numbers where it counts, and values that stand for
  "none" or "free" that are no others.

The arguments:

* *RUDP.* `InOrderDelivery` is not inductive. The invariant adds `Numbering`
  (packet m carries number m - 1, and every buffer holds only packets sent),
  `Prefix` (`last_recved_seq` is the length of what was delivered, less one),
  `Waiting` (nothing buffered is what is needed next), and `AcksBehind` (only
  delivered packets are acknowledged), from which `NoSilentLoss` follows for any
  late or repeated PACK_RACK. `ReorderingKeeps` does the work: the run handed
  over is exactly what extends the prefix. `ReachIsKept` and `Refinement` add
  that packets in flight are consecutive up to the cap.
* *Sender.* Between the reading of the eventfd and the next wait the queue is
  popped until empty, so what is in the queue when the worker waits was pushed
  later, and its notification is still to come or set.
* *Watcher.* The number of packets in the queue is at least the number of
  producers yet to notify, plus one if the event is set or a wake-up is being
  served (`Backed`).
* *Dispatcher.* As for the sender in a round that was woken (`r`), which pops until
  the queue is empty; the drain after a wait that timed out, with `r` false, is
  the only step that takes an event away without that (`DInv`).
* *Peers.* An active entry, a connection, an acknowledgement under way and
  every thread's copy of a state have a cause: a packet that has come through in
  the right direction (`Caused`).
* *Packets.* A datagram is refused or is the wire form of a packet that was made
  (`Genuine`), and the queues behind the listener hold, and their threads have
  had, the packets accepted, each its own, in the order of arrival (`Passed`).
* *Peers database.* A thread that polls in `peers_db_wait` for a change that has
  happened finds the eventfd set, or a changer about to set it; the snapshot of
  `_daemon_io` is not ahead of the clock, and `last_seen` is what was heard, cut to
  its type (`PInv`).
* *Gossip.* Every entry, in a table or under way, is no younger than the last
  time its host was listed as a peer (`GInv`).
* *NAT.* Every server is resolved once (`Resolved`); on a socket that was never
  closed the two that are compared are the first two (`FirstTwo`), and what is
  under way is the request to the one asked or its answer (`Asking`).
* *Encrypted sessions.* A keypair belongs to one session of its peer, and the
  counters run through that session whatever keys come and go in it: what was sealed,
  and what was opened, with a keypair has exactly the nonces below the counter, each
  once and in order (`Session`, `Sealed`, `Opened`, `OnTheWay`). A key has one keypair of
  each peer, so its order is the same on both ends; and if the session has known no
  other key, the nonces opened under it have no gap.
* *HTTP.* Work in a queue is announced or its thread is on its way to it
  (`WorkAnnounced`); open descriptors are different (`FdsDiffer`, `FdsKnown`); for each
  client, answers, then responses and requests on their way, are what it asked for,
  each once (`AnswersFit` with `ReadsFit`, `InHand`, `Unread`).
* *QUIC.* What one thread leaves for the other is announced (`Announced`), an event
  of a session has a session behind it (`Told`), and while a single connection is
  ready that is the only session (`OneReady`).
* *SOCKS5.* A thread owns the descriptors it holds, unless one that was never set
  has been closed (`OwnsWhatItHolds`).
* *Ring.* `tail` is `count` cells after `head`, modulo the length; the lemmas
  on modulo arithmetic say that advancing the head shifts every position by one
  and that positions less than a length apart are different cells.
* *Table and array.* In a table each key is in one pair and each pair has a block
  of its own (`TableOK`); that there is a free block is shown by counting. An array is the
  list of its first `len` cells (`ArrayOf`), and each call moves them as the list says.
* *Loops.* A set of numbers that has 0 and the successor of each of its members holds
  all numbers (`UpTo`); from that, `LoopRuns` gives the values of a recursive function
  turn by turn. The n turns of `filter` and `setself` leave what was kept so far, in its
  order, before what is not looked at yet (`Compacted`): of the members of a set of
  places, the next one has the next rank (`RankNext`), and each is the n-th for its rank
  (`NthOfRank`).
* *Hash tables.* A table holds a map m on the keys D (`Holds`) if each chain has nodes for
  keys of its index only, each key once and with the value m has, and each key of D is in
  its chain. Where such a table finds a key, and what it finds, is then determined
  (`FindsTheNode`, `FindsNoNode`). `HInv` says that every table holds some map or was moved
  from. Rehashing goes through tables that hold m on more and more keys, node by node
  (`ChainMoves`) and chain by chain (`RehashRuns`); growth, shrinking, copying and
  swapping keep `Holds`, whatever the hashes are.
* *HTTP messages.* The part at each place of a text is known (`TextIs`), so CRLFs are at
  the even places up to the end of the header and once more there (`CrlfAt`). The end
  is found once both its CRLFs have come and not before (`HeaderEndAt`), and then the
  headers are taken in their order (`TakenAre`) and the body is what follows. There is one
  header with the length, and it is among those taken (`LengthsAre`).

Only model-checked is everything under fairness (`InFlightSettles`,
`EventuallyAcknowledged`, `EverythingSent`, `EndReturns`, `FirstContact`,
`DeadPeerForgotten`, `FinsCease`, `EverythingOpened`, `StopHeeded`), because
TLAPS does not reason about ENABLED.

Every safety property, action property and refinement the passing runs check is a theorem.
What TLC adds for those is that they are not vacuous: the runs reach the cases they are
about, and each is broken by its mutant.

## 5. Disagreements found

* `watcher_lost_wakeup`: the watcher resets the whole eventfd counter and pops
  one packet. A packet whose notification was merged with another one stays in
  the queue until something else arrives.
* `dispatcher_lost_wakeup`: the dispatcher drains the eventfd also after a wait
  that timed out. A notification that comes between the two is lost, and its
  packet waits for the next one.
* `peer_told`: `_daemon_st` works through a snapshot. A peer that a user
  disconnects meanwhile gets a new connection, which nothing closes, after the
  user was told "Disconnected from peer".
* `gossip_packed`: `gossip_to_data` is given the address of a pointer to an array
  where it expects a table of pointers. Only the first entry of a packet is
  an entry, although the header says "pack entries to data (N given entries)".
* `peers_wrap`: `last_seen` is a `uint32_t` of milliseconds since boot, the time it is
  compared with an `int64_t`. Once the clock passes 2^32, after 49.7 days, every peer
  is "Dead peer detected" in each round, however recently it was heard of.

Observed in the model, where no text of the repository promises otherwise:

* A handshake whose last PACK_ACK is lost leaves one node active and the other
  not: an active node does not answer a punch, and pings keep both entries
  alive. `FirstContact` is therefore stated without losses.
* A connect request for a peer that is active overwrites the entry; the new punch is
  not answered, since the other side is active, and the entry stays INITED. So does
  that of a user who connects again after a disconnect the other side has not
  noticed. `FirstContact` excepts both.
* Encrypted sessions: a peer that keeps its session when the other begins anew reads
  from its old counter on, so that the first messages under the new key are never
  opened. A handshake handled before one's own was sent ends the handshake, and
  sending then takes the state back, after which everything is refused.
* An application of QUIC that reads one packet for each wait, as the examples do,
  leaves the second of two packets lying whose notifications were merged, until
  another one arrives.
* With a second connect request, a PACK_FIN still under way from before it can
  meet two active nodes, whose daemons re-establish the connection as fast as
  the PACK_FINs close it, without end. `FinsCease` is therefore stated for a
  single connect request.

Observed while reading, with no property in the runs:

* SOCKS5: for a host given by name, `prx_resolve_address` (`proxy/src/socks5.c:212`)
  takes the answer 0 of `ln_tsock_connectx`, a timeout, for success and 1, a
  connection, for failure (`lownet/src/tcp_sock.c:56`, `:65`), although
  `proxy/include/proxy/socks5.h:36` says "returns connected socket". `TryAddress` does
  what the code does.
* RUDP: duplicates and packets ahead of a gap pile up in `pkts_net`
  (`rudp/src/dispatcher.c:271`); the cap of one direction closes both
  (`rudp/src/connection.c:310`); `rudp_get_connection(UINT32_MAX)` may return with
  the table locked (`rudp/src/dispatcher.c:121`, no caller); packets queued just
  before the sender stops are freed unsent (`providers/src/sender.c:131`).
* Peers: `peers_db_wait` waits for a state that is there already, or that another
  waiter was told of, for ever, and does not know UINT32_MAX
  (`peersyst/include/peers/peerdb.h:58`); above one packet a second nobody is
  pinged or found dead (`interface/src/daemons.c:120`).
* NAT: for more than ten servers no name is resolved (`natpunch/src/nat.c:93`); the
  retry after a timeout uses a closed socket (`natpunch/src/nat.c:28`).
* HTTP: a read of less than 2048 bytes counts as the whole request
  (`uhttp/src/server.c:50`); the last header of a message is dropped
  (`uhttp/src/parser.c:61`); an idle client holds up the runner
  (`uhttp/src/server.c:105`); `uhttp_server_end` frees responses from the wrong
  queue (`uhttp/src/server.c:198`).
* QUIC: a stale event wakes the second `quic_wait_session`
  (`quic/src/quic.c:230`); only the first session is ever unregistered (`:303`);
  the client has no `outgoing_done_ev` (`:39`); picoquic is called by two threads
  (`:214`).
* SOCKS5: a refused request closes a descriptor that was never set
  (`proxy/src/socks5.c:254`); failed connects leave theirs open (`:179`).
* Containers: `ht_swap` exchanges everything but the capacity
  (`base/src/base/dyn_htable.c:87`, no caller); `ht_erase` answers the same whether the
  key was there or not (`:241`), and so does `dyn_table_set`.
* Gossip: news of a peer found dead in this very round is given the time of the round
  (`interface/src/daemons.c:139`). The bound of a packet is tested after the copy
  (`gossip/src/system.c:136`). Keys: loading always fails (`crypto/src/keys.c:43`).

## 6. What is not modelled

* Failure of `malloc`, of system calls, and of threads to start, except where a
  module says so (`Socks5!AcceptClient`).
* Stating server: it does not build at this commit (it includes
  `soter2/interface.h`, which exists in `src/.old` only), and its answer, every cell
  of the ring of pending peers, exceeds the MTU and never leaves it. Stating
  client: no code registers a server, and nothing consumes an answer.
* TURN: not finished. A request is read in another order of fields than it was
  written (`turn/src/packets.c:37`), and the status of an answer is copied the wrong
  way (`turn/src/statem.c:164`), so that no pair is ever bound. `PacketPath` has the
  code as it behaves: `turn_check_pair` is false.
* In `PeerLink`: HELLO and HELLO2 (nothing in the repository sends HELLO).
* In `RudpConnection`: sequence numbers past 2^32, waits on `ev_reordered`, a
  connection established anew under the same UID, and the memory of a connection
  that is closed while in use.
* Sockets, JSON, logging, key files: I/O and calls into libraries. `src/.old` is
  not built, but for the example that shows how `e2ee` is used.

## 7. Plan

Done: `RudpConnection` and `ReliableChannel` first, because all user data runs
through them; then the queues and workers every packet passes; then `PeerLink`;
each with its proofs. Then the rest of the node (`PacketPath`, `PeersDb`, `Gossip`,
`NatDetect`), the services (`E2eeSession`, `HttpServer`) and the libraries
(`Containers`, `HttpMessages`, `QuicCore`, `Socks5`), and the proofs of their safety
properties that section 4 lists.

Next, in this order:

1. `RudpSession`: the dispatcher's table of connections with PACK_FIN,
   `rudp_est_connection`, `rudp_close_conncetion`, against a table of sessions.
2. `SeqWrap`: the receiver near 2^32.
