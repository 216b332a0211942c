# TLA+ verification of Lightbringer

Lightbringer receives the shreds of Solana blocks, assembles them into slots,
repairs what is missing, joins complete slots with block confirmations and
streams the confirmed slots to its clients over gRPC.  Beside turbine it runs an
overlay of its own, in which Lightbringer nodes, many of them behind NAT, find
each other and pass shreds and repairs on.  This directory holds
TLA+ models of both, TLC configurations that check them on small
instances, and TLAPS proofs of the invariants that matter most.

Paths below are relative to the root of the repository.

## 1. Inventory

### 1.1 The pipeline

```
 turbine ──┐
           ├─> packet filter ─> slot assembly ──> gRPC slot stream ─> clients
 repair ───┘        ^             │    │  ^             ^
   ^                │             │    │  └ timers      │
   │         leader schedule      │    └──> shred store │
   └──────── repair requests <────┘                     │
                                   block confirmation ──┘
                            (websocket + RPC, or Alpenglow)
```

Every service runs on an executor (Glommio) thread of its own, except that the
handler and the staleness monitor of slot assembly share one, and so do the
three repair tasks.  Tasks on one thread interleave only where they await;
threads exchange messages over bounded channels, and a full channel suspends
the sender in the middle of a step.

| Component | Source | State | Operations | Module |
|---|---|---|---|---|
| Slot assembly | `src/store/slot_meta.rs` | slot cache, timers, local channel, two outgoing bounded channels | file a shred; timer insertion, expiry and completion; send or wait | `SlotMeta` |
| Repair requester | `src/repair/{request,outstanding_timers,peer_manager,socket}.rs` | outstanding store with a timer per request, local channel, socket channel | bounded and unbounded request, cancellation, retry, response, follow-up | `RepairManager` |
| The two together | `src/main.rs` | the channels between them | | `SlotRepair` |
| Alpenglow confirmations | `src/block_conf/alpenglow.rs` | candidate, finalized and pending maps, next slot | receive a slot, promote, emit | `AlpenglowConf` |
| RPC confirmations | `src/block_conf/mod.rs`, `src/solana_rpc.rs` | websocket, catch-up queue, last slot | notification, failure, list, fetch, resubscribe, drop | `BlockConf` |
| Confirmed-slot delivery | `src/grpc_slot_stream/shred_source.rs` | waiter, finished slots, slot cache, two queues, handshake | complete, confirm, look up, wait, send | `SlotWaiter` |
| Shred store | `src/store/{shred,mod}.rs` | key-value store of shreds by slot and index | put batch, get slot, compact | planned |
| Packet filter, leader schedule | `src/packet_filter.rs`, `src/leader_schedule/` | worker pool, leader cache | verify and forward, sync an epoch | planned |
| Repair server | `src/repair_delivery/` | ping cache | answer requests | planned |
| Overlay port mapping | `src/overlay/portmap.rs` | ladder phase, lease, pinhole phase and lease, gateway socket | timer, datagram, TCP answer | `PortMapper` |
| Overlay transport | `src/overlay/transport.rs` | connections by address, index by identity, expected identities, pending datagrams, streams | dial, accept, authenticate, lose, drop; queue; open, write, finish and reset streams | `OverlayTransport` |
| Overlay mesh | `src/overlay/{service,gossip,turbine}.rs` | adverts, confirm-dials, quarantine, seen shreds, connections | advertise, take and pass on adverts, dial and confirm, source and retransmit shreds, crash, restart | `OverlayMesh` |
| Overlay repair | `src/overlay/{service,repair,driver_glommio}.rs` | streams, requests on both sides, rate, event queue, nonces | request, answer, refuse, expire, lose the connection | `OverlayRepair`, composed with the mesh in `OverlayNet` |
| Address discovery | `src/overlay/{discovery,nat}.rs` | observations | classify, calibrate, choose a candidate | `AddressDiscovery` (operators) |
| Dial-back | `src/overlay/service.rs`, probe connections of `transport.rs` | observations, pending requests, confirmed candidates, helper probes | observe, request, probe, report, expire | `OverlayDialBack` |
| Hole punching | `src/overlay/service.rs`, `src/overlay/punch.rs` | sessions, forwards, helpers, outcomes, short-lived sockets | begin, forward, answer, assist, probe, dial, complete, expire | `OverlayPunch` |
| NAT boxes and firewalls | `src/overlay/sim/nat.rs` | mappings, leases, cursor | outbound, inbound, install a lease | `NatBox` (operators) |
| Turbine receiver, gossip set-up, HTTP RPC, threads, configuration, metrics, snapshot fetch, Alpenglow cryptography | | | | not modelled (section 7) |

The overlay service is a state machine without threads: the driver hands it
datagrams, timers and commands, and it answers with datagrams and events
(`src/overlay/env.rs`).  What is concurrent is the network, and the nodes at its
ends.

`PROJECT.json` lists every component with its status.

### 1.2 What is hard, and what makes each part correct

* **Slot assembly.**  Shreds arrive in any order, repeatedly, or not at all; the
  shred that tells how long the slot is may come first, last or in the middle;
  coding and data shreds count alike towards closing a batch but not towards
  finding holes.  Messages about one slot queue up between the handler and the
  monitor while the cache evicts and rebuilds that slot.  Correct means: what
  is delivered can be recovered; what is called complete is in the store; no
  incomplete slot is forgotten; a completed slot is left in peace; a request
  names everything that is missing.
* **Repair.**  Three tasks share the store of outstanding requests and await
  room in the socket channel with a request half moved.  Responses are lost,
  late (under an old nonce) or malformed; a cancellation overtakes requests on
  their way to the store.  Correct means: a request ends only with an answer, a
  cancellation or for want of peers; an entry can always be retried; repair of
  a slot succeeds when the network does its part, and then stops.
* **Confirmation streams.**  Blocks and certificates meet in any order and
  gaps stay open; a websocket fails at any moment and the catch-up overlaps
  with what was sent and what will be announced.  Correct means: final blocks
  only, each once, in slot order.
* **Confirmed-slot delivery.**  A slot may complete before, while or after it
  is waited for, or twice, and leave the cache in between; two tasks have to
  agree on where to start.  Correct means: in order, with the right shreds, no
  lost wake-up, no deadlock, every confirmed slot sent in the end.
* **Port mapping.**  A lease is renewed through a ladder of protocols whose
  answers are late, lost or refusals, while a second conversation about the
  IPv6 pinhole runs on the same socket and the gateway may be replaced.
  Correct means: nothing is offered that has run out at the gateway, a working
  gateway's lease never lapses, the ladder always comes back and never spins.
* **Overlay transport.**  Dials of both ends cross, accepted connections replace
  dialled ones at the same address, and an identity may have two connections.
  Correct means: what is meant for an identity reaches that identity only,
  streams end with their connection, the index names living connections.
* **Overlay mesh.**  Adverts are flooded, expire and start their numbering anew
  with every restart; addresses are confirmed by dialling them and given up for
  good on a timeout; every node computes the dissemination tree by itself.
  Correct means: a former life is forgotten and the new one believed, no honest
  node is given up, every shred reaches everybody.
* **Overlay repair.**  An answer, a deadline, a reset and the loss of the
  connection may all end one request, and the queue to the driver is bounded.
  Correct means: every request is concluded once, under its own nonce.
* **Dial-back.**  What a helper confirms may have changed while it probed: the
  mapping, the lease, the connection, the NAT itself.  Correct means: an address
  advertised as Direct lets strangers in, and no probe socket is left behind.
* **Hole punching.**  Both ends may begin at once; probes, answers, helper plans
  and dials overtake each other while every packet sent changes the NAT boxes it
  passes.  Correct means: the pairs that can connect do, each payload arrives
  once, and every session and socket is released.

`PROJECT.json` lists these as hazards, each at the line where it bites, with the
properties that would catch it going wrong.

## 2. Modules

`OrderedStream` is the abstract specification of a confirmation stream: updates
are handed out in strictly increasing slot order, and slots may be left out.
`AlpenglowConf` and `BlockConf` are shown to implement it, and so is the output
of `SlotWaiter`, which in turn takes its confirmations from an `OrderedStream`:
what the detailed streams promise is exactly what delivery relies on.

`SlotMeta` models `SlotMetadataStore`.  `HandleShred` is one iteration of the
metadata handler, `store_shred` and the sends after it included; the
`Monitor...` actions are the arms of the staleness monitor; the two `Resumes`
actions are the continuation of a send that found its channel full.
`TimerFires` is the 200 ms timer.  A timer whose handle is dropped without being
destroyed keeps running (`detached`, `DetachedFires`).  `Cached` is the bucketed
cache: a new entry in a full bucket displaces another.  `wedged` records that the
handler blocks its thread on a bucket the suspended monitor has locked.

`RepairManager` models the request processor, the outstanding loop and the
receiver, each with a place where it may wait for the socket channel, and the
shared store `outstanding` with its timers `ticking`.  The network and the peers
are external: a peer answers a window request with that shred if it has it and a
highest-window request with its highest shred, as `repair_delivery` and Agave
do; a packet that is lost simply gets no answer.

`SlotRepair` composes the two through `repair_tx` and the packet filter, adds
turbine as a source that promises nothing, and counts network faults.

`AlpenglowConf` models `next`, `promote_finalized_candidates` and `pop_ready`.
`BlockConf` models `next`, `mark_for_resubscribe` and `Drop`.  `SlotWaiter` models
the RPC-mode runner: its three tasks, the waiter, the handshake and the end of
the stream.

`PortMapper` models `PortMapper`: `OnTimer` is `on_timer` with everything it
drives, `LadderAnswered` and `PinholeAnswered` are the answers that
`on_datagram` and `on_tcp_event` act on, `Inert` those they drop.  `Try` is the
family of `send_...` functions: it yields every outcome of going to a rung, the
fate of the request at the gateway included.  The gateway is external: it
speaks some of the protocols, keeps `leases`, and its answers lie in `net` until
they are due.

`OverlayTransport` models `OverlayQuicTransport` of one node: its tables and the
calls of the core on one side (`Core`), what QUIC reports on the other (`Quic`).
Which handshake completes, with which identity, is the environment's choice.
`sound` and `strayed` are history: whether a payload was queued for the identity
its connection was meant for, or for one the index names at an address where no
connection was replaced, and which payloads went to another.

`OverlayMesh` models the core of every node over the memory transport of
`sim/highseam.rs`: `Tick` is the advert cycle of `on_timer`, `HandleAdvert` and
`HandleShred` are the arms of `handle_frame`, `Sent` is `send_to_peer` with its
confirm-dials, `RetransmitPeers` and `OriginPeers` are the tree.  One node,
`Mover`, crashes, restarts and may advertise an address that is not its own; the
others keep each other known.  `OverlayRepair` models repair streams between a
requester and a server, the drivers' tables of nonces included.  `OverlayNet`
composes the two: the connection repair runs over is one the mesh made.

`NatBox` is the NAT box, and `Firewall` the IPv6 firewall, as functions of their
state: `Outbound` yields what the box becomes and the source the world sees,
`Inbound` the socket a datagram reaches.  `AddressDiscovery` is what a node
concludes from observations.  `OverlayDialBack` puts a requester behind such
boxes, with public helpers; `OverlayPunch` puts two ends behind them, with a
common public peer (the via).  `OverlayPaths` places the two scenes side by
side; they share operators and no state.

`MC...` modules hold the instances for TLC; `...Proofs` modules hold theorems.
Definitions whose comment begins with "Mutant:" are plausible bugs put in the
place of the definition they precede; each property is shown to fail under one.

### Abstractions

* A shred is its slot, kind and index; its payload, signature and Merkle proof
  are not represented, and only shreds of the leader's block exist (the packet
  filter verifies signatures before slot assembly sees a shred).
* `data` and `code` stand for `fec_data_map` and `fec_coding_map`; the FEC set of a
  shred follows from its index.
* Nonces are random in the code and distinct in the model: a nonce is the
  request it was drawn for with the lowest attempt number not in use.
* Peer sampling is any choice of peer; an empty peer list is a choice too
  (`Lonely`).
* The LRU maps of the Alpenglow stream may evict any entry; the cache of
  `SlotWaiter` keeps its order, which matters there.
* Verification of certificates is a choice of which certificates of a block
  verify; consensus finalizes at most one block per slot (`FinalityAssumption`).
* In `PortMapper` instants are the time left until they come and `Tick` lets one
  unit pass when nothing is due.  Addresses are left out; that a NAT-PMP or UPnP
  renewal keeps the external address of the first grant (`portmap.rs:292`) is
  therefore not visible.  An answer that does not parse is like a lost one, a
  lease below `MIN_LEASE` is a refusal, the pieces of an HTTP answer are one
  message.
* `OverlayMesh` counts time in advert intervals; the three seconds of a
  confirm-dial, and everything an interval sets off, are over before the next
  begins.  `ExpireConfirm` may fire at any moment after the dial, as
  `expire_confirms` asks for the deadline only; that a handshake is still under way
  when it does is one of the `MaxFaults` faults.
* An address in `NatBox` is host, network and port; the network changes with the
  generation of the box, by two, so that the networks of IPv4 are odd and those of
  IPv6 even, and no old one comes back.  Mappings do not idle out: the overlay's keep-alives
  hold the ones it uses.  One box per host (no carrier-grade NAT in front of it).
* `OverlayPunch` takes the observations as made: profiles and candidates do not
  change during an exchange.  `Calibrate` is therefore without the cache of
  `AddressDiscovery::calibrate`, which keeps the first verdict of an external
  address, one from fewer than three samples included, until that address
  changes.  The random ports of bracket helpers never collide (`BracketPort`).  Signalling frames of one connection keep their
  order, raw probes do not.  The 100 ms between two rounds and the deadlines
  count as long against the network's delays (2 to 6 ms in the scenarios): a timer
  that fires while something is under way is one of the `mishaps`, and
  `PunchConnects` promises nothing after one.
* A random NAT may draw any free port; what it gave the observers is fixed
  (`Drawn`).
* Elsewhere time appears as the order of events: a timer that is armed may fire
  at any later moment.  `SlotRepair` calls it a fault when a request times out although
  its answer was still to come.

## 3. Runs

| Run | Checks | Instance and why it is enough |
|---|---|---|
| `slot_meta` | `TypeOK`, `DeliveredRecoverable`, `StoreHasCompleteSlot`, `NeverForgotten`, `QuietWhenComplete`, `BoundedRequestSuffices` | A slot of two FEC sets of two data and two coding shreds in a cache of one entry, and a second slot that passes by and evicts it (`Arriving` keeps it to one shred and the first slot's coding shreds to one; with the monitor three messages behind or a timer detached the first slot arrives in order, and the monitor falls that far behind only while nothing waits in a channel): every return path of `store_shred`, full channels on both sides, the monitor three messages behind, timers and messages of a slot's first life meeting those of its second, a detached timer firing. |
| `repair_manager` | `TypeOK`, `NoStrandedEntry`, `RequestsPersist` | One slot of two shreds, one peer, a socket channel of one batch, malformed answers and missing peers, at most two requests in store and queue (`LoadBounded`): every task is suspended in every state of the others. The shreds handed on, which nobody reads, are left out of the fingerprint (`ButFilter`). |
| `slot_repair` | `RequestedComplete`, `RepairSubsides` | One slot of two FEC sets of one shred, turbine delivering any of the data shreds and of the coding shreds of the last set, or none, one network fault: enough for a lost request, for an answer that comes after the retry, and for a set that coding shreds close before or after its data is asked for. |
| `slot_repair_stuck` | `SlotsComplete` is violated | Three FEC sets; turbine delivers the data of the first and the coding shreds of the last only; no faults. See section 6. |
| `alpenglow_conf` | `TypeOK`, `OutputFinal`, `MatchedPromoted`, `PendingAhead`, `ImplementsOrderedStream` | Slots 1 to 5 with two blocks in slot 2, certificates that come early, late, twice or fail, a reorder limit of one and maps of two and three entries. |
| `block_conf` | `TypeOK`, `CatchupContiguous`, `ImplementsOrderedStream` | Five blocks with skipped slots, websocket and RPC failures and shutdown at any moment, over a server that lists blocks. |
| `block_conf_drop` | `DropHasSocket` is violated | The same stream with the HTTP request the code sends. See section 6. |
| `slot_waiter` | `TypeOK`, `NoLostWakeup`, `DeliversInOrder`, `ConfirmedAreSent` | Three slots completed in any order and repeatedly, a cache of one, queues of two, a store that returns the slot, a part of it or an error. |
| `port_mapper` | `TypeOK`, `OfferedIsLeased`, `NeverLapses`, `NoSpin`, `LadderRecovers` | Seconds as units, the code's timeouts and attempts, `LADDER_RETRY` shortened to 20 (still longer than a PCP lease of 15, so that a lease can run out while the ladder waits) and the UPnP lease to 24; answers up to 3 late, past `STEP_TIMEOUT`; gateways that speak one protocol or all three; one shock at any moment. |
| `overlay_transport` | `TypeOK`, `DeliveredToIntended`, `StreamsFollowConnections`, `IndexNamesItsIdentity` | Two addresses and two identities, a table of two, one pending datagram, two streams: enough for crossing dials, a replaced connection, and two connections of one identity. |
| `overlay_net` | `TypeOK`, `RestartHeals`, `FloodCovers`, `OnlyCulpritsQuarantined`, `RepairConcludes` | Four nodes, fanout 1 (a tree of four layers, every order of the nodes), five advert intervals with a time to live of one, one fault; Mover advertises its own address, that of a node only Static is connected to, or none, so that dials find whom they expect and whom they do not; two repairs over streams, an event queue of one, one request at a time at the server. |
| `overlay_paths` | `PathTypes`, `DirectReachable`, `PunchConnects` | Dial-back: seven settings of NAT, firewall and gateway, two helpers on different ports, two request cycles, one fault, two frames under way (`Sparse`). Punching: twelve pairs of boxes with a pool of eight ports, three observers, up to one mishap; the pairs take every rung of the ladder (plain, same-port observation, one and two brackets, birthday sockets) and pairs that must fail; where both ends begin at once, four helpers are as many as both exchanges ask for. |

Deadlock is checked in `repair_manager`, `slot_repair`, `alpenglow_conf` and
`port_mapper`, which never come to rest.  It is not in the others: slot assembly
may wait for shreds for ever (and a wedged thread for the monitor), `BlockConf`
ends when it is dropped, `SlotWaiter` when everything is delivered or the stream
has ended; the transport rests when all handles are used, the mesh after its
last interval, a punch when it has connected or given up.

### Fairness

`SlotRepair` assumes weak fairness of every task of the two components, of both
kinds of timers, of the socket and of the peers' own reception of the block: the
executor polls ready tasks in turn, timers fire, a bounded channel whose reader
runs is drained.  Nothing is assumed of turbine.  The network is fair in the
sense that it commits at most `MaxFaults` faults; the code retries without limit,
so what matters is that faults end, not how many there were.

`SlotWaiter` assumes weak fairness of the metadata and the shreds task, and for
each slot strong fairness of its completion: slot assembly keeps trying to send
a complete slot, and senders on a full channel are served in turn.  No fairness
is assumed of the confirmation stream, which may stop or end at any time.

`PortMapper` assumes that the driver calls `on_timer` at `poll_timeout` and hands
over what the sockets receive, and that time passes (weak fairness of `OnTimer`,
`Delivery` and `Tick`).  The gateway is fair as the network of `SlotRepair` is: of
the attempts at a rung one is answered in time, except in at most `MaxShocks`
cases.

## 4. Proofs

Eight modules hold the proofs, for every value of the constants.  Each `...Proofs`
module defines the inductive invariant of its component (`IInv`, for the monitor
of slot assembly `MonitorInv` on top of it, `MeshInv`, `FloodInv`, `RepairInv`,
`DialBackInv` and `PunchInv` for the overlay), proves that `Init` establishes it
and every action keeps it, one lemma per action, and derives the properties of the
runs from it.

| Module | Invariants | Action properties, refinements |
|---|---|---|
| `SlotMetaProofs` | `TypeOK`, `DeliveredRecoverable`, `StoreHasCompleteSlot`, `NeverForgotten`, `QuietWhenComplete` | `BoundedRequestSuffices` |
| `RepairManagerProofs` | `TypeOK`, `NoStrandedEntry` | `RequestsPersist` |
| `AlpenglowConfProofs` | `TypeOK`, `OutputFinal`, `PendingAhead`, `MatchedPromoted` | `ImplementsOrderedStream` |
| `BlockConfProofs` | `TypeOK`, `CatchupContiguous` | `ImplementsOrderedStream` |
| `SlotWaiterProofs` | `TypeOK`, `NoLostWakeup` | `DeliversInOrder` |
| `NatTraversalProofs` | `TypeOK`, `OfferedIsLeased`, `NeverLapses`, `DirectReachable`, `PathTypes` | `NoSpin` |
| `OverlayTransportProofs` | `TypeOK`, `DeliveredToIntended`, `StreamsFollowConnections`, `IndexNamesItsIdentity` | |
| `OverlayNetProofs` | `TypeOK`, `OnlyCulpritsQuarantined`, `RestartHeals`, `FloodCovers`, `RepairConcludes` | `NetImplementsMesh` |

**Slot assembly.**  `DeliveredRecoverable` speaks of the output, `is_complete` of two
counters, so the invariant has to tie them together: `GoodMeta` says of every
cached slot that the number of batches, if known, is that of the leader's block,
that completed batches are among the block's FEC sets, and that each of them
holds `FecSize` shreds.  Then equal counts mean equal sets (`CompleteRecoverable`,
from the cardinality theorems), which is the step a test cannot make.
`LastTellsRequired` proves the arithmetic of `required_batches` for every FEC size
and block length.  Evicted and rebuilt metadata starts from `Fresh`, which is
good, so no assumption on the cache is needed.

The monitor lags behind the handler, and a slot may have been evicted and
rebuilt between two of its messages.  `QueueInv` says what the queue between them
then tells of the slot's present life: whether its last insertion or its last
completion comes later in the queue agrees with whether it is complete, a timer
that has fired has its expiry queued, and a complete slot with a timer has the
message queued that removes it.  `NeverForgotten` is inductive with it;
`QuietWhenComplete` needs `CancelInv` as well, because the cancellation may wait for
room in `repair_tx`; `StoreHasCompleteSlot` needs that every finished batch has
gone to the store (`StoreInv`).  Assumptions used: `FecSize`, `NumBatches` and the
capacities are positive, `None` is neither a number nor a request.

**Repair requests.**  `Typed` sharpens the types by what drawing a nonce rests on:
outstanding requests and responses are finite sets and every nonce names the
request it was drawn for.  `FreshNonceExists` (a pigeonhole argument over the nonces in use) then
shows that a new one can always be drawn.
`RequestsNeverLost` goes through every action and shows what a request that is no
longer undertaken has met.

**Confirmation streams.**  For Alpenglow, `IInv` adds to the properties that
everything emitted lies below `next_slot` (`OutBehind`) and that pending blocks are
final (`PendingFinal`).  The refinement is the reason: `pop_ready` appends a block,
and that block follows all earlier ones because the earlier ones are below
`next_slot` and no pending block is; promotion keeps this because stale entries
are dropped before the match.  For the RPC stream, that the output never goes
back rests on where in the chain the stream stands while it catches up:
`CatchupContiguous` with `LastInv` (the last slot is the slot of a confirmed block,
and bounds the output) and `PhaseInv` (what is listed, fetched and queued in which
phase).  Assumptions used: slots are natural numbers, `None` is not one, one final
block per slot, the chain is ordered by slot.

**Delivery.**  `NoLostWakeup` needs to know who may be registered with the waiter and
what may have been handed over (`HandoverInv`); the order of what is sent needs
the order of what is queued, worked on and confirmed (`OrderInv`).  Assumptions
used: slots are natural numbers, capacities are positive, the store answers in
one of three ways.

**Port mapping.**  The node counts a lease from the answer, the gateway from the
request.  `LeaseInv` follows the answers that are under way: each promises no more
than the gateway's lease has left plus the delay it may still meet; from there
`OfferedIsLeased`.  `NeverLapses` needs `LapseInv`: as long as there was no shock, what
is left of a lease exceeds what is left of the wait and of all attempts of its
renewal, and once no attempt is to follow, a grant is under way that will
arrive before the timeout.  Assumption used besides positive times:
`RenewalAssumption`, all attempts of a rung fit into half a lease, which the
constants of `portmap.rs` satisfy by far.

**Overlay transport.**  `DeliveredToIntended` needs to know of everything pending that
the identity it is meant for is the one the connection expects or has
authenticated (`Reserved`), and that an established connection has nothing pending
between two calls; for a payload queued by way of the index it needs that an
undisturbed entry names a connection of its identity.  `StreamsFollowConnections` and `IndexNamesItsIdentity` are nearly
inductive; what they lack is that the next QUIC stream id of either direction is
not in use and that stream numbers are never used again (`Fit`, `StatesInv`).  The
limits of the tables are part of `TypeOK`, and proving them takes the cardinality
theorems.  Assumptions used: the limits are positive, `None` is no address,
identity, helper, number or truth value.

**Dial-back.**  `DirectReachable` says that a verdict is worth something after it was
given, when frames have been lost, connections moved and the box been renumbered.
Why a probe that got in shows that strangers get in: it came from a socket the
requester's box had never been used toward.  `NoncesInv` carries that: every nonce is
asked about by one request or one probe, and nothing was ever sent to the fresh
socket of a nonce still asked about (`Toward`).  Such a probe passes a port-restricted
filter nowhere, so it comes through something that lets everybody in
(`InboundOpens`): an open mapping, a static one, or no box at all.  What stays open is
`Stands`: a dialled address is not of a network to come, and as long as its network
is the box's and no lease was lost, everybody gets through to it.  Every box update of
every action keeps this, because mappings are only added, a lease only ends with a
fault, and a renumbered box has a network no earlier address names (`VerdictsInv`).
`BoxesInv` says what sits behind the boxes: the requester and nobody else.  Whether
the address is still the candidate of its kind does not matter, so the property does
not ask it.  Assumptions used: `SettingsAssumption` (each box is of one of the kinds of
`sim/nat.rs`, with any stride), `HelpersAssumption` (finitely many helpers, which
listen below the ports the system gives out), `DialBackAssumption` (the limits are
numbers), `RangeAssumption` (the pool has a port).

**Hole punching.**  That every short-lived socket has an owner (`PathTypes`) hangs on
the close: a session that ends closes its birthday sockets, and must not close those
of another session or the one a connection lives on.  `Sound` says of each end that
sockets of a session are birthday sockets of its nonce, that a nonce has one session,
and that no kept socket is of the nonce of a session; the sockets open are then just
those of both.  What keeps it so when both ends begin, and when a request arrives
after its session has come and gone, is `RequestsInv`: the request of an end is under
way at most once, and while it is, or before it was sent, the other end has neither a
session of its nonce nor a kept socket.  At the via `AssistsInv` keeps the ports of helpers
apart, so that one that times out closes its own only.  The limits follow from lists
that are only ever built by `add_punch_candidate` (`AddKeeps`, `CandidatesFacts`).
Assumption used: `PunchAssumption` (two ends, the via is neither of them, the limits
are numbers); the boxes, the ports drawn and the observers are any.

**Overlay mesh.**  `MeshInv` has three parts, each with one lemma per action.
`MeshTypes` sharpens the types: an advert is never sent to Mover or to oneself, no
node is connected to itself, nothing waits at a connected address, and what
waits or is under way is a shred whose flood is under way, so that the tree it is
passed on by exists.  `CulpritsInv` is what quarantine needs: while a node waits for
the identity at an address, that address is excused, or the identity is the one at
home there and the dial is still on the wire, so `resolve_confirm` will find what it
expects, and `expire_confirms` fires only if the handshake takes longer than
`CONFIRM_TIMEOUT`, which excuses the address; and an address somebody advertises is
Mover's own or excused.  `HealInv` is about restarts.  An advert on the wire is
today's, or, until the first interval after a restart, of a former life; an entry
of a former life is at least as old as the present one (`AgeInv`), which is why the
numbering that starts again is heard once `Ttl` is over.  From then on every node
that holds the latest advert has linked neighbours that hold it too, or to which it
is on its way (`SpreadInv`); links never time out because both ends have them.  When
the wire is empty the holders are a set that contains Static and is closed under
the links, hence all nodes: connectedness, stated that way (`LinksAssumption`),
takes the place of an induction over paths.

**Dissemination.**  `FloodCovers` speaks of the end of a flood, `FloodInv` of every
moment of one that nothing disturbed.  What is sent, or waits for a dial, goes down
the tree (`Down`), except from an origin that is not the root; and a node that has the
shred has seen to everybody in its `Tasks`: they have it, it is under way to them, or
it waits for a dial that is under way (`Coming`).  That this survives every handler
rests on two things.  The nodes each build the tree of their own peers, but as long
as they agree with the origin (`Agrees`) and heard from a node before them, leaving
that node out moves every index behind it down by one and no other (`IndexWithout`),
so that `Relay`, stated in indices of all members, is what `retransmit_peers`
computes (`RelayTargets`).  And every index from 1 on has a parent before it
(`ParentExists`): the arithmetic of `retransmit_indices`, layers and anchors included, for
every fanout and length.  When the wire is empty nothing is under way, so whoever
has the shred has given it to its `Tasks`.  Were somebody not below the origin left
out, one of them would have the least index (`LeastNumber`), and its parent would
have the shred (`FloodReaches`): the least counterexample takes the place of an
induction over the depth of the tree.  `Below` is accordingly the least set of
indices that contains what the origin would have passed on and is closed under
`Relay`, a definition without recursion.

`NetImplementsMesh` carries all four properties over to the mesh with repair
(`NetMesh`), which is what the run checks.  Assumptions used: the nodes are
finitely many and connected with Static at first (`NodesAssumption`,
`LinksAssumption`), the fanout is positive (`FanoutAssumption`), `None` is no
entry (`NoneAssumption`).

**Overlay repair.**  What is told of a stream lies in four places: operations under
way, buffers, events and the driver's nonces.  `QueuesInv` says that at each of
them whatever names a stream with a nonce is about the request of that nonce
(once the nonce is forgotten, about any), so an answer that arrives after a
deadline, a reset or a lost connection is still an answer to its request, or is
tagged with nothing.  `StreamsInv` follows a nonce: while its stream waits for the
answer the end is not reported, and when it no longer waits the report is queued
or was lost from a full queue.  Streams that were not opened have left no trace,
which is what makes a new stream's number fresh.  A lost connection fails all
streams at once; that each is reported, or lost, rests on `InOrderLists`, the list
of failed streams has each of them.  The steps of the mesh matter only through the
connection that `Follow` watches, so the theorem holds over all its behaviours.
Assumptions used: `RepairAssumption` (the limits are positive), `UnsetAssumption`
(`None` is no nonce, stream or buffer).

**Only model-checked.**

* Liveness (`RequestedComplete`, `RepairSubsides`, `ConfirmedAreSent`, `LadderRecovers`) is out
  of the prover's reach, and so are the deadlock checks (`ENABLED`).
* `PunchConnects` is checked on the table of pairs.  It says of an exchange that has
  come to rest whether the ends are connected; which path opens depends on the ports
  the boxes of a pair draw and on the predictions made from them, and pairs outside
  the table may well not connect, so there is no statement for all boxes to prove.

## 5. What the passing checks say

In short: whatever is lost, duplicated, reordered, delayed or evicted, a slot
handed on can be recovered; repair of an incomplete slot has been asked for, or
something is under way that will; requests do not get lost between the repair tasks; the streams
and the delivery are in order; and with a network that recovers, slots that stay
cached and whose requests leave nothing out complete, their repair traffic ends,
and confirmed slots are delivered.  A request leaves something out when it has no
bound and coding shreds are ahead of the data (section 6): such a slot may stall.
The port mapper offers only what is leased, renews in time although requests and
answers are lost, and finds its way back after a refusal, a silent gateway or a
replaced one.

In the overlay, a payload reaches only the identity it is meant for, unless it was
queued where another identity was expected first or where a connection had taken
the place of the one indexed (section 7); a restarted node is believed again once
its old adverts have expired; only addresses that were wrong, silent, slower than
`CONFIRM_TIMEOUT` or advertised by somebody else are given up; a shred reaches every
node that is not below an off-root origin, if no fault or change of peers disturbs
its flood; every repair is concluded once, unless a full event queue loses its end.
A dial-back verdict is worth what it says for every kind of NAT but the
address-restricted one, as long as it is about the address that was probed, the box
keeps its network and no lease ends.  No exchange through a NAT leaks a socket or
closes another's.  The pairs of the simulator's prediction table connect in every
order of messages in which no timer fires early, each payload arriving once,
whoever begins, except that two sequential boxes may fail if both begin at once.

## 6. Findings

1. **Repair can stall on coding shreds** (`slot_repair_stuck`,
   `src/store/slot_meta.rs:309`).  When coding shreds alone complete the last
   FEC set, and sets before it have no shred at all, the unbounded request does
   not ask for those: its holes are looked for among the data shreds seen, while
   `max_inclusive_shred`, from which its highest-window part asks, was raised by
   the coding shreds.  That part is answered with the last shred, which falls into
   a batch that is complete already.  `store_shred` learns the number of batches
   from it but reports `Ignored`; no timer restarts, and the sets between are never
   asked for.  In the run the data of the first set arrived; with no data at all it
   is the same.  `Overlooked` is the condition, and TLC finds a second way into it:
   a later request that has a bound, and would ask for the missing sets, is dropped
   when an older one is still outstanding (`src/repair/request.rs:268`), and the
   answer to the older one is ignored.  `RequestedComplete`, which `slot_repair`
   checks, says that slots whose requests overlook nothing complete.
2. **A single drop panics** (`block_conf_drop`, `src/block_conf/mod.rs:220`).  The
   `expect("drop called twice?!")` is reached on the first drop when the stream ends
   or is dropped between `mark_for_resubscribe` and the next subscription.
3. **The catch-up request asks for the wrong thing** (`src/solana_rpc.rs:112`).
   `get_blocks` sends `GetBlock`, so every websocket failure after the first update
   ends the stream.  `block_conf` shows that the stream is correct over a server
   that answers as `get_blocks` expects.

## 7. What is not modelled, and why

Cryptography (signatures, BLS, Merkle trees, TLS), QUIC and erasure decoding are
out of a model checker's reach and enter as assumptions.  Snapshot
download, socket loops, the HTTP RPC server, configuration and metrics are I/O
or carry no state of their own.  Of the glommio driver only the pairing of
repairs and nonces is modelled, of the overlay simulator its boxes, its
transport, its routing and its prediction table.  Shred store, repair server,
packet filter, leader schedule and gRPC fan-out are in the plan.

Known limits, of the pipeline: the wedge of section 2 is modelled and reachable, but
takes 10000 queued requests in the real system; a slot evicted between its
completion and the handling of that message gets no cancellation
(`QuietWhenComplete` speaks of cached slots); blocks confirmed between the block
list and the new subscription are skipped, which `OrderedStream` permits because
the code has no mechanism against it; a candidate evicted before its certificate
arrives is never emitted.

Of the overlay, behaviour the models show and the properties therefore except:

* **Trees below an off-root origin.**  Such an origin hands its shred to the root
  and drops it as seen when the tree brings it back, so nodes that only it, or only
  nodes below it, would pass the shred on to are not reached by the flood.  `Below`
  names them in the tree as it is walked, each node leaving out the one it heard
  from.  There are none if the origin is the next after the root, which then
  stands in for it.  With the default fanout of 8 it takes at least eleven nodes.
* **Quarantine has no end.**  A node that is down for three seconds while it is
  dialled, or whose handshake takes longer, stays excluded at that address; so does
  an innocent address another node advertised (`excused`).  The comment at
  `src/overlay/service.rs:64-66` says that a superseding advert lifts the quarantine;
  nothing in the code does, only 4096 later entries displace one.  A node that
  has really moved is reached at its new address because quarantine goes by
  address.
* **Replaced connections.**  An accepted connection takes the place of the one
  dialled to the same address; streams of the old one stay in the table, and
  the index may name the newcomer for the old identity (`Undisturbed`).  A datagram
  for the old identity queued then is sent to whoever the newcomer turns out to be;
  `DeliveredToIntended` excepts it.
* **The first expectation wins.**  A datagram queued by address where a dial already
  expects another identity goes to the identity at that address
  (`DeliveredToIntended` excepts it too).
* **A full event queue** loses the end of a repair, and its nonce stays
  outstanding (`dropped`).
* **Address-restricted NATs pass dial-back.**  The helper's fresh socket has the
  address of the helper, which such a filter admits, so the node advertises
  Direct although strangers are kept out; `docs/agents/overlay-network.md:46` has
  restricted nodes stay Coordinated.
* **A verdict may be about another address.**  `request_dialback` goes by identity;
  if the helper's indexed connection is the IPv6 one, the helper dials that
  source, and the verdict confirms the IPv4 candidate nobody dialled
  (`confirmed` differs from `probed`).
* **A confirmation outlives what it rested on.**  A confirmed candidate is probed
  again only when the observations change: not when a lease ends, and not after
  a NAT has changed its address, because migrated connections keep the key they
  were made under and peers report that.
* **Punching is a matter of time.**  Probes that arrive before the relayed
  response are dropped; when they outrun it by more than the second round,
  full-cone against symmetric-sequential fails.  A prediction at the end of a
  port pool aims past it.
* **Crossing exchanges of two sequential boxes.**  When both ends begin at once and
  the via helps both exchanges (`Outrun`), the probe each end sends to its second
  helper may take the port that was predicted from its first, and then no probe of
  either end meets a mapping.  TLC finds this as soon as `PunchConnects` does not except it; if
  one end begins, or one exchange gets no helpers, the pair connects.

## 8. Plan

In the order in which it should be done:

1. **Proofs**: what classification and calibration (`AddressDiscovery`) conclude, stated
   for every box that made the observations; from there, kinds of pairs for which
   `PunchConnects` holds whatever ports are drawn.
2. **Ingress**: leader schedule cache, packet filter and repair server, replacing
   the external parts of `SlotRepair`.
3. **One overlay**: `OverlayDialBack` feeding the adverts of `OverlayMesh`, whose
   Direct addresses are a constant today, and `OverlayPunch` taking its shared
   peer from them.
