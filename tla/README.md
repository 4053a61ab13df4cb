# Verification of knotroute

TLA+ models of the knotroute overlay, the TLC runs that check them on small
instances, and TLAPS proofs of the results that matter most. Paths are relative
to the repository root; `PROJECT.json` maps every
definition to the lines it models, lists the runs, the faulty variants that each
property must catch, the hazards of the code and the theorems.

To run: `tlc -config X.cfg M` for a run, `tlapm MProofs.tla` for the proofs.

## 1. The system

A knotroute node keeps encrypted connections to a few peers, floods signed
link-state advertisements (LSA) over them, computes routes from the table, and
forwards packets hop by hop. On top of packets run end-to-end streams; on top of
peer connections run onion circuits. A service can be published without giving
its node away: it registers over a circuit at introduction points, puts a signed
descriptor into a directory spread over nodes, and meets its clients at a
rendezvous point. Around the overlay there are applications: an operations
control server with agents, mailboxes, publish/subscribe, a client runtime.

### Inventory

| component (source) | state | operations | what is hard |
|---|---|---|---|
| Link-state topology (`internal/overlay/node.go`, `peer.go`) | `peers`, `lsas`, `lsaSequence`, `routes` | register, unregister, `emitLocalLSA`, `handleLSA`, `sendAllLSAs`, `cleanupExpired` | emissions overlap without a lock; store and flood are two steps; restart loses the counter; expiry |
| Route computation (`internal/router/router.go`) | none | `Compute` | map iteration order, one-sided links, shortest paths |
| Peer connections (`node.go`, `peer.go`, `discovery.go`) | `peers`, `dialing` | dial, accept, HELLO, `registerPeer`, `close`, `unregisterPeer` | both ends dial and each decides alone which duplicate stays; late unregistration |
| Introduction (`rendezvous.go`) | `registrations`, `introSessions` | `maintainIntro`, `readIntroductions`, `handleIntroRegister`, `handleIntroduce` | handlers of old and new circuits overlap; circuits die silently; registrations expire |
| Service directory (`directory.go`, `internal/directory`) | `descriptors`, `pending`, `wake`, revision file | publish, store, look up, invalidate | dropped wake-ups; a revision that must survive a crash; reordered answers |
| Rendezvous (`rendezvous.go`) | `waiting` | `handleRendezvous`, `acceptIntroduction`, `openServiceDescriptor`, `proxyBoth` | two parties meet under a cookie while it times out; a request that arrives twice; a waiting handler blocks a connection's reader |
| Onion circuits (`circuit.go`) | `clients`, `relayIn`, `relayOut` | create, extend, relay, destroy | an answer after the timeout; a close during an extension; one side is told |
| Packet forwarding (`node.go`) | `seenPackets` | `handlePacket`, `sendPacket` | control packets are relayed asynchronously, data synchronously; a retried packet gets a fresh ID and may arrive twice |
| End-to-end streams (`stream.go`) | `streams` | open, acknowledge, data, close | timeouts against late answers; a close that overtakes data |
| Discovery (`internal/discovery`, `discovery.go`) | candidate cache, beacon table | register, sample, dial candidates | limits with expired entries |
| Node lifecycle (`node.go`) | contexts, wait group | `Start`, `Stop` | `Stop` against a late registration |
| Control plane (`cmd/knotroute-control`, `cmd/knotroute-agent`, `internal/ops`) | `state.json`: agents, jobs, inventory; the agent's identity file and stack | `enroll`, `heartbeat`, `nextJob`, `jobResult`, `execute`, `Store.Update` | lost and late calls, crashes during enrollment, failed saves, a restored backup |
| Mailbox (`pkg/knotmailbox`) | a directory of envelopes per recipient | put, fetch, acknowledge, expiry | capacity, crashes inside a put, clocks of senders, answers that do not fit |
| Application protocols (`pkg/knotapp`) | subscriptions, objects | publish, subscribe, fetch | slow subscribers |
| Client runtime (`internal/clientruntime`) | the running node, the messenger's listener | `Start`, `Stop`, `Restart` | the lock is released between the check and the commit of `Start` |
| Social layer (`internal/social`, `clientruntime/social.go`) | contacts and messages, in memory and saved | `AddContact`, `SendMessage`, `handleSocial` | failed saves, lost answers |
| Naming, identities, invitations, configuration, gateway, certificates, transports, commands, mobile | files, keys, sockets | formats, I/O | sequential or I/O; listed in `PROJECT.json` with the reason they are left out |

Interactions: a connection that is registered or lost triggers an emission and
wakes the descriptor publisher; every accepted advertisement recomputes the routes
and wakes the publisher; packets and circuits use routes and peers;
`maintainIntro` changes `introSessions`, which the publisher reads; a client's
lookup yields the points to which it sends introductions.

What makes each part correct: the newest advertisement tells the truth and gets
to everyone (topology); routes are usable, shortest and deterministic (router); both
ends keep the same connection and crossing dials do not destroy each other (peer
connections); a session stands for a registration and acknowledged introductions
arrive (introduction); revisions increase, changes are published, lookups return
the newest (directory); parties are paired with each other or nobody and are released
(rendezvous); no half of a circuit is left behind (circuits); each direction is an ordered
channel without gaps and a close arrives (streams); a job runs once, in order, and ends
(control plane); what was accepted is kept and delivered (mailbox); there is one node, and
what is shown as sent is kept at the recipient (client).

## 2. Modules

| module | models | proofs | runs |
|---|---|---|---|
| `LinkState` | topology | `RoutingProofs` | `link_state`, `link_state_flooding` |
| `Router` | `router.Compute` | `RoutingProofs` | `router` |
| `PeerLinks` | connections of a pair of nodes | `ConnectionProofs` | `peer_links` |
| `Introduction` | one service at one introduction point | `ServiceProofs` | `introduction` |
| `Rendezvous` | one client, one service and a rendezvous node | `ServiceProofs` | `rendezvous` |
| `Directory` | publication and lookup of a descriptor | `DirectoryProofs` | `directory` |
| `Circuit` | one onion circuit and its stream | `CircuitProofs`, on lemmas of `ConnectionProofs` | `circuit` |
| `Forwarding` | packets, relays, routes and retries | (part of `StreamProofs`) | (part of `stream`) |
| `Stream` | one end-to-end stream; EXTENDS `Forwarding` | `StreamProofs` | `stream` |
| `Channel` | what a stream promises: the abstract specification | (refined in `StreamProofs`) | (refined in `stream`) |
| `Jobs` | the control server, its file, and one agent | `JobsProofs` | `jobs` |
| `Mailbox` | the mailbox of one recipient | `ServiceProofs` | `mailbox` |
| `Runtime`, `Messenger` | life of the client's node; the messenger's store and calls | (parts of `ClientProofs`) | (parts of `client`) |
| `Client` | composes `Runtime` and `Messenger` | `ClientProofs` | `client` |

`MCx` modules give the constants of the instances. Definitions marked "Faulty
variant" are not part of any specification: each is a plausible bug of the
definition that follows it, and the properties must fail with it.

**LinkState.** `link[n][m]` is n's end of its connection (the peer map is the set of
ends that are "up"), `wire` the frames, `lsas` the table, `worker[n][w]` a goroutine
inside `emitLocalLSA`, `reader[n][m]` the reader goroutine between the store and the
flood of `handleLSA`. `emitLocalLSA` takes no lock over its body and is four
actions: `emitNumber`, `emitRead`, `emitStore`, `emitFlood`. `registerPeer` adds the
entry and continues with an emission and `sendAllLSAs`; `unregisterPeer` stands for
`close` from whichever goroutine meets the failure. The ghosts `signed`, `stamp` and
`latest` number advertisements across restarts, `expired` is time.

**Router.** One action per iteration of the inner loop. The set of advertisements is
part of the initial state. The reference is the enumeration of all simple paths.

**PeerLinks.** Dialers (`dialLoop`, which dials regardless of the peer map, and
`considerCandidate`, which looks first) at both ends, connections in the stages
of `establishPeer`, the peer map of either end, and `replaced`: connections between
their displacement in `registerPeer` and `old.close`.

**Introduction.** At the service, the one goroutine `maintainIntro`; at the point,
a handler per circuit and one per client. A circuit is a pair of in-order channels
that may be cut without an end knowing (nothing closes the circuits of a lost peer:
`node.go:423`); a write on a cut circuit is lost or blocks, with `reg.mu` held. A new
registration replaces the old one in the map under the lock, and its handler closes the old
one's circuit afterwards.

**Directory.** `directoryLoop` with its select, the wake channel of capacity one
and the leading-edge delay; publication in three steps (read the points; number and
save; store and send) so that a restart or a change may fall between any two; the
replicas' tables, to which a descriptor may come more than once; a client in `OpenService`
with its cached first and its fresh second attempt. The client's cache and its replica table are one map, as in the code.

**Circuit.** Node 0 is the client, nodes 1 to `Hops` the relays; `down[i]` and `up[i]`
are the two directions of link i. A layer is its sequence number, and a cell opens where
the numbers match. A relay has a reader per connection, the goroutine of `extendCircuit`
and, at the end, the pump from the service; a reverse cell is numbered under `rc.mu`
(`Numbered`) and written later (`Written`), by any of the four. Every timer may fire at
any moment. A lost link swallows a suffix of what it carries and all that follows, and
neither end does anything about it.

**Rendezvous.** The client goes through `openServiceDescriptor`; each introduction point
that forwards its request starts one run of `acceptIntroduction`, so a lost answer makes the
service come twice with one cookie. `handleRendezvous` is one step under `rvMu`, made of the
sweep of expired entries and of `waits`, `turnedAway` or `pairs`. `link[k]` is what a
connection of the rendezvous node carries for all circuits over it: its reader writes data
into the handler's pipe and stands still while nobody reads there. `pumpEnds` and
`readerFails` are the two ends of the race of `circuit.go:252`.

**Forwarding and Stream.** Forwarding has the connections as FIFO channels, `seen`, routes
that change at any moment, and `work`: control packets that a goroutine of
`sendPacketWithRetry` or of `handlePacket` is sending, each with a fresh ID after an attempt
that may have reached the peer (`try`, the number of the failure, so that no two agree); an
attempt that reached nobody is repeated as it is.
Stream adds `openWithConn`, `handleOpen`, the stream maps, the pumps and the local writers. An
incarnation stands for session keys; the acceptor numbers them in the order in which it accepts
(`MaxStreams` bounds them, and with one fault it never stops an acceptance). `Channel` is the abstract specification;
`ChannelSpec` instantiates it with the chunks sealed and written under one set of keys.

**Jobs.** `file` is `state.json` and `mem` the store's copy; an agent's call is a request, its
handling and the answer, and a request whose caller has given up may still be handled. The
agent is a sequential program (`pc`) with its identity file and the host's stack; a docker
command that it has begun may finish without it. A backup is `state.json` at any moment.

**Mailbox.** `files` is the directory, temporary files included; a put is one step under the
store's mutex but for a crash inside it. `created` is the sender's clock. Every call of `Send`
seals an envelope of its own, so none is put twice, and the server's check of the
authorization's timestamp (`protocol.go:119`) is one more way for a call to fail.

**Runtime, Messenger, Client.** `Start` is five steps, since the lock is only held at both
ends, `Stop` four; it also waits for the handlers of connections that the messenger has accepted. A message that is sent passes the sender's store, the recipient's handler
and store, and the answer. Client lets messages through only where the node runs and its
messenger is served.

## 3. Runs

State counts are TLC's distinct states. Environment events (connects, failures,
ticks, restarts, expiry...) are bounded by `budget` (`left` in `Introduction`), chosen
initially from `Budgets`, or by `MaxFaults`; a set of small mixed budgets covers each pair of events that
interact without multiplying all of them. Deadlock is not checked: once the budget is spent
these systems rest (`Jobs` and `Mailbox` never do, and there it is checked). Each module's
type invariant is a conjunct of one of its invariants, named in brackets.

| run | shows | bounds |
|---|---|---|
| `link_state` (1.7 M) | `NewestAdvertisesPeers`, `NeighboursCurrent` [TypeOK], `StaleOnlyIfOutnumbered`, `NoEquivocation` | two nodes, two goroutines each: enough for two emissions to overlap in every order; reconnection, tick, restart, expiry; symmetry in nodes and goroutines, which are only compared for equality |
| `link_state_flooding` (0.6 M) | `FloodComplete`, `Converges` | a chain of three: the shortest on which an advertisement is relayed while the relay's other connection is registered |
| `router` (0.2 M) | `RoutesUsable`, `ShortestFirst` [TypeOK] | every table of three and four nodes, every symmetric one of five |
| `peer_links` (0.3 M) | `MapMatchesConnections`, `EndsAgree`, `CrossingDialsSurvive` [TypeOK], `PreferredStays`, `StaysConnected` | up to three dialers, three connections, two failures |
| `introduction` (0.8 M) | `SessionRegistered` [TypeOK], `DeliveredAfterAck`, `Recovers` | three circuits (one in use, one late handler, one to replace them), two clients |
| `rendezvous` (0.4 M) | `Meeting` [TypeOK], `Meets`, `Released` | two introduction points (the service comes twice), two connections (circuits share one or not), one expiry, one sweep, one cut |
| `directory` (0.9 M) | `RevisionsIncrease`, `NoLostWakeup`, `LookupNewest` [TypeOK], `ChurnPublishes` | two points, three replicas (service, client, third node), three revisions; a restart and failed saves; one lookup of two attempts with reordering or expiry |
| `circuit` (0.1 M) | `InSequence` [TypeOK], `Owned`, `StreamIntact`, `TornDown`, `EndReaches` | three relays: one that only forwards, one that extends beyond it, and the exit; two pieces of data each way and a response queue of two, so that it is full; a service that ends; one lost link; a client that stops |
| `stream` (0.1 M) | `Handshake` [TypeOK], `CloseLast`, `CloseReaches`, `ChannelSpec` (refinement) | two ends and a relay in a triangle, so that a route may change under way; two chunks one way and one back; one fault (a write that breaks its connection, or a routing change) at any point |
| `jobs` (0.3 M) | `ControlPlane` [TypeOK], `JobsEnd`, `InventoryConverges` | a deployment and its removal for one host, two faults of any kind (failed save, crash of either side, lost call, restored backup); the backup may be older than the enrollment |
| `mailbox` (0.9 M) | `StoreSound` [TypeOK], `Delivered` | three envelopes for room of two, one that cannot be opened, sizes that do and do not fit one answer, clocks that are off by more than the time to live |
| `client` (1.3 M) | `OneNode` [TypeOK], `SentIsKept`, `StopReturns` | two goroutines and three calls: a Start against a Start, a Stop and a Restart; a message each way |

### What the exceptions in the properties say

The properties name, as exceptions, what the code really does in cases its documents promise
nothing about; without an exception TLC finds the behaviour.

- *Half circuits.* Short of a lost connection there are exactly two ways to leave a relay with
  an open circuit and nobody to close it, both in `extendCircuit`: it timed out
  (`circuit.go:333`), or its own circuit was closed before CREATED came (`circuit.go:346`):
  `CutOff` in `Owned` and `TornDown`. `EndReaches` has one exception beside lost connections:
  data that reaches the exit after the service has ended may close the circuit before the pump
  can send CLOSE (`circuit.go:252`); then the client's `Read` waits. The model also reaches a
  closed circuit that is entered in `relayOut` after its deletion (`circuit.go:354`): a leak,
  otherwise harmless.
- *Restarted sequence numbers.* The counter starts again with the process while the identity
  does not (docs/protocol.md:115 calls it monotonic). A neighbour keeps the old advertisement
  until it is outnumbered or expires, and once it has expired accepts any number again, an old
  process's frame that a third node relays late included; `StaleOnlyIfOutnumbered` states that
  nothing else keeps one out.
- *Introductions before the acknowledgement.* A registration is in the map before its
  acknowledgement is written (`rendezvous.go:176-183`); a request forwarded in between is read
  by the service as a refused registration, while the client is told OK. `DeliveredAfterAck`
  excepts exactly circuits that carry one of these (`early`).
- *Expired registrations.* They last five minutes and are made once per circuit; afterwards
  the point refuses clients while the service goes on publishing it. `SessionRegistered`
  excepts exactly expiry and the moment in which a handler has replaced a registration and
  not yet closed its circuit (`Displaced`).
- *Rendezvous.* (1) A run of `acceptIntroduction` that comes before its client, or a second
  time for a client already paired, waits with its acknowledgement in the hands of a
  connection's reader, which stands still: if the client's greeting, or the acknowledgement of
  the first run, comes over the same connection, neither gets through (`Behind`). (2) An entry
  that waits is removed only by another party's arrival after 90 seconds; the read of the
  acknowledgement at the client has no deadline. (3) `proxyBoth` tells the other side of an
  end only by `CloseWrite`, which pipes do not have: after the client has closed, the run at
  the service goes on until its target sends something (`Mute`). (4) Data that arrives at a
  closed pipe may suppress the CLOSE (`untold`, the race of `circuit.go:252`).
- *Streams.* A retried OPEN that was not lost is answered with ERROR, which may overtake the
  ACK: the opener fails, the acceptor keeps a stream (`Handshake`). A close arrives unless a
  packet was lost or duplicated (`CloseReaches`), and does not overtake data while connections
  and routes stay (`CloseLast`).
- *Jobs.* A lost answer of `nextJob`, or a lost result, leaves a job running for ever
  (`dropped`): there is no lease. A restored backup makes jobs run again (`AtMostOnce` counts
  restores). One that was made before the agent enrolled makes Control refuse it for ever,
  since it never enrolls anew (`Forgotten` in `InventoryConverges`).
- *Mailbox.* The oldest envelopes block the rest until they expire when they do not fit one
  answer or cannot be opened (`Blocked`); a crash may leave a second copy of an envelope that
  no acknowledgement removes (`DeliveredOnce`).
- *Client.* `Stop` waits for a messenger that nobody closes when a Start commits a node
  meanwhile or has replaced the stored listener (`StopReturns`); a Stop during a Start may take
  the listener of a node that is then committed (`OneNode`, `hit`).
- *Peers.* Two connections dialled from the same end may be closed in turn for ever;
  `StaysConnected` assumes one dialer per end.

### Fairness

- `LinkState`: goroutines inside `emitLocalLSA`, readers with something to read,
  registrations and unregistrations that are due go on. Nothing is assumed of
  connects, failures and ticks.
- `PeerLinks`: `dialLoop` dials for ever (its loop only ends with the node), handshakes
  end by success or by their timeouts, a closed connection's reader returns.
- `Introduction`: `maintainIntro` retries for ever, handlers run, a circuit that is not
  cut delivers. Clients, failures and time are not fair.
- `Directory`: the loop runs, the delay elapses, and Go's select takes a case that stays
  ready in the end. Ticks, churn, the network and clients are not fair.
- `Circuit`: readers, writers and the goroutines of a circuit run, timers fire, a caller
  with a stream keeps reading and a service takes what is written to it. Writing,
  closing, the service's end, losses and stops are not fair.
- `Rendezvous`: readers, handlers, copies and pumps run, a client that has a connection
  reads it, a run of `acceptIntroduction` proceeds, a target whose input has ended closes.
  Time, other rendezvous, answers of introduction points and closing are not fair.
- `Stream`: connections deliver, goroutines run or give up at their deadline, and the local
  application keeps reading. Writing, closing and failures are not fair.
- `Jobs`: a supervisor starts Control and the agent again, the agent's loop runs, and a
  request is handled or fails. Crashes, failed saves and restores are not fair.
- `Mailbox`: the server is started again and the recipient keeps fetching and acknowledging.
- `Client`: the goroutines inside `Start` and `Stop` and `serveSocial` proceed, its handlers
  end by their deadline of 20 seconds; calls and
  messages are not fair.

## 4. Proofs

TLAPS proves the theorems below for every value of the constants: any number of nodes,
links, goroutines, envelopes, chunks, jobs, faults and budgets. The assumptions are the
named ASSUMEs of the modules, which TLC evaluates on every run: marker values are not values
(`NoneAssumption`, `NoCellAssumption`, `NoLSAAssumption`, `NoRouteAssumption`,
`NoHopAssumption`, `NoCircuitAssumption`, `PartiesAssumption`), bounds and clocks are
numbers (`BoundsAssumption`, `HopsAssumption`, `ClockAssumption`, `BudgetsAssumption`...),
links join two nodes (`LinksAssumption`), circuits come in over connections
(`PathsAssumption`), the two ends of a stream are different nodes (`EndsAssumption`),
replicas, users and jobs are finite sets. Each proof has one lemma per action; the invariant
that makes the property inductive was checked by TLC on the module's run before it was
proved.

### Topology (`RoutingProofs`)

| theorem | argument |
|---|---|
| `TypeCorrect` | one step per action; a goroutine past numbering carries an advertisement |
| `NewestAdvertised` | `EmissionInv`: `Counters` (no stamp exceeds what was signed), `Drafts` (numbers drawn and not yet used differ from each other and from `latest`), `EmissionDue` (while `latest` is not the newest number or misses a change of the peer map, a goroutine is before its read). The property itself says nothing about goroutines that are under way, hence the strengthening |
| `NeverEquivocates` | `SignedInv`: `EmissionInv` with `Genuine` (of all advertisements in tables, on wires and in the hands of readers and emitting goroutines, none is newer than `latest`, and two of one stamp are one), `Unused` (no advertisement has the stamp of one that is numbered and not yet read) and `Filed` (advertisements are kept, sent and made under their origin). Equivocation needs two advertisements that meet after several hops, so the invariant speaks of every place an advertisement can be |
| `StaleIsOutnumbered` | from `SignedInv`: what a table keeps is genuine, so when `handleLSA` refuses a newer one it had the lower number |
| `NeighboursAreCurrent` | `NeighbourInv`: `SignedInv` with `Starting` (a process that has numbered nothing is about to) and `Progress` (on a connection that lives, a goroutine is before its flood, `latest` is on the wire, or the neighbour has it, holds one that outnumbers it, or has let it expire) |
| `FloodReachesNeighbours` | `FloodInv`: `SignedInv` with `Sources` (a node has what it is about to flood and what it has written) and `Relayed` (what a node holds of a third one is, for each neighbour, about to be sent, on the wire, or already there); the step between store and flood of `handleLSA` is the case that needs it |

### Routes (`RoutingProofs`)

| theorem | argument |
|---|---|
| `RoutesAreUsable` | `PathsSound`, `Frontier`, `RoutesMatch`: paths stored so far are simple paths over mutual links |
| `RoutesAreShortest` | `Layered` (the queue is ordered by distance) and `Relaxed` (what is expanded has no shortcut) give `NoShortcut`; along any path this bounds the distance |
| `RoutesAreFirst` | `FirstInv`: the invariant above with `Parents` (a path extends that of a node expanded before), `Ordered` (the queue is in the order of its paths), `Ascending` (neighbours are tried in the order of identities) and `Settled` (no path over an expanded node comes before the one found): the first path that reaches a node is the first of the shortest ones, so the order in which Go iterates over its maps does not show |

### Connections (`ConnectionProofs`)

| theorem | argument |
|---|---|
| `MapMatches` | `ReplacedRun`, `OpenAtBothEnds`: what was displaced still runs and is not in the map; what is open is known at both ends |
| `Agreement` | from the same invariant: when settled, a connection in either map is open, hence up at the other end and in its map |
| `PreferredKept` | from the same invariant, per action |
| `CrossingSurvives` | `DialInv`: the invariant with `Dialled` (what an end knows was dialled), `BusyOnce` (a dialer has one connection at a time) and `SurvivorKept` (without failures and with one dialer per end, what the lower identity dialled is never closed or displaced, nor what the higher one dialled before that) |

### Circuits (`CircuitProofs`)

The theorems share one invariant, `CircuitInv`, defined in `ConnectionProofs` with what it
implies about each action; `CircuitProofs` shows that every action keeps each of its parts.
A forward cell is known by the number the client gave its innermost layer, a reverse cell by
the number its first sender gave it; the hops between differ from it by what they have added
or seen before, because hops join while cells travel. `Total` is what the client has sent,
`Passed(i)` what relay i has opened, `Returned(i)` what it has numbered on the way back.
Then every link is a run of consecutive numbers between two of these counts, up to the first
cell that is not a relay cell:

| theorem | argument |
|---|---|
| `CellsInSequence` | `Forward` (link i holds the numbers from `Passed(i)` up to `Passed(i - 1)`, in order, each with the layers of the hops that follow), `ForwardOrder` (the counts fall along the path), `Returning` with `Backward` (the same towards the client, and at most one goroutine of a relay holds a number that is not yet written: a cell numbered under `rc.mu` and written outside it cannot be overtaken, since `Writers` says which goroutine may have one at each stage of the relay), `Queued` (what waits in `cc.responses` are the last numbers the client opened). `Stage`, `Numbers`, `Grown` and `Making` say how far a circuit is built at each relay, that a hop exists only after it was answered, and what handshake cells may be on a link |
| `CircuitsAreOwned` | `Closer`, which names the same owners before the CREATE is handled: the DESTROY of a relay that closes goes behind the CREATE it may still have on the link, and a relay that closes while it extends is counted as the exception the property names |
| `StreamsArriveIntact` | `Service` and `StreamIntact` itself: the exit opens its data by number, so what it has received is counted by `fwdSeq`; `Drained` (the first DESTROY on a link comes after all the numbers written while the caller had the circuit open) carries the end of the stream along, and the pump sends CLOSE only after its last piece of data |

### Directory (`DirectoryProofs`)

| theorem | argument |
|---|---|
| `RevisionsIncreaseHolds` | `FileCovers`: the counter is never behind the file, nothing went out that the file does not cover, and a number about to go out is above all that did |
| `NoLostWakeupHolds` | `WakeInv`: a publication is signalled, or the current points are about to be read, in the descriptor being made, or in the last one |
| `LookupNewestHolds` | `LookupInv`: `Shapes`, `Requests` (each node asked is at one place: its request or its answer is on the way, or it was heard) and `NewestComing` (a node that held a descriptor as new as the floor has still to be heard, or was and the best answer is as new) |

### Streams (`StreamProofs`)

| theorem | argument |
|---|---|
| `StreamIsChannel` | the refinement, `Spec => ChannelSpec`. `StreamInv`: `PacketsGood` (whatever is in flight, with a worker or queued was sealed by its sender under keys of the acceptor, under an ID drawn at a failure that has happened), `Histories` (what was sealed and written is numbered without gaps), `Keys` (an open end expects the next chunk of its keys, the initiator uses one set of keys, and before it has them nobody seals). A duplicated OPEN may give the acceptor a second stream, which is why packets are good relative to a set of keys |
| `HandshakeHolds` | `CleanInv`: `StreamInv`, and as long as nothing was lost or duplicated `Clean`. Its part `OneHand` says that the handshake has one packet, on a connection, with a worker, in `handleOpen` or in the pending channel, and that it is an OPEN or an ERROR only while the acceptor has accepted nothing: a call that fails then leaves nothing. `TypeOK` and `DataFindsStream` need no more than `StreamInv` |
| `CloseComesLast` | the rest of `Clean`: `Parting` (no CLOSE of an end is in flight before it closes), `NoDataAt` (data is never with a worker) and, while no route has changed, `InOrder`. With fixed routes the packets of an end take one line through the overlay, a node for each TTL (`Seated`), and data is further down that line than the CLOSE or in front of it on the same connection (`Ahead`). A CLOSE at its destination then has no data before it: the line ends there |

### Published services (`ServiceProofs`)

| theorem | argument |
|---|---|
| `SessionIsRegistered` | `IntroInv`. `Told` carries it: whatever takes the registration of the circuit in use away (a later registration, a handler that ends) has written the end of the circuit to the service, and `readIntroductions` meets it before the session can be taken for live again. Between the replacement in the map and that write the handler has the old registration in hand: `Displacing`. It needs what a channel may hold (`Acknowledging`, `Ending`: one acknowledgement, the end last and only from a closed pipe) and that a circuit unknown to the point has its registration in front (`BeforeRegistration`, `Opening`) |
| `RequestsAreDelivered` | the same invariant, with `AckFirst` (unless a request overtook it, the acknowledgement is what the service reads first, and a circuit the service has left is closed at the point) and `Asking` (a request names the circuit it was looked up with): handlers hold a registration across the unlock between lookup and write, so a request may be written to a circuit that is no longer registered, and the invariant says it is then still read |
| `PartiesMeet` | `MeetInv`: `Meeting` with `Coming` (a party comes once), `Handling` (a party that `proxyBoth` copies for has a partner; a handler that copies has its partner's handler waiting, with `w.done` open) and `Carried` (what a party reads comes from its partner, and an acknowledgement from a run that has come). The sweep closes `w.done` of the entry in the map only, `proxyBoth` that of a partner only, and no partner is in the map; the keys of a session are those of the partner since nothing else reaches the client |
| `MailboxIsSound` | `StoreSound` with `FilesKnown` (a file is there because its sender's call was handled or cut short, a temporary one because a crash is on record) and `BoxKnown` (what the recipient has opened is in its hands, deleted, or on record as unsure or left over) |

### Control plane and client (`JobsProofs`, `ClientProofs`)

| theorem | argument |
|---|---|
| `JobsProofs!ControlPlaneIsSafe` | `JobsInv`: `Shapes`, `MemoryIsDurable` (memory and file agree while Control is up), `Identity` (all that is signed or listed is the key on the agent's disk), `OneCall` (the agent waits for one answer), `InHands` (who holds a job holds one that was created, and reports an outcome it had), `Bounded` (the executions a job has had and may still have, `Chances`, are at most one and one per restore), `Records`, `Ordered`, `RunningIsHeld`. Requests handled after their caller gave up, and restored backups, are the cases that the property alone does not survive |
| `ClientProofs!OneNodeRuns` | `RuntimeInv`: `OneOwner` (a start belongs to the runtime, to the Start that works on it or to the Stop that took it), `RunningOwned` (what runs has an owner) and `ListenersOpen`; the lock is not held between the sections of `Start` and `Stop`, so the invariant says what each goroutine holds there |
| `ClientProofs!SentMessagesKept` | `MessengerInv`: a message that was answered, or is in its sender's history, is in both histories of the recipient, in memory and on disk, or these are full of newer ones |

### Only model-checked

All liveness (`Converges`, `StaysConnected`, `Recovers`, `Meets`, `Released`, `ChurnPublishes`,
`TornDown`, `EndReaches`, `CloseReaches`, `JobsEnd`, `InventoryConverges`, `Delivered`,
`StopReturns`): the proof system does not reason about fairness and ENABLED here.

## 5. Not modelled

Cryptography (handshakes, onion layers, signatures) is assumed to do its job: a
forged message does not exist, an expired one is refused. Transports, HTTP,
dashboards, file formats, key files, configuration parsing, the desktop, mobile and
command-line wrappers are I/O or sequential. Socket buffers and write blocking of peer
connections are not modelled; the hazard is listed.

Of the modelled parts: the choice of introduction points (sessions at points that are no
longer the closest stay, and more than eight make a descriptor that `Verify` refuses
everywhere); the record layer of `rendezvousConn`; the order of shutdown in `Node.Stop` (a
peer registered after its snapshot of the map is not closed); the beacon's table and peer
exchange; posts and feeds of the social layer; login, networks and onboarding of the control
server; publish/subscribe and the other protocols of `pkg/knotapp`.

In the models: a broadcast is one step (a peer that joins later gets the table from
`sendAllLSAs`); frames about different origins are independent; a link carries one circuit
in `Circuit`, so that readers which one circuit blocks for all are seen only at the
rendezvous node (`Rendezvous`); relays do not stop (their links may be lost); connections are
considered per pair (`PeerLinks`) and as one per pair (`LinkState`); replicas are any
subset instead of the closest by XOR; the first revision is 0 instead of the clock; a reverse
cell that meets a circuit just closed by its client is dropped, where the select of
`circuit.go:514` may still put it into the queue of responses.

## 6. Plan

1. The choice of introduction points as an extension of `Directory`; `Lifecycle` (`Stop`
   against late registrations); `Beacon`.
2. An abstract specification of opening a service that `Introduction` and `Rendezvous`
   implement together.
