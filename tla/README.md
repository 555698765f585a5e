# smiths-net: TLA+ models, checks and proofs

smiths-net is a SIP engine in Rust: it answers, places and bridges calls, carries and mixes their
media, traverses NATs, runs plugins beside the calls, exposes everything to control tools (MCP) and
mirrors its dialogs to other nodes. Its hard part is not parsing but *who does what when*: every call
has its own worker task, every transaction its timers and its listener, and tools, plugins, reloads,
shutdown and replication act on the same tables at the same time. That is what this project models.
Paths below are relative to `src/crates/`; `uas.rs`, `uac.rs`, `txn/`, `auth/` and `transport/` are in
`smiths-sip/src/`.

Contents: 1 inventory, 2 modules and code, 3 runs, 4 fairness, 5 proofs, 6 known deviations,
7 what is not modelled, 8 plan.

## 1. Inventory

| Component | State | Operations | Hard behaviour |
|---|---|---|---|
| Transaction machines `txn/{client,server}_*.rs` | one machine per transaction | `step(event) -> actions` | a rarely reached event, a timer cancelled that should run |
| Transaction driver `txn/driver.rs`, `response_router.rs` | table, abort handles, tokens, router subscriptions, 2xx-ACK window | start, feed, fire_timer, execute_actions, terminate | batches of one machine run on several tasks after the lock is dropped; keys are reused |
| UAS workers `uas.rs` | `workers` map, one channel per Call-ID | dispatch, run_worker, retire | an item sent to a worker that is retiring |
| UAS dialogs `uas.rs` | `dialogs`, `cancelled_invites`, 2xx loops, session timers, guards, `cdr_pending` | INVITE, re-INVITE, UPDATE, ACK, BYE, CANCEL, timer events, teardown | CANCEL at ingress while the worker awaits; timers crossing requests |
| UAS bridging `uas.rs`, `dialog_sessions.rs` | `pending_bridges`, `bridges_by_dialog`, `leg_media`, sessions | pair, park, bridge, rebuild, teardown across the bridge | two workers tear down or rebuild each other's media |
| UAC, registry, tools, drain `uac.rs`, `smiths-mcp` control and call tools, `shutdown.rs` | outbound dialogs, event bus, call snapshots with bridge ids | place_call, hangup, end_call, bridge_calls, unbridge_call, drain | late 200s, two hangups at once, a lagging subscriber, snapshots used after an await |
| One-way HA `smiths-cli` replication_service | delta queue, resync flag, connection, replica | replicate, snapshot, redial, apply_frame | overflow, lost frames, a snapshot of a changing table |
| Raft dialog table `smiths-raft` | log store, vote, state machine, write queue | append, vote, apply, restart | a committed version written over a newer live one; restart between steps |
| ICE and TURN `smiths-ice`, ice_driver | pairs, roles; allocations, permissions, channels | checks, nomination; allocate, refresh, relay, sweep | lost, repeated and reordered datagrams, role conflicts, expiry |
| WebRTC gateway `webrtc.rs` of sip and cli | sessions, parked legs, rendezvous, keepalives | offer, bye, park, evict | two offers and a SIP leg race for one partner |
| SDP `smiths-sdp` | the process-wide o= version | parse, answer, render | answer and media disagree |
| Authentication, registrar, limits `auth/`, `rate_limit.rs` | nonces, bindings, buckets, SQLite file, breaker | challenge, verify, claim, bind, migrate, look up, admit | stale values across awaits, eviction at the limit, crash in a migration |
| Stream transports `transport/` | pool, connections, queues | accept, dial, send, read, write, close | a superseded connection, a half-dead one |
| Media `smiths-media`, `smiths-mixer`, `smiths-transcode` | jitter buffer, stream statistics, ports, sessions, budget, rooms | insert/advance, forward, allocate, admit, join/leave, mix | sequence wrap, exhaustion, last one leaves while another joins |
| Plugins and runtimes `smiths-plugin`, `-sidecar`, `-script`, `-wasm`, ai.rs | providers, sidecars, routes, children, lanes, epochs, state budget, breakers | load, reload, watch, call, restart, swap, dispatch | aborted reloads, a crash between entry and write, a stop that hits the next call |
| Configuration `smiths-core` config, reloader | live and pending configuration, history, adapters | reload, put, confirm, roll back | late timers, stale snapshots |
| Recordings `storage.rs`, `retention.rs` | audio and .cid files | put, delete, sweep | crash between two files |

Interactions: the UAS run loop feeds server transactions and hands requests to the per-call worker;
the worker calls the media fabric and the session orchestrators and replicates each dialog change;
2xx loops and timers come back to the worker as internal events; the UAC drives client transactions;
UAS and UAC publish on the bus, the registry follows it, the tools act on registry, UAC and fabric;
shutdown reads the registry and calls the UAC. PROJECT.json lists every component with its sources,
its modules and what was left out of it, and 40 hazards, each at the line where it bites, with
the properties that would catch it.

## 2. Modules and code

PROJECT.json maps every definition to its lines. What follows is how to read the correspondence.
Definitions whose names end in `Mut` are seeded bugs that the checks must detect; nothing else uses
them. Counters named `Max...` are bounds of the model.

**TxnFsm, TxnDriver.** A machine is a record; `Step` returns the next machine and its batch of
actions, as the `step` methods do. TxnDriver has a thread for each timer task, the listener, ingress
and the TU: one action feeds the machine under its lock and leaves the batch with the thread, and
each `Exec*` action carries out the first of it, because `execute_actions` runs after the lock was
released. `MaxInc` lets a key be registered again, which is how a stale task meets its successor.

**CallQueue, UasWorker.** CallQueue is the abstract promise: a FIFO with one server. In UasWorker the
workers map entry is a lock: the dispatcher sends while it reads it, a worker retires while it holds it
for writing.

**UasDialog.** The worker's job has a program counter with a step for each await of `handle_invite`
and `handle_reinvite`, so CANCEL, timers and 2xx loops interleave there, and so does the worker of the
bridged partner, which tears the dialog down at any of them (`PartnerTearsDown`); the later steps of the
handler it cut off still run, and `cut` remembers at which one it was. **UasBridge** has a worker
for each call, all callers of one room; a teardown continues into the partner leg on the worker of the
leg that ended. **CallControl** has program counters for `place_call`, `hangup` and the bridge tools;
the remote party (external) may answer late, hang up or never say anything.

**HaReplication.** A worker changes the table and owes a delta, handed over in a second step; the
primary loop reads the changing table entry by entry. **RaftCluster** models the log store, the state
machine and the replicator; openraft's steps are external.

**Turn, IceAgent.** Whatever was sent may be delivered at any time and again. A network is a function from
addresses to the addresses they are seen as; which ones there are is a constant. A relay task may end on
a receive error while its allocation stays (`RelayFails`).

**JitterBuffer, RtpBridge, Conference, MediaFabric.** One stream through the playout buffer; the
forwarders of a bridge with statistics, DTMF and RTCP; rooms with egress tasks (a frame is one
amplitude, as mixing is per sample); sockets as counted references.

**Sdp, Registrar, RateLimits, WebRtc.** A body is a sequence of abstract lines and negotiation a
function of it; digest workers, listeners and offers are split at their awaits.

**ConfigReload, AuthStores, Recordings.** The canary window, the migrations with crashes and racing
connections, the breaker of the HTTP store, and the two files of a recording. A subsystem may refuse a
value that was applied (`Refused`: the log filter keeps its prior level), and a store may keep
recordings for ever (`retaining`, chosen at the start; without a retention period no sweeper runs).

**StreamTransport, Sidecar.** The reader, writer and pool entry of every connection; callers,
supervisor, reader and child of a sidecar with the process mutex, under which the request is written.

**Plugins, Script, AiPipeline, WasmHost.** Concurrent loads over separate maps, where a watcher task is
aborted by the next save or with its watcher, and a `reload_plugin` call is dropped with its connection;
runtimes named by their compilation, each with one lane; breakers as two atomics; host functions, epochs
and the state budget.

The `MC` modules compose the components of one run. Components that share no state are explored one
at a time: a variable chosen at the start says which one a behaviour exercises, and the others
stay where they began, so no run multiplies state spaces that cannot influence each other. Every
module keeps a type invariant, which documents its state.

## 3. Runs

| Run | Instance | What it shows |
|---|---|---|
| `txn` | all four machines, reliable and not; 5 timer tasks, 2 incarnations, 3 inputs | a live machine keeps its ending timer (GuardianPending), each entry is released once and counted right (ReleasedOnce, GaugeExact), one final and the subscription as long as it is needed (ClientViewSound), no final after the end (FinalBeforeEnd), every transaction is released |
| `uas` | 4 items over 4 workers; one INVITE with ACK, BYE, CANCEL and the partner's teardown in any order; 2 outbound calls, 2 tool clients, drain, bus of 2 | no item stranded, the workers implement CallQueue, DialogsSound, CallsSound, and what was begun ends |
| `bridge` | 3 calls, 2 codecs, failing bridges, a conference room, 2 re-INVITEs, also of both legs of a pair at once; calls are symmetric; a dialog with re-INVITE and UPDATE | BridgesSound: ended once and endpoints owned always; bridges and sessions owned without a refresh, callers paired without an end, a refusal or a refresh, a refreshed leg on a live bridge without an end; RefreshesSound: the dialog properties under refreshes and the partner's teardown |
| `ha` | 2 dialogs, queue of 1, 2 versions, 2 connections | the settled secondary is faithful, and it catches up |
| `nat` | 1 TURN client with 2 users, lifetimes 1 and 2, 4 requests; 2 ICE agents, 7 networks (no NAT, one or two, one way blocked), a role conflict | no relay task without its allocation, frames for their peer, one relay per request; an agent that completes holds a nominated path that works |
| `media` | 7 frames across a wrap, reordered within 5; 2 callers, 1 room, 2 frames each; 6 packets, 2 presses and an unknown event, reordered within 2, a clock that wraps; 2 port pairs, budget 1 or 2 | frames in order, none twice; everyone hears the others only; no press told twice running, true round trips; ports, slots and gauges exact |
| `edge` | offers of every protocol with defaults and malformed lines; 2 digest workers, 2 nonces; 2 listeners, 2 tool tasks, tables of 1; 2 WebRTC sessions and a SIP call of one tag | the ends agree on the blocks an answer accepts, and it is newer than the last; a header honoured once; no source above its rate by more than the time a listener was held up; a leg has one partner and private answers show no address |
| `control` | 4 files, 2 edits, 1 put; 2 connections, 2 crashes; 2 lookers, threshold 2; 2 recorders, 1 crash, 1 I/O failure; 3 Raft nodes, 1 term, 2 writes, 1 restart | unconfirmed changes are undone and adapters follow what they do not refuse; rows and audio survive; the breaker closes; orphans go where there is a retention period; writes settle |
| `peers` | 1 peer, 2 connections, cap 1; 2 callers, shutdown, 1 restart | the pool names served connections; broken ones unwind unless their peer stops reading; SidecarSound; calls return unless a child stops reading for good |
| `plugins` | 2 plugins, 3 manifests, 2 saves, 1 reload call; 2 script callers, 2 editors; 2 AI callers, 3 providers; 2 WASM guests, budget 4 | one route per hook in order and no dead sidecar left in the index, but for a dropped call; a stop hits its own script; giving up comes last; guests are metered |
| `ha_snapshot_converges`, `raft_restart` | the smallest that show it | violated: section 6 |

Why the bounds meet the interesting cases: five timer slots hold every timer a machine arms at once and
two stale ones; two incarnations are one reuse of a key; four workers are three retirements; three calls
are a pair and the third that finds the room empty in between; two clients and the drain are the hangups
and bridge requests that can cross; a queue of one overflows on the second delta; tables and caps of one
are full with the first entry; two connections are a superseded one and its successor; one restart shows a
restart and an exhausted budget; three threshold changes are the enabling and two that a held-up listener
can straddle; the clock of the RTP bridge starts one tick before its wrap. SDP negotiation is explored
twice, once with every offer and a clock that stands still, once with one offer, racing callers and a
clock that is set back. The plugin loader is explored twice, once with an event under dispatch and once
with saves of one plugin that overtake each other and dropped calls. With two speakers nothing is clipped:
that a sum beyond the sample range is undone exactly is the theorem's, not the run's. The passing runs
fire every action. Deadlock is not checked because the systems may stop: the requests of a run are
bounded, and an engine that was shut down does nothing.

## 4. Fairness

Weak fairness, of tasks that tokio schedules once they can run and of timers, which elapse. Nothing
is assumed of peers, children, links or clients, except where a property says so in its premise.

- `TxnDriver`: timers elapse, tasks carry out their batches, the listener reads.
- `UasWorker`, `UasDialog`, `CallControl` (in MCUas): dispatch and workers go on; internal events are
  forwarded; 2xx loops, session timers and guards fire; `place_call` and `hangup` end by their
  deadlines; registry and drain go on.
- `HaReplication`: workers report, both loops run, a write into a dead connection fails in the end.
- `StreamTransport`: the tasks of a connection run, but a `write_all` that has begun need not end: the
  peer may stop reading, and ConnectionsUnwind has the premise that it does not for ever (`NotBlocked`).
  The UAS drains its channel, and a reader that is
  offered a place in the channel again and again gets one (the one use of strong fairness: tokio's
  bounded channel serves its waiters in order).
- `Sidecar`: callers and supervisor go on, the end of a dead child's output is noticed. `CallsReturn`
  has the premise that a running child does not stop reading for good: it may stall, as long as it dies in
  the end (section 6).
- `ConfigReload`, `AuthStores`, `Recordings`: adapters, lookups and the cool-down run, and the
  sweeper where the configuration starts one.

## 5. Proofs

TLAPS proves the following for **all** values of the constants. Assumptions are the named ASSUMEs
(sizes are naturals, the parties are distinct), which TLC evaluates in the runs. The
properties are the very definitions the runs check; each proof has one lemma per action.

- **TxnProofs** (`TypeCorrect`, `NoTransactionForgotten`, `TransactionReleasedOnce`,
  `GaugeIsExact`, `ClientViewIsSound`, `FinalComesBeforeEnd`), any number of timer tasks, incarnations
  and inputs. It begins with what a step of a machine can put into a batch, for all states and
  events. GuardianPending is not inductive: a pending cancel could hit the timer it speaks of. The
  strengthening adds that table, machines and TU notifications agree (`LifeInv`), that one thread at
  most owes `Terminated` and outstanding cancels name only timers the present state does not rest on
  (`BatchInv`), and that abort handles name tasks of the same entry (`TimerInv`). For the client's
  view, finals delivered and finals still in batches are counted together, and the listener's phase
  determines the subscription.
- **UasProofs**, the workers (`NothingStranded`, `SerialHandlers`, `FifoOrder`, `WorkersRefineQueue`), any
  number of items and workers: who holds the lock, that all workers but the latest have left, and that
  handled, current and queued items are consecutive. The refinement maps the queue to the channel of the
  latest worker while it may take from it.
- **UasProofs**, the dialogs (`DialogsAreSound`, `DialogsAreTyped`), any number of requests, transactions
  and 2xx loops. Most of `DialogInv` says which program counter of the worker owns what: an INVITE not yet
  answered has its job or its queue entry (`WaitInv`), an endpoint belongs to the job or to the dialog and
  `live` counts exactly those (`MediaInv`), timers, guards and loops belong to a dialog that is there or
  was cut off before they were set up (`TimerInv`, `ArmedInv`, `LoopInv`), a CDR row, the end event and
  the removal come together (`LifeInv`), and an AckTimeout in flight concerns a dialog without its ACK
  (`AckInv`). RefreshesSound, which the `bridge` run checks of the same module with re-INVITEs and
  UPDATEs, is an instance.
- **UasProofs**, outbound calls (`CallsAreSound`, `CallsAreTyped`), any number of calls, clients and bridges,
  any bus depth. A call is announced once and before its end (`BusInv`); as long as nothing was lost,
  what the registry does not show is on the bus (`FollowInv`), which gives RegistryTruthful when the bus
  is empty; a 200 to a BYE means the remote end is over (`ToolInv`); a lone bridge request finds on its
  legs only what it has still to release (`BridgeInv`); a listed call with a dialog is to be hung up,
  being hung up or could not be (`DrainInv`).
- **NodeProofs**, the twin (`SecondaryIsFaithful`, `ReplicationIsTyped`), any number of dialogs and
  connections, any queue and socket depth. What the secondary will know of a dialog is the *last word*
  about it on the way: a delta owed, queued or in the primary's hand, an entry of the snapshot being
  read, a frame on the wire, or the replica's own entry. `ReplicationInv` says that the last word is
  right unless a resync is due: equal to the table while nothing was dropped or overtaken, otherwise
  at least non-empty for a live dialog, because a removal is only ever reported of a dialog gone for
  good (`Honest`).
- **NodeProofs**, the host (`MediaIsAccounted`), any number of calls, sessions, ports and slots and any
  cap. `PortInv` says of every party what it holds: an allocator in its second bind one socket, an
  endpoint a pair, a pairing or a session that has not stopped at least one, anybody else none, and a
  port of another program is nobody else's. `CountInv` ties the gauges and the budget to the sets they
  stand for, so that each step that moves a counter moves exactly one session or lease; the budget
  needs that a thread between its load and its exchange holds no lease.
- **UasBridgeProofs** (`BridgesAreSound`, `BridgesAreTyped`), any number of calls and re-INVITEs. At
  rest little is visible of who owns what, so `BridgeInv` follows every worker through its pairing,
  rebuilding or teardown: a bridge or session that exists is in a map, in the hands of the worker that
  made it or of the one that is taking it out (`OwnInv`, `ShareInv`); the parked leg is one that nobody
  has picked up (`RoomInv`, `PairInv`); a dialog that is being ended is ended by one worker (`LifeInv`);
  and as long as no two refreshes crossed, two legs on a bridge name each other (`AliveInv`, `TwoInv`).
- **PeersProofs**: four components at the engine's edges.
  - `SidecarIsSound`, any number of callers, children and restarts: pending entries belong to the
    present child or are about to be failed, nobody acquires a child after shutdown, and restarts
    spent are tied to the supervisor's counter.
  - `PoolIsServed`, any number of connections: a pool entry is always the newest connection of its
    peer, and a caller about to push holds a connection that was made (`StreamInv`).
  - `ScriptsAreIsolated`, any number of callers, editors, compilations and sources: a call that is not
    over is the only one of its generation, and nobody asks to stop a generation whose caller still
    waits (`GenerationInv`); every runtime on its way to be the hot one was compared with the contract
    (`ContractInv`).
  - `SelectedPathsWork`, every network between two sockets of two addresses each, any number of checks
    and answers: an answer comes back along the way of
    its check, a nominating check is for a pair that works (`AnswersInv`, `ChecksInv`), and what an
    agent takes for valid or nominated comes from one of them (`AgentsInv`).
- **EdgeProofs**: what a caller meets first.
  - `DigestIsSound`: a nonce has one entry in the table, none before it is issued (`TableInv`), and as
    long as it is there it remembers every count it was accepted with (`GrantInv`).
  - `RendezvousIsSound`: no leg is in two places of parked, in the hands of an offer that bridges, and
    bridged (`OnceInv`), which rests on a leg being past its own rendezvous when another meets it
    (`OutInv`) and keeping its endpoint while bridged.
  - `RelaysAreSound`: transaction ids are used once and nobody knows a nonce that was not issued
    (`AskedInv`), a running relay task is in the table and the gauge counts it (`OwnedInv`), a channel
    that still stands for a peer leads back to it (`FramesInv`), and the nonce of a request that opened a
    relay is spent.
- **MediaProofs**: media streams, conferences and what the engine keeps. It begins with induction over
  a set of naturals, sums over a finite set and arithmetic with a symbolic modulus.
  - `StreamPlaysInOrder`, any depth and policy of the jitter buffer and any first sequence number, as long
    as the frames sent and the reordering span at most half the sequence space: for some frame b, index i
    of the buffer holds frame b + i and no other, the anchor has the number of the frame expected next,
    and everything heard came before it (`StreamInv`). b moves when the buffer anchors again.
  - `RoomsAreSound`, any number of calls, rooms, participants and levels: the sum of all inputs without
    one's own is the sum over the others (`SumWithout`, by induction on the size of the room), and a
    participant enters a registered room with its session or egress task and leaves before it
    (`RoomsInv`).
  - `ReloadsAreSafe`, `StoredDataIsKept`: every configuration a change can return to is valid and has
    the boot values where those cannot change, and no id in use is that of "no change" (`ConfigInv`);
    tables and version of the database agree at every point a crash can leave behind (`SqliteInv`); a
    recording's audio is in place before the entry that lists it (`RecordingInv`).
- **PluginsProofs**: what the engine asks of others.
  - `GivingUpIsLast`, any number of callers, capabilities and providers: the candidates found healthy,
    found open and not examined yet are apart and together all of them, and those asked followed by
    those to be asked are the attempts in their order (`AiInv`), which gives the claim when nothing is
    left to ask, whatever the breakers did meanwhile.
  - `PluginsAreSound`, any number of plugins, reload calls, saves, sidecars and events and whatever the
    manifests say. DeadIsReplaced, which speaks of the sidecar index while the watcher runs and excepts
    what a dropped call shut down, is not inductive: an aborted watcher task may kill on its way out what
    a racing reload still lists. `LoadInv` therefore says that a listed sidecar which is dead, *or which
    an aborted task may still kill*, has a task that is not aborted on its way to take it out
    (`ReplacedInv`); this holds because the save that aborts a task starts the next one for the same
    plugin (`WatchInv`), a task retires only what was listed under its own plugin (`RetiredInv`), and a
    sidecar not listed yet is its maker's alone (`MadeInv`). `HookInv` says that every list of routes
    is ordered with one route per plugin, through `register_owned`, `unregister_owner` and the
    configured hooks registered one after the other (by induction over their positions), and that what
    a dispatch invoked comes before what is left of the list it copied. `Retain` is a recursive function
    because the prover cannot expand `SelectSeq`.

Assumptions on constants the proofs need beyond sizes: the placeholders for "nobody" and "nothing" are
no members of the sets they stand beside (`NoLegAssumption`, `TurnAssumption` for addresses and channel
numbers, of which 0 is none, `AuthStores` for openers), the configuration the engine booted with is
valid (`BootAssumption`: start-up refuses another), and the fabric's dialogs are finitely many, are no
other processes of the host, and port 0, which asks for any port, is not in its range. The providers
of a capability are a list without a repetition (`AiAssumption`: the registry is keyed by name). A
manifest declares supported hooks only and a priority that is a natural number (`PluginsAssumption`: its
field is a `u16`).

Only model-checked: all liveness properties (out of the prover's reach); AnswersSound, which rests on what
recursive definitions compute over the lines of an offer; WritesSettle, which needs openraft's own safety
argument over logs; GuestsMetered, which adds up integer quotients; BridgeTellsTrue, whose round trips are
counted modulo the clock's range; and CallersMetered, which multiplies rates by times. Induction over
data, where a proof needs it, is over a set of naturals, by well-foundedness of < (`ByInduction`), since
no installed prover instantiates the library's induction theorems.

## 6. Known deviations

Two runs end in a violation, each of something the repository says of itself:

- **`ha_snapshot_converges`**: `replication_service.rs:323` takes a delta off the queue and may then
  find that a resync is due; the snapshot it writes first already contains newer state, and the delta
  written after it undoes it. Lines 9-12 say that a snapshot always converges the two sides.
- **`raft_restart`**: `log_store.rs:61` rebuilds the last log id as (term, node 0), so a restarted node
  compares logs by an id no leader wrote. `docs/architecture/raft.md:8-10` and `node.rs:149` promise
  that a restart continues with the persisted log.

The following were met while translating. The models contain them as the code has them, and the
properties are stated so that they speak of what the code does promise.

**UAS** (`uas.rs`)
- 1406 / 1091: a CANCEL answered 200 while `attach_media` awaits is never looked at again; the INVITE
  still gets its 200.
- 2577 / 2604: a leg that ends while its partner is being paired sends that partner no BYE.
- 1226, 2921 / 397: a refresh without a session timer removes the entry; the next arming starts again
  at generation 1, so a queued expiry of the first one ends the call.
- 2140 / 564: answers to a re-INVITE other than 487, and flags set after the last checkpoint, leave
  entries in `cancelled_invites`.
- 2412 / 1076: after a re-INVITE a delayed retransmission of the first INVITE opens a second dialog.
- 2899 / 2896: a 2xx loop can remove the handle of the loop that replaced it.
- 1220, 2886 / 2835: an AckTimeout of a re-INVITE on a confirmed dialog does nothing; a transport error
  ends the 2xx loop without an AckTimeout.
- 1821 / 1819, 1761: failed bridging parks again a leg that was already torn down, over whoever parked
  meanwhile. PairedUp claims nothing after a refused pairing.
- 2617-2623 / 1998-2043, 2436: a partner can tear a dialog down before its CDR, 2xx loop and timers are
  filed, or while it is refreshed; the handler goes on and nothing undoes what it files then.
  NothingOutlivesDialog and the CDR part of EndedOnce except exactly that.
- 2386, 2359, 2354 / 469, 2586, 2285: a re-INVITE can leave a bridge no live dialog points at, and drops
  session handles without stopping them. BridgesOwned and SessionsOwned therefore speak of calls
  without a re-INVITE.
- 2383-2390 / 2348-2350: when both legs of a pair are refreshed at once, each worker releases the old
  bridge and makes one of its own, and the last writers of the map decide: the two legs can end up on
  two bridges. BridgedAlive excepts exactly the behaviours in which two rebuilds crossed (`crossed`).

**Transactions, UAC, tools**
- `txn/driver.rs:519-523`: a replayed provisional can follow the final on the wire. 557 / 139-140 and
  562 / 130-132: a stale timer task may fire into the next incarnation of its key, or drop the abort
  handle of another.
- `uac.rs:230`: the deadline sends no CANCEL and a later 200 is not acknowledged; 244: a 200 without a
  To tag is neither acknowledged nor released; 368: a BYE answered 481 keeps dialog and endpoint.
- `tools/call.rs:253` / 207-210: overlapping `bridge_calls` leave a bridge no call names.
  `control.rs:124-125`: nothing calls `purge_terminated_older_than`. `shutdown.rs:7-9`: calls being
  placed, or not yet in the registry, are missed, and `make_call` is not refused while draining.
- `supervisor.rs:422` / 173-175, 380-381: the write to the child is outside the timeout and under the
  mutex: a child that stops reading for good blocks every caller, the supervisor and shutdown.

**NAT**
- ICE: a 487 flips the role unconditionally and both agents can complete with the same role; a
  completed controlled agent stops reading, so a lost reply to the nominating check is never repeated;
  server-reflexive local pairs fail the symmetric check; learned local candidates have no socket, so
  later pairs with them wait for ever; a timed-out nomination leaves a valid pair un-nominated until
  the deadline, or is followed by the nomination of another pair (`agent.rs:536-547`, 731-738), and when
  the first one was received after all the agents complete on different paths (TLC finds it with four
  checks per agent; agreement is therefore not claimed); an agent fails at its first tick when
  candidates are only trickled.
- TURN: the relay task returns on a receive error while its allocation, and the gauge, stay
  (`turn.rs:645-648`); a channel outlives its permission; a stale relay task looks up the client's new
  allocation; after a lost Allocate reply the client gets 437 until expiry.
- WebRTC: a socket closed without `bye` cleans nothing; endpoints of bridged or untagged legs are not
  released; two legs of one tag that both find none both park; a re-offer pairs with its own parked
  leg; `handle_bye`'s find-then-remove may remove another session's leg; `release_sip_leg` has no
  caller; the evictor releases the endpoint of a live SIP call after 30 s; a failed DTLS handshake
  leaves the keepalive running.

**Media and SDP**
- SDP: answers to video-first offers or extra m-lines are not aligned, and RTP/SAVPF with SDES is
  answered unprotected, although `negotiate.rs` 276-278 and 477-492 speak of both; BothEndsAgree claims
  the order for audio and audio-video offers and keys for RTP/SAVP and DTLS. Video RTP/SAVP is answered
  without crypto; `video_media` is reported from the offer even when
  declined; a malformed session-level fingerprint or setup erases a good one.
- RTP: `max_seq` jumps a cycle on a packet reordered across the 16-bit wrap; `srtp_pair` is None unless
  both legs have keys; an End of key press k that arrives after press k+1's End is emitted again
  (`dtmf.rs` 260-298), although 215-216 and 250-251 say exactly one; KeypressesTold allows it;
  after a stall the jitter buffer re-anchors on any packet, an old duplicate included.
- Conference: after `shutdown` the room map still names the conference; the participants gauge is
  decremented twice; a join on a handle held across the shutdown lands in a stopped conference; a tick
  on an empty roster keeps the dominant speaker.

**Control plane, storage, plugins**
- Configuration: `ConfigReloader::confirm` has no caller, so every SIGHUP reload is rolled back at its
  deadline; `put_config` arms no timer, so its change stays pending and blocks reloads, and it builds
  the candidate from a stale snapshot; a rollback does not restore the persisted file. `log_level` is
  not validated: a filter that does not parse is kept out (`logging.rs:38-43`) while `reloader.rs:524-525`
  records it as applied, which AdaptersFollow excepts.
- Authentication: a nonce used with qop can be used once more without; racing issuers exceed the nonce
  cap; a retransmitted REGISTER is answered 401 stale; during an outage of the HTTP backend a right
  response gets a 401 that is not stale (`http_store.rs` 116-118, 414-423), so nothing is claimed about
  which answer a right response gets; the HTTP breaker lets every lookup through after
  the cool-down, not "a single probe".
- Rate limits: `now` is read before the bucket, so `last` can move backwards; racing listeners
  overshoot the table cap; a larger burst after an eviction gives a fresh bucket. SourcesMetered therefore
  allows the refill of the time listeners were held up, and speaks of listeners that act on the
  thresholds in force: a listener preempted across a change of the thresholds still applies the old ones.
- Recordings: with `retention_days = 0`, the default, nothing sweeps (`retention.rs:30-32`) and an
  unlisted blob stays. A delete or sweep racing a put, or a crash inside a delete, leaves a listed id without
  audio.
- Stream transports: a superseded writer never sees its channel close, since the pool slot holds a sender;
  `send` removes the pool entry before dialing, so a live connection may be in no pool; TLS checks the cap
  before the handshake; `write_all` is outside the cancellation and has no timeout (`stream.rs:175`), so a
  peer that stops reading keeps its writer, against the module doc 6-10; a `send` that returned Ok can be
  lost at cancellation.
- Plugins: a `reload_plugin` call dropped by its client while it awaits the shutdown (`mcp_http.rs`
  410-413, `registry.rs:525`) leaves the dead sidecar listed until the next reload, and what `providers`
  names is not claimed; dropping a sidecar handle does not stop the child; concurrent reloads can leave
  `providers` and `sidecars` naming different instances; a failed reload unloads for good; a failed WASM
  load leaves the new permission set to the old provider; `put_script` calls share one temporary file
  name.
- AI: open providers are tried after the healthy ones failed (the doc, `ai.rs` 540-541 and 610-612, says
  they are skipped unless all are open; GivesUpLast leaves open whether they are); a late
  trip overrides a success's close; `speak` uses the endpoint it read before the TTS await.
- Raft: SIP changes the live table before the commit; a follower's local writes are refused and
  dropped; nothing enforces "only after the state machine is caught up does the node accept SIP
  traffic".

## 7. Not modelled

- *Text and bytes*: parsing and rendering of SIP, SDP, RTP/RTCP, STUN, plugin and MCP messages, except
  what a property tells apart (Sdp's answer, the RTP header extension of sequence numbers).
- *Signal processing*: codecs, AGC, VAD, resampling, T.38 and the fax engine.
- *Cryptography*: SRTP, DTLS, digest and TLS are "right key" or "wrong key".
- *Libraries*: openraft's steps, SQLite, tokio and dashmap are modelled from their use and marked
  external. Dashmap locks are per key; its shards are coarser.
- *Components left out*: the HA snapshot file, sidecar framing and sandbox, plugin wire format, MCP and A2A
  protocol layer, start-up, softphone and test kit.
- *Inside modelled parts*: REGISTER, OPTIONS and INFO within UasDialog, shutdown of inbound dialogs,
  bus subscribers other than the registry, Raft snapshots, purging, leases and membership changes,
  trickled candidates in WebRtc (IceAgent has them), `record_prompt`, the prompt library and list tools,
  the memory limiter of WASM guests.
- *By their outcome only*: the probe trips or not (the arithmetic of `classify`), a transcoded or fax
  session runs and holds its sockets (its packets), a manifest is valid or not, an offer is accepted or
  refused with a status (in UasDialog; its content is Sdp's), a child's frame parses or not.

## 8. Plan

Every listed component that carries concurrent control is modelled. Of the safety invariants the runs
check, those named at the end of section 5 remain to be proved; the round-trip half of BridgeTellsTrue
comes next, since the lemmas of MediaProofs on induction and on arithmetic with a modulus serve it.
