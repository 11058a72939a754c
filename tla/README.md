# A TLA+ model of irohsion

irohsion carries a live UDP stream (OBS, SRT, MPEG-TS) over several network
interfaces at once. A client reads UDP packets, numbers them, and sends each one
whole or in fragments over one iroh (QUIC) connection per interface, as
unreliable datagrams. A server accepts the connections, puts the stream together
again and forwards it, in order and once, to a local UDP target. Responses of
the target travel back over the same connections.

Paths below are relative to `src/crates`. "next" is `next_seq`.

## 1. Inventory

| Component | State | Operations | Interacts with |
| --- | --- | --- | --- |
| **Reorder window** `server/main.rs` `reorder_loop` 467-1079 | locals of one task: `initialized`, `next_seq`, `buffered`, `fragments`, `seen`, `skipped_sequences`, `gap_repair_requests` | one turn per frame or per expiry of its receive timer: accept, assemble, drain, recover, request repairs, expire | fed by every connection task over a channel; forwards to the UDP target; asks for repairs |
| **Restart detection, reply routes** 1211-1233, 1401-1409 | `RestartDetector`, `flow_connections`, `ReplyRoutes` | decide whether a packet far behind next is a straggler or a new session | inside the turn; routes are read by `response_loop` and `RepairControl` |
| **FecState** 161-167, 1088-1209 | parity frames, payload cache, their order queues | insert, recover by XOR, enforce limits | inside the turn |
| **Client sender** `client/main.rs` 766-801, 1058-1423 | `seq`, strategy, MTU, weights | number, chunk, split or duplicate, send | paths, strategy, repair cache, FEC encoder |
| **FecEncoder** 287-405 | the open group | record, flush, clear | sender |
| **RepairCache, repair control** 127-285, 806-863 | recent packets, recent requests, order queues | insert, answer, expire, limit | requests arrive on uni streams of any path; answers go out on all |
| **PathConnection** `transport/lib.rs` 57-193, tasks in `client/main.rs` 865-1055 | `live`, `reconnect_requested` | send, mark failed, interface changed, reconnect | sender, reconnect loop, liveness task, interface watcher, return tasks |
| **Path strategy** `client/path_strategy.rs` | mode, strategy, failures, health | degrade, recover, group interfaces | every sending task, health reports, `tc` backlog loop |
| **Accept loop, registry, response loop** `server/main.rs` 336-441, 1315-1399 | `ConnectionRegistry` | register, remove, choose a connection for a response | connection tasks, reorder loop |
| **Health** `server/health.rs`, `client/health.rs` | health connections, targets, samples | report every interval, keep one connection per client endpoint | registry, path strategy |
| **Wire protocol** `protocol/lib.rs` | none | encode and decode media, repair and parity frames | both ends |
| **BLE remote, preview, OBS** `client-remote`, `client/preview.rs`, `obs-remote` | shared read offset and snapshot; decoder; OBS client and cached status | chunked reads, enable and disable, connect and refresh | phone, ffmpeg, OBS |
| **Chat, TUI, context, CLI, identity, bench, web remote** | display and statistics | I/O | none of the stream's decisions depend on them |

What makes each of the core components correct:

- *Reorder window*: the target gets ascending sequences, none twice; a sequence
  is given up only when the gap tolerance has run out, and then it is given up; the
  maps keyed by sequence never disagree; what is requested is what is missing; a
  silent stream is flushed.
- *Restart detection*: a session is replaced only on evidence; routes always reach
  the clients of the flow.
- *Sender with window*: every packet arrives intact and in order unless the network lost
  every copy of a part of it.
- *Sender*: whatever it sends of a payload is all of it, each byte in one piece;
  paths that cannot be relied on get it whole; auto mode settles on what health allows.
- *FEC*: what parity reconstructs is what was sent; a single loss in a group never waits
  for anything else; caches stay within their limits; a parity frame fits the MTU.
- *Repair cache*: its queues and maps agree; answers are fresh and spaced; what is
  lost is repaired before its gap expires if the delays allow it, one gap after the other.
- *PathConnection*: a path without a live connection always has a reconnect
  requested; a reconnect replaces nothing; once the network is quiet the path is
  connected, read, and no longer marked as failed.
- *Registry, responses*: an open connection stays usable for responses until it
  closes or refuses one; a response is dropped only if nothing could carry it.
- *Health*: a client that stays connected ends up with a live health connection.

The hard behaviour is concurrency between paths (every interleaving of copies,
fragments and stragglers at the single reorder task), loss and delay, timers that race
with late packets, session restarts, and shared state under several short locks.
`PROJECT.json` lists the hazards one by one, each at the line where it bites.

## 2. Modules

| Module | Models | Lines of code |
| --- | --- | --- |
| `Window.tla` | the window as a value (a record) and each stage of a turn as an operator on it | `server/main.rs` 96-151, 720-1079, 1235-1246 |
| `ReorderWindow.tla` | the turns of `reorder_loop`: one action per way a turn can go | `server/main.rs` 467-715, 1211-1233, 1401-1409 |
| `RecentPackets.tla` | what the repair cache promises: a bounded log of the latest packets | `client/main.rs` 168-259 |
| `RepairCache.tla` | the cache: two maps, two queues, one mutex | `client/main.rs` 127-285, 1360-1384, 1494-1502 |
| `Wire.tla` | what is on the wire: media packets, parity frames, repair requests | `protocol/lib.rs` 7-358 |
| `Stream.tla` | sender, repair cache and lossy, reordering paths in front of `ReorderWindow`, with the requests on the way back | `client/main.rs` 806-863, 1242-1423, 1530-1536, `server/main.rs` 395-413, 1258-1313 |
| `FecState.tla` | `FecState` as a value, and the stages of the loop that touch it | `server/main.rs` 160-166, 780-888, 1073-1208 |
| `Fec.tla` | the encoder, a network of media packets and parity frames, the server's turns with `FecState` | `client/main.rs` 287-405, 1387-1439, 1617-1623 |
| `SplitPlan.tla` | pure functions: cutting by weights and by MTU, groups of paths by health, weights | `client/main.rs` 1504-1615, `client/path_strategy.rs` 369-504, 781-813 |
| `SendPolicy.tla` | `send_payload` and `strategy_loop`, against everything that changes beside them | `client/main.rs` 1058-1492, `client/path_strategy.rs` 151-367, 506-753 |
| `Registry.tla` | the server's connection tasks, `response_loop`, `health_loop`, health connections | `server/main.rs` 322-441, 1315-1409, `server/health.rs` 39-125 |
| `PathConnection.tla` | one path: the shared connection, the tasks that use, watch and replace it, and its part of the strategy | `transport/lib.rs` 75-192, `client/main.rs` 703-762, 865-1056, 1425-1492, `client/path_strategy.rs` 151-163, 225-279, 485-517, 648-753 |
| `MC*.tla` | packet sets, payloads, reports, connections and tasks for TLC | |
| `WindowProofs.tla` | lemmas about the stages of a turn | |
| `StreamProofs.tla` | theorems about `ReorderWindow`, and about `Stream`, which extends it | |
| `FecProofs.tla`, `RepairCacheProofs.tla`, `SendPolicyProofs.tla`, `RegistryProofs.tla`, `PathConnectionProofs.tla` | theorems about the module each is named after | |
| `Induction.tla` | least elements, induction up to a number, quotients and digits, and folding a sequence step by step, for the other proofs | |

How they fit together: `ReorderWindow` runs over `Window`; `Stream` extends `ReorderWindow`
and has `RepairCache` and `Wire` as instances; `RepairCache` implements `RecentPackets`;
`FecState` extends `Window`, `Fec` extends `FecState` and has `Wire` as an instance;
`SendPolicy` extends `SplitPlan`. `PathConnection` and `Registry` stand alone.

### How the model corresponds to the code

*One action is one turn of the loop.* The loop is a single task and its state is
local, so nothing interleaves inside a turn except `RepairControl::send` and the
UDP send, which change no state of the window. A packet takes one of four ways: it
opens a flow (`StartFlow`), belongs to it (`ContinueFlow`), is behind next and dropped
(`DropBehind`), or is behind next and confirms a restart (`ConfirmRestart`). Parity
is `ReceiveFec`; the timer takes `TimeoutAdvance`, `TimeoutIdle` or `TimeoutNoFlow`.
Each action runs the whole chain `accept_complete_payload`, `recover_fec_ready`,
`advance_reorder_window` as the code does, through the operators of `Window`.

*Loops in closed form.* `drain_ready` and `expire_reorder_gap` pop one sequence
after another; `Drain` and `Expire` say where they stop (`RunEnd`, `ExpireEnd`) and
what happens to everything before. This is exact because nothing pending is behind
next, part of `WindowConsistent`, which is proved.

*Time.* An `Instant` is the age since it was taken, saturating where a
comparison can no longer tell ages apart. `Tick` lets every age grow. It is
disabled while the timer is due, so the timer is punctual; handling a frame takes no
time. `waited` is the time since the loop last started to wait: every frame
starts it again, as in the code.

*Parity.* `FecPayload` maps the sequences that parity frames may reconstruct to their
payloads. In `ReorderWindow`, `RecoverFecReady` may reconstruct any set of those that the
loop would accept. `FecState` says which, and it is proved of `Fec`, as `RecoversWithinWindow`,
that whatever it reconstructs is one of the steps that `ReorderWindow` allows. So what is
shown of the window with an arbitrary choice holds with the code's.

*Payloads* are the set of source packets their bytes come from, so an
assembly that mixes two packets shows. One that lacks a fragment would not; `HandedInOrder` looks for that in
`arrived`, the fragments that the network delivered.

*History.* `start`, `delivered`, `skips` and `wrapped` of the window record the
current flow until next wraps; `evidence` counts packets of other connections far
behind next. In `Stream`, `arrived` and `starts` record what the network delivered and
what opened flows. No guard reads them.

*A path.* In `PathConnection` many tasks share state, so an action is what one task does
between two accesses to it: `live` under its lock, the atomic `reconnect_requested`, the
record of failures, and the two atomics of mode and strategy. `send_on_path` becomes `Pick`
(the filter of connected paths), `ReadId`, `SendOk` or `SendError`, and then the report:
success, or failure, `mark_failed` and degradation. `mark_failed` and
`degrade_to_redundant` are one step (`MarkAndDegrade`) because no task looks at both
the connection and the strategy. The watcher's request to reconnect is a step of its own
(`WatcherRequests`), since it comes after the lock is released, and so is its record of a
dead interface. The strategy loop decides (`ChooserDecides`) and stores (`ChooserSplits`)
in two steps. `SendOk` and `SendError` clone the connection and send on it in one step: if it
is dropped in between, the send does what it would have done before the drop, or what it does
without a connection. Ids of connections are only compared with that of the live one, so a connection
is numbered by how many were made since: 1 is the latest, and `Connect` makes all others, and what
tasks remember of them, older by one. A dropped endpoint is closed by a task that takes its time. Nobody can tell
when, but for the return task, which may still read from the connection and fails in a
later step, so a connection counts as broken once it is dropped. The status the remote control
displays is left out: no task reads it to decide.

*Repair.* Every operation of `RepairCache` holds its mutex, so each is one step; expiry,
insertion and the limit are operators on a pair `[held, order]`, which stands for
`packets` and `order` and for `recent_requests` and `request_order`. A packet that is
split and rescued is stored twice, in two steps (`CachePacket`, `CacheRescue`); `Stream` has them as
one (`Emit`), so that no request comes between them there. In `Stream` the turn of the loop sends its requests to every connection of every routed client
(`Asked`), and the task of the path answers (`RepairTask`) with every fragment on every path.
The answer is of the cut that was stored last, which may not be the cut the server holds
fragments of.

*The wire.* A datagram in `Stream` and `Fec` is what `Wire` encodes: a header as numbers
packed together, a mask as a number, the lengths and the parity of a frame.
The decoders reject what the code's do, with `Invalid` for an error, except that bytes are left out: a
datagram is too short only if a field is missing. The encoders of the code assert what the
decoders check, and panic otherwise; these asserts are left out. The proofs show of headers and
of parity frames that what is encoded decodes. A range of sequences as small as the instance's takes the place of 26 bits.

*FEC.* A payload is a set of packets and the exclusive or of two is their symmetric
difference, so that anything but the right combination is not a single packet. `Record` is
`FecEncoder::record` with its early returns: a payload that does not fit, a sequence that
is not the next one, a group that is full. `RecoverAll` repeats `OnePass` as often as there are frames,
which is as often as the code's loop can have something to do, since a pass that accepts a
packet uses up a frame. `Receive`, `ReceiveFec` and the two timeouts are the turns of `ReorderWindow`
with FEC spelled out, and without restarts and routes, which read nothing of it.

*The sender.* `send_payload` reads shared state three times: the connected paths and the mode
(`Ingest`), the strategy and the groups (`ReadStrategy`), the weights and the paths as they are
when it sends (`SendDatagrams`). `OtherTask` may change any of it in between: reports, their
age, connections, failures, the mode, the backlog. Which path `send_on_path` fails on is a
choice; a failure drops the connection, is recorded and degrades, in the order of the code, but
as one step with the send (`PathConnection` has these steps one by one). Weights are floating
point in the code; the model computes the same formula in thousandths, and the cut
rounds as the code does. Each byte of the instance's small payloads is told apart.

*The registry.* A step is what a task does under one lock, or one send. A connection's task
goes through `InsertHealth`, `InsertTarget`, reading, `Unregister` and `RemoveHealth`, where the
last removes an entry that it compared under another lock before. `response_loop` copies a
remote's connections out of the registry (`NextRemote`), tries them in any order, and
removes what failed (`DropFailed`). `health_loop` works on a copy of the map. One task for each
endpoint opens a health connection when there is none. Responses find the routes that
any history of frames may have set. A connection's task also ends, without unregistering, if
`reorder_loop` is gone when it sends a frame on (`server/main.rs:410-417`): in the model that loop never ends.

## 3. Runs

| Run | Question | Result |
| --- | --- | --- |
| `window` | Does the window keep its maps consistent, account for every sequence, and expire gaps exactly when due? One connection, 4 sequences with the wrap, two cuts of the same packet, parity, repair with a limit of 2 requests | passes, 51 000 states |
| `restart` | Is a flow replaced only on evidence, do routes follow it, is a silent stream ended? Three connections of two clients, 6 sequences, gap 3, 3 confirming packets | passes, 51 000 states |
| `stream` | Does the target get the client's packets intact, in order, and all that can be had? Two paths, 3 packets whole, in two fragments, or with a rescue copy, one frame lost, delay one tick | passes, 261 000 states |
| `repair` | Is what is lost and still cached repaired in time, though one of two gaps is asked for after the other? Two paths, 3 packets whole or with a rescue copy, two frames lost, answers that take a tick, a delay of three, the last two packets cached | passes, 571 000 states |
| `cache` | Do the cache's maps and queues agree, and do they implement the log? 3 sequences with the wrap, 2 packets held, 2 requests remembered | passes, 25 000 states |
| `registry` | Does an open connection stay registered, is no response dropped that could be sent, does health settle? Three connections of two clients, two responses, two closings or a refusal | passes, 244 000 states |
| `fec` | Is what parity reconstructs right, complete and within the window? 4 packets across the wrap, groups of two and three, frames on two paths, one frame and three payloads cached | passes, 97 000 states |
| `policy` | Does what is sent tile the payload, reach unhealthy paths whole, and does auto mode settle? Three paths, two payloads of five kinds, two changes by other tasks | passes, 327 000 states |
| `path` | Does a path survive every race of its tasks, and recover? The main loop, a repair task, the return task, the other loops, one fault, move or change of mode, two addresses, two modes | passes, 377 000 states |
| `delay` | Is the gap tolerance of the documentation kept? | violated |
| `wrap` | Does no packet reach the target twice? | violated |
| `starve` | Does a recovered path get its share in split mode? | violated |

### Properties

Each property is explained where it is defined, and for each `PROJECT.json` names a plausible
bug that breaks it.

| Module | Invariants | Action and temporal properties |
| --- | --- | --- |
| `ReorderWindow` | `TypeOK`, `WindowConsistent`, `Accounting`, `SkipListIsRecent`, `RequestsOnlyMissing`, `RoutesCoverFlow` | `ForwardsInOrder`, `NoEarlySkip`, `OverdueGapExpires`, `RestartIsConfirmed`; liveness `QuietStreamEnds` |
| `Stream` | `HandedInOrder`, `SkipsOnlyLost`, `EveryPacketHanded`, `RepairsInTime` | |
| `RepairCache` | `TypeOK`, `QueuesAgree`, `QueuesInOrder` | `AnswersFresh`, `AnswersSpaced`; refinement `KeepsRecentPackets` |
| `Fec` | `CachesAgree`, `PayloadsIntact`, `NothingLeftToRecover`, `ParityFits` | `RecoversWithinWindow` |
| `SendPolicy` | `EveryByteOnce`, `NothingDropped`, `RescueCovers` | liveness `AutoSettles` |
| `Registry` | `TypeOK`, `RegisteredWhileOpen`, `NoResponseDropped` | liveness `HealthSettles` |
| `PathConnection` | `TypeOK`, `NeverStranded`, `AttemptsReplaceNothing` | liveness `PathRecovers`, `FailureIsForgotten` |

`KeepsRecentPackets` is a refinement: it is the specification of `RecentPackets`
with the log read off the cache's queue and map: nothing is answered but what the log
holds, and it holds the latest packets. `RecoversWithinWindow` relates two models of the same turns: it says that each turn with
FEC is a turn of `Window` as `ReorderWindow` has it.

Some properties have exceptions, and each exception is something the code does:

- `NothingDropped`: a payload that needs more fragments than a header counts; an empty
  payload that is split; a payload that must be cut while auto mode has no healthy path, or while
  every path lost its connection. In the third case paths may be connected and nothing is
  sent on them (`client/main.rs:1303`).
- `ParityFits`: in adaptive mode a group may be closed under a larger size than its first
  packets were admitted for, and its frame may then exceed the MTU.
- `RegisteredWhileOpen`: a connection that refused a response, because it was too large for a
  datagram, is removed and not registered again as long as it lives.
- `RepairsInTime`: a request that comes after the cache has dropped the packet, and a
  network that also loses every copy of the answer. It is about the first packet that a flow gives up, and
  asks that a gap expires no sooner than all gaps there may be have been repaired one after another:
  of the packets that are absent `request_due_repairs` (`server/main.rs:910`) asks for the head of the window only,
  and for the incomplete ones within what the head leaves of `MAX_REPAIR_REQUESTS_PER_TICK`. Whether the head is
  lost or just late, what is missing behind it may be asked for only when it is there, while the packets
  behind both grow older. Under the weaker premise that one request and its answer are faster than a gap expires,
  TLC finds a packet behind a gap given up while its answer is on the way, in the instance of `repair` with
  a delay of two ticks. Once a packet was given up, those behind it may be so without having been asked for.
- `PathRecovers`, `FailureIsForgotten`: both assume `MarksInTime`. A sender that finds no connection
  (`client/main.rs:1467`) later marks the path as failed without an id, and `mark_failed`
  (`transport/lib.rs:142`) then drops whatever connection there is. `MarksInTime` says that from some point on no connection
  is made while such a mark is owed. Without it both properties are violated after a single fault, with every
  task running: the main loop owes the mark, the reconnect loop connects, the repair task picks the path, the
  mark drops the new connection, the repair task finds none and fails, and the next time the two
  change roles, for ever. In the code the mark follows the failed send without an await, and a connection takes a
  handshake: the mark has to be late each time, by a handshake, for the cycle to go on. Nothing in the code rules it out.

`OverdueGapExpires` has the disjunct "or the turn forwarded something" because
a turn expires one gap and drains the run behind it, but not the next gap. The run
`delay` shows where this leads.

### What the violations show

`delay`. README.md:22 says that the server skips a missing sequence when it blocks
newer packets longer than `--max-reorder-delay-ms`. `reorder_loop` looks at gaps only
in a turn, waits a full period after each frame, and expires one gap per turn. When
every second packet is lost, packets behind the second gap wait for a further turn,
and the wait passes the tolerance plus one full period of the timer, the slack the
property grants. A duplicate arriving in that time postpones the timer again without
advancing the window.

`wrap`. The comment at `server/main.rs:270` says that packets are deduplicated before
they reach the target. When next has wrapped from `MAX_MEDIA_SEQUENCE` to 0, the second
copy of the last packet compares as ahead of next. It is buffered as a packet of the
future and forwarded when its gap expires. Nothing is lost in this run; the copy on the
other path is merely slower. The run has a range of three sequences where the code has
2^26 - 1, but the counterexample uses only the last sequence and the first ones of the
next lap. Both paths have carried the flow, so restart detection plays no part.

`starve`. README.md:45 says that split mode fragments packets across interfaces whenever more
than one path is active. A recorded failure sets an interface's weight to zero until a
successful send or a reconnect removes the record; it does not expire. The run's
counterexample: the interface loses its address and the watcher drops the connection;
the interface has its address again, the reconnect loop connects and clears the failure;
then the watcher records the interface as dead, a step that it owed. In split mode without
parity frames nothing is sent there any more, and nothing else clears the record. The
return task of the old connection can cause the same. Auto mode recovers, since
the failure makes the loop degrade, and redundant sends clear it: this is
`FailureIsForgotten` in `path`. The property assumes `MarksInTime` too, so the cycle of late marks
plays no part here.

### Bounds, and why they are enough

- *Sequences* (`MaxMediaSequence`): the window's code only compares sequences with
  next and with each other. Four give a head, a gap, a run behind it and a wrap.
- *Fragments*: two or three; three with a different count exercises the
  mismatch. Completion depends only on the set of indices held.
- *Ages*: `MaxReorderDelay` = 2 with `RepairInterval` = 1 leaves one request
  before expiry and one after, as the command line enforces (interval below delay).
  In `repair` the delay is 3, so that two repairs fit one after the other.
  `AgeBound` equals the delay where nothing compares larger ages, and exceeds it
  in `delay`.
- *Limits*: `SkippedTrackLimit` = 1 and `MaxRepairRequestsPerTick` = 2 are reached and exceeded.
- *Restart*: the gap is 3 and sequences reach twice the gap, so packets just short of,
  at and past the gap exist; `RestartConfirmPackets` = 3 is the least count where
  the middle packet can fall back and restart the count.
- *Stream*: three packets give one lost, one behind it and one after
  recovery; `Latency` < `MaxReorderDelay` is a premise of two of the properties. The
  range of sequences is larger than the number of packets, so no wrap occurs: that is the subject of `wrap`.
- *Repair*: one frame lost and a second one, which may be the repeated or the rescue copy; a request is
  delivered within the tick and its answer within the next, the slowest that is still in time.
  The second packet may be missing and the third incomplete at the same time, and `MaxRepairRequestsPerTick` = 1
  lets only one of them be asked for in a turn. Two requests and answers take two ticks of the three that a gap
  is given; two ticks would be too few.
  `MaxPackets` = 2 has the cache evict the first packet when the third is sent.
- *Cache*: three sequences and two packets held give eviction by count, expiry by age, a
  sequence that comes round while its old packet may still be held, and packets cut anew.
  Two requests remembered are fewer than may be asked, so the limit of requests is reached.
- *Registry*: connections 2 and 3 are of one client, as after a reconnect, and 1 of another. The
  budgets are three scenarios: a closing during a response, a refusal with a second response
  after it, and two closings with none. One health connection of the server's is enough,
  since it serves whichever client has none.
- *FEC*: sequences 4, 5, 0, 1 of a range of six: a group wraps. Limits of one frame and three
  payloads are exceeded. The lengths 3, 1, 2, 1 under an MTU of 18 give packets that fit a group of two and not
  one of three. Media packets arrive once or never, parity frames up to twice.
- *Policy*: with an MTU of 4, a threshold of 2, chunks of 2 and at most 3 fragments the
  payloads are empty, split by weights, cut by the MTU, too long, and chunked. The reports make all paths
  well, one lag, and one unknown. Two events suffice for a change before and one
  between the sender's reads; a failed send of a connected path counts as one.
- *Path*: the main loop and the path's one repair task (`client/main.rs:592`, 843-851) are the senders;
  the code has one more for each further path, since repair tasks send on every path. Two senders
  can take turns, as in the cycle above. `MaxConns` = 2 tells the latest connection from older ones, which
  is all that tasks ask of an id. With `MaxConns` = 3 the run passes too, with 842 000 states;
  `NeverStranded` and `AttemptsReplaceNothing` are proved for any number of connections
  and senders. `MaxFaults` bounds the faults that happen by themselves, the moves of the interface and the changes
  of mode: 1 in `path`, 2 in `starve`, which needs a change of mode and a lost address. Races of
  the tasks then fail and replace connections further. Two addresses and none give the
  watcher all it can find. Modes other than auto and redundant are left to `starve`.

The two paths of `Stream` are symmetric in the runs `stream`, `repair` and `wrap`, which check invariants only.

### Fairness

`FairSpec` adds weak fairness of `Tick` (time passes) and of `Timeout` (tokio's
timer fires and the task runs). Both are what the runtime gives a task that awaits
`timeout(..)`. Nothing is assumed of the network: `QuietStreamEnds` speaks only
of behaviours in which frames stop. Repair and parity are off in that run.

`FairSpec` of `PathConnection` assumes that tasks run, that the polling loops' timers fire, that
the stream goes on (`Pick` of the main loop, but only while the strategy gives the interface a share, by
`CarriesTraffic`), and that attempts to connect
succeed if they are made again and again (strong fairness of `Connect`). Whether a repair task has
something to send is up to the server and not assumed, only that it finishes what it began.
Nothing is assumed of the operator or of the network: the properties speak of
behaviours in which the interface has an address from some point on (`Quiet`) and marks are not late for
ever (`MarksInTime`), and faults, moves and changes of mode are bounded. Redundant to split is a choice of the strategy
loop without fairness; only its degradation on a recorded failure is fair.

`FairSpec` of `Registry` assumes that each task that can go on does: the connections' tasks,
`response_loop`, `health_loop`, the tasks that open health connections, and the release of
connections that nothing refers to. Connections come and close, and datagrams are refused or
not, without any assumption. `Spec` of `SendPolicy` assumes only that `strategy_loop`, a
task of its own on an interval timer, goes on.

Deadlock is checked except in `fec` and `policy`: a client that has sent its packets, or has
used up its events, may stop.

## 4. Proofs

Each theorem holds for every value of the constants that satisfies the assumptions named below.

| Module | Theorem | Statement |
| --- | --- | --- |
| `ReorderWindow` | `TypeCorrect` | `Spec => []TypeOK` |
| | `WindowStaysConsistent` | `Spec => []WindowConsistent` |
| | `EverySequenceAccounted` | `Spec => []Accounting` |
| | `LoopForwardsInOrder` | `Spec => ForwardsInOrder` |
| | `LoopNeverSkipsEarly` | `Spec => NoEarlySkip` |
| | `LoopExpiresOverdueGaps` | `Spec => OverdueGapExpires` |
| | `LoopRequestsOnlyMissing` | `Spec => []RequestsOnlyMissing` |
| | `SkipsAreRemembered` | `Spec => []SkipListIsRecent` |
| | `RoutesAlwaysCover` | `Spec => []RoutesCoverFlow` |
| | `RestartsAreConfirmed` | `Spec => RestartIsConfirmed`, without parity frames |
| `Stream` | `PacketsHandedInOrder` | `StreamSpec /\ []Bounded => []HandedInOrder`, when what is in flight is younger than an idle flow |
| | `PacketsHandedOnce` | `StreamSpec /\ []Bounded => []HandedOnce`, likewise |
| | `OnlyLostPacketsSkipped` | `StreamSpec /\ []Bounded => []SkipsOnlyLost`, likewise and without repair |
| | `OnlyLostPacketsMissing` | `StreamSpec /\ []Bounded => []EveryPacketHanded`, likewise and without repair |
| | `ShortStreamsAreBounded` | `StreamSpec => []Bounded`, for fewer than `RestartBackwardGap` packets |
| `Fec` | `ParityFramesFit` | `FecSpec => []ParityFits` |
| | `QueuesMatchMaps` | `FecSpec => []CachesAgree` |
| | `WhatIsSentArrives` | `FecSpec => []PayloadsIntact` |
| | `SingleLossNeverWaits` | `FecSpec => []NothingLeftToRecover` |
| | `RecoveryIsWithinWindow` | `FecSpec => RecoversWithinWindow` |
| `RepairCache` | `CacheTypeCorrect` | `Spec => []TypeOK` |
| | `CacheQueuesAgree` | `Spec => []QueuesAgree` |
| | `CacheQueuesInOrder` | `Spec => []QueuesInOrder` |
| | `CacheAnswersFresh` | `Spec => AnswersFresh` |
| | `CacheAnswersSpaced` | `Spec => AnswersSpaced` |
| | `CacheImplementsLog` | `Spec => KeepsRecentPackets`, the refinement of `RecentPackets` |
| `SendPolicy` | `PayloadsSentOnce` | `Spec => []EveryByteOnce` |
| | `RescuePathsCovered` | `Spec => []RescueCovers` |
| | `PayloadsNotDropped` | `Spec => []NothingDropped` |
| `Registry` | `RegistryTypeCorrect` | `Spec => []TypeOK` |
| | `OpenStaysRegistered` | `Spec => []RegisteredWhileOpen` |
| | `ResponsesAreTried` | `Spec => []NoResponseDropped` |
| `PathConnection` | `PathTypeCorrect` | `Spec => []TypeOK` |
| | `PathNeverStranded` | `Spec => []NeverStranded` |
| | `PathAttemptsReplaceNothing` | `Spec => []AttemptsReplaceNothing` |

### Assumptions

- `WindowAssumption`, `ReorderAssumption`: a decoded fragment index is below its count, a sequence
  is in the media range, ages are at least as fine as the delay. The delay and the limit on
  requests are not 0 and the gap that makes a restart exceeds 1: the command line and the constants
  of the code are so. The list of skipped sequences may have any limit, even 0.
- `FecStateAssumption`, `FecAssumption`: group sizes are between 2 and the greatest a frame can
  count, and the stream has no more packets than there are sequences, so each has one of its
  own. What a cache does that outlives a lap of the sequences is therefore not covered; it is
  among the hazards of `PROJECT.json`. `Repair` is `FALSE`: `Fec` leaves out the repair requests of a turn,
  which change no state that recovery reads.
- `CacheAssumption`: the cache holds fewer packets than there are sequences, requests are kept apart
  for some time, and each asks for something.
- `PlanAssumption`, `PolicyAssumption`: MTU and chunks are not empty, there are no more paths than a
  header can count fragments, reports are about paths and give rates that are not negative.
- `RegistryAssumption`, `PathAssumption`: ids of connections are distinct, and the values of the model
  are told apart.

- `StreamAssumption`, `NetworkAssumption`: paths are connections of the server, a packet is split into
  2 to `MaxFragments` fragments, the cache holds fewer packets than there are sequences, and the server takes
  every frame that the client can make.

The theorems about `Stream` have hypotheses of their own, all but one of which concern the time and the
length of the stream:

- `Bounded`, in every state: no more packets were sent than there are sequences, and no frame in flight was
  overtaken by `RestartBackwardGap` packets. Both are needed. Past the first lap a packet may reach the target
  twice, as `wrap` shows. A frame so far behind looks like the first of another session, and enough of
  them from a connection that has not carried the flow replace it. In the code that is 2^26 packets, and
  4096 packets within the delay of one path. `ShortStreamsAreBounded` says that shorter streams, such as those of
  the runs, are always so.
- `RequestLatency + Latency < FlowIdleReset`: a frame, or a request with its answer, takes less time than
  `--flow-idle-reset-secs`, 30 s by default, after which an idle flow ends. Otherwise a frame of
  the old flow may start the next one, below what was handed over.
- `DOMAIN FecPayload = {}`: the client of `Stream` sends no parity; `Fec` is about streams with it.
- `Repair = FALSE`, in the two theorems about losses: with repair a packet that was lost may
  arrive after all, so that what the server gave up need not stay lost. `SkipsOnlyLost` and
  `EveryPacketHanded` are checked in `stream`, which is without it too; with it, `RepairsInTime` says what
  the server may give up.

`RestartsAreConfirmed` also assumes that no parity frames are in use. The window of `ReorderWindow` may
reconstruct any protected sequence, however far ahead of what a connection of the flow has
carried, and with next so far ahead an ordinary packet of the flow counts as far behind. The code's
`FecState` cannot get that far ahead of the flow's packets, which takes `Fec` to say.

### Arguments

*Stages of a turn.* `WindowConsistent` does not hold inside a turn: after a packet is
stored the head may be waiting, and between expiry and the last drain it may be waiting
again. So the proof gives the stages a weaker contract, `Sound` (next and all
keys in range, `seen` the buffered sequences, nothing in two maps, nothing
behind next, gap requests only at the head), shows stage by stage that `Accept`,
recovery, repair requests, `Expire` and `Drain` keep it, and that `Drain`, which comes
last, also leaves the head not waiting: `AtRest`. `Accounted` is carried along the same
stages: what a stage moves next past is exactly what it adds to `delivered` or to
`skips`. The inductive invariant `Inv` is `AtRest` and `Accounted` of the window with
"without a flow nothing is pending" and the range of next. `WindowConsistent` alone is
not inductive: it says neither that keys are in range, without which the
least element that stops a loop need not exist, nor anything of the history.

*Types.* `WindowTyped` (the values in the maps) goes through the stages the same
way, with one fact that is not a matter of types: an assembly is never left complete,
because completion removes it in the same turn. `LoopTyped` covers the other
variables. It rests on `Inv` for the ranges of keys.

*Whole turns.* `ForwardsInOrder` and `NoEarlySkip` compare the window after a turn with the one
before. Each stage keeps two relations to the window u that the turn started from.
`Ordered` says that what was forwarded so far lies between next at the start and next
now, in ascending order. `Patient` says that what was buffered at the start and is not
behind next still is, and that whatever is overdue was so at the start, since a stage only adds
packets of age 0. What a stage skips is then blamed on something overdue at u. `OverdueGapExpires`
follows from where `Expire` stops and from what `Drain` forwards if it stops at a
buffered packet.

*Requests.* `Modest` says that a window asks only for what it lacks, and seldom. Expiry and
draining, which come after the requests, only remove. The limit is a matter of
counting: the assemblies of rank below k are at most k.

*Skipped sequences.* `expire_reorder_gap` inserts one sequence after another into a bounded list,
a fold in the model. `Latest` says that the list holds the greatest of a set of sequences in
ascending order, as many as fit; inserting one beyond all of them keeps it. `FoldTrace` of `Induction`
gives the values a fold goes through, along which the lemma is carried.

*Routes and restarts.* `RoutesInv` ties `flow_connections` and the routes to the connections of the
flow. `DetectorInv` bounds next and everything pending by the greatest sequence that a
connection of the flow has carried (`Within`), so that no packet that fits the flow is taken for
one far behind it, and the detector's count is what `evidence` has counted.

*The stream.* The window is followed through a turn by one relation, `Turn`, which its stages
keep (`Carries`): what a turn forwards is whole packets with their own payloads, what it gives up was
pending, what was held at or ahead of next still is (`Holds`), and what stays pending grows no
younger. The invariant has one part for each kind of fact.
`ClientInv`: each packet was cut whole, into one number of fragments, or both, and the cache holds such
cuts; so, with a header that survives the wire (`ThreeDigits`), everything in flight is a
fragment of a packet that was sent (`NetworkInv`), and everything in the window is put
together from fragments of one packet (`FlowInv`). That alone does not order what the target gets: a
flow that ends and starts again forgets where it was. `TimeInv` says that it cannot matter.
A frame of a packet behind next is at least as old as the flow has been silent, and so is a
request plus what its answer may take. A flow ends only after a silence that nothing in flight outlives,
so the next one starts ahead of all that was handed over (`HandedInv`). `OrderInv` is the conjunction,
with `Inv` and `TypeInv` of the loop. That nothing is handed over before all of it has arrived is an invariant
beside it (`ArrivedInv`): a turn adds to what the window holds and forwards only the fragment that it was
given (`Brings`).

*Losses.* Without repair nothing is asked for (`QuietInv`), so a fragment that has neither arrived nor is in
flight never arrives: `Gone` is stable. `LossInv` accounts for what arrived: a fragment that
arrived is held by the window or its packet is behind next, and a packet behind next was
handed over, is gone, or precedes the start of a flow (`Settled`). The step that needs an argument is expiry. What
expires has been pending, or has had a later packet waiting, for `MaxReorderDelay` ticks; a frame of the
missing packet that was still in flight would be older than the delay, which `Latency` does not
allow. The part of `LossInv` that says so relates the age of each pending sequence
to the ages of the frames of earlier packets. Packets that were overtaken by the first of a flow are left out
of what was lost, as `starts` records.

*FEC.* The encoder's groups are runs of consecutive packets, each of which fitted when it was added
(`IsGroup`): the sequence after a packet's is that of the next packet alone, because the stream does not
fill more than one lap. Everything on the network is a packet or the frame of such a group
(`SenderInv`), and the server decodes what was encoded: a header survives being packed into a word,
and a frame the checks of the decoder. On the server, `Good` has the caches agree (`Queued`), the frames be
frames of groups and the payloads what was sent (`Genuine`), and `Holds` says the last of window and
output. The exclusive or of a group and all its packets but one is that one, so what a frame gives is what was
sent. `NothingLeftToRecover` is about the end of the loop over passes: a pass finds all frames
waiting and changes nothing, or removes one, so as many passes as there are frames leave only frames
that wait (`Settled`). Expiry and the last drain come later; draining moves packets from the window to the
payload cache and may evict, so what is known only shrinks, and a frame that waited for two packets
still does.

*Recovery within the window.* `RecoversWithinWindow` compares loops: the code accepts one packet after the
other, in passes over the frames, while `Window` accepts one set of sequences, and one more if next wraps.
Accepting one more packet than a set is accepting the larger set, unless next wrapped in between
(`AcceptOneMore`): the windows are equal field by field, so `Formed` says that they have no others.
What remains is that next wraps once at most in a turn. No packet is in two groups (`GroupsApart`),
so the frames that a turn starts with cover disjoint sequences (`Disjoint`), and each gives one packet and
is gone. `Recovering` is what the passes keep. Before a wrap, each frame left has a packet that is not there (`SameLap`).
So when next wraps, having started at 0, no frame can be left, for every sequence is there.
Having started elsewhere, it finds the new lap empty. There the first frame that gives
a packet covers another one that no other frame can give, which stops next before a second wrap (`NextLap`).
The invariant behind it is `FlowInv`: the groups are apart, each frame that is in flight or kept is that of a
flushed group, and the window is formed.

*Repair cache.* A half of the cache, a map and its queue, is well formed if the queue holds the keys of the
map, each once, and the ages along the queue do not increase. The five operators keep both. That expiry
may stop at the first fresh entry follows from the order. A packet is refreshed in its place only when
it is cut anew, at the end of the queue (`LatestHeld`). `AnswersSpaced` needs the requests that were
answered and forgotten: each that is within the window and no longer remembered has
`MaxRequests` younger ones (`AnsweredKept`). For the refinement, the initial states map to
initial states and each operation of the cache to a step of the log or to a stutter.

*Sender.* `RescueCovers`, `NothingDropped` and `EveryByteOnce` speak of what the sender had read when
it sent. The invariant follows the three reads (`ReadFirst`, `ReadAll`): what they say of each other, whatever
became of the shared state since. The rest of `EveryByteOnce` is about the plan. Shares are naturals
whatever the reports say (`SharesTyped`), so their sums along the list of paths grow (`PrefixSums`), and so
do the points at which a payload is cut, the last of them at its end (`CutPoints`). Hence the ranges tile
the payload (`Tiles`), without the empty ones too, and so do chunks. Ranges that tile cover each byte
once under any numbering that keeps their order, fragments of one packet or packets of their own
(`TilesCoverOnce`). A rescue path gets the whole packet beside the fragments of others; that it gets no
fragment as well follows from the groups being disjoint, or having one path, over which nothing splits
that rescue paths would get (`FragmentsOnce`).

*The registry.* `RegisteredWhileOpen` is not inductive: `response_loop` removes from the registry what
failed some steps ago, and nothing in the property says that this cannot be an open connection.
`RegistryInv` adds what it takes: only connections that were accepted are registered,
collected or failed, so none of them can be accepted again, and what failed and is
still open refused a response. `NoResponseDropped` follows each connection that could have carried the response
through the loop: until it is tried, it is registered and its remote is still ahead (`Tried`).

*The path.* `NeverStranded` and `AttemptsReplaceNothing` are inductive together with the
types (`PathInv`): `Drop` is safe because it is only reached with a connection, whose id is
not `None`, so what is added to `broken` is a connection; `Connect` because an attempt
starts without a connection and only the reconnect loop makes one. The lemmas show this
for `LinkInv`, the part about the shared state, and the types of the rest separately.

### Only model-checked

- The liveness properties (`QuietStreamEnds`, `HealthSettles`, `AutoSettles`, `PathRecovers`,
  `FailureIsForgotten`): fairness and ENABLED are out of the prover's reach.
- `RepairsInTime` of `Stream`: it blames a skip on the number of frames that were lost and on the number of
  gaps, so a proof has to count the lost copies of one fragment, path by path, and to bound when each
  packet was asked for by the round trips of those before it.

## 5. Not modelled

- *Remote control over BLE, preview, OBS*: monitoring and tuning beside the stream, through
  BlueZ, a decoder process and a third-party client. Their races (a read offset shared by
  all readers, a status cleared after an await) are listed in `PROJECT.json`.
- *Reports*: what the server counts for a health report and the client's tasks that
  receive it; a report arrives in `SendPolicy` as one of a few. The clocks of client and
  server, which decide how old a report is, are a flag.
- *Strategy*: the reset of a qdisc, traffic counters, displayed percentages, and the measured
  rates behind the adaptive group size, which is any size allowed.
- *A restarting client*: `restart` has packets of several sessions in any order, but
  no sender that restarts. Headers carry no session, so what the code does with
  stragglers of an old session is not wrong or right by anything it could know.
- *Display and I/O that no decision of the stream reads*: TUI, counters, chat, CLI,
  identity, bench, the web page. QUIC, iroh and BlueZ appear only as what they may
  deliver.

Worth proving next: the theorems about losses with repair, where "gone" also has to speak of the
requests that may still come, and `RepairsInTime` after them.

## 6. Running

    tlc -workers 2 -config window.cfg  MCReorderWindow.tla
    tlc -workers 2 -config restart.cfg MCReorderWindow.tla
    tlc -workers 2 -config stream.cfg  MCStream.tla
    tlc -workers 2 -config repair.cfg  MCStream.tla
    tlc -workers 2 -config cache.cfg   MCRepairCache.tla
    tlc -workers 2 -config registry.cfg MCRegistry.tla
    tlc -workers 2 -config fec.cfg     MCFec.tla
    tlc -workers 2 -config policy.cfg  MCSendPolicy.tla
    tlc -workers 2 -config path.cfg    MCPathConnection.tla
    tlc -workers 2 -config delay.cfg   MCReorderWindow.tla   # reports a violation
    tlc -workers 2 -config wrap.cfg    MCStream.tla          # reports a violation
    tlc -workers 2 -config starve.cfg  MCPathConnection.tla  # reports a violation
    tlapm Induction.tla
    tlapm WindowProofs.tla
    tlapm StreamProofs.tla
    tlapm FecProofs.tla
    tlapm RepairCacheProofs.tla
    tlapm SendPolicyProofs.tla
    tlapm RegistryProofs.tla
    tlapm PathConnectionProofs.tla
