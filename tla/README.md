# A TLA+ verification of ObsChain

ObsChain watches the Bitcoin network: sources feed observations into a bounded
channel, a worker enriches them, matches them with watched incident targets and
anomaly detectors, removes duplicates, stores the results and broadcasts them. A
separate engine replays historical blocks through the same detectors. This
directory holds TLA+ models of the parts of that program in which several tasks,
failures or long histories meet, TLC configurations that check them on small
instances, and TLAPS proofs for all instances. All paths below are relative to the
root of the repository.

## 1. Inventory

| Part | Code | State | Operations that change it |
|---|---|---|---|
| Historical replay engine | `crates/obschain-ingest/src/historical_replay.rs`, `core/src/replay.rs` | job row, checkpoints, tokens per job, loop variables of each run | create, run, resume, cancel, pause; process a block |
| Bitcoin Core coordinator | `bitcoin_coordinator.rs` | last tip hash and height, shared by two tasks | initialize, ZMQ message, poll, reconcile, reorganization trace |
| ZMQ subscriber | `bitcoin_zmq.rs` | sequence tracker, status and delay per topic | connect, subscribe, receive, gap, reconnect |
| Incident watch engine | `obschain-intelligence/src/watch_engine.rs` | indices of targets, tracked descendants with a FIFO | add and remove targets, process a transaction or a replacement |
| Event deduplicator | `dedup.rs` | seen keys with times, queue of keys, witnesses | filter |
| Pipeline worker | `src/main.rs` | channel, batch in progress, metrics | receive, save with retries, broadcast, shut down |
| Storage | `obschain-storage/src/postgres.rs`, `repository.rs` | events, observations, activities, alerts, jobs, checkpoints, incidents, baselines | upserts, queries, rank |
| Enricher and UTXO cache | `enricher.rs`, `utxo_cache.rs` | bounded cache with TTL | look up, fetch, insert |
| Detectors | `obschain-detectors/src/*` | last block seen (engine); the rest is pure | process an observation |
| RPC client, mempool sources | `bitcoin_rpc.rs`, `mempool_*.rs` | cookie, connection | request, reconnect |
| Baselines and rarity | `core/src/baseline.rs`, `intelligence/src/baseline.rs` | baseline runs, samples | calibrate, rank |
| Incident records | `obschain-incidents/src/*` | none | build, validate |
| HTTP and WebSocket API | `src/api.rs` | none of its own | replay requests; otherwise reads |

The parts meet in four places: the subscriber's channel to the coordinator; the
observation channel that the coordinator and the mempool sources write and the
worker reads; the storage, which the worker, the replay engine and the API share;
and the engine's tokens, which the API sets while a run reads them.

What is hard here, and is listed line by line as hazards in `PROJECT.json`: two
tasks that read and write the tip in separate steps; notifications lost silently or
seen as gaps; whole rows written back from copies read earlier; crashes between the
writes of one block; keys marked as seen before the event is stored; queues and
maps kept in step by hand; repeated and late observations of one transaction.

The properties that correctness needs: nothing is skipped (blocks by the replay and
by the coordinator), nothing is lost uncounted (events and alerts), every bounded
collection is bounded, estimates and reported chains are exact, and every task that
was started or interrupted gets on with its work.

## 2. Modules

| Module | Models | Instance for TLC |
|---|---|---|
| `HistoricalReplay` | one replay job, the tasks that run it, the operator, crashes and faults | `MCHistoricalReplay` |
| `HistoricalReplayLemmas`, `-Blocks`, `-Steps`, `-Proofs` | lemmas and theorems about `HistoricalReplay` | |
| `BitcoinCoordinator` | the coordinator's two tasks and the node | `MCBitcoinCoordinator` |
| `ZmqSubscriber` | one topic task, its socket, channel and status | itself |
| `IncidentWatchEngine` | the watch engine and the rows its matches are saved in | `MCIncidentWatchEngine` |
| `EventDeduplicator` | the filter | itself |
| `EventPipeline` | the worker, composed with `EventDeduplicator`, and its tables | `MCEventPipeline` |

The general rule for atomicity: a step is the code of a task between two `await`s,
or, where tasks share unlocked cells, between two accesses to them. Code that runs
under a lock is one step, or several with nothing in between.

**HistoricalReplay.** `pc[r]` names the await at which run `r` of `run_job` or
`resume_replay` waits, `mine[r]` is the copy of the job it holds, `height`,
`pending` and `current` are the loop variable and the events of the block in hand.
`active` is the entry of the two token maps; a later run replaces it and any run
that ends removes it, as the code does. Each await has an action for success, and
`BlockFault`, `JobFault` and `CancelFault` make it fail; `Crash` clears everything
but the storage. A block yields a set of events (`EventsAt`). The code ignores two
kinds of failing lookups, and the events that depend on them may then be missing:
those about the block interval when the previous block's header cannot be fetched for
the first block of a run (`IntervalEvents`), and those about spent outputs when
`getrawtransaction` fails (`LookupEvents`). The safety properties are about the other
events, `Certain`; that a failing lookup silently drops an event is what the code does.
Left out: counters of transactions and events, texts, times, the transaction cache.

**BitcoinCoordinator.** Each of the tasks `zmq` and `poll` has a place and its local
variables; `tipHash` and `tipHeight` are written by separate steps. Blocks form a
tree with heights (constants `Prev`, `HeightOf`); the node, external, extends or
switches its chain. The lockstep search for a common ancestor is the operator
`ReorgObservation`. A block received over ZMQ is stored with the height that
`parse_raw_block` reads from its coinbase, 0 when there is none (`Bip34Height`); a
stored 0 switches the reconciliation off until the next block. The instances assume
that every height can be read, which fails only for blocks without a BIP 34 height and
for heights 1 to 16 of a regtest chain. A notification is lost in one of three ways,
with a bound each: the tracker has seen one before and will notice (`MaxLost`); it has
seen none since the daemon started (`MaxEarly`, which includes the blocks produced
before the sockets are subscribed); it has seen none since a reconnection
(`MaxUnseen`).

**ZmqSubscriber.** The positions of published notifications are natural numbers, the
numbers on the wire are taken modulo `Modulus` (2^32 in the code, 10 here). The
coordinator's side is included because it, too, writes the status of the topic. A node
that is down publishes nothing, and its numbers go on when it is up again.

**IncidentWatchEngine.** The four indices are one sequence of targets in the order in
which they were added, which fixes the order of matches. One call is split into a
step per input, enrolled output and output match. Activities are rows keyed as in the
storage's upsert.

**EventDeduplicator and EventPipeline.** Keys stand for event type, transaction and
block. The clock is an integer. `EventPipeline` extends the deduplicator and filters
each batch through it. Storage errors are transient (drawn from `MaxFaults`) or
permanent (an alert whose activity id has no row). A crash empties the filter, the
channel and the metrics; the history variables (`passed`, `broadcasts`, `counted`) go on
through it, so that what a crash loses is seen. Left out: the filter's answer to a
poisoned lock, since nothing under the lock panics.

## 3. Runs

| Run | Checks | Size |
|---|---|---|
| `replay_safety` | `TypeOK`, `ReplayInv`, `ResumePointSafe`, `CompletedMeansCommitted`, `CounterCoversRange` | 2 overlapping runs, 2 blocks, 1 crash, 1 fault, 1 signal |
| `replay_settles` | `RunningOnlyPastEnd` | 2 overlapping runs, 2 blocks, a checkpoint each, 1 signal, 1 crash or fault |
| `replay_restart` | violates `JobSettles` | 1 crash, an operator who keeps resuming |
| `coordinator_line` | `TypeOK`, `NoBlockSkipped`, `EveryBlockObserved` | 4 blocks in line, 1 loss, 1 gap of the sequence topic |
| `coordinator_fork` | `AncestorIsForkPoint`, `AncestorIsFound`, `HeightCatchesUp` | branches of 2 and 3 blocks, 1 early loss, 1 reconnection with 1 loss, 1 RPC failure, reconciliation limit 1 |
| `coordinator_reconnect` | violates `NoBlockSkipped` | 1 reconnection with 1 loss |
| `zmq_topic` | `TypeOK`, `MissedIsExact`, `ConnectedMeansClean`, `ReconnectsAfterOutage`, `OutageIsNoticed` | numbers 8, 9, 0, 1; 2 outages, 1 other fault |
| `watch_engine` | `TypeOK`, `TrackingBounded`, `HeuristicStrengthCapped`, `DepthIsDistance` | 4 transactions, 5 targets, 3 observations, 1 edit |
| `watch_confirmed` | violates `ConfirmedIsStored` | 3 observations |
| `dedup_window` | `DedupTypeOK`, `DedupBounded`, `TtlSeparates` | 3 keys, capacity 2, 6 events, TTL 2 |
| `pipeline_worker` | `PipelineTypeOK`, `LossIsCounted`, `QueueServed` | 3 observations, 2 faults, 1 crash, 2 attempts |
| `pipeline_alerts` | violates `AlertsStored` | no fault |

Why the bounds are enough to be of interest: two runs and one crash reach every
pair of awaits at which rows and checkpoints can disagree; with four blocks the poll
can overtake a queued notification and a loss can be in the middle or at the end; the
fork is longer than the reconciliation limit, and the node may replace one block or
two by a branch one longer, or one block by a branch two longer; the ZMQ numbers wrap
within the run, and the channel (2 places) can be full when the node goes down; the
watch engine's limits (3 outpoints, depth 2) and the deduplicator's capacity are
smaller than what the inputs offer, so evictions happen. Deadlock is checked for the
coordinator, whose poll never stops; the other systems may come to rest, when the
budget of inputs is used or the daemon was told to stop.

Fairness: weak fairness of each task's steps, since the runtime schedules every task
that is ready and every call returns or fails. No fairness is assumed of the node, of
new blocks or of losses; `ReconnectsAfterOutage` is about a node that stays up in the
end, `OutageIsNoticed` about one that stays away. `OperatedSpec` adds an operator who
keeps resuming the job once a crash or a failing call may have interrupted it, since
nothing in the daemon does; without one, such a job simply stays as it is stored.
Before the first crash or fault nobody is assumed to resume anything. In
`coordinator_line` the property depends on fair polling, which the timer gives.

`RunningOnlyPastEnd` and `JobSettles` belong together. A job may stay `RUNNING` for
good, which `replay_restart` shows; `replay_settles` shows that this happens in no
other way than by a resume behind the last block, also when two runs overlap.

Each property has a mutant: an operator marked *Mutant* in front of the definition it
would replace, a plausible slip in the code that the property rules out.

## 4. Proofs

`HistoricalReplayProofs` proves, for every range, checkpoint interval, set of runs and
events and every number of crashes, faults and requests:

- `ReplayInvariant`: `Spec => []ReplayInv`;
- `TypeCorrect`, `ResumeIsSafe`, `CompletionIsSound`, `CounterIsSound`: the four
  safety properties of `replay_safety`, as consequences.

The assumptions used are three of those named in `HistoricalReplay`: heights are
natural numbers, each height has a set of events, and null values are not proper ones.
That the checkpoint interval is positive (zero would make the code panic) and the
bounds are numbers matters to TLC only.

`ResumePointSafe` alone is not inductive: a run may write back a copy of the job that
it read long ago, and a cancel request may do the same. `ReplayInv` says that *every*
copy, in the storage, in a run or in a request, vouches only for committed blocks
(`Sound`), and what a run knows at each await about the block in hand (`LoopKnows`,
`BlockKnows`). What makes it inductive is that events and observations are never
deleted and that the range of a job never changes (`Grows`), so a copy can be stale but
never wrong about the past. `HistoricalReplayLemmas` shows, action by action, that a
step of a run keeps the types, only adds to the stores and stores only sound copies;
`HistoricalReplayBlocks` follows the knowledge of the loop from await to await;
`HistoricalReplaySteps` shows that the run's own copy stays sound; and
`HistoricalReplayProofs` adds creation, resumption, crashes and the operator's requests
and combines them in `ReplayInvariant`.

Only model-checked: all liveness properties (they need fairness), and everything about
the other modules so far.

## 5. Divergences

Four disagreements between the documentation and the code have a run that shows them;
`PROJECT.json` quotes the lines.

- `replay_restart`: after a crash between the last checkpoint and the final update,
  `current_height` is `end_height + 1` and the job stays `RUNNING`. A second run that
  is resumed while the first one finishes has the same effect without a crash.
- `coordinator_reconnect`: after a first notification the subscriber reconnects; a block
  published meanwhile is skipped when the next one arrives before the poll.
- `watch_confirmed`: a `rawtx` notification processed after the block sets a confirmed
  activity back to `MEMPOOL`. The confirmation of a descendant's spend that was seen in
  the mempool is not even matched, since that removed the tracked output.
- `pipeline_alerts`: an activity that is seen again keeps the id of its row, while its
  alert refers to a new id; the foreign key refuses the alert on every attempt.

Others are stated in the modules, under the heading *What the documentation says and
the code does not keep*; adding the definition to the configuration named here
produces the counterexample:

| Definition | Configuration | What happens |
|---|---|---|
| `CancelledIsFinal` | `ReplaySafety` | a run's next `update_job` overwrites `CANCELLED` (docs/HISTORICAL_REPLAY.md:84) |
| `NoSpuriousReorg` | `CoordinatorLine` | a block that reconciliation already passed is reported as a competing tip (README.md:140) |
| `DepthCountsDisconnected` | `CoordinatorFork` | one replaced block is reported with depth 2 (README.md:140) |
| `EveryAncestorIsFound` | `CoordinatorFork` | no ancestor is reported when the new tip is two or more above the old one: the walks never meet (docs/ARCHITECTURE.md:394) |
| `DegradedRecovers` | `ZmqTopic` | `DEGRADED` lasts until the next reconnection (README.md:110) |
| `HeuristicTargetCapped` | `WatchEngine` | the spend of a heuristic outpoint target is `High` or `Critical` (docs/INCIDENT_MODEL.md:190) |
| `TrackedIsUnspent` | `WatchEngine` | a repeated observation enrolls spent outputs again (docs/INCIDENT_MODEL.md:170) |
| `OrderBounded`, `EvictionIsFifo` | `DedupWindow` (capacity 3 for the latter) | keys that recur after the TTL stay queued twice (docs/ARCHITECTURE.md:23, docs/EVENT_MODEL.md:161) |
| `ConfirmationStored` | `PipelineWorker` | the confirmation of a duplicate is dropped (README.md:117) |
| `QueueDrained` | `PipelineWorker` | shutdown leaves the channel unread (src/main.rs:613) |

## 6. Not modelled, and plan

Not modelled: transport and formats (ZMQ frames, RPC and REST JSON, SQL text), the
read-only API, configuration, static incident data. `PROJECT.json` gives the reason
for each part.

Planned, in this order:

1. `BoundedCache`: an abstract bounded store with FIFO eviction; the UTXO cache and the
   replay's transaction cache as detailed specifications, the latter refining it; the
   enricher's concurrent lookups on top.
2. `EventStore`: the in-memory storage (retention of events with their observations and
   metrics, the rank query) and the life cycle of baseline runs; the Postgres upserts
   as a second implementation of one abstract store.
3. `Baselines`, `Detectors`: percentiles, ranks, severities and the detectors' thresholds
   as operators against reference definitions.
4. `RpcClient`, `MempoolSource`: cookie refresh with one retry, the reconnecting
   WebSocket loop and the REST poller.
5. Composition of `ZmqSubscriber` with `BitcoinCoordinator`, so that gaps are derived
   rather than assumed.
6. Proofs: `TrackingBounded`, `DedupBounded` and `MissedIsExact` for all bounds, the
   refinement of the bounded store, and `LossIsCounted`.
