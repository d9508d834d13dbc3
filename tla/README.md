# TLA+ models of the Massa indexer

The indexer (`massa-indexer/`, Rust) follows one Massa node, keeps what it
learns of every slot in RocksDB, exchanges finalised slots with other indexers,
imports the slots of an older DynamoDB store once, and serves the result over
REST and SSE. There is no coordination between indexers: each one decides alone
what the verdict of a slot is. This directory models that decision, the tasks
that feed it, the links between indexers, and what readers are shown of the
rows; checks them with TLC on small instances and proves the central results
with TLAPS.

To run one model: `tlc -config ingest.cfg MCSlotIngest`; to check the proofs
of a module: `tlapm SlotIngestProofs.tla`.

## 1. Inventory

### 1.1 Parts, state, operations

| Part | Code | State | Operations that change it |
|---|---|---|---|
| Ingestion state machine | `ingest.rs` | all rows; one task, two queues (live, bulk) | `handle_block`, `handle_exec`, `complete_final_exec_from_node`, `handle_transfers`, and the patches below |
| Patch apply paths | `peer/patch.rs` | the same rows, same task | `apply_peer_patch`, `apply_legacy_patch`, `apply_forced_verdict` |
| Chain-linkage arbiter | `peer/patch.rs` 104-334 | none (reads slot and block rows) | `arbitrate_verdicts` |
| Stored rows and indexes | `model.rs`, `db.rs`, `keys.rs` | column families, secondary indexes, `cf_meta` | `write_*`, `clear_*`, `update_last_*`, `rebuild_secondary_indexes` |
| Peer service | `peer/service.rs` | none (reads rows), one task per session | `get_final_slot`, `stream_final_slots`, `sync_session` |
| Backfill walker | `peer/backfill.rs` | sweep cursor, armed recheck ranges | `run_backfill`, `range_fill_window_opts`, `visit_slot` |
| Peer client, session, registry | `peer/client.rs`, `session.rs`, `registry.rs` | pending requests by correlation id; peers by id | `get_final_slot`, `complete`, `fail_pending`, `set_session`, `migrate_peer_id` |
| Repair passes | `repair.rs` | checkpoints in `cf_meta` | `run_reconstruct_transfers`, `run_pull_parts`, `run_legacy_sub_transfers` |
| Legacy importer | `legacy/oneshot.rs`, `source.rs`, `decode.rs` | pass number, coverage | `run_oneshot_pass`, `fetch_slot` |
| Node streams | `grpc.rs` | stream position, backoff | one consumer per stream |
| SSE hub | `sse.rs` | ring of frames, sequence number | `broadcast`, `replay_since` |
| REST API | `rest.rs` | page cursors (held by the client), one response task per stream | paginated routes, recent lists, event streams; `resolve_block_status` writes a block row back |
| Codec, ids, config, metrics | `codec.rs`, `ids.rs`, ... | none that is read back | - |
| Explorer | `massa-explorer/` | browser only | - |

### 1.2 How the parts interact

Node streams feed the live queue of the writer task with `Block`, `Exec` and
`Transfers` events; the backfill walker, the repair passes and the legacy
importer feed its bulk queue with `PeerPatch`, `LegacyPatch` and `ForcedVerdict`
events. The writer is the only task that changes rows (but for one self-healing
write of a REST handler); everything else reads them, concurrently, and acts
later on what it read. Peers see an indexer through the peer service, which
reads rows and ships them; requests travel either as unary calls to a URL or
over a SyncSession that either side may have opened, and a registry keeps the
routes per peer id. Readers follow page cursors through the secondary indexes,
or the frames the writer broadcasts.

### 1.3 What is hard here

* The three node streams are independent and the two queues are served out of
  order, so the messages about one slot arrive in any order, repeatedly, or not
  at all. The code claims "Cross-lane reordering is safe" (`ingest.rs` 20).
* Sources contradict each other: a node that finalised a dead fork, peers that
  followed another one, old tables, an operator.
* First-final-wins must coexist with repair: a wrong FINAL verdict has to be
  replaced when the chain proves it wrong, and only then.
* A row mixes facts of several sources (verdict, trail hash, body, output,
  transfers, completeness bits), and a repair must drop what belonged to the
  old verdict.
* Tasks act on stale reads (walker, importer, repair), keep checkpoints of work
  that is only queued, and wait for each other across the network; the indexer
  may stop between any two writes.
* Several tasks probe one peer, re-key its registry entry and open its session
  at the same time; remotes come back under other ids.
* Index entries and rows are written in several batches, and readers hold
  cursors over them for as long as they like.

The hazards are listed one by one, with their lines, in `PROJECT.json`.

### 1.4 What makes each part correct

| Part | Properties |
|---|---|
| Ingestion, patches | one verdict per FINAL slot; block pages agree with slot pages; events are those of the verdict; a FINAL verdict changes only by arbitration or by the operator; bits and statuses never move backwards; order independence when sources agree |
| Arbiter | a true record is not given up; a wrong one yields to the right one |
| Backfill | every hole a peer can fill is filled; sweeps end; a dead-fork segment is unwound |
| Sessions | an answer reaches the request it belongs to or nobody; no waiter is left; every request ends |
| Registry, probes | one outbound session per peer; it comes back; one logical peer per remote; no dead route |
| Repair, importer | what is reported complete is complete; a checkpoint accounts for every slot it passes; every task ends |
| Indexes, pages | every row is filed under each of its keys and no other entry is left; a chain of cursors returns every row once and ends |
| SSE | a client that reconnects gets the frames that are still there once and in order, and goes on |

## 2. Modules

    SlotStore                 rows, verdicts, shared helpers
      Arbiter                 arbitrate_verdicts and its layers
        SlotIngest            the writer: one action per handler; safety properties
          SlotLedger          refinement mapping to FinalityLedger
            MCSlotIngest      an instance in which all sources contradict each other
            SlotIngestProofs  the lemmas about the handlers, used by all proofs below
          ChainTruth          what a chain is, and what the arbiter owes it
            MCArbiter         a true chain and a fork
            ArbiterProofs
          SlotConvergence     the writer with a record of what was delivered
            MCConvergence
            ConvergenceProofs
          Backfill            the writer, the walker and its peers
            MCBackfill
          Feeders             the writer, node streams, importer, repair passes, lanes
            MCFeeders
            FeedersProofs
    FinalityLedger            what the ingestion promises about finality
    SyncSession               requests over sessions
      MCSyncSession, SyncSessionProofs
    PeerLinks                 registry, health probes, sessions coming and going
      MCPeerLinks, PeerLinksProofs
    IndexStore                tables and secondary indexes
      RecentPages             the two recent lists
        Pages                 the paginated routes
          MCPages
          PagesProofs
    LiveFeed                  SSE hub and event streams
      MCLiveFeed, LiveFeedProofs

A definition whose comment begins with "Mutant of" is a wrong version of the
definition after it. It is used nowhere: `PROJECT.json` names it, for the check
that the property it belongs to notices the mistake.

### 2.1 The writer

**SlotStore.** `row`, `block`, `op`, `async`, `deferred` are the column families
`cf_slot`, `cf_block`, `cf_operation`, `cf_async_msg` and `cf_deferred_call`;
`None` is an absent row. A slot row keeps the status, the verdict
(`is_miss`/`final`), the candidates, the trail hash and the completeness bits. A
block id fixes slot, parents and operations, which therefore are constants.
Events and transfer rows are abstracted to where they come from: `events[s]` is
the verdict of the execution whose SC events are stored at `s`, `transfers[s]`
the transfer lists stored there. Amounts, addresses, signatures and timestamps
are not there. `SettleBlocks`, `StubParent` and `AdvanceHead` are
`apply_finality_to_blocks`, `ensure_parent_stub` and the forward-only head.

**Arbiter.** One operator per function of `peer/patch.rs` 118-334. The forward
and backward scans are minima and maxima over the FINAL periods in the
`Lookaround` window; the parent walk is a recursive function bounded by
`ReachBound`.

**SlotIngest.** Each action is a whole handler (the writer is a single task, so
handlers do not interleave), from the early returns to the trailing settlement
and parent stub:

| Action | Code |
|---|---|
| `HandleBlock` | `handle_block` |
| `HandleExecCandidate`, `HandleExecFinal`, `CompleteFinalExec` | `handle_exec`, with `apply_executed_ops_changes` and `apply_async_pool_changes`; the last is `complete_final_exec_from_node` |
| `HandleTransfers` | `handle_transfers`, with both reconciliations |
| `PromoteFromPeer`, `CompleteFromPeer`, `RepairFromPeer` | the three ways through `apply_peer_patch`, with `adopt_peer_verdict` and the part helpers |
| `ApplyLegacyPatch` | `apply_legacy_patch` |
| `ApplyForcedVerdict` | `apply_forced_verdict` |
| `IgnoresExec`, `IgnoresPeer`, `IgnoresForced` | the early returns: when a message changes nothing |

The environment is unrestricted: any message of the constant sets may come at
any time and any number of times. Several transfers about one message or call
in one frame are represented by the first that counts, because terminal states
are sticky.

**FinalityLedger** is the promise made to readers: per slot an entry that is
absent, then pending, then a verdict some source stated, replaced only by a
source that may overrule; one step settles at most one slot. **SlotLedger** maps
the rows to it.

**ChainTruth** says what a chain is (`IsChain`: a block sits at its slot, its
parents are on the chain, and the one in its own thread is the chain's last
block before it) and states what the arbiter owes one. The rows, the node and
the peers are those of SlotIngest, so they may say anything.

**SlotConvergence** adds a history variable `seen`, and a step for messages that
the handlers ignore, so that the rows can be compared with a reference that
depends only on the set of messages delivered. `Truth` and `TrueTrail` are what
the chain says of the slots the property is about; `AgreementAssumption` is what
the FINAL sources must then have in common (4.1).

### 2.2 What feeds the writer

**Backfill** composes the writer with `run_backfill` and the peers it asks. The
rows are those of SlotIngest, changed by its handlers; `walker` is the state of
the sweep, `bulk` the queue between the two.

| Action | Code |
|---|---|
| `StartSweep` | head of a sweep: ours, or the peers' up to a lead |
| `ScanSlot`, `ScanDone` | the local scan of a window with `needs_fetch`; bulk path or slot by slot |
| `OpenStream`, `TakeAnswer`, `StreamBreaks`, `RangeDone` | `range_fill_window_opts` over `stream_range_from_peer` and the peer's `stream_final_slots` |
| `VisitSlot`, `FetchAnswered`, `FetchEmpty`, `VisitsDone` | `visit_slot` over `fetch_final_slot` |
| `ApplyBulk`, `LiveEvent`, `LoseEvent` | the writer, and node events that reach it or are dropped |
| `Restart` | a new process: queue and sweep gone, rechecks armed again |

**Feeders** composes the writer with everything else that feeds it: the node
streams on the bounded live lane; the importer, the repair passes and forced
verdicts on the bounded bulk lane; and `Ingest::step`, which serves the bulk
lane only when the live lane is empty. `ckpt` holds the checkpoints by pass and
range, `given_up` is a history of repairs that failed or were lost. `Chain` is the
chain all sources are on (`SourcesAgree`); what contradictory sources do is the
subject of SlotIngest. `TablesCover` is what the importer takes for granted when
it records a miss.

| Action | Code |
|---|---|
| `Connect`, `Emit`, `StreamEnds` | the three consumer loops of `grpc.rs` |
| `ServeLive`, `ServeBulk` | `Ingest::step`, `Ingest::handle` |
| `ImportBegins`, `LookUp`, `Found`, `Failed`, `ImportPassEnds` | `run_oneshot_import`, `run_oneshot_pass`, `fetch_slot_resilient` |
| `Rebuild` | `run_reconstruct_transfers` |
| `Scan`, `Answered`, `Unanswered` | the other two passes: read a period or window, then ask |
| `PeriodEnds` | the checkpoint, and the next period or window |
| `Restart` | stop and start: lanes and task positions are lost |
| `Crash` | the same in the middle of a FINAL `handle_exec` (after 1 to 7 of its writes) or of `handle_block` (1 to 3) |

### 2.3 Links between indexers

**SyncSession** is a set of session bridges with their waiter tables and their
two bounded channels: `out`, from the callers to the pump task, and `sink`, from
the pump to tonic (both `mpsc::channel(32)`).

| Action | Code |
|---|---|
| `Open`, `Established`, `OpenFails` | `ensure_sync_session` up to the pump, and the service side of `sync_session`: the bridge is registered before the stream is established |
| `Ask`, `Send`, `TimeOut` | `get_final_slot`: it inserts the waiter, waits without a timer for room in `out`, and then with one for the answer |
| `PumpTake`, `Serve`, `Forward` | the pump's `select!`: a request of a caller or of the remote, and the send to the sink, during which it reads nothing (`hand`) |
| `Transmit` | tonic takes the next message, if the remote's window allows it |
| `Complete` | `complete` |
| `Break`, `Close` | `fail_pending`, and the end of the pump task, which drops the channels |

Callers that wait for room get it in any order. The remote answers in any order,
or not; it need not read.

**PeerLinks** is the registry with the tasks that change it: `Probe*` are the
steps of `health` between its awaits (`ProbeCached` when the last answer is
fresh), `Ensure*`, `OpenSucceeds`, `OpenFails`, `HelloRenames`, `Breaks` and
`PumpEnds` those of `ensure_sync_session` and its pump task, `Accept` and
`HealthAsked` are the service side, `UrlFails` and `DemotionEnds` the demotion
of advertised URLs. The registry is two relations, key to URL and key to
bridge; an entry exists while it is in one of them.

### 2.4 What readers see

**IndexStore**. One behaviour is about one of the nine tables (they share no
keys). Rows keep only the fields keys are made of; `KeysOf` gives the index
entries of a row as `write_*` files them and as the rebuild files them again.
A `write_*` or `clear_*` is one RocksDB batch and one step; `Crash` falls between
two, or while the writer is at rest. `StartRebuild`, `RawClear`, `Replay`, `EndRebuild` are
`reindex-secondaries`.

**RecentPages** is a client of `/v1/operations/recent` or `/v1/blocks`: requests
in batches of slot rows, limited by items and by `max_slots`. **Pages** is a client
of a route that pages over an index or over a table of rows, with the kinds of
scan `db.rs` has (ids, rows, rows of both sides of a transfer, the table itself);
the routes with a cursor it leaves out are named in 5. An index iterator
sees the entries of the moment it was opened, a row is read when its entry is
reached, and the writer goes on underneath. When the server stops, the request
under way is cut off, and the client asks again with the cursor it has.

**LiveFeed**. `Broadcast` and `Send` are the two halves of `SseHub::broadcast`,
`Connect` and `Subscribe` those of `sse_response`; `Deliver` is the loop of the
response task, with the filter of one of the six streams. `owed`, `lost` and
`seam` are history variables.

## 3. Runs

| Run | Module | Checks | Distinct states |
|---|---|---|---|
| `ingest` | MCSlotIngest | `TypeOK`, `VerdictShape`, `BlockStory`, `ExecMatchesVerdict`, `GapsVisible`, `FirstFinalWins`, `BitsKept`, `ImplementsLedger`, `OpHistory`, `DeferredLeavesOnlyByPeer`, `AsyncLeavesOnlyBySet` | 294 502 |
| `arbiter` | MCArbiter | `TruthKept`, `NewestDeadYields` | 64 544 |
| `convergence` | MCConvergence | `Converged` | 39 062 |
| `backfill` | MCBackfill | `BackfillTypeOK`, `HolesHeal`, `SweepsEnd`, `ForkUnwound` | 97 392 |
| `sessions` | MCSyncSession | `SessionTypeOK`, `AnswersMatch`, `NoWaiterLeaks`, `CallsEnd` | 60 006 |
| `links` | MCPeerLinks | `NoDeadSessions`, `OneOutbound`, `SessionReturns`, `AliasesCollapse` | 341 838 |
| `feeders` | MCFeeders | `FeedersTypeOK`, `ImportComplete`, `NoInventedMiss`, `CheckpointHonest`, `CrashConsistent`, `FeedersFinish` | 208 515 |
| `pages` | MCPages | `StoreTypeOK`, `IndexExact`, `WalkFaithful`, `RecentSkipsNothing`, `WalksEnd` | 258 047 |
| `livefeed` | MCLiveFeed | `NothingElseLost`, `InOrder`, `FeedDrains` | 34 816 |

* `ingest`: at slot 1 a node that finalises x (or a miss) and peers that say y, x
  or miss, with and without parts; at slot 2 a node on either chain, legacy
  tables and an operator who forces a miss; one operation, one async message
  and one deferred call touched by both slots. Whatever the order, a stored
  block has the status its slot gives it, settled events are those of the
  verdict, a verdict changes only when the arbiter sided with the peer or the
  operator forced it, and the rows implement the ledger. The importer leaves a
  losing block called "Final" until the slot is complete, so `BlockStory` asks
  less of slots the importer writes to; a forced verdict writes no stub, so
  `GapsVisible` is asked of slots no operator forces.
* `arbiter`: two possible true chains over four periods and a fork of two
  blocks; node and peers may say anything. An indexer whose FINAL rows are true
  and without a gap is never talked out of a verdict, and the newest wrong
  verdict yields to the right one.
* `convergence`: FINAL sources agree, candidates do not; all 13 messages in all
  orders with repetitions end in the same verdict, trail hash, events, transfers
  and block statuses.
* `backfill`: a node that finalised a two-block fork before it rejoined the
  chain, and whose events may all be dropped; a peer with the whole chain that
  serves ranges, a peer behind a session that knows two slots. Every slot under
  the head that a peer holds gets its verdict and its body; no sweep hangs, also
  on a full queue; a fork is unwound within two armed sweeps once nothing else
  disturbs it.
* `sessions`: late answers, answers to calls that gave up, sessions that are
  refused or end with calls in every state and messages in every place.
  The timer covers a call from the moment its request is in the channel; a call
  that waits for room ends too, unless the pump stands still for ever before a
  full sink, which the instance reaches: without that condition TLC refutes
  `CallsEnd`.
* `links`: two probing tasks, a remote that restarts under another id and dials
  us, one failure. `NoDeadSessions` names the one exception the code has (a
  failed open of an entry that was re-keyed meanwhile).
* `feeders`: five configurations (an empty database with the importer; importer
  and pull pass over a database without bodies; each repair pass over one
  without transfer lists) and two faults. The importer's window is one the
  tables cover: `max_period` lies below what the node streams. A patch that a
  peer ships with another trail hash is refused by the writer, and a peer may
  hold less than was asked for; `CheckpointHonest` counts a slot as repaired
  (`Supplied`) when the row has all the peer ships, or refuses it for its trail.
* `pages`: every table, every route over it, page sizes 1 and 2, writes, rebuilds
  and crashes in between. A transfer to oneself may be returned on two pages
  (`db.rs` 1245): `WalkFaithful` excepts it by name, and without the exception
  TLC refutes it (see the disagreements below).
* `livefeed`: four frames, a ring and a channel of two, all six streams, one
  restart of the server.

### Disagreements with comments and documents

Three runs state what a comment or document says and show an order of events in
which the code does otherwise.

| Run | What is said | What happens |
|---|---|---|
| `early_miss` | "On miss, write nothing." (`ARCHITECTURE.md` 9.4); the live stream "Always wins" (9.2) | Without `max_period` the importer starts at the period of the first FINAL slot, looks up the other threads of that period before the node has streamed them, and records FINAL misses, against which the node's outputs are then dropped. |
| `recent_pages` | "larger result sets are traversed by following the `cursor_next` chain" (`rest.rs` 532) | A slot with more items than fit is truncated and the cursor points past it; the rest is on no page. |
| `op_status` | operations without a row "will pick up the right status once their block body arrives" (`ingest.rs` 671) | The body brings no status; it stays empty. |

Other deviations met while modelling; the models do what the code does, and the
properties are stated so as not to hide them:

* A slot that is still open between two true FINAL blocks counts as a broken
  link for `dead_fork_anchor` (`peer/patch.rs` 168), and a wrong miss can be
  adopted over a true verdict, although "Local data is kept whenever linkage is
  inconclusive" (`spec.md` 8.1). `TruthKept` asks for rows without a gap.
* "De-duplicated by primary key so a self-transfer shows up once" (`db.rs`
  1223-1224); the reader de-duplicates "so the result list stays clean"
  (`spec.md` 334-336). The set of keys seen is empty on every request
  (`db.rs` 1245, 1261-1263), so a page that ends between the two index rows of a
  transfer to oneself lets the next page return it again. With pages of one row
  `/v1/addresses/<addr>/transfers` lists each such transfer twice.
* "Every peer RPC has a 10 s timeout" (`spec.md` 722); "a slow peer should be
  skipped, not block the scanner" (`peer/client.rs` 80-81). Over a session,
  `get_final_slot` waits for room in its channel before the timer starts
  (`peer/session.rs` 75 and 85). A remote that keeps the connection and asks, but
  does not read, fills the sink; the pump then holds a reply, reads neither
  channel nor remote (`peer/client.rs` 269, 316; `peer/service.rs` 254, 285), the
  channel fills with requests that timed out, and the next call waits until the
  connection breaks. `CallsEnd` carries the condition that this does not last.
* "We do NOT skip on: `block_body_stored = true`" (`ARCHITECTURE.md` 9.4, lines
  1505-1512) describes an earlier importer: `slot_already_covered`
  (`legacy/oneshot.rs` 429-465) does skip a slot whose body is stored, and says
  why. `Feeders` follows the code, so `ImportComplete` counts such a slot as
  covered.
* The body of a losing block sets `block_body_stored` (`ingest.rs` 511), and the
  winner's body is not asked for any more.
* `handle_transfers` (`ingest.rs` 811) does not look at the verdict: a node on a
  dead fork replaces the transfers of a slot whose verdict it does not share.
* A pool SET applied after the transfers turns an Executed message back into
  Pending (`ingest.rs` 1009), although "We never downgrade a terminal state"
  (`spec.md` 7.2.1). `AsyncLeavesOnlyBySet` shows that nothing else does but a
  row a peer ships.
* In the same way a peer that has not seen a deferred call executed ships it as
  Registered, and the row is written over a terminal state stored here
  (`peer/patch.rs` 986). `DeferredLeavesOnlyByPeer` shows that nothing else
  unsettles a call.
* A losing candidate's trail hash survives a promotion without one, and the
  node's FINAL output is then dropped as divergent (`ingest.rs` 583).
* Legacy transfer rows are written over the rows of a slot without clearing
  them; the entries of the overwritten rows stay until a rebuild
  (`peer/patch.rs` 460). `IndexExact` shows that nothing else leaves entries.
* A frame that is sent between replay and subscription reaches nobody
  (`rest.rs` 2127), and one that is in the ring and not yet in the channel comes
  twice; `NothingElseLost` and `InOrder` name both. Frame ids restart with the
  server.

### Bounds

* The writer: `MaxPeriod` 2 or 3, one thread: verdicts, settlement and stubs
  concern one slot and its predecessor in the thread; the arbiter looks along
  one thread except in `block_has_dead_parent`, which treats every thread alike.
  Period 0 is included (no stub below it). Two blocks per slot: a winner and a
  loser; seven in `MCArbiter`, enough for a two-slot fork that rejoins, with and
  without a miss in it. `Lookaround` and `ReachBound` equal or exceed the number
  of periods: 512 and 64 in the code are meant never to cut a scan short either.
  Two trail hashes, one operation, message and call: a clash needs two, and the
  records do not interact with each other.
* `backfill`: windows of two periods, so that a sweep has two and the last
  reaches period 0; a range limit of two rows, a sparse threshold of two and a
  queue of two, so that each of the paths is taken and the queue fills; two
  sweeps of rechecks; one fault, at any point.
* `sessions`: two calls on two sessions, so that they share one or the second
  outlives the session of the first. Channels of one message, where the code has
  32, so that every channel fills with two calls and two requests of the remotes.
  The theorems are for any numbers.
* `links`: two bridges, so that a session can be lost and return, or be met by an
  inbound one; one change of id, one failure. With three bridges the states grow
  about tenfold and nothing new happens: a session never refers to another one.
* `feeders`: lanes of two, two attempts per lookup, two lookups at a time,
  windows of one period, checkpoints every second period, two faults: a lookup
  that fails for good and a restart, two restarts, or a crash after either.
* `pages`: two slots or three ids per table, page sizes below and above the
  number of rows of a slot, `max_slots` and batches of two.
* `livefeed`: ring and channel of two and four frames, so that both overflow.

No symmetry is used (blocks, peers and keys play different roles).

### Fairness and deadlock

Weak fairness is stated for what is a loop of a task the runtime schedules: the
walker, the writer, the consumer loops, the importer, each repair pass, the
pump and probe tasks, a caller whose timer runs, the task that writes an SSE
response. The opening of a session ends, one way or the other, because the
endpoint has a timeout (`client.rs` 127); a caller in front of a full channel has
no timer, and its send is fair only when there is room. A probe gets strong fairness, because the cached health it may use
instead expires (`HEALTH_CACHE_TTL`). The node's streams are finite in the
instances, so that the live lane runs empty; under an endless load the code
starves the bulk lane by design. `WalksEnd` assumes a client that goes on
asking and a server that is not stopped for ever again. No fairness is assumed
for failures, restarts, remotes that read, ask or answer, or connections that
break; the
faults are bounded, which makes every liveness property one about what happens
once they stop.

`CHECK_DEADLOCK FALSE` is set where the system may come to rest: when all
events are lost (`backfill`), all calls are over (`sessions`), all tasks ended
(`feeders`), all rows written and read (`pages`), all frames sent (`livefeed`).

## 4. Proofs

For all values of the constants (any number of periods, threads, blocks,
messages, sessions, calls, rows and frames; any parents; any set of
contradictory messages; any page, batch, ring, channel and lane sizes; any
windows, ranges, checkpoint intervals and numbers of faults):

| Theorem | Module | Says |
|---|---|---|
| `TypeCorrect` | SlotIngestProofs | `Spec => []TypeOK` |
| `OpHistoryHolds` | SlotIngestProofs | `Spec => OpHistory` |
| `DeferredLeavesHolds` | SlotIngestProofs | `Spec => DeferredLeavesOnlyByPeer` |
| `AsyncLeavesHolds` | SlotIngestProofs | `Spec => AsyncLeavesOnlyBySet` |
| `VerdictShapeHolds` | SlotIngestProofs | `Spec => []VerdictShape` |
| `BlockStoryHolds` | SlotIngestProofs | `Spec => []BlockStory` |
| `FirstFinalWinsHolds` | SlotIngestProofs | `Spec => FirstFinalWins` |
| `BitsKeptHolds` | SlotIngestProofs | `Spec => BitsKept` |
| `ExecMatchesHolds` | SlotIngestProofs | `Spec => []ExecMatchesVerdict` |
| `GapsVisibleHolds` | SlotIngestProofs | `Spec => []GapsVisible` |
| `LedgerImplemented` | SlotIngestProofs | `Spec => ImplementsLedger` (refinement) |
| `TruthKeptHolds` | ArbiterProofs | `Spec => []TruthKept` |
| `NewestDeadYieldsHolds` | ArbiterProofs | `Spec => []NewestDeadYields` |
| `ConvergedHolds` | ConvergenceProofs | `DeliverySpec => []Converged` |
| `FeedersTypeHolds` | FeedersProofs | `TablesCover`: `FeedersSpec => []FeedersTypeOK` |
| `CrashConsistentHolds` | FeedersProofs | `TablesCover`: `FeedersSpec => []CrashConsistent` |
| `NoInventedMissHolds` | FeedersProofs | `TablesCover`: `FeedersSpec => []NoInventedMiss` |
| `ImportCompleteHolds` | FeedersProofs | `TablesCover`: `FeedersSpec => []ImportComplete` |
| `CheckpointHonestHolds` | FeedersProofs | `TablesCover`: `FeedersSpec => []CheckpointHonest` |
| `SessionsTyped` | SyncSessionProofs | `SessionSpec => []SessionTypeOK` |
| `SessionsSafe` | SyncSessionProofs | `SessionSpec => []AnswersMatch` |
| `WaitersEnd` | SyncSessionProofs | `SessionSpec => []NoWaiterLeaks` |
| `OneOutboundHolds` | PeerLinksProofs | `LinksSpec => []OneOutbound` |
| `NoDeadSessionsHolds` | PeerLinksProofs | `LinksSpec => []NoDeadSessions` |
| `StoreTypeCorrect` | PagesProofs | `PagesSpec => []StoreTypeOK` |
| `IndexExactHolds` | PagesProofs | `PagesSpec => []IndexExact` |
| `WalkFaithfulHolds` | PagesProofs | `PagesSpec => []WalkFaithful` |
| `RecentSkipsNothingHolds` | PagesProofs | `PagesSpec => []RecentSkipsNothing` |
| `NothingElseLostHolds` | LiveFeedProofs | `FeedSpec => []NothingElseLost` |
| `InOrderHolds` | LiveFeedProofs | `FeedSpec => []InOrder` |

### 4.1 Assumptions

All are on constants, named, and evaluated by TLC in the runs. `TablesCover` is not
assumed: it is a hypothesis of the theorems about Feeders, because the code
does not see to it, and the run `early_miss` shows what happens without it. It
asks nothing of an indexer that does not import.

* The writer: `StoreAssumption` and `AbsentAssumption` (constants are of their
  types, an absent value is no value), `ArbiterAssumption`, `MessageAssumption`
  (messages are typed; a FINAL message names a miss or a block of its slot). The
  last part leaves out what a sender that runs this code cannot say: a FINAL row
  is shipped with its verdict (`build_final_slot_response_from_state`), and the
  importer takes the id from the block it read. The receiver does handle a FINAL
  message whose block id is missing or does not parse, and makes of it a FINAL
  row without a block (`peer/patch.rs` 373-383, 544-554; `ingest.rs` 649-653); such
  a row is no miss and names no block, and `VerdictShape` does not hold of it.
  `LedgerAssumption` (the two ledger marks are not verdicts).
* `ChainAssumption`: the sequences of verdicts in question are chains. Nothing is
  assumed of what node and peers say.
* `TruthAssumption`, `AgreementAssumption`: of a slot the convergence is about, the
  FINAL frames, transfer lists and patches name the chain's verdict, and the
  node does finalise it. The trail hash is the delicate part: a patch that
  carries none leaves that of a candidate frame in the row it finalises, and
  the node's FINAL frame is then refused. So either candidate frames carry the
  trail of the FINAL execution, or every patch brings it along; and a patch that
  ships output brings it, or some peer does.
* `FeedersAssumption` (types, positive sizes, the forced verdicts fit into the
  lane they are queued on) and `SourcesAgree`: the sources, and the database an
  earlier run left, are on one chain; the legacy tables return the slot that was
  asked for, with a body.
* `SessionAssumption`; `LinksAssumption` (a configured name is no peer id, an
  advertised URL is not a configured one, absent values are no values).
* IndexStore's `StoreAssumption`: rows have the fields their keys are made of; a
  block or endorsement id is a hash of the contents, so that two rows under one
  id are the same row, and of an operation only the inclusions may differ;
  `index_in_slot` counts the rows of a list. `KeyAssumption`: `None` is not an
  entry. `RecentAssumption`: page and batch sizes and `max_slots` are positive, a
  slot row leads to a list of items and is filed under its slot alone.
* `FeedAssumption`: ring and channel hold at least one frame; every frame has one
  of the types `sse.rs` has.

### 4.2 Arguments

**The writer.** `BlockStory` is not inductive alone: a promotion by a node's miss
keeps the old `final` field, so one must know that an open row has none, and a
loser is only settled if it is listed among the candidates of its slot. The
inductive invariant is `StoryInv == TypeOK /\ VerdictShape /\ BlockStory`; each
handler is shown to write one row of the right shape and to settle the blocks by
it. For the ledger every handler is shown to have one of three outcomes for the
slot of its message: it keeps the verdict, the trail hash and the settled
events; it settles an open slot; or it overrules, with the permission of the
arbiter or of the operator. All other slots keep their rows, but for a fresh
stub below. `FirstFinalWins`, `BitsKept` and the refinement follow from that.
`ExecMatchesVerdict` needs in addition that an open slot has no FINAL output
(`ExecInv`): otherwise events of a candidate could be those a later verdict
settles. `OpHistory` and the two rules on messages and calls need the types
only, and are shown handler by handler.

**The arbiter.** From `StoryInv`. The scans are extreme members of sets of periods,
and the parent walk is a recursive function; both are reasoned about with the
least-number principle, from the well-foundedness of `<` (`LeastNumber`,
`MinOf`, `MaxOf`), since an induction theorem with an operator parameter cannot
be used. `TruthKept`: if the rows are the chain's and have no gap, the next FINAL
block names the local one, the parent path of a chain's block stays on the
chain, so no link of the segment is broken and no layer sides with the peer.
`NewestDeadYields`: the next FINAL block then names the peer's block, or, if the
peer says miss, the first link after the slot is broken and gives an anchor.

**Convergence.** `ConvergenceInv == StoryInv /\ UsedAgree /\ SeenTold`: what a row
says agrees with the chain, and every message that was delivered has left its
trace (`SeenTold`, one kind of trace per kind of message), which no later message
removes. When all were delivered the traces add up to the reference.

**Feeders.** A crash in the middle of a handler leaves rows in which `StoryInv`
does not hold until the next write: a block settled while its slot is still open,
events of an output whose row was not written. What survives is `TruthInv`:
whatever a row, an event or a block status says is true of the chain. Every
handler, and every prefix of the writes of `handle_exec` and `handle_block`, is
shown to keep it, and to take nothing from a FINAL row (`Grows`). On top of it,
`FeedersInv` keeps accounts: what is queued names the chain's verdicts; what the
earlier run settled still stands (`BootKept`); a slot that a pass has reached and
that needs the repair is repaired, waits on the lane, is given up, or is still
in the hands of the pass (`PassInv`), and if the checkpoint has passed it, it is
one of the first three (`CkptInv`); a slot of the importer's window is covered,
waits on the lane or is in hand, unless the sweep is marked as failed and will
be repeated (`ImportInv`). A patch that waits does what it was queued for when
it is applied (`PatchDone`), although the row may have changed since it was made;
a restart moves what waited to `given_up`. `CheckpointHonest` and
`ImportComplete` are not inductive by themselves: the places of the tasks and
the contents of the lane carry them. `FeedersInv` was checked with TLC on the
instance of the run `feeders` before it was proved.

**Sessions.** A request gets its slot on the wire from its correlation id, so the
channels before it matter to the typing alone. The invariant must say what
travels: `Carried` (a message names
the slot its call wants) and `Placed` (and the bridge the call uses), so that an
answer can only complete the call with its id; `NoWaiterLeaks` is needed to know
that the call behind a waiter is still running.

**Links.** `OneOutbound` rests on `Owned`: a bridge that is being opened or pumped
has one handle. For `NoDeadSessions`, `Listed` says of a bridge in the registry
that its opener still knows the key it is under, until the key is changed: then
the opener clears the wrong entry, the one exception the property names.

**Indexes.** A batch deletes entries as well as writing them, so one must know
that it deletes no other row's: every entry leads back to the row it was made
of, and rows lie under their own keys (`Placed`). `JobFresh` says that what the
writer has still to write falls on cleared rows, unless it is a legacy batch;
`ToolInv` says how far the rebuild has come, so that its last step leaves an
exact index and a crash within it one that is marked as not intact.

**Pages.** `Received`: a row that did not change is received or its entry lies
past the cursor, and a row that was received lies behind it. `Collecting` says
the same within a page, where the cursor is the last entry read and the entries
to come are those the iterator saw when it was opened. Keys sort strictly, so
nothing lies on both sides. The exceptions are those of `WalkFaithful`: a
transfer to oneself and the entries a legacy batch left. For the recent lists
`RecentInv` says that of slots; the batch is the rows of the first ranks below
the position, and that these are all rows down to the last of the batch is a
counting argument (`RanksFill`, by the pigeonhole principle).

**Live feed.** `RingTail`: the ring is the newest frames without a gap, so a replay
is a suffix of it. `Line` lays what the client has received, what it will
replay, what its channel holds and the frame between ring and channel in one
ascending line, with the one doubled place the code allows (`seam`).

### 4.3 Only model-checked

* Liveness under fairness (`HolesHeal`, `SweepsEnd`, `ForkUnwound`, `CallsEnd`,
  `SessionReturns`, `AliasesCollapse`, `FeedersFinish`, `WalksEnd`, `FeedDrains`),
  ENABLED, and what a recursive definition computes for every input are out of
  the prover's reach.
* `BackfillTypeOK`: the walker keeps the slots it still wants in order
  (`needy.retain` in `range_fill_window_opts`, the filter of `stream_final_slots`),
  which is `SelectSeq`, and the provers know nothing of `SelectSeq`.


## 5. Not modelled

* Within the writer: which operation a transfer is attributed to
  (`handle_transfers`, second pass), metrics. Where a repaired transfer is put
  within its slot (`repair.rs` 501).
* `resolve_block_status` (`rest.rs` 340-368), the one row write outside the
  writer: a repair that falls between its read and its write is undone for that
  block. Listed as a hazard.
* FINAL messages without a valid block id (4.1).
* Of the routes with a cursor: `slots_range` (`rest.rs` 598-651), a plain reverse
  scan of the slot rows, whose first page may start at a given period;
  `block_operations`, `block_endorsements`, `block_denunciations` (`rest.rs`
  1192-1331), whose cursor is an offset into a list of one block row, which a
  block id fixes. Of those without: `slot_transfers` and `block_transfers`
  (`rest.rs` 411-448, 487-525), a union of bounded lists by slot or block and by
  operation, sorted and truncated.
* In `Feeders`, single rows of a transfer list: `legacy_sub` remembers the ids of
  the rows it found (`repair.rs` 499-515) and writes those that are missing; in
  the model a list is there or not as a whole.
* Node queries for addresses, bytecode and names; single-row lookups, search,
  charts, exports: a read and an answer.
* The meta row and the schema version, raw dumps and `verify`.
* Byte encodings, identifiers, HTTP, request signing, the decoding of DynamoDB
  items, configuration, metrics, the user interface: data without state, or
  input and output.

## 6. Plan

Done: all modules above and the 30 theorems; every invariant and action property
of the passing runs but `BackfillTypeOK` is proved. Left:

1. `BackfillTypeOK`, once `SelectSeq` can be reasoned about.
2. `resolve_block_status` beside the writer, as two steps of a REST task.
3. The transfers of a block and of a slot (`block_transfers`, `slot_transfers`) as
   a reader of several lists beside the writer.
4. The attribution of transfers to operations, as a fold against a reference.
