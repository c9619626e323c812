# Tickoni and its Firedancer substrate in TLA+

Tickoni (`src/src/tickoni`, `src/src/app/tickoni`) runs a payment pipeline as
eight *tiles* under a supervisor. The tiles are threads that talk through
lock-free queues (thread mode), or processes that talk through Firedancer's
Tango shared memory (process mode). This project models the parts where threads,
processes and the supervisor meet, and two parts of the Firedancer validator in
the same tree: the concurrent element pool (`util/tmpl/fd_pool_para.c`) and the
voting logic (`choreo`, `discof/tower`). It model-checks them with TLC on small
instances, and proves the most important results with TLAPS for every instance.

`PROJECT.json` has the machine-readable side: which lines of the source each
definition stands for (`map`), the runs, a faulty variant of the code for every
property (`mutants`), the hazards, the findings and the theorems.

## 1. The system and its parts

| part | state | operations | models |
|---|---|---|---|
| `BoundedQueue` (`tiles/payment_pipeline/queue.zig`) | ring, head, tail, closed, high-water mark | push, pop, close | `BoundedQueue` |
| Tango link (`runtime/link`, mcache, dcache, fseq, fctl) | metadata ring, payload slots, consumer progress, cached credits | publish, publishLossy, consume | `TangoLink` |
| Payment pipeline, thread mode (`tiles/payment_pipeline`) | four queues, dedupe table, audit log, replay verdict, counters, stop and crash flags | eight stage functions, requestStop | `PaymentPipeline` |
| Payment pipeline, process mode (`tiles/payment_pipeline/process.zig`) | per-process tables and counters over Tango links | five stage functions | the links only, in `TangoLink` |
| Tile process (`runtime/tile_process.zig`) and supervisor (`app/tickoni/supervisor.zig`) | cnc signal and heartbeat, child processes, tile handles | boot, work, heartbeat loop, spawn, refresh, stop, reap, kill | `TileLifecycle` |
| Element pool (`util/tmpl/fd_pool_para.c`) | versioned top of a free stack, bump allocator, links in the elements, lock bits | acquire, release, release_chain, lock, unlock, reset | `PoolPara` |
| Fork choice (`choreo/ghost/fd_ghost.c`) | tree of blocks with stakes and validity | insert, count_vote, publish, confirm, eqvoc, best | `Ghost` |
| Vote tower (`choreo/tower/fd_tower.c`) | votes with confirmations, root, block table | push_vote, lockout, switch and threshold checks, vote_and_reset, reconcile | `Tower`, `TowerTile` |
| Vote tally (`choreo/votes/fd_votes.c`) and tower tile (`discof/tower/fd_tower_tile.c`) | stake per block, confirmation flags, published confirmations | replayed block, vote transaction, equivocation proof, new root | `TowerTile` |
| Topology, registry, launch spec, CPU placement | static descriptions | validate, encode, decode | not modelled |
| Audit schema and codec | records | frame, hash, parse | not modelled |
| Policy, agent, model, tool, adapter and replay tiles | one investment run | propose, decide, execute, record, replay | not modelled |
| Consumer-money schemas, doctor, demo | none shared | arithmetic, command line | not modelled |
| The rest of Firedancer (`disco`, `flamenco`, `waltz`, `util`, ...) | the upstream validator | - | not modelled |

How they interact: the supervisor starts the tiles and is the only one to stop
them. In thread mode a stop is a flag and four closed queues, in process mode it
is a HALT in each tile's cnc, which the waits inside `publish` and `consume`
look at. Messages flow tkings → tknorm → tkdedu → tkpoly → tkaudt; tkrepl
recomputes the audit log when tkaudt is done; tkmetr and tkdiag watch until
tkrepl has a verdict. The tower tile is one thread: replay hands it blocks, gossip
and replay hand it votes, and it keeps three structures (ghost, tower, tally) in step.

What makes it hard: the two ends of a queue or link read each other's indices
while they move; a stop arrives as several stores and from several callers; a
tile can fail or die between any two of its steps; the supervisor judges a
process by a heartbeat that is stale by nature. The pool follows links that their
owner may overwrite; the tower tile must agree with itself whatever the order in
which blocks, votes and proofs arrive. `PROJECT.json` lists these
hazards at the lines where they bite.

## 2. Modules

**FifoChannel** is the abstract promise of both transports: `sent` counts
accepted messages, `out` is what has been delivered. `Send` needs room, `Receive`
delivers the oldest message.

**BoundedQueue** has one action per shared load or store of `push` (closed; head;
slot; high-water mark; tail), `pop` (tail; slot; head; closed; stop), `close` and
`requestStop`. A message is its number, so order and identity are all that is
kept. The atomics are acquire and release, so program order is what the other
side sees.

**TangoLink** has one action per shared access of `publish` (credits; two payload
words; invalidate, fill and stamp of the metadata line), `consume` (poll;
metadata; two payload words; re-check; credit) and of the waits. Either process
may die at any step and HALT may come at any time. `Lossy` selects
`publishLossy`. A payload is two words so that a copy can be caught half way;
`Torn` stands for a copy that is no single message.

**PaymentPipeline** composes the eight stages over four queues. The queues keep
the separate loads that matter to the stages: emptiness, then closed and stop;
closed, then room, then stop. What a load-by-load queue adds is shown once, in
`BoundedQueue`. Message contents follow `syntheticPayment`, so duplicates,
malformed and over-limit payments appear where the code puts them.
`stableEventHash` is the tuple of the hashed fields (no collisions), and the
`prev_hash` chain is modelled by its effect: a record differs when any earlier
one does. `requestStop` is five stores, by any of its three callers.

**TileLifecycle** has the cnc's signal and heartbeat words, the process table and
the handles. A tile's boot handshake is three accesses; `stopProcess` is split
where tiles can run in between: refresh, HALT per tile, grace period, kill,
wait. Time is young or old, plus the wall-clock stamp of a new cnc, which is
never old. Processes end by themselves, with a code, or by a signal.

**PoolPara** has one action per access to a word other threads write: the top (read,
compared and swapped), the link of an element, the bump allocator's word and the
two lock bits. An element's holder may keep anything in its link (`Junk`), which is
what makes a stale read dangerous. `held`, `stack` and `sawEmpty` are history
variables. `lazy` is `POOL_LAZY`. `reset` is one step: its caller holds the lock,
so a swap from an earlier read fails whichever of its stores have been seen.

**Ghost** and **Tower** are the operations of fork choice and of the tower as operators on
a record and on a sequence. **TowerTile** composes them with the tally: one action per
frag handler, each the whole of what the single-threaded tile does with it, from
the insertion of a replayed block through counting, confirming, deciding, voting and
publishing a new root. `crit` records which assertion of the code would have ended
the process. A block is a slot and a version; hashes are otherwise not modelled.
`Init` chooses the tree of blocks and what each voter votes for (`Honest`: voters
other than us keep the tower rules, by block). `VoteAccount` stands for the vote program: the on-chain
tower of a voter in a block is the one that its newest landed vote left.
**MCTower** gives the clusters of the runs.

**BoundedQueueProofs**, **TangoLinkProofs**, **PaymentPipelineProofs**, **TileLifecycleProofs**,
**PoolParaInv**, **PoolParaProofs**, **TowerProofs** and **TowerTileProofs** hold the theorems
(section 5).

Definitions introduced as wrong variants are not part of a specification. Each is the
code with a plausible slip; `PROJECT.json` names the property that catches it.

## 3. Runs

| run | instance | shows |
|---|---|---|
| `bounded_queue` | 2 slots, 5 messages | order, high-water mark, refinement of `FifoChannel`, both sides return |
| `tango_reliable` | depth 2, 6 messages, message 5 above the mtu, deaths and HALT anywhere | whole messages in order, credits never optimistic, refinement, every message before the refused one (or stamped before the producer died) is delivered, HALT releases every wait |
| `tango_lossy` | depth 2, 6 messages, deaths and HALT anywhere | the producer never waits; `dropped` covers what is lost |
| `pipeline_clean` | 5 payments, depth 2, duplicate and malformed | the audit log is what the configuration determines, record by record; tables fit, a complete log gets a match, counters in order, last metrics final, all return |
| `pipeline_faults` | 2 payments, depth 1, tkings fails at the second, stop at any time | a match means complete, verdict final on the abort path too, tkdiag sees the crash |
| `pipeline_returns` | depth 1, tkings crashes at its third payment with two under way | every tile returns |
| `lifecycle` | 2 tiles that may block, one may crash | stale tiles are got rid of even if the stop hangs on another, stop returns otherwise, no process left behind, handles tell the truth, a clean exit before the deadline counts |
| `pool_para` | 2 threads, 2 elements, 5 calls, with and without `POOL_LAZY` | no element twice or lost, links are the stack, corruption checks silent, NULL only from an empty pool, calls return |
| `tower` | 3 voters, 4 trees, slots 0-5, slot 2 in two versions | no assertion fails, ghost's stakes are those of the votes counted, votes in the tower on one fork, a confirmed block wins over its sibling, the root only advances, along one fork, and tower and ghost agree on it, switching only on proof |

Runs that show a disagreement between the code and its own words:

| run | what happens |
|---|---|
| `pipeline_tail` | `pop` looks at tail, then at closed. A push and a close in between leave the message in the queue: an undisturbed run may audit fewer events than it produced, against the supervisor's test. |
| `lifecycle_halt_lost` | A HALT between a booting tile's query and its RUN is overwritten; `stopProcess` never returns. |
| `tower_reconcile` | After a restart the on-chain tower's root may be ahead of the snapshot. `fd_tower_reconcile` moves the tower's root and clears its table below, ghost stays; a fork replayed later has its parent in ghost and not in the table, and `FD_TEST( parent_tower_blk )` fails. |

### Bounds

The ring instances have at least twice as many messages as slots, so every slot
is reused and the full and empty cases both occur. `pipeline_clean` has five
payments because offset 3 is the duplicate and offset 4 the malformed one; the
over-limit payment at offset 7 is out of reach, so the limit is set to 1000, which every
payment but offset 0 exceeds. The runs with a stop are
smaller because every store of `requestStop` interleaves with every stage. `pipeline_returns` has
two messages under way and queues of one slot when tkings crashes, the least with which a
stage can wait at a full queue whose reader has left; the variant of `push` that
ignores `closed` there hangs in it. `pipeline_faults` lets the supervisor's stop come at any moment
as well, for safety only; that `push` and `pop` leave whenever a stop comes is `BothReturn` of
`bounded_queue`. In these two runs the audit log has at most two records, so
`AuditPrefix` is checked in `pipeline_clean`, and proved for every run with and without a stop
or a crash. Two tiles are enough for the lifecycle:
tiles share nothing but the supervisor's place, and one must be able to hold up
the stop of the other; both may block, so that one can be stale and the other not. Counters are bounded by the number of messages; u64
sequence numbers do not wrap within a run.

Five pool calls are enough for the classical ABA: one thread reads the top and its
link, the other acquires twice and releases the first element again. Versions do
not wrap within a run (`PoolAssumption`): in the code they have 21 bits unless a user of the template says otherwise, and a thread
would have to sleep through all of them.

The tower has two votes instead of 31 and the threshold depth is 2 instead of 8, so that
votes expire and roots appear within six slots; `TowerProofs` has `push_vote` and the
lockout check for every depth, `TowerTileProofs` the accounts of ghost for every cluster.
The four trees are a chain with a second version of slot 2 beside it, the same with a block on
that version, a minority fork from the snapshot, and two interleaved forks. Stakes of 1, 3 and 2
put every threshold of the code between two sets of voters. In `tower` our on-chain root is
never ahead of the tile's; `tower_reconcile` is the instance where it is.

Runs set `CHECK_DEADLOCK FALSE` where a system that has finished stops.

### Fairness

Weak fairness of each thread or process: a stage never blocks in the kernel, its
waits are yields or bounded sleeps. A crashed or blocked process has no enabled
step, so fairness asks nothing of it. A called `requestStop` or `stopProcess`
runs on. Nothing obliges anyone to call it. In `TileLifecycle` the work of a
tile is only obliged to end once HALT is up in its cnc, which is what
`TangoLink`'s `HaltReleases` shows for the waits inside that work.

In `PoolPara` a thread inside a call keeps running, and the owner of the lock gives it back. A swap can lose to
others for ever in principle: the pool is lock-free, not wait-free, and `CallsReturn` holds because
the number of calls is bounded. What it shows is that no call waits for
something that nobody will do. `TowerTile` has no liveness property: nothing obliges
the cluster to send anything.

## 4. What is not covered by the properties

* `stopProcess` waits without limit for a tile that blocks and was not stale when
  the stop began. `StopReturns` names this exception; `StaleTilesEnd` says that the tiles to be
  killed are killed all the same.
* The stamp of a new cnc is wall-clock time, compared with a monotonic clock (`topob.c:202`). A slow
  boot is therefore never called stale, and a tile that hangs in its boot never noticed. `GoesStale` has
  it; such a hang is not a behaviour of the model, and no property is about it.
* A lossy producer overwrites the payload before it touches the metadata line
  (`producer.zig:110`), so the consumer's re-check, which "guards against a slow copy
  racing a fast producer wraparound" (`consumer.zig:73`), passes on a mixed copy. `publishLossy`
  has no caller yet: this concerns its first user. `TangoLink` has the case as `Torn`.
* A stale tile that exits with 0 after the last reap and before the kill counts as
  force-terminated and stays stale (`supervisor.zig:608`, against the comment at 428-430).
  `GraceHonoured` speaks of exits before the deadline.
* With `POOL_LAZY` (used in `flamenco/accdb/fd_accdb_private.h`) `acquire` looks at the stack and at
  the bump allocator at different moments. If an element is released in between and the last
  lazy one acquired, it returns NULL although the pool was never empty, which the header of
  `fd_pool_para.c` excludes. `NullMeansEmpty` is about the pool without it.
* The walk that confirms ancestors stops at one that has no tally (`fd_tower_tile.c:650`), so
  confirmations can be published with gaps, against `fd_tower_tile.h:70-76`.
* `threshold_check` counts the accounts of the block just replayed, whichever fork the block we want to vote for is on.
* A lapped lossy consumer polls for a sequence number that never comes back, until HALT.
* A tile that exits with a code and is called stale before it is reaped stays stale,
  and the code is dropped (`updateHandleForOutcome`). `VerdictsTrue` allows it for a tile that
  was silent when the stop began, and for no other.
* A failed start detaches the workspace twice; the second call only logs.
* tkmetr's and tkdiag's snapshots before the last have no effect and are left out.

## 5. Proofs

TLAPS proves, for every capacity, depth, number of messages, set of tiles, voters and blocks:

* `BoundedQueueProofs`: `TypeOK`, `FifoDelivery`, `HighWater` and the refinement of
  `FifoChannel`. Delivery is not inductive: the reader trusts a slot that was
  written long before. The strengthening `RingInv` says that each message from
  head to tail is in its own slot, and that what either side has loaded remains
  good enough: the producer's head can only be too old, which is safe.
* `TangoLinkProofs`: `TypeOK`, `LinkInv`, `ReliableDelivery`, `CreditsConservative`,
  and the refinement. `LinkInv` says that messages in flight are whole, that no
  line carries a number still to come, and what half-written and half-read lines
  look like. Credits enter as the reason why the writer's line is never one the
  reader may be on. On the lossy link, `DroppedCoversLoss`: the count of drops is never behind
  what has been overwritten, because the writer counts before it overwrites (`LossInv`).
* `PaymentPipelineProofs`: every safety property of `PaymentPipeline`, that is `TypeOK`,
  `AuditPrefix`, `TablesFit`, `CountersOrdered`, `MatchMeansComplete`, `CompleteMatches`, and the
  action properties `VerdictFinal`, `LastMetricsFinal` and `LastDiagShowsCrash` (these two where the
  observer exists), for every number of events and capacity, with a crash at any event and a stop at any step.
  The inductive invariant `IInv` has two halves. `Flow` says where the events are: queue `q` holds
  exactly the events between two positions, each as the tiles before it left it (`Stage`), the table of
  `tkdedu` holds the keys of the valid events it has passed, the audit log is what the whole
  line makes of its first events, and each counter is the position it counts. That `AuditPrefix`
  needs all of it is the point: a duplicate is judged by what the table held when the event came by.
  The other half says how a run ends: only `tkings` crashes (`CrashInv`); before `stop`, a
  queue is closed by its producer alone, after its last event (`StopInv`); what `tkrepl` knows at each
  place (`VerdictInv`); what lets an observer leave (`ObservedInv`). TLC checked `IInv` on the three
  pipeline instances before it was proved.
* `PoolParaInv`, `PoolParaProofs`: `OnePlaceEach`, `LinksAreStack`,
  `NeverCritical` and `NullMeansEmpty` for every number of threads, elements and calls, with and
  without the bump allocator. None is inductive: what a swap writes was read several steps
  before. The strengthening says, call by call, what the locals still mean: as long as the
  version a thread saw is the current one, the top it saw is the top and the link it read is
  the next of the stack (`AcquireInv`, `ReleaseInv`); a version seen is never ahead of the
  current one, and an older one never comes back (`VersionInv`, `Stale`); the lock bits are set exactly for the
  thread that owns the lock (`LockInv`); and an acquire about to answer NULL has seen the pool empty
  (`SawInv`). `PoolParaInv` states it and proves the simple steps, `PoolParaProofs` the successful
  swaps, the rest and the theorems.
* `TowerProofs`: for every depth, `push_vote` keeps slots rising and confirmations falling
  (`PushVoteInOrder`), and forgets a vote only when it has expired or as the new root
  (`PushVoteKeepsLockouts`). The argument is about the point up to which confirmations are
  consecutive: below it a vote has room, because its confirmations differ from the least possible.
  `lockout_check` looks at one vote only, the top one that has not expired; `LockoutHonoured` says that this is
  enough: a slot that passes descends from every vote still locked and every vote kept.
  `LockoutKeepsOneFork` and `TableKeepsOneFork` say that voting, and adding and dropping blocks, leave the
  votes on one fork, which is what the check relies on. These three are about any tower on one fork,
  not about the reachable states of `TowerTile`: the votes reconciled from our account on chain
  do not pass the check. The module also has the lemmas about `Ghost`: each operation
  keeps the accounts right (`Sound`).
* `TowerTileProofs`: `GhostStakes` is an invariant of `TowerTile` for every set of voters, stakes, blocks,
  trees and ballots. The inductive invariant `GhostInv` says that ghost is empty until
  the snapshot is replayed, and then a tree of replayed blocks with right accounts. The proof goes handler
  by handler and, inside, fold by fold: counting the accounts of a block, the older votes of a transaction and the
  ancestors of a confirmed block each keep the accounts right. TLC checked `GhostInv` on the `tower` instance
  first.
* `TileLifecycleProofs`: `TypeOK`, `NoOrphans`, `VerdictsTrue`, `GraceHonoured`.
  The strengthening says when a handle gets its verdict
  (exactly when the child is reaped, and then for good), that a forced tile
  is one whose handle says stale, and that after the stop has begun no handle becomes stale any more.
  `GraceHonoured` speaks of two moments, an exit and the end; `Safe` is what
  connects them: from the exit on, the deadline is still to come, or the tile has been reaped, or
  it is not one of those to be killed.

Assumed: a capacity or depth is a positive power of two (`PaymentPipelineState.init`
refuses others, `create` asserts it), numbers of messages are naturals, hooks name existing tiles; versions of the pool's top outlast
the number of calls; voters are finitely many and have stake (`StakeAssumption`); a block has a
parent of an older slot and an id that is not null, and a voter has voted finitely often (`ClusterAssumption`).

How the proofs induct: the library's induction theorems take an operator as a
parameter and cannot be instantiated by the provers, so an induction is an argument about a least counterexample
(`CountUp` over numbers, `GrowSet` over finite sets), written out where it is needed. A fold over a
set is a recursive function, whose existence is shown first, by approximations
up to a size. Facts about finite sets enter the long proofs as one hypothesis, `Counting`, which the
end of each module derives from `FiniteSetTheorems`; with the library in scope throughout, every
step would be slower.

Only model-checked:

* liveness, and whatever needs `ENABLED`: out of the prover's reach;
* of `TowerTile`, `TypeOK`, `NoAssertionFails`, `VotesOnOneFork`, `ConfirmedWins`, `RootAdvances` and `SwitchesOnProof`.
  `NoAssertionFails` and the part of `RootAdvances` about the tower's own root are true of the
  cluster of the `tower` run and not of all: in `tower_reconcile` the tower's root runs ahead of
  ghost's. `ConfirmedWins` rests on the cluster never confirming two versions of a slot, an
  assumption about ballots that the instance meets and `ClusterAssumption` does not make. The others
  need an invariant that ties tower, block table and ghost together;
* the findings, which are counterexamples.

## 6. Not modelled, and why

* In the supervisor, answers of the operating system that need a fault of its own: `waitProcess` failing (the handle
  becomes crashed with `exit_code`, `supervisor.zig:487-493`), a reap that finds the child detached or
  fails (`.detached`, `.failed`, 472-475: no verdict), and wait results other than an exit or a signal
  (`.stopped`, `.unknown`, 451-458: crashed with `exit_code`). `VerdictsTrue` says nothing of them.
* Process mode of the pipeline: the stage functions are the thread-mode ones; what differs is
  the transport, which `TangoLink` covers, and counters that each process keeps for itself.
* `joinThreads` and the metric snapshots of the supervisor: copies of values that
  `PaymentPipeline` and `TileLifecycle` have.
* Several receivers per link (`fd_fctl`, slow-receiver accounting) and `tcache`: Tickoni's links have one receiver.
* Topology validation, CPU placement, audit framing, policy rules, schemas: sequential functions of
  their input, whose definition would be their own specification.
* The investment run (agent, model, tool, adapter and replay tiles): straight-line code in one thread
  around external services.
* In the tower tile: validation of vote transactions, epoch changes, identity changes (our authority is taken to match), hard-fork detection,
  the assembly of equivocation proofs (a verified proof is an event), capacities of the pools of ghost and
  tally, and the tower file. The tile boots with an empty tower. Stakes recorded for the older version of a slot
  are removed when another version is replayed even if that block is then ignored (`fd_tower_stakes_remove`,
  `fd_tower_tile.c:1235`); the model keeps them in that case, which only matters to `switch_check`.
* The rest of Firedancer: execution, networking, storage, cryptography, hardware. It is far larger
  than what a project like this can follow line by line; the two parts taken are those where
  interleaving and order decide correctness.
