# Verification of the ordpool backend

TLA+ models of the stateful core of ordpool (a fork of mempool.space with an
indexer for digital assets), their model checking with TLC, and proofs checked by
the TLA+ proof system. Every definition that models code names its lines in
`PROJECT.json` ("map"); paths below are relative to `src/backend/src` unless they
begin with `src/`.

## 1. The system

One Node.js process (the backend) follows a Bitcoin node. It is single threaded:
two handlers interleave only at an `await`, a timer, an event or a crash. Almost
everything it knows is in memory and rebuilt from files, Redis, MariaDB or the node
after a restart. Browsers hold a websocket to it and ask its HTTP routes. Next to
it runs, now and then, a script that shares its tables.

    bitcoind / esplora --> main loop (index.ts)
                             |-- blocks.ts ---------> MariaDB tables <---- backfill script
                             |-- mempool.ts              ^   ^   ^              ^
                             |      | add/evict/mined    |   |   |              |
                             |      v                    |   |   |        calendars
                             |   rbf-cache.ts --events--> Redis  |              |
                             |      | dump/load          (mirror)|        OTS poller
                             |      v                            |
                             |   disk-cache.ts                   |
                             |-- indexer.ts (mining data, prices)|
                             '-- ordpool-indexer.ts (statistics) '
    browser <-- websocket-handler.ts, routes

### Inventory

| Component (source) | State | Operations, and who calls them | What is hard | What must hold |
|---|---|---|---|---|
| RBF cache (`api/rbf-cache.ts`) | trees of replacements, three maps derived from them, deadlines | `add` and `evict` by the mempool update, `mined` by a block, `cleanup` by an hourly timer, `getRbfChanges` by the websocket handler, `dump`/`load` by the caches | five maps changed by every operation; deadlines per transaction against removal of whole trees; restart from old snapshots; awaits in `load` | the five invariants of the file's header; no replacement invented or forgotten; eviction is eventually effective |
| RBF mirror in Redis (`api/rbf-cache.ts`, `api/redis-cache.ts`) | event queue, two offline queues, the store | `updateCache` at the end of a mempool update and of a block; reconnection every ten seconds; `load` at the start | values read late, timer between two commands, crash between two commands, failed commands, outages that reorder writes | store equals memory when drained; a crash loses nothing stored; no transaction in two loaded trees |
| OTS poller and txid set (`api/ordpool-ots-poller.ts`, `api/ordpool-ots-txid-set.ts`, `repositories/OrdpoolOtsRepository.ts`) | table `ordpool_stats_ots`, set of txids | a tick a minute over all calendars; bootstrap at the start | answers worked off with awaits in between; row and set written in two steps; failures end a tick | row before set; rows only grow; every durable commit is recorded in the end |
| OTS backfill (`api/ordpool-ots-backfill.ts`) | the same table, a set of its own | run by hand, next to the backend | two processes, interruptions, errors on the way | a walk without errors fills the chain |
| OTS knowledge (`src/frontend/src/app/services/ordinals/ots-knowledge.service.ts`) | cache of answers with expiry, shared probes | asked by components, told by websocket pushes, cleared on a change of network | late answers against flips and against another network; lost pushes | whoever keeps asking learns of a commit for good |
| Ordpool indexer (`ordpool-indexer.ts`, `api/ordpool-missing-stats.ts`, repositories) | batch size, failures, rests and timers; tables of statistics | called by the main loop and by its own timer | a batch timeout that does not stop the batch; poison blocks; partial inserts; crashes | one task at a time; always scheduled; a row only with its activity; every block handled |
| Mining indexer and block prices (`indexer.ts`, `api/mining/mining.ts`, `api/blocks.ts`, `tasks/price-updater.ts`) | due/running/planned, single tasks and their timers, prices of blocks | called by the main loop; plans its own next run; `reindex` by blocks and timers | `reindex` in the middle of a run; a task started, ignored or scheduled from several places | always due, running or planned; every block priced in the end |
| Main loop, mempool, blocks (`index.ts`, `api/mempool.ts`, `api/blocks.ts`, `repositories/BlocksRepository.ts`) | `mempoolCache`, list of recent blocks, rows of `blocks`, sync flags, clear protection | the loop itself, every two seconds; `$validateChain()` by the indexer, in the background | the mempool is read before the blocks; reorgs; an exception half way through a block; restart of the node | memory follows the node; blocks are linked; a cached block has its row; nothing confirmed comes back |
| Chain tips (`api/chain-tips.ts`) | orphans by hash and height, indexing queue | before a block joins the cache; cleared by a reorg | background indexing against reorgs and later scans | no stale block met is lost; each is indexed in the end |
| Disk cache (`api/disk-cache.ts`) | files, a semaphore, `isWritingCache` | every n blocks, new pool definitions, and a signal to exit; loading at the start | asynchronous save against new blocks and against exit; renames one by one | what is loaded is one whole snapshot; a stop loses nothing |
| Websocket feed (`api/websocket-handler.ts`, `api/mempool-blocks.ts`, `src/frontend/src/app/services/websocket.service.ts`, `state.service.ts`) | backend: projected blocks, their deltas, a sequence, what each client tracks; client: what it tracks and shows | mempool and block handlers push; clients ask | deltas that are not sent, blocks switched while messages are on their way, lost connections, reorgs | the sequence tells whether the view is right; the client has the blocks and resumes |
| Cluster mempool (`cluster-mempool/`) | graphs of dependent transactions and a map of spenders, the order and chunks of each graph | mempool update, blocks, changed accelerations | incremental merges and splits, parents that arrive after children, a search by chance under a budget | clusters are the components of the mempool; orders are valid and not made worse |
| Spend map (`api/mempool.ts`, `api/common.ts`) | outpoint to spender | mempool update, blocks | filled last, two spenders under clear protection | a replacement by a block is seen |
| Promise limiter (`utils/p-limit.ts`) | running count, queue | fetching of transactions | comparisons one microtask late | never more than the limit, none forgotten |
| Redis cache of blocks and transactions (`api/redis-cache.ts`) | queues to add and to remove | mempool update, blocks, reconnection | flushes that overlap | what is stored is the mempool (not modelled) |

Audits, statistics, migrations, replication, Lightning, Liquid, accelerations,
wallets, HTTP routes, frontend components and packaging are listed with the reason
they are left out in `PROJECT.json` ("components").

The hazards, each at its line and with the properties about it, are in
`PROJECT.json` ("hazards"): the sharpest ones of the modelled components. The
properties below were chosen from that list. Others, kept here:

* `api/rbf-cache.ts:532`, `124`: the `mined` flag of a tree is not read back by
  `load()`, and a stored transaction without a tree blocks its own later `add()`.
* `api/rbf-cache.ts:374`: without Redis the event queue is never emptied.
* `api/redis-cache.ts:180`: two overlapping flushes cut the queue by count.
* `api/ordpool-ots-poller.ts:200`, `222`: a row confirmed once is not looked at again; a
  commit replaced between two polls is never seen (documented as accepted).
* `api/blocks.ts:1321`: the recent blocks are cut in two places (the
  bound is proved, in `TypeOK` of `ChainSync`).
* `api/mempool.ts:213`, `341`: an endless reload while esplora fails; a time limit after
  which additions stop and deletions do not (the latter is in `ChainSync`).
* `api/websocket-handler.ts:709`: deltas are computed once for all clients.
* `index.ts:159`, `repositories/BlocksRepository.ts:1080`, `api/common.ts:150`: order of
  start-up; rows rewritten by a migration; replacements of a block looked up late.

## 2. The modules

| Module | Models |
|---|---|
| `ChainSync` | a round of the main loop with `$updateBlocks()`, `$handleReorgs()`, `$updateMempool()`, the rows of `blocks`, and `$validateChain()` in the background; the node is external |
| `ChainTips` | extends `ChainSync` by the stale blocks: scans, background job, stale tips |
| `DiskCache` | asynchronous and synchronous saves, the semaphore, signals, crashes, loading |
| `RbfCache` | the RBF cache in memory and its snapshot on disk: one action per operation, the steps of `load()` with the event loop free between them |
| `RbfCacheProps` | its invariants and action properties, the refinement mapping, the inductive invariant |
| `RbfHistory` | the abstract promise: which transaction replaced which, what was saved |
| `RbfRedis`, `RbfRedisProps` | the event queue, its replay, the connection and the offline queues around the actions of `RbfCache`; the variable `saved`, there the file on disk, is the store here |
| `ClusterMempool` | clusters, map of spenders and spend map through updates, blocks, reorganisations and restarts |
| `Linearize` | the order of one cluster: the search by merging and splitting chunks, and what is made of it |
| `PLimit` | the limiter |
| `WsFeed` | backend and client of the live feed, with the messages between them |
| `OtsPoller`, `OtsPollerProps` | ticks, table, txid set, starts and crashes; calendars and chain are external |
| `OtsBackfill` | extends `OtsPollerProps` by the script: one walk per calendar while the backend polls |
| `OtsKnowledge` | the browser's cache, probes and flips |
| `OrdpoolIndexer` | the indexer, its tasks and the tables they write |
| `MiningIndexer` | `indexer.ts` with the price task, the blocks and the price history |
| `...Proofs` | theorems: `RbfCacheProofs` (with the refinement of `RbfHistory` and the mirror of `RbfRedis`), `ChainSyncProofs` (with `ChainTips`), `DiskCacheProofs`, `OrdpoolIndexerProofs`, `MiningIndexerProofs`, `OtsPollerProofs` (with `OtsBackfill`), `MempoolProofs` (`ClusterMempool`, `Linearize` and `PLimit`), `WsFeedProofs` |
| `MC...` | instances for TLC. Where one has a variable `plan`, the first state chooses what a behaviour is about and the rest of the state rests |

How state corresponds to code, where it is not the same name:

* **RbfCache.** A tree object is a record: `replaces` is the nesting of the objects
  (node to children), `minedTxs` the nodes with `tx.mined`, `mined` and `fullRbf`
  the fields of the root. Names of variables are those of the class. The recursive
  walks of the code (`updateTreeMap`, `getTransactionsInTree`, `remove`) are `Below`,
  the least set closed under children, which needs no recursion. Times are ticks of
  a clock that `evict()` starts at `ExpiryTicks`. `phase` is the step of `load()` a
  starting process is in. Left out: fees, times, intervals, and read-only queries.
* **RbfRedis.** Each operation also appends its events to `cacheQueue` in the
  code's order; the cleanup timer appends at any time. `Replay` is one turn of the
  loop in `updateCache()`: one awaited command. A command is applied, lost (logged by
  the code), or queued when there is no connection. `Reload` is a crash at any point
  followed by `load()`. The recursion of `remove()` is `Walk`: the list of versions still
  to visit, a step at a time, as a function of the number of steps.
* **ChainSync.** Blocks are a tree of constants, a branch wins when it is higher; the
  table is a function from blocks to "none", "canonical" or "stale". `pc` is the await
  the loop is in, and the variables next to it are the locals of `$updateBlocks()`.
  `check` is a run of `$validateChain()` with what it read. Left out: what is computed
  of a block, summaries and old blocks indexed later.
* **ChainTips.** `scan` and `job` are `updateOrphanedBlocks()` and
  `$indexOrphanedBlocks()`; `orphansByHeight` is `orphans` with the blocks' heights.
* **DiskCache.** A file is what it was cut from and the part it holds; half-written files
  are `whole = FALSE`. `exit` and `torn` are history variables. The cache files hold
  sets of transactions, so order and encoding are left out.
* **WsFeed.** A message has the parts that matter of one JSON message; a connection is
  two queues. A block is its height and its branch. `template` is what the projected
  blocks hold, left to chance: the model asks whether clients are told of it.
* **ClusterMempool.** A cluster is its transactions and its `<<parent, child>>` pairs. An
  update removes and adds in the order of the code. `doubted` and `untold` are history
  variables: outpoints and transactions the code loses track of (section 6). Loops over new
  transactions are functions of the position in their order (`Turns`, `Visits`), so that
  they can be proved about.
* **Linearize.** A chunk of the search is its set of transactions and what its queue
  entry says (`todo`): queued or not, from a merge, or the pivot of a minimization. The
  queues are served in any order, and the budget may be spent at any step of the loops
  that look at it. Feerates are compared by products, as in the code. Loops that build on
  what they made before (draining a queue, absorbing chunks, moving groups) are functions
  of the number of turns, so that they can be proved about.
* **PLimit.** `checks` counts the comparisons that are still in the microtask queue,
  `settled` the calls that have answered and not yet run `next()`.
* **OtsPoller.** `poll` is the tick in flight: the calendars not asked yet and what is
  left of the answer being worked off. A block number is a fork count: one reorg
  moves a commit from one block to another. A root is named like its commit.
* **OrdpoolIndexer.** `tasks` holds the running calls of `processMissingStats()`, the
  ones that `run()` has given up included. Failures beyond the threshold are not told
  apart.
* **MiningIndexer.** `run` is what the running `$run()` awaits; `tasksScheduled` keeps
  the state of the timer behind the handle. `asked` is a history variable: a task
  someone wanted to run later and no timer has run since.

A definition named `Faulty...` is the definition that follows it with a seeded bug;
no action uses it. Every property has one that breaks it (`PROJECT.json`, "mutants").

## 3. What the runs check

| Run | Checks | Bounds |
|---|---|---|
| `chain_sync` | `CachedAreStored`, `Linked`, `TableFits`, `NothingConfirmedReturns`, `Follows` | a root and branches of 2 and 4 blocks that confirm the same transaction at different heights; 3 transactions, loaded in bulk when the node has all of them and the backend one at most, and otherwise one by one; 1 change of the node's mempool (an arrival, its restart or return), 1 rare event (an exception, a missing transaction, the time limit, a restart of the backend or a run of `$validateChain()`). A behaviour has the branch of four and one transaction, or any mempool of three, its change, and branches of two |
| `chain_tips` | `NoOrphanIsLost`, `OrphansAreIndexed` | a root and two branches of 2, 1 rare event, room for 1 stale tip |
| `disk_cache` | `FilesWhole`, `OneSnapshot`, `StopKeeps`, `SaveFinishes` | 2 transactions, 2 chunks, 2 saves in flight, 1 block, 1 fault (a crash, or a write or rename that fails, of a save at exit too) |
| `mempool_views`, RBF | `FullRbfExact`, `WholeTreeExpires`, `EvictedLeave` | 3 transactions, one of them not signalling RBF, 2 ticks |
| `mempool_views`, clusters | `Clustered` (`Told`, `OnePiece` and `ParentsLinked`), `SpendsKnown` | 4 transactions: two parents, a child of both, and a conflict with it; 1 block, 2 rare events |
| `mempool_views`, order | `Valid`, `KeepsGood`, `QuietOptimal` | 4 transactions in two graphs, three feerates, any number of rounds |
| `mempool_views`, limiter | `AtMostLimit`, `NoneForgotten` | 4 calls, a limit of 2, 3 comparisons outstanding |
| `rbf_restart` | `Consistent` (the inductive invariant, which implies the five documented ones) and `RefinesHistory`, with saves, restarts, conflicts found at the start and cleanups during the lookup | 3 transactions (symmetric), 1 tick |
| `redis_mirror` | without faults `Mirrored`; under crashes, lost commands, outages, starts without a connection and reads of a start that fail `FaultsMend`, `LoadKeepsStored` | 3 transactions, 1 tick, 2 faults; a behaviour has all operations, the clock and one crash; or replacements that never expire with two faults of any kind, at most one of them an outage; or the same with one outage that may come between two reads of a start |
| `ws_feed` | `SequenceTells`, `SameBlocks`, `Resumes` | 2 transactions in 2 projected blocks, 2 changes, 2 clicks, 2 messages on their way, 1 fault; the same with 1 callback that waits and no fault; or blocks up to height 3 with every kind of fault |
| `ots_poller` | `RowFirst`, `NothingDurableMissed` | 2 calendars, 4 commits, a window of 2 with 3 commits at one of them, a crash, all outages |
| `ots_backfill` | `FirstWalkFills`, `RowsOnlyGrow` with the poller running | 1 calendar, 3 commits, a window of 1, a reorg per commit, 2 starts, depth 3 |
| `ots_knowledge` | `LearnedForGood` | 1 transaction, 2 networks, 3 requests at a time |
| `indexer` | `ActivityFirst`, `OneTask`, `Scheduled`, `EveryBlockHandled` | 3 blocks (one poisonous, one stale at its height), batches of 2, threshold 2, a crash |
| `mining_indexer` | `Planned`, `EveryBlockPriced` | 2 blocks, a crash, a daily search |

Type invariants are proved (section 4) where a module has proofs, and are conjuncts of
`Consistent`, `Clustered`, `Valid` and `NoOrphanIsLost`. Those of `WsFeed`, `OtsBackfill`
and `OtsKnowledge` hold on their instances too; no run repeats them.

**Why the bounds are enough.** Three transactions give every shape that the RBF `add()`
distinguishes: a chain of two replacements, two leaves replaced at once, a root and a
leaf, a transaction already replaced, a replacement that is itself cached. Two ticks
let two versions of one transaction have different deadlines. Two faults are the
fewest for which one fault's leftovers meet another (with three, `FaultsMend` was checked
for replacements on 28 million states; without its limit to one outage it then fails, see
section 6). `MaxEvents = 0` is a bound of the run: its operations wait until the queue is drained.
The code lets all operations of an update or of a block queue their events before
`updateCache()`, and timers and `load()` append to a queue that is being replayed (in the run
too); the theorems `MirroredHolds`, `PartitionedHolds` and `CrashesMendHolds` (section 4) are
for queues of any length and any number of crashes. With longer ones a crash can break
`FaultsMend` in one way: a root expires, is cleaned up and added again before an older event
about it has been replayed, so that the new tree is stored before its transactions. An
expiry takes a day, and a session some seconds. A branch of four that replaces
one of two overflows the cache of recent blocks (four times `InitialBlocks` = 1), reaches
deeper than a cache just started, and its blocks may arrive in the middle of a round. Two chunks of two
transactions and two calls let the remainder of the division, a save that waits and one
that starts meanwhile occur. Two parents with one child make clusters merge when the
child comes and split when it goes, with a conflict for the spend map. For the order of
a cluster four transactions are the fewest for which the search matters: two parents
share a child and one has another child, and an order made before anything is split is
not the best one; the second graph branches and joins again. Two projected blocks and
two clicks let a client leave one, come back, and still have messages about both on
their way. Three commits of one calendar in a window of one or two let commits fall
out of its list before they are seen; `NothingDurableMissed` is about those that stay. Three
transactions, with more than two loaded in bulk, make a round fetch one by one, time out and
miss one, load in bulk, and go from one to the other. One callback that waits lets updates and
blocks be numbered and sent before it, and its change go out behind them or under their
number. A poison block and a stale block at one height, below a good
one, are the configuration in which a batch can starve. Two blocks let one be saved
while the task prices the other. One crash per run suffices where the state after it is
that of a start with other tables. With expiry and outages together the queues of the
Redis mirror, reordered, delete entries that are wanted (see section 6), so nothing expires
where commands may be lost.

**Deadlock** is checked everywhere but in `redis_mirror` and `ws_feed`, whose models come
to rest when there is nothing left to replace or to show and no fault left.

**Fairness.** Weak fairness is assumed of what the event loop or a timer does by
itself: the main loop, whose timer is set whatever happens, `ProtectionEnds`, the steps
of a scan, a background job, a save or a load, `CleanupTimer` and time (RBF), delivery and
reconnection (feed), the start and the tick (OTS), the end of a rest (indexers). Strong fairness is assumed only where the code retries and
its environment may fail: a calendar that is asked again and again answers some time, a
row written again and again is written some time, Bitcoin Core is synced some time, the
insert of a skipped block succeeds some time. No fairness is assumed of the arrival of
blocks and transactions, of crashes, pushes, or of any user, but in `OtsKnowledge`, where
the property is about somebody who keeps asking. In `EveryBlockHandled` nothing is
assumed of the parser or of the inserts of a block: the skipping has to make up for them.

### What the runs show

* After any reorganisation and one fault of any kind the backend comes to have the tip and
  the mempool of its node. Every block it serves has its row. Without faults the cached
  blocks are linked and canonical, and a list of the mempool read before a block never
  brings back what that block confirmed.
* A stale block that was met once is indexed, whatever reorganisations and scans happen
  during the background job.
* No file that a start reads is half written; short of an interrupted renaming the files
  are of one mempool; without a database a stop by signal keeps what the process held
  and could still write, but for the remainder of a division.
* Whatever sequence of operations, expiries and restarts from old snapshots: the
  maps and the trees of the RBF cache stay in step, trees leave as a whole when their
  newest version is due, and the cache implements the plain history of replacements.
* The mirror in Redis is exact without faults although values are read late and the
  cleanup timer interleaves; a process killed between any two commands finds a store
  from which it recovers, because trees are stored after their transactions and
  removed after them. After lost commands, outages and reads that failed `load()` still never
  builds two trees with a common transaction.
* The clusters and the spend map are those of the mempool, in whatever order parents,
  children, blocks and reorganisations come, except for what a failed request hides from
  both.
* Whatever is drawn and wherever the budget ends the search, the order of a cluster is
  valid and no worse than the one it had; a search that ends by itself has found the best
  order of these graphs, although splits merge nothing back.
* The limiter never makes too many calls, and with a place free a comparison is to come for
  every call that waits.
* A client that has the backend's sequence and nothing on its way shows the projected block
  as it is, after connections lost, blocks switched and changes that came late, unless one
  of these carried the number of a later update (section 6); in the end it has the blocks and
  tracks again what it tracked.
* The poller misses no confirmed commit that its calendar still lists, whatever fails, and never takes
  anything from a row. A first backfill without errors fills the whole chain.
* The browser learns of a commit, pushes lost or not.
* The statistics indexer handles or skips every block, with at most one task running
  and always a next run in sight; a statistics row never precedes its activity.
* The mining indexer never goes to sleep for good, and every block gets its price,
  although the tasks that are to price it may be ignored.

## 4. What is proved

Each theorem holds for every value of the constants that satisfies the named
assumptions. A safety property is seldom inductive; the invariant that is, and why it is
needed, per module:

* **`RbfCacheProofs`** (`FinalAssumption`, `ExpiryAssumption`; for the mirror also
  `FiniteAssumption`, finitely many transactions), restarts included:
  `CacheConsistent == Spec => []Consistent`; from it `TypeCorrect`, `SymmetryHolds`,
  `UniqueIdHolds`, `UniqueTreeHolds`, `ExistenceHolds`, `CompletenessHolds` (the header's
  five), `TreesAgreeHolds`, and the action property `WholeTreeExpiresHolds`.
  None of the five is inductive: `treeMap` can be right while the tree objects are not,
  and the next `add()` copies the wrong one. `Consistent` says that memory is `Intact`
  (each tree is *rooted*: its root is a node, nobody's child, and a walk from it reaches
  all the nodes; `treeMap` *indexes* the nodes; the maps are the *links* of the trees,
  and a transaction has no replacement exactly if it is a root), and that the snapshot is
  `Restorable`: its trees are disjoint, cover its transactions, and give each node one
  parent. The argument: `add()` makes a new root over roots and leaves, so nesting stays
  rooted (`AddIntact`); what `cleanup()` removes is, by rootedness, all the nodes of the
  due trees and nothing else (`RemovedWhole`, `CleanupIntact`); what changes only flags
  and deadlines keeps the rest (`SameNestingIntact`); a dump of an intact memory is
  restorable (`DumpRestorable`), and from a restorable snapshot the import is the
  identity on trees (`ImportIsIdentity`), hence intact (`RestartIntact`). `Below` enters
  only by three facts: it contains its start, is closed, and is the least such set.
  On top of it: `NoCyclesHolds` (a cycle would be cut off from the root, against
  rootedness), `FullRbfExactHolds` (inductive with a second invariant on the flags of the
  trees in memory and in the snapshot and on parents that agree), and
  `RefinesHistoryHolds`: each step of the cache is a step of `RbfHistory` or a stutter.
  * `MirroredHolds`, of the mirror in Redis, for queues of any length and with the cleanup
    timer between two commands, from `MirrorInductive`. `Mirrored` says nothing while events
    wait; `MirrorInv` adds `CaughtUp`: a key about which no event waits has in the store what
    it has in memory, and the last event about a key is *meant*, that is, it leaves the key as
    memory has it now. Then replaying the head keeps it (`TailCaughtUp`), and so does an
    operation that queues, for every key it moves, an event that is meant (`QueueCaughtUp`).
    That the operations do is shown event by event (`AddEventsAre`, `EvictEventsAre`,
    `CleanupEventsAre`). For `cleanup()` this rests on `WalkVisits`: the recursion of
    `remove()` ends after at most as many steps as there are transactions, and has visited
    exactly what `Below` contains. A tree read late may be newer than its event, but then
    it is the tree of a later event too (`StoredMeant`).
  * `PartitionedHolds`, of what `load()` makes of any store that crashes, lost commands,
    outages and starts without a connection can leave, and of any part of it that it can
    read, from `TidyInductive`: memory is a
    `Partition` (every transaction with a tree is in that tree and in no other, and every
    tree is found under its root), and every tree in the store, in the offline queue or in
    the middle of a flush is `Whole` (its root is a node and its edges stay inside), however
    much such trees overlap or contradict each other. `load()` is followed tree by tree, in
    any order in which the scan lists trees of one size (`Orders`): each import keeps the
    partition of what is loaded so far (`ImportPartition`, `LoadedPartition`). The
    hypothesis `[](NoFaults \/ NothingDue)` says that nothing is due once a fault has
    happened: `remove()` follows `replaces`, which `load()` may leave pointing from one tree
    into another where stale trees were cut, and a cleanup then tears a hole into the other.
    While nothing fails the partition follows from `Intact`, cleanups included.
  * `CrashesMendHolds`, of a process killed between any two Redis
    commands, again and again, with cleanups, confirmations and `load()`'s own check of its
    transactions in between. `CrashesMend` speaks of a drained queue; what a crash finds is a
    queue half replayed, so the invariant `Recoverable` says which stores are good enough to
    be found, and relates the order of the queue to the store:
    - `Sound`: the tables are intact but for transactions without a tree, those whose tree
      was not yet stored, or already removed, when the process died.
    - `Loadable`: the stored trees whose root is stored, the *live* ones, are separate, and
      all their nodes are stored. `load()` then takes each live tree over as it is and
      queues the removal of the others (`ImportWhole`, `ImportTaken`, `LoadedTaken`,
      `ReloadRecoverable`), whatever overlaps a dead tree has with a live one.
    - `AlmostCaughtUp`: `CaughtUp` without deadlines and flags, which a crash may lose.
    - `InOrder`: what makes `Loadable` survive the replay of one event. A tree is stored after
      its transactions (`TxsFirst`); a tree left over is removed before its root comes back
      (`OldTreeFirst`); a tree that memory has merged or dropped is removed before any tree
      with one of its nodes is stored (`GoneFirst`) and before its transactions other than
      the root are removed (`RootFirst`); and while a tree whose root has left memory waits
      to be stored, the removal of the root waits behind it (`RemovalFollows`).

    Each operation queues its events in such an order (`AddOrderly`, `CleanupOrderly`), and
    orders can be concatenated (`OrderlyRecoverable`). The hypothesis
    `[](OnlyCrashes => NoneReturns)` of the theorem says that no transaction is back
    while its removal waits; without it the property is false, see "Why the bounds are
    enough". It can only fail if a session lasts as long as an expiry.
* **`ChainSyncProofs`** (`TreeAssumption`, `BoundsAssumption`, `MaxTipsAssumption`), for any
  tree of blocks. `TypeCorrect`, with the bound of the cache, and `CachedAreStoredHolds`: the
  property alone says nothing of what is about to be cached; `StoredFirst` adds that the
  block to be pushed and those a walk of `$handleReorgs()` collected have their rows at each
  await. Four more invariants are laid on top of each other:
  * `ListFits`, for `NothingConfirmedReturnsHolds`: there is a block that was the tip when
    the list of the mempool was read, and nothing has been handled since. A round without
    blocks then ends with that block cached, because the tip of the node only rises.
  * `Linking`, for `LinkedHolds`, without faults: the table ends in the last cached block
    (`TableTop`), so the row that `$handleReorgs()` compares with is its own or its rival's;
    the walk follows parents (`WalkFollows`); what the round holds is of the node's branch
    where it fast-forwards (`RoundFits`); and `$validateChain()`, although it works with rows
    it has read before, never turns the highest row (`CheckFits`). Two lemmas on the rebuilt
    cache are shown by taking the first index at which it would not be linked.
  * `OneChain`, for `TableFitsHolds`, without `$validateChain()` as well: one canonical row
    at each height, linked to the one below, but at the height the walk is at.
  * `TipsInv`, for `NoOrphanIsLostHolds` of `ChainTips`: a scan holds the main loop up
    (`ScanHolds`), so a reorganisation never clears the orphans under it; a stale tip is
    stored after its block has been indexed (`IndexedFirst`). The bound of the stale tips is
    that of a set of heights with less than so many above each (`TrimmedFits`).
* **`DiskCacheProofs`** (`BoundsAssumption`): `TypeCorrect` and `FilesWholeHolds`. Files are
  whole because a rename only takes a temporary file that was written to its end, which
  needs `CallsGood`, at most one call on its way, and `FilesGood`, a temporary file that
  is not whole belongs to the call that writes it. `OneSnapshotHolds` and the action
  property `StopKeepsHolds` need what the files hold (`Snapshots`): the temporary files are
  disjoint pieces, all of one size, of what the call copied, and during the renames the new
  files with the temporary ones are. How much of the mempool a division leaves out then is
  a matter of counting, by a bijection between the pieces and pairs of numbers
  (`PiecesCounted`). Before the process is up only an empty mempool can be saved. `exit`
  records what the save of a signal wrote before a write or a rename failed, and `StopKeeps`
  claims no more.
* **`OrdpoolIndexerProofs`**: `TypeCorrect`, `ActivityFirstHolds`, `OneTaskHolds`,
  `ScheduledHolds`. `TasksGood` ties the step a task is at to the tables it has written; for `OneTask` the
  flag is set as long as there is a task, whatever `run()` makes of a timeout, and the end of
  a task leaves none.
* **`MiningIndexerProofs`** (`BoundsAssumption`): `TypeCorrect` and `PlannedHolds`. `Planned`
  is inductive with the types: a run clears `runIndexer` only in the step that sets `run`,
  and the `finally` of a run plans the next.
* **`OtsPollerProofs`** (`ChainAssumption` and the bounds): `TypeCorrect`, `RowFirstHolds`,
  and `RowsOnlyGrowHolds`, needing `PollTyped`, what is left of an answer is about
  confirmed commits, and `InOrder`, blocks confirm the commits of a calendar in their
  order. With the script running next to the poller, `BackfillRowsOnlyGrow` and
  `FirstWalkFillsHolds`, from `WalkGood`: a calendar that had no row when it was looked at
  has, while it is walked, all rows from the seed down to where the walk is, and the
  script's own set knows nothing below, whatever the poller adds meanwhile.
* **`MempoolProofs`** (`MempoolAssumption`: finitely many transactions, none of which
  spends itself; `LinearAssumption`: graphs without cycles, positive weights, a total order
  of arrival): `ClusteredHolds` and `SpendsKnownHolds`, for any graph of transactions,
  conflicts included, from `ViewsInv`. `Clustered` is not inductive: whether a child is found
  when its parent comes back depends on the map of spenders, so `ViewsInv` says that the map
  knows the spender of every outpoint of a clustered transaction that is not in doubt, that
  both maps have real spenders only, and that what two transactions of the mempool spend is
  in doubt. Removing splits a cluster into its components and cuts no dependency between
  what is left (`RemovedFits`); adding joins by one transaction what is each in one piece
  (`MergedFits`, `AddedFits`, in any order by `TurnsFit`); what is visited from a transaction
  is the least set that nothing leads out of, hence in one piece, and by the invariant of the
  walk it never meets a dependency into what was visited before (`PieceFits`, `BuiltFits`).
  For the spend map, a block clears a key of a present transaction only if it contradicts
  that transaction or one that shares the key (`FreedKnows`), and an update enters a key for
  another only if both are in the mempool (`EnteredKnows`).
  Of the order of a cluster, `ValidHolds`: for any graph, feerates, draws and budget the
  result has each transaction once, parents first, in chunks of falling feerate. It follows
  from `SearchInvariant`, about the search and what is made of it. While the search runs the
  chunks divide the cluster into connected sets (`PartitionMerged`, `PartitionCut`). While
  they merge, the queue holds one of any two chunks that are still to merge (`Watched`,
  `MergeSound`), so that at the end a chunk only depends on better ones. From then on
  what has to be kept is that chunks do not depend on each other in a circle: a chunk is
  cut into a part and the rest that depends on it, which closes none (`LooplessCut`,
  `OptimizeSound`, `MinimizeSound`). So chunks, and transactions in a chunk, can be taken
  one by one with nothing before its parents (`DrainedIs`, `ExtractedIs`). `postLinearize()` keeps what it is given in
  a valid order, group by group, backwards and forwards (`GroupedIs`, `PassIs`,
  `PostLinearizeIs`), and chunking, splitting into connected parts and the canonical order
  keep it (`ChunkedIs`, `PiecesIs`, `CanonicalIs`).
  Of the limiter (a limit in `Nat`) `AtMostLimitHolds` and `NoneForgottenHolds`, from
  `Counted`: a call is in one place, and `activeCount` is the number of those that run or
  have answered.
* **`WsFeedProofs`** (the bounds): `TypeCorrect`, `SequenceTellsHolds` and `SameBlocksHolds`.
  Neither property says what is on its way, and both are about what is there when nothing
  is. `Told` says that there is a history, what each projected block was under each number,
  to which everything belongs: a full answer holds what its number says or what the next
  one says (asked for between a block and its announcement), a change leads from a number
  to the next and may be applied twice, and the view is as the client's number says unless
  a full answer is on its way or asked for. A change that waits leads to the number of its
  update (`LateFits`); one that is sent under a later number fits nothing, and from its
  application to the next full answer nothing is claimed of the view (`misled`). `Ordered` gives the height the client will know
  after each message on its way; after the last list among them come the blocks of the
  chain one by one.

Only model-checked: all liveness, which the prover does not do under fairness, hence all of
`OtsKnowledge`; `KeepsGood` and `QuietOptimal`, which compare feerate diagrams, piecewise
linear functions with a point for every chunk (what is proved of `Linearize` is that the order
is valid, not that it is good); and of what `load()` makes of a store that faults have left,
`LoadKeepsStored` and the part of `FaultsMend` about one outage. Recursive functions
(`Turns`, `Visits`, `Walk`, `Loaded`, those of `Linearize`) are proved about step by step: a lemma says that the function exists
(`Recursion`), and an invariant passes from one position to the next, so that the least
position without it gives the contradiction.

## 5. Plan

Done: everything in section 2. To be proved next: that one outage loses nothing (the last
part of `FaultsMend`). To be modelled next: the projected blocks filled from the chunks
(`block-builder.ts`), and the clients of `getRbfChanges()` over `RbfCache`.

### Not modelled

* Redis cache of transactions: off unless Redis is configured, and its errors mend
  themselves at the next start, when the node is asked; what is known of it is in
  section 6.
* Block templates: which transactions are chosen. The legacy algorithms compare rates in
  floating point, for which TLC has no arithmetic; `block-builder.ts` fills blocks from
  the chunks of `Linearize` in one synchronous pass.
* Audits, statistics, migrations, replication, routes and frontend components compute
  from what others hold, or copy rows one by one; they keep no state whose interleaving
  matters. Lightning, Liquid, accelerations and wallets are not run by ordpool.
* Bulk loading of a mempool in `ClusterMempool`, because of the duplicates described in
  section 6 ($reloadMempool()); parse errors of single cache files; kernel crashes
  without fsync; start-up order in `index.ts`.

## 6. Disagreements seen while modelling

* A bootstrap of the txid set that failed is never caught up, so pending commits
  known before stay unflagged until they are seen again (`index.ts:154-155`).
* The poller attaches the tip of an answer, the root of the latest broadcast, to the
  older commits of the same answer too (`api/ordpool-ots-poller.ts:176`; the migration
  says `merkle_root` is the transaction's own, `api/ordpool-database-migration.ts:609`).
* "Confirmed commitments stay in the calendar's confirmed batch [...] so nothing durable is
  missed" (`api/ordpool-ots-poller.ts:89-91`) trusts the length of the list: a commit that
  newer ones push out of it during an outage is missed, or its row stays pending.
  `NothingDurableMissed` is about commits that are still listed.
* A confirmed row is not looked at again, so a reorg leaves the orphaned block in it
  (`api/ordpool-ots-poller.ts:200`, `api/explorer/_ordpool/ordpool.routes.ts:256`).
* A probe answered before a flip, or for another network, overwrites a `true` that is
  called permanent, and writes into a cache that was just cleared
  (`ots-knowledge.service.ts:39-40`, `81-83`, `149`). The expiry of the negative answer
  repairs a `false`; `LearnedForGood` is what remains.
* The Ordpool indexer rests "done" for ten minutes while a task it has given up still
  runs (`ordpool-indexer.ts:19`).
* Blocks are skipped by height, after any three failures in a row: an outage of the
  source skips healthy blocks, and a skipped stale block hides the one that replaced
  it (`repositories/OrdpoolSkippedBlocksRepository.ts:38`).
* After an outage Redis receives all queued sets, then all queued removes: an entry
  removed and set again is lost (`api/redis-cache.ts:260`), against "replaying queued
  events" (`api/rbf-cache.ts:377`).
* Two outages with a crash between them can lose a tree although nothing expires and no
  command fails. The flush of the first lets a tree be stored before its root, a crash
  leaves it stale, `load()` queues its removal, which the second outage puts into the
  queue of removals, behind the set of a new tree with that root (`api/redis-cache.ts:260`).
  `FaultsMend` is about one outage.
* A read that fails at a start counts as empty (`api/redis-cache.ts:346-352`, three times at
  `366-368`). Without the transactions `load()` finds the root of every stored tree unknown
  and removes all of them (`api/rbf-cache.ts:493-496`); without the trees they stay and come
  to contradict the new ones. `LoadKeepsStored` and the last part of `FaultsMend` are about
  starts whose reads succeed.
* After a lost command a restart can leave children of a missing transaction in
  `replaces` without a tree, which breaks the documented completeness
  (`api/rbf-cache.ts:60`, `519`).

Mining indexer and backfill:

* `ordpool-ots-backfill.ts:131` stops at a commit that is known and says that the chain
  beyond it "is already backfilled". The set also holds what the poller recorded, and an
  interrupted walk has recorded the newer part only: the script then stops at its seed and
  fills in nothing. `FirstWalkFills` is what remains.
* `scheduleSingleTask()` never empties `tasksScheduled`; after its first timer a task is
  not scheduled again, against the comment at `indexer.ts:100`. `EveryBlockPriced` holds
  all the same: the hourly run makes up for it.
* A `reindex()` during a run leads to a run with the hourly timer of the one before still
  set; when it fails, "trying again in 10 seconds" (`indexer.ts:234`) means within the hour.

Main loop and stale blocks:

* `$validateChain()` leaves other canonical rows at the height of a block whose own row is
  canonical already (`repositories/BlocksRepository.ts:757`, `786`), and one that read its
  tip before a reorganisation turns rows around until the next.
* `inSync` is announced when the sizes are equal while clear protection delays deletions.
* An answer fetched for a height before a reorganisation leaves a stale block in the cache
  until the walk; an interrupted walk leaves cache and table unrepaired (why `Linked` and
  `TableFits` are stated without faults).
* A round that fast-forwards does not look for a fork (`api/blocks.ts:1260`), so a switch of
  the node's branch meanwhile, like one between the request for a hash and that for the
  block, puts blocks of two branches into table and cache until the next walk. Both count
  as a fault (`Unnoticed`).
* After such a fault the cache may hold blocks that the node has given up, and the mempool
  rightly gets their transactions back; `NothingConfirmedReturns` is about the chain of the
  last cached block.
* `$classifyBlocks()` sets `classifyingBlocks` and has an early return that does not reset it.
* `clearOrphanCacheAboveHeight()` keeps the height of the fork itself
  (`api/chain-tips.ts:85`, `217`), so the fork can be listed as its own orphan; the stale
  tips of the inner heights of a longer fork go at the next scan.

Disk cache:

* A write or a rename that fails during the save of a signal is only logged, and the process
  exits (`api/disk-cache.ts:35-38`, `112-115`, `138-141`): what it held is lost, or files of
  two mempools remain. `StopKeeps` is about what could be written.
* With a database the pools are loaded at every start, which sets `ignoreBlocksCache`: the
  cached blocks are never used, and the save that then follows (`api/disk-cache.ts:234`)
  writes an RBF cache that is still empty over the file that is read next (`:242`).
* New pool definitions start a save of the mempool before it is loaded; a signal before
  loading overwrites the files with it, and one during a save saves nothing.
* The blocks are read after the mempool was copied (`api/disk-cache.ts:92`), and files are
  renamed one by one: a crash in between leaves a mixture (`torn`).

Live feed:

* An update that brings the mempool in sync, or changes it while it is not, is neither sent
  nor numbered, so the next delta fits an outdated view. So does one after an exception
  between the projected blocks and the announcement of a block. (Faults "sync" and "block",
  which `SequenceTells` excludes.)
* The callback of a client awaits transactions of its address or transaction
  (`api/websocket-handler.ts:858`, `875`, `892`, `916`, on backends other than esplora)
  before it takes the number of now for the change of then (`1075-1082`). A change so sent
  behind a later one makes the client ask again, as it should; one that carries the number of
  a later update, whose own change was not sent, is taken for it, and the client shows a wrong
  block until it comes in full (`misled`, which `SequenceTells` excepts).
* A projected block that becomes empty sends nothing. Looking at the same block again within
  two seconds leaves it unmarked, and it is not asked for after a lost connection.
* `latestBlockHeight` never falls: after a restart of the backend with fewer blocks pushes
  are ignored and the list gets a hole. A change of network does not send the wants again.
* Somebody who comes back to a block before the full answer he asked for first has arrived
  may have a delta applied to the wrong transactions, until that answer comes.

Clusters and spend map:

* `$reloadMempool()` may return transactions that are not in the list: one is then added and
  removed in the same update, and removals come first, so it stays in the clusters.
* `buildRelativeMaps()` records inputs only if their source is in the mempool: after a
  restart a source that a reorganisation brings back is not linked to its child
  (`doubted`).
* An exception between the update of the mempool and that of the spend map leaves removed
  transactions in the map. A later block that "replaces" one of them clears all its inputs
  (`api/common.ts:149-152`), also those another transaction of the mempool spends by then,
  whose own replacement is not seen afterwards (`untold.gone`, which `SpendsKnown` excepts).
* A request that fails in `$updateMempool()` leaves the transactions fetched before it out of
  the clusters and the spend map for good (`untold`).
* `processRemovals()` looks transactions up in a mempool they were deleted from, so it always
  skips its cleanup of `spentBy` there; after a block it deletes entries of other owners.
* `assembleBlocks()` stops at an empty block when only chunks that are too large are left.
* After a split, `splitAndMerge()` (`cluster-mempool/linearize.ts:764`) takes the dependency
  it has just cut for one that needs the two merged again, then looks for one in the other
  direction, where there is none: its branch that merges up and down is never taken.
  `postLinearize()` makes up for it in the graphs checked.

Redis transactions: a flush cuts its queue by count after an await, so two overlapping ones
drop entries; a transaction removed while still queued is stored and stays until the next
start; one that is added again while its removal is queued is removed again.

## 7. Running

    tlc -workers 2 -config chain_sync.cfg MCChainSync.tla     # the module of each run
    tlapm RbfCacheProofs.tla                                  # is in PROJECT.json ("runs")

A run takes from some seconds (`ots_knowledge`) to three or four minutes on two workers
(`ws_feed`, 2.1 million states; `redis_mirror`, 3.1 million; `chain_sync`, 1.1 million;
`mempool_views`, 0.4 million; `ots_backfill`, 2.6 million; `rbf_restart`, 0.8
million); the proofs of a module take from some seconds to seven minutes (`MempoolProofs`,
`RbfCacheProofs`).
