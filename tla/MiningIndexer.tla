---------------------------- MODULE MiningIndexer ----------------------------
(***************************************************************************)
(* The indexer of mining data (backend/src/indexer.ts): $run(), which the  *)
(* main loop calls and which plans its own next run, and the single tasks   *)
(* it starts or schedules; and the task that links blocks to prices, with   *)
(* the blocks that blocks.ts saves and the price history it waits for.     *)
(*                                                                         *)
(* External: Bitcoin Core, the database and the price feeds.  Time is       *)
(* abstract: a timer fires at any later step.                              *)
(***************************************************************************)
EXTENDS Naturals

CONSTANTS
  Block,       \* the blocks to come
  MaxCrashes,  \* bound: crashes of the backend
  MaxDays      \* bound: daily searches for missing prices

ASSUME BoundsAssumption == MaxCrashes \in Nat /\ MaxDays \in Nat

Task == {"blocksPrices", "coinStatsIndex"}

VARIABLES
  runIndexer,      \* a run is due
  run,             \* what the running $run() awaits, or "no"
  reindexTimeout,  \* the timer of the next run: its delay, or "none"
  tasksRunning,    \* task -> what it awaits, or "no"
  tasksScheduled,  \* task -> its timer
  blocks,          \* the table blocks
  priced,          \* the blocks with a row in blocks_prices
  recent,          \* the blocks later than the latest price
  batch,           \* what $indexBlockPrices() has read and not saved
  fresh,           \* the block that $updateBlocks() has saved and not priced
  historyInserted, \* of the price updater
  crashes, days    \* so far

runs == <<runIndexer, run, reindexTimeout>>
tasks == <<tasksRunning, tasksScheduled>>
tables == <<blocks, priced, recent>>
feed == <<historyInserted, days>>
vars == <<runs, tasks, tables, batch, fresh, feed, crashes>>

TypeOK ==
  /\ runIndexer \in BOOLEAN
  /\ run \in {"no", "core", "chain", "data"}
  /\ reindexTimeout \in {"none", "10 seconds", "1 hour"}
  /\ tasksRunning \in [Task -> {"no", "history", "read", "save", "index"}]
  /\ tasksRunning["coinStatsIndex"] \in {"no", "index"}
  /\ tasksScheduled \in [Task -> {"never", "pending", "fired"}]
  /\ blocks \subseteq Block /\ priced \subseteq blocks /\ recent \subseteq blocks
  /\ batch \subseteq blocks /\ fresh \subseteq blocks
  /\ historyInserted \in BOOLEAN
  /\ crashes \in 0..MaxCrashes /\ days \in 0..MaxDays

Init ==
  /\ runIndexer = TRUE
  /\ run = "no"
  /\ reindexTimeout = "none"
  /\ tasksRunning = [t \in Task |-> "no"]
  /\ tasksScheduled = [t \in Task |-> "never"]
  /\ blocks = {} /\ priced = {} /\ recent = {}
  /\ batch = {}
  /\ fresh = {}
  /\ historyInserted = FALSE
  /\ crashes = 0 /\ days = 0

-----------------------------------------------------------------------------
(* Single tasks                                                            *)

FirstAwait(t) == IF t = "blocksPrices" THEN "history" ELSE "index"

\* runSingleTask() up to its first await; a task that is running is not started again.
RunSingleTask(t) ==
  tasksRunning' = IF tasksRunning[t] = "no"
                  THEN [tasksRunning EXCEPT ![t] = FirstAwait(t)]
                  ELSE tasksRunning

\* scheduleSingleTask() with replace = false, as all its callers have it: ignored if
\* tasksScheduled holds a timer, and it holds the first one for ever.
ScheduleSingleTask(t) ==
  tasksScheduled' = IF tasksScheduled[t] = "never"
                    THEN [tasksScheduled EXCEPT ![t] = "pending"]
                    ELSE tasksScheduled

TaskTimer(t) ==
  /\ tasksScheduled[t] = "pending"
  /\ tasksScheduled' = [tasksScheduled EXCEPT ![t] = "fired"]
  /\ RunSingleTask(t)
  /\ UNCHANGED <<runs, tables, batch, fresh, feed, crashes>>

\* The task waits for the price history and asks to be run later.
WaitForHistory ==
  /\ tasksRunning["blocksPrices"] = "history" /\ ~ historyInserted
  /\ ScheduleSingleTask("blocksPrices")
  /\ tasksRunning' = [tasksRunning EXCEPT !["blocksPrices"] = "no"]
  /\ UNCHANGED <<runs, tables, batch, fresh, feed, crashes>>

HistoryThere ==
  /\ tasksRunning["blocksPrices"] = "history" /\ historyInserted
  /\ tasksRunning' = [tasksRunning EXCEPT !["blocksPrices"] = "read"]
  /\ UNCHANGED <<runs, tasksScheduled, tables, batch, fresh, feed, crashes>>

\* Seeded: the comparison of the times is turned around.
FaultyPriceable == recent \ priced

\* The blocks without a price; a block later than every price gets none.
Priceable == blocks \ (priced \cup recent)

\* $indexBlockPrices() reads the prices and the blocks.
ReadBlocks ==
  /\ tasksRunning["blocksPrices"] = "read"
  /\ batch' = Priceable
  /\ tasksRunning' = [tasksRunning EXCEPT !["blocksPrices"] = "save"]
  /\ UNCHANGED <<runs, tasksScheduled, tables, fresh, feed, crashes>>

SavePrices ==
  /\ tasksRunning["blocksPrices"] = "save"
  /\ priced' = priced \cup batch
  /\ batch' = {}
  /\ tasksRunning' = [tasksRunning EXCEPT !["blocksPrices"] = "no"]
  /\ UNCHANGED <<runs, tasksScheduled, blocks, recent, fresh, feed, crashes>>

IndexCoinStats ==
  /\ tasksRunning["coinStatsIndex"] = "index"
  /\ tasksRunning' = [tasksRunning EXCEPT !["coinStatsIndex"] = "no"]
  /\ UNCHANGED <<runs, tasksScheduled, tables, batch, fresh, feed, crashes>>

\* A query fails; both tasks log it and end.
TaskFails(t) ==
  /\ tasksRunning[t] \in {"read", "save", "index"}
  /\ batch' = IF t = "blocksPrices" THEN {} ELSE batch
  /\ tasksRunning' = [tasksRunning EXCEPT ![t] = "no"]
  /\ UNCHANGED <<runs, tasksScheduled, tables, fresh, feed, crashes>>

-----------------------------------------------------------------------------
(* $run()                                                                  *)

\* Seeded: a run that did not complete plans no other.
FaultyScheduleNextRun(delay) ==
  reindexTimeout' = IF reindexTimeout = "none" /\ delay = "1 hour" THEN delay ELSE reindexTimeout

\* scheduleNextRun(): only one future run is planned.
ScheduleNextRun(delay) ==
  reindexTimeout' = IF reindexTimeout = "none" THEN delay ELSE reindexTimeout

\* The main loop calls $run() when it has handled all blocks; the mempool may have
\* priority for some time.
Run ==
  /\ fresh = {}
  /\ runIndexer /\ run = "no"
  /\ runIndexer' = FALSE
  /\ run' = "core"
  /\ UNCHANGED <<reindexTimeout, tasks, tables, batch, fresh, feed, crashes>>

\* The `finally` of $run().
FinishRun(delay) ==
  /\ run' = "no"
  /\ ScheduleNextRun(delay)
  /\ UNCHANGED <<runIndexer, tables, batch, fresh, feed, crashes>>

\* Core is synced, and its coinstatsindex may be.
CoreSynced ==
  /\ run = "core"
  /\ run' = "chain"
  /\ RunSingleTask("coinStatsIndex") \/ UNCHANGED tasksRunning
  /\ UNCHANGED <<runIndexer, reindexTimeout, tasksScheduled, tables, batch, fresh, feed, crashes>>

\* $generateBlockDatabase() finds the chain valid; the task is not awaited.
ChainValid ==
  /\ run = "chain"
  /\ run' = "data"
  /\ RunSingleTask("blocksPrices")
  /\ UNCHANGED <<runIndexer, reindexTimeout, tasksScheduled, tables, batch, fresh, feed, crashes>>

DataIndexed == run = "data" /\ FinishRun("1 hour") /\ UNCHANGED tasks

\* Core is not synced, the chain is invalid, or a step throws.
RunFails == run # "no" /\ FinishRun("10 seconds") /\ UNCHANGED tasks

\* reindex()
Reindex == runIndexer' = TRUE /\ reindexTimeout' = "none"

NextRunTimer ==
  /\ reindexTimeout # "none"
  /\ Reindex
  /\ UNCHANGED <<run, tasks, tables, batch, fresh, feed, crashes>>

-----------------------------------------------------------------------------
(* blocks.ts and the price updater                                         *)

\* $updateBlocks() saves a block, which it does not price after fast forwarding.  Both
\* fast forwarding and a reorg reindex.
SaveBlock(b) ==
  /\ fresh = {} /\ b \notin blocks
  /\ blocks' = blocks \cup {b}
  /\ recent' = recent \cup {b}
  /\ fresh' \in {{}, {b}}
  /\ Reindex \/ UNCHANGED <<runIndexer, reindexTimeout>>
  /\ UNCHANGED <<run, tasks, priced, batch, feed, crashes>>

\* $saveBlockData(): the latest price at once, unless the insert fails, ...
PriceBlock ==
  /\ fresh # {} /\ historyInserted
  /\ priced' \in {priced, priced \cup fresh}
  /\ fresh' = {}
  /\ UNCHANGED <<runs, tasks, blocks, recent, batch, feed, crashes>>

\* ... or "Trying again in 10 seconds".
PriceBlockLater ==
  /\ fresh # {} /\ ~ historyInserted
  /\ ScheduleSingleTask("blocksPrices")
  /\ fresh' = {}
  /\ UNCHANGED <<runs, tasksRunning, tables, batch, feed, crashes>>

\* $insertHistoricalPrices() is done.
InsertHistory ==
  /\ ~ historyInserted
  /\ historyInserted' = TRUE
  /\ UNCHANGED <<runs, tasks, tables, batch, fresh, days, crashes>>

\* Once a day the updater looks for missing prices.
NewDay ==
  /\ historyInserted /\ days < MaxDays
  /\ historyInserted' = FALSE
  /\ days' = days + 1
  /\ UNCHANGED <<runs, tasks, tables, batch, fresh, crashes>>

\* The hourly price is saved.
NewPrice ==
  /\ recent # {}
  /\ recent' = {}
  /\ UNCHANGED <<runs, tasks, blocks, priced, batch, fresh, feed, crashes>>

\* The process dies and starts over with what the tables hold.
Crash ==
  /\ crashes < MaxCrashes
  /\ crashes' = crashes + 1
  /\ runIndexer' = TRUE
  /\ run' = "no"
  /\ reindexTimeout' = "none"
  /\ tasksRunning' = [t \in Task |-> "no"]
  /\ tasksScheduled' = [t \in Task |-> "never"]
  /\ batch' = {}
  /\ fresh' = {}
  /\ historyInserted' = FALSE
  /\ UNCHANGED <<tables, days>>

-----------------------------------------------------------------------------
PriceTask == WaitForHistory \/ HistoryThere \/ ReadBlocks \/ SavePrices

Next ==
  \/ Run \/ CoreSynced \/ ChainValid \/ DataIndexed \/ RunFails \/ NextRunTimer
  \/ PriceTask \/ IndexCoinStats
  \/ \E t \in Task : TaskTimer(t) \/ TaskFails(t)
  \/ \E b \in Block : SaveBlock(b)
  \/ PriceBlock \/ PriceBlockLater
  \/ InsertHistory \/ NewDay \/ NewPrice
  \/ Crash

Spec == Init /\ [][Next]_vars

\* Everything awaited ends, timers fire, the mempool gets in sync and the feeds answer;
\* Core, the chain of blocks and the queries of the task are not found bad every time.
Fairness ==
  /\ WF_vars(Run) /\ WF_vars(NextRunTimer)
  /\ SF_vars(CoreSynced) /\ SF_vars(ChainValid) /\ WF_vars(DataIndexed)
  /\ WF_vars(PriceTask) /\ SF_vars(ReadBlocks) /\ SF_vars(SavePrices)
  /\ WF_vars(PriceBlock \/ PriceBlockLater)
  /\ WF_vars(InsertHistory) /\ WF_vars(NewPrice)

FairSpec == Spec /\ Fairness

-----------------------------------------------------------------------------
\* The indexer never goes to sleep for good: a run is due, running, or planned, however
\* runs fail and whoever asks for a reindex meanwhile.
Planned == runIndexer \/ run # "no" \/ reindexTimeout # "none"

\* Every block gets its price in the end, although what $saveBlockData() schedules may
\* be ignored and the task may have read the blocks before this one was saved.
EveryBlockPriced == \A b \in Block : b \in blocks ~> b \in priced
=============================================================================
