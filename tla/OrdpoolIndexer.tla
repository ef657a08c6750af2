--------------------------- MODULE OrdpoolIndexer ---------------------------
(***************************************************************************)
(* The indexer that computes the statistics of the blocks that lack them:  *)
(* OrdpoolIndexer (backend/src/ordpool-indexer.ts), which runs batches and *)
(* rests between them, OrdpoolMissingStats                                 *)
(* (backend/src/api/ordpool-missing-stats.ts), which works a batch off     *)
(* block by block, and the tables both rely on.  The main loop of          *)
(* backend/src/index.ts and the indexer's own timer start batches.         *)
(*                                                                         *)
(* External: the nodes a block is fetched from, the parser, the database.  *)
(* Time is abstract: a rest, a timeout or the fallback may end at any step.*)
(***************************************************************************)
EXTENDS Naturals, FiniteSets, Sequences, Functions

CONSTANTS
  Block,          \* blocks, stale ones included
  HeightOf,       \* block -> its height
  Poison,         \* the blocks the parser fails on
  InitialBatch,   \* batchSize at the start
  MaxFailures,    \* maxFailures
  Threshold,      \* POISON_THRESHOLD
  MaxBatch,       \* bound: batchSize
  MaxCrashes      \* bound: crashes of the backend

Height == {HeightOf[b] : b \in Block}

ASSUME IndexerAssumption ==
  /\ HeightOf \in [Block -> Nat] /\ Poison \subseteq Block
  /\ MaxBatch \in Nat /\ InitialBatch \in 1..MaxBatch
  /\ MaxFailures \in Nat \ {0} /\ Threshold \in Nat \ {0} /\ MaxCrashes \in Nat

VARIABLES
  blocks,    \* the table blocks
  activity,  \* the blocks whose token activity is stored (ordpool_stats_* tables)
  stats,     \* the blocks with a row in ordpool_stats
  skipped,   \* the heights in ordpool_stats_skipped
  fails,     \* height -> failureCount of OrdpoolMissingStats
  fallback,  \* fallbackUntil is set
  tasks,     \* the running calls of processMissingStats()
  isTaskRunning,  \* the flag these calls set, test and reset
  indexer,   \* the state of OrdpoolIndexer
  crashes    \* crashes so far

tables == <<blocks, activity, stats, skipped>>
vars == <<tables, fails, fallback, tasks, isTaskRunning, indexer, crashes>>

\* left: the blocks of the batch not done with, the one in hand first; at: what the task awaits; awaited: run()
\* has not given it up; processed: processedCount is positive.
Task == [limit : 1..MaxBatch, left : Seq(Block),
         at : {"query", "fetch", "activity", "stats", "skip"},
         processed : BOOLEAN, awaited : BOOLEAN]

\* running: isRunning; rest: why sleepUntil is ahead; timer: timeoutId is set;
\* started: run() was called.
Indexer == [running : BOOLEAN, rest : {"no", "done", "error"}, timer : BOOLEAN,
            failures : 0..MaxFailures, batch : 1..MaxBatch, started : BOOLEAN]

TypeOK ==
  /\ blocks \subseteq Block /\ activity \subseteq Block /\ stats \subseteq Block
  /\ skipped \subseteq Height
  /\ fails \in [Height -> Nat]
  /\ fallback \in BOOLEAN
  /\ tasks \subseteq Task
  /\ isTaskRunning \in BOOLEAN
  /\ indexer \in Indexer
  /\ crashes \in 0..MaxCrashes

Fresh == [running |-> FALSE, rest |-> "no", timer |-> FALSE, failures |-> 0,
          batch |-> InitialBatch, started |-> FALSE]

Init ==
  /\ blocks = {} /\ activity = {} /\ stats = {} /\ skipped = {}
  /\ fails = [h \in Height |-> 0]
  /\ fallback = FALSE
  /\ tasks = {} /\ isTaskRunning = FALSE
  /\ indexer = Fresh
  /\ crashes = 0

\* getBlocksWithoutOrdpoolStatsInRange(): a skipped height hides all its blocks.
Missing == {b \in blocks \ stats : HeightOf[b] \notin skipped}

\* ... ordered by height, in any order within one, and limited.
Batches(limit) ==
  LET n == IF Cardinality(Missing) < limit THEN Cardinality(Missing) ELSE limit
  IN {q \in [1..n -> Missing] :
        /\ IsInjective(q)
        /\ \A i, j \in 1..n : i < j => HeightOf[q[i]] <= HeightOf[q[j]]
        /\ \A i \in 1..n : \A b \in Missing \ Range(q) : HeightOf[q[i]] <= HeightOf[b]}

-----------------------------------------------------------------------------
(* blocks.ts adds blocks, with their statistics unless it has none          *)

AddBlock(b) ==
  /\ b \notin blocks
  /\ blocks' = blocks \cup {b}
  /\ \/ activity' = activity \cup {b} /\ stats' = stats \cup {b}
     \/ UNCHANGED <<activity, stats>>
  /\ UNCHANGED <<skipped, fails, fallback, tasks, isTaskRunning, indexer, crashes>>

\* The memory of the process is lost; the tables stay.
Crash ==
  /\ crashes < MaxCrashes
  /\ crashes' = crashes + 1
  /\ fails' = [h \in Height |-> 0]
  /\ fallback' = FALSE
  /\ tasks' = {} /\ isTaskRunning' = FALSE
  /\ indexer' = Fresh
  /\ UNCHANGED tables

-----------------------------------------------------------------------------
(* OrdpoolIndexer                                                          *)

Halved(n) == (n + 1) \div 2
Grown(n) == LET grown == n + Halved(n) IN IF grown < MaxBatch THEN grown ELSE MaxBatch

\* The ends of run(), each of which schedules the next one: nothing to do, ...
RestDone(i) == [i EXCEPT !.running = FALSE, !.rest = "done", !.timer = TRUE]

\* ... an error, after which the batch is halved and maxFailures in a row rest, ...
RestFailed(i) ==
  LET count == IF i.failures < MaxFailures THEN i.failures + 1 ELSE MaxFailures
  IN [i EXCEPT !.running = FALSE, !.timer = TRUE, !.batch = Halved(i.batch), !.failures = count,
               !.rest = IF count = MaxFailures THEN "error" ELSE @]

\* ... and a success, after which the batch grows, stays or shrinks with the time it took.
Continued(i, batch) ==
  [i EXCEPT !.running = FALSE, !.timer = TRUE, !.failures = 0, !.batch = batch]

\* processMissingStats() is called with the flag down: it takes the flag and goes on to its query.
StartTask(i) ==
  /\ ~ isTaskRunning /\ isTaskRunning' = TRUE
  /\ tasks' = tasks \cup {[limit |-> i.batch, left |-> <<>>, at |-> "query", processed |-> FALSE,
                           awaited |-> TRUE]}

\* Seeded: a run that finds the indexer resting schedules nothing.
FaultyRun(i) ==
  IF i.running \/ i.rest # "no" THEN indexer' = i /\ UNCHANGED <<tasks, isTaskRunning>>
  ELSE indexer' = [i EXCEPT !.running = TRUE] /\ StartTask(i)

\* run(), called with the indexer in state i.  With the flag up, processMissingStats() returns false at once.
Run(i) ==
  \/ /\ \/ i.running /\ indexer' = i
        \/ ~ i.running /\ i.rest # "no" /\ indexer' = [i EXCEPT !.timer = TRUE]
        \/ ~ i.running /\ i.rest = "no" /\ isTaskRunning /\ indexer' = RestDone(i)
     /\ UNCHANGED <<tasks, isTaskRunning>>
  \/ ~ i.running /\ i.rest = "no" /\ StartTask(i) /\ indexer' = [i EXCEPT !.running = TRUE]

\* The main loop comes by.
MainLoop ==
  /\ Run([indexer EXCEPT !.started = TRUE])
  /\ UNCHANGED <<tables, fails, fallback, crashes>>

TimerFires ==
  /\ indexer.timer
  /\ Run([indexer EXCEPT !.timer = FALSE])
  /\ UNCHANGED <<tables, fails, fallback, crashes>>

\* sleepUntil passes.
WakeUp ==
  /\ indexer.rest # "no"
  /\ indexer' = [indexer EXCEPT !.rest = "no"]
  /\ UNCHANGED <<tables, fails, fallback, tasks, isTaskRunning, crashes>>

\* Seeded: a task that is given up counts as ended.
FaultyBatchTimeout(t) ==
  /\ t \in tasks /\ t.awaited
  /\ tasks' = (tasks \ {t}) \cup {[t EXCEPT !.awaited = FALSE]}
  /\ isTaskRunning' = FALSE
  /\ indexer' = RestFailed(indexer)
  /\ UNCHANGED <<tables, fails, fallback, crashes>>

\* BATCH_TIMEOUT_MS passes first: run() goes on without the task, which goes on as well and keeps the flag.
BatchTimeout(t) ==
  /\ t \in tasks /\ t.awaited
  /\ tasks' = (tasks \ {t}) \cup {[t EXCEPT !.awaited = FALSE]}
  /\ indexer' = RestFailed(indexer)
  /\ UNCHANGED <<tables, fails, fallback, isTaskRunning, crashes>>

-----------------------------------------------------------------------------
(* OrdpoolMissingStats                                                     *)

Becomes(t, u) == tasks' = (tasks \ {t}) \cup {u} /\ UNCHANGED <<isTaskRunning, indexer>>

\* The task lays the flag down (the finally block) and ends by an error, or returns whether it has processed a block.
Ends(t) == tasks' = tasks \ {t} /\ isTaskRunning' = FALSE

Throws(t) ==
  /\ Ends(t)
  /\ indexer' = IF t.awaited THEN RestFailed(indexer) ELSE indexer

Returns(t, more) ==
  /\ Ends(t)
  /\ \/ ~ t.awaited /\ UNCHANGED indexer
     \/ t.awaited /\ ~ more /\ indexer' = RestDone(indexer)
     \/ /\ t.awaited /\ more
        /\ \E batch \in {Grown(indexer.batch), indexer.batch, Halved(indexer.batch)} :
             indexer' = Continued(indexer, batch)

\* Task t is through with the block in hand and its record is u: the next block, or the
\* end of the loop.
Proceed(t, u) ==
  LET rest == Tail(t.left)
  IN IF rest # <<>> THEN Becomes(t, [u EXCEPT !.left = rest, !.at = "fetch"])
     ELSE IF u.processed THEN Returns(t, TRUE)
     ELSE Throws(t)

\* The query for the batch.
Query(t) ==
  /\ t \in tasks /\ t.at = "query"
  /\ IF Missing = {}
     THEN Returns(t, FALSE)
     ELSE \E q \in Batches(t.limit) : Becomes(t, [t EXCEPT !.left = q, !.at = "fetch"])
  /\ UNCHANGED <<tables, fails, fallback, crashes>>

QueryFails(t) ==
  /\ t \in tasks /\ t.at = "query"
  /\ Throws(t)
  /\ UNCHANGED <<tables, fails, fallback, crashes>>

\* Block b is fetched, from esplora while the fallback lasts, and analysed.
Fetch(t, b) ==
  /\ t \in tasks /\ t.at = "fetch" /\ b = Head(t.left) /\ b \notin Poison
  /\ fallback' \in {fallback, FALSE}
  /\ Becomes(t, [t EXCEPT !.at = "activity"])
  /\ UNCHANGED <<tables, fails, crashes>>

\* Seeded: the row of ordpool_stats is inserted first.
FaultySaveActivity(t, b) ==
  /\ t \in tasks /\ t.at = "activity" /\ b = Head(t.left)
  /\ stats' = stats \cup {b}
  /\ Becomes(t, [t EXCEPT !.at = "stats"])
  /\ UNCHANGED <<blocks, activity, skipped, fails, fallback, crashes>>

\* saveTokenActivity(): an insert replaces the row that is there.
SaveActivity(t, b) ==
  /\ t \in tasks /\ t.at = "activity" /\ b = Head(t.left)
  /\ activity' = activity \cup {b}
  /\ Becomes(t, [t EXCEPT !.at = "stats"])
  /\ UNCHANGED <<blocks, stats, skipped, fails, fallback, crashes>>

\* The row of ordpool_stats, where a duplicate is ignored: the block is processed.
SaveStats(t, b) ==
  /\ t \in tasks /\ t.at = "stats" /\ b = Head(t.left)
  /\ stats' = stats \cup {b}
  /\ fails' = [fails EXCEPT ![HeightOf[b]] = 0]
  /\ Proceed(t, [t EXCEPT !.processed = TRUE])
  /\ UNCHANGED <<blocks, activity, skipped, fallback, crashes>>

\* Seeded: a block that fails is tried for ever.
FaultyPoisoned(count) == FALSE

Poisoned(count) == count >= Threshold

\* An error between the fetch and the last insert, which may have been done: fails is counted by height, and from
\* the threshold on the block is to be skipped.  (Counts beyond it are not told apart.)
BlockFails(t, b) ==
  /\ t \in tasks /\ t.at \in {"fetch", "activity", "stats"} /\ b = Head(t.left)
  /\ LET h == HeightOf[b]
         count == IF fails[h] < Threshold THEN fails[h] + 1 ELSE Threshold
     IN /\ fails' = [fails EXCEPT ![h] = count]
        /\ IF Poisoned(count)
           THEN Becomes(t, [t EXCEPT !.at = "skip"])
           ELSE Proceed(t, t)
  /\ activity' \in {activity, IF t.at = "activity" THEN activity \cup {b} ELSE activity}
  /\ stats' \in {stats, IF t.at = "stats" THEN stats \cup {b} ELSE stats}
  /\ fallback' = TRUE
  /\ UNCHANGED <<blocks, skipped, crashes>>

\* upsertSkippedBlock(), which may fail as well.
SkipBlock(t, b) ==
  /\ t \in tasks /\ t.at = "skip" /\ b = Head(t.left)
  /\ skipped' = skipped \cup {HeightOf[b]}
  /\ fails' = [fails EXCEPT ![HeightOf[b]] = 0]
  /\ Proceed(t, t)
  /\ UNCHANGED <<blocks, activity, stats, fallback, crashes>>

SkipFails(t, b) ==
  /\ t \in tasks /\ t.at = "skip" /\ b = Head(t.left)
  /\ Proceed(t, t)
  /\ UNCHANGED <<tables, fails, fallback, crashes>>

Step(t) ==
  \/ Query(t) \/ QueryFails(t)
  \/ \E b \in Block : Fetch(t, b) \/ SaveActivity(t, b) \/ SaveStats(t, b)
                      \/ BlockFails(t, b) \/ SkipBlock(t, b) \/ SkipFails(t, b)

Next ==
  \/ \E b \in Block : AddBlock(b)
  \/ Crash \/ MainLoop \/ TimerFires \/ WakeUp
  \/ \E t \in tasks : BatchTimeout(t) \/ Step(t)

Spec == Init /\ [][Next]_vars

\* The main loop and the timers go on, every call of a task ends, and neither the query
\* nor the insert of a skipped block fails for ever.
Fairness ==
  /\ WF_vars(MainLoop) /\ WF_vars(WakeUp)
  /\ WF_vars(\E t \in tasks : Step(t))
  /\ SF_vars(\E t \in tasks : Query(t))
  /\ \A b \in Block : SF_vars(\E t \in tasks : SkipBlock(t, b))

FairSpec == Spec /\ Fairness

-----------------------------------------------------------------------------
\* A block counts as indexed only when its token activity is complete: the query never
\* asks for it again, whatever failed or crashed between the two.
ActivityFirst == stats \subseteq activity

\* isTaskRunning "prevents overlapping task executions", those of tasks the batch timeout has given up too: no way
\* a task goes on or ends, and no way run() is entered, lets the flag be down while one is under way.
OneTask == Cardinality(tasks) <= 1

\* Once called, the indexer has always a run in flight or its next one scheduled.
Scheduled == indexer.started => indexer.running \/ indexer.timer

\* No block is in the way of the others ("the indexer looped on it for hours"): each one
\* is indexed in the end, or skipped.
EveryBlockHandled ==
  \A b \in Block : b \in blocks ~> (b \in stats \/ HeightOf[b] \in skipped)
=============================================================================
