------------------------- MODULE OrdpoolIndexerProofs -------------------------
(* Theorems about OrdpoolIndexer, for any blocks, poisonous ones and bounds. *)
EXTENDS OrdpoolIndexer, FiniteSetTheorems, SequenceTheorems, TLAPS

\* A task past its query has a block in hand, whose activity is stored when the row of
\* ordpool_stats is next.
Healthy(t, stored) ==
  /\ t \in Task
  /\ t.at # "query" => t.left # <<>>
  /\ t.at = "stats" => Head(t.left) \in stored

\* The flag is up exactly while a task is under way.
TasksGood ==
  /\ \A t \in tasks : Healthy(t, activity)
  /\ isTaskRunning \in BOOLEAN
  /\ isTaskRunning <=> tasks # {}
  /\ \A t, u \in tasks : t = u

IndexerGood == indexer \in Indexer /\ Scheduled

IInv == TypeOK /\ IsFiniteSet(blocks) /\ TasksGood /\ ActivityFirst /\ Scheduled

-----------------------------------------------------------------------------
(* The indexer                                                             *)

\* Batch sizes stay within their bounds.
LEMMA HalvedTyped ==
  ASSUME NEW n \in 1..MaxBatch
  PROVE  Halved(n) \in 1..MaxBatch /\ Grown(n) \in 1..MaxBatch
<1>1. MaxBatch \in Nat /\ n \in Nat
  BY IndexerAssumption
<1>2. Halved(n) \in Nat /\ Halved(n) >= 1 /\ Halved(n) <= n
  BY <1>1 DEF Halved
<1> HIDE DEF Halved
<1> QED
  BY <1>1, <1>2 DEF Grown

\* However a run ends, the next one is scheduled.
LEMMA EndsTyped ==
  ASSUME NEW i \in Indexer, NEW batch \in 1..MaxBatch
  PROVE  /\ RestDone(i) \in Indexer /\ RestDone(i).timer
         /\ RestFailed(i) \in Indexer /\ RestFailed(i).timer
         /\ Continued(i, batch) \in Indexer /\ Continued(i, batch).timer
<1>1. RestDone(i) \in Indexer /\ RestDone(i).timer
  BY DEF Indexer, RestDone
<1>2. Continued(i, batch) \in Indexer /\ Continued(i, batch).timer
  <2>1. 0 \in 0..MaxFailures
    BY IndexerAssumption
  <2> QED
    BY <2>1 DEF Indexer, Continued
<1>3. RestFailed(i) \in Indexer /\ RestFailed(i).timer
  <2>1. i.batch \in 1..MaxBatch /\ i.failures \in 0..MaxFailures
    BY DEF Indexer
  <2>2. Halved(i.batch) \in 1..MaxBatch
    BY <2>1, HalvedTyped
  <2>3. (IF i.failures < MaxFailures THEN i.failures + 1 ELSE MaxFailures) \in 0..MaxFailures
    BY <2>1, IndexerAssumption
  <2> HIDE DEF Halved
  <2> QED
    BY <2>2, <2>3 DEF Indexer, RestFailed
<1> QED
  BY <1>1, <1>2, <1>3

-----------------------------------------------------------------------------
(* The tasks                                                               *)

\* A task goes on.
LEMMA BecomesKeeps ==
  ASSUME TasksGood, NEW t \in tasks, NEW u, Becomes(t, u),
         activity \subseteq activity', Healthy(u, activity')
  PROVE  TasksGood'
BY DEF TasksGood, Becomes, Healthy

\* A task ends.
LEMMA EndKeeps ==
  ASSUME IInv, NEW t \in tasks, activity \subseteq activity',
         Throws(t) \/ \E more \in BOOLEAN : Returns(t, more)
  PROVE  TasksGood' /\ IndexerGood'
<1>1. TasksGood'
  BY DEF IInv, TasksGood, Healthy, Throws, Returns, Ends
<1>2. indexer.batch \in 1..MaxBatch /\ indexer \in Indexer
  BY DEF IInv, TypeOK, Indexer
<1>3. \E batch \in 1..MaxBatch :
        indexer' \in {indexer, RestDone(indexer), RestFailed(indexer), Continued(indexer, batch)}
  BY <1>2, HalvedTyped DEF Throws, Returns
<1>4. indexer' \in Indexer /\ (indexer' = indexer \/ indexer'.timer)
  BY <1>2, <1>3, EndsTyped
<1> QED
  BY <1>1, <1>4 DEF IInv, IndexerGood, Scheduled

\* A task is through with a block.
LEMMA ProceedKeeps ==
  ASSUME IInv, NEW t \in tasks, t.left # <<>>, NEW u \in Task,
         activity \subseteq activity', Proceed(t, u)
  PROVE  TasksGood' /\ IndexerGood'
<1>1. CASE Tail(t.left) # <<>>
  <2> DEFINE v == [u EXCEPT !.left = Tail(t.left), !.at = "fetch"]
  <2>1. Tail(t.left) \in Seq(Block)
    BY HeadTailProperties DEF IInv, TasksGood, Healthy, Task
  <2>2. Healthy(v, activity')
    BY <1>1, <2>1 DEF Healthy, Task
  <2>3. Becomes(t, v)
    BY <1>1 DEF Proceed
  <2>4. TasksGood'
    BY <2>2, <2>3, BecomesKeeps DEF IInv
  <2> QED
    BY <2>3, <2>4 DEF IInv, TypeOK, IndexerGood, Becomes, Scheduled
<1>2. CASE Tail(t.left) = <<>>
  BY <1>2, EndKeeps DEF Proceed
<1> QED
  BY <1>1, <1>2

\* run() starts at most one task, and only if none is under way.
LEMMA RunKeeps ==
  ASSUME IInv, NEW i \in Indexer, Run(i),
         activity' = activity
  PROVE  TasksGood' /\ IndexerGood'
<1>1. CASE UNCHANGED <<tasks, isTaskRunning>>
  <2>1. TasksGood'
    BY <1>1 DEF IInv, TasksGood, Healthy
  <2>2. i.batch \in 1..MaxBatch
    BY DEF Indexer
  <2>3. \/ indexer' = i /\ i.running
        \/ indexer' = [i EXCEPT !.timer = TRUE]
        \/ indexer' = RestDone(i)
        \/ indexer' = [i EXCEPT !.running = TRUE]
    BY <1>1 DEF Run, StartTask, IInv, TasksGood
  <2>4. indexer' \in Indexer /\ (indexer'.running \/ indexer'.timer)
    BY <2>2, <2>3, EndsTyped DEF Indexer
  <2> QED
    BY <2>1, <2>4 DEF IndexerGood, Scheduled
<1>2. CASE ~UNCHANGED <<tasks, isTaskRunning>>
  <2> DEFINE new == [limit |-> i.batch, left |-> <<>>, at |-> "query", processed |-> FALSE,
                     awaited |-> TRUE]
  <2>1. /\ tasks = {} /\ tasks' = {new} /\ isTaskRunning'
        /\ isTaskRunning' \in BOOLEAN /\ indexer' = [i EXCEPT !.running = TRUE]
    BY <1>2 DEF Run, StartTask, IInv, TasksGood
  <2>2. Healthy(new, activity')
    BY EmptySeq DEF Healthy, Task, Indexer
  <2>3. TasksGood'
    <3> HIDE DEF new
    <3> QED
      BY <2>1, <2>2 DEF TasksGood, Healthy
  <2> QED
    BY <2>1, <2>3 DEF IndexerGood, Scheduled, Indexer
<1> QED
  BY <1>1, <1>2

\* The batch of a query is a sequence of blocks, not an empty one.
LEMMA BatchTyped ==
  ASSUME IInv, Missing # {}, NEW limit \in 1..MaxBatch, NEW q \in Batches(limit)
  PROVE  q \in Seq(Block) /\ q # <<>>
<1> DEFINE n == IF Cardinality(Missing) < limit THEN Cardinality(Missing) ELSE limit
<1>1. IsFiniteSet(Missing)
  <2>1. Missing \in SUBSET blocks
    BY DEF Missing
  <2> QED
    BY <2>1, FS_Subset DEF IInv
<1>2. Cardinality(Missing) \in Nat /\ Cardinality(Missing) # 0
  BY <1>1, FS_CardinalityType, FS_EmptySet
<1>3. n \in Nat /\ n >= 1
  BY <1>2, IndexerAssumption
<1>4. q \in [1..n -> Missing]
  BY DEF Batches
<1>5. Missing \subseteq Block
  BY DEF IInv, TypeOK, Missing
<1> HIDE DEF n
<1>6. q \in Seq(Missing)
  BY <1>3, <1>4, SeqDef
<1>7. q \in Seq(Block)
  BY <1>5, <1>6, SeqMonotonic
<1>8. 1 \in DOMAIN q
  BY <1>3, <1>4
<1>9. DOMAIN <<>> = {}
  OBVIOUS
<1> QED
  BY <1>7, <1>8, <1>9

-----------------------------------------------------------------------------
(* The steps                                                               *)

\* Each step shows what it does to the tables, to the tasks and to the indexer.
Kept ==
  /\ tables' \in (SUBSET Block) \X (SUBSET Block) \X (SUBSET Block) \X (SUBSET Height)
  /\ fails' \in [Height -> Nat] /\ fallback' \in BOOLEAN /\ crashes' \in 0..MaxCrashes
  /\ IsFiniteSet(blocks') /\ ActivityFirst'

\* The rest of the invariant follows from what a step of a task leaves alone.
LEMMA KeptSuffices ==
  ASSUME Kept, TasksGood', IndexerGood'
  PROVE  IInv'
BY DEF Kept, TasksGood, IndexerGood, IInv, TypeOK, Healthy, tables

\* The height of a block is a height.
LEMMA HeightTyped ==
  ASSUME NEW b \in Block
  PROVE  HeightOf[b] \in Height
BY DEF Height

\* The steps of the main loop, the timers, blocks.ts, and the crash.
Outside == (\E b \in Block : AddBlock(b)) \/ Crash \/ MainLoop \/ TimerFires \/ WakeUp

\* Blocks, the node and restarts keep the invariant.
LEMMA OutsideKeeps ==
  ASSUME IInv, Outside
  PROVE  IInv'
<1>1. ASSUME NEW b \in Block, AddBlock(b)
      PROVE  IInv'
  <2>1. IsFiniteSet(blocks')
    BY <1>1, FS_AddElement DEF IInv, AddBlock
  <2>2. Kept
    BY <1>1, <2>1 DEF IInv, TypeOK, AddBlock, Kept, ActivityFirst, tables
  <2>3. activity \subseteq activity' /\ tasks' = tasks /\ isTaskRunning' = isTaskRunning
      /\ indexer' = indexer
    BY <1>1 DEF AddBlock
  <2>4. TasksGood' /\ IndexerGood'
    BY <2>3 DEF IInv, TypeOK, TasksGood, Healthy, IndexerGood, Scheduled
  <2> QED
    BY <2>2, <2>4, KeptSuffices
<1>2. CASE Crash
  <2>1. crashes' \in 0..MaxCrashes
    BY <1>2, IndexerAssumption DEF IInv, TypeOK, Crash
  <2>2. Kept
    BY <1>2, <2>1 DEF IInv, TypeOK, Crash, Kept, ActivityFirst, tables
  <2>3. TasksGood'
    BY <1>2 DEF Crash, TasksGood
  <2>4. IndexerGood'
    BY <1>2, IndexerAssumption DEF Crash, IndexerGood, Indexer, Scheduled, Fresh
  <2> QED
    BY <2>2, <2>3, <2>4, KeptSuffices
<1>3. CASE MainLoop
  <2>1. [indexer EXCEPT !.started = TRUE] \in Indexer
    BY DEF IInv, TypeOK, Indexer
  <2>2. Kept
    BY <1>3 DEF IInv, TypeOK, MainLoop, Kept, ActivityFirst, tables
  <2> QED
    BY <1>3, <2>1, <2>2, RunKeeps, KeptSuffices DEF MainLoop, tables
<1>4. CASE TimerFires
  <2>1. [indexer EXCEPT !.timer = FALSE] \in Indexer
    BY DEF IInv, TypeOK, Indexer
  <2>2. Kept
    BY <1>4 DEF IInv, TypeOK, TimerFires, Kept, ActivityFirst, tables
  <2> QED
    BY <1>4, <2>1, <2>2, RunKeeps, KeptSuffices DEF TimerFires, tables
<1>5. CASE WakeUp
  <2>1. Kept
    BY <1>5 DEF IInv, TypeOK, WakeUp, Kept, ActivityFirst, tables
  <2>2. TasksGood'
    BY <1>5 DEF IInv, WakeUp, TasksGood, Healthy, tables
  <2>3. IndexerGood'
    BY <1>5 DEF IInv, TypeOK, WakeUp, IndexerGood, Indexer, Scheduled
  <2> QED
    BY <2>1, <2>2, <2>3, KeptSuffices
<1> QED
  BY <1>1, <1>2, <1>3, <1>4, <1>5 DEF Outside

\* A task that is given up goes on, and the next run is scheduled.
LEMMA BatchTimeoutKeeps ==
  ASSUME IInv, NEW t \in tasks, BatchTimeout(t)
  PROVE  IInv'
<1>1. Kept
  BY DEF IInv, TypeOK, BatchTimeout, Kept, ActivityFirst, tables
<1>2. Healthy([t EXCEPT !.awaited = FALSE], activity)
  BY DEF IInv, TasksGood, Healthy, Task
<1>3. TasksGood'
  BY <1>2 DEF IInv, BatchTimeout, TasksGood, Healthy, tables
<1>4. indexer' = RestFailed(indexer) /\ indexer \in Indexer
  BY DEF IInv, TypeOK, BatchTimeout
<1>5. indexer.batch \in 1..MaxBatch
  BY <1>4 DEF Indexer
<1>6. IndexerGood'
  BY <1>4, <1>5, EndsTyped DEF IndexerGood, Scheduled
<1> QED
  BY <1>1, <1>3, <1>6, KeptSuffices

\* The query of a batch keeps the invariant.
LEMMA QueryKeeps ==
  ASSUME IInv, NEW t \in tasks, Query(t) \/ QueryFails(t)
  PROVE  IInv'
<1>1. Kept
  BY DEF IInv, TypeOK, Query, QueryFails, Kept, ActivityFirst, tables
<1>2. activity' = activity
  BY DEF Query, QueryFails, tables
<1>3. CASE QueryFails(t) \/ (Query(t) /\ Missing = {})
  BY <1>1, <1>2, <1>3, EndKeeps, KeptSuffices DEF Query, QueryFails
<1>4. CASE Query(t) /\ Missing # {}
  <2>1. t \in Task /\ t.limit \in 1..MaxBatch
    BY DEF IInv, TasksGood, Healthy, Task
  <2>2. PICK q \in Batches(t.limit) : Becomes(t, [t EXCEPT !.left = q, !.at = "fetch"])
    BY <1>4 DEF Query
  <2>3. q \in Seq(Block) /\ q # <<>>
    BY <1>4, <2>1, <2>2, BatchTyped
  <2>4. Healthy([t EXCEPT !.left = q, !.at = "fetch"], activity')
    BY <2>1, <2>3 DEF Healthy, Task
  <2>5. TasksGood'
    BY <1>2, <2>2, <2>4, BecomesKeeps DEF IInv
  <2>6. IndexerGood'
    BY <2>2 DEF IInv, TypeOK, Becomes, IndexerGood, Scheduled
  <2> QED
    BY <1>1, <2>5, <2>6, KeptSuffices
<1> QED
  BY <1>3, <1>4

\* So does every step of handling a block: statistics are saved after the activity.
LEMMA BlockKeeps ==
  ASSUME IInv, NEW t \in tasks, NEW b \in Block,
         \/ Fetch(t, b) \/ SaveActivity(t, b) \/ SaveStats(t, b)
         \/ BlockFails(t, b) \/ SkipBlock(t, b) \/ SkipFails(t, b)
  PROVE  IInv'
<1>1. t \in Task /\ t.left # <<>> /\ b = Head(t.left) /\ HeightOf[b] \in Height
  BY HeightTyped DEF IInv, TasksGood, Healthy, Fetch, SaveActivity, SaveStats, BlockFails,
                     SkipBlock, SkipFails
<1>2. IndexerGood
  BY DEF IInv, TypeOK, IndexerGood
<1>3. CASE Fetch(t, b)
  <2>1. Kept
    BY <1>3 DEF IInv, TypeOK, Fetch, Kept, ActivityFirst, tables
  <2>2. Healthy([t EXCEPT !.at = "activity"], activity')
    BY <1>1 DEF Healthy, Task
  <2>3. TasksGood'
    BY <1>3, <2>2, BecomesKeeps DEF IInv, Fetch, tables
  <2> QED
    BY <1>2, <1>3, <2>1, <2>3, KeptSuffices DEF Fetch, Becomes, IndexerGood, Scheduled
<1>4. CASE SaveActivity(t, b)
  <2>1. Kept
    BY <1>4 DEF IInv, TypeOK, SaveActivity, Kept, ActivityFirst, tables
  <2>2. Healthy([t EXCEPT !.at = "stats"], activity')
    BY <1>1, <1>4 DEF Healthy, Task, SaveActivity
  <2>3. TasksGood'
    BY <1>4, <2>2, BecomesKeeps DEF IInv, SaveActivity
  <2> QED
    BY <1>2, <1>4, <2>1, <2>3, KeptSuffices DEF SaveActivity, Becomes, IndexerGood, Scheduled
<1>5. CASE SaveStats(t, b)
  <2>1. b \in activity
    BY <1>1, <1>5 DEF IInv, TasksGood, Healthy, SaveStats
  <2>2. Kept
    BY <1>1, <1>5, <2>1 DEF IInv, TypeOK, SaveStats, Kept, ActivityFirst, tables
  <2>3. [t EXCEPT !.processed = TRUE] \in Task
    BY <1>1 DEF Task
  <2> QED
    BY <1>1, <1>5, <2>2, <2>3, ProceedKeeps, KeptSuffices DEF SaveStats
<1>6. CASE BlockFails(t, b)
  <2>1. t.at = "stats" => b \in activity
    BY <1>1 DEF IInv, TasksGood, Healthy
  <2>2. activity \subseteq activity' /\ activity' \subseteq Block
    BY <1>6 DEF IInv, TypeOK, BlockFails
  <2>3. stats' \subseteq activity' /\ stats' \subseteq Block
    BY <1>6, <2>1, <2>2 DEF IInv, TypeOK, ActivityFirst, BlockFails
  <2>4. fails' \in [Height -> Nat]
    BY <1>1, <1>6, IndexerAssumption DEF IInv, TypeOK, BlockFails
  <2>5. Kept
    BY <1>6, <2>2, <2>3, <2>4 DEF IInv, TypeOK, BlockFails, Kept, ActivityFirst, tables
  <2>6. CASE Becomes(t, [t EXCEPT !.at = "skip"])
    <3>1. Healthy([t EXCEPT !.at = "skip"], activity')
      BY <1>1 DEF Healthy, Task
    <3>2. TasksGood'
      BY <2>2, <2>6, <3>1, BecomesKeeps DEF IInv
    <3> QED
      BY <1>2, <2>5, <2>6, <3>2, KeptSuffices DEF Becomes, IndexerGood, Scheduled
  <2>7. CASE Proceed(t, t)
    BY <1>1, <2>2, <2>5, <2>7, ProceedKeeps, KeptSuffices
  <2> QED
    BY <1>6, <2>6, <2>7 DEF BlockFails
<1>7. CASE SkipBlock(t, b)
  <2>1. Kept
    BY <1>1, <1>7 DEF IInv, TypeOK, SkipBlock, Kept, ActivityFirst, tables
  <2> QED
    BY <1>1, <1>7, <2>1, ProceedKeeps, KeptSuffices DEF SkipBlock
<1>8. CASE SkipFails(t, b)
  <2>1. Kept
    BY <1>8 DEF IInv, TypeOK, SkipFails, Kept, ActivityFirst, tables
  <2> QED
    BY <1>1, <1>8, <2>1, ProceedKeeps, KeptSuffices DEF SkipFails, tables
<1> QED
  BY <1>3, <1>4, <1>5, <1>6, <1>7, <1>8

\* Every step keeps the invariant.
LEMMA NextKeeps ==
  ASSUME IInv, [Next]_vars
  PROVE  IInv'
<1>1. CASE Outside
  BY <1>1, OutsideKeeps
<1>2. ASSUME NEW t \in tasks, BatchTimeout(t) \/ Step(t)
      PROVE  IInv'
  BY <1>2, BatchTimeoutKeeps, QueryKeeps, BlockKeeps DEF Step
<1>3. CASE UNCHANGED vars
  BY <1>3 DEF IInv, TypeOK, TasksGood, Healthy, ActivityFirst, Scheduled, vars, tables
<1> QED
  BY <1>1, <1>2, <1>3 DEF Next, Outside

\* It holds at the start.
LEMMA InitHolds == Init => IInv
<1> SUFFICES ASSUME Init PROVE IInv
  OBVIOUS
<1>1. TypeOK
  <2>1. fails \in [Height -> Nat] /\ crashes \in 0..MaxCrashes
    BY IndexerAssumption DEF Init
  <2>2. 0 \in 0..MaxFailures
    BY IndexerAssumption
  <2>3. indexer \in Indexer
    BY <2>2, IndexerAssumption DEF Init, Fresh, Indexer
  <2> QED
    BY <2>1, <2>3 DEF Init, TypeOK
<1> QED
  BY <1>1, FS_EmptySet DEF Init, IInv, TasksGood, ActivityFirst, Scheduled, Fresh

-----------------------------------------------------------------------------
(* The theorems                                                            *)

\* The inductive invariant.
THEOREM Inductive == Spec => []IInv
<1> QED
  BY InitHolds, NextKeeps, PTL DEF Spec

\* Types; the size of a batch stays within its bounds.
THEOREM TypeCorrect == Spec => []TypeOK
<1>1. IInv => TypeOK
  BY DEF IInv
<1> QED
  BY <1>1, Inductive, PTL

\* A block counts as indexed only when its token activity is stored, through crashes,
\* errors between the inserts, and batches given up that still run.
THEOREM ActivityFirstHolds == Spec => []ActivityFirst
<1>1. IInv => ActivityFirst
  BY DEF IInv
<1> QED
  BY <1>1, Inductive, PTL

\* Tasks do not overlap, those the batch timeout has given up included.
THEOREM OneTaskHolds == Spec => []OneTask
<1>1. IInv => OneTask
  <2> SUFFICES ASSUME IInv PROVE Cardinality(tasks) <= 1
    BY DEF OneTask
  <2>1. CASE tasks = {}
    BY <2>1, FS_EmptySet
  <2>2. CASE tasks # {}
    <3>1. PICK t \in tasks : tasks = {t}
      BY <2>2 DEF IInv, TasksGood
    <3>2. Cardinality({t}) = 1
      BY FS_Singleton
    <3> QED
      BY <3>1, <3>2
  <2> QED
    BY <2>1, <2>2
<1> QED
  BY <1>1, Inductive, PTL

\* Once started, the indexer is running or has its next run planned.
THEOREM ScheduledHolds == Spec => []Scheduled
<1>1. IInv => Scheduled
  BY DEF IInv
<1> QED
  BY <1>1, Inductive, PTL
=============================================================================
