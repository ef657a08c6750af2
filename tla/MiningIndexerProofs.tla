------------------------- MODULE MiningIndexerProofs -------------------------
(* Theorems about MiningIndexer, for any set of blocks and any bounds.       *)
EXTENDS MiningIndexer, TLAPS

\* One step of $run() or of its timers.
RunStep == Run \/ CoreSynced \/ ChainValid \/ DataIndexed \/ RunFails \/ NextRunTimer

\* The steps of $run() keep the types.
LEMMA RunStepTyped ==
  ASSUME TypeOK, RunStep
  PROVE  TypeOK'
<1>1. CASE Run
  BY <1>1 DEF TypeOK, Run, tasks, tables, feed
<1>2. CASE CoreSynced
  BY <1>2 DEF TypeOK, CoreSynced, RunSingleTask, FirstAwait, Task, tables, feed
<1>3. CASE ChainValid
  BY <1>3 DEF TypeOK, ChainValid, RunSingleTask, FirstAwait, Task, tables, feed
<1>4. CASE DataIndexed
  BY <1>4 DEF TypeOK, DataIndexed, FinishRun, ScheduleNextRun, tasks, tables, feed
<1>5. CASE RunFails
  BY <1>5 DEF TypeOK, RunFails, FinishRun, ScheduleNextRun, tasks, tables, feed
<1>6. CASE NextRunTimer
  BY <1>6 DEF TypeOK, NextRunTimer, Reindex, tasks, tables, feed
<1> QED
  BY <1>1, <1>2, <1>3, <1>4, <1>5, <1>6 DEF RunStep

\* One step of a single task or of its timer.
TaskStep ==
  PriceTask \/ IndexCoinStats \/ \E t \in Task : TaskTimer(t) \/ TaskFails(t)

\* So do those of the price task ...
LEMMA TaskStepTyped ==
  ASSUME TypeOK, TaskStep
  PROVE  TypeOK'
<1>1. CASE WaitForHistory
  BY <1>1 DEF TypeOK, WaitForHistory, ScheduleSingleTask, Task, runs, tables, feed
<1>2. CASE HistoryThere
  BY <1>2 DEF TypeOK, HistoryThere, Task, runs, tables, feed
<1>3. CASE ReadBlocks
  BY <1>3 DEF TypeOK, ReadBlocks, Priceable, Task, runs, tables, feed
<1>4. CASE SavePrices
  BY <1>4 DEF TypeOK, SavePrices, Task, runs, feed
<1>5. CASE IndexCoinStats
  BY <1>5 DEF TypeOK, IndexCoinStats, Task, runs, tables, feed
<1>6. ASSUME NEW t \in Task, TaskTimer(t)
      PROVE  TypeOK'
  BY <1>6 DEF TypeOK, TaskTimer, RunSingleTask, FirstAwait, Task, runs, tables, feed
<1>7. ASSUME NEW t \in Task, TaskFails(t)
      PROVE  TypeOK'
  BY <1>7 DEF TypeOK, TaskFails, Task, runs, tables, feed
<1> QED
  BY <1>1, <1>2, <1>3, <1>4, <1>5, <1>6, <1>7 DEF TaskStep, PriceTask

\* One step of blocks.ts, of the price updater, or a crash.
OtherStep ==
  \/ \E b \in Block : SaveBlock(b)
  \/ PriceBlock \/ PriceBlockLater \/ InsertHistory \/ NewDay \/ NewPrice \/ Crash

\* ... and what happens around them.
LEMMA OtherStepTyped ==
  ASSUME TypeOK, OtherStep
  PROVE  TypeOK'
<1>1. ASSUME NEW b \in Block, SaveBlock(b)
      PROVE  TypeOK'
  BY <1>1 DEF TypeOK, SaveBlock, Reindex, tasks, feed
<1>2. CASE PriceBlock
  BY <1>2 DEF TypeOK, PriceBlock, runs, tasks, feed
<1>3. CASE PriceBlockLater
  BY <1>3 DEF TypeOK, PriceBlockLater, ScheduleSingleTask, Task, runs, tables, feed
<1>4. CASE InsertHistory
  BY <1>4 DEF TypeOK, InsertHistory, runs, tasks, tables
<1>5. CASE NewDay
  <2>1. days \in 0..MaxDays /\ days < MaxDays /\ days' = days + 1
    BY <1>5 DEF TypeOK, NewDay
  <2>2. days' \in 0..MaxDays
    BY <2>1, BoundsAssumption
  <2> QED
    BY <1>5, <2>2 DEF TypeOK, NewDay, runs, tasks, tables
<1>6. CASE NewPrice
  BY <1>6 DEF TypeOK, NewPrice, runs, tasks, feed
<1>7. CASE Crash
  <2>1. crashes \in 0..MaxCrashes /\ crashes < MaxCrashes /\ crashes' = crashes + 1
    BY <1>7 DEF TypeOK, Crash
  <2>2. crashes' \in 0..MaxCrashes
    BY <2>1, BoundsAssumption
  <2> QED
    BY <1>7, <2>2 DEF TypeOK, Crash, tables, Task
<1> QED
  BY <1>1, <1>2, <1>3, <1>4, <1>5, <1>6, <1>7 DEF OtherStep

\* TypeOK: in particular only saved blocks are priced, although the batch a task saves
\* was read earlier and survives what happens in between.
THEOREM TypeCorrect == Spec => []TypeOK
<1>1. Init => TypeOK
  <2>1. 0 \in 0..MaxCrashes /\ 0 \in 0..MaxDays
    BY BoundsAssumption
  <2> QED
    BY <2>1 DEF Init, TypeOK, Task
<1>2. TypeOK /\ [Next]_vars => TypeOK'
  <2> SUFFICES ASSUME TypeOK, [Next]_vars
               PROVE  TypeOK'
    OBVIOUS
  <2>1. CASE Next
    BY <2>1, RunStepTyped, TaskStepTyped, OtherStepTyped
       DEF Next, RunStep, TaskStep, OtherStep
  <2>2. CASE UNCHANGED vars
    BY <2>2 DEF TypeOK, vars, runs, tasks, tables, feed
  <2> QED
    BY <2>1, <2>2
<1> QED
  BY <1>1, <1>2, PTL DEF Spec

\* The indexer never goes to sleep for good, whatever fails: Planned is inductive.
THEOREM PlannedHolds == Spec => []Planned
<1>1. Init => Planned
  BY DEF Init, Planned
<1>2. Planned /\ [Next]_vars => Planned'
  <2> SUFFICES ASSUME Planned, [Next]_vars
               PROVE  Planned'
    OBVIOUS
  <2>1. CASE RunStep
    BY <2>1 DEF Planned, RunStep, Run, CoreSynced, ChainValid, DataIndexed, RunFails,
                FinishRun, ScheduleNextRun, NextRunTimer, Reindex
  <2>2. CASE TaskStep
    BY <2>2 DEF Planned, TaskStep, PriceTask, WaitForHistory, HistoryThere, ReadBlocks,
                SavePrices, IndexCoinStats, TaskTimer, TaskFails, runs
  <2>3. ASSUME NEW b \in Block, SaveBlock(b)
        PROVE  Planned'
    BY <2>3 DEF Planned, SaveBlock, Reindex
  <2>4. CASE PriceBlock \/ PriceBlockLater \/ InsertHistory \/ NewDay \/ NewPrice
    BY <2>4 DEF Planned, PriceBlock, PriceBlockLater, InsertHistory, NewDay, NewPrice, runs
  <2>5. CASE Crash
    BY <2>5 DEF Planned, Crash
  <2>6. CASE UNCHANGED vars
    BY <2>6 DEF Planned, vars, runs
  <2> QED
    BY <2>1, <2>2, <2>3, <2>4, <2>5, <2>6 DEF Next, RunStep, TaskStep
<1> QED
  BY <1>1, <1>2, PTL DEF Spec
=============================================================================
