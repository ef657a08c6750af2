------------------------------ MODULE ChainTips ------------------------------
(***************************************************************************)
(* The stale blocks the backend knows (chain-tips.ts), over ChainSync.     *)
(* updateOrphanedBlocks() runs before a block joins the cache and walks    *)
(* back from every fork of the node; blocks it has not met are queued and  *)
(* indexed in the background, $indexOrphanedBlocks(), while the main loop  *)
(* goes on; $handleReorgs() clears what it knows above the fork.           *)
(* $validateChain() is left to ChainSync.                                  *)
(***************************************************************************)
EXTENDS ChainSync

CONSTANT MaxTips    \* staleTipsCacheSize

ASSUME MaxTipsAssumption == MaxTips \in Nat \ {0}

VARIABLES
  seen,       \* blockCache: blocks met as orphans
  orphans,    \* orphanedBlocks, and by height orphansByHeight
  staleTips,  \* height -> [stale, canonical]
  queue,      \* indexingQueue
  job,        \* the entry being indexed, and where that is
  busy,       \* indexingOrphanedBlocks
  scan        \* updateOrphanedBlocks(): where it is, tips left, next hash, orphans found

tipVars == <<seen, orphans, staleTips, queue, job, busy, scan>>
tvars == <<vars, tipVars>>

\* index.ts scans once before the first round.
ScanAt(at) == [at |-> at, tips |-> {}, heights |-> {}, hash |-> None, found |-> {}]
NoJob == [at |-> "none", block |-> None]

TipsTypeOK ==
  /\ seen \subseteq Block /\ orphans \subseteq Block
  /\ DOMAIN staleTips \subseteq Nat /\ Cardinality(DOMAIN staleTips) <= MaxTips
  /\ \A h \in DOMAIN staleTips : staleTips[h] \in [stale : Block, canonical : Block]
  /\ queue \in Seq(Block) /\ busy \in BOOLEAN
  /\ job.at \in {"none", "index", "store"} /\ (job.at = "none" <=> job.block = None)
  /\ job.at # "none" => busy
  /\ scan.at \in {"boot", "off", "scan", "done"} /\ scan.found \subseteq Block

TInit ==
  /\ Init
  /\ seen = {} /\ orphans = {} /\ staleTips = [h \in {} |-> {}]
  /\ queue = <<>> /\ job = NoJob /\ busy = FALSE /\ scan = ScanAt("boot")

-----------------------------------------------------------------------------
(* updateOrphanedBlocks()                                                  *)

\* The forks of the node: blocks off its best chain that nothing builds on.
Forks == {b \in mined : ~OnMainChain(b) /\ \A c \in mined : Parent[c] # b}

\* The main loop scans when it has caught up with the tip but for two blocks.
ScanDue == pc = "push" /\ current >= target - 2

StartScan ==
  /\ scan.at = "boot" \/ (ScanDue /\ scan.at = "off")
  /\ scan' = [at |-> "scan", tips |-> Forks, heights |-> {Height[b] : b \in Forks},
              hash |-> None, found |-> {}]
  /\ UNCHANGED <<vars, seen, orphans, staleTips, queue, job, busy>>

NextFork(b) ==
  /\ scan.at = "scan" /\ scan.hash = None /\ b \in scan.tips
  /\ scan' = [scan EXCEPT !.hash = b, !.tips = @ \ {b}]
  /\ UNCHANGED <<vars, seen, orphans, staleTips, queue, job, busy>>

\* One block on the way back: known, or asked for and stale, or the end of the fork.
WalkFork ==
  LET b == scan.hash
      new == b \notin seen /\ ~OnMainChain(b)
  IN /\ scan.at = "scan" /\ b # None
     /\ seen' = IF new THEN seen \cup {b} ELSE seen
     /\ queue' = IF new THEN Append(queue, b) ELSE queue
     /\ scan' = IF b \in seen'
                THEN [scan EXCEPT !.hash = Parent[b], !.found = @ \cup {b}]
                ELSE [scan EXCEPT !.hash = None]
     /\ UNCHANGED <<vars, orphans, staleTips, job, busy>>

\* Of the stale tips only the heights of forks stay.
Restricted(heights) == [h \in DOMAIN staleTips \cap heights |-> staleTips[h]]

EndScan ==
  /\ orphans' = scan.found
  /\ staleTips' = Restricted(scan.heights)
  /\ busy' = (busy \/ queue # <<>>)
  /\ scan' = ScanAt(IF pc = "push" THEN "done" ELSE "off")
  /\ UNCHANGED <<seen, queue, job>>

ScanDone == scan.at = "scan" /\ scan.hash = None /\ scan.tips = {} /\ EndScan /\ UNCHANGED vars

\* After ten seconds the scan stops and takes what it has found for all there is.
ScanBreaks ==
  /\ scan.at = "scan" /\ (scan.hash # None \/ scan.tips # {}) /\ Rare
  /\ faults' = faults + 1
  /\ EndScan
  /\ UNCHANGED <<node, pc, local, cache, rows, check>>

\* An exception is logged; what was queued waits for the next scan.
ScanFails ==
  /\ scan.at = "scan" /\ Rare
  /\ faults' = faults + 1
  /\ scan' = ScanAt(IF pc = "push" THEN "done" ELSE "off")
  /\ UNCHANGED <<node, pc, local, cache, rows, check, seen, orphans, staleTips, queue, job, busy>>

-----------------------------------------------------------------------------
(* $indexOrphanedBlocks()                                                  *)

TakeOrphan ==
  /\ busy /\ job.at = "none" /\ queue # <<>>
  /\ job' = [at |-> "index", block |-> Head(queue)]
  /\ queue' = Tail(queue)
  /\ UNCHANGED <<vars, seen, orphans, staleTips, busy, scan>>

\* Seeded: what came in meanwhile is left.
FaultyJobDone == job' = NoJob /\ busy' = FALSE

JobDone == job' = NoJob /\ busy' = (queue # <<>>)

\* Is there room for a stale tip of this height, or is it above the lowest kept?
NeedToCache(h) ==
  \/ Cardinality(DOMAIN staleTips) < MaxTips
  \/ \E low \in DOMAIN staleTips : low < h

\* Seeded: a block below the stale tips that are kept is not indexed.
FaultyIndexOrphan ==
  /\ job.at = "index"
  /\ IF NeedToCache(Height[job.block])
     THEN /\ rows' = Saved(job.block, TRUE)
          /\ job' = [job EXCEPT !.at = "store"] /\ UNCHANGED busy
     ELSE JobDone /\ UNCHANGED rows
  /\ UNCHANGED <<node, faults, pc, local, cache, check, seen, orphans, staleTips, queue, scan>>

\* $indexBlock() with the block as the scan found it, stale; then five seconds pass.
IndexOrphan ==
  /\ job.at = "index"
  /\ rows' = Saved(job.block, TRUE)
  /\ IF NeedToCache(Height[job.block])
     THEN job' = [job EXCEPT !.at = "store"] /\ UNCHANGED busy
     ELSE JobDone
  /\ UNCHANGED <<node, faults, pc, local, cache, check, seen, orphans, staleTips, queue, scan>>

\* The stale tips with that of one height set.
WithTip(h, entry) == [g \in DOMAIN staleTips \cup {h} |-> IF g = h THEN entry ELSE staleTips[g]]

\* trimStaleTipsCache(): the MaxTips highest stay.
Trimmed(tips) ==
  LET higher(h) == {g \in DOMAIN tips : g > h}
  IN [h \in {g \in DOMAIN tips : Cardinality(higher(g)) < MaxTips} |-> tips[h]]

\* $indexBlockByHeight(): the canonical row, or else the block of the node.
StoreTip ==
  LET h == Height[job.block] IN
  /\ job.at = "store"
  /\ \E row \in RowAt(h) :
       LET canonical == IF row = None THEN HashAt(h) ELSE row IN
       /\ rows' = IF rows[canonical] = "none" THEN Saved(canonical, FALSE) ELSE rows
       /\ staleTips' = Trimmed(WithTip(h, [stale |-> job.block, canonical |-> canonical]))
  /\ JobDone
  /\ UNCHANGED <<node, faults, pc, local, cache, check, seen, orphans, queue, scan>>

\* An exception is logged and the entry is gone, although the block counts as met.
OrphanFails ==
  /\ job.at # "none" /\ Rare
  /\ faults' = faults + 1
  /\ JobDone
  /\ UNCHANGED <<node, pc, local, cache, rows, check, seen, orphans, staleTips, queue, scan>>

-----------------------------------------------------------------------------
(* The main loop with the calls it makes                                   *)

\* clearOrphanCacheAboveHeight(forkTail.height), in $handleReorgs()
ClearAbove(h) ==
  LET gone == {b \in orphans : Height[b] > h} IN
  /\ orphans' = orphans \ gone
  /\ seen' = seen \ gone
  /\ UNCHANGED <<staleTips, queue, job, busy, scan>>

PushScanned ==
  /\ ScanDue => scan.at = "done"
  /\ PushBlock
  /\ scan' = ScanAt("off")
  /\ UNCHANGED <<seen, orphans, staleTips, queue, job, busy>>

Otherwise ==
  /\ \/ Node \/ ProtectionEnds
     \/ scan.at = "off" /\ ReadMempool
     \/ ReadTip \/ NextBlock \/ GetBlock
     \/ FindFork \/ IndexParent \/ SetCanonical \/ Walk \/ SaveBlock \/ BlocksDone
     \/ \E found \in SUBSET Tx : UpdateMempool(found)
     \/ scan.at = "off" /\ \E found \in SUBSET Tx : Throw(found)
  /\ UNCHANGED tipVars

RestartTips ==
  /\ Restart
  /\ seen' = {} /\ orphans' = {} /\ staleTips' = [h \in {} |-> {}]
  /\ queue' = <<>> /\ job' = NoJob /\ busy' = FALSE /\ scan' = ScanAt("boot")

Scanning == StartScan \/ (\E b \in Block : NextFork(b)) \/ WalkFork \/ ScanDone
Indexing == TakeOrphan \/ IndexOrphan \/ StoreTip

TNext ==
  \/ Otherwise
  \/ Rebuild /\ ClearAbove(Height[tail])
  \/ PushScanned
  \/ RestartTips
  \/ Scanning \/ ScanBreaks \/ ScanFails
  \/ Indexing \/ OrphanFails

TSpec == TInit /\ [][TNext]_tvars
TFairSpec == TSpec /\ WF_tvars(MainLoop /\ TNext) /\ WF_tvars(Scanning) /\ WF_tvars(Indexing)

-----------------------------------------------------------------------------
(* Properties                                                              *)

\* A stale block is met once, so it must not get lost between the scan and the background
\* job, which other scans and reorganisations interrupt: it has a row, or its turn is to come.
NoneLost ==
  faults = 0 => \A b \in seen : rows[b] # "none" \/ b \in ToSet(queue) \cup {job.block}

\* What is listed as an orphan is known as one by its hash, also after a reorganisation
\* has cleared both in the background of a job: isOrphaned() and the lists by height agree.
OrphansAreMet == orphans \cup scan.found \subseteq seen

\* No stale block is lost and none is listed that is not known, however scans, the job and
\* reorganisations interleave (updateOrphanedBlocks(), $indexOrphanedBlocks(),
\* clearOrphanCacheAboveHeight()).
NoOrphanIsLost == TipsTypeOK /\ NoneLost /\ OrphansAreMet

\* What is met is indexed whatever the main loop does meanwhile: the job never stops with
\* entries left that no later scan would start it for.
OrphansAreIndexed ==
  \A b \in Block : b \in seen /\ faults = 0 ~> rows[b] # "none" \/ faults # 0
=============================================================================
