------------------------------ MODULE ChainSync ------------------------------
(***************************************************************************)
(* How the backend follows its node: runMainUpdateLoop() of index.ts reads *)
(* the mempool, handles the new blocks ($updateBlocks() and                *)
(* $handleReorgs() of blocks.ts) and, if there were none, applies what it  *)
(* read to its mempool cache ($updateMempool() of mempool.ts).  The rows   *)
(* of the table blocks (BlocksRepository.ts) are also repaired by          *)
(* $validateChain(), which the indexer runs in the background.             *)
(*                                                                         *)
(* Each await between two uses of shared state is a step of its own.       *)
(* External: the node.  Its blocks form a tree; it follows the highest     *)
(* branch it has seen, the first one of equal branches.                    *)
(***************************************************************************)
EXTENDS Integers, FiniteSets, Sequences, SequencesExt, TLC

CONSTANTS
  Block, None,    \* the blocks that may be mined, and no block
  Root,           \* the block the node starts with
  Parent,         \* block -> the block it builds on, None for Root
  Height,         \* block -> its height
  Confirms,       \* block -> the transactions in it
  Tx,             \* the transactions
  InitialBlocks,  \* MEMPOOL.INITIAL_BLOCKS_AMOUNT
  Esplora,        \* MEMPOOL.BACKEND is esplora
  Large,          \* the size from which a mempool is protected or loaded in bulk
  MaxRare,        \* bound: exceptions, restarts, other faults, and runs of $validateChain()
  MaxArrivals     \* bound: transactions that enter the node's mempool, and its restarts

ASSUME TreeAssumption ==
  /\ Root \in Block /\ None \notin Block
  /\ Parent \in [Block -> Block \cup {None}] /\ Height \in [Block -> Nat]
  /\ Confirms \in [Block -> SUBSET Tx]
  /\ \A b \in Block \ {Root} :
       Parent[b] \in Block /\ Height[b] = Height[Parent[b]] + 1 /\ Height[b] > Height[Root]
  /\ Parent[Root] = None
ASSUME BoundsAssumption ==
  /\ InitialBlocks \in Nat \ {0} /\ Large \in Nat /\ Esplora \in BOOLEAN
  /\ MaxRare \in Nat /\ MaxArrivals \in Nat

VARIABLES
  mined,      \* blocks the node has
  tip,        \* the best block of the node
  nodePool,   \* the mempool of the node
  arrivals,   \* changes of nodePool that no block made, so far
  faults,     \* faults so far
  pc,         \* where the main loop is
  raw,        \* newMempool: what $getRawMempool() returned
  target,     \* blockHeightTip
  fast,       \* fastForwarded
  handled,    \* handledBlocks > 0
  current,    \* currentBlockHeight
  block,      \* the block being handled
  stale,      \* that block as the node described it: not on its best chain
  tail,       \* forkTail
  fresh,      \* newBlocks, from the highest down
  blocks,     \* this.blocks, the cache of recent blocks
  rows,       \* table blocks: block -> "none", "canonical" or "stale"
  pool,       \* mempoolCache
  inSync,     \* inSync
  protection, \* mempoolProtection
  check       \* $validateChain(): where it is, tip, hash, height, what it read, runs so far

node == <<mined, tip, nodePool, arrivals>>
local == <<raw, target, fast, handled, block, stale, tail, fresh>>
cache == <<current, blocks, pool, inSync, protection>>
vars == <<node, faults, pc, local, cache, rows, check>>

-----------------------------------------------------------------------------
(* The chain                                                               *)

\* A set with the parents of its members.
Downward(bs) == \A b \in bs : Parent[b] \in bs \cup {None}

\* A block and all the blocks below it: the least such set.
Ancestors ==
  [b \in Block |->
     {a \in Block : \A bs \in SUBSET Block : b \in bs /\ Downward(bs) => a \in bs}]

\* $getBlockHash(h): the block of the best chain at a height.
AtHeight(h) == {a \in Ancestors[tip] : Height[a] = h}
HashAt(h) == CHOOSE a \in AtHeight(h) : TRUE

OnMainChain(b) == b \in Ancestors[tip]

\* WHERE height = ? AND stale = 0; the first of several rows may be any of them.
CanonicalAt(h) == {b \in Block : Height[b] = h /\ rows[b] = "canonical"}
RowAt(h) == IF CanonicalAt(h) = {} THEN {None} ELSE CanonicalAt(h)

\* $setCanonicalBlockAtHeight()
Canonical(b, h) ==
  [c \in Block |->
     IF c = b /\ rows[c] # "none" THEN "canonical"
     ELSE IF Height[c] = h /\ c # b /\ rows[c] # "none" THEN "stale"
     ELSE rows[c]]

\* $saveBlockInDatabase(): a block that is there already becomes canonical if it is not stale.
Saved(b, isStale) ==
  IF rows[b] = "none" THEN [rows EXCEPT ![b] = IF isStale THEN "stale" ELSE "canonical"]
  ELSE IF isStale THEN rows
  ELSE Canonical(b, Height[b])

Latest(s, n) == SubSeq(s, IF Len(s) > n THEN Len(s) - n + 1 ELSE 1, Len(s))
CacheSize == 4 * InitialBlocks

-----------------------------------------------------------------------------
\* One more rare event is within the bound.
Rare == faults + check.runs < MaxRare

Statuses == {"none", "canonical", "stale"}
Steps == {"idle", "tip", "loop", "get", "fork", "index", "canon", "walk",
          "rebuild", "save", "push", "mempool"}
NoCheck(n) == [at |-> "off", tip |-> None, hash |-> None, height |-> 0, low |-> 0,
               rows |-> [b \in Block |-> "none"], runs |-> n]

TypeOK ==
  /\ mined \subseteq Block /\ tip \in mined
  /\ nodePool \subseteq Tx /\ arrivals \in 0..MaxArrivals
  /\ faults \in Nat /\ faults + check.runs <= MaxRare
  /\ pc \in Steps
  /\ raw \subseteq Tx /\ target \in Nat /\ fast \in BOOLEAN /\ handled \in BOOLEAN
  /\ block \in Block \cup {None} /\ stale \in BOOLEAN
  /\ tail \in Block \cup {None} /\ fresh \in Seq(Block)
  /\ current \in Int
  /\ blocks \in Seq(Block) /\ Len(blocks) <= CacheSize
  /\ rows \in [Block -> Statuses]
  /\ pool \subseteq Tx /\ inSync \in BOOLEAN /\ protection \in 0..2
  /\ check.at \in {"off", "read", "walk"} /\ check.runs \in Nat

NoLocals ==
  /\ raw = {} /\ target = 0 /\ fast = FALSE /\ handled = FALSE
  /\ block = None /\ stale = FALSE /\ tail = None /\ fresh = <<>>

Init ==
  /\ mined = {Root} /\ tip = Root /\ nodePool \in SUBSET (Tx \ Confirms[Root]) /\ arrivals = 0
  /\ faults = 0
  /\ pc = "idle" /\ NoLocals
  /\ current = 0 /\ blocks = <<>> /\ pool = {} /\ inSync = FALSE /\ protection = 0
  /\ rows = [b \in Block |-> "none"]
  /\ check = NoCheck(0)

-----------------------------------------------------------------------------
(* The node (external)                                                     *)

\* Does a new best block replace one between the request for its hash and the one for its
\* body, or blocks of a round that fast forwards and so does not look for forks?
Unnoticed(b) ==
  /\ Height[b] > Height[tip]
  /\ \/ pc = "get" /\ block \notin Ancestors[b]
     \/ fast /\ current < target /\ tip \notin Ancestors[b]

\* A block arrives.  Only a higher branch replaces the best one: its transactions
\* leave the mempool, those of the blocks it replaces come back.  That the backend cannot
\* notice it counts as a fault.
Mine(b) ==
  /\ b \notin mined /\ Parent[b] \in mined
  /\ mined' = mined \cup {b}
  /\ faults' = IF Unnoticed(b) THEN faults + 1 ELSE faults
  /\ faults' + check.runs <= MaxRare
  /\ IF Height[b] > Height[tip]
     THEN /\ tip' = b
          /\ nodePool' = (nodePool \cup UNION {Confirms[c] : c \in Ancestors[tip]})
                           \ UNION {Confirms[c] : c \in Ancestors[b]}
     ELSE UNCHANGED <<tip, nodePool>>
  /\ UNCHANGED <<arrivals, pc, local, cache, rows, check>>

\* A transaction arrives, or the node restarts with an empty mempool.
PoolChange(newPool) ==
  /\ arrivals < MaxArrivals
  /\ arrivals' = arrivals + 1
  /\ nodePool' = newPool
  /\ UNCHANGED <<mined, tip, faults, pc, local, cache, rows, check>>

Arrive(t) ==
  /\ t \notin nodePool /\ \A b \in Ancestors[tip] : t \notin Confirms[b]
  /\ PoolChange(nodePool \cup {t})

NodeRestarts == nodePool # {} /\ PoolChange({})

-----------------------------------------------------------------------------
(* The main loop: the blocks                                               *)

\* What a step of the main loop in $updateBlocks() leaves alone.
Elsewhere == UNCHANGED <<node, faults, inSync, protection, check>>

ReadMempool ==
  /\ pc = "idle"
  /\ raw' = nodePool
  /\ pc' = "tip"
  /\ UNCHANGED <<target, fast, handled, block, stale, tail, fresh, current, blocks, pool, rows>>
  /\ Elsewhere

\* The height to go on from: the last cached block, whatever branch it is on.
ReadTip ==
  LET known == IF blocks = <<>>
               THEN IF Height[tip] < InitialBlocks THEN -1 ELSE Height[tip] - InitialBlocks
               ELSE Height[Last(blocks)]
  IN /\ pc = "tip"
     /\ target' = Height[tip]
     /\ fast' = (Height[tip] - known > 2 * InitialBlocks)
     /\ current' = IF fast' THEN Height[tip] - InitialBlocks ELSE known
     /\ pc' = "loop"
     /\ UNCHANGED <<raw, handled, block, stale, tail, fresh, blocks, pool, rows>>
     /\ Elsewhere

\* $getBlockHash(); from height 0 the loop jumps to the tip.
NextBlock ==
  /\ pc = "loop" /\ current < target
  /\ current' = IF current = 0 THEN target ELSE current + 1
  /\ block' \in AtHeight(current')
  /\ pc' = "get"
  /\ UNCHANGED <<raw, target, fast, handled, stale, tail, fresh, blocks, pool, rows>>
  /\ Elsewhere

\* getBlock() tells whether the block is still on the best chain; then
\* $applyBlockTransactionsToMempool().
GetBlock ==
  /\ pc = "get"
  /\ stale' = ~OnMainChain(block)
  /\ pool' = pool \ Confirms[block]
  /\ pc' = IF fast THEN "save" ELSE "fork"
  /\ UNCHANGED <<raw, target, fast, handled, block, tail, fresh, current, blocks, rows>>
  /\ Elsewhere

\* Seeded: what is cached is taken for the chain.
FaultyFindFork ==
  /\ pc = "fork"
  /\ \E below \in RowAt(Height[block] - 1) :
       IF below \in {None, Parent[block]} \/ below \in ToSet(blocks)
       THEN pc' = "save" /\ UNCHANGED <<tail, fresh>>
       ELSE pc' = "index" /\ tail' = block /\ fresh' = <<>>
  /\ UNCHANGED <<raw, target, fast, handled, block, stale, current, blocks, pool, rows>>
  /\ Elsewhere

\* $handleReorgs(): compare with the row one below; no row says that nothing is wrong.
FindFork ==
  /\ pc = "fork"
  /\ \E below \in RowAt(Height[block] - 1) :
       IF below \in {None, Parent[block]}
       THEN pc' = "save" /\ UNCHANGED <<tail, fresh>>
       ELSE pc' = "index" /\ tail' = block /\ fresh' = <<>>
  /\ UNCHANGED <<raw, target, fast, handled, block, stale, current, blocks, pool, rows>>
  /\ Elsewhere

\* $indexBlock(forkTail.previousblockhash)
IndexParent ==
  /\ pc = "index"
  /\ rows' = IF rows[Parent[tail]] = "none"
             THEN Saved(Parent[tail], ~OnMainChain(Parent[tail])) ELSE rows
  /\ pc' = "canon"
  /\ UNCHANGED <<raw, target, fast, handled, block, stale, tail, fresh, current, blocks, pool>>
  /\ Elsewhere

SetCanonical ==
  /\ pc = "canon"
  /\ rows' = Canonical(Parent[tail], Height[Parent[tail]])
  /\ tail' = Parent[tail]
  /\ fresh' = Append(fresh, tail')
  /\ pc' = "walk"
  /\ UNCHANGED <<raw, target, fast, handled, block, stale, current, blocks, pool>>
  /\ Elsewhere

\* Seeded: the walk ends at the first block.
FaultyWalk ==
  /\ pc = "walk"
  /\ pc' = "rebuild"
  /\ UNCHANGED <<local, current, blocks, pool, rows>>
  /\ Elsewhere

\* The condition of the walk, with the row read anew.
Walk ==
  /\ pc = "walk"
  /\ \E below \in RowAt(Height[tail] - 1) :
       pc' = IF below \in {None, Parent[tail]} THEN "rebuild" ELSE "index"
  /\ UNCHANGED <<local, current, blocks, pool, rows>>
  /\ Elsewhere

\* The block n below forkTail, if it can be taken from the cache or from the table.
KnownBelow(n) ==
  {a \in Ancestors[tail] : /\ Height[a] = Height[tail] - n
                           /\ a \in ToSet(blocks) \/ rows[a] # "none"}

\* The cache again: the blocks walked over and, below them, as many known
\* ancestors as there is room for.
Rebuilt ==
  LET room == IF Len(fresh) < CacheSize THEN CacheSize - Len(fresh) ELSE 0
      older == CHOOSE n \in 0..room :
                 /\ \A i \in 1..n : KnownBelow(i) # {}
                 /\ n < room => KnownBelow(n + 1) = {}
      below == [i \in 1..older |-> CHOOSE a \in KnownBelow(older - i + 1) : TRUE]
  IN Latest(below \o Reverse(fresh), CacheSize)

Rebuild ==
  /\ pc = "rebuild"
  /\ blocks' = Rebuilt
  /\ tail' = None /\ fresh' = <<>>
  /\ pc' = "save"
  /\ UNCHANGED <<raw, target, fast, handled, block, stale, current, pool, rows>>
  /\ Elsewhere

\* Seeded: after fast forwarding the block is not saved.
FaultySaveBlock ==
  /\ pc = "save"
  /\ rows' = IF fast THEN rows ELSE Saved(block, stale)
  /\ pc' = "push"
  /\ UNCHANGED <<local, current, blocks, pool>>
  /\ Elsewhere

SaveBlock ==
  /\ pc = "save"
  /\ rows' = Saved(block, stale)
  /\ pc' = "push"
  /\ UNCHANGED <<local, current, blocks, pool>>
  /\ Elsewhere

PushBlock ==
  /\ pc = "push"
  /\ blocks' = Latest(Append(blocks, block), CacheSize)
  /\ handled' = TRUE
  /\ block' = None /\ stale' = FALSE
  /\ pc' = "loop"
  /\ UNCHANGED <<raw, target, fast, tail, fresh, current, pool, rows>>
  /\ Elsewhere

\* Seeded: the mempool update follows whether or not there were new blocks.
FaultyBlocksDone ==
  /\ pc = "loop" /\ current >= target
  /\ pc' = "mempool"
  /\ target' = 0 /\ fast' = FALSE /\ handled' = FALSE
  /\ UNCHANGED <<raw, block, stale, tail, fresh, current, blocks, pool, rows>>
  /\ Elsewhere

\* With new blocks the mempool update is skipped and the loop starts again at once.
BlocksDone ==
  /\ pc = "loop" /\ current >= target
  /\ pc' = IF handled THEN "idle" ELSE "mempool"
  /\ target' = 0 /\ fast' = FALSE /\ handled' = FALSE
  /\ raw' = IF handled THEN {} ELSE raw
  /\ UNCHANGED <<block, stale, tail, fresh, current, blocks, pool, rows>>
  /\ Elsewhere

-----------------------------------------------------------------------------
(* The main loop: the mempool                                              *)

\* $reloadMempool() instead of single requests: the mempool of the node as it is now.
Bulk == Esplora /\ 2 * Cardinality(pool) < Cardinality(raw) /\ Cardinality(raw) > Large

\* The node seems to have restarted: at most 80% of a large mempool is left.
Shrunk == Cardinality(pool) > Large /\ 5 * Cardinality(raw) <= 4 * Cardinality(pool)

\* The transactions to fetch.  Some may not be found, or not before the time limit.
Fetchable == (IF Bulk THEN nodePool ELSE raw) \ pool

\* $updateMempool(): add what was fetched, then delete what the node did not list.
UpdateMempool(found) ==
  /\ pc = "mempool"
  /\ found \subseteq Fetchable
  /\ found # Fetchable => Rare /\ ~Bulk
  /\ faults' = IF found = Fetchable THEN faults ELSE faults + 1
  /\ LET guarded == protection = 1 \/ (protection = 0 /\ Shrunk)
         kept == IF guarded THEN pool \cup found ELSE (pool \cup found) \cap raw
     IN /\ protection' = IF guarded THEN 1 ELSE 0
        /\ pool' = kept
        /\ inSync' =
             \/ inSync /\ ~Bulk /\ ~(protection = 0 /\ Shrunk)
             \/ Cardinality(raw) = Cardinality(kept)
  /\ raw' = {}
  /\ pc' = "idle"
  /\ UNCHANGED <<node, target, fast, handled, block, stale, tail, fresh, current, blocks, rows,
                 check>>

\* Seeded: the next update is protected again.
FaultyProtectionEnds ==
  /\ protection = 1
  /\ protection' = 0
  /\ UNCHANGED <<node, faults, pc, local, current, blocks, pool, inSync, rows, check>>

\* The timer of the clear protection.
ProtectionEnds ==
  /\ protection = 1
  /\ protection' = 2
  /\ UNCHANGED <<node, faults, pc, local, current, blocks, pool, inSync, rows, check>>

-----------------------------------------------------------------------------
(* What goes wrong                                                         *)

NewLoop ==
  /\ pc' = "idle"
  /\ raw' = {} /\ target' = 0 /\ fast' = FALSE /\ handled' = FALSE
  /\ block' = None /\ stale' = FALSE /\ tail' = None /\ fresh' = <<>>

\* An exception at any await ends the round; the next one starts from the beginning.
\* What the round has fetched for the mempool until then stays.
Throw(found) ==
  /\ pc # "idle" /\ Rare
  /\ found \subseteq (IF pc = "mempool" THEN Fetchable ELSE {})
  /\ faults' = faults + 1
  /\ pool' = pool \cup found
  /\ inSync' \in {inSync, FALSE}      \* setOutOfSync() after five in a row
  /\ NewLoop
  /\ UNCHANGED <<node, current, blocks, protection, rows, check>>

\* The process restarts without its cache files.
Restart ==
  /\ Rare
  /\ faults' = faults + 1
  /\ NewLoop
  /\ current' = 0 /\ blocks' = <<>> /\ pool' = {} /\ inSync' = FALSE /\ protection' = 0
  /\ check' = NoCheck(check.runs)
  /\ UNCHANGED <<node, rows>>

-----------------------------------------------------------------------------
(* $validateChain()                                                        *)

CheckLeaves == UNCHANGED <<node, faults, pc, local, cache>>

StartCheck ==
  /\ check.at = "off" /\ Rare
  /\ check' = [check EXCEPT !.at = "read", !.tip = tip, !.hash = tip, !.runs = @ + 1]
  /\ UNCHANGED rows
  /\ CheckLeaves

\* All rows at once; an empty table ends the check.
ReadRows ==
  LET heights == {Height[b] : b \in {c \in Block : rows[c] # "none"}} IN
  /\ check.at = "read"
  /\ check' = IF heights = {} THEN NoCheck(check.runs)
              ELSE [check EXCEPT !.at = "walk", !.rows = rows, !.height = Height[check.hash],
                                 !.low = CHOOSE h \in heights : \A g \in heights : h <= g]
  /\ UNCHANGED rows
  /\ CheckLeaves

\* One height, from the tip down: a row of this chain that is stale becomes canonical;
\* where the chain has no row, the others lose their status if they are several.
CheckHeight ==
  LET b == check.hash
      others == {c \in Block : Height[c] = check.height /\ check.rows[c] # "none"}
  IN /\ check.at = "walk" /\ check.height > check.low
     /\ rows' = IF check.rows[b] = "stale" THEN Canonical(b, check.height)
                ELSE IF check.rows[b] = "none" /\ Cardinality(others) > 1
                THEN Canonical(None, check.height)
                ELSE rows
     /\ check' = [check EXCEPT !.height = @ - 1,
                               !.hash = IF check.rows[b] = "none"
                                        THEN HashAt(check.height - 1) ELSE Parent[b]]
     /\ CheckLeaves

EndCheck ==
  /\ check.at = "walk" /\ check.height <= check.low
  /\ check' = NoCheck(check.runs)
  /\ UNCHANGED rows
  /\ CheckLeaves

-----------------------------------------------------------------------------
Node == \/ \E b \in Block : Mine(b)
        \/ \E t \in Tx : Arrive(t)
        \/ NodeRestarts

MainLoop == \/ ReadMempool \/ ReadTip \/ NextBlock \/ GetBlock
            \/ FindFork \/ IndexParent \/ SetCanonical \/ Walk \/ Rebuild
            \/ SaveBlock \/ PushBlock \/ BlocksDone
            \/ \E found \in SUBSET Tx : UpdateMempool(found)

Trouble == Restart \/ \E found \in SUBSET Tx : Throw(found)

Check == StartCheck \/ ReadRows \/ CheckHeight \/ EndCheck

Next == Node \/ MainLoop \/ ProtectionEnds \/ Trouble \/ Check

Spec == Init /\ [][Next]_vars

\* The loop sets its own timer whatever happens, and every timer fires.
FairSpec == Spec /\ WF_vars(MainLoop) /\ WF_vars(ProtectionEnds)

-----------------------------------------------------------------------------
(* Properties                                                              *)

\* Every block the cache holds, and so the API serves, has a row in the table, whatever
\* exception or restart came between the steps of $updateBlocks().
CachedAreStored == \A i \in DOMAIN blocks : rows[blocks[i]] # "none"

\* Without faults, two cached blocks of consecutive heights are parent and child: a
\* fork of any depth is found by comparing with one row and joined ($handleReorgs()),
\* even one that happens between two blocks of a round.
Linked ==
  faults = 0 =>
    \A i \in 1..(Len(blocks) - 1) :
      Height[blocks[i + 1]] = Height[blocks[i]] + 1 => Parent[blocks[i + 1]] = blocks[i]

\* A cached block is the canonical row of its height, and the only one.
CachedAreCanonical == \A i \in DOMAIN blocks : CanonicalAt(Height[blocks[i]]) = {blocks[i]}

\* Canonical rows of consecutive heights are parent and child.
TableLinked ==
  \A b \in Block : rows[b] = "canonical" => CanonicalAt(Height[b] - 1) \subseteq {Parent[b]}

\* Without faults and checks the table has one chain, which the cached blocks belong to: the
\* walk of $handleReorgs() goes on to the fork, however deep, and what fast forwarding skips
\* is left without a row.
TableFits ==
  faults = 0 /\ check.runs = 0 /\ pc \in {"idle", "tip", "loop", "mempool"} =>
    CachedAreCanonical /\ TableLinked

\* A list of the mempool that was read before the blocks were handled never brings back a
\* transaction confirmed by a cached block of the chain that was handled last (index.ts:308),
\* whatever other branches a fault has left in the cache.
NothingConfirmedReturns ==
  [][pc = "mempool" /\ pc' = "idle" /\ faults' = faults /\ protection' = 0 =>
       \A i \in DOMAIN blocks :
         blocks[i] \in Ancestors[Last(blocks)] => Confirms[blocks[i]] \cap pool' = {}]_vars

\* Once the node and the faults are quiet, the last cached block becomes its tip and the
\* mempool becomes its mempool, restarts of either and clear protection included.
Follows ==
  <>[](pool = nodePool /\ blocks # <<>> /\ Last(blocks) = tip)
=============================================================================
