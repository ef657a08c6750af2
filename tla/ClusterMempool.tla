--------------------------- MODULE ClusterMempool ---------------------------
(***************************************************************************)
(* What the backend derives from its mempool and keeps in step with it:    *)
(* the clusters of dependent transactions                                  *)
(* (backend/src/cluster-mempool/cluster-mempool.ts, depgraph.ts), from     *)
(* which the projected blocks are built, and the spend map                 *)
(* (backend/src/api/mempool.ts), in which replacements are looked up.      *)
(* Both are told of changes by $updateMempool() and by each block, and     *)
(* built from nothing only when the process loads a mempool.               *)
(*                                                                         *)
(* How a cluster is ordered and cut into chunks is in Linearize.  Mempools *)
(* large enough to be loaded in bulk are left out.                         *)
(*                                                                         *)
(* External: the node with its chain and mempool.                          *)
(***************************************************************************)
EXTENDS Naturals, FiniteSets, Sequences, SequencesExt

None == "none"

CONSTANTS
  MempoolTx,  \* transactions
  Inputs,     \* tx -> the outpoints it spends, of the form <<source, index>>
  MaxBlocks,  \* bound: blocks of the node with transactions of MempoolTx
  MaxRare     \* bound: failures, restarts, protected updates and reorganisations

ASSUME MempoolAssumption ==
  /\ IsFiniteSet(MempoolTx) /\ None \notin MempoolTx
  /\ \A t \in MempoolTx : \A o \in Inputs[t] : o[1] # t
  /\ MaxBlocks \in Nat /\ MaxRare \in Nat

VARIABLES
  chain,      \* node: the transactions of its blocks
  nodePool,   \* node: its mempool
  pc,         \* the step of the main loop: "idle", or "read" once it has the node's list
  raw,        \* the list of the node's mempool
  handled,    \* how many blocks have been handled
  cache,      \* mempoolCache
  clusters,   \* the clusters: [txs, deps], deps the pairs <<parent, child>> of the graph
  spentBy,    \* outpoint -> the transaction ClusterMempool knows to spend it
  spendMap,   \* outpoint -> the transaction Mempool knows to spend it
  doubted,    \* history: outpoints of which the two may not know the spender
  untold,     \* history: transactions that either was not told of, [clusters, spends], and
              \* those of whose removal the spend map was not told, gone
  rare        \* how much has happened of what MaxRare bounds

node == <<chain, nodePool>>
viewVars == <<node, pc, raw, handled, cache, clusters, spentBy, spendMap, doubted, untold, rare>>

Outpoint == UNION {Inputs[t] : t \in MempoolTx}
Spending(S) == UNION {Inputs[t] : t \in S}
Spends(c, p) == \E o \in Inputs[c] : o[1] = p
Nobody == [o \in Outpoint |-> None]
NothingUntold == [clusters |-> {}, spends |-> {}, gone |-> {}]

ViewsTypeOK ==
  /\ chain \in Seq(SUBSET MempoolTx) /\ Len(chain) <= MaxBlocks
  /\ nodePool \subseteq MempoolTx /\ raw \subseteq MempoolTx /\ cache \subseteq MempoolTx
  /\ pc \in {"idle", "read"}
  /\ handled \in 0..Len(chain)
  /\ \A r \in clusters : r.txs \subseteq cache /\ r.deps \subseteq r.txs \X r.txs
  /\ spentBy \in [Outpoint -> MempoolTx \cup {None}]
  /\ spendMap \in [Outpoint -> MempoolTx \cup {None}]
  /\ doubted \subseteq Outpoint
  /\ untold \in [clusters : SUBSET cache, spends : SUBSET cache, gone : SUBSET MempoolTx]
  /\ rare \in 0..MaxRare

ViewsInit ==
  /\ chain = <<>> /\ nodePool = {}
  /\ pc = "idle" /\ raw = {} /\ handled = 0
  /\ cache = {} /\ clusters = {} /\ spentBy = Nobody /\ spendMap = Nobody
  /\ doubted = {} /\ untold = NothingUntold
  /\ rare = 0

\* A failure or something else that is rare happens, or not.
Counts(happens) ==
  /\ happens => rare < MaxRare
  /\ rare' = IF happens THEN rare + 1 ELSE rare

-----------------------------------------------------------------------------
(* The node (external)                                                     *)

Confirmed == UNION ToSet(chain)

\* What a mempool may be: no two of it, and none of it and a block, spend the same, and
\* nothing is spent that is not there.
Allowed(S) ==
  /\ S \cap Confirmed = {}
  /\ \A t \in S : \A u \in S \cup Confirmed : t # u => Inputs[t] \cap Inputs[u] = {}
  /\ \A t \in S : \A p \in MempoolTx : Spends(t, p) => p \in S \cup Confirmed

\* A transaction with what it spends, directly or not; who spends what a block spends.
Depends(t) ==
  LET Closed(D) == t \in D /\ \A c \in D : \A p \in MempoolTx : Spends(c, p) => p \in D
  IN CHOOSE D \in SUBSET MempoolTx : Closed(D) /\ \A E \in SUBSET MempoolTx : Closed(E) => D \subseteq E
Contradicting(S) == {t \in MempoolTx \ S : Inputs[t] \cap Spending(S) # {}}

\* Transactions arrive, are replaced, evicted or expire.  (Before the list is read: what
\* happens to the mempool after that is seen with the next list.)
PoolChanges(S) ==
  /\ pc = "idle" /\ Allowed(S) /\ S # nodePool
  /\ nodePool' = S
  /\ UNCHANGED <<chain, pc, raw, handled, cache, clusters, spentBy, spendMap, doubted, untold, rare>>

\* A block, with transactions the mempool need not have had; those it contradicts leave.
Mine(S) ==
  /\ Len(chain) < MaxBlocks
  /\ S # {} /\ Allowed(S)
  /\ chain' = Append(chain, S)
  /\ nodePool' = {t \in nodePool \ S : Depends(t) \cap Contradicting(S) = {}}
  /\ UNCHANGED <<pc, raw, handled, cache, clusters, spentBy, spendMap, doubted, untold, rare>>

\* A block is disconnected and its transactions return; the next block has its height.
Reorg ==
  /\ chain # <<>> /\ Counts(TRUE)
  /\ chain' = Front(chain)
  /\ nodePool' = nodePool \cup Last(chain)
  /\ handled' = IF handled = Len(chain) THEN handled - 1 ELSE handled
  /\ UNCHANGED <<pc, raw, cache, clusters, spentBy, spendMap, doubted, untold>>

-----------------------------------------------------------------------------
(* ClusterMempool                                                          *)

Cluster(S, deps) == [txs |-> S, deps |-> deps \cap (S \X S)]
Tracked(cs) == UNION {r.txs : r \in cs}

\* findConnectedComponents(): the least sets that no dependency leaves.
Components(S, deps) ==
  LET Whole == {C \in (SUBSET S) \ {{}} : \A e \in deps : e[1] \in C <=> e[2] \in C}
  IN {C \in Whole : \A D \in Whole : D \subseteq C => D = C}

\* processRemovals() and splitDisconnectedClusters().
Remains(r, gone) ==
  IF r.txs \cap gone = {} THEN {r}
  ELSE LET left == Cluster(r.txs \ gone, r.deps)
       IN {Cluster(C, left.deps) : C \in Components(left.txs, left.deps)}
Removed(cs, gone) == UNION {Remains(r, gone) : r \in cs}

\* The loop over inputs in processRemovals(): it does not look who spends them.
Freed(map, S) == [o \in Outpoint |-> IF o \in Spending(S) THEN None ELSE map[o]]
Claimed(map, t) == [o \in Outpoint |-> IF o \in Inputs[t] THEN t ELSE map[o]]

\* Seeded: only what the transaction spends is looked for, not what spends it.
FaultyAdded(known, t, mempool) ==
  LET parents == {p \in Tracked(known.clusters) \cap mempool : Spends(t, p)}
      related == {r \in known.clusters : r.txs \cap parents # {}}
  IN [clusters |-> (known.clusters \ related) \cup
                     {[txs |-> {t} \cup Tracked(related),
                       deps |-> (UNION {r.deps : r \in related}) \cup (parents \X {t})]},
      spentBy |-> Claimed(known.spentBy, t)]

\* One turn of processAdditions(): known is [clusters, spentBy], mempool what is in it.
Added(known, t, mempool) ==
  LET spent == Claimed(known.spentBy, t)
      there == Tracked(known.clusters) \cap mempool
      parents == {p \in there : Spends(t, p)}
      children == {c \in there : \E o \in Outpoint : o[1] = t /\ spent[o] = c}
      related == {r \in known.clusters : r.txs \cap (parents \cup children) # {}}
  IN [clusters |-> (known.clusters \ related) \cup
                     {[txs |-> {t} \cup Tracked(related),
                       deps |-> (UNION {r.deps : r \in related})
                                  \cup (parents \X {t}) \cup ({t} \X children)]},
      spentBy |-> spent]

\* applyMempoolChange() as $updateMempool() calls it, with what is removed gone from the
\* mempool already; order is that of the new transactions.
Turns(known, order, mempool) ==
  LET turn[i \in 0..Len(order)] ==
        IF i = 0 THEN known ELSE Added(turn[i - 1], order[i], mempool)
  IN turn
Applied(gone, order, mempool) ==
  Turns([clusters |-> Removed(clusters, gone), spentBy |-> spentBy], order, mempool)[Len(order)]

\* Who spends an outpoint; the last one to enter stays.
Claims(o, order) == {i \in DOMAIN order : o \in Inputs[order[i]]}

\* Seeded: only what is spent of the mempool is entered.
FaultyEntered(map, order) ==
  LET spending == SelectSeq(order, LAMBDA t : \A o \in Inputs[t] : o[1] \in cache)
  IN [o \in Outpoint |-> IF Claims(o, spending) = {} THEN map[o]
                         ELSE spending[Max(Claims(o, spending))]]

\* A map after transactions have entered what they spend, one after the other.
Entered(map, order) ==
  [o \in Outpoint |-> IF Claims(o, order) = {} THEN map[o] ELSE order[Max(Claims(o, order))]]

\* buildRelativeMaps(): of the inputs only those with a source in the mempool.
BuiltSpentBy(order) ==
  [o \in Outpoint |-> IF o[1] \in ToSet(order) THEN Entered(Nobody, order)[o] ELSE None]

\* dfsComponent(): up to all the parents, down to the children that are known.
Component(t, visited, mempool, map) ==
  LET Open(C) == \A a \in C, b \in mempool \ (visited \cup C) :
                    ~ Spends(a, b) /\ ~ \E o \in Outpoint : o[1] = a /\ map[o] = b
      Around == {C \in SUBSET (mempool \ visited) : t \in C /\ Open(C)}
  IN CHOOSE C \in Around : \A D \in Around : C \subseteq D

\* buildFromMempool() for a mempool in the given order.
Visits(order) ==
  LET mempool == ToSet(order)
      dependencies == {e \in mempool \X mempool : Spends(e[2], e[1])}
      Piece(t, visited) == Component(t, visited, mempool, BuiltSpentBy(order))
      visit[i \in 0..Len(order)] ==
        IF i = 0 THEN {}
        ELSE LET cs == visit[i - 1]
             IN IF order[i] \in Tracked(cs) THEN cs
                ELSE cs \cup {Cluster(Piece(order[i], Tracked(cs)), dependencies)}
  IN visit
Built(order) == Visits(order)[Len(order)]

-----------------------------------------------------------------------------
(* Mempool and blocks                                                      *)

\* removeFromSpendMap() and addToSpendMap().
Withdrawn(map, S) == [o \in Outpoint |-> IF map[o] \in S THEN None ELSE map[o]]
\* History: where two spenders met, as long as there is a spender.
Contested(S) == {o \in Outpoint : \E t, u \in S : t # u /\ o \in Inputs[t] \cap Inputs[u]}
Doubt(S, more) == (doubted \cup more \cup Contested(S)) \cap Spending(S)
StillUntold(S) == [untold EXCEPT !.clusters = @ \cap S, !.spends = @ \cap S]

ReadMempool ==
  /\ pc = "idle"
  /\ raw' = nodePool
  /\ pc' = "read"
  /\ UNCHANGED <<node, handled, cache, clusters, spentBy, spendMap, doubted, untold, rare>>

\* findMinedRbfTransactions(): who is known to spend what a block spends otherwise.
Replaced(B) == {t \in MempoolTx \ B : \E o \in Spending(B) : spendMap[o] = t}

\* A block: $applyBlockTransactionsToMempool(), after which the mempool is read anew.
HandleBlock ==
  /\ pc = "read" /\ handled < Len(chain)
  /\ LET B == chain[handled + 1]
         losers == {t \in cache \ B : Inputs[t] \cap Spending(B) # {}}
     IN /\ spendMap' = Freed(spendMap, B \cup Replaced(B))
        /\ spentBy' = Freed(spentBy, B \cap cache)
        /\ clusters' = Removed(clusters, B)
        /\ cache' = cache \ B
        /\ doubted' = Doubt(cache', Spending(losers))
        /\ untold' = StillUntold(cache')
  /\ handled' = handled + 1
  /\ pc' = "idle" /\ raw' = {}
  /\ UNCHANGED <<node, rare>>

\* What the update fetches; some of it may not be found, or not in time.
Fetchable == raw \ cache

\* $updateMempool(): new transactions, in any order, then the deletions, unless clear
\* protection keeps everything; both maps are told, the spend map last, by
\* $handleMempoolChange(), which an exception may end before.
UpdateMempool(order, protected, breaks) ==
  /\ pc = "read" /\ Counts(protected \/ breaks)
  /\ LET found == ToSet(order)
         gone == IF protected THEN {} ELSE (cache \cup found) \ raw
         known == Applied(gone, order, cache')
     IN /\ protected => ~ cache \subseteq raw
        /\ cache' = (cache \cup found) \ gone
        /\ clusters' = known.clusters
        /\ spentBy' = known.spentBy
        /\ spendMap' = IF breaks THEN spendMap ELSE Entered(Withdrawn(spendMap, gone), order)
        /\ doubted' = Doubt(cache', {})
        /\ untold' = [StillUntold(cache') EXCEPT
                        !.spends = @ \cup (IF breaks THEN found ELSE {}),
                        !.gone = (@ \cup (IF breaks THEN gone ELSE {})) \ found]
  /\ pc' = "idle" /\ raw' = {}
  /\ UNCHANGED <<node, handled>>

\* A request fails after others were answered: what came is in the mempool for good.
FetchFails(found) ==
  /\ pc = "read" /\ found # {} /\ Counts(TRUE)
  /\ cache' = cache \cup found
  /\ doubted' = Doubt(cache', {})
  /\ untold' = [untold EXCEPT !.clusters = @ \cup found, !.spends = @ \cup found]
  /\ pc' = "idle" /\ raw' = {}
  /\ UNCHANGED <<node, handled, clusters, spentBy, spendMap>>

\* The process restarts and loads a mempool, in any order: $setMempool().
RestartViews(order) ==
  /\ Counts(TRUE)
  /\ pc' = "idle" /\ raw' = {}
  /\ handled' \in handled..Len(chain)
  /\ cache' = ToSet(order)
  /\ clusters' = Built(order)
  /\ spentBy' = BuiltSpentBy(order)
  /\ spendMap' = Entered(Nobody, order)
  /\ doubted' = Contested(cache') \cup {o \in Spending(cache') : o[1] \in MempoolTx \ cache'}
  /\ untold' = NothingUntold
  /\ UNCHANGED node

ViewsNext ==
  \/ \E S \in SUBSET MempoolTx : PoolChanges(S) \/ Mine(S)
  \/ Reorg
  \/ ReadMempool \/ HandleBlock
  \/ \E found \in SUBSET Fetchable :
       \/ FetchFails(found)
       \/ \E order \in SetToSeqs(found), protected, breaks \in BOOLEAN :
            UpdateMempool(order, protected, breaks)
  \/ \E order \in {<<>>} \cup SetToSeqs(cache) : RestartViews(order)

ViewsSpec == ViewsInit /\ [][ViewsNext]_viewVars

-----------------------------------------------------------------------------
\* A transaction of the mempool is in a cluster, unless it came with a request before one
\* that failed, and nothing else is: what is in no cluster is in no projected block.
Told == Tracked(clusters) = cache \ untold.clusters

\* However clusters were merged and split, each is one piece, held together by real
\* spends, and none has a part of another.
OnePiece ==
  \A r \in clusters :
    /\ \A e \in r.deps : Spends(e[2], e[1])
    /\ Components(r.txs, r.deps) = {r.txs}
    /\ \A s \in clusters : r = s \/ r.txs \cap s.txs = {}

\* A transaction and what it spends are linked, in whatever order they came, left and came
\* back: a projected block never has it first.  (Not told apart: what two transactions
\* spend, and what was spent from a block when the mempool was loaded.)
ParentsLinked ==
  \A c \in Tracked(clusters) : \A o \in Inputs[c] \ doubted :
    o[1] \in Tracked(clusters) => \E r \in clusters : <<o[1], c>> \in r.deps

\* The clusters are the connected components of the mempool, as far as they were told of it,
\* through merges, splits, blocks and rebuilds (processRemovals(), processAdditions(),
\* buildFromMempool()).
Clustered == ViewsTypeOK /\ Told /\ OnePiece /\ ParentsLinked

\* Between updates the spend map knows who spends an input of the mempool, so that a block
\* that spends it otherwise is seen to replace it.  (Not what is spent by a transaction too
\* that left without the map being told: a block that replaces that one clears its inputs.)
SpendsKnown ==
  \A t \in cache \ untold.spends :
    \A o \in Inputs[t] \ (doubted \cup Spending(untold.gone)) : spendMap[o] = t
=============================================================================
