------------------------------ MODULE RbfCache ------------------------------
(***************************************************************************)
(* The in-memory cache of RBF (replace-by-fee) trees of                     *)
(* backend/src/api/rbf-cache.ts, and its snapshot on disk                   *)
(* (dump() and load(), called by backend/src/api/disk-cache.ts).            *)
(*                                                                         *)
(* A tree is named by its root, the newest version of a transaction; below *)
(* it are the versions it replaced.  The code keeps the tree objects       *)
(* (rbfTrees) and three maps derived from them (replacedBy, replaces and   *)
(* treeMap), which every operation must keep in step.                      *)
(*                                                                         *)
(* cacheQueue, the list of events replayed into Redis, is write-only for   *)
(* everything here; module RbfRedis adds it to these actions.              *)
(*                                                                         *)
(* A definition named Faulty... is the definition that follows it with a   *)
(* seeded bug.  No action uses it: it shows that a property can fail.      *)
(***************************************************************************)
EXTENDS Naturals, FiniteSets

CONSTANTS
  Tx,           \* transaction ids
  Final,        \* the transactions that do not signal RBF (tx.rbf = false)
  ExpiryTicks   \* clock ticks between an eviction and its expiry (24 hours)

ASSUME FinalAssumption == Final \subseteq Tx
ASSUME ExpiryAssumption == ExpiryTicks \in Nat \ {0}

VARIABLES
  replacedBy,   \* txid -> txid of its direct replacement
  replaces,     \* txid -> the txids it directly replaced
  rbfTrees,     \* root txid -> tree
  dirtyTrees,   \* roots of the trees changed since the last getRbfChanges()
  treeMap,      \* txid -> root of the tree that holds it
  txs,          \* the cached transactions
  expiring,     \* txid -> ticks left until the entry is due
  saved,        \* the last snapshot written: txs, trees and expiring
  phase,        \* "running", or the step of load() a starting process is in
  batch         \* the transactions that step of load() works on

maps == <<replacedBy, replaces, treeMap>>
memory == <<replacedBy, replaces, rbfTrees, dirtyTrees, treeMap, txs, expiring>>
vars == <<memory, saved, phase, batch>>

-----------------------------------------------------------------------------
(* Trees                                                                   *)

\* Maps over some of the transactions, with values in T.
IsMap(f, T) == DOMAIN f \subseteq Tx /\ f \in [DOMAIN f -> T]

\* RbfTree: `replaces` is the nesting of the tree objects, `minedTxs` the nodes
\* with tx.mined set, `mined` and `fullRbf` the fields of the root object (those
\* of inner objects are never read once they are nested).
IsTree(tree) ==
  /\ tree = [replaces |-> tree.replaces, minedTxs |-> tree.minedTxs,
             mined |-> tree.mined, fullRbf |-> tree.fullRbf]
  /\ IsMap(tree.replaces, SUBSET Tx)
  /\ tree.minedTxs \subseteq Tx
  /\ tree.mined \in BOOLEAN
  /\ tree.fullRbf \in BOOLEAN

IsForest(trees) == DOMAIN trees \subseteq Tx /\ \A r \in DOMAIN trees : IsTree(trees[r])

Nodes(tree) == DOMAIN tree.replaces

ClosedUnder(kids, C) == \A p \in C \cap DOMAIN kids : kids[p] \subseteq C

\* Seeded: the walk stops at the direct children.
FaultyBelow(kids, S) == S \cup UNION {kids[p] : p \in S \cap DOMAIN kids}

\* S and every version below it: what a recursive walk over `kids` visits.
Below(kids, S) ==
  {x \in Tx : \A C \in SUBSET Tx : S \subseteq C /\ ClosedUnder(kids, C) => x \in C}

IsSnapshot(d) ==
  /\ d = [txs |-> d.txs, trees |-> d.trees, expiring |-> d.expiring]
  /\ d.txs \subseteq Tx
  /\ IsForest(d.trees)
  /\ IsMap(d.expiring, 0..ExpiryTicks)

MemoryOK ==
  /\ IsMap(replacedBy, Tx)
  /\ IsMap(replaces, SUBSET Tx)
  /\ IsForest(rbfTrees)
  /\ dirtyTrees \subseteq Tx
  /\ IsMap(treeMap, Tx)
  /\ txs \subseteq Tx
  /\ IsMap(expiring, 0..ExpiryTicks)

TypeOK ==
  /\ MemoryOK
  /\ IsSnapshot(saved)
  /\ phase \in {"running", "connecting", "checking"}
  /\ batch \subseteq Tx

Nothing == [x \in {} |-> {}]

Init ==
  /\ replacedBy = Nothing
  /\ replaces = Nothing
  /\ rbfTrees = Nothing
  /\ dirtyTrees = {}
  /\ treeMap = Nothing
  /\ txs = {}
  /\ expiring = Nothing
  /\ saved = [txs |-> {}, trees |-> Nothing, expiring |-> Nothing]
  /\ phase = "running"
  /\ batch = {}

-----------------------------------------------------------------------------
(* Operations of a running cache                                           *)

\* add() returns early for a transaction it has already.
Unseen(new) == new \notin txs

\* Those of the replaced transactions that no other transaction replaced before.
Unreplaced(replaced) == replaced \ DOMAIN replacedBy

\* The nodes below a new root with these children.
Members(leaves, joined) == leaves \cup UNION {Nodes(rbfTrees[r]) : r \in joined}

\* Seeded: the flag of the absorbed trees is forgotten.
FaultyFullRbf(leaves, joined) == (leaves \cup joined) \cap Final # {}

\* treeFullRbf: some replaced version did not signal that it could be replaced.
FullRbf(leaves, joined) ==
  \/ (leaves \cup joined) \cap Final # {}
  \/ \E r \in joined : rbfTrees[r].fullRbf

\* add(): `new` replaces the transactions `replaced`.  Those already replaced are
\* skipped; a root brings its whole tree along, an unknown one becomes a leaf.
Add(replaced, new) ==
  /\ Unseen(new)
  /\ \E t \in replaced : t \notin DOMAIN replacedBy
  /\ LET fresh  == Unreplaced(replaced)
         leaves == fresh \ DOMAIN treeMap
         ids    == {treeMap[t] : t \in fresh \ leaves}
         joined == ids \cap DOMAIN rbfTrees
         below  == Members(leaves, joined)
         tree   == [replaces |-> [x \in below \cup {new} |->
                       CASE x = new -> leaves \cup joined
                         [] x # new /\ x \in leaves -> {}
                         [] OTHER -> rbfTrees[treeMap[x]].replaces[x]],
                    minedTxs |-> UNION {rbfTrees[r].minedTxs : r \in joined},
                    mined    |-> FALSE,
                    fullRbf  |-> FullRbf(leaves, joined)]
     IN /\ replacedBy' = [t \in fresh \cup DOMAIN replacedBy |->
                            IF t \in fresh THEN new ELSE replacedBy[t]]
        /\ replaces' = [t \in {new} \cup DOMAIN replaces |->
                          IF t = new THEN leaves \cup joined ELSE replaces[t]]
        /\ rbfTrees' = [r \in {new} \cup (DOMAIN rbfTrees \ ids) |->
                          IF r = new THEN tree ELSE rbfTrees[r]]
        /\ treeMap' = [x \in below \cup {new} \cup DOMAIN treeMap |->
                         IF x \in below \cup {new} THEN new ELSE treeMap[x]]
        /\ txs' = txs \cup leaves \cup {new}
  /\ dirtyTrees' = dirtyTrees \cup {new}
  /\ UNCHANGED expiring

\* The expirations once evict() has flagged every transaction of S.
Evicted(S) ==
  [t \in DOMAIN expiring \cup (S \cap txs) |->
     IF t \in DOMAIN expiring THEN expiring[t] ELSE ExpiryTicks]

\* Seeded: a later eviction postpones the expiry.
FaultyEvict(txid) ==
  /\ txid \in txs
  /\ expiring' = [t \in DOMAIN expiring \cup {txid} |->
                    IF t = txid THEN ExpiryTicks ELSE expiring[t]]
  /\ UNCHANGED <<maps, rbfTrees, dirtyTrees, txs>>

\* evict(): flag a transaction that left the mempool.  The `fast` variant has no
\* caller.
Evict(txid) ==
  /\ txid \in txs \ DOMAIN expiring
  /\ expiring' = Evicted({txid})
  /\ UNCHANGED <<maps, rbfTrees, dirtyTrees, txs>>

\* getRbfTree() finds a tree for the transaction.
HasTree(txid) == txid \in DOMAIN treeMap /\ treeMap[txid] \in DOMAIN rbfTrees

\* The trees once setTreeMined() has marked the transactions of S.
WithMined(S) ==
  [r \in DOMAIN rbfTrees |->
     IF \E t \in S : HasTree(t) /\ treeMap[t] = r
     THEN [rbfTrees[r] EXCEPT !.minedTxs = @ \cup (S \cap Nodes(rbfTrees[r])),
                              !.mined = TRUE]
     ELSE rbfTrees[r]]

\* mined(): a transaction was confirmed by a block.
Mined(txid) ==
  /\ txid \in txs
  /\ rbfTrees' = WithMined({txid})
  /\ dirtyTrees' = dirtyTrees \cup {r \in DOMAIN rbfTrees : HasTree(txid) /\ treeMap[txid] = r}
  /\ expiring' = Evicted({txid})
  /\ UNCHANGED <<maps, txs>>

\* getRbfChanges(): hand the changed trees to the websocket handler.
GetRbfChanges ==
  /\ dirtyTrees' = {}
  /\ UNCHANGED <<maps, rbfTrees, txs, expiring>>

\* Seeded: remove() does not look for a newer version.
FaultyRemovable(due) == due

\* remove() keeps a transaction that a newer version replaced.
Removable(due) == due \ DOMAIN replacedBy

\* cleanup(): remove() every due transaction that no newer version replaced, with
\* all its previous versions.  `exp` and `trees` are the tables it finds.
Cleanup(exp, trees) ==
  LET due  == {t \in DOMAIN exp : exp[t] = 0}
      gone == Below(replaces, Removable(due))
      ids  == {t \in gone \cap DOMAIN treeMap : treeMap[t] = t}
  IN /\ replacedBy' = [t \in DOMAIN replacedBy \
                         UNION {replaces[p] : p \in gone \cap DOMAIN replaces} |-> replacedBy[t]]
     /\ replaces' = [t \in DOMAIN replaces \ gone |-> replaces[t]]
     /\ treeMap' = [t \in DOMAIN treeMap \ gone |-> treeMap[t]]
     /\ txs' = txs \ gone
     /\ expiring' = [t \in DOMAIN exp \ (due \cup gone) |-> exp[t]]
     /\ rbfTrees' = [r \in DOMAIN trees \ ids |-> trees[r]]
     /\ UNCHANGED dirtyTrees

-----------------------------------------------------------------------------
(* Snapshot and restart                                                    *)

\* dump(), written by $saveCacheToDisk().
Save ==
  /\ saved' = [txs |-> txs, trees |-> rbfTrees, expiring |-> expiring]
  /\ UNCHANGED <<memory, phase, batch>>

\* Seeded: versions about to expire are left out.
FaultyReadable(tree, have) ==
  [p \in Nodes(tree) |-> (tree.replaces[p] \cap have) \ DOMAIN saved.expiring]

\* The children of a stored tree whose transaction was stored as well.
Readable(tree, have) == [p \in Nodes(tree) |-> tree.replaces[p] \cap have]

\* importTree() of a whole stored tree: a child whose transaction is missing is cut
\* off.  The stored `mined` is not read back (nothing ever sets it on the way up).
ImportTree(tree, root, have) ==
  LET linked == Below(Readable(tree, have), {root})
  IN [replaces |-> [p \in linked |-> tree.replaces[p] \cap have],
      minedTxs |-> tree.minedTxs \cap linked,
      mined    |-> FALSE,
      fullRbf  |-> tree.fullRbf]

\* The process dies and load() imports the snapshot.  Trees of one dump share no
\* node, so the order in which they are imported does not matter.
Restart ==
  LET roots  == DOMAIN saved.trees \cap saved.txs
      stored == [r \in roots |-> Readable(saved.trees[r], saved.txs)]
      loaded == [r \in roots |-> ImportTree(saved.trees[r], r, saved.txs)]
      linked == UNION {Nodes(loaded[r]) : r \in roots}
      parent == [p \in UNION {DOMAIN stored[r] : r \in roots} |->
                   stored[CHOOSE r \in roots : p \in DOMAIN stored[r]][p]]
  IN /\ txs' = saved.txs
     /\ rbfTrees' = loaded
     /\ dirtyTrees' = roots
     /\ treeMap' = [x \in linked |-> CHOOSE r \in roots : x \in Nodes(loaded[r])]
     /\ replaces' = parent
     /\ replacedBy' = [c \in UNION {parent[p] : p \in DOMAIN parent} |->
                         CHOOSE p \in DOMAIN parent : c \in parent[p]]
     /\ expiring' = [t \in DOMAIN saved.expiring \cap saved.txs |-> saved.expiring[t]]
     /\ phase' = "connecting"
     /\ batch' = roots
     /\ UNCHANGED saved

\* load() links the imported roots (`batch`) to the mempool transaction that
\* conflicts with them ...
Connect(replaced, new) ==
  /\ phase = "connecting"
  /\ replaced \subseteq batch
  /\ Add(replaced, new)
  /\ UNCHANGED <<saved, phase, batch>>

\* ... and checkTrees() lists the transactions to look up.
BeginCheck ==
  /\ phase = "connecting"
  /\ phase' = "checking"
  /\ batch' = {t \in txs \ DOMAIN expiring : ~ (HasTree(t) /\ rbfTrees[treeMap[t]].mined)}
  /\ UNCHANGED <<memory, saved>>

\* The answers: `found` is known to the node and `confirmed` is in a block.  The
\* trees are not marked dirty.  load() ends with a cleanup().
FinishCheck(found, confirmed) ==
  /\ phase = "checking"
  /\ Cleanup(Evicted((batch \ found) \cup {t \in confirmed : HasTree(t)}),
             WithMined(confirmed))
  /\ phase' = "running"
  /\ batch' = {}
  /\ UNCHANGED saved

-----------------------------------------------------------------------------
\* The timer of the constructor; connecting is synchronous and lets nothing in.
CleanupTimer ==
  /\ phase # "connecting"
  /\ Cleanup(expiring, rbfTrees)
  /\ UNCHANGED <<saved, phase, batch>>

Elapsed(exp) == [t \in DOMAIN exp |-> IF exp[t] = 0 THEN 0 ELSE exp[t] - 1]

\* Deadlines are absolute times: a clock tick brings those on disk closer too.
Tick ==
  /\ phase # "connecting"
  /\ expiring' = Elapsed(expiring)
  /\ saved' = [saved EXCEPT !.expiring = Elapsed(@)]
  /\ UNCHANGED <<maps, rbfTrees, dirtyTrees, txs, phase, batch>>

Serving(op) == phase = "running" /\ op /\ UNCHANGED <<saved, phase, batch>>

\* Calls of the mempool, block and websocket handlers.
Operations ==
  \/ \E replaced \in SUBSET Tx, new \in Tx :
       new \notin replaced /\ Serving(Add(replaced, new))
  \/ \E txid \in Tx : Serving(Evict(txid))
  \/ \E txid \in Tx : Serving(Mined(txid))
  \/ Serving(GetRbfChanges)

Clock == CleanupTimer \/ Tick

Restarting ==
  \/ Save
  \/ Restart
  \/ \E replaced \in SUBSET Tx, new \in Tx :
       new \notin replaced /\ Connect(replaced, new)
  \/ BeginCheck
  \/ \E found \in SUBSET batch : \E confirmed \in SUBSET found :
       FinishCheck(found, confirmed)

Next == Operations \/ Clock \/ Restarting

\* The event loop runs the timer and time passes; nothing else is promised.
Fairness ==
  /\ WF_vars(CleanupTimer)
  /\ WF_vars(Tick)

Spec == Init /\ [][Next]_vars

FairSpec == Spec /\ Fairness
=============================================================================
