---------------------------- MODULE RbfCacheProps ----------------------------
(***************************************************************************)
(* What the RBF cache promises.  The first five invariants are those the   *)
(* header of backend/src/api/rbf-cache.ts (lines 52-61) demands "to        *)
(* maintain consistency".                                                  *)
(***************************************************************************)
EXTENDS RbfCache

\* Symmetry: A is recorded as replaced by B exactly when B lists A.
Symmetry ==
  \A a, b \in Tx :
    (a \in DOMAIN replacedBy /\ replacedBy[a] = b)
      <=> (b \in DOMAIN replaces /\ a \in replaces[b])

\* Unique id: the root of every tree belongs to its own tree.
UniqueId ==
  \A x \in DOMAIN treeMap :
    treeMap[x] \in DOMAIN treeMap /\ treeMap[treeMap[x]] = treeMap[x]

\* Unique tree: a transaction and the ones it replaced are in the same tree.
UniqueTree ==
  \A b \in DOMAIN replaces : \A a \in replaces[b] :
    /\ {a, b} \subseteq DOMAIN treeMap
    /\ treeMap[a] = treeMap[b]

\* Existence: a transaction is never mapped to a tree that is gone.
Existence == \A x \in DOMAIN treeMap : treeMap[x] \in DOMAIN rbfTrees

\* Completeness: everything known to replace or be replaced is in some tree.
Completeness == DOMAIN replacedBy \cup DOMAIN replaces \subseteq DOMAIN treeMap

-----------------------------------------------------------------------------
\* The tree objects and the maps tell the same story: a cached transaction is in
\* the tree treeMap names and no other, with the children `replaces` lists.
TreesAgree ==
  /\ txs = DOMAIN treeMap
  /\ \A x \in txs : HasTree(x)
  /\ \A r \in DOMAIN rbfTrees :
       /\ Nodes(rbfTrees[r]) = {x \in DOMAIN treeMap : treeMap[x] = r}
       /\ \A p \in Nodes(rbfTrees[r]) :
            rbfTrees[r].replaces[p] = IF p \in DOMAIN replaces THEN replaces[p] ELSE {}

\* No version replaces itself through others: the recursive walks terminate.
NoCycles == \A p \in DOMAIN replaces : p \notin Below(replaces, replaces[p])

\* A tree is shown as full RBF exactly when some replaced version of it had not
\* signalled that it could be replaced.
FullRbfExact ==
  \A r \in DOMAIN rbfTrees :
    rbfTrees[r].fullRbf <=> (Nodes(rbfTrees[r]) \ {r}) \cap Final # {}

\* cleanup() drops a tree as a whole and only when its newest version is due: "don't
\* remove a transaction if a newer version remains in the mempool" (line 330).
WholeTreeExpires ==
  [][phase # "connecting" /\ phase' # "connecting" =>
       \A x \in txs \ txs' :
         LET r == treeMap[x]
         IN r \in DOMAIN expiring /\ expiring[r] = 0 /\ Nodes(rbfTrees[r]) \cap txs' = {}]_vars

\* An evicted newest version leaves the cache, unless a newer one replaces it (or
\* the process restarts from a snapshot without the eviction).
EvictedLeave ==
  \A x \in Tx :
    (x \in DOMAIN expiring /\ x \notin DOMAIN replacedBy)
      ~> (x \notin txs \/ x \in DOMAIN replacedBy \/ phase = "connecting")

-----------------------------------------------------------------------------
\* The parent of every version in trees with the given nestings.
Parents(kids) ==
  [c \in UNION {UNION {kids[r][p] : p \in DOMAIN kids[r]} : r \in DOMAIN kids} |->
     CHOOSE p \in Tx : \E r \in DOMAIN kids : p \in DOMAIN kids[r] /\ c \in kids[r][p]]

\* Refinement: the parent of every version stored in the snapshot.
StoredParents == Parents([r \in DOMAIN saved.trees |-> saved.trees[r].replaces])

History == INSTANCE RbfHistory
  WITH known <- txs, newer <- replacedBy,
       saved <- [known |-> saved.txs, newer |-> StoredParents]

\* The cache implements the history: no replacement is forgotten or invented by an
\* operation, a cleanup, a dump or a load.
RefinesHistory == History!HSpec

-----------------------------------------------------------------------------
(* The inductive invariant behind the theorems of RbfCacheProofs.           *)

Kids(p) == IF p \in DOMAIN replaces THEN replaces[p] ELSE {}

\* In every tree the root is a node but nobody's child, and a walk from it reaches
\* all the nodes.
Rooted(trees) ==
  \A r \in DOMAIN trees :
    /\ r \in Nodes(trees[r])
    /\ \A p \in Nodes(trees[r]) : trees[r].replaces[p] \subseteq Nodes(trees[r]) \ {r}
    /\ Nodes(trees[r]) \subseteq Below(trees[r].replaces, {r})

\* treeMap is the index of the nodes of the trees ...
Indexed ==
  /\ \A x \in DOMAIN treeMap : /\ treeMap[x] \in DOMAIN rbfTrees
                               /\ x \in Nodes(rbfTrees[treeMap[x]])
  /\ \A r \in DOMAIN rbfTrees : \A x \in Nodes(rbfTrees[r]) :
       x \in DOMAIN treeMap /\ treeMap[x] = r

\* ... and replaces and replacedBy are their edges, downwards and upwards.
Linked ==
  /\ DOMAIN replaces \subseteq DOMAIN treeMap
  /\ \A p \in DOMAIN treeMap : rbfTrees[treeMap[p]].replaces[p] = Kids(p)
  /\ \A x \in DOMAIN replacedBy : x \in DOMAIN treeMap /\ x \in Kids(replacedBy[x])
  /\ \A p \in DOMAIN replaces : \A c \in replaces[p] :
       c \in DOMAIN replacedBy /\ replacedBy[c] = p
  /\ \A x \in DOMAIN treeMap : x \notin DOMAIN replacedBy <=> treeMap[x] = x

\* Trees are disjoint, and every node but the root has one parent.
Separate(trees) ==
  /\ Rooted(trees)
  /\ \A r, q \in DOMAIN trees : Nodes(trees[r]) \cap Nodes(trees[q]) # {} => r = q
  /\ \A r, q \in DOMAIN trees : \A p \in Nodes(trees[r]), s \in Nodes(trees[q]) :
       trees[r].replaces[p] \cap trees[q].replaces[s] # {} => p = s
  /\ \A r \in DOMAIN trees : \A x \in Nodes(trees[r]) \ {r} :
       \E p \in Nodes(trees[r]) : x \in trees[r].replaces[p]

\* The trees of a snapshot are separate and cover its transactions.
Restorable(d) ==
  /\ Separate(d.trees)
  /\ \A x \in d.txs : \E r \in DOMAIN d.trees : x \in Nodes(d.trees[r])
  /\ \A r \in DOMAIN d.trees : Nodes(d.trees[r]) \subseteq d.txs

\* The tables in memory are well formed and agree ...
Sound ==
  /\ MemoryOK /\ Rooted(rbfTrees) /\ Indexed /\ Linked
  /\ DOMAIN treeMap \subseteq txs

\* ... and every cached transaction has a tree.
Intact == Sound /\ DOMAIN treeMap = txs

\* Memory and snapshot are well formed in every state, in the middle of load() too.
Consistent ==
  /\ TypeOK
  /\ Intact
  /\ Restorable(saved)
=============================================================================
