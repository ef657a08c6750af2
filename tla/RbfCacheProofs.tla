--------------------------- MODULE RbfCacheProofs ---------------------------
(***************************************************************************)
(* The invariants of the RBF cache hold for every set of transactions,     *)
(* with restarts from any earlier snapshot; its trees have no cycles, the  *)
(* flag for full RBF is exact, and the cache implements the plain history  *)
(* of replacements of RbfHistory.  While nothing fails, its mirror in      *)
(* Redis is exact whenever the queued events have been replayed; a crash   *)
(* between any two commands leaves a store that load() can mend; and       *)
(* whatever faults have left in Redis, load() never mixes up its trees.    *)
(***************************************************************************)
EXTENDS RbfRedisProps, FiniteSetTheorems, SequenceTheorems, WellFoundedInduction, TLAPS

-----------------------------------------------------------------------------
(* Walks                                                                   *)

\* A walk visits where it starts.
LEMMA BelowStart ==
  ASSUME NEW kids, NEW S \in SUBSET Tx
  PROVE  S \subseteq Below(kids, S)
BY DEF Below

\* A walk stays in every set of transactions that has its start and is closed.
LEMMA BelowLeast ==
  ASSUME NEW kids, NEW S, NEW C \in SUBSET Tx, S \subseteq C, ClosedUnder(kids, C)
  PROVE  Below(kids, S) \subseteq C
BY DEF Below

\* A walk visits the children of every node it visits.
LEMMA BelowClosed ==
  ASSUME NEW kids, NEW S, \A p \in DOMAIN kids : kids[p] \subseteq Tx
  PROVE  ClosedUnder(kids, Below(kids, S)) /\ Below(kids, S) \subseteq Tx
BY DEF Below, ClosedUnder

-----------------------------------------------------------------------------
(* The tables of an intact cache                                           *)

\* A transaction and those it replaced are in the same tree.
LEMMA SameTree ==
  ASSUME Sound, NEW p \in DOMAIN replaces, NEW c \in replaces[p]
  PROVE  /\ {p, c} \subseteq DOMAIN treeMap /\ p \in txs /\ c \in txs
         /\ treeMap[c] = treeMap[p]
         /\ c \in DOMAIN replacedBy /\ replacedBy[c] = p
<1>1. p \in DOMAIN treeMap /\ treeMap[p] \in DOMAIN rbfTrees /\ p \in Nodes(rbfTrees[treeMap[p]])
  BY DEF Sound, Indexed, Linked
<1>2. c \in Nodes(rbfTrees[treeMap[p]])
  BY <1>1 DEF Sound, Linked, Rooted, Kids
<1> QED BY <1>1, <1>2 DEF Sound, Indexed, Linked

\* The roots are the transactions mapped to themselves.
LEMMA RootsAreSelfMapped ==
  ASSUME Sound
  PROVE  /\ \A r \in DOMAIN rbfTrees : r \in DOMAIN treeMap /\ r \in txs /\ treeMap[r] = r
         /\ \A x \in DOMAIN treeMap : treeMap[x] \in DOMAIN rbfTrees /\ treeMap[x] \in txs
                           /\ treeMap[x] \in DOMAIN treeMap /\ treeMap[treeMap[x]] = treeMap[x]
<1>1. ASSUME NEW r \in DOMAIN rbfTrees PROVE r \in DOMAIN treeMap /\ r \in txs /\ treeMap[r] = r
  BY DEF Sound, Rooted, Indexed
<1> QED BY <1>1 DEF Sound, Indexed

-----------------------------------------------------------------------------
(* Cleanup                                                                 *)

\* remove() of due transactions that no newer version replaced takes whole trees:
\* all the nodes of the trees whose root is due and none of the others.
LEMMA RemovedWhole ==
  ASSUME Sound,
         NEW due \in SUBSET Tx, NEW r \in DOMAIN rbfTrees
  PROVE  LET gone == Below(replaces, Removable(due))
         IN IF r \in due THEN Nodes(rbfTrees[r]) \subseteq gone
                         ELSE Nodes(rbfTrees[r]) \cap gone = {}
<1> DEFINE start == Removable(due)
           gone  == Below(replaces, start)
<1>1. \A p \in DOMAIN replaces : replaces[p] \subseteq Tx
  BY DEF Sound, MemoryOK, IsMap
<1>2. ClosedUnder(replaces, gone) /\ gone \subseteq Tx
  BY <1>1, BelowClosed
<1>3. \A p \in Nodes(rbfTrees[r]) :
        /\ p \in DOMAIN treeMap
        /\ rbfTrees[r].replaces[p] = Kids(p)
        /\ Kids(p) \subseteq Nodes(rbfTrees[r]) \ {r}
  <2>1. ASSUME NEW p \in Nodes(rbfTrees[r])
        PROVE  p \in DOMAIN treeMap /\ treeMap[p] = r
    BY <2>1 DEF Sound, Indexed
  <2>2. ASSUME NEW p \in Nodes(rbfTrees[r])
        PROVE  rbfTrees[r].replaces[p] = Kids(p)
    BY <2>1 DEF Sound, Linked
  <2>3. ASSUME NEW p \in Nodes(rbfTrees[r])
        PROVE  rbfTrees[r].replaces[p] \subseteq Nodes(rbfTrees[r]) \ {r}
    BY DEF Sound, Rooted
  <2> QED BY <2>1, <2>2, <2>3
<1>4. Nodes(rbfTrees[r]) \subseteq Tx
  BY <1>3 DEF Sound, MemoryOK
<1>5. CASE r \in due
  <2>1. r \in start
    BY <1>5 DEF Sound, Removable, Linked, Indexed, Rooted
  <2>2. r \in gone
    BY <2>1, BelowStart DEF Removable
  <2>3. ClosedUnder(rbfTrees[r].replaces, gone)
    BY <1>2, <1>3 DEF ClosedUnder, Kids, Nodes
  <2>4. Below(rbfTrees[r].replaces, {r}) \subseteq gone
    BY <1>2, <2>2, <2>3, BelowLeast
  <2> QED BY <1>5, <2>4 DEF Sound, Rooted
<1>6. CASE r \notin due
  <2> DEFINE rest == Tx \ Nodes(rbfTrees[r])
  <2>1. start \subseteq rest
    <3> SUFFICES ASSUME NEW x \in start, x \in Nodes(rbfTrees[r]) PROVE FALSE
      BY DEF Removable
    <3>1. x \in DOMAIN treeMap /\ treeMap[x] = r /\ x \notin DOMAIN replacedBy
      BY DEF Sound, Indexed, Removable
    <3> QED BY <3>1, <1>6 DEF Sound, Linked, Removable
  <2>2. ClosedUnder(replaces, rest)
    <3> SUFFICES ASSUME NEW p \in rest \cap DOMAIN replaces,
                        NEW c \in replaces[p], c \in Nodes(rbfTrees[r])
                 PROVE  FALSE
      BY <1>1 DEF ClosedUnder
    <3>1. p \in DOMAIN treeMap /\ treeMap[p] \in DOMAIN rbfTrees
      BY DEF Sound, Indexed, Linked
    <3>2. c \in Nodes(rbfTrees[treeMap[p]])
      BY <3>1 DEF Sound, Indexed, Linked, Rooted, Kids
    <3>3. treeMap[c] = r /\ treeMap[c] = treeMap[p]
      BY <3>1, <3>2 DEF Sound, Indexed
    <3> QED BY <3>1, <3>3 DEF Sound, Indexed
  <2>3. gone \subseteq rest
    BY <2>1, <2>2, BelowLeast
  <2> QED BY <1>6, <2>3
<1> QED BY <1>5, <1>6

\* A cleanup leaves the cache intact, whatever expirations it scans.
LEMMA CleanupSound ==
  ASSUME Sound,
         NEW exp, IsMap(exp, 0..ExpiryTicks),
         NEW trees, IsForest(trees), DOMAIN trees = DOMAIN rbfTrees,
         \A r \in DOMAIN trees : trees[r].replaces = rbfTrees[r].replaces,
         Cleanup(exp, trees)
  PROVE  Sound'
<1> DEFINE due  == {t \in DOMAIN exp : exp[t] = 0}
           gone == Below(replaces, Removable(due))
           ids  == {t \in gone \cap DOMAIN treeMap : treeMap[t] = t}
           cut  == UNION {replaces[p] : p \in gone \cap DOMAIN replaces}
<1>1. /\ replacedBy' = [t \in DOMAIN replacedBy \ cut |-> replacedBy[t]]
      /\ replaces' = [t \in DOMAIN replaces \ gone |-> replaces[t]]
      /\ treeMap' = [t \in DOMAIN treeMap \ gone |-> treeMap[t]]
      /\ txs' = txs \ gone
      /\ expiring' = [t \in DOMAIN exp \ (due \cup gone) |-> exp[t]]
      /\ rbfTrees' = [r \in DOMAIN trees \ ids |-> trees[r]]
      /\ dirtyTrees' = dirtyTrees
  BY DEF Cleanup
<1>2. due \in SUBSET Tx
  BY DEF IsMap
<1>3. ASSUME NEW r \in DOMAIN rbfTrees
      PROVE  IF r \in due THEN Nodes(rbfTrees[r]) \subseteq gone
                          ELSE Nodes(rbfTrees[r]) \cap gone = {}
  BY <1>2, <1>3, RemovedWhole
<1>4. ASSUME NEW x \in DOMAIN treeMap
      PROVE  /\ treeMap[x] \in DOMAIN rbfTrees
             /\ x \in gone <=> treeMap[x] \in due
             /\ treeMap[treeMap[x]] = treeMap[x]
             /\ treeMap[x] \in gone <=> x \in gone
  <2>1. treeMap[x] \in DOMAIN rbfTrees /\ x \in Nodes(rbfTrees[treeMap[x]])
    BY DEF Sound, Indexed
  <2>2. treeMap[x] \in Nodes(rbfTrees[treeMap[x]])
    BY <2>1 DEF Sound, Rooted
  <2>3. treeMap[treeMap[x]] = treeMap[x]
    BY <2>1, <2>2 DEF Sound, Indexed
  <2> QED BY <1>3, <2>1, <2>2, <2>3
<1>5. ASSUME NEW r \in DOMAIN rbfTrees
      PROVE  r \in DOMAIN treeMap /\ treeMap[r] = r /\ (r \in ids <=> r \in gone)
  BY RootsAreSelfMapped DEF Sound, Indexed
<1>6. ASSUME NEW p \in DOMAIN replaces, NEW c \in replaces[p]
      PROVE  /\ p \in gone <=> c \in gone
             /\ p \in gone <=> c \in cut
  <2>1. {p, c} \subseteq DOMAIN treeMap /\ treeMap[c] = treeMap[p] /\ replacedBy[c] = p
    BY SameTree
  <2>2. p \in gone <=> c \in gone
    BY <2>1, <1>4
  <2>3. ASSUME c \in cut PROVE p \in gone
    <3>1. PICK q \in gone \cap DOMAIN replaces : c \in replaces[q]
      BY <2>3
    <3> QED BY <3>1, <2>1, SameTree
  <2> QED BY <2>2, <2>3
<1>7. MemoryOK'
  <2>1. IsMap(replacedBy', Tx) /\ IsMap(replaces', SUBSET Tx) /\ IsMap(treeMap', Tx)
    BY <1>1 DEF Sound, MemoryOK, IsMap
  <2>2. IsForest(rbfTrees')
    BY <1>1 DEF IsForest
  <2>3. IsMap(expiring', 0..ExpiryTicks)
    BY <1>1 DEF IsMap
  <2> QED BY <1>1, <2>1, <2>2, <2>3 DEF Sound, MemoryOK
<1>8. Rooted(rbfTrees)'
  <2>1. ASSUME NEW r \in DOMAIN rbfTrees'
        PROVE  rbfTrees'[r].replaces = rbfTrees[r].replaces /\ r \in DOMAIN rbfTrees
    BY <1>1
  <2> QED BY <2>1 DEF Sound, Rooted, Nodes
<1>9. Indexed'
  <2>1. DOMAIN treeMap' = DOMAIN treeMap \ gone
    BY <1>1
  <2>2. ASSUME NEW x \in DOMAIN treeMap'
        PROVE  treeMap'[x] \in DOMAIN rbfTrees' /\ x \in Nodes(rbfTrees'[treeMap'[x]])
    <3>1. x \in DOMAIN treeMap /\ x \notin gone /\ treeMap'[x] = treeMap[x]
      BY <1>1, <2>1
    <3>2. treeMap[x] \in DOMAIN rbfTrees /\ treeMap[x] \notin ids
      BY <3>1, <1>4
    <3> QED BY <1>1, <3>1, <3>2 DEF Sound, Indexed, Nodes
  <2>3. ASSUME NEW r \in DOMAIN rbfTrees', NEW x \in Nodes(rbfTrees'[r])
        PROVE  x \in DOMAIN treeMap' /\ treeMap'[x] = r
    <3>1. r \in DOMAIN rbfTrees /\ r \notin gone /\ x \in Nodes(rbfTrees[r])
      BY <1>1, <1>5 DEF Nodes
    <3>2. x \in DOMAIN treeMap /\ treeMap[x] = r
      BY <3>1 DEF Sound, Indexed
    <3>3. x \notin gone
      BY <3>1, <3>2, <1>4
    <3> QED BY <1>1, <3>2, <3>3 DEF Sound, Indexed
  <2> QED BY <2>1, <2>2, <2>3 DEF Indexed
<1>10. Linked'
  <2>1. DOMAIN replaces' \subseteq DOMAIN treeMap'
    BY <1>1 DEF Sound, Linked
  <2>2. ASSUME NEW p \in DOMAIN treeMap'
        PROVE  rbfTrees'[treeMap'[p]].replaces[p] = Kids(p)'
    <3>1. p \in DOMAIN treeMap /\ p \notin gone /\ treeMap'[p] = treeMap[p]
      BY <1>1 DEF Sound, Indexed
    <3>2. treeMap[p] \in DOMAIN rbfTrees'
      BY <3>1, <1>1, <1>9 DEF Indexed
    <3>3. rbfTrees'[treeMap'[p]].replaces = rbfTrees[treeMap[p]].replaces
      BY <3>1, <3>2, <1>1
    <3>4. Kids(p)' = Kids(p)
      BY <3>1, <1>1 DEF Kids
    <3> QED BY <3>1, <3>3, <3>4 DEF Sound, Linked
  <2>3. ASSUME NEW x \in DOMAIN replacedBy'
        PROVE  x \in DOMAIN treeMap' /\ x \in Kids(replacedBy[x])'
    <3>1. /\ x \in DOMAIN treeMap /\ x \notin cut /\ replacedBy'[x] = replacedBy[x]
          /\ replacedBy[x] \in DOMAIN replaces /\ x \in replaces[replacedBy[x]]
      BY <1>1 DEF Sound, Linked, Kids
    <3>2. replacedBy[x] \notin gone /\ x \notin gone
      BY <3>1, <1>6
    <3> QED BY <1>1, <3>1, <3>2 DEF Kids
  <2>4. ASSUME NEW p \in DOMAIN replaces', NEW c \in replaces'[p]
        PROVE  c \in DOMAIN replacedBy' /\ replacedBy'[c] = p
    <3>1. p \in DOMAIN replaces /\ p \notin gone /\ c \in replaces[p]
      BY <1>1
    <3>2. c \notin cut
      BY <3>1, <1>6
    <3> QED BY <1>1, <3>1, <3>2, SameTree
  <2>5. ASSUME NEW x \in DOMAIN treeMap'
        PROVE  x \notin DOMAIN replacedBy' <=> treeMap'[x] = x
    <3>1. x \in DOMAIN treeMap /\ x \notin gone /\ treeMap'[x] = treeMap[x]
      BY <1>1 DEF Sound, Indexed
    <3>2. x \notin cut
      BY <3>1, <1>6
    <3> QED BY <1>1, <3>1, <3>2 DEF Sound, Linked
  <2> QED BY <2>1, <2>2, <2>3, <2>4, <2>5 DEF Linked
<1>11. DOMAIN treeMap' \subseteq txs'
  BY <1>1 DEF Sound
<1> QED BY <1>7, <1>8, <1>9, <1>10, <1>11 DEF Sound

\* ... and one in which everything has a tree so.
LEMMA CleanupIntact ==
  ASSUME Intact,
         NEW exp, IsMap(exp, 0..ExpiryTicks),
         NEW trees, IsForest(trees), DOMAIN trees = DOMAIN rbfTrees,
         \A r \in DOMAIN trees : trees[r].replaces = rbfTrees[r].replaces,
         Cleanup(exp, trees)
  PROVE  Intact'
<1>1. Sound'
  BY CleanupSound DEF Intact
<1>2. DOMAIN treeMap' = txs'
  BY DEF Intact, Cleanup
<1> QED BY <1>1, <1>2 DEF Intact

-----------------------------------------------------------------------------
(* Evictions and confirmations                                             *)

\* Evicting transactions gives a table of expirations.
LEMMA EvictedType ==
  ASSUME MemoryOK, NEW S
  PROVE  IsMap(Evicted(S), 0..ExpiryTicks)
BY ExpiryAssumption DEF MemoryOK, IsMap, Evicted

\* So does the passing of time.
LEMMA ElapsedType ==
  ASSUME NEW exp, IsMap(exp, 0..ExpiryTicks)
  PROVE  IsMap(Elapsed(exp), 0..ExpiryTicks)
BY ExpiryAssumption DEF IsMap, Elapsed

\* Marking transactions as mined changes neither the roots nor the nesting.
LEMMA MarkedForest ==
  ASSUME MemoryOK, NEW S
  PROVE  /\ IsForest(WithMined(S))
         /\ DOMAIN WithMined(S) = DOMAIN rbfTrees
         /\ \A r \in DOMAIN rbfTrees : WithMined(S)[r].replaces = rbfTrees[r].replaces
<1>1. DOMAIN WithMined(S) = DOMAIN rbfTrees
  BY DEF WithMined
<1>2. ASSUME NEW r \in DOMAIN rbfTrees
      PROVE  /\ IsTree(WithMined(S)[r])
             /\ WithMined(S)[r].replaces = rbfTrees[r].replaces
  <2> DEFINE old == rbfTrees[r]
             new == WithMined(S)[r]
  <2>1. /\ IsTree(old)
        /\ Nodes(old) \subseteq Tx
    BY DEF MemoryOK, IsForest, IsTree, IsMap, Nodes
  <2>2. \/ new = old
        \/ new = [old EXCEPT !.minedTxs = @ \cup (S \cap Nodes(old)), !.mined = TRUE]
    BY DEF WithMined
  <2>3. CASE new = old
    BY <2>1, <2>3
  <2>4. CASE new = [old EXCEPT !.minedTxs = @ \cup (S \cap Nodes(old)), !.mined = TRUE]
    <3>0. old = [replaces |-> old.replaces, minedTxs |-> old.minedTxs,
                 mined |-> old.mined, fullRbf |-> old.fullRbf]
      BY <2>1 DEF IsTree
    <3>1. new = [replaces |-> old.replaces, minedTxs |-> old.minedTxs \cup (S \cap Nodes(old)),
                 mined |-> TRUE, fullRbf |-> old.fullRbf]
      BY <2>4, <3>0
    <3>2. new.replaces = old.replaces /\ new.fullRbf = old.fullRbf
      BY <3>1
    <3>3. new.mined = TRUE /\ new.minedTxs = old.minedTxs \cup (S \cap Nodes(old))
      BY <3>1
    <3> QED BY <2>1, <3>1, <3>2, <3>3 DEF IsTree
  <2> QED BY <2>2, <2>3, <2>4
<1> QED BY <1>1, <1>2 DEF MemoryOK, IsForest

\* Steps that leave the maps and the nesting of the trees alone keep the cache intact.
LEMMA SameNestingSound ==
  ASSUME Sound, MemoryOK', maps' = maps, txs' = txs,
         DOMAIN rbfTrees' = DOMAIN rbfTrees,
         \A r \in DOMAIN rbfTrees : rbfTrees'[r].replaces = rbfTrees[r].replaces
  PROVE  Sound'
<1>1. replacedBy' = replacedBy /\ replaces' = replaces /\ treeMap' = treeMap
  BY DEF maps
<1>2. \A p : Kids(p)' = Kids(p)
  BY <1>1 DEF Kids
<1>3. \A r \in DOMAIN rbfTrees : Nodes(rbfTrees'[r]) = Nodes(rbfTrees[r])
  BY DEF Nodes
<1>4. Rooted(rbfTrees)'
  BY <1>3 DEF Sound, Rooted
<1>5. Indexed'
  BY <1>1, <1>3 DEF Sound, Indexed
<1>6. Linked'
  BY <1>1, <1>2 DEF Sound, Linked, Indexed
<1> QED BY <1>1, <1>4, <1>5, <1>6 DEF Sound

LEMMA SameNestingIntact ==
  ASSUME Intact, MemoryOK', maps' = maps, txs' = txs,
         DOMAIN rbfTrees' = DOMAIN rbfTrees,
         \A r \in DOMAIN rbfTrees : rbfTrees'[r].replaces = rbfTrees[r].replaces
  PROVE  Intact'
BY SameNestingSound DEF Intact, maps

-----------------------------------------------------------------------------
(* Replacements                                                            *)

\* add() keeps the cache intact: the new root absorbs the trees of the roots it
\* replaces.
LEMMA AddSound ==
  ASSUME Sound, NEW replaced \in SUBSET Tx, NEW new \in Tx, new \notin replaced,
         Add(replaced, new)
  PROVE  Sound'
<1> DEFINE fresh  == Unreplaced(replaced)
           leaves == fresh \ DOMAIN treeMap
           ids    == {treeMap[t] : t \in fresh \ leaves}
           joined == ids \cap DOMAIN rbfTrees
           below  == Members(leaves, joined)
           kids   == [x \in below \cup {new} |->
                        CASE x = new -> leaves \cup joined
                          [] x # new /\ x \in leaves -> {}
                          [] OTHER -> rbfTrees[treeMap[x]].replaces[x]]
           tree   == [replaces |-> kids,
                      minedTxs |-> UNION {rbfTrees[r].minedTxs : r \in joined},
                      mined    |-> FALSE,
                      fullRbf  |-> FullRbf(leaves, joined)]
<1>1. /\ new \notin txs
      /\ replacedBy' = [t \in fresh \cup DOMAIN replacedBy |->
                          IF t \in fresh THEN new ELSE replacedBy[t]]
      /\ replaces' = [t \in {new} \cup DOMAIN replaces |->
                        IF t = new THEN leaves \cup joined ELSE replaces[t]]
      /\ rbfTrees' = [r \in {new} \cup (DOMAIN rbfTrees \ ids) |->
                        IF r = new THEN tree ELSE rbfTrees[r]]
      /\ treeMap' = [x \in below \cup {new} \cup DOMAIN treeMap |->
                       IF x \in below \cup {new} THEN new ELSE treeMap[x]]
      /\ txs' = txs \cup leaves \cup {new}
      /\ dirtyTrees' = dirtyTrees \cup {new}
      /\ expiring' = expiring
  BY DEF Add, Unseen
<1>2. /\ DOMAIN treeMap \subseteq txs /\ txs \subseteq Tx /\ new \notin DOMAIN treeMap /\ new \notin DOMAIN rbfTrees
      /\ fresh \subseteq Tx /\ new \notin fresh /\ fresh \cap DOMAIN replacedBy = {}
      /\ leaves = fresh \ DOMAIN treeMap
  BY <1>1, RootsAreSelfMapped DEF Sound, Indexed, MemoryOK, Unreplaced
<1>3. /\ ids = fresh \cap DOMAIN treeMap /\ joined = ids
      /\ leaves \cup joined = fresh
      /\ \A t \in joined : t \in DOMAIN rbfTrees /\ treeMap[t] = t
  <2>1. ASSUME NEW t \in fresh \cap DOMAIN treeMap PROVE treeMap[t] = t /\ t \in DOMAIN rbfTrees
    BY <1>2, RootsAreSelfMapped DEF Sound, Linked
  <2>2. fresh \ leaves = fresh \cap DOMAIN treeMap
    BY <1>2
  <2> HIDE DEF fresh, leaves
  <2>3. ids = fresh \cap DOMAIN treeMap
    BY <2>1, <2>2
  <2>4. joined = ids
    BY <2>1, <2>3
  <2> QED BY <1>2, <2>1, <2>3, <2>4
<1>4. ASSUME NEW x
      PROVE  x \in below <=> x \in leaves \/ (x \in DOMAIN treeMap /\ treeMap[x] \in joined)
  <2>1. ASSUME NEW r \in joined
        PROVE  x \in Nodes(rbfTrees[r]) <=> x \in DOMAIN treeMap /\ treeMap[x] = r
    BY DEF Sound, Indexed
  <2> HIDE DEF joined, leaves
  <2>2. below = leaves \cup UNION {Nodes(rbfTrees[r]) : r \in joined}
    BY DEF Members
  <2>3. ASSUME x \in below, x \notin leaves PROVE x \in DOMAIN treeMap /\ treeMap[x] \in joined
    <3>1. PICK r \in joined : x \in Nodes(rbfTrees[r])
      BY <2>2, <2>3
    <3> QED BY <2>1, <3>1
  <2>4. ASSUME x \in DOMAIN treeMap, treeMap[x] \in joined PROVE x \in below
    <3>1. x \in Nodes(rbfTrees[treeMap[x]])
      BY <2>1, <2>4
    <3> QED BY <2>2, <2>4, <3>1
  <2>5. x \in leaves => x \in below
    BY <2>2
  <2> HIDE DEF below
  <2> QED BY <2>3, <2>4, <2>5
<1> HIDE DEF fresh, leaves, ids, joined, below
<1>5. /\ new \notin below /\ below \subseteq Tx /\ fresh \subseteq below
      /\ below \cup {new} \subseteq DOMAIN treeMap'
  <2>1. fresh \subseteq below
    BY <1>3, <1>4, RootsAreSelfMapped
  <2> QED BY <1>1, <1>2, <1>4, <2>1
<1>6. /\ kids[new] = fresh
      /\ \A x \in leaves : kids[x] = {} /\ x \in below
      /\ \A x \in below \cap DOMAIN treeMap : kids[x] = Kids(x)
  <2>1. kids[new] = fresh
    BY <1>3
  <2>2. ASSUME NEW x \in leaves PROVE kids[x] = {} /\ x \in below
    BY <1>4, <1>5
  <2>3. ASSUME NEW x \in below \cap DOMAIN treeMap PROVE kids[x] = Kids(x)
    <3>1. x # new /\ x \notin leaves
      BY <1>1, <1>2
    <3>2. kids[x] = rbfTrees[treeMap[x]].replaces[x]
      BY <3>1
    <3> QED BY <3>2 DEF Sound, Linked
  <2> QED BY <2>1, <2>2, <2>3
<1>7. DOMAIN kids = below \cup {new}
  OBVIOUS
<1> HIDE DEF kids
<1>8. ASSUME NEW x \in below \cup {new}
      PROVE  kids[x] \subseteq below
  <2>1. CASE x = new
    BY <2>1, <1>5, <1>6
  <2>2. CASE x \in leaves
    BY <2>2, <1>6
  <2>3. CASE x \in DOMAIN treeMap /\ treeMap[x] \in joined
    <3>1. ASSUME NEW c \in Kids(x)
          PROVE  c \in DOMAIN treeMap /\ treeMap[c] = treeMap[x]
      BY SameTree DEF Kids
    <3> QED BY <2>3, <3>1, <1>4, <1>6
  <2> QED BY <1>4, <2>1, <2>2, <2>3
<1>9. Nodes(tree) = below \cup {new} /\ tree.replaces = kids
  BY <1>7 DEF Nodes
<1>10. IsTree(tree)
  <2>1. IsMap(kids, SUBSET Tx)
    BY <1>5, <1>7, <1>8 DEF IsMap, kids
  <2>2. UNION {rbfTrees[r].minedTxs : r \in joined} \subseteq Tx
    BY <1>3 DEF Sound, MemoryOK, IsForest, IsTree
  <2>3. FullRbf(leaves, joined) \in BOOLEAN
    BY DEF FullRbf
  <2> QED BY <2>1, <2>2, <2>3 DEF IsTree
<1> HIDE DEF tree
<1>11. MemoryOK'
  <2>1. IsMap(replacedBy', Tx)
    BY <1>1, <1>2 DEF Sound, MemoryOK, IsMap
  <2>2. IsMap(replaces', SUBSET Tx)
    BY <1>1, <1>2, <1>3 DEF Sound, MemoryOK, IsMap
  <2>3. IsForest(rbfTrees')
    BY <1>1, <1>10 DEF Sound, MemoryOK, IsForest
  <2>4. IsMap(treeMap', Tx)
    BY <1>1, <1>5 DEF Sound, MemoryOK, IsMap
  <2>5. txs' \subseteq Tx /\ dirtyTrees' \subseteq Tx
    BY <1>1, <1>2 DEF Sound, MemoryOK
  <2> QED BY <1>1, <2>1, <2>2, <2>3, <2>4, <2>5 DEF Sound, MemoryOK
<1>12. ASSUME NEW r \in DOMAIN rbfTrees'
       PROVE  \/ r = new /\ rbfTrees'[r] = tree
              \/ /\ r # new /\ r \in DOMAIN rbfTrees \ joined
                 /\ rbfTrees'[r] = rbfTrees[r]
  BY <1>1, <1>3
<1>13. Rooted(rbfTrees)'
  <2>1. Nodes(tree) \subseteq Below(kids, {new})
    <3> DEFINE W == Below(kids, {new})
    <3>1. ClosedUnder(kids, W) /\ W \subseteq Tx /\ new \in W
      BY <1>5, <1>7, <1>8, BelowClosed, BelowStart
    <3>2. fresh \subseteq W
      BY <3>1, <1>6, <1>7 DEF ClosedUnder
    <3>3. ASSUME NEW j \in joined PROVE Nodes(rbfTrees[j]) \subseteq W
      <4>1. /\ j \in DOMAIN rbfTrees /\ j \in W
            /\ Nodes(rbfTrees[j]) \subseteq Below(rbfTrees[j].replaces, {j})
        BY <1>3, <3>2 DEF Sound, Rooted
      <4>2. ASSUME NEW p \in Nodes(rbfTrees[j])
            PROVE  p \in DOMAIN kids /\ kids[p] = rbfTrees[j].replaces[p]
        <5>1. p \in DOMAIN treeMap /\ treeMap[p] = j
          BY <4>1 DEF Sound, Indexed
        <5> QED BY <5>1, <1>4, <1>6, <1>7 DEF Sound, Linked
      <4>3. ClosedUnder(rbfTrees[j].replaces, W)
        BY <3>1, <4>2 DEF ClosedUnder, Nodes
      <4> QED BY <3>1, <4>1, <4>3, BelowLeast
    <3>4. ASSUME NEW x \in DOMAIN treeMap, treeMap[x] \in joined PROVE x \in W
      BY <3>3, <3>4 DEF Sound, Indexed
    <3> QED BY <1>3, <1>4, <1>9, <3>1, <3>2, <3>4
  <2>2. ASSUME NEW p \in Nodes(tree) PROVE kids[p] \subseteq Nodes(tree) \ {new}
    BY <1>5, <1>8, <1>9
  <2>3. ASSUME NEW r \in DOMAIN rbfTrees'
        PROVE  /\ r \in Nodes(rbfTrees'[r])
               /\ \A p \in Nodes(rbfTrees'[r]) :
                    rbfTrees'[r].replaces[p] \subseteq Nodes(rbfTrees'[r]) \ {r}
               /\ Nodes(rbfTrees'[r]) \subseteq Below(rbfTrees'[r].replaces, {r})
    BY <1>9, <1>12, <2>1, <2>2 DEF Sound, Rooted
  <2> QED BY <2>3 DEF Rooted
<1>14. ASSUME NEW x \in DOMAIN treeMap'
       PROVE  \/ x \in below \cup {new} /\ treeMap'[x] = new
              \/ /\ x \in DOMAIN treeMap \ (below \cup {new}) /\ treeMap[x] \notin joined
                 /\ treeMap'[x] = treeMap[x]
  <2>1. x \in below \cup {new} \/ x \in DOMAIN treeMap \ (below \cup {new})
    BY <1>1, <1>6
  <2> QED BY <2>1, <1>1, <1>2, <1>4
<1>15. DOMAIN rbfTrees' = {new} \cup (DOMAIN rbfTrees \ joined)
  BY <1>1, <1>3
<1>16. Indexed'
  <2>1. DOMAIN treeMap' = below \cup {new} \cup DOMAIN treeMap
    BY <1>1
  <2>2. ASSUME NEW x \in DOMAIN treeMap'
        PROVE  treeMap'[x] \in DOMAIN rbfTrees' /\ x \in Nodes(rbfTrees'[treeMap'[x]])
    <3>1. CASE x \in below \cup {new} /\ treeMap'[x] = new
      BY <3>1, <1>1, <1>9
    <3>2. CASE /\ x \in DOMAIN treeMap \ (below \cup {new}) /\ treeMap[x] \notin joined
               /\ treeMap'[x] = treeMap[x]
      <4>1. treeMap[x] \in DOMAIN rbfTrees /\ x \in Nodes(rbfTrees[treeMap[x]])
        BY <3>2 DEF Sound, Indexed
      <4> QED BY <3>2, <4>1, <1>2, <1>12, <1>15
    <3> QED BY <3>1, <3>2, <1>14
  <2>3. ASSUME NEW r \in DOMAIN rbfTrees', NEW x \in Nodes(rbfTrees'[r])
        PROVE  x \in DOMAIN treeMap' /\ treeMap'[x] = r
    <3>1. CASE r = new
      BY <3>1, <1>1, <1>5, <1>9, <1>12
    <3>2. CASE r # new
      <4>1. r \in DOMAIN rbfTrees \ joined /\ x \in DOMAIN treeMap /\ treeMap[x] = r
        BY <3>2, <1>12 DEF Sound, Indexed
      <4> QED BY <4>1, <1>1, <1>2, <1>4, <1>14
    <3> QED BY <3>1, <3>2
  <2> QED BY <2>1, <2>2, <2>3 DEF Indexed
<1>17. \A p : p # new => Kids(p)' = Kids(p)
  BY <1>1 DEF Kids
<1>18. Kids(new)' = fresh
  BY <1>1, <1>3 DEF Kids
<1>19. Linked'
  <2>1. DOMAIN replaces' \subseteq DOMAIN treeMap'
    BY <1>1 DEF Sound, Linked
  <2>2. ASSUME NEW p \in DOMAIN treeMap'
        PROVE  rbfTrees'[treeMap'[p]].replaces[p] = Kids(p)'
    <3>1. CASE p \in below \cup {new} /\ treeMap'[p] = new
      <4>1. rbfTrees'[treeMap'[p]].replaces[p] = kids[p]
        BY <3>1, <1>1, <1>9
      <4>2. CASE p = new
        BY <4>1, <4>2, <1>6, <1>18
      <4>3. CASE p \in leaves
        <5>1. Kids(p)' = {}
          BY <4>3, <1>2, <1>17 DEF Sound, Linked, Kids
        <5>2. p # new
          BY <4>3, <1>2
        <5> QED BY <4>1, <4>3, <5>1, <1>6
      <4>4. CASE p \in DOMAIN treeMap /\ treeMap[p] \in joined
        BY <4>1, <4>4, <1>1, <1>2, <1>4, <1>6, <1>17
      <4> QED BY <3>1, <1>4, <4>2, <4>3, <4>4
    <3>2. CASE /\ p \in DOMAIN treeMap \ (below \cup {new}) /\ treeMap[p] \notin joined
               /\ treeMap'[p] = treeMap[p]
      <4>1. treeMap[p] \in DOMAIN rbfTrees'
        BY <3>2, <1>16 DEF Indexed
      <4>2. rbfTrees'[treeMap[p]] = rbfTrees[treeMap[p]]
        BY <3>2, <4>1, <1>2, <1>12 DEF Sound, Indexed
      <4> QED BY <3>2, <4>2, <1>17 DEF Sound, Linked
    <3> QED BY <3>1, <3>2, <1>14
  <2>3. ASSUME NEW x \in DOMAIN replacedBy'
        PROVE  x \in DOMAIN treeMap' /\ x \in Kids(replacedBy[x])'
    <3>1. CASE x \in fresh
      BY <3>1, <1>1, <1>5, <1>18
    <3>2. CASE x \notin fresh
      <4>1. x \in DOMAIN replacedBy /\ replacedBy'[x] = replacedBy[x]
        BY <3>2, <1>1
      <4>2. x \in DOMAIN treeMap /\ x \in Kids(replacedBy[x]) /\ replacedBy[x] \in DOMAIN treeMap
        BY <4>1 DEF Sound, Linked, Kids
      <4>3. replacedBy[x] # new /\ x \in DOMAIN treeMap'
        BY <4>2, <1>1, <1>2
      <4> QED BY <4>1, <4>2, <4>3, <1>1, <1>17
    <3> QED BY <3>1, <3>2
  <2>4. ASSUME NEW p \in DOMAIN replaces', NEW c \in replaces'[p]
        PROVE  c \in DOMAIN replacedBy' /\ replacedBy'[c] = p
    <3>1. CASE p = new
      BY <3>1, <1>1, <1>3
    <3>2. CASE p # new
      <4>1. p \in DOMAIN replaces /\ c \in replaces[p]
        BY <3>2, <1>1
      <4>2. c \in DOMAIN replacedBy /\ replacedBy[c] = p
        BY <4>1, SameTree
      <4> QED BY <4>2, <1>1, <1>2
    <3> QED BY <3>1, <3>2
  <2>5. ASSUME NEW x \in DOMAIN treeMap'
        PROVE  x \notin DOMAIN replacedBy' <=> treeMap'[x] = x
    <3>1. CASE x = new
      <4>1. x \notin DOMAIN replacedBy
        BY <3>1, <1>1 DEF Sound, Linked
      <4> QED BY <3>1, <4>1, <1>1, <1>2
    <3>2. CASE x \in below /\ x # new
      <4>1. treeMap'[x] # x
        BY <3>2, <1>1
      <4>2. x \in fresh \/ x \in DOMAIN replacedBy
        BY <3>2, <1>3, <1>4 DEF Sound, Linked
      <4> QED BY <4>1, <4>2, <1>1
    <3>3. CASE /\ x \in DOMAIN treeMap \ (below \cup {new}) /\ treeMap[x] \notin joined
               /\ treeMap'[x] = treeMap[x]
      BY <3>3, <1>1, <1>5 DEF Sound, Linked
    <3> QED BY <3>1, <3>2, <3>3, <1>14
  <2> QED BY <2>1, <2>2, <2>3, <2>4, <2>5 DEF Linked
<1>20. DOMAIN treeMap' \subseteq txs'
  <2>1. \A x \in below : x \in leaves \/ x \in DOMAIN treeMap
    BY <1>4
  <2> QED BY <2>1, <1>1, <1>2
<1> QED BY <1>11, <1>13, <1>16, <1>19, <1>20 DEF Sound

LEMMA AddIntact ==
  ASSUME Intact, NEW replaced \in SUBSET Tx, NEW new \in Tx, new \notin replaced,
         Add(replaced, new)
  PROVE  Intact'
<1>1. Sound'
  BY AddSound DEF Intact
<1>2. DOMAIN treeMap' = txs'
  <2>1. txs' \subseteq DOMAIN treeMap'
    <3>1. Unreplaced(replaced) \ DOMAIN treeMap \subseteq DOMAIN treeMap'
      BY DEF Add, Members
    <3>2. DOMAIN treeMap \cup {new} \subseteq DOMAIN treeMap'
      BY DEF Add
    <3> QED BY <3>1, <3>2 DEF Add, Intact
  <2> QED BY <1>1, <2>1 DEF Sound
<1> QED BY <1>1, <1>2 DEF Intact

-----------------------------------------------------------------------------
(* Snapshots                                                               *)

\* The trees in memory are separate.
LEMMA SoundSeparate ==
  ASSUME Sound
  PROVE  Separate(rbfTrees)
<1>1. ASSUME NEW r \in DOMAIN rbfTrees, NEW p \in Nodes(rbfTrees[r])
      PROVE  /\ p \in DOMAIN treeMap /\ treeMap[p] = r
             /\ rbfTrees[r].replaces[p] = Kids(p)
  BY DEF Sound, Indexed, Linked
<1>3. ASSUME NEW r \in DOMAIN rbfTrees, NEW q \in DOMAIN rbfTrees,
             NEW p \in Nodes(rbfTrees[r]), NEW s \in Nodes(rbfTrees[q]),
             NEW c \in rbfTrees[r].replaces[p], c \in rbfTrees[q].replaces[s]
      PROVE  p = s
  <2>1. c \in Kids(p) /\ c \in Kids(s)
    BY <1>1, <1>3
  <2> QED BY <2>1, SameTree DEF Kids
<1>4. ASSUME NEW r \in DOMAIN rbfTrees, NEW x \in Nodes(rbfTrees[r]) \ {r}
      PROVE  \E p \in Nodes(rbfTrees[r]) : x \in rbfTrees[r].replaces[p]
  <2>1. x \in DOMAIN replacedBy
    BY <1>1 DEF Sound, Linked
  <2>2. replacedBy[x] \in DOMAIN replaces /\ x \in replaces[replacedBy[x]]
    BY <2>1 DEF Sound, Linked, Kids
  <2>3. replacedBy[x] \in DOMAIN treeMap /\ treeMap[replacedBy[x]] = r
    BY <2>2, <1>1, SameTree
  <2>4. replacedBy[x] \in Nodes(rbfTrees[r])
    BY <2>3 DEF Sound, Indexed
  <2> QED BY <2>2, <2>4, <1>1 DEF Kids
<1>5. \A r, q \in DOMAIN rbfTrees :
        Nodes(rbfTrees[r]) \cap Nodes(rbfTrees[q]) # {} => r = q
  BY <1>1
<1>6. \A r, q \in DOMAIN rbfTrees : \A p \in Nodes(rbfTrees[r]), s \in Nodes(rbfTrees[q]) :
        rbfTrees[r].replaces[p] \cap rbfTrees[q].replaces[s] # {} => p = s
  BY <1>3
<1> QED BY <1>4, <1>5, <1>6 DEF Separate, Sound

\* What an intact cache writes to disk can be restored.
LEMMA DumpRestorable ==
  ASSUME Intact, NEW d, d.txs = txs, d.trees = rbfTrees
  PROVE  Restorable(d)
<1>1. Separate(rbfTrees)
  BY SoundSeparate DEF Intact
<1> QED BY <1>1 DEF Restorable, Intact, Sound, Indexed

\* importTree() rebuilds a stored tree whose transactions were all stored.
LEMMA ImportIsIdentity ==
  ASSUME IsSnapshot(saved), Restorable(saved), NEW r \in DOMAIN saved.trees
  PROVE  /\ r \in saved.txs
         /\ Readable(saved.trees[r], saved.txs) = saved.trees[r].replaces
         /\ IsTree(ImportTree(saved.trees[r], r, saved.txs))
         /\ ImportTree(saved.trees[r], r, saved.txs).replaces = saved.trees[r].replaces
<1> DEFINE tree == saved.trees[r]
           kids == tree.replaces
           new  == ImportTree(tree, r, saved.txs)
<1>1. /\ IsTree(tree) /\ Nodes(tree) \subseteq saved.txs /\ saved.txs \subseteq Tx
      /\ r \in Nodes(tree)
      /\ \A p \in Nodes(tree) : kids[p] \subseteq Nodes(tree) \ {r}
      /\ Nodes(tree) \subseteq Below(kids, {r})
  BY DEF IsSnapshot, IsForest, Restorable, Separate, Rooted
<1>2. kids \in [Nodes(tree) -> SUBSET Tx]
  BY <1>1 DEF IsTree, IsMap, Nodes
<1>3. \A p \in Nodes(tree) : kids[p] \cap saved.txs = kids[p]
  BY <1>1
<1>4. Readable(tree, saved.txs) = kids
  BY <1>2, <1>3 DEF Readable
<1>5. Below(kids, {r}) = Nodes(tree)
  <2>1. ClosedUnder(kids, Nodes(tree))
    BY <1>1 DEF ClosedUnder, Nodes
  <2>2. Below(kids, {r}) \subseteq Nodes(tree)
    BY <1>1, <2>1, BelowLeast
  <2> QED BY <1>1, <2>2
<1>6. new = [replaces |-> [p \in Nodes(tree) |-> kids[p] \cap saved.txs],
             minedTxs |-> tree.minedTxs \cap Nodes(tree),
             mined    |-> FALSE,
             fullRbf  |-> tree.fullRbf]
  BY <1>4, <1>5 DEF ImportTree
<1>7. [p \in Nodes(tree) |-> kids[p] \cap saved.txs] = kids
  BY <1>2, <1>3
<1>8. /\ new.replaces = kids /\ new.minedTxs = tree.minedTxs \cap Nodes(tree)
      /\ new.mined = FALSE /\ new.fullRbf = tree.fullRbf
  BY <1>6, <1>7
<1>9. IsTree(new)
  BY <1>1, <1>6, <1>7, <1>8 DEF IsTree
<1> QED BY <1>1, <1>4, <1>8, <1>9

\* load() of a restorable snapshot gives an intact cache.
LEMMA RestartIntact ==
  ASSUME IsSnapshot(saved), Restorable(saved), Restart
  PROVE  Intact'
<1> DEFINE roots  == DOMAIN saved.trees \cap saved.txs
           kids   == [r \in roots |-> saved.trees[r].replaces]
           stored == [r \in roots |-> Readable(saved.trees[r], saved.txs)]
           loaded == [r \in roots |-> ImportTree(saved.trees[r], r, saved.txs)]
           linked == UNION {Nodes(loaded[r]) : r \in roots}
           parent == [p \in UNION {DOMAIN stored[r] : r \in roots} |->
                        stored[CHOOSE r \in roots : p \in DOMAIN stored[r]][p]]
<1>1. /\ txs' = saved.txs
      /\ rbfTrees' = loaded
      /\ dirtyTrees' = roots
      /\ treeMap' = [x \in linked |-> CHOOSE r \in roots : x \in Nodes(loaded[r])]
      /\ replaces' = parent
      /\ replacedBy' = [c \in UNION {parent[p] : p \in DOMAIN parent} |->
                          CHOOSE p \in DOMAIN parent : c \in parent[p]]
      /\ expiring' = [t \in DOMAIN saved.expiring \cap saved.txs |-> saved.expiring[t]]
  BY DEF Restart
<1>2. ASSUME NEW r \in roots
      PROVE  /\ stored[r] = kids[r] /\ loaded[r].replaces = kids[r]
             /\ Nodes(loaded[r]) = DOMAIN kids[r]
             /\ IsTree(loaded[r])
  BY ImportIsIdentity DEF Nodes
<1>3. /\ roots = DOMAIN saved.trees /\ saved.txs \subseteq Tx
      /\ \A x \in saved.txs : \E r \in roots : x \in DOMAIN kids[r]
      /\ \A r \in roots : DOMAIN kids[r] \subseteq saved.txs
      /\ \A r, q \in roots : DOMAIN kids[r] \cap DOMAIN kids[q] # {} => r = q
  BY ImportIsIdentity DEF Restorable, Separate, Nodes, IsSnapshot
<1>4. /\ \A r \in roots :
           /\ r \in DOMAIN kids[r]
           /\ DOMAIN kids[r] \subseteq Below(kids[r], {r})
           /\ \A p \in DOMAIN kids[r] : kids[r][p] \subseteq DOMAIN kids[r] \ {r}
      /\ \A r, q \in roots : \A p \in DOMAIN kids[r], s \in DOMAIN kids[q] :
           kids[r][p] \cap kids[q][s] # {} => p = s
      /\ \A r \in roots : \A x \in DOMAIN kids[r] \ {r} :
           \E p \in DOMAIN kids[r] : x \in kids[r][p]
  BY <1>3 DEF Restorable, Separate, Rooted, Nodes
<1>5. DOMAIN loaded = roots
  OBVIOUS
<1> HIDE DEF roots, kids, stored, loaded
<1>6. linked = saved.txs
  BY <1>2, <1>3
<1>7. ASSUME NEW x \in saved.txs
      PROVE  treeMap'[x] \in roots /\ x \in DOMAIN kids[treeMap'[x]]
  <2>1. \E r \in roots : x \in Nodes(loaded[r])
    BY <1>2, <1>3
  <2>2. treeMap'[x] = CHOOSE r \in roots : x \in Nodes(loaded[r])
    BY <1>1, <1>6
  <2> QED BY <2>1, <2>2, <1>2
<1>8. /\ DOMAIN parent = saved.txs
      /\ \A p \in saved.txs : parent[p] = kids[treeMap'[p]][p]
  <2>1. UNION {DOMAIN stored[r] : r \in roots} = saved.txs
    BY <1>2, <1>3
  <2>2. ASSUME NEW p \in saved.txs
        PROVE  parent[p] = kids[treeMap'[p]][p]
    <3> DEFINE home == CHOOSE r \in roots : p \in DOMAIN stored[r]
    <3>1. home \in roots /\ p \in DOMAIN stored[home]
      BY <1>2, <1>3
    <3>2. home = treeMap'[p]
      BY <3>1, <1>2, <1>3, <1>7
    <3>3. parent[p] = stored[home][p]
      BY <2>1
    <3> QED BY <3>1, <3>2, <3>3, <1>2
  <2> QED BY <2>1, <2>2
<1> HIDE DEF linked, parent
<1>9. /\ DOMAIN replaces' = saved.txs
      /\ \A p \in saved.txs : /\ replaces'[p] = kids[treeMap'[p]][p]
                             /\ replaces'[p] \subseteq saved.txs
                             /\ \A c \in replaces'[p] : treeMap'[c] = treeMap'[p] /\ c # treeMap'[c]
  <2>1. ASSUME NEW p \in saved.txs
        PROVE  replaces'[p] = kids[treeMap'[p]][p]
    BY <1>1, <1>8
  <2>2. ASSUME NEW p \in saved.txs, NEW c \in kids[treeMap'[p]][p]
        PROVE  c \in saved.txs /\ treeMap'[c] = treeMap'[p] /\ c # treeMap'[p]
    <3>1. c \in DOMAIN kids[treeMap'[p]] \ {treeMap'[p]}
      BY <1>4, <1>7
    <3>2. c \in saved.txs
      BY <3>1, <1>3, <1>7
    <3> QED BY <3>1, <3>2, <1>3, <1>7
  <2>3. DOMAIN replaces' = saved.txs
    BY <1>1, <1>8
  <2>4. ASSUME NEW p \in saved.txs
        PROVE  /\ replaces'[p] \subseteq saved.txs
               /\ \A c \in replaces'[p] : treeMap'[c] = treeMap'[p] /\ c # treeMap'[c]
    BY <2>1, <2>2
  <2> QED BY <2>1, <2>3, <2>4
<1>10. ASSUME NEW c
       PROVE  /\ c \in DOMAIN replacedBy' <=> \E p \in saved.txs : c \in replaces'[p]
              /\ c \in DOMAIN replacedBy' =>
                   replacedBy'[c] \in saved.txs /\ c \in replaces'[replacedBy'[c]]
  <2>1. c \in DOMAIN replacedBy' <=> \E p \in saved.txs : c \in replaces'[p]
    BY <1>1, <1>8
  <2>2. ASSUME c \in DOMAIN replacedBy'
        PROVE  replacedBy'[c] \in saved.txs /\ c \in replaces'[replacedBy'[c]]
    <3>1. \E p \in DOMAIN parent : c \in parent[p]
      BY <2>1, <2>2, <1>1, <1>8
    <3>2. replacedBy'[c] = CHOOSE p \in DOMAIN parent : c \in parent[p]
      BY <2>2, <1>1
    <3> QED BY <3>1, <3>2, <1>1, <1>8
  <2> QED BY <2>1, <2>2
<1>11. ASSUME NEW p \in saved.txs, NEW q \in saved.txs,
              NEW c \in replaces'[p], c \in replaces'[q]
       PROVE  p = q
  BY <1>4, <1>7, <1>9, <1>11
<1>12. MemoryOK'
  <2>1. IsMap(replacedBy', Tx)
    <3>1. \A c \in DOMAIN replacedBy' : c \in Tx /\ replacedBy'[c] \in Tx
      BY <1>3, <1>9, <1>10
    <3> QED BY <3>1, <1>1 DEF IsMap
  <2>2. IsMap(replaces', SUBSET Tx)
    BY <1>1, <1>3, <1>9 DEF IsMap, parent
  <2>3. IsForest(rbfTrees')
    BY <1>1, <1>2, <1>3, <1>5 DEF IsForest, roots
  <2>4. IsMap(treeMap', Tx)
    BY <1>1, <1>3, <1>6, <1>7 DEF IsMap, roots
  <2>5. IsMap(expiring', 0..ExpiryTicks)
    BY <1>1 DEF IsSnapshot, IsMap
  <2> QED BY <1>1, <1>3, <2>1, <2>2, <2>3, <2>4, <2>5 DEF MemoryOK, roots
<1>13. Rooted(rbfTrees)'
  <2>1. rbfTrees' = loaded
    BY <1>1
  <2>2. ASSUME NEW r \in roots
        PROVE  /\ r \in Nodes(loaded[r])
               /\ \A p \in Nodes(loaded[r]) :
                    loaded[r].replaces[p] \subseteq Nodes(loaded[r]) \ {r}
               /\ Nodes(loaded[r]) \subseteq Below(loaded[r].replaces, {r})
    BY <1>2, <1>4
  <2> QED BY <2>1, <2>2, <1>5 DEF Rooted
<1>14. DOMAIN treeMap' = txs' /\ txs' = saved.txs
  BY <1>1, <1>6
<1>15. Indexed'
  <2>1. ASSUME NEW r \in roots, NEW x \in Nodes(loaded[r])
        PROVE  x \in saved.txs /\ treeMap'[x] = r
    BY <1>2, <1>3, <1>7
  <2>2. ASSUME NEW x \in saved.txs
        PROVE  treeMap'[x] \in roots /\ x \in Nodes(loaded[treeMap'[x]])
    BY <1>2, <1>7
  <2>3. rbfTrees' = loaded
    BY <1>1
  <2> QED BY <1>14, <2>1, <2>2, <2>3, <1>5 DEF Indexed
<1>16. Linked'
  <2>1. \A p \in saved.txs : Kids(p)' = replaces'[p]
    BY <1>9 DEF Kids
  <2>2. \A p \in saved.txs : rbfTrees'[treeMap'[p]].replaces[p] = Kids(p)'
    BY <2>1, <1>1, <1>2, <1>7, <1>9
  <2>3. \A x \in DOMAIN replacedBy' : x \in saved.txs /\ x \in Kids(replacedBy[x])'
    BY <1>9, <1>10, <2>1
  <2>4. \A p \in DOMAIN replaces' : \A c \in replaces'[p] :
          c \in DOMAIN replacedBy' /\ replacedBy'[c] = p
    BY <1>9, <1>10, <1>11
  <2>5. ASSUME NEW x \in saved.txs
        PROVE  x \notin DOMAIN replacedBy' <=> treeMap'[x] = x
    <3>1. CASE treeMap'[x] = x
      BY <3>1, <1>9, <1>10
    <3>2. CASE treeMap'[x] # x
      <4>1. PICK p \in DOMAIN kids[treeMap'[x]] : x \in kids[treeMap'[x]][p]
        BY <3>2, <1>4, <1>7
      <4>2. p \in saved.txs /\ treeMap'[p] = treeMap'[x]
        BY <4>1, <1>3, <1>7
      <4> QED BY <3>2, <4>1, <4>2, <1>9, <1>10
    <3> QED BY <3>1, <3>2
  <2> QED BY <1>14, <1>9, <2>2, <2>3, <2>4, <2>5 DEF Linked
<1> QED BY <1>12, <1>13, <1>14, <1>15, <1>16 DEF Intact, Sound

-----------------------------------------------------------------------------
(* The theorems                                                            *)

\* Steps that keep the disk keep the snapshot restorable.
LEMMA DiskUnchanged ==
  ASSUME Consistent, Intact', saved' = saved,
         phase' \in {"running", "connecting", "checking"}, batch' \subseteq Tx
  PROVE  Consistent'
BY DEF Consistent, TypeOK, Intact, Sound

\* Every step keeps memory and snapshot well formed, a restart included.
LEMMA ConsistentStep == Consistent /\ [Next]_vars => Consistent'
<1> SUFFICES ASSUME Consistent, [Next]_vars PROVE Consistent'
  OBVIOUS
<1>1. /\ Intact /\ MemoryOK /\ IsSnapshot(saved) /\ Restorable(saved)
      /\ phase \in {"running", "connecting", "checking"} /\ batch \subseteq Tx
  BY DEF Consistent, TypeOK
<1>2. ASSUME NEW replaced \in SUBSET Tx, NEW new \in Tx, new \notin replaced,
             Serving(Add(replaced, new)) \/ Connect(replaced, new)
      PROVE  Consistent'
  <2>1. Add(replaced, new) /\ saved' = saved /\ phase' = phase /\ batch' = batch
    BY <1>2 DEF Serving, Connect
  <2> QED BY <1>1, <1>2, <2>1, AddIntact, DiskUnchanged
<1>3. ASSUME NEW txid \in Tx, Serving(Evict(txid))
      PROVE  Consistent'
  <2>1. /\ maps' = maps /\ rbfTrees' = rbfTrees /\ dirtyTrees' = dirtyTrees /\ txs' = txs
        /\ expiring' = Evicted({txid})
        /\ saved' = saved /\ phase' = phase /\ batch' = batch
    BY <1>3 DEF Serving, Evict
  <2>2. MemoryOK'
    BY <1>1, <2>1, EvictedType DEF MemoryOK, maps
  <2> QED BY <1>1, <2>1, <2>2, SameNestingIntact, DiskUnchanged
<1>4. ASSUME NEW txid \in Tx, Serving(Mined(txid))
      PROVE  Consistent'
  <2>1. /\ maps' = maps /\ txs' = txs /\ rbfTrees' = WithMined({txid})
        /\ expiring' = Evicted({txid})
        /\ dirtyTrees' \subseteq dirtyTrees \cup DOMAIN rbfTrees
        /\ saved' = saved /\ phase' = phase /\ batch' = batch
    BY <1>4 DEF Serving, Mined
  <2>2. MemoryOK'
    BY <1>1, <2>1, EvictedType, MarkedForest DEF MemoryOK, maps, IsForest
  <2> QED BY <1>1, <2>1, <2>2, MarkedForest, SameNestingIntact, DiskUnchanged
<1>5. CASE Serving(GetRbfChanges)
  <2>1. /\ maps' = maps /\ rbfTrees' = rbfTrees /\ dirtyTrees' = {} /\ txs' = txs
        /\ expiring' = expiring
        /\ saved' = saved /\ phase' = phase /\ batch' = batch
    BY <1>5 DEF Serving, GetRbfChanges
  <2>2. MemoryOK'
    BY <1>1, <2>1 DEF MemoryOK, maps
  <2> QED BY <1>1, <2>1, <2>2, SameNestingIntact, DiskUnchanged
<1>6. CASE CleanupTimer
  <2>1. Cleanup(expiring, rbfTrees) /\ saved' = saved /\ phase' = phase /\ batch' = batch
    BY <1>6 DEF CleanupTimer
  <2>2. Intact'
    BY <1>1, <2>1, CleanupIntact DEF MemoryOK
  <2> QED BY <1>1, <2>1, <2>2, DiskUnchanged
<1>7. CASE Tick
  <2>1. /\ maps' = maps /\ rbfTrees' = rbfTrees /\ dirtyTrees' = dirtyTrees /\ txs' = txs
        /\ expiring' = Elapsed(expiring)
        /\ saved' = [saved EXCEPT !.expiring = Elapsed(@)]
        /\ phase' = phase /\ batch' = batch
    BY <1>7 DEF Tick
  <2>2. MemoryOK'
    BY <1>1, <2>1, ElapsedType DEF MemoryOK, maps
  <2>3. Intact'
    BY <1>1, <2>1, <2>2, SameNestingIntact
  <2>4. saved' = [txs |-> saved.txs, trees |-> saved.trees, expiring |-> Elapsed(saved.expiring)]
    <3>1. saved = [txs |-> saved.txs, trees |-> saved.trees, expiring |-> saved.expiring]
      BY <1>1 DEF IsSnapshot
    <3> QED BY <2>1, <3>1
  <2>5. /\ saved'.txs = saved.txs /\ saved'.trees = saved.trees
        /\ saved'.expiring = Elapsed(saved.expiring)
    BY <2>4
  <2>6. IsSnapshot(saved')
    BY <1>1, <2>4, <2>5, ElapsedType DEF IsSnapshot
  <2>7. Restorable(saved')
    BY <1>1, <2>5 DEF Restorable
  <2> QED BY <1>1, <2>1, <2>2, <2>3, <2>6, <2>7 DEF Consistent, TypeOK
<1>8. CASE Save
  <2>1. /\ memory' = memory /\ phase' = phase /\ batch' = batch
        /\ saved' = [txs |-> txs, trees |-> rbfTrees, expiring |-> expiring]
    BY <1>8 DEF Save
  <2>2. MemoryOK'
    BY <1>1, <2>1 DEF MemoryOK, memory
  <2>3. Intact'
    BY <1>1, <2>1, <2>2, SameNestingIntact DEF memory, maps
  <2>4. saved'.txs = txs /\ saved'.trees = rbfTrees /\ saved'.expiring = expiring
    BY <2>1
  <2>5. IsSnapshot(saved')
    BY <1>1, <2>1, <2>4 DEF IsSnapshot, MemoryOK
  <2>6. Restorable(saved')
    BY <1>1, <2>4, DumpRestorable
  <2> QED BY <1>1, <2>1, <2>2, <2>3, <2>5, <2>6 DEF Consistent, TypeOK
<1>9. CASE Restart
  <2>1. Intact' /\ saved' = saved /\ phase' = "connecting" /\ batch' \subseteq Tx
    BY <1>1, <1>9, RestartIntact DEF Restart, IsSnapshot
  <2> QED BY <2>1, DiskUnchanged
<1>10. CASE BeginCheck
  <2>1. /\ memory' = memory /\ saved' = saved /\ phase' = "checking"
        /\ batch' \subseteq txs
    BY <1>10 DEF BeginCheck
  <2>2. MemoryOK' /\ batch' \subseteq Tx
    BY <1>1, <2>1 DEF MemoryOK, memory
  <2>3. Intact'
    BY <1>1, <2>1, <2>2, SameNestingIntact DEF memory, maps
  <2> QED BY <2>1, <2>2, <2>3, DiskUnchanged
<1>11. ASSUME NEW found \in SUBSET batch, NEW confirmed \in SUBSET found,
              FinishCheck(found, confirmed)
       PROVE  Consistent'
  <2> DEFINE exp    == Evicted((batch \ found) \cup {t \in confirmed : HasTree(t)})
             marked == WithMined(confirmed)
  <2>1. Cleanup(exp, marked) /\ saved' = saved /\ phase' = "running" /\ batch' = {}
    BY <1>11 DEF FinishCheck
  <2>2. /\ IsMap(exp, 0..ExpiryTicks)
        /\ IsForest(marked) /\ DOMAIN marked = DOMAIN rbfTrees
        /\ \A r \in DOMAIN marked : marked[r].replaces = rbfTrees[r].replaces
    BY <1>1, EvictedType, MarkedForest
  <2> HIDE DEF exp, marked
  <2>3. Intact'
    BY <1>1, <2>1, <2>2, CleanupIntact
  <2> QED BY <2>1, <2>3, DiskUnchanged
<1>12. CASE UNCHANGED vars
  <2>1. memory' = memory /\ saved' = saved /\ phase' = phase /\ batch' = batch
    BY <1>12 DEF vars
  <2>2. MemoryOK'
    BY <1>1, <2>1 DEF MemoryOK, memory
  <2>3. Intact'
    BY <1>1, <2>1, <2>2, SameNestingIntact DEF memory, maps
  <2> QED BY <1>1, <2>1, <2>3, DiskUnchanged
<1> QED BY <1>2, <1>3, <1>4, <1>5, <1>6, <1>7, <1>8, <1>9, <1>10, <1>11, <1>12
        DEF Next, Operations, Clock, Restarting

LEMMA InitConsistent == Init => Consistent
BY DEF Init, Nothing, Consistent, Intact, TypeOK, MemoryOK, IsMap, IsForest, IsSnapshot,
       Rooted, Indexed, Linked, Restorable, Separate, Nodes, Sound

\* Memory and snapshot are well formed in every reachable state.
THEOREM CacheConsistent == Spec => []Consistent
BY InitConsistent, ConsistentStep, PTL DEF Spec

\* Every variable keeps its type.
THEOREM TypeCorrect == Spec => []TypeOK
<1>1. Consistent => TypeOK
  BY DEF Consistent
<1> QED BY <1>1, CacheConsistent, PTL

\* The five invariants the header of rbf-cache.ts demands follow.
LEMMA SoundDocumented ==
  ASSUME Sound
  PROVE  Symmetry /\ UniqueId /\ UniqueTree /\ Existence /\ Completeness
<1>1. Symmetry
  <2>1. ASSUME NEW a \in Tx, NEW b \in Tx, a \in DOMAIN replacedBy, replacedBy[a] = b
        PROVE  b \in DOMAIN replaces /\ a \in replaces[b]
    BY <2>1 DEF Sound, Linked, Kids
  <2>2. ASSUME NEW a \in Tx, NEW b \in Tx, b \in DOMAIN replaces, a \in replaces[b]
        PROVE  a \in DOMAIN replacedBy /\ replacedBy[a] = b
    BY <2>2, SameTree
  <2> QED BY <2>1, <2>2 DEF Symmetry
<1>2. UniqueId
  BY RootsAreSelfMapped DEF UniqueId, Sound, Indexed
<1>3. UniqueTree
  BY SameTree DEF UniqueTree, Sound, Indexed
<1>4. Existence
  BY DEF Existence, Sound, Indexed
<1>5. Completeness
  BY DEF Completeness, Sound, Indexed, Linked
<1> QED BY <1>1, <1>2, <1>3, <1>4, <1>5

LEMMA DocumentedInvariants ==
  Consistent => Symmetry /\ UniqueId /\ UniqueTree /\ Existence /\ Completeness
BY SoundDocumented DEF Consistent, Intact

\* A replaced transaction and its replacement always know each other.
THEOREM SymmetryHolds == Spec => []Symmetry
BY CacheConsistent, DocumentedInvariants, PTL

\* The root of a tree is always a node of that tree.
THEOREM UniqueIdHolds == Spec => []UniqueId
BY CacheConsistent, DocumentedInvariants, PTL

\* A transaction and those it replaced are always in one tree.
THEOREM UniqueTreeHolds == Spec => []UniqueTree
BY CacheConsistent, DocumentedInvariants, PTL

\* No transaction is ever mapped to a tree that is gone.
THEOREM ExistenceHolds == Spec => []Existence
BY CacheConsistent, DocumentedInvariants, PTL

\* Everything that replaces or was replaced is always in some tree.
THEOREM CompletenessHolds == Spec => []Completeness
BY CacheConsistent, DocumentedInvariants, PTL

\* The tree objects always agree with the maps.
THEOREM TreesAgreeHolds == Spec => []TreesAgree
<1>1. ASSUME Consistent PROVE TreesAgree
  <2>1. Intact
    BY <1>1 DEF Consistent
  <2>2. \A r \in DOMAIN rbfTrees : Nodes(rbfTrees[r]) = {x \in DOMAIN treeMap : treeMap[x] = r}
    BY <2>1 DEF Intact, Indexed, Sound
  <2>3. ASSUME NEW r \in DOMAIN rbfTrees, NEW p \in Nodes(rbfTrees[r])
        PROVE  rbfTrees[r].replaces[p] = IF p \in DOMAIN replaces THEN replaces[p] ELSE {}
    BY <2>1 DEF Intact, Indexed, Linked, Kids, Sound
  <2> QED BY <2>1, <2>2, <2>3 DEF TreesAgree, HasTree, Intact, Indexed, Sound
<1> QED BY <1>1, CacheConsistent, PTL

-----------------------------------------------------------------------------
(* Expiry                                                                  *)

WholeTreesOnly ==
  \A x \in txs \ txs' :
    LET r == treeMap[x]
    IN r \in DOMAIN expiring /\ expiring[r] = 0 /\ Nodes(rbfTrees[r]) \cap txs' = {}

\* A cleanup drops trees as a whole, each because its root is due.
LEMMA CleanupWholeTrees ==
  ASSUME Intact, NEW exp, NEW trees, Cleanup(exp, trees),
         DOMAIN exp \subseteq Tx,
         \A t \in DOMAIN exp : exp[t] = 0 => t \in DOMAIN expiring /\ expiring[t] = 0
  PROVE  WholeTreesOnly
<1> DEFINE due  == {t \in DOMAIN exp : exp[t] = 0}
           gone == Below(replaces, Removable(due))
<1>1. txs' = txs \ gone /\ due \in SUBSET Tx
  BY DEF Cleanup
<1> SUFFICES ASSUME NEW x \in txs \ txs'
             PROVE  LET r == treeMap[x]
                    IN r \in DOMAIN expiring /\ expiring[r] = 0
                       /\ Nodes(rbfTrees[r]) \cap txs' = {}
  BY DEF WholeTreesOnly
<1>2. x \in gone /\ treeMap[x] \in DOMAIN rbfTrees /\ x \in Nodes(rbfTrees[treeMap[x]])
  BY <1>1 DEF Intact, Indexed, Sound
<1>3. treeMap[x] \in due /\ Nodes(rbfTrees[treeMap[x]]) \subseteq gone
  BY <1>1, <1>2, RemovedWhole DEF Intact
<1> QED BY <1>1, <1>3

\* No step but a cleanup forgets a transaction, and a cleanup forgets whole trees.
THEOREM WholeTreeExpiresHolds == Spec => WholeTreeExpires
<1>1. ASSUME Consistent, [Next]_vars, phase # "connecting", phase' # "connecting"
      PROVE  WholeTreesOnly
  <2>1. Intact /\ MemoryOK
    BY <1>1 DEF Consistent, TypeOK
  <2>2. ASSUME txs \subseteq txs' PROVE WholeTreesOnly
    BY <2>2 DEF WholeTreesOnly
  <2>3. ASSUME NEW replaced \in SUBSET Tx, NEW new \in Tx,
               Serving(Add(replaced, new)) \/ Connect(replaced, new)
        PROVE  txs \subseteq txs'
    BY <2>3 DEF Serving, Connect, Add
  <2>4. ASSUME \/ \E txid \in Tx : Serving(Evict(txid)) \/ Serving(Mined(txid))
               \/ Serving(GetRbfChanges) \/ Tick \/ Save \/ BeginCheck \/ UNCHANGED vars
        PROVE  txs \subseteq txs'
    BY <2>4 DEF Serving, Evict, Mined, GetRbfChanges, Tick, Save, BeginCheck, vars, memory
  <2>5. CASE CleanupTimer
    BY <2>1, <2>5, CleanupWholeTrees DEF CleanupTimer, MemoryOK, IsMap
  <2>6. CASE Restart
    BY <1>1, <2>6 DEF Restart
  <2>7. ASSUME NEW found \in SUBSET batch, NEW confirmed \in SUBSET found,
               FinishCheck(found, confirmed)
        PROVE  WholeTreesOnly
    <3> DEFINE lost   == (batch \ found) \cup {t \in confirmed : HasTree(t)}
               exp    == Evicted(lost)
               marked == WithMined(confirmed)
    <3>1. Cleanup(exp, marked)
      BY <2>7 DEF FinishCheck
    <3>2. DOMAIN exp \subseteq Tx
      BY <2>1, EvictedType DEF IsMap
    <3>3. \A t \in DOMAIN exp : exp[t] = 0 => t \in DOMAIN expiring /\ expiring[t] = 0
      BY ExpiryAssumption DEF Evicted
    <3> HIDE DEF exp, marked
    <3> QED BY <2>1, <3>1, <3>2, <3>3, CleanupWholeTrees
  <2> QED BY <1>1, <2>2, <2>3, <2>4, <2>5, <2>6, <2>7
          DEF Next, Operations, Clock, Restarting
<1>2. Consistent /\ [Next]_vars =>
        [phase # "connecting" /\ phase' # "connecting" =>
           \A x \in txs \ txs' :
             LET r == treeMap[x]
             IN r \in DOMAIN expiring /\ expiring[r] = 0
                /\ Nodes(rbfTrees[r]) \cap txs' = {}]_vars
  BY <1>1 DEF WholeTreesOnly
<1> QED BY <1>2, CacheConsistent, PTL DEF Spec, WholeTreeExpires

-----------------------------------------------------------------------------
(* Cycles                                                                  *)

\* What a walk finds below its start is a child of the start or of something found.
LEMMA BelowHasParent ==
  ASSUME NEW kids, NEW S \in SUBSET Tx, \A p \in DOMAIN kids : kids[p] \subseteq Tx,
         NEW x \in Below(kids, S), x \notin S
  PROVE  \E q \in Below(kids, S) \cap DOMAIN kids : x \in kids[q]
<1> DEFINE found == Below(kids, S)
           C     == found \ {x}
<1> SUFFICES ASSUME \A q \in found \cap DOMAIN kids : x \notin kids[q] PROVE FALSE
  OBVIOUS
<1>1. ClosedUnder(kids, found) /\ found \subseteq Tx
  BY BelowClosed
<1>2. S \subseteq C
  BY BelowStart
<1>3. ClosedUnder(kids, C)
  BY <1>1 DEF ClosedUnder
<1>4. found \subseteq C
  BY <1>1, <1>2, <1>3, BelowLeast
<1> QED BY <1>4

\* An intact cache has no cycle: what is below a node on one would be cut off from the root.
LEMMA IntactNoCycles ==
  ASSUME Intact PROVE NoCycles
<1>1. \A p \in DOMAIN replaces : replaces[p] \subseteq Tx
  BY DEF Intact, MemoryOK, IsMap, Sound
<1> SUFFICES ASSUME NEW p \in DOMAIN replaces, p \in Below(replaces, replaces[p])
             PROVE  FALSE
  BY DEF NoCycles
<1> DEFINE S     == replaces[p]
           found == Below(replaces, S)
           r     == treeMap[p]
           kids  == rbfTrees[r].replaces
           rest  == Tx \ found
<1>2. S \in SUBSET Tx
  BY <1>1
<1>3. /\ p \in txs /\ r \in DOMAIN rbfTrees /\ p \in Nodes(rbfTrees[r])
      /\ r \in txs /\ treeMap[r] = r /\ txs \subseteq Tx
  BY RootsAreSelfMapped DEF Intact, Indexed, Linked, MemoryOK, Sound
<1>4. ASSUME NEW x \in found
      PROVE  \E q \in found \cap DOMAIN replaces : x \in replaces[q]
  <2>1. CASE x \in S
    BY <2>1
  <2>2. CASE x \notin S
    BY <1>1, <1>2, <2>2, BelowHasParent
  <2> QED BY <2>1, <2>2
<1>5. r \in rest
  <2> SUFFICES ASSUME r \in found PROVE FALSE
    BY <1>3
  <2>1. PICK q \in DOMAIN replaces : r \in replaces[q]
    BY <1>4
  <2>2. r \in DOMAIN replacedBy
    BY <2>1, SameTree DEF Intact
  <2> QED BY <1>3, <2>2 DEF Intact, Linked, Sound
<1>6. ClosedUnder(kids, rest)
  <2> SUFFICES ASSUME NEW q \in rest \cap DOMAIN kids, NEW c \in kids[q]
               PROVE  c \in rest
    BY DEF ClosedUnder
  <2>1. q \in txs /\ treeMap[q] = r /\ q \in Nodes(rbfTrees[r])
    BY <1>3 DEF Intact, Indexed, Nodes, Sound
  <2>2. q \in DOMAIN replaces /\ c \in replaces[q]
    BY <2>1 DEF Intact, Linked, Kids, Sound
  <2>3. c \in Tx /\ replacedBy[c] = q
    BY <1>1, <2>2, SameTree DEF Intact
  <2>4. CASE c \in found
    <3>1. PICK s \in found \cap DOMAIN replaces : c \in replaces[s]
      BY <2>4, <1>4
    <3>2. s = q
      BY <3>1, <2>3, SameTree DEF Intact
    <3> QED BY <3>1, <3>2
  <2> QED BY <2>3, <2>4
<1>7. Below(kids, {r}) \subseteq rest
  BY <1>3, <1>5, <1>6, BelowLeast
<1> QED BY <1>3, <1>7 DEF Intact, Rooted, Sound

\* No version ever replaces itself through others, so the recursive walks over
\* `replaces` (updateTreeMap, getTransactionsInTree, remove) end.
THEOREM NoCyclesHolds == Spec => []NoCycles
<1>1. Consistent => NoCycles
  BY IntactNoCycles DEF Consistent
<1> QED BY <1>1, CacheConsistent, PTL

-----------------------------------------------------------------------------
(* Replacements                                                            *)

\* What add() does, in terms of the transactions that nothing had replaced before.
LEMMA AddShape ==
  ASSUME Intact, NEW replaced \in SUBSET Tx, NEW new \in Tx, new \notin replaced,
         Add(replaced, new),
         NEW fresh, fresh = Unreplaced(replaced)
  PROVE  /\ fresh # {} /\ fresh \cap DOMAIN replacedBy = {} /\ new \notin txs \cup fresh
         /\ txs' = txs \cup fresh \cup {new}
         /\ replacedBy' = [t \in fresh \cup DOMAIN replacedBy |->
                             IF t \in fresh THEN new ELSE replacedBy[t]]
         /\ fresh \cap txs \subseteq DOMAIN rbfTrees
         /\ rbfTrees' = [r \in {new} \cup (DOMAIN rbfTrees \ (fresh \cap txs)) |->
                           IF r = new THEN rbfTrees'[new] ELSE rbfTrees[r]]
         /\ Nodes(rbfTrees'[new]) =
              {new} \cup fresh \cup UNION {Nodes(rbfTrees[r]) : r \in fresh \cap txs}
         /\ rbfTrees'[new].fullRbf = FullRbf(fresh \ txs, fresh \cap txs)
<1> DEFINE leaves == fresh \ DOMAIN treeMap
           ids    == {treeMap[t] : t \in fresh \ leaves}
           joined == ids \cap DOMAIN rbfTrees
           below  == Members(leaves, joined)
           kids   == [x \in below \cup {new} |->
                        CASE x = new -> leaves \cup joined
                          [] x # new /\ x \in leaves -> {}
                          [] OTHER -> rbfTrees[treeMap[x]].replaces[x]]
           tree   == [replaces |-> kids,
                      minedTxs |-> UNION {rbfTrees[r].minedTxs : r \in joined},
                      mined    |-> FALSE,
                      fullRbf  |-> FullRbf(leaves, joined)]
<1>1. /\ new \notin txs
      /\ \E t \in replaced : t \notin DOMAIN replacedBy
      /\ replacedBy' = [t \in fresh \cup DOMAIN replacedBy |->
                          IF t \in fresh THEN new ELSE replacedBy[t]]
      /\ rbfTrees' = [r \in {new} \cup (DOMAIN rbfTrees \ ids) |->
                        IF r = new THEN tree ELSE rbfTrees[r]]
      /\ txs' = txs \cup leaves \cup {new}
  BY DEF Add, Unseen
<1>2. /\ DOMAIN treeMap = txs /\ new \notin fresh /\ fresh # {}
      /\ fresh \cap DOMAIN replacedBy = {} /\ leaves = fresh \ txs
  BY <1>1 DEF Intact, Indexed, Unreplaced, Sound
<1>3. ASSUME NEW t \in fresh \cap txs
      PROVE  treeMap[t] = t /\ t \in DOMAIN rbfTrees
  BY <1>2, RootsAreSelfMapped DEF Intact, Linked, Sound
<1>4. fresh \ leaves = fresh \cap txs
  BY <1>2
<1> HIDE DEF leaves
<1>5. ids = fresh \cap txs
  BY <1>3, <1>4
<1>6. joined = fresh \cap txs
  BY <1>3, <1>5
<1> HIDE DEF ids, joined
<1>7. /\ rbfTrees'[new] = tree
      /\ rbfTrees' = [r \in {new} \cup (DOMAIN rbfTrees \ (fresh \cap txs)) |->
                        IF r = new THEN rbfTrees'[new] ELSE rbfTrees[r]]
  BY <1>1, <1>5
<1>8. tree.fullRbf = FullRbf(fresh \ txs, fresh \cap txs)
  BY <1>2, <1>6
<1>9. Nodes(tree) = below \cup {new}
  BY DEF Nodes
<1>10. below = (fresh \ txs) \cup UNION {Nodes(rbfTrees[r]) : r \in fresh \cap txs}
  BY <1>2, <1>6 DEF Members
<1>11. fresh \cap txs \subseteq UNION {Nodes(rbfTrees[r]) : r \in fresh \cap txs}
  <2>1. ASSUME NEW r \in fresh \cap txs PROVE r \in Nodes(rbfTrees[r])
    BY <1>3 DEF Intact, Rooted, Sound
  <2> QED BY <2>1
<1> HIDE DEF below, tree, kids
<1>12. Nodes(rbfTrees'[new]) =
         {new} \cup fresh \cup UNION {Nodes(rbfTrees[r]) : r \in fresh \cap txs}
  BY <1>7, <1>9, <1>10, <1>11
<1>13. fresh \cap txs \subseteq DOMAIN rbfTrees
  BY <1>3
<1>14. txs' = txs \cup fresh \cup {new}
  BY <1>1, <1>2
<1> QED BY <1>1, <1>2, <1>7, <1>8, <1>12, <1>13, <1>14

-----------------------------------------------------------------------------
(* Full RBF                                                                *)

\* FullRbfExact for any forest: the flag of every tree is exact.
Exact(trees) ==
  \A r \in DOMAIN trees : trees[r].fullRbf <=> (Nodes(trees[r]) \ {r}) \cap Final # {}

\* The flag of a tree is never computed anew, so it has to be exact in the snapshot too.
FlagsExact == Exact(rbfTrees) /\ Exact(saved.trees)

\* Trees with the nodes and the flags of exact ones are exact.
LEMMA SameFlagsExact ==
  ASSUME NEW trees, NEW old, Exact(old), DOMAIN trees \subseteq DOMAIN old,
         \A r \in DOMAIN trees : /\ trees[r].fullRbf = old[r].fullRbf
                                 /\ trees[r].replaces = old[r].replaces
  PROVE  Exact(trees)
BY DEF Exact, Nodes

\* Marking transactions as mined leaves the flags alone.
LEMMA MarkedFlags ==
  ASSUME MemoryOK, NEW S, NEW r \in DOMAIN rbfTrees
  PROVE  WithMined(S)[r].fullRbf = rbfTrees[r].fullRbf
<1>1. rbfTrees[r] = [replaces |-> rbfTrees[r].replaces, minedTxs |-> rbfTrees[r].minedTxs,
                     mined |-> rbfTrees[r].mined, fullRbf |-> rbfTrees[r].fullRbf]
  BY DEF MemoryOK, IsForest, IsTree
<1>2. \/ WithMined(S)[r] = rbfTrees[r]
      \/ WithMined(S)[r] = [rbfTrees[r] EXCEPT
            !.minedTxs = @ \cup (S \cap Nodes(rbfTrees[r])), !.mined = TRUE]
  BY DEF WithMined
<1> QED BY <1>1, <1>2

\* add() computes the flag of the new tree from the leaves and the absorbed trees.
LEMMA AddExact ==
  ASSUME Intact, Intact', Exact(rbfTrees),
         NEW replaced \in SUBSET Tx, NEW new \in Tx, new \notin replaced,
         Add(replaced, new)
  PROVE  Exact(rbfTrees')
<1> DEFINE fresh  == Unreplaced(replaced)
           joined == fresh \cap txs
<1>1. /\ new \notin txs \cup fresh
      /\ joined \subseteq DOMAIN rbfTrees
      /\ rbfTrees' = [r \in {new} \cup (DOMAIN rbfTrees \ joined) |->
                        IF r = new THEN rbfTrees'[new] ELSE rbfTrees[r]]
      /\ Nodes(rbfTrees'[new]) =
           {new} \cup fresh \cup UNION {Nodes(rbfTrees[r]) : r \in joined}
      /\ rbfTrees'[new].fullRbf = FullRbf(fresh \ txs, joined)
  BY AddShape
<1>2. ASSUME NEW r \in joined
      PROVE  /\ rbfTrees[r].fullRbf <=> (Nodes(rbfTrees[r]) \ {r}) \cap Final # {}
             /\ new \notin Nodes(rbfTrees[r]) /\ r \in fresh
  BY <1>1 DEF Exact, Intact, Indexed, Sound
<1> HIDE DEF fresh
<1>3. (fresh \ txs) \cup joined = fresh
  OBVIOUS
<1>4. rbfTrees'[new].fullRbf <=>
        fresh \cap Final # {} \/ \E r \in joined : rbfTrees[r].fullRbf
  BY <1>1, <1>3, Zenon DEF FullRbf
<1>5. (Nodes(rbfTrees'[new]) \ {new}) \cap Final # {} <=>
        \/ fresh \cap Final # {}
        \/ \E r \in joined : Nodes(rbfTrees[r]) \cap Final # {}
  BY <1>1, <1>2
<1>6. \/ fresh \cap Final # {}
      \/ \A r \in joined : Nodes(rbfTrees[r]) \cap Final # {} <=> rbfTrees[r].fullRbf
  BY <1>2
<1>7. rbfTrees'[new].fullRbf <=> (Nodes(rbfTrees'[new]) \ {new}) \cap Final # {}
  BY <1>4, <1>5, <1>6
<1>8. ASSUME NEW r \in DOMAIN rbfTrees', r # new
      PROVE  rbfTrees'[r] = rbfTrees[r] /\ r \in DOMAIN rbfTrees
  BY <1>1, <1>8
<1> QED BY <1>7, <1>8 DEF Exact

\* load() takes the stored trees and their flags as they are.
LEMMA RestartTrees ==
  ASSUME IsSnapshot(saved), Restorable(saved), Restart
  PROVE  /\ DOMAIN rbfTrees' = DOMAIN saved.trees
         /\ \A r \in DOMAIN saved.trees :
              /\ rbfTrees'[r].replaces = saved.trees[r].replaces
              /\ rbfTrees'[r].fullRbf = saved.trees[r].fullRbf
<1>1. rbfTrees' = [r \in DOMAIN saved.trees \cap saved.txs |->
                     ImportTree(saved.trees[r], r, saved.txs)]
  BY DEF Restart
<1>2. ASSUME NEW r \in DOMAIN saved.trees
      PROVE  /\ r \in saved.txs
             /\ ImportTree(saved.trees[r], r, saved.txs).replaces = saved.trees[r].replaces
             /\ ImportTree(saved.trees[r], r, saved.txs).fullRbf = saved.trees[r].fullRbf
  BY ImportIsIdentity DEF ImportTree
<1> QED BY <1>1, <1>2

\* Every step keeps the flags exact, those of the snapshot too.
LEMMA FlagsStep == Consistent /\ Consistent' /\ FlagsExact /\ [Next]_vars => FlagsExact'
<1> SUFFICES ASSUME Consistent, Consistent', FlagsExact, [Next]_vars PROVE FlagsExact'
  OBVIOUS
<1>1. /\ Intact /\ MemoryOK /\ Intact' /\ IsSnapshot(saved) /\ Restorable(saved)
      /\ Exact(rbfTrees) /\ Exact(saved.trees)
  BY DEF Consistent, TypeOK, FlagsExact
<1>2. ASSUME NEW replaced \in SUBSET Tx, NEW new \in Tx, new \notin replaced,
             Serving(Add(replaced, new)) \/ Connect(replaced, new)
      PROVE  FlagsExact'
  <2>1. Add(replaced, new) /\ saved' = saved
    BY <1>2 DEF Serving, Connect
  <2>2. Exact(rbfTrees')
    BY <1>1, <1>2, <2>1, AddExact
  <2> QED BY <1>1, <2>1, <2>2 DEF FlagsExact
<1>3. CASE \/ \E txid \in Tx : Serving(Evict(txid))
           \/ Serving(GetRbfChanges) \/ BeginCheck \/ UNCHANGED vars
  <2>1. rbfTrees' = rbfTrees /\ saved' = saved
    BY <1>3 DEF Serving, Evict, GetRbfChanges, BeginCheck, vars, memory
  <2> QED BY <1>1, <2>1 DEF FlagsExact
<1>4. ASSUME NEW txid \in Tx, Serving(Mined(txid))
      PROVE  FlagsExact'
  <2>1. rbfTrees' = WithMined({txid}) /\ saved' = saved
    BY <1>4 DEF Serving, Mined
  <2>2. Exact(WithMined({txid}))
    BY <1>1, MarkedForest, MarkedFlags, SameFlagsExact
  <2> QED BY <1>1, <2>1, <2>2 DEF FlagsExact
<1>5. ASSUME NEW exp, NEW trees, Cleanup(exp, trees), saved' = saved, Exact(trees)
      PROVE  FlagsExact'
  <2>1. \E ids : rbfTrees' = [r \in DOMAIN trees \ ids |-> trees[r]]
    BY <1>5 DEF Cleanup
  <2>2. Exact(rbfTrees')
    BY <1>5, <2>1, SameFlagsExact
  <2> QED BY <1>1, <1>5, <2>2 DEF FlagsExact
<1>6. CASE CleanupTimer
  BY <1>1, <1>5, <1>6 DEF CleanupTimer
<1>7. CASE Tick
  <2>1. rbfTrees' = rbfTrees /\ saved' = [saved EXCEPT !.expiring = Elapsed(@)]
    BY <1>7 DEF Tick
  <2>2. saved = [txs |-> saved.txs, trees |-> saved.trees, expiring |-> saved.expiring]
    BY <1>1 DEF IsSnapshot
  <2>3. saved'.trees = saved.trees
    BY <2>1, <2>2
  <2> QED BY <1>1, <2>1, <2>3 DEF FlagsExact
<1>8. CASE Save
  <2>1. rbfTrees' = rbfTrees /\ saved'.trees = rbfTrees
    BY <1>8 DEF Save, memory
  <2> QED BY <1>1, <2>1 DEF FlagsExact
<1>9. CASE Restart
  <2>1. saved' = saved
    BY <1>9 DEF Restart
  <2>2. Exact(rbfTrees')
    BY <1>1, <1>9, RestartTrees, SameFlagsExact
  <2> QED BY <1>1, <2>1, <2>2 DEF FlagsExact
<1>10. ASSUME NEW found \in SUBSET batch, NEW confirmed \in SUBSET found,
              FinishCheck(found, confirmed)
       PROVE  FlagsExact'
  <2> DEFINE exp    == Evicted((batch \ found) \cup {t \in confirmed : HasTree(t)})
             marked == WithMined(confirmed)
  <2>1. Cleanup(exp, marked) /\ saved' = saved
    BY <1>10 DEF FinishCheck
  <2>2. Exact(marked)
    BY <1>1, MarkedForest, MarkedFlags, SameFlagsExact
  <2> HIDE DEF exp, marked
  <2> QED BY <1>5, <2>1, <2>2
<1> QED BY <1>2, <1>3, <1>4, <1>6, <1>7, <1>8, <1>9, <1>10
        DEF Next, Operations, Clock, Restarting

\* A tree is always shown as full RBF exactly when some replaced version of it had not
\* signalled that it could be replaced, after restarts too.
THEOREM FullRbfExactHolds == Spec => []FullRbfExact
<1>1. Init => FlagsExact
  BY DEF Init, Nothing, FlagsExact, Exact
<1>2. FlagsExact => FullRbfExact
  BY DEF FlagsExact, Exact, FullRbfExact
<1> QED BY <1>1, <1>2, FlagsStep, CacheConsistent, PTL DEF Spec

-----------------------------------------------------------------------------
(* Refinement                                                              *)

\* The parents that are read off the nestings of the trees, once it is
\* known who the only parent of every node is.
LEMMA ParentsOf ==
  ASSUME NEW kids, NEW up, up = [c \in DOMAIN up |-> up[c]],
         \A c \in DOMAIN up :
           /\ up[c] \in Tx
           /\ \E r \in DOMAIN kids : up[c] \in DOMAIN kids[r] /\ c \in kids[r][up[c]],
         \A r \in DOMAIN kids : \A p \in DOMAIN kids[r] : \A c \in kids[r][p] :
           c \in DOMAIN up /\ up[c] = p
  PROVE  Parents(kids) = up
<1> DEFINE all == UNION {UNION {kids[r][p] : p \in DOMAIN kids[r]} : r \in DOMAIN kids}
           IsParent(c, p) ==
             \E r \in DOMAIN kids : p \in DOMAIN kids[r] /\ c \in kids[r][p]
<1>1. all \subseteq DOMAIN up
  OBVIOUS
<1>2. ASSUME NEW c \in DOMAIN up PROVE c \in all
  <2>1. PICK r \in DOMAIN kids : up[c] \in DOMAIN kids[r] /\ c \in kids[r][up[c]]
    OBVIOUS
  <2>2. c \in UNION {kids[r][p] : p \in DOMAIN kids[r]}
    BY <2>1
  <2> QED BY <2>2
<1>3. ASSUME NEW c \in DOMAIN up
      PROVE  (CHOOSE p \in Tx : IsParent(c, p)) = up[c]
  <2>1. up[c] \in Tx /\ IsParent(c, up[c])
    OBVIOUS
  <2>2. \A p \in Tx : IsParent(c, p) => p = up[c]
    OBVIOUS
  <2> HIDE DEF IsParent
  <2> QED BY <2>1, <2>2
<1> HIDE DEF all, IsParent
<1>4. all = DOMAIN up
  BY <1>1, <1>2
<1>5. [c \in all |-> CHOOSE p \in Tx : IsParent(c, p)] = [c \in DOMAIN up |-> up[c]]
  BY <1>3, <1>4
<1> QED BY <1>5 DEF all, IsParent, Parents

\* In an intact cache replacedBy names the parents in the trees.
LEMMA ReplacedByIsParent ==
  ASSUME Intact
  PROVE  /\ \A c \in DOMAIN replacedBy :
              /\ replacedBy[c] \in Tx
              /\ \E r \in DOMAIN rbfTrees :
                   /\ replacedBy[c] \in DOMAIN rbfTrees[r].replaces
                   /\ c \in rbfTrees[r].replaces[replacedBy[c]]
         /\ \A r \in DOMAIN rbfTrees : \A p \in DOMAIN rbfTrees[r].replaces :
              \A c \in rbfTrees[r].replaces[p] :
                c \in DOMAIN replacedBy /\ replacedBy[c] = p
         /\ replacedBy = [c \in DOMAIN replacedBy |-> replacedBy[c]]
<1>1. ASSUME NEW c \in DOMAIN replacedBy
      PROVE  /\ replacedBy[c] \in Tx
             /\ \E r \in DOMAIN rbfTrees :
                  /\ replacedBy[c] \in DOMAIN rbfTrees[r].replaces
                  /\ c \in rbfTrees[r].replaces[replacedBy[c]]
  <2> DEFINE p == replacedBy[c]
             r == treeMap[p]
  <2>1. c \in Kids(p) /\ p \in Tx
    BY DEF Intact, Linked, MemoryOK, IsMap, Sound
  <2>2. p \in DOMAIN replaces
    BY <2>1 DEF Kids
  <2>3. p \in txs /\ r \in DOMAIN rbfTrees /\ p \in Nodes(rbfTrees[r])
    BY <2>2 DEF Intact, Linked, Indexed, Sound
  <2>4. rbfTrees[r].replaces[p] = Kids(p)
    BY <2>3 DEF Intact, Linked, Sound
  <2> QED BY <2>1, <2>3, <2>4 DEF Nodes
<1>2. ASSUME NEW r \in DOMAIN rbfTrees, NEW p \in DOMAIN rbfTrees[r].replaces,
             NEW c \in rbfTrees[r].replaces[p]
      PROVE  c \in DOMAIN replacedBy /\ replacedBy[c] = p
  <2>1. p \in txs /\ treeMap[p] = r
    BY DEF Intact, Indexed, Nodes, Sound
  <2>2. c \in Kids(p)
    BY <2>1 DEF Intact, Linked, Sound
  <2>3. p \in DOMAIN replaces /\ c \in replaces[p]
    BY <2>2 DEF Kids
  <2> QED BY <2>3, SameTree DEF Intact
<1>3. replacedBy = [c \in DOMAIN replacedBy |-> replacedBy[c]]
  BY DEF Intact, MemoryOK, IsMap, Sound
<1> QED BY <1>1, <1>2, <1>3

NestingsOf(trees) == [r \in DOMAIN trees |-> trees[r].replaces]

\* replacedBy is what can be read off the trees: what dump() stores and load() rebuilds.
ParentsAgree == Parents(NestingsOf(rbfTrees)) = replacedBy

\* An intact cache is such.
LEMMA IntactParents ==
  ASSUME Intact PROVE ParentsAgree
<1> DEFINE kids == NestingsOf(rbfTrees)
<1>1. /\ \A c \in DOMAIN replacedBy :
           /\ replacedBy[c] \in Tx
           /\ \E r \in DOMAIN kids : /\ replacedBy[c] \in DOMAIN kids[r]
                                    /\ c \in kids[r][replacedBy[c]]
      /\ \A r \in DOMAIN kids : \A p \in DOMAIN kids[r] : \A c \in kids[r][p] :
           c \in DOMAIN replacedBy /\ replacedBy[c] = p
      /\ replacedBy = [c \in DOMAIN replacedBy |-> replacedBy[c]]
  BY ReplacedByIsParent DEF NestingsOf
<1> HIDE DEF kids
<1>2. Parents(kids) = replacedBy
  BY <1>1, ParentsOf
<1> QED BY <1>2 DEF ParentsAgree, kids

\* add() replaces transactions that nothing had replaced before.
LEMMA AddReplaces ==
  ASSUME Intact, NEW replaced \in SUBSET Tx, NEW new \in Tx, new \notin replaced,
         Add(replaced, new), saved' = saved
  PROVE  \E fresh \in SUBSET Tx : History!Replace(fresh, new)
<1> DEFINE fresh == Unreplaced(replaced)
<1>1. /\ fresh # {} /\ fresh \cap DOMAIN replacedBy = {} /\ new \notin txs \cup fresh
      /\ txs' = txs \cup fresh \cup {new}
      /\ replacedBy' = [t \in fresh \cup DOMAIN replacedBy |->
                          IF t \in fresh THEN new ELSE replacedBy[t]]
  <2>1. fresh # {} /\ fresh \cap DOMAIN replacedBy = {} /\ new \notin txs \cup fresh
    BY AddShape
  <2>2. txs' = txs \cup fresh \cup {new}
    BY AddShape
  <2>3. replacedBy' = [t \in fresh \cup DOMAIN replacedBy |->
                          IF t \in fresh THEN new ELSE replacedBy[t]]
    BY DEF Add
  <2> QED BY <2>1, <2>2, <2>3
<1>2. fresh \in SUBSET Tx
  BY DEF Unreplaced
<1>3. StoredParents' = StoredParents
  BY DEF StoredParents
<1> HIDE DEF fresh
<1>4. History!Replace(fresh, new)
  BY <1>1, <1>3 DEF History!Replace
<1> QED BY <1>2, <1>4

\* A cleanup forgets newest versions with all their earlier versions.
LEMMA CleanupForgets ==
  ASSUME Intact, NEW exp, NEW trees, Cleanup(exp, trees), DOMAIN exp \subseteq Tx,
         UNCHANGED saved
  PROVE  \E gone \in SUBSET Tx : History!Forget(gone)
<1> DEFINE due  == {t \in DOMAIN exp : exp[t] = 0}
           gone == Below(replaces, Removable(due))
           cut  == UNION {replaces[p] : p \in gone \cap DOMAIN replaces}
<1>1. /\ txs' = txs \ gone /\ due \in SUBSET Tx
      /\ replacedBy' = [t \in DOMAIN replacedBy \ cut |-> replacedBy[t]]
  BY DEF Cleanup
<1>2. gone \in SUBSET Tx
  BY DEF Below
<1>3. ASSUME NEW r \in DOMAIN rbfTrees
      PROVE  IF r \in due THEN Nodes(rbfTrees[r]) \subseteq gone
                          ELSE Nodes(rbfTrees[r]) \cap gone = {}
  BY <1>1, <1>3, RemovedWhole DEF Intact
<1> HIDE DEF due, gone
<1>4. ASSUME NEW x \in DOMAIN replacedBy
      PROVE  /\ x \in gone <=> replacedBy[x] \in gone
             /\ x \in cut <=> x \in gone
  <2> DEFINE p == replacedBy[x]
  <2>1. p \in DOMAIN replaces /\ x \in replaces[p]
    BY DEF Intact, Linked, Kids, Sound
  <2>2. p \in txs /\ x \in txs /\ treeMap[x] = treeMap[p]
    BY <2>1, SameTree DEF Intact
  <2>3. /\ treeMap[p] \in DOMAIN rbfTrees
        /\ p \in Nodes(rbfTrees[treeMap[p]]) /\ x \in Nodes(rbfTrees[treeMap[p]])
    BY <2>2 DEF Intact, Indexed, Sound
  <2>4. x \in gone <=> p \in gone
    BY <1>3, <2>3
  <2>5. ASSUME NEW q \in DOMAIN replaces, x \in replaces[q] PROVE q = p
    BY <2>5, SameTree DEF Intact
  <2> QED BY <2>1, <2>4, <2>5
<1> HIDE DEF cut
<1>5. replacedBy' = [t \in DOMAIN replacedBy \ gone |-> replacedBy[t]]
  <2>1. DOMAIN replacedBy \ cut = DOMAIN replacedBy \ gone
    BY <1>4
  <2> QED BY <1>1, <2>1
<1>6. StoredParents' = StoredParents
  BY DEF StoredParents
<1> QED BY <1>1, <1>2, <1>4, <1>5, <1>6 DEF History!Forget

\* Every step of the cache is a step of the history or leaves it alone.
LEMMA HistoryStep ==
  ASSUME Consistent, ParentsAgree, ParentsAgree', [Next]_vars
  PROVE  [History!HNext]_(History!hvars)
<1>1. Intact /\ MemoryOK /\ IsSnapshot(saved) /\ Restorable(saved)
  BY DEF Consistent, TypeOK
<1>2. ASSUME saved' = saved PROVE StoredParents' = StoredParents
  BY <1>2 DEF StoredParents
<1>3. ASSUME NEW replaced \in SUBSET Tx, NEW new \in Tx, new \notin replaced,
             Serving(Add(replaced, new)) \/ Connect(replaced, new)
      PROVE  History!HNext
  <2>1. Add(replaced, new) /\ saved' = saved
    BY <1>3 DEF Serving, Connect
  <2>2. \E fresh \in SUBSET Tx : History!Replace(fresh, new)
    BY <1>1, <1>3, <2>1, AddReplaces
  <2> QED BY <2>2 DEF History!HNext
<1>4. CASE \/ \E txid \in Tx : Serving(Evict(txid)) \/ Serving(Mined(txid))
           \/ Serving(GetRbfChanges) \/ BeginCheck \/ UNCHANGED vars
  <2>1. txs' = txs /\ replacedBy' = replacedBy /\ saved' = saved
    BY <1>4 DEF Serving, Evict, Mined, GetRbfChanges, BeginCheck, vars, memory, maps
  <2> QED BY <1>2, <2>1 DEF History!hvars
<1>5. CASE Tick
  <2>1. /\ txs' = txs /\ replacedBy' = replacedBy
        /\ saved' = [saved EXCEPT !.expiring = Elapsed(@)]
    BY <1>5 DEF Tick, maps
  <2>2. saved = [txs |-> saved.txs, trees |-> saved.trees, expiring |-> saved.expiring]
    BY <1>1 DEF IsSnapshot
  <2>3. saved'.txs = saved.txs /\ saved'.trees = saved.trees
    BY <2>1, <2>2
  <2>4. StoredParents' = StoredParents
    BY <2>3 DEF StoredParents
  <2> QED BY <2>1, <2>3, <2>4 DEF History!hvars
<1>6. ASSUME NEW exp, NEW trees, Cleanup(exp, trees), DOMAIN exp \subseteq Tx, saved' = saved
      PROVE  History!HNext
  <2>1. \E gone \in SUBSET Tx : History!Forget(gone)
    BY <1>1, <1>6, CleanupForgets
  <2> QED BY <2>1 DEF History!HNext
<1>7. CASE CleanupTimer
  BY <1>1, <1>6, <1>7 DEF CleanupTimer, MemoryOK, IsMap
<1>8. ASSUME NEW found \in SUBSET batch, NEW confirmed \in SUBSET found,
             FinishCheck(found, confirmed)
      PROVE  History!HNext
  <2> DEFINE exp    == Evicted((batch \ found) \cup {t \in confirmed : HasTree(t)})
             marked == WithMined(confirmed)
  <2>1. Cleanup(exp, marked) /\ saved' = saved
    BY <1>8 DEF FinishCheck
  <2>2. DOMAIN exp \subseteq Tx
    BY <1>1, EvictedType DEF IsMap
  <2> HIDE DEF exp, marked
  <2> QED BY <1>6, <2>1, <2>2
<1>9. CASE Save
  <2>1. /\ txs' = txs /\ replacedBy' = replacedBy
        /\ saved'.txs = txs /\ saved'.trees = rbfTrees
    BY <1>9 DEF Save, memory
  <2>2. StoredParents' = replacedBy
    BY <2>1 DEF StoredParents, ParentsAgree, NestingsOf
  <2>3. History!Remember
    BY <2>1, <2>2 DEF History!Remember
  <2> QED BY <2>3 DEF History!HNext
<1>10. CASE Restart
  <2>1. txs' = saved.txs /\ saved' = saved
    BY <1>10 DEF Restart
  <2>2. /\ DOMAIN rbfTrees' = DOMAIN saved.trees
        /\ \A r \in DOMAIN saved.trees : rbfTrees'[r].replaces = saved.trees[r].replaces
    BY <1>1, <1>10, RestartTrees
  <2>3. NestingsOf(rbfTrees)' = [r \in DOMAIN saved.trees |-> saved.trees[r].replaces]
    BY <2>2 DEF NestingsOf
  <2>4. replacedBy' = StoredParents
    BY <2>3 DEF ParentsAgree, StoredParents
  <2>5. History!Recover
    BY <1>2, <2>1, <2>4 DEF History!Recover
  <2> QED BY <2>5 DEF History!HNext
<1> QED BY <1>3, <1>4, <1>5, <1>7, <1>8, <1>9, <1>10
        DEF Next, Operations, Clock, Restarting

\* The cache implements the history: no operation, cleanup, dump or load forgets a
\* replacement that is still cached or invents one.
THEOREM RefinesHistoryHolds == Spec => RefinesHistory
<1>1. Init => History!HInit
  <2> SUFFICES ASSUME Init PROVE History!HInit
    OBVIOUS
  <2>1. txs = {} /\ replacedBy = Nothing /\ saved.txs = {} /\ DOMAIN saved.trees = {}
    BY DEF Init, Nothing
  <2>2. StoredParents = [x \in {} |-> {}]
    BY <2>1 DEF StoredParents, Parents
  <2> QED BY <2>1, <2>2 DEF Nothing, History!HInit, History!Empty
<1>2. Consistent => ParentsAgree
  BY IntactParents DEF Consistent
<1>3. Consistent /\ ParentsAgree /\ ParentsAgree' /\ [Next]_vars
        => [History!HNext]_(History!hvars)
  BY HistoryStep
<1> QED BY <1>1, <1>2, <1>3, CacheConsistent, PTL DEF Spec, RefinesHistory, History!HSpec

-----------------------------------------------------------------------------
(* Numbers, recursion and sequences                                        *)

LEMMA LeastNumber ==
  ASSUME NEW S \in SUBSET Nat, S # {}
  PROVE  \E x \in S : \A y \in S : x <= y
<1> DEFINE R == OpToRel(<, Nat)
<1>1. IsWellFoundedOn(R, Nat)
  BY NatLessThanWellFounded
<1>2. \A x, y \in Nat : y < x => <<y, x>> \in R
  BY DEF OpToRel
<1> HIDE DEF R
<1>3. PICK x \in S : \A y \in S : ~(<<y, x>> \in R)
  BY <1>1, WFMin
<1>4. ASSUME NEW y \in S PROVE x <= y
  <2>1. x \in Nat /\ y \in Nat
    OBVIOUS
  <2>2. ~(y < x)
    BY <1>2, <1>3, <2>1, Zenon
  <2> QED
    BY <2>1, <2>2
<1> QED
  BY <1>4

\* What holds of 0 and passes from a number to the next holds up to a bound.
LEMMA Upwards ==
  ASSUME NEW n \in Nat, NEW S, 0 \in S, \A i \in 1..n : i - 1 \in S => i \in S
  PROVE  \A i \in 0..n : i \in S
<1> DEFINE Missing == {i \in 0..n : i \notin S}
<1>1. SUFFICES ASSUME Missing # {} PROVE FALSE
  OBVIOUS
<1>2. PICK x \in Missing : \A y \in Missing : x <= y
  <2>1. Missing \in SUBSET Nat
    OBVIOUS
  <2> QED
    BY <1>1, <2>1, LeastNumber
<1>3. x \in 1..n /\ x \notin S
  OBVIOUS
<1>4. x - 1 \in 0..n /\ ~(x <= x - 1)
  BY <1>3
<1>5. x - 1 \in S
  BY <1>2, <1>4
<1> QED
  BY <1>3, <1>5

\* A sequence of n steps from x.
Course(f, D, x, step, n) ==
  /\ f \in [0..n -> D]
  /\ f[0] = x
  /\ \A i \in 1..n : f[i] = step[i][f[i - 1]]

\* Recursive functions on 0..n exist.
LEMMA Recursion ==
  ASSUME NEW n \in Nat, NEW D, NEW x \in D, NEW step,
         \A i \in 1..n : \A d \in D : step[i][d] \in D
  PROVE  \E f : Course(f, D, x, step, n)
<1> DEFINE S == {m \in 0..n : \E f : Course(f, D, x, step, m)}
<1>1. 0 \in S
  <2> DEFINE f == [i \in 0..0 |-> x]
  <2>1. Course(f, D, x, step, 0)
    BY DEF Course
  <2> QED
    BY <2>1
<1>2. ASSUME NEW m \in 1..n, m - 1 \in S PROVE m \in S
  <2>1. PICK f : Course(f, D, x, step, m - 1)
    BY <1>2
  <2> DEFINE g == [i \in 0..m |-> IF i = m THEN step[m][f[m - 1]] ELSE f[i]]
  <2>2. m \in 0..n /\ m - 1 \in 0..(m - 1) /\ \A i \in 0..m : i # m => i \in 0..(m - 1)
    OBVIOUS
  <2>3. f[m - 1] \in D /\ step[m][f[m - 1]] \in D
    BY <2>1, <2>2 DEF Course
  <2>4. g \in [0..m -> D]
    BY <2>1, <2>2, <2>3 DEF Course
  <2>5. g[0] = x
    BY <2>1, <2>2 DEF Course
  <2>6. ASSUME NEW i \in 1..m PROVE g[i] = step[i][g[i - 1]]
    <3>1. i \in 0..m /\ i - 1 \in 0..m /\ i - 1 # m
      OBVIOUS
    <3>2. g[i - 1] = f[i - 1]
      BY <3>1
    <3>3. CASE i = m
      BY <3>1, <3>2, <3>3
    <3>4. CASE i # m
      <4>1. g[i] = f[i] /\ i \in 1..(m - 1)
        BY <3>1, <3>4
      <4> HIDE DEF g
      <4> QED
        BY <2>1, <3>2, <4>1 DEF Course
    <3> QED
      BY <3>3, <3>4
  <2> HIDE DEF g
  <2>7. Course(g, D, x, step, m)
    BY <2>4, <2>5, <2>6 DEF Course
  <2> QED
    BY <2>2, <2>7
<1> HIDE DEF S
<1>3. n \in S
  <2>1. \A i \in 0..n : i \in S
    BY <1>1, <1>2, Upwards
  <2> QED
    BY <2>1
<1> QED
  BY <1>3 DEF S

\* The elements of the concatenation of two sequences.
LEMMA ConcatElements ==
  ASSUME NEW S, NEW a \in Seq(S), NEW b \in Seq(S)
  PROVE  /\ a \o b \in Seq(S)
         /\ ToSet(a \o b) = ToSet(a) \cup ToSet(b)
<1> DEFINE c == a \o b
           m == Len(a)
           n == Len(b)
<1>1. m \in Nat /\ n \in Nat /\ DOMAIN a = 1..m /\ DOMAIN b = 1..n
  OBVIOUS
<1>2. c \in Seq(S) /\ DOMAIN c = 1..(m + n)
  OBVIOUS
<1>3. /\ \A i \in 1..m : c[i] = a[i]
      /\ \A i \in 1..n : c[i + m] = b[i]
  OBVIOUS
<1> HIDE DEF c, m, n
<1>4. \A i \in 1..(m + n) : i \in 1..m \/ (i - m \in 1..n /\ (i - m) + m = i)
  BY <1>1
<1>5. (\A i \in 1..m : i \in 1..(m + n)) /\ (\A i \in 1..n : i + m \in 1..(m + n))
  BY <1>1
<1>6. ASSUME NEW x \in ToSet(c) PROVE x \in ToSet(a) \/ x \in ToSet(b)
  <2>1. PICK i \in 1..(m + n) : x = c[i]
    BY <1>2 DEF ToSet
  <2>2. CASE i \in 1..m
    BY <1>1, <1>3, <2>1, <2>2 DEF ToSet
  <2>3. CASE i - m \in 1..n /\ (i - m) + m = i
    <3>1. x = b[i - m]
      BY <1>3, <2>1, <2>3
    <3> QED
      BY <1>1, <2>3, <3>1 DEF ToSet
  <2> QED
    BY <1>4, <2>2, <2>3
<1>7. \A x : x \in ToSet(a) \/ x \in ToSet(b) => x \in ToSet(c)
  BY <1>1, <1>2, <1>3, <1>5 DEF ToSet
<1> QED
  BY <1>2, <1>6, <1>7 DEF c

\* The elements of the first k groups.
Among(gs, k) == UNION {ToSet(gs[i]) : i \in 1..k}

LEMMA AmongNext ==
  ASSUME NEW gs, NEW k \in Nat \ {0}
  PROVE  Among(gs, k) = Among(gs, k - 1) \cup ToSet(gs[k])
<1>1. \A i : i \in 1..k <=> i \in 1..(k - 1) \/ i = k
  OBVIOUS
<1>2. \A j, x : x \in Among(gs, j) <=> \E i \in 1..j : x \in ToSet(gs[i])
  BY DEF Among
<1> QED
  BY <1>1, <1>2

\* Where FlattenSeq stands after each group.
Flattens(f, gs, S) ==
  /\ f \in [0..Len(gs) -> Seq(S)]
  /\ f[0] = <<>>
  /\ \A i \in 1..Len(gs) : f[i] = f[i - 1] \o gs[i]
  /\ FlattenSeq(gs) = f[Len(gs)]

LEMMA FlattenSteps ==
  ASSUME NEW S, NEW gs \in Seq(Seq(S))
  PROVE  \E f : Flattens(f, gs, S)
<1> DEFINE n == Len(gs)
           step == [i \in 1..n |-> [s \in Seq(S) |-> s \o gs[i]]]
           Rec(g) == g = [i \in 1..Len(gs) |-> IF i = 1 THEN gs[i] ELSE g[i - 1] \o gs[i]]
<1>1. n \in Nat /\ \A i \in 1..n : gs[i] \in Seq(S)
  OBVIOUS
<1>2. \A i \in 1..n : \A s \in Seq(S) : step[i][s] = s \o gs[i]
  OBVIOUS
<1>3. \A i \in 1..n : \A s \in Seq(S) : step[i][s] \in Seq(S)
  <2> HIDE DEF step
  <2>1. \A s, t \in Seq(S) : s \o t \in Seq(S)
    OBVIOUS
  <2> QED
    BY <1>1, <1>2, <2>1
<1> HIDE DEF step
<1>4. PICK f : Course(f, Seq(S), <<>>, step, n)
  <2>1. <<>> \in Seq(S)
    OBVIOUS
  <2> QED
    BY <1>1, <1>3, <2>1, Recursion
<1>5. f \in [0..n -> Seq(S)] /\ f[0] = <<>>
  BY <1>4 DEF Course
<1>6. ASSUME NEW i \in 1..n PROVE f[i] = f[i - 1] \o gs[i] /\ i - 1 \in 0..n
  <2>1. i - 1 \in 0..n
    BY <1>1
  <2>2. f[i - 1] \in Seq(S) /\ f[i] = step[i][f[i - 1]]
    BY <1>4, <2>1 DEF Course
  <2> QED
    BY <1>2, <2>1, <2>2
<1>7. FlattenSeq(gs) = f[n]
  <2>1. CASE n = 0
    <3>1. FlattenSeq(gs) = gs
      BY <2>1 DEF FlattenSeq
    <3>2. gs = <<>>
      BY <2>1
    <3> QED
      BY <1>5, <2>1, <3>1, <3>2
  <2>2. CASE n # 0
    <3> DEFINE g == [i \in 1..n |-> f[i]]
    <3>1. \A i \in 1..n : g[i] = IF i = 1 THEN gs[i] ELSE g[i - 1] \o gs[i]
      <4> TAKE i \in 1..n
      <4>1. g[i] = f[i] /\ f[i] = f[i - 1] \o gs[i]
        BY <1>6
      <4>2. CASE i = 1
        <5>1. f[i] = <<>> \o gs[i] /\ gs[i] \in Seq(S)
          BY <1>1, <1>5, <4>1, <4>2
        <5>2. \A s \in Seq(S) : <<>> \o s = s
          OBVIOUS
        <5> QED
          BY <4>1, <4>2, <5>1, <5>2
      <4>3. CASE i # 1
        <5>1. i - 1 \in 1..n
          BY <1>1, <4>3
        <5>2. g[i - 1] = f[i - 1]
          BY <5>1
        <5> HIDE DEF g
        <5> QED
          BY <4>1, <4>3, <5>2
      <4> QED
        BY <4>2, <4>3
    <3>2. g = [i \in 1..n |-> g[i]] /\ g[n] = f[n]
      BY <1>1, <2>2
    <3> HIDE DEF g
    <3>3. Rec(g)
      BY <3>1, <3>2
    <3>4. \A h : Rec(h) => h[n] = f[n]
      <4> TAKE h
      <4>1. SUFFICES ASSUME Rec(h) PROVE h[n] = f[n]
        OBVIOUS
      <4>2. \A i \in 1..n : h[i] = IF i = 1 THEN gs[i] ELSE h[i - 1] \o gs[i]
        BY <4>1
      <4> DEFINE Good == {i \in 0..n : i # 0 => h[i] = f[i]}
      <4>3. 0 \in Good
        BY <1>1
      <4>4. ASSUME NEW i \in 1..n, i - 1 \in Good PROVE i \in Good
        <5>0. i \in 0..n
          BY <1>1
        <5>1. i \in 0..n /\ f[i] = f[i - 1] \o gs[i]
          BY <5>0, <1>6
        <5>2. CASE i = 1
          <6>1. f[i] = <<>> \o gs[i] /\ gs[i] \in Seq(S) /\ h[i] = gs[i]
            BY <1>1, <1>5, <4>2, <5>1, <5>2
          <6>2. \A s \in Seq(S) : <<>> \o s = s
            OBVIOUS
          <6> QED
            BY <5>1, <6>1, <6>2
        <5>3. CASE i # 1
          <6>0. i - 1 # 0
            BY <5>3
          <6>1. h[i - 1] = f[i - 1] /\ h[i] = h[i - 1] \o gs[i]
            BY <4>2, <4>4, <5>3, <6>0
          <6> QED
            BY <5>1, <6>1
        <5> QED
          BY <5>2, <5>3
      <4> HIDE DEF Good
      <4>5. \A i \in 0..n : i \in Good
        BY <1>1, <4>3, <4>4, Upwards
      <4>6. n \in 0..n
        BY <1>1
      <4> QED
        BY <2>2, <4>5, <4>6 DEF Good
    <3>5. FlattenSeq(gs) = (CHOOSE h : Rec(h))[n]
      BY <2>2 DEF FlattenSeq
    <3> HIDE DEF Rec
    <3>6. Rec(CHOOSE h : Rec(h))
      BY <3>3
    <3> QED
      BY <3>4, <3>5, <3>6
  <2> QED
    BY <2>1, <2>2
<1> QED
  BY <1>5, <1>6, <1>7 DEF Flattens
\* Flattening keeps exactly the elements of the groups.
LEMMA FlattenElements ==
  ASSUME NEW S, NEW gs \in Seq(Seq(S))
  PROVE  /\ FlattenSeq(gs) \in Seq(S)
         /\ ToSet(FlattenSeq(gs)) = UNION {ToSet(gs[i]) : i \in DOMAIN gs}
<1> DEFINE n == Len(gs)
<1>1. n \in Nat /\ DOMAIN gs = 1..n /\ \A i \in 1..n : gs[i] \in Seq(S)
  OBVIOUS
<1>2. PICK f : Flattens(f, gs, S)
  BY FlattenSteps
<1> HIDE DEF n
<1> DEFINE Good == {k \in 0..n : f[k] \in Seq(S) /\ ToSet(f[k]) = Among(gs, k)}
<1>3. 0 \in Good
  <2>1. ToSet(<<>>) = {} /\ Among(gs, 0) = {}
    BY DEF ToSet, Among
  <2>2. f[0] = <<>> /\ <<>> \in Seq(S) /\ 0 \in 0..n
    BY <1>1, <1>2 DEF Flattens
  <2> QED
    BY <2>1, <2>2
<1>4. ASSUME NEW k \in 1..n, k - 1 \in Good PROVE k \in Good
  <2>1. f[k] = f[k - 1] \o gs[k] /\ k \in 0..n /\ k \in Nat \ {0}
    BY <1>1, <1>2 DEF Flattens, n
  <2>2. f[k - 1] \in Seq(S) /\ ToSet(f[k - 1]) = Among(gs, k - 1)
    BY <1>4
  <2>3. f[k] \in Seq(S) /\ ToSet(f[k]) = ToSet(f[k - 1]) \cup ToSet(gs[k])
    BY <1>1, <2>1, <2>2, ConcatElements
  <2>4. Among(gs, k) = Among(gs, k - 1) \cup ToSet(gs[k])
    BY <2>1, AmongNext
  <2> QED
    BY <2>1, <2>2, <2>3, <2>4
<1> HIDE DEF Good
<1>5. \A k \in 0..n : k \in Good
  BY <1>1, <1>3, <1>4, Upwards
<1>6. f[n] \in Seq(S) /\ ToSet(f[n]) = Among(gs, n)
  BY <1>1, <1>5 DEF Good
<1> QED
  BY <1>1, <1>2, <1>6 DEF Flattens, Among, n

\* SetToSeq lists a finite set.
LEMMA ListsAll ==
  ASSUME NEW S, IsFiniteSet(S)
  PROVE  /\ SetToSeq(S) \in [1..Cardinality(S) -> S]
         /\ SetToSeq(S) \in Seq(S)
         /\ ToSet(SetToSeq(S)) = S
         /\ \A i, j \in 1..Cardinality(S) : SetToSeq(S)[i] = SetToSeq(S)[j] => i = j
<1> DEFINE n == Cardinality(S)
           s == SetToSeq(S)
<1>1. n \in Nat /\ ExistsBijection(1..n, S)
  BY FS_CardinalityType
<1>2. \E f \in [1..n -> S] : IsInjective(f)
  BY <1>1 DEF ExistsBijection, Bijection, Injection
<1>3. s \in [1..n -> S] /\ IsInjective(s)
  BY <1>2 DEF SetToSeq
<1>4. IsFiniteSet(1..n) /\ Cardinality(1..n) = n
  BY <1>1, FS_Interval
<1> HIDE DEF s, n
<1>5. s \in Surjection(1..n, S)
  <2>1. s \in Injection(1..n, S)
    BY <1>3 DEF Injection
  <2> QED
    BY <1>4, <2>1, FS_Injection DEF n
<1>6. \A x \in S : \E i \in 1..n : s[i] = x
  BY <1>5 DEF Surjection
<1>7. DOMAIN s = 1..n /\ s \in Seq(S)
  BY <1>1, <1>3
<1>8. ToSet(s) = S
  BY <1>3, <1>6, <1>7 DEF ToSet
<1> QED
  BY <1>3, <1>7, <1>8 DEF s, n, IsInjective

-----------------------------------------------------------------------------
(* The events an operation queues                                          *)

\* The elements of sequences joined in some order.
LEMMA ConcatAll ==
  ASSUME NEW S, IsFiniteSet(S), NEW E, NEW seqs \in [S -> Seq(E)]
  PROVE  /\ Concat(seqs) \in Seq(E)
         /\ ToSet(Concat(seqs)) = UNION {ToSet(seqs[x]) : x \in S}
<1> DEFINE n == Cardinality(S)
           order == SetToSeq(S)
           gs == [i \in 1..n |-> seqs[order[i]]]
<1>1. n \in Nat
  BY FS_CardinalityType
<1>2. order \in [1..n -> S] /\ ToSet(order) = S
  BY ListsAll
<1>3. DOMAIN seqs = S /\ Concat(seqs) = FlattenSeq(gs)
  BY DEF Concat
<1> HIDE DEF order, n
<1>4. gs \in Seq(Seq(E)) /\ DOMAIN gs = 1..n /\ \A i \in 1..n : gs[i] = seqs[order[i]]
  BY <1>1, <1>2
<1> HIDE DEF gs
<1>5. Concat(seqs) \in Seq(E) /\ ToSet(Concat(seqs)) = UNION {ToSet(gs[i]) : i \in DOMAIN gs}
  BY <1>3, <1>4, FlattenElements
<1>6. \A e : (\E i \in 1..n : e \in ToSet(gs[i])) <=> \E x \in S : e \in ToSet(seqs[x])
  <2>1. \A x \in S : \E i \in 1..n : order[i] = x
    BY <1>2 DEF ToSet
  <2>2. ASSUME NEW e, NEW i \in 1..n, e \in ToSet(gs[i])
        PROVE  \E x \in S : e \in ToSet(seqs[x])
    <3>1. order[i] \in S /\ gs[i] = seqs[order[i]]
      BY <1>2, <1>4
    <3> QED
      BY <2>2, <3>1
  <2>3. ASSUME NEW e, NEW x \in S, e \in ToSet(seqs[x])
        PROVE  \E i \in 1..n : e \in ToSet(gs[i])
    <3>1. PICK i \in 1..n : order[i] = x
      BY <2>1
    <3>2. gs[i] = seqs[x]
      BY <1>4, <3>1
    <3> QED
      BY <2>3, <3>2
  <2> QED
    BY <2>2, <2>3
<1>7. UNION {ToSet(gs[i]) : i \in DOMAIN gs} = UNION {ToSet(seqs[x]) : x \in S}
  BY <1>4, <1>6
<1> QED
  BY <1>5, <1>7

\* The elements of short sequences.
LEMMA ToSetShort ==
  /\ \A s : ToSet(<<>>) = {}
  /\ \A a : ToSet(<<a>>) = {a}
  /\ \A a, b : ToSet(<<a, b>>) = {a, b}
<1>1. ToSet(<<>>) = {}
  BY DEF ToSet
<1>2. ASSUME NEW a PROVE ToSet(<<a>>) = {a}
  BY DEF ToSet
<1>3. ASSUME NEW a, NEW b PROVE ToSet(<<a, b>>) = {a, b}
  BY DEF ToSet
<1> QED
  BY <1>1, <1>2, <1>3

\* A sequence that lists nothing twice.
Distinct(s) == \A i, j \in DOMAIN s : s[i] = s[j] => i = j

LEMMA DistinctAppend ==
  ASSUME NEW S, NEW s \in Seq(S), NEW x \in S, Distinct(s), x \notin ToSet(s)
  PROVE  /\ Append(s, x) \in Seq(S) /\ Len(Append(s, x)) = Len(s) + 1
         /\ Distinct(Append(s, x))
         /\ ToSet(Append(s, x)) = ToSet(s) \cup {x}
<1> DEFINE c == Append(s, x)
           n == Len(s)
<1>1. n \in Nat /\ DOMAIN s = 1..n
  OBVIOUS
<1>2. c \in Seq(S) /\ Len(c) = n + 1 /\ DOMAIN c = 1..(n + 1) /\ c[n + 1] = x
  OBVIOUS
<1>3. \A i \in 1..n : c[i] = s[i]
  OBVIOUS
<1> HIDE DEF c, n
<1>4. \A i \in 1..(n + 1) : i \in 1..n \/ i = n + 1
  BY <1>1
<1>5. \A i \in 1..n : i \in 1..(n + 1) /\ s[i] # x
  BY <1>1 DEF ToSet
<1>6. n + 1 \in 1..(n + 1)
  BY <1>1
<1>7. Distinct(c)
  BY <1>1, <1>2, <1>3, <1>4, <1>5 DEF Distinct
<1>8. ToSet(c) = ToSet(s) \cup {x}
  <2>1. \A y \in ToSet(c) : y \in ToSet(s) \/ y = x
    BY <1>1, <1>2, <1>3, <1>4 DEF ToSet
  <2>2. \A y \in ToSet(s) : y \in ToSet(c)
    BY <1>1, <1>2, <1>3, <1>5 DEF ToSet
  <2>3. x \in ToSet(c)
    BY <1>2, <1>6 DEF ToSet
  <2> QED
    BY <2>1, <2>2, <2>3
<1> QED
  BY <1>2, <1>7, <1>8 DEF c, n

LEMMA DistinctConcat ==
  ASSUME NEW S, NEW a \in Seq(S), NEW b \in Seq(S), Distinct(a), Distinct(b),
         ToSet(a) \cap ToSet(b) = {}
  PROVE  Distinct(a \o b)
<1> DEFINE c == a \o b
           m == Len(a)
           n == Len(b)
<1>1. m \in Nat /\ n \in Nat /\ DOMAIN a = 1..m /\ DOMAIN b = 1..n
  OBVIOUS
<1>2. DOMAIN c = 1..(m + n)
  OBVIOUS
<1>3. /\ \A i \in 1..m : c[i] = a[i]
      /\ \A i \in 1..n : c[i + m] = b[i]
  OBVIOUS
<1> HIDE DEF c, m, n
<1>4. \A i \in 1..(m + n) : i \in 1..m \/ (i - m \in 1..n /\ (i - m) + m = i)
  BY <1>1
<1>5. \A i \in 1..m : c[i] \in ToSet(a)
  BY <1>1, <1>3 DEF ToSet
<1>6. ASSUME NEW i \in 1..(m + n), i - m \in 1..n, (i - m) + m = i
      PROVE  c[i] = b[i - m] /\ c[i] \in ToSet(b)
  <2>1. c[i] = b[i - m]
    BY <1>3, <1>6
  <2> QED
    BY <1>1, <1>6, <2>1 DEF ToSet
<1>7. ASSUME NEW i \in 1..(m + n), NEW j \in 1..(m + n), c[i] = c[j] PROVE i = j
  <2>1. CASE i \in 1..m /\ j \in 1..m
    BY <1>1, <1>3, <1>7, <2>1 DEF Distinct
  <2>2. CASE i - m \in 1..n /\ (i - m) + m = i /\ j - m \in 1..n /\ (j - m) + m = j
    <3>1. b[i - m] = b[j - m]
      BY <1>6, <1>7, <2>2
    <3>2. i - m = j - m
      BY <1>1, <2>2, <3>1 DEF Distinct
    <3> QED
      BY <2>2, <3>2
  <2> QED
    BY <1>4, <1>5, <1>6, <1>7, <2>1, <2>2
<1> QED
  BY <1>2, <1>7 DEF Distinct, c

LEMMA DistinctTail ==
  ASSUME NEW S, NEW s \in Seq(S), s # <<>>, Distinct(s)
  PROVE  /\ Head(s) \in S /\ Tail(s) \in Seq(S) /\ Distinct(Tail(s))
         /\ Head(s) \notin ToSet(Tail(s))
         /\ ToSet(s) = {Head(s)} \cup ToSet(Tail(s))
<1> DEFINE c == Tail(s)
           n == Len(s)
<1>1. n \in Nat \ {0} /\ DOMAIN s = 1..n /\ Head(s) = s[1] /\ s[1] \in S
  OBVIOUS
<1>2. c \in Seq(S) /\ DOMAIN c = 1..(n - 1)
  OBVIOUS
<1>3. \A i \in 1..(n - 1) : c[i] = s[i + 1]
  OBVIOUS
<1> HIDE DEF c, n
<1>4. \A i \in 1..(n - 1) : i + 1 \in 1..n /\ i + 1 # 1
  BY <1>1
<1>5. \A i \in 1..n : i = 1 \/ (i - 1 \in 1..(n - 1) /\ (i - 1) + 1 = i)
  BY <1>1
<1>6. ASSUME NEW i \in 1..(n - 1), NEW j \in 1..(n - 1), c[i] = c[j] PROVE i = j
  <2>1. s[i + 1] = s[j + 1]
    BY <1>3, <1>6
  <2>2. i + 1 = j + 1
    BY <1>1, <1>4, <2>1 DEF Distinct
  <2> QED
    BY <2>2
<1>7. Distinct(c)
  BY <1>2, <1>6 DEF Distinct
<1>8. 1 \in 1..n
  BY <1>1
<1>9. s[1] \notin ToSet(c)
  <2>1. ASSUME NEW i \in 1..(n - 1) PROVE c[i] # s[1]
    BY <1>1, <1>3, <1>4, <1>8 DEF Distinct
  <2> QED
    BY <1>2, <2>1 DEF ToSet
<1>10. ASSUME NEW x \in ToSet(s) PROVE x = s[1] \/ x \in ToSet(c)
  <2>1. PICK i \in 1..n : x = s[i]
    BY <1>1 DEF ToSet
  <2>2. CASE i - 1 \in 1..(n - 1) /\ (i - 1) + 1 = i
    <3>1. x = c[i - 1]
      BY <1>3, <2>1, <2>2
    <3> QED
      BY <1>2, <2>2, <3>1 DEF ToSet
  <2> QED
    BY <1>5, <2>1, <2>2
<1>11. \A x \in ToSet(c) : x \in ToSet(s)
  BY <1>1, <1>2, <1>3, <1>4 DEF ToSet
<1>12. s[1] \in ToSet(s)
  BY <1>1, <1>8 DEF ToSet
<1>13. ToSet(s) = {s[1]} \cup ToSet(c)
  BY <1>10, <1>11, <1>12
<1> QED
  BY <1>1, <1>2, <1>7, <1>9, <1>13 DEF c
\* Each step of the walk of remove() takes one transaction and puts its children first.
LEMMA WalkSteps ==
  ASSUME Sound, NEW t \in Tx
  PROVE  LET w == Walk(t)
         IN /\ w \in [0..Cardinality(Tx) -> [todo : Seq(Tx), done : Seq(Tx)]]
            /\ w[0] = [todo |-> <<t>>, done |-> <<>>]
            /\ \A i \in 1..Cardinality(Tx) :
                 w[i] = IF w[i - 1].todo = <<>> THEN w[i - 1]
                        ELSE [todo |-> SetToSeq(Kids(Head(w[i - 1].todo))) \o Tail(w[i - 1].todo),
                              done |-> Append(w[i - 1].done, Head(w[i - 1].todo))]
<1> DEFINE N == Cardinality(Tx)
           D == [todo : Seq(Tx), done : Seq(Tx)]
           More(w) == IF w.todo = <<>> THEN w
                      ELSE [todo |-> SetToSeq(Kids(Head(w.todo))) \o Tail(w.todo),
                            done |-> Append(w.done, Head(w.todo))]
           x == [todo |-> <<t>>, done |-> <<>>]
           step == [i \in 1..N |-> [w \in D |-> More(w)]]
           Rec(f) == f = [i \in 0..N |->
             IF i = 0 THEN [todo |-> <<t>>, done |-> <<>>]
             ELSE LET w == f[i - 1]
                  IN IF w.todo = <<>> THEN w
                     ELSE [todo |-> SetToSeq(Kids(Head(w.todo))) \o Tail(w.todo),
                           done |-> Append(w.done, Head(w.todo))]]
<1>1. N \in Nat
  BY FiniteAssumption, FS_CardinalityType
<1>2. \A p \in Tx : SetToSeq(Kids(p)) \in Seq(Tx)
  <2> TAKE p \in Tx
  <2>1. Kids(p) \in SUBSET Tx
    BY DEF Kids, Sound, MemoryOK, IsMap
  <2>2. IsFiniteSet(Kids(p))
    BY <2>1, FiniteAssumption, FS_Subset
  <2>3. SetToSeq(Kids(p)) \in Seq(Kids(p))
    BY <2>2, ListsAll
  <2>4. \A s \in Seq(Kids(p)) : s \in Seq(Tx)
    BY <2>1
  <2> QED
    BY <2>3, <2>4
<1>3. x \in D
  OBVIOUS
<1>4. ASSUME NEW w \in D PROVE More(w) \in D
  <2>1. CASE w.todo = <<>>
    BY <2>1
  <2>2. CASE w.todo # <<>>
    <3>1. Head(w.todo) \in Tx /\ Tail(w.todo) \in Seq(Tx)
      BY <2>2
    <3>2. SetToSeq(Kids(Head(w.todo))) \in Seq(Tx)
      BY <1>2, <3>1
    <3>3. /\ SetToSeq(Kids(Head(w.todo))) \o Tail(w.todo) \in Seq(Tx)
          /\ Append(w.done, Head(w.todo)) \in Seq(Tx)
      BY <3>1, <3>2
    <3> QED
      BY <2>2, <3>3
  <2> QED
    BY <2>1, <2>2
<1> HIDE DEF More
<1>5. \A i \in 1..N : \A w \in D : step[i][w] = More(w) /\ step[i][w] \in D
  BY <1>4
<1> HIDE DEF step, D, x
<1>6. PICK f : Course(f, D, x, step, N)
  BY <1>1, <1>3, <1>5, Recursion
<1>7. f[0] = x /\ \A i \in 1..N : f[i] = More(f[i - 1])
  <2>1. \A i \in 1..N : i - 1 \in 0..N
    BY <1>1
  <2> QED
    BY <1>5, <1>6, <2>1 DEF Course
<1>8. Rec(f)
  <2>1. \A i \in 0..N : f[i] = IF i = 0 THEN x ELSE More(f[i - 1])
    <3>1. \A i \in 0..N : i # 0 => i \in 1..N
      BY <1>1
    <3> QED
      BY <1>7, <3>1
  <2>2. f = [i \in 0..N |-> f[i]]
    BY <1>6 DEF Course
  <2> QED
    BY <2>1, <2>2 DEF More, x
<1>9. Rec(Walk(t))
  <2>1. Walk(t) = CHOOSE w : Rec(w)
    BY DEF Walk
  <2> HIDE DEF Rec
  <2> QED
    BY <1>8, <2>1
<1> DEFINE w == Walk(t)
<1>10. w = [i \in 0..N |-> w[i]] /\ w[0] = x /\ \A i \in 1..N : w[i] = More(w[i - 1])
  <2>1. 0 \in 0..N /\ \A i \in 1..N : i \in 0..N /\ i # 0
    BY <1>1
  <2> HIDE DEF w
  <2>2. Rec(w)
    BY <1>9 DEF w
  <2> QED
    BY <2>1, <2>2 DEF More, x
<1> HIDE DEF w, Rec
<1> DEFINE Good == {i \in 0..N : w[i] \in D}
<1>11. 0 \in Good /\ \A i \in 1..N : i - 1 \in Good => i \in Good
  <2>1. 0 \in 0..N /\ \A i \in 1..N : i \in 0..N
    BY <1>1
  <2>2. 0 \in Good
    BY <1>3, <1>10, <2>1
  <2>3. ASSUME NEW i \in 1..N, i - 1 \in Good PROVE i \in Good
    <3>1. w[i - 1] \in D
      BY <2>3
    <3>2. w[i] \in D
      BY <1>4, <1>10, <3>1
    <3> QED
      BY <2>1, <3>2
  <2> QED
    BY <2>2, <2>3
<1> HIDE DEF Good
<1>12. \A i \in 0..N : i \in Good
  BY <1>1, <1>11, Upwards
<1>13. w \in [0..N -> D]
  BY <1>10, <1>12 DEF Good
<1> QED
  BY <1>10, <1>13 DEF w, More, x, D

\* What the walk from t knows of each of its steps: it starts at t, lists no transaction twice, has
\* seen the children of what it has done, and never leaves the versions below t.
Walked(w, t, i) ==
  /\ Distinct(w.done) /\ Distinct(w.todo)
  /\ ToSet(w.done) \cap ToSet(w.todo) = {}
  /\ t \in ToSet(w.done) \cup ToSet(w.todo)
  /\ ToSet(w.done) \cup ToSet(w.todo) \subseteq Below(replaces, {t})
  /\ \A p \in ToSet(w.done) : Kids(p) \subseteq ToSet(w.done) \cup ToSet(w.todo)
  /\ \A c \in ToSet(w.done) \cup ToSet(w.todo) :
       c = t \/ (c \in DOMAIN replacedBy /\ replacedBy[c] \in ToSet(w.done))
  /\ Len(w.done) = i \/ w.todo = <<>>
  /\ w.done = <<>> => w.todo = <<t>>
  /\ w.done # <<>> => w.done[1] = t

LEMMA WalkGoesOn ==
  ASSUME Sound, NEW t \in Tx, t \notin DOMAIN replacedBy,
         NEW w \in [todo : Seq(Tx), done : Seq(Tx)], NEW i \in Nat \ {0},
         Walked(w, t, i - 1), w.todo # <<>>
  PROVE  Walked([todo |-> SetToSeq(Kids(Head(w.todo))) \o Tail(w.todo),
                 done |-> Append(w.done, Head(w.todo))], t, i)
<1> DEFINE h == Head(w.todo)
           rest == Tail(w.todo)
           kids == SetToSeq(Kids(h))
           todo == kids \o rest
           done == Append(w.done, h)
<1>1. /\ h \in Tx /\ rest \in Seq(Tx) /\ Distinct(rest) /\ h \notin ToSet(rest)
      /\ ToSet(w.todo) = {h} \cup ToSet(rest)
  BY DistinctTail DEF Walked
<1>2. /\ h \notin ToSet(w.done) /\ w.done \in Seq(Tx) /\ Distinct(w.done)
  BY <1>1 DEF Walked
<1>3. Kids(h) \in SUBSET Tx /\ IsFiniteSet(Kids(h))
  <2>1. Kids(h) \in SUBSET Tx
    BY DEF Kids, Sound, MemoryOK, IsMap
  <2> QED
    BY <2>1, FiniteAssumption, FS_Subset
<1> HIDE DEF h, rest
<1>4. kids \in Seq(Tx) /\ Distinct(kids) /\ ToSet(kids) = Kids(h)
  <2> DEFINE m == Cardinality(Kids(h))
  <2>1. /\ kids \in [1..m -> Kids(h)] /\ kids \in Seq(Kids(h)) /\ ToSet(kids) = Kids(h)
        /\ \A a, b \in 1..m : kids[a] = kids[b] => a = b
    BY <1>3, ListsAll
  <2> HIDE DEF m, kids
  <2>2. DOMAIN kids = 1..m
    BY <2>1
  <2>3. \A s \in Seq(Kids(h)) : s \in Seq(Tx)
    BY <1>3
  <2> QED
    BY <2>1, <2>2, <2>3 DEF Distinct
<1> HIDE DEF kids
<1>5. ASSUME NEW c \in Kids(h)
      PROVE  /\ c \in DOMAIN replacedBy /\ replacedBy[c] = h
             /\ c \notin ToSet(w.done) \cup ToSet(w.todo)
  <2>1. h \in DOMAIN replaces /\ c \in replaces[h]
    BY DEF Kids
  <2>2. c \in DOMAIN replacedBy /\ replacedBy[c] = h
    BY <2>1, SameTree
  <2> QED
    BY <1>2, <2>2 DEF Walked
<1>6. /\ todo \in Seq(Tx) /\ Distinct(todo)
      /\ ToSet(todo) = Kids(h) \cup ToSet(rest)
  <2>1. ToSet(kids) \cap ToSet(rest) = {}
    BY <1>1, <1>4, <1>5
  <2> QED
    BY <1>1, <1>4, <2>1, ConcatElements, DistinctConcat
<1>7. /\ done \in Seq(Tx) /\ Distinct(done) /\ Len(done) = Len(w.done) + 1
      /\ ToSet(done) = ToSet(w.done) \cup {h}
  BY <1>1, <1>2, DistinctAppend
<1>14. done # <<>> /\ done[1] = t
  <2>1. CASE w.done = <<>>
    <3>1. w.todo = <<t>> /\ h = t
      BY <2>1 DEF Walked, h
    <3> QED
      BY <2>1, <3>1
  <2>2. CASE w.done # <<>>
    <3>1. w.done[1] = t /\ 1 \in 1..Len(w.done)
      BY <1>2, <2>2 DEF Walked
    <3> QED
      BY <1>2, <1>1, <3>1
  <2> QED
    BY <2>1, <2>2
<1> HIDE DEF todo, done
<1>8. ToSet(done) \cup ToSet(todo) = ToSet(w.done) \cup ToSet(w.todo) \cup Kids(h)
  BY <1>1, <1>6, <1>7
<1>9. ToSet(done) \cap ToSet(todo) = {}
  BY <1>1, <1>2, <1>5, <1>6, <1>7 DEF Walked
<1>10. Kids(h) \subseteq Below(replaces, {t})
  <2>1. \A p \in DOMAIN replaces : replaces[p] \subseteq Tx
    BY DEF Sound, MemoryOK, IsMap
  <2>2. ClosedUnder(replaces, Below(replaces, {t}))
    BY <2>1, BelowClosed
  <2>3. h \in Below(replaces, {t})
    BY <1>1 DEF Walked
  <2> QED
    BY <2>2, <2>3 DEF ClosedUnder, Kids
<1>11. Len(done) = i
  <2>1. Len(w.done) = i - 1 /\ Len(w.done) \in Nat
    BY <1>2 DEF Walked
  <2> QED
    BY <1>7, <2>1
<1> DEFINE v == [todo |-> todo, done |-> done]
<1>12. v.todo = todo /\ v.done = done
  OBVIOUS
<1> HIDE DEF v
<1>13. Walked(v, t, i)
  <2>1. \A p \in ToSet(done) : Kids(p) \subseteq ToSet(done) \cup ToSet(todo)
    BY <1>7, <1>8 DEF Walked
  <2>2. \A c \in ToSet(done) \cup ToSet(todo) :
          c = t \/ (c \in DOMAIN replacedBy /\ replacedBy[c] \in ToSet(done))
    BY <1>5, <1>7, <1>8 DEF Walked
  <2>3. t \in ToSet(done) \cup ToSet(todo)
    BY <1>8 DEF Walked
  <2>4. ToSet(done) \cup ToSet(todo) \subseteq Below(replaces, {t})
    BY <1>8, <1>10 DEF Walked
  <2> QED
    BY <1>6, <1>7, <1>9, <1>11, <1>12, <1>14, <2>1, <2>2, <2>3, <2>4 DEF Walked
<1> QED
  BY <1>13 DEF v, todo, done, kids, h, rest

\* The walk from a newest version ends within as many steps as there are transactions,
\* when it has visited t and then exactly the other versions below it.
LEMMA WalkVisits ==
  ASSUME Sound, NEW t \in Tx, t \notin DOMAIN replacedBy
  PROVE  LET done == Walk(t)[Cardinality(Tx)].done
         IN /\ done \in Seq(Tx) /\ ToSet(done) = Below(replaces, {t})
            /\ 1 \in DOMAIN done /\ done[1] = t
<1> DEFINE N == Cardinality(Tx)
           w == Walk(t)
           D == [todo : Seq(Tx), done : Seq(Tx)]
<1>1. N \in Nat
  BY FiniteAssumption, FS_CardinalityType
<1>2. /\ w \in [0..N -> D]
      /\ w[0] = [todo |-> <<t>>, done |-> <<>>]
      /\ \A i \in 1..N :
           w[i] = IF w[i - 1].todo = <<>> THEN w[i - 1]
                  ELSE [todo |-> SetToSeq(Kids(Head(w[i - 1].todo))) \o Tail(w[i - 1].todo),
                        done |-> Append(w[i - 1].done, Head(w[i - 1].todo))]
  BY WalkSteps
<1> HIDE DEF w, N
<1> DEFINE Good == {i \in 0..N : Walked(w[i], t, i)}
<1>3. 0 \in Good
  <2>1. ToSet(<<>>) = {} /\ ToSet(<<t>>) = {t}
    BY ToSetShort
  <2>2. Distinct(<<>>) /\ Distinct(<<t>>) /\ Len(<<>>) = 0
    BY DEF Distinct
  <2>3. {t} \subseteq Below(replaces, {t})
    BY BelowStart
  <2>4. w[0].done = <<>> /\ w[0].todo = <<t>>
    BY <1>2
  <2>5. Walked(w[0], t, 0)
    BY <2>1, <2>2, <2>3, <2>4 DEF Walked
  <2> QED
    BY <1>1, <2>5
<1>4. ASSUME NEW i \in 1..N, i - 1 \in Good PROVE i \in Good
  <2>1. i \in 0..N /\ i - 1 \in 0..N /\ i \in Nat \ {0} /\ w[i - 1] \in D /\ Walked(w[i - 1], t, i - 1)
    BY <1>1, <1>2, <1>4
  <2>2. CASE w[i - 1].todo = <<>>
    BY <1>2, <2>1, <2>2 DEF Walked
  <2>3. CASE w[i - 1].todo # <<>>
    <3> DEFINE u == w[i - 1]
               v == [todo |-> SetToSeq(Kids(Head(u.todo))) \o Tail(u.todo),
                     done |-> Append(u.done, Head(u.todo))]
    <3>1. w[i] = v
      BY <1>2, <2>3
    <3>2. u \in D /\ Walked(u, t, i - 1) /\ u.todo # <<>> /\ i \in Nat \ {0}
      BY <2>1, <2>3
    <3> HIDE DEF u
    <3>3. Walked(v, t, i)
      BY <3>2, WalkGoesOn
    <3> QED
      BY <2>1, <3>1, <3>3
  <2> QED
    BY <2>2, <2>3
<1> HIDE DEF Good
<1>5. \A i \in 0..N : i \in Good
  BY <1>1, <1>3, <1>4, Upwards
<1>6. Walked(w[N], t, N) /\ w[N] \in D
  BY <1>1, <1>2, <1>5 DEF Good
<1> DEFINE done == w[N].done
           todo == w[N].todo
<1>7. done \in Seq(Tx) /\ todo \in Seq(Tx)
  BY <1>6
<1>8. todo = <<>>
  <2> SUFFICES ASSUME todo # <<>> PROVE FALSE
    OBVIOUS
  <2>1. Len(done) = N /\ Distinct(done) /\ ToSet(done) \cap ToSet(todo) = {}
    BY <1>6 DEF Walked
  <2> HIDE DEF done, todo
  <2>2. done \in Injection(1..N, Tx)
    BY <1>7, <2>1 DEF Injection, IsInjective, Distinct
  <2>3. done \in Surjection(1..N, Tx)
    <3>1. IsFiniteSet(1..N) /\ Cardinality(1..N) = N
      BY <1>1, FS_Interval
    <3> QED
      BY <2>2, <3>1, FiniteAssumption, FS_Injection DEF N
  <2>4. Head(todo) \in Tx /\ Head(todo) \in ToSet(todo)
    BY <1>7 DEF ToSet
  <2>5. Head(todo) \in ToSet(done)
    BY <2>1, <2>2, <2>3, <2>4 DEF Surjection, Injection, ToSet
  <2> QED
    BY <2>1, <2>4, <2>5
<1>9. ToSet(todo) = {}
  BY <1>8, ToSetShort
<1>10. Below(replaces, {t}) \subseteq ToSet(done)
  <2>1. ToSet(done) \in SUBSET Tx
    BY <1>7 DEF ToSet
  <2>2. t \in ToSet(done) /\ \A p \in ToSet(done) : Kids(p) \subseteq ToSet(done)
    BY <1>6, <1>9 DEF Walked
  <2>3. ClosedUnder(replaces, ToSet(done))
    BY <2>2 DEF ClosedUnder, Kids
  <2> QED
    BY <2>1, <2>2, <2>3, BelowLeast
<1>11. ToSet(done) \subseteq Below(replaces, {t})
  BY <1>6 DEF Walked
<1>12. 1 \in DOMAIN done /\ done[1] = t
  <2>1. done # <<>>
    <3>1. t \in ToSet(done)
      BY <1>6, <1>9 DEF Walked
    <3> QED
      BY <3>1, ToSetShort
  <2> QED
    BY <1>6, <1>7, <2>1 DEF Walked
<1> QED
  BY <1>7, <1>10, <1>11, <1>12 DEF w, N

-----------------------------------------------------------------------------
(* The Redis mirror                                                        *)

\* The key is left as it is in memory.
Unmoved(type, t) ==
  /\ type = "tx" => (t \in txs' <=> t \in txs)
  /\ type = "tree" =>
       /\ t \in DOMAIN rbfTrees' <=> t \in DOMAIN rbfTrees
       /\ t \in DOMAIN rbfTrees => rbfTrees'[t] = rbfTrees[t]
  /\ type = "exp" =>
       /\ t \in DOMAIN expiring' <=> t \in DOMAIN expiring
       /\ t \in DOMAIN expiring => expiring'[t] = expiring[t]

LEMMA StaysMeant ==
  ASSUME NEW e, Meant(e), Unmoved(e.type, e.txid)
  PROVE  Meant(e)'
BY DEF Meant, Unmoved

LEMMA StaysInStep ==
  ASSUME NEW type, NEW t, InStep(type, t), Unmoved(type, t), saved' = saved
  PROVE  InStep(type, t)'
BY DEF InStep, Unmoved

LEMMA NothingMoves ==
  ASSUME UNCHANGED memory, NEW type, NEW t
  PROVE  Unmoved(type, t)
BY DEF Unmoved, memory

\* Queueing meant events about every key that moves keeps the store caught up.
LEMMA QueueCaughtUp ==
  ASSUME CaughtUp, cacheQueue \in Seq(Events), NEW p \in Seq(Events),
         NEW c, c = cacheQueue \o p, cacheQueue' = c, saved' = saved,
         \A e \in ToSet(p) : Meant(e)',
         \A type \in Types, t \in Tx : Unmoved(type, t) \/ \E e \in ToSet(p) : About(e, type, t)
  PROVE  c \in Seq(Events) /\ CaughtUp'
<1> DEFINE q == cacheQueue
           m == Len(q)
           n == Len(p)
<1>1. /\ m \in Nat /\ n \in Nat /\ DOMAIN q = 1..m /\ DOMAIN p = 1..n
      /\ c \in Seq(Events) /\ DOMAIN c = 1..(m + n)
  OBVIOUS
<1>2. /\ \A i \in 1..m : c[i] = q[i] /\ q[i] \in Events
      /\ \A i \in 1..n : c[i + m] = p[i]
  OBVIOUS
<1>3. \A i \in 1..(m + n) : i \in 1..m \/ (i - m \in 1..n /\ (i - m) + m = i)
  BY <1>1
<1>4. /\ \A i \in 1..m : i \in 1..(m + n)
      /\ \A i \in 1..n : i + m \in 1..(m + n) /\ \A j \in 1..m : i + m > j
  BY <1>1
<1>5. ASSUME NEW type, NEW t, NEW e \in ToSet(p), About(e, type, t)
      PROVE  \E i \in 1..(m + n) : About(c[i], type, t) /\ \A j \in 1..m : i > j
  <2>1. PICK i \in 1..n : e = p[i]
    BY <1>1 DEF ToSet
  <2>2. c[i + m] = e
    BY <1>2, <2>1
  <2> QED
    BY <1>4, <1>5, <2>2
<1> HIDE DEF m, n
<1>6. ASSUME NEW type \in Types, NEW t \in Tx,
             \A i \in DOMAIN c : ~ About(c[i], type, t)
      PROVE  InStep(type, t)'
  <2>1. Unmoved(type, t)
    BY <1>1, <1>5, <1>6
  <2>2. \A i \in DOMAIN q : ~ About(q[i], type, t)
    BY <1>1, <1>2, <1>4, <1>6
  <2>3. InStep(type, t)
    BY <2>2 DEF CaughtUp
  <2> QED
    BY <2>1, <2>3, StaysInStep
<1>7. ASSUME NEW i \in DOMAIN c,
             \A j \in DOMAIN c : j > i => ~ About(c[j], c[i].type, c[i].txid)
      PROVE  Meant(c[i])'
  <2>1. CASE i \in 1..m
    <3>1. c[i] = q[i] /\ q[i] \in Events
      BY <1>2, <2>1
    <3>2. Unmoved(q[i].type, q[i].txid)
      <4>1. q[i].type \in Types /\ q[i].txid \in Tx
        BY <3>1 DEF Events
      <4>2. ~ \E e \in ToSet(p) : About(e, q[i].type, q[i].txid)
        BY <1>1, <1>5, <1>7, <2>1, <3>1
      <4> QED
        BY <4>1, <4>2
    <3>3. \A j \in DOMAIN q : j > i => ~ About(q[j], q[i].type, q[i].txid)
      BY <1>1, <1>2, <1>4, <1>7, <3>1
    <3>4. Meant(q[i])
      BY <1>1, <2>1, <3>3 DEF CaughtUp
    <3>5. PICK e : e = q[i]
      OBVIOUS
    <3>6. Meant(e) /\ Unmoved(e.type, e.txid) /\ c[i] = e
      BY <3>1, <3>2, <3>4, <3>5
    <3>7. Meant(e)'
      BY <3>6, StaysMeant
    <3> QED
      BY <3>6, <3>7
  <2>2. CASE i - m \in 1..n /\ (i - m) + m = i
    <3>1. c[i] = p[i - m]
      BY <1>2, <2>2
    <3>2. c[i] \in ToSet(p)
      BY <1>1, <2>2, <3>1 DEF ToSet
    <3>3. PICK e \in ToSet(p) : e = c[i]
      BY <3>2
    <3>4. Meant(e)'
      OBVIOUS
    <3> QED
      BY <3>3, <3>4
  <2> QED
    BY <1>1, <1>3, <2>1, <2>2
<1> HIDE DEF q
<1> QED
  BY <1>1, <1>6, <1>7 DEF CaughtUp

\* Replaying the head of the queue keeps the store caught up when it leaves its key as
\* memory has it, if the event is meant, and all other keys alone.
LEMMA TailCaughtUp ==
  ASSUME CaughtUp, cacheQueue \in Seq(Events), cacheQueue # <<>>,
         NEW c, c = Tail(cacheQueue), cacheQueue' = c,
         UNCHANGED memory,
         NEW e, e = Head(cacheQueue),
         Meant(e) => InStep(e.type, e.txid)',
         \A type \in Types, t \in Tx :
           ~ About(e, type, t) /\ InStep(type, t) => InStep(type, t)'
  PROVE  c \in Seq(Events) /\ CaughtUp'
<1> DEFINE q == cacheQueue
           n == Len(q)
<1>1. /\ n \in Nat \ {0} /\ DOMAIN q = 1..n
      /\ c \in Seq(Events) /\ DOMAIN c = 1..(n - 1)
      /\ e = q[1] /\ q[1] \in Events
  OBVIOUS
<1>2. \A i \in 1..(n - 1) : c[i] = q[i + 1] /\ i + 1 \in 1..n
  OBVIOUS
<1> HIDE DEF n
<1>3. \A i \in 1..n : i = 1 \/ (i - 1 \in 1..(n - 1) /\ (i - 1) + 1 = i)
  BY <1>1
<1>4. 1 \in 1..n
  BY <1>1
<1>5. ASSUME NEW type \in Types, NEW t \in Tx,
             \A i \in DOMAIN c : ~ About(c[i], type, t)
      PROVE  InStep(type, t)'
  <2>1. \A i \in 1..n : i # 1 => ~ About(q[i], type, t)
    BY <1>1, <1>2, <1>3, <1>5
  <2>2. CASE About(e, type, t)
    <3>1. \A j \in DOMAIN q : j > 1 => ~ About(q[j], q[1].type, q[1].txid)
      BY <1>1, <2>1, <2>2 DEF About
    <3>2. Meant(e)
      BY <1>1, <1>4, <3>1 DEF CaughtUp
    <3> QED
      BY <2>2, <3>2 DEF About
  <2>3. CASE ~ About(e, type, t)
    <3>1. \A i \in DOMAIN q : ~ About(q[i], type, t)
      BY <1>1, <2>1, <2>3
    <3>2. InStep(type, t)
      BY <3>1 DEF CaughtUp
    <3> QED
      BY <2>3, <3>2
  <2> QED
    BY <2>2, <2>3
<1>6. ASSUME NEW i \in DOMAIN c,
             \A j \in DOMAIN c : j > i => ~ About(c[j], c[i].type, c[i].txid)
      PROVE  Meant(c[i])'
  <2>1. c[i] = q[i + 1] /\ i + 1 \in 1..n
    BY <1>1, <1>2
  <2>2. ASSUME NEW j \in 1..n, j > i + 1
        PROVE  ~ About(q[j], q[i + 1].type, q[i + 1].txid)
    <3>1. j # 1 /\ j - 1 > i
      BY <1>1, <2>2
    <3>2. j - 1 \in 1..(n - 1) /\ c[j - 1] = q[j]
      BY <1>2, <1>3, <3>1
    <3> QED
      BY <1>1, <1>6, <2>1, <3>1, <3>2
  <2>3. Meant(q[i + 1])
    BY <1>1, <2>1, <2>2 DEF CaughtUp
  <2>4. PICK d : d = q[i + 1]
    OBVIOUS
  <2>5. Meant(d) /\ c[i] = d
    BY <2>1, <2>3, <2>4
  <2>6. Meant(d)'
    BY <2>5, NothingMoves, StaysMeant
  <2> QED
    BY <2>5, <2>6
<1> HIDE DEF q
<1> QED
  BY <1>1, <1>5, <1>6 DEF CaughtUp
\* Each kind of event is an event.
LEMMA EventTypes ==
  /\ \A t \in Tx : AddTx(t) \in Events /\ AddTree(t) \in Events
  /\ \A t \in Tx, ticks \in 0..ExpiryTicks : AddExp(t, ticks) \in Events
  /\ \A type \in Types, t \in Tx : Gone(type, t) \in Events
BY ExpiryAssumption DEF AddTx, AddTree, AddExp, Gone, Event, Events, Types

\* What events are about, and what they are meant to leave.
LEMMA EventMeanings ==
  ASSUME NEW t
  PROVE  /\ About(AddTx(t), "tx", t) /\ About(AddTree(t), "tree", t)
         /\ \A ticks : About(AddExp(t, ticks), "exp", t)
         /\ \A type : About(Gone(type, t), type, t)
         /\ t \in txs => Meant(AddTx(t))
         /\ t \in DOMAIN rbfTrees => Meant(AddTree(t))
         /\ \A ticks : t \in DOMAIN expiring /\ expiring[t] = ticks => Meant(AddExp(t, ticks))
         /\ t \notin txs => Meant(Gone("tx", t))
         /\ t \notin DOMAIN rbfTrees => Meant(Gone("tree", t))
         /\ t \notin DOMAIN expiring => Meant(Gone("exp", t))
BY DEF AddTx, AddTree, AddExp, Gone, Event, About, Meant

LEMMA EventsJoined ==
  \A a, b \in Seq(Events) : a \o b \in Seq(Events) /\ ToSet(a \o b) = ToSet(a) \cup ToSet(b)
BY ConcatElements

\* evict() queues a flag for each cached transaction that has none.
LEMMA EvictEventsAre ==
  ASSUME MemoryOK, NEW S
  PROVE  /\ EvictEvents(S) \in Seq(Events)
         /\ ToSet(EvictEvents(S)) = {AddExp(t, ExpiryTicks) : t \in (S \cap txs) \ DOMAIN expiring}
<1> DEFINE T == (S \cap txs) \ DOMAIN expiring
           seqs == [t \in T |-> <<AddExp(t, ExpiryTicks)>>]
<1>1. T \in SUBSET Tx
  BY DEF MemoryOK
<1>2. IsFiniteSet(T)
  BY <1>1, FiniteAssumption, FS_Subset
<1>3. EvictEvents(S) = Concat(seqs)
  BY DEF EvictEvents
<1>4. seqs \in [T -> Seq(Events)]
  <2>1. \A t \in T : AddExp(t, ExpiryTicks) \in Events
    <3>1. ExpiryTicks \in 0..ExpiryTicks
      BY ExpiryAssumption
    <3> QED
      BY <1>1, <3>1, EventTypes
  <2> QED
    BY <2>1
<1>5. \A t \in T : ToSet(seqs[t]) = {AddExp(t, ExpiryTicks)}
  BY ToSetShort
<1> HIDE DEF seqs, T
<1>6. Concat(seqs) \in Seq(Events) /\ ToSet(Concat(seqs)) = UNION {ToSet(seqs[t]) : t \in T}
  BY <1>2, <1>4, ConcatAll
<1>7. UNION {ToSet(seqs[t]) : t \in T} = {AddExp(t, ExpiryTicks) : t \in T}
  BY <1>5
<1> QED
  BY <1>3, <1>6, <1>7 DEF T

\* What remove() queues for one transaction.
LEMMA RemovalIs ==
  ASSUME NEW x \in Tx
  PROVE  /\ Removal(x) \in Seq(Events)
         /\ ToSet(Removal(x)) = {Gone("tx", x), Gone("exp", x)}
              \cup (IF x \in DOMAIN treeMap /\ treeMap[x] = x THEN {Gone("tree", x)} ELSE {})
<1> DEFINE a == <<Gone("tx", x), Gone("exp", x)>>
           b == IF x \in DOMAIN treeMap /\ treeMap[x] = x THEN <<Gone("tree", x)>> ELSE <<>>
<1>1. Gone("tx", x) \in Events /\ Gone("exp", x) \in Events /\ Gone("tree", x) \in Events
  BY EventTypes DEF Types
<1>2. a \in Seq(Events) /\ b \in Seq(Events)
  BY <1>1
<1>3. ToSet(a) = {Gone("tx", x), Gone("exp", x)}
  BY ToSetShort
<1>4. ToSet(b) = IF x \in DOMAIN treeMap /\ treeMap[x] = x THEN {Gone("tree", x)} ELSE {}
  BY ToSetShort
<1>5. Removal(x) = a \o b
  BY DEF Removal
<1> HIDE DEF a, b
<1> QED
  BY <1>2, <1>3, <1>4, <1>5, ConcatElements

\* remove() queues the removals of a newest version and of all those before it.
LEMMA RemoveEventsAre ==
  ASSUME Sound, NEW t \in Tx, t \notin DOMAIN replacedBy
  PROVE  /\ RemoveEvents(t) \in Seq(Events)
         /\ ToSet(RemoveEvents(t)) = UNION {ToSet(Removal(x)) : x \in Below(replaces, {t})}
<1> DEFINE versions == Walk(t)[Cardinality(Tx)].done
           gs == [i \in DOMAIN versions |-> Removal(versions[i])]
<1>1. versions \in Seq(Tx) /\ ToSet(versions) = Below(replaces, {t})
  BY WalkVisits
<1>2. RemoveEvents(t) = FlattenSeq(gs)
  BY DEF RemoveEvents
<1> HIDE DEF versions
<1>3. \A i \in DOMAIN versions : versions[i] \in Tx /\ gs[i] = Removal(versions[i])
  BY <1>1
<1>4. gs \in Seq(Seq(Events)) /\ DOMAIN gs = DOMAIN versions
  <2>1. \A i \in DOMAIN versions : Removal(versions[i]) \in Seq(Events)
    BY <1>3, RemovalIs
  <2>2. DOMAIN versions = 1..Len(versions) /\ Len(versions) \in Nat
    BY <1>1
  <2> QED
    BY <2>1, <2>2
<1> HIDE DEF gs
<1>5. FlattenSeq(gs) \in Seq(Events) /\ ToSet(FlattenSeq(gs)) = UNION {ToSet(gs[i]) : i \in DOMAIN gs}
  BY <1>4, FlattenElements
<1>6. UNION {ToSet(gs[i]) : i \in DOMAIN gs} = UNION {ToSet(Removal(x)) : x \in ToSet(versions)}
  BY <1>3, <1>4 DEF ToSet
<1> QED
  BY <1>1, <1>2, <1>5, <1>6

\* A walk from several transactions visits what the walks from each of them visit.
LEMMA BelowEach ==
  ASSUME NEW kids, NEW S \in SUBSET Tx, \A p \in DOMAIN kids : kids[p] \subseteq Tx
  PROVE  Below(kids, S) = UNION {Below(kids, {s}) : s \in S}
<1> DEFINE U == UNION {Below(kids, {s}) : s \in S}
<1>1. \A s \in S : s \in Below(kids, {s}) /\ Below(kids, {s}) \subseteq Tx
                   /\ ClosedUnder(kids, Below(kids, {s}))
  BY BelowStart, BelowClosed
<1>2. S \subseteq U /\ U \in SUBSET Tx
  BY <1>1
<1>3. ClosedUnder(kids, U)
  <2> SUFFICES ASSUME NEW p \in U \cap DOMAIN kids PROVE kids[p] \subseteq U
    BY DEF ClosedUnder
  <2>1. PICK s \in S : p \in Below(kids, {s})
    OBVIOUS
  <2>2. kids[p] \subseteq Below(kids, {s})
    BY <1>1, <2>1 DEF ClosedUnder
  <2> QED
    BY <2>2
<1>4. Below(kids, S) \subseteq U
  BY <1>2, <1>3, BelowLeast
<1>5. ASSUME NEW s \in S PROVE Below(kids, {s}) \subseteq Below(kids, S)
  <2>1. ClosedUnder(kids, Below(kids, S)) /\ Below(kids, S) \subseteq Tx
    BY BelowClosed
  <2>2. {s} \subseteq Below(kids, S)
    BY BelowStart
  <2> QED
    BY <2>1, <2>2, BelowLeast
<1> QED
  BY <1>4, <1>5

\* cleanup() queues the removal of every given expiration that is due and, of everything it
\* removes, of the transaction, its expiration and its tree.
LEMMA CleanupEventsAre ==
  ASSUME Sound, NEW exp, DOMAIN exp \subseteq Tx
  PROVE  LET due  == {t \in DOMAIN exp : exp[t] = 0}
             gone == Below(replaces, Removable(due))
         IN /\ CleanupEvents(exp) \in Seq(Events)
            /\ ToSet(CleanupEvents(exp)) =
                 {Gone("exp", t) : t \in due} \cup UNION {ToSet(Removal(x)) : x \in gone}
<1> DEFINE due == {t \in DOMAIN exp : exp[t] = 0}
           gone == Below(replaces, Removable(due))
           more(t) == IF t \in DOMAIN replacedBy THEN <<>> ELSE RemoveEvents(t)
           seqs == [t \in due |-> <<Gone("exp", t)>> \o more(t)]
<1>1. due \in SUBSET Tx /\ Removable(due) \in SUBSET Tx
  BY DEF Removable
<1>2. IsFiniteSet(due)
  BY <1>1, FiniteAssumption, FS_Subset
<1>3. CleanupEvents(exp) = Concat(seqs)
  BY DEF CleanupEvents
<1> HIDE DEF due
<1>4. ASSUME NEW t \in due
      PROVE  /\ more(t) \in Seq(Events)
             /\ ToSet(more(t)) = IF t \in Removable(due)
                                 THEN UNION {ToSet(Removal(x)) : x \in Below(replaces, {t})} ELSE {}
  <2>1. t \in Tx
    BY <1>1
  <2>2. CASE t \in DOMAIN replacedBy
    BY <2>2, ToSetShort DEF Removable
  <2>3. CASE t \notin DOMAIN replacedBy
    BY <2>1, <2>3, RemoveEventsAre DEF Removable
  <2> QED
    BY <2>2, <2>3
<1> HIDE DEF more
<1>5. ASSUME NEW t \in due
      PROVE  /\ seqs[t] \in Seq(Events)
             /\ ToSet(seqs[t]) = {Gone("exp", t)} \cup ToSet(more(t))
  <2>1. Gone("exp", t) \in Events
    BY <1>1, EventTypes DEF Types
  <2>2. <<Gone("exp", t)>> \in Seq(Events) /\ ToSet(<<Gone("exp", t)>>) = {Gone("exp", t)}
    BY <2>1, ToSetShort
  <2>3. seqs[t] = <<Gone("exp", t)>> \o more(t)
    OBVIOUS
  <2> HIDE DEF seqs
  <2> QED
    BY <1>4, <2>2, <2>3, EventsJoined, Zenon
<1>6. seqs \in [due -> Seq(Events)]
  BY <1>5
<1> HIDE DEF seqs
<1>7. /\ Concat(seqs) \in Seq(Events)
      /\ ToSet(Concat(seqs)) = UNION {ToSet(seqs[t]) : t \in due}
  BY <1>2, <1>6, ConcatAll
<1>8. gone = UNION {Below(replaces, {t}) : t \in Removable(due)}
  <2>1. \A p \in DOMAIN replaces : replaces[p] \subseteq Tx
    BY DEF Sound, MemoryOK, IsMap
  <2> QED
    BY <1>1, <2>1, BelowEach
<1>9. Removable(due) \subseteq due
  BY DEF Removable
<1> HIDE DEF gone
<1>10. ASSUME NEW e
       PROVE  (\E t \in due : e \in ToSet(seqs[t]))
                <=> (\E t \in due : e = Gone("exp", t)) \/ (\E x \in gone : e \in ToSet(Removal(x)))
  <2>1. (\E t \in due : e \in ToSet(seqs[t]))
          <=> (\E t \in due : e = Gone("exp", t)) \/ (\E t \in due : e \in ToSet(more(t)))
    BY <1>5
  <2>2. (\E t \in due : e \in ToSet(more(t)))
          <=> \E t \in Removable(due) : \E x \in Below(replaces, {t}) : e \in ToSet(Removal(x))
    <3>1. \A t \in due : e \in ToSet(more(t)) <=>
            t \in Removable(due) /\ \E x \in Below(replaces, {t}) : e \in ToSet(Removal(x))
      <4> TAKE t \in due
      <4>1. CASE t \in Removable(due)
        BY <1>4, <4>1
      <4>2. CASE t \notin Removable(due)
        BY <1>4, <4>2
      <4> QED
        BY <4>1, <4>2
    <3> QED
      BY <1>9, <3>1
  <2>3. (\E t \in Removable(due) : \E x \in Below(replaces, {t}) : e \in ToSet(Removal(x)))
          <=> \E x \in gone : e \in ToSet(Removal(x))
    BY <1>8
  <2> QED
    BY <2>1, <2>2, <2>3
<1>11. UNION {ToSet(seqs[t]) : t \in due}
         = {Gone("exp", t) : t \in due} \cup UNION {ToSet(Removal(x)) : x \in gone}
  BY <1>10
<1> QED
  BY <1>3, <1>7, <1>11 DEF due, gone

\* add() queues the new transaction, the leaves and the trees that go, and then its tree.
LEMMA AddEventsSplit ==
  ASSUME Sound, NEW replaced \in SUBSET Tx, NEW new \in Tx
  PROVE  \E front \in Seq(Events) :
           /\ ToSet(front) = {AddTx(new)} \cup
                {IF t \in DOMAIN treeMap THEN Gone("tree", treeMap[t]) ELSE AddTx(t) :
                   t \in Unreplaced(replaced)}
           /\ AddEvents(replaced, new) = front \o <<AddTree(new)>>
<1> DEFINE fresh == Unreplaced(replaced)
           e(t) == IF t \in DOMAIN treeMap THEN Gone("tree", treeMap[t]) ELSE AddTx(t)
           orig == [t \in fresh |->
                      IF t \in DOMAIN treeMap THEN <<Gone("tree", treeMap[t])>> ELSE <<AddTx(t)>>]
           seqs == [t \in fresh |-> <<e(t)>>]
<1>1. fresh \in SUBSET Tx
  BY DEF Unreplaced
<1>2. IsFiniteSet(fresh)
  BY <1>1, FiniteAssumption, FS_Subset
<1>3. orig = seqs
  OBVIOUS
<1>4. AddEvents(replaced, new) = <<AddTx(new)>> \o Concat(seqs) \o <<AddTree(new)>>
  BY <1>3 DEF AddEvents
<1>5. \A t \in fresh : e(t) \in Events
  <2> TAKE t \in fresh
  <2>1. CASE t \in DOMAIN treeMap
    <3>1. treeMap[t] \in Tx
      BY <2>1 DEF Sound, MemoryOK, IsMap
    <3> QED
      BY <2>1, <3>1, EventTypes DEF Types
  <2>2. CASE t \notin DOMAIN treeMap
    BY <1>1, <2>2, EventTypes
  <2> QED
    BY <2>1, <2>2
<1> HIDE DEF e, fresh, orig
<1>6. seqs \in [fresh -> Seq(Events)] /\ \A t \in fresh : ToSet(seqs[t]) = {e(t)}
  BY <1>5, ToSetShort
<1> HIDE DEF seqs
<1>7. /\ Concat(seqs) \in Seq(Events)
      /\ ToSet(Concat(seqs)) = UNION {ToSet(seqs[t]) : t \in fresh}
  BY <1>2, <1>6, ConcatAll
<1>8. UNION {ToSet(seqs[t]) : t \in fresh} = {e(t) : t \in fresh}
  BY <1>6
<1>9. /\ <<AddTx(new)>> \in Seq(Events) /\ <<AddTree(new)>> \in Seq(Events)
      /\ ToSet(<<AddTx(new)>>) = {AddTx(new)} /\ ToSet(<<AddTree(new)>>) = {AddTree(new)}
  BY EventTypes, ToSetShort
<1>10. /\ <<AddTx(new)>> \o Concat(seqs) \in Seq(Events)
       /\ ToSet(<<AddTx(new)>> \o Concat(seqs)) = {AddTx(new)} \cup {e(t) : t \in fresh}
  BY <1>7, <1>8, <1>9, EventsJoined, Zenon
<1> DEFINE front == <<AddTx(new)>> \o Concat(seqs)
<1>11. /\ front \in Seq(Events)
       /\ ToSet(front) = {AddTx(new)} \cup {e(t) : t \in fresh}
       /\ AddEvents(replaced, new) = front \o <<AddTree(new)>>
  BY <1>4, <1>10
<1> HIDE DEF front
<1> QED
  BY <1>11 DEF e, fresh

LEMMA AddEventsAre ==
  ASSUME Sound, NEW replaced \in SUBSET Tx, NEW new \in Tx
  PROVE  LET fresh == Unreplaced(replaced)
         IN /\ AddEvents(replaced, new) \in Seq(Events)
            /\ ToSet(AddEvents(replaced, new)) =
                 {AddTx(new), AddTree(new)} \cup
                 {IF t \in DOMAIN treeMap THEN Gone("tree", treeMap[t]) ELSE AddTx(t) : t \in fresh}
<1> DEFINE fresh == Unreplaced(replaced)
           old == {IF t \in DOMAIN treeMap THEN Gone("tree", treeMap[t]) ELSE AddTx(t) : t \in fresh}
<1>1. PICK front \in Seq(Events) : /\ ToSet(front) = {AddTx(new)} \cup old
                                   /\ AddEvents(replaced, new) = front \o <<AddTree(new)>>
  BY AddEventsSplit
<1>2. <<AddTree(new)>> \in Seq(Events) /\ ToSet(<<AddTree(new)>>) = {AddTree(new)}
  BY EventTypes, ToSetShort
<1> HIDE DEF old
<1>3. /\ AddEvents(replaced, new) \in Seq(Events)
      /\ ToSet(AddEvents(replaced, new)) = {AddTx(new)} \cup old \cup {AddTree(new)}
  BY <1>1, <1>2, EventsJoined, Zenon
<1> QED
  BY <1>3 DEF old

\* A step of a process without faults that changes memory and queues events for it.
LEMMA QueueStep ==
  ASSUME WellKept, Intact', (rbfTrees = [r \in DOMAIN rbfTrees |-> rbfTrees[r]])',
         saved' = saved, phase' = phase, UNCHANGED client,
         NEW p \in Seq(Events), cacheQueue' = cacheQueue \o p,
         \A e \in ToSet(p) : Meant(e)',
         \A type \in Types, t \in Tx : Unmoved(type, t) \/ \E e \in ToSet(p) : About(e, type, t)
  PROVE  WellKept'
<1>1. PICK c : c = cacheQueue \o p
  OBVIOUS
<1>2. c \in Seq(Events) /\ CaughtUp' /\ cacheQueue' = c
  BY <1>1, QueueCaughtUp DEF WellKept
<1>3. IsSnapshot(saved') /\ (saved.trees = [r \in DOMAIN saved.trees |-> saved.trees[r]])'
  BY DEF WellKept
<1> QED
  BY <1>2, <1>3 DEF WellKept, client, offline

LEMMA AddMirrored ==
  ASSUME WellKept, NEW replaced \in SUBSET Tx, NEW new \in Tx, new \notin replaced,
         Call(Add(replaced, new), AddEvents(replaced, new))
  PROVE  WellKept'
<1> DEFINE fresh  == Unreplaced(replaced)
           leaves == fresh \ DOMAIN treeMap
           ids    == {treeMap[t] : t \in fresh \ leaves}
           joined == ids \cap DOMAIN rbfTrees
           p      == AddEvents(replaced, new)
<1>0. Intact
  BY DEF WellKept
<1>1. /\ new \notin txs
      /\ DOMAIN rbfTrees' = {new} \cup (DOMAIN rbfTrees \ ids)
      /\ rbfTrees' = [r \in DOMAIN rbfTrees' |-> rbfTrees'[r]]
      /\ \A r \in DOMAIN rbfTrees \ ids : r # new => rbfTrees'[r] = rbfTrees[r]
      /\ txs' = txs \cup leaves \cup {new}
      /\ expiring' = expiring
      /\ Add(replaced, new)
  BY DEF Call, Serving, Add, Unseen
<1>2. saved' = saved /\ phase' = phase /\ cacheQueue' = cacheQueue \o p /\ UNCHANGED client
  BY DEF Call, Serving, Queue
<1>3. Intact'
  BY <1>0, <1>1, AddIntact
<1>4. \A r \in DOMAIN rbfTrees : r \in txs
  BY <1>0, RootsAreSelfMapped DEF Intact
<1>5. \A t \in fresh : t \in DOMAIN treeMap => treeMap[t] \in ids /\ treeMap[t] \in txs
  <2>1. \A t \in DOMAIN treeMap : treeMap[t] \in txs
    BY <1>0, RootsAreSelfMapped DEF Intact, Indexed, Sound
  <2> QED
    BY <2>1
<1>6. \A i \in ids : \E t \in fresh : t \in DOMAIN treeMap /\ i = treeMap[t]
  OBVIOUS
<1> DEFINE E(t) == IF t \in DOMAIN treeMap THEN Gone("tree", treeMap[t]) ELSE AddTx(t)
<1>7. p \in Seq(Events) /\ ToSet(p) = {AddTx(new), AddTree(new)} \cup {E(t) : t \in fresh}
  BY <1>0, AddEventsAre DEF Intact
<1>8. \A e : e \in ToSet(p) <=> e = AddTx(new) \/ e = AddTree(new) \/ \E t \in fresh : e = E(t)
  BY <1>7
<1>9. \A t \in fresh : /\ t \in DOMAIN treeMap => E(t) = Gone("tree", treeMap[t])
                       /\ t \notin DOMAIN treeMap => E(t) = AddTx(t) /\ t \in leaves
  OBVIOUS
<1>10. \A t \in leaves : t \in fresh /\ t \notin DOMAIN treeMap
  OBVIOUS
<1> HIDE DEF E, p, fresh, leaves, ids
<1>11. \A t \in Tx : /\ t \in txs' => Meant(AddTx(t))'
                     /\ t \in DOMAIN rbfTrees' => Meant(AddTree(t))'
  BY EventMeanings DEF Meant, AddTx, AddTree, Event
<1>12. \A t : t \notin DOMAIN rbfTrees' => Meant(Gone("tree", t))'
  BY DEF Meant, Gone, Event
<1>13. \A e \in ToSet(p) : Meant(e)'
  <2> TAKE e \in ToSet(p)
  <2>1. CASE e = AddTx(new)
    BY <1>1, <1>11, <2>1
  <2>2. CASE e = AddTree(new)
    BY <1>1, <1>11, <2>2
  <2>3. ASSUME NEW t \in fresh, e = E(t) PROVE Meant(e)'
    <3>1. CASE t \in DOMAIN treeMap
      <4>1. treeMap[t] \notin DOMAIN rbfTrees'
        BY <1>1, <1>5, <3>1
      <4> QED
        BY <1>9, <1>12, <2>3, <3>1, <4>1
    <3>2. CASE t \notin DOMAIN treeMap
      <4>1. t \in txs' /\ t \in Tx
        BY <1>1, <1>3, <1>9, <3>2 DEF Intact, MemoryOK, Sound
      <4> QED
        BY <1>9, <1>11, <2>3, <3>2, <4>1
    <3> QED
      BY <3>1, <3>2
  <2> QED
    BY <1>8, <2>1, <2>2, <2>3
<1>14. ASSUME NEW type \in Types, NEW t \in Tx
       PROVE  Unmoved(type, t) \/ \E e \in ToSet(p) : About(e, type, t)
  <2>1. CASE type = "tx"
    <3>1. CASE t = new
      BY <1>8, <2>1, <3>1, EventMeanings
    <3>2. CASE t \in leaves
      BY <1>8, <1>9, <1>10, <2>1, <3>2, EventMeanings
    <3>3. CASE t # new /\ t \notin leaves
      BY <1>1, <2>1, <3>3 DEF Unmoved
    <3> QED
      BY <3>1, <3>2, <3>3
  <2>2. CASE type = "tree"
    <3>1. CASE t = new
      BY <1>8, <2>2, <3>1, EventMeanings
    <3>2. CASE t \in ids
      BY <1>6, <1>8, <1>9, <2>2, <3>2, EventMeanings
    <3>3. CASE t # new /\ t \notin ids
      BY <1>1, <2>2, <3>3 DEF Unmoved
    <3> QED
      BY <3>1, <3>2, <3>3
  <2>3. CASE type = "exp"
    BY <1>1, <2>3 DEF Unmoved
  <2> QED
    BY <2>1, <2>2, <2>3 DEF Types
<1> QED
  BY <1>1, <1>2, <1>3, <1>7, <1>13, <1>14, QueueStep

\* Flagging transactions queues an event for every expiration that is new.
LEMMA FlagsQueued ==
  ASSUME MemoryOK, NEW S, expiring' = Evicted(S), NEW t \in Tx
  PROVE  /\ \A e \in ToSet(EvictEvents(S)) : Meant(e)'
         /\ Unmoved("exp", t) \/ \E e \in ToSet(EvictEvents(S)) : About(e, "exp", t)
<1> DEFINE T == (S \cap txs) \ DOMAIN expiring
<1>1. ToSet(EvictEvents(S)) = {AddExp(x, ExpiryTicks) : x \in T}
  BY EvictEventsAre
<1>2. /\ DOMAIN expiring' = DOMAIN expiring \cup T
      /\ \A x \in T : expiring'[x] = ExpiryTicks
      /\ \A x \in DOMAIN expiring : expiring'[x] = expiring[x]
  BY DEF Evicted
<1> HIDE DEF T
<1>3. ASSUME NEW x \in T PROVE Meant(AddExp(x, ExpiryTicks))'
  BY <1>2 DEF Meant, AddExp, Event
<1>4. t \in T => About(AddExp(t, ExpiryTicks), "exp", t)
  BY EventMeanings
<1>5. t \notin T => Unmoved("exp", t)
  BY <1>2 DEF Unmoved
<1> QED
  BY <1>1, <1>3, <1>4, <1>5

LEMMA EvictMirrored ==
  ASSUME WellKept, NEW t \in Tx, Call(Evict(t), EvictEvents({t}))
  PROVE  WellKept'
<1>0. Intact /\ MemoryOK
  BY DEF WellKept, Intact, Sound
<1>1. /\ maps' = maps /\ rbfTrees' = rbfTrees /\ dirtyTrees' = dirtyTrees /\ txs' = txs
      /\ expiring' = Evicted({t})
  BY DEF Call, Serving, Evict
<1>2. /\ saved' = saved /\ phase' = phase /\ UNCHANGED client
      /\ cacheQueue' = cacheQueue \o EvictEvents({t})
  BY DEF Call, Serving, Queue
<1>3. Intact'
  <2>1. MemoryOK'
    BY <1>0, <1>1, EvictedType DEF MemoryOK, maps
  <2> QED
    BY <1>0, <1>1, <2>1, SameNestingIntact
<1>4. EvictEvents({t}) \in Seq(Events)
  BY <1>0, EvictEventsAre
<1>5. \A e \in ToSet(EvictEvents({t})) : Meant(e)'
  BY <1>0, <1>1, FlagsQueued
<1>6. ASSUME NEW type \in Types, NEW x \in Tx
      PROVE  Unmoved(type, x) \/ \E e \in ToSet(EvictEvents({t})) : About(e, type, x)
  <2>1. CASE type = "exp"
    BY <1>0, <1>1, <2>1, FlagsQueued
  <2>2. CASE type # "exp"
    BY <1>1, <2>2 DEF Unmoved
  <2> QED
    BY <2>1, <2>2
<1>7. (rbfTrees = [r \in DOMAIN rbfTrees |-> rbfTrees[r]])'
  BY <1>1 DEF WellKept
<1> QED
  BY <1>2, <1>3, <1>4, <1>5, <1>6, <1>7, QueueStep

LEMMA MinedMirrored ==
  ASSUME WellKept, NEW t \in Tx, Call(Mined(t), MinedEvents(t))
  PROVE  WellKept'
<1> DEFINE front == IF HasTree(t) THEN <<AddTree(treeMap[t])>> ELSE <<>>
           p == MinedEvents(t)
<1>0. Intact /\ MemoryOK
  BY DEF WellKept, Intact, Sound
<1>1. /\ maps' = maps /\ txs' = txs /\ rbfTrees' = WithMined({t})
      /\ expiring' = Evicted({t})
      /\ dirtyTrees' \subseteq dirtyTrees \cup DOMAIN rbfTrees
  BY DEF Call, Serving, Mined
<1>2. saved' = saved /\ phase' = phase /\ cacheQueue' = cacheQueue \o p /\ UNCHANGED client
  BY DEF Call, Serving, Queue
<1>3. Intact'
  <2>1. MemoryOK'
    BY <1>0, <1>1, EvictedType, MarkedForest DEF MemoryOK, maps, IsForest
  <2> QED
    BY <1>0, <1>1, <2>1, MarkedForest, SameNestingIntact
<1>4. HasTree(t) => treeMap[t] \in Tx
  BY <1>0 DEF HasTree, MemoryOK, IsMap
<1>5. front \in Seq(Events)
  BY <1>4, EventTypes
<1>6. \A e : e \in ToSet(front) <=> HasTree(t) /\ e = AddTree(treeMap[t])
  BY ToSetShort
<1>7. EvictEvents({t}) \in Seq(Events)
  BY <1>0, EvictEventsAre
<1>8. p = front \o EvictEvents({t})
  BY DEF MinedEvents
<1> HIDE DEF front, p
<1>9. p \in Seq(Events) /\ ToSet(p) = ToSet(front) \cup ToSet(EvictEvents({t}))
  BY <1>5, <1>7, <1>8, EventsJoined, Zenon
<1>10. /\ DOMAIN rbfTrees' = DOMAIN rbfTrees
       /\ rbfTrees' = [r \in DOMAIN rbfTrees' |-> rbfTrees'[r]]
       /\ \A r \in DOMAIN rbfTrees : ~(HasTree(t) /\ treeMap[t] = r) => rbfTrees'[r] = rbfTrees[r]
  BY <1>1 DEF WithMined
<1>11. ASSUME NEW e \in ToSet(p) PROVE Meant(e)'
  <2>1. CASE HasTree(t) /\ e = AddTree(treeMap[t])
    <3>1. treeMap[t] \in DOMAIN rbfTrees'
      BY <1>10, <2>1 DEF HasTree
    <3>2. \A x \in DOMAIN rbfTrees' : Meant(AddTree(x))'
      BY DEF Meant, AddTree, Event
    <3> QED
      BY <2>1, <3>1, <3>2
  <2>2. CASE e \in ToSet(EvictEvents({t}))
    BY <1>0, <1>1, <2>2, FlagsQueued
  <2> QED
    BY <1>6, <1>9, <2>1, <2>2
<1>12. ASSUME NEW type \in Types, NEW x \in Tx
       PROVE  Unmoved(type, x) \/ \E e \in ToSet(p) : About(e, type, x)
  <2>1. CASE type = "exp"
    <3>1. Unmoved("exp", x) \/ \E e \in ToSet(EvictEvents({t})) : About(e, "exp", x)
      BY <1>0, <1>1, FlagsQueued
    <3> QED
      BY <1>9, <2>1, <3>1
  <2>2. CASE type = "tx"
    BY <1>1, <2>2 DEF Unmoved
  <2>3. CASE type = "tree"
    <3>1. CASE HasTree(t) /\ treeMap[t] = x
      <4>1. AddTree(x) \in ToSet(p) /\ About(AddTree(x), "tree", x)
        BY <1>6, <1>9, <3>1, EventMeanings
      <4> QED
        BY <2>3, <4>1
    <3>2. CASE ~(HasTree(t) /\ treeMap[t] = x)
      BY <1>10, <2>3, <3>2 DEF Unmoved
    <3> QED
      BY <3>1, <3>2
  <2> QED
    BY <2>1, <2>2, <2>3 DEF Types
<1> QED
  BY <1>2, <1>3, <1>9, <1>10, <1>11, <1>12, QueueStep

LEMMA TimerMirrored ==
  ASSUME WellKept, Timer
  PROVE  WellKept'
<1> DEFINE due  == {t \in DOMAIN expiring : expiring[t] = 0}
           gone == Below(replaces, Removable(due))
           ids  == {t \in gone \cap DOMAIN treeMap : treeMap[t] = t}
           p    == CleanupEvents(expiring)
<1>0. Intact /\ MemoryOK
  BY DEF WellKept, Intact, Sound
<1>1. /\ txs' = txs \ gone
      /\ expiring' = [t \in DOMAIN expiring \ (due \cup gone) |-> expiring[t]]
      /\ rbfTrees' = [r \in DOMAIN rbfTrees \ ids |-> rbfTrees[r]]
      /\ Cleanup(expiring, rbfTrees)
  BY DEF Timer, CleanupTimer, Cleanup
<1>2. saved' = saved /\ phase' = phase /\ cacheQueue' = cacheQueue \o p /\ UNCHANGED client
  BY DEF Timer, CleanupTimer, Queue
<1>3. Intact'
  BY <1>0, <1>1, CleanupIntact DEF MemoryOK
<1>4. /\ p \in Seq(Events)
      /\ ToSet(p) = {Gone("exp", t) : t \in due} \cup UNION {ToSet(Removal(x)) : x \in gone}
  <2>1. DOMAIN expiring \subseteq Tx
    BY <1>0 DEF MemoryOK, IsMap
  <2> QED
    BY <1>0, <2>1, CleanupEventsAre DEF Intact
<1>5. gone \subseteq Tx
  <2>1. \A q \in DOMAIN replaces : replaces[q] \subseteq Tx
    BY <1>0 DEF MemoryOK, IsMap
  <2> QED
    BY <2>1, BelowClosed
<1>6. \A x : x \in ids <=> x \in gone /\ x \in DOMAIN treeMap /\ treeMap[x] = x
  OBVIOUS
<1> HIDE DEF due, gone, ids, p
<1>7. ASSUME NEW e
      PROVE  e \in ToSet(p) <=>
               \/ \E t \in due \cup gone : e = Gone("exp", t)
               \/ \E x \in gone : e = Gone("tx", x)
               \/ \E x \in ids : e = Gone("tree", x)
  <2>1. \A x \in gone : e \in ToSet(Removal(x)) <=>
          e = Gone("tx", x) \/ e = Gone("exp", x) \/ (x \in ids /\ e = Gone("tree", x))
    BY <1>5, <1>6, RemovalIs
  <2>2. e \in ToSet(p) <=>
          (\E t \in due : e = Gone("exp", t)) \/ (\E x \in gone : e \in ToSet(Removal(x)))
    BY <1>4
  <2>3. \A x \in ids : x \in gone
    BY <1>6
  <2> QED
    BY <2>1, <2>2, <2>3
<1>8. /\ DOMAIN expiring' = DOMAIN expiring \ (due \cup gone)
      /\ \A t \in DOMAIN expiring' : expiring'[t] = expiring[t]
      /\ DOMAIN rbfTrees' = DOMAIN rbfTrees \ ids
      /\ \A r \in DOMAIN rbfTrees' : rbfTrees'[r] = rbfTrees[r]
      /\ rbfTrees' = [r \in DOMAIN rbfTrees' |-> rbfTrees'[r]]
  BY <1>1
<1>9. /\ \A x : x \notin txs' => Meant(Gone("tx", x))'
      /\ \A x : x \notin DOMAIN expiring' => Meant(Gone("exp", x))'
      /\ \A x : x \notin DOMAIN rbfTrees' => Meant(Gone("tree", x))'
  BY DEF Meant, Gone, Event
<1>10. ASSUME NEW e \in ToSet(p) PROVE Meant(e)'
  <2>1. CASE \E t \in due \cup gone : e = Gone("exp", t)
    BY <1>8, <1>9, <2>1
  <2>2. CASE \E x \in gone : e = Gone("tx", x)
    BY <1>1, <1>9, <2>2
  <2>3. CASE \E x \in ids : e = Gone("tree", x)
    BY <1>8, <1>9, <2>3
  <2> QED
    BY <1>7, <2>1, <2>2, <2>3
<1>11. ASSUME NEW type \in Types, NEW x \in Tx
       PROVE  Unmoved(type, x) \/ \E e \in ToSet(p) : About(e, type, x)
  <2>1. CASE type = "exp"
    <3>1. CASE x \in due \cup gone
      <4>1. Gone("exp", x) \in ToSet(p)
        BY <1>7, <3>1
      <4> QED
        BY <2>1, <4>1, EventMeanings
    <3>2. CASE x \notin due \cup gone
      BY <1>8, <2>1, <3>2 DEF Unmoved
    <3> QED
      BY <3>1, <3>2
  <2>2. CASE type = "tx"
    <3>1. CASE x \in gone
      <4>1. Gone("tx", x) \in ToSet(p)
        BY <1>7, <3>1
      <4> QED
        BY <2>2, <4>1, EventMeanings
    <3>2. CASE x \notin gone
      BY <1>1, <2>2, <3>2 DEF Unmoved
    <3> QED
      BY <3>1, <3>2
  <2>3. CASE type = "tree"
    <3>1. CASE x \in ids
      <4>1. Gone("tree", x) \in ToSet(p)
        BY <1>7, <3>1
      <4> QED
        BY <2>3, <4>1, EventMeanings
    <3>2. CASE x \notin ids
      BY <1>8, <2>3, <3>2 DEF Unmoved
    <3> QED
      BY <3>1, <3>2
  <2> QED
    BY <2>1, <2>2, <2>3 DEF Types
<1> QED
  BY <1>2, <1>3, <1>4, <1>8, <1>10, <1>11, QueueStep

LEMMA CurrentIs ==
  ASSUME NEW e \in Events
  PROVE  /\ Current(e).type = e.type /\ Current(e).txid = e.txid
         /\ Current(e).value = IF e.type = "tree" THEN rbfTrees[e.txid] ELSE e.value
<1>1. CASE e.type = "tree"
  <2> DEFINE c == [op |-> "add", type |-> "tree", txid |-> e.txid, value |-> rbfTrees[e.txid]]
  <2>1. Current(e) = c
    BY <1>1 DEF Current, Event
  <2>2. c.type = e.type /\ c.txid = e.txid /\ c.value = rbfTrees[e.txid]
    BY <1>1
  <2> QED
    BY <1>1, <2>1, <2>2
<1>2. CASE e.type # "tree"
  BY <1>2 DEF Current
<1> QED
  BY <1>1, <1>2

\* What the store is once an event has been replayed into it.
Stored(e) == IF e.op = "add" THEN (IF Vanished(e) THEN saved ELSE Put(Current(e))) ELSE Drop(e)

LEMMA StoredIs ==
  ASSUME IsSnapshot(saved), NEW e \in Events, saved' = Stored(e)
  PROVE  /\ saved' = [txs |-> saved'.txs, trees |-> saved'.trees, expiring |-> saved'.expiring]
         /\ saved'.txs = IF e.type # "tx" THEN saved.txs
                         ELSE IF e.op # "add" THEN saved.txs \ {e.txid}
                         ELSE IF e.txid \in txs THEN saved.txs \cup {e.txid} ELSE saved.txs
         /\ saved'.trees = IF e.type # "tree" THEN saved.trees
                           ELSE IF e.op # "add" THEN Without(saved.trees, e.txid)
                           ELSE IF e.txid \in DOMAIN rbfTrees
                                THEN With(saved.trees, e.txid, rbfTrees[e.txid]) ELSE saved.trees
         /\ saved'.expiring = IF e.type # "exp" THEN saved.expiring
                              ELSE IF e.op = "add" THEN With(saved.expiring, e.txid, e.value)
                              ELSE Without(saved.expiring, e.txid)
<1>1. saved = [txs |-> saved.txs, trees |-> saved.trees, expiring |-> saved.expiring]
  BY DEF IsSnapshot
<1>2. e.type \in {"tx", "tree", "exp"} /\ e.op \in {"add", "remove"}
  BY DEF Events, Types
<1>3. CASE e.op = "add" /\ Vanished(e)
  <2>1. saved' = saved
    BY <1>3 DEF Stored
  <2>2. \/ e.type = "tx" /\ e.txid \notin txs
        \/ e.type = "tree" /\ e.txid \notin DOMAIN rbfTrees
    BY <1>3 DEF Vanished
  <2> QED
    BY <1>1, <1>3, <2>1, <2>2
<1>4. CASE e.op = "add" /\ ~ Vanished(e)
  <2>1. saved' = Put(Current(e))
    BY <1>4 DEF Stored
  <2>2. /\ e.type = "tx" => e.txid \in txs
        /\ e.type = "tree" => e.txid \in DOMAIN rbfTrees
    BY <1>4 DEF Vanished
  <2>3. saved' = [txs |-> IF e.type = "tx" THEN saved.txs \cup {e.txid} ELSE saved.txs,
                  trees |-> IF e.type = "tree" THEN With(saved.trees, e.txid, rbfTrees[e.txid])
                            ELSE saved.trees,
                  expiring |-> IF e.type = "exp" THEN With(saved.expiring, e.txid, e.value)
                               ELSE saved.expiring]
    BY <1>2, <2>1, CurrentIs DEF Put
  <2> QED
    BY <1>2, <1>4, <2>2, <2>3
<1>5. CASE e.op # "add"
  <2>1. saved' = Drop(e)
    BY <1>5 DEF Stored
  <2>2. saved' = [txs |-> IF e.type = "tx" THEN saved.txs \ {e.txid} ELSE saved.txs,
                  trees |-> IF e.type = "tree" THEN Without(saved.trees, e.txid) ELSE saved.trees,
                  expiring |-> IF e.type = "exp" THEN Without(saved.expiring, e.txid)
                               ELSE saved.expiring]
    BY <2>1 DEF Drop
  <2> QED
    BY <1>5, <2>2
<1> QED
  BY <1>3, <1>4, <1>5

\* Replaying an event keeps the store well formed.
LEMMA StoredWell ==
  ASSUME MemoryOK, IsSnapshot(saved), NEW e \in Events, saved' = Stored(e)
  PROVE  /\ IsSnapshot(saved')
         /\ saved.trees = [r \in DOMAIN saved.trees |-> saved.trees[r]] =>
              saved'.trees = [r \in DOMAIN saved'.trees |-> saved'.trees[r]]
<1>1. /\ e.type \in {"tx", "tree", "exp"} /\ e.op \in {"add", "remove"}
      /\ e.txid \in Tx /\ e.value \in 0..ExpiryTicks
  BY DEF Events, Types
<1>2. /\ saved.txs \subseteq Tx /\ IsForest(saved.trees) /\ IsMap(saved.expiring, 0..ExpiryTicks)
      /\ IsForest(rbfTrees)
  BY DEF IsSnapshot, MemoryOK
<1>3. saved'.txs \subseteq Tx
  BY <1>1, <1>2, StoredIs
<1>4. /\ IsForest(saved'.trees)
      /\ saved.trees = [r \in DOMAIN saved.trees |-> saved.trees[r]] =>
           saved'.trees = [r \in DOMAIN saved'.trees |-> saved'.trees[r]]
  <2>1. CASE saved'.trees = saved.trees
    BY <1>2, <2>1
  <2>2. CASE saved'.trees = Without(saved.trees, e.txid)
    BY <1>2, <2>2 DEF IsForest, Without
  <2>3. CASE e.txid \in DOMAIN rbfTrees /\ saved'.trees = With(saved.trees, e.txid, rbfTrees[e.txid])
    <3> DEFINE new == With(saved.trees, e.txid, rbfTrees[e.txid])
    <3>1. /\ DOMAIN new = DOMAIN saved.trees \cup {e.txid}
          /\ new[e.txid] = rbfTrees[e.txid]
          /\ \A x \in DOMAIN saved.trees : x # e.txid => new[x] = saved.trees[x]
          /\ new = [x \in DOMAIN new |-> new[x]]
      BY DEF With
    <3> HIDE DEF new
    <3>2. IsForest(new)
      BY <1>1, <1>2, <2>3, <3>1 DEF IsForest
    <3> QED
      BY <2>3, <3>1, <3>2 DEF new
  <2> QED
    BY <1>1, <2>1, <2>2, <2>3, StoredIs
<1>5. IsMap(saved'.expiring, 0..ExpiryTicks)
  <2>1. CASE saved'.expiring = saved.expiring
    BY <1>2, <2>1
  <2>2. CASE saved'.expiring = Without(saved.expiring, e.txid)
    BY <1>2, <2>2 DEF IsMap, Without
  <2>3. CASE saved'.expiring = With(saved.expiring, e.txid, e.value)
    BY <1>1, <1>2, <2>3 DEF IsMap, With
  <2> QED
    BY <1>1, <2>1, <2>2, <2>3, StoredIs
<1> QED
  BY <1>3, <1>4, <1>5, StoredIs DEF IsSnapshot

\* A meant event leaves its key as memory has it; no event touches another key.
LEMMA StoredMeant ==
  ASSUME WellKept, UNCHANGED memory, NEW e \in Events, saved' = Stored(e)
  PROVE  /\ Meant(e) => InStep(e.type, e.txid)'
         /\ \A type \in Types, t \in Tx :
              ~ About(e, type, t) /\ InStep(type, t) => InStep(type, t)'
<1>1. e.type \in {"tx", "tree", "exp"} /\ e.op \in {"add", "remove"}
  BY DEF Events, Types
<1>2. txs' = txs /\ rbfTrees' = rbfTrees /\ expiring' = expiring
  BY DEF memory
<1>3. PICK x : x = e.txid
  OBVIOUS
<1>4. CASE e.type = "tx"
  <2>1. /\ saved'.trees = saved.trees /\ saved'.expiring = saved.expiring
        /\ saved'.txs = IF e.op # "add" THEN saved.txs \ {x}
                        ELSE IF x \in txs THEN saved.txs \cup {x} ELSE saved.txs
    BY <1>3, <1>4, StoredIs DEF WellKept
  <2>2. Meant(e) => InStep("tx", x)'
    BY <1>1, <1>2, <1>3, <1>4, <2>1 DEF Meant, InStep
  <2>3. ASSUME NEW type \in Types, NEW t \in Tx, ~ About(e, type, t), InStep(type, t)
        PROVE  InStep(type, t)'
    <3>1. type = "tx" => t # x
      BY <1>3, <1>4, <2>3 DEF About
    <3> QED
      BY <1>2, <2>1, <2>3, <3>1 DEF InStep
  <2> QED
    BY <1>3, <1>4, <2>2, <2>3
<1>5. CASE e.type = "tree"
  <2>1. /\ saved'.txs = saved.txs /\ saved'.expiring = saved.expiring
        /\ saved'.trees = IF e.op # "add" THEN Without(saved.trees, x)
                          ELSE IF x \in DOMAIN rbfTrees THEN With(saved.trees, x, rbfTrees[x])
                          ELSE saved.trees
    BY <1>3, <1>5, StoredIs DEF WellKept
  <2>2. Meant(e) => InStep("tree", x)'
    BY <1>1, <1>2, <1>3, <1>5, <2>1 DEF Meant, InStep, With, Without
  <2>3. ASSUME NEW type \in Types, NEW t \in Tx, ~ About(e, type, t), InStep(type, t)
        PROVE  InStep(type, t)'
    <3>1. CASE type = "tree"
      <4>1. t # x
        BY <1>3, <1>5, <2>3, <3>1 DEF About
      <4>2. /\ t \in DOMAIN saved'.trees <=> t \in DOMAIN saved.trees
            /\ t \in DOMAIN saved.trees => saved'.trees[t] = saved.trees[t]
        BY <2>1, <4>1 DEF With, Without
      <4> QED
        BY <1>2, <2>3, <3>1, <4>2 DEF InStep
    <3>2. CASE type # "tree"
      BY <1>2, <2>1, <2>3, <3>2 DEF InStep
    <3> QED
      BY <3>1, <3>2
  <2> QED
    BY <1>3, <1>5, <2>2, <2>3
<1>6. CASE e.type = "exp"
  <2>1. /\ saved'.txs = saved.txs /\ saved'.trees = saved.trees
        /\ saved'.expiring = IF e.op = "add" THEN With(saved.expiring, x, e.value)
                             ELSE Without(saved.expiring, x)
    BY <1>3, <1>6, StoredIs DEF WellKept
  <2>2. Meant(e) => InStep("exp", x)'
    BY <1>1, <1>2, <1>3, <1>6, <2>1 DEF Meant, InStep, With, Without
  <2>3. ASSUME NEW type \in Types, NEW t \in Tx, ~ About(e, type, t), InStep(type, t)
        PROVE  InStep(type, t)'
    <3>1. CASE type = "exp"
      <4>1. t # x
        BY <1>3, <1>6, <2>3, <3>1 DEF About
      <4>2. /\ t \in DOMAIN saved'.expiring <=> t \in DOMAIN saved.expiring
            /\ t \in DOMAIN saved.expiring => saved'.expiring[t] = saved.expiring[t]
        BY <2>1, <4>1 DEF With, Without
      <4> QED
        BY <1>2, <2>3, <3>1, <4>2 DEF InStep
    <3>2. CASE type # "exp"
      BY <1>2, <2>1, <2>3, <3>2 DEF InStep
    <3> QED
      BY <3>1, <3>2
  <2> QED
    BY <1>3, <1>6, <2>2, <2>3
<1> QED
  BY <1>1, <1>4, <1>5, <1>6

\* Steps that leave memory alone keep it intact.
LEMMA SameMemory ==
  ASSUME Intact, UNCHANGED memory
  PROVE  Intact' /\ (rbfTrees = [r \in DOMAIN rbfTrees |-> rbfTrees[r]] =>
                      (rbfTrees = [r \in DOMAIN rbfTrees |-> rbfTrees[r]])')
<1>1. MemoryOK'
  BY DEF Intact, MemoryOK, memory, Sound
<1>2. Intact'
  BY <1>1, SameNestingIntact DEF memory, maps
<1> QED
  BY <1>2 DEF memory

LEMMA ReplayMirrored ==
  ASSUME WellKept, Replay, ~ Fail("lost")
  PROVE  WellKept'
<1>1. PICK e : e = Head(cacheQueue)
  OBVIOUS
<1>2. PICK c : c = Tail(cacheQueue)
  OBVIOUS
<1>3. /\ cacheQueue # <<>> /\ cacheQueue' = c /\ cacheQueue \in Seq(Events)
      /\ UNCHANGED <<memory, phase, connected, flushing>>
  BY <1>2 DEF Replay, WellKept
<1>4. e \in Events
  BY <1>1, <1>3
<1>5. saved' = Stored(e) /\ UNCHANGED offline
  <2>1. connected /\ ~ Lost
    BY DEF WellKept, Lost
  <2>2. \/ e.op = "add" /\ ~ Vanished(e) /\ SetRbfEntry(Current(e))
        \/ e.op = "add" /\ Vanished(e) /\ UNCHANGED <<saved, offline, failures>>
        \/ e.op = "remove" /\ RemoveRbfEntry(e)
    BY <1>1 DEF Replay
  <2> QED
    BY <2>1, <2>2 DEF SetRbfEntry, RemoveRbfEntry, Stored
<1>6. c \in Seq(Events) /\ CaughtUp'
  <2>1. /\ Meant(e) => InStep(e.type, e.txid)'
        /\ \A type \in Types, t \in Tx :
             ~ About(e, type, t) /\ InStep(type, t) => InStep(type, t)'
    BY <1>3, <1>4, <1>5, StoredMeant
  <2>2. CaughtUp
    BY DEF WellKept
  <2> QED
    BY <1>1, <1>2, <1>3, <2>1, <2>2, TailCaughtUp
<1>7. /\ IsSnapshot(saved')
      /\ (saved.trees = [r \in DOMAIN saved.trees |-> saved.trees[r]])'
  BY <1>4, <1>5, StoredWell DEF WellKept, Intact, Sound
<1>8. Intact' /\ (rbfTrees = [r \in DOMAIN rbfTrees |-> rbfTrees[r]])'
  BY <1>3, SameMemory DEF WellKept
<1> QED
  BY <1>3, <1>5, <1>6, <1>7, <1>8 DEF WellKept, offline

\* Beginning and ending an update leaves everything but the flag alone.
LEMMA IdleMirrored ==
  ASSUME WellKept, UNCHANGED <<memory, saved, phase, cacheQueue, client>>
  PROVE  WellKept'
<1>1. Intact' /\ (rbfTrees = [r \in DOMAIN rbfTrees |-> rbfTrees[r]])'
  BY SameMemory DEF WellKept
<1>2. CaughtUp'
  <2>1. \A type, t : InStep(type, t)' <=> InStep(type, t)
    BY DEF InStep, memory
  <2>2. \A e : Meant(e)' <=> Meant(e)
    BY DEF Meant, memory
  <2>3. PICK q : q = cacheQueue
    OBVIOUS
  <2>4. q = cacheQueue' /\ CaughtUp
    BY <2>3 DEF WellKept
  <2> QED
    BY <2>1, <2>2, <2>3, <2>4 DEF CaughtUp
<1> QED
  BY <1>1, <1>2 DEF WellKept, client, offline

\* Time brings the deadline of an event closer as it does that of the entry.
LEMMA AgedIs ==
  ASSUME NEW e \in Events
  PROVE  /\ Aged(e) \in Events
         /\ Aged(e).op = e.op /\ Aged(e).type = e.type /\ Aged(e).txid = e.txid
         /\ Aged(e).value = IF e.type = "exp" /\ e.value # 0 THEN e.value - 1 ELSE e.value
<1>1. e = [op |-> e.op, type |-> e.type, txid |-> e.txid, value |-> e.value]
  BY DEF Events
<1> DEFINE v == IF e.type = "exp" /\ e.value # 0 THEN e.value - 1 ELSE e.value
           c == [op |-> e.op, type |-> e.type, txid |-> e.txid, value |-> v]
<1>2. Aged(e) = c
  BY <1>1 DEF Aged, Event
<1>3. v \in 0..ExpiryTicks
  BY ExpiryAssumption DEF Events
<1> HIDE DEF v
<1>4. c.op = e.op /\ c.type = e.type /\ c.txid = e.txid /\ c.value = v /\ c \in Events
  BY <1>3 DEF Events
<1> QED
  BY <1>2, <1>4 DEF v

LEMMA TimeMirrored ==
  ASSUME WellKept, Time
  PROVE  WellKept'
<1>0. Intact /\ MemoryOK /\ IsSnapshot(saved)
  BY DEF WellKept, Intact, Sound
<1>1. /\ maps' = maps /\ rbfTrees' = rbfTrees /\ dirtyTrees' = dirtyTrees /\ txs' = txs
      /\ expiring' = Elapsed(expiring)
      /\ saved' = [saved EXCEPT !.expiring = Elapsed(@)]
      /\ phase' = phase
  BY DEF Time, Tick
<1>2. /\ rbfCacheQueue' = Older(rbfCacheQueue)
      /\ flushing' = [flushing EXCEPT !.todo = Older(@)]
      /\ connected' = connected /\ rbfRemoveQueue' = rbfRemoveQueue
  BY DEF Time
<1>3. Older(<<>>) = <<>>
  BY DEF Older
<1>4. /\ rbfCacheQueue' = <<>> /\ rbfRemoveQueue' = <<>> /\ connected'
      /\ flushing' = [step |-> "idle", todo |-> <<>>]
  BY <1>2, <1>3 DEF WellKept
<1>5. /\ saved' = [txs |-> saved.txs, trees |-> saved.trees, expiring |-> Elapsed(saved.expiring)]
      /\ saved'.txs = saved.txs /\ saved'.trees = saved.trees
      /\ saved'.expiring = Elapsed(saved.expiring)
  <2>1. saved = [txs |-> saved.txs, trees |-> saved.trees, expiring |-> saved.expiring]
    BY <1>0 DEF IsSnapshot
  <2> QED
    BY <1>1, <2>1
<1>6. IsSnapshot(saved')
  BY <1>0, <1>5, ElapsedType DEF IsSnapshot
<1>7. Intact'
  <2>1. MemoryOK'
    BY <1>0, <1>1, ElapsedType DEF MemoryOK, maps
  <2> QED
    BY <1>0, <1>1, <2>1, SameNestingIntact
<1>8. PICK q : q = cacheQueue
  OBVIOUS
<1>9. PICK c : c = Older(cacheQueue)
  OBVIOUS
<1>10. q \in Seq(Events) /\ cacheQueue' = c
  BY <1>8, <1>9 DEF WellKept, Time
<1>11. /\ DOMAIN c = DOMAIN q /\ c \in Seq(Events)
       /\ \A i \in DOMAIN q : q[i] \in Events /\ c[i] = Aged(q[i])
  <2>1. c = [i \in DOMAIN q |-> Aged(q[i])]
    BY <1>8, <1>9 DEF Older, Aged
  <2>2. \A i \in DOMAIN q : q[i] \in Events
    BY <1>10
  <2>3. \A i \in DOMAIN q : Aged(q[i]) \in Events
    BY <2>2, AgedIs
  <2>4. DOMAIN q = 1..Len(q) /\ Len(q) \in Nat
    BY <1>10
  <2> QED
    BY <2>1, <2>2, <2>3, <2>4
<1>12. \A i \in DOMAIN q : c[i].type = q[i].type /\ c[i].txid = q[i].txid
  BY <1>11, AgedIs
<1>13. ASSUME NEW e \in Events, Meant(e) PROVE \A d : d = Aged(e) => Meant(d)'
  <2> TAKE d
  <2> HAVE d = Aged(e)
  <2>1. /\ d.op = e.op /\ d.type = e.type /\ d.txid = e.txid
        /\ d.value = IF e.type = "exp" /\ e.value # 0 THEN e.value - 1 ELSE e.value
    BY AgedIs
  <2>2. /\ DOMAIN expiring' = DOMAIN expiring
        /\ \A t \in DOMAIN expiring :
             expiring'[t] = IF expiring[t] = 0 THEN 0 ELSE expiring[t] - 1
    BY <1>1 DEF Elapsed
  <2> QED
    BY <1>1, <1>13, <2>1, <2>2 DEF Meant
<1>14. ASSUME NEW type, NEW t, InStep(type, t) PROVE InStep(type, t)'
  <2>1. /\ DOMAIN expiring' = DOMAIN expiring
        /\ \A x \in DOMAIN expiring :
             expiring'[x] = IF expiring[x] = 0 THEN 0 ELSE expiring[x] - 1
        /\ DOMAIN saved'.expiring = DOMAIN saved.expiring
        /\ \A x \in DOMAIN saved.expiring :
             saved'.expiring[x] = IF saved.expiring[x] = 0 THEN 0 ELSE saved.expiring[x] - 1
    BY <1>1, <1>5 DEF Elapsed
  <2> QED
    BY <1>1, <1>5, <1>14, <2>1 DEF InStep
<1>15. CaughtUp'
  <2>1. CaughtUp
    BY DEF WellKept
  <2>2. ASSUME NEW type \in Types, NEW t \in Tx, \A i \in DOMAIN c : ~ About(c[i], type, t)
        PROVE  InStep(type, t)'
    <3>1. \A i \in DOMAIN q : ~ About(q[i], type, t)
      BY <1>11, <1>12, <2>2 DEF About
    <3>2. InStep(type, t)
      BY <1>8, <2>1, <3>1 DEF CaughtUp
    <3> QED
      BY <1>14, <3>2
  <2>3. ASSUME NEW i \in DOMAIN c,
               \A j \in DOMAIN c : j > i => ~ About(c[j], c[i].type, c[i].txid)
        PROVE  Meant(c[i])'
    <3>1. \A j \in DOMAIN q : j > i => ~ About(q[j], q[i].type, q[i].txid)
      BY <1>11, <1>12, <2>3 DEF About
    <3>2. Meant(q[i])
      BY <1>8, <1>11, <2>1, <3>1 DEF CaughtUp
    <3> QED
      BY <1>11, <1>13, <3>2
  <2> QED
    BY <1>10, <2>2, <2>3 DEF CaughtUp
<1>16. /\ (rbfTrees = [r \in DOMAIN rbfTrees |-> rbfTrees[r]])'
       /\ (saved.trees = [r \in DOMAIN saved.trees |-> saved.trees[r]])'
  BY <1>1, <1>5 DEF WellKept
<1> QED
  BY <1>1, <1>4, <1>6, <1>7, <1>10, <1>11, <1>15, <1>16 DEF WellKept

\* Only faults are counted.
LEMMA FaultSteps ==
  ASSUME RNext
  PROVE  failures' = failures \/ \E kind : Fail(kind)
<1>1. Operation => failures' = failures
  BY DEF Operation, Call, Queue, client
<1>2. Loading => failures' = failures \/ \E kind : Fail(kind)
  BY DEF Loading, Reload, ReloadAfter, Checking, Queue, client
<1>3. Timer \/ Time => failures' = failures
  BY DEF Timer, Time, Queue, client
<1>4. Update => failures' = failures \/ \E kind : Fail(kind)
  BY DEF Update, BeginUpdate, Replay, EndUpdate, SetRbfEntry, RemoveRbfEntry, Lost, client
<1>5. Client => failures' = failures \/ \E kind : Fail(kind)
  BY DEF Client, Disconnect, Reconnect, BeginFlush, Flush, SetRbfEntry, RemoveRbfEntry, Lost
<1> QED
  BY <1>1, <1>2, <1>3, <1>4, <1>5 DEF RNext

\* Faults are counted, and nothing else counts.
LEMMA FaultsCount ==
  ASSUME failures \in [Kinds -> Nat], RNext
  PROVE  failures' \in [Kinds -> Nat]
         /\ (NoFaults' => failures' = failures /\ \A kind : ~ Fail(kind))
<1>1. ASSUME NEW kind, Fail(kind)
      PROVE  failures' \in [Kinds -> Nat] /\ ~ NoFaults'
  <2>1. kind \in Kinds /\ failures' = [failures EXCEPT ![kind] = @ + 1]
    BY <1>1, FaultsAssumption DEF Fail
  <2>2. failures[kind] \in Nat /\ failures'[kind] = failures[kind] + 1
    BY <2>1
  <2>3. failures' \in [Kinds -> Nat]
    BY <2>1, <2>2
  <2> QED
    BY <2>1, <2>2, <2>3 DEF NoFaults
<1>2. failures' = failures \/ \E kind : Fail(kind)
  BY FaultSteps
<1> QED
  BY <1>1, <1>2

LEMMA MirrorStep == MirrorInv /\ [RNext]_rvars => MirrorInv'
<1> SUFFICES ASSUME MirrorInv, [RNext]_rvars PROVE MirrorInv'
  OBVIOUS
<1>1. CASE UNCHANGED rvars
  <2>1. UNCHANGED <<memory, saved, phase, cacheQueue, client>> /\ failures' = failures
    BY <1>1 DEF rvars, client
  <2>2. NoFaults' => NoFaults
    BY <2>1 DEF NoFaults
  <2> QED
    BY <2>1, <2>2, IdleMirrored DEF MirrorInv
<1>2. CASE RNext
  <2>1. failures' \in [Kinds -> Nat]
        /\ (NoFaults' => failures' = failures /\ \A kind : ~ Fail(kind))
    BY <1>2, FaultsCount DEF MirrorInv
  <2> SUFFICES ASSUME NoFaults' PROVE WellKept'
    BY <2>1 DEF MirrorInv
  <2>2. failures' = failures /\ (\A kind : ~ Fail(kind)) /\ NoFaults
    BY <2>1 DEF NoFaults
  <2>3. WellKept
    BY <2>2 DEF MirrorInv
  <2>4. phase = "running" /\ connected /\ flushing.step = "idle"
    BY <2>3 DEF WellKept
  <2>5. CASE Operation
    BY <2>3, <2>5, AddMirrored, EvictMirrored, MinedMirrored DEF Operation
  <2>6. ~ Loading
    BY <2>2, <2>4 DEF Loading, Reload, ReloadAfter, Checking, Connect, BeginCheck, FinishCheck
  <2>7. CASE Timer
    BY <2>3, <2>7, TimerMirrored
  <2>8. CASE Time
    BY <2>3, <2>8, TimeMirrored
  <2>9. CASE Update
    <3>1. CASE Replay
      BY <2>2, <2>3, <3>1, ReplayMirrored
    <3>2. CASE BeginUpdate \/ EndUpdate
      BY <2>3, <3>2, IdleMirrored DEF BeginUpdate, EndUpdate
    <3> QED
      BY <2>9, <3>1, <3>2 DEF Update
  <2>10. ~ Client
    BY <2>2, <2>4 DEF Client, Disconnect, Reconnect, BeginFlush, Flush
  <2> QED
    BY <1>2, <2>5, <2>6, <2>7, <2>8, <2>9, <2>10 DEF RNext
<1> QED
  BY <1>1, <1>2

LEMMA MirrorInit == RInit => MirrorInv
<1> SUFFICES ASSUME RInit PROVE MirrorInv
  OBVIOUS
<1>1. Init /\ Connected /\ cacheQueue = <<>> /\ failures = [kind \in Kinds |-> 0]
  BY DEF RInit
<1>2. Consistent
  BY <1>1, InitConsistent
<1>3. Intact /\ IsSnapshot(saved)
  BY <1>2 DEF Consistent, TypeOK
<1>4. /\ rbfTrees = [r \in DOMAIN rbfTrees |-> rbfTrees[r]]
      /\ saved.trees = [r \in DOMAIN saved.trees |-> saved.trees[r]]
  BY <1>1 DEF Init, Nothing
<1>5. CaughtUp
  <2>1. DOMAIN cacheQueue = {}
    BY <1>1
  <2>2. /\ txs = {} /\ saved.txs = {}
        /\ DOMAIN rbfTrees = {} /\ DOMAIN saved.trees = {}
        /\ DOMAIN expiring = {} /\ DOMAIN saved.expiring = {}
    BY <1>1 DEF Init, Nothing
  <2>3. \A type, t : InStep(type, t)
    BY <2>2 DEF InStep
  <2> QED
    BY <2>1, <2>3 DEF CaughtUp
<1>6. /\ phase = "running" /\ connected /\ cacheQueue \in Seq(Events)
      /\ rbfCacheQueue = <<>> /\ rbfRemoveQueue = <<>>
      /\ flushing = [step |-> "idle", todo |-> <<>>]
  BY <1>1 DEF Init, Connected
<1> QED
  BY <1>1, <1>3, <1>4, <1>5, <1>6 DEF MirrorInv, WellKept

\* While nothing has failed the store is what replaying the waiting events would make
\* exact, whatever the cleanup timer queues between two commands (rbf-cache.ts 373-397).
THEOREM MirrorInductive == RSpec => []MirrorInv
BY MirrorInit, MirrorStep, PTL DEF RSpec

LEMMA WellKeptMirrored ==
  ASSUME WellKept
  PROVE  Documented /\ (Replayed => saved = [txs |-> txs, trees |-> rbfTrees, expiring |-> expiring])
<1>1. Intact
  BY DEF WellKept
<1>2. Documented
  BY <1>1, SoundDocumented DEF Documented, Intact
<1>3. ASSUME Replayed PROVE saved = [txs |-> txs, trees |-> rbfTrees, expiring |-> expiring]
  <2>1. DOMAIN cacheQueue = {}
    BY <1>3 DEF Replayed
  <2>2. \A type \in Types, t \in Tx : InStep(type, t)
    BY <2>1 DEF WellKept, CaughtUp
  <2>3. /\ saved.txs \subseteq Tx /\ txs \subseteq Tx
        /\ DOMAIN saved.trees \subseteq Tx /\ DOMAIN rbfTrees \subseteq Tx
        /\ DOMAIN saved.expiring \subseteq Tx /\ DOMAIN expiring \subseteq Tx
    BY DEF WellKept, IsSnapshot, Intact, MemoryOK, IsForest, IsMap, Sound
  <2>4. saved.txs = txs
    <3>1. \A t \in Tx : InStep("tx", t)
      BY <2>2 DEF Types
    <3> QED
      BY <2>3, <3>1 DEF InStep
  <2>5. saved.trees = rbfTrees
    <3>1. \A t \in Tx : InStep("tree", t)
      BY <2>2 DEF Types
    <3>2. DOMAIN saved.trees = DOMAIN rbfTrees
          /\ \A r \in DOMAIN rbfTrees : saved.trees[r] = rbfTrees[r]
      BY <2>3, <3>1 DEF InStep
    <3>3. saved.trees = [r \in DOMAIN saved.trees |-> saved.trees[r]]
          /\ rbfTrees = [r \in DOMAIN rbfTrees |-> rbfTrees[r]]
      BY DEF WellKept
    <3> QED
      BY <3>2, <3>3
  <2>6. saved.expiring = expiring
    <3>1. \A t \in Tx : InStep("exp", t)
      BY <2>2 DEF Types
    <3>2. DOMAIN saved.expiring = DOMAIN expiring
          /\ \A t \in DOMAIN expiring : saved.expiring[t] = expiring[t]
      BY <2>3, <3>1 DEF InStep
    <3>3. saved.expiring = [t \in DOMAIN saved.expiring |-> saved.expiring[t]]
          /\ expiring = [t \in DOMAIN expiring |-> expiring[t]]
      BY DEF WellKept, IsSnapshot, Intact, MemoryOK, IsMap, Sound
    <3> QED
      BY <3>2, <3>3
  <2>7. saved = [txs |-> saved.txs, trees |-> saved.trees, expiring |-> saved.expiring]
    BY DEF WellKept, IsSnapshot
  <2> QED
    BY <2>4, <2>5, <2>6, <2>7
<1> QED
  BY <1>2, <1>3

\* Without faults the store equals memory whenever all events have been replayed, and the
\* tables keep the five documented invariants.
THEOREM MirroredHolds == RSpec => []Mirrored
<1>1. MirrorInv => Mirrored
  BY WellKeptMirrored DEF MirrorInv, Mirrored
<1> QED
  BY <1>1, MirrorInductive, PTL

-----------------------------------------------------------------------------
(* Any faults                                                              *)

\* The first steps of add() keep every transaction in one tree.
LEMMA AddPartition ==
  ASSUME Partition(rbfTrees, treeMap, txs),
         NEW replaced \in SUBSET Tx, NEW new \in Tx, Add(replaced, new)
  PROVE  Partition(rbfTrees, treeMap, txs)'
<1> DEFINE fresh  == Unreplaced(replaced)
           leaves == fresh \ DOMAIN treeMap
           ids    == {treeMap[t] : t \in fresh \ leaves}
           joined == ids \cap DOMAIN rbfTrees
           below  == Members(leaves, joined)
           kids   == [x \in below \cup {new} |->
                        CASE x = new -> leaves \cup joined
                          [] x # new /\ x \in leaves -> {}
                          [] OTHER -> rbfTrees[treeMap[x]].replaces[x]]
           tree   == [replaces |-> kids,
                      minedTxs |-> UNION {rbfTrees[r].minedTxs : r \in joined},
                      mined    |-> FALSE,
                      fullRbf  |-> FullRbf(leaves, joined)]
<1>1. /\ rbfTrees' = [r \in {new} \cup (DOMAIN rbfTrees \ ids) |->
                        IF r = new THEN tree ELSE rbfTrees[r]]
      /\ treeMap' = [x \in below \cup {new} \cup DOMAIN treeMap |->
                       IF x \in below \cup {new} THEN new ELSE treeMap[x]]
      /\ txs' = txs \cup leaves \cup {new}
      /\ new \notin txs
  BY DEF Add, Unseen
<1>2. /\ \A r \in DOMAIN rbfTrees : Whole(r, rbfTrees[r])
      /\ DOMAIN treeMap \subseteq txs
      /\ \A x \in DOMAIN treeMap : /\ treeMap[x] \in DOMAIN rbfTrees
                                   /\ x \in Nodes(rbfTrees[treeMap[x]])
      /\ \A r \in DOMAIN rbfTrees : \A x \in Nodes(rbfTrees[r]) :
           x \in DOMAIN treeMap /\ treeMap[x] = r
  BY DEF Partition, AllWhole
<1>3. leaves \subseteq Tx /\ leaves \cap DOMAIN treeMap = {}
  BY DEF Unreplaced
<1>4. \A x : x \in below <=> x \in leaves \/ \E r \in joined : x \in Nodes(rbfTrees[r])
  BY DEF Members
<1>5. joined = ids
  BY <1>2
<1>6. tree.replaces = kids /\ Nodes(tree) = below \cup {new}
  BY DEF Nodes
<1> HIDE DEF fresh, leaves, joined, below, tree
<1>7. \A x \in DOMAIN treeMap : x \in below <=> treeMap[x] \in joined
  BY <1>2, <1>3, <1>4 DEF joined
<1>8. new \notin DOMAIN treeMap /\ new \notin DOMAIN rbfTrees
  BY <1>1, <1>2 DEF Whole
<1>9. Whole(new, tree)
  <2>1. below \subseteq Tx
    BY <1>2, <1>3, <1>4 DEF Whole, joined
  <2>2. joined \subseteq below
    BY <1>2, <1>4 DEF Whole, joined
  <2>3. ASSUME NEW x \in below \cup {new} PROVE kids[x] \subseteq below \cup {new}
    <3>1. CASE x = new
      BY <1>4, <2>2, <3>1
    <3>2. CASE x # new /\ x \in leaves
      BY <3>2
    <3>3. CASE x # new /\ x \notin leaves
      <4>1. PICK r \in joined : x \in Nodes(rbfTrees[r])
        BY <1>4, <3>3
      <4>2. treeMap[x] = r /\ kids[x] = rbfTrees[r].replaces[x]
        BY <1>2, <3>3, <4>1 DEF joined
      <4>3. kids[x] \subseteq Nodes(rbfTrees[r])
        BY <1>2, <4>1, <4>2 DEF Whole, joined
      <4> QED
        BY <1>4, <4>1, <4>3
    <3> QED
      BY <3>1, <3>2, <3>3
  <2> QED
    BY <1>6, <2>1, <2>3 DEF Whole
<1> HIDE DEF kids, ids
<1>10. AllWhole(rbfTrees')
  BY <1>1, <1>2, <1>9 DEF AllWhole
<1>11. DOMAIN treeMap' \subseteq txs'
  <2>1. below \subseteq txs \cup leaves
    BY <1>2, <1>4 DEF joined
  <2> QED
    BY <1>1, <1>2, <2>1
<1>12. ASSUME NEW x \in DOMAIN treeMap'
       PROVE  treeMap'[x] \in DOMAIN rbfTrees' /\ x \in Nodes(rbfTrees'[treeMap'[x]])
  <2>1. CASE x \in below \cup {new}
    BY <1>1, <1>6, <2>1
  <2>2. CASE x \notin below \cup {new}
    <3>1. x \in DOMAIN treeMap /\ treeMap'[x] = treeMap[x] /\ treeMap[x] \notin ids
      BY <1>1, <1>5, <1>7, <2>2
    <3> QED
      BY <1>1, <1>2, <1>8, <3>1
  <2> QED
    BY <2>1, <2>2
<1>13. ASSUME NEW r \in DOMAIN rbfTrees', NEW x \in Nodes(rbfTrees'[r])
       PROVE  x \in DOMAIN treeMap' /\ treeMap'[x] = r
  <2>1. CASE r = new
    BY <1>1, <1>6, <1>13, <2>1
  <2>2. CASE r # new
    <3>1. r \in DOMAIN rbfTrees /\ r \notin ids /\ rbfTrees'[r] = rbfTrees[r]
      BY <1>1, <2>2
    <3>2. x \in DOMAIN treeMap /\ treeMap[x] = r
      BY <1>2, <1>13, <3>1
    <3>3. x \notin below /\ x # new
      BY <1>5, <1>7, <1>8, <3>1, <3>2
    <3> QED
      BY <1>1, <3>2, <3>3
  <2> QED
    BY <2>1, <2>2
<1> QED
  BY <1>10, <1>11, <1>12, <1>13 DEF Partition

\* Nothing that is not due is cleaned up.
LEMMA CleanupPartition ==
  ASSUME NEW exp, \A t \in DOMAIN exp : exp[t] # 0,
         NEW trees, Partition(trees, treeMap, txs), Cleanup(exp, trees)
  PROVE  Partition(rbfTrees, treeMap, txs)'
<1> DEFINE due  == {t \in DOMAIN exp : exp[t] = 0}
           gone == Below(replaces, Removable(due))
           ids  == {t \in gone \cap DOMAIN treeMap : treeMap[t] = t}
<1>1. /\ treeMap' = [t \in DOMAIN treeMap \ gone |-> treeMap[t]]
      /\ txs' = txs \ gone
      /\ rbfTrees' = [r \in DOMAIN trees \ ids |-> trees[r]]
  BY DEF Cleanup
<1>2. gone = {}
  <2>1. Removable(due) = {}
    BY DEF Removable
  <2>2. ClosedUnder(replaces, {})
    BY DEF ClosedUnder
  <2>3. Below(replaces, {}) \subseteq {}
    BY <2>2, BelowLeast
  <2> QED
    BY <2>1, <2>3
<1> HIDE DEF gone
<1>3. /\ DOMAIN treeMap' = DOMAIN treeMap /\ \A t \in DOMAIN treeMap : treeMap'[t] = treeMap[t]
      /\ DOMAIN rbfTrees' = DOMAIN trees /\ \A r \in DOMAIN trees : rbfTrees'[r] = trees[r]
      /\ txs' = txs
  BY <1>1, <1>2
<1> QED
  BY <1>3 DEF Partition, AllWhole

\* Marks change no nesting.
LEMMA MinedPartition ==
  ASSUME Partition(rbfTrees, treeMap, txs), NEW S
  PROVE  Partition(WithMined(S), treeMap, txs)
<1>1. ASSUME NEW r \in DOMAIN rbfTrees
      PROVE  WithMined(S)[r].replaces = rbfTrees[r].replaces
  BY DEF WithMined
<1>2. DOMAIN WithMined(S) = DOMAIN rbfTrees
  BY DEF WithMined
<1>3. /\ \A r \in DOMAIN rbfTrees : Nodes(WithMined(S)[r]) = Nodes(rbfTrees[r])
      /\ \A r \in DOMAIN rbfTrees : Whole(r, rbfTrees[r]) => Whole(r, WithMined(S)[r])
  BY <1>1 DEF Nodes, Whole
<1> QED
  BY <1>2, <1>3 DEF Partition, AllWhole

LEMMA IntactPartition ==
  ASSUME Intact
  PROVE  Partition(rbfTrees, treeMap, txs)
<1>1. \A r \in DOMAIN rbfTrees : Nodes(rbfTrees[r]) \subseteq Tx
  BY DEF Intact, MemoryOK, IsForest, IsTree, IsMap, Nodes, Sound
<1> QED
  BY <1>1 DEF Intact, Rooted, Indexed, Partition, AllWhole, Whole, Sound

\* The tables load() has built so far.
Tables(read, m) ==
  /\ m = [trees |-> m.trees, treeMap |-> m.treeMap, replaces |-> m.replaces,
          replacedBy |-> m.replacedBy, events |-> m.events]
  /\ Partition(m.trees, m.treeMap, read.txs)

\* importTree() only takes in transactions that have no tree yet.
LEMMA ImportPartition ==
  ASSUME NEW read, AllWhole(read.trees), NEW m, Tables(read, m), NEW r \in DOMAIN read.trees
  PROVE  Tables(read, Import(read, m, r))
<1> DEFINE stored == read.trees[r].replaces
           new    == [p \in DOMAIN stored |-> stored[p] \ DOMAIN m.treeMap]
           walked == Below(new, {r})
           kept   == [p \in walked |-> new[p] \cap read.txs]
           linked == Below(kept, {r})
           shared == ~ UNION {stored[p] : p \in walked} \subseteq walked
           kidOf(c) == CHOOSE p \in walked : c \in kept[p]
           upper  == UNION {kept[p] : p \in walked}
           tree   == [replaces |-> [p \in linked |-> kept[p]],
                      minedTxs |-> read.trees[r].minedTxs \cap linked,
                      mined    |-> FALSE,
                      fullRbf  |-> read.trees[r].fullRbf]
           trees  == With(m.trees, r, tree)
           map    == [x \in DOMAIN m.treeMap \cup linked |->
                        IF x \in linked THEN r ELSE m.treeMap[x]]
           loaded == [trees |-> trees, treeMap |-> map,
                      replaces |-> [p \in DOMAIN m.replaces \cup walked |->
                                      IF p \in walked THEN kept[p] ELSE m.replaces[p]],
                      replacedBy |-> [c \in DOMAIN m.replacedBy \cup upper |->
                                        IF c \in upper THEN kidOf(c) ELSE m.replacedBy[c]],
                      events |-> m.events \o (IF shared THEN Unstore(r) ELSE <<>>)
                                   \o <<AddTree(r)>>]
<1>1. CASE Stale(read, m, r)
  <2>1. Import(read, m, r) = [m EXCEPT !.events = @ \o Unstore(r)]
    BY <1>1 DEF Import
  <2>2. Import(read, m, r) = [trees |-> m.trees, treeMap |-> m.treeMap, replaces |-> m.replaces,
                        replacedBy |-> m.replacedBy, events |-> m.events \o Unstore(r)]
    BY <2>1 DEF Tables
  <2> QED
    BY <2>2 DEF Tables
<1>2. CASE ~ Stale(read, m, r)
  <2>1. Import(read, m, r) = loaded
    BY <1>2 DEF Import
  <2>2. r \in read.txs /\ r \notin DOMAIN m.treeMap
    BY <1>2 DEF Stale
  <2>3. /\ r \in DOMAIN stored /\ DOMAIN stored \subseteq Tx
        /\ \A p \in DOMAIN stored : stored[p] \subseteq DOMAIN stored
    BY DEF AllWhole, Whole, Nodes
  <2>4. /\ \A x \in DOMAIN m.treeMap : /\ m.treeMap[x] \in DOMAIN m.trees
                                       /\ x \in Nodes(m.trees[m.treeMap[x]])
        /\ \A q \in DOMAIN m.trees : \A x \in Nodes(m.trees[q]) :
             x \in DOMAIN m.treeMap /\ m.treeMap[x] = q
        /\ DOMAIN m.treeMap \subseteq read.txs
        /\ \A q \in DOMAIN m.trees : Whole(q, m.trees[q])
    BY DEF Tables, Partition, AllWhole
  <2>5. r \notin DOMAIN m.trees
    BY <2>2, <2>4 DEF Whole
  <2> DEFINE fresh == DOMAIN stored \ DOMAIN m.treeMap
  <2>6. r \in walked /\ walked \subseteq fresh
    <3>1. fresh \in SUBSET Tx /\ {r} \subseteq fresh /\ {r} \in SUBSET Tx
      BY <2>2, <2>3
    <3>2. ClosedUnder(new, fresh)
      BY <2>3 DEF ClosedUnder
    <3> HIDE DEF new, fresh, stored
    <3> QED
      BY <3>1, <3>2, BelowStart, BelowLeast
  <2>7. ClosedUnder(new, walked)
    <3>1. \A p \in DOMAIN new : new[p] \subseteq Tx
      BY <2>3
    <3> HIDE DEF new
    <3> QED
      BY <3>1, BelowClosed
  <2> HIDE DEF walked
  <2>8. \A p \in walked : new[p] \subseteq walked /\ new[p] \subseteq Tx /\ new[p] = stored[p] \ DOMAIN m.treeMap
    BY <2>3, <2>6, <2>7 DEF ClosedUnder
  <2> HIDE DEF new, stored
  <2>9. \A p \in walked : kept[p] = new[p] \cap read.txs
    OBVIOUS
  <2>10. r \in linked /\ linked \subseteq walked \cap read.txs
    <3>1. walked \cap read.txs \in SUBSET Tx /\ {r} \subseteq walked \cap read.txs /\ {r} \in SUBSET Tx
      BY <2>2, <2>3, <2>6
    <3>2. ClosedUnder(kept, walked \cap read.txs)
      BY <2>8, <2>9 DEF ClosedUnder
    <3> HIDE DEF kept
    <3> QED
      BY <3>1, <3>2, BelowStart, BelowLeast
  <2>11. ClosedUnder(kept, linked) /\ DOMAIN kept = walked
    <3>1. \A p \in DOMAIN kept : kept[p] \subseteq Tx
      BY <2>8, <2>9
    <3>2. DOMAIN kept = walked
      OBVIOUS
    <3> HIDE DEF kept
    <3> QED
      BY <3>1, <3>2, BelowClosed
  <2> HIDE DEF kept, linked
  <2>12. \A p \in linked : kept[p] \subseteq linked
    BY <2>10, <2>11 DEF ClosedUnder
  <2>13. tree.replaces = [p \in linked |-> kept[p]] /\ Nodes(tree) = linked
    BY DEF Nodes
  <2> HIDE DEF tree
  <2>14. linked \subseteq Tx /\ linked \cap DOMAIN m.treeMap = {} /\ linked \subseteq read.txs
    BY <2>3, <2>6, <2>10
  <2>15. Whole(r, tree)
    BY <2>10, <2>12, <2>13, <2>14 DEF Whole
  <2>16. /\ DOMAIN trees = DOMAIN m.trees \cup {r}
         /\ trees[r] = tree /\ \A q \in DOMAIN m.trees : trees[q] = m.trees[q]
    BY <2>5 DEF With
  <2>17. /\ DOMAIN map = DOMAIN m.treeMap \cup linked
         /\ \A x \in linked : map[x] = r
         /\ \A x \in DOMAIN m.treeMap : map[x] = m.treeMap[x]
    BY <2>14
  <2> HIDE DEF trees, map
  <2>18. Partition(trees, map, read.txs)
    <3>1. AllWhole(trees)
      BY <2>4, <2>15, <2>16 DEF AllWhole
    <3>2. DOMAIN map \subseteq read.txs
      BY <2>4, <2>14, <2>17
    <3>3. ASSUME NEW x \in DOMAIN map
          PROVE  map[x] \in DOMAIN trees /\ x \in Nodes(trees[map[x]])
      BY <2>4, <2>13, <2>16, <2>17
    <3>4. ASSUME NEW q \in DOMAIN trees, NEW x \in Nodes(trees[q])
          PROVE  x \in DOMAIN map /\ map[x] = q
      BY <2>4, <2>13, <2>16, <2>17
    <3> QED
      BY <3>1, <3>2, <3>3, <3>4 DEF Partition
  <2> QED
    BY <2>1, <2>18 DEF Tables
<1> QED
  BY <1>1, <1>2

\* The tables after each import.
Loads(read, f, n, order) ==
  f = [i \in 0..n |->
         IF i = 0
         THEN [trees |-> Nothing, treeMap |-> Nothing, replaces |-> Nothing,
               replacedBy |-> Nothing, events |-> <<>>]
         ELSE Import(read, f[i - 1], order[i])]

LEMMA LoadsExist ==
  ASSUME NEW read, NEW n \in Nat, NEW order
  PROVE  \E f : Loads(read, f, n, order)
<1> DEFINE S == {m \in 0..n : \E f : Loads(read, f, m, order)}
<1>1. 0 \in S
  <2> DEFINE f == [i \in 0..0 |->
                     [trees |-> Nothing, treeMap |-> Nothing, replaces |-> Nothing,
                      replacedBy |-> Nothing, events |-> <<>>]]
  <2>1. Loads(read, f, 0, order)
    BY DEF Loads
  <2> QED
    BY <2>1
<1>2. ASSUME NEW m \in 1..n, m - 1 \in S PROVE m \in S
  <2>1. PICK f : Loads(read, f, m - 1, order)
    BY <1>2
  <2> DEFINE g == [i \in 0..m |-> IF i = m THEN Import(read, f[m - 1], order[m]) ELSE f[i]]
  <2>2. m \in 0..n /\ \A i \in 0..m : i # m => i \in 0..(m - 1)
    OBVIOUS
  <2>3. \A i \in 0..(m - 1) : g[i] = f[i]
    BY <2>2
  <2>4. \A i \in 0..(m - 1) : i # 0 => i - 1 \in 0..(m - 1)
    OBVIOUS
  <2>5. ASSUME NEW i \in 0..m
        PROVE  g[i] = IF i = 0
                      THEN [trees |-> Nothing, treeMap |-> Nothing, replaces |-> Nothing,
                            replacedBy |-> Nothing, events |-> <<>>]
                      ELSE Import(read, g[i - 1], order[i])
    <3>1. CASE i = m
      <4>1. i # 0 /\ m - 1 \in 0..(m - 1)
        BY <3>1
      <4>2. g[i] = Import(read, f[m - 1], order[m]) /\ g[m - 1] = f[m - 1]
        BY <2>3, <3>1, <4>1
      <4> HIDE DEF g
      <4> QED
        BY <3>1, <4>1, <4>2
    <3>2. CASE i # m
      <4>1. i \in 0..(m - 1) /\ g[i] = f[i]
        BY <2>2, <2>3, <3>2
      <4>2. i # 0 => g[i - 1] = f[i - 1]
        BY <2>3, <2>4, <4>1
      <4>3. f[i] = IF i = 0
                   THEN [trees |-> Nothing, treeMap |-> Nothing, replaces |-> Nothing,
                         replacedBy |-> Nothing, events |-> <<>>]
                   ELSE Import(read, f[i - 1], order[i])
        BY <2>1, <4>1 DEF Loads
      <4> HIDE DEF g
      <4> QED
        BY <4>1, <4>2, <4>3
    <3> QED
      BY <3>1, <3>2
  <2>6. g = [i \in 0..m |-> g[i]]
    OBVIOUS
  <2> HIDE DEF g
  <2>7. Loads(read, g, m, order)
    BY <2>5, <2>6 DEF Loads
  <2> QED
    BY <2>2, <2>7
<1> HIDE DEF S
<1>3. \A i \in 0..n : i \in S
  BY <1>1, <1>2, Upwards
<1>4. n \in S
  BY <1>3
<1> QED
  BY <1>4 DEF S

\* Whatever is read, load() puts no transaction in two trees.
LEMMA LoadedPartition ==
  ASSUME NEW read, AllWhole(read.trees), NEW order \in Orders(read.trees)
  PROVE  Partition(Loaded(read, order).trees, Loaded(read, order).treeMap, read.txs)
<1> DEFINE n == Cardinality(DOMAIN read.trees)
<1>1. n \in Nat
  <2>1. DOMAIN read.trees \subseteq Tx
    BY DEF AllWhole, Whole
  <2>2. IsFiniteSet(DOMAIN read.trees)
    BY <2>1, FS_Subset, FiniteAssumption
  <2> QED
    BY <2>2, FS_CardinalityType
<1>2. \A i \in 1..n : order[i] \in DOMAIN read.trees
  BY DEF Orders, SetToSeqs
<1> DEFINE f == CHOOSE g : Loads(read, g, n, order)
<1>3. Loads(read, f, n, order)
  BY <1>1, LoadsExist
<1>4. Loaded(read, order) = f[n]
  BY DEF Loaded, Loads
<1> HIDE DEF f, n
<1> DEFINE S == {i \in 0..n : Tables(read, f[i])}
<1>5. 0 \in S
  <2>1. f[0] = [trees |-> Nothing, treeMap |-> Nothing, replaces |-> Nothing,
                replacedBy |-> Nothing, events |-> <<>>] /\ 0 \in 0..n
    BY <1>1, <1>3 DEF Loads
  <2>2. DOMAIN Nothing = {}
    BY DEF Nothing
  <2>3. Partition(Nothing, Nothing, read.txs)
    BY <2>2 DEF Partition, AllWhole
  <2> QED
    BY <2>1, <2>3 DEF Tables
<1>6. ASSUME NEW i \in 1..n, i - 1 \in S PROVE i \in S
  <2>1. i \in 0..n /\ i # 0
    BY <1>1
  <2>2. f[i] = Import(read, f[i - 1], order[i])
    BY <1>3, <2>1 DEF Loads
  <2>3. Tables(read, f[i - 1])
    BY <1>6
  <2> HIDE DEF S
  <2>4. Tables(read, f[i])
    BY <1>2, <2>2, <2>3, ImportPartition
  <2> QED
    BY <2>1, <2>4 DEF S
<1> HIDE DEF S
<1>7. \A i \in 0..n : i \in S
  BY <1>1, <1>5, <1>6, Upwards
<1>8. Tables(read, f[n])
  BY <1>1, <1>7 DEF S
<1> QED
  BY <1>4, <1>8 DEF Tables

\* A list of entries stays one when an entry is appended ...
LEMMA SettableAppend ==
  ASSUME NEW q, Settable(q), NEW e, e.type = "tree" => Whole(e.txid, e.value)
  PROVE  Settable(Append(q, e))
<1> DEFINE S == ToSet(q) \cup {e}
           a == Append(q, e)
           n == Len(q)
<1>1. q \in Seq(S) /\ e \in S /\ q \in Seq(ToSet(q))
  <2>1. q \in Seq(ToSet(q)) /\ ToSet(q) \subseteq S
    BY DEF Settable
  <2> HIDE DEF S
  <2>2. q \in Seq(S)
    BY <2>1, SeqMonotonic
  <2> QED
    BY <2>1, <2>2 DEF S
<1> HIDE DEF S
<1>2. /\ a \in Seq(S) /\ n \in Nat /\ DOMAIN q = 1..n /\ DOMAIN a = 1..(n + 1)
      /\ (\A i \in 1..n : a[i] = q[i]) /\ a[n + 1] = e
  BY <1>1
<1> HIDE DEF a, n
<1>3. \A i \in 1..(n + 1) : i \in 1..n \/ i = n + 1
  BY <1>2
<1>4. \A i \in DOMAIN a : a[i].type = "tree" => Whole(a[i].txid, a[i].value)
  BY <1>2, <1>3 DEF Settable
<1>5. a \in Seq(ToSet(a))
  <2>1. \A i \in DOMAIN a : a[i] \in ToSet(a)
    BY DEF ToSet
  <2> QED
    BY <1>2, <2>1, SeqDef
<1> QED
  BY <1>4, <1>5 DEF Settable, a

\* ... and when the first one leaves it.
LEMMA SettableTail ==
  ASSUME NEW q, Settable(q), q # <<>>
  PROVE  Settable(Tail(q)) /\ (Head(q).type = "tree" => Whole(Head(q).txid, Head(q).value))
<1> DEFINE S == ToSet(q)
           a == Tail(q)
           n == Len(q)
<1>1. q \in Seq(S)
  BY DEF Settable
<1> HIDE DEF S
<1>2. /\ a \in Seq(S) /\ n \in Nat /\ n # 0 /\ DOMAIN q = 1..n /\ DOMAIN a = 1..(n - 1)
      /\ (\A i \in 1..(n - 1) : a[i] = q[i + 1]) /\ Head(q) = q[1]
  BY <1>1
<1> HIDE DEF a, n
<1>3. 1 \in 1..n /\ \A i \in 1..(n - 1) : i + 1 \in 1..n
  BY <1>2
<1>4. \A i \in DOMAIN a : a[i].type = "tree" => Whole(a[i].txid, a[i].value)
  BY <1>2, <1>3 DEF Settable
<1>5. a \in Seq(ToSet(a))
  <2>1. \A i \in DOMAIN a : a[i] \in ToSet(a)
    BY DEF ToSet
  <2> QED
    BY <1>2, <2>1, SeqDef
<1> QED
  BY <1>2, <1>3, <1>4, <1>5 DEF Settable, a

LEMMA SettableNone == Settable(<<>>)
<1>1. DOMAIN <<>> = {} /\ <<>> \in Seq(ToSet(<<>>))
  OBVIOUS
<1> QED
  BY <1>1 DEF Settable

\* Deadlines that come closer touch no tree.
LEMMA SettableOlder ==
  ASSUME NEW q, Settable(q)
  PROVE  Settable(Older(q))
<1> DEFINE a == Older(q)
           n == Len(q)
<1>1. q \in Seq(ToSet(q)) /\ n \in Nat /\ DOMAIN q = 1..n /\ DOMAIN a = 1..n
  BY DEF Settable, Older
<1>2. ASSUME NEW i \in DOMAIN a, a[i].type = "tree"
      PROVE  Whole(a[i].txid, a[i].value)
  <2>1. CASE q[i].type = "exp" /\ q[i].value # 0
    BY <1>1, <1>2, <2>1 DEF Older, Aged, Event
  <2>2. CASE ~ (q[i].type = "exp" /\ q[i].value # 0)
    <3>1. a[i] = q[i]
      BY <1>1, <2>2 DEF Older, Aged
    <3> QED
      BY <1>1, <1>2, <3>1 DEF Settable
  <2> QED
    BY <2>1, <2>2
<1>3. a = [i \in 1..n |-> a[i]]
  BY <1>1 DEF Older
<1> HIDE DEF a, n
<1>4. a \in Seq(ToSet(a))
  <2>1. \A i \in 1..n : a[i] \in ToSet(a)
    BY <1>1 DEF ToSet
  <2> QED
    BY <1>1, <1>3, <2>1, SeqDef
<1> QED
  BY <1>2, <1>4 DEF Settable, a

\* Setting an entry, or failing to, leaves whole trees in the store.
LEMMA SetTidy ==
  ASSUME AllWhole(saved.trees), Settable(rbfCacheQueue), NEW e,
         e.type = "tree" => Whole(e.txid, e.value), SetRbfEntry(e)
  PROVE  AllWhole(saved'.trees) /\ Settable(rbfCacheQueue')
<1>1. CASE saved' = Put(e) /\ UNCHANGED offline
  <2>1. saved'.trees = IF e.type = "tree" THEN With(saved.trees, e.txid, e.value) ELSE saved.trees
    BY <1>1 DEF Put
  <2>2. AllWhole(saved'.trees)
    BY <2>1 DEF AllWhole, With
  <2> QED
    BY <1>1, <2>2 DEF offline
<1>2. CASE rbfCacheQueue' = Append(rbfCacheQueue, e) /\ UNCHANGED saved
  BY <1>2, SettableAppend
<1>3. CASE UNCHANGED <<saved, offline>>
  BY <1>3 DEF offline
<1> QED
  BY <1>1, <1>2, <1>3 DEF SetRbfEntry, Lost

LEMMA RemoveTidy ==
  ASSUME AllWhole(saved.trees), Settable(rbfCacheQueue), NEW e, RemoveRbfEntry(e)
  PROVE  AllWhole(saved'.trees) /\ Settable(rbfCacheQueue')
<1>1. CASE saved' = Drop(e) /\ UNCHANGED offline
  <2>1. saved'.trees = IF e.type = "tree" THEN Without(saved.trees, e.txid) ELSE saved.trees
    BY <1>1 DEF Drop
  <2>2. AllWhole(saved'.trees)
    BY <2>1 DEF AllWhole, Without
  <2> QED
    BY <1>1, <2>2 DEF offline
<1>2. CASE UNCHANGED <<saved, rbfCacheQueue>>
  BY <1>2
<1> QED
  BY <1>1, <1>2 DEF RemoveRbfEntry, Lost, offline

LEMMA InitTidy == RInit => Tidy
<1> SUFFICES ASSUME RInit PROVE Tidy
  OBVIOUS
<1>1. /\ rbfTrees = Nothing /\ treeMap = Nothing /\ saved.trees = Nothing
      /\ rbfCacheQueue = <<>> /\ flushing = [step |-> "idle", todo |-> <<>>]
  BY DEF RInit, Init, Connected
<1>2. DOMAIN Nothing = {}
  BY DEF Nothing
<1> QED
  BY <1>1, <1>2, SettableNone DEF Tidy, Partition, AllWhole

\* What load() and the operations do to the tables.
LEMMA MemoryTidy ==
  ASSUME Tidy, Operation \/ Loading \/ Timer, NoFaults \/ NothingDue,
         NoFaults' => Partition(rbfTrees, treeMap, txs)'
  PROVE  Partition(rbfTrees, treeMap, txs)'
<1>1. Partition(rbfTrees, treeMap, txs) /\ AllWhole(saved.trees)
  BY DEF Tidy
<1>2. ASSUME UNCHANGED <<rbfTrees, treeMap, txs>> PROVE Partition(rbfTrees, treeMap, txs)'
  BY <1>1, <1>2
<1>3. ASSUME NEW S, rbfTrees' = WithMined(S), UNCHANGED <<treeMap, txs>>
      PROVE  Partition(rbfTrees, treeMap, txs)'
  <2>1. Partition(WithMined(S), treeMap, txs)
    BY <1>1, MinedPartition
  <2> QED
    BY <1>3, <2>1
<1>4. CASE Operation
  <2>1. ASSUME NEW replaced \in SUBSET Tx, NEW new \in Tx, Add(replaced, new)
        PROVE  Partition(rbfTrees, treeMap, txs)'
    BY <1>1, <2>1, AddPartition
  <2>2. ASSUME NEW t \in Tx, Evict(t) PROVE Partition(rbfTrees, treeMap, txs)'
    BY <1>2, <2>2 DEF Evict, maps
  <2>3. ASSUME NEW t \in Tx, Mined(t) PROVE Partition(rbfTrees, treeMap, txs)'
    BY <1>3, <2>3 DEF Mined, maps
  <2> QED
    BY <1>4, <2>1, <2>2, <2>3 DEF Operation, Call, Serving
<1>5. CASE Reload
  <2>1. PICK failed \in SUBSET Types : ReloadAfter(failed)
    BY <1>5 DEF Reload
  <2>2. PICK read : read = ReadBack(failed)
    OBVIOUS
  <2>3. PICK order \in Orders(read.trees) :
          /\ rbfTrees' = Loaded(read, order).trees
          /\ treeMap' = Loaded(read, order).treeMap
    BY <2>1, <2>2 DEF ReloadAfter
  <2>4. txs' = read.txs
    BY <2>1, <2>2 DEF ReloadAfter
  <2>5. AllWhole(read.trees)
    <3>1. DOMAIN Nothing = {} /\ (read.trees = Nothing \/ read.trees = saved.trees)
      BY <2>2 DEF Nothing, ReadBack
    <3> QED
      BY <1>1, <3>1 DEF AllWhole
  <2>6. Partition(Loaded(read, order).trees, Loaded(read, order).treeMap, read.txs)
    BY <2>5, LoadedPartition
  <2> QED
    BY <2>3, <2>4, <2>6
<1>6. ASSUME NEW exp, NEW trees, Cleanup(exp, trees), UNCHANGED failures,
             Partition(trees, treeMap, txs),
             NothingDue => \A t \in DOMAIN exp : exp[t] # 0
      PROVE  Partition(rbfTrees, treeMap, txs)'
  <2>1. CASE NoFaults
    BY <1>6, <2>1 DEF NoFaults
  <2>2. CASE NothingDue
    BY <1>6, <2>2, CleanupPartition
  <2> QED
    BY <2>1, <2>2
<1>7. CASE Timer
  BY <1>1, <1>6, <1>7 DEF Timer, CleanupTimer, Queue, client, NothingDue
<1>8. CASE Loading /\ ~ Reload
  <2>1. ASSUME NEW replaced \in SUBSET Tx, NEW new \in Tx, Connect(replaced, new)
        PROVE  Partition(rbfTrees, treeMap, txs)'
    BY <1>1, <2>1, AddPartition DEF Connect
  <2>2. ASSUME BeginCheck PROVE Partition(rbfTrees, treeMap, txs)'
    BY <1>2, <2>2 DEF BeginCheck, memory, maps
  <2>3. ASSUME NEW found, NEW confirmed, FinishCheck(found, confirmed), UNCHANGED failures
        PROVE  Partition(rbfTrees, treeMap, txs)'
    <3> DEFINE flagged == (batch \ found) \cup {t \in confirmed : HasTree(t)}
    <3>1. Cleanup(Evicted(flagged), WithMined(confirmed))
      BY <2>3 DEF FinishCheck
    <3> HIDE DEF flagged
    <3>2. Partition(WithMined(confirmed), treeMap, txs)
      BY <1>1, MinedPartition
    <3>3. NothingDue => \A t \in DOMAIN Evicted(flagged) : Evicted(flagged)[t] # 0
      BY ExpiryAssumption DEF NothingDue, Evicted
    <3> QED
      BY <1>6, <2>3, <3>1, <3>2, <3>3
  <2> QED
    BY <1>8, <2>1, <2>2, <2>3 DEF Loading, Checking, Queue, client
<1> QED
  BY <1>4, <1>5, <1>7, <1>8

\* What the other steps do to the store and the lists of entries to send.
LEMMA StoreTidy ==
  ASSUME Tidy, RNext
  PROVE  /\ AllWhole(saved.trees)'
         /\ Settable(rbfCacheQueue)'
         /\ (flushing = [step |-> flushing.step, todo |-> flushing.todo])'
         /\ (flushing.step = "set" => Settable(flushing.todo))'
<1> DEFINE Goal == /\ AllWhole(saved.trees)'
                   /\ Settable(rbfCacheQueue)'
                   /\ (flushing = [step |-> flushing.step, todo |-> flushing.todo])'
                   /\ (flushing.step = "set" => Settable(flushing.todo))'
<1>1. /\ AllWhole(saved.trees) /\ Settable(rbfCacheQueue)
      /\ flushing = [step |-> flushing.step, todo |-> flushing.todo]
      /\ flushing.step = "set" => Settable(flushing.todo)
      /\ AllWhole(rbfTrees)
  BY DEF Tidy, Partition
<1>2. ASSUME UNCHANGED <<saved, rbfCacheQueue, flushing>> PROVE Goal
  BY <1>1, <1>2
<1>3. ASSUME AllWhole(saved'.trees), Settable(rbfCacheQueue'), UNCHANGED flushing PROVE Goal
  BY <1>1, <1>3
<1>4. CASE Operation \/ Timer \/ (Loading /\ ~ Reload)
  BY <1>2, <1>4 DEF Operation, Call, Serving, Queue, client, offline, Timer, CleanupTimer,
     Loading, Checking, Connect, BeginCheck, FinishCheck
<1>5. CASE Reload
  <2>1. /\ UNCHANGED saved /\ rbfCacheQueue' = <<>>
        /\ flushing' = [step |-> "idle", todo |-> <<>>]
    BY <1>5 DEF Reload, ReloadAfter
  <2> QED
    BY <1>1, <2>1, SettableNone
<1>6. CASE Time
  <2>1. /\ saved' = [saved EXCEPT !.expiring = Elapsed(@)]
        /\ rbfCacheQueue' = Older(rbfCacheQueue)
        /\ flushing' = [flushing EXCEPT !.todo = Older(@)]
    BY <1>6 DEF Time, Tick
  <2>2. saved'.trees = saved.trees
    BY <2>1
  <2>3. flushing' = [step |-> flushing.step, todo |-> Older(flushing.todo)]
    BY <1>1, <2>1
  <2> QED
    BY <1>1, <2>1, <2>2, <2>3, SettableOlder
<1>7. CASE Update
  <2>1. CASE BeginUpdate \/ EndUpdate
    BY <1>2, <2>1 DEF BeginUpdate, EndUpdate, client, offline
  <2>2. CASE Replay
    <3> DEFINE e == Head(cacheQueue)
    <3>1. UNCHANGED flushing
      BY <2>2 DEF Replay
    <3>2. CASE ~ Vanished(e) /\ SetRbfEntry(Current(e))
      <4>1. Current(e).type = "tree" => Whole(Current(e).txid, Current(e).value)
        <5>1. CASE e.type = "tree"
          <6>1. e.txid \in DOMAIN rbfTrees
            BY <3>2, <5>1 DEF Vanished
          <6>2. Current(e).txid = e.txid /\ Current(e).value = rbfTrees[e.txid]
            BY <5>1 DEF Current, Event
          <6> QED
            BY <1>1, <6>1, <6>2 DEF AllWhole
        <5>2. CASE e.type # "tree"
          BY <5>2 DEF Current
        <5> QED
          BY <5>1, <5>2
      <4> QED
        BY <1>1, <1>3, <3>1, <3>2, <4>1, SetTidy
    <3>3. CASE UNCHANGED <<saved, offline>>
      BY <1>2, <3>1, <3>3 DEF offline
    <3>4. CASE RemoveRbfEntry(e)
      BY <1>1, <1>3, <3>1, <3>4, RemoveTidy
    <3> QED
      BY <2>2, <3>2, <3>3, <3>4 DEF Replay
  <2> QED
    BY <1>7, <2>1, <2>2 DEF Update
<1>8. CASE Client
  <2>1. CASE Disconnect
    BY <1>2, <2>1 DEF Disconnect, offline
  <2>2. CASE Reconnect
    <3>1. UNCHANGED <<saved, rbfCacheQueue>> /\ flushing' = [step |-> "connected", todo |-> <<>>]
      BY <2>2 DEF Reconnect, offline
    <3> QED
      BY <1>1, <3>1
  <2>3. CASE BeginFlush
    <3>1. UNCHANGED saved
      BY <2>3 DEF BeginFlush
    <3>2. \/ rbfCacheQueue' = <<>> /\ flushing' = [step |-> "set", todo |-> rbfCacheQueue]
          \/ UNCHANGED rbfCacheQueue /\ flushing' = [step |-> "idle", todo |-> <<>>]
      BY <2>3 DEF BeginFlush
    <3> QED
      BY <1>1, <3>1, <3>2, SettableNone
  <2>4. CASE Flush
    <3>1. ASSUME flushing.step = "set", flushing.todo # <<>>, SetRbfEntry(Head(flushing.todo)),
                 flushing' = [flushing EXCEPT !.todo = Tail(@)]
          PROVE  Goal
      <4>1. Settable(Tail(flushing.todo))
            /\ (Head(flushing.todo).type = "tree"
                  => Whole(Head(flushing.todo).txid, Head(flushing.todo).value))
        BY <1>1, <3>1, SettableTail
      <4>2. AllWhole(saved'.trees) /\ Settable(rbfCacheQueue')
        BY <1>1, <3>1, <4>1, SetTidy
      <4>3. flushing' = [step |-> flushing.step, todo |-> Tail(flushing.todo)]
        BY <1>1, <3>1
      <4> QED
        BY <4>1, <4>2, <4>3
    <3>2. ASSUME flushing' = [step |-> "remove", todo |-> rbfRemoveQueue],
                 UNCHANGED <<saved, rbfCacheQueue>>
          PROVE  Goal
      BY <1>1, <3>2
    <3>3. ASSUME flushing.step = "remove", RemoveRbfEntry(Head(flushing.todo)),
                 flushing' = [flushing EXCEPT !.todo = Tail(@)]
          PROVE  Goal
      <4>1. AllWhole(saved'.trees) /\ Settable(rbfCacheQueue')
        BY <1>1, <3>3, RemoveTidy
      <4>2. flushing' = [step |-> "remove", todo |-> Tail(flushing.todo)]
        BY <1>1, <3>3
      <4> QED
        BY <4>1, <4>2
    <3>4. ASSUME flushing' = [step |-> "idle", todo |-> <<>>], UNCHANGED <<saved, offline>>
          PROVE  Goal
      BY <1>1, <3>4 DEF offline
    <3> QED
      BY <2>4, <3>1, <3>2, <3>3, <3>4 DEF Flush
  <2> QED
    BY <1>8, <2>1, <2>2, <2>3, <2>4 DEF Client
<1> QED
  BY <1>4, <1>5, <1>6, <1>7, <1>8 DEF RNext

\* What the invariant of a process without faults says of the tables.
Agreed == NoFaults => Partition(rbfTrees, treeMap, txs)

LEMMA TidyStep ==
  Tidy /\ (NoFaults \/ NothingDue) /\ Agreed' /\ [RNext]_rvars => Tidy'
<1> SUFFICES ASSUME Tidy, NoFaults \/ NothingDue, Agreed', [RNext]_rvars PROVE Tidy'
  OBVIOUS
<1>1. CASE UNCHANGED rvars
  BY <1>1 DEF rvars, memory, maps, client, offline, Tidy, Partition
<1>2. CASE RNext
  <2>1. Partition(rbfTrees, treeMap, txs)'
    <3>1. CASE Operation \/ Loading \/ Timer
      BY <3>1, MemoryTidy DEF Agreed
    <3>2. CASE Time \/ Update \/ Client
      <4>1. UNCHANGED <<rbfTrees, treeMap, txs>>
        BY <3>2 DEF Time, Tick, Update, BeginUpdate, Replay, EndUpdate, Client, Disconnect,
           Reconnect, BeginFlush, Flush, memory, maps
      <4> QED
        BY <4>1 DEF Tidy
    <3> QED
      BY <1>2, <3>1, <3>2 DEF RNext
  <2> QED
    BY <1>2, <2>1, StoreTidy DEF Tidy
<1> QED
  BY <1>1, <1>2

\* Whatever crashes, outages, lost commands and failed reads leave, load() and what follows
\* put no transaction in two trees, and map each to the tree that has it (rbf-cache.ts
\* 492-537), as long as nothing expires once a fault has happened.
THEOREM TidyInductive ==
  RSpec /\ [](NoFaults \/ NothingDue) => []Tidy
<1>1. MirrorInv => Agreed
  BY IntactPartition DEF MirrorInv, WellKept, Agreed
<1> QED
  BY <1>1, InitTidy, TidyStep, MirrorInductive, PTL DEF RSpec

LEMMA TidyPartitioned == Tidy => Partitioned
<1> SUFFICES ASSUME Tidy PROVE Partitioned
  OBVIOUS
<1>1. /\ \A x \in DOMAIN treeMap : /\ treeMap[x] \in DOMAIN rbfTrees
                                   /\ x \in Nodes(rbfTrees[treeMap[x]])
      /\ \A r \in DOMAIN rbfTrees : \A x \in Nodes(rbfTrees[r]) :
           x \in DOMAIN treeMap /\ treeMap[x] = r
      /\ \A r \in DOMAIN rbfTrees : r \in Nodes(rbfTrees[r])
  BY DEF Tidy, Partition, AllWhole, Whole
<1>2. Disjoint
  BY <1>1 DEF Disjoint
<1>3. UniqueId
  BY <1>1 DEF UniqueId
<1>4. Existence
  BY <1>1 DEF Existence
<1> QED
  BY <1>2, <1>3, <1>4 DEF Partitioned

\* No transaction is in two trees, and every tree is found under its root, in every such world.
THEOREM PartitionedHolds ==
  RSpec /\ [](NoFaults \/ NothingDue) => []Partitioned
BY TidyPartitioned, TidyInductive, PTL
-----------------------------------------------------------------------------
(* Crashes: the queue                                                      *)

\* Where the events of the queue q and then those of p are in c.
Joined(c, q, p) ==
  /\ c \in Seq(Events)
  /\ \A i \in DOMAIN q : i \in DOMAIN c /\ c[i] = q[i]
  /\ \A k \in DOMAIN p :
       /\ Len(q) + k \in DOMAIN c /\ c[Len(q) + k] = p[k]
       /\ \A i \in DOMAIN q : i < Len(q) + k /\ ~(Len(q) + k < i)
       /\ \A j \in DOMAIN p : Len(q) + j < Len(q) + k <=> j < k
  /\ \A i \in DOMAIN c : i \in DOMAIN q \/ \E k \in DOMAIN p : i = Len(q) + k
  /\ \A op, type, t :
       /\ \A i \in DOMAIN q : Earlier(q, i, op, type, t) => Earlier(c, i, op, type, t)
       /\ \A k \in DOMAIN p :
            /\ Earlier(p, k, op, type, t) => Earlier(c, Len(q) + k, op, type, t)
            /\ (\E i \in DOMAIN q : Is(q[i], op, type, t)) => Earlier(c, Len(q) + k, op, type, t)

\* A queue with further events has its old ones, then the new ones.
LEMMA Appended ==
  ASSUME NEW q \in Seq(Events), NEW p \in Seq(Events), NEW c, c = q \o p
  PROVE  Joined(c, q, p)
<1> DEFINE m == Len(q)
           n == Len(p)
<1>1. /\ m \in Nat /\ n \in Nat /\ DOMAIN q = 1..m /\ DOMAIN p = 1..n
      /\ c \in Seq(Events) /\ DOMAIN c = 1..(m + n)
  OBVIOUS
<1>2. /\ \A i \in 1..m : c[i] = q[i]
      /\ \A k \in 1..n : c[m + k] = p[k]
  OBVIOUS
<1> HIDE DEF m, n
<1>3. /\ \A i \in 1..m : i \in 1..(m + n)
      /\ \A k \in 1..n : m + k \in 1..(m + n) /\ \A i \in 1..m : i < m + k /\ ~(m + k < i)
      /\ \A j, k \in 1..n : m + j < m + k <=> j < k
  BY <1>1
<1>4. ASSUME NEW i \in 1..(m + n), i \notin 1..m PROVE \E k \in 1..n : i = m + k
  <2>1. i - m \in 1..n /\ i = m + (i - m)
    BY <1>1, <1>4
  <2> QED
    BY <2>1
<1>5. /\ c \in Seq(Events)
      /\ \A i \in DOMAIN q : i \in DOMAIN c /\ c[i] = q[i]
      /\ \A k \in DOMAIN p :
           /\ m + k \in DOMAIN c /\ c[m + k] = p[k]
           /\ \A i \in DOMAIN q : i < m + k /\ ~(m + k < i)
           /\ \A j \in DOMAIN p : m + j < m + k <=> j < k
      /\ \A i \in DOMAIN c : i \in DOMAIN q \/ \E k \in DOMAIN p : i = m + k
  BY <1>1, <1>2, <1>3, <1>4
<1>6. ASSUME NEW op, NEW type, NEW t
      PROVE  /\ \A i \in DOMAIN q : Earlier(q, i, op, type, t) => Earlier(c, i, op, type, t)
             /\ \A k \in DOMAIN p :
                  /\ Earlier(p, k, op, type, t) => Earlier(c, m + k, op, type, t)
                  /\ (\E i \in DOMAIN q : Is(q[i], op, type, t)) => Earlier(c, m + k, op, type, t)
  BY <1>5 DEF Earlier
<1> QED
  BY <1>5, <1>6 DEF Joined, m

\* Where they are once the first has been replayed.
RestOf(c, q) ==
  /\ c \in Seq(Events) /\ 1 \in DOMAIN q /\ q[1] = Head(q) /\ Head(q) \in Events
  /\ \A i \in DOMAIN c : /\ i + 1 \in DOMAIN q /\ c[i] = q[i + 1] /\ 1 < i + 1
                         /\ \A j \in DOMAIN c : j < i <=> j + 1 < i + 1
  /\ \A i \in DOMAIN q : i = 1 \/ \E k \in DOMAIN c : i = k + 1
  /\ \A op, type, t : ~ Earlier(q, 1, op, type, t)
  /\ \A i \in DOMAIN c : \A op, type, t :
       Earlier(q, i + 1, op, type, t) /\ ~ Is(Head(q), op, type, t) => Earlier(c, i, op, type, t)

\* A queue without its first event has the others, one place further on.
LEMMA Shifted ==
  ASSUME NEW q \in Seq(Events), q # <<>>, NEW c, c = Tail(q)
  PROVE  RestOf(c, q)
<1> DEFINE n == Len(q)
<1>1. /\ n \in Nat \ {0} /\ DOMAIN q = 1..n /\ c \in Seq(Events) /\ DOMAIN c = 1..(n - 1)
      /\ q[1] = Head(q) /\ Head(q) \in Events
  OBVIOUS
<1>2. \A i \in 1..(n - 1) : c[i] = q[i + 1]
  OBVIOUS
<1> HIDE DEF n
<1>3. /\ 1 \in 1..n /\ \A i \in 1..n : ~(i < 1)
      /\ \A i \in 1..(n - 1) : i + 1 \in 1..n /\ 1 < i + 1 /\ \A j \in 1..(n - 1) : j < i <=> j + 1 < i + 1
  BY <1>1
<1>4. ASSUME NEW i \in 1..n, i # 1 PROVE \E k \in 1..(n - 1) : i = k + 1
  <2>1. i - 1 \in 1..(n - 1) /\ i = (i - 1) + 1
    BY <1>1, <1>4
  <2> QED
    BY <2>1
<1>5. \A op, type, t : ~ Earlier(q, 1, op, type, t)
  BY <1>1, <1>3 DEF Earlier
<1>6. ASSUME NEW i \in 1..(n - 1), NEW op, NEW type, NEW t,
             Earlier(q, i + 1, op, type, t), ~ Is(Head(q), op, type, t)
      PROVE  Earlier(c, i, op, type, t)
  <2>1. PICK j \in 1..n : j < i + 1 /\ Is(q[j], op, type, t)
    BY <1>1, <1>6 DEF Earlier
  <2>2. PICK k \in 1..(n - 1) : j = k + 1
    BY <1>1, <1>4, <1>6, <2>1
  <2>3. k < i /\ Is(c[k], op, type, t)
    BY <1>2, <1>3, <2>1, <2>2
  <2> QED
    BY <1>1, <2>3 DEF Earlier
<1> QED
  BY <1>1, <1>2, <1>3, <1>4, <1>5, <1>6 DEF RestOf

\* The last event about a key.
LEMMA LastAbout ==
  ASSUME NEW q \in Seq(Events), NEW type, NEW t, NEW k \in DOMAIN q, About(q[k], type, t)
  PROVE  \E i \in DOMAIN q : /\ About(q[i], type, t)
                             /\ \A j \in DOMAIN q : j > i => ~ About(q[j], type, t)
<1> DEFINE n == Len(q)
           S == {d \in Nat : \E i \in DOMAIN q : d = n - i /\ About(q[i], type, t)}
<1>1. n \in Nat /\ DOMAIN q = 1..n
  OBVIOUS
<1> HIDE DEF n
<1>2. n - k \in S
  BY <1>1
<1>3. PICK d \in S : \A e \in S : d <= e
  BY <1>2, LeastNumber
<1>4. PICK i \in DOMAIN q : d = n - i /\ About(q[i], type, t)
  BY <1>3
<1>5. ASSUME NEW j \in DOMAIN q, j > i, About(q[j], type, t) PROVE FALSE
  <2>1. n - j \in Nat /\ ~(d <= n - j)
    BY <1>1, <1>4, <1>5
  <2>2. n - j \in S
    BY <1>5, <2>1
  <2> QED
    BY <1>3, <2>1, <2>2
<1> QED
  BY <1>4, <1>5

\* The last event about a key that is not alike is meant.
LEMMA LastMeant ==
  ASSUME AlmostCaughtUp, cacheQueue \in Seq(Events), NEW type \in {"tx", "tree"}, NEW t \in Tx,
         ~ Alike(type, t) \/ \E i \in DOMAIN cacheQueue : About(cacheQueue[i], type, t)
  PROVE  \E i \in DOMAIN cacheQueue : About(cacheQueue[i], type, t) /\ Meant(cacheQueue[i])
<1>1. PICK q : q = cacheQueue
  OBVIOUS
<1>2. /\ (\A i \in DOMAIN q : ~ About(q[i], type, t)) => Alike(type, t)
      /\ \A i \in DOMAIN q :
           About(q[i], type, t) /\ (\A j \in DOMAIN q : j > i => ~ About(q[j], type, t)) =>
             Meant(q[i])
  BY <1>1 DEF AlmostCaughtUp
<1>3. PICK k \in DOMAIN q : About(q[k], type, t)
  BY <1>1, <1>2
<1>4. q \in Seq(Events)
  BY <1>1
<1> QED
  BY <1>1, <1>2, <1>3, <1>4, LastAbout

\* What the store lacks or still has is the matter of an event.
LEMMA StoreOwed ==
  ASSUME AlmostCaughtUp, cacheQueue \in Seq(Events), NEW t \in Tx
  PROVE  LET q == cacheQueue
         IN /\ t \in txs \ saved.txs => \E i \in DOMAIN q : Is(q[i], "add", "tx", t)
            /\ /\ t \notin txs
               /\ t \in saved.txs \/ \E i \in DOMAIN q : About(q[i], "tx", t)
               => \E i \in DOMAIN q : Is(q[i], "remove", "tx", t)
            /\ t \in DOMAIN saved.trees \ DOMAIN rbfTrees =>
                 \E i \in DOMAIN q : Is(q[i], "remove", "tree", t)
<1>1. PICK q : q = cacheQueue
  OBVIOUS
<1>2. \A i \in DOMAIN q : q[i].op \in {"add", "remove"}
  <2>1. \A i \in DOMAIN q : q[i] \in Events
    BY <1>1
  <2> QED
    BY <2>1 DEF Events
<1>3. \A type \in {"tx", "tree"} :
        ~ Alike(type, t) \/ (\E i \in DOMAIN q : About(q[i], type, t)) =>
          \E i \in DOMAIN q : About(q[i], type, t) /\ Meant(q[i])
  BY <1>1, LastMeant
<1>4. ASSUME t \in txs \ saved.txs PROVE \E i \in DOMAIN q : Is(q[i], "add", "tx", t)
  <2>1. ~ Alike("tx", t)
    BY <1>4 DEF Alike
  <2>2. PICK i \in DOMAIN q : About(q[i], "tx", t) /\ Meant(q[i])
    BY <1>3, <2>1
  <2> QED
    BY <1>4, <2>2 DEF About, Meant, Is
<1>5. ASSUME t \notin txs, t \in saved.txs \/ \E i \in DOMAIN q : About(q[i], "tx", t)
      PROVE  \E i \in DOMAIN q : Is(q[i], "remove", "tx", t)
  <2>1. t \in saved.txs => ~ Alike("tx", t)
    BY <1>5 DEF Alike
  <2>2. PICK i \in DOMAIN q : About(q[i], "tx", t) /\ Meant(q[i])
    BY <1>3, <1>5, <2>1
  <2> QED
    BY <1>2, <1>5, <2>2 DEF About, Meant, Is
<1>6. ASSUME t \in DOMAIN saved.trees \ DOMAIN rbfTrees
      PROVE  \E i \in DOMAIN q : Is(q[i], "remove", "tree", t)
  <2>1. ~ Alike("tree", t)
    BY <1>6 DEF Alike
  <2>2. PICK i \in DOMAIN q : About(q[i], "tree", t) /\ Meant(q[i])
    BY <1>3, <2>1
  <2> QED
    BY <1>2, <1>6, <2>2 DEF About, Meant, Is
<1> QED
  BY <1>1, <1>4, <1>5, <1>6

\* Memory keeps what it has under a key, but for deadlines and flags.
Kept(type, t) ==
  /\ type = "tx" => (t \in txs' <=> t \in txs)
  /\ type = "tree" =>
       /\ t \in DOMAIN rbfTrees' <=> t \in DOMAIN rbfTrees
       /\ t \in DOMAIN rbfTrees => rbfTrees'[t].replaces = rbfTrees[t].replaces

\* What memory keeps of a key, the store still has alike ...
LEMMA KeptAlike ==
  ASSUME NEW type, NEW t, Kept(type, t), saved' = saved, Alike(type, t)
  PROVE  Alike(type, t)'
BY DEF Kept, Alike

\* ... and an event about it still says what memory holds.
LEMMA KeptMeant ==
  ASSUME NEW e, e.type \in {"tx", "tree"}, Kept(e.type, e.txid), Meant(e)
  PROVE  Meant(e)'
BY DEF Kept, Meant

\* Queueing meant events about every key that moves keeps the store almost caught up.
LEMMA QueueAlmost ==
  ASSUME AlmostCaughtUp, cacheQueue \in Seq(Events), NEW p \in Seq(Events),
         cacheQueue' = cacheQueue \o p, saved' = saved,
         \A e \in ToSet(p) : e.type # "exp" => Meant(e)',
         \A type \in {"tx", "tree"}, t \in Tx :
           Kept(type, t) \/ \E e \in ToSet(p) : About(e, type, t)
  PROVE  AlmostCaughtUp'
<1>1. PICK q : q = cacheQueue
  OBVIOUS
<1>2. PICK c : c = q \o p
  OBVIOUS
<1>3. q \in Seq(Events) /\ cacheQueue' = c
  BY <1>1, <1>2
<1>4. Joined(c, q, p)
  BY <1>2, <1>3, Appended
<1>5. \A type \in {"tx", "tree"}, t \in Tx :
        /\ (\A i \in DOMAIN q : ~ About(q[i], type, t)) => Alike(type, t)
        /\ \A i \in DOMAIN q :
             About(q[i], type, t) /\ (\A j \in DOMAIN q : j > i => ~ About(q[j], type, t)) =>
               Meant(q[i])
  BY <1>1 DEF AlmostCaughtUp
<1>6. \A i \in DOMAIN q, k \in DOMAIN p : Len(q) + k > i
  BY <1>4 DEF Joined
<1>7. ASSUME NEW type \in {"tx", "tree"}, NEW t \in Tx, \A i \in DOMAIN c : ~ About(c[i], type, t)
      PROVE  Alike(type, t)'
  <2>1. ~ \E e \in ToSet(p) : About(e, type, t)
    BY <1>4, <1>7 DEF Joined, ToSet
  <2>2. Kept(type, t)
    BY <2>1
  <2>3. Alike(type, t)
    BY <1>4, <1>5, <1>7 DEF Joined
  <2> QED
    BY <2>2, <2>3, KeptAlike
<1>8. ASSUME NEW type \in {"tx", "tree"}, NEW t \in Tx, NEW i \in DOMAIN c, About(c[i], type, t),
             \A j \in DOMAIN c : j > i => ~ About(c[j], type, t)
      PROVE  Meant(c[i])'
  <2>1. PICK e : e = c[i]
    OBVIOUS
  <2>2. CASE i \in DOMAIN q
    <3>1. e = q[i] /\ \A j \in DOMAIN q : j > i => ~ About(q[j], type, t)
      BY <1>4, <1>8, <2>1, <2>2 DEF Joined
    <3>2. Meant(e)
      BY <1>5, <1>8, <2>1, <2>2, <3>1
    <3>3. ~ \E d \in ToSet(p) : About(d, type, t)
      BY <1>4, <1>6, <1>8, <2>2 DEF Joined, ToSet
    <3>4. Kept(e.type, e.txid) /\ e.type \in {"tx", "tree"}
      BY <1>8, <2>1, <3>3 DEF About
    <3>5. Meant(e)'
      BY <3>2, <3>4, KeptMeant
    <3> QED
      BY <2>1, <3>5
  <2>3. CASE i \notin DOMAIN q
    <3>1. e \in ToSet(p) /\ e.type # "exp"
      BY <1>4, <1>8, <2>1, <2>3 DEF Joined, ToSet, About
    <3>2. Meant(e)'
      BY <3>1
    <3> QED
      BY <2>1, <3>2
  <2> QED
    BY <2>2, <2>3
<1> QED
  BY <1>3, <1>7, <1>8 DEF AlmostCaughtUp

\* So does replaying the head of the queue when it leaves its key as memory has it, if
\* the event is meant, and all other keys alone.
LEMMA TailAlmost ==
  ASSUME AlmostCaughtUp, cacheQueue \in Seq(Events), cacheQueue # <<>>,
         cacheQueue' = Tail(cacheQueue), UNCHANGED memory,
         NEW e, e = Head(cacheQueue),
         Meant(e) => Alike(e.type, e.txid)',
         \A type \in {"tx", "tree"}, t \in Tx :
           ~ About(e, type, t) /\ Alike(type, t) => Alike(type, t)'
  PROVE  AlmostCaughtUp'
<1>1. PICK q : q = cacheQueue
  OBVIOUS
<1>2. PICK c : c = Tail(q)
  OBVIOUS
<1>3. q \in Seq(Events) /\ q # <<>> /\ cacheQueue' = c
  BY <1>1, <1>2
<1>4. RestOf(c, q)
  BY <1>2, <1>3, Shifted
<1>5. \A type \in {"tx", "tree"}, t \in Tx :
        /\ (\A i \in DOMAIN q : ~ About(q[i], type, t)) => Alike(type, t)
        /\ \A i \in DOMAIN q :
             About(q[i], type, t) /\ (\A j \in DOMAIN q : j > i => ~ About(q[j], type, t)) =>
               Meant(q[i])
  BY <1>1 DEF AlmostCaughtUp
<1>6. e = q[1]
  BY <1>1, <1>4 DEF RestOf
<1>7. ASSUME NEW type \in {"tx", "tree"}, NEW t \in Tx, \A i \in DOMAIN c : ~ About(c[i], type, t)
      PROVE  Alike(type, t)'
  <2>1. \A i \in DOMAIN q : i # 1 => ~ About(q[i], type, t)
    BY <1>4, <1>7 DEF RestOf
  <2>2. CASE About(e, type, t)
    <3>1. \A j \in DOMAIN q : j > 1 => ~ About(q[j], type, t)
      BY <2>1
    <3>2. Meant(e)
      BY <1>4, <1>5, <1>6, <2>2, <3>1 DEF RestOf
    <3> QED
      BY <2>2, <3>2 DEF About
  <2>3. CASE ~ About(e, type, t)
    <3>1. Alike(type, t)
      BY <1>5, <1>6, <2>1, <2>3
    <3> QED
      BY <2>3, <3>1
  <2> QED
    BY <2>2, <2>3
<1>8. ASSUME NEW type \in {"tx", "tree"}, NEW t \in Tx, NEW i \in DOMAIN c, About(c[i], type, t),
             \A j \in DOMAIN c : j > i => ~ About(c[j], type, t)
      PROVE  Meant(c[i])'
  <2>1. PICK d : d = c[i]
    OBVIOUS
  <2>2. d = q[i + 1] /\ i + 1 \in DOMAIN q /\ \A j \in DOMAIN q : j > i + 1 => ~ About(q[j], type, t)
    <3>1. ASSUME NEW j \in DOMAIN q, j > i + 1 PROVE \E k \in DOMAIN c : j = k + 1 /\ k > i
      <4>1. j # 1
        BY <1>4, <3>1 DEF RestOf
      <4>2. PICK k \in DOMAIN c : j = k + 1
        BY <1>4, <4>1 DEF RestOf
      <4> QED
        BY <1>4, <3>1, <4>2 DEF RestOf
    <3> QED
      BY <1>4, <1>8, <2>1, <3>1 DEF RestOf
  <2>3. Meant(d)
    BY <1>5, <1>8, <2>1, <2>2
  <2>4. Meant(d)'
    BY <2>3, NothingMoves, StaysMeant
  <2> QED
    BY <2>1, <2>4
<1> QED
  BY <1>3, <1>7, <1>8 DEF AlmostCaughtUp

\* Among these events no transaction of a tree in memory goes before the tree, but the root.
Guarded(p) ==
  \A k \in DOMAIN p, r \in DOMAIN rbfTrees : \A x \in Nodes(rbfTrees[r]) \ {r} :
    Is(p[k], "remove", "tx", x) => Earlier(p, k, "remove", "tree", r)

\* The trees of sound tables are disjoint, and made of cached transactions.
LEMMA SoundTrees ==
  ASSUME Sound
  PROVE  /\ \A r \in DOMAIN rbfTrees : r \in Nodes(rbfTrees[r]) /\ r \in txs /\ r \in Tx
                                       /\ Nodes(rbfTrees[r]) \subseteq txs
         /\ \A r, s \in DOMAIN rbfTrees : Nodes(rbfTrees[r]) \cap Nodes(rbfTrees[s]) # {} => r = s
BY DEF Sound, MemoryOK, IsForest, Rooted, Indexed

\* A step that queues events keeps what a crash needs, if the events put a tree after its
\* transactions, its removal before the trees that take it in and before theirs.
LEMMA QueueRecoverable ==
  ASSUME Recoverable, NoneReturns', Sound', saved' = saved,
         UNCHANGED <<connected, offline, flushing>>,
         NEW p \in Seq(Events), cacheQueue' = cacheQueue \o p,
         \A e \in ToSet(p) : e.type # "exp" => Meant(e)',
         \A type \in {"tx", "tree"}, t \in Tx :
           Kept(type, t) \/ \E e \in ToSet(p) : About(e, type, t),
         \A r \in DOMAIN rbfTrees' :
           \/ r \in DOMAIN rbfTrees /\ rbfTrees'[r].replaces = rbfTrees[r].replaces
           \/ r \notin txs,
         \A k \in DOMAIN p, r \in DOMAIN rbfTrees' : Is(p[k], "add", "tree", r) =>
           \A x \in Nodes(rbfTrees'[r]) : x \in txs \/ Earlier(p, k, "add", "tx", x),
         \A k \in DOMAIN p, r \in DOMAIN rbfTrees : ~ Is(p[k], "add", "tx", r),
         \A r \in DOMAIN rbfTrees \ DOMAIN rbfTrees' : \E k \in DOMAIN p :
           /\ Is(p[k], "remove", "tree", r)
           /\ \A j \in DOMAIN p, s \in Tx : j < k => ~ Is(p[j], "add", "tree", s),
         Guarded(p)
  PROVE  Recoverable'
<1>1. PICK q : q = cacheQueue
  OBVIOUS
<1>2. PICK c : c = q \o p
  OBVIOUS
<1>3. q \in Seq(Events) /\ cacheQueue' = c
  BY <1>1, <1>2 DEF Recoverable
<1>4. Joined(c, q, p)
  BY <1>2, <1>3, Appended
<1>5. /\ Sound /\ IsSnapshot(saved) /\ Loadable /\ AlmostCaughtUp
      /\ LiveAgree /\ TxsFirst /\ OldTreeFirst /\ GoneFirst /\ RootFirst /\ RemovalFollows
  BY DEF Recoverable, InOrder
<1>6. /\ \A r \in DOMAIN rbfTrees : r \in Nodes(rbfTrees[r]) /\ r \in txs /\ r \in Tx
                                    /\ Nodes(rbfTrees[r]) \subseteq txs
      /\ \A r, s \in DOMAIN rbfTrees : Nodes(rbfTrees[r]) \cap Nodes(rbfTrees[s]) # {} => r = s
  BY <1>5, SoundTrees
<1>7. \A r \in DOMAIN rbfTrees' : /\ r \in Nodes(rbfTrees'[r]) /\ r \in txs' /\ r \in Tx
                                  /\ Nodes(rbfTrees'[r]) \subseteq txs'
  BY DEF Sound, MemoryOK, IsForest, Rooted, Indexed
<1>8. \A r \in DOMAIN rbfTrees' : r \in txs =>
        /\ r \in DOMAIN rbfTrees /\ rbfTrees'[r].replaces = rbfTrees[r].replaces
        /\ Nodes(rbfTrees'[r]) = Nodes(rbfTrees[r])
  BY DEF Nodes
<1>9. Live' = Live /\ saved.txs \subseteq Tx /\ DOMAIN saved.trees \subseteq Tx
      /\ txs' \subseteq Tx /\ txs \subseteq Tx
  BY <1>5 DEF Live, IsSnapshot, IsForest, Sound, MemoryOK
\* What is new in memory is neither in the store nor in the queue.
<1>10. ASSUME NEW r \in txs' \ txs
       PROVE  /\ r \notin saved.txs
              /\ \A i \in DOMAIN q : ~ About(q[i], "tx", r) /\ ~ Is(q[i], "add", "tree", r)
  <2>1. ~ \E i \in DOMAIN q : Is(q[i], "remove", "tx", r)
    BY <1>3, <1>4 DEF NoneReturns, Joined, Is
  <2>2. r \in Tx
    BY <1>9
  <2>3. r \notin saved.txs /\ \A i \in DOMAIN q : ~ About(q[i], "tx", r)
    BY <1>1, <1>3, <1>5, <2>1, <2>2, StoreOwed
  <2>4. \A i \in DOMAIN q : ~ Is(q[i], "add", "tree", r)
    BY <1>1, <1>5, <2>1, <2>2 DEF RemovalFollows
  <2> QED
    BY <2>3, <2>4
<1>11. LiveAgree'
  BY <1>5, <1>7, <1>8, <1>9, <1>10 DEF LiveAgree, Live
<1>12. TxsFirst'
  <2> SUFFICES ASSUME NEW i \in DOMAIN c, NEW r \in DOMAIN rbfTrees', Is(c[i], "add", "tree", r),
                      NEW x \in Nodes(rbfTrees'[r])
               PROVE  x \in saved.txs \/ Earlier(c, i, "add", "tx", x)
    BY <1>3 DEF TxsFirst
  <2>1. CASE i \in DOMAIN q
    <3>1. Is(q[i], "add", "tree", r)
      BY <1>4, <2>1 DEF Joined
    <3>2. r \in txs
      BY <1>7, <1>10, <2>1, <3>1
    <3>3. x \in saved.txs \/ Earlier(q, i, "add", "tx", x)
      BY <1>1, <1>5, <1>8, <2>1, <3>1, <3>2 DEF TxsFirst
    <3> QED
      BY <1>4, <2>1, <3>3 DEF Joined
  <2>2. ASSUME NEW k \in DOMAIN p, i = Len(q) + k
        PROVE  x \in saved.txs \/ Earlier(c, i, "add", "tx", x)
    <3>1. Is(p[k], "add", "tree", r)
      BY <1>4, <2>2 DEF Joined
    <3>2. x \in txs \/ Earlier(p, k, "add", "tx", x)
      BY <3>1
    <3>3. x \in txs \ saved.txs => \E j \in DOMAIN q : Is(q[j], "add", "tx", x)
      BY <1>1, <1>3, <1>5, <1>9, StoreOwed
    <3> QED
      BY <1>4, <2>2, <3>2, <3>3 DEF Joined
  <2> QED
    BY <1>4, <2>1, <2>2 DEF Joined
<1>13. OldTreeFirst'
  <2> SUFFICES ASSUME NEW i \in DOMAIN c, NEW r \in (DOMAIN saved.trees \cap txs') \ saved.txs,
                      Is(c[i], "add", "tx", r)
               PROVE  Earlier(c, i, "remove", "tree", r)
    BY <1>3 DEF OldTreeFirst
  <2>1. CASE i \in DOMAIN q
    <3>1. Is(q[i], "add", "tx", r)
      BY <1>4, <2>1 DEF Joined
    <3>2. r \in txs
      BY <1>10, <2>1, <3>1 DEF Is, About
    <3>3. Earlier(q, i, "remove", "tree", r)
      BY <1>1, <1>5, <2>1, <3>1, <3>2 DEF OldTreeFirst
    <3> QED
      BY <1>4, <2>1, <3>3 DEF Joined
  <2>2. ASSUME NEW k \in DOMAIN p, i = Len(q) + k
        PROVE  Earlier(c, i, "remove", "tree", r)
    <3>1. r \notin DOMAIN rbfTrees
      BY <1>4, <2>2 DEF Joined
    <3>2. \E j \in DOMAIN q : Is(q[j], "remove", "tree", r)
      BY <1>1, <1>3, <1>5, <1>9, <3>1, StoreOwed
    <3> QED
      BY <1>4, <2>2, <3>2 DEF Joined
  <2> QED
    BY <1>4, <2>1, <2>2 DEF Joined
<1>14. GoneFirst'
  <2> SUFFICES ASSUME NEW r \in Live, r \notin DOMAIN rbfTrees'
               PROVE  \E i \in DOMAIN c :
                        /\ Is(c[i], "remove", "tree", r)
                        /\ \A j \in DOMAIN c, s \in DOMAIN rbfTrees' :
                             j < i /\ Is(c[j], "add", "tree", s) =>
                               Nodes(rbfTrees'[s]) \cap Nodes(saved.trees[r]) = {}
    BY <1>3, <1>9 DEF GoneFirst
  <2>1. \A i \in DOMAIN q, s \in DOMAIN rbfTrees' : Is(q[i], "add", "tree", s) =>
          s \in DOMAIN rbfTrees /\ Nodes(rbfTrees'[s]) = Nodes(rbfTrees[s])
    BY <1>7, <1>8, <1>10
  <2>2. CASE r \notin DOMAIN rbfTrees
    <3>1. PICK i \in DOMAIN q :
            /\ Is(q[i], "remove", "tree", r)
            /\ \A j \in DOMAIN q, s \in DOMAIN rbfTrees : j < i /\ Is(q[j], "add", "tree", s) =>
                 Nodes(rbfTrees[s]) \cap Nodes(saved.trees[r]) = {}
      BY <1>1, <1>5, <2>2 DEF GoneFirst
    <3>2. i \in DOMAIN c /\ Is(c[i], "remove", "tree", r)
      BY <1>4, <3>1 DEF Joined
    <3>3. ASSUME NEW j \in DOMAIN c, NEW s \in DOMAIN rbfTrees', j < i, Is(c[j], "add", "tree", s)
          PROVE  Nodes(rbfTrees'[s]) \cap Nodes(saved.trees[r]) = {}
      <4>1. j \in DOMAIN q /\ Is(q[j], "add", "tree", s)
        BY <1>4, <3>3 DEF Joined
      <4> QED
        BY <2>1, <3>1, <3>3, <4>1
    <3> QED
      BY <3>2, <3>3
  <2>3. CASE r \in DOMAIN rbfTrees
    <3>1. PICK k \in DOMAIN p :
            /\ Is(p[k], "remove", "tree", r)
            /\ \A j \in DOMAIN p, s \in Tx : j < k => ~ Is(p[j], "add", "tree", s)
      BY <2>3
    <3>2. Len(q) + k \in DOMAIN c /\ Is(c[Len(q) + k], "remove", "tree", r)
      BY <1>4, <3>1 DEF Joined
    <3>3. Nodes(saved.trees[r]) = Nodes(rbfTrees[r])
      BY <1>5, <2>3 DEF LiveAgree, Nodes
    <3>4. ASSUME NEW j \in DOMAIN c, NEW s \in DOMAIN rbfTrees', j < Len(q) + k,
                 Is(c[j], "add", "tree", s)
          PROVE  Nodes(rbfTrees'[s]) \cap Nodes(saved.trees[r]) = {}
      <4>1. j \in DOMAIN q
        <5>1. ASSUME NEW l \in DOMAIN p, j = Len(q) + l PROVE FALSE
          <6>1. l < k /\ Is(p[l], "add", "tree", s)
            BY <1>4, <3>4, <5>1 DEF Joined
          <6> QED
            BY <1>7, <3>1, <6>1
        <5> QED
          BY <1>4, <5>1 DEF Joined
      <4>2. Is(q[j], "add", "tree", s)
        BY <1>4, <3>4, <4>1 DEF Joined
      <4>3. s \in DOMAIN rbfTrees /\ Nodes(rbfTrees'[s]) = Nodes(rbfTrees[s]) /\ s # r
        BY <2>1, <4>1, <4>2
      <4> QED
        BY <1>6, <2>3, <3>3, <4>3
    <3> QED
      BY <3>2, <3>4
  <2> QED
    BY <2>2, <2>3
<1>15. RootFirst'
  <2> SUFFICES ASSUME NEW i \in DOMAIN c, NEW r \in Live, NEW x \in Nodes(saved.trees[r]) \ {r},
                      Is(c[i], "remove", "tx", x)
               PROVE  Earlier(c, i, "remove", "tree", r)
    BY <1>3, <1>9 DEF RootFirst
  <2>1. CASE i \in DOMAIN q
    <3>1. Is(q[i], "remove", "tx", x)
      BY <1>4, <2>1 DEF Joined
    <3>2. Earlier(q, i, "remove", "tree", r)
      BY <1>1, <1>5, <2>1, <3>1 DEF RootFirst
    <3> QED
      BY <1>4, <2>1, <3>2 DEF Joined
  <2>2. ASSUME NEW k \in DOMAIN p, i = Len(q) + k
        PROVE  Earlier(c, i, "remove", "tree", r)
    <3>1. Is(p[k], "remove", "tx", x)
      BY <1>4, <2>2 DEF Joined
    <3>2. CASE r \in DOMAIN rbfTrees
      <4>1. x \in Nodes(rbfTrees[r]) \ {r}
        BY <1>5, <3>2 DEF LiveAgree, Nodes
      <4>2. Earlier(p, k, "remove", "tree", r)
        BY <3>1, <3>2, <4>1 DEF Guarded
      <4> QED
        BY <1>4, <2>2, <4>2 DEF Joined
    <3>3. CASE r \notin DOMAIN rbfTrees
      <4>1. \E j \in DOMAIN q : Is(q[j], "remove", "tree", r)
        BY <1>1, <1>5, <3>3 DEF GoneFirst
      <4> QED
        BY <1>4, <2>2, <4>1 DEF Joined
    <3> QED
      BY <3>2, <3>3
  <2> QED
    BY <1>4, <2>1, <2>2 DEF Joined
<1>16. RemovalFollows'
  <2> SUFFICES ASSUME NEW i \in DOMAIN c, NEW r \in Tx \ txs', Is(c[i], "add", "tree", r)
               PROVE  \E j \in DOMAIN c : j > i /\ Is(c[j], "remove", "tx", r)
    BY <1>3 DEF RemovalFollows
  <2>1. CASE i \in DOMAIN q
    <3>1. Is(q[i], "add", "tree", r)
      BY <1>4, <2>1 DEF Joined
    <3>2. CASE r \notin txs
      <4>1. PICK j \in DOMAIN q : j > i /\ Is(q[j], "remove", "tx", r)
        BY <1>1, <1>5, <2>1, <3>1, <3>2 DEF RemovalFollows
      <4> QED
        BY <1>4, <4>1 DEF Joined
    <3>3. CASE r \in txs
      <4>1. PICK e \in ToSet(p) : About(e, "tx", r)
        BY <3>3 DEF Kept
      <4>2. PICK k \in DOMAIN p : e = p[k]
        BY <4>1 DEF ToSet
      <4>3. e \in Events /\ Meant(e)'
        BY <4>1, <4>2 DEF About
      <4>4. Is(p[k], "remove", "tx", r)
        BY <4>1, <4>2, <4>3 DEF About, Meant, Is, Events
      <4>5. Len(q) + k \in DOMAIN c /\ Len(q) + k > i /\ Is(c[Len(q) + k], "remove", "tx", r)
        BY <1>4, <2>1, <4>4 DEF Joined
      <4> QED
        BY <4>5
    <3> QED
      BY <3>2, <3>3
  <2>2. ASSUME NEW k \in DOMAIN p, i = Len(q) + k PROVE FALSE
    <3>1. PICK e : e = p[k]
      OBVIOUS
    <3>2. Is(e, "add", "tree", r) /\ e \in ToSet(p)
      BY <1>4, <2>2, <3>1 DEF Joined, ToSet
    <3>3. Meant(e)'
      BY <3>2 DEF Is
    <3>4. r \in DOMAIN rbfTrees'
      BY <3>2, <3>3 DEF Is, Meant
    <3> QED
      BY <1>7, <3>4
  <2> QED
    BY <1>4, <2>1, <2>2 DEF Joined
<1>17. AlmostCaughtUp'
  BY <1>5, QueueAlmost DEF Recoverable
<1>18. Loadable'
  BY <1>5 DEF Loadable, LiveTrees, Live
<1>19. c \in Seq(Events) /\ IsSnapshot(saved')
  BY <1>4, <1>5 DEF Joined
<1> QED
  BY <1>3, <1>11, <1>12, <1>13, <1>14, <1>15, <1>16, <1>17, <1>18, <1>19
     DEF Recoverable, InOrder, offline
-----------------------------------------------------------------------------
(* Crashes: replaying an event                                             *)

\* Some of the trees of a separate forest are one.
LEMMA SeparateSome ==
  ASSUME NEW trees, Separate(trees), NEW some, DOMAIN some \subseteq DOMAIN trees,
         \A r \in DOMAIN some : some[r].replaces = trees[r].replaces
  PROVE  Separate(some)
<1>1. \A r \in DOMAIN some : Nodes(some[r]) = Nodes(trees[r])
  BY DEF Nodes
<1>2. Rooted(some)
  BY <1>1 DEF Separate, Rooted
<1>3. \A r, q \in DOMAIN some : Nodes(some[r]) \cap Nodes(some[q]) # {} => r = q
  BY <1>1 DEF Separate
<1>4. \A r, q \in DOMAIN some : \A p \in Nodes(some[r]), s \in Nodes(some[q]) :
        some[r].replaces[p] \cap some[q].replaces[s] # {} => p = s
  BY <1>1 DEF Separate
<1>5. \A r \in DOMAIN some : \A x \in Nodes(some[r]) \ {r} :
        \E p \in Nodes(some[r]) : x \in some[r].replaces[p]
  BY <1>1 DEF Separate
<1> QED
  BY <1>2, <1>3, <1>4, <1>5 DEF Separate

\* The trees of `old`, and the tree s of `other`, which has no node in common with them.
Grafted(new, old, other, s) ==
  /\ s \in DOMAIN other
  /\ DOMAIN new = DOMAIN old \cup {s}
  /\ new[s].replaces = other[s].replaces
  /\ \A r \in DOMAIN old : r # s =>
       /\ new[r].replaces = old[r].replaces
       /\ Nodes(old[r]) \cap Nodes(other[s]) = {}

\* They are separate.
LEMMA SeparateWith ==
  ASSUME NEW old, Separate(old), NEW other, Separate(other), NEW s, NEW new,
         Grafted(new, old, other, s)
  PROVE  Separate(new)
<1>0. /\ s \in DOMAIN other /\ DOMAIN new = DOMAIN old \cup {s}
      /\ new[s].replaces = other[s].replaces
      /\ \A r \in DOMAIN old : r # s =>
           /\ new[r].replaces = old[r].replaces
           /\ Nodes(old[r]) \cap Nodes(other[s]) = {}
  BY DEF Grafted
<1>1. /\ Nodes(new[s]) = Nodes(other[s])
      /\ \A r \in DOMAIN old : r # s => Nodes(new[r]) = Nodes(old[r])
  BY <1>0 DEF Nodes
<1>2. /\ \A r \in DOMAIN old : \A p \in Nodes(old[r]) : old[r].replaces[p] \subseteq Nodes(old[r])
      /\ \A p \in Nodes(other[s]) : other[s].replaces[p] \subseteq Nodes(other[s])
  BY <1>0 DEF Separate, Rooted
<1>3. Rooted(new)
  <2>1. ASSUME NEW r \in DOMAIN new
        PROVE  /\ r \in Nodes(new[r])
               /\ \A p \in Nodes(new[r]) : new[r].replaces[p] \subseteq Nodes(new[r]) \ {r}
               /\ Nodes(new[r]) \subseteq Below(new[r].replaces, {r})
    <3>1. CASE r = s
      <4>1. s \in DOMAIN other /\ new[r].replaces = other[s].replaces /\ Nodes(new[r]) = Nodes(other[s])
        BY <1>0, <1>1, <3>1
      <4> QED
        BY <1>0, <3>1, <4>1 DEF Separate, Rooted
    <3>2. CASE r # s
      <4>1. r \in DOMAIN old /\ new[r].replaces = old[r].replaces /\ Nodes(new[r]) = Nodes(old[r])
        BY <1>0, <1>1, <3>2
      <4> QED
        BY <1>0, <4>1 DEF Separate, Rooted
    <3> QED
      BY <3>1, <3>2
  <2> QED
    BY <2>1 DEF Rooted
<1>4. \A r, q \in DOMAIN new : Nodes(new[r]) \cap Nodes(new[q]) # {} => r = q
  BY <1>0, <1>1 DEF Separate
<1>5. ASSUME NEW r \in DOMAIN new, NEW q \in DOMAIN new, NEW p \in Nodes(new[r]), NEW t \in Nodes(new[q]),
             new[r].replaces[p] \cap new[q].replaces[t] # {}
      PROVE  p = t
  <2>1. \A k \in DOMAIN new : \A x \in Nodes(new[k]) : new[k].replaces[x] \subseteq Nodes(new[k])
    BY <1>3 DEF Rooted
  <2>2. r = q
    BY <1>4, <1>5, <2>1
  <2>3. CASE r = s
    BY <1>0, <1>1, <1>5, <2>2, <2>3 DEF Separate
  <2>4. CASE r # s
    BY <1>0, <1>1, <1>5, <2>2, <2>4 DEF Separate
  <2> QED
    BY <2>3, <2>4
<1>6. ASSUME NEW r \in DOMAIN new, NEW x \in Nodes(new[r]) \ {r}
      PROVE  \E p \in Nodes(new[r]) : x \in new[r].replaces[p]
  <2>1. CASE r = s
    BY <1>0, <1>1, <1>6, <2>1 DEF Separate
  <2>2. CASE r # s
    BY <1>0, <1>1, <1>6, <2>2 DEF Separate
  <2> QED
    BY <2>1, <2>2
<1> QED
  BY <1>3, <1>4, <1>5, <1>6 DEF Separate

\* What is left in order when the store loses, or gains without a tree for it.
LEMMA ShrunkInOrder ==
  ASSUME Recoverable, UNCHANGED memory, NEW q, q = cacheQueue, NEW c, cacheQueue' = c,
         RestOf(c, q), NEW e, e = Head(q),
         Live' \subseteq Live,
         DOMAIN saved'.trees \subseteq DOMAIN saved.trees,
         \A r \in DOMAIN saved'.trees : /\ saved'.trees[r] = saved.trees[r]
                                        /\ ~ Is(e, "remove", "tree", r),
         \A x \in txs : x \in saved.txs \/ Is(e, "add", "tx", x) => x \in saved'.txs,
         \A r \in Live' : Nodes(saved.trees[r]) \subseteq saved'.txs
  PROVE  Loadable' /\ InOrder'
<1>1. /\ Sound /\ Loadable
      /\ LiveAgree /\ TxsFirst /\ OldTreeFirst /\ GoneFirst /\ RootFirst /\ RemovalFollows
  BY DEF Recoverable, InOrder
<1>2. \A r \in DOMAIN rbfTrees : Nodes(rbfTrees[r]) \subseteq txs
  BY <1>1, SoundTrees
<1>3. txs' = txs /\ rbfTrees' = rbfTrees
  BY DEF memory
<1>4. \A r \in Live' : r \in Live /\ saved'.trees[r] = saved.trees[r] /\ ~ Is(e, "remove", "tree", r)
  BY DEF Live
<1>5. Loadable'
  <2>1. /\ DOMAIN LiveTrees' = Live' /\ DOMAIN LiveTrees = Live
        /\ \A r \in Live' : LiveTrees'[r] = LiveTrees[r]
    BY <1>4 DEF LiveTrees
  <2>2. Separate(LiveTrees)
    BY <1>1 DEF Loadable
  <2>3. Separate(LiveTrees')
    BY <2>1, <2>2, SeparateSome
  <2> QED
    BY <1>4, <2>3 DEF Loadable
<1>6. LiveAgree'
  BY <1>1, <1>3, <1>4 DEF LiveAgree
<1>7. TxsFirst'
  <2> SUFFICES ASSUME NEW i \in DOMAIN c, NEW r \in DOMAIN rbfTrees, Is(c[i], "add", "tree", r),
                      NEW x \in Nodes(rbfTrees[r])
               PROVE  x \in saved'.txs \/ Earlier(c, i, "add", "tx", x)
    BY <1>3 DEF TxsFirst
  <2>1. i + 1 \in DOMAIN q /\ Is(q[i + 1], "add", "tree", r)
    BY DEF RestOf
  <2>2. x \in saved.txs \/ Earlier(q, i + 1, "add", "tx", x)
    BY <1>1, <2>1 DEF TxsFirst
  <2>3. x \in txs
    BY <1>2
  <2> QED
    BY <2>2, <2>3 DEF RestOf
<1>8. OldTreeFirst'
  <2> SUFFICES ASSUME NEW i \in DOMAIN c, NEW r \in (DOMAIN saved'.trees \cap txs) \ saved'.txs,
                      Is(c[i], "add", "tx", r)
               PROVE  Earlier(c, i, "remove", "tree", r)
    BY <1>3 DEF OldTreeFirst
  <2>1. i + 1 \in DOMAIN q /\ Is(q[i + 1], "add", "tx", r)
    BY DEF RestOf
  <2>2. r \in (DOMAIN saved.trees \cap txs) \ saved.txs
    OBVIOUS
  <2>3. Earlier(q, i + 1, "remove", "tree", r)
    BY <1>1, <2>1, <2>2 DEF OldTreeFirst
  <2> QED
    BY <2>3 DEF RestOf
<1>9. GoneFirst'
  <2> SUFFICES ASSUME NEW r \in Live', r \notin DOMAIN rbfTrees
               PROVE  \E i \in DOMAIN c :
                        /\ Is(c[i], "remove", "tree", r)
                        /\ \A j \in DOMAIN c, s \in DOMAIN rbfTrees :
                             j < i /\ Is(c[j], "add", "tree", s) =>
                               Nodes(rbfTrees[s]) \cap Nodes(saved'.trees[r]) = {}
    BY <1>3 DEF GoneFirst
  <2>1. r \in Live \ DOMAIN rbfTrees /\ saved'.trees[r] = saved.trees[r] /\ ~ Is(e, "remove", "tree", r)
    BY <1>4
  <2>2. PICK i \in DOMAIN q :
          /\ Is(q[i], "remove", "tree", r)
          /\ \A j \in DOMAIN q, s \in DOMAIN rbfTrees : j < i /\ Is(q[j], "add", "tree", s) =>
               Nodes(rbfTrees[s]) \cap Nodes(saved.trees[r]) = {}
    BY <1>1, <2>1 DEF GoneFirst
  <2>3. PICK k \in DOMAIN c : i = k + 1
    BY <2>1, <2>2 DEF RestOf
  <2>4. Is(c[k], "remove", "tree", r)
    BY <2>2, <2>3 DEF RestOf
  <2>5. ASSUME NEW j \in DOMAIN c, NEW s \in DOMAIN rbfTrees, j < k, Is(c[j], "add", "tree", s)
        PROVE  Nodes(rbfTrees[s]) \cap Nodes(saved'.trees[r]) = {}
    <3>1. j + 1 \in DOMAIN q /\ j + 1 < i /\ Is(q[j + 1], "add", "tree", s)
      BY <2>3, <2>5 DEF RestOf
    <3> QED
      BY <2>1, <2>2, <3>1
  <2> QED
    BY <2>4, <2>5
<1>10. RootFirst'
  <2> SUFFICES ASSUME NEW i \in DOMAIN c, NEW r \in Live', NEW x \in Nodes(saved'.trees[r]) \ {r},
                      Is(c[i], "remove", "tx", x)
               PROVE  Earlier(c, i, "remove", "tree", r)
    BY DEF RootFirst
  <2>1. i + 1 \in DOMAIN q /\ Is(q[i + 1], "remove", "tx", x)
    BY DEF RestOf
  <2>2. Earlier(q, i + 1, "remove", "tree", r)
    BY <1>1, <1>4, <2>1 DEF RootFirst
  <2> QED
    BY <1>4, <2>2 DEF RestOf
<1>11. RemovalFollows'
  <2> SUFFICES ASSUME NEW i \in DOMAIN c, NEW r \in Tx \ txs, Is(c[i], "add", "tree", r)
               PROVE  \E j \in DOMAIN c : j > i /\ Is(c[j], "remove", "tx", r)
    BY <1>3 DEF RemovalFollows
  <2>1. i + 1 \in DOMAIN q /\ 1 < i + 1 /\ Is(q[i + 1], "add", "tree", r)
    BY DEF RestOf
  <2>2. PICK j \in DOMAIN q : j > i + 1 /\ Is(q[j], "remove", "tx", r)
    BY <1>1, <2>1 DEF RemovalFollows
  <2>3. PICK k \in DOMAIN c : j = k + 1
    <3>1. i \in Nat /\ j # 1
      BY <2>1, <2>2 DEF RestOf
    <3> QED
      BY <3>1 DEF RestOf
  <2>4. k > i /\ Is(c[k], "remove", "tx", r)
    BY <2>2, <2>3 DEF RestOf
  <2> QED
    BY <2>4
<1> QED
  BY <1>5, <1>6, <1>7, <1>8, <1>9, <1>10, <1>11 DEF InOrder

\* A meant event leaves its key like memory; no event touches another key.
LEMMA StoredAlike ==
  ASSUME IsSnapshot(saved), UNCHANGED memory, NEW e \in Events, saved' = Stored(e)
  PROVE  /\ Meant(e) => Alike(e.type, e.txid)'
         /\ \A type \in {"tx", "tree"}, t \in Tx :
              ~ About(e, type, t) /\ Alike(type, t) => Alike(type, t)'
<1>1. e.type \in {"tx", "tree", "exp"} /\ e.op \in {"add", "remove"}
  BY DEF Events, Types
<1>2. txs' = txs /\ rbfTrees' = rbfTrees
  BY DEF memory
<1>3. PICK x : x = e.txid
  OBVIOUS
<1>4. CASE e.type = "tx"
  <2>1. /\ saved'.trees = saved.trees
        /\ saved'.txs = IF e.op # "add" THEN saved.txs \ {x}
                        ELSE IF x \in txs THEN saved.txs \cup {x} ELSE saved.txs
    BY <1>3, <1>4, StoredIs
  <2>2. Meant(e) => Alike("tx", x)'
    BY <1>1, <1>2, <1>3, <1>4, <2>1 DEF Meant, Alike
  <2>3. ASSUME NEW type \in {"tx", "tree"}, NEW t \in Tx, ~ About(e, type, t), Alike(type, t)
        PROVE  Alike(type, t)'
    <3>1. type = "tx" => t # x
      BY <1>3, <1>4, <2>3 DEF About
    <3> QED
      BY <1>2, <2>1, <2>3, <3>1 DEF Alike
  <2> QED
    BY <1>3, <1>4, <2>2, <2>3
<1>5. CASE e.type = "tree"
  <2>1. /\ saved'.txs = saved.txs
        /\ saved'.trees = IF e.op # "add" THEN Without(saved.trees, x)
                          ELSE IF x \in DOMAIN rbfTrees THEN With(saved.trees, x, rbfTrees[x])
                          ELSE saved.trees
    BY <1>3, <1>5, StoredIs
  <2>2. Meant(e) => Alike("tree", x)'
    BY <1>1, <1>2, <1>3, <1>5, <2>1 DEF Meant, Alike, With, Without
  <2>3. ASSUME NEW type \in {"tx", "tree"}, NEW t \in Tx, ~ About(e, type, t), Alike(type, t)
        PROVE  Alike(type, t)'
    <3>1. CASE type = "tree"
      <4>1. t # x
        BY <1>3, <1>5, <2>3, <3>1 DEF About
      <4>2. /\ t \in DOMAIN saved'.trees <=> t \in DOMAIN saved.trees
            /\ t \in DOMAIN saved.trees => saved'.trees[t] = saved.trees[t]
        BY <2>1, <4>1 DEF With, Without
      <4> QED
        BY <1>2, <2>3, <3>1, <4>2 DEF Alike
    <3>2. CASE type # "tree"
      BY <1>2, <2>1, <2>3, <3>2 DEF Alike
    <3> QED
      BY <3>1, <3>2
  <2> QED
    BY <1>3, <1>5, <2>2, <2>3
<1>6. CASE e.type = "exp"
  <2>1. saved'.txs = saved.txs /\ saved'.trees = saved.trees
    BY <1>6, StoredIs
  <2> QED
    BY <1>2, <1>6, <2>1 DEF Alike
<1> QED
  BY <1>1, <1>4, <1>5, <1>6

\* What is left in order when the store gains a tree.
LEMMA GrownInOrder ==
  ASSUME Recoverable, NoneReturns, UNCHANGED memory, NEW q, q = cacheQueue, NEW c, cacheQueue' = c,
         RestOf(c, q), NEW e, e = Head(q), NEW s \in DOMAIN rbfTrees, Is(e, "add", "tree", s),
         saved'.txs = saved.txs, saved'.trees = With(saved.trees, s, rbfTrees[s])
  PROVE  Loadable' /\ InOrder'
<1>1. /\ Sound /\ Loadable
      /\ LiveAgree /\ TxsFirst /\ OldTreeFirst /\ GoneFirst /\ RootFirst /\ RemovalFollows
  BY DEF Recoverable, InOrder
<1>2. /\ \A r \in DOMAIN rbfTrees : r \in Nodes(rbfTrees[r]) /\ Nodes(rbfTrees[r]) \subseteq txs
      /\ \A r, k \in DOMAIN rbfTrees : Nodes(rbfTrees[r]) \cap Nodes(rbfTrees[k]) # {} => r = k
  BY <1>1, SoundTrees
<1>3. txs' = txs /\ rbfTrees' = rbfTrees
  BY DEF memory
<1>4. /\ 1 \in DOMAIN q /\ Is(q[1], "add", "tree", s) /\ \A op, type, t : ~ Earlier(q, 1, op, type, t)
  BY DEF RestOf
<1>5. Nodes(rbfTrees[s]) \subseteq saved.txs
  BY <1>1, <1>4 DEF TxsFirst
<1>6. /\ DOMAIN saved'.trees = DOMAIN saved.trees \cup {s}
      /\ saved'.trees[s] = rbfTrees[s]
      /\ \A r \in DOMAIN saved.trees : r # s => saved'.trees[r] = saved.trees[r]
  BY DEF With
<1>7. s \in saved.txs
  BY <1>2, <1>5
<1>8. Live' = Live \cup {s}
  BY <1>6, <1>7 DEF Live
<1>9. \A r \in Live : r # s => Nodes(saved.trees[r]) \cap Nodes(rbfTrees[s]) = {}
  <2> SUFFICES ASSUME NEW r \in Live, r # s
               PROVE  Nodes(saved.trees[r]) \cap Nodes(rbfTrees[s]) = {}
    OBVIOUS
  <2>1. CASE r \in DOMAIN rbfTrees
    <3>1. Nodes(saved.trees[r]) = Nodes(rbfTrees[r])
      BY <1>1, <2>1 DEF LiveAgree, Nodes
    <3> QED
      BY <1>2, <2>1, <3>1
  <2>2. CASE r \notin DOMAIN rbfTrees
    <3>1. PICK i \in DOMAIN q :
            /\ Is(q[i], "remove", "tree", r)
            /\ \A j \in DOMAIN q, k \in DOMAIN rbfTrees : j < i /\ Is(q[j], "add", "tree", k) =>
                 Nodes(rbfTrees[k]) \cap Nodes(saved.trees[r]) = {}
      BY <1>1, <2>2 DEF GoneFirst
    <3>2. i # 1
      BY <1>4, <3>1 DEF Is
    <3>3. 1 < i
      BY <3>1, <3>2 DEF RestOf
    <3> QED
      BY <1>4, <3>1, <3>3
  <2> QED
    BY <2>1, <2>2
<1>10. \A r \in Live' : r # s => r \in Live /\ saved'.trees[r] = saved.trees[r]
  BY <1>6, <1>8 DEF Live
<1>11. Loadable'
  <2>0. PICK old, new, other : old = LiveTrees /\ new = LiveTrees' /\ other = rbfTrees
    OBVIOUS
  <2>1. Grafted(new, old, other, s)
    BY <1>6, <1>8, <1>9, <1>10, <2>0 DEF LiveTrees, Grafted
  <2>2. Separate(old) /\ Separate(other)
    BY <1>1, <2>0, SoundSeparate DEF Loadable
  <2>3. Separate(new)
    BY <2>1, <2>2, SeparateWith
  <2>4. \A r \in Live' : Nodes(saved'.trees[r]) \subseteq saved'.txs
    BY <1>1, <1>5, <1>6, <1>10 DEF Loadable
  <2> QED
    BY <2>0, <2>3, <2>4 DEF Loadable
<1>12. LiveAgree'
  BY <1>1, <1>3, <1>6, <1>10 DEF LiveAgree
<1>13. TxsFirst'
  <2> SUFFICES ASSUME NEW i \in DOMAIN c, NEW r \in DOMAIN rbfTrees, Is(c[i], "add", "tree", r),
                      NEW x \in Nodes(rbfTrees[r])
               PROVE  x \in saved'.txs \/ Earlier(c, i, "add", "tx", x)
    BY <1>3 DEF TxsFirst
  <2>1. i + 1 \in DOMAIN q /\ Is(q[i + 1], "add", "tree", r)
    BY DEF RestOf
  <2>2. x \in saved.txs \/ Earlier(q, i + 1, "add", "tx", x)
    BY <1>1, <2>1 DEF TxsFirst
  <2>3. ~ Is(e, "add", "tx", x)
    BY DEF Is
  <2> QED
    BY <2>2, <2>3 DEF RestOf
<1>14. OldTreeFirst'
  <2> SUFFICES ASSUME NEW i \in DOMAIN c, NEW r \in (DOMAIN saved'.trees \cap txs) \ saved'.txs,
                      Is(c[i], "add", "tx", r)
               PROVE  Earlier(c, i, "remove", "tree", r)
    BY <1>3 DEF OldTreeFirst
  <2>1. i + 1 \in DOMAIN q /\ Is(q[i + 1], "add", "tx", r)
    BY DEF RestOf
  <2>2. r \in (DOMAIN saved.trees \cap txs) \ saved.txs
    BY <1>6, <1>7
  <2>3. Earlier(q, i + 1, "remove", "tree", r)
    BY <1>1, <2>1, <2>2 DEF OldTreeFirst
  <2>4. ~ Is(e, "remove", "tree", r)
    BY DEF Is
  <2> QED
    BY <2>3, <2>4 DEF RestOf
<1>15. GoneFirst'
  <2> SUFFICES ASSUME NEW r \in Live', r \notin DOMAIN rbfTrees
               PROVE  \E i \in DOMAIN c :
                        /\ Is(c[i], "remove", "tree", r)
                        /\ \A j \in DOMAIN c, k \in DOMAIN rbfTrees :
                             j < i /\ Is(c[j], "add", "tree", k) =>
                               Nodes(rbfTrees[k]) \cap Nodes(saved'.trees[r]) = {}
    BY <1>3 DEF GoneFirst
  <2>1. r \in Live \ DOMAIN rbfTrees /\ saved'.trees[r] = saved.trees[r]
    BY <1>10
  <2>2. PICK i \in DOMAIN q :
          /\ Is(q[i], "remove", "tree", r)
          /\ \A j \in DOMAIN q, k \in DOMAIN rbfTrees : j < i /\ Is(q[j], "add", "tree", k) =>
               Nodes(rbfTrees[k]) \cap Nodes(saved.trees[r]) = {}
    BY <1>1, <2>1 DEF GoneFirst
  <2>3. i # 1
    BY <1>4, <2>2 DEF Is
  <2>4. PICK k \in DOMAIN c : i = k + 1
    BY <2>2, <2>3 DEF RestOf
  <2>5. Is(c[k], "remove", "tree", r)
    BY <2>2, <2>4 DEF RestOf
  <2>6. ASSUME NEW j \in DOMAIN c, NEW p \in DOMAIN rbfTrees, j < k, Is(c[j], "add", "tree", p)
        PROVE  Nodes(rbfTrees[p]) \cap Nodes(saved'.trees[r]) = {}
    <3>1. j + 1 \in DOMAIN q /\ j + 1 < i /\ Is(q[j + 1], "add", "tree", p)
      BY <2>4, <2>6 DEF RestOf
    <3> QED
      BY <2>1, <2>2, <3>1
  <2> QED
    BY <2>5, <2>6
<1>16. RootFirst'
  <2> SUFFICES ASSUME NEW i \in DOMAIN c, NEW r \in Live', NEW x \in Nodes(saved'.trees[r]) \ {r},
                      Is(c[i], "remove", "tx", x)
               PROVE  Earlier(c, i, "remove", "tree", r)
    BY DEF RootFirst
  <2>1. i + 1 \in DOMAIN q /\ Is(q[i + 1], "remove", "tx", x)
    BY DEF RestOf
  <2>2. x \notin txs
    BY <2>1 DEF NoneReturns, Is
  <2>3. r # s
    BY <1>2, <1>6, <2>2
  <2>4. Earlier(q, i + 1, "remove", "tree", r)
    BY <1>1, <1>10, <2>1, <2>3 DEF RootFirst
  <2>5. ~ Is(e, "remove", "tree", r)
    BY DEF Is
  <2> QED
    BY <2>4, <2>5 DEF RestOf
<1>17. RemovalFollows'
  <2> SUFFICES ASSUME NEW i \in DOMAIN c, NEW r \in Tx \ txs, Is(c[i], "add", "tree", r)
               PROVE  \E j \in DOMAIN c : j > i /\ Is(c[j], "remove", "tx", r)
    BY <1>3 DEF RemovalFollows
  <2>1. i + 1 \in DOMAIN q /\ 1 < i + 1 /\ Is(q[i + 1], "add", "tree", r)
    BY DEF RestOf
  <2>2. PICK j \in DOMAIN q : j > i + 1 /\ Is(q[j], "remove", "tx", r)
    BY <1>1, <2>1 DEF RemovalFollows
  <2>3. j # 1
    BY <1>4, <2>2 DEF Is
  <2>4. PICK k \in DOMAIN c : j = k + 1
    BY <2>2, <2>3 DEF RestOf
  <2>5. k > i /\ Is(c[k], "remove", "tx", r)
    BY <2>2, <2>4 DEF RestOf
  <2> QED
    BY <2>5
<1> QED
  BY <1>11, <1>12, <1>13, <1>14, <1>15, <1>16, <1>17 DEF InOrder

\* Replaying an event keeps what a crash needs.
LEMMA ReplayInOrder ==
  ASSUME Recoverable, NoneReturns, UNCHANGED memory, NEW q, q = cacheQueue, NEW c, cacheQueue' = c,
         RestOf(c, q), NEW e, e = Head(q), saved' = Stored(e)
  PROVE  Loadable' /\ InOrder'
<1>1. e \in Events /\ e = q[1] /\ 1 \in DOMAIN q /\ \A op, type, t : ~ Earlier(q, 1, op, type, t)
  BY DEF RestOf
<1>2. PICK t : t = e.txid
  OBVIOUS
<1>3. /\ IsSnapshot(saved) /\ Loadable
      /\ OldTreeFirst /\ RootFirst
      /\ \A r \in Live : Nodes(saved.trees[r]) \subseteq saved.txs
  BY DEF Recoverable, InOrder, Loadable
<1>4. /\ saved'.txs = IF e.type # "tx" THEN saved.txs
                      ELSE IF e.op # "add" THEN saved.txs \ {t}
                      ELSE IF t \in txs THEN saved.txs \cup {t} ELSE saved.txs
      /\ saved'.trees = IF e.type # "tree" THEN saved.trees
                        ELSE IF e.op # "add" THEN Without(saved.trees, t)
                        ELSE IF t \in DOMAIN rbfTrees
                             THEN With(saved.trees, t, rbfTrees[t]) ELSE saved.trees
  BY <1>1, <1>2, <1>3, StoredIs
<1>5. e.type \in {"tx", "tree", "exp"} /\ e.op \in {"add", "remove"}
  BY <1>1 DEF Events, Types
<1>6. CASE e.type = "tree" /\ e.op = "add" /\ t \in DOMAIN rbfTrees
  <2>1. Is(e, "add", "tree", t)
    BY <1>2, <1>6 DEF Is
  <2>2. saved'.txs = saved.txs /\ saved'.trees = With(saved.trees, t, rbfTrees[t])
    BY <1>4, <1>6
  <2> QED
    BY <1>6, <2>1, <2>2, GrownInOrder
<1>7. CASE ~(e.type = "tree" /\ e.op = "add" /\ t \in DOMAIN rbfTrees)
  <2>1. /\ DOMAIN saved'.trees \subseteq DOMAIN saved.trees
        /\ \A r \in DOMAIN saved'.trees : /\ saved'.trees[r] = saved.trees[r]
                                          /\ ~ Is(e, "remove", "tree", r)
    BY <1>2, <1>4, <1>5, <1>7 DEF Without, Is
  <2>2. e.type = "tx" /\ e.op = "remove" => t \notin txs
    BY <1>1, <1>2 DEF NoneReturns
  <2>3. \A x \in txs : x \in saved.txs \/ Is(e, "add", "tx", x) => x \in saved'.txs
    BY <1>2, <1>4, <1>5, <2>2 DEF Is
  <2>4. Live' \subseteq Live /\ \A r \in Live' : Nodes(saved.trees[r]) \subseteq saved'.txs
    <3>1. CASE e.type = "tx" /\ e.op = "add" /\ t \in txs
      <4>1. saved'.txs = saved.txs \cup {t} /\ saved'.trees = saved.trees
        BY <1>4, <3>1
      <4>2. Is(q[1], "add", "tx", t)
        BY <1>1, <1>2, <3>1 DEF Is
      <4>3. t \in DOMAIN saved.trees => t \in saved.txs
        BY <1>1, <1>3, <3>1, <4>2 DEF OldTreeFirst
      <4>4. Live' = Live
        BY <4>1, <4>3 DEF Live
      <4> QED
        BY <1>3, <4>1, <4>4
    <3>2. CASE e.type = "tx" /\ e.op = "remove"
      <4>1. saved'.txs = saved.txs \ {t} /\ saved'.trees = saved.trees
        BY <1>4, <3>2
      <4>2. Is(q[1], "remove", "tx", t)
        BY <1>1, <1>2, <3>2 DEF Is
      <4>3. \A r \in Live : t \in Nodes(saved.trees[r]) => t = r
        BY <1>1, <1>3, <4>2 DEF RootFirst
      <4>4. \A r \in Live' : r \in Live /\ r # t
        BY <4>1 DEF Live
      <4> QED
        BY <1>3, <4>1, <4>3, <4>4
    <3>3. CASE ~(e.type = "tx" /\ e.op = "add" /\ t \in txs) /\ ~(e.type = "tx" /\ e.op = "remove")
      <4>1. saved'.txs = saved.txs
        BY <1>4, <1>5, <3>3
      <4>2. Live' \subseteq Live
        BY <2>1, <4>1 DEF Live
      <4> QED
        BY <1>3, <4>1, <4>2
    <3> QED
      BY <1>5, <3>1, <3>2, <3>3
  <2> QED
    BY <2>1, <2>3, <2>4, ShrunkInOrder
<1> QED
  BY <1>6, <1>7

\* Steps that leave memory alone keep it sound.
LEMMA SameMemorySound ==
  ASSUME Sound, UNCHANGED memory
  PROVE  Sound'
<1>1. MemoryOK'
  BY DEF MemoryOK, memory, Sound
<1> QED
  BY <1>1, SameNestingSound DEF memory, maps

\* A command of updateCache(), after which the process may be gone, keeps the store loadable.
LEMMA ReplayRecoverable ==
  ASSUME Recoverable, NoneReturns, Replay, ~ Fail("lost")
  PROVE  Recoverable'
<1>1. PICK q : q = cacheQueue
  OBVIOUS
<1>2. PICK c : c = Tail(q)
  OBVIOUS
<1>3. PICK e : e = Head(q)
  OBVIOUS
<1>4. /\ q # <<>> /\ cacheQueue' = c /\ q \in Seq(Events)
      /\ UNCHANGED <<memory, phase, connected, flushing>>
  BY <1>1, <1>2 DEF Replay, Recoverable
<1>5. RestOf(c, q)
  BY <1>2, <1>4, Shifted
<1>6. e \in Events
  BY <1>3, <1>5 DEF RestOf
<1>7. saved' = Stored(e) /\ UNCHANGED offline
  <2>1. connected /\ ~ Lost
    BY DEF Recoverable, Lost
  <2>2. \/ e.op = "add" /\ ~ Vanished(e) /\ SetRbfEntry(Current(e))
        \/ e.op = "add" /\ Vanished(e) /\ UNCHANGED <<saved, offline, failures>>
        \/ e.op = "remove" /\ RemoveRbfEntry(e)
    BY <1>1, <1>3 DEF Replay
  <2> QED
    BY <2>1, <2>2 DEF SetRbfEntry, RemoveRbfEntry, Stored
<1>8. Sound /\ MemoryOK /\ IsSnapshot(saved) /\ AlmostCaughtUp
  BY DEF Recoverable, Sound
<1>9. IsSnapshot(saved')
  BY <1>6, <1>7, <1>8, StoredWell
<1>10. Sound'
  BY <1>4, <1>8, SameMemorySound
<1>11. AlmostCaughtUp'
  <2>1. /\ Meant(e) => Alike(e.type, e.txid)'
        /\ \A type \in {"tx", "tree"}, t \in Tx :
             ~ About(e, type, t) /\ Alike(type, t) => Alike(type, t)'
    BY <1>4, <1>6, <1>7, <1>8, StoredAlike
  <2> QED
    BY <1>1, <1>2, <1>3, <1>4, <1>8, <2>1, TailAlmost
<1>12. Loadable' /\ InOrder'
  BY <1>1, <1>3, <1>4, <1>5, <1>7, ReplayInOrder
<1>13. c \in Seq(Events)
  BY <1>5 DEF RestOf
<1> QED
  BY <1>4, <1>7, <1>9, <1>10, <1>11, <1>12, <1>13 DEF Recoverable, offline
-----------------------------------------------------------------------------
(* Crashes: steps that move deadlines and flags                            *)

\* A queue of the same events, but for the deadlines.
SameEvents(c, q) ==
  /\ c \in Seq(Events) /\ DOMAIN c = DOMAIN q
  /\ \A i \in DOMAIN q : c[i].op = q[i].op /\ c[i].type = q[i].type /\ c[i].txid = q[i].txid

\* A step that changes at most deadlines and the flags of trees keeps everything in order.
LEMMA SteadyRecoverable ==
  ASSUME Recoverable, Sound', IsSnapshot(saved'), SameEvents(cacheQueue', cacheQueue),
         txs' = txs, rbfTrees' = rbfTrees, saved'.txs = saved.txs, saved'.trees = saved.trees,
         connected' = connected, rbfCacheQueue' = <<>>, rbfRemoveQueue' = <<>>,
         flushing' = [step |-> "idle", todo |-> <<>>]
  PROVE  Recoverable'
<1>1. PICK q : q = cacheQueue
  OBVIOUS
<1>2. PICK c : c = cacheQueue'
  OBVIOUS
<1>3. /\ c \in Seq(Events) /\ DOMAIN c = DOMAIN q
      /\ \A i \in DOMAIN q : c[i].op = q[i].op /\ c[i].type = q[i].type /\ c[i].txid = q[i].txid
  BY <1>1, <1>2 DEF SameEvents
<1>4. /\ \A i \in DOMAIN q : \A op, type, t : Is(c[i], op, type, t) <=> Is(q[i], op, type, t)
      /\ \A i \in DOMAIN q : \A type, t : About(c[i], type, t) <=> About(q[i], type, t)
  BY <1>3 DEF Is, About
<1>5. \A i \in DOMAIN q : \A op, type, t : Earlier(c, i, op, type, t) <=> Earlier(q, i, op, type, t)
  BY <1>3, <1>4 DEF Earlier
<1>6. /\ Loadable /\ AlmostCaughtUp
      /\ LiveAgree /\ TxsFirst /\ OldTreeFirst /\ GoneFirst /\ RootFirst /\ RemovalFollows
  BY DEF Recoverable, InOrder
<1>7. Live' = Live /\ LiveTrees' = LiveTrees
  BY DEF Live, LiveTrees
<1>8. Loadable'
  BY <1>6, <1>7 DEF Loadable
<1>9. AlmostCaughtUp'
  <2>1. \A type, t : Alike(type, t)' <=> Alike(type, t)
    BY DEF Alike
  <2>2. \A i \in DOMAIN q, type \in {"tx", "tree"} : \A t :
          About(q[i], type, t) => (Meant(c[i])' <=> Meant(q[i]))
    BY <1>3 DEF Meant, About
  <2>3. \A type \in {"tx", "tree"}, t \in Tx :
          /\ (\A i \in DOMAIN q : ~ About(q[i], type, t)) => Alike(type, t)
          /\ \A i \in DOMAIN q :
               About(q[i], type, t) /\ (\A j \in DOMAIN q : j > i => ~ About(q[j], type, t)) =>
                 Meant(q[i])
    BY <1>1, <1>6 DEF AlmostCaughtUp
  <2>4. \A type \in {"tx", "tree"}, t \in Tx :
          /\ (\A i \in DOMAIN c : ~ About(c[i], type, t)) => Alike(type, t)'
          /\ \A i \in DOMAIN c :
               About(c[i], type, t) /\ (\A j \in DOMAIN c : j > i => ~ About(c[j], type, t)) =>
                 Meant(c[i])'
    BY <1>3, <1>4, <2>1, <2>2, <2>3
  <2> QED
    BY <1>2, <2>4 DEF AlmostCaughtUp
<1>10. InOrder'
  <2>1. LiveAgree'
    BY <1>6, <1>7 DEF LiveAgree
  <2>2. TxsFirst'
    BY <1>1, <1>2, <1>3, <1>4, <1>5, <1>6 DEF TxsFirst
  <2>3. OldTreeFirst'
    BY <1>1, <1>2, <1>3, <1>4, <1>5, <1>6 DEF OldTreeFirst
  <2>4. GoneFirst'
    <3> SUFFICES ASSUME NEW r \in Live, r \notin DOMAIN rbfTrees
                 PROVE  \E i \in DOMAIN c :
                          /\ Is(c[i], "remove", "tree", r)
                          /\ \A j \in DOMAIN c, s \in DOMAIN rbfTrees :
                               j < i /\ Is(c[j], "add", "tree", s) =>
                                 Nodes(rbfTrees[s]) \cap Nodes(saved.trees[r]) = {}
      BY <1>2, <1>7 DEF GoneFirst
    <3>1. PICK i \in DOMAIN q :
            /\ Is(q[i], "remove", "tree", r)
            /\ \A j \in DOMAIN q, s \in DOMAIN rbfTrees : j < i /\ Is(q[j], "add", "tree", s) =>
                 Nodes(rbfTrees[s]) \cap Nodes(saved.trees[r]) = {}
      BY <1>1, <1>6 DEF GoneFirst
    <3> QED
      BY <1>3, <1>4, <3>1
  <2>5. RootFirst'
    BY <1>1, <1>2, <1>3, <1>4, <1>5, <1>6, <1>7 DEF RootFirst
  <2>6. RemovalFollows'
    BY <1>1, <1>2, <1>3, <1>4, <1>6 DEF RemovalFollows
  <2> QED
    BY <2>1, <2>2, <2>3, <2>4, <2>5, <2>6 DEF InOrder
<1> QED
  BY <1>2, <1>3, <1>8, <1>9, <1>10 DEF Recoverable

\* Where an update begins or ends, and where checkTrees() begins.
LEMMA IdleRecoverable ==
  ASSUME Recoverable, UNCHANGED <<memory, saved, cacheQueue, connected, offline, flushing>>
  PROVE  Recoverable'
<1>1. Sound' /\ IsSnapshot(saved')
  BY SameMemorySound DEF Recoverable
<1>2. SameEvents(cacheQueue', cacheQueue)
  BY DEF SameEvents, Recoverable
<1>3. txs' = txs /\ rbfTrees' = rbfTrees
  BY DEF memory
<1>4. /\ connected' = connected /\ rbfCacheQueue' = <<>> /\ rbfRemoveQueue' = <<>>
      /\ flushing' = [step |-> "idle", todo |-> <<>>]
  BY DEF Recoverable, offline
<1> QED
  BY <1>1, <1>2, <1>3, <1>4, SteadyRecoverable

\* So does time, with the keys that Redis expires.
LEMMA TimeRecoverable ==
  ASSUME Recoverable, Time
  PROVE  Recoverable'
<1>0. Sound /\ MemoryOK /\ IsSnapshot(saved)
  BY DEF Recoverable, Sound
<1>1. /\ maps' = maps /\ rbfTrees' = rbfTrees /\ dirtyTrees' = dirtyTrees /\ txs' = txs
      /\ expiring' = Elapsed(expiring)
      /\ saved' = [saved EXCEPT !.expiring = Elapsed(@)]
  BY DEF Time, Tick
<1>2. /\ rbfCacheQueue' = Older(rbfCacheQueue)
      /\ flushing' = [flushing EXCEPT !.todo = Older(@)]
      /\ connected' = connected /\ rbfRemoveQueue' = rbfRemoveQueue
  BY DEF Time
<1>3. Older(<<>>) = <<>>
  BY DEF Older
<1>4. /\ rbfCacheQueue' = <<>> /\ rbfRemoveQueue' = <<>>
      /\ flushing' = [step |-> "idle", todo |-> <<>>]
  BY <1>2, <1>3 DEF Recoverable
<1>5. /\ saved' = [txs |-> saved.txs, trees |-> saved.trees, expiring |-> Elapsed(saved.expiring)]
      /\ saved'.txs = saved.txs /\ saved'.trees = saved.trees
      /\ saved'.expiring = Elapsed(saved.expiring)
  <2>1. saved = [txs |-> saved.txs, trees |-> saved.trees, expiring |-> saved.expiring]
    BY <1>0 DEF IsSnapshot
  <2> QED
    BY <1>1, <2>1
<1>6. IsSnapshot(saved')
  BY <1>0, <1>5, ElapsedType DEF IsSnapshot
<1>7. Sound'
  <2>1. MemoryOK'
    BY <1>0, <1>1, ElapsedType DEF MemoryOK, maps
  <2> QED
    BY <1>0, <1>1, <2>1, SameNestingSound
<1>8. PICK q : q = cacheQueue
  OBVIOUS
<1>9. PICK c : c = Older(q)
  OBVIOUS
<1>10. q \in Seq(Events) /\ cacheQueue' = c
  BY <1>8, <1>9 DEF Recoverable, Time
<1>11. SameEvents(c, q)
  <2>1. c = [i \in DOMAIN q |-> Aged(q[i])]
    BY <1>9 DEF Older, Aged
  <2>2. \A i \in DOMAIN q : q[i] \in Events
    BY <1>10
  <2>3. \A i \in DOMAIN q : /\ Aged(q[i]) \in Events
                            /\ Aged(q[i]).op = q[i].op /\ Aged(q[i]).type = q[i].type
                            /\ Aged(q[i]).txid = q[i].txid
    BY <2>2, AgedIs
  <2>4. DOMAIN q = 1..Len(q) /\ Len(q) \in Nat
    BY <1>10
  <2> QED
    BY <2>1, <2>3, <2>4 DEF SameEvents
<1> QED
  BY <1>1, <1>2, <1>4, <1>5, <1>6, <1>7, <1>8, <1>10, <1>11, SteadyRecoverable
-----------------------------------------------------------------------------
(* Crashes: steps that queue events                                        *)

\* What each event does, and to what.
LEMMA EventIs ==
  /\ \A op, type, x, t : Is(AddTx(t), op, type, x) <=> op = "add" /\ type = "tx" /\ x = t
  /\ \A op, type, x, t : Is(AddTree(t), op, type, x) <=> op = "add" /\ type = "tree" /\ x = t
  /\ \A op, type, x, t, n : Is(AddExp(t, n), op, type, x) <=> op = "add" /\ type = "exp" /\ x = t
  /\ \A op, type, x, t, k : Is(Gone(k, t), op, type, x) <=> op = "remove" /\ type = k /\ x = t
BY DEF Is, AddTx, AddTree, AddExp, Gone, Event

\* The events of a step are what a crash needs.
Orderly(p) ==
  /\ p \in Seq(Events)
  /\ \A e \in ToSet(p) : e.type # "exp" => Meant(e)'
  /\ \A type \in {"tx", "tree"}, t \in Tx :
       Kept(type, t) \/ \E e \in ToSet(p) : About(e, type, t)
  /\ \A r \in DOMAIN rbfTrees' :
       \/ r \in DOMAIN rbfTrees /\ rbfTrees'[r].replaces = rbfTrees[r].replaces
       \/ r \notin txs
  /\ \A k \in DOMAIN p, r \in DOMAIN rbfTrees' : Is(p[k], "add", "tree", r) =>
       \A x \in Nodes(rbfTrees'[r]) : x \in txs \/ Earlier(p, k, "add", "tx", x)
  /\ \A k \in DOMAIN p, r \in DOMAIN rbfTrees : ~ Is(p[k], "add", "tx", r)
  /\ \A r \in DOMAIN rbfTrees \ DOMAIN rbfTrees' : \E k \in DOMAIN p :
       /\ Is(p[k], "remove", "tree", r)
       /\ \A j \in DOMAIN p, s \in Tx : j < k => ~ Is(p[j], "add", "tree", s)
  /\ Guarded(p)

\* Queueing such events keeps everything in order.
LEMMA OrderlyRecoverable ==
  ASSUME Recoverable, NoneReturns', Sound', saved' = saved,
         UNCHANGED <<connected, offline, flushing>>,
         NEW p, cacheQueue' = cacheQueue \o p, Orderly(p)
  PROVE  Recoverable'
BY QueueRecoverable DEF Orderly

\* The events of add() come in such an order: transactions, old trees, the new tree.
LEMMA AddOrderly ==
  ASSUME Sound, NEW replaced \in SUBSET Tx, NEW new \in Tx, new \notin replaced,
         Add(replaced, new), Sound'
  PROVE  Orderly(AddEvents(replaced, new))
<1> DEFINE fresh  == Unreplaced(replaced)
           leaves == fresh \ DOMAIN treeMap
           ids    == {treeMap[t] : t \in fresh \ leaves}
           joined == ids \cap DOMAIN rbfTrees
           E(t)   == IF t \in DOMAIN treeMap THEN Gone("tree", treeMap[t]) ELSE AddTx(t)
<1>1. /\ new \notin txs
      /\ DOMAIN rbfTrees' = {new} \cup (DOMAIN rbfTrees \ ids)
      /\ \A r \in DOMAIN rbfTrees \ ids : r # new => rbfTrees'[r] = rbfTrees[r]
      /\ txs' = txs \cup leaves \cup {new}
  BY DEF Add, Unseen
<1>2. Nodes(rbfTrees'[new]) = leaves \cup (UNION {Nodes(rbfTrees[r]) : r \in joined}) \cup {new}
  <2> DEFINE kids == [x \in Members(leaves, joined) \cup {new} |->
                        CASE x = new -> leaves \cup joined
                          [] x # new /\ x \in leaves -> {}
                          [] OTHER -> rbfTrees[treeMap[x]].replaces[x]]
  <2>1. rbfTrees'[new].replaces = kids
    BY DEF Add
  <2>2. DOMAIN kids = Members(leaves, joined) \cup {new}
    OBVIOUS
  <2> HIDE DEF kids, leaves, joined
  <2>3. Nodes(rbfTrees'[new]) = Members(leaves, joined) \cup {new}
    BY <2>1, <2>2 DEF Nodes
  <2> QED
    BY <2>3 DEF Members
<1>3. \A r \in DOMAIN rbfTrees : r \in txs /\ r \in DOMAIN treeMap /\ Nodes(rbfTrees[r]) \subseteq txs
  BY DEF Sound, MemoryOK, IsForest, Rooted, Indexed
<1>4. \A t \in fresh : t \in DOMAIN treeMap => treeMap[t] \in ids /\ treeMap[t] \in txs
  BY <1>3 DEF Sound, Indexed
<1>5. \A i \in ids : \E t \in fresh : t \in DOMAIN treeMap /\ i = treeMap[t]
  OBVIOUS
<1>6. \A t \in fresh : /\ t \in DOMAIN treeMap => E(t) = Gone("tree", treeMap[t])
                       /\ t \notin DOMAIN treeMap => E(t) = AddTx(t) /\ t \in leaves
  OBVIOUS
<1>7. \A t \in leaves : t \in fresh /\ t \notin DOMAIN treeMap /\ t \in Tx
  BY DEF Unreplaced
<1>8. PICK front \in Seq(Events) : /\ ToSet(front) = {AddTx(new)} \cup {E(t) : t \in fresh}
                                   /\ AddEvents(replaced, new) = front \o <<AddTree(new)>>
  BY AddEventsSplit
<1>9. PICK last : last = <<AddTree(new)>>
  OBVIOUS
<1>10. PICK p : p = front \o last
  OBVIOUS
<1>11. last \in Seq(Events) /\ DOMAIN last = {1} /\ last[1] = AddTree(new)
  <2>1. AddTree(new) \in Events
    BY EventTypes
  <2> QED
    BY <1>9, <2>1
<1>12. Joined(p, front, last)
  BY <1>8, <1>10, <1>11, Appended
<1>13. \A i \in DOMAIN front : front[i] = AddTx(new) \/ \E t \in fresh : front[i] = E(t)
  BY <1>8 DEF ToSet
<1>14. \A e : e \in ToSet(p) <=> e = AddTx(new) \/ e = AddTree(new) \/ \E t \in fresh : e = E(t)
  <2>1. \A e : e \in ToSet(p) <=> e \in ToSet(front) \/ e = AddTree(new)
    BY <1>11, <1>12 DEF Joined, ToSet
  <2> QED
    BY <1>8, <2>1
<1>26. \A r \in joined : Nodes(rbfTrees[r]) \subseteq txs
  BY <1>3
<1> HIDE DEF E, fresh, leaves, ids, joined
\* Only the last event stores a tree.
<1>15. \A i \in DOMAIN front : \A r : ~ Is(front[i], "add", "tree", r)
  BY <1>6, <1>13, EventIs
<1>16. \A k \in DOMAIN p : \A r : Is(p[k], "add", "tree", r) => k = Len(front) + 1 /\ r = new
  BY <1>11, <1>12, <1>15, EventIs DEF Joined
<1>17. \A k \in DOMAIN p : p[k] \in ToSet(p) /\ p \in Seq(Events)
  BY <1>12 DEF Joined, ToSet
<1>18. \A e \in ToSet(p) : Meant(e)'
  <2> TAKE e \in ToSet(p)
  <2>1. /\ \A t \in txs' : Meant(AddTx(t))'
        /\ \A t \in DOMAIN rbfTrees' : Meant(AddTree(t))'
        /\ \A t : t \notin DOMAIN rbfTrees' => Meant(Gone("tree", t))'
    BY DEF Meant, AddTx, AddTree, Gone, Event
  <2>2. CASE e = AddTx(new)
    BY <1>1, <2>1, <2>2
  <2>3. CASE e = AddTree(new)
    BY <1>1, <2>1, <2>3
  <2>4. ASSUME NEW t \in fresh, e = E(t) PROVE Meant(e)'
    <3>1. CASE t \in DOMAIN treeMap
      <4>1. treeMap[t] \notin DOMAIN rbfTrees'
        BY <1>1, <1>4, <3>1
      <4> QED
        BY <1>6, <2>1, <2>4, <3>1, <4>1
    <3>2. CASE t \notin DOMAIN treeMap
      BY <1>1, <1>6, <2>1, <2>4, <3>2
    <3> QED
      BY <3>1, <3>2
  <2> QED
    BY <1>14, <2>2, <2>3, <2>4
<1>19. ASSUME NEW type \in {"tx", "tree"}, NEW t \in Tx
       PROVE  Kept(type, t) \/ \E e \in ToSet(p) : About(e, type, t)
  <2>1. CASE type = "tx"
    <3>1. CASE t = new
      BY <1>14, <2>1, <3>1, EventMeanings
    <3>2. CASE t \in leaves
      BY <1>6, <1>7, <1>14, <2>1, <3>2, EventMeanings
    <3>3. CASE t # new /\ t \notin leaves
      BY <1>1, <2>1, <3>3 DEF Kept
    <3> QED
      BY <3>1, <3>2, <3>3
  <2>2. CASE type = "tree"
    <3>1. CASE t = new
      BY <1>14, <2>2, <3>1, EventMeanings
    <3>2. CASE t \in ids
      BY <1>5, <1>6, <1>14, <2>2, <3>2, EventMeanings
    <3>3. CASE t # new /\ t \notin ids
      BY <1>1, <2>2, <3>3 DEF Kept
    <3> QED
      BY <3>1, <3>2, <3>3
  <2> QED
    BY <2>1, <2>2
<1>20. \A r \in DOMAIN rbfTrees' :
         \/ r \in DOMAIN rbfTrees /\ rbfTrees'[r].replaces = rbfTrees[r].replaces
         \/ r \notin txs
  BY <1>1
<1>21. ASSUME NEW k \in DOMAIN p, NEW r \in DOMAIN rbfTrees', Is(p[k], "add", "tree", r),
              NEW x \in Nodes(rbfTrees'[r]), x \notin txs
       PROVE  Earlier(p, k, "add", "tx", x)
  <2>1. k = Len(front) + 1 /\ r = new
    BY <1>16, <1>21
  <2>2. x = new \/ x \in leaves
    BY <1>2, <1>21, <1>26, <2>1
  <2>3. AddTx(x) \in ToSet(front)
    BY <1>6, <1>7, <1>8, <2>2
  <2>4. \E i \in DOMAIN front : Is(front[i], "add", "tx", x)
    BY <2>3, EventIs DEF ToSet
  <2> QED
    BY <1>11, <1>12, <2>1, <2>4 DEF Joined
<1>22. ASSUME NEW k \in DOMAIN p, NEW r \in DOMAIN rbfTrees, Is(p[k], "add", "tx", r)
       PROVE  FALSE
  <2>1. r = new \/ \E t \in fresh : p[k] = E(t)
    BY <1>14, <1>17, <1>22, EventIs
  <2>2. PICK t \in fresh : p[k] = E(t)
    BY <1>1, <1>3, <2>1
  <2>3. r \notin DOMAIN treeMap
    BY <1>6, <1>22, <2>2, EventIs
  <2> QED
    BY <1>3, <2>3
<1>23. ASSUME NEW r \in DOMAIN rbfTrees \ DOMAIN rbfTrees'
       PROVE  \E k \in DOMAIN p :
                /\ Is(p[k], "remove", "tree", r)
                /\ \A j \in DOMAIN p, s \in Tx : j < k => ~ Is(p[j], "add", "tree", s)
  <2>1. PICK t \in fresh : t \in DOMAIN treeMap /\ r = treeMap[t]
    BY <1>1, <1>5
  <2>2. Gone("tree", r) \in ToSet(front)
    BY <1>6, <1>8, <2>1
  <2>3. PICK k \in DOMAIN front : Is(front[k], "remove", "tree", r)
    BY <2>2, EventIs DEF ToSet
  <2>4. k \in DOMAIN p /\ Is(p[k], "remove", "tree", r) /\ ~(Len(front) + 1 < k)
    BY <1>11, <1>12, <2>3 DEF Joined
  <2> QED
    BY <1>16, <2>4
<1>24. Guarded(p)
  <2>1. ASSUME NEW k \in DOMAIN p, NEW x, Is(p[k], "remove", "tx", x) PROVE FALSE
    <3>1. \E t \in fresh : p[k] = E(t)
      BY <1>14, <1>17, <2>1, EventIs
    <3> QED
      BY <1>6, <2>1, <3>1, EventIs
  <2> QED
    BY <2>1 DEF Guarded
<1>25. p \in Seq(Events)
  BY <1>12 DEF Joined
<1>27. AddEvents(replaced, new) = p
  BY <1>8, <1>9, <1>10
<1>28. \A k \in DOMAIN p, r \in DOMAIN rbfTrees' : Is(p[k], "add", "tree", r) =>
         \A x \in Nodes(rbfTrees'[r]) : x \in txs \/ Earlier(p, k, "add", "tx", x)
  BY <1>21
<1>29. \A k \in DOMAIN p, r \in DOMAIN rbfTrees : ~ Is(p[k], "add", "tx", r)
  BY <1>22
<1>30. Orderly(p)
  BY <1>18, <1>19, <1>20, <1>23, <1>24, <1>25, <1>28, <1>29 DEF Orderly
<1> QED
  BY <1>27, <1>30

\* A set of sequences that is closed under concatenation has what is flattened from it.
LEMMA FlattenWithin ==
  ASSUME NEW S, NEW G \in SUBSET Seq(S), <<>> \in G, \A a, b \in G : a \o b \in G,
         NEW gs \in Seq(G)
  PROVE  FlattenSeq(gs) \in G
<1> DEFINE n == Len(gs)
<1>1. n \in Nat /\ gs \in Seq(Seq(S)) /\ \A i \in 1..n : gs[i] \in G
  OBVIOUS
<1>2. PICK f : Flattens(f, gs, S)
  BY <1>1, FlattenSteps
<1>7. f[0] = <<>> /\ (\A i \in 1..n : f[i] = f[i - 1] \o gs[i]) /\ FlattenSeq(gs) = f[n]
  BY <1>2 DEF Flattens
<1> HIDE DEF n
<1> DEFINE Good == {k \in 0..n : f[k] \in G}
<1>3. 0 \in Good
  BY <1>1, <1>7
<1>4. ASSUME NEW k \in 1..n, k - 1 \in Good PROVE k \in Good
  <2>0. k \in 0..n
    BY <1>1
  <2>1. f[k] = f[k - 1] \o gs[k]
    BY <1>7, Zenon
  <2> QED
    BY <1>1, <1>4, <2>0, <2>1
<1> HIDE DEF Good
<1>5. \A k \in 0..n : k \in Good
  BY <1>1, <1>3, <1>4, Upwards
<1>6. f[n] \in G
  BY <1>1, <1>5 DEF Good
<1> QED
  BY <1>6, <1>7

\* Lists from a set that is closed under concatenation are concatenated to one from it.
LEMMA ConcatWithin ==
  ASSUME NEW S, IsFiniteSet(S), NEW E, NEW G \in SUBSET Seq(E), <<>> \in G,
         \A a, b \in G : a \o b \in G, NEW seqs \in [S -> G]
  PROVE  Concat(seqs) \in G
<1> DEFINE n == Cardinality(S)
           order == SetToSeq(S)
           gs == [i \in 1..n |-> seqs[order[i]]]
<1>1. n \in Nat
  BY FS_CardinalityType
<1>2. order \in [1..n -> S]
  BY ListsAll
<1>3. DOMAIN seqs = S /\ Concat(seqs) = FlattenSeq(gs)
  BY DEF Concat
<1> HIDE DEF order, n
<1>4. gs \in Seq(G)
  BY <1>1, <1>2
<1> HIDE DEF gs
<1> QED
  BY <1>3, <1>4, FlattenWithin

\* What is flattened begins with the first group.
LEMMA FlattenBegins ==
  ASSUME NEW S, NEW gs \in Seq(Seq(S)), 1 \in DOMAIN gs
  PROVE  \E rest \in Seq(S) : FlattenSeq(gs) = gs[1] \o rest
<1> DEFINE n == Len(gs)
<1>1. n \in Nat /\ 1 \in 1..n /\ \A i \in 1..n : gs[i] \in Seq(S)
  OBVIOUS
<1>2. PICK f : Flattens(f, gs, S)
  BY FlattenSteps
<1>7. f[0] = <<>> /\ (\A i \in 1..n : f[i] = f[i - 1] \o gs[i]) /\ FlattenSeq(gs) = f[n]
  BY <1>2 DEF Flattens
<1> HIDE DEF n
<1> DEFINE Good == {k \in 0..n : k # 0 => \E rest \in Seq(S) : f[k] = gs[1] \o rest}
<1>3. 0 \in Good
  BY <1>1
<1>4. ASSUME NEW k \in 1..n, k - 1 \in Good PROVE k \in Good
  <2>0. k \in 0..n
    BY <1>1
  <2>1. f[k] = f[k - 1] \o gs[k]
    BY <1>7, Zenon
  <2>2. CASE k = 1
    <3>1. f[0] = <<>> /\ f[1] = f[0] \o gs[1]
      <4>1. k - 1 = 0
        BY <2>2
      <4> QED
        BY <1>7, <2>1, <2>2, <4>1, Zenon
    <3>2. \A s \in Seq(S) : <<>> \o s = s /\ s \o <<>> = s
      OBVIOUS
    <3>3. f[k] = gs[1] \o <<>> /\ <<>> \in Seq(S)
      BY <1>1, <2>2, <3>1, <3>2
    <3> QED
      BY <2>0, <3>3
  <2>3. CASE k # 1
    <3>1. k - 1 # 0
      BY <2>3
    <3>2. PICK rest \in Seq(S) : f[k - 1] = gs[1] \o rest
      BY <1>4, <3>1
    <3>3. gs[1] \in Seq(S) /\ gs[k] \in Seq(S)
      BY <1>1
    <3>4. /\ \A a, b, c \in Seq(S) : (a \o b) \o c = a \o (b \o c)
          /\ \A b, c \in Seq(S) : b \o c \in Seq(S)
      <4>1. \A a, b, c \in Seq(S) : (a \o b) \o c = a \o (b \o c)
        <5> TAKE a, b, c \in Seq(S)
        <5> QED
          OBVIOUS
      <4>2. \A b, c \in Seq(S) : b \o c \in Seq(S)
        OBVIOUS
      <4> QED
        BY <4>1, <4>2
    <3>5. (gs[1] \o rest) \o gs[k] = gs[1] \o (rest \o gs[k]) /\ rest \o gs[k] \in Seq(S)
      BY <3>3, <3>4
    <3> QED
      BY <2>0, <2>1, <3>2, <3>5
  <2> QED
    BY <2>2, <2>3
<1> HIDE DEF Good
<1>5. \A k \in 0..n : k \in Good
  BY <1>1, <1>3, <1>4, Upwards
<1>6. n \in 0..n /\ n # 0
  BY <1>1
<1> QED
  BY <1>5, <1>6, <1>7 DEF Good

\* Guarded sequences of events.
GuardedOnes == {q \in Seq(Events) : Guarded(q)}

\* Lists whose removals are in the right order can be joined.
LEMMA GuardedJoined ==
  /\ <<>> \in GuardedOnes
  /\ \A a, b \in GuardedOnes : a \o b \in GuardedOnes
<1>1. <<>> \in GuardedOnes
  BY DEF GuardedOnes, Guarded
<1>2. ASSUME NEW a \in GuardedOnes, NEW b \in GuardedOnes PROVE a \o b \in GuardedOnes
  <2>1. PICK c : c = a \o b
    OBVIOUS
  <2>2. a \in Seq(Events) /\ b \in Seq(Events) /\ Guarded(a) /\ Guarded(b)
    BY DEF GuardedOnes
  <2>3. Joined(c, a, b)
    BY <2>1, <2>2, Appended
  <2>4. ASSUME NEW k \in DOMAIN c, NEW r \in DOMAIN rbfTrees, NEW x \in Nodes(rbfTrees[r]) \ {r},
               Is(c[k], "remove", "tx", x)
        PROVE  Earlier(c, k, "remove", "tree", r)
    <3>1. CASE k \in DOMAIN a
      <4>1. Is(a[k], "remove", "tx", x)
        BY <2>3, <2>4, <3>1 DEF Joined
      <4>2. Earlier(a, k, "remove", "tree", r)
        BY <2>2, <3>1, <4>1 DEF Guarded
      <4> QED
        BY <2>3, <3>1, <4>2 DEF Joined
    <3>2. ASSUME NEW j \in DOMAIN b, k = Len(a) + j PROVE Earlier(c, k, "remove", "tree", r)
      <4>1. Is(b[j], "remove", "tx", x)
        BY <2>3, <2>4, <3>2 DEF Joined
      <4>2. Earlier(b, j, "remove", "tree", r)
        BY <2>2, <4>1 DEF Guarded
      <4> QED
        BY <2>3, <3>2, <4>2 DEF Joined
    <3> QED
      BY <2>3, <3>1, <3>2 DEF Joined
  <2>5. c \in Seq(Events)
    BY <2>3 DEF Joined
  <2> QED
    BY <2>1, <2>4, <2>5 DEF GuardedOnes, Guarded
<1> QED
  BY <1>1, <1>2

\* Events that remove no transaction are guarded.
LEMMA GuardedNone ==
  ASSUME NEW p \in Seq(Events), \A e \in ToSet(p) : \A x : ~ Is(e, "remove", "tx", x)
  PROVE  p \in GuardedOnes
BY DEF GuardedOnes, Guarded, ToSet

\* remove() of a newest version starts with it and its tree.
LEMMA RemoveGuarded ==
  ASSUME Sound, NEW t \in Tx, t \notin DOMAIN replacedBy
  PROVE  RemoveEvents(t) \in GuardedOnes
<1> DEFINE versions == Walk(t)[Cardinality(Tx)].done
           gs == [i \in DOMAIN versions |-> Removal(versions[i])]
<1>1. versions \in Seq(Tx) /\ 1 \in DOMAIN versions /\ versions[1] = t
  BY WalkVisits
<1>2. RemoveEvents(t) = FlattenSeq(gs)
  BY DEF RemoveEvents
<1> HIDE DEF versions
<1>3. \A i \in DOMAIN versions : versions[i] \in Tx /\ gs[i] = Removal(versions[i])
  BY <1>1
<1>4. gs \in Seq(Seq(Events)) /\ 1 \in DOMAIN gs /\ gs[1] = Removal(t)
  <2>1. \A i \in DOMAIN versions : Removal(versions[i]) \in Seq(Events)
    BY <1>3, RemovalIs
  <2>2. DOMAIN versions = 1..Len(versions) /\ Len(versions) \in Nat
    BY <1>1
  <2> QED
    BY <1>1, <2>1, <2>2
<1> HIDE DEF gs
<1>5. PICK rest \in Seq(Events) : FlattenSeq(gs) = gs[1] \o rest
  BY <1>4, FlattenBegins
<1>6. PICK p, front : p = RemoveEvents(t) /\ front = Removal(t)
  OBVIOUS
<1>7. /\ front \in Seq(Events)
      /\ ToSet(front) = {Gone("tx", t), Gone("exp", t)}
           \cup (IF t \in DOMAIN treeMap /\ treeMap[t] = t THEN {Gone("tree", t)} ELSE {})
  BY <1>6, RemovalIs
<1>8. p = front \o rest
  BY <1>2, <1>4, <1>5, <1>6
<1>9. Joined(p, front, rest)
  BY <1>7, <1>8, Appended
<1>10. p \in Seq(Events) /\ ToSet(p) = UNION {ToSet(Removal(x)) : x \in Below(replaces, {t})}
  BY <1>6, RemoveEventsAre
<1>11. ASSUME NEW k \in DOMAIN p, NEW r \in DOMAIN rbfTrees, NEW x \in Nodes(rbfTrees[r]) \ {r},
              Is(p[k], "remove", "tx", x)
       PROVE  Earlier(p, k, "remove", "tree", r)
  <2>1. p[k] \in ToSet(p)
    BY <1>10 DEF ToSet
  <2>2. PICK y \in Below(replaces, {t}) : p[k] \in ToSet(Removal(y))
    BY <1>10, <2>1
  <2>3. y \in Tx
    BY DEF Below
  <2>4. x = y
    <3>1. p[k] = Gone("tx", y) \/ p[k] = Gone("exp", y) \/ p[k] = Gone("tree", y)
      BY <2>2, <2>3, RemovalIs
    <3> QED
      BY <1>11, <3>1, EventIs
  <2>5. r = t
    <3>0. PICK due \in SUBSET Tx : due = {t}
      OBVIOUS
    <3>1. Removable(due) = {t}
      BY <3>0 DEF Removable
    <3>2. IF r \in due THEN Nodes(rbfTrees[r]) \subseteq Below(replaces, Removable(due))
                     ELSE Nodes(rbfTrees[r]) \cap Below(replaces, Removable(due)) = {}
      BY RemovedWhole
    <3> QED
      BY <2>4, <3>0, <3>1, <3>2
  <2>6. t \in DOMAIN treeMap /\ treeMap[t] = t
    BY <2>5 DEF Sound, Rooted, Indexed
  <2>7. \E i \in DOMAIN front : Is(front[i], "remove", "tree", t)
    <3>1. Gone("tree", t) \in ToSet(front)
      BY <1>7, <2>6
    <3> QED
      BY <3>1, EventIs DEF ToSet
  <2>8. k \notin DOMAIN front
    <3> SUFFICES ASSUME k \in DOMAIN front PROVE FALSE
      OBVIOUS
    <3>1. p[k] \in ToSet(front)
      BY <1>9 DEF Joined, ToSet
    <3>2. p[k] = Gone("tx", t) \/ p[k] = Gone("exp", t) \/ p[k] = Gone("tree", t)
      BY <1>7, <3>1
    <3>3. x = t
      BY <1>11, <3>2, EventIs
    <3> QED
      BY <2>5, <3>3
  <2>9. PICK j \in DOMAIN rest : k = Len(front) + j
    BY <1>9, <2>8 DEF Joined
  <2> QED
    BY <1>9, <2>5, <2>7, <2>9 DEF Joined
<1> QED
  BY <1>6, <1>10, <1>11 DEF GuardedOnes, Guarded

\* So does cleanup(), for each of those it removes.
LEMMA CleanupGuarded ==
  ASSUME Sound, NEW exp, DOMAIN exp \subseteq Tx
  PROVE  CleanupEvents(exp) \in GuardedOnes
<1> DEFINE due == {t \in DOMAIN exp : exp[t] = 0}
           more(t) == IF t \in DOMAIN replacedBy THEN <<>> ELSE RemoveEvents(t)
           seqs == [t \in due |-> <<Gone("exp", t)>> \o more(t)]
<1>1. due \in SUBSET Tx
  OBVIOUS
<1>2. IsFiniteSet(due)
  BY <1>1, FiniteAssumption, FS_Subset
<1>3. CleanupEvents(exp) = Concat(seqs)
  BY DEF CleanupEvents
<1> HIDE DEF due
<1>4. ASSUME NEW t \in due PROVE seqs[t] \in GuardedOnes
  <2>1. more(t) \in GuardedOnes
    <3>1. CASE t \in DOMAIN replacedBy
      BY <3>1, GuardedJoined
    <3>2. CASE t \notin DOMAIN replacedBy
      BY <1>1, <3>2, RemoveGuarded
    <3> QED
      BY <3>1, <3>2
  <2>2. <<Gone("exp", t)>> \in GuardedOnes
    <3>1. <<Gone("exp", t)>> \in Seq(Events)
      <4>1. Gone("exp", t) \in Events
        BY <1>1, EventTypes DEF Types
      <4> QED
        BY <4>1
    <3>2. \A e \in ToSet(<<Gone("exp", t)>>) : \A x : ~ Is(e, "remove", "tx", x)
      BY ToSetShort, EventIs
    <3> QED
      BY <3>1, <3>2, GuardedNone
  <2>3. seqs[t] = <<Gone("exp", t)>> \o more(t)
    OBVIOUS
  <2> HIDE DEF seqs, more
  <2> QED
    BY <2>1, <2>2, <2>3, GuardedJoined
<1>5. seqs \in [due -> GuardedOnes]
  BY <1>4
<1> HIDE DEF seqs
<1>6. GuardedOnes \in SUBSET Seq(Events)
  BY DEF GuardedOnes
<1> QED
  BY <1>2, <1>3, <1>5, <1>6, GuardedJoined, ConcatWithin

\* Steps that keep the transactions and the nesting, and queue deadlines and trees.
LEMMA KeptOrderly ==
  ASSUME Sound, txs' = txs, DOMAIN rbfTrees' = DOMAIN rbfTrees,
         \A r \in DOMAIN rbfTrees : rbfTrees'[r].replaces = rbfTrees[r].replaces,
         NEW p \in Seq(Events),
         \A e \in ToSet(p) : \/ \E t : e = AddExp(t, ExpiryTicks)
                             \/ \E r \in DOMAIN rbfTrees : e = AddTree(r)
  PROVE  Orderly(p)
<1>1. \A k \in DOMAIN p : p[k] \in ToSet(p)
  BY DEF ToSet
<1>2. /\ \A k \in DOMAIN p : \A x : ~ Is(p[k], "remove", "tx", x)
      /\ \A k \in DOMAIN p : \A x : ~ Is(p[k], "add", "tx", x)
  BY <1>1, EventIs
<1>3. \A e \in ToSet(p) : e.type # "exp" => Meant(e)'
  BY DEF Meant, AddExp, AddTree, Event
<1>4. \A type \in {"tx", "tree"}, t \in Tx : Kept(type, t)
  BY DEF Kept
<1>5. \A r \in DOMAIN rbfTrees : Nodes(rbfTrees'[r]) \subseteq txs
  BY SoundTrees DEF Nodes
<1> QED
  BY <1>2, <1>3, <1>4, <1>5 DEF Orderly, Guarded

\* evict() keeps everything in order.
LEMMA EvictRecoverable ==
  ASSUME Recoverable, NoneReturns', NEW t \in Tx, Call(Evict(t), EvictEvents({t}))
  PROVE  Recoverable'
<1>0. Sound /\ MemoryOK
  BY DEF Recoverable, Sound
<1>1. /\ maps' = maps /\ rbfTrees' = rbfTrees /\ dirtyTrees' = dirtyTrees /\ txs' = txs
      /\ expiring' = Evicted({t})
  BY DEF Call, Serving, Evict
<1>2. /\ saved' = saved /\ UNCHANGED <<connected, offline, flushing>>
      /\ cacheQueue' = cacheQueue \o EvictEvents({t})
  BY DEF Call, Serving, Queue, client
<1>3. Sound'
  <2>1. MemoryOK'
    BY <1>0, <1>1, EvictedType DEF MemoryOK, maps
  <2> QED
    BY <1>0, <1>1, <2>1, SameNestingSound
<1>4. /\ EvictEvents({t}) \in Seq(Events)
      /\ \A e \in ToSet(EvictEvents({t})) : \E x : e = AddExp(x, ExpiryTicks)
  BY <1>0, EvictEventsAre
<1>5. Orderly(EvictEvents({t}))
  BY <1>0, <1>1, <1>4, KeptOrderly
<1> QED
  BY <1>2, <1>3, <1>5, OrderlyRecoverable

\* So does mined(), which queues the tree and what evict() queues.
LEMMA MinedRecoverable ==
  ASSUME Recoverable, NoneReturns', NEW t \in Tx, Call(Mined(t), MinedEvents(t))
  PROVE  Recoverable'
<1> DEFINE front == IF HasTree(t) THEN <<AddTree(treeMap[t])>> ELSE <<>>
           p == MinedEvents(t)
<1>0. Sound /\ MemoryOK
  BY DEF Recoverable, Sound
<1>1. /\ maps' = maps /\ txs' = txs /\ rbfTrees' = WithMined({t})
      /\ expiring' = Evicted({t})
      /\ dirtyTrees' \subseteq dirtyTrees \cup DOMAIN rbfTrees
  BY DEF Call, Serving, Mined
<1>2. /\ saved' = saved /\ cacheQueue' = cacheQueue \o p
      /\ UNCHANGED <<connected, offline, flushing>>
  BY DEF Call, Serving, Queue, client
<1>3. /\ IsForest(rbfTrees') /\ DOMAIN rbfTrees' = DOMAIN rbfTrees
      /\ \A r \in DOMAIN rbfTrees : rbfTrees'[r].replaces = rbfTrees[r].replaces
  BY <1>0, <1>1, MarkedForest
<1>4. Sound'
  <2>1. MemoryOK'
    BY <1>0, <1>1, <1>3, EvictedType DEF MemoryOK, maps, IsForest
  <2> QED
    BY <1>0, <1>1, <1>3, <2>1, SameNestingSound
<1>5. HasTree(t) => treeMap[t] \in Tx /\ treeMap[t] \in DOMAIN rbfTrees
  BY <1>0 DEF HasTree, MemoryOK, IsMap
<1>6. front \in Seq(Events)
  BY <1>5, EventTypes
<1>7. \A e : e \in ToSet(front) <=> HasTree(t) /\ e = AddTree(treeMap[t])
  BY ToSetShort
<1>8. /\ EvictEvents({t}) \in Seq(Events)
      /\ \A e \in ToSet(EvictEvents({t})) : \E x : e = AddExp(x, ExpiryTicks)
  BY <1>0, EvictEventsAre
<1>9. p = front \o EvictEvents({t})
  BY DEF MinedEvents
<1> HIDE DEF front, p
<1>10. p \in Seq(Events) /\ ToSet(p) = ToSet(front) \cup ToSet(EvictEvents({t}))
  BY <1>6, <1>8, <1>9, EventsJoined, Zenon
<1>11. \A e \in ToSet(p) : \/ \E x : e = AddExp(x, ExpiryTicks)
                           \/ \E r \in DOMAIN rbfTrees : e = AddTree(r)
  BY <1>5, <1>7, <1>8, <1>10
<1>12. Orderly(p)
  BY <1>0, <1>1, <1>3, <1>10, <1>11, KeptOrderly
<1> QED
  BY <1>2, <1>4, <1>12, OrderlyRecoverable

\* So does add(), in a session and while load() connects.
LEMMA AddRecoverable ==
  ASSUME Recoverable, NoneReturns', NEW replaced \in SUBSET Tx, NEW new \in Tx,
         new \notin replaced, Add(replaced, new), Queue(AddEvents(replaced, new)),
         saved' = saved
  PROVE  Recoverable'
<1>1. Sound
  BY DEF Recoverable
<1>2. Sound'
  BY <1>1, AddSound
<1>3. Orderly(AddEvents(replaced, new))
  BY <1>1, <1>2, AddOrderly
<1>4. /\ UNCHANGED <<connected, offline, flushing>>
      /\ cacheQueue' = cacheQueue \o AddEvents(replaced, new)
  BY DEF Queue, client
<1> QED
  BY <1>2, <1>3, <1>4, OrderlyRecoverable

\* cleanup() with its events, those of the flags before included.
LEMMA CleanupOrderly ==
  ASSUME Sound, NEW due \in SUBSET Tx, NEW gone, gone = Below(replaces, Removable(due)),
         NEW ids, ids = {t \in gone \cap DOMAIN treeMap : treeMap[t] = t},
         txs' = txs \ gone, DOMAIN rbfTrees' = DOMAIN rbfTrees \ ids,
         \A r \in DOMAIN rbfTrees' : rbfTrees'[r].replaces = rbfTrees[r].replaces,
         NEW p \in GuardedOnes,
         \A e \in ToSet(p) : \/ e.type = "exp"
                             \/ \E x \in gone : e = Gone("tx", x)
                             \/ \E x \in ids : e = Gone("tree", x),
         \A x \in gone : Gone("tx", x) \in ToSet(p),
         \A x \in ids : Gone("tree", x) \in ToSet(p)
  PROVE  Orderly(p)
<1>1. p \in Seq(Events) /\ Guarded(p)
  BY DEF GuardedOnes
<1>2. \A k \in DOMAIN p : p[k] \in ToSet(p)
  BY DEF ToSet
<1>3. \A k \in DOMAIN p, type \in {"tx", "tree"} : \A x : ~ Is(p[k], "add", type, x)
  <2> TAKE k \in DOMAIN p, type \in {"tx", "tree"}
  <2> TAKE x
  <2>1. p[k].type = "exp" => ~ Is(p[k], "add", type, x)
    BY DEF Is
  <2>2. \A t, kind : ~ Is(Gone(kind, t), "add", type, x)
    BY DEF Is, Gone, Event
  <2>3. p[k] \in ToSet(p)
    BY <1>2
  <2> QED
    BY <2>1, <2>2, <2>3
<1>4. \A e \in ToSet(p) : e.type # "exp" => Meant(e)'
  BY DEF Meant, Gone, Event
<1>5. ASSUME NEW type \in {"tx", "tree"}, NEW t \in Tx
      PROVE  Kept(type, t) \/ \E e \in ToSet(p) : About(e, type, t)
  <2>1. CASE type = "tx"
    <3>1. t \in gone => \E e \in ToSet(p) : About(e, "tx", t)
      BY EventMeanings
    <3> QED
      BY <2>1, <3>1 DEF Kept
  <2>2. CASE type = "tree"
    <3>1. t \in ids => \E e \in ToSet(p) : About(e, "tree", t)
      BY EventMeanings
    <3> QED
      BY <2>2, <3>1 DEF Kept
  <2> QED
    BY <2>1, <2>2
<1>6. ASSUME NEW r \in DOMAIN rbfTrees \ DOMAIN rbfTrees'
      PROVE  \E k \in DOMAIN p :
               /\ Is(p[k], "remove", "tree", r)
               /\ \A j \in DOMAIN p, s \in Tx : j < k => ~ Is(p[j], "add", "tree", s)
  <2>1. Gone("tree", r) \in ToSet(p)
    OBVIOUS
  <2>2. PICK k \in DOMAIN p : Is(p[k], "remove", "tree", r)
    BY <2>1, EventIs DEF ToSet
  <2> QED
    BY <1>3, <2>2
<1>7. /\ \A k \in DOMAIN p : \A r : ~ Is(p[k], "add", "tree", r)
      /\ \A k \in DOMAIN p : \A r : ~ Is(p[k], "add", "tx", r)
  BY <1>3
<1>8. \A r \in DOMAIN rbfTrees' :
        r \in DOMAIN rbfTrees /\ rbfTrees'[r].replaces = rbfTrees[r].replaces
  OBVIOUS
<1> QED
  BY <1>1, <1>4, <1>5, <1>6, <1>7, <1>8 DEF Orderly

\* The events of a cleanup.
LEMMA CleanupQueued ==
  ASSUME Sound, NEW exp, IsMap(exp, 0..ExpiryTicks)
  PROVE  LET due  == {t \in DOMAIN exp : exp[t] = 0}
             gone == Below(replaces, Removable(due))
             ids  == {t \in gone \cap DOMAIN treeMap : treeMap[t] = t}
         IN /\ due \in SUBSET Tx
            /\ CleanupEvents(exp) \in GuardedOnes
            /\ \A e \in ToSet(CleanupEvents(exp)) : \/ e.type = "exp"
                                                    \/ \E x \in gone : e = Gone("tx", x)
                                                    \/ \E x \in ids : e = Gone("tree", x)
            /\ \A x \in gone : Gone("tx", x) \in ToSet(CleanupEvents(exp))
            /\ \A x \in ids : Gone("tree", x) \in ToSet(CleanupEvents(exp))
<1> DEFINE due  == {t \in DOMAIN exp : exp[t] = 0}
           gone == Below(replaces, Removable(due))
           ids  == {t \in gone \cap DOMAIN treeMap : treeMap[t] = t}
<1>1. PICK p : p = CleanupEvents(exp)
  OBVIOUS
<1>2. due \in SUBSET Tx /\ DOMAIN exp \subseteq Tx
  BY DEF IsMap
<1>3. ToSet(p) = {Gone("exp", t) : t \in due} \cup UNION {ToSet(Removal(x)) : x \in gone}
  BY <1>1, <1>2, CleanupEventsAre
<1>4. p \in GuardedOnes
  BY <1>1, <1>2, CleanupGuarded
<1>5. gone \subseteq Tx
  <2>1. \A q \in DOMAIN replaces : replaces[q] \subseteq Tx
    BY DEF Sound, MemoryOK, IsMap
  <2> QED
    BY <2>1, BelowClosed
<1>6. \A x : x \in ids <=> x \in gone /\ x \in DOMAIN treeMap /\ treeMap[x] = x
  OBVIOUS
<1> HIDE DEF due, gone, ids
<1>7. \A x \in gone : \A e : e \in ToSet(Removal(x)) <=>
        e = Gone("tx", x) \/ e = Gone("exp", x) \/ (x \in ids /\ e = Gone("tree", x))
  BY <1>5, <1>6, RemovalIs
<1>8. \A x : Gone("exp", x).type = "exp"
  BY DEF Gone, Event
<1>9. \A e \in ToSet(p) : \/ e.type = "exp"
                          \/ \E x \in gone : e = Gone("tx", x)
                          \/ \E x \in ids : e = Gone("tree", x)
  BY <1>3, <1>7, <1>8
<1>10. \A x \in gone : Gone("tx", x) \in ToSet(p)
  BY <1>3, <1>7
<1>11. \A x \in ids : Gone("tree", x) \in ToSet(p)
  BY <1>3, <1>6, <1>7
<1> QED
  BY <1>1, <1>2, <1>4, <1>9, <1>10, <1>11 DEF due, gone, ids

\* So does the timer that calls cleanup().
LEMMA TimerRecoverable ==
  ASSUME Recoverable, NoneReturns', Timer
  PROVE  Recoverable'
<1> DEFINE due  == {t \in DOMAIN expiring : expiring[t] = 0}
           gone == Below(replaces, Removable(due))
           ids  == {t \in gone \cap DOMAIN treeMap : treeMap[t] = t}
<1>0. Sound /\ MemoryOK
  BY DEF Recoverable, Sound
<1>1. /\ txs' = txs \ gone
      /\ rbfTrees' = [r \in DOMAIN rbfTrees \ ids |-> rbfTrees[r]]
      /\ Cleanup(expiring, rbfTrees)
  BY DEF Timer, CleanupTimer, Cleanup
<1>2. /\ saved' = saved /\ cacheQueue' = cacheQueue \o CleanupEvents(expiring)
      /\ UNCHANGED <<connected, offline, flushing>>
  BY DEF Timer, CleanupTimer, Queue, client
<1>3. Sound'
  BY <1>0, <1>1, CleanupSound DEF MemoryOK
<1>4. PICK p : p = CleanupEvents(expiring)
  OBVIOUS
<1>5. /\ due \in SUBSET Tx
      /\ p \in GuardedOnes
      /\ \A e \in ToSet(p) : \/ e.type = "exp"
                             \/ \E x \in gone : e = Gone("tx", x)
                             \/ \E x \in ids : e = Gone("tree", x)
      /\ \A x \in gone : Gone("tx", x) \in ToSet(p)
      /\ \A x \in ids : Gone("tree", x) \in ToSet(p)
  BY <1>0, <1>4, CleanupQueued DEF MemoryOK
<1>6. DOMAIN rbfTrees' = DOMAIN rbfTrees \ ids
      /\ \A r \in DOMAIN rbfTrees' : rbfTrees'[r].replaces = rbfTrees[r].replaces
  BY <1>1
<1>9. gone = Below(replaces, Removable(due)) /\ ids = {t \in gone \cap DOMAIN treeMap : treeMap[t] = t}
  OBVIOUS
<1> HIDE DEF due, gone, ids
<1>7. Orderly(p)
  BY <1>0, <1>1, <1>5, <1>6, <1>9, CleanupOrderly
<1> QED
  BY <1>2, <1>3, <1>4, <1>7, OrderlyRecoverable

\* So does the end of checkTransactions(), with its evictions and its cleanup().
LEMMA FinishRecoverable ==
  ASSUME Recoverable, NoneReturns', NEW found, NEW confirmed, NEW flagged,
         flagged = (batch \ found) \cup {t \in confirmed : HasTree(t)},
         FinishCheck(found, confirmed),
         Queue(EvictEvents(flagged) \o CleanupEvents(Evicted(flagged)))
  PROVE  Recoverable'
<1>0. Sound /\ MemoryOK
  BY DEF Recoverable, Sound
<1>1. PICK exp : exp = Evicted(flagged)
  OBVIOUS
<1>2. IsMap(exp, 0..ExpiryTicks)
  BY <1>0, <1>1, EvictedType
<1> DEFINE due  == {t \in DOMAIN exp : exp[t] = 0}
           gone == Below(replaces, Removable(due))
           ids  == {t \in gone \cap DOMAIN treeMap : treeMap[t] = t}
<1>3. PICK trees : trees = WithMined(confirmed)
  OBVIOUS
<1>4. /\ IsForest(trees) /\ DOMAIN trees = DOMAIN rbfTrees
      /\ \A r \in DOMAIN trees : trees[r].replaces = rbfTrees[r].replaces
  BY <1>0, <1>3, MarkedForest
<1>5. Cleanup(exp, trees) /\ saved' = saved
  BY <1>1, <1>3 DEF FinishCheck
<1>6. PICK flags : flags = EvictEvents(flagged)
  OBVIOUS
<1>7. PICK rest : rest = CleanupEvents(exp)
  OBVIOUS
<1>8. PICK p : p = flags \o rest
  OBVIOUS
<1>9. UNCHANGED <<connected, offline, flushing>> /\ cacheQueue' = cacheQueue \o p
  BY <1>1, <1>6, <1>7, <1>8 DEF Queue, client
<1>10. /\ txs' = txs \ gone
       /\ rbfTrees' = [r \in DOMAIN trees \ ids |-> trees[r]]
  BY <1>5 DEF Cleanup
<1>11. Sound'
  BY <1>0, <1>2, <1>4, <1>5, CleanupSound
<1>12. /\ due \in SUBSET Tx
       /\ rest \in GuardedOnes
       /\ \A e \in ToSet(rest) : \/ e.type = "exp"
                                 \/ \E x \in gone : e = Gone("tx", x)
                                 \/ \E x \in ids : e = Gone("tree", x)
       /\ \A x \in gone : Gone("tx", x) \in ToSet(rest)
       /\ \A x \in ids : Gone("tree", x) \in ToSet(rest)
  BY <1>0, <1>2, <1>7, CleanupQueued
<1>13. /\ DOMAIN rbfTrees' = DOMAIN rbfTrees \ ids
       /\ \A r \in DOMAIN rbfTrees' : rbfTrees'[r].replaces = rbfTrees[r].replaces
  BY <1>4, <1>10
<1>14. gone = Below(replaces, Removable(due)) /\ ids = {t \in gone \cap DOMAIN treeMap : treeMap[t] = t}
  OBVIOUS
<1> HIDE DEF due, gone, ids
<1>15. flags \in Seq(Events) /\ \A e \in ToSet(flags) : \E x : e = AddExp(x, ExpiryTicks)
  BY <1>0, <1>6, EvictEventsAre
<1>16. \A e \in ToSet(flags) : e.type = "exp" /\ \A x : ~ Is(e, "remove", "tx", x)
  <2>1. \A x : AddExp(x, ExpiryTicks).type = "exp"
    BY DEF AddExp, Event
  <2>2. \A e : e.type = "exp" => \A x : ~ Is(e, "remove", "tx", x)
    BY DEF Is
  <2> QED
    BY <1>15, <2>1, <2>2
<1>17. flags \in GuardedOnes
  BY <1>15, <1>16, GuardedNone
<1>18. p \in GuardedOnes
  BY <1>8, <1>12, <1>17, GuardedJoined
<1>19. ToSet(p) = ToSet(flags) \cup ToSet(rest)
  BY <1>8, <1>12, <1>15, EventsJoined DEF GuardedOnes
<1>20. /\ \A e \in ToSet(p) : \/ e.type = "exp"
                              \/ \E x \in gone : e = Gone("tx", x)
                              \/ \E x \in ids : e = Gone("tree", x)
       /\ \A x \in gone : Gone("tx", x) \in ToSet(p)
       /\ \A x \in ids : Gone("tree", x) \in ToSet(p)
  BY <1>12, <1>16, <1>19
<1>21. Orderly(p)
  BY <1>0, <1>10, <1>12, <1>13, <1>14, <1>18, <1>20, CleanupOrderly
<1> QED
  BY <1>5, <1>9, <1>11, <1>21, OrderlyRecoverable
-----------------------------------------------------------------------------
(* Crashes: load()                                                         *)

\* The stored trees are separate, and made of stored transactions.
LEMMA LoadableTrees ==
  ASSUME IsSnapshot(saved), Loadable
  PROVE  /\ saved.txs \subseteq Tx /\ DOMAIN saved.trees \subseteq Tx
         /\ \A r \in Live :
              LET kids == saved.trees[r].replaces
              IN /\ IsTree(saved.trees[r])
                 /\ kids \in [Nodes(saved.trees[r]) -> SUBSET Tx]
                 /\ Nodes(saved.trees[r]) = DOMAIN kids
                 /\ r \in DOMAIN kids /\ DOMAIN kids \subseteq saved.txs
                 /\ DOMAIN kids \subseteq Below(kids, {r})
                 /\ \A p \in DOMAIN kids : kids[p] \subseteq DOMAIN kids \ {r}
                 /\ \A x \in DOMAIN kids \ {r} : \E p \in DOMAIN kids : x \in kids[p]
                 /\ \A p, q \in DOMAIN kids : kids[p] \cap kids[q] # {} => p = q
         /\ \A r, q \in Live : Nodes(saved.trees[r]) \cap Nodes(saved.trees[q]) # {} => r = q
<1>1. DOMAIN LiveTrees = Live /\ \A r \in Live : LiveTrees[r] = saved.trees[r]
  BY DEF LiveTrees
<1>2. saved.txs \subseteq Tx /\ DOMAIN saved.trees \subseteq Tx
  BY DEF IsSnapshot, IsForest
<1>3. ASSUME NEW r \in Live
      PROVE  /\ IsTree(saved.trees[r])
             /\ saved.trees[r].replaces \in [Nodes(saved.trees[r]) -> SUBSET Tx]
             /\ Nodes(saved.trees[r]) \subseteq saved.txs
  <2>1. IsTree(saved.trees[r])
    BY DEF IsSnapshot, IsForest, Live
  <2> QED
    BY <2>1 DEF Loadable, IsTree, IsMap, Nodes
<1>4. /\ \A r \in Live :
           /\ r \in Nodes(saved.trees[r])
           /\ \A p \in Nodes(saved.trees[r]) :
                saved.trees[r].replaces[p] \subseteq Nodes(saved.trees[r]) \ {r}
           /\ Nodes(saved.trees[r]) \subseteq Below(saved.trees[r].replaces, {r})
      /\ \A r, q \in Live : Nodes(saved.trees[r]) \cap Nodes(saved.trees[q]) # {} => r = q
      /\ \A r, q \in Live : \A p \in Nodes(saved.trees[r]), s \in Nodes(saved.trees[q]) :
           saved.trees[r].replaces[p] \cap saved.trees[q].replaces[s] # {} => p = s
      /\ \A r \in Live : \A x \in Nodes(saved.trees[r]) \ {r} :
           \E p \in Nodes(saved.trees[r]) : x \in saved.trees[r].replaces[p]
  BY <1>1 DEF Loadable, Separate, Rooted
<1>5. \A r \in Live : \A p, s \in Nodes(saved.trees[r]) :
        saved.trees[r].replaces[p] \cap saved.trees[r].replaces[s] # {} => p = s
  BY <1>4
<1> QED
  BY <1>2, <1>3, <1>4, <1>5 DEF Nodes

\* The tables once the stored trees of the roots R have come in.
Taken(m, R) ==
  LET L == R \cap saved.txs
      kids(r) == saved.trees[r].replaces
  IN /\ m = [trees |-> m.trees, treeMap |-> m.treeMap, replaces |-> m.replaces,
             replacedBy |-> m.replacedBy, events |-> m.events]
     /\ DOMAIN m.trees = L
     /\ \A r \in L : IsTree(m.trees[r]) /\ m.trees[r].replaces = kids(r)
     /\ IsMap(m.treeMap, Tx)
     /\ \A x \in DOMAIN m.treeMap : \E r \in L : x \in DOMAIN kids(r)
     /\ \A r \in L : \A x \in DOMAIN kids(r) : x \in DOMAIN m.treeMap /\ m.treeMap[x] = r
     /\ IsMap(m.replaces, SUBSET Tx)
     /\ DOMAIN m.replaces = DOMAIN m.treeMap
     /\ \A r \in L : \A p \in DOMAIN kids(r) : m.replaces[p] = kids(r)[p]
     /\ IsMap(m.replacedBy, Tx)
     /\ \A c \in DOMAIN m.replacedBy : \E r \in L : c \in DOMAIN kids(r) \ {r}
     /\ \A r \in L : \A p \in DOMAIN kids(r) : \A c \in kids(r)[p] :
          c \in DOMAIN m.replacedBy /\ m.replacedBy[c] = p
     /\ m.events \in Seq(Events)
     /\ \A e : e \in ToSet(m.events) <=>
          (\E r \in L : e = AddTree(r)) \/ (\E r \in R \ saved.txs : e = Gone("tree", r))

\* What importTree() makes of a tree that is whole, with nothing in common with the others.
LEMMA ImportWhole ==
  ASSUME IsSnapshot(saved), Loadable, NEW R \in SUBSET DOMAIN saved.trees,
         NEW m, Taken(m, R), NEW r \in Live \ R
  PROVE  LET stored == saved.trees[r].replaces
             nodes  == DOMAIN stored
         IN Import(saved, m, r) =
              [trees |-> With(m.trees, r,
                 [replaces |-> stored,
                  minedTxs |-> saved.trees[r].minedTxs \cap nodes,
                  mined    |-> FALSE,
                  fullRbf  |-> saved.trees[r].fullRbf]),
               treeMap |-> [x \in DOMAIN m.treeMap \cup nodes |->
                              IF x \in nodes THEN r ELSE m.treeMap[x]],
               replaces |-> [p \in DOMAIN m.replaces \cup nodes |->
                               IF p \in nodes THEN stored[p] ELSE m.replaces[p]],
               replacedBy |-> [c \in DOMAIN m.replacedBy \cup (nodes \ {r}) |->
                                 IF c \in nodes \ {r} THEN CHOOSE p \in nodes : c \in stored[p]
                                 ELSE m.replacedBy[c]],
               events |-> m.events \o <<AddTree(r)>>]
<1>1. PICK stored : stored = saved.trees[r].replaces
  OBVIOUS
<1>2. PICK nodes : nodes = DOMAIN stored
  OBVIOUS
<1>3. /\ stored \in [nodes -> SUBSET Tx]
      /\ r \in nodes /\ nodes \subseteq saved.txs /\ nodes \subseteq Tx
      /\ nodes \subseteq Below(stored, {r})
      /\ \A p \in nodes : stored[p] \subseteq nodes \ {r}
      /\ \A x \in nodes \ {r} : \E p \in nodes : x \in stored[p]
  BY <1>1, <1>2, LoadableTrees
<1>4. DOMAIN m.treeMap \cap nodes = {}
  <2> SUFFICES ASSUME NEW x \in DOMAIN m.treeMap, x \in nodes PROVE FALSE
    OBVIOUS
  <2>1. PICK q \in R \cap saved.txs : x \in Nodes(saved.trees[q])
    BY DEF Taken, Nodes
  <2>2. x \in Nodes(saved.trees[r])
    BY <1>1, <1>2 DEF Nodes
  <2>3. q \in Live
    BY <2>1 DEF Live
  <2> QED
    BY <2>1, <2>2, <2>3, LoadableTrees
<1>5. [p \in DOMAIN stored |-> stored[p] \ DOMAIN m.treeMap] = stored
  BY <1>2, <1>3, <1>4
<1>6. Below(stored, {r}) = nodes
  <2>1. ClosedUnder(stored, nodes)
    BY <1>3 DEF ClosedUnder
  <2>2. Below(stored, {r}) \subseteq nodes
    BY <1>3, <2>1, BelowLeast
  <2> QED
    BY <1>3, <2>2
<1>7. [p \in nodes |-> stored[p] \cap saved.txs] = stored
  BY <1>3
<1>8. UNION {stored[p] : p \in nodes} = nodes \ {r}
  BY <1>3
<1>9. ~ Stale(saved, m, r)
  BY <1>3, <1>4 DEF Stale, Live
<1>10. nodes \ {r} \subseteq nodes /\ [p \in nodes |-> stored[p]] = stored
  BY <1>3
<1>11. m.events \o <<>> = m.events
  BY DEF Taken
<1> DEFINE new    == [p \in DOMAIN stored |-> stored[p] \ DOMAIN m.treeMap]
           walked == Below(new, {r})
           kept   == [p \in walked |-> new[p] \cap saved.txs]
           linked == Below(kept, {r})
           shared == ~ UNION {stored[p] : p \in walked} \subseteq walked
           upper  == UNION {kept[p] : p \in walked}
<1>12. new = stored /\ walked = nodes
  BY <1>5, <1>6
<1> HIDE DEF new, walked
<1>13. kept = stored /\ linked = nodes
  <2>1. kept = stored
    BY <1>1, <1>7, <1>12
  <2> HIDE DEF kept
  <2> QED
    BY <1>6, <2>1
<1> HIDE DEF kept, linked
<1>14. ~ shared
  <2>1. UNION {stored[p] : p \in walked} = UNION {stored[p] : p \in nodes}
    BY <1>12
  <2> QED
    BY <1>8, <1>10, <1>12, <2>1
<1>15. upper = nodes \ {r}
  BY <1>8, <1>12, <1>13
<1> DEFINE tree1 == [replaces |-> [p \in linked |-> kept[p]],
                     minedTxs |-> saved.trees[r].minedTxs \cap linked,
                     mined    |-> FALSE,
                     fullRbf  |-> saved.trees[r].fullRbf]
           tree2 == [replaces |-> stored,
                     minedTxs |-> saved.trees[r].minedTxs \cap nodes,
                     mined    |-> FALSE,
                     fullRbf  |-> saved.trees[r].fullRbf]
           map1  == [x \in DOMAIN m.treeMap \cup linked |->
                       IF x \in linked THEN r ELSE m.treeMap[x]]
           map2  == [x \in DOMAIN m.treeMap \cup nodes |->
                       IF x \in nodes THEN r ELSE m.treeMap[x]]
           down1 == [p \in DOMAIN m.replaces \cup walked |->
                       IF p \in walked THEN kept[p] ELSE m.replaces[p]]
           down2 == [p \in DOMAIN m.replaces \cup nodes |->
                       IF p \in nodes THEN stored[p] ELSE m.replaces[p]]
           kid1(c) == CHOOSE p \in walked : c \in kept[p]
           kid2(c) == CHOOSE p \in nodes : c \in stored[p]
           up1   == [c \in DOMAIN m.replacedBy \cup upper |->
                       IF c \in upper THEN kid1(c) ELSE m.replacedBy[c]]
           up2   == [c \in DOMAIN m.replacedBy \cup (nodes \ {r}) |->
                       IF c \in nodes \ {r} THEN kid2(c) ELSE m.replacedBy[c]]
           undo  == IF shared THEN Unstore(r) ELSE <<>>
<1>16. Import(saved, m, r) = [trees |-> With(m.trees, r, tree1), treeMap |-> map1, replaces |-> down1,
                       replacedBy |-> up1, events |-> m.events \o undo \o <<AddTree(r)>>]
  BY <1>1, <1>9 DEF Import, new, walked, kept, linked
<1> HIDE DEF shared, upper
<1>17. m.events \o undo = m.events
  BY <1>11, <1>14
<1>18. tree1 = tree2
  BY <1>10, <1>13
<1>19. map1 = map2
  BY <1>13
<1>20. down1 = down2
  BY <1>12, <1>13
<1>21. up1 = up2
  <2>1. \A c : kid1(c) = kid2(c)
    BY <1>12, <1>13
  <2> HIDE DEF kid1, kid2
  <2> QED
    BY <1>15, <2>1
<1> HIDE DEF tree1, map1, down1, up1, undo
<1>22. Import(saved, m, r) = [trees |-> With(m.trees, r, tree2), treeMap |-> map2, replaces |-> down2,
                       replacedBy |-> up2, events |-> m.events \o <<AddTree(r)>>]
  <2> HIDE DEF tree2, map2, down2, up2
  <2> QED
    BY <1>16, <1>17, <1>18, <1>19, <1>20, <1>21
<1> QED
  BY <1>1, <1>2, <1>22

\* importTree() takes over a live tree as it is and queues the removal of another one.
LEMMA ImportTaken ==
  ASSUME IsSnapshot(saved), Loadable, NEW R \in SUBSET DOMAIN saved.trees,
         NEW m, Taken(m, R), NEW r \in DOMAIN saved.trees \ R
  PROVE  Taken(Import(saved, m, r), R \cup {r})
<1> DEFINE L == R \cap saved.txs
           kids(q) == saved.trees[q].replaces
<1>1. PICK R2 : R2 = R \cup {r}
  OBVIOUS
<1>2. /\ m = [trees |-> m.trees, treeMap |-> m.treeMap, replaces |-> m.replaces,
              replacedBy |-> m.replacedBy, events |-> m.events]
      /\ DOMAIN m.trees = L
      /\ \A q \in L : IsTree(m.trees[q]) /\ m.trees[q].replaces = kids(q)
      /\ IsMap(m.treeMap, Tx)
      /\ \A x \in DOMAIN m.treeMap : \E q \in L : x \in DOMAIN kids(q)
      /\ \A q \in L : \A x \in DOMAIN kids(q) : x \in DOMAIN m.treeMap /\ m.treeMap[x] = q
      /\ IsMap(m.replaces, SUBSET Tx)
      /\ DOMAIN m.replaces = DOMAIN m.treeMap
      /\ \A q \in L : \A p \in DOMAIN kids(q) : m.replaces[p] = kids(q)[p]
      /\ IsMap(m.replacedBy, Tx)
      /\ \A c \in DOMAIN m.replacedBy : \E q \in L : c \in DOMAIN kids(q) \ {q}
      /\ \A q \in L : \A p \in DOMAIN kids(q) : \A c \in kids(q)[p] :
           c \in DOMAIN m.replacedBy /\ m.replacedBy[c] = p
      /\ m.events \in Seq(Events)
      /\ \A e : e \in ToSet(m.events) <=>
           (\E q \in L : e = AddTree(q)) \/ (\E q \in R \ saved.txs : e = Gone("tree", q))
  BY DEF Taken
<1>3. r \in Tx
  BY LoadableTrees
<1>4. \A a \in Events : /\ m.events \o <<a>> \in Seq(Events)
                        /\ ToSet(m.events \o <<a>>) = ToSet(m.events) \cup {a}
  <2> TAKE a \in Events
  <2>1. <<a>> \in Seq(Events) /\ ToSet(<<a>>) = {a}
    BY ToSetShort
  <2> QED
    BY <1>2, <2>1, EventsJoined, Zenon
<1>5. CASE r \notin saved.txs
  <2>1. Import(saved, m, r) = [m EXCEPT !.events = @ \o Unstore(r)]
    BY <1>5 DEF Import, Stale
  <2>2. PICK ev : ev = m.events \o <<Gone("tree", r)>>
    OBVIOUS
  <2>3. PICK m2 : m2 = Import(saved, m, r)
    OBVIOUS
  <2>4. m2 = [trees |-> m.trees, treeMap |-> m.treeMap, replaces |-> m.replaces,
              replacedBy |-> m.replacedBy, events |-> ev]
    BY <1>2, <2>1, <2>2, <2>3 DEF Unstore
  <2>5. /\ m2 = [trees |-> m2.trees, treeMap |-> m2.treeMap, replaces |-> m2.replaces,
                 replacedBy |-> m2.replacedBy, events |-> m2.events]
        /\ m2.trees = m.trees /\ m2.treeMap = m.treeMap /\ m2.replaces = m.replaces
        /\ m2.replacedBy = m.replacedBy /\ m2.events = ev
    BY <2>4
  <2>6. R2 \cap saved.txs = L /\ R2 \ saved.txs = (R \ saved.txs) \cup {r}
    BY <1>1, <1>5
  <2>7. Gone("tree", r) \in Events
    BY <1>3, EventTypes DEF Types
  <2>8. ev \in Seq(Events) /\ ToSet(ev) = ToSet(m.events) \cup {Gone("tree", r)}
    BY <1>4, <2>2, <2>7
  <2> HIDE DEF L, kids
  <2>9. \A e : e \in ToSet(ev) <=>
          (\E q \in L : e = AddTree(q)) \/ (\E q \in (R \ saved.txs) \cup {r} : e = Gone("tree", q))
    BY <1>2, <2>8
  <2>10. Taken(m2, R2)
    BY <1>2, <2>5, <2>6, <2>8, <2>9 DEF Taken, kids
  <2> QED
    BY <1>1, <2>3, <2>10
<1>6. CASE r \in saved.txs
  <2> DEFINE stored == saved.trees[r].replaces
             nodes == DOMAIN stored
  <2>1. stored = saved.trees[r].replaces
    OBVIOUS
  <2>2. nodes = DOMAIN stored
    OBVIOUS
  <2>0. Import(saved, m, r) =
           [trees |-> With(m.trees, r,
              [replaces |-> stored,
               minedTxs |-> saved.trees[r].minedTxs \cap nodes,
               mined    |-> FALSE,
               fullRbf  |-> saved.trees[r].fullRbf]),
            treeMap |-> [x \in DOMAIN m.treeMap \cup nodes |->
                           IF x \in nodes THEN r ELSE m.treeMap[x]],
            replaces |-> [p \in DOMAIN m.replaces \cup nodes |->
                            IF p \in nodes THEN stored[p] ELSE m.replaces[p]],
            replacedBy |-> [c \in DOMAIN m.replacedBy \cup (nodes \ {r}) |->
                              IF c \in nodes \ {r} THEN CHOOSE p \in nodes : c \in stored[p]
                              ELSE m.replacedBy[c]],
            events |-> m.events \o <<AddTree(r)>>]
    <3>1. r \in Live \ R
      BY <1>6 DEF Live
    <3> QED
      BY <3>1, ImportWhole
  <2> HIDE DEF stored, nodes
  <2>3. r \in Live
    BY <1>6 DEF Live
  <2>4. /\ stored \in [nodes -> SUBSET Tx]
        /\ r \in nodes /\ nodes \subseteq Tx
        /\ \A p \in nodes : stored[p] \subseteq nodes \ {r}
        /\ \A x \in nodes \ {r} : \E p \in nodes : x \in stored[p]
        /\ \A p, q \in nodes : stored[p] \cap stored[q] # {} => p = q
    BY <2>1, <2>2, <2>3, LoadableTrees
  <2>5. PICK tree : tree = [replaces |-> stored,
                            minedTxs |-> saved.trees[r].minedTxs \cap nodes,
                            mined    |-> FALSE,
                            fullRbf  |-> saved.trees[r].fullRbf]
    OBVIOUS
  <2>6. IsTree(tree) /\ tree.replaces = stored
    <3>1. IsTree(saved.trees[r])
      BY <2>3, LoadableTrees
    <3>2. /\ IsMap(stored, SUBSET Tx) /\ saved.trees[r].minedTxs \cap nodes \subseteq Tx
          /\ saved.trees[r].fullRbf \in BOOLEAN
      BY <2>1, <3>1 DEF IsTree
    <3>3. /\ tree.replaces = stored /\ tree.minedTxs = saved.trees[r].minedTxs \cap nodes
          /\ tree.mined = FALSE /\ tree.fullRbf = saved.trees[r].fullRbf
      BY <2>5
    <3> QED
      BY <2>5, <3>2, <3>3 DEF IsTree
  <2>7. PICK map : map = [x \in DOMAIN m.treeMap \cup nodes |->
                            IF x \in nodes THEN r ELSE m.treeMap[x]]
    OBVIOUS
  <2>8. PICK down : down = [p \in DOMAIN m.replaces \cup nodes |->
                              IF p \in nodes THEN stored[p] ELSE m.replaces[p]]
    OBVIOUS
  <2>9. PICK up : up = [c \in DOMAIN m.replacedBy \cup (nodes \ {r}) |->
                          IF c \in nodes \ {r} THEN CHOOSE p \in nodes : c \in stored[p]
                          ELSE m.replacedBy[c]]
    OBVIOUS
  <2>10. PICK ev : ev = m.events \o <<AddTree(r)>>
    OBVIOUS
  <2>11. PICK trees : trees = With(m.trees, r, tree)
    OBVIOUS
  <2>12. PICK m2 : m2 = Import(saved, m, r)
    OBVIOUS
  <2>13. m2 = [trees |-> trees, treeMap |-> map, replaces |-> down, replacedBy |-> up,
               events |-> ev]
    BY <2>5, <2>7, <2>8, <2>9, <2>10, <2>11, <2>12, <2>0, Zenon
  <2>14. /\ m2 = [trees |-> m2.trees, treeMap |-> m2.treeMap, replaces |-> m2.replaces,
                  replacedBy |-> m2.replacedBy, events |-> m2.events]
         /\ m2.trees = trees /\ m2.treeMap = map /\ m2.replaces = down
         /\ m2.replacedBy = up /\ m2.events = ev
    BY <2>13
  <2>15. R2 \cap saved.txs = L \cup {r} /\ R2 \ saved.txs = R \ saved.txs /\ r \notin L
    BY <1>1, <1>6
  <2>16. \A q \in L : DOMAIN kids(q) \cap nodes = {}
    <3> SUFFICES ASSUME NEW q \in L, DOMAIN kids(q) \cap nodes # {} PROVE FALSE
      OBVIOUS
    <3>1. q \in Live /\ q # r
      BY <1>6 DEF Live
    <3>2. Nodes(saved.trees[q]) \cap Nodes(saved.trees[r]) # {}
      BY <2>1, <2>2 DEF Nodes
    <3> QED
      BY <2>3, <3>1, <3>2, LoadableTrees
  <2>17. kids(r) = stored /\ DOMAIN kids(r) = nodes
    BY <2>1, <2>2
  <2> HIDE DEF L, kids
  <2>18. DOMAIN m.treeMap \cap nodes = {} /\ DOMAIN m.replacedBy \cap nodes = {}
    BY <1>2, <2>16
  <2>19. /\ DOMAIN trees = L \cup {r}
         /\ \A q \in L \cup {r} : IsTree(trees[q]) /\ trees[q].replaces = kids(q)
    <3>1. DOMAIN trees = L \cup {r} /\ trees[r] = tree /\ \A q \in L : trees[q] = m.trees[q]
      BY <1>2, <2>11, <2>15 DEF With
    <3> QED
      BY <1>2, <2>6, <2>17, <3>1
  <2>20. /\ IsMap(map, Tx)
         /\ \A x \in DOMAIN map : \E q \in L \cup {r} : x \in DOMAIN kids(q)
         /\ \A q \in L \cup {r} : \A x \in DOMAIN kids(q) : x \in DOMAIN map /\ map[x] = q
    <3>1. /\ DOMAIN map = DOMAIN m.treeMap \cup nodes
          /\ \A x \in nodes : map[x] = r
          /\ \A x \in DOMAIN m.treeMap : map[x] = m.treeMap[x]
      BY <2>7, <2>18
    <3>2. IsMap(map, Tx)
      BY <1>2, <1>3, <2>4, <2>7 DEF IsMap
    <3> QED
      BY <1>2, <2>17, <3>1, <3>2
  <2>21. /\ IsMap(down, SUBSET Tx) /\ DOMAIN down = DOMAIN map
         /\ \A q \in L \cup {r} : \A p \in DOMAIN kids(q) : down[p] = kids(q)[p]
    <3>1. /\ DOMAIN down = DOMAIN m.replaces \cup nodes
          /\ \A p \in nodes : down[p] = stored[p]
          /\ \A p \in DOMAIN m.replaces : down[p] = m.replaces[p]
      BY <1>2, <2>8, <2>18
    <3>2. IsMap(down, SUBSET Tx)
      BY <1>2, <2>4, <2>8 DEF IsMap
    <3>3. DOMAIN down = DOMAIN map
      BY <1>2, <2>7, <3>1
    <3> QED
      BY <1>2, <2>17, <3>1, <3>2, <3>3
  <2>22. /\ IsMap(up, Tx)
         /\ \A c \in DOMAIN up : \E q \in L \cup {r} : c \in DOMAIN kids(q) \ {q}
         /\ \A q \in L \cup {r} : \A p \in DOMAIN kids(q) : \A c \in kids(q)[p] :
              c \in DOMAIN up /\ up[c] = p
    <3>1. \A c \in nodes \ {r} : \E p \in nodes : c \in stored[p]
      BY <2>4
    <3>2. \A c \in nodes \ {r} : up[c] \in nodes /\ c \in stored[up[c]]
      BY <2>9, <3>1
    <3>3. /\ DOMAIN up = DOMAIN m.replacedBy \cup (nodes \ {r})
          /\ \A c \in DOMAIN m.replacedBy : up[c] = m.replacedBy[c]
      BY <2>9, <2>18
    <3>4. \A c \in DOMAIN up : c \in Tx /\ up[c] \in Tx
      BY <1>2, <2>4, <3>2, <3>3 DEF IsMap
    <3>5. IsMap(up, Tx)
      BY <2>9, <3>4 DEF IsMap
    <3>6. \A p \in nodes : \A c \in stored[p] : c \in DOMAIN up /\ up[c] = p
      <4> TAKE p \in nodes
      <4> TAKE c \in stored[p]
      <4>1. c \in nodes \ {r}
        BY <2>4
      <4>2. up[c] \in nodes /\ c \in stored[p] \cap stored[up[c]]
        BY <3>2, <4>1
      <4> QED
        BY <2>4, <3>3, <4>1, <4>2
    <3>7. \A c \in DOMAIN up : \E q \in L \cup {r} : c \in DOMAIN kids(q) \ {q}
      BY <1>2, <2>17, <3>3
    <3> QED
      BY <1>2, <2>17, <3>3, <3>5, <3>6, <3>7
  <2>23. /\ ev \in Seq(Events)
         /\ \A e : e \in ToSet(ev) <=> (\E q \in L \cup {r} : e = AddTree(q))
                                       \/ (\E q \in R \ saved.txs : e = Gone("tree", q))
    <3>1. AddTree(r) \in Events
      BY <1>3, EventTypes
    <3>2. ev \in Seq(Events) /\ ToSet(ev) = ToSet(m.events) \cup {AddTree(r)}
      BY <1>4, <2>10, <3>1
    <3> QED
      BY <1>2, <3>2
  <2>24. Taken(m2, R2)
    BY <2>14, <2>15, <2>19, <2>20, <2>21, <2>22, <2>23 DEF Taken, kids
  <2> QED
    BY <1>1, <2>12, <2>24
<1> QED
  BY <1>5, <1>6

\* load() takes in all of them.
LEMMA LoadedTaken ==
  ASSUME IsSnapshot(saved), Loadable, NEW order \in Orders(saved.trees)
  PROVE  Taken(Loaded(saved, order), DOMAIN saved.trees)
<1> DEFINE n == Cardinality(DOMAIN saved.trees)
           f == CHOOSE g : Loads(saved, g, n, order)
<1>1. IsFiniteSet(DOMAIN saved.trees) /\ n \in Nat
  <2>1. DOMAIN saved.trees \subseteq Tx
    BY LoadableTrees
  <2>2. IsFiniteSet(DOMAIN saved.trees)
    BY <2>1, FS_Subset, FiniteAssumption
  <2> QED
    BY <2>2, FS_CardinalityType
<1>2. /\ order \in [1..n -> DOMAIN saved.trees]
      /\ \A i, j \in 1..n : order[i] = order[j] => i = j
  BY DEF Orders, SetToSeqs
<1>3. \A r \in DOMAIN saved.trees : \E i \in 1..n : order[i] = r
  <2>1. IsFiniteSet(1..n) /\ Cardinality(1..n) = n
    BY <1>1, FS_Interval
  <2>2. order \in Injection(1..n, DOMAIN saved.trees)
    BY <1>2 DEF Injection, IsInjective
  <2>3. order \in Surjection(1..n, DOMAIN saved.trees)
    BY <1>1, <2>1, <2>2, FS_Injection
  <2> QED
    BY <2>3 DEF Surjection
<1>4. Loads(saved, f, n, order)
  BY <1>1, LoadsExist
<1>5. Loaded(saved, order) = f[n]
  BY DEF Loaded, Loads
<1> HIDE DEF f, n
<1> DEFINE First(i) == {order[j] : j \in 1..i}
           S == {i \in 0..n : Taken(f[i], First(i))}
<1>6. 0 \in S
  <2>1. PICK m : m = f[0]
    OBVIOUS
  <2>2. m = [trees |-> Nothing, treeMap |-> Nothing, replaces |-> Nothing,
             replacedBy |-> Nothing, events |-> <<>>] /\ 0 \in 0..n
    BY <1>1, <1>4, <2>1 DEF Loads
  <2>3. /\ m = [trees |-> m.trees, treeMap |-> m.treeMap, replaces |-> m.replaces,
                replacedBy |-> m.replacedBy, events |-> m.events]
        /\ m.trees = Nothing /\ m.treeMap = Nothing /\ m.replaces = Nothing
        /\ m.replacedBy = Nothing /\ m.events = <<>>
    BY <2>2
  <2>4. DOMAIN Nothing = {} /\ \A T : IsMap(Nothing, T)
    BY DEF Nothing, IsMap
  <2>5. First(0) = {}
    OBVIOUS
  <2>6. <<>> \in Seq(Events) /\ ToSet(<<>>) = {}
    BY ToSetShort
  <2>7. Taken(m, {})
    BY <2>3, <2>4, <2>6 DEF Taken
  <2> QED
    BY <2>1, <2>2, <2>5, <2>7
<1>7. ASSUME NEW i \in 1..n, i - 1 \in S PROVE i \in S
  <2>1. i \in 0..n /\ i # 0 /\ i - 1 \in 0..n
    BY <1>1
  <2>2. f[i] = Import(saved, f[i - 1], order[i])
    BY <1>4, <2>1 DEF Loads
  <2>3. PICK R : R = First(i - 1)
    OBVIOUS
  <2>4. PICK m : m = f[i - 1]
    OBVIOUS
  <2>5. PICK r : r = order[i]
    OBVIOUS
  <2>6. Taken(m, R)
    BY <1>7, <2>3, <2>4
  <2>7. R \in SUBSET DOMAIN saved.trees /\ r \in DOMAIN saved.trees \ R
    <3>1. \A j \in 1..(i - 1) : j \in 1..n /\ j # i
      BY <1>1
    <3> QED
      BY <1>2, <2>3, <2>5, <3>1
  <2>8. First(i) = R \cup {r}
    <3>1. \A j : j \in 1..i <=> j \in 1..(i - 1) \/ j = i
      BY <1>1
    <3> QED
      BY <2>3, <2>5, <3>1
  <2>9. Taken(Import(saved, m, r), R \cup {r})
    BY <2>6, <2>7, ImportTaken
  <2>10. f[i] = Import(saved, m, r)
    BY <2>2, <2>4, <2>5
  <2> HIDE DEF First
  <2> QED
    BY <2>1, <2>8, <2>9, <2>10
<1>8. First(n) = DOMAIN saved.trees
  BY <1>2, <1>3
<1> HIDE DEF S
<1>9. \A i \in 0..n : i \in S
  BY <1>1, <1>6, <1>7, Upwards
<1> HIDE DEF First
<1>10. Taken(f[n], First(n))
  <2>1. n \in 0..n
    BY <1>1
  <2>2. n \in S
    BY <1>9, <2>1
  <2> QED
    BY <2>2 DEF S
<1> QED
  BY <1>5, <1>8, <1>10

\* ... and leaves sound tables of them.
LEMMA TakenSound ==
  ASSUME IsSnapshot(saved), Loadable, NEW m, Taken(m, DOMAIN saved.trees),
         rbfTrees' = m.trees, dirtyTrees' = DOMAIN m.trees, treeMap' = m.treeMap,
         replaces' = m.replaces, replacedBy' = m.replacedBy, txs' = saved.txs,
         expiring' = [t \in DOMAIN saved.expiring \cap saved.txs |-> saved.expiring[t]]
  PROVE  Sound'
<1> DEFINE kids(q) == saved.trees[q].replaces
<1>1. Live = DOMAIN saved.trees \cap saved.txs
  BY DEF Live
<1>2. /\ DOMAIN rbfTrees' = Live
      /\ \A q \in Live : IsTree(rbfTrees'[q]) /\ rbfTrees'[q].replaces = kids(q)
      /\ IsMap(treeMap', Tx)
      /\ \A x \in DOMAIN treeMap' : \E q \in Live : x \in DOMAIN kids(q)
      /\ \A q \in Live : \A x \in DOMAIN kids(q) : x \in DOMAIN treeMap' /\ treeMap'[x] = q
      /\ IsMap(replaces', SUBSET Tx)
      /\ DOMAIN replaces' = DOMAIN treeMap'
      /\ \A q \in Live : \A p \in DOMAIN kids(q) : replaces'[p] = kids(q)[p]
      /\ IsMap(replacedBy', Tx)
      /\ \A c \in DOMAIN replacedBy' : \E q \in Live : c \in DOMAIN kids(q) \ {q}
      /\ \A q \in Live : \A p \in DOMAIN kids(q) : \A c \in kids(q)[p] :
           c \in DOMAIN replacedBy' /\ replacedBy'[c] = p
  BY <1>1 DEF Taken
<1>3. /\ saved.txs \subseteq Tx /\ Live \subseteq Tx
      /\ \A r \in Live :
           /\ r \in DOMAIN kids(r) /\ DOMAIN kids(r) \subseteq saved.txs
           /\ DOMAIN kids(r) \subseteq Below(kids(r), {r})
           /\ \A p \in DOMAIN kids(r) : kids(r)[p] \subseteq DOMAIN kids(r) \ {r}
           /\ \A x \in DOMAIN kids(r) \ {r} : \E p \in DOMAIN kids(r) : x \in kids(r)[p]
  BY <1>1, LoadableTrees
<1> HIDE DEF kids
<1>4. \A q \in Live : Nodes(rbfTrees'[q]) = DOMAIN kids(q)
  BY <1>2 DEF Nodes
<1>5. MemoryOK'
  <2>1. IsMap(expiring', 0..ExpiryTicks)
    BY DEF IsSnapshot, IsMap
  <2>2. IsForest(rbfTrees')
    BY <1>2, <1>3 DEF IsForest
  <2>3. dirtyTrees' = Live
    BY <1>2
  <2> QED
    BY <1>2, <1>3, <2>1, <2>2, <2>3 DEF MemoryOK
<1>6. Rooted(rbfTrees)'
  <2>1. ASSUME NEW r \in Live
        PROVE  /\ r \in Nodes(rbfTrees'[r])
               /\ \A p \in Nodes(rbfTrees'[r]) :
                    rbfTrees'[r].replaces[p] \subseteq Nodes(rbfTrees'[r]) \ {r}
               /\ Nodes(rbfTrees'[r]) \subseteq Below(rbfTrees'[r].replaces, {r})
    <3>1. rbfTrees'[r].replaces = kids(r) /\ Nodes(rbfTrees'[r]) = DOMAIN kids(r)
      BY <1>2, <1>4
    <3> QED
      BY <1>3, <3>1
  <2>2. DOMAIN rbfTrees' = Live
    BY <1>2
  <2> QED
    BY <2>1, <2>2 DEF Rooted
<1>7. Indexed'
  BY <1>2, <1>4 DEF Indexed
<1>8. Linked'
  <2>1. \A p \in DOMAIN treeMap' : Kids(p)' = replaces'[p]
    BY <1>2 DEF Kids
  <2>2. ASSUME NEW p \in DOMAIN treeMap' PROVE rbfTrees'[treeMap'[p]].replaces[p] = Kids(p)'
    BY <1>2, <2>1
  <2>3. ASSUME NEW x \in DOMAIN replacedBy'
        PROVE  x \in DOMAIN treeMap' /\ x \in Kids(replacedBy[x])'
    <3>1. PICK q \in Live : x \in DOMAIN kids(q) \ {q}
      BY <1>2
    <3>2. PICK p \in DOMAIN kids(q) : x \in kids(q)[p]
      BY <1>3, <3>1
    <3>3. replacedBy'[x] = p /\ p \in DOMAIN treeMap' /\ replaces'[p] = kids(q)[p]
      BY <1>2, <3>2
    <3> QED
      BY <1>2, <3>1, <3>2, <3>3 DEF Kids
  <2>4. ASSUME NEW p \in DOMAIN replaces', NEW c \in replaces'[p]
        PROVE  c \in DOMAIN replacedBy' /\ replacedBy'[c] = p
    <3>1. PICK q \in Live : p \in DOMAIN kids(q)
      BY <1>2
    <3> QED
      BY <1>2, <3>1
  <2>5. ASSUME NEW x \in DOMAIN treeMap'
        PROVE  x \notin DOMAIN replacedBy' <=> treeMap'[x] = x
    <3>1. PICK q \in Live : x \in DOMAIN kids(q)
      BY <1>2
    <3>2. treeMap'[x] = q
      BY <1>2, <3>1
    <3>3. CASE x = q
      <4>1. ASSUME x \in DOMAIN replacedBy' PROVE FALSE
        <5>1. PICK s \in Live : x \in DOMAIN kids(s) \ {s}
          BY <1>2, <4>1
        <5>2. treeMap'[x] = s
          BY <1>2, <5>1
        <5> QED
          BY <3>2, <3>3, <5>1, <5>2
      <4> QED
        BY <3>2, <3>3, <4>1
    <3>4. CASE x # q
      <4>1. PICK p \in DOMAIN kids(q) : x \in kids(q)[p]
        BY <1>3, <3>1, <3>4
      <4> QED
        BY <1>2, <3>2, <3>4, <4>1
    <3> QED
      BY <3>3, <3>4
  <2> QED
    BY <1>2, <2>2, <2>3, <2>4, <2>5 DEF Linked
<1>9. DOMAIN treeMap' \subseteq txs'
  BY <1>2, <1>3
<1> QED
  BY <1>5, <1>6, <1>7, <1>8, <1>9 DEF Sound

\* A crash leaves a process whose store is almost caught up with.
LEMMA ReloadRecoverable ==
  ASSUME Recoverable, Reload, ~ Fail("down"), ~ Fail("unread")
  PROVE  Recoverable'
<1>0. ReloadAfter({}) /\ ReadBack({}) = saved
  <2>1. PICK failed \in SUBSET Types : ReloadAfter(failed)
    BY DEF Reload
  <2>2. failed = {}
    BY <2>1 DEF ReloadAfter
  <2>3. saved = [txs |-> saved.txs, trees |-> saved.trees, expiring |-> saved.expiring]
    BY DEF Recoverable, IsSnapshot
  <2> QED
    BY <2>1, <2>2, <2>3 DEF ReadBack
<1>1. PICK order \in Orders(saved.trees) :
        /\ rbfTrees' = Loaded(saved, order).trees
        /\ dirtyTrees' = DOMAIN Loaded(saved, order).trees
        /\ treeMap' = Loaded(saved, order).treeMap
        /\ replaces' = Loaded(saved, order).replaces
        /\ replacedBy' = Loaded(saved, order).replacedBy
        /\ cacheQueue' = Loaded(saved, order).events
  BY <1>0 DEF ReloadAfter
<1>2. /\ txs' = saved.txs
      /\ expiring' = [t \in DOMAIN saved.expiring \cap saved.txs |-> saved.expiring[t]]
      /\ connected' = TRUE /\ saved' = saved
      /\ rbfCacheQueue' = <<>> /\ rbfRemoveQueue' = <<>>
      /\ flushing' = [step |-> "idle", todo |-> <<>>]
  BY <1>0 DEF ReloadAfter
<1>3. IsSnapshot(saved) /\ Loadable
  BY DEF Recoverable
<1>4. PICK m : m = Loaded(saved, order)
  OBVIOUS
<1>5. Taken(m, DOMAIN saved.trees)
  BY <1>3, <1>4, LoadedTaken
<1>6. Sound'
  BY <1>1, <1>2, <1>3, <1>4, <1>5, TakenSound
<1>7. Loadable' /\ Live' = Live
  BY <1>2, <1>3 DEF Loadable, Live, LiveTrees
<1>8. PICK c : c = cacheQueue'
  OBVIOUS
<1>9. /\ c \in Seq(Events)
      /\ \A i \in DOMAIN c : \/ \E r \in Live : c[i] = AddTree(r)
                             \/ \E r \in DOMAIN saved.trees \ saved.txs : c[i] = Gone("tree", r)
      /\ \A r \in DOMAIN saved.trees : \E i \in DOMAIN c : About(c[i], "tree", r)
  <2>1. /\ c \in Seq(Events)
        /\ \A e : e \in ToSet(c) <=>
             \/ \E r \in Live : e = AddTree(r)
             \/ \E r \in DOMAIN saved.trees \ saved.txs : e = Gone("tree", r)
    BY <1>1, <1>4, <1>5, <1>8 DEF Taken, Live
  <2>2. \A i \in DOMAIN c : c[i] \in ToSet(c)
    BY DEF ToSet
  <2>3. ASSUME NEW r \in DOMAIN saved.trees
        PROVE  \E i \in DOMAIN c : About(c[i], "tree", r)
    <3>1. AddTree(r) \in ToSet(c) \/ Gone("tree", r) \in ToSet(c)
      BY <2>1 DEF Live
    <3>2. \E i \in DOMAIN c : c[i] = AddTree(r) \/ c[i] = Gone("tree", r)
      BY <3>1 DEF ToSet
    <3> QED
      BY <3>2, EventMeanings
  <2> QED
    BY <2>1, <2>2, <2>3
<1>10. /\ DOMAIN rbfTrees' = Live
       /\ \A r \in Live : rbfTrees'[r].replaces = saved.trees[r].replaces
  BY <1>1, <1>4, <1>5 DEF Taken, Live
<1>11. /\ \A i \in DOMAIN c : \A r : ~ Is(c[i], "add", "tx", r) /\ ~ Is(c[i], "remove", "tx", r)
       /\ \A i \in DOMAIN c : \A r : Is(c[i], "add", "tree", r) => r \in Live
  BY <1>9, EventIs
<1>12. AlmostCaughtUp'
  <2>1. \A t : Alike("tx", t)'
    BY <1>2 DEF Alike
  <2>2. \A t : t \notin DOMAIN saved.trees => Alike("tree", t)'
    BY <1>2, <1>10 DEF Alike, Live
  <2>3. \A i \in DOMAIN c : Meant(c[i])'
    <3>1. \A r \in Live : Meant(AddTree(r))'
      BY <1>10 DEF Meant, AddTree, Event
    <3>2. \A r \in DOMAIN saved.trees \ saved.txs : Meant(Gone("tree", r))'
      BY <1>10 DEF Meant, Gone, Event, Live
    <3> QED
      BY <1>9, <3>1, <3>2
  <2>4. \A type \in {"tx", "tree"}, t \in Tx :
          (\A i \in DOMAIN c : ~ About(c[i], type, t)) => Alike(type, t)'
    BY <1>9, <2>1, <2>2
  <2> QED
    BY <1>8, <2>3, <2>4 DEF AlmostCaughtUp
<1>13. InOrder'
  <2>1. \A r \in Live : r \in saved.txs /\ Nodes(saved.trees[r]) \subseteq saved.txs
                        /\ Nodes(rbfTrees'[r]) = Nodes(saved.trees[r])
    BY <1>3, <1>10 DEF Loadable, Live, Nodes
  <2>2. LiveAgree'
    BY <1>2, <1>7, <1>10 DEF LiveAgree
  <2>3. TxsFirst'
    BY <1>2, <1>10, <2>1 DEF TxsFirst
  <2>4. OldTreeFirst'
    BY <1>2 DEF OldTreeFirst
  <2>5. GoneFirst'
    BY <1>7, <1>10 DEF GoneFirst
  <2>6. RootFirst'
    BY <1>8, <1>11 DEF RootFirst
  <2>7. RemovalFollows'
    BY <1>2, <1>8, <1>11, <2>1 DEF RemovalFollows
  <2> QED
    BY <2>2, <2>3, <2>4, <2>5, <2>6, <2>7 DEF InOrder
<1>14. IsSnapshot(saved')
  BY <1>2, <1>3
<1> QED
  BY <1>2, <1>6, <1>7, <1>8, <1>9, <1>12, <1>13, <1>14 DEF Recoverable
-----------------------------------------------------------------------------
(* Crashes: the theorems                                                   *)

\* Crashes are counted apart from other faults.
LEMMA CrashesCount ==
  ASSUME failures \in [Kinds -> Nat], RNext, OnlyCrashes'
  PROVE  OnlyCrashes /\ ~ Fail("down") /\ ~ Fail("lost") /\ ~ Fail("unread")
<1>1. ASSUME NEW kind, Fail(kind)
      PROVE  kind \notin {"down", "lost", "unread"} /\ OnlyCrashes
  <2>1. kind \in Kinds /\ failures' = [failures EXCEPT ![kind] = @ + 1]
    BY <1>1, FaultsAssumption DEF Fail
  <2>2. \A k \in Kinds : /\ failures[k] \in Nat
                         /\ failures'[k] = IF k = kind THEN failures[k] + 1 ELSE failures[k]
    BY <2>1
  <2>3. \A k \in Kinds \ {"crash"} : failures'[k] = 0
    BY DEF OnlyCrashes
  <2>4. kind = "crash"
    BY <2>1, <2>2, <2>3
  <2> QED
    BY <2>2, <2>3, <2>4 DEF OnlyCrashes
<1>2. failures' = failures \/ \E kind : Fail(kind)
  BY FaultSteps
<1>3. failures' = failures => OnlyCrashes
  BY DEF OnlyCrashes
<1> QED
  BY <1>1, <1>2, <1>3

\* A step with no other fault before or in it is one of those above.
LEMMA RecoverStep ==
  ASSUME failures \in [Kinds -> Nat], OnlyCrashes => Recoverable,
         OnlyCrashes => NoneReturns, (OnlyCrashes => NoneReturns)', [RNext]_rvars
  PROVE  failures' \in [Kinds -> Nat] /\ (OnlyCrashes' => Recoverable')
<1>1. CASE UNCHANGED rvars
  <2>1. /\ UNCHANGED <<memory, saved, cacheQueue, connected, offline, flushing>>
        /\ failures' = failures
    BY <1>1 DEF rvars, client
  <2>2. OnlyCrashes' => OnlyCrashes
    BY <2>1 DEF OnlyCrashes
  <2> QED
    BY <2>1, <2>2, IdleRecoverable
<1>2. CASE RNext
  <2>1. failures' \in [Kinds -> Nat]
    BY <1>2, FaultsCount
  <2> SUFFICES ASSUME OnlyCrashes' PROVE Recoverable'
    BY <2>1
  <2>2. OnlyCrashes /\ ~ Fail("down") /\ ~ Fail("lost") /\ ~ Fail("unread")
    BY <1>2, CrashesCount
  <2>3. Recoverable /\ NoneReturns /\ NoneReturns'
    BY <2>2
  <2>4. connected /\ flushing.step = "idle"
    BY <2>3 DEF Recoverable
  <2>5. CASE Operation
    <3>1. ASSUME NEW replaced \in SUBSET Tx, NEW new \in Tx, new \notin replaced,
                 Call(Add(replaced, new), AddEvents(replaced, new))
          PROVE  Recoverable'
      <4>1. Add(replaced, new) /\ Queue(AddEvents(replaced, new)) /\ saved' = saved
        BY <3>1 DEF Call, Serving
      <4> QED
        BY <2>3, <3>1, <4>1, AddRecoverable
    <3> QED
      BY <2>3, <2>5, <3>1, EvictRecoverable, MinedRecoverable DEF Operation
  <2>6. CASE Loading
    <3>1. CASE Reload
      BY <2>2, <2>3, <3>1, ReloadRecoverable
    <3>2. ASSUME NEW replaced \in SUBSET Tx, NEW new \in Tx, new \notin replaced,
                 Connect(replaced, new), Queue(AddEvents(replaced, new))
          PROVE  Recoverable'
      <4>1. Add(replaced, new) /\ saved' = saved
        BY <3>2 DEF Connect
      <4> QED
        BY <2>3, <3>2, <4>1, AddRecoverable
    <3>3. CASE BeginCheck /\ Queue(<<>>)
      <4>1. cacheQueue \o <<>> = cacheQueue
        BY <2>3 DEF Recoverable
      <4>2. UNCHANGED <<memory, saved, cacheQueue, connected, offline, flushing>>
        BY <3>3, <4>1 DEF BeginCheck, Queue, client
      <4> QED
        BY <2>3, <4>2, IdleRecoverable
    <3>4. ASSUME NEW found \in SUBSET batch, NEW confirmed \in SUBSET found, NEW flagged,
                 flagged = (batch \ found) \cup {t \in confirmed : HasTree(t)},
                 FinishCheck(found, confirmed),
                 Queue(EvictEvents(flagged) \o CleanupEvents(Evicted(flagged)))
          PROVE  Recoverable'
      BY <2>3, <3>4, FinishRecoverable
    <3> QED
      BY <2>6, <3>1, <3>2, <3>3, <3>4 DEF Loading, Checking
  <2>7. CASE Timer
    BY <2>3, <2>7, TimerRecoverable
  <2>8. CASE Time
    BY <2>3, <2>8, TimeRecoverable
  <2>9. CASE Update
    <3>1. CASE Replay
      BY <2>2, <2>3, <3>1, ReplayRecoverable
    <3>2. CASE BeginUpdate \/ EndUpdate
      <4>1. UNCHANGED <<memory, saved, cacheQueue, connected, offline, flushing>>
        BY <3>2 DEF BeginUpdate, EndUpdate, client
      <4> QED
        BY <2>3, <4>1, IdleRecoverable
    <3> QED
      BY <2>9, <3>1, <3>2 DEF Update
  <2>10. ~ Client
    BY <2>2, <2>4 DEF Client, Disconnect, Reconnect, BeginFlush, Flush
  <2> QED
    BY <1>2, <2>5, <2>6, <2>7, <2>8, <2>9, <2>10 DEF RNext
<1> QED
  BY <1>1, <1>2

\* A cache that starts empty on an empty store is such a state.
LEMMA RecoverInit == RInit => failures \in [Kinds -> Nat] /\ Recoverable
<1> SUFFICES ASSUME RInit PROVE failures \in [Kinds -> Nat] /\ Recoverable
  OBVIOUS
<1>1. Init /\ Connected /\ cacheQueue = <<>> /\ failures = [kind \in Kinds |-> 0]
  BY DEF RInit
<1>2. Consistent
  BY <1>1, InitConsistent
<1>3. Sound /\ IsSnapshot(saved)
  BY <1>2 DEF Consistent, TypeOK, Intact
<1>4. /\ txs = {} /\ saved.txs = {}
      /\ DOMAIN rbfTrees = {} /\ DOMAIN saved.trees = {} /\ DOMAIN cacheQueue = {}
  BY <1>1 DEF Init, Nothing
<1>5. Live = {} /\ DOMAIN LiveTrees = {}
  BY <1>4 DEF Live, LiveTrees
<1>6. Loadable
  BY <1>5 DEF Loadable, Separate, Rooted
<1>7. AlmostCaughtUp
  BY <1>4 DEF AlmostCaughtUp, Alike
<1>8. InOrder
  BY <1>4, <1>5 DEF InOrder, LiveAgree, TxsFirst, OldTreeFirst, GoneFirst, RootFirst, RemovalFollows
<1>9. /\ connected /\ rbfCacheQueue = <<>> /\ rbfRemoveQueue = <<>>
      /\ flushing = [step |-> "idle", todo |-> <<>>] /\ cacheQueue \in Seq(Events)
  BY <1>1 DEF Connected
<1> QED
  BY <1>1, <1>3, <1>6, <1>7, <1>8, <1>9 DEF Recoverable

\* In such a state trees are as documented, and the store is as memory once all is replayed.
LEMMA RecoverableMends ==
  ASSUME Recoverable
  PROVE  Documented /\ (Replayed => Same)
<1>1. Documented
  BY SoundDocumented DEF Recoverable, Documented
<1>2. ASSUME Replayed PROVE Same
  <2>1. DOMAIN cacheQueue = {}
    BY <1>2 DEF Replayed
  <2>2. \A t \in Tx : Alike("tx", t) /\ Alike("tree", t)
    BY <2>1 DEF Recoverable, AlmostCaughtUp
  <2>3. /\ saved.txs \subseteq Tx /\ txs \subseteq Tx
        /\ DOMAIN saved.trees \subseteq Tx /\ DOMAIN rbfTrees \subseteq Tx
    BY DEF Recoverable, IsSnapshot, MemoryOK, IsForest, Sound
  <2> QED
    BY <2>2, <2>3 DEF Alike, Same
<1> QED
  BY <1>1, <1>2

\* The crash part of what the run redis_mirror checks of every restart: a process that
\* met no fault but crashes of its predecessors starts from trees as rbf-cache.ts
\* documents them, and once its queue is replayed Redis holds what memory holds --
\* whatever load() had found.  It is so as long as no removed transaction returns while
\* its removal waits in the queue.
THEOREM CrashesMendHolds == RSpec /\ [](OnlyCrashes => NoneReturns) => []CrashesMend
<1>1. RInit => RecoverInv
  BY RecoverInit DEF RecoverInv
<1>2. /\ RecoverInv
      /\ OnlyCrashes => NoneReturns
      /\ (OnlyCrashes => NoneReturns)'
      /\ [RNext]_rvars
      => RecoverInv'
  BY RecoverStep DEF RecoverInv
<1>3. RecoverInv => CrashesMend
  BY RecoverableMends DEF RecoverInv, CrashesMend
<1> QED
  BY <1>1, <1>2, <1>3, PTL DEF RSpec
=============================================================================
