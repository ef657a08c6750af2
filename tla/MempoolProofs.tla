---------------------------- MODULE MempoolProofs ----------------------------
(* Theorems about what the mempool keeps besides its transactions, for any    *)
(* transactions, blocks and faults: the clusters with the map of spenders, and*)
(* the spend map; about the limiter that fetches transactions, for any calls  *)
(* and any limit of at least one; and about the order of a cluster, for any   *)
(* graph, feerates, draws and budget.                                         *)
EXTENDS ClusterMempool, PLimit, Linearize, FiniteSetTheorems, SequenceTheorems, WellFoundedInduction, TLAPS

\* A set that no dependency leaves.
Whole(C, links) == \A e \in links : e[1] \in C <=> e[2] \in C

\* Clusters are disjoint, each in one piece held together by real spends.
Separate(cs) ==
  \A r \in cs :
    /\ r = [txs |-> r.txs, deps |-> r.deps]
    /\ r.txs \in SUBSET MempoolTx /\ r.deps \in SUBSET (r.txs \X r.txs)
    /\ \A e \in r.deps : Spends(e[2], e[1])
    /\ Components(r.txs, r.deps) = {r.txs}
    /\ \A s \in cs : r = s \/ r.txs \cap s.txs = {}

\* But for the outpoints in D, what is spent in the clusters is linked ...
LinkedBut(cs, D) ==
  \A c \in Tracked(cs) : \A o \in Inputs[c] \ D :
    o[1] \in Tracked(cs) => \E r \in cs : <<o[1], c>> \in r.deps

\* ... and who spends it is known.
KnownBut(cs, map, D) ==
  \A c \in Tracked(cs) : \A o \in Inputs[c] \ D : o[1] \in MempoolTx => map[o] = c

\* A map from outpoints to transactions that spend them.
IsMap(map) ==
  /\ map \in [Outpoint -> MempoolTx \cup {None}]
  /\ \A o \in Outpoint : map[o] # None => o \in Inputs[map[o]]

-----------------------------------------------------------------------------
(* Components                                                              *)

LEMMA JointIf ==
  ASSUME NEW S, NEW links, Whole(S, links)
  PROVE  Components(S, links) = {S} <=>
           S # {} /\ \A C \in SUBSET S : C # {} /\ Whole(C, links) => C = S
<1> DEFINE All == {C \in (SUBSET S) \ {{}} : \A e \in links : e[1] \in C <=> e[2] \in C}
<1>1. Components(S, links) = {C \in All : \A D \in All : D \subseteq C => D = C}
  BY DEF Components
<1>2. \A C : C \in All <=> C \in SUBSET S /\ C # {} /\ Whole(C, links)
  BY DEF Whole
<1> HIDE DEF All
<1>3. ASSUME Components(S, links) = {S}
      PROVE  S # {} /\ \A C \in SUBSET S : C # {} /\ Whole(C, links) => C = S
  BY <1>1, <1>2, <1>3
<1>4. ASSUME S # {}, \A C \in SUBSET S : C # {} /\ Whole(C, links) => C = S
      PROVE  Components(S, links) = {S}
  BY <1>1, <1>2, <1>4
<1> QED
  BY <1>3, <1>4

\* Every element is in a component, and in no other; a component is in one piece.
LEMMA ComponentsSplit ==
  ASSUME NEW S, NEW links \in SUBSET (S \X S)
  PROVE  /\ \A x \in S : \E C \in Components(S, links) : x \in C
         /\ \A C \in Components(S, links) : C \in SUBSET S /\ C # {} /\ Whole(C, links)
         /\ \A C, D \in Components(S, links) : C = D \/ C \cap D = {}
         /\ \A C \in Components(S, links) : Components(C, links \cap (C \X C)) = {C}
<1> DEFINE All == {C \in (SUBSET S) \ {{}} : \A e \in links : e[1] \in C <=> e[2] \in C}
<1>1. Components(S, links) = {C \in All : \A D \in All : D \subseteq C => D = C}
  BY DEF Components
<1>2. \A C : C \in All <=> C \in SUBSET S /\ C # {} /\ Whole(C, links)
  BY DEF Whole
<1>3. \A e \in links : e[1] \in S /\ e[2] \in S /\ e = <<e[1], e[2]>>
  OBVIOUS
<1> HIDE DEF All
<1>4. ASSUME NEW x \in S PROVE \E C \in Components(S, links) : x \in C
  <2> DEFINE C == {y \in S : \A W \in All : x \in W => y \in W}
  <2>1. Whole(C, links)
    BY <1>2, <1>3 DEF Whole
  <2>2. x \in C /\ C \in All
    BY <1>2, <2>1
  <2>3. ASSUME NEW D \in All, D \subseteq C PROVE D = C
    <3>1. CASE x \in D
      BY <2>3, <3>1
    <3>2. CASE x \notin D
      <4>1. Whole(S \ D, links)
        BY <1>2, <1>3, <2>3 DEF Whole
      <4>2. S \ D \in All
        BY <1>2, <3>2, <4>1
      <4>3. C \subseteq S \ D
        BY <3>2, <4>2
      <4>4. D = {}
        BY <2>3, <4>3
      <4> QED
        BY <1>2, <2>3, <4>4
    <3> QED
      BY <3>1, <3>2
  <2> HIDE DEF C
  <2> QED
    BY <1>1, <2>2, <2>3
<1>5. \A C \in Components(S, links) : C \in SUBSET S /\ C # {} /\ Whole(C, links)
  BY <1>1, <1>2
<1>6. ASSUME NEW C \in Components(S, links), NEW D \in Components(S, links), C \cap D # {}
      PROVE  C = D
  <2>1. Whole(C \cap D, links)
    BY <1>5 DEF Whole
  <2>2. C \cap D \in All
    BY <1>2, <1>5, <1>6, <2>1
  <2>3. C \cap D = C /\ C \cap D = D
    BY <1>1, <2>2
  <2> QED
    BY <2>3
<1>7. ASSUME NEW C \in Components(S, links)
      PROVE  Components(C, links \cap (C \X C)) = {C}
  <2>1. ASSUME NEW W \in SUBSET C, W # {}, Whole(W, links \cap (C \X C)) PROVE W = C
    <3>1. ASSUME NEW e \in links PROVE e[1] \in W <=> e[2] \in W
      <4>1. e[1] \in C <=> e[2] \in C
        BY <1>5 DEF Whole
      <4>2. CASE e[1] \in C
        <5>1. e \in links \cap (C \X C)
          BY <1>3, <4>1, <4>2
        <5> QED
          BY <2>1, <5>1 DEF Whole
      <4>3. CASE e[1] \notin C
        BY <4>1, <4>3
      <4> QED
        BY <4>2, <4>3
    <3>2. W \in All
      BY <1>2, <1>5, <2>1, <3>1 DEF Whole
    <3> QED
      BY <1>1, <3>2
  <2>2. Whole(C, links \cap (C \X C))
    BY DEF Whole
  <2> QED
    BY <1>5, <2>1, <2>2, JointIf
<1> QED
  BY <1>4, <1>5, <1>6, <1>7

-----------------------------------------------------------------------------
(* Removals                                                                *)

IsCluster(r) ==
  /\ r = [txs |-> r.txs, deps |-> r.deps]
  /\ r.txs \in SUBSET MempoolTx /\ r.deps \in SUBSET (r.txs \X r.txs)
  /\ \A e \in r.deps : Spends(e[2], e[1])
  /\ Components(r.txs, r.deps) = {r.txs}

\* What remains of a cluster.
LEMMA RemainsFit ==
  ASSUME NEW r, IsCluster(r), NEW gone
  PROVE  /\ \A s \in Remains(r, gone) :
              IsCluster(s) /\ s.txs \subseteq r.txs \ gone /\ s.deps \subseteq r.deps
         /\ \A s, u \in Remains(r, gone) : s = u \/ s.txs \cap u.txs = {}
         /\ \A x \in r.txs \ gone : \E s \in Remains(r, gone) : x \in s.txs
         /\ \A e \in r.deps : e[1] \notin gone /\ e[2] \notin gone =>
              \E s \in Remains(r, gone) : e \in s.deps
<1>1. CASE r.txs \cap gone = {}
  <2>1. Remains(r, gone) = {r}
    BY <1>1 DEF Remains
  <2> QED
    BY <1>1, <2>1
<1>2. CASE r.txs \cap gone # {}
  <2> DEFINE S == r.txs \ gone
             links == r.deps \cap (S \X S)
             Part(C) == [txs |-> C, deps |-> links \cap (C \X C)]
  <2>1. Remains(r, gone) = {Part(C) : C \in Components(S, links)}
    BY <1>2 DEF Remains, Cluster
  <2>2. S \in SUBSET MempoolTx /\ links \in SUBSET (S \X S)
    BY DEF IsCluster
  <2>3. /\ \A x \in S : \E C \in Components(S, links) : x \in C
        /\ \A C \in Components(S, links) : C \in SUBSET S /\ C # {} /\ Whole(C, links)
        /\ \A C, D \in Components(S, links) : C = D \/ C \cap D = {}
        /\ \A C \in Components(S, links) : Components(C, links \cap (C \X C)) = {C}
    <3> HIDE DEF S, links
    <3> QED
      BY <2>2, ComponentsSplit
  <2>4. ASSUME NEW C \in Components(S, links)
        PROVE  IsCluster(Part(C)) /\ C \subseteq S /\ Part(C).txs = C
               /\ Part(C).deps = links \cap (C \X C)
    <3>1. \A e \in r.deps : Spends(e[2], e[1])
      BY DEF IsCluster
    <3> QED
      BY <2>2, <2>3, <3>1 DEF IsCluster
  <2>5. ASSUME NEW e \in r.deps, e[1] \notin gone, e[2] \notin gone
        PROVE  \E s \in Remains(r, gone) : e \in s.deps
    <3>1. e = <<e[1], e[2]>> /\ e[1] \in S /\ e[2] \in S
      BY <2>5 DEF IsCluster
    <3>2. e \in links
      BY <3>1
    <3>3. PICK C \in Components(S, links) : e[1] \in C
      BY <2>3, <3>1
    <3>4. e[2] \in C
      BY <2>3, <3>2, <3>3 DEF Whole
    <3>5. e \in Part(C).deps
      BY <3>1, <3>2, <3>3, <3>4
    <3> QED
      BY <2>1, <3>5
  <2>6. ASSUME NEW x \in r.txs \ gone PROVE \E s \in Remains(r, gone) : x \in s.txs
    <3>1. PICK C \in Components(S, links) : x \in C
      BY <2>3
    <3>2. Part(C) \in Remains(r, gone) /\ Part(C).txs = C
      BY <2>1, <2>4
    <3> QED
      BY <3>1, <3>2
  <2>7. ASSUME NEW s \in Remains(r, gone), NEW u \in Remains(r, gone)
        PROVE  /\ IsCluster(s) /\ s.txs \subseteq r.txs \ gone /\ s.deps \subseteq r.deps
               /\ s = u \/ s.txs \cap u.txs = {}
    <3>1. PICK C \in Components(S, links) : s = Part(C)
      BY <2>1
    <3>2. PICK D \in Components(S, links) : u = Part(D)
      BY <2>1
    <3>3. s.txs \subseteq r.txs \ gone /\ s.deps \subseteq r.deps
      BY <2>4, <3>1
    <3>4. s = u \/ s.txs \cap u.txs = {}
      BY <2>3, <2>4, <3>1, <3>2
    <3> QED
      BY <2>4, <3>1, <3>3, <3>4
  <2> QED
    BY <2>5, <2>6, <2>7
<1> QED
  BY <1>1, <1>2

LEMMA SeparateIs ==
  ASSUME NEW cs
  PROVE  Separate(cs) <=> /\ \A r \in cs : IsCluster(r)
                          /\ \A r, s \in cs : r = s \/ r.txs \cap s.txs = {}
BY DEF Separate, IsCluster

\* Removing transactions splits clusters and takes nothing else.
LEMMA RemovedFits ==
  ASSUME NEW cs, Separate(cs), NEW gone
  PROVE  /\ Separate(Removed(cs, gone))
         /\ Tracked(Removed(cs, gone)) = Tracked(cs) \ gone
         /\ \A r \in cs : \A e \in r.deps : e[1] \notin gone /\ e[2] \notin gone =>
              \E s \in Removed(cs, gone) : e \in s.deps
<1>1. \A s : s \in Removed(cs, gone) <=> \E r \in cs : s \in Remains(r, gone)
  BY DEF Removed
<1>2. \A r \in cs : IsCluster(r)
  BY SeparateIs
<1>3. ASSUME NEW s \in Removed(cs, gone)
      PROVE  IsCluster(s) /\ s.txs \subseteq Tracked(cs) \ gone
  <2>1. PICK r \in cs : s \in Remains(r, gone)
    BY <1>1
  <2> QED
    BY <1>2, <2>1, RemainsFit DEF Tracked
<1>4. ASSUME NEW s \in Removed(cs, gone), NEW u \in Removed(cs, gone)
      PROVE  s = u \/ s.txs \cap u.txs = {}
  <2>1. PICK r \in cs : s \in Remains(r, gone)
    BY <1>1
  <2>2. PICK q \in cs : u \in Remains(q, gone)
    BY <1>1
  <2>3. s.txs \subseteq r.txs /\ u.txs \subseteq q.txs
    BY <1>2, <2>1, <2>2, RemainsFit
  <2>4. CASE r = q
    BY <1>2, <2>1, <2>2, <2>4, RemainsFit
  <2>5. CASE r # q
    <3>1. r.txs \cap q.txs = {}
      BY <2>5, SeparateIs
    <3> QED
      BY <2>3, <3>1
  <2> QED
    BY <2>4, <2>5
<1>5. ASSUME NEW x \in Tracked(cs) \ gone PROVE x \in Tracked(Removed(cs, gone))
  <2>1. PICK r \in cs : x \in r.txs
    BY DEF Tracked
  <2>2. PICK s \in Remains(r, gone) : x \in s.txs
    BY <1>2, <2>1, RemainsFit
  <2> QED
    BY <1>1, <2>2 DEF Tracked
<1>6. ASSUME NEW r \in cs, NEW e \in r.deps, e[1] \notin gone, e[2] \notin gone
      PROVE  \E s \in Removed(cs, gone) : e \in s.deps
  BY <1>1, <1>2, <1>6, RemainsFit
<1>7. Separate(Removed(cs, gone))
  BY <1>3, <1>4, SeparateIs
<1>8. Tracked(Removed(cs, gone)) = Tracked(cs) \ gone
  BY <1>3, <1>5 DEF Tracked
<1> QED
  BY <1>6, <1>7, <1>8

-----------------------------------------------------------------------------
(* Additions                                                               *)

\* Clusters and the map of spenders, as one knows them.
Fits(k, D) ==
  /\ k = [clusters |-> k.clusters, spentBy |-> k.spentBy]
  /\ Separate(k.clusters) /\ IsMap(k.spentBy)
  /\ LinkedBut(k.clusters, D) /\ KnownBut(k.clusters, k.spentBy, D)

\* Clusters joined by links from and to one transaction.
OneClusterOf(all, cs, t, related, parents, children, links) ==
  /\ t \in MempoolTx \ Tracked(cs)
  /\ related \in SUBSET cs
  /\ parents \in SUBSET Tracked(related) /\ children \in SUBSET Tracked(related)
  /\ \A r \in related : \E x \in parents \cup children : x \in r.txs
  /\ \A x \in parents : Spends(t, x)
  /\ \A x \in children : Spends(x, t)
  /\ \A e : e \in links <=> \E r \in related : e \in r.deps
  /\ all = [txs |-> {t} \cup Tracked(related),
            deps |-> links \cup (parents \X {t}) \cup ({t} \X children)]

\* They are one cluster.
LEMMA MergedFits ==
  ASSUME NEW cs, Separate(cs), NEW t, NEW related, NEW parents, NEW children, NEW links, NEW all,
         OneClusterOf(all, cs, t, related, parents, children, links)
  PROVE  /\ IsCluster(all) /\ Separate((cs \ related) \cup {all})
         /\ Tracked((cs \ related) \cup {all}) = Tracked(cs) \cup {t}
         /\ \A x \in parents : <<x, t>> \in all.deps
         /\ \A x \in children : <<t, x>> \in all.deps
<1> USE DEF OneClusterOf
<1>a. all.txs = {t} \cup Tracked(related) /\ all.deps = links \cup (parents \X {t}) \cup ({t} \X children)
  OBVIOUS
<1>b. \A e : e \in all.deps <=>
         \/ \E r \in related : e \in r.deps
         \/ \E x \in parents : e = <<x, t>>
         \/ \E x \in children : e = <<t, x>>
  <2> DEFINE To == parents \X {t}
             From == {t} \X children
  <2>2. \A e : e \in To <=> \E x \in parents : e = <<x, t>>
    OBVIOUS
  <2>3. \A e : e \in From <=> \E x \in children : e = <<t, x>>
    OBVIOUS
  <2>4. \A e : e \in all.deps <=> e \in links \/ e \in To \/ e \in From
    BY <1>a
  <2> HIDE DEF To, From
  <2> QED
    BY <2>2, <2>3, <2>4
<1>c. \A x : x \in all.txs <=> x = t \/ \E r \in related : x \in r.txs
  BY <1>a DEF Tracked
<1>1. \A r \in cs : IsCluster(r)
  BY SeparateIs
<1>2. \A r \in related : r.txs \subseteq all.txs /\ r.deps \subseteq all.deps
  BY <1>b, <1>c
<1>3. all.txs \in SUBSET MempoolTx
  BY <1>1 DEF Tracked, IsCluster
<1>4. all.deps \in SUBSET (all.txs \X all.txs)
  <2>1. \A r \in related : r.deps \in SUBSET (all.txs \X all.txs)
    BY <1>1, <1>2 DEF IsCluster
  <2>2. \A x \in parents \cup children : x \in all.txs /\ t \in all.txs
    BY <1>c DEF Tracked
  <2>3. ASSUME NEW e \in all.deps PROVE e \in all.txs \X all.txs
    BY <1>b, <2>1, <2>2
  <2> QED
    BY <2>3
<1>5. \A e \in all.deps : Spends(e[2], e[1])
  <2>1. \A r \in related : \A e \in r.deps : Spends(e[2], e[1])
    BY <1>1 DEF IsCluster
  <2>2. \A x \in parents : <<x, t>>[1] = x /\ <<x, t>>[2] = t
    OBVIOUS
  <2> QED
    BY <1>b, <2>1, <2>2
<1>6. Whole(all.txs, all.deps)
  BY <1>4 DEF Whole
<1>7. ASSUME NEW C \in SUBSET all.txs, C # {}, Whole(C, all.deps) PROVE C = all.txs
  <2>1. ASSUME NEW r \in related, NEW x \in r.txs, x \in C PROVE r.txs \subseteq C
    <3>1. Whole(C \cap r.txs, r.deps)
      <4>1. \A e \in r.deps : e[1] \in r.txs /\ e[2] \in r.txs /\ e \in all.deps
        BY <1>1, <1>2 DEF IsCluster
      <4> QED
        BY <1>7, <4>1 DEF Whole
    <3>2. Whole(r.txs, r.deps)
      BY <1>1 DEF IsCluster, Whole
    <3>3. C \cap r.txs = r.txs
      <4>1. \A B \in SUBSET r.txs : B # {} /\ Whole(B, r.deps) => B = r.txs
        BY <1>1, <3>2, JointIf DEF IsCluster
      <4> QED
        BY <2>1, <3>1, <4>1
    <3> QED
      BY <3>3
  <2>2. \A x \in parents : x \in C <=> t \in C
    <3>1. ASSUME NEW x \in parents PROVE x \in C <=> t \in C
      <4>1. <<x, t>> \in all.deps /\ <<x, t>>[1] = x /\ <<x, t>>[2] = t
        BY <1>b
      <4> QED
        BY <1>7, <4>1 DEF Whole
    <3> QED
      BY <3>1
  <2>3. \A x \in children : x \in C <=> t \in C
    <3>1. ASSUME NEW x \in children PROVE x \in C <=> t \in C
      <4>1. <<t, x>> \in all.deps /\ <<t, x>>[1] = t /\ <<t, x>>[2] = x
        BY <1>b
      <4> QED
        BY <1>7, <4>1 DEF Whole
    <3> QED
      BY <3>1
  <2>4. t \in C
    <3>1. ASSUME NEW r \in related, NEW x \in r.txs, x \in C PROVE t \in C
      <4>1. PICK y \in parents \cup children : y \in r.txs
        OBVIOUS
      <4> QED
        BY <2>1, <2>2, <2>3, <3>1, <4>1
    <3>2. PICK x \in C : x = t \/ \E r \in related : x \in r.txs
      BY <1>7, <1>c
    <3> QED
      BY <3>1, <3>2
  <2>5. \A r \in related : r.txs \subseteq C
    BY <2>1, <2>2, <2>3, <2>4
  <2> QED
    BY <2>4, <2>5 DEF Tracked
<1>8. IsCluster(all)
  <2>1. Components(all.txs, all.deps) = {all.txs}
    BY <1>6, <1>7, JointIf
  <2> QED
    BY <1>3, <1>4, <1>5, <2>1 DEF IsCluster
<1>9. \A r \in cs \ related : r.txs \cap all.txs = {}
  <2>1. ASSUME NEW r \in cs \ related, NEW x \in r.txs PROVE x \notin all.txs
    <3>1. x # t
      BY DEF Tracked
    <3>2. \A s \in related : x \notin s.txs
      BY SeparateIs
    <3> QED
      BY <3>1, <3>2 DEF Tracked
  <2> QED
    BY <2>1
<1>10. \A r, s \in (cs \ related) \cup {all} : r = s \/ r.txs \cap s.txs = {}
  BY <1>9, SeparateIs
<1>11. Tracked((cs \ related) \cup {all}) = Tracked(cs) \cup {t}
  BY <1>c DEF Tracked
<1>12. \A r \in (cs \ related) \cup {all} : IsCluster(r)
  BY <1>1, <1>8
<1>13. Separate((cs \ related) \cup {all})
  <2> DEFINE new == (cs \ related) \cup {all}
  <2>1. (\A r \in new : IsCluster(r)) /\ \A r, s \in new : r = s \/ r.txs \cap s.txs = {}
    BY <1>10, <1>12
  <2> HIDE DEF new
  <2>2. Separate(new)
    BY <2>1, SeparateIs
  <2> QED
    BY <2>2 DEF new
<1>14. (\A x \in parents : <<x, t>> \in all.deps) /\ \A x \in children : <<t, x>> \in all.deps
  BY <1>b
<1> QED
  BY <1>8, <1>11, <1>13, <1>14

\* A turn of processAdditions(): the new transaction joins what it spends and what spends it.
LEMMA AddedFits ==
  ASSUME NEW k, NEW D, Fits(k, D), NEW t \in MempoolTx \ Tracked(k.clusters),
         NEW mempool, Tracked(k.clusters) \subseteq mempool,
         \A c \in Tracked(k.clusters) : Inputs[c] \cap Inputs[t] \subseteq D
  PROVE  /\ Fits(Added(k, t, mempool), D)
         /\ Tracked(Added(k, t, mempool).clusters) = Tracked(k.clusters) \cup {t}
<1> DEFINE cs == k.clusters
           spent == Claimed(k.spentBy, t)
           there == Tracked(cs) \cap mempool
           parents == {p \in there : Spends(t, p)}
           children == {c \in there : \E o \in Outpoint : o[1] = t /\ spent[o] = c}
           related == {r \in cs : r.txs \cap (parents \cup children) # {}}
           links == UNION {r.deps : r \in related}
           all == [txs |-> {t} \cup Tracked(related),
                   deps |-> links \cup (parents \X {t}) \cup ({t} \X children)]
           new == (cs \ related) \cup {all}
<1>1. /\ Added(k, t, mempool) = [clusters |-> new, spentBy |-> spent]
      /\ Added(k, t, mempool).clusters = new /\ Added(k, t, mempool).spentBy = spent
  <2>1. Added(k, t, mempool) = [clusters |-> new, spentBy |-> spent]
    BY DEF Added
  <2> HIDE DEF new, spent
  <2> QED
    BY <2>1
<1>2. Separate(cs) /\ IsMap(k.spentBy) /\ LinkedBut(cs, D) /\ KnownBut(cs, k.spentBy, D)
  BY DEF Fits
<1>3. /\ \A o \in Outpoint : spent[o] = IF o \in Inputs[t] THEN t ELSE k.spentBy[o]
      /\ spent \in [Outpoint -> MempoolTx \cup {None}]
  BY <1>2 DEF Claimed, IsMap
<1>4. IsMap(spent)
  BY <1>2, <1>3 DEF IsMap
<1>5. /\ parents \in SUBSET Tracked(cs) /\ children \in SUBSET Tracked(cs)
      /\ Tracked(cs) \in SUBSET MempoolTx
  BY <1>2, SeparateIs DEF Tracked, IsCluster
<1>6. \A x \in children : Spends(x, t)
  <2>1. ASSUME NEW x \in children PROVE Spends(x, t)
    <3>1. PICK o \in Outpoint : o[1] = t /\ spent[o] = x
      OBVIOUS
    <3>2. x # None
      BY <1>5, MempoolAssumption
    <3>3. o \in Inputs[x]
      BY <1>4, <3>1, <3>2 DEF IsMap
    <3> QED
      BY <3>1, <3>3 DEF Spends
  <2> QED
    BY <2>1
<1>7. \A x \in parents \cup children : \E r \in related : x \in r.txs
  BY <1>5 DEF Tracked
<1>8. /\ related \in SUBSET cs /\ parents \in SUBSET Tracked(related)
      /\ children \in SUBSET Tracked(related)
      /\ \A r \in related : \E x \in parents \cup children : x \in r.txs
      /\ \A x \in parents : Spends(t, x)
  BY <1>7 DEF Tracked
<1>9. /\ Separate(new) /\ Tracked(new) = Tracked(cs) \cup {t}
      /\ \A x \in parents : <<x, t>> \in all.deps
      /\ \A x \in children : <<t, x>> \in all.deps
  <2>1. \A e : e \in links <=> \E r \in related : e \in r.deps
    OBVIOUS
  <2> HIDE DEF parents, children, related, links
  <2>2. all = [txs |-> {t} \cup Tracked(related),
               deps |-> links \cup (parents \X {t}) \cup ({t} \X children)]
    OBVIOUS
  <2> HIDE DEF all
  <2>3. OneClusterOf(all, cs, t, related, parents, children, links)
    BY <1>6, <1>8, <2>1, <2>2 DEF OneClusterOf
  <2> HIDE DEF cs
  <2> QED
    BY <1>2, <2>3, MergedFits
<1>10. Tracked(new) = Tracked(cs) \cup {t}
  BY <1>9
<1>11. KnownBut(new, spent, D)
  <2>1. ASSUME NEW c \in Tracked(new), NEW o \in Inputs[c] \ D, o[1] \in MempoolTx
        PROVE  spent[o] = c
    <3>1. c \in MempoolTx /\ o \in Outpoint
      BY <1>5, <1>10 DEF Outpoint
    <3>2. CASE c = t
      BY <1>3, <3>1, <3>2
    <3>3. CASE c \in Tracked(cs)
      <4>1. o \notin Inputs[t] /\ k.spentBy[o] = c
        BY <1>2, <2>1, <3>3 DEF KnownBut
      <4> QED
        BY <1>3, <3>1, <4>1
    <3> QED
      BY <1>10, <3>2, <3>3
  <2> QED
    BY <2>1 DEF KnownBut
<1>12. LinkedBut(new, D)
  <2>1. ASSUME NEW c \in Tracked(new), NEW o \in Inputs[c] \ D, o[1] \in Tracked(new)
        PROVE  \E r \in new : <<o[1], c>> \in r.deps
    <3>1. c \in MempoolTx /\ o \in Outpoint /\ o[1] \in MempoolTx /\ all \in new
      BY <1>5, <1>10, <2>1 DEF Outpoint
    <3>2. CASE c = t
      <4>1. o[1] # t
        BY <3>1, <3>2, MempoolAssumption
      <4>2. o[1] \in parents
        BY <1>10, <2>1, <3>2, <4>1 DEF Spends
      <4>3. <<o[1], c>> \in all.deps
        BY <1>9, <3>2, <4>2
      <4> QED
        BY <3>1, <4>3
    <3>3. CASE c # t /\ o[1] = t
      <4>1. c \in Tracked(cs) /\ spent[o] = c
        BY <1>10, <1>11, <2>1, <3>1, <3>3 DEF KnownBut
      <4>2. c \in children
        BY <3>1, <3>3, <4>1
      <4>3. <<o[1], c>> \in all.deps
        BY <1>9, <3>3, <4>2
      <4> QED
        BY <3>1, <4>3
    <3>4. CASE c # t /\ o[1] # t
      <4>1. PICK r \in cs : <<o[1], c>> \in r.deps
        BY <1>2, <1>10, <2>1, <3>4 DEF LinkedBut
      <4>2. CASE r \in related
        BY <3>1, <4>1, <4>2
      <4>3. CASE r \notin related
        BY <4>1, <4>3
      <4> QED
        BY <4>2, <4>3
    <3> QED
      BY <3>2, <3>3, <3>4
  <2> QED
    BY <2>1 DEF LinkedBut
<1> HIDE DEF new, spent, cs
<1> QED
  BY <1>1, <1>4, <1>9, <1>10, <1>11, <1>12 DEF Fits, cs

-----------------------------------------------------------------------------
(* Numbers and orders                                                      *)

LEMMA LeastNumber ==
  ASSUME NEW S \in SUBSET Nat, S # {}
  PROVE  \E x \in S : \A y \in S : x <= y
<1> DEFINE R == OpToRel(<, Nat)
<1>1. IsWellFoundedOn(R, Nat)
  BY NatLessThanWellFounded
<1>2. \A x, y \in Nat : y < x => <<y, x>> \in R
  BY DEF OpToRel
<1> HIDE DEF R
<1>3. PICK x \in S : \A y \in S : ~(<<y, x>> \in R)
  BY <1>1, WFMin
<1>4. ASSUME NEW y \in S PROVE x <= y
  <2>1. x \in Nat /\ y \in Nat
    OBVIOUS
  <2>2. ~(y < x)
    BY <1>2, <1>3, <2>1, Zenon
  <2> QED
    BY <2>1, <2>2
<1> QED
  BY <1>4

\* What holds of 0 and passes from a number to the next holds up to a bound.
LEMMA Upwards ==
  ASSUME NEW n \in Nat, NEW S, 0 \in S, \A i \in 1..n : i - 1 \in S => i \in S
  PROVE  \A i \in 0..n : i \in S
<1> DEFINE Missing == {i \in 0..n : i \notin S}
<1>1. SUFFICES ASSUME Missing # {} PROVE FALSE
  OBVIOUS
<1>2. PICK x \in Missing : \A y \in Missing : x <= y
  <2>1. Missing \in SUBSET Nat
    OBVIOUS
  <2> QED
    BY <1>1, <2>1, LeastNumber
<1>3. x \in 1..n /\ x \notin S
  OBVIOUS
<1>4. x - 1 \in 0..n /\ ~(x <= x - 1)
  BY <1>3
<1>5. x - 1 \in S
  BY <1>2, <1>4
<1> QED
  BY <1>3, <1>5

LEMMA Greatest ==
  ASSUME NEW n \in Nat, NEW S \in SUBSET (0..n), S # {}
  PROVE  Max(S) \in S
<1> DEFINE D == {n - x : x \in S}
<1>1. D \in SUBSET Nat /\ D # {}
  <2>1. PICK x \in S : TRUE
    OBVIOUS
  <2>2. n - x \in D
    OBVIOUS
  <2>3. \A y \in S : n - y \in Nat
    OBVIOUS
  <2> QED
    BY <2>2, <2>3
<1>2. PICK d \in D : \A e \in D : d <= e
  BY <1>1, LeastNumber
<1>3. PICK x \in S : d = n - x
  OBVIOUS
<1>4. \A y \in S : x >= y
  BY <1>2, <1>3
<1> QED
  BY <1>4 DEF Max

\* An order of different transactions.
Ordered(order) ==
  /\ order \in Seq(MempoolTx)
  /\ \A i, j \in 1..Len(order) : i # j => order[i] # order[j]

LEMMA OrdersFit ==
  /\ Ordered(<<>>) /\ ToSet(<<>>) = {}
  /\ \A S \in SUBSET MempoolTx : \A order \in SetToSeqs(S) :
       Ordered(order) /\ ToSet(order) \subseteq S
<1>1. Ordered(<<>>) /\ ToSet(<<>>) = {}
  BY DEF Ordered, ToSet
<1>2. ASSUME NEW S \in SUBSET MempoolTx, NEW order \in SetToSeqs(S)
      PROVE  Ordered(order) /\ ToSet(order) \subseteq S
  <2>1. Cardinality(S) \in Nat
    BY MempoolAssumption, FS_Subset, FS_CardinalityType
  <2>2. /\ order \in [1..Cardinality(S) -> S]
        /\ \A i, j \in 1..Cardinality(S) : i # j => order[i] # order[j]
    BY DEF SetToSeqs
  <2>3. order \in Seq(MempoolTx) /\ Len(order) = Cardinality(S)
    BY <2>1, <2>2
  <2> QED
    BY <2>2, <2>3 DEF Ordered, ToSet
<1> QED
  BY <1>1, <1>2

\* What an order enters in a map.
LEMMA EnteredIs ==
  ASSUME NEW map, NEW order, Ordered(order), NEW o \in Outpoint
  PROVE  /\ o \notin Spending(ToSet(order)) => Entered(map, order)[o] = map[o]
         /\ o \in Spending(ToSet(order)) => Entered(map, order)[o] \in ToSet(order)
                                            /\ o \in Inputs[Entered(map, order)[o]]
<1>1. Len(order) \in Nat /\ DOMAIN order = 1..Len(order)
  BY DEF Ordered
<1>2. Entered(map, order)[o] = IF Claims(o, order) = {} THEN map[o] ELSE order[Max(Claims(o, order))]
  BY DEF Entered
<1>3. \A i : i \in Claims(o, order) <=> i \in 1..Len(order) /\ o \in Inputs[order[i]]
  BY <1>1 DEF Claims
<1>4. Claims(o, order) # {} => Max(Claims(o, order)) \in Claims(o, order)
  <2>1. Claims(o, order) \in SUBSET (0..Len(order))
    BY <1>1, <1>3
  <2> QED
    BY <1>1, <2>1, Greatest
<1>5. o \in Spending(ToSet(order)) <=> Claims(o, order) # {}
  <2>1. o \in Spending(ToSet(order)) <=> \E t \in ToSet(order) : o \in Inputs[t]
    BY DEF Spending
  <2>2. \A t : t \in ToSet(order) <=> \E i \in 1..Len(order) : t = order[i]
    BY <1>1 DEF ToSet
  <2> QED
    BY <1>3, <2>1, <2>2
<1>6. \A i \in Claims(o, order) : order[i] \in ToSet(order) /\ o \in Inputs[order[i]]
  BY <1>1, <1>3 DEF ToSet
<1>7. CASE Claims(o, order) = {}
  <2>1. Entered(map, order)[o] = map[o]
    BY <1>2, <1>7
  <2>2. o \notin Spending(ToSet(order))
    BY <1>5, <1>7
  <2> QED
    BY <2>1, <2>2
<1>8. CASE Claims(o, order) # {}
  <2>1. Entered(map, order)[o] = order[Max(Claims(o, order))]
    BY <1>2, <1>8
  <2> QED
    BY <1>4, <1>5, <1>6, <1>8, <2>1
<1> QED
  BY <1>7, <1>8

-----------------------------------------------------------------------------
(* All the turns                                                           *)

LEMMA TurnsAre ==
  ASSUME NEW known, NEW order, Ordered(order), NEW mempool
  PROVE  /\ Turns(known, order, mempool)[0] = known
         /\ \A i \in 1..Len(order) : Turns(known, order, mempool)[i] =
              Added(Turns(known, order, mempool)[i - 1], order[i], mempool)
<1> DEFINE Rec(f, n) == f = [i \in 0..n |-> IF i = 0 THEN known
                                            ELSE Added(f[i - 1], order[i], mempool)]
           S == {n \in Nat : \E f : Rec(f, n)}
<1>0. Len(order) \in Nat
  BY DEF Ordered
<1>1. 0 \in S
  <2> DEFINE f == [i \in 0..0 |-> known]
  <2>1. Rec(f, 0)
    OBVIOUS
  <2> QED
    BY <2>1
<1>2. ASSUME NEW n \in 1..Len(order), n - 1 \in S PROVE n \in S
  <2>1. PICK f : Rec(f, n - 1)
    BY <1>2
  <2> DEFINE g == [i \in 0..n |-> IF i = n THEN Added(f[n - 1], order[n], mempool) ELSE f[i]]
  <2>2. n \in Nat /\ \A i \in 0..n : i # n => i \in 0..(n - 1)
    OBVIOUS
  <2>3. \A i \in 0..n : i # 0 => i - 1 \in 0..n /\ i - 1 # n
    OBVIOUS
  <2>4. \A i \in 0..(n - 1) : g[i] = f[i]
    OBVIOUS
  <2>5. ASSUME NEW i \in 0..n
        PROVE  g[i] = IF i = 0 THEN known ELSE Added(g[i - 1], order[i], mempool)
    <3>1. CASE i = n
      <4>1. g[i] = Added(f[n - 1], order[n], mempool) /\ n - 1 \in 0..(n - 1) /\ i # 0
        BY <3>1
      <4> HIDE DEF g
      <4> QED
        BY <2>4, <3>1, <4>1
    <3>2. CASE i # n
      <4>1. i \in 0..(n - 1) /\ g[i] = f[i] /\ (i # 0 => i - 1 \in 0..(n - 1))
        BY <2>2, <2>4, <3>2
      <4>2. f[i] = IF i = 0 THEN known ELSE Added(f[i - 1], order[i], mempool)
        BY <2>1, <4>1
      <4>3. i # 0 => g[i - 1] = f[i - 1]
        BY <2>4, <4>1
      <4> HIDE DEF g, Rec
      <4> QED
        BY <4>1, <4>2, <4>3
    <3> QED
      BY <3>1, <3>2
  <2>6. DOMAIN g = 0..n /\ g = [i \in 0..n |-> g[i]]
    OBVIOUS
  <2> HIDE DEF g
  <2>7. Rec(g, n)
    BY <2>5, <2>6
  <2> QED
    BY <2>2, <2>7
<1>3. Len(order) \in S
  <2> HIDE DEF S
  <2>1. \A i \in 0..Len(order) : i \in S
    BY <1>0, <1>1, <1>2, Upwards
  <2> QED
    BY <1>0, <2>1
<1>4. Rec(Turns(known, order, mempool), Len(order))
  BY <1>3 DEF Turns
<1>5. \A i \in 1..Len(order) : i \in 0..Len(order) /\ i # 0
  OBVIOUS
<1> QED
  BY <1>0, <1>4, <1>5

\* The transactions of an order, up to one of them.
Upto(order, i) == {order[j] : j \in 1..i}

LEMMA UptoIs ==
  ASSUME NEW order, Ordered(order)
  PROVE  /\ Upto(order, 0) = {} /\ Upto(order, Len(order)) = ToSet(order)
         /\ \A i \in 1..Len(order) :
              /\ order[i] \in MempoolTx /\ order[i] \in ToSet(order)
              /\ order[i] \notin Upto(order, i - 1)
              /\ Upto(order, i) = Upto(order, i - 1) \cup {order[i]}
              /\ Upto(order, i) \subseteq ToSet(order)
<1>1. /\ Len(order) \in Nat /\ DOMAIN order = 1..Len(order) /\ ToSet(order) = Upto(order, Len(order))
      /\ \A i \in 1..Len(order) : order[i] \in MempoolTx
  BY DEF Ordered, ToSet, Upto
<1>2. Upto(order, 0) = {}
  BY DEF Upto
<1>3. ASSUME NEW i \in 1..Len(order)
      PROVE  /\ order[i] \notin Upto(order, i - 1)
             /\ Upto(order, i) = Upto(order, i - 1) \cup {order[i]}
             /\ Upto(order, i) \subseteq ToSet(order)
  <2>1. \A j \in 1..(i - 1) : j \in 1..Len(order) /\ j \in 1..i /\ j # i
    BY <1>1
  <2>2. \A j \in 1..i : j \in 1..Len(order) /\ (j = i \/ j \in 1..(i - 1))
    BY <1>1
  <2>3. i \in 1..i
    OBVIOUS
  <2>4. order[i] \notin Upto(order, i - 1)
    BY <2>1 DEF Upto, Ordered
  <2>5. Upto(order, i) = Upto(order, i - 1) \cup {order[i]}
    BY <2>1, <2>2, <2>3 DEF Upto
  <2>6. Upto(order, i) \subseteq ToSet(order)
    BY <1>1, <2>2 DEF Upto
  <2> QED
    BY <2>4, <2>5, <2>6
<1>4. \A i \in 1..Len(order) : order[i] \in ToSet(order)
  BY <1>1 DEF Upto
<1> QED
  BY <1>1, <1>2, <1>3, <1>4

\* New transactions join the clusters, whatever their order.
LEMMA TurnsFit ==
  ASSUME NEW known, NEW D, Fits(known, D), NEW order, Ordered(order),
         NEW mempool, Tracked(known.clusters) \cup ToSet(order) \subseteq mempool,
         ToSet(order) \cap Tracked(known.clusters) = {},
         \A a, b \in mempool : a # b => Inputs[a] \cap Inputs[b] \subseteq D,
         NEW all, all = Turns(known, order, mempool)[Len(order)]
  PROVE  /\ Fits(all, D)
         /\ Tracked(all.clusters) = Tracked(known.clusters) \cup ToSet(order)
<1>1. Len(order) \in Nat
  BY DEF Ordered
<1>2. /\ Turns(known, order, mempool)[0] = known
      /\ \A i \in 1..Len(order) : Turns(known, order, mempool)[i] =
           Added(Turns(known, order, mempool)[i - 1], order[i], mempool)
  BY ONLY Ordered(order), TurnsAre
<1> DEFINE turn(i) == Turns(known, order, mempool)[i]
<1>6. turn(0) = known /\ \A i \in 1..Len(order) : turn(i) = Added(turn(i - 1), order[i], mempool)
  BY <1>2, Zenon
<1> DEFINE S == {i \in 0..Len(order) :
                   /\ Fits(turn(i), D)
                   /\ Tracked(turn(i).clusters) = Tracked(known.clusters) \cup Upto(order, i)}
<1> HIDE DEF turn
<1>3. 0 \in S
  BY <1>1, <1>6, UptoIs
<1>4. ASSUME NEW i \in 1..Len(order), i - 1 \in S PROVE i \in S
  <2>1. /\ Fits(turn(i - 1), D)
        /\ Tracked(turn(i - 1).clusters) = Tracked(known.clusters) \cup Upto(order, i - 1)
    BY <1>4
  <2> HIDE DEF S
  <2>2. /\ order[i] \in MempoolTx /\ order[i] \in ToSet(order)
        /\ order[i] \notin Upto(order, i - 1)
        /\ Upto(order, i) = Upto(order, i - 1) \cup {order[i]}
        /\ Upto(order, i) \subseteq ToSet(order)
    BY UptoIs
  <2>3. order[i] \in MempoolTx \ Tracked(turn(i - 1).clusters)
    BY <2>1, <2>2
  <2>4. Tracked(turn(i - 1).clusters) \subseteq mempool
    BY <2>1, <2>2
  <2>5. \A c \in Tracked(turn(i - 1).clusters) : Inputs[c] \cap Inputs[order[i]] \subseteq D
    BY <2>2, <2>3, <2>4
  <2>6. /\ Fits(Added(turn(i - 1), order[i], mempool), D)
        /\ Tracked(Added(turn(i - 1), order[i], mempool).clusters)
             = Tracked(turn(i - 1).clusters) \cup {order[i]}
    BY <2>1, <2>3, <2>4, <2>5, AddedFits
  <2>7. turn(i) = Added(turn(i - 1), order[i], mempool)
    BY <1>6
  <2>8. Tracked(turn(i).clusters) = Tracked(known.clusters) \cup Upto(order, i)
    BY <2>1, <2>2, <2>6, <2>7
  <2>9. i \in 0..Len(order)
    OBVIOUS
  <2> QED
    BY <2>6, <2>7, <2>8, <2>9 DEF S
<1>5. Len(order) \in S
  <2> HIDE DEF S
  <2>1. \A i \in 0..Len(order) : i \in S
    BY <1>1, <1>3, <1>4, Upwards
  <2> QED
    BY <1>1, <2>1
<1>9. all = turn(Len(order))
  BY DEF turn
<1> QED
  BY <1>5, <1>9, UptoIs

-----------------------------------------------------------------------------
(* Building from nothing                                                   *)

\* From a to b: b spends a or is known to, or a spends b.
Reaches(a, b, map) == Spends(a, b) \/ \E o \in Outpoint : o[1] = a /\ map[o] = b
Around(C, t, visited, mempool, map) ==
  /\ C \in SUBSET (mempool \ visited) /\ t \in C
  /\ \A a \in C, b \in mempool \ (visited \cup C) : ~ Reaches(a, b, map)

\* What is visited from a transaction is the least set that it leaves nothing out of.
LEMMA ComponentIs ==
  ASSUME NEW mempool, NEW visited, NEW t \in mempool \ visited, NEW map,
         NEW C, C = Component(t, visited, mempool, map)
  PROVE  /\ Around(C, t, visited, mempool, map)
         /\ \A D : Around(D, t, visited, mempool, map) => C \subseteq D
<1> DEFINE Open(D) == \A a \in D, b \in mempool \ (visited \cup D) :
                    ~ Spends(a, b) /\ ~ \E o \in Outpoint : o[1] = a /\ map[o] = b
           All == {D \in SUBSET (mempool \ visited) : t \in D /\ Open(D)}
           Least == {x \in mempool \ visited : \A D \in All : x \in D}
<1>1. C = CHOOSE D \in All : \A E \in All : D \subseteq E
  BY DEF Component
<1>2. \A D : D \in All <=> Around(D, t, visited, mempool, map)
  BY DEF Around, Reaches
<1> HIDE DEF All, Open
<1>3. Around(Least, t, visited, mempool, map)
  <2>1. t \in Least
    BY <1>2 DEF Around
  <2>2. ASSUME NEW a \in Least, NEW b \in mempool \ (visited \cup Least), Reaches(a, b, map)
        PROVE  FALSE
    <3>1. PICK D \in All : b \notin D
      OBVIOUS
    <3>2. a \in D /\ b \in mempool \ (visited \cup D)
      BY <3>1
    <3> QED
      BY <1>2, <2>2, <3>1, <3>2 DEF Around
  <2> QED
    BY <2>1, <2>2 DEF Around
<1>4. Least \in All /\ \A D \in All : Least \subseteq D
  BY <1>2, <1>3
<1>5. C \in All /\ \A D \in All : C \subseteq D
  <2> HIDE DEF Least
  <2> QED
    BY <1>1, <1>4
<1> QED
  BY <1>2, <1>5

Dependencies(mempool) == {e \in mempool \X mempool : Spends(e[2], e[1])}

\* It is in one piece.
LEMMA PieceFits ==
  ASSUME NEW mempool \in SUBSET MempoolTx, NEW visited, NEW t \in mempool \ visited,
         NEW map, IsMap(map), NEW C, C = Component(t, visited, mempool, map)
  PROVE  /\ IsCluster(Cluster(C, Dependencies(mempool)))
         /\ Around(C, t, visited, mempool, map)
<1> DEFINE links == Dependencies(mempool) \cap (C \X C)
<1>1. /\ Around(C, t, visited, mempool, map)
      /\ \A D : Around(D, t, visited, mempool, map) => C \subseteq D
  BY ComponentIs
<1>2. /\ \A e : e \in links <=> /\ e = <<e[1], e[2]>> /\ e[1] \in C /\ e[2] \in C
                                /\ Spends(e[2], e[1])
  BY <1>1 DEF Around, Dependencies
<1>3. Cluster(C, Dependencies(mempool)) = [txs |-> C, deps |-> links]
  BY DEF Cluster
<1>4. links \in SUBSET (C \X C)
  OBVIOUS
<1> HIDE DEF links
<1>5. ASSUME NEW a \in C, NEW b \in C, Reaches(a, b, map)
      PROVE  <<b, a>> \in links \/ <<a, b>> \in links
  <2>1. CASE Spends(a, b)
    BY <1>2, <2>1
  <2>2. CASE \E o \in Outpoint : o[1] = a /\ map[o] = b
    <3>1. PICK o \in Outpoint : o[1] = a /\ map[o] = b
      BY <2>2
    <3>2. b # None
      BY <1>1, MempoolAssumption DEF Around
    <3>3. Spends(b, a)
      BY <3>1, <3>2 DEF IsMap, Spends
    <3> QED
      BY <1>2, <3>3
  <2> QED
    BY <1>5, <2>1, <2>2 DEF Reaches
<1>6. ASSUME NEW W \in SUBSET C, Whole(W, links), t \in W PROVE W = C
  <2>1. ASSUME NEW a \in W, NEW b \in mempool \ (visited \cup W), Reaches(a, b, map) PROVE FALSE
    <3>1. b \in C
      BY <1>1, <2>1 DEF Around
    <3>2. <<b, a>> \in links \/ <<a, b>> \in links
      BY <1>5, <2>1, <3>1
    <3>3. /\ <<a, b>>[1] = a /\ <<a, b>>[2] = b
          /\ <<b, a>>[1] = b /\ <<b, a>>[2] = a
      OBVIOUS
    <3> QED
      BY <1>6, <2>1, <3>2, <3>3 DEF Whole
  <2>2. Around(W, t, visited, mempool, map)
    BY <1>1, <1>6, <2>1 DEF Around
  <2> QED
    BY <1>1, <2>2
<1>7. Whole(C, links)
  BY <1>2 DEF Whole
<1>8. ASSUME NEW W \in SUBSET C, W # {}, Whole(W, links) PROVE W = C
  <2>1. CASE t \in W
    BY <1>6, <1>8, <2>1
  <2>2. CASE t \notin W
    <3>1. Whole(C \ W, links)
      BY <1>7, <1>8 DEF Whole
    <3>2. t \in C \ W
      BY <1>1, <2>2 DEF Around
    <3>3. C \ W = C
      BY <1>6, <3>1, <3>2
    <3> QED
      BY <1>8, <3>3
  <2> QED
    BY <2>1, <2>2
<1>9. Components(C, links) = {C}
  <2>1. C # {}
    BY <1>1 DEF Around
  <2> QED
    BY <1>7, <1>8, <2>1, JointIf
<1>10. C \in SUBSET MempoolTx
  BY <1>1 DEF Around
<1>11. IsCluster([txs |-> C, deps |-> links])
  BY <1>2, <1>4, <1>9, <1>10 DEF IsCluster
<1> QED
  BY <1>1, <1>3, <1>11

\* A turn of buildFromMempool().
Visited(cs, t, mempool, map) ==
  IF t \in Tracked(cs) THEN cs
  ELSE cs \cup {Cluster(Component(t, Tracked(cs), mempool, map), Dependencies(mempool))}

\* What holds of the clusters so far: what is linked is visited together.
HalfBuilt(cs, mempool, D) ==
  /\ Separate(cs) /\ Tracked(cs) \subseteq mempool /\ LinkedBut(cs, D)
  /\ \A c \in mempool : \A o \in Inputs[c] \ D :
       o[1] \in mempool => (o[1] \in Tracked(cs) <=> c \in Tracked(cs))

LEMMA VisitedFits ==
  ASSUME NEW mempool \in SUBSET MempoolTx, NEW D, NEW cs, HalfBuilt(cs, mempool, D),
         NEW t \in mempool, NEW map, IsMap(map),
         \A c \in mempool : \A o \in Inputs[c] \ D : o[1] \in mempool => map[o] = c
  PROVE  /\ HalfBuilt(Visited(cs, t, mempool, map), mempool, D)
         /\ t \in Tracked(Visited(cs, t, mempool, map))
         /\ Tracked(cs) \subseteq Tracked(Visited(cs, t, mempool, map))
<1>1. CASE t \in Tracked(cs)
  BY <1>1 DEF Visited
<1>2. CASE t \notin Tracked(cs)
  <2>1. PICK C : C = Component(t, Tracked(cs), mempool, map)
    OBVIOUS
  <2>2. PICK r : r = Cluster(C, Dependencies(mempool))
    OBVIOUS
  <2> DEFINE new == cs \cup {r}
  <2>3. Visited(cs, t, mempool, map) = new
    BY <1>2, <2>1, <2>2 DEF Visited
  <2>4. IsCluster(r) /\ Around(C, t, Tracked(cs), mempool, map)
    BY <1>2, <2>1, <2>2, PieceFits
  <2>5. r.txs = C /\ \A e : e \in r.deps <=> e \in Dependencies(mempool) \cap (C \X C)
    BY <2>2 DEF Cluster
  <2>6. C \in SUBSET (mempool \ Tracked(cs)) /\ t \in C
    BY <2>4 DEF Around
  <2>7. Tracked(new) = Tracked(cs) \cup C
    BY <2>5 DEF Tracked
  <2>8. Separate(new)
    <3>1. Separate(cs)
      BY DEF HalfBuilt
    <3>2. \A s \in cs : s.txs \cap C = {}
      BY <2>6 DEF Tracked
    <3>3. \A s \in cs : IsCluster(s)
      BY <3>1, SeparateIs
    <3>4. \A s, u \in cs : s = u \/ s.txs \cap u.txs = {}
      BY <3>1, SeparateIs
    <3>5. (\A s \in new : IsCluster(s)) /\ \A s, u \in new : s = u \/ s.txs \cap u.txs = {}
      BY <2>4, <2>5, <3>2, <3>3, <3>4
    <3> HIDE DEF new
    <3> QED
      BY <3>5, SeparateIs
  <2>9. ASSUME NEW c \in mempool, NEW o \in Inputs[c] \ D, o[1] \in mempool
        PROVE  /\ o[1] \in Tracked(cs) <=> c \in Tracked(cs)
               /\ o[1] \in C <=> c \in C
               /\ <<o[1], c>> \in Dependencies(mempool)
    <3>1. o[1] \in Tracked(cs) <=> c \in Tracked(cs)
      BY <2>9 DEF HalfBuilt
    <3>2. Spends(c, o[1]) /\ o \in Outpoint /\ map[o] = c
      BY <2>9 DEF Spends, Outpoint
    <3>3. Reaches(c, o[1], map) /\ Reaches(o[1], c, map)
      BY <3>2 DEF Reaches
    <3>4. o[1] \in C <=> c \in C
      BY <2>4, <2>6, <2>9, <3>1, <3>3 DEF Around
    <3>5. <<o[1], c>> \in Dependencies(mempool)
      BY <2>9, <3>2 DEF Dependencies
    <3> QED
      BY <3>1, <3>4, <3>5
  <2>10. LinkedBut(new, D)
    <3>1. ASSUME NEW c \in Tracked(new), NEW o \in Inputs[c] \ D, o[1] \in Tracked(new)
          PROVE  \E s \in new : <<o[1], c>> \in s.deps
      <4>1. c \in mempool /\ o[1] \in mempool
        BY <2>6, <2>7, <3>1 DEF HalfBuilt
      <4>2. CASE c \in C
        <5>1. <<o[1], c>> \in r.deps
          BY <2>5, <2>9, <4>1, <4>2
        <5> QED
          BY <5>1
      <4>3. CASE c \in Tracked(cs)
        <5>1. o[1] \in Tracked(cs)
          BY <2>9, <4>1, <4>3
        <5>2. \E s \in cs : <<o[1], c>> \in s.deps
          BY <4>3, <5>1 DEF HalfBuilt, LinkedBut
        <5> QED
          BY <5>2
      <4> QED
        BY <2>7, <4>2, <4>3
    <3> QED
      BY <3>1 DEF LinkedBut
  <2>11. HalfBuilt(new, mempool, D)
    <3>1. Tracked(new) \subseteq mempool
      BY <2>6, <2>7 DEF HalfBuilt
    <3>2. \A c \in mempool : \A o \in Inputs[c] \ D :
            o[1] \in mempool => (o[1] \in Tracked(new) <=> c \in Tracked(new))
      BY <2>7, <2>9
    <3> HIDE DEF new
    <3> QED
      BY <2>8, <2>10, <3>1, <3>2 DEF HalfBuilt
  <2> HIDE DEF new
  <2> QED
    BY <2>3, <2>6, <2>7, <2>11
<1> QED
  BY <1>1, <1>2

LEMMA VisitsAre ==
  ASSUME NEW order, Len(order) \in Nat
  PROVE  /\ Visits(order)[0] = {}
         /\ \A i \in 1..Len(order) : Visits(order)[i] =
              Visited(Visits(order)[i - 1], order[i], ToSet(order), BuiltSpentBy(order))
<1> DEFINE mempool == ToSet(order)
           Turn(cs, t) == Visited(cs, t, mempool, BuiltSpentBy(order))
           Rec(f, n) == f = [i \in 0..n |-> IF i = 0 THEN {} ELSE Turn(f[i - 1], order[i])]
           S == {n \in Nat : \E f : Rec(f, n)}
<1>1. 0 \in S
  <2> DEFINE f == [i \in 0..0 |-> {}]
  <2>1. Rec(f, 0)
    OBVIOUS
  <2> QED
    BY <2>1
<1>2. ASSUME NEW n \in 1..Len(order), n - 1 \in S PROVE n \in S
  <2>1. PICK f : Rec(f, n - 1)
    BY <1>2
  <2> DEFINE g == [i \in 0..n |-> IF i = n THEN Turn(f[n - 1], order[n]) ELSE f[i]]
  <2> HIDE DEF Turn
  <2>2. n \in Nat /\ \A i \in 0..n : i # n => i \in 0..(n - 1)
    OBVIOUS
  <2>4. \A i \in 0..(n - 1) : g[i] = f[i]
    OBVIOUS
  <2>5. ASSUME NEW i \in 0..n
        PROVE  g[i] = IF i = 0 THEN {} ELSE Turn(g[i - 1], order[i])
    <3>1. CASE i = n
      <4>1. g[i] = Turn(f[n - 1], order[n]) /\ n - 1 \in 0..(n - 1) /\ i # 0
        BY <3>1
      <4> HIDE DEF g
      <4> QED
        BY <2>4, <3>1, <4>1
    <3>2. CASE i # n
      <4>1. i \in 0..(n - 1) /\ g[i] = f[i] /\ (i # 0 => i - 1 \in 0..(n - 1))
        BY <2>2, <2>4, <3>2
      <4>2. f[i] = IF i = 0 THEN {} ELSE Turn(f[i - 1], order[i])
        BY <2>1, <4>1
      <4>3. i # 0 => g[i - 1] = f[i - 1]
        BY <2>4, <4>1
      <4> HIDE DEF g, Rec
      <4> QED
        BY <4>1, <4>2, <4>3
    <3> QED
      BY <3>1, <3>2
  <2>6. DOMAIN g = 0..n /\ g = [i \in 0..n |-> g[i]]
    OBVIOUS
  <2> HIDE DEF g
  <2>7. Rec(g, n)
    BY <2>5, <2>6
  <2> QED
    BY <2>2, <2>7
<1>3. Len(order) \in S
  <2> HIDE DEF S
  <2>1. \A i \in 0..Len(order) : i \in S
    BY <1>1, <1>2, Upwards
  <2> QED
    BY <2>1
<1>4. Rec(Visits(order), Len(order))
  BY <1>3 DEF Visits, Visited, Dependencies
<1>5. \A i \in 1..Len(order) : i \in 0..Len(order) /\ i # 0
  OBVIOUS
<1> HIDE DEF Turn
<1>6. /\ Visits(order)[0] = {}
      /\ \A i \in 1..Len(order) : Visits(order)[i] = Turn(Visits(order)[i - 1], order[i])
  <2>1. PICK f : f = Visits(order)
    OBVIOUS
  <2>2. f = [i \in 0..Len(order) |-> IF i = 0 THEN {} ELSE Turn(f[i - 1], order[i])]
    BY <1>4, <2>1
  <2>3. 0 \in 0..Len(order)
    OBVIOUS
  <2>4. f[0] = {} /\ \A i \in 1..Len(order) : f[i] = Turn(f[i - 1], order[i])
    BY <1>5, <2>2, <2>3
  <2> QED
    BY <2>1, <2>4
<1> QED
  BY <1>6 DEF Turn

LEMMA ContestedIs ==
  \A S : \A o : o \in Contested(S) <=>
    o \in Outpoint /\ \E t, u \in S : t # u /\ o \in Inputs[t] /\ o \in Inputs[u]
BY DEF Contested

\* Clusters built from nothing, but for what is spent of a block and what two spend.
LEMMA BuiltFits ==
  ASSUME NEW order, Ordered(order), NEW D, Contested(ToSet(order)) \subseteq D,
         \A o \in Spending(ToSet(order)) : o[1] \in MempoolTx \ ToSet(order) => o \in D
  PROVE  /\ Fits([clusters |-> Built(order), spentBy |-> BuiltSpentBy(order)], D)
         /\ Tracked(Built(order)) = ToSet(order)
<1> DEFINE mempool == ToSet(order)
           map == BuiltSpentBy(order)
           S == {i \in 0..Len(order) :
                   HalfBuilt(Visits(order)[i], mempool, D) /\ Upto(order, i) \subseteq Tracked(Visits(order)[i])}
<1>1. Len(order) \in Nat /\ mempool \in SUBSET MempoolTx
  BY DEF Ordered, ToSet
<1>2. \A o \in Outpoint : map[o] = IF o[1] \in mempool THEN Entered(Nobody, order)[o] ELSE None
  BY DEF BuiltSpentBy
<1>3. \A o \in Outpoint : Nobody[o] = None
  BY DEF Nobody
<1>4. ASSUME NEW o \in Outpoint
      PROVE  map[o] = None \/ (map[o] \in mempool /\ o \in Inputs[map[o]])
  <2>1. \/ Entered(Nobody, order)[o] = None
        \/ /\ Entered(Nobody, order)[o] \in mempool
           /\ o \in Inputs[Entered(Nobody, order)[o]]
    BY <1>3, EnteredIs
  <2> QED
    BY <1>2, <2>1
<1>5. IsMap(map)
  <2>1. map \in [Outpoint -> MempoolTx \cup {None}]
    <3>1. map = [o \in Outpoint |-> IF o[1] \in mempool THEN Entered(Nobody, order)[o] ELSE None]
      BY DEF BuiltSpentBy
    <3>2. \A o \in Outpoint : map[o] \in MempoolTx \cup {None}
      BY <1>1, <1>4
    <3>3. map = [o \in Outpoint |-> map[o]]
      BY <3>1
    <3> HIDE DEF map
    <3> QED
      BY <3>2, <3>3
  <2> QED
    BY <1>4, <2>1 DEF IsMap
<1>6. ASSUME NEW c \in mempool, NEW o \in Inputs[c] \ D, o[1] \in mempool
      PROVE  map[o] = c
  <2>1. o \in Outpoint /\ o \in Spending(mempool)
    BY <1>1 DEF Outpoint, Spending
  <2>2. map[o] \in mempool /\ o \in Inputs[map[o]]
    BY <1>2, <1>6, <2>1, EnteredIs
  <2>3. o \notin Contested(mempool)
    OBVIOUS
  <2> HIDE DEF map, mempool
  <2> QED
    BY <2>1, <2>2, <2>3, ContestedIs
<1>7. 0 \in S
  <2>1. Visits(order)[0] = {} /\ Upto(order, 0) = {}
    BY <1>1, VisitsAre, UptoIs
  <2>2. HalfBuilt({}, mempool, D)
    BY DEF HalfBuilt, Separate, LinkedBut, Tracked
  <2>3. HalfBuilt(Visits(order)[0], mempool, D) /\ Upto(order, 0) \subseteq Tracked(Visits(order)[0])
    BY <2>1, <2>2
  <2>4. 0 \in 0..Len(order)
    BY <1>1
  <2> QED
    BY <2>3, <2>4
<1>8. ASSUME NEW i \in 1..Len(order), i - 1 \in S PROVE i \in S
  <2>1. /\ HalfBuilt(Visits(order)[i - 1], mempool, D)
        /\ Upto(order, i - 1) \subseteq Tracked(Visits(order)[i - 1])
    BY <1>8
  <2>2. Visits(order)[i] = Visited(Visits(order)[i - 1], order[i], mempool, map)
    BY <1>1, VisitsAre
  <2>3. order[i] \in mempool /\ Upto(order, i) = Upto(order, i - 1) \cup {order[i]}
    BY UptoIs
  <2> HIDE DEF S, map, mempool
  <2>4. /\ HalfBuilt(Visits(order)[i], mempool, D)
        /\ order[i] \in Tracked(Visits(order)[i])
        /\ Tracked(Visits(order)[i - 1]) \subseteq Tracked(Visits(order)[i])
    BY <1>1, <1>5, <1>6, <2>1, <2>2, <2>3, VisitedFits
  <2>5. i \in 0..Len(order) /\ Upto(order, i) \subseteq Tracked(Visits(order)[i])
    BY <2>1, <2>3, <2>4
  <2> QED
    BY <2>4, <2>5 DEF S
<1>9. Len(order) \in S
  <2> HIDE DEF S
  <2>1. \A i \in 0..Len(order) : i \in S
    BY <1>1, <1>7, <1>8, Upwards
  <2> QED
    BY <1>1, <2>1
<1>10. HalfBuilt(Built(order), mempool, D) /\ mempool \subseteq Tracked(Built(order))
  <2>1. Upto(order, Len(order)) = mempool
    BY UptoIs
  <2> QED
    BY <1>9, <2>1 DEF Built
<1>11. Tracked(Built(order)) = mempool
  BY <1>10 DEF HalfBuilt
<1>12. KnownBut(Built(order), map, D)
  <2>1. ASSUME NEW c \in mempool, NEW o \in Inputs[c] \ D, o[1] \in MempoolTx PROVE map[o] = c
    <3>1. o \in Spending(mempool)
      BY DEF Spending
    <3>2. o[1] \in mempool
      BY <2>1, <3>1
    <3> QED
      BY <1>6, <3>2
  <2> QED
    BY <1>11, <2>1 DEF KnownBut
<1>13. Separate(Built(order)) /\ LinkedBut(Built(order), D)
  BY <1>10 DEF HalfBuilt
<1> HIDE DEF map
<1>14. Fits([clusters |-> Built(order), spentBy |-> map], D)
  BY <1>5, <1>12, <1>13 DEF Fits
<1> QED
  BY <1>11, <1>14 DEF map

-----------------------------------------------------------------------------
(* The spend map                                                           *)

Owned(map, S) == \A o \in Outpoint : map[o] # None => map[o] \in S
Knows(map, S, D) == \A t \in S : \A o \in Inputs[t] \ D : map[o] = t

\* A block B, which replaces the transactions in R and contradicts others of the mempool S.
Contradicts(S, gone, map, D, K, B, R, E) ==
  /\ S \in SUBSET MempoolTx /\ IsMap(map) /\ Owned(map, S \cup gone)
  /\ Contested(S) \subseteq D
  /\ K \in SUBSET S /\ Knows(map, K, D \cup Spending(gone))
  /\ R \in SUBSET MempoolTx
  /\ \A u \in R : \E o \in Spending(B) : o \in Outpoint /\ map[o] = u
  /\ \A t \in S \ B : \A o \in Inputs[t] : o \in Spending(B) => Inputs[t] \subseteq E
  /\ D \cap Spending(S \ B) \subseteq E

LEMMA FreedKnows ==
  ASSUME NEW S, NEW gone, NEW map, NEW D, NEW K, NEW B, NEW R, NEW E,
         Contradicts(S, gone, map, D, K, B, R, E)
  PROVE  /\ IsMap(Freed(map, B \cup R)) /\ Owned(Freed(map, B \cup R), (S \ B) \cup gone)
         /\ Knows(Freed(map, B \cup R), K \ B, E \cup Spending(gone))
<1> USE DEF Contradicts
<1> DEFINE new == Freed(map, B \cup R)
<1>1. \A X, o : o \in Spending(X) <=> \E t \in X : o \in Inputs[t]
  BY DEF Spending
<1>2. /\ new \in [Outpoint -> MempoolTx \cup {None}]
      /\ \A o \in Outpoint : new[o] = IF o \in Spending(B \cup R) THEN None ELSE map[o]
  BY DEF Freed, IsMap
<1> HIDE DEF new
<1>3. IsMap(new)
  BY <1>2 DEF IsMap
<1>4. ASSUME NEW o \in Outpoint, new[o] # None PROVE new[o] \in (S \ B) \cup gone
  <2>1. new[o] = map[o] /\ o \notin Spending(B \cup R)
    BY <1>2, <1>4
  <2>2. o \in Inputs[map[o]] /\ map[o] \in S \cup gone
    BY <1>4, <2>1 DEF IsMap, Owned
  <2>3. map[o] \notin B
    BY <1>1, <2>1, <2>2
  <2> QED
    BY <2>1, <2>2, <2>3
<1>5. ASSUME NEW t \in K \ B, NEW o \in Inputs[t] \ (E \cup Spending(gone)) PROVE new[o] = t
  <2>1. o \in Outpoint /\ o \in Spending(S \ B) /\ t \in S \ B
    BY <1>1 DEF Outpoint
  <2>2. o \notin D
    BY <2>1
  <2>3. map[o] = t
    BY <2>2 DEF Knows
  <2>4. o \notin Spending(B)
    BY <2>1
  <2>5. ASSUME NEW u \in R, o \in Inputs[u] PROVE FALSE
    <3>1. PICK x \in Spending(B) : x \in Outpoint /\ map[x] = u
      OBVIOUS
    <3>2. u # None
      BY MempoolAssumption
    <3>3. x \in Inputs[u] /\ u \in S \cup gone
      BY <3>1, <3>2 DEF IsMap, Owned
    <3>4. u \notin gone
      BY <1>1, <1>5, <2>5
    <3>5. u = t
      BY <2>1, <2>2, <2>5, <3>3, <3>4, ContestedIs
    <3> QED
      BY <1>5, <2>1, <3>1, <3>3, <3>5
  <2>6. o \notin Spending(B \cup R)
    BY <1>1, <2>4, <2>5
  <2> QED
    BY <1>2, <2>1, <2>3, <2>6
<1> QED
  BY <1>3, <1>4, <1>5 DEF Owned, Knows, new

\* An update that the map is told of: of the mempool S, gone leave and order enter.
Updates(S, left, map, D, K, gone, order, E) ==
  /\ S \in SUBSET MempoolTx /\ IsMap(map) /\ Owned(map, S \cup left)
  /\ K \in SUBSET S /\ Knows(map, K, D \cup Spending(left))
  /\ Ordered(order) /\ gone \cap ToSet(order) = {}
  /\ D \cap Spending((S \cup ToSet(order)) \ gone) \subseteq E
  /\ Contested((S \cup ToSet(order)) \ gone) \subseteq E

LEMMA EnteredKnows ==
  ASSUME NEW S, NEW left, NEW map, NEW D, NEW K, NEW gone, NEW order, NEW E,
         Updates(S, left, map, D, K, gone, order, E)
  PROVE  /\ IsMap(Entered(Withdrawn(map, gone), order))
         /\ Owned(Entered(Withdrawn(map, gone), order),
                  ((S \cup ToSet(order)) \ gone) \cup (left \ ToSet(order)))
         /\ Knows(Entered(Withdrawn(map, gone), order), (K \cup ToSet(order)) \ gone,
                  E \cup Spending(left \ ToSet(order)))
<1> USE DEF Updates
<1> DEFINE kept == Withdrawn(map, gone)
           new == Entered(kept, order)
           found == ToSet(order)
           next == (S \cup found) \ gone
<1>1. \A X, o : o \in Spending(X) <=> \E t \in X : o \in Inputs[t]
  BY DEF Spending
<1>2. \A o \in Outpoint : kept[o] = IF map[o] \in gone THEN None ELSE map[o]
  BY DEF Withdrawn
<1>3. found \in SUBSET MempoolTx
  BY DEF Ordered, ToSet
<1> HIDE DEF kept
<1>4. \A o \in Outpoint :
        /\ o \notin Spending(found) => new[o] = kept[o]
        /\ o \in Spending(found) => new[o] \in found /\ o \in Inputs[new[o]]
  BY EnteredIs
<1>5. \A o \in Outpoint : map[o] \in MempoolTx \cup {None} /\ (map[o] # None => o \in Inputs[map[o]])
  BY DEF IsMap
<1>6. \A o \in Outpoint : /\ new[o] \in MempoolTx \cup {None}
                          /\ new[o] # None => o \in Inputs[new[o]]
  BY <1>2, <1>3, <1>4, <1>5
<1>7. IsMap(new)
  <2>1. new = [o \in Outpoint |-> new[o]]
    BY DEF Entered
  <2> HIDE DEF new
  <2> QED
    BY <1>6, <2>1 DEF IsMap
<1> HIDE DEF new, found
<1>8. ASSUME NEW o \in Outpoint, new[o] # None PROVE new[o] \in next \cup (left \ found)
  <2>1. CASE o \in Spending(found)
    BY <1>4, <2>1 DEF found
  <2>2. CASE o \notin Spending(found)
    <3>1. new[o] = map[o] /\ map[o] \notin gone
      BY <1>2, <1>4, <1>8, <2>2
    <3> QED
      BY <1>8, <3>1 DEF Owned, found
  <2> QED
    BY <2>1, <2>2
<1>9. ASSUME NEW t \in (K \cup found) \ gone, NEW o \in Inputs[t] \ (E \cup Spending(left \ found))
      PROVE  new[o] = t
  <2>1. t \in next /\ o \in Outpoint /\ o \in Spending(next)
    BY <1>1, <1>3 DEF Outpoint
  <2>2. o \notin D /\ o \notin Contested(next)
    BY <2>1 DEF found
  <2>3. \A u \in next : o \in Inputs[u] => u = t
    BY <2>1, <2>2, ContestedIs
  <2>4. \A u \in found : u \in next
    BY DEF found
  <2>5. CASE o \in Spending(found)
    BY <1>4, <2>1, <2>3, <2>4, <2>5
  <2>6. CASE o \notin Spending(found)
    <3>1. t \in K
      BY <1>1, <2>6
    <3>2. o \notin Spending(left)
      BY <1>1, <1>9, <2>6
    <3>3. map[o] = t
      BY <2>2, <3>1, <3>2 DEF Knows
    <3> QED
      BY <1>2, <1>4, <2>1, <2>6, <3>3
  <2> QED
    BY <2>5, <2>6
<1> HIDE DEF next
<1>10. Owned(new, next \cup (left \ found)) /\ Knows(new, (K \cup found) \ gone, E \cup Spending(left \ found))
  BY <1>8, <1>9 DEF Owned, Knows
<1> QED
  BY <1>7, <1>10 DEF new, found, next, kept

-----------------------------------------------------------------------------
(* The views                                                               *)

\* Types, but for the clusters and the maps.
Basics ==
  /\ chain \in Seq(SUBSET MempoolTx) /\ Len(chain) <= MaxBlocks
  /\ nodePool \subseteq MempoolTx /\ raw \subseteq MempoolTx /\ cache \subseteq MempoolTx
  /\ pc \in {"idle", "read"}
  /\ handled \in 0..Len(chain)
  /\ doubted \subseteq Outpoint
  /\ untold \in [clusters : SUBSET cache, spends : SUBSET cache, gone : SUBSET MempoolTx]
  /\ rare \in 0..MaxRare

\* The inductive invariant.  What two transactions of the mempool spend is in doubt; both
\* maps have spenders only; the spend map has those of the mempool, and of the
\* transactions of whose removal it was not told.
ViewsInv ==
  /\ Basics /\ Told
  /\ Separate(clusters) /\ IsMap(spentBy)
  /\ LinkedBut(clusters, doubted) /\ KnownBut(clusters, spentBy, doubted)
  /\ IsMap(spendMap) /\ Owned(spendMap, cache \cup untold.gone)
  /\ Knows(spendMap, cache \ untold.spends, doubted \cup Spending(untold.gone))
  /\ Contested(cache) \subseteq doubted

LEMMA ViewsInvGives ==
  ASSUME ViewsInv
  PROVE  Clustered /\ SpendsKnown
<1>1. Tracked(clusters) \subseteq cache
  BY DEF ViewsInv, Told
<1>2. ASSUME NEW r \in clusters PROVE r.txs \subseteq cache /\ r.deps \subseteq r.txs \X r.txs
  <2>1. r.txs \subseteq Tracked(clusters)
    BY DEF Tracked
  <2>2. r.deps \in SUBSET (r.txs \X r.txs)
    BY DEF ViewsInv, Separate
  <2> QED
    BY <1>1, <2>1, <2>2
<1>3. ViewsTypeOK
  BY <1>2 DEF ViewsTypeOK, ViewsInv, Basics, IsMap
<1>4. OnePiece
  BY DEF OnePiece, ViewsInv, Separate
<1>5. ParentsLinked
  BY DEF ParentsLinked, ViewsInv, LinkedBut
<1>6. SpendsKnown
  BY DEF SpendsKnown, ViewsInv, Knows
<1> QED
  BY <1>3, <1>4, <1>5, <1>6 DEF Clustered, ViewsInv

LEMMA ViewsInitHolds ==
  ASSUME ViewsInit
  PROVE  ViewsInv
<1> USE DEF ViewsInit
<1>1. Basics
  BY MempoolAssumption DEF Basics, NothingUntold
<1>2. Tracked(clusters) = {} /\ Told /\ Separate(clusters)
  BY DEF Tracked, Told, Separate, NothingUntold
<1>3. IsMap(spentBy) /\ IsMap(spendMap) /\ Owned(spendMap, cache \cup untold.gone)
  BY DEF IsMap, Nobody, Owned
<1>4. LinkedBut(clusters, doubted) /\ KnownBut(clusters, spentBy, doubted)
  BY <1>2 DEF LinkedBut, KnownBut
<1>5. Knows(spendMap, cache \ untold.spends, doubted \cup Spending(untold.gone))
  BY DEF Knows
<1>6. Contested(cache) \subseteq doubted
  BY ContestedIs
<1> QED
  BY <1>1, <1>2, <1>3, <1>4, <1>5, <1>6 DEF ViewsInv

LEMMA CountsFit ==
  ASSUME rare \in 0..MaxRare, NEW happens \in BOOLEAN, Counts(happens)
  PROVE  rare' \in 0..MaxRare
BY MempoolAssumption DEF Counts

\* The node changes, or its list is read.
LEMMA NodeStep ==
  ASSUME ViewsInv,
         \/ \E S \in SUBSET MempoolTx : PoolChanges(S) \/ Mine(S)
         \/ Reorg \/ ReadMempool
         \/ UNCHANGED viewVars
  PROVE  ViewsInv'
<1>1. Basics
  BY DEF ViewsInv
<1>2. UNCHANGED <<cache, clusters, spentBy, spendMap, doubted, untold>>
  BY DEF PoolChanges, Mine, Reorg, ReadMempool, viewVars
<1>3. Basics'
  <2>1. CASE \E S \in SUBSET MempoolTx : PoolChanges(S)
    BY <1>1, <2>1 DEF PoolChanges, Basics
  <2>2. CASE \E S \in SUBSET MempoolTx : Mine(S)
    <3>1. PICK S \in SUBSET MempoolTx : Mine(S)
      BY <2>2
    <3>2. chain' = Append(chain, S) /\ Len(chain) < MaxBlocks /\ chain \in Seq(SUBSET MempoolTx)
      BY <1>1, <3>1 DEF Mine, Basics
    <3>3. chain' \in Seq(SUBSET MempoolTx) /\ Len(chain') = Len(chain) + 1
      BY <3>2, AppendProperties
    <3>4. Len(chain') <= MaxBlocks /\ \A h \in 0..Len(chain) : h \in 0..Len(chain')
      BY <3>2, <3>3, MempoolAssumption
    <3> QED
      BY <1>1, <1>2, <3>1, <3>3, <3>4 DEF Mine, Basics
  <2>3. CASE Reorg
    <3>1. chain \in Seq(SUBSET MempoolTx) /\ chain # <<>> /\ handled \in 0..Len(chain)
      BY <1>1, <2>3 DEF Reorg, Basics
    <3>2. Len(chain) \in Nat /\ Len(chain) >= 1
      BY <3>1, EmptySeq
    <3>3. chain' = SubSeq(chain, 1, Len(chain) - 1) /\ Last(chain) = chain[Len(chain)]
      BY <2>3 DEF Reorg, Front, Last
    <3>4. chain' \in Seq(SUBSET MempoolTx) /\ Len(chain') = Len(chain) - 1
      <4>1. \A i \in 1..(Len(chain) - 1) : chain[i] \in SUBSET MempoolTx
        BY <3>1, <3>2, ElementOfSeq
      <4>2. /\ SubSeq(chain, 1, Len(chain) - 1) \in Seq(SUBSET MempoolTx)
            /\ Len(SubSeq(chain, 1, Len(chain) - 1))
                 = IF 1 <= Len(chain) - 1 THEN Len(chain) - 1 - 1 + 1 ELSE 0
        <5>1. 1 \in Int /\ Len(chain) - 1 \in Int
          BY <3>2
        <5> QED
          BY <4>1, <5>1, SubSeqProperties
      <4>3. PICK n \in Nat : n = Len(chain) - 1
        BY <3>2
      <4>4. n - 1 + 1 = n /\ (n = 0 \/ 1 <= n)
        BY <4>3
      <4>5. n = 0 => ~(1 <= n)
        OBVIOUS
      <4>6. SubSeq(chain, 1, n) \in Seq(SUBSET MempoolTx)
            /\ Len(SubSeq(chain, 1, n)) = IF 1 <= n THEN n - 1 + 1 ELSE 0
        BY <4>2, <4>3
      <4>7. Len(SubSeq(chain, 1, n)) = n
        BY <4>4, <4>5, <4>6
      <4> QED
        BY <3>3, <4>3, <4>6, <4>7
    <3>5. Last(chain) \subseteq MempoolTx
      BY <3>1, <3>2, <3>3
    <3>6. handled' \in 0..Len(chain')
      <4>1. handled' = IF handled = Len(chain) THEN handled - 1 ELSE handled
        BY <2>3 DEF Reorg
      <4> QED
        BY <3>1, <3>2, <3>4, <4>1
    <3>7. rare' \in 0..MaxRare
      BY <1>1, <2>3, CountsFit DEF Reorg, Basics
    <3>8. Len(chain') <= MaxBlocks
      BY <1>1, <3>2, <3>4, MempoolAssumption DEF Basics
    <3> QED
      BY <1>1, <1>2, <2>3, <3>4, <3>5, <3>6, <3>7, <3>8 DEF Reorg, Basics
  <2>4. CASE ReadMempool
    BY <1>1, <2>4 DEF ReadMempool, node, Basics
  <2>5. CASE UNCHANGED viewVars
    BY <1>1, <2>5 DEF viewVars, node, Basics
  <2> QED
    BY <2>1, <2>2, <2>3, <2>4, <2>5
<1> QED
  BY <1>2, <1>3 DEF ViewsInv, Told

LEMMA HandleBlockStep ==
  ASSUME ViewsInv, HandleBlock
  PROVE  ViewsInv'
<1> DEFINE B == chain[handled + 1]
           losers == {t \in cache \ B : Inputs[t] \cap Spending(B) # {}}
           R == Replaced(B)
<1>1. Basics /\ Told /\ Separate(clusters)
  BY DEF ViewsInv
<1>2. B \in SUBSET MempoolTx
  <2>1. handled + 1 \in 1..Len(chain)
    BY <1>1 DEF HandleBlock, Basics
  <2> QED
    BY <1>1, <2>1, ElementOfSeq DEF Basics
<1>3. /\ spendMap' = Freed(spendMap, B \cup R) /\ spentBy' = Freed(spentBy, B \cap cache)
      /\ clusters' = Removed(clusters, B) /\ cache' = cache \ B
      /\ doubted' = Doubt(cache', Spending(losers)) /\ untold' = StillUntold(cache')
      /\ handled' = handled + 1 /\ handled < Len(chain)
      /\ pc' = "idle" /\ raw' = {} /\ UNCHANGED <<node, rare>>
  BY DEF HandleBlock
<1> HIDE DEF B, losers
<1>4. /\ untold \in [clusters : SUBSET cache, spends : SUBSET cache, gone : SUBSET MempoolTx]
      /\ untold'.clusters = untold.clusters \ B /\ untold'.spends = untold.spends \ B
      /\ untold'.gone = untold.gone
      /\ untold' \in [clusters : SUBSET cache', spends : SUBSET cache', gone : SUBSET MempoolTx]
  BY <1>1, <1>3 DEF Basics, StillUntold
<1>5. \A X, o : o \in Spending(X) <=> \E t \in X : o \in Inputs[t]
  BY DEF Spending
<1>6. doubted' = (doubted \cup Spending(losers) \cup Contested(cache')) \cap Spending(cache')
  BY <1>3 DEF Doubt
<1>7. Basics'
  <2>1. doubted' \subseteq Outpoint
    BY <1>1, <1>3, <1>6 DEF Basics, Spending, Outpoint
  <2>2. handled' \in 0..Len(chain')
    BY <1>1, <1>3 DEF Basics, node
  <2> QED
    BY <1>1, <1>3, <1>4, <2>1, <2>2 DEF Basics, node
<1>8. /\ Separate(clusters') /\ Tracked(clusters') = Tracked(clusters) \ B
      /\ \A r \in clusters : \A e \in r.deps : e[1] \notin B /\ e[2] \notin B =>
           \E s \in clusters' : e \in s.deps
  BY <1>1, <1>3, RemovedFits
<1>9. Told'
  BY <1>1, <1>3, <1>4, <1>8 DEF Told
<1>10. Tracked(clusters') \subseteq cache' /\ Tracked(clusters') \subseteq Tracked(clusters)
  BY <1>8, <1>9 DEF Told
<1>11. Contested(cache') \subseteq doubted'
  BY <1>5, <1>6, ContestedIs
<1>12. ASSUME NEW c \in cache', NEW o \in Inputs[c], o \notin doubted'
       PROVE  o \notin doubted /\ o \notin Spending(B) /\ o \in Outpoint
  <2>1. o \in Spending(cache') /\ c \in cache /\ c \notin B /\ o \in Outpoint
    BY <1>1, <1>3, <1>5 DEF Basics, Outpoint
  <2>2. o \notin doubted
    BY <1>6, <1>12, <2>1
  <2>3. ASSUME o \in Spending(B) PROVE FALSE
    <3>1. c \in losers
      BY <2>1, <2>3 DEF losers
    <3> QED
      BY <1>5, <1>6, <1>12, <2>1, <3>1
  <2> QED
    BY <2>1, <2>2, <2>3
<1>13. LinkedBut(clusters', doubted')
  <2>1. ASSUME NEW c \in Tracked(clusters'), NEW o \in Inputs[c] \ doubted', o[1] \in Tracked(clusters')
        PROVE  \E s \in clusters' : <<o[1], c>> \in s.deps
    <3>1. c \in Tracked(clusters) /\ o[1] \in Tracked(clusters) /\ o \notin doubted
      BY <1>10, <1>12, <2>1
    <3>2. PICK r \in clusters : <<o[1], c>> \in r.deps
      BY <3>1 DEF ViewsInv, LinkedBut
    <3>3. c \notin B /\ o[1] \notin B
      BY <1>8, <2>1
    <3>4. <<o[1], c>>[1] = o[1] /\ <<o[1], c>>[2] = c
      OBVIOUS
    <3> QED
      BY <1>8, <3>2, <3>3, <3>4
  <2> QED
    BY <2>1 DEF LinkedBut
<1>14. /\ \A o \in Outpoint : spentBy'[o] = IF o \in Spending(B \cap cache) THEN None ELSE spentBy[o]
       /\ IsMap(spentBy')
  <2>1. /\ spentBy' = [o \in Outpoint |-> IF o \in Spending(B \cap cache) THEN None ELSE spentBy[o]]
        /\ IsMap(spentBy)
    BY <1>3 DEF Freed, ViewsInv
  <2> QED
    BY <2>1 DEF IsMap
<1>15. KnownBut(clusters', spentBy', doubted')
  <2>1. ASSUME NEW c \in Tracked(clusters'), NEW o \in Inputs[c] \ doubted', o[1] \in MempoolTx
        PROVE  spentBy'[o] = c
    <3>1. c \in Tracked(clusters) /\ o \notin doubted /\ o \notin Spending(B) /\ o \in Outpoint
      BY <1>10, <1>12, <2>1
    <3>2. spentBy[o] = c
      BY <2>1, <3>1 DEF ViewsInv, KnownBut
    <3> QED
      BY <1>5, <1>14, <3>1, <3>2
  <2> QED
    BY <2>1 DEF KnownBut
<1>16. /\ IsMap(spendMap') /\ Owned(spendMap', cache' \cup untold.gone)
       /\ Knows(spendMap', (cache \ untold.spends) \ B, doubted' \cup Spending(untold.gone))
  <2>1. /\ IsMap(spendMap) /\ Owned(spendMap, cache \cup untold.gone)
        /\ Knows(spendMap, cache \ untold.spends, doubted \cup Spending(untold.gone))
        /\ Contested(cache) \subseteq doubted /\ cache \in SUBSET MempoolTx
    BY <1>1 DEF ViewsInv, Basics
  <2>2. R \in SUBSET MempoolTx /\ \A u \in R : \E o \in Spending(B) : o \in Outpoint /\ spendMap[o] = u
    BY <1>2, <1>5 DEF Replaced, Outpoint
  <2>3. \A t \in cache \ B : \A o \in Inputs[t] : o \in Spending(B) => Inputs[t] \subseteq doubted'
    <3>1. ASSUME NEW t \in cache \ B, NEW o \in Inputs[t], o \in Spending(B), NEW x \in Inputs[t]
          PROVE  x \in doubted'
      <4>1. t \in losers
        BY <3>1 DEF losers
      <4> QED
        BY <1>3, <1>5, <1>6, <4>1
    <3> QED
      BY <3>1
  <2>4. doubted \cap Spending(cache \ B) \subseteq doubted'
    BY <1>3, <1>6
  <2> DEFINE K == cache \ untold.spends
  <2>5. K \in SUBSET cache
    OBVIOUS
  <2> HIDE DEF R, K
  <2>6. Knows(spendMap, K, doubted \cup Spending(untold.gone))
    BY <2>1 DEF K
  <2>7. Contradicts(cache, untold.gone, spendMap, doubted, K, B, R, doubted')
    BY <2>1, <2>2, <2>3, <2>4, <2>5, <2>6 DEF Contradicts
  <2>8. /\ IsMap(Freed(spendMap, B \cup R))
        /\ Owned(Freed(spendMap, B \cup R), (cache \ B) \cup untold.gone)
        /\ Knows(Freed(spendMap, B \cup R), K \ B, doubted' \cup Spending(untold.gone))
    BY <2>7, FreedKnows
  <2> QED
    BY <1>3, <2>8 DEF K
<1>17. cache' \ untold'.spends = (cache \ untold.spends) \ B
  BY <1>3, <1>4
<1> QED
  BY <1>4, <1>7, <1>8, <1>9, <1>11, <1>13, <1>14, <1>15, <1>16, <1>17 DEF ViewsInv

\* What was known of the mempool before still is, as far as it stays.
LEMMA KeptFits ==
  ASSUME NEW cs, Separate(cs), NEW map, IsMap(map), NEW D, LinkedBut(cs, D), KnownBut(cs, map, D),
         NEW gone, NEW E, \A o \in Spending(Tracked(cs) \ gone) : o \in D => o \in E
  PROVE  Fits([clusters |-> Removed(cs, gone), spentBy |-> map], E)
<1> DEFINE left == Removed(cs, gone)
<1>1. /\ Separate(left) /\ Tracked(left) = Tracked(cs) \ gone
      /\ \A r \in cs : \A e \in r.deps : e[1] \notin gone /\ e[2] \notin gone =>
           \E s \in left : e \in s.deps
  BY RemovedFits
<1> HIDE DEF left
<1>2. \A c \in Tracked(left) : \A o \in Inputs[c] \ E : o \notin D
  BY <1>1 DEF Spending
<1>3. LinkedBut(left, E)
  <2>1. ASSUME NEW c \in Tracked(left), NEW o \in Inputs[c] \ E, o[1] \in Tracked(left)
        PROVE  \E s \in left : <<o[1], c>> \in s.deps
    <3>1. c \in Tracked(cs) \ gone /\ o[1] \in Tracked(cs) \ gone /\ o \notin D
      BY <1>1, <1>2, <2>1
    <3>2. PICK r \in cs : <<o[1], c>> \in r.deps
      BY <3>1 DEF LinkedBut
    <3>3. <<o[1], c>>[1] = o[1] /\ <<o[1], c>>[2] = c
      OBVIOUS
    <3> QED
      BY <1>1, <3>1, <3>2, <3>3
  <2> QED
    BY <2>1 DEF LinkedBut
<1>4. KnownBut(left, map, E)
  BY <1>1, <1>2 DEF KnownBut
<1>5. Fits([clusters |-> left, spentBy |-> map], E)
  BY <1>1, <1>3, <1>4 DEF Fits
<1> QED
  BY <1>5 DEF left

LEMMA UpdateMempoolStep ==
  ASSUME ViewsInv, NEW found \in SUBSET Fetchable, NEW order \in SetToSeqs(found),
         NEW protected \in BOOLEAN, NEW breaks \in BOOLEAN,
         UpdateMempool(order, protected, breaks)
  PROVE  ViewsInv'
<1>1. Basics /\ Told /\ Separate(clusters) /\ IsMap(spentBy)
  BY DEF ViewsInv
<1>2. found \in SUBSET MempoolTx
  BY <1>1 DEF Basics, Fetchable
<1>3. Ordered(order) /\ ToSet(order) \subseteq Fetchable
  BY <1>2, OrdersFit
<1>4. PICK fresh : fresh = ToSet(order)
  OBVIOUS
<1>5. fresh \in SUBSET MempoolTx /\ fresh \cap cache = {} /\ fresh \subseteq raw
  BY <1>1, <1>3, <1>4 DEF Basics, Fetchable
<1>6. PICK gone : gone = IF protected THEN {} ELSE (cache \cup fresh) \ raw
  OBVIOUS
<1>7. gone \cap fresh = {} /\ gone \subseteq cache
  BY <1>5, <1>6
<1>8. PICK known : known = Applied(gone, order, cache')
  OBVIOUS
<1>9. /\ cache' = (cache \cup fresh) \ gone
      /\ clusters' = known.clusters /\ spentBy' = known.spentBy
      /\ spendMap' = IF breaks THEN spendMap ELSE Entered(Withdrawn(spendMap, gone), order)
      /\ doubted' = Doubt(cache', {})
      /\ untold' = [StillUntold(cache') EXCEPT
                        !.spends = @ \cup (IF breaks THEN fresh ELSE {}),
                        !.gone = (@ \cup (IF breaks THEN gone ELSE {})) \ fresh]
      /\ pc' = "idle" /\ raw' = {} /\ UNCHANGED <<node, handled>>
      /\ Counts(protected \/ breaks)
  BY <1>4, <1>6, <1>8 DEF UpdateMempool
<1>10. cache' \in SUBSET MempoolTx /\ fresh \subseteq cache'
  BY <1>1, <1>5, <1>7, <1>9 DEF Basics
<1>11. \A X, o : o \in Spending(X) <=> \E t \in X : o \in Inputs[t]
  BY DEF Spending
<1>12. doubted' = (doubted \cup Contested(cache')) \cap Spending(cache')
  BY <1>9 DEF Doubt
<1>13. /\ untold \in [clusters : SUBSET cache, spends : SUBSET cache, gone : SUBSET MempoolTx]
       /\ untold'.clusters = untold.clusters \cap cache'
       /\ untold'.spends = (untold.spends \cap cache') \cup (IF breaks THEN fresh ELSE {})
       /\ untold'.gone = (untold.gone \cup (IF breaks THEN gone ELSE {})) \ fresh
       /\ untold' = [clusters |-> untold'.clusters, spends |-> untold'.spends, gone |-> untold'.gone]
  BY <1>1, <1>9 DEF Basics, StillUntold
<1>14. Basics'
  <2>1. doubted' \subseteq Outpoint
    BY <1>10, <1>12 DEF Spending, Outpoint
  <2>2. rare' \in 0..MaxRare
    BY <1>1, <1>9, CountsFit DEF Basics
  <2>3. untold'.spends \in SUBSET cache' /\ untold'.gone \in SUBSET MempoolTx
        /\ untold'.clusters \in SUBSET cache'
    BY <1>1, <1>7, <1>10, <1>13 DEF Basics
  <2>4. untold' \in [clusters : SUBSET cache', spends : SUBSET cache', gone : SUBSET MempoolTx]
    BY <1>13, <2>3
  <2> QED
    BY <1>1, <1>9, <1>10, <2>1, <2>2, <2>4 DEF Basics, node
<1>15. Contested(cache') \subseteq doubted'
  BY <1>11, <1>12, ContestedIs
<1>16. Tracked(clusters) \subseteq cache
  BY <1>1 DEF Told
<1>17. /\ Fits(known, doubted')
       /\ Tracked(known.clusters) = (Tracked(clusters) \ gone) \cup fresh
  <2> DEFINE before == [clusters |-> Removed(clusters, gone), spentBy |-> spentBy]
  <2>1. \A o \in Spending(Tracked(clusters) \ gone) : o \in doubted => o \in doubted'
    BY <1>9, <1>11, <1>12, <1>16
  <2>2. Fits(before, doubted')
    BY <1>1, <2>1, KeptFits DEF ViewsInv
  <2>3. before.clusters = Removed(clusters, gone) /\ Tracked(before.clusters) = Tracked(clusters) \ gone
    BY <1>1, RemovedFits
  <2>4. known = Turns(before, order, cache')[Len(order)]
    BY <1>8 DEF Applied
  <2> HIDE DEF before
  <2>5. Tracked(before.clusters) \cup ToSet(order) \subseteq cache'
    BY <1>4, <1>9, <1>10, <1>16, <2>3
  <2>6. ToSet(order) \cap Tracked(before.clusters) = {}
    BY <1>4, <1>5, <1>16, <2>3
  <2>7. \A a, b \in cache' : a # b => Inputs[a] \cap Inputs[b] \subseteq doubted'
    BY <1>10, <1>11, <1>12, ContestedIs DEF Outpoint
  <2> QED
    BY <1>3, <1>4, <2>2, <2>3, <2>4, <2>5, <2>6, <2>7, TurnsFit
<1>18. /\ Separate(clusters') /\ IsMap(spentBy')
       /\ LinkedBut(clusters', doubted') /\ KnownBut(clusters', spentBy', doubted')
  BY <1>9, <1>17 DEF Fits
<1>19. Told'
  <2>1. Tracked(clusters') = (Tracked(clusters) \ gone) \cup fresh
    BY <1>9, <1>17
  <2>2. Tracked(clusters) = cache \ untold.clusters /\ untold.clusters \subseteq cache
    BY <1>1, <1>13 DEF Told
  <2>3. Tracked(clusters') = cache' \ untold'.clusters
    BY <1>5, <1>7, <1>9, <1>13, <2>1, <2>2
  <2> QED
    BY <2>3 DEF Told
<1>20. /\ IsMap(spendMap') /\ Owned(spendMap', cache' \cup untold'.gone)
       /\ Knows(spendMap', cache' \ untold'.spends, doubted' \cup Spending(untold'.gone))
  <2> DEFINE K == cache \ untold.spends
  <2>1. /\ IsMap(spendMap) /\ Owned(spendMap, cache \cup untold.gone)
        /\ Knows(spendMap, K, doubted \cup Spending(untold.gone))
        /\ cache \in SUBSET MempoolTx /\ K \in SUBSET cache
    BY <1>1 DEF ViewsInv, Basics
  <2>2. CASE ~breaks
    <3>1. doubted \cap Spending(cache') \subseteq doubted'
      BY <1>12
    <3>2. Updates(cache, untold.gone, spendMap, doubted, K, gone, order, doubted')
      <4> HIDE DEF K
      <4> QED
        BY <1>3, <1>4, <1>7, <1>9, <1>15, <2>1, <3>1 DEF Updates
    <3>3. /\ IsMap(Entered(Withdrawn(spendMap, gone), order))
          /\ Owned(Entered(Withdrawn(spendMap, gone), order),
                   ((cache \cup fresh) \ gone) \cup (untold.gone \ fresh))
          /\ Knows(Entered(Withdrawn(spendMap, gone), order), (K \cup fresh) \ gone,
                   doubted' \cup Spending(untold.gone \ fresh))
      <4> HIDE DEF K
      <4> QED
        BY <1>4, <3>2, EnteredKnows
    <3>4. spendMap' = Entered(Withdrawn(spendMap, gone), order) /\ untold'.gone = untold.gone \ fresh
      BY <1>9, <1>13, <2>2
    <3>5. cache' \ untold'.spends = (K \cup fresh) \ gone
      BY <1>1, <1>5, <1>9, <1>13, <2>2 DEF Basics
    <3> HIDE DEF K
    <3> QED
      BY <1>9, <3>3, <3>4, <3>5
  <2>3. CASE breaks
    <3>1. spendMap' = spendMap /\ untold'.gone = (untold.gone \cup gone) \ fresh
      BY <1>9, <1>13, <2>3
    <3>2. Owned(spendMap', cache' \cup untold'.gone)
      BY <1>7, <1>9, <2>1, <3>1 DEF Owned
    <3>3. ASSUME NEW t \in cache' \ untold'.spends,
                 NEW o \in Inputs[t] \ (doubted' \cup Spending(untold'.gone))
          PROVE  spendMap[o] = t
      <4>1. t \in K /\ t \in cache'
        BY <1>9, <1>13, <2>3, <3>3
      <4>2. o \in Outpoint /\ o \in Spending(cache') /\ o \notin doubted /\ o \notin Contested(cache')
        BY <1>10, <1>11, <1>12, <3>3, <4>1 DEF Outpoint
      <4>3. ASSUME NEW u \in untold.gone, o \in Inputs[u] PROVE FALSE
        <5>1. u \in fresh
          BY <1>11, <3>1, <3>3, <4>3
        <5>2. t \notin fresh
          BY <1>5, <4>1
        <5> QED
          BY <1>10, <3>3, <4>1, <4>2, <4>3, <5>1, <5>2, ContestedIs
      <4>4. o \notin Spending(untold.gone)
        BY <1>11, <4>3
      <4> QED
        BY <2>1, <3>3, <4>1, <4>2, <4>4 DEF Knows
    <3>4. Knows(spendMap', cache' \ untold'.spends, doubted' \cup Spending(untold'.gone))
      BY <3>1, <3>3 DEF Knows
    <3> QED
      BY <2>1, <3>1, <3>2, <3>4
  <2> QED
    BY <2>2, <2>3
<1> QED
  BY <1>14, <1>15, <1>18, <1>19, <1>20 DEF ViewsInv

LEMMA FetchFailsStep ==
  ASSUME ViewsInv, NEW found \in SUBSET Fetchable, FetchFails(found)
  PROVE  ViewsInv'
<1>1. Basics /\ Told
  BY DEF ViewsInv
<1>2. found \in SUBSET MempoolTx /\ found \cap cache = {}
  BY <1>1 DEF Basics, Fetchable
<1>3. /\ cache' = cache \cup found /\ doubted' = Doubt(cache', {})
      /\ untold' = [untold EXCEPT !.clusters = @ \cup found, !.spends = @ \cup found]
      /\ pc' = "idle" /\ raw' = {} /\ UNCHANGED <<node, handled, clusters, spentBy, spendMap>>
      /\ Counts(TRUE)
  BY DEF FetchFails
<1>4. cache' \in SUBSET MempoolTx
  BY <1>1, <1>2, <1>3 DEF Basics
<1>5. \A X, o : o \in Spending(X) <=> \E t \in X : o \in Inputs[t]
  BY DEF Spending
<1>6. doubted' = (doubted \cup Contested(cache')) \cap Spending(cache')
  BY <1>3 DEF Doubt
<1>7. /\ untold \in [clusters : SUBSET cache, spends : SUBSET cache, gone : SUBSET MempoolTx]
      /\ untold'.clusters = untold.clusters \cup found
      /\ untold'.spends = untold.spends \cup found
      /\ untold'.gone = untold.gone
      /\ untold' = [clusters |-> untold'.clusters, spends |-> untold'.spends, gone |-> untold'.gone]
  BY <1>1, <1>3 DEF Basics
<1>8. Basics'
  <2>1. doubted' \subseteq Outpoint
    BY <1>4, <1>6 DEF Spending, Outpoint
  <2>2. rare' \in 0..MaxRare
    BY <1>1, <1>3, CountsFit DEF Basics
  <2>3. untold' \in [clusters : SUBSET cache', spends : SUBSET cache', gone : SUBSET MempoolTx]
    BY <1>3, <1>7
  <2> QED
    BY <1>1, <1>3, <1>4, <2>1, <2>2, <2>3 DEF Basics, node
<1>9. Contested(cache') \subseteq doubted'
  BY <1>5, <1>6, ContestedIs
<1>10. Told'
  <2>1. Tracked(clusters) = cache \ untold.clusters
    BY <1>1 DEF Told
  <2>2. Tracked(clusters') = cache' \ untold'.clusters
    BY <1>2, <1>3, <1>7, <2>1
  <2> QED
    BY <2>2 DEF Told
<1>11. \A t \in cache : \A o \in Inputs[t] \ doubted' : o \notin doubted
  BY <1>3, <1>5, <1>6
<1>12. Tracked(clusters) \subseteq cache
  BY <1>1 DEF Told
<1>13. LinkedBut(clusters', doubted')
  BY <1>3, <1>11, <1>12 DEF ViewsInv, LinkedBut
<1>14. KnownBut(clusters', spentBy', doubted')
  BY <1>3, <1>11, <1>12 DEF ViewsInv, KnownBut
<1>15. Owned(spendMap', cache' \cup untold'.gone)
  BY <1>3, <1>7 DEF ViewsInv, Owned
<1>16. Knows(spendMap', cache' \ untold'.spends, doubted' \cup Spending(untold'.gone))
  BY <1>2, <1>3, <1>7, <1>11 DEF ViewsInv, Knows
<1>17. Separate(clusters') /\ IsMap(spentBy') /\ IsMap(spendMap')
  BY <1>3 DEF ViewsInv
<1> QED
  BY <1>8, <1>9, <1>10, <1>13, <1>14, <1>15, <1>16, <1>17 DEF ViewsInv

LEMMA RestartStep ==
  ASSUME ViewsInv, NEW order, Ordered(order), RestartViews(order)
  PROVE  ViewsInv'
<1>1. Basics
  BY DEF ViewsInv
<1>2. PICK mempool : mempool = ToSet(order)
  OBVIOUS
<1>3. mempool \in SUBSET MempoolTx
  BY <1>2 DEF Ordered, ToSet
<1>4. /\ pc' = "idle" /\ raw' = {} /\ handled' \in handled..Len(chain)
      /\ cache' = mempool /\ clusters' = Built(order)
      /\ spentBy' = BuiltSpentBy(order) /\ spendMap' = Entered(Nobody, order)
      /\ doubted' = Contested(mempool) \cup {o \in Spending(mempool) : o[1] \in MempoolTx \ mempool}
      /\ untold' = NothingUntold /\ UNCHANGED node /\ Counts(TRUE)
  BY <1>2 DEF RestartViews
<1>5. untold' \in [clusters : SUBSET cache', spends : SUBSET cache', gone : SUBSET MempoolTx]
      /\ untold'.clusters = {} /\ untold'.spends = {} /\ untold'.gone = {}
  BY <1>4 DEF NothingUntold
<1>6. Basics'
  <2>1. doubted' \subseteq Outpoint
    BY <1>3, <1>4, ContestedIs DEF Spending, Outpoint
  <2>2. rare' \in 0..MaxRare
    BY <1>1, <1>4, CountsFit DEF Basics
  <2>3. handled' \in 0..Len(chain')
    <3>1. handled \in 0..Len(chain) /\ Len(chain) \in Nat
      BY <1>1, LenProperties DEF Basics
    <3> QED
      BY <1>4, <3>1 DEF node
  <2> QED
    BY <1>1, <1>3, <1>4, <1>5, <2>1, <2>2, <2>3 DEF Basics, node
<1>7. /\ Fits([clusters |-> Built(order), spentBy |-> BuiltSpentBy(order)], doubted')
      /\ Tracked(Built(order)) = mempool
  BY <1>2, <1>4, BuiltFits
<1>8. /\ Separate(clusters') /\ IsMap(spentBy')
      /\ LinkedBut(clusters', doubted') /\ KnownBut(clusters', spentBy', doubted')
  BY <1>4, <1>7 DEF Fits
<1>9. Told'
  <2>1. Tracked(clusters') = cache' \ untold'.clusters
    BY <1>4, <1>5, <1>7
  <2> QED
    BY <2>1 DEF Told
<1>10. ASSUME NEW o \in Outpoint
       PROVE  /\ o \notin Spending(mempool) => spendMap'[o] = None
              /\ o \in Spending(mempool) => spendMap'[o] \in mempool /\ o \in Inputs[spendMap'[o]]
  <2>1. Nobody[o] = None
    BY DEF Nobody
  <2> QED
    BY <1>2, <1>4, <2>1, EnteredIs
<1>11. IsMap(spendMap') /\ Owned(spendMap', cache' \cup untold'.gone)
  <2>1. spendMap' = [o \in Outpoint |-> spendMap'[o]]
    BY <1>4 DEF Entered
  <2>2. \A o \in Outpoint : spendMap'[o] \in MempoolTx \cup {None}
    BY <1>3, <1>10
  <2>3. spendMap' \in [Outpoint -> MempoolTx \cup {None}]
    BY <2>1, <2>2
  <2> QED
    BY <1>4, <1>10, <2>3 DEF IsMap, Owned
<1>12. Knows(spendMap', cache' \ untold'.spends, doubted' \cup Spending(untold'.gone))
  <2>1. ASSUME NEW t \in mempool, NEW o \in Inputs[t] \ doubted' PROVE spendMap'[o] = t
    <3>1. o \in Outpoint /\ o \in Spending(mempool)
      BY <1>3 DEF Outpoint, Spending
    <3>2. spendMap'[o] \in mempool /\ o \in Inputs[spendMap'[o]] /\ o \notin Contested(mempool)
      BY <1>4, <1>10, <3>1
    <3> QED
      BY <3>1, <3>2, ContestedIs
  <2> QED
    BY <1>4, <2>1 DEF Knows
<1>13. Contested(cache') \subseteq doubted'
  BY <1>4
<1> QED
  BY <1>6, <1>8, <1>9, <1>11, <1>12, <1>13 DEF ViewsInv

LEMMA ViewsInductive ==
  ASSUME ViewsInv, [ViewsNext]_viewVars
  PROVE  ViewsInv'
<1>1. CASE \E S \in SUBSET MempoolTx : PoolChanges(S) \/ Mine(S)
  BY <1>1, NodeStep
<1>2. CASE Reorg \/ ReadMempool \/ UNCHANGED viewVars
  BY <1>2, NodeStep
<1>3. CASE HandleBlock
  BY <1>3, HandleBlockStep
<1>4. CASE \E found \in SUBSET Fetchable : FetchFails(found)
  BY <1>4, FetchFailsStep
<1>5. CASE \E found \in SUBSET Fetchable :
             \E order \in SetToSeqs(found), protected, breaks \in BOOLEAN :
               UpdateMempool(order, protected, breaks)
  BY <1>5, UpdateMempoolStep
<1>6. CASE \E order \in {<<>>} \cup SetToSeqs(cache) : RestartViews(order)
  <2>1. PICK order \in {<<>>} \cup SetToSeqs(cache) : RestartViews(order)
    BY <1>6
  <2>2. cache \in SUBSET MempoolTx
    BY DEF ViewsInv, Basics
  <2>3. Ordered(order)
    BY <2>2, OrdersFit
  <2> QED
    BY <2>1, <2>3, RestartStep
<1> QED
  BY <1>1, <1>2, <1>3, <1>4, <1>5, <1>6 DEF ViewsNext

\* The inductive invariant of the clusters and the spend map holds in every behaviour.
THEOREM ViewsHold == ViewsSpec => []ViewsInv
<1>1. ViewsInit => ViewsInv
  BY ViewsInitHolds
<1>2. ViewsInv /\ [ViewsNext]_viewVars => ViewsInv'
  BY ViewsInductive
<1> QED
  BY <1>1, <1>2, PTL DEF ViewsSpec

\* For any transactions, blocks, failures and restarts, the clusters are the connected
\* components of the mempool, as far as they were told of it (cluster-mempool.ts).
THEOREM ClusteredHolds == ViewsSpec => []Clustered
<1>1. ViewsInv => Clustered
  BY ViewsInvGives
<1> QED
  BY <1>1, ViewsHold, PTL

\* And the spend map knows who spends what (addToSpendMap(), removeFromSpendMap()).
THEOREM SpendsKnownHolds == ViewsSpec => []SpendsKnown
<1>1. ViewsInv => SpendsKnown
  BY ViewsInvGives
<1> QED
  BY <1>1, ViewsHold, PTL

-----------------------------------------------------------------------------
(* The limiter                                                             *)

Busy == running \cup settled

\* A call is in one place only, and the count is that of the calls that are busy.
Counted ==
  /\ running \cap settled = {}
  /\ \A i \in 1..Len(queue) : queue[i] \notin Busy
  /\ \A i, j \in 1..Len(queue) : queue[i] = queue[j] => i = j
  /\ IsFiniteSet(Busy)
  /\ activeCount = Cardinality(Busy)
  /\ activeCount <= Concurrency

LimitInv == LimitTypeOK /\ Counted /\ NoneForgotten

-----------------------------------------------------------------------------
LEMMA MadeCalls ==
  ASSUME LimitTypeOK
  PROVE  Made = {queue[i] : i \in 1..Len(queue)} \cup Busy
BY DEF LimitTypeOK, Made, Busy, ToSet

\* The first call that waits is started with a place free, count being of the others.
LEMMA StartKeeps ==
  ASSUME LimitTypeOK, queue # <<>>, NEW others, others \subseteq Call, IsFiniteSet(others),
         running' \cup settled' = others \cup {Head(queue)}, Head(queue) \notin others,
         NEW count \in Nat, count = Cardinality(others), activeCount' = count + 1
  PROVE  IsFiniteSet(Busy') /\ activeCount' = Cardinality(Busy') /\ activeCount' \in Nat
<1>1. Busy' = others \cup {Head(queue)}
  BY DEF Busy
<1>2. IsFiniteSet(Busy') /\ Cardinality(Busy') = Cardinality(others) + 1
  BY <1>1, FS_AddElement
<1> QED
  BY <1>2

\* What is left waiting after the first has gone.
LEMMA TailKeeps ==
  ASSUME LimitTypeOK, Counted, queue # <<>>
  PROVE  /\ Head(queue) \in Call /\ Head(queue) \notin Busy
         /\ Tail(queue) \in Seq(Call) /\ Len(Tail(queue)) = Len(queue) - 1
         /\ \A i \in 1..Len(Tail(queue)) :
              Tail(queue)[i] \notin Busy /\ Tail(queue)[i] # Head(queue)
         /\ \A i, j \in 1..Len(Tail(queue)) : Tail(queue)[i] = Tail(queue)[j] => i = j
<1>1. Len(queue) \in Nat \ {0} /\ Head(queue) = queue[1]
  BY EmptySeq, LenProperties DEF LimitTypeOK
<1>2. /\ Tail(queue) \in Seq(Call) /\ Len(Tail(queue)) = Len(queue) - 1
      /\ \A i \in 1..Len(Tail(queue)) : Tail(queue)[i] = queue[i + 1]
  BY <1>1, HeadTailProperties DEF LimitTypeOK
<1>3. \A i \in 1..Len(Tail(queue)) : i + 1 \in 1..Len(queue) /\ i + 1 # 1
  BY <1>1, <1>2
<1>4. Head(queue) \in Call /\ Head(queue) \notin Busy
  BY <1>1 DEF LimitTypeOK, Counted
<1>5. \A i \in 1..Len(Tail(queue)) :
        Tail(queue)[i] \notin Busy /\ Tail(queue)[i] # Head(queue)
  BY <1>1, <1>2, <1>3 DEF Counted
<1>6. \A i, j \in 1..Len(Tail(queue)) : Tail(queue)[i] = Tail(queue)[j] => i = j
  BY <1>2, <1>3 DEF Counted
<1> QED
  BY <1>2, <1>4, <1>5, <1>6

-----------------------------------------------------------------------------
LEMMA EnqueueKeeps ==
  ASSUME LimitInv, NEW c \in Call, Enqueue(c)
  PROVE  LimitInv'
<1> USE DEF LimitInv
<1>1. /\ queue' \in Seq(Call) /\ Len(queue') = Len(queue) + 1 /\ Len(queue) \in Nat
      /\ \A i \in 1..Len(queue) : queue'[i] = queue[i]
      /\ queue'[Len(queue) + 1] = c
  BY AppendProperties, LenProperties DEF Enqueue, LimitTypeOK
<1>2. c \notin Busy /\ \A i \in 1..Len(queue) : queue[i] # c
  BY MadeCalls DEF Enqueue
<1>3. LimitTypeOK'
  BY <1>1 DEF Enqueue, LimitTypeOK
<1>4. Busy' = Busy /\ running' = running /\ settled' = settled /\ activeCount' = activeCount
  BY DEF Busy, Enqueue
<1>5. \A i \in 1..Len(queue') : i \in 1..Len(queue) \/ i = Len(queue) + 1
  BY <1>1
<1>6. \A i \in 1..Len(queue') : queue'[i] \notin Busy
  BY <1>1, <1>2, <1>5 DEF Counted
<1>7. \A i, j \in 1..Len(queue') : queue'[i] = queue'[j] => i = j
  BY <1>1, <1>2, <1>5 DEF Counted
<1>8. Counted'
  BY <1>4, <1>6, <1>7 DEF Counted
<1>9. NoneForgotten'
  BY <1>1 DEF NoneForgotten, Enqueue, LimitTypeOK
<1> QED
  BY <1>3, <1>8, <1>9

LEMMA CheckKeeps ==
  ASSUME Concurrency \in Nat, LimitInv, Check
  PROVE  LimitInv'
<1> USE DEF LimitInv
<1>0. Len(queue) \in Nat /\ (queue = <<>> => Len(queue) = 0)
  BY LenProperties DEF LimitTypeOK
<1>1. CASE Free /\ queue # <<>>
  <2>1. /\ queue' = Tail(queue) /\ running' = running \cup {Head(queue)}
        /\ settled' = settled /\ activeCount' = activeCount + 1 /\ checks' = checks - 1
    BY <1>1 DEF Check, Start
  <2>2. Busy \subseteq Call /\ Busy' = Busy \cup {Head(queue)}
    BY <2>1 DEF Busy, LimitTypeOK
  <2>3. IsFiniteSet(Busy') /\ activeCount' = Cardinality(Busy') /\ activeCount' \in Nat
    <3>1. running' \cup settled' = Busy \cup {Head(queue)}
      BY <2>1 DEF Busy
    <3>2. Head(queue) \notin Busy /\ activeCount \in Nat /\ IsFiniteSet(Busy)
      BY <1>1, TailKeeps DEF Counted, LimitTypeOK
    <3>3. activeCount = Cardinality(Busy)
      BY DEF Counted
    <3> QED
      BY <1>1, <2>1, <2>2, <3>1, <3>2, <3>3, StartKeeps
  <2>4. LimitTypeOK'
    BY <1>1, <2>1, <2>3, TailKeeps DEF LimitTypeOK, Check
  <2>5. running' \cap settled' = {}
    BY <1>1, <2>1, TailKeeps DEF Counted, Busy
  <2>6. activeCount' <= Concurrency
    BY <1>1, <2>1 DEF Free, LimitTypeOK
  <2>7. Counted'
    BY <1>1, <2>1, <2>2, <2>3, <2>5, <2>6, TailKeeps DEF Counted
  <2>8. NoneForgotten'
    BY <1>0, <1>1, <2>1, TailKeeps DEF NoneForgotten, Free, LimitTypeOK
  <2> QED
    BY <2>4, <2>7, <2>8
<1>2. CASE ~ (Free /\ queue # <<>>)
  <2>1. UNCHANGED <<queue, activeCount, running, settled>> /\ checks' = checks - 1 /\ checks > 0
    BY <1>2 DEF Check
  <2>2. LimitTypeOK' /\ Counted'
    BY <2>1 DEF LimitTypeOK, Counted, Busy
  <2>3. NoneForgotten'
    BY <1>0, <1>2, <2>1 DEF NoneForgotten, Free, Counted, LimitTypeOK
  <2> QED
    BY <2>2, <2>3
<1> QED
  BY <1>1, <1>2

LEMMA SettleKeeps ==
  ASSUME LimitInv, NEW c \in Call, Settle(c)
  PROVE  LimitInv'
<1>1. Busy' = Busy
  BY DEF Busy, Settle
<1>2. LimitTypeOK'
  BY DEF LimitInv, LimitTypeOK, Settle
<1>3. Counted'
  BY <1>1 DEF LimitInv, Counted, Settle
<1>4. NoneForgotten'
  BY DEF LimitInv, NoneForgotten, Settle
<1> QED
  BY <1>2, <1>3, <1>4 DEF LimitInv

LEMMA EndedKeeps ==
  ASSUME Concurrency \in Nat, LimitInv, NEW c \in Call, Ended(c)
  PROVE  LimitInv'
<1> USE DEF LimitInv
<1> DEFINE others == Busy \ {c}
<1>1. c \in Busy /\ c \notin running /\ settled' = settled \ {c} /\ checks' = checks
  BY DEF Busy, Counted, Ended
<1>2. /\ others \subseteq Call /\ IsFiniteSet(others)
      /\ Cardinality(others) = activeCount - 1 /\ activeCount \in Nat
      /\ activeCount - 1 \in Nat
  <2>1. IsFiniteSet(others) /\ Cardinality(others) = activeCount - 1
    BY <1>1, FS_RemoveElement DEF Counted
  <2>2. Cardinality(others) \in Nat
    BY <2>1, FS_CardinalityType
  <2>3. others \subseteq Call
    BY DEF Busy, LimitTypeOK
  <2> QED
    BY <2>1, <2>2, <2>3 DEF LimitTypeOK
<1>3. Len(queue) \in Nat /\ (queue = <<>> => Len(queue) = 0)
  BY LenProperties DEF LimitTypeOK
<1>4. CASE queue # <<>>
  <2>1. /\ queue' = Tail(queue) /\ running' = running \cup {Head(queue)}
        /\ activeCount' = (activeCount - 1) + 1
    BY <1>4 DEF Ended, After, Start
  <2>2. activeCount' = activeCount
    BY <1>2, <2>1
  <2>3. Busy' = others \cup {Head(queue)} /\ Head(queue) \notin others
    BY <1>1, <1>4, <2>1, TailKeeps DEF Busy
  <2>4. IsFiniteSet(Busy') /\ activeCount' = Cardinality(Busy')
    <3>1. running' \cup settled' = others \cup {Head(queue)}
      BY <2>3 DEF Busy
    <3> HIDE DEF others
    <3> QED
      BY <1>2, <1>4, <2>1, <2>3, <3>1, StartKeeps
  <2>5. LimitTypeOK'
    BY <1>1, <1>4, <2>1, <2>2, TailKeeps DEF LimitTypeOK
  <2>6. running' \cap settled' = {}
    BY <1>1, <1>4, <2>1, TailKeeps DEF Counted, Busy
  <2>7. Counted'
    BY <1>4, <2>1, <2>2, <2>3, <2>4, <2>6, TailKeeps DEF Counted
  <2>8. NoneForgotten'
    BY <1>1, <1>3, <1>4, <2>1, <2>2, TailKeeps DEF NoneForgotten, LimitTypeOK
  <2> QED
    BY <2>5, <2>7, <2>8
<1>5. CASE queue = <<>>
  <2>1. queue' = queue /\ running' = running /\ activeCount' = activeCount - 1
    BY <1>5 DEF Ended, After
  <2>2. Busy' = others
    BY <1>1, <2>1 DEF Busy
  <2>3. LimitTypeOK'
    BY <1>1, <1>2, <2>1 DEF LimitTypeOK
  <2>4. Counted'
    BY <1>1, <1>2, <2>1, <2>2 DEF Counted
  <2>5. NoneForgotten'
    BY <1>1, <1>3, <1>5, <2>1 DEF NoneForgotten, LimitTypeOK
  <2> QED
    BY <2>3, <2>4, <2>5
<1> QED
  BY <1>4, <1>5

\* The inductive invariant.
LEMMA LimitInductive ==
  ASSUME Concurrency \in Nat
  PROVE  LimitSpec => []LimitInv
<1>1. LimitInit => LimitInv
  BY FS_EmptySet, EmptySeq DEF LimitInit, LimitInv, LimitTypeOK, Counted, Busy, NoneForgotten
<1>2. LimitInv /\ [LimitNext]_limitVars => LimitInv'
  <2> SUFFICES ASSUME LimitInv, [LimitNext]_limitVars PROVE LimitInv'
    OBVIOUS
  <2>1. ASSUME Check PROVE LimitInv'
    BY <2>1, CheckKeeps
  <2>2. ASSUME NEW c \in Call, Enqueue(c) \/ Settle(c) \/ Ended(c) PROVE LimitInv'
    BY <2>2, EnqueueKeeps, SettleKeeps, EndedKeeps
  <2>3. ASSUME UNCHANGED limitVars PROVE LimitInv'
    BY <2>3 DEF limitVars, LimitInv, LimitTypeOK, Counted, Busy, NoneForgotten
  <2> QED
    BY <2>1, <2>2, <2>3 DEF LimitNext
<1> QED
  BY <1>1, <1>2, PTL DEF LimitSpec

-----------------------------------------------------------------------------
\* At most Concurrency calls run, however many are made and however their microtasks,
\* answers and successors interleave (p-limit.ts).
THEOREM AtMostLimitHolds ==
  ASSUME Concurrency \in Nat
  PROVE  LimitSpec => []AtMostLimit
<1>1. LimitInv => AtMostLimit
  <2> SUFFICES ASSUME LimitInv PROVE AtMostLimit
    OBVIOUS
  <2>1. Cardinality(running) <= Cardinality(Busy) /\ IsFiniteSet(running)
    BY FS_Subset DEF LimitInv, Counted, Busy
  <2>2. Cardinality(running) \in Nat /\ Cardinality(Busy) \in Nat
    BY <2>1, FS_CardinalityType DEF LimitInv, Counted
  <2> QED
    BY <2>1, <2>2 DEF LimitInv, Counted, AtMostLimit
<1> QED
  BY <1>1, LimitInductive, PTL

\* With a place free, a comparison is to come for every call that waits.
THEOREM NoneForgottenHolds ==
  ASSUME Concurrency \in Nat
  PROVE  LimitSpec => []NoneForgotten
<1>1. LimitInv => NoneForgotten
  BY DEF LimitInv
<1> QED
  BY <1>1, LimitInductive, PTL

-----------------------------------------------------------------------------
(* The order of a cluster: what recursion makes                            *)

\* A sequence of states, each from the one before it, number i in D[i].
Stages(f, D, x, step, n) ==
  /\ DOMAIN f = 0..n /\ f = [i \in 0..n |-> f[i]]
  /\ f[0] = x
  /\ \A i \in 0..n : f[i] \in D[i]
  /\ \A i \in 1..n : f[i] = step[i][f[i - 1]]

\* Recursive functions on 0..n exist.
LEMMA StagedRecursion ==
  ASSUME NEW n \in Nat, NEW D, NEW x \in D[0], NEW step,
         \A i \in 1..n : \A d \in D[i - 1] : step[i][d] \in D[i]
  PROVE  \E f : Stages(f, D, x, step, n)
<1> DEFINE S == {m \in 0..n : \E f : Stages(f, D, x, step, m)}
<1>1. 0 \in S
  <2> DEFINE f == [i \in 0..0 |-> x]
  <2>1. Stages(f, D, x, step, 0)
    BY DEF Stages
  <2> QED
    BY <2>1
<1>2. ASSUME NEW m \in 1..n, m - 1 \in S PROVE m \in S
  <2>1. PICK f : Stages(f, D, x, step, m - 1)
    BY <1>2
  <2> DEFINE g == [i \in 0..m |-> IF i = m THEN step[m][f[m - 1]] ELSE f[i]]
  <2>2. m \in 0..n /\ m - 1 \in 0..(m - 1) /\ \A i \in 0..m : i # m => i \in 0..(m - 1)
    OBVIOUS
  <2>3. f[m - 1] \in D[m - 1]
    BY <2>1, <2>2 DEF Stages
  <2>4. step[m][f[m - 1]] \in D[m]
    BY <2>3
  <2>5. g[0] = x
    BY <2>1, <2>2 DEF Stages
  <2>6. ASSUME NEW i \in 0..m PROVE g[i] \in D[i]
    <3>1. CASE i = m
      BY <2>4, <3>1
    <3>2. CASE i # m
      <4>1. g[i] = f[i] /\ i \in 0..(m - 1)
        BY <2>2, <3>2
      <4> HIDE DEF g
      <4> QED
        BY <2>1, <4>1 DEF Stages
    <3> QED
      BY <3>1, <3>2
  <2>7. ASSUME NEW i \in 1..m PROVE g[i] = step[i][g[i - 1]]
    <3>1. i \in 0..m /\ i - 1 \in 0..m /\ i - 1 # m
      OBVIOUS
    <3>2. g[i - 1] = f[i - 1]
      BY <3>1
    <3>3. CASE i = m
      BY <3>1, <3>2, <3>3
    <3>4. CASE i # m
      <4>1. g[i] = f[i] /\ i \in 1..(m - 1)
        BY <3>1, <3>4
      <4> HIDE DEF g
      <4> QED
        BY <2>1, <3>2, <4>1 DEF Stages
    <3> QED
      BY <3>3, <3>4
  <2>8. DOMAIN g = 0..m /\ g = [i \in 0..m |-> g[i]]
    OBVIOUS
  <2> HIDE DEF g
  <2>9. Stages(g, D, x, step, m)
    BY <2>5, <2>6, <2>7, <2>8 DEF Stages
  <2> QED
    BY <2>2, <2>9
<1> HIDE DEF S
<1>3. n \in S
  <2>1. \A i \in 0..n : i \in S
    BY <1>1, <1>2, Upwards
  <2> QED
    BY <2>1
<1> QED
  BY <1>3 DEF S

Course(f, D, x, step, n) ==
  /\ f \in [0..n -> D]
  /\ f[0] = x
  /\ \A i \in 1..n : f[i] = step[i][f[i - 1]]

LEMMA Recursion ==
  ASSUME NEW n \in Nat, NEW D, NEW x \in D, NEW step,
         \A i \in 1..n : \A d \in D : step[i][d] \in D
  PROVE  \E f : Course(f, D, x, step, n)
<1> DEFINE E == [i \in 0..n |-> D]
<1>1. E[0] = D /\ \A i \in 1..n : E[i - 1] = D /\ E[i] = D
  <2>1. 0 \in 0..n /\ \A i \in 1..n : i - 1 \in 0..n /\ i \in 0..n
    OBVIOUS
  <2> QED
    BY <2>1
<1>2. \A i \in 0..n : E[i] = D
  OBVIOUS
<1> HIDE DEF E
<1>3. \E f : Stages(f, E, x, step, n)
  BY <1>1, StagedRecursion
<1>4. PICK f : Stages(f, E, x, step, n)
  BY <1>3
<1>5. f \in [0..n -> D]
  BY <1>2, <1>4 DEF Stages
<1>6. Course(f, D, x, step, n)
  BY <1>4, <1>5 DEF Course, Stages
<1> QED
  BY <1>6

\* An order that tells any two elements of S apart.
Total(less, S) ==
  /\ \A x, y \in S : x # y => <<x, y>> \in less \/ <<y, x>> \in less
  /\ \A x, y, z \in S : <<x, y>> \in less /\ <<y, z>> \in less => <<x, z>> \in less

\* The first element of T.
IsFirst(x, T, less) == x \in T /\ \A y \in T \ {x} : <<x, y>> \in less

LEMMA FirstExists ==
  ASSUME NEW S, NEW less, IsFiniteSet(S), S # {}, Total(less, S)
  PROVE  \E x : IsFirst(x, S, less)
<1> DEFINE Bad == {T \in SUBSET S : T # {} /\ ~ \E x : IsFirst(x, T, less)}
           N == {n \in Nat : \E T \in Bad : Cardinality(T) = n}
<1>1. SUFFICES ASSUME Bad # {} PROVE FALSE
  OBVIOUS
<1>2. \A T \in SUBSET S : IsFiniteSet(T) /\ Cardinality(T) \in Nat
  BY FS_Subset, FS_CardinalityType
<1>3. N # {} /\ N \in SUBSET Nat
  BY <1>1, <1>2
<1>4. PICK n \in N : \A m \in N : n <= m
  BY <1>3, LeastNumber
<1>5. PICK T \in Bad : Cardinality(T) = n
  OBVIOUS
<1>6. PICK z \in T : TRUE
  OBVIOUS
<1>7. T \ {z} \notin Bad
  <2>1. Cardinality(T \ {z}) = n - 1
    BY <1>2, <1>5, FS_RemoveElement
  <2>2. n \in Nat /\ ~(n <= n - 1)
    OBVIOUS
  <2>3. n - 1 \notin N
    BY <1>4, <2>2
  <2>4. Cardinality(T \ {z}) \in Nat
    BY <1>2
  <2> QED
    BY <2>1, <2>3, <2>4
<1>8. CASE T = {z}
  <2>1. IsFirst(z, T, less)
    BY <1>8 DEF IsFirst
  <2> QED
    BY <2>1
<1>9. CASE T # {z}
  <2>1. T \ {z} # {} /\ T \ {z} \in SUBSET S
    BY <1>6, <1>9
  <2>2. PICK x : IsFirst(x, T \ {z}, less)
    BY <1>7, <2>1
  <2>3. x \in S /\ z \in S /\ x # z
    BY <2>2 DEF IsFirst
  <2>4. CASE <<x, z>> \in less
    <3>1. IsFirst(x, T, less)
      BY <2>2, <2>4 DEF IsFirst
    <3> QED
      BY <3>1
  <2>5. CASE <<z, x>> \in less
    <3>1. ASSUME NEW y \in T \ {z} PROVE <<z, y>> \in less
      <4>1. CASE y = x
        BY <2>5, <4>1
      <4>2. CASE y # x
        <5>1. <<x, y>> \in less /\ y \in S
          BY <2>2, <4>2 DEF IsFirst
        <5> QED
          BY <2>3, <2>5, <5>1 DEF Total
      <4> QED
        BY <4>1, <4>2
    <3>2. IsFirst(z, T, less)
      BY <3>1 DEF IsFirst
    <3> QED
      BY <3>2
  <2> QED
    BY <2>3, <2>4, <2>5 DEF Total
<1> QED
  BY <1>8, <1>9

-----------------------------------------------------------------------------
(* Feerates                                                                *)

\* What the transactions pay and weigh.
Rated == rate \in [Txs -> Int \X (Nat \ {0})]

LEMMA SumsAre ==
  ASSUME Rated, NEW S, NEW k \in {1, 2}
  PROVE  /\ Sums(S, k) \in [0..Size -> Int]
         /\ Sums(S, k)[0] = 0
         /\ \A i \in 1..Size :
              Sums(S, k)[i] = Sums(S, k)[i - 1] + (IF i \in S THEN rate[i][k] ELSE 0)
<1> DEFINE More(i) == IF i \in S THEN rate[i][k] ELSE 0
           step == [i \in 1..Size |-> [n \in Int |-> n + More(i)]]
           Rec(f) == f = [i \in 0..Size |-> IF i = 0 THEN 0
                            ELSE f[i - 1] + (IF i \in S THEN rate[i][k] ELSE 0)]
<1>1. Size \in Nat
  BY LinearAssumption
<1>2. \A i \in 1..Size : More(i) \in Int
  BY DEF Rated, Txs
<1>3. \A i \in 1..Size : \A n \in Int : step[i][n] = n + More(i)
  OBVIOUS
<1>4. \A i \in 1..Size : \A n \in Int : step[i][n] \in Int
  BY <1>2, <1>3
<1>5. PICK f : Course(f, Int, 0, step, Size)
  <2> HIDE DEF step
  <2>1. 0 \in Int
    OBVIOUS
  <2> QED
    BY <1>1, <1>4, <2>1, Recursion
<1>6. Rec(f)
  <2>1. \A i \in 0..Size : f[i] = IF i = 0 THEN 0 ELSE f[i - 1] + More(i)
    <3> TAKE i \in 0..Size
    <3>1. i # 0 => i \in 1..Size /\ i - 1 \in 0..Size
      BY <1>1
    <3> HIDE DEF step, More
    <3> QED
      BY <1>3, <1>5, <3>1 DEF Course
  <2>2. f = [i \in 0..Size |-> f[i]]
    BY <1>5 DEF Course
  <2> QED
    BY <2>1, <2>2
<1>7. Rec(Sums(S, k))
  BY <1>6 DEF Sums
<1> DEFINE sum == Sums(S, k)
<1>8. DOMAIN sum = 0..Size /\ sum[0] = 0
  BY <1>1, <1>7
<1>9. ASSUME NEW i \in 1..Size PROVE sum[i] = sum[i - 1] + More(i)
  <2>1. i \in 0..Size /\ i # 0
    BY <1>1
  <2> QED
    BY <1>7, <2>1
<1> HIDE DEF sum, More, Rec
<1>10. \A i \in 0..Size : i \in {n \in 0..Size : sum[n] \in Int}
  <2> DEFINE Good == {n \in 0..Size : sum[n] \in Int}
  <2>1. 0 \in Good
    BY <1>1, <1>8
  <2>2. \A i \in 1..Size : i - 1 \in Good => i \in Good
    BY <1>2, <1>9
  <2> HIDE DEF Good
  <2>3. \A i \in 0..Size : i \in Good
    BY <1>1, <2>1, <2>2, Upwards
  <2> QED
    BY <2>3 DEF Good
<1>11. sum \in [0..Size -> Int]
  <2>1. sum = [i \in 0..Size |-> sum[i]]
    BY <1>7 DEF sum, Rec
  <2> QED
    BY <1>10, <2>1
<1> QED
  BY <1>8, <1>9, <1>11 DEF sum, More

LEMMA FeeIs ==
  ASSUME Rated, NEW S
  PROVE  Fee(S) \in Int
<1>1. Size \in 0..Size
  BY LinearAssumption
<1>2. Sums(S, 1) \in [0..Size -> Int]
  BY SumsAre
<1> QED
  BY <1>1, <1>2 DEF Fee

LEMMA WeightIs ==
  ASSUME Rated, NEW S \in SUBSET Txs, S # {}
  PROVE  Weight(S) \in Nat \ {0}
<1> DEFINE sum == Sums(S, 2)
           Good == {n \in 0..Size : sum[n] >= 0 /\ ((\E t \in S : t <= n) => sum[n] > 0)}
<1>1. Size \in Nat /\ Size \in 0..Size
  BY LinearAssumption
<1>2. sum \in [0..Size -> Int]
  BY SumsAre
<1>3. sum[0] = 0
  BY SumsAre
<1>4. \A i \in 1..Size : sum[i] = sum[i - 1] + (IF i \in S THEN rate[i][2] ELSE 0)
  BY SumsAre
<1> HIDE DEF sum
<1>5. 0 \in Good
  BY <1>1, <1>3 DEF Txs
<1>6. ASSUME NEW i \in 1..Size, i - 1 \in Good PROVE i \in Good
  <2>1. sum[i - 1] \in Int /\ sum[i] \in Int /\ sum[i - 1] >= 0
    BY <1>2, <1>6
  <2>2. CASE i \in S
    <3>1. rate[i][2] \in Nat \ {0}
      BY DEF Rated, Txs
    <3>2. sum[i] > 0 /\ sum[i] >= 0 /\ i \in 0..Size
      BY <1>4, <2>1, <2>2, <3>1
    <3> QED
      BY <3>2
  <2>3. CASE i \notin S
    <3>1. sum[i] = sum[i - 1]
      BY <1>4, <2>1, <2>3
    <3>2. (\E t \in S : t <= i) => \E t \in S : t <= i - 1
      BY <2>3 DEF Txs
    <3> QED
      BY <1>6, <2>1, <3>1, <3>2
  <2> QED
    BY <2>2, <2>3
<1> HIDE DEF Good
<1>7. \A i \in 0..Size : i \in Good
  BY <1>1, <1>5, <1>6, Upwards
<1>8. sum[Size] > 0
  <2>1. \E t \in S : t <= Size
    <3>1. PICK t \in S : TRUE
      OBVIOUS
    <3>2. t \in 1..Size
      BY DEF Txs
    <3> QED
      BY <1>1, <3>2
  <2> QED
    BY <1>1, <1>7, <2>1 DEF Good
<1> QED
  BY <1>1, <1>2, <1>8 DEF Weight, sum

\* Cross products compare like fractions.
LEMMA Fractions ==
  ASSUME NEW a \in Int, NEW b \in Int, NEW c \in Int,
         NEW u \in Nat \ {0}, NEW v \in Nat \ {0}, NEW w \in Nat \ {0},
         b * u <= a * v, c * v <= b * w
  PROVE  c * u <= a * w
OBVIOUS
\* Transactions to compare: some of the cluster.
Side == (SUBSET Txs) \ {{}}

LEMMA HigherIs ==
  ASSUME Rated, NEW A \in Side, NEW B \in Side, NEW C \in Side
  PROVE  /\ ~ (Higher(A, B) /\ Higher(B, A))
         /\ ~ Higher(B, A) /\ ~ Higher(C, B) => ~ Higher(C, A)
         /\ Higher(A, B) /\ ~ Higher(C, B) => Higher(A, C)
         /\ ~ Higher(B, A) /\ Higher(B, C) => Higher(A, C)
<1>1. /\ Fee(A) \in Int /\ Fee(B) \in Int /\ Fee(C) \in Int
  BY FeeIs
<1>2. Weight(A) \in Nat \ {0} /\ Weight(B) \in Nat \ {0} /\ Weight(C) \in Nat \ {0}
  BY WeightIs DEF Side
<1>3. \A X, Y \in {A, B, C} : ~ Higher(X, Y) <=> Fee(X) * Weight(Y) <= Fee(Y) * Weight(X)
  BY <1>1, <1>2 DEF Higher
<1>4. ~ (Higher(A, B) /\ Higher(B, A))
  BY <1>1, <1>2 DEF Higher
<1>5. ASSUME NEW X \in {A, B, C}, NEW Y \in {A, B, C}, NEW Z \in {A, B, C},
             ~ Higher(Y, X), ~ Higher(Z, Y)
      PROVE  ~ Higher(Z, X)
  <2>1. Fee(Y) * Weight(X) <= Fee(X) * Weight(Y) /\ Fee(Z) * Weight(Y) <= Fee(Y) * Weight(Z)
    BY <1>3, <1>5
  <2>2. /\ Fee(X) \in Int /\ Fee(Y) \in Int /\ Fee(Z) \in Int
        /\ Weight(X) \in Nat \ {0} /\ Weight(Y) \in Nat \ {0} /\ Weight(Z) \in Nat \ {0}
    BY <1>1, <1>2
  <2>3. Fee(Z) * Weight(X) <= Fee(X) * Weight(Z)
    BY <2>1, <2>2, Fractions
  <2> QED
    BY <1>3, <2>3
<1>6. ASSUME Higher(A, B), ~ Higher(C, B), ~ Higher(A, C) PROVE FALSE
  BY <1>5, <1>6
<1>7. ASSUME ~ Higher(B, A), Higher(B, C), ~ Higher(A, C) PROVE FALSE
  BY <1>5, <1>7
<1> QED
  BY <1>4, <1>5, <1>6, <1>7

LEMMA LastOrderIs ==
  ASSUME NEW A \in Side
  PROVE  LastOrder(A) \in Nat /\ \E t \in A : Order[t] = LastOrder(A)
<1> DEFINE less == {e \in A \X A : Order[e[1]] > Order[e[2]]}
<1>1. \A t \in A : t \in Txs /\ Order[t] \in Nat
  BY LinearAssumption DEF Side
<1>2. IsFiniteSet(A)
  <2>1. IsFiniteSet(Txs)
    BY LinearAssumption, FS_Interval DEF Txs
  <2> QED
    BY <2>1, FS_Subset DEF Side
<1>3. Total(less, A)
  <2>1. ASSUME NEW x \in A, NEW y \in A, x # y PROVE <<x, y>> \in less \/ <<y, x>> \in less
    <3>1. Order[x] # Order[y]
      BY <1>1, <2>1, LinearAssumption
    <3> QED
      BY <1>1, <3>1
  <2>2. ASSUME NEW x \in A, NEW y \in A, NEW z \in A, <<x, y>> \in less, <<y, z>> \in less
        PROVE  <<x, z>> \in less
    BY <1>1, <2>2
  <2> QED
    BY <2>1, <2>2 DEF Total
<1>4. PICK t : IsFirst(t, A, less)
  BY <1>2, <1>3, FirstExists DEF Side
<1>5. t \in A /\ \A u \in A : Order[u] <= Order[t]
  <2>1. t \in A /\ \A u \in A \ {t} : <<t, u>> \in less
    BY <1>4 DEF IsFirst
  <2>2. \A u \in A \ {t} : Order[t] > Order[u]
    BY <2>1
  <2> HIDE DEF less
  <2>3. ASSUME NEW u \in A PROVE Order[u] <= Order[t]
    <3>1. Order[u] \in Nat /\ Order[t] \in Nat
      BY <1>1, <2>1
    <3> QED
      BY <2>2, <3>1
  <2> QED
    BY <2>1, <2>3
<1>6. \E n \in {Order[u] : u \in A} : \A u \in A : Order[u] <= n
  BY <1>5
<1>7. LastOrder(A) \in {Order[u] : u \in A}
  BY <1>6 DEF LastOrder
<1> QED
  BY <1>1, <1>7

LEMMA LastOrdersDiffer ==
  ASSUME NEW A \in Side, NEW B \in Side, A \cap B = {}
  PROVE  LastOrder(A) # LastOrder(B)
<1>1. PICK t \in A : Order[t] = LastOrder(A)
  BY LastOrderIs
<1>2. PICK u \in B : Order[u] = LastOrder(B)
  BY LastOrderIs
<1>3. t \in Txs /\ u \in Txs /\ t # u
  BY DEF Side
<1> QED
  BY <1>1, <1>2, <1>3, LinearAssumption

\* The elements of K by the feerates of their transactions, then as `rest` has it.
ByRate(K, at, rest) ==
  {e \in K \X K : \/ Higher(at[e[1]], at[e[2]])
                  \/ ~ Higher(at[e[2]], at[e[1]]) /\ e \in rest}

LEMMA ByRateTotal ==
  ASSUME Rated, NEW K, NEW at \in [K -> Side], NEW rest, Total(rest, K)
  PROVE  Total(ByRate(K, at, rest), K)
<1> DEFINE less == ByRate(K, at, rest)
<1>1. \A x, y \in K : <<x, y>> \in less <=>
        \/ Higher(at[x], at[y])
        \/ ~ Higher(at[y], at[x]) /\ <<x, y>> \in rest
  BY DEF ByRate
<1> HIDE DEF less
<1>2. \A x, y \in K : x # y => <<x, y>> \in less \/ <<y, x>> \in less
  BY <1>1 DEF Total
<1>3. ASSUME NEW x \in K, NEW y \in K, NEW z \in K, <<x, y>> \in less, <<y, z>> \in less
      PROVE  <<x, z>> \in less
  <2> DEFINE A == at[x]  B == at[y]  C == at[z]
  <2>1. A \in Side /\ B \in Side /\ C \in Side
    OBVIOUS
  <2>2. ~ Higher(B, A) /\ ~ Higher(C, B)
    BY <1>1, <1>3, <2>1, HigherIs
  <2>3. CASE Higher(A, B)
    <3>1. Higher(A, C)
      BY <2>1, <2>2, <2>3, HigherIs
    <3> QED
      BY <1>1, <3>1
  <2>4. CASE Higher(B, C)
    <3>1. Higher(A, C)
      BY <2>1, <2>2, <2>4, HigherIs
    <3> QED
      BY <1>1, <3>1
  <2>5. CASE ~ Higher(A, B) /\ ~ Higher(B, C)
    <3>1. <<x, y>> \in rest /\ <<y, z>> \in rest
      BY <1>1, <1>3, <2>5
    <3>2. <<x, z>> \in rest
      BY <3>1 DEF Total
    <3>3. ~ Higher(C, A)
      BY <2>1, <2>2, HigherIs
    <3> QED
      BY <1>1, <3>2, <3>3
  <2> QED
    BY <2>3, <2>4, <2>5
<1> QED
  BY <1>2, <1>3 DEF Total, less

\* Ties by weight, then by the last transaction.
Heavier(K, at) ==
  {e \in K \X K : \/ Weight(at[e[1]]) > Weight(at[e[2]])
                  \/ /\ Weight(at[e[1]]) = Weight(at[e[2]])
                     /\ LastOrder(at[e[1]]) < LastOrder(at[e[2]])}
Lighter(K, at) ==
  {e \in K \X K : \/ Weight(at[e[1]]) < Weight(at[e[2]])
                  \/ /\ Weight(at[e[1]]) = Weight(at[e[2]])
                     /\ LastOrder(at[e[1]]) < LastOrder(at[e[2]])}

LEMMA TiesTotal ==
  ASSUME Rated, NEW K, NEW at \in [K -> Side],
         \A x, y \in K : x # y => at[x] \cap at[y] = {}
  PROVE  Total(Heavier(K, at), K) /\ Total(Lighter(K, at), K)
<1>1. \A x \in K : Weight(at[x]) \in Nat /\ LastOrder(at[x]) \in Nat
  BY WeightIs, LastOrderIs DEF Side
<1>2. \A x, y \in K : x # y => LastOrder(at[x]) # LastOrder(at[y])
  BY LastOrdersDiffer
<1> DEFINE W(x) == Weight(at[x])
           L(x) == LastOrder(at[x])
           heavier == Heavier(K, at)
           lighter == Lighter(K, at)
<1>3. \A x, y \in K : /\ <<x, y>> \in heavier <=> W(x) > W(y) \/ (W(x) = W(y) /\ L(x) < L(y))
                      /\ <<x, y>> \in lighter <=> W(x) < W(y) \/ (W(x) = W(y) /\ L(x) < L(y))
  BY DEF Heavier, Lighter
<1>4. \A x \in K : W(x) \in Nat /\ L(x) \in Nat
  BY <1>1
<1>5. \A x, y \in K : x # y => L(x) # L(y)
  BY <1>2
<1> HIDE DEF W, L, heavier, lighter
<1> QED
  BY <1>3, <1>4, <1>5 DEF Total, heavier, lighter
-----------------------------------------------------------------------------
(* Drawing one after the other                                             *)

\* Nothing in S waits for itself, and any two differ.
Sortable(S, before, less) ==
  /\ IsFiniteSet(S)
  /\ \A T \in (SUBSET S) \ {{}} : Ready(T, before) # {}
  /\ Total(less, S)

LEMMA FirstIs ==
  ASSUME NEW S, NEW before, NEW less, Sortable(S, before, less), NEW T \in (SUBSET S) \ {{}}
  PROVE  IsFirst(First(T, before, less), Ready(T, before), less)
<1> DEFINE R == Ready(T, before)
<1>1. R \in SUBSET S /\ R # {}
  BY DEF Ready, Sortable
<1>2. IsFiniteSet(R) /\ Total(less, R)
  <2>1. IsFiniteSet(R)
    BY <1>1, FS_Subset DEF Sortable
  <2>2. Total(less, R)
    BY <1>1 DEF Sortable, Total
  <2> QED
    BY <2>1, <2>2
<1> HIDE DEF R
<1>3. \E x : IsFirst(x, R, less)
  BY <1>1, <1>2, FirstExists
<1>4. \E x \in R : \A y \in R \ {x} : <<x, y>> \in less
  BY <1>3 DEF IsFirst
<1>5. First(T, before, less) = CHOOSE x \in R : \A y \in R \ {x} : <<x, y>> \in less
  BY DEF First, R
<1>6. First(T, before, less) \in R
      /\ \A y \in R \ {First(T, before, less)} : <<First(T, before, less), y>> \in less
  BY <1>4, <1>5, Zenon
<1> QED
  BY <1>6 DEF IsFirst, R

\* Each turn takes one away.
Shrinks(left, S, before, less, n) ==
  /\ left \in [0..n -> SUBSET S]
  /\ left[0] = S
  /\ \A i \in 0..n : Cardinality(left[i]) = n - i
  /\ \A i \in 1..n :
       /\ IsFirst(First(left[i - 1], before, less), Ready(left[i - 1], before), less)
       /\ left[i] = left[i - 1] \ {First(left[i - 1], before, less)}

LEMMA LeftIs ==
  ASSUME NEW S, NEW before, NEW less, Sortable(S, before, less)
  PROVE  Shrinks(Left(S, before, less), S, before, less, Cardinality(S))
<1> DEFINE n == Cardinality(S)
           Turn(T) == IF Ready(T, before) = {} THEN T ELSE T \ {First(T, before, less)}
           step == [i \in 1..n |-> [T \in SUBSET S |-> Turn(T)]]
           Rec(f) == f = [i \in 0..Cardinality(S) |->
                            IF i = 0 THEN S
                            ELSE IF Ready(f[i - 1], before) = {} THEN f[i - 1]
                                 ELSE f[i - 1] \ {First(f[i - 1], before, less)}]
<1>1. n \in Nat
  BY FS_CardinalityType DEF Sortable
<1>2. \A i \in 1..n : \A T \in SUBSET S : step[i][T] = Turn(T)
  OBVIOUS
<1>3. \A i \in 1..n : \A T \in SUBSET S : step[i][T] \in SUBSET S
  <2>1. \A T \in SUBSET S : Turn(T) \in SUBSET S
    OBVIOUS
  <2> HIDE DEF step, Turn
  <2> QED
    BY <1>2, <2>1
<1>4. PICK f : Course(f, SUBSET S, S, step, n)
  <2> HIDE DEF step, n
  <2>1. S \in SUBSET S
    OBVIOUS
  <2> QED
    BY <1>1, <1>3, <2>1, Recursion
<1> HIDE DEF step
<1>5. Rec(f)
  <2>1. \A i \in 0..n : f[i] = IF i = 0 THEN S ELSE Turn(f[i - 1])
    <3> TAKE i \in 0..n
    <3>1. i # 0 => i \in 1..n /\ i - 1 \in 0..n
      BY <1>1
    <3> HIDE DEF Turn, n
    <3> QED
      BY <1>2, <1>4, <3>1 DEF Course
  <2>2. f = [i \in 0..n |-> f[i]]
    BY <1>4 DEF Course
  <2> QED
    BY <2>1, <2>2
<1>6. Rec(Left(S, before, less))
  BY <1>5 DEF Left
<1> DEFINE left == Left(S, before, less)
<1>7. DOMAIN left = 0..n /\ left[0] = S
  BY <1>1, <1>6
<1>8. ASSUME NEW i \in 1..n PROVE left[i] = Turn(left[i - 1])
  <2>1. i \in 0..n /\ i # 0
    BY <1>1
  <2> QED
    BY <1>6, <2>1
<1> HIDE DEF Turn, Rec, left, n
<1>9. \A T \in (SUBSET S) \ {{}} : /\ Turn(T) = T \ {First(T, before, less)}
                                   /\ IsFirst(First(T, before, less), Ready(T, before), less)
                                   /\ First(T, before, less) \in T
  <2> TAKE T \in (SUBSET S) \ {{}}
  <2>1. IsFirst(First(T, before, less), Ready(T, before), less)
    BY FirstIs
  <2>2. First(T, before, less) \in T /\ Ready(T, before) # {}
    BY <2>1 DEF IsFirst, Ready
  <2> QED
    BY <2>1, <2>2 DEF Turn
<1> DEFINE Good == {i \in 0..n : left[i] \in SUBSET S /\ Cardinality(left[i]) = n - i}
<1>10. 0 \in Good
  BY <1>1, <1>7 DEF n
<1>11. ASSUME NEW i \in 1..n, i - 1 \in Good
       PROVE  i \in Good /\ left[i - 1] \in (SUBSET S) \ {{}}
  <2> DEFINE T == left[i - 1]
  <2>1. T \in SUBSET S /\ Cardinality(T) = n - (i - 1)
    BY <1>11
  <2>2. Cardinality({}) = 0
    BY FS_EmptySet
  <2>3. T # {} /\ IsFiniteSet(T)
    <3>1. n - (i - 1) # 0
      BY <1>1
    <3>2. IsFiniteSet(T)
      BY <2>1, FS_Subset DEF Sortable
    <3> QED
      BY <2>1, <2>2, <3>1, <3>2
  <2>4. left[i] = T \ {First(T, before, less)} /\ First(T, before, less) \in T
    BY <1>8, <1>9, <2>1, <2>3
  <2> HIDE DEF T
  <2>5. Cardinality(left[i]) = Cardinality(T) - 1
    BY <2>3, <2>4, FS_RemoveElement
  <2>6. i \in 0..n /\ (n - (i - 1)) - 1 = n - i
    BY <1>1
  <2> QED
    BY <2>1, <2>3, <2>4, <2>5, <2>6 DEF T
<1>12. \A i \in 0..n : i \in Good
  <2> HIDE DEF Good
  <2> QED
    BY <1>1, <1>10, <1>11, Upwards
<1>13. left \in [0..n -> SUBSET S]
  <2>1. left = [i \in 0..n |-> left[i]]
    BY <1>6 DEF left, n, Rec
  <2> QED
    BY <1>12, <2>1
<1>14. ASSUME NEW i \in 1..n
       PROVE  /\ IsFirst(First(left[i - 1], before, less), Ready(left[i - 1], before), less)
              /\ left[i] = left[i - 1] \ {First(left[i - 1], before, less)}
  <2>1. i - 1 \in 0..n
    BY <1>1
  <2>2. left[i - 1] \in (SUBSET S) \ {{}}
    BY <1>11, <1>12, <2>1
  <2> QED
    BY <1>8, <1>9, <2>2
<1> QED
  BY <1>7, <1>12, <1>13, <1>14 DEF Shrinks, left, n
LEMMA LeftShrinks ==
  ASSUME NEW S, NEW before, NEW less, NEW n \in Nat, NEW left, Shrinks(left, S, before, less, n),
         NEW i \in 0..n, NEW k \in 0..n, i <= k
  PROVE  left[k] \subseteq left[i]
<1> DEFINE Good == {j \in 0..n : i <= j => left[j] \subseteq left[i]}
<1>1. 0 \in Good
  <2>1. i <= 0 => i = 0
    OBVIOUS
  <2> QED
    BY <2>1
<1>2. ASSUME NEW j \in 1..n, j - 1 \in Good PROVE j \in Good
  <2>1. j \in 0..n /\ (i <= j => i = j \/ i <= j - 1)
    OBVIOUS
  <2>2. left[j] \subseteq left[j - 1]
    BY DEF Shrinks
  <2> QED
    BY <1>2, <2>1, <2>2
<1> HIDE DEF Good
<1>3. \A j \in 0..n : j \in Good
  BY <1>1, <1>2, Upwards
<1> QED
  BY <1>3 DEF Good

\* S in an order: nothing before what it waits for, and what comes next is less or waited.
Drains(D, S, before, less, n) ==
  /\ D \in [1..n -> S]
  /\ \A x \in S : \E i \in 1..n : D[i] = x
  /\ \A i, j \in 1..n : i < j => D[i] # D[j] /\ <<D[j], D[i]>> \notin before
  /\ \A i \in 1..(n - 1) : <<D[i], D[i + 1]>> \in less \/ <<D[i], D[i + 1]>> \in before

LEMMA DrainedIs ==
  ASSUME NEW S, NEW before, NEW less, Sortable(S, before, less)
  PROVE  Drains(Drained(S, before, less), S, before, less, Cardinality(S))
<1> DEFINE n == Cardinality(S)
           left == Left(S, before, less)
           D == Drained(S, before, less)
<1>1. n \in Nat
  BY FS_CardinalityType DEF Sortable
<1>2. Shrinks(left, S, before, less, n)
  BY LeftIs
<1>3. D = [i \in 1..(n - Cardinality(left[n])) |-> First(left[i - 1], before, less)]
  BY DEF Drained
<1> HIDE DEF n, left, D
<1>4. n - Cardinality(left[n]) = n
  <2>1. n \in 0..n /\ n - n = 0
    BY <1>1
  <2>2. Cardinality(left[n]) = 0
    BY <1>2, <2>1 DEF Shrinks
  <2> QED
    BY <1>1, <2>2
<1>5. \A i \in 1..n : D[i] = First(left[i - 1], before, less)
  BY <1>3, <1>4
<1>6. ASSUME NEW i \in 1..n
      PROVE  /\ i - 1 \in 0..n /\ i \in 0..n
             /\ IsFirst(D[i], Ready(left[i - 1], before), less)
             /\ left[i] = left[i - 1] \ {D[i]}
             /\ left[i - 1] \subseteq S
             /\ D[i] \in left[i - 1]
             /\ \A y \in left[i - 1] \ {D[i]} : <<y, D[i]>> \notin before
  <2>1. i - 1 \in 0..n /\ i \in 0..n
    BY <1>1
  <2>2. IsFirst(D[i], Ready(left[i - 1], before), less) /\ left[i] = left[i - 1] \ {D[i]}
    BY <1>2, <1>5 DEF Shrinks
  <2>3. left[i - 1] \subseteq S
    BY <1>2, <2>1 DEF Shrinks
  <2> QED
    BY <2>1, <2>2, <2>3 DEF IsFirst, Ready
<1>7. D \in [1..n -> S]
  BY <1>3, <1>4, <1>5, <1>6
<1>8. ASSUME NEW i \in 1..n, NEW j \in 1..n, i < j
      PROVE  D[i] # D[j] /\ <<D[j], D[i]>> \notin before
  <2>1. i \in 0..n /\ j - 1 \in 0..n /\ i <= j - 1
    BY <1>1, <1>8
  <2>2. left[j - 1] \subseteq left[i]
    BY <1>1, <1>2, <2>1, LeftShrinks
  <2>3. D[j] \in left[i - 1] \ {D[i]}
    BY <1>6, <2>2
  <2> QED
    BY <1>6, <2>3
<1>9. ASSUME NEW x \in S PROVE \E i \in 1..n : D[i] = x
  <2> DEFINE Good == {k \in 0..n : x \in left[k]}
  <2>1. SUFFICES ASSUME \A i \in 1..n : D[i] # x PROVE FALSE
    OBVIOUS
  <2>2. 0 \in Good
    BY <1>1, <1>2 DEF Shrinks
  <2>3. \A k \in 1..n : k - 1 \in Good => k \in Good
    BY <1>6, <2>1
  <2> HIDE DEF Good
  <2>4. \A k \in 0..n : k \in Good
    BY <1>1, <2>2, <2>3, Upwards
  <2>5. n \in 0..n
    BY <1>1
  <2>6. x \in left[n]
    BY <2>4, <2>5 DEF Good
  <2>7. Cardinality(left[n]) = 0 /\ IsFiniteSet(left[n])
    <3>1. left[n] \subseteq S /\ Cardinality(left[n]) = n - n
      BY <1>2, <2>5 DEF Shrinks
    <3>2. IsFiniteSet(left[n])
      BY <3>1, FS_Subset DEF Sortable
    <3> QED
      BY <1>1, <3>1, <3>2
  <2> QED
    BY <2>6, <2>7, FS_EmptySet
<1>10. ASSUME NEW i \in 1..(n - 1)
       PROVE  <<D[i], D[i + 1]>> \in less \/ <<D[i], D[i + 1]>> \in before
  <2>1. i \in 1..n /\ i + 1 \in 1..n /\ (i + 1) - 1 = i
    BY <1>1
  <2> DEFINE x == D[i]  y == D[i + 1]
  <2>2. /\ IsFirst(x, Ready(left[i - 1], before), less)
        /\ left[i] = left[i - 1] \ {x}
    BY <1>6, <2>1
  <2>3. y \in left[i] /\ \A z \in left[i] \ {y} : <<z, y>> \notin before
    <3>1. y \in left[(i + 1) - 1]
          /\ \A z \in left[(i + 1) - 1] \ {y} : <<z, y>> \notin before
      BY <1>6, <2>1
    <3> QED
      BY <2>1, <3>1
  <2> HIDE DEF x, y
  <2>4. CASE y \in Ready(left[i - 1], before)
    BY <2>2, <2>3, <2>4 DEF IsFirst, x, y
  <2>5. CASE y \notin Ready(left[i - 1], before)
    <3>1. PICK z \in left[i - 1] \ {y} : <<z, y>> \in before
      BY <2>2, <2>3, <2>5 DEF Ready
    <3>2. z = x
      BY <2>2, <2>3, <3>1
    <3> QED
      BY <3>1, <3>2 DEF x, y
  <2> QED
    BY <2>4, <2>5
<1> QED
  BY <1>7, <1>8, <1>9, <1>10 DEF Drains, n, D
-----------------------------------------------------------------------------
(* Rows of transactions, and rows of groups                                *)

\* S and T have nothing in common, and no pair of R leads from T to S.
Apart(R, S, T) == \A x \in S, y \in T : x # y /\ <<y, x>> \notin R

\* lin lists S, each once, along R.
Row(R, lin, S) ==
  /\ lin \in Seq(S)
  /\ \A x \in S : \E i \in 1..Len(lin) : lin[i] = x
  /\ \A i, j \in 1..Len(lin) : i < j => lin[i] # lin[j] /\ <<lin[j], lin[i]>> \notin R

\* The elements of a sequence of sequences, one after the other, are a Row of S.
Rows(R, gs, S) ==
  /\ gs \in Seq(Seq(S))
  /\ \A i \in 1..Len(gs) : gs[i] # <<>> /\ Row(R, gs[i], ToSet(gs[i]))
  /\ \A i, j \in 1..Len(gs) : i < j => Apart(R, ToSet(gs[i]), ToSet(gs[j]))
  /\ \A x \in S : \E i \in 1..Len(gs) : x \in ToSet(gs[i])

LEMMA ToSetIs ==
  ASSUME NEW S, NEW s \in Seq(S)
  PROVE  /\ ToSet(s) \subseteq S
         /\ \A x : x \in ToSet(s) <=> \E i \in 1..Len(s) : s[i] = x
         /\ s \in Seq(ToSet(s))
         /\ s # <<>> => ToSet(s) # {} /\ Len(s) \in Nat \ {0}
<1>1. Len(s) \in Nat /\ DOMAIN s = 1..Len(s) /\ \A i \in 1..Len(s) : s[i] \in S
  OBVIOUS
<1>2. \A x : x \in ToSet(s) <=> \E i \in 1..Len(s) : s[i] = x
  BY <1>1 DEF ToSet
<1>3. s \in Seq(ToSet(s))
  BY <1>1, <1>2
<1>4. s # <<>> => ToSet(s) # {} /\ Len(s) \in Nat \ {0}
  BY <1>1, <1>2
<1> QED
  BY <1>1, <1>2, <1>3, <1>4

LEMMA RowSet ==
  ASSUME NEW R, NEW lin, NEW S, Row(R, lin, S)
  PROVE  ToSet(lin) = S
BY ToSetIs DEF Row

LEMMA RowConcat ==
  ASSUME NEW R, NEW a, NEW A, NEW b, NEW B, Row(R, a, A), Row(R, b, B),
         Apart(R, A, B)
  PROVE  Row(R, a \o b, A \cup B)
<1> DEFINE c == a \o b  m == Len(a)  n == Len(b)
<1>1. a \in Seq(A) /\ b \in Seq(B) /\ m \in Nat /\ n \in Nat
  BY DEF Row
<1>2. /\ c \in Seq(A \cup B) /\ Len(c) = m + n
      /\ \A i \in 1..m : c[i] = a[i]
      /\ \A i \in (m + 1)..(m + n) : c[i] = b[i - m]
  BY <1>1
<1>3. (\A i \in 1..m : a[i] \in A) /\ (\A i \in 1..n : b[i] \in B)
  BY <1>1
<1> HIDE DEF c, m, n
<1>4. \A i \in 1..(m + n) : i \in 1..m \/ (i \in (m + 1)..(m + n) /\ i - m \in 1..n)
  BY <1>1
<1>5. ASSUME NEW x \in A \cup B PROVE \E i \in 1..(m + n) : c[i] = x
  <2>1. CASE x \in A
    <3>1. PICK i \in 1..m : a[i] = x
      BY <2>1 DEF Row, m
    <3>2. i \in 1..(m + n)
      BY <1>1
    <3> QED
      BY <1>2, <3>1, <3>2
  <2>2. CASE x \in B
    <3>1. PICK i \in 1..n : b[i] = x
      BY <2>2 DEF Row, n
    <3>2. i + m \in (m + 1)..(m + n) /\ i + m \in 1..(m + n) /\ (i + m) - m = i
      BY <1>1
    <3> QED
      BY <1>2, <3>1, <3>2
  <2> QED
    BY <2>1, <2>2
<1>6. ASSUME NEW i \in 1..(m + n), NEW j \in 1..(m + n), i < j
      PROVE  c[i] # c[j] /\ <<c[j], c[i]>> \notin R
  <2>1. CASE i \in 1..m /\ j \in 1..m
    <3>1. c[i] = a[i] /\ c[j] = a[j]
      BY <1>2, <2>1
    <3>2. a[i] # a[j] /\ <<a[j], a[i]>> \notin R
      BY <1>6, <2>1 DEF Row, m
    <3> QED
      BY <3>1, <3>2
  <2>2. CASE i \in 1..m /\ j \in (m + 1)..(m + n) /\ j - m \in 1..n
    <3>1. c[i] \in A /\ c[j] \in B
      BY <1>2, <1>3, <2>2
    <3> QED
      BY <3>1 DEF Apart
  <2>3. CASE /\ i \in (m + 1)..(m + n) /\ i - m \in 1..n
             /\ j \in (m + 1)..(m + n) /\ j - m \in 1..n
    <3>1. c[i] = b[i - m] /\ c[j] = b[j - m] /\ i - m < j - m
      BY <1>1, <1>2, <1>6, <2>3
    <3> QED
      BY <2>3, <3>1 DEF Row, n
  <2>4. ~ (i \in (m + 1)..(m + n) /\ j \in 1..m)
    BY <1>1, <1>6
  <2> QED
    BY <1>4, <2>1, <2>2, <2>3, <2>4
<1> QED
  BY <1>2, <1>5, <1>6 DEF Row, c

\* The elements of the first k groups.
Among(gs, k) == UNION {ToSet(gs[i]) : i \in 1..k}

LEMMA AmongNext ==
  ASSUME NEW gs, NEW k \in Nat \ {0}
  PROVE  Among(gs, k) = Among(gs, k - 1) \cup ToSet(gs[k])
<1>1. \A i : i \in 1..k <=> i \in 1..(k - 1) \/ i = k
  OBVIOUS
<1>2. \A j, x : x \in Among(gs, j) <=> \E i \in 1..j : x \in ToSet(gs[i])
  BY DEF Among
<1> QED
  BY <1>1, <1>2

\* Where FlattenSeq stands after each group.
Flattens(f, gs, S) ==
  /\ f \in [0..Len(gs) -> Seq(S)]
  /\ f[0] = <<>>
  /\ \A i \in 1..Len(gs) : f[i] = f[i - 1] \o gs[i]
  /\ FlattenSeq(gs) = f[Len(gs)]

LEMMA FlattenSteps ==
  ASSUME NEW S, NEW gs \in Seq(Seq(S))
  PROVE  \E f : Flattens(f, gs, S)
<1> DEFINE n == Len(gs)
           step == [i \in 1..n |-> [s \in Seq(S) |-> s \o gs[i]]]
           Rec(g) == g = [i \in 1..Len(gs) |-> IF i = 1 THEN gs[i] ELSE g[i - 1] \o gs[i]]
<1>1. n \in Nat /\ \A i \in 1..n : gs[i] \in Seq(S)
  OBVIOUS
<1>2. \A i \in 1..n : \A s \in Seq(S) : step[i][s] = s \o gs[i]
  OBVIOUS
<1>3. \A i \in 1..n : \A s \in Seq(S) : step[i][s] \in Seq(S)
  <2> HIDE DEF step
  <2>1. \A s, t \in Seq(S) : s \o t \in Seq(S)
    OBVIOUS
  <2> QED
    BY <1>1, <1>2, <2>1
<1> HIDE DEF step
<1>4. PICK f : Course(f, Seq(S), <<>>, step, n)
  <2>1. <<>> \in Seq(S)
    OBVIOUS
  <2> QED
    BY <1>1, <1>3, <2>1, Recursion
<1>5. f \in [0..n -> Seq(S)] /\ f[0] = <<>>
  BY <1>4 DEF Course
<1>6. ASSUME NEW i \in 1..n PROVE f[i] = f[i - 1] \o gs[i] /\ i - 1 \in 0..n
  <2>1. i - 1 \in 0..n
    BY <1>1
  <2>2. f[i - 1] \in Seq(S) /\ f[i] = step[i][f[i - 1]]
    BY <1>4, <2>1 DEF Course
  <2> QED
    BY <1>2, <2>1, <2>2
<1>7. FlattenSeq(gs) = f[n]
  <2>1. CASE n = 0
    <3>1. FlattenSeq(gs) = gs
      BY <2>1 DEF FlattenSeq
    <3>2. gs = <<>>
      BY <2>1
    <3> QED
      BY <1>5, <2>1, <3>1, <3>2
  <2>2. CASE n # 0
    <3> DEFINE g == [i \in 1..n |-> f[i]]
    <3>1. \A i \in 1..n : g[i] = IF i = 1 THEN gs[i] ELSE g[i - 1] \o gs[i]
      <4> TAKE i \in 1..n
      <4>1. g[i] = f[i] /\ f[i] = f[i - 1] \o gs[i]
        BY <1>6
      <4>2. CASE i = 1
        <5>1. f[i] = <<>> \o gs[i] /\ gs[i] \in Seq(S)
          BY <1>1, <1>5, <4>1, <4>2
        <5>2. \A s \in Seq(S) : <<>> \o s = s
          OBVIOUS
        <5> QED
          BY <4>1, <4>2, <5>1, <5>2
      <4>3. CASE i # 1
        <5>1. i - 1 \in 1..n
          BY <1>1, <4>3
        <5>2. g[i - 1] = f[i - 1]
          BY <5>1
        <5> HIDE DEF g
        <5> QED
          BY <4>1, <4>3, <5>2
      <4> QED
        BY <4>2, <4>3
    <3>2. g = [i \in 1..n |-> g[i]] /\ g[n] = f[n]
      BY <1>1, <2>2
    <3> HIDE DEF g
    <3>3. Rec(g)
      BY <3>1, <3>2
    <3>4. \A h : Rec(h) => h[n] = f[n]
      <4> TAKE h
      <4>1. SUFFICES ASSUME Rec(h) PROVE h[n] = f[n]
        OBVIOUS
      <4>2. \A i \in 1..n : h[i] = IF i = 1 THEN gs[i] ELSE h[i - 1] \o gs[i]
        BY <4>1
      <4> DEFINE Good == {i \in 0..n : i # 0 => h[i] = f[i]}
      <4>3. 0 \in Good
        BY <1>1
      <4>4. ASSUME NEW i \in 1..n, i - 1 \in Good PROVE i \in Good
        <5>0. i \in 0..n
          BY <1>1
        <5>1. i \in 0..n /\ f[i] = f[i - 1] \o gs[i]
          BY <5>0, <1>6
        <5>2. CASE i = 1
          <6>1. f[i] = <<>> \o gs[i] /\ gs[i] \in Seq(S) /\ h[i] = gs[i]
            BY <1>1, <1>5, <4>2, <5>1, <5>2
          <6>2. \A s \in Seq(S) : <<>> \o s = s
            OBVIOUS
          <6> QED
            BY <5>1, <6>1, <6>2
        <5>3. CASE i # 1
          <6>0. i - 1 # 0
            BY <5>3
          <6>1. h[i - 1] = f[i - 1] /\ h[i] = h[i - 1] \o gs[i]
            BY <4>2, <4>4, <5>3, <6>0
          <6> QED
            BY <5>1, <6>1
        <5> QED
          BY <5>2, <5>3
      <4> HIDE DEF Good
      <4>5. \A i \in 0..n : i \in Good
        BY <1>1, <4>3, <4>4, Upwards
      <4>6. n \in 0..n
        BY <1>1
      <4> QED
        BY <2>2, <4>5, <4>6 DEF Good
    <3>5. FlattenSeq(gs) = (CHOOSE h : Rec(h))[n]
      BY <2>2 DEF FlattenSeq
    <3> HIDE DEF Rec
    <3>6. Rec(CHOOSE h : Rec(h))
      BY <3>3
    <3> QED
      BY <3>4, <3>5, <3>6
  <2> QED
    BY <2>1, <2>2
<1> QED
  BY <1>5, <1>6, <1>7 DEF Flattens

LEMMA FlattenRow ==
  ASSUME NEW R, NEW S, NEW gs, Rows(R, gs, S)
  PROVE  Row(R, FlattenSeq(gs), S)
<1> DEFINE n == Len(gs)
<1>1. gs \in Seq(Seq(S)) /\ n \in Nat /\ \A i \in 1..n : gs[i] \in Seq(S)
  BY DEF Rows
<1>2. PICK f : Flattens(f, gs, S)
  BY <1>1, FlattenSteps
<1> HIDE DEF n
<1> DEFINE Good == {k \in 0..n : Row(R, f[k], Among(gs, k))}
<1>3. 0 \in Good
  <2>1. Among(gs, 0) = {}
    BY DEF Among
  <2>2. f[0] = <<>> /\ <<>> \in Seq({}) /\ Len(<<>>) = 0
    BY <1>2 DEF Flattens
  <2>3. Row(R, <<>>, {})
    BY <2>2 DEF Row
  <2>4. Row(R, f[0], Among(gs, 0))
    BY <2>1, <2>2, <2>3, Zenon
  <2>5. 0 \in 0..n
    BY <1>1
  <2> QED
    BY <2>4, <2>5
<1>4. ASSUME NEW k \in 1..n, k - 1 \in Good PROVE k \in Good
  <2>1. k \in Nat \ {0} /\ k \in 0..n /\ \A i \in 1..(k - 1) : i \in 1..n /\ i < k
    BY <1>1
  <2>2. Row(R, f[k - 1], Among(gs, k - 1)) /\ Row(R, gs[k], ToSet(gs[k]))
    BY <1>4 DEF Rows, n
  <2>3. f[k] = f[k - 1] \o gs[k]
    BY <1>2 DEF Flattens, n
  <2>4. \A i \in 1..(k - 1) : Apart(R, ToSet(gs[i]), ToSet(gs[k]))
    BY <2>1 DEF Rows, n
  <2>5. Apart(R, Among(gs, k - 1), ToSet(gs[k]))
    BY <2>4 DEF Among, Apart
  <2>6. Row(R, f[k], Among(gs, k - 1) \cup ToSet(gs[k]))
    BY <2>2, <2>3, <2>5, RowConcat
  <2> QED
    BY <2>1, <2>6, AmongNext
<1> HIDE DEF Good
<1>5. \A k \in 0..n : k \in Good
  BY <1>1, <1>3, <1>4, Upwards
<1>6. Row(R, f[n], Among(gs, n))
  BY <1>1, <1>5 DEF Good
<1>7. Among(gs, n) = S
  <2>1. \A i \in 1..n : ToSet(gs[i]) \subseteq S
    BY <1>1, ToSetIs
  <2>2. \A x \in S : \E i \in 1..n : x \in ToSet(gs[i])
    BY DEF Rows, n
  <2> QED
    BY <2>1, <2>2 DEF Among
<1> QED
  BY <1>2, <1>6, <1>7 DEF Flattens, n

LEMMA RowAlone ==
  ASSUME NEW R, NEW t
  PROVE  Row(R, <<t>>, {t}) /\ ToSet(<<t>>) = {t}
<1>1. <<t>> \in Seq({t}) /\ Len(<<t>>) = 1 /\ <<t>>[1] = t
  OBVIOUS
<1>2. \A i, j \in 1..1 : ~ (i < j)
  OBVIOUS
<1>3. Row(R, <<t>>, {t})
  BY <1>1, <1>2 DEF Row
<1> QED
  BY <1>3, RowSet

\* The pairs of R turned round.
Turned(R) == {<<e[2], e[1]>> : e \in R}

LEMMA TurnedIs ==
  ASSUME NEW S, NEW R \in SUBSET (S \X S)
  PROVE  Turned(R) \subseteq S \X S /\ \A x, y : <<x, y>> \in Turned(R) <=> <<y, x>> \in R
<1>1. Turned(R) \subseteq S \X S
  BY DEF Turned
<1>2. \A x, y : <<y, x>> \in R => <<x, y>> \in Turned(R)
  BY DEF Turned
<1>3. ASSUME NEW x, NEW y, <<x, y>> \in Turned(R) PROVE <<y, x>> \in R
  <2>1. PICK e \in R : <<x, y>> = <<e[2], e[1]>>
    BY <1>3 DEF Turned
  <2> QED
    BY <2>1
<1> QED
  BY <1>1, <1>2, <1>3

LEMMA RowReversed ==
  ASSUME NEW S, NEW R \in SUBSET (S \X S), NEW lin, Row(Turned(R), lin, S)
  PROVE  Row(R, Reverse(lin), S)
<1> DEFINE n == Len(lin)  rev == Reverse(lin)
<1>1. lin \in Seq(S) /\ n \in Nat /\ \A i \in 1..n : lin[i] \in S
  BY DEF Row
<1>2. rev = [i \in 1..n |-> lin[n - i + 1]]
  BY DEF Reverse
<1> HIDE DEF n, rev
<1>3. \A i \in 1..n : n - i + 1 \in 1..n /\ n - (n - i + 1) + 1 = i
  BY <1>1
<1>4. rev \in Seq(S) /\ Len(rev) = n /\ \A i \in 1..n : rev[i] = lin[n - i + 1]
  BY <1>1, <1>2, <1>3
<1>5. \A x \in S : \E i \in 1..n : rev[i] = x
  <2> TAKE x \in S
  <2>1. PICK i \in 1..n : lin[i] = x
    BY DEF Row, n
  <2>2. rev[n - i + 1] = x
    BY <1>3, <1>4, <2>1
  <2> QED
    BY <1>3, <2>2
<1>6. ASSUME NEW i \in 1..n, NEW j \in 1..n, i < j
      PROVE  rev[i] # rev[j] /\ <<rev[j], rev[i]>> \notin R
  <2> DEFINE a == n - j + 1  b == n - i + 1
  <2>1. a \in 1..n /\ b \in 1..n /\ a < b
    BY <1>1, <1>6
  <2>2. rev[i] = lin[b] /\ rev[j] = lin[a]
    BY <1>4
  <2> HIDE DEF a, b
  <2>3. lin[a] # lin[b] /\ <<lin[b], lin[a]>> \notin Turned(R)
    BY <2>1 DEF Row, n
  <2>4. \A x, y : <<x, y>> \in R => <<y, x>> \in Turned(R)
    BY DEF Turned
  <2> QED
    BY <2>2, <2>3, <2>4
<1> QED
  BY <1>4, <1>5, <1>6 DEF Row, rev

\* A group of one more transaction.
LEMMA RowsAppend ==
  ASSUME NEW R, NEW S, NEW gs, Rows(R, gs, S), NEW t, Apart(R, S, {t})
  PROVE  Rows(R, Append(gs, <<t>>), S \cup {t})
<1> DEFINE n == Len(gs)  hs == Append(gs, <<t>>)
<1>1. gs \in Seq(Seq(S)) /\ n \in Nat /\ \A i \in 1..n : gs[i] \in Seq(S)
  BY DEF Rows
<1>2. Seq(S) \subseteq Seq(S \cup {t})
  OBVIOUS
<1>3. gs \in Seq(Seq(S \cup {t})) /\ <<t>> \in Seq(S \cup {t})
  BY <1>1, <1>2
<1>4. /\ hs \in Seq(Seq(S \cup {t})) /\ Len(hs) = n + 1
      /\ hs[n + 1] = <<t>> /\ \A i \in 1..n : hs[i] = gs[i]
  BY <1>3
<1> HIDE DEF n, hs
<1>5. \A i \in 1..(n + 1) : i \in 1..n \/ i = n + 1
  BY <1>1
<1>6. ASSUME NEW i \in 1..(n + 1) PROVE hs[i] # <<>> /\ Row(R, hs[i], ToSet(hs[i]))
  <2>1. CASE i \in 1..n
    BY <1>4, <2>1 DEF Rows, n
  <2>2. CASE i = n + 1
    <3>1. hs[i] = <<t>> /\ <<t>> # <<>>
      BY <1>4, <2>2
    <3>2. Row(R, <<t>>, {t}) /\ ToSet(<<t>>) = {t}
      BY RowAlone
    <3> QED
      BY <3>1, <3>2, Zenon
  <2> QED
    BY <1>5, <2>1, <2>2
<1>7. ASSUME NEW i \in 1..(n + 1), NEW j \in 1..(n + 1), i < j
      PROVE  Apart(R, ToSet(hs[i]), ToSet(hs[j]))
  <2>0. i \in 1..n
    BY <1>1, <1>7
  <2>1. CASE j \in 1..n
    <3>1. hs[i] = gs[i] /\ hs[j] = gs[j]
      BY <1>4, <2>0, <2>1
    <3> QED
      BY <1>7, <2>0, <2>1, <3>1 DEF Rows, n
  <2>2. CASE j = n + 1
    <3>1. hs[i] = gs[i] /\ ToSet(hs[j]) = {t}
      BY <1>4, <2>0, <2>2, RowAlone
    <3>2. ToSet(gs[i]) \subseteq S
      BY <1>1, <2>0, ToSetIs
    <3> QED
      BY <3>1, <3>2 DEF Apart
  <2> QED
    BY <1>5, <2>1, <2>2
<1>8. ASSUME NEW x \in S \cup {t} PROVE \E i \in 1..(n + 1) : x \in ToSet(hs[i])
  <2>1. CASE x \in S
    <3>1. PICK i \in 1..n : x \in ToSet(gs[i])
      BY <2>1 DEF Rows, n
    <3>2. i \in 1..(n + 1) /\ hs[i] = gs[i]
      BY <1>1, <1>4
    <3> QED
      BY <3>1, <3>2
  <2>2. CASE x = t
    <3>1. n + 1 \in 1..(n + 1)
      BY <1>1
    <3>2. ToSet(<<t>>) = {t}
      BY RowAlone
    <3> QED
      BY <1>4, <2>2, <3>1, <3>2
  <2> QED
    BY <2>1, <2>2
<1> QED
  BY <1>4, <1>6, <1>7, <1>8 DEF Rows, hs

LEMMA FunctionSeq ==
  ASSUME NEW S, NEW n \in Nat, NEW s \in [1..n -> S]
  PROVE  s \in Seq(S) /\ Len(s) = n
OBVIOUS

LEMMA ConcatIs ==
  ASSUME NEW S, NEW s \in Seq(S), NEW t \in Seq(S)
  PROVE  s \o t \in Seq(S) /\ ToSet(s \o t) = ToSet(s) \cup ToSet(t)
<1>1. s \o t \in Seq(S) /\ Len(s \o t) = Len(s) + Len(t) /\ Len(s) \in Nat /\ Len(t) \in Nat
  OBVIOUS
<1>2. \A x : x \in ToSet(s \o t) <=> \E j \in 1..(Len(s) + Len(t)) : (s \o t)[j] = x
  BY <1>1, ToSetIs
<1>3. \A x : x \in ToSet(s) <=> \E j \in 1..Len(s) : s[j] = x
  BY ToSetIs
<1>4. \A x : x \in ToSet(t) <=> \E j \in 1..Len(t) : t[j] = x
  BY ToSetIs
<1>5. /\ \A j \in 1..Len(s) : (s \o t)[j] = s[j]
      /\ \A j \in (Len(s) + 1)..(Len(s) + Len(t)) : (s \o t)[j] = t[j - Len(s)]
  OBVIOUS
<1>6. \A j \in 1..(Len(s) + Len(t)) :
        \/ j \in 1..Len(s)
        \/ j \in (Len(s) + 1)..(Len(s) + Len(t)) /\ j - Len(s) \in 1..Len(t)
  BY <1>1
<1>7. /\ \A j \in 1..Len(s) : j \in 1..(Len(s) + Len(t))
      /\ \A j \in 1..Len(t) : /\ j + Len(s) \in (Len(s) + 1)..(Len(s) + Len(t))
                              /\ j + Len(s) \in 1..(Len(s) + Len(t))
                              /\ (j + Len(s)) - Len(s) = j
  BY <1>1
<1>8. ASSUME NEW x, x \in ToSet(s \o t) PROVE x \in ToSet(s) \cup ToSet(t)
  <2>1. PICK j \in 1..(Len(s) + Len(t)) : (s \o t)[j] = x
    BY <1>2, <1>8
  <2> QED
    BY <1>3, <1>4, <1>5, <1>6, <2>1
<1>9. ASSUME NEW x, x \in ToSet(s) \cup ToSet(t) PROVE x \in ToSet(s \o t)
  <2>1. CASE x \in ToSet(s)
    <3>1. PICK j \in 1..Len(s) : s[j] = x
      BY <1>3, <2>1
    <3>2. (s \o t)[j] = x /\ j \in 1..(Len(s) + Len(t))
      BY <1>5, <1>7, <3>1
    <3> QED
      BY <1>2, <3>2
  <2>2. CASE x \in ToSet(t)
    <3>1. PICK j \in 1..Len(t) : t[j] = x
      BY <1>4, <2>2
    <3>2. (s \o t)[j + Len(s)] = x /\ j + Len(s) \in 1..(Len(s) + Len(t))
      BY <1>5, <1>7, <3>1
    <3> QED
      BY <1>2, <3>2
  <2> QED
    BY <1>9, <2>1, <2>2
<1> QED
  BY <1>1, <1>8, <1>9

\* The elements of some groups.  Where group i of Combined(gs, k) comes from: a group, or two.
Together(gs, A) == UNION {ToSet(gs[j]) : j \in A}
From(k, i) == IF i < k - 1 THEN {i} ELSE IF i = k - 1 THEN {k - 1, k} ELSE {i + 1}

LEMMA CombinedIs ==
  ASSUME NEW S, NEW gs \in Seq(Seq(S)), NEW k \in 2..Len(gs)
  PROVE  /\ Combined(gs, k) \in Seq(Seq(S))
         /\ Len(Combined(gs, k)) = Len(gs) - 1
         /\ \A i \in 1..(Len(gs) - 1) :
              ToSet(Combined(gs, k)[i]) = Together(gs, From(k, i))
         /\ \A i \in 1..(Len(gs) - 1) :
              /\ i < k - 1 => Combined(gs, k)[i] = gs[i]
              /\ i = k - 1 => Combined(gs, k)[i] = gs[k - 1] \o gs[k]
              /\ i > k - 1 => Combined(gs, k)[i] = gs[i + 1]
<1> DEFINE n == Len(gs)  c == Combined(gs, k)
<1>1. n \in Nat /\ k \in 2..n /\ \A i \in 1..n : gs[i] \in Seq(S)
  OBVIOUS
<1>2. c = [i \in 1..(n - 1) |->
             IF i < k - 1 THEN gs[i]
             ELSE IF i = k - 1 THEN gs[k - 1] \o gs[k] ELSE gs[i + 1]]
  BY DEF Combined
<1>3. /\ \A i : Together(gs, {i}) = ToSet(gs[i])
      /\ Together(gs, {k - 1, k}) = ToSet(gs[k - 1]) \cup ToSet(gs[k])
  BY DEF Together
<1> HIDE DEF n, c
<1>4. ASSUME NEW i \in 1..(n - 1)
      PROVE  /\ i < k - 1 => c[i] = gs[i]
             /\ i = k - 1 => c[i] = gs[k - 1] \o gs[k]
             /\ i > k - 1 => c[i] = gs[i + 1]
  <2>1. c[i] = IF i < k - 1 THEN gs[i]
               ELSE IF i = k - 1 THEN gs[k - 1] \o gs[k] ELSE gs[i + 1]
    BY <1>2
  <2>2. /\ i = k - 1 => ~ (i < k - 1)
        /\ i > k - 1 => ~ (i < k - 1) /\ i # k - 1
    BY <1>1
  <2> QED
    BY <2>1, <2>2, Zenon
<1>5. ASSUME NEW i \in 1..(n - 1) PROVE c[i] \in Seq(S) /\ ToSet(c[i]) = Together(gs, From(k, i))
  <2>1. i \in Int /\ i \in 1..n /\ i + 1 \in 1..n /\ k - 1 \in 1..n /\ k \in 1..n
    BY <1>1
  <2>2. CASE i < k - 1
    <3>1. From(k, i) = {i}
      BY <2>2 DEF From
    <3>2. c[i] = gs[i]
      BY <1>4, <2>2
    <3> QED
      BY <1>1, <1>3, <2>1, <3>1, <3>2
  <2>3. CASE i = k - 1
    <3>1. From(k, i) = {k - 1, k}
      BY <2>1, <2>3 DEF From
    <3>2. c[i] = gs[k - 1] \o gs[k]
      BY <1>4, <2>3
    <3>3. gs[k - 1] \in Seq(S) /\ gs[k] \in Seq(S)
      BY <1>1, <2>1
    <3>4. c[i] \in Seq(S) /\ ToSet(c[i]) = ToSet(gs[k - 1]) \cup ToSet(gs[k])
      BY <3>2, <3>3, ConcatIs
    <3> QED
      BY <1>3, <3>1, <3>4
  <2>4. CASE i > k - 1
    <3>0. ~ (i < k - 1) /\ i # k - 1
      BY <1>1, <2>1, <2>4
    <3>1. From(k, i) = {i + 1}
      BY <3>0 DEF From
    <3>2. c[i] = gs[i + 1]
      BY <1>4, <2>4
    <3> QED
      BY <1>1, <1>3, <2>1, <3>1, <3>2
  <2>5. i < k - 1 \/ i = k - 1 \/ i > k - 1
    BY <1>1, <2>1
  <2> QED
    BY <2>2, <2>3, <2>4, <2>5
<1>6. c \in Seq(Seq(S)) /\ Len(c) = n - 1
  <2>1. n - 1 \in Nat /\ DOMAIN c = 1..(n - 1) /\ c = [i \in 1..(n - 1) |-> c[i]]
    BY <1>1, <1>2
  <2>2. c \in [1..(n - 1) -> Seq(S)]
    BY <1>5, <2>1
  <2> QED
    BY <2>1, <2>2, FunctionSeq
<1> QED
  BY <1>4, <1>5, <1>6 DEF n, c

LEMMA RowsCombined ==
  ASSUME NEW R, NEW S, NEW gs, Rows(R, gs, S), NEW k \in 2..Len(gs)
  PROVE  Rows(R, Combined(gs, k), S)
<1> DEFINE n == Len(gs)  c == Combined(gs, k)
<1>1. gs \in Seq(Seq(S)) /\ n \in Nat /\ k \in 2..n
  BY DEF Rows
<1>2. /\ c \in Seq(Seq(S)) /\ Len(c) = n - 1
      /\ \A i \in 1..(n - 1) : ToSet(c[i]) = Together(gs, From(k, i))
      /\ \A i \in 1..(n - 1) : /\ i < k - 1 => c[i] = gs[i]
                               /\ i = k - 1 => c[i] = gs[k - 1] \o gs[k]
                               /\ i > k - 1 => c[i] = gs[i + 1]
  <2>1. gs \in Seq(Seq(S)) /\ k \in 2..Len(gs)
    BY <1>1
  <2>2. c \in Seq(Seq(S)) /\ Len(c) = n - 1
    BY <2>1, CombinedIs
  <2>3. \A i \in 1..(n - 1) : ToSet(c[i]) = Together(gs, From(k, i))
    BY <2>1, CombinedIs
  <2>4. \A i \in 1..(n - 1) : /\ i < k - 1 => c[i] = gs[i]
                              /\ i = k - 1 => c[i] = gs[k - 1] \o gs[k]
                              /\ i > k - 1 => c[i] = gs[i + 1]
    BY <2>1, CombinedIs
  <2> HIDE DEF n, c
  <2> QED
    BY <2>2, <2>3, <2>4
<1>3. /\ \A i \in 1..n : gs[i] \in Seq(S) /\ gs[i] # <<>> /\ Row(R, gs[i], ToSet(gs[i]))
      /\ \A i, j \in 1..n : i < j => Apart(R, ToSet(gs[i]), ToSet(gs[j]))
      /\ \A x \in S : \E i \in 1..n : x \in ToSet(gs[i])
  BY <1>1 DEF Rows
<1> HIDE DEF n, c
<1>4. \A i \in 1..(n - 1) : From(k, i) \subseteq 1..n
  BY <1>1 DEF From
<1>5. ASSUME NEW i \in 1..(n - 1) PROVE c[i] # <<>> /\ Row(R, c[i], ToSet(c[i]))
  <2>1. CASE i < k - 1
    <3>1. c[i] = gs[i]
      BY <1>2, <2>1
    <3>2. i \in 1..n
      BY <1>1
    <3> QED
      BY <1>3, <3>1, <3>2
  <2>2. CASE i > k - 1
    <3>1. c[i] = gs[i + 1]
      BY <1>2, <2>2
    <3>2. i + 1 \in 1..n
      BY <1>1
    <3> QED
      BY <1>3, <3>1, <3>2
  <2>3. CASE i = k - 1
    <3> DEFINE a == gs[k - 1]  b == gs[k]
    <3>1. k - 1 \in 1..n /\ k \in 1..n /\ k - 1 < k
      BY <1>1
    <3>2. a \in Seq(S) /\ b \in Seq(S) /\ a # <<>> /\ Row(R, a, ToSet(a)) /\ Row(R, b, ToSet(b))
      BY <1>3, <3>1
    <3>3. Apart(R, ToSet(a), ToSet(b))
      BY <1>3, <3>1
    <3>4. c[i] = a \o b
      BY <1>2, <2>3
    <3> HIDE DEF a, b
    <3>5. Row(R, a \o b, ToSet(a) \cup ToSet(b))
      BY <3>2, <3>3, RowConcat
    <3>6. ToSet(a \o b) = ToSet(a) \cup ToSet(b) /\ a \o b # <<>>
      BY <3>2, ConcatIs
    <3> QED
      BY <3>4, <3>5, <3>6
  <2>4. i < k - 1 \/ i = k - 1 \/ i > k - 1
    BY <1>1
  <2> QED
    BY <2>1, <2>2, <2>3, <2>4
<1>6. ASSUME NEW i \in 1..(n - 1), NEW j \in 1..(n - 1), i < j
      PROVE  Apart(R, ToSet(c[i]), ToSet(c[j]))
  <2> SUFFICES ASSUME NEW x \in ToSet(c[i]), NEW y \in ToSet(c[j])
               PROVE  x # y /\ <<y, x>> \notin R
    BY DEF Apart
  <2>1. PICK u \in From(k, i) : x \in ToSet(gs[u])
    BY <1>2 DEF Together
  <2>2. PICK v \in From(k, j) : y \in ToSet(gs[v])
    BY <1>2 DEF Together
  <2>3. u \in 1..n /\ v \in 1..n
    BY <1>4
  <2>4. u < v
    BY <1>1, <1>6 DEF From
  <2> QED
    BY <1>3, <2>1, <2>2, <2>3, <2>4 DEF Apart
<1>7. ASSUME NEW x \in S PROVE \E i \in 1..(n - 1) : x \in ToSet(c[i])
  <2>1. PICK j \in 1..n : x \in ToSet(gs[j])
    BY <1>3
  <2>2. PICK i \in 1..(n - 1) : j \in From(k, i)
    <3>1. CASE j < k
      <4>1. j \in 1..(n - 1) /\ j \in From(k, j)
        BY <1>1, <3>1 DEF From
      <4> QED
        BY <4>1
    <3>2. CASE j >= k
      <4>1. j - 1 \in 1..(n - 1) /\ j \in From(k, j - 1)
        BY <1>1, <3>2 DEF From
      <4> QED
        BY <4>1
    <3> QED
      BY <1>1, <3>1, <3>2
  <2> QED
    BY <1>2, <2>1, <2>2 DEF Together
<1> QED
  BY <1>2, <1>5, <1>6, <1>7 DEF Rows, c

\* The groups in another order, and each in another.
LEMMA RowsMoved ==
  ASSUME NEW R, NEW S, NEW gs \in Seq(Seq(S)), NEW Q, Rows(Q, gs, S),
         NEW hs \in Seq(Seq(S)), NEW at \in [1..Len(gs) -> 1..Len(hs)],
         \A j \in 1..Len(hs) : \E i \in 1..Len(gs) : at[i] = j,
         \A i \in 1..Len(gs) : Row(R, hs[at[i]], ToSet(gs[i])),
         \A i, j \in 1..Len(gs) : at[i] < at[j] => Apart(R, ToSet(gs[i]), ToSet(gs[j]))
  PROVE  Rows(R, hs, S)
<1> DEFINE m == Len(gs)  n == Len(hs)
<1>1. \A i \in 1..m : gs[i] # <<>> /\ gs[i] \in Seq(S)
  BY DEF Rows
<1>2. \A i \in 1..m : /\ ToSet(hs[at[i]]) = ToSet(gs[i])
                      /\ Row(R, hs[at[i]], ToSet(hs[at[i]]))
  <2> TAKE i \in 1..m
  <2>1. Row(R, hs[at[i]], ToSet(gs[i]))
    OBVIOUS
  <2>2. ToSet(hs[at[i]]) = ToSet(gs[i])
    BY <2>1, RowSet
  <2> QED
    BY <2>1, <2>2
<1>3. \A i \in 1..m : hs[at[i]] # <<>>
  <2> TAKE i \in 1..m
  <2>1. ToSet(gs[i]) # {}
    BY <1>1, ToSetIs
  <2>2. ToSet(<<>>) = {}
    BY DEF ToSet
  <2> QED
    BY <1>2, <2>1, <2>2
<1>4. \A j \in 1..n : hs[j] # <<>> /\ Row(R, hs[j], ToSet(hs[j]))
  BY <1>2, <1>3
<1>5. \A j, k \in 1..n : j < k => Apart(R, ToSet(hs[j]), ToSet(hs[k]))
  BY <1>2
<1>6. \A x \in S : \E j \in 1..n : x \in ToSet(hs[j])
  <2> TAKE x \in S
  <2>1. PICK i \in 1..m : x \in ToSet(gs[i])
    BY DEF Rows
  <2>2. at[i] \in 1..n
    OBVIOUS
  <2> QED
    BY <1>2, <2>1, <2>2
<1> QED
  BY <1>4, <1>5, <1>6 DEF Rows

\* Group k before the one that was before it.
Swapped(gs, k) == [gs EXCEPT ![k] = gs[k - 1], ![k - 1] = gs[k]]

LEMMA SwappedIs ==
  ASSUME NEW S, NEW gs \in Seq(Seq(S)), NEW k \in 2..Len(gs)
  PROVE  /\ Swapped(gs, k) \in Seq(Seq(S)) /\ Len(Swapped(gs, k)) = Len(gs)
         /\ Swapped(gs, k)[k] = gs[k - 1] /\ Swapped(gs, k)[k - 1] = gs[k]
         /\ \A i \in 1..Len(gs) : i # k /\ i # k - 1 => Swapped(gs, k)[i] = gs[i]
<1> DEFINE n == Len(gs)  h == Swapped(gs, k)
<1>1. n \in Nat /\ gs \in [1..n -> Seq(S)] /\ k \in 1..n /\ k - 1 \in 1..n /\ k # k - 1
  OBVIOUS
<1>2. h = [gs EXCEPT ![k] = gs[k - 1], ![k - 1] = gs[k]]
  BY DEF Swapped
<1> HIDE DEF n, h
<1>3. gs[k] \in Seq(S) /\ gs[k - 1] \in Seq(S)
  BY <1>1
<1>4. h \in [1..n -> Seq(S)] /\ h[k] = gs[k - 1] /\ h[k - 1] = gs[k]
      /\ \A i \in 1..n : i # k /\ i # k - 1 => h[i] = gs[i]
  BY <1>1, <1>2, <1>3
<1>5. h \in Seq(Seq(S)) /\ Len(h) = n
  BY <1>1, <1>4, FunctionSeq
<1> QED
  BY <1>4, <1>5 DEF n, h

LEMMA RowsSwapped ==
  ASSUME NEW R, NEW S, NEW gs, Rows(R, gs, S), NEW k \in 2..Len(gs),
         Apart(R, ToSet(gs[k]), ToSet(gs[k - 1]))
  PROVE  Rows(R, Swapped(gs, k), S)
<1> DEFINE n == Len(gs)  h == Swapped(gs, k)
           at == [i \in 1..n |-> IF i = k THEN k - 1 ELSE IF i = k - 1 THEN k ELSE i]
<1>1. gs \in Seq(Seq(S)) /\ n \in Nat /\ k \in 1..n /\ k - 1 \in 1..n /\ k # k - 1
  BY DEF Rows
<1>2. /\ h \in Seq(Seq(S)) /\ Len(h) = n /\ h[k] = gs[k - 1] /\ h[k - 1] = gs[k]
      /\ \A i \in 1..n : i # k /\ i # k - 1 => h[i] = gs[i]
  BY <1>1, SwappedIs
<1>3. /\ \A i \in 1..n : Row(R, gs[i], ToSet(gs[i]))
      /\ \A i, j \in 1..n : i < j => Apart(R, ToSet(gs[i]), ToSet(gs[j]))
  BY DEF Rows
<1> HIDE DEF n, h
<1>4. /\ at \in [1..n -> 1..n]
      /\ at[k] = k - 1 /\ at[k - 1] = k /\ \A i \in 1..n : i # k /\ i # k - 1 => at[i] = i
  BY <1>1
<1> HIDE DEF at
<1>5. \A i \in 1..n : h[at[i]] = gs[i]
  BY <1>1, <1>2, <1>4
<1>6. \A j \in 1..n : \E i \in 1..n : at[i] = j
  BY <1>1, <1>4
<1>7. ASSUME NEW i \in 1..n, NEW j \in 1..n, at[i] < at[j]
      PROVE  Apart(R, ToSet(gs[i]), ToSet(gs[j]))
  <2>0. ASSUME NEW x \in 1..n
        PROVE  at[x] = IF x = k THEN k - 1 ELSE IF x = k - 1 THEN k ELSE x
    BY <1>1, <1>4
  <2>1. i < j \/ (i = k /\ j = k - 1)
    <3>1. at[i] = IF i = k THEN k - 1 ELSE IF i = k - 1 THEN k ELSE i
      BY <2>0
    <3>2. at[j] = IF j = k THEN k - 1 ELSE IF j = k - 1 THEN k ELSE j
      BY <2>0
    <3> QED
      BY <1>1, <1>7, <3>1, <3>2
  <2>2. CASE i < j
    BY <1>3, <2>2
  <2>3. CASE i = k /\ j = k - 1
    BY <2>3
  <2> QED
    BY <2>1, <2>2, <2>3
<1>8. \A i \in 1..n : Row(R, h[at[i]], ToSet(gs[i]))
  BY <1>3, <1>5
<1> QED
  BY <1>1, <1>2, <1>4, <1>6, <1>7, <1>8, RowsMoved DEF n, h

-----------------------------------------------------------------------------
(* The two passes                                                          *)

\* The dependencies as a pass follows them.
Along(forward) == IF forward THEN deps ELSE Turned(deps)

\* What the loop of the last group goes through.
Movable(R, S) ==
  {s \in [groups : Seq(Seq(S)), at : Nat] : Rows(R, s.groups, S) /\ s.at <= Len(s.groups)}

LEMMA MovedUpIs ==
  ASSUME deps \subseteq Txs \X Txs, NEW S, NEW forward \in BOOLEAN, NEW s \in Movable(Along(forward), S)
  PROVE  MovedUp(s, forward) \in Movable(Along(forward), S)
<1> DEFINE R == Along(forward)
           gs == s.groups
           k == s.at
           n == Len(gs)
           cur == ToSet(gs[k])
           prev == ToSet(gs[k - 1])
           tied == IF forward THEN Feeds(prev, cur) ELSE Feeds(cur, prev)
           ahead == IF forward THEN Higher(cur, prev) ELSE Higher(prev, cur)
<1>1. /\ gs \in Seq(Seq(S)) /\ k \in Nat /\ Rows(R, gs, S) /\ k <= n /\ n \in Nat
      /\ s = [groups |-> gs, at |-> k]
  BY DEF Movable
<1>2. MovedUp(s, forward) =
        IF k <= 1 THEN s
        ELSE IF tied THEN [groups |-> Combined(gs, k), at |-> k - 1]
        ELSE IF ahead THEN [groups |-> Swapped(gs, k), at |-> k - 1]
        ELSE [s EXCEPT !.at = 0]
  BY DEF MovedUp, Swapped
<1>3. \A g, i : g \in Seq(Seq(S)) /\ i \in Nat /\ Rows(R, g, S) /\ i <= Len(g)
                  => [groups |-> g, at |-> i] \in Movable(R, S)
  BY DEF Movable
<1>4. [s EXCEPT !.at = 0] = [groups |-> gs, at |-> 0]
  BY <1>1
<1>5. tied \/ Apart(R, cur, prev) \/ k <= 1
  <2>1. CASE k > 1 /\ ~ tied
    <3>1. k \in 1..n /\ k - 1 \in 1..n /\ k - 1 < k
      BY <1>1, <2>1
    <3>2. Apart(R, prev, cur)
      BY <1>1, <3>1 DEF Rows
    <3>3. \A x, y : <<x, y>> \in R <=> IF forward THEN <<x, y>> \in deps ELSE <<x, y>> \in Turned(deps)
      BY DEF Along
    <3>4. \A x, y : <<x, y>> \in Turned(deps) => <<y, x>> \in deps
      BY TurnedIs
    <3>5. \A x \in cur, y \in prev : <<y, x>> \notin R
      <4>1. CASE forward
        <5>1. ~ Feeds(prev, cur)
          BY <2>1, <4>1
        <5>2. \A x \in cur, y \in prev : <<y, x>> \notin deps
          BY <5>1 DEF Feeds
        <5> QED
          BY <3>3, <4>1, <5>2
      <4>2. CASE ~ forward
        <5>1. ~ Feeds(cur, prev)
          BY <2>1, <4>2
        <5>2. \A x \in cur, y \in prev : <<x, y>> \notin deps
          BY <5>1 DEF Feeds
        <5> QED
          BY <3>3, <3>4, <4>2, <5>2
      <4> QED
        BY <4>1, <4>2
    <3> QED
      BY <3>2, <3>5 DEF Apart
  <2> QED
    BY <1>1, <2>1
<1> HIDE DEF R, gs, k, n, cur, prev, tied, ahead
<1>6. CASE k <= 1
  BY <1>1, <1>2, <1>6, <1>3
<1>7. CASE k > 1 /\ tied
  <2>1. k \in 2..Len(gs)
    BY <1>1, <1>7 DEF n
  <2>8. Len(Combined(gs, k)) = Len(gs) - 1 /\ Combined(gs, k) \in Seq(Seq(S))
    BY <1>1, <2>1, CombinedIs
  <2>9. Rows(R, Combined(gs, k), S)
    BY <1>1, <2>1, RowsCombined
  <2>2. Rows(R, Combined(gs, k), S) /\ Len(Combined(gs, k)) = n - 1
        /\ Combined(gs, k) \in Seq(Seq(S)) /\ k - 1 <= Len(Combined(gs, k))
    BY <1>1, <2>8, <2>9 DEF n
  <2>3. ~ (k <= 1) /\ k - 1 \in Nat /\ k - 1 <= n - 1
    BY <1>1, <1>7
  <2>4. MovedUp(s, forward) = [groups |-> Combined(gs, k), at |-> k - 1]
    BY <1>2, <1>7, <2>3, Zenon
  <2>5. [groups |-> Combined(gs, k), at |-> k - 1] \in Movable(R, S)
    BY <1>3, <2>2, <2>3, Zenon
  <2> QED
    BY <2>4, <2>5 DEF R
<1>8. CASE k > 1 /\ ~ tied /\ ahead
  <2>1. k \in 2..Len(gs)
    BY <1>1, <1>8 DEF n
  <2>2. Apart(R, ToSet(gs[k]), ToSet(gs[k - 1]))
    BY <1>1, <1>5, <1>8 DEF cur, prev
  <2>3. Rows(R, Swapped(gs, k), S) /\ Len(Swapped(gs, k)) = n
        /\ Swapped(gs, k) \in Seq(Seq(S))
    BY <1>1, <2>1, <2>2, RowsSwapped, SwappedIs DEF n
  <2>4. ~ (k <= 1) /\ k - 1 \in Nat /\ k - 1 <= n
    BY <1>1, <1>8
  <2>5. MovedUp(s, forward) = [groups |-> Swapped(gs, k), at |-> k - 1]
    BY <1>2, <1>8, <2>4, Zenon
  <2>6. [groups |-> Swapped(gs, k), at |-> k - 1] \in Movable(R, S)
    BY <1>3, <2>3, <2>4, Zenon
  <2> QED
    BY <2>5, <2>6 DEF R
<1>9. CASE k > 1 /\ ~ tied /\ ~ ahead
  <2>1. ~ (k <= 1) /\ 0 \in Nat /\ 0 <= n
    BY <1>1, <1>9
  <2>2. MovedUp(s, forward) = [s EXCEPT !.at = 0]
    BY <1>2, <1>9, <2>1, Zenon
  <2>3. MovedUp(s, forward) = [groups |-> gs, at |-> 0]
    BY <1>4, <2>2
  <2>4. 0 <= Len(gs)
    BY <2>1 DEF n
  <2>5. [groups |-> gs, at |-> 0] \in Movable(R, S)
    BY <1>1, <1>3, <2>1, <2>4, Zenon
  <2> QED
    BY <2>3, <2>5 DEF R
<1> QED
  BY <1>1, <1>6, <1>7, <1>8, <1>9 DEF R

LEMMA SettledIs ==
  ASSUME deps \subseteq Txs \X Txs, NEW S, NEW forward \in BOOLEAN, NEW gs, Rows(Along(forward), gs, S)
  PROVE  Rows(Along(forward), Settled(gs, forward), S)
<1> DEFINE R == Along(forward)
           n == Len(gs)
           D == Movable(R, S)
           x == [groups |-> gs, at |-> n]
           step == [i \in 1..n |-> [s \in D |-> MovedUp(s, forward)]]
           Rec(f) == f = [i \in 0..Len(gs) |->
                            IF i = 0 THEN [groups |-> gs, at |-> Len(gs)]
                            ELSE MovedUp(f[i - 1], forward)]
<1>1. gs \in Seq(Seq(S)) /\ n \in Nat
  BY DEF Rows
<1>2. x \in D
  BY <1>1 DEF Movable
<1>3. \A i \in 1..n : \A s \in D : step[i][s] = MovedUp(s, forward)
  OBVIOUS
<1>4. \A s \in D : MovedUp(s, forward) \in D
  BY MovedUpIs
<1> HIDE DEF D, step, n
<1>5. \A i \in 1..n : \A s \in D : step[i][s] \in D
  BY <1>3, <1>4
<1> HIDE DEF x
<1>6. PICK f : Course(f, D, x, step, n)
  BY <1>1, <1>2, <1>5, Recursion
<1>7. Rec(f)
  <2>1. \A i \in 0..n : f[i] = IF i = 0 THEN x ELSE MovedUp(f[i - 1], forward)
    <3> TAKE i \in 0..n
    <3>1. i # 0 => i \in 1..n /\ i - 1 \in 0..n
      BY <1>1
    <3> QED
      BY <1>3, <1>6, <3>1 DEF Course
  <2>2. f = [i \in 0..n |-> f[i]]
    BY <1>6 DEF Course
  <2> QED
    BY <2>1, <2>2 DEF n, x
<1>8. Rec(Moves(gs, forward))
  BY <1>7 DEF Moves
<1> DEFINE g == Moves(gs, forward)
<1>9. g[0] = x /\ \A i \in 1..n : g[i] = MovedUp(g[i - 1], forward)
  <2>1. 0 \in 0..n /\ \A i \in 1..n : i \in 0..n /\ i # 0
    BY <1>1
  <2> QED
    BY <1>8, <2>1 DEF n, x
<1> HIDE DEF g, Rec
<1> DEFINE Good == {i \in 0..n : g[i] \in D}
<1>10. 0 \in Good
  BY <1>1, <1>2, <1>9
<1>11. \A i \in 1..n : i - 1 \in Good => i \in Good
  BY <1>1, <1>4, <1>9
<1> HIDE DEF Good
<1>12. \A i \in 0..n : i \in Good
  BY <1>1, <1>10, <1>11, Upwards
<1>13. n \in 0..n
  BY <1>1
<1>14. g[n] \in D
  BY <1>12, <1>13 DEF Good
<1> QED
  BY <1>14 DEF g, n, D, R, Movable, Settled

\* The first i elements of a list.
Firsts(lin, i) == {lin[j] : j \in 1..i}

LEMMA FirstsAre ==
  ASSUME NEW R, NEW lin, NEW S, Row(R, lin, S)
  PROVE  /\ Firsts(lin, 0) = {}
         /\ Firsts(lin, Len(lin)) = S
         /\ \A i \in 1..Len(lin) : /\ Firsts(lin, i) = Firsts(lin, i - 1) \cup {lin[i]}
                                   /\ Apart(R, Firsts(lin, i - 1), {lin[i]})
         /\ \A i \in 0..Len(lin) : Firsts(lin, i) \subseteq S
<1>1. lin \in Seq(S) /\ Len(lin) \in Nat /\ \A i \in 1..Len(lin) : lin[i] \in S
  BY DEF Row
<1>2. Firsts(lin, 0) = {}
  BY DEF Firsts
<1>3. \A i \in 0..Len(lin) : Firsts(lin, i) \subseteq S
  BY <1>1 DEF Firsts
<1>4. Firsts(lin, Len(lin)) = S
  BY <1>1 DEF Firsts, Row
<1>5. ASSUME NEW i \in 1..Len(lin)
      PROVE  /\ Firsts(lin, i) = Firsts(lin, i - 1) \cup {lin[i]}
             /\ Apart(R, Firsts(lin, i - 1), {lin[i]})
  <2>1. \A j : j \in 1..i <=> j \in 1..(i - 1) \/ j = i
    OBVIOUS
  <2>2. Firsts(lin, i) = Firsts(lin, i - 1) \cup {lin[i]}
    BY <2>1 DEF Firsts
  <2>3. \A j \in 1..(i - 1) : j \in 1..Len(lin) /\ j < i
    BY <1>1
  <2>4. \A j \in 1..(i - 1) : lin[j] # lin[i] /\ <<lin[i], lin[j]>> \notin R
    BY <2>3 DEF Row
  <2>5. Apart(R, Firsts(lin, i - 1), {lin[i]})
    BY <2>4 DEF Apart, Firsts
  <2> QED
    BY <2>2, <2>5
<1> QED
  BY <1>2, <1>3, <1>4, <1>5

LEMMA GroupedIs ==
  ASSUME deps \subseteq Txs \X Txs, NEW S, NEW forward \in BOOLEAN, NEW lin,
         Row(Along(forward), lin, S)
  PROVE  Rows(Along(forward), Grouped(lin, forward)[Len(lin)], S)
<1> DEFINE R == Along(forward)
           n == Len(lin)
           Next(i, g) == Settled(Append(g, <<lin[i]>>), forward)
           D == [i \in 0..n |-> {g \in Seq(Seq(S)) : Rows(R, g, Firsts(lin, i))}]
           step == [i \in 1..n |-> [g \in Seq(Seq(S)) |-> Next(i, g)]]
           Rec(f) == f = [i \in 0..Len(lin) |->
                            IF i = 0 THEN <<>>
                            ELSE Settled(Append(f[i - 1], <<lin[i]>>), forward)]
<1>1. lin \in Seq(S) /\ n \in Nat
  BY DEF Row
<1>2. /\ Firsts(lin, 0) = {}
      /\ Firsts(lin, n) = S
      /\ \A i \in 1..n : /\ Firsts(lin, i) = Firsts(lin, i - 1) \cup {lin[i]}
                         /\ Apart(R, Firsts(lin, i - 1), {lin[i]})
      /\ \A i \in 0..n : Firsts(lin, i) \subseteq S
  BY FirstsAre
<1>3. \A A \in SUBSET S : \A g \in Seq(Seq(A)) : g \in Seq(Seq(S))
  <2>1. \A A \in SUBSET S : Seq(A) \subseteq Seq(S)
    OBVIOUS
  <2> QED
    BY <2>1
<1>4. \A i \in 1..n : \A g \in Seq(Seq(S)) : step[i][g] = Next(i, g)
  OBVIOUS
<1>5. \A i \in 0..n : D[i] = {g \in Seq(Seq(S)) : Rows(R, g, Firsts(lin, i))}
  OBVIOUS
<1> HIDE DEF D, step, n, Rec
<1>6. <<>> \in D[0]
  <2>1. Rows(R, <<>>, {})
    BY DEF Rows
  <2>2. <<>> \in Seq(Seq(S)) /\ 0 \in 0..n
    BY <1>1
  <2>3. Rows(R, <<>>, Firsts(lin, 0))
    BY <1>2, <2>1, Zenon
  <2> QED
    BY <1>5, <2>2, <2>3
<1>7. ASSUME NEW i \in 1..n, NEW g \in D[i - 1] PROVE step[i][g] \in D[i] /\ g \in Seq(Seq(S))
  <2>1. i - 1 \in 0..n /\ i \in 0..n
    BY <1>1
  <2>2. g \in Seq(Seq(S)) /\ Rows(R, g, Firsts(lin, i - 1))
    BY <1>5, <1>7, <2>1
  <2>3. Rows(R, Append(g, <<lin[i]>>), Firsts(lin, i))
    <3>1. Rows(R, Append(g, <<lin[i]>>), Firsts(lin, i - 1) \cup {lin[i]})
      BY <1>2, <2>2, RowsAppend
    <3> QED
      BY <1>2, <3>1, Zenon
  <2> HIDE DEF R
  <2>4. Rows(R, Next(i, g), Firsts(lin, i))
    BY <2>3, SettledIs DEF R
  <2>5. Next(i, g) \in Seq(Seq(S))
    <3>1. Next(i, g) \in Seq(Seq(Firsts(lin, i)))
      BY <2>4 DEF Rows
    <3> QED
      BY <1>2, <1>3, <2>1, <3>1
  <2> QED
    BY <1>4, <1>5, <2>1, <2>2, <2>4, <2>5
<1> HIDE DEF Next, R
<1>8. PICK f : Stages(f, D, <<>>, step, n)
  BY <1>1, <1>6, <1>7, StagedRecursion
<1>9. Rec(f)
  <2>1. \A i \in 0..n : f[i] = IF i = 0 THEN <<>> ELSE Next(i, f[i - 1])
    <3> TAKE i \in 0..n
    <3>1. CASE i = 0
      BY <1>8, <3>1 DEF Stages
    <3>2. CASE i # 0
      <4>1. i \in 1..n /\ i - 1 \in 0..n
        BY <1>1, <3>2
      <4>2. f[i] = step[i][f[i - 1]] /\ f[i - 1] \in D[i - 1]
        BY <1>8, <4>1 DEF Stages
      <4> QED
        BY <1>4, <1>7, <3>2, <4>1, <4>2
    <3> QED
      BY <3>1, <3>2
  <2>2. f = [i \in 0..n |-> f[i]]
    BY <1>8 DEF Stages
  <2> QED
    BY <2>1, <2>2 DEF n, Rec, Next
<1>10. Rec(Grouped(lin, forward))
  BY <1>9 DEF Grouped, Rec
<1> DEFINE g == Grouped(lin, forward)
<1>11. g[0] = <<>> /\ \A i \in 1..n : g[i] = Next(i, g[i - 1])
  <2>1. 0 \in 0..n /\ \A i \in 1..n : i \in 0..n /\ i # 0
    BY <1>1
  <2> QED
    BY <1>10, <2>1 DEF n, Rec, Next
<1> HIDE DEF g
<1> DEFINE Good == {i \in 0..n : g[i] \in D[i]}
<1>12. 0 \in Good
  BY <1>1, <1>6, <1>11
<1>13. ASSUME NEW i \in 1..n, i - 1 \in Good PROVE i \in Good
  <2>1. g[i - 1] \in D[i - 1] /\ i \in 0..n
    BY <1>1, <1>13
  <2>2. step[i][g[i - 1]] \in D[i] /\ g[i - 1] \in Seq(Seq(S))
    BY <1>7, <2>1
  <2>3. g[i] = step[i][g[i - 1]]
    BY <1>4, <1>11, <2>2
  <2> QED
    BY <2>1, <2>2, <2>3
<1> HIDE DEF Good
<1>14. \A i \in 0..n : i \in Good
  BY <1>1, <1>12, <1>13, Upwards
<1>15. n \in 0..n
  BY <1>1
<1>16. g[n] \in D[n]
  BY <1>14, <1>15 DEF Good
<1> QED
  BY <1>2, <1>5, <1>15, <1>16 DEF g, n, R

LEMMA PassIs ==
  ASSUME deps \subseteq Txs \X Txs, NEW forward \in BOOLEAN, NEW lin, Row(deps, lin, Txs)
  PROVE  Row(deps, PostLinearizePass(lin, forward), Txs)
<1>1. \A x, y : <<x, y>> \in Turned(Turned(deps)) <=> <<x, y>> \in deps
  <2> DEFINE T == Turned(deps)
  <2>1. T \subseteq Txs \X Txs /\ \A x, y : <<x, y>> \in T <=> <<y, x>> \in deps
    BY TurnedIs
  <2> HIDE DEF T
  <2>2. \A x, y : <<x, y>> \in Turned(T) <=> <<y, x>> \in T
    BY <2>1, TurnedIs
  <2> QED
    BY <2>1, <2>2 DEF T
<1>2. CASE forward
  <2> DEFINE flat == FlattenSeq(Grouped(lin, forward)[Len(lin)])
  <2>1. Row(Along(forward), lin, Txs) /\ Along(forward) = deps
    BY <1>2 DEF Along
  <2>2. Row(deps, flat, Txs)
    BY <2>1, GroupedIs, FlattenRow
  <2>3. PostLinearizePass(lin, forward) = flat
    BY <1>2 DEF PostLinearizePass
  <2> QED
    BY <2>2, <2>3
<1>3. CASE ~ forward
  <2> DEFINE rev == Reverse(lin)
             flat == FlattenSeq(Grouped(rev, forward)[Len(lin)])
  <2>1. Along(forward) = Turned(deps) /\ Turned(deps) \subseteq Txs \X Txs
    BY <1>3 DEF Along, Turned
  <2>2. Row(Turned(Turned(deps)), lin, Txs)
    BY <1>1 DEF Row
  <2>3. Row(Along(forward), rev, Txs)
    BY <2>1, <2>2, RowReversed
  <2>4. Len(rev) = Len(lin)
    BY DEF Reverse, Row
  <2>5. Row(Turned(deps), flat, Txs)
    BY <2>1, <2>3, <2>4, GroupedIs, FlattenRow
  <2>6. Row(deps, Reverse(flat), Txs)
    BY <2>5, RowReversed
  <2>7. PostLinearizePass(lin, forward) = Reverse(flat)
    BY <1>3 DEF PostLinearizePass
  <2> QED
    BY <2>6, <2>7
<1> QED
  BY <1>2, <1>3

LEMMA PostLinearizeIs ==
  ASSUME deps \subseteq Txs \X Txs, NEW lin, Row(deps, lin, Txs)
  PROVE  Row(deps, PostLinearize(lin), Txs)
<1>1. Row(deps, PostLinearizePass(lin, TRUE), Txs)
  BY PassIs
<1> QED
  BY <1>1, PassIs DEF PostLinearize

-----------------------------------------------------------------------------
(* Chunks                                                                  *)

\* No chunk up to the one at place n has a higher feerate than the one before it.
FallsTo(cs, n) == \A i \in 2..n : ~ Higher(ToSet(cs[i]), ToSet(cs[i - 1]))
Falls(cs) == FallsTo(cs, Len(cs))

\* The states of the loop of chunkify() after i turns.
Absorbing(R, S, i, n) ==
  {s \in Seq(Seq(S)) : /\ Rows(R, s, S) /\ FallsTo(s, Len(s) - 1)
                       /\ ~ Absorbs(s) \/ Len(s) + i <= n}

LEMMA AbsorbIs ==
  ASSUME NEW R, NEW S, NEW n \in Nat, NEW i \in 1..n, NEW s \in Absorbing(R, S, i - 1, n)
  PROVE  Absorb(s) \in Absorbing(R, S, i, n)
<1>1. s \in Seq(Seq(S)) /\ Rows(R, s, S) /\ FallsTo(s, Len(s) - 1) /\ Len(s) \in Nat
  BY DEF Absorbing
<1>2. CASE ~ Absorbs(s)
  <2>1. Absorb(s) = s
    BY <1>2 DEF Absorb
  <2> QED
    BY <1>1, <1>2, <2>1 DEF Absorbing
<1>3. CASE Absorbs(s)
  <2> DEFINE k == Len(s)  c == Combined(s, k)
  <2>1. Absorb(s) = c /\ k \in 2..k
    BY <1>1, <1>3 DEF Absorb, Absorbs
  <2>2. c \in Seq(Seq(S)) /\ Len(c) = k - 1 /\ \A j \in 1..(k - 1) : j < k - 1 => c[j] = s[j]
    BY <1>1, <2>1, CombinedIs
  <2>3. Rows(R, c, S)
    BY <1>1, <2>1, RowsCombined
  <2>4. k + (i - 1) <= n
    BY <1>3 DEF Absorbing
  <2> HIDE DEF c
  <2>5. Len(c) + i <= n
    BY <1>1, <2>2, <2>4
  <2>6. FallsTo(c, Len(c) - 1)
    <3> SUFFICES ASSUME NEW j \in 2..(Len(c) - 1)
                 PROVE  ~ Higher(ToSet(c[j]), ToSet(c[j - 1]))
      BY DEF FallsTo
    <3>1. /\ j \in 1..(k - 1) /\ j < k - 1 /\ j - 1 \in 1..(k - 1) /\ j - 1 < k - 1
          /\ j \in 2..(Len(s) - 1)
      BY <1>1, <2>2
    <3>2. c[j] = s[j] /\ c[j - 1] = s[j - 1]
      BY <2>2, <3>1
    <3> QED
      BY <1>1, <3>1, <3>2 DEF FallsTo
  <2> QED
    BY <2>1, <2>2, <2>3, <2>5, <2>6 DEF Absorbing
<1> QED
  BY <1>2, <1>3

LEMMA AbsorbedIs ==
  ASSUME NEW R, NEW S, NEW cs, Rows(R, cs, S), FallsTo(cs, Len(cs) - 1)
  PROVE  Rows(R, Absorbed(cs), S) /\ Falls(Absorbed(cs))
<1> DEFINE n == Len(cs)
           D == [i \in 0..n |-> Absorbing(R, S, i, n)]
           step == [i \in 1..n |-> [s \in Seq(Seq(S)) |-> Absorb(s)]]
           Rec(f) == f = [i \in 0..Len(cs) |-> IF i = 0 THEN cs ELSE Absorb(f[i - 1])]
<1>1. cs \in Seq(Seq(S)) /\ n \in Nat
  BY DEF Rows
<1>2. \A i \in 1..n : \A s \in Seq(Seq(S)) : step[i][s] = Absorb(s)
  OBVIOUS
<1>3. \A i \in 0..n : D[i] = Absorbing(R, S, i, n)
  OBVIOUS
<1>4. cs \in Absorbing(R, S, 0, n)
  BY <1>1 DEF Absorbing
<1> HIDE DEF D, step, n, Rec
<1>5. cs \in D[0]
  <2>1. 0 \in 0..n
    BY <1>1
  <2> QED
    BY <1>3, <1>4, <2>1
<1>6. ASSUME NEW i \in 1..n, NEW s \in D[i - 1]
      PROVE  step[i][s] \in D[i] /\ step[i][s] = Absorb(s)
  <2>1. i - 1 \in 0..n /\ i \in 0..n
    BY <1>1
  <2>2. s \in Absorbing(R, S, i - 1, n)
    BY <1>3, <2>1
  <2>3. s \in Seq(Seq(S))
    BY <2>2 DEF Absorbing
  <2>4. Absorb(s) \in Absorbing(R, S, i, n)
    BY <1>1, <2>2, AbsorbIs
  <2> QED
    BY <1>2, <1>3, <2>1, <2>3, <2>4
<1>7. PICK f : Stages(f, D, cs, step, n)
  BY <1>1, <1>5, <1>6, StagedRecursion
<1>8. Rec(f)
  <2>1. \A i \in 0..n : f[i] = IF i = 0 THEN cs ELSE Absorb(f[i - 1])
    <3> TAKE i \in 0..n
    <3>1. CASE i = 0
      BY <1>7, <3>1 DEF Stages
    <3>2. CASE i # 0
      <4>1. i \in 1..n /\ i - 1 \in 0..n
        BY <1>1, <3>2
      <4>2. f[i] = step[i][f[i - 1]] /\ f[i - 1] \in D[i - 1]
        BY <1>7, <4>1 DEF Stages
      <4> QED
        BY <1>6, <3>2, <4>1, <4>2
    <3> QED
      BY <3>1, <3>2
  <2>2. f = [i \in 0..n |-> f[i]]
    BY <1>7 DEF Stages
  <2> QED
    BY <2>1, <2>2 DEF n, Rec
<1>9. Rec(Absorptions(cs))
  BY <1>8 DEF Absorptions, Rec
<1> DEFINE g == Absorptions(cs)
<1>10. g[0] = cs /\ \A i \in 1..n : g[i] = Absorb(g[i - 1])
  <2>1. 0 \in 0..n /\ \A i \in 1..n : i \in 0..n /\ i # 0
    BY <1>1
  <2> QED
    BY <1>9, <2>1 DEF n, Rec
<1> HIDE DEF g
<1> DEFINE Good == {i \in 0..n : g[i] \in D[i]}
<1>11. 0 \in Good
  BY <1>1, <1>5, <1>10
<1>12. ASSUME NEW i \in 1..n, i - 1 \in Good PROVE i \in Good
  <2>1. g[i - 1] \in D[i - 1] /\ i \in 0..n
    BY <1>1, <1>12
  <2> QED
    BY <1>6, <1>10, <2>1
<1> HIDE DEF Good
<1>13. \A i \in 0..n : i \in Good
  BY <1>1, <1>11, <1>12, Upwards
<1>14. n \in 0..n
  BY <1>1
<1> DEFINE a == g[n]
<1>15. a \in Absorbing(R, S, n, n)
  BY <1>3, <1>13, <1>14 DEF Good
<1>16. Absorbed(cs) = a
  BY DEF Absorbed, g, n
<1> HIDE DEF a
<1>17. a \in Seq(Seq(S)) /\ Rows(R, a, S) /\ FallsTo(a, Len(a) - 1) /\ Len(a) \in Nat
  BY <1>15 DEF Absorbing
<1>18. ~ Absorbs(a)
  <2>1. CASE Len(a) + n <= n
    <3>1. ~ (Len(a) >= 2)
      BY <1>1, <1>17, <2>1
    <3> QED
      BY <3>1 DEF Absorbs
  <2> QED
    BY <1>15, <2>1 DEF Absorbing
<1>19. Falls(a)
  <2> SUFFICES ASSUME NEW i \in 2..Len(a) PROVE ~ Higher(ToSet(a[i]), ToSet(a[i - 1]))
    BY DEF Falls, FallsTo
  <2>1. CASE i = Len(a)
    <3>1. Len(a) >= 2
      BY <1>17, <2>1
    <3> QED
      BY <1>18, <2>1, <3>1 DEF Absorbs
  <2>2. CASE i # Len(a)
    <3>1. i \in 2..(Len(a) - 1)
      BY <1>17, <2>2
    <3> QED
      BY <1>17, <3>1 DEF FallsTo
  <2> QED
    BY <2>1, <2>2
<1> QED
  BY <1>16, <1>17, <1>19

LEMMA ChunkedIs ==
  ASSUME NEW R, NEW S, NEW lin, Row(R, lin, S)
  PROVE  Rows(R, Chunkify(lin), S) /\ Falls(Chunkify(lin))
<1> DEFINE n == Len(lin)
           Next(i, g) == Absorbed(Append(g, <<lin[i]>>))
           D == [i \in 0..n |->
                   {g \in Seq(Seq(S)) : Rows(R, g, Firsts(lin, i)) /\ Falls(g)}]
           step == [i \in 1..n |-> [g \in Seq(Seq(S)) |-> Next(i, g)]]
           Rec(f) == f = [i \in 0..Len(lin) |->
                            IF i = 0 THEN <<>> ELSE Absorbed(Append(f[i - 1], <<lin[i]>>))]
<1>1. lin \in Seq(S) /\ n \in Nat
  BY DEF Row
<1>2. /\ Firsts(lin, 0) = {}
      /\ Firsts(lin, n) = S
      /\ \A i \in 1..n : /\ Firsts(lin, i) = Firsts(lin, i - 1) \cup {lin[i]}
                         /\ Apart(R, Firsts(lin, i - 1), {lin[i]})
      /\ \A i \in 0..n : Firsts(lin, i) \subseteq S
  BY FirstsAre
<1>3. \A A \in SUBSET S : \A g \in Seq(Seq(A)) : g \in Seq(Seq(S))
  <2>1. \A A \in SUBSET S : Seq(A) \subseteq Seq(S)
    OBVIOUS
  <2> QED
    BY <2>1
<1>4. \A i \in 1..n : \A g \in Seq(Seq(S)) : step[i][g] = Next(i, g)
  OBVIOUS
<1>5. \A i \in 0..n : D[i] = {g \in Seq(Seq(S)) : Rows(R, g, Firsts(lin, i)) /\ Falls(g)}
  OBVIOUS
<1> HIDE DEF D, step, n, Rec
<1>6. <<>> \in D[0]
  <2>1. Rows(R, <<>>, {})
    BY DEF Rows
  <2>2. <<>> \in Seq(Seq(S)) /\ 0 \in 0..n /\ Falls(<<>>)
    BY <1>1 DEF Falls, FallsTo
  <2>3. Rows(R, <<>>, Firsts(lin, 0))
    BY <1>2, <2>1, Zenon
  <2> QED
    BY <1>5, <2>2, <2>3
<1>7. ASSUME NEW i \in 1..n, NEW g \in D[i - 1] PROVE step[i][g] \in D[i] /\ g \in Seq(Seq(S))
  <2> DEFINE h == Append(g, <<lin[i]>>)
  <2>1. i - 1 \in 0..n /\ i \in 0..n
    BY <1>1
  <2>2. g \in Seq(Seq(S)) /\ Rows(R, g, Firsts(lin, i - 1)) /\ Falls(g)
    BY <1>5, <1>7, <2>1
  <2>3. Rows(R, h, Firsts(lin, i))
    <3>1. Rows(R, h, Firsts(lin, i - 1) \cup {lin[i]})
      BY <1>2, <2>2, RowsAppend
    <3> QED
      BY <1>2, <3>1, Zenon
  <2>4. FallsTo(h, Len(h) - 1)
    <3>1. g \in Seq(Seq(S \cup {lin[i]})) /\ <<lin[i]>> \in Seq(S \cup {lin[i]})
      <4>1. Seq(S) \subseteq Seq(S \cup {lin[i]})
        OBVIOUS
      <4> QED
        BY <2>2, <4>1
    <3>2. Len(h) = Len(g) + 1 /\ Len(g) \in Nat /\ \A j \in 1..Len(g) : h[j] = g[j]
      BY <3>1
    <3> HIDE DEF h
    <3> SUFFICES ASSUME NEW j \in 2..(Len(h) - 1)
                 PROVE  ~ Higher(ToSet(h[j]), ToSet(h[j - 1]))
      BY DEF FallsTo
    <3>3. j \in 2..Len(g) /\ j \in 1..Len(g) /\ j - 1 \in 1..Len(g)
      BY <3>2
    <3>4. h[j] = g[j] /\ h[j - 1] = g[j - 1]
      BY <3>2, <3>3
    <3> QED
      BY <2>2, <3>3, <3>4 DEF Falls, FallsTo
  <2> HIDE DEF h
  <2>5. Rows(R, Next(i, g), Firsts(lin, i)) /\ Falls(Next(i, g))
    BY <2>3, <2>4, AbsorbedIs DEF h
  <2>6. Next(i, g) \in Seq(Seq(S))
    <3>1. Next(i, g) \in Seq(Seq(Firsts(lin, i)))
      BY <2>5 DEF Rows
    <3> QED
      BY <1>2, <1>3, <2>1, <3>1
  <2> QED
    BY <1>4, <1>5, <2>1, <2>2, <2>5, <2>6
<1> HIDE DEF Next
<1>8. PICK f : Stages(f, D, <<>>, step, n)
  BY <1>1, <1>6, <1>7, StagedRecursion
<1>9. Rec(f)
  <2>1. \A i \in 0..n : f[i] = IF i = 0 THEN <<>> ELSE Next(i, f[i - 1])
    <3> TAKE i \in 0..n
    <3>1. CASE i = 0
      BY <1>8, <3>1 DEF Stages
    <3>2. CASE i # 0
      <4>1. i \in 1..n /\ i - 1 \in 0..n
        BY <1>1, <3>2
      <4>2. f[i] = step[i][f[i - 1]] /\ f[i - 1] \in D[i - 1]
        BY <1>8, <4>1 DEF Stages
      <4> QED
        BY <1>4, <1>7, <3>2, <4>1, <4>2
    <3> QED
      BY <3>1, <3>2
  <2>2. f = [i \in 0..n |-> f[i]]
    BY <1>8 DEF Stages
  <2> QED
    BY <2>1, <2>2 DEF n, Rec, Next
<1>10. Rec(Chunked(lin))
  BY <1>9 DEF Chunked, Rec
<1> DEFINE g == Chunked(lin)
<1>11. g[0] = <<>> /\ \A i \in 1..n : g[i] = Next(i, g[i - 1])
  <2>1. 0 \in 0..n /\ \A i \in 1..n : i \in 0..n /\ i # 0
    BY <1>1
  <2> QED
    BY <1>10, <2>1 DEF n, Rec, Next
<1> HIDE DEF g
<1> DEFINE Good == {i \in 0..n : g[i] \in D[i]}
<1>12. 0 \in Good
  BY <1>1, <1>6, <1>11
<1>13. ASSUME NEW i \in 1..n, i - 1 \in Good PROVE i \in Good
  <2>1. g[i - 1] \in D[i - 1] /\ i \in 0..n
    BY <1>1, <1>13
  <2>2. step[i][g[i - 1]] \in D[i] /\ g[i - 1] \in Seq(Seq(S))
    BY <1>7, <2>1
  <2>3. g[i] = step[i][g[i - 1]]
    BY <1>4, <1>11, <2>2
  <2> QED
    BY <2>1, <2>2, <2>3
<1> HIDE DEF Good
<1>14. \A i \in 0..n : i \in Good
  BY <1>1, <1>12, <1>13, Upwards
<1>15. n \in 0..n
  BY <1>1
<1>16. g[n] \in D[n]
  BY <1>14, <1>15 DEF Good
<1> QED
  BY <1>2, <1>5, <1>15, <1>16 DEF g, n, Chunkify

-----------------------------------------------------------------------------
(* The linearization that is extracted                                     *)

LEMMA DrainsRow ==
  ASSUME NEW D, NEW S, NEW before, NEW less, NEW n \in Nat, Drains(D, S, before, less, n)
  PROVE  Row(before, D, S) /\ Len(D) = n /\ DOMAIN D = 1..n
<1>1. D \in [1..n -> S]
  BY DEF Drains
<1>2. D \in Seq(S) /\ Len(D) = n
  BY <1>1, FunctionSeq
<1>3. Row(before, D, S)
  BY <1>2 DEF Drains, Row
<1> QED
  BY <1>1, <1>2, <1>3

\* Rows of sets one after the other.
LEMMA RowsOf ==
  ASSUME NEW R, NEW S, NEW n \in Nat, NEW A \in [1..n -> (SUBSET S) \ {{}}], NEW gs,
         gs = [i \in 1..n |-> gs[i]],
         \A i \in 1..n : Row(R, gs[i], A[i]),
         \A i, j \in 1..n : i < j => Apart(R, A[i], A[j]),
         \A x \in S : \E i \in 1..n : x \in A[i]
  PROVE  Rows(R, gs, S) /\ Len(gs) = n /\ \A i \in 1..n : ToSet(gs[i]) = A[i]
<1>1. \A i \in 1..n : A[i] \subseteq S /\ A[i] # {}
  OBVIOUS
<1>2. \A i \in 1..n : gs[i] \in Seq(S)
  <2> TAKE i \in 1..n
  <2>1. gs[i] \in Seq(A[i])
    BY DEF Row
  <2>2. \A B \in SUBSET S : Seq(B) \subseteq Seq(S)
    OBVIOUS
  <2> QED
    BY <1>1, <2>1, <2>2
<1>3. gs \in Seq(Seq(S)) /\ Len(gs) = n
  <2>1. gs \in [1..n -> Seq(S)]
    BY <1>2
  <2> QED
    BY <2>1, FunctionSeq
<1>4. \A i \in 1..n : ToSet(gs[i]) = A[i]
  BY RowSet
<1>5. \A i \in 1..n : gs[i] # <<>>
  <2>1. ToSet(<<>>) = {}
    BY DEF ToSet
  <2> QED
    BY <1>1, <1>4, <2>1
<1>6. \A i \in 1..n : Row(R, gs[i], ToSet(gs[i]))
  BY <1>4
<1>7. \A i, j \in 1..n : i < j => Apart(R, ToSet(gs[i]), ToSet(gs[j]))
  BY <1>4
<1>8. \A x \in S : \E i \in 1..n : x \in ToSet(gs[i])
  BY <1>4
<1> QED
  BY <1>3, <1>4, <1>5, <1>6, <1>7, <1>8 DEF Rows

LEMMA TxsFinite ==
  IsFiniteSet(Txs) /\ Cardinality(Txs) = Size /\ \A S \in SUBSET Txs : IsFiniteSet(S)
<1>1. IsFiniteSet(1..Size) /\ Cardinality(1..Size) = Size
  <2>1. Size \in Nat /\ 1 \in Int /\ Size \in Int
    BY LinearAssumption
  <2>2. IsFiniteSet(1..Size)
    BY <2>1, FS_Interval
  <2>3. Cardinality(1..Size) = IF 1 > Size THEN 0 ELSE Size - 1 + 1
    BY <2>1, FS_Interval
  <2> QED
    BY <2>1, <2>2, <2>3, LinearAssumption
<1> QED
  BY <1>1, FS_Subset DEF Txs

\* The graph is one of those there are, and the transactions pay and weigh something.
GraphAndRates == deps \subseteq Txs \X Txs /\ Acyclic(deps) /\ Rated

LEMMA EarlierTotal ==
  ASSUME Rated, NEW K, NEW at \in [K -> Side],
         \A x, y \in K : x # y => at[x] \cap at[y] = {},
         NEW less, \A x, y \in K : <<x, y>> \in less <=> Earlier(at[x], at[y])
  PROVE  Total(less, K)
<1>1. Total(ByRate(K, at, Heavier(K, at)), K)
  BY TiesTotal, ByRateTotal
<1>2. \A x, y \in K : <<x, y>> \in ByRate(K, at, Heavier(K, at)) <=> Earlier(at[x], at[y])
  BY DEF ByRate, Heavier, Earlier
<1> QED
  BY <1>1, <1>2 DEF Total

txLess == {e \in Txs \X Txs : Earlier({e[1]}, {e[2]})}

LEMMA TxsDrained ==
  ASSUME GraphAndRates, NEW S \in SUBSET Txs
  PROVE  Row(deps, Drained(S, deps, txLess), S)
<1> DEFINE at == [t \in S |-> {t}]
<1>1. IsFiniteSet(S) /\ Cardinality(S) \in Nat
  BY TxsFinite, FS_CardinalityType
<1>2. \A T \in (SUBSET S) \ {{}} : Ready(T, deps) # {}
  BY DEF GraphAndRates, Acyclic, Ready
<1>3. at \in [S -> Side] /\ \A x, y \in S : x # y => at[x] \cap at[y] = {}
  BY DEF Side
<1>4. \A x, y \in S : <<x, y>> \in txLess <=> Earlier(at[x], at[y])
  BY DEF txLess
<1> HIDE DEF at
<1>5. Total(txLess, S)
  BY <1>3, <1>4, EarlierTotal DEF GraphAndRates
<1>6. Sortable(S, deps, txLess)
  BY <1>1, <1>2, <1>5 DEF Sortable
<1> QED
  BY <1>1, <1>6, DrainedIs, DrainsRow

\* The sets of K divide S, and some of any of them have none of the others before them.
Divides(K, S) ==
  /\ K \subseteq (SUBSET S) \ {{}}
  /\ UNION K = S
  /\ \A A, B \in K : A # B => A \cap B = {}
Loopless(K) == \A Q \in (SUBSET K) \ {{}} : \E A \in Q : \A B \in Q \ {A} : ~ Feeds(B, A)

LEMMA ExtractedIs ==
  ASSUME GraphAndRates, Divides({c.txs : c \in chunks}, Txs), Loopless({c.txs : c \in chunks})
  PROVE  Row(deps, Extracted, Txs)
<1> DEFINE K == {c.txs : c \in chunks}
           pairs == {<<c.txs, d.txs>> : c \in chunks, d \in chunks}
           before == {e \in pairs : Feeds(e[1], e[2])}
           less == {e \in pairs : Earlier(e[1], e[2])}
           n == Cardinality(K)
           sets == Drained(K, before, less)
           gs == [i \in DOMAIN sets |-> Drained(sets[i], deps, txLess)]
           at == [A \in K |-> A]
<1>1. Extracted = FlattenSeq(gs)
  BY DEF Extracted, txLess
<1>2. IsFiniteSet(K) /\ n \in Nat
  <2>1. IsFiniteSet(SUBSET Txs)
    BY TxsFinite, FS_SUBSET
  <2>2. K \subseteq SUBSET Txs
    BY DEF Divides
  <2>3. IsFiniteSet(K)
    BY <2>1, <2>2, FS_Subset
  <2> QED
    BY <2>3, FS_CardinalityType
<1>4. Divides(K, Txs) /\ Loopless(K)
  OBVIOUS
<1> HIDE DEF gs, sets, before, less, n, pairs, K
<1>17. ASSUME NEW A \in K, NEW B \in K PROVE <<A, B>> \in pairs
  <2>1. PICK c \in chunks, d \in chunks : A = c.txs /\ B = d.txs
    BY DEF K
  <2> QED
    BY <2>1 DEF pairs
<1>3. \A A, B \in K : /\ <<A, B>> \in before <=> Feeds(A, B)
                      /\ <<A, B>> \in less <=> Earlier(A, B)
  BY <1>17 DEF before, less
<1>5. \A T \in (SUBSET K) \ {{}} : Ready(T, before) # {}
  BY <1>3, <1>4 DEF Ready, Loopless
<1>6. at \in [K -> Side] /\ (\A x, y \in K : x # y => at[x] \cap at[y] = {})
      /\ (\A A \in K : at[A] = A)
  BY <1>4 DEF Divides, Side
<1> HIDE DEF at
<1>7. Total(less, K)
  BY <1>3, <1>6, EarlierTotal DEF GraphAndRates
<1>8. Sortable(K, before, less)
  BY <1>2, <1>5, <1>7 DEF Sortable
<1>9. Drains(sets, K, before, less, n)
  BY <1>8, DrainedIs DEF sets, n
<1>10. DOMAIN sets = 1..n /\ sets \in [1..n -> K]
  BY <1>9 DEF Drains
<1>11. sets \in [1..n -> (SUBSET Txs) \ {{}}]
  BY <1>4, <1>10 DEF Divides
<1>12. \A i \in 1..n : Row(deps, gs[i], sets[i])
  BY <1>10, <1>11, TxsDrained DEF gs
<1>13. ASSUME NEW i \in 1..n, NEW j \in 1..n, i < j PROVE Apart(deps, sets[i], sets[j])
  <2>1. sets[i] \in K /\ sets[j] \in K /\ sets[i] # sets[j] /\ <<sets[j], sets[i]>> \notin before
    BY <1>9, <1>10, <1>13 DEF Drains
  <2>2. sets[i] \cap sets[j] = {} /\ ~ Feeds(sets[j], sets[i])
    BY <1>3, <1>4, <2>1 DEF Divides
  <2> QED
    BY <2>2 DEF Apart, Feeds
<1>14. \A x \in Txs : \E i \in 1..n : x \in sets[i]
  <2> TAKE x \in Txs
  <2>1. PICK A \in K : x \in A
    BY <1>4 DEF Divides
  <2>2. \E i \in 1..n : sets[i] = A
    BY <1>9 DEF Drains
  <2> QED
    BY <2>1, <2>2
<1>15. gs = [i \in 1..n |-> gs[i]]
  BY <1>10 DEF gs
<1>16. Rows(deps, gs, Txs)
  BY <1>2, <1>11, <1>12, <1>13, <1>14, <1>15, RowsOf
<1> QED
  BY <1>1, <1>16, FlattenRow

\* What follows step by step follows over any distance.
LEMMA Ascends ==
  ASSUME NEW n \in Nat, NEW S, NEW D \in [1..n -> S], NEW less, Total(less, S),
         \A i \in 1..(n - 1) : <<D[i], D[i + 1]>> \in less,
         NEW i \in 1..n, NEW j \in 1..n, i < j
  PROVE  <<D[i], D[j]>> \in less
<1> DEFINE Good == {k \in 0..n : i < k => <<D[i], D[k]>> \in less}
<1>1. 0 \in Good
  OBVIOUS
<1>2. ASSUME NEW k \in 1..n, k - 1 \in Good PROVE k \in Good
  <2>0. k \in 0..n /\ k - 1 \in 0..n
    OBVIOUS
  <2>1. SUFFICES ASSUME i < k PROVE <<D[i], D[k]>> \in less
    BY <2>0
  <2>2. k - 1 \in 1..(n - 1) /\ (k - 1) + 1 = k /\ k - 1 \in 1..n
    BY <2>1
  <2>3. <<D[k - 1], D[k]>> \in less
    BY <2>2
  <2>4. CASE i = k - 1
    BY <2>3, <2>4
  <2>5. CASE i # k - 1
    <3>1. i < k - 1
      BY <2>1, <2>5
    <3>2. <<D[i], D[k - 1]>> \in less
      BY <1>2, <3>1
    <3>3. D[i] \in S /\ D[k - 1] \in S /\ D[k] \in S
      BY <2>2
    <3> QED
      BY <2>3, <3>2, <3>3 DEF Total
  <2> QED
    BY <2>4, <2>5
<1> HIDE DEF Good
<1>3. \A k \in 0..n : k \in Good
  BY <1>1, <1>2, Upwards
<1>4. j \in 0..n
  OBVIOUS
<1>5. j \in Good
  BY <1>3, <1>4
<1> QED
  BY <1>5 DEF Good

-----------------------------------------------------------------------------
(* The pieces of a chunk                                                   *)

LEMMA PartsIs ==
  ASSUME GraphAndRates, NEW S \in SUBSET Txs
  PROVE  /\ Divides(Parts(S), S)
         /\ \A C, D \in Parts(S) : C # D => ~ Feeds(C, D)
<1> DEFINE Alone(C) == ~ Feeds(C, S \ C) /\ ~ Feeds(S \ C, C)
<1>1. \A C : C \in Parts(S) <=> C \in (SUBSET S) \ {{}} /\ Connected(C) /\ Alone(C)
  BY DEF Parts
<1>2. \A e \in deps : e = <<e[1], e[2]>>
  BY DEF GraphAndRates
<1>3. \A C \in SUBSET S : Alone(C) <=>
        \A e \in deps : {e[1], e[2]} \subseteq S => ((e[1] \in C) <=> (e[2] \in C))
  BY DEF Feeds
<1> HIDE DEF Alone
<1>4. ASSUME NEW C \in Parts(S), NEW D \in Parts(S), C \cap D # {} PROVE C \subseteq D
  <2> DEFINE T == C \cap D
  <2>1. SUFFICES ASSUME T # C PROVE FALSE
    OBVIOUS
  <2>2. T \in (SUBSET C) \ {{}, C}
    BY <1>4, <2>1
  <2>3. PICK e \in deps : {e[1], e[2]} \subseteq C /\ (e[1] \in T) # (e[2] \in T)
    BY <1>1, <2>2 DEF Connected, Joins
  <2>4. {e[1], e[2]} \subseteq S /\ (e[1] \in D) # (e[2] \in D)
    BY <1>1, <2>3
  <2> QED
    BY <1>1, <1>3, <2>4
<1>5. \A C, D \in Parts(S) : C # D => C \cap D = {}
  BY <1>4
<1>6. ASSUME NEW t \in S PROVE \E C \in Parts(S) : t \in C
  <2> DEFINE Closed == {C \in SUBSET S : t \in C /\ Alone(C)}
             N == {n \in Nat : \E C \in Closed : Cardinality(C) = n}
  <2>1. \A C \in SUBSET S : IsFiniteSet(C) /\ Cardinality(C) \in Nat
    BY TxsFinite, FS_CardinalityType
  <2>2. S \in Closed
    BY <1>3
  <2>3. N # {} /\ N \in SUBSET Nat
    BY <2>1, <2>2
  <2>4. PICK n \in N : \A m \in N : n <= m
    BY <2>3, LeastNumber
  <2>5. PICK C \in Closed : Cardinality(C) = n
    OBVIOUS
  <2>6. ASSUME NEW U \in SUBSET C, U # C, t \in U, Alone(U) PROVE FALSE
    <3>1. U \in Closed /\ Cardinality(U) \in N
      BY <2>1, <2>6
    <3>2. Cardinality(U) < Cardinality(C)
      BY <2>1, <2>6, FS_Subset
    <3>3. n <= Cardinality(U) /\ n \in Nat /\ Cardinality(U) \in Nat
      BY <2>4, <3>1
    <3> QED
      BY <2>5, <3>2, <3>3
  <2>7. ASSUME NEW T \in (SUBSET C) \ {{}, C}
        PROVE  \E e \in deps : {e[1], e[2]} \subseteq C /\ (e[1] \in T) # (e[2] \in T)
    <3>1. SUFFICES ASSUME \A e \in deps : {e[1], e[2]} \subseteq C
                                           => ((e[1] \in T) <=> (e[2] \in T))
                   PROVE FALSE
      OBVIOUS
    <3>2. Alone(C) /\ C \subseteq S
      OBVIOUS
    <3>3. ASSUME NEW U \in SUBSET C,
                 \A e \in deps : {e[1], e[2]} \subseteq C => ((e[1] \in U) <=> (e[2] \in U))
          PROVE  Alone(U)
      <4>1. U \in SUBSET S
        BY <3>2
      <4>2. ASSUME NEW e \in deps, {e[1], e[2]} \subseteq S
            PROVE  (e[1] \in U) <=> (e[2] \in U)
        <5>1. (e[1] \in C) <=> (e[2] \in C)
          BY <1>3, <3>2, <4>2
        <5>2. CASE {e[1], e[2]} \subseteq C
          BY <3>3, <5>2
        <5>3. CASE e[1] \notin C /\ e[2] \notin C
          BY <5>3
        <5> QED
          BY <5>1, <5>2, <5>3
      <4> QED
        BY <1>3, <4>1, <4>2
    <3>4. Alone(T) /\ Alone(C \ T)
      <4>1. \A e \in deps : {e[1], e[2]} \subseteq C => ((e[1] \in C \ T) <=> (e[2] \in C \ T))
        BY <3>1
      <4> QED
        BY <3>1, <3>3, <4>1
    <3> QED
      BY <2>6, <3>4
  <2>8. C \in Parts(S)
    <3>1. Connected(C)
      BY <2>7 DEF Connected, Joins
    <3> QED
      BY <1>1, <3>1
  <2> QED
    BY <2>8
<1>7. Divides(Parts(S), S)
  BY <1>1, <1>5, <1>6 DEF Divides
<1>8. ASSUME NEW C \in Parts(S), NEW D \in Parts(S), C # D PROVE ~ Feeds(C, D)
  <2>1. D \subseteq S \ C
    BY <1>1, <1>5, <1>8
  <2>2. ~ Feeds(C, S \ C)
    BY DEF Parts
  <2> QED
    BY <2>1, <2>2 DEF Feeds
<1> QED
  BY <1>7, <1>8

\* The places of a chunk's transactions, and the order they give.
Place(chunk, t) == CHOOSE i \in DOMAIN chunk : chunk[i] = t
InOrder(chunk) ==
  {e \in ToSet(chunk) \X ToSet(chunk) : Place(chunk, e[1]) < Place(chunk, e[2])}
Begins(chunk, C, D) == \E t \in C : \A u \in D : <<t, u>> \in InOrder(chunk)
PiecesLess(chunk) ==
  {e \in Parts(ToSet(chunk)) \X Parts(ToSet(chunk)) :
     Higher(e[1], e[2]) \/ (~ Higher(e[2], e[1]) /\ Begins(chunk, e[1], e[2]))}

LEMMA PiecesAre ==
  ASSUME NEW chunk
  PROVE  LET sets == Drained(Parts(ToSet(chunk)), {}, PiecesLess(chunk))
         IN Pieces(chunk) = [i \in DOMAIN sets |-> Drained(sets[i], {}, InOrder(chunk))]
BY DEF Pieces, Place, InOrder, Begins, PiecesLess

LEMMA InOrderIs ==
  ASSUME NEW S, NEW chunk, Row(deps, chunk, S)
  PROVE  /\ Total(InOrder(chunk), S)
         /\ \A t, u \in S : <<t, u>> \in InOrder(chunk) => t # u /\ <<u, t>> \notin deps
<1> DEFINE n == Len(chunk)
<1>1. ToSet(chunk) = S /\ chunk \in Seq(S) /\ n \in Nat /\ DOMAIN chunk = 1..n
  <2>1. ToSet(chunk) = S
    BY RowSet
  <2>2. chunk \in Seq(S)
    BY DEF Row
  <2> QED
    BY <2>1, <2>2
<1>2. \A t \in S : Place(chunk, t) \in 1..n /\ chunk[Place(chunk, t)] = t
  <2> TAKE t \in S
  <2>1. \E i \in 1..n : chunk[i] = t
    BY DEF Row
  <2>2. Place(chunk, t) = CHOOSE i \in 1..n : chunk[i] = t
    BY <1>1 DEF Place
  <2> QED
    BY <2>1, <2>2
<1>3. \A i, j \in 1..n : i < j => chunk[i] # chunk[j] /\ <<chunk[j], chunk[i]>> \notin deps
  BY DEF Row
<1>4. \A t, u \in S : <<t, u>> \in InOrder(chunk) <=> Place(chunk, t) < Place(chunk, u)
  BY <1>1 DEF InOrder
<1> HIDE DEF n
<1>5. \A t, u \in S : t # u => Place(chunk, t) # Place(chunk, u)
  BY <1>2
<1>6. Total(InOrder(chunk), S)
  <2>1. \A t, u \in S : t # u => <<t, u>> \in InOrder(chunk) \/ <<u, t>> \in InOrder(chunk)
    <3> TAKE t \in S, u \in S
    <3>1. Place(chunk, t) \in Int /\ Place(chunk, u) \in Int
      BY <1>2
    <3> QED
      BY <1>4, <1>5, <3>1
  <2>2. \A t, u, v \in S : <<t, u>> \in InOrder(chunk) /\ <<u, v>> \in InOrder(chunk)
                             => <<t, v>> \in InOrder(chunk)
    <3> TAKE t \in S, u \in S, v \in S
    <3>1. Place(chunk, t) \in Int /\ Place(chunk, u) \in Int /\ Place(chunk, v) \in Int
      BY <1>2
    <3> QED
      BY <1>4, <3>1
  <2> QED
    BY <2>1, <2>2 DEF Total
<1>7. ASSUME NEW t \in S, NEW u \in S, <<t, u>> \in InOrder(chunk)
      PROVE  t # u /\ <<u, t>> \notin deps
  <2>1. Place(chunk, t) < Place(chunk, u)
    BY <1>4, <1>7
  <2> QED
    BY <1>2, <1>3, <2>1
<1> QED
  BY <1>6, <1>7

LEMMA BeginsIs ==
  ASSUME NEW S \in SUBSET Txs, NEW chunk, Row(deps, chunk, S), NEW K, Divides(K, S)
  PROVE  Total({e \in K \X K : Begins(chunk, e[1], e[2])}, K)
<1> DEFINE order == InOrder(chunk)
           f == [C \in K |-> CHOOSE x : IsFirst(x, C, order)]
           begins == {e \in K \X K : Begins(chunk, e[1], e[2])}
<1>1. /\ Total(order, S)
      /\ \A t, u \in S : <<t, u>> \in order => t # u
  BY InOrderIs
<1>2. \A C \in K : C \subseteq S /\ C # {}
  BY DEF Divides
<1>3. \A C, D \in K : C # D => C \cap D = {}
  BY DEF Divides
<1>4. \A C, D \in K : <<C, D>> \in begins <=> \E t \in C : \A u \in D : <<t, u>> \in order
  BY DEF Begins
<1> HIDE DEF order, begins
<1>5. \A C \in K : IsFirst(f[C], C, order)
  <2> TAKE C \in K
  <2>1. IsFiniteSet(C)
    BY <1>2, TxsFinite
  <2>2. Total(order, C)
    BY <1>1, <1>2 DEF Total
  <2>3. \E x : IsFirst(x, C, order)
    BY <1>2, <2>1, <2>2, FirstExists
  <2> QED
    BY <2>3
<1> HIDE DEF f
<1>6. \A C \in K : f[C] \in C /\ f[C] \in S /\ \A u \in C : u # f[C] => <<f[C], u>> \in order
  BY <1>2, <1>5 DEF IsFirst
<1>7. ASSUME NEW C \in K, NEW D \in K
      PROVE  <<C, D>> \in begins <=> <<f[C], f[D]>> \in order
  <2>1. ASSUME <<C, D>> \in begins PROVE <<f[C], f[D]>> \in order
    <3>1. PICK t \in C : \A u \in D : <<t, u>> \in order
      BY <1>4, <2>1
    <3>2. <<t, f[D]>> \in order /\ t \in S
      BY <1>2, <1>6, <3>1
    <3>3. t = f[C] \/ <<f[C], t>> \in order
      BY <1>6
    <3> QED
      BY <1>1, <1>6, <3>2, <3>3 DEF Total
  <2>2. ASSUME <<f[C], f[D]>> \in order PROVE <<C, D>> \in begins
    <3>1. ASSUME NEW u \in D PROVE <<f[C], u>> \in order
      <4>1. u = f[D] \/ <<f[D], u>> \in order
        BY <1>6
      <4>2. u \in S
        BY <1>2
      <4> QED
        BY <1>1, <1>6, <2>2, <4>1, <4>2 DEF Total
    <3> QED
      BY <1>4, <1>6, <3>1
  <2> QED
    BY <2>1, <2>2
<1>8. \A C, D \in K : C # D => f[C] # f[D]
  BY <1>3, <1>6
<1>9. Total(begins, K)
  BY <1>1, <1>6, <1>7, <1>8 DEF Total
<1> QED
  BY <1>9 DEF begins

LEMMA PiecesIs ==
  ASSUME GraphAndRates, NEW S \in SUBSET Txs, NEW chunk, Row(deps, chunk, S)
  PROVE  Row(deps, FlattenSeq(Pieces(chunk)), S)
<1> DEFINE K == Parts(S)
           order == InOrder(chunk)
           less == PiecesLess(chunk)
           n == Cardinality(K)
           sets == Drained(K, {}, less)
           gs == Pieces(chunk)
           at == [A \in K |-> A]
           begins == {e \in K \X K : Begins(chunk, e[1], e[2])}
<1>1. ToSet(chunk) = S
  BY RowSet
<1>2. gs = [i \in DOMAIN sets |-> Drained(sets[i], {}, order)]
  BY <1>1, PiecesAre
<1>3. Divides(K, S) /\ \A C, D \in K : C # D => ~ Feeds(C, D)
  BY PartsIs
<1>4. \A x, y \in K : <<x, y>> \in less <=>
        \/ Higher(at[x], at[y])
        \/ ~ Higher(at[y], at[x]) /\ <<x, y>> \in begins
  BY <1>1 DEF PiecesLess
<1>5. Total(begins, K)
  BY <1>3, BeginsIs
<1>6. Total(order, S) /\ \A t, u \in S : <<t, u>> \in order => t # u /\ <<u, t>> \notin deps
  BY InOrderIs
<1>7. at \in [K -> Side]
  BY <1>3 DEF Divides, Side
<1>8. IsFiniteSet(K) /\ n \in Nat
  <2>1. IsFiniteSet(SUBSET Txs)
    BY TxsFinite, FS_SUBSET
  <2>2. K \subseteq SUBSET Txs
    BY <1>3 DEF Divides
  <2>3. IsFiniteSet(K)
    BY <2>1, <2>2, FS_Subset
  <2> QED
    BY <2>3, FS_CardinalityType
<1> HIDE DEF gs, sets, less, n, K, begins, at, order
<1>9. Total(less, K)
  <2>1. Total(ByRate(K, at, begins), K)
    BY <1>5, <1>7, ByRateTotal DEF GraphAndRates
  <2>2. \A x, y \in K : <<x, y>> \in ByRate(K, at, begins) <=> <<x, y>> \in less
    BY <1>4 DEF ByRate
  <2> QED
    BY <2>1, <2>2 DEF Total
<1>10. \A X, T : T # {} => Ready(T, {}) # {}
  BY DEF Ready
<1>11. Sortable(K, {}, less)
  BY <1>8, <1>9, <1>10 DEF Sortable
<1>12. Drains(sets, K, {}, less, n)
  BY <1>11, DrainedIs DEF sets, n
<1>13. DOMAIN sets = 1..n /\ sets \in [1..n -> K]
  BY <1>12 DEF Drains
<1>14. sets \in [1..n -> (SUBSET S) \ {{}}]
  BY <1>3, <1>13 DEF Divides
<1>15. ASSUME NEW C \in SUBSET S PROVE Row(deps, Drained(C, {}, order), C)
  <2> DEFINE D == Drained(C, {}, order)  m == Cardinality(C)
  <2>1. IsFiniteSet(C) /\ m \in Nat
    BY TxsFinite, FS_CardinalityType
  <2>2. Total(order, C)
    BY <1>6 DEF Total
  <2>3. Sortable(C, {}, order)
    BY <1>10, <2>1, <2>2 DEF Sortable
  <2>4. Drains(D, C, {}, order, m)
    BY <2>3, DrainedIs
  <2> HIDE DEF D, m
  <2>5. Row({}, D, C) /\ Len(D) = m
    BY <2>1, <2>4, DrainsRow
  <2>6. D \in [1..m -> C] /\ \A i \in 1..(m - 1) : <<D[i], D[i + 1]>> \in order
    BY <2>4 DEF Drains
  <2>7. \A i, j \in 1..m : i < j => <<D[i], D[j]>> \in order
    BY <2>1, <2>2, <2>6, Ascends
  <2>8. \A i, j \in 1..m : i < j => <<D[j], D[i]>> \notin deps
    BY <1>6, <2>6, <2>7
  <2> QED
    BY <2>5, <2>8 DEF Row, D
<1>16. \A i \in 1..n : Row(deps, gs[i], sets[i])
  BY <1>2, <1>13, <1>14, <1>15
<1>17. ASSUME NEW i \in 1..n, NEW j \in 1..n, i < j PROVE Apart(deps, sets[i], sets[j])
  <2>1. sets[i] \in K /\ sets[j] \in K /\ sets[i] # sets[j]
    BY <1>12, <1>13, <1>17 DEF Drains
  <2>2. sets[i] \cap sets[j] = {} /\ ~ Feeds(sets[j], sets[i])
    BY <1>3, <2>1 DEF Divides
  <2> QED
    BY <2>2 DEF Apart, Feeds
<1>18. \A x \in S : \E i \in 1..n : x \in sets[i]
  <2> TAKE x \in S
  <2>1. PICK A \in K : x \in A
    BY <1>3 DEF Divides
  <2>2. \E i \in 1..n : sets[i] = A
    BY <1>12 DEF Drains
  <2> QED
    BY <2>1, <2>2
<1>19. gs = [i \in 1..n |-> gs[i]]
  BY <1>2, <1>13
<1>20. Rows(deps, gs, S)
  BY <1>8, <1>14, <1>16, <1>17, <1>18, <1>19, RowsOf
<1> QED
  BY <1>20, FlattenRow DEF gs

-----------------------------------------------------------------------------
(* The canonical order                                                     *)

\* Falling feerates fall over any distance.
LEMMA FallsFar ==
  ASSUME Rated, NEW cs \in Seq(Seq(Txs)), \A i \in 1..Len(cs) : ToSet(cs[i]) \in Side,
         Falls(cs), NEW i \in 1..Len(cs), NEW j \in 1..Len(cs), i < j
  PROVE  ~ Higher(ToSet(cs[j]), ToSet(cs[i]))
<1> DEFINE n == Len(cs)  at(k) == ToSet(cs[k])
           Good == {k \in 0..n : i < k => ~ Higher(at(k), at(i))}
<1>0. n \in Nat
  OBVIOUS
<1>1. 0 \in Good
  BY <1>0
<1>2. ASSUME NEW k \in 1..n, k - 1 \in Good PROVE k \in Good
  <2>0. k \in 0..n
    BY <1>0
  <2>1. SUFFICES ASSUME i < k PROVE ~ Higher(at(k), at(i))
    BY <2>0
  <2>2. k \in 2..n /\ k - 1 \in 1..n
    BY <1>0, <2>1
  <2>3. ~ Higher(at(k), at(k - 1))
    BY <2>2 DEF Falls, FallsTo
  <2>4. CASE i = k - 1
    BY <2>3, <2>4
  <2>5. CASE i # k - 1
    <3>1. i < k - 1
      BY <1>0, <2>1, <2>5
    <3>2. ~ Higher(at(k - 1), at(i))
      BY <1>2, <3>1
    <3>3. at(i) \in Side /\ at(k - 1) \in Side /\ at(k) \in Side
      BY <2>2
    <3> HIDE DEF at
    <3> QED
      BY <2>3, <3>2, <3>3, HigherIs
  <2> QED
    BY <2>4, <2>5
<1> HIDE DEF Good
<1>3. \A k \in 0..n : k \in Good
  BY <1>0, <1>1, <1>2, Upwards
<1>4. j \in 0..n
  BY <1>0
<1>5. j \in Good
  BY <1>3, <1>4
<1> QED
  BY <1>5 DEF Good

LEMMA RowsSides ==
  ASSUME NEW R, NEW cs, Rows(R, cs, Txs)
  PROVE  /\ cs \in Seq(Seq(Txs)) /\ Len(cs) \in Nat
         /\ \A i \in 1..Len(cs) : ToSet(cs[i]) \in Side
         /\ \A i, j \in 1..Len(cs) : i # j => ToSet(cs[i]) \cap ToSet(cs[j]) = {}
<1>1. cs \in Seq(Seq(Txs)) /\ Len(cs) \in Nat
  BY DEF Rows
<1>2. \A i \in 1..Len(cs) : cs[i] \in Seq(Txs) /\ cs[i] # <<>>
  BY <1>1 DEF Rows
<1>3. \A i \in 1..Len(cs) : ToSet(cs[i]) \in Side
  BY <1>2, ToSetIs DEF Side
<1>4. ASSUME NEW i \in 1..Len(cs), NEW j \in 1..Len(cs), i < j
      PROVE  ToSet(cs[i]) \cap ToSet(cs[j]) = {}
  <2>1. Apart(R, ToSet(cs[i]), ToSet(cs[j]))
    BY <1>4 DEF Rows
  <2> QED
    BY <2>1 DEF Apart
<1>5. \A i, j \in 1..Len(cs) : i # j => i < j \/ j < i
  BY <1>1
<1> QED
  BY <1>1, <1>3, <1>4, <1>5

LEMMA CanonicalIs ==
  ASSUME GraphAndRates, NEW cs, Rows(deps, cs, Txs), Falls(cs)
  PROVE  Rows(deps, Canonical(cs), Txs) /\ Falls(Canonical(cs))
<1> DEFINE D == DOMAIN cs
           at == [i \in D |-> ToSet(cs[i])]
           before == {e \in D \X D : Feeds(ToSet(cs[e[1]]), ToSet(cs[e[2]]))}
           less == {e \in D \X D : Sooner(cs, e[1], e[2])}
           n == Cardinality(D)
           places == Drained(D, before, less)
           hs == [i \in DOMAIN places |-> cs[places[i]]]
<1>1. Canonical(cs) = hs
  BY DEF Canonical
<1>2. /\ cs \in Seq(Seq(Txs)) /\ Len(cs) \in Nat
      /\ \A i \in 1..Len(cs) : ToSet(cs[i]) \in Side
      /\ \A i, j \in 1..Len(cs) : i # j => ToSet(cs[i]) \cap ToSet(cs[j]) = {}
  BY RowsSides
<1>3. D = 1..Len(cs)
  BY <1>2
<1>4. IsFiniteSet(D) /\ n \in Nat
  <2>1. IsFiniteSet(1..Len(cs))
    BY <1>2, FS_Interval
  <2> QED
    BY <1>3, <2>1, FS_CardinalityType
<1>5. /\ at \in [D -> Side]
      /\ \A i, j \in D : i # j => at[i] \cap at[j] = {}
      /\ \A i \in D : at[i] = ToSet(cs[i])
  BY <1>2, <1>3
<1>6. \A i, j \in D : /\ <<i, j>> \in before <=> Feeds(at[i], at[j])
                      /\ <<i, j>> \in less <=> Sooner(cs, i, j)
  OBVIOUS
<1>7. hs = [i \in DOMAIN places |-> cs[places[i]]]
  OBVIOUS
<1> HIDE DEF D, at, before, less, n, places, hs
<1>8. \A i, j \in D : i < j => Apart(deps, at[i], at[j])
  <2>1. \A i, j \in 1..Len(cs) : i < j => Apart(deps, ToSet(cs[i]), ToSet(cs[j]))
    BY DEF Rows
  <2> QED
    BY <1>3, <1>5, <2>1
<1>9. \A i, j \in D : i # j /\ Feeds(at[i], at[j]) => i < j
  <2> TAKE i \in D, j \in D
  <2>1. SUFFICES ASSUME i # j, Feeds(at[i], at[j]), ~ (i < j) PROVE FALSE
    OBVIOUS
  <2>2. j < i
    BY <1>2, <1>3, <2>1
  <2>3. Apart(deps, at[j], at[i])
    BY <1>8, <2>2
  <2>4. PICK e \in deps : e[1] \in at[i] /\ e[2] \in at[j]
    BY <2>1 DEF Feeds
  <2>5. e = <<e[1], e[2]>>
    BY DEF GraphAndRates
  <2> QED
    BY <2>3, <2>4, <2>5 DEF Apart
<1>10. ASSUME NEW T \in (SUBSET D) \ {{}} PROVE Ready(T, before) # {}
  <2>1. T \in SUBSET Nat
    BY <1>2, <1>3
  <2>2. PICK x \in T : \A y \in T : x <= y
    BY <2>1, LeastNumber
  <2>3. \A y \in T \ {x} : <<y, x>> \notin before
    <3> TAKE y \in T \ {x}
    <3>1. ~ (y < x)
      BY <2>1, <2>2
    <3> QED
      BY <1>6, <1>9, <3>1
  <2> QED
    BY <2>3 DEF Ready
<1>11. Total(less, D)
  <2>1. Total(ByRate(D, at, Lighter(D, at)), D)
    BY <1>5, TiesTotal, ByRateTotal DEF GraphAndRates
  <2>2. \A i, j \in D : <<i, j>> \in ByRate(D, at, Lighter(D, at)) <=> <<i, j>> \in less
    <3> TAKE i \in D, j \in D
    <3>1. at[i] = ToSet(cs[i]) /\ at[j] = ToSet(cs[j])
      BY <1>5
    <3>2. <<i, j>> \in less <=>
            \/ Higher(at[i], at[j])
            \/ /\ ~ Higher(at[j], at[i])
               /\ \/ Weight(at[i]) < Weight(at[j])
                  \/ /\ Weight(at[i]) = Weight(at[j])
                     /\ LastOrder(at[i]) < LastOrder(at[j])
      BY <1>6, <3>1 DEF Sooner
    <3> QED
      BY <3>2 DEF ByRate, Lighter
  <2> QED
    BY <2>1, <2>2 DEF Total
<1>12. Sortable(D, before, less)
  BY <1>4, <1>10, <1>11 DEF Sortable
<1>13. Drains(places, D, before, less, n)
  BY <1>12, DrainedIs DEF places, n
<1>14. DOMAIN places = 1..n /\ places \in [1..n -> D]
  BY <1>13 DEF Drains
<1> DEFINE A == [i \in 1..n |-> at[places[i]]]
<1>15. A \in [1..n -> (SUBSET Txs) \ {{}}] /\ \A i \in 1..n : A[i] = at[places[i]]
  BY <1>5, <1>14 DEF Side
<1> HIDE DEF A
<1>16. hs = [i \in 1..n |-> hs[i]] /\ \A i \in 1..n : hs[i] = cs[places[i]]
  BY <1>7, <1>14
<1>17. \A i \in 1..n : Row(deps, hs[i], A[i])
  <2> TAKE i \in 1..n
  <2>1. Row(deps, cs[places[i]], ToSet(cs[places[i]]))
    BY <1>3, <1>14 DEF Rows
  <2> QED
    BY <1>5, <1>14, <1>15, <1>16, <2>1
<1>18. ASSUME NEW i \in 1..n, NEW j \in 1..n, i < j PROVE Apart(deps, A[i], A[j])
  <2>1. /\ places[i] \in D /\ places[j] \in D /\ places[i] # places[j]
        /\ <<places[j], places[i]>> \notin before
    BY <1>13, <1>14, <1>18 DEF Drains
  <2>2. A[i] \cap A[j] = {} /\ ~ Feeds(A[j], A[i])
    BY <1>5, <1>6, <1>15, <2>1
  <2> QED
    BY <2>2 DEF Apart, Feeds
<1>19. \A x \in Txs : \E i \in 1..n : x \in A[i]
  <2> TAKE x \in Txs
  <2>1. PICK k \in D : x \in at[k]
    BY <1>3, <1>5 DEF Rows
  <2>2. PICK i \in 1..n : places[i] = k
    BY <1>13 DEF Drains
  <2> QED
    BY <1>15, <2>1, <2>2
<1>20. Rows(deps, hs, Txs) /\ Len(hs) = n /\ \A i \in 1..n : ToSet(hs[i]) = A[i]
  <2>1. n \in Nat /\ A \in [1..n -> (SUBSET Txs) \ {{}}] /\ hs = [i \in 1..n |-> hs[i]]
    BY <1>4, <1>15, <1>16
  <2>2. Rows(deps, hs, Txs)
    BY <1>17, <1>18, <1>19, <2>1, RowsOf
  <2>3. Len(hs) = n
    BY <1>17, <1>18, <1>19, <2>1, RowsOf
  <2>4. \A i \in 1..n : ToSet(hs[i]) = A[i]
    BY <1>17, RowSet
  <2> QED
    BY <2>2, <2>3, <2>4
<1>21. Falls(hs)
  <2> SUFFICES ASSUME NEW i \in 2..n PROVE ~ Higher(ToSet(hs[i]), ToSet(hs[i - 1]))
    BY <1>20 DEF Falls, FallsTo
  <2> DEFINE x == places[i - 1]  y == places[i]
  <2>1. /\ i - 1 \in 1..(n - 1) /\ (i - 1) + 1 = i /\ i - 1 \in 1..n /\ i \in 1..n
        /\ i - 1 < i
    BY <1>4
  <2>2. x \in D /\ y \in D /\ x # y /\ (<<x, y>> \in less \/ <<x, y>> \in before)
    <3>1. <<places[i - 1], places[(i - 1) + 1]>> \in less
          \/ <<places[i - 1], places[(i - 1) + 1]>> \in before
      BY <1>13, <2>1 DEF Drains
    <3>2. places[i - 1] # places[i]
      BY <1>13, <2>1 DEF Drains
    <3> QED
      BY <1>14, <2>1, <3>1, <3>2
  <2>3. ToSet(hs[i - 1]) = at[x] /\ ToSet(hs[i]) = at[y]
    BY <1>15, <1>20, <2>1
  <2> HIDE DEF x, y
  <2>4. at[x] \in Side /\ at[y] \in Side
    BY <1>5, <2>2
  <2>5. CASE <<x, y>> \in less
    <3>1. Higher(at[x], at[y]) \/ ~ Higher(at[y], at[x])
      BY <1>5, <1>6, <2>2, <2>5 DEF Sooner
    <3>2. ~ Higher(at[y], at[x])
      BY <2>4, <3>1, HigherIs DEF GraphAndRates
    <3> QED
      BY <2>3, <3>2
  <2>6. CASE <<x, y>> \in before
    <3>1. x < y
      BY <1>6, <1>9, <2>2, <2>6
    <3>2. ~ Higher(ToSet(cs[y]), ToSet(cs[x]))
      BY <1>2, <1>3, <2>2, <3>1, FallsFar DEF GraphAndRates
    <3> QED
      BY <1>5, <2>2, <2>3, <3>2
  <2> QED
    BY <2>2, <2>5, <2>6
<1> QED
  BY <1>1, <1>20, <1>21

LEMMA LinearizedIs ==
  ASSUME GraphAndRates, Divides({c.txs : c \in chunks}, Txs), Loopless({c.txs : c \in chunks})
  PROVE  Rows(deps, Linearized, Txs) /\ Falls(Linearized)
<1> DEFINE lin == PostLinearize(Extracted)
           cs == Chunkify(lin)
           gs == [i \in DOMAIN cs |-> FlattenSeq(Pieces(cs[i]))]
           split == FlattenSeq(gs)
           n == Len(cs)
           A == [i \in 1..n |-> ToSet(cs[i])]
<1>1. Linearized = Canonical(Chunkify(split))
  BY DEF Linearized
<1>2. Row(deps, lin, Txs)
  BY ExtractedIs, PostLinearizeIs DEF GraphAndRates
<1> HIDE DEF lin
<1>3. Rows(deps, cs, Txs)
  BY <1>2, ChunkedIs
<1> HIDE DEF cs
<1>4. cs \in Seq(Seq(Txs)) /\ n \in Nat /\ \A i \in 1..n : ToSet(cs[i]) \in Side
  BY <1>3, RowsSides
<1>5. DOMAIN cs = 1..n
  BY <1>4
<1>6. A \in [1..n -> (SUBSET Txs) \ {{}}] /\ \A i \in 1..n : A[i] = ToSet(cs[i])
  BY <1>4 DEF Side
<1> HIDE DEF n, A
<1>7. gs = [i \in 1..n |-> gs[i]] /\ \A i \in 1..n : gs[i] = FlattenSeq(Pieces(cs[i]))
  BY <1>5
<1> HIDE DEF gs
<1>8. \A i \in 1..n : Row(deps, gs[i], A[i])
  <2> TAKE i \in 1..n
  <2>1. Row(deps, cs[i], A[i])
    BY <1>3, <1>6 DEF Rows, n
  <2>2. A[i] \in SUBSET Txs
    BY <1>6
  <2>3. Row(deps, FlattenSeq(Pieces(cs[i])), A[i])
    BY <2>1, <2>2, PiecesIs
  <2> QED
    BY <1>7, <2>3
<1>9. \A i, j \in 1..n : i < j => Apart(deps, A[i], A[j])
  BY <1>3, <1>6 DEF Rows, n
<1>10. \A x \in Txs : \E i \in 1..n : x \in A[i]
  BY <1>3, <1>6 DEF Rows, n
<1>11. Rows(deps, gs, Txs)
  BY <1>4, <1>6, <1>7, <1>8, <1>9, <1>10, RowsOf
<1>12. Row(deps, split, Txs)
  BY <1>11, FlattenRow
<1> HIDE DEF split
<1>13. Rows(deps, Chunkify(split), Txs) /\ Falls(Chunkify(split))
  BY <1>12, ChunkedIs
<1> QED
  BY <1>1, <1>13, CanonicalIs

LEMMA RowLinear ==
  ASSUME GraphAndRates, NEW lin, Row(deps, lin, Txs)
  PROVE  IsLinear(lin)
<1> DEFINE n == Len(lin)
           Good == {i \in 0..n : IsFiniteSet(Firsts(lin, i)) /\ Cardinality(Firsts(lin, i)) = i}
<1>1. ToSet(lin) = Txs /\ lin \in Seq(Txs) /\ n \in Nat
  <2>1. ToSet(lin) = Txs
    BY RowSet
  <2>2. lin \in Seq(Txs)
    BY DEF Row
  <2> QED
    BY <2>1, <2>2
<1>2. /\ Firsts(lin, 0) = {}
      /\ Firsts(lin, n) = Txs
      /\ \A i \in 1..n : /\ Firsts(lin, i) = Firsts(lin, i - 1) \cup {lin[i]}
                         /\ Apart(deps, Firsts(lin, i - 1), {lin[i]})
  BY FirstsAre
<1> HIDE DEF n
<1>3. 0 \in Good
  <2>1. IsFiniteSet({}) /\ Cardinality({}) = 0
    BY FS_EmptySet
  <2>2. IsFiniteSet(Firsts(lin, 0)) /\ Cardinality(Firsts(lin, 0)) = 0
    BY <1>2, <2>1, Zenon
  <2>3. 0 \in 0..n
    BY <1>1
  <2> QED
    BY <2>2, <2>3
<1>4. ASSUME NEW i \in 1..n, i - 1 \in Good PROVE i \in Good
  <2> DEFINE F == Firsts(lin, i - 1)
  <2>1. IsFiniteSet(F) /\ Cardinality(F) = i - 1
    BY <1>4
  <2>2. lin[i] \notin F
    BY <1>2 DEF Apart
  <2>3. IsFiniteSet(F \cup {lin[i]}) /\ Cardinality(F \cup {lin[i]}) = (i - 1) + 1
    BY <2>1, <2>2, FS_AddElement
  <2>4. i \in 0..n /\ (i - 1) + 1 = i
    BY <1>1
  <2> QED
    BY <1>2, <2>3, <2>4
<1> HIDE DEF Good
<1>5. \A i \in 0..n : i \in Good
  BY <1>1, <1>3, <1>4, Upwards
<1>6. n = Size
  <2>1. n \in 0..n
    BY <1>1
  <2>2. Cardinality(Txs) = n
    BY <1>2, <1>5, <2>1 DEF Good
  <2> QED
    BY <2>2, TxsFinite
<1>7. ASSUME NEW i \in 1..n, NEW j \in 1..n, <<lin[i], lin[j]>> \in deps PROVE i < j
  <2>1. CASE j < i
    BY <1>7, <2>1 DEF Row, n
  <2>2. CASE i = j
    <3>1. {lin[i]} \in (SUBSET Txs) \ {{}}
      BY <1>1 DEF n
    <3>2. <<lin[i], lin[i]>> \notin deps
      BY <3>1 DEF GraphAndRates, Acyclic
    <3> QED
      BY <1>7, <2>2, <3>2
  <2> QED
    BY <1>1, <2>1, <2>2
<1>8. DOMAIN lin = 1..n
  BY <1>1 DEF n
<1> QED
  BY <1>1, <1>6, <1>7, <1>8 DEF IsLinear, n

-----------------------------------------------------------------------------
(* The search                                                              *)

LEMMA ConnectedUnion ==
  ASSUME NEW S, NEW T, Connected(S), Connected(T), Feeds(S, T)
  PROVE  Connected(S \cup T)
<1> SUFFICES ASSUME NEW U \in (SUBSET (S \cup T)) \ {{}, S \cup T}
             PROVE  \E e \in deps : {e[1], e[2]} \subseteq S \cup T /\ (e[1] \in U) # (e[2] \in U)
  BY DEF Connected, Joins
<1>1. ASSUME NEW A, A \subseteq S \cup T, Connected(A), U \cap A \notin {{}, A}
      PROVE  \E e \in deps : {e[1], e[2]} \subseteq S \cup T /\ (e[1] \in U) # (e[2] \in U)
  <2>1. U \cap A \in (SUBSET A) \ {{}, A}
    BY <1>1
  <2>2. PICK e \in deps : {e[1], e[2]} \subseteq A /\ (e[1] \in U \cap A) # (e[2] \in U \cap A)
    BY <1>1, <2>1 DEF Connected, Joins
  <2> QED
    BY <1>1, <2>2
<1>2. CASE U \cap S \in {{}, S} /\ U \cap T \in {{}, T}
  <2>1. PICK e \in deps : e[1] \in S /\ e[2] \in T
    BY DEF Feeds
  <2>2. (U \cap S = S /\ U \cap T = {}) \/ (U \cap S = {} /\ U \cap T = T)
    BY <1>2
  <2>3. (e[1] \in U) # (e[2] \in U)
    BY <2>1, <2>2
  <2> QED
    BY <2>1, <2>3
<1> QED
  BY <1>1, <1>2

LEMMA CutIs ==
  ASSUME NEW S \in SUBSET Txs, deps \subseteq Txs \X Txs, Connected(S), NEW T \in Tops(S)
  PROVE  /\ T \subseteq S /\ T # {} /\ S \ T # {}
         /\ Connected(T) /\ Connected(S \ T)
         /\ ~ Feeds(S \ T, T)
<1> DEFINE Cut == {e \in deps : e[1] \in T /\ e[2] \in S \ T}
<1>1. T \in (SUBSET S) \ {{}, S} /\ Cardinality(Cut) = 1 /\ ~ Feeds(S \ T, T)
  BY DEF Tops
<1>2. IsFiniteSet(Cut)
  <2>1. IsFiniteSet(Txs \X Txs)
    BY TxsFinite, FS_Product
  <2> QED
    BY <2>1, FS_Subset
<1>3. PICK a : Cut = {a}
  BY <1>1, <1>2, FS_Singleton
<1>4. \A e \in deps : e[1] \in T /\ e[2] \in S \ T => e = a
  BY <1>3
<1>5. ASSUME NEW A \in {T, S \ T}, NEW V \in SUBSET A, V # {}, a[1] \notin V, a[2] \notin V
      PROVE  \E e \in deps : {e[1], e[2]} \subseteq A /\ (e[1] \in V) # (e[2] \in V)
  <2>1. V \in (SUBSET S) \ {{}, S}
    BY <1>1, <1>5
  <2>2. PICK e \in deps : {e[1], e[2]} \subseteq S /\ (e[1] \in V) # (e[2] \in V)
    BY <2>1 DEF Connected, Joins
  <2>3. ~ (e[1] \in S \ T /\ e[2] \in T)
    BY <1>1 DEF Feeds
  <2>4. ~ (e[1] \in T /\ e[2] \in S \ T)
    BY <1>4, <1>5, <2>2
  <2>5. {e[1], e[2]} \subseteq A
    BY <1>5, <2>2, <2>3, <2>4
  <2> QED
    BY <2>2, <2>5
<1>6. a[1] \in T /\ a[2] \in S \ T
  BY <1>3
<1>7. ASSUME NEW A \in {T, S \ T} PROVE Connected(A)
  <2> SUFFICES ASSUME NEW U \in (SUBSET A) \ {{}, A}
               PROVE  \E e \in deps : {e[1], e[2]} \subseteq A /\ (e[1] \in U) # (e[2] \in U)
    BY DEF Connected, Joins
  <2>1. (a[1] \notin U /\ a[2] \notin U) \/ (a[1] \notin A \ U /\ a[2] \notin A \ U)
    BY <1>1, <1>6
  <2>2. CASE a[1] \notin U /\ a[2] \notin U
    BY <1>5, <2>2
  <2>3. CASE a[1] \notin A \ U /\ a[2] \notin A \ U
    <3>1. A \ U \in SUBSET A /\ A \ U # {}
      OBVIOUS
    <3>2. PICK e \in deps : {e[1], e[2]} \subseteq A /\ (e[1] \in A \ U) # (e[2] \in A \ U)
      BY <1>5, <2>3, <3>1
    <3>3. (e[1] \in U) # (e[2] \in U)
      BY <3>2
    <3> QED
      BY <3>2, <3>3
  <2> QED
    BY <2>1, <2>2, <2>3
<1> QED
  BY <1>1, <1>7

\* The sets of the chunks.
Bodies(cs) == {c.txs : c \in cs}

\* The chunks partition the cluster into connected sets.
Partition(cs) ==
  /\ UNION {c.txs : c \in cs} = Txs
  /\ \A c, d \in cs : c # d => c.txs \cap d.txs = {}
  /\ \A c \in cs : c.txs # {} /\ Connected(c.txs)

LEMMA PartitionIs ==
  ASSUME NEW cs, Partition(cs)
  PROVE  /\ Divides(Bodies(cs), Txs)
         /\ \A c \in cs : c.txs \in Side
         /\ \A c, d \in cs : c.txs = d.txs => c = d
<1>1. \A c \in cs : c.txs \subseteq Txs /\ c.txs # {}
  BY DEF Partition
<1>2. \A c, d \in cs : c # d => c.txs \cap d.txs = {}
  BY DEF Partition
<1>3. \A c, d \in cs : c.txs = d.txs => c = d
  BY <1>1, <1>2
<1>4. UNION Bodies(cs) = Txs
  BY DEF Bodies, Partition
<1>5. Bodies(cs) \subseteq (SUBSET Txs) \ {{}}
  BY <1>1 DEF Bodies
<1>6. ASSUME NEW A \in Bodies(cs), NEW B \in Bodies(cs), A # B PROVE A \cap B = {}
  <2>1. PICK c \in cs : A = c.txs
    BY DEF Bodies
  <2>2. PICK d \in cs : B = d.txs
    BY DEF Bodies
  <2> QED
    BY <1>2, <1>6, <2>1, <2>2
<1> QED
  BY <1>1, <1>3, <1>4, <1>5, <1>6 DEF Divides, Side

LEMMA ChunkIs ==
  ASSUME NEW S, NEW todo
  PROVE  Chunk(S, todo).txs = S /\ Chunk(S, todo).todo = todo
BY DEF Chunk

\* Chunks replaced by chunks of the same transactions.
LEMMA PartitionReplaced ==
  ASSUME NEW cs, Partition(cs), NEW old \in SUBSET cs, NEW new,
         UNION {c.txs : c \in new} = UNION {c.txs : c \in old},
         \A c, d \in new : c # d => c.txs \cap d.txs = {},
         \A c \in new : c.txs # {} /\ Connected(c.txs)
  PROVE  Partition((cs \ old) \cup new)
<1> DEFINE now == (cs \ old) \cup new
<1>1. \A c \in now : c.txs # {} /\ Connected(c.txs)
  BY DEF Partition
<1>2. ASSUME NEW x PROVE (\E c \in now : x \in c.txs) <=> x \in Txs
  <2>1. (\E c \in cs : x \in c.txs) <=> x \in Txs
    BY DEF Partition
  <2>2. (\E c \in new : x \in c.txs) <=> (\E c \in old : x \in c.txs)
    <3>1. x \in UNION {c.txs : c \in new} <=> \E c \in new : x \in c.txs
      OBVIOUS
    <3>2. x \in UNION {c.txs : c \in old} <=> \E c \in old : x \in c.txs
      OBVIOUS
    <3> QED
      BY <3>1, <3>2
  <2> QED
    BY <2>1, <2>2
<1>3. ASSUME NEW c \in cs \ old, NEW d \in new PROVE c.txs \cap d.txs = {}
  <2>1. SUFFICES ASSUME NEW x \in c.txs \cap d.txs PROVE FALSE
    OBVIOUS
  <2>2. x \in UNION {b.txs : b \in new}
    OBVIOUS
  <2>3. PICK b \in old : x \in b.txs
    BY <2>2
  <2> QED
    BY <2>3 DEF Partition
<1>4. \A c, d \in now : c # d => c.txs \cap d.txs = {}
  BY <1>3 DEF Partition
<1>5. UNION {c.txs : c \in now} = Txs
  BY <1>2
<1> QED
  BY <1>1, <1>4, <1>5 DEF Partition

LEMMA PartitionOne ==
  ASSUME NEW cs, Partition(cs), NEW c \in cs, NEW todo
  PROVE  Partition((cs \ {c}) \cup {Chunk(c.txs, todo)})
<1> DEFINE d == Chunk(c.txs, todo)
<1>1. d.txs = c.txs
  BY ChunkIs
<1> HIDE DEF d
<1>2. c.txs # {} /\ Connected(c.txs)
  BY DEF Partition
<1>3. UNION {b.txs : b \in {d}} = UNION {b.txs : b \in {c}}
  BY <1>1
<1>4. /\ \A a, b \in {d} : a # b => a.txs \cap b.txs = {}
      /\ \A b \in {d} : b.txs # {} /\ Connected(b.txs)
  BY <1>1, <1>2
<1>5. {c} \in SUBSET cs
  OBVIOUS
<1>6. Partition((cs \ {c}) \cup {d})
  BY <1>3, <1>4, <1>5, PartitionReplaced
<1> QED
  BY <1>6 DEF d

LEMMA PartitionMerged ==
  ASSUME NEW cs, Partition(cs), NEW c \in cs, NEW p \in cs, NEW todo,
         Feeds(c.txs, p.txs) \/ Feeds(p.txs, c.txs)
  PROVE  Partition((cs \ {c, p}) \cup {Chunk(c.txs \cup p.txs, todo)})
<1> DEFINE S == c.txs \cup p.txs
           d == Chunk(S, todo)
<1>1. d.txs = S
  BY ChunkIs
<1>2. c.txs # {} /\ Connected(c.txs) /\ p.txs # {} /\ Connected(p.txs)
  BY DEF Partition
<1>3. Connected(S)
  <2>1. CASE Feeds(c.txs, p.txs)
    BY <1>2, <2>1, ConnectedUnion
  <2>2. CASE Feeds(p.txs, c.txs)
    <3>1. Connected(p.txs \cup c.txs)
      BY <1>2, <2>2, ConnectedUnion
    <3>2. p.txs \cup c.txs = S
      OBVIOUS
    <3> QED
      BY <3>1, <3>2
  <2> QED
    BY <2>1, <2>2
<1> HIDE DEF d
<1>4. UNION {b.txs : b \in {d}} = UNION {b.txs : b \in {c, p}}
  BY <1>1
<1>5. /\ \A a, b \in {d} : a # b => a.txs \cap b.txs = {}
      /\ \A b \in {d} : b.txs # {} /\ Connected(b.txs)
  BY <1>1, <1>2, <1>3
<1>6. {c, p} \in SUBSET cs
  OBVIOUS
<1>7. Partition((cs \ {c, p}) \cup {d})
  BY <1>4, <1>5, <1>6, PartitionReplaced
<1> QED
  BY <1>7 DEF d

LEMMA PartitionCut ==
  ASSUME deps \subseteq Txs \X Txs, NEW cs, Partition(cs), NEW c \in cs, NEW T \in Tops(c.txs),
         NEW x, NEW y
  PROVE  Partition((cs \ {c}) \cup {Chunk(T, x), Chunk(c.txs \ T, y)})
<1> DEFINE S == c.txs
           d == Chunk(T, x)
           e == Chunk(S \ T, y)
<1>1. d.txs = T /\ e.txs = S \ T
  BY ChunkIs
<1>2. S \in SUBSET Txs /\ Connected(S)
  BY PartitionIs DEF Partition, Side
<1>3. T \subseteq S /\ T # {} /\ S \ T # {} /\ Connected(T) /\ Connected(S \ T)
  BY <1>2, CutIs
<1> HIDE DEF d, e
<1>4. UNION {b.txs : b \in {d, e}} = UNION {b.txs : b \in {c}}
  BY <1>1, <1>3
<1>5. /\ \A a, b \in {d, e} : a # b => a.txs \cap b.txs = {}
      /\ \A b \in {d, e} : b.txs # {} /\ Connected(b.txs)
  BY <1>1, <1>3
<1>6. {c} \in SUBSET cs
  OBVIOUS
<1>7. Partition((cs \ {c}) \cup {d, e})
  BY <1>4, <1>5, <1>6, PartitionReplaced
<1> QED
  BY <1>7 DEF d, e

LEMMA PartitionQueued ==
  ASSUME NEW cs, Partition(cs)
  PROVE  Partition(Queued(cs)) /\ Bodies(Queued(cs)) = Bodies(cs)
<1> DEFINE qs == Queued(cs)
<1>1. \A d \in qs : \E c \in cs : d = Chunk(c.txs, Fresh) /\ d.txs = c.txs
  BY ChunkIs DEF Queued
<1>2. \A c \in cs : \E d \in qs : d = Chunk(c.txs, Fresh) /\ d.txs = c.txs
  BY ChunkIs DEF Queued
<1> HIDE DEF qs
<1>3. Bodies(qs) = Bodies(cs)
  BY <1>1, <1>2 DEF Bodies
<1>4. UNION {d.txs : d \in qs} = Txs
  <2>1. \A x : x \in UNION {d.txs : d \in qs} <=> x \in UNION {c.txs : c \in cs}
    BY <1>1, <1>2
  <2> QED
    BY <2>1 DEF Partition
<1>5. \A d \in qs : d.txs # {} /\ Connected(d.txs)
  BY <1>1 DEF Partition
<1>6. ASSUME NEW a \in qs, NEW b \in qs, a # b PROVE a.txs \cap b.txs = {}
  <2>1. PICK c \in cs : a = Chunk(c.txs, Fresh) /\ a.txs = c.txs
    BY <1>1
  <2>2. PICK d \in cs : b = Chunk(d.txs, Fresh) /\ b.txs = d.txs
    BY <1>1
  <2>3. c # d
    BY <1>6, <2>1, <2>2
  <2> QED
    BY <2>1, <2>2, <2>3 DEF Partition
<1> QED
  BY <1>3, <1>4, <1>5, <1>6 DEF Partition, qs

LEMMA PartitionFirst ==
  Partition({Chunk({t}, NotQueued) : t \in Txs})
<1> DEFINE cs == {Chunk({t}, NotQueued) : t \in Txs}
<1>0. \A t : Chunk({t}, NotQueued).txs = {t}
  BY DEF Chunk
<1>1. \A d \in cs : \E t \in Txs : d = Chunk({t}, NotQueued) /\ d.txs = {t}
  <2> TAKE d \in cs
  <2>1. PICK t \in Txs : d = Chunk({t}, NotQueued)
    OBVIOUS
  <2> QED
    BY <1>0, <2>1
<1>2. \A t \in Txs : \E d \in cs : d.txs = {t}
  <2> TAKE t \in Txs
  <2>1. Chunk({t}, NotQueued) \in cs
    OBVIOUS
  <2> QED
    BY <1>0, <2>1
<1> HIDE DEF cs
<1>3. UNION {d.txs : d \in cs} = Txs
  <2>1. ASSUME NEW x \in UNION {d.txs : d \in cs} PROVE x \in Txs
    <3>1. PICK d \in cs : x \in d.txs
      OBVIOUS
    <3>2. PICK t \in Txs : d.txs = {t}
      BY <1>1
    <3> QED
      BY <3>1, <3>2
  <2>2. ASSUME NEW x \in Txs PROVE x \in UNION {d.txs : d \in cs}
    <3>1. PICK d \in cs : d.txs = {x}
      BY <1>2
    <3> QED
      BY <3>1
  <2> QED
    BY <2>1, <2>2
<1>4. \A t : Connected({t})
  BY DEF Connected, Joins
<1>5. \A d \in cs : d.txs # {} /\ Connected(d.txs)
  BY <1>1, <1>4
<1>6. \A a, b \in cs : a # b => a.txs \cap b.txs = {}
  BY <1>1
<1> QED
  BY <1>3, <1>5, <1>6 DEF Partition, cs

\* A chunk that is cut closes no loop.
LEMMA LooplessCut ==
  ASSUME deps \subseteq Txs \X Txs, NEW cs, Partition(cs), Loopless(Bodies(cs)),
         NEW c \in cs, NEW T \in Tops(c.txs), NEW x, NEW y
  PROVE  Loopless(Bodies((cs \ {c}) \cup {Chunk(T, x), Chunk(c.txs \ T, y)}))
<1> DEFINE S == c.txs
           K == Bodies(cs)
           L == Bodies((cs \ {c}) \cup {Chunk(T, x), Chunk(c.txs \ T, y)})
           Rest == S \ T
<1>1. S \in SUBSET Txs /\ Connected(S) /\ S \in K
  BY PartitionIs DEF Partition, Side, Bodies
<1>2. T \subseteq S /\ T # {} /\ Rest # {} /\ ~ Feeds(Rest, T)
  BY <1>1, CutIs
<1>3. \A A \in L : A = T \/ A = Rest \/ (A \in K /\ A # S)
  <2> TAKE A \in L
  <2>1. PICK d \in (cs \ {c}) \cup {Chunk(T, x), Chunk(c.txs \ T, y)} : A = d.txs
    BY DEF Bodies
  <2>2. CASE d \in cs \ {c}
    <3>1. d.txs # c.txs
      BY <2>2, PartitionIs
    <3> QED
      BY <2>1, <2>2, <3>1 DEF Bodies
  <2>3. CASE d = Chunk(T, x)
    BY <2>1, <2>3, ChunkIs
  <2>4. CASE d = Chunk(c.txs \ T, y)
    BY <2>1, <2>4, ChunkIs
  <2> QED
    BY <2>2, <2>3, <2>4
<1>4. \A A, B : (Feeds(T, A) \/ Feeds(Rest, A) => Feeds(S, A))
             /\ (Feeds(B, T) \/ Feeds(B, Rest) => Feeds(B, S))
  BY <1>2 DEF Feeds
<1> HIDE DEF S, K, L, Rest
<1> SUFFICES ASSUME NEW Q \in (SUBSET L) \ {{}}
             PROVE  \E A \in Q : \A B \in Q \ {A} : ~ Feeds(B, A)
  BY DEF Loopless, L
<1> DEFINE P == {A \in K : (A # S /\ A \in Q) \/ (A = S /\ (T \in Q \/ Rest \in Q))}
<1>5. P # {}
  <2>1. PICK A \in Q : TRUE
    OBVIOUS
  <2>2. A = T \/ A = Rest \/ (A \in K /\ A # S)
    BY <1>3
  <2> QED
    BY <1>1, <2>2
<1>6. PICK A \in P : \A B \in P \ {A} : ~ Feeds(B, A)
  <2>1. P \in (SUBSET K) \ {{}}
    BY <1>5
  <2> HIDE DEF P
  <2> QED
    BY <2>1 DEF Loopless, K
<1>7. CASE A # S
  <2>1. A \in Q
    BY <1>7
  <2>2. ASSUME NEW B \in Q \ {A} PROVE ~ Feeds(B, A)
    <3>1. CASE B = T \/ B = Rest
      <4>1. S \in P \ {A}
        BY <1>1, <1>7, <3>1
      <4> QED
        BY <1>4, <1>6, <3>1, <4>1
    <3>2. CASE B \in K /\ B # S
      BY <1>6, <3>2
    <3> QED
      BY <1>3, <3>1, <3>2
  <2> QED
    BY <2>1, <2>2
<1>8. CASE A = S
  <2>1. \A B \in Q : B # T /\ B # Rest => ~ Feeds(B, T) /\ ~ Feeds(B, Rest)
    <3> TAKE B \in Q
    <3>1. SUFFICES ASSUME B # T, B # Rest PROVE ~ Feeds(B, S)
      BY <1>4
    <3>2. B \in K /\ B # S
      BY <1>3, <3>1
    <3> QED
      BY <1>6, <1>8, <3>2
  <2>2. CASE T \in Q
    <3>1. \A B \in Q \ {T} : ~ Feeds(B, T)
      BY <1>2, <2>1
    <3> QED
      BY <2>2, <3>1
  <2>3. CASE T \notin Q /\ Rest \in Q
    <3>1. \A B \in Q \ {Rest} : ~ Feeds(B, Rest)
      BY <2>1, <2>3
    <3> QED
      BY <2>3, <3>1
  <2> QED
    BY <1>8, <2>2, <2>3
<1> QED
  BY <1>7, <1>8

\* Of some sets of transactions one has a feerate none exceeds, and one exceeds none.
LEMMA Extremes ==
  ASSUME Rated, NEW K \in SUBSET Side, K # {}, \A A, B \in K : A # B => A \cap B = {}
  PROVE  /\ \E A \in K : \A B \in K : ~ Higher(B, A)
         /\ \E A \in K : \A B \in K : ~ Higher(A, B)
<1> DEFINE at == [A \in K |-> A]
           less == {e \in K \X K : Earlier(e[1], e[2])}
           more == {e \in K \X K : Earlier(e[2], e[1])}
<1>1. at \in [K -> Side] /\ \A A, B \in K : A # B => at[A] \cap at[B] = {}
  OBVIOUS
<1>2. \A A, B \in K : <<A, B>> \in less <=> Earlier(at[A], at[B])
  OBVIOUS
<1>3. \A A, B \in K : /\ <<A, B>> \in less <=> Earlier(A, B)
                      /\ <<A, B>> \in more <=> Earlier(B, A)
  OBVIOUS
<1> HIDE DEF at, less, more
<1>4. Total(less, K)
  BY <1>1, <1>2, EarlierTotal
<1>5. Total(more, K)
  BY <1>3, <1>4 DEF Total
<1>6. IsFiniteSet(K)
  <2>1. IsFiniteSet(SUBSET Txs)
    BY TxsFinite, FS_SUBSET
  <2>2. K \subseteq SUBSET Txs
    BY DEF Side
  <2> QED
    BY <2>1, <2>2, FS_Subset
<1>7. \A A, B \in K : Earlier(A, B) => ~ Higher(B, A)
  <2> TAKE A \in K, B \in K
  <2>1. A \in Side /\ B \in Side
    OBVIOUS
  <2>2. ~ (Higher(A, B) /\ Higher(B, A))
    BY <2>1, HigherIs
  <2> QED
    BY <2>2 DEF Earlier
<1>8. \A A \in K : ~ Higher(A, A)
  BY HigherIs
<1>9. PICK A : IsFirst(A, K, less)
  BY <1>4, <1>6, FirstExists
<1>10. A \in K /\ \A B \in K : ~ Higher(B, A)
  BY <1>3, <1>7, <1>8, <1>9 DEF IsFirst
<1>11. PICK B : IsFirst(B, K, more)
  BY <1>5, <1>6, FirstExists
<1>12. B \in K /\ \A C \in K : ~ Higher(B, C)
  BY <1>3, <1>7, <1>8, <1>11 DEF IsFirst
<1> QED
  BY <1>10, <1>12

\* While chunks merge, a dependency that needs one is in sight of a queued chunk.
InSight(c, d) ==
  \/ c.todo = Merged \/ d.todo = Merged
  \/ dir = "down" /\ c.todo # NotQueued
  \/ dir = "up" /\ d.todo # NotQueued
Watched ==
  \A c, d \in chunks :
    c # d /\ Feeds(c.txs, d.txs) /\ ~ Higher(c.txs, d.txs) => InSight(c, d)

\* The inductive invariant.
SearchSound ==
  /\ deps \in Graphs /\ rate \in [Txs -> Rates]
  /\ Partition(chunks)
  /\ stage = "merge" => Watched
  /\ stage \in {"optimize", "minimize"} => Loopless(Bodies(chunks))
  /\ stage = "done" => Rows(deps, result, Txs) /\ Falls(result)

LEMMA InputsAre ==
  ASSUME deps \in Graphs, rate \in [Txs -> Rates]
  PROVE  GraphAndRates
BY LinearAssumption DEF GraphAndRates, Rated

LEMMA UpIs ==
  ASSUME Rated, Partition(chunks), NEW c \in chunks
  PROVE  /\ \A p \in Up(c) : p \in chunks \ {c} /\ Feeds(p.txs, c.txs)
         /\ Up(c) = {} => \A p \in chunks \ {c} : Feeds(p.txs, c.txs) => Higher(p.txs, c.txs)
<1> DEFINE open == {p \in chunks \ {c} : Feeds(p.txs, c.txs) /\ ~ Higher(p.txs, c.txs)}
           K == Bodies(open)
<1>1. Up(c) = {p \in open : \A q \in open : ~ Higher(p.txs, q.txs)}
  BY DEF Up
<1>2. \A p \in Up(c) : p \in chunks \ {c} /\ Feeds(p.txs, c.txs)
  BY <1>1
<1>3. ASSUME open # {} PROVE Up(c) # {}
  <2>1. K \in SUBSET Side /\ \A A, B \in K : A # B => A \cap B = {}
    <3>1. Bodies(chunks) \subseteq Side /\ \A A, B \in Bodies(chunks) : A # B => A \cap B = {}
      BY PartitionIs DEF Divides, Side
    <3>2. K \subseteq Bodies(chunks)
      BY DEF Bodies
    <3> HIDE DEF K
    <3> QED
      BY <3>1, <3>2
  <2>2. K # {} /\ (\A A \in K : \E p \in open : A = p.txs) /\ \A p \in open : p.txs \in K
    <3> HIDE DEF open
    <3> QED
      BY <1>3 DEF Bodies
  <2> HIDE DEF K, open
  <2>3. PICK A \in K : \A B \in K : ~ Higher(A, B)
    BY <2>1, <2>2, Extremes
  <2>4. PICK p \in open : A = p.txs
    BY <2>2
  <2>5. p \in Up(c)
    BY <1>1, <2>2, <2>3, <2>4
  <2> QED
    BY <2>5
<1> QED
  BY <1>2, <1>3

LEMMA DownIs ==
  ASSUME Rated, Partition(chunks), NEW c \in chunks
  PROVE  /\ \A d \in Down(c) : d \in chunks \ {c} /\ Feeds(c.txs, d.txs)
         /\ Down(c) = {} => \A d \in chunks \ {c} : Feeds(c.txs, d.txs) => Higher(c.txs, d.txs)
<1> DEFINE open == {d \in chunks \ {c} : Feeds(c.txs, d.txs) /\ ~ Higher(c.txs, d.txs)}
           K == Bodies(open)
<1>1. Down(c) = {d \in open : \A q \in open : ~ Higher(q.txs, d.txs)}
  BY DEF Down
<1>2. \A d \in Down(c) : d \in chunks \ {c} /\ Feeds(c.txs, d.txs)
  BY <1>1
<1>3. ASSUME open # {} PROVE Down(c) # {}
  <2>1. K \in SUBSET Side /\ \A A, B \in K : A # B => A \cap B = {}
    <3>1. Bodies(chunks) \subseteq Side /\ \A A, B \in Bodies(chunks) : A # B => A \cap B = {}
      BY PartitionIs DEF Divides, Side
    <3>2. K \subseteq Bodies(chunks)
      BY DEF Bodies
    <3> HIDE DEF K
    <3> QED
      BY <3>1, <3>2
  <2>2. K # {} /\ (\A A \in K : \E d \in open : A = d.txs) /\ \A d \in open : d.txs \in K
    <3> HIDE DEF open
    <3> QED
      BY <1>3 DEF Bodies
  <2> HIDE DEF K, open
  <2>3. PICK A \in K : \A B \in K : ~ Higher(B, A)
    BY <2>1, <2>2, Extremes
  <2>4. PICK d \in open : A = d.txs
    BY <2>2
  <2>5. d \in Down(c)
    BY <1>1, <2>2, <2>3, <2>4
  <2> QED
    BY <2>5
<1> QED
  BY <1>2, <1>3

LEMMA TodosDiffer ==
  NotQueued # Fresh /\ NotQueued # Merged
BY DEF NotQueued, Fresh, Merged

\* Once nothing is queued, feerates rise with dependencies.
LEMMA WatchedQuiet ==
  ASSUME Watched, Quiet
  PROVE  \A c, d \in chunks : c # d /\ Feeds(c.txs, d.txs) => Higher(c.txs, d.txs)
<1>1. \A c, d \in chunks : ~ InSight(c, d)
  BY TodosDiffer DEF Quiet, InSight
<1> QED
  BY <1>1 DEF Watched

\* Then they have no loop: what has the highest feerate depends on nothing.
LEMMA QuietLoopless ==
  ASSUME Rated, Partition(chunks), Watched, Quiet
  PROVE  Loopless(Bodies(chunks))
<1> SUFFICES ASSUME NEW Q \in (SUBSET Bodies(chunks)) \ {{}}
             PROVE  \E A \in Q : \A B \in Q \ {A} : ~ Feeds(B, A)
  BY DEF Loopless
<1>1. Bodies(chunks) \subseteq Side /\ \A A, B \in Bodies(chunks) : A # B => A \cap B = {}
  BY PartitionIs DEF Divides, Side
<1>2. PICK A \in Q : \A B \in Q : ~ Higher(B, A)
  BY <1>1, Extremes
<1>3. ASSUME NEW B \in Q \ {A} PROVE ~ Feeds(B, A)
  <2>1. PICK c \in chunks : A = c.txs
    BY DEF Bodies
  <2>2. PICK d \in chunks : B = d.txs
    BY DEF Bodies
  <2>3. Feeds(B, A) => Higher(B, A)
    BY <2>1, <2>2, WatchedQuiet
  <2> QED
    BY <1>2, <2>3
<1> QED
  BY <1>3

LEMMA HigherStays ==
  ASSUME rate' = rate, NEW CONSTANT S, NEW CONSTANT T
  PROVE  Higher(S, T)' <=> Higher(S, T)
<1>1. \A U, k : Sums(U, k)' = Sums(U, k)
  BY DEF Sums
<1> QED
  BY <1>1 DEF Higher, Fee, Weight

LEMMA FeedsStays ==
  ASSUME deps' = deps, NEW CONSTANT S, NEW CONSTANT T
  PROVE  Feeds(S, T)' <=> Feeds(S, T)
BY DEF Feeds

LEMMA PartitionStays ==
  ASSUME deps' = deps, Partition(chunks')
  PROVE  Partition(chunks)'
<1>1. \A S : Connected(S)' <=> Connected(S)
  BY DEF Connected, Joins
<1> QED
  BY <1>1 DEF Partition

LEMMA LooplessStays ==
  ASSUME deps' = deps, Loopless(Bodies(chunks'))
  PROVE  Loopless(Bodies(chunks))'
<1>1. \A S, T : Feeds(S, T)' <=> Feeds(S, T)
  BY FeedsStays
<1>2. Bodies(chunks)' = Bodies(chunks')
  BY DEF Bodies
<1> QED
  BY <1>1, <1>2 DEF Loopless

\* What a step of the search does to the invariant.
LEMMA SearchStep ==
  ASSUME SearchSound, UNCHANGED input, Partition(chunks'),
         stage' # "merge",
         stage' \in {"optimize", "minimize"} => Loopless(Bodies(chunks')),
         stage' # "done"
  PROVE  SearchSound'
<1>1. deps' = deps /\ rate' = rate
  BY DEF input
<1>2. Partition(chunks)'
  BY <1>1, PartitionStays
<1>3. stage' \in {"optimize", "minimize"} => Loopless(Bodies(chunks))'
  BY <1>1, LooplessStays
<1>4. deps' \in Graphs /\ rate' \in [Txs -> Rates]
  BY <1>1 DEF SearchSound
<1> QED
  BY <1>2, <1>3, <1>4 DEF SearchSound

LEMMA InitSound ==
  ASSUME LinearInit
  PROVE  SearchSound
<1>1. Partition(chunks)
  BY PartitionFirst DEF LinearInit
<1> QED
  BY <1>1 DEF LinearInit, SearchSound

LEMMA LoadSound ==
  ASSUME SearchSound, Load
  PROVE  SearchSound'
<1>1. UNCHANGED input /\ stage' = "load"
  BY DEF Load
<1>2. Partition(chunks) /\ Rated
  BY InputsAre DEF SearchSound, GraphAndRates
<1>3. PICK c \in chunks : \/ UNCHANGED chunks
                          \/ \E p \in Up(c) :
                               Replace({c, p}, {Chunk(c.txs \cup p.txs, NotQueued)})
  BY DEF Load
<1>4. CASE UNCHANGED chunks
  <2>1. Partition(chunks')
    BY <1>2, <1>4
  <2> QED
    BY <1>1, <2>1, SearchStep
<1>5. ASSUME NEW p \in Up(c), Replace({c, p}, {Chunk(c.txs \cup p.txs, NotQueued)})
      PROVE  SearchSound'
  <2>1. p \in chunks /\ Feeds(p.txs, c.txs)
    BY <1>2, UpIs
  <2>2. Partition((chunks \ {c, p}) \cup {Chunk(c.txs \cup p.txs, NotQueued)})
    BY <1>2, <2>1, PartitionMerged
  <2>3. Partition(chunks')
    BY <1>5, <2>2 DEF Replace
  <2> QED
    BY <1>1, <2>3, SearchStep
<1> QED
  BY <1>3, <1>4, <1>5

LEMMA LoadedSound ==
  ASSUME SearchSound, Loaded
  PROVE  SearchSound'
<1>1. deps' = deps /\ rate' = rate /\ stage' = "merge" /\ chunks' = Queued(chunks)
      /\ dir' \in {"up", "down"}
  BY DEF Loaded, input
<1>2. Partition(chunks')
  BY <1>1, PartitionQueued DEF SearchSound
<1>3. Partition(chunks)'
  BY <1>1, <1>2, PartitionStays
<1>4. \A c \in chunks' : c.todo = Fresh
  BY <1>1, ChunkIs DEF Queued
<1>5. \A c, d \in chunks' : InSight(c, d)'
  BY <1>1, <1>4, TodosDiffer DEF InSight
<1>6. Watched'
  BY <1>5 DEF Watched
<1> QED
  BY <1>1, <1>3, <1>6 DEF SearchSound

LEMMA MergeSound ==
  ASSUME SearchSound, Merge
  PROVE  SearchSound'
<1>1. deps' = deps /\ rate' = rate /\ stage = "merge" /\ stage' = "merge" /\ dir' = dir
  BY DEF Merge, input
<1>2. Partition(chunks) /\ Rated /\ Watched
  BY <1>1, InputsAre DEF SearchSound, GraphAndRates
<1>3. PICK x \in chunks :
        /\ x.todo # NotQueued
        /\ \/ Candidates(x) = {} /\ Replace({x}, {Chunk(x.txs, NotQueued)})
           \/ \E y \in Candidates(x) :
                Replace({x, y}, {Chunk(x.txs \cup y.txs, Merged)})
  BY DEF Merge
<1>4. \A S, T : (Feeds(S, T)' <=> Feeds(S, T)) /\ (Higher(S, T)' <=> Higher(S, T))
  BY <1>1, FeedsStays, HigherStays
<1>5. \A c, d : InSight(c, d)' <=> InSight(c, d)
  BY <1>1 DEF InSight
<1>6. \A c, d \in chunks : c # d /\ Feeds(c.txs, d.txs) /\ ~ Higher(c.txs, d.txs)
                             => InSight(c, d)
  BY <1>2 DEF Watched
<1>7. ASSUME Partition(chunks'),
             \A c, d \in chunks' :
               c # d /\ Feeds(c.txs, d.txs) /\ ~ Higher(c.txs, d.txs) => InSight(c, d)
      PROVE  SearchSound'
  <2>1. Partition(chunks)'
    BY <1>1, <1>7, PartitionStays
  <2>2. Watched'
    BY <1>4, <1>5, <1>7 DEF Watched
  <2> QED
    BY <1>1, <2>1, <2>2 DEF SearchSound
<1>8. CASE Candidates(x) = {} /\ Replace({x}, {Chunk(x.txs, NotQueued)})
  <2> DEFINE z == Chunk(x.txs, NotQueued)
  <2>1. chunks' = (chunks \ {x}) \cup {z} /\ z.txs = x.txs /\ z.todo = NotQueued
    BY <1>8, ChunkIs DEF Replace
  <2>2. Partition(chunks')
    BY <1>2, <2>1, PartitionOne
  <2> HIDE DEF z
  <2>3. /\ (x.todo = Merged \/ dir = "up") => Up(x) = {}
        /\ (x.todo = Merged \/ dir = "down") => Down(x) = {}
    BY <1>8 DEF Candidates
  <2>4. ASSUME NEW c \in chunks', NEW d \in chunks', c # d, Feeds(c.txs, d.txs),
               ~ Higher(c.txs, d.txs)
        PROVE  InSight(c, d)
    <3>1. CASE c # z /\ d # z
      BY <1>6, <2>1, <2>4, <3>1
    <3>2. CASE c = z
      <4>1. d \in chunks \ {x} /\ Feeds(x.txs, d.txs) /\ ~ Higher(x.txs, d.txs)
        BY <2>1, <2>4, <3>2
      <4>2. InSight(x, d)
        BY <1>6, <4>1
      <4>3. ~ (x.todo = Merged \/ dir = "down")
        BY <1>2, <2>3, <4>1, DownIs
      <4> QED
        BY <4>2, <4>3 DEF InSight
    <3>3. CASE d = z
      <4>1. c \in chunks \ {x} /\ Feeds(c.txs, x.txs) /\ ~ Higher(c.txs, x.txs)
        BY <2>1, <2>4, <3>3
      <4>2. InSight(c, x)
        BY <1>6, <4>1
      <4>3. ~ (x.todo = Merged \/ dir = "up")
        BY <1>2, <2>3, <4>1, UpIs
      <4> QED
        BY <4>2, <4>3 DEF InSight
    <3> QED
      BY <3>1, <3>2, <3>3
  <2> QED
    BY <1>7, <2>2, <2>4
<1>9. ASSUME NEW y \in Candidates(x), Replace({x, y}, {Chunk(x.txs \cup y.txs, Merged)})
      PROVE  SearchSound'
  <2> DEFINE z == Chunk(x.txs \cup y.txs, Merged)
  <2>1. chunks' = (chunks \ {x, y}) \cup {z} /\ z.todo = Merged
    BY <1>9, ChunkIs DEF Replace
  <2>2. y \in chunks /\ (Feeds(x.txs, y.txs) \/ Feeds(y.txs, x.txs))
    BY <1>2, UpIs, DownIs DEF Candidates
  <2>3. Partition(chunks')
    BY <1>2, <2>1, <2>2, PartitionMerged
  <2> HIDE DEF z
  <2>4. ASSUME NEW c \in chunks', NEW d \in chunks', c # d, Feeds(c.txs, d.txs),
               ~ Higher(c.txs, d.txs)
        PROVE  InSight(c, d)
    <3>1. CASE c # z /\ d # z
      BY <1>6, <2>1, <2>4, <3>1
    <3>2. CASE c = z \/ d = z
      BY <2>1, <3>2 DEF InSight
    <3> QED
      BY <3>1, <3>2
  <2> QED
    BY <1>7, <2>3, <2>4
<1> QED
  BY <1>3, <1>8, <1>9

LEMMA MergeEndsSound ==
  ASSUME SearchSound, MergeEnds
  PROVE  SearchSound'
<1>1. UNCHANGED input /\ stage = "merge" /\ Quiet /\ stage' = "optimize"
      /\ chunks' = Queued(chunks)
  BY DEF MergeEnds
<1>2. Partition(chunks) /\ Rated /\ Watched
  BY <1>1, InputsAre DEF SearchSound, GraphAndRates
<1>3. Partition(chunks') /\ Bodies(chunks') = Bodies(chunks)
  BY <1>1, <1>2, PartitionQueued
<1>4. Loopless(Bodies(chunks'))
  BY <1>1, <1>2, <1>3, QuietLoopless
<1> QED
  BY <1>1, <1>3, <1>4, SearchStep

\* A chunk that is queued anew or not at all.
LEMMA RequeuedSound ==
  ASSUME SearchSound, stage \in {"optimize", "minimize"}, UNCHANGED <<input, stage>>,
         NEW c \in chunks, NEW todo, Replace({c}, {Chunk(c.txs, todo)})
  PROVE  SearchSound'
<1>1. chunks' = (chunks \ {c}) \cup {Chunk(c.txs, todo)} /\ Partition(chunks)
      /\ Loopless(Bodies(chunks))
  BY DEF SearchSound, Replace
<1>2. Partition(chunks')
  BY <1>1, PartitionOne
<1>3. Bodies(chunks') = Bodies(chunks)
  <2>1. Chunk(c.txs, todo).txs = c.txs
    BY ChunkIs
  <2> QED
    BY <1>1, <2>1 DEF Bodies
<1>4. Loopless(Bodies(chunks'))
  BY <1>1, <1>3
<1> QED
  BY <1>2, <1>4, SearchStep

\* A chunk that is cut.
LEMMA CutSound ==
  ASSUME SearchSound, stage \in {"optimize", "minimize"}, UNCHANGED <<input, stage>>,
         NEW c \in chunks, NEW T \in Tops(c.txs), NEW x, NEW y,
         Replace({c}, {Chunk(T, x), Chunk(c.txs \ T, y)})
  PROVE  SearchSound'
<1>1. chunks' = (chunks \ {c}) \cup {Chunk(T, x), Chunk(c.txs \ T, y)} /\ Partition(chunks)
      /\ Loopless(Bodies(chunks))
  BY DEF SearchSound, Replace
<1>2. deps \subseteq Txs \X Txs
  BY InputsAre DEF SearchSound, GraphAndRates
<1>3. Partition(chunks')
  BY <1>1, <1>2, PartitionCut
<1>4. Loopless(Bodies(chunks'))
  BY <1>1, <1>2, LooplessCut
<1> QED
  BY <1>3, <1>4, SearchStep

LEMMA OptimizeSound ==
  ASSUME SearchSound, Optimize
  PROVE  SearchSound'
<1>1. stage \in {"optimize", "minimize"} /\ UNCHANGED <<input, stage>>
  BY DEF Optimize
<1>2. PICK c \in chunks :
        \/ Replace({c}, {Chunk(c.txs, NotQueued)})
        \/ \E T \in Tops(c.txs) : Replace({c}, {Chunk(T, Fresh), Chunk(c.txs \ T, Fresh)})
  BY DEF Optimize
<1> QED
  BY <1>1, <1>2, RequeuedSound, CutSound

LEMMA OptimizeEndsSound ==
  ASSUME SearchSound, OptimizeEnds
  PROVE  SearchSound'
<1>1. UNCHANGED input /\ stage = "optimize" /\ stage' = "minimize" /\ chunks' = Queued(chunks)
  BY DEF OptimizeEnds
<1>2. Partition(chunks') /\ Bodies(chunks') = Bodies(chunks) /\ Loopless(Bodies(chunks))
  BY <1>1, PartitionQueued DEF SearchSound
<1> QED
  BY <1>1, <1>2, SearchStep

LEMMA MinimizeSound ==
  ASSUME SearchSound, Minimize
  PROVE  SearchSound'
<1>1. stage \in {"optimize", "minimize"} /\ UNCHANGED <<input, stage>>
  BY DEF Minimize
<1>2. PICK c \in chunks : \E m : Minimized(c, m)
  BY DEF Minimize
<1>3. PICK m : Minimized(c, m)
  BY <1>2
<1>4. \/ \E todo : Replace({c}, {Chunk(c.txs, todo)})
      \/ \E T \in Tops(c.txs) : \E x, y : Replace({c}, {Chunk(T, x), Chunk(c.txs \ T, y)})
  BY <1>3 DEF Minimized
<1> QED
  BY <1>1, <1>4, RequeuedSound, CutSound

LEMMA FinishSound ==
  ASSUME SearchSound, Finish
  PROVE  SearchSound'
<1>1. deps' = deps /\ rate' = rate /\ stage \in {"optimize", "minimize"} /\ stage' = "done"
      /\ chunks' = chunks /\ result' = Linearized
  BY DEF Finish, input
<1>2. Partition(chunks) /\ Loopless(Bodies(chunks)) /\ GraphAndRates
  BY <1>1, InputsAre DEF SearchSound
<1>3. Rows(deps, Linearized, Txs) /\ Falls(Linearized)
  <2>1. Divides(Bodies(chunks), Txs)
    BY <1>2, PartitionIs
  <2> QED
    BY <1>2, <2>1, LinearizedIs DEF Bodies
<1>4. Partition(chunks)'
  BY <1>1, <1>2, PartitionStays
<1>5. Rows(deps, result, Txs)'
  <2>1. Rows(deps', result', Txs)
    BY <1>1, <1>3
  <2> QED
    BY <2>1 DEF Rows, Row, Apart
<1>6. Falls(result)'
  <2>1. \A S, T : Higher(S, T)' <=> Higher(S, T)
    BY <1>1, HigherStays
  <2>2. Falls(result')
    BY <1>1, <1>3
  <2> QED
    BY <2>1, <2>2 DEF Falls, FallsTo
<1> QED
  BY <1>1, <1>4, <1>5, <1>6 DEF SearchSound

LEMMA RelinearizeSound ==
  ASSUME SearchSound, Relinearize
  PROVE  SearchSound'
<1>1. deps' = deps /\ stage' = "load" /\ chunks' = {Chunk({t}, NotQueued) : t \in Txs}
  BY DEF Relinearize
<1>2. rate' \in [Txs -> Rates]
  BY DEF Relinearize, SearchSound
<1>3. Partition(chunks)'
  BY <1>1, PartitionFirst, PartitionStays
<1> QED
  BY <1>1, <1>2, <1>3 DEF SearchSound

\* The search keeps a partition of the cluster into connected sets, merges everything that
\* feerates ask for, and closes no loop, so that Finish can order any cluster
\* (spanningForestLinearize(), makeTopological(), optimizeStep(), minimizeChunkStep()).
THEOREM SearchInvariant ==
  LinearSpec => []SearchSound
<1>1. LinearInit => SearchSound
  BY InitSound
<1>2. SearchSound /\ [LinearNext]_linearVars => SearchSound'
  <2> SUFFICES ASSUME SearchSound, [LinearNext]_linearVars PROVE SearchSound'
    OBVIOUS
  <2>1. CASE UNCHANGED linearVars
    <3>1. /\ deps' = deps /\ rate' = rate /\ stage' = stage /\ chunks' = chunks
          /\ dir' = dir /\ result' = result
      BY <2>1 DEF linearVars, input
    <3>2. Partition(chunks)'
      BY <3>1, PartitionStays DEF SearchSound
    <3>3. \A S, T : (Feeds(S, T)' <=> Feeds(S, T)) /\ (Higher(S, T)' <=> Higher(S, T))
      BY <3>1, FeedsStays, HigherStays
    <3>4. stage' = "merge" => Watched'
      BY <3>1, <3>3 DEF SearchSound, Watched, InSight
    <3>5. stage' \in {"optimize", "minimize"} => Loopless(Bodies(chunks))'
      BY <3>1, LooplessStays DEF SearchSound
    <3>6. stage' = "done" => Rows(deps, result, Txs)' /\ Falls(result)'
      <4> SUFFICES ASSUME stage' = "done" PROVE Rows(deps, result, Txs)' /\ Falls(result)'
        OBVIOUS
      <4>1. Rows(deps', result', Txs) /\ Falls(result')
        BY <3>1 DEF SearchSound
      <4>2. Rows(deps, result, Txs)'
        BY <4>1 DEF Rows, Row, Apart
      <4>3. Falls(result)'
        BY <3>3, <4>1 DEF Falls, FallsTo
      <4> QED
        BY <4>2, <4>3
    <3> QED
      BY <3>1, <3>2, <3>4, <3>5, <3>6 DEF SearchSound
  <2>2. CASE LinearNext
    BY <2>2, LoadSound, LoadedSound, MergeSound, MergeEndsSound, OptimizeSound,
       OptimizeEndsSound, MinimizeSound, FinishSound, RelinearizeSound DEF LinearNext
  <2> QED
    BY <2>1, <2>2
<1> QED
  BY <1>1, <1>2, PTL DEF LinearSpec

\* Whatever the cluster, the feerates, the draws and the budget: the chunks of the search
\* partition the cluster at every stage, they are topological when makeTopological() is
\* through, and linearizeCluster() returns every transaction once and parents first, in
\* chunks of falling feerates.
THEOREM ValidHolds ==
  LinearSpec => []Valid
<1>1. SearchSound => Valid
  <2> SUFFICES ASSUME SearchSound PROVE Valid
    OBVIOUS
  <2>1. LinearTypeOK
    BY DEF SearchSound, Partition, LinearTypeOK
  <2>2. Topological
    <3> SUFFICES ASSUME stage = "merge", Quiet
                 PROVE  \A c, d \in chunks : c # d /\ Feeds(c.txs, d.txs) => Higher(c.txs, d.txs)
      BY DEF Topological
    <3>1. Watched
      BY DEF SearchSound
    <3> QED
      BY <3>1, WatchedQuiet
  <2>3. ResultValid
    <3> SUFFICES ASSUME stage = "done"
                 PROVE  /\ IsLinear(FlattenSeq(result))
                        /\ \A i \in 2..Len(result) :
                             ~ Higher(ToSet(result[i]), ToSet(result[i - 1]))
      BY DEF ResultValid
    <3>1. Rows(deps, result, Txs) /\ Falls(result) /\ GraphAndRates
      BY InputsAre DEF SearchSound
    <3>2. IsLinear(FlattenSeq(result))
      BY <3>1, FlattenRow, RowLinear
    <3> QED
      BY <3>1, <3>2 DEF Falls, FallsTo
  <2> QED
    BY <2>1, <2>2, <2>3 DEF Valid
<1> QED
  BY <1>1, SearchInvariant, PTL
=============================================================================
