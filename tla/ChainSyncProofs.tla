-------------------------- MODULE ChainSyncProofs --------------------------
(* Theorems about ChainSync, for any tree of blocks and any bounds.         *)
EXTENDS ChainTips, FiniteSetTheorems, SequenceTheorems, WellFoundedInduction, TLAPS

\* The blocks that have a row in the table.
Rowed == {b \in Block : rows[b] # "none"}

\* check is a record; its hash and what it read are left open.
CheckIsRecord ==
  check = [at |-> check.at, tip |-> check.tip, hash |-> check.hash, height |-> check.height,
           low |-> check.low, rows |-> check.rows, runs |-> check.runs]

\* What is to become part of the cache has a row before: the block to be pushed, and
\* the blocks the walk of $handleReorgs() went over.
StoredFirst ==
  /\ blocks \in Seq(Rowed) /\ fresh \in Seq(Rowed)
  /\ pc \in {"get", "fork", "save"} => block \in Block
  /\ pc \in {"index", "canon", "walk", "rebuild"} => block \in Block /\ tail \in Block
  /\ pc \in {"index", "canon"} => tail # Root
  /\ pc = "canon" => Parent[tail] \in Rowed
  /\ pc = "push" => block \in Rowed

IInv == TypeOK /\ CheckIsRecord /\ StoredFirst

-----------------------------------------------------------------------------
(* Operators                                                               *)

\* The end of a sequence is a sequence over the same set.
LEMMA LatestTyped ==
  ASSUME NEW S, NEW s \in Seq(S), NEW n \in Nat
  PROVE  Latest(s, n) \in Seq(S) /\ Len(Latest(s, n)) <= n
<1>1. CASE Len(s) > n
  <2>1. Latest(s, n) = SubSeq(s, Len(s) - n + 1, Len(s))
    BY <1>1 DEF Latest
  <2>2. \A i \in Len(s) - n + 1 .. Len(s) : i \in 1 .. Len(s)
    BY <1>1, LenProperties
  <2> QED
    BY <1>1, <2>1, <2>2, LenProperties, SubSeqProperties
<1>2. CASE ~(Len(s) > n)
  <2>1. Latest(s, n) = SubSeq(s, 1, Len(s))
    BY <1>2 DEF Latest
  <2> QED
    BY <1>2, <2>1, LenProperties, SubSeqProperties
<1> QED
  BY <1>1, <1>2

\* So is its reverse.
LEMMA ReverseTyped ==
  ASSUME NEW S, NEW s \in Seq(S)
  PROVE  Reverse(s) \in Seq(S)
<1>1. Len(s) \in Nat /\ \A i \in 1 .. Len(s) : s[(Len(s) - i) + 1] \in S
  BY LenProperties, ElementOfSeq
<1> QED
  BY <1>1, IsASeq DEF Reverse

\* The last element is one of the set.
LEMMA LastTyped ==
  ASSUME NEW S, NEW s \in Seq(S), s # <<>>
  PROVE  Last(s) \in S
BY LenProperties, ElementOfSeq, EmptySeq DEF Last

\* The bound of the cache is a number.
LEMMA CacheSizeTyped == CacheSize \in Nat
BY BoundsAssumption DEF CacheSize

\* A block that is saved or declared canonical keeps the others' rows, and its own is there.
LEMMA CanonicalKeeps ==
  ASSUME rows \in [Block -> Statuses], NEW b, NEW h
  PROVE  /\ Canonical(b, h) \in [Block -> Statuses]
         /\ \A c \in Rowed : Canonical(b, h)[c] # "none"
BY DEF Canonical, Rowed, Statuses

\* A saved block gets its row, and no row goes.
LEMMA SavedKeeps ==
  ASSUME rows \in [Block -> Statuses], NEW b \in Block, NEW isStale \in BOOLEAN
  PROVE  /\ Saved(b, isStale) \in [Block -> Statuses]
         /\ \A c \in Rowed \cup {b} : Saved(b, isStale)[c] # "none"
<1>1. CASE rows[b] = "none"
  BY <1>1 DEF Saved, Rowed, Statuses
<1>2. CASE rows[b] # "none"
  BY <1>2, CanonicalKeeps DEF Saved, Rowed
<1> QED
  BY <1>1, <1>2

\* Where there is a row one below a block, the block is not the first one.
LEMMA RowBelow ==
  ASSUME NEW b \in Block, NEW below \in RowAt(Height[b] - 1), below # None
  PROVE  b # Root /\ Parent[b] \in Block
<1>1. below \in Block /\ Height[below] = Height[b] - 1
  BY DEF RowAt, CanonicalAt
<1>2. Height[b] \in Nat /\ Height[Root] \in Nat /\ Height[below] \in Nat /\ Root \in Block
  BY <1>1, TreeAssumption
<1>3. b # Root
  <2> SUFFICES ASSUME b = Root PROVE FALSE
    OBVIOUS
  <2>1. CASE below = Root
    BY <1>1, <1>2, <2>1
  <2>2. CASE below # Root
    BY <1>1, <1>2, <2>2, TreeAssumption
  <2> QED
    BY <2>1, <2>2
<1> QED
  BY <1>3, TreeAssumption

\* A set of numbers has a least one.
LEMMA LeastNumber ==
  ASSUME NEW S \in SUBSET Nat, S # {}
  PROVE  \E x \in S : \A y \in S : x <= y
<1> DEFINE R == OpToRel(<, Nat)
<1>1. IsWellFoundedOn(R, Nat)
  BY NatLessThanWellFounded
<1>2. \A x, y \in Nat : y < x => <<y, x>> \in R
  BY DEF OpToRel
<1> HIDE DEF R
<1>3. PICK x \in S : \A y \in S : ~(<<y, x>> \in R)
  BY <1>1, WFMin
<1>4. ASSUME NEW y \in S PROVE x <= y
  <2>1. x \in Nat /\ y \in Nat
    OBVIOUS
  <2>2. ~(y < x)
    BY <1>2, <1>3, <2>1, Zenon
  <2> QED
    BY <2>1, <2>2
<1> QED
  BY <1>4

\* The cache is rebuilt from known ancestors of the fork, each one below the next, and the
\* blocks of the walk in their order.
LEMMA RebuiltIs ==
  ASSUME tail \in Block, blocks \in Seq(Rowed), fresh \in Seq(Rowed)
  PROVE  \E s \in Seq(Rowed) :
           /\ Rebuilt = Latest(s \o Reverse(fresh), CacheSize)
           /\ \A i \in 1..Len(s) : s[i] \in KnownBelow(Len(s) - i + 1)
<1> DEFINE room == IF Len(fresh) < CacheSize THEN CacheSize - Len(fresh) ELSE 0
           Enough(n) == /\ \A i \in 1..n : KnownBelow(i) # {}
                        /\ n < room => KnownBelow(n + 1) = {}
           older == CHOOSE n \in 0..room : Enough(n)
           below == [i \in 1..older |-> CHOOSE a \in KnownBelow(older - i + 1) : TRUE]
<1>1. room \in Nat
  BY CacheSizeTyped, LenProperties
<1>2. \E n \in 0..room : Enough(n)
  <2> DEFINE S == {n \in 0..room : n = room \/ KnownBelow(n + 1) = {}}
  <2> HIDE DEF room
  <2>1. S \in SUBSET Nat /\ room \in S
    BY <1>1
  <2>2. PICK n \in S : \A m \in S : n <= m
    <3> HIDE DEF S
    <3> QED
      BY <2>1, LeastNumber
  <2>3. ASSUME NEW i \in 1..n PROVE KnownBelow(i) # {}
    <3>1. i - 1 \in 0..room /\ i - 1 < n /\ (i - 1) + 1 = i
      BY <1>1, <2>2
    <3>2. i - 1 \notin S
      BY <2>2, <3>1
    <3> QED
      BY <1>1, <2>2, <3>1, <3>2
  <2>4. n \in 0..room /\ (n < room => KnownBelow(n + 1) = {})
    BY <1>1, <2>2
  <2> QED
    BY <2>3, <2>4
<1>3. older \in 0..room /\ Enough(older)
  <2> HIDE DEF room, Enough
  <2> QED
    BY <1>2
<1>4. \A i \in Nat : KnownBelow(i) \subseteq Rowed
  <2>1. \A i \in DOMAIN blocks : blocks[i] \in Rowed
    BY LenProperties, ElementOfSeq
  <2>2. Ancestors[tail] \subseteq Block
    BY DEF Ancestors
  <2>3. ToSet(blocks) \subseteq Rowed
    BY <2>1 DEF ToSet
  <2> SUFFICES ASSUME NEW i \in Nat, NEW a \in KnownBelow(i) PROVE a \in Rowed
    OBVIOUS
  <2>4. a \in Block /\ (a \in ToSet(blocks) \/ rows[a] # "none")
    BY <2>2 DEF KnownBelow
  <2> QED
    BY <2>3, <2>4 DEF Rowed
<1>5. /\ below \in Seq(Rowed) /\ Len(below) = older /\ older \in Nat
      /\ \A i \in 1..older : below[i] \in KnownBelow(older - i + 1)
  <2> HIDE DEF room, older
  <2>1. older \in Nat
    BY <1>1, <1>3
  <2>2. ASSUME NEW i \in 1..older
        PROVE  (CHOOSE a \in KnownBelow(older - i + 1) : TRUE)
                 \in KnownBelow(older - i + 1) \cap Rowed
    <3>1. older - i + 1 \in 1..older
      BY <2>1
    <3>2. KnownBelow(older - i + 1) # {} /\ KnownBelow(older - i + 1) \subseteq Rowed
      BY <1>3, <1>4, <2>1, <3>1
    <3> QED
      BY <3>2
  <2>3. below \in [1..older -> Rowed]
    BY <2>2
  <2>4. below \in Seq(Rowed)
    BY <2>1, <2>3, SeqDef
  <2>5. Len(below) = older
    BY <2>1, <2>4, LenProperties
  <2> QED
    BY <2>1, <2>2, <2>4, <2>5
<1>6. Rebuilt = Latest(below \o Reverse(fresh), CacheSize)
  BY DEF Rebuilt
<1> HIDE DEF below, older
<1> QED
  BY <1>5, <1>6

\* What the cache is rebuilt from has a row.
LEMMA RebuiltTyped ==
  ASSUME tail \in Block, blocks \in Seq(Rowed), fresh \in Seq(Rowed)
  PROVE  Rebuilt \in Seq(Rowed) /\ Len(Rebuilt) <= CacheSize
<1>1. PICK s \in Seq(Rowed) : Rebuilt = Latest(s \o Reverse(fresh), CacheSize)
  BY RebuiltIs
<1>2. s \o Reverse(fresh) \in Seq(Rowed)
  BY ReverseTyped, ConcatProperties
<1> QED
  BY <1>1, <1>2, CacheSizeTyped, LatestTyped

\* The blocks below a block are blocks.
LEMMA AncestorsTyped ==
  ASSUME NEW b \in Block
  PROVE  Ancestors[b] \subseteq Block
BY DEF Ancestors

\* Rows are never deleted: what was stored before is stored after.
LEMMA StoredStay ==
  ASSUME Rowed \subseteq Rowed'
  PROVE  \A s \in Seq(Rowed) : s \in Seq(Rowed')
BY SeqMonotonic

-----------------------------------------------------------------------------
(* The tree of blocks                                                      *)

\* A block but for the root is one higher than its parent, and higher than the root.
LEMMA Heights ==
  ASSUME NEW b \in Block
  PROVE  /\ Height[b] \in Nat /\ Height[Root] \in Nat /\ Height[Root] <= Height[b]
         /\ b # Root => Parent[b] \in Block /\ Height[b] = Height[Parent[b]] + 1
<1>1. Height[b] \in Nat /\ Height[Root] \in Nat
  BY TreeAssumption
<1>2. CASE b = Root
  BY <1>1, <1>2
<1>3. CASE b # Root
  BY <1>1, <1>3, TreeAssumption
<1> QED
  BY <1>1, <1>2, <1>3

\* The ancestors of a block are it and, with each, its parent, and no more than that.
LEMMA AncestorsAreLeast ==
  ASSUME NEW b \in Block
  PROVE  /\ Ancestors[b] \subseteq Block /\ b \in Ancestors[b]
         /\ \A a \in Ancestors[b] : a # Root => Parent[a] \in Ancestors[b]
         /\ \A bs \in SUBSET Block :
              b \in bs /\ (\A a \in bs : a # Root => Parent[a] \in bs)
                => Ancestors[b] \subseteq bs
<1>1. Ancestors[b] = {a \in Block : \A bs \in SUBSET Block : b \in bs /\ Downward(bs) => a \in bs}
  BY DEF Ancestors
<1>2. ASSUME NEW a \in Ancestors[b], a # Root PROVE Parent[a] \in Ancestors[b]
  <2>1. a \in Block /\ Parent[a] \in Block /\ Parent[a] # None
    BY <1>1, <1>2, TreeAssumption
  <2>2. ASSUME NEW bs \in SUBSET Block, b \in bs, Downward(bs) PROVE Parent[a] \in bs
    BY <1>1, <2>1, <2>2 DEF Downward
  <2> QED
    BY <1>1, <2>1, <2>2
<1>3. ASSUME NEW bs \in SUBSET Block, b \in bs, \A a \in bs : a # Root => Parent[a] \in bs
      PROVE  Ancestors[b] \subseteq bs
  <2>1. Downward(bs)
    BY <1>3, TreeAssumption DEF Downward
  <2> QED
    BY <1>1, <1>3, <2>1
<1> QED
  BY <1>1, <1>2, <1>3

\* Lower, or the same block.
UpTo(a, b) == Height[a] < Height[b] \/ a = b

\* An ancestor is lower, or the block itself.
LEMMA AncestorsAreLower ==
  ASSUME NEW b \in Block, NEW a \in Ancestors[b]
  PROVE  a \in Block /\ UpTo(a, b)
<1> DEFINE bs == {c \in Block : UpTo(c, b)}
<1>1. b \in bs
  BY DEF UpTo
<1>2. ASSUME NEW c \in bs, c # Root PROVE Parent[c] \in bs
  BY <1>2, Heights DEF UpTo
<1>3. Ancestors[b] \subseteq bs
  <2> HIDE DEF bs
  <2>1. bs \in SUBSET Block
    BY DEF bs
  <2> QED
    BY <1>1, <1>2, <2>1, AncestorsAreLeast
<1> QED
  BY <1>3

\* The ancestors of an ancestor are ancestors.
LEMMA AncestorsNest ==
  ASSUME NEW b \in Block, NEW a \in Ancestors[b]
  PROVE  Ancestors[a] \subseteq Ancestors[b]
BY AncestorsAreLeast

\* The ancestors of a block are it and those of its parent.
LEMMA AncestorsOfParent ==
  ASSUME NEW b \in Block, b # Root
  PROVE  Ancestors[b] = Ancestors[Parent[b]] \cup {b}
<1>1. Parent[b] \in Block
  BY TreeAssumption
<1>2. Ancestors[Parent[b]] \subseteq Ancestors[b]
  BY AncestorsAreLeast, AncestorsNest
<1>3. Ancestors[b] \subseteq Ancestors[Parent[b]] \cup {b}
  <2> DEFINE bs == Ancestors[Parent[b]] \cup {b}
  <2>1. bs \in SUBSET Block /\ b \in bs
    BY <1>1, AncestorsAreLeast
  <2>2. \A a \in bs : a # Root => Parent[a] \in bs
    BY <1>1, AncestorsAreLeast
  <2> HIDE DEF bs
  <2>3. Ancestors[b] \subseteq bs
    BY <2>1, <2>2, AncestorsAreLeast
  <2> QED
    BY <2>3 DEF bs
<1> QED
  BY <1>2, <1>3, AncestorsAreLeast

\* There is one ancestor at most of each height.
LEMMA OneAtHeight ==
  ASSUME NEW b \in Block, NEW a \in Ancestors[b], NEW c \in Ancestors[b], Height[a] = Height[c]
  PROVE  a = c
<1>0. a \in Block /\ c \in Block
  BY AncestorsAreLeast
<1> DEFINE bs == {x \in Ancestors[b] : a \in Ancestors[x] \/ x \in Ancestors[a]}
<1>1. b \in bs /\ bs \in SUBSET Block
  BY AncestorsAreLeast
<1>2. ASSUME NEW x \in bs, x # Root PROVE Parent[x] \in bs
  <2>1. x \in Block /\ x \in Ancestors[b] /\ Parent[x] \in Ancestors[b]
    BY <1>2, AncestorsAreLeast
  <2>2. CASE x \in Ancestors[a]
    BY <1>0, <1>2, <2>1, <2>2, AncestorsAreLeast
  <2>3. CASE x \notin Ancestors[a]
    <3>1. a \in Ancestors[x] /\ a # x
      BY <1>0, <2>3, AncestorsAreLeast
    <3>2. a \in Ancestors[Parent[x]]
      BY <1>2, <2>1, <3>1, AncestorsOfParent
    <3> QED
      BY <2>1, <3>2
  <2> QED
    BY <2>2, <2>3
<1>3. c \in bs
  <2> HIDE DEF bs
  <2> QED
    BY <1>1, <1>2, AncestorsAreLeast
<1>4. UpTo(a, c) \/ UpTo(c, a)
  BY <1>0, <1>3, AncestorsAreLower
<1> QED
  BY <1>0, <1>4, Heights DEF UpTo

\* There is one of each height from the root up.
LEMMA AncestorAtHeight ==
  ASSUME NEW b \in Block, NEW h \in Nat, Height[Root] <= h, h <= Height[b]
  PROVE  \E a \in Ancestors[b] : Height[a] = h
<1> SUFFICES ASSUME \A a \in Ancestors[b] : Height[a] # h PROVE FALSE
  OBVIOUS
<1> DEFINE bs == {a \in Ancestors[b] : Height[a] > h}
           hs == {Height[a] : a \in bs}
<1>1. b \in bs /\ bs \in SUBSET Block
  BY AncestorsAreLeast, Heights
<1>2. ASSUME NEW a \in bs PROVE a # Root /\ Parent[a] \in bs /\ Height[Parent[a]] < Height[a]
  <2>1. a \in Block /\ a \in Ancestors[b] /\ Height[a] > h /\ a # Root
    BY <1>1, <1>2, Heights
  <2>2. Parent[a] \in Ancestors[b] /\ Height[Parent[a]] # h
    BY <2>1, AncestorsAreLeast
  <2>3. Height[Parent[a]] \in Nat /\ Height[a] = Height[Parent[a]] + 1
    BY <2>1, Heights
  <2> QED
    BY <2>1, <2>2, <2>3
<1>3. hs \in SUBSET Nat /\ hs # {}
  BY <1>1, Heights
<1>4. PICK l \in hs : \A g \in hs : l <= g
  <2> HIDE DEF hs
  <2> QED
    BY <1>3, LeastNumber
<1>5. PICK a \in bs : Height[a] = l
  BY <1>4
<1>6. Height[Parent[a]] \in hs /\ Height[Parent[a]] < l /\ a \in Block
  BY <1>1, <1>2, <1>5
<1>7. Height[Parent[a]] \in Nat /\ l \in Nat
  BY <1>3, <1>6, <1>4
<1> QED
  BY <1>4, <1>6, <1>7

-----------------------------------------------------------------------------
(* The ends of sequences                                                   *)

\* Cutting keeps the last element.
LEMMA LatestLast ==
  ASSUME NEW S, NEW s \in Seq(S), s # <<>>, NEW n \in Nat, n >= 1
  PROVE  Latest(s, n) # <<>> /\ Last(Latest(s, n)) = Last(s)
<1>1. Len(s) \in Nat /\ Len(s) >= 1
  BY EmptySeq, LenProperties
<1>2. PICK m \in 1..Len(s) : Latest(s, n) = SubSeq(s, m, Len(s))
  <2>1. CASE Len(s) > n
    <3>1. Len(s) - n + 1 \in 1..Len(s)
      BY <1>1, <2>1
    <3> QED
      BY <2>1, <3>1 DEF Latest
  <2>2. CASE ~(Len(s) > n)
    BY <1>1, <2>2 DEF Latest
  <2> QED
    BY <2>1, <2>2
<1>3. \A i \in m..Len(s) : s[i] \in S
  BY <1>1, ElementOfSeq
<1>4. /\ Len(SubSeq(s, m, Len(s))) = Len(s) - m + 1
      /\ \A i \in 1..(Len(s) - m + 1) : SubSeq(s, m, Len(s))[i] = s[m + i - 1]
  BY <1>1, <1>3, SubSeqProperties
<1>5. Len(s) - m + 1 \in 1..(Len(s) - m + 1) /\ m + (Len(s) - m + 1) - 1 = Len(s)
  BY <1>1
<1>6. SubSeq(s, m, Len(s))[Len(SubSeq(s, m, Len(s)))] = s[Len(s)]
  BY <1>4, <1>5
<1>7. SubSeq(s, m, Len(s)) # <<>>
  <2>1. Len(<<>>) = 0
    BY EmptySeq
  <2>2. Len(SubSeq(s, m, Len(s))) # 0
    BY <1>1, <1>4
  <2> QED
    BY <2>1, <2>2, Zenon
<1> QED
  BY <1>2, <1>6, <1>7 DEF Last

\* So does appending, which adds one.
LEMMA AppendLast ==
  ASSUME NEW S, NEW s \in Seq(S), NEW e \in S
  PROVE  Append(s, e) \in Seq(S) /\ Append(s, e) # <<>> /\ Last(Append(s, e)) = e
BY AppendProperties, EmptySeq, LenProperties DEF Last

-----------------------------------------------------------------------------
(* The steps                                                               *)

\* The node and its mempool leave what is stored alone.
LEMMA NodeStep ==
  ASSUME IInv, Node
  PROVE  IInv'
<1>1. Rowed' = Rowed
  BY DEF Node, Mine, Arrive, NodeRestarts, PoolChange, Rowed
<1>2. ASSUME NEW b \in Block, Mine(b)
      PROVE  IInv'
  <2>1. CheckIsRecord' /\ StoredFirst'
    BY <1>1, <1>2 DEF IInv, CheckIsRecord, StoredFirst, Mine, local, cache
  <2>2. faults' \in Nat /\ faults' + check.runs <= MaxRare
    BY <1>2 DEF IInv, TypeOK, Mine, Unnoticed
  <2>3. tip' \in mined' /\ mined' \subseteq Block
    BY <1>2 DEF IInv, TypeOK, Mine
  <2>4. nodePool' \subseteq Tx
    <3>1. UNION {Confirms[c] : c \in Ancestors[tip]} \subseteq Tx
      BY AncestorsTyped, TreeAssumption DEF IInv, TypeOK
    <3> QED
      BY <1>2, <3>1 DEF IInv, TypeOK, Mine
  <2> QED
    BY <1>2, <2>1, <2>2, <2>3, <2>4 DEF IInv, TypeOK, Mine, local, cache
<1>3. ASSUME NEW newPool \in SUBSET Tx, PoolChange(newPool)
      PROVE  IInv'
  <2>1. CheckIsRecord' /\ StoredFirst'
    BY <1>1, <1>3 DEF IInv, CheckIsRecord, StoredFirst, PoolChange, local, cache
  <2>2. arrivals' \in 0..MaxArrivals
    BY <1>3, BoundsAssumption DEF IInv, TypeOK, PoolChange
  <2> QED
    BY <1>3, <2>1, <2>2 DEF IInv, TypeOK, PoolChange, local, cache
<1>4. ASSUME NEW t \in Tx, Arrive(t)
      PROVE  IInv'
  BY <1>3, <1>4 DEF Arrive, IInv, TypeOK
<1>5. CASE NodeRestarts
  BY <1>3, <1>5 DEF NodeRestarts
<1> QED
  BY <1>2, <1>4, <1>5 DEF Node

\* The steps of the main loop that leave the cache, the walk and the table alone.
LoopStep ==
  ReadMempool \/ ReadTip \/ NextBlock \/ GetBlock \/ Walk \/ BlocksDone

\* The round of the main loop keeps the invariant.
LEMMA LoopStepKeeps ==
  ASSUME IInv, LoopStep
  PROVE  IInv'
<1>1. Rowed' = Rowed /\ UNCHANGED <<node, faults, inSync, protection, check, blocks, rows, fresh>>
  BY DEF LoopStep, ReadMempool, ReadTip, NextBlock, GetBlock, Walk, BlocksDone, Elsewhere,
         Rowed, local
<1>2. CASE ReadMempool
  BY <1>1, <1>2 DEF IInv, TypeOK, CheckIsRecord, StoredFirst, ReadMempool, Elsewhere, Steps, node
<1>3. CASE ReadTip
  <2>1. Height[tip] \in Nat /\ InitialBlocks \in Nat
    BY TreeAssumption, BoundsAssumption DEF IInv, TypeOK
  <2>2. blocks # <<>> => Height[Last(blocks)] \in Nat
    BY LastTyped, TreeAssumption DEF IInv, TypeOK
  <2>3. target' \in Nat /\ fast' \in BOOLEAN /\ current' \in Int
    BY <1>3, <2>1, <2>2 DEF ReadTip
  <2> QED
    BY <1>1, <1>3, <2>3
    DEF IInv, TypeOK, CheckIsRecord, StoredFirst, ReadTip, Elsewhere, Steps, node
<1>4. CASE NextBlock
  <2>1. block' \in Block
    BY <1>4, AncestorsTyped DEF IInv, TypeOK, NextBlock, AtHeight
  <2>2. current' \in Int
    BY <1>4 DEF IInv, TypeOK, NextBlock
  <2> QED
    BY <1>1, <1>4, <2>1, <2>2
    DEF IInv, TypeOK, CheckIsRecord, StoredFirst, NextBlock, Elsewhere, Steps, node
<1>5. CASE GetBlock
  BY <1>1, <1>5
  DEF IInv, TypeOK, CheckIsRecord, StoredFirst, GetBlock, OnMainChain, Elsewhere, Steps, node
<1>6. CASE Walk
  <2>1. pc' = "index" => tail # Root
    BY <1>6, RowBelow DEF IInv, StoredFirst, Walk
  <2> QED
    BY <1>1, <1>6, <2>1
    DEF IInv, TypeOK, CheckIsRecord, StoredFirst, Walk, Elsewhere, Steps, local, node
<1>7. CASE BlocksDone
  BY <1>1, <1>7 DEF IInv, TypeOK, CheckIsRecord, StoredFirst, BlocksDone, Elsewhere, Steps, node
<1> QED
  BY <1>2, <1>3, <1>4, <1>5, <1>6, <1>7 DEF LoopStep

\* The steps of $handleReorgs() that change the table or the walk.
WalkStep == FindFork \/ IndexParent \/ SetCanonical \/ Rebuild

\* The walk along the chain stores every block before it is cached.
LEMMA WalkStepKeeps ==
  ASSUME IInv, WalkStep
  PROVE  IInv'
<1>1. UNCHANGED <<node, faults, inSync, protection, check>>
  BY DEF WalkStep, FindFork, IndexParent, SetCanonical, Rebuild, Elsewhere
<1>2. CASE FindFork
  <2>1. Rowed' = Rowed
    BY <1>2 DEF FindFork, Rowed
  <2>2. fresh' \in Seq(Rowed) /\ fresh' \in Seq(Block)
    <3>1. fresh' = fresh \/ fresh' = <<>>
      BY <1>2 DEF FindFork
    <3> QED
      BY <3>1, EmptySeq DEF IInv, TypeOK, StoredFirst
  <2>3. pc' = "index" => block # Root /\ tail' = block
    BY <1>2, RowBelow DEF IInv, StoredFirst, FindFork
  <2> QED
    BY <1>1, <1>2, <2>1, <2>2, <2>3
    DEF IInv, TypeOK, CheckIsRecord, StoredFirst, FindFork, Steps, node
<1>3. CASE IndexParent
  <2>1. Parent[tail] \in Block
    BY <1>3, TreeAssumption DEF IInv, StoredFirst, IndexParent
  <2>2. /\ rows' \in [Block -> Statuses]
        /\ \A c \in Rowed \cup {Parent[tail]} : rows'[c] # "none"
    <3>1. CASE rows[Parent[tail]] = "none"
      BY <1>3, <2>1, <3>1, SavedKeeps DEF IInv, TypeOK, IndexParent, OnMainChain
    <3>2. CASE rows[Parent[tail]] # "none"
      BY <1>3, <2>1, <3>2 DEF IInv, TypeOK, IndexParent, Rowed
    <3> QED
      BY <3>1, <3>2
  <2>3. Rowed \subseteq Rowed' /\ Parent[tail] \in Rowed'
    BY <2>1, <2>2 DEF Rowed
  <2>4. blocks' \in Seq(Rowed') /\ fresh' \in Seq(Rowed')
    BY <1>3, <2>3, StoredStay DEF IInv, StoredFirst, IndexParent
  <2> QED
    BY <1>1, <1>3, <2>2, <2>3, <2>4
    DEF IInv, TypeOK, CheckIsRecord, StoredFirst, IndexParent, Steps, node
<1>4. CASE SetCanonical
  <2>1. /\ rows' \in [Block -> Statuses]
        /\ \A c \in Rowed : rows'[c] # "none"
    BY <1>4, CanonicalKeeps DEF IInv, TypeOK, SetCanonical
  <2>2. Rowed \subseteq Rowed'
    BY <2>1 DEF Rowed
  <2>3. tail' \in Rowed' /\ tail' \in Block
    BY <1>4, <2>2 DEF IInv, StoredFirst, SetCanonical, Rowed
  <2>4. blocks' \in Seq(Rowed') /\ fresh \in Seq(Rowed')
    BY <1>4, <2>2, StoredStay DEF IInv, StoredFirst, SetCanonical
  <2>5. fresh' \in Seq(Rowed') /\ fresh' \in Seq(Block)
    BY <1>4, <2>3, <2>4 DEF IInv, TypeOK, SetCanonical
  <2> QED
    BY <1>1, <1>4, <2>1, <2>3, <2>4, <2>5
    DEF IInv, TypeOK, CheckIsRecord, StoredFirst, SetCanonical, Steps, node
<1>5. CASE Rebuild
  <2>1. Rowed' = Rowed
    BY <1>5 DEF Rebuild, Rowed
  <2>2. blocks' \in Seq(Rowed) /\ Len(blocks') <= CacheSize
    BY <1>5, RebuiltTyped DEF IInv, StoredFirst, Rebuild
  <2>3. blocks' \in Seq(Block)
    BY <2>2, SeqMonotonic DEF Rowed
  <2> QED
    BY <1>1, <1>5, <2>1, <2>2, <2>3
    DEF IInv, TypeOK, CheckIsRecord, StoredFirst, Rebuild, Steps, node
<1> QED
  BY <1>2, <1>3, <1>4, <1>5 DEF WalkStep

\* A block is saved before it joins the cache.
LEMMA SaveStepKeeps ==
  ASSUME IInv, SaveBlock \/ PushBlock
  PROVE  IInv'
<1>1. UNCHANGED <<node, faults, inSync, protection, check>>
  BY DEF SaveBlock, PushBlock, Elsewhere
<1>2. CASE SaveBlock
  <2>1. /\ rows' \in [Block -> Statuses]
        /\ \A c \in Rowed \cup {block} : rows'[c] # "none"
    BY <1>2, SavedKeeps DEF IInv, TypeOK, StoredFirst, SaveBlock
  <2>2. Rowed \subseteq Rowed' /\ block \in Rowed'
    BY <1>2, <2>1 DEF IInv, StoredFirst, SaveBlock, Rowed
  <2>3. blocks' \in Seq(Rowed') /\ fresh' \in Seq(Rowed')
    BY <1>2, <2>2, StoredStay DEF IInv, StoredFirst, SaveBlock, local
  <2> QED
    BY <1>1, <1>2, <2>1, <2>2, <2>3
    DEF IInv, TypeOK, CheckIsRecord, StoredFirst, SaveBlock, Steps, local, node
<1>3. CASE PushBlock
  <2>1. Rowed' = Rowed
    BY <1>3 DEF PushBlock, Rowed
  <2>2. Append(blocks, block) \in Seq(Rowed)
    BY <1>3 DEF IInv, StoredFirst, PushBlock
  <2>3. blocks' \in Seq(Rowed) /\ Len(blocks') <= CacheSize
    BY <1>3, <2>2, LatestTyped, CacheSizeTyped DEF PushBlock
  <2>4. blocks' \in Seq(Block)
    BY <2>3, SeqMonotonic DEF Rowed
  <2> QED
    BY <1>1, <1>3, <2>1, <2>3, <2>4
    DEF IInv, TypeOK, CheckIsRecord, StoredFirst, PushBlock, Steps, node
<1> QED
  BY <1>2, <1>3

\* The mempool update touches neither blocks nor rows.
LEMMA MempoolStepKeeps ==
  ASSUME IInv, ProtectionEnds \/ \E found \in SUBSET Tx : UpdateMempool(found)
  PROVE  IInv'
<1>1. Rowed' = Rowed
  BY DEF ProtectionEnds, UpdateMempool, Rowed
<1>2. CASE ProtectionEnds
  BY <1>1, <1>2
  DEF IInv, TypeOK, CheckIsRecord, StoredFirst, ProtectionEnds, local, node
<1>3. ASSUME NEW found \in SUBSET Tx, UpdateMempool(found)
      PROVE  IInv'
  <2>1. faults' \in Nat /\ faults' + check.runs <= MaxRare
    BY <1>3, BoundsAssumption DEF IInv, TypeOK, UpdateMempool, Rare
  <2>2. pool' \subseteq Tx /\ protection' \in 0..2
    BY <1>3 DEF IInv, TypeOK, UpdateMempool
  <2>3. inSync' \in BOOLEAN
    BY <1>3, Zenon DEF IInv, TypeOK, UpdateMempool
  <2> QED
    BY <1>1, <1>3, <2>1, <2>2, <2>3
    DEF IInv, TypeOK, CheckIsRecord, StoredFirst, UpdateMempool, Steps, node
<1> QED
  BY <1>2, <1>3

\* Exceptions and restarts leave what is stored.
LEMMA TroubleKeeps ==
  ASSUME IInv, Trouble
  PROVE  IInv'
<1>1. Rowed' = Rowed
  BY DEF Trouble, Restart, Throw, Rowed
<1>2. ASSUME NEW found \in SUBSET Tx, Throw(found)
      PROVE  IInv'
  <2>1. faults' \in Nat /\ faults' + check.runs <= MaxRare
    BY <1>2, BoundsAssumption DEF IInv, TypeOK, Throw, Rare
  <2>2. inSync' \in BOOLEAN
    BY <1>2, Zenon DEF IInv, TypeOK, Throw
  <2>3. pool' \subseteq Tx
    BY <1>2 DEF IInv, TypeOK, Throw
  <2> QED
    BY <1>1, <1>2, <2>1, <2>2, <2>3, EmptySeq
    DEF IInv, TypeOK, CheckIsRecord, StoredFirst, Throw, NewLoop, Steps, node
<1>3. CASE Restart
  <2>1. faults' \in Nat /\ check'.runs = check.runs /\ faults' + check.runs <= MaxRare
    BY <1>3, BoundsAssumption DEF IInv, TypeOK, Restart, Rare, NoCheck
  <2>2. CheckIsRecord' /\ check'.at = "off"
    BY <1>3 DEF CheckIsRecord, Restart, NoCheck
  <2>3. blocks' \in Seq(Block) /\ Len(blocks') <= CacheSize
    BY <1>3, EmptySeq, CacheSizeTyped DEF Restart
  <2>4. StoredFirst'
    BY <1>3, EmptySeq DEF StoredFirst, Restart, NewLoop
  <2>5. /\ pc' \in Steps /\ raw' \subseteq Tx /\ target' \in Nat /\ current' \in Int
        /\ block' \in Block \cup {None} /\ tail' \in Block \cup {None}
        /\ fresh' \in Seq(Block) /\ pool' \subseteq Tx /\ protection' \in 0..2
    BY <1>3, EmptySeq DEF Restart, NewLoop, Steps
  <2>6. /\ fast' \in BOOLEAN /\ handled' \in BOOLEAN /\ stale' \in BOOLEAN
        /\ inSync' \in BOOLEAN
    BY <1>3 DEF Restart, NewLoop
  <2>7. TypeOK'
    BY <1>3, <2>1, <2>2, <2>3, <2>5, <2>6 DEF IInv, TypeOK, Restart, node
  <2> QED
    BY <2>2, <2>4, <2>7 DEF IInv
<1> QED
  BY <1>2, <1>3 DEF Trouble

\* What a step of $validateChain() leaves is as it was; rows are changed, not removed.
LEMMA CheckKeeps ==
  ASSUME IInv, Check
  PROVE  IInv'
<1>1. CheckLeaves
  BY DEF Check, StartCheck, ReadRows, CheckHeight, EndCheck
<1>2. rows' \in [Block -> Statuses] /\ \A c \in Rowed : rows'[c] # "none"
  <2>1. CASE CheckHeight
    BY <2>1, CanonicalKeeps DEF IInv, TypeOK, CheckHeight, Rowed
  <2>2. CASE ~CheckHeight
    BY <2>2 DEF IInv, TypeOK, Check, StartCheck, ReadRows, EndCheck, Rowed
  <2> QED
    BY <2>1, <2>2
<1>3. StoredFirst'
  <2>1. Rowed \subseteq Rowed'
    BY <1>2 DEF Rowed
  <2>2. blocks' \in Seq(Rowed') /\ fresh' \in Seq(Rowed')
    BY <1>1, <2>1, StoredStay DEF IInv, StoredFirst, CheckLeaves, local, cache
  <2> QED
    BY <1>1, <2>1, <2>2 DEF IInv, StoredFirst, CheckLeaves, local, cache
<1>4. /\ CheckIsRecord'
      /\ check'.at \in {"off", "read", "walk"} /\ check'.runs \in Nat
      /\ faults + check'.runs <= MaxRare
  <2>1. CASE StartCheck
    <3>1. CheckIsRecord'
      BY <2>1 DEF IInv, CheckIsRecord, StartCheck
    <3>2. check'.at = "read" /\ check'.runs = check.runs + 1
      BY <2>1 DEF IInv, CheckIsRecord, StartCheck
    <3>3. faults + check.runs < MaxRare /\ faults \in Nat /\ check.runs \in Nat /\ MaxRare \in Nat
      BY <2>1, BoundsAssumption DEF IInv, TypeOK, StartCheck, Rare
    <3> QED
      BY <3>1, <3>2, <3>3
  <2>2. CASE ReadRows
    BY <2>2 DEF IInv, TypeOK, CheckIsRecord, ReadRows, NoCheck
  <2>3. CASE CheckHeight
    <3>1. faults' = faults /\ check' = [check EXCEPT !.height = @ - 1, !.hash = check'.hash]
      BY <2>3 DEF IInv, CheckIsRecord, CheckHeight, CheckLeaves
    <3> QED
      BY <3>1 DEF IInv, TypeOK, CheckIsRecord
  <2>4. CASE EndCheck
    BY <2>4 DEF IInv, TypeOK, CheckIsRecord, EndCheck, NoCheck
  <2> QED
    BY <2>1, <2>2, <2>3, <2>4 DEF Check
<1> QED
  BY <1>1, <1>2, <1>3, <1>4 DEF IInv, TypeOK, CheckLeaves, node, local, cache

\* Every step keeps the invariant.
LEMMA NextKeeps ==
  ASSUME IInv, [Next]_vars
  PROVE  IInv'
<1>1. CASE Node
  BY <1>1, NodeStep
<1>2. CASE MainLoop
  BY <1>2, LoopStepKeeps, WalkStepKeeps, SaveStepKeeps, MempoolStepKeeps
  DEF MainLoop, LoopStep, WalkStep
<1>3. CASE ProtectionEnds
  BY <1>3, MempoolStepKeeps
<1>4. CASE Trouble
  BY <1>4, TroubleKeeps
<1>5. CASE Check
  BY <1>5, CheckKeeps
<1>6. CASE UNCHANGED vars
  BY <1>6 DEF IInv, TypeOK, CheckIsRecord, StoredFirst, Rowed, vars, node, local, cache
<1> QED
  BY <1>1, <1>2, <1>3, <1>4, <1>5, <1>6 DEF Next

\* It holds at the start.
LEMMA InitHolds == Init => IInv
<1> SUFFICES ASSUME Init PROVE IInv
  OBVIOUS
<1>1. TypeOK
  <2>1. check.at = "off" /\ check.runs = 0
    BY DEF Init, NoCheck
  <2>2. rows \in [Block -> Statuses]
    BY DEF Init, Statuses
  <2>3. arrivals \in 0..MaxArrivals /\ faults + check.runs <= MaxRare /\ faults \in Nat
    BY <2>1, BoundsAssumption DEF Init
  <2>4. blocks \in Seq(Block) /\ Len(blocks) <= CacheSize /\ fresh \in Seq(Block)
    BY EmptySeq, CacheSizeTyped DEF Init, NoLocals
  <2>5. /\ mined \subseteq Block /\ tip \in mined /\ nodePool \subseteq Tx /\ pc \in Steps
        /\ current \in Int /\ pool \subseteq Tx /\ protection \in 0..2
    BY TreeAssumption DEF Init, Steps
  <2>6. /\ raw \subseteq Tx /\ target \in Nat /\ block \in Block \cup {None}
        /\ tail \in Block \cup {None}
    BY DEF Init, NoLocals
  <2>7. fast \in BOOLEAN /\ handled \in BOOLEAN /\ stale \in BOOLEAN /\ inSync \in BOOLEAN
    BY DEF Init, NoLocals
  <2> QED
    BY <2>1, <2>2, <2>3, <2>4, <2>5, <2>6, <2>7 DEF TypeOK
<1>2. CheckIsRecord
  BY DEF Init, CheckIsRecord, NoCheck
<1>3. StoredFirst
  BY DEF Init, NoLocals, StoredFirst
<1> QED
  BY <1>1, <1>2, <1>3 DEF IInv

-----------------------------------------------------------------------------
(* The theorems                                                            *)

\* The inductive invariant: types, and that rows come before cached blocks.
THEOREM Stored == Spec => []IInv
<1> QED
  BY InitHolds, NextKeeps, PTL DEF Spec

\* Types, among them that the cache of blocks never exceeds its size.
THEOREM TypeCorrect == Spec => []TypeOK
<1>1. IInv => TypeOK
  BY DEF IInv
<1> QED
  BY <1>1, Stored, PTL

\* Whatever tree the node follows and whatever fails between two steps of
\* $updateBlocks(), a block in the cache has a row in the table.
THEOREM CachedAreStoredHolds == Spec => []CachedAreStored
<1>1. IInv => CachedAreStored
  BY LenProperties, ElementOfSeq DEF IInv, StoredFirst, CachedAreStored, Rowed
<1> QED
  BY <1>1, Stored, PTL

-----------------------------------------------------------------------------
(* A mempool that was read before its blocks                               *)

\* The transactions in a block and the blocks below it.
Confirmed(b) == UNION {Confirms[a] : a \in Ancestors[b]}

Walking == {"index", "canon", "walk", "rebuild"}
Handling == {"get", "fork", "save", "push"} \cup Walking

\* What the backend has handled is lower than the node's tip, or is the tip.
TopsFit ==
  /\ blocks # <<>> => UpTo(Last(blocks), tip)
  /\ pc \in Handling => UpTo(block, tip)
  /\ pc \in Walking => /\ Height[tail] <= Height[block]
                       /\ \A i \in DOMAIN fresh : Height[fresh[i]] < Height[block]
  /\ pc \in {"walk", "rebuild"} => fresh # <<>>

\* The list was read when the tip was t, and no block has been handled since.
ReadAt(t) ==
  /\ raw \cap Confirmed(t) = {} /\ UpTo(t, tip)
  /\ blocks # <<>> => UpTo(Last(blocks), t)
  /\ pc = "loop" => Height[t] <= target

\* The list that goes into the mempool was read at the last cached block: a round without
\* a block to handle shows that the tip has been that block all the time.
RawFits ==
  /\ nodePool \cap Confirmed(tip) = {}
  /\ pc \in {"idle", "tip", "mempool"} => ~handled
  /\ pc \in {"tip", "loop"} /\ ~handled => \E t \in Block : ReadAt(t)
  /\ pc = "loop" /\ ~handled /\ current >= target =>
       blocks # <<>> /\ target <= Height[Last(blocks)]
  /\ pc = "mempool" => blocks # <<>> /\ raw \cap Confirmed(Last(blocks)) = {}

ListFits == TopsFit /\ RawFits

\* The rebuilt cache ends in the first block of the walk.
LEMMA RebuiltLast ==
  ASSUME tail \in Block, blocks \in Seq(Rowed), fresh \in Seq(Rowed), fresh # <<>>
  PROVE  Rebuilt # <<>> /\ Last(Rebuilt) = fresh[1]
<1>1. PICK s \in Seq(Rowed) : Rebuilt = Latest(s \o Reverse(fresh), CacheSize)
  BY RebuiltIs
<1>2. Len(fresh) \in Nat /\ Len(fresh) >= 1
  BY EmptySeq, LenProperties
<1> DEFINE back == Reverse(fresh)
<1>3. /\ back \in Seq(Rowed) /\ Len(back) = Len(fresh)
      /\ back[Len(fresh)] = fresh[1]
  <2>1. back = [i \in 1..Len(fresh) |-> fresh[(Len(fresh) - i) + 1]]
    BY DEF Reverse
  <2>2. (Len(fresh) - Len(fresh)) + 1 = 1 /\ Len(fresh) \in 1..Len(fresh)
    BY <1>2
  <2>3. back \in Seq(Rowed)
    BY ReverseTyped
  <2>4. Len(back) = Len(fresh)
    BY <1>2, <2>1, <2>3, LenProperties
  <2> QED
    BY <2>1, <2>2, <2>3, <2>4
<1> HIDE DEF back
<1>4. /\ s \o back \in Seq(Rowed) /\ Len(s \o back) = Len(s) + Len(fresh) /\ Len(s) \in Nat
      /\ (s \o back)[Len(s) + Len(fresh)] = fresh[1]
  <2>1. /\ s \o back \in Seq(Rowed) /\ Len(s \o back) = Len(s) + Len(back) /\ Len(s) \in Nat
        /\ \A i \in 1..Len(s) + Len(back) :
             (s \o back)[i] = IF i <= Len(s) THEN s[i] ELSE back[i - Len(s)]
    <3>1. back \in Seq(Rowed)
      BY <1>3
    <3> QED
      BY <3>1, ConcatProperties, LenProperties
  <2>2. /\ Len(s) + Len(fresh) \in 1..Len(s) + Len(back) /\ ~(Len(s) + Len(fresh) <= Len(s))
        /\ (Len(s) + Len(fresh)) - Len(s) = Len(fresh)
    BY <1>2, <1>3, <2>1
  <2> QED
    BY <1>3, <2>1, <2>2
<1>5. s \o back # <<>> /\ Last(s \o back) = fresh[1]
  <2>1. Len(s \o back) # 0 /\ Len(<<>>) = 0
    BY <1>2, <1>4, EmptySeq
  <2>2. s \o back # <<>>
    BY <2>1, Zenon
  <2> QED
    BY <1>4, <2>2 DEF Last
<1>6. CacheSize \in Nat /\ CacheSize >= 1
  BY BoundsAssumption DEF CacheSize
<1> QED
  BY <1>1, <1>4, <1>5, <1>6, LatestLast DEF back

\* The node: a new tip is higher than all that is known.
LEMMA NodeFits ==
  ASSUME IInv, ListFits, Node
  PROVE  ListFits'
<1>1. /\ UNCHANGED <<pc, local, cache>>
      /\ raw' = raw /\ handled' = handled /\ block' = block /\ tail' = tail /\ fresh' = fresh
      /\ current' = current /\ target' = target /\ blocks' = blocks
  BY DEF Node, Mine, Arrive, NodeRestarts, PoolChange, local, cache
<1>2. tip \in Block /\ tip' \in Block /\ (tip' = tip \/ Height[tip] < Height[tip'])
  BY DEF IInv, TypeOK, Node, Mine, Arrive, NodeRestarts, PoolChange
<1>3. \A b \in Block : UpTo(b, tip) => UpTo(b, tip')
  BY <1>2, TreeAssumption DEF UpTo
<1>4. nodePool' \cap Confirmed(tip') = {}
  <2>1. nodePool \cap Confirmed(tip) = {}
    BY DEF ListFits, RawFits
  <2>2. ASSUME NEW b \in Block, Mine(b) PROVE nodePool' \cap Confirmed(tip') = {}
    BY <2>1, <2>2 DEF Mine, Confirmed
  <2>3. ASSUME NEW t \in Tx, Arrive(t) PROVE nodePool' \cap Confirmed(tip') = {}
    BY <2>1, <2>3 DEF Arrive, PoolChange, Confirmed
  <2>4. CASE NodeRestarts
    BY <2>4 DEF NodeRestarts, PoolChange
  <2> QED
    BY <2>2, <2>3, <2>4 DEF Node
<1>5. blocks # <<>> => Last(blocks) \in Block
  BY LastTyped DEF IInv, TypeOK
<1>6. TopsFit'
  <2>1. pc \in Handling => block \in Block
    BY DEF IInv, StoredFirst, Handling, Walking, Rowed
  <2> QED
    BY <1>1, <1>3, <1>5, <2>1 DEF ListFits, TopsFit
<1>7. \A t \in Block : ReadAt(t) => ReadAt(t)'
  BY <1>1, <1>3 DEF ReadAt
<1> QED
  BY <1>1, <1>4, <1>6, <1>7 DEF ListFits, RawFits

\* The list is read, the blocks are looked for, and only without any does the list go on.
LEMMA LoopFits ==
  ASSUME IInv, ListFits, ReadMempool \/ ReadTip \/ NextBlock \/ GetBlock \/ BlocksDone
  PROVE  ListFits'
<1>1. /\ UNCHANGED <<node, blocks>> /\ nodePool' = nodePool /\ tip' = tip
      /\ tip \in Block /\ Height[tip] \in Nat /\ InitialBlocks \in Nat /\ InitialBlocks > 0
  BY TreeAssumption, BoundsAssumption
  DEF IInv, TypeOK, ReadMempool, ReadTip, NextBlock, GetBlock, BlocksDone, Elsewhere, node
<1>2. blocks # <<>> => Last(blocks) \in Block /\ Height[Last(blocks)] \in Nat
  BY LastTyped, TreeAssumption DEF IInv, TypeOK
<1>3. nodePool \cap Confirmed(tip) = {} /\ (blocks # <<>> => UpTo(Last(blocks), tip))
  BY DEF ListFits, RawFits, TopsFit
<1>4. CASE ReadMempool
  <2>1. pc = "idle" /\ pc' = "tip" /\ raw' = nodePool /\ handled' = handled /\ ~handled
    BY <1>4 DEF ReadMempool, ListFits, RawFits
  <2>2. ReadAt(tip)'
    BY <1>1, <1>3, <2>1 DEF ReadAt, UpTo
  <2> QED
    BY <1>1, <1>3, <2>1, <2>2 DEF ListFits, TopsFit, RawFits, Handling, Walking
<1>5. CASE ReadTip
  <2>1. /\ pc = "tip" /\ pc' = "loop" /\ raw' = raw /\ handled' = handled /\ ~handled
        /\ target' = Height[tip]
    BY <1>5 DEF ReadTip, ListFits, RawFits
  <2>2. PICK t \in Block : ReadAt(t)
    BY <2>1 DEF ListFits, RawFits
  <2>3. ReadAt(t)'
    BY <1>1, <2>1, <2>2, TreeAssumption DEF ReadAt, UpTo
  <2>4. current' >= target' => blocks # <<>> /\ target' <= Height[Last(blocks)]
    BY <1>1, <1>2, <1>5 DEF ReadTip
  <2> QED
    BY <1>1, <1>3, <2>1, <2>3, <2>4 DEF ListFits, TopsFit, RawFits, Handling, Walking
<1>6. CASE NextBlock
  <2>1. pc' = "get" /\ block' \in Ancestors[tip]
    BY <1>6 DEF NextBlock, AtHeight
  <2>2. UpTo(block', tip)
    BY <1>1, <2>1, AncestorsAreLower
  <2> QED
    BY <1>1, <1>3, <2>1, <2>2 DEF ListFits, TopsFit, RawFits, Handling, Walking
<1>7. CASE GetBlock
  <2>1. pc = "get" /\ pc' \in {"fork", "save"} /\ block' = block
    BY <1>7 DEF GetBlock
  <2> QED
    BY <1>1, <1>3, <2>1 DEF ListFits, TopsFit, RawFits, Handling, Walking
<1>8. CASE BlocksDone
  <2>1. /\ pc = "loop" /\ current >= target /\ handled' = FALSE
        /\ pc' = IF handled THEN "idle" ELSE "mempool"
        /\ raw' = IF handled THEN {} ELSE raw
    BY <1>8 DEF BlocksDone
  <2>2. ASSUME ~handled PROVE blocks # <<>> /\ raw \cap Confirmed(Last(blocks)) = {}
    <3>1. blocks # <<>> /\ target <= Height[Last(blocks)] /\ target \in Nat
      BY <2>1, <2>2 DEF ListFits, RawFits, IInv, TypeOK
    <3>2. PICK t \in Block : ReadAt(t)
      BY <2>1, <2>2 DEF ListFits, RawFits
    <3>3. Height[t] <= target /\ UpTo(Last(blocks), t) /\ Height[t] \in Nat
      BY <2>1, <3>1, <3>2, TreeAssumption DEF ReadAt
    <3>4. Last(blocks) = t
      BY <1>2, <3>1, <3>3 DEF UpTo
    <3> QED
      BY <3>1, <3>2, <3>4 DEF ReadAt
  <2> QED
    BY <1>1, <1>3, <2>1, <2>2 DEF ListFits, TopsFit, RawFits, Handling, Walking
<1> QED
  BY <1>4, <1>5, <1>6, <1>7, <1>8

\* The walk of $handleReorgs() goes down from the block that is handled.
LEMMA WalkFits ==
  ASSUME IInv, ListFits, FindFork \/ IndexParent \/ SetCanonical \/ Walk \/ Rebuild
  PROVE  ListFits'
<1>1. /\ nodePool' = nodePool /\ tip' = tip /\ block' = block /\ block \in Block
      /\ Height[block] \in Nat /\ UpTo(block, tip) /\ nodePool \cap Confirmed(tip) = {}
      /\ blocks # <<>> => UpTo(Last(blocks), tip)
  BY TreeAssumption
  DEF IInv, StoredFirst, ListFits, TopsFit, RawFits, Handling, Walking, FindFork, IndexParent,
      SetCanonical, Walk, Rebuild, Elsewhere, node, local
<1>2. CASE FindFork
  <2>1. /\ pc = "fork" /\ blocks' = blocks
        /\ pc' = "save" \/ (pc' = "index" /\ tail' = block /\ fresh' = <<>>)
    BY <1>2 DEF FindFork
  <2>2. DOMAIN (<<>>) = {}
    OBVIOUS
  <2> QED
    BY <1>1, <2>1, <2>2 DEF ListFits, TopsFit, RawFits, Handling, Walking
<1>3. CASE IndexParent
  <2>1. pc = "index" /\ pc' = "canon" /\ blocks' = blocks /\ tail' = tail /\ fresh' = fresh
    BY <1>3 DEF IndexParent
  <2> QED
    BY <1>1, <2>1 DEF ListFits, TopsFit, RawFits, Handling, Walking
<1>4. CASE SetCanonical
  <2>1. /\ pc = "canon" /\ pc' = "walk" /\ blocks' = blocks
        /\ tail' = Parent[tail] /\ fresh' = Append(fresh, tail')
    BY <1>4 DEF SetCanonical
  <2>2. tail \in Block /\ tail # Root /\ fresh \in Seq(Block) /\ Height[tail] <= Height[block]
    BY <2>1 DEF IInv, TypeOK, StoredFirst, ListFits, TopsFit, Walking
  <2>3. tail' \in Block /\ Height[tail] = Height[tail'] + 1 /\ Height[tail'] \in Nat
    BY <2>1, <2>2, Heights
  <2>4. /\ fresh' # <<>> /\ Len(fresh) \in Nat /\ DOMAIN fresh' = 1..Len(fresh) + 1
        /\ DOMAIN fresh = 1..Len(fresh)
        /\ \A i \in 1..Len(fresh) : fresh'[i] = fresh[i]
        /\ fresh'[Len(fresh) + 1] = tail'
    BY <2>1, <2>2, <2>3, AppendProperties, LenProperties, AppendLast
  <2>5. ASSUME NEW i \in DOMAIN fresh' PROVE Height[fresh'[i]] < Height[block]
    <3>1. CASE i = Len(fresh) + 1
      BY <1>1, <2>2, <2>3, <2>4, <3>1
    <3>2. CASE i \in 1..Len(fresh)
      <4>1. \A k \in DOMAIN fresh : Height[fresh[k]] < Height[block]
        BY <2>1 DEF ListFits, TopsFit, Walking
      <4> QED
        BY <2>4, <3>2, <4>1
    <3> QED
      BY <2>4, <3>1, <3>2
  <2>6. Height[tail'] <= Height[block]
    BY <1>1, <2>2, <2>3, TreeAssumption
  <2> QED
    BY <1>1, <2>1, <2>4, <2>5, <2>6 DEF ListFits, TopsFit, RawFits, Handling, Walking
<1>5. CASE Walk
  <2>1. /\ pc = "walk" /\ pc' \in {"index", "rebuild"} /\ blocks' = blocks
        /\ tail' = tail /\ fresh' = fresh
    BY <1>5 DEF Walk, local
  <2> QED
    BY <1>1, <2>1 DEF ListFits, TopsFit, RawFits, Handling, Walking
<1>6. CASE Rebuild
  <2>1. pc = "rebuild" /\ pc' = "save" /\ blocks' = Rebuilt /\ fresh # <<>> /\ fresh \in Seq(Block)
    BY <1>6 DEF Rebuild, ListFits, TopsFit, IInv, TypeOK
  <2>2. blocks' # <<>> /\ Last(blocks') = fresh[1]
    BY <2>1, RebuiltLast DEF IInv, StoredFirst
  <2>3. 1 \in DOMAIN fresh /\ fresh[1] \in Block
    <3>1. Len(fresh) \in Nat /\ Len(fresh) >= 1
      BY <2>1, EmptySeq, LenProperties
    <3> QED
      BY <2>1, <3>1, LenProperties, ElementOfSeq
  <2>4. Height[fresh[1]] < Height[block]
    BY <2>1, <2>3 DEF ListFits, TopsFit, Walking
  <2>5. UpTo(Last(blocks'), tip)
    BY <1>1, <2>2, <2>3, <2>4, TreeAssumption DEF UpTo, IInv, TypeOK
  <2> QED
    BY <1>1, <2>1, <2>2, <2>5 DEF ListFits, TopsFit, RawFits, Handling, Walking
<1> QED
  BY <1>2, <1>3, <1>4, <1>5, <1>6

\* Saving and caching the block; the list is not used after that.
LEMMA PushFits ==
  ASSUME IInv, ListFits, SaveBlock \/ PushBlock
  PROVE  ListFits'
<1>1. /\ nodePool' = nodePool /\ tip' = tip /\ UpTo(block, tip) /\ block \in Block
      /\ nodePool \cap Confirmed(tip) = {}
  BY DEF IInv, StoredFirst, Rowed, ListFits, TopsFit, RawFits, Handling, SaveBlock, PushBlock,
         Elsewhere, node
<1>2. CASE SaveBlock
  <2>1. pc = "save" /\ pc' = "push" /\ blocks' = blocks /\ block' = block
    BY <1>2 DEF SaveBlock, local
  <2> QED
    BY <1>1, <2>1 DEF ListFits, TopsFit, RawFits, Handling, Walking
<1>3. CASE PushBlock
  <2>1. pc' = "loop" /\ handled' = TRUE /\ blocks' = Latest(Append(blocks, block), CacheSize)
    BY <1>3 DEF PushBlock
  <2>2. /\ Append(blocks, block) \in Seq(Block) /\ Append(blocks, block) # <<>>
        /\ Last(Append(blocks, block)) = block
    BY <1>1, AppendLast DEF IInv, TypeOK
  <2>3. CacheSize \in Nat /\ CacheSize >= 1
    BY BoundsAssumption DEF CacheSize
  <2>4. blocks' # <<>> /\ Last(blocks') = block
    BY <2>1, <2>2, <2>3, LatestLast
  <2> QED
    BY <1>1, <2>1, <2>4 DEF ListFits, TopsFit, RawFits, Handling, Walking
<1> QED
  BY <1>2, <1>3

\* What does not touch the blocks, or begins the round anew.
LEMMA OthersFit ==
  ASSUME IInv, ListFits,
         \/ ProtectionEnds \/ Trouble \/ Check \/ UNCHANGED vars
         \/ \E found \in SUBSET Tx : UpdateMempool(found)
  PROVE  ListFits'
<1>1. /\ nodePool' = nodePool /\ tip' = tip /\ nodePool \cap Confirmed(tip) = {}
      /\ blocks # <<>> => UpTo(Last(blocks), tip)
  BY DEF ListFits, TopsFit, RawFits, ProtectionEnds, Trouble, Restart, Throw, Check, StartCheck,
         ReadRows, CheckHeight, EndCheck, CheckLeaves, UpdateMempool, vars, node
<1>2. CASE Trouble \/ \E found \in SUBSET Tx : UpdateMempool(found)
  <2>1. pc' = "idle" /\ ~handled' /\ (blocks' = blocks \/ blocks' = <<>>)
    <3>1. CASE Restart
      BY <3>1 DEF Restart, NewLoop
    <3>2. ASSUME NEW found \in SUBSET Tx, Throw(found)
          PROVE  pc' = "idle" /\ ~handled' /\ blocks' = blocks
      BY <3>2 DEF Throw, NewLoop
    <3>3. ASSUME NEW found \in SUBSET Tx, UpdateMempool(found)
          PROVE  pc' = "idle" /\ ~handled' /\ blocks' = blocks
      <4>1. pc = "mempool" /\ pc' = "idle" /\ handled' = handled /\ blocks' = blocks
        BY <3>3 DEF UpdateMempool
      <4>2. ~handled
        BY <4>1 DEF ListFits, RawFits
      <4> QED
        BY <4>1, <4>2
    <3> QED
      BY <1>2, <3>1, <3>2, <3>3 DEF Trouble
  <2> QED
    BY <1>1, <2>1 DEF ListFits, TopsFit, RawFits, Handling, Walking
<1>3. CASE ProtectionEnds \/ Check \/ UNCHANGED vars
  <2>1. /\ pc' = pc /\ blocks' = blocks /\ current' = current /\ raw' = raw /\ target' = target
        /\ handled' = handled /\ block' = block /\ tail' = tail /\ fresh' = fresh
    BY <1>3 DEF ProtectionEnds, Check, StartCheck, ReadRows, CheckHeight, EndCheck, CheckLeaves,
                vars, local, cache
  <2>2. \A t \in Block : ReadAt(t) => ReadAt(t)'
    BY <1>1, <2>1 DEF ReadAt
  <2> QED
    BY <1>1, <2>1, <2>2 DEF ListFits, TopsFit, RawFits
<1> QED
  BY <1>2, <1>3

\* Every step keeps what is known of the list.
LEMMA NextFits ==
  ASSUME IInv, ListFits, [Next]_vars
  PROVE  ListFits'
<1>1. CASE Node
  BY <1>1, NodeFits
<1>2. CASE MainLoop
  BY <1>2, LoopFits, WalkFits, PushFits, OthersFit DEF MainLoop
<1>3. CASE ProtectionEnds \/ Trouble \/ Check \/ UNCHANGED vars
  BY <1>3, OthersFit
<1> QED
  BY <1>1, <1>2, <1>3 DEF Next

\* At the start there is no list and no block.
LEMMA InitFits == Init => ListFits
<1> SUFFICES ASSUME Init PROVE ListFits
  OBVIOUS
<1>1. Root \in Block
  BY TreeAssumption
<1>2. \A a \in Ancestors[Root] : a = Root
  <2>1. Downward({Root})
    BY TreeAssumption DEF Downward
  <2> QED
    BY <1>1, <2>1, AncestorsAreLeast DEF Ancestors
<1>3. nodePool \cap Confirmed(tip) = {}
  BY <1>2 DEF Init, Confirmed
<1> QED
  BY <1>3 DEF Init, NoLocals, ListFits, TopsFit, RawFits, Handling, Walking

\* The inductive invariant of the list: in a round that handles no block, it was read when
\* the tip was the last cached block.
THEOREM ListRead == Spec => [](IInv /\ ListFits)
<1>1. Init => IInv /\ ListFits
  BY InitHolds, InitFits
<1>2. IInv /\ ListFits /\ [Next]_vars => (IInv /\ ListFits)'
  BY NextKeeps, NextFits
<1> QED
  BY <1>1, <1>2, PTL DEF Spec

\* NothingConfirmedReturns: whatever the node, faults and reorganisations do in between,
\* $updateMempool() never brings back what a block of the chain handled last has confirmed.
THEOREM NothingConfirmedReturnsHolds == Spec => NothingConfirmedReturns
<1> DEFINE Safe == \A i \in DOMAIN blocks :
                     blocks[i] \in Ancestors[Last(blocks)] => Confirms[blocks[i]] \cap pool' = {}
           Back == pc = "mempool" /\ pc' = "idle" /\ faults' = faults /\ protection' = 0 => Safe
<1>1. IInv /\ ListFits /\ [Next]_vars => [Back]_vars
  <2> SUFFICES ASSUME IInv, ListFits, Next, pc = "mempool", pc' = "idle", faults' = faults,
                      protection' = 0
               PROVE  Safe
    OBVIOUS
  <2>1. PICK found \in SUBSET Tx : UpdateMempool(found)
    <3>1. ~Trouble
      <4>1. faults \in Nat
        BY DEF IInv, TypeOK
      <4>2. faults # faults + 1
        BY <4>1
      <4> QED
        BY <4>2, Zenon DEF Trouble, Restart, Throw
    <3>2. ~Node /\ ~ProtectionEnds /\ ~Check
      BY DEF Node, Mine, Arrive, NodeRestarts, PoolChange, ProtectionEnds, Check, StartCheck,
             ReadRows, CheckHeight, EndCheck, CheckLeaves
    <3>3. MainLoop => \E found \in SUBSET Tx : UpdateMempool(found)
      BY DEF MainLoop, ReadMempool, ReadTip, NextBlock, GetBlock, FindFork, IndexParent,
             SetCanonical, Walk, Rebuild, SaveBlock, PushBlock, BlocksDone
    <3> QED
      BY <3>1, <3>2, <3>3 DEF Next
  <2>2. pool' \subseteq raw
    BY <2>1 DEF UpdateMempool
  <2>3. raw \cap Confirmed(Last(blocks)) = {}
    BY DEF ListFits, RawFits
  <2> QED
    BY <2>2, <2>3 DEF Confirmed
<1>2. [][Next]_vars /\ [](IInv /\ ListFits) => [][Back]_vars
  BY <1>1, PTL
<1> QED
  BY <1>2, ListRead, PTL DEF Spec, NothingConfirmedReturns

-----------------------------------------------------------------------------
(* The cached blocks are linked                                            *)

\* Blocks of consecutive heights are parent and child.
Joined(a, b) == Height[b] = Height[a] + 1 => Parent[b] = a
Chained(s) == \A i \in 1..(Len(s) - 1) : Joined(s[i], s[i + 1])

\* A canonical row, and no other is as high.
IsTop(b) == rows[b] = "canonical" /\ \A c \in Rowed : Height[b] <= Height[c] => c = b

Settled == {"idle", "tip", "loop", "get", "fork", "mempool"}

\* The table ends in the block handled last: the next one to handle has no row yet.
TableTop ==
  /\ pc \in Settled => IF blocks = <<>> THEN Rowed = {} ELSE IsTop(Last(blocks))
  /\ pc \in Handling \ {"push"} => \A b \in Rowed : Height[b] < Height[block]
  /\ pc = "push" => IsTop(block)

\* The round goes up the chain, and what fast forwarding pushes is of one branch.
RoundFits ==
  /\ pc = "loop" /\ blocks # <<>> => Height[Last(blocks)] <= current
  /\ pc \in Handling => Height[block] = current
  /\ pc = "get" => block \in Ancestors[tip]
  /\ pc \in Handling \ {"get", "push"} => ~stale
  /\ pc \in Walking \cup {"fork"} => ~fast
  /\ pc = "loop" /\ blocks # <<>> /\ fast /\ current < target =>
       Height[Last(blocks)] < current \/ Last(blocks) \in Ancestors[tip]
  /\ pc \in Handling /\ fast /\ current < target => block \in Ancestors[tip]
  /\ pc \in Handling /\ fast /\ blocks # <<>> => Joined(Last(blocks), block)
  /\ pc \in {"save", "push"} /\ blocks # <<>> => Joined(Last(blocks), block)

\* The walk goes from the block to its parent, and on from there.
WalkFollows ==
  pc \in Walking =>
    /\ tail = IF fresh = <<>> THEN block ELSE Last(fresh)
    /\ \A i \in DOMAIN fresh : fresh[i] = Parent[IF i = 1 THEN block ELSE fresh[i - 1]]

\* $validateChain() looks at one height after the other, and what it read of the highest
\* row does not make it change that row.
CheckFits ==
  /\ check.at # "off" => check.hash \in Block /\ Height[check.hash] <= Height[tip]
  /\ check.at = "walk" =>
       /\ \A b \in Block : check.rows[b] # "none" => b \in Rowed
       /\ pc \in Settled /\ blocks # <<>> => check.rows[Last(blocks)] # "stale"
       /\ pc = "push" => check.rows[block] # "stale"
       /\ check.height = Height[check.hash]
       /\ check.low \in Nat /\ Height[Root] <= check.low

Linking == Chained(blocks) /\ TableTop /\ RoundFits /\ WalkFollows /\ CheckFits

\* An ancestor one below an ancestor is its parent.
LEMMA ParentBelow ==
  ASSUME NEW t \in Block, NEW a \in Ancestors[t], NEW b \in Ancestors[t],
         Height[b] = Height[a] + 1
  PROVE  b # Root /\ Parent[b] = a
<1>1. a \in Block /\ b \in Block
  BY AncestorsAreLeast
<1>2. b # Root /\ Height[a] \in Nat
  BY <1>1, Heights
<1>3. Parent[b] \in Ancestors[t] /\ Height[b] = Height[Parent[b]] + 1 /\ Height[Parent[b]] \in Nat
  BY <1>1, <1>2, AncestorsAreLeast, Heights
<1> QED
  BY <1>2, <1>3, OneAtHeight

\* Cutting leaves the elements from some place on.
LEMMA LatestIs ==
  ASSUME NEW S, NEW s \in Seq(S), NEW n \in Nat
  PROVE  \E m \in 0..Len(s) : /\ Len(Latest(s, n)) = Len(s) - m
                              /\ \A i \in 1..(Len(s) - m) : Latest(s, n)[i] = s[m + i]
<1>1. Len(s) \in Nat
  BY LenProperties
<1>2. PICK m \in 0..Len(s) : Latest(s, n) = SubSeq(s, m + 1, Len(s))
  <2>1. CASE Len(s) > n
    <3>1. Len(s) - n \in 0..Len(s) /\ (Len(s) - n) + 1 = Len(s) - n + 1
      BY <1>1, <2>1
    <3> QED
      BY <2>1, <3>1 DEF Latest
  <2>2. CASE ~(Len(s) > n)
    <3>1. 0 \in 0..Len(s) /\ 0 + 1 = 1
      BY <1>1
    <3> QED
      BY <2>2, <3>1 DEF Latest
  <2> QED
    BY <2>1, <2>2
<1>3. m + 1 \in Int /\ Len(s) \in Int /\ \A i \in (m + 1)..Len(s) : s[i] \in S
  BY <1>1, ElementOfSeq
<1>4. /\ Len(SubSeq(s, m + 1, Len(s)))
           = (IF m + 1 <= Len(s) THEN Len(s) - (m + 1) + 1 ELSE 0)
      /\ \A i \in 1..(Len(s) - (m + 1) + 1) : SubSeq(s, m + 1, Len(s))[i] = s[(m + 1) + i - 1]
  BY <1>3, SubSeqProperties
<1>5. /\ Len(s) - (m + 1) + 1 = Len(s) - m
      /\ (IF m + 1 <= Len(s) THEN Len(s) - (m + 1) + 1 ELSE 0) = Len(s) - m
      /\ \A i \in 1..(Len(s) - m) : (m + 1) + i - 1 = m + i
  BY <1>1
<1>6. \A i \in 1..(Len(s) - m) : Latest(s, n)[i] = s[m + i]
  BY <1>2, <1>4, <1>5
<1> QED
  BY <1>2, <1>4, <1>5, <1>6

\* Cutting keeps neighbours together.
LEMMA LatestChained ==
  ASSUME NEW s \in Seq(Block), NEW n \in Nat, Chained(s)
  PROVE  Chained(Latest(s, n))
<1> DEFINE t == Latest(s, n)
<1>1. PICK m \in 0..Len(s) : /\ Len(t) = Len(s) - m
                             /\ \A i \in 1..(Len(s) - m) : t[i] = s[m + i]
  BY LatestIs
<1> HIDE DEF t
<1>2. ASSUME NEW i \in 1..(Len(t) - 1) PROVE Joined(t[i], t[i + 1])
  <2>1. /\ i \in 1..(Len(s) - m) /\ i + 1 \in 1..(Len(s) - m)
        /\ m + i \in 1..(Len(s) - 1) /\ m + (i + 1) = (m + i) + 1
    BY <1>1, LenProperties
  <2>2. t[i] = s[m + i] /\ t[i + 1] = s[(m + i) + 1]
    BY <1>1, <2>1
  <2> QED
    BY <2>1, <2>2 DEF Chained
<1> QED
  BY <1>2 DEF Chained, t

\* One more that fits the last keeps a sequence chained.
LEMMA AppendChained ==
  ASSUME NEW s \in Seq(Block), NEW e \in Block, Chained(s), s # <<>> => Joined(Last(s), e)
  PROVE  Chained(Append(s, e))
<1>1. Len(s) \in Nat /\ Len(Append(s, e)) = Len(s) + 1
  BY LenProperties, AppendProperties
<1>2. \A i \in 1..Len(s) : Append(s, e)[i] = s[i]
  BY AppendProperties
<1>3. Append(s, e)[Len(s) + 1] = e
  BY AppendProperties
<1>4. ASSUME NEW i \in 1..(Len(s) + 1 - 1) PROVE Joined(Append(s, e)[i], Append(s, e)[i + 1])
  <2>1. CASE i = Len(s)
    <3>1. s # <<>> /\ Append(s, e)[i] = Last(s) /\ Append(s, e)[i + 1] = e
      BY <1>1, <1>2, <1>3, <2>1, EmptySeq DEF Last
    <3> QED
      BY <3>1
  <2>2. CASE i # Len(s)
    <3>1. i \in 1..(Len(s) - 1) /\ i \in 1..Len(s) /\ i + 1 \in 1..Len(s)
      BY <1>1, <2>2
    <3> QED
      BY <1>2, <3>1 DEF Chained
  <2> QED
    BY <2>1, <2>2
<1> QED
  BY <1>1, <1>4 DEF Chained

\* Each element is the parent of the next.
Rising(s) ==
  \A i \in 1..(Len(s) - 1) : Parent[s[i + 1]] = s[i] /\ Height[s[i + 1]] = Height[s[i]] + 1

\* The cache is rebuilt from a rising sequence.
LEMMA RebuiltRises ==
  ASSUME tail \in Block, block \in Block, blocks \in Seq(Rowed), fresh \in Seq(Rowed),
         fresh # <<>>, WalkFollows, pc \in Walking
  PROVE  \E s \in Seq(Rowed) :
           /\ Rebuilt = Latest(s \o Reverse(fresh), CacheSize)
           /\ \A i \in 1..Len(s) : s[i] \in KnownBelow(Len(s) - i + 1)
           /\ s \o Reverse(fresh) \in Seq(Block) /\ Rising(s \o Reverse(fresh))
<1>1. PICK s \in Seq(Rowed) : /\ Rebuilt = Latest(s \o Reverse(fresh), CacheSize)
                              /\ \A i \in 1..Len(s) : s[i] \in KnownBelow(Len(s) - i + 1)
  BY RebuiltIs
<1> DEFINE n == Len(fresh)
           m == Len(s)
           back == Reverse(fresh)
           u == s \o back
<1>2. n \in Nat /\ n >= 1 /\ m \in Nat
  BY EmptySeq, LenProperties
<1>3. /\ back \in Seq(Rowed) /\ Len(back) = n
      /\ \A i \in 1..n : back[i] = fresh[n - i + 1]
  <2>1. back = [i \in 1..n |-> fresh[(n - i) + 1]]
    BY DEF Reverse
  <2>2. back \in Seq(Rowed)
    BY ReverseTyped
  <2>3. Len(back) = n
    BY <1>2, <2>1, <2>2, LenProperties
  <2> QED
    BY <1>2, <2>1, <2>2, <2>3
<1> HIDE DEF back
<1>4. /\ u \in Seq(Rowed) /\ Len(u) = m + n
      /\ \A i \in 1..m : u[i] = s[i]
      /\ \A i \in 1..n : u[m + i] = fresh[n - i + 1]
  <2>1. /\ u \in Seq(Rowed) /\ Len(u) = m + Len(back)
        /\ \A i \in 1..m + Len(back) : u[i] = IF i <= m THEN s[i] ELSE back[i - m]
    <3>1. back \in Seq(Rowed)
      BY <1>3
    <3> QED
      BY <3>1, ConcatProperties
  <2>2. \A i \in 1..m : i \in 1..m + Len(back) /\ i <= m
    BY <1>2, <1>3
  <2>3. \A i \in 1..n : m + i \in 1..m + Len(back) /\ ~(m + i <= m) /\ (m + i) - m = i
    BY <1>2, <1>3
  <2>4. \A i \in 1..n : u[m + i] = back[i]
    BY <2>1, <2>3
  <2> QED
    BY <1>3, <2>1, <2>2, <2>4
<1> HIDE DEF u
<1>5. u \in Seq(Block)
  BY <1>4, SeqMonotonic DEF Rowed
<1>6. \A i \in 1..n : fresh[i] \in Block
  BY <1>2, ElementOfSeq DEF Rowed
<1>7. ASSUME NEW i \in 1..(m + n - 1)
      PROVE  Parent[u[i + 1]] = u[i] /\ Height[u[i + 1]] = Height[u[i]] + 1
  <2>1. CASE i < m
    <3>1. i \in 1..m /\ i + 1 \in 1..m /\ m - i + 1 \in Int /\ m - i + 1 = (m - (i + 1) + 1) + 1
      BY <1>2, <2>1
    <3>2. s[i] \in KnownBelow(m - i + 1) /\ s[i + 1] \in KnownBelow(m - (i + 1) + 1)
      BY <1>1, <3>1
    <3>3. /\ s[i] \in Ancestors[tail] /\ Height[s[i]] = Height[tail] - (m - i + 1)
          /\ s[i + 1] \in Ancestors[tail]
          /\ Height[s[i + 1]] = Height[tail] - (m - (i + 1) + 1)
      BY <3>2 DEF KnownBelow
    <3>4. Height[tail] \in Nat
      BY TreeAssumption
    <3> DEFINE k == m - i
    <3>5. Height[s[i + 1]] = Height[s[i]] + 1
      <4>1. k \in Int /\ m - i + 1 = k + 1 /\ m - (i + 1) + 1 = k
        BY <1>2, <3>1
      <4> HIDE DEF k
      <4>2. Height[s[i]] = Height[tail] - (k + 1) /\ Height[s[i + 1]] = Height[tail] - k
        BY <3>3, <4>1
      <4> QED
        BY <3>4, <4>1, <4>2
    <3> QED
      BY <1>4, <3>1, <3>3, <3>5, ParentBelow
  <2>2. CASE i = m
    <3>1. m \in 1..m /\ m - m + 1 = 1 /\ 1 \in 1..n /\ n - 1 + 1 = n
      BY <1>2, <2>2
    <3>2. u[m] = s[m] /\ s[m] \in KnownBelow(1) /\ u[m + 1] = fresh[n]
      BY <1>1, <1>4, <3>1
    <3>3. fresh[n] = tail
      BY DEF WalkFollows, Last
    <3>4. s[m] \in Ancestors[tail] /\ Height[s[m]] = Height[tail] - 1 /\ tail \in Ancestors[tail]
      BY <3>2, AncestorsAreLeast DEF KnownBelow
    <3>5. Height[tail] \in Nat
      BY TreeAssumption
    <3>6. Height[tail] = Height[s[m]] + 1
      BY <3>4, <3>5
    <3> QED
      BY <2>2, <3>2, <3>3, <3>4, <3>6, ParentBelow
  <2>3. CASE i > m
    <3>1. /\ i - m \in 1..n /\ (i - m) + 1 \in 1..n /\ m + (i - m) = i /\ m + ((i - m) + 1) = i + 1
          /\ n - (i - m) + 1 \in 1..n /\ n - (i - m) + 1 # 1 /\ n - (i - m) \in 1..n
          /\ (n - (i - m) + 1) - 1 = n - (i - m) /\ n - ((i - m) + 1) + 1 = n - (i - m)
      BY <1>2, <2>3
    <3>2. u[i] = fresh[n - (i - m) + 1] /\ u[i + 1] = fresh[n - (i - m)]
      BY <1>4, <3>1
    <3>3. DOMAIN fresh = 1..n
      BY LenProperties
    <3>4. fresh[n - (i - m) + 1] = Parent[fresh[n - (i - m)]]
      BY <3>1, <3>3 DEF WalkFollows
    <3>5. u[i] \in Block /\ u[i + 1] \in Block /\ u[i] = Parent[u[i + 1]]
      BY <1>6, <3>1, <3>2, <3>4
    <3>6. u[i + 1] # Root
      BY <3>5, TreeAssumption
    <3> QED
      BY <3>5, <3>6, Heights
  <2> QED
    BY <1>2, <2>1, <2>2, <2>3
<1>8. Rising(u)
  BY <1>4, <1>7 DEF Rising
<1> QED
  BY <1>1, <1>5, <1>8 DEF u, back

\* What rises is chained.
LEMMA RisingChained == ASSUME NEW s, Rising(s) PROVE Chained(s)
BY DEF Rising, Chained, Joined

\* The node: a new tip either keeps what the round relies on or counts as a fault.
LEMMA NodeLinks ==
  ASSUME IInv, Linking, Node, faults' = faults
  PROVE  Linking'
<1>1. /\ pc' = pc /\ block' = block /\ fast' = fast /\ stale' = stale /\ target' = target
      /\ tail' = tail /\ fresh' = fresh /\ current' = current /\ blocks' = blocks
      /\ rows' = rows /\ check' = check
  BY DEF Node, Mine, Arrive, NodeRestarts, PoolChange, local, cache
<1>2. /\ tip \in Block /\ tip' \in Block /\ Height[tip] <= Height[tip']
      /\ pc = "get" /\ block \in Ancestors[tip] => block \in Ancestors[tip']
      /\ fast /\ current < target => Ancestors[tip] \subseteq Ancestors[tip']
  <2>0. tip \in Block /\ Height[tip] \in Nat /\ faults \in Nat
    BY TreeAssumption DEF IInv, TypeOK
  <2>1. ASSUME NEW b \in Block, Mine(b), Height[b] > Height[tip]
        PROVE  /\ tip' = b
               /\ pc = "get" => block \in Ancestors[b]
               /\ fast /\ current < target => tip \in Ancestors[b]
    <3>1. tip' = b
      BY <2>1 DEF Mine
    <3>2. ~Unnoticed(b)
      <4>1. faults # faults + 1
        BY <2>0
      <4> QED
        BY <2>1, <4>1, Zenon DEF Mine
    <3> QED
      BY <2>1, <3>1, <3>2 DEF Unnoticed
  <2>2. CASE tip' = tip
    BY <2>0, <2>2
  <2>3. CASE tip' # tip
    <3>1. PICK b \in Block : Mine(b) /\ Height[b] > Height[tip]
      BY <2>3 DEF Node, Mine, Arrive, NodeRestarts, PoolChange
    <3> QED
      BY <2>0, <2>1, <3>1, AncestorsNest, TreeAssumption
  <2> QED
    BY <2>2, <2>3
<1>3. Chained(blocks)' /\ TableTop' /\ WalkFollows'
  BY <1>1 DEF Linking, Chained, TableTop, WalkFollows, IsTop, Rowed
<1>4. RoundFits'
  BY <1>1, <1>2 DEF Linking, RoundFits, Handling
<1>5. CheckFits'
  <2>1. check.at # "off" => Height[check.hash] <= Height[tip']
    BY <1>2, TreeAssumption DEF Linking, CheckFits
  <2> QED
    BY <1>1, <2>1 DEF Linking, CheckFits, Rowed
<1> QED
  BY <1>3, <1>4, <1>5 DEF Linking

\* No row is higher than the last cached block.
LEMMA TopIsHighest ==
  ASSUME rows \in [Block -> Statuses], NEW t \in Block, IsTop(t), NEW b \in Rowed
  PROVE  Height[b] <= Height[t] /\ (Height[b] = Height[t] => b = t)
BY TreeAssumption DEF IsTop, Rowed

\* The round goes up, one block above all rows after the other.
LEMMA RoundLinks ==
  ASSUME IInv, Linking, ReadMempool \/ ReadTip \/ NextBlock \/ GetBlock \/ BlocksDone
  PROVE  Linking'
<1>1. /\ tip' = tip /\ blocks' = blocks /\ rows' = rows /\ check' = check
      /\ tail' = tail /\ fresh' = fresh
  BY DEF ReadMempool, ReadTip, NextBlock, GetBlock, BlocksDone, Elsewhere, node
<1>2. pc' \notin Walking /\ pc \in Settled /\ pc' # "push"
  BY DEF ReadMempool, ReadTip, NextBlock, GetBlock, BlocksDone, Walking, Settled
<1>3. Chained(blocks)' /\ WalkFollows'
  BY <1>1, <1>2 DEF Linking, Chained, WalkFollows
<1>4. CheckFits'
  BY <1>1, <1>2 DEF Linking, CheckFits, Rowed
<1>5. blocks # <<>> => Last(blocks) \in Block /\ Height[Last(blocks)] \in Nat
  BY LastTyped, TreeAssumption DEF IInv, TypeOK
<1>6. IF blocks = <<>> THEN Rowed = {} ELSE IsTop(Last(blocks))
  BY <1>2 DEF Linking, TableTop
<1>7. /\ (IF blocks = <<>> THEN Rowed = {} ELSE IsTop(Last(blocks)))'
      /\ Rowed' = Rowed
  BY <1>1, <1>6 DEF IsTop, Rowed
<1>8. CASE ReadMempool
  <2>1. pc' = "tip"
    BY <1>8 DEF ReadMempool
  <2>2. TableTop' /\ RoundFits'
    BY <1>7, <2>1 DEF TableTop, RoundFits, Handling, Walking
  <2> QED
    BY <1>3, <1>4, <2>2 DEF Linking
<1>9. CASE ReadTip
  <2>1. pc' = "loop"
    BY <1>9 DEF ReadTip
  <2>2. blocks # <<>> => /\ Height[Last(blocks)] <= current'
                         /\ fast' => Height[Last(blocks)] < current'
    <3>1. Height[tip] \in Nat /\ InitialBlocks \in Nat
      BY TreeAssumption, BoundsAssumption DEF IInv, TypeOK
    <3> SUFFICES ASSUME blocks # <<>>
                 PROVE  /\ Height[Last(blocks)] <= current'
                        /\ fast' => Height[Last(blocks)] < current'
      OBVIOUS
    <3>2. /\ fast' = (Height[tip] - Height[Last(blocks)] > 2 * InitialBlocks)
          /\ current' = IF fast' THEN Height[tip] - InitialBlocks ELSE Height[Last(blocks)]
      BY <1>9 DEF ReadTip
    <3>3. CASE fast'
      <4>1. \A l, t, n \in Nat : t - l > 2 * n => l < t - n
        OBVIOUS
      <4>2. Height[Last(blocks)] < Height[tip] - InitialBlocks
        BY <1>5, <3>1, <3>2, <3>3, <4>1
      <4> QED
        BY <1>5, <3>1, <3>2, <3>3, <4>2
    <3>4. CASE ~fast'
      BY <1>5, <3>2, <3>4
    <3> QED
      BY <3>3, <3>4
  <2>3. TableTop' /\ RoundFits'
    BY <1>1, <1>7, <2>1, <2>2 DEF TableTop, RoundFits, Handling, Walking
  <2> QED
    BY <1>3, <1>4, <2>3 DEF Linking
<1>10. CASE NextBlock
  <2>1. /\ pc = "loop" /\ pc' = "get" /\ fast' = fast /\ target' = target /\ current < target
        /\ current \in Int /\ target \in Nat /\ current' \in Int
        /\ current < current' /\ block' \in Ancestors[tip] /\ Height[block'] = current'
    BY <1>10 DEF NextBlock, AtHeight, IInv, TypeOK
  <2>2. block' \in Block /\ tip \in Block
    BY <2>1, AncestorsAreLeast DEF IInv, TypeOK
  <2>3. blocks # <<>> => Height[Last(blocks)] <= current
    BY <2>1 DEF Linking, RoundFits
  <2>4. ASSUME NEW b \in Rowed PROVE Height[b] < Height[block']
    <3>1. blocks # <<>> /\ IsTop(Last(blocks))
      BY <1>6
    <3>2. Height[b] <= Height[Last(blocks)] /\ Height[b] \in Nat
      BY <1>5, <3>1, TopIsHighest, TreeAssumption DEF IInv, TypeOK, Rowed
    <3> QED
      BY <1>5, <2>1, <2>3, <3>1, <3>2
  <2>5. ASSUME fast, blocks # <<>> PROVE Joined(Last(blocks), block')
    <3> SUFFICES ASSUME Height[block'] = Height[Last(blocks)] + 1
                 PROVE  Parent[block'] = Last(blocks)
      BY DEF Joined
    <3>1. ~(Height[Last(blocks)] < current)
      BY <1>5, <2>1, <2>3, <2>5
    <3>2. Last(blocks) \in Ancestors[tip]
      BY <2>1, <2>5, <3>1 DEF Linking, RoundFits
    <3> QED
      BY <2>1, <2>2, <3>2, ParentBelow
  <2>6. TableTop'
    BY <1>1, <1>7, <2>1, <2>4 DEF TableTop, Settled, Handling
  <2>7. RoundFits'
    BY <1>1, <2>1, <2>5 DEF RoundFits, Handling, Walking
  <2> QED
    BY <1>3, <1>4, <2>6, <2>7 DEF Linking
<1>11. CASE GetBlock
  <2>1. /\ pc = "get" /\ pc' = IF fast THEN "save" ELSE "fork"
        /\ fast' = fast /\ target' = target /\ current' = current /\ block' = block
        /\ stale' = ~OnMainChain(block)
    BY <1>11 DEF GetBlock
  <2>2. ~stale'
    BY <2>1 DEF OnMainChain, Linking, RoundFits
  <2>3. \A b \in Rowed : Height[b] < Height[block]
    BY <2>1 DEF Linking, TableTop, Handling
  <2>4. TableTop'
    BY <1>7, <2>1, <2>3 DEF TableTop, Settled, Handling
  <2>5. RoundFits'
    BY <1>1, <2>1, <2>2 DEF Linking, RoundFits, Handling, Walking
  <2> QED
    BY <1>3, <1>4, <2>4, <2>5 DEF Linking
<1>12. CASE BlocksDone
  <2>1. pc' \in {"idle", "mempool"}
    BY <1>12 DEF BlocksDone
  <2>2. TableTop' /\ RoundFits'
    BY <1>7, <2>1 DEF TableTop, RoundFits, Handling, Walking
  <2> QED
    BY <1>3, <1>4, <2>2 DEF Linking
<1> QED
  BY <1>8, <1>9, <1>10, <1>11, <1>12

\* What is stored during the walk is lower than the block that is handled.
LEMMA WalkLinks ==
  ASSUME IInv, ListFits, Linking,
         FindFork \/ IndexParent \/ SetCanonical \/ Walk \/ Rebuild
  PROVE  Linking'
<1>1. /\ tip' = tip /\ block' = block /\ fast' = fast /\ stale' = stale /\ target' = target
      /\ current' = current /\ check' = check
  BY DEF FindFork, IndexParent, SetCanonical, Walk, Rebuild, Elsewhere, node, local
<1>2. /\ pc \in Walking \cup {"fork"} /\ pc' \in Walking \cup {"save"}
      /\ block \in Block /\ Height[block] \in Nat
  BY TreeAssumption
  DEF IInv, StoredFirst, FindFork, IndexParent, SetCanonical, Walk, Rebuild, Walking
<1>3. ~fast /\ ~stale /\ Height[block] = current
  BY <1>2 DEF Linking, RoundFits, Handling, Walking
<1>4. \A b \in Rowed : Height[b] < Height[block]
  BY <1>2 DEF Linking, TableTop, Handling, Walking
<1>5. ASSUME Rowed \subseteq Rowed', \A b \in Rowed' : Height[b] < Height[block],
             pc' = "save" /\ blocks' # <<>> => Joined(Last(blocks'), block)
      PROVE  TableTop' /\ RoundFits' /\ CheckFits'
  <2>1. TableTop'
    BY <1>1, <1>2, <1>5 DEF TableTop, Settled, Handling, Walking
  <2>2. RoundFits'
    BY <1>1, <1>2, <1>3, <1>5 DEF RoundFits, Handling, Walking
  <2>3. CheckFits'
    BY <1>1, <1>2, <1>5 DEF Linking, CheckFits, Settled, Walking
  <2> QED
    BY <2>1, <2>2, <2>3
<1>6. CASE FindFork
  <2>1. PICK below \in RowAt(Height[block] - 1) :
          IF below \in {None, Parent[block]}
          THEN pc' = "save" /\ UNCHANGED <<tail, fresh>>
          ELSE pc' = "index" /\ tail' = block /\ fresh' = <<>>
    BY <1>6 DEF FindFork
  <2>2. pc = "fork" /\ blocks' = blocks /\ rows' = rows /\ Rowed' = Rowed
    BY <1>6 DEF FindFork, Rowed
  <2>3. ASSUME pc' = "save", blocks # <<>> PROVE Joined(Last(blocks), block)
    <3> SUFFICES ASSUME Height[block] = Height[Last(blocks)] + 1
                 PROVE  Parent[block] = Last(blocks)
      BY DEF Joined
    <3>1. /\ IsTop(Last(blocks)) /\ Last(blocks) \in Block /\ Height[Last(blocks)] \in Nat
          /\ rows \in [Block -> Statuses]
      BY <2>2, <2>3, LastTyped, TreeAssumption DEF Linking, TableTop, Settled, IInv, TypeOK
    <3>2. Height[block] - 1 = Height[Last(blocks)]
      BY <1>2, <3>1
    <3>3. CanonicalAt(Height[block] - 1) = {Last(blocks)}
      <4>1. Last(blocks) \in CanonicalAt(Height[block] - 1)
        BY <3>1, <3>2 DEF CanonicalAt, IsTop
      <4>2. CanonicalAt(Height[block] - 1) \subseteq Rowed
        BY DEF CanonicalAt, Rowed
      <4>3. \A c \in CanonicalAt(Height[block] - 1) : Height[c] = Height[Last(blocks)]
        BY <3>2 DEF CanonicalAt
      <4> QED
        BY <3>1, <4>1, <4>2, <4>3, TopIsHighest
    <3>4. below = Last(blocks)
      BY <3>3 DEF RowAt
    <3>5. below \in {None, Parent[block]}
      BY <2>1, <2>3
    <3> QED
      BY <3>1, <3>4, <3>5, TreeAssumption
  <2>4. WalkFollows'
    <3>1. DOMAIN (<<>>) = {}
      OBVIOUS
    <3> QED
      BY <1>1, <2>1, <3>1 DEF WalkFollows, Walking
  <2>5. Chained(blocks)'
    BY <2>2 DEF Linking, Chained
  <2> QED
    BY <1>4, <1>5, <2>2, <2>3, <2>4, <2>5 DEF Linking
<1>7. CASE IndexParent
  <2>1. /\ pc = "index" /\ pc' = "canon" /\ blocks' = blocks /\ tail' = tail /\ fresh' = fresh
        /\ rows' = IF rows[Parent[tail]] = "none"
                   THEN Saved(Parent[tail], ~OnMainChain(Parent[tail])) ELSE rows
    BY <1>7 DEF IndexParent
  <2>2. tail \in Block /\ tail # Root /\ Height[tail] <= Height[block]
    BY <2>1 DEF IInv, StoredFirst, ListFits, TopsFit, Walking
  <2>3. Parent[tail] \in Block /\ Height[Parent[tail]] < Height[block]
    BY <1>2, <2>2, Heights
  <2>4. rows \in [Block -> Statuses]
    BY DEF IInv, TypeOK
  <2>5. \A c \in Block \ {Parent[tail]} : rows'[c] = rows[c]
    BY <2>1, <2>4 DEF Saved
  <2>6. Rowed \subseteq Rowed'
    BY <2>1, <2>4, <2>5 DEF Rowed
  <2>7. \A b \in Rowed' : Height[b] < Height[block]
    BY <1>4, <2>3, <2>5 DEF Rowed
  <2>8. WalkFollows' /\ Chained(blocks)'
    BY <1>1, <2>1 DEF Linking, WalkFollows, Walking, Chained
  <2> QED
    BY <1>5, <2>1, <2>6, <2>7, <2>8 DEF Linking
<1>8. CASE SetCanonical
  <2>1. /\ pc = "canon" /\ pc' = "walk" /\ blocks' = blocks
        /\ tail' = Parent[tail] /\ fresh' = Append(fresh, tail')
        /\ rows' = Canonical(Parent[tail], Height[Parent[tail]])
    BY <1>8 DEF SetCanonical
  <2>2. rows \in [Block -> Statuses] /\ fresh \in Seq(Block) /\ tail' \in Block
    BY <2>1, TreeAssumption DEF IInv, TypeOK, StoredFirst
  <2>3. Rowed' = Rowed
    BY <2>1, <2>2 DEF Canonical, Rowed, Statuses
  <2>4. /\ fresh' # <<>> /\ Last(fresh') = tail'
        /\ Len(fresh) \in Nat /\ DOMAIN fresh' = 1..Len(fresh) + 1 /\ DOMAIN fresh = 1..Len(fresh)
        /\ \A i \in 1..Len(fresh) : fresh'[i] = fresh[i]
        /\ fresh'[Len(fresh) + 1] = tail'
    BY <2>1, <2>2, AppendProperties, LenProperties, AppendLast
  <2>5. /\ tail = IF fresh = <<>> THEN block ELSE Last(fresh)
        /\ \A i \in DOMAIN fresh : fresh[i] = Parent[IF i = 1 THEN block ELSE fresh[i - 1]]
    BY <2>1 DEF Linking, WalkFollows, Walking
  <2>6. ASSUME NEW i \in DOMAIN fresh'
        PROVE  fresh'[i] = Parent[IF i = 1 THEN block ELSE fresh'[i - 1]]
    <3>1. CASE i \in 1..Len(fresh)
      <4>1. i # 1 => i - 1 \in 1..Len(fresh)
        BY <2>4, <3>1
      <4> QED
        BY <2>4, <2>5, <3>1, <4>1
    <3>2. CASE i = Len(fresh) + 1 /\ fresh = <<>>
      <4>1. Len(fresh) = 0
        BY <3>2, EmptySeq
      <4>2. i = 1
        BY <3>2, <4>1
      <4> QED
        BY <2>1, <2>4, <2>5, <3>2, <4>2
    <3>3. CASE i = Len(fresh) + 1 /\ fresh # <<>>
      <4>1. i # 1 /\ i - 1 = Len(fresh) /\ Len(fresh) \in 1..Len(fresh)
        BY <2>2, <2>4, <3>3, EmptySeq
      <4> QED
        BY <2>1, <2>4, <2>5, <3>3, <4>1 DEF Last
    <3> QED
      BY <2>4, <3>1, <3>2, <3>3
  <2>7. WalkFollows'
    BY <1>1, <2>4, <2>6 DEF WalkFollows
  <2>8. Chained(blocks)'
    BY <2>1 DEF Linking, Chained
  <2> QED
    BY <1>4, <1>5, <2>1, <2>3, <2>7, <2>8 DEF Linking
<1>9. CASE Walk
  <2>1. /\ pc = "walk" /\ pc' \in {"index", "rebuild"} /\ blocks' = blocks /\ rows' = rows
        /\ tail' = tail /\ fresh' = fresh /\ Rowed' = Rowed
    BY <1>9 DEF Walk, local, Rowed
  <2>2. WalkFollows' /\ Chained(blocks)'
    BY <1>1, <2>1 DEF Linking, WalkFollows, Walking, Chained
  <2> QED
    BY <1>4, <1>5, <2>1, <2>2 DEF Linking
<1>10. CASE Rebuild
  <2>1. pc = "rebuild" /\ pc' = "save" /\ blocks' = Rebuilt /\ Rowed' = Rowed
    BY <1>10 DEF Rebuild, Rowed
  <2>2. /\ tail \in Block /\ blocks \in Seq(Rowed) /\ fresh \in Seq(Rowed) /\ fresh # <<>>
        /\ pc \in Walking /\ WalkFollows
    BY <2>1 DEF IInv, StoredFirst, ListFits, TopsFit, Linking, Walking
  <2>3. Chained(blocks')
    <3>1. PICK s \in Seq(Rowed) :
                 /\ Rebuilt = Latest(s \o Reverse(fresh), CacheSize)
                 /\ s \o Reverse(fresh) \in Seq(Block) /\ Rising(s \o Reverse(fresh))
      BY <1>2, <2>2, RebuiltRises
    <3>2. Chained(s \o Reverse(fresh))
      BY <3>1, RisingChained
    <3> QED
      BY <2>1, <3>1, <3>2, LatestChained, CacheSizeTyped
  <2>4. blocks' # <<>> /\ Last(blocks') = Parent[block]
    <3>1. Last(blocks') = fresh[1]
      BY <2>1, <2>2, RebuiltLast
    <3>2. 1 \in DOMAIN fresh
      BY <2>2, EmptySeq, LenProperties
    <3> QED
      BY <2>1, <2>2, <3>1, <3>2, RebuiltLast DEF WalkFollows
  <2>5. Joined(Last(blocks'), block)
    BY <2>4 DEF Joined
  <2>6. WalkFollows'
    BY <2>1 DEF WalkFollows, Walking
  <2> QED
    BY <1>4, <1>5, <2>1, <2>3, <2>5, <2>6 DEF Linking, Chained
<1> QED
  BY <1>6, <1>7, <1>8, <1>9, <1>10

\* The block becomes the top of the table, then of the cache.
LEMMA PushLinks ==
  ASSUME IInv, Linking, SaveBlock \/ PushBlock
  PROVE  Linking'
<1>1. tip' = tip /\ fast' = fast /\ target' = target /\ current' = current /\ check' = check
  BY DEF SaveBlock, PushBlock, Elsewhere, node, local
<1>2. block \in Block /\ rows \in [Block -> Statuses] /\ blocks \in Seq(Block)
  BY DEF IInv, TypeOK, StoredFirst, Rowed, SaveBlock, PushBlock
<1>3. CASE SaveBlock
  <2>1. /\ pc = "save" /\ pc' = "push" /\ block' = block /\ blocks' = blocks /\ stale' = stale
        /\ rows' = Saved(block, stale)
    BY <1>3 DEF SaveBlock, local
  <2>2. ~stale /\ \A b \in Rowed : Height[b] < Height[block]
    BY <2>1 DEF Linking, RoundFits, TableTop, Handling
  <2>3. rows[block] = "none"
    BY <1>2, <2>2, TreeAssumption DEF Rowed
  <2>4. rows' = [rows EXCEPT ![block] = "canonical"]
    BY <2>1, <2>2, <2>3 DEF Saved
  <2>5. rows'[block] = "canonical" /\ \A c \in Block \ {block} : rows'[c] = rows[c]
    BY <1>2, <2>4
  <2>6. Rowed' = Rowed \cup {block}
    BY <1>2, <2>5 DEF Rowed
  <2>7. IsTop(block)'
    <3>1. Height[block] \in Nat /\ \A c \in Rowed : Height[c] \in Nat
      BY <1>2, TreeAssumption DEF Rowed
    <3>2. \A c \in Rowed' : Height[block] <= Height[c] => c = block
      BY <2>2, <2>6, <3>1
    <3> QED
      BY <2>1, <2>5, <3>2 DEF IsTop
  <2>8. TableTop'
    BY <2>1, <2>7 DEF TableTop, Settled
  <2>9. RoundFits'
    BY <1>1, <2>1 DEF Linking, RoundFits, Handling, Walking
  <2>10. CheckFits'
    <3>1. check.at = "walk" => check.rows[block] = "none"
      BY <1>2, <2>3 DEF Linking, CheckFits, Rowed
    <3> QED
      BY <1>1, <2>1, <2>6, <3>1 DEF Linking, CheckFits, Settled
  <2> QED
    BY <2>1, <2>8, <2>9, <2>10 DEF Linking, WalkFollows, Walking, Chained
<1>4. CASE PushBlock
  <2>1. /\ pc = "push" /\ pc' = "loop" /\ rows' = rows /\ Rowed' = Rowed
        /\ blocks' = Latest(Append(blocks, block), CacheSize)
    BY <1>4 DEF PushBlock, Rowed
  <2>2. blocks # <<>> => Joined(Last(blocks), block)
    BY <2>1 DEF Linking, RoundFits
  <2>3. /\ Append(blocks, block) \in Seq(Block) /\ Append(blocks, block) # <<>>
        /\ Last(Append(blocks, block)) = block
    BY <1>2, AppendLast
  <2>4. CacheSize \in Nat /\ CacheSize >= 1
    BY BoundsAssumption DEF CacheSize
  <2>5. blocks' # <<>> /\ Last(blocks') = block
    BY <2>1, <2>3, <2>4, LatestLast
  <2>6. Chained(blocks')
    <3>1. Chained(Append(blocks, block))
      BY <1>2, <2>2, AppendChained DEF Linking
    <3> QED
      BY <2>1, <2>3, <2>4, <3>1, LatestChained
  <2>7. IsTop(block) /\ Height[block] = current /\ Height[block] \in Nat
    BY <1>2, <2>1, TreeAssumption DEF Linking, TableTop, RoundFits, Handling
  <2>8. TableTop'
    BY <2>1, <2>5, <2>7 DEF TableTop, Settled, Handling, Walking, IsTop
  <2>9. RoundFits'
    <3>1. fast /\ current < target => block \in Ancestors[tip]
      BY <2>1 DEF Linking, RoundFits, Handling
    <3> QED
      BY <1>1, <2>1, <2>5, <2>7, <3>1 DEF RoundFits, Handling, Walking
  <2>10. CheckFits'
    BY <1>1, <2>1, <2>5 DEF Linking, CheckFits, Settled
  <2> QED
    BY <2>1, <2>6, <2>8, <2>9, <2>10 DEF Linking, WalkFollows, Walking, Chained
<1> QED
  BY <1>3, <1>4

\* A row that is changed is one of the height looked at.
LEMMA CanonicalElsewhere ==
  ASSUME rows \in [Block -> Statuses], NEW h, NEW b \in Block \cup {None},
         b \in Block => Height[b] = h, NEW c \in Block, Height[c] # h
  PROVE  Canonical(b, h)[c] = rows[c]
BY TreeAssumption DEF Canonical

\* $validateChain() leaves the highest row as it is.
LEMMA CheckKeepsTop ==
  ASSUME IInv, CheckFits, CheckHeight, NEW t \in Block, IsTop(t), check.rows[t] # "stale"
  PROVE  rows'[t] = rows[t]
<1> DEFINE b == check.hash
           h == check.height
           others == {c \in Block : Height[c] = check.height /\ check.rows[c] # "none"}
<1>1. /\ check.at = "walk" /\ rows \in [Block -> Statuses] /\ b \in Block /\ h = Height[b]
      /\ \A c \in Block : check.rows[c] # "none" => c \in Rowed
  BY DEF CheckHeight, IInv, TypeOK, CheckFits
<1>2. rows' = IF check.rows[b] = "stale" THEN Canonical(b, h)
              ELSE IF check.rows[b] = "none" /\ Cardinality(others) > 1 THEN Canonical(None, h)
              ELSE rows
  BY DEF CheckHeight
<1>3. CASE Height[t] # h
  <2>1. Canonical(b, h)[t] = rows[t]
    BY <1>1, <1>3, CanonicalElsewhere
  <2>2. Canonical(None, h)[t] = rows[t]
    BY <1>1, <1>3, CanonicalElsewhere, TreeAssumption
  <2> QED
    BY <1>2, <2>1, <2>2
<1>4. CASE Height[t] = h
  <2>1. \A c \in Rowed : Height[c] = h => c = t
    BY <1>1, <1>4, TopIsHighest
  <2>2. check.rows[b] # "stale"
    <3>1. check.rows[b] = "stale" => b \in Rowed
      BY <1>1
    <3> QED
      BY <1>1, <2>1, <3>1
  <2>3. others \subseteq {t}
    BY <1>1, <2>1
  <2>4. ~(Cardinality(others) > 1)
    <3>1. CASE others = {}
      BY <3>1, FS_EmptySet
    <3>2. CASE others = {t}
      <4>1. Cardinality(others) = 1
        BY <3>2, FS_Singleton
      <4> QED
        BY <4>1
    <3> QED
      BY <2>3, <3>1, <3>2
  <2> QED
    BY <1>2, <2>2, <2>4
<1> QED
  BY <1>3, <1>4

\* $validateChain() goes down the chain of the tip it read, or of a later one.
LEMMA CheckLinks ==
  ASSUME IInv, Linking, Check
  PROVE  Linking'
<1>1. /\ tip' = tip /\ pc' = pc /\ block' = block /\ fast' = fast /\ stale' = stale
      /\ target' = target /\ tail' = tail /\ fresh' = fresh /\ current' = current
      /\ blocks' = blocks
  BY DEF Check, StartCheck, ReadRows, CheckHeight, EndCheck, CheckLeaves, node, local, cache
<1>2. /\ rows \in [Block -> Statuses] /\ tip \in Block
      /\ blocks # <<>> => Last(blocks) \in Block
  BY LastTyped DEF IInv, TypeOK
<1>3. Rowed' = Rowed
  <2>1. CASE CheckHeight
    BY <1>2, <2>1 DEF CheckHeight, Canonical, Rowed, Statuses
  <2>2. CASE ~CheckHeight
    BY <2>2 DEF Check, StartCheck, ReadRows, EndCheck, Rowed
  <2> QED
    BY <2>1, <2>2
<1>4. ASSUME NEW t \in Block, IsTop(t), check.at = "walk" => check.rows[t] # "stale"
      PROVE  rows'[t] = rows[t]
  <2>1. CASE CheckHeight
    <3>1. check.at = "walk"
      BY <2>1 DEF CheckHeight
    <3> QED
      BY <1>4, <2>1, <3>1, CheckKeepsTop DEF Linking
  <2>2. CASE ~CheckHeight
    BY <2>2 DEF Check, StartCheck, ReadRows, EndCheck
  <2> QED
    BY <2>1, <2>2
<1>5. TableTop'
  <2>1. ASSUME pc \in Settled, blocks # <<>> PROVE IsTop(Last(blocks))'
    <3>1. IsTop(Last(blocks))
      BY <2>1 DEF Linking, TableTop
    <3>2. rows'[Last(blocks)] = rows[Last(blocks)]
      BY <1>2, <1>4, <2>1, <3>1 DEF Linking, CheckFits
    <3> QED
      BY <1>1, <1>3, <3>1, <3>2 DEF IsTop
  <2>2. ASSUME pc = "push" PROVE IsTop(block)'
    <3>1. IsTop(block) /\ block \in Block
      BY <2>2 DEF Linking, TableTop, IInv, StoredFirst, Rowed
    <3>2. rows'[block] = rows[block]
      BY <1>4, <2>2, <3>1 DEF Linking, CheckFits
    <3> QED
      BY <1>1, <1>3, <3>1, <3>2 DEF IsTop
  <2> QED
    BY <1>1, <1>3, <2>1, <2>2 DEF Linking, TableTop
<1>6. CheckFits'
  <2>1. CASE StartCheck
    <3>1. /\ check' = [check EXCEPT !.at = "read", !.tip = tip, !.hash = tip, !.runs = @ + 1]
          /\ CheckIsRecord
      BY <2>1 DEF StartCheck, IInv
    <3>2. check'.at = "read" /\ check'.hash = tip
      BY <3>1 DEF CheckIsRecord
    <3> QED
      BY <1>1, <1>2, <3>2, TreeAssumption DEF CheckFits
  <2>2. CASE ReadRows
    <3> DEFINE heights == {Height[b] : b \in {c \in Block : rows[c] # "none"}}
    <3>1. check.at = "read" /\ CheckIsRecord
      BY <2>2 DEF ReadRows, IInv
    <3>2. check.hash \in Block /\ Height[check.hash] <= Height[tip]
      BY <3>1 DEF Linking, CheckFits
    <3>3. CASE heights = {}
      BY <2>2, <3>3 DEF ReadRows, CheckFits, NoCheck
    <3>4. CASE heights # {}
      <4>1. check' = [check EXCEPT !.at = "walk", !.rows = rows, !.height = Height[check.hash],
                                   !.low = CHOOSE h \in heights : \A g \in heights : h <= g]
        BY <2>2, <3>4 DEF ReadRows
      <4>2. /\ check'.at = "walk" /\ check'.rows = rows /\ check'.height = Height[check.hash]
            /\ check'.low = CHOOSE h \in heights : \A g \in heights : h <= g
            /\ check'.hash = check.hash
        BY <3>1, <4>1 DEF CheckIsRecord
      <4>3. check'.low \in heights
        <5>1. heights \in SUBSET Nat
          BY TreeAssumption
        <5> HIDE DEF heights
        <5>2. \E h \in heights : \A g \in heights : h <= g
          BY <3>4, <5>1, LeastNumber
        <5> QED
          BY <4>2, <5>2
      <4>4. check'.low \in Nat /\ Height[Root] <= check'.low
        BY <4>3, Heights
      <4>5. pc \in Settled /\ blocks # <<>> => rows[Last(blocks)] # "stale"
        BY DEF Linking, TableTop, IsTop
      <4>6. pc = "push" => rows[block] # "stale"
        BY DEF Linking, TableTop, IsTop
      <4> QED
        BY <1>1, <1>3, <3>2, <4>2, <4>4, <4>5, <4>6 DEF CheckFits, Rowed
    <3> QED
      BY <3>3, <3>4
  <2>3. CASE CheckHeight
    <3>1. /\ check.at = "walk" /\ check.height > check.low /\ CheckIsRecord
          /\ check' = [check EXCEPT !.height = @ - 1,
                                    !.hash = IF check.rows[check.hash] = "none"
                                             THEN HashAt(check.height - 1)
                                             ELSE Parent[check.hash]]
      BY <2>3 DEF CheckHeight, IInv
    <3>2. /\ check'.at = "walk" /\ check'.rows = check.rows /\ check'.low = check.low
          /\ check'.height = check.height - 1
          /\ check'.hash = IF check.rows[check.hash] = "none"
                           THEN HashAt(check.height - 1) ELSE Parent[check.hash]
      BY <3>1 DEF CheckIsRecord
    <3>3. /\ check.hash \in Block /\ check.height = Height[check.hash]
          /\ Height[check.hash] <= Height[tip]
          /\ check.low \in Nat /\ Height[Root] <= check.low
      BY <3>1 DEF Linking, CheckFits
    <3>4. /\ Height[check.hash] \in Nat /\ Height[Root] \in Nat /\ Height[tip] \in Nat
          /\ check.height - 1 \in Nat /\ Height[Root] <= check.height - 1
          /\ check.height - 1 <= Height[tip] /\ check.hash # Root
      BY <1>2, <3>1, <3>3, TreeAssumption
    <3>5. check'.hash \in Block /\ Height[check'.hash] = check.height - 1
      <4>1. HashAt(check.height - 1) \in AtHeight(check.height - 1)
        <5>1. \E a \in Ancestors[tip] : Height[a] = check.height - 1
          BY <1>2, <3>4, AncestorAtHeight
        <5>2. AtHeight(check.height - 1) # {}
          BY <5>1 DEF AtHeight
        <5> QED
          BY <5>2 DEF HashAt
      <4>2. /\ HashAt(check.height - 1) \in Block
            /\ Height[HashAt(check.height - 1)] = check.height - 1
        BY <1>2, <4>1, AncestorsAreLeast DEF AtHeight
      <4>3. /\ Parent[check.hash] \in Block
            /\ Height[Parent[check.hash]] = check.height - 1
        BY <3>3, <3>4, TreeAssumption
      <4> QED
        BY <3>2, <4>2, <4>3
    <3> QED
      BY <1>1, <1>3, <3>1, <3>2, <3>3, <3>4, <3>5 DEF Linking, CheckFits
  <2>4. CASE EndCheck
    BY <2>4 DEF EndCheck, CheckFits, NoCheck
  <2> QED
    BY <2>1, <2>2, <2>3, <2>4 DEF Check
<1> QED
  BY <1>1, <1>5, <1>6 DEF Linking, Chained, RoundFits, WalkFollows

\* The mempool update has no part in it.
LEMMA OthersLink ==
  ASSUME IInv, Linking,
         \/ ProtectionEnds \/ UNCHANGED vars
         \/ \E found \in SUBSET Tx : UpdateMempool(found)
  PROVE  Linking'
<1>1. /\ tip' = tip /\ blocks' = blocks /\ rows' = rows /\ check' = check /\ fast' = fast
      /\ block' = block /\ stale' = stale /\ target' = target /\ tail' = tail /\ fresh' = fresh
      /\ current' = current
  BY DEF ProtectionEnds, UpdateMempool, vars, node, local, cache
<1>2. pc' = pc \/ (pc = "mempool" /\ pc' = "idle")
  BY DEF ProtectionEnds, UpdateMempool, vars
<1>3. Rowed' = Rowed /\ \A b \in Block : IsTop(b) => IsTop(b)'
  BY <1>1 DEF IsTop, Rowed
<1>4. blocks # <<>> => Last(blocks) \in Block
  BY LastTyped DEF IInv, TypeOK
<1>5. pc = "push" => block \in Block
  BY DEF IInv, StoredFirst, Rowed
<1>6. TableTop'
  BY <1>1, <1>2, <1>3, <1>4, <1>5 DEF Linking, TableTop, Settled, Handling, Walking
<1>7. RoundFits' /\ CheckFits'
  BY <1>1, <1>2, <1>3 DEF Linking, RoundFits, CheckFits, Settled, Handling, Walking
<1> QED
  BY <1>1, <1>2, <1>6, <1>7 DEF Linking, Chained, WalkFollows, Walking

\* Every step but a fault keeps the links; after a fault nothing is said.
LEMMA NextLinks ==
  ASSUME IInv, ListFits, faults = 0 => Linking, [Next]_vars, faults' = 0
  PROVE  Linking'
<1>1. faults' = faults /\ ~Trouble
  <2>1. faults \in Nat
    BY DEF IInv, TypeOK
  <2>2. faults + 1 # 0
    BY <2>1
  <2>3. ~Trouble
    BY <2>2, Zenon DEF Trouble, Restart, Throw
  <2>4. CASE \E b \in Block : Mine(b)
    <3>1. PICK b \in Block : Mine(b)
      BY <2>4
    <3>2. faults' \in {faults, faults + 1}
      BY <3>1 DEF Mine
    <3> QED
      BY <2>2, <2>3, <3>2
  <2>5. CASE \E found \in SUBSET Tx : UpdateMempool(found)
    <3>1. faults' \in {faults, faults + 1}
      BY <2>5 DEF UpdateMempool
    <3> QED
      BY <2>2, <2>3, <3>1
  <2>6. CASE UNCHANGED faults
    BY <2>3, <2>6
  <2>7. \/ \E b \in Block : Mine(b)
        \/ \E found \in SUBSET Tx : UpdateMempool(found)
        \/ UNCHANGED faults
    BY <2>3 DEF Next, Node, Arrive, NodeRestarts, PoolChange, MainLoop, ReadMempool, ReadTip,
                NextBlock, GetBlock, FindFork, IndexParent, SetCanonical, Walk, Rebuild,
                SaveBlock, PushBlock, BlocksDone, Elsewhere, ProtectionEnds, Check, StartCheck,
                ReadRows, CheckHeight, EndCheck, CheckLeaves, vars
  <2> QED
    BY <2>4, <2>5, <2>6, <2>7
<1>2. Linking
  BY <1>1
<1>3. CASE Node
  BY <1>1, <1>2, <1>3, NodeLinks
<1>4. CASE MainLoop
  BY <1>2, <1>4, RoundLinks, WalkLinks, PushLinks, OthersLink DEF MainLoop
<1>5. CASE Check
  BY <1>2, <1>5, CheckLinks
<1>6. CASE ProtectionEnds \/ UNCHANGED vars
  BY <1>2, <1>6, OthersLink
<1> QED
  BY <1>1, <1>3, <1>4, <1>5, <1>6 DEF Next

\* Nothing is cached or stored at the start.
LEMMA InitLinks == Init => Linking
<1> SUFFICES ASSUME Init PROVE Linking
  OBVIOUS
<1>1. /\ blocks = <<>> /\ pc = "idle" /\ check.at = "off"
      /\ rows = [b \in Block |-> "none"]
  BY DEF Init, NoCheck
<1>2. Chained(blocks)
  <2>1. Len(blocks) = 0
    BY <1>1, EmptySeq
  <2> QED
    BY <2>1 DEF Chained
<1>3. Rowed = {}
  BY <1>1 DEF Rowed
<1> QED
  BY <1>1, <1>2, <1>3
  DEF Linking, TableTop, RoundFits, WalkFollows, CheckFits, Settled, Handling, Walking

\* The inductive invariant of the links: the table ends in the last cached block, the block
\* that is handled has no row yet, and what the round, the walk and $validateChain() have
\* read fits both.
THEOREM LinkedFirst == Spec => [](IInv /\ ListFits /\ (faults = 0 => Linking))
<1>1. Init => IInv /\ ListFits /\ (faults = 0 => Linking)
  BY InitHolds, InitFits, InitLinks
<1>2. IInv /\ ListFits /\ (faults = 0 => Linking) /\ [Next]_vars
        => (IInv /\ ListFits /\ (faults = 0 => Linking))'
  BY NextKeeps, NextFits, NextLinks
<1> QED
  BY <1>1, <1>2, PTL DEF Spec

\* Linked: without faults, blocks of consecutive heights in the cache are parent and child,
\* whatever the depth of a fork, where it comes in the round, and what $validateChain() does
\* meanwhile.
THEOREM LinkedHolds == Spec => []Linked
<1>1. IInv /\ ListFits /\ (faults = 0 => Linking) => Linked
  BY DEF Linking, Chained, Joined, Linked
<1> QED
  BY <1>1, LinkedFirst, PTL

-----------------------------------------------------------------------------
(* The table has one chain                                                 *)

Canon == {b \in Block : rows[b] = "canonical"}

\* The height whose canonical row $handleReorgs() is about to replace.
Replaced == IF pc = "canon" THEN {Height[tail] - 1} ELSE {}

\* Where there is a row, one is canonical, and no other but where one is being replaced.
OneEach ==
  /\ \A b \in Rowed : CanonicalAt(Height[b]) # {}
  /\ \A b, c \in Canon : Height[b] = Height[c] => b = c \/ Height[b] \in Replaced

\* Canonical rows of consecutive heights are linked, but at the end of the walk.
Fitting ==
  \A b \in Canon : \/ CanonicalAt(Height[b] - 1) \subseteq {Parent[b]}
                   \/ pc \in Walking /\ Height[b] \in {Height[tail]} \cup Replaced

\* The walk leaves the chain of the block behind it.
WalkClears ==
  /\ pc \in Walking =>
       /\ CanonicalAt(Height[tail]) \subseteq {tail}
       /\ \A i \in DOMAIN fresh : fresh[i] \in Canon /\ Height[tail] <= Height[fresh[i]]
  /\ pc = "index" => CanonicalAt(Height[tail] - 1) # {}
  /\ pc = "rebuild" => CanonicalAt(Height[tail] - 1) \subseteq {Parent[tail]}
  /\ pc = "save" \/ (pc \in Walking /\ fresh # <<>>) =>
       CanonicalAt(Height[block] - 1) \subseteq {Parent[block]}

OneChain ==
  /\ check.at = "off"
  /\ OneEach /\ Fitting /\ WalkClears
  /\ pc \notin Walking => blocks \in Seq(Canon)

\* What is canonical has a row, and is found at its height.
LEMMA CanonIs ==
  /\ Canon \subseteq Rowed /\ Rowed \subseteq Block
  /\ \A b \in Canon : b \in CanonicalAt(Height[b])
  /\ \A h : CanonicalAt(h) \subseteq Canon /\ \A b \in CanonicalAt(h) : Height[b] = h
BY DEF Canon, Rowed, CanonicalAt

\* A row that is no other than the parent is the only one of its height.
LEMMA RowIsParent ==
  ASSUME OneEach, pc # "canon", NEW b \in Block, NEW below \in RowAt(Height[b] - 1),
         below \in {None, Parent[b]}
  PROVE  CanonicalAt(Height[b] - 1) \subseteq {Parent[b]}
<1>1. CASE CanonicalAt(Height[b] - 1) = {}
  BY <1>1
<1>2. CASE CanonicalAt(Height[b] - 1) # {}
  <2>1. below \in CanonicalAt(Height[b] - 1)
    BY <1>2 DEF RowAt
  <2>2. below = Parent[b]
    BY <2>1, TreeAssumption DEF CanonicalAt
  <2>3. \A c \in CanonicalAt(Height[b] - 1) : c = below
    BY <2>1, CanonIs DEF OneEach, Replaced
  <2> QED
    BY <2>2, <2>3
<1> QED
  BY <1>1, <1>2

\* What leaves rows, cache and walk alone leaves the chain alone.
LEMMA QuietKeeps ==
  ASSUME OneChain, rows' = rows, blocks' = blocks, check'.at = "off",
         \/ pc' = pc /\ tail' = tail /\ fresh' = fresh /\ block' = block
         \/ pc \notin Walking /\ pc' \notin Walking \cup {"save"}
  PROVE  OneChain'
<1>1. Canon' = Canon /\ Rowed' = Rowed
  BY DEF Canon, Rowed
<1>2. \A h : CanonicalAt(h)' = CanonicalAt(h)
  BY DEF CanonicalAt
<1>3. pc \notin Walking => Replaced = {}
  BY DEF Replaced, Walking
<1>4. CASE pc' = pc /\ tail' = tail /\ fresh' = fresh /\ block' = block
  <2>1. Replaced' = Replaced
    BY <1>4 DEF Replaced
  <2> QED
    BY <1>1, <1>2, <1>4, <2>1 DEF OneChain, OneEach, Fitting, WalkClears
<1>5. CASE pc \notin Walking /\ pc' \notin Walking \cup {"save"}
  <2>1. pc' \notin {"index", "rebuild"} /\ pc' # "canon"
    BY <1>5 DEF Walking
  <2>2. Replaced' = {}
    BY <2>1 DEF Replaced
  <2> QED
    BY <1>1, <1>2, <1>3, <1>5, <2>1, <2>2 DEF OneChain, OneEach, Fitting, WalkClears
<1> QED
  BY <1>4, <1>5

\* The steps that leave the table alone.
LEMMA RoundKeepsChain ==
  ASSUME IInv, Linking, OneChain,
         \/ Node \/ ReadMempool \/ ReadTip \/ NextBlock \/ GetBlock \/ BlocksDone
         \/ \E found \in SUBSET Tx : UpdateMempool(found)
         \/ ProtectionEnds \/ UNCHANGED vars
  PROVE  OneChain'
<1>1. rows' = rows /\ blocks' = blocks /\ check' = check
  BY DEF Node, Mine, Arrive, NodeRestarts, PoolChange, ReadMempool, ReadTip, NextBlock, GetBlock,
         BlocksDone, Elsewhere, UpdateMempool, ProtectionEnds, vars, cache
<1>2. check'.at = "off"
  BY <1>1 DEF OneChain
<1>3. CASE GetBlock /\ fast
  <2>1. /\ pc = "get" /\ pc' = "save" /\ fast' = fast /\ block' = block
        /\ block \in Block /\ Height[block] \in Nat
    BY <1>3, TreeAssumption DEF GetBlock, IInv, StoredFirst
  <2>2. ASSUME NEW b \in CanonicalAt(Height[block] - 1) PROVE b = Parent[block]
    <3>1. b \in Rowed /\ Height[b] = Height[block] - 1
      BY CanonIs
    <3>2. blocks # <<>> /\ IsTop(Last(blocks)) /\ Last(blocks) \in Block
      BY <2>1, <3>1, LastTyped DEF Linking, TableTop, Settled, IInv, TypeOK
    <3>3. Height[b] <= Height[Last(blocks)] /\ (Height[b] = Height[Last(blocks)] => b = Last(blocks))
      BY <3>1, <3>2, TopIsHighest DEF IInv, TypeOK
    <3>4. Last(blocks) \in Rowed
      BY <3>2 DEF IsTop, Rowed
    <3>5. Height[Last(blocks)] < Height[block]
      BY <2>1, <3>4 DEF Linking, TableTop, Handling
    <3>6. Height[Last(blocks)] \in Nat
      BY <3>2, TreeAssumption
    <3>7. b = Last(blocks) /\ Height[block] = Height[Last(blocks)] + 1
      BY <2>1, <3>1, <3>3, <3>5, <3>6
    <3>8. Joined(Last(blocks), block)
      BY <1>3, <2>1, <3>2 DEF Linking, RoundFits, Handling
    <3> QED
      BY <3>7, <3>8 DEF Joined
  <2>3. Canon' = Canon /\ Rowed' = Rowed /\ \A h : CanonicalAt(h)' = CanonicalAt(h)
    BY <1>1 DEF Canon, Rowed, CanonicalAt
  <2>4. Replaced = {} /\ Replaced' = {} /\ pc \notin Walking /\ pc' \notin Walking
    BY <2>1 DEF Replaced, Walking
  <2>5. OneEach' /\ Fitting'
    BY <2>3, <2>4 DEF OneChain, OneEach, Fitting
  <2>6. WalkClears'
    BY <2>1, <2>2, <2>3, <2>4 DEF WalkClears
  <2> QED
    BY <1>1, <1>2, <2>3, <2>4, <2>5, <2>6 DEF OneChain
<1>4. CASE ~(GetBlock /\ fast)
  <2>1. \/ pc' = pc /\ tail' = tail /\ fresh' = fresh /\ block' = block
        \/ pc \notin Walking /\ pc' \notin Walking \cup {"save"}
    BY <1>4
    DEF Node, Mine, Arrive, NodeRestarts, PoolChange, ReadMempool, ReadTip, NextBlock, GetBlock,
        BlocksDone, Elsewhere, UpdateMempool, ProtectionEnds, vars, local, Walking
  <2> QED
    BY <1>1, <1>2, <2>1, QuietKeeps
<1> QED
  BY <1>3, <1>4

\* The conditions of $handleReorgs(): a row below that is not the parent is to be replaced.
LEMMA ForkKeepsChain ==
  ASSUME IInv, Linking, OneChain, FindFork \/ Walk
  PROVE  OneChain'
<1>1. rows' = rows /\ blocks' = blocks /\ check' = check /\ block' = block
  BY DEF FindFork, Walk, Elsewhere, local
<1>2. check'.at = "off"
  BY <1>1 DEF OneChain
<1>3. Canon' = Canon /\ Rowed' = Rowed /\ \A h : CanonicalAt(h)' = CanonicalAt(h)
  BY <1>1 DEF Canon, Rowed, CanonicalAt
<1>4. pc # "canon" /\ Replaced = {} /\ Replaced' = {}
  BY DEF FindFork, Walk, Replaced
<1>5. OneEach'
  BY <1>3, <1>4 DEF OneChain, OneEach
<1>6. CASE FindFork
  <2>1. PICK below \in RowAt(Height[block] - 1) :
          IF below \in {None, Parent[block]}
          THEN pc' = "save" /\ UNCHANGED <<tail, fresh>>
          ELSE pc' = "index" /\ tail' = block /\ fresh' = <<>>
    BY <1>6 DEF FindFork
  <2>2. pc = "fork" /\ block \in Block /\ pc \notin Walking
    BY <1>6 DEF FindFork, IInv, StoredFirst, Walking
  <2>3. CASE below \in {None, Parent[block]}
    <3>1. CanonicalAt(Height[block] - 1) \subseteq {Parent[block]}
      BY <1>4, <2>2, <2>3, RowIsParent DEF OneChain
    <3>2. pc' = "save" /\ pc' \notin Walking
      BY <2>1, <2>3 DEF Walking
    <3>3. Fitting' /\ WalkClears'
      BY <1>1, <1>3, <1>4, <2>2, <3>1, <3>2 DEF OneChain, Fitting, WalkClears
    <3> QED
      BY <1>1, <1>2, <1>3, <1>5, <2>2, <3>2, <3>3 DEF OneChain
  <2>4. CASE below \notin {None, Parent[block]}
    <3>1. pc' = "index" /\ tail' = block /\ fresh' = <<>> /\ DOMAIN fresh' = {} /\ pc' \in Walking
      BY <2>1, <2>4 DEF Walking
    <3>2. CanonicalAt(Height[block] - 1) # {}
      BY <2>4 DEF RowAt
    <3>3. CanonicalAt(Height[block]) = {}
      <4>1. \A b \in Rowed : Height[b] < Height[block]
        BY <2>2 DEF Linking, TableTop, Handling
      <4> QED
        BY <2>2, <4>1, CanonIs, TreeAssumption
    <3>4. Fitting'
      BY <1>3, <1>4, <2>2, <3>1 DEF OneChain, Fitting
    <3>5. WalkClears'
      BY <1>3, <3>1, <3>2, <3>3 DEF WalkClears
    <3> QED
      BY <1>2, <1>5, <3>1, <3>4, <3>5 DEF OneChain
  <2> QED
    BY <2>3, <2>4
<1>7. CASE Walk
  <2>1. PICK below \in RowAt(Height[tail] - 1) :
          pc' = IF below \in {None, Parent[tail]} THEN "rebuild" ELSE "index"
    BY <1>7 DEF Walk
  <2>2. /\ pc = "walk" /\ tail' = tail /\ fresh' = fresh /\ tail \in Block
        /\ pc \in Walking /\ pc' \in Walking
    BY <1>7, <2>1 DEF Walk, local, IInv, StoredFirst, Walking
  <2>3. pc' = "rebuild" => CanonicalAt(Height[tail] - 1) \subseteq {Parent[tail]}
    BY <1>4, <2>1, <2>2, RowIsParent DEF OneChain
  <2>4. pc' = "index" => CanonicalAt(Height[tail] - 1) # {}
    BY <2>1 DEF RowAt
  <2>5. Fitting'
    BY <1>3, <1>4, <2>2 DEF OneChain, Fitting
  <2>6. WalkClears'
    BY <1>1, <1>3, <2>1, <2>2, <2>3, <2>4 DEF OneChain, WalkClears
  <2> QED
    BY <1>2, <1>5, <2>2, <2>5, <2>6 DEF OneChain
<1> QED
  BY <1>6, <1>7

\* During the walk, the blocks it left behind are higher than the one it is at.
LEMMA WalkIsBelow ==
  ASSUME IInv, ListFits, Linking, pc \in Walking
  PROVE  /\ tail \in Block /\ block \in Block /\ Height[tail] \in Nat /\ Height[block] \in Nat
         /\ fresh = <<>> => tail = block
         /\ fresh # <<>> => Height[tail] < Height[block]
         /\ \A i \in DOMAIN fresh : fresh[i] \in Block
<1>1. tail \in Block /\ block \in Block /\ Height[tail] \in Nat /\ Height[block] \in Nat
  BY TreeAssumption DEF IInv, StoredFirst, Walking
<1>2. fresh \in Seq(Block) /\ DOMAIN fresh = 1..Len(fresh) /\ Len(fresh) \in Nat
  BY LenProperties DEF IInv, TypeOK
<1>3. tail = IF fresh = <<>> THEN block ELSE Last(fresh)
  BY DEF Linking, WalkFollows
<1>4. ASSUME fresh # <<>> PROVE Height[tail] < Height[block]
  <2>1. Len(fresh) \in DOMAIN fresh
    BY <1>2, <1>4, EmptySeq
  <2> QED
    BY <1>3, <1>4, <2>1 DEF ListFits, TopsFit, Last
<1> QED
  BY <1>1, <1>2, <1>3, <1>4, ElementOfSeq

\* The parent gets its row; whether it is canonical is set in the next step.
LEMMA IndexKeepsChain ==
  ASSUME IInv, ListFits, Linking, OneChain, IndexParent
  PROVE  OneChain'
<1> DEFINE p == Parent[tail]
<1>1. /\ pc = "index" /\ pc' = "canon" /\ tail' = tail /\ fresh' = fresh /\ block' = block
      /\ check' = check
      /\ rows' = IF rows[p] = "none" THEN Saved(p, ~OnMainChain(p)) ELSE rows
      /\ rows \in [Block -> Statuses]
  BY DEF IndexParent, Elsewhere, IInv, TypeOK
<1>2. pc \in Walking /\ pc' \in Walking
  BY <1>1 DEF Walking
<1>3. /\ tail \in Block /\ block \in Block /\ Height[tail] \in Nat /\ Height[block] \in Nat
      /\ fresh # <<>> => Height[tail] < Height[block]
  BY <1>2, WalkIsBelow
<1>4. p \in Block /\ Height[p] = Height[tail] - 1
  <2>1. tail # Root
    BY <1>1 DEF IInv, StoredFirst
  <2> QED
    BY <1>3, <2>1, Heights
<1>5. Replaced = {} /\ Replaced' = {Height[tail] - 1}
  BY <1>1 DEF Replaced
<1> HIDE DEF p
<1>6. /\ \A c \in Block \ {p} : rows'[c] = rows[c]
      /\ rows[p] # "none" => rows'[p] = rows[p]
  BY <1>1, <1>4 DEF Saved
<1>7. /\ Canon \subseteq Canon' /\ Canon' \subseteq Canon \cup {p}
      /\ Rowed' \subseteq Rowed \cup {p}
  BY <1>6 DEF Canon, Rowed
<1>8. /\ \A h : CanonicalAt(h) \subseteq CanonicalAt(h)'
      /\ \A h : h # Height[tail] - 1 => CanonicalAt(h)' = CanonicalAt(h)
  BY <1>4, <1>6 DEF CanonicalAt
<1>9. OneEach'
  <2>1. ASSUME NEW b \in Rowed' PROVE CanonicalAt(Height[b])' # {}
    <3>1. CASE b \in Rowed
      BY <1>8, <3>1 DEF OneChain, OneEach
    <3>2. CASE b = p
      BY <1>1, <1>4, <1>8, <3>2 DEF OneChain, WalkClears
    <3> QED
      BY <1>7, <3>1, <3>2
  <2>2. ASSUME NEW b \in Canon', NEW c \in Canon', Height[b] = Height[c]
        PROVE  b = c \/ Height[b] \in Replaced'
    <3>1. CASE b = p \/ c = p
      BY <1>4, <1>5, <2>2, <3>1
    <3>2. CASE b \in Canon /\ c \in Canon
      BY <1>5, <2>2, <3>2 DEF OneChain, OneEach
    <3> QED
      BY <1>7, <3>1, <3>2
  <2> QED
    BY <2>1, <2>2 DEF OneEach
<1>10. Fitting'
  <2>1. ASSUME NEW b \in Canon', Height[b] \notin {Height[tail], Height[tail] - 1}
        PROVE  CanonicalAt(Height[b] - 1)' \subseteq {Parent[b]}
    <3>1. b \in Canon /\ b \in Block /\ Height[b] \in Nat
      BY <1>4, <1>7, <2>1, TreeAssumption DEF Canon
    <3>2. CanonicalAt(Height[b] - 1) \subseteq {Parent[b]}
      BY <1>5, <2>1, <3>1 DEF OneChain, Fitting
    <3>3. Height[b] - 1 # Height[tail] - 1
      BY <1>3, <2>1, <3>1
    <3> QED
      BY <1>8, <3>2, <3>3
  <2> QED
    BY <1>1, <1>2, <1>5, <2>1 DEF Fitting
<1>11. WalkClears'
  <2>1. CanonicalAt(Height[tail])' \subseteq {tail}
    <3>1. Height[tail] # Height[tail] - 1
      BY <1>3
    <3> QED
      BY <1>1, <1>2, <1>8, <3>1 DEF OneChain, WalkClears
  <2>2. \A i \in DOMAIN fresh : fresh[i] \in Canon' /\ Height[tail] <= Height[fresh[i]]
    BY <1>2, <1>7 DEF OneChain, WalkClears
  <2>3. fresh # <<>> => CanonicalAt(Height[block] - 1)' \subseteq {Parent[block]}
    <3>1. fresh # <<>> => Height[block] - 1 # Height[tail] - 1
      BY <1>3
    <3> QED
      BY <1>1, <1>2, <1>8, <3>1 DEF OneChain, WalkClears
  <2> QED
    BY <1>1, <2>1, <2>2, <2>3 DEF WalkClears
<1> QED
  BY <1>1, <1>2, <1>9, <1>10, <1>11 DEF OneChain

\* The parent replaces the canonical row of its height.
LEMMA SetKeepsChain ==
  ASSUME IInv, ListFits, Linking, OneChain, SetCanonical
  PROVE  OneChain'
<1>0. PICK p \in Block : p = Parent[tail] /\ p \in Rowed
  BY DEF SetCanonical, IInv, StoredFirst, Rowed
<1>1. /\ pc = "canon" /\ pc' = "walk" /\ tail' = p /\ fresh' = Append(fresh, p)
      /\ block' = block /\ check' = check
      /\ rows' = Canonical(p, Height[p]) /\ rows \in [Block -> Statuses]
  BY <1>0 DEF SetCanonical, Elsewhere, IInv, TypeOK
<1>2. pc \in Walking /\ pc' \in Walking
  BY <1>1 DEF Walking
<1>3. /\ tail \in Block /\ block \in Block /\ Height[tail] \in Nat /\ Height[block] \in Nat
      /\ fresh = <<>> => tail = block
      /\ fresh # <<>> => Height[tail] < Height[block]
      /\ \A i \in DOMAIN fresh : fresh[i] \in Block
  BY <1>2, WalkIsBelow
<1>4. p \in Rowed /\ p \in Block /\ Height[p] = Height[tail] - 1
  <2>1. tail # Root
    BY <1>0, TreeAssumption
  <2> QED
    BY <1>0, <1>3, <2>1, Heights
<1>5. Replaced = {Height[p]} /\ Replaced' = {}
  BY <1>1, <1>4 DEF Replaced
<1>6. /\ rows'[p] = "canonical"
      /\ \A c \in Block \ {p} : Height[c] = Height[p] => rows'[c] # "canonical"
      /\ \A c \in Block : Height[c] # Height[p] => rows'[c] = rows[c]
      /\ \A c \in Block : rows'[c] = "none" <=> rows[c] = "none"
  BY <1>1, <1>4 DEF Canonical, Rowed
<1>7. Rowed' = Rowed
  BY <1>6 DEF Rowed
<1>8. /\ CanonicalAt(Height[p])' = {p}
      /\ \A h : h # Height[p] => CanonicalAt(h)' = CanonicalAt(h)
  BY <1>4, <1>6 DEF CanonicalAt
<1>9. \A b \in Canon' : Height[b] # Height[p] => b \in Canon
  BY <1>6 DEF Canon
<1>10. OneEach'
  <2>1. ASSUME NEW b \in Rowed' PROVE CanonicalAt(Height[b])' # {}
    <3>1. CASE Height[b] = Height[p]
      BY <1>8, <3>1
    <3>2. CASE Height[b] # Height[p]
      BY <1>7, <1>8, <3>2 DEF OneChain, OneEach
    <3> QED
      BY <3>1, <3>2
  <2>2. ASSUME NEW b \in Canon', NEW c \in Canon', Height[b] = Height[c] PROVE b = c
    <3>1. CASE Height[b] = Height[p]
      BY <1>6, <2>2, <3>1 DEF Canon
    <3>2. CASE Height[b] # Height[p]
      BY <1>5, <1>9, <2>2, <3>2 DEF OneChain, OneEach
    <3> QED
      BY <3>1, <3>2
  <2> QED
    BY <2>1, <2>2 DEF OneEach
<1>11. Fitting'
  <2>1. ASSUME NEW b \in Canon', Height[b] # Height[p]
        PROVE  CanonicalAt(Height[b] - 1)' \subseteq {Parent[b]}
    <3>1. b \in Canon /\ b \in Block /\ Height[b] \in Nat
      BY <1>9, <2>1, TreeAssumption DEF Canon
    <3>2. CASE Height[b] = Height[tail]
      <4>1. b = tail
        BY <1>2, <3>1, <3>2, CanonIs DEF OneChain, WalkClears
      <4> QED
        BY <1>0, <1>4, <1>8, <4>1
    <3>3. CASE Height[b] # Height[tail]
      <4>1. CanonicalAt(Height[b] - 1) \subseteq {Parent[b]}
        BY <1>5, <2>1, <3>1, <3>3 DEF OneChain, Fitting
      <4>2. Height[b] - 1 # Height[p]
        BY <1>3, <1>4, <3>1, <3>3
      <4> QED
        BY <1>8, <4>1, <4>2
    <3> QED
      BY <3>2, <3>3
  <2> QED
    BY <1>1, <1>2, <2>1 DEF Fitting
<1>12. WalkClears'
  <2>1. CanonicalAt(Height[p])' \subseteq {p}
    BY <1>8
  <2>2. /\ Len(fresh) \in Nat /\ DOMAIN fresh = 1..Len(fresh)
        /\ DOMAIN Append(fresh, p) = 1..Len(fresh) + 1
        /\ \A i \in 1..Len(fresh) : Append(fresh, p)[i] = fresh[i]
        /\ Append(fresh, p)[Len(fresh) + 1] = p
    <3>1. fresh \in Seq(Block) /\ Append(fresh, p) \in Seq(Block)
      BY <1>4, AppendProperties DEF IInv, TypeOK
    <3> QED
      BY <1>4, <3>1, AppendProperties, LenProperties
  <2>3. ASSUME NEW i \in 1..Len(fresh) + 1
        PROVE  Append(fresh, p)[i] \in Canon' /\ Height[p] <= Height[Append(fresh, p)[i]]
    <3>1. CASE i \in 1..Len(fresh)
      <4>1. fresh[i] \in Canon /\ Height[tail] <= Height[fresh[i]] /\ fresh[i] \in Block
        BY <1>2, <1>3, <2>2, <3>1 DEF OneChain, WalkClears
      <4>2. Height[fresh[i]] # Height[p] /\ Height[p] <= Height[fresh[i]]
        BY <1>3, <1>4, <4>1, TreeAssumption
      <4>3. fresh[i] \in Canon'
        BY <1>6, <4>1, <4>2 DEF Canon
      <4> QED
        BY <2>2, <3>1, <4>2, <4>3
    <3>2. CASE i = Len(fresh) + 1
      BY <1>4, <1>6, <2>2, <3>2, TreeAssumption DEF Canon
    <3> QED
      BY <2>2, <3>1, <3>2
  <2>4. CanonicalAt(Height[block] - 1)' \subseteq {Parent[block]}
    <3>1. CASE fresh = <<>>
      BY <1>0, <1>1, <1>3, <1>4, <1>8, <3>1
    <3>2. CASE fresh # <<>>
      <4>1. Height[block] - 1 # Height[p]
        BY <1>3, <1>4, <3>2
      <4> QED
        BY <1>1, <1>2, <1>8, <3>2, <4>1 DEF OneChain, WalkClears
    <3> QED
      BY <3>1, <3>2
  <2>5. (CanonicalAt(Height[tail]) \subseteq {tail})'
    BY <1>1, <2>1
  <2>6. fresh' = Append(fresh, p) /\ DOMAIN fresh' = 1..Len(fresh) + 1
    BY <1>1, <2>2
  <2>7. ASSUME NEW i \in DOMAIN fresh'
        PROVE  fresh'[i] \in Canon' /\ Height[tail'] <= Height[fresh'[i]]
    BY <1>1, <2>3, <2>6
  <2> QED
    BY <1>1, <2>4, <2>5, <2>7 DEF WalkClears
<1> QED
  BY <1>1, <1>2, <1>10, <1>11, <1>12 DEF OneChain

\* Below the fork the rows are of the chain of the block: so is what the cache is rebuilt from.
LEMMA RebuiltIsCanonical ==
  ASSUME IInv, OneChain, pc = "rebuild"
  PROVE  Rebuilt \in Seq(Canon)
<1>1. /\ tail \in Block /\ Height[tail] \in Nat /\ blocks \in Seq(Rowed) /\ fresh \in Seq(Rowed)
      /\ pc \in Walking /\ Replaced = {}
  BY TreeAssumption DEF IInv, StoredFirst, Walking, Replaced
<1>2. PICK s \in Seq(Rowed) : /\ Rebuilt = Latest(s \o Reverse(fresh), CacheSize)
                              /\ \A i \in 1..Len(s) : s[i] \in KnownBelow(Len(s) - i + 1)
  BY <1>1, RebuiltIs
<1> DEFINE m == Len(s)
           At(n) == s[m - n + 1]
           bad == {n \in 1..m : At(n) \notin Canon}
<1>3. m \in Nat /\ \A i \in 1..m : s[i] \in Rowed
  BY LenProperties, ElementOfSeq
<1>4. ASSUME NEW n \in 1..m
      PROVE  At(n) \in Rowed /\ At(n) \in Ancestors[tail] /\ Height[At(n)] = Height[tail] - n
  <2>1. m - n + 1 \in 1..m /\ m - (m - n + 1) + 1 = n
    BY <1>3
  <2>2. s[m - n + 1] \in KnownBelow(n)
    BY <1>2, <2>1
  <2> QED
    BY <1>3, <2>1, <2>2 DEF KnownBelow
<1> HIDE DEF m, At
<1>5. bad = {}
  <2> SUFFICES ASSUME bad # {} PROVE FALSE
    OBVIOUS
  <2>1. PICK n \in bad : \A k \in bad : n <= k
    <3>1. bad \in SUBSET Nat
      BY <1>3
    <3> HIDE DEF bad
    <3> QED
      BY <3>1, LeastNumber
  <2>2. n \in 1..m /\ At(n) \notin Canon
    OBVIOUS
  <2>3. PICK y \in Ancestors[tail] : /\ Height[y] = Height[tail] - n + 1
                                     /\ CanonicalAt(Height[y] - 1) \subseteq {Parent[y]}
    <3>1. CASE n = 1
      <4>1. tail \in Ancestors[tail] /\ Height[tail] = Height[tail] - n + 1
        BY <1>1, <3>1, AncestorsAreLeast
      <4> QED
        BY <4>1 DEF OneChain, WalkClears
    <3>2. CASE n # 1
      <4>1. n - 1 \in 1..m /\ ~(n <= n - 1) /\ Height[tail] - (n - 1) = Height[tail] - n + 1
            /\ Height[tail] - n + 1 # Height[tail]
        BY <1>1, <1>3, <2>2, <3>2
      <4>2. At(n - 1) \in Canon
        BY <2>1, <4>1
      <4>3. At(n - 1) \in Ancestors[tail] /\ Height[At(n - 1)] = Height[tail] - n + 1
        BY <1>4, <4>1
      <4>4. CanonicalAt(Height[At(n - 1)] - 1) \subseteq {Parent[At(n - 1)]}
        BY <1>1, <4>1, <4>2, <4>3 DEF OneChain, Fitting
      <4> QED
        BY <4>3, <4>4
    <3> QED
      BY <3>1, <3>2
  <2>4. At(n) \in Rowed /\ At(n) \in Ancestors[tail] /\ Height[At(n)] = Height[tail] - n
    BY <1>4, <2>2
  <2>5. Height[y] = Height[At(n)] + 1 /\ Height[y] - 1 = Height[At(n)]
    BY <1>1, <1>3, <2>2, <2>3, <2>4
  <2>6. Parent[y] = At(n)
    BY <1>1, <2>3, <2>4, <2>5, ParentBelow
  <2>7. CanonicalAt(Height[At(n)]) # {}
    BY <2>4 DEF OneChain, OneEach
  <2>8. At(n) \in CanonicalAt(Height[At(n)])
    BY <2>3, <2>5, <2>6, <2>7
  <2> QED
    BY <2>2, <2>8, CanonIs
<1>6. s \in Seq(Canon)
  <2>1. ASSUME NEW i \in 1..m PROVE s[i] \in Canon
    <3>1. m - i + 1 \in 1..m /\ m - (m - i + 1) + 1 = i
      BY <1>3
    <3>2. At(m - i + 1) \in Canon
      BY <1>5, <3>1
    <3> QED
      BY <3>1, <3>2 DEF At
  <2>2. s = [i \in 1..m |-> s[i]]
    BY LenProperties DEF m
  <2>3. s \in [1..m -> Canon]
    BY <2>1, <2>2
  <2> QED
    BY <1>3, <2>3, SeqDef
<1>7. fresh \in Seq(Canon)
  <2>1. Len(fresh) \in Nat /\ DOMAIN fresh = 1..Len(fresh)
    BY <1>1, LenProperties
  <2>2. \A i \in 1..Len(fresh) : fresh[i] \in Canon
    BY <1>1, <2>1 DEF OneChain, WalkClears
  <2>3. fresh = [i \in 1..Len(fresh) |-> fresh[i]]
    BY <1>1, LenProperties
  <2>4. fresh \in [1..Len(fresh) -> Canon]
    BY <2>2, <2>3
  <2> QED
    BY <2>1, <2>4, SeqDef
<1>8. s \o Reverse(fresh) \in Seq(Canon)
  BY <1>6, <1>7, ReverseTyped, ConcatProperties
<1> QED
  BY <1>2, <1>8, CacheSizeTyped, LatestTyped

\* The rebuilt cache, the saved block and the pushed one are of that chain.
LEMMA PushKeepsChain ==
  ASSUME IInv, ListFits, Linking, OneChain, Rebuild \/ SaveBlock \/ PushBlock
  PROVE  OneChain'
<1>1. check' = check /\ check'.at = "off" /\ rows \in [Block -> Statuses]
  BY DEF Rebuild, SaveBlock, PushBlock, Elsewhere, OneChain, IInv, TypeOK
<1>2. CASE Rebuild
  <2>1. /\ pc = "rebuild" /\ pc' = "save" /\ blocks' = Rebuilt /\ block' = block
        /\ pc \in Walking /\ pc' \notin Walking /\ Replaced = {} /\ Replaced' = {}
    BY <1>2 DEF Rebuild, Walking, Replaced
  <2>2. Canon' = Canon /\ Rowed' = Rowed /\ \A h : CanonicalAt(h)' = CanonicalAt(h)
    BY <1>2 DEF Rebuild, Canon, Rowed, CanonicalAt
  <2>3. Fitting'
    <3>1. ASSUME NEW b \in Canon PROVE CanonicalAt(Height[b] - 1) \subseteq {Parent[b]}
      <4>1. CASE Height[b] = Height[tail]
        <5>1. b = tail
          BY <2>1, <4>1, CanonIs DEF OneChain, WalkClears
        <5> QED
          BY <2>1, <5>1 DEF OneChain, WalkClears
      <4>2. CASE Height[b] # Height[tail]
        BY <2>1, <4>2 DEF OneChain, Fitting
      <4> QED
        BY <4>1, <4>2
    <3> QED
      BY <2>2, <3>1 DEF Fitting
  <2>4. OneEach'
    BY <2>1, <2>2 DEF OneChain, OneEach
  <2>5. WalkClears'
    <3>1. fresh # <<>>
      BY <2>1 DEF ListFits, TopsFit
    <3> QED
      BY <2>1, <2>2, <3>1 DEF OneChain, WalkClears
  <2>6. blocks' \in Seq(Canon')
    BY <2>1, <2>2, RebuiltIsCanonical
  <2> QED
    BY <1>1, <2>3, <2>4, <2>5, <2>6 DEF OneChain
<1>3. CASE SaveBlock
  <2>1. /\ pc = "save" /\ pc' = "push" /\ blocks' = blocks /\ block' = block
        /\ rows' = Saved(block, stale) /\ block \in Block /\ Height[block] \in Nat
        /\ pc \notin Walking /\ pc' \notin Walking /\ Replaced = {} /\ Replaced' = {}
    BY <1>3, TreeAssumption DEF SaveBlock, local, IInv, StoredFirst, Walking, Replaced
  <2>2. ~stale /\ \A b \in Rowed : Height[b] < Height[block]
    BY <2>1 DEF Linking, RoundFits, TableTop, Handling
  <2>3. rows[block] = "none"
    BY <2>1, <2>2 DEF Rowed
  <2>4. rows'[block] = "canonical" /\ \A c \in Block \ {block} : rows'[c] = rows[c]
    BY <1>1, <2>1, <2>2, <2>3 DEF Saved
  <2>5. Canon' = Canon \cup {block} /\ Rowed' = Rowed \cup {block}
    BY <2>1, <2>4 DEF Canon, Rowed
  <2>6. /\ \A h : CanonicalAt(h) \subseteq CanonicalAt(h)'
        /\ \A h : h # Height[block] => CanonicalAt(h)' = CanonicalAt(h)
        /\ block \in CanonicalAt(Height[block])'
    BY <2>1, <2>3, <2>4 DEF CanonicalAt
  <2>7. OneEach'
    <3>1. ASSUME NEW b \in Rowed' PROVE CanonicalAt(Height[b])' # {}
      BY <2>1, <2>5, <2>6 DEF OneChain, OneEach
    <3>2. ASSUME NEW b \in Canon', NEW c \in Canon', Height[b] = Height[c] PROVE b = c
      <4>1. CASE b \in Canon /\ c \in Canon
        BY <2>1, <3>2, <4>1 DEF OneChain, OneEach
      <4>2. CASE b = block \/ c = block
        <5>1. \A a \in Canon : Height[a] # Height[block]
          <6>1. \A a \in Canon : Height[a] < Height[block] /\ Height[a] \in Nat
            BY <2>2, CanonIs, TreeAssumption
          <6> QED
            BY <2>1, <6>1
        <5> QED
          BY <2>5, <3>2, <4>2, <5>1
      <4> QED
        BY <2>5, <4>1, <4>2
    <3> QED
      BY <3>1, <3>2 DEF OneEach
  <2>8. Fitting'
    <3>1. ASSUME NEW b \in Canon' PROVE CanonicalAt(Height[b] - 1)' \subseteq {Parent[b]}
      <4>1. CASE b = block
        <5>1. CanonicalAt(Height[block] - 1) \subseteq {Parent[block]}
          BY <2>1 DEF OneChain, WalkClears
        <5>2. Height[block] - 1 # Height[block]
          BY <2>1
        <5> QED
          BY <2>1, <2>6, <4>1, <5>1, <5>2
      <4>2. CASE b \in Canon
        <5>1. CanonicalAt(Height[b] - 1) \subseteq {Parent[b]}
          BY <2>1, <4>2 DEF OneChain, Fitting
        <5>2. Height[b] < Height[block] /\ Height[b] \in Nat
          BY <2>2, <4>2, CanonIs, TreeAssumption
        <5>3. Height[b] - 1 # Height[block]
          BY <2>1, <5>2
        <5> QED
          BY <2>6, <5>1, <5>3
      <4> QED
        BY <2>5, <4>1, <4>2
    <3> QED
      BY <3>1 DEF Fitting
  <2>9. blocks' \in Seq(Canon')
    <3>1. blocks \in Seq(Canon) /\ Canon \subseteq Canon'
      BY <2>1, <2>5 DEF OneChain
    <3> QED
      BY <2>1, <3>1, SeqMonotonic
  <2>10. WalkClears'
    BY <2>1 DEF WalkClears
  <2> QED
    BY <1>1, <2>7, <2>8, <2>9, <2>10 DEF OneChain
<1>4. CASE PushBlock
  <2>1. /\ pc = "push" /\ pc' = "loop" /\ blocks' = Latest(Append(blocks, block), CacheSize)
        /\ pc \notin Walking /\ pc' \notin Walking /\ Replaced = {} /\ Replaced' = {}
        /\ block \in Block /\ rows' = rows
    BY <1>4 DEF PushBlock, Walking, Replaced, IInv, StoredFirst, Rowed
  <2>2. Canon' = Canon /\ Rowed' = Rowed /\ \A h : CanonicalAt(h)' = CanonicalAt(h)
    BY <2>1 DEF Canon, Rowed, CanonicalAt
  <2>3. blocks \in Seq(Canon) /\ block \in Canon
    BY <2>1 DEF OneChain, Linking, TableTop, IsTop, Canon
  <2>4. Append(blocks, block) \in Seq(Canon)
    BY <2>3, AppendProperties
  <2>5. blocks' \in Seq(Canon')
    BY <2>1, <2>2, <2>4, LatestTyped, CacheSizeTyped
  <2>6. OneEach' /\ Fitting' /\ WalkClears'
    BY <2>1, <2>2 DEF OneChain, OneEach, Fitting, WalkClears
  <2> QED
    BY <1>1, <2>5, <2>6 DEF OneChain
<1> QED
  BY <1>2, <1>3, <1>4

\* Before the first fault and the first $validateChain().
Undisturbed == faults = 0 /\ check.runs = 0

\* Every step keeps the one chain until then.
LEMMA NextKeepsChain ==
  ASSUME IInv, ListFits, faults = 0 => Linking, Undisturbed => OneChain, [Next]_vars,
         IInv', Undisturbed'
  PROVE  OneChain'
<1>1. faults = 0 /\ ~Trouble /\ check.runs = 0 /\ ~Check
  <2>1. /\ faults \in Nat /\ check.runs \in Nat /\ faults' = 0 /\ check'.runs = 0
        /\ CheckIsRecord
    BY DEF Undisturbed, IInv, TypeOK
  <2>2. faults + 1 # 0 /\ check.runs + 1 # 0
    BY <2>1
  <2>3. ~Trouble
    BY <2>1, <2>2, Zenon DEF Trouble, Restart, Throw
  <2>4. ~StartCheck
    <3>1. StartCheck => check'.runs = check.runs + 1
      BY <2>1 DEF StartCheck, CheckIsRecord
    <3> QED
      BY <2>1, <2>2, <3>1
  <2>5. check'.runs = check.runs
    <3>1. CASE Check
      <4>1. CASE ReadRows
        BY <2>1, <4>1 DEF ReadRows, NoCheck, CheckIsRecord
      <4>2. CASE CheckHeight
        BY <2>1, <4>2 DEF CheckHeight, CheckIsRecord
      <4>3. CASE EndCheck
        BY <4>3 DEF EndCheck, NoCheck
      <4> QED
        BY <2>4, <3>1, <4>1, <4>2, <4>3 DEF Check
    <3>2. CASE check' = check
      BY <3>2
    <3>3. Check \/ check' = check
      BY <2>3 DEF Next, Node, Mine, Arrive, NodeRestarts, PoolChange, MainLoop, ReadMempool,
                  ReadTip, NextBlock, GetBlock, FindFork, IndexParent, SetCanonical, Walk,
                  Rebuild, SaveBlock, PushBlock, BlocksDone, Elsewhere, UpdateMempool,
                  ProtectionEnds, vars
    <3> QED
      BY <3>1, <3>2, <3>3
  <2>6. faults = 0
    <3>1. CASE \E b \in Block : Mine(b)
      <4>1. PICK b \in Block : Mine(b)
        BY <3>1
      <4>2. faults' \in {faults, faults + 1}
        BY <4>1 DEF Mine
      <4> QED
        BY <2>1, <2>2, <4>2
    <3>2. CASE \E found \in SUBSET Tx : UpdateMempool(found)
      <4>1. faults' \in {faults, faults + 1}
        BY <3>2 DEF UpdateMempool
      <4> QED
        BY <2>1, <2>2, <4>1
    <3>3. \/ \E b \in Block : Mine(b)
          \/ \E found \in SUBSET Tx : UpdateMempool(found)
          \/ UNCHANGED faults
      BY <2>3 DEF Next, Node, Arrive, NodeRestarts, PoolChange, MainLoop, ReadMempool, ReadTip,
                  NextBlock, GetBlock, FindFork, IndexParent, SetCanonical, Walk, Rebuild,
                  SaveBlock, PushBlock, BlocksDone, Elsewhere, ProtectionEnds, Check, StartCheck,
                  ReadRows, CheckHeight, EndCheck, CheckLeaves, vars
    <3> QED
      BY <2>1, <3>1, <3>2, <3>3
  <2>7. OneChain
    BY <2>1, <2>5, <2>6 DEF Undisturbed
  <2>8. ~Check
    BY <2>4, <2>7 DEF OneChain, Check, ReadRows, CheckHeight, EndCheck
  <2> QED
    BY <2>1, <2>3, <2>5, <2>6, <2>8
<1>2. Linking /\ OneChain
  BY <1>1 DEF Undisturbed
<1>3. CASE FindFork \/ Walk
  BY <1>2, <1>3, ForkKeepsChain
<1>4. CASE IndexParent
  BY <1>2, <1>4, IndexKeepsChain
<1>5. CASE SetCanonical
  BY <1>2, <1>5, SetKeepsChain
<1>6. CASE Rebuild \/ SaveBlock \/ PushBlock
  BY <1>2, <1>6, PushKeepsChain
<1>7. CASE \/ Node \/ ReadMempool \/ ReadTip \/ NextBlock \/ GetBlock \/ BlocksDone
           \/ \E found \in SUBSET Tx : UpdateMempool(found)
           \/ ProtectionEnds \/ UNCHANGED vars
  BY <1>2, <1>7, RoundKeepsChain
<1> QED
  BY <1>1, <1>3, <1>4, <1>5, <1>6, <1>7 DEF Next, MainLoop

\* An empty table has no two chains.
LEMMA InitKeepsChain == Init => OneChain
<1> SUFFICES ASSUME Init PROVE OneChain
  OBVIOUS
<1>1. /\ blocks = <<>> /\ pc = "idle" /\ check.at = "off"
      /\ rows = [b \in Block |-> "none"]
  BY DEF Init, NoCheck
<1>2. Canon = {} /\ Rowed = {}
  BY <1>1 DEF Canon, Rowed
<1>3. blocks \in Seq(Canon)
  BY <1>1, EmptySeq
<1> QED
  BY <1>1, <1>2, <1>3 DEF OneChain, OneEach, Fitting, WalkClears, Walking

\* The inductive invariant of the table: one canonical row where there is any, each linked to
\* the one below, but for the height that $handleReorgs() is at; the cache is part of it.
THEOREM OneChainFirst ==
  Spec => [](IInv /\ ListFits /\ (faults = 0 => Linking) /\ (Undisturbed => OneChain))
<1> DEFINE Inv == /\ IInv /\ ListFits
                  /\ faults = 0 => Linking
                  /\ Undisturbed => OneChain
<1>1. Init => Inv
  BY InitHolds, InitFits, InitLinks, InitKeepsChain
<1>2. Inv /\ [Next]_vars => Inv'
  BY NextKeeps, NextFits, NextLinks, NextKeepsChain
<1> QED
  BY <1>1, <1>2, PTL DEF Spec

\* TableFits: without faults and without $validateChain() the walk of $handleReorgs() leaves
\* one chain in the table, to which every cached block belongs, however deep the fork was.
THEOREM TableFitsHolds == Spec => []TableFits
<1>1. IInv /\ ListFits /\ (faults = 0 => Linking) /\ (Undisturbed => OneChain) => TableFits
  <2> SUFFICES ASSUME OneChain, pc \in {"idle", "tip", "loop", "mempool"}
               PROVE  CachedAreCanonical /\ TableLinked
    BY DEF Undisturbed, TableFits
  <2>1. pc \notin Walking /\ Replaced = {}
    BY DEF Walking, Replaced
  <2>2. ASSUME NEW i \in DOMAIN blocks PROVE CanonicalAt(Height[blocks[i]]) = {blocks[i]}
    <3>1. blocks[i] \in Canon
      <4>1. blocks \in Seq(Canon)
        BY <2>1 DEF OneChain
      <4> QED
        BY <4>1, LenProperties, ElementOfSeq
    <3>2. blocks[i] \in CanonicalAt(Height[blocks[i]])
      BY <3>1, CanonIs
    <3>3. \A c \in CanonicalAt(Height[blocks[i]]) : c = blocks[i]
      BY <2>1, <3>1, CanonIs DEF OneChain, OneEach
    <3> QED
      BY <3>2, <3>3
  <2>3. TableLinked
    BY <2>1 DEF OneChain, Fitting, Canon, TableLinked
  <2> QED
    BY <2>2, <2>3 DEF CachedAreCanonical
<1> QED
  BY <1>1, OneChainFirst, PTL

-----------------------------------------------------------------------------
(* Stale blocks: the theorem of ChainTips                                  *)

\* scan and job are records whose fields are left open.
TipRecords ==
  /\ scan = [at |-> scan.at, tips |-> scan.tips, heights |-> scan.heights, hash |-> scan.hash,
             found |-> scan.found]
  /\ job = [at |-> job.at, block |-> job.block]

\* What the node has: no block is above the tip, and with a block it has its parent.
MinedFits == \A b \in mined : Height[b] <= Height[tip] /\ Parent[b] \in mined \cup {None}

\* What is scanned, met or to be indexed are blocks of the node.
OfTheNode ==
  /\ seen \subseteq mined /\ queue \in Seq(mined) /\ job.block \in mined \cup {None}
  /\ scan.tips \subseteq mined /\ scan.hash \in mined \cup {None}

\* A scan holds the main loop up: before the first round, or before a block is pushed.
ScanHolds ==
  /\ scan.at = "boot" => pc = "idle"
  /\ scan.at = "scan" => pc = "idle" \/ ScanDue
  /\ scan.at # "scan" => scan.found = {}

\* The job has indexed a block before it stores it as a stale tip.
IndexedFirst == job.at = "store" => rows[job.block] # "none"

TipsInv ==
  /\ IInv /\ NoOrphanIsLost /\ IsFiniteSet(DOMAIN staleTips)
  /\ TipRecords /\ MinedFits /\ OfTheNode /\ ScanHolds /\ IndexedFirst

\* Rows are never deleted, the node forgets no block, and a fault stays one.
LEMMA NextAdds ==
  ASSUME IInv, MinedFits, [Next]_vars
  PROVE  /\ Rowed \subseteq Rowed' /\ mined \subseteq mined' /\ MinedFits'
         /\ faults' = 0 => faults = 0
<1>1. Rowed \subseteq Rowed'
  <2>1. rows \in [Block -> Statuses]
    BY DEF IInv, TypeOK
  <2>2. CASE rows' = rows
    BY <2>2 DEF Rowed
  <2>3. CASE IndexParent
    <3>1. Parent[tail] \in Block
      BY <2>3, TreeAssumption DEF IndexParent, IInv, StoredFirst
    <3>2. CASE rows[Parent[tail]] = "none"
      BY <2>1, <2>3, <3>1, <3>2, SavedKeeps DEF IndexParent, OnMainChain, Rowed
    <3>3. CASE rows[Parent[tail]] # "none"
      BY <2>3, <3>3 DEF IndexParent, Rowed
    <3> QED
      BY <3>2, <3>3
  <2>4. CASE SetCanonical
    BY <2>1, <2>4, CanonicalKeeps DEF SetCanonical, Rowed
  <2>5. CASE SaveBlock
    <3>1. block \in Block /\ stale \in BOOLEAN
      BY <2>5 DEF SaveBlock, IInv, TypeOK, StoredFirst
    <3> QED
      BY <2>1, <2>5, <3>1, SavedKeeps DEF SaveBlock, Rowed
  <2>6. CASE CheckHeight
    BY <2>1, <2>6, CanonicalKeeps DEF CheckHeight, Rowed
  <2>7. rows' = rows \/ IndexParent \/ SetCanonical \/ SaveBlock \/ CheckHeight
    BY DEF Next, Node, Mine, Arrive, NodeRestarts, PoolChange, MainLoop, ReadMempool, ReadTip,
           NextBlock, GetBlock, FindFork, Walk, Rebuild, PushBlock, BlocksDone, Elsewhere,
           UpdateMempool, ProtectionEnds, Trouble, Throw, Restart, Check, StartCheck, ReadRows,
           EndCheck, CheckLeaves, vars
  <2> QED
    BY <2>2, <2>3, <2>4, <2>5, <2>6, <2>7
<1>2. CASE \E b \in Block : Mine(b)
  <2>1. PICK b \in Block : Mine(b)
    BY <1>2
  <2>2. /\ mined' = mined \cup {b} /\ Parent[b] \in mined
        /\ faults' \in {faults, faults + 1} /\ faults \in Nat
        /\ tip' = IF Height[b] > Height[tip] THEN b ELSE tip
        /\ mined \subseteq Block /\ tip \in Block
    BY <2>1 DEF Mine, IInv, TypeOK
  <2>3. \A a \in Block : Height[a] \in Nat
    BY TreeAssumption
  <2>4. MinedFits'
    BY <2>2, <2>3 DEF MinedFits
  <2>5. faults' = 0 => faults = 0
    BY <2>2
  <2> QED
    BY <1>1, <2>2, <2>4, <2>5
<1>3. CASE mined' = mined /\ tip' = tip /\ faults' \in {faults, faults + 1}
  <2>1. faults \in Nat
    BY DEF IInv, TypeOK
  <2> QED
    BY <1>1, <1>3, <2>1 DEF MinedFits
<1>4. (\E b \in Block : Mine(b)) \/ (mined' = mined /\ tip' = tip /\ faults' \in {faults, faults + 1})
  BY DEF Next, Node, Arrive, NodeRestarts, PoolChange, MainLoop, ReadMempool, ReadTip,
         NextBlock, GetBlock, FindFork, IndexParent, SetCanonical, Walk, Rebuild, SaveBlock,
         PushBlock, BlocksDone, Elsewhere, UpdateMempool, ProtectionEnds, Trouble, Throw, Restart,
         Check, StartCheck, ReadRows, CheckHeight, EndCheck, CheckLeaves, vars, node
<1> QED
  BY <1>2, <1>3, <1>4

\* The background job changes rows but takes none away.
LEMMA RowsKeep ==
  ASSUME IInv, UNCHANGED <<node, faults, pc, local, cache, check>>,
         rows' \in [Block -> Statuses], \A c \in Rowed : rows'[c] # "none"
  PROVE  IInv' /\ Rowed \subseteq Rowed'
<1>1. Rowed \subseteq Rowed'
  BY DEF Rowed
<1>2. blocks' \in Seq(Rowed') /\ fresh' \in Seq(Rowed')
  BY <1>1, StoredStay DEF IInv, StoredFirst, local, cache
<1>3. StoredFirst'
  BY <1>1, <1>2 DEF IInv, StoredFirst, local, cache
<1> QED
  BY <1>1, <1>3 DEF IInv, TypeOK, CheckIsRecord, node, local, cache

\* A fault of the scan or the job is no step of ChainSync.
LEMMA FaultKeeps ==
  ASSUME IInv, Rare, faults' = faults + 1, UNCHANGED <<node, pc, local, cache, rows, check>>
  PROVE  IInv' /\ Rowed \subseteq Rowed' /\ faults' # 0
<1>1. faults' \in Nat /\ faults' + check.runs <= MaxRare /\ faults' # 0
  BY BoundsAssumption DEF IInv, TypeOK, Rare
<1>2. Rowed' = Rowed
  BY DEF Rowed
<1> QED
  BY <1>1, <1>2 DEF IInv, TypeOK, CheckIsRecord, StoredFirst, node, local, cache

\* What the invariant says of the scan, the job and the lists.
Lists ==
  /\ NoOrphanIsLost /\ IsFiniteSet(DOMAIN staleTips)
  /\ TipRecords /\ OfTheNode /\ ScanHolds /\ IndexedFirst

\* Steps of the main loop and the node that leave the lists alone.
LEMMA OtherwiseKeeps ==
  ASSUME TipsInv, Otherwise \/ UNCHANGED tvars, mined \subseteq mined', Rowed \subseteq Rowed',
         faults' = 0 => faults = 0
  PROVE  Lists'
<1>1. /\ seen' = seen /\ orphans' = orphans /\ staleTips' = staleTips /\ queue' = queue
      /\ job' = job /\ busy' = busy /\ scan' = scan
  BY DEF Otherwise, tipVars, tvars
<1>2. \A b \in Block : rows[b] # "none" => rows'[b] # "none"
  BY DEF Rowed
<1>3. seen \subseteq Block /\ (job.block \in Block \/ job.at = "none")
  BY DEF TipsInv, OfTheNode, NoOrphanIsLost, TipsTypeOK, IInv, TypeOK
<1>4. NoOrphanIsLost'
  BY <1>1, <1>2, <1>3 DEF TipsInv, NoOrphanIsLost, TipsTypeOK, NoneLost, OrphansAreMet
<1>5. OfTheNode'
  <2>1. queue \in Seq(mined')
    BY SeqMonotonic DEF TipsInv, OfTheNode
  <2> QED
    BY <1>1, <2>1 DEF TipsInv, OfTheNode
<1>6. ScanHolds'
  <2>1. \/ pc' = pc /\ current' = current /\ target' = target
        \/ scan.at = "off"
        \/ pc \notin {"idle", "push"}
    BY DEF Otherwise, Node, Mine, Arrive, NodeRestarts, PoolChange, ProtectionEnds, ReadMempool,
           ReadTip, NextBlock, GetBlock, FindFork, IndexParent, SetCanonical, Walk, SaveBlock,
           BlocksDone, UpdateMempool, Throw, tvars, vars, local, cache
  <2> QED
    BY <1>1, <2>1 DEF TipsInv, ScanHolds, ScanDue
<1>7. TipRecords' /\ IsFiniteSet(DOMAIN staleTips)' /\ IndexedFirst'
  BY <1>1, <1>2, <1>3 DEF TipsInv, TipRecords, IndexedFirst
<1> QED
  BY <1>4, <1>5, <1>6, <1>7 DEF Lists

\* $handleReorgs() forgets what it lists above the fork, in the background of the job.
LEMMA ClearKeeps ==
  ASSUME TipsInv, Rebuild, ClearAbove(Height[tail])
  PROVE  Lists'
<1>1. /\ seen' \subseteq seen /\ orphans' \subseteq orphans /\ orphans' \subseteq seen'
      /\ staleTips' = staleTips /\ queue' = queue /\ job' = job /\ busy' = busy /\ scan' = scan
      /\ rows' = rows /\ mined' = mined /\ faults' = faults /\ pc = "rebuild" /\ pc' = "save"
  BY DEF ClearAbove, Rebuild, Elsewhere, node, TipsInv, NoOrphanIsLost, OrphansAreMet
<1>2. scan.at \notin {"boot", "scan"} /\ scan.found = {}
  BY <1>1 DEF TipsInv, ScanHolds, ScanDue
<1>3. NoOrphanIsLost'
  BY <1>1, <1>2 DEF TipsInv, NoOrphanIsLost, TipsTypeOK, NoneLost, OrphansAreMet
<1>4. OfTheNode' /\ ScanHolds' /\ TipRecords' /\ IsFiniteSet(DOMAIN staleTips)' /\ IndexedFirst'
  BY <1>1, <1>2 DEF TipsInv, OfTheNode, ScanHolds, TipRecords, IndexedFirst
<1> QED
  BY <1>3, <1>4 DEF Lists

\* The block is pushed, or the process starts again.
LEMMA PushedKeeps ==
  ASSUME TipsInv, PushScanned \/ RestartTips
  PROVE  Lists'
<1>1. CASE PushScanned
  <2>1. /\ seen' = seen /\ orphans' = orphans /\ staleTips' = staleTips /\ queue' = queue
        /\ job' = job /\ busy' = busy /\ scan' = ScanAt("off")
        /\ rows' = rows /\ mined' = mined /\ faults' = faults
    BY <1>1 DEF PushScanned, PushBlock, Elsewhere, node
  <2>2. /\ scan'.at = "off" /\ scan'.tips = {} /\ scan'.hash = None /\ scan'.found = {}
        /\ scan' = [at |-> "off", tips |-> {}, heights |-> {}, hash |-> None, found |-> {}]
    BY <2>1 DEF ScanAt
  <2>3. NoOrphanIsLost'
    BY <2>1, <2>2 DEF TipsInv, NoOrphanIsLost, TipsTypeOK, NoneLost, OrphansAreMet
  <2>4. OfTheNode' /\ ScanHolds' /\ TipRecords' /\ IsFiniteSet(DOMAIN staleTips)' /\ IndexedFirst'
    BY <2>1, <2>2 DEF TipsInv, OfTheNode, ScanHolds, TipRecords, IndexedFirst
  <2> QED
    BY <2>3, <2>4 DEF Lists
<1>2. CASE RestartTips
  <2>1. /\ seen' = {} /\ orphans' = {} /\ staleTips' = [h \in {} |-> {}]
        /\ queue' = <<>> /\ job' = NoJob /\ busy' = FALSE /\ scan' = ScanAt("boot")
        /\ pc' = "idle"
    BY <1>2 DEF RestartTips, Restart, NewLoop
  <2>2. /\ scan'.at = "boot" /\ scan'.tips = {} /\ scan'.hash = None /\ scan'.found = {}
        /\ scan' = [at |-> "boot", tips |-> {}, heights |-> {}, hash |-> None, found |-> {}]
        /\ job'.at = "none" /\ job'.block = None /\ job' = [at |-> "none", block |-> None]
    BY <2>1 DEF ScanAt, NoJob
  <2>3. DOMAIN staleTips' = {} /\ IsFiniteSet({}) /\ Cardinality({}) = 0
    BY <2>1, FS_EmptySet
  <2>4. TipsTypeOK'
    <3>1. Cardinality(DOMAIN staleTips') <= MaxTips /\ DOMAIN staleTips' \subseteq Nat
      BY <2>3, MaxTipsAssumption
    <3>2. \A h \in DOMAIN staleTips' : staleTips'[h] \in [stale : Block, canonical : Block]
      BY <2>3
    <3>3. seen' \subseteq Block /\ orphans' \subseteq Block /\ queue' \in Seq(Block) /\ busy' \in BOOLEAN
      BY <2>1, EmptySeq
    <3> QED
      BY <2>2, <3>1, <3>2, <3>3 DEF TipsTypeOK
  <2>5. NoneLost' /\ OrphansAreMet'
    BY <2>1, <2>2 DEF NoneLost, OrphansAreMet
  <2>6. OfTheNode' /\ ScanHolds' /\ TipRecords' /\ IsFiniteSet(DOMAIN staleTips)' /\ IndexedFirst'
    BY <2>1, <2>2, <2>3, EmptySeq DEF OfTheNode, ScanHolds, TipRecords, IndexedFirst
  <2> QED
    BY <2>4, <2>5, <2>6 DEF Lists, NoOrphanIsLost
<1> QED
  BY <1>1, <1>2

\* A queue with one more entry, and one without its first.
LEMMA QueueAdds ==
  ASSUME NEW S, NEW q \in Seq(S), NEW b \in S
  PROVE  Append(q, b) \in Seq(S) /\ ToSet(Append(q, b)) = ToSet(q) \cup {b}
<1>1. /\ Append(q, b) \in Seq(S) /\ Len(q) \in Nat /\ DOMAIN q = 1..Len(q)
      /\ DOMAIN Append(q, b) = 1..Len(q) + 1
      /\ \A i \in 1..Len(q) : Append(q, b)[i] = q[i]
      /\ Append(q, b)[Len(q) + 1] = b
  <2>1. Append(q, b) \in Seq(S)
    BY AppendProperties
  <2> QED
    BY <2>1, AppendProperties, LenProperties
<1>2. 1..Len(q) + 1 = (1..Len(q)) \cup {Len(q) + 1}
  BY <1>1
<1> QED
  BY <1>1, <1>2 DEF ToSet

LEMMA QueueServes ==
  ASSUME NEW S, NEW q \in Seq(S), q # <<>>
  PROVE  Head(q) \in S /\ Tail(q) \in Seq(S) /\ ToSet(q) \subseteq {Head(q)} \cup ToSet(Tail(q))
<1>1. /\ Head(q) \in S /\ Tail(q) \in Seq(S) /\ Len(Tail(q)) = Len(q) - 1 /\ Head(q) = q[1]
      /\ \A i \in 1..Len(Tail(q)) : Tail(q)[i] = q[i + 1]
      /\ Len(q) \in Nat /\ DOMAIN q = 1..Len(q)
  BY HeadTailProperties, LenProperties
<1>2. DOMAIN Tail(q) = 1..Len(q) - 1
  BY <1>1, LenProperties
<1>3. ASSUME NEW i \in 1..Len(q) PROVE q[i] \in {Head(q)} \cup ToSet(Tail(q))
  <2>1. CASE i = 1
    BY <1>1, <2>1
  <2>2. CASE i # 1
    <3>1. i - 1 \in 1..Len(q) - 1 /\ (i - 1) + 1 = i
      BY <1>1, <2>2
    <3>2. Tail(q)[i - 1] = q[i]
      BY <1>1, <3>1
    <3> QED
      BY <1>2, <3>1, <3>2 DEF ToSet
  <2> QED
    BY <2>1, <2>2
<1> QED
  BY <1>1, <1>3 DEF ToSet

\* The scan meets one block after the other; what it meets is queued, and listed at its end.
LEMMA ScanKeeps ==
  ASSUME TipsInv, Scanning \/ ScanBreaks \/ ScanFails, faults' = 0 => faults = 0
  PROVE  Lists'
<1>1. /\ pc' = pc /\ rows' = rows /\ mined' = mined /\ job' = job
      /\ current' = current /\ target' = target
  BY DEF Scanning, StartScan, NextFork, WalkFork, ScanDone, ScanBreaks, ScanFails, EndScan, vars,
         node, local, cache
<1>2. IndexedFirst' /\ (ScanDue' <=> ScanDue)
  BY <1>1 DEF TipsInv, IndexedFirst, ScanDue
<1>3. /\ TipsTypeOK /\ NoneLost /\ OrphansAreMet /\ IsFiniteSet(DOMAIN staleTips)
      /\ TipRecords /\ OfTheNode /\ ScanHolds
  BY DEF TipsInv, NoOrphanIsLost
<1>4. CASE StartScan \/ (\E b \in Block : NextFork(b)) \/ ScanFails
  <2>1. /\ seen' = seen /\ orphans' = orphans /\ staleTips' = staleTips /\ queue' = queue
        /\ busy' = busy
    BY <1>4 DEF StartScan, NextFork, ScanFails
  <2>2. /\ scan'.at \in {"scan", "done", "off"} /\ scan'.found \subseteq scan.found
        /\ scan'.tips \subseteq mined /\ scan'.hash \in mined \cup {None}
        /\ scan' = [at |-> scan'.at, tips |-> scan'.tips, heights |-> scan'.heights,
                    hash |-> scan'.hash, found |-> scan'.found]
        /\ scan'.at = "scan" => pc = "idle" \/ ScanDue
        /\ scan'.at # "scan" => scan'.found = {}
    <3>1. CASE StartScan
      <4>1. /\ scan' = [at |-> "scan", tips |-> Forks, heights |-> {Height[b] : b \in Forks},
                        hash |-> None, found |-> {}]
            /\ scan.at = "boot" \/ ScanDue
        BY <3>1 DEF StartScan
      <4>2. Forks \subseteq mined
        BY DEF Forks
      <4> QED
        BY <1>3, <4>1, <4>2 DEF ScanHolds
    <3>2. ASSUME NEW b \in Block, NextFork(b)
          PROVE  /\ scan'.at = "scan" /\ scan'.found = scan.found /\ scan.at = "scan"
                 /\ scan'.tips \subseteq mined /\ scan'.hash \in mined
                 /\ scan' = [at |-> scan'.at, tips |-> scan'.tips, heights |-> scan'.heights,
                             hash |-> scan'.hash, found |-> scan'.found]
      <4>1. /\ scan' = [scan EXCEPT !.hash = b, !.tips = @ \ {b}] /\ scan.at = "scan"
            /\ b \in scan.tips
        BY <3>2 DEF NextFork
      <4>2. scan' = [at |-> scan.at, tips |-> scan.tips \ {b}, heights |-> scan.heights,
                     hash |-> b, found |-> scan.found]
        BY <1>3, <4>1 DEF TipRecords
      <4> QED
        BY <1>3, <4>1, <4>2 DEF OfTheNode
    <3>3. CASE ScanFails
      <4>1. PICK at \in {"done", "off"} :
              scan' = [at |-> at, tips |-> {}, heights |-> {}, hash |-> None, found |-> {}]
        BY <3>3 DEF ScanFails, ScanAt
      <4> QED
        BY <4>1
    <3> QED
      BY <1>3, <1>4, <3>1, <3>2, <3>3 DEF ScanHolds
  <2>3. TipsTypeOK' /\ OrphansAreMet'
    BY <1>1, <1>3, <2>1, <2>2 DEF TipsTypeOK, OrphansAreMet
  <2>4. NoneLost'
    BY <1>1, <1>3, <2>1 DEF NoneLost
  <2>5. TipRecords' /\ OfTheNode' /\ ScanHolds' /\ IsFiniteSet(DOMAIN staleTips)'
    BY <1>1, <1>2, <1>3, <2>1, <2>2 DEF TipRecords, OfTheNode, ScanHolds
  <2> QED
    BY <1>2, <2>3, <2>4, <2>5 DEF Lists, NoOrphanIsLost
<1>5. CASE WalkFork
  <2> DEFINE b == scan.hash
             new == b \notin seen /\ ~OnMainChain(b)
  <2>1. /\ scan.at = "scan" /\ b # None
        /\ seen' = IF new THEN seen \cup {b} ELSE seen
        /\ queue' = IF new THEN Append(queue, b) ELSE queue
        /\ scan' = IF b \in seen' THEN [scan EXCEPT !.hash = Parent[b], !.found = @ \cup {b}]
                   ELSE [scan EXCEPT !.hash = None]
        /\ orphans' = orphans /\ staleTips' = staleTips /\ busy' = busy /\ faults' = faults
    BY <1>5 DEF WalkFork, vars
  <2>2. /\ b \in mined /\ Parent[b] \in mined \cup {None} /\ mined \subseteq Block
        /\ queue \in Seq(mined) /\ seen \subseteq mined
    BY <1>3, <2>1 DEF TipsInv, OfTheNode, MinedFits, IInv, TypeOK
  <2> HIDE DEF b, new
  <2>3. /\ queue' \in Seq(mined) /\ seen' \subseteq mined /\ seen \subseteq seen'
        /\ ToSet(queue) \subseteq ToSet(queue')
        /\ \A x \in seen' : x \in seen \/ x \in ToSet(queue')
    BY <2>1, <2>2, QueueAdds
  <2>4. queue' \in Seq(Block) /\ seen' \subseteq Block
    BY <2>2, <2>3, SeqMonotonic
  <2>5. /\ scan'.at = "scan" /\ scan'.found \subseteq seen' /\ scan'.tips = scan.tips
        /\ scan'.hash \in mined \cup {None}
        /\ scan' = [at |-> scan'.at, tips |-> scan'.tips, heights |-> scan'.heights,
                    hash |-> scan'.hash, found |-> scan'.found]
    <3>1. scan.found \subseteq seen'
      BY <1>3, <2>3 DEF OrphansAreMet
    <3>2. CASE b \in seen'
      <4>1. scan' = [at |-> scan.at, tips |-> scan.tips, heights |-> scan.heights,
                     hash |-> Parent[b], found |-> scan.found \cup {b}]
        BY <1>3, <2>1, <3>2 DEF TipRecords
      <4> QED
        BY <2>1, <2>2, <3>1, <3>2, <4>1
    <3>3. CASE b \notin seen'
      <4>1. scan' = [at |-> scan.at, tips |-> scan.tips, heights |-> scan.heights,
                     hash |-> None, found |-> scan.found]
        BY <1>3, <2>1, <3>3 DEF TipRecords
      <4>2. /\ scan'.at = scan.at /\ scan'.tips = scan.tips /\ scan'.heights = scan.heights
            /\ scan'.hash = None /\ scan'.found = scan.found
        BY <4>1
      <4> QED
        BY <2>1, <3>1, <4>1, <4>2
    <3> QED
      BY <3>2, <3>3
  <2>6. OrphansAreMet' /\ NoneLost'
    <3>1. orphans' \subseteq seen'
      BY <1>3, <2>1, <2>3 DEF OrphansAreMet
    <3> QED
      BY <1>1, <1>3, <2>1, <2>3, <2>5, <3>1 DEF OrphansAreMet, NoneLost
  <2>7. TipsTypeOK'
    <3>1. scan'.found \subseteq Block
      BY <2>4, <2>5
    <3> QED
      BY <1>1, <1>3, <2>1, <2>4, <2>5, <3>1 DEF TipsTypeOK
  <2>8. TipRecords' /\ OfTheNode' /\ ScanHolds' /\ IsFiniteSet(DOMAIN staleTips)'
    BY <1>1, <1>2, <1>3, <2>1, <2>3, <2>5 DEF TipRecords, OfTheNode, ScanHolds
  <2> QED
    BY <1>2, <2>6, <2>7, <2>8 DEF Lists, NoOrphanIsLost
<1>6. CASE EndScan
  <2>1. /\ orphans' = scan.found /\ staleTips' = Restricted(scan.heights)
        /\ busy' = (busy \/ queue # <<>>) /\ seen' = seen /\ queue' = queue
    BY <1>6 DEF EndScan
  <2>2. PICK at \in {"done", "off"} :
          scan' = [at |-> at, tips |-> {}, heights |-> {}, hash |-> None, found |-> {}]
    BY <1>6 DEF EndScan, ScanAt
  <2>3. /\ DOMAIN staleTips' = DOMAIN staleTips \cap scan.heights
        /\ \A h \in DOMAIN staleTips' : staleTips'[h] = staleTips[h]
    BY <2>1 DEF Restricted
  <2>4. /\ IsFiniteSet(DOMAIN staleTips')
        /\ Cardinality(DOMAIN staleTips') <= Cardinality(DOMAIN staleTips)
    BY <1>3, <2>3, FS_Subset
  <2>5. Cardinality(DOMAIN staleTips') <= MaxTips
    <3>1. Cardinality(DOMAIN staleTips') \in Nat /\ Cardinality(DOMAIN staleTips) \in Nat
      BY <1>3, <2>4, FS_CardinalityType
    <3> QED
      BY <1>3, <2>4, <3>1, MaxTipsAssumption DEF TipsTypeOK
  <2>6. orphans' \subseteq seen /\ orphans' \subseteq Block
    BY <1>3, <2>1 DEF OrphansAreMet, TipsTypeOK
  <2>7. OrphansAreMet'
    BY <2>1, <2>2, <2>6 DEF OrphansAreMet
  <2>8. NoneLost'
    BY <1>1, <1>3, <2>1 DEF NoneLost
  <2>9. TipsTypeOK'
    <3>1. \A h \in DOMAIN staleTips' : staleTips'[h] \in [stale : Block, canonical : Block]
      BY <1>3, <2>3 DEF TipsTypeOK
    <3>2. DOMAIN staleTips' \subseteq Nat
      BY <1>3, <2>3 DEF TipsTypeOK
    <3>3. busy' \in BOOLEAN /\ (job'.at # "none" => busy')
      BY <1>1, <1>3, <2>1 DEF TipsTypeOK
    <3>4. scan'.at \in {"done", "off"} /\ scan'.found = {}
      BY <2>2
    <3> QED
      BY <1>1, <1>3, <2>1, <2>5, <2>6, <3>1, <3>2, <3>3, <3>4 DEF TipsTypeOK
  <2>10. TipRecords' /\ OfTheNode' /\ ScanHolds'
    BY <1>1, <1>3, <2>1, <2>2 DEF TipRecords, OfTheNode, ScanHolds
  <2> QED
    BY <1>2, <2>4, <2>7, <2>8, <2>9, <2>10 DEF Lists, NoOrphanIsLost
<1> QED
  BY <1>4, <1>5, <1>6 DEF Scanning, ScanDone, ScanBreaks

\* A block joins the job with the queue shortened, or leaves it.
LEMMA TakeKeeps ==
  ASSUME TipsInv, TakeOrphan
  PROVE  Lists'
<1>1. /\ job.at = "none" /\ queue # <<>> /\ busy
      /\ job' = [at |-> "index", block |-> Head(queue)] /\ queue' = Tail(queue)
      /\ seen' = seen /\ orphans' = orphans /\ staleTips' = staleTips /\ busy' = busy
      /\ scan' = scan /\ rows' = rows /\ mined' = mined /\ faults' = faults /\ pc' = pc
      /\ current' = current /\ target' = target
  BY DEF TakeOrphan, vars, node, local, cache
<1>2. /\ TipsTypeOK /\ NoneLost /\ OrphansAreMet /\ IsFiniteSet(DOMAIN staleTips)
      /\ TipRecords /\ OfTheNode /\ ScanHolds /\ IndexedFirst /\ mined \subseteq Block
  BY DEF TipsInv, NoOrphanIsLost, IInv, TypeOK
<1>3. /\ Head(queue) \in mined /\ Tail(queue) \in Seq(mined)
      /\ ToSet(queue) \subseteq {Head(queue)} \cup ToSet(Tail(queue))
  BY <1>1, <1>2, QueueServes DEF OfTheNode
<1>4. Tail(queue) \in Seq(Block) /\ Head(queue) \in Block /\ Head(queue) # None
  BY <1>2, <1>3, SeqMonotonic, TreeAssumption
<1>5. job'.at = "index" /\ job'.block = Head(queue)
  BY <1>1
<1>6. TipsTypeOK'
  BY <1>1, <1>2, <1>4, <1>5 DEF TipsTypeOK
<1>7. NoneLost'
  <2>1. seen \subseteq Block /\ job.block = None
    BY <1>1, <1>2 DEF TipsTypeOK
  <2> QED
    BY <1>1, <1>2, <1>3, <1>5, <2>1, TreeAssumption DEF NoneLost
<1>8. OrphansAreMet' /\ TipRecords' /\ OfTheNode' /\ IndexedFirst' /\ IsFiniteSet(DOMAIN staleTips)'
  BY <1>1, <1>2, <1>3, <1>5 DEF OrphansAreMet, TipRecords, OfTheNode, IndexedFirst
<1>9. ScanHolds'
  BY <1>1, <1>2 DEF ScanHolds, ScanDue
<1> QED
  BY <1>6, <1>7, <1>8, <1>9 DEF Lists, NoOrphanIsLost

\* Of any set of heights, the MaxTips highest are at most that many.
LEMMA HighestAreFew ==
  ASSUME NEW hs \in SUBSET Nat, IsFiniteSet(hs),
         NEW kept \in SUBSET hs, \A g \in kept : Cardinality({k \in hs : k > g}) < MaxTips
  PROVE  IsFiniteSet(kept) /\ Cardinality(kept) <= MaxTips
<1>1. IsFiniteSet(kept) /\ MaxTips \in Nat /\ MaxTips >= 1
  <2>1. MaxTips \in Nat /\ MaxTips >= 1
    BY MaxTipsAssumption
  <2>2. IsFiniteSet(kept)
    BY FS_Subset
  <2> QED
    BY <2>1, <2>2
<1>2. CASE kept = {}
  <2>1. Cardinality(kept) = 0
    BY <1>2, FS_EmptySet
  <2> QED
    BY <1>1, <2>1
<1>3. CASE kept # {}
  <2>1. PICK low \in kept : \A g \in kept : low <= g
    BY <1>3, LeastNumber
  <2> DEFINE above == {k \in hs : k > low}
  <2>2. Cardinality(above) < MaxTips /\ IsFiniteSet(above)
    BY <2>1, FS_Subset
  <2>3. kept \ {low} \subseteq above
    BY <2>1
  <2> HIDE DEF above
  <2>4. Cardinality(kept \ {low}) <= Cardinality(above)
    BY <2>2, <2>3, FS_Subset
  <2>5. IsFiniteSet(kept \ {low}) /\ Cardinality(kept \ {low}) = Cardinality(kept) - 1
    BY <1>1, <2>1, FS_RemoveElement
  <2>6. /\ Cardinality(kept) \in Nat /\ Cardinality(above) \in Nat
        /\ Cardinality(kept \ {low}) \in Nat
    BY <1>1, <2>2, <2>5, FS_CardinalityType
  <2> QED
    BY <1>1, <2>2, <2>4, <2>5, <2>6
<1> QED
  BY <1>2, <1>3

\* A stale tip more, and the lowest leaves if there are too many.
LEMMA TrimmedFits ==
  ASSUME NEW S, IsFiniteSet(DOMAIN staleTips), DOMAIN staleTips \subseteq Nat,
         \A h \in DOMAIN staleTips : staleTips[h] \in S, NEW n \in Nat, NEW e \in S,
         NEW tips, tips = Trimmed(WithTip(n, e))
  PROVE  /\ IsFiniteSet(DOMAIN tips) /\ DOMAIN tips \subseteq Nat
         /\ Cardinality(DOMAIN tips) <= MaxTips
         /\ \A h \in DOMAIN tips : tips[h] \in S
<1>1. PICK all : all = WithTip(n, e)
  OBVIOUS
<1>2. /\ DOMAIN all = {n} \cup DOMAIN staleTips
      /\ \A h \in DOMAIN all : all[h] \in S
  BY <1>1 DEF WithTip
<1>3. DOMAIN all \subseteq Nat /\ IsFiniteSet(DOMAIN all)
  BY <1>2, FS_AddElement
<1>4. tips = [h \in {g \in DOMAIN all : Cardinality({k \in DOMAIN all : k > g}) < MaxTips}
                |-> all[h]]
  BY <1>1 DEF Trimmed
<1>5. /\ DOMAIN tips = {g \in DOMAIN all : Cardinality({k \in DOMAIN all : k > g}) < MaxTips}
      /\ \A h \in DOMAIN tips : tips[h] = all[h]
  BY <1>4
<1>6. IsFiniteSet(DOMAIN tips) /\ Cardinality(DOMAIN tips) <= MaxTips
  BY <1>3, <1>5, HighestAreFew
<1> QED
  BY <1>2, <1>3, <1>5, <1>6

\* The entry is done; the queue waits for its turn.
LEMMA DoneKeeps ==
  ASSUME TipsInv, JobDone, IInv', Rowed \subseteq Rowed', faults' = 0 => faults = 0,
         job.block # None => rows'[job.block] # "none" \/ faults' # 0,
         mined' = mined /\ pc' = pc /\ current' = current /\ target' = target,
         seen' = seen /\ orphans' = orphans /\ queue' = queue /\ scan' = scan,
         IsFiniteSet(DOMAIN staleTips'), DOMAIN staleTips' \subseteq Nat,
         Cardinality(DOMAIN staleTips') <= MaxTips,
         \A h \in DOMAIN staleTips' : staleTips'[h] \in [stale : Block, canonical : Block]
  PROVE  Lists'
<1>1. /\ TipsTypeOK /\ NoneLost /\ OrphansAreMet /\ TipRecords /\ OfTheNode /\ ScanHolds
      /\ seen \subseteq Block
  BY DEF TipsInv, NoOrphanIsLost, TipsTypeOK
<1>2. /\ job'.at = "none" /\ job'.block = None /\ job' = [at |-> "none", block |-> None]
      /\ busy' \in BOOLEAN
  BY DEF JobDone, NoJob
<1>3. TipsTypeOK'
  BY <1>1, <1>2 DEF TipsTypeOK
<1>4. NoneLost'
  <2> SUFFICES ASSUME faults' = 0, NEW b \in seen
               PROVE  rows'[b] # "none" \/ b \in ToSet(queue)
    BY <1>2 DEF NoneLost
  <2>1. b \in Block /\ b # None
    BY <1>1, TreeAssumption
  <2>2. rows[b] # "none" \/ b \in ToSet(queue) \/ b = job.block
    BY <1>1 DEF NoneLost
  <2> QED
    BY <2>1, <2>2 DEF Rowed
<1>5. OrphansAreMet' /\ TipRecords' /\ OfTheNode' /\ IndexedFirst'
  BY <1>1, <1>2 DEF OrphansAreMet, TipRecords, OfTheNode, IndexedFirst
<1>6. ScanHolds'
  BY <1>1 DEF ScanHolds, ScanDue
<1> QED
  BY <1>3, <1>4, <1>5, <1>6 DEF Lists, NoOrphanIsLost

\* The entry gets its row before it is done, and before it becomes a stale tip.
LEMMA JobKeeps ==
  ASSUME TipsInv, IndexOrphan \/ StoreTip \/ OrphanFails
  PROVE  TipsInv'
<1>1. /\ mined' = mined /\ tip' = tip /\ pc' = pc /\ current' = current /\ target' = target
      /\ seen' = seen /\ orphans' = orphans /\ queue' = queue /\ scan' = scan
  BY DEF IndexOrphan, StoreTip, OrphanFails, node, local, cache
<1>2. /\ IInv /\ TipsTypeOK /\ NoneLost /\ OrphansAreMet /\ IsFiniteSet(DOMAIN staleTips)
      /\ TipRecords /\ OfTheNode /\ ScanHolds /\ IndexedFirst /\ MinedFits
      /\ rows \in [Block -> Statuses] /\ mined \subseteq Block /\ tip \in Block
      /\ seen \subseteq Block
  BY DEF TipsInv, NoOrphanIsLost, TipsTypeOK, IInv, TypeOK
<1>3. MinedFits'
  BY <1>1, <1>2 DEF MinedFits
<1>4. \/ /\ job.at # "none"
         /\ job.block \in mined /\ job.block \in Block
      \/ job.at = "none"
  BY <1>2 DEF TipsTypeOK, OfTheNode
<1>5. Lists' /\ IInv' => TipsInv'
  BY <1>3 DEF Lists, TipsInv
<1>6. CASE OrphanFails
  <2>1. /\ job.at # "none" /\ Rare /\ faults' = faults + 1 /\ JobDone /\ staleTips' = staleTips
        /\ UNCHANGED <<node, pc, local, cache, rows, check>>
    BY <1>6 DEF OrphanFails
  <2>2. IInv' /\ Rowed \subseteq Rowed' /\ faults' # 0
    BY <1>2, <2>1, FaultKeeps
  <2>3. Lists'
    BY <1>1, <1>2, <2>1, <2>2, DoneKeeps DEF TipsTypeOK
  <2> QED
    BY <1>5, <2>2, <2>3
<1>7. CASE IndexOrphan
  <2>1. /\ job.at = "index" /\ rows' = Saved(job.block, TRUE) /\ staleTips' = staleTips
        /\ UNCHANGED <<node, faults, pc, local, cache, check>> /\ faults' = faults
    BY <1>7 DEF IndexOrphan
  <2>2. /\ rows' \in [Block -> Statuses]
        /\ \A c \in Rowed \cup {job.block} : rows'[c] # "none"
    BY <1>2, <1>4, <2>1, SavedKeeps
  <2>3. IInv' /\ Rowed \subseteq Rowed'
    BY <1>2, <2>1, <2>2, RowsKeep
  <2>4. CASE JobDone
    <3>1. Lists'
      BY <1>1, <1>2, <2>1, <2>2, <2>3, <2>4, DoneKeeps DEF TipsTypeOK
    <3> QED
      BY <1>5, <2>3, <3>1
  <2>5. CASE job' = [job EXCEPT !.at = "store"] /\ busy' = busy
    <3>1. /\ job' = [at |-> "store", block |-> job.block] /\ job'.at = "store"
          /\ job'.block = job.block
      BY <1>2, <2>5 DEF TipRecords
    <3>2. TipsTypeOK'
      BY <1>1, <1>2, <2>1, <2>5, <3>1 DEF TipsTypeOK
    <3>3. NoneLost'
      <4>1. \A b \in Block : rows[b] # "none" => rows'[b] # "none"
        BY <2>3 DEF Rowed
      <4> QED
        BY <1>1, <1>2, <2>1, <3>1, <4>1 DEF NoneLost
    <3>4. /\ OrphansAreMet' /\ TipRecords' /\ OfTheNode' /\ IndexedFirst'
          /\ IsFiniteSet(DOMAIN staleTips)'
      BY <1>1, <1>2, <2>1, <2>2, <3>1 DEF OrphansAreMet, TipRecords, OfTheNode, IndexedFirst
    <3>5. ScanHolds'
      BY <1>1, <1>2 DEF ScanHolds, ScanDue
    <3> QED
      BY <1>5, <2>3, <3>2, <3>3, <3>4, <3>5 DEF Lists, NoOrphanIsLost
  <2> QED
    BY <1>7, <2>4, <2>5 DEF IndexOrphan
<1>8. CASE StoreTip
  <2> DEFINE h == Height[job.block]
  <2>1. /\ job.at = "store" /\ JobDone
        /\ UNCHANGED <<node, faults, pc, local, cache, check>> /\ faults' = faults
    BY <1>8 DEF StoreTip
  <2>2. job.block \in mined /\ job.block \in Block /\ h \in Nat /\ h <= Height[tip] /\ Height[Root] <= h
    BY <1>2, <1>4, <2>1, Heights DEF MinedFits
  <2>3. PICK row \in RowAt(h) :
          LET canonical == IF row = None THEN HashAt(h) ELSE row IN
          /\ rows' = IF rows[canonical] = "none" THEN Saved(canonical, FALSE) ELSE rows
          /\ staleTips' = Trimmed(WithTip(h, [stale |-> job.block, canonical |-> canonical]))
    BY <1>8 DEF StoreTip
  <2>4. PICK c \in Block :
          /\ rows' = IF rows[c] = "none" THEN Saved(c, FALSE) ELSE rows
          /\ staleTips' = Trimmed(WithTip(h, [stale |-> job.block, canonical |-> c]))
    <3>1. CASE row = None
      <4>1. HashAt(h) \in AtHeight(h)
        <5>1. \E a \in Ancestors[tip] : Height[a] = h
          BY <1>2, <2>2, AncestorAtHeight
        <5>2. AtHeight(h) # {}
          BY <5>1 DEF AtHeight
        <5> QED
          BY <5>2 DEF HashAt
      <4>2. HashAt(h) \in Block
        BY <1>2, <4>1, AncestorsAreLeast DEF AtHeight
      <4> QED
        BY <2>3, <3>1, <4>2
    <3>2. CASE row # None
      <4>1. row \in Block
        BY <3>2 DEF RowAt, CanonicalAt
      <4> QED
        BY <2>3, <3>2, <4>1
    <3> QED
      BY <3>1, <3>2
  <2>5. rows' \in [Block -> Statuses] /\ \A b \in Rowed : rows'[b] # "none"
    <3>1. CASE rows[c] = "none"
      BY <1>2, <2>4, <3>1, SavedKeeps
    <3>2. CASE rows[c] # "none"
      BY <1>2, <2>4, <3>2 DEF Rowed
    <3> QED
      BY <3>1, <3>2
  <2>6. IInv' /\ Rowed \subseteq Rowed'
    BY <1>2, <2>1, <2>5, RowsKeep
  <2>7. rows'[job.block] # "none"
    BY <1>2, <2>1, <2>2, <2>6 DEF IndexedFirst, Rowed
  <2>8. /\ IsFiniteSet(DOMAIN staleTips') /\ DOMAIN staleTips' \subseteq Nat
        /\ Cardinality(DOMAIN staleTips') <= MaxTips
        /\ \A g \in DOMAIN staleTips' : staleTips'[g] \in [stale : Block, canonical : Block]
    <3>1. [stale |-> job.block, canonical |-> c] \in [stale : Block, canonical : Block]
      BY <2>2
    <3>2. PICK n \in Nat : n = h
      BY <2>2
    <3>3. PICK e \in [stale : Block, canonical : Block] : e = [stale |-> job.block, canonical |-> c]
      BY <3>1
    <3>4. PICK tips : tips = staleTips'
      OBVIOUS
    <3>5. tips = Trimmed(WithTip(n, e))
      BY <2>4, <3>2, <3>3, <3>4
    <3>6. /\ IsFiniteSet(DOMAIN staleTips) /\ DOMAIN staleTips \subseteq Nat
          /\ \A g \in DOMAIN staleTips : staleTips[g] \in [stale : Block, canonical : Block]
      BY <1>2 DEF TipsTypeOK
    <3>7. /\ IsFiniteSet(DOMAIN tips) /\ DOMAIN tips \subseteq Nat
          /\ Cardinality(DOMAIN tips) <= MaxTips
          /\ \A g \in DOMAIN tips : tips[g] \in [stale : Block, canonical : Block]
      BY <3>5, <3>6, TrimmedFits
    <3> QED
      BY <3>4, <3>7
  <2>9. Lists'
    BY <1>1, <2>1, <2>6, <2>7, <2>8, DoneKeeps
  <2> QED
    BY <1>5, <2>6, <2>9
<1> QED
  BY <1>6, <1>7, <1>8

\* Every step keeps the invariant.
LEMMA TipsNext ==
  ASSUME TipsInv, [TNext]_tvars
  PROVE  TipsInv'
<1>1. IInv /\ MinedFits
  BY DEF TipsInv
<1>2. Lists' /\ IInv' /\ MinedFits' => TipsInv'
  BY DEF Lists, TipsInv
<1>3. ASSUME [Next]_vars, /\ Rowed \subseteq Rowed' /\ mined \subseteq mined'
                          /\ faults' = 0 => faults = 0
                          => Lists'
      PROVE  TipsInv'
  BY <1>1, <1>2, <1>3, NextKeeps, NextAdds
<1>4. CASE Otherwise \/ UNCHANGED tvars
  <2>1. [Next]_vars
    BY <1>4 DEF Otherwise, Next, MainLoop, Trouble, tvars
  <2> QED
    BY <1>3, <1>4, <2>1, OtherwiseKeeps
<1>5. CASE Rebuild /\ ClearAbove(Height[tail])
  <2>1. [Next]_vars
    BY <1>5 DEF Next, MainLoop
  <2> QED
    BY <1>3, <1>5, <2>1, ClearKeeps
<1>6. CASE PushScanned \/ RestartTips
  <2>1. [Next]_vars
    BY <1>6 DEF PushScanned, RestartTips, Next, MainLoop, Trouble
  <2> QED
    BY <1>3, <1>6, <2>1, PushedKeeps
<1>7. CASE Scanning
  <2>1. [Next]_vars
    BY <1>7 DEF Scanning, StartScan, NextFork, WalkFork, ScanDone
  <2> QED
    BY <1>3, <1>7, <2>1, ScanKeeps
<1>8. CASE ScanBreaks \/ ScanFails
  <2>1. /\ Rare /\ faults' = faults + 1 /\ UNCHANGED <<node, pc, local, cache, rows, check>>
        /\ mined' = mined /\ tip' = tip
    BY <1>8 DEF ScanBreaks, ScanFails, node
  <2>2. IInv' /\ faults' # 0
    BY <1>1, <2>1, FaultKeeps
  <2>3. MinedFits'
    BY <1>1, <2>1 DEF MinedFits
  <2> QED
    BY <1>2, <1>8, <2>2, <2>3, ScanKeeps
<1>9. CASE TakeOrphan
  <2>1. [Next]_vars
    BY <1>9 DEF TakeOrphan
  <2> QED
    BY <1>3, <1>9, <2>1, TakeKeeps
<1>10. CASE IndexOrphan \/ StoreTip \/ OrphanFails
  BY <1>10, JobKeeps
<1> QED
  BY <1>4, <1>5, <1>6, <1>7, <1>8, <1>9, <1>10 DEF TNext, Indexing

\* It holds at the start.
LEMMA TipsInit == TInit => TipsInv
<1> SUFFICES ASSUME TInit PROVE TipsInv
  OBVIOUS
<1>1. /\ seen = {} /\ orphans = {} /\ staleTips = [h \in {} |-> {}]
      /\ queue = <<>> /\ job = NoJob /\ busy = FALSE /\ scan = ScanAt("boot")
      /\ pc = "idle" /\ mined = {Root} /\ tip = Root /\ Init
  BY DEF TInit, Init
<1>2. /\ scan.at = "boot" /\ scan.tips = {} /\ scan.hash = None /\ scan.found = {}
      /\ scan = [at |-> "boot", tips |-> {}, heights |-> {}, hash |-> None, found |-> {}]
      /\ job.at = "none" /\ job.block = None /\ job = [at |-> "none", block |-> None]
  BY <1>1 DEF ScanAt, NoJob
<1>3. DOMAIN staleTips = {} /\ IsFiniteSet({}) /\ Cardinality({}) = 0
  BY <1>1, FS_EmptySet
<1>4. TipsTypeOK
  <2>1. Cardinality(DOMAIN staleTips) <= MaxTips /\ DOMAIN staleTips \subseteq Nat
    BY <1>3, MaxTipsAssumption
  <2>2. \A h \in DOMAIN staleTips : staleTips[h] \in [stale : Block, canonical : Block]
    BY <1>3
  <2>3. seen \subseteq Block /\ orphans \subseteq Block /\ queue \in Seq(Block) /\ busy \in BOOLEAN
    BY <1>1, EmptySeq
  <2> QED
    BY <1>2, <2>1, <2>2, <2>3 DEF TipsTypeOK
<1>5. NoneLost /\ OrphansAreMet
  BY <1>1, <1>2 DEF NoneLost, OrphansAreMet
<1>6. MinedFits
  BY <1>1, TreeAssumption DEF MinedFits
<1>7. OfTheNode /\ ScanHolds /\ TipRecords /\ IndexedFirst
  BY <1>1, <1>2, EmptySeq DEF OfTheNode, ScanHolds, TipRecords, IndexedFirst
<1> QED
  BY <1>1, <1>3, <1>4, <1>5, <1>6, <1>7, InitHolds DEF TipsInv, NoOrphanIsLost

\* The inductive invariant of the stale blocks: what is met, queued and indexed is known to
\* the node, a scan holds the main loop up, and the job stores a block after it indexed it.
THEOREM TipsFirst == TSpec => []TipsInv
<1> QED
  BY TipsInit, TipsNext, PTL DEF TSpec

\* NoOrphanIsLost: between the scans, the background job, reorganisations that clear the cache
\* of orphans and a cache of any size, no stale block is met and then forgotten.
THEOREM NoOrphanIsLostHolds == TSpec => []NoOrphanIsLost
<1>1. TipsInv => NoOrphanIsLost
  BY DEF TipsInv
<1> QED
  BY <1>1, TipsFirst, PTL
=============================================================================
