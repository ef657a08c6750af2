------------------------------ MODULE Linearize ------------------------------
(***************************************************************************)
(* The order of a cluster and its chunks                                   *)
(* (backend/src/cluster-mempool/linearize.ts): the search by merging and   *)
(* splitting chunks, spanningForestLinearize(), with its draws and the     *)
(* budget at which it stops, and what linearizeCluster() then does with    *)
(* the order found.                                                        *)
(*                                                                         *)
(* All the dependencies inside a chunk are active, and no others:          *)
(* activateInternalDeps() follows each merge, and a split deactivates what *)
(* crosses it.  Queues are drawn in an order and then served first in      *)
(* first out; here they are served in any order.  The budget may be spent  *)
(* after any step of the two loops that look at it.                        *)
(***************************************************************************)
EXTENDS Integers, FiniteSets, Sequences, SequencesExt

CONSTANTS
  Size,    \* the cluster has the transactions 1..Size
  Graphs,  \* the sets of dependencies <<parent, child>> it can have, connected and acyclic
  Rates,   \* the pairs <<effective fee, weight>> there are
  Order,   \* transaction -> its order, by which ties are broken
  Hints    \* the linearizations it can have had at first

VARIABLES
  deps,     \* the dependencies of the cluster
  rate,     \* transaction -> its pair of Rates
  given,    \* the linearization the cluster had
  stage,    \* "load", "merge", "optimize", "minimize", "done"
  hint,     \* of the given linearization, what has not been loaded
  dir,      \* the direction in which chunks merge first
  chunks,   \* the chunks of the search: [txs, todo]
  result    \* the chunks of the result, each a sequence of transactions

input == <<deps, rate, given>>
linearVars == <<input, stage, hint, dir, chunks, result>>

Txs == 1..Size

\* Some of any transactions spends none of the others.
Acyclic(G) == \A S \in (SUBSET Txs) \ {{}} : \E t \in S : \A u \in S : <<u, t>> \notin G

ASSUME LinearAssumption ==
  /\ Size \in Nat \ {0}
  /\ \A G \in Graphs : G \subseteq Txs \X Txs /\ Acyclic(G)
  /\ Rates \subseteq Int \X (Nat \ {0})
  /\ Order \in [Txs -> Nat] /\ \A t, u \in Txs : Order[t] = Order[u] => t = u
  /\ Hints \subseteq Seq(Txs)

-----------------------------------------------------------------------------
(* Feerates                                                                *)

\* The fees (k = 1) or weights (k = 2) of S, added up.
Sums(S, k) ==
  LET sum[i \in 0..Size] ==
        IF i = 0 THEN 0 ELSE sum[i - 1] + (IF i \in S THEN rate[i][k] ELSE 0)
  IN sum
Fee(S) == Sums(S, 1)[Size]
Weight(S) == Sums(S, 2)[Size]

\* higherFeerate()
Higher(S, T) == Fee(S) * Weight(T) > Fee(T) * Weight(S)
LastOrder(S) == CHOOSE n \in {Order[t] : t \in S} : \A t \in S : Order[t] <= n

Feeds(S, T) == \E e \in deps : e[1] \in S /\ e[2] \in T
Joins(D, S) ==
  \A T \in (SUBSET S) \ {{}, S} :
    \E e \in D : {e[1], e[2]} \subseteq S /\ (e[1] \in T) # (e[2] \in T)
Connected(S) == Joins(deps, S)

-----------------------------------------------------------------------------
(* The search                                                              *)

NotQueued == <<>>
Fresh == <<"fresh">>      \* queued
Merged == <<"merged">>    \* queued as the result of a merge

Chunk(S, todo) == [txs |-> S, todo |-> todo]
Queued(cs) == {Chunk(c.txs, Fresh) : c \in cs}
Quiet == \A c \in chunks : c.todo = NotQueued
Replace(old, new) == chunks' = (chunks \ old) \cup new

LinearInit ==
  /\ deps \in Graphs
  /\ rate \in [Txs -> Rates]
  /\ given \in Hints
  /\ stage = "load" /\ hint = given /\ dir = "up"
  /\ chunks = {Chunk({t}, NotQueued) : t \in Txs}
  /\ result = <<>>

\* pickMergeCandidateUp() and pickMergeCandidateDown(): of the parents with no higher
\* feerate one with the lowest, of the children with no lower one with the highest.
Up(c) ==
  LET open == {p \in chunks \ {c} : Feeds(p.txs, c.txs) /\ ~ Higher(p.txs, c.txs)}
  IN {p \in open : \A q \in open : ~ Higher(p.txs, q.txs)}
Down(c) ==
  LET open == {d \in chunks \ {c} : Feeds(c.txs, d.txs) /\ ~ Higher(c.txs, d.txs)}
  IN {d \in open : \A q \in open : ~ Higher(q.txs, d.txs)}

\* Seeded: the existing linearization does not matter.
FaultyLoad ==
  /\ stage = "load" /\ hint # <<>>
  /\ hint' = Tail(hint)
  /\ UNCHANGED <<input, stage, dir, chunks, result>>

\* The existing linearization: each transaction's chunk merges upwards.
Load ==
  /\ stage = "load" /\ hint # <<>>
  /\ \E c \in chunks :
       /\ Head(hint) \in c.txs
       /\ \/ /\ Up(c) = {}
             /\ hint' = Tail(hint) /\ UNCHANGED chunks
          \/ \E p \in Up(c) :
               Replace({c, p}, {Chunk(c.txs \cup p.txs, NotQueued)}) /\ UNCHANGED hint
  /\ UNCHANGED <<input, stage, dir, result>>

Loaded ==
  /\ stage = "load" /\ hint = <<>>
  /\ stage' = "merge" /\ chunks' = Queued(chunks) /\ dir' \in {"up", "down"}
  /\ UNCHANGED <<input, hint, result>>

\* makeTopological(): a chunk that comes from a merge looks both ways.
Candidates(c) ==
  (IF c.todo = Merged \/ dir = "up" THEN Up(c) ELSE {}) \cup
  (IF c.todo = Merged \/ dir = "down" THEN Down(c) ELSE {})

Merge ==
  /\ stage = "merge"
  /\ \E c \in {x \in chunks : x.todo # NotQueued} :
       \/ Candidates(c) = {} /\ Replace({c}, {Chunk(c.txs, NotQueued)})
       \/ \E d \in Candidates(c) : Replace({c, d}, {Chunk(c.txs \cup d.txs, Merged)})
  /\ UNCHANGED <<input, stage, hint, dir, result>>

MergeEnds ==
  /\ stage = "merge" /\ Quiet
  /\ stage' = "optimize" /\ chunks' = Queued(chunks) /\ dir' = "up"
  /\ UNCHANGED <<input, hint, result>>

\* computeDepTopSet(): the upper sides a chunk has when one dependency is cut that holds
\* it together.
Tops(S) ==
  {T \in (SUBSET S) \ {{}, S} :
     Cardinality({e \in deps : e[1] \in T /\ e[2] \in S \ T}) = 1 /\ ~ Feeds(S \ T, T)}

\* Seeded: the comparison is the wrong way round.
FaultyOptimize ==
  /\ stage = "optimize"
  /\ \E c \in {x \in chunks : x.todo # NotQueued} :
       LET better == {T \in Tops(c.txs) : Higher(c.txs, T)}
       IN \/ better = {} /\ Replace({c}, {Chunk(c.txs, NotQueued)})
          \/ \E T \in better : Replace({c}, {Chunk(T, Fresh), Chunk(c.txs \ T, Fresh)})
  /\ UNCHANGED <<input, stage, hint, dir, result>>

\* pickDependencyToSplit() and splitAndMerge().  (The latter takes the dependency that
\* was cut for one that needs a merge of the two again, then looks for one in the other
\* direction, of which there is none: nothing merges.)
Optimize ==
  /\ stage = "optimize"
  /\ \E c \in {x \in chunks : x.todo # NotQueued} :
       LET better == {T \in Tops(c.txs) : Higher(T, c.txs)}
       IN \/ better = {} /\ Replace({c}, {Chunk(c.txs, NotQueued)})
          \/ \E T \in better : Replace({c}, {Chunk(T, Fresh), Chunk(c.txs \ T, Fresh)})
  /\ UNCHANGED <<input, stage, hint, dir, result>>

OptimizeEnds ==
  /\ stage = "optimize" /\ Quiet
  /\ stage' = "minimize" /\ chunks' = Queued(chunks)
  /\ UNCHANGED <<input, hint, dir, result>>

\* minimizeChunkStep() of a chunk with a pivot: a cut between equal feerates.
Minimized(c, m) ==
  LET pivot == m[1]  down == m[2]  second == m[3]
      equal == {T \in Tops(c.txs) : ~ Higher(T, c.txs) /\ ~ Higher(c.txs, T)}
      aside == {T \in equal : down # (pivot \in T)}
      again == IF equal = {} \/ second THEN NotQueued ELSE <<pivot, ~ down, TRUE>>
  IN \/ aside = {} /\ Replace({c}, {Chunk(c.txs, again)})
     \/ \E T \in aside :
          Replace({c}, {Chunk(T, IF down THEN Fresh ELSE m),
                        Chunk(c.txs \ T, IF down THEN m ELSE Fresh)})

Minimize ==
  /\ stage = "minimize"
  /\ \E c \in {x \in chunks : x.todo # NotQueued} :
       IF c.todo = Fresh
       THEN \E t \in c.txs, way \in BOOLEAN : Minimized(c, <<t, way, FALSE>>)
       ELSE Minimized(c, c.todo)
  /\ UNCHANGED <<input, stage, hint, dir, result>>

-----------------------------------------------------------------------------
(* From the chunks to the linearization                                    *)

\* before and less are sets of pairs.  What has nothing of T before it, and the first of that.
Ready(T, before) == {x \in T : \A y \in T \ {x} : <<y, x>> \notin before}
First(T, before, less) ==
  CHOOSE x \in Ready(T, before) : \A y \in Ready(T, before) \ {x} : <<x, y>> \in less

\* What is left of S after each turn; a circle stays.
Left(S, before, less) ==
  LET left[i \in 0..Cardinality(S)] ==
        IF i = 0 THEN S
        ELSE LET T == left[i - 1]
             IN IF Ready(T, before) = {} THEN T ELSE T \ {First(T, before, less)}
  IN left

\* The elements of S, again and again the first of those with nothing before them.
Drained(S, before, less) ==
  LET left == Left(S, before, less)
  IN [i \in 1..(Cardinality(S) - Cardinality(left[Cardinality(S)])) |->
        First(left[i - 1], before, less)]

\* chunkCmp() and txCmp().
Earlier(S, T) ==
  \/ Higher(S, T)
  \/ /\ ~ Higher(T, S)
     /\ \/ Weight(S) > Weight(T)
        \/ Weight(S) = Weight(T) /\ LastOrder(S) < LastOrder(T)

\* extractLinearization()
Extracted ==
  LET txLess == {e \in Txs \X Txs : Earlier({e[1]}, {e[2]})}
      pairs == {<<c.txs, d.txs>> : c \in chunks, d \in chunks}
      sets == Drained({c.txs : c \in chunks}, {e \in pairs : Feeds(e[1], e[2])},
                      {e \in pairs : Earlier(e[1], e[2])})
  IN FlattenSeq([i \in DOMAIN sets |-> Drained(sets[i], deps, txLess)])

\* mergeGroupIntoCurrent() and the merge in chunkify(): group k joins the one before it.
Combined(groups, k) ==
  [i \in 1..(Len(groups) - 1) |->
     IF i < k - 1 THEN groups[i]
     ELSE IF i = k - 1 THEN groups[i] \o groups[k] ELSE groups[i + 1]]

\* Group s.at joins the one it depends on, moves up past one with a lower feerate, or
\* stays; backwards it is the other way round.
MovedUp(s, forward) ==
  LET k == s.at
      cur == ToSet(s.groups[k])
      prev == ToSet(s.groups[k - 1])
      tied == IF forward THEN Feeds(prev, cur) ELSE Feeds(cur, prev)
      ahead == IF forward THEN Higher(cur, prev) ELSE Higher(prev, cur)
  IN IF k <= 1 THEN s
     ELSE IF tied THEN [groups |-> Combined(s.groups, k), at |-> k - 1]
     ELSE IF ahead
       THEN [groups |-> [s.groups EXCEPT ![k] = s.groups[k - 1], ![k - 1] = s.groups[k]],
             at |-> k - 1]
     ELSE [s EXCEPT !.at = 0]

\* The loop of the last group.
Moves(groups, forward) ==
  LET state[i \in 0..Len(groups)] ==
        IF i = 0 THEN [groups |-> groups, at |-> Len(groups)]
        ELSE MovedUp(state[i - 1], forward)
  IN state
Settled(groups, forward) == Moves(groups, forward)[Len(groups)].groups

\* The groups of the first transactions of a list.
Grouped(lin, forward) ==
  LET groups[i \in 0..Len(lin)] ==
        IF i = 0 THEN <<>> ELSE Settled(Append(groups[i - 1], <<lin[i]>>), forward)
  IN groups

\* postLinearizePass()
PostLinearizePass(lin, forward) ==
  LET turned == IF forward THEN lin ELSE Reverse(lin)
      flat == FlattenSeq(Grouped(turned, forward)[Len(lin)])
  IN IF forward THEN flat ELSE Reverse(flat)

PostLinearize(lin) == PostLinearizePass(PostLinearizePass(lin, TRUE), FALSE)

\* The loop of chunkify(): the last chunk joins the one before it while its feerate is higher.
Absorbs(cs) == Len(cs) >= 2 /\ Higher(ToSet(cs[Len(cs)]), ToSet(cs[Len(cs) - 1]))
Absorb(cs) == IF Absorbs(cs) THEN Combined(cs, Len(cs)) ELSE cs
Absorptions(cs) ==
  LET state[i \in 0..Len(cs)] == IF i = 0 THEN cs ELSE Absorb(state[i - 1])
  IN state
Absorbed(cs) == Absorptions(cs)[Len(cs)]

\* chunkify(), after each transaction.
Chunked(lin) ==
  LET made[i \in 0..Len(lin)] ==
        IF i = 0 THEN <<>> ELSE Absorbed(Append(made[i - 1], <<lin[i]>>))
  IN made
Chunkify(lin) == Chunked(lin)[Len(lin)]

\* The parts of S that no dependency connects, each in one piece.
Parts(S) ==
  {C \in (SUBSET S) \ {{}} : Connected(C) /\ ~ Feeds(C, S \ C) /\ ~ Feeds(S \ C, C)}

\* splitChunkByComponents(): by feerate, then by where they begin; each in its old order.
Pieces(chunk) ==
  LET S == ToSet(chunk)
      At(t) == CHOOSE i \in DOMAIN chunk : chunk[i] = t
      inOrder == {e \in S \X S : At(e[1]) < At(e[2])}
      Begins(C, D) == \E t \in C : \A u \in D : <<t, u>> \in inOrder
      whole == Parts(S)
      sets == Drained(whole, {}, {e \in whole \X whole :
                Higher(e[1], e[2]) \/ (~ Higher(e[2], e[1]) /\ Begins(e[1], e[2]))})
  IN [i \in DOMAIN sets |-> Drained(sets[i], {}, inOrder)]

\* canonicalChunkCmp() of the chunks at two places.
Sooner(cs, i, j) ==
  LET S == ToSet(cs[i])  T == ToSet(cs[j])
  IN \/ Higher(S, T)
     \/ /\ ~ Higher(T, S)
        /\ \/ Weight(S) < Weight(T)
           \/ Weight(S) = Weight(T) /\ LastOrder(S) < LastOrder(T)

\* Seeded: chunks are sorted, whatever they depend on.
FaultyCanonical(cs) ==
  LET D == DOMAIN cs
      places == Drained(D, {}, {e \in D \X D : Sooner(cs, e[1], e[2])})
  IN [i \in DOMAIN places |-> cs[places[i]]]

\* canonicalizeChunkOrder()
Canonical(cs) ==
  LET D == DOMAIN cs
      places == Drained(D, {e \in D \X D : Feeds(ToSet(cs[e[1]]), ToSet(cs[e[2]]))},
                        {e \in D \X D : Sooner(cs, e[1], e[2])})
  IN [i \in DOMAIN places |-> cs[places[i]]]

\* linearizeCluster()
Linearized ==
  LET cs == Chunkify(PostLinearize(Extracted))
      split == FlattenSeq([i \in DOMAIN cs |-> FlattenSeq(Pieces(cs[i]))])
  IN Canonical(Chunkify(split))

\* Nothing is left to do, or the budget is spent.
Finish ==
  /\ stage \in {"optimize", "minimize"}
  /\ stage' = "done"
  /\ result' = Linearized
  /\ UNCHANGED <<input, hint, dir, chunks>>

\* The cluster is linearized again, with what it has: an acceleration began or ended, or a
\* transaction joined and left since (processAccelerationChanges(),
\* relinearizeDirtyClusters()).
Relinearize ==
  /\ stage = "done"
  /\ \E t \in Txs, r \in Rates :
       r[2] = rate[t][2] /\ rate' = [rate EXCEPT ![t] = r]
  /\ given' = FlattenSeq(result) /\ hint' = given'
  /\ stage' = "load" /\ dir' = "up" /\ result' = <<>>
  /\ chunks' = {Chunk({t}, NotQueued) : t \in Txs}
  /\ UNCHANGED deps

LinearNext ==
  \/ Load \/ Loaded \/ Merge \/ MergeEnds
  \/ Optimize \/ OptimizeEnds \/ Minimize
  \/ Finish \/ Relinearize

LinearSpec == LinearInit /\ [][LinearNext]_linearVars

-----------------------------------------------------------------------------
(* Properties                                                              *)

\* The chunks of the search partition the cluster, and dependencies hold each together:
\* a split cuts one that does (SFLChunk and txToChunk, initSFLChunks()).
LinearTypeOK ==
  /\ UNION {c.txs : c \in chunks} = Txs
  /\ \A c, d \in chunks : c # d => c.txs \cap d.txs = {}
  /\ \A c \in chunks : c.txs # {} /\ Connected(c.txs)

\* After makeTopological() a chunk only depends on chunks with a higher feerate, whatever
\* the order in which the chunks were taken and the directions drawn.
Topological ==
  stage = "merge" /\ Quiet =>
    \A c, d \in chunks : c # d /\ Feeds(c.txs, d.txs) => Higher(c.txs, d.txs)

IsLinear(lin) ==
  /\ Len(lin) = Size /\ ToSet(lin) = Txs
  /\ \A i, j \in DOMAIN lin : <<lin[i], lin[j]>> \in deps => i < j

\* linearizeCluster() returns every transaction once and parents first, in chunks of
\* falling feerates (backend/src/__tests__/cluster-mempool/test-utils.ts:155,
\* verifyLinearization()).
ResultValid ==
  stage = "done" =>
    /\ IsLinear(FlattenSeq(result))
    /\ \A i \in 2..Len(result) : ~ Higher(ToSet(result[i]), ToSet(result[i - 1]))

\* The chunks are sound at every stage of the search, and so is the order that is made of
\* them, wherever the budget stopped it (spanningForestLinearize(), linearizeCluster()).
Valid == LinearTypeOK /\ Topological /\ ResultValid

\* The first transactions of a given weight bring a fee at least.
Sets(cs, n) == UNION {ToSet(cs[i]) : i \in 1..n}
Brings(cs, weight, fee) ==
  \E n \in DOMAIN cs :
    LET before == Sets(cs, n - 1)  C == ToSet(cs[n])
    IN /\ Weight(before) <= weight /\ weight <= Weight(before) + Weight(C)
       /\ Fee(before) * Weight(C) + Fee(C) * (weight - Weight(before)) >= fee * Weight(C)

\* The feerate diagram of one list of chunks is nowhere below that of another.
NotBelow(cs, ds) ==
  \A n \in DOMAIN ds : Brings(cs, Weight(Sets(ds, n)), Fee(Sets(ds, n)))

\* A linearization the cluster had is never made worse, however early the budget ends the
\* search (spanningForestLinearize() loads it first for that).
KeepsGood ==
  stage = "done" /\ IsLinear(given) => NotBelow(result, Chunkify(given))

\* A search that found nothing left to do has the best linearization there is, although
\* splits merge nothing back (splitAndMerge()).
QuietOptimal ==
  stage = "done" /\ Quiet =>
    \A o \in {l \in [Txs -> Txs] : IsLinear(l)} : NotBelow(result, Chunkify(o))
=============================================================================
