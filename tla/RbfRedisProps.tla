---------------------------- MODULE RbfRedisProps ----------------------------
(* What the Redis mirror of the RBF cache promises.                         *)
EXTENDS RbfRedis

\* No event waits to be replayed or flushed.
Replayed ==
  /\ phase = "running" /\ ~ updating /\ cacheQueue = <<>>
  /\ rbfCacheQueue = <<>> /\ rbfRemoveQueue = <<>> /\ flushing.step = "idle"

\* What has gone wrong so far.
NoFaults == \A kind \in Kinds : failures[kind] = 0
OnlyCrashes == \A kind \in Kinds \ {"crash"} : failures[kind] = 0

\* The five documented invariants of the maps and trees.
Documented == Symmetry /\ UniqueId /\ UniqueTree /\ Existence /\ Completeness

\* The store is kept up to date "by replaying queued events" (rbf-cache.ts line 377):
\* without faults it is exact once all have been replayed, although values are read when an
\* event is replayed and the cleanup timer runs in between, and the tables stay in step.
Mirrored ==
  NoFaults =>
    /\ Documented
    /\ Replayed => saved = [txs |-> txs, trees |-> rbfTrees, expiring |-> expiring]

\* The store holds what memory holds, but for deadlines that may be left over and for the
\* flags that checkTrees() sets.
Same ==
  /\ saved.txs = txs
  /\ DOMAIN saved.trees = DOMAIN rbfTrees
  /\ \A r \in DOMAIN rbfTrees : saved.trees[r].replaces = rbfTrees[r].replaces

\* No transaction is in two of the loaded trees.
Disjoint ==
  \A r, q \in DOMAIN rbfTrees : Nodes(rbfTrees[r]) \cap Nodes(rbfTrees[q]) # {} => r = q

\* ... and treeMap finds every tree, under its root.
Partitioned == Disjoint /\ UniqueId /\ Existence

\* No entry waits for cleanup().
NothingDue == \A t \in DOMAIN expiring : expiring[t] # 0

\* What memory holds is in the store.
NothingMissing ==
  /\ txs \subseteq saved.txs
  /\ DOMAIN expiring \subseteq DOMAIN saved.expiring
  /\ \A r \in DOMAIN rbfTrees :
       r \in DOMAIN saved.trees /\ saved.trees[r].replaces = rbfTrees[r].replaces

\* The successor of a process that died between any two commands finds a store that load()
\* makes sound tables of, because a tree is stored after its transactions and removed after
\* its root and before the others, and whose leftovers load() removes.
CrashesMend == OnlyCrashes => Documented /\ (Replayed => Same)

\* Crashes mend.  Whatever stale trees lost commands, failed reads and starts without a
\* connection leave behind, load() never puts a transaction in two trees or loses a tree; and
\* while no entry expires one outage, also between two reads of a start, loses nothing: the
\* offline queues, once flushed, have stored it, however the flush interleaves with updates
\* and crashes.  (A second one, or a failed read that makes load() remove stored trees, may
\* put the removal of a stale tree after its return.)
FaultsMend ==
  /\ CrashesMend
  /\ Partitioned
  /\ Replayed /\ failures.lost = 0 /\ failures.unread = 0 /\ failures.down <= 1 => NothingMissing

\* A load() whose three reads succeed forgets no replacement that some stored tree of a
\* stored root records, even after a failed command.  (Two, a process that could not read
\* the trees, or the offline queues, which reorder the writes, can leave trees that
\* contradict each other.  One that could not read the transactions removes every tree.)
LoadKeepsStored ==
  [][failures'.crash > failures.crash
       /\ failures.lost <= 1 /\ failures.down = 0 /\ failures.unread = 0 =>
       \A r \in DOMAIN saved.trees \cap saved.txs : \A p \in Nodes(saved.trees[r]) :
         saved.trees[r].replaces[p] \cap saved.txs \subseteq DOMAIN replacedBy']_rvars

-----------------------------------------------------------------------------
(* The inductive invariant behind the theorem of RbfCacheProofs on Mirrored. *)

Events == [op : {"add", "remove"}, type : Types, txid : Tx, value : 0..ExpiryTicks]

About(e, type, t) == e.type = type /\ e.txid = t

\* The store has the same under a key as memory.
InStep(type, t) ==
  /\ type = "tx" => (t \in saved.txs <=> t \in txs)
  /\ type = "tree" =>
       /\ t \in DOMAIN saved.trees <=> t \in DOMAIN rbfTrees
       /\ t \in DOMAIN rbfTrees => saved.trees[t] = rbfTrees[t]
  /\ type = "exp" =>
       /\ t \in DOMAIN saved.expiring <=> t \in DOMAIN expiring
       /\ t \in DOMAIN expiring => saved.expiring[t] = expiring[t]

\* Replaying the event leaves its key as it is in memory.
Meant(e) ==
  /\ e.type = "tx" => (e.op = "add" <=> e.txid \in txs)
  /\ e.type = "tree" => (e.op = "add" <=> e.txid \in DOMAIN rbfTrees)
  /\ e.type = "exp" =>
       /\ e.op = "add" <=> e.txid \in DOMAIN expiring
       /\ e.op = "add" => e.value = expiring[e.txid]

\* A key without a waiting event is in step, and the last event about a key is meant.
CaughtUp ==
  LET q == cacheQueue
  IN /\ \A type \in Types, t \in Tx :
          (\A i \in DOMAIN q : ~ About(q[i], type, t)) => InStep(type, t)
     /\ \A i \in DOMAIN q :
          (\A j \in DOMAIN q : j > i => ~ About(q[j], q[i].type, q[i].txid)) => Meant(q[i])

\* The state of a process that has met no fault.
WellKept ==
  /\ Intact /\ IsSnapshot(saved)
  /\ rbfTrees = [r \in DOMAIN rbfTrees |-> rbfTrees[r]]
  /\ saved.trees = [r \in DOMAIN saved.trees |-> saved.trees[r]]
  /\ phase = "running" /\ connected
  /\ rbfCacheQueue = <<>> /\ rbfRemoveQueue = <<>>
  /\ flushing = [step |-> "idle", todo |-> <<>>]
  /\ cacheQueue \in Seq(Events)
  /\ CaughtUp

MirrorInv == failures \in [Kinds -> Nat] /\ (NoFaults => WellKept)

-----------------------------------------------------------------------------
(* The inductive invariant behind the theorem of RbfCacheProofs on any faults. *)

\* A tree as a walk from its root can have built it.
Whole(r, tree) ==
  /\ r \in Nodes(tree) /\ Nodes(tree) \subseteq Tx
  /\ \A p \in Nodes(tree) : tree.replaces[p] \subseteq Nodes(tree)

AllWhole(trees) == \A r \in DOMAIN trees : Whole(r, trees[r])

\* Every cached transaction with a tree is in that tree and in no other.
Partition(trees, map, have) ==
  /\ AllWhole(trees)
  /\ DOMAIN map \subseteq have
  /\ \A x \in DOMAIN map : map[x] \in DOMAIN trees /\ x \in Nodes(trees[map[x]])
  /\ \A r \in DOMAIN trees : \A x \in Nodes(trees[r]) : x \in DOMAIN map /\ map[x] = r

\* A list of entries to set, each with a whole tree or no tree.
Settable(q) ==
  /\ q \in Seq(ToSet(q))
  /\ \A i \in DOMAIN q : q[i].type = "tree" => Whole(q[i].txid, q[i].value)

\* Memory is partitioned, and everything that is or will be in the store is whole.
Tidy ==
  /\ Partition(rbfTrees, treeMap, txs)
  /\ AllWhole(saved.trees)
  /\ Settable(rbfCacheQueue)
  /\ flushing = [step |-> flushing.step, todo |-> flushing.todo]
  /\ flushing.step = "set" => Settable(flushing.todo)
-----------------------------------------------------------------------------
(* The inductive invariant behind the theorem of RbfCacheProofs on crashes. *)

\* No transaction is back while its removal waits to be replayed.
NoneReturns ==
  \A i \in DOMAIN cacheQueue :
    cacheQueue[i].op = "remove" /\ cacheQueue[i].type = "tx" => cacheQueue[i].txid \notin txs

Is(e, op, type, t) == e.op = op /\ e.type = type /\ e.txid = t

\* Such an event comes before the i-th one.
Earlier(q, i, op, type, t) == \E j \in DOMAIN q : j < i /\ Is(q[j], op, type, t)

\* The roots of the trees that load() would take over, and those trees.
Live == DOMAIN saved.trees \cap saved.txs
LiveTrees == [r \in Live |-> saved.trees[r]]

\* What load() finds is whole.
Loadable ==
  /\ Separate(LiveTrees)
  /\ \A r \in Live : Nodes(saved.trees[r]) \subseteq saved.txs

\* The store has the transaction, or a tree of this shape, exactly if memory has.
Alike(type, t) ==
  /\ type = "tx" => (t \in saved.txs <=> t \in txs)
  /\ type = "tree" =>
       /\ t \in DOMAIN saved.trees <=> t \in DOMAIN rbfTrees
       /\ t \in DOMAIN rbfTrees => saved.trees[t].replaces = rbfTrees[t].replaces

\* CaughtUp, but for deadlines and the flags of trees.
AlmostCaughtUp ==
  LET q == cacheQueue
  IN \A type \in {"tx", "tree"}, t \in Tx :
       /\ (\A i \in DOMAIN q : ~ About(q[i], type, t)) => Alike(type, t)
       /\ \A i \in DOMAIN q :
            About(q[i], type, t) /\ (\A j \in DOMAIN q : j > i => ~ About(q[j], type, t)) =>
              Meant(q[i])

\* load() would take over no tree that has another shape in memory.
LiveAgree ==
  \A r \in Live \cap DOMAIN rbfTrees : saved.trees[r].replaces = rbfTrees[r].replaces

\* A tree is stored after its transactions ...
TxsFirst ==
  LET q == cacheQueue
  IN \A i \in DOMAIN q, r \in DOMAIN rbfTrees : Is(q[i], "add", "tree", r) =>
       \A x \in Nodes(rbfTrees[r]) : x \in saved.txs \/ Earlier(q, i, "add", "tx", x)

\* ... and what is stored of it is removed before its root comes back.
OldTreeFirst ==
  LET q == cacheQueue
  IN \A i \in DOMAIN q, r \in (DOMAIN saved.trees \cap txs) \ saved.txs :
       Is(q[i], "add", "tx", r) => Earlier(q, i, "remove", "tree", r)

\* A tree that is gone from memory is removed before a tree with one of its nodes is
\* stored ...
GoneFirst ==
  LET q == cacheQueue
  IN \A r \in Live \ DOMAIN rbfTrees : \E i \in DOMAIN q :
       /\ Is(q[i], "remove", "tree", r)
       /\ \A j \in DOMAIN q, s \in DOMAIN rbfTrees : j < i /\ Is(q[j], "add", "tree", s) =>
            Nodes(rbfTrees[s]) \cap Nodes(saved.trees[r]) = {}

\* ... and before its transactions, but for the root.
RootFirst ==
  LET q == cacheQueue
  IN \A i \in DOMAIN q, r \in Live : \A x \in Nodes(saved.trees[r]) \ {r} :
       Is(q[i], "remove", "tx", x) => Earlier(q, i, "remove", "tree", r)

\* While a tree whose root has left memory waits to be stored, the removal of that root
\* waits behind it.
RemovalFollows ==
  LET q == cacheQueue
  IN \A i \in DOMAIN q, r \in Tx \ txs : Is(q[i], "add", "tree", r) =>
       \E j \in DOMAIN q : j > i /\ Is(q[j], "remove", "tx", r)

\* The order in which events were queued is right for the store.
InOrder ==
  LiveAgree /\ TxsFirst /\ OldTreeFirst /\ GoneFirst /\ RootFirst /\ RemovalFollows

\* The state of a process that has met no fault but crashes.
Recoverable ==
  /\ Sound /\ IsSnapshot(saved)
  /\ connected /\ rbfCacheQueue = <<>> /\ rbfRemoveQueue = <<>>
  /\ flushing = [step |-> "idle", todo |-> <<>>]
  /\ cacheQueue \in Seq(Events)
  /\ Loadable /\ AlmostCaughtUp /\ InOrder

RecoverInv == failures \in [Kinds -> Nat] /\ (OnlyCrashes => Recoverable)
=============================================================================
