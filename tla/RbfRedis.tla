------------------------------ MODULE RbfRedis ------------------------------
(***************************************************************************)
(* The RBF cache mirrored into Redis: the event queue of                    *)
(* backend/src/api/rbf-cache.ts, its replay by updateCache(), the           *)
(* connection and the two offline queues of backend/src/api/redis-cache.ts, *)
(* and load() from whatever the store holds after a crash.                 *)
(*                                                                         *)
(* The operations on memory are those of RbfCache; here `saved` is the     *)
(* store, the rbf:* keys of Redis, and each operation also queues events.  *)
(***************************************************************************)
EXTENDS RbfCacheProps, Sequences, SequencesExt

CONSTANTS
  Faults,                   \* what may go wrong, of the Kinds below
  MaxFailures,              \* bound: faults, of all kinds together
  MaxEvents                 \* bound: events one session queues between two updates

VARIABLES
  cacheQueue,     \* events not yet replayed
  updating,       \* updateCache() is replaying
  connected,      \* the client believes it has a connection
  rbfCacheQueue,  \* entries to set once connected again
  rbfRemoveQueue, \* entries to remove once connected again
  failures,       \* how often each kind of fault has happened
  flushing        \* the step $flushRbfQueues() is in and what it still has to do

Kinds == {"crash", "down", "lost", "unread"}

Types == {"tx", "tree", "exp"}

ASSUME FiniteAssumption == IsFiniteSet(Tx)
ASSUME FaultsAssumption == Faults \subseteq Kinds
ASSUME BoundsAssumption == MaxFailures \in Nat /\ MaxEvents \in Nat

offline == <<rbfCacheQueue, rbfRemoveQueue>>
client == <<connected, offline, failures, flushing>>
rvars == <<memory, saved, phase, batch, cacheQueue, updating, client>>

-----------------------------------------------------------------------------
(* Events                                                                  *)

Event(op, type, txid, value) == [op |-> op, type |-> type, txid |-> txid, value |-> value]
AddTx(t) == Event("add", "tx", t, 0)
AddTree(t) == Event("add", "tree", t, 0)
AddExp(t, ticks) == Event("add", "exp", t, ticks)
Gone(type, t) == Event("remove", type, t, 0)

\* Sequences given for the elements of a set, one after the other in some order.
Concat(seqs) ==
  LET order == SetToSeq(DOMAIN seqs)
  IN FlattenSeq([i \in 1..Cardinality(DOMAIN seqs) |-> seqs[order[i]]])

\* add(): the new transaction, then for each replaced one its own entry or the
\* removal of the tree it brings along, then the new tree.
AddEvents(replaced, new) ==
  <<AddTx(new)>>
    \o Concat([t \in Unreplaced(replaced) |->
                 IF t \in DOMAIN treeMap THEN <<Gone("tree", treeMap[t])>> ELSE <<AddTx(t)>>])
    \o <<AddTree(new)>>

EvictEvents(S) ==
  Concat([t \in (S \cap txs) \ DOMAIN expiring |-> <<AddExp(t, ExpiryTicks)>>])

\* Seeded: the change of the tree is not queued.
FaultyMinedEvents(t) == EvictEvents({t})

MinedEvents(t) ==
  (IF HasTree(t) THEN <<AddTree(treeMap[t])>> ELSE <<>>) \o EvictEvents({t})

\* The recursion of remove(): t, then each version it replaced with those before that.
Walk(t) ==
  LET walk[i \in 0..Cardinality(Tx)] ==
        IF i = 0 THEN [todo |-> <<t>>, done |-> <<>>]
        ELSE LET w == walk[i - 1]
             IN IF w.todo = <<>> THEN w
                ELSE [todo |-> SetToSeq(Kids(Head(w.todo))) \o Tail(w.todo),
                      done |-> Append(w.done, Head(w.todo))]
  IN walk

\* What remove() queues for one transaction, and with its previous versions.
Removal(x) ==
  <<Gone("tx", x), Gone("exp", x)>>
    \o (IF x \in DOMAIN treeMap /\ treeMap[x] = x THEN <<Gone("tree", x)>> ELSE <<>>)

RemoveEvents(t) ==
  LET versions == Walk(t)[Cardinality(Tx)].done
  IN FlattenSeq([i \in DOMAIN versions |-> Removal(versions[i])])

\* cleanup() of the expirations `exp`.  (One flagged for removal again by its root
\* is listed twice; the second removal finds nothing.)
CleanupEvents(exp) ==
  Concat([t \in {x \in DOMAIN exp : exp[x] = 0} |->
            <<Gone("exp", t)>>
              \o (IF t \in DOMAIN replacedBy THEN <<>> ELSE RemoveEvents(t))])

-----------------------------------------------------------------------------
(* The store                                                               *)

\* A running session before its first event, with a connection.
Connected ==
  /\ updating = FALSE
  /\ connected = TRUE
  /\ rbfCacheQueue = <<>>
  /\ rbfRemoveQueue = <<>>
  /\ flushing = [step |-> "idle", todo |-> <<>>]

RInit == Init /\ Connected /\ cacheQueue = <<>> /\ failures = [kind \in Kinds |-> 0]

With(f, t, value) == [x \in DOMAIN f \cup {t} |-> IF x = t THEN value ELSE f[x]]
Without(f, t) == [x \in DOMAIN f \ {t} |-> f[x]]

\* The store after the entry e was set ...
Put(e) ==
  [txs      |-> IF e.type = "tx" THEN saved.txs \cup {e.txid} ELSE saved.txs,
   trees    |-> IF e.type = "tree" THEN With(saved.trees, e.txid, e.value) ELSE saved.trees,
   expiring |-> IF e.type = "exp" THEN With(saved.expiring, e.txid, e.value) ELSE saved.expiring]

\* ... or removed.
Drop(e) ==
  [txs      |-> IF e.type = "tx" THEN saved.txs \ {e.txid} ELSE saved.txs,
   trees    |-> IF e.type = "tree" THEN Without(saved.trees, e.txid) ELSE saved.trees,
   expiring |-> IF e.type = "exp" THEN Without(saved.expiring, e.txid) ELSE saved.expiring]

Fail(kind) ==
  /\ kind \in Faults
  /\ failures.crash + failures.down + failures.lost + failures.unread < MaxFailures
  /\ failures' = [failures EXCEPT ![kind] = @ + 1]

\* A command that fails is logged and dropped.
Lost ==
  /\ connected
  /\ Fail("lost")
  /\ UNCHANGED <<saved, offline>>

\* $setRbfEntry()
SetRbfEntry(e) ==
  \/ /\ connected
     /\ saved' = Put(e)
     /\ UNCHANGED <<offline, failures>>
  \/ /\ ~ connected
     /\ rbfCacheQueue' = Append(rbfCacheQueue, e)
     /\ UNCHANGED <<saved, rbfRemoveQueue, failures>>
  \/ Lost

\* $removeRbfEntry()
RemoveRbfEntry(e) ==
  \/ /\ connected
     /\ saved' = Drop(e)
     /\ UNCHANGED <<offline, failures>>
  \/ /\ ~ connected
     /\ rbfRemoveQueue' = Append(rbfRemoveQueue, e)
     /\ UNCHANGED <<saved, rbfCacheQueue, failures>>
  \/ Lost

-----------------------------------------------------------------------------
(* updateCache()                                                           *)

BeginUpdate ==
  /\ phase = "running" /\ ~ updating
  /\ cacheQueue # <<>>
  /\ updating' = TRUE
  /\ UNCHANGED <<memory, saved, phase, batch, cacheQueue, client>>

\* The event with the value it is stored with: tx and tree entries are read when
\* the event is replayed.
Current(e) == IF e.type = "tree" THEN Event("add", "tree", e.txid, rbfTrees[e.txid]) ELSE e

\* An entry that is gone by then is skipped.
Vanished(e) ==
  \/ e.type = "tx" /\ e.txid \notin txs
  \/ e.type = "tree" /\ e.txid \notin DOMAIN rbfTrees

Replay ==
  /\ updating /\ cacheQueue # <<>>
  /\ cacheQueue' = Tail(cacheQueue)
  /\ LET e == Head(cacheQueue)
     IN \/ e.op = "add" /\ ~ Vanished(e) /\ SetRbfEntry(Current(e))
        \/ e.op = "add" /\ Vanished(e) /\ UNCHANGED <<saved, offline, failures>>
        \/ e.op = "remove" /\ RemoveRbfEntry(e)
  /\ UNCHANGED <<memory, phase, batch, updating, connected, flushing>>

EndUpdate ==
  /\ updating /\ cacheQueue = <<>>
  /\ updating' = FALSE
  /\ UNCHANGED <<memory, saved, phase, batch, cacheQueue, client>>

-----------------------------------------------------------------------------
(* The connection                                                          *)

\* An 'error' event, or the ping of $ensureConnected() fails.
Disconnect ==
  /\ connected
  /\ Fail("down")
  /\ connected' = FALSE
  /\ UNCHANGED <<memory, saved, phase, batch, cacheQueue, updating, offline, flushing>>

\* $ensureConnected().  (Bound: one flush at a time.)
Reconnect ==
  /\ ~ connected /\ flushing.step = "idle"
  /\ connected' = TRUE
  /\ flushing' = [step |-> "connected", todo |-> <<>>]
  /\ UNCHANGED <<memory, saved, phase, batch, cacheQueue, updating, offline, failures>>

\* $onConnected() reaches $flushRbfQueues() after writing the mempool queues.
BeginFlush ==
  /\ flushing.step = "connected"
  /\ IF connected
     THEN /\ flushing' = [step |-> "set", todo |-> rbfCacheQueue]
          /\ rbfCacheQueue' = <<>>
     ELSE flushing' = [step |-> "idle", todo |-> <<>>] /\ UNCHANGED rbfCacheQueue
  /\ UNCHANGED <<memory, saved, phase, batch, cacheQueue, updating, connected, rbfRemoveQueue, failures>>

\* First all the entries to set, then all those to remove.
Flush ==
  \/ /\ flushing.step = "set" /\ flushing.todo # <<>>
     /\ SetRbfEntry(Head(flushing.todo))
     /\ flushing' = [flushing EXCEPT !.todo = Tail(@)]
     /\ UNCHANGED <<memory, phase, batch, cacheQueue, updating, connected>>
  \/ /\ flushing.step = "set" /\ flushing.todo = <<>>
     /\ flushing' = [step |-> "remove", todo |-> rbfRemoveQueue]
     /\ rbfRemoveQueue' = <<>>
     /\ UNCHANGED <<memory, saved, phase, batch, cacheQueue, updating, connected, rbfCacheQueue, failures>>
  \/ /\ flushing.step = "remove" /\ flushing.todo # <<>>
     /\ RemoveRbfEntry(Head(flushing.todo))
     /\ flushing' = [flushing EXCEPT !.todo = Tail(@)]
     /\ UNCHANGED <<memory, phase, batch, cacheQueue, updating, connected>>
  \/ /\ flushing.step = "remove" /\ flushing.todo = <<>>
     /\ flushing' = [step |-> "idle", todo |-> <<>>]
     /\ UNCHANGED <<memory, saved, phase, batch, cacheQueue, updating, connected, offline, failures>>

-----------------------------------------------------------------------------
(* load() from the store                                                   *)

\* What $loadCache() gets: $getRbfEntries() reads one type after the other, and a type
\* whose read fails comes back empty.
ReadBack(failed) ==
  [txs      |-> IF "tx" \in failed THEN {} ELSE saved.txs,
   trees    |-> IF "tree" \in failed THEN Nothing ELSE saved.trees,
   expiring |-> IF "exp" \in failed THEN Nothing ELSE saved.expiring]

\* Seeded: a root that is part of a loaded tree is not recognized.
FaultyStale(read, m, r) == r \notin read.txs

\* importTree() gives up: the root is unknown, or part of a tree already loaded.
Stale(read, m, r) == r \notin read.txs \/ r \in DOMAIN m.treeMap

Unstore(r) == <<Gone("tree", r)>>

\* importTree() of the tree of root r that was read, after those already in `m`.  A
\* node that has a tree already is cut off with all below it; one whose transaction is
\* missing too, but its children keep their edges.
Import(read, m, r) ==
  LET stored == read.trees[r].replaces
      new    == [p \in DOMAIN stored |-> stored[p] \ DOMAIN m.treeMap]
      walked == Below(new, {r})
      kept   == [p \in walked |-> new[p] \cap read.txs]
      linked == Below(kept, {r})
      shared == ~ UNION {stored[p] : p \in walked} \subseteq walked
      kidOf(c) == CHOOSE p \in walked : c \in kept[p]
      upper  == UNION {kept[p] : p \in walked}
  IN IF Stale(read, m, r)
     THEN [m EXCEPT !.events = @ \o Unstore(r)]
     ELSE [trees |-> With(m.trees, r,
              [replaces |-> [p \in linked |-> kept[p]],
               minedTxs |-> read.trees[r].minedTxs \cap linked,
               mined    |-> FALSE,
               fullRbf  |-> read.trees[r].fullRbf]),
           treeMap |-> [x \in DOMAIN m.treeMap \cup linked |->
                          IF x \in linked THEN r ELSE m.treeMap[x]],
           replaces |-> [p \in DOMAIN m.replaces \cup walked |->
                           IF p \in walked THEN kept[p] ELSE m.replaces[p]],
           replacedBy |-> [c \in DOMAIN m.replacedBy \cup upper |->
                             IF c \in upper THEN kidOf(c) ELSE m.replacedBy[c]],
           events |-> m.events \o (IF shared THEN Unstore(r) ELSE <<>>) \o <<AddTree(r)>>]

\* Seeded: in the opposite order.
FaultyLarger(a, b) == Cardinality(Nodes(a)) < Cardinality(Nodes(b))

\* Larger trees are imported first.
Larger(a, b) == Cardinality(Nodes(a)) > Cardinality(Nodes(b))

\* The orders in which they may come: those of one size as the store happens to list them.
Orders(trees) ==
  {order \in SetToSeqs(DOMAIN trees) :
     \A i, j \in DOMAIN order : i < j => ~ Larger(trees[order[j]], trees[order[i]])}

Loaded(read, order) ==
  LET load[i \in 0..Cardinality(DOMAIN read.trees)] ==
        IF i = 0
        THEN [trees |-> Nothing, treeMap |-> Nothing, replaces |-> Nothing,
              replacedBy |-> Nothing, events |-> <<>>]
        ELSE Import(read, load[i - 1], order[i])
  IN load[Cardinality(DOMAIN read.trees)]

\* The process dies at any point and starts over; everything not in the store is
\* lost.  Each of the three reads may fail alone; without a connection, or once it is
\* lost, the rest of them do.
ReloadAfter(failed) ==
  /\ \/ failed = {} /\ Fail("crash") /\ connected' = TRUE
     \/ failed # {} /\ Fail("unread") /\ connected' = TRUE
     \/ failed \in {Types, {"tree", "exp"}, {"exp"}} /\ Fail("down") /\ connected' = FALSE
  /\ LET read == ReadBack(failed)
     IN /\ \E order \in Orders(read.trees) :
             LET loaded == Loaded(read, order)
             IN /\ rbfTrees' = loaded.trees
                /\ dirtyTrees' = DOMAIN loaded.trees
                /\ treeMap' = loaded.treeMap
                /\ replaces' = loaded.replaces
                /\ replacedBy' = loaded.replacedBy
                /\ cacheQueue' = loaded.events
        /\ txs' = read.txs
        /\ expiring' = [t \in DOMAIN read.expiring \cap read.txs |-> read.expiring[t]]
  /\ phase' = "connecting"
  /\ batch' = DOMAIN rbfTrees'
  /\ updating' = FALSE
  /\ rbfCacheQueue' = <<>>
  /\ rbfRemoveQueue' = <<>>
  /\ flushing' = [step |-> "idle", todo |-> <<>>]
  /\ UNCHANGED saved

Reload == \E failed \in SUBSET Types : ReloadAfter(failed)

-----------------------------------------------------------------------------
(* The operations of RbfCache, with their events                           *)

Queue(events) == cacheQueue' = cacheQueue \o events /\ UNCHANGED <<updating, client>>

\* The handlers await updateCache() before the next of them runs.
Call(op, events) ==
  /\ ~ updating /\ Len(cacheQueue) <= MaxEvents
  /\ Serving(op)
  /\ Queue(events)

Operation ==
  \/ \E replaced \in SUBSET Tx, new \in Tx :
       new \notin replaced /\ Call(Add(replaced, new), AddEvents(replaced, new))
  \/ \E t \in Tx : Call(Evict(t), EvictEvents({t}))
  \/ \E t \in Tx : Call(Mined(t), MinedEvents(t))

\* What is left of load() once the trees are imported.
Checking ==
  \/ \E replaced \in SUBSET Tx, new \in Tx :
       new \notin replaced /\ Connect(replaced, new) /\ Queue(AddEvents(replaced, new))
  \/ BeginCheck /\ Queue(<<>>)
  \/ \E found \in SUBSET batch : \E confirmed \in SUBSET found :
       LET flagged == (batch \ found) \cup {t \in confirmed : HasTree(t)}
       IN /\ FinishCheck(found, confirmed)
          /\ Queue(EvictEvents(flagged) \o CleanupEvents(Evicted(flagged)))

Loading == Reload \/ Checking

Timer == CleanupTimer /\ Queue(CleanupEvents(expiring))

\* The deadlines in the queues come closer too.
Aged(e) ==
  IF e.type = "exp" /\ e.value # 0 THEN Event(e.op, "exp", e.txid, e.value - 1) ELSE e

Older(q) == [i \in DOMAIN q |-> Aged(q[i])]

Time ==
  /\ Tick
  /\ cacheQueue' = Older(cacheQueue)
  /\ rbfCacheQueue' = Older(rbfCacheQueue)
  /\ flushing' = [flushing EXCEPT !.todo = Older(@)]
  /\ UNCHANGED <<updating, connected, rbfRemoveQueue, failures>>

Client == Disconnect \/ Reconnect \/ BeginFlush \/ Flush

Update == BeginUpdate \/ Replay \/ EndUpdate

RNext == Operation \/ Loading \/ Timer \/ Time \/ Update \/ Client

RSpec == RInit /\ [][RNext]_rvars
=============================================================================
