------------------------------- MODULE WsFeed -------------------------------
(***************************************************************************)
(* The live feed of a browser: the websocket handler of the backend        *)
(* (websocket-handler.ts) with the projected blocks it serves              *)
(* (mempool-blocks.ts) and the client (websocket.service.ts,               *)
(* state.service.ts).  A client that looks at a projected block gets it in *)
(* full and from then on what each update changes, numbered by a sequence; *)
(* it asks again when a number is missing.  New blocks are pushed, too.    *)
(* Messages of a connection arrive in order; connections break, and the    *)
(* client reconnects and subscribes again.                                 *)
(***************************************************************************)
EXTENDS Integers, FiniteSets, Sequences, SequencesExt, FiniteSetsExt, TLC

CONSTANTS
  Tx,            \* the transactions
  Index, None,   \* the numbers of the projected blocks, and no number
  MaxChanges,    \* bound: updates of the projected blocks
  MaxHeight,     \* bound: height of the chain
  MaxClicks,     \* bound: blocks looked at and left
  MaxFaults,     \* bound: kinds of faults: "cut" a broken connection, "template" and
                 \* "block" an exception, "sync" lost, "restart" of the backend, "reorg"
  MaxMessages,   \* bound: messages on their way
  MaxLate        \* bound: callbacks of the client that wait

ASSUME BoundsAssumption ==
  /\ Index \subseteq Nat /\ None \notin Index
  /\ {MaxChanges, MaxHeight, MaxClicks, MaxFaults, MaxMessages, MaxLate} \subseteq Nat
  /\ MaxHeight >= 1

VARIABLES
  \* the backend
  template,  \* mempoolBlocks: number -> transactions; a block that is empty is not there
  deltas,    \* mempoolBlockDeltas: number -> [added, removed]
  inSync,    \* memPool.isInSync()
  seq,       \* mempoolSequence
  chain,     \* the blocks in the init data: height -> the branch it is of
  applied,   \* a block has been applied to the projected blocks, and is not announced yet
  \* the connection
  link,      \* "open"; "cut" until the client knows; then "off"
  down, up,  \* messages to the client, requests to the backend
  wants,     \* client['want-blocks']
  tracked,   \* client['track-mempool-block']
  late,      \* updates whose callback for the client awaits: [of, deltas, known]
  \* the client
  offline,   \* goneOffline
  shown,     \* the projected block on the screen
  tracking,  \* trackingMempoolBlock
  isTracking, \* isTrackingMempoolBlock
  stopping,  \* the timer of stopTrackMempoolBlock() runs
  sequence,  \* mempoolSequence of the state service
  view,      \* mempoolBlockState: [block, txs]
  misled,    \* (history) the view comes from a change under the number of a later update
  latest,    \* latestBlockHeight
  list,      \* blocks: <<height, branch>>
  \* bounds
  changes, clicks, faults

backend == <<template, deltas, inSync, seq, chain, applied>>
conn == <<link, down, up, wants, tracked, late>>
feed == <<tracking, isTracking, stopping, sequence, view, misled>>
shownBlocks == <<latest, list>>
client == <<offline, shown, feed, shownBlocks>>
bounds == <<changes, clicks, faults>>
vars == <<backend, conn, client, bounds>>

Delta == [added : SUBSET Tx, removed : SUBSET Tx]
NoFeed == [kind |-> "none", index |-> None, seq |-> 0, of |-> 0, added |-> {}, removed |-> {}]

BlockId == (1..MaxHeight) \X (0..1)
NoBlock == <<0, 0>>

\* The blocks of a chain.
BlocksOf(c) == {<<h, c[h]>> : h \in DOMAIN c}

\* A message: the list of blocks, a new block (height 0 for none), and a projected block
\* in full or what changed in it, with a number; `of` is the number of the update itself.
Feed == {NoFeed} \cup [kind : {"full", "delta"}, index : Index, seq : Nat, of : Nat,
                        added : SUBSET Tx, removed : SUBSET Tx]
Message == [blocks : SUBSET BlockId, block : BlockId \cup {NoBlock}, feed : Feed]
Request == [ask : {"init", "want", "refresh", "stop"}, index : {None}]
             \cup [ask : {"track"}, index : Index]

TypeOK ==
  /\ template \in [Index -> SUBSET Tx] /\ deltas \in [Index -> Delta]
  /\ inSync \in BOOLEAN /\ applied \in BOOLEAN /\ seq \in Nat
  /\ chain \in Seq(0..1) /\ Len(chain) \in 1..MaxHeight
  /\ link \in {"open", "cut", "off"}
  /\ down \in Seq(Message) /\ up \in Seq(Request)
  /\ wants \in BOOLEAN /\ tracked \in Index \cup {None}
  /\ late \subseteq [of : 0..seq, deltas : [Index -> Delta], known : SUBSET Index]
  /\ link # "open" => down = <<>> /\ up = <<>> /\ tracked = None /\ late = {}
  /\ offline \in BOOLEAN /\ (link = "off" => offline)
  /\ {shown, tracking} \subseteq Index \cup {None}
  /\ isTracking \in BOOLEAN /\ stopping \in BOOLEAN
  /\ isTracking => tracking # None
  /\ sequence \in Nat /\ misled \in BOOLEAN /\ view \in [block : Index \cup {None}, txs : SUBSET Tx]
  /\ latest \in 0..MaxHeight /\ list \subseteq BlockId
  /\ faults \subseteq {"cut", "template", "block", "sync", "restart", "reorg"}

\* The transactions in the order of their fees: what may be in the projected blocks.
Templates ==
  {t \in [Index -> SUBSET Tx] :
     /\ \A i, j \in Index : i # j => t[i] \cap t[j] = {}
     /\ \A i, j \in Index : i < j /\ t[j] # {} => t[i] # {}}

Asks(what) == [ask |-> what, index |-> None]
Track(i) == [ask |-> "track", index |-> i]

Says(blocks, block, f) == [blocks |-> blocks, block |-> block, feed |-> f]
NoMessage == Says({}, NoBlock, NoFeed)

\* The backend is up, and a browser has opened the page.
Init ==
  /\ template \in Templates /\ deltas = [i \in Index |-> [added |-> {}, removed |-> {}]]
  /\ inSync = TRUE /\ seq = 1 /\ chain = <<0>> /\ applied = FALSE
  /\ link = "open" /\ down = <<>> /\ up = <<>> /\ wants = TRUE /\ tracked = None
  /\ late = {} /\ misled = FALSE
  /\ offline = FALSE /\ shown = None
  /\ tracking = None /\ isTracking = FALSE /\ stopping = FALSE /\ sequence = 0
  /\ view = [block |-> None, txs |-> {}]
  /\ latest = 1 /\ list = {<<1, 0>>}
  /\ changes = 0 /\ clicks = 0 /\ faults = {}

-----------------------------------------------------------------------------
(* The backend                                                             *)

\* send(), if there is something to send.
Send(msg) == down' = IF link = "open" /\ msg # NoMessage THEN Append(down, msg) ELSE down

Room == Len(down) < MaxMessages
\* A fault; of each kind at most one.
Fault(kind) ==
  /\ kind \notin faults /\ Cardinality(faults) < MaxFaults
  /\ faults' = faults \cup {kind}

\* calculateMempoolDeltas()
DeltasTo(new) ==
  [i \in Index |-> [added |-> new[i] \ template[i], removed |-> template[i] \ new[i]]]

\* Is there a delta for a number: was there such a block, or is there one now?
HasDelta(i) == template[i] # {} \/ template'[i] # {}

Full(i, n, txs) ==
  [kind |-> "full", index |-> i, seq |-> n, of |-> n, added |-> txs, removed |-> {}]

\* What the update numbered k changed, sent under the number n.
Change(i, n, k, d) ==
  [kind |-> "delta", index |-> i, seq |-> n, of |-> k, added |-> d.added, removed |-> d.removed]

NextSeq == IF inSync THEN seq + 1 ELSE seq

\* The callback of an update for the client sends the change of the block it tracks ...
Tell(n, d, known) ==
  /\ Send(IF inSync /\ tracked # None /\ tracked \in known
          THEN Says({}, NoBlock, Change(tracked, n, n, d[tracked])) ELSE NoMessage)
  /\ UNCHANGED late

\* ... or first awaits transactions of an address or a transaction it tracks as well.
Await(n, d, known) ==
  /\ link = "open" /\ Cardinality(late) < MaxLate
  /\ late' = late \cup {[of |-> n, deltas |-> d, known |-> known]}
  /\ UNCHANGED down

\* It goes on, with the number of now, unless the callback of another client has cached an
\* earlier one.
TellLate(w, n) ==
  /\ n \in w.of..seq /\ Room
  /\ late' = late \ {w}
  /\ Send(IF inSync /\ tracked # None /\ tracked \in w.known
          THEN Says({}, NoBlock, Change(tracked, n, w.of, w.deltas[tracked])) ELSE NoMessage)
  /\ UNCHANGED <<backend, link, up, wants, tracked, client, bounds>>

\* $handleMempoolChange(); an update that brings the mempool in sync is still treated as
\* out of sync (mempool.ts:435).
MempoolChange(new) ==
  /\ ~applied /\ changes < MaxChanges /\ Room
  /\ template' = new /\ deltas' = DeltasTo(new)
  /\ seq' = NextSeq
  /\ inSync' \in {inSync, TRUE}
  /\ LET known == {i \in Index : HasDelta(i)}
     IN Tell(seq', deltas', known) \/ Await(seq', deltas', known)
  /\ changes' = changes + 1
  /\ UNCHANGED <<chain, applied, link, up, wants, tracked, client, clicks, faults>>

\* The projected blocks could not be made: the old ones stay, and their deltas go out again.
TemplateFails ==
  /\ ~applied /\ Fault("template") /\ Room
  /\ seq' = NextSeq
  /\ Tell(seq', deltas, Index) \/ Await(seq', deltas, Index)
  /\ UNCHANGED <<template, deltas, inSync, chain, applied, link, up, wants, tracked, client,
                 changes, clicks>>

\* $applyBlockTransactionsToMempool()
ApplyBlock(new) ==
  /\ ~applied /\ Len(chain) < MaxHeight /\ changes < MaxChanges
  /\ template' = new /\ deltas' = DeltasTo(new)
  /\ applied' = TRUE
  /\ changes' = changes + 1
  /\ UNCHANGED <<inSync, seq, chain, conn, client, clicks, faults>>

\* Seeded: the clients are not told.
FaultyReorg(fork) ==
  /\ applied /\ fork < Len(chain) /\ Room /\ Fault("reorg")
  /\ chain' = [h \in DOMAIN chain |-> IF h > fork THEN 1 ELSE chain[h]]
  /\ UNCHANGED <<template, deltas, inSync, seq, applied, conn, client, changes, clicks>>

\* handleReorg(): the blocks above the fork are others; the new block is not among them.
Reorg(fork) ==
  /\ applied /\ fork < Len(chain) /\ Room /\ Fault("reorg")
  /\ chain' = [h \in DOMAIN chain |-> IF h > fork THEN 1 ELSE chain[h]]
  /\ Send(Says(IF wants THEN BlocksOf(chain') ELSE {}, NoBlock, NoFeed))
  /\ UNCHANGED <<template, deltas, inSync, seq, applied, link, up, wants, tracked, late, client,
                 changes, clicks>>

\* What handleNewBlock() sends of a projected block: nothing if it is empty, all of it if
\* more than half is new.
BlockFeed(i, n) ==
  IF template[i] = {} THEN NoFeed
  ELSE IF 2 * Cardinality(deltas[i].added) > Cardinality(template[i])
  THEN Full(i, n, template[i])
  ELSE Change(i, n, n, deltas[i])

HandleNewBlock ==
  /\ applied /\ Room
  /\ applied' = FALSE
  /\ seq' = NextSeq
  /\ chain' = Append(chain, IF "reorg" \in faults THEN 1 ELSE 0)
  /\ Send(Says({}, IF wants THEN <<Len(chain'), Last(chain')>> ELSE NoBlock,
               IF inSync /\ tracked # None THEN BlockFeed(tracked, seq') ELSE NoFeed))
  /\ UNCHANGED <<template, deltas, inSync, link, up, wants, tracked, late, client, bounds>>

\* An exception between the two; the block is taken up again in the next round.
BlockFails ==
  /\ applied /\ Fault("block")
  /\ applied' = FALSE
  /\ UNCHANGED <<template, deltas, inSync, seq, chain, conn, client, changes, clicks>>

\* setOutOfSync(), clear protection or loading in bulk.
LosesSync ==
  /\ inSync /\ ~applied /\ Fault("sync")
  /\ inSync' = FALSE
  /\ UNCHANGED <<template, deltas, seq, chain, applied, conn, client, changes, clicks>>

\* The handler of 'message'.
HandleRequest ==
  /\ link = "open" /\ up # <<>> /\ Room
  /\ up' = Tail(up)
  /\ LET r == Head(up) IN
     /\ wants' = (wants \/ r.ask = "want")
     /\ tracked' = IF r.ask \in {"track", "stop"} THEN r.index ELSE tracked
     /\ Send(Says(IF \/ r.ask \in {"init", "refresh"}
                     \/ r.ask = "want" /\ ~wants
                  THEN BlocksOf(chain) ELSE {},
                  NoBlock,
                  IF r.ask = "track" THEN Full(r.index, seq, template[r.index]) ELSE NoFeed))
  /\ UNCHANGED <<backend, link, late, client, bounds>>

-----------------------------------------------------------------------------
(* The connection                                                          *)

Break == down' = <<>> /\ up' = <<>> /\ wants' = FALSE /\ tracked' = None /\ late' = {}

\* The network, or terminate() as the client is too slow.
Cut ==
  /\ link = "open" /\ Fault("cut")
  /\ link' = "cut" /\ Break
  /\ UNCHANGED <<backend, client, changes, clicks>>

\* The backend starts anew: it counts from 0, and has fewer blocks to begin with.
RestartBackend ==
  /\ Fault("restart")
  /\ seq' = 0 /\ inSync' = TRUE /\ applied' = FALSE
  /\ deltas' = [i \in Index |-> [added |-> {}, removed |-> {}]]
  /\ chain' = SubSeq(chain, 1, 1)
  /\ link' = IF link = "open" THEN "cut" ELSE link
  /\ Break
  /\ UNCHANGED <<template, client, changes, clicks>>

\* goOffline(): an error of the socket, or no answer to a ping.
GoOffline ==
  /\ link = "cut"
  /\ link' = "off" /\ offline' = TRUE
  /\ UNCHANGED <<backend, down, up, wants, tracked, late, shown, feed, shownBlocks, bounds>>

\* reconnectWebsocket() and startSubscription()
Reconnect ==
  /\ link = "off"
  /\ link' = "open" /\ up' = <<Asks("init")>>
  /\ UNCHANGED <<backend, down, wants, tracked, late, client, bounds>>

-----------------------------------------------------------------------------
(* The client                                                              *)

\* Requests are lost while there is no connection.
Ask(requests) == up' = IF link = "open" THEN up \o requests ELSE up

\* handleResponse() for the blocks: the list, or the next block; a gap asks for the list.
ReceiveBlocks(msg) ==
  LET known == Max({latest} \cup {b[1] : b \in msg.blocks})
      next  == msg.block[1] = known + 1
      listed == IF msg.blocks # {} THEN msg.blocks ELSE list
  IN /\ latest' = IF next THEN known + 1 ELSE known
     /\ list' = IF next THEN listed \cup {msg.block} ELSE listed

Refresh(msg) ==
  IF msg.blocks = {} /\ msg.block[1] > latest + 1 THEN <<Asks("refresh")>> ELSE <<>>

\* Is the message about the projected block that is tracked?
IsTracked(f) == f.kind # "none" /\ f.index = tracking

\* Seeded: only a number that goes back is noticed.
FaultyGap(f) == sequence # 0 /\ f.seq < sequence

\* Is a number missing?
Gap(f) == sequence # 0 /\ f.seq # sequence + 1

\* handleResponse() for the projected block, and the scan of the state service.
ReceiveFeed(f) ==
  IF ~IsTracked(f) THEN UNCHANGED <<sequence, view, misled>>
  ELSE IF f.kind = "full"
  THEN sequence' = f.seq /\ view' = [block |-> tracking, txs |-> f.added] /\ misled' = FALSE
  ELSE IF Gap(f)
  THEN sequence' = 0 /\ UNCHANGED <<view, misled>>
  ELSE /\ sequence' = f.seq
       /\ view' = [block |-> tracking, txs |-> (view.txs \cup f.added) \ f.removed]
       /\ misled' = (misled \/ f.seq # f.of)

AskAgain(f) == IsTracked(f) /\ f.kind = "delta" /\ Gap(f)

\* Seeded: only the blocks are asked for anew.
FaultyTrackAgain(f) == FALSE

\* After the first message of a new connection: is the block tracked again?
TrackAgain(f) == offline /\ (isTracking \/ AskAgain(f))

\* What a message makes the client ask.
Answer(msg) ==
  (IF AskAgain(msg.feed) THEN <<Track(tracking)>> ELSE <<>>) \o Refresh(msg)
    \o (IF offline THEN <<Asks("want")>> ELSE <<>>)
    \o (IF TrackAgain(msg.feed) THEN <<Track(tracking)>> ELSE <<>>)

Receive ==
  /\ link = "open" /\ down # <<>>
  /\ LET msg == Head(down) IN
     /\ down' = Tail(down)
     /\ ReceiveBlocks(msg)
     /\ ReceiveFeed(msg.feed)
     /\ Ask(Answer(msg))
     /\ isTracking' = (isTracking \/ AskAgain(msg.feed))
     /\ stopping' = (stopping /\ ~AskAgain(msg.feed) /\ ~TrackAgain(msg.feed))
  /\ offline' = FALSE
  /\ UNCHANGED <<backend, link, wants, tracked, late, shown, tracking, bounds>>

\* startTrackMempoolBlock(): nothing to ask for the block that is tracked already.
Show(i) ==
  /\ shown # i /\ clicks < MaxClicks /\ Len(up) < MaxMessages
  /\ shown' = i
  /\ clicks' = clicks + 1
  /\ stopping' = FALSE
  /\ IF tracking # i
     THEN Ask(<<Track(i)>>) /\ tracking' = i /\ isTracking' = TRUE
     ELSE UNCHANGED <<up, tracking, isTracking>>
  /\ UNCHANGED <<backend, link, down, wants, tracked, late, offline, sequence, view, misled,
                 shownBlocks, changes, faults>>

\* stopTrackMempoolBlock(): in two seconds ...
Leave ==
  /\ shown # None
  /\ shown' = None
  /\ isTracking' = FALSE /\ stopping' = TRUE
  /\ UNCHANGED <<backend, conn, offline, tracking, sequence, view, misled, shownBlocks, bounds>>

\* ... unless a block is looked at before.
Stop ==
  /\ stopping /\ Len(up) < MaxMessages
  /\ stopping' = FALSE
  /\ Ask(<<Asks("stop")>>)
  /\ tracking' = None
  /\ UNCHANGED <<backend, link, down, wants, tracked, late, offline, shown, isTracking, sequence,
                 view, misled, shownBlocks, bounds>>

-----------------------------------------------------------------------------
Next ==
  \/ \E new \in Templates : MempoolChange(new) \/ ApplyBlock(new)
  \/ \E w \in late : \E n \in w.of..seq : TellLate(w, n)
  \/ \E fork \in 0 .. MaxHeight : Reorg(fork)
  \/ TemplateFails \/ HandleNewBlock \/ BlockFails \/ LosesSync \/ HandleRequest
  \/ Cut \/ RestartBackend \/ GoOffline \/ Reconnect
  \/ Receive \/ (\E i \in Index : Show(i)) \/ Leave \/ Stop

Spec == Init /\ [][Next]_vars

\* Messages arrive, handlers run, and the timers that find a broken connection and
\* replace it fire.
Fairness ==
  /\ WF_vars(HandleNewBlock) /\ WF_vars(HandleRequest) /\ WF_vars(Receive)
  /\ WF_vars(GoOffline) /\ WF_vars(Reconnect) /\ WF_vars(Stop)

FairSpec == Spec /\ Fairness

-----------------------------------------------------------------------------
(* Properties                                                              *)

\* The sequence tells whether the view is right: with the number of the backend and
\* nothing on its way the client shows the block as it is, after deltas that were not sent
\* or came late, blocks it switched between and connections it lost.  Only a delta that
\* waited and then went out under the number of a later update misleads it, until the
\* block comes in full again.
SequenceTells ==
  faults \cap {"block", "sync", "restart"} = {}
    /\ link = "open" /\ down = <<>> /\ up = <<>> /\ ~applied
    /\ isTracking /\ sequence = seq /\ ~misled
  => view = [block |-> tracking, txs |-> template[tracking]]

\* The client has the blocks of the backend when nothing is on its way, whatever it missed:
\* blocks pushed before it asked again, and reorganisations, whose list comes before the
\* block that caused them.  A backend that starts again with fewer blocks is left out.
SameBlocks ==
  "restart" \notin faults /\ link = "open" /\ wants /\ down = <<>> /\ up = <<>>
  => list = BlocksOf(chain)

\* In the end the client has the blocks of the backend, and the projected block it tracks
\* is one the backend sends it.
Resumes ==
  <>[]("restart" \notin faults =>
         /\ link = "open" /\ list = BlocksOf(chain)
         /\ isTracking => tracked = tracking /\ view.block = tracking)
=============================================================================
