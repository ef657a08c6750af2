----------------------------- MODULE WsFeedProofs -----------------------------
(* Theorems about the live feed, for any transactions, projected blocks,     *)
(* heights and faults: the types, and that the sequence tells.               *)
EXTENDS WsFeed, SequenceTheorems, WellFoundedInduction, TLAPS

\* A timer runs only for a block that is left, a connection that is new has the first
\* answer before it, and only an open one wants the blocks.
ConnGood ==
  /\ stopping => ~isTracking
  /\ applied => Len(chain) < MaxHeight
  /\ link = "open" /\ offline => down # <<>> \/ \E k \in DOMAIN up : up[k] = Asks("init")
  /\ wants => link = "open"

\* The number of the projected blocks as they are: one ahead while a block has been
\* applied and is not announced.
Now == IF applied THEN seq + 1 ELSE seq

\* What the projected blocks were under each number.
History == [Nat -> [Index -> SUBSET Tx]]

Patched(txs, f) == (txs \cup f.added) \ f.removed

\* Transactions that are those of a number, or already those of the one after it: a client
\* that asks while a block is not announced gets these.
Shows(H, txs, s, i, n) ==
  \/ txs = H[s][i]
  \/ s + 1 <= n /\ txs = H[s + 1][i]

\* A change leads from a projected block to the next, also when it is applied to what it
\* leads to.
Leads(H, d, i, k) == Patched(H[k - 1][i], d) = H[k][i] /\ Patched(H[k][i], d) = H[k][i]

\* What is sent leads to the projected block of its number, a change if the number is that
\* of its update.
Fits(H, f, s, n) ==
  /\ f.kind = "full" => f.seq \in 1..s /\ Shows(H, f.added, f.seq, f.index, n)
  /\ f.kind = "delta" => /\ f.seq \in 2..s
                         /\ f.seq = f.of => Leads(H, f, f.index, f.seq)

BackendTold(H) ==
  /\ inSync /\ seq >= 1 /\ template = H[Now]
  /\ \A i \in Index : /\ Patched(template[i], deltas[i]) = template[i]
                      /\ applied => Patched(H[seq][i], deltas[i]) = template[i]

DownFits(H) == \A k \in DOMAIN down : Fits(H, down[k].feed, seq, Now)

\* What waits to be sent leads to the projected blocks of its update.
LateFits(H) ==
  \A w \in late : w.of \in 2..seq /\ \A i \in w.known : Leads(H, w.deltas[i], i, w.of)

\* The tracked block is asked for or on its way in full.
Coming ==
  \/ \E k \in DOMAIN up : up[k] = Track(tracking)
  \/ \E k \in DOMAIN down : down[k].feed.kind = "full" /\ down[k].feed.index = tracking

\* Unless it is, or the client was misled, the view is the block under the number it has.
ViewFits(H) ==
  isTracking /\ link = "open" /\ ~offline /\ ~misled /\ ~Coming
  => /\ sequence \in 1..seq /\ view.block = tracking
     /\ Shows(H, view.txs, sequence, tracking, Now)

FeedFits(H) == BackendTold(H) /\ DownFits(H) /\ LateFits(H) /\ ViewFits(H)

\* The faults after which numbers are not told.
Tellable == faults \cap {"block", "sync", "restart"} = {}

Told == Tellable => \E H \in History : FeedFits(H)

\* The height the client knows before each message on its way, and after the last.
Heights == [Nat -> Nat]

\* A message without blocks, a list up to a height, and the next block.
Plain(m, t, u) == m.blocks = {} /\ m.block = NoBlock /\ u = t
Listed(m, t, u) == m.block = NoBlock /\ u >= t /\ u >= 1 /\ {b[1] : b \in m.blocks} = 1..u
Pushed(m, t, u) == m.blocks = {} /\ m.block[1] = t + 1 /\ u = t + 1

Orders(top) ==
  /\ top[0] = latest
  /\ \A j \in 1..Len(down) : \/ Plain(down[j], top[j - 1], top[j])
                             \/ Listed(down[j], top[j - 1], top[j])
                             \/ Pushed(down[j], top[j - 1], top[j])
  /\ \A j \in 0..Len(down) : top[j] <= Len(chain)

\* The blocks up to a height.
Prefix(c, n) == {<<h, c[h]>> : h \in 1..n}

\* No list comes after a place of the queue.
LastList(j) == \A k \in 1..Len(down) : k > j => down[k].blocks = {}

\* From the last list on, what comes are the blocks of the chain.
Current(top) ==
  /\ top[Len(down)] = Len(chain)
  /\ \A j \in 1..Len(down) :
       LastList(j) => /\ down[j].blocks # {} => down[j].blocks = Prefix(chain, top[j])
                      /\ down[j].block # NoBlock => down[j].block = <<top[j], chain[top[j]]>>
  /\ LastList(0) => list = Prefix(chain, latest)

Ordered == "restart" \notin faults =>
             \E top \in Heights : Orders(top) /\ (wants => Current(top))

Typed == TypeOK /\ ConnGood

-----------------------------------------------------------------------------
(* Messages and queues                                                     *)

LEMMA FeedTyped ==
  /\ NoFeed \in Feed
  /\ \A i \in Index, n \in Nat, txs \in SUBSET Tx : Full(i, n, txs) \in Feed
  /\ \A i \in Index, n \in Nat, k \in Nat, d \in Delta : Change(i, n, k, d) \in Feed
BY DEF Feed, NoFeed, Full, Change, Delta

LEMMA MessageTyped ==
  ASSUME NEW bs \in SUBSET BlockId, NEW b \in BlockId \cup {NoBlock}, NEW f \in Feed
  PROVE  Says(bs, b, f) \in Message
BY DEF Message, Says

LEMMA NothingTyped ==
  /\ NoMessage \in Message /\ NoFeed \in Feed
  /\ {} \in SUBSET BlockId /\ NoBlock \in BlockId \cup {NoBlock}
BY MessageTyped DEF NoMessage, Feed

\* A message is sent behind the others, or there is none to send.
LEMMA Sent ==
  ASSUME TypeOK, NEW m \in Message, Send(m)
  PROVE  /\ down' \in Seq(Message)
         /\ link # "open" => down' = <<>>
         /\ \/ down' = down /\ (link # "open" \/ m = NoMessage)
            \/ link = "open" /\ down' = Append(down, m)
BY AppendProperties DEF Send, TypeOK

\* What waits keeps its type while the numbers grow.
LEMMA LateTyped ==
  ASSUME TypeOK, late' \subseteq late, NEW n \in Nat, n >= seq
  PROVE  /\ late' \subseteq [of : 0..n, deltas : [Index -> Delta], known : SUBSET Index]
         /\ link # "open" => late' = {}
<1>1. 0..seq \subseteq 0..n
  BY DEF TypeOK
<1> QED
  BY <1>1 DEF TypeOK

\* The callback of an update sends its change or waits with it.
LEMMA CallbackTyped ==
  ASSUME TypeOK, NEW n \in Nat, n >= seq, NEW d \in [Index -> Delta],
         NEW known \in SUBSET Index, Tell(n, d, known) \/ Await(n, d, known)
  PROVE  /\ down' \in Seq(Message) /\ (link # "open" => down' = <<>>)
         /\ down # <<>> => down' # <<>>
         /\ late' \subseteq [of : 0..n, deltas : [Index -> Delta], known : SUBSET Index]
         /\ link # "open" => late' = {}
<1>1. CASE Tell(n, d, known)
  <2>1. PICK m \in Message : Send(m)
    <3>1. tracked # None => Change(tracked, n, n, d[tracked]) \in Feed
      BY FeedTyped DEF TypeOK
    <3> QED
      BY <1>1, <3>1, MessageTyped, NothingTyped DEF Tell
  <2>2. /\ down' \in Seq(Message) /\ (link # "open" => down' = <<>>)
        /\ (down # <<>> => down' # <<>>)
    BY <2>1, Sent, AppendProperties DEF TypeOK
  <2>3. late' \subseteq late
    BY <1>1 DEF Tell
  <2> QED
    BY <2>2, <2>3, LateTyped
<1>2. CASE Await(n, d, known)
  <2>1. /\ link = "open" /\ down' = down
        /\ late' = late \cup {[of |-> n, deltas |-> d, known |-> known]}
    BY <1>2 DEF Await
  <2>2. late \subseteq [of : 0..n, deltas : [Index -> Delta], known : SUBSET Index]
    <3>1. 0..seq \subseteq 0..n
      BY DEF TypeOK
    <3> QED
      BY <3>1 DEF TypeOK
  <2>3. n \in 0..n
    OBVIOUS
  <2> QED
    BY <2>1, <2>2, <2>3 DEF TypeOK
<1> QED
  BY <1>1, <1>2

\* A request or a message of a queue joined from two.
LEMMA Joined ==
  ASSUME NEW S, NEW s \in Seq(S), NEW t \in Seq(S)
  PROVE  /\ s \o t \in Seq(S)
         /\ \A k \in DOMAIN s : \E j \in DOMAIN (s \o t) : (s \o t)[j] = s[k]
         /\ \A k \in DOMAIN t : \E j \in DOMAIN (s \o t) : (s \o t)[j] = t[k]
<1>1. /\ s \o t \in Seq(S) /\ Len(s \o t) = Len(s) + Len(t)
      /\ \A i \in 1 .. Len(s) + Len(t) : (s \o t)[i] = IF i <= Len(s) THEN s[i] ELSE t[i - Len(s)]
  BY ConcatProperties
<1>2. /\ Len(s) \in Nat /\ DOMAIN s = 1..Len(s) /\ Len(t) \in Nat /\ DOMAIN t = 1..Len(t)
      /\ DOMAIN (s \o t) = 1 .. Len(s) + Len(t)
  BY <1>1, LenProperties
<1>3. ASSUME NEW k \in DOMAIN s PROVE \E j \in DOMAIN (s \o t) : (s \o t)[j] = s[k]
  <2>1. k \in DOMAIN (s \o t) /\ (s \o t)[k] = s[k]
    BY <1>1, <1>2
  <2> QED
    BY <2>1
<1>4. ASSUME NEW k \in DOMAIN t PROVE \E j \in DOMAIN (s \o t) : (s \o t)[j] = t[k]
  <2>1. Len(s) + k \in DOMAIN (s \o t) /\ (s \o t)[Len(s) + k] = t[k]
    BY <1>1, <1>2
  <2> QED
    BY <2>1
<1> QED
  BY <1>1, <1>3, <1>4

\* A queue without its head keeps the rest.
LEMMA Shortened ==
  ASSUME NEW S, NEW s \in Seq(S), s # <<>>
  PROVE  /\ Head(s) \in S /\ Head(s) = s[1] /\ Tail(s) \in Seq(S)
         /\ 1 \in DOMAIN s /\ DOMAIN s = 1..Len(s) /\ Len(s) \in Nat
         /\ Len(Tail(s)) = Len(s) - 1 /\ DOMAIN Tail(s) = 1 .. Len(s) - 1
         /\ \A k \in DOMAIN Tail(s) : k + 1 \in DOMAIN s /\ Tail(s)[k] = s[k + 1]
         /\ \A k \in DOMAIN s : k # 1 => k - 1 \in DOMAIN Tail(s) /\ Tail(s)[k - 1] = s[k]
<1>1. Len(s) \in Nat \ {0} /\ DOMAIN s = 1..Len(s)
  BY EmptySeq, LenProperties
<1>2. /\ Head(s) \in S /\ Tail(s) \in Seq(S) /\ Len(Tail(s)) = Len(s) - 1
      /\ \A i \in 1 .. Len(Tail(s)) : Tail(s)[i] = s[i + 1]
  BY HeadTailProperties
<1>3. DOMAIN Tail(s) = 1 .. Len(s) - 1
  BY <1>1, <1>2, LenProperties
<1>4. Head(s) = s[1]
  BY <1>1
<1> QED
  BY <1>1, <1>2, <1>3, <1>4

\* A queue with one more.
LEMMA Extended ==
  ASSUME NEW S, NEW s \in Seq(S), NEW x \in S
  PROVE  /\ Append(s, x) \in Seq(S) /\ Len(s) \in Nat /\ Len(Append(s, x)) = Len(s) + 1
         /\ DOMAIN s = 1..Len(s) /\ DOMAIN Append(s, x) = 1 .. Len(s) + 1
         /\ \A k \in DOMAIN s : Append(s, x)[k] = s[k]
         /\ Append(s, x)[Len(s) + 1] = x
BY AppendProperties, LenProperties

-----------------------------------------------------------------------------
(* Heights                                                                 *)

\* A set of numbers has a least one.
LEMMA LeastNumber ==
  ASSUME NEW S \in SUBSET Nat, S # {}
  PROVE  \E x \in S : \A y \in S : x <= y
<1> DEFINE R == OpToRel(<, Nat)
<1>1. IsWellFoundedOn(R, Nat)
  BY NatLessThanWellFounded
<1>2. \A x, y \in Nat : y < x => <<y, x>> \in R
  BY DEF OpToRel
<1> HIDE DEF R
<1>3. PICK x \in S : \A y \in S : ~(<<y, x>> \in R)
  BY <1>1, WFMin
<1>4. ASSUME NEW y \in S PROVE x <= y
  <2>1. x \in Nat /\ y \in Nat
    OBVIOUS
  <2>2. ~(y < x)
    BY <1>2, <1>3, <2>1, Zenon
  <2> QED
    BY <2>1, <2>2
<1> QED
  BY <1>4

\* A set of bounded numbers has a greatest one.
LEMMA Greatest ==
  ASSUME NEW n \in Nat, NEW S \in SUBSET (0..n), S # {}
  PROVE  Max(S) \in S /\ \A x \in S : Max(S) >= x
<1> DEFINE D == {n - x : x \in S}
<1>1. D \in SUBSET Nat /\ D # {}
  <2>1. PICK x \in S : TRUE
    OBVIOUS
  <2>2. n - x \in D
    OBVIOUS
  <2>3. \A y \in S : n - y \in Nat
    OBVIOUS
  <2> QED
    BY <2>2, <2>3
<1>2. PICK d \in D : \A e \in D : d <= e
  BY <1>1, LeastNumber
<1>3. PICK x \in S : d = n - x
  OBVIOUS
<1>4. \A y \in S : x >= y
  BY <1>2, <1>3
<1> QED
  BY <1>4 DEF Max

LEMMA MaxIs ==
  ASSUME NEW S \in SUBSET Nat, NEW n \in S, \A x \in S : x <= n
  PROVE  Max(S) = n
<1>1. n \in S /\ \A x \in S : n >= x
  OBVIOUS
<1>2. Max(S) \in S /\ \A x \in S : Max(S) >= x
  BY <1>1 DEF Max
<1>3. Max(S) <= n /\ Max(S) >= n /\ Max(S) \in Nat /\ n \in Nat
  BY <1>2
<1> QED
  BY <1>3

-----------------------------------------------------------------------------
(* The types                                                               *)

\* What a message makes the client ask; what it has to ask again is asked.
LEMMA AnswerTyped ==
  ASSUME TypeOK, NEW m \in Message
  PROVE  /\ Answer(m) \in Seq(Request)
         /\ AskAgain(m.feed) => tracking \in Index
         /\ AskAgain(m.feed) \/ TrackAgain(m.feed)
            => \E k \in DOMAIN Answer(m) : Answer(m)[k] = Track(tracking)
<1>1. ASSUME AskAgain(m.feed) \/ TrackAgain(m.feed) PROVE tracking \in Index
  <2>1. m.feed \in Feed /\ NoFeed.kind = "none"
    BY DEF Message, NoFeed
  <2> QED
    BY <1>1, <2>1 DEF AskAgain, TrackAgain, IsTracked, Feed, TypeOK
<1> DEFINE again == IF AskAgain(m.feed) THEN <<Track(tracking)>> ELSE <<>>
           wanted == IF offline THEN <<Asks("want")>> ELSE <<>>
           anew == IF TrackAgain(m.feed) THEN <<Track(tracking)>> ELSE <<>>
<1>2. /\ again \in Seq(Request) /\ wanted \in Seq(Request) /\ anew \in Seq(Request)
      /\ Refresh(m) \in Seq(Request)
  <2>1. tracking \in Index => Track(tracking) \in Request
    BY DEF Track, Request
  <2>2. Asks("want") \in Request /\ Asks("refresh") \in Request
    BY DEF Asks, Request
  <2>3. \A r \in Request : <<r>> \in Seq(Request)
    OBVIOUS
  <2>4. <<>> \in Seq(Request)
    OBVIOUS
  <2> QED
    BY <1>1, <2>1, <2>2, <2>3, <2>4 DEF Refresh
<1>3. Answer(m) = again \o Refresh(m) \o wanted \o anew
  BY DEF Answer
<1>4. ASSUME AskAgain(m.feed) PROVE 1 \in DOMAIN again /\ again[1] = Track(tracking)
  BY <1>4
<1>5. ASSUME TrackAgain(m.feed) PROVE 1 \in DOMAIN anew /\ anew[1] = Track(tracking)
  BY <1>5
<1> HIDE DEF again, wanted, anew
<1>6. again \o Refresh(m) \in Seq(Request)
  BY <1>2, Joined
<1>7. again \o Refresh(m) \o wanted \in Seq(Request)
  BY <1>2, <1>6, Joined
<1>8. Answer(m) \in Seq(Request)
  BY <1>2, <1>3, <1>7, Joined
<1>9. ASSUME AskAgain(m.feed) PROVE \E k \in DOMAIN Answer(m) : Answer(m)[k] = Track(tracking)
  <2>0. 1 \in DOMAIN again /\ again[1] = Track(tracking)
    BY <1>4, <1>9
  <2>1. PICK i \in DOMAIN (again \o Refresh(m)) : (again \o Refresh(m))[i] = Track(tracking)
    <3>1. \A k \in DOMAIN again :
            \E j \in DOMAIN (again \o Refresh(m)) : (again \o Refresh(m))[j] = again[k]
      BY <1>2, Joined
    <3> QED
      BY <2>0, <3>1
  <2>2. PICK j \in DOMAIN (again \o Refresh(m) \o wanted) :
          (again \o Refresh(m) \o wanted)[j] = Track(tracking)
    BY <1>2, <1>6, <2>1, Joined
  <2> QED
    BY <1>2, <1>3, <1>7, <2>2, Joined
<1>10. ASSUME TrackAgain(m.feed) PROVE \E k \in DOMAIN Answer(m) : Answer(m)[k] = Track(tracking)
  <2>1. 1 \in DOMAIN anew /\ anew[1] = Track(tracking)
    BY <1>5, <1>10
  <2>2. \A s \in Seq(Request) : \A k \in DOMAIN anew :
          \E j \in DOMAIN (s \o anew) : (s \o anew)[j] = anew[k]
    <3> SUFFICES ASSUME NEW s \in Seq(Request)
                 PROVE  \A k \in DOMAIN anew :
                          \E j \in DOMAIN (s \o anew) : (s \o anew)[j] = anew[k]
      OBVIOUS
    <3>1. anew \in Seq(Request)
      BY <1>2
    <3> QED
      BY <3>1, Joined
  <2>3. PICK j \in DOMAIN (again \o Refresh(m) \o wanted \o anew) :
          (again \o Refresh(m) \o wanted \o anew)[j] = Track(tracking)
    BY <1>7, <2>1, <2>2
  <2> QED
    BY <1>3, <2>3
<1> QED
  BY <1>1, <1>8, <1>9, <1>10

\* What is asked goes behind what was asked, if there is a connection.
LEMMA Asked ==
  ASSUME TypeOK, NEW r \in Seq(Request), Ask(r)
  PROVE  /\ up' \in Seq(Request)
         /\ link # "open" => up' = <<>>
         /\ \A k \in DOMAIN up : \E j \in DOMAIN up' : up'[j] = up[k]
         /\ link = "open" => \A k \in DOMAIN r : \E j \in DOMAIN up' : up'[j] = r[k]
<1>1. CASE link = "open"
  <2>1. up' = up \o r
    BY <1>1 DEF Ask
  <2>2. up \in Seq(Request)
    BY DEF TypeOK
  <2>3. /\ up \o r \in Seq(Request)
        /\ \A k \in DOMAIN up : \E j \in DOMAIN (up \o r) : (up \o r)[j] = up[k]
        /\ \A k \in DOMAIN r : \E j \in DOMAIN (up \o r) : (up \o r)[j] = r[k]
    BY <2>2, Joined
  <2> QED
    BY <1>1, <2>1, <2>3
<1>2. CASE link # "open"
  BY <1>2 DEF Ask, TypeOK
<1> QED
  BY <1>1, <1>2

LEMMA InitTyped ==
  ASSUME Init
  PROVE  Typed
<1>1. template \in [Index -> SUBSET Tx]
  BY DEF Init, Templates
<1>2. chain \in Seq(0..1) /\ Len(chain) = 1
  BY DEF Init
<1>3. down \in Seq(Message) /\ up \in Seq(Request)
  BY DEF Init
<1>4. list \subseteq BlockId
  BY BoundsAssumption DEF Init, BlockId
<1>5. deltas \in [Index -> Delta]
  BY DEF Init, Delta
<1>6. TypeOK
  <2>1. Len(chain) \in 1..MaxHeight /\ latest \in 0..MaxHeight
    BY <1>2, BoundsAssumption DEF Init
  <2>2. /\ inSync \in BOOLEAN /\ applied \in BOOLEAN /\ seq \in Nat /\ link = "open"
        /\ wants \in BOOLEAN /\ tracked = None /\ offline = FALSE
        /\ {shown, tracking} \subseteq Index \cup {None}
        /\ isTracking = FALSE /\ stopping \in BOOLEAN /\ sequence \in Nat
        /\ view \in [block : Index \cup {None}, txs : SUBSET Tx] /\ faults = {}
        /\ late = {} /\ misled = FALSE
    BY DEF Init
  <2> QED
    BY <1>1, <1>2, <1>3, <1>4, <1>5, <2>1, <2>2 DEF TypeOK
<1>7. ConnGood
  BY DEF Init, ConnGood
<1> QED
  BY <1>6, <1>7 DEF Typed

\* The projected blocks change.
LEMMA MempoolChangeTyped ==
  ASSUME Typed, NEW new \in Templates, MempoolChange(new)
  PROVE  Typed'
<1>1. TypeOK /\ ConnGood
  BY DEF Typed
<1>2. /\ template' \in [Index -> SUBSET Tx] /\ deltas' \in [Index -> Delta]
      /\ seq' \in Nat /\ seq' >= seq
  BY <1>1 DEF MempoolChange, Templates, DeltasTo, Delta, NextSeq, TypeOK
<1>3. PICK known \in SUBSET Index : Tell(seq', deltas', known) \/ Await(seq', deltas', known)
  <2>1. {i \in Index : HasDelta(i)} \in SUBSET Index
    OBVIOUS
  <2> QED
    BY <2>1 DEF MempoolChange
<1>4. /\ down' \in Seq(Message) /\ (link # "open" => down' = <<>>)
      /\ (down # <<>> => down' # <<>>)
      /\ late' \subseteq [of : 0..seq', deltas : [Index -> Delta], known : SUBSET Index]
      /\ (link # "open" => late' = {})
  BY <1>1, <1>2, <1>3, CallbackTyped
<1>5. inSync' \in BOOLEAN
  BY <1>1 DEF MempoolChange, TypeOK
<1>6. UNCHANGED <<chain, applied, link, up, wants, tracked, client, faults>>
  BY DEF MempoolChange
<1> QED
  BY <1>1, <1>2, <1>4, <1>5, <1>6
     DEF Typed, TypeOK, ConnGood, client, feed, shownBlocks

LEMMA TemplateFailsTyped ==
  ASSUME Typed, TemplateFails
  PROVE  Typed'
<1>1. TypeOK /\ ConnGood
  BY DEF Typed
<1>2. seq' \in Nat /\ seq' >= seq /\ deltas \in [Index -> Delta]
  BY <1>1 DEF TemplateFails, NextSeq, TypeOK
<1>3. Tell(seq', deltas, Index) \/ Await(seq', deltas, Index)
  BY DEF TemplateFails
<1>4. /\ down' \in Seq(Message) /\ (link # "open" => down' = <<>>)
      /\ (down # <<>> => down' # <<>>)
      /\ late' \subseteq [of : 0..seq', deltas : [Index -> Delta], known : SUBSET Index]
      /\ (link # "open" => late' = {})
  BY <1>1, <1>2, <1>3, CallbackTyped
<1>5. faults' = faults \cup {"template"}
      /\ UNCHANGED <<template, deltas, inSync, chain, applied, link, up, wants, tracked, client>>
  BY DEF TemplateFails, Fault
<1> QED
  BY <1>1, <1>2, <1>4, <1>5 DEF Typed, TypeOK, ConnGood, client, feed, shownBlocks

\* A callback that waited goes on.
LEMMA TellLateTyped ==
  ASSUME Typed, NEW w \in late, NEW n \in w.of..seq, TellLate(w, n)
  PROVE  Typed'
<1>1. TypeOK /\ ConnGood
  BY DEF Typed
<1>2. /\ late' \subseteq late
      /\ UNCHANGED <<backend, link, up, wants, tracked, client, bounds>>
  BY DEF TellLate
<1>3. w.of \in Nat /\ n \in Nat /\ w.deltas \in [Index -> Delta]
  BY <1>1 DEF TypeOK
<1>4. PICK m \in Message : Send(m)
  <2>1. tracked # None => Change(tracked, n, w.of, w.deltas[tracked]) \in Feed
    BY <1>1, <1>3, FeedTyped DEF TypeOK
  <2> QED
    BY <2>1, MessageTyped, NothingTyped DEF TellLate
<1>5. /\ down' \in Seq(Message) /\ (link # "open" => down' = <<>>)
      /\ (down # <<>> => down' # <<>>)
  BY <1>1, <1>4, Sent, AppendProperties DEF TypeOK
<1> QED
  BY <1>1, <1>2, <1>5
     DEF Typed, TypeOK, ConnGood, backend, client, feed, shownBlocks, bounds

\* A block takes its transactions out; it is not announced yet.
LEMMA ApplyBlockTyped ==
  ASSUME Typed, NEW new \in Templates, ApplyBlock(new)
  PROVE  Typed'
<1>1. TypeOK /\ ConnGood
  BY DEF Typed
<1>2. template' \in [Index -> SUBSET Tx] /\ deltas' \in [Index -> Delta]
  BY <1>1 DEF ApplyBlock, Templates, DeltasTo, Delta, TypeOK
<1>3. /\ applied' = TRUE /\ Len(chain) < MaxHeight
      /\ UNCHANGED <<inSync, seq, chain, conn, client, faults>>
  BY DEF ApplyBlock
<1> QED
  BY <1>1, <1>2, <1>3 DEF Typed, TypeOK, ConnGood, conn, client, feed, shownBlocks

LEMMA BlocksTyped ==
  ASSUME NEW c \in Seq(0..1), Len(c) \in 1..MaxHeight
  PROVE  /\ BlocksOf(c) \in SUBSET BlockId /\ BlocksOf(c) # {}
         /\ DOMAIN c = 1..Len(c)
<1>1. DOMAIN c = 1..Len(c) /\ \A h \in 1..Len(c) : c[h] \in 0..1
  BY LenProperties
<1>2. BlocksOf(c) \in SUBSET BlockId
  BY <1>1, BoundsAssumption DEF BlocksOf, BlockId
<1>3. <<1, c[1]>> \in BlocksOf(c)
  BY <1>1 DEF BlocksOf
<1> QED
  BY <1>1, <1>2, <1>3

\* The blocks above the fork are replaced.
LEMMA ReorgTyped ==
  ASSUME Typed, NEW fork \in 0..MaxHeight, Reorg(fork)
  PROVE  Typed' /\ Len(chain') = Len(chain)
<1>1. TypeOK /\ ConnGood
  BY DEF Typed
<1>2. chain' \in Seq(0..1) /\ Len(chain') = Len(chain)
  <2>1. DOMAIN chain = 1..Len(chain) /\ Len(chain) \in Nat /\ \A h \in 1..Len(chain) : chain[h] \in 0..1
    BY <1>1, LenProperties DEF TypeOK
  <2>2. chain' = [h \in 1..Len(chain) |-> IF h > fork THEN 1 ELSE chain[h]]
    BY <2>1 DEF Reorg
  <2>3. chain' \in [1..Len(chain) -> 0..1]
    BY <2>1, <2>2
  <2> QED
    BY <2>1, <2>3
<1>3. PICK m \in Message : Send(m)
  <2>1. BlocksOf(chain') \in SUBSET BlockId
    BY <1>1, <1>2, BlocksTyped DEF TypeOK
  <2>2. (IF wants THEN BlocksOf(chain') ELSE {}) \in SUBSET BlockId
    BY <2>1
  <2> QED
    BY <2>2, MessageTyped, NothingTyped DEF Reorg
<1>4. /\ down' \in Seq(Message) /\ (link # "open" => down' = <<>>)
      /\ (down # <<>> => down' # <<>>)
  BY <1>1, <1>3, Sent, AppendProperties DEF TypeOK
<1>5. faults' = faults \cup {"reorg"}
      /\ UNCHANGED <<template, deltas, inSync, seq, applied, link, up, wants, tracked, late,
                     client>>
  BY DEF Reorg, Fault
<1> QED
  BY <1>1, <1>2, <1>4, <1>5 DEF Typed, TypeOK, ConnGood, client, feed, shownBlocks

LEMMA BlockFeedTyped ==
  ASSUME TypeOK, NEW i \in Index, NEW n \in Nat
  PROVE  BlockFeed(i, n) \in Feed
BY FeedTyped DEF BlockFeed, TypeOK

\* The new block is announced.
LEMMA HandleNewBlockTyped ==
  ASSUME Typed, HandleNewBlock
  PROVE  Typed' /\ seq' \in Nat /\ chain' \in Seq(0..1) /\ Len(chain') = Len(chain) + 1
<1>1. TypeOK /\ ConnGood
  BY DEF Typed
<1>2. seq' \in Nat /\ seq' >= seq
  BY <1>1 DEF HandleNewBlock, NextSeq, TypeOK
<1>3. PICK b \in 0..1 : chain' = Append(chain, b)
  BY DEF HandleNewBlock
<1>4. /\ chain' \in Seq(0..1) /\ Len(chain') = Len(chain) + 1 /\ Len(chain') \in 1..MaxHeight
      /\ chain'[Len(chain')] = b /\ applied
  BY <1>1, <1>3, Extended, BoundsAssumption DEF HandleNewBlock, TypeOK, ConnGood
<1>5. PICK m \in Message : Send(m)
  <2>1. Last(chain') = b
    BY <1>4 DEF Last
  <2>2. <<Len(chain'), Last(chain')>> \in BlockId
    BY <1>4, <2>1 DEF BlockId
  <2>3. (IF wants THEN <<Len(chain'), Last(chain')>> ELSE NoBlock) \in BlockId \cup {NoBlock}
    BY <2>2
  <2>4. (IF inSync /\ tracked # None THEN BlockFeed(tracked, seq') ELSE NoFeed) \in Feed
    BY <1>1, <1>2, BlockFeedTyped, NothingTyped DEF TypeOK
  <2> QED
    BY <2>3, <2>4, MessageTyped, NothingTyped DEF HandleNewBlock
<1>6. /\ down' \in Seq(Message) /\ (link # "open" => down' = <<>>)
      /\ (down # <<>> => down' # <<>>)
  BY <1>1, <1>5, Sent, AppendProperties DEF TypeOK
<1>7. applied' = FALSE
      /\ UNCHANGED <<template, deltas, inSync, link, up, wants, tracked, late, client, bounds>>
  BY DEF HandleNewBlock
<1>8. /\ late' \subseteq [of : 0..seq', deltas : [Index -> Delta], known : SUBSET Index]
      /\ link # "open" => late' = {}
  BY <1>1, <1>2, <1>7, LateTyped
<1> QED
  BY <1>1, <1>2, <1>4, <1>6, <1>7, <1>8 DEF Typed, TypeOK, ConnGood, client, feed, shownBlocks, bounds

\* The handler answers what asks for something.
LEMMA HandleRequestTyped ==
  ASSUME Typed, HandleRequest
  PROVE  Typed'
<1>1. TypeOK /\ ConnGood
  BY DEF Typed
<1>2. /\ link = "open" /\ up # <<>> /\ up' = Tail(up)
      /\ wants' = (wants \/ Head(up).ask = "want")
      /\ tracked' = (IF Head(up).ask \in {"track", "stop"} THEN Head(up).index ELSE tracked)
      /\ UNCHANGED <<backend, link, late, client, bounds>>
  BY DEF HandleRequest
<1>3. /\ Head(up) \in Request /\ up' \in Seq(Request) /\ Head(up) = up[1]
      /\ DOMAIN up = 1..Len(up) /\ Len(up) \in Nat
      /\ \A k \in DOMAIN up : k # 1 => k - 1 \in DOMAIN up' /\ up'[k - 1] = up[k]
  BY <1>1, <1>2, Shortened DEF TypeOK
<1>4. tracked' \in Index \cup {None} /\ wants' \in BOOLEAN
  BY <1>1, <1>2, <1>3 DEF Request, TypeOK
<1>5. BlocksOf(chain) \in SUBSET BlockId /\ BlocksOf(chain) # {}
  BY <1>1, BlocksTyped DEF TypeOK
<1> DEFINE r == Head(up)
           blocks == IF r.ask \in {"init", "refresh"} \/ (r.ask = "want" /\ ~wants)
                     THEN BlocksOf(chain) ELSE {}
           full == IF r.ask = "track" THEN Full(r.index, seq, template[r.index]) ELSE NoFeed
<1>6. Send(Says(blocks, NoBlock, full))
  BY DEF HandleRequest
<1>7. full \in Feed
  BY <1>1, <1>3, FeedTyped, NothingTyped DEF Request, TypeOK
<1>8. blocks \in SUBSET BlockId
  BY <1>5
<1>9. r.ask = "init" => Says(blocks, NoBlock, full) # NoMessage
  BY <1>5 DEF Says, NoMessage
<1> HIDE DEF blocks, full
<1>10. Says(blocks, NoBlock, full) \in Message
  BY <1>7, <1>8, MessageTyped, NothingTyped
<1>11. /\ down' \in Seq(Message)
       /\ (down # <<>> \/ r.ask = "init" => down' # <<>>)
  BY <1>1, <1>2, <1>6, <1>9, <1>10, Sent, AppendProperties DEF TypeOK
<1>12. ConnGood'
  <2>1. Asks("init").ask = "init"
    BY DEF Asks
  <2>2. ASSUME offline, down' = <<>> PROVE \E k \in DOMAIN up' : up'[k] = Asks("init")
    <3>1. PICK k \in DOMAIN up : up[k] = Asks("init")
      BY <1>1, <1>2, <1>11, <2>2 DEF ConnGood
    <3>2. k # 1
      BY <1>3, <1>11, <2>1, <2>2, <3>1
    <3> QED
      BY <1>3, <3>1, <3>2
  <2> QED
    BY <1>1, <1>2, <2>2 DEF ConnGood, backend, client, feed
<1>13. TypeOK'
  BY <1>1, <1>2, <1>3, <1>4, <1>11 DEF TypeOK, backend, client, feed, shownBlocks, bounds
<1> QED
  BY <1>12, <1>13 DEF Typed

\* A connection breaks, is given up, and is opened again.
LEMMA LinkTyped ==
  ASSUME Typed, Cut \/ RestartBackend \/ GoOffline \/ Reconnect
  PROVE  Typed'
<1>1. TypeOK /\ ConnGood
  BY DEF Typed
<1>2. <<>> \in Seq(Message) /\ <<>> \in Seq(Request)
  OBVIOUS
<1>3. CASE Cut
  BY <1>1, <1>2, <1>3 DEF Cut, Break, Fault, Typed, TypeOK, ConnGood, backend, client, feed, shownBlocks
<1>4. CASE RestartBackend
  <2>1. chain' \in Seq(0..1) /\ Len(chain') = 1
    BY <1>1, <1>4, SubSeqProperties, LenProperties DEF RestartBackend, TypeOK
  <2>2. deltas' \in [Index -> Delta]
    BY <1>4 DEF RestartBackend, Delta
  <2>3. /\ seq' = 0 /\ inSync' = TRUE /\ applied' = FALSE /\ faults' = faults \cup {"restart"}
        /\ link' = (IF link = "open" THEN "cut" ELSE link)
        /\ down' = <<>> /\ up' = <<>> /\ wants' = FALSE /\ tracked' = None /\ late' = {}
        /\ UNCHANGED <<template, client>>
    BY <1>4 DEF RestartBackend, Break, Fault
  <2> QED
    <3>1. Len(chain') \in 1..MaxHeight
      BY <2>1, BoundsAssumption
    <3>2. link' \in {"open", "cut", "off"} /\ link' # "open" /\ (link' = "off" => offline')
      BY <1>1, <2>3 DEF TypeOK, client
    <3>3. ConnGood'
      BY <1>1, <2>3, <3>2 DEF ConnGood, client, feed
    <3> QED
      BY <1>1, <1>2, <2>1, <2>2, <2>3, <3>1, <3>2, <3>3
         DEF Typed, TypeOK, client, feed, shownBlocks
<1>5. CASE GoOffline
  BY <1>1, <1>5 DEF GoOffline, Typed, TypeOK, ConnGood, backend, client, feed, shownBlocks, bounds
<1>6. CASE Reconnect
  <2>1. Asks("init") \in Request /\ up' = <<Asks("init")>>
    BY <1>6 DEF Reconnect, Asks, Request
  <2>2. up' \in Seq(Request) /\ 1 \in DOMAIN up' /\ up'[1] = Asks("init")
    BY <2>1
  <2>3. link' = "open" /\ UNCHANGED <<backend, down, wants, tracked, late, client, bounds>>
    BY <1>6 DEF Reconnect
  <2> QED
    BY <1>1, <2>2, <2>3 DEF Typed, TypeOK, ConnGood, backend, client, feed, shownBlocks, bounds
<1> QED
  BY <1>3, <1>4, <1>5, <1>6

LEMMA ReceiveTyped ==
  ASSUME Typed, Receive
  PROVE  /\ Typed' /\ Head(down) \in Message /\ Head(down) = down[1]
         /\ \A k \in DOMAIN up : \E j \in DOMAIN up' : up'[j] = up[k]
<1>1. TypeOK /\ ConnGood
  BY DEF Typed
<1> DEFINE msg == Head(down)
<1>2. /\ link = "open" /\ down # <<>> /\ down' = Tail(down) /\ offline' = FALSE
      /\ ReceiveBlocks(msg) /\ ReceiveFeed(msg.feed) /\ Ask(Answer(msg))
      /\ isTracking' = (isTracking \/ AskAgain(msg.feed))
      /\ stopping' = (stopping /\ ~AskAgain(msg.feed) /\ ~TrackAgain(msg.feed))
      /\ UNCHANGED <<backend, link, wants, tracked, late, shown, tracking, bounds>>
  BY DEF Receive
<1>3. msg \in Message /\ msg = down[1] /\ down' \in Seq(Message)
  BY <1>1, <1>2, Shortened DEF TypeOK
<1> HIDE DEF msg
<1>4. msg.blocks \in SUBSET BlockId /\ msg.block \in BlockId \cup {NoBlock} /\ msg.feed \in Feed
  BY <1>3 DEF Message
<1>5. latest' \in 0..MaxHeight /\ list' \subseteq BlockId
  <2> DEFINE heights == {latest} \cup {b[1] : b \in msg.blocks}
             known == Max(heights)
  <2>1. heights \in SUBSET (0..MaxHeight) /\ heights # {}
    BY <1>1, <1>4 DEF TypeOK, BlockId
  <2>2. known \in 0..MaxHeight
    <3> HIDE DEF heights
    <3> QED
      BY <2>1, BoundsAssumption, Greatest
  <2>3. /\ latest' = (IF msg.block[1] = known + 1 THEN known + 1 ELSE known)
        /\ list' = (IF msg.block[1] = known + 1
                    THEN (IF msg.blocks # {} THEN msg.blocks ELSE list) \cup {msg.block}
                    ELSE (IF msg.blocks # {} THEN msg.blocks ELSE list))
    BY <1>2 DEF ReceiveBlocks
  <2> HIDE DEF known
  <2>4. msg.block[1] = known + 1 => msg.block \in BlockId /\ known + 1 \in 1..MaxHeight
    BY <1>4, <2>2 DEF BlockId, NoBlock
  <2> QED
    BY <1>1, <1>4, <2>2, <2>3, <2>4 DEF TypeOK
<1>6. /\ sequence' \in Nat /\ view' \in [block : Index \cup {None}, txs : SUBSET Tx]
      /\ misled' \in BOOLEAN
  <2> DEFINE f == msg.feed
  <2>1. IsTracked(f) => f.seq \in Nat /\ f.added \subseteq Tx /\ f.removed \subseteq Tx
    BY <1>4 DEF IsTracked, Feed, NoFeed
  <2> HIDE DEF f
  <2>2. ReceiveFeed(f)
    BY <1>2 DEF f
  <2>3. misled' \in BOOLEAN
    BY <1>1, <2>2, Zenon DEF ReceiveFeed, TypeOK
  <2>4. sequence' \in Nat /\ view' \in [block : Index \cup {None}, txs : SUBSET Tx]
    BY <1>1, <2>1, <2>2 DEF ReceiveFeed, TypeOK
  <2> QED
    BY <2>3, <2>4
<1>7. /\ up' \in Seq(Request)
      /\ \A k \in DOMAIN up : \E j \in DOMAIN up' : up'[j] = up[k]
  BY <1>1, <1>2, <1>3, AnswerTyped, Asked
<1>8. AskAgain(msg.feed) => tracking # None
  BY <1>1, <1>3, AnswerTyped, BoundsAssumption
<1>9. /\ isTracking' \in BOOLEAN /\ stopping' \in BOOLEAN
      /\ (stopping' => ~isTracking') /\ (isTracking' => tracking' # None)
  BY <1>1, <1>2, <1>8 DEF TypeOK, ConnGood
<1>10. TypeOK'
  BY <1>1, <1>2, <1>3, <1>5, <1>6, <1>7, <1>9 DEF TypeOK, backend, bounds
<1>11. ConnGood'
  BY <1>1, <1>2, <1>9 DEF ConnGood, backend
<1> QED
  BY <1>3, <1>7, <1>10, <1>11 DEF Typed, msg

\* The screen changes, and the timer fires.
LEMMA ScreenTyped ==
  ASSUME Typed, (\E i \in Index : Show(i)) \/ Leave \/ Stop
  PROVE  Typed'
<1>1. TypeOK /\ ConnGood
  BY DEF Typed
<1>2. ASSUME NEW i \in Index, Show(i) PROVE Typed'
  <2>1. i # None /\ <<Track(i)>> \in Seq(Request)
    BY BoundsAssumption DEF Track, Request
  <2>2. /\ up' \in Seq(Request) /\ (link # "open" => up' = <<>>)
        /\ \A k \in DOMAIN up : \E j \in DOMAIN up' : up'[j] = up[k]
    BY <1>1, <1>2, <2>1, Asked DEF Show, TypeOK
  <2>3. /\ shown' = i /\ stopping' = FALSE
        /\ \/ tracking' = i /\ isTracking' = TRUE
           \/ UNCHANGED <<tracking, isTracking>>
        /\ UNCHANGED <<backend, link, down, wants, tracked, late, offline, sequence, view, misled,
                       shownBlocks, faults>>
    BY <1>2 DEF Show
  <2>4. TypeOK'
    <3>1. /\ {shown', tracking'} \subseteq Index \cup {None}
          /\ isTracking' \in BOOLEAN /\ (isTracking' => tracking' # None)
      <4>1. CASE tracking' = i /\ isTracking' = TRUE
        BY <1>1, <2>1, <2>3, <4>1 DEF TypeOK
      <4>2. CASE UNCHANGED <<tracking, isTracking>>
        BY <1>1, <2>3, <4>2 DEF TypeOK
      <4> QED
        BY <2>3, <4>1, <4>2
    <3> QED
      BY <1>1, <2>2, <2>3, <3>1 DEF TypeOK, backend, shownBlocks
  <2>5. ConnGood'
    BY <1>1, <2>2, <2>3 DEF ConnGood, backend
  <2> QED
    BY <2>4, <2>5 DEF Typed
<1>3. CASE Leave
  BY <1>1, <1>3 DEF Leave, Typed, TypeOK, ConnGood, backend, conn, shownBlocks, bounds
<1>4. CASE Stop
  <2>1. <<Asks("stop")>> \in Seq(Request)
    BY DEF Asks, Request
  <2>2. /\ up' \in Seq(Request) /\ (link # "open" => up' = <<>>)
        /\ \A k \in DOMAIN up : \E j \in DOMAIN up' : up'[j] = up[k]
    BY <1>1, <1>4, <2>1, Asked DEF Stop
  <2>3. /\ stopping /\ stopping' = FALSE /\ tracking' = None
        /\ UNCHANGED <<backend, link, down, wants, tracked, late, offline, shown, isTracking, sequence,
                       view, misled, shownBlocks, bounds>>
    BY <1>4 DEF Stop
  <2>4. TypeOK'
    BY <1>1, <2>2, <2>3 DEF TypeOK, ConnGood, backend, shownBlocks, bounds
  <2>5. ConnGood'
    BY <1>1, <2>2, <2>3 DEF ConnGood, backend
  <2> QED
    BY <2>4, <2>5 DEF Typed
<1> QED
  BY <1>2, <1>3, <1>4

LEMMA NextTyped ==
  ASSUME Typed, [Next]_vars
  PROVE  Typed'
<1>1. CASE UNCHANGED vars
  BY <1>1 DEF Typed, TypeOK, ConnGood, vars, backend, conn, client, feed, shownBlocks, bounds
<1>2. CASE BlockFails
  <2>1. /\ applied' = FALSE /\ faults' = faults \cup {"block"}
        /\ UNCHANGED <<template, deltas, inSync, seq, chain, conn, client>>
    BY <1>2 DEF BlockFails, Fault
  <2> QED
    BY <2>1 DEF Typed, TypeOK, ConnGood, conn, client, feed, shownBlocks
<1>3. CASE LosesSync
  <2>1. /\ inSync' = FALSE /\ faults' = faults \cup {"sync"}
        /\ UNCHANGED <<template, deltas, applied, seq, chain, conn, client>>
    BY <1>3 DEF LosesSync, Fault
  <2> QED
    BY <2>1 DEF Typed, TypeOK, ConnGood, conn, client, feed, shownBlocks
<1> QED
  BY <1>1, <1>2, <1>3, MempoolChangeTyped, TellLateTyped, ApplyBlockTyped, ReorgTyped, TemplateFailsTyped,
     HandleNewBlockTyped, HandleRequestTyped, LinkTyped, ReceiveTyped, ScreenTyped DEF Next

\* Every variable keeps its type: messages and requests are of their kinds, a block that
\* is tracked has a number, and a broken connection carries nothing.
THEOREM TypeCorrect == Spec => []TypeOK
<1>1. Init => Typed
  BY InitTyped
<1>2. Typed /\ [Next]_vars => Typed'
  BY NextTyped
<1>3. Typed => TypeOK
  BY DEF Typed
<1> QED
  BY <1>1, <1>2, <1>3, PTL DEF Spec

-----------------------------------------------------------------------------
(* The sequence                                                            *)

\* What fits still fits when the history goes on.
LEMMA FitsKept ==
  ASSUME NEW H, NEW G, NEW f \in Feed, NEW s \in Nat, NEW n \in Nat, NEW s1 \in Nat, NEW n1 \in Nat,
         s <= n, s <= s1, n <= n1, \A k \in 0..n : G[k] = H[k], Fits(H, f, s, n)
  PROVE  Fits(G, f, s1, n1)
<1>1. CASE f.kind = "full"
  <2>1. f.seq \in 1..s /\ f.seq \in 0..n /\ (f.seq + 1 <= n => f.seq + 1 \in 0..n)
    BY <1>1 DEF Fits
  <2> QED
    BY <1>1, <2>1 DEF Fits, Shows
<1>2. CASE f.kind = "delta"
  <2>1. f.seq \in 2..s /\ f.seq \in 0..n /\ f.seq - 1 \in 0..n
    BY <1>2 DEF Fits
  <2> QED
    BY <1>2, <2>1 DEF Fits, Leads
<1> QED
  BY <1>1, <1>2 DEF Fits

LEMMA Numbers ==
  ASSUME TypeOK
  PROVE  seq \in Nat /\ Now \in Nat /\ seq <= Now /\ Now <= seq + 1
BY DEF TypeOK, Now

LEMMA NextNumbers ==
  ASSUME TypeOK'
  PROVE  seq' \in Nat /\ Now' \in Nat /\ seq' <= Now' /\ Now' <= seq' + 1
<1>1. seq' \in Nat
  BY DEF TypeOK
<1>2. Now' = seq' \/ Now' = seq' + 1
  BY DEF Now
<1> QED
  BY <1>1, <1>2

LEMMA FeedsTyped ==
  ASSUME TypeOK
  PROVE  \A k \in DOMAIN down : down[k] \in Message /\ down[k].feed \in Feed
<1>1. down \in Seq(Message) /\ DOMAIN down = 1..Len(down)
  BY LenProperties DEF TypeOK
<1>2. \A k \in DOMAIN down : down[k] \in Message
  BY <1>1, ElementOfSeq
<1> QED
  BY <1>2 DEF Message

\* The queue of the client when the history goes on and a message is sent.
LEMMA DownKept ==
  ASSUME TypeOK, TypeOK', NEW H, NEW G, DownFits(H), seq <= seq', Now <= Now',
         \A k \in 0..Now : G[k] = H[k], NEW m \in Message, Send(m), Fits(G, m.feed, seq', Now')
  PROVE  /\ DownFits(G)'
         /\ \A k \in DOMAIN down : k \in DOMAIN down' /\ down'[k] = down[k]
<1>1. /\ seq \in Nat /\ Now \in Nat /\ seq <= Now
      /\ seq' \in Nat /\ Now' \in Nat /\ seq' <= Now'
  BY Numbers, NextNumbers
<1>2. \A k \in DOMAIN down : down[k] \in Message /\ down[k].feed \in Feed
  BY FeedsTyped
<1>3. \A k \in DOMAIN down : Fits(G, down[k].feed, seq', Now')
  <2> SUFFICES ASSUME NEW k \in DOMAIN down
               PROVE  Fits(G, down[k].feed, seq', Now')
    OBVIOUS
  <2>1. Fits(H, down[k].feed, seq, Now) /\ down[k].feed \in Feed
    BY <1>2 DEF DownFits
  <2> QED
    BY <1>1, <2>1, FitsKept
<1>4. CASE down' = down
  BY <1>3, <1>4 DEF DownFits
<1>5. CASE down' = Append(down, m)
  <2>1. /\ DOMAIN down = 1..Len(down) /\ DOMAIN down' = 1 .. Len(down) + 1 /\ Len(down) \in Nat
        /\ \A k \in DOMAIN down : down'[k] = down[k]
        /\ down'[Len(down) + 1] = m
    BY <1>5, Extended DEF TypeOK
  <2>2. \A k \in DOMAIN down' : k \in DOMAIN down \/ k = Len(down) + 1
    BY <2>1
  <2> QED
    BY <1>3, <2>1, <2>2 DEF DownFits
<1> QED
  BY <1>4, <1>5, Sent

\* What waits, when the history goes on.
LEMMA LateKept ==
  ASSUME TypeOK, TypeOK', NEW H, NEW G, LateFits(H), seq <= seq', late' \subseteq late,
         \A k \in 0..Now : G[k] = H[k]
  PROVE  LateFits(G)'
<1>1. seq \in Nat /\ Now \in Nat /\ seq <= Now /\ seq' \in Nat
  BY Numbers, NextNumbers
<1> SUFFICES ASSUME NEW w \in late'
             PROVE  w.of \in 2..seq' /\ \A i \in w.known : Leads(G, w.deltas[i], i, w.of)
  BY DEF LateFits
<1>2. w.of \in 2..seq /\ \A i \in w.known : Leads(H, w.deltas[i], i, w.of)
  BY DEF LateFits
<1>3. G[w.of] = H[w.of] /\ G[w.of - 1] = H[w.of - 1]
  BY <1>1, <1>2
<1> QED
  BY <1>1, <1>2, <1>3 DEF Leads

\* The client while only the backend acts.
LEMMA ViewKept ==
  ASSUME TypeOK, TypeOK', NEW H, NEW G, ViewFits(H), seq <= seq', Now <= Now',
         \A k \in 0..Now : G[k] = H[k], Coming => Coming',
         UNCHANGED <<isTracking, link, offline, tracking, sequence, view, misled>>
  PROVE  ViewFits(G)'
<1>1. /\ seq \in Nat /\ Now \in Nat /\ seq <= Now
      /\ seq' \in Nat /\ Now' \in Nat /\ seq' <= Now'
  BY Numbers, NextNumbers
<1>2. SUFFICES ASSUME isTracking', link' = "open", ~offline', ~misled', ~Coming'
               PROVE  /\ sequence' \in 1..seq' /\ view'.block = tracking'
                      /\ Shows(G, view'.txs, sequence', tracking', Now')
  BY DEF ViewFits
<1>3. /\ sequence \in 1..seq /\ view.block = tracking
      /\ Shows(H, view.txs, sequence, tracking, Now)
  BY <1>2 DEF ViewFits
<1>4. sequence \in 0..Now /\ (sequence + 1 <= Now => sequence + 1 \in 0..Now)
  BY <1>1, <1>3
<1> QED
  BY <1>1, <1>3, <1>4 DEF Shows

\* Who is asked for, or on the way, remains so while messages are sent.
LEMMA ComingKept ==
  ASSUME UNCHANGED <<up, tracking>>, \A k \in DOMAIN down : k \in DOMAIN down' /\ down'[k] = down[k]
  PROVE  Coming => Coming'
<1>1. CASE \E k \in DOMAIN up : up[k] = Track(tracking)
  BY <1>1 DEF Coming
<1>2. ASSUME NEW k \in DOMAIN down, down[k].feed.kind = "full", down[k].feed.index = tracking
      PROVE  Coming'
  BY <1>2 DEF Coming
<1> QED
  BY <1>1, <1>2 DEF Coming

LEMMA InitTold ==
  ASSUME Init
  PROVE  Told
<1> DEFINE H == [n \in Nat |-> template]
<1>1. template \in [Index -> SUBSET Tx] /\ H \in History
  BY DEF Init, Templates, History
<1>2. BackendTold(H)
  BY <1>1 DEF Init, BackendTold, Now, Patched
<1>3. DownFits(H) /\ LateFits(H) /\ ViewFits(H)
  BY DEF Init, DownFits, LateFits, ViewFits
<1> QED
  BY <1>1, <1>2, <1>3 DEF Told, FeedFits

\* The history goes on with the projected blocks of the next number.
LEMMA HistoryOn ==
  ASSUME NEW H \in History, NEW n \in Nat, NEW t \in [Index -> SUBSET Tx]
  PROVE  \E G \in History : G[n + 1] = t /\ \A k \in 0..n : G[k] = H[k]
<1>1. [H EXCEPT ![n + 1] = t] \in History
  BY DEF History
<1>2. [H EXCEPT ![n + 1] = t][n + 1] = t
  BY DEF History
<1>3. \A k \in 0..n : [H EXCEPT ![n + 1] = t][k] = H[k]
  BY DEF History
<1> QED
  BY <1>1, <1>2, <1>3

\* What changed leads from the old projected block to the new, and leaves the new alone.
LEMMA DeltaLeads ==
  ASSUME NEW t, NEW u
  PROVE  LET d == [added |-> u \ t, removed |-> t \ u] IN
         Patched(t, d) = u /\ Patched(u, d) = u
BY DEF Patched

LEMMA NothingFits == \A H, s, n : Fits(H, NoFeed, s, n)
BY DEF Fits, NoFeed

\* What changed in a projected block, sent, does what the change does.
LEMMA ChangeFits ==
  ASSUME TypeOK, NEW H, NEW i \in Index, NEW d \in Delta, NEW k \in Nat, NEW n \in Nat,
         NEW s \in Nat, NEW t, n \in 2..s, n = k => Leads(H, d, i, k)
  PROVE  /\ Change(i, n, k, d) \in Feed
         /\ Fits(H, Change(i, n, k, d), s, t)
<1> DEFINE f == Change(i, n, k, d)
<1>1. f.kind = "delta" /\ f.index = i /\ f.seq = n /\ f.of = k
  BY DEF Change
<1>2. \A txs : Patched(txs, f) = Patched(txs, d)
  BY DEF Patched, Change
<1>3. f \in Feed
  BY FeedTyped
<1> HIDE DEF f
<1>4. Fits(H, f, s, t)
  BY <1>1, <1>2 DEF Fits, Leads
<1> QED
  BY <1>3, <1>4 DEF f

LEMMA MessageFeed == (\A f : Says({}, NoBlock, f).feed = f) /\ NoMessage.feed = NoFeed
BY DEF NoMessage, Says

\* The callback of an update, when the history goes on with its number.
LEMMA CallbackTold ==
  ASSUME TypeOK, TypeOK', NEW H, NEW G, DownFits(H), LateFits(H), seq >= 1, seq' = seq + 1,
         Now = seq, Now' = seq + 1, \A k \in 0..seq : G[k] = H[k], UNCHANGED <<up, tracking>>,
         NEW d \in [Index -> Delta], NEW known \in SUBSET Index,
         \A i \in known : Leads(G, d[i], i, seq + 1),
         Tell(seq', d, known) \/ Await(seq', d, known)
  PROVE  DownFits(G)' /\ LateFits(G)' /\ (Coming => Coming')
<1>0. seq \in Nat /\ tracked \in Index \cup {None}
  BY DEF TypeOK
<1>1. CASE Tell(seq', d, known)
  <2>1. PICK m \in Message : Send(m) /\ Fits(G, m.feed, seq', Now')
    <3>1. ASSUME tracked # None, tracked \in known
          PROVE  /\ Change(tracked, seq', seq', d[tracked]) \in Feed
                 /\ Fits(G, Change(tracked, seq', seq', d[tracked]), seq', Now')
      BY <1>0, <3>1, ChangeFits
    <3>2. CASE inSync /\ tracked # None /\ tracked \in known
      BY <1>1, <3>1, <3>2, MessageFeed, MessageTyped, NothingTyped DEF Tell
    <3>3. CASE ~(inSync /\ tracked # None /\ tracked \in known)
      BY <1>1, <3>3, MessageFeed, NothingTyped, NothingFits DEF Tell
    <3> QED
      BY <3>2, <3>3
  <2>2. DownFits(G)' /\ (\A k \in DOMAIN down : k \in DOMAIN down' /\ down'[k] = down[k])
    BY <1>0, <2>1, DownKept
  <2>3. late' \subseteq late
    BY <1>1 DEF Tell
  <2> QED
    BY <1>0, <2>2, <2>3, LateKept, ComingKept
<1>2. CASE Await(seq', d, known)
  <2>1. /\ down' = down
        /\ late' = late \cup {[of |-> seq', deltas |-> d, known |-> known]}
    BY <1>2 DEF Await
  <2>2. NoMessage \in Message /\ Send(NoMessage) /\ Fits(G, NoMessage.feed, seq', Now')
    BY <2>1, MessageFeed, NothingTyped, NothingFits DEF Send
  <2>3. DownFits(G)' /\ (\A k \in DOMAIN down : k \in DOMAIN down' /\ down'[k] = down[k])
    BY <1>0, <2>2, DownKept
  <2>4. ASSUME NEW w \in late
        PROVE  w.of \in 2..seq' /\ \A i \in w.known : Leads(G, w.deltas[i], i, w.of)
    <3>1. w.of \in 2..seq /\ \A i \in w.known : Leads(H, w.deltas[i], i, w.of)
      BY DEF LateFits
    <3>2. G[w.of] = H[w.of] /\ G[w.of - 1] = H[w.of - 1]
      BY <1>0, <3>1
    <3> QED
      BY <1>0, <3>1, <3>2 DEF Leads
  <2>5. seq' \in 2..seq'
    BY <1>0
  <2>6. LateFits(G)'
    BY <2>1, <2>4, <2>5 DEF LateFits
  <2> QED
    BY <2>3, <2>6, ComingKept
<1> QED
  BY <1>1, <1>2

\* An update: the next number is the new projected blocks.
LEMMA MempoolChangeTold ==
  ASSUME Typed, Typed', NEW H \in History, FeedFits(H),
         NEW new \in Templates, MempoolChange(new)
  PROVE  \E G \in History : FeedFits(G)'
<1>1. TypeOK /\ TypeOK' /\ BackendTold(H) /\ DownFits(H) /\ LateFits(H) /\ ViewFits(H)
  BY DEF Typed, FeedFits
<1>2. /\ ~applied /\ inSync /\ seq \in Nat /\ seq >= 1 /\ seq' = seq + 1 /\ inSync' = TRUE
      /\ template' = new /\ new \in [Index -> SUBSET Tx] /\ template = H[seq]
      /\ UNCHANGED <<applied, link, up, tracked, client>>
  BY <1>1 DEF MempoolChange, BackendTold, Now, NextSeq, Templates, TypeOK
<1>3. Now = seq /\ Now' = seq + 1
  BY <1>2 DEF Now
<1>4. PICK G \in History : G[seq + 1] = new /\ \A k \in 0..seq : G[k] = H[k]
  BY <1>2, HistoryOn
<1>5. G[seq] = template
  BY <1>2, <1>4
<1>6. \A i \in Index : Patched(template[i], deltas'[i]) = new[i] /\ Patched(new[i], deltas'[i]) = new[i]
  BY DeltaLeads DEF MempoolChange, DeltasTo
<1>7. BackendTold(G)'
  BY <1>2, <1>3, <1>4, <1>6 DEF BackendTold
<1>8. \A i \in Index : Leads(G, deltas'[i], i, seq + 1)
  BY <1>2, <1>4, <1>5, <1>6 DEF Leads
<1>9. PICK known \in SUBSET Index : Tell(seq', deltas', known) \/ Await(seq', deltas', known)
  <2>1. {i \in Index : HasDelta(i)} \in SUBSET Index
    OBVIOUS
  <2> QED
    BY <2>1 DEF MempoolChange
<1>10. deltas' \in [Index -> Delta] /\ UNCHANGED tracking
  BY <1>1, <1>2 DEF TypeOK, client, feed
<1>11. DownFits(G)' /\ LateFits(G)' /\ (Coming => Coming')
  BY <1>1, <1>2, <1>3, <1>4, <1>8, <1>9, <1>10, CallbackTold
<1>12. ViewFits(G)'
  BY <1>1, <1>2, <1>3, <1>4, <1>11, ViewKept DEF client, feed
<1> QED
  BY <1>7, <1>11, <1>12 DEF FeedFits

\* A failure: the next number is the projected blocks as they were.
LEMMA TemplateFailsTold ==
  ASSUME Typed, Typed', NEW H \in History, FeedFits(H), TemplateFails
  PROVE  \E G \in History : FeedFits(G)'
<1>1. TypeOK /\ TypeOK' /\ BackendTold(H) /\ DownFits(H) /\ LateFits(H) /\ ViewFits(H)
  BY DEF Typed, FeedFits
<1>2. /\ ~applied /\ inSync /\ seq \in Nat /\ seq >= 1 /\ seq' = seq + 1
      /\ template \in [Index -> SUBSET Tx] /\ template = H[seq]
      /\ \A i \in Index : Patched(template[i], deltas[i]) = template[i]
      /\ UNCHANGED <<template, deltas, inSync, applied, link, up, tracked, client>>
  BY <1>1 DEF TemplateFails, BackendTold, Now, NextSeq, TypeOK
<1>3. Now = seq /\ Now' = seq + 1
  BY <1>2 DEF Now
<1>4. PICK G \in History : G[seq + 1] = template /\ \A k \in 0..seq : G[k] = H[k]
  BY <1>2, HistoryOn
<1>5. G[seq] = template
  BY <1>2, <1>4
<1>6. BackendTold(G)'
  BY <1>2, <1>3, <1>4 DEF BackendTold
<1>7. \A i \in Index : Leads(G, deltas[i], i, seq + 1)
  BY <1>2, <1>4, <1>5 DEF Leads
<1>8. Tell(seq', deltas, Index) \/ Await(seq', deltas, Index)
  BY DEF TemplateFails
<1>9. deltas \in [Index -> Delta] /\ Index \in SUBSET Index /\ UNCHANGED tracking
  BY <1>1, <1>2 DEF TypeOK, client, feed
<1>10. DownFits(G)' /\ LateFits(G)' /\ (Coming => Coming')
  BY <1>1, <1>2, <1>3, <1>4, <1>7, <1>8, <1>9, CallbackTold
<1>11. ViewFits(G)'
  BY <1>1, <1>2, <1>3, <1>4, <1>10, ViewKept DEF client, feed
<1> QED
  BY <1>6, <1>10, <1>11 DEF FeedFits

\* A callback that waited sends what its update changed: under the number of the update
\* that leads to its blocks, under a later one the client is misled by it.
LEMMA TellLateTold ==
  ASSUME Typed, Typed', NEW H \in History, FeedFits(H),
         NEW w \in late, NEW n \in w.of..seq, TellLate(w, n)
  PROVE  FeedFits(H)'
<1>1. TypeOK /\ TypeOK' /\ BackendTold(H) /\ DownFits(H) /\ LateFits(H) /\ ViewFits(H)
  BY DEF Typed, FeedFits
<1>2. /\ late' \subseteq late
      /\ UNCHANGED <<backend, link, up, tracked, client, tracking>>
  BY DEF TellLate, client, feed
<1>3. seq \in Nat /\ seq' = seq /\ Now' = Now /\ Now \in Nat
  BY <1>1, <1>2, Numbers DEF Now, backend
<1>4. /\ w.of \in 2..seq /\ \A i \in w.known : Leads(H, w.deltas[i], i, w.of)
      /\ w.deltas \in [Index -> Delta] /\ tracked \in Index \cup {None}
  BY <1>1 DEF LateFits, TypeOK
<1>5. n \in 2..seq /\ n \in Nat /\ w.of \in Nat
  BY <1>3, <1>4
<1>6. PICK m \in Message : Send(m) /\ Fits(H, m.feed, seq, Now)
  <2>1. ASSUME tracked # None, tracked \in w.known
        PROVE  /\ Change(tracked, n, w.of, w.deltas[tracked]) \in Feed
               /\ Fits(H, Change(tracked, n, w.of, w.deltas[tracked]), seq, Now)
    BY <1>1, <1>3, <1>4, <1>5, <2>1, ChangeFits
  <2>2. CASE inSync /\ tracked # None /\ tracked \in w.known
    BY <2>1, <2>2, MessageFeed, MessageTyped, NothingTyped DEF TellLate
  <2>3. CASE ~(inSync /\ tracked # None /\ tracked \in w.known)
    BY <2>3, MessageFeed, NothingTyped, NothingFits DEF TellLate
  <2> QED
    BY <2>2, <2>3
<1>7. /\ \A k \in 0..Now : H[k] = H[k]
      /\ seq <= seq' /\ Now <= Now'
  BY <1>3
<1>8. DownFits(H)' /\ (\A k \in DOMAIN down : k \in DOMAIN down' /\ down'[k] = down[k])
  BY <1>1, <1>3, <1>6, <1>7, DownKept
<1>9. Coming => Coming'
  BY <1>2, <1>8, ComingKept
<1>10. LateFits(H)'
  BY <1>1, <1>2, <1>7, LateKept
<1>11. ViewFits(H)'
  BY <1>1, <1>2, <1>7, <1>9, ViewKept DEF client, feed
<1>12. BackendTold(H)'
  BY <1>1, <1>2, <1>3 DEF BackendTold, backend
<1> QED
  BY <1>8, <1>10, <1>11, <1>12 DEF FeedFits

\* A block is applied: the projected blocks are those of the next number before it is told.
LEMMA ApplyBlockTold ==
  ASSUME Typed, Typed', NEW H \in History, FeedFits(H), NEW new \in Templates, ApplyBlock(new)
  PROVE  \E G \in History : FeedFits(G)'
<1>1. TypeOK /\ TypeOK' /\ BackendTold(H) /\ DownFits(H) /\ LateFits(H) /\ ViewFits(H)
  BY DEF Typed, FeedFits
<1>2. /\ ~applied /\ applied' /\ inSync /\ seq \in Nat /\ seq >= 1
      /\ template' = new /\ new \in [Index -> SUBSET Tx] /\ template = H[seq]
      /\ UNCHANGED <<inSync, seq, link, down, up, tracked, late, client>>
  BY <1>1 DEF ApplyBlock, BackendTold, Now, Templates, TypeOK, conn
<1>3. Now = seq /\ Now' = seq + 1
  BY <1>2 DEF Now
<1>4. PICK G \in History : G[seq + 1] = new /\ \A k \in 0..seq : G[k] = H[k]
  BY <1>2, HistoryOn
<1>5. G[seq] = template
  BY <1>2, <1>4
<1>6. \A i \in Index : Patched(template[i], deltas'[i]) = new[i] /\ Patched(new[i], deltas'[i]) = new[i]
  BY DeltaLeads DEF ApplyBlock, DeltasTo
<1>7. BackendTold(G)'
  BY <1>2, <1>3, <1>4, <1>5, <1>6 DEF BackendTold
<1>8. DownFits(G)'
  <2> SUFFICES ASSUME NEW k \in DOMAIN down
               PROVE  Fits(G, down[k].feed, seq, Now')
    BY <1>2 DEF DownFits
  <2>1. down[k].feed \in Feed /\ Fits(H, down[k].feed, seq, Now)
    BY <1>1, FeedsTyped DEF DownFits
  <2> QED
    BY <1>2, <1>3, <1>4, <2>1, FitsKept
<1>9. Coming => Coming'
  BY <1>2, ComingKept DEF client, feed
<1>10. ViewFits(G)'
  BY <1>1, <1>2, <1>3, <1>4, <1>9, ViewKept DEF client, feed
<1>11. LateFits(G)'
  <2>1. seq <= seq' /\ late' \subseteq late
    BY <1>2
  <2> QED
    BY <1>1, <1>3, <1>4, <2>1, LateKept
<1> QED
  BY <1>7, <1>8, <1>10, <1>11 DEF FeedFits

\* A reorganisation says nothing of the projected blocks.
LEMMA ReorgTold ==
  ASSUME Typed, Typed', NEW H \in History, FeedFits(H), NEW fork \in 0..MaxHeight, Reorg(fork)
  PROVE  FeedFits(H)'
<1>1. TypeOK /\ TypeOK' /\ BackendTold(H) /\ DownFits(H) /\ LateFits(H) /\ ViewFits(H)
  BY DEF Typed, FeedFits
<1>2. /\ seq \in Nat
      /\ UNCHANGED <<template, deltas, inSync, seq, applied, link, up, tracked, late, client>>
  BY <1>1 DEF Reorg, TypeOK
<1>3. Now' = Now
  BY <1>2 DEF Now
<1>4. BackendTold(H)'
  BY <1>1, <1>2, <1>3 DEF BackendTold
<1>5. PICK m \in Message : Send(m) /\ Fits(H, m.feed, seq', Now')
  <2> DEFINE m == Says(IF wants THEN BlocksOf(chain') ELSE {}, NoBlock, NoFeed)
  <2>1. chain' \in Seq(0..1) /\ Len(chain') \in 1..MaxHeight
    BY <1>1 DEF TypeOK
  <2>2. (IF wants THEN BlocksOf(chain') ELSE {}) \in SUBSET BlockId
    BY <2>1, BlocksTyped
  <2>3. m \in Message /\ Send(m)
    BY <2>2, MessageTyped, NothingTyped DEF Reorg
  <2>4. m.feed = NoFeed
    BY DEF Says
  <2> QED
    BY <2>3, <2>4, NothingFits
<1>6. DownFits(H)' /\ (\A k \in DOMAIN down : k \in DOMAIN down' /\ down'[k] = down[k])
  <2>1. Now \in Nat
    BY <1>1, Numbers
  <2> QED
    BY <1>1, <1>2, <1>3, <1>5, <2>1, DownKept
<1>7. Coming => Coming'
  BY <1>2, <1>6, ComingKept DEF client, feed
<1>8. ViewFits(H)'
  <2>1. Now \in Nat
    BY <1>1, Numbers
  <2> QED
    BY <1>1, <1>2, <1>3, <1>7, <2>1, ViewKept DEF client, feed
<1>9. LateFits(H)'
  <2>1. seq <= seq' /\ late' \subseteq late /\ \A k \in 0..Now : H[k] = H[k]
    BY <1>2
  <2> QED
    BY <1>1, <2>1, LateKept
<1> QED
  BY <1>4, <1>6, <1>8, <1>9 DEF FeedFits

\* A block is announced under the number its projected blocks have already.
LEMMA HandleNewBlockTold ==
  ASSUME Typed, Typed', NEW H \in History, FeedFits(H), HandleNewBlock
  PROVE  FeedFits(H)'
<1>1. TypeOK /\ TypeOK' /\ BackendTold(H) /\ DownFits(H) /\ LateFits(H) /\ ViewFits(H)
  BY DEF Typed, FeedFits
<1>2. /\ applied /\ ~applied' /\ inSync /\ seq \in Nat /\ seq >= 1 /\ seq' = seq + 1
      /\ template = H[Now] /\ H[Now] \in [Index -> SUBSET Tx]
      /\ \A i \in Index : /\ Patched(template[i], deltas[i]) = template[i]
                          /\ Patched(H[seq][i], deltas[i]) = template[i]
      /\ UNCHANGED <<template, deltas, inSync, link, up, tracked, late, client>>
  BY <1>1 DEF HandleNewBlock, BackendTold, NextSeq, TypeOK
<1>3. Now = seq + 1 /\ Now' = seq + 1
  BY <1>2 DEF Now
<1>4. BackendTold(H)'
  BY <1>2, <1>3 DEF BackendTold
<1>5. ASSUME NEW i \in Index
      PROVE  BlockFeed(i, seq') \in Feed /\ Fits(H, BlockFeed(i, seq'), seq', Now')
  <2>1. BlockFeed(i, seq') \in Feed
    BY <1>1, <1>2, BlockFeedTyped
  <2>2. CASE BlockFeed(i, seq') = NoFeed
    BY <2>1, <2>2, NothingFits
  <2>3. CASE BlockFeed(i, seq') = Full(i, seq', template[i])
    <3> DEFINE f == Full(i, seq', template[i])
    <3>1. f.kind = "full" /\ f.index = i /\ f.seq = seq + 1 /\ f.added = template[i]
      BY <1>2 DEF Full
    <3> HIDE DEF f
    <3>2. Fits(H, f, seq', Now')
      BY <1>2, <1>3, <3>1 DEF Fits, Shows
    <3> QED
      BY <2>1, <2>3, <3>2 DEF f
  <2>4. CASE BlockFeed(i, seq') = Change(i, seq', seq', deltas[i])
    <3>1. Leads(H, deltas[i], i, seq')
      BY <1>2, <1>3 DEF Leads
    <3>2. seq' \in Nat /\ seq' \in 2..seq' /\ deltas[i] \in Delta
      BY <1>1, <1>2 DEF TypeOK
    <3> QED
      BY <1>1, <2>1, <2>4, <3>1, <3>2, ChangeFits
  <2> QED
    BY <2>2, <2>3, <2>4 DEF BlockFeed
<1>6. PICK m \in Message : Send(m) /\ Fits(H, m.feed, seq', Now')
  <2> DEFINE b == IF wants THEN <<Len(chain'), Last(chain')>> ELSE NoBlock
             f == IF inSync /\ tracked # None THEN BlockFeed(tracked, seq') ELSE NoFeed
  <2>1. f \in Feed /\ Fits(H, f, seq', Now')
    BY <1>1, <1>5, NothingTyped, NothingFits DEF TypeOK
  <2>2. b \in BlockId \cup {NoBlock}
    <3>1. chain' \in Seq(0..1) /\ Len(chain') \in 1..MaxHeight
      BY <1>1 DEF TypeOK
    <3>2. Last(chain') \in 0..1
      BY <3>1, ElementOfSeq, LenProperties DEF Last
    <3> QED
      BY <3>1, <3>2 DEF BlockId
  <2>3. Send(Says({}, b, f))
    BY DEF HandleNewBlock
  <2> HIDE DEF b, f
  <2>4. Says({}, b, f) \in Message
    BY <2>1, <2>2, MessageTyped, NothingTyped
  <2>5. Says({}, b, f).feed = f
    BY DEF Says
  <2> QED
    BY <2>1, <2>3, <2>4, <2>5
<1>7. DownFits(H)' /\ (\A k \in DOMAIN down : k \in DOMAIN down' /\ down'[k] = down[k])
  BY <1>1, <1>2, <1>3, <1>6, DownKept
<1>8. Coming => Coming'
  BY <1>2, <1>7, ComingKept DEF client, feed
<1>9. ViewFits(H)'
  BY <1>1, <1>2, <1>3, <1>8, ViewKept DEF client, feed
<1>10. LateFits(H)'
  <2>1. seq <= seq' /\ late' \subseteq late /\ \A k \in 0..Now : H[k] = H[k]
    BY <1>2
  <2> QED
    BY <1>1, <2>1, LateKept
<1> QED
  BY <1>4, <1>7, <1>9, <1>10 DEF FeedFits

\* Who asks for a projected block gets it as it is, under the number told last.
LEMMA HandleRequestTold ==
  ASSUME Typed, Typed', NEW H \in History, FeedFits(H), HandleRequest
  PROVE  FeedFits(H)'
<1>1. TypeOK /\ TypeOK' /\ BackendTold(H) /\ DownFits(H) /\ LateFits(H) /\ ViewFits(H)
  BY DEF Typed, FeedFits
<1>2. /\ seq \in Nat /\ seq >= 1 /\ template = H[Now]
      /\ link = "open" /\ up # <<>> /\ up' = Tail(up)
      /\ UNCHANGED <<backend, link, late, client, bounds>>
  BY <1>1 DEF HandleRequest, BackendTold, TypeOK
<1>3. Now' = Now /\ (Now = seq \/ Now = seq + 1) /\ seq' = seq
  BY <1>2 DEF Now, backend
<1>4. BackendTold(H)'
  BY <1>1, <1>2, <1>3 DEF BackendTold, backend
<1> DEFINE r == Head(up)
           blocks == IF r.ask \in {"init", "refresh"} \/ (r.ask = "want" /\ ~wants)
                     THEN BlocksOf(chain) ELSE {}
           full == IF r.ask = "track" THEN Full(r.index, seq, template[r.index]) ELSE NoFeed
           m == Says(blocks, NoBlock, full)
<1>5. /\ r \in Request /\ r = up[1]
      /\ \A k \in DOMAIN up : k # 1 => k - 1 \in DOMAIN up' /\ up'[k - 1] = up[k]
  BY <1>1, <1>2, Shortened DEF TypeOK
<1>6. full \in Feed /\ Fits(H, full, seq', Now')
  <2>1. CASE r.ask = "track"
    <3>1. r.index \in Index
      BY <1>5, <2>1 DEF Request
    <3> DEFINE f == Full(r.index, seq, template[r.index])
    <3>2. f.kind = "full" /\ f.index = r.index /\ f.seq = seq /\ f.added = template[r.index]
      BY DEF Full
    <3>3. f \in Feed
      BY <1>1, <3>1, FeedTyped DEF TypeOK
    <3> HIDE DEF f
    <3>4. Fits(H, f, seq', Now')
      BY <1>2, <1>3, <3>1, <3>2 DEF Fits, Shows
    <3> QED
      BY <2>1, <3>3, <3>4 DEF f
  <2>2. CASE r.ask # "track"
    BY <2>2, NothingTyped, NothingFits
  <2> QED
    BY <2>1, <2>2
<1>7. Send(m)
  BY DEF HandleRequest
<1>8. blocks \in SUBSET BlockId
  BY <1>1, BlocksTyped DEF TypeOK
<1>9. ASSUME r = Track(tracking)
      PROVE  full.kind = "full" /\ full.index = tracking
  BY <1>9 DEF Track, Full
<1> HIDE DEF r, blocks, full
<1>10. m.feed = full /\ m \in Message
  <2>1. m \in Message
    BY <1>6, <1>8, MessageTyped, NothingTyped
  <2> QED
    BY <2>1 DEF Says
<1>11. full.kind = "full" => m # NoMessage
  BY <1>10 DEF NoMessage, Says, NoFeed
<1> HIDE DEF m
<1>12. DownFits(H)' /\ (\A k \in DOMAIN down : k \in DOMAIN down' /\ down'[k] = down[k])
  <2>1. \A k \in 0..Now : H[k] = H[k]
    OBVIOUS
  <2>2. seq <= seq' /\ Now <= Now'
    BY <1>2, <1>3
  <2> QED
    BY <1>1, <1>6, <1>7, <1>10, <2>1, <2>2, DownKept
<1>13. Coming => Coming'
  <2>1. tracking' = tracking
    BY <1>2 DEF client, feed
  <2>2. ASSUME NEW k \in DOMAIN up, up[k] = Track(tracking) PROVE Coming'
    <3>1. CASE k = 1
      <4>1. full.kind = "full" /\ full.index = tracking
        BY <1>5, <1>9, <2>2, <3>1
      <4>2. down' = Append(down, m)
        BY <1>1, <1>2, <1>7, <1>10, <1>11, <4>1, Sent
      <4>3. Len(down) + 1 \in DOMAIN down' /\ down'[Len(down) + 1] = m
        BY <1>1, <1>10, <4>2, Extended DEF TypeOK
      <4> QED
        BY <1>10, <2>1, <4>1, <4>3 DEF Coming
    <3>2. CASE k # 1
      BY <1>5, <2>1, <2>2, <3>2 DEF Coming
    <3> QED
      BY <3>1, <3>2
  <2>3. ASSUME NEW k \in DOMAIN down, down[k].feed.kind = "full", down[k].feed.index = tracking
        PROVE  Coming'
    BY <1>12, <2>1, <2>3 DEF Coming
  <2> QED
    BY <2>2, <2>3 DEF Coming
<1>14. ViewFits(H)'
  <2>1. \A k \in 0..Now : H[k] = H[k]
    OBVIOUS
  <2>2. seq <= seq' /\ Now <= Now'
    BY <1>2, <1>3
  <2> QED
    BY <1>1, <1>2, <1>13, <2>1, <2>2, ViewKept DEF client, feed
<1>15. LateFits(H)'
  <2>1. seq <= seq' /\ late' \subseteq late /\ \A k \in 0..Now : H[k] = H[k]
    BY <1>2, <1>3
  <2> QED
    BY <1>1, <2>1, LateKept
<1> QED
  BY <1>4, <1>12, <1>14, <1>15 DEF FeedFits

\* While a connection is broken or not yet answered, nothing is claimed of the view.
LEMMA LinkTold ==
  ASSUME Typed, Typed', NEW H \in History, FeedFits(H), Cut \/ GoOffline \/ Reconnect
  PROVE  FeedFits(H)'
<1>1. TypeOK /\ TypeOK' /\ BackendTold(H) /\ DownFits(H) /\ LateFits(H)
  BY DEF Typed, FeedFits
<1>2. UNCHANGED backend
  BY DEF Cut, GoOffline, Reconnect
<1>3. BackendTold(H)'
  BY <1>1, <1>2 DEF BackendTold, Now, backend
<1>4. DownFits(H)'
  <2>1. down' = down \/ down' = <<>>
    BY DEF Cut, Break, GoOffline, Reconnect
  <2>2. CASE down' = <<>>
    BY <2>2 DEF DownFits
  <2>3. CASE down' = down
    BY <1>1, <1>2, <2>3 DEF DownFits, Now, backend
  <2> QED
    BY <2>1, <2>2, <2>3
<1>5. link' # "open" \/ offline'
  BY <1>1 DEF Cut, GoOffline, Reconnect, TypeOK, client
<1>6. LateFits(H)'
  <2>1. late' \subseteq late
    BY DEF Cut, Break, GoOffline, Reconnect
  <2>2. seq <= seq' /\ \A k \in 0..Now : H[k] = H[k]
    BY <1>1, <1>2 DEF TypeOK, backend
  <2> QED
    BY <1>1, <2>1, <2>2, LateKept
<1> QED
  BY <1>3, <1>4, <1>5, <1>6 DEF FeedFits, ViewFits

\* A message: a block in full gives its number, a change goes on from the number the client
\* has, and whatever else makes him ask again.
LEMMA ReceiveTold ==
  ASSUME Typed, Typed', NEW H \in History, FeedFits(H), Receive
  PROVE  FeedFits(H)'
<1>1. TypeOK /\ TypeOK' /\ BackendTold(H) /\ DownFits(H) /\ LateFits(H) /\ ViewFits(H)
  BY DEF Typed, FeedFits
<1> DEFINE msg == Head(down)
<1>2. /\ link = "open" /\ down # <<>> /\ down' = Tail(down) /\ offline' = FALSE
      /\ ReceiveFeed(msg.feed) /\ Ask(Answer(msg))
      /\ isTracking' = (isTracking \/ AskAgain(msg.feed))
      /\ UNCHANGED <<backend, link, late, tracking>>
  BY DEF Receive
<1>3. /\ msg \in Message /\ msg = down[1] /\ 1 \in DOMAIN down
      /\ \A k \in DOMAIN down' : k + 1 \in DOMAIN down /\ down'[k] = down[k + 1]
      /\ \A k \in DOMAIN down : k # 1 => k - 1 \in DOMAIN down' /\ down'[k - 1] = down[k]
  BY <1>1, <1>2, Shortened DEF TypeOK
<1>4. /\ Answer(msg) \in Seq(Request)
      /\ AskAgain(msg.feed) \/ TrackAgain(msg.feed)
         => \E k \in DOMAIN Answer(msg) : Answer(msg)[k] = Track(tracking)
  BY <1>1, <1>3, AnswerTyped
<1>5. /\ \A k \in DOMAIN up : \E j \in DOMAIN up' : up'[j] = up[k]
      /\ \A k \in DOMAIN Answer(msg) : \E j \in DOMAIN up' : up'[j] = Answer(msg)[k]
  BY <1>1, <1>2, <1>4, Asked
<1> DEFINE f == msg.feed
<1>6. f \in Feed /\ Fits(H, f, seq, Now)
  BY <1>1, <1>3, FeedsTyped DEF DownFits
<1> HIDE DEF f, msg
<1>7. BackendTold(H)' /\ DownFits(H)' /\ LateFits(H)'
  BY <1>1, <1>2, <1>3 DEF BackendTold, DownFits, LateFits, Now, backend
<1>8. ASSUME isTracking', ~misled', ~Coming'
      PROVE  /\ sequence' \in 1..seq /\ view'.block = tracking
             /\ Shows(H, view'.txs, sequence', tracking, Now)
  <2>1. ~AskAgain(f) /\ ~TrackAgain(f)
    <3>1. ASSUME AskAgain(f) \/ TrackAgain(f) PROVE FALSE
      <4>1. PICK k \in DOMAIN Answer(msg) : Answer(msg)[k] = Track(tracking)
        BY <1>4, <3>1 DEF f
      <4>2. PICK j \in DOMAIN up' : up'[j] = Track(tracking)
        BY <1>5, <4>1
      <4> QED
        BY <1>2, <1>8, <4>2 DEF Coming
    <3> QED
      BY <3>1
  <2>2. isTracking /\ ~offline
    BY <1>1, <1>2, <1>8, <2>1 DEF TrackAgain, TypeOK, f
  <2>3. CASE IsTracked(f) /\ f.kind = "full"
    <3>1. f.index = tracking /\ sequence' = f.seq /\ view' = [block |-> tracking, txs |-> f.added]
      BY <1>2, <2>3 DEF ReceiveFeed, IsTracked, f
    <3> QED
      BY <1>6, <2>3, <3>1 DEF Fits
  <2>4. CASE ~(IsTracked(f) /\ f.kind = "full")
    <3>1. ~Coming
      <4>1. ASSUME NEW k \in DOMAIN up, up[k] = Track(tracking) PROVE FALSE
        <5>1. PICK j \in DOMAIN up' : up'[j] = Track(tracking)
          BY <1>5, <4>1
        <5> QED
          BY <1>2, <1>8, <5>1 DEF Coming
      <4>2. ASSUME NEW k \in DOMAIN down, down[k].feed.kind = "full", down[k].feed.index = tracking
            PROVE  FALSE
        <5>1. k # 1
          BY <1>3, <2>4, <4>2 DEF IsTracked, f
        <5>2. k - 1 \in DOMAIN down' /\ down'[k - 1] = down[k]
          BY <1>3, <5>1
        <5> QED
          BY <1>2, <1>8, <4>2, <5>2 DEF Coming
      <4> QED
        BY <4>1, <4>2 DEF Coming
    <3>0. ~misled /\ (IsTracked(f) /\ ~Gap(f) => f.seq = f.of)
      BY <1>2, <1>8, <2>4 DEF ReceiveFeed, f
    <3>2. /\ sequence \in 1..seq /\ view.block = tracking
          /\ Shows(H, view.txs, sequence, tracking, Now)
      BY <1>1, <1>2, <2>2, <3>0, <3>1 DEF ViewFits
    <3>3. CASE ~IsTracked(f)
      BY <1>2, <3>2, <3>3 DEF ReceiveFeed, f
    <3>4. CASE IsTracked(f)
      <4>1. f.kind = "delta" /\ f.index = tracking
        BY <1>6, <2>4, <3>4 DEF IsTracked, Feed, NoFeed
      <4>2. ~Gap(f)
        BY <2>1, <3>4, <4>1 DEF AskAgain
      <4>3. f.seq = sequence + 1 /\ sequence \in Nat
        BY <3>2, <4>2, <1>1 DEF Gap, TypeOK
      <4>4. /\ sequence' = f.seq
            /\ view' = [block |-> tracking, txs |-> (view.txs \cup f.added) \ f.removed]
        BY <1>2, <3>4, <4>1, <4>2 DEF ReceiveFeed, f
      <4>5. view'.txs = Patched(view.txs, f) /\ view'.block = tracking
        BY <4>4 DEF Patched
      <4>6. /\ f.seq \in 2..seq /\ f.seq - 1 = sequence
            /\ Patched(H[sequence][tracking], f) = H[f.seq][tracking]
            /\ Patched(H[f.seq][tracking], f) = H[f.seq][tracking]
        BY <1>6, <3>0, <3>4, <4>1, <4>2, <4>3 DEF Fits, Leads
      <4>7. Patched(view.txs, f) = H[f.seq][tracking]
        BY <3>2, <4>3, <4>6 DEF Shows
      <4> QED
        BY <1>1, <4>4, <4>5, <4>6, <4>7 DEF Shows, TypeOK
    <3> QED
      BY <3>3, <3>4
  <2> QED
    BY <2>3, <2>4
<1>9. ViewFits(H)'
  BY <1>2, <1>8 DEF ViewFits, Now, backend
<1> QED
  BY <1>7, <1>9 DEF FeedFits

\* Another block on the screen is asked for; a block that is left is no longer claimed.
LEMMA ScreenTold ==
  ASSUME Typed, Typed', NEW H \in History, FeedFits(H), (\E i \in Index : Show(i)) \/ Leave \/ Stop
  PROVE  FeedFits(H)'
<1>1. TypeOK /\ TypeOK' /\ ConnGood /\ BackendTold(H) /\ DownFits(H) /\ LateFits(H) /\ ViewFits(H)
  BY DEF Typed, FeedFits
<1>2. UNCHANGED <<backend, link, down, late, offline, sequence, view, misled>>
  BY DEF Show, Leave, Stop, conn
<1>3. BackendTold(H)' /\ DownFits(H)' /\ LateFits(H)'
  BY <1>1, <1>2 DEF BackendTold, DownFits, LateFits, Now, backend
<1>4. ASSUME NEW i \in Index, Show(i), tracking # i PROVE ViewFits(H)'
  <2>1. <<Track(i)>> \in Seq(Request) /\ 1 \in DOMAIN <<Track(i)>> /\ <<Track(i)>>[1] = Track(i)
    BY DEF Track, Request
  <2>2. Ask(<<Track(i)>>) /\ tracking' = i
    BY <1>4 DEF Show
  <2>3. link = "open" => \E j \in DOMAIN up' : up'[j] = Track(i)
    <3>1. link = "open" => \A k \in DOMAIN <<Track(i)>> : \E j \in DOMAIN up' : up'[j] = <<Track(i)>>[k]
      BY <1>1, <2>1, <2>2, Asked
    <3> QED
      BY <2>1, <3>1
  <2> QED
    BY <1>2, <2>2, <2>3 DEF ViewFits, Coming
<1>5. ASSUME NEW i \in Index, Show(i), tracking = i PROVE ViewFits(H)'
  <2>1. UNCHANGED <<up, tracking, isTracking>>
    BY <1>5 DEF Show
  <2> QED
    BY <1>1, <1>2, <2>1 DEF ViewFits, Coming, Now, backend
<1>6. ASSUME Leave \/ Stop PROVE ViewFits(H)'
  <2>1. ~isTracking'
    BY <1>1, <1>6 DEF Leave, Stop, ConnGood
  <2> QED
    BY <2>1 DEF ViewFits
<1>7. ViewFits(H)'
  BY <1>4, <1>5, <1>6
<1> QED
  BY <1>3, <1>7 DEF FeedFits

LEMMA NextTold ==
  ASSUME Typed, Typed', Told, [Next]_vars
  PROVE  Told'
<1>1. SUFFICES ASSUME Tellable' PROVE \E H \in History : FeedFits(H)'
  BY DEF Told
<1>2. CASE UNCHANGED vars
  <2>1. Tellable
    BY <1>1, <1>2 DEF Tellable, vars, bounds
  <2>2. PICK H \in History : FeedFits(H)
    BY <2>1 DEF Told
  <2>3. FeedFits(H)'
    BY <1>2, <2>2 DEF FeedFits, BackendTold, DownFits, LateFits, ViewFits, Coming, Now, vars, backend, conn,
                      client, feed
  <2> QED
    BY <2>3
<1>3. CASE Next
  <2>1. Tellable
    BY <1>1, <1>3 DEF Tellable, Next, MempoolChange, TellLate, ApplyBlock, Reorg, TemplateFails, HandleNewBlock,
       BlockFails, LosesSync, HandleRequest, Cut, RestartBackend, GoOffline, Reconnect, Receive, Show,
       Leave, Stop, Fault, bounds
  <2>2. PICK H \in History : FeedFits(H)
    BY <2>1 DEF Told
  <2>3. ~BlockFails /\ ~LosesSync /\ ~RestartBackend
    BY <1>1 DEF Tellable, BlockFails, LosesSync, RestartBackend, Fault
  <2>4. ASSUME NEW new \in Templates, MempoolChange(new) \/ ApplyBlock(new)
        PROVE  \E G \in History : FeedFits(G)'
    BY <2>2, <2>4, MempoolChangeTold, ApplyBlockTold
  <2>5. ASSUME NEW fork \in 0..MaxHeight, Reorg(fork) PROVE FeedFits(H)'
    BY <2>2, <2>5, ReorgTold
  <2>6. CASE TemplateFails
    BY <2>2, <2>6, TemplateFailsTold
  <2>7. CASE HandleNewBlock \/ HandleRequest
    BY <2>2, <2>7, HandleNewBlockTold, HandleRequestTold
  <2>8. CASE Cut \/ GoOffline \/ Reconnect
    BY <2>2, <2>8, LinkTold
  <2>9. CASE Receive
    BY <2>2, <2>9, ReceiveTold
  <2>10. CASE (\E i \in Index : Show(i)) \/ Leave \/ Stop
    BY <2>2, <2>10, ScreenTold
  <2>11. ASSUME NEW w \in late, NEW n \in w.of..seq, TellLate(w, n) PROVE FeedFits(H)'
    BY <2>2, <2>11, TellLateTold
  <2> QED
    BY <1>3, <2>2, <2>3, <2>4, <2>5, <2>6, <2>7, <2>8, <2>9, <2>10, <2>11 DEF Next
<1> QED
  BY <1>2, <1>3

\* What follows from the history for a client that has the number of the backend.
LEMMA ToldTells ==
  ASSUME Typed, Told
  PROVE  SequenceTells
<1>1. SUFFICES ASSUME Tellable, link = "open", down = <<>>, up = <<>>, ~applied,
                      isTracking, sequence = seq, ~misled
               PROVE  view = [block |-> tracking, txs |-> template[tracking]]
  BY DEF SequenceTells, Tellable
<1>2. PICK H \in History : FeedFits(H)
  BY <1>1 DEF Told
<1>3. ~Coming /\ ~offline
  BY <1>1 DEF Coming, Typed, ConnGood
<1>4. Now = seq /\ seq \in Nat /\ template = H[seq] /\ view \in [block : Index \cup {None}, txs : SUBSET Tx]
  BY <1>1, <1>2 DEF Now, FeedFits, BackendTold, Typed, TypeOK
<1>5. view.block = tracking /\ Shows(H, view.txs, seq, tracking, seq)
  BY <1>1, <1>2, <1>3, <1>4 DEF FeedFits, ViewFits
<1>6. view.txs = template[tracking]
  BY <1>4, <1>5 DEF Shows
<1> QED
  BY <1>4, <1>5, <1>6

\* There is a history of the projected blocks to which everything that was sent, is on its
\* way, or is on the screen under a number belongs.
THEOREM FeedTold == Spec => [](Typed /\ Told)
<1>1. Init => Typed /\ Told
  BY InitTyped, InitTold
<1>2. Typed /\ Told /\ [Next]_vars => (Typed /\ Told)'
  BY NextTyped, NextTold
<1> QED
  BY <1>1, <1>2, PTL DEF Spec

\* SequenceTells: with the number of the backend and nothing on its way, the client shows
\* the projected block as it is (wantUpdates and the mempoolSequence of the state service).
THEOREM SequenceTellsHolds == Spec => []SequenceTells
<1>1. Typed /\ Told => SequenceTells
  BY ToldTells
<1> QED
  BY <1>1, FeedTold, PTL

-----------------------------------------------------------------------------
(* The blocks                                                              *)

LEMMA PrefixOf ==
  ASSUME NEW c \in Seq(0..1)
  PROVE  BlocksOf(c) = Prefix(c, Len(c))
BY LenProperties DEF BlocksOf, Prefix

LEMMA PrefixHeights ==
  ASSUME NEW c, NEW n \in Nat
  PROVE  {b[1] : b \in Prefix(c, n)} = 1..n /\ (n >= 1 => Prefix(c, n) # {})
<1>1. ASSUME NEW h \in 1..n PROVE <<h, c[h]>> \in Prefix(c, n) /\ <<h, c[h]>>[1] = h
  BY DEF Prefix
<1>2. \A b \in Prefix(c, n) : b[1] \in 1..n
  BY DEF Prefix
<1>3. \A h \in 1..n : h \in {b[1] : b \in Prefix(c, n)}
  BY <1>1
<1>4. n >= 1 => 1 \in 1..n
  OBVIOUS
<1> QED
  BY <1>1, <1>2, <1>3, <1>4

LEMMA InitOrdered ==
  ASSUME Init
  PROVE  Ordered
<1> DEFINE top == [n \in Nat |-> 1]
<1>1. top \in Heights
  BY DEF Heights
<1>2. down = <<>> /\ Len(down) = 0 /\ latest = 1 /\ chain = <<0>> /\ Len(chain) = 1
      /\ list = {<<1, 0>>}
  BY DEF Init
<1>3. Orders(top)
  BY <1>2 DEF Orders
<1>4. Prefix(chain, latest) = list
  <2>1. 1..1 = {1} /\ chain[1] = 0
    BY <1>2
  <2> QED
    BY <1>2, <2>1 DEF Prefix
<1>5. Current(top)
  BY <1>2, <1>4 DEF Current
<1> QED
  BY <1>1, <1>3, <1>5 DEF Ordered

\* The heights before and after a message that is sent now.
LEMMA OrdersSent ==
  ASSUME TypeOK, NEW top \in Heights, Orders(top), NEW m \in Message, NEW u \in Nat,
         down' = Append(down, m), latest' = latest, Len(chain) <= Len(chain'), u <= Len(chain'),
         chain' \in Seq(0..1),
         Plain(m, top[Len(down)], u) \/ Listed(m, top[Len(down)], u) \/ Pushed(m, top[Len(down)], u)
  PROVE  \E G \in Heights : /\ Orders(G)' /\ G[Len(down) + 1] = u
                            /\ \A k \in 0..Len(down) : G[k] = top[k]
<1>1. /\ Len(down) \in Nat /\ Len(down') = Len(down) + 1
      /\ \A k \in 1..Len(down) : down'[k] = down[k]
      /\ down'[Len(down) + 1] = m
  BY Extended DEF TypeOK
<1>2. [top EXCEPT ![Len(down) + 1] = u] \in Heights
  BY <1>1 DEF Heights
<1>3. PICK G \in Heights : G = [top EXCEPT ![Len(down) + 1] = u]
  BY <1>2
<1>4. G[Len(down) + 1] = u /\ \A k \in 0..Len(down) : G[k] = top[k]
  BY <1>1, <1>3 DEF Heights
<1>5. Len(chain) \in Nat /\ Len(chain') \in Nat /\ \A k \in Nat : top[k] \in Nat
  BY LenProperties DEF TypeOK, Heights
<1>6. \A j \in 1..Len(down') : \/ Plain(down'[j], G[j - 1], G[j])
                               \/ Listed(down'[j], G[j - 1], G[j])
                               \/ Pushed(down'[j], G[j - 1], G[j])
  <2> SUFFICES ASSUME NEW j \in 1..Len(down')
               PROVE  \/ Plain(down'[j], G[j - 1], G[j])
                      \/ Listed(down'[j], G[j - 1], G[j])
                      \/ Pushed(down'[j], G[j - 1], G[j])
    OBVIOUS
  <2>1. CASE j = Len(down) + 1
    <3>1. G[j - 1] = top[Len(down)] /\ G[j] = u /\ down'[j] = m
      BY <1>1, <1>4, <2>1
    <3> QED
      BY <3>1
  <2>2. CASE j # Len(down) + 1
    <3>1. j \in 1..Len(down) /\ G[j - 1] = top[j - 1] /\ G[j] = top[j] /\ down'[j] = down[j]
      BY <1>1, <1>4, <2>2
    <3> QED
      BY <3>1 DEF Orders
  <2> QED
    BY <2>1, <2>2
<1>7. \A j \in 0..Len(down') : G[j] <= Len(chain')
  <2>1. ASSUME NEW j \in 0..Len(down) PROVE G[j] <= Len(chain')
    BY <1>1, <1>4, <1>5 DEF Orders
  <2> QED
    BY <1>1, <1>4, <2>1
<1>8. G[0] = latest'
  BY <1>1, <1>4 DEF Orders
<1> QED
  BY <1>4, <1>6, <1>7, <1>8 DEF Orders

\* A message without blocks, while the chain stays.
LEMMA PlainSent ==
  ASSUME TypeOK, NEW top \in Heights, Orders(top), wants => Current(top),
         NEW m \in Message, m.blocks = {}, m.block = NoBlock, Send(m),
         UNCHANGED <<latest, list, chain, wants>>
  PROVE  \E G \in Heights : Orders(G)' /\ (wants' => Current(G)')
<1>1. CASE down' = down
  BY <1>1 DEF Orders, Current, LastList
<1>2. CASE down' = Append(down, m)
  <2>1. /\ Len(down) \in Nat /\ Len(down') = Len(down) + 1
        /\ \A k \in 1..Len(down) : down'[k] = down[k]
        /\ down'[Len(down) + 1] = m
    BY <1>2, Extended DEF TypeOK
  <2>2. /\ top[Len(down)] \in Nat /\ top[Len(down)] <= Len(chain') /\ chain' \in Seq(0..1)
        /\ Len(chain) <= Len(chain')
    BY <2>1, LenProperties DEF Orders, Heights, TypeOK
  <2>3. Plain(m, top[Len(down)], top[Len(down)])
    BY DEF Plain
  <2>4. PICK G \in Heights : /\ Orders(G)' /\ G[Len(down) + 1] = top[Len(down)]
                             /\ \A k \in 0..Len(down) : G[k] = top[k]
    BY <1>2, <2>2, <2>3, OrdersSent
  <2>5. \A j \in 0..Len(down) : LastList(j)' => LastList(j)
    BY <2>1 DEF LastList
  <2>6. ASSUME wants' PROVE Current(G)'
    <3>1. Current(top)
      BY <2>6
    <3>2. G[Len(down')] = Len(chain')
      BY <2>1, <2>4, <3>1 DEF Current
    <3>3. ASSUME NEW j \in 1..Len(down'), LastList(j)'
          PROVE  /\ down'[j].blocks # {} => down'[j].blocks = Prefix(chain', G[j])
                 /\ down'[j].block # NoBlock => down'[j].block = <<G[j], chain'[G[j]]>>
      <4>1. CASE j = Len(down) + 1
        BY <2>1, <4>1
      <4>2. CASE j # Len(down) + 1
        <5>1. j \in 1..Len(down) /\ LastList(j) /\ down'[j] = down[j] /\ G[j] = top[j]
          BY <2>1, <2>4, <2>5, <3>3, <4>2
        <5> QED
          BY <3>1, <5>1 DEF Current
      <4> QED
        BY <4>1, <4>2
    <3>4. LastList(0)' => list' = Prefix(chain', latest')
      BY <2>1, <2>5, <3>1 DEF Current
    <3> QED
      BY <3>2, <3>3, <3>4 DEF Current
  <2> QED
    BY <2>4, <2>6
<1> QED
  BY <1>1, <1>2, Sent

\* The list of the chain is sent: what was sent before no longer counts.
LEMMA ListSent ==
  ASSUME TypeOK, TypeOK', NEW top \in Heights, Orders(top), NEW m \in Message,
         m.blocks = BlocksOf(chain'), m.block = NoBlock, down' = Append(down, m),
         latest' = latest, Len(chain') = Len(chain)
  PROVE  \E G \in Heights : Orders(G)' /\ Current(G)'
<1>1. /\ Len(down) \in Nat /\ Len(down') = Len(down) + 1
      /\ \A k \in 1..Len(down) : down'[k] = down[k]
      /\ down'[Len(down) + 1] = m
  BY Extended DEF TypeOK
<1>2. chain' \in Seq(0..1) /\ Len(chain') \in Nat /\ Len(chain') >= 1
  BY BoundsAssumption DEF TypeOK
<1>3. top[Len(down)] \in Nat /\ top[Len(down)] <= Len(chain')
  BY <1>1 DEF Orders, Heights
<1>4. m.blocks = Prefix(chain', Len(chain')) /\ m.blocks # {}
  BY <1>2, PrefixOf, PrefixHeights
<1>5. Listed(m, top[Len(down)], Len(chain'))
  BY <1>2, <1>3, <1>4, PrefixHeights DEF Listed
<1>6. PICK G \in Heights : Orders(G)' /\ G[Len(down) + 1] = Len(chain')
  BY <1>2, <1>5, OrdersSent
<1>7. \A j \in 0..Len(down) : ~LastList(j)'
  BY <1>1, <1>4 DEF LastList
<1>8. ASSUME NEW j \in 1..Len(down'), LastList(j)' PROVE j = Len(down) + 1
  BY <1>1, <1>7, <1>8
<1>9. Current(G)'
  <2>1. ~LastList(0)'
    BY <1>1, <1>7
  <2> QED
    BY <1>1, <1>4, <1>6, <1>8, <2>1 DEF Current
<1> QED
  BY <1>6, <1>9

\* What is sent of a projected block alone.
LEMMA FeedSent ==
  ASSUME TypeOK, NEW top \in Heights, Orders(top), wants => Current(top),
         NEW f, Says({}, NoBlock, f) \in Message, Send(Says({}, NoBlock, f)),
         UNCHANGED <<latest, list, chain, wants>>
  PROVE  \E G \in Heights : Orders(G)' /\ (wants' => Current(G)')
<1>1. Says({}, NoBlock, f).blocks = {} /\ Says({}, NoBlock, f).block = NoBlock
  BY DEF Says
<1> QED
  BY <1>1, PlainSent

\* A callback sends what changed in a projected block, or nothing.
LEMMA CallbackSends ==
  ASSUME TypeOK, NEW n \in Nat, NEW d \in [Index -> Delta], NEW known \in SUBSET Index,
         Tell(n, d, known) \/ Await(n, d, known)
  PROVE  \E f \in Feed : Send(Says({}, NoBlock, f))
<1>1. NoMessage = Says({}, NoBlock, NoFeed) /\ NoFeed \in Feed
  BY NothingTyped DEF NoMessage
<1>2. CASE Tell(n, d, known)
  <2>1. tracked # None => Change(tracked, n, n, d[tracked]) \in Feed
    BY FeedTyped DEF TypeOK
  <2> QED
    BY <1>1, <1>2, <2>1 DEF Tell
<1>3. CASE Await(n, d, known)
  <2>1. Send(NoMessage)
    BY <1>3 DEF Await, Send
  <2> QED
    BY <1>1, <2>1
<1> QED
  BY <1>2, <1>3

LEMMA UpdateOrdered ==
  ASSUME TypeOK, TypeOK', NEW top \in Heights, Orders(top), wants => Current(top),
         \/ (\E new \in Templates : MempoolChange(new)) \/ TemplateFails
         \/ \E w \in late : \E n \in w.of..seq : TellLate(w, n)
  PROVE  \E G \in Heights : Orders(G)' /\ (wants' => Current(G)')
<1>1. UNCHANGED <<latest, list, chain, wants>>
  BY DEF MempoolChange, TemplateFails, TellLate, backend, client, shownBlocks
<1>2. \A f \in Feed : Says({}, NoBlock, f) \in Message
  BY MessageTyped, NothingTyped
<1>3. seq' \in Nat /\ deltas \in [Index -> Delta] /\ deltas' \in [Index -> Delta]
  BY DEF TypeOK
<1>4. PICK f \in Feed : Send(Says({}, NoBlock, f))
  <2>1. ASSUME NEW new \in Templates, MempoolChange(new)
        PROVE  \E f \in Feed : Send(Says({}, NoBlock, f))
    <3>1. {i \in Index : HasDelta(i)} \in SUBSET Index
      OBVIOUS
    <3>2. PICK known \in SUBSET Index : Tell(seq', deltas', known) \/ Await(seq', deltas', known)
      BY <2>1, <3>1 DEF MempoolChange
    <3> QED
      BY <1>3, <3>2, CallbackSends
  <2>2. CASE TemplateFails
    <3>1. Tell(seq', deltas, Index) \/ Await(seq', deltas, Index)
      BY <2>2 DEF TemplateFails
    <3>2. Index \in SUBSET Index
      OBVIOUS
    <3> QED
      BY <1>3, <3>1, <3>2, CallbackSends
  <2>3. ASSUME NEW w \in late, NEW n \in w.of..seq, TellLate(w, n)
        PROVE  \E f \in Feed : Send(Says({}, NoBlock, f))
    <3>1. w.of \in Nat /\ n \in Nat /\ w.deltas \in [Index -> Delta]
      BY DEF TypeOK
    <3>2. tracked # None => Change(tracked, n, w.of, w.deltas[tracked]) \in Feed
      BY <3>1, FeedTyped DEF TypeOK
    <3>3. NoMessage = Says({}, NoBlock, NoFeed) /\ NoFeed \in Feed
      BY NothingTyped DEF NoMessage
    <3> QED
      BY <2>3, <3>2, <3>3 DEF TellLate
  <2> QED
    BY <2>1, <2>2, <2>3
<1> QED
  BY <1>1, <1>2, <1>4, FeedSent

LEMMA ReorgOrdered ==
  ASSUME Typed, Typed', NEW top \in Heights, Orders(top), wants => Current(top),
         NEW fork \in 0..MaxHeight, Reorg(fork)
  PROVE  \E G \in Heights : Orders(G)' /\ (wants' => Current(G)')
<1>1. TypeOK /\ TypeOK' /\ Len(chain') = Len(chain)
  BY ReorgTyped DEF Typed
<1>2. UNCHANGED <<latest, list, wants>>
  BY DEF Reorg, client, shownBlocks
<1>3. CASE wants
  <2> DEFINE m == Says(BlocksOf(chain'), NoBlock, NoFeed)
  <2>1. BlocksOf(chain') \in SUBSET BlockId /\ BlocksOf(chain') # {}
    BY <1>1, BlocksTyped DEF TypeOK
  <2>2. Send(m) /\ link = "open"
    BY <1>3 DEF Reorg, Typed, ConnGood
  <2>3. m \in Message
    BY <2>1, MessageTyped, NothingTyped
  <2>4. m.blocks = BlocksOf(chain') /\ m.block = NoBlock /\ m # NoMessage
    BY <2>1 DEF Says, NoMessage
  <2> HIDE DEF m
  <2>5. down' = Append(down, m)
    BY <2>2, <2>4 DEF Send
  <2> QED
    BY <1>1, <1>2, <2>3, <2>4, <2>5, ListSent
<1>4. CASE ~wants
  <2>1. down' = down
    <3>1. Send(NoMessage)
      BY <1>4 DEF Reorg, NoMessage
    <3> QED
      BY <3>1 DEF Send
  <2>2. Orders(top)'
    BY <1>1, <1>2, <2>1 DEF Orders
  <2> QED
    BY <1>2, <1>4, <2>2
<1> QED
  BY <1>3, <1>4

LEMMA HandleNewBlockOrdered ==
  ASSUME Typed, Typed', NEW top \in Heights, Orders(top), wants => Current(top), HandleNewBlock
  PROVE  \E G \in Heights : Orders(G)' /\ (wants' => Current(G)')
<1>1. /\ TypeOK /\ TypeOK' /\ seq' \in Nat
      /\ chain' \in Seq(0..1) /\ Len(chain') = Len(chain) + 1
  BY HandleNewBlockTyped DEF Typed
<1>2. PICK b \in 0..1 : chain' = Append(chain, b)
  BY DEF HandleNewBlock
<1>3. /\ Len(chain) \in Nat /\ \A h \in 1..Len(chain) : chain'[h] = chain[h]
      /\ chain'[Len(chain) + 1] = b /\ Last(chain') = b
  BY <1>1, <1>2, Extended DEF TypeOK, Last
<1>4. UNCHANGED <<latest, list, wants>>
  BY DEF HandleNewBlock, client, shownBlocks
<1> DEFINE f == IF inSync /\ tracked # None THEN BlockFeed(tracked, seq') ELSE NoFeed
<1>5. f \in Feed
  BY <1>1, BlockFeedTyped, NothingTyped DEF TypeOK
<1>6. Send(Says({}, IF wants THEN <<Len(chain'), Last(chain')>> ELSE NoBlock, f))
  BY DEF HandleNewBlock
<1> HIDE DEF f
<1>7. /\ Len(down) \in Nat /\ \A k \in Nat : top[k] \in Nat
      /\ \A k \in 0..Len(down) : top[k] <= Len(chain)
  BY <1>1, LenProperties DEF TypeOK, Heights, Orders
<1>8. CASE ~wants
  <2> DEFINE m == Says({}, NoBlock, f)
  <2>1. m \in Message /\ Send(m) /\ m.blocks = {} /\ m.block = NoBlock
    BY <1>5, <1>6, <1>8, MessageTyped, NothingTyped DEF Says
  <2> HIDE DEF m
  <2>2. CASE down' = down
    <3>1. Orders(top)'
      BY <1>1, <1>3, <1>4, <1>7, <2>2 DEF Orders
    <3> QED
      BY <1>4, <1>8, <3>1
  <2>3. CASE down' = Append(down, m)
    <3>1. Plain(m, top[Len(down)], top[Len(down)])
      BY <2>1 DEF Plain
    <3>2. top[Len(down)] \in Nat /\ top[Len(down)] <= Len(chain') /\ Len(chain) <= Len(chain')
      BY <1>1, <1>3, <1>7
    <3> QED
      BY <1>1, <1>4, <1>8, <2>1, <2>3, <3>1, <3>2, OrdersSent
  <2> QED
    BY <1>1, <2>1, <2>2, <2>3, Sent
<1>9. CASE wants
  <2> DEFINE m == Says({}, <<Len(chain) + 1, b>>, f)
  <2>1. m.blocks = {} /\ m.block = <<Len(chain) + 1, b>> /\ m # NoMessage
    BY <1>3 DEF Says, NoMessage, NoBlock
  <2>2. <<Len(chain) + 1, b>> \in BlockId
    BY <1>1, <1>3 DEF BlockId, TypeOK
  <2>3. m \in Message /\ Send(m)
    BY <1>1, <1>3, <1>5, <1>6, <1>9, <2>2, MessageTyped, NothingTyped
  <2> HIDE DEF m
  <2>4. down' = Append(down, m)
    BY <1>9, <2>1, <2>3 DEF Send, Typed, ConnGood
  <2>5. Current(top) /\ top[Len(down)] = Len(chain)
    BY <1>9 DEF Current
  <2>6. Pushed(m, top[Len(down)], Len(chain) + 1)
    BY <2>1, <2>5 DEF Pushed
  <2>7. PICK G \in Heights : /\ Orders(G)' /\ G[Len(down) + 1] = Len(chain) + 1
                             /\ \A k \in 0..Len(down) : G[k] = top[k]
    <3>1. Len(chain) + 1 \in Nat /\ Len(chain) + 1 <= Len(chain') /\ Len(chain) <= Len(chain')
      BY <1>1, <1>3
    <3> QED
      BY <1>1, <1>4, <2>3, <2>4, <2>6, <3>1, OrdersSent
  <2>8. /\ Len(down') = Len(down) + 1 /\ down'[Len(down) + 1] = m
        /\ \A k \in 1..Len(down) : down'[k] = down[k]
    BY <1>1, <2>3, <2>4, Extended DEF TypeOK
  <2>9. \A j \in 0..Len(down) : LastList(j)' => LastList(j)
    BY <1>7, <2>8 DEF LastList
  <2>10. \A n \in 0..Len(chain) : Prefix(chain', n) = Prefix(chain, n)
    BY <1>3 DEF Prefix
  <2>11. ASSUME NEW j \in 1..Len(down'), LastList(j)'
         PROVE  /\ down'[j].blocks # {} => down'[j].blocks = Prefix(chain', G[j])
                /\ down'[j].block # NoBlock => down'[j].block = <<G[j], chain'[G[j]]>>
    <3>1. CASE j = Len(down) + 1
      BY <1>3, <2>1, <2>7, <2>8, <3>1
    <3>2. CASE j # Len(down) + 1
      <4>1. j \in 1..Len(down) /\ LastList(j) /\ down'[j] = down[j] /\ G[j] = top[j]
        BY <1>7, <2>7, <2>8, <2>9, <2>11, <3>2
      <4>2. /\ down[j].blocks # {} => down[j].blocks = Prefix(chain, top[j])
            /\ down[j].block # NoBlock => down[j].block = <<top[j], chain[top[j]]>>
        BY <2>5, <4>1 DEF Current
      <4>3. top[j] \in 0..Len(chain)
        BY <1>3, <1>7, <4>1
      <4>4. down[j].block # NoBlock => top[j] >= 1
        BY <4>1, <4>3, <1>7 DEF Orders, Plain, Listed, Pushed
      <4> QED
        BY <1>3, <2>10, <4>1, <4>2, <4>3, <4>4
    <3> QED
      BY <3>1, <3>2
  <2>12. LastList(0)' => list' = Prefix(chain', latest')
    <3>1. latest \in 0..Len(chain)
      BY <1>3, <1>7 DEF Orders
    <3> QED
      BY <1>4, <1>7, <2>5, <2>9, <2>10, <3>1 DEF Current
  <2>13. G[Len(down')] = Len(chain')
    BY <1>1, <2>7, <2>8
  <2>14. Current(G)'
    BY <2>11, <2>12, <2>13 DEF Current
  <2> QED
    BY <2>7, <2>14
<1> QED
  BY <1>8, <1>9

LEMMA HandleRequestOrdered ==
  ASSUME Typed, Typed', NEW top \in Heights, Orders(top), wants => Current(top), HandleRequest
  PROVE  \E G \in Heights : Orders(G)' /\ (wants' => Current(G)')
<1>1. TypeOK /\ TypeOK'
  BY DEF Typed
<1>2. /\ link = "open" /\ up # <<>> /\ wants' = (wants \/ Head(up).ask = "want")
      /\ UNCHANGED <<latest, list, chain>>
  BY DEF HandleRequest, backend, client, shownBlocks
<1> DEFINE r == Head(up)
           lists == r.ask \in {"init", "refresh"} \/ (r.ask = "want" /\ ~wants)
           full == IF r.ask = "track" THEN Full(r.index, seq, template[r.index]) ELSE NoFeed
           m == Says(IF lists THEN BlocksOf(chain) ELSE {}, NoBlock, full)
<1>3. r \in Request
  BY <1>1, <1>2, Shortened DEF TypeOK
<1>4. full \in Feed
  BY <1>1, <1>3, FeedTyped, NothingTyped DEF Request, TypeOK
<1>5. BlocksOf(chain) \in SUBSET BlockId /\ BlocksOf(chain) # {}
  BY <1>1, BlocksTyped DEF TypeOK
<1>6. Send(m)
  BY DEF HandleRequest
<1>7. (IF lists THEN BlocksOf(chain) ELSE {}) \in SUBSET BlockId
  BY <1>5
<1> HIDE DEF full, lists
<1>8. m \in Message
  BY <1>4, <1>7, MessageTyped, NothingTyped
<1>9. m.block = NoBlock /\ m.blocks = (IF lists THEN BlocksOf(chain) ELSE {})
  BY DEF Says
<1>10. NoMessage.blocks = {}
  BY DEF NoMessage, Says
<1> HIDE DEF m
<1>11. CASE lists
  <2>1. down' = Append(down, m)
    BY <1>2, <1>5, <1>6, <1>9, <1>10, <1>11 DEF Send
  <2>2. m.blocks = BlocksOf(chain') /\ Len(chain') = Len(chain) /\ latest' = latest
    BY <1>2, <1>9, <1>11
  <2> QED
    BY <1>1, <1>8, <1>9, <2>1, <2>2, ListSent
<1>12. CASE ~lists
  <2>1. wants' = wants
    BY <1>1, <1>2, <1>12 DEF lists, TypeOK
  <2> QED
    BY <1>1, <1>2, <1>6, <1>8, <1>9, <1>12, <2>1, PlainSent
<1> QED
  BY <1>11, <1>12

\* The next message: nothing, a list that is at least as high as what the client knows, or
\* the block after it.
LEMMA ReceiveOrdered ==
  ASSUME Typed, NEW top \in Heights, Orders(top), wants => Current(top), Receive
  PROVE  \E G \in Heights : Orders(G)' /\ (wants' => Current(G)')
<1>1. TypeOK
  BY DEF Typed
<1> DEFINE msg == Head(down)
<1>2. /\ down # <<>> /\ down' = Tail(down) /\ ReceiveBlocks(msg)
      /\ UNCHANGED <<chain, wants>>
  BY DEF Receive, backend
<1>3. /\ msg = down[1] /\ msg \in Message /\ Len(down) \in Nat /\ Len(down) >= 1
      /\ Len(down') = Len(down) - 1
      /\ \A k \in 1..Len(down') : k + 1 \in 1..Len(down) /\ down'[k] = down[k + 1]
      /\ \A k \in 1..Len(down) : k # 1 => k - 1 \in 1..Len(down') /\ down'[k - 1] = down[k]
  BY <1>1, <1>2, Shortened DEF TypeOK
<1> HIDE DEF msg
<1>4. /\ top[0] = latest /\ top[0] \in Nat /\ top[1] \in Nat
      /\ \/ Plain(msg, top[0], top[1]) \/ Listed(msg, top[0], top[1]) \/ Pushed(msg, top[0], top[1])
  BY <1>3 DEF Orders, Heights
<1> DEFINE heights == {latest} \cup {b[1] : b \in msg.blocks}
           known == Max(heights)
<1>5. /\ latest' = (IF msg.block[1] = known + 1 THEN known + 1 ELSE known)
      /\ list' = (IF msg.block[1] = known + 1
                  THEN (IF msg.blocks # {} THEN msg.blocks ELSE list) \cup {msg.block}
                  ELSE (IF msg.blocks # {} THEN msg.blocks ELSE list))
  BY <1>2 DEF ReceiveBlocks
<1>6. /\ latest' = top[1]
      /\ msg.blocks # {} => list' = msg.blocks
      /\ Plain(msg, top[0], top[1]) => list' = list
      /\ Pushed(msg, top[0], top[1]) => list' = list \cup {msg.block} /\ msg.block # NoBlock
  <2>1. CASE Plain(msg, top[0], top[1])
    <3>1. heights \in SUBSET Nat /\ latest \in heights /\ \A x \in heights : x <= latest
      BY <1>4, <2>1 DEF Plain
    <3> HIDE DEF heights
    <3>2. known = latest
      BY <3>1, MaxIs
    <3> HIDE DEF known
    <3>3. msg.block[1] = 0
      BY <2>1 DEF Plain, NoBlock
    <3> QED
      BY <1>4, <1>5, <2>1, <3>2, <3>3 DEF Plain, Pushed
  <2>2. CASE Listed(msg, top[0], top[1])
    <3>1. heights = {latest} \cup 1..top[1]
      BY <2>2 DEF Listed
    <3>2. heights \in SUBSET Nat /\ top[1] \in heights /\ \A x \in heights : x <= top[1]
      BY <1>4, <2>2, <3>1 DEF Listed
    <3>3. msg.blocks # {}
      BY <1>4, <2>2 DEF Listed
    <3> HIDE DEF heights
    <3>4. known = top[1]
      BY <3>2, MaxIs
    <3> HIDE DEF known
    <3>5. msg.block[1] = 0
      BY <2>2 DEF Listed, NoBlock
    <3> QED
      BY <1>4, <1>5, <3>3, <3>4, <3>5 DEF Plain, Pushed
  <2>3. CASE Pushed(msg, top[0], top[1])
    <3>1. heights \in SUBSET Nat /\ latest \in heights /\ \A x \in heights : x <= latest
      BY <1>4, <2>3 DEF Pushed
    <3> HIDE DEF heights
    <3>2. known = latest
      BY <3>1, MaxIs
    <3> HIDE DEF known
    <3>3. msg.block # NoBlock
      BY <1>4, <2>3 DEF Pushed, NoBlock
    <3> QED
      BY <1>4, <1>5, <2>3, <3>2, <3>3 DEF Plain, Pushed
  <2> QED
    BY <1>4, <2>1, <2>2, <2>3
<1> HIDE DEF heights, known
<1>7. PICK G \in Heights : \A n \in Nat : G[n] = top[n + 1]
  <2>1. [n \in Nat |-> top[n + 1]] \in Heights
    BY DEF Heights
  <2> QED
    BY <2>1
<1>8. Orders(G)'
  <2>1. G[0] = latest'
    BY <1>6, <1>7
  <2>2. ASSUME NEW j \in 1..Len(down')
        PROVE  \/ Plain(down'[j], G[j - 1], G[j])
               \/ Listed(down'[j], G[j - 1], G[j])
               \/ Pushed(down'[j], G[j - 1], G[j])
    <3>1. /\ Len(down') \in Nat /\ Len(down') + 1 = Len(down)
          /\ down'[j] = down[j + 1]
      BY <1>3
    <3>2. /\ j \in Nat /\ j - 1 \in Nat /\ (j - 1) + 1 = j /\ (j + 1) - 1 = j
          /\ j + 1 \in 1..Len(down)
      BY <3>1
    <3>3. G[j] = top[j + 1] /\ G[j - 1] = top[(j - 1) + 1]
      BY <1>7, <3>2
    <3>4. /\ j + 1 \in 1..Len(down) /\ down'[j] = down[j + 1] /\ (j + 1) - 1 = j
          /\ G[j] = top[j + 1] /\ G[j - 1] = top[j]
      BY <3>1, <3>2, <3>3
    <3>5. \/ Plain(down[j + 1], top[(j + 1) - 1], top[j + 1])
          \/ Listed(down[j + 1], top[(j + 1) - 1], top[j + 1])
          \/ Pushed(down[j + 1], top[(j + 1) - 1], top[j + 1])
      BY <3>4 DEF Orders
    <3> QED
      BY <3>4, <3>5
  <2>3. ASSUME NEW j \in 0..Len(down') PROVE G[j] <= Len(chain')
    <3>1. j + 1 \in 0..Len(down) /\ G[j] = top[j + 1]
      BY <1>3, <1>7
    <3> QED
      BY <1>2, <3>1 DEF Orders
  <2> QED
    BY <2>1, <2>2, <2>3 DEF Orders
<1>9. ASSUME wants' PROVE Current(G)'
  <2>1. Current(top)
    BY <1>2, <1>9
  <2>2. \A j \in 0..Len(down') : LastList(j)' => LastList(j + 1)
    <3> SUFFICES ASSUME NEW j \in 0..Len(down'), LastList(j)', NEW k \in 1..Len(down), k > j + 1
                 PROVE  down[k].blocks = {}
      BY DEF LastList
    <3>1. k # 1 /\ k - 1 \in 1..Len(down') /\ down'[k - 1] = down[k] /\ k - 1 > j
      BY <1>3
    <3> QED
      BY <3>1 DEF LastList
  <2>3. G[Len(down')] = Len(chain')
    <3>1. Len(down') \in Nat /\ Len(down') + 1 = Len(down)
      BY <1>3
    <3> QED
      BY <1>2, <1>7, <2>1, <3>1 DEF Current
  <2>4. ASSUME NEW j \in 1..Len(down'), LastList(j)'
        PROVE  /\ down'[j].blocks # {} => down'[j].blocks = Prefix(chain', G[j])
               /\ down'[j].block # NoBlock => down'[j].block = <<G[j], chain'[G[j]]>>
    <3>1. /\ j + 1 \in 1..Len(down) /\ down'[j] = down[j + 1] /\ G[j] = top[j + 1]
          /\ LastList(j + 1)
      <4>1. j \in 0..Len(down') /\ j \in Nat
        BY <1>3
      <4>2. LastList(j + 1)
        BY <2>2, <2>4, <4>1
      <4> QED
        BY <1>3, <1>7, <4>1, <4>2
    <3> QED
      BY <1>2, <2>1, <3>1 DEF Current
  <2>5. ASSUME LastList(0)' PROVE list' = Prefix(chain', latest')
    <3>1. LastList(1)
      BY <1>3, <2>2, <2>5
    <3>2. 1 \in 1..Len(down)
      BY <1>3
    <3>3. CASE msg.blocks # {}
      BY <1>2, <1>3, <1>6, <2>1, <3>1, <3>2, <3>3 DEF Current
    <3>4. CASE msg.blocks = {}
      <4>1. LastList(0)
        BY <1>3, <3>1, <3>4 DEF LastList
      <4>2. list = Prefix(chain, latest)
        BY <2>1, <4>1 DEF Current
      <4>3. ~Listed(msg, top[0], top[1])
        BY <1>4, <3>4 DEF Listed
      <4>4. CASE Plain(msg, top[0], top[1])
        <5>1. latest' = latest /\ list' = list
          BY <1>4, <1>6, <4>4 DEF Plain
        <5> QED
          BY <1>2, <4>2, <5>1
      <4>5. CASE Pushed(msg, top[0], top[1])
        <5>1. latest' = latest + 1 /\ list' = list \cup {msg.block} /\ msg.block # NoBlock
          BY <1>4, <1>6, <4>5 DEF Pushed
        <5>2. msg.block = <<latest + 1, chain[latest + 1]>>
          BY <1>3, <1>4, <1>6, <2>1, <3>1, <3>2, <5>1 DEF Current
        <5>3. 1 .. latest + 1 = (1..latest) \cup {latest + 1}
          BY <1>4
        <5>4. Prefix(chain, latest + 1) = Prefix(chain, latest) \cup {<<latest + 1, chain[latest + 1]>>}
          BY <5>3 DEF Prefix
        <5> QED
          BY <1>2, <4>2, <5>1, <5>2, <5>4
      <4> QED
        BY <1>4, <4>3, <4>4, <4>5
    <3> QED
      BY <3>3, <3>4
  <2> QED
    BY <2>3, <2>4, <2>5 DEF Current
<1> QED
  BY <1>8, <1>9

\* Nobody sends or receives a block, or the queue is lost with its connection.
LEMMA RestOrdered ==
  ASSUME Typed, NEW top \in Heights, Orders(top), wants => Current(top),
         \/ UNCHANGED <<chain, down, wants, latest, list>>
         \/ Cut
  PROVE  \E G \in Heights : Orders(G)' /\ (wants' => Current(G)')
<1>1. CASE UNCHANGED <<chain, down, wants, latest, list>>
  BY <1>1 DEF Orders, Current, LastList
<1>2. CASE Cut
  <2>1. down' = <<>> /\ ~wants' /\ UNCHANGED <<chain, latest, list>>
    BY <1>2 DEF Cut, Break, backend, client, shownBlocks
  <2>2. Len(down) \in Nat /\ Len(down') = 0
    BY <2>1, LenProperties DEF Typed, TypeOK
  <2>3. Orders(top)'
    BY <2>1, <2>2 DEF Orders
  <2> QED
    BY <2>1, <2>3
<1> QED
  BY <1>1, <1>2

LEMMA NextOrdered ==
  ASSUME Typed, Typed', Ordered, [Next]_vars
  PROVE  Ordered'
<1>1. SUFFICES ASSUME "restart" \notin faults'
               PROVE  \E G \in Heights : Orders(G)' /\ (wants' => Current(G)')
  BY DEF Ordered
<1>2. TypeOK /\ TypeOK'
  BY DEF Typed
<1>3. "restart" \notin faults /\ ~RestartBackend
  BY <1>1 DEF Next, MempoolChange, TellLate, ApplyBlock, Reorg, TemplateFails, HandleNewBlock,
     BlockFails, LosesSync, HandleRequest, Cut, RestartBackend, GoOffline, Reconnect, Receive, Show, Leave, Stop,
     Fault, vars, bounds
<1>4. PICK top \in Heights : Orders(top) /\ (wants => Current(top))
  BY <1>3 DEF Ordered
<1>5. CASE \/ UNCHANGED vars \/ (\E new \in Templates : ApplyBlock(new)) \/ BlockFails \/ LosesSync
           \/ GoOffline \/ Reconnect \/ (\E i \in Index : Show(i)) \/ Leave \/ Stop
  <2>1. UNCHANGED <<chain, down, wants, latest, list>>
    BY <1>5 DEF vars, ApplyBlock, BlockFails, LosesSync, GoOffline, Reconnect, Show, Leave, Stop,
                backend, conn, client, shownBlocks
  <2> QED
    BY <1>4, <2>1, RestOrdered
<1>6. CASE \/ (\E new \in Templates : MempoolChange(new)) \/ TemplateFails
           \/ \E w \in late : \E n \in w.of..seq : TellLate(w, n)
  BY <1>2, <1>4, <1>6, UpdateOrdered
<1>7. CASE \E fork \in 0..MaxHeight : Reorg(fork)
  BY <1>4, <1>7, ReorgOrdered
<1>8. CASE HandleNewBlock
  BY <1>4, <1>8, HandleNewBlockOrdered
<1>9. CASE HandleRequest
  BY <1>4, <1>9, HandleRequestOrdered
<1>10. CASE Receive
  BY <1>4, <1>10, ReceiveOrdered
<1>11. CASE Cut
  BY <1>4, <1>11, RestOrdered
<1> QED
  BY <1>3, <1>5, <1>6, <1>7, <1>8, <1>9, <1>10, <1>11 DEF Next

\* SameBlocks: with nothing on its way a client that wants the blocks has those of the
\* backend, whatever it missed (handleResponse() of the client).
THEOREM SameBlocksHolds == Spec => []SameBlocks
<1>1. Init => Typed /\ Ordered
  BY InitTyped, InitOrdered
<1>2. Typed /\ Ordered /\ [Next]_vars => (Typed /\ Ordered)'
  BY NextTyped, NextOrdered
<1>3. Typed /\ Ordered => SameBlocks
  <2> SUFFICES ASSUME Typed, Ordered, "restart" \notin faults, wants, down = <<>>
               PROVE  list = BlocksOf(chain)
    BY DEF SameBlocks
  <2>1. PICK top \in Heights : Orders(top) /\ Current(top)
    BY DEF Ordered
  <2>2. Len(down) = 0 /\ chain \in Seq(0..1)
    BY DEF Typed, TypeOK
  <2>3. latest = Len(chain) /\ list = Prefix(chain, latest)
    BY <2>1, <2>2 DEF Orders, Current, LastList
  <2> QED
    BY <2>2, <2>3, PrefixOf
<1> QED
  BY <1>1, <1>2, <1>3, PTL DEF Spec

=============================================================================
