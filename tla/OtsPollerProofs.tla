--------------------------- MODULE OtsPollerProofs ---------------------------
(* Theorems about the OTS poller, alone and next to the backfill script, for *)
(* any calendars, chains, runs of the script and outages.                    *)
EXTENDS OtsBackfill, SequenceTheorems, WellFoundedInduction, TLAPS

Answer == [txid : Commit, block : Blocks \ {0}]

\* What is left of an answer is about confirmed commits.
PollTyped ==
  poll \in [calendars : SUBSET Calendar, list : Seq(Answer),
            recent : SUBSET Commit, root : SUBSET Commit]

\* Blocks confirm the commits of a calendar in their order.
InOrder ==
  \A cal \in Calendar : \A i \in 1..Len(Chain[cal]), j \in 1..Len(Chain[cal]) :
    i <= j /\ block[Chain[cal][j]] # 0 => i <= sent[cal] /\ block[Chain[cal][i]] # 0

IInv == TypeOK /\ PollTyped /\ InOrder /\ RowFirst

-----------------------------------------------------------------------------
(* The chains                                                              *)

\* The chain of a calendar is a sequence of commits.
LEMMA ChainTyped ==
  ASSUME NEW cal \in Calendar
  PROVE  /\ Len(Chain[cal]) \in Nat /\ DOMAIN Chain[cal] = 1..Len(Chain[cal])
         /\ \A i \in 1..Len(Chain[cal]) : Chain[cal][i] \in Commit
<1>1. Chain[cal] \in Seq(ToSet(Chain[cal]))
  BY ChainAssumption
<1>2. Len(Chain[cal]) \in Nat /\ DOMAIN Chain[cal] = 1..Len(Chain[cal])
  BY <1>1, LenProperties
<1>3. ASSUME NEW i \in 1..Len(Chain[cal])
      PROVE  Chain[cal][i] \in Commit
  BY <1>2 DEF Commit, ToSet
<1> QED
  BY <1>2, <1>3

\* A commit has one place in one chain.
LEMMA OnePlace ==
  ASSUME NEW c \in Calendar, NEW d \in Calendar,
         NEW i \in 1..Len(Chain[c]), NEW j \in 1..Len(Chain[d]), Chain[c][i] = Chain[d][j]
  PROVE  c = d /\ i = j
<1>1. DOMAIN Chain[c] = 1..Len(Chain[c]) /\ DOMAIN Chain[d] = 1..Len(Chain[d])
  BY ChainTyped
<1>2. Chain[c][i] \in ToSet(Chain[c]) /\ Chain[c][i] \in ToSet(Chain[d])
  BY <1>1 DEF ToSet
<1>3. c = d
  BY <1>2, ChainAssumption
<1>4. IsInjective(Chain[c])
  BY ChainAssumption
<1> QED
  BY <1>1, <1>3, <1>4 DEF IsInjective

\* A set of numbers has a least one.
LEMMA LeastNumber ==
  ASSUME NEW S \in SUBSET Nat, S # {}
  PROVE  \E x \in S : \A y \in S : x <= y
<1> DEFINE R == OpToRel(<, Nat)
<1>1. IsWellFoundedOn(R, Nat)
  BY NatLessThanWellFounded
<1>2. \A x, y \in Nat : y < x => <<y, x>> \in R
  BY DEF OpToRel
<1> HIDE DEF R
<1>3. PICK x \in S : \A y \in S : ~(<<y, x>> \in R)
  BY <1>1, WFMin
<1>4. ASSUME NEW y \in S PROVE x <= y
  <2>1. x \in Nat /\ y \in Nat
    OBVIOUS
  <2>2. ~(y < x)
    BY <1>2, <1>3, <2>1, Zenon
  <2> QED
    BY <2>1, <2>2
<1> QED
  BY <1>4

\* Listed() is what it is said to be: confirmed commits of the calendar.
LEMMA ListedConfirmed ==
  ASSUME IInv, NEW cal \in Calendar
  PROVE  /\ Listed(cal) \in Seq(Commit)
         /\ \A k \in DOMAIN Listed(cal) : block[Listed(cal)[k]] # 0
<1> DEFINE len == Len(Chain[cal])
           P(n) == \A i \in 1..sent[cal] : block[Chain[cal][i]] # 0 <=> i <= n
           n == CHOOSE m \in 0..sent[cal] : P(m)
           shown == IF n < Window THEN n ELSE Window
<1>1. len \in Nat /\ sent[cal] \in 0..len
  BY ChainTyped DEF IInv, TypeOK
<1>2. \E m \in 0..sent[cal] : P(m)
  <2> DEFINE S == {m \in 0..sent[cal] : m = sent[cal] \/ block[Chain[cal][m + 1]] = 0}
  <2>1. S \in SUBSET Nat /\ sent[cal] \in S
    BY <1>1
  <2>2. PICK m \in S : \A k \in S : m <= k
    <3> HIDE DEF S
    <3> QED
      BY <2>1, LeastNumber
  <2>3. m \in 0..sent[cal]
    OBVIOUS
  <2>4. ASSUME NEW i \in 1..sent[cal]
        PROVE  block[Chain[cal][i]] # 0 <=> i <= m
    <3>1. CASE i <= m
      <4>1. i - 1 \in 0..sent[cal] /\ i - 1 < m /\ (i - 1) + 1 = i
        BY <1>1, <2>3, <3>1
      <4>2. i - 1 \notin S
        BY <1>1, <2>2, <2>3, <4>1
      <4> QED
        BY <1>1, <2>3, <3>1, <4>1, <4>2
    <3>2. CASE ~(i <= m)
      <4>1. m # sent[cal] /\ m + 1 \in 1..len /\ i \in 1..len /\ m + 1 <= i
        BY <1>1, <2>3, <3>2
      <4>2. block[Chain[cal][m + 1]] = 0
        BY <4>1
      <4> QED
        BY <3>2, <4>1, <4>2 DEF IInv, InOrder
    <3> QED
      BY <3>1, <3>2
  <2> QED
    BY <2>3, <2>4
<1>3. n \in 0..sent[cal] /\ P(n)
  <2> HIDE DEF P
  <2> QED
    BY <1>2
<1>4. Listed(cal) = [i \in 1..shown |-> Chain[cal][n + 1 - i]]
  BY DEF Listed, ConfirmedOf
<1> HIDE DEF n
<1>5. shown \in Nat /\ shown <= n /\ n \in Nat /\ sent[cal] \in Nat
  BY <1>1, <1>3, BoundsAssumption
<1>6. ASSUME NEW k \in 1..shown
      PROVE  Chain[cal][n + 1 - k] \in Commit /\ block[Chain[cal][n + 1 - k]] # 0
  <2>1. n + 1 - k \in 1..sent[cal] /\ n + 1 - k \in 1..len /\ n + 1 - k <= n
    BY <1>1, <1>3, <1>5
  <2> QED
    BY <1>3, <2>1, ChainTyped
<1>7. Listed(cal) \in [1..shown -> Commit]
  BY <1>4, <1>6
<1> QED
  <2> HIDE DEF shown
  <2>1. Listed(cal) \in Seq(Commit)
    BY <1>5, <1>7, SeqDef
  <2>2. ASSUME NEW k \in DOMAIN Listed(cal) PROVE block[Listed(cal)[k]] # 0
    <3>1. k \in 1..shown /\ Listed(cal)[k] = Chain[cal][n + 1 - k]
      BY <1>4, <2>2
    <3> QED
      BY <1>6, <3>1
  <2> QED
    BY <2>1, <2>2

-----------------------------------------------------------------------------
(* The table                                                               *)

TableTyped ==
  /\ DOMAIN table \subseteq Commit
  /\ \A t \in DOMAIN table : table[t] \in [root : Commit, block : Blocks]

\* The rows of a table that became another one are there, and no less confirmed.
RowsKept ==
  \A t \in DOMAIN table :
    /\ t \in DOMAIN table'
    /\ table[t].block # 0 => table'[t].block # 0
    /\ table'[t].root = table[t].root

\* Recording a pending commit adds at most its row, and takes nothing from any.
LEMMA PendingKeeps ==
  ASSUME TableTyped, NEW t \in Commit, NEW root \in Commit, table' = UpsertPending(t, root)
  PROVE  TableTyped' /\ RowsKept /\ DOMAIN table' = DOMAIN table \cup {t}
<1>1. 0 \in Blocks
  BY BoundsAssumption DEF Blocks
<1> QED
  BY <1>1 DEF TableTyped, RowsKept, UpsertPending

\* Recording a confirmed commit neither.
LEMMA ConfirmedKeeps ==
  ASSUME TableTyped, NEW t \in Commit, NEW root \in Commit, NEW b \in Blocks \ {0},
         table' = UpsertConfirmed(t, root, b)
  PROVE  TableTyped' /\ RowsKept /\ DOMAIN table' = DOMAIN table \cup {t}
<1>1. DOMAIN table' = DOMAIN table \cup {t}
  BY DEF UpsertConfirmed
<1>2. ASSUME NEW x \in DOMAIN table \cup {t}
      PROVE  /\ table'[x] \in [root : Commit, block : Blocks]
             /\ x \in DOMAIN table => /\ table'[x].root = table[x].root
                                      /\ table[x].block # 0 => table'[x].block # 0
  <2>1. CASE x # t
    <3>1. x \in DOMAIN table /\ table'[x] = table[x]
      BY <2>1 DEF UpsertConfirmed
    <3> QED
      BY <3>1 DEF TableTyped
  <2>2. CASE x = t /\ t \in DOMAIN table
    <3>1. table'[x] = [table[t] EXCEPT !.block = b]
      BY <2>2 DEF UpsertConfirmed
    <3>2. table[t] \in [root : Commit, block : Blocks]
      BY <2>2 DEF TableTyped
    <3> QED
      BY <2>2, <3>1, <3>2
  <2>3. CASE x = t /\ t \notin DOMAIN table
    <3>1. table'[x] = [root |-> root, block |-> b]
      BY <2>3 DEF UpsertConfirmed
    <3> QED
      BY <2>3, <3>1
  <2> QED
    BY <2>1, <2>2, <2>3
<1> QED
  BY <1>1, <1>2 DEF TableTyped, RowsKept

-----------------------------------------------------------------------------
(* The steps                                                               *)

\* The order of confirmations is the calendars' and the chain's business.
LEMMA InOrderKept ==
  ASSUME InOrder, world' = world
  PROVE  InOrder'
BY DEF InOrder, world

\* The merkle root of a row is the name of a commit.
LEMMA RootTyped ==
  ASSUME PollTyped, NEW t \in Commit
  PROVE  MerkleRoot(t) \in Commit
BY DEF PollTyped, MerkleRoot

\* Commits and confirmations leave the backend alone and confirm in order.
LEMMA WorldKeeps ==
  ASSUME IInv, World
  PROVE  IInv' /\ RowsKept
<1>1. UNCHANGED <<table, known, up, crashes, poll>>
  BY DEF World, Send, Confirm
<1>2. RowFirst' /\ PollTyped' /\ RowsKept
  BY <1>1 DEF IInv, RowFirst, PollTyped, RowsKept
<1>3. ASSUME NEW cal \in Calendar, Send(cal)
      PROVE  IInv'
  <2>1. \A c \in Calendar : sent'[c] \in 0..Len(Chain[c]) /\ sent'[c] >= sent[c]
    <3> SUFFICES ASSUME NEW c \in Calendar
                 PROVE  sent'[c] \in 0..Len(Chain[c]) /\ sent'[c] >= sent[c]
      OBVIOUS
    <3>1. Len(Chain[c]) \in Nat /\ sent[c] \in 0..Len(Chain[c])
      BY ChainTyped DEF IInv, TypeOK
    <3>2. sent'[c] = sent[c] \/ (c = cal /\ sent[c] < Len(Chain[c]) /\ sent'[c] = sent[c] + 1)
      BY <1>3 DEF Send, IInv, TypeOK
    <3> QED
      BY <3>1, <3>2
  <2>2. TypeOK'
    BY <1>1, <1>3, <2>1 DEF IInv, TypeOK, Send
  <2>3. InOrder'
    <3> SUFFICES ASSUME NEW c \in Calendar, NEW i \in 1..Len(Chain[c]),
                        NEW j \in 1..Len(Chain[c]), i <= j, block[Chain[c][j]] # 0
                 PROVE  i <= sent'[c] /\ block[Chain[c][i]] # 0
      BY <1>3 DEF InOrder, Send
    <3>1. i <= sent[c] /\ block[Chain[c][i]] # 0
      BY DEF IInv, InOrder
    <3>2. sent[c] \in Nat /\ sent'[c] \in Nat /\ sent'[c] >= sent[c] /\ i \in Nat
      BY <2>1, ChainTyped DEF IInv, TypeOK
    <3> QED
      BY <3>1, <3>2
  <2> QED
    BY <1>2, <2>2, <2>3 DEF IInv
<1>4. ASSUME NEW cal \in Calendar, NEW i \in DOMAIN Chain[cal], Confirm(cal, i)
      PROVE  IInv'
  <2>1. i \in 1..Len(Chain[cal]) /\ Chain[cal][i] \in Commit
    BY ChainTyped
  <2>2. /\ block' \in [Commit -> Blocks]
        /\ \A c \in Commit : block[c] # 0 => block'[c] # 0
        /\ \A c \in Commit : c # Chain[cal][i] => block'[c] = block[c]
        /\ block'[Chain[cal][i]] # 0
    BY <1>4, <2>1, BoundsAssumption DEF IInv, TypeOK, Confirm, Blocks
  <2>3. TypeOK'
    BY <1>1, <1>4, <2>2 DEF IInv, TypeOK, Confirm
  <2>4. InOrder'
    <3> SUFFICES ASSUME NEW c \in Calendar, NEW k \in 1..Len(Chain[c]),
                        NEW j \in 1..Len(Chain[c]), k <= j, block'[Chain[c][j]] # 0
                 PROVE  k <= sent[c] /\ block'[Chain[c][k]] # 0
      BY <1>4 DEF InOrder, Confirm
    <3>1. Chain[c][k] \in Commit /\ Chain[c][j] \in Commit
      BY ChainTyped
    <3>2. CASE block[Chain[c][j]] # 0
      BY <2>2, <3>1, <3>2 DEF IInv, InOrder
    <3>3. CASE block[Chain[c][j]] = 0
      <4>1. Chain[c][j] = Chain[cal][i]
        BY <2>2, <3>1, <3>3
      <4>2. c = cal /\ j = i
        BY <2>1, <4>1, OnePlace
      <4>3. CASE k = i
        BY <1>4, <2>2, <4>2, <4>3 DEF Confirm
      <4>4. CASE k # i
        <5>1. i - 1 \in 1..Len(Chain[cal]) /\ k <= i - 1 /\ i > 1
          BY <2>1, <4>2, <4>4, ChainTyped
        <5>2. block[Chain[cal][i - 1]] # 0
          BY <1>4, <5>1 DEF Confirm
        <5>3. k <= sent[c] /\ block[Chain[c][k]] # 0
          BY <4>2, <5>1, <5>2 DEF IInv, InOrder
        <5> QED
          BY <2>2, <3>1, <5>3
      <4> QED
        BY <4>3, <4>4
    <3> QED
      BY <3>2, <3>3
  <2> QED
    BY <1>2, <2>3, <2>4 DEF IInv
<1> QED
  BY <1>2, <1>3, <1>4 DEF World

\* Starts, crashes, and the calendars.
Tour ==
  \/ Boot \/ Crash \/ Tick \/ TableFails
  \/ \E cal \in Calendar : Fetch(cal) \/ Unreachable(cal)

\* What a tick does around the entries of an answer leaves the table alone.
LEMMA TourKeeps ==
  ASSUME IInv, Tour
  PROVE  IInv' /\ RowsKept
<1>1. UNCHANGED <<world, table>>
  BY DEF Tour, Boot, Crash, Tick, TableFails, Fetch, Unreachable
<1>2. RowsKept /\ InOrder'
  BY <1>1, InOrderKept DEF RowsKept, IInv
<1>3. RowFirst'
  BY <1>1
  DEF IInv, RowFirst, Tour, Boot, Crash, Tick, TableFails, Fetch, Unreachable
<1>4. up' \in BOOLEAN /\ crashes' \in 0..MaxCrashes
  <2>1. up' \in BOOLEAN
    BY DEF IInv, TypeOK, Tour, Boot, Crash, Tick, TableFails, Fetch, Unreachable
  <2>2. crashes' = crashes \/ (crashes < MaxCrashes /\ crashes' = crashes + 1)
    BY DEF Tour, Boot, Crash, Tick, TableFails, Fetch, Unreachable
  <2> QED
    BY <2>1, <2>2, BoundsAssumption DEF IInv, TypeOK
<1>5. PollTyped'
  <2>1. \A cals \in SUBSET Calendar :
          [Idle EXCEPT !.calendars = cals] \in
            [calendars : SUBSET Calendar, list : Seq(Answer), recent : SUBSET Commit,
             root : SUBSET Commit]
    BY EmptySeq DEF Idle
  <2>2. Idle = [Idle EXCEPT !.calendars = {}]
    BY DEF Idle
  <2>3. poll.calendars \subseteq Calendar
    BY DEF IInv, PollTyped
  <2>4. CASE ~\E cal \in Calendar : Fetch(cal)
    <3>1. \E cals \in SUBSET Calendar : poll' = [Idle EXCEPT !.calendars = cals]
      BY <2>2, <2>3, <2>4 DEF Tour, Boot, Crash, Tick, TableFails, Unreachable
    <3> QED
      BY <2>1, <3>1 DEF PollTyped
  <2>5. ASSUME NEW cal \in Calendar, Fetch(cal)
        PROVE  PollTyped'
    <3> DEFINE list == [i \in DOMAIN Listed(cal) |->
                          [txid |-> Listed(cal)[i], block |-> block[Listed(cal)[i]]]]
    <3>1. Listed(cal) \in Seq(Commit) /\ \A k \in DOMAIN Listed(cal) : block[Listed(cal)[k]] # 0
      BY ListedConfirmed
    <3>2. /\ Len(Listed(cal)) \in Nat /\ DOMAIN Listed(cal) = 1..Len(Listed(cal))
          /\ \A k \in DOMAIN Listed(cal) : Listed(cal)[k] \in Commit
      BY <3>1, LenProperties, ElementOfSeq
    <3>3. \A k \in DOMAIN Listed(cal) :
            [txid |-> Listed(cal)[k], block |-> block[Listed(cal)[k]]] \in Answer
      BY <3>1, <3>2 DEF Answer, IInv, TypeOK
    <3>4. list \in Seq(Answer)
      <4>1. list \in [1..Len(Listed(cal)) -> Answer]
        BY <3>2, <3>3
      <4> QED
        BY <3>2, <4>1, SeqDef
    <3> HIDE DEF list
    <3>5. PICK tip \in {Latest(cal), {}} :
            poll' = [calendars |-> poll.calendars \ {cal}, list |-> list,
                     recent |-> Recent(cal), root |-> tip]
      BY <2>5 DEF Fetch, list
    <3>6. tip \subseteq Commit /\ Recent(cal) \subseteq Commit
      BY DEF Latest, Recent
    <3> QED
      BY <2>3, <3>4, <3>5, <3>6 DEF PollTyped
  <2> QED
    BY <2>4, <2>5
<1>6. TypeOK'
  <2>1. known' \subseteq Commit
    BY <1>1, <1>3 DEF RowFirst, IInv, TypeOK
  <2>2. poll'.calendars \subseteq Calendar /\ poll'.list \in Seq(Answer)
    BY <1>5 DEF PollTyped
  <2>3. \A i \in DOMAIN poll'.list : poll'.list[i] \in Answer
    BY <2>2, LenProperties, ElementOfSeq
  <2> QED
    BY <1>1, <1>4, <2>1, <2>2, <2>3 DEF IInv, TypeOK, Answer, world
<1> QED
  BY <1>2, <1>3, <1>5, <1>6 DEF IInv

\* An entry of an answer is recorded: the row first, then the set.
LEMMA PollKeeps ==
  ASSUME IInv, NEW t \in Commit, PollConfirmed(t) \/ PollPending(t)
  PROVE  IInv' /\ RowsKept
<1>1. UNCHANGED <<world, up, crashes>>
  BY DEF PollConfirmed, PollPending
<1>2. TableTyped /\ MerkleRoot(t) \in Commit
  BY RootTyped DEF IInv, TypeOK, TableTyped
<1>3. CASE PollConfirmed(t)
  <2> DEFINE e == Head(poll.list)
  <2>1. poll.list \in Seq(Answer) /\ poll.list # <<>>
    BY <1>3 DEF IInv, PollTyped, PollConfirmed
  <2>2. e \in Answer /\ Tail(poll.list) \in Seq(Answer)
    BY <2>1, HeadTailProperties
  <2>3. e.txid = t /\ e.block \in Blocks \ {0}
    BY <1>3, <2>2 DEF PollConfirmed, Answer
  <2> HIDE DEF e
  <2>4. TableTyped' /\ RowsKept /\ known' \subseteq DOMAIN table'
    <3>1. \/ \E root \in Commit : table' = UpsertConfirmed(t, root, e.block)
          \/ table' = table /\ t \in known
      BY <1>2, <1>3, <2>3 DEF PollConfirmed, e
    <3>2. known' \subseteq known \cup {t}
      BY <1>3, <2>3 DEF PollConfirmed, e
    <3>3. CASE table' = table /\ t \in known
      BY <1>2, <3>2, <3>3 DEF IInv, RowFirst, TableTyped, RowsKept
    <3>4. ASSUME NEW root \in Commit, table' = UpsertConfirmed(t, root, e.block)
          PROVE  TableTyped' /\ RowsKept /\ known' \subseteq DOMAIN table'
      <4>1. TableTyped' /\ RowsKept /\ DOMAIN table' = DOMAIN table \cup {t}
        BY <1>2, <2>3, <3>4, ConfirmedKeeps
      <4> QED
        BY <3>2, <4>1 DEF IInv, RowFirst
    <3> QED
      BY <3>1, <3>3, <3>4
  <2>5. PollTyped'
    BY <1>3, <2>2 DEF IInv, PollTyped, PollConfirmed
  <2>6. \A i \in DOMAIN poll'.list : poll'.list[i] \in Answer
    <3>1. poll'.list \in Seq(Answer)
      BY <2>5 DEF PollTyped
    <3> QED
      BY <3>1, LenProperties, ElementOfSeq
  <2>7. TypeOK'
    BY <1>1, <2>4, <2>5, <2>6 DEF IInv, TypeOK, TableTyped, PollTyped, Answer, world
  <2> QED
    BY <1>1, <2>4, <2>5, <2>7, InOrderKept DEF IInv, RowFirst
<1>4. CASE PollPending(t)
  <2>1. TableTyped' /\ RowsKept /\ known' \subseteq DOMAIN table'
    <3>1. CASE t \in known
      BY <1>2, <1>4, <3>1 DEF IInv, RowFirst, PollPending, TableTyped, RowsKept
    <3>2. CASE t \notin known
      <4>1. TableTyped' /\ RowsKept /\ DOMAIN table' = DOMAIN table \cup {t}
        BY <1>2, <1>4, <3>2, PendingKeeps DEF PollPending
      <4> QED
        BY <1>4, <3>2, <4>1 DEF IInv, RowFirst, PollPending
    <3> QED
      BY <3>1, <3>2
  <2>2. PollTyped' /\ poll'.list = poll.list /\ poll'.calendars = poll.calendars
    BY <1>4 DEF IInv, PollTyped, PollPending
  <2>3. TypeOK'
    BY <1>1, <2>1, <2>2 DEF IInv, TypeOK, TableTyped, world
  <2> QED
    BY <1>1, <2>1, <2>2, <2>3, InOrderKept DEF IInv, RowFirst
<1> QED
  BY <1>3, <1>4

\* Every step keeps the invariant and the rows.
LEMMA NextKeeps ==
  ASSUME IInv, [Next]_vars
  PROVE  IInv' /\ RowsKept
<1>1. CASE World
  BY <1>1, WorldKeeps
<1>2. CASE Tour
  BY <1>2, TourKeeps
<1>3. ASSUME NEW t \in Commit, PollConfirmed(t) \/ PollPending(t)
      PROVE  IInv' /\ RowsKept
  BY <1>3, PollKeeps
<1>4. CASE UNCHANGED vars
  <2>1. InOrder'
    BY <1>4, InOrderKept DEF IInv, vars
  <2> QED
    BY <1>4, <2>1 DEF IInv, TypeOK, PollTyped, RowFirst, RowsKept, vars, world
<1> QED
  BY <1>1, <1>2, <1>3, <1>4 DEF Next, Backend, Tour

\* It holds at the start.
LEMMA InitHolds == Init => IInv
<1> SUFFICES ASSUME Init PROVE IInv
  OBVIOUS
<1>1. TypeOK /\ PollTyped
  <2>1. \A cal \in Calendar : sent[cal] \in 0..Len(Chain[cal])
    BY ChainTyped DEF Init
  <2>2. block \in [Commit -> Blocks] /\ crashes \in 0..MaxCrashes
    BY BoundsAssumption DEF Init, Blocks
  <2>3. PollTyped
    BY EmptySeq DEF Init, Idle, PollTyped
  <2>4. poll.calendars \subseteq Calendar /\ DOMAIN poll.list = {}
    BY DEF Init, Idle
  <2> QED
    BY <2>1, <2>2, <2>3, <2>4 DEF Init, TypeOK
<1>2. InOrder
  BY ChainTyped DEF Init, InOrder
<1> QED
  BY <1>1, <1>2 DEF Init, IInv, RowFirst

-----------------------------------------------------------------------------
(* The theorems                                                            *)

\* The inductive invariant.
THEOREM Inductive == Spec => []IInv
<1> QED
  BY InitHolds, NextKeeps, PTL DEF Spec

\* Types.
THEOREM TypeCorrect == Spec => []TypeOK
<1>1. IInv => TypeOK
  BY DEF IInv
<1> QED
  BY <1>1, Inductive, PTL

\* A txid is in the set only if its row is in the table, through outages and crashes.
THEOREM RowFirstHolds == Spec => []RowFirst
<1>1. IInv => RowFirst
  BY DEF IInv
<1> QED
  BY <1>1, Inductive, PTL

\* Whatever the calendars answer, the poller never loses a row, takes a confirmation
\* back, or changes a merkle root.
THEOREM RowsOnlyGrowHolds == Spec => RowsOnlyGrow
<1>1. IInv /\ [Next]_vars => [RowsKept]_vars
  BY NextKeeps
<1> QED
  BY <1>1, Inductive, PTL DEF Spec, RowsOnlyGrow, RowsKept

-----------------------------------------------------------------------------
(* The backfill                                                            *)

\* A calendar of which the script has found no row so far and that is still to be walked.
ToCome(cal) ==
  /\ ended[cal].reason = "none"
  /\ cal \notin script.cal
  /\ \A i \in 1..Len(Chain[cal]) : Chain[cal][i] \notin script.set

\* A calendar on whose chain the walk is: it has recorded what lies between the seed and
\* where it is, and knows nothing of what lies before.
Underway(cal) ==
  /\ ended[cal].reason = "none"
  /\ ended[cal].seed \in 0..Len(Chain[cal]) /\ script.at \in 0..ended[cal].seed
  /\ \A i \in 1..ended[cal].seed : i > script.at => Chain[cal][i] \in DOMAIN table
  /\ \A i \in 1..Len(Chain[cal]) : Chain[cal][i] \in script.set => i > script.at

WalkGood ==
  /\ \A cal \in script.left : cal \notin script.cal
  /\ \A c, d \in script.cal : c = d
  /\ script.seen # {} => script.at > 0
  /\ \A cal \in script.cal : script.at \in 0..Len(Chain[cal])
  /\ \A cal \in script.fresh :
       /\ cal \in script.left => ToCome(cal)
       /\ cal \in script.cal => Underway(cal)
       /\ ended[cal].reason \in {"already-seen", "shape-mismatch"} => Filled(cal)

BInv == IInv /\ BTypeOK /\ WalkGood

\* What the poller does meanwhile only adds rows.
LEMMA PollerKeeps ==
  ASSUME BInv, [Next]_vars, UNCHANGED <<script, ended, runs>>
  PROVE  BInv' /\ RowsKept
<1>1. IInv' /\ RowsKept
  BY NextKeeps DEF BInv
<1>2. DOMAIN table \subseteq DOMAIN table'
  BY <1>1 DEF RowsKept
<1> QED
  BY <1>1, <1>2 DEF BInv, BTypeOK, WalkGood, ToCome, Underway, Filled

\* The script leaves the poller alone, and so the table unless it records.
LEMMA ScriptCalm ==
  ASSUME IInv, UNCHANGED <<backend, table>>
  PROVE  IInv' /\ RowsKept
<1>1. UNCHANGED vars
  BY DEF backend, vars
<1> QED
  BY <1>1, NextKeeps

\* A new run knows the rows there are, and which calendars have none.
LEMMA StartKeeps ==
  ASSUME BInv, Start
  PROVE  BTypeOK' /\ WalkGood'
<1>1. script' = [Off EXCEPT !.on = TRUE, !.set = DOMAIN table, !.left = Calendar,
                   !.fresh = {cal \in Calendar : ToSet(Chain[cal]) \cap DOMAIN table = {}}]
  BY DEF Start
<1>2. DOMAIN table \subseteq Commit
  BY DEF BInv, IInv, TypeOK
<1>3. Off \in Script
  BY BackfillAssumption DEF Off, Script
<1>4. BTypeOK'
  <2>1. script' \in Script
    BY <1>1, <1>2, <1>3 DEF Script
  <2>2. ended' \in [Calendar -> [seed : Nat, reason : Reason]]
    BY DEF Start, Reason
  <2>3. runs' \in 0..MaxRuns
    BY BackfillAssumption DEF BInv, BTypeOK, Start
  <2> QED
    BY <2>1, <2>2, <2>3 DEF BTypeOK
<1>5. /\ script'.cal = {} /\ script'.seen = {} /\ script'.left = Calendar
      /\ script'.set = DOMAIN table
      /\ \A cal \in script'.fresh : cal \in Calendar /\ ToSet(Chain[cal]) \cap DOMAIN table = {}
  BY <1>1 DEF Off
<1>6. ASSUME NEW cal \in script'.fresh
      PROVE  /\ cal \in Calendar /\ ended'[cal].reason = "none"
             /\ \A i \in 1..Len(Chain[cal]) : Chain[cal][i] \notin script'.set
  <2>1. cal \in Calendar /\ ToSet(Chain[cal]) \cap DOMAIN table = {}
    BY <1>5
  <2>2. \A i \in 1..Len(Chain[cal]) : Chain[cal][i] \in ToSet(Chain[cal])
    BY <2>1, ChainTyped DEF ToSet
  <2> QED
    BY <1>5, <2>1, <2>2 DEF Start
<1>7. WalkGood'
  BY <1>5, <1>6 DEF WalkGood, ToCome
<1> QED
  BY <1>4, <1>7

\* A run that ends leaves no claim behind.
LEMMA StopKeeps ==
  ASSUME BInv, Stop
  PROVE  BTypeOK' /\ WalkGood'
BY BackfillAssumption DEF BInv, BTypeOK, Stop, WalkGood, Off, Script

\* The fields a step of the script sets keep the type of its state.
LEMMA WalkTyped ==
  ASSUME NEW s \in Script, NEW L \in SUBSET Calendar, NEW C \in SUBSET Calendar,
         NEW n \in Nat, NEW w \in 0..MaxDepth
  PROVE  [s EXCEPT !.left = L, !.cal = C, !.at = n, !.walked = w] \in Script
BY DEF Script

LEMMA SeenTyped ==
  ASSUME NEW s \in Script, NEW S \in SUBSET Blocks, NEW w \in 0..MaxDepth
  PROVE  [s EXCEPT !.seen = S, !.walked = w] \in Script
BY DEF Script

LEMMA RecordTyped ==
  ASSUME NEW s \in Script, NEW K \in SUBSET Commit, NEW S \in SUBSET Blocks, NEW n \in Nat
  PROVE  [s EXCEPT !.set = K, !.seen = S, !.at = n] \in Script
BY DEF Script

\* A walk begins at the oldest commit the calendar lists, or the calendar is skipped.
LEMMA SeedKeeps ==
  ASSUME BInv, NEW cal \in Calendar, Seed(cal)
  PROVE  BTypeOK' /\ WalkGood'
<1>1. /\ script \in Script /\ ended \in [Calendar -> [seed : Nat, reason : Reason]]
      /\ script.cal = {} /\ cal \in script.left /\ UNCHANGED <<table, runs>>
  <2>1. script \in Script /\ ended \in [Calendar -> [seed : Nat, reason : Reason]]
    BY DEF BInv, BTypeOK
  <2> QED
    BY <2>1 DEF Seed
<1>2. ASSUME NEW at \in DOMAIN Chain[cal],
             script' = [script EXCEPT !.left = @ \ {cal}, !.cal = {cal}, !.at = at, !.walked = 0],
             ended' = [ended EXCEPT ![cal].seed = at]
      PROVE  BTypeOK' /\ WalkGood'
  <2>1. at \in 1..Len(Chain[cal]) /\ at \in Nat
    BY ChainTyped
  <2>2. /\ script' \in Script /\ script'.left = script.left \ {cal} /\ script'.cal = {cal}
        /\ script'.at = at /\ script'.fresh = script.fresh /\ script'.set = script.set
        /\ script'.seen = script.seen
    <3>1. script.left \ {cal} \in SUBSET Calendar /\ 0 \in 0..MaxDepth
      BY <1>1, BackfillAssumption DEF Script
    <3>2. script' \in Script
      BY <1>1, <1>2, <2>1, <3>1, WalkTyped
    <3> QED
      BY <1>1, <1>2, <3>2 DEF Script
  <2>3. /\ ended' \in [Calendar -> [seed : Nat, reason : Reason]]
        /\ ended'[cal].seed = at /\ ended'[cal].reason = ended[cal].reason
        /\ \A d \in Calendar : d # cal => ended'[d] = ended[d]
    BY <1>1, <1>2, <2>1
  <2>4. BTypeOK'
    BY <1>1, <2>2, <2>3 DEF BInv, BTypeOK
  <2>5. ASSUME cal \in script.fresh PROVE Underway(cal)' /\ ended[cal].reason = "none"
    <3>1. ToCome(cal)
      BY <1>1, <2>5 DEF BInv, WalkGood
    <3>2. Len(Chain[cal]) \in Nat
      BY ChainTyped
    <3> QED
      BY <1>1, <2>1, <2>2, <2>3, <3>1, <3>2 DEF ToCome, Underway
  <2>6. ASSUME NEW d \in script.fresh, d # cal
        PROVE  /\ d \in script'.left => ToCome(d)'
               /\ ended'[d].reason \in {"already-seen", "shape-mismatch"} => Filled(d)'
    <3>1. d \in Calendar
      BY <1>1 DEF Script
    <3> QED
      BY <1>1, <2>2, <2>3, <2>6, <3>1 DEF BInv, WalkGood, ToCome, Filled
  <2>7. WalkGood'
    BY <1>1, <2>1, <2>2, <2>3, <2>5, <2>6 DEF BInv, WalkGood
  <2> QED
    BY <2>4, <2>7
<1>3. ASSUME script' = [script EXCEPT !.left = @ \ {cal}],
             ended' = [ended EXCEPT ![cal].reason = "fetch-error"]
      PROVE  BTypeOK' /\ WalkGood'
  <2>1. /\ script' \in Script /\ script'.left = script.left \ {cal} /\ script'.cal = script.cal
        /\ script'.at = script.at /\ script'.fresh = script.fresh /\ script'.set = script.set
        /\ script'.seen = script.seen
    BY <1>1, <1>3 DEF Script
  <2>2. /\ ended' \in [Calendar -> [seed : Nat, reason : Reason]]
        /\ ended'[cal].reason = "fetch-error"
        /\ \A d \in Calendar : d # cal => ended'[d] = ended[d]
    BY <1>1, <1>3 DEF Reason
  <2>3. ASSUME NEW d \in script.fresh, d # cal
        PROVE  /\ d \in script'.left => ToCome(d)'
               /\ ended'[d].reason \in {"already-seen", "shape-mismatch"} => Filled(d)'
    <3>1. d \in Calendar
      BY <1>1 DEF Script
    <3> QED
      BY <1>1, <2>1, <2>2, <2>3, <3>1 DEF BInv, WalkGood, ToCome, Filled
  <2> QED
    BY <1>1, <2>1, <2>2, <2>3 DEF BInv, BTypeOK, WalkGood
<1> QED
  BY <1>2, <1>3 DEF Seed

\* A walk of a calendar without a row never meets a commit it knows: it ends where the chain
\* began, or by an error or the limit.
LEMMA EndWalkKeeps ==
  ASSUME BInv, NEW cal \in script.cal, NEW reason \in Reason, NEW walked \in 0..MaxDepth,
         script' = [script EXCEPT !.cal = {}, !.walked = walked],
         ended' = [ended EXCEPT ![cal].reason = reason], UNCHANGED <<table, runs>>,
         script.seen = {},
         cal \in script.fresh /\ reason \in {"already-seen", "shape-mismatch"} => script.at = 0
  PROVE  BTypeOK' /\ WalkGood'
<1>1. /\ script \in Script /\ ended \in [Calendar -> [seed : Nat, reason : Reason]]
      /\ cal \in Calendar
  BY DEF BInv, BTypeOK, Script
<1>2. /\ script' \in Script /\ script'.left = script.left /\ script'.cal = {}
      /\ script'.fresh = script.fresh /\ script'.set = script.set /\ script'.seen = script.seen
  BY <1>1 DEF Script
<1>3. /\ ended' \in [Calendar -> [seed : Nat, reason : Reason]]
      /\ ended'[cal].reason = reason /\ ended'[cal].seed = ended[cal].seed
      /\ \A d \in Calendar : d # cal => ended'[d] = ended[d]
  BY <1>1
<1>4. cal \notin script.left /\ \A d \in script.cal : d = cal
  BY DEF BInv, WalkGood
<1>5. ASSUME cal \in script.fresh, reason \in {"already-seen", "shape-mismatch"}
      PROVE  Filled(cal)'
  <2>1. script.at = 0 /\ Underway(cal)
    BY <1>5 DEF BInv, WalkGood
  <2>2. \A i \in 1..ended[cal].seed : i > 0
    BY <1>1
  <2> QED
    BY <1>3, <2>1, <2>2 DEF Underway, Filled
<1>6. ASSUME NEW d \in script.fresh, d # cal
      PROVE  /\ d \in script'.left => ToCome(d)'
             /\ ended'[d].reason \in {"already-seen", "shape-mismatch"} => Filled(d)'
  <2>1. d \in Calendar
    BY <1>1 DEF Script
  <2> QED
    BY <1>2, <1>3, <1>4, <1>6, <2>1 DEF BInv, WalkGood, ToCome, Filled
<1> QED
  BY <1>2, <1>3, <1>4, <1>5, <1>6 DEF BInv, BTypeOK, WalkGood

\* The ways a walk ends.
LEMMA EndsKeep ==
  ASSUME BInv, NEW cal \in Calendar,
         DepthReached(cal) \/ AlreadySeen(cal) \/ FetchFails(cal) \/ NoCommit(cal)
  PROVE  BTypeOK' /\ WalkGood'
<1>1. script \in Script /\ cal \in script.cal /\ script.seen = {} /\ UNCHANGED <<table, runs>>
  BY DEF BInv, BTypeOK, DepthReached, AlreadySeen, FetchFails, NoCommit, At, Walking, EndWalk
<1>2. script.walked \in 0..MaxDepth
  BY <1>1 DEF Script
<1>3. CASE DepthReached(cal) \/ FetchFails(cal)
  <2>1. PICK reason \in Reason :
          reason \notin {"already-seen", "shape-mismatch"} /\ EndWalk(cal, reason)
    BY <1>3 DEF DepthReached, FetchFails, Reason
  <2>2. script' = [script EXCEPT !.cal = {}, !.walked = script.walked]
    BY <1>1, <2>1 DEF EndWalk, Script
  <2> QED
    BY <1>1, <1>2, <2>1, <2>2, EndWalkKeeps DEF EndWalk
<1>4. CASE AlreadySeen(cal)
  <2>1. script' = [script EXCEPT !.cal = {}, !.walked = script.walked]
    BY <1>1, <1>4 DEF AlreadySeen, EndWalk, Script
  <2>2. cal \notin script.fresh
    <3> SUFFICES ASSUME cal \in script.fresh PROVE FALSE
      OBVIOUS
    <3>1. Underway(cal)
      BY <1>1 DEF BInv, WalkGood
    <3>2. script.at > 0 /\ Chain[cal][script.at] \in script.set
      BY <1>4 DEF AlreadySeen, Seen
    <3>3. Len(Chain[cal]) \in Nat
      BY ChainTyped
    <3>4. script.at \in 1..Len(Chain[cal])
      BY <3>1, <3>2, <3>3 DEF Underway
    <3> QED
      BY <3>1, <3>2, <3>3, <3>4 DEF Underway
  <2>3. "already-seen" \in Reason
    BY DEF Reason
  <2> QED
    BY <1>1, <1>2, <1>4, <2>1, <2>2, <2>3, EndWalkKeeps DEF AlreadySeen, EndWalk
<1>5. CASE NoCommit(cal)
  <2>1. /\ script.at = 0 /\ script.walked < MaxDepth
        /\ script' = [script EXCEPT !.cal = {}, !.walked = script.walked + 1]
        /\ ended' = [ended EXCEPT ![cal].reason = "shape-mismatch"]
    BY <1>5 DEF NoCommit, Walking
  <2>2. script.walked + 1 \in 0..MaxDepth
    BY <1>2, <2>1, BackfillAssumption
  <2>3. "shape-mismatch" \in Reason
    BY DEF Reason
  <2> QED
    BY <1>1, <2>1, <2>2, <2>3, EndWalkKeeps
<1> QED
  BY <1>3, <1>4, <1>5

\* electrs answers; nothing is recorded yet.
LEMMA LookKeeps ==
  ASSUME BInv, NEW cal \in Calendar, Look(cal)
  PROVE  BTypeOK' /\ WalkGood'
<1>1. /\ script \in Script /\ script.at > 0 /\ script.walked < MaxDepth /\ cal \in script.cal
      /\ script' = [script EXCEPT !.seen = {block[Chain[cal][script.at]]}, !.walked = @ + 1]
      /\ UNCHANGED <<table, ended, runs>>
  BY DEF BInv, BTypeOK, Look, Walking, At
<1>2. block[Chain[cal][script.at]] \in Blocks
  <2>1. Len(Chain[cal]) \in Nat
    BY ChainTyped
  <2>2. script.at \in 1..Len(Chain[cal])
    BY <1>1, <2>1 DEF BInv, WalkGood, Script
  <2> QED
    BY <2>2, ChainTyped DEF BInv, IInv, TypeOK
<1>3. /\ script' \in Script /\ script'.left = script.left /\ script'.cal = script.cal
      /\ script'.at = script.at /\ script'.fresh = script.fresh /\ script'.set = script.set
  <2>1. script.walked + 1 \in 0..MaxDepth
    BY <1>1, BackfillAssumption DEF Script
  <2>2. script' \in Script
    BY <1>1, <1>2, <2>1, SeenTyped
  <2> QED
    BY <1>1, <2>2 DEF Script
<1> QED
  BY <1>1, <1>3 DEF BInv, BTypeOK, WalkGood, ToCome, Underway, Filled

\* The commit gets its row, and only then the walk goes on before it.
LEMMA RecordKeeps ==
  ASSUME BInv, NEW cal \in Calendar, Record(cal)
  PROVE  BInv' /\ RowsKept
<1> DEFINE c == Chain[cal][script.at]
<1>1. /\ script \in Script /\ cal \in script.cal /\ UNCHANGED <<backend, ended, runs>>
      /\ script' = [script EXCEPT !.set = @ \cup {c}, !.seen = {}, !.at = @ - 1]
  BY DEF BInv, BTypeOK, Record
<1>2. PICK b \in script.seen :
        table' = IF b = 0 THEN UpsertPending(c, c) ELSE UpsertConfirmed(c, c, b)
  BY DEF Record
<1>3. Len(Chain[cal]) \in Nat /\ script.at \in 1..Len(Chain[cal]) /\ c \in Commit /\ b \in Blocks
  <2>1. Len(Chain[cal]) \in Nat
    BY ChainTyped
  <2>2. script.at \in 1..Len(Chain[cal])
    BY <1>1, <1>2, <2>1 DEF BInv, WalkGood, Script
  <2> QED
    BY <1>1, <2>1, <2>2, ChainTyped DEF Script
<1>4. TableTyped
  BY DEF BInv, IInv, TypeOK, TableTyped
<1> HIDE DEF c
<1>5. TableTyped' /\ RowsKept /\ DOMAIN table' = DOMAIN table \cup {c}
  BY <1>2, <1>3, <1>4, PendingKeeps, ConfirmedKeeps
<1>6. IInv'
  <2>1. TypeOK'
    BY <1>1, <1>5 DEF BInv, IInv, TypeOK, TableTyped, backend, world
  <2>2. InOrder'
    BY <1>1, InOrderKept DEF BInv, IInv, backend
  <2> QED
    BY <1>1, <1>5, <2>1, <2>2 DEF BInv, IInv, PollTyped, RowFirst, backend
<1>7. /\ script' \in Script /\ script'.left = script.left /\ script'.cal = script.cal
      /\ script'.at = script.at - 1 /\ script'.fresh = script.fresh
      /\ script'.set = script.set \cup {c} /\ script'.seen = {}
  <2>1. script.set \cup {c} \in SUBSET Commit /\ script.at - 1 \in Nat
    BY <1>1, <1>3 DEF Script
  <2>2. script' \in Script
    BY <1>1, <2>1, RecordTyped
  <2> QED
    BY <1>1, <2>2 DEF Script
<1>8. BTypeOK'
  BY <1>1, <1>7 DEF BInv, BTypeOK
<1>9. \A d \in script.cal : d = cal
  BY <1>1 DEF BInv, WalkGood
<1>10. ASSUME NEW d \in script.fresh, d \in script.left
       PROVE  ToCome(d)'
  <2>1. ToCome(d) /\ d # cal /\ d \in Calendar
    BY <1>1, <1>10 DEF BInv, WalkGood, Script
  <2>2. \A i \in 1..Len(Chain[d]) : Chain[d][i] # c
    BY <1>3, <2>1, OnePlace DEF c
  <2> QED
    BY <1>1, <1>7, <2>1, <2>2 DEF ToCome
<1>11. ASSUME cal \in script.fresh PROVE Underway(cal)'
  <2>1. Underway(cal)
    BY <1>1, <1>11 DEF BInv, WalkGood
  <2>2. \A i \in 1..Len(Chain[cal]) : Chain[cal][i] = c => i = script.at
    BY <1>3, OnePlace DEF c
  <2>3. \A i \in 1..ended[cal].seed : i > script.at - 1 => i > script.at \/ Chain[cal][i] = c
    BY <1>3, <2>1 DEF Underway, c
  <2> QED
    BY <1>1, <1>3, <1>5, <1>7, <2>1, <2>2, <2>3 DEF Underway
<1>12. ASSUME NEW d \in script.fresh, ended[d].reason \in {"already-seen", "shape-mismatch"}
       PROVE  Filled(d)'
  BY <1>1, <1>5, <1>12 DEF BInv, WalkGood, Filled
<1>13. WalkGood'
  BY <1>1, <1>3, <1>7, <1>9, <1>10, <1>11, <1>12 DEF BInv, WalkGood
<1> QED
  BY <1>5, <1>6, <1>8, <1>13 DEF BInv

\* Every step of the two keeps the invariant and the rows.
LEMMA BNextKeeps ==
  ASSUME BInv, [BNext]_bvars
  PROVE  BInv' /\ RowsKept
<1>1. CASE Next /\ UNCHANGED <<script, ended, runs>>
  BY <1>1, PollerKeeps
<1>2. CASE UNCHANGED bvars
  BY <1>2, PollerKeeps DEF bvars
<1>3. ASSUME BTypeOK' /\ WalkGood', UNCHANGED <<backend, table>>
      PROVE  BInv' /\ RowsKept
  BY <1>3, ScriptCalm DEF BInv
<1>4. CASE Start \/ Stop
  BY <1>3, <1>4, StartKeeps, StopKeeps DEF Start, Stop
<1>5. ASSUME NEW cal \in Calendar,
             \/ Seed(cal) \/ DepthReached(cal) \/ AlreadySeen(cal) \/ FetchFails(cal)
             \/ NoCommit(cal) \/ Look(cal)
      PROVE  BInv' /\ RowsKept
  <2>1. UNCHANGED <<backend, table>>
    BY <1>5 DEF Seed, DepthReached, AlreadySeen, FetchFails, NoCommit, Look, EndWalk
  <2> QED
    BY <1>3, <1>5, <2>1, SeedKeeps, EndsKeep, LookKeeps
<1>6. ASSUME NEW cal \in Calendar, Record(cal)
      PROVE  BInv' /\ RowsKept
  BY <1>6, RecordKeeps
<1> QED
  BY <1>1, <1>2, <1>4, <1>5, <1>6 DEF BNext, Backfill

\* The inductive invariant of the poller and the script together.
THEOREM BackfillInductive == BSpec => []BInv
<1>1. BInit => BInv
  <2> SUFFICES ASSUME BInit PROVE BInv
    OBVIOUS
  <2>1. IInv
    BY InitHolds DEF BInit
  <2>2. Off \in Script
    BY BackfillAssumption DEF Off, Script
  <2>3. BTypeOK
    BY <2>2, BackfillAssumption DEF BInit, BTypeOK, Reason
  <2>4. WalkGood
    BY DEF BInit, WalkGood, Off
  <2> QED
    BY <2>1, <2>3, <2>4 DEF BInv
<1>2. BInv /\ [BNext]_bvars => BInv'
  BY BNextKeeps
<1> QED
  BY <1>1, <1>2, PTL DEF BSpec

\* A walk of a calendar the table had no row of, that met no error and no limit, has
\* recorded everything from its seed back.
THEOREM FirstWalkFillsHolds == BSpec => []FirstWalkFills
<1>1. BInv => FirstWalkFills
  BY DEF BInv, WalkGood, FirstWalkFills
<1> QED
  BY <1>1, BackfillInductive, PTL

\* Rows are not lost or downgraded either when the script writes to the table, too.
THEOREM BackfillRowsOnlyGrow == BSpec => RowsOnlyGrow
<1>1. BInv /\ [BNext]_bvars => [RowsKept]_vars
  BY BNextKeeps
<1> QED
  BY <1>1, BackfillInductive, PTL DEF BSpec, RowsOnlyGrow, RowsKept
=============================================================================
