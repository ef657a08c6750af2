------------------------------ MODULE OtsPoller ------------------------------
(***************************************************************************)
(* How the backend learns which transactions are OpenTimestamps commits:   *)
(* the poller (backend/src/api/ordpool-ots-poller.ts) asks every calendar  *)
(* server, records what it sees in the table ordpool_stats_ots             *)
(* (backend/src/repositories/OrdpoolOtsRepository.ts) and keeps the txids  *)
(* in a set in memory (backend/src/api/ordpool-ots-txid-set.ts), from      *)
(* which transactions get their flag.  The set is loaded from the table    *)
(* when the process starts (backend/src/index.ts).                         *)
(*                                                                         *)
(* External: a calendar spends the change of each commit in the next one,  *)
(* so its commits form a chain; Chain[cal] lists it, oldest first.         *)
(***************************************************************************)
EXTENDS Naturals, FiniteSets, Sequences, SequencesExt

CONSTANTS
  Calendar,    \* the known calendars
  Chain,       \* calendar -> the sequence of its commits
  Window,      \* how many confirmed commits a calendar lists
  MaxFork,     \* bound: blocks that confirm one commit, one after a reorg of the other
  MaxCrashes,  \* bound: crashes of the backend
  Outages      \* what may fail: "calendar", "table", "boot", and "electrs" (OtsBackfill)

Commit == UNION {ToSet(Chain[cal]) : cal \in Calendar}

ASSUME ChainAssumption ==
  /\ \A cal \in Calendar : Chain[cal] \in Seq(ToSet(Chain[cal])) /\ IsInjective(Chain[cal])
  /\ \A c, d \in Calendar : c # d => ToSet(Chain[c]) \cap ToSet(Chain[d]) = {}
ASSUME BoundsAssumption ==
  /\ Window \in Nat \ {0} /\ MaxFork \in Nat \ {0} /\ MaxCrashes \in Nat
  /\ Outages \subseteq {"calendar", "table", "boot", "electrs"}

VARIABLES
  sent,      \* calendar -> how many commits it has broadcast
  block,     \* commit -> the block it is in, 0 while unconfirmed
  table,     \* ordpool_stats_ots: txid -> [root, block]; block 0 is a pending row
  known,     \* the txids of OrdpoolOtsTxidSet
  up,        \* the backend has started
  crashes,   \* crashes so far
  poll       \* the tick in flight: calendars left and what is left of one answer

world == <<sent, block>>
vars == <<world, table, known, up, crashes, poll>>

Blocks == 0..MaxFork

\* No tick in flight.
Idle == [calendars |-> {}, list |-> <<>>, recent |-> {}, root |-> {}]

TypeOK ==
  /\ \A cal \in Calendar : sent[cal] \in 0..Len(Chain[cal])
  /\ block \in [Commit -> Blocks]
  /\ DOMAIN table \subseteq Commit
  /\ \A t \in DOMAIN table : table[t] \in [root : Commit, block : Blocks]
  /\ known \subseteq Commit
  /\ up \in BOOLEAN
  /\ crashes \in 0..MaxCrashes
  /\ poll.calendars \subseteq Calendar
  /\ \A i \in DOMAIN poll.list : poll.list[i] \in [txid : Commit, block : Blocks \ {0}]

Init ==
  /\ sent = [cal \in Calendar |-> 0]
  /\ block = [c \in Commit |-> 0]
  /\ table = [t \in {} |-> {}]
  /\ known = {}
  /\ up = FALSE
  /\ crashes = 0
  /\ poll = Idle

-----------------------------------------------------------------------------
(* The calendars and the chain (external)                                  *)

Send(cal) ==
  /\ sent[cal] < Len(Chain[cal])
  /\ sent' = [sent EXCEPT ![cal] = @ + 1]
  /\ UNCHANGED <<block, table, known, up, crashes, poll>>

\* Blocks confirm a commit after those before it; a reorg moves it to another one.
Confirm(cal, i) ==
  LET c == Chain[cal][i]
  IN /\ i <= sent[cal]
     /\ i > 1 => block[Chain[cal][i - 1]] # 0
     /\ block[c] < MaxFork
     /\ block' = [block EXCEPT ![c] = @ + 1]
     /\ UNCHANGED <<sent, table, known, up, crashes, poll>>

\* How many commits of a calendar are confirmed, the oldest ones.
ConfirmedOf(cal) ==
  CHOOSE n \in 0..sent[cal] : \A i \in 1..sent[cal] : block[Chain[cal][i]] # 0 <=> i <= n

\* The confirmed commits a calendar lists, newest first ...
Listed(cal) ==
  LET n == ConfirmedOf(cal)
  IN [i \in 1..(IF n < Window THEN n ELSE Window) |-> Chain[cal][n + 1 - i]]

\* ... its latest unconfirmed one, if there is one, and its tip: the root of the
\* latest broadcast, which an answer may lack.  (A root is named like its commit.)
Latest(cal) == {c \in Commit : sent[cal] > 0 /\ c = Chain[cal][sent[cal]]}
Recent(cal) == {c \in Latest(cal) : block[c] = 0}

-----------------------------------------------------------------------------
(* The table                                                               *)

\* Seeded: the whole row is replaced.
FaultyUpsertPending(t, root) ==
  [x \in DOMAIN table \cup {t} |-> IF x = t THEN [root |-> root, block |-> 0] ELSE table[x]]

\* upsertPending(): an existing row stays as it is.
UpsertPending(t, root) ==
  [x \in DOMAIN table \cup {t} |->
     IF x \in DOMAIN table THEN table[x] ELSE [root |-> root, block |-> 0]]

\* upsertConfirmed(): an existing row keeps its merkle root.
UpsertConfirmed(t, root, b) ==
  [x \in DOMAIN table \cup {t} |->
     CASE x # t -> table[x]
       [] x = t /\ t \in DOMAIN table -> [table[t] EXCEPT !.block = b]
       [] OTHER -> [root |-> root, block |-> b]]

-----------------------------------------------------------------------------
(* The backend                                                             *)

\* Start: bootstrap() the set, which may fail ("fail-soft"), and start the poller.
Boot ==
  /\ ~ up
  /\ up' = TRUE
  /\ \/ known' = DOMAIN table
     \/ "boot" \in Outages /\ known' = {}
  /\ poll' = [Idle EXCEPT !.calendars = Calendar]
  /\ UNCHANGED <<world, table, crashes>>

Crash ==
  /\ up /\ crashes < MaxCrashes
  /\ crashes' = crashes + 1
  /\ up' = FALSE
  /\ known' = {}
  /\ poll' = Idle
  /\ UNCHANGED <<world, table>>

\* The tick in flight has come to its end.
Finished == poll.calendars = {} /\ poll.list = <<>> /\ poll.recent = {}

\* tick() by the interval timer; nothing happens while one is in flight.
Tick ==
  /\ up /\ Finished
  /\ poll' = [Idle EXCEPT !.calendars = Calendar]
  /\ UNCHANGED <<world, table, known, up, crashes>>

\* Between two calendars.
Asking == poll.calendars # {} /\ poll.list = <<>> /\ poll.recent = {}

\* pollOne(): the answer is read once and then worked off with awaits in between.
Fetch(cal) ==
  /\ Asking /\ cal \in poll.calendars
  /\ \E tip \in {Latest(cal), {}} :
       LET answer == Listed(cal)
       IN poll' = [calendars |-> poll.calendars \ {cal},
                   list |-> [i \in DOMAIN answer |-> [txid |-> answer[i], block |-> block[answer[i]]]],
                   recent |-> Recent(cal),
                   root |-> tip]
  /\ UNCHANGED <<world, table, known, up, crashes>>

\* A calendar that does not answer in time is skipped.
Unreachable(cal) ==
  /\ "calendar" \in Outages
  /\ Asking /\ cal \in poll.calendars
  /\ poll' = [Idle EXCEPT !.calendars = poll.calendars \ {cal}]
  /\ UNCHANGED <<world, table, known, up, crashes>>

\* The merkle root recorded with a new commit: the tip, and its own name without one.
MerkleRoot(t) == IF poll.root = {} THEN t ELSE CHOOSE tip \in poll.root : TRUE

\* Seeded: a confirmed commit that is known is not looked at again.
FaultyUpgradable(e) == FALSE

\* A known commit is confirmed in the table only if its row is still pending.
Upgradable(e) == e.txid \in DOMAIN table /\ table[e.txid].block = 0

\* A confirmed commit of the answer: recorded with the tip as its merkle root if it
\* is new, confirmed if its row was pending, else left alone.
PollConfirmed(t) ==
  /\ poll.list # <<>> /\ Head(poll.list).txid = t
  /\ LET e == Head(poll.list)
     IN \/ /\ e.txid \notin known
           /\ table' = UpsertConfirmed(e.txid, MerkleRoot(e.txid), e.block)
           /\ known' = known \cup {e.txid}
        \/ /\ e.txid \in known
           /\ table' = IF Upgradable(e) THEN UpsertConfirmed(e.txid, e.txid, e.block) ELSE table
           /\ UNCHANGED known
  /\ poll' = [poll EXCEPT !.list = Tail(@)]
  /\ UNCHANGED <<world, up, crashes>>

\* The latest unconfirmed commit of the answer.
PollPending(t) ==
  /\ poll.list = <<>> /\ t \in poll.recent
  /\ IF t \in known
     THEN UNCHANGED <<table, known>>
     ELSE table' = UpsertPending(t, MerkleRoot(t)) /\ known' = known \cup {t}
  /\ poll' = [poll EXCEPT !.recent = @ \ {t}]
  /\ UNCHANGED <<world, up, crashes>>

\* Seeded: the set is told first.
FaultyTableFails ==
  /\ "table" \in Outages
  /\ poll.list # <<>> \/ ~ poll.recent \subseteq known
  /\ known' = known \cup poll.recent \cup {poll.list[i].txid : i \in DOMAIN poll.list \cap {1}}
  /\ poll' = Idle
  /\ UNCHANGED <<world, table, up, crashes>>

\* A query fails: the error ends the tick, with the calendars not asked yet.
TableFails ==
  /\ "table" \in Outages
  /\ poll.list # <<>> \/ ~ poll.recent \subseteq known
  /\ poll' = Idle
  /\ UNCHANGED <<world, table, known, up, crashes>>

World == \E cal \in Calendar : Send(cal) \/ \E i \in DOMAIN Chain[cal] : Confirm(cal, i)

Backend ==
  \/ Boot \/ Crash \/ Tick
  \/ \E cal \in Calendar : Fetch(cal) \/ Unreachable(cal)
  \/ \E t \in Commit : PollConfirmed(t) \/ PollPending(t)
  \/ TableFails

Next == World \/ Backend

\* The timer fires and the awaits of a tick return; a calendar that is asked again
\* and again answers some time, and a row written again and again is written some time.
Fairness ==
  /\ WF_vars(Boot) /\ WF_vars(Tick)
  /\ \A cal \in Calendar : SF_vars(Fetch(cal))
  /\ \A t \in Commit : SF_vars(PollConfirmed(t))
  /\ SF_vars(\E t \in Commit : PollPending(t))

Spec == Init /\ [][Next]_vars
FairSpec == Spec /\ Fairness
=============================================================================
