----------------------------- MODULE OtsBackfill -----------------------------
(***************************************************************************)
(* The backfill script (backend/src/api/ordpool-ots-backfill.ts, run by    *)
(* backend/scripts/ots-backfill.ts) next to the backend of OtsPoller: a    *)
(* process of its own, with its own copy of the txid set, that walks each  *)
(* calendar's chain of commits backward and writes to the same table.      *)
(*                                                                         *)
(* External: electrs, which serves the transaction and its block.          *)
(***************************************************************************)
EXTENDS OtsPollerProps

CONSTANTS
  MaxRuns,   \* bound: starts of the script
  MaxDepth   \* maxDepth: transactions a walk looks at

ASSUME BackfillAssumption == MaxRuns \in Nat /\ MaxDepth \in Nat \ {0}

VARIABLES
  script,  \* the running script
  ended,   \* calendar -> [seed, reason] of the last walk: where it began, why it stopped
  runs     \* starts so far

bvars == <<vars, script, ended, runs>>
backend == <<world, known, up, crashes, poll>>

\* set: the script's txids; fresh: the calendars without a row when it started;
\* cal, at: the walk is at Chain[cal][at]; seen: electrs' answer; walked: txsWalked.
Script == [on : BOOLEAN, set : SUBSET Commit, fresh : SUBSET Calendar, left : SUBSET Calendar,
           cal : SUBSET Calendar, at : Nat, seen : SUBSET Blocks, walked : 0..MaxDepth]

Off == [on |-> FALSE, set |-> {}, fresh |-> {}, left |-> {}, cal |-> {}, at |-> 0,
        seen |-> {}, walked |-> 0]

Reason == {"none", "already-seen", "fetch-error", "shape-mismatch", "limit"}

BTypeOK ==
  /\ script \in Script
  /\ ended \in [Calendar -> [seed : Nat, reason : Reason]]
  /\ runs \in 0..MaxRuns

BInit ==
  /\ Init
  /\ script = Off
  /\ ended = [cal \in Calendar |-> [seed |-> 0, reason |-> "none"]]
  /\ runs = 0

\* The script bootstraps its set; without the table it fails.
Start ==
  /\ ~ script.on /\ runs < MaxRuns
  /\ runs' = runs + 1
  /\ script' = [Off EXCEPT !.on = TRUE, !.set = DOMAIN table, !.left = Calendar,
                           !.fresh = {cal \in Calendar : ToSet(Chain[cal]) \cap DOMAIN table = {}}]
  /\ ended' = [cal \in Calendar |-> [seed |-> 0, reason |-> "none"]]
  /\ UNCHANGED <<backend, table>>

\* Interrupted, ended by an error nobody catches, or through with every calendar.
Stop ==
  /\ script.on
  /\ script' = Off
  /\ UNCHANGED <<backend, table, ended, runs>>

\* getSeedTxid(): the oldest commit the calendar lists; a calendar that lists none or
\* answers with an error is skipped.
Seed(cal) ==
  /\ script.on /\ script.cal = {} /\ cal \in script.left
  /\ LET list == Listed(cal)
     IN \/ /\ list # <<>>
           /\ \E at \in DOMAIN Chain[cal] :
                /\ Chain[cal][at] = Last(list)
                /\ script' = [script EXCEPT !.left = @ \ {cal}, !.cal = {cal}, !.at = at, !.walked = 0]
                /\ ended' = [ended EXCEPT ![cal].seed = at]
        \/ /\ list = <<>> \/ "calendar" \in Outages
           /\ script' = [script EXCEPT !.left = @ \ {cal}]
           /\ ended' = [ended EXCEPT ![cal].reason = "fetch-error"]
  /\ UNCHANGED <<backend, table, runs>>

\* The walk is about to look at the transaction script.at of the calendar's chain; 0 is
\* the transaction that funded it.
At(cal) == script.on /\ cal \in script.cal /\ script.seen = {}

EndWalk(cal, reason) ==
  /\ script' = [script EXCEPT !.cal = {}]
  /\ ended' = [ended EXCEPT ![cal].reason = reason]
  /\ UNCHANGED <<backend, table, runs>>

\* Seeded: the table is asked instead of the set.
FaultySeen(cal) == script.at > 0 /\ Chain[cal][script.at] \in DOMAIN table

\* The short circuit for what is in the set already.
Seen(cal) == script.at > 0 /\ Chain[cal][script.at] \in script.set

DepthReached(cal) == At(cal) /\ script.walked = MaxDepth /\ EndWalk(cal, "limit")
AlreadySeen(cal) == At(cal) /\ script.walked < MaxDepth /\ Seen(cal) /\ EndWalk(cal, "already-seen")

Walking(cal) == At(cal) /\ script.walked < MaxDepth /\ ~ Seen(cal)

\* fetchTx() fails.
FetchFails(cal) == "electrs" \in Outages /\ Walking(cal) /\ EndWalk(cal, "fetch-error")

\* The transaction does not look like a commit.
NoCommit(cal) ==
  /\ Walking(cal) /\ script.at = 0
  /\ script' = [script EXCEPT !.cal = {}, !.walked = @ + 1]
  /\ ended' = [ended EXCEPT ![cal].reason = "shape-mismatch"]
  /\ UNCHANGED <<backend, table, runs>>

\* fetchTx() answers with the block of the commit ...
Look(cal) ==
  /\ Walking(cal) /\ script.at > 0
  /\ script' = [script EXCEPT !.seen = {block[Chain[cal][script.at]]}, !.walked = @ + 1]
  /\ UNCHANGED <<backend, table, ended, runs>>

\* ... which is recorded with the root the transaction carries, and the walk goes back
\* to the transaction it spends.
Record(cal) ==
  /\ script.on /\ cal \in script.cal
  /\ \E b \in script.seen :
       LET c == Chain[cal][script.at]
       IN /\ table' = IF b = 0 THEN UpsertPending(c, c) ELSE UpsertConfirmed(c, c, b)
          /\ script' = [script EXCEPT !.set = @ \cup {c}, !.seen = {}, !.at = @ - 1]
  /\ UNCHANGED <<backend, ended, runs>>

Backfill ==
  \/ Start \/ Stop
  \/ \E cal \in Calendar :
       \/ Seed(cal) \/ DepthReached(cal) \/ AlreadySeen(cal) \/ FetchFails(cal)
       \/ NoCommit(cal) \/ Look(cal) \/ Record(cal)

BNext == (Next /\ UNCHANGED <<script, ended, runs>>) \/ Backfill
BSpec == BInit /\ [][BNext]_bvars

-----------------------------------------------------------------------------
\* The commits from the seed of the last walk back to the first are in the table.
Filled(cal) == \A i \in 1..ended[cal].seed : Chain[cal][i] \in DOMAIN table

\* "This module fills in the historical past once" (lines 25-26): a walk of a calendar
\* the table had no row of, that met no error and no limit, has recorded everything from
\* its seed back, whatever the poller records meanwhile.
FirstWalkFills ==
  \A cal \in script.fresh :
    ended[cal].reason \in {"already-seen", "shape-mismatch"} => Filled(cal)
=============================================================================
