----------------------------- MODULE MCRbfRedis -----------------------------
(* Model-checking instances of RbfRedisProps: what a behaviour has is chosen  *)
(* in its first state.                                                      *)
EXTENDS RbfRedisProps

VARIABLE plan

Replacement ==
  \E replaced \in SUBSET Tx, new \in Tx :
    new \notin replaced /\ Call(Add(replaced, new), AddEvents(replaced, new))

Replacing == Replacement \/ Checking \/ Update \/ Client

\* All operations and the clock, with a crash; replacements with any two of crashes, lost
\* commands, failed reads and an outage, while nothing expires; or replacements with one
\* outage, which may also come between two reads of load().
MCInit == RInit /\ plan \in {"crash", "faults", "outage"}
MCNext ==
  /\ UNCHANGED plan
  /\ \/ /\ plan = "crash" /\ (Operation \/ ReloadAfter({}) \/ Checking \/ Timer \/ Time \/ Update)
        /\ OnlyCrashes' /\ failures'.crash <= 1
     \/ /\ plan = "faults" /\ (Replacing \/ Reload)
        /\ failures'.down > failures.down /\ memory' # memory => txs' = {}
        /\ failures'.down <= 1
     \/ /\ plan = "outage" /\ (Replacing \/ Reload)
        /\ \A kind \in Kinds : failures'[kind] <= IF kind = "down" THEN 1 ELSE 0

MCSpec == MCInit /\ [][MCNext]_<<rvars, plan>>
=============================================================================
