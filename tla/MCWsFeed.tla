------------------------------ MODULE MCWsFeed ------------------------------
(* WsFeed for TLC: two transactions in two projected blocks to begin with.   *)
(* Either the projected blocks change and a user looks at them, with one     *)
(* block and one fault or callbacks that await, or only blocks arrive, with  *)
(* every kind of fault.                                                      *)
EXTENDS WsFeed

CONSTANTS x, y

VARIABLE plan

MCTx == {x, y}

First == 0 :> {x} @@ 1 :> {y}
MCInit == Init /\ template = First /\ plan \in {"feed", "late", "blocks"}
MCNext ==
  /\ UNCHANGED plan
  /\ Next
  /\ plan # "late" => late' = {}
  /\ IF plan = "blocks"
     THEN template' = First /\ clicks' = 0
     ELSE /\ changes' <= 2 /\ Len(chain') <= 2
          /\ Cardinality(faults') <= IF plan = "late" THEN 0 ELSE 1
          /\ faults' \cap {"reorg", "restart"} = {}

MCSpec == MCInit /\ [][MCNext]_<<vars, plan>> /\ Fairness
=============================================================================
