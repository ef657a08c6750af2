----------------------------- MODULE MCChainSync -----------------------------
(* Model-checking instances of ChainSync.                                   *)
EXTENDS ChainSync

CONSTANTS r, a1, a2, b1, b2, b3, b4, x, y, z

\* Two branches from the root: four blocks replace two.
Fork ==
  (r :> None) @@ (a1 :> r) @@ (a2 :> a1) @@ (b1 :> r) @@ (b2 :> b1) @@ (b3 :> b2) @@ (b4 :> b3)
Heights ==
  (r :> 10) @@ (a1 :> 11) @@ (a2 :> 12) @@ (b1 :> 11) @@ (b2 :> 12) @@ (b3 :> 13) @@ (b4 :> 14)
\* Both branches confirm x, at different heights.
Contents == [b \in Block |-> IF b \in {a1, b2} THEN {x} ELSE {}]

\* What a behaviour is about: the whole tree with little in the mempool of the node, or
\* any mempool and its changes with branches of two.
VARIABLE plan

PlannedInit ==
  /\ Init
  /\ \/ plan = "tree" /\ nodePool \subseteq {x}
     \/ plan = "pool"

Planned ==
  /\ UNCHANGED plan
  /\ plan = "tree" => arrivals' = arrivals
  /\ plan = "pool" => mined' \cap {b3, b4} = {}

PlannedSpec ==
  /\ PlannedInit /\ [][Next /\ Planned]_<<vars, plan>>
  /\ WF_vars(MainLoop) /\ WF_vars(ProtectionEnds)
=============================================================================
