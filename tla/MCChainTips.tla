----------------------------- MODULE MCChainTips -----------------------------
(* Model-checking instances of ChainTips.                                   *)
EXTENDS ChainTips

CONSTANTS r, a1, a2, b1, b2, b3

\* Two branches from the root.
Tree == (r :> None) @@ (a1 :> r) @@ (a2 :> a1) @@ (b1 :> r) @@ (b2 :> b1) @@ (b3 :> b2)
Levels == (r :> 10) @@ (a1 :> 11) @@ (a2 :> 12) @@ (b1 :> 11) @@ (b2 :> 12) @@ (b3 :> 13)
Forked == [b \in Block |-> Tree[b]]
Heights == [b \in Block |-> Levels[b]]
Empty == [b \in Block |-> {}]
=============================================================================
