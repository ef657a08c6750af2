----------------------------- MODULE MCRbfCache -----------------------------
(* Model-checking instances of RbfCacheProps.                              *)
EXTENDS RbfCacheProps, TLC

Symmetric == Permutations(Tx \ Final) \cup Permutations(Final)

\* Restarts, with a client that never polls for changes.
QuietNext ==
  \/ \E replaced \in SUBSET Tx, new \in Tx :
       new \notin replaced /\ Serving(Add(replaced, new))
  \/ \E txid \in Tx : Serving(Evict(txid))
  \/ \E txid \in Tx : Serving(Mined(txid))
  \/ Clock
  \/ Restarting
RestartSpec == Init /\ [][QuietNext]_vars
=============================================================================
