-------------------------- MODULE MCOrdpoolIndexer --------------------------
(* Model-checking instances of OrdpoolIndexer.                              *)
EXTENDS OrdpoolIndexer, TLC

CONSTANTS good, bad, stale

\* A block the parser fails on, one at the same height that was reorganised out of the
\* chain, and one above them.
Heights == (bad :> 1) @@ (stale :> 1) @@ (good :> 2)
=============================================================================
