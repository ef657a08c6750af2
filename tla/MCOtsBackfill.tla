---------------------------- MODULE MCOtsBackfill ----------------------------
(* Model-checking instances of OtsBackfill.                                 *)
EXTENDS OtsBackfill

CONSTANTS alice, a1, a2, a3

OneChain == alice :> <<a1, a2, a3>>
=============================================================================
