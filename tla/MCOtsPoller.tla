----------------------------- MODULE MCOtsPoller -----------------------------
(* Model-checking instances of OtsPollerProps.                              *)
EXTENDS OtsPollerProps

CONSTANTS alice, bob, a1, a2, a3, b1

\* Two calendars that send four commits between them.
TwoChains == (alice :> <<a1, a2, a3>>) @@ (bob :> <<b1>>)
=============================================================================
