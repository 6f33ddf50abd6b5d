------------------------- MODULE MCResilientAdapter -------------------------
(***************************************************************************)
(* Two callers of one provider, of which one or both are _drain.           *)
(***************************************************************************)
EXTENDS ResilientAdapter, TLC

CONSTANTS c1, c2

TwoCallers == {c1, c2}
OneDrainer == {c1}
=============================================================================
