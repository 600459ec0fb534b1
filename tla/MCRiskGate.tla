----------------------------- MODULE MCRiskGate -----------------------------
(***************************************************************************)
(* Small instances of the risk gate for TLC.  The two directions play the  *)
(* same part, and so do the bots.                                          *)
(***************************************************************************)
EXTENDS RiskGate, TLC

Alike == {f @@ g : f \in Permutations(Bots), g \in Permutations(Directions)}
=============================================================================
