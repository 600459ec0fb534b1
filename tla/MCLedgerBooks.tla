--------------------------- MODULE MCLedgerBooks ---------------------------
(***************************************************************************)
(* The ledger of MCLedger with its books, for the runs that look for a     *)
(* disagreement between the two.                                           *)
(***************************************************************************)
EXTENDS LedgerBooks

SmallStakes == {[cost |-> 3, gain |-> 2]}
=============================================================================
