------------------------------ MODULE MCLedger ------------------------------
(***************************************************************************)
(* Small instances of the ledger for TLC.  Money is in dollars: a bankroll *)
(* of 40, bets of 3 (at most 10%), a fee rounded up to 1.  The stake of 40 *)
(* never passes the sizer; it is there to see that it does not.            *)
(***************************************************************************)
EXTENDS Ledger

SmallStakes == {[cost |-> 3, gain |-> 2], [cost |-> 40, gain |-> 1]}
=============================================================================
