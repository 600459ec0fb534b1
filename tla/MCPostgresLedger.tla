-------------------------- MODULE MCPostgresLedger --------------------------
(* Two bots on a pool of two connections, for TLC.  A bankroll holds one    *)
(* stake and not a second one.                                              *)
EXTENDS PostgresLedger

OneStake == {[cost |-> 30, gain |-> 2]}
=============================================================================
