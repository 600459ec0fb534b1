----------------------------- MODULE MCBacktest -----------------------------
(* A bankroll that two losses nearly empty, for TLC: bars that are skipped, *)
(* that win, and that lose because the price stood still.                   *)
EXTENDS Backtest

Signals == {"BUY_YES", "BUY_NO"}
Moves == {Skip, [signal |-> "BUY_YES", move |-> "up"], [signal |-> "BUY_NO", move |-> "same"]}
=============================================================================
