------------------------------ MODULE MCSignals ------------------------------
(* A bot of each strategy for TLC: Bollinger on BTC, the others on ETH.     *)
EXTENDS Signals

Bots == {"MOMENTUM", "BOLLINGER", "TURBO_CVD", "TURBO_VWAP"}
Strategies == [b \in Bots |-> b]
Assets == [b \in Bots |-> IF b = "BOLLINGER" THEN "BTC" ELSE "ETH"]
Snapshot(p, c, v) == [price |-> p, cvd |-> c, vwap |-> v]
Snapshots == [a \in {"BTC", "ETH"} |-> {Snapshot(0, 0, 0)} \cup
    IF a = "BTC" THEN {Snapshot(1000, 0, 0), Snapshot(985, 0, 0)}
                 ELSE {Snapshot(1000, 0, 0), Snapshot(985, 2, -2)}]
Durations == [f \in {"rsi", "1m", "5m"} |-> IF f = "5m" THEN 2 ELSE 1]
=============================================================================
