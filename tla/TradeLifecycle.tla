--------------------------- MODULE TradeLifecycle ---------------------------
(***************************************************************************)
(* What the ledger promises about a paper trade, seen from the outside:    *)
(* a trade row appears, stays open while its market is unsettled, and is   *)
(* decided exactly once.  It is WIN or LOSS when the resolver settles it   *)
(* and VOID when the dead-letter queue takes it over.  Several trades may  *)
(* advance in one step, because one commit of the shared SQLite            *)
(* connection publishes whatever every task has written so far.            *)
(***************************************************************************)
EXTENDS Integers

CONSTANT TradeIds

VARIABLE status

Outcomes == {"WIN", "LOSS", "VOID"}
Statuses == {"none", "open"} \cup Outcomes

(* The order in which a row may move: never backwards, never between two   *)
(* outcomes.  A row can be seen for the first time already decided.        *)
MayBecome(old, new) ==
  \/ new = old
  \/ old = "none"
  \/ old = "open" /\ new \in Outcomes

Init == status = [t \in TradeIds |-> "none"]

Advance ==
  /\ status' \in [TradeIds -> Statuses]
  /\ \A t \in TradeIds : MayBecome(status[t], status'[t])

Spec == Init /\ [][Advance]_status
=============================================================================
