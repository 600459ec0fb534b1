---------------------------- MODULE LedgerBooks ----------------------------
(***************************************************************************)
(* What the ledger's documents say about its money, and what they leave    *)
(* to the reader: the books that a reader of the trades table would draw   *)
(* up, compared with the bankroll the tasks wrote.                         *)
(***************************************************************************)
EXTENDS Ledger, FiniteSetsExt

Quiet == InFlight = {} /\ resolver = Asleep

(* What trade row r has done to the bankroll of bot b once the dust has    *)
(* settled.  An open or a voided trade has cost its stake.                 *)
Effect(r, b) ==
  CASE r.bot # b       -> 0
    [] r.out = "WIN"   -> r.gain
    [] OTHER           -> -r.cost

Books(s, b) ==
  Initial + MapThenSumSet(LAMBDA t : Effect(s.trades[t], b), TradeIds)

(* When no task is inside a database operation, a bankroll is the initial  *)
(* one plus what its trades gained and minus what they cost (Gas = 0).     *)
(* README: "CRUD, atomicity, rolling stats".                               *)
BooksBalance ==
  Quiet /\ live = disk => \A b \in Bots : live.bal[b] = Books(live, b)
=============================================================================
