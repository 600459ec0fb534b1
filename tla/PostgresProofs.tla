--------------------------- MODULE PostgresProofs ---------------------------
(* The money and the trades on Postgres, for any bots, stakes, pool, number *)
(* of trades, faults and crashes.  Locks and connections play no part: the  *)
(* argument rests on what is committed together and on who writes a row.    *)
EXTENDS PostgresLedger, FiniteSetTheorems, TLAPS

(* A call that has not drawn its id yet.                                    *)
Early == {"begin", "select", "debit", "insert"}
Waiting == {b \in Bots : bot[b].pc \in Early}
Paying == {"mark", "read", "credit", "commit"}

Steps == {"idle", "begin", "select", "debit", "insert", "commit", "fee", "feeExec"}
Locals == [pc : Steps,
           seen : Int, cost : Nat, gain : Nat, id : Nat]
Cycle == [pc : {"sleep", "next"} \cup Paying, queue : SUBSET TradeIds, t : Nat,
          outcome : Settled, seen : Int, seenPeak : Int]

PgTyped == db \in Store /\ bot \in [Bots -> Locals] /\ resolver \in Cycle /\ serial \in Nat

(* The sequence has an id left for every call that will draw one.           *)
SerialInv == serial + Cardinality(Waiting) <= MaxTrades

(* A row names its bot from the moment it exists, and exists only below the *)
(* sequence.                                                                *)
RowInv ==
    \A t \in TradeIds :
        /\ db.trades[t].out = "none" <=> db.trades[t].bot = NoBot
        /\ t > serial => db.trades[t].bot = NoBot

(* An id drawn by a transaction under way is its own and has no row yet.    *)
Drawing(b) == bot[b].pc = "commit"
DrawnInv ==
    /\ \A b \in Bots : Drawing(b) =>
         bot[b].id \in 1..MaxTrades /\ bot[b].id <= serial /\ db.trades[bot[b].id].bot = NoBot
    /\ \A b, c \in Bots : Drawing(b) /\ Drawing(c) /\ bot[b].id = bot[c].id => b = c

(* The resolver, the only writer of an outcome, holds open trades: the ones *)
(* it has yet to visit and another one whose payment is under way.          *)
QueueInv ==
    /\ \A t \in resolver.queue : db.trades[t].out = "open"
    /\ resolver.pc \in Paying =>
         resolver.t \in TradeIds \ resolver.queue /\ db.trades[resolver.t].out = "open"

Inv == SerialInv /\ RowInv /\ DrawnInv /\ QueueInv /\ MoneyFollowsTrades
PgInv == PgTyped /\ Inv

TradesOf(b) == {t \in TradeIds : db.trades[t].bot = b}

-----------------------------------------------------------------------------
LEMMA Constants ==
    IsFiniteSet(Bots) /\ NoBot \notin Bots /\ MaxTrades \in Nat /\ Initial \in Nat /\ Gas \in Nat
BY PostgresAssumption DEF PostgresAssumption

LEMMA WaitingFinite == IsFiniteSet(Waiting) /\ Cardinality(Waiting) \in Nat
<1>1. Waiting \subseteq Bots
  BY DEF Waiting
<1>2. IsFiniteSet(Waiting)
  BY <1>1, Constants, FS_Subset
<1> QED BY <1>2, FS_CardinalityType

LEMMA FewerWait ==
    ASSUME Waiting' \subseteq Waiting
    PROVE  Cardinality(Waiting') <= Cardinality(Waiting) /\ Cardinality(Waiting') \in Nat
<1>1. IsFiniteSet(Waiting') /\ Cardinality(Waiting') <= Cardinality(Waiting)
  BY WaitingFinite, FS_Subset
<1> QED BY <1>1, FS_CardinalityType

LEMMA TradesFinite == IsFiniteSet(TradeIds)
BY Constants, FS_Interval DEF TradeIds

LEMMA InitInv == Init => PgInv
<1> SUFFICES ASSUME Init PROVE PgInv
  OBVIOUS
<1>1. NoRow \in Row
  BY DEF NoRow, Row
<1>2. db \in Store
  BY <1>1, Constants DEF Init, Store
<1>3. bot \in [Bots -> Locals]
  BY DEF Init, Idle, Locals, Steps
<1>4. resolver \in Cycle
  BY DEF Init, Asleep, Cycle, Settled
<1>5. PgTyped
  BY <1>2, <1>3, <1>4 DEF PgTyped, Init
<1>6. SerialInv
  <2>1. Waiting = {}
    BY DEF Waiting, Init, Idle, Early
  <2> QED BY <2>1, FS_EmptySet, Constants DEF SerialInv, Init
<1>7. RowInv /\ QueueInv
  BY DEF RowInv, QueueInv, Init, NoRow, Asleep, Paying
<1>8. DrawnInv
  BY DEF DrawnInv, Drawing, Init, Idle
<1>9. MoneyFollowsTrades
  <2>1. ASSUME NEW b \in Bots PROVE {t \in TradeIds : db.trades[t].bot = b} = {}
    BY Constants DEF Init, NoRow
  <2>2. \A b \in Bots : db.debits[b] = 0
    BY DEF Init
  <2>3. \A t \in TradeIds : db.paid[t] = 0 /\ db.trades[t].out \notin Settled
    BY DEF Init, NoRow, Settled
  <2> QED BY <2>1, <2>2, <2>3, FS_EmptySet DEF MoneyFollowsTrades
<1> QED BY <1>5, <1>6, <1>7, <1>8, <1>9 DEF PgInv, Inv

-----------------------------------------------------------------------------
(* Steps that write no trade.                                               *)

SameTrades == db'.trades = db.trades /\ db'.paid = db.paid /\ db'.debits = db.debits

(* A bot moves on without drawing an id.                                    *)
LEMMA BotMovesKeep ==
    ASSUME PgInv, NEW b \in Bots, NEW to \in Locals, bot' = [bot EXCEPT ![b] = to],
           db' \in Store, SameTrades, UNCHANGED <<serial, resolver>>,
           to.pc # "commit", to.pc \in Early => bot[b].pc \in Early
    PROVE  PgInv'
<1>1. bot \in [Bots -> Locals]
  BY DEF PgInv, PgTyped
<1>2. PgTyped'
  BY <1>1 DEF PgInv, PgTyped
<1>3. SerialInv'
  <2>1. Waiting' \subseteq Waiting
    BY <1>1 DEF Waiting
  <2> QED BY <2>1, FewerWait, WaitingFinite, Constants DEF PgInv, PgTyped, Inv, SerialInv
<1>4. RowInv' /\ QueueInv' /\ MoneyFollowsTrades'
  BY DEF PgInv, Inv, RowInv, QueueInv, MoneyFollowsTrades, SameTrades
<1>5. DrawnInv'
  <2>1. ~Drawing(b)' /\ \A c \in Bots : c # b => bot'[c] = bot[c]
    BY <1>1 DEF Drawing
  <2> QED BY <2>1 DEF PgInv, Inv, DrawnInv, Drawing, SameTrades
<1> QED BY <1>2, <1>3, <1>4, <1>5 DEF PgInv, Inv

LEMMA IdleTyped == Idle \in Locals /\ Idle.pc = "idle"
BY DEF Idle, Locals, Steps

LEMMA PlaceKeeps ==
    ASSUME PgInv, NEW b \in Bots, Place(b)
    PROVE  PgInv'
<1>1. bot \in [Bots -> Locals] /\ serial \in Nat
  BY DEF PgInv, PgTyped
<1>2. PICK k \in Stakes : bot' = [bot EXCEPT ![b] = [Idle EXCEPT !.pc = "begin", !.cost = k.cost,
                                                                    !.gain = k.gain]]
  BY DEF Place
<1>3. [Idle EXCEPT !.pc = "begin", !.cost = k.cost, !.gain = k.gain] \in Locals
  <2>1. k.cost \in Nat /\ k.gain \in Nat
    BY PostgresAssumption DEF PostgresAssumption
  <2>2. \A local \in Locals :
          [local EXCEPT !.pc = "begin", !.cost = k.cost, !.gain = k.gain] \in Locals
    BY <2>1 DEF Locals, Steps
  <2> QED BY <2>2, IdleTyped
<1>4. UNCHANGED <<db, serial, resolver>>
  BY DEF Place
<1>5. bot' \in [Bots -> Locals] /\ bot'[b].pc = "begin" /\ \A c \in Bots : c # b => bot'[c] = bot[c]
  BY <1>1, <1>2, <1>3 DEF Idle
<1>6. PgTyped'
  BY <1>4, <1>5 DEF PgInv, PgTyped
<1>7. SerialInv'
  <2> DEFINE Busy == {c \in Bots : bot[c].pc # "idle"}
  <2>1. IsFiniteSet(Busy) /\ Cardinality(Busy) \in Nat
    BY Constants, FS_Subset, FS_CardinalityType
  <2>2. Waiting' \subseteq Busy \cup {b}
    BY <1>5 DEF Waiting, Early
  <2>5. serial + Cardinality(Busy) < MaxTrades
    BY DEF Place
  <2> HIDE DEF Busy
  <2>3. IsFiniteSet(Busy \cup {b}) /\ Cardinality(Busy \cup {b}) <= Cardinality(Busy) + 1
    <3>1. /\ IsFiniteSet(Busy \cup {b})
          /\ Cardinality(Busy \cup {b})
             = IF b \in Busy THEN Cardinality(Busy) ELSE Cardinality(Busy) + 1
      BY <2>1, FS_AddElement
    <3> QED BY <2>1, <3>1
  <2>4. Cardinality(Waiting') <= Cardinality(Busy) + 1 /\ Cardinality(Waiting') \in Nat
    <3>1. IsFiniteSet(Waiting') /\ Cardinality(Waiting') <= Cardinality(Busy \cup {b})
      BY <2>2, <2>3, FS_Subset
    <3>2. Cardinality(Waiting') \in Nat /\ Cardinality(Busy \cup {b}) \in Nat
      BY <2>3, <3>1, FS_CardinalityType
    <3> QED BY <2>1, <2>3, <3>1, <3>2
  <2> QED BY <1>1, <1>4, <2>1, <2>4, <2>5, Constants DEF SerialInv
<1>8. RowInv' /\ QueueInv' /\ MoneyFollowsTrades'
  BY <1>4 DEF PgInv, Inv, RowInv, QueueInv, MoneyFollowsTrades
<1>9. DrawnInv'
  <2>1. ~Drawing(b)'
    BY <1>5 DEF Drawing
  <2> QED BY <1>4, <1>5, <2>1 DEF PgInv, Inv, DrawnInv, Drawing
<1> QED BY <1>6, <1>7, <1>8, <1>9 DEF PgInv, Inv

LEMMA PcTyped ==
    ASSUME NEW local \in Locals, NEW pc \in {"select", "insert", "feeExec"}
    PROVE  [local EXCEPT !.pc = pc] \in Locals /\ [local EXCEPT !.pc = pc].pc = pc
BY DEF Locals, Steps

LEMMA WaitsKeep ==
    ASSUME PgInv, NEW b \in Bots,
           Begin(b) \/ SelectBankroll(b) \/ Debit(b) \/ BeginFee(b) \/ BotFault(b)
    PROVE  PgInv'
<1>1. bot[b] \in Locals /\ db \in Store /\ UNCHANGED <<db, serial, resolver>>
  BY DEF PgInv, PgTyped, Begin, SelectBankroll, Debit, BeginFee, BotFault
<1>2. SameTrades
  BY <1>1 DEF SameTrades
<1>3. db.bal[b] \in Int
  BY <1>1 DEF Store
<1>4. PICK to :
        /\ bot' = [bot EXCEPT ![b] = to]
        /\ \/ to = Idle
           \/ to = [bot[b] EXCEPT !.pc = "select"] /\ bot[b].pc = "begin"
           \/ to = [bot[b] EXCEPT !.pc = "debit", !.seen = db.bal[b]] /\ bot[b].pc = "select"
           \/ to = [bot[b] EXCEPT !.pc = "insert"] /\ bot[b].pc = "debit"
           \/ to = [bot[b] EXCEPT !.pc = "feeExec"]
  BY DEF Begin, SelectBankroll, Debit, BeginFee, BotFault
<1>5. to \in Locals /\ to.pc # "commit" /\ (to.pc \in Early => bot[b].pc \in Early)
  <2>1. CASE to = Idle
    BY <2>1, IdleTyped DEF Early
  <2>2. CASE \E pc \in {"select", "insert", "feeExec"} : to = [bot[b] EXCEPT !.pc = pc]
    <3>1. PICK pc \in {"select", "insert", "feeExec"} : to = [bot[b] EXCEPT !.pc = pc]
      BY <2>2
    <3>2. to \in Locals /\ to.pc = pc
      BY <1>1, <3>1, PcTyped
    <3>3. pc = "feeExec" \/ bot[b].pc \in Early
      BY <1>1, <1>4, <3>2 DEF Locals, Early, Idle
    <3> QED BY <3>2, <3>3 DEF Early
  <2>3. CASE to = [bot[b] EXCEPT !.pc = "debit", !.seen = db.bal[b]] /\ bot[b].pc = "select"
    BY <1>1, <1>3, <2>3 DEF Locals, Steps, Early
  <2> QED BY <1>4, <2>1, <2>2, <2>3
<1>6. db' \in Store
  BY <1>1
<1> QED BY <1>1, <1>2, <1>4, <1>5, <1>6, BotMovesKeep

LEMMA DeductFeeKeeps ==
    ASSUME PgInv, NEW b \in Bots, DeductFee(b)
    PROVE  PgInv'
<1>1. db \in Store /\ db' = [db EXCEPT !.bal[b] = db.bal[b] - Gas]
  BY DEF PgInv, PgTyped, DeductFee
<1>2. db' \in Store
  BY <1>1, Constants DEF Store
<1>3. SameTrades
  BY <1>1 DEF SameTrades, Store
<1>4. bot' = [bot EXCEPT ![b] = Idle] /\ UNCHANGED <<serial, resolver>>
  BY DEF DeductFee
<1>5. Idle.pc \notin Early /\ Idle.pc # "commit"
  BY DEF Idle, Early
<1> QED BY <1>2, <1>3, <1>4, <1>5, IdleTyped, BotMovesKeep

-----------------------------------------------------------------------------
(* The id is drawn, then the row is committed.                              *)

LEMMA InsertTradeKeeps ==
    ASSUME PgInv, NEW b \in Bots, InsertTrade(b)
    PROVE  PgInv'
<1>1. /\ bot \in [Bots -> Locals] /\ serial \in Nat /\ db \in Store
      /\ UNCHANGED <<db, resolver>> /\ bot[b].pc = "insert"
  BY DEF PgInv, PgTyped, InsertTrade
<1>2. CASE ~column
  <2>1. bot' = [bot EXCEPT ![b] = Idle] /\ UNCHANGED serial
    BY <1>2 DEF InsertTrade
  <2>2. Idle.pc \notin Early /\ Idle.pc # "commit"
    BY DEF Idle, Early
  <2>3. SameTrades /\ db' \in Store
    BY <1>1 DEF SameTrades
  <2> QED BY <1>1, <2>1, <2>2, <2>3, IdleTyped, BotMovesKeep
<1>3. CASE column
  <2>1. serial' = serial + 1
        /\ bot' = [bot EXCEPT ![b] = [bot[b] EXCEPT !.pc = "commit", !.id = serial + 1]]
    BY <1>1, <1>3 DEF InsertTrade
  <2>2. /\ bot' \in [Bots -> Locals] /\ bot'[b].pc = "commit" /\ bot'[b].id = serial + 1
        /\ \A c \in Bots : c # b => bot'[c] = bot[c]
    <3>1. bot[b] \in Locals /\ serial + 1 \in Nat
      BY <1>1
    <3>2. /\ [bot[b] EXCEPT !.pc = "commit", !.id = serial + 1] \in Locals
          /\ [bot[b] EXCEPT !.pc = "commit", !.id = serial + 1].pc = "commit"
          /\ [bot[b] EXCEPT !.pc = "commit", !.id = serial + 1].id = serial + 1
      BY <3>1 DEF Locals, Steps
    <3> QED BY <1>1, <2>1, <3>2
  <2>3. PgTyped'
    BY <1>1, <2>1, <2>2 DEF PgInv, PgTyped
  <2>4. Waiting' = Waiting \ {b} /\ b \in Waiting
    BY <1>1, <2>2 DEF Waiting, Early
  <2>5. Cardinality(Waiting') = Cardinality(Waiting) - 1 /\ Cardinality(Waiting') \in Nat
    <3>1. IsFiniteSet(Waiting') /\ Cardinality(Waiting') = Cardinality(Waiting) - 1
      BY <2>4, WaitingFinite, FS_RemoveElement
    <3> QED BY <3>1, FS_CardinalityType
  <2>6. serial + Cardinality(Waiting) <= MaxTrades /\ Cardinality(Waiting) \in Nat
    BY WaitingFinite DEF PgInv, Inv, SerialInv
  <2>7. SerialInv'
    BY <1>1, <2>1, <2>5, <2>6, Constants DEF SerialInv
  <2>8. serial + 1 \in 1..MaxTrades
    BY <1>1, <2>5, <2>6, Constants
  <2>9. RowInv'
    BY <1>1, <2>1 DEF PgInv, Inv, RowInv, TradeIds
  <2>10. DrawnInv'
    <3>1. db.trades[serial + 1].bot = NoBot
      BY <1>1, <2>8 DEF PgInv, Inv, RowInv, TradeIds
    <3>2. \A c \in Bots : c # b /\ Drawing(c)' =>
            /\ bot'[c].id \in 1..MaxTrades /\ bot'[c].id <= serial
            /\ db.trades[bot'[c].id].bot = NoBot
      BY <2>2 DEF PgInv, Inv, DrawnInv, Drawing
    <3>3. \A c \in Bots : Drawing(c)' =>
            bot'[c].id \in 1..MaxTrades /\ bot'[c].id <= serial' /\ db'.trades[bot'[c].id].bot = NoBot
      <4> SUFFICES ASSUME NEW c \in Bots, Drawing(c)'
                   PROVE  /\ bot'[c].id \in 1..MaxTrades /\ bot'[c].id <= serial'
                          /\ db'.trades[bot'[c].id].bot = NoBot
        OBVIOUS
      <4>1. CASE c = b
        BY <1>1, <2>1, <2>2, <2>8, <3>1, <4>1
      <4>2. CASE c # b
        BY <1>1, <2>1, <3>2, <4>2
      <4> QED BY <4>1, <4>2
    <3>4. \A c, d \in Bots : Drawing(c)' /\ Drawing(d)' /\ bot'[c].id = bot'[d].id => c = d
      <4> SUFFICES ASSUME NEW c \in Bots, NEW d \in Bots, Drawing(c)', Drawing(d)',
                          bot'[c].id = bot'[d].id
                   PROVE  c = d
        OBVIOUS
      <4>1. c # b => bot'[c].id <= serial /\ bot'[c].id \in Nat
        BY <3>2
      <4>2. d # b => bot'[d].id <= serial /\ bot'[d].id \in Nat
        BY <3>2
      <4>3. c # b /\ d # b => c = d
        BY <2>2 DEF PgInv, Inv, DrawnInv, Drawing
      <4> QED BY <1>1, <2>2, <4>1, <4>2, <4>3
    <3> QED BY <3>3, <3>4 DEF DrawnInv
  <2>11. QueueInv' /\ MoneyFollowsTrades'
    BY <1>1 DEF PgInv, Inv, QueueInv, MoneyFollowsTrades
  <2> QED BY <2>3, <2>7, <2>9, <2>10, <2>11 DEF PgInv, Inv
<1> QED BY <1>2, <1>3

(* The row appears with its stake.                                          *)
LEMMA CommitTradeKeeps ==
    ASSUME PgInv, NEW b \in Bots, CommitTrade(b)
    PROVE  PgInv'
<1> DEFINE id == bot[b].id
           row == [out |-> "open", bot |-> b, cost |-> bot[b].cost, gain |-> bot[b].gain]
<1>1. /\ bot \in [Bots -> Locals] /\ bot[b] \in Locals /\ db \in Store /\ serial \in Nat
      /\ bot[b].pc = "commit" /\ UNCHANGED <<serial, resolver>>
  BY DEF PgInv, PgTyped, CommitTrade
<1>2. /\ bot[b].seen \in Int /\ bot[b].cost \in Nat /\ bot[b].gain \in Nat
  BY <1>1 DEF Locals
<1>3. id \in TradeIds /\ db.trades[id].bot = NoBot /\ db.trades[id].out = "none"
  BY <1>1 DEF PgInv, Inv, DrawnInv, Drawing, RowInv, TradeIds
<1>4. /\ db.bal \in [Bots -> Int] /\ db.trades \in [TradeIds -> Row]
      /\ db.paid \in [TradeIds -> Nat] /\ db.debits \in [Bots -> Nat] /\ db.peak \in [Bots -> Int]
  BY <1>1 DEF Store
<1>5. /\ db' = [db EXCEPT !.bal = [db.bal EXCEPT ![b] = bot[b].seen - bot[b].cost],
                          !.debits = [db.debits EXCEPT ![b] = db.debits[b] + 1],
                          !.trades = [db.trades EXCEPT ![id] = row]]
      /\ bot' = [bot EXCEPT ![b] = [Idle EXCEPT !.pc = "fee"]]
  BY <1>1 DEF CommitTrade
<1>6. row \in Row
  BY <1>2 DEF Row
<1> HIDE DEF id, row
<1>7. /\ db'.bal = [db.bal EXCEPT ![b] = bot[b].seen - bot[b].cost]
      /\ db'.debits = [db.debits EXCEPT ![b] = db.debits[b] + 1]
      /\ db'.trades = [db.trades EXCEPT ![id] = row] /\ db'.paid = db.paid /\ db'.peak = db.peak
  BY <1>1, <1>5 DEF Store
<1>8. db' \in Store
  <2>1. db'.bal \in [Bots -> Int] /\ db'.debits \in [Bots -> Nat] /\ db'.trades \in [TradeIds -> Row]
    <3>1. db'.bal \in [Bots -> Int]
      BY <1>2, <1>4, <1>7
    <3>2. db'.debits \in [Bots -> Nat]
      BY <1>4, <1>7
    <3>3. db'.trades \in [TradeIds -> Row]
      BY <1>4, <1>6, <1>7
    <3> QED BY <3>1, <3>2, <3>3
  <2>2. db' = [bal |-> db'.bal, peak |-> db'.peak, trades |-> db'.trades,
               paid |-> db'.paid, debits |-> db'.debits]
    BY <1>1, <1>5 DEF Store
  <2> QED BY <1>4, <1>7, <2>1, <2>2 DEF Store
<1>9. /\ bot' \in [Bots -> Locals] /\ bot'[b].pc = "fee" /\ \A c \in Bots : c # b => bot'[c] = bot[c]
  <2>1. \A local \in Locals : [local EXCEPT !.pc = "fee"] \in Locals
                              /\ [local EXCEPT !.pc = "fee"].pc = "fee"
    BY DEF Locals, Steps
  <2> QED BY <1>1, <1>5, <2>1, IdleTyped
<1>10. PgTyped'
  BY <1>1, <1>8, <1>9 DEF PgInv, PgTyped
<1>11. SerialInv'
  <2>1. Waiting' \subseteq Waiting
    BY <1>9 DEF Waiting, Early
  <2> QED BY <1>1, <2>1, FewerWait, WaitingFinite, Constants DEF PgInv, Inv, SerialInv
<1>12. /\ row.out = "open" /\ row.bot = b /\ b # NoBot
       /\ db'.trades[id] = row /\ \A t \in TradeIds : t # id => db'.trades[t] = db.trades[t]
  BY <1>3, <1>4, <1>7, Constants DEF row
<1>13. RowInv'
  <2>1. id <= serial
    BY <1>1 DEF PgInv, Inv, DrawnInv, Drawing, id
  <2>2. id \in Nat
    BY <1>3 DEF TradeIds
  <2> QED BY <1>1, <1>12, <2>1, <2>2 DEF PgInv, Inv, RowInv, TradeIds
<1>14. DrawnInv'
  <2>1. \A c \in Bots : Drawing(c)' => Drawing(c) /\ bot'[c] = bot[c] /\ bot[c].id # id
    BY <1>1, <1>9 DEF PgInv, Inv, DrawnInv, Drawing, id
  <2> QED BY <1>1, <1>12, <2>1 DEF PgInv, Inv, DrawnInv, TradeIds
<1>15. QueueInv'
  BY <1>1, <1>12 DEF PgInv, Inv, QueueInv, PgTyped, Cycle
<1>16. MoneyFollowsTrades'
  <2>1. \A t \in TradeIds : db'.paid[t] = IF db'.trades[t].out \in Settled THEN 1 ELSE 0
    BY <1>3, <1>7, <1>12 DEF PgInv, Inv, MoneyFollowsTrades, Settled
  <2>2. ASSUME NEW c \in Bots
        PROVE  db'.debits[c] = Cardinality({t \in TradeIds : db'.trades[t].bot = c})
    <3>1. db.debits[c] = Cardinality(TradesOf(c))
      BY DEF PgInv, Inv, MoneyFollowsTrades, TradesOf
    <3>2. CASE c # b
      <4>1. TradesOf(c)' = TradesOf(c)
        BY <1>3, <1>12, <3>2, Constants DEF TradesOf
      <4>2. db'.debits[c] = db.debits[c]
        BY <1>4, <1>7, <3>2
      <4> QED BY <3>1, <4>1, <4>2 DEF TradesOf
    <3>3. CASE c = b
      <4>1. TradesOf(b)' = TradesOf(b) \cup {id} /\ id \notin TradesOf(b)
        BY <1>3, <1>12, Constants DEF TradesOf
      <4>2. IsFiniteSet(TradesOf(b))
        BY TradesFinite, FS_Subset DEF TradesOf
      <4>3. Cardinality(TradesOf(b)') = Cardinality(TradesOf(b)) + 1
        BY <4>1, <4>2, FS_AddElement
      <4>4. db'.debits[b] = db.debits[b] + 1
        BY <1>4, <1>7
      <4> QED BY <3>1, <3>3, <4>3, <4>4 DEF TradesOf
    <3> QED BY <3>2, <3>3
  <2> QED BY <2>1, <2>2 DEF MoneyFollowsTrades
<1> QED BY <1>10, <1>11, <1>13, <1>14, <1>15, <1>16 DEF PgInv, Inv

-----------------------------------------------------------------------------
(* The resolver.                                                            *)

LEMMA ResolverMovesKeep ==
    ASSUME PgInv, NEW to \in Cycle, resolver' = to, UNCHANGED <<db, serial, bot>>,
           \A t \in to.queue : db.trades[t].out = "open",
           to.pc \in Paying => to.t \in TradeIds \ to.queue /\ db.trades[to.t].out = "open"
    PROVE  PgInv'
<1>1. PgTyped'
  BY DEF PgInv, PgTyped
<1>2. SerialInv' /\ RowInv' /\ DrawnInv' /\ MoneyFollowsTrades'
  BY DEF PgInv, Inv, SerialInv, Waiting, RowInv, DrawnInv, Drawing, MoneyFollowsTrades
<1>3. QueueInv'
  BY DEF QueueInv
<1> QED BY <1>1, <1>2, <1>3 DEF PgInv, Inv

LEMMA AsleepTyped == Asleep \in Cycle /\ Asleep.queue = {} /\ Asleep.pc \notin Paying
BY DEF Asleep, Cycle, Paying, Settled

LEMMA ReadingKeeps ==
    ASSUME PgInv,
           \/ Wake \/ DlqFails \/ ResolverFault \/ MarkOutcome \/ ReadBankroll \/ Credit
           \/ \E t \in TradeIds : Visit(t)
    PROVE  PgInv'
<1>1. resolver \in Cycle /\ db \in Store
  BY DEF PgInv, PgTyped
<1>2. UNCHANGED <<db, serial, bot>>
  BY DEF Wake, DlqFails, ResolverFault, MarkOutcome, ReadBankroll, Credit, Visit, Unsettled, Settle
<1>3. \A t \in resolver.queue : t \in TradeIds /\ db.trades[t].out = "open"
  BY <1>1 DEF PgInv, Inv, QueueInv, Cycle
<1>4. CASE DlqFails \/ ResolverFault
  <2>1. resolver' = Asleep
    BY <1>4 DEF DlqFails, ResolverFault
  <2> QED BY <1>2, <2>1, AsleepTyped, ResolverMovesKeep
<1>5. CASE Wake
  <2> DEFINE to == [resolver EXCEPT !.pc = "next", !.queue = Open]
  <2>1. to \in Cycle /\ to.pc = "next" /\ to.queue = Open
    BY <1>1 DEF Cycle, Open
  <2>2. resolver' = to
    BY <1>5 DEF Wake
  <2> HIDE DEF to
  <2> QED BY <1>2, <2>1, <2>2, ResolverMovesKeep DEF Open, Paying
<1>6. ASSUME NEW t \in TradeIds, Unsettled(t) PROVE PgInv'
  <2> DEFINE to == [resolver EXCEPT !.queue = resolver.queue \ {t}]
  <2>1. to \in Cycle /\ to.pc = "next" /\ to.queue = resolver.queue \ {t}
    BY <1>1, <1>6 DEF Unsettled, Cycle
  <2>2. resolver' = to
    BY <1>6 DEF Unsettled
  <2> HIDE DEF to
  <2> QED BY <1>2, <1>3, <2>1, <2>2, ResolverMovesKeep DEF Paying
<1>7. ASSUME NEW t \in TradeIds, NEW outcome \in Settled, Settle(t, outcome) PROVE PgInv'
  <2> DEFINE to == [resolver EXCEPT !.pc = "mark", !.queue = resolver.queue \ {t}, !.t = t,
                                    !.outcome = outcome]
  <2>1. to \in Cycle /\ to.t = t /\ to.queue = resolver.queue \ {t}
    <3>1. t \in Nat /\ "mark" \in Paying
      BY DEF TradeIds, Paying
    <3> QED BY <1>1, <3>1 DEF Cycle
  <2>2. resolver' = to /\ t \in resolver.queue
    BY <1>7 DEF Settle
  <2> HIDE DEF to
  <2> QED BY <1>2, <1>3, <2>1, <2>2, ResolverMovesKeep
<1>8. CASE MarkOutcome \/ ReadBankroll \/ Credit
  <2>1. resolver'.queue = resolver.queue /\ resolver'.t = resolver.t /\ resolver' \in Cycle
    <3>1. CASE MarkOutcome
      BY <1>1, <3>1 DEF MarkOutcome, Cycle, Paying
    <3>2. CASE Credit
      BY <1>1, <3>2 DEF Credit, Cycle, Paying
    <3>3. CASE ReadBankroll
      <4> DEFINE b == db.trades[resolver.t].bot
      <4>1. resolver.t \in TradeIds /\ db.trades[resolver.t].out = "open"
        BY <3>3 DEF ReadBankroll, Paying, PgInv, Inv, QueueInv
      <4>2. b \in Bots
        <5>1. db.trades[resolver.t] \in Row
          BY <1>1, <4>1 DEF Store
        <5>2. b # NoBot
          BY <4>1 DEF PgInv, Inv, RowInv
        <5> QED BY <5>1, <5>2 DEF Row
      <4> HIDE DEF b
      <4>3. db.bal[b] \in Int /\ db.peak[b] \in Int
        BY <1>1, <4>2 DEF Store
      <4>4. resolver' = [resolver EXCEPT !.pc = "credit", !.seen = db.bal[b],
                                         !.seenPeak = db.peak[b]]
        BY <3>3 DEF ReadBankroll, b
      <4> QED BY <1>1, <4>3, <4>4 DEF Cycle, Paying
    <3> QED BY <1>8, <3>1, <3>2, <3>3
  <2>2. resolver.pc \in Paying
    BY <1>8 DEF MarkOutcome, ReadBankroll, Credit, Paying
  <2>3. resolver.t \in TradeIds \ resolver.queue /\ db.trades[resolver.t].out = "open"
    BY <2>2 DEF PgInv, Inv, QueueInv
  <2> QED BY <1>2, <1>3, <2>1, <2>3, ResolverMovesKeep
<1> QED BY <1>4, <1>5, <1>6, <1>7, <1>8 DEF Visit

(* The outcome appears with its payment.                                    *)
LEMMA CommitOutcomeKeeps ==
    ASSUME PgInv, CommitOutcome
    PROVE  PgInv'
<1> DEFINE t == resolver.t
           row == db.trades[t]
           balance == resolver.seen + row.cost + Pnl(row, resolver.outcome)
           top == IF balance > resolver.seenPeak THEN balance ELSE resolver.seenPeak
<1>1. /\ resolver \in Cycle /\ db \in Store /\ resolver.pc = "commit"
      /\ UNCHANGED <<serial, bot>>
  BY DEF PgInv, PgTyped, CommitOutcome
<1>2. t \in TradeIds /\ t \notin resolver.queue /\ row.out = "open"
  BY <1>1 DEF PgInv, Inv, QueueInv, Paying
<1>3. row \in Row /\ row.bot \in Bots
  <2>1. row \in Row
    BY <1>1, <1>2 DEF Store
  <2>2. row.bot # NoBot
    BY <1>2 DEF PgInv, Inv, RowInv
  <2> QED BY <2>1, <2>2 DEF Row
<1>4. balance \in Int /\ top \in Int
  BY <1>1, <1>3 DEF Row, Cycle, Pnl
<1>5. /\ db.bal \in [Bots -> Int] /\ db.trades \in [TradeIds -> Row]
      /\ db.paid \in [TradeIds -> Nat] /\ db.debits \in [Bots -> Nat] /\ db.peak \in [Bots -> Int]
  BY <1>1 DEF Store
<1>6. /\ db' = [db EXCEPT !.trades = [db.trades EXCEPT ![t] = [row EXCEPT !.out = resolver.outcome]],
                          !.paid = [db.paid EXCEPT ![t] = db.paid[t] + 1],
                          !.bal = [db.bal EXCEPT ![row.bot] = balance],
                          !.peak = [db.peak EXCEPT ![row.bot] = top]]
      /\ resolver' = [resolver EXCEPT !.pc = "next"]
  BY <1>1, <1>2, <1>5 DEF CommitOutcome
<1>7. resolver.outcome \in Settled
  BY <1>1 DEF Cycle
<1> DEFINE new == [row EXCEPT !.out = resolver.outcome]
<1>8. new \in Row /\ new.out = resolver.outcome /\ new.bot = row.bot
  BY <1>3, <1>7 DEF Row
<1> HIDE DEF t, balance, top, new
<1>9. /\ db'.trades = [db.trades EXCEPT ![t] = new] /\ db'.paid = [db.paid EXCEPT ![t] = db.paid[t] + 1]
      /\ db'.bal = [db.bal EXCEPT ![row.bot] = balance]
      /\ db'.peak = [db.peak EXCEPT ![row.bot] = top] /\ db'.debits = db.debits
  BY <1>1, <1>6 DEF Store, new
<1>10. db' \in Store
  <2>1. /\ db'.bal \in [Bots -> Int] /\ db'.peak \in [Bots -> Int]
        /\ db'.trades \in [TradeIds -> Row] /\ db'.paid \in [TradeIds -> Nat]
    <3> HIDE DEF row
    <3>1. db'.bal \in [Bots -> Int]
      BY <1>4, <1>5, <1>9
    <3>2. db'.peak \in [Bots -> Int]
      BY <1>4, <1>5, <1>9
    <3>3. db'.trades \in [TradeIds -> Row]
      BY <1>5, <1>8, <1>9
    <3>4. db'.paid \in [TradeIds -> Nat]
      BY <1>2, <1>5, <1>9
    <3> QED BY <3>1, <3>2, <3>3, <3>4
  <2>2. db' = [bal |-> db'.bal, peak |-> db'.peak, trades |-> db'.trades,
               paid |-> db'.paid, debits |-> db'.debits]
    BY <1>1, <1>6 DEF Store
  <2> QED BY <1>5, <1>9, <2>1, <2>2 DEF Store
<1>11. resolver' \in Cycle /\ resolver'.pc = "next" /\ resolver'.queue = resolver.queue
  BY <1>1, <1>6 DEF Cycle
<1>12. PgTyped'
  BY <1>1, <1>10, <1>11 DEF PgInv, PgTyped
<1>13. db'.trades[t] = new /\ \A u \in TradeIds : u # t => db'.trades[u] = db.trades[u]
  BY <1>2, <1>5, <1>9
<1>14. \A u \in TradeIds : db'.trades[u].bot = db.trades[u].bot
  BY <1>8, <1>13
<1>15. SerialInv'
  BY <1>1 DEF PgInv, Inv, SerialInv, Waiting
<1>16. RowInv'
  <2>1. \A u \in TradeIds : db'.trades[u].out = "none" <=> db.trades[u].out = "none"
    BY <1>2, <1>7, <1>8, <1>13 DEF Settled
  <2> QED BY <1>1, <1>14, <2>1 DEF PgInv, Inv, RowInv
<1>17. DrawnInv'
  BY <1>1, <1>14 DEF PgInv, Inv, DrawnInv, Drawing, TradeIds
<1>18. QueueInv'
  BY <1>1, <1>2, <1>11, <1>13 DEF PgInv, Inv, QueueInv, Paying, Cycle
<1>19. MoneyFollowsTrades'
  <2>1. ASSUME NEW b \in Bots
        PROVE  db'.debits[b] = Cardinality({u \in TradeIds : db'.trades[u].bot = b})
    <3>1. {u \in TradeIds : db'.trades[u].bot = b} = {u \in TradeIds : db.trades[u].bot = b}
      BY <1>14
    <3> QED BY <1>9, <3>1 DEF PgInv, Inv, MoneyFollowsTrades
  <2>2. ASSUME NEW u \in TradeIds
        PROVE  db'.paid[u] = IF db'.trades[u].out \in Settled THEN 1 ELSE 0
    <3>1. db.paid[u] = IF db.trades[u].out \in Settled THEN 1 ELSE 0
      BY DEF PgInv, Inv, MoneyFollowsTrades
    <3>2. CASE u = t
      BY <1>2, <1>5, <1>7, <1>8, <1>9, <1>13, <3>1, <3>2 DEF Settled
    <3>3. CASE u # t
      BY <1>5, <1>9, <1>13, <3>1, <3>3
    <3> QED BY <3>2, <3>3
  <2> QED BY <2>1, <2>2 DEF MoneyFollowsTrades
<1> QED BY <1>12, <1>15, <1>16, <1>17, <1>18, <1>19 DEF PgInv, Inv

LEMMA RestartKeeps ==
    ASSUME PgInv, Restart
    PROVE  PgInv'
<1>1. /\ bot' = [b \in Bots |-> Idle] /\ resolver' = Asleep /\ UNCHANGED <<db, serial>>
  BY DEF Restart
<1>2. PgTyped'
  BY <1>1, IdleTyped, AsleepTyped DEF PgInv, PgTyped
<1>3. Waiting' = {} /\ \A b \in Bots : ~Drawing(b)'
  BY <1>1, IdleTyped DEF Waiting, Drawing, Early
<1>4. SerialInv'
  <2>1. Cardinality(Waiting') = 0
    BY <1>3, FS_EmptySet
  <2> QED BY <1>1, <2>1, WaitingFinite, Constants DEF PgInv, PgTyped, Inv, SerialInv
<1>5. RowInv' /\ MoneyFollowsTrades'
  BY <1>1 DEF PgInv, Inv, RowInv, MoneyFollowsTrades
<1>6. DrawnInv' /\ QueueInv'
  BY <1>1, <1>3, AsleepTyped DEF DrawnInv, QueueInv
<1> QED BY <1>2, <1>4, <1>5, <1>6 DEF PgInv, Inv

LEMMA StepKeeps == PgInv /\ [Next]_vars => PgInv'
<1> SUFFICES ASSUME PgInv, [Next]_vars PROVE PgInv'
  OBVIOUS
<1>1. ASSUME NEW b \in Bots, Place(b) \/ Call(b) \/ BotFault(b) PROVE PgInv'
  BY <1>1, PlaceKeeps, WaitsKeep, InsertTradeKeeps, CommitTradeKeeps, DeductFeeKeeps DEF Call
<1>2. CASE ResolverStep \/ ResolverFault
  BY <1>2, ReadingKeeps, CommitOutcomeKeeps DEF ResolverStep, Payment
<1>3. CASE OtherBegins \/ OtherEnds \/ UNCHANGED vars
  <2>1. UNCHANGED <<db, serial, bot, resolver>>
    BY <1>3 DEF OtherBegins, OtherEnds, vars
  <2> QED BY <2>1 DEF PgInv, PgTyped, Inv, SerialInv, Waiting, RowInv, DrawnInv, Drawing, QueueInv,
                      MoneyFollowsTrades
<1>4. CASE Restart
  BY <1>4, RestartKeeps
<1> QED BY <1>1, <1>2, <1>3, <1>4 DEF Next

(* The invariant, for every behaviour.                                      *)
THEOREM PgInvariant == Spec => []PgInv
BY InitInv, StepKeeps, PTL DEF Spec

(* On Postgres no bankroll is debited without its trade, and no trade is    *)
(* settled without its payment or paid twice.                               *)
THEOREM PostgresMoneyFollowsTrades == Spec => []MoneyFollowsTrades
<1>1. PgInv => MoneyFollowsTrades
  BY DEF PgInv, Inv
<1> QED BY <1>1, PgInvariant, PTL

-----------------------------------------------------------------------------
(* The trades.                                                              *)

LEMMA StatusMoves ==
    ASSUME PgInv, [Next]_vars, NEW t \in TradeIds
    PROVE  Lifecycle!MayBecome(db.trades[t].out, db'.trades[t].out)
<1>1. db \in Store
  BY DEF PgInv, PgTyped
<1>2. CASE db'.trades = db.trades
  BY <1>2 DEF Lifecycle!MayBecome
<1>3. ASSUME NEW b \in Bots, CommitTrade(b)
      PROVE  Lifecycle!MayBecome(db.trades[t].out, db'.trades[t].out)
  <2>1. bot[b].id \in TradeIds /\ db.trades[bot[b].id].out = "none"
    BY <1>3 DEF CommitTrade, PgInv, Inv, DrawnInv, Drawing, RowInv, TradeIds
  <2>2. \A u \in TradeIds : u # bot[b].id => db'.trades[u] = db.trades[u]
    BY <1>1, <1>3 DEF CommitTrade, Store
  <2> QED BY <2>1, <2>2 DEF Lifecycle!MayBecome
<1>4. CASE CommitOutcome
  <2>1. db.trades[resolver.t].out = "open" /\ resolver.outcome \in Settled /\ resolver.t \in TradeIds
    BY <1>4 DEF CommitOutcome, PgInv, PgTyped, Inv, QueueInv, Paying, Cycle
  <2>2. /\ db'.trades[resolver.t].out = resolver.outcome
        /\ \A u \in TradeIds : u # resolver.t => db'.trades[u] = db.trades[u]
    BY <1>1, <1>4, <2>1 DEF CommitOutcome, Store, Row
  <2> QED BY <2>1, <2>2 DEF Lifecycle!MayBecome, Lifecycle!Outcomes, Settled
<1>5. CASE \E b \in Bots : DeductFee(b)
  <2>1. db'.trades = db.trades
    BY <1>1, <1>5 DEF DeductFee, Store
  <2> QED BY <1>2, <2>1
<1>6. \/ db' = db \/ CommitOutcome
      \/ \E b \in Bots : CommitTrade(b) \/ DeductFee(b)
  BY DEF Next, Place, Call, Begin, SelectBankroll, Debit, InsertTrade, BeginFee, BotFault,
     ResolverStep, Wake, Visit, Unsettled, Settle, Payment, MarkOutcome, ReadBankroll, Credit,
     DlqFails, ResolverFault, OtherBegins, OtherEnds, Restart, vars
<1> QED BY <1>2, <1>3, <1>4, <1>5, <1>6

(* The trades table on Postgres implements TradeLifecycle: a row appears,   *)
(* is decided once and never moves back.                                    *)
THEOREM PostgresImplementsLifecycle == Spec => TradesKeepLifecycle
<1>1. Init => Lifecycle!Init
  BY DEF Init, NoRow, Lifecycle!Init
<1>2. PgInv /\ PgInv' /\ [Next]_vars
        => [Lifecycle!Advance]_([t \in TradeIds |-> db.trades[t].out])
  <2> SUFFICES ASSUME PgInv, PgInv', [Next]_vars
               PROVE  Lifecycle!Advance
    OBVIOUS
  <2>1. \A t \in TradeIds : Lifecycle!MayBecome(db.trades[t].out, db'.trades[t].out)
    BY StatusMoves
  <2>2. \A t \in TradeIds : db'.trades[t].out \in Lifecycle!Statuses
    BY DEF PgInv, PgTyped, Store, Row, Settled, Lifecycle!Statuses, Lifecycle!Outcomes
  <2> QED BY <2>1, <2>2 DEF Lifecycle!Advance
<1> QED BY <1>1, <1>2, PgInvariant, PTL DEF Spec, TradesKeepLifecycle, Lifecycle!Spec
=============================================================================
