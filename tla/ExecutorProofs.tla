--------------------------- MODULE ExecutorProofs ---------------------------
(***************************************************************************)
(* What the executor guarantees for any number of bots, windows, orders    *)
(* and failures: the cap on the orders of a window, and one open order per *)
(* market in dynamic mode.                                                 *)
(***************************************************************************)
EXTENDS Executor, FiniteSetTheorems, TLAPS

-----------------------------------------------------------------------------
(* Type correctness                                                        *)

LEMMA InitTypeOK == Init => TypeOK
BY ExecutorAssumption
DEF ExecutorAssumption, Init, TypeOK, Windows, NoCache, NoKeys, Idle, Pcs,
    BotState, Located

LEMMA IdleTyped == Idle \in BotState /\ Idle.pc = "idle"
BY DEF Idle, BotState, Pcs

(* The three candidates around a window are markets.                       *)
LEMMA Neighbours ==
  ASSUME NEW ts \in Windows, NEW m \in {ts - 1, ts, ts + 1}
  PROVE  m \in Markets
BY ExecutorAssumption DEF ExecutorAssumption, Windows, Markets

(* _cleanup keeps the type of the counts.                                  *)
LEMMA CleanedTyped ==
  ASSUME NEW c \in [Bots -> [Windows -> Nat]], NEW current
  PROVE  Cleaned(c, current) \in [Bots -> [Windows -> Nat]]
BY DEF Cleaned

(* One more order under a key.                                             *)
LEMMA CountedTyped ==
  ASSUME TypeOK, NEW b \in Bots, NEW w \in Windows
  PROVE  [counts EXCEPT ![b][w] = @ + 1] \in [Bots -> [Windows -> Nat]]
<1>1. counts \in [Bots -> [Windows -> Nat]]
  BY DEF TypeOK
<1>2. [counts[b] EXCEPT ![w] = @ + 1] \in [Windows -> Nat]
  BY <1>1
<1> QED BY <1>1, <1>2

(* A step that puts bot b in a state r that fits the tables.               *)
LEMMA BotMoveTyped ==
  ASSUME TypeOK, NEW b \in Bots, NEW r \in BotState,
         bot' = [bot EXCEPT ![b] = r], Located(r, DOMAIN trades'),
         DOMAIN trades \subseteq DOMAIN trades'
  PROVE  /\ bot' \in [Bots -> BotState]
         /\ \A c \in Bots : Located(bot'[c], DOMAIN trades')
<1>1. bot \in [Bots -> BotState] /\ \A c \in Bots : Located(bot[c], DOMAIN trades)
  BY DEF TypeOK
<1> QED BY <1>1 DEF Located

(* The same for a step that only changes the bot's state.                  *)
LEMMA BotOnlyTyped ==
  ASSUME TypeOK, NEW b \in Bots, NEW r \in BotState,
         bot' = [bot EXCEPT ![b] = r], Located(r, DOMAIN trades),
         UNCHANGED <<window, closed, cache, counts, trades, published>>,
         faults' \in 0 .. MaxFaults, crashes' = crashes
  PROVE  TypeOK'
<1>1. /\ bot' \in [Bots -> BotState]
      /\ \A c \in Bots : Located(bot'[c], DOMAIN trades')
  BY BotMoveTyped
<1> QED BY <1>1 DEF TypeOK

LEMMA NextTypeOK == TypeOK /\ [Next]_vars => TypeOK'
<1> SUFFICES ASSUME TypeOK, [Next]_vars PROVE TypeOK'
  OBVIOUS
<1>t. /\ bot \in [Bots -> BotState] /\ window \in Windows
      /\ trades \in Seq(Trade) /\ published \subseteq DOMAIN trades
      /\ counts \in [Bots -> [Windows -> Nat]]
      /\ faults \in 0 .. MaxFaults /\ crashes \in 0 .. MaxCrashes
      /\ MaxFaults \in Nat /\ MaxCrashes \in Nat /\ MaxWindow \in Nat
      /\ \A c \in Bots : Located(bot[c], DOMAIN trades)
  BY ExecutorAssumption DEF TypeOK, ExecutorAssumption
<1>i. Located(Idle, DOMAIN trades) /\ Located(Idle, DOMAIN trades')
  BY DEF Located, Idle
<1>1. ASSUME NEW b \in Bots, CanPlace(b) PROVE TypeOK'
  <2>1. CASE counts[b][window] < MaxOrders
    <3> DEFINE r == [bot[b] EXCEPT !.pc = "lookup"]
    <3>1. r \in BotState /\ Located(r, DOMAIN trades)
      BY <1>t DEF BotState, Pcs, Located
    <3> QED BY <1>1, <1>t, <2>1, <3>1, BotOnlyTyped DEF CanPlace
  <2>2. CASE ~ (counts[b][window] < MaxOrders)
    BY <1>1, <2>2 DEF CanPlace, TypeOK
  <2> QED BY <2>1, <2>2
<1>2. ASSUME NEW b \in Bots, Lookup(b) PROVE TypeOK'
  <2>1. CASE cache.ts = window
    <3> DEFINE r == [bot[b] EXCEPT !.pc = "check", !.market = cache.market]
    <3>1. cache.market \in Markets
      BY <1>t, <2>1, ExecutorAssumption DEF TypeOK, NoCache, Windows, ExecutorAssumption
    <3>2. r \in BotState /\ Located(r, DOMAIN trades)
      BY <1>t, <3>1 DEF BotState, Pcs, Located
    <3> QED BY <1>2, <1>t, <2>1, <3>2, BotOnlyTyped DEF Lookup
  <2>2. CASE cache.ts # window
    <3> DEFINE r == [bot[b] EXCEPT !.pc = "fetch", !.ts = window]
    <3>1. r \in BotState /\ Located(r, DOMAIN trades)
      BY <1>t DEF BotState, Pcs, Located
    <3> QED BY <1>2, <1>t, <2>2, <3>1, BotOnlyTyped DEF Lookup
  <2> QED BY <2>1, <2>2
<1>3. ASSUME NEW b \in Bots, Fetch(b) PROVE TypeOK'
  <2>1. PICK m \in {bot[b].ts - 1, bot[b].ts, bot[b].ts + 1} :
          /\ cache' = [market |-> m, ts |-> bot[b].ts]
          /\ bot' = [bot EXCEPT ![b].pc = "check", ![b].market = m]
    BY <1>3 DEF Fetch
  <2>2. bot[b].ts \in Windows
    BY <1>3, <1>t DEF Fetch, Located
  <2>3. m \in Markets
    BY <2>2, Neighbours
  <2> DEFINE r == [bot[b] EXCEPT !.pc = "check", !.market = m]
  <2>4. r \in BotState /\ Located(r, DOMAIN trades) /\ bot' = [bot EXCEPT ![b] = r]
    BY <1>t, <2>1, <2>3 DEF BotState, Pcs, Located
  <2>5. /\ bot' \in [Bots -> BotState]
        /\ \A c \in Bots : Located(bot'[c], DOMAIN trades')
    BY <1>3, <2>4, BotMoveTyped DEF Fetch
  <2> QED BY <1>3, <2>1, <2>2, <2>3, <2>5 DEF Fetch, TypeOK
<1>4. ASSUME NEW b \in Bots, Check(b) PROVE TypeOK'
  <2> DEFINE r == [bot[b] EXCEPT !.pc = "insert"]
  <2>1. r \in BotState /\ Located(r, DOMAIN trades)
    BY <1>t, <1>4 DEF Check, BotState, Pcs, Located
  <2> QED BY <1>4, <1>t, <2>1, BotOnlyTyped DEF Check
<1>5. ASSUME NEW b \in Bots, Refuse(b) PROVE TypeOK'
  BY <1>5, <1>t, <1>i, IdleTyped, BotOnlyTyped DEF Refuse
<1>6. ASSUME NEW b \in Bots, Insert(b) PROVE TypeOK'
  <2> DEFINE row == [bot |-> b, market |-> bot[b].market, window |-> window, open |-> TRUE]
             r == [bot[b] EXCEPT !.pc = "fee", !.id = Len(trades) + 1]
  <2>1. row \in Trade
    BY <1>t, <1>6 DEF Insert, Located, Trade
  <2>2. trades' \in Seq(Trade) /\ DOMAIN trades' = 1 .. Len(trades) + 1
    BY <1>t, <1>6, <2>1 DEF Insert
  <2>3. DOMAIN trades \subseteq DOMAIN trades'
    BY <1>t, <2>2
  <2>a. Len(trades) + 1 \in Nat /\ Len(trades) + 1 \in DOMAIN trades'
    BY <1>t, <2>2
  <2>b. r \in BotState
    BY <1>t, <2>a DEF BotState, Pcs
  <2>4. r \in BotState /\ Located(r, DOMAIN trades')
    BY <1>t, <2>a, <2>b DEF BotState, Located
  <2>5. bot' = [bot EXCEPT ![b] = r]
    BY <1>6 DEF Insert
  <2>6. /\ bot' \in [Bots -> BotState]
        /\ \A c \in Bots : Located(bot'[c], DOMAIN trades')
    BY <2>3, <2>4, <2>5, BotMoveTyped
  <2> QED BY <1>6, <1>t, <2>2, <2>3, <2>6 DEF Insert, TypeOK
<1>7. ASSUME NEW b \in Bots, DeductFee(b) PROVE TypeOK'
  <2> DEFINE r == [bot[b] EXCEPT !.pc = "record"]
  <2>1. r \in BotState /\ Located(r, DOMAIN trades)
    BY <1>t, <1>7 DEF DeductFee, BotState, Pcs, Located
  <2> QED BY <1>7, <1>t, <2>1, BotOnlyTyped DEF DeductFee
<1>8. ASSUME NEW b \in Bots, Record(b) PROVE TypeOK'
  <2> DEFINE counted == [counts EXCEPT ![b][window] = @ + 1]
  <2>1. PICK w \in {window, window + 1} \cap Windows, v0 \in Windows :
          /\ counts' = Cleaned(counted, {w, v0})
          /\ window' = w
          /\ bot' = [bot EXCEPT ![b] =
                       IF counts'[b][window] > 0
                       THEN [@ EXCEPT !.pc = "publish"] ELSE Idle]
    BY <1>8 DEF Record
  <2>2. counts' \in [Bots -> [Windows -> Nat]]
    BY <1>t, <2>1, CountedTyped, CleanedTyped
  <2> DEFINE r == IF counts'[b][window] > 0
                  THEN [bot[b] EXCEPT !.pc = "publish"] ELSE Idle
  <2>3. r \in BotState /\ Located(r, DOMAIN trades)
    BY <1>t, <1>i, <1>8, IdleTyped DEF Record, BotState, Pcs, Located
  <2>4. bot' = [bot EXCEPT ![b] = r] /\ trades' = trades
    BY <1>8, <2>1 DEF Record
  <2>5. /\ bot' \in [Bots -> BotState]
        /\ \A c \in Bots : Located(bot'[c], DOMAIN trades')
    BY <2>3, <2>4, BotMoveTyped
  <2> QED BY <1>8, <2>1, <2>2, <2>5 DEF Record, TypeOK
<1>9. ASSUME NEW b \in Bots, Publish(b) PROVE TypeOK'
  <2>1. bot[b].id \in DOMAIN trades
    BY <1>9, <1>t DEF Publish, Located
  <2>2. /\ bot' \in [Bots -> BotState]
        /\ \A c \in Bots : Located(bot'[c], DOMAIN trades')
    BY <1>9, <1>i, IdleTyped, BotMoveTyped DEF Publish
  <2> QED BY <1>9, <1>t, <2>1, <2>2 DEF Publish, TypeOK
<1>10. ASSUME NEW b \in Bots, Fault(b) PROVE TypeOK'
  <2>1. faults' \in 0 .. MaxFaults
    BY <1>10, <1>t DEF Fault
  <2> QED BY <1>10, <1>i, <2>1, IdleTyped, BotOnlyTyped DEF Fault
<1>11. ASSUME Roll PROVE TypeOK'
  <2>1. window' \in Windows
    BY <1>11, <1>t DEF Roll, Windows
  <2> QED BY <1>11, <2>1 DEF Roll, TypeOK
<1>12. ASSUME NEW m \in Markets, Close(m) PROVE TypeOK'
  BY <1>12 DEF Close, TypeOK
<1>13. ASSUME NEW i \in 1 .. MaxTrades, Resolve(i) PROVE TypeOK'
  <2>1. i \in 1 .. Len(trades) /\ trades[i] \in Trade
    BY <1>t, <1>13 DEF Resolve
  <2>2. [trades[i] EXCEPT !.open = FALSE] \in Trade
    BY <2>1 DEF Trade
  <2>3. trades' = [trades EXCEPT ![i] = [trades[i] EXCEPT !.open = FALSE]]
    BY <1>13 DEF Resolve
  <2>4. trades' \in Seq(Trade) /\ DOMAIN trades' = DOMAIN trades
    BY <1>t, <2>1, <2>2, <2>3
  <2> QED BY <1>13, <2>4 DEF Resolve, TypeOK
<1>14. ASSUME Restart PROVE TypeOK'
  <2>1. /\ bot' \in [Bots -> BotState]
        /\ \A c \in Bots : Located(bot'[c], DOMAIN trades')
    BY <1>14, <1>i, IdleTyped DEF Restart
  <2>2. crashes' \in 0 .. MaxCrashes
    BY <1>14, <1>t DEF Restart
  <2> QED BY <1>14, <2>1, <2>2 DEF Restart, TypeOK, NoKeys, NoCache
<1>15. CASE UNCHANGED vars
  BY <1>15 DEF vars, TypeOK
<1> QED
  BY <1>1, <1>2, <1>3, <1>4, <1>5, <1>6, <1>7, <1>8, <1>9, <1>10, <1>11, <1>12,
     <1>13, <1>14, <1>15 DEF Next

(* Tables, cache, counts and locals keep their types.                      *)
THEOREM ExecutorTyped == Spec => []TypeOK
BY InitTypeOK, NextTypeOK, PTL DEF Spec

-----------------------------------------------------------------------------
(* One open order per market                                               *)

(* A dynamic bot has at most one open order on a market, and none on the   *)
(* market it is about to insert an order for.                              *)
MarketInv ==
  \A b \in Dynamic :
    /\ \A m \in Markets : \A i, j \in OpenOn(b, m) : i = j
    /\ bot[b].pc = "insert" => OpenOn(b, bot[b].market) = {}

LEMMA InitMarketInv == Init => MarketInv
BY DEF Init, MarketInv, OpenOn, Idle

(* A step that opens no order and takes no bot to the insertion keeps it.  *)
LEMMA QuietMarketInv ==
  ASSUME MarketInv,
         \A b \in Bots : \A m : OpenOn(b, m)' \subseteq OpenOn(b, m),
         \A b \in Bots : bot'[b].pc = "insert" => bot'[b] = bot[b]
  PROVE  MarketInv'
BY ExecutorAssumption DEF MarketInv, ExecutorAssumption

LEMMA NextMarketInv == TypeOK /\ MarketInv /\ [Next]_vars => MarketInv'
<1> SUFFICES ASSUME TypeOK, MarketInv, [Next]_vars PROVE MarketInv'
  OBVIOUS
<1>t. /\ bot \in [Bots -> BotState] /\ trades \in Seq(Trade)
      /\ Dynamic \subseteq Bots
      /\ \A c \in Bots : Located(bot[c], DOMAIN trades)
  BY ExecutorAssumption DEF TypeOK, ExecutorAssumption
<1>1. ASSUME NEW b \in Bots, NEW r, bot' = [bot EXCEPT ![b] = r], r.pc # "insert",
             trades' = trades
      PROVE  MarketInv'
  <2>1. \A c \in Bots : \A m : OpenOn(c, m)' \subseteq OpenOn(c, m)
    BY <1>1 DEF OpenOn
  <2>2. \A c \in Bots : bot'[c].pc = "insert" => bot'[c] = bot[c]
    BY <1>t, <1>1
  <2> QED BY <2>1, <2>2, QuietMarketInv
<1>2. ASSUME NEW b \in Bots, Check(b) PROVE MarketInv'
  <2>1. \A c \in Bots : \A m : OpenOn(c, m)' = OpenOn(c, m)
    BY <1>2 DEF Check, OpenOn
  <2>2. bot' = [bot EXCEPT ![b] = [bot[b] EXCEPT !.pc = "insert"]]
    BY <1>2 DEF Check
  <2>3. bot'[b].market = bot[b].market /\ \A c \in Bots : c # b => bot'[c] = bot[c]
    BY <1>t, <2>2 DEF BotState
  <2>4. b \in Dynamic => OpenOn(b, bot[b].market) = {}
    BY <1>2 DEF Check
  <2>5. ASSUME NEW c \in Dynamic
        PROVE  /\ \A m \in Markets : \A i, j \in OpenOn(c, m)' : i = j
               /\ bot'[c].pc = "insert" => OpenOn(c, bot[c].market)' = {}
    <3>1. \A m \in Markets : \A i, j \in OpenOn(c, m)' : i = j
      BY <2>1, <1>t DEF MarketInv
    <3>2. bot'[c].pc = "insert" => OpenOn(c, bot[c].market) = {}
      BY <1>t, <2>3, <2>4 DEF MarketInv
    <3>3. bot[c].market = bot'[c].market
      BY <1>t, <2>3
    <3>4. OpenOn(c, bot[c].market)' = OpenOn(c, bot[c].market)
      <4>1. PICK m : m = bot[c].market
        OBVIOUS
      <4>2. OpenOn(c, m)' = OpenOn(c, m)
        BY <1>t, <2>1
      <4> QED BY <3>3, <4>1, <4>2
    <3> QED BY <3>1, <3>2, <3>4
  <2> QED BY <2>5 DEF MarketInv
<1>3. ASSUME NEW b \in Bots, Insert(b) PROVE MarketInv'
  <2>0. PICK n, mine : n = Len(trades) + 1 /\ mine = bot[b].market
    OBVIOUS
  <2>1. /\ bot[b].pc = "insert"
        /\ trades' = Append(trades, [bot |-> b, market |-> mine,
                                     window |-> window, open |-> TRUE])
        /\ bot' = [bot EXCEPT ![b] = [bot[b] EXCEPT !.pc = "fee", !.id = n]]
    BY <1>3, <2>0 DEF Insert
  <2>2. /\ DOMAIN trades = 1 .. Len(trades) /\ DOMAIN trades' = 1 .. n
        /\ \A i \in 1 .. Len(trades) : trades'[i] = trades[i]
        /\ trades'[n] = [bot |-> b, market |-> mine, window |-> window, open |-> TRUE]
        /\ \A i \in 1 .. n : i = n \/ i \in 1 .. Len(trades)
    BY <1>t, <2>0, <2>1
  <2>3. ASSUME NEW c \in Bots, NEW m, c # b \/ m # mine
        PROVE  OpenOn(c, m)' \subseteq OpenOn(c, m)
    BY <2>2, <2>3 DEF OpenOn
  <2>4. OpenOn(b, mine)' \subseteq OpenOn(b, mine) \cup {n}
    BY <2>2 DEF OpenOn
  <2>5. bot'[b].pc # "insert" /\ \A c \in Bots : c # b => bot'[c] = bot[c]
    BY <1>t, <2>1 DEF BotState
  <2>6. ASSUME NEW c \in Dynamic, NEW m \in Markets, NEW i \in OpenOn(c, m)',
               NEW j \in OpenOn(c, m)'
        PROVE  i = j
    <3>1. CASE c = b /\ m = mine
      <4>1. OpenOn(b, mine) = {}
        BY <2>0, <2>1, <2>6, <3>1 DEF MarketInv
      <4>2. i \in {n} /\ j \in {n}
        BY <2>4, <2>6, <3>1, <4>1
      <4> QED BY <4>2
    <3>2. CASE ~ (c = b /\ m = mine)
      BY <1>t, <2>3, <2>6, <3>2 DEF MarketInv
    <3> QED BY <3>1, <3>2
  <2>7. ASSUME NEW c \in Dynamic, bot'[c].pc = "insert"
        PROVE  OpenOn(c, bot[c].market)' = {}
    <3>1. c # b /\ bot'[c] = bot[c]
      BY <1>t, <2>5, <2>7
    <3> QED BY <1>t, <2>3, <2>7, <3>1 DEF MarketInv
  <2> QED BY <2>6, <2>7 DEF MarketInv
<1>4. ASSUME NEW i \in 1 .. MaxTrades, Resolve(i) PROVE MarketInv'
  <2>1. trades' = [trades EXCEPT ![i] = [trades[i] EXCEPT !.open = FALSE]] /\ bot' = bot
    BY <1>4 DEF Resolve
  <2>2. i \in DOMAIN trades /\ trades[i] \in Trade
    BY <1>t, <1>4 DEF Resolve
  <2>3. \A c \in Bots : \A m : OpenOn(c, m)' \subseteq OpenOn(c, m)
    BY <1>t, <2>1, <2>2 DEF OpenOn, Trade
  <2> QED BY <2>1, <2>3, QuietMarketInv
<1>5. ASSUME trades' = trades,
             bot' = bot \/ bot' = [b \in Bots |-> Idle]
      PROVE  MarketInv'
  <2>1. \A c \in Bots : \A m : OpenOn(c, m)' \subseteq OpenOn(c, m)
    BY <1>5 DEF OpenOn
  <2>2. \A c \in Bots : bot'[c].pc = "insert" => bot'[c] = bot[c]
    BY <1>5, IdleTyped
  <2> QED BY <2>1, <2>2, QuietMarketInv
<1>6. ASSUME NEW b \in Bots, CanPlace(b) PROVE MarketInv'
  <2>1. CASE counts[b][window] < MaxOrders
    <3> DEFINE r == [bot[b] EXCEPT !.pc = "lookup"]
    <3>1. r.pc # "insert"
      BY <1>t DEF BotState
    <3> QED BY <1>1, <1>6, <2>1, <3>1 DEF CanPlace
  <2>2. CASE ~ (counts[b][window] < MaxOrders)
    BY <1>5, <1>6, <2>2 DEF CanPlace
  <2> QED BY <2>1, <2>2
<1>7. ASSUME NEW b \in Bots, Lookup(b) PROVE MarketInv'
  <2>1. CASE cache.ts = window
    <3> DEFINE r == [bot[b] EXCEPT !.pc = "check", !.market = cache.market]
    <3>1. r.pc # "insert"
      BY <1>t DEF BotState
    <3> QED BY <1>1, <1>7, <2>1, <3>1 DEF Lookup
  <2>2. CASE cache.ts # window
    <3> DEFINE r == [bot[b] EXCEPT !.pc = "fetch", !.ts = window]
    <3>1. r.pc # "insert"
      BY <1>t DEF BotState
    <3> QED BY <1>1, <1>7, <2>2, <3>1 DEF Lookup
  <2> QED BY <2>1, <2>2
<1>8. ASSUME NEW b \in Bots, Fetch(b) PROVE MarketInv'
  <2>1. PICK m : bot' = [bot EXCEPT ![b].pc = "check", ![b].market = m]
    BY <1>8 DEF Fetch
  <2> DEFINE r == [bot[b] EXCEPT !.pc = "check", !.market = m]
  <2>2. bot' = [bot EXCEPT ![b] = r] /\ r.pc # "insert"
    BY <1>t, <2>1 DEF BotState
  <2> QED BY <1>1, <1>8, <2>2 DEF Fetch
<1>9. ASSUME NEW b \in Bots, Refuse(b) \/ Publish(b) \/ Fault(b) PROVE MarketInv'
  BY <1>1, <1>9, IdleTyped DEF Refuse, Publish, Fault
<1>10. ASSUME NEW b \in Bots, DeductFee(b) PROVE MarketInv'
  <2> DEFINE r == [bot[b] EXCEPT !.pc = "record"]
  <2>1. r.pc # "insert"
    BY <1>t DEF BotState
  <2> QED BY <1>1, <1>10, <2>1 DEF DeductFee
<1>11. ASSUME NEW b \in Bots, Record(b) PROVE MarketInv'
  <2>1. PICK r \in {Idle, [bot[b] EXCEPT !.pc = "publish"]} :
          bot' = [bot EXCEPT ![b] = r]
    BY <1>11 DEF Record
  <2>2. r.pc # "insert"
    BY <1>t, <2>1, IdleTyped DEF BotState
  <2> QED BY <1>1, <1>11, <2>1, <2>2 DEF Record
<1>12. ASSUME Roll \/ Restart \/ (\E m \in Markets : Close(m)) \/ UNCHANGED vars
       PROVE  MarketInv'
  BY <1>5, <1>12 DEF Roll, Restart, Close, vars
<1> QED
  BY <1>2, <1>3, <1>4, <1>6, <1>7, <1>8, <1>9, <1>10, <1>11, <1>12 DEF Next

LEMMA AtMostOne ==
  ASSUME NEW S, \A i, j \in S : i = j
  PROVE  Cardinality(S) <= 1
<1>1. CASE S = {}
  BY <1>1, FS_EmptySet
<1>2. CASE S # {}
  <2>0. PICK i \in S : TRUE
    BY <1>2
  <2>1. S \subseteq {i} /\ {i} \subseteq S
    BY <2>0
  <2>2. S = {i}
    BY <2>1
  <2>3. Cardinality({i}) = 1
    BY FS_Singleton
  <2>4. Cardinality(S) = 1
    BY <2>2, <2>3
  <2> QED BY <2>4
<1> QED BY <1>1, <1>2

(* In dynamic mode a bot never has two open orders on one market.          *)
THEOREM ExecutorOneOpenPerMarket == Spec => []OneOpenPerMarket
<1>1. TypeOK /\ MarketInv => OneOpenPerMarket
  <2> SUFFICES ASSUME TypeOK, MarketInv, NEW b \in Dynamic, NEW m \in Markets
               PROVE  Cardinality(OpenOn(b, m)) <= 1
    BY DEF OneOpenPerMarket
  <2>1. \A i, j \in OpenOn(b, m) : i = j
    BY DEF MarketInv
  <2> QED BY <2>1, AtMostOne
<1>2. Spec => [](TypeOK /\ MarketInv)
  BY InitTypeOK, NextTypeOK, InitMarketInv, NextMarketInv, PTL DEF Spec
<1> QED BY <1>1, <1>2, PTL

-----------------------------------------------------------------------------
(* The cap on the orders of a window                                       *)

N(b, w)      == Cardinality(Orders(b, w))
Midway       == Pcs \ {"idle", "publish"}
Uncounted(b) == IF bot[b].pc \in {"fee", "record"} THEN 1 ELSE 0
Lost         == MaxOrders * crashes + faults

(* Nothing has been ordered or counted in the future.  In the current      *)
(* window a bot has placed what it counted, the order it has not counted   *)
(* yet, and what failures made it forget; a bot on its way to an order has *)
(* room for it, in this window as in the one it was checked in.            *)
CapAt(b, w) ==
  /\ w > window => counts[b][w] = 0 /\ N(b, w) = 0
  /\ w = window => /\ counts[b][w] <= MaxOrders
                   /\ bot[b].pc \in Midway => counts[b][w] < MaxOrders
                   /\ N(b, w) <= counts[b][w] + Uncounted(b) + Lost
  /\ N(b, w) <= MaxOrders + Lost

CapInv == \A b \in Bots, w \in Windows : CapAt(b, w)

LEMMA OrdersFinite ==
  ASSUME TypeOK, NEW b \in Bots, NEW w \in Windows
  PROVE  IsFiniteSet(Orders(b, w)) /\ N(b, w) \in Nat
<1>1. trades \in Seq(Trade) /\ DOMAIN trades = 1 .. Len(trades) /\ Len(trades) \in Int
  BY DEF TypeOK
<1>2. IsFiniteSet(1 .. Len(trades))
  BY <1>1, FS_Interval
<1>3. Orders(b, w) \in SUBSET (1 .. Len(trades))
  BY <1>1 DEF Orders
<1>4. IsFiniteSet(Orders(b, w))
  BY <1>2, <1>3, FS_Subset
<1> QED BY <1>4, FS_CardinalityType DEF N

(* What faults and restarts may have forgotten is a number.                *)
LEMMA ForgottenNat ==
  ASSUME NEW orders \in Nat, NEW c \in Nat, NEW f \in Nat
  PROVE  orders * c + f \in Nat
<1>1. orders * c \in Nat
  OBVIOUS
<1> QED BY <1>1

LEMMA CapTyped ==
  ASSUME TypeOK
  PROVE  /\ counts \in [Bots -> [Windows -> Nat]]
         /\ window \in Windows /\ Windows \subseteq Int
         /\ MaxOrders \in Nat /\ Lost \in Nat
         /\ bot \in [Bots -> BotState]
<1>1. crashes \in Nat /\ faults \in Nat /\ MaxOrders \in Nat
  BY ExecutorAssumption DEF TypeOK, ExecutorAssumption
<1>2. Lost \in Nat
  BY <1>1, ForgottenNat DEF Lost
<1> QED BY <1>1, <1>2 DEF TypeOK, Windows

LEMMA InitCapInv == Init => CapInv
<1> SUFFICES ASSUME Init, NEW b \in Bots, NEW w \in Windows PROVE CapAt(b, w)
  BY DEF CapInv
<1>1. Orders(b, w) = {}
  BY DEF Init, Orders
<1>2. N(b, w) = 0
  BY <1>1, FS_EmptySet DEF N
<1>3. counts[b][w] = 0 /\ bot[b].pc \notin Midway /\ Uncounted(b) = 0
  BY DEF Init, NoKeys, Idle, Midway, Uncounted
<1>4. Lost \in Nat /\ MaxOrders \in Nat
  BY InitTypeOK, CapTyped
<1> QED BY <1>2, <1>3, <1>4 DEF CapAt

(* Nobody orders, counts or changes window, and no bot loses track of an   *)
(* order unless a failure is counted for it.                               *)
LEMMA QuietCap ==
  ASSUME TypeOK, TypeOK', CapInv, window' = window, counts' = counts,
         \A b \in Bots, w \in Windows : N(b, w)' = N(b, w),
         Lost' >= Lost,
         \A b \in Bots :
           /\ bot'[b].pc \in Midway => counts[b][window] < MaxOrders
           /\ Uncounted(b) + Lost <= Uncounted(b)' + Lost'
  PROVE  CapInv'
<1> SUFFICES ASSUME NEW b \in Bots, NEW w \in Windows PROVE CapAt(b, w)'
  BY DEF CapInv
<1>1. /\ counts[b][w] \in Nat /\ w \in Int /\ window \in Int
      /\ MaxOrders \in Nat /\ Lost \in Nat
      /\ N(b, w) \in Nat
  BY CapTyped, OrdersFinite
<1>a. crashes' \in Nat /\ faults' \in Nat
  BY ExecutorAssumption DEF TypeOK, ExecutorAssumption
<1>b. Lost' \in Nat
  <2>1. MaxOrders * crashes' + faults' \in Nat
    BY <1>1, <1>a, ForgottenNat
  <2> QED BY <2>1 DEF Lost
<1>2. CapAt(b, w)
  BY DEF CapInv
<1>3. Uncounted(b) \in Nat /\ Uncounted(b)' \in Nat
  BY DEF Uncounted
<1>4. N(b, w)' = N(b, w) /\ counts'[b][w] = counts[b][w]
  OBVIOUS
<1>5. w > window' => counts'[b][w] = 0 /\ N(b, w)' = 0
  BY <1>1, <1>2, <1>4 DEF CapAt
<1>6. w = window' => /\ counts'[b][w] <= MaxOrders
                     /\ bot'[b].pc \in Midway => counts'[b][w] < MaxOrders
  BY <1>1, <1>2, <1>4 DEF CapAt
<1>7. w = window' => N(b, w)' <= counts'[b][w] + Uncounted(b)' + Lost'
  BY <1>1, <1>b, <1>2, <1>3, <1>4 DEF CapAt
<1>8. N(b, w)' <= MaxOrders + Lost'
  BY <1>1, <1>b, <1>2, <1>4 DEF CapAt
<1> QED BY <1>5, <1>6, <1>7, <1>8 DEF CapAt

(* The orders only depend on who placed them and in which window.          *)
LEMMA SameOrders ==
  ASSUME trades' = trades
  PROVE  \A b \in Bots, w \in Windows : N(b, w)' = N(b, w)
<1>1. \A b \in Bots, w \in Windows : Orders(b, w)' = Orders(b, w)
  BY DEF Orders
<1> QED BY <1>1 DEF N

LEMMA ResolveKeepsOrders ==
  ASSUME TypeOK, NEW i \in 1 .. MaxTrades, Resolve(i)
  PROVE  \A b \in Bots, w \in Windows : N(b, w)' = N(b, w)
<1>1. trades \in Seq(Trade) /\ i \in DOMAIN trades /\ trades[i] \in Trade
  BY DEF TypeOK, Resolve
<1>2. trades' = [trades EXCEPT ![i] = [trades[i] EXCEPT !.open = FALSE]]
  BY DEF Resolve
<1>3. /\ DOMAIN trades' = DOMAIN trades
      /\ \A j \in DOMAIN trades : trades'[j].bot = trades[j].bot
                                 /\ trades'[j].window = trades[j].window
  BY <1>1, <1>2 DEF Trade
<1>4. \A b \in Bots, w \in Windows : Orders(b, w)' = Orders(b, w)
  BY <1>3 DEF Orders
<1> QED BY <1>4 DEF N

LEMMA InsertAddsOrder ==
  ASSUME TypeOK, NEW b \in Bots, Insert(b)
  PROVE  \A c \in Bots, w \in Windows :
           N(c, w)' = IF c = b /\ w = window THEN N(c, w) + 1 ELSE N(c, w)
<1>0. PICK n : n = Len(trades) + 1
  OBVIOUS
<1>1. /\ trades \in Seq(Trade)
      /\ DOMAIN trades = 1 .. Len(trades) /\ DOMAIN trades' = 1 .. n
      /\ \A i \in 1 .. Len(trades) : trades'[i] = trades[i]
      /\ trades'[n].bot = b /\ trades'[n].window = window
      /\ n \in 1 .. n /\ n \notin 1 .. Len(trades)
      /\ \A i \in 1 .. n : i = n \/ i \in 1 .. Len(trades)
      /\ \A i \in 1 .. Len(trades) : i \in 1 .. n
  BY <1>0 DEF TypeOK, Insert
<1> TAKE c \in Bots, w \in Windows
<1>2. CASE c = b /\ w = window
  <2>1. Orders(c, w)' = Orders(c, w) \cup {n}
    BY <1>1, <1>2 DEF Orders
  <2>2. n \notin Orders(c, w)
    BY <1>1 DEF Orders
  <2>3. IsFiniteSet(Orders(c, w))
    BY OrdersFinite
  <2>4. Cardinality(Orders(c, w) \cup {n}) = Cardinality(Orders(c, w)) + 1
    BY <2>2, <2>3, FS_AddElement
  <2> QED BY <1>2, <2>1, <2>4 DEF N
<1>3. CASE ~ (c = b /\ w = window)
  <2>1. Orders(c, w)' = Orders(c, w)
    BY <1>1, <1>3 DEF Orders
  <2> QED BY <1>3, <2>1 DEF N
<1> QED BY <1>2, <1>3

(* The first look at a window finds no counts and no orders in it.         *)
LEMMA FreshWindow ==
  ASSUME TypeOK, CapInv, NEW b \in Bots, NEW w \in Windows, w > window
  PROVE  /\ counts[b][w] = 0 /\ N(b, w) = 0
         /\ bot[b].pc \in Midway => 0 < MaxOrders
<1>1. CapAt(b, w) /\ CapAt(b, window)
  BY CapTyped DEF CapInv
<1>2. counts[b][window] \in Nat /\ MaxOrders \in Nat
  BY CapTyped
<1> QED BY <1>1, <1>2 DEF CapAt

(* Counting an order, with or without a clean-up and a change of window.   *)
LEMMA RecordCap ==
  ASSUME TypeOK, CapInv, NEW b \in Bots, Record(b)
  PROVE  CapInv'
<1>t. /\ counts \in [Bots -> [Windows -> Nat]] /\ window \in Windows
      /\ Windows \subseteq Int /\ MaxOrders \in Nat /\ Lost \in Nat
      /\ bot \in [Bots -> BotState]
  BY CapTyped
<1> DEFINE counted == [counts EXCEPT ![b][window] = @ + 1]
<1>1. PICK w1 \in {window, window + 1} \cap Windows, v0 \in Windows :
        /\ counts' = Cleaned(counted, {w1, v0})
        /\ window' = w1
        /\ bot' = [bot EXCEPT ![b] =
                     IF counts'[b][window] > 0
                     THEN [@ EXCEPT !.pc = "publish"] ELSE Idle]
  BY DEF Record
<1>2. bot[b].pc = "record" /\ trades' = trades /\ Lost' = Lost
  BY DEF Record, Lost
<1>3. /\ bot'[b].pc \in {"idle", "publish"}
      /\ \A c \in Bots : c # b => bot'[c] = bot[c]
  BY <1>t, <1>1, IdleTyped DEF BotState
<1>4. counted \in [Bots -> [Windows -> Nat]]
  BY CountedTyped, <1>t
<1>5. \A c \in Bots, v \in Windows :
        counted[c][v] = IF c = b /\ v = window THEN counts[c][v] + 1 ELSE counts[c][v]
  BY <1>t
<1>6. \A c \in Bots, v \in Windows :
        /\ counts'[c][v] \in {counted[c][v], 0}
        /\ v = w1 => counts'[c][v] = counted[c][v]
  <2> HIDE DEF counted
  <2> QED BY <1>1, <1>4 DEF Cleaned
<1> HIDE DEF counted
<1> SUFFICES ASSUME NEW c \in Bots, NEW v \in Windows PROVE CapAt(c, v)'
  BY DEF CapInv
<1>7. CapAt(c, v) /\ N(c, v)' = N(c, v) /\ N(c, v) \in Nat /\ counts[c][v] \in Nat
  BY <1>t, <1>2, SameOrders, OrdersFinite DEF CapInv
<1>8. Uncounted(c) \in {0, 1} /\ Uncounted(c)' \in {0, 1}
  BY DEF Uncounted
<1>9. c # b => Uncounted(c)' = Uncounted(c)
  BY <1>3 DEF Uncounted
<1>10. N(c, v)' <= MaxOrders + Lost'
  BY <1>2, <1>7 DEF CapAt
<1>11. v > w1 => counts'[c][v] = 0 /\ N(c, v)' = 0
  <2>1. v > w1 => v > window /\ v # window
    BY <1>t, <1>1
  <2>2. counts'[c][v] \in {counted[c][v], 0}
    BY <1>6
  <2> QED BY <2>1, <2>2, <1>5, <1>7 DEF CapAt
<1>12. CASE w1 = window
  <2>1. v = w1 /\ c = b => /\ counts[c][v] < MaxOrders
                          /\ counts'[c][v] = counts[c][v] + 1
    <3>1. "record" \in Midway
      BY DEF Midway, Pcs
    <3> QED BY <1>2, <1>5, <1>6, <1>7, <1>12, <3>1 DEF CapAt
  <2>2. v = w1 /\ c # b => counts'[c][v] = counts[c][v]
    BY <1>5, <1>6, <1>12
  <2>3. v = w1 => /\ counts'[c][v] <= MaxOrders
                  /\ bot'[c].pc \in Midway => counts'[c][v] < MaxOrders
    <3>1. CASE c = b
      BY <1>t, <1>3, <1>7, <2>1, <3>1 DEF Midway
    <3>2. CASE c # b
      BY <1>3, <1>7, <1>12, <2>2, <3>2 DEF CapAt
    <3> QED BY <3>1, <3>2
  <2>4. v = w1 => N(c, v)' <= counts'[c][v] + Uncounted(c)' + Lost'
    <3>1. CASE c = b
      BY <1>t, <1>2, <1>7, <1>8, <1>12, <2>1, <3>1 DEF CapAt
    <3>2. CASE c # b
      BY <1>2, <1>7, <1>9, <1>12, <2>2, <3>2 DEF CapAt
    <3> QED BY <3>1, <3>2
  <2> QED BY <1>1, <1>10, <1>11, <2>3, <2>4 DEF CapAt
<1>13. CASE w1 = window + 1
  <2>1. v = w1 => /\ counts[c][v] = 0 /\ N(c, v) = 0
                  /\ bot[c].pc \in Midway => 0 < MaxOrders
    BY <1>t, <1>13, FreshWindow
  <2>2. v = w1 => counts'[c][v] = 0
    BY <1>t, <1>5, <1>6, <1>13, <2>1
  <2>3. bot'[c].pc \in Midway => bot[c].pc \in Midway
    BY <1>3 DEF Midway
  <2> QED BY <1>t, <1>1, <1>2, <1>7, <1>8, <1>10, <1>11, <2>1, <2>2, <2>3 DEF CapAt
<1> QED BY <1>1, <1>12, <1>13

LEMMA InsertCap ==
  ASSUME TypeOK, CapInv, NEW b \in Bots, Insert(b)
  PROVE  CapInv'
<1> SUFFICES ASSUME NEW c \in Bots, NEW v \in Windows PROVE CapAt(c, v)'
  BY DEF CapInv
<1>t. /\ MaxOrders \in Nat /\ Lost \in Nat /\ bot \in [Bots -> BotState]
      /\ window \in Int /\ v \in Int /\ N(c, v) \in Nat /\ counts[c][v] \in Nat
  BY CapTyped, OrdersFinite
<1>1. /\ bot[b].pc = "insert" /\ counts' = counts /\ window' = window /\ Lost' = Lost
      /\ bot' = [bot EXCEPT ![b] = [bot[b] EXCEPT !.pc = "fee", !.id = Len(trades) + 1]]
  BY DEF Insert, Lost
<1>2. bot'[b].pc = "fee" /\ \A d \in Bots : d # b => bot'[d] = bot[d]
  BY <1>t, <1>1 DEF BotState
<1>3. CapAt(c, v)
  BY DEF CapInv
<1>4. N(c, v)' = IF c = b /\ v = window THEN N(c, v) + 1 ELSE N(c, v)
  BY InsertAddsOrder
<1>5. CASE c = b
  <2>1. Uncounted(c) = 0 /\ Uncounted(c)' = 1
    BY <1>1, <1>2, <1>5 DEF Uncounted
  <2>2. bot[c].pc \in Midway
    BY <1>1, <1>5 DEF Midway, Pcs
  <2> QED BY <1>t, <1>1, <1>3, <1>4, <1>5, <2>1, <2>2 DEF CapAt
<1>6. CASE c # b
  <2>1. Uncounted(c)' = Uncounted(c) /\ Uncounted(c) \in {0, 1} /\ bot'[c] = bot[c]
    BY <1>2, <1>6 DEF Uncounted
  <2> QED BY <1>t, <1>1, <1>3, <1>4, <1>6, <2>1 DEF CapAt
<1> QED BY <1>5, <1>6

LEMMA RollCap ==
  ASSUME TypeOK, CapInv, Roll
  PROVE  CapInv'
<1> SUFFICES ASSUME NEW c \in Bots, NEW v \in Windows PROVE CapAt(c, v)'
  BY DEF CapInv
<1>t. /\ MaxOrders \in Nat /\ Lost \in Nat
      /\ window \in Int /\ v \in Int /\ N(c, v) \in Nat /\ counts[c][v] \in Nat
  BY CapTyped, OrdersFinite
<1>1. window' = window + 1 /\ counts' = counts /\ bot' = bot /\ Lost' = Lost
  BY DEF Roll, Lost
<1>2. N(c, v)' = N(c, v)
  BY SameOrders DEF Roll
<1>3. Uncounted(c)' \in {0, 1}
  BY DEF Uncounted
<1>4. v > window => /\ counts[c][v] = 0 /\ N(c, v) = 0
                    /\ bot[c].pc \in Midway => 0 < MaxOrders
  BY FreshWindow
<1>5. N(c, v) <= MaxOrders + Lost
  BY DEF CapInv, CapAt
<1> QED BY <1>t, <1>1, <1>2, <1>3, <1>4, <1>5 DEF CapAt

(* A restart forgets at most one window's orders.                          *)
LEMMA RestartCap ==
  ASSUME TypeOK, CapInv, Restart
  PROVE  CapInv'
<1> SUFFICES ASSUME NEW c \in Bots, NEW v \in Windows PROVE CapAt(c, v)'
  BY DEF CapInv
<1>t. /\ MaxOrders \in Nat /\ Lost \in Nat /\ crashes \in Nat /\ faults \in Nat
      /\ N(c, v) \in Nat
  BY CapTyped, OrdersFinite, ExecutorAssumption DEF TypeOK, ExecutorAssumption
<1>1. /\ window' = window /\ counts'[c][v] = 0 /\ bot'[c] = Idle
      /\ crashes' = crashes + 1 /\ faults' = faults
  BY DEF Restart, NoKeys
<1>2. Lost' = Lost + MaxOrders
  BY <1>t, <1>1 DEF Lost
<1>3. N(c, v)' = N(c, v)
  BY SameOrders DEF Restart
<1>4. Uncounted(c)' = 0 /\ bot'[c].pc \notin Midway
  BY <1>1, IdleTyped DEF Uncounted, Midway
<1>5. N(c, v) <= MaxOrders + Lost /\ (v > window => N(c, v) = 0)
  BY DEF CapInv, CapAt
<1> QED BY <1>t, <1>1, <1>2, <1>3, <1>4, <1>5 DEF CapAt

(* A step of bot b that touches neither the orders nor the counts, keeps   *)
(* an order under way under way, and only starts one where there is room.  *)
LEMMA BotOnlyCap ==
  ASSUME TypeOK, TypeOK', CapInv, NEW b \in Bots,
         UNCHANGED <<window, counts, trades, faults, crashes>>,
         \A c \in Bots : c # b => bot'[c] = bot[c],
         bot'[b].pc \in Midway => bot[b].pc \in Midway \/ counts[b][window] < MaxOrders,
         Uncounted(b) <= Uncounted(b)'
  PROVE  CapInv'
<1>1. Lost' = Lost /\ Lost \in Nat
  BY CapTyped DEF Lost
<1>2. \A c \in Bots : bot[c].pc \in Midway => counts[c][window] < MaxOrders
  BY CapTyped DEF CapInv, CapAt
<1>3. \A c \in Bots : bot'[c].pc \in Midway => counts[c][window] < MaxOrders
  BY <1>2
<1>4. \A c \in Bots : Uncounted(c) <= Uncounted(c)'
  BY DEF Uncounted
<1>5. \A c \in Bots : Uncounted(c) + Lost <= Uncounted(c)' + Lost'
  BY <1>1, <1>4 DEF Uncounted
<1> QED BY <1>1, <1>3, <1>5, SameOrders, QuietCap

LEMMA NextCapInv == TypeOK /\ CapInv /\ [Next]_vars => CapInv'
<1> SUFFICES ASSUME TypeOK, CapInv, [Next]_vars PROVE CapInv'
  OBVIOUS
<1>t. TypeOK' /\ bot \in [Bots -> BotState] /\ Lost \in Nat
  BY NextTypeOK, CapTyped
<1>p. /\ {"lookup", "fetch", "check", "insert", "fee", "record"} \subseteq Midway
      /\ "idle" \notin Midway /\ "publish" \notin Midway
  BY DEF Midway, Pcs
<1>1. ASSUME NEW b \in Bots, CanPlace(b) PROVE CapInv'
  <2>1. CASE counts[b][window] < MaxOrders
    <3>1. bot'[b].pc = "lookup" /\ \A c \in Bots : c # b => bot'[c] = bot[c]
      BY <1>1, <1>t, <2>1 DEF CanPlace, BotState
    <3>2. Uncounted(b) <= Uncounted(b)'
      BY <1>1 DEF CanPlace, Uncounted
    <3> QED BY <1>1, <1>t, <2>1, <3>1, <3>2, BotOnlyCap DEF CanPlace
  <2>2. CASE ~ (counts[b][window] < MaxOrders)
    <3>1. bot' = bot
      BY <1>1, <2>2 DEF CanPlace
    <3>2. Uncounted(b) <= Uncounted(b)'
      BY <3>1 DEF Uncounted
    <3> QED BY <1>1, <1>t, <3>1, <3>2, BotOnlyCap DEF CanPlace
  <2> QED BY <2>1, <2>2
<1>2. ASSUME NEW b \in Bots, Lookup(b) \/ Fetch(b) \/ Check(b) PROVE CapInv'
  <2>1. bot[b].pc \in {"lookup", "fetch", "check"}
    BY <1>2 DEF Lookup, Fetch, Check
  <2>2. \A c \in Bots : c # b => bot'[c] = bot[c]
    BY <1>2, <1>t DEF Lookup, Fetch, Check
  <2>3. Uncounted(b) <= Uncounted(b)'
    BY <2>1 DEF Uncounted
  <2> QED BY <1>2, <1>t, <1>p, <2>1, <2>2, <2>3, BotOnlyCap DEF Lookup, Fetch, Check
<1>3. ASSUME NEW b \in Bots, Refuse(b) \/ Publish(b) PROVE CapInv'
  <2>1. bot[b].pc \in {"fetch", "check", "insert", "publish"}
    BY <1>3 DEF Refuse, Publish
  <2>2. bot'[b].pc = "idle" /\ \A c \in Bots : c # b => bot'[c] = bot[c]
    BY <1>3, <1>t, IdleTyped DEF Refuse, Publish
  <2>3. Uncounted(b) <= Uncounted(b)'
    BY <2>1 DEF Uncounted
  <2> QED BY <1>3, <1>t, <1>p, <2>2, <2>3, BotOnlyCap DEF Refuse, Publish
<1>4. ASSUME NEW b \in Bots, DeductFee(b) PROVE CapInv'
  <2>1. bot[b].pc = "fee" /\ bot' = [bot EXCEPT ![b] = [bot[b] EXCEPT !.pc = "record"]]
    BY <1>4 DEF DeductFee
  <2>2. bot'[b].pc = "record" /\ \A c \in Bots : c # b => bot'[c] = bot[c]
    BY <1>t, <2>1 DEF BotState
  <2>3. Uncounted(b) <= Uncounted(b)'
    BY <2>1, <2>2 DEF Uncounted
  <2> QED BY <1>4, <1>t, <1>p, <2>1, <2>2, <2>3, BotOnlyCap DEF DeductFee
<1>5. ASSUME NEW b \in Bots, Fault(b) PROVE CapInv'
  <2>1. /\ window' = window /\ counts' = counts /\ trades' = trades
        /\ Lost' = Lost + 1
        /\ bot' = [bot EXCEPT ![b] = Idle]
    <3>1. crashes \in Nat /\ faults \in Nat /\ MaxOrders \in Nat
      BY ExecutorAssumption DEF TypeOK, ExecutorAssumption
    <3> QED BY <1>5, <3>1 DEF Fault, Lost
  <2>2. \A c \in Bots : bot[c].pc \in Midway => counts[c][window] < MaxOrders
    BY CapTyped DEF CapInv, CapAt
  <2>3. \A c \in Bots : bot'[c].pc \in Midway => counts[c][window] < MaxOrders
    BY <1>t, <1>p, <2>1, <2>2, IdleTyped
  <2>4. \A c \in Bots : Uncounted(c) + Lost <= Uncounted(c)' + Lost'
    BY <1>t, <2>1 DEF Uncounted
  <2> QED BY <1>t, <2>1, <2>3, <2>4, SameOrders, QuietCap
<1>6. ASSUME UNCHANGED <<window, counts, bot, faults, crashes>>,
             \A c \in Bots, w \in Windows : N(c, w)' = N(c, w)
      PROVE  CapInv'
  <2>1. Lost' = Lost
    BY <1>6 DEF Lost
  <2>2. \A c \in Bots : bot[c].pc \in Midway => counts[c][window] < MaxOrders
    BY CapTyped DEF CapInv, CapAt
  <2>3. \A c \in Bots : Uncounted(c) + Lost <= Uncounted(c)' + Lost'
    BY <1>6, <1>t, <2>1 DEF Uncounted
  <2> QED BY <1>t, <1>6, <2>1, <2>2, <2>3, QuietCap
<1>7. ASSUME NEW m \in Markets, Close(m) PROVE CapInv'
  BY <1>6, <1>7, SameOrders DEF Close
<1>8. ASSUME NEW i \in 1 .. MaxTrades, Resolve(i) PROVE CapInv'
  BY <1>6, <1>8, ResolveKeepsOrders DEF Resolve
<1>9. CASE UNCHANGED vars
  BY <1>6, <1>9, SameOrders DEF vars
<1> QED
  BY <1>1, <1>2, <1>3, <1>4, <1>5, <1>7, <1>8, <1>9,
     InsertCap, RecordCap, RollCap, RestartCap DEF Next

(* A bot places at most max_orders_per_window orders in a window, and one  *)
(* more for each failed call, and as many again for each restart.          *)
THEOREM ExecutorWindowCap == Spec => []WindowCapUpToFaults
<1>1. TypeOK /\ CapInv => WindowCapUpToFaults
  <2> SUFFICES ASSUME TypeOK, CapInv, NEW b \in Bots, NEW w \in Windows
               PROVE  Cardinality(Orders(b, w)) <= MaxOrders * (1 + crashes) + faults
    BY DEF WindowCapUpToFaults
  <2>1. N(b, w) <= MaxOrders + Lost
    BY DEF CapInv, CapAt
  <2>2. MaxOrders \in Nat /\ crashes \in Nat /\ faults \in Nat
    BY ExecutorAssumption DEF TypeOK, ExecutorAssumption
  <2>3. MaxOrders + Lost = MaxOrders * (1 + crashes) + faults
    BY <2>2 DEF Lost
  <2> QED BY <2>1, <2>3 DEF N
<1>2. Spec => [](TypeOK /\ CapInv)
  BY InitTypeOK, NextTypeOK, InitCapInv, NextCapInv, PTL DEF Spec
<1> QED BY <1>1, <1>2, PTL
=============================================================================
