---------------------------- MODULE LedgerProofs ----------------------------
(***************************************************************************)
(* Theorems about the ledger, for any set of bots, number of trades, stake *)
(* sizes and number of failures.                                           *)
(***************************************************************************)
EXTENDS Ledger, TLAPS

-----------------------------------------------------------------------------
(* Types                                                                   *)

LEMMA InitTyped == Init => TypeOK
BY LedgerAssumption
DEF Init, TypeOK, Store, Seeded, Row, NoRow, Idle, Asleep, BotPcs, ResolverPcs,
    BotState, ResolverState, Outcomes, Settled, Owned, Rows, Busy

LEMMA IdleTyped == Idle \in BotState
BY DEF Idle, BotState, BotPcs

LEMMA AsleepTyped == Asleep \in ResolverState /\ Asleep.pc = "sleep"
BY DEF Asleep, ResolverState, ResolverPcs, Outcomes

(* Each step of a bot's task keeps the types. *)
LEMMA BotTyped ==
  ASSUME TypeOK, NEW b \in Bots, BotStep(b) \/ BotFault(b)
  PROVE  TypeOK'
<1>0. /\ live \in Store /\ Owned(live) /\ bot \in [Bots -> BotState]
      /\ bot[b] \in BotState
      /\ bot[b].cost \in Nat /\ bot[b].gain \in Nat /\ bot[b].seen \in Int
  BY DEF TypeOK, BotState
<1>1. CASE Gate(b)
  <2>1. PICK k \in Stakes :
          bot' = [bot EXCEPT ![b] = [pc |-> "select", seen |-> 0,
                                     cost |-> k.cost, gain |-> k.gain]]
    BY <1>1 DEF Gate
  <2>2. k.cost \in Nat /\ k.gain \in Nat
    BY LedgerAssumption
  <2>3. bot' \in [Bots -> BotState]
    BY <1>0, <2>1, <2>2 DEF BotState, BotPcs
  <2> QED
    BY <1>1, <2>3 DEF Gate, TypeOK, Busy
<1>2. CASE ReserveSelect(b)
  <2>1. live.bal[b] \in Int
    BY <1>0 DEF Store
  <2>2. bot' \in [Bots -> BotState]
    BY <1>0, <1>2, <2>1, IdleTyped DEF ReserveSelect, BotState, BotPcs
  <2> QED
    BY <1>2, <2>2 DEF ReserveSelect, TypeOK, Busy
<1>3. CASE ReserveUpdate(b)
  <2>1. live' \in Store /\ live'.trades = live.trades
    BY <1>0, <1>3 DEF ReserveUpdate, Store
  <2>2. bot' \in [Bots -> BotState]
    BY <1>0, <1>3 DEF ReserveUpdate, BotState, BotPcs
  <2> QED
    BY <1>3, <2>1, <2>2 DEF ReserveUpdate, TypeOK, Owned, Rows, Busy
<1>4. CASE ReserveInsert(b)
  <2>1. PICK t \in TradeIds :
          /\ live' = [live EXCEPT !.trades[t] =
                        [out |-> "open", bot |-> b,
                         cost |-> bot[b].cost, gain |-> bot[b].gain]]
          /\ stale' = stale \ {t}
    BY <1>4 DEF ReserveInsert
  <2>2. live' \in Store /\ Owned(live') /\ Rows(live) \subseteq Rows(live')
    BY <1>0, <2>1 DEF Store, Row, Owned, Rows
  <2>3. bot' \in [Bots -> BotState]
    BY <1>0, <1>4 DEF ReserveInsert, BotState, BotPcs
  <2> QED
    BY <1>4, <2>1, <2>2, <2>3 DEF ReserveInsert, TypeOK, Busy
<1>5. CASE ReserveCommit(b)
  <2>1. bot' \in [Bots -> BotState]
    BY <1>0, <1>5 DEF ReserveCommit, BotState, BotPcs
  <2> QED
    BY <1>5, <2>1 DEF ReserveCommit, TypeOK, Busy
<1>6. CASE DeductFee(b)
  <2>1. live' \in Store /\ live'.trades = live.trades
    BY <1>0, <1>6, LedgerAssumption DEF DeductFee, Store
  <2>2. bot' \in [Bots -> BotState]
    BY <1>0, <1>6 DEF DeductFee, BotState, BotPcs
  <2> QED
    BY <1>6, <2>1, <2>2 DEF DeductFee, TypeOK, Owned, Rows, Busy
<1>7. CASE FeeCommit(b)
  <2>1. bot' \in [Bots -> BotState]
    BY <1>0, <1>7, IdleTyped DEF FeeCommit
  <2> QED
    BY <1>7, <2>1 DEF FeeCommit, TypeOK, Busy
<1>8. CASE BotFault(b)
  <2>1. bot' \in [Bots -> BotState]
    BY <1>0, <1>8, IdleTyped DEF BotFault
  <2>2. faults' \in 0 .. MaxFaults
    BY <1>8, LedgerAssumption DEF BotFault, TypeOK
  <2> QED
    BY <1>8, <2>1, <2>2 DEF BotFault, TypeOK, Busy
<1> QED
  BY <1>1, <1>2, <1>3, <1>4, <1>5, <1>6, <1>7, <1>8 DEF BotStep

(* Each step of the resolver's task keeps the types. *)
LEMMA ResolverTyped ==
  ASSUME TypeOK, ResolverStep \/ ResolverFault
  PROVE  TypeOK'
<1>0. /\ live \in Store /\ Owned(live) /\ resolver \in ResolverState
      /\ resolver.t \in TradeIds \cup {0} /\ resolver.outcome \in Outcomes
      /\ resolver.seen \in Int /\ resolver.seenPeak \in Int
      /\ resolver.queue \subseteq Rows(live)
  BY DEF TypeOK, ResolverState
<1>a. Rows(live) \subseteq TradeIds /\ Open(live) \subseteq Rows(live)
  BY DEF Rows, Open
<1>b. Busy => /\ resolver.t \in Rows(live)
               /\ live.trades[resolver.t] \in Row
               /\ live.trades[resolver.t].bot \in Bots
  BY <1>0, <1>a DEF TypeOK, Owned, Store
<1>1. CASE Wake
  <2>1. resolver' \in ResolverState
    BY <1>0, <1>a, <1>1 DEF Wake, ResolverState, ResolverPcs
  <2>2. resolver'.pc = "next" /\ resolver'.queue = Open(live)
    BY <1>0, <1>1 DEF Wake, ResolverState
  <2> QED
    BY <1>1, <2>1, <2>2, <1>a DEF Wake, TypeOK, Busy
<1>2. ASSUME NEW t \in TradeIds, Unsettled(t) PROVE TypeOK'
  <2>1. /\ resolver' \in ResolverState
        /\ resolver'.pc = "next" /\ resolver'.queue = resolver.queue \ {t}
    BY <1>0, <1>2 DEF Unsettled, ResolverState
  <2> QED
    BY <1>2, <2>1, <1>0 DEF Unsettled, TypeOK, Busy
<1>3. ASSUME NEW t \in TradeIds, NEW o \in Settled, Settle(t, o) PROVE TypeOK'
  <2>1. resolver' \in ResolverState
    BY <1>0, <1>3 DEF Settle, ResolverState, ResolverPcs, Outcomes
  <2>2. resolver'.t = t /\ resolver'.queue = resolver.queue \ {t}
    BY <1>0, <1>3 DEF Settle, ResolverState
  <2>3. t \in Rows(live)
    BY <1>0, <1>3 DEF Settle
  <2> QED
    BY <1>3, <2>1, <2>2, <2>3, <1>0 DEF Settle, TypeOK
<1>4. CASE MarkOutcome \/ MarkVoid
  <2> DEFINE o == IF resolver.pc = "mark" THEN resolver.outcome ELSE "VOID"
  <2>1. Busy /\ live' = [live EXCEPT !.trades[resolver.t].out = o]
    BY <1>4 DEF MarkOutcome, MarkVoid, Busy
  <2>2. o \in Outcomes /\ o # "none"
    BY <1>0 DEF Outcomes, Settled
  <2> HIDE DEF o
  <2>3. live' \in Store
    BY <1>0, <1>a, <1>b, <2>1, <2>2 DEF Store, Row
  <2>4. Owned(live') /\ Rows(live') = Rows(live)
    BY <1>0, <1>a, <1>b, <2>1, <2>2 DEF Store, Row, Owned, Rows
  <2>5. /\ resolver' \in ResolverState
        /\ resolver'.t = resolver.t /\ resolver'.queue = resolver.queue
    BY <1>0, <1>4 DEF MarkOutcome, MarkVoid, ResolverState, ResolverPcs
  <2> QED
    BY <1>4, <2>1, <2>3, <2>4, <2>5 DEF MarkOutcome, MarkVoid, TypeOK, Busy
<1>5. CASE ReadBankroll
  <2>1. live.bal[live.trades[resolver.t].bot] \in Int
        /\ live.peak[live.trades[resolver.t].bot] \in Int
    BY <1>0, <1>b, <1>5 DEF ReadBankroll, Busy, Store
  <2>2. /\ resolver' \in ResolverState
        /\ resolver'.t = resolver.t /\ resolver'.queue = resolver.queue
    BY <1>0, <1>5, <2>1 DEF ReadBankroll, ResolverState, ResolverPcs
  <2> QED
    BY <1>5, <2>2 DEF ReadBankroll, TypeOK, Busy
<1>6. CASE Credit
  <2> DEFINE row == live.trades[resolver.t]
             balance == resolver.seen + row.cost + Pnl(row, resolver.outcome)
             peak == IF balance > resolver.seenPeak THEN balance
                     ELSE resolver.seenPeak
  <2>1. resolver.t \in TradeIds /\ row.bot \in Bots
    BY <1>a, <1>b, <1>6 DEF Credit, Busy
  <2>2. balance \in Int /\ peak \in Int
    BY <1>0, <1>b, <1>6 DEF Credit, Busy, Row, Pnl
  <2>3. live' = [live EXCEPT !.bal[row.bot] = balance, !.peak[row.bot] = peak,
                             !.paid[resolver.t] = @ + 1]
    BY <1>6 DEF Credit
  <2> HIDE DEF row, balance, peak
  <2>4. live' \in Store /\ live'.trades = live.trades
    <3>1. /\ [live.bal EXCEPT ![row.bot] = balance] \in [Bots -> Int]
          /\ [live.peak EXCEPT ![row.bot] = peak] \in [Bots -> Int]
          /\ [live.paid EXCEPT ![resolver.t] = @ + 1] \in [TradeIds -> Nat]
      BY <1>0, <2>1, <2>2 DEF Store
    <3>2. live' = [live EXCEPT
                     !.bal = [live.bal EXCEPT ![row.bot] = balance],
                     !.peak = [live.peak EXCEPT ![row.bot] = peak],
                     !.paid = [live.paid EXCEPT ![resolver.t] = @ + 1]]
      BY <2>3
    <3> QED
      BY <1>0, <3>1, <3>2 DEF Store
  <2>5. /\ resolver' \in ResolverState
        /\ resolver'.t = resolver.t /\ resolver'.queue = resolver.queue
    BY <1>0, <1>6 DEF Credit, ResolverState, ResolverPcs
  <2> QED
    BY <1>6, <2>4, <2>5 DEF Credit, TypeOK, Owned, Rows, Busy
<1>7. CASE CommitOutcome \/ CommitVoid
  <2>1. /\ resolver' \in ResolverState
        /\ resolver'.pc \in {"next", "dlq"} /\ resolver'.queue = resolver.queue
    BY <1>0, <1>7 DEF CommitOutcome, CommitVoid, ResolverState, ResolverPcs
  <2> QED
    BY <1>7, <2>1 DEF CommitOutcome, CommitVoid, TypeOK, Busy
<1>8. CASE StaleScan
  <2>1. resolver' \in ResolverState
    BY <1>0, <1>a, <1>8 DEF StaleScan, ResolverState, ResolverPcs
  <2>2. resolver'.pc = "dlq" /\ resolver'.queue \subseteq Open(live)
    BY <1>0, <1>8 DEF StaleScan, ResolverState
  <2> QED
    BY <1>8, <2>1, <2>2, <1>a DEF StaleScan, TypeOK, Busy
<1>9. ASSUME NEW t \in TradeIds, DeadLetter(t) PROVE TypeOK'
  <2>1. live' \in Store /\ live'.trades = live.trades
    BY <1>0, <1>9 DEF DeadLetter, Store
  <2>2. resolver' \in ResolverState
    BY <1>0, <1>9 DEF DeadLetter, ResolverState, ResolverPcs
  <2>3. /\ resolver'.t = t /\ resolver'.queue = resolver.queue \ {t}
        /\ t \in Rows(live)
    BY <1>0, <1>9 DEF DeadLetter, ResolverState
  <2> QED
    BY <1>9, <2>1, <2>2, <2>3 DEF DeadLetter, TypeOK, Owned, Rows
<1>10. CASE Sleep
  BY <1>10, AsleepTyped DEF Sleep, Asleep, TypeOK, Busy
<1>11. CASE ResolverFault
  <2>1. faults' \in 0 .. MaxFaults
    BY <1>11, LedgerAssumption DEF ResolverFault, TypeOK
  <2> QED
    BY <1>11, <2>1, AsleepTyped DEF ResolverFault, Asleep, TypeOK, Busy
<1> QED
  BY <1>1, <1>2, <1>3, <1>4, <1>5, <1>6, <1>7, <1>8, <1>9, <1>10, <1>11
  DEF ResolverStep

(* TypeOK holds in every reachable state.                                  *)
THEOREM LedgerTyped == Spec => []TypeOK
<1>1. TypeOK /\ [Next]_vars => TypeOK'
  <2> SUFFICES ASSUME TypeOK, [Next]_vars PROVE TypeOK'
    OBVIOUS
  <2>1. CASE BackgroundCommit
    BY <2>1 DEF BackgroundCommit, TypeOK, Busy
  <2>2. ASSUME NEW t \in TradeIds, Age(t) PROVE TypeOK'
    BY <2>2 DEF Age, TypeOK, Busy
  <2>3. CASE Restart
    <3>1. bot' \in [Bots -> BotState] /\ crashes' \in 0 .. MaxCrashes
      BY <2>3, IdleTyped, LedgerAssumption DEF Restart, TypeOK
    <3> QED
      BY <2>3, <3>1, AsleepTyped DEF Restart, Asleep, TypeOK, Busy
  <2>4. CASE UNCHANGED vars
    BY <2>4 DEF vars, TypeOK, Busy
  <2> QED
    BY <2>1, <2>2, <2>3, <2>4, BotTyped, ResolverTyped DEF Next
<1> QED
  BY <1>1, InitTyped, PTL DEF Spec

-----------------------------------------------------------------------------
(* Trades: what the resolver is working on is still open, or was marked by *)
(* the resolver itself and is not paid yet, and the committed table is     *)
(* never ahead of the live one.                                            *)

Accounted(s) ==
  \A t \in TradeIds :
    /\ s.paid[t] # 0 => s.paid[t] = 1 /\ s.trades[t].out \in Settled
    /\ s.trades[t].out = "VOID" => s.letters[t] > 0

Working ==
  /\ resolver.queue \subseteq Open(live)
  /\ resolver.pc \in {"mark", "void"} =>
       resolver.t \in Open(live) /\ resolver.t \notin resolver.queue
  /\ resolver.pc \in {"mark", "read", "credit"} => resolver.outcome \in Settled
  /\ resolver.pc \in {"read", "credit"} =>
       live.trades[resolver.t].out = resolver.outcome /\ live.paid[resolver.t] = 0
  /\ resolver.pc = "void" => live.letters[resolver.t] > 0

Ahead ==
  \A t \in TradeIds :
    Lifecycle!MayBecome(disk.trades[t].out, live.trades[t].out)

TradeInv == Accounted(live) /\ Accounted(disk) /\ Ahead /\ Working

(* A step that leaves these columns, and the resolver, alone.              *)
LEMMA TradeFrame ==
  ASSUME TradeInv, live' = live, disk' \in {live, disk},
         \/ resolver' = resolver
         \/ resolver'.queue = {} /\ resolver'.pc \in {"sleep", "next", "dlq"}
  PROVE  TradeInv'
<1>1. Accounted(live)' /\ Accounted(disk)'
  BY DEF TradeInv, Accounted
<1>2. Ahead'
  BY DEF TradeInv, Ahead, Lifecycle!MayBecome
<1>3. Working'
  BY DEF TradeInv, Working, Open
<1> QED
  BY <1>1, <1>2, <1>3 DEF TradeInv

LEMMA BotKeepsTrades ==
  ASSUME TypeOK, TradeInv, NEW b \in Bots, BotStep(b) \/ BotFault(b)
  PROVE  TradeInv'
<1>0. live \in Store
  BY DEF TypeOK
<1>1. CASE ReserveUpdate(b) \/ DeductFee(b)
  <2>1. /\ live'.trades = live.trades /\ live'.paid = live.paid
        /\ live'.letters = live.letters
        /\ disk' = disk /\ resolver' = resolver
    BY <1>0, <1>1 DEF ReserveUpdate, DeductFee, Store
  <2> QED
    BY <2>1 DEF TradeInv, Accounted, Ahead, Working, Open
<1>2. CASE ReserveInsert(b)
  <2>1. PICK t \in TradeIds :
          /\ live.trades[t].out = "none"
          /\ live' = [live EXCEPT !.trades[t] =
                        [out |-> "open", bot |-> b,
                         cost |-> bot[b].cost, gain |-> bot[b].gain]]
    BY <1>2 DEF ReserveInsert, IsNextId, Free
  <2>2. /\ live'.paid = live.paid /\ live'.letters = live.letters
        /\ live'.trades[t].out = "open"
        /\ \A u \in TradeIds \ {t} : live'.trades[u] = live.trades[u]
    BY <1>0, <2>1 DEF Store
  <2>3. disk' = disk /\ resolver' = resolver
    BY <1>2 DEF ReserveInsert
  <2>4. live.paid[t] = 0
    BY <2>1 DEF TradeInv, Accounted, Settled
  <2>5. Accounted(live)' /\ Accounted(disk)'
    BY <2>2, <2>3, <2>4 DEF TradeInv, Accounted
  <2>6. disk.trades[t].out = "none"
    BY <2>1 DEF TradeInv, Ahead, Lifecycle!MayBecome, Lifecycle!Outcomes
  <2>7. Ahead'
    BY <2>2, <2>3, <2>6 DEF TradeInv, Ahead, Lifecycle!MayBecome
  <2>8. Open(live') = Open(live) \cup {t}
    BY <2>2 DEF Open
  <2>9. resolver.t # t \/ resolver.pc \notin {"mark", "void", "read", "credit"}
    BY <2>1 DEF TradeInv, Working, Open, Settled
  <2>10. t \notin resolver.queue
    BY <2>1 DEF TradeInv, Working, Open
  <2>11. resolver.pc \in {"read", "credit"} => resolver.t \in TradeIds
    BY DEF TypeOK, Busy, Rows
  <2>12. Working'
    BY <2>2, <2>3, <2>8, <2>9, <2>10, <2>11 DEF TradeInv, Working, Open
  <2> QED
    BY <2>5, <2>7, <2>12 DEF TradeInv
<1>3. CASE Gate(b) \/ ReserveSelect(b) \/ ReserveCommit(b) \/ FeeCommit(b)
           \/ BotFault(b)
  BY <1>3, TradeFrame
  DEF Gate, ReserveSelect, ReserveCommit, FeeCommit, BotFault
<1> QED
  BY <1>1, <1>2, <1>3 DEF BotStep

LEMMA ResolverKeepsTrades ==
  ASSUME TypeOK, TradeInv, ResolverStep \/ ResolverFault
  PROVE  TradeInv'
<1>0. /\ live \in Store /\ resolver \in ResolverState
      /\ Busy => resolver.t \in TradeIds
  BY DEF TypeOK, Rows
<1>1. CASE Wake \/ StaleScan
  <2>1. /\ resolver'.queue \subseteq Open(live) /\ resolver'.pc \in {"next", "dlq"}
        /\ UNCHANGED <<live, disk>>
    BY ZenonT(40), <1>0, <1>1 DEF Wake, StaleScan, ResolverState
  <2> QED
    BY <2>1 DEF TradeInv, Accounted, Ahead, Working, Open
<1>2. ASSUME NEW t \in TradeIds, Unsettled(t) PROVE TradeInv'
  <2>1. /\ resolver'.queue \subseteq resolver.queue /\ resolver'.pc = "next"
        /\ UNCHANGED <<live, disk>>
    BY <1>0, <1>2 DEF Unsettled, ResolverState
  <2> QED
    BY <2>1 DEF TradeInv, Accounted, Ahead, Working, Open
<1>3. ASSUME NEW t \in TradeIds, NEW o \in Settled, Settle(t, o) PROVE TradeInv'
  <2>1. /\ resolver'.queue = resolver.queue \ {t} /\ resolver'.pc = "mark"
        /\ resolver'.t = t /\ resolver'.outcome = o /\ t \in resolver.queue
        /\ UNCHANGED <<live, disk>>
    BY <1>0, <1>3 DEF Settle, ResolverState
  <2> QED
    BY <2>1 DEF TradeInv, Accounted, Ahead, Working, Open
<1>4. CASE MarkOutcome \/ MarkVoid
  <2> DEFINE o == IF resolver.pc = "mark" THEN resolver.outcome ELSE "VOID"
  <2>1. /\ resolver.pc \in {"mark", "void"} /\ disk' = disk
        /\ live' = [live EXCEPT !.trades[resolver.t].out = o]
        /\ resolver'.pc = IF resolver.pc = "mark" THEN "read" ELSE "dlqCommit"
        /\ resolver'.t = resolver.t /\ resolver'.outcome = resolver.outcome
        /\ resolver'.queue = resolver.queue
    BY <1>0, <1>4 DEF MarkOutcome, MarkVoid, ResolverState
  <2>2. resolver.t \in TradeIds /\ live.trades[resolver.t].out = "open"
    BY <1>0, <2>1 DEF TradeInv, Working, Open
  <2>3. live.paid[resolver.t] = 0
    BY <1>0, <2>2 DEF TradeInv, Accounted, Settled, Store
  <2>3a. resolver.pc = "mark" => o = resolver.outcome /\ o \in Settled
    BY DEF TradeInv, Working
  <2>3b. resolver.pc # "mark" => o = "VOID" /\ live.letters[resolver.t] > 0
    BY <2>1 DEF TradeInv, Working
  <2> HIDE DEF o
  <2>4. /\ o \in Outcomes
        /\ o \in Settled \/ (o = "VOID" /\ live.letters[resolver.t] > 0)
    BY <2>3a, <2>3b DEF Outcomes
  <2>5. /\ live'.paid = live.paid /\ live'.letters = live.letters
        /\ live'.trades[resolver.t].out = o
        /\ \A u \in TradeIds \ {resolver.t} : live'.trades[u] = live.trades[u]
    BY <1>0, <2>1, <2>2 DEF Store, Row
  <2>6. Accounted(live)' /\ Accounted(disk)'
    BY <2>1, <2>2, <2>3, <2>4, <2>5 DEF TradeInv, Accounted, Settled
  <2>7. Ahead'
    BY <2>1, <2>2, <2>4, <2>5
    DEF TradeInv, Ahead, Lifecycle!MayBecome, Lifecycle!Outcomes, Outcomes, Settled
  <2>8. Working'
    BY <2>1, <2>2, <2>3, <2>4, <2>3a, <2>5 DEF TradeInv, Working, Open
  <2> QED
    BY <2>6, <2>7, <2>8 DEF TradeInv
<1>5. CASE ReadBankroll
  <2>1. /\ resolver.pc = "read" /\ resolver'.pc = "credit"
        /\ resolver'.t = resolver.t /\ resolver'.outcome = resolver.outcome
        /\ resolver'.queue = resolver.queue /\ UNCHANGED <<live, disk>>
    BY <1>0, <1>5 DEF ReadBankroll, ResolverState
  <2> QED
    BY <2>1 DEF TradeInv, Accounted, Ahead, Working, Open
<1>6. CASE Credit
  <2>1. resolver.t \in TradeIds /\ resolver.pc = "credit"
    BY <1>0, <1>6 DEF Credit, Busy
  <2>2. /\ live'.trades = live.trades /\ live'.letters = live.letters
        /\ live'.paid = [live.paid EXCEPT ![resolver.t] = @ + 1]
    BY <1>0, <1>6 DEF Credit, Store
  <2>3. /\ resolver'.pc = "commit" /\ resolver'.queue = resolver.queue
        /\ disk' = disk
    BY <1>0, <1>6 DEF Credit, ResolverState
  <2>4. /\ live.paid[resolver.t] = 0
        /\ live.trades[resolver.t].out \in Settled
    BY <2>1 DEF TradeInv, Working
  <2>5. /\ live'.paid[resolver.t] = 1
        /\ \A u \in TradeIds \ {resolver.t} : live'.paid[u] = live.paid[u]
    BY <1>0, <2>1, <2>2, <2>4 DEF Store
  <2>6. Accounted(live)' /\ Accounted(disk)'
    BY <2>2, <2>3, <2>4, <2>5 DEF TradeInv, Accounted
  <2>7. Ahead' /\ Working'
    BY <2>2, <2>3 DEF TradeInv, Ahead, Working, Open
  <2> QED
    BY <2>6, <2>7 DEF TradeInv
<1>7. CASE CommitOutcome \/ CommitVoid
  <2>1. /\ resolver'.queue = resolver.queue /\ resolver'.pc \in {"next", "dlq"}
        /\ live' = live /\ disk' = live
    BY <1>0, <1>7 DEF CommitOutcome, CommitVoid, ResolverState
  <2> QED
    BY <2>1
    DEF TradeInv, Accounted, Ahead, Working, Open, Lifecycle!MayBecome
<1>8. ASSUME NEW t \in TradeIds, DeadLetter(t) PROVE TradeInv'
  <2>1. /\ live'.trades = live.trades /\ live'.paid = live.paid
        /\ live'.letters = [live.letters EXCEPT ![t] = @ + 1]
        /\ disk' = disk /\ t \in resolver.queue
    BY <1>0, <1>8 DEF DeadLetter, Store
  <2>2. /\ resolver'.pc = "void" /\ resolver'.queue = resolver.queue \ {t}
        /\ resolver'.t = t
    BY <1>0, <1>8 DEF DeadLetter, ResolverState
  <2>3. /\ live'.letters[t] > 0
        /\ \A u \in TradeIds : live.letters[u] > 0 => live'.letters[u] > 0
    BY <1>0, <2>1 DEF Store
  <2>4. Accounted(live)' /\ Accounted(disk)'
    BY <2>1, <2>3 DEF TradeInv, Accounted
  <2>5. Ahead' /\ Working'
    BY <2>1, <2>2, <2>3 DEF TradeInv, Ahead, Working, Open
  <2> QED
    BY <2>4, <2>5 DEF TradeInv
<1>9. CASE Sleep \/ ResolverFault
  BY <1>9, TradeFrame DEF Sleep, ResolverFault, Asleep
<1> QED
  BY <1>1, <1>2, <1>3, <1>4, <1>5, <1>6, <1>7, <1>8, <1>9 DEF ResolverStep

LEMMA TradesInvariant == Spec => [](TypeOK /\ TradeInv)
<1>1. Init => TradeInv
  BY DEF Init, Seeded, NoRow, Asleep, TradeInv, Accounted, Ahead, Working, Open,
         Lifecycle!MayBecome
<1>2. TypeOK /\ TradeInv /\ [Next]_vars => TradeInv'
  <2> SUFFICES ASSUME TypeOK, TradeInv, [Next]_vars PROVE TradeInv'
    OBVIOUS
  <2>1. CASE Restart
    <3>1. /\ live' = disk /\ disk' = disk
          /\ resolver'.queue = {} /\ resolver'.pc = "sleep"
      BY <2>1 DEF Restart, Asleep
    <3> QED
      BY <3>1
      DEF TradeInv, Accounted, Ahead, Working, Open, Lifecycle!MayBecome
  <2>2. CASE BackgroundCommit \/ (\E t \in TradeIds : Age(t)) \/ UNCHANGED vars
    BY <2>2, TradeFrame DEF BackgroundCommit, Age, vars
  <2> QED
    BY <2>1, <2>2, BotKeepsTrades, ResolverKeepsTrades DEF Next
<1> QED
  BY <1>1, <1>2, LedgerTyped, PTL DEF Spec

(* PaidAtMostOnce holds whatever the tasks' interleaving and failures.     *)
THEOREM LedgerPaysOnce == Spec => []PaidAtMostOnce
<1>1. TradeInv => PaidAtMostOnce
  BY DEF TradeInv, Accounted, PaidAtMostOnce
<1> QED
  BY <1>1, TradesInvariant, PTL

(* VoidHasLetter holds, also in the tables a restart finds.                *)
THEOREM LedgerVoidsWithLetter == Spec => []VoidHasLetter
<1>1. TradeInv => VoidHasLetter
  BY DEF TradeInv, Accounted, VoidHasLetter
<1> QED
  BY <1>1, TradesInvariant, PTL

(* The committed trades table implements TradeLifecycle: every step of the *)
(* ledger is a step of it, or leaves the statuses alone.                   *)
THEOREM LedgerImplementsLifecycle == Spec => TradesKeepLifecycle
<1>1. Init => Lifecycle!Init
  BY DEF Init, Seeded, NoRow, Lifecycle!Init
<1>2. TypeOK /\ TypeOK' /\ TradeInv /\ [Next]_vars
        => [Lifecycle!Advance]_([t \in TradeIds |-> disk.trades[t].out])
  <2> SUFFICES ASSUME TypeOK, TypeOK', TradeInv, [Next]_vars
               PROVE  Lifecycle!Advance
    OBVIOUS
  <2>1. disk' = disk \/ disk' = live
    BY DEF Next, vars, BotStep, ResolverStep, Gate, ReserveSelect, ReserveUpdate,
           ReserveInsert, ReserveCommit, DeductFee, FeeCommit, BotFault, Wake,
           Unsettled, Settle, MarkOutcome, ReadBankroll, Credit, CommitOutcome,
           StaleScan, DeadLetter, MarkVoid, CommitVoid, Sleep, ResolverFault,
           BackgroundCommit, Age, Restart
  <2>2. \A t \in TradeIds :
          Lifecycle!MayBecome(disk.trades[t].out, disk'.trades[t].out)
    BY <2>1 DEF TradeInv, Ahead, Lifecycle!MayBecome
  <2>3. \A t \in TradeIds : disk'.trades[t].out \in Lifecycle!Statuses
    BY DEF TypeOK, Store, Row, Outcomes, Settled, Lifecycle!Statuses, Lifecycle!Outcomes
  <2> QED
    BY <2>2, <2>3 DEF Lifecycle!Advance
<1> QED
  BY <1>1, <1>2, LedgerTyped, TradesInvariant, PTL
  DEF Spec, TradesKeepLifecycle, Lifecycle!Spec

-----------------------------------------------------------------------------
(* Money: what a bot read is at most what is there now, because only the   *)
(* resolver wrote since; what the resolver read is at least what is there  *)
(* now, because only bots wrote since.                                     *)

Sound(s) ==
  \A b \in Bots : 0 <= s.bal[b] /\ s.bal[b] <= s.peak[b] /\ Initial <= s.peak[b]

(* What bot b still has to take out of its bankroll is there.              *)
Funded(b) ==
  /\ bot[b].pc = "select" => live.bal[b] >= bot[b].cost + Gas
  /\ bot[b].pc = "update" => /\ bot[b].seen >= bot[b].cost + Gas
                             /\ bot[b].seen <= live.bal[b]
  /\ bot[b].pc \in {"insert", "commit", "fee"} => live.bal[b] >= Gas

UpToDate ==
  resolver.pc = "credit" =>
    LET b == live.trades[resolver.t].bot IN
    live.bal[b] <= resolver.seen /\ live.peak[b] = resolver.seenPeak

MoneyInv ==
  Sound(live) /\ Sound(disk) /\ UpToDate /\ \A b \in Bots : Funded(b)

LEMMA Scale == \A n, x, y \in Nat : x <= y => n * x <= n * y
OBVIOUS

(* A bot that passes the drawdown gate has the stake and the fee.          *)
LEMMA GateFunds ==
  ASSUME TypeOK, Sound(live), NEW b \in Bots, Tradable(b),
         NEW k \in Stakes, Sized(k, live.bal[b])
  PROVE  live.bal[b] >= k.cost + Gas
<1> DEFINE g == live.bal[b]
           p == live.peak[b]
<1>1. g \in Nat /\ p \in Nat /\ Initial <= p
  BY LedgerAssumption DEF TypeOK, Store, Sound
<1>2. k.cost \in Nat
  BY LedgerAssumption
<1>3. 100 * (p - g) < DdLimit * p
  BY DEF Tradable
<1> HIDE DEF g, p
<1>4. (100 - DdLimit) * Initial <= (100 - DdLimit) * p
  BY <1>1, Scale, LedgerAssumption, FeeAssumption
<1>5. (100 - DdLimit) * p = 100 * p - DdLimit * p
  BY <1>1, LedgerAssumption
<1>6. 100 * g >= 100 * (MinBet + Gas)
  <2>1. DdLimit * p \in Nat /\ (100 - DdLimit) * Initial \in Nat
    BY <1>1, LedgerAssumption, FeeAssumption
  <2> QED
    BY <1>1, <1>3, <1>4, <1>5, <2>1, LedgerAssumption, FeeAssumption
<1>7. g >= MinBet + Gas
  BY <1>1, <1>6, LedgerAssumption
<1>8. CASE k.cost <= MinBet
  BY <1>1, <1>2, <1>7, <1>8, LedgerAssumption DEF g
<1>9. CASE 100 * k.cost <= MaxPct * g
  <2>1. MaxPct * g <= 50 * g
    BY <1>1, Scale, LedgerAssumption, FeeAssumption
  <2>2. 2 * k.cost <= g
    BY <1>1, <1>2, <1>9, <2>1, LedgerAssumption
  <2> QED
    BY <1>1, <1>2, <1>7, <2>2, LedgerAssumption, FeeAssumption DEF g
<1> QED
  BY <1>8, <1>9 DEF Sized, g

(* A step that changes no bankroll of the live tables.                     *)
LEMMA MoneyFrame ==
  ASSUME MoneyInv, live'.bal = live.bal, live'.peak = live.peak,
         disk' \in {live, disk},
         \A b \in Bots : bot'[b] = bot[b] \/ bot'[b].pc \in {"idle", "feeCommit"},
         \/ UNCHANGED resolver /\ live'.trades = live.trades
         \/ resolver'.pc # "credit"
  PROVE  MoneyInv'
<1>1. Sound(live)' /\ Sound(disk)'
  BY DEF MoneyInv, Sound
<1>2. UpToDate'
  BY DEF MoneyInv, UpToDate
<1>3. ASSUME NEW b \in Bots PROVE Funded(b)'
  BY <1>3 DEF MoneyInv, Funded
<1> QED
  BY <1>1, <1>2, <1>3 DEF MoneyInv

LEMMA BotKeepsMoney ==
  ASSUME TypeOK, TradeInv, MoneyInv, NEW b \in Bots, BotStep(b) \/ BotFault(b)
  PROVE  MoneyInv' /\ \A a \in Bots : live'.bal[a] <= live.bal[a]
<1>0. /\ live \in Store /\ disk \in Store /\ bot \in [Bots -> BotState]
      /\ bot[b].cost \in Nat /\ bot[b].seen \in Int
      /\ \A a \in Bots : live.bal[a] \in Int /\ live.peak[a] \in Int
      /\ Gas \in Nat
  BY LedgerAssumption DEF TypeOK, BotState, Store
<1>1. CASE Gate(b)
  <2>1. PICK k \in Stakes :
          /\ Sized(k, live.bal[b])
          /\ bot' = [bot EXCEPT ![b] = [pc |-> "select", seen |-> 0,
                                        cost |-> k.cost, gain |-> k.gain]]
    BY <1>1 DEF Gate
  <2>2. live.bal[b] >= k.cost + Gas
    BY <1>1, <2>1, GateFunds DEF Gate, MoneyInv
  <2>3. Funded(b)'
    BY <1>0, <1>1, <2>1, <2>2 DEF Gate, Funded
  <2>4. \A a \in Bots \ {b} : Funded(a)'
    BY <1>0, <1>1, <2>1 DEF Gate, Funded, MoneyInv
  <2> QED
    BY <1>0, <1>1, <2>3, <2>4 DEF Gate, MoneyInv, Sound, UpToDate
<1>2. CASE ReserveSelect(b)
  <2>1. Funded(b)'
    BY <1>0, <1>2 DEF ReserveSelect, Funded, MoneyInv, Idle, BotState
  <2>2. \A a \in Bots \ {b} : Funded(a)'
    BY <1>0, <1>2 DEF ReserveSelect, Funded, MoneyInv
  <2> QED
    BY <1>0, <1>2, <2>1, <2>2 DEF ReserveSelect, MoneyInv, Sound, UpToDate
<1>3. CASE ReserveUpdate(b)
  <2>1. /\ live'.bal = [live.bal EXCEPT ![b] = bot[b].seen - bot[b].cost]
        /\ live'.peak = live.peak /\ live'.trades = live.trades
        /\ disk' = disk /\ resolver' = resolver
    BY <1>0, <1>3 DEF ReserveUpdate, Store
  <2>2. /\ live'.bal[b] <= live.bal[b] /\ live'.bal[b] >= Gas
        /\ live'.bal[b] >= 0
        /\ \A a \in Bots \ {b} : live'.bal[a] = live.bal[a]
    BY <1>0, <1>3, <2>1 DEF ReserveUpdate, MoneyInv, Funded, Store
  <2>3. Sound(live)' /\ Sound(disk)'
    BY <1>0, <2>1, <2>2, LedgerAssumption DEF MoneyInv, Sound, Store
  <2>4. UpToDate'
    BY <1>0, <2>1, <2>2 DEF MoneyInv, UpToDate, Owned, TypeOK, Busy, ResolverState
  <2>5. Funded(b)'
    BY <1>0, <1>3, <2>2 DEF ReserveUpdate, Funded
  <2>6. \A a \in Bots \ {b} : Funded(a)'
    BY <1>0, <1>3, <2>2 DEF ReserveUpdate, Funded, MoneyInv
  <2> QED
    BY <1>0, <2>2, <2>3, <2>4, <2>5, <2>6 DEF MoneyInv
<1>4. CASE ReserveInsert(b)
  <2>1. PICK t \in TradeIds :
          /\ live.trades[t].out = "none"
          /\ live' = [live EXCEPT !.trades[t] =
                        [out |-> "open", bot |-> b,
                         cost |-> bot[b].cost, gain |-> bot[b].gain]]
    BY <1>4 DEF ReserveInsert, IsNextId, Free
  <2>2. /\ live'.bal = live.bal /\ live'.peak = live.peak
        /\ \A u \in TradeIds \ {t} : live'.trades[u] = live.trades[u]
    BY <1>0, <2>1 DEF Store
  <2>3. resolver.pc = "credit" => resolver.t \in TradeIds \ {t}
    BY <2>1 DEF TypeOK, Busy, Rows
  <2>4. \A a \in Bots : Funded(a)'
    BY <1>0, <1>4, <2>2 DEF ReserveInsert, Funded, MoneyInv
  <2> QED
    BY <1>0, <1>4, <2>2, <2>3, <2>4 DEF ReserveInsert, MoneyInv, Sound, UpToDate
<1>5. CASE ReserveCommit(b)
  <2>1. \A a \in Bots : Funded(a)'
    BY <1>0, <1>5 DEF ReserveCommit, Funded, MoneyInv
  <2> QED
    BY <1>0, <1>5, <2>1 DEF ReserveCommit, MoneyInv, Sound, UpToDate
<1>6. CASE DeductFee(b)
  <2>1. /\ live'.bal = [live.bal EXCEPT ![b] = @ - Gas]
        /\ live'.peak = live.peak /\ live'.trades = live.trades
        /\ disk' = disk /\ resolver' = resolver
    BY <1>0, <1>6 DEF DeductFee, Store
  <2>2. /\ live'.bal[b] <= live.bal[b] /\ live'.bal[b] >= 0
        /\ \A a \in Bots \ {b} : live'.bal[a] = live.bal[a]
    BY <1>0, <1>6, <2>1 DEF DeductFee, MoneyInv, Funded, Store
  <2>3. Sound(live)' /\ Sound(disk)'
    BY <1>0, <2>1, <2>2, LedgerAssumption DEF MoneyInv, Sound, Store
  <2>4. UpToDate'
    BY <1>0, <2>1, <2>2 DEF MoneyInv, UpToDate, Owned, TypeOK, Busy, ResolverState
  <2>5. \A a \in Bots : Funded(a)'
    BY <1>0, <1>6, <2>2 DEF DeductFee, Funded, MoneyInv
  <2> QED
    BY <1>0, <2>2, <2>3, <2>4, <2>5 DEF MoneyInv
<1>7. CASE FeeCommit(b) \/ BotFault(b)
  <2>1. \A a \in Bots : bot'[a] = bot[a] \/ bot'[a].pc = "idle"
    BY <1>0, <1>7 DEF FeeCommit, BotFault, Idle
  <2> QED
    BY <1>0, <1>7, <2>1, MoneyFrame DEF FeeCommit, BotFault
<1> QED
  BY <1>1, <1>2, <1>3, <1>4, <1>5, <1>6, <1>7 DEF BotStep

LEMMA ResolverKeepsMoney ==
  ASSUME TypeOK, TradeInv, MoneyInv, ResolverStep \/ ResolverFault
  PROVE  MoneyInv' /\ \A a \in Bots : live'.bal[a] >= live.bal[a]
<1>0. /\ live \in Store /\ resolver \in ResolverState
      /\ \A a \in Bots : live.bal[a] \in Int /\ live.peak[a] \in Int
  BY DEF TypeOK, Store
<1>1. CASE ReadBankroll
  <2>1. /\ resolver'.seen = live.bal[live.trades[resolver.t].bot]
        /\ resolver'.seenPeak = live.peak[live.trades[resolver.t].bot]
        /\ resolver'.t = resolver.t /\ live.trades[resolver.t].bot \in Bots
        /\ UNCHANGED <<live, disk, bot>>
    BY <1>0, <1>1 DEF ReadBankroll, ResolverState, TypeOK, Busy, Owned
  <2> QED
    BY <1>0, <2>1 DEF MoneyInv, Sound, UpToDate, Funded
<1>2. CASE Credit
  <2> DEFINE row == live.trades[resolver.t]
             balance == resolver.seen + row.cost + Pnl(row, resolver.outcome)
             peak == IF balance > resolver.seenPeak THEN balance
                     ELSE resolver.seenPeak
  <2>1. /\ row.bot \in Bots /\ row.cost \in Nat /\ row.gain \in Nat
        /\ resolver.seen \in Int /\ resolver.seenPeak \in Int
    BY <1>0, <1>2 DEF Credit, TypeOK, Busy, Owned, Rows, Store, Row, ResolverState
  <2>2. balance \in Int /\ balance >= resolver.seen
    BY <2>1 DEF Pnl
  <2>3. live.bal[row.bot] <= resolver.seen /\ live.peak[row.bot] = resolver.seenPeak
    BY <1>2 DEF Credit, MoneyInv, UpToDate
  <2>4. /\ live' = [live EXCEPT !.bal[row.bot] = balance, !.peak[row.bot] = peak,
                                !.paid[resolver.t] = @ + 1]
        /\ disk' = disk /\ bot' = bot /\ resolver'.pc = "commit"
    BY <1>0, <1>2 DEF Credit, ResolverState
  <2>5. peak \in Int /\ peak >= balance /\ peak >= live.peak[row.bot]
    BY <2>1, <2>2, <2>3
  <2> HIDE DEF row, balance, peak
  <2>6. /\ live'.bal = [live.bal EXCEPT ![row.bot] = balance]
        /\ live'.peak = [live.peak EXCEPT ![row.bot] = peak]
    BY <1>0, <2>1, <2>4 DEF Store
  <2>7. /\ live'.bal[row.bot] = balance /\ live'.peak[row.bot] = peak
        /\ \A a \in Bots \ {row.bot} : /\ live'.bal[a] = live.bal[a]
                                        /\ live'.peak[a] = live.peak[a]
    BY <1>0, <2>1, <2>6 DEF Store
  <2>8. \A a \in Bots : live'.bal[a] \in Int /\ live'.bal[a] >= live.bal[a]
    BY <1>0, <2>1, <2>2, <2>3, <2>7
  <2>9. Sound(live)' /\ Sound(disk)'
    BY <1>0, <2>1, <2>2, <2>3, <2>4, <2>5, <2>7, LedgerAssumption DEF MoneyInv, Sound
  <2>10. UpToDate'
    BY <2>4 DEF UpToDate
  <2>11. ASSUME NEW a \in Bots PROVE Funded(a)'
    <3>1. Funded(a) /\ bot[a].cost \in Nat /\ bot[a].seen \in Int
      BY DEF MoneyInv, TypeOK, BotState
    <3> QED
      BY <1>0, <2>4, <2>8, <3>1, LedgerAssumption DEF Funded
  <2> QED
    BY <2>8, <2>9, <2>10, <2>11 DEF MoneyInv
<1>3. CASE MarkOutcome \/ MarkVoid \/ \E t \in TradeIds : DeadLetter(t)
  <2>1. /\ live'.bal = live.bal /\ live'.peak = live.peak
        /\ UNCHANGED <<disk, bot>> /\ resolver'.pc # "credit"
    BY <1>0, <1>3 DEF MarkOutcome, MarkVoid, DeadLetter, Store, ResolverState
  <2> QED
    BY <1>0, <2>1, MoneyFrame
<1>4. CASE \/ Wake \/ StaleScan \/ Sleep \/ ResolverFault
           \/ \E t \in TradeIds : Unsettled(t)
           \/ \E t \in TradeIds, o \in Settled : Settle(t, o)
           \/ CommitOutcome \/ CommitVoid
  <2>1. live' = live /\ bot' = bot /\ disk' \in {live, disk}
    BY <1>4
    DEF Wake, StaleScan, Sleep, ResolverFault, Unsettled, Settle, CommitOutcome,
        CommitVoid
  <2>2. resolver'.pc \in {"next", "dlq", "sleep", "mark"}
    <3>1. CASE Wake \/ StaleScan \/ CommitOutcome \/ CommitVoid
      BY <1>0, <3>1
      DEF Wake, StaleScan, CommitOutcome, CommitVoid, ResolverState
    <3>2. CASE Sleep \/ ResolverFault
      BY <3>2 DEF Sleep, ResolverFault, Asleep
    <3>3. CASE \E t \in TradeIds : Unsettled(t)
      BY <1>0, <3>3 DEF Unsettled, ResolverState
    <3>4. CASE \E t \in TradeIds, o \in Settled : Settle(t, o)
      BY <1>0, <3>4 DEF Settle, ResolverState
    <3> QED
      BY <1>4, <3>1, <3>2, <3>3, <3>4
  <2> QED
    BY <1>0, <2>1, <2>2, MoneyFrame
<1> QED
  BY <1>1, <1>2, <1>3, <1>4 DEF ResolverStep

LEMMA MoneyInvariant == Spec => [](TypeOK /\ TradeInv /\ MoneyInv)
<1>1. Init => MoneyInv
  BY LedgerAssumption
  DEF Init, Seeded, Idle, Asleep, MoneyInv, Sound, UpToDate, Funded
<1>2. TypeOK /\ TradeInv /\ MoneyInv /\ [Next]_vars => MoneyInv'
  <2> SUFFICES ASSUME TypeOK, TradeInv, MoneyInv, [Next]_vars PROVE MoneyInv'
    OBVIOUS
  <2>1. CASE Restart
    BY <2>1 DEF Restart, Idle, Asleep, MoneyInv, Sound, UpToDate, Funded
  <2>2. CASE BackgroundCommit \/ (\E t \in TradeIds : Age(t)) \/ UNCHANGED vars
    BY <2>2, MoneyFrame DEF BackgroundCommit, Age, vars
  <2> QED
    BY <2>1, <2>2, BotKeepsMoney, ResolverKeepsMoney DEF Next
<1> QED
  BY <1>1, <1>2, TradesInvariant, PTL DEF Spec

(* Solvency holds although the reservation writes a balance it computed    *)
(* from an old one and the fee has no guard of its own.                    *)
THEOREM LedgerSolvent == Spec => []Solvency
<1>1. MoneyInv => Solvency
  BY DEF MoneyInv, Sound, Solvency
<1> QED
  BY <1>1, MoneyInvariant, PTL

(* PeakIsHighWater holds although peak and balance are written from values *)
(* read an await earlier.                                                  *)
THEOREM LedgerPeakIsHighWater == Spec => []PeakIsHighWater
<1>1. MoneyInv => PeakIsHighWater
  BY DEF MoneyInv, Sound, PeakIsHighWater
<1> QED
  BY <1>1, MoneyInvariant, PTL

(* A resolver step never lowers a bankroll.                                *)
THEOREM LedgerResolverNeverDebits == Spec => ResolverNeverDebits
<1>1. TypeOK /\ TradeInv /\ MoneyInv /\ [Next]_vars
        => [resolver' # resolver /\ crashes' = crashes
              => \A b \in Bots : live'.bal[b] >= live.bal[b]]_vars
  <2> SUFFICES ASSUME TypeOK, TradeInv, MoneyInv, Next,
                      resolver' # resolver, crashes' = crashes
               PROVE  \A b \in Bots : live'.bal[b] >= live.bal[b]
    OBVIOUS
  <2>1. ~ Restart
    BY LedgerAssumption DEF Restart, TypeOK
  <2>2. ~ \E b \in Bots : BotStep(b) \/ BotFault(b)
    BY DEF BotStep, Gate, ReserveSelect, ReserveUpdate, ReserveInsert,
           ReserveCommit, DeductFee, FeeCommit, BotFault
  <2>3. ResolverStep \/ ResolverFault
    BY <2>1, <2>2 DEF Next, BackgroundCommit, Age
  <2> QED
    BY <2>3, ResolverKeepsMoney
<1> QED
  BY <1>1, MoneyInvariant, PTL DEF Spec, ResolverNeverDebits

(* A bot step never raises a bankroll.                                     *)
THEOREM LedgerBotNeverCredits == Spec => BotNeverCredits
<1>1. TypeOK /\ TradeInv /\ MoneyInv /\ [Next]_vars
        => [bot' # bot /\ crashes' = crashes
              => \A b \in Bots : live'.bal[b] <= live.bal[b]]_vars
  <2> SUFFICES ASSUME TypeOK, TradeInv, MoneyInv, Next,
                      bot' # bot, crashes' = crashes
               PROVE  \A b \in Bots : live'.bal[b] <= live.bal[b]
    OBVIOUS
  <2>1. ~ Restart
    BY LedgerAssumption DEF Restart, TypeOK
  <2>2. ~ (ResolverStep \/ ResolverFault)
    BY DEF ResolverStep, Wake, Unsettled, Settle, MarkOutcome, ReadBankroll,
           Credit, CommitOutcome, StaleScan, DeadLetter, MarkVoid, CommitVoid,
           Sleep, ResolverFault
  <2>3. \E b \in Bots : BotStep(b) \/ BotFault(b)
    BY <2>1, <2>2 DEF Next, BackgroundCommit, Age
  <2> QED
    BY <2>3, BotKeepsMoney
<1> QED
  BY <1>1, MoneyInvariant, PTL DEF Spec, BotNeverCredits

(* Stale writes go one way, for any number of bots, faults and restarts.   *)
THEOREM LedgerMoneyFlows == Spec => MoneyFlows
  BY LedgerResolverNeverDebits, LedgerBotNeverCredits DEF MoneyFlows
=============================================================================
