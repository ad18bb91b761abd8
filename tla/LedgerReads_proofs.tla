--------------------------- MODULE LedgerReads_proofs ---------------------------
(***************************************************************************)
(* Proofs about what the ledger's readers add up and rely on: the books     *)
(* balance, no fill turns a position around, a paper order has one outcome, *)
(* on the first candle that touches it, an account without a short trade    *)
(* never owes money, and a read replays the fills to the account.  On top   *)
(* of the invariant of ExecutionGateway_proofs and the laws of Sums_proofs. *)
(***************************************************************************)
EXTENDS LedgerReads, ExecutionGateway_proofs, Sums_proofs

-----------------------------------------------------------------------------
(* What a fill does to the account *)

\* k is the trade the fill is filed under, u what it was before (if it was).
FillEffect(account, new, event) ==
    LET p == account.pos[event.sym]
        q == new.pos[event.sym]
        len == Len(account.trades)
        t == new.trades[q.trade]
        u == account.trades[p.trade]
    IN  /\ q.trade = IF p.qty = 0 THEN len + 1 ELSE p.trade
        /\ Len(new.trades) = IF p.qty = 0 THEN len + 1 ELSE len
        /\ \A i \in 1..len : i # q.trade => new.trades[i] = account.trades[i]
        /\ t.sym = event.sym /\ t.dir = q.dir
        /\ q.dir = IF p.qty = 0 THEN Direction(event.side) ELSE p.dir
        /\ p.qty # 0 => u.sym = event.sym /\ u.dir = p.dir
        /\ t.flow = SignedNotional(event) + (IF p.qty = 0 THEN 0 ELSE u.flow)
        /\ new.cash = account.cash + (t.gross - t.fees)
                        - (IF p.qty = 0 THEN 0 ELSE u.gross - u.fees)
        /\ \A s \in Symbols : s # event.sym => new.pos[s] = account.pos[s]
        /\ q.qty = IF p.qty = 0 THEN event.qty
                   ELSE IF p.dir = Direction(event.side) THEN p.qty + event.qty
                   ELSE p.qty - event.qty
        /\ q.qty = 0 => q.basis = 0
        /\ Increasing(account, event) =>
             /\ new.cash = account.cash - event.fee
             /\ q.basis = (IF p.qty = 0 THEN 0 ELSE p.basis) + Notional(event)
        /\ ~Increasing(account, event) /\ p.dir = "LONG" =>
             new.cash - q.basis = account.cash - p.basis + Notional(event) - event.fee

\* A fill on a flat symbol opens a trade.
LEMMA OpenFillEffect ==
    ASSUME NEW account, AccountInv(account), NEW event \in EventType,
           account.pos[event.sym].qty = 0
    PROVE  FillEffect(account, OpenFill(account, event), event)
<1> DEFINE t == [sym |-> event.sym, dir |-> Direction(event.side),
                 entry |-> Notional(event), gross |-> 0, fees |-> event.fee,
                 openedAt |-> event.filledAt, closedAt |-> Never,
                 flow |-> SignedNotional(event)]
           q == [dir |-> Direction(event.side), trade |-> Len(account.trades) + 1,
                 qty |-> event.qty, basis |-> Notional(event)]
           cash == account.cash + CashChange(0, event)
           n == Len(account.trades)
<1>1. /\ account \in AccountType /\ account.trades \in Seq(TradeType) /\ n \in Nat
      /\ account.cash \in Int /\ account.pos \in [Symbols -> PositionType]
  BY DEF AccountInv, AccountType
<1>2. PICK new : new = OpenFill(account, event)
  OBVIOUS
<1>3. /\ new.trades = Append(account.trades, t)
      /\ new.pos = [account.pos EXCEPT ![event.sym] = q]
      /\ new.cash = cash
  BY <1>1, <1>2 DEF OpenFill, AccountType
<1>4. /\ event.sym \in Symbols /\ event.fee \in Nat /\ event.qty \in Nat \ {0}
      /\ Notional(event) \in Nat /\ SignedNotional(event) \in Int
  BY EventFacts
<1>5. t \in TradeType
  BY <1>1, EventFacts DEF TradeType, Never
<1>6. /\ t.sym = event.sym /\ t.dir = Direction(event.side) /\ t.gross = 0
      /\ t.fees = event.fee /\ t.flow = SignedNotional(event)
      /\ q.trade = n + 1 /\ q.dir = Direction(event.side) /\ q.qty = event.qty
      /\ q.basis = Notional(event) /\ cash = account.cash - event.fee
  BY <1>1, <1>4 DEF CashChange
<1> HIDE DEF t, q, cash
<1>7. /\ Len(new.trades) = n + 1 /\ new.trades[n + 1] = t
      /\ \A i \in 1..n : new.trades[i] = account.trades[i]
  BY <1>1, <1>3, <1>5, AppendProperties
<1>8. new.pos[event.sym] = q /\ \A s \in Symbols : s # event.sym => new.pos[s] = account.pos[s]
  BY <1>1, <1>3, <1>4
<1>9. Increasing(account, event)
  BY DEF Increasing
<1>10. FillEffect(account, new, event)
  BY <1>1, <1>3, <1>4, <1>6, <1>7, <1>8, <1>9, SMTT(30) DEF FillEffect
<1> QED BY <1>2, <1>10

\* A fill in the direction of the position adds to it.
LEMMA IncreaseFillEffect ==
    ASSUME NEW account, AccountInv(account), NEW event \in EventType,
           account.pos[event.sym].qty # 0, Increasing(account, event)
    PROVE  FillEffect(account, IncreaseFill(account, event), event)
<1> DEFINE p == account.pos[event.sym]
           u == account.trades[p.trade]
           t == [u EXCEPT !.entry = @ + Notional(event), !.fees = @ + event.fee,
                          !.flow = @ + SignedNotional(event)]
           q == [p EXCEPT !.qty = @ + event.qty, !.basis = @ + Notional(event)]
           cash == account.cash + CashChange(0, event)
<1>1. account \in AccountType /\ account.cash \in Int /\ Len(account.trades) \in Nat
  BY DEF AccountInv, AccountType
<1>2. PICK new : new = IncreaseFill(account, event)
  OBVIOUS
<1>3. /\ new.trades = [account.trades EXCEPT ![p.trade] = t]
      /\ new.pos = [account.pos EXCEPT ![event.sym] = q]
      /\ new.cash = cash
  BY <1>1, <1>2 DEF IncreaseFill, AccountType
<1>4. /\ event.sym \in Symbols /\ event.fee \in Nat /\ event.qty \in Nat \ {0}
      /\ Notional(event) \in Nat /\ SignedNotional(event) \in Int
  BY EventFacts
<1>5. p \in PositionType /\ u \in TradeType /\ u.sym = event.sym /\ u.dir = p.dir
  BY <1>4, OpenTradeFacts
<1>6. p.dir = Direction(event.side)
  BY DEF Increasing
<1>7. /\ p.qty \in Nat /\ p.basis \in Nat /\ u.gross \in Int /\ u.fees \in Nat /\ u.flow \in Int
      /\ u.entry \in Nat
  BY <1>5 DEF PositionType, TradeType
<1> HIDE DEF p, u
<1>8. t \in TradeType /\ q \in PositionType
  <2>1. /\ u.entry + Notional(event) \in Nat /\ u.fees + event.fee \in Nat
        /\ u.flow + SignedNotional(event) \in Int
        /\ p.qty + event.qty \in Nat /\ p.basis + Notional(event) \in Nat
    BY <1>4, <1>7
  <2> QED BY <1>5, <2>1 DEF TradeType, PositionType
<1>9. /\ t.sym = event.sym /\ t.dir = p.dir /\ t.gross = u.gross
      /\ t.fees = u.fees + event.fee /\ t.flow = u.flow + SignedNotional(event)
      /\ q.trade = p.trade /\ q.dir = p.dir /\ q.qty = p.qty + event.qty
      /\ q.basis = p.basis + Notional(event) /\ cash = account.cash - event.fee
  BY <1>1, <1>4, <1>5, SMTT(30) DEF CashChange, TradeType, PositionType
<1> HIDE DEF t, q, cash
<1>10. /\ Len(new.trades) = Len(account.trades) /\ new.trades[p.trade] = t
       /\ \A i \in 1..Len(account.trades) : i # p.trade => new.trades[i] = account.trades[i]
       /\ new.pos[event.sym] = q
       /\ \A s \in Symbols : s # event.sym => new.pos[s] = account.pos[s]
  <2>1. /\ account.trades \in Seq(TradeType) /\ account.pos \in [Symbols -> PositionType]
        /\ p.trade \in 1..Len(account.trades)
    BY <1>4 DEF AccountInv, AccountType, PositionsNameTheirTrades, p
  <2>2. /\ Len(new.trades) = Len(account.trades) /\ new.trades[p.trade] = t
        /\ \A i \in 1..Len(account.trades) : i # p.trade => new.trades[i] = account.trades[i]
    BY <1>3, <1>8, <2>1, ExceptSeq
  <2> QED BY <1>3, <1>4, <2>1, <2>2
<1>11. p.qty # 0 /\ q.qty # 0
  BY <1>4, <1>7, <1>9 DEF p
<1>12. new.cash = account.cash + (t.gross - t.fees) - (u.gross - u.fees)
  <2>1. new.cash = account.cash - event.fee
    BY <1>3, <1>9
  <2>2. t.gross = u.gross /\ t.fees = u.fees + event.fee /\ t.fees \in Nat /\ t.gross \in Int
    BY <1>4, <1>7, <1>9
  <2>3. account.cash \in Int /\ event.fee \in Nat /\ u.gross \in Int /\ u.fees \in Nat
    BY <1>1, <1>4, <1>7
  <2> QED BY ONLY <2>1, <2>2, <2>3
<1>13. t.flow = SignedNotional(event) + u.flow
  BY <1>4, <1>7, <1>9
<1>14. FillEffect(account, new, event)
  BY <1>3, <1>5, <1>6, <1>9, <1>10, <1>11, <1>12, <1>13 DEF FillEffect, p, u
<1> QED BY <1>2, <1>14

\* A fill against the position reduces or closes it.
LEMMA ReduceFillEffect ==
    ASSUME NEW account, AccountInv(account), NEW event \in EventType,
           account.pos[event.sym].qty # 0, ~Increasing(account, event),
           event.qty <= account.pos[event.sym].qty,
           Allocated(account.pos[event.sym], event.qty) <= account.pos[event.sym].basis
    PROVE  FillEffect(account, ReduceFill(account, event), event)
<1> DEFINE p == account.pos[event.sym]
           u == account.trades[p.trade]
           allocated == Allocated(p, event.qty)
           gross == IF p.dir = "LONG" THEN Notional(event) - allocated
                                      ELSE allocated - Notional(event)
           t == [u EXCEPT !.gross = @ + gross, !.fees = @ + event.fee,
                          !.closedAt = CloseTime(p, event),
                          !.flow = @ + SignedNotional(event)]
           q == [p EXCEPT !.qty = @ - event.qty, !.basis = @ - allocated]
           cash == account.cash + CashChange(gross, event)
<1>1. account \in AccountType /\ account.cash \in Int /\ Len(account.trades) \in Nat
  BY DEF AccountInv, AccountType
<1>2. PICK new : new = ReduceFill(account, event)
  OBVIOUS
<1>3. /\ new.trades = [account.trades EXCEPT ![p.trade] = t]
      /\ new.pos = [account.pos EXCEPT ![event.sym] = q]
      /\ new.cash = cash
  BY <1>1, <1>2 DEF ReduceFill, AccountType
<1>4. /\ event.sym \in Symbols /\ event.fee \in Nat /\ event.qty \in Nat \ {0}
      /\ Notional(event) \in Nat /\ SignedNotional(event) \in Int
  BY EventFacts
<1>5. p \in PositionType /\ u \in TradeType /\ u.sym = event.sym /\ u.dir = p.dir
  BY <1>4, OpenTradeFacts
<1>6. p.dir # Direction(event.side) /\ p.qty # 0
  BY DEF Increasing
<1>7. /\ p.qty \in Nat /\ p.basis \in Nat /\ u.gross \in Int /\ u.fees \in Nat /\ u.flow \in Int
  BY <1>5 DEF PositionType, TradeType
<1>8. /\ allocated \in Int /\ allocated <= p.basis /\ event.qty <= p.qty
      /\ event.qty = p.qty => allocated = p.basis
  BY <1>4, <1>5, AllocatedInt DEF Allocated
<1> HIDE DEF p, u, allocated
<1>9. gross \in Int /\ (p.dir = "LONG" => gross = Notional(event) - allocated)
  BY <1>4, <1>8
<1> HIDE DEF gross
<1>10. t \in TradeType /\ q \in PositionType
  <2>1. q \in PositionType
    <3>1. p.qty - event.qty \in Nat /\ p.basis - allocated \in Nat
      BY <1>4, <1>7, <1>8
    <3> QED BY <1>5, <3>1 DEF PositionType
  <2>2. /\ u.gross + gross \in Int /\ u.fees + event.fee \in Nat
        /\ u.flow + SignedNotional(event) \in Int
        /\ CloseTime(p, event) \in Nat
    BY <1>4, <1>7, <1>9, EventFacts DEF Never, CloseTime
  <2>3. t \in TradeType
    BY <1>5, <2>2 DEF TradeType
  <2> QED BY <2>1, <2>3
<1>11. /\ t.sym = event.sym /\ t.dir = p.dir /\ t.gross = u.gross + gross
       /\ t.fees = u.fees + event.fee /\ t.flow = u.flow + SignedNotional(event)
       /\ q.trade = p.trade /\ q.dir = p.dir /\ q.qty = p.qty - event.qty
       /\ q.basis = p.basis - allocated /\ cash = account.cash + (gross - event.fee)
  BY <1>1, <1>5 DEF CashChange, TradeType, PositionType
<1> HIDE DEF t, q, cash
<1>12. /\ Len(new.trades) = Len(account.trades) /\ new.trades[p.trade] = t
       /\ \A i \in 1..Len(account.trades) : i # p.trade => new.trades[i] = account.trades[i]
       /\ new.pos[event.sym] = q
       /\ \A s \in Symbols : s # event.sym => new.pos[s] = account.pos[s]
  <2>1. /\ account.trades \in Seq(TradeType) /\ account.pos \in [Symbols -> PositionType]
        /\ p.trade \in 1..Len(account.trades)
    BY <1>4 DEF AccountInv, AccountType, PositionsNameTheirTrades, p
  <2>2. /\ Len(new.trades) = Len(account.trades) /\ new.trades[p.trade] = t
        /\ \A i \in 1..Len(account.trades) : i # p.trade => new.trades[i] = account.trades[i]
    BY <1>3, <1>10, <2>1, ExceptSeq
  <2> QED BY <1>3, <1>4, <2>1, <2>2
<1>13. q.qty = 0 => q.basis = 0
  <2>1. event.qty \in Nat /\ p.qty \in Nat /\ p.basis \in Nat /\ allocated \in Int
    BY <1>4, <1>7, <1>8
  <2>2. p.qty - event.qty = 0 => event.qty = p.qty
    BY ONLY <2>1
  <2>3. allocated = p.basis => p.basis - allocated = 0
    BY ONLY <2>1
  <2> QED BY <1>8, <1>11, <2>2, <2>3
<1>14. new.cash = account.cash + (t.gross - t.fees) - (u.gross - u.fees)
  <2>1. new.cash = account.cash + (gross - event.fee)
    BY <1>3, <1>11
  <2>2. /\ t.gross = u.gross + gross /\ t.fees = u.fees + event.fee /\ t.fees \in Nat
        /\ t.gross \in Int
    BY <1>4, <1>7, <1>9, <1>11
  <2>3. /\ account.cash \in Int /\ event.fee \in Nat /\ u.gross \in Int /\ u.fees \in Nat
        /\ gross \in Int
    BY <1>1, <1>4, <1>7, <1>9
  <2> QED BY ONLY <2>1, <2>2, <2>3
<1>15. t.flow = SignedNotional(event) + u.flow
  BY <1>4, <1>7, <1>11
<1>16. p.dir = "LONG" =>
         new.cash - q.basis = account.cash - p.basis + Notional(event) - event.fee
  <2> SUFFICES ASSUME p.dir = "LONG"
               PROVE  new.cash - q.basis = account.cash - p.basis + Notional(event) - event.fee
    OBVIOUS
  <2>1. new.cash = account.cash + (Notional(event) - allocated - event.fee)
    BY <1>3, <1>9, <1>11
  <2>2. q.basis = p.basis - allocated
    BY <1>11
  <2>3. /\ account.cash \in Int /\ event.fee \in Nat /\ p.basis \in Nat /\ allocated \in Int
        /\ Notional(event) \in Nat
    BY <1>1, <1>4, <1>7, <1>8
  <2> QED BY ONLY <2>1, <2>2, <2>3
<1>17. FillEffect(account, new, event)
  BY <1>3, <1>5, <1>6, <1>11, <1>12, <1>13, <1>14, <1>15, <1>16 DEF FillEffect, p, u
<1> QED BY <1>2, <1>17

\* What an accepted fill does to the account.
LEMMA ApplyFillEffect ==
    ASSUME NEW account, AccountInv(account), NEW event \in EventType,
           FillError(account, event) = "none"
    PROVE  FillEffect(account, ApplyFill(account, event), event)
<1> DEFINE p == account.pos[event.sym]
<1>1. PICK booked : booked = IF p.qty = 0 THEN OpenFill(account, event)
                             ELSE IF Increasing(account, event) THEN IncreaseFill(account, event)
                             ELSE ReduceFill(account, event)
  OBVIOUS
<1>2. ApplyFill(account, event)
        = [booked EXCEPT !.lastSeq = event.seq, !.lastFilled = event.filledAt,
                         !.updated = event.receivedAt]
  BY <1>1 DEF ApplyFill
<1>3. FillEffect(account, booked, event) /\ AccountInv(booked)
  <2>1. CASE p.qty = 0
    BY <1>1, <2>1, OpenFillInv, OpenFillEffect
  <2>2. CASE p.qty # 0 /\ Increasing(account, event)
    BY <1>1, <2>2, IncreaseFillInv, IncreaseFillEffect
  <2>3. CASE p.qty # 0 /\ ~Increasing(account, event)
    <3>1. p \in PositionType
      BY EventFacts DEF AccountInv, AccountType
    <3>2. Allocated(p, event.qty) \in Int /\ p.basis \in Nat /\ p.qty \in Nat
          /\ event.qty \in Nat
      BY <3>1, <2>3, AllocatedInt, EventFacts DEF PositionType
    <3>3. event.qty <= p.qty /\ Allocated(p, event.qty) <= p.basis
      BY <3>2, <2>3, FillErrorFacts
    <3> QED BY <1>1, <2>3, <3>3, ReduceFillInv, ReduceFillEffect
  <2> QED BY <2>1, <2>2, <2>3
<1>4. PICK new : new = ApplyFill(account, event)
  OBVIOUS
<1>5. new.pos = booked.pos /\ new.trades = booked.trades /\ new.cash = booked.cash
  BY <1>2, <1>3, <1>4 DEF AccountInv, AccountType
<1>6. FillEffect(account, new, event)
  BY <1>3, <1>5 DEF FillEffect
<1> QED BY <1>4, <1>6

-----------------------------------------------------------------------------
(* The books, committed or in a transaction *)

\* A reduce-only order names a trade of its symbol that it goes against.
BoundTrade(account, o) ==
    o.reduceOnly => /\ o.bound \in 1..Len(account.trades)
                    /\ account.trades[o.bound].sym = o.intent.sym
                    /\ account.trades[o.bound].dir # Direction(o.intent.side)

OrdersKept(rows) ==
    \A c \in Commands : /\ BoundTrade(rows.acct, rows.orders[c])
                        /\ ~Exists(rows.orders[c]) => rows.orders[c].filled = 0

\* A fill keeps the contract of its order.
FillKept(rows, f) ==
    LET o == rows.orders[f.order]
    IN  /\ Exists(o) /\ f.sym = o.intent.sym /\ f.side = o.intent.side
        /\ f.role = (IF o.reduceOnly THEN "EXIT" ELSE "ENTRY")
        /\ o.reduceOnly => f.trade = o.bound
        /\ f.trade \in 1..Len(rows.acct.trades)
        /\ rows.acct.trades[f.trade].sym = f.sym
        /\ (f.role = "ENTRY") <=> (rows.acct.trades[f.trade].dir = Direction(f.side))

FillsKept(rows) == \A i \in 1..Len(rows.fills) : FillKept(rows, rows.fills[i])

\* No connector charges more for a fill than the fill is worth.  Paper fees are
\* a thousandth of it.
FeesBelowNotional ==
    AcceptsExternalFills => \A e \in Events : e.fee <= Milli * e.price * e.qty

Collateralised(account) ==
    /\ \A s \in Symbols : account.pos[s].qty = 0 => account.pos[s].basis = 0
    /\ FeesBelowNotional /\ (\A n \in 1..Len(account.trades) : account.trades[n].dir = "LONG")
         => Available(account) >= 0

LedgerInv(rows) ==
    /\ OrdersKept(rows) /\ FillsKept(rows) /\ Collateralised(rows.acct)
    /\ CashReconciles(rows) /\ PositionsReconcile(rows)
    /\ FlowsReconcile(rows) /\ OrdersReconcile(rows)

\* The refusals of admit that look at the position.
LEMMA AdmitPositionFacts ==
    ASSUME NEW rows, NEW event, AdmitError(rows, event) = "none"
    PROVE  ~StaleReduction(rows, event) /\ ~StaleOpening(rows, event)
BY DEF AdmitError

\* The rows an admitted fill leaves behind.
Admitted(rows, new, event) ==
    LET n == Len(rows.fills)
        o == rows.orders[event.order]
        m == new.orders[event.order]
    IN  /\ AccountInv(new.acct) /\ FillEffect(rows.acct, new.acct, event)
        /\ n \in Nat /\ Len(new.fills) = n + 1
        /\ new.fills[n + 1] = FillRow(new.acct, event)
        /\ \A i \in 1..n : new.fills[i] = rows.fills[i]
        /\ \A c \in Commands : c # event.order => new.orders[c] = rows.orders[c]
        /\ m = [o EXCEPT !.filled = o.filled + event.qty]

\* admit writes the account, one fill and the quantity of one order.
LEMMA AdmitShape ==
    ASSUME NEW rows, RowsInv(rows), NEW event \in EventType,
           AdmitError(rows, event) = "none"
    PROVE  Admitted(rows, Admit(rows, event), event)
<1> DEFINE account == ApplyFill(rows.acct, event)
           row == FillRow(account, event)
           o == rows.orders[event.order]
           m == [o EXCEPT !.filled = o.filled + event.qty]
           n == Len(rows.fills)
<1>1. /\ rows \in RowsType /\ rows.fills \in Seq(FillType) /\ n \in Nat
      /\ rows.orders \in [Commands -> OrderType] /\ AccountInv(rows.acct)
  BY DEF RowsInv, RowsType
<1>2. event.order \in Commands
  BY EventFacts
<1>3. FillEffect(rows.acct, account, event) /\ AccountInv(account)
  BY <1>1, AdmitErrorFacts, ApplyFillEffect, ApplyFillInv
<1>4. PICK new : new = Admit(rows, event)
  OBVIOUS
<1>5. /\ new.acct = account /\ new.fills = Append(rows.fills, row)
      /\ new.orders = [rows.orders EXCEPT ![event.order] = m]
  BY <1>1, <1>4 DEF Admit, RowsType
<1> HIDE DEF account, row, m
<1>6. /\ Len(new.fills) = n + 1 /\ new.fills[n + 1] = row
      /\ \A i \in 1..n : new.fills[i] = rows.fills[i]
  <2>1. rows.fills \in Seq(FillType \cup {row}) /\ row \in FillType \cup {row}
    BY <1>1
  <2> QED BY <1>5, <2>1, AppendProperties
<1>7. /\ new.orders[event.order] = m
      /\ \A c \in Commands : c # event.order => new.orders[c] = rows.orders[c]
  BY <1>1, <1>2, <1>5
<1>8. Admitted(rows, new, event)
  BY <1>1, <1>3, <1>5, <1>6, <1>7 DEF Admitted, row, m
<1> QED BY <1>4, <1>8

\* What the lemmas below assume: an admitted fill of the order's own contract.
Admission(rows, new, event) ==
    /\ RowsInv(rows) /\ event \in EventType /\ AdmitError(rows, event) = "none"
    /\ event.sym = rows.orders[event.order].intent.sym
    /\ event.side = rows.orders[event.order].intent.side
    /\ Admitted(rows, new, event)

\* A trade keeps its symbol and direction, and a fill is filed under a trade.
LEMMA TradesKept ==
    ASSUME NEW rows, NEW new, NEW event, Admission(rows, new, event)
    PROVE  LET len == Len(rows.acct.trades)
               q == new.acct.pos[event.sym]
           IN  /\ len \in Nat /\ Len(new.acct.trades) \in {len, len + 1}
               /\ q.trade \in 1..Len(new.acct.trades)
               /\ \A i \in 1..len : /\ i \in 1..Len(new.acct.trades)
                                    /\ new.acct.trades[i].sym = rows.acct.trades[i].sym
                                    /\ new.acct.trades[i].dir = rows.acct.trades[i].dir
<1> DEFINE p == rows.acct.pos[event.sym]
           q == new.acct.pos[event.sym]
           len == Len(rows.acct.trades)
           old == rows.acct.trades
           trades == new.acct.trades
<1>1. /\ AccountInv(rows.acct) /\ event.sym \in Symbols /\ len \in Nat
      /\ FillEffect(rows.acct, new.acct, event)
  <2>1. /\ AccountInv(rows.acct) /\ event.sym \in Symbols
        /\ FillEffect(rows.acct, new.acct, event)
    BY EventFacts DEF Admission, Admitted, RowsInv
  <2>2. len \in Nat
    BY <2>1 DEF AccountInv, AccountType
  <2> QED BY <2>1, <2>2
<1>2. /\ q.trade = IF p.qty = 0 THEN len + 1 ELSE p.trade
      /\ Len(trades) = IF p.qty = 0 THEN len + 1 ELSE len
      /\ \A i \in 1..len : i # q.trade => trades[i] = old[i]
      /\ trades[q.trade].sym = event.sym /\ trades[q.trade].dir = q.dir
      /\ p.qty # 0 => old[p.trade].sym = event.sym /\ old[p.trade].dir = p.dir /\ q.dir = p.dir
  BY <1>1 DEF FillEffect
<1>3. p.qty # 0 => p.trade \in 1..len
  BY <1>1 DEF AccountInv, PositionsNameTheirTrades
<1> HIDE DEF p, q, len, old, trades
<1>4. CASE p.qty = 0
  BY <1>1, <1>2, <1>4, SMTT(30) DEF p, q, len, old, trades
<1>5. CASE p.qty # 0
  BY <1>1, <1>2, <1>3, <1>5 DEF p, q, len, old, trades
<1> QED BY <1>4, <1>5

\* The order a fill is admitted for keeps its contract.
LEMMA ContractKept ==
    ASSUME NEW rows, NEW new, NEW event, Admission(rows, new, event), NEW c \in Commands
    PROVE  LET o == rows.orders[c]
               m == new.orders[c]
           IN  /\ m.st = o.st /\ m.intent = o.intent /\ m.reduceOnly = o.reduceOnly
               /\ m.bound = o.bound /\ m.acceptedAt = o.acceptedAt
               /\ m.cancelledAt = o.cancelledAt /\ m.lastObs = o.lastObs
               /\ m.filled = o.filled + (IF c = event.order THEN event.qty ELSE 0)
               /\ o.filled \in Nat
               /\ c = event.order => Exists(o)
<1> DEFINE o == rows.orders[c]
           m == new.orders[c]
<1>1. o \in OrderType /\ event.qty \in Nat /\ o.filled \in Nat
  BY OrdersTyped, EventFacts DEF Admission, OrderType
<1>2. CASE c = event.order
  <2>1. m = [o EXCEPT !.filled = o.filled + event.qty]
    BY <1>2 DEF Admission, Admitted
  <2>2. o.named /\ WellNamed(o)
    BY <1>2, AdmitErrorFacts DEF Admission, RowsInv, OrderInv
  <2> QED BY <1>1, <1>2, <2>1, <2>2 DEF OrderType, WellNamed
<1>3. CASE c # event.order
  <2>1. m = o
    BY <1>3 DEF Admission, Admitted
  <2> QED BY <1>1, <1>3, <2>1
<1> QED BY <1>2, <1>3

\* Orders stay bound to a trade that they go against.
LEMMA AdmitOrdersKept ==
    ASSUME NEW rows, NEW new, NEW event, Admission(rows, new, event), OrdersKept(rows)
    PROVE  OrdersKept(new)
<1> SUFFICES ASSUME NEW c \in Commands
             PROVE  /\ BoundTrade(new.acct, new.orders[c])
                    /\ ~Exists(new.orders[c]) => new.orders[c].filled = 0
  BY DEF OrdersKept
<1> DEFINE o == rows.orders[c]
           m == new.orders[c]
<1>1. /\ m.st = o.st /\ m.intent = o.intent /\ m.reduceOnly = o.reduceOnly
      /\ m.bound = o.bound /\ o.filled \in Nat
      /\ m.filled = o.filled + (IF c = event.order THEN event.qty ELSE 0)
      /\ c = event.order => Exists(o)
  BY ContractKept
<1>2. BoundTrade(rows.acct, o) /\ (~Exists(o) => o.filled = 0)
  BY DEF OrdersKept
<1>3. BoundTrade(new.acct, m)
  <2>1. \A i \in 1..Len(rows.acct.trades) : /\ i \in 1..Len(new.acct.trades)
                                            /\ new.acct.trades[i].sym = rows.acct.trades[i].sym
                                            /\ new.acct.trades[i].dir = rows.acct.trades[i].dir
    BY TradesKept
  <2> HIDE DEF o, m
  <2>2. CASE o.reduceOnly
    BY <1>1, <1>2, <2>1, <2>2 DEF BoundTrade
  <2>3. CASE ~o.reduceOnly
    BY <1>1, <2>3 DEF BoundTrade
  <2> QED BY <2>2, <2>3
<1>4. ~Exists(m) => m.filled = 0
  BY <1>1, <1>2 DEF Exists
<1> QED BY <1>3, <1>4

\* Every fill, the admitted one included, keeps the contract of its order.
LEMMA AdmitFillsKept ==
    ASSUME NEW rows, NEW new, NEW event, Admission(rows, new, event),
           OrdersKept(rows), FillsKept(rows)
    PROVE  FillsKept(new)
<1> DEFINE n == Len(rows.fills)
           p == rows.acct.pos[event.sym]
           q == new.acct.pos[event.sym]
           o == rows.orders[event.order]
<1>1. /\ n \in Nat /\ Len(new.fills) = n + 1 /\ new.fills[n + 1] = FillRow(new.acct, event)
      /\ \A i \in 1..n : new.fills[i] = rows.fills[i]
  BY DEF Admission, Admitted
<1> SUFFICES ASSUME NEW i \in 1..n + 1 PROVE FillKept(new, new.fills[i])
  BY <1>1 DEF FillsKept
<1>2. CASE i \in 1..n
  <2> DEFINE f == rows.fills[i]
  <2>1. f \in FillType /\ f.order \in Commands
    <3>1. f \in FillType
      BY <1>2 DEF Admission, RowsInv, RowsType
    <3> QED BY <3>1 DEF FillType
  <2>2. FillKept(rows, f) /\ new.fills[i] = f
    BY <1>1, <1>2 DEF FillsKept
  <2>3. LET a == rows.orders[f.order]
            m == new.orders[f.order]
        IN  /\ m.st = a.st /\ m.intent = a.intent /\ m.reduceOnly = a.reduceOnly
            /\ m.bound = a.bound
    BY <2>1, ContractKept
  <2> HIDE DEF f
  <2>4. FillKept(new, f)
    <3>1. \A j \in 1..Len(rows.acct.trades) : /\ j \in 1..Len(new.acct.trades)
                                              /\ new.acct.trades[j].sym = rows.acct.trades[j].sym
                                              /\ new.acct.trades[j].dir = rows.acct.trades[j].dir
      BY TradesKept
    <3>2. CASE rows.orders[f.order].reduceOnly
      BY <2>2, <2>3, <3>1, <3>2 DEF FillKept, Exists
    <3>3. CASE ~rows.orders[f.order].reduceOnly
      BY <2>2, <2>3, <3>1, <3>3 DEF FillKept, Exists
    <3> QED BY <3>2, <3>3
  <2> QED BY <2>2, <2>4
<1>3. CASE i = n + 1
  <2> DEFINE f == new.fills[i]
             m == new.orders[event.order]
  <2>1. /\ f.order = event.order /\ f.sym = event.sym /\ f.side = event.side
        /\ f.trade = q.trade
        /\ f.role = IF q.dir = Direction(event.side) THEN "ENTRY" ELSE "EXIT"
    BY <1>1, <1>3 DEF FillRow
  <2>2. event.order \in Commands /\ event.sym \in Symbols
    BY EventFacts DEF Admission
  <2>3. /\ Exists(m) /\ m.intent = o.intent /\ m.reduceOnly = o.reduceOnly /\ m.bound = o.bound
    BY <2>2, ContractKept DEF Exists
  <2>4. event.sym = o.intent.sym /\ event.side = o.intent.side
        /\ ~StaleReduction(rows, event) /\ ~StaleOpening(rows, event)
    BY AdmitPositionFacts DEF Admission
  <2>5. /\ q.trade = IF p.qty = 0 THEN Len(rows.acct.trades) + 1 ELSE p.trade
        /\ new.acct.trades[q.trade].sym = event.sym /\ new.acct.trades[q.trade].dir = q.dir
        /\ q.dir = IF p.qty = 0 THEN Direction(event.side) ELSE p.dir
        /\ p.qty # 0 => rows.acct.trades[p.trade].dir = p.dir
    BY DEF Admission, Admitted, FillEffect
  <2>6. q.trade \in 1..Len(new.acct.trades)
    BY TradesKept
  <2>7. BoundTrade(rows.acct, o)
    BY <2>2 DEF OrdersKept
  <2>8. CASE o.reduceOnly
    <3>1. p.qty # 0 /\ p.trade = o.bound
      BY <2>4, <2>8 DEF StaleReduction
    <3>2. q.trade = o.bound /\ q.dir # Direction(event.side)
      BY <2>4, <2>5, <2>7, <2>8, <3>1 DEF BoundTrade
    <3> QED BY <2>1, <2>3, <2>4, <2>5, <2>6, <2>8, <3>2 DEF FillKept
  <2>9. CASE ~o.reduceOnly
    <3>1. p.qty = 0 \/ p.dir = Direction(event.side)
      BY <2>4, <2>9 DEF StaleOpening
    <3>2. q.dir = Direction(event.side)
      BY <2>5, <3>1
    <3> QED BY <2>1, <2>3, <2>4, <2>5, <2>6, <2>9, <3>2 DEF FillKept
  <2> QED BY <2>8, <2>9
<1> QED BY <1>1, <1>2, <1>3

\* The fills of the rows, and the one that is appended.
LEMMA FillsGrow ==
    ASSUME NEW rows, NEW new, NEW event, Admission(rows, new, event)
    PROVE  LET n == Len(rows.fills)
               f == new.fills[n + 1]
           IN  /\ n \in Nat /\ Len(new.fills) = n + 1
               /\ \A i \in 1..n : new.fills[i] = rows.fills[i]
               /\ \A i \in 1..n + 1 : /\ new.fills[i].qty \in Int
                                      /\ SignedQty(new.fills[i]) \in Int
                                      /\ SignedNotional(new.fills[i]) \in Int
               /\ f.order = event.order /\ f.sym = event.sym /\ f.qty = event.qty
               /\ f.trade = new.acct.pos[event.sym].trade
               /\ SignedQty(f) = SignedQty(event) /\ SignedNotional(f) = SignedNotional(event)
<1> DEFINE n == Len(rows.fills)
           f == new.fills[n + 1]
<1>1. /\ n \in Nat /\ Len(new.fills) = n + 1
      /\ \A i \in 1..n : new.fills[i] = rows.fills[i]
      /\ f = FillRow(new.acct, event)
  BY DEF Admission, Admitted
<1>2. /\ f.order = event.order /\ f.sym = event.sym /\ f.qty = event.qty
      /\ f.trade = new.acct.pos[event.sym].trade /\ f.side = event.side /\ f.price = event.price
  BY <1>1 DEF FillRow
<1> HIDE DEF f
<1>3. SignedQty(f) = SignedQty(event) /\ SignedNotional(f) = SignedNotional(event)
  BY <1>2 DEF SignedQty, SignedNotional, Notional
<1>4. event.qty \in Nat /\ SignedNotional(event) \in Int /\ SignedQty(event) \in Int
  BY EventFacts DEF Admission, SignedQty
<1>5. ASSUME NEW i \in 1..n
      PROVE  /\ new.fills[i].qty \in Int /\ SignedQty(new.fills[i]) \in Int
             /\ SignedNotional(new.fills[i]) \in Int
  <2>1. rows.fills[i] \in FillType
    BY DEF Admission, RowsInv, RowsType
  <2>2. new.fills[i].qty \in Nat /\ new.fills[i].price \in Nat
    BY <1>1, <2>1 DEF FillType
  <2>3. 1000 * new.fills[i].price * new.fills[i].qty \in Int
    BY <2>2
  <2>4. -(1000 * new.fills[i].price * new.fills[i].qty) \in Int
    BY <2>3
  <2>5. new.fills[i].qty \in Int /\ SignedQty(new.fills[i]) \in Int
    BY <2>2 DEF SignedQty
  <2> QED BY <2>3, <2>4, <2>5 DEF SignedNotional, Notional, Milli
<1>6. ASSUME NEW i \in 1..n + 1
      PROVE  /\ new.fills[i].qty \in Int /\ SignedQty(new.fills[i]) \in Int
             /\ SignedNotional(new.fills[i]) \in Int
  <2>1. CASE i \in 1..n
    BY <1>5, <2>1
  <2>2. CASE i = n + 1
    BY <1>2, <1>3, <1>4, <2>2 DEF f
  <2> QED BY <1>1, <2>1, <2>2
<1> QED BY <1>1, <1>2, <1>3, <1>6 DEF f

\* An order is filled by the sum of its fills.
LEMMA AdmitOrdersReconcile ==
    ASSUME NEW rows, NEW new, NEW event, Admission(rows, new, event), OrdersReconcile(rows)
    PROVE  OrdersReconcile(new)
<1> SUFFICES ASSUME NEW c \in Commands
             PROVE  new.orders[c].filled
                      = SumOfFills(new, LAMBDA f : f.qty, LAMBDA f : f.order = c)
  BY DEF OrdersReconcile
<1> DEFINE n == Len(rows.fills)
           v == [i \in 1..Len(new.fills) |-> new.fills[i].qty]
           w == [i \in 1..n |-> rows.fills[i].qty]
           B == {i \in 1..Len(new.fills) : new.fills[i].order = c}
           A == {i \in 1..n : rows.fills[i].order = c}
<1>1. /\ n \in Nat /\ Len(new.fills) = n + 1 /\ \A i \in 1..n : new.fills[i] = rows.fills[i]
      /\ \A i \in 1..n + 1 : new.fills[i].qty \in Int
      /\ new.fills[n + 1].order = event.order /\ new.fills[n + 1].qty = event.qty
  BY FillsGrow
<1>2. /\ \A i \in 1..n + 1 : v[i] \in Int
      /\ \A i \in 1..n : v[i] = w[i]
      /\ A \in SUBSET (1..n) /\ B \in SUBSET (1..n + 1) /\ B \ {n + 1} = A
      /\ n + 1 \in B <=> c = event.order
  BY <1>1
<1>3. /\ rows.orders[c].filled = SumFunctionOnSet(w, A)
      /\ SumOfFills(new, LAMBDA f : f.qty, LAMBDA f : f.order = c) = SumFunctionOnSet(v, B)
  BY DEF OrdersReconcile, SumOfFills, FillsOf
<1> HIDE DEF n, v, w, A, B
<1>4. SumFunctionOnSet(v, B) = SumFunctionOnSet(w, A) + (IF n + 1 \in B THEN v[n + 1] ELSE 0)
  <2>1. Grown(n, v, w, A, B)
    BY <1>1, <1>2 DEF Grown
  <2> QED BY <2>1, SumGrows
<1>5. v[n + 1] = event.qty
  BY <1>1 DEF v
<1>6. new.orders[c].filled
        = rows.orders[c].filled + (IF c = event.order THEN event.qty ELSE 0)
  BY ContractKept
<1> QED BY <1>2, <1>3, <1>4, <1>5, <1>6

\* A position is the net of its symbol's fills.
LEMMA AdmitPositionsReconcile ==
    ASSUME NEW rows, NEW new, NEW event, Admission(rows, new, event), PositionsReconcile(rows)
    PROVE  PositionsReconcile(new)
<1> DEFINE Net(p) == IF p.dir = "LONG" THEN p.qty ELSE -p.qty
<1> SUFFICES ASSUME NEW s \in Symbols
             PROVE  SumOfFills(new, SignedQty, LAMBDA f : f.sym = s) = Net(new.acct.pos[s])
  BY DEF PositionsReconcile
<1> DEFINE n == Len(rows.fills)
           v == [i \in 1..Len(new.fills) |-> SignedQty(new.fills[i])]
           w == [i \in 1..n |-> SignedQty(rows.fills[i])]
           B == {i \in 1..Len(new.fills) : new.fills[i].sym = s}
           A == {i \in 1..n : rows.fills[i].sym = s}
<1>1. /\ n \in Nat /\ Len(new.fills) = n + 1 /\ \A i \in 1..n : new.fills[i] = rows.fills[i]
      /\ \A i \in 1..n + 1 : SignedQty(new.fills[i]) \in Int
      /\ new.fills[n + 1].sym = event.sym /\ SignedQty(new.fills[n + 1]) = SignedQty(event)
  BY FillsGrow
<1>2. /\ \A i \in 1..n + 1 : v[i] \in Int
      /\ \A i \in 1..n : v[i] = w[i]
      /\ A \in SUBSET (1..n) /\ B \in SUBSET (1..n + 1) /\ B \ {n + 1} = A
      /\ n + 1 \in B <=> s = event.sym
      /\ v[n + 1] = SignedQty(event)
  BY <1>1, SMTT(30)
<1>3. /\ SumFunctionOnSet(w, A) = Net(rows.acct.pos[s])
      /\ SumOfFills(new, SignedQty, LAMBDA f : f.sym = s) = SumFunctionOnSet(v, B)
  BY DEF PositionsReconcile, SumOfFills, FillsOf
<1> HIDE DEF n, v, w, A, B
<1>4. SumFunctionOnSet(v, B) = SumFunctionOnSet(w, A) + (IF n + 1 \in B THEN v[n + 1] ELSE 0)
  <2>1. Grown(n, v, w, A, B)
    BY <1>1, <1>2 DEF Grown
  <2> QED BY <2>1, SumGrows
<1>5. CASE s # event.sym
  <2>1. new.acct.pos[s] = rows.acct.pos[s] /\ rows.acct.pos[s] \in PositionType
    BY <1>5 DEF Admission, Admitted, FillEffect, RowsInv, AccountInv, AccountType
  <2>2. Net(rows.acct.pos[s]) \in Int
    BY <2>1 DEF PositionType
  <2>3. SumFunctionOnSet(w, A) \in Int
    BY <1>3, <2>2
  <2>4. SumFunctionOnSet(v, B) = SumFunctionOnSet(w, A)
    BY ONLY <1>2, <1>4, <1>5, <2>3
  <2> QED BY <1>3, <2>1, <2>4
<1>6. CASE s = event.sym
  <2> DEFINE p == rows.acct.pos[s]
             q == new.acct.pos[s]
  <2>1. /\ q.dir = IF p.qty = 0 THEN Direction(event.side) ELSE p.dir
        /\ q.qty = IF p.qty = 0 THEN event.qty
                   ELSE IF p.dir = Direction(event.side) THEN p.qty + event.qty
                   ELSE p.qty - event.qty
    BY <1>6 DEF Admission, Admitted, FillEffect
  <2>2. p.qty \in Nat /\ p.dir \in Directions
    <3>1. p \in PositionType
      BY DEF Admission, RowsInv, AccountInv, AccountType
    <3> QED BY <3>1 DEF PositionType
  <2>3. event.qty \in Nat /\ event.side \in Sides
    BY EventFacts DEF Admission
  <2> HIDE DEF p, q
  <2>4. Net(q) = Net(p) + SignedQty(event)
    BY <2>1, <2>2, <2>3 DEF Direction, Directions, Sides, SignedQty
  <2> QED BY <1>2, <1>3, <1>4, <1>6, <2>4 DEF p, q
<1> QED BY <1>5, <1>6

\* A trade's flow is the signed notional of its fills.
LEMMA AdmitFlowsReconcile ==
    ASSUME NEW rows, NEW new, NEW event, Admission(rows, new, event),
           FillsKept(rows), FlowsReconcile(rows)
    PROVE  FlowsReconcile(new)
<1> SUFFICES ASSUME NEW k \in 1..Len(new.acct.trades)
             PROVE  SumOfFills(new, SignedNotional, LAMBDA f : f.trade = k)
                      = new.acct.trades[k].flow
  BY DEF FlowsReconcile
<1> DEFINE n == Len(rows.fills)
           len == Len(rows.acct.trades)
           p == rows.acct.pos[event.sym]
           q == new.acct.pos[event.sym]
           v == [i \in 1..Len(new.fills) |-> SignedNotional(new.fills[i])]
           w == [i \in 1..n |-> SignedNotional(rows.fills[i])]
           B == {i \in 1..Len(new.fills) : new.fills[i].trade = k}
           A == {i \in 1..n : rows.fills[i].trade = k}
<1>1. /\ n \in Nat /\ Len(new.fills) = n + 1 /\ \A i \in 1..n : new.fills[i] = rows.fills[i]
      /\ \A i \in 1..n + 1 : SignedNotional(new.fills[i]) \in Int
      /\ new.fills[n + 1].trade = q.trade
      /\ SignedNotional(new.fills[n + 1]) = SignedNotional(event)
  BY FillsGrow
<1>2. /\ \A i \in 1..n + 1 : v[i] \in Int
      /\ \A i \in 1..n : v[i] = w[i]
      /\ A \in SUBSET (1..n) /\ B \in SUBSET (1..n + 1) /\ B \ {n + 1} = A
      /\ n + 1 \in B <=> k = q.trade
      /\ v[n + 1] = SignedNotional(event)
  <2> HIDE DEF n, q
  <2>1. /\ \A i \in 1..n + 1 : v[i] \in Int
        /\ \A i \in 1..n : v[i] = w[i]
        /\ v[n + 1] = SignedNotional(event)
    BY <1>1
  <2>2. A \in SUBSET (1..n) /\ B \in SUBSET (1..n + 1) /\ B \ {n + 1} = A
    BY <1>1
  <2>3. n + 1 \in B <=> k = q.trade
    BY <1>1
  <2> QED BY <2>1, <2>2, <2>3
<1>3. /\ k \in 1..len => SumFunctionOnSet(w, A) = rows.acct.trades[k].flow
      /\ SumOfFills(new, SignedNotional, LAMBDA f : f.trade = k) = SumFunctionOnSet(v, B)
  BY DEF FlowsReconcile, SumOfFills, FillsOf
<1>4. k \notin 1..len => A = {}
  BY DEF FillsKept, FillKept
<1> HIDE DEF n, v, w, A, B
<1>5. /\ SumFunctionOnSet(w, A) \in Int
      /\ SumFunctionOnSet(v, B) = SumFunctionOnSet(w, A) + (IF n + 1 \in B THEN v[n + 1] ELSE 0)
  <2>1. Grown(n, v, w, A, B)
    BY <1>1, <1>2 DEF Grown
  <2> QED BY <2>1, SumGrows
<1>6. k \notin 1..len => SumFunctionOnSet(w, A) = 0
  BY <1>4, SumEmpty
<1>7. /\ q.trade = IF p.qty = 0 THEN len + 1 ELSE p.trade
      /\ Len(new.acct.trades) = IF p.qty = 0 THEN len + 1 ELSE len
      /\ \A i \in 1..len : i # q.trade => new.acct.trades[i] = rows.acct.trades[i]
      /\ new.acct.trades[q.trade].flow
           = SignedNotional(event) + (IF p.qty = 0 THEN 0 ELSE rows.acct.trades[p.trade].flow)
  BY DEF Admission, Admitted, FillEffect
<1>8. len \in Nat /\ q.trade \in 1..Len(new.acct.trades) /\ SignedNotional(event) \in Int
  BY TradesKept, EventFacts DEF Admission
<1> HIDE DEF p, q, len
<1>9. CASE k # q.trade
  <2>1. k \in 1..len /\ new.acct.trades[k] = rows.acct.trades[k]
    BY <1>7, <1>8, <1>9
  <2>2. n + 1 \notin B
    BY <1>2, <1>9
  <2> QED BY <1>3, <1>5, <2>1, <2>2
<1>10. CASE k = q.trade /\ p.qty = 0
  <2>1. k \notin 1..len
    BY <1>7, <1>8, <1>10
  <2> QED BY <1>2, <1>3, <1>5, <1>6, <1>7, <1>8, <1>10, <2>1
<1>11. CASE k = q.trade /\ p.qty # 0
  <2>1. k \in 1..len /\ k = p.trade
    BY <1>7, <1>8, <1>11
  <2> QED BY <1>2, <1>3, <1>5, <1>7, <1>8, <1>11, <2>1, SMTT(30)
<1> QED BY <1>9, <1>10, <1>11

\* The cash balance follows the realised profit of the trades.
LEMMA AdmitCashReconciles ==
    ASSUME NEW rows, NEW new, NEW event, Admission(rows, new, event), CashReconciles(rows)
    PROVE  CashReconciles(new)
<1> DEFINE old == rows.acct.trades
           trades == new.acct.trades
           len == Len(old)
           p == rows.acct.pos[event.sym]
           q == new.acct.pos[event.sym]
           w == [i \in 1..len |-> old[i].gross - old[i].fees]
           v == [i \in 1..Len(trades) |-> trades[i].gross - trades[i].fees]
<1>1. old \in Seq(TradeType) /\ trades \in Seq(TradeType) /\ rows.acct.cash \in Int
  BY DEF Admission, Admitted, RowsInv, AccountInv, AccountType
<1>2. len \in Nat /\ q.trade \in 1..Len(trades)
  BY TradesKept
<1>3. /\ q.trade = IF p.qty = 0 THEN len + 1 ELSE p.trade
      /\ Len(trades) = IF p.qty = 0 THEN len + 1 ELSE len
      /\ \A i \in 1..len : i # q.trade => trades[i] = old[i]
      /\ new.acct.cash = rows.acct.cash + (trades[q.trade].gross - trades[q.trade].fees)
           - (IF p.qty = 0 THEN 0 ELSE old[p.trade].gross - old[p.trade].fees)
  BY DEF Admission, Admitted, FillEffect
<1>4. rows.acct.cash = InitialBalance + SumFunctionOnSet(w, 1..len) /\ InitialBalance \in Nat
  BY AccountingAssumption DEF CashReconciles, Realised
<1>5. CashReconciles(new) <=> new.acct.cash = InitialBalance + SumFunctionOnSet(v, 1..Len(trades))
  BY DEF CashReconciles, Realised
<1> HIDE DEF old, trades, len, p, q
<1>6. \A i \in 1..len : w[i] = old[i].gross - old[i].fees /\ w[i] \in Int
  <2>1. \A i \in 1..len : old[i] \in TradeType
    BY <1>1 DEF len
  <2>2. \A i \in 1..len : old[i].gross \in Int /\ old[i].fees \in Nat
    BY <2>1 DEF TradeType
  <2> QED BY <2>2
<1>7. \A i \in 1..Len(trades) : v[i] = trades[i].gross - trades[i].fees /\ v[i] \in Int
  <2>1. \A i \in 1..Len(trades) : trades[i] \in TradeType
    BY <1>1
  <2>2. \A i \in 1..Len(trades) : trades[i].gross \in Int /\ trades[i].fees \in Nat
    BY <2>1 DEF TradeType
  <2> QED BY <2>2
<1> HIDE DEF v, w
<1>8. SumFunctionOnSet(w, 1..len) \in Int
  <2>1. IsFiniteSet(1..len)
    BY <1>2, FS_Interval
  <2> QED BY <1>6, <2>1, SumInt
<1>9. CASE p.qty = 0
  <2>1. Len(trades) = len + 1 /\ q.trade = len + 1
    BY <1>3, <1>9
  <2> DEFINE A == 1..len
             B == 1..len + 1
  <2>2. Grown(len, v, w, A, B)
    <3>1. \A i \in 1..len : v[i] = w[i]
      BY <1>2, <1>3, <1>6, <1>7, <2>1
    <3>2. (1..len + 1) \ {len + 1} = 1..len
      BY <1>2
    <3> QED BY <1>2, <1>7, <2>1, <3>1, <3>2 DEF Grown
  <2>3. SumFunctionOnSet(v, B) = SumFunctionOnSet(w, A) + (IF len + 1 \in B THEN v[len + 1] ELSE 0)
    <3> HIDE DEF A, B
    <3> QED BY <2>2, SumGrows
  <2>4. SumFunctionOnSet(v, 1..Len(trades)) = SumFunctionOnSet(w, 1..len) + v[q.trade]
    BY <1>2, <2>1, <2>3
  <2>5. new.acct.cash = rows.acct.cash + v[q.trade] /\ v[q.trade] \in Int
    <3>1. v[q.trade] = trades[q.trade].gross - trades[q.trade].fees /\ v[q.trade] \in Int
      BY <1>2, <1>7
    <3>2. new.acct.cash = rows.acct.cash + v[q.trade] - 0
      BY <1>3, <1>9, <3>1
    <3> QED BY <1>1, <3>1, <3>2
  <2> QED BY <1>4, <1>5, <1>8, <2>4, <2>5
<1>10. CASE p.qty # 0
  <2>1. Len(trades) = len /\ q.trade \in 1..len /\ q.trade = p.trade
    BY <1>2, <1>3, <1>10
  <2>2. IsFiniteSet(1..len)
    BY <1>2, FS_Interval
  <2>3. \A i \in 1..len : w[i] \in Int /\ v[i] \in Int
    BY <1>6, <1>7, <2>1
  <2>4. \A i \in (1..len) \ {q.trade} : v[i] = w[i]
    BY <1>3, <1>6, <1>7, <2>1
  <2>5. SumFunctionOnSet(v, 1..len) = SumFunctionOnSet(w, 1..len) - w[q.trade] + v[q.trade]
    <3>1. Replaced(1..len, q.trade, w, v)
      BY <2>1, <2>2, <2>3, <2>4 DEF Replaced
    <3> QED BY <3>1, SumReplace
  <2>6. new.acct.cash = rows.acct.cash + v[q.trade] - w[q.trade]
    BY <1>3, <1>6, <1>7, <1>10, <2>1
  <2>7. v[q.trade] \in Int /\ w[q.trade] \in Int
    BY <2>1, <2>3
  <2> QED BY <1>4, <1>5, <1>8, <2>1, <2>5, <2>6, <2>7
<1> QED BY <1>9, <1>10

\* Collateral: an opening fill is covered by what is available, and closing a
\* long position releases what it consumes.
LEMMA AdmitCollateralised ==
    ASSUME NEW rows, NEW new, NEW event, Admission(rows, new, event), Collateralised(rows.acct),
           FeesBelowNotional => event.fee <= Notional(event)
    PROVE  Collateralised(new.acct)
<1> DEFINE account == rows.acct
           after == new.acct
           p == account.pos[event.sym]
           q == after.pos[event.sym]
           w == [s \in Symbols |-> account.pos[s].basis]
           v == [s \in Symbols |-> after.pos[s].basis]
<1>1. /\ AccountInv(account) /\ AccountInv(after) /\ FillEffect(account, after, event)
      /\ event \in EventType /\ AdmitError(rows, event) = "none"
  BY DEF Admission, Admitted, RowsInv
<1>2. /\ event.sym \in Symbols /\ event.fee \in Nat /\ Notional(event) \in Nat
  BY <1>1, EventFacts
<1>3. /\ account.pos \in [Symbols -> PositionType] /\ after.pos \in [Symbols -> PositionType]
      /\ account.cash \in Int /\ after.cash \in Int
  BY <1>1 DEF AccountInv, AccountType
<1>4. /\ \A s \in Symbols : s # event.sym => after.pos[s] = account.pos[s]
      /\ q.qty = 0 => q.basis = 0
      /\ Increasing(account, event) =>
           /\ after.cash = account.cash - event.fee
           /\ q.basis = (IF p.qty = 0 THEN 0 ELSE p.basis) + Notional(event)
      /\ ~Increasing(account, event) /\ p.dir = "LONG" =>
           after.cash - q.basis = account.cash - p.basis + Notional(event) - event.fee
  BY <1>1 DEF FillEffect
<1>5. \A s \in Symbols : after.pos[s].qty = 0 => after.pos[s].basis = 0
  BY <1>4 DEF Collateralised
<1>6. p.qty = 0 => p.basis = 0
  BY <1>2 DEF Collateralised
<1> SUFFICES ASSUME FeesBelowNotional,
                    \A n \in 1..Len(after.trades) : after.trades[n].dir = "LONG"
             PROVE  Available(after) >= 0
  BY <1>5 DEF Collateralised
<1>7. \A n \in 1..Len(account.trades) : account.trades[n].dir = "LONG"
  <2>1. \A n \in 1..Len(account.trades) : /\ n \in 1..Len(after.trades)
                                         /\ after.trades[n].dir = account.trades[n].dir
    BY ONLY Admission(rows, new, event), TradesKept
  <2> QED BY ONLY <2>1, \A n \in 1..Len(after.trades) : after.trades[n].dir = "LONG"
<1>8. Available(account) >= 0
  BY <1>7 DEF Collateralised
<1>9. Reserved(account) = SumFunctionOnSet(w, Symbols) /\ Reserved(after) = SumFunctionOnSet(v, Symbols)
  BY DEF Reserved
<1>10. \A s \in Symbols : w[s] = account.pos[s].basis /\ v[s] = after.pos[s].basis
                          /\ w[s] \in Int /\ v[s] \in Int
  BY <1>3 DEF PositionType
<1>11. p.dir = "LONG" \/ p.qty = 0
  <2>1. p.qty # 0 => p.trade \in 1..Len(account.trades) /\ account.trades[p.trade].dir = p.dir
    BY <1>1, <1>2 DEF AccountInv, PositionsNameTheirTrades
  <2> QED BY <1>7, <2>1
<1> HIDE DEF v, w, account, after, p, q
<1>12. SumFunctionOnSet(w, Symbols) \in Int
  BY <1>10, AccountingAssumption, SumInt
<1>13. SumFunctionOnSet(v, Symbols)
         = SumFunctionOnSet(w, Symbols) - w[event.sym] + v[event.sym]
  <2>1. \A s \in Symbols \ {event.sym} : v[s] = w[s]
    BY <1>4, <1>10
  <2>2. Replaced(Symbols, event.sym, w, v)
    BY <1>2, <1>10, <2>1, AccountingAssumption DEF Replaced
  <2> QED BY <2>2, SumReplace
<1>14. w[event.sym] = p.basis /\ v[event.sym] = q.basis /\ p.basis \in Int /\ q.basis \in Int
  BY <1>2, <1>10 DEF p, q
<1>15. /\ Reserved(account) \in Int
       /\ Reserved(after) = Reserved(account) - p.basis + q.basis
  BY <1>9, <1>12, <1>13, <1>14
<1>16. /\ Available(account) = account.cash - Reserved(account)
       /\ Available(after) = after.cash - Reserved(after)
  BY DEF Available
<1>17. /\ account.cash \in Int /\ after.cash \in Int /\ Notional(event) \in Int
       /\ event.fee \in Int /\ p.basis \in Int /\ q.basis \in Int
  BY <1>2, <1>3, <1>14
<1>18. CASE Increasing(account, event)
  <2>1. ~Insufficient(account, event)
    BY <1>1, <1>18, AdmitErrorFacts DEF FillError, account
  <2>2. Available(account) >= Notional(event) + event.fee
    BY <1>2, <1>3, <1>15, <1>16, <2>1 DEF Insufficient
  <2>3. q.basis = p.basis + Notional(event) /\ after.cash = account.cash - event.fee
    BY <1>4, <1>6, <1>18
  <2> QED BY ONLY <1>17, <1>15, <1>16, <2>2, <2>3
<1>19. CASE ~Increasing(account, event)
  <2>1. p.dir = "LONG"
    BY <1>11, <1>19 DEF Increasing, p
  <2>2. after.cash - q.basis = account.cash - p.basis + Notional(event) - event.fee
    BY <1>4, <1>19, <2>1
  <2>3. event.fee <= Notional(event)
    OBVIOUS
  <2> QED BY ONLY <1>17, <1>8, <1>15, <1>16, <2>2, <2>3
<1> QED BY <1>18, <1>19

\* An admitted fill keeps the books.
LEMMA AdmitLedger ==
    ASSUME NEW rows, NEW new, NEW event, Admission(rows, new, event), LedgerInv(rows),
           FeesBelowNotional => event.fee <= Notional(event)
    PROVE  LedgerInv(new)
<1>1. OrdersKept(new) /\ FillsKept(new)
  BY AdmitOrdersKept, AdmitFillsKept DEF LedgerInv
<1>2. Collateralised(new.acct)
  BY AdmitCollateralised DEF LedgerInv
<1>3. CashReconciles(new) /\ PositionsReconcile(new)
  BY AdmitCashReconciles, AdmitPositionsReconcile DEF LedgerInv
<1>4. FlowsReconcile(new) /\ OrdersReconcile(new)
  BY AdmitFlowsReconcile, AdmitOrdersReconcile DEF LedgerInv
<1> QED BY <1>1, <1>2, <1>3, <1>4 DEF LedgerInv

-----------------------------------------------------------------------------
(* Rewriting one order *)

Rewritten(rows, new, c, n) ==
    /\ new.acct = rows.acct /\ new.fills = rows.fills /\ new.orders[c] = n
    /\ \A d \in Commands \ {c} : new.orders[d] = rows.orders[d]

\* n is o with the same contract, or the first row of an order.
ContractHeld(account, o, n) ==
    /\ BoundTrade(account, n) /\ n.filled = o.filled
    /\ ~Exists(n) => n.filled = 0
    /\ Exists(o) => /\ Exists(n) /\ n.intent = o.intent
                    /\ n.reduceOnly = o.reduceOnly /\ n.bound = o.bound

\* Status, cancellation and cursor of an order are not in the books.
LEMMA RewrittenLedger ==
    ASSUME NEW rows, NEW new, NEW c \in Commands, NEW n, RowsInv(rows), LedgerInv(rows),
           Rewritten(rows, new, c, n), ContractHeld(rows.acct, rows.orders[c], n)
    PROVE  LedgerInv(new)
<1>1. /\ new.acct = rows.acct /\ new.fills = rows.fills /\ new.orders[c] = n
      /\ \A d \in Commands \ {c} : new.orders[d] = rows.orders[d]
  BY DEF Rewritten
<1>2. OrdersKept(new)
  <2> SUFFICES ASSUME NEW d \in Commands
               PROVE  /\ BoundTrade(new.acct, new.orders[d])
                      /\ ~Exists(new.orders[d]) => new.orders[d].filled = 0
    BY DEF OrdersKept
  <2>1. CASE d = c
    BY <1>1, <2>1 DEF ContractHeld
  <2>2. CASE d # c
    BY <1>1, <2>2 DEF LedgerInv, OrdersKept
  <2> QED BY <2>1, <2>2
<1>3. FillsKept(new)
  <2> SUFFICES ASSUME NEW i \in 1..Len(rows.fills) PROVE FillKept(new, rows.fills[i])
    BY <1>1 DEF FillsKept
  <2> DEFINE f == rows.fills[i]
             o == rows.orders[f.order]
             m == new.orders[f.order]
  <2>1. f.order \in Commands
    <3>1. f \in FillType
      BY DEF RowsInv, RowsType
    <3> QED BY <3>1 DEF FillType
  <2>2. FillKept(rows, f)
    BY DEF LedgerInv, FillsKept
  <2>3. Exists(m) /\ m.intent = o.intent /\ m.reduceOnly = o.reduceOnly /\ m.bound = o.bound
    <3>1. Exists(o)
      BY <2>2 DEF FillKept
    <3>2. CASE f.order = c
      BY <1>1, <3>1, <3>2 DEF ContractHeld
    <3>3. CASE f.order # c
      BY <1>1, <2>1, <3>1, <3>3
    <3> QED BY <3>2, <3>3
  <2> HIDE DEF f
  <2>4. FillKept(new, f)
    <3>1. CASE o.reduceOnly
      BY <1>1, <2>2, <2>3, <3>1 DEF FillKept
    <3>2. CASE ~o.reduceOnly
      BY <1>1, <2>2, <2>3, <3>2 DEF FillKept
    <3> QED BY <3>1, <3>2
  <2> QED BY <2>4 DEF f
<1>4. Collateralised(new.acct) /\ CashReconciles(new)
  BY <1>1 DEF LedgerInv, CashReconciles
<1>5. PositionsReconcile(new)
  BY <1>1 DEF LedgerInv, PositionsReconcile, SumOfFills, FillsOf
<1>6. FlowsReconcile(new)
  BY <1>1 DEF LedgerInv, FlowsReconcile, SumOfFills, FillsOf
<1>7. OrdersReconcile(new)
  <2>1. \A d \in Commands : new.orders[d].filled = rows.orders[d].filled
    BY <1>1 DEF ContractHeld
  <2> QED BY <1>1, <2>1 DEF LedgerInv, OrdersReconcile, SumOfFills, FillsOf
<1> QED BY <1>2, <1>3, <1>4, <1>5, <1>6, <1>7 DEF LedgerInv

-----------------------------------------------------------------------------
(* Paper accounts *)

\* No candle up to the given minute has touched the order.
Untouched(o, until, market) ==
    \A k \in o.acceptedAt + 1 .. until : ~Touches(o.intent, market[o.intent.sym][k])

\* An order fills whole or not at all; one that may still fill has met, and
\* survived, every candle up to its cursor.
PaperOrder(o, now, market) ==
    /\ o.filled \in {0, o.intent.qty}
    /\ o.filled # 0 => o.st = "ACKNOWLEDGED" /\ o.cancelledAt = Never
    /\ o.lastObs < now
    /\ Exists(o) /\ o.filled = 0 /\ o.st # "REJECTED" => Untouched(o, Cursor(o), market)

\* A fill is the whole order, on the first candle that touches it.
PaperFill(rows, f, now, market) ==
    LET o == rows.orders[f.order]
        m == f.filledAt - 1
    IN  /\ f.qty = o.filled /\ o.filled # 0
        /\ m \in o.acceptedAt + 1 .. now - 1
        /\ Touches(o.intent, market[f.sym][m]) /\ Untouched(o, m - 1, market)
        /\ f.price = FillPrice(o.intent, market[f.sym][m])

FillsOfOrders(rows) ==
    /\ \A c \in Commands :
         rows.orders[c].filled # 0 => \E i \in 1..Len(rows.fills) : rows.fills[i].order = c
    /\ \A i, j \in 1..Len(rows.fills) : rows.fills[i].order = rows.fills[j].order => i = j

PaperInv(rows, now, market) ==
    /\ \A c \in Commands : PaperOrder(rows.orders[c], now, market)
    /\ \A i \in 1..Len(rows.fills) : PaperFill(rows, rows.fills[i], now, market)
    /\ FillsOfOrders(rows)

PaperHeld(o, n, now, market) ==
    /\ PaperOrder(n, now, market) /\ n.filled = o.filled
    /\ o.filled # 0 => n.intent = o.intent /\ n.acceptedAt = o.acceptedAt

\* Rewriting an order whose fill, if any, stays what it is.
LEMMA RewrittenPaper ==
    ASSUME NEW rows, NEW new, NEW c \in Commands, NEW n, NEW now, NEW market,
           RowsInv(rows), PaperInv(rows, now, market), Rewritten(rows, new, c, n),
           PaperHeld(rows.orders[c], n, now, market)
    PROVE  PaperInv(new, now, market)
<1>1. /\ new.acct = rows.acct /\ new.fills = rows.fills /\ new.orders[c] = n
      /\ \A d \in Commands \ {c} : new.orders[d] = rows.orders[d]
  BY DEF Rewritten
<1>2. ASSUME NEW d \in Commands
      PROVE  PaperOrder(new.orders[d], now, market)
  <2>1. CASE d = c
    BY <1>1, <2>1 DEF PaperHeld
  <2>2. CASE d # c
    BY <1>1, <2>2 DEF PaperInv
  <2> QED BY <2>1, <2>2
<1>3. ASSUME NEW i \in 1..Len(rows.fills)
      PROVE  PaperFill(new, rows.fills[i], now, market)
  <2> DEFINE f == rows.fills[i]
             o == rows.orders[f.order]
             m == new.orders[f.order]
  <2>1. f.order \in Commands
    <3>1. f \in FillType
      BY DEF RowsInv, RowsType
    <3> QED BY <3>1 DEF FillType
  <2>2. PaperFill(rows, f, now, market)
    BY DEF PaperInv
  <2>3. m.filled = o.filled /\ m.intent = o.intent /\ m.acceptedAt = o.acceptedAt
    <3>1. o.filled # 0
      BY <2>2 DEF PaperFill
    <3>2. CASE f.order = c
      BY <1>1, <3>1, <3>2 DEF PaperHeld
    <3>3. CASE f.order # c
      BY <1>1, <2>1, <3>3
    <3> QED BY <3>2, <3>3
  <2> HIDE DEF f
  <2>4. PaperFill(new, f, now, market)
    BY <2>2, <2>3 DEF PaperFill, Untouched
  <2> QED BY <2>4 DEF f
<1>4. FillsOfOrders(new)
  <2>1. \A d \in Commands : new.orders[d].filled = rows.orders[d].filled
    BY <1>1 DEF PaperHeld
  <2> QED BY <1>1, <2>1 DEF PaperInv, FillsOfOrders
<1> QED BY <1>1, <1>2, <1>3, <1>4 DEF PaperInv

\* A paper fill of a whole order on the candle after its cursor.
FirstTouch(rows, event, now, market) ==
    LET o == rows.orders[event.order]
        m == event.filledAt - 1
    IN  /\ o.filled = 0 /\ event.qty = o.intent.qty /\ o.st = "ACKNOWLEDGED"
        /\ o.cancelledAt = Never
        /\ m \in o.acceptedAt + 1 .. now - 1 /\ m = Cursor(o) + 1
        /\ Touches(o.intent, market[event.sym][m])
        /\ event.price = FillPrice(o.intent, market[event.sym][m])

\* An observation's fill keeps the invariant of paper accounts.
LEMMA AdmitPaper ==
    ASSUME NEW rows, NEW new, NEW event, NEW now, NEW market, Admission(rows, new, event),
           PaperInv(rows, now, market), FirstTouch(rows, event, now, market)
    PROVE  PaperInv(new, now, market)
<1> DEFINE n == Len(rows.fills)
           o == rows.orders[event.order]
           m == new.orders[event.order]
<1>1. event.order \in Commands /\ event.qty \in Nat \ {0} /\ RowsInv(rows)
  BY EventFacts DEF Admission
<1>2. /\ m.st = o.st /\ m.intent = o.intent /\ m.acceptedAt = o.acceptedAt
      /\ m.cancelledAt = o.cancelledAt /\ m.lastObs = o.lastObs
      /\ m.filled = o.filled + event.qty
      /\ \A d \in Commands : d # event.order => new.orders[d] = rows.orders[d]
  <2>1. \A d \in Commands : d # event.order => new.orders[d] = rows.orders[d]
    BY DEF Admission, Admitted
  <2>2. /\ m.st = o.st /\ m.intent = o.intent /\ m.acceptedAt = o.acceptedAt
        /\ m.cancelledAt = o.cancelledAt /\ m.lastObs = o.lastObs
        /\ m.filled = o.filled + event.qty
    BY <1>1, ContractKept
  <2> QED BY <2>1, <2>2
<1>3. m.filled = event.qty /\ m.filled = m.intent.qty /\ m.filled # 0
  BY <1>1, <1>2 DEF FirstTouch
<1>4. /\ n \in Nat /\ Len(new.fills) = n + 1 /\ \A i \in 1..n : new.fills[i] = rows.fills[i]
      /\ new.fills[n + 1].order = event.order
  BY FillsGrow
<1>5. ASSUME NEW i \in 1..n
      PROVE  /\ new.fills[i].order \in Commands /\ new.fills[i].order # event.order
             /\ PaperFill(new, new.fills[i], now, market)
  <2> DEFINE f == rows.fills[i]
  <2>1. f.order \in Commands
    <3>1. f \in FillType
      BY <1>1 DEF RowsInv, RowsType
    <3> QED BY <3>1 DEF FillType
  <2>2. PaperFill(rows, f, now, market)
    BY DEF PaperInv
  <2> HIDE DEF f
  <2>3. f.order # event.order
    BY <2>2 DEF PaperFill, FirstTouch
  <2>4. new.orders[f.order] = rows.orders[f.order]
    BY <1>2, <2>1, <2>3
  <2>5. PaperFill(new, f, now, market)
    BY <2>2, <2>4 DEF PaperFill
  <2> QED BY <1>4, <2>1, <2>3, <2>5 DEF f
<1>6. PaperFill(new, new.fills[n + 1], now, market)
  <2> DEFINE f == new.fills[n + 1]
             at == event.filledAt - 1
  <2>1. /\ f.order = event.order /\ f.sym = event.sym /\ f.qty = event.qty
        /\ f.filledAt = event.filledAt /\ f.price = event.price
    <3>1. f = FillRow(new.acct, event)
      BY DEF Admission, Admitted
    <3> QED BY <3>1 DEF FillRow
  <2>2. /\ at \in o.acceptedAt + 1 .. now - 1 /\ at = Cursor(o) + 1
        /\ Touches(o.intent, market[event.sym][at])
        /\ event.price = FillPrice(o.intent, market[event.sym][at])
    BY DEF FirstTouch
  <2>3. Untouched(o, Cursor(o), market)
    <3>1. PaperOrder(o, now, market)
      BY <1>1 DEF PaperInv
    <3> QED BY <3>1 DEF PaperOrder, FirstTouch, Exists
  <2>4. Cursor(o) \in Nat /\ at - 1 = Cursor(o)
    <3>1. o \in OrderType
      BY <1>1, OrdersTyped
    <3>2. Cursor(o) \in Nat
      BY <3>1 DEF OrderType, Cursor
    <3> QED BY <2>2, <3>2
  <2>5. Untouched(m, at - 1, market)
    BY <1>2, <2>3, <2>4 DEF Untouched
  <2> HIDE DEF f
  <2> QED BY <1>2, <1>3, <2>1, <2>2, <2>5 DEF PaperFill, f
<1>7. ASSUME NEW d \in Commands
      PROVE  PaperOrder(new.orders[d], now, market)
  <2>1. CASE d = event.order
    <3>1. PaperOrder(o, now, market)
      BY <1>1 DEF PaperInv
    <3>2. m.st = "ACKNOWLEDGED" /\ m.cancelledAt = Never /\ m.lastObs < now
      BY <1>2, <3>1 DEF PaperOrder, FirstTouch
    <3> HIDE DEF m
    <3>3. PaperOrder(m, now, market)
      BY <1>3, <3>2 DEF PaperOrder
    <3> QED BY <2>1, <3>3 DEF m
  <2>2. CASE d # event.order
    BY <1>2, <2>2 DEF PaperInv
  <2> QED BY <2>1, <2>2
<1>8. FillsOfOrders(new)
  <2>1. ASSUME NEW d \in Commands, new.orders[d].filled # 0
        PROVE  \E i \in 1..n + 1 : new.fills[i].order = d
    <3>1. CASE d = event.order
      BY <1>4, <3>1
    <3>2. CASE d # event.order
      <4>1. \E i \in 1..n : rows.fills[i].order = d
        BY <1>2, <2>1, <3>2 DEF PaperInv, FillsOfOrders
      <4> QED BY <1>4, <4>1
    <3> QED BY <3>1, <3>2
  <2>2. ASSUME NEW i \in 1..n + 1, NEW j \in 1..n + 1, new.fills[i].order = new.fills[j].order
        PROVE  i = j
    <3>1. CASE i \in 1..n /\ j \in 1..n
      BY <1>4, <2>2, <3>1 DEF PaperInv, FillsOfOrders
    <3>2. CASE i = n + 1 /\ j \in 1..n
      BY <1>4, <1>5, <2>2, <3>2
    <3>3. CASE i \in 1..n /\ j = n + 1
      BY <1>4, <1>5, <2>2, <3>3
    <3> QED BY <1>4, <3>1, <3>2, <3>3
  <2> QED BY <1>4, <2>1, <2>2 DEF FillsOfOrders
<1>9. \A i \in 1..n + 1 : PaperFill(new, new.fills[i], now, market)
  BY <1>4, <1>5, <1>6
<1> QED BY <1>4, <1>7, <1>8, <1>9 DEF PaperInv

\* One more minute: the candles that closed stay what they were.
LEMMA TickPaper ==
    ASSUME NEW rows, RowsInv(rows), FillsKept(rows), NEW now \in Nat, NEW market, NEW later,
           PaperInv(rows, now, market),
           \A s \in Symbols : \A k \in 1..now - 1 : later[s][k] = market[s][k]
    PROVE  PaperInv(rows, now + 1, later)
<1>1. ASSUME NEW o \in OrderType, Exists(o), OrderInv(o), NEW until \in Int, until <= now - 1,
             Untouched(o, until, market)
      PROVE  Untouched(o, until, later)
  <2>1. o.intent.sym \in Symbols /\ o.acceptedAt \in Nat
    BY <1>1 DEF OrderInv, IntentType, OrderType
  <2>2. ASSUME NEW k \in o.acceptedAt + 1 .. until
        PROVE  later[o.intent.sym][k] = market[o.intent.sym][k]
    <3>1. k \in 1..now - 1
      BY <1>1, <2>1
    <3> QED BY <2>1, <3>1
  <2> QED BY <1>1, <2>2 DEF Untouched
<1>2. ASSUME NEW c \in Commands
      PROVE  PaperOrder(rows.orders[c], now + 1, later)
  <2> DEFINE o == rows.orders[c]
  <2>1. o \in OrderType /\ OrderInv(o) /\ PaperOrder(o, now, market)
    BY OrdersTyped DEF RowsInv, PaperInv
  <2> HIDE DEF o
  <2>2. o.lastObs \in Nat /\ o.acceptedAt \in Nat /\ o.lastObs < now
    BY <2>1 DEF OrderType, PaperOrder
  <2>3. o.lastObs < now + 1
    BY <2>2
  <2>4. ASSUME Exists(o), Untouched(o, Cursor(o), market)
        PROVE  Untouched(o, Cursor(o), later)
    <3>1. CASE o.lastObs = Never
      <4>1. Cursor(o) = o.acceptedAt
        BY <3>1 DEF Cursor
      <4> QED BY <2>2, <4>1 DEF Untouched
    <3>2. CASE o.lastObs # Never
      <4>1. Cursor(o) = o.lastObs /\ o.lastObs \in Int /\ o.lastObs <= now - 1
        BY <2>2, <3>2 DEF Cursor
      <4> QED BY <1>1, <2>1, <2>4, <4>1
    <3> QED BY <3>1, <3>2
  <2>5. PaperOrder(o, now + 1, later)
    BY <2>1, <2>3, <2>4 DEF PaperOrder
  <2> QED BY <2>5 DEF o
<1>3. ASSUME NEW i \in 1..Len(rows.fills)
      PROVE  PaperFill(rows, rows.fills[i], now + 1, later)
  <2> DEFINE f == rows.fills[i]
             o == rows.orders[f.order]
             m == f.filledAt - 1
  <2>1. f \in FillType /\ f.order \in Commands /\ f.sym \in Symbols /\ f.filledAt \in Nat
    <3>1. f \in FillType
      BY DEF RowsInv, RowsType
    <3> QED BY <3>1 DEF FillType
  <2>2. PaperFill(rows, f, now, market) /\ FillKept(rows, f)
    BY DEF PaperInv, FillsKept
  <2>3. o \in OrderType /\ OrderInv(o) /\ Exists(o)
    BY <2>1, <2>2, OrdersTyped DEF RowsInv, FillKept
  <2> HIDE DEF f
  <2>4. m \in o.acceptedAt + 1 .. now - 1 /\ Untouched(o, m - 1, market)
    BY <2>2 DEF PaperFill
  <2>5. o.acceptedAt \in Nat /\ m \in Int
    BY <2>1, <2>3 DEF OrderType
  <2>6. m \in 1..now - 1 /\ m - 1 \in Int /\ m - 1 <= now - 1 /\ m \in o.acceptedAt + 1 .. now + 1 - 1
    BY <2>4, <2>5
  <2>7. later[f.sym][m] = market[f.sym][m]
    BY <2>1, <2>6
  <2>8. Untouched(o, m - 1, later)
    <3> HIDE DEF o, m
    <3> QED BY <1>1, <2>3, <2>4, <2>6
  <2>9. PaperFill(rows, f, now + 1, later)
    BY <2>2, <2>6, <2>7, <2>8 DEF PaperFill
  <2> QED BY <2>9 DEF f
<1>4. FillsOfOrders(rows)
  BY DEF PaperInv
<1> QED BY <1>2, <1>3, <1>4 DEF PaperInv

-----------------------------------------------------------------------------
(* The inductive invariant of the books, on top of IInv *)

LInv ==
    /\ LedgerInv(ledger) /\ (tx.open => LedgerInv(tx.work))
    /\ ~AcceptsExternalFills => /\ PaperInv(ledger, clock, candle)
                                /\ tx.open => PaperInv(tx.work, clock, candle)

\* A new account balances.
LEMMA InitLInv == Init => LInv
<1> SUFFICES ASSUME Init PROVE LInv
  OBVIOUS
<1> DEFINE account == NewAccount(1)
<1>1. /\ account.pos = [s \in Symbols |-> FlatPosition] /\ account.trades = << >>
      /\ account.cash = InitialBalance
  BY DEF NewAccount
<1> HIDE DEF account
<1>2. /\ ledger.acct = account /\ ledger.fills = << >>
      /\ ledger.orders = [c \in Commands |-> NoOrder] /\ ~tx.open /\ clock = 1
  BY DEF Init, account
<1>3. /\ Len(ledger.fills) = 0 /\ Len(account.trades) = 0
      /\ \A c \in Commands : ledger.orders[c] = NoOrder
      /\ \A s \in Symbols : /\ account.pos[s].qty = 0 /\ account.pos[s].basis = 0
                            /\ account.pos[s].dir = "LONG"
  BY <1>1, <1>2 DEF FlatPosition
<1>4. /\ NoOrder.st = "NONE" /\ NoOrder.filled = 0 /\ NoOrder.reduceOnly = FALSE
      /\ NoOrder.lastObs = 0 /\ NoOrder.acceptedAt = 0
  BY DEF NoOrder, Never
<1>5. OrdersKept(ledger) /\ FillsKept(ledger)
  BY <1>3, <1>4 DEF OrdersKept, FillsKept, BoundTrade
<1>6. \A v : SumFunctionOnSet(v, {}) = 0
  BY SumEmpty
<1>7. Collateralised(account)
  <2> DEFINE w == [s \in Symbols |-> account.pos[s].basis]
             z == [s \in Symbols |-> 0]
  <2>1. Reserved(account) = SumFunctionOnSet(w, Symbols)
    BY DEF Reserved
  <2>2. \A s \in Symbols : w[s] = 0
    BY <1>3
  <2> HIDE DEF w
  <2>3. SumFunctionOnSet(w, Symbols) = 0
    BY <2>2, AccountingAssumption, SumZero
  <2> QED BY <1>1, <1>3, <2>1, <2>3, AccountingAssumption DEF Collateralised, Available
<1>8. CashReconciles(ledger)
  <2>1. 1..Len(ledger.acct.trades) = {}
    BY <1>2, <1>3
  <2>2. Realised(ledger.acct.trades) = 0
    BY <1>6, <2>1 DEF Realised
  <2> QED BY <1>1, <1>2, <2>2, AccountingAssumption DEF CashReconciles
<1>9. 1..Len(ledger.fills) = {}
  BY <1>3
<1>10. PositionsReconcile(ledger)
  <2> SUFFICES ASSUME NEW s \in Symbols
               PROVE  SumOfFills(ledger, SignedQty, LAMBDA f : f.sym = s) = 0
    BY <1>2, <1>3 DEF PositionsReconcile
  <2>1. {i \in 1..Len(ledger.fills) : ledger.fills[i].sym = s} = {}
    BY <1>9
  <2> QED BY <1>6, <2>1 DEF SumOfFills, FillsOf
<1>11. FlowsReconcile(ledger)
  BY <1>2, <1>3 DEF FlowsReconcile
<1>12. OrdersReconcile(ledger)
  <2> SUFFICES ASSUME NEW c \in Commands
               PROVE  SumOfFills(ledger, LAMBDA f : f.qty, LAMBDA f : f.order = c) = 0
    BY <1>3, <1>4 DEF OrdersReconcile
  <2>1. {i \in 1..Len(ledger.fills) : ledger.fills[i].order = c} = {}
    BY <1>9
  <2> QED BY <1>6, <2>1 DEF SumOfFills, FillsOf
<1>13. LedgerInv(ledger)
  BY <1>2, <1>5, <1>7, <1>8, <1>10, <1>11, <1>12 DEF LedgerInv
<1>14. PaperInv(ledger, clock, candle)
  <2>1. PaperOrder(NoOrder, clock, candle)
    BY <1>2, <1>4 DEF PaperOrder, Exists
  <2>2. FillsOfOrders(ledger)
    BY <1>3, <1>4 DEF FillsOfOrders
  <2> QED BY <1>3, <2>1, <2>2 DEF PaperInv
<1> QED BY <1>2, <1>13, <1>14 DEF LInv

\* Writing one order of typed rows.
LEMMA UpdateShape ==
    ASSUME NEW rows, RowsInv(rows), NEW c \in Commands, NEW n
    PROVE  /\ Rewritten(rows, [rows EXCEPT !.orders[c] = n], c, n)
           /\ \A k : Rewritten(rows, WithOrder(rows, c, n, k), c, n)
<1>1. rows \in RowsType /\ rows.orders \in [Commands -> OrderType]
  BY DEF RowsInv, RowsType
<1>2. PICK new : new = [rows EXCEPT !.orders[c] = n]
  OBVIOUS
<1>3. Rewritten(rows, new, c, n)
  BY <1>1, <1>2 DEF Rewritten, RowsType
<1>4. ASSUME NEW k
      PROVE  Rewritten(rows, WithOrder(rows, c, n, k), c, n)
  <2>1. PICK other : other = WithOrder(rows, c, n, k)
    OBVIOUS
  <2>2. Rewritten(rows, other, c, n)
    BY <1>1, <2>1 DEF Rewritten, RowsType, WithOrder
  <2> QED BY <2>1, <2>2
<1> QED BY <1>2, <1>3, <1>4

\* A transaction that writes one order of the ledger.
LEMMA OrderWritten ==
    ASSUME IInv, LInv, ~tx.open, UNCHANGED <<clock, candle, tx>>, NEW c \in Commands, NEW n,
           Rewritten(ledger, ledger', c, n), ContractHeld(ledger.acct, ledger.orders[c], n),
           ~AcceptsExternalFills => PaperHeld(ledger.orders[c], n, clock, candle)
    PROVE  LInv'
<1>1. RowsInv(ledger) /\ LedgerInv(ledger)
  BY DEF IInv, LInv
<1>2. LedgerInv(ledger')
  BY <1>1, RewrittenLedger
<1>3. ~AcceptsExternalFills => PaperInv(ledger', clock, candle)
  BY <1>1, RewrittenPaper DEF LInv
<1> QED BY <1>2, <1>3 DEF LInv

\* A step that leaves the rows and the market alone.
LEMMA BooksUnchanged ==
    ASSUME LInv, UNCHANGED <<clock, candle, ledger>>, tx' = tx \/ ~tx'.open
    PROVE  LInv'
<1>1. LedgerInv(ledger') /\ (~AcceptsExternalFills => PaperInv(ledger', clock', candle'))
  BY DEF LInv
<1>2. CASE tx' = tx
  BY <1>1, <1>2 DEF LInv
<1>3. CASE ~tx'.open
  BY <1>1, <1>3 DEF LInv
<1> QED BY <1>2, <1>3

\* submit_order binds a reduce-only order to the trade it would close.
LEMMA SubmitOrderBooks ==
    ASSUME IInv, LInv, NEW c \in Commands, NEW intent \in Intents[c], SubmitOrder(c, intent)
    PROVE  LInv'
<1>1. PICK now \in Readings :
        ledger' = [ledger EXCEPT !.orders[c] = AcceptedOrder(c, intent, now), !.cmdSeq = @ + 1]
  BY DEF SubmitOrder
<1> DEFINE o == ledger.orders[c]
           n == AcceptedOrder(c, intent, now)
           p == ledger.acct.pos[intent.sym]
           reduce == p.qty # 0 /\ p.dir # Direction(intent.side)
<1>2. RowsInv(ledger) /\ AccountInv(ledger.acct) /\ OrdersKept(ledger)
  BY DEF IInv, RowsInv, LInv, LedgerInv
<1>3. intent \in IntentType /\ intent.sym \in Symbols
  BY GatewayAssumption DEF IntentType
<1>4. ~Exists(o) /\ o.filled = 0
  BY <1>2 DEF SubmitOrder, OrdersKept
<1>5. /\ n.intent = intent /\ n.filled = 0 /\ n.lastObs = 0 /\ n.cancelledAt = 0
      /\ n.acceptedAt = now /\ n.reduceOnly = reduce /\ (reduce => n.bound = p.trade)
      /\ n.st \in {"UNKNOWN", "REJECTED"}
  BY DEF AcceptedOrder, NoOrder, Never
<1> HIDE DEF n, o
<1>6. BoundTrade(ledger.acct, n)
  <2>1. CASE reduce
    <3>1. /\ p.trade \in 1..Len(ledger.acct.trades)
          /\ ledger.acct.trades[p.trade].sym = intent.sym
          /\ ledger.acct.trades[p.trade].dir = p.dir
      BY <1>2, <1>3, <2>1 DEF AccountInv, PositionsNameTheirTrades
    <3> QED BY <1>5, <2>1, <3>1 DEF BoundTrade
  <2>2. CASE ~reduce
    BY <1>5, <2>2 DEF BoundTrade
  <2> QED BY <2>1, <2>2
<1>7. ContractHeld(ledger.acct, o, n)
  BY <1>4, <1>5, <1>6 DEF ContractHeld
<1>8. PaperHeld(o, n, clock, candle)
  <2>1. clock \in Nat \ {0} /\ now \in Nat
    BY GatewayAssumption DEF IInv, TypeOK, Readings
  <2>2. Untouched(n, Cursor(n), candle)
    BY <1>5, <2>1 DEF Untouched, Cursor, Never
  <2>3. n.lastObs < clock
    BY <1>5, <2>1
  <2> QED BY <1>4, <1>5, <2>2, <2>3 DEF PaperHeld, PaperOrder
<1>9. ledger' = WithOrder(ledger, c, n, ledger.cmdSeq + 1)
  BY <1>1, <1>2 DEF n, WithOrder
<1>10. Rewritten(ledger, ledger', c, n)
  BY <1>2, <1>9, UpdateShape
<1> QED BY <1>7, <1>8, <1>10, OrderWritten DEF SubmitOrder, Unlocked, o

\* An update that keeps the contract and the cursor of an order.
SameOrder(o, n) ==
    /\ n.intent = o.intent /\ n.acceptedAt = o.acceptedAt /\ n.reduceOnly = o.reduceOnly
    /\ n.bound = o.bound /\ n.filled = o.filled /\ n.lastObs = o.lastObs
    /\ Exists(n) <=> Exists(o)
    /\ n.st # "REJECTED" => o.st # "REJECTED"

\* It does not change its mind about a fill.
SameOutcome(o, n) == o.filled # 0 => n.st = o.st /\ n.cancelledAt = o.cancelledAt

\* Such an update keeps the books.
LEMMA SameOrderHeld ==
    ASSUME NEW account, NEW o, NEW n, SameOrder(o, n), NEW now, NEW market
    PROVE  /\ BoundTrade(account, o) /\ (~Exists(o) => o.filled = 0)
                => ContractHeld(account, o, n)
           /\ PaperOrder(o, now, market) /\ SameOutcome(o, n) => PaperHeld(o, n, now, market)
<1>1. BoundTrade(account, o) => BoundTrade(account, n)
  <2>1. CASE o.reduceOnly
    BY <2>1 DEF SameOrder, BoundTrade
  <2>2. CASE ~o.reduceOnly
    BY <2>2 DEF SameOrder, BoundTrade
  <2> QED BY <2>1, <2>2
<1>2. BoundTrade(account, o) /\ (~Exists(o) => o.filled = 0) => ContractHeld(account, o, n)
  BY <1>1 DEF ContractHeld, SameOrder
<1>3. Cursor(n) = Cursor(o)
  BY DEF SameOrder, Cursor
<1>4. Untouched(o, Cursor(o), market) => Untouched(n, Cursor(n), market)
  BY <1>3 DEF SameOrder, Untouched
<1>5. PaperOrder(o, now, market) /\ SameOutcome(o, n) => PaperHeld(o, n, now, market)
  BY <1>4 DEF SameOrder, SameOutcome, PaperHeld, PaperOrder
<1> QED BY <1>2, <1>5

\* _save_submission writes UNKNOWN orders only, which are not filled on paper.
LEMMA SaveSubmissionBooks ==
    ASSUME IInv, LInv, NEW c \in Commands, NEW receipt \in Receipts, SaveSubmission(c, receipt),
           ~tx.open, UNCHANGED <<clock, candle, tx>>
    PROVE  LInv'
<1> DEFINE o == ledger.orders[c]
           n == [o EXCEPT !.st = ReceiptStatus(receipt), !.named = receipt.named]
<1>1. RowsInv(ledger) /\ o \in OrderType
  BY OrdersTyped DEF IInv
<1>2. CASE TakesReceipt(o)
  <2>1. ledger' = [ledger EXCEPT !.orders[c] = n]
    BY <1>1, <1>2 DEF SaveSubmission, RowsInv, RowsType
  <2>2. o.st = "UNKNOWN" /\ ReceiptStatus(receipt) \in {"ACKNOWLEDGED", "REJECTED", "UNKNOWN"}
    BY <1>2, GatewayAssumption DEF TakesReceipt, ReceiptStatus
  <2>3. /\ n.intent = o.intent /\ n.acceptedAt = o.acceptedAt /\ n.reduceOnly = o.reduceOnly
        /\ n.bound = o.bound /\ n.filled = o.filled /\ n.lastObs = o.lastObs
        /\ n.st = ReceiptStatus(receipt)
    BY <1>1 DEF OrderType
  <2> HIDE DEF n, o
  <2>4. SameOrder(o, n)
    BY <2>2, <2>3 DEF SameOrder, Exists
  <2>5. BoundTrade(ledger.acct, o) /\ (~Exists(o) => o.filled = 0)
    BY DEF LInv, LedgerInv, OrdersKept, o
  <2>6. ContractHeld(ledger.acct, o, n)
    BY <2>4, <2>5, SameOrderHeld
  <2>7. ~AcceptsExternalFills => PaperHeld(o, n, clock, candle)
    <3> SUFFICES ASSUME ~AcceptsExternalFills PROVE PaperHeld(o, n, clock, candle)
      OBVIOUS
    <3>1. PaperOrder(o, clock, candle)
      BY DEF LInv, PaperInv, o
    <3>2. SameOutcome(o, n)
      BY <2>2, <3>1 DEF PaperOrder, SameOutcome
    <3> QED BY <2>4, <3>1, <3>2, SameOrderHeld
  <2>8. Rewritten(ledger, ledger', c, n)
    BY <1>1, <2>1, UpdateShape
  <2> QED BY <2>6, <2>7, <2>8, OrderWritten DEF o
<1>3. CASE ~TakesReceipt(o)
  BY <1>3, BooksUnchanged DEF SaveSubmission
<1> QED BY <1>2, <1>3

\* cancel_order does not cancel what is filled.
LEMMA CancelAnsweredBooks ==
    ASSUME IInv, LInv, NEW c \in Commands, NEW result \in CancelResults, CancelAnswered(c, result)
    PROVE  LInv'
<1> DEFINE o == ledger.orders[c]
           n == CancelledOrder(o, result, clock)
<1>1. RowsInv(ledger) /\ o \in OrderType
  BY OrdersTyped DEF IInv
<1>2. ~tx.open /\ UNCHANGED <<clock, candle, tx>>
  BY DEF CancelAnswered, Unlocked
<1>3. CASE Closed
  BY <1>2, <1>3, BooksUnchanged DEF CancelAnswered
<1>4. CASE ~Closed
  <2>1. ledger' = [ledger EXCEPT !.orders[c] = n]
    BY <1>1, <1>4 DEF CancelAnswered, RowsInv, RowsType
  <2>2. /\ n.intent = o.intent /\ n.acceptedAt = o.acceptedAt /\ n.reduceOnly = o.reduceOnly
        /\ n.bound = o.bound /\ n.filled = o.filled /\ n.lastObs = o.lastObs /\ n.st = o.st
        /\ ~(o.filled < o.intent.qty) => n.cancelledAt = o.cancelledAt
    BY <1>1 DEF CancelledOrder, OrderType
  <2> HIDE DEF n, o
  <2>3. SameOrder(o, n)
    BY <2>2 DEF SameOrder, Exists
  <2>4. BoundTrade(ledger.acct, o) /\ (~Exists(o) => o.filled = 0)
    BY DEF LInv, LedgerInv, OrdersKept, o
  <2>5. ContractHeld(ledger.acct, o, n)
    BY <2>3, <2>4, SameOrderHeld
  <2>6. ~AcceptsExternalFills => PaperHeld(o, n, clock, candle)
    <3> SUFFICES ASSUME ~AcceptsExternalFills PROVE PaperHeld(o, n, clock, candle)
      OBVIOUS
    <3>1. PaperOrder(o, clock, candle)
      BY DEF LInv, PaperInv, o
    <3>2. o.filled \in Nat
      BY <1>1 DEF OrderType
    <3>3. SameOutcome(o, n)
      BY <2>2, <3>1, <3>2 DEF PaperOrder, SameOutcome
    <3> QED BY <2>3, <3>1, <3>3, SameOrderHeld
  <2>7. Rewritten(ledger, ledger', c, n)
    BY <1>1, <2>1, UpdateShape
  <2> QED BY <1>2, <2>5, <2>6, <2>7, OrderWritten DEF o
<1> QED BY <1>3, <1>4

\* A connector's fill, for the symbol and side of its order.
LEMMA AdmitEventBooks ==
    ASSUME IInv, LInv, NEW c \in Commands, NEW id \in ExternalFillIds, NEW content \in Events,
           AdmitEvent(c, id, content)
    PROVE  LInv'
<1>1. PICK received \in Readings, filled \in 1..clock,
           seq \in {ledger.acct.lastSeq, ledger.acct.lastSeq + 1} :
        LET event == [id |-> id, order |-> c, sym |-> ledger.orders[c].intent.sym,
                      side |-> ledger.orders[c].intent.side,
                      price |-> content.price, qty |-> content.qty,
                      fee |-> content.fee, seq |-> seq,
                      filledAt |-> filled, receivedAt |-> received]
        IN  /\ filled <= received
            /\ AdmitError(ledger, event) = "none"
            /\ ledger' = Admit(ledger, event)
  BY DEF AdmitEvent
<1>2. PICK event : event = [id |-> id, order |-> c, sym |-> ledger.orders[c].intent.sym,
                            side |-> ledger.orders[c].intent.side,
                            price |-> content.price, qty |-> content.qty,
                            fee |-> content.fee, seq |-> seq,
                            filledAt |-> filled, receivedAt |-> received]
  OBVIOUS
<1>3. RowsInv(ledger) /\ ledger.acct.lastSeq \in Nat /\ clock \in Nat
  BY DEF IInv, TypeOK, RowsInv, AccountInv, AccountType
<1>4. ledger.orders[c].intent \in IntentType
  BY <1>3 DEF AdmitEvent, RowsInv, OrderInv
<1>5. /\ ledger.orders[c].intent.sym \in Symbols /\ ledger.orders[c].intent.side \in Sides
  BY <1>4 DEF IntentType
<1>6. content.price \in Nat /\ content.qty \in Nat \ {0} /\ content.fee \in Nat
  BY GatewayAssumption
<1>7. seq \in Nat /\ filled \in Nat \ {0} /\ received \in Nat
  BY <1>3 DEF Readings
<1>8. event \in EventType
  BY <1>2, <1>5, <1>6, <1>7 DEF EventType
<1>9. AdmitError(ledger, event) = "none" /\ ledger' = Admit(ledger, event)
  BY <1>1, <1>2
<1>10. /\ event.order = c /\ event.sym = ledger.orders[c].intent.sym
       /\ event.side = ledger.orders[c].intent.side
       /\ event.fee = content.fee /\ event.price = content.price /\ event.qty = content.qty
  BY <1>2
<1>11. Admission(ledger, ledger', event)
  BY <1>3, <1>8, <1>9, <1>10, AdmitShape DEF Admission
<1>12. FeesBelowNotional => event.fee <= Notional(event)
  BY <1>10 DEF FeesBelowNotional, Notional, AdmitEvent
<1>13. LedgerInv(ledger')
  BY <1>11, <1>12, AdmitLedger DEF LInv
<1> QED BY <1>13 DEF LInv, AdmitEvent, Unlocked

\* Moving the cursor of an order over a candle that did not touch it, or after
\* its outcome is known.
LEMMA AdvanceBooks ==
    ASSUME NEW rows, RowsInv(rows), LedgerInv(rows), NEW c \in Commands,
           ~AcceptsExternalFills =>
             /\ PaperInv(rows, clock, candle) /\ tx.at < clock /\ tx.at # Never
             /\ rows.orders[c].filled = 0 /\ rows.orders[c].st # "REJECTED"
                  => Untouched(rows.orders[c], tx.at, candle)
    PROVE  /\ LedgerInv(Advance(rows, c))
           /\ ~AcceptsExternalFills => PaperInv(Advance(rows, c), clock, candle)
<1> DEFINE o == rows.orders[c]
           n == [o EXCEPT !.lastObs = tx.at]
           new == Advance(rows, c)
<1>1. o \in OrderType
  BY OrdersTyped
<1>2. new = [rows EXCEPT !.orders[c] = n]
  BY DEF Advance, RowsInv, RowsType
<1>3. Rewritten(rows, new, c, n)
  BY <1>2, UpdateShape
<1>4. /\ n.intent = o.intent /\ n.acceptedAt = o.acceptedAt /\ n.reduceOnly = o.reduceOnly
      /\ n.bound = o.bound /\ n.filled = o.filled /\ n.st = o.st /\ n.lastObs = tx.at
      /\ n.cancelledAt = o.cancelledAt
  BY <1>1 DEF OrderType
<1> HIDE DEF o, n, new
<1>5. BoundTrade(rows.acct, o) /\ (~Exists(o) => o.filled = 0)
  BY DEF LedgerInv, OrdersKept, o
<1>6. ContractHeld(rows.acct, o, n)
  <2>1. CASE o.reduceOnly
    BY <1>4, <1>5, <2>1 DEF ContractHeld, BoundTrade, Exists
  <2>2. CASE ~o.reduceOnly
    BY <1>4, <1>5, <2>2 DEF ContractHeld, BoundTrade, Exists
  <2> QED BY <2>1, <2>2
<1>7. LedgerInv(new)
  BY <1>3, <1>6, RewrittenLedger DEF o
<1>8. ASSUME ~AcceptsExternalFills
      PROVE  PaperInv(new, clock, candle)
  <2>1. PaperOrder(o, clock, candle) /\ tx.at < clock /\ tx.at # Never
    BY <1>8 DEF PaperInv, o
  <2>2. Cursor(n) = tx.at
    BY <1>4, <2>1 DEF Cursor
  <2>3. o.filled = 0 /\ o.st # "REJECTED" => Untouched(n, Cursor(n), candle)
    BY <1>4, <1>8, <2>2 DEF Untouched, o
  <2>4. PaperOrder(n, clock, candle)
    BY <1>4, <2>1, <2>3 DEF PaperOrder
  <2>5. PaperHeld(o, n, clock, candle)
    BY <1>4, <2>4 DEF PaperHeld
  <2> QED BY <1>3, <1>8, <2>5, RewrittenPaper DEF o
<1> QED BY <1>7, <1>8 DEF new

\* The working copy is replaced.
LEMMA WorkBooks ==
    ASSUME IInv, LInv, tx.open, UNCHANGED <<clock, candle, ledger>>, NEW rows,
           tx' = [tx EXCEPT !.work = rows], LedgerInv(rows),
           ~AcceptsExternalFills => PaperInv(rows, clock, candle)
    PROVE  LInv'
<1>1. tx \in [open : {TRUE}, sym : Symbols, at : Nat, cutoff : Nat, work : RowsType]
  BY OpenTx
<1>2. tx'.work = rows
  BY <1>1
<1> QED BY <1>2 DEF LInv

\* What is known of an order that meets its next candle on a paper account.
LEMMA DueOrder ==
    ASSUME IInv, LInv, NEW c \in Commands, Observing, NextDue(c), ~AcceptsExternalFills,
           tx.at = Cursor(tx.work.orders[c]) + 1
    PROVE  LET o == tx.work.orders[c]
           IN  /\ PaperInv(tx.work, clock, candle) /\ tx.at < clock /\ tx.at # Never
               /\ o.filled = 0 /\ o.st = "ACKNOWLEDGED" /\ o.cancelledAt = Never
               /\ tx.at \in o.acceptedAt + 1 .. clock - 1
               /\ Untouched(o, tx.at - 1, candle) /\ o.intent.sym = tx.sym
               /\ ~Touches(o.intent, candle[tx.sym][tx.at]) => Untouched(o, tx.at, candle)
<1> DEFINE o == tx.work.orders[c]
<1>1. /\ tx.open /\ tx.at < tx.cutoff /\ tx.at \in Nat \ {0} /\ tx.cutoff \in Nat
      /\ tx.cutoff <= clock /\ clock \in Nat /\ RowsInv(tx.work)
  BY OpenTx DEF Observing
<1>2. PaperInv(tx.work, clock, candle)
  BY <1>1 DEF LInv
<1>3. o \in OrderType /\ PaperOrder(o, clock, candle) /\ Working(o) /\ o.intent.sym = tx.sym
      /\ tx.at > o.acceptedAt
  BY <1>1, <1>2, OrdersTyped DEF PaperInv, NextDue, Due
<1> HIDE DEF o
<1>4. o.filled = 0 /\ o.st = "ACKNOWLEDGED" /\ o.cancelledAt = Never /\ o.acceptedAt \in Nat
  BY <1>3 DEF PaperOrder, Working, FullyFilled, OrderType
<1>5. tx.at \in o.acceptedAt + 1 .. clock - 1 /\ tx.at < clock /\ tx.at # Never
  BY <1>1, <1>3, <1>4 DEF Never
<1>6. Cursor(o) \in Nat /\ tx.at - 1 = Cursor(o)
  <2>1. Cursor(o) \in Nat
    BY <1>3 DEF Cursor, OrderType
  <2> QED BY <2>1 DEF o
<1>7. Untouched(o, tx.at - 1, candle)
  BY <1>3, <1>4, <1>6 DEF PaperOrder, Exists
<1>8. ~Touches(o.intent, candle[tx.sym][tx.at]) => Untouched(o, tx.at, candle)
  <2> SUFFICES ASSUME ~Touches(o.intent, candle[tx.sym][tx.at]), NEW k \in o.acceptedAt + 1 .. tx.at
               PROVE  ~Touches(o.intent, candle[o.intent.sym][k])
    BY DEF Untouched
  <2>1. CASE k = tx.at
    BY <1>3, <2>1
  <2>2. CASE k # tx.at
    <3>1. k \in o.acceptedAt + 1 .. tx.at - 1
      BY <1>1, <1>4, <2>2
    <3> QED BY <1>7, <3>1 DEF Untouched
  <2> QED BY <2>1, <2>2
<1> QED BY <1>2, <1>3, <1>4, <1>5, <1>7, <1>8 DEF o

\* An observed order is passed over, filled or rejected.
LEMMA ObserveOrderBooks ==
    ASSUME IInv, LInv, NEW c \in Commands, ObserveOrder(c)
    PROVE  LInv'
<1> DEFINE o == tx.work.orders[c]
           touched == Touches(o.intent, candle[tx.sym][tx.at])
<1>1. /\ Observing /\ NextDue(c) /\ tx.at = Cursor(o) + 1
      /\ UNCHANGED <<clock, candle, ledger, closedAt, io>>
  BY DEF ObserveOrder
<1>2. tx.open /\ tx.at \in Nat \ {0} /\ RowsInv(tx.work) /\ o \in OrderType
  BY <1>1, OpenTx, OrdersTyped DEF Observing
<1>3. LedgerInv(tx.work)
  BY <1>2 DEF LInv
<1>4. PICK event : event = ProposedFill(c)
  OBVIOUS
<1>5. CASE ~touched /\ tx' = [tx EXCEPT !.work = Advance(@, c)]
  <2>1. tx' = [tx EXCEPT !.work = Advance(tx.work, c)]
    BY <1>5
  <2>2. /\ LedgerInv(Advance(tx.work, c))
        /\ ~AcceptsExternalFills => PaperInv(Advance(tx.work, c), clock, candle)
    BY <1>1, <1>2, <1>3, <1>5, DueOrder, AdvanceBooks
  <2> QED BY <1>1, <1>2, <2>1, <2>2, WorkBooks
<1>6. CASE touched /\ AdmitError(tx.work, event) = "none"
           /\ tx' = [tx EXCEPT !.work = Advance(Admit(@, event), c)]
  <2>1. PICK new : new = Admit(tx.work, event)
    OBVIOUS
  <2>2. tx' = [tx EXCEPT !.work = Advance(new, c)]
    BY <1>6, <2>1
  <2>3. event \in EventType
    BY <1>1, <1>4, ProposedFillTyped
  <2>4. /\ event.order = c /\ event.sym = tx.sym /\ event.side = o.intent.side
        /\ event.price = FillPrice(o.intent, candle[tx.sym][tx.at])
        /\ event.qty = o.intent.qty - o.filled /\ event.filledAt = tx.at + 1
        /\ event.fee = PaperFee(event.price, event.qty)
    BY <1>4 DEF ProposedFill
  <2>5. tx.sym = o.intent.sym
    BY <1>1 DEF NextDue, Due
  <2>6. Admission(tx.work, new, event)
    BY <1>2, <1>6, <2>1, <2>3, <2>4, <2>5, AdmitShape DEF Admission
  <2>7. event.fee <= Notional(event)
    <3>1. event.price \in Nat /\ event.qty \in Nat
      BY <2>3, EventFacts
    <3>2. event.price * event.qty \in Nat
      BY <3>1
    <3>3. PICK x \in Nat : x = event.price * event.qty
      BY <3>2
    <3>4. Notional(event) = 1000 * x
      BY <3>1, <3>3 DEF Notional, Milli
    <3>5. event.fee = x
      BY <2>4, <3>3 DEF PaperFee
    <3>6. x <= 1000 * x
      BY ONLY x \in Nat
    <3> QED BY <3>4, <3>5, <3>6
  <2>8. LedgerInv(new) /\ RowsInv(new)
    BY <1>2, <1>3, <1>6, <2>1, <2>3, <2>6, <2>7, AdmitLedger, AdmitInv
  <2>9. ASSUME ~AcceptsExternalFills
        PROVE  /\ PaperInv(new, clock, candle) /\ tx.at < clock /\ tx.at # Never
               /\ new.orders[c].filled # 0
    <3>1. /\ PaperInv(tx.work, clock, candle) /\ tx.at < clock /\ tx.at # Never
          /\ o.filled = 0 /\ o.st = "ACKNOWLEDGED" /\ o.cancelledAt = Never
          /\ tx.at \in o.acceptedAt + 1 .. clock - 1
      BY <1>1, <2>9, DueOrder
    <3>2. event.filledAt - 1 = tx.at /\ event.qty \in Nat \ {0}
      BY <1>2, <2>3, <2>4, EventFacts
    <3>3. event.qty = o.intent.qty
      <4>1. OrderInv(o) /\ Exists(o)
        BY <1>2, <3>1 DEF RowsInv, Exists
      <4>2. o.intent.qty \in Nat
        BY <4>1 DEF OrderInv, IntentType
      <4> QED BY <2>4, <3>1, <4>2
    <3>4. FirstTouch(tx.work, event, clock, candle)
      BY <1>1, <1>6, <2>4, <3>1, <3>2, <3>3 DEF FirstTouch
    <3>5. PaperInv(new, clock, candle)
      BY <2>6, <3>1, <3>4, AdmitPaper
    <3>6. new.orders[c].filled = o.filled + event.qty
      BY <2>4, <2>6, ContractKept
    <3> QED BY <3>1, <3>2, <3>5, <3>6
  <2>10. /\ LedgerInv(Advance(new, c))
         /\ ~AcceptsExternalFills => PaperInv(Advance(new, c), clock, candle)
    BY <2>8, <2>9, AdvanceBooks
  <2> QED BY <1>1, <1>2, <2>2, <2>10, WorkBooks
<1>7. CASE tx' = [tx EXCEPT !.work = Advance([@ EXCEPT !.orders[c].st = "REJECTED"], c)]
  <2> DEFINE n == [o EXCEPT !.st = "REJECTED"]
  <2>1. PICK new : new = [tx.work EXCEPT !.orders[c] = n]
    OBVIOUS
  <2>2. tx' = [tx EXCEPT !.work = Advance(new, c)]
    <3>1. [tx.work EXCEPT !.orders[c].st = "REJECTED"] = new
      BY <1>2, <2>1 DEF RowsInv, RowsType
    <3> QED BY <1>7, <3>1
  <2>3. /\ n \in OrderType /\ n.st = "REJECTED" /\ n.intent = o.intent
        /\ n.acceptedAt = o.acceptedAt /\ n.filled = o.filled /\ n.lastObs = o.lastObs
        /\ n.cancelledAt = o.cancelledAt /\ n.named = o.named
        /\ n.reduceOnly = o.reduceOnly /\ n.bound = o.bound
    BY <1>2 DEF OrderType
  <2>4. Rewritten(tx.work, new, c, n)
    BY <1>2, <2>1, UpdateShape
  <2>5. o.st = "ACKNOWLEDGED"
    BY <1>1 DEF NextDue, Due, Working
  <2> HIDE DEF n
  <2>6. SameOrder(o, n)
    BY <2>3, <2>5 DEF SameOrder, Exists
  <2>7. BoundTrade(tx.work.acct, o) /\ (~Exists(o) => o.filled = 0)
    BY <1>3 DEF LedgerInv, OrdersKept
  <2>8. ContractHeld(tx.work.acct, o, n)
    BY <2>6, <2>7, SameOrderHeld
  <2>9. LedgerInv(new)
    BY <1>2, <1>3, <2>4, <2>8, RewrittenLedger
  <2>10. RowsInv(new)
    <3>1. OrderInv(n) /\ OrderMayBecome(o, n)
      <4>1. OrderInv(o)
        BY <1>2 DEF RowsInv
      <4>2. Cursor(n) = Cursor(o) /\ Cursor(o) \in Nat /\ o.filled \in Nat
        BY <1>2, <2>3 DEF Cursor, OrderType
      <4> QED BY <2>3, <2>5, <4>1, <4>2 DEF OrderMayBecome, OrderInv, WellNamed, Exists
    <3>2. n \in OrderType /\ RowsInv(tx.work)
      BY <1>2, <2>3
    <3> QED BY <2>1, <3>1, <3>2, OneOrderUpdated
  <2>11. ASSUME ~AcceptsExternalFills
         PROVE  /\ PaperInv(new, clock, candle) /\ tx.at < clock /\ tx.at # Never
                /\ new.orders[c].st = "REJECTED"
    <3>1. /\ PaperInv(tx.work, clock, candle) /\ tx.at < clock /\ tx.at # Never
          /\ o.filled = 0
      BY <1>1, <2>11, DueOrder
    <3>2. PaperOrder(o, clock, candle) /\ SameOutcome(o, n)
      BY <3>1 DEF PaperInv, SameOutcome
    <3>3. PaperHeld(o, n, clock, candle)
      BY <2>6, <3>2, SameOrderHeld
    <3>4. PaperInv(new, clock, candle)
      BY <1>2, <2>4, <3>1, <3>3, RewrittenPaper
    <3> QED BY <2>3, <2>4, <3>1, <3>4 DEF Rewritten
  <2>12. /\ LedgerInv(Advance(new, c))
         /\ ~AcceptsExternalFills => PaperInv(Advance(new, c), clock, candle)
    BY <2>9, <2>10, <2>11, AdvanceBooks
  <2> QED BY <1>1, <1>2, <2>2, <2>12, WorkBooks
<1> QED BY <1>4, <1>5, <1>6, <1>7 DEF ObserveOrder

\* The other steps of an observation: begin, next candle, commit.
LEMMA ObserveBooks ==
    ASSUME IInv, LInv,
           \/ \E s \in Symbols, first \in 1..MaxMinute : ObserveBegin(s, first)
           \/ ObserveNext \/ ObserveCommit
    PROVE  LInv'
<1>1. ASSUME NEW s \in Symbols, NEW first \in 1..MaxMinute, ObserveBegin(s, first)
      PROVE  LInv'
  <2>1. PICK now \in Readings :
          tx' = [open |-> TRUE, sym |-> s, at |-> first, cutoff |-> now, work |-> ledger]
    BY <1>1 DEF ObserveBegin
  <2>2. tx'.work = ledger /\ UNCHANGED <<clock, candle, ledger>>
    BY <1>1, <2>1 DEF ObserveBegin
  <2> QED BY <2>2 DEF LInv
<1>2. CASE ObserveNext
  <2>1. tx.open /\ tx' = [tx EXCEPT !.at = @ + 1] /\ UNCHANGED <<clock, candle, ledger>>
    BY <1>2 DEF ObserveNext, Observing
  <2>2. tx \in [open : {TRUE}, sym : Symbols, at : Nat, cutoff : Nat, work : RowsType]
    BY <2>1, OpenTx
  <2>3. tx'.work = tx.work
    BY <2>1, <2>2
  <2> QED BY <2>1, <2>3 DEF LInv
<1>3. CASE ObserveCommit
  BY <1>3 DEF ObserveCommit, LInv
<1> QED BY <1>1, <1>2, <1>3

\* A minute closes.
LEMMA TickBooks ==
    ASSUME IInv, LInv, Tick
    PROVE  LInv'
<1>1. PICK new \in [Symbols -> Candles[clock]] :
        candle' = [s \in Symbols |-> Append(candle[s], new[s])]
  BY DEF Tick
<1>2. ~tx.open /\ clock' = clock + 1 /\ clock < MaxMinute /\ UNCHANGED <<ledger, tx>>
  BY DEF Tick, Unlocked
<1>3. /\ clock \in Nat \ {0} /\ candle \in [Symbols -> Seq(CandleType)]
      /\ \A s \in Symbols : Len(candle[s]) = clock - 1
      /\ Candles[clock] \subseteq CandleType
  <2>1. /\ clock \in 1..MaxMinute /\ MaxMinute \in Nat
        /\ candle \in [Symbols -> Seq(CandleType)]
        /\ \A s \in Symbols : Len(candle[s]) = clock - 1
    BY <1>2, GatewayAssumption DEF IInv, TypeOK
  <2>2. Candles[clock] \subseteq CandleType
    BY <2>1, GatewayAssumption
  <2> QED BY <2>1, <2>2
<1>4. ASSUME NEW s \in Symbols, NEW k \in 1..clock - 1
      PROVE  candle'[s][k] = candle[s][k]
  <2>1. new[s] \in CandleType /\ candle[s] \in Seq(CandleType) /\ k \in 1..Len(candle[s])
    BY <1>3
  <2>2. Append(candle[s], new[s])[k] = candle[s][k]
    BY <2>1, AppendProperties
  <2> QED BY <1>1, <2>2
<1>5. RowsInv(ledger) /\ LedgerInv(ledger) /\ FillsKept(ledger)
  BY DEF IInv, LInv, LedgerInv
<1>6. ~AcceptsExternalFills => PaperInv(ledger, clock + 1, candle')
  <2>1. PICK later : later = candle'
    OBVIOUS
  <2>2. clock \in Nat /\ \A s \in Symbols : \A k \in 1..clock - 1 : later[s][k] = candle[s][k]
    BY <1>3, <1>4, <2>1
  <2>3. ASSUME ~AcceptsExternalFills PROVE PaperInv(ledger, clock + 1, later)
    <3>1. PaperInv(ledger, clock, candle)
      BY <2>3 DEF LInv
    <3> QED BY <3>1, <2>2, <1>5, TickPaper
  <2> QED BY <2>1, <2>3
<1> QED BY <1>2, <1>5, <1>6 DEF LInv

\* Every step keeps the books.
LEMMA NextBooks == IInv /\ LInv /\ [Next]_vars => LInv'
<1> SUFFICES ASSUME IInv, LInv, [Next]_vars PROVE LInv'
  OBVIOUS
<1>1. CASE Tick
  BY <1>1, TickBooks
<1>2. ASSUME NEW c \in Commands, NEW intent \in Intents[c], SubmitOrder(c, intent)
      PROVE  LInv'
  BY <1>2, SubmitOrderBooks
<1>3. ASSUME NEW c \in Commands, NEW receipt \in Receipts,
             SubmissionAnswered(c, receipt) \/ ReconcileSubmission(c, receipt)
      PROVE  LInv'
  BY <1>3, SaveSubmissionBooks DEF SubmissionAnswered, ReconcileSubmission, Unlocked
<1>4. ASSUME NEW c \in Commands, CancelOrder(c)
      PROVE  LInv'
  BY <1>4, BooksUnchanged DEF CancelOrder
<1>5. ASSUME NEW c \in Commands, NEW result \in CancelResults, CancelAnswered(c, result)
      PROVE  LInv'
  BY <1>5, CancelAnsweredBooks
<1>6. ASSUME NEW c \in Commands, NEW id \in ExternalFillIds, NEW content \in Events,
             AdmitEvent(c, id, content)
      PROVE  LInv'
  BY <1>6, AdmitEventBooks
<1>7. ASSUME NEW c \in Commands, ObserveGap(c) \/ ObserveOrder(c) \/ ObserveRaise(c)
      PROVE  LInv'
  <2>1. CASE ObserveOrder(c)
    BY <2>1, ObserveOrderBooks
  <2>2. CASE Rollback
    <3>1. ~tx'.open /\ UNCHANGED <<clock, candle, ledger>>
      BY <2>2 DEF Rollback
    <3> QED BY <3>1, BooksUnchanged
  <2> QED BY <1>7, <2>1, <2>2 DEF ObserveGap, ObserveRaise
<1>8. ASSUME \/ \E s \in Symbols, first \in 1..MaxMinute : ObserveBegin(s, first)
             \/ ObserveNext \/ ObserveCommit
      PROVE  LInv'
  BY <1>8, ObserveBooks
<1>9. CASE CloseAccount
  BY <1>9, BooksUnchanged DEF CloseAccount
<1>10. CASE Crash
  <2>1. ~tx'.open /\ UNCHANGED <<clock, candle, ledger>>
    BY <1>10 DEF Crash
  <2> QED BY <2>1, BooksUnchanged
<1>11. CASE UNCHANGED vars
  BY <1>11, BooksUnchanged DEF vars
<1> QED
  BY <1>1, <1>2, <1>3, <1>4, <1>5, <1>6, <1>7, <1>8, <1>9, <1>10, <1>11 DEF Next

-----------------------------------------------------------------------------
(* The theorems *)

\* The books hold in every reachable state.
THEOREM BooksInvariance == Spec => [](IInv /\ LInv)
<1>1. Init => LInv
  BY InitLInv
<1>2. IInv /\ LInv /\ [Next]_vars => LInv'
  BY NextBooks
<1> QED BY <1>1, <1>2, Invariance, PTL DEF Spec

\* Cash, positions, trades and orders add up to the fills, for any number of
\* fills, whatever was cancelled, rejected, rolled back or lost in between.
THEOREM LedgerBalances == Spec => []LedgerReconciles
<1>1. LInv => LedgerReconciles
  BY DEF LInv, LedgerInv, LedgerReconciles
<1> QED BY <1>1, BooksInvariance, PTL

\* A close closes the trade it was bound to and nothing else turns a position
\* around, however many orders race for it.
THEOREM NoReversal == Spec => []NoImplicitReversal
<1>1. LInv => NoImplicitReversal
  BY DEF LInv, LedgerInv, FillsKept, FillKept, NoImplicitReversal
<1> QED BY <1>1, BooksInvariance, PTL

\* A paper order is filled once and whole, or never.
THEOREM OneOutcome == Spec => []OneOutcomePerOrder
<1>1. LInv => OneOutcomePerOrder
  <2> SUFFICES ASSUME LInv, ~AcceptsExternalFills, NEW c \in Commands
               PROVE  LET o == ledger.orders[c]
                          own == {i \in 1..Len(ledger.fills) : ledger.fills[i].order = c}
                      IN  /\ o.filled \in {0, o.intent.qty}
                          /\ o.st = "REJECTED" \/ o.cancelledAt # Never => o.filled = 0
                          /\ o.filled = 0 <=> own = {}
                          /\ \A i, j \in own : i = j /\ ledger.fills[i].qty = o.filled
    BY DEF OneOutcomePerOrder
  <2> DEFINE o == ledger.orders[c]
             own == {i \in 1..Len(ledger.fills) : ledger.fills[i].order = c}
  <2>1. PaperInv(ledger, clock, candle)
    BY DEF LInv
  <2>2. /\ o.filled \in {0, o.intent.qty}
        /\ o.st = "REJECTED" \/ o.cancelledAt # Never => o.filled = 0
    BY <2>1 DEF PaperInv, PaperOrder
  <2>3. \A i \in own : ledger.fills[i].qty = o.filled /\ o.filled # 0
    BY <2>1 DEF PaperInv, PaperFill
  <2>4. o.filled # 0 => own # {}
    BY <2>1 DEF PaperInv, FillsOfOrders
  <2>5. \A i, j \in own : i = j
    BY <2>1 DEF PaperInv, FillsOfOrders
  <2> QED BY <2>2, <2>3, <2>4, <2>5
<1> QED BY <1>1, BooksInvariance, PTL

\* A paper order is filled on the first candle that touches it, however late
\* the observation ran.
THEOREM FirstTouchFills == Spec => []FilledOnFirstTouch
<1>1. IInv /\ LInv => FilledOnFirstTouch
  <2> SUFFICES ASSUME IInv, LInv, ~AcceptsExternalFills, NEW i \in 1..Len(ledger.fills)
               PROVE  LET f == ledger.fills[i]
                          o == ledger.orders[f.order]
                          m == f.filledAt - 1
                          touched == {k \in o.acceptedAt + 1 .. clock - 1 :
                                        Touches(o.intent, candle[f.sym][k])}
                      IN  /\ m \in touched /\ \A k \in touched : m <= k
                          /\ f.price = FillPrice(o.intent, candle[f.sym][m])
    BY DEF FilledOnFirstTouch
  <2> DEFINE f == ledger.fills[i]
             o == ledger.orders[f.order]
             m == f.filledAt - 1
  <2>1. PaperFill(ledger, f, clock, candle) /\ FillKept(ledger, f)
    BY DEF LInv, PaperInv, LedgerInv, FillsKept
  <2>2. f.order \in Commands /\ f.filledAt \in Nat
    <3>1. f \in FillType
      BY DEF IInv, RowsInv, RowsType
    <3> QED BY <3>1 DEF FillType
  <2>3. o.acceptedAt \in Nat
    <3>1. o \in OrderType
      BY <2>2, OrdersTyped DEF IInv
    <3> QED BY <3>1 DEF OrderType
  <2> HIDE DEF f
  <2>4. /\ m \in o.acceptedAt + 1 .. clock - 1 /\ Touches(o.intent, candle[f.sym][m])
        /\ Untouched(o, m - 1, candle) /\ f.sym = o.intent.sym
        /\ f.price = FillPrice(o.intent, candle[f.sym][m])
    BY <2>1 DEF PaperFill, FillKept
  <2>5. ASSUME NEW k \in o.acceptedAt + 1 .. clock - 1, Touches(o.intent, candle[f.sym][k])
        PROVE  m <= k
    <3> SUFFICES ASSUME ~(m <= k) PROVE FALSE
      OBVIOUS
    <3>1. k \in o.acceptedAt + 1 .. m - 1
      BY <2>2, <2>3
    <3> QED BY <2>4, <2>5, <3>1 DEF Untouched
  <2> QED BY <2>4, <2>5 DEF f
<1> QED BY <1>1, BooksInvariance, PTL

\* An account without a short trade never owes money, provided that no
\* connector charges more for a fill than the fill is worth.
THEOREM LongOnlyCovered ==
    ASSUME FeesBelowNotional
    PROVE  Spec => []LongOnlyIsCollateralised
<1>1. LInv => LongOnlyIsCollateralised
  BY DEF LInv, LedgerInv, Collateralised, LongOnlyIsCollateralised
<1> QED BY <1>1, BooksInvariance, PTL

-----------------------------------------------------------------------------
(* Reads as of a cutoff *)

\* What holds at first, and after each of N steps if it did before, holds after all.
LEMMA UpTo ==
    ASSUME NEW N \in Nat, NEW G, 0 \in G, \A n \in 1..N : n - 1 \in G => n \in G
    PROVE  \A n \in 0..N : n \in G
<1> DEFINE bad == {n \in 0..N : n \notin G}
<1>1. CASE bad = {}
  BY <1>1
<1>2. CASE bad # {}
  <2>1. bad \in SUBSET Nat
    OBVIOUS
  <2>2. PICK m \in bad : \A k \in bad : m <= k
    <3> HIDE DEF bad
    <3> QED BY <1>2, <2>1, LeastNat
  <2>3. m \in 1..N /\ m \notin G
    BY <2>2
  <2>4. m - 1 \in 0..N /\ ~(m <= m - 1)
    BY <2>3
  <2>5. m - 1 \in G
    BY <2>2, <2>4
  <2> QED BY <2>3, <2>5
<1> QED BY <1>1, <1>2

\* a follows the account from its creation through the first N fills.
Follows(a, fills, N) ==
    /\ a[0] = NewAccount(1)
    /\ \A n \in 1..N : FillError(a[n - 1], fills[n]) = "none" /\ a[n] = ApplyFill(a[n - 1], fills[n])

\* The account is what its fills make of a new one, none of them later than now.
Replayed(rows, now) ==
    /\ rows.acct.updated <= now
    /\ \E a : Follows(a, rows.fills, Len(rows.fills)) /\ rows.acct = a[Len(rows.fills)]

\* A fill row says what its event said.
SameFill(e, f) ==
    /\ e.sym = f.sym /\ e.side = f.side /\ e.price = f.price /\ e.qty = f.qty /\ e.fee = f.fee
    /\ e.seq = f.seq /\ e.filledAt = f.filledAt /\ e.receivedAt = f.receivedAt

\* The account depends on what the event says and not on the row's id.
LEMMA SameEffect ==
    ASSUME NEW e, NEW f, SameFill(e, f), NEW account
    PROVE  FillError(account, e) = FillError(account, f) /\ ApplyFill(account, e) = ApplyFill(account, f)
<1>1. /\ Notional(e) = Notional(f) /\ SignedNotional(e) = SignedNotional(f)
      /\ Increasing(account, e) = Increasing(account, f) /\ Direction(e.side) = Direction(f.side)
      /\ \A gross : CashChange(gross, e) = CashChange(gross, f)
      /\ \A p : CloseTime(p, e) = CloseTime(p, f)
  BY DEF SameFill, Notional, SignedNotional, Increasing, CashChange, CloseTime
<1>2. FillError(account, e) = FillError(account, f)
  BY <1>1 DEF SameFill, FillError, UnorderedAdmission, UnorderedFill, Insufficient
<1>3. OpenFill(account, e) = OpenFill(account, f)
  BY <1>1 DEF SameFill, OpenFill
<1>4. IncreaseFill(account, e) = IncreaseFill(account, f)
  BY <1>1 DEF SameFill, IncreaseFill
<1>5. ReduceFill(account, e) = ReduceFill(account, f)
  <2> DEFINE p == account.pos[f.sym]
             t == account.trades[p.trade]
             Gross(x, part) == IF p.dir = "LONG" THEN x - part ELSE part - x
             Reduced(qty, part, gross, fee, until, flow, change) ==
                [account EXCEPT !.trades[p.trade] = [t EXCEPT !.gross = @ + gross, !.fees = @ + fee,
                                                              !.closedAt = until, !.flow = @ + flow],
                                !.pos[f.sym] = [p EXCEPT !.qty = @ - qty, !.basis = @ - part],
                                !.cash = @ + change]
             Outcome(x) ==
                LET part == Allocated(p, x.qty)
                    gross == Gross(Notional(x), part)
                IN  Reduced(x.qty, part, gross, x.fee, CloseTime(p, x), SignedNotional(x),
                            CashChange(gross, x))
  <2>1. ReduceFill(account, e) = Outcome(e) /\ ReduceFill(account, f) = Outcome(f)
    BY e.sym = f.sym DEF SameFill, ReduceFill
  <2> HIDE DEF Reduced, Gross
  <2>2. Outcome(e) = Outcome(f)
    BY <1>1 DEF SameFill
  <2> QED BY <2>1, <2>2
<1>6. ApplyFill(account, e) = ApplyFill(account, f)
  BY <1>1, <1>3, <1>4, <1>5 DEF SameFill, ApplyFill
<1> QED BY <1>2, <1>6

\* admit appends the fill that takes the account one step further.
LEMMA AdmitReplayed ==
    ASSUME NEW rows, RowsInv(rows), NEW event \in EventType, AdmitError(rows, event) = "none",
           NEW now, event.receivedAt <= now, Replayed(rows, now)
    PROVE  Replayed(Admit(rows, event), now)
<1>1. PICK new : new = Admit(rows, event)
  OBVIOUS
<1>2. PICK N : N = Len(rows.fills)
  OBVIOUS
<1>3. PICK row : row = FillRow(new.acct, event)
  OBVIOUS
<1>4. /\ N \in Nat /\ Len(new.fills) = N + 1 /\ new.fills[N + 1] = row
      /\ \A i \in 1..N : new.fills[i] = rows.fills[i]
  <2>1. Admitted(rows, new, event)
    BY <1>1, AdmitShape
  <2> QED BY <2>1, <1>2, <1>3 DEF Admitted
<1>5. new.acct = ApplyFill(rows.acct, event)
  <2>1. rows \in RowsType
    BY DEF RowsInv
  <2> HIDE DEF RowsInv
  <2> QED BY <1>1, <2>1 DEF Admit, RowsType
<1>6. SameFill(event, row)
  BY <1>3 DEF SameFill, FillRow
<1>7. /\ FillError(rows.acct, row) = "none" /\ new.acct = ApplyFill(rows.acct, row)
  BY <1>5, <1>6, SameEffect, AdmitErrorFacts
<1>8. new.acct.updated = event.receivedAt
  BY <1>5, AdmitErrorFacts, ApplyFillInv DEF RowsInv
<1>9. PICK a : Follows(a, rows.fills, N) /\ rows.acct = a[N]
  BY <1>2 DEF Replayed
<1>10. PICK b : b = [n \in 0..N + 1 |-> IF n = N + 1 THEN new.acct ELSE a[n]]
  OBVIOUS
<1>11. b[N + 1] = new.acct /\ \A n \in 0..N : b[n] = a[n]
  BY <1>4, <1>10
<1>12. ASSUME NEW n \in 1..N + 1
       PROVE  FillError(b[n - 1], new.fills[n]) = "none" /\ b[n] = ApplyFill(b[n - 1], new.fills[n])
  <2>1. CASE n = N + 1
    <3>1. n - 1 = N /\ N \in 0..N
      BY <1>4, <2>1
    <3> QED BY <2>1, <3>1, <1>4, <1>7, <1>9, <1>11
  <2>2. CASE n # N + 1
    <3>1. n \in 1..N /\ n \in 0..N /\ n - 1 \in 0..N
      BY <1>4, <2>2
    <3> QED BY <3>1, <1>4, <1>9, <1>11 DEF Follows
  <2> QED BY <2>1, <2>2
<1>13. Follows(b, new.fills, N + 1)
  BY <1>4, <1>9, <1>11, <1>12 DEF Follows
<1> QED BY <1>1, <1>4, <1>8, <1>11, <1>13 DEF Replayed

\* The replay of a read finds each of the first k fills at its place.
LEMMA ReadPrefix ==
    ASSUME NEW k \in 0..Len(ledger.fills), Len(ledger.fills) \in Nat,
           FillsInOrder(ledger), ledger.fills \in Seq(FillType), NEW cutoff,
           {i \in 1..Len(ledger.fills) : ledger.fills[i].receivedAt <= cutoff} = 1..k
    PROVE  VisibleFills(cutoff) = [n \in 1..k |-> ledger.fills[n]]
<1> DEFINE fills == ledger.fills
           N == Len(ledger.fills)
           before(i) == {j \in 1..k : Earlier(fills[j], fills[i])}
           place(n) == CHOOSE i \in 1..k : Cardinality(before(i)) = n - 1
<1>1. ASSUME NEW i \in 1..k
      PROVE  before(i) = 1..i - 1 /\ Cardinality(before(i)) = i - 1
  <2>1. ASSUME NEW j \in 1..k
        PROVE  Earlier(fills[j], fills[i]) <=> j < i
    <3>1. /\ fills[i] \in FillType /\ fills[j] \in FillType /\ i \in 1..N /\ j \in 1..N
      OBVIOUS
    <3>2. /\ fills[i].seq \in Nat /\ fills[j].seq \in Nat
          /\ fills[i].filledAt \in Nat /\ fills[j].filledAt \in Nat
      BY <3>1 DEF FillType
    <3>3. i < j => fills[i].seq < fills[j].seq /\ fills[i].filledAt <= fills[j].filledAt
      BY <3>1 DEF FillsInOrder
    <3>4. j < i => fills[j].seq < fills[i].seq /\ fills[j].filledAt <= fills[i].filledAt
      BY <3>1 DEF FillsInOrder
    <3> HIDE DEF fills
    <3> QED BY <3>1, <3>2, <3>3, <3>4 DEF Earlier
  <2> HIDE DEF fills
  <2>2. before(i) = 1..i - 1
    BY <2>1
  <2> HIDE DEF before
  <2>3. Cardinality(1..i - 1) = i - 1
    BY FS_Interval
  <2> QED BY <2>2, <2>3
<1>2. ASSUME NEW n \in 1..k
      PROVE  place(n) = n
  <2> HIDE DEF before
  <2>1. Cardinality(before(n)) = n - 1
    BY <1>1
  <2>2. \E i \in 1..k : Cardinality(before(i)) = n - 1
    BY <2>1
  <2>3. place(n) \in 1..k /\ Cardinality(before(place(n))) = n - 1
    BY <2>2
  <2> HIDE DEF place
  <2>4. Cardinality(before(place(n))) = place(n) - 1
    BY <2>3, <1>1
  <2> QED BY <2>3, <2>4
<1>3. Cardinality(1..k) = k
  BY FS_Interval
<1>4. VisibleFills(cutoff) = [n \in 1..k |-> fills[place(n)]]
  <2> DEFINE Visible == {i \in 1..N : fills[i].receivedAt <= cutoff}
             Sorted(V) == [n \in 1..Cardinality(V) |->
                fills[CHOOSE i \in V : Cardinality({j \in V : Earlier(fills[j], fills[i])}) = n - 1]]
  <2>1. VisibleFills(cutoff) = Sorted(Visible)
    BY DEF VisibleFills
  <2>2. Sorted(Visible) = Sorted(1..k)
    <3>1. Visible = 1..k
      OBVIOUS
    <3> HIDE DEF Visible, Sorted
    <3> QED BY <3>1
  <2>3. Sorted(1..k) = [n \in 1..k |-> fills[place(n)]]
    BY <1>3
  <2> QED BY <2>1, <2>2, <2>3
<1> HIDE DEF place, fills
<1>5. [n \in 1..k |-> fills[place(n)]] = [n \in 1..k |-> fills[n]]
  BY <1>2
<1> QED BY <1>4, <1>5 DEF fills

\* It goes the way the account went.
LEMMA ReadFollows ==
    ASSUME NEW k \in Nat, NEW cutoff, VisibleFills(cutoff) = [n \in 1..k |-> ledger.fills[n]],
           NEW a, Follows(a, ledger.fills, k)
    PROVE  /\ Len(VisibleFills(cutoff)) = k
           /\ \A n \in 0..k : Replay(cutoff)[n] = a[n]
<1>1. PICK rows : rows = VisibleFills(cutoff)
  OBVIOUS
<1>2. Len(rows) = k /\ \A n \in 1..k : rows[n] = ledger.fills[n]
  BY <1>1
<1> DEFINE step(f, n) == IF n = 0 THEN NewAccount(1) ELSE ApplyFill(f[n - 1], rows[n])
           Goes(f) == f = [n \in 0..k |-> step(f, n)]
<1>3. PICK g : g = [n \in 0..k |-> a[n]]
  OBVIOUS
<1>4. Goes(g)
  <2>1. ASSUME NEW n \in 0..k PROVE a[n] = step(g, n)
    <3>1. CASE n = 0
      BY <3>1 DEF Follows
    <3>2. CASE n # 0
      <4>1. n \in 1..k /\ n - 1 \in 0..k
        BY <3>2
      <4>2. g[n - 1] = a[n - 1]
        BY <4>1, <1>3
      <4> QED BY <3>2, <4>1, <4>2, <1>2 DEF Follows
    <3> QED BY <3>1, <3>2
  <2> HIDE DEF step
  <2> QED BY <2>1, <1>3
<1>5. Replay(cutoff) = CHOOSE f : Goes(f)
  BY <1>1, <1>2 DEF Replay
<1>6. PICK f : f = Replay(cutoff)
  OBVIOUS
<1>7. Goes(f)
  <2> HIDE DEF Goes
  <2> QED BY <1>4, <1>5, <1>6
<1> DEFINE G == {n \in 0..k : f[n] = a[n]}
<1>8. ASSUME NEW n \in 0..k PROVE f[n] = step(f, n)
  <2> HIDE DEF step
  <2> QED BY <1>7
<1>9. 0 \in G
  <2>1. f[0] = step(f, 0)
    BY <1>8
  <2> QED BY <2>1 DEF Follows
<1>10. ASSUME NEW n \in 1..k, n - 1 \in G PROVE n \in G
  <2>1. f[n] = step(f, n) /\ n # 0
    BY <1>8
  <2>2. f[n] = ApplyFill(f[n - 1], rows[n])
    BY <2>1
  <2>3. a[n] = ApplyFill(a[n - 1], rows[n])
    BY <1>2 DEF Follows
  <2> QED BY <1>10, <2>2, <2>3
<1>11. \A n \in 0..k : n \in G
  <2> HIDE DEF G
  <2> QED BY <1>9, <1>10, UpTo
<1> QED BY <1>1, <1>2, <1>6, <1>11

\* The fills received up to a cutoff, and that they come before the others.
Received(fills, N, cutoff) == {i \in 1..N : fills[i].receivedAt <= cutoff}
ReceivedInOrder(fills, N, cutoff) ==
    \A i, j \in 1..N : i < j /\ fills[j].receivedAt <= cutoff => fills[i].receivedAt <= cutoff

\* What is received up to a cutoff is received first.
LEMMA ReceivedFirst ==
    ASSUME NEW N \in Nat, NEW fills, NEW cutoff, ReceivedInOrder(fills, N, cutoff)
    PROVE  \E k \in 0..N : Received(fills, N, cutoff) = 1..k
<1> DEFINE late == {i \in 1..N + 1 : i = N + 1 \/ ~(fills[i].receivedAt <= cutoff)}
<1>1. late \in SUBSET Nat /\ N + 1 \in late
  OBVIOUS
<1>2. PICK m \in late : \A y \in late : m <= y
  <2> HIDE DEF late
  <2> QED BY <1>1, LeastNat
<1>3. m - 1 \in 0..N
  OBVIOUS
<1>4. ASSUME NEW i \in 1..N
      PROVE  fills[i].receivedAt <= cutoff <=> i \in 1..m - 1
  <2>1. CASE i < m
    <3>1. i \notin late
      BY <2>1, <1>2
    <3> QED BY <2>1, <3>1
  <2>2. CASE i = m
    BY <2>2
  <2>3. CASE m < i
    BY <2>3 DEF ReceivedInOrder
  <2> QED BY <2>1, <2>2, <2>3
<1>5. {i \in 1..N : fills[i].receivedAt <= cutoff} = 1..m - 1
  BY <1>3, <1>4
<1> QED BY <1>3, <1>5 DEF Received

\* A read at cutoff replays the first k fills as a does.
Reads(a, k, cutoff) ==
    /\ Received(ledger.fills, Len(ledger.fills), cutoff) = 1..k
    /\ VisibleFills(cutoff) = [n \in 1..k |-> ledger.fills[n]]
    /\ Len(VisibleFills(cutoff)) = k
    /\ \A n \in 0..k : Replay(cutoff)[n] = a[n]

\* A read replays all fills up to its cutoff without a refusal, at the present all
\* there are.
LEMMA ReadMatches ==
    ASSUME RowsInv(ledger), Replayed(ledger, clock), clock \in Nat
    PROVE  ReplayMatchesLedger
<1>1. PICK N : N = Len(ledger.fills)
  OBVIOUS
<1>2. /\ ledger.fills \in Seq(FillType) /\ N \in Nat /\ FillsInOrder(ledger)
      /\ \A i \in 1..N : ledger.fills[i] \in FillType /\ ledger.fills[i].receivedAt \in Nat
  <2>1. ledger.fills \in Seq(FillType) /\ N \in Nat /\ FillsInOrder(ledger)
    BY <1>1 DEF RowsInv, RowsType
  <2>2. \A i \in 1..N : ledger.fills[i] \in FillType
    BY <1>1, <2>1
  <2> QED BY <2>1, <2>2 DEF FillType
<1>3. PICK a : Follows(a, ledger.fills, N) /\ ledger.acct = a[N]
  BY <1>1 DEF Replayed
<1>4. ASSUME NEW cutoff \in Nat
      PROVE  \E k \in 0..N : Reads(a, k, cutoff)
  <2>1. ASSUME NEW i \in 1..N, NEW j \in 1..N, i < j, ledger.fills[j].receivedAt <= cutoff
        PROVE  ledger.fills[i].receivedAt <= cutoff
    <3>1. ledger.fills[i].receivedAt <= ledger.fills[j].receivedAt
      BY <1>1, <1>2, <2>1 DEF FillsInOrder
    <3> QED BY <1>2, <2>1, <3>1
  <2>2. ReceivedInOrder(ledger.fills, N, cutoff)
    BY <2>1 DEF ReceivedInOrder
  <2>3. PICK k \in 0..N : Received(ledger.fills, N, cutoff) = 1..k
    BY <1>2, <2>2, ReceivedFirst
  <2>4. VisibleFills(cutoff) = [n \in 1..k |-> ledger.fills[n]]
    BY <1>1, <1>2, <2>3, ReadPrefix DEF Received
  <2>5. k \in Nat /\ Follows(a, ledger.fills, k)
    BY <1>2, <1>3, <2>3 DEF Follows
  <2>6. /\ Len(VisibleFills(cutoff)) = k
        /\ \A n \in 0..k : Replay(cutoff)[n] = a[n]
    BY <2>4, <2>5, ReadFollows
  <2>7. Reads(a, k, cutoff)
    BY <1>1, <2>3, <2>4, <2>6 DEF Reads
  <2> QED BY <2>7
<1>5. ASSUME NEW cutoff \in 1..clock
      PROVE  ~AsOfRefused(cutoff)
  <2>1. PICK k \in 0..N : Reads(a, k, cutoff)
    BY <1>4
  <2>2. ASSUME NEW n \in 1..k
        PROVE  FillError(Replay(cutoff)[n - 1], VisibleFills(cutoff)[n]) = "none"
    <3>1. n - 1 \in 0..k /\ n \in 1..N
      BY <1>2
    <3>2. Replay(cutoff)[n - 1] = a[n - 1] /\ VisibleFills(cutoff)[n] = ledger.fills[n]
      BY <2>1, <3>1 DEF Reads
    <3> QED BY <1>3, <3>1, <3>2 DEF Follows
  <2> QED BY <2>1, <2>2 DEF AsOfRefused, Reads
<1>6. AsOfAccount(clock) = ledger.acct
  <2>1. PICK k \in 0..N : Reads(a, k, clock)
    BY <1>4
  <2>2. ASSUME NEW i \in 1..N
        PROVE  ledger.fills[i].receivedAt <= clock
    <3>1. ledger.fills[i].receivedAt <= ledger.acct.updated /\ ledger.acct.updated <= clock
      BY <1>1 DEF RowsInv, FillsUpToAccount, Replayed
    <3>2. ledger.acct.updated \in Nat
      BY DEF RowsInv, AccountInv, AccountType
    <3> QED BY <1>2, <3>1, <3>2
  <2>3. k = N
    <3>1. 1..N = 1..k
      BY <1>1, <2>1, <2>2 DEF Reads, Received
    <3> QED BY <3>1, <1>2
  <2> QED BY <2>1, <2>3, <1>2, <1>3 DEF AsOfAccount, Reads
<1> QED BY <1>5, <1>6 DEF ReplayMatchesLedger

-----------------------------------------------------------------------------
(* The replay is kept by every step *)

RInv == Replayed(ledger, clock) /\ (tx.open => Replayed(tx.work, clock))

\* The same account and fills.
SameBooks(rows, new) == new.acct = rows.acct /\ new.fills = rows.fills

\* Neither the orders nor the time that passes change a replay.
LEMMA SameReplay ==
    ASSUME NEW rows, NEW new, SameBooks(rows, new), NEW now \in Nat, NEW later \in Nat,
           now <= later, RowsInv(rows), Replayed(rows, now)
    PROVE  Replayed(new, later)
<1>1. rows.acct.updated \in Nat
  BY DEF RowsInv, AccountInv, AccountType
<1>2. new.acct.updated <= later
  BY <1>1 DEF SameBooks, Replayed
<1> QED BY <1>2 DEF SameBooks, Replayed

\* A new account has no fills.
LEMMA InitReplay == Init => RInv
<1> SUFFICES ASSUME Init PROVE RInv
  OBVIOUS
<1>1. ledger.fills = << >> /\ ledger.acct = NewAccount(1) /\ clock = 1 /\ ~tx.open
  BY DEF Init
<1>2. Len(ledger.fills) = 0
  BY <1>1
<1>3. PICK a : a = [n \in {0} |-> NewAccount(1)]
  OBVIOUS
<1>4. Follows(a, ledger.fills, 0) /\ ledger.acct = a[0]
  BY <1>1, <1>3 DEF Follows
<1>5. ledger.acct.updated <= clock
  BY <1>1 DEF NewAccount
<1> QED BY <1>1, <1>2, <1>4, <1>5 DEF RInv, Replayed

\* The clock of typed states.
LEMMA ClockTyped == IInv => clock \in Nat /\ RowsInv(ledger)
BY GatewayAssumption DEF IInv, TypeOK

\* A transaction that leaves the account and its fills alone.
LEMMA SameBooksReplay ==
    ASSUME IInv, RInv, UNCHANGED clock, SameBooks(ledger, ledger'), tx' = tx \/ ~tx'.open
    PROVE  RInv'
<1>1. Replayed(ledger', clock')
  <2>1. PICK new : new = ledger'
    OBVIOUS
  <2>2. Replayed(new, clock)
    BY <2>1, ClockTyped, SameReplay DEF RInv
  <2> QED BY <2>1, <2>2
<1>2. CASE tx' = tx
  BY <1>1, <1>2 DEF RInv
<1>3. CASE ~tx'.open
  BY <1>1, <1>3 DEF RInv
<1> QED BY <1>2, <1>3

\* Orders are submitted, acknowledged and cancelled without a trace in the account.
LEMMA SubmitOrderReplay ==
    ASSUME IInv, RInv, NEW c \in Commands, NEW intent \in Intents[c], SubmitOrder(c, intent)
    PROVE  RInv'
<1>1. PICK n : ledger' = [ledger EXCEPT !.orders[c] = n, !.cmdSeq = @ + 1]
  BY DEF SubmitOrder
<1>2. ledger' = WithOrder(ledger, c, n, ledger.cmdSeq + 1)
  BY <1>1, ClockTyped DEF WithOrder, RowsInv, RowsType
<1>3. Rewritten(ledger, ledger', c, n)
  BY <1>2, ClockTyped, UpdateShape
<1> QED BY <1>3, SameBooksReplay DEF SubmitOrder, Rewritten, SameBooks

\* A receipt is written to the order row only.
LEMMA SaveSubmissionReplay ==
    ASSUME IInv, RInv, NEW c \in Commands, NEW receipt \in Receipts, SaveSubmission(c, receipt),
           UNCHANGED <<clock, tx>>
    PROVE  RInv'
<1> DEFINE n == [ledger.orders[c] EXCEPT !.st = ReceiptStatus(receipt), !.named = receipt.named]
<1>1. CASE TakesReceipt(ledger.orders[c])
  <2>1. ledger' = [ledger EXCEPT !.orders[c] = n]
    BY <1>1, ClockTyped DEF SaveSubmission, RowsInv, RowsType
  <2>2. Rewritten(ledger, ledger', c, n)
    BY <2>1, ClockTyped, UpdateShape
  <2> QED BY <2>2, SameBooksReplay DEF Rewritten, SameBooks
<1>2. CASE ~TakesReceipt(ledger.orders[c])
  BY <1>2, SameBooksReplay DEF SaveSubmission, SameBooks
<1> QED BY <1>1, <1>2

\* A cancellation is written to the order row only.
LEMMA CancelAnsweredReplay ==
    ASSUME IInv, RInv, NEW c \in Commands, NEW result \in CancelResults, CancelAnswered(c, result)
    PROVE  RInv'
<1> DEFINE n == CancelledOrder(ledger.orders[c], result, clock)
<1>1. UNCHANGED <<clock, tx>>
  BY DEF CancelAnswered
<1>2. CASE Closed
  BY <1>1, <1>2, SameBooksReplay DEF CancelAnswered, SameBooks
<1>3. CASE ~Closed
  <2>1. ledger' = [ledger EXCEPT !.orders[c] = n]
    BY <1>3, ClockTyped DEF CancelAnswered, RowsInv, RowsType
  <2>2. Rewritten(ledger, ledger', c, n)
    BY <2>1, ClockTyped, UpdateShape
  <2> QED BY <1>1, <2>2, SameBooksReplay DEF Rewritten, SameBooks
<1> QED BY <1>2, <1>3

\* A connector's fill is received no later than the clock.
LEMMA AdmitEventReplay ==
    ASSUME IInv, RInv, NEW c \in Commands, NEW id \in ExternalFillIds, NEW content \in Events,
           AdmitEvent(c, id, content)
    PROVE  RInv'
<1>1. PICK received \in Readings, filled \in 1..clock,
           seq \in {ledger.acct.lastSeq, ledger.acct.lastSeq + 1} :
        LET event == [id |-> id, order |-> c, sym |-> ledger.orders[c].intent.sym,
                      side |-> ledger.orders[c].intent.side,
                      price |-> content.price, qty |-> content.qty,
                      fee |-> content.fee, seq |-> seq,
                      filledAt |-> filled, receivedAt |-> received]
        IN  /\ filled <= received
            /\ AdmitError(ledger, event) = "none"
            /\ ledger' = Admit(ledger, event)
  BY DEF AdmitEvent
<1>2. PICK event : event = [id |-> id, order |-> c, sym |-> ledger.orders[c].intent.sym,
                            side |-> ledger.orders[c].intent.side,
                            price |-> content.price, qty |-> content.qty,
                            fee |-> content.fee, seq |-> seq,
                            filledAt |-> filled, receivedAt |-> received]
  OBVIOUS
<1>3. RowsInv(ledger) /\ ledger.acct.lastSeq \in Nat /\ clock \in Nat
  BY ClockTyped DEF RowsInv, AccountInv, AccountType
<1>4. ledger.orders[c].intent \in IntentType
  BY <1>3 DEF AdmitEvent, RowsInv, OrderInv
<1>5. /\ ledger.orders[c].intent.sym \in Symbols /\ ledger.orders[c].intent.side \in Sides
  BY <1>4 DEF IntentType
<1>6. content.price \in Nat /\ content.qty \in Nat \ {0} /\ content.fee \in Nat
  BY GatewayAssumption
<1>7. seq \in Nat /\ filled \in Nat \ {0} /\ received \in Nat /\ received <= clock
  BY <1>3 DEF Readings
<1>8. event \in EventType /\ event.receivedAt <= clock
  BY <1>2, <1>5, <1>6, <1>7 DEF EventType
<1>9. AdmitError(ledger, event) = "none" /\ ledger' = Admit(ledger, event)
  BY <1>1, <1>2
<1>10. Replayed(Admit(ledger, event), clock)
  BY <1>3, <1>8, <1>9, AdmitReplayed DEF RInv
<1>11. clock' = clock /\ ~tx'.open
  BY DEF AdmitEvent, Unlocked
<1> QED BY <1>9, <1>10, <1>11 DEF RInv

\* The working copy is replaced.
LEMMA WorkReplay ==
    ASSUME IInv, RInv, tx.open, UNCHANGED <<clock, ledger>>, NEW rows,
           tx' = [tx EXCEPT !.work = rows], Replayed(rows, clock)
    PROVE  RInv'
<1>1. tx \in [open : {TRUE}, sym : Symbols, at : Nat, cutoff : Nat, work : RowsType]
  BY OpenTx
<1>2. tx'.work = rows
  BY <1>1
<1> QED BY <1>2 DEF RInv

\* Moving a cursor leaves the account and its fills alone.
LEMMA AdvanceReplay ==
    ASSUME NEW rows, RowsInv(rows), NEW c \in Commands, clock \in Nat, Replayed(rows, clock)
    PROVE  Replayed(Advance(rows, c), clock)
<1>1. PICK n : n = [rows.orders[c] EXCEPT !.lastObs = tx.at]
  OBVIOUS
<1>2. PICK new : new = Advance(rows, c)
  OBVIOUS
<1>3. new = [rows EXCEPT !.orders[c] = n]
  BY <1>1, <1>2 DEF Advance, RowsInv, RowsType
<1>4. SameBooks(rows, new)
  BY <1>3, UpdateShape DEF Rewritten, SameBooks
<1>5. Replayed(new, clock)
  BY <1>4, SameReplay
<1> QED BY <1>2, <1>5

\* One order meets one candle: at most one fill, received at the cutoff.
LEMMA ObserveOrderReplay ==
    ASSUME IInv, RInv, NEW c \in Commands, ObserveOrder(c)
    PROVE  RInv'
<1>1. Observing /\ NextDue(c) /\ UNCHANGED <<clock, candle, ledger, closedAt, io>>
  BY DEF ObserveOrder
<1>2. tx.open /\ RowsInv(tx.work) /\ clock \in Nat /\ tx.cutoff <= clock
  BY <1>1, OpenTx DEF Observing
<1>3. Replayed(tx.work, clock)
  BY <1>2 DEF RInv
<1>4. PICK event : event = ProposedFill(c)
  OBVIOUS
<1>5. CASE tx' = [tx EXCEPT !.work = Advance(@, c)]
  <2>1. tx' = [tx EXCEPT !.work = Advance(tx.work, c)]
    BY <1>5
  <2> QED BY <1>1, <1>2, <1>3, <2>1, AdvanceReplay, WorkReplay
<1>6. CASE /\ AdmitError(tx.work, event) = "none"
           /\ tx' = [tx EXCEPT !.work = Advance(Admit(@, event), c)]
  <2>1. PICK new : new = Admit(tx.work, event)
    OBVIOUS
  <2>2. tx' = [tx EXCEPT !.work = Advance(new, c)]
    BY <1>6, <2>1
  <2>3. event \in EventType /\ event.receivedAt <= clock
    <3>1. event.receivedAt = tx.cutoff
      BY <1>4 DEF ProposedFill
    <3> QED BY <1>1, <1>2, <1>4, <3>1, ProposedFillTyped
  <2>4. RowsInv(new) /\ Replayed(new, clock)
    BY <1>2, <1>3, <1>6, <2>1, <2>3, AdmitInv, AdmitReplayed
  <2> QED BY <1>1, <1>2, <2>2, <2>4, AdvanceReplay, WorkReplay
<1>7. CASE tx' = [tx EXCEPT !.work = Advance([@ EXCEPT !.orders[c].st = "REJECTED"], c)]
  <2>1. PICK n : n = [[tx.work.orders[c] EXCEPT !.st = "REJECTED"] EXCEPT !.lastObs = tx.at]
    OBVIOUS
  <2>2. PICK new : new = [tx.work EXCEPT !.orders[c] = n]
    OBVIOUS
  <2>3. Advance([tx.work EXCEPT !.orders[c].st = "REJECTED"], c) = new
    BY <1>2, <2>1, <2>2 DEF Advance, RowsInv, RowsType
  <2>4. SameBooks(tx.work, new)
    BY <1>2, <2>2, UpdateShape DEF Rewritten, SameBooks
  <2>5. Replayed(new, clock)
    BY <1>2, <1>3, <2>4, SameReplay
  <2>6. tx' = [tx EXCEPT !.work = new]
    BY <1>7, <2>3
  <2> QED BY <1>1, <1>2, <2>5, <2>6, WorkReplay
<1> QED BY <1>4, <1>5, <1>6, <1>7 DEF ObserveOrder

\* An observation works on a copy of the ledger and commits it.
LEMMA ObserveReplay ==
    ASSUME IInv, RInv,
           \/ \E s \in Symbols, first \in 1..MaxMinute : ObserveBegin(s, first)
           \/ ObserveNext \/ ObserveCommit
    PROVE  RInv'
<1>1. ASSUME NEW s \in Symbols, NEW first \in 1..MaxMinute, ObserveBegin(s, first)
      PROVE  RInv'
  <2>1. tx'.work = ledger /\ UNCHANGED <<clock, ledger>>
    BY <1>1 DEF ObserveBegin
  <2> QED BY <2>1 DEF RInv
<1>2. CASE ObserveNext
  <2>1. tx.open /\ tx' = [tx EXCEPT !.at = @ + 1] /\ UNCHANGED <<clock, ledger>>
    BY <1>2 DEF ObserveNext, Observing
  <2>2. tx \in [open : {TRUE}, sym : Symbols, at : Nat, cutoff : Nat, work : RowsType]
    BY <2>1, OpenTx
  <2>3. tx'.work = tx.work
    BY <2>1, <2>2
  <2> QED BY <2>1, <2>3 DEF RInv
<1>3. CASE ObserveCommit
  BY <1>3 DEF ObserveCommit, RInv
<1> QED BY <1>1, <1>2, <1>3

\* Every step keeps the account the replay of its fills.
LEMMA NextReplay == IInv /\ RInv /\ [Next]_vars => RInv'
<1> SUFFICES ASSUME IInv, RInv, [Next]_vars PROVE RInv'
  OBVIOUS
<1>1. CASE Tick
  <2>1. clock' = clock + 1 /\ ledger' = ledger /\ ~tx'.open
    BY <1>1 DEF Tick, Unlocked
  <2>2. Replayed(ledger, clock + 1)
    <3>1. SameBooks(ledger, ledger) /\ clock + 1 \in Nat /\ clock <= clock + 1
      BY ClockTyped DEF SameBooks
    <3> QED BY <3>1, ClockTyped, SameReplay DEF RInv
  <2> QED BY <2>1, <2>2 DEF RInv
<1>2. ASSUME NEW c \in Commands, NEW intent \in Intents[c], SubmitOrder(c, intent)
      PROVE  RInv'
  BY <1>2, SubmitOrderReplay
<1>3. ASSUME NEW c \in Commands, NEW receipt \in Receipts,
             SubmissionAnswered(c, receipt) \/ ReconcileSubmission(c, receipt)
      PROVE  RInv'
  BY <1>3, SaveSubmissionReplay DEF SubmissionAnswered, ReconcileSubmission
<1>4. ASSUME NEW c \in Commands, CancelOrder(c)
      PROVE  RInv'
  BY <1>4, SameBooksReplay DEF CancelOrder, SameBooks
<1>5. ASSUME NEW c \in Commands, NEW result \in CancelResults, CancelAnswered(c, result)
      PROVE  RInv'
  BY <1>5, CancelAnsweredReplay
<1>6. ASSUME NEW c \in Commands, NEW id \in ExternalFillIds, NEW content \in Events,
             AdmitEvent(c, id, content)
      PROVE  RInv'
  BY <1>6, AdmitEventReplay
<1>7. ASSUME NEW c \in Commands, ObserveGap(c) \/ ObserveOrder(c) \/ ObserveRaise(c)
      PROVE  RInv'
  <2>1. CASE ObserveOrder(c)
    BY <2>1, ObserveOrderReplay
  <2>2. CASE Rollback
    <3>1. ~tx'.open /\ UNCHANGED clock /\ SameBooks(ledger, ledger')
      BY <2>2 DEF Rollback, SameBooks
    <3> QED BY <3>1, SameBooksReplay
  <2> QED BY <1>7, <2>1, <2>2 DEF ObserveGap, ObserveRaise
<1>8. ASSUME \/ \E s \in Symbols, first \in 1..MaxMinute : ObserveBegin(s, first)
             \/ ObserveNext \/ ObserveCommit
      PROVE  RInv'
  BY <1>8, ObserveReplay
<1>9. CASE CloseAccount
  BY <1>9, SameBooksReplay DEF CloseAccount, SameBooks
<1>10. CASE Crash
  <2>1. ~tx'.open /\ UNCHANGED clock /\ SameBooks(ledger, ledger')
    BY <1>10 DEF Crash, SameBooks
  <2> QED BY <2>1, SameBooksReplay
<1>11. CASE UNCHANGED vars
  BY <1>11, SameBooksReplay DEF vars, SameBooks
<1> QED
  BY <1>1, <1>2, <1>3, <1>4, <1>5, <1>6, <1>7, <1>8, <1>9, <1>10, <1>11 DEF Next

\* A read of the account as of any minute replays without a refusal, and as of
\* now gives back the stored account, for any number of fills.
THEOREM ReadsReplay == Spec => []ReplayMatchesLedger
<1>1. Init => RInv
  BY InitReplay
<1>2. IInv /\ RInv /\ [Next]_vars => RInv'
  BY NextReplay
<1>3. IInv /\ RInv => ReplayMatchesLedger
  BY ClockTyped, ReadMatches DEF RInv
<1> QED BY <1>1, <1>2, <1>3, Invariance, PTL DEF Spec
================================================================================
