------------------------ MODULE ExecutionGateway_proofs ------------------------
(***************************************************************************)
(* Proofs about one execution account, for any number of commands, symbols, *)
(* fills and minutes.                                                       *)
(***************************************************************************)
EXTENDS ExecutionGateway, SequenceTheorems, TLAPS

EventType == [id : Commands \cup ExternalFillIds, order : Commands, sym : Symbols,
              side : Sides, price : Nat, qty : Nat \ {0}, fee : Nat, seq : Nat,
              filledAt : Nat \ {0}, receivedAt : Nat]

\* A position that is not flat is made of a trade of its symbol and direction.
PositionsNameTheirTrades(account) ==
    \A s \in Symbols :
        LET p == account.pos[s]
        IN  p.qty # 0 => /\ p.trade \in 1..Len(account.trades)
                         /\ account.trades[p.trade].sym = s
                         /\ account.trades[p.trade].dir = p.dir

AccountInv(account) ==
    /\ account \in AccountType
    /\ \A s \in Symbols : account.pos[s].trade <= Len(account.trades)
    /\ PositionsNameTheirTrades(account)
    /\ ProfitExact(account)

-----------------------------------------------------------------------------
(* The allocator *)

\* divide returns an integer number of thousandths.
LEMMA DivideInt == ASSUME NEW a \in Nat, NEW b \in Nat \ {0}
                   PROVE  Divide(a, b) \in Int
BY DEF Divide

\* The basis a reducing fill consumes is a number of thousandths.
LEMMA AllocatedInt == ASSUME NEW p \in PositionType, NEW q \in Nat, p.qty # 0
                      PROVE  Allocated(p, q) \in Int
<1>1. p.qty \in Nat \ {0} /\ p.basis \in Nat
  BY DEF PositionType
<1>2. Divide(p.basis, p.qty) \in Int
  BY <1>1, DivideInt
<1> QED BY <1>1, <1>2 DEF Allocated

\* Replacing the booked parts of an account document.
Booked(account, trades, pos, cash) ==
    [account EXCEPT !.trades = trades, !.pos = pos, !.cash = cash]

\* The clocks apply_fill stamps on a booked account keep its type.
LEMMA BookedType ==
    ASSUME NEW account \in AccountType, NEW trades \in Seq(TradeType),
           NEW pos \in [Symbols -> PositionType], NEW cash \in Int
    PROVE  LET new == Booked(account, trades, pos, cash)
           IN  /\ new \in AccountType
               /\ new.trades = trades /\ new.pos = pos /\ new.cash = cash
               /\ new.lastSeq = account.lastSeq /\ new.lastFilled = account.lastFilled
               /\ new.updated = account.updated
BY DEF AccountType, Booked

\* Booking a new trade t of symbol s, whose position was flat.
LEMMA BookNewTrade ==
    ASSUME NEW account, AccountInv(account), NEW s \in Symbols,
           account.pos[s].qty = 0,
           NEW t \in TradeType, t.sym = s, t.closedAt = Never,
           NEW q \in PositionType, q.trade = Len(account.trades) + 1, q.qty # 0,
           q.dir = t.dir,
           t.gross = t.flow + (IF t.dir = "LONG" THEN q.basis ELSE -q.basis),
           NEW cash \in Int
    PROVE  AccountInv(Booked(account, Append(account.trades, t),
                             [account.pos EXCEPT ![s] = q], cash))
<1> DEFINE n == Len(account.trades)
           trades == Append(account.trades, t)
           pos == [account.pos EXCEPT ![s] = q]
           new == Booked(account, trades, pos, cash)
<1>1. /\ account.trades \in Seq(TradeType) /\ account.pos \in [Symbols -> PositionType]
      /\ account \in AccountType /\ n \in Nat
  BY DEF AccountInv, AccountType
<1>2. /\ trades \in Seq(TradeType) /\ Len(trades) = n + 1
      /\ \A i \in 1..n : trades[i] = account.trades[i]
      /\ trades[n + 1] = t
  BY <1>1, AppendProperties
<1>3. /\ pos \in [Symbols -> PositionType] /\ pos[s] = q
      /\ \A r \in Symbols \ {s} : pos[r] = account.pos[r]
  BY <1>1
<1> HIDE DEF trades, pos
<1>4. new \in AccountType /\ new.trades = trades /\ new.pos = pos
  BY <1>1, <1>2, <1>3, BookedType
<1> HIDE DEF new
<1>5. \A r \in Symbols : pos[r].trade <= n + 1
  BY <1>1, <1>3 DEF AccountInv, PositionType
<1>6. PositionsNameTheirTrades(new)
  <2> SUFFICES ASSUME NEW r \in Symbols, pos[r].qty # 0
               PROVE  /\ pos[r].trade \in 1..Len(trades)
                      /\ trades[pos[r].trade].sym = r
                      /\ trades[pos[r].trade].dir = pos[r].dir
    BY <1>4 DEF PositionsNameTheirTrades
  <2>1. CASE r = s
    BY <2>1, <1>1, <1>2, <1>3
  <2>2. CASE r # s
    BY <2>2, <1>1, <1>2, <1>3 DEF AccountInv, PositionsNameTheirTrades
  <2> QED BY <2>1, <2>2
<1>7. ProfitExact(new)
  <2> SUFFICES ASSUME NEW i \in 1..Len(trades)
               PROVE  /\ (trades[i].closedAt = Never) <=> OpenTrade(new, i)
                      /\ trades[i].gross = trades[i].flow + OpenBasis(new, i)
    BY <1>4 DEF ProfitExact
  <2>1. CASE i = n + 1
    <3>1. OpenTrade(new, i)
      BY <2>1, <1>2, <1>3, <1>4 DEF OpenTrade
    <3>2. OpenBasis(new, i) = IF t.dir = "LONG" THEN q.basis ELSE -q.basis
      BY <2>1, <3>1, <1>2, <1>3, <1>4 DEF OpenBasis
    <3> QED BY <2>1, <3>1, <3>2, <1>2
  <2>2. CASE i \in 1..n
    <3>1. trades[i] = account.trades[i] /\ trades[i].sym \in Symbols
      <4>1. trades[i] \in TradeType
        BY <1>2
      <4> QED BY <4>1, <2>2, <1>1, <1>2 DEF TradeType
    <3>2. /\ (trades[i].closedAt = Never) <=> OpenTrade(account, i)
          /\ trades[i].gross = trades[i].flow + OpenBasis(account, i)
      BY <2>2, <3>1 DEF AccountInv, ProfitExact
    <3>3. OpenTrade(new, i) <=> OpenTrade(account, i)
      BY <2>2, <3>1, <1>1, <1>3, <1>4 DEF OpenTrade
    <3>4. OpenBasis(new, i) = OpenBasis(account, i)
      <4>1. CASE trades[i].sym = s
        BY <4>1, <2>2, <3>1, <3>3, <1>1, <1>3, <1>4 DEF OpenBasis, OpenTrade
      <4>2. CASE trades[i].sym # s
        BY <4>2, <2>2, <3>1, <3>3, <1>1, <1>3, <1>4 DEF OpenBasis, OpenTrade
      <4> QED BY <4>1, <4>2
    <3> QED BY <3>2, <3>3, <3>4
  <2> QED BY <2>1, <2>2, <1>2, <1>1
<1>8. AccountInv(new)
  BY <1>2, <1>4, <1>5, <1>6, <1>7 DEF AccountInv
<1> QED BY <1>8 DEF new, trades, pos

\* Booking a change t of the open trade of symbol s, and of its position.
LEMMA RebookTrade ==
    ASSUME NEW account, AccountInv(account), NEW s \in Symbols,
           account.pos[s].qty # 0,
           NEW t \in TradeType, t.sym = s, t.dir = account.pos[s].dir,
           NEW q \in PositionType, q.trade = account.pos[s].trade,
           q.dir = account.pos[s].dir,
           (t.closedAt = Never) <=> q.qty # 0,
           t.gross = t.flow + (IF q.qty = 0 THEN 0
                               ELSE IF t.dir = "LONG" THEN q.basis ELSE -q.basis),
           NEW cash \in Int
    PROVE  AccountInv(Booked(account, [account.trades EXCEPT ![account.pos[s].trade] = t],
                             [account.pos EXCEPT ![s] = q], cash))
<1> DEFINE n == Len(account.trades)
           k == account.pos[s].trade
           trades == [account.trades EXCEPT ![k] = t]
           pos == [account.pos EXCEPT ![s] = q]
           new == Booked(account, trades, pos, cash)
<1>1. /\ account.trades \in Seq(TradeType) /\ account.pos \in [Symbols -> PositionType]
      /\ account \in AccountType /\ n \in Nat
  BY DEF AccountInv, AccountType
<1>2. k \in 1..n /\ account.trades[k].sym = s
  BY <1>1 DEF AccountInv, PositionsNameTheirTrades
<1>3. /\ trades \in Seq(TradeType) /\ Len(trades) = n
      /\ \A i \in 1..n : i # k => trades[i] = account.trades[i]
      /\ trades[k] = t
  BY <1>1, <1>2, ExceptSeq
<1>4. /\ pos \in [Symbols -> PositionType] /\ pos[s] = q
      /\ \A r \in Symbols \ {s} : pos[r] = account.pos[r]
  BY <1>1
<1> HIDE DEF trades, pos
<1>5. new \in AccountType /\ new.trades = trades /\ new.pos = pos
  BY <1>1, <1>3, <1>4, BookedType
<1> HIDE DEF new
<1>6. \A r \in Symbols : pos[r].trade <= n
  BY <1>1, <1>4 DEF AccountInv
<1>7. PositionsNameTheirTrades(new)
  <2> SUFFICES ASSUME NEW r \in Symbols, pos[r].qty # 0
               PROVE  /\ pos[r].trade \in 1..Len(trades)
                      /\ trades[pos[r].trade].sym = r
                      /\ trades[pos[r].trade].dir = pos[r].dir
    BY <1>5 DEF PositionsNameTheirTrades
  <2>1. CASE r = s
    BY <2>1, <1>2, <1>3, <1>4
  <2>2. CASE r # s
    <3>1. /\ pos[r] = account.pos[r] /\ pos[r].trade \in 1..n
          /\ account.trades[pos[r].trade].sym = r
          /\ account.trades[pos[r].trade].dir = pos[r].dir
      BY <2>2, <1>4 DEF AccountInv, PositionsNameTheirTrades
    <3> QED BY <3>1, <2>2, <1>2, <1>3
  <2> QED BY <2>1, <2>2
<1>8. ProfitExact(new)
  <2> SUFFICES ASSUME NEW i \in 1..n
               PROVE  /\ (trades[i].closedAt = Never) <=> OpenTrade(new, i)
                      /\ trades[i].gross = trades[i].flow + OpenBasis(new, i)
    BY <1>3, <1>5 DEF ProfitExact
  <2>1. CASE i = k
    <3>1. OpenTrade(new, i) <=> q.qty # 0
      BY <2>1, <1>3, <1>4, <1>5 DEF OpenTrade
    <3>2. OpenBasis(new, i) = IF q.qty = 0 THEN 0
                              ELSE IF t.dir = "LONG" THEN q.basis ELSE -q.basis
      BY <2>1, <3>1, <1>3, <1>4, <1>5 DEF OpenBasis
    <3> QED BY <2>1, <3>1, <3>2, <1>3
  <2>2. CASE i # k
    <3>1. trades[i] = account.trades[i] /\ trades[i].sym \in Symbols
      <4>1. trades[i] \in TradeType
        BY <1>3
      <4> QED BY <4>1, <2>2, <1>1, <1>3 DEF TradeType
    <3>2. /\ (trades[i].closedAt = Never) <=> OpenTrade(account, i)
          /\ trades[i].gross = trades[i].flow + OpenBasis(account, i)
      BY <3>1 DEF AccountInv, ProfitExact
    <3>3. OpenTrade(new, i) <=> OpenTrade(account, i)
      BY <2>2, <3>1, <1>4, <1>5 DEF OpenTrade
    <3>4. OpenBasis(new, i) = OpenBasis(account, i)
      <4>1. CASE trades[i].sym = s
        BY <4>1, <2>2, <3>1, <3>3, <1>4, <1>5 DEF OpenBasis, OpenTrade
      <4>2. CASE trades[i].sym # s
        BY <4>2, <2>2, <3>1, <3>3, <1>4, <1>5 DEF OpenBasis, OpenTrade
      <4> QED BY <4>1, <4>2
    <3> QED BY <3>2, <3>3, <3>4
  <2> QED BY <2>1, <2>2
<1>9. AccountInv(new)
  BY <1>3, <1>5, <1>6, <1>7, <1>8 DEF AccountInv
<1> QED BY <1>9 DEF new, trades, pos

\* What the invariant says about the open trade of a symbol.
LEMMA OpenTradeFacts ==
    ASSUME NEW account, AccountInv(account), NEW s \in Symbols, account.pos[s].qty # 0
    PROVE  LET p == account.pos[s]
               t == account.trades[p.trade]
           IN  /\ p \in PositionType /\ t \in TradeType
               /\ t.sym = s /\ t.dir = p.dir /\ t.closedAt = Never
               /\ t.gross = t.flow + (IF t.dir = "LONG" THEN p.basis ELSE -p.basis)
<1> DEFINE p == account.pos[s]
           t == account.trades[p.trade]
<1>1. /\ account.trades \in Seq(TradeType) /\ p \in PositionType
      /\ p.trade \in 1..Len(account.trades) /\ t.sym = s /\ t.dir = p.dir
  BY DEF AccountInv, AccountType, PositionsNameTheirTrades
<1>2. t \in TradeType
  BY <1>1
<1>3. OpenTrade(account, p.trade)
  BY <1>1 DEF OpenTrade
<1>4. t.closedAt = Never /\ t.gross = t.flow + OpenBasis(account, p.trade)
  BY <1>1, <1>3 DEF AccountInv, ProfitExact
<1>5. OpenBasis(account, p.trade) = IF t.dir = "LONG" THEN p.basis ELSE -p.basis
  BY <1>1, <1>3 DEF OpenBasis
<1> QED BY <1>1, <1>2, <1>4, <1>5

\* The parts of a fill event, and what is computed from them.
LEMMA EventFacts ==
    ASSUME NEW event \in EventType
    PROVE  /\ event.sym \in Symbols /\ event.side \in Sides /\ event.price \in Nat
           /\ event.qty \in Nat \ {0} /\ event.fee \in Nat
           /\ event.filledAt \in Nat \ {0} /\ event.seq \in Nat /\ event.receivedAt \in Nat
           /\ event.order \in Commands
           /\ Notional(event) \in Nat /\ SignedNotional(event) \in Int
           /\ Direction(event.side) \in Directions
           /\ Direction(event.side) = "LONG" => SignedNotional(event) = -Notional(event)
           /\ Direction(event.side) = "SHORT" => SignedNotional(event) = Notional(event)
<1>1. /\ event.sym \in Symbols /\ event.side \in Sides /\ event.price \in Nat
      /\ event.qty \in Nat \ {0} /\ event.fee \in Nat /\ event.order \in Commands
      /\ event.filledAt \in Nat \ {0} /\ event.seq \in Nat /\ event.receivedAt \in Nat
  BY DEF EventType
<1> QED BY <1>1 DEF Notional, SignedNotional, Milli, Direction, Directions, Sides

\* apply_fill on a flat symbol keeps the account invariant.
LEMMA OpenFillInv ==
    ASSUME NEW account, AccountInv(account), NEW event \in EventType,
           account.pos[event.sym].qty = 0
    PROVE  AccountInv(OpenFill(account, event))
<1> DEFINE t == [sym |-> event.sym, dir |-> Direction(event.side),
                 entry |-> Notional(event), gross |-> 0, fees |-> event.fee,
                 openedAt |-> event.filledAt, closedAt |-> Never,
                 flow |-> SignedNotional(event)]
           q == [dir |-> Direction(event.side), trade |-> Len(account.trades) + 1,
                 qty |-> event.qty, basis |-> Notional(event)]
           cash == account.cash + CashChange(0, event)
<1>1. /\ account \in AccountType /\ account.trades \in Seq(TradeType)
      /\ account.cash \in Int
  BY DEF AccountInv, AccountType
<1>2. OpenFill(account, event)
        = Booked(account, Append(account.trades, t), [account.pos EXCEPT ![event.sym] = q], cash)
  BY <1>1 DEF OpenFill, AccountType, Booked
<1>3. t \in TradeType /\ q \in PositionType /\ cash \in Int
  BY <1>1, EventFacts DEF TradeType, PositionType, Never, CashChange
<1>4. /\ t.sym = event.sym /\ t.closedAt = Never /\ q.trade = Len(account.trades) + 1
      /\ q.qty # 0 /\ q.dir = t.dir
  BY EventFacts
<1>5. t.gross = t.flow + (IF t.dir = "LONG" THEN q.basis ELSE -q.basis)
  BY EventFacts DEF Directions
<1> HIDE DEF t, q, cash
<1>6. event.sym \in Symbols
  BY EventFacts
<1> QED BY <1>2, <1>3, <1>4, <1>5, <1>6, BookNewTrade

\* apply_fill that adds to a position keeps the account invariant.
LEMMA IncreaseFillInv ==
    ASSUME NEW account, AccountInv(account), NEW event \in EventType,
           account.pos[event.sym].qty # 0, Increasing(account, event)
    PROVE  AccountInv(IncreaseFill(account, event))
<1> DEFINE p == account.pos[event.sym]
           u == account.trades[p.trade]
           t == [u EXCEPT !.entry = @ + Notional(event), !.fees = @ + event.fee,
                          !.flow = @ + SignedNotional(event)]
           q == [p EXCEPT !.qty = @ + event.qty, !.basis = @ + Notional(event)]
           cash == account.cash + CashChange(0, event)
<1>1. account \in AccountType /\ account.cash \in Int
  BY DEF AccountInv, AccountType
<1>2. IncreaseFill(account, event)
        = Booked(account, [account.trades EXCEPT ![p.trade] = t],
                 [account.pos EXCEPT ![event.sym] = q], cash)
  BY <1>1 DEF IncreaseFill, AccountType, Booked
<1>3. event.sym \in Symbols
  BY EventFacts
<1>4. /\ p \in PositionType /\ u \in TradeType /\ u.sym = event.sym /\ u.dir = p.dir
      /\ u.closedAt = Never
      /\ u.gross = u.flow + (IF u.dir = "LONG" THEN p.basis ELSE -p.basis)
  BY <1>3, OpenTradeFacts
<1>5. p.dir = Direction(event.side)
  BY DEF Increasing
<1> HIDE DEF p, u
<1>6. t \in TradeType /\ q \in PositionType /\ cash \in Int
  <2>1. /\ u.entry + Notional(event) \in Nat /\ u.fees + event.fee \in Nat
        /\ u.flow + SignedNotional(event) \in Int /\ account.cash + CashChange(0, event) \in Int
        /\ p.qty + event.qty \in Nat /\ p.basis + Notional(event) \in Nat
    BY <1>1, <1>4, EventFacts DEF TradeType, PositionType, CashChange
  <2> QED BY <1>4, <2>1 DEF TradeType, PositionType
<1>7. /\ t.sym = event.sym /\ t.dir = p.dir /\ t.closedAt = Never
      /\ q.trade = p.trade /\ q.dir = p.dir /\ q.qty # 0
  BY <1>4, EventFacts DEF TradeType, PositionType
<1>8. t.gross = t.flow + (IF t.dir = "LONG" THEN q.basis ELSE -q.basis)
  <2>1. /\ t.gross = u.gross /\ t.flow = u.flow + SignedNotional(event) /\ t.dir = u.dir
        /\ q.basis = p.basis + Notional(event)
        /\ u.gross \in Int /\ u.flow \in Int /\ p.basis \in Nat /\ p.dir \in Directions
    BY <1>4 DEF TradeType, PositionType
  <2> HIDE DEF t, q
  <2>2. Notional(event) \in Nat /\ SignedNotional(event) \in Int
    BY EventFacts
  <2>3. CASE p.dir = "LONG"
    BY <2>1, <2>2, <2>3, <1>4, <1>5, EventFacts
  <2>4. CASE p.dir = "SHORT"
    BY <2>1, <2>2, <2>4, <1>4, <1>5, EventFacts
  <2> QED BY <2>1, <2>3, <2>4 DEF Directions
<1> HIDE DEF t, q, cash
<1>9. /\ (t.closedAt = Never) <=> q.qty # 0
      /\ t.gross = t.flow + (IF q.qty = 0 THEN 0
                             ELSE IF t.dir = "LONG" THEN q.basis ELSE -q.basis)
  BY <1>7, <1>8
<1> QED BY <1>2, <1>3, <1>6, <1>7, <1>9, RebookTrade DEF p

\* apply_fill that reduces or closes a position keeps the account invariant,
\* whatever divide rounded off: the closing fill takes the whole remaining basis.
LEMMA ReduceFillInv ==
    ASSUME NEW account, AccountInv(account), NEW event \in EventType,
           account.pos[event.sym].qty # 0, ~Increasing(account, event),
           event.qty <= account.pos[event.sym].qty,
           Allocated(account.pos[event.sym], event.qty) <= account.pos[event.sym].basis
    PROVE  AccountInv(ReduceFill(account, event))
<1> DEFINE p == account.pos[event.sym]
           u == account.trades[p.trade]
           allocated == Allocated(p, event.qty)
           gross == IF p.dir = "LONG" THEN Notional(event) - allocated
                                      ELSE allocated - Notional(event)
           t == [u EXCEPT !.gross = @ + gross, !.fees = @ + event.fee,
                          !.closedAt = CloseTime(p, event),
                          !.flow = @ + SignedNotional(event)]
           q == [p EXCEPT !.qty = @ - event.qty, !.basis = @ - allocated]
           cash == account.cash + CashChange(gross, event)
<1>1. account \in AccountType /\ account.cash \in Int
  BY DEF AccountInv, AccountType
<1>2. ReduceFill(account, event)
        = Booked(account, [account.trades EXCEPT ![p.trade] = t],
                 [account.pos EXCEPT ![event.sym] = q], cash)
  BY <1>1 DEF ReduceFill, AccountType, Booked
<1>3. event.sym \in Symbols
  BY EventFacts
<1>4. /\ p \in PositionType /\ u \in TradeType /\ u.sym = event.sym /\ u.dir = p.dir
      /\ u.gross = u.flow + (IF u.dir = "LONG" THEN p.basis ELSE -p.basis)
  BY <1>3, OpenTradeFacts
<1>5. /\ p.dir \in Directions /\ p.dir # Direction(event.side)
      /\ event.qty <= p.qty /\ p.qty \in Nat /\ p.basis \in Nat
      /\ allocated \in Int /\ allocated <= p.basis
      /\ event.qty = p.qty => allocated = p.basis
  BY <1>4, AllocatedInt, EventFacts DEF Increasing, PositionType, Allocated
<1> HIDE DEF p, u, allocated
<1>6. /\ gross \in Int
      /\ gross = SignedNotional(event) - (IF p.dir = "LONG" THEN allocated ELSE -allocated)
  BY <1>5, EventFacts DEF Directions
<1> HIDE DEF gross
<1>7. t \in TradeType /\ q \in PositionType /\ cash \in Int
  <2>1. q \in PositionType
    <3>1. p.qty - event.qty \in Nat /\ p.basis - allocated \in Nat
      BY <1>5, EventFacts
    <3> QED BY <1>4, <3>1 DEF PositionType
  <2>2. /\ u.gross + gross \in Int /\ u.fees + event.fee \in Nat
        /\ u.flow + SignedNotional(event) \in Int
        /\ CloseTime(p, event) \in Nat
    BY <1>4, <1>6, EventFacts DEF TradeType, Never, CloseTime
  <2>3. t \in TradeType
    BY <1>4, <2>2 DEF TradeType
  <2> QED BY <1>1, <1>6, <2>1, <2>3, EventFacts DEF CashChange
<1>8. /\ t.sym = event.sym /\ t.dir = p.dir /\ q.trade = p.trade /\ q.dir = p.dir
      /\ (t.closedAt = Never) <=> q.qty # 0
  BY <1>4, <1>5, EventFacts DEF TradeType, PositionType, Never, CloseTime
<1>9. t.gross = t.flow + (IF q.qty = 0 THEN 0
                          ELSE IF t.dir = "LONG" THEN q.basis ELSE -q.basis)
  <2>1. /\ t.gross = u.gross + gross /\ t.flow = u.flow + SignedNotional(event)
        /\ t.dir = u.dir /\ q.basis = p.basis - allocated /\ q.qty = p.qty - event.qty
        /\ u.gross \in Int /\ u.flow \in Int
    BY <1>4 DEF TradeType, PositionType
  <2> HIDE DEF t, q
  <2>2. event.qty \in Nat /\ SignedNotional(event) \in Int
    BY EventFacts
  <2>3. q.qty = 0 => q.basis = 0
    <3>1. q.qty = 0 => event.qty = p.qty
      BY <2>1, <2>2, <1>5
    <3> QED BY <3>1, <2>1, <1>5
  <2>4. CASE p.dir = "LONG"
    BY <2>1, <2>2, <2>3, <2>4, <1>4, <1>5, <1>6
  <2>5. CASE p.dir = "SHORT"
    BY <2>1, <2>2, <2>3, <2>5, <1>4, <1>5, <1>6
  <2> QED BY <2>4, <2>5, <1>5 DEF Directions
<1> HIDE DEF t, q, cash
<1> QED BY <1>2, <1>3, <1>7, <1>8, <1>9, RebookTrade DEF p

\* What the absence of an error guarantees.
LEMMA FillErrorFacts ==
    ASSUME NEW account, NEW event, FillError(account, event) = "none"
    PROVE  /\ ~(event.receivedAt < account.updated)
           /\ ~(event.seq <= account.lastSeq)
           /\ ~(event.filledAt < account.lastFilled)
           /\ ~Increasing(account, event) =>
                /\ ~(event.qty > account.pos[event.sym].qty)
                /\ ~(Allocated(account.pos[event.sym], event.qty) > account.pos[event.sym].basis)
BY DEF FillError, UnorderedAdmission, UnorderedFill

\* A fill without error keeps the account's invariant and moves its clocks.
LEMMA ApplyFillInv ==
    ASSUME NEW account, AccountInv(account), NEW event \in EventType,
           FillError(account, event) = "none"
    PROVE  LET new == ApplyFill(account, event)
           IN  /\ AccountInv(new)
               /\ new.lastSeq = event.seq /\ new.lastFilled = event.filledAt
               /\ new.updated = event.receivedAt
<1> DEFINE p == account.pos[event.sym]
           booked == IF p.qty = 0 THEN OpenFill(account, event)
                     ELSE IF Increasing(account, event) THEN IncreaseFill(account, event)
                     ELSE ReduceFill(account, event)
           new == [booked EXCEPT !.lastSeq = event.seq, !.lastFilled = event.filledAt,
                                 !.updated = event.receivedAt]
<1>1. ApplyFill(account, event) = new
  BY DEF ApplyFill
<1>2. AccountInv(booked)
  <2>1. CASE p.qty = 0
    BY <2>1, OpenFillInv
  <2>2. CASE p.qty # 0 /\ Increasing(account, event)
    BY <2>2, IncreaseFillInv
  <2>3. CASE p.qty # 0 /\ ~Increasing(account, event)
    <3>1. p \in PositionType
      BY EventFacts DEF AccountInv, AccountType
    <3>2. Allocated(p, event.qty) \in Int /\ p.basis \in Nat /\ p.qty \in Nat
          /\ event.qty \in Nat
      BY <3>1, <2>3, AllocatedInt, EventFacts DEF PositionType
    <3>3. event.qty <= p.qty /\ Allocated(p, event.qty) <= p.basis
      BY <3>2, <2>3, FillErrorFacts
    <3> QED BY <2>3, <3>3, ReduceFillInv
  <2> QED BY <2>1, <2>2, <2>3
<1> HIDE DEF booked
<1>3. event.seq \in Nat /\ event.filledAt \in Nat /\ event.receivedAt \in Nat
  BY EventFacts
<1>4. booked \in AccountType
  BY <1>2 DEF AccountInv
<1>5. /\ new \in AccountType /\ new.pos = booked.pos /\ new.trades = booked.trades
      /\ new.lastSeq = event.seq /\ new.lastFilled = event.filledAt
      /\ new.updated = event.receivedAt
  BY <1>3, <1>4 DEF AccountType
<1> HIDE DEF new
<1>6. AccountInv(new)
  <2>1. \A i : OpenTrade(new, i) <=> OpenTrade(booked, i)
    BY <1>5 DEF OpenTrade
  <2>2. \A i : OpenBasis(new, i) = OpenBasis(booked, i)
    BY <1>5, <2>1 DEF OpenBasis
  <2>3. ProfitExact(new)
    BY <1>2, <1>5, <2>1, <2>2 DEF AccountInv, ProfitExact
  <2>4. PositionsNameTheirTrades(new)
    BY <1>2, <1>5 DEF AccountInv, PositionsNameTheirTrades
  <2> QED BY <1>2, <1>5, <2>3, <2>4 DEF AccountInv
<1> QED BY <1>1, <1>5, <1>6

-----------------------------------------------------------------------------
(* The rows of an account, committed or in a transaction *)

\* The account document remembers the newest of its fills.
FillsUpToAccount(rows) ==
    \A i \in 1..Len(rows.fills) :
        /\ rows.fills[i].seq <= rows.acct.lastSeq
        /\ rows.fills[i].filledAt <= rows.acct.lastFilled
        /\ rows.fills[i].receivedAt <= rows.acct.updated

\* An order that exists has an intent, which is never overfilled; an order with
\* an external_order_id exists.
OrderInv(o) ==
    /\ Exists(o) => o.intent \in IntentType /\ o.filled <= o.intent.qty
    /\ WellNamed(o)

RowsInv(rows) ==
    /\ rows \in RowsType
    /\ AccountInv(rows.acct)
    /\ FillsInOrder(rows)
    /\ FillsUpToAccount(rows)
    /\ \A c \in Commands : OrderInv(rows.orders[c])

\* Rewriting order rows leaves the financial part of the invariant alone.
LEMMA OrdersRewritten ==
    ASSUME NEW rows, RowsInv(rows), NEW orders \in [Commands -> OrderType],
           \A c \in Commands : OrderInv(orders[c]),
           NEW n \in Nat
    PROVE  RowsInv([rows EXCEPT !.orders = orders, !.cmdSeq = n])
<1> DEFINE new == [rows EXCEPT !.orders = orders, !.cmdSeq = n]
<1>1. new \in RowsType /\ new.acct = rows.acct /\ new.fills = rows.fills
      /\ new.orders = orders
  BY DEF RowsInv, RowsType
<1> HIDE DEF new
<1>2. RowsInv(new)
  BY <1>1 DEF RowsInv, FillsInOrder, FillsUpToAccount
<1> QED BY <1>2 DEF new

\* An order row that is not written keeps its history.
LEMMA HistoryReflexive ==
    ASSUME NEW o \in OrderType
    PROVE  OrderMayBecome(o, o)
<1>1. o.filled \in Nat /\ Cursor(o) \in Nat
  BY DEF OrderType, Cursor
<1> QED BY <1>1 DEF OrderMayBecome

\* The history of an order composes over the steps of an observation.
LEMMA HistoryTransitive ==
    ASSUME NEW o \in OrderType, NEW m \in OrderType, NEW n \in OrderType,
           OrderMayBecome(o, m), OrderMayBecome(m, n)
    PROVE  OrderMayBecome(o, n)
<1>1. /\ o.filled \in Nat /\ m.filled \in Nat /\ n.filled \in Nat
      /\ Cursor(o) \in Nat /\ Cursor(m) \in Nat /\ Cursor(n) \in Nat
  BY DEF OrderType, Cursor
<1>2. Exists(o) => n.filled >= o.filled /\ Cursor(n) >= Cursor(o)
  BY <1>1 DEF OrderMayBecome
<1> QED BY <1>2 DEF OrderMayBecome

\* The error-free cases of admit.
LEMMA AdmitErrorFacts ==
    ASSUME NEW rows, NEW event, AdmitError(rows, event) = "none"
    PROVE  /\ rows.orders[event.order].named
           /\ ~(rows.orders[event.order].filled + event.qty > rows.orders[event.order].intent.qty)
           /\ FillError(rows.acct, event) = "none"
BY DEF AdmitError, ContractMismatch

\* An admitted fill keeps the invariant of the rows: the appended fill is the
\* newest by every clock.
LEMMA AdmitInv ==
    ASSUME NEW rows, RowsInv(rows), NEW event \in EventType,
           AdmitError(rows, event) = "none"
    PROVE  /\ RowsInv(Admit(rows, event))
           /\ \A c \in Commands :
                LET n == Admit(rows, event).orders[c]
                IN  OrderMayBecome(rows.orders[c], n) /\ Cursor(n) = Cursor(rows.orders[c])
<1> DEFINE account == ApplyFill(rows.acct, event)
           row == FillRow(account, event)
           fills == Append(rows.fills, row)
           o == rows.orders[event.order]
           orders == [rows.orders EXCEPT ![event.order] = [o EXCEPT !.filled = @ + event.qty]]
           new == Admit(rows, event)
           n == Len(rows.fills)
<1>1. /\ rows \in RowsType /\ rows.fills \in Seq(FillType) /\ n \in Nat
      /\ rows.orders \in [Commands -> OrderType] /\ AccountInv(rows.acct)
  BY DEF RowsInv, RowsType
<1>2. /\ AccountInv(account) /\ account.lastSeq = event.seq
      /\ account.lastFilled = event.filledAt /\ account.updated = event.receivedAt
  BY <1>1, AdmitErrorFacts, ApplyFillInv
<1>3. /\ event.receivedAt \in Nat /\ event.seq \in Nat /\ event.filledAt \in Nat
      /\ event.order \in Commands /\ event.qty \in Nat /\ event.sym \in Symbols
  BY EventFacts
<1>4. /\ rows.acct.updated \in Nat /\ rows.acct.lastSeq \in Nat /\ rows.acct.lastFilled \in Nat
      /\ account \in AccountType /\ account.pos[event.sym].trade \in Nat
  BY <1>1, <1>2, <1>3 DEF AccountInv, AccountType, PositionType
<1>5. /\ rows.acct.updated <= event.receivedAt /\ rows.acct.lastSeq < event.seq
      /\ rows.acct.lastFilled <= event.filledAt
  BY <1>3, <1>4, AdmitErrorFacts, FillErrorFacts
<1> HIDE DEF account
<1>6. /\ row \in FillType /\ row.seq = event.seq /\ row.filledAt = event.filledAt
      /\ row.receivedAt = event.receivedAt
  <2>1. /\ event.id \in Commands \cup ExternalFillIds /\ event.order \in Commands
        /\ event.sym \in Symbols /\ event.side \in Sides /\ event.price \in Nat
        /\ event.qty \in Nat /\ event.fee \in Nat /\ event.seq \in Nat
        /\ event.filledAt \in Nat /\ event.receivedAt \in Nat
    BY DEF EventType
  <2> QED BY <1>4, <2>1 DEF FillRow, FillType
<1> HIDE DEF row
<1>7. /\ fills \in Seq(FillType) /\ Len(fills) = n + 1 /\ fills[n + 1] = row
      /\ \A i \in 1..n : fills[i] = rows.fills[i]
  BY <1>1, <1>6, AppendProperties
<1>8. o \in OrderType /\ o.filled + event.qty \in Nat
  <2>1. o \in OrderType
    BY <1>1, <1>3
  <2> QED BY <2>1, <1>3 DEF OrderType
<1>9. /\ orders \in [Commands -> OrderType]
      /\ \A c \in Commands : /\ orders[c].st = rows.orders[c].st
                             /\ orders[c].intent = rows.orders[c].intent
                             /\ Cursor(orders[c]) = Cursor(rows.orders[c])
                             /\ OrderMayBecome(rows.orders[c], orders[c])
                             /\ OrderInv(orders[c])
  <2> DEFINE m == [o EXCEPT !.filled = @ + event.qty]
  <2>1. /\ m \in OrderType /\ m.st = o.st /\ m.intent = o.intent
        /\ m.acceptedAt = o.acceptedAt /\ m.lastObs = o.lastObs
        /\ m.cancelledAt = o.cancelledAt /\ m.filled = o.filled + event.qty
        /\ m.named = o.named
    BY <1>8 DEF OrderType
  <2> HIDE DEF m
  <2>2. Cursor(m) = Cursor(o) /\ Cursor(o) \in Nat /\ o.filled \in Nat
    BY <1>8, <2>1 DEF Cursor, OrderType
  <2>3. OrderMayBecome(o, m)
    BY <1>3, <2>1, <2>2 DEF OrderMayBecome, Exists
  <2>4. orders = [rows.orders EXCEPT ![event.order] = m]
    BY DEF m
  <2>7. OrderInv(m)
    <3>1. OrderInv(o) /\ ~(o.filled + event.qty > o.intent.qty) /\ o.named
      BY <1>3, AdmitErrorFacts DEF RowsInv
    <3>2. o.intent \in IntentType /\ o.intent.qty \in Nat
      BY <3>1 DEF OrderInv, WellNamed, Exists, IntentType
    <3> QED BY <3>1, <3>2, <1>8, <2>1 DEF OrderInv, WellNamed, Exists
  <2> HIDE DEF orders
  <2>5. orders \in [Commands -> OrderType]
    BY <1>1, <1>3, <2>1, <2>4
  <2>6. ASSUME NEW c \in Commands
        PROVE  /\ orders[c].st = rows.orders[c].st
               /\ orders[c].intent = rows.orders[c].intent
               /\ Cursor(orders[c]) = Cursor(rows.orders[c])
               /\ OrderMayBecome(rows.orders[c], orders[c])
               /\ OrderInv(orders[c])
    <3>1. CASE c = event.order
      BY <3>1, <1>1, <1>3, <2>1, <2>2, <2>3, <2>4, <2>7 DEF o
    <3>2. CASE c # event.order
      <4>1. orders[c] = rows.orders[c] /\ rows.orders[c] \in OrderType
        BY <3>2, <1>1, <2>4
      <4> QED BY <4>1, HistoryReflexive DEF RowsInv
    <3> QED BY <3>1, <3>2
  <2> QED BY <2>5, <2>6
<1>10. new = [rows EXCEPT !.acct = account, !.fills = fills, !.orders = orders]
  BY <1>1 DEF Admit, account, row, RowsType
<1> HIDE DEF fills, orders, o
<1>11. /\ new \in RowsType /\ new.acct = account /\ new.fills = fills /\ new.orders = orders
  BY <1>1, <1>4, <1>7, <1>9, <1>10 DEF RowsType
<1> HIDE DEF new
<1>12. \A i \in 1..n : /\ rows.fills[i].seq \in Nat /\ rows.fills[i].filledAt \in Nat
                       /\ rows.fills[i].receivedAt \in Nat
                       /\ rows.fills[i].seq <= rows.acct.lastSeq
                       /\ rows.fills[i].filledAt <= rows.acct.lastFilled
                       /\ rows.fills[i].receivedAt <= rows.acct.updated
  <2>1. \A i \in 1..n : rows.fills[i] \in FillType
    BY <1>1
  <2> QED BY <2>1 DEF FillType, RowsInv, FillsUpToAccount
<1>13. FillsUpToAccount(new)
  <2> SUFFICES ASSUME NEW i \in 1..(n + 1)
               PROVE  /\ fills[i].seq <= event.seq
                      /\ fills[i].filledAt <= event.filledAt
                      /\ fills[i].receivedAt <= event.receivedAt
    BY <1>2, <1>7, <1>11 DEF FillsUpToAccount
  <2>1. CASE i = n + 1
    BY <2>1, <1>3, <1>6, <1>7
  <2>2. CASE i \in 1..n
    <3>1. fills[i] = rows.fills[i]
      BY <2>2, <1>7
    <3>2. /\ fills[i].seq \in Nat /\ fills[i].seq <= rows.acct.lastSeq
          /\ fills[i].filledAt \in Nat /\ fills[i].filledAt <= rows.acct.lastFilled
          /\ fills[i].receivedAt \in Nat /\ fills[i].receivedAt <= rows.acct.updated
      BY <2>2, <3>1, <1>12
    <3>4. fills[i].seq <= event.seq
      BY <3>2, <1>3, <1>4, <1>5, SMTT(30)
    <3>5. fills[i].filledAt <= event.filledAt
      BY <3>2, <1>3, <1>4, <1>5
    <3>6. fills[i].receivedAt <= event.receivedAt
      BY <3>2, <1>3, <1>4, <1>5
    <3> QED BY <3>4, <3>5, <3>6
  <2> QED BY <2>1, <2>2, <1>1
<1>14. FillsInOrder(new)
  <2> SUFFICES ASSUME NEW i \in 1..(n + 1), NEW j \in 1..(n + 1), i < j
               PROVE  /\ fills[i].seq < fills[j].seq
                      /\ fills[i].filledAt <= fills[j].filledAt
                      /\ fills[i].receivedAt <= fills[j].receivedAt
    BY <1>7, <1>11 DEF FillsInOrder
  <2>1. CASE j = n + 1
    <3>1. i \in 1..n
      BY <2>1, <1>1
    <3>2. fills[i] = rows.fills[i] /\ fills[j] = row
      BY <3>1, <2>1, <1>7
    <3>3. /\ fills[i].seq \in Nat /\ fills[i].seq <= rows.acct.lastSeq
          /\ fills[i].filledAt \in Nat /\ fills[i].filledAt <= rows.acct.lastFilled
          /\ fills[i].receivedAt \in Nat /\ fills[i].receivedAt <= rows.acct.updated
      BY <3>1, <3>2, <1>12
    <3>4. fills[i].seq < event.seq
      BY <3>3, <1>3, <1>4, <1>5, SMTT(30)
    <3>5. fills[i].filledAt <= event.filledAt
      BY <3>3, <1>3, <1>4, <1>5, SMTT(30)
    <3>6. fills[i].receivedAt <= event.receivedAt
      BY <3>3, <1>3, <1>4, <1>5, SMTT(30)
    <3> QED BY <3>2, <3>4, <3>5, <3>6, <1>6
  <2>2. CASE j \in 1..n
    <3>1. i \in 1..n
      BY <2>2, <1>1
    <3> QED BY <2>2, <3>1, <1>7 DEF RowsInv, FillsInOrder
  <2> QED BY <2>1, <2>2, <1>1
<1>15. \A c \in Commands : OrderInv(orders[c])
  BY <1>9
<1>16. RowsInv(new)
  BY <1>2, <1>11, <1>13, <1>14, <1>15 DEF RowsInv
<1> QED BY <1>9, <1>11, <1>16 DEF new

-----------------------------------------------------------------------------
(* The inductive invariant *)

TxInv ==
    tx.open => /\ tx.at \in 1..tx.cutoff /\ tx.cutoff <= clock
               /\ RowsInv(tx.work)
               /\ \A c \in Commands : OrderMayBecome(ledger.orders[c], tx.work.orders[c])

IInv ==
    /\ TypeOK
    /\ RowsInv(ledger)
    /\ TxInv
    /\ ClosedAccountIsFlat

History == \A c \in Commands : OrderMayBecome(ledger.orders[c], ledger'.orders[c])

\* The order rows of typed ledger rows.
LEMMA OrdersTyped ==
    ASSUME NEW rows, RowsInv(rows), NEW c \in Commands
    PROVE  rows.orders[c] \in OrderType
BY DEF RowsInv, RowsType

\* A step that leaves ledger, tx, closedAt and the clock alone.
LEMMA LedgerUnchanged ==
    ASSUME RowsInv(ledger), ledger' = ledger
    PROVE  History
<1> SUFFICES ASSUME NEW c \in Commands
             PROVE  OrderMayBecome(ledger.orders[c], ledger'.orders[c])
  BY DEF History
<1> QED BY OrdersTyped, HistoryReflexive

\* The row of a command nobody has submitted.
LEMMA NoOrderTyped == NoOrder \in OrderType /\ OrderInv(NoOrder)
BY DEF NoOrder, OrderType, Never, Exists, OrderInv, WellNamed

-----------------------------------------------------------------------------
(* Initially *)

\* A new account satisfies the inductive invariant.
LEMMA InitIInv == Init => IInv
<1> SUFFICES ASSUME Init PROVE IInv
  OBVIOUS
<1> DEFINE account == NewAccount(1)
<1>1. /\ account.pos = [s \in Symbols |-> FlatPosition] /\ account.trades = << >>
      /\ account \in AccountType
  <2>1. FlatPosition \in PositionType
    BY DEF FlatPosition, PositionType, Directions
  <2> QED BY <2>1, AccountingAssumption DEF NewAccount, AccountType, Never
<1>2. AccountInv(account)
  <2>1. Len(account.trades) = 0
    BY <1>1
  <2>2. \A s \in Symbols : account.pos[s].qty = 0 /\ account.pos[s].trade = 0
    BY <1>1 DEF FlatPosition
  <2> HIDE DEF account
  <2> QED BY <1>1, <2>1, <2>2 DEF AccountInv, PositionsNameTheirTrades, ProfitExact
<1> HIDE DEF account
<1>3. /\ ledger = [acct |-> account, orders |-> [c \in Commands |-> NoOrder],
                   fills |-> << >>, cmdSeq |-> 0]
  BY DEF Init, account
<1>4. ledger \in RowsType
  BY <1>1, <1>3, NoOrderTyped DEF RowsType
<1>5. RowsInv(ledger)
  BY <1>2, <1>3, <1>4, NoOrderTyped DEF RowsInv, FillsInOrder, FillsUpToAccount
<1>6. TypeOK
  <2>1. /\ clock = 1 /\ candle = [s \in Symbols |-> << >>] /\ closedAt = Never
        /\ tx = [open |-> FALSE]
        /\ io = [submit |-> {}, cancel |-> [c \in Commands |-> 0]]
    BY DEF Init
  <2>2. \A c \in Commands : WellNamed(ledger.orders[c])
    BY <1>5 DEF RowsInv, OrderInv
  <2> QED BY <1>4, <2>1, <2>2 DEF TypeOK, Never
<1>7. TxInv /\ ClosedAccountIsFlat
  BY DEF Init, TxInv, ClosedAccountIsFlat, Closed
<1> QED BY <1>5, <1>6, <1>7 DEF IInv

-----------------------------------------------------------------------------
(* Steps that rewrite one order *)

WithOrder(rows, c, n, k) == [rows EXCEPT !.orders[c] = n, !.cmdSeq = k]

\* A transaction that writes one order row, and possibly the command sequence.
LEMMA OneOrderRewritten ==
    ASSUME NEW rows, RowsInv(rows), NEW c \in Commands, NEW n \in OrderType,
           OrderInv(n),
           OrderMayBecome(rows.orders[c], n), NEW k \in Nat
    PROVE  LET new == WithOrder(rows, c, n, k)
           IN  /\ RowsInv(new)
               /\ \A d \in Commands : OrderMayBecome(rows.orders[d], new.orders[d])
               /\ \A d \in Commands \ {c} : new.orders[d] = rows.orders[d]
               /\ new.orders[c] = n /\ new.acct = rows.acct
<1> DEFINE orders == [rows.orders EXCEPT ![c] = n]
           new == [rows EXCEPT !.orders = orders, !.cmdSeq = k]
<1>1. rows \in RowsType /\ rows.orders \in [Commands -> OrderType]
  BY DEF RowsInv, RowsType
<1>2. /\ orders \in [Commands -> OrderType] /\ orders[c] = n
      /\ \A d \in Commands \ {c} : orders[d] = rows.orders[d]
  BY <1>1
<1>3. WithOrder(rows, c, n, k) = new
  BY <1>1 DEF RowsType, WithOrder
<1> HIDE DEF orders
<1>4. new.orders = orders /\ new.acct = rows.acct
  BY <1>1 DEF RowsType
<1>5. \A d \in Commands : OrderInv(orders[d])
  BY <1>2 DEF RowsInv
<1>6. RowsInv(new)
  BY <1>2, <1>5, OrdersRewritten
<1>7. ASSUME NEW d \in Commands
      PROVE  OrderMayBecome(rows.orders[d], orders[d])
  <2>1. CASE d = c
    BY <2>1, <1>2
  <2>2. CASE d # c
    BY <2>2, <1>2, <1>1, HistoryReflexive
  <2> QED BY <2>1, <2>2
<1> HIDE DEF new
<1> QED BY <1>2, <1>3, <1>4, <1>6, <1>7

\* The same when no command is accepted.
LEMMA OneOrderUpdated ==
    ASSUME NEW rows, RowsInv(rows), NEW c \in Commands, NEW n \in OrderType,
           OrderInv(n),
           OrderMayBecome(rows.orders[c], n)
    PROVE  LET new == [rows EXCEPT !.orders[c] = n]
           IN  /\ RowsInv(new)
               /\ \A d \in Commands : OrderMayBecome(rows.orders[d], new.orders[d])
               /\ \A d \in Commands \ {c} : new.orders[d] = rows.orders[d]
               /\ new.orders[c] = n /\ new.acct = rows.acct
<1>1. rows \in RowsType /\ rows.cmdSeq \in Nat
  BY DEF RowsInv, RowsType
<1> DEFINE new == WithOrder(rows, c, n, rows.cmdSeq)
<1>2. [rows EXCEPT !.orders[c] = n] = new
  BY <1>1 DEF RowsType, WithOrder
<1>3. /\ RowsInv(new)
      /\ \A d \in Commands : OrderMayBecome(rows.orders[d], new.orders[d])
      /\ \A d \in Commands \ {c} : new.orders[d] = rows.orders[d]
      /\ new.orders[c] = n /\ new.acct = rows.acct
  BY <1>1, OneOrderRewritten
<1> HIDE DEF new
<1> QED BY <1>2, <1>3

IoType == [submit : SUBSET Commands, cancel : [Commands -> Nat]]

\* A transaction of one action.
LEMMA LedgerStep ==
    ASSUME IInv, ~tx.open, Closed => ledger' = ledger, RowsInv(ledger'),
           UNCHANGED <<clock, candle, closedAt, tx>>, io' \in IoType
    PROVE  IInv'
<1>1. TypeOK'
  <2>1. \A c \in Commands : WellNamed(ledger'.orders[c])
    BY DEF RowsInv, OrderInv
  <2> QED BY <2>1 DEF IInv, TypeOK, RowsInv, IoType
<1>2. TxInv'
  BY DEF TxInv
<1>3. ClosedAccountIsFlat'
  <2>1. CASE Closed
    BY <2>1 DEF IInv, ClosedAccountIsFlat, Closed
  <2>2. CASE ~Closed
    BY <2>2 DEF ClosedAccountIsFlat, Closed
  <2> QED BY <2>1, <2>2
<1> QED BY <1>1, <1>2, <1>3 DEF IInv

\* The provider calls in flight.
LEMMA IoTyped == IInv => /\ io \in IoType
                         /\ io.submit \subseteq Commands /\ io.cancel \in [Commands -> Nat]
BY DEF IInv, TypeOK, IoType

\* submit_order, first transaction.
LEMMA SubmitOrderStep ==
    ASSUME IInv, NEW c \in Commands, NEW intent \in Intents[c], SubmitOrder(c, intent)
    PROVE  IInv' /\ History
<1>1. PICK now \in Readings :
        LET order == AcceptedOrder(c, intent, now)
        IN  /\ ledger' = [ledger EXCEPT !.orders[c] = order, !.cmdSeq = @ + 1]
            /\ io' = IF order.st = "REJECTED" THEN io
                     ELSE [io EXCEPT !.submit = @ \cup {c}]
  BY DEF SubmitOrder
<1> DEFINE order == AcceptedOrder(c, intent, now)
<1>2. RowsInv(ledger) /\ ledger.cmdSeq \in Nat /\ ledger.acct.pos \in [Symbols -> PositionType]
  BY DEF IInv, RowsInv, RowsType, AccountType
<1>3. intent \in IntentType /\ intent.sym \in Symbols
  BY GatewayAssumption DEF IntentType
<1>4. ledger.acct.pos[intent.sym].trade \in Nat
  BY <1>2, <1>3 DEF PositionType
<1>5. now \in Nat
  BY DEF Readings
<1>6. order \in OrderType /\ OrderInv(order)
  <2> DEFINE p == ledger.acct.pos[intent.sym]
             reduce == p.qty # 0 /\ p.dir # Direction(intent.side)
             over == reduce /\ intent.qty > p.qty
             st == IF over THEN "REJECTED" ELSE "UNKNOWN"
             seq == ledger.cmdSeq + 1
             bound == IF reduce THEN p.trade ELSE 0
  <2>1. /\ st \in {"REJECTED", "UNKNOWN"} /\ seq \in Nat /\ bound \in Nat
        /\ reduce \in BOOLEAN
    BY <1>2, <1>4
  <2>2. order = [NoOrder EXCEPT !.st = st, !.intent = intent, !.seq = seq,
                                !.acceptedAt = now, !.reduceOnly = reduce, !.bound = bound]
    BY DEF AcceptedOrder
  <2> HIDE DEF st, seq, bound, reduce, order
  <2>3. /\ order \in OrderType /\ order.intent = intent /\ order.filled = NoOrder.filled
        /\ order.st = st /\ order.named = NoOrder.named
    BY <1>3, <1>5, <2>1, <2>2, NoOrderTyped DEF OrderType
  <2>4. intent.qty \in Nat /\ NoOrder.filled = 0 /\ NoOrder.named = FALSE
    BY <1>3 DEF IntentType, NoOrder
  <2>5. st # "ACKNOWLEDGED"
    BY <2>1
  <2> QED BY <1>3, <2>3, <2>4, <2>5 DEF OrderInv, WellNamed
<1> HIDE DEF order
<1>7. OrderMayBecome(ledger.orders[c], order)
  BY DEF SubmitOrder, OrderMayBecome
<1>8. ledger' = WithOrder(ledger, c, order, ledger.cmdSeq + 1)
  BY <1>1, <1>2 DEF order, WithOrder
<1>9. ledger.cmdSeq + 1 \in Nat
  BY <1>2
<1>10. RowsInv(ledger') /\ History
  BY <1>2, <1>3, <1>6, <1>7, <1>8, <1>9, OneOrderRewritten DEF History
<1>11. io' \in IoType
  <2>1. io' = io \/ io' = [io EXCEPT !.submit = @ \cup {c}]
    BY <1>1
  <2> QED BY <2>1, IoTyped DEF IoType
<1>12. IInv'
  BY <1>10, <1>11, LedgerStep DEF SubmitOrder, Unlocked
<1> QED BY <1>10, <1>12

\* _save_submission on its own.
LEMMA SaveSubmissionRows ==
    ASSUME IInv, NEW c \in Commands, NEW receipt \in Receipts, SaveSubmission(c, receipt)
    PROVE  RowsInv(ledger') /\ History /\ (Closed => ledger' = ledger)
<1> DEFINE o == ledger.orders[c]
           n == [o EXCEPT !.st = ReceiptStatus(receipt), !.named = receipt.named]
<1>1. RowsInv(ledger) /\ o \in OrderType
  BY OrdersTyped DEF IInv
<1>2. CASE o.st = "UNKNOWN" /\ ~Closed
  <2>1. ledger' = [ledger EXCEPT !.orders[c] = n]
    <3>1. ledger \in RowsType
      BY <1>1 DEF RowsInv
    <3> QED BY <1>2, <3>1 DEF SaveSubmission, TakesReceipt, RowsType
  <2>2. /\ ReceiptStatus(receipt) \in {"ACKNOWLEDGED", "REJECTED", "UNKNOWN"}
        /\ receipt.named \in BOOLEAN
        /\ ReceiptStatus(receipt) = "ACKNOWLEDGED" => receipt.named
    BY GatewayAssumption DEF ReceiptStatus
  <2>3. /\ n \in OrderType /\ n.intent = o.intent /\ n.st \in {"ACKNOWLEDGED", "REJECTED", "UNKNOWN"}
        /\ n.acceptedAt = o.acceptedAt /\ n.filled = o.filled /\ n.lastObs = o.lastObs
        /\ n.cancelledAt = o.cancelledAt /\ (n.st = "ACKNOWLEDGED" => n.named)
    BY <1>1, <2>2 DEF OrderType
  <2>4. OrderInv(n)
    BY <1>1, <1>2, <2>3 DEF RowsInv, OrderInv, WellNamed, Exists
  <2>5. OrderMayBecome(o, n)
    <3>1. Cursor(n) = Cursor(o) /\ Cursor(o) \in Nat /\ o.filled \in Nat
      BY <1>1, <2>3 DEF Cursor, OrderType
    <3> QED BY <1>2, <2>3, <3>1 DEF OrderMayBecome, Exists
  <2> HIDE DEF n
  <2>6. RowsInv(ledger') /\ \A d \in Commands : OrderMayBecome(ledger.orders[d], ledger'.orders[d])
    BY <1>1, <2>1, <2>3, <2>4, <2>5, OneOrderUpdated
  <2> QED BY <1>2, <2>6 DEF History
<1>3. CASE ~(o.st = "UNKNOWN" /\ ~Closed)
  BY <1>1, <1>3, LedgerUnchanged DEF SaveSubmission, TakesReceipt
<1> QED BY <1>2, <1>3

\* submit_order, second transaction.
LEMMA SubmissionAnsweredStep ==
    ASSUME IInv, NEW c \in Commands, NEW receipt \in Receipts, SubmissionAnswered(c, receipt)
    PROVE  IInv' /\ History
<1>1. RowsInv(ledger') /\ History /\ (Closed => ledger' = ledger)
  BY SaveSubmissionRows DEF SubmissionAnswered
<1>2. io' \in IoType
  BY IoTyped DEF SubmissionAnswered, IoType
<1> QED BY <1>1, <1>2, LedgerStep DEF SubmissionAnswered, Unlocked

\* reconcile_submission.
LEMMA ReconcileSubmissionStep ==
    ASSUME IInv, NEW c \in Commands, NEW receipt \in Receipts, ReconcileSubmission(c, receipt)
    PROVE  IInv' /\ History
<1>1. RowsInv(ledger') /\ History /\ (Closed => ledger' = ledger)
  BY SaveSubmissionRows DEF ReconcileSubmission
<1> QED BY <1>1, IoTyped, LedgerStep DEF ReconcileSubmission, Unlocked

\* cancel_order, first transaction.
LEMMA CancelOrderStep ==
    ASSUME IInv, NEW c \in Commands, CancelOrder(c)
    PROVE  IInv' /\ History
<1>1. io' \in IoType
  BY IoTyped DEF CancelOrder, IoType
<1>2. ledger' = ledger /\ RowsInv(ledger')
  BY DEF CancelOrder, IInv
<1> QED BY <1>1, <1>2, LedgerStep, LedgerUnchanged DEF CancelOrder, Unlocked, IInv

\* cancel_order, second transaction.
LEMMA CancelAnsweredStep ==
    ASSUME IInv, NEW c \in Commands, NEW result \in CancelResults, CancelAnswered(c, result)
    PROVE  IInv' /\ History
<1> DEFINE o == ledger.orders[c]
           n == CancelledOrder(o, result, clock)
<1>1. RowsInv(ledger) /\ o \in OrderType /\ ledger \in RowsType
  BY OrdersTyped DEF IInv, RowsInv
<1>2. io' \in IoType
  <2>1. io.cancel[c] \in Nat /\ io.cancel[c] > 0
    BY IoTyped DEF CancelAnswered
  <2>2. [io.cancel EXCEPT ![c] = @ - 1] \in [Commands -> Nat]
    BY <2>1, IoTyped
  <2> QED BY <2>2, IoTyped DEF CancelAnswered, IoType
<1>3. CASE Closed
  <2>1. ledger' = ledger
    BY <1>3 DEF CancelAnswered
  <2> QED BY <1>1, <1>2, <2>1, LedgerStep, LedgerUnchanged DEF CancelAnswered, Unlocked
<1>4. CASE ~Closed
  <2>1. ledger' = [ledger EXCEPT !.orders[c] = n]
    BY <1>1, <1>4 DEF CancelAnswered, RowsType
  <2>2. clock \in Nat /\ result \in {"CANCELLED", "REJECTED", "UNKNOWN"}
    BY GatewayAssumption DEF IInv, TypeOK
  <2>3. /\ n \in OrderType /\ n.st = o.st /\ n.intent = o.intent
        /\ n.acceptedAt = o.acceptedAt /\ n.filled = o.filled /\ n.lastObs = o.lastObs
        /\ (o.cancelledAt # Never => n.cancelledAt = o.cancelledAt) /\ n.named = o.named
    <3> DEFINE at == IF result = "CANCELLED" /\ o.filled < o.intent.qty
                     THEN IF o.cancelledAt = Never THEN clock ELSE o.cancelledAt
                     ELSE o.cancelledAt
    <3>1. at \in Nat /\ (o.cancelledAt # Never => at = o.cancelledAt)
      BY <1>1, <2>2 DEF OrderType
    <3>2. n = [o EXCEPT !.cancelStatus = result, !.cancelledAt = at]
      BY <1>1 DEF CancelledOrder, OrderType
    <3> HIDE DEF at, n
    <3> QED BY <1>1, <2>2, <3>1, <3>2 DEF OrderType
  <2>4. OrderInv(n)
    BY <1>1, <2>3 DEF RowsInv, OrderInv, WellNamed, Exists
  <2>5. OrderMayBecome(o, n)
    <3>1. Cursor(n) = Cursor(o) /\ Cursor(o) \in Nat /\ o.filled \in Nat
      BY <1>1, <2>3 DEF Cursor, OrderType
    <3> QED BY <2>3, <3>1 DEF OrderMayBecome, Exists
  <2> HIDE DEF n
  <2>6. RowsInv(ledger') /\ History
    BY <1>1, <2>1, <2>3, <2>4, <2>5, OneOrderUpdated DEF History
  <2> QED BY <1>2, <1>4, <2>6, LedgerStep DEF CancelAnswered, Unlocked
<1> QED BY <1>3, <1>4

\* admit_event of a connector fill.
LEMMA AdmitEventStep ==
    ASSUME IInv, NEW c \in Commands, NEW id \in ExternalFillIds, NEW content \in Events,
           AdmitEvent(c, id, content)
    PROVE  IInv' /\ History
<1>1. PICK received \in Readings, filled \in 1..clock,
           seq \in {ledger.acct.lastSeq, ledger.acct.lastSeq + 1} :
        LET event == [id |-> id, order |-> c, sym |-> ledger.orders[c].intent.sym,
                      side |-> ledger.orders[c].intent.side,
                      price |-> content.price, qty |-> content.qty,
                      fee |-> content.fee, seq |-> seq,
                      filledAt |-> filled, receivedAt |-> received]
        IN  /\ filled <= received
            /\ AdmitError(ledger, event) = "none"
            /\ ledger' = Admit(ledger, event)
  BY DEF AdmitEvent
<1> DEFINE event == [id |-> id, order |-> c, sym |-> ledger.orders[c].intent.sym,
                     side |-> ledger.orders[c].intent.side,
                     price |-> content.price, qty |-> content.qty,
                     fee |-> content.fee, seq |-> seq,
                     filledAt |-> filled, receivedAt |-> received]
<1>2. RowsInv(ledger) /\ ledger.acct.lastSeq \in Nat /\ clock \in Nat
  BY DEF IInv, TypeOK, RowsInv, AccountInv, AccountType
<1>3. ledger.orders[c].intent \in IntentType
  BY <1>2 DEF AdmitEvent, RowsInv, OrderInv
<1>4. /\ ledger.orders[c].intent.sym \in Symbols /\ ledger.orders[c].intent.side \in Sides
  BY <1>3 DEF IntentType
<1>5. content.price \in Nat /\ content.qty \in Nat \ {0} /\ content.fee \in Nat
  BY GatewayAssumption
<1>6. seq \in Nat /\ filled \in Nat \ {0} /\ received \in Nat
  BY <1>2 DEF Readings
<1>7. event \in EventType
  BY <1>4, <1>5, <1>6 DEF EventType
<1>8. AdmitError(ledger, event) = "none" /\ ledger' = Admit(ledger, event)
  BY <1>1
<1> HIDE DEF event
<1>9. RowsInv(ledger') /\ History
  BY <1>2, <1>7, <1>8, AdmitInv DEF History
<1> QED BY <1>9, LedgerStep, IoTyped DEF AdmitEvent, Unlocked

-----------------------------------------------------------------------------
(* The observation transaction *)

\* The shape of the transaction record.
LEMMA OpenTx ==
    ASSUME IInv, tx.open
    PROVE  /\ tx \in [open : {TRUE}, sym : Symbols, at : Nat, cutoff : Nat, work : RowsType]
           /\ tx.sym \in Symbols /\ tx.at \in Nat \ {0} /\ tx.cutoff \in Nat /\ tx.at <= tx.cutoff
           /\ tx.cutoff <= clock /\ RowsInv(tx.work) /\ clock \in Nat /\ ~Closed
           /\ \A c \in Commands : OrderMayBecome(ledger.orders[c], tx.work.orders[c])
<1>1. tx \in [open : {TRUE}, sym : Symbols, at : Nat, cutoff : Nat, work : RowsType]
  <2>1. tx # [open |-> FALSE]
    <3> SUFFICES ASSUME tx = [open |-> FALSE] PROVE FALSE
      OBVIOUS
    <3>1. tx.open = FALSE
      OBVIOUS
    <3> QED BY <3>1
  <2> QED BY <2>1 DEF IInv, TypeOK
<1>2. tx.sym \in Symbols /\ tx.at \in Nat /\ tx.cutoff \in Nat
  BY <1>1
<1>3. tx.at \in 1..tx.cutoff /\ tx.cutoff <= clock /\ RowsInv(tx.work)
      /\ \A c \in Commands : OrderMayBecome(ledger.orders[c], tx.work.orders[c])
  BY DEF IInv, TxInv
<1>4. clock \in Nat /\ ~Closed
  BY GatewayAssumption DEF IInv, TypeOK, ClosedAccountIsFlat
<1>5. tx.at \in Nat \ {0} /\ tx.at <= tx.cutoff
  BY <1>2, <1>3
<1> QED BY <1>1, <1>2, <1>3, <1>4, <1>5

\* A step that only works on the transaction.
LEMMA TxStep ==
    ASSUME IInv, UNCHANGED <<clock, candle, ledger, closedAt, io>>,
           ~Closed \/ ~tx'.open,
           \/ tx' = [open |-> FALSE]
           \/ tx' \in [open : {TRUE}, sym : Symbols, at : Nat, cutoff : Nat, work : RowsType],
           TxInv'
    PROVE  IInv' /\ History
<1>1. TypeOK'
  BY DEF IInv, TypeOK
<1>2. RowsInv(ledger')
  BY DEF IInv
<1>3. ClosedAccountIsFlat'
  BY DEF IInv, ClosedAccountIsFlat, Closed
<1>4. History
  BY LedgerUnchanged DEF IInv
<1> QED BY <1>1, <1>2, <1>3, <1>4 DEF IInv

\* A raised observation leaves the committed rows alone.
LEMMA RollbackStep ==
    ASSUME IInv, Rollback
    PROVE  IInv' /\ History
<1>1. TxInv' /\ ~tx'.open /\ tx' = [open |-> FALSE]
  BY DEF Rollback, TxInv
<1> QED BY <1>1, TxStep DEF Rollback

\* The observation takes its working copy of the rows.
LEMMA ObserveBeginStep ==
    ASSUME IInv, NEW s \in Symbols, NEW first \in 1..MaxMinute, ObserveBegin(s, first)
    PROVE  IInv' /\ History
<1>1. PICK now \in Readings :
        /\ first < now
        /\ tx' = [open |-> TRUE, sym |-> s, at |-> first, cutoff |-> now, work |-> ledger]
  BY DEF ObserveBegin
<1>2. RowsInv(ledger) /\ ledger \in RowsType /\ clock \in Nat
  BY DEF IInv, TypeOK
<1>3. now \in Nat /\ now <= clock /\ first \in Nat \ {0}
  BY <1>2, GatewayAssumption DEF Readings
<1>4. tx' \in [open : {TRUE}, sym : Symbols, at : Nat, cutoff : Nat, work : RowsType]
  BY <1>1, <1>2, <1>3
<1>5. \A c \in Commands : OrderMayBecome(ledger.orders[c], ledger.orders[c])
  BY <1>2, OrdersTyped, HistoryReflexive
<1>6. /\ tx'.at = first /\ tx'.cutoff = now /\ tx'.work = ledger /\ ledger' = ledger
      /\ clock' = clock
  BY <1>1 DEF ObserveBegin
<1>7. TxInv'
  BY <1>1, <1>2, <1>3, <1>5, <1>6 DEF TxInv
<1> QED BY <1>4, <1>7, TxStep DEF ObserveBegin

\* Recording that an order has met the candle at tx.at.
LEMMA AdvanceInv ==
    ASSUME NEW rows, RowsInv(rows), NEW c \in Commands, tx.at \in Nat \ {0},
           Cursor(rows.orders[c]) <= tx.at
    PROVE  /\ RowsInv(Advance(rows, c))
           /\ \A d \in Commands : OrderMayBecome(rows.orders[d], Advance(rows, c).orders[d])
<1> DEFINE o == rows.orders[c]
           n == [o EXCEPT !.lastObs = tx.at]
<1>1. rows \in RowsType /\ o \in OrderType
  BY OrdersTyped DEF RowsInv
<1>2. Advance(rows, c) = [rows EXCEPT !.orders[c] = n]
  BY <1>1 DEF Advance, RowsType
<1>3. /\ n \in OrderType /\ n.st = o.st /\ n.intent = o.intent
      /\ n.acceptedAt = o.acceptedAt /\ n.filled = o.filled /\ n.lastObs = tx.at
      /\ n.cancelledAt = o.cancelledAt /\ n.named = o.named
  BY <1>1 DEF OrderType
<1>4. OrderInv(n)
  BY <1>3 DEF RowsInv, OrderInv, WellNamed, Exists
<1>5. OrderMayBecome(o, n)
  <2>1. Cursor(n) = tx.at /\ Cursor(o) \in Nat /\ o.filled \in Nat
    BY <1>1, <1>3 DEF Cursor, OrderType, Never
  <2> HIDE DEF n
  <2>2. Cursor(n) >= Cursor(o)
    BY <2>1
  <2> QED BY <1>3, <2>1, <2>2 DEF OrderMayBecome, Exists
<1> HIDE DEF n
<1> QED BY <1>1, <1>2, <1>3, <1>4, <1>5, OneOrderUpdated

\* The fill an observation proposes is well formed.
LEMMA ProposedFillTyped ==
    ASSUME IInv, NEW c \in Commands, Observing, NextDue(c)
    PROVE  ProposedFill(c) \in EventType
<1> DEFINE o == tx.work.orders[c]
           k == candle[tx.sym][tx.at]
           price == FillPrice(o.intent, k)
           qty == o.intent.qty - o.filled
<1>1. tx.open /\ tx.at < tx.cutoff
  BY DEF Observing
<1>2. /\ tx.sym \in Symbols /\ tx.at \in Nat \ {0} /\ tx.cutoff \in Nat
      /\ tx.cutoff <= clock /\ RowsInv(tx.work) /\ clock \in Nat
  BY <1>1, OpenTx
<1>3. candle[tx.sym] \in Seq(CandleType) /\ Len(candle[tx.sym]) = clock - 1
  BY <1>2 DEF IInv, TypeOK
<1>4. k \in CandleType
  BY <1>1, <1>2, <1>3
<1>5. k.close \in Nat
  BY <1>4 DEF CandleType
<1>6. Working(o) /\ o \in OrderType
  BY <1>2, OrdersTyped DEF NextDue, Due
<1>7. o.intent \in IntentType
  BY <1>2, <1>6 DEF RowsInv, OrderInv, Working, Exists
<1>8. /\ o.intent.qty \in Nat /\ o.intent.price \in Nat /\ o.intent.side \in Sides
  BY <1>7 DEF IntentType
<1>9. price \in Nat /\ o.intent.sym = tx.sym
  BY <1>5, <1>8 DEF FillPrice, NextDue, Due
<1>10. qty \in Nat \ {0}
  <2>1. o.filled \in Nat /\ o.filled <= o.intent.qty /\ o.filled # o.intent.qty
    BY <1>2, <1>6 DEF RowsInv, OrderInv, Working, FullyFilled, Exists, OrderType
  <2> QED BY <1>8, <2>1
<1>11. tx.work.acct.lastSeq + 1 \in Nat
  BY <1>2 DEF RowsInv, AccountInv, AccountType
<1>12. PaperFee(price, qty) \in Nat
  BY <1>9, <1>10 DEF PaperFee
<1>13. tx.at + 1 \in Nat \ {0}
  BY <1>2
<1> HIDE DEF price, qty
<1>14. ProposedFill(c)
         = [id |-> c, order |-> c, sym |-> tx.sym, side |-> o.intent.side,
            price |-> price, qty |-> qty, fee |-> PaperFee(price, qty),
            seq |-> tx.work.acct.lastSeq + 1, filledAt |-> tx.at + 1,
            receivedAt |-> tx.cutoff]
  BY DEF ProposedFill, price, qty
<1> QED BY <1>2, <1>8, <1>9, <1>10, <1>11, <1>12, <1>13, <1>14 DEF EventType

\* Progress of the transaction: newer rows, or a later candle.
LEMMA WorkStep ==
    ASSUME IInv, tx.open, UNCHANGED <<clock, candle, ledger, closedAt, io>>,
           NEW rows, RowsInv(rows), tx' = [tx EXCEPT !.work = rows],
           \A c \in Commands : OrderMayBecome(tx.work.orders[c], rows.orders[c])
    PROVE  IInv' /\ History
<1>1. /\ tx \in [open : {TRUE}, sym : Symbols, at : Nat, cutoff : Nat, work : RowsType]
      /\ tx.at \in Nat \ {0} /\ tx.cutoff \in Nat /\ tx.at <= tx.cutoff
      /\ tx.cutoff <= clock /\ RowsInv(tx.work) /\ ~Closed
      /\ \A c \in Commands : OrderMayBecome(ledger.orders[c], tx.work.orders[c])
  BY OpenTx
<1>2. rows \in RowsType
  BY DEF RowsInv
<1>3. /\ tx' \in [open : {TRUE}, sym : Symbols, at : Nat, cutoff : Nat, work : RowsType]
      /\ tx'.at = tx.at /\ tx'.cutoff = tx.cutoff /\ tx'.work = rows
  BY <1>1, <1>2
<1>4. ASSUME NEW c \in Commands
      PROVE  OrderMayBecome(ledger.orders[c], rows.orders[c])
  <2>1. /\ ledger.orders[c] \in OrderType /\ tx.work.orders[c] \in OrderType
        /\ rows.orders[c] \in OrderType
    BY <1>1, OrdersTyped DEF IInv
  <2> QED BY <1>1, <2>1, HistoryTransitive
<1>5. tx'.at \in 1..tx'.cutoff /\ tx'.cutoff <= clock'
  BY <1>1, <1>3
<1>6. TxInv'
  BY <1>3, <1>4, <1>5 DEF TxInv
<1> QED BY <1>1, <1>3, <1>6, TxStep

\* One order meets one candle in the working copy.
LEMMA ObserveOrderStep ==
    ASSUME IInv, NEW c \in Commands, ObserveOrder(c)
    PROVE  IInv' /\ History
<1> DEFINE o == tx.work.orders[c]
           event == ProposedFill(c)
           error == AdmitError(tx.work, event)
           k == candle[tx.sym][tx.at]
<1>1. /\ Observing /\ NextDue(c) /\ tx.at = Cursor(o) + 1
      /\ UNCHANGED <<clock, candle, ledger, closedAt, io>>
  BY DEF ObserveOrder
<1>2. tx.open /\ tx.at \in Nat \ {0} /\ RowsInv(tx.work) /\ o \in OrderType
  BY <1>1, OpenTx, OrdersTyped DEF Observing
<1>3. Cursor(o) \in Nat /\ Cursor(o) <= tx.at
  <2>1. Cursor(o) \in Nat
    BY <1>2 DEF Cursor, OrderType
  <2> QED BY <1>1, <2>1
<1>4. ASSUME NEW rows, RowsInv(rows), Cursor(rows.orders[c]) = Cursor(o),
             \A d \in Commands : OrderMayBecome(tx.work.orders[d], rows.orders[d]),
             tx' = [tx EXCEPT !.work = Advance(rows, c)]
      PROVE  IInv' /\ History
  <2>1. /\ RowsInv(Advance(rows, c))
        /\ \A d \in Commands : OrderMayBecome(rows.orders[d], Advance(rows, c).orders[d])
    BY <1>2, <1>3, <1>4, AdvanceInv
  <2>2. ASSUME NEW d \in Commands
        PROVE  OrderMayBecome(tx.work.orders[d], Advance(rows, c).orders[d])
    <3>1. /\ tx.work.orders[d] \in OrderType /\ rows.orders[d] \in OrderType
          /\ Advance(rows, c).orders[d] \in OrderType
      BY <1>2, <1>4, <2>1, OrdersTyped
    <3> QED BY <1>4, <2>1, <3>1, HistoryTransitive
  <2> QED BY <1>1, <1>2, <1>4, <2>1, <2>2, WorkStep
<1>5. CASE tx' = [tx EXCEPT !.work = Advance(@, c)]
  <2>1. tx' = [tx EXCEPT !.work = Advance(tx.work, c)]
    BY <1>5
  <2>2. \A d \in Commands : OrderMayBecome(tx.work.orders[d], tx.work.orders[d])
    BY <1>2, OrdersTyped, HistoryReflexive
  <2> QED BY <1>2, <1>4, <2>1, <2>2
<1>6. CASE error = "none" /\ tx' = [tx EXCEPT !.work = Advance(Admit(@, event), c)]
  <2>1. event \in EventType
    BY <1>1, ProposedFillTyped
  <2> HIDE DEF event
  <2>2. tx' = [tx EXCEPT !.work = Advance(Admit(tx.work, event), c)]
    BY <1>6
  <2>3. /\ RowsInv(Admit(tx.work, event))
        /\ \A d \in Commands :
             /\ OrderMayBecome(tx.work.orders[d], Admit(tx.work, event).orders[d])
             /\ Cursor(Admit(tx.work, event).orders[d]) = Cursor(tx.work.orders[d])
    BY <1>2, <1>6, <2>1, AdmitInv
  <2> QED BY <1>4, <2>2, <2>3
<1>7. CASE tx' = [tx EXCEPT !.work = Advance([@ EXCEPT !.orders[c].st = "REJECTED"], c)]
  <2> DEFINE n == [o EXCEPT !.st = "REJECTED"]
             rows == [tx.work EXCEPT !.orders[c] = n]
  <2>1. tx' = [tx EXCEPT !.work = Advance(rows, c)]
    <3>1. [tx.work EXCEPT !.orders[c].st = "REJECTED"] = rows
      BY <1>2 DEF RowsInv, RowsType
    <3> QED BY <1>7, <3>1
  <2>2. /\ n \in OrderType /\ n.st = "REJECTED" /\ n.intent = o.intent
        /\ n.acceptedAt = o.acceptedAt /\ n.filled = o.filled /\ n.lastObs = o.lastObs
        /\ n.cancelledAt = o.cancelledAt /\ n.named = o.named
    BY <1>2 DEF OrderType
  <2> HIDE DEF n
  <2>3. o.st = "ACKNOWLEDGED"
    BY <1>1 DEF NextDue, Due, Working
  <2>4. Cursor(n) = Cursor(o) /\ o.filled \in Nat
    BY <1>2, <2>2 DEF Cursor, OrderType
  <2>5. OrderMayBecome(o, n) /\ OrderInv(n)
    <3>1. OrderInv(o)
      BY <1>2 DEF RowsInv
    <3> QED BY <1>3, <2>2, <2>3, <2>4, <3>1 DEF OrderMayBecome, OrderInv, WellNamed, Exists
  <2>6. /\ RowsInv(rows) /\ rows.orders[c] = n
        /\ \A d \in Commands : OrderMayBecome(tx.work.orders[d], rows.orders[d])
    <3>1. RowsInv(tx.work) /\ n \in OrderType
      BY <1>2, <2>2
    <3> QED BY <3>1, <2>5, OneOrderUpdated
  <2> HIDE DEF rows
  <2> QED BY <1>4, <2>1, <2>4, <2>6
<1> QED BY <1>5, <1>6, <1>7 DEF ObserveOrder

\* The observation moves on to the next candle.
LEMMA ObserveNextStep ==
    ASSUME IInv, ObserveNext
    PROVE  IInv' /\ History
<1>1. /\ tx.open /\ tx.at < tx.cutoff /\ tx' = [tx EXCEPT !.at = @ + 1]
      /\ UNCHANGED <<clock, candle, ledger, closedAt, io>>
  BY DEF ObserveNext, Observing
<1>2. /\ tx \in [open : {TRUE}, sym : Symbols, at : Nat, cutoff : Nat, work : RowsType]
      /\ tx.at \in Nat \ {0} /\ tx.cutoff \in Nat
      /\ tx.cutoff <= clock /\ RowsInv(tx.work) /\ ~Closed
      /\ \A c \in Commands : OrderMayBecome(ledger.orders[c], tx.work.orders[c])
  BY <1>1, OpenTx
<1>3. /\ tx' \in [open : {TRUE}, sym : Symbols, at : Nat, cutoff : Nat, work : RowsType]
      /\ tx'.at = tx.at + 1 /\ tx'.cutoff = tx.cutoff /\ tx'.work = tx.work
  <2>1. tx.at + 1 \in Nat /\ tx' = [tx EXCEPT !.at = tx.at + 1]
    BY <1>1, <1>2
  <2>2. tx \in [open : {TRUE}, sym : Symbols, at : Nat, cutoff : Nat, work : RowsType]
    BY <1>2
  <2> QED BY <2>1, <2>2
<1>4. tx'.at \in 1..tx'.cutoff /\ tx'.cutoff <= clock'
  BY <1>1, <1>2, <1>3
<1>5. TxInv'
  BY <1>1, <1>2, <1>3, <1>4 DEF TxInv
<1> QED BY <1>1, <1>2, <1>3, <1>5, TxStep

\* The working copy becomes the committed rows.
LEMMA ObserveCommitStep ==
    ASSUME IInv, ObserveCommit
    PROVE  IInv' /\ History
<1>1. /\ tx.open /\ ledger' = tx.work /\ tx' = [open |-> FALSE]
      /\ UNCHANGED <<clock, candle, closedAt, io>>
  BY DEF ObserveCommit
<1>2. /\ RowsInv(tx.work) /\ ~Closed
      /\ \A c \in Commands : OrderMayBecome(ledger.orders[c], tx.work.orders[c])
  BY <1>1, OpenTx
<1>3. History
  BY <1>1, <1>2 DEF History
<1>4. RowsInv(ledger') /\ ledger' \in RowsType
  BY <1>1, <1>2 DEF RowsInv
<1>5. TypeOK'
  <2>1. \A c \in Commands : WellNamed(ledger'.orders[c])
    BY <1>4 DEF RowsInv, OrderInv
  <2> QED BY <1>1, <1>4, <2>1 DEF IInv, TypeOK
<1>6. TxInv' /\ ClosedAccountIsFlat'
  BY <1>1, <1>2 DEF TxInv, ClosedAccountIsFlat, Closed
<1> QED BY <1>3, <1>4, <1>5, <1>6 DEF IInv

-----------------------------------------------------------------------------
(* Time, closure and crashes *)

\* A minute closes.
LEMMA TickStep ==
    ASSUME IInv, Tick
    PROVE  IInv' /\ History
<1>1. PICK new \in [Symbols -> Candles[clock]] :
        candle' = [s \in Symbols |-> Append(candle[s], new[s])]
  BY DEF Tick
<1>2. /\ ~tx.open /\ clock < MaxMinute /\ clock' = clock + 1
      /\ UNCHANGED <<ledger, closedAt, tx, io>>
  BY DEF Tick, Unlocked
<1>3. /\ clock \in 1..MaxMinute /\ MaxMinute \in Nat
      /\ candle \in [Symbols -> Seq(CandleType)]
      /\ \A s \in Symbols : Len(candle[s]) = clock - 1
  BY <1>2, GatewayAssumption DEF IInv, TypeOK
<1>4. Candles[clock] \subseteq CandleType
  BY <1>3, GatewayAssumption
<1>5. ASSUME NEW s \in Symbols
      PROVE  candle'[s] \in Seq(CandleType) /\ Len(candle'[s]) = clock' - 1
  <2>1. new[s] \in CandleType
    BY <1>4
  <2>2. /\ Append(candle[s], new[s]) \in Seq(CandleType)
        /\ Len(Append(candle[s], new[s])) = Len(candle[s]) + 1
    BY <1>3, <2>1, AppendProperties
  <2> QED BY <1>1, <1>2, <1>3, <2>2
<1>6. candle' \in [Symbols -> Seq(CandleType)]
  BY <1>1, <1>5
<1>7. clock' \in 1..MaxMinute
  BY <1>2, <1>3
<1>8. TypeOK'
  BY <1>2, <1>5, <1>6, <1>7 DEF IInv, TypeOK
<1>9. RowsInv(ledger') /\ TxInv' /\ ClosedAccountIsFlat'
  BY <1>2 DEF IInv, TxInv, ClosedAccountIsFlat, Closed
<1> QED BY <1>2, <1>8, <1>9, LedgerUnchanged DEF IInv

\* close_account requires a flat account with no outstanding order.
LEMMA CloseAccountStep ==
    ASSUME IInv, CloseAccount
    PROVE  IInv' /\ History
<1>1. ~tx.open /\ closedAt' = clock /\ UNCHANGED <<clock, candle, ledger, tx, io>>
  BY DEF CloseAccount, Unlocked
<1>2. TypeOK' /\ RowsInv(ledger') /\ TxInv'
  <2>1. clock \in Nat
    BY GatewayAssumption DEF IInv, TypeOK
  <2>2. TypeOK'
    BY <1>1, <2>1 DEF IInv, TypeOK
  <2>3. RowsInv(ledger') /\ TxInv'
    BY <1>1 DEF IInv, TxInv
  <2> QED BY <2>2, <2>3
<1>3. ClosedAccountIsFlat'
  <2>1. \A s \in Symbols : ledger'.acct.pos[s].qty = 0
    BY <1>1 DEF CloseAccount
  <2>2. ASSUME NEW c \in Commands,
               ledger.orders[c].st \in {"UNKNOWN", "ACKNOWLEDGED"}
        PROVE  ledger.orders[c].cancelledAt # Never \/ FullyFilled(ledger.orders[c])
    BY <2>2 DEF CloseAccount, Settled
  <2> QED BY <1>1, <2>1, <2>2 DEF ClosedAccountIsFlat
<1> QED BY <1>1, <1>2, <1>3, LedgerUnchanged DEF IInv

\* A crash drops the working copy and the calls in flight.
LEMMA CrashStep ==
    ASSUME IInv, Crash
    PROVE  IInv' /\ History
<1>1. /\ tx' = [open |-> FALSE] /\ UNCHANGED <<clock, candle, ledger, closedAt>>
      /\ io' = [submit |-> {}, cancel |-> [c \in Commands |-> 0]]
  BY DEF Crash
<1>2. TypeOK' /\ RowsInv(ledger') /\ TxInv'
  BY <1>1 DEF IInv, TypeOK, TxInv
<1>3. ClosedAccountIsFlat'
  BY <1>1 DEF IInv, ClosedAccountIsFlat, Closed
<1> QED BY <1>1, <1>2, <1>3, LedgerUnchanged DEF IInv

\* A stuttering step.
LEMMA StutterStep ==
    ASSUME IInv, UNCHANGED vars
    PROVE  IInv' /\ History
<1>1. UNCHANGED <<clock, candle, ledger, closedAt, tx, io>>
  BY DEF vars
<1>2. RowsInv(ledger') /\ TypeOK' /\ TxInv' /\ ClosedAccountIsFlat'
  BY <1>1 DEF IInv, TypeOK, TxInv, ClosedAccountIsFlat, Closed
<1> QED BY <1>1, <1>2, LedgerUnchanged DEF IInv

-----------------------------------------------------------------------------
(* The theorems *)

\* Every step of Next keeps the inductive invariant and every order's history.
LEMMA NextStep == IInv /\ [Next]_vars => IInv' /\ History
<1> SUFFICES ASSUME IInv, [Next]_vars PROVE IInv' /\ History
  OBVIOUS
<1>1. CASE Tick
  BY <1>1, TickStep
<1>2. ASSUME NEW c \in Commands, NEW intent \in Intents[c], SubmitOrder(c, intent)
      PROVE  IInv' /\ History
  BY <1>2, SubmitOrderStep
<1>3. ASSUME NEW c \in Commands, NEW receipt \in Receipts,
             SubmissionAnswered(c, receipt) \/ ReconcileSubmission(c, receipt)
      PROVE  IInv' /\ History
  BY <1>3, SubmissionAnsweredStep, ReconcileSubmissionStep
<1>4. ASSUME NEW c \in Commands, CancelOrder(c)
      PROVE  IInv' /\ History
  BY <1>4, CancelOrderStep
<1>5. ASSUME NEW c \in Commands, NEW result \in CancelResults, CancelAnswered(c, result)
      PROVE  IInv' /\ History
  BY <1>5, CancelAnsweredStep
<1>6. ASSUME NEW c \in Commands, NEW id \in ExternalFillIds, NEW content \in Events,
             AdmitEvent(c, id, content)
      PROVE  IInv' /\ History
  BY <1>6, AdmitEventStep
<1>7. ASSUME NEW c \in Commands, ObserveGap(c) \/ ObserveOrder(c) \/ ObserveRaise(c)
      PROVE  IInv' /\ History
  BY <1>7, RollbackStep, ObserveOrderStep DEF ObserveGap, ObserveRaise
<1>8. ASSUME NEW s \in Symbols, NEW first \in 1..MaxMinute, ObserveBegin(s, first)
      PROVE  IInv' /\ History
  BY <1>8, ObserveBeginStep
<1>9. CASE ObserveNext \/ ObserveCommit
  BY <1>9, ObserveNextStep, ObserveCommitStep
<1>10. CASE CloseAccount \/ Crash
  BY <1>10, CloseAccountStep, CrashStep
<1>11. CASE UNCHANGED vars
  BY <1>11, StutterStep
<1> QED
  BY <1>1, <1>2, <1>3, <1>4, <1>5, <1>6, <1>7, <1>8, <1>9, <1>10, <1>11 DEF Next

\* The inductive invariant holds in every reachable state.
THEOREM Invariance == Spec => []IInv
<1>1. Init => IInv
  BY InitIInv
<1>2. IInv /\ [Next]_vars => IInv'
  BY NextStep
<1> QED BY <1>1, <1>2, PTL DEF Spec

\* Every document of the account stays well formed, for any number of
\* commands, symbols, fills and minutes.
THEOREM TypeCorrect == Spec => []TypeOK
<1>1. IInv => TypeOK
  BY DEF IInv
<1> QED BY <1>1, Invariance, PTL

\* Fills are admitted in economic order.
THEOREM EconomicOrder == Spec => []FillsInEconomicOrder
<1>1. IInv => FillsInEconomicOrder
  BY DEF IInv, RowsInv, FillsInEconomicOrder
<1> QED BY <1>1, Invariance, PTL

\* No rounding of a partial close is ever lost: the profit of a closed trade is
\* exactly what its fills earned.
THEOREM ExactProfit == Spec => []TradeProfitExact
<1>1. IInv => TradeProfitExact
  BY DEF IInv, RowsInv, AccountInv, TradeProfitExact
<1> QED BY <1>1, Invariance, PTL

\* A closed account is flat, has no order left to fill and no transaction.
THEOREM ClosedFlat == Spec => []ClosedAccountIsFlat
<1>1. IInv => ClosedAccountIsFlat
  BY DEF IInv
<1> QED BY <1>1, Invariance, PTL

\* What has been decided about an order is never undone.
THEOREM FinalHistory == Spec => OrderHistoryIsFinal
<1>1. IInv /\ [Next]_vars =>
        [\A c \in Commands : OrderMayBecome(ledger.orders[c], ledger'.orders[c])]_vars
  BY NextStep DEF History
<1> QED BY <1>1, Invariance, PTL DEF Spec, OrderHistoryIsFinal

\* A step of a closed account changes none of its rows.
LEMMA ClosedStep ==
    ASSUME IInv, [Next]_vars, Closed
    PROVE  ledger' = ledger /\ closedAt' = closedAt
<1>1. ~tx.open
  BY DEF IInv, ClosedAccountIsFlat
<1>2. ASSUME NEW c \in Commands, NEW receipt, SaveSubmission(c, receipt)
      PROVE  ledger' = ledger
  BY <1>2 DEF SaveSubmission, TakesReceipt
<1> QED
  BY <1>1, <1>2, SMTT(30), ZenonT(30) DEF Next, vars, Tick, SubmitOrder, SubmissionAnswered, ReconcileSubmission,
     CancelOrder, CancelAnswered, AdmitEvent, ObserveBegin, ObserveGap, ObserveOrder,
     ObserveRaise, ObserveNext, ObserveCommit, Observing, Rollback, CloseAccount, Crash

\* A closed account never changes again, whatever was still in flight.
THEOREM ClosedFrozen == Spec => ClosedAccountIsFrozen
<1>1. IInv /\ [Next]_vars => [Closed => ledger' = ledger /\ closedAt' = closedAt]_vars
  BY ClosedStep
<1> QED BY <1>1, Invariance, PTL DEF Spec, ClosedAccountIsFrozen
===============================================================================
