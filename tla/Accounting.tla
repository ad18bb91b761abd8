------------------------------ MODULE Accounting ------------------------------
(***************************************************************************)
(* The pure basis allocator of the paper ledger (execution/accounting.py)   *)
(* and the Account document it rewrites (execution/models.py).              *)
(*                                                                         *)
(* Money is counted in thousandths of the settlement unit, so that the      *)
(* 0.1% paper fee of an integral price and quantity is integral.  Times are *)
(* minutes; Never stands for a timestamp that is None.                      *)
(*                                                                         *)
(*   account  [cash, pos, trades, lastSeq, lastFilled, updated]             *)
(*   pos      one row per symbol; an absent row and a row of quantity 0     *)
(*            behave alike in the code and are both a row of quantity 0     *)
(*   trades   the trades in opening order; a trade_id (the uuid of the      *)
(*            opening event) is the index of the trade                      *)
(***************************************************************************)
EXTENDS Integers, Sequences, FiniteSetsExt, Functions

CONSTANTS Symbols,          \* instruments of the server's registry
          InitialBalance    \* initial_balance, in thousandths

ASSUME AccountingAssumption == IsFiniteSet(Symbols) /\ InitialBalance \in Nat \ {0}

Never == 0
Milli == 1000
Sides == {"BUY", "SELL"}
Directions == {"LONG", "SHORT"}

Direction(side) == IF side = "BUY" THEN "LONG" ELSE "SHORT"

-----------------------------------------------------------------------------
(* The account document *)

FlatPosition == [dir |-> "LONG", trade |-> 0, qty |-> 0, basis |-> 0]

NewAccount(now) ==
    [cash |-> InitialBalance, pos |-> [s \in Symbols |-> FlatPosition],
     trades |-> << >>, lastSeq |-> 0, lastFilled |-> Never, updated |-> now]

\* Account.reserved_collateral and Account.available_balance
Reserved(account) == SumFunctionOnSet([s \in Symbols |-> account.pos[s].basis], Symbols)
Available(account) == account.cash - Reserved(account)

-----------------------------------------------------------------------------
(* Decimal policy: sums and products are exact; a quotient that does not    *)
(* terminate is rounded half-even (here to a thousandth, in the code to 50  *)
(* significant digits).                                                     *)

Divide(a, b) ==
    LET q == a \div b
        r == a % b
    IN  IF 2 * r > b \/ (2 * r = b /\ q % 2 = 1) THEN q + 1 ELSE q

Notional(event) == Milli * event.price * event.qty
PaperFee(price, qty) == price * qty

-----------------------------------------------------------------------------
(* apply_fill.  The error, if any, is computed by FillError in the order of *)
(* the code's checks; ApplyFill is the account of a fill without error.     *)

Increasing(account, event) ==
    LET p == account.pos[event.sym]
    IN  p.qty = 0 \/ p.dir = Direction(event.side)

\* The part of the remaining cost basis that a reducing fill consumes.
\* (Mutant: the closing fill is allocated by division too.)
MutAllocated(p, qty) == Divide(p.basis, p.qty) * qty
Allocated(p, qty) ==
    IF qty = p.qty THEN p.basis ELSE Divide(p.basis, p.qty) * qty

UnorderedAdmission(account, event) == event.receivedAt < account.updated

\* (Mutant: the economic time of the fill is not compared.)
MutUnorderedFill(account, event) == event.seq <= account.lastSeq
UnorderedFill(account, event) ==
    event.seq <= account.lastSeq \/ event.filledAt < account.lastFilled

\* (Mutant: the fill is checked against cash, forgetting other collateral.)
MutInsufficient(account, event) == account.cash < Notional(event) + event.fee
Insufficient(account, event) == Available(account) < Notional(event) + event.fee

FillError(account, event) ==
    LET p == account.pos[event.sym]
    IN  IF UnorderedAdmission(account, event) THEN "unordered admission"
        ELSE IF UnorderedFill(account, event) THEN "unordered fill"
        ELSE IF Increasing(account, event)
        THEN IF Insufficient(account, event)
             THEN "insufficient available balance" ELSE "none"
        ELSE IF event.qty > p.qty THEN "over-close"
        \* Account.model_validate refuses a negative remaining_cost_basis
        ELSE IF Allocated(p, event.qty) > p.basis THEN "invalid projection"
        ELSE "none"

\* A trade keeps, besides the code's fields, the auxiliary field flow: the
\* notional its fills sold less the notional they bought.  No action reads it.
SignedNotional(event) ==
    IF event.side = "SELL" THEN Notional(event) ELSE -Notional(event)

\* What a fill adds to the cash balance.  (Mutant: the fee is forgotten.)
MutCashChange(gross, event) == gross
CashChange(gross, event) == gross - event.fee

\* closed_at of the trade a reducing fill leaves behind.
CloseTime(p, event) == IF event.qty = p.qty THEN event.filledAt ELSE Never

OpenFill(account, event) ==
    LET trade == [sym |-> event.sym, dir |-> Direction(event.side),
                  entry |-> Notional(event), gross |-> 0, fees |-> event.fee,
                  openedAt |-> event.filledAt, closedAt |-> Never,
                  flow |-> SignedNotional(event)]
    IN  [account EXCEPT
           !.trades = Append(@, trade),
           !.pos[event.sym] = [dir |-> Direction(event.side),
                               trade |-> Len(account.trades) + 1,
                               qty |-> event.qty, basis |-> Notional(event)],
           !.cash = @ + CashChange(0, event)]

IncreaseFill(account, event) ==
    LET p == account.pos[event.sym]
        t == account.trades[p.trade]
    IN  [account EXCEPT
           !.trades[p.trade] = [t EXCEPT !.entry = @ + Notional(event),
                                         !.fees = @ + event.fee,
                                         !.flow = @ + SignedNotional(event)],
           !.pos[event.sym] = [p EXCEPT !.qty = @ + event.qty,
                                        !.basis = @ + Notional(event)],
           !.cash = @ + CashChange(0, event)]

ReduceFill(account, event) ==
    LET p == account.pos[event.sym]
        t == account.trades[p.trade]
        allocated == Allocated(p, event.qty)
        gross == IF p.dir = "LONG" THEN Notional(event) - allocated
                                   ELSE allocated - Notional(event)
    IN  [account EXCEPT
           !.trades[p.trade] =
               [t EXCEPT !.gross = @ + gross,
                         !.fees = @ + event.fee,
                         !.closedAt = CloseTime(p, event),
                         !.flow = @ + SignedNotional(event)],
           !.pos[event.sym] = [p EXCEPT !.qty = @ - event.qty,
                                        !.basis = @ - allocated],
           !.cash = @ + CashChange(gross, event)]

ApplyFill(account, event) ==
    LET booked == IF account.pos[event.sym].qty = 0
                  THEN OpenFill(account, event)
                  ELSE IF Increasing(account, event)
                  THEN IncreaseFill(account, event)
                  ELSE ReduceFill(account, event)
    IN  [booked EXCEPT !.lastSeq = event.seq,
                       !.lastFilled = event.filledAt,
                       !.updated = event.receivedAt]
===============================================================================
