----------------------------- MODULE LedgerReads -----------------------------
(***************************************************************************)
(* The read side of the execution ledger: get_account, current and as of    *)
(* a past cutoff.  Reads change no state: they are operators over the       *)
(* committed rows of ExecutionGateway, and the properties below relate them *)
(* to those rows.                                                           *)
(***************************************************************************)
EXTENDS ExecutionGateway, FiniteSets

-----------------------------------------------------------------------------
(* get_account(as_of): replay the visible fills in economic order *)

Earlier(f, g) == f.filledAt < g.filledAt \/ (f.filledAt = g.filledAt /\ f.seq < g.seq)

\* The visible fills, each at the place that its rank among them gives it.
VisibleFills(cutoff) ==
    LET visible == {i \in 1..Len(ledger.fills) : ledger.fills[i].receivedAt <= cutoff}
        before(i) == {j \in visible : Earlier(ledger.fills[j], ledger.fills[i])}
    IN  [n \in 1..Cardinality(visible) |->
            ledger.fills[CHOOSE i \in visible : Cardinality(before(i)) = n - 1]]

\* The account before the first of them and after each.
Replay(cutoff) ==
    LET rows == VisibleFills(cutoff)
        after[n \in 0..Len(rows)] ==
            IF n = 0 THEN NewAccount(1) ELSE ApplyFill(after[n - 1], rows[n])
    IN  after

AsOfAccount(cutoff) == Replay(cutoff)[Len(VisibleFills(cutoff))]

\* The error get_account would raise: the first refusal in the replay.
AsOfRefused(cutoff) ==
    LET rows == VisibleFills(cutoff)
    IN  \E n \in 1..Len(rows) : FillError(Replay(cutoff)[n - 1], rows[n]) # "none"

-----------------------------------------------------------------------------
(* Properties *)

FillsOf(rows, P(_)) == {i \in 1..Len(rows.fills) : P(rows.fills[i])}
SumOfFills(rows, value(_), P(_)) ==
    SumFunctionOnSet([i \in 1..Len(rows.fills) |-> value(rows.fills[i])], FillsOf(rows, P))

SignedQty(f) == IF f.side = "BUY" THEN f.qty ELSE -f.qty
Realised(trades) ==
    SumFunctionOnSet([n \in 1..Len(trades) |-> trades[n].gross - trades[n].fees], 1..Len(trades))

CashReconciles(rows) == rows.acct.cash = InitialBalance + Realised(rows.acct.trades)
PositionsReconcile(rows) ==
    \A s \in Symbols :
        LET p == rows.acct.pos[s]
        IN  SumOfFills(rows, SignedQty, LAMBDA f : f.sym = s)
              = IF p.dir = "LONG" THEN p.qty ELSE -p.qty
FlowsReconcile(rows) ==
    \A n \in 1..Len(rows.acct.trades) :
        SumOfFills(rows, SignedNotional, LAMBDA f : f.trade = n) = rows.acct.trades[n].flow
OrdersReconcile(rows) ==
    \A c \in Commands :
        rows.orders[c].filled = SumOfFills(rows, LAMBDA f : f.qty, LAMBDA f : f.order = c)

\* The cash balance is the initial balance plus all realised gross profit less
\* all fees; the quantity of every position is the net of its fills, each in
\* the position's direction or closing it; a trade's auxiliary flow is the
\* signed notional of the fills the journal filed under it; and an order is
\* filled by the sum of its fills.
LedgerReconciles ==
    /\ CashReconciles(ledger) /\ PositionsReconcile(ledger)
    /\ FlowsReconcile(ledger) /\ OrdersReconcile(ledger)

\* A historical read replays without a refusal at every cutoff, and the read
\* at the present reproduces the live account document exactly.
ReplayMatchesLedger ==
    /\ \A cutoff \in 1..clock : ~AsOfRefused(cutoff)
    /\ LET now == AsOfAccount(clock)
       IN  /\ now.cash = ledger.acct.cash /\ now.pos = ledger.acct.pos
           /\ now.trades = ledger.acct.trades
           /\ now.lastSeq = ledger.acct.lastSeq

\* A paper order is filled on the first eligible candle that touches it, at
\* that candle's price, however late the observation ran: no eligible candle
\* was skipped, observed twice or taken before the order was accepted.
FilledOnFirstTouch ==
    ~AcceptsExternalFills =>
    \A i \in 1..Len(ledger.fills) :
        LET f == ledger.fills[i]
            o == ledger.orders[f.order]
            m == f.filledAt - 1
            touched == {k \in o.acceptedAt + 1 .. clock - 1 :
                          Touches(o.intent, candle[f.sym][k])}
        IN  /\ m \in touched /\ \A k \in touched : m <= k
            /\ f.price = FillPrice(o.intent, candle[f.sym][m])

\* A reduce-only order only ever closes the trade it was bound to when it was
\* accepted, and any other order only opens or increases: a fill never turns a
\* position around, even when several closes race for the same position.
NoImplicitReversal ==
    \A i \in 1..Len(ledger.fills) :
        LET f == ledger.fills[i]
            o == ledger.orders[f.order]
        IN  /\ f.role = (IF o.reduceOnly THEN "EXIT" ELSE "ENTRY")
            /\ o.reduceOnly => f.trade = o.bound
            /\ ledger.acct.trades[f.trade].sym = f.sym
            /\ (f.role = "ENTRY") <=> (ledger.acct.trades[f.trade].dir = Direction(f.side))

\* Without a short trade the account never owes money: collateral plus fees
\* never exceed cash, although nothing is reserved while orders are pending.
LongOnlyIsCollateralised ==
    (\A n \in 1..Len(ledger.acct.trades) : ledger.acct.trades[n].dir = "LONG")
        => Available(ledger.acct) >= 0

\* An eligible candle that an observation has not applied yet can still be
\* applied: the fill it would make is not behind the account's last fill, which
\* apply_fill would refuse for ever.
NoEligibleIntervalIsDropped ==
    \A c \in Commands :
        LET o == ledger.orders[c]
            m == Cursor(o) + 1
        IN  Working(o) /\ m < clock /\ Touches(o.intent, candle[o.intent.sym][m])
                => m + 1 >= ledger.acct.lastFilled

\* What a historical read returned for a past cutoff it returns ever after.
HistoricalReadsAreStable ==
    [][\A cutoff \in 1..clock - 1 : AsOfAccount(cutoff)' = AsOfAccount(cutoff)]_vars
===============================================================================
