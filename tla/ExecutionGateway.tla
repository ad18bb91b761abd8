--------------------------- MODULE ExecutionGateway ---------------------------
(***************************************************************************)
(* One paper (or connector) account behind ExecutionGateway: order          *)
(* submission, cancellation and reconciliation with provider IO outside the *)
(* account lock, closed-minute observation, external fill admission, and    *)
(* the retention service's account closure.                                 *)
(*                                                                         *)
(* Every mutation of the code runs in a database transaction that first     *)
(* takes the account row lock.  A transaction whose body is one lookup and  *)
(* one update is one action here.  The observation transaction, a loop over *)
(* candles and orders, is a run of Observe* actions on the working copy     *)
(* tx.work; it holds the lock (tx.open) until it commits or rolls back.     *)
(* All rows are scoped to one account and so is the lock, hence one account *)
(* is modelled; ObservationWorker composes several.                         *)
(***************************************************************************)
EXTENDS Accounting

CONSTANTS
    Commands,              \* command_ids (one order per command_id)
    Intents,               \* Intents[c]: the intents clients send under c
    Candles,               \* Candles[m]: what a market may print in minute m
    ExternalFillIds,       \* external_fill_ids of connector events
    Events,                \* economic content of connector events
    AcceptsExternalFills,  \* the bound adapter's capability (PAPER: FALSE)
    Receipts,              \* answers of adapter.submit_order and get_order, with
                           \* (named) or without an external_order_id
    CancelResults,         \* answers of adapter.cancel_order
    MaxMinute,             \* bound: the clock stops here
    MaxLockWait,           \* bound: minutes between reading now and the lock
    MaxCancels             \* bound: concurrent cancellations of one order

IntentType == [sym : Symbols, side : Sides, kind : {"MARKET", "LIMIT"},
               qty : Nat \ {0}, price : Nat \ {0}]

CandleType == [low : Nat \ {0}, high : Nat \ {0}, close : Nat \ {0}]

ASSUME GatewayAssumption ==
    /\ Commands \cap ExternalFillIds = {}
    /\ Intents \in [Commands -> SUBSET IntentType]
    /\ Candles \in [1..MaxMinute -> SUBSET CandleType]
    /\ Events \subseteq [qty : Nat \ {0}, price : Nat \ {0}, fee : Nat]
    /\ AcceptsExternalFills \in BOOLEAN
    /\ Receipts \subseteq [status : {"ACKNOWLEDGED", "REJECTED", "UNKNOWN"}, named : BOOLEAN]
    /\ CancelResults \subseteq {"CANCELLED", "REJECTED", "UNKNOWN"}
    /\ MaxMinute \in Nat /\ MaxLockWait \in Nat /\ MaxCancels \in Nat

VARIABLES
    clock,      \* the server's UTC minute
    candle,     \* candle[s][m]: the closed candle that opened at minute m
    ledger,     \* the committed rows of the account
    closedAt,   \* occurred_at of the CLOSED lifecycle event
    tx,         \* the observation transaction holding the account lock
    io          \* provider calls in flight: submissions and cancellations

vars == <<clock, candle, ledger, closedAt, tx, io>>

-----------------------------------------------------------------------------
(* Rows *)

\* Client ids and status of an order no one has submitted.
NoIntent == [sym |-> "none", side |-> "BUY", kind |-> "MARKET", qty |-> 1, price |-> 1]
NoOrder ==
    [st |-> "NONE", intent |-> NoIntent, seq |-> 0, acceptedAt |-> Never,
     named |-> FALSE, reduceOnly |-> FALSE, bound |-> 0, filled |-> 0, cancelledAt |-> Never,
     cancelStatus |-> "NONE", lastObs |-> Never]

Exists(o) == o.st # "NONE"
FullyFilled(o) == o.filled = o.intent.qty

\* _observation_orders: the orders an observation may fill.
\* (Mutant: cancelled orders are not filtered out.)
MutWorking(o) == o.st = "ACKNOWLEDGED" /\ ~FullyFilled(o)
Working(o) == o.st = "ACKNOWLEDGED" /\ o.cancelledAt = Never /\ ~FullyFilled(o)

\* The last minute already observed for the order; an order accepted within
\* minute m has first eligible candle m + 1, like one observed up to m.
\* (Mutant: the first candle after acceptance is taken for a partial one.)
MutCursor(o) == IF o.lastObs = Never THEN o.acceptedAt + 1 ELSE o.lastObs
Cursor(o) == IF o.lastObs = Never THEN o.acceptedAt ELSE o.lastObs

Closed == closedAt # Never

\* now is read before the lock is requested, so it may be late when used.
Readings == {t \in 1..clock : clock - t <= MaxLockWait}

Unlocked == ~tx.open

Init ==
    /\ clock = 1
    /\ candle = [s \in Symbols |-> << >>]
    /\ ledger = [acct |-> NewAccount(1), orders |-> [c \in Commands |-> NoOrder],
                 fills |-> << >>, cmdSeq |-> 0]
    /\ closedAt = Never
    /\ tx = [open |-> FALSE]
    /\ io = [submit |-> {}, cancel |-> [c \in Commands |-> 0]]

\* A minute passes and its candle closes in every market.  The steps of an
\* open observation read tx.cutoff and never the clock, so a minute that ends
\* during one may as well end before it (Readings covers the late now).
Tick ==
    /\ Unlocked
    /\ clock < MaxMinute
    /\ clock' = clock + 1
    /\ \E new \in [Symbols -> Candles[clock]] :
          candle' = [s \in Symbols |-> Append(candle[s], new[s])]
    /\ UNCHANGED <<ledger, closedAt, tx, io>>

-----------------------------------------------------------------------------
(* Submission *)

\* The order row written by submit_order's first transaction.
AcceptedOrder(c, intent, now) ==
    LET p == ledger.acct.pos[intent.sym]
        reduce == p.qty # 0 /\ p.dir # Direction(intent.side)
        over == reduce /\ intent.qty > p.qty
    IN  [NoOrder EXCEPT
           !.st = IF over THEN "REJECTED" ELSE "UNKNOWN",
           !.intent = intent,
           !.seq = ledger.cmdSeq + 1,
           !.acceptedAt = now,
           !.reduceOnly = reduce,
           !.bound = IF reduce THEN p.trade ELSE 0]

\* submit_order, first transaction.  A known command_id returns the prior
\* order or CONFLICT: neither changes anything nor dispatches again.
SubmitOrder(c, intent) ==
    /\ Unlocked
    /\ ~Exists(ledger.orders[c])
    /\ ~Closed
    /\ \E now \in Readings :
         LET order == AcceptedOrder(c, intent, now)
         IN  /\ ledger' = [ledger EXCEPT !.orders[c] = order, !.cmdSeq = @ + 1]
             /\ io' = IF order.st = "REJECTED" THEN io
                      ELSE [io EXCEPT !.submit = @ \cup {c}]
    /\ UNCHANGED <<clock, candle, closedAt, tx>>

\* The submission status a receipt leads to: an acknowledgment without an
\* external order id is UNKNOWN.  (Mutant: the receipt's status is stored as is.)
MutReceiptStatus(receipt) == receipt.status
ReceiptStatus(receipt) ==
    IF receipt.status = "ACKNOWLEDGED" /\ ~receipt.named THEN "UNKNOWN" ELSE receipt.status

\* Only an UNKNOWN order takes a receipt.  There is no require_active_account
\* in _save_submission: the write to a closed account is refused by the trigger
\* of migration 0015.  (Mutants: no trigger; a receipt overwrites any status.)
MutNoTrigger(o) == o.st = "UNKNOWN"
MutAnyStatus(o) == Exists(o) /\ ~Closed
TakesReceipt(o) == o.st = "UNKNOWN" /\ ~Closed

\* _save_submission
SaveSubmission(c, receipt) ==
    ledger' = IF TakesReceipt(ledger.orders[c])
              THEN [ledger EXCEPT !.orders[c].st = ReceiptStatus(receipt),
                                  !.orders[c].named = receipt.named]
              ELSE ledger

\* submit_order, second transaction: the provider's answer, or UNKNOWN when
\* the call raised.
SubmissionAnswered(c, receipt) ==
    /\ Unlocked
    /\ c \in io.submit
    /\ SaveSubmission(c, receipt)
    /\ io' = [io EXCEPT !.submit = @ \ {c}]
    /\ UNCHANGED <<clock, candle, closedAt, tx>>

\* reconcile_submission asks the provider for an order already dispatched.
ReconcileSubmission(c, receipt) ==
    /\ Unlocked
    /\ Exists(ledger.orders[c])
    /\ SaveSubmission(c, receipt)
    /\ UNCHANGED <<clock, candle, closedAt, tx, io>>

-----------------------------------------------------------------------------
(* Cancellation *)

\* paper_http cancel and the first transaction of cancel_order.
CancelOrder(c) ==
    LET o == ledger.orders[c]
    IN  /\ Unlocked
        /\ Exists(o)
        /\ o.cancelledAt = Never /\ o.filled < o.intent.qty /\ o.st # "REJECTED"
        /\ ~Closed
        /\ io.cancel[c] < MaxCancels
        /\ io' = [io EXCEPT !.cancel[c] = @ + 1]
        /\ UNCHANGED <<clock, candle, ledger, closedAt, tx>>

\* The order row written by cancel_order's second transaction.
CancelledOrder(o, result, now) ==
    [o EXCEPT !.cancelStatus = result,
              !.cancelledAt = IF result = "CANCELLED" /\ o.filled < o.intent.qty
                              THEN IF @ = Never THEN now ELSE @
                              ELSE @]

\* cancel_order, second transaction; on a closed account it raises.
CancelAnswered(c, result) ==
    /\ Unlocked
    /\ io.cancel[c] > 0
    /\ io' = [io EXCEPT !.cancel[c] = @ - 1]
    /\ ledger' = IF Closed THEN ledger
                 ELSE [ledger EXCEPT !.orders[c] = CancelledOrder(@, result, clock)]
    /\ UNCHANGED <<clock, candle, closedAt, tx>>

-----------------------------------------------------------------------------
(* Admission: ExecutionRepository.admit *)

KnownFill(rows, id) == \E i \in 1..Len(rows.fills) : rows.fills[i].id = id

ContractMismatch(rows, event) ==
    LET o == rows.orders[event.order]
    IN  \/ ~o.named                   \* no external_order_id to match
        \/ event.filledAt <= o.acceptedAt
        \/ o.filled + event.qty > o.intent.qty

StaleReduction(rows, event) ==
    LET o == rows.orders[event.order]
        p == rows.acct.pos[event.sym]
    IN  o.reduceOnly /\ (p.qty = 0 \/ p.trade # o.bound \/ p.qty < event.qty)

\* (Mutant: the position is not looked at again when an opening order fills.)
MutStaleOpening(rows, event) == FALSE
StaleOpening(rows, event) ==
    LET p == rows.acct.pos[event.sym]
    IN  /\ ~rows.orders[event.order].reduceOnly
        /\ p.qty # 0 /\ p.dir # Direction(event.side)

\* Why a new fill is refused.  rows are the account's rows in the caller's
\* transaction.
AdmitError(rows, event) ==
    IF ContractMismatch(rows, event) THEN "contract mismatch"
    ELSE IF StaleReduction(rows, event) THEN "stale reduction"
    ELSE IF StaleOpening(rows, event) THEN "stale opening"
    ELSE FillError(rows.acct, event)

\* The fill row, with the journal membership capture_fill writes beside it.
FillRow(account, event) ==
    LET p == account.pos[event.sym]
    IN  [id |-> event.id, order |-> event.order, sym |-> event.sym,
         side |-> event.side, price |-> event.price, qty |-> event.qty,
         fee |-> event.fee, seq |-> event.seq, filledAt |-> event.filledAt,
         receivedAt |-> event.receivedAt, trade |-> p.trade,
         role |-> IF p.dir = Direction(event.side) THEN "ENTRY" ELSE "EXIT"]

\* (Mutant: the order's filled_quantity is not advanced.)
MutAdmit(rows, event) ==
    LET account == ApplyFill(rows.acct, event)
    IN  [rows EXCEPT !.acct = account,
                     !.fills = Append(@, FillRow(account, event))]
Admit(rows, event) ==
    LET account == ApplyFill(rows.acct, event)
    IN  [rows EXCEPT !.acct = account,
                     !.fills = Append(@, FillRow(account, event)),
                     !.orders[event.order].filled = @ + event.qty]

\* admit_event with a new fill of a connector that may report fills.  A known
\* external_fill_id returns the original or CONFLICT and changes nothing.
AdmitEvent(c, id, content) ==
    /\ AcceptsExternalFills
    /\ Unlocked
    /\ Exists(ledger.orders[c])
    /\ ~KnownFill(ledger, id)
    /\ ~Closed
    /\ \E received \in Readings, filled \in 1..clock,
          seq \in {ledger.acct.lastSeq, ledger.acct.lastSeq + 1} :
         LET event == [id |-> id, order |-> c, sym |-> ledger.orders[c].intent.sym,
                       side |-> ledger.orders[c].intent.side,
                       price |-> content.price, qty |-> content.qty,
                       fee |-> content.fee, seq |-> seq,
                       filledAt |-> filled, receivedAt |-> received]
         IN  /\ filled <= received
             /\ AdmitError(ledger, event) = "none"
             /\ ledger' = Admit(ledger, event)
    /\ UNCHANGED <<clock, candle, closedAt, tx, io>>

-----------------------------------------------------------------------------
(* Observation of closed candles (PAPER accounts only) *)

\* observe up to its loop: now, the envelope of candles first .. now - 1 that
\* ends at the current cutoff, the lock, require_active_account.
ObserveBegin(s, first) ==
    /\ ~AcceptsExternalFills
    /\ Unlocked
    /\ ~Closed
    /\ \E now \in Readings :
         /\ first < now
         /\ tx' = [open |-> TRUE, sym |-> s, at |-> first, cutoff |-> now,
                   work |-> ledger]
    /\ UNCHANGED <<clock, candle, ledger, closedAt, io>>

\* The orders that the candle at tx.at is new to.
Due == {c \in Commands : LET o == tx.work.orders[c]
                         IN  /\ Working(o) /\ o.intent.sym = tx.sym
                             /\ tx.at > o.acceptedAt
                             /\ (o.lastObs # Never => tx.at > o.lastObs)}

\* Orders are visited in command_sequence order.
NextDue(c) == c \in Due /\ \A d \in Due : tx.work.orders[c].seq <= tx.work.orders[d].seq

\* PaperExecutionAdapter.propose_fill
Touches(intent, k) ==
    \/ intent.kind = "MARKET"
    \/ intent.side = "BUY" /\ k.low <= intent.price
    \/ intent.side = "SELL" /\ k.high >= intent.price
FillPrice(intent, k) == IF intent.kind = "LIMIT" THEN intent.price ELSE k.close

ProposedFill(c) ==
    LET o == tx.work.orders[c]
        price == FillPrice(o.intent, candle[tx.sym][tx.at])
        qty == o.intent.qty - o.filled
    IN  [id |-> c, order |-> c, sym |-> tx.sym, side |-> o.intent.side,
         price |-> price, qty |-> qty, fee |-> PaperFee(price, qty),
         seq |-> tx.work.acct.lastSeq + 1, filledAt |-> tx.at + 1,
         receivedAt |-> tx.cutoff]

\* Refusals that observe turns into a rejected order; any other one is raised.
Tolerated == {"insufficient available balance", "stale reduction",
              "stale opening", "over-close"}

Advance(rows, c) == [rows EXCEPT !.orders[c].lastObs = tx.at]

Rollback == tx' = [open |-> FALSE] /\ UNCHANGED <<clock, candle, ledger, closedAt, io>>

Observing == tx.open /\ tx.at < tx.cutoff

\* The candle is not the next one of the order: the observation is raised.
ObserveGap(c) ==
    /\ Observing /\ NextDue(c)
    /\ tx.at # Cursor(tx.work.orders[c]) + 1
    /\ Rollback

\* One order meets one candle.
ObserveOrder(c) ==
    /\ Observing /\ NextDue(c)
    /\ LET o == tx.work.orders[c]
           event == ProposedFill(c)
           error == AdmitError(tx.work, event)
       IN  /\ tx.at = Cursor(o) + 1
           /\ \/ /\ ~Touches(o.intent, candle[tx.sym][tx.at])
                 /\ tx' = [tx EXCEPT !.work = Advance(@, c)]
              \/ /\ Touches(o.intent, candle[tx.sym][tx.at])
                 /\ error = "none"
                 /\ tx' = [tx EXCEPT !.work = Advance(Admit(@, event), c)]
              \/ /\ Touches(o.intent, candle[tx.sym][tx.at])
                 /\ error \in Tolerated
                 /\ tx' = [tx EXCEPT !.work =
                             Advance([@ EXCEPT !.orders[c].st = "REJECTED"], c)]
    /\ UNCHANGED <<clock, candle, ledger, closedAt, io>>

\* A refusal outside Tolerated leaves observe: everything is rolled back.
ObserveRaise(c) ==
    /\ Observing /\ NextDue(c)
    /\ tx.at = Cursor(tx.work.orders[c]) + 1
    /\ Touches(tx.work.orders[c].intent, candle[tx.sym][tx.at])
    /\ AdmitError(tx.work, ProposedFill(c)) \notin Tolerated \cup {"none"}
    /\ Rollback

\* All orders have met the candle: on to the next one.  (The valuation mark
\* inserted here touches no financial row; see ObservationWorker.)
ObserveNext ==
    /\ Observing /\ Due = {}
    /\ tx' = [tx EXCEPT !.at = @ + 1]
    /\ UNCHANGED <<clock, candle, ledger, closedAt, io>>

ObserveCommit ==
    /\ tx.open /\ tx.at = tx.cutoff
    /\ ledger' = tx.work
    /\ tx' = [open |-> FALSE]
    /\ UNCHANGED <<clock, candle, closedAt, io>>

-----------------------------------------------------------------------------
(* Account closure: FinancialRetentionService.close_account *)

\* An order that leaves nothing outstanding.  (Mutant: an order whose receipt
\* never arrived counts as settled.)
MutSettled(o) == o.st # "ACKNOWLEDGED" \/ o.cancelledAt # Never \/ FullyFilled(o)
Settled(o) == o.st \in {"NONE", "REJECTED"} \/ o.cancelledAt # Never \/ FullyFilled(o)

CloseAccount ==
    /\ Unlocked
    /\ ~Closed
    /\ ledger.acct.updated <= clock
    /\ \A s \in Symbols : ledger.acct.pos[s].qty = 0
    /\ \A c \in Commands :
         LET o == ledger.orders[c]
         IN  o.acceptedAt <= clock /\ o.cancelledAt <= clock /\ Settled(o)
    /\ closedAt' = clock
    /\ UNCHANGED <<clock, candle, ledger, tx, io>>

-----------------------------------------------------------------------------
\* The process dies: open transactions roll back and provider answers that
\* were awaited are lost.
Crash ==
    /\ tx' = [open |-> FALSE]
    /\ io' = [submit |-> {}, cancel |-> [c \in Commands |-> 0]]
    /\ UNCHANGED <<clock, candle, ledger, closedAt>>

Next ==
    \/ Tick
    \/ \E c \in Commands :
         \/ \E intent \in Intents[c] : SubmitOrder(c, intent)
         \/ \E receipt \in Receipts :
              SubmissionAnswered(c, receipt) \/ ReconcileSubmission(c, receipt)
         \/ CancelOrder(c)
         \/ \E result \in CancelResults : CancelAnswered(c, result)
         \/ \E id \in ExternalFillIds, content \in Events : AdmitEvent(c, id, content)
         \/ ObserveGap(c) \/ ObserveOrder(c) \/ ObserveRaise(c)
    \/ \E s \in Symbols, first \in 1..MaxMinute : ObserveBegin(s, first)
    \/ ObserveNext \/ ObserveCommit
    \/ CloseAccount
    \/ Crash

Spec == Init /\ [][Next]_vars

-----------------------------------------------------------------------------
(* Types *)

PositionType == [dir : Directions, trade : Nat, qty : Nat, basis : Nat]
TradeType == [sym : Symbols, dir : Directions, entry : Nat, gross : Int, fees : Nat,
              openedAt : Nat, closedAt : Nat, flow : Int]
AccountType == [cash : Int, pos : [Symbols -> PositionType], trades : Seq(TradeType),
                lastSeq : Nat, lastFilled : Nat, updated : Nat]
OrderType == [st : {"NONE", "UNKNOWN", "ACKNOWLEDGED", "REJECTED"},
              intent : IntentType \cup {NoIntent}, seq : Nat, acceptedAt : Nat,
              named : BOOLEAN, reduceOnly : BOOLEAN, bound : Nat, filled : Nat, cancelledAt : Nat,
              cancelStatus : {"NONE", "CANCELLED", "REJECTED", "UNKNOWN"},
              lastObs : Nat]
FillType == [id : Commands \cup ExternalFillIds, order : Commands, sym : Symbols,
             side : Sides, price : Nat, qty : Nat, fee : Nat, seq : Nat,
             filledAt : Nat, receivedAt : Nat, trade : Nat, role : {"ENTRY", "EXIT"}]
RowsType == [acct : AccountType, orders : [Commands -> OrderType],
             fills : Seq(FillType), cmdSeq : Nat]

\* Only a dispatched order has an external_order_id and every acknowledged one
\* has (propose_fill asserts it).
WellNamed(o) == (o.st = "ACKNOWLEDGED" => o.named) /\ (o.named => Exists(o))

\* Every variable keeps its shape: the Account, Order and Fill documents
\* stay well formed through every transaction, crash and rollback.
TypeOK ==
    /\ clock \in 1..MaxMinute \cup {1}
    /\ candle \in [Symbols -> Seq(CandleType)]
    /\ \A s \in Symbols : Len(candle[s]) = clock - 1
    /\ ledger \in RowsType
    /\ \A c \in Commands : WellNamed(ledger.orders[c])
    /\ closedAt \in Nat
    /\ \/ tx = [open |-> FALSE]
       \/ tx \in [open : {TRUE}, sym : Symbols, at : Nat, cutoff : Nat, work : RowsType]
    /\ io \in [submit : SUBSET Commands, cancel : [Commands -> Nat]]

-----------------------------------------------------------------------------
(* Safety *)

FillsInOrder(rows) ==
    \A i, j \in 1..Len(rows.fills) : i < j =>
        /\ rows.fills[i].seq < rows.fills[j].seq
        /\ rows.fills[i].filledAt <= rows.fills[j].filledAt
        /\ rows.fills[i].receivedAt <= rows.fills[j].receivedAt

\* The fills of an account were admitted in economic order: sequences strictly
\* increase, and neither filled_at nor received_at ever runs backwards.  The
\* as-of replay of get_account, which sorts by (filled_at, sequence) and cuts
\* at received_at, silently relies on this order.
FillsInEconomicOrder == FillsInOrder(ledger)

\* Trade i is the one its symbol's position is made of.
OpenTrade(account, i) ==
    LET p == account.pos[account.trades[i].sym]
    IN  p.trade = i /\ p.qty # 0

OpenBasis(account, i) ==
    LET p == account.pos[account.trades[i].sym]
    IN  IF ~OpenTrade(account, i) THEN 0
        ELSE IF account.trades[i].dir = "LONG" THEN p.basis ELSE -p.basis

ProfitExact(account) ==
    \A i \in 1..Len(account.trades) :
        LET t == account.trades[i]
        IN  /\ (t.closedAt = Never) <=> OpenTrade(account, i)
            /\ t.gross = t.flow + OpenBasis(account, i)

\* A trade's realised gross profit is exactly what its fills sold less what
\* they bought, up to the cost basis still open, however partial closes were
\* rounded; it is closed exactly when it is not the position's current trade.
TradeProfitExact == ProfitExact(ledger.acct)

\* An order has one outcome (paper accounts): an order that was rejected or
\* cancelled has no fill and a filled order has exactly one, for its whole
\* quantity, although cancellation answers, late receipts and observations
\* reach the order in any sequence.
OneOutcomePerOrder ==
    ~AcceptsExternalFills =>
    \A c \in Commands :
        LET o == ledger.orders[c]
            own == {i \in 1..Len(ledger.fills) : ledger.fills[i].order = c}
        IN  /\ o.filled \in {0, o.intent.qty}
            /\ o.st = "REJECTED" \/ o.cancelledAt # Never => o.filled = 0
            /\ o.filled = 0 <=> own = {}
            /\ \A i, j \in own : i = j /\ ledger.fills[i].qty = o.filled

\* A closed account holds nothing: no position and no order that could still
\* be acknowledged into a fill.
ClosedAccountIsFlat ==
    Closed => /\ \A s \in Symbols : ledger.acct.pos[s].qty = 0
              /\ \A c \in Commands :
                   LET o == ledger.orders[c]
                   IN  o.st \in {"UNKNOWN", "ACKNOWLEDGED"} =>
                         o.cancelledAt # Never \/ FullyFilled(o)
              /\ ~tx.open

\* Once an account is CLOSED its financial rows never change again and it is
\* never reopened, whatever provider answer or worker was still in flight.
ClosedAccountIsFrozen ==
    [][Closed => ledger' = ledger /\ closedAt' = closedAt]_vars

\* o and n are the same order, n at a later time.
OrderMayBecome(o, n) ==
    Exists(o) =>
        /\ Exists(n)
        /\ o.st = "REJECTED" => n.st = "REJECTED"
        /\ o.st = "ACKNOWLEDGED" => n.st \in {"ACKNOWLEDGED", "REJECTED"}
        /\ o.cancelledAt # Never => n.cancelledAt = o.cancelledAt
        /\ n.intent = o.intent /\ n.acceptedAt = o.acceptedAt
        /\ n.filled >= o.filled /\ Cursor(n) >= Cursor(o)

\* What has been decided about an order stays decided: a status other than
\* UNKNOWN is only ever left from ACKNOWLEDGED to REJECTED, cancelled_at and
\* the accepted intent are never rewritten, fills and the cursor only grow.
OrderHistoryIsFinal ==
    [][\A c \in Commands : OrderMayBecome(ledger.orders[c], ledger'.orders[c])]_vars
===============================================================================
