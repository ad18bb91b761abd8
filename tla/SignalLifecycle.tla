---------------------------- MODULE SignalLifecycle ----------------------------
(* The replay of one signal over closed candles (engines/signal/lifecycle.py)   *)
(* and the fills it is given (backtesting/execution.py).  Bar n of timeframe d  *)
(* covers [(n-1)*d, n*d).  A signal s has direction, entry zone, reference,     *)
(* target, stop and creation time; k is the execution configuration.  Costs are *)
(* whole ten-thousandths of a price unit, so basis points are exact.            *)
EXTENDS Integers, Sequences, SequencesExt, FiniteSetsExt

NoTime == -1
NoPrice == -1
Terminal == {"TP_HIT", "SL_HIT", "CANCELLED", "AMBIGUOUS"}
Bps == 10000
Distance(a, b) == IF a < b THEN b - a ELSE a - b

NoEntry == [executed |-> FALSE, slip |-> 0]
NoExit == [reason |-> "NONE"]

--------------------------------------------------------------------------------
(* Entry.                                                                         *)

\* The known first price is the open; outside the zone the fill is at the first
\* boundary the bar reaches, and its time inside the bar is unknown.
ExecuteEntryCandle(s, bars, n, d, k) ==
    LET bar == bars[n]
        inside == bar.o \in s.low..s.high
        below == bar.o < s.low /\ bar.h >= s.low
        above == bar.o > s.high /\ bar.l <= s.high
        base == IF inside THEN bar.o ELSE IF below THEN s.low ELSE s.high
        slip == base * k.slippage
        price == IF s.dir = "LONG" THEN base * Bps + slip ELSE base * Bps - slip
        gap == /\ n > 1
               /\ \/ bars[n - 1].c < s.low /\ bar.o > s.high
                  \/ bars[n - 1].c > s.high /\ bar.o < s.low
    IN  IF ~(inside \/ below \/ above) THEN NoEntry
        ELSE [executed |-> TRUE, base |-> base, price |-> price, slip |-> slip, gap |-> gap,
              reason |-> IF inside THEN "OPEN_INSIDE_ZONE" ELSE
                         IF below THEN "BOUNDARY_TOUCH_FROM_BELOW" ELSE "BOUNDARY_TOUCH_FROM_ABOVE",
              requested |-> s.ref, spread |-> base * k.spread, planned |-> Distance(s.ref, s.sl),
              risk |-> Distance(price, s.sl * Bps),
              at |-> IF inside THEN (n - 1) * d ELSE n * d, bar |-> (n - 1) * d]

\* EntryExecutionResult.validate_execution_evidence: what the result refuses to hold.
EntryEvidenceHolds(s, e) ==
    e.executed => /\ 0 < Min({e.base, e.price, e.risk, e.planned}) /\ 0 <= Min({e.slip, e.spread})
                  /\ e.slip = Distance(e.price, e.base * Bps)
                  /\ Distance(e.price, e.requested * Bps) >= e.slip
                  /\ e.risk = Distance(e.price, s.sl * Bps)

--------------------------------------------------------------------------------
(* Lifecycle.                                                                     *)

\* SignalLifecycleCandidate.validate_trade_levels: the levels a signal may have.
LevelsHold(s) ==
    LET ordered(below, above) == below < s.low /\ s.low <= s.high /\ s.high < above
    IN  /\ s.dir \in {"LONG", "SHORT"} /\ 0 < Min({s.tp, s.sl})
        /\ s.low <= s.ref /\ s.ref <= s.high
        /\ IF s.dir = "LONG" THEN ordered(s.sl, s.tp) ELSE ordered(s.tp, s.sl)

\* SignalLifecycleResult.validate_status_timestamps: what a replay may end in.
ResultHolds(lc) ==
    /\ lc.status \in Terminal <=> lc.terminal # NoTime
    /\ lc.status \in {"ACTIVE", "TP_HIT", "SL_HIT"} => lc.activated # NoTime
    /\ lc.status \in {"WAITING", "CANCELLED"} => lc.activated = NoTime

TakeProfitTouched(s, bar) == IF s.dir = "LONG" THEN bar.h >= s.tp ELSE bar.l <= s.tp
StopLossTouched(s, bar) == IF s.dir = "LONG" THEN bar.l <= s.sl ELSE bar.h >= s.sl

Event(type, at, bar, price, reason) ==
    [type |-> type, at |-> at, bar |-> bar, price |-> price, reason |-> reason]

MutSettled(acc) == acc.status \in {"CANCELLED", "AMBIGUOUS"}
\* The loop stops at the first terminal status.
Settled(acc) == acc.status \in Terminal

\* A candle that began before the signal existed is ignored in full.
Predates(s, open) == open < s.createdAt

MutOrderKnown(entry, open) == TRUE
\* Only an entry at the open is known to come before the bar's extremes.
OrderKnown(entry, open) == entry.at = open

\* A structure can only be lost while the signal waits.
Invalidates(acc, inv, by) == acc.status = "WAITING" /\ inv # NoTime /\ inv <= by

Cancelled(acc, inv, bar, last) ==
    [acc EXCEPT !.status = "CANCELLED", !.terminal = inv, !.last = last,
                !.events = Append(@, Event("CANCELLED", inv, bar, NoPrice, "STRUCTURAL_INVALIDATION_BEFORE_ENTRY"))]

Closed(acc, status, close, bar, price, reason) ==
    [acc EXCEPT !.status = status, !.terminal = close, !.last = close,
                !.events = Append(@, Event(status, close, bar, price, reason))]

\* An active signal meets a bar.
ResolveBar(s, bar, open, close, k, acc) ==
    LET tp == TakeProfitTouched(s, bar)
        sl == StopLossTouched(s, bar)
    IN  IF tp /\ sl
        THEN IF k.policy = "CONSERVATIVE_STOP_FIRST"
             THEN Closed(acc, "SL_HIT", close, open, s.sl, "CONSERVATIVE_STOP_FIRST")
             ELSE Closed(acc, "AMBIGUOUS", close, open, NoPrice, "TP_AND_SL_TOUCHED_SAME_CANDLE")
        ELSE IF tp THEN Closed(acc, "TP_HIT", close, open, s.tp, "TAKE_PROFIT_TOUCHED")
        ELSE IF sl THEN Closed(acc, "SL_HIT", close, open, s.sl, "STOP_LOSS_TOUCHED")
        ELSE [acc EXCEPT !.last = close]

\* A waiting signal is filled by a bar.
ActivateBar(s, bar, open, close, k, acc, entry) ==
    LET active == [acc EXCEPT !.status = "ACTIVE", !.activated = entry.at, !.last = close,
                              !.events = Append(@, Event("ACTIVATED", entry.at, open, entry.price,
                                                         "ENTRY_EXECUTION_CONFIRMED"))]
        touched == TakeProfitTouched(s, bar) \/ StopLossTouched(s, bar)
    IN  IF touched /\ ~OrderKnown(entry, open)
        THEN Closed(active, "AMBIGUOUS", close, open, NoPrice, "ENTRY_AND_EXIT_ORDER_UNKNOWN")
        ELSE ResolveBar(s, bar, open, close, k, active)

\* One turn of the replay loop.  `captured` is the caller's record of the last
\* executed entry its resolver returned; an entry the result type refuses raises.
ReplayBar(s, bars, d, inv, k, acc, n) ==
    LET open == (n - 1) * d
        close == n * d
        waiting == acc.status = "WAITING"
        entry == IF waiting THEN ExecuteEntryCandle(s, bars, n, d, k) ELSE NoEntry
        seen == IF entry.executed THEN [acc EXCEPT !.captured = entry] ELSE acc
    IN  IF acc.raised \/ Settled(acc) \/ Predates(s, open) THEN acc
        ELSE IF ~EntryEvidenceHolds(s, entry) THEN [acc EXCEPT !.raised = TRUE]
        ELSE IF Invalidates(acc, inv, open) THEN Cancelled(seen, inv, NoTime, Max({acc.last, inv}))
        ELSE IF Invalidates(acc, inv, close)
             THEN IF entry.executed
                  THEN Closed(seen, "AMBIGUOUS", close, open, NoPrice, "ENTRY_AND_INVALIDATION_ORDER_UNKNOWN")
                  ELSE Cancelled(seen, inv, open, close)
        ELSE IF ~waiting THEN ResolveBar(s, bars[n], open, close, k, acc)
        ELSE IF entry.executed THEN ActivateBar(s, bars[n], open, close, k, seen, entry)
        ELSE [acc EXCEPT !.last = close]

Created(s) ==
    [status |-> "WAITING", activated |-> NoTime, terminal |-> NoTime, last |-> s.createdAt,
     events |-> << Event("CREATED", s.createdAt, NoTime, NoPrice, "SIGNAL_CREATED") >>,
     captured |-> NoEntry, raised |-> FALSE]
\* A structure that is lost when the signal is created cancels it at once.
Opened(s, inv) == IF inv = s.createdAt THEN Cancelled(Created(s), inv, NoTime, s.createdAt) ELSE Created(s)

\* replay_signal_lifecycle over the visible candles of the signal's timeframe.
ReplaySignalLifecycle(s, bars, d, inv, k) ==
    LET after[n \in 0..Len(bars)] ==
            IF n = 0 THEN Opened(s, inv) ELSE ReplayBar(s, bars, d, inv, k, after[n - 1], n)
    IN  after[Len(bars)]

--------------------------------------------------------------------------------
(* Exit.                                                                          *)

\* An open beyond a level a position already held: the gap decides, not the range.
OpeningGapReason(s, bar) ==
    LET beyond(low, high) == IF bar.o < low THEN "low" ELSE IF bar.o > high THEN "high" ELSE "NONE"
        side == IF s.dir = "LONG" THEN beyond(s.sl, s.tp) ELSE beyond(s.tp, s.sl)
    IN  IF side = "NONE" THEN "NONE"
        ELSE IF (side = "low") = (s.dir = "LONG") THEN "STOP_LOSS" ELSE "TAKE_PROFIT"

\* The entry came from an earlier bar, so the position met this bar's open.
ActiveBeforeOpen(entry, open) == entry.bar < open

ClassifyFinancialOutcome(net) == IF net > 0 THEN "PROFIT" ELSE IF net < 0 THEN "LOSS" ELSE "FLAT"

\* The fill of the terminal candle, or NoExit while its order is unknown.
ExecuteTerminalCandle(s, bar, open, lc, entry, k) ==
    LET gapped == IF ActiveBeforeOpen(entry, open) THEN OpeningGapReason(s, bar) ELSE "NONE"
        gap == gapped # "NONE"
        reason == IF gap THEN gapped ELSE IF lc.status = "TP_HIT" THEN "TAKE_PROFIT" ELSE "STOP_LOSS"
        requested == IF reason = "TAKE_PROFIT" THEN s.tp ELSE s.sl
        base == IF gap /\ reason = "STOP_LOSS" THEN bar.o ELSE requested
        slip == base * k.slippage
        price == IF s.dir = "LONG" THEN base * Bps - slip ELSE base * Bps + slip
        gross == IF s.dir = "LONG" THEN price - entry.price ELSE entry.price - price
        commission == (entry.base + base) * k.commission
        net == gross - entry.spread - commission
    IN  IF ~gap /\ lc.status = "AMBIGUOUS" THEN NoExit
        ELSE [reason |-> reason, requested |-> requested, base |-> base, price |-> price, gap |-> gap,
              slip |-> slip, total |-> entry.slip + slip, gapSlip |-> Distance(base, requested),
              spread |-> entry.spread, commission |-> commission, gross |-> gross, net |-> net,
              planned |-> entry.planned, outcome |-> ClassifyFinancialOutcome(net),
              at |-> IF gap THEN open ELSE lc.terminal, bar |-> open]

\* ExecutionRequest.validate_request: what may be executed at all.
RequestHolds(s, lc, entry) ==
    /\ lc.status \in {"TP_HIT", "SL_HIT", "AMBIGUOUS"} /\ entry.executed
    /\ IF s.dir = "LONG" THEN s.sl < entry.requested /\ entry.requested < s.tp
                         ELSE s.tp < entry.requested /\ entry.requested < s.sl

\* ExecutionResult: the signs and the arithmetic of an exit, against its entry.
ExitEvidenceHolds(s, entry, x) ==
    x # NoExit =>
        /\ 0 < Min({x.requested, x.base, x.price, x.planned, entry.price, entry.risk})
        /\ 0 <= Min({x.spread, x.slip, x.total, x.gapSlip, x.commission})
        /\ x.planned = entry.planned
        /\ x.gross = IF s.dir = "LONG" THEN x.price - entry.price ELSE entry.price - x.price
        /\ x.net = x.gross - x.spread - x.commission
        /\ x.slip = Distance(x.price, x.base * Bps) /\ x.total = entry.slip + x.slip
        /\ x.outcome = ClassifyFinancialOutcome(x.net)
        /\ x.gapSlip = Distance(x.base, x.requested) /\ (~x.gap => x.gapSlip = 0)
===============================================================================
