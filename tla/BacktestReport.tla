----------------------------- MODULE BacktestReport ----------------------------
(* The series a backtest replays, the trade it makes of a replayed signal, and  *)
(* the metrics of its report (backtesting/runner.py, metrics/financial.py,      *)
(* schemas/backtest.py).  A runtime rt is the runner's record of one signal.    *)
EXTENDS SignalRecord

\* resample_canonical_candles on a series without gaps from an aligned start:
\* only whole buckets make a bar.
Derived(tape, d) ==
    [b \in 1..(Len(tape) \div d) |->
        LET part == SubSeq(tape, (b - 1) * d + 1, b * d)
        IN  [o |-> part[1].o, c |-> part[d].c,
             h |-> Max({part[n].h : n \in 1..d}), l |-> Min({part[n].l : n \in 1..d})]]

MutClosedBars(bars, d, asOf) == SubSeq(bars, 1, Min({(asOf + d - 1) \div d, Len(bars)}))
\* _IndexedCandleSeries.closed: the bars that have ended by the cutoff.
ClosedBars(bars, d, asOf) == SubSeq(bars, 1, Min({asOf \div d, Len(bars)}))

--------------------------------------------------------------------------------
(* Trades.                                                                        *)

\* _evaluate_execution: the fill of a runtime that has just ended.
EvaluateExecution(s, bars, d, lc, entry, k) ==
    LET open == Last(lc.events).bar
    IN  IF lc.status = "CANCELLED" \/ ~entry.executed THEN NoExit
        ELSE ExecuteTerminalCandle(s, bars[open \div d + 1], open, lc, entry, k)

\* _to_trade: an execution overrides the lifecycle's status and closing time.
ToTrade(rt) ==
    LET x == rt.execution
        status == IF x = NoExit THEN rt.lc.status
                  ELSE IF x.reason = "TAKE_PROFIT" THEN "TP_HIT" ELSE "SL_HIT"
    IN  [status |-> status, activated |-> rt.lc.activated, entry |-> rt.entry, execution |-> x, dir |-> rt.dir,
         closed |-> IF x = NoExit THEN rt.lc.terminal ELSE x.at,
         result |-> IF status \in Terminal THEN TerminalResult(status)[1] ELSE "NULL"]

\* BacktestTrade.validate_execution_evidence
TradeHolds(t) ==
    /\ t.activated # NoTime <=> t.entry.executed
    /\ t.entry.executed => t.entry.at = t.activated
    /\ t.status \in {"TP_HIT", "SL_HIT"} <=> t.execution # NoExit

--------------------------------------------------------------------------------
(* Metrics.  R values are sums of net results over planned risk, in units of      *)
(* 1 / (Bps * RUnit).                                                             *)
RUnit == 30
NetR(x) == (x.net * RUnit) \div x.planned

Observation(status, executed, x, closed) ==
    [status |-> status, execution |-> executed, outcome |-> IF x = NoExit THEN "NULL" ELSE x.outcome,
     gross |-> IF x = NoExit THEN 0 ELSE x.gross, net |-> IF x = NoExit THEN 0 ELSE x.net,
     r |-> IF x = NoExit THEN 0 ELSE NetR(x), closed |-> closed]

BacktestFinancialObservation(t) ==
    Observation(t.status,
                IF t.execution # NoExit THEN "EXECUTED"
                ELSE IF t.entry.executed THEN (IF t.status = "AMBIGUOUS" THEN "AMBIGUOUS_EXIT" ELSE "EXECUTED")
                ELSE "NOT_EXECUTED",
                t.execution, t.closed)

MutPersistedSignalFinancialObservation(row) ==
    Observation(row.status, IF row.entry.executed THEN "EXECUTED" ELSE "NOT_EXECUTED", row.exit, row.closed)
PersistedSignalFinancialObservation(row) ==
    Observation(row.status,
                IF row.entry.executed THEN (IF row.status = "AMBIGUOUS" THEN "AMBIGUOUS_EXIT" ELSE "EXECUTED")
                ELSE "NOT_EXECUTED",
                row.exit, row.closed)

\* The order of the equity curve: closing time, then the stable id.
Chronological(a, b) == a.obs.closed < b.obs.closed \/ (a.obs.closed = b.obs.closed /\ a.id < b.id)

\* The results in that order, each at the place its predecessors leave it.
Curve(items) ==
    [n \in 1..Cardinality(items) |->
        CHOOSE x \in items : Cardinality({y \in items : Chronological(y, x)}) = n - 1]

NoEquity == [equity |-> 0, peak |-> 0, drawdown |-> 0]
MutRealised(acc, r) ==
    [equity |-> acc.equity + r, peak |-> 0, drawdown |-> Max({acc.drawdown, 0 - acc.equity - r})]
\* One more result.
Realised(acc, r) ==
    LET equity == acc.equity + r
        peak == Max({acc.peak, equity})
    IN  [equity |-> equity, peak |-> peak, drawdown |-> Max({acc.drawdown, peak - equity})]

Equity(curve) ==
    LET after[n \in 0..Len(curve)] == IF n = 0 THEN NoEquity ELSE Realised(after[n - 1], curve[n].obs.r)
    IN  after[Len(curve)]

\* summarize_financial_observations over a set of [id, obs]
Summarize(items) ==
    LET resolved == {i \in items : i.obs.outcome # "NULL"}
        count(P(_)) == Cardinality({i \in items : P(i.obs)})
    IN  [signals |-> Cardinality(items), resolved |-> Cardinality(resolved),
         executed |-> count(LAMBDA o : o.execution \in {"EXECUTED", "AMBIGUOUS_EXIT"}),
         wins |-> count(LAMBDA o : o.outcome = "PROFIT"), losses |-> count(LAMBDA o : o.outcome = "LOSS"),
         flats |-> count(LAMBDA o : o.outcome = "FLAT"),
         tp |-> count(LAMBDA o : o.status = "TP_HIT"), sl |-> count(LAMBDA o : o.status = "SL_HIT"),
         drawdown |-> Equity(Curve(resolved)).drawdown]

\* PerformanceMetrics.validate_metric_semantics
MetricsHold(m) ==
    /\ m.executed <= m.signals
    /\ m.resolved = m.wins + m.losses + m.flats /\ m.resolved <= m.executed
    /\ m.tp + m.sl = m.resolved
===============================================================================
