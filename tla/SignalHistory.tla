------------------------------ MODULE SignalHistory ----------------------------
(* A backtest replays every signal of a strategy engine at every evaluation, as *)
(* far as its candles have closed, and the callers of SignalPersistenceService  *)
(* write what they once saw of a signal into its row, late, twice or never.     *)
(* The whole series is there from the start: what a replay may see of it is up  *)
(* to the replay.                                                               *)
EXTENDS BacktestReport, FiniteSets

CONSTANTS
    Signals,      \* the candidates the engine may emit, by id
    Scenarios,    \* the series, configuration, engine and callers of a run, below
    Writers       \* concurrent callers of apply_lifecycle

VARIABLES
    tape,         \* the canonical series
    cfg,          \* its scenario: execution and lifecycle configuration, the signals the
                  \* engine emits, those whose structure it may report lost, and
                  \* those that callers persist
    now,          \* the last evaluation
    runtimes,     \* _RuntimeSignal, by id
    run,          \* RUNNING, REPORTED or why it was aborted
    rows,         \* the signals table
    lock,         \* the transaction that holds the row lock, per row
    writers       \* what each caller is doing

Free == "FREE"

\* Candle.validate_ohlc: open and close lie between low and high.
CandleHolds(c) == {c.o, c.h, c.l, c.c} \subseteq Int /\ {c.o, c.c} \subseteq c.l..c.h

\* A candidate whose levels its type refuses never becomes a signal; its timeframe is
\* a whole number of canonical candles.  A series has finitely many, prices and costs
\* are numbers.  Numbers stand for the signals' stable ids, in their order.
ASSUME SignalsAssumption ==
    /\ IsFiniteSet(DOMAIN Signals) /\ DOMAIN Signals \subseteq Int
    /\ \A i \in DOMAIN Signals :
          LET c == Signals[i]
          IN  LevelsHold(c) /\ {c.low, c.high, c.ref, c.tp, c.sl} \subseteq Int /\ c.tf \in Nat \ {0}
    /\ \A k \in Scenarios :
          /\ k.length \in Nat /\ {k.slippage, k.spread, k.commission} \subseteq Int
          /\ \A c \in k.candles : CandleHolds(c)
    /\ Free \notin Writers

engineVars == << tape, cfg, now, runtimes, run >>
rowVars == << rows, lock, writers >>
vars == << engineVars, rowVars >>

Ids == DOMAIN Signals
Length == Len(tape)
NoRuntime == [lc |-> [status |-> "ABSENT"], entry |-> NoEntry, execution |-> NoExit]
Idle == [at |-> "IDLE"]
Known(i) == runtimes[i] # NoRuntime

Series(i) == Derived(tape, Signals[i].tf)
Signal(i, created) ==
    LET c == Signals[i]
    IN  [dir |-> c.dir, low |-> c.low, high |-> c.high, ref |-> c.ref, tp |-> c.tp, sl |-> c.sl,
         createdAt |-> created]

Init ==
    /\ cfg \in Scenarios
    /\ tape \in [1..cfg.length -> cfg.candles]
    /\ now = 0
    /\ runtimes = [i \in Ids |-> NoRuntime]
    /\ run = "RUNNING"
    /\ rows = [i \in Ids |-> Absent]
    /\ lock = [i \in Ids |-> Free]
    /\ writers = [w \in Writers |-> Idle]

--------------------------------------------------------------------------------
(* The backtest.                                                                  *)

\* One signal at one evaluation: the replay, the entry it captured, the execution
\* of its end, evaluated once.
Replayed(i, created, inv, asOf) ==
    LET s == Signal(i, created)
        d == Signals[i].tf
        visible == ClosedBars(Series(i), d, asOf)
        lc == ReplaySignalLifecycle(s, visible, d, inv, cfg)
        rt == runtimes[i]
        entry == IF lc.captured.executed THEN lc.captured ELSE rt.entry
    IN  [s |-> s, dir |-> s.dir, inv |-> inv, lc |-> lc, entry |-> entry,
         rewritten |-> lc.captured.executed /\ rt.entry.executed /\ rt.entry # lc.captured,
         execution |-> IF rt.lc.status \notin Terminal /\ lc.status \in Terminal
                       THEN EvaluateExecution(s, visible, d, lc, entry, cfg) ELSE rt.execution]

\* _validate_strategy_output: a new candidate is created at its own evaluation and
\* has a series.  The structure of a signal is lost once.
KeepsContract(new, lost) ==
    /\ new \subseteq {i \in cfg.emits : ~Known(i)}
    /\ \A i \in lost : i \in cfg.losses /\ (Known(i) \/ i \in new) /\ (Known(i) => runtimes[i].inv = NoTime)

\* A type refuses what a replay or an execution made.
Refused(rt) ==
    \/ rt.lc.raised \/ ~ResultHolds(rt.lc)
    \/ rt.lc.status \in Terminal \ {"CANCELLED"} /\ rt.entry.executed
       /\ ~(RequestHolds(rt.s, rt.lc, rt.entry) /\ ExitEvidenceHolds(rt.s, rt.entry, rt.execution))

\* One evaluation.  The engine, which keeps its contract, may reveal signals created
\* now and report structures lost now; then every runtime is replayed.  A result its
\* type refuses, or an entry that changed, ends the run.
Evaluate(new, lost) ==
    LET asOf == now + 1
        live == {i \in Ids : Known(i)} \cup new
        inv(i) == IF Known(i) /\ runtimes[i].inv # NoTime THEN runtimes[i].inv
                  ELSE IF i \in lost THEN asOf ELSE NoTime
        created(i) == IF Known(i) THEN runtimes[i].s.createdAt ELSE asOf
        next == [i \in live |-> Replayed(i, created(i), inv(i), asOf)]
    IN  /\ run = "RUNNING" /\ now < Length
        /\ KeepsContract(new, lost)
        /\ now' = asOf
        /\ IF \E i \in live : Refused(next[i])
           THEN run' = "RESULT_REFUSED" /\ UNCHANGED runtimes
           ELSE IF \E i \in live : next[i].rewritten
           THEN run' = "ENTRY_CHANGED" /\ UNCHANGED runtimes
           ELSE /\ runtimes' = [i \in Ids |-> IF i \in live THEN next[i] ELSE NoRuntime]
                /\ UNCHANGED run
        /\ UNCHANGED << tape, cfg, rowVars >>

Trades == [i \in {j \in Ids : Known(j)} |-> ToTrade(runtimes[i])]
Observed(ids) == {[id |-> i, obs |-> BacktestFinancialObservation(Trades[i])] : i \in ids}
Slices == {Ids, {i \in Ids : Signals[i].dir = "LONG"}, {i \in Ids : Signals[i].dir = "SHORT"}}
          \cup {{i \in Ids : Signals[i].tf = d} : d \in {Signals[i].tf : i \in Ids}}

\* The report is built from the last evaluation, or a type refuses one of its parts.
Report ==
    /\ run = "RUNNING" /\ now = Length
    /\ run' = IF /\ \A i \in DOMAIN Trades : TradeHolds(Trades[i])
                 /\ \A part \in Slices : MetricsHold(Summarize(Observed(part \cap DOMAIN Trades)))
              THEN "REPORTED" ELSE "REPORT_REFUSED"
    /\ UNCHANGED << tape, cfg, now, runtimes, rowVars >>

--------------------------------------------------------------------------------
(* Persistence.                                                                   *)

\* A caller persists a new signal, as the final decision of its validation.
Create(i, final) ==
    /\ i \in cfg.persisted /\ Known(i) /\ rows[i] = Absent
    /\ InsertAccepted(runtimes[i].s, NewRecord(runtimes[i].s, final))
    /\ rows' = [rows EXCEPT ![i] = NewRecord(runtimes[i].s, final)]
    /\ UNCHANGED << engineVars, lock, writers >>

\* A caller takes what the replay says now, with the entry the replay captured or
\* with the one that activated the signal.
Take(w, i) ==
    LET rt == runtimes[i] IN
    /\ writers[w] = Idle /\ Known(i) /\ rows[i] # Absent
    /\ \E entry \in {rt.entry, IF rt.lc.activated = NoTime THEN NoEntry ELSE rt.entry} :
          writers' = [writers EXCEPT ![w] = [at |-> "HOLDING", id |-> i, lc |-> rt.lc, entry |-> entry,
                                             exit |-> rt.execution]]
    /\ UNCHANGED << engineVars, rows, lock >>

MutLockable(w, i) == TRUE
\* get_for_update: the transaction reads the row under its lock.
Lockable(w, i) == lock[i] = Free

Begin(w) ==
    /\ writers[w].at = "HOLDING" /\ Lockable(w, writers[w].id)
    /\ lock' = [lock EXCEPT ![writers[w].id] = w]
    /\ writers' = [x \in Writers |-> IF x # w THEN writers[x] ELSE
                      [at |-> "READ", id |-> writers[w].id, lc |-> writers[w].lc, entry |-> writers[w].entry,
                       exit |-> writers[w].exit, seen |-> rows[writers[w].id]]]
    /\ UNCHANGED << engineVars, rows >>

Let(w) == [at |-> "HOLDING", id |-> writers[w].id, lc |-> writers[w].lc, entry |-> writers[w].entry,
           exit |-> writers[w].exit]

\* What the database must agree to, once the repository does.
Writable(s, old, seen, u) ==
    LET new == Projected(seen, u)
    IN  OrmAccepts(seen, new) /\ (new # seen => UpdateAccepted(s, old, new)) /\ ReadAccepted(s, new)

\* apply_lifecycle, its flush and the commit, or the rollback of a refusal.  The
\* caller keeps its result: an answer it never received is sent again.
Apply(w) ==
    LET i == writers[w].id
        s == runtimes[i].s
        seen == writers[w].seen
    IN  /\ writers[w].at = "READ"
        /\ rows' = IF RepositoryAccepts(s, seen, writers[w]) /\ Writable(s, rows[i], seen, writers[w])
                   THEN [rows EXCEPT ![i] = Projected(seen, writers[w])] ELSE rows
        /\ lock' = [lock EXCEPT ![i] = Free]
        /\ writers' = [writers EXCEPT ![w] = Let(w)]
        /\ UNCHANGED engineVars

\* The transaction is lost before its commit: a crash, or its deadline.
Rollback(w) ==
    /\ writers[w].at = "READ"
    /\ lock' = [lock EXCEPT ![writers[w].id] = Free]
    /\ writers' = [writers EXCEPT ![w] = Let(w)]
    /\ UNCHANGED << engineVars, rows >>

Forget(w) ==
    /\ writers[w].at = "HOLDING"
    /\ writers' = [writers EXCEPT ![w] = Idle]
    /\ UNCHANGED << engineVars, rows, lock >>

Next ==
    \/ \E new \in SUBSET Ids, lost \in SUBSET Ids : Evaluate(new, lost)
    \/ Report
    \/ \E i \in Ids, final \in {"TRADE", "NO_TRADE"} : Create(i, final)
    \/ \E w \in Writers, i \in Ids : Take(w, i)
    \/ \E w \in Writers : Begin(w) \/ Apply(w) \/ Rollback(w) \/ Forget(w)

Spec == Init /\ [][Next]_vars

--------------------------------------------------------------------------------
(* Properties.                                                                    *)

Statuses == {"ABSENT", "NULL", "WAITING", "ACTIVE"} \cup Terminal

\* The statuses of runtimes and rows, the phases of a run and of its callers, and a
\* row lock that is held by exactly the transaction that has read the row.
TypeOK ==
    /\ now \in 0..Length
    /\ run \in {"RUNNING", "REPORTED", "RESULT_REFUSED", "REPORT_REFUSED", "ENTRY_CHANGED"}
    /\ \A i \in Ids : runtimes[i].lc.status \in Statuses \ {"NULL"}
    /\ \A i \in Ids : /\ rows[i].status \in Statuses
                      /\ lock[i] \in Writers \cup {Free}
                      /\ rows[i] # Absent => RowIsValid(runtimes[i].s, rows[i])
    /\ \A w \in Writers : /\ writers[w].at \in {"IDLE", "HOLDING", "READ"}
                          /\ writers[w].at = "READ" <=> \E i \in Ids : lock[i] = w

\* The price moves from a to b and meets everything between: what becomes of s.
Move(s, state, a, b) ==
    LET from == IF state = "ACTIVE" THEN a ELSE Max({s.low, Min({s.high, a})})
        low == Min({from, b})
        high == Max({from, b})
        zone == Min({a, b}) <= s.high /\ Max({a, b}) >= s.low
        won == IF s.dir = "LONG" THEN high >= s.tp ELSE low <= s.tp
        lost == IF s.dir = "LONG" THEN low <= s.sl ELSE high >= s.sl
    IN  IF state \in {"WIN", "LOSS"} \/ (state = "WAITING" /\ ~zone) THEN state
        ELSE IF won THEN "WIN" ELSE IF lost THEN "LOSS" ELSE "ACTIVE"

\* What a candle makes of a state when the price comes from `before`: its high is met
\* before its low, or its low before its high.
Walk(s, state, before, x) ==
    LET through(y, z) == Move(s, Move(s, Move(s, Move(s, state, before, x.o), x.o, y), y, z), z, x.c)
    IN  {through(x.h, x.l), through(x.l, x.h)}

\* What one more candle makes of the states before it.  Between two bars of g candles
\* the price may jump, inside a bar it may not, and a bar that opens before the signal
\* was created is not acted on.
Beyond(s, candles, g, w, states, n) ==
    LET first == ((n - 1) \div g) * g
        before == IF n - 1 = first THEN candles[n].o ELSE candles[n - 1].c
    IN  IF Predates(s, first * w) THEN states ELSE UNION {Walk(s, st, before, candles[n]) : st \in states}

\* What the first `until` candles, each w units of time long, leave possible.
Possible(s, candles, g, w, until) ==
    LET after[n \in 0..until] == IF n = 0 THEN {"WAITING"} ELSE Beyond(s, candles, g, w, after[n - 1], n)
    IN  after[until]

\* The bar that ended a replay opened at the target itself.
EndedAtTarget(i) ==
    Series(i)[Last(runtimes[i].lc.events).bar \div Signals[i].tf + 1].o = runtimes[i].s.tp

\* An outcome is only reported when the candles force it: whatever the order of the
\* prices inside them, a win was a win, an open trade is open, a waiting or cancelled
\* signal was never entered.  Only the stop-first policy may call an undecided bar of
\* the signal's own timeframe a loss, and then that bar could be one, unless it opened
\* at the target exactly, which is no gap (replay_signal_lifecycle, _to_trade).
OutcomeIsForced ==
    run # "RESULT_REFUSED" => \A i \in Ids : Known(i) =>
        LET rt == runtimes[i]
            d == Signals[i].tf
            trade == ToTrade(rt)
            possible == Possible(rt.s, tape, d, 1, (now \div d) * d)
        IN  /\ trade.status = "TP_HIT" => possible = {"WIN"}
            /\ trade.status = "SL_HIT" =>
                  \/ possible = {"LOSS"}
                  \/ /\ cfg.policy = "CONSERVATIVE_STOP_FIRST"
                     /\ "LOSS" \in Possible(rt.s, Series(i), 1, d, now \div d) \/ EndedAtTarget(i)
            /\ trade.status \in {"WAITING", "ACTIVE"} => possible = {trade.status}
            /\ trade.status = "CANCELLED" => Possible(rt.s, tape, d, 1, rt.inv) = {"WAITING"}

\* Nothing a replay says at an evaluation comes from a candle that had not closed
\* by then, and no later replay finds another entry than an earlier one
\* (_IndexedCandleSeries.closed, resolve_entry).
ReplayIsPointInTime ==
    /\ run # "ENTRY_CHANGED"
    /\ \A i \in Ids : Known(i) =>
          LET lc == runtimes[i].lc IN
          /\ Max({lc.last, lc.activated, lc.terminal}) <= now
          /\ \A n \in 1..Len(lc.events) : lc.events[n].at <= now

Replays == INSTANCE SignalContract WITH
    Id <- Ids, None <- NoEntry,
    status <- [i \in Ids |-> runtimes[i].lc.status], exit <- [i \in Ids |-> runtimes[i].execution],
    entry <- [i \in Ids |-> IF Known(i) /\ runtimes[i].lc.activated # NoTime THEN runtimes[i].entry ELSE NoEntry]
Table == INSTANCE SignalContract WITH
    Id <- Ids, None <- NoEntry,
    status <- [i \in Ids |-> rows[i].status], entry <- [i \in Ids |-> rows[i].entry],
    exit <- [i \in Ids |-> rows[i].exit]

\* The replays of every signal and the rows of the table each implement the contract
\* of a signal: what evaluation after evaluation replays from scratch, and what late
\* and repeated callers write, both look like one life that only goes forward.
HistoryFollowsContract == Replays!Spec /\ Table!Spec

\* What apply_lifecycle lets through, the listener, the trigger and the read schema
\* also accept: a caller is refused by the repository, never by the database.
AcceptedIsWritable ==
    \A w \in Writers : writers[w].at = "READ" =>
        LET i == writers[w].id
            s == runtimes[i].s
        IN  RepositoryAccepts(s, writers[w].seen, writers[w]) => Writable(s, rows[i], writers[w].seen, writers[w])

Undated(obs) == [obs EXCEPT !.closed = NoTime]

\* A signal that ended in the table ended the same way in the backtest, where its
\* trade can be reported at all: metrics over rows and metrics over trades count the
\* same outcome, fill and result (persisted_signal_financial_observation,
\* backtest_financial_observation).
TableAgreesWithReport ==
    \A i \in Ids : rows[i].status \in Terminal /\ TradeHolds(ToTrade(runtimes[i])) =>
        Undated(PersistedSignalFinancialObservation(rows[i]))
            = Undated(BacktestFinancialObservation(ToTrade(runtimes[i])))

\* The maximum drawdown of a report is the deepest fall of the realised equity below
\* any earlier level, trades taken in the order they closed.
DrawdownIsExact ==
    run = "REPORTED" =>
        LET items == Observed(DOMAIN Trades)
            done == {x \in items : x.obs.outcome # "NULL"}
            upTo(x) == {y \in done : y.obs.closed < x.obs.closed \/ (y.obs.closed = x.obs.closed /\ y.id <= x.id)}
            equity(x) == SumFunctionOnSet([y \in done |-> y.obs.r], upTo(x))
            after(x, y) == y # x /\ x \in upTo(y)
        IN  Summarize(items).drawdown =
                Max({0} \cup {0 - equity(y) : y \in done}
                        \cup {equity(xy[1]) - equity(xy[2]) : xy \in {p \in done \X done : after(p[1], p[2])}})

\* The documents: slippage moves the fill, invalidation cancels the signal; neither
\* ends the run.  A backtest of valid candles gets its report.
ReportBuilds == run \notin {"RESULT_REFUSED", "REPORT_REFUSED"}
===============================================================================
