---------------------------- MODULE StrategyPipeline ---------------------------
(***************************************************************************)
(* The strategy engine: one evaluation of a symbol at a cutoff.               *)
(*                                                                         *)
(* Features is the reference path (engines/strategy_engine.py), every         *)
(* detector over the whole series; Feed is the replay engine's path           *)
(* (incremental_strategy_engine.py, hot_state_strategy_engine.py), which      *)
(* extends the states it kept from the evaluations before; Decide is the      *)
(* part they share, and Snapshot the evidence a candidate carries             *)
(* (services/snapshot_builder.py, schemas/analysis_snapshot.py).             *)
(***************************************************************************)
EXTENDS EntryModel, FairValueGaps, MarketStructure, Indicators, MultiTimeframe, TradeDecision

Bars(res, cfg) == res[cfg.signalTf].bars

-----------------------------------------------------------------------------
(* The reference path *)

AllResampled(cfg, src, now) == [d \in cfg.targets |-> Resample(d, src, now)]

\* The structure of the signal timeframe, and the range after each of its candles.
SignalStructure(cfg, f) == f.structures[cfg.signalTf]
SignalAtr(f, s) == AtrLine(f.ind.atr, Len(s))

\* The detectors of evaluate; each reads the results of those before it.
WithStructures(cfg, res) ==
    [structures |-> [d \in cfg.targets |-> AnalyzeStructure(cfg.structure[d], res[d].bars)],
     ind |-> AnalyzeIndicators(cfg, Bars(res, cfg)), fvg |-> None, liq |-> None, disp |-> None,
     blocks |-> None, entries |-> None]
WithZones(cfg, s, f) ==
    [f EXCEPT !.fvg = AnalyzeFvg(cfg, s, SignalAtr(f, s)),
              !.liq = AnalyzeLiquidity(cfg, s, SignalStructure(cfg, f).confirmed, SignalAtr(f, s))]
WithLegs(cfg, s, f) ==
    [f EXCEPT !.disp = AnalyzeDisplacement(cfg, s, SignalStructure(cfg, f).events, f.fvg.zones)]
WithBlocks(cfg, s, f) ==
    [f EXCEPT !.blocks = AnalyzeBlocks(cfg, s, SignalStructure(cfg, f).events, Links(f.disp),
                                       SignalStructure(cfg, f).confirmed, f.liq.pools, SignalAtr(f, s))]
WithEntries(cfg, s, f) ==
    [f EXCEPT !.entries = AnalyzeEntries(cfg, s, f.liq, SignalStructure(cfg, f).events, f.disp.legs,
                                         f.fvg.zones, f.blocks.zones, SignalAtr(f, s))]

SignalFeatures(cfg, s, f) == WithEntries(cfg, s, WithBlocks(cfg, s, WithLegs(cfg, s, WithZones(cfg, s, f))))

Features(cfg, res) == SignalFeatures(cfg, Bars(res, cfg), WithStructures(cfg, res))

-----------------------------------------------------------------------------
(* The replay engine's path *)

\* reset_state, and the states before the first evaluation.
EmptyHot(cfg) ==
    [res |-> EmptyResampler(cfg.targets), series |-> [d \in cfg.targets |-> << >>],
     structures |-> [d \in cfg.targets |-> EmptyStructure], sig |-> << >>,
     ind |-> EmptyIndicators(cfg), fvg |-> EmptyFvg, liq |-> EmptyLiquidity, disp |-> EmptyDisplacement,
     blocks |-> EmptyBlocks, entries |-> EmptyEntries]

\* Every state compares the series with the one it knows (_prefix_ok) and starts
\* again when it is not an extension.
Extends(known, series) == IsPrefix(known, series)

FeedStructure(cfg, st, bars, first) ==
    FoldLeft(LAMBDA acc, i : AppendStructure(cfg, acc, bars, i), st, From(first, Len(bars)))

FeedStructures(cfg, hot, bars) ==
    [hot EXCEPT
       !.series = bars,
       !.structures = [d \in cfg.targets |->
           LET keep == Extends(hot.series[d], bars[d])
           IN  FeedStructure(cfg.structure[d], IF keep THEN @[d] ELSE EmptyStructure, bars[d],
                             IF keep THEN Len(hot.series[d]) + 1 ELSE 1)]]

\* The states of the signal timeframe, each fed the candles after those of hot.sig and
\* the results of the states before it.
Fresh(hot, s) == From(Len(hot.sig) + 1, Len(s))
HotStructure(cfg, hot) == StructureResult(cfg.structure[cfg.signalTf], hot.structures[cfg.signalTf])

FeedIndicators(cfg, s, hot) ==
    [hot EXCEPT !.ind = FoldLeft(LAMBDA acc, i : AppendIndicators(cfg, acc, s, i), @, Fresh(hot, s))]
FeedZones(cfg, s, st, hot) ==
    [hot EXCEPT !.fvg = FoldLeft(LAMBDA acc, i : AppendFvg(cfg, acc, s, SignalAtr(hot, s), i), @, Fresh(hot, s)),
                !.liq = FoldLeft(LAMBDA acc, i : AppendLiquidity(cfg, acc, s, st.confirmed, SignalAtr(hot, s), i),
                                 @, Fresh(hot, s))]
FeedLegs(cfg, s, st, hot) ==
    [hot EXCEPT !.disp = AppendDisplacement(cfg, @, s, st.events, FvgResult(hot.fvg).zones)]
FeedBlocks(cfg, s, st, hot) ==
    IF ~HotBlocks(cfg) THEN hot
    ELSE [hot EXCEPT !.blocks = AppendBlocks(cfg, @, s, Len(hot.sig) + 1, st.events,
                                             Links(DisplacementResult(hot.disp)), st.confirmed,
                                             LiquidityResult(hot.liq).pools, SignalAtr(hot, s))]
FeedEntries(cfg, s, st, keep, hot) ==
    [hot EXCEPT !.sig = s,
                !.entries = IF NeedsBlock(cfg) THEN EmptyEntries
                            ELSE AppendEntries(cfg, @, s, keep, LiquidityResult(hot.liq), st.events,
                                               DisplacementResult(hot.disp).legs, FvgResult(hot.fvg).zones,
                                               ToSet(hot.fvg.gaps.active), SignalAtr(hot, s))]

FeedSignalFrom(cfg, s, keep, st, hot) ==
    FeedEntries(cfg, s, st, keep,
        FeedBlocks(cfg, s, st, FeedLegs(cfg, s, st, FeedZones(cfg, s, st, FeedIndicators(cfg, s, hot)))))

FeedSignal(cfg, hot, s) ==
    FeedSignalFrom(cfg, s, Extends(hot.sig, s), HotStructure(cfg, hot),
        IF Extends(hot.sig, s) THEN hot
        ELSE [EmptyHot(cfg) EXCEPT !.res = hot.res, !.series = hot.series, !.structures = hot.structures])

\* required timeframes that are still too short stop the evaluation after resampling
Warm(cfg, bars) == \A d \in cfg.availability : Len(bars[d]) >= MinHistory(cfg, d)

\* The states after evaluate: how far they were fed depends on where it returned.
\* Refused: an input that evaluate turns away before it reaches a detector.
Refused(cfg, src, now) ==
    \/ src = << >>
    \/ Last(src).t + 1 # now
    \/ SourceGap(src)

TargetBars(hot) == [d \in DOMAIN hot.res.targets |-> hot.res.targets[d].bars]

FeedDetectors(cfg, hot, bars) ==
    IF ~Warm(cfg, bars) THEN hot
    ELSE IF bars[cfg.signalTf] = << >> THEN FeedStructures(cfg, hot, bars)
    ELSE FeedSignal(cfg, FeedStructures(cfg, hot, bars), bars[cfg.signalTf])

FeedTargets(cfg, hot) == FeedDetectors(cfg, hot, TargetBars(hot))

Feed(cfg, hot, src, now) ==
    IF Refused(cfg, src, now) THEN hot
    ELSE FeedTargets(cfg, [hot EXCEPT !.res = FeedResampler(@, cfg.targets, src)])

\* What the hot states show: result of each, the reference where a mode has no
\* hot state.
HotResults(cfg, hot) ==
    [structures |-> [d \in cfg.targets |-> StructureResult(cfg.structure[d], hot.structures[d])],
     ind |-> IndicatorsResult(hot.ind), fvg |-> FvgResult(hot.fvg), liq |-> LiquidityResult(hot.liq),
     disp |-> DisplacementResult(hot.disp), blocks |-> BlocksResult(hot.blocks),
     entries |-> EntriesResult(hot.entries)]
BlocksOrReference(cfg, s, f) == IF HotBlocks(cfg) THEN f ELSE WithBlocks(cfg, s, f)
EntriesOrReference(cfg, s, f) == IF NeedsBlock(cfg) THEN WithEntries(cfg, s, f) ELSE f
HotFeatures(cfg, hot) ==
    EntriesOrReference(cfg, hot.sig, BlocksOrReference(cfg, hot.sig, HotResults(cfg, hot)))

-----------------------------------------------------------------------------
(* The decision *)

\* _score_evidence of a ready setup; times are candles of the signal timeframe.
Evidence(cfg, setup, ind, now) ==
    LET point == Last(ind.macd.points)
        crossed == IF setup.dir = "BULLISH" THEN point.up ELSE point.down
        given == {"mss", "sweep", "fvg", "displacement", "htf"}
                 \cup (IF setup.block = None THEN {} ELSE {"order_block"})
                 \cup (IF crossed THEN {"macd"} ELSE {})
        At(n) == CASE n = "mss" -> setup.mss[1].ts + 1
                   [] n = "sweep" -> setup.sweep.ts + 1
                   [] n = "fvg" -> setup.gap[1].born + 1
                   [] n = "displacement" -> setup.leg[1].end + 1
                   [] n = "order_block" -> setup.block[1].validated
                   [] OTHER -> now
    IN  [components |-> [n \in given |-> [dir |-> setup.dir, at |-> At(n)]],
         conflict |-> FALSE, crt |-> << >>]

\* _current_structure_state_events
StateEvents(cfg, res, f) ==
    {[tf |-> d, state |-> f.structures[d].trend, bar |-> Last(res[d].bars).t, at |-> Last(res[d].bars).t + d] :
        d \in {e \in cfg.targets : res[e].bars # << >> /\ f.structures[e].trend # "INSUFFICIENT_DATA"}}

\* The setups that became ready with the candle that closes at the cutoff.
\* (Mutant: every setup that is ready.)
MutReadyNow(cfg, s, entries, now) == SelectSeq(entries, LAMBDA e : e.st = "READY")
ReadyNow(cfg, s, entries, now) ==
    SelectSeq(entries, LAMBDA e : e.st = "READY" /\ s[e.at - 1].t + cfg.signalTf = now)

NoTrade(why) ==
    [why |-> why, decision |-> "NO_TRADE", setup |-> None, plan |-> None, evidence |-> None, mtf |-> None]

\* evaluate, from its features on, up to the candidate: the only setup that is ready,
\* then its gate, score and plan.
Judge(f, setup, want, mtf, score, evidence, plan) ==
    IF ~mtf.allowed THEN NoTrade("MULTI_TIMEFRAME_SAFETY_REJECTED")
    ELSE IF score.decision # want THEN NoTrade("SIGNAL_SCORE_SAFETY_REJECTED")
    ELSE IF ~PointInTime(f.liq.pools, setup.at) THEN NoTrade("INVALID_POINT_IN_TIME_INPUT")
    ELSE IF plan.decision # want THEN NoTrade("RISK_SAFETY_REJECTED")
    ELSE [why |-> "DETERMINISTIC_CANDIDATE_ACCEPTED", decision |-> want, setup |-> <<setup>>,
          plan |-> <<plan>>, evidence |-> <<evidence>>, mtf |-> <<mtf>>]

TradeSide(dir) == IF dir = "BULLISH" THEN "LONG" ELSE "SHORT"

JudgeScored(cfg, s, f, setup, mtf, evidence) ==
    Judge(f, setup, TradeSide(setup.dir), mtf, Score(cfg, evidence), evidence,
          RiskPlan(cfg, setup, f.liq.pools, Last(SignalAtr(f, s))))

DecideSetup(cfg, res, f, setup, now) ==
    JudgeScored(cfg, Bars(res, cfg), f, setup,
        AnalyzeMtf(cfg, setup.dir, setup.zone[1], res, StateEvents(cfg, res, f),
                   [d \in cfg.targets |-> f.structures[d].confirmed], now),
        Evidence(cfg, setup, f.ind, Len(Bars(res, cfg)) + 1))

DecideReady(cfg, res, f, ready, now) ==
    IF ready = << >> THEN NoTrade("READY_SETUP_UNAVAILABLE")
    ELSE IF Len(ready) > 1 THEN NoTrade("AMBIGUOUS_READY_SETUPS")
    ELSE DecideSetup(cfg, res, f, Head(ready), now)

Decide(cfg, res, f, now) == DecideReady(cfg, res, f, ReadyNow(cfg, Bars(res, cfg), f.entries, now), now)

-----------------------------------------------------------------------------
(* The snapshot of a candidate: the checks of AnalysisSnapshot *)

\* _validate_structure_semantics
SnapshotStructures(f) ==
    \A d \in DOMAIN f.structures :
        LET r == f.structures[d]
        IN  /\ \A n \in 1..Len(r.confirmed) : r.confirmed[n].pivot < r.confirmed[n].at
            /\ \A n \in 1..Len(r.events) : \E m \in 1..Len(r.confirmed) :
                  r.events[n].level = <<r.confirmed[m].kind, r.confirmed[m].pivot>>

\* _validate_liquidity_semantics
SnapshotLiquidity(f) ==
    \A n \in 1..Len(f.liq.pools) :
        LET p == f.liq.pools[n]
        IN  /\ p.upd = Last(p.history).at
            /\ p.st = "SWEPT" => p.swept > 0
            /\ p.swept > 0 => p.swept >= p.created
            /\ ToSet(p.interactions) \subseteq ToSet(f.liq.interactions)

\* _validate_fvg_semantics
SnapshotGaps(f) ==
    LET ids == {f.fvg.zones[n].id : n \in 1..Len(f.fvg.zones)}
    IN  \A n \in 1..Len(f.fvg.zones) :
        LET z == f.fvg.zones[n]
        IN  /\ Head(z.log).ev = "CREATED" /\ Head(z.log).at = z.born + 1
            /\ Last(z.log).at <= z.upd /\ Last(z.log).to = z.st
            /\ \A k \in 2..Len(z.log) : z.log[k].at >= z.log[k - 1].at
            /\ z.origin # << >> => z.origin \in ids

\* _validate_order_block_semantics
Logged(zone, ev, at) ==
    LET when == {zone.log[k].at : k \in {n \in 1..Len(zone.log) : zone.log[n].ev = ev}}
    IN  IF at = 0 THEN when = {} ELSE when # {} /\ Max(when) = at
SnapshotBlocks(f) ==
    LET zones == f.blocks.zones
        breakers == f.blocks.breakers
    IN  /\ \A n \in 1..Len(zones) :
              /\ Head(zones[n].log).ev = "CREATED" /\ Head(zones[n].log).at = zones[n].born + 1
              /\ Last(zones[n].log).to = zones[n].st
              /\ Logged(zones[n], "VALIDATED", zones[n].validated)
              /\ Logged(zones[n], "MITIGATED", zones[n].mitigated)
              /\ Logged(zones[n], "INVALIDATED", zones[n].invalidated)
              /\ zones[n].breaker => \E m \in 1..Len(breakers) : breakers[m].of = zones[n].id
              /\ zones[n].st = "CANDIDATE" => zones[n].validated = 0
        /\ \A n \in 1..Len(breakers) :
              /\ \E m \in 1..Len(zones) : breakers[n].of = zones[m].id
              /\ Head(breakers[n].log).ev = "CREATED" /\ Last(breakers[n].log).to = breakers[n].st
              /\ Logged(breakers[n], "ACTIVATED", breakers[n].activated)
              /\ Logged(breakers[n], "INVALIDATED", breakers[n].invalidated)

\* _validate_mtf_semantics: no timeframe knows a later close, and the state of an
\* available one has its evidence.
SnapshotMtf(mtf, now) ==
    \A d \in DOMAIN mtf.snap :
        LET snap == mtf.snap[d]
        IN  /\ \A t \in ToSet(snap.at) \cup ToSet(snap.closed) : t <= now
            /\ snap.available => snap.at # << >> /\ snap.closed # << >>

\* SnapshotDecisionEvidence.validate_decision and _validate_decision_consistency: the
\* decision is the setup's direction, with the levels and the side of the accepted plan.
SnapshotDecision(d) ==
    /\ d.decision = (IF d.setup[1].dir = "BULLISH" THEN "LONG" ELSE "SHORT")
    /\ d.plan[1].decision = d.decision /\ Directional(d.plan[1])

\* _available_source_times and _validate_score_references: when the source of a
\* component became available, as far as the snapshot shows.
SourceTimes(cfg, f, setup, n) ==
    CASE n = "mss" -> {e.ts + 1 : e \in {x \in ToSet(f.structures[cfg.signalTf].events) : Ref(x) = Ref(setup.mss[1])}}
      [] n = "sweep" -> {e.ts + 1 : e \in {x \in ToSet(f.liq.interactions) : x = setup.sweep}}
      [] n = "fvg" -> {z.born + 1 : z \in {x \in ToSet(f.fvg.zones) : x.id = setup.gap[1].id}}
      [] n = "displacement" -> {l.end + 1 : l \in {x \in ToSet(f.disp.legs) : x.ref = setup.leg[1].ref}}
      [] n = "order_block" ->
           {IF b.validated > 0 THEN b.validated ELSE b.born + 1 :
              b \in {x \in ToSet(f.blocks.zones) : x.id = setup.block[1].id}}
      [] OTHER -> {0}
SnapshotScore(cfg, f, d) ==
    \A n \in DOMAIN d.evidence[1].components :
        LET times == SourceTimes(cfg, f, d.setup[1], n)
        IN  times # {} /\ \A t \in times : d.evidence[1].components[n].at >= t

\* _validate_risk_references
SnapshotRisk(f, d) ==
    \E p \in ToSet(f.liq.pools) :
        /\ p.id = d.plan[1].pool /\ p.st = "ACTIVE" /\ p.upd <= d.setup[1].at
        /\ d.plan[1].take = IF d.decision = "LONG" THEN p.lo ELSE p.hi

\* _reject_datetime_after_cutoff and _validate_result_cutoffs: nothing in the
\* evidence is later than the cutoff, and every result has a cutoff, which the
\* structure of a timeframe with no closed candle has not.
HaveCutoffs(cfg, res) == \A d \in cfg.targets : res[d].bars # << >>
NothingLater(f, n) ==
    /\ \A k \in 1..Len(f.liq.pools) : f.liq.pools[k].upd <= n + 1
    /\ \A k \in 1..Len(f.fvg.zones) : f.fvg.zones[k].upd <= n + 1
    /\ \A k \in 1..Len(f.blocks.zones) : Last(f.blocks.zones[k].log).at <= n + 1
    /\ \A k \in 1..Len(f.entries) : f.entries[k].at <= n + 1

\* build_analysis_snapshot and the validators of the payload, in their order.
SnapshotAccepts(cfg, res, f, d, now) ==
    /\ HaveCutoffs(cfg, res) /\ NothingLater(f, Len(Bars(res, cfg)))
    /\ SnapshotStructures(f) /\ SnapshotLiquidity(f) /\ SnapshotGaps(f) /\ SnapshotBlocks(f)
    /\ KnownAt(d.evidence[1], Len(Bars(res, cfg)) + 1)
    /\ SnapshotMtf(d.mtf[1], now)
    /\ SnapshotScore(cfg, f, d) /\ SnapshotRisk(f, d) /\ SnapshotDecision(d)
    /\ ValidPlan(d.plan[1])

\* _candidate: the snapshot and the candidate that carries it.
CandidateHolds(cfg, res, f, d, now) == SnapshotAccepts(cfg, res, f, d, now) /\ ValidCandidate(d.plan[1])

\* The rest of evaluate: a candidate that is refused turns the trade away.
Accepted(cfg, res, f, d, now) ==
    IF d.decision # "NO_TRADE" /\ ~CandidateHolds(cfg, res, f, d, now)
    THEN NoTrade("INVALID_POINT_IN_TIME_INPUT") ELSE d

\* evaluate on the reference path: how far it came, the trade it drafted and the
\* answer it gives.
Answered(cfg, res, f, draft, now) ==
    [fed |-> TRUE, res |-> res, f |-> f, draft |-> draft, answer |-> Accepted(cfg, res, f, draft, now)]

EvaluateFeatures(cfg, res, f, now) == Answered(cfg, res, f, Decide(cfg, res, f, now), now)

Early(res, why) == [fed |-> FALSE, res |-> res, answer |-> NoTrade(why)]

EvaluateBars(cfg, src, res, now) ==
    IF src = << >> THEN Early(res, "REQUIRED_SOURCE_TIMEFRAME_UNAVAILABLE")
    ELSE IF Last(src).t + 1 # now THEN Early(res, "SOURCE_DATA_STALE_OR_NON_POINT_IN_TIME")
    ELSE IF SourceGap(src) THEN Early(res, "SOURCE_DATA_GAP")
    ELSE IF ~Warm(cfg, [d \in cfg.targets |-> res[d].bars])
    THEN Early(res, "REQUIRED_TIMEFRAME_WARMUP_INCOMPLETE")
    ELSE IF Bars(res, cfg) = << >> THEN Early(res, "SIGNAL_TIMEFRAME_DATA_UNAVAILABLE")
    ELSE EvaluateFeatures(cfg, res, Features(cfg, res), now)

Evaluate(cfg, src, now) == EvaluateBars(cfg, src, AllResampled(cfg, src, now), now)
===============================================================================
