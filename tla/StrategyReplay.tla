----------------------------- MODULE StrategyReplay ----------------------------
(***************************************************************************)
(* The two strategy engines over one growing candle series.  Every step      *)
(* hands the same closed candles to the reference engine, which computes      *)
(* everything afresh, and to the replay engine, which extends what it kept;   *)
(* the window may also restart later, or miss a candle.                      *)
(***************************************************************************)
EXTENDS StrategyPipeline

CONSTANTS
    Cases,      \* [cfg, plot]: a configuration and the market it meets; a plot gives
                \* the candle main[p] of each position and the candles at[p] that
                \* may come at it
    MaxTwists   \* candles off the main line, missing candles and window restarts

VARIABLES
    cfg,        \* the configuration of both engines
    plot,       \* the script the market follows
    pos,        \* candles of the script that have passed
    src,        \* the source candles handed to the engines
    hot,        \* the replay engine's states
    ref,        \* the reference engine's last evaluation
    traded,     \* the sweeps of this window that became a trade
    twists      \* turns the market has taken

vars == <<cfg, plot, pos, src, hot, ref, traded, twists>>

Now(s) == IF s = << >> THEN 0 ELSE Last(s).t + 1

Init ==
    /\ \E case \in Cases : cfg = case.cfg /\ plot = case.plot
    /\ pos = 0 /\ src = << >> /\ traded = << >> /\ twists = 0
    /\ hot = EmptyHot(cfg)
    /\ ref = Evaluate(cfg, << >>, 0)

\* One evaluation of the given series by both engines; a trade is kept with the
\* sweep it came from.
Recorded(series, known, r) ==
    /\ src' = series
    /\ hot' = Feed(cfg, hot, series, Now(series))
    /\ ref' = r
    /\ traded' = known \o (IF r.answer.decision = "NO_TRADE" THEN << >> ELSE <<r.answer.setup[1].sweep>>)

Evaluated(series, known) == Recorded(series, known, Evaluate(cfg, series, Now(series)))

At(p, candle) == [t |-> p - 1, o |-> candle.o, h |-> candle.h, l |-> candle.l, c |-> candle.c]

\* One or two more candles have closed since the last evaluation.
Observe ==
    \E k \in 1..2 :
      /\ pos + k <= Len(plot.main)
      /\ \E first \in plot.at[pos + 1], last \in plot.at[pos + k] :
           LET new == IF k = 1 THEN <<last>> ELSE <<first, last>>
               off == Cardinality({n \in 1..k : new[n] # plot.main[pos + n]})
           IN  /\ k = 1 => first = last
               /\ twists + off <= MaxTwists
               /\ twists' = twists + off
               /\ Evaluated(src \o [n \in 1..k |-> At(pos + n, new[n])], traded)
      /\ pos' = pos + k
      /\ UNCHANGED <<cfg, plot>>

\* A candle is missing from the source, and the one after it is there.
Miss ==
    /\ twists < MaxTwists /\ src # << >> /\ pos + 2 <= Len(plot.main)
    /\ twists' = twists + 1
    /\ pos' = pos + 2
    /\ Evaluated(Append(src, At(pos + 2, plot.main[pos + 2])), traded)
    /\ UNCHANGED <<cfg, plot>>

\* The history is loaded again from a later candle: past a missing one, or
\* simply a shorter window.
Reload ==
    LET gaps == {n \in 2..Len(src) : src[n].t # src[n - 1].t + 1}
        from == IF gaps = {} THEN 2 ELSE Max(gaps)
    IN  /\ gaps # {} \/ twists < MaxTwists
        /\ from < Len(src)
        /\ twists' = IF gaps = {} THEN twists + 1 ELSE twists
        /\ Evaluated(SubSeq(src, from, Len(src)), << >>)
        /\ UNCHANGED <<cfg, plot, pos>>

Next == Observe \/ Miss \/ Reload

Spec == Init /\ [][Next]_vars

-----------------------------------------------------------------------------
(* What the engines promise *)

\* The replay engine's kept states show what the reference engine computes from
\* the whole series: every swing, zone, pool, leg, block, setup and indicator, and
\* every bar of every timeframe (hot_state_strategy_engine.py's parity contract).
ReplayAgrees ==
    ref.fed =>
      /\ \A d \in cfg.targets : hot.res.targets[d].bars = ref.res[d].bars
      /\ HotFeatures(cfg, hot) = ref.f

\* Every object the detectors build satisfies the validators of its schema
\* (schemas/structure.py, fvg.py, liquidity.py, displacement.py, order_block.py,
\* entry_setup.py).
ValidFeatures(f) ==
    /\ \A d \in cfg.targets : ValidStructure(f.structures[d])
    /\ \A n \in 1..Len(f.fvg.zones) : ValidGap(f.fvg.zones[n])
    /\ \A n \in 1..Len(f.liq.pools) : ValidPool(f.liq.pools[n])
    /\ ValidDisplacement(f.disp)
    /\ \A n \in 1..Len(f.blocks.zones) : ValidBlock(f.blocks.zones[n])
    /\ \A n \in 1..Len(f.blocks.breakers) : ValidBreaker(f.blocks.breakers[n])
    /\ \A n \in 1..Len(f.entries) : ValidSetup(f.entries[n])

\* The engine never refuses what it made itself: no evaluation ends in a validation
\* error, and a trade the engine has decided on is not turned away by the snapshot's
\* own consistency checks while every timeframe has a bar, because the evidence it
\* collects is complete and nothing in it is later than the cutoff
\* (services/snapshot_builder.py, schemas/analysis_snapshot.py).
AcceptsOwnEvidence ==
    ref.fed => ValidFeatures(ref.f) /\ (HaveCutoffs(cfg, ref.res) => ref.answer = ref.draft)

\* A setup becomes a trade at most once in a window, at the close that makes it
\* ready (strategy_engine.py's choice of the setups confirmed at the cutoff).
OneTradePerSweep == \A m, n \in 1..Len(traded) : m # n => traded[m] # traded[n]

\* A setup without the later life of its zones.
Frozen(setup) ==
    [setup EXCEPT !.gap = IF @ = None THEN None ELSE <<@[1].id>>,
                  !.block = IF @ = None THEN None ELSE <<@[1].id>>]

\* The evidence of a setup of n bars, once it is ready.
Causal(e, n) ==
    e.st = "READY" =>
      /\ e.sweep.ts < e.mss[1].ts /\ e.mss[1].ts < e.gap[1].born
      /\ e.gap[1].born <= e.leg[1].end /\ e.gap[1].born + 1 < e.retest
      /\ e.at = e.retest + 1 /\ e.retest <= n

\* The evidence of a ready setup is in causal order: the shift is after the sweep,
\* the gap after the shift and within the leg, the retest at least a bar after the
\* gap, and the setup is known at the close of the retest (_evaluate_sweep).
EvidenceInOrder ==
    ref.fed => \A n \in DOMAIN ref.f.entries :
                 Causal(ref.f.entries[n], Len(Bars(ref.res, cfg)))

\* MTF_OWNER_FINAL_CHECK.md: a timeframe that is only context never stops a trade
\* that the required timeframes and the risk plan allow.
ContextHasNoAuthority == ref.fed => ref.answer.decision = ref.draft.decision

Extended == Len(src') > Len(src) /\ SubSeq(src', 1, Len(src)) = src /\ ref.fed /\ ref'.fed

\* Later candles never rewrite what an evaluation has reported: confirmed swings,
\* structure breaks, pool interactions, gaps' and blocks' logs, qualified legs and
\* ready setups only ever grow (no repainting).  A pool's history gives back
\* the pool as it was known at any earlier cutoff, which is what the order block
\* detector reads (LiquidityPool.snapshot_at).
NothingRepaints ==
    [][Extended =>
         LET Logs(zones) == [n \in 1..Len(zones) |-> zones[n].log]
             Grow(old, new) == /\ Len(old) <= Len(new)
                               /\ \A n \in 1..Len(old) : IsPrefix(old[n], new[n])
         IN  /\ \A d \in cfg.targets :
                  /\ IsPrefix(ref.res[d].bars, ref'.res[d].bars)
                  /\ IsPrefix(ref.f.structures[d].confirmed, ref'.f.structures[d].confirmed)
                  /\ IsPrefix(ref.f.structures[d].events, ref'.f.structures[d].events)
             /\ IsPrefix(ref.f.liq.interactions, ref'.f.liq.interactions)
             /\ \A p \in ToSet(ref.f.liq.pools) : \E q \in ToSet(ref'.f.liq.pools) :
                  q.id = p.id /\ SnapshotAt(q, Len(Bars(ref.res, cfg)) + 1) = <<p>>
             /\ Grow(Logs(ref.f.fvg.zones), Logs(ref'.f.fvg.zones))
             /\ ToSet(ref.f.disp.legs) \subseteq ToSet(ref'.f.disp.legs)
             /\ \A z \in ToSet(ref.f.blocks.zones) : \E y \in ToSet(ref'.f.blocks.zones) :
                  y.id = z.id /\ y.origin = z.origin /\ IsPrefix(z.log, y.log)
             /\ \A n \in 1..Len(ref.f.entries) :
                  ref.f.entries[n].st = "READY" => Frozen(ref'.f.entries[n]) = Frozen(ref.f.entries[n])
      ]_vars
===============================================================================
