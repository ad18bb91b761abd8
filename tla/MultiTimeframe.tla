----------------------------- MODULE MultiTimeframe ----------------------------
(***************************************************************************)
(* Resampling and the higher-timeframe gate (engines/structure/              *)
(* multi_timeframe.py), and the append-only resampler of the replay engine   *)
(* (engines/optimized_strategy_engine.py).                                  *)
(*                                                                         *)
(* A source candle is [t, o, h, l, c]: it opens at t and closes at t + 1.     *)
(* A timeframe is its duration d in source candles; its bucket b covers      *)
(* the times d * b .. d * b + d - 1.                                        *)
(***************************************************************************)
EXTENDS FiniteSets, Series

\* timeframe_bucket_start, as the number of the bucket.
Bucket(t, d) == t \div d

Times(bars) == [n \in 1..Len(bars) |-> bars[n].t]
ExpectedOpens(b, d) == [k \in 1..d |-> b * d + k - 1]

\* The bar of a complete bucket.
DerivedBar(b, d, parts) ==
    [t |-> b * d, o |-> Head(parts).o, c |-> Last(parts).c,
     h |-> Max({parts[n].h : n \in 1..Len(parts)}), l |-> Min({parts[n].l : n \in 1..Len(parts)})]

\* resample_closed_candles under REQUIRE_CONTIGUOUS: the bars of complete buckets
\* that have ended, and the buckets that ended incomplete.
Ended(b, d, now) == (b + 1) * d <= now

Resample(d, src, now) ==
    LET seen == SelectSeq(src, LAMBDA x : x.t + 1 <= now)
        firsts == SelectSeq(From(1, Len(seen)),
                            LAMBDA n : n = 1 \/ Bucket(seen[n].t, d) # Bucket(seen[n - 1].t, d))
        buckets == Each(Len(firsts), LAMBDA k : Bucket(seen[firsts[k]].t, d))
        over == SelectSeq(buckets, LAMBDA b : Ended(b, d, now))
        Parts(b) == SelectSeq(seen, LAMBDA x : Bucket(x.t, d) = b)
        Whole(b) == Times(Parts(b)) = ExpectedOpens(b, d)
        whole == SelectSeq(over, Whole)
    IN  [bars |-> Each(Len(whole), LAMBDA n : DerivedBar(whole[n], d, Parts(whole[n]))),
         broken |-> {b \in ToSet(over) : ~Whole(b)}]

\* _has_source_gap
SourceGap(src) == \E n \in 2..Len(src) : src[n].t # src[n - 1].t + 1

-----------------------------------------------------------------------------
(* The append-only resampler *)

EmptyTarget == [open |-> << >>, bucket |-> -1, emitted |-> {}, bars |-> << >>]

\* One candle for one target.  Source times ascend, so the buckets fill in order
\* and only the latest one can still grow.
FeedTarget(st, d, x) ==
    LET b == Bucket(x.t, d)
        parts == Append(IF b = st.bucket THEN st.open ELSE << >>, x)
        full == Len(parts) = d /\ Times(parts) = ExpectedOpens(b, d) /\ b \notin st.emitted
    IN  [open |-> parts, bucket |-> b, emitted |-> st.emitted \cup (IF full THEN {b} ELSE {}),
         bars |-> IF full THEN Append(st.bars, DerivedBar(b, d, parts)) ELSE st.bars]

EmptyResampler(targets) == [src |-> << >>, targets |-> [d \in targets |-> EmptyTarget]]

\* IncrementalResamplingState.append: a series that does not extend the known one
\* starts again.
FeedResampler(st0, targets, src) ==
    LET st == IF IsPrefix(st0.src, src) THEN st0 ELSE EmptyResampler(targets)
        new == SubSeq(src, Len(st.src) + 1, Len(src))
    IN  [src |-> src,
         targets |-> [d \in targets |-> FoldLeft(LAMBDA acc, x : FeedTarget(acc, d, x), st.targets[d], new)]]

-----------------------------------------------------------------------------
(* The gate *)

\* minimum_history_by_timeframe: what the detectors of a timeframe need at least.
MinHistory(cfg, d) ==
    LET st == cfg.structure[d]
        own == Max({cfg.warmup[d], st.left + st.right + 1})
    IN  IF d # cfg.signalTf THEN own
        ELSE Max({own, cfg.slow + cfg.signal - 1, cfg.atrPeriod, cfg.dAtr, cfg.barsTotal})

\* _snapshot_for_timeframe.  events: state events [tf, state, bar (its open), at].
TfSnapshot(cfg, d, resampled, events, now) ==
    LET bars == resampled.bars
        Index(e) == {n \in 1..Len(bars) : bars[n].t = e.bar}
        known == {e \in events : e.tf = d /\ e.at <= now /\ Index(e) # {}}
        e == CHOOSE x \in known : \A y \in known : x.at >= y.at
        short == Len(bars) < (IF cfg.warmed THEN MinHistory(cfg, d) ELSE 1)
        base == (IF resampled.broken # {} THEN {"INCOMPLETE_BUCKET"} ELSE {})
                \cup (IF short THEN {"WARMUP_INCOMPLETE"} ELSE {})
        stale == Len(bars) - Max(Index(e)) > cfg.maxAge[d]
        closed == IF bars = << >> THEN << >> ELSE <<Last(bars).t + d>>
        Snap(state, why, at) == [state |-> state, available |-> state # "INSUFFICIENT_DATA",
                                 why |-> base \cup why, at |-> at, closed |-> closed]
    IN  IF known = {} \/ short THEN Snap("INSUFFICIENT_DATA", {"STATE_UNAVAILABLE"}, << >>)
        ELSE IF stale THEN Snap("INSUFFICIENT_DATA", {"STATE_STALE"}, <<e.at>>)
        ELSE Snap(e.state, IF e.state = "INSUFFICIENT_DATA" THEN {"STATE_UNAVAILABLE"} ELSE {}, <<e.at>>)

\* _dealing_range and the classification of the entry zone against it, all doubled.
PriceArray(cfg, dir, zone, swings, bars, now) ==
    LET highs == SelectSeq(swings, LAMBDA w : w.kind = "HIGH")
        lows == SelectSeq(swings, LAMBDA w : w.kind = "LOW")
        hi == Last(highs)
        lo == Last(lows)
        span == IF hi.pivot > lo.pivot THEN hi.pivot - lo.pivot ELSE lo.pivot - hi.pivot
        probe == IF cfg.probe = "MIDPOINT" THEN zone.lo + zone.hi
                 ELSE IF dir = "BULLISH" THEN 2 * zone.hi ELSE 2 * zone.lo
    IN  IF highs = << >> \/ lows = << >> THEN "UNAVAILABLE"
        ELSE IF span > cfg.dealSpan \/ lo.price >= hi.price THEN "UNAVAILABLE"
        ELSE IF probe = lo.price + hi.price THEN "EQUILIBRIUM"
        ELSE IF probe < lo.price + hi.price THEN "DISCOUNT" ELSE "PREMIUM"

\* The directional part of analyze_multi_timeframe: whether the required timeframes
\* agree with dir and nothing vetoes it.
Aligned(cfg, snap, dir) ==
    /\ Cardinality({d \in cfg.required : snap[d].state = dir}) >= cfg.minAligned
    /\ \A d \in cfg.veto : snap[d].available /\ snap[d].state \notin {"BULLISH", "BEARISH"} \ {dir}
    /\ cfg.signalAlign => snap[cfg.signalTf].state = dir

\* analyze_multi_timeframe: whether the trade is allowed, and how the timeframes
\* stand to it.
Standing(cfg, snap, dir, mine, theirs, ready) ==
    LET other == IF dir = "BULLISH" THEN "BEARISH" ELSE "BULLISH"
        vetoed == \E d \in cfg.veto : snap[d].state = other
    IN  IF mine /\ theirs THEN "CONFLICTING"
        ELSE IF mine THEN IF ready THEN "ALIGNED" ELSE "PARTIALLY_ALIGNED"
        ELSE IF theirs \/ vetoed \/ (cfg.signalAlign /\ snap[cfg.signalTf].state = other)
        THEN "CONFLICTING" ELSE "PARTIALLY_ALIGNED"

Gated(cfg, snap, dir, mine, theirs, array) ==
    LET goodArray == {"EQUILIBRIUM", IF dir = "BULLISH" THEN "DISCOUNT" ELSE "PREMIUM"}
        whole == \A d \in cfg.required : "INCOMPLETE_BUCKET" \notin snap[d].why
        ready == \A d \in cfg.availability : snap[d].available /\ snap[d].why = {}
    IN  [standing |-> Standing(cfg, snap, dir, mine, theirs, whole /\ ready),
         allowed |-> mine /\ ~theirs /\ whole /\ ready /\ (cfg.priceGate => array \in goodArray),
         snap |-> snap]

GateWith(cfg, snap, dir, array) ==
    Gated(cfg, snap, dir, Aligned(cfg, snap, dir),
          Aligned(cfg, snap, IF dir = "BULLISH" THEN "BEARISH" ELSE "BULLISH"), array)

AnalyzeMtf(cfg, dir, zone, res, events, swings, now) ==
    GateWith(cfg, [d \in cfg.targets |-> TfSnapshot(cfg, d, res[d], events, now)], dir,
             PriceArray(cfg, dir, zone, swings[cfg.dealTf], res[cfg.dealTf].bars, now))
===============================================================================
