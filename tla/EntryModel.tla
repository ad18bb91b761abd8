------------------------------- MODULE EntryModel ------------------------------
(***************************************************************************)
(* The entry model: a liquidity sweep, a market structure shift, a           *)
(* displacement leg, a fair value gap and its retest make one setup per      *)
(* sweep.  The reference (engines/ict/high_probability_entry.py) judges       *)
(* every sweep at every cutoff; the hot state (engines/ict/hot_state.py)      *)
(* wakes a sweep only when evidence, a zone or a deadline may change its     *)
(* setup.                                                                   *)
(***************************************************************************)
EXTENDS OrderBlocks

None == << >>
OneOf(set) == IF set = {} THEN None ELSE <<CHOOSE x \in set : TRUE>>
FirstOf(places) == {n \in places : \A m \in places : n <= m}
FirstAt(seq, places) == OneOf({seq[n] : n \in FirstOf(places)})
IsSweep(e) == e.type = "SWEEP"
SetupDir(sweep) == IF sweep.dir = "SELL" THEN "BULLISH" ELSE "BEARISH"
GapTerminalStates == {"FILLED", "INVERTED", "INVALIDATED", "EXPIRED"}

-----------------------------------------------------------------------------
(* Point-in-time reads of lifecycles *)

\* _fvg_state_at sorts by time and then by the event's name, so of the two events
\* a bar can log (a retest, then a fill or an expiry) the retest counts as last.
GapStateAt(zone, t) ==
    LET seen == {n \in 1..Len(zone.log) : zone.log[n].at <= t}
        last == {n \in seen : \A m \in seen : zone.log[n].at >= zone.log[m].at}
        retests == {n \in last : zone.log[n].ev = "RETEST"}
    IN  IF seen = {} THEN "ACTIVE"
        ELSE zone.log[IF retests = {} THEN Max(last) ELSE Max(retests)].to

\* _fvg_terminal_at: when the zone ended, 0 if it had not by t.
GapEndedAt(zone, t) ==
    LET ends == {n \in 1..Len(zone.log) : zone.log[n].at <= t /\ zone.log[n].to \in GapTerminalStates}
    IN  IF ends = {} THEN 0 ELSE zone.log[Min(ends)].at

\* _order_block_state_at, with the same order of names: a mitigation counts after
\* the expiry of its bar.
BlockStateAt(zone, t) ==
    LET seen == {n \in 1..Len(zone.log) : zone.log[n].at <= t}
        last == {n \in seen : \A m \in seen : zone.log[n].at >= zone.log[m].at}
        mitigations == {n \in last : zone.log[n].ev = "MITIGATED"}
    IN  IF seen = {} THEN "CANDIDATE"
        ELSE zone.log[IF mitigations = {} THEN Max(last) ELSE Max(mitigations)].to

-----------------------------------------------------------------------------
(* Selection *)

\* Python's min: one of those with the least key, which decides but for ties.
Least(set, Key(_)) ==
    OneOf({x \in set : \A y \in set : \/ Key(x)[1] < Key(y)[1]
                                      \/ Key(x)[1] = Key(y)[1] /\ Key(x)[2] <= Key(y)[2]})

\* _select_fvg: none or one of the leg's gaps.
SelectGap(cfg, gaps, leg, mss, close) ==
    LET Size(z) == z.hi - z.lo
        Away(z) == LET d == z.lo + z.hi - 2 * close IN IF d < 0 THEN -d ELSE d
        fits == {z \in ToSet(gaps) :
                   /\ z.id \in ToSet(leg.gaps) /\ z.type = "FVG" /\ z.dir = leg.dir
                   /\ mss.ts < z.born /\ z.born <= leg.end
                   /\ GapStateAt(z, leg.end + 1) \in {"ACTIVE", "PARTIALLY_FILLED"}}
        Key(z) == CASE cfg.gapPolicy = "FIRST_CONFIRMED" -> <<z.born, 0>>
                    [] cfg.gapPolicy = "NEAREST_TO_MSS_CLOSE" -> <<Away(z), z.born>>
                    [] cfg.gapPolicy = "NARROWEST" -> <<Size(z), z.born>>
                    [] OTHER -> <<-Size(z), z.born>>
    IN  Least(fits, Key)

\* _retest_passes
RetestPasses(cfg, zone, bar, dir) ==
    CASE cfg.retest = "TOUCH" -> bar.l <= zone.hi /\ bar.h >= zone.lo
      [] cfg.retest = "CLOSE_IN_ZONE" -> zone.lo <= bar.c /\ bar.c <= zone.hi
      [] OTHER -> IF dir = "BULLISH" THEN bar.l <= zone.hi /\ bar.c > zone.hi
                  ELSE bar.h >= zone.lo /\ bar.c < zone.lo

\* _select_order_block
SelectBlock(blocks, gap, dir, i) ==
    LET open == {"VALIDATED", "MITIGATED"}
        fits == {z \in ToSet(blocks) :
                   /\ z.dir = dir /\ z.validated > 0 /\ z.validated <= i
                   /\ BlockStateAt(z, i) \in open /\ BlockStateAt(z, i + 1) \in open}
        Away(z) == LET d == z.mean2 - gap.lo - gap.hi IN IF d < 0 THEN -d ELSE d
    IN  Least(fits, LAMBDA z : <<Away(z), z.validated>>)

NeedsBlock(cfg) == cfg.entry # "FVG" \/ cfg.invalidation = "ORDER_BLOCK_EXTREME"

\* _entry_zone
EntryZone(cfg, gap, block) ==
    LET lo == Max({gap.lo, block[1].lo})
        hi == Min({gap.hi, block[1].hi})
    IN  IF cfg.entry = "FVG" THEN <<[lo |-> gap.lo, hi |-> gap.hi]>>
        ELSE IF block = None THEN None
        ELSE IF cfg.entry = "ORDER_BLOCK" THEN <<[lo |-> block[1].lo, hi |-> block[1].hi]>>
        ELSE IF lo > hi \/ (lo = hi /\ ~cfg.zeroWidth) THEN None
        ELSE <<[lo |-> lo, hi |-> hi]>>

\* _invalidation_level: a level on the tick grid, rounded away from the entry, or
\* the reason there is none.
InvalidationLevel(cfg, dir, swept, zone, block, i, atr) ==
    LET up == dir = "BULLISH"
        from == CASE cfg.invalidation = "LIQUIDITY_SWEEP_EXTREME" -> IF up THEN swept.l ELSE swept.h
                  [] cfg.invalidation = "ORDER_BLOCK_EXTREME" -> IF up THEN block[1].lo ELSE block[1].hi
                  [] OTHER -> IF up THEN zone.lo ELSE zone.hi
        scale == cfg.unit * cfg.dDen
        buffer == Max({cfg.invTicks * scale, IF atr[i] > 0 THEN cfg.invAtr * atr[i] ELSE 0})
        level == IF up THEN (from * scale - buffer) \div scale
                 ELSE -((-(from * scale + buffer)) \div scale)
        why == IF cfg.invalidation = "ORDER_BLOCK_EXTREME" /\ block = None
               THEN "INVALIDATION_SOURCE_UNAVAILABLE"
               ELSE IF cfg.invAtr > 0 /\ atr[i] <= 0 THEN "ATR_UNAVAILABLE"
               ELSE IF IF up THEN level <= 0 \/ level >= zone.lo ELSE level <= zone.hi
               THEN "INVALIDATION_LEVEL_INVALID" ELSE "NONE"
    IN  [why |-> why, level |-> IF why = "NONE" THEN <<level>> ELSE None]

-----------------------------------------------------------------------------
(* One sweep *)

\* The evidence the callers look up for a sweep: the first shift its way and the
\* first the other way, the shift's leg, the first take of the pool, the gaps.
Shifts(events, dir, sweep) ==
    {n \in 1..Len(events) : events[n].type = "MSS" /\ events[n].dir = dir /\ sweep.ts < events[n].ts}
Legs(legs, dir, mss) ==
    {n \in 1..Len(legs) : legs[n].ref = Ref(mss) /\ legs[n].dir = dir /\ mss.ts < legs[n].end}
Takes(interactions, sweep) ==
    {n \in 1..Len(interactions) :
       interactions[n].type = "TAKEN" /\ interactions[n].pool = sweep.pool /\ sweep.ts < interactions[n].ts}

Gather(cfg, sweep, interactions, events, legs, gaps, dual) ==
    LET dir == SetupDir(sweep)
        shift == FirstAt(events, Shifts(events, dir, sweep))
        mss == IF shift # None /\ shift[1].ts - sweep.ts > Min({cfg.barsToMss, cfg.barsTotal})
               THEN None ELSE shift
        mine == FirstAt(legs, Legs(legs, dir, mss[1]))
        leg == IF mss = None \/ mine = None THEN None
               ELSE IF mine[1].end - mss[1].ts > cfg.barsToLeg \/ mine[1].end - sweep.ts > cfg.barsTotal
               THEN None ELSE mine
    IN  [mss |-> mss, opposite |-> FirstAt(events, Shifts(events, Opposite(dir), sweep)), leg |-> leg,
         taken |-> FirstAt(interactions, Takes(interactions, sweep)),
         gaps |-> IF leg = None THEN << >> ELSE SelectSeq(gaps, LAMBDA z : z.id \in ToSet(leg[1].gaps)),
         dual |-> sweep \in dual]

Setup(sweep, st, at, why) ==
    [sweep |-> sweep, dir |-> SetupDir(sweep), st |-> st, at |-> at, mss |-> None, leg |-> None,
     gap |-> None, block |-> None, zone |-> None, level |-> None, retest |-> 0, why |-> why]

GapOver(gap, i) == GapEndedAt(gap, i + 1)

\* A bar may retest a gap once it opens after the gap's close.  (Mutant: the bar that
\* opens at that close may.)
MutRetestable(gap, i) == i > gap.born
Retestable(gap, i) == i > gap.born + 1

Dead(setup, at, why) == [setup EXCEPT !.st = "INVALIDATED", !.at = at, !.why = why]

\* The entry at bar i, once the gap is retested there.
Enter(found, zone, level, i) ==
    IF zone = None THEN Dead(found, i + 1, "ENTRY_ZONE_UNAVAILABLE")
    ELSE IF level.why # "NONE" THEN Dead(found, i + 1, level.why)
    ELSE [found EXCEPT !.st = "READY", !.at = i + 1, !.zone = zone, !.level = level.level, !.retest = i]

EnterZone(cfg, s, found, zone, i, atr) ==
    Enter(found, zone,
          InvalidationLevel(cfg, found.dir, s[found.sweep.ts], zone[1], found.block, i, atr), i)

EnterAt(cfg, s, found, i, atr) ==
    EnterZone(cfg, s, found, EntryZone(cfg, found.gap[1], found.block), i, atr)

\* The retest loop of _evaluate_sweep: the decision of bar i, None to go on.
Retest(cfg, s, base, ev, gap, blocks, atr, i) ==
    LET found == [base EXCEPT !.gap = <<gap>>]
    IN  IF i - base.sweep.ts > cfg.barsTotal THEN <<Dead(found, i + 1, "SETUP_TOTAL_EXPIRED")>>
        ELSE IF ev.opposite # None /\ ev.opposite[1].ts > ev.mss[1].ts /\ ev.opposite[1].ts <= i
        THEN <<Dead(found, ev.opposite[1].ts + 1, "OPPOSITE_MSS")>>
        ELSE IF GapOver(gap, i) > 0 THEN <<Dead(found, GapOver(gap, i), "FVG_TERMINAL")>>
        ELSE IF i - gap.born > cfg.barsToRetest THEN <<Dead(found, i + 1, "FVG_RETEST_EXPIRED")>>
        ELSE IF ~Retestable(gap, i) \/ ~RetestPasses(cfg, gap, s[i], base.dir) THEN None
        ELSE <<EnterAt(cfg, s, [found EXCEPT !.block = IF NeedsBlock(cfg)
                                                       THEN SelectBlock(blocks, gap, base.dir, i) ELSE None],
                       i, atr)>>

\* A stage that is too old, in the order the code looks.
Stage(cfg, setup, total, stage, why) ==
    IF total > cfg.barsTotal THEN [setup EXCEPT !.st = "INVALIDATED", !.why = "SETUP_TOTAL_EXPIRED"]
    ELSE IF stage THEN [setup EXCEPT !.st = "INVALIDATED", !.why = why] ELSE setup

\* The end of the loop: its first decision, or still waiting.
Waited(cfg, legged, gap, made, n) ==
    IF made # None THEN made[1]
    ELSE Stage(cfg, [legged EXCEPT !.st = "WAITING_RETRACE", !.gap = gap], n - legged.sweep.ts,
               n - gap[1].born > cfg.barsToRetest, "FVG_RETEST_EXPIRED")

RetestLoop(cfg, s, legged, ev, gap, blocks, atr) ==
    LET Decision(i) == Retest(cfg, s, legged, ev, gap[1], blocks, atr, i)
        decided == {i \in gap[1].born + 1 .. Len(s) : Decision(i) # None}
    IN  IF gap = None THEN Dead(legged, ev.leg[1].end + 1, "FVG_UNAVAILABLE")
        ELSE Waited(cfg, legged, gap, OneOf({Decision(i)[1] : i \in FirstOf(decided)}), Len(s))

\* _evaluate_sweep from the shift on.
EvaluateShift(cfg, s, shifted, ev, blocks, atr) ==
    LET n == Len(s)
        legLimit == IF ev.leg = None THEN n + 1 ELSE ev.leg[1].end + 1
    IN  IF ev.opposite # None /\ ev.opposite[1].ts > ev.mss[1].ts /\ ev.opposite[1].ts + 1 <= legLimit
        THEN Dead(shifted, ev.opposite[1].ts + 1, "OPPOSITE_MSS")
        ELSE IF ev.leg = None
        THEN Stage(cfg, shifted, n - shifted.sweep.ts, n - ev.mss[1].ts > cfg.barsToLeg,
                   "DISPLACEMENT_STAGE_EXPIRED")
        ELSE RetestLoop(cfg, s, [shifted EXCEPT !.leg = ev.leg], ev,
                        SelectGap(cfg, ev.gaps, ev.leg[1], ev.mss[1], s[ev.mss[1].ts].c), blocks, atr)

\* _evaluate_sweep
EvaluateSweep(cfg, s, sweep, ev, blocks, atr) ==
    LET n == Len(s)
        forming == Setup(sweep, "FORMING", n + 1, "NONE")
        limit == IF ev.mss = None THEN n + 1 ELSE ev.mss[1].ts + 1
        taken == ev.taken # None /\ ev.taken[1].ts + 1 <= limit
        against == ev.opposite # None /\ ev.opposite[1].ts + 1 <= limit
    IN  IF ev.dual /\ ~cfg.dualAllowed THEN Dead(forming, sweep.ts + 1, "DUAL_SWEEP_REJECTED")
        ELSE IF taken /\ (against => ev.taken[1].ts <= ev.opposite[1].ts)
        THEN Dead(forming, ev.taken[1].ts + 1, "LIQUIDITY_TAKEN_BEFORE_MSS")
        ELSE IF against THEN Dead(forming, ev.opposite[1].ts + 1, "OPPOSITE_MSS")
        ELSE IF ev.mss = None
        THEN Stage(cfg, forming, n - sweep.ts, n - sweep.ts > cfg.barsToMss, "MSS_STAGE_EXPIRED")
        ELSE EvaluateShift(cfg, s, [forming EXCEPT !.mss = ev.mss], ev, blocks, atr)

DualIds(dual) == UNION {ToSet(dual[n].buy) \cup ToSet(dual[n].sell) : n \in 1..Len(dual)}

\* detect_high_probability_entry_setups; the setups in the order of the sweeps.
AnalyzeEntries(cfg, s, liq, events, legs, gaps, blocks, atr) ==
    LET sweeps == SelectSeq(liq.interactions, IsSweep)
        Evidence(w) == Gather(cfg, w, liq.interactions, events, legs, gaps, DualIds(liq.dual))
    IN  [n \in 1..Len(sweeps) |-> EvaluateSweep(cfg, s, sweeps[n], Evidence(sweeps[n]), blocks, atr)]

-----------------------------------------------------------------------------
(* The hot state *)

\* zones are the gaps as last seen; results, sched (0: no deadline) and deps are
\* functions of sweeps and of gap ids; seen counts what was consumed.
EmptyEntries ==
    [n |-> 0, interactions |-> << >>, events |-> << >>, legs |-> << >>, zones |-> << >>, hot |-> {},
     dual |-> {}, results |-> << >>, pending |-> {}, clock |-> {}, sched |-> << >>, deps |-> << >>]

ClockReasons == {"SETUP_TOTAL_EXPIRED", "MSS_STAGE_EXPIRED", "DISPLACEMENT_STAGE_EXPIRED"}

\* The clock-only sweeps that new evidence wakes.
WokenByTaken(st, e) ==
    {w \in st.clock : w.pool = e.pool /\ (st.results[w].mss = None \/ e.ts <= st.results[w].mss[1].ts)}
WokenByShift(cfg, st, e) ==
    {w \in st.clock :
       /\ e.ts > w.ts
       /\ \/ e.dir # st.results[w].dir
          \/ st.results[w].mss = None /\ e.ts - w.ts <= Min({cfg.barsToMss, cfg.barsTotal})}
WokenByLeg(st, l) ==
    {w \in st.clock : st.results[w].mss # None /\ Ref(st.results[w].mss[1]) = l.ref}
Dependents(st, id) == IF id \in DOMAIN st.deps THEN st.deps[id] ELSE {}

\* _advance's dirty set, for the deltas it was given.  (Mutant: deadlines do not
\* wake anyone.)
MutDue(st, n) == {}
Due(st, n) == {w \in DOMAIN st.sched : st.sched[w] # 0 /\ st.sched[w] <= n}

Dirty(cfg, st, n, newInter, newEvents, newLegs, changed, dual) ==
    LET known == ToSet(st.interactions \o newInter)
    IN  st.pending \cup Due(st, n)
        \cup {e \in ToSet(newInter) : IsSweep(e)}
        \cup UNION {WokenByTaken(st, e) : e \in {x \in ToSet(newInter) : x.type = "TAKEN"}}
        \cup UNION {WokenByShift(cfg, st, e) : e \in {x \in ToSet(newEvents) : x.type = "MSS"}}
        \cup UNION {WokenByLeg(st, l) : l \in ToSet(newLegs)}
        \cup (((dual \cup st.dual) \ (dual \cap st.dual)) \cap known)
        \cup UNION {Dependents(st, z.id) : z \in changed}

\* When a clock-only sweep is to be looked at again, 0 for never.
Deadline(cfg, result, n) ==
    LET total == result.sweep.ts + cfg.barsTotal + 1
        stage == IF result.mss = None THEN result.sweep.ts + cfg.barsToMss + 1
                 ELSE result.mss[1].ts + cfg.barsToLeg + 1
    IN  IF result.st = "FORMING" THEN Min({total, stage})
        ELSE IF n < total THEN total ELSE 0

ClockOnly(result) == result.gap = None /\ (result.st = "FORMING" \/ result.why \in ClockReasons)

\* _evaluate_owned: what the owned detectors added or changed since the last call.
\* moved are the places of the gaps that differ from the ones last seen.
Deltas(st, liq, events, legs, gaps, live) ==
    LET looked == {k \in 1..Len(gaps) : k > Len(st.zones) \/ k \in st.hot \cup live}
    IN  [inter |-> SubSeq(liq.interactions, Len(st.interactions) + 1, Len(liq.interactions)),
         events |-> SubSeq(events, Len(st.events) + 1, Len(events)),
         legs |-> SelectSeq(legs, LAMBDA l : l.end + 1 > st.n + 1),
         moved |-> {k \in looked : k > Len(st.zones) \/ st.zones[k] # gaps[k]}]

\* _advance: the dirty sweeps judged by the shared rule, subscriptions and deadlines
\* renewed.
Consume(st, new, gaps, dual, n) ==
    [st EXCEPT !.n = n, !.dual = dual,
               !.interactions = @ \o new.inter, !.events = @ \o new.events, !.legs = @ \o new.legs,
               !.zones = Each(Len(gaps), LAMBDA k : IF k \in new.moved THEN gaps[k] ELSE st.zones[k]),
               !.hot = {k \in @ \cup new.moved : gaps[k].st \notin GapTerminalStates}]

Judged(cfg, st, s, dirty, atr) ==
    [w \in dirty |-> EvaluateSweep(cfg, s, w, Gather(cfg, w, st.interactions, st.events, st.legs, st.zones,
                                                     st.dual), << >>, atr)]

LinksOf(r) == IF r.leg = None THEN {} ELSE ToSet(r.leg[1].gaps)
Subscribe(st) ==
    [st EXCEPT !.deps = [id \in UNION {LinksOf(st.results[w]) : w \in DOMAIN st.results} |->
                           {w \in DOMAIN st.results : id \in LinksOf(st.results[w])}]]

\* The clock-only sweeps that were not judged only move to the new cutoff.
Renew(cfg, st, dirty, judged) ==
    LET sweeps == DOMAIN st.results \cup dirty
        timed == {w \in dirty : ClockOnly(judged[w])}
    IN  [st EXCEPT !.results = [w \in sweeps |-> IF w \in dirty THEN judged[w]
                                                 ELSE IF w \in st.clock THEN [@[w] EXCEPT !.at = st.n + 1]
                                                 ELSE @[w]],
                   !.pending = (@ \ dirty) \cup {w \in dirty : judged[w].st = "WAITING_RETRACE"},
                   !.clock = (@ \ dirty) \cup timed,
                   !.sched = [w \in sweeps |-> IF w \in timed THEN Deadline(cfg, judged[w], st.n)
                                               ELSE IF w \in dirty THEN 0 ELSE @[w]]]

JudgeDirty(cfg, st, s, dirty, atr) == Subscribe(Renew(cfg, st, dirty, Judged(cfg, st, s, dirty, atr)))

AdvanceEntries(cfg, st, s, new, gaps, dual, atr) ==
    JudgeDirty(cfg, Consume(st, new, gaps, dual, Len(s)), s,
               Dirty(cfg, st, Len(s), new.inter, new.events, new.legs, {gaps[k] : k \in new.moved}, dual), atr)

EntriesFrom(cfg, st, s, liq, events, legs, gaps, live, atr) ==
    AdvanceEntries(cfg, st, s, Deltas(st, liq, events, legs, gaps, live), gaps, DualIds(liq.dual), atr)

AppendEntries(cfg, st, s, extends, liq, events, legs, gaps, live, atr) ==
    EntriesFrom(cfg, IF extends THEN st ELSE EmptyEntries, s, liq, events, legs, gaps, live, atr)

EntriesResult(st) ==
    LET sweeps == SelectSeq(st.interactions, IsSweep) IN Each(Len(sweeps), LAMBDA n : st.results[sweeps[n]])

\* CompositeEntrySetup.validate_setup
ValidSetup(setup) ==
    /\ setup.st = "WAITING_RETRACE" => setup.gap # None
    /\ setup.st = "READY" =>
         /\ setup.mss # None /\ setup.leg # None /\ setup.gap # None /\ setup.retest > 0
         /\ IF setup.dir = "BULLISH" THEN setup.level[1] < setup.zone[1].lo
            ELSE setup.level[1] > setup.zone[1].hi
    /\ setup.st # "READY" => setup.zone = None /\ setup.level = None
===============================================================================
