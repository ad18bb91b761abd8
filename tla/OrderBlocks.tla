------------------------------ MODULE OrderBlocks ------------------------------
(***************************************************************************)
(* Order blocks and breaker blocks: the last opposite candle before a        *)
(* structure break, its validation, mitigation, invalidation and expiry, and *)
(* the breaker an invalidated block becomes.  The reference detector         *)
(* (engines/smc/order_blocks.py) and the append-only one                     *)
(* (_OrderBlockIncrementalState, HotOrderBlockState), which the engine uses  *)
(* only when neither displacement nor breakers are asked for.               *)
(***************************************************************************)
EXTENDS Liquidity, Displacement

ObTerminal == {"INVALIDATED", "EXPIRED"}
Opposite(dir) == IF dir = "BULLISH" THEN "BEARISH" ELSE "BULLISH"
Body(bar) == IF bar.c > bar.o THEN bar.c - bar.o ELSE bar.o - bar.c

-----------------------------------------------------------------------------
(* The origin candle *)

\* _context_for_candidate: the swing and the pools near candle j, as they were
\* known at its open.
KnownPool(pool, t) == SnapshotAt(pool, t)

Contexts(dir, bar, j, swings, pools) ==
    LET probe == IF dir = "BULLISH" THEN bar.l ELSE bar.h
        kind == IF dir = "BULLISH" THEN "LOW" ELSE "HIGH"
        side == IF dir = "BULLISH" THEN "SELL" ELSE "BUY"
        Dist(x, y) == IF x > y THEN x - y ELSE y - x
        Gap(lo, hi) == IF probe < lo THEN lo - probe ELSE IF probe > hi THEN probe - hi ELSE 0
        known == SelectSeq(swings, LAMBDA w : w.kind = kind /\ w.at <= j)
        seen == {KnownPool(pools[n], j) : n \in 1..Len(pools)} \ {<< >>}
        live == {p[1] : p \in {q \in seen : q[1].dir = side /\ q[1].st \notin PoolTerminal}}
    IN  (IF known = << >> THEN {} ELSE {[far |-> Dist(probe, Last(known).price),
                                         of |-> <<"SWING", kind, Last(known).pivot>>]})
        \cup {[far |-> Gap(p.lo, p.hi), of |-> p.id] : p \in live}

\* The references that are nearest and near enough; {"NONE"} stands for no
\* context where one is required.
Nearest(contexts) ==
    IF contexts = {} THEN {"NONE"}
    ELSE {x.of : x \in {y \in contexts : \A z \in contexts : y.far <= z.far}}

ContextOf(cfg, dir, bar, j, swings, pools, atr) ==
    LET known == j > 1 /\ atr[j - 1] >= 0
        reach == Max({cfg.obNear * cfg.unit * cfg.dDen, IF known THEN cfg.obNearAtr * atr[j - 1] ELSE 0})
    IN  IF ~cfg.obContext THEN {}
        ELSE IF cfg.obNearAtr > 0 /\ ~known THEN {"NONE"}
        ELSE Nearest({x \in Contexts(dir, bar, j, swings, pools) : x.far * cfg.unit * cfg.dDen <= reach})

\* _select_candidate: none or one, the best by the rank policy.
BestOrigin(cfg, dir, s, fits) ==
    LET Extreme(j) == IF dir = "BULLISH" THEN s[j].l ELSE -s[j].h
        Rank(j) == IF cfg.obRank = "EXTREME_THEN_BODY" THEN <<Extreme(j), -Body(s[j]), -j>>
                   ELSE <<-Body(s[j]), Extreme(j), -j>>
        Before(a, b) == \/ a[1] < b[1]
                        \/ a[1] = b[1] /\ a[2] < b[2]
                        \/ a[1] = b[1] /\ a[2] = b[2] /\ a[3] <= b[3]
    IN  IF fits = {} THEN << >>
        ELSE <<CHOOSE j \in fits : \A k \in fits : Before(Rank(j), Rank(k))>>

SelectOrigin(cfg, dir, broke, s, swings, pools, atr) ==
    LET Against(j) == IF dir = "BULLISH" THEN s[j].c < s[j].o ELSE s[j].c > s[j].o
    IN  BestOrigin(cfg, dir, s, {j \in Max({1, broke - cfg.obLookback}) .. broke - 1 :
                       Against(j) /\ ContextOf(cfg, dir, s[j], j, swings, pools, atr) # {"NONE"}})

-----------------------------------------------------------------------------
(* Creation *)

\* _append_ob_event and _append_breaker_event
ObEvent(zone, ev, i, to) ==
    [zone EXCEPT !.st = to,
                 !.log = Append(@, [ev |-> ev, at |-> i + 1, from |-> zone.st, to |-> to])]

\* _new_order_block; the mean threshold is kept doubled.
NewBlock(cfg, e, j, s, context, created, disp) ==
    LET bar == s[j]
        body == cfg.obBasis = "BODY"
    IN  [id |-> Ref(e), dir |-> e.dir, origin |-> j, oh |-> bar.h, ol |-> bar.l,
         lo |-> IF body THEN Min({bar.o, bar.c}) ELSE bar.l,
         hi |-> IF body THEN Max({bar.o, bar.c}) ELSE bar.h,
         mean2 |-> bar.o + bar.c, born |-> created - 1, disp |-> disp, context |-> context,
         st |-> "CANDIDATE", validated |-> 0, mitigated |-> 0, invalidated |-> 0, breaker |-> FALSE,
         log |-> <<[ev |-> "CREATED", at |-> created, from |-> "NONE", to |-> "CANDIDATE"]>>]

\* The creation loop for one event: a block or a rejection.
CreateAt(cfg, s, e, mine, origin, swings, pools, atr) ==
    LET first == Min({l.at : l \in ToSet(mine)})
        created == IF cfg.obDisp THEN Max({e.ts + 1, first}) ELSE e.ts + 1
    IN  IF cfg.obDisp /\ mine = << >> THEN [rejected |-> "DISPLACEMENT_REQUIRED", ref |-> Ref(e)]
        ELSE IF origin = << >> THEN [rejected |-> "OB_NO_CANDIDATE", ref |-> Ref(e)]
        ELSE NewBlock(cfg, e, origin[1], s,
                      ContextOf(cfg, e.dir, s[origin[1]], origin[1], swings, pools, atr),
                      created, mine # << >> /\ first <= created)

Create(cfg, s, e, links, swings, pools, atr) ==
    CreateAt(cfg, s, e, SelectSeq(links, LAMBDA l : l.ref = Ref(e) /\ l.at <= Len(s) + 1),
             SelectOrigin(cfg, e.dir, e.ts, s, swings, pools, atr), swings, pools, atr)

-----------------------------------------------------------------------------
(* Lifecycle *)

\* _validation_passes, _hard_invalidation, _midpoint_holds
Validates(cfg, zone, bar) ==
    IF zone.dir = "BULLISH" THEN bar.h > zone.oh + cfg.obValBuffer ELSE bar.l < zone.ol - cfg.obValBuffer
Broken(cfg, zone, bar) ==
    IF zone.dir = "BULLISH"
    THEN (IF cfg.obInvBasis = "CLOSE" THEN bar.c ELSE bar.l) < zone.lo - cfg.obInvBuffer
    ELSE (IF cfg.obInvBasis = "CLOSE" THEN bar.c ELSE bar.h) > zone.hi + cfg.obInvBuffer
MidpointHolds(cfg, zone, bar) ==
    \/ ~cfg.obMid
    \/ IF zone.dir = "BULLISH"
       THEN 2 * (IF cfg.obMidBasis = "CLOSE" THEN bar.c ELSE bar.l) >= zone.mean2
       ELSE 2 * (IF cfg.obMidBasis = "CLOSE" THEN bar.c ELSE bar.h) <= zone.mean2
Overlaps(zone, bar) == bar.l <= zone.hi /\ bar.h >= zone.lo

\* One bar of a block's life.  validated is the close of the validating bar, so
\* the bar that opens then is skipped too.
BlockBar(cfg, zone, bar, i) ==
    LET vbar == zone.validated - 1
        mitigated == IF zone.st = "VALIDATED" /\ Overlaps(zone, bar) /\ MidpointHolds(cfg, zone, bar)
                     THEN [ObEvent(zone, "MITIGATED", i, "MITIGATED") EXCEPT !.mitigated = i + 1]
                     ELSE zone
    IN  IF i < zone.born \/ zone.st \in ObTerminal THEN zone
        ELSE IF zone.st = "CANDIDATE"
        THEN IF Validates(cfg, zone, bar)
             THEN [ObEvent(zone, "VALIDATED", i, "VALIDATED") EXCEPT !.validated = i + 1]
             ELSE IF i - zone.born + 1 >= cfg.obValBars THEN ObEvent(zone, "EXPIRED", i, "EXPIRED")
             ELSE zone
        ELSE IF i <= zone.validated THEN zone
        ELSE IF Broken(cfg, zone, bar)
        THEN [ObEvent(zone, "INVALIDATED", i, "INVALIDATED") EXCEPT
                !.invalidated = i + 1, !.breaker = cfg.breaker]
        ELSE IF i - vbar > cfg.obAge THEN ObEvent(mitigated, "EXPIRED", i, "EXPIRED")
        ELSE mitigated

\* _new_breaker
NewBreaker(zone, i) ==
    [of |-> zone.id, dir |-> Opposite(zone.dir), lo |-> zone.lo, hi |-> zone.hi, mean2 |-> zone.mean2,
     born |-> i, st |-> "CANDIDATE", activated |-> 0, invalidated |-> 0,
     log |-> <<[ev |-> "CREATED", at |-> i + 1, from |-> "NONE", to |-> "CANDIDATE"]>>]

\* One bar of a breaker's life.
BreakerBar(cfg, b, bar, i) ==
    LET active == Overlaps(b, bar) /\ (IF b.dir = "BULLISH" THEN bar.c > b.hi ELSE bar.c < b.lo)
    IN  IF b.st \in ObTerminal \/ i <= b.born THEN b
        ELSE IF b.st = "CANDIDATE"
        THEN IF active THEN [ObEvent(b, "ACTIVATED", i, "ACTIVE") EXCEPT !.activated = i + 1]
             ELSE IF i - b.born > cfg.breakerBars THEN ObEvent(b, "EXPIRED", i, "EXPIRED") ELSE b
        ELSE IF i > b.activated - 1 /\ Broken(cfg, b, bar)
        THEN [ObEvent(b, "INVALIDATED", i, "INVALIDATED") EXCEPT !.invalidated = i + 1]
        ELSE b

\* Every block and then every breaker, those this bar makes included.
BreakersBar(cfg, st, bar, i) ==
    [st EXCEPT !.breakers = Each(Len(@), LAMBDA n : BreakerBar(cfg, st.breakers[n], bar, i))]
JoinBreakers(st, zones, i) ==
    LET fell == SelectSeq(From(1, Len(zones)), LAMBDA n : zones[n].breaker /\ ~st.zones[n].breaker)
    IN  [st EXCEPT !.zones = zones,
                   !.breakers = @ \o Each(Len(fell), LAMBDA k : NewBreaker(zones[fell[k]], i))]
BlocksBar(cfg, st, s, i) ==
    BreakersBar(cfg, JoinBreakers(st, Each(Len(st.zones), LAMBDA n : BlockBar(cfg, st.zones[n], s[i], i)), i),
                s[i], i)

Created(made) ==
    [zones |-> SelectSeq(made, LAMBDA r : "id" \in DOMAIN r), breakers |-> << >>,
     rejections |-> SelectSeq(made, LAMBDA r : "rejected" \in DOMAIN r)]

CreateAll(cfg, s, events, links, swings, pools, atr) ==
    Created(Each(Len(events), LAMBDA n : Create(cfg, s, events[n], links, swings, pools, atr)))

\* analyze_order_blocks
AnalyzeBlocks(cfg, s, events, links, swings, pools, atr) ==
    FoldLeft(LAMBDA st, i : BlocksBar(cfg, st, s, i),
             CreateAll(cfg, s, events, links, swings, pools, atr),
             From(1, Len(s)))

-----------------------------------------------------------------------------
(* The append-only detector *)

EmptyBlocks == [live |-> [zones |-> << >>, breakers |-> << >>, rejections |-> << >>],
                projections |-> << >>, events |-> << >>]

BlockVersion(zone) ==
    <<zone.st, zone.validated, zone.mitigated, zone.invalidated, zone.breaker, Len(zone.log)>>

\* append: blocks for the events not seen before, then the bars from..Len(s), each
\* followed by _after_bar.  A reset here forgets the bars too, so all are replayed.
NewEvents(st, events) == SubSeq(events, Len(st.events) + 1, Len(events))

Project(live, projections) ==
    Each(Len(live.zones), LAMBDA n :
        IF n > Len(projections) \/ (projections[n].st \notin ObTerminal
                                    /\ BlockVersion(projections[n]) # BlockVersion(live.zones[n]))
        THEN live.zones[n] ELSE projections[n])

JoinBlocks(st, made) ==
    [live |-> [zones |-> st.live.zones \o made.zones, breakers |-> st.live.breakers,
               rejections |-> st.live.rejections \o made.rejections], projections |-> st.projections]
AfterBlocksBar(acc, live) == [live |-> live, projections |-> Project(live, acc.projections)]
ReplayBlocks(cfg, st, s, bars) ==
    FoldLeft(LAMBDA acc, i : AfterBlocksBar(acc, BlocksBar(cfg, acc.live, s, i)), st, bars)

ExtendBlocks(cfg, st, s, from, events, links, swings, pools, atr) ==
    ReplayBlocks(cfg, JoinBlocks(st, CreateAll(cfg, s, NewEvents(st, events), links, swings, pools, atr)),
                 s, From(from, Len(s)))

Consumed(end, events) == [live |-> end.live, projections |-> end.projections, events |-> events]

AppendBlocks(cfg, st, s, from, events, links, swings, pools, atr) ==
    LET same == IsPrefix(st.events, events)
    IN  Consumed(ExtendBlocks(cfg, IF same THEN st ELSE EmptyBlocks, s, IF same THEN from ELSE 1, events,
                              links, swings, pools, atr), events)

BlocksResult(st) == [st.live EXCEPT !.zones = st.projections]

\* The engine's seam: the modes in which a late displacement could create a
\* block it has already rejected stay with the reference.
HotBlocks(cfg) == ~(cfg.obDisp \/ cfg.breaker)

-----------------------------------------------------------------------------
\* OrderBlockZone.validate_zone and BreakerBlockZone.validate_zone
ValidBlock(zone) ==
    /\ zone.lo > 0 /\ zone.lo < zone.hi
    /\ 2 * zone.lo <= zone.mean2 /\ zone.mean2 <= 2 * zone.hi
    /\ zone.st \in {"VALIDATED", "MITIGATED", "INVALIDATED"} => zone.validated > 0
    /\ zone.st = "MITIGATED" => zone.mitigated > 0
    /\ zone.st = "INVALIDATED" => zone.invalidated > 0
ValidBreaker(b) ==
    /\ b.lo < b.hi /\ 2 * b.lo <= b.mean2 /\ b.mean2 <= 2 * b.hi
    /\ b.st = "ACTIVE" => b.activated > 0
    /\ b.st = "INVALIDATED" => b.invalidated > 0
===============================================================================
