------------------------------- MODULE Liquidity -------------------------------
(***************************************************************************)
(* Liquidity pools: single-swing and clustered pools, the touches, sweeps    *)
(* and takes of a candle, expiry and the pools' histories.  The reference    *)
(* detector (engines/structure/liquidity.py) schedules pools through an      *)
(* index by reach and age; the append-only one (_LiquidityState,             *)
(* HotLiquidityState) walks the active pools and re-projects the changed.    *)
(*                                                                         *)
(* swings are confirmed swings as MarketStructure makes them; atr as in      *)
(* FairValueGaps.                                                          *)
(***************************************************************************)
EXTENDS Series

PoolTerminal == {"TAKEN", "EXPIRED"}
Side(w) == IF w.kind = "HIGH" THEN "BUY" ELSE "SELL"
Prices(members) == {members[n].price : n \in 1..Len(members)}

\* _record_history: the pool as it now is, stamped with when that is known.
RecordHistory(pool, ev, at, event) ==
    [pool EXCEPT !.history = Append(@, [ev |-> ev, at |-> at, formation |-> pool.formation,
        lo |-> pool.lo, hi |-> pool.hi, st |-> pool.st, reason |-> pool.reason,
        members |-> pool.members, swept |-> pool.swept, event |-> event])]

NewPool(id, dir, formation, level, lo, hi, members, born) ==
    RecordHistory([id |-> id, dir |-> dir, formation |-> formation, level |-> level,
                   lo |-> lo, hi |-> hi, created |-> Last(members).at, born |-> born,
                   members |-> members, st |-> "ACTIVE", reason |-> "NONE", swept |-> 0,
                   upd |-> Last(members).at, interactions |-> << >>, history |-> << >>],
                  "CREATED", Last(members).at, << >>)

\* _new_single_pool
SinglePool(cfg, w, born) ==
    NewPool(<<"SWING", Side(w), w.pivot, w.pivot>>, Side(w), "SWING", w.price,
            w.price - cfg.halfWidth, w.price + cfg.halfWidth, <<w>>, born)

\* _membership: how a swing belongs to a cluster.
Membership(cfg, cluster, w, atr) ==
    LET far == IF w.price > cluster.anchor THEN w.price - cluster.anchor
               ELSE cluster.anchor - w.price
    IN  IF far <= cfg.equalTicks THEN "EQUAL"
        ELSE IF atr > 0 /\ far * cfg.unit * cfg.relDen <= cfg.relNum * atr THEN "RELATIVE_EQUAL"
        ELSE "NONE"

\* _update_cluster_pool for a cluster that has enough members.
ClusterPool(cfg, cluster, born) ==
    NewPool(<<"CLUSTER", cluster.dir, Head(cluster.members).pivot, Last(cluster.members).pivot>>,
            cluster.dir, IF cluster.rel THEN "RELATIVE_EQUAL" ELSE "EQUAL", cluster.anchor,
            Min(Prices(cluster.members)) - cfg.clusterPad,
            Max(Prices(cluster.members)) + cfg.clusterPad, cluster.members, born)

WidenPool(cfg, pool, cluster) ==
    RecordHistory([pool EXCEPT !.formation = IF cluster.rel THEN "RELATIVE_EQUAL" ELSE "EQUAL",
                               !.lo = Min(Prices(cluster.members)) - cfg.clusterPad,
                               !.hi = Max(Prices(cluster.members)) + cfg.clusterPad,
                               !.members = cluster.members, !.upd = Last(cluster.members).at],
                  "MEMBERS_UPDATED", Last(cluster.members).at, << >>)

\* _matching_cluster_entry: the live clusters of the swing's side that it belongs to.
Matching(cfg, st, w, atr) ==
    {c \in 1..Len(st.clusters) :
        /\ st.clusters[c].dir = Side(w)
        /\ st.clusters[c].pool = 0 \/ st.pools[st.clusters[c].pool].st \notin PoolTerminal
        /\ Membership(cfg, st.clusters[c], w, atr) # "NONE"}

\* consume_swing: a pool of its own, then the oldest live cluster it belongs to.
ConsumeSwing(cfg, st0, w, atr) ==
    LET born == w.at - 1
        st == IF cfg.single THEN [st0 EXCEPT !.pools = Append(@, SinglePool(cfg, w, born))] ELSE st0
        fits == Matching(cfg, st, w, atr[born])
        c == Min(fits)
        joined == [st.clusters[c] EXCEPT
                     !.members = Append(@, w),
                     !.rel = @ \/ Membership(cfg, st.clusters[c], w, atr[born]) = "RELATIVE_EQUAL"]
    IN  IF fits = {}
        THEN [st EXCEPT !.clusters = Append(@, [dir |-> Side(w), anchor |-> w.price,
                                                members |-> <<w>>, rel |-> FALSE, pool |-> 0])]
        ELSE IF Len(joined.members) < cfg.minTouches THEN [st EXCEPT !.clusters[c] = joined]
        ELSE IF joined.pool = 0
        THEN [st EXCEPT !.pools = Append(@, ClusterPool(cfg, joined, born)),
                        !.clusters[c] = [joined EXCEPT !.pool = Len(st.pools) + 1]]
        ELSE [st EXCEPT !.pools[joined.pool] = WidenPool(cfg, @, joined), !.clusters[c] = joined]

ConsumeUpTo(cfg, st, swings, atr, t) ==
    LET due == SelectSeq(SubSeq(swings, st.next + 1, Len(swings)), LAMBDA w : w.at <= t)
    IN  FoldLeft(LAMBDA acc, w : [ConsumeSwing(cfg, acc, w, atr) EXCEPT !.next = @ + 1], st, due)

-----------------------------------------------------------------------------
\* _process_interaction: what candle i does to a pool it may meet.
Interaction(cfg, pool, bar, i) ==
    LET buy == pool.dir = "BUY"
        taken == IF buy THEN bar.c > pool.hi + cfg.takenBuffer ELSE bar.c < pool.lo - cfg.takenBuffer
        sweep == IF buy THEN bar.h > pool.hi + cfg.penetration /\ bar.c <= pool.hi
                 ELSE bar.l < pool.lo - cfg.penetration /\ bar.c >= pool.lo
        touch == IF buy THEN bar.h >= pool.lo ELSE bar.l <= pool.hi
    IN  IF pool.st \in PoolTerminal \/ pool.created > i THEN "NONE"
        ELSE IF taken THEN "TAKEN"
        ELSE IF sweep /\ pool.st = "ACTIVE" THEN "SWEEP"
        ELSE IF touch THEN "TOUCH" ELSE "NONE"

Interacted(pool, what, i) ==
    LET event == [type |-> what, dir |-> pool.dir, pool |-> pool.id, ts |-> i,
                  swept |-> IF what = "SWEEP" THEN i + 1 ELSE 0]
        hit == [pool EXCEPT !.upd = i + 1, !.interactions = Append(@, event),
                            !.st = CASE what = "TAKEN" -> "TAKEN" [] what = "SWEEP" -> "SWEPT"
                                     [] OTHER -> pool.st,
                            !.reason = IF what = "TAKEN" THEN "CLOSE_THROUGH" ELSE @,
                            !.swept = IF what = "SWEEP" THEN i + 1 ELSE @]
    IN  RecordHistory(hit, what, i + 1, <<event>>)

\* The age check that follows the interaction.
Aged(cfg, pool, i) ==
    IF pool.st \notin PoolTerminal /\ i - pool.born > cfg.poolAge
    THEN RecordHistory([pool EXCEPT !.st = "EXPIRED", !.reason = "MAX_AGE", !.upd = i + 1],
                       "EXPIRED", i + 1, << >>)
    ELSE pool

\* _interaction_reach and _PoolReachIndex.selected: the price side of the index.
Reachable(cfg, pool, bar) ==
    IF pool.dir = "BUY"
    THEN Min({pool.lo, pool.hi + cfg.takenBuffer, pool.hi + cfg.penetration}) <= bar.h
    ELSE Max({pool.hi, pool.lo - cfg.takenBuffer, pool.lo - cfg.penetration}) >= bar.l

NoLiquidity == [pools |-> << >>, clusters |-> << >>, interactions |-> << >>, dual |-> << >>, next |-> 0]

\* The interactions of one bar, over the pools in the order of the archive; a dual
\* sweep is recorded; then the pools age.
WhatMeets(cfg, pool, bar, i, indexed) ==
    IF indexed /\ ~Reachable(cfg, pool, bar) THEN "NONE" ELSE Interaction(cfg, pool, bar, i)
Meet(pool, what, i) == IF what = "NONE" THEN pool ELSE Interacted(pool, what, i)

RecordEvents(st, events, i) ==
    LET Swept(dir) == SelectSeq(events, LAMBDA e : e.type = "SWEEP" /\ e.dir = dir)
    IN  [st EXCEPT !.interactions = @ \o events,
                   !.dual = IF Swept("BUY") # << >> /\ Swept("SELL") # << >>
                            THEN Append(@, [ts |-> i, buy |-> Swept("BUY"), sell |-> Swept("SELL")])
                            ELSE @]
AgePools(cfg, st, i) == [st EXCEPT !.pools = Each(Len(@), LAMBDA n : Aged(cfg, st.pools[n], i))]

MetPools(cfg, st, pools, i) ==
    LET met == SelectSeq(From(1, Len(pools)), LAMBDA n : Len(pools[n].interactions) > Len(st.pools[n].interactions))
    IN  AgePools(cfg, RecordEvents([st EXCEPT !.pools = pools],
                                   Each(Len(met), LAMBDA k : Last(pools[met[k]].interactions)), i), i)

MeetPools(cfg, st, bar, i, indexed) ==
    MetPools(cfg, st, Each(Len(st.pools), LAMBDA n :
                         Meet(st.pools[n], WhatMeets(cfg, st.pools[n], bar, i, indexed), i)), i)

\* One bar: swings known at its open, interactions, swings known at its close.
LiquidityBar(cfg, st, s, swings, atr, i, indexed) ==
    ConsumeUpTo(cfg, MeetPools(cfg, ConsumeUpTo(cfg, st, swings, atr, i), s[i], i, indexed),
                swings, atr, i + 1)

Exposed(st) == [pools |-> st.pools, interactions |-> st.interactions, dual |-> st.dual]

\* analyze_liquidity
AnalyzeLiquidity(cfg, s, swings, atr) ==
    LET usable == SelectSeq(swings, LAMBDA w : w.at <= Len(s) + 1)
    IN  Exposed(FoldLeft(LAMBDA st, i : LiquidityBar(cfg, st, s, usable, atr, i, TRUE),
                         NoLiquidity, From(1, Len(s))))

-----------------------------------------------------------------------------
(* The append-only detector *)

EmptyLiquidity == [live |-> NoLiquidity, projections |-> << >>]

\* append and _after_bar: a pool that was active in this bar is projected again
\* when its history has grown.
ProjectPools(st, live) ==
    LET Active(n) == n > Len(st.live.pools) \/ st.live.pools[n].st \notin PoolTerminal
        Stale(n) == Active(n) /\ (n > Len(st.projections)
                                  \/ Len(st.projections[n].history) # Len(live.pools[n].history))
    IN  [live |-> live,
         projections |-> Each(Len(live.pools), LAMBDA n :
                            IF Stale(n) THEN live.pools[n] ELSE st.projections[n])]

AppendLiquidity(cfg, st, s, swings, atr, i) ==
    ProjectPools(st, LiquidityBar(cfg, st.live, s, swings, atr, i, FALSE))

LiquidityResult(st) == [Exposed(st.live) EXCEPT !.pools = st.projections]

-----------------------------------------------------------------------------
\* LiquidityPool.validate_pool, LiquidityPoolHistoryEntry.validate_history_entry
\* and LiquidityInteraction.validate_times.
ValidPool(pool) ==
    LET h == pool.history
    IN  /\ pool.lo > 0 /\ pool.lo <= pool.hi
        /\ pool.members # << >>
        /\ pool.st = "SWEPT" => pool.swept > 0
        /\ h # << >> /\ Head(h).ev = "CREATED" /\ Head(h).at = pool.created
        /\ \A n \in 2..Len(h) : h[n].at >= h[n - 1].at
        /\ \A n \in 1..Len(h) : \A m \in 1..Len(h[n].members) : h[n].members[m].at <= h[n].at
        /\ <<Last(h).formation, Last(h).lo, Last(h).hi, Last(h).st, Last(h).reason,
             Last(h).members, Last(h).swept, Last(h).at>>
           = <<pool.formation, pool.lo, pool.hi, pool.st, pool.reason,
               pool.members, pool.swept, pool.upd>>

\* LiquidityPool.snapshot_at: the pool as it was known at the cutoff, a sequence
\* of none or one.
SnapshotAt(pool, cutoff) ==
    LET visible == SelectSeq(pool.history, LAMBDA e : e.at <= cutoff)
        latest == Last(visible)
    IN  IF visible = << >> THEN << >>
        ELSE <<[pool EXCEPT !.formation = latest.formation, !.lo = latest.lo, !.hi = latest.hi,
                  !.st = latest.st, !.reason = latest.reason, !.upd = latest.at,
                  !.swept = latest.swept, !.members = latest.members,
                  !.interactions = SelectSeq(@, LAMBDA e : e.ts + 1 <= cutoff),
                  !.history = visible]>>
===============================================================================
