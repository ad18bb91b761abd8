---------------------------- MODULE MarketStructure ----------------------------
(***************************************************************************)
(* Swing points, support and resistance zones, trend and structure breaks:  *)
(* the reference detector (engines/structure/primitives.py) as operators    *)
(* over a candle series, and the append-only detector of the replay engine  *)
(* (incremental_strategy_engine.py, hot_structure.py) as a step function.   *)
(*                                                                         *)
(* A price is a number of ticks.  Candle i opens at time i and closes at    *)
(* time i + 1.  A swing is known by its kind and its pivot.                 *)
(***************************************************************************)
EXTENDS Series

SwingKinds == <<"HIGH", "LOW">>
Abs(x) == IF x < 0 THEN -x ELSE x
Price(candle, kind) == IF kind = "HIGH" THEN candle.h ELSE candle.l
Higher(kind, a, b) == IF kind = "HIGH" THEN a > b ELSE a < b
OfKind(swings, kind) == SelectSeq(swings, LAMBDA w : w.kind = kind)
LastUpTo(n, seq) == SubSeq(seq, IF Len(seq) > n THEN Len(seq) - n + 1 ELSE 1, Len(seq))

-----------------------------------------------------------------------------
(* Swings *)

\* Candle j does not compete with the pivot: strictly less extreme, or equal
\* where the tie policy forgives it on that side.
Yields(kind, s, pivot, j, strict) ==
    LET a == Price(s[pivot], kind)
        b == Price(s[j], kind)
    IN  Higher(kind, a, b) \/ (~strict /\ a = b)

LeftQualifies(cfg, kind, s, i) ==
    \A j \in i - cfg.left .. i - 1 : Yields(kind, s, i, j, cfg.tie \in {"STRICT", "EARLIEST"})

FullyQualifies(cfg, kind, s, i) ==
    /\ LeftQualifies(cfg, kind, s, i)
    /\ \A j \in i + 1 .. i + cfg.right :
          Yields(kind, s, i, j, cfg.tie \in {"STRICT", "LATEST"})

\* A candidate as the first n candles show it.
Candidate(cfg, kind, s, i, n) ==
    LET seen == IF n - i < cfg.right THEN n - i ELSE cfg.right
    IN  [kind |-> kind, pivot |-> i, price |-> Price(s[i], kind), seen |-> seen,
         st |-> IF seen < cfg.right THEN "PENDING"
                ELSE IF FullyQualifies(cfg, kind, s, i) THEN "CONFIRMED" ELSE "REJECTED"]

Candidates(cfg, s) ==
    FlattenSeq(Each(Len(s) - cfg.left, LAMBDA k :
        LET i == k + cfg.left
        IN  SelectSeq(Each(2, LAMBDA n : Candidate(cfg, SwingKinds[n], s, i, Len(s))),
                      LAMBDA q : LeftQualifies(cfg, q.kind, s, i))))

Swing(cfg, q) ==
    [kind |-> q.kind, pivot |-> q.pivot, price |-> q.price, at |-> q.pivot + cfg.right + 1]

Confirmed(cfg, s) ==
    LET sure == SelectSeq(Candidates(cfg, s), LAMBDA q : q.st = "CONFIRMED")
    IN  Each(Len(sure), LAMBDA n : Swing(cfg, sure[n]))

-----------------------------------------------------------------------------
(* Zones *)

\* _zone_match_interval and min(matches): the closest anchor within the
\* tolerance, the older zone on a tie; 0 if there is none.
ZoneFor(cfg, zones, w) ==
    LET Far(z) == Abs(w.price - zones[z].anchor)
        near == {z \in 1..Len(zones) : Far(z) <= cfg.merge}
    IN  IF near = {} THEN 0
        ELSE CHOOSE z \in near : \A y \in near : Far(z) < Far(y) \/ (Far(z) = Far(y) /\ z <= y)

\* _build_zones: bounds without padding until the end.
MergeZone(cfg, zones, w) ==
    LET z == ZoneFor(cfg, zones, w)
    IN  IF z = 0
        THEN Append(zones, [anchor |-> w.price, lo |-> w.price, hi |-> w.price,
                            from |-> <<w.pivot>>, created |-> w.at, updated |-> w.at])
        ELSE [zones EXCEPT ![z] =
                [@ EXCEPT !.lo = IF w.price < @ THEN w.price ELSE @,
                          !.hi = IF w.price > @ THEN w.price ELSE @,
                          !.from = Append(@, w.pivot), !.updated = w.at]]

BuildZones(cfg, swings, kind) ==
    LET zones == FoldLeft(LAMBDA acc, w : MergeZone(cfg, acc, w), << >>, OfKind(swings, kind))
    IN  Each(Len(zones), LAMBDA z : [zones[z] EXCEPT !.lo = @ - cfg.pad, !.hi = @ + cfg.pad])

-----------------------------------------------------------------------------
(* Trend and breaks *)

\* Every swing of the tail is beyond the one before by more than the tolerance.
Rising(cfg, tail) == \A n \in 2..Len(tail) : tail[n].price > tail[n - 1].price + cfg.equal
Falling(cfg, tail) == \A n \in 2..Len(tail) : tail[n].price < tail[n - 1].price - cfg.equal

ClassifyTrend(cfg, swings) ==
    LET highs == LastUpTo(cfg.points, OfKind(swings, "HIGH"))
        lows == LastUpTo(cfg.points, OfKind(swings, "LOW"))
    IN  CASE Len(highs) < cfg.points \/ Len(lows) < cfg.points -> "INSUFFICIENT_DATA"
          [] OTHER -> IF Rising(cfg, highs) /\ Rising(cfg, lows) THEN "BULLISH"
                      ELSE IF Falling(cfg, highs) /\ Falling(cfg, lows) THEN "BEARISH"
                      ELSE "RANGE"

BreakType(direction, trend) ==
    CASE trend = direction -> "BOS"
      [] trend \in {"BULLISH", "BEARISH"} \ {direction} -> "MSS"
      [] OTHER -> "BREAK"

\* The swings a candle that opens at t may break, the latest one last.
\* _break_context of the replay engine, _latest_unbroken_swing of the reference.
Eligible(swings, t) == SelectSeq(swings, LAMBDA w : w.at <= t)
Unbroken(swings, kind, t, broken) ==
    SelectSeq(Eligible(swings, t), LAMBDA w : w.kind = kind /\ <<kind, w.pivot>> \notin broken)

\* What candle i does to the latest unbroken level on each side (sequences that
\* are empty when there is none): nothing, one break, or an ambiguous pair.
BreakOf(cfg, candle, i, trend, ups, downs) ==
    LET up == IF cfg.basis = "CLOSE" THEN candle.c ELSE candle.h
        down == IF cfg.basis = "CLOSE" THEN candle.c ELSE candle.l
        upBreak == ups # << >> /\ up > Last(ups).price + cfg.buffer
        downBreak == downs # << >> /\ down < Last(downs).price - cfg.buffer
        Event(direction, kind, level, price) ==
            [type |-> BreakType(direction, trend), dir |-> direction, price |-> price, ts |-> i,
             level |-> <<kind, level.pivot>>, trend |-> trend]
    IN  CASE upBreak /\ downBreak ->
               [what |-> "AMBIGUOUS", ts |-> i, up |-> Last(ups).pivot, down |-> Last(downs).pivot]
          [] upBreak /\ ~downBreak ->
               [what |-> "BREAK", event |-> Event("BULLISH", "HIGH", Last(ups), up)]
          [] ~upBreak /\ downBreak ->
               [what |-> "BREAK", event |-> Event("BEARISH", "LOW", Last(downs), down)]
          [] OTHER -> [what |-> "NOTHING"]

NoBreaks == [events |-> << >>, rejections |-> << >>, broken |-> {}]

RecordBreak(acc, b) ==
    CASE b.what = "AMBIGUOUS" -> [acc EXCEPT !.rejections = Append(@, b)]
      [] b.what = "BREAK" -> [acc EXCEPT !.events = Append(@, b.event),
                                         !.broken = @ \cup {b.event.level}]
      [] OTHER -> acc

\* _detect_structure_breaks
StructureBreaks(cfg, s, swings) ==
    FoldLeft(LAMBDA acc, i :
               RecordBreak(acc, BreakOf(cfg, s[i], i, ClassifyTrend(cfg, Eligible(swings, i)),
                                        Unbroken(swings, "HIGH", i, acc.broken),
                                        Unbroken(swings, "LOW", i, acc.broken))),
             NoBreaks, From(1, Len(s)))

\* analyze_market_structure
AnalyzeStructure(cfg, s) ==
    LET swings == Confirmed(cfg, s)
        breaks == StructureBreaks(cfg, s, swings)
    IN  [candidates |-> Candidates(cfg, s), confirmed |-> swings,
         support |-> BuildZones(cfg, swings, "LOW"), resistance |-> BuildZones(cfg, swings, "HIGH"),
         trend |-> ClassifyTrend(cfg, swings),
         events |-> breaks.events, rejections |-> breaks.rejections]

-----------------------------------------------------------------------------
(* The append-only detector *)

Sides == [HIGH |-> << >>, LOW |-> << >>]

\* reset: the state of no candle.
EmptyStructure ==
    [candidates |-> << >>, confirmed |-> << >>, pending |-> << >>, breaks |-> NoBreaks,
     zones |-> Sides, closedTail |-> Sides, eligibleTail |-> Sides, unbroken |-> Sides,
     frontier |-> 0]

TailAppend(cfg, sides, w) == [sides EXCEPT ![w.kind] = LastUpTo(cfg.points, Append(@, w))]

\* _append_zone: padded bounds are unpadded, widened and padded again.
AppendZone(cfg, zones, w) ==
    LET z == ZoneFor(cfg, zones, w)
    IN  IF z = 0
        THEN Append(zones, [anchor |-> w.price, lo |-> w.price - cfg.pad, hi |-> w.price + cfg.pad,
                            from |-> <<w.pivot>>, created |-> w.at, updated |-> w.at])
        ELSE [zones EXCEPT ![z] =
                [@ EXCEPT !.lo = (IF w.price < @ + cfg.pad THEN w.price ELSE @ + cfg.pad) - cfg.pad,
                          !.hi = (IF w.price > @ - cfg.pad THEN w.price ELSE @ - cfg.pad) + cfg.pad,
                          !.from = Append(@, w.pivot), !.updated = w.at]]

\* A pending candidate sees one more candle; a confirmed one joins the zones
\* and the closed tail.
ResolvePending(cfg, st, s, i) ==
    FoldLeft(LAMBDA acc, n :
        LET q == Candidate(cfg, acc.candidates[n].kind, s, acc.candidates[n].pivot, i)
            w == Swing(cfg, q)
            seen == [acc EXCEPT !.candidates[n] = q]
        IN  CASE q.st = "PENDING" -> [seen EXCEPT !.pending = Append(@, n)]
              [] q.st = "CONFIRMED" ->
                   [seen EXCEPT !.confirmed = Append(@, w),
                                !.zones[w.kind] = AppendZone(cfg, @, w),
                                !.closedTail = TailAppend(cfg, @, w)]
              [] OTHER -> seen,
        [st EXCEPT !.pending = << >>], st.pending)

AddCandidates(cfg, st, s, i) ==
    IF i <= cfg.left THEN st
    ELSE LET new == SelectSeq(Each(2, LAMBDA n : Candidate(cfg, SwingKinds[n], s, i, i)),
                              LAMBDA q : LeftQualifies(cfg, q.kind, s, i))
         IN  [st EXCEPT !.candidates = @ \o new,
                        !.pending = @ \o From(Len(st.candidates) + 1, Len(st.candidates) + Len(new))]

\* _break_context of the hot state: newly eligible swings enter the tails and
\* the stacks of unbroken levels, broken ones are popped off the top.
Advance(cfg, st, t) ==
    LET fresh == SelectSeq(SubSeq(st.confirmed, st.frontier + 1, Len(st.confirmed)),
                           LAMBDA w : w.at <= t)
        pushed == FoldLeft(LAMBDA acc, w : [acc EXCEPT !.frontier = @ + 1,
                                                       !.eligibleTail = TailAppend(cfg, @, w),
                                                       !.unbroken[w.kind] = Append(@, w)],
                           st, fresh)
        Live(kind, n) == <<kind, pushed.unbroken[kind][n].pivot>> \notin st.breaks.broken
        Popped(kind) ==
            LET live == {n \in 1..Len(pushed.unbroken[kind]) : Live(kind, n)}
            IN  SubSeq(pushed.unbroken[kind], 1, IF live = {} THEN 0 ELSE Max(live))
    IN  [pushed EXCEPT !.unbroken = [HIGH |-> Popped("HIGH"), LOW |-> Popped("LOW")]]

\* One candle of append.
BreakReady(cfg, ready, candle, i) ==
    [ready EXCEPT !.breaks = RecordBreak(@,
        BreakOf(cfg, candle, i, ClassifyTrend(cfg, ready.eligibleTail.HIGH \o ready.eligibleTail.LOW),
                ready.unbroken.HIGH, ready.unbroken.LOW))]

AppendStructure(cfg, st, s, i) ==
    BreakReady(cfg, Advance(cfg, AddCandidates(cfg, ResolvePending(cfg, st, s, i), s, i), i), s[i], i)

\* result
StructureResult(cfg, st) ==
    [candidates |-> st.candidates, confirmed |-> st.confirmed,
     support |-> st.zones.LOW, resistance |-> st.zones.HIGH,
     trend |-> ClassifyTrend(cfg, st.closedTail.HIGH \o st.closedTail.LOW),
     events |-> st.breaks.events, rejections |-> st.breaks.rejections]

\* PriceZoneCandidate and StructureBreakEvent: a zone has positive, ordered bounds and
\* a touch; a break has a price.  (A break of candle ts is confirmed at ts + 1.)
ValidStructure(r) ==
    /\ \A zones \in {r.support, r.resistance} : \A n \in 1..Len(zones) :
          /\ 0 < zones[n].lo /\ zones[n].lo <= zones[n].hi /\ 0 < zones[n].anchor
          /\ zones[n].from # << >>
    /\ \A n \in 1..Len(r.events) : r.events[n].price > 0
===============================================================================
