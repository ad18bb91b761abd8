------------------------------ MODULE Displacement -----------------------------
(***************************************************************************)
(* Displacement legs: whether the move that broke a level was strong enough, *)
(* and when that became known.  The reference detector                      *)
(* (engines/smc/displacement.py) judges every structure event afresh; the    *)
(* append-only one (_DisplacementState, HotDisplacementState) keeps a queue  *)
(* of the events that have no final verdict.                                *)
(*                                                                         *)
(* events are MarketStructure's breaks, gaps FairValueGaps' zones.  Ratios  *)
(* are numerators over cfg.dDen; the baseline is kept as a sum over          *)
(* cfg.dAtr candles.                                                       *)
(***************************************************************************)
EXTENDS Series

Ref(e) == <<e.type, e.dir, e.ts, e.level>>
PosPart(x) == IF x > 0 THEN x ELSE 0

\* _true_ranges
TrueRange(s, i) ==
    LET pc == s[i - 1].c
        Dist(x, y) == IF x > y THEN x - y ELSE y - x
    IN  IF i = 1 THEN s[1].h - s[1].l
        ELSE Max({s[i].h - s[i].l, Dist(s[i].h, pc), Dist(s[i].l, pc)})

\* _metrics of the bars start..end, for a leg in direction dir.
Metrics(s, start, end, dir) ==
    LET sign == IF dir = "BULLISH" THEN 1 ELSE -1
        bodies == [k \in 1 .. end - start + 1 |-> sign * (s[start + k - 1].c - s[start + k - 1].o)]
        worst == IF dir = "BULLISH" THEN s[start].o - Min({s[j].l : j \in start..end})
                 ELSE Max({s[j].h : j \in start..end}) - s[start].o
    IN  [net |-> sign * (s[end].c - s[start].o),
         body |-> FoldLeft(LAMBDA sum, b : sum + PosPart(b), 0, bodies),
         opposing |-> FoldLeft(LAMBDA sum, b : sum + PosPart(-b), 0, bodies),
         adverse |-> PosPart(worst)]

\* _matching_fvgs: gaps that the leg left behind, known at its last close.
MatchingGaps(gaps, dir, start, end) ==
    SelectSeq(gaps, LAMBDA z : /\ z.type = "FVG" /\ z.dir = dir /\ z.born <= end
                               /\ z.third - 2 >= start - 2 /\ z.third <= end)

\* _failure_reasons; base is the sum of the true ranges before the leg.
FailureReasons(cfg, m, base, gaps) ==
    LET Below(x, num) == x * cfg.dAtr * cfg.dDen < num * base
    IN  {r \in {"NET", "NET_RATIO", "BODY_RATIO", "EFFICIENCY", "ADVERSE", "FVG"} :
           CASE r = "NET" -> m.net <= 0
             [] r = "NET_RATIO" -> Below(m.net, cfg.dNet)
             [] r = "BODY_RATIO" -> Below(m.body, cfg.dBody)
             [] r = "EFFICIENCY" ->
                  m.body * cfg.dDen < cfg.dEff * (m.body + m.opposing) \/ (m.body + m.opposing = 0)
             [] r = "ADVERSE" -> m.adverse * cfg.dAtr * cfg.dDen > cfg.dAdverse * base
             [] OTHER -> cfg.dGap /\ gaps = << >>}

\* The loop body of analyze_displacement: the verdict on one event.  A leg ends
\* at the first bar that satisfies every threshold.  (Mutant: at the last one.)
MutFirstGood(good) == Max(good)
FirstGood(good) == Min(good)

Verdict(cfg, s, e, gaps) ==
    LET start == e.ts
        base == FoldLeft(LAMBDA sum, k : sum + TrueRange(s, start - k), 0, [k \in 1..cfg.dAtr |-> k])
        limit == start + cfg.dBars - 1
        end == Min({limit, Len(s)})
        Gaps(j) == MatchingGaps(gaps, e.dir, start, j)
        Reasons(j) == FailureReasons(cfg, Metrics(s, start, j, e.dir), base, Gaps(j))
        good == {j \in start..end : Reasons(j) = {}}
        Found(j) == [k \in 1..Len(Gaps(j)) |-> Gaps(j)[k].id]
        Out(st, j, gapIds, why) ==
            [ref |-> Ref(e), dir |-> e.dir, st |-> st, start |-> start, end |-> j,
             metrics |-> IF j = 0 THEN << >> ELSE <<Metrics(s, start, j, e.dir)>>,
             gaps |-> gapIds, why |-> why]
    IN  IF e.type \notin {"BOS", "MSS"} THEN Out("REJECTED", 0, << >>, {"UNSUPPORTED"})
        ELSE IF start - cfg.dAtr < 1 THEN Out("REJECTED", 0, << >>, {"ATR_UNAVAILABLE"})
        ELSE IF base <= 0 THEN Out("REJECTED", 0, << >>, {"ATR_UNAVAILABLE"})
        ELSE IF good # {} THEN Out("QUALIFIED", FirstGood(good), Found(FirstGood(good)), {})
        ELSE Out(IF end = limit THEN "EXPIRED" ELSE "CANDIDATE", end, Found(end), Reasons(end))

Verdicts(verdicts) ==
    [legs |-> SelectSeq(verdicts, LAMBDA v : v.st = "QUALIFIED"),
     evaluations |-> SelectSeq(verdicts, LAMBDA v : v.st # "QUALIFIED")]

\* analyze_displacement
AnalyzeDisplacement(cfg, s, events, gaps) ==
    Verdicts(Each(Len(events), LAMBDA n : Verdict(cfg, s, events[n], gaps)))

-----------------------------------------------------------------------------
(* The append-only detector: verdicts in the order of the events, and the    *)
(* queue of those that may change.                                          *)

EmptyDisplacement == [events |-> << >>, verdicts |-> << >>, pending |-> {}]

\* append: events that are not an extension of the known ones reset it first.
AppendDisplacement(cfg, st0, s, events, gaps) ==
    LET st == IF IsPrefix(st0.events, events) THEN st0 ELSE EmptyDisplacement
        queue == st.pending \cup (Len(st.events) + 1 .. Len(events))
        verdicts == Each(Len(events), LAMBDA n :
                       IF n \in queue THEN Verdict(cfg, s, events[n], gaps) ELSE st.verdicts[n])
    IN  [events |-> events, verdicts |-> verdicts,
         pending |-> {n \in queue : verdicts[n].st = "CANDIDATE"}]

DisplacementResult(st) == Verdicts(st.verdicts)

\* order_block_links, _project_displacement_links: what the order block detector
\* is told of a leg.
Links(result) == Each(Len(result.legs), LAMBDA n :
                    [ref |-> result.legs[n].ref, at |-> result.legs[n].end + 1])

\* DisplacementLeg.validate_leg, DisplacementEvaluation.validate_evaluation and
\* the bounds of the metrics.
ValidDisplacement(result) ==
    /\ \A n \in 1..Len(result.legs) :
          /\ result.legs[n].end >= result.legs[n].start
          /\ result.legs[n].metrics[1].body >= 0 /\ result.legs[n].metrics[1].adverse >= 0
    /\ \A n \in 1..Len(result.evaluations) :
          result.evaluations[n].st = "REJECTED" => result.evaluations[n].why # {}
===============================================================================
