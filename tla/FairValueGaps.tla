----------------------------- MODULE FairValueGaps -----------------------------
(***************************************************************************)
(* Fair value gaps and their inversions: the reference detector            *)
(* (engines/smc/fvg.py) and the append-only detector of the replay engine   *)
(* (_FVGState, HotFVGState).                                               *)
(*                                                                         *)
(* A fill is a number of ticks of the zone's width, so the fill fraction is *)
(* exact; atr[i] is the average true range after candle i, in ticks times   *)
(* cfg.unit, or NoAtr.                                                     *)
(***************************************************************************)
EXTENDS Series

NoAtr == -1
GapTerminal == {"FILLED", "INVERTED", "INVALIDATED", "EXPIRED"}

\* _append_event
GapEvent(zone, ev, i, to) ==
    [zone EXCEPT !.st = to, !.upd = i + 1,
                 !.log = Append(@, [ev |-> ev, at |-> i + 1, from |-> zone.st, to |-> to,
                                    fill |-> zone.fill, retests |-> zone.retests])]

\* _new_fvg and _new_ifvg: a zone, known by its type, direction, bar and origin.
NewGap(type, dir, lo, hi, third, i, origin) ==
    [id |-> <<type, dir, i, origin>>, type |-> type, dir |-> dir, lo |-> lo, hi |-> hi,
     third |-> third, born |-> i, origin |-> origin, st |-> "ACTIVE", fill |-> 0, retests |-> 0,
     upd |-> i + 1,
     log |-> <<[ev |-> "CREATED", at |-> i + 1, from |-> "NONE", to |-> "ACTIVE",
                fill |-> 0, retests |-> 0]>>]

NewInverse(zone, i) ==
    NewGap("IFVG", IF zone.dir = "BULLISH" THEN "BEARISH" ELSE "BULLISH",
           zone.lo, zone.hi, zone.third, i, zone.id)

\* _bar_fill_fraction, in ticks of the zone's width.
BarFill(cfg, zone, bar) ==
    LET probe == IF cfg.fillBasis = "CLOSE" THEN bar.c
                 ELSE IF zone.dir = "BULLISH" THEN bar.l ELSE bar.h
        deep == IF zone.dir = "BULLISH" THEN zone.hi - probe ELSE probe - zone.lo
    IN  IF deep <= 0 THEN 0 ELSE IF deep >= zone.hi - zone.lo THEN zone.hi - zone.lo ELSE deep

\* _invalidation_triggered
Crossed(cfg, zone, bar) ==
    IF zone.dir = "BULLISH" THEN bar.c < zone.lo - cfg.invBuffer ELSE bar.c > zone.hi + cfg.invBuffer

\* The retest of _update_zone: only the first one is an event.
RetestedBy(zone, seen, i) ==
    LET hit == [zone EXCEPT !.retests = @ + 1, !.fill = IF seen > @ THEN seen ELSE @, !.upd = i + 1]
    IN  CASE seen = 0 -> zone
          [] seen > 0 /\ zone.fill = 0 -> GapEvent(hit, "RETEST", i, "PARTIALLY_FILLED")
          [] OTHER -> hit
Retested(cfg, zone, bar, i) == RetestedBy(zone, BarFill(cfg, zone, bar), i)

Filled(cfg, zone) == zone.fill * cfg.fullDen >= cfg.fullNum * (zone.hi - zone.lo)

\* _update_zone: the zone after one more bar, its retest, fill and age after the cross.
AgeGap(cfg, zone, next, i) ==
    IF next.retests > zone.retests /\ Filled(cfg, next) THEN GapEvent(next, "FILLED", i, "FILLED")
    ELSE IF i - zone.born > cfg.gapAge \/ next.retests > cfg.gapRetests
    THEN GapEvent(next, "EXPIRED", i, "EXPIRED")
    ELSE next

UpdateGap(cfg, zone, bar, i) ==
    IF zone.st \in GapTerminal THEN zone
    ELSE IF Crossed(cfg, zone, bar) /\ zone.type = "IFVG" THEN GapEvent(zone, "INVALIDATED", i, "INVALIDATED")
    ELSE IF Crossed(cfg, zone, bar) /\ cfg.invert THEN GapEvent(zone, "INVERTED", i, "INVERTED")
    ELSE AgeGap(cfg, zone, Retested(cfg, zone, bar, i), i)

\* The gap that candle i completes: a new zone, a rejection, or neither.
Formation(cfg, s, atr, i) ==
    LET known == atr[i - 1] # NoAtr
        Wide(gap) == gap > 0 /\ gap >= cfg.minGap
                     /\ (known => gap * cfg.unit * cfg.ratioDen >= cfg.ratioNum * atr[i - 1])
        middle == s[i - 1]
        up == Wide(s[i].l - s[i - 2].h) /\ (cfg.middle => middle.c > middle.o)
        down == Wide(s[i - 2].l - s[i].h) /\ (cfg.middle => middle.c < middle.o)
    IN  IF i < 3 THEN << >>
        ELSE IF cfg.ratioNum > 0 /\ (~known \/ atr[i - 1] <= 0) THEN <<[rejected |-> "ATR_UNAVAILABLE", at |-> i]>>
        ELSE IF up /\ down THEN <<[rejected |-> "IMPOSSIBLE_DUAL", at |-> i]>>
        ELSE IF up THEN <<NewGap("FVG", "BULLISH", s[i - 2].h, s[i].l, i, i, << >>)>>
        ELSE IF down THEN <<NewGap("FVG", "BEARISH", s[i].h, s[i - 2].l, i, i, << >>)>>
        ELSE << >>

NoGaps == [zones |-> << >>, rejections |-> << >>, active |-> << >>]

\* One bar of the loop.  A formation joins the archive and the active list.
JoinGaps(st, found) ==
    LET born == SelectSeq(found, LAMBDA r : "id" \in DOMAIN r)
    IN  [zones |-> st.zones \o born, active |-> st.active \o From(Len(st.zones) + 1, Len(st.zones) + Len(born)),
         rejections |-> st.rejections \o SelectSeq(found, LAMBDA r : "rejected" \in DOMAIN r)]

\* The active zones born before this bar are updated in order.
UpdateGaps(cfg, st, bar, i) ==
    [st EXCEPT !.zones = Each(Len(@), LAMBDA n :
        IF n \in ToSet(st.active) /\ st.zones[n].born < i THEN UpdateGap(cfg, st.zones[n], bar, i)
        ELSE st.zones[n])]

\* An inverted zone's child joins both lists, a terminal zone leaves the active one.
WithChildren(st, inverted, i) ==
    [st EXCEPT !.zones = @ \o Each(Len(inverted), LAMBDA k : NewInverse(st.zones[inverted[k]], i)),
               !.active = SelectSeq(@, LAMBDA n : st.zones[n].st \notin GapTerminal)
                          \o From(Len(st.zones) + 1, Len(st.zones) + Len(inverted))]
InvertGaps(st, i) == WithChildren(st, SelectSeq(st.active, LAMBDA n : st.zones[n].st = "INVERTED"), i)

FvgBar(cfg, st, s, atr, i) ==
    InvertGaps(UpdateGaps(cfg, JoinGaps(st, Formation(cfg, s, atr, i)), s[i], i), i)

\* analyze_fvg
GapResult(gaps) == [zones |-> gaps.zones, rejections |-> gaps.rejections]
AnalyzeFvg(cfg, s, atr) ==
    GapResult(FoldLeft(LAMBDA st, i : FvgBar(cfg, st, s, atr, i), NoGaps, From(1, Len(s))))

-----------------------------------------------------------------------------
(* The append-only detector: the archive, the active zones, and a projection *)
(* of each zone that is refreshed when its version changes.                  *)

EmptyFvg == [gaps |-> NoGaps, projections |-> << >>, versions |-> << >>]

\* What _after_bar compares.
GapVersion(zone) == <<zone.st, zone.fill, zone.retests, zone.upd, Len(zone.log)>>

\* _after_bar: of the zones that were active during the bar, new children included,
\* those whose version changed.
StaleGaps(st, gaps) ==
    {n \in ToSet(st.gaps.active) \cup (Len(st.gaps.zones) + 1 .. Len(gaps.zones)) :
        n > Len(st.versions) \/ st.versions[n] # GapVersion(gaps.zones[n])}

ProjectGaps(st, gaps, stale) ==
    [gaps |-> gaps,
     projections |-> Each(Len(gaps.zones), LAMBDA n : IF n \in stale THEN gaps.zones[n] ELSE st.projections[n]),
     versions |-> Each(Len(gaps.zones), LAMBDA n :
                     IF n \in stale THEN GapVersion(gaps.zones[n]) ELSE st.versions[n])]

AfterGapBar(st, gaps) == ProjectGaps(st, gaps, StaleGaps(st, gaps))

\* append for one candle
AppendFvg(cfg, st, s, atr, i) == AfterGapBar(st, FvgBar(cfg, st.gaps, s, atr, i))

FvgResult(st) == [zones |-> st.projections, rejections |-> st.gaps.rejections]

-----------------------------------------------------------------------------
\* GapZone.validate_zone and the bounds of its fields.
ValidGap(zone) ==
    /\ zone.lo > 0 /\ zone.lo < zone.hi
    /\ zone.fill \in 0 .. zone.hi - zone.lo
    /\ (zone.type = "IFVG") <=> (zone.origin # << >>)
===============================================================================
