-------------------------------- MODULE MCReplay -------------------------------
(* Instances of StrategyReplay: a bullish and a bearish script in which a sweep,  *)
(* a shift, a displacement and a retest make a setup, and configurations.        *)
EXTENDS StrategyReplay

C(o, h, l, c) == [o |-> o, h |-> h, l |-> l, c |-> c]
Flip(x) == [o |-> 40 - x.o, h |-> 40 - x.l, l |-> 40 - x.h, c |-> 40 - x.c]

Rise ==
    << C(20, 21, 19, 20), C(20, 24, 20, 23), C(23, 23, 16, 17), C(17, 18, 14, 15), C(15, 20, 15, 19),
       C(19, 21, 17, 18), C(18, 18, 12, 13), C(13, 14, 11, 12), C(12, 16, 12, 15), C(15, 16, 10, 13),
       C(13, 22, 13, 22), C(22, 26, 20, 25), C(25, 25, 22, 23), C(23, 24, 21, 22), C(22, 27, 22, 24),
       C(24, 24, 19, 21), C(21, 23, 17, 22), C(22, 24, 15, 16) >>
\* What may happen instead at some candles: a deeper or shallower low, an equal
\* extreme, a close through a zone, a touch that fills.
Instead ==
    << {}, {C(20, 24, 20, 21)}, {}, {C(17, 18, 14, 14)}, {C(15, 21, 15, 19)},
       {C(19, 20, 17, 18)}, {C(18, 18, 11, 13)}, {}, {C(12, 16, 11, 15)}, {C(15, 16, 10, 10)},
       {C(13, 20, 13, 19), C(13, 22, 9, 22)}, {C(22, 26, 16, 25), C(22, 23, 20, 21)}, {C(25, 25, 16, 18), C(25, 25, 18, 23)}, {C(23, 24, 19, 20), C(23, 28, 19, 27)},
       {C(22, 26, 22, 24), C(22, 27, 9, 23)}, {C(24, 24, 15, 15), C(24, 24, 22, 22)}, {C(21, 27, 21, 27)}, {C(22, 28, 21, 26)} >>
Mirror(seq) == [n \in 1..Len(seq) |-> Flip(seq[n])]

Plot(main, others) == [main |-> main, at |-> [n \in 1..Len(main) |-> {main[n]} \cup others[n]]]
Up == Plot(Rise, Instead)
\* The rise fails: the block it left is closed through and met again from below.
Fail == Plot(SubSeq(Rise, 1, 15) \o << C(24, 24, 12, 14), C(14, 17, 8, 9), C(9, 12, 7, 8) >>, Instead)
\* Six candles earlier, so that the higher timeframe has a state.
Lead == << C(20, 22, 18, 21), C(21, 22, 20, 21), C(21, 25, 20, 24), C(24, 24, 19, 20), C(20, 22, 19, 21),
           C(21, 21, 19, 20) >>
Long == Plot(Lead \o SubSeq(Rise, 1, 17), [n \in 1..6 |-> {}] \o SubSeq(Instead, 1, 17))
Down == Plot(Mirror(Rise), [n \in 1..Len(Rise) |-> {Flip(x) : x \in Instead[n]}])

Structure == [left |-> 1, right |-> 1, tie |-> "STRICT", points |-> 2, equal |-> 0, basis |-> "CLOSE",
              buffer |-> 0, merge |-> 1, pad |-> 1]
Base ==
    [targets |-> {1, 2}, signalTf |-> 1, structure |-> [d \in {1, 2} |-> Structure],
     warmup |-> [d \in {1, 2} |-> 1], warmed |-> TRUE, maxAge |-> [d \in {1, 2} |-> 2],
     required |-> {1}, minAligned |-> 1, veto |-> {}, signalAlign |-> TRUE, availability |-> {1},
     priceGate |-> FALSE, dealTf |-> 1, dealSpan |-> 8, probe |-> "MIDPOINT",
     fast |-> 2, slow |-> 3, signal |-> 2, atrPeriod |-> 3, smoothing |-> "WILDER", unit |-> 12,
     fillBasis |-> "WICK", invBuffer |-> 0, fullNum |-> 1, fullDen |-> 1, gapAge |-> 6, gapRetests |-> 2,
     invert |-> TRUE, minGap |-> 1, ratioNum |-> 1, ratioDen |-> 4, middle |-> TRUE,
     halfWidth |-> 0, equalTicks |-> 0, relNum |-> 1, relDen |-> 4, clusterPad |-> 0, single |-> TRUE,
     minTouches |-> 2, takenBuffer |-> 0, penetration |-> 0, poolAge |-> 9,
     dAtr |-> 2, dBars |-> 3, dDen |-> 4, dNet |-> 4, dBody |-> 4, dEff |-> 2, dAdverse |-> 4, dGap |-> TRUE,
     obNear |-> 3, obNearAtr |-> 1, obContext |-> TRUE, obLookback |-> 4, obRank |-> "EXTREME_THEN_BODY",
     obBasis |-> "BODY", obDisp |-> FALSE, obValBuffer |-> 0, obInvBasis |-> "CLOSE", obInvBuffer |-> 0,
     obMid |-> TRUE, obMidBasis |-> "WICK", obValBars |-> 3, obAge |-> 4, breaker |-> FALSE, breakerBars |-> 3,
     gapPolicy |-> "FIRST_CONFIRMED", retest |-> "TOUCH", entry |-> "FVG",
     invalidation |-> "LIQUIDITY_SWEEP_EXTREME", zeroWidth |-> FALSE, invTicks |-> 1, invAtr |-> 0,
     barsToMss |-> 3, barsTotal |-> 8, barsToLeg |-> 2, barsToRetest |-> 4, dualAllowed |-> FALSE,
     crtEnabled |-> FALSE, crtWeight |-> << >>, crtUses |-> {},
     weights |-> [mss |-> 2, sweep |-> 2, fvg |-> 1, displacement |-> 1, htf |-> 1, order_block |-> 1, macd |-> 1],
     vetoConflict |-> TRUE, longAt |-> 5, shortAt |-> -5, entryRef |-> "MIDPOINT", targetMin |-> 0,
     stopTicks |-> 0, stopAtr |-> 1, riskMin |-> 1, riskMaxAtr |-> 40, minRr |-> 2]

\* Other ties, bases, smoothing and policies.
Strict == [Base EXCEPT !.structure = [d \in {1, 2} |-> [Structure EXCEPT !.tie = "EARLIEST", !.basis = "WICK"]],
                       !.smoothing = "SMA", !.fillBasis = "CLOSE", !.retest = "REJECTION_CLOSE", !.middle = FALSE,
                       !.gapPolicy = "WIDEST", !.relNum = 2, !.poolAge = 6, !.dualAllowed = TRUE,
                       !.invert = FALSE, !.priceGate = TRUE, !.entryRef = "NEAR_EDGE"]
\* Entries at order blocks, which need displacement and leave breakers.
Blocks == [Base EXCEPT !.entry = "ORDER_BLOCK", !.invalidation = "ORDER_BLOCK_EXTREME", !.obDisp = TRUE,
                       !.breaker = TRUE, !.obBasis = "FULL_RANGE", !.obContext = FALSE, !.gapPolicy = "NARROWEST"]
\* Entries where gap and block meet, with blocks kept by the replay engine.
Meets == [Base EXCEPT !.entry = "INTERSECTION", !.invalidation = "ENTRY_ZONE_EXTREME", !.barsTotal = 6,
                      !.invAtr = 1, !.zeroWidth = TRUE, !.obRank = "BODY_THEN_EXTREME", !.obMid = FALSE,
                      !.obBasis = "FULL_RANGE", !.obAge = 8, !.gapPolicy = "NEAREST_TO_MSS_CLOSE", !.minRr = 4]
\* A leg that needs more bars than its gap.
Slow == [Base EXCEPT !.dNet = 10, !.dBars = 4, !.barsToLeg = 3, !.barsToRetest = 3, !.riskMaxAtr = 8]
\* A higher timeframe that must have a state and may veto, and a demanding score.
Gate == [Base EXCEPT !.veto = {2}, !.availability = {1, 2}, !.longAt = 7, !.obNear = 0, !.obNearAtr = 2]
\* A context timeframe too long to have closed a candle.
Context ==
    [Base EXCEPT !.targets = {1, 2, 64}, !.structure = [d \in {1, 2, 64} |-> Structure],
                 !.warmup = [d \in {1, 2, 64} |-> 1], !.maxAge = [d \in {1, 2, 64} |-> 2]]
ContextCase == {[cfg |-> Context, plot |-> Up]}
MCCases == {[cfg |-> Base, plot |-> Up], [cfg |-> Strict, plot |-> Down], [cfg |-> Blocks, plot |-> Fail],
            [cfg |-> Meets, plot |-> Down], [cfg |-> Slow, plot |-> Up], [cfg |-> Gate, plot |-> Long]}
===============================================================================
