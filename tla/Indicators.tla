------------------------------- MODULE Indicators ------------------------------
(***************************************************************************)
(* Moving averages, MACD and average true range: the batch calculation       *)
(* (engines/indicators/calculations.py) and the append-only one              *)
(* (_IndicatorState).  A decimal of 34 digits is a whole number of           *)
(* 1/cfg.unit ticks: both calculations round after every operation of the    *)
(* recurrences, and so does \div here.  A line of values starts at candle    *)
(* from: the code's lists hold None before it.                              *)
(*                                                                         *)
(* cfg: fast, slow, signal, atrPeriod, smoothing, unit.                     *)
(***************************************************************************)
EXTENDS Displacement

NoLine(from) == [from |-> from, v |-> << >>]
Has(line, i) == i >= line.from /\ i < line.from + Len(line.v)
Value(line, i) == line.v[i - line.from + 1]
Plus(line, x) == [line EXCEPT !.v = Append(@, x)]
Mean(v) == FoldLeft(LAMBDA a, b : a + b, 0, v) \div Len(v)
Smooth(prev, x, p) == prev + (2 * (x - prev)) \div (p + 1)
Wilder(prev, x, p) == (prev * (p - 1) + x) \div p
Upto(v, n) == SubSeq(v, 1, n)
After(v, n) == SubSeq(v, n + 1, Len(v))

\* calculate_ema: seeded with the mean of the first p values of the line.
Ema(line, p) ==
    [from |-> line.from + p - 1,
     v |-> IF Len(line.v) < p THEN << >>
           ELSE FoldLeft(LAMBDA out, x : Append(out, Smooth(Last(out), x, p)),
                         <<Mean(Upto(line.v, p))>>, After(line.v, p))]

\* The point of candle i: crossovers and the histogram's direction.
Point(macd, signal, i) ==
    LET both == Has(macd, i - 1) /\ Has(signal, i - 1) /\ Has(macd, i) /\ Has(signal, i)
        was == Value(macd, i - 1) - Value(signal, i - 1)
        is == Value(macd, i) - Value(signal, i)
    IN  [up |-> both /\ was <= 0 /\ is > 0, down |-> both /\ was >= 0 /\ is < 0,
         rising |-> both /\ is > was, falling |-> both /\ is < was]

Closes(cfg, s) == [from |-> 1, v |-> Each(Len(s), LAMBDA i : s[i].c * cfg.unit)]

\* calculate_macd; the slow line is the shorter one.
Macd(cfg, s) ==
    LET fast == Ema(Closes(cfg, s), cfg.fast)
        slow == Ema(Closes(cfg, s), cfg.slow)
        macd == [from |-> slow.from,
                 v |-> Each(Len(slow.v), LAMBDA k : Value(fast, slow.from + k - 1) - slow.v[k])]
        signal == Ema(macd, cfg.signal)
    IN  [fast |-> fast, slow |-> slow, macd |-> macd, signal |-> signal,
         points |-> Each(Len(s), LAMBDA i : Point(macd, signal, i))]

\* calculate_atr
Atr(cfg, s) ==
    LET tr == Each(Len(s), LAMBDA i : TrueRange(s, i) * cfg.unit)
        p == cfg.atrPeriod
        rolling == Each(Len(s) - p + 1, LAMBDA k : Mean(SubSeq(tr, k, k + p - 1)))
    IN  [from |-> p,
         v |-> IF Len(s) < p THEN << >>
               ELSE IF cfg.smoothing = "SMA" THEN rolling
               ELSE FoldLeft(LAMBDA out, x : Append(out, Wilder(Last(out), x, p)),
                             <<Mean(Upto(tr, p))>>, After(tr, p))]

\* calculate_indicators
AnalyzeIndicators(cfg, s) == [macd |-> Macd(cfg, s), atr |-> Atr(cfg, s)]

\* The values the other detectors read: a sequence, -1 where there is none.
AtrLine(atr, n) == Each(n, LAMBDA i : IF Has(atr, i) THEN Value(atr, i) ELSE -1)

-----------------------------------------------------------------------------
(* The append-only calculation *)

\* reset
EmptyIndicators(cfg) ==
    [fast |-> NoLine(cfg.fast), slow |-> NoLine(cfg.slow), macd |-> NoLine(cfg.slow),
     signal |-> NoLine(cfg.slow + cfg.signal - 1), tr |-> << >>, atr |-> NoLine(cfg.atrPeriod),
     points |-> << >>]

\* _ema, and the same for the signal: nothing before the seed, the seed from the
\* last p inputs, then the recurrence on the last value.
NextEma(line, input, i, p) ==
    IF i < line.from THEN line
    ELSE IF i = line.from THEN Plus(line, Mean(SubSeq(input.v, Len(input.v) - p + 1, Len(input.v))))
    ELSE Plus(line, Smooth(Last(line.v), Value(input, i), p))

NextAtr(cfg, atr, tr, i) ==
    LET p == cfg.atrPeriod
    IN  IF i < p THEN atr
        ELSE IF i = p \/ cfg.smoothing = "SMA" THEN Plus(atr, Mean(SubSeq(tr, i - p + 1, i)))
        ELSE Plus(atr, Wilder(Last(atr.v), tr[i], p))

\* append for candle i, with the point that result adds for it.
AppendIndicators(cfg, st, s, i) ==
    LET close == Closes(cfg, Upto(s, i))
        fast == NextEma(st.fast, close, i, cfg.fast)
        slow == NextEma(st.slow, close, i, cfg.slow)
        both == Has(slow, i) /\ Has(fast, i)
        macd == IF both THEN Plus(st.macd, Last(fast.v) - Last(slow.v)) ELSE st.macd
        signal == IF both THEN NextEma(st.signal, macd, i, cfg.signal) ELSE st.signal
        tr == Append(st.tr, TrueRange(s, i) * cfg.unit)
    IN  [fast |-> fast, slow |-> slow, macd |-> macd, signal |-> signal, tr |-> tr,
         atr |-> NextAtr(cfg, st.atr, tr, i),
         points |-> Append(st.points, Point(macd, signal, i))]

IndicatorsResult(st) ==
    [macd |-> [fast |-> st.fast, slow |-> st.slow, macd |-> st.macd, signal |-> st.signal,
               points |-> st.points],
     atr |-> st.atr]
===============================================================================
