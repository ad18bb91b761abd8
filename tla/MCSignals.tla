-------------------------------- MODULE MCSignals ------------------------------
(* Instances of SignalHistory: a long and a short signal around one zone, on the *)
(* canonical timeframe and on one of two candles.                               *)
EXTENDS SignalHistory, TLC

Plan(dir, tf) == [dir |-> dir, tf |-> tf, low |-> 40, high |-> 60, ref |-> 50,
                  tp |-> IF dir = "LONG" THEN 80 ELSE 20, sl |-> IF dir = "LONG" THEN 20 ELSE 80]
LongAndShort == << Plan("LONG", 1), Plan("SHORT", 2) >>

C(o, h, l, c) == [o |-> o, h |-> h, l |-> l, c |-> c]
\* Up into the zone; a fill just under the reference and nothing more; a rise to the
\* target; a gap over the target that then falls through everything; a fall through
\* zone and stop; beside the zone; a gap under everything.
Into == C(30, 45, 25, 42)
Fill == C(49, 55, 45, 52)
Rise == C(55, 85, 52, 82)
Gap == C(90, 95, 15, 50)
Fall == C(70, 72, 15, 18)
Beside == C(70, 75, 65, 70)
Plunge == C(10, 12, 8, 11)
\* Through the zone and the stop; the target at the open, then the stop.
Drop == C(50, 55, 15, 18)
AtTarget == C(80, 85, 15, 50)

Scenario(policy, bps, candles, length, emits, losses, persisted) ==
    [policy |-> policy, slippage |-> bps, spread |-> 10, commission |-> 20, candles |-> candles,
     length |-> length, emits |-> emits, losses |-> losses, persisted |-> persisted]
\* Both signals reported; one of them persisted.
Reported(policy, bps) == Scenario(policy, bps, {Into, Fill, Rise, Gap, Fall}, 4, {1, 2}, {2}, {})
Persisted(policy, bps) == Scenario(policy, bps, {Fill, Rise, Gap, Fall, Plunge}, 3, {1}, {1}, {1})
\* Bars that touch both exits, and what their candles say of them.
StopFirst == Scenario("CONSERVATIVE_STOP_FIRST", 20, {Fill, Drop, AtTarget}, 4, {1, 2}, {}, {})
ReportedAndPersisted == {StopFirst,
                         Reported("AMBIGUOUS", 0), Reported("CONSERVATIVE_STOP_FIRST", 20),
                         Persisted("AMBIGUOUS", 20), Persisted("CONSERVATIVE_STOP_FIRST", 0)}
Slipping == {Scenario("AMBIGUOUS", 200, {Fill, Beside}, 3, {1}, {}, {})}

WriterSymmetry == Permutations(Writers)
===============================================================================
