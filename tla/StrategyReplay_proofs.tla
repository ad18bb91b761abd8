------------------------- MODULE StrategyReplay_proofs -------------------------
(***************************************************************************)
(* Proof that the entry model's evidence is in causal order in every         *)
(* evaluation, whatever the detectors hand to it: the order is made by the   *)
(* guards of one sweep's evaluation alone, on all its ways out.              *)
(***************************************************************************)
EXTENDS StrategyReplay, TLAPS

-----------------------------------------------------------------------------
(* Choices *)

\* One of a set is in it.
LEMMA OneOfMember ==
    ASSUME NEW set, OneOf(set) # None
    PROVE  OneOf(set)[1] \in set
BY DEF OneOf, None

\* The first of the places that satisfy a condition satisfies it.
LEMMA FirstAtPlace ==
    ASSUME NEW seq, NEW places, FirstAt(seq, places) # None
    PROVE  \E n \in places : FirstAt(seq, places)[1] = seq[n]
<1>1. FirstAt(seq, places)[1] \in {seq[n] : n \in FirstOf(places)}
  BY OneOfMember DEF FirstAt
<1> QED BY <1>1 DEF FirstOf

\* The shift that a sweep finds is after it.
LEMMA GatheredShift ==
    ASSUME NEW c, NEW sweep, NEW interactions, NEW events, NEW legs, NEW gaps, NEW dual
    PROVE  LET ev == Gather(c, sweep, interactions, events, legs, gaps, dual)
           IN  ev.mss # None => sweep.ts < ev.mss[1].ts
<1> DEFINE shift == FirstAt(events, Shifts(events, SetupDir(sweep), sweep))
           ev == Gather(c, sweep, interactions, events, legs, gaps, dual)
<1>1. ev.mss = None \/ ev.mss = shift
  BY DEF Gather
<1> HIDE DEF ev
<1>2. shift # None => sweep.ts < shift[1].ts
  BY FirstAtPlace DEF Shifts
<1> HIDE DEF shift
<1>3. ev.mss # None => sweep.ts < ev.mss[1].ts
  BY <1>1, <1>2
<1> QED BY <1>3 DEF ev

\* The gap that is selected is born after the shift and within the leg.
LEMMA SelectedGap ==
    ASSUME NEW c, NEW gaps, NEW leg, NEW mss, NEW close,
           SelectGap(c, gaps, leg, mss, close) # None
    PROVE  LET z == SelectGap(c, gaps, leg, mss, close)[1]
           IN  mss.ts < z.born /\ z.born <= leg.end
BY OneOfMember DEF SelectGap, Least

-----------------------------------------------------------------------------
(* Setups *)

Fields == {"sweep", "dir", "st", "at", "mss", "leg", "gap", "block", "zone", "level", "retest", "why"}

\* e has the fields of a setup.
IsSetup(e) == e = [f \in Fields |-> e[f]]

\* An invalidated setup is not ready.
LEMMA DeadNotReady ==
    ASSUME NEW e, IsSetup(e), NEW at, NEW why
    PROVE  Dead(e, at, why).st # "READY"
<1>1. Dead(e, at, why).st = "INVALIDATED"
  BY DEF Dead, IsSetup, Fields
<1> QED BY <1>1

\* Neither is one whose stage ends or goes on.
LEMMA StageNotReady ==
    ASSUME NEW c, NEW e, IsSetup(e), e.st # "READY", NEW total, NEW stage, NEW why
    PROVE  Stage(c, e, total, stage, why).st # "READY"
<1>1. [e EXCEPT !.st = "INVALIDATED", !.why = "SETUP_TOTAL_EXPIRED"].st = "INVALIDATED"
  BY DEF IsSetup, Fields
<1>2. [e EXCEPT !.st = "INVALIDATED", !.why = why].st = "INVALIDATED"
  BY DEF IsSetup, Fields
<1> QED BY <1>1, <1>2 DEF Stage

\* e is base, entered at the retest of gap in bar i.
Entered(e, base, gap, i) ==
    /\ e.sweep = base.sweep /\ e.mss = base.mss /\ e.leg = base.leg /\ e.gap = <<gap>>
    /\ e.at = i + 1 /\ e.retest = i /\ gap.born + 1 < i

\* Of the decisions about a bar only the entry makes a setup ready.
LEMMA RetestEnters ==
    ASSUME NEW c, NEW s, NEW base, IsSetup(base), NEW ev, NEW gap, NEW blocks, NEW atr, NEW i,
           Retest(c, s, base, ev, gap, blocks, atr, i) # None,
           Retest(c, s, base, ev, gap, blocks, atr, i)[1].st = "READY"
    PROVE  Entered(Retest(c, s, base, ev, gap, blocks, atr, i)[1], base, gap, i)
<1> DEFINE found == [base EXCEPT !.gap = <<gap>>]
           block == IF NeedsBlock(c) THEN SelectBlock(blocks, gap, base.dir, i) ELSE None
           blocked == [found EXCEPT !.block = block]
           decision == Retest(c, s, base, ev, gap, blocks, atr, i)
<1>1. PICK e : e = decision[1]
  OBVIOUS
<1>2. IsSetup(found) /\ IsSetup(blocked)
  BY DEF IsSetup, Fields
<1>3. /\ blocked.sweep = base.sweep /\ blocked.mss = base.mss /\ blocked.leg = base.leg
      /\ blocked.gap = <<gap>>
  BY DEF IsSetup, Fields
<1>4. \/ \E at, why : e = Dead(found, at, why)
      \/ Retestable(gap, i) /\ e = EnterAt(c, s, blocked, i, atr)
  <2> HIDE DEF found, block
  <2>1. \/ decision = None
        \/ \E at, why : decision = <<Dead(found, at, why)>>
        \/ Retestable(gap, i) /\ decision = <<EnterAt(c, s, blocked, i, atr)>>
    BY DEF Retest, found, block
  <2> HIDE DEF decision
  <2> QED BY <1>1, <2>1 DEF decision
<1> HIDE DEF found, blocked
<1>5. e = EnterAt(c, s, blocked, i, atr) /\ gap.born + 1 < i
  BY <1>1, <1>2, <1>4, DeadNotReady DEF Retestable
<1>6. \E zone, level : e = Enter(blocked, zone, level, i)
  BY <1>5 DEF EnterAt, EnterZone
<1>7. PICK zone, level : e = Enter(blocked, zone, level, i)
  BY <1>6
<1>8. e = [blocked EXCEPT !.st = "READY", !.at = i + 1, !.zone = zone, !.level = level.level, !.retest = i]
  BY <1>1, <1>2, <1>7, DeadNotReady DEF Enter
<1>9. /\ e.sweep = blocked.sweep /\ e.mss = blocked.mss /\ e.leg = blocked.leg
      /\ e.gap = blocked.gap /\ e.at = i + 1 /\ e.retest = i
  BY <1>2, <1>8 DEF IsSetup
<1> QED BY <1>1, <1>3, <1>5, <1>9 DEF Entered

\* The loop ends with an entry in one of the bars after the gap, or not ready.
LEMMA LoopEnters ==
    ASSUME NEW c, NEW s, NEW legged, IsSetup(legged), NEW ev, NEW gap, NEW blocks, NEW atr,
           RetestLoop(c, s, legged, ev, gap, blocks, atr).st = "READY"
    PROVE  /\ gap # None
           /\ \E i \in gap[1].born + 1 .. Len(s) :
                Entered(RetestLoop(c, s, legged, ev, gap, blocks, atr), legged, gap[1], i)
<1> DEFINE Decision(i) == Retest(c, s, legged, ev, gap[1], blocks, atr, i)
           decided == {i \in gap[1].born + 1 .. Len(s) : Decision(i) # None}
           made == OneOf({Decision(i)[1] : i \in FirstOf(decided)})
           waiting == [legged EXCEPT !.st = "WAITING_RETRACE", !.gap = gap]
<1>1. PICK e : e = RetestLoop(c, s, legged, ev, gap, blocks, atr)
  OBVIOUS
<1>2. gap # None /\ e = Waited(c, legged, gap, made, Len(s))
  BY <1>1, DeadNotReady DEF RetestLoop
<1>3. made # None
  <2> SUFFICES ASSUME made = None PROVE FALSE
    OBVIOUS
  <2>1. \E total, stage, why : e = Stage(c, waiting, total, stage, why)
    BY <1>2 DEF Waited
  <2>2. IsSetup(waiting) /\ waiting.st = "WAITING_RETRACE"
    BY DEF IsSetup, Fields
  <2> HIDE DEF waiting
  <2> QED BY <1>1, <2>1, <2>2, StageNotReady
<1>4. e = made[1]
  BY <1>2, <1>3 DEF Waited
<1>5. made[1] \in {Decision(i)[1] : i \in FirstOf(decided)}
  BY <1>3, OneOfMember
<1>6. PICK i \in decided : e = Decision(i)[1]
  BY <1>4, <1>5 DEF FirstOf
<1>7. Entered(e, legged, gap[1], i)
  BY <1>1, <1>6, RetestEnters
<1> QED BY <1>1, <1>2, <1>6, <1>7

\* A sweep is ready only in causal order, whatever way its evaluation took.
LEMMA SweepCausal ==
    ASSUME NEW c, NEW s, NEW sweep, NEW ev, NEW blocks, NEW atr,
           ev.mss # None => sweep.ts < ev.mss[1].ts
    PROVE  Causal(EvaluateSweep(c, s, sweep, ev, blocks, atr), Len(s))
<1> DEFINE forming == Setup(sweep, "FORMING", Len(s) + 1, "NONE")
           shifted == [forming EXCEPT !.mss = ev.mss]
           legged == [shifted EXCEPT !.leg = ev.leg]
           gap == SelectGap(c, ev.gaps, ev.leg[1], ev.mss[1], s[ev.mss[1].ts].c)
<1>1. PICK e : e = EvaluateSweep(c, s, sweep, ev, blocks, atr)
  OBVIOUS
<1>2. IsSetup(forming) /\ IsSetup(shifted) /\ IsSetup(legged)
  BY DEF IsSetup, Fields, Setup
<1>3. /\ forming.st = "FORMING" /\ shifted.st = "FORMING"
      /\ legged.sweep = sweep /\ legged.mss = ev.mss /\ legged.leg = ev.leg
  BY DEF Setup
<1> SUFFICES ASSUME e.st = "READY" PROVE Causal(e, Len(s))
  BY <1>1 DEF Causal
<1> HIDE DEF forming, shifted, legged
<1>4. ev.mss # None /\ e = EvaluateShift(c, s, shifted, ev, blocks, atr)
  <2>1. \/ \E at, why : e = Dead(forming, at, why)
        \/ \E total, stage, why : e = Stage(c, forming, total, stage, why)
        \/ ev.mss # None /\ e = EvaluateShift(c, s, shifted, ev, blocks, atr)
    BY <1>1 DEF EvaluateSweep, forming, shifted
  <2> QED BY <1>2, <1>3, <2>1, DeadNotReady, StageNotReady
<1>5. e = RetestLoop(c, s, legged, ev, gap, blocks, atr)
  <2>1. \/ \E at, why : e = Dead(shifted, at, why)
        \/ \E total, stage, why : e = Stage(c, shifted, total, stage, why)
        \/ e = RetestLoop(c, s, legged, ev, gap, blocks, atr)
    BY <1>4 DEF EvaluateShift, legged
  <2> QED BY <1>2, <1>3, <2>1, DeadNotReady, StageNotReady
<1>6. gap # None /\ \E i \in gap[1].born + 1 .. Len(s) : Entered(e, legged, gap[1], i)
  <2> HIDE DEF gap
  <2> QED BY <1>2, <1>5, LoopEnters
<1>7. PICK i \in gap[1].born + 1 .. Len(s) : Entered(e, legged, gap[1], i)
  BY <1>6
<1>8. ev.mss[1].ts < gap[1].born /\ gap[1].born <= ev.leg[1].end
  BY <1>6, SelectedGap
<1>9. i <= Len(s)
  <2> HIDE DEF gap
  <2> QED BY <1>7
<1>10. e.gap[1] = gap[1]
  <2> HIDE DEF gap
  <2> QED BY <1>7 DEF Entered
<1> HIDE DEF gap
<1> QED BY <1>3, <1>4, <1>7, <1>8, <1>9, <1>10 DEF Entered, Causal

\* So is every setup of an evaluation.
LEMMA EntriesCausal ==
    ASSUME NEW c, NEW s, NEW liq, NEW events, NEW legs, NEW gaps, NEW blocks, NEW atr
    PROVE  LET entries == AnalyzeEntries(c, s, liq, events, legs, gaps, blocks, atr)
           IN  \A n \in DOMAIN entries : Causal(entries[n], Len(s))
<1> DEFINE sweeps == SelectSeq(liq.interactions, IsSweep)
           Found(w) == Gather(c, w, liq.interactions, events, legs, gaps, DualIds(liq.dual))
           Outcome(n) == EvaluateSweep(c, s, sweeps[n], Found(sweeps[n]), blocks, atr)
<1>1. AnalyzeEntries(c, s, liq, events, legs, gaps, blocks, atr) = [n \in 1..Len(sweeps) |-> Outcome(n)]
  BY DEF AnalyzeEntries
<1>2. ASSUME NEW n
      PROVE  Causal(Outcome(n), Len(s))
  BY GatheredShift, SweepCausal
<1> HIDE DEF Outcome, sweeps
<1> QED BY <1>1, <1>2

-----------------------------------------------------------------------------
(* Evaluations *)

FeatureFields == {"structures", "ind", "fvg", "liq", "disp", "blocks", "entries"}
HasFeatures(f) == f = [x \in FeatureFields |-> f[x]]

\* The setups of an evaluation are those of the entry model, over the signal's bars.
LEMMA FeaturesEntries ==
    ASSUME NEW c, NEW res
    PROVE  \E liq, events, legs, gaps, blocks, atr :
             Features(c, res).entries = AnalyzeEntries(c, Bars(res, c), liq, events, legs, gaps, blocks, atr)
<1>1. PICK s : s = Bars(res, c)
  OBVIOUS
<1>2. PICK f : f = WithStructures(c, res)
  OBVIOUS
<1>3. HasFeatures(f)
  BY <1>2 DEF WithStructures, HasFeatures, FeatureFields
<1>4. PICK zoned : zoned = WithZones(c, s, f)
  OBVIOUS
<1>5. HasFeatures(zoned)
  BY <1>3, <1>4 DEF WithZones, HasFeatures, FeatureFields
<1>6. PICK legged : legged = WithLegs(c, s, zoned)
  OBVIOUS
<1>7. HasFeatures(legged)
  BY <1>5, <1>6 DEF WithLegs, HasFeatures, FeatureFields
<1>8. PICK blocked : blocked = WithBlocks(c, s, legged)
  OBVIOUS
<1>9. HasFeatures(blocked)
  BY <1>7, <1>8 DEF WithBlocks, HasFeatures, FeatureFields
<1>10. Features(c, res) = WithEntries(c, s, blocked)
  BY <1>1, <1>2, <1>4, <1>6, <1>8 DEF Features, SignalFeatures
<1>11. \A setups : [blocked EXCEPT !.entries = setups].entries = setups
  BY <1>9 DEF HasFeatures, FeatureFields
<1>12. WithEntries(c, s, blocked).entries =
         AnalyzeEntries(c, s, blocked.liq, SignalStructure(c, blocked).events, blocked.disp.legs,
                        blocked.fvg.zones, blocked.blocks.zones, SignalAtr(blocked, s))
  BY <1>11 DEF WithEntries
<1> QED BY <1>1, <1>10, <1>12

\* What EvidenceInOrder says of an evaluation.
InOrder(c, r) == r.fed => \A n \in DOMAIN r.f.entries : Causal(r.f.entries[n], Len(Bars(r.res, c)))

\* Every evaluation of every series is in order.
LEMMA EvaluationInOrder ==
    ASSUME NEW c, NEW series, NEW now
    PROVE  InOrder(c, Evaluate(c, series, now))
<1>1. PICK r : r = Evaluate(c, series, now)
  OBVIOUS
<1>2. PICK res : res = AllResampled(c, series, now)
  OBVIOUS
<1>3. PICK f : f = Features(c, res)
  OBVIOUS
<1>4. \/ \E why : r = Early(res, why)
      \/ r = EvaluateFeatures(c, res, f, now)
  BY <1>1, <1>2, <1>3 DEF Evaluate, EvaluateBars
<1>5. ASSUME NEW why, r = Early(res, why)
      PROVE  InOrder(c, r)
  <2>1. r.fed = FALSE
    BY <1>5 DEF Early
  <2> QED BY <2>1 DEF InOrder
<1>6. ASSUME r = EvaluateFeatures(c, res, f, now)
      PROVE  InOrder(c, r)
  <2>1. r.res = res /\ r.f = f
    BY <1>6 DEF EvaluateFeatures, Answered
  <2>2. PICK s : s = Bars(res, c)
    OBVIOUS
  <2>3. PICK liq, events, legs, gaps, blocks, atr :
          f.entries = AnalyzeEntries(c, s, liq, events, legs, gaps, blocks, atr)
    BY <1>3, <2>2, FeaturesEntries
  <2>4. PICK entries : entries = AnalyzeEntries(c, s, liq, events, legs, gaps, blocks, atr)
    OBVIOUS
  <2>5. \A n \in DOMAIN entries : Causal(entries[n], Len(s))
    BY <2>4, EntriesCausal
  <2>6. \A n \in DOMAIN f.entries : Causal(f.entries[n], Len(Bars(res, c)))
    BY ONLY <2>2, <2>3, <2>4, <2>5
  <2> QED BY <2>1, <2>6 DEF InOrder
<1> QED BY <1>1, <1>4, <1>5, <1>6

-----------------------------------------------------------------------------
(* The theorem *)

\* A ready setup's sweep, shift, gap and retest follow each other, whatever market
\* the engine meets and whatever its configuration and detectors are.
THEOREM EvidenceOrdered == Spec => []EvidenceInOrder
<1>1. Init => EvidenceInOrder
  <2> SUFFICES ASSUME Init PROVE EvidenceInOrder
    OBVIOUS
  <2>1. ref = Evaluate(cfg, << >>, 0)
    BY DEF Init
  <2>2. InOrder(cfg, ref)
    BY <2>1, EvaluationInOrder
  <2> QED BY <2>2 DEF InOrder, EvidenceInOrder
<1>2. EvidenceInOrder /\ [Next]_vars => EvidenceInOrder'
  <2> SUFFICES ASSUME EvidenceInOrder, [Next]_vars PROVE EvidenceInOrder'
    OBVIOUS
  <2>1. ASSUME cfg' = cfg, \E series, known : Evaluated(series, known)
        PROVE  EvidenceInOrder'
    <3>1. PICK series : ref' = Evaluate(cfg, series, Now(series))
      BY <2>1 DEF Evaluated, Recorded
    <3>2. PICK r : r = ref'
      OBVIOUS
    <3>3. InOrder(cfg, r)
      BY <3>1, <3>2, EvaluationInOrder
    <3> QED BY <2>1, <3>2, <3>3 DEF InOrder, EvidenceInOrder
  <2>2. CASE Observe
    BY <2>1, <2>2 DEF Observe
  <2>3. CASE Miss
    BY <2>1, <2>3 DEF Miss
  <2>4. CASE Reload
    BY <2>1, <2>4 DEF Reload
  <2>5. CASE UNCHANGED vars
    BY <2>5 DEF vars, EvidenceInOrder
  <2> QED BY <2>2, <2>3, <2>4, <2>5 DEF Next
<1> QED BY <1>1, <1>2, PTL DEF Spec
================================================================================
