----------------------------- MODULE TradeDecision -----------------------------
(***************************************************************************)
(* The score of a setup's evidence (engines/signal/score.py) and the risk    *)
(* plan of a ready setup (engines/risk/calculations.py).                     *)
(*                                                                         *)
(* Prices are whole ticks; an average true range is in ticks times cfg.unit; *)
(* ratios are numerators over cfg.dDen.                                     *)
(***************************************************************************)
EXTENDS Integers, SequencesExt

\* _crt_contribution and _crt_match_status.  crt is none or one confirmation.
CrtContribution(cfg, crt) ==
    IF ~cfg.crtEnabled \/ cfg.crtWeight = << >> \/ crt = << >> THEN 0
    ELSE IF crt[1].dir = "BULLISH" THEN cfg.crtWeight[1] ELSE -cfg.crtWeight[1]
CrtStatus(cfg, decision, crt) ==
    IF ~cfg.crtEnabled THEN "DISABLED"
    ELSE IF cfg.crtUses = {} /\ cfg.crtWeight = << >> THEN "NOT_USED"
    ELSE IF crt = << >> THEN "MISSING"
    ELSE IF decision = "NO_TRADE" THEN "NOT_USED"
    ELSE IF crt[1].dir = (IF decision = "LONG" THEN "BULLISH" ELSE "BEARISH") THEN "MATCH"
    ELSE "DIRECTION_CONFLICT"

\* calculate_signal_score.  evidence: components [name |-> [dir, at]], conflict, crt.
Signed(dir, weight) == IF dir = "BULLISH" THEN weight ELSE IF dir = "BEARISH" THEN -weight ELSE 0

Score(cfg, evidence) ==
    LET named == DOMAIN cfg.weights \cap DOMAIN evidence.components
        total == CrtContribution(cfg, evidence.crt)
                 + MapThenSumSet(LAMBDA n : Signed(evidence.components[n].dir, cfg.weights[n]), named)
        first == IF evidence.conflict /\ cfg.vetoConflict THEN "NO_TRADE"
                 ELSE IF total >= cfg.longAt THEN "LONG"
                 ELSE IF total <= cfg.shortAt THEN "SHORT" ELSE "NO_TRADE"
        status == CrtStatus(cfg, first, evidence.crt)
        filtered == "FILTER" \in cfg.crtUses /\ status \in {"MISSING", "DIRECTION_CONFLICT"}
    IN  [score |-> total, status |-> status,
         decision |-> IF first # "NO_TRADE" /\ cfg.crtEnabled /\ filtered THEN "NO_TRADE" ELSE first]

\* SignalScoreEvidence.prevent_future_evidence
KnownAt(evidence, now) ==
    /\ \A n \in DOMAIN evidence.components : evidence.components[n].at <= now
    /\ evidence.crt = << >> \/ evidence.crt[1].at <= now

-----------------------------------------------------------------------------
(* The risk plan *)

\* _entry_reference, rounded half up to a tick.
EntryReference(cfg, dir, zone) ==
    CASE cfg.entryRef = "MIDPOINT" -> (zone.lo + zone.hi + 1) \div 2
      [] cfg.entryRef = "NEAR_EDGE" -> IF dir = "BULLISH" THEN zone.hi ELSE zone.lo
      [] OTHER -> IF dir = "BULLISH" THEN zone.lo ELSE zone.hi

\* _select_target_pool: the nearest active opposing pool beyond the entry.
\* (Mutant: a pool that was swept still counts.)
MutTargetable(pool, at) == pool.created <= at /\ pool.upd <= at /\ pool.st \in {"ACTIVE", "SWEPT"}
Targetable(pool, at) == pool.created <= at /\ pool.upd <= at /\ pool.st = "ACTIVE"

TargetPool(cfg, dir, entry, pools, at) ==
    LET Near(p) == IF dir = "BULLISH" THEN p.lo ELSE -p.hi
        fits == {p \in ToSet(pools) :
                   /\ Targetable(p, at)
                   /\ p.dir = (IF dir = "BULLISH" THEN "BUY" ELSE "SELL")
                   /\ IF dir = "BULLISH" THEN p.lo > entry + cfg.targetMin ELSE p.hi < entry - cfg.targetMin}
    IN  IF fits = {} THEN << >>
        ELSE <<CHOOSE p \in fits : \A q \in fits :
                 \/ Near(p) < Near(q)
                 \/ Near(p) = Near(q) /\ p.created <= q.created>>

\* calculate_risk_plan for a ready setup confirmed at at.
RiskPlan(cfg, setup, pools, atr) ==
    LET up == setup.dir = "BULLISH"
        zone == setup.zone[1]
        entry == EntryReference(cfg, setup.dir, zone)
        scale == cfg.unit * cfg.dDen
        buffer == Max({cfg.stopTicks * scale, IF atr > 0 THEN cfg.stopAtr * atr ELSE 0})
        \* rounded away from the entry
        stop == IF up THEN (setup.level[1] * scale - buffer) \div scale
                ELSE -((-(setup.level[1] * scale + buffer)) \div scale)
        risk == IF up THEN entry - stop ELSE stop - entry
        target == TargetPool(cfg, setup.dir, entry, pools, setup.at)
        take == IF up THEN target[1].lo ELSE target[1].hi
        reward == IF up THEN take - entry ELSE entry - take
        ordered == IF up THEN stop < zone.lo /\ zone.hi < take ELSE take < zone.lo /\ zone.hi < stop
        why == IF cfg.stopAtr > 0 /\ atr <= 0 THEN "ATR_UNAVAILABLE"
               ELSE IF stop <= 0 \/ risk <= 0 THEN "STOP_LEVEL_INVALID"
               ELSE IF risk < cfg.riskMin THEN "RISK_DISTANCE_BELOW_MINIMUM"
               ELSE IF atr <= 0 THEN "ATR_UNAVAILABLE"
               ELSE IF risk * scale > cfg.riskMaxAtr * atr THEN "RISK_DISTANCE_ABOVE_ATR_MAXIMUM"
               ELSE IF target = << >> THEN "STRUCTURAL_TARGET_UNAVAILABLE"
               ELSE IF ~ordered THEN "DIRECTIONAL_LEVELS_INVALID"
               ELSE IF reward <= 0 THEN "REWARD_DISTANCE_INVALID"
               ELSE IF reward * cfg.dDen < cfg.minRr * risk THEN "RR_BELOW_MINIMUM"
               ELSE "RISK_ACCEPTED"
    IN  IF why # "RISK_ACCEPTED" THEN [decision |-> "NO_TRADE", why |-> why]
        ELSE [decision |-> IF up THEN "LONG" ELSE "SHORT", why |-> why, zone |-> zone, entry |-> entry,
              take |-> take, stop |-> stop, risk |-> risk, reward |-> reward, pool |-> target[1].id]

\* The check calculate_risk_plan makes of its pools.
PointInTime(pools, at) == \A n \in 1..Len(pools) : ~(pools[n].created <= at /\ at < pools[n].upd)

\* The levels of a trade, as every type that carries them checks them: the entry
\* in its zone, stop and target on their sides of it.
Directional(plan) ==
    /\ plan.stop > 0 /\ plan.take > 0
    /\ plan.zone.lo <= plan.entry /\ plan.entry <= plan.zone.hi
    /\ IF plan.decision = "LONG" THEN plan.stop < plan.zone.lo /\ plan.zone.hi < plan.take
                                 ELSE plan.take < plan.zone.lo /\ plan.zone.hi < plan.stop

\* RiskPlan.validate_plan
ValidPlan(plan) ==
    plan.decision # "NO_TRADE" =>
      /\ Directional(plan) /\ plan.risk > 0 /\ plan.reward > 0
      /\ IF plan.decision = "LONG"
         THEN plan.risk = plan.entry - plan.stop /\ plan.reward = plan.take - plan.entry
         ELSE plan.risk = plan.stop - plan.entry /\ plan.reward = plan.entry - plan.take

\* DeterministicSignalCandidate.validate_candidate: its ratio is that of its own levels.
ValidCandidate(plan) ==
    LET risk == IF plan.decision = "LONG" THEN plan.entry - plan.stop ELSE plan.stop - plan.entry
        reward == IF plan.decision = "LONG" THEN plan.take - plan.entry ELSE plan.entry - plan.take
    IN  /\ plan.decision # "NO_TRADE" /\ Directional(plan)
        /\ risk > 0 /\ reward > 0 /\ plan.reward * risk = reward * plan.risk
===============================================================================
