------------------------------ MODULE SignalRecord -----------------------------
(* A persisted signal: the row of the signals table, what SignalRepository      *)
(* writes into it, and the four gates a write passes before it commits: the     *)
(* repository, the ORM listener, the PostgreSQL trigger and the read schema.    *)
(* An update is one replay: its lifecycle, entry execution and exit execution.  *)
EXTENDS SignalLifecycle

Absent == [status |-> "ABSENT", entry |-> NoEntry, exit |-> NoExit]

\* SignalRepository.create: a tradable signal starts WAITING without events.
NewRecord(s, final) ==
    [status |-> IF final = "NO_TRADE" THEN "NULL" ELSE "WAITING", activated |-> NoTime, closed |-> NoTime,
     events |-> <<>>, result |-> "NULL", pnl |-> "NULL", entry |-> NoEntry, exit |-> NoExit,
     createdAt |-> s.createdAt, planned |-> Distance(s.ref, s.sl)]

TerminalResult(status) ==
    CASE status = "TP_HIT" -> << "WIN", "RISK_REWARD" >>
      [] status = "SL_HIT" -> << "LOSS", "MINUS_ONE" >>
      [] status = "CANCELLED" -> << "CANCELLED", "ZERO" >>
      [] status = "AMBIGUOUS" -> << "AMBIGUOUS", "NULL" >>
      [] OTHER -> << "NULL", "NULL" >>

--------------------------------------------------------------------------------
(* The repository.                                                                *)

\* SignalExecutionPersistenceUpdate: the evidence a lifecycle must come with.
EvidenceFlow(lc, entry, exit) ==
    /\ entry.executed <=> lc.activated # NoTime
    /\ entry.executed => entry.at = lc.activated
    /\ IF lc.status \in {"TP_HIT", "SL_HIT"}
       THEN exit.reason = IF lc.status = "TP_HIT" THEN "TAKE_PROFIT" ELSE "STOP_LOSS"
       ELSE exit = NoExit

TerminalEventPrice(s, lc) ==
    lc.status \in Terminal =>
        Last(lc.events).price = CASE lc.status = "TP_HIT" -> s.tp [] lc.status = "SL_HIT" -> s.sl
                                  [] OTHER -> NoPrice

MatchesRecord(s, row, u) ==
    /\ u.entry.executed => u.entry.requested = s.ref /\ u.entry.planned = row.planned
    /\ u.exit # NoExit => /\ u.exit.requested = IF u.lc.status = "TP_HIT" THEN s.tp ELSE s.sl
                          /\ Last(u.lc.events).bar = u.exit.bar

\* apply_lifecycle's assignments; without entry evidence the columns keep theirs.
Projected(row, u) ==
    [row EXCEPT !.status = u.lc.status, !.activated = u.lc.activated, !.closed = u.lc.terminal,
                !.events = u.lc.events,
                !.result = TerminalResult(u.lc.status)[1], !.pnl = TerminalResult(u.lc.status)[2],
                !.entry = IF u.entry.executed THEN u.entry ELSE @,
                !.exit = IF u.entry.executed /\ u.exit # NoExit THEN u.exit ELSE @]

\* What a row shows of a life, and what an update would show of it.
RecordLifecycleProjection(row) ==
    [status |-> row.status, activated |-> row.activated, closed |-> row.closed, events |-> row.events,
     result |-> << row.result, row.pnl >>, execution |-> << row.entry, row.exit >>]
ExecutionProjection(entry, exit) ==
    IF entry.executed THEN << entry, exit >> ELSE << NoEntry, NoExit >>
LifecycleProjection(u) ==
    [status |-> u.lc.status, activated |-> u.lc.activated, closed |-> u.lc.terminal, events |-> u.lc.events,
     result |-> TerminalResult(u.lc.status), execution |-> ExecutionProjection(u.entry, u.exit)]

MutMayFollow(row, u) == row.status \in Terminal => RecordLifecycleProjection(row) = LifecycleProjection(u)
\* A terminal row only meets an identical replay; an active row never waits again.
MayFollow(row, u) ==
    /\ row.status \in Terminal => RecordLifecycleProjection(row) = LifecycleProjection(u)
    /\ ~(row.status = "ACTIVE" /\ u.lc.status = "WAITING")

RepositoryAccepts(s, row, u) ==
    /\ row.status \notin {"ABSENT", "NULL"}
    /\ TerminalEventPrice(s, u.lc)
    /\ EvidenceFlow(u.lc, u.entry, u.exit)
    /\ MatchesRecord(s, row, u)
    /\ MayFollow(row, u)

--------------------------------------------------------------------------------
(* The ORM listener: terminal rows, activation, entry evidence and closing time   *)
(* are write-once.                                                                *)

OrmAccepts(old, new) ==
    /\ old.status \in Terminal => new = old
    /\ old.activated # NoTime => new.activated = old.activated
    /\ old.status \in Terminal \cup {"ACTIVE"} => new.entry = old.entry
    /\ old.closed # NoTime => new.closed = old.closed

--------------------------------------------------------------------------------
(* Row validity, shared by the trigger, the CHECK constraints and the read schema. *)

\* Which of activation, closing time, result and planned R a status goes with.
StateFields(row) ==
    /\ << row.result, row.pnl >> = TerminalResult(row.status)
    /\ row.closed # NoTime <=> row.status \in Terminal
    /\ row.status \in {"ACTIVE", "TP_HIT", "SL_HIT"} => row.activated # NoTime
    /\ row.status \in {"NULL", "WAITING", "CANCELLED"} => row.activated = NoTime

TimeOrder(row) ==
    /\ row.activated # NoTime => row.activated >= row.createdAt
    /\ row.closed # NoTime => row.closed >= Max({row.createdAt, row.activated})

\* signal_lifecycle_state_is_valid: the last event tells how the row got there.
\* The statuses an event goes from and to are fixed by its type and reason.
LastEventFits(s, row) ==
    LET e == Last(row.events)
        fits(type, at, price, reasons, count) ==
            /\ Len(row.events) >= count /\ e.type = type /\ e.at = at
            /\ e.reason \in reasons /\ price = e.price
    IN  CASE row.status = "NULL" -> row.events = <<>>
          [] row.status = "WAITING" ->
                \/ row.events = <<>>
                \/ Len(row.events) = 1 /\ fits("CREATED", row.createdAt, NoPrice, {"SIGNAL_CREATED"}, 1)
          [] row.status = "ACTIVE" ->
                e.price # NoPrice /\ fits("ACTIVATED", row.activated, e.price, {"ENTRY_EXECUTION_CONFIRMED"}, 2)
          [] row.status = "TP_HIT" -> fits("TP_HIT", row.closed, s.tp, {"TAKE_PROFIT_TOUCHED"}, 3)
          [] row.status = "SL_HIT" ->
                fits("SL_HIT", row.closed, s.sl, {"STOP_LOSS_TOUCHED", "CONSERVATIVE_STOP_FIRST"}, 3)
          [] row.status = "CANCELLED" ->
                fits("CANCELLED", row.closed, NoPrice, {"STRUCTURAL_INVALIDATION_BEFORE_ENTRY"}, 2)
          [] row.status = "AMBIGUOUS" ->
                IF row.activated = NoTime
                THEN fits("AMBIGUOUS", row.closed, NoPrice, {"ENTRY_AND_INVALIDATION_ORDER_UNKNOWN"}, 2)
                ELSE fits("AMBIGUOUS", row.closed, NoPrice,
                          {"TP_AND_SL_TOUCHED_SAME_CANDLE", "ENTRY_AND_EXIT_ORDER_UNKNOWN"}, 2)

\* Which evidence a status carries.
EvidenceShape(row) ==
    /\ row.entry.executed <=> row.activated # NoTime
    /\ row.exit # NoExit <=> row.status \in {"TP_HIT", "SL_HIT"}

\* signal_execution_evidence_is_valid: the arithmetic of a row's evidence.
EntryArithmetic(s, row) ==
    row.entry.executed =>
        /\ row.entry.requested = s.ref /\ row.planned = Distance(s.ref, s.sl)
        /\ row.entry.at = row.activated /\ row.entry.bar <= row.entry.at
        /\ row.entry.slip = Distance(row.entry.price, row.entry.base * Bps)
        /\ row.entry.risk = Distance(row.entry.price, s.sl * Bps)

ExitArithmetic(s, row) ==
    LET x == row.exit IN
    x # NoExit =>
        /\ x.bar <= x.at
        /\ x.slip = Distance(x.price, x.base * Bps) /\ x.total = row.entry.slip + x.slip
        /\ x.gapSlip = Distance(x.base, x.requested) /\ (~x.gap => x.gapSlip = 0)
        /\ IF row.status = "TP_HIT" THEN x.reason = "TAKE_PROFIT" /\ x.requested = s.tp
                                    ELSE x.reason = "STOP_LOSS" /\ x.requested = s.sl
        /\ x.gross = IF s.dir = "LONG" THEN x.price - row.entry.price ELSE row.entry.price - x.price
        /\ x.net = x.gross - x.spread - x.commission
        /\ x.outcome = ClassifyFinancialOutcome(x.net)

\* The CHECKs of the table that need no other column of the lifecycle: a tradable row
\* has directional levels, its prices and risks are positive, its costs are not negative.
ValueDomains(s, row) ==
    /\ row.status # "NULL" => LevelsHold(s) /\ row.planned = Distance(s.ref, s.sl) /\ row.planned > 0
    /\ row.entry.executed => 0 < Min({row.entry.base, row.entry.price, row.entry.risk})
    /\ row.entry.executed => 0 <= Min({row.entry.slip, row.entry.spread})
    /\ row.exit # NoExit => /\ 0 < Min({row.exit.requested, row.exit.base, row.exit.price})
                            /\ 0 <= Min({row.exit.slip, row.exit.total, row.exit.gapSlip, row.exit.commission})

RowIsValid(s, row) ==
    /\ ValueDomains(s, row) /\ StateFields(row) /\ TimeOrder(row) /\ LastEventFits(s, row)
    /\ EvidenceShape(row) /\ EntryArithmetic(s, row) /\ ExitArithmetic(s, row)

--------------------------------------------------------------------------------
(* prevent_signal_history_mutation, the trigger.                                  *)

InsertAccepted(s, new) == new.status \in {"NULL", "WAITING"} /\ RowIsValid(s, new)

\* What each status lets the next row change.
Transition(old, new) ==
    /\ old.status \in Terminal => new = old
    /\ old.status = "NULL" => new = old
    /\ old.status = "WAITING" /\ new.status = "WAITING" => old.events \in {<<>>, new.events}
    /\ old.status = "ACTIVE" => /\ new.status \notin {"WAITING", "CANCELLED"}
                                /\ new.activated = old.activated /\ new.entry = old.entry
                                /\ new.status = "ACTIVE" => new = old

UpdateAccepted(s, old, new) ==
    /\ new.createdAt = old.createdAt /\ new.planned = old.planned
    /\ Transition(old, new)
    /\ old.activated # NoTime => new.activated = old.activated
    /\ old.closed # NoTime => new.closed = old.closed
    /\ RowIsValid(s, new)

\* SignalPersistenceRead rebuilds the typed evidence before the commit.
ReadAccepted(s, row) == RowIsValid(s, row) /\ EntryEvidenceHolds(s, row.entry)
===============================================================================
