-------------------------- MODULE SignalHistory_proofs --------------------------
(***************************************************************************)
(* Proofs about signals, for any series, candidates, scenarios and callers: *)
(* replays from scratch and rows written late, twice and concurrently each  *)
(* implement SignalContract, no replay knows more than its cutoff, the      *)
(* report's drawdown is the deepest fall of its equity, and every outcome   *)
(* it reports is the only one the candles leave possible.                   *)
(***************************************************************************)
EXTENDS SignalHistory, SequenceTheorems, Sums_proofs

-----------------------------------------------------------------------------
(* The replay, bar after bar *)

\* f is what the replay has made of the signal after each of the bars.
Traces(f, s, bars, d, inv, k) ==
    f = [n \in 0..Len(bars) |->
            IF n = 0 THEN Opened(s, inv) ELSE ReplayBar(s, bars, d, inv, k, f[n - 1], n)]

\* There is such a function, and the replay is its last value.
LEMMA ReplayTrace ==
    ASSUME NEW s, NEW bars, NEW d, NEW inv, NEW k, Len(bars) \in Nat
    PROVE  \E f : /\ Traces(f, s, bars, d, inv, k)
                  /\ ReplaySignalLifecycle(s, bars, d, inv, k) = f[Len(bars)]
<1> DEFINE e(f, n) == IF n = 0 THEN Opened(s, inv) ELSE ReplayBar(s, bars, d, inv, k, f[n - 1], n)
           part(f, m) == f = [n \in 0..m |-> e(f, n)]
           bad == {m \in Nat : ~ \E f : part(f, m)}
<1>1. ASSUME NEW m \in Nat, m \in bad, \A j \in bad : m <= j
      PROVE  FALSE
  <2>1. PICK f : m > 0 => part(f, m - 1)
    <3>1. CASE m = 0
      BY <3>1
    <3>2. CASE m > 0
      <4>1. m - 1 \in Nat /\ ~(m <= m - 1)
        BY <3>2
      <4>2. m - 1 \notin bad
        <5> HIDE DEF bad
        <5> QED BY <4>1, <1>1
      <4> QED BY <4>1, <4>2
    <3> QED BY <3>1, <3>2
  <2> DEFINE h == [n \in 0..m |-> e(f, n)]
  <2>2. ASSUME NEW n \in 0..m
        PROVE  e(h, n) = e(f, n)
    <3>1. CASE n = 0
      BY <3>1
    <3>2. CASE n # 0
      <4>1. n - 1 \in 0..m /\ n - 1 \in 0..(m - 1) /\ m > 0
        BY <3>2
      <4>2. part(f, m - 1)
        BY <4>1, <2>1
      <4> HIDE DEF e
      <4>3. f[n - 1] = e(f, n - 1)
        BY <4>1, <4>2
      <4>4. h[n - 1] = e(f, n - 1)
        BY <4>1
      <4>5. h[n - 1] = f[n - 1]
        BY <4>3, <4>4
      <4> HIDE DEF h
      <4> QED BY <3>2, <4>5 DEF e
    <3> QED BY <3>1, <3>2
  <2> HIDE DEF e
  <2>3. part(h, m)
    <3>1. h = [n \in 0..m |-> e(h, n)]
      BY <2>2
    <3> QED BY <3>1
  <2>4. \E g : part(g, m)
    BY <2>3
  <2> QED BY <2>4, <1>1
<1>2. bad = {}
  <2> SUFFICES ASSUME bad # {} PROVE FALSE
    OBVIOUS
  <2>1. bad \in SUBSET Nat
    OBVIOUS
  <2> HIDE DEF bad
  <2>2. PICK m \in bad : \A j \in bad : m <= j
    BY <2>1, LeastNat
  <2> QED BY <2>1, <2>2, <1>1
<1>3. \E f : part(f, Len(bars))
  <2> HIDE DEF part
  <2> QED BY <1>2
<1>4. \E f : Traces(f, s, bars, d, inv, k)
  BY <1>3 DEF Traces
<1> QED BY <1>4 DEF Traces, ReplaySignalLifecycle

-----------------------------------------------------------------------------
(* What a replay looks like *)

Numbers(s) == /\ s.low \in Int /\ s.high \in Int /\ s.ref \in Int /\ s.tp \in Int /\ s.sl \in Int
              /\ s.createdAt \in Nat
Costs(k) == k.slippage \in Int /\ k.spread \in Int /\ k.commission \in Int

\* A sequence of whatever elements.
IsSeq(e) == Len(e) \in Nat /\ e = [n \in 1..Len(e) |-> e[n]]

\* A fill of the signal in a bar that ended by t.
EntryFill(s, e) ==
    /\ e.executed = TRUE /\ e.requested = s.ref /\ e.planned = Distance(s.ref, s.sl)
    /\ e.base \in Int /\ e.price \in Int /\ e.risk \in Int /\ e.planned \in Int
    /\ e.slip \in Int /\ e.spread \in Int /\ e.at \in Int /\ e.bar \in Int /\ e.bar <= e.at
IsEntry(s, e, t) == /\ EntryFill(s, e) /\ s.createdAt <= e.bar /\ e.at <= t
                    /\ EntryEvidenceHolds(s, e)

\* The last event tells how the signal ended.
LastEvent(lc, type, price, reasons) ==
    LET e == Last(lc.events)
    IN  e.type = type /\ e.at = lc.terminal /\ e.price = price /\ e.reason \in reasons

EndedBy(s, lc, t) == lc.terminal \in Int /\ s.createdAt <= lc.terminal /\ lc.terminal <= t

\* The position was opened by the captured entry, and closed in a later or the same bar.
Entered(s, lc, t) == IsEntry(s, lc.captured, t) /\ lc.activated = lc.captured.at
Left(s, lc, t) == /\ Entered(s, lc, t) /\ EndedBy(s, lc, t) /\ lc.activated <= lc.terminal
                  /\ Len(lc.events) = 3
                  /\ Last(lc.events).bar \in Int /\ Last(lc.events).bar <= lc.terminal
NotEntered(s, lc, t) == /\ lc.activated = NoTime /\ EndedBy(s, lc, t) /\ Len(lc.events) = 2
                        /\ lc.captured = NoEntry \/ IsEntry(s, lc.captured, t)

IsWaiting(s, lc) ==
    /\ lc.status = "WAITING" /\ lc.activated = NoTime /\ lc.terminal = NoTime /\ lc.captured = NoEntry
    /\ lc.events = << Event("CREATED", s.createdAt, NoTime, NoPrice, "SIGNAL_CREATED") >>
IsActive(s, lc, t) ==
    /\ lc.status = "ACTIVE" /\ Entered(s, lc, t) /\ lc.terminal = NoTime
    /\ lc.events = << Event("CREATED", s.createdAt, NoTime, NoPrice, "SIGNAL_CREATED"),
                      Event("ACTIVATED", lc.activated, lc.captured.bar, lc.captured.price,
                            "ENTRY_EXECUTION_CONFIRMED") >>
IsHit(s, lc, t) ==
    /\ Left(s, lc, t)
    /\ \/ lc.status = "TP_HIT" /\ LastEvent(lc, "TP_HIT", s.tp, {"TAKE_PROFIT_TOUCHED"})
       \/ lc.status = "SL_HIT" /\ LastEvent(lc, "SL_HIT", s.sl,
                                            {"STOP_LOSS_TOUCHED", "CONSERVATIVE_STOP_FIRST"})
IsCancelled(s, lc, t) ==
    /\ lc.status = "CANCELLED" /\ NotEntered(s, lc, t)
    /\ LastEvent(lc, "CANCELLED", NoPrice, {"STRUCTURAL_INVALIDATION_BEFORE_ENTRY"})
IsAmbiguous(s, lc, t) ==
    /\ lc.status = "AMBIGUOUS"
    /\ \/ /\ NotEntered(s, lc, t)
          /\ LastEvent(lc, "AMBIGUOUS", NoPrice, {"ENTRY_AND_INVALIDATION_ORDER_UNKNOWN"})
       \/ /\ Left(s, lc, t)
          /\ LastEvent(lc, "AMBIGUOUS", NoPrice, {"TP_AND_SL_TOUCHED_SAME_CANDLE", "ENTRY_AND_EXIT_ORDER_UNKNOWN"})

\* A lifecycle after the bars up to t.
LifeFields(lc) ==
    lc = [status |-> lc.status, activated |-> lc.activated, terminal |-> lc.terminal, last |-> lc.last,
          events |-> lc.events, captured |-> lc.captured, raised |-> lc.raised]
LifeTimes(lc, t) ==
    /\ lc.last \in Int /\ lc.last <= t
    /\ IsSeq(lc.events)
    /\ \A n \in 1..Len(lc.events) : lc.events[n].at \in Int /\ lc.events[n].at <= t
Life(s, lc, t) ==
    /\ LifeFields(lc) /\ lc.raised \in BOOLEAN /\ LifeTimes(lc, t)
    /\ \/ IsWaiting(s, lc) \/ IsActive(s, lc, t) \/ IsHit(s, lc, t)
       \/ IsCancelled(s, lc, t) \/ IsAmbiguous(s, lc, t)

\* b is a later replay of the signal than a: nothing that a decided is undone.
Later(a, b) ==
    /\ a.status \in Terminal => b = a
    /\ a.status = "ACTIVE" => /\ b.status \in {"ACTIVE", "TP_HIT", "SL_HIT", "AMBIGUOUS"}
                              /\ b.activated = a.activated /\ b.captured = a.captured
    /\ b.status = a.status => b = [a EXCEPT !.last = b.last]
    /\ b.status = "WAITING" => a.status = "WAITING"

-----------------------------------------------------------------------------
(* Sequences and bars *)

\* Appending to a sequence.
LEMMA AppendIs ==
    ASSUME NEW e, IsSeq(e), NEW x
    PROVE  /\ IsSeq(Append(e, x)) /\ Len(Append(e, x)) = Len(e) + 1
           /\ \A n \in 1..Len(e) : Append(e, x)[n] = e[n]
           /\ Append(e, x)[Len(e) + 1] = x /\ Last(Append(e, x)) = x
<1> DEFINE S == {e[n] : n \in 1..Len(e)} \cup {x}
<1>1. e \in Seq(S) /\ x \in S
  BY DEF IsSeq
<1> HIDE DEF S
<1>2. Append(e, x) \in Seq(S) /\ Len(Append(e, x)) = Len(e) + 1
  BY <1>1
<1>3. \A n \in 1..Len(e) : Append(e, x)[n] = e[n]
  BY <1>1
<1>4. Append(e, x)[Len(e) + 1] = x
  BY <1>1
<1>5. ASSUME NEW a \in Seq(S)
      PROVE  IsSeq(a)
  <2>1. a \in [1..Len(a) -> S] /\ Len(a) \in Nat
    OBVIOUS
  <2> QED BY <2>1 DEF IsSeq
<1>6. IsSeq(Append(e, x))
  BY <1>2, <1>5
<1> QED BY <1>2, <1>3, <1>4, <1>6 DEF Last

\* A bar opens when the one before closes.
LEMMA BarTimes ==
    ASSUME NEW n \in Nat \ {0}, NEW d \in Nat \ {0}
    PROVE  /\ (n - 1) * d \in Nat /\ n * d \in Nat
           /\ (n - 1) * d + d = n * d /\ (n - 1) * d < n * d
OBVIOUS

\* What a bar fills of a waiting signal.
LEMMA EntryCandle ==
    ASSUME NEW s, Numbers(s), NEW bars, NEW n \in Nat \ {0}, NEW d \in Nat \ {0}, NEW k, Costs(k),
           bars[n].o \in Int,
           NEW e, e = ExecuteEntryCandle(s, bars, n, d, k), e # NoEntry
    PROVE  EntryFill(s, e) /\ e.bar = (n - 1) * d /\ e.at \in {(n - 1) * d, n * d}
<1> DEFINE bar == bars[n]
           inside == bar.o \in s.low..s.high
           below == bar.o < s.low /\ bar.h >= s.low
           base == IF inside THEN bar.o ELSE IF below THEN s.low ELSE s.high
           slip == base * k.slippage
           price == IF s.dir = "LONG" THEN base * Bps + slip ELSE base * Bps - slip
<1>1. base \in Int
  BY DEF Numbers
<1>2. slip \in Int /\ base * Bps \in Int /\ base * k.spread \in Int
  <2> HIDE DEF base
  <2> QED BY <1>1 DEF Costs, Bps
<1>3. price \in Int
  <2> HIDE DEF base, slip
  <2> QED BY <1>2
<1>4. s.sl * Bps \in Int
  BY DEF Numbers, Bps
<1>5. Distance(price, s.sl * Bps) \in Int /\ Distance(s.ref, s.sl) \in Int
  <2> HIDE DEF price
  <2> QED BY <1>3, <1>4 DEF Distance, Numbers
<1>6. /\ e.executed = TRUE /\ e.requested = s.ref /\ e.planned = Distance(s.ref, s.sl)
      /\ e.base = base /\ e.price = price /\ e.slip = slip /\ e.spread = base * k.spread
      /\ e.risk = Distance(price, s.sl * Bps)
      /\ e.bar = (n - 1) * d /\ e.at \in {(n - 1) * d, n * d}
  BY Zenon DEF ExecuteEntryCandle
<1> HIDE DEF base, slip, price
<1> QED BY <1>1, <1>2, <1>3, <1>5, <1>6, BarTimes DEF EntryFill

-----------------------------------------------------------------------------
(* One bar of a replay *)

\* A lifecycle that got a further event.
NextEvent(acc, new, e) ==
    /\ IsSeq(new.events) /\ Len(new.events) = Len(acc.events) + 1 /\ Last(new.events) = e
    /\ \A n \in 1..Len(acc.events) : new.events[n] = acc.events[n]
    /\ new.events[Len(acc.events) + 1] = e

\* What closing and cancelling change.
LEMMA ClosedIs ==
    ASSUME NEW acc, LifeFields(acc), IsSeq(acc.events),
           NEW status, NEW close, NEW bar, NEW price, NEW reason,
           NEW new, new = Closed(acc, status, close, bar, price, reason)
    PROVE  /\ LifeFields(new) /\ new.status = status /\ new.terminal = close /\ new.last = close
           /\ new.activated = acc.activated /\ new.captured = acc.captured /\ new.raised = acc.raised
           /\ NextEvent(acc, new, Event(status, close, bar, price, reason))
<1> DEFINE ev == Event(status, close, bar, price, reason)
<1>1. /\ LifeFields(new) /\ new.status = status /\ new.terminal = close /\ new.last = close
      /\ new.activated = acc.activated /\ new.captured = acc.captured /\ new.raised = acc.raised
      /\ new.events = Append(acc.events, ev)
  <2> HIDE DEF ev
  <2> QED BY DEF Closed, LifeFields, ev
<1> HIDE DEF ev
<1>2. NextEvent(acc, new, ev)
  BY <1>1, AppendIs DEF NextEvent
<1> QED BY <1>1, <1>2 DEF ev

\* What cancelling changes, likewise (_invalidation_event).
LEMMA CancelledIs ==
    ASSUME NEW acc, LifeFields(acc), IsSeq(acc.events), NEW inv, NEW bar, NEW last,
           NEW new, new = Cancelled(acc, inv, bar, last)
    PROVE  /\ LifeFields(new) /\ new.status = "CANCELLED" /\ new.terminal = inv /\ new.last = last
           /\ new.activated = acc.activated /\ new.captured = acc.captured /\ new.raised = acc.raised
           /\ NextEvent(acc, new, Event("CANCELLED", inv, bar, NoPrice, "STRUCTURAL_INVALIDATION_BEFORE_ENTRY"))
<1> DEFINE ev == Event("CANCELLED", inv, bar, NoPrice, "STRUCTURAL_INVALIDATION_BEFORE_ENTRY")
<1>1. /\ LifeFields(new) /\ new.status = "CANCELLED" /\ new.terminal = inv /\ new.last = last
      /\ new.activated = acc.activated /\ new.captured = acc.captured /\ new.raised = acc.raised
      /\ new.events = Append(acc.events, ev)
  <2> HIDE DEF ev
  <2> QED BY DEF Cancelled, LifeFields, ev
<1> HIDE DEF ev
<1>2. NextEvent(acc, new, ev)
  BY <1>1, AppendIs DEF NextEvent
<1> QED BY <1>1, <1>2 DEF ev

\* A later look at the same lifecycle.
LEMMA LifeLater ==
    ASSUME NEW s, NEW lc, NEW t0 \in Int, NEW t \in Int, t0 <= t, Life(s, lc, t0), s.createdAt \in Nat
    PROVE  Life(s, lc, t)
<1>1. LifeTimes(lc, t)
  BY DEF Life, LifeTimes
<1>2. Entered(s, lc, t0) => Entered(s, lc, t)
  BY DEF Entered, IsEntry, EntryFill
<1>3. Left(s, lc, t0) => Left(s, lc, t)
  BY <1>2 DEF Left, EndedBy
<1>4. NotEntered(s, lc, t0) => NotEntered(s, lc, t)
  BY DEF NotEntered, EndedBy, IsEntry, EntryFill
<1> QED BY <1>1, <1>2, <1>3, <1>4 DEF Life, IsActive, IsHit, IsCancelled, IsAmbiguous

\* Without a decision to undo.
LEMMA LaterReflexive ==
    ASSUME NEW lc, LifeFields(lc)
    PROVE  Later(lc, lc)
<1>1. lc = [lc EXCEPT !.last = lc.last]
  BY DEF LifeFields
<1>2. lc.status = "ACTIVE" => lc.status \in {"ACTIVE", "TP_HIT", "SL_HIT", "AMBIGUOUS"}
  OBVIOUS
<1> QED BY <1>1, <1>2 DEF Later

\* The times of a lifecycle that got an event.
LEMMA NextTimes ==
    ASSUME NEW acc, NEW new, NEW e, NEW t \in Int, IsSeq(acc.events),
           \A n \in 1..Len(acc.events) : acc.events[n].at \in Int /\ acc.events[n].at <= t,
           NextEvent(acc, new, e), e.at \in Int, e.at <= t, new.last \in Int, new.last <= t
    PROVE  LifeTimes(new, t)
<1> SUFFICES ASSUME NEW n \in 1..Len(new.events)
             PROVE  new.events[n].at \in Int /\ new.events[n].at <= t
  BY DEF LifeTimes, NextEvent
<1>1. CASE n = Len(acc.events) + 1
  BY <1>1 DEF NextEvent
<1>2. CASE n # Len(acc.events) + 1
  <2>1. n \in 1..Len(acc.events)
    BY <1>2 DEF NextEvent, IsSeq
  <2> QED BY <2>1 DEF NextEvent
<1> QED BY <1>1, <1>2

\* How an active signal may be closed.
MayClose(s, status, price, reason) ==
    /\ status \in {"TP_HIT", "SL_HIT", "AMBIGUOUS"}
    /\ status = "TP_HIT" => price = s.tp /\ reason = "TAKE_PROFIT_TOUCHED"
    /\ status = "SL_HIT" => price = s.sl /\ reason \in {"STOP_LOSS_TOUCHED", "CONSERVATIVE_STOP_FIRST"}
    /\ status = "AMBIGUOUS" =>
          price = NoPrice /\ reason \in {"TP_AND_SL_TOUCHED_SAME_CANDLE", "ENTRY_AND_EXIT_ORDER_UNKNOWN"}

\* An active signal is closed by a bar that it was entered before the end of.
LEMMA CloseActive ==
    ASSUME NEW s, Numbers(s), NEW acc, NEW open \in Int, NEW close \in Int, open <= close,
           Life(s, acc, close), IsActive(s, acc, close),
           NEW status, NEW price, NEW reason, MayClose(s, status, price, reason),
           NEW new, new = Closed(acc, status, close, open, price, reason)
    PROVE  /\ Life(s, new, close) /\ Later(acc, new) /\ new.raised = acc.raised
           /\ Last(new.events).bar = open
<1> DEFINE e == Event(status, close, open, price, reason)
<1>1. LifeFields(acc) /\ IsSeq(acc.events) /\ acc.raised \in BOOLEAN
  BY DEF Life, LifeTimes
<1>2. /\ LifeFields(new) /\ new.status = status /\ new.terminal = close /\ new.last = close
      /\ new.activated = acc.activated /\ new.captured = acc.captured /\ new.raised = acc.raised
      /\ NextEvent(acc, new, e)
  BY <1>1, ClosedIs
<1>3. e.type = status /\ e.at = close /\ e.bar = open /\ e.price = price /\ e.reason = reason
  BY DEF Event
<1> HIDE DEF e
<1>4. LifeTimes(new, close)
  <2>1. \A n \in 1..Len(acc.events) : acc.events[n].at \in Int /\ acc.events[n].at <= close
    BY DEF Life, LifeTimes
  <2>2. e.at \in Int /\ e.at <= close /\ new.last \in Int /\ new.last <= close
    BY <1>2, <1>3
  <2> QED BY <1>1, <1>2, <2>1, <2>2, NextTimes
<1>5. Last(new.events) = e /\ Len(new.events) = 3
  BY <1>2 DEF NextEvent, IsActive
<1>6. Left(s, new, close)
  <2>1. Entered(s, new, close)
    BY <1>2 DEF Entered, IsActive
  <2>2. s.createdAt <= close /\ new.activated <= close
    BY <2>1 DEF Entered, IsEntry, EntryFill, Numbers
  <2> QED BY <2>1, <2>2, <1>2, <1>3, <1>5 DEF Left, EndedBy
<1>7. IsHit(s, new, close) \/ IsAmbiguous(s, new, close)
  <2>1. LastEvent(new, status, price, {reason})
    BY <1>2, <1>3, <1>5 DEF LastEvent
  <2> QED BY <1>2, <1>6, <2>1 DEF IsHit, IsAmbiguous, LastEvent, MayClose
<1>8. Later(acc, new)
  BY <1>2 DEF Later, IsActive, Terminal, MayClose
<1> QED BY <1>1, <1>2, <1>3, <1>4, <1>5, <1>7, <1>8 DEF Life

\* A bar that changes nothing but the time of the last look.
LEMMA OnlyLast ==
    ASSUME NEW s, NEW acc, NEW close \in Int, Life(s, acc, close),
           IsWaiting(s, acc) \/ IsActive(s, acc, close), NEW new, new = [acc EXCEPT !.last = close]
    PROVE  Life(s, new, close) /\ Later(acc, new) /\ new.raised = acc.raised
<1>1. /\ LifeFields(new) /\ new.status = acc.status /\ new.terminal = acc.terminal /\ new.last = close
      /\ new.activated = acc.activated /\ new.captured = acc.captured /\ new.raised = acc.raised
      /\ new.events = acc.events
  BY DEF Life, LifeFields
<1>2. LifeTimes(new, close)
  BY <1>1 DEF Life, LifeTimes
<1>3. IsWaiting(s, new) \/ IsActive(s, new, close)
  BY <1>1 DEF IsWaiting, IsActive, Entered
<1>4. new = [acc EXCEPT !.last = new.last]
  BY <1>1
<1>5. acc.status \in {"WAITING", "ACTIVE"}
  BY DEF IsWaiting, IsActive
<1> QED BY <1>1, <1>2, <1>3, <1>4, <1>5 DEF Life, Later, Terminal

\* What a bar does to an active signal.
LEMMA ResolveLife ==
    ASSUME NEW s, Numbers(s), NEW acc, NEW bar, NEW open \in Int, NEW close \in Int, open <= close,
           Life(s, acc, close), IsActive(s, acc, close), NEW k,
           NEW new, new = ResolveBar(s, bar, open, close, k, acc)
    PROVE  /\ Life(s, new, close) /\ Later(acc, new) /\ new.raised = acc.raised
           /\ new.status \in {"ACTIVE"} \cup Terminal
           /\ new.status \in Terminal => Last(new.events).bar = open
<1>1. \/ new = Closed(acc, "SL_HIT", close, open, s.sl, "CONSERVATIVE_STOP_FIRST")
      \/ new = Closed(acc, "AMBIGUOUS", close, open, NoPrice, "TP_AND_SL_TOUCHED_SAME_CANDLE")
      \/ new = Closed(acc, "TP_HIT", close, open, s.tp, "TAKE_PROFIT_TOUCHED")
      \/ new = Closed(acc, "SL_HIT", close, open, s.sl, "STOP_LOSS_TOUCHED")
      \/ new = [acc EXCEPT !.last = close]
  BY DEF ResolveBar
<1>2. /\ Life(s, new, close) /\ Later(acc, new) /\ new.raised = acc.raised
      /\ new.status \in Terminal => Last(new.events).bar = open
  <2>1. CASE new = Closed(acc, "SL_HIT", close, open, s.sl, "CONSERVATIVE_STOP_FIRST")
    <3>1. MayClose(s, "SL_HIT", s.sl, "CONSERVATIVE_STOP_FIRST")
      BY DEF MayClose
    <3> QED BY <2>1, <3>1, CloseActive
  <2>2. CASE new = Closed(acc, "AMBIGUOUS", close, open, NoPrice, "TP_AND_SL_TOUCHED_SAME_CANDLE")
    <3>1. MayClose(s, "AMBIGUOUS", NoPrice, "TP_AND_SL_TOUCHED_SAME_CANDLE")
      BY DEF MayClose
    <3> QED BY <2>2, <3>1, CloseActive
  <2>3. CASE new = Closed(acc, "TP_HIT", close, open, s.tp, "TAKE_PROFIT_TOUCHED")
    <3>1. MayClose(s, "TP_HIT", s.tp, "TAKE_PROFIT_TOUCHED")
      BY DEF MayClose
    <3> QED BY <2>3, <3>1, CloseActive
  <2>4. CASE new = Closed(acc, "SL_HIT", close, open, s.sl, "STOP_LOSS_TOUCHED")
    <3>1. MayClose(s, "SL_HIT", s.sl, "STOP_LOSS_TOUCHED")
      BY DEF MayClose
    <3> QED BY <2>4, <3>1, CloseActive
  <2>5. CASE new = [acc EXCEPT !.last = close]
    <3>1. new.status = "ACTIVE"
      BY <2>5 DEF Life, LifeFields, IsActive
    <3> QED BY <2>5, <3>1, OnlyLast DEF Terminal
  <2> QED BY <1>1, <2>1, <2>2, <2>3, <2>4, <2>5
<1> QED BY <1>2 DEF Later, IsActive, Terminal

\* A waiting signal with the entry its resolver captured.
LEMMA CapturedIs ==
    ASSUME NEW acc, LifeFields(acc), NEW entry, NEW seen, seen = [acc EXCEPT !.captured = entry]
    PROVE  /\ LifeFields(seen) /\ seen.captured = entry
           /\ seen.status = acc.status /\ seen.activated = acc.activated /\ seen.terminal = acc.terminal
           /\ seen.last = acc.last /\ seen.events = acc.events /\ seen.raised = acc.raised
BY DEF LifeFields

\* What a bar that fills it does to a waiting signal.
LEMMA ActivateLife ==
    ASSUME NEW s, Numbers(s), NEW acc, NEW bar, NEW open \in Int, NEW close \in Int, open <= close,
           Life(s, acc, close), IsWaiting(s, acc), NEW k,
           NEW entry, IsEntry(s, entry, close), entry.bar = open,
           NEW seen, seen = [acc EXCEPT !.captured = entry],
           NEW new, new = ActivateBar(s, bar, open, close, k, seen, entry)
    PROVE  /\ Life(s, new, close) /\ new.raised = acc.raised
           /\ new.status \in {"ACTIVE"} \cup Terminal
           /\ new.status \in Terminal => Last(new.events).bar = open
<1> DEFINE e == Event("ACTIVATED", entry.at, open, entry.price, "ENTRY_EXECUTION_CONFIRMED")
           active == [seen EXCEPT !.status = "ACTIVE", !.activated = entry.at, !.last = close,
                                  !.events = Append(@, e)]
<1>1. /\ LifeFields(seen) /\ seen.captured = entry /\ seen.terminal = NoTime
      /\ seen.events = acc.events /\ seen.raised = acc.raised
  BY CapturedIs DEF Life, IsWaiting
<1>2. IsSeq(acc.events) /\ Len(acc.events) = 1
  BY DEF Life, LifeTimes, IsWaiting
<1>3. e.at = entry.at /\ entry.at \in Int /\ entry.at <= close
  BY DEF Event, IsEntry, EntryFill
<1>4. PICK a : a = active
  OBVIOUS
<1>5. /\ LifeFields(a) /\ a.status = "ACTIVE" /\ a.activated = entry.at /\ a.last = close
      /\ a.captured = entry /\ a.terminal = NoTime /\ a.raised = acc.raised
      /\ a.events = Append(acc.events, e)
  <2> HIDE DEF e
  <2> QED BY <1>1, <1>4 DEF LifeFields
<1> HIDE DEF e
<1>6. NextEvent(acc, a, e)
  <2>1. PICK f : f = acc.events
    OBVIOUS
  <2>2. /\ IsSeq(Append(f, e)) /\ Len(Append(f, e)) = Len(f) + 1
        /\ \A n \in 1..Len(f) : Append(f, e)[n] = f[n]
        /\ Append(f, e)[Len(f) + 1] = e /\ Last(Append(f, e)) = e
    BY <1>2, <2>1, AppendIs
  <2> QED BY <1>5, <2>1, <2>2 DEF NextEvent
<1>7. LifeTimes(a, close)
  <2>1. \A n \in 1..Len(acc.events) : acc.events[n].at \in Int /\ acc.events[n].at <= close
    BY DEF Life, LifeTimes
  <2>2. a.last \in Int /\ a.last <= close
    BY <1>5
  <2> QED BY <1>1, <1>2, <1>3, <1>6, <2>1, <2>2, NextTimes
<1>8. IsActive(s, a, close)
  <2>1. Entered(s, a, close)
    BY <1>5 DEF Entered
  <2>2. PICK c : c = Event("CREATED", s.createdAt, NoTime, NoPrice, "SIGNAL_CREATED")
    OBVIOUS
  <2>3. a.events = << c, e >>
    <3>1. IsSeq(a.events) /\ Len(a.events) = 2 /\ a.events[1] = c /\ a.events[2] = e
      BY <1>2, <1>6, <2>2 DEF NextEvent, IsWaiting
    <3>2. a.events = [n \in 1..2 |-> a.events[n]]
      BY <3>1 DEF IsSeq
    <3>3. << c, e >> = [n \in 1..2 |-> << c, e >>[n]]
      OBVIOUS
    <3>4. \A n \in 1..2 : a.events[n] = << c, e >>[n]
      BY <3>1
    <3> QED BY <3>2, <3>3, <3>4
  <2> QED BY <1>5, <2>1, <2>2, <2>3 DEF IsActive, e
<1>9. Life(s, a, close)
  BY <1>5, <1>7, <1>8 DEF Life
<1>10. \/ new = Closed(a, "AMBIGUOUS", close, open, NoPrice, "ENTRY_AND_EXIT_ORDER_UNKNOWN")
       \/ new = ResolveBar(s, bar, open, close, k, a)
  BY <1>4 DEF ActivateBar, e
<1>11. CASE new = Closed(a, "AMBIGUOUS", close, open, NoPrice, "ENTRY_AND_EXIT_ORDER_UNKNOWN")
  <2>1. /\ Life(s, new, close) /\ Later(a, new) /\ new.raised = a.raised
        /\ Last(new.events).bar = open
      <3>1. MayClose(s, "AMBIGUOUS", NoPrice, "ENTRY_AND_EXIT_ORDER_UNKNOWN")
      BY DEF MayClose
    <3> QED BY <1>8, <1>9, <1>11, <3>1, CloseActive
  <2> QED BY <2>1, <1>5 DEF Later, Terminal
<1>12. CASE new = ResolveBar(s, bar, open, close, k, a)
  BY <1>5, <1>8, <1>9, <1>12, ResolveLife
<1> QED BY <1>10, <1>11, <1>12

\* A waiting signal ends without having acted.
Loses(s, seen, new, t, bar) ==
    /\ new.terminal \in Int /\ s.createdAt <= new.terminal /\ new.terminal <= t
    /\ new.last \in Int /\ new.last <= t
    /\ \/ new = Cancelled(seen, new.terminal, bar, new.last)
       \/ new = Closed(seen, "AMBIGUOUS", new.terminal, bar, NoPrice, "ENTRY_AND_INVALIDATION_ORDER_UNKNOWN")

\* A structure is lost while the signal waits, whether or not the bar also fills it.
LEMMA LoseLife ==
    ASSUME NEW s, Numbers(s), NEW acc, NEW t \in Int, Life(s, acc, t), IsWaiting(s, acc),
           NEW seen, LifeFields(seen), seen.status = "WAITING", seen.activated = NoTime,
           seen.events = acc.events, seen.raised = acc.raised,
           seen.captured = NoEntry \/ IsEntry(s, seen.captured, t),
           NEW new, NEW bar, Loses(s, seen, new, t, bar)
    PROVE  /\ Life(s, new, t) /\ new.raised = acc.raised
           /\ new.status \in {"CANCELLED", "AMBIGUOUS"}
<1> DEFINE at == new.terminal
           last == new.last
           reason == IF new.status = "CANCELLED" THEN "STRUCTURAL_INVALIDATION_BEFORE_ENTRY"
                     ELSE "ENTRY_AND_INVALIDATION_ORDER_UNKNOWN"
           e == Event(new.status, at, bar, NoPrice, reason)
<1>0. /\ new.terminal \in Int /\ s.createdAt <= new.terminal /\ new.terminal <= t
      /\ new.last \in Int /\ new.last <= t
      /\ \/ new = Cancelled(seen, new.terminal, bar, new.last)
         \/ new = Closed(seen, "AMBIGUOUS", new.terminal, bar, NoPrice, "ENTRY_AND_INVALIDATION_ORDER_UNKNOWN")
  BY DEF Loses
<1> USE <1>0
<1>1. IsSeq(seen.events) /\ IsSeq(acc.events) /\ Len(acc.events) = 1
  BY DEF Life, LifeTimes, IsWaiting
<1>2. /\ LifeFields(new) /\ new.status \in {"CANCELLED", "AMBIGUOUS"} /\ new.terminal = at /\ new.last = last
      /\ new.activated = NoTime /\ new.captured = seen.captured /\ new.raised = acc.raised
      /\ NextEvent(acc, new, e)
  <2>1. CASE new = Cancelled(seen, at, bar, last)
    <3>1. /\ LifeFields(new) /\ new.status = "CANCELLED" /\ new.terminal = at /\ new.last = last
          /\ new.activated = seen.activated /\ new.captured = seen.captured /\ new.raised = seen.raised
          /\ NextEvent(seen, new, Event("CANCELLED", at, bar, NoPrice, "STRUCTURAL_INVALIDATION_BEFORE_ENTRY"))
      BY <1>1, <2>1, CancelledIs
    <3> QED BY <3>1 DEF NextEvent
  <2>2. CASE new = Closed(seen, "AMBIGUOUS", at, bar, NoPrice, "ENTRY_AND_INVALIDATION_ORDER_UNKNOWN")
    <3>1. /\ LifeFields(new) /\ new.status = "AMBIGUOUS"
          /\ new.activated = seen.activated /\ new.captured = seen.captured /\ new.raised = seen.raised
          /\ NextEvent(seen, new, Event("AMBIGUOUS", at, bar, NoPrice, "ENTRY_AND_INVALIDATION_ORDER_UNKNOWN"))
      BY <1>1, <2>2, ClosedIs
    <3> QED BY <3>1 DEF NextEvent
  <2> QED BY <2>1, <2>2
<1>3. e.type = new.status /\ e.at = at /\ e.price = NoPrice /\ e.reason = reason
  BY DEF Event
<1> HIDE DEF e, at, last
<1>4. LifeTimes(new, t)
  <2>1. \A n \in 1..Len(acc.events) : acc.events[n].at \in Int /\ acc.events[n].at <= t
    BY DEF Life, LifeTimes
  <2>2. e.at \in Int /\ e.at <= t /\ new.last \in Int /\ new.last <= t
    BY <1>2, <1>3
  <2> QED BY <1>1, <1>2, <2>1, <2>2, NextTimes
<1>5. NotEntered(s, new, t)
  BY <1>1, <1>2 DEF NotEntered, EndedBy, NextEvent, at
<1>6. IsCancelled(s, new, t) \/ IsAmbiguous(s, new, t)
  BY <1>2, <1>3, <1>5 DEF IsCancelled, IsAmbiguous, LastEvent, NextEvent
<1>7. new.raised \in BOOLEAN
  BY <1>2 DEF Life
<1> QED BY <1>2, <1>4, <1>6, <1>7 DEF Life, Terminal

\* The ends that a bar brings.
Closings == {"TP_HIT", "SL_HIT", "AMBIGUOUS"}

\* What a replay step needs to know of its inputs.
BarInputs(s, bars, n, d, inv, k, t) ==
    /\ Numbers(s) /\ Costs(k) /\ n \in Nat \ {0} /\ d \in Nat \ {0} /\ bars[n].o \in Int
    /\ inv = NoTime \/ (inv \in Nat /\ s.createdAt <= inv)
    /\ t \in Int /\ n * d <= t

\* One turn of the replay loop: from the life before the bar to the life after it.
LEMMA ReplayBarLife ==
    ASSUME NEW s, NEW bars, NEW n, NEW d, NEW inv, NEW k, NEW t, BarInputs(s, bars, n, d, inv, k, t),
           NEW acc, NEW t0 \in Int, Life(s, acc, t0), t0 <= t,
           ~Predates(s, (n - 1) * d) => t0 <= (n - 1) * d,
           NEW new, new = ReplayBar(s, bars, d, inv, k, acc, n)
    PROVE  /\ Life(s, new, t) /\ (~new.raised => Later(acc, new))
           /\ acc.status \notin Terminal /\ new.status \in Closings =>
                 Last(new.events).bar = (n - 1) * d
<1> DEFINE open == (n - 1) * d
           close == n * d
           entry == IF acc.status = "WAITING" THEN ExecuteEntryCandle(s, bars, n, d, k) ELSE NoEntry
           seen == IF entry.executed THEN [acc EXCEPT !.captured = entry] ELSE acc
<1>1. open \in Nat /\ close \in Nat /\ open < close /\ close <= t /\ t \in Int
  BY BarTimes DEF BarInputs
<1>2. LifeFields(acc) /\ acc.raised \in BOOLEAN
  BY DEF Life
<1>3. CASE acc.raised \/ Settled(acc) \/ Predates(s, open)
  <2>1. new = acc
    BY <1>3 DEF ReplayBar
  <2>2. Life(s, acc, t)
    BY <1>1, LifeLater DEF BarInputs, Numbers
  <2>3. acc.status \in Terminal \/ acc.status \in {"WAITING", "ACTIVE"}
    BY DEF Life, IsWaiting, IsActive, IsHit, IsCancelled, IsAmbiguous, Terminal
  <2> QED BY <1>2, <2>1, <2>2, <2>3, LaterReflexive DEF Closings, Terminal
<1>4. CASE ~(acc.raised \/ Settled(acc) \/ Predates(s, open))
  <2>1. s.createdAt <= open /\ t0 <= open /\ s.createdAt \in Nat
    BY <1>1, <1>4 DEF Predates, BarInputs, Numbers
  <2>2. Life(s, acc, close)
    BY <1>1, <2>1, LifeLater
  <2>3. IsWaiting(s, acc) \/ IsActive(s, acc, close)
    BY <1>4, <2>2 DEF Life, Settled, Terminal, IsHit, IsCancelled, IsAmbiguous
  <2>4. acc.raised = FALSE
    BY <1>2, <1>4
  <2>5. CASE IsActive(s, acc, close)
    <3>1. acc.status = "ACTIVE" /\ NoEntry.executed = FALSE
      BY <2>5 DEF IsActive, NoEntry
    <3>2. ~Invalidates(acc, inv, open) /\ ~Invalidates(acc, inv, close)
      BY <3>1 DEF Invalidates
    <3>3. new = ResolveBar(s, bars[n], open, close, k, acc)
      BY <1>4, <3>1, <3>2 DEF ReplayBar, EntryEvidenceHolds
    <3>4. /\ Life(s, new, close) /\ Later(acc, new)
          /\ new.status \in Terminal => Last(new.events).bar = open
      <4> HIDE DEF open, close
      <4> QED BY <1>1, <2>2, <2>5, <3>3, ResolveLife DEF BarInputs
    <3> QED BY <1>1, <3>4, LifeLater DEF BarInputs, Numbers, Terminal, Closings
  <2>6. CASE IsWaiting(s, acc)
    <3>1. acc.status = "WAITING" /\ entry = ExecuteEntryCandle(s, bars, n, d, k)
      BY <2>6 DEF IsWaiting
    <3>2. entry.executed = FALSE \/ (EntryFill(s, entry) /\ entry.bar = open /\ entry.at \in {open, close})
      <4>1. CASE entry = NoEntry
        BY <4>1 DEF NoEntry
      <4>2. CASE entry # NoEntry
        BY <3>1, <4>2, EntryCandle DEF BarInputs
      <4> QED BY <4>1, <4>2
    <3>3. entry.executed \in BOOLEAN
      BY <3>2 DEF EntryFill
    <3>4. \/ ~EntryEvidenceHolds(s, entry) /\ new = [acc EXCEPT !.raised = TRUE]
          \/ /\ EntryEvidenceHolds(s, entry)
             /\ \/ Invalidates(acc, inv, open) /\ new = Cancelled(seen, inv, NoTime, Max({acc.last, inv}))
                \/ /\ ~Invalidates(acc, inv, open) /\ Invalidates(acc, inv, close)
                   /\ \/ entry.executed /\ new = Closed(seen, "AMBIGUOUS", close, open, NoPrice,
                                                        "ENTRY_AND_INVALIDATION_ORDER_UNKNOWN")
                      \/ ~entry.executed /\ new = Cancelled(seen, inv, open, close)
                \/ /\ ~Invalidates(acc, inv, open) /\ ~Invalidates(acc, inv, close)
                   /\ \/ entry.executed /\ new = ActivateBar(s, bars[n], open, close, k, seen, entry)
                      \/ ~entry.executed /\ new = [acc EXCEPT !.last = close]
      BY <1>4, <3>1 DEF ReplayBar
    <3> HIDE DEF open, close, entry, seen
    <3>5. EntryEvidenceHolds(s, entry) /\ entry.executed => IsEntry(s, entry, close)
      BY <1>1, <2>1, <3>2 DEF IsEntry, EntryFill
    <3>6. /\ LifeFields(seen) /\ seen.status = "WAITING" /\ seen.activated = NoTime
          /\ seen.events = acc.events /\ seen.raised = acc.raised
          /\ EntryEvidenceHolds(s, entry) => seen.captured = NoEntry \/ IsEntry(s, seen.captured, close)
      <4>1. CASE entry.executed
        BY <1>2, <2>6, <3>5, <4>1, CapturedIs DEF seen, IsWaiting
      <4>2. CASE ~entry.executed
        BY <1>2, <2>6, <4>2 DEF seen, IsWaiting
      <4> QED BY <4>1, <4>2
    <3>14. IsSeq(seen.events)
      BY <2>2, <3>6 DEF Life, LifeTimes
    <3>7. acc.last \in Int /\ acc.last <= open
      BY <1>1, <2>1 DEF Life, LifeTimes
    <3>8. CASE ~EntryEvidenceHolds(s, entry) /\ new = [acc EXCEPT !.raised = TRUE]
      <4>1. /\ LifeFields(new) /\ new.raised = TRUE /\ new.status = acc.status /\ new.last = acc.last
            /\ new.activated = acc.activated /\ new.terminal = acc.terminal
            /\ new.captured = acc.captured /\ new.events = acc.events
        BY <1>2, <3>8 DEF LifeFields
      <4>2. IsWaiting(s, new) /\ LifeTimes(new, close)
        BY <2>2, <2>6, <4>1 DEF IsWaiting, Life, LifeTimes
      <4>3. Life(s, new, close)
        BY <4>1, <4>2 DEF Life
      <4> QED BY <1>1, <3>1, <4>1, <4>3, LifeLater DEF BarInputs, Numbers, Closings
    <3>9. ASSUME Life(s, new, close), new.status # "WAITING" PROVE Life(s, new, t) /\ Later(acc, new)
      <4>1. Life(s, new, t)
        BY <1>1, <2>1, <3>9, LifeLater
      <4> QED BY <3>1, <3>9, <4>1 DEF Later, Terminal
    <3>10. CASE EntryEvidenceHolds(s, entry) /\ Invalidates(acc, inv, open)
      <4>1. inv \in Int /\ s.createdAt <= inv /\ inv <= close /\ inv <= open
        BY <1>1, <3>10 DEF Invalidates, BarInputs
      <4>2. \A x \in {acc.last, inv} : x \in Int /\ x <= close
        BY <1>1, <3>7, <4>1
      <4>3. Max({acc.last, inv}) \in {acc.last, inv}
        <5>1. CASE acc.last >= inv
          BY <3>7, <4>1, <5>1 DEF Max
        <5>2. CASE inv >= acc.last
          BY <3>7, <4>1, <5>2 DEF Max
        <5> QED BY <3>7, <4>1, <5>1, <5>2
      <4>4. new = Cancelled(seen, inv, NoTime, Max({acc.last, inv}))
        BY <3>4, <3>10
      <4>5. new.terminal = inv /\ new.last = Max({acc.last, inv})
        BY <3>6, <4>4, <3>14, CancelledIs
      <4>6. Life(s, new, close) /\ new.status = "CANCELLED"
        <5> PICK bar : bar = NoTime
          OBVIOUS
        <5>1. /\ new = Cancelled(seen, new.terminal, bar, new.last)
              /\ new.terminal \in Int /\ s.createdAt <= new.terminal /\ new.terminal <= close
              /\ new.last \in Int /\ new.last <= close
          BY <4>1, <4>2, <4>3, <4>4, <4>5
        <5>2. seen.captured = NoEntry \/ IsEntry(s, seen.captured, close)
          BY <3>6, <3>10
        <5>3. Numbers(s) /\ close \in Int
          BY <1>1 DEF BarInputs
        <5>4. Loses(s, seen, new, close, bar)
          BY <5>1 DEF Loses
        <5>5. Life(s, new, close)
          BY <2>2, <2>6, <3>6, <5>2, <5>3, <5>4, LoseLife
        <5>6. new.status = "CANCELLED"
          BY <3>6, <3>14, <4>4, CancelledIs
        <5> QED BY <5>5, <5>6
      <4> QED BY <3>9, <4>6 DEF Terminal, Closings
    <3>11. CASE EntryEvidenceHolds(s, entry) /\ ~Invalidates(acc, inv, open) /\ Invalidates(acc, inv, close)
      <4>1. inv \in Int /\ s.createdAt <= inv /\ inv <= close
        BY <1>1, <3>11 DEF Invalidates, BarInputs
      <4>2. \/ new = Closed(seen, "AMBIGUOUS", close, open, NoPrice, "ENTRY_AND_INVALIDATION_ORDER_UNKNOWN")
            \/ new = Cancelled(seen, inv, open, close)
        BY <3>4, <3>11
      <4>3. s.createdAt <= close
        BY <1>1, <2>1
      <4>4. Life(s, new, close) /\ (new.status = "CANCELLED" \/ (new.status = "AMBIGUOUS" /\ Last(new.events).bar = open))
        <5>1. CASE new = Closed(seen, "AMBIGUOUS", close, open, NoPrice, "ENTRY_AND_INVALIDATION_ORDER_UNKNOWN")
          <6>1. new.terminal = close /\ new.last = close
            BY <3>6, <3>14, <5>1, ClosedIs
          <6>2. /\ new = Closed(seen, "AMBIGUOUS", new.terminal, open, NoPrice,
                                "ENTRY_AND_INVALIDATION_ORDER_UNKNOWN")
                /\ new.terminal \in Int /\ s.createdAt <= new.terminal /\ new.terminal <= close
                /\ new.last \in Int /\ new.last <= close
            BY <1>1, <4>3, <5>1, <6>1
          <6>3. seen.captured = NoEntry \/ IsEntry(s, seen.captured, close)
            BY <3>6, <3>11
          <6>4. Numbers(s) /\ close \in Int
            BY <1>1 DEF BarInputs
          <6>5. Loses(s, seen, new, close, open)
            BY <6>2 DEF Loses
          <6>6. Life(s, new, close)
            BY <2>2, <2>6, <3>6, <6>3, <6>4, <6>5, LoseLife
          <6>7. new.status = "AMBIGUOUS" /\ Last(new.events).bar = open
            <7> PICK reason : reason = "ENTRY_AND_INVALIDATION_ORDER_UNKNOWN"
              OBVIOUS
            <7>1. /\ new.status = "AMBIGUOUS"
                  /\ NextEvent(seen, new, Event("AMBIGUOUS", close, open, NoPrice, reason))
              BY <3>6, <3>14, <5>1, ClosedIs
            <7>2. Event("AMBIGUOUS", close, open, NoPrice, reason).bar = open
              BY DEF Event
            <7> QED BY <7>1, <7>2 DEF NextEvent
          <6> QED BY <6>6, <6>7
        <5>2. CASE new = Cancelled(seen, inv, open, close)
          <6>1. new.terminal = inv /\ new.last = close
            BY <3>6, <3>14, <5>2, CancelledIs
          <6>2. /\ new = Cancelled(seen, new.terminal, open, new.last)
                /\ new.terminal \in Int /\ s.createdAt <= new.terminal /\ new.terminal <= close
                /\ new.last \in Int /\ new.last <= close
            BY <1>1, <4>1, <5>2, <6>1
          <6>3. seen.captured = NoEntry \/ IsEntry(s, seen.captured, close)
            BY <3>6, <3>11
          <6>4. Numbers(s) /\ close \in Int
            BY <1>1 DEF BarInputs
          <6>5. Loses(s, seen, new, close, open)
            BY <6>2 DEF Loses
          <6>6. Life(s, new, close)
            BY <2>2, <2>6, <3>6, <6>3, <6>4, <6>5, LoseLife
          <6>7. new.status = "CANCELLED"
            BY <3>6, <3>14, <5>2, CancelledIs
          <6> QED BY <6>6, <6>7
        <5> QED BY <4>2, <5>1, <5>2
      <4> QED BY <3>9, <4>4 DEF Terminal, Closings, open
    <3>12. CASE EntryEvidenceHolds(s, entry) /\ entry.executed /\ new = ActivateBar(s, bars[n], open, close, k, seen, entry)
      <4>1. seen = [acc EXCEPT !.captured = entry]
        BY <3>12 DEF seen
      <4>2. IsEntry(s, entry, close) /\ entry.bar = open
        BY <3>2, <3>5, <3>12
      <4>3. /\ Life(s, new, close) /\ new.status \in {"ACTIVE"} \cup Terminal
            /\ new.status \in Terminal => Last(new.events).bar = open
        BY <1>1, <2>2, <2>6, <3>12, <4>1, <4>2, ActivateLife DEF BarInputs
      <4> QED BY <3>9, <4>3 DEF Terminal, Closings, open
    <3>13. CASE new = [acc EXCEPT !.last = close]
      <4>1. Life(s, new, close) /\ Later(acc, new)
        BY <1>1, <2>2, <2>6, <3>13, OnlyLast
      <4>2. new.status = "WAITING"
        BY <1>2, <3>1, <3>13 DEF LifeFields
      <4> QED BY <1>1, <2>1, <4>1, <4>2, LifeLater DEF Closings
    <3> QED BY <3>3, <3>4, <3>8, <3>10, <3>11, <3>12, <3>13
  <2> QED BY <2>3, <2>5, <2>6
<1> QED BY <1>3, <1>4

-----------------------------------------------------------------------------
(* The whole replay *)

\* What holds at first and after every bar holds after the last.
LEMMA AfterEvery ==
    ASSUME NEW N \in Nat, NEW G, 0 \in G, \A n \in 1..N : n - 1 \in G => n \in G
    PROVE  \A n \in 0..N : n \in G
<1> DEFINE bad == {n \in 0..N : n \notin G}
<1>1. CASE bad = {}
  BY <1>1
<1>2. CASE bad # {}
  <2>1. bad \in SUBSET Nat
    OBVIOUS
  <2>2. PICK n \in bad : \A j \in bad : n <= j
    <3> HIDE DEF bad
    <3> QED BY <1>2, <2>1, LeastNat
  <2>3. n \in 0..N /\ n # 0 /\ n \notin G
    OBVIOUS
  <2>4. n - 1 \in 0..N /\ ~(n <= n - 1)
    BY <2>3
  <2>5. n - 1 \in G
    BY <2>2, <2>4
  <2> QED BY <2>3, <2>5
<1> QED BY <1>1, <1>2

\* A signal before its first bar.
LEMMA OpenedLife ==
    ASSUME NEW s, Numbers(s), NEW inv
    PROVE  /\ Life(s, Opened(s, inv), s.createdAt) /\ Opened(s, inv).raised = FALSE
           /\ Opened(s, inv).status \in {"WAITING", "CANCELLED"} /\ Opened(s, inv).captured = NoEntry
<1> DEFINE t == s.createdAt
           e == Event("CREATED", t, NoTime, NoPrice, "SIGNAL_CREATED")
<1>1. PICK c : c = Created(s)
  OBVIOUS
<1>2. /\ LifeFields(c) /\ c.raised = FALSE /\ IsWaiting(s, c) /\ c.last = t
      /\ c.events = << e >>
  BY <1>1 DEF Created, LifeFields, IsWaiting
<1>3. e.at = t /\ t \in Int
  BY DEF Event, Numbers
<1>4. LifeTimes(c, t)
  <2> HIDE DEF e
  <2>1. IsSeq(<< e >>) /\ Len(<< e >>) = 1 /\ << e >>[1] = e
    BY DEF IsSeq
  <2> QED BY <1>2, <1>3, <2>1 DEF LifeTimes
<1>5. Life(s, c, t)
  BY <1>2, <1>4 DEF Life
<1>6. CASE inv # s.createdAt
  BY <1>1, <1>2, <1>5, <1>6 DEF Opened, IsWaiting
<1>7. CASE inv = s.createdAt
  <2>1. PICK new : new = Opened(s, inv)
    OBVIOUS
  <2>2. PICK none : none = NoTime
    OBVIOUS
  <2>3. new = Cancelled(c, inv, none, t)
    BY <1>1, <1>7, <2>1, <2>2 DEF Opened
  <2>4. new.terminal = t /\ new.last = t
    BY <1>2, <1>4, <1>7, <2>3, CancelledIs DEF LifeTimes
  <2>5. new = Cancelled(c, new.terminal, none, new.last) /\ t <= t /\ t \in Int
    BY <1>3, <1>7, <2>3, <2>4
  <2>6. Loses(s, c, new, t, none)
    BY <1>3, <2>4, <2>5 DEF Loses
  <2>7. c.status = "WAITING" /\ c.activated = NoTime /\ c.captured = NoEntry
    BY <1>2 DEF IsWaiting
  <2>8. Life(s, new, t) /\ new.raised = c.raised
    BY <1>2, <1>3, <1>5, <2>6, <2>7, LoseLife
  <2>9. new.status = "CANCELLED" /\ new.captured = NoEntry
    BY <1>2, <1>4, <2>3, CancelledIs DEF LifeTimes, IsWaiting
  <2> QED BY <1>2, <1>7, <2>1, <2>8, <2>9
<1> QED BY <1>6, <1>7

\* The inputs of a replay at t.
ReplayInputs(s, bars, d, inv, k, t) ==
    /\ Numbers(s) /\ Costs(k) /\ d \in Nat \ {0} /\ Len(bars) \in Nat
    /\ \A n \in 1..Len(bars) : bars[n].o \in Int /\ n * d <= t
    /\ t \in Int /\ s.createdAt <= t
    /\ inv = NoTime \/ (inv \in Nat /\ s.createdAt <= inv)

\* The last moment a replay of N bars knows of.
LastClose(s, N, d) == IF s.createdAt <= N * d THEN N * d ELSE s.createdAt

\* After each bar a signal has a life that knows nothing after the bar's close, and the
\* bar that ended a trade is one of those replayed.
LEMMA TraceLife ==
    ASSUME NEW s, NEW bars, NEW d, NEW inv, NEW k, NEW t, ReplayInputs(s, bars, d, inv, k, t),
           NEW f, Traces(f, s, bars, d, inv, k), NEW N, N = Len(bars)
    PROVE  /\ Life(s, f[N], LastClose(s, N, d))
           /\ f[N].status \in Closings =>
                 \E m \in 1..N : Last(f[N].events).bar = (m - 1) * d
<1> DEFINE at(n) == LastClose(s, n, d)
           Ends(n) == f[n].status \in Closings =>
                          \E m \in 1..n : Last(f[n].events).bar = (m - 1) * d
           G == {n \in 0..N : Life(s, f[n], at(n)) /\ Ends(n)}
<1>2. s.createdAt \in Nat /\ d \in Nat \ {0} /\ N \in Nat /\ t \in Int
  BY DEF ReplayInputs, Numbers
<1>3. 0 \in G
  <2>1. f[0] = Opened(s, inv)
    BY <1>2 DEF Traces
  <2>2. at(0) = s.createdAt
    BY <1>2 DEF LastClose
  <2>3. Life(s, f[0], at(0)) /\ f[0].status \notin Closings
    <3> HIDE DEF at
    <3> QED BY <2>1, <2>2, OpenedLife DEF ReplayInputs, Closings
  <2> QED BY <1>2, <2>3
<1>4. ASSUME NEW n \in 1..N, n - 1 \in G
      PROVE  n \in G
  <2>1. n \in Nat \ {0} /\ n - 1 \in Nat /\ n \in 0..N /\ n \in 0..Len(bars) /\ n # 0
    BY <1>2
  <2>2. (n - 1) * d \in Nat /\ n * d \in Nat /\ (n - 1) * d < n * d
    BY <1>2, <2>1, BarTimes
  <2>3. at(n) \in Int /\ at(n - 1) \in Int /\ at(n - 1) <= at(n) /\ n * d <= at(n) /\ at(n) <= t
    BY <1>2, <2>2 DEF ReplayInputs, LastClose
  <2>4. ~Predates(s, (n - 1) * d) => at(n - 1) <= (n - 1) * d
    BY <1>2, <2>2 DEF Predates, LastClose
  <2>5. f[n] = ReplayBar(s, bars, d, inv, k, f[n - 1], n)
    BY <2>1, Zenon DEF Traces
  <2>6. Life(s, f[n - 1], at(n - 1)) /\ Ends(n - 1)
    BY <1>4
  <2> HIDE DEF at
  <2>7. BarInputs(s, bars, n, d, inv, k, at(n))
    BY <2>1, <2>3 DEF BarInputs, ReplayInputs
  <2>8. /\ Life(s, f[n], at(n))
        /\ f[n - 1].status \notin Terminal /\ f[n].status \in Closings =>
              Last(f[n].events).bar = (n - 1) * d
    BY <2>3, <2>4, <2>5, <2>6, <2>7, ReplayBarLife
  <2>9. Ends(n)
    <3>1. CASE f[n - 1].status \in Terminal
      <4>1. f[n] = f[n - 1]
        BY <2>5, <3>1, Zenon DEF ReplayBar, Settled
      <4>2. 1..(n - 1) \subseteq 1..n
        BY <2>1
      <4> QED BY <2>6, <4>1, <4>2
    <3>2. CASE f[n - 1].status \notin Terminal
      BY <2>1, <2>8, <3>2
    <3> QED BY <3>1, <3>2
  <2> QED BY <2>1, <2>8, <2>9
<1>5. N \in G
  <2> HIDE DEF G
  <2>2. \A n \in 1..N : n - 1 \in G => n \in G
    BY <1>4
  <2>3. \A n \in 0..N : n \in G
    BY <1>2, <1>3, <2>2, AfterEvery
  <2> QED BY <1>2, <2>3
<1> QED BY <1>5

\* A replay is such a life, at its last bar and at the cutoff it was asked for.
LEMMA ReplayLife ==
    ASSUME NEW s, NEW bars, NEW d, NEW inv, NEW k, NEW t, ReplayInputs(s, bars, d, inv, k, t),
           NEW lc, lc = ReplaySignalLifecycle(s, bars, d, inv, k)
    PROVE  /\ Life(s, lc, LastClose(s, Len(bars), d)) /\ Life(s, lc, t)
           /\ lc.status \in Closings =>
                 \E m \in 1..Len(bars) : Last(lc.events).bar = (m - 1) * d
<1>1. PICK f : /\ Traces(f, s, bars, d, inv, k)
               /\ ReplaySignalLifecycle(s, bars, d, inv, k) = f[Len(bars)]
  BY ReplayTrace DEF ReplayInputs
<1>2. PICK N \in Nat : N = Len(bars)
  BY DEF ReplayInputs
<1>3. /\ Life(s, lc, LastClose(s, N, d))
      /\ lc.status \in Closings =>
            \E m \in 1..N : Last(lc.events).bar = (m - 1) * d
  BY <1>1, <1>2, TraceLife
<1>4. LastClose(s, N, d) <= t /\ LastClose(s, N, d) \in Int /\ t \in Int
  <2>1. CASE N = 0
    BY <2>1 DEF ReplayInputs, Numbers, LastClose
  <2>2. CASE N # 0
    BY <1>2, <2>2, BarTimes DEF ReplayInputs, Numbers, LastClose
  <2> QED BY <2>1, <2>2
<1>5. Life(s, lc, t)
  BY <1>3, <1>4, LifeLater DEF ReplayInputs, Numbers
<1> QED BY <1>2, <1>3, <1>5

\* new is the replay of the same bars as old, or of one more.
OneBarMore(old, new, s, bars, more, d, lost, k) ==
    \/ Len(more) = Len(bars) /\ new = old
    \/ Len(more) = Len(bars) + 1 /\ new = ReplayBar(s, more, d, lost, k, old, Len(more))

\* Replays that agree on the first bars, step by step, agree on what follows from them.
LEMMA ReplayGrows ==
    ASSUME NEW s, NEW bars, NEW more, NEW d, NEW inv, NEW lost, NEW k,
           Len(bars) \in Nat, Len(more) \in {Len(bars), Len(bars) + 1},
           Opened(s, lost) = Opened(s, inv),
           \A n \in 1..Len(bars) : \A acc :
               ReplayBar(s, more, d, lost, k, acc, n) = ReplayBar(s, bars, d, inv, k, acc, n)
    PROVE  OneBarMore(ReplaySignalLifecycle(s, bars, d, inv, k), ReplaySignalLifecycle(s, more, d, lost, k),
                 s, bars, more, d, lost, k)
<1>1. Len(more) \in Nat
  OBVIOUS
<1>2. PICK f : /\ Traces(f, s, bars, d, inv, k)
               /\ ReplaySignalLifecycle(s, bars, d, inv, k) = f[Len(bars)]
  BY ReplayTrace
<1>3. PICK g : /\ Traces(g, s, more, d, lost, k)
               /\ ReplaySignalLifecycle(s, more, d, lost, k) = g[Len(more)]
  BY <1>1, ReplayTrace
<1>4. PICK N \in Nat : N = Len(bars)
  OBVIOUS
<1> DEFINE G == {n \in 0..N : f[n] = g[n]}
<1>5. 0 \in G
  BY <1>1, <1>2, <1>3, <1>4 DEF Traces
<1>6. \A n \in 1..N : n - 1 \in G => n \in G
  <2> SUFFICES ASSUME NEW n \in 1..N, f[n - 1] = g[n - 1]
               PROVE  f[n] = g[n]
    BY <1>4
  <2>1. n \in 0..Len(bars) /\ n \in 0..Len(more) /\ n # 0 /\ n \in 1..Len(bars)
    BY <1>1, <1>4
  <2>2. f[n] = ReplayBar(s, bars, d, inv, k, f[n - 1], n)
    BY <1>2, <2>1 DEF Traces
  <2>3. g[n] = ReplayBar(s, more, d, lost, k, g[n - 1], n)
    BY <1>3, <2>1 DEF Traces
  <2> QED BY <2>1, <2>2, <2>3
<1>7. f[N] = g[N]
  <2>1. \A n \in 0..N : n \in G
    <3> HIDE DEF G
    <3> QED BY <1>5, <1>6, AfterEvery
  <2> QED BY <2>1
<1>8. CASE Len(more) = Len(bars)
  BY <1>2, <1>3, <1>4, <1>7, <1>8 DEF OneBarMore
<1>9. CASE Len(more) = Len(bars) + 1
  <2>1. g[Len(more)] = ReplayBar(s, more, d, lost, k, g[Len(more) - 1], Len(more))
    <3>1. Len(more) \in 0..Len(more) /\ Len(more) # 0
      BY <1>1, <1>9
    <3> QED BY <1>3, <3>1, Zenon DEF Traces
  <2>2. Len(more) - 1 = N
    BY <1>4, <1>9
  <2> QED BY <1>2, <1>3, <1>4, <1>7, <1>9, <2>1, <2>2 DEF OneBarMore
<1> QED BY <1>8, <1>9

\* A signal that is created at the last bar's close or later has not lived through any.
LEMMA ReplayNew ==
    ASSUME NEW s, NEW bars, NEW d \in Nat \ {0}, NEW inv, NEW k, Len(bars) \in Nat,
           \A n \in 1..Len(bars) : n * d <= s.createdAt, s.createdAt \in Nat
    PROVE  ReplaySignalLifecycle(s, bars, d, inv, k) = Opened(s, inv)
<1>1. PICK f : /\ Traces(f, s, bars, d, inv, k)
               /\ ReplaySignalLifecycle(s, bars, d, inv, k) = f[Len(bars)]
  BY ReplayTrace
<1>2. PICK N \in Nat : N = Len(bars)
  OBVIOUS
<1> DEFINE G == {n \in 0..N : f[n] = Opened(s, inv)}
<1>3. 0 \in G
  BY <1>1, <1>2 DEF Traces
<1>4. \A n \in 1..N : n - 1 \in G => n \in G
  <2> SUFFICES ASSUME NEW n \in 1..N, f[n - 1] = Opened(s, inv)
               PROVE  f[n] = Opened(s, inv)
    BY <1>2
  <2>1. f[n] = ReplayBar(s, bars, d, inv, k, f[n - 1], n)
    <3>1. n \in 0..Len(bars) /\ n # 0
      BY <1>2
    <3> QED BY <1>1, <3>1, Zenon DEF Traces
  <2>2. Predates(s, (n - 1) * d)
    <3>1. (n - 1) * d \in Nat /\ n * d \in Nat /\ (n - 1) * d < n * d /\ n * d <= s.createdAt
      BY <1>2, BarTimes
    <3> QED BY <3>1 DEF Predates
  <2> QED BY <2>1, <2>2 DEF ReplayBar
<1>5. \A n \in 0..N : n \in G
  <2> HIDE DEF G
  <2> QED BY <1>3, <1>4, AfterEvery
<1> QED BY <1>1, <1>2, <1>5

\* What a bar makes of a signal depends on it and the bar before, and on a loss of
\* structure only from its time on.
LEMMA SameBar ==
    ASSUME NEW s, NEW bars, NEW more, NEW d \in Nat \ {0}, NEW n \in Nat \ {0},
           \A m \in 1..n : more[m] = bars[m],
           NEW inv, NEW lost \in Int, lost = inv \/ (inv = NoTime /\ n * d < lost), NEW k, NEW acc
    PROVE  ReplayBar(s, more, d, lost, k, acc, n) = ReplayBar(s, bars, d, inv, k, acc, n)
<1>1. more[n] = bars[n] /\ (n > 1 => more[n - 1] = bars[n - 1])
  OBVIOUS
<1>2. ExecuteEntryCandle(s, more, n, d, k) = ExecuteEntryCandle(s, bars, n, d, k)
  BY <1>1, Zenon DEF ExecuteEntryCandle
<1>3. CASE lost = inv
  BY <1>1, <1>2, <1>3, Zenon DEF ReplayBar
<1>4. CASE inv = NoTime /\ n * d < lost
  <2>1. (n - 1) * d \in Nat /\ n * d \in Nat /\ (n - 1) * d < n * d
    BY BarTimes
  <2>2. /\ ~Invalidates(acc, lost, (n - 1) * d) /\ ~Invalidates(acc, lost, n * d)
        /\ ~Invalidates(acc, inv, (n - 1) * d) /\ ~Invalidates(acc, inv, n * d)
    BY <1>4, <2>1 DEF Invalidates
  <2> QED BY <1>1, <1>2, <2>2, Zenon DEF ReplayBar
<1> QED BY <1>3, <1>4

-----------------------------------------------------------------------------
(* The visible bars *)

\* Whole bars in t candles.
LEMMA WholeBars ==
    ASSUME NEW t \in Nat, NEW d \in Nat \ {0}
    PROVE  t \div d \in Nat /\ (t \div d) * d <= t /\ t < (t \div d) * d + d
OBVIOUS

\* Earlier bars close earlier.
LEMMA BarsBefore ==
    ASSUME NEW m \in Nat, NEW n \in Nat, n <= m, NEW d \in Nat \ {0}
    PROVE  n * d <= m * d /\ n * d \in Nat /\ m * d \in Nat
OBVIOUS

\* A bar that closes before the next one ends is no later bar.
LEMMA NoMoreBars ==
    ASSUME NEW m \in Nat, NEW n \in Nat, NEW d \in Nat \ {0}, n * d < m * d + d
    PROVE  n <= m
<1> SUFFICES ASSUME n > m PROVE FALSE
  OBVIOUS
<1>1. m + 1 \in Nat /\ m + 1 <= n
  OBVIOUS
<1>2. (m + 1) * d <= n * d
  BY <1>1, BarsBefore
<1>3. (m + 1) * d = m * d + d
  OBVIOUS
<1> QED BY <1>2, <1>3, BarsBefore

\* One more candle closes at most one more bar.
LEMMA OneMoreBar ==
    ASSUME NEW t \in Nat, NEW d \in Nat \ {0}
    PROVE  (t + 1) \div d \in {t \div d, t \div d + 1}
<1>1. PICK a \in Nat : a = t \div d
  BY WholeBars
<1>2. PICK b \in Nat : b = (t + 1) \div d
  BY WholeBars
<1>3. a * d <= t /\ t < a * d + d /\ b * d <= t + 1 /\ t + 1 < b * d + d
  BY <1>1, <1>2, WholeBars
<1>4. a * d \in Nat /\ b * d \in Nat /\ (a + 1) * d \in Nat /\ (a + 1) * d = a * d + d
  BY BarsBefore
<1>5. a <= b
  BY <1>3, <1>4, NoMoreBars
<1>6. b <= a + 1
  <2>1. b * d < (a + 1) * d + d
    BY <1>3, <1>4
  <2> QED BY <2>1, NoMoreBars
<1> QED BY <1>1, <1>2, <1>5, <1>6

\* An earlier cutoff sees no more bars.
LEMMA FewerBars ==
    ASSUME NEW t \in Nat, NEW u \in Nat, t <= u, NEW d \in Nat \ {0}
    PROVE  t \div d <= u \div d
<1>1. PICK a \in Nat : a = t \div d
  BY WholeBars
<1>2. PICK b \in Nat : b = u \div d
  BY WholeBars
<1>3. a * d <= t /\ u < b * d + d
  BY <1>1, <1>2, WholeBars
<1>4. a * d \in Nat /\ b * d \in Nat
  BY BarsBefore
<1>5. a * d < b * d + d
  BY <1>3, <1>4
<1> QED BY <1>1, <1>2, <1>5, NoMoreBars

\* The bars of a timeframe, and those that have closed by t.
LEMMA DerivedBars ==
    ASSUME NEW C, \A c \in C : c.o \in Int, NEW series \in Seq(C), NEW d \in Nat \ {0}
    PROVE  /\ Len(Derived(series, d)) = Len(series) \div d
           /\ \A b \in 1..(Len(series) \div d) : Derived(series, d)[b].o \in Int
           /\ \E S : Derived(series, d) \in Seq(S)
<1> DEFINE part(b) == SubSeq(series, (b - 1) * d + 1, b * d)
           bar(b) == [o |-> part(b)[1].o, c |-> part(b)[d].c,
                      h |-> Max({part(b)[n].h : n \in 1..d}), l |-> Min({part(b)[n].l : n \in 1..d})]
           N == Len(series) \div d
           S == {bar(b) : b \in 1..N}
<1>1. N \in Nat
  BY WholeBars
<1>2. Derived(series, d) = [b \in 1..N |-> bar(b)]
  BY DEF Derived
<1>3. Derived(series, d) \in Seq(S) /\ Len(Derived(series, d)) = N
  <2> HIDE DEF bar, N
  <2> QED BY <1>1, <1>2
<1>4. ASSUME NEW b \in 1..N
      PROVE  Derived(series, d)[b].o \in Int
  <2>1. /\ (b - 1) * d \in Nat /\ b * d \in Nat /\ (b - 1) * d < b * d /\ (b - 1) * d + d = b * d
    BY <1>1, BarTimes
  <2>2. b * d <= Len(series)
    <3>1. PICK m \in Nat : m = N
      BY <1>1
    <3>2. m * d <= Len(series)
      BY <3>1, WholeBars
    <3>3. b * d <= m * d /\ m * d \in Nat
      <4>1. b \in Nat /\ b <= m
        <5> HIDE DEF N
        <5> QED BY <3>1
      <4> QED BY <3>1, <4>1, BarsBefore
    <3>4. Len(series) \in Nat
      OBVIOUS
    <3> QED BY ONLY <2>1, <3>2, <3>3, <3>4
  <2>3. PICK x \in Nat : x = (b - 1) * d
    BY <2>1
  <2>4. PICK y \in Nat : y = b * d
    BY <2>1
  <2>5. x + 1 \in 1..Len(series) /\ y \in 1..Len(series) /\ x + 1 <= y
    <3>1. x < y /\ y <= Len(series)
      BY <2>1, <2>2, <2>3, <2>4
    <3>2. x \in Nat /\ y \in Nat /\ Len(series) \in Nat
      BY <2>3, <2>4
    <3> QED BY ONLY <3>1, <3>2
  <2>6. SubSeq(series, x + 1, y)[1] = series[x + 1]
    BY <2>5
  <2>7. part(b)[1].o \in Int
    <3>1. part(b) = SubSeq(series, x + 1, y)
      BY <2>3, <2>4
    <3>2. series[x + 1] \in C
      BY <2>5
    <3> QED BY <2>6, <3>1, <3>2
  <2>8. Derived(series, d)[b] = bar(b)
    <3> HIDE DEF bar
    <3> QED BY <1>2
  <2> QED BY <2>7, <2>8
<1> QED BY <1>3, <1>4

\* What _IndexedCandleSeries.closed returns at t: the first whole bars of the series,
\* each of them closed by t.
LEMMA VisibleBars ==
    ASSUME NEW C, \A c \in C : c.o \in Int, NEW series \in Seq(C), NEW d \in Nat \ {0},
           NEW t \in Nat, t <= Len(series)
    PROVE  LET V == ClosedBars(Derived(series, d), d, t)
           IN  /\ Len(V) = t \div d /\ Len(V) \in Nat
               /\ \A n \in 1..Len(V) : V[n] = Derived(series, d)[n] /\ V[n].o \in Int /\ n * d <= t
<1> DEFINE D == Derived(series, d)
<1>1. PICK m \in Nat : m = t \div d
  BY WholeBars
<1>2. PICK N \in Nat : N = Len(series) \div d
  <2>1. Len(series) \in Nat
    OBVIOUS
  <2> QED BY <2>1, WholeBars
<1>3. m <= N
  <2>1. PICK u \in Nat : u = Len(series)
    OBVIOUS
  <2>2. t \div d <= u \div d
    BY <2>1, FewerBars
  <2> QED BY <1>1, <1>2, <2>1, <2>2
<1>4. PICK S : D \in Seq(S)
  BY DerivedBars
<1>5. Len(D) = N /\ \A b \in 1..N : D[b].o \in Int
  BY <1>2, DerivedBars
<1> HIDE DEF D
<1>6. Min({m, N}) = m
  BY <1>3 DEF Min
<1>7. ClosedBars(D, d, t) = SubSeq(D, 1, m)
  BY <1>1, <1>5, <1>6 DEF ClosedBars
<1>8. /\ Len(SubSeq(D, 1, m)) = m /\ \A n \in 1..m : SubSeq(D, 1, m)[n] = D[n]
  BY <1>3, <1>4, <1>5
<1>9. \A n \in 1..m : n * d <= t
  BY <1>1, BarsBefore, WholeBars
<1> QED BY <1>1, <1>3, <1>5, <1>7, <1>8, <1>9 DEF D

-----------------------------------------------------------------------------
(* The runtimes of the backtest *)

Visible(i, t) == ClosedBars(Series(i), Signals[i].tf, t)

\* The fill of a trade that ended.
ExitFill(lc, x) ==
    /\ x # NoExit
    /\ x.requested \in Int /\ x.base \in Int /\ x.price \in Int /\ x.planned \in Int
    /\ x.spread \in Int /\ x.slip \in Int /\ x.total \in Int /\ x.gapSlip \in Int /\ x.commission \in Int
    /\ x.bar = Last(lc.events).bar /\ x.at = IF x.gap THEN x.bar ELSE lc.terminal

\* What the runner keeps of a signal it replayed by t.
RuntimeAt(i, rt, t) ==
    /\ rt.s = Signal(i, rt.s.createdAt) /\ rt.s.createdAt \in Nat /\ rt.s.createdAt <= t
    /\ rt.inv = NoTime \/ (rt.inv \in Nat /\ rt.s.createdAt <= rt.inv /\ rt.inv <= t)
    /\ Life(rt.s, rt.lc, t) /\ rt.lc.raised = FALSE
    /\ rt.entry = rt.lc.captured
    /\ rt.lc.status \in {"TP_HIT", "SL_HIT"} =>
          ExitFill(rt.lc, rt.execution) /\ ExitEvidenceHolds(rt.s, rt.entry, rt.execution)

TapeOK == cfg \in Scenarios /\ tape \in Seq(cfg.candles) /\ now \in 0..Length
RuntimesOK ==
    \A i \in Ids : Known(i) =>
        /\ RuntimeAt(i, runtimes[i], now)
        /\ run = "RUNNING" =>
              runtimes[i].lc = ReplaySignalLifecycle(runtimes[i].s, Visible(i, now), Signals[i].tf,
                                                     runtimes[i].inv, cfg)
EngineInv ==
    /\ TapeOK /\ RuntimesOK
    /\ run \in {"RUNNING", "REPORTED", "RESULT_REFUSED", "REPORT_REFUSED"}

\* A signal has its candidate's levels.
LEMMA SignalNumbers ==
    ASSUME NEW i \in Ids, NEW c \in Nat
    PROVE  /\ Numbers(Signal(i, c)) /\ LevelsHold(Signal(i, c)) /\ Signals[i].tf \in Nat \ {0}
           /\ Signal(i, c).createdAt = c
BY SignalsAssumption DEF Numbers, Signal, LevelsHold, Ids

\* What a replay at t gets is what it may get.
LEMMA ReplayInputsAt ==
    ASSUME TapeOK, NEW i \in Ids, NEW c \in Nat, NEW t \in Nat, t <= Length, c <= t, NEW inv,
           inv = NoTime \/ (inv \in Nat /\ c <= inv)
    PROVE  /\ ReplayInputs(Signal(i, c), Visible(i, t), Signals[i].tf, inv, cfg, t)
           /\ Len(Visible(i, t)) = t \div Signals[i].tf
           /\ \A n \in 1..Len(Visible(i, t)) : Visible(i, t)[n] = Series(i)[n]
<1>1. /\ Numbers(Signal(i, c)) /\ Signals[i].tf \in Nat \ {0} /\ Signal(i, c).createdAt = c
  BY SignalNumbers
<1>2. Costs(cfg) /\ (\A x \in cfg.candles : x.o \in Int) /\ tape \in Seq(cfg.candles)
  BY SignalsAssumption DEF TapeOK, Costs, CandleHolds
<1>3. PICK d \in Nat \ {0} : d = Signals[i].tf
  BY <1>1
<1>4. PICK V : V = ClosedBars(Derived(tape, d), d, t)
  OBVIOUS
<1>5. V = Visible(i, t) /\ Series(i) = Derived(tape, d)
  BY <1>3, <1>4 DEF Visible, Series
<1>6. /\ Len(V) = t \div d /\ Len(V) \in Nat
      /\ \A n \in 1..Len(V) : V[n] = Derived(tape, d)[n] /\ V[n].o \in Int /\ n * d <= t
  BY <1>2, <1>4, VisibleBars DEF Length
<1> QED BY <1>1, <1>2, <1>3, <1>5, <1>6 DEF ReplayInputs

\* The next replay of a known signal is a later one.
LEMMA ReplayAgain ==
    ASSUME EngineInv, run = "RUNNING", now < Length, NEW i \in Ids, Known(i),
           NEW inv, inv = runtimes[i].inv \/ (runtimes[i].inv = NoTime /\ inv = now + 1),
           NEW lc, lc = ReplaySignalLifecycle(runtimes[i].s, Visible(i, now + 1), Signals[i].tf, inv, cfg)
    PROVE  ~lc.raised => Later(runtimes[i].lc, lc)
<1>1. PICK t \in Nat : t = now /\ t + 1 <= Length /\ t <= Length
  BY DEF EngineInv, TapeOK, Length
<1>2. PICK d : d = Signals[i].tf
  OBVIOUS
<1>3. PICK old : old = Visible(i, t)
  OBVIOUS
<1>4. PICK more : more = Visible(i, t + 1)
  OBVIOUS
<1>5. PICK rt : rt = runtimes[i]
  OBVIOUS
<1>6. PICK c : c = rt.s.createdAt
  OBVIOUS
<1>7. /\ RuntimeAt(i, rt, t) /\ c \in Nat /\ c <= t /\ rt.s = Signal(i, c)
      /\ rt.lc = ReplaySignalLifecycle(rt.s, old, d, rt.inv, cfg)
      /\ rt.inv = NoTime \/ (rt.inv \in Nat /\ c <= rt.inv /\ rt.inv <= t)
  BY <1>1, <1>2, <1>3, <1>5, <1>6 DEF EngineInv, RuntimesOK, RuntimeAt
<1>8. /\ ReplayInputs(rt.s, old, d, rt.inv, cfg, t)
      /\ Len(old) = t \div d /\ \A n \in 1..Len(old) : old[n] = Series(i)[n]
  <2>1. /\ ReplayInputs(Signal(i, c), Visible(i, t), Signals[i].tf, rt.inv, cfg, t)
        /\ Len(Visible(i, t)) = t \div Signals[i].tf
        /\ \A n \in 1..Len(Visible(i, t)) : Visible(i, t)[n] = Series(i)[n]
    BY <1>1, <1>7, ReplayInputsAt DEF EngineInv
  <2> QED BY <1>2, <1>3, <1>7, <2>1
<1>9. inv = NoTime \/ (inv \in Nat /\ c <= inv)
  BY <1>1, <1>5, <1>7
<1>10. /\ ReplayInputs(rt.s, more, d, inv, cfg, t + 1)
       /\ Len(more) = (t + 1) \div d /\ \A n \in 1..Len(more) : more[n] = Series(i)[n]
  <2>1. /\ ReplayInputs(Signal(i, c), Visible(i, t + 1), Signals[i].tf, inv, cfg, t + 1)
        /\ Len(Visible(i, t + 1)) = (t + 1) \div Signals[i].tf
        /\ \A n \in 1..Len(Visible(i, t + 1)) : Visible(i, t + 1)[n] = Series(i)[n]
    <3>1. t + 1 \in Nat /\ t + 1 <= Length /\ c \in Nat /\ c <= t + 1
      BY <1>1, <1>7
    <3> QED BY <1>9, <3>1, ReplayInputsAt DEF EngineInv
  <2> QED BY <1>2, <1>4, <1>7, <2>1
<1>11. d \in Nat \ {0} /\ Len(old) \in Nat /\ Len(more) \in {Len(old), Len(old) + 1}
  BY <1>8, <1>10, OneMoreBar DEF ReplayInputs
<1>12. Opened(rt.s, inv) = Opened(rt.s, rt.inv)
  BY <1>1, <1>5, <1>6, <1>7 DEF Opened, NoTime
<1>13. ASSUME NEW n \in 1..Len(old), NEW acc
       PROVE  ReplayBar(rt.s, more, d, inv, cfg, acc, n) = ReplayBar(rt.s, old, d, rt.inv, cfg, acc, n)
  <2>1. \A m \in 1..n : more[m] = old[m]
    <3>1. \A m \in 1..n : m \in 1..Len(old) /\ m \in 1..Len(more)
      BY <1>11
    <3> QED BY <1>8, <1>10, <3>1
  <2>2. n * d <= t /\ n * d \in Nat /\ n \in Nat \ {0}
    <3>1. n \in Nat \ {0}
      BY <1>11
    <3> QED BY <1>8, <1>11, <3>1, BarTimes DEF ReplayInputs
  <2>3. inv = rt.inv \/ (rt.inv = NoTime /\ n * d < inv)
    BY <1>1, <1>5, <2>2
  <2>4. inv \in Int
    BY <1>9 DEF NoTime
  <2> QED BY <1>11, <2>1, <2>2, <2>3, <2>4, SameBar
<1>14. lc = ReplaySignalLifecycle(rt.s, more, d, inv, cfg)
  BY <1>1, <1>2, <1>4, <1>5
<1>15. \/ lc = rt.lc
       \/ Len(more) = Len(old) + 1 /\ lc = ReplayBar(rt.s, more, d, inv, cfg, rt.lc, Len(more))
  <2>1. OneBarMore(ReplaySignalLifecycle(rt.s, old, d, rt.inv, cfg), ReplaySignalLifecycle(rt.s, more, d, inv, cfg),
              rt.s, old, more, d, inv, cfg)
    BY <1>11, <1>12, <1>13, ReplayGrows
  <2> QED BY <1>7, <1>14, <2>1 DEF OneBarMore
<1>16. CASE lc = rt.lc
  BY <1>5, <1>7, <1>16, LaterReflexive DEF RuntimeAt, Life
<1>17. CASE Len(more) = Len(old) + 1 /\ lc = ReplayBar(rt.s, more, d, inv, cfg, rt.lc, Len(more))
  <2>1. PICK n : n = Len(more)
    OBVIOUS
  <2>2. n \in Nat \ {0} /\ n - 1 = Len(old) /\ n \in 1..Len(more) /\ n = (t + 1) \div d /\ n - 1 = t \div d
    BY <1>8, <1>10, <1>11, <1>17, <2>1
  <2>3. n * d <= t + 1 /\ n * d \in Nat /\ (n - 1) * d \in Nat /\ (n - 1) * d < n * d
    BY <1>10, <1>11, <2>2, BarTimes DEF ReplayInputs
  <2>4. BarInputs(rt.s, more, n, d, inv, cfg, t + 1)
    BY <1>1, <1>10, <1>11, <2>2, <2>3 DEF BarInputs, ReplayInputs
  <2>5. PICK t0 : t0 = LastClose(rt.s, n - 1, d)
    OBVIOUS
  <2>6. Life(rt.s, rt.lc, t0)
    BY <1>7, <1>8, <2>2, <2>5, ReplayLife
  <2>7. t0 \in Int /\ t0 <= t + 1 /\ (~Predates(rt.s, (n - 1) * d) => t0 <= (n - 1) * d)
    BY <1>1, <1>6, <1>7, <2>3, <2>5 DEF LastClose, Predates
  <2> QED BY <1>5, <1>17, <2>1, <2>4, <2>6, <2>7, ReplayBarLife
<1> QED BY <1>15, <1>16, <1>17

\* A bar is found again by the time it opened.
LEMMA BarIndex ==
    ASSUME NEW m \in Nat \ {0}, NEW d \in Nat \ {0}
    PROVE  ((m - 1) * d) \div d + 1 = m
<1>1. PICK u \in Nat : u = (m - 1) * d
  BY BarTimes
<1>2. PICK q \in Nat : q = u \div d
  BY <1>1, WholeBars
<1>3. q * d <= u /\ u < q * d + d
  BY <1>1, <1>2, WholeBars
<1>4. q * d \in Nat /\ m - 1 \in Nat
  BY BarsBefore
<1>5. m - 1 <= q
  BY <1>1, <1>3, <1>4, NoMoreBars
<1>6. q <= m - 1
  <2>1. q * d < (m - 1) * d + d
    BY <1>1, <1>3, <1>4
  <2> QED BY <1>4, <2>1, NoMoreBars
<1> QED BY <1>1, <1>2, <1>4, <1>5, <1>6

\* A set of numbers is positive when its least element is.
LEMMA LeastElement ==
    ASSUME NEW S \in SUBSET Int, NEW m \in S, \A x \in S : m <= x
    PROVE  /\ (0 < Min(S) <=> \A x \in S : 0 < x) /\ (0 <= Min(S) <=> \A x \in S : 0 <= x)
<1>1. Min(S) \in S /\ \A x \in S : Min(S) <= x
  BY DEF Min
<1>2. PICK l \in Int : l = Min(S)
  BY <1>1
<1> QED BY <1>1, <1>2

\* One more number, and there still is a least one.
LEMMA LeastOfTwo ==
    ASSUME NEW S \in SUBSET Int, NEW m \in S, \A x \in S : m <= x, NEW a \in Int
    PROVE  \E n \in S \cup {a} : \A x \in S \cup {a} : n <= x
<1>1. CASE m <= a
  BY <1>1
<1>2. CASE a < m
  BY <1>2
<1> QED BY <1>1, <1>2

\* Three numbers are positive when their least is.
LEMMA PositiveThree ==
    ASSUME NEW a \in Int, NEW b \in Int, NEW c \in Int
    PROVE  0 < Min({a, b, c}) <=> 0 < a /\ 0 < b /\ 0 < c
<1>1. PICK n \in {a, b, c} : \A x \in {a, b, c} : n <= x
  OBVIOUS
<1> QED BY <1>1, LeastElement

\* Four numbers are positive when their least is.
LEMMA PositiveFour ==
    ASSUME NEW a \in Int, NEW b \in Int, NEW c \in Int, NEW d \in Int
    PROVE  0 < Min({a, b, c, d}) <=> 0 < a /\ 0 < b /\ 0 < c /\ 0 < d
<1>1. PICK m \in {a, b, c} : \A x \in {a, b, c} : m <= x
  OBVIOUS
<1>2. PICK n \in {a, b, c} \cup {d} : \A x \in {a, b, c} \cup {d} : n <= x
  BY <1>1, LeastOfTwo
<1>3. {a, b, c} \cup {d} = {a, b, c, d}
  OBVIOUS
<1> QED BY <1>2, <1>3, LeastElement

\* The first three of six numbers are positive when the least of all is.
LEMMA PositiveSix ==
    ASSUME NEW a \in Int, NEW b \in Int, NEW c \in Int, NEW d \in Int, NEW e \in Int, NEW f \in Int
    PROVE  0 < Min({a, b, c, d, e, f}) => 0 < a /\ 0 < b /\ 0 < c
<1>1. PICK m \in {a, b, c} : \A x \in {a, b, c} : m <= x
  OBVIOUS
<1>2. PICK n \in {a, b, c} \cup {d} : \A x \in {a, b, c} \cup {d} : n <= x
  BY <1>1, LeastOfTwo
<1>3. PICK p \in ({a, b, c} \cup {d}) \cup {e} : \A x \in ({a, b, c} \cup {d}) \cup {e} : p <= x
  BY <1>2, LeastOfTwo
<1>4. PICK q \in (({a, b, c} \cup {d}) \cup {e}) \cup {f} : \A x \in (({a, b, c} \cup {d}) \cup {e}) \cup {f} : q <= x
  BY <1>3, LeastOfTwo
<1>5. (({a, b, c} \cup {d}) \cup {e}) \cup {f} = {a, b, c, d, e, f}
  OBVIOUS
<1> QED BY <1>4, <1>5, LeastElement

\* The execution of a trade that a bar ended.
LEMMA ExitOfTrade ==
    ASSUME NEW s, Numbers(s), NEW k, Costs(k), NEW bars, NEW d \in Nat \ {0}, Len(bars) \in Nat,
           \A n \in 1..Len(bars) : bars[n].o \in Int, NEW lc, lc.status \in Closings, lc.terminal \in Int,
           EntryFill(s, lc.captured),
           \E m \in 1..Len(bars) : Last(lc.events).bar = (m - 1) * d,
           NEW x, x = EvaluateExecution(s, bars, d, lc, lc.captured, k)
    PROVE  \/ x = NoExit /\ lc.status = "AMBIGUOUS"
           \/ /\ ExitFill(lc, x)
              /\ x.net \in Int /\ x.at \in Int /\ x.outcome \in {"PROFIT", "LOSS", "FLAT"}
<1>1. EntryFill(s, lc.captured)
  OBVIOUS
<1>2. PICK m \in 1..Len(bars) : Last(lc.events).bar = (m - 1) * d
  OBVIOUS
<1>3. PICK open : open = Last(lc.events).bar
  OBVIOUS
<1>4. open \div d + 1 = m
  BY <1>2, <1>3, BarIndex
<1>5. PICK bar : bar = bars[m]
  OBVIOUS
<1>6. x = ExecuteTerminalCandle(s, bar, open, lc, lc.captured, k)
  BY <1>1, <1>3, <1>4, <1>5 DEF EvaluateExecution, EntryFill, Closings
<1> DEFINE gapped == IF ActiveBeforeOpen(lc.captured, open) THEN OpeningGapReason(s, bar) ELSE "NONE"
           gap == gapped # "NONE"
           reason == IF gap THEN gapped ELSE IF lc.status = "TP_HIT" THEN "TAKE_PROFIT" ELSE "STOP_LOSS"
           requested == IF reason = "TAKE_PROFIT" THEN s.tp ELSE s.sl
           base == IF gap /\ reason = "STOP_LOSS" THEN bar.o ELSE requested
           slip == base * k.slippage
           price == IF s.dir = "LONG" THEN base * Bps - slip ELSE base * Bps + slip
<1>0. CASE ~gap /\ lc.status = "AMBIGUOUS"
  <2>1. x = NoExit
    BY <1>0, <1>6, Zenon DEF ExecuteTerminalCandle
  <2> QED BY <1>0, <2>1
<1> SUFFICES ASSUME ~(~gap /\ lc.status = "AMBIGUOUS")
             PROVE  /\ ExitFill(lc, x)
                    /\ x.net \in Int /\ x.at \in Int /\ x.outcome \in {"PROFIT", "LOSS", "FLAT"}
  <2> HIDE DEF gap
  <2> QED BY <1>0
<1>7. requested \in Int /\ base \in Int
  <2>1. bar.o \in Int
    BY <1>5
  <2> QED BY <2>1 DEF Numbers
<1>8. /\ x.reason = reason /\ x.requested = requested /\ x.base = base /\ x.price = price /\ x.gap = gap
      /\ x.slip = slip /\ x.total = lc.captured.slip + slip /\ x.gapSlip = Distance(base, requested)
      /\ x.spread = lc.captured.spread /\ x.commission = (lc.captured.base + base) * k.commission
      /\ x.planned = lc.captured.planned
      /\ x.bar = open /\ x.at = IF gap THEN open ELSE lc.terminal
      /\ x.net = (IF s.dir = "LONG" THEN price - lc.captured.price ELSE lc.captured.price - price)
                   - lc.captured.spread - (lc.captured.base + base) * k.commission
      /\ x.outcome = ClassifyFinancialOutcome(x.net)
  <2> DEFINE gross == IF s.dir = "LONG" THEN price - lc.captured.price ELSE lc.captured.price - price
             commission == (lc.captured.base + base) * k.commission
             net == gross - lc.captured.spread - commission
  <2>1. ~(~gap /\ lc.status = "AMBIGUOUS")
    OBVIOUS
  <2>2. x = [reason |-> reason, requested |-> requested, base |-> base, price |-> price, gap |-> gap,
             slip |-> slip, total |-> lc.captured.slip + slip, gapSlip |-> Distance(base, requested),
             spread |-> lc.captured.spread, commission |-> commission, gross |-> gross, net |-> net,
             planned |-> lc.captured.planned, outcome |-> ClassifyFinancialOutcome(net),
             at |-> IF gap THEN open ELSE lc.terminal, bar |-> open]
    BY <1>6, <2>1, Zenon DEF ExecuteTerminalCandle
  <2> HIDE DEF reason, requested, base, price, gap, slip, gross, commission, net
  <2> QED BY <2>2 DEF commission, gross, net
<1>9. x # NoExit
  <2>1. reason \in {"TAKE_PROFIT", "STOP_LOSS"}
    BY DEF OpeningGapReason
  <2> QED BY <1>8, <2>1 DEF NoExit
<1> HIDE DEF gapped, gap, reason, requested, base, slip, price
<1>10. slip \in Int /\ base * Bps \in Int
  BY <1>7 DEF Costs, Bps, slip
<1>11. price \in Int
  BY <1>10 DEF price
<1>12. Distance(base, requested) \in Int
  BY <1>7 DEF Distance
<1>13. (lc.captured.base + base) * k.commission \in Int
  <2>1. lc.captured.base + base \in Int /\ k.commission \in Int
    BY <1>1, <1>7 DEF EntryFill, Costs
  <2> QED BY <2>1
<1>14. lc.captured.slip + slip \in Int
  BY <1>1, <1>10 DEF EntryFill
<1>15. ExitFill(lc, x)
  BY <1>1, <1>3, <1>7, <1>8, <1>9, <1>10, <1>11, <1>12, <1>13, <1>14 DEF ExitFill, EntryFill
<1>16. x.net \in Int
  <2>1. PICK paid \in Int : paid = (lc.captured.base + base) * k.commission
    BY <1>13
  <2>2. PICK gross \in Int : gross = IF s.dir = "LONG" THEN price - lc.captured.price ELSE lc.captured.price - price
    <3>1. price \in Int /\ lc.captured.price \in Int
      BY <1>1, <1>11 DEF EntryFill
    <3>2. price - lc.captured.price \in Int /\ lc.captured.price - price \in Int
      BY ONLY <3>1
    <3>3. CASE s.dir = "LONG"
      BY <3>2, <3>3
    <3>4. CASE s.dir # "LONG"
      BY <3>2, <3>4
    <3> QED BY <3>3, <3>4
  <2>3. lc.captured.spread \in Int
    BY <1>1 DEF EntryFill
  <2>4. x.net = gross - lc.captured.spread - paid
    BY <1>8, <2>1, <2>2
  <2> QED BY <2>3, <2>4
<1>17. x.at \in Int
  <2>1. open \in Int
    BY <1>2, <1>3
  <2> QED BY <1>8, <2>1
<1> QED BY <1>8, <1>15, <1>16, <1>17 DEF ClassifyFinancialOutcome

\* The entry a life has captured.
LEMMA LifeCaptured ==
    ASSUME NEW s, NEW lc, NEW t, Life(s, lc, t)
    PROVE  /\ lc.captured = NoEntry \/ (lc.captured.executed = TRUE /\ EntryFill(s, lc.captured))
           /\ lc.status = "WAITING" => lc.captured = NoEntry
           /\ lc.status \in {"ACTIVE", "TP_HIT", "SL_HIT"} => lc.captured.executed = TRUE
           /\ lc.status \in {"WAITING", "ACTIVE"} \cup Terminal
           /\ lc.status \in Terminal => lc.terminal \in Int
BY DEF Life, IsWaiting, IsActive, IsHit, IsCancelled, IsAmbiguous, Left, NotEntered, Entered, IsEntry,
       EndedBy, EntryFill, Terminal

\* What an evaluation replays a signal with.
ReplayOf(i, created, inv) ==
    \/ /\ Known(i) /\ created = runtimes[i].s.createdAt
       /\ inv = runtimes[i].inv \/ (runtimes[i].inv = NoTime /\ inv = now + 1)
    \/ ~Known(i) /\ created = now + 1 /\ inv \in {NoTime, now + 1}

\* An execution that metrics can add up.
Priced(x) == x # NoExit => /\ x.planned \in Nat \ {0} /\ x.net \in Int /\ x.at \in Int
                           /\ x.outcome \in {"PROFIT", "LOSS", "FLAT"}

\* What it makes of it: a new runtime that waits or was cancelled at once, or a later
\* look at the same signal.
GoesOn(i, rt) ==
    /\ RuntimeAt(i, rt, now + 1) /\ rt.rewritten = FALSE
    /\ rt.lc = ReplaySignalLifecycle(rt.s, Visible(i, now + 1), Signals[i].tf, rt.inv, cfg)
    /\ Known(i) => Later(runtimes[i].lc, rt.lc) /\ rt.s = runtimes[i].s
    /\ runtimes[i].lc.status \in Terminal \/ rt.lc.status \notin Terminal =>
          rt.execution = runtimes[i].execution
    /\ runtimes[i].lc.status \notin Terminal /\ rt.lc.status \in Terminal =>
          rt.execution = EvaluateExecution(rt.s, Visible(i, now + 1), Signals[i].tf, rt.lc, rt.lc.captured, cfg)
    /\ rt.execution = runtimes[i].execution \/ Priced(rt.execution)
    /\ ~Known(i) => rt.lc.status \in {"WAITING", "CANCELLED"} /\ rt.lc.captured = NoEntry

\* One signal at one evaluation.
LEMMA ReplayedAt ==
    ASSUME EngineInv, run = "RUNNING", now < Length, NEW i \in Ids, NEW created, NEW inv,
           ReplayOf(i, created, inv), NEW rt, rt = Replayed(i, created, inv, now + 1), ~Refused(rt)
    PROVE  GoesOn(i, rt)
<1>1. PICK t \in Nat : t = now /\ t + 1 \in Nat /\ t + 1 <= Length
  BY DEF EngineInv, TapeOK, Length
<1>2. PICK V : V = Visible(i, t + 1)
  OBVIOUS
<1>3. PICK d : d = Signals[i].tf
  OBVIOUS
<1>4. PICK s : s = Signal(i, created)
  OBVIOUS
<1>5. PICK lc : lc = ReplaySignalLifecycle(s, V, d, inv, cfg)
  OBVIOUS
<1>6. PICK old : old = runtimes[i]
  OBVIOUS
<1>7. Known(i) => RuntimeAt(i, old, t)
  BY <1>1, <1>6 DEF EngineInv, RuntimesOK
<1>8. created \in Nat /\ created <= t + 1 /\ (inv = NoTime \/ (inv \in Nat /\ created <= inv /\ inv <= t + 1))
  BY <1>1, <1>6, <1>7 DEF ReplayOf, RuntimeAt
<1>9. ReplayInputs(s, V, d, inv, cfg, t + 1)
  BY <1>1, <1>2, <1>3, <1>4, <1>8, ReplayInputsAt DEF EngineInv
<1>10. /\ Life(s, lc, t + 1)
       /\ lc.status \in Closings => \E m \in 1..Len(V) : Last(lc.events).bar = (m - 1) * d
  BY <1>5, <1>9, ReplayLife
<1>11. /\ rt.s = s /\ rt.inv = inv /\ rt.lc = lc
       /\ rt.entry = IF lc.captured.executed THEN lc.captured ELSE old.entry
       /\ rt.rewritten = (lc.captured.executed /\ old.entry.executed /\ old.entry # lc.captured)
       /\ rt.execution = IF old.lc.status \notin Terminal /\ lc.status \in Terminal
                         THEN EvaluateExecution(s, V, d, lc, rt.entry, cfg) ELSE old.execution
  BY <1>1, <1>2, <1>3, <1>4, <1>5, <1>6 DEF Replayed, Visible
<1>12. lc.raised = FALSE
  BY <1>10, <1>11 DEF Refused, Life
<1>15. ASSUME rt.entry = lc.captured
       PROVE  rt.execution = old.execution \/ Priced(rt.execution)
  <2> PICK x : x = EvaluateExecution(s, V, d, lc, rt.entry, cfg)
    OBVIOUS
  <2> SUFFICES ASSUME rt.execution = x, lc.status \in Terminal, x # NoExit PROVE Priced(x)
    BY <1>11 DEF Priced
  <2>1. lc.status \in Closings /\ rt.entry.executed /\ lc.captured # NoEntry
    BY <1>15 DEF EvaluateExecution, Terminal, Closings, NoEntry
  <2>2. EntryFill(s, lc.captured) /\ lc.terminal \in Int
    BY <1>10, <2>1, LifeCaptured
  <2>3. ExitFill(lc, x) /\ x.net \in Int /\ x.at \in Int /\ x.outcome \in {"PROFIT", "LOSS", "FLAT"}
    <3>1. x = EvaluateExecution(s, V, d, lc, lc.captured, cfg)
      BY <1>15
    <3>2. Numbers(s) /\ Costs(cfg) /\ d \in Nat \ {0} /\ Len(V) \in Nat /\ \A n \in 1..Len(V) : V[n].o \in Int
      BY <1>9 DEF ReplayInputs
    <3>3. \E m \in 1..Len(V) : Last(lc.events).bar = (m - 1) * d
      BY <1>10, <2>1
    <3> QED BY <2>1, <2>2, <3>1, <3>2, <3>3, ExitOfTrade
  <2>4. ExitEvidenceHolds(s, lc.captured, x)
    BY <1>11, <1>15, <2>1 DEF Refused, Terminal, Closings
  <2>5. PICK n : n = {x.requested, x.base, x.price, x.planned, lc.captured.price, lc.captured.risk}
    OBVIOUS
  <2>6. 0 < Min(n)
    BY <2>4, <2>5 DEF ExitEvidenceHolds
  <2>7. n = {x.planned, x.base, x.price, x.requested, lc.captured.price, lc.captured.risk}
    BY <2>5
  <2>8. 0 < x.planned
    <3>1. /\ x.planned \in Int /\ x.base \in Int /\ x.price \in Int /\ x.requested \in Int
          /\ lc.captured.price \in Int /\ lc.captured.risk \in Int
      BY <2>2, <2>3 DEF ExitFill, EntryFill
    <3>2. 0 < Min({x.planned, x.base, x.price, x.requested, lc.captured.price, lc.captured.risk})
      BY <2>6, <2>7
    <3> QED BY <3>1, <3>2, PositiveSix
  <2> QED BY <2>3, <2>8 DEF Priced, ExitFill
<1>13. CASE Known(i)
  <2>1. old.s = s
    BY <1>4, <1>6, <1>7, <1>13 DEF ReplayOf, RuntimeAt
  <2>2. Later(old.lc, lc)
    BY <1>1, <1>2, <1>3, <1>5, <1>6, <1>12, <1>13, <2>1, ReplayAgain DEF ReplayOf
  <2>3. RuntimeAt(i, old, t) /\ Life(s, old.lc, t) /\ old.entry = old.lc.captured
    BY <1>7, <1>13, <2>1 DEF RuntimeAt
  <2>4. old.lc.captured # NoEntry => lc.captured = old.lc.captured
    BY <2>2, <2>3, LifeCaptured DEF Later
  <2>5. NoEntry.executed = FALSE
    BY DEF NoEntry
  <2>6. rt.entry = lc.captured /\ rt.rewritten = FALSE
    <3>1. lc.captured = NoEntry \/ lc.captured.executed = TRUE
      BY <1>10, LifeCaptured
    <3>2. old.entry = NoEntry \/ old.entry = lc.captured
      BY <2>3, <2>4
    <3> QED BY <1>11, <2>5, <3>1, <3>2
  <2>7. lc.status \in {"TP_HIT", "SL_HIT"} => ExitFill(lc, rt.execution) /\ ExitEvidenceHolds(s, rt.entry, rt.execution)
    <3>1. CASE old.lc.status \in Terminal
      <4>1. lc = old.lc
        BY <2>2, <3>1 DEF Later
      <4> QED BY <1>11, <2>1, <2>3, <2>6, <3>1, <4>1 DEF RuntimeAt
    <3>2. CASE old.lc.status \notin Terminal /\ lc.status \in {"TP_HIT", "SL_HIT"}
      <4>1. rt.execution = EvaluateExecution(s, V, d, lc, lc.captured, cfg)
        BY <1>11, <2>6, <3>2 DEF Terminal
      <4>3. rt.entry.executed /\ EntryFill(s, lc.captured) /\ lc.terminal \in Int
        BY <1>10, <2>5, <2>6, <3>2, LifeCaptured DEF Terminal
      <4>2. ExitFill(lc, rt.execution)
        BY <1>9, <1>10, <3>2, <4>1, <4>3, ExitOfTrade DEF ReplayInputs, Closings
      <4> QED BY <1>11, <3>2, <4>2, <4>3 DEF Refused, Terminal
    <3> QED BY <3>1, <3>2
  <2>8. RuntimeAt(i, rt, t + 1)
    <3>1. s.createdAt = created
      BY <1>4, <1>8, SignalNumbers
    <3> QED BY <1>4, <1>8, <1>10, <1>11, <1>12, <2>6, <2>7, <3>1 DEF RuntimeAt
  <2>9. rt.execution = old.execution \/ Priced(rt.execution)
    BY <1>15, <2>6
  <2> QED BY <1>1, <1>2, <1>3, <1>4, <1>5, <1>6, <1>11, <1>13, <2>1, <2>2, <2>6, <2>8, <2>9 DEF GoesOn
<1>14. CASE ~Known(i)
  <2>1. old.entry = NoEntry /\ NoEntry.executed = FALSE
    <3>1. old = NoRuntime
      BY <1>6, <1>14 DEF Known
    <3>2. NoRuntime.entry = NoEntry
      BY DEF NoRuntime
    <3>3. NoEntry.executed = FALSE
      BY DEF NoEntry
    <3> QED BY <3>1, <3>2, <3>3
  <2>2. s.createdAt = t + 1 /\ created = t + 1
    BY <1>1, <1>4, <1>8, <1>14, SignalNumbers DEF ReplayOf
  <2>3. lc = Opened(s, inv)
    BY <1>1, <1>5, <1>9, <2>2, ReplayNew DEF ReplayInputs
  <2>4. lc.status \in {"WAITING", "CANCELLED"} /\ lc.captured = NoEntry
    BY <1>9, <2>3, OpenedLife DEF ReplayInputs
  <2>5. rt.entry = lc.captured /\ rt.rewritten = FALSE
    BY <1>11, <2>1, <2>4
  <2>6. RuntimeAt(i, rt, t + 1)
    BY <1>4, <1>8, <1>10, <1>11, <1>12, <2>2, <2>4, <2>5 DEF RuntimeAt
  <2>7. rt.execution = old.execution \/ Priced(rt.execution)
    BY <1>15, <2>5
  <2> QED BY <1>1, <1>2, <1>3, <1>4, <1>5, <1>6, <1>11, <1>14, <2>4, <2>5, <2>6, <2>7 DEF GoesOn
<1> QED BY <1>13, <1>14

\* What an evaluation makes of one signal that it does not leave unknown.
Evaluated ==
    \A i \in Ids : \/ ~Known(i) /\ runtimes'[i] = NoRuntime
                   \/ GoesOn(i, runtimes'[i])

\* An evaluation either ends the run with a result its type refuses, or goes on with
\* every signal; it never finds a changed entry.
LEMMA EvaluateShape ==
    ASSUME EngineInv, NEW new \in SUBSET Ids, NEW lost \in SUBSET Ids, Evaluate(new, lost)
    PROVE  /\ now' = now + 1 /\ now < Length /\ UNCHANGED << tape, cfg, rows, lock, writers >>
           /\ run = "RUNNING"
           /\ \/ run' = "RESULT_REFUSED" /\ UNCHANGED runtimes
              \/ run' = "RUNNING" /\ Evaluated
<1> DEFINE live == {i \in Ids : Known(i)} \cup new
           inv(i) == IF Known(i) /\ runtimes[i].inv # NoTime THEN runtimes[i].inv
                     ELSE IF i \in lost THEN now + 1 ELSE NoTime
           created(i) == IF Known(i) THEN runtimes[i].s.createdAt ELSE now + 1
           next == [i \in live |-> Replayed(i, created(i), inv(i), now + 1)]
<1>1. /\ now' = now + 1 /\ now < Length /\ UNCHANGED << tape, cfg, rows, lock, writers >>
      /\ run = "RUNNING" /\ KeepsContract(new, lost)
      /\ IF \E i \in live : Refused(next[i])
         THEN run' = "RESULT_REFUSED" /\ UNCHANGED runtimes
         ELSE IF \E i \in live : next[i].rewritten
         THEN run' = "ENTRY_CHANGED" /\ UNCHANGED runtimes
         ELSE /\ runtimes' = [i \in Ids |-> IF i \in live THEN next[i] ELSE NoRuntime]
              /\ UNCHANGED run
  BY DEF Evaluate, rowVars
<1>2. ASSUME NEW i \in live
      PROVE  i \in Ids /\ ReplayOf(i, created(i), inv(i)) /\ next[i] = Replayed(i, created(i), inv(i), now + 1)
  <2>1. i \in Ids
    OBVIOUS
  <2>2. ReplayOf(i, created(i), inv(i))
    BY DEF ReplayOf
  <2> HIDE DEF inv, created
  <2> QED BY <2>1, <2>2
<1> HIDE DEF inv, created, next
<1>3. CASE \E i \in live : Refused(next[i])
  BY <1>1, <1>3
<1>4. CASE ~ \E i \in live : Refused(next[i])
  <2>1. ASSUME NEW i \in live
        PROVE  GoesOn(i, next[i])
    <3>1. PICK rt : rt = next[i]
      OBVIOUS
    <3>2. PICK c : c = created(i)
      OBVIOUS
    <3>3. PICK v : v = inv(i)
      OBVIOUS
    <3>4. i \in Ids /\ ReplayOf(i, c, v) /\ rt = Replayed(i, c, v, now + 1) /\ ~Refused(rt)
      BY <1>2, <1>4, <3>1, <3>2, <3>3
    <3>5. EngineInv /\ run = "RUNNING" /\ now < Length
      BY <1>1
    <3> QED BY <3>1, <3>4, <3>5, ReplayedAt
  <2>2. runtimes' = [i \in Ids |-> IF i \in live THEN next[i] ELSE NoRuntime] /\ UNCHANGED run
    BY <1>1, <1>4, <2>1 DEF GoesOn
  <2>3. ASSUME NEW i \in Ids, i \in live
        PROVE  GoesOn(i, runtimes'[i])
    <3>1. runtimes'[i] = next[i]
      BY <2>2, <2>3
    <3> QED BY <2>1, <2>3, <3>1
  <2>4. ASSUME NEW i \in Ids, i \notin live
        PROVE  ~Known(i) /\ runtimes'[i] = NoRuntime
    BY <2>2, <2>4
  <2> QED BY <1>1, <2>2, <2>3, <2>4 DEF Evaluated
<1> QED BY <1>3, <1>4

\* A runtime is known, and stays what it was to a later look.
LEMMA RuntimeLater ==
    ASSUME NEW i, NEW rt, NEW t \in Int, RuntimeAt(i, rt, t)
    PROVE  /\ RuntimeAt(i, rt, t + 1)
           /\ rt # NoRuntime /\ rt.lc.status \in {"WAITING", "ACTIVE"} \cup Terminal
<1>1. Life(rt.s, rt.lc, t + 1)
  BY LifeLater DEF RuntimeAt
<1>2. rt.lc.status \in {"WAITING", "ACTIVE"} \cup Terminal
  BY LifeCaptured DEF RuntimeAt
<1>3. NoRuntime.lc.status = "ABSENT"
  BY DEF NoRuntime
<1>4. RuntimeAt(i, rt, t + 1)
  BY <1>1 DEF RuntimeAt
<1> QED BY <1>2, <1>3, <1>4 DEF Terminal

\* An evaluation keeps what is known of the runtimes.
LEMMA EvaluateInv ==
    ASSUME EngineInv, NEW new \in SUBSET Ids, NEW lost \in SUBSET Ids, Evaluate(new, lost)
    PROVE  EngineInv'
<1>1. /\ now' = now + 1 /\ now < Length /\ UNCHANGED << tape, cfg >> /\ run = "RUNNING"
      /\ \/ run' = "RESULT_REFUSED" /\ UNCHANGED runtimes
         \/ run' = "RUNNING" /\ Evaluated
  BY EvaluateShape
<1>2. TapeOK' /\ now \in Int
  BY <1>1 DEF EngineInv, TapeOK, Length
<1>3. CASE run' = "RESULT_REFUSED" /\ UNCHANGED runtimes
  <2>1. RuntimesOK'
    BY <1>1, <1>2, <1>3, RuntimeLater DEF EngineInv, RuntimesOK, Known, RuntimeAt
  <2> QED BY <1>2, <1>3, <2>1 DEF EngineInv
<1>4. CASE run' = "RUNNING" /\ Evaluated
  <2>1. ASSUME NEW i \in Ids, Known(i)'
        PROVE  GoesOn(i, runtimes'[i])
    BY <1>4, <2>1 DEF Evaluated, Known
  <2>2. RuntimesOK'
    BY <1>1, <2>1 DEF RuntimesOK, GoesOn, Visible, Series, RuntimeAt
  <2> QED BY <1>2, <1>4, <2>2 DEF EngineInv
<1> QED BY <1>1, <1>3, <1>4

-----------------------------------------------------------------------------
(* The engine: point-in-time replays, and the contract of a signal *)

\* A run starts without runtimes.
LEMMA EngineInit == Init => EngineInv
<1> SUFFICES ASSUME Init PROVE EngineInv
  OBVIOUS
<1>1. \A i \in Ids : ~Known(i)
  BY DEF Init, Known
<1>2. cfg \in Scenarios /\ cfg.length \in Nat
  BY SignalsAssumption DEF Init
<1>3. tape \in Seq(cfg.candles) /\ Length \in Nat
  BY <1>2 DEF Init, Length
<1>4. now \in 0..Length
  BY <1>3 DEF Init
<1> QED BY <1>1, <1>2, <1>3, <1>4 DEF EngineInv, TapeOK, RuntimesOK, Init

\* A step of the run that is no evaluation.
LEMMA EngineRests ==
    ASSUME EngineInv, UNCHANGED << tape, cfg, now, runtimes >>,
           run' = run \/ run' \in {"REPORTED", "REPORT_REFUSED"}
    PROVE  EngineInv'
<1>1. TapeOK'
  BY DEF EngineInv, TapeOK, Length
<1>2. run' \in {"RUNNING", "REPORTED", "RESULT_REFUSED", "REPORT_REFUSED"}
  BY DEF EngineInv
<1>3. run' = "RUNNING" => run = "RUNNING"
  OBVIOUS
<1>4. ASSUME NEW i \in Ids, Known(i)'
      PROVE  /\ RuntimeAt(i, runtimes[i], now)
             /\ run = "RUNNING" =>
                   runtimes[i].lc = ReplaySignalLifecycle(runtimes[i].s, Visible(i, now), Signals[i].tf,
                                                          runtimes[i].inv, cfg)
  BY <1>4 DEF EngineInv, RuntimesOK, Known
<1>5. RuntimesOK'
  BY <1>3, <1>4 DEF RuntimesOK, RuntimeAt, Visible, Series
<1> QED BY <1>1, <1>2, <1>5 DEF EngineInv

\* What a step is to the engine.
LEMMA EngineStep ==
    ASSUME [Next]_vars
    PROVE  \/ \E new \in SUBSET Ids, lost \in SUBSET Ids : Evaluate(new, lost)
           \/ /\ UNCHANGED << tape, cfg, now, runtimes >>
              /\ run' = run \/ (run = "RUNNING" /\ run' \in {"REPORTED", "REPORT_REFUSED"})
BY DEF Next, vars, engineVars, Report, Create, Take, Begin, Apply, Rollback, Forget

\* Every step keeps what is known of the runtimes.
LEMMA EngineKept == EngineInv /\ [Next]_vars => EngineInv'
<1> SUFFICES ASSUME EngineInv, [Next]_vars PROVE EngineInv'
  OBVIOUS
<1> QED BY EngineStep, EvaluateInv, EngineRests

\* What is known of the runtimes, in every state.
LEMMA EngineInvariance == Spec => []EngineInv
<1> QED BY EngineInit, EngineKept, PTL DEF Spec

\* A replay at `now` knows nothing later.
LEMMA KnowsNoLater ==
    ASSUME EngineInv
    PROVE  ReplayIsPointInTime
<1> SUFFICES ASSUME NEW i \in Ids, Known(i)
             PROVE  LET lc == runtimes[i].lc IN
                    /\ Max({lc.last, lc.activated, lc.terminal}) <= now
                    /\ \A n \in 1..Len(lc.events) : lc.events[n].at <= now
  BY DEF ReplayIsPointInTime, EngineInv
<1>1. PICK lc : lc = runtimes[i].lc
  OBVIOUS
<1>2. PICK s : s = runtimes[i].s
  OBVIOUS
<1>3. Life(s, lc, now) /\ now \in Nat
  BY <1>1, <1>2 DEF EngineInv, RuntimesOK, RuntimeAt, TapeOK, Length
<1>4. lc.last \in Int /\ lc.last <= now
  BY <1>3 DEF Life, LifeTimes
<1>5. lc.activated \in Int /\ lc.activated <= now
  <2>1. NoTime \in Int /\ NoTime <= now
    BY <1>3 DEF NoTime
  <2> QED BY <1>3, <2>1 DEF Life, IsWaiting, IsActive, IsHit, IsCancelled, IsAmbiguous, Left, NotEntered,
                            Entered, IsEntry, EntryFill
<1>6. lc.terminal \in Int /\ lc.terminal <= now
  <2>1. NoTime \in Int /\ NoTime <= now
    BY <1>3 DEF NoTime
  <2> QED BY <1>3, <2>1 DEF Life, IsWaiting, IsActive, IsHit, IsCancelled, IsAmbiguous, Left, NotEntered, EndedBy
<1>7. Max({lc.last, lc.activated, lc.terminal}) <= now
  <2>1. PICK m \in {lc.last, lc.activated, lc.terminal} : \A x \in {lc.last, lc.activated, lc.terminal} : m >= x
    BY <1>4, <1>5, <1>6
  <2>2. Max({lc.last, lc.activated, lc.terminal}) \in {lc.last, lc.activated, lc.terminal}
    BY <2>1 DEF Max
  <2> QED BY <1>4, <1>5, <1>6, <2>2
<1>8. \A n \in 1..Len(lc.events) : lc.events[n].at <= now
  BY <1>3 DEF Life, LifeTimes
<1> QED BY <1>1, <1>7, <1>8

\* No replay of a run knows of a candle that had not closed at its evaluation, and a
\* later replay never finds another entry (replay_signal_lifecycle over
\* _IndexedCandleSeries.closed; the runner's "entry changed" abort is unreachable).
THEOREM PointInTime == Spec => []ReplayIsPointInTime
<1> QED BY EngineInvariance, KnowsNoLater, PTL

\* What a runtime has to show for its status.
LEMMA RuntimeShows ==
    ASSUME NEW i, NEW rt, NEW t \in Int, RuntimeAt(i, rt, t)
    PROVE  /\ rt.lc.status \in {"WAITING", "CANCELLED"} => rt.lc.activated = NoTime
           /\ rt.lc.status \in {"ACTIVE", "TP_HIT", "SL_HIT"} => rt.lc.activated # NoTime /\ rt.entry # NoEntry
           /\ rt.lc.status \in {"WAITING", "ACTIVE"} \cup Terminal
<1>1. PICK lc : lc = rt.lc
  OBVIOUS
<1>2. PICK s : s = rt.s
  OBVIOUS
<1>3. Life(s, lc, t) /\ s.createdAt \in Nat /\ rt.entry = lc.captured
  BY <1>1, <1>2 DEF RuntimeAt
<1>4. lc.status \in {"WAITING", "CANCELLED"} => lc.activated = NoTime
  BY <1>3 DEF Life, IsWaiting, IsActive, IsHit, IsCancelled, IsAmbiguous, NotEntered
<1>5. Entered(s, lc, t) => lc.activated # NoTime
  BY <1>3 DEF Entered, IsEntry, EntryFill, NoTime
<1>6. lc.status \in {"ACTIVE", "TP_HIT", "SL_HIT"} => Entered(s, lc, t)
  BY <1>3 DEF Life, IsWaiting, IsActive, IsHit, IsCancelled, IsAmbiguous, Left
<1>7. lc.status \in {"ACTIVE", "TP_HIT", "SL_HIT"} => lc.captured # NoEntry
  <2>1. NoEntry.executed = FALSE
    BY DEF NoEntry
  <2> QED BY <1>3, <2>1, LifeCaptured
<1>8. lc.status \in {"WAITING", "ACTIVE"} \cup Terminal
  BY <1>3, LifeCaptured
<1> QED BY <1>1, <1>3, <1>4, <1>5, <1>6, <1>7, <1>8

\* One signal at one evaluation takes a step of the contract, or none.
ReplayEntry(rt) == IF rt # NoRuntime /\ rt.lc.activated # NoTime THEN rt.entry ELSE NoEntry
ContractStep(from, to, entry, entry2, exit, exit2) ==
    \/ from = "ABSENT" /\ to \in {"WAITING", "NULL", "CANCELLED"} /\ entry2 = NoEntry
    \/ from = "WAITING" /\ to = "ACTIVE" /\ entry2 # NoEntry /\ exit2 = exit
    \/ to = from /\ entry2 = entry /\ exit2 = exit
    \/ /\ from \in {"WAITING", "ACTIVE"} /\ to \in Terminal
       /\ entry # NoEntry => entry2 = entry
       /\ to \in {"TP_HIT", "SL_HIT"} => entry2 # NoEntry
       /\ to = "CANCELLED" => entry = NoEntry /\ entry2 = NoEntry

\* What an evaluation makes of one signal is a step of its contract.
LEMMA ReplaySteps ==
    ASSUME EngineInv, NEW i \in Ids, NEW rt, GoesOn(i, rt)
    PROVE  ContractStep(runtimes[i].lc.status, rt.lc.status, ReplayEntry(runtimes[i]), ReplayEntry(rt),
                        runtimes[i].execution, rt.execution)
<1>1. PICK old : old = runtimes[i]
  OBVIOUS
<1>2. now \in Int /\ now + 1 \in Int
  BY DEF EngineInv, TapeOK, Length
<1>3. RuntimeAt(i, rt, now + 1) /\ rt # NoRuntime
  BY <1>2, RuntimeLater DEF GoesOn
<1>4. CASE ~Known(i)
  <2>1. old = NoRuntime
    BY <1>1, <1>4 DEF Known
  <2>2. NoRuntime.lc.status = "ABSENT"
    BY DEF NoRuntime
  <2>3. rt.lc.status \in {"WAITING", "CANCELLED"} /\ rt.lc.captured = NoEntry /\ rt.entry = rt.lc.captured
    BY <1>4 DEF GoesOn, RuntimeAt
  <2> QED BY <1>1, <2>1, <2>2, <2>3 DEF ContractStep, ReplayEntry
<1>5. CASE Known(i)
  <2>1. RuntimeAt(i, old, now) /\ old # NoRuntime
    BY <1>1, <1>5 DEF EngineInv, RuntimesOK, Known
  <2>2. /\ Later(old.lc, rt.lc) /\ old.entry = old.lc.captured /\ rt.entry = rt.lc.captured
        /\ old.lc.status \in Terminal \/ rt.lc.status \notin Terminal => rt.execution = old.execution
    BY <1>1, <1>3, <1>5, <2>1 DEF GoesOn, RuntimeAt
  <2>3. /\ old.lc.status \in {"WAITING", "CANCELLED"} => old.lc.activated = NoTime
        /\ old.lc.status \in {"ACTIVE", "TP_HIT", "SL_HIT"} => old.lc.activated # NoTime /\ old.entry # NoEntry
        /\ old.lc.status \in {"WAITING", "ACTIVE"} \cup Terminal
    BY <1>2, <2>1, RuntimeShows
  <2>4. /\ rt.lc.status \in {"WAITING", "CANCELLED"} => rt.lc.activated = NoTime
        /\ rt.lc.status \in {"ACTIVE", "TP_HIT", "SL_HIT"} => rt.lc.activated # NoTime /\ rt.entry # NoEntry
        /\ rt.lc.status \in {"WAITING", "ACTIVE"} \cup Terminal
    BY <1>2, <1>3, RuntimeShows
  <2>5. ReplayEntry(old) = (IF old.lc.activated # NoTime THEN old.lc.captured ELSE NoEntry)
        /\ ReplayEntry(rt) = (IF rt.lc.activated # NoTime THEN rt.lc.captured ELSE NoEntry)
    BY <1>3, <2>1, <2>2 DEF ReplayEntry
  <2>6. CASE old.lc.status \in Terminal
    <3>1. rt.lc = old.lc /\ rt.execution = old.execution
      BY <2>2, <2>6 DEF Later
    <3> QED BY <1>1, <2>5, <3>1 DEF ContractStep
  <2>7. CASE old.lc.status = "WAITING"
    BY <1>1, <2>2, <2>3, <2>4, <2>5, <2>7 DEF ContractStep, Terminal
  <2>8. CASE old.lc.status = "ACTIVE"
    BY <1>1, <2>2, <2>3, <2>4, <2>5, <2>8 DEF ContractStep, Terminal, Later
  <2> QED BY <2>3, <2>6, <2>7, <2>8
<1> QED BY <1>4, <1>5

\* The replays start as the contract does and every step of the system is one of its steps.
LEMMA ReplaysInit == Init => Replays!Init
<1> SUFFICES ASSUME Init PROVE Replays!Init
  OBVIOUS
<1>1. \A i \in Ids : runtimes[i] = NoRuntime /\ ~Known(i)
  BY DEF Init, Known
<1>2. NoRuntime.lc.status = "ABSENT"
  BY DEF NoRuntime
<1> QED BY <1>1, <1>2 DEF Replays!Init

\* An evaluation is a step of the contract for all signals at once, anything else none.
LEMMA ReplaysStep ==
    ASSUME EngineInv, [Next]_vars
    PROVE  [Replays!Next]_Replays!vars
<1>1. CASE UNCHANGED runtimes
  <2>1. \A i \in Ids : Known(i)' <=> Known(i)
    BY <1>1 DEF Known
  <2> QED BY <1>1, <2>1 DEF Replays!vars
<1>2. CASE Evaluated
  <2>1. ASSUME NEW i \in Ids
        PROVE  ContractStep(runtimes[i].lc.status, runtimes'[i].lc.status, ReplayEntry(runtimes[i]),
                            ReplayEntry(runtimes'[i]), runtimes[i].execution, runtimes'[i].execution)
    <3>1. CASE ~Known(i) /\ runtimes'[i] = NoRuntime
      BY <3>1 DEF ContractStep, Known
    <3>2. CASE GoesOn(i, runtimes'[i])
      BY <3>2, ReplaySteps
    <3> QED BY <1>2, <3>1, <3>2 DEF Evaluated
  <2>2. ASSUME NEW i \in Ids
        PROVE  /\ ReplayEntry(runtimes[i]) =
                     (IF Known(i) /\ runtimes[i].lc.activated # NoTime THEN runtimes[i].entry ELSE NoEntry)
               /\ ReplayEntry(runtimes'[i]) =
                     (IF Known(i) /\ runtimes[i].lc.activated # NoTime THEN runtimes[i].entry ELSE NoEntry)'
    BY DEF ReplayEntry, Known
  <2>3. Replays!Next
    <3> SUFFICES ASSUME NEW i \in Ids
                 PROVE  \/ Replays!Record(i) \/ Replays!Enter(i) \/ Replays!Rest(i)
                        \/ \E o \in {"TP_HIT", "SL_HIT", "CANCELLED", "AMBIGUOUS"} : Replays!End(i, o)
      BY DEF Replays!Next
    <3>1. PICK a : a = ReplayEntry(runtimes[i])
      OBVIOUS
    <3>2. PICK b : b = ReplayEntry(runtimes'[i])
      OBVIOUS
    <3>3. PICK st : st = runtimes[i].lc.status
      OBVIOUS
    <3>4. PICK st2 : st2 = runtimes'[i].lc.status
      OBVIOUS
    <3>5. PICK ex : ex = runtimes[i].execution
      OBVIOUS
    <3>6. PICK ex2 : ex2 = runtimes'[i].execution
      OBVIOUS
    <3>7. ContractStep(st, st2, a, b, ex, ex2)
      BY <2>1, <3>1, <3>2, <3>3, <3>4, <3>5, <3>6
    <3> QED BY <2>2, <3>1, <3>2, <3>3, <3>4, <3>5, <3>6, <3>7
            DEF ContractStep, Terminal, Replays!Record, Replays!Enter, Replays!Rest, Replays!End
  <2> QED BY <2>3
<1> QED BY <1>1, <1>2, EngineStep, EvaluateShape

-----------------------------------------------------------------------------
(* Later replays of a signal, and what was taken of earlier ones *)

\* What was decided once stays decided.
LEMMA LaterTransitive ==
    ASSUME NEW a, NEW b, NEW c, Later(a, b), Later(b, c), LifeFields(a), LifeFields(c),
           b.status \in {"WAITING", "ACTIVE"} \cup Terminal
    PROVE  Later(a, c)
<1>1. CASE a.status \in Terminal
  BY <1>1 DEF Later
<1>2. CASE a.status \notin Terminal /\ b.status \in Terminal
  <2>1. c = b
    BY <1>2 DEF Later
  <2> QED BY <2>1
<1>3. CASE a.status \notin Terminal /\ b.status \notin Terminal
  <2>1. a.status = "ACTIVE" => b.status = "ACTIVE"
    BY <1>3 DEF Later, Terminal
  <2>2. c.status = a.status => b.status = a.status
    BY <1>3, <2>1 DEF Later, Terminal
  <2>3. c.status = a.status => c = [a EXCEPT !.last = c.last]
    <3> SUFFICES ASSUME c.status = a.status PROVE c = [a EXCEPT !.last = c.last]
      OBVIOUS
    <3>1. b = [a EXCEPT !.last = b.last] /\ c = [b EXCEPT !.last = c.last]
      BY <2>2 DEF Later
    <3>2. [a EXCEPT !.last = b.last].activated = a.activated
      BY DEF LifeFields
    <3> QED BY <3>1 DEF LifeFields
  <2>4. /\ a.status = "ACTIVE" => /\ c.status \in {"ACTIVE", "TP_HIT", "SL_HIT", "AMBIGUOUS"}
                                  /\ c.activated = a.activated /\ c.captured = a.captured
        /\ c.status = "WAITING" => a.status = "WAITING"
    BY <2>1 DEF Later
  <2> QED BY <1>3, <2>3, <2>4 DEF Later
<1> QED BY <1>1, <1>2, <1>3

\* lc is what some replay up to t said of the signal of rt.
HeldOf(rt, lc, t) == Life(rt.s, lc, t) /\ Later(lc, rt.lc)

\* An update with what was taken at some evaluation up to t.
Taken(rt, u, t) ==
    /\ HeldOf(rt, u.lc, t)
    /\ u.entry = u.lc.captured \/ (u.lc.activated = NoTime /\ u.entry = NoEntry)
    /\ u.lc.status \in Terminal => u.exit = rt.execution

\* A row before its first update, and what an update leaves in a row.
Fresh(row) ==
    /\ row.status \in {"NULL", "WAITING"} /\ row.activated = NoTime /\ row.closed = NoTime
    /\ row.events = <<>> /\ row.entry = NoEntry /\ row.exit = NoExit
Shows(row, lc, x) ==
    /\ row.status = lc.status /\ row.activated = lc.activated /\ row.closed = lc.terminal
    /\ row.events = lc.events
    /\ row.entry = IF lc.activated = NoTime THEN NoEntry ELSE lc.captured
    /\ row.exit = IF lc.status \in Terminal THEN x ELSE NoExit

RowFields(row) ==
    row = [status |-> row.status, activated |-> row.activated, closed |-> row.closed, events |-> row.events,
           result |-> row.result, pnl |-> row.pnl, entry |-> row.entry, exit |-> row.exit,
           createdAt |-> row.createdAt, planned |-> row.planned]
RowAt(rt, row, t) ==
    /\ RowFields(row) /\ row.createdAt = rt.s.createdAt /\ row.planned = Distance(rt.s.ref, rt.s.sl)
    /\ RowIsValid(rt.s, row)
    /\ Fresh(row) \/ \E lc : HeldOf(rt, lc, t) /\ Shows(row, lc, rt.execution)

\* new is the runtime of an evaluation after rt.
Onward(rt, new, t) ==
    /\ t \in Int /\ Life(rt.s, rt.lc, t) /\ Life(new.s, new.lc, t + 1)
    /\ new.s = rt.s /\ rt.s.createdAt \in Nat /\ Later(rt.lc, new.lc)
    /\ rt.lc.status \in Terminal => new.execution = rt.execution

\* Evaluations leave alone what was taken, and what it wrote.
LEMMA HeldLater ==
    ASSUME NEW rt, NEW new, NEW t, Onward(rt, new, t), NEW lc, HeldOf(rt, lc, t)
    PROVE  HeldOf(new, lc, t + 1) /\ (lc.status \in Terminal => new.execution = rt.execution)
<1>1. Life(new.s, lc, t + 1)
  BY LifeLater DEF Onward, HeldOf
<1>2. LifeFields(lc) /\ LifeFields(new.lc) /\ rt.lc.status \in {"WAITING", "ACTIVE"} \cup Terminal
  <2>1. rt.lc.status \in {"WAITING", "ACTIVE"} \cup Terminal
    BY LifeCaptured DEF Onward
  <2> QED BY <2>1 DEF Onward, HeldOf, Life
<1>3. Later(lc, new.lc)
  BY <1>2, LaterTransitive DEF Onward, HeldOf
<1>4. lc.status \in Terminal => rt.lc = lc
  BY DEF HeldOf, Later
<1> QED BY <1>1, <1>3, <1>4 DEF HeldOf, Onward

\* What a caller took fits the next evaluation.
LEMMA TakenLater ==
    ASSUME NEW rt, NEW new, NEW t, Onward(rt, new, t), NEW u, Taken(rt, u, t)
    PROVE  Taken(new, u, t + 1)
BY HeldLater DEF Taken

\* A row fits the next evaluation.
LEMMA RowLater ==
    ASSUME NEW rt, NEW new, NEW t, Onward(rt, new, t), NEW row, RowAt(rt, row, t)
    PROVE  RowAt(new, row, t + 1)
<1>1. new.s = rt.s
  BY DEF Onward
<1>2. CASE Fresh(row)
  BY <1>1, <1>2 DEF RowAt
<1>3. CASE \E lc : HeldOf(rt, lc, t) /\ Shows(row, lc, rt.execution)
  <2>1. PICK lc : HeldOf(rt, lc, t) /\ Shows(row, lc, rt.execution)
    BY <1>3
  <2>2. HeldOf(new, lc, t + 1) /\ Shows(row, lc, new.execution)
    BY <2>1, HeldLater DEF Shows
  <2> QED BY <1>1, <2>2 DEF RowAt
<1> QED BY <1>2, <1>3 DEF RowAt

-----------------------------------------------------------------------------
(* What an update that the repository lets through makes of a row *)

\* Two costs are not negative when their least is not.
LEMMA CostsOfTwo ==
    ASSUME NEW a \in Int, NEW b \in Int
    PROVE  0 <= Min({a, b}) <=> 0 <= a /\ 0 <= b
<1>1. PICK n \in {a, b} : \A x \in {a, b} : n <= x
  OBVIOUS
<1> QED BY <1>1, LeastElement

\* Four of five costs are not negative when the least of all is not.
LEMMA CostsOfFive ==
    ASSUME NEW z \in Int, NEW a \in Int, NEW b \in Int, NEW c \in Int, NEW d \in Int,
           0 <= Min({z, a, b, c, d})
    PROVE  0 <= Min({a, b, c, d})
<1>1. PICK m \in {a, b, c} : \A x \in {a, b, c} : m <= x
  OBVIOUS
<1>2. PICK n \in {a, b, c} \cup {d} : \A x \in {a, b, c} \cup {d} : n <= x
  BY <1>1, LeastOfTwo
<1>3. PICK p \in ({a, b, c} \cup {d}) \cup {z} : \A x \in ({a, b, c} \cup {d}) \cup {z} : p <= x
  BY <1>2, LeastOfTwo
<1>4. {a, b, c} \cup {d} = {a, b, c, d} /\ ({a, b, c} \cup {d}) \cup {z} = {z, a, b, c, d}
  OBVIOUS
<1> QED BY <1>2, <1>3, <1>4, LeastElement

\* The life a row shows, by status.
LEMMA LifeCases ==
    ASSUME NEW s, Numbers(s), NEW lc, NEW t, Life(s, lc, t)
    PROVE  /\ lc.activated = NoTime => lc.status \in {"WAITING", "CANCELLED", "AMBIGUOUS"}
           /\ lc.activated # NoTime => /\ Entered(s, lc, t) /\ lc.captured.executed = TRUE
                                       /\ lc.status \in {"ACTIVE", "TP_HIT", "SL_HIT", "AMBIGUOUS"}
           /\ lc.status \in {"ACTIVE", "TP_HIT", "SL_HIT"} => lc.activated # NoTime
           /\ lc.status \in {"WAITING", "CANCELLED"} => lc.activated = NoTime
           /\ lc.terminal # NoTime <=> lc.status \in Terminal
<1>1. Entered(s, lc, t) => lc.activated # NoTime /\ lc.captured.executed = TRUE
  BY DEF Entered, IsEntry, EntryFill, Numbers, NoTime
<1>2. EndedBy(s, lc, t) => lc.terminal # NoTime
  BY DEF EndedBy, Numbers, NoTime
<1>3. CASE IsWaiting(s, lc)
  BY <1>3 DEF IsWaiting, Terminal
<1>4. CASE IsActive(s, lc, t)
  BY <1>1, <1>4 DEF IsActive, Terminal
<1>5. CASE IsHit(s, lc, t)
  BY <1>1, <1>2, <1>5 DEF IsHit, Left, Terminal
<1>6. CASE IsCancelled(s, lc, t)
  BY <1>2, <1>6 DEF IsCancelled, NotEntered, Terminal
<1>7. CASE IsAmbiguous(s, lc, t)
  <2>1. lc.status = "AMBIGUOUS" /\ (NotEntered(s, lc, t) \/ Left(s, lc, t))
    BY <1>7 DEF IsAmbiguous
  <2>2. EndedBy(s, lc, t) /\ (lc.activated = NoTime \/ Entered(s, lc, t))
    BY <2>1 DEF NotEntered, Left
  <2> QED BY <1>1, <1>2, <2>1, <2>2 DEF Terminal
<1> QED BY <1>3, <1>4, <1>5, <1>6, <1>7 DEF Life

\* The entry a row shows is evidence the read schema accepts.
LEMMA ShownEntry ==
    ASSUME NEW s, Numbers(s), NEW lc, NEW t, Life(s, lc, t), NEW row, NEW x, Shows(row, lc, x)
    PROVE  /\ row.entry.executed <=> row.activated # NoTime
           /\ row.entry.executed => IsEntry(s, row.entry, t) /\ row.entry.at = row.activated
           /\ row.entry.executed => row.entry = lc.captured
           /\ EntryEvidenceHolds(s, row.entry)
<1>1. NoEntry.executed = FALSE
  BY DEF NoEntry
<1>2. CASE lc.activated = NoTime
  <2>1. row.entry = NoEntry /\ row.activated = NoTime
    BY <1>2 DEF Shows
  <2> QED BY <1>1, <2>1 DEF EntryEvidenceHolds
<1>3. CASE lc.activated # NoTime
  <2>1. row.entry = lc.captured /\ row.activated = lc.activated
    BY <1>3 DEF Shows
  <2>2. Entered(s, lc, t) /\ lc.captured.executed = TRUE
    BY <1>3, LifeCases
  <2> QED BY <1>3, <2>1, <2>2 DEF Entered, IsEntry
<1> QED BY <1>2, <1>3

\* What the execution of a shown life has to be.
ExecutionShown(s, lc, x) ==
    /\ lc.status \in {"TP_HIT", "SL_HIT"} =>
          /\ ExitFill(lc, x) /\ ExitEvidenceHolds(s, lc.captured, x)
          /\ x.reason = IF lc.status = "TP_HIT" THEN "TAKE_PROFIT" ELSE "STOP_LOSS"
          /\ x.requested = IF lc.status = "TP_HIT" THEN s.tp ELSE s.sl
    /\ lc.status \in {"CANCELLED", "AMBIGUOUS"} => x = NoExit

\* A row that shows a life and its execution.
Record(s, row, lc, x, t) ==
    /\ Numbers(s) /\ LevelsHold(s) /\ t \in Int /\ Life(s, lc, t) /\ Shows(row, lc, x) /\ ExecutionShown(s, lc, x)
    /\ row.createdAt = s.createdAt /\ row.planned = Distance(s.ref, s.sl)
    /\ << row.result, row.pnl >> = TerminalResult(row.status)

\* Such a row has the fields and the evidence of its status.
LEMMA RecordState ==
    ASSUME NEW s, NEW row, NEW lc, NEW x, NEW t, Record(s, row, lc, x, t)
    PROVE  StateFields(row) /\ EvidenceShape(row)
<1>1. Numbers(s) /\ Life(s, lc, t) /\ Shows(row, lc, x)
  BY DEF Record
<1>2. /\ row.status = lc.status /\ row.activated = lc.activated /\ row.closed = lc.terminal
      /\ row.exit = IF lc.status \in Terminal THEN x ELSE NoExit
      /\ << row.result, row.pnl >> = TerminalResult(row.status)
  BY DEF Record, Shows
<1>3. lc.status \in {"WAITING", "ACTIVE"} \cup Terminal
  BY <1>1, LifeCaptured
<1>4. StateFields(row)
  BY <1>1, <1>2, <1>3, LifeCases DEF StateFields, Terminal
<1>5. row.exit # NoExit <=> row.status \in {"TP_HIT", "SL_HIT"}
  BY <1>2, <1>3 DEF Record, ExecutionShown, ExitFill, Terminal
<1> QED BY <1>1, <1>4, <1>5, ShownEntry DEF EvidenceShape

\* Its times are in order.
LEMMA RecordTimes ==
    ASSUME NEW s, NEW row, NEW lc, NEW x, NEW t, Record(s, row, lc, x, t)
    PROVE  TimeOrder(row)
<1>1. Numbers(s) /\ Life(s, lc, t)
  BY DEF Record
<1>2. /\ row.status = lc.status /\ row.activated = lc.activated /\ row.closed = lc.terminal
      /\ row.createdAt = s.createdAt
  BY DEF Record, Shows
<1>3. PICK c \in Nat : c = s.createdAt
  BY <1>1 DEF Numbers
<1>4. Entered(s, lc, t) => lc.activated \in Int /\ c <= lc.activated
  BY <1>3 DEF Entered, IsEntry, EntryFill
<1>5. lc.activated # NoTime => lc.activated \in Int /\ c <= lc.activated
  BY <1>1, <1>4, LifeCases
<1>6. lc.terminal # NoTime => lc.terminal \in Int /\ c <= lc.terminal /\ lc.activated <= lc.terminal
  <2>1. CASE IsWaiting(s, lc) \/ IsActive(s, lc, t)
    BY <2>1 DEF IsWaiting, IsActive
  <2>2. CASE Left(s, lc, t)
    BY <1>3, <2>2 DEF Left, EndedBy
  <2>3. CASE NotEntered(s, lc, t)
    BY <1>3, <2>3 DEF NotEntered, EndedBy, NoTime
  <2> QED BY <1>1, <2>1, <2>2, <2>3 DEF Life, IsHit, IsCancelled, IsAmbiguous
<1>7. ASSUME lc.terminal # NoTime
      PROVE  lc.terminal >= Max({c, lc.activated})
  <2>1. c \in Int /\ lc.activated \in Int
    BY <1>5 DEF NoTime
  <2>2. PICK m \in {c, lc.activated} : \A y \in {c, lc.activated} : m >= y
    BY <2>1
  <2>3. Max({c, lc.activated}) \in {c, lc.activated}
    BY <2>2 DEF Max
  <2> QED BY <1>6, <1>7, <2>3
<1> QED BY <1>2, <1>3, <1>5, <1>7 DEF TimeOrder

\* Its last event tells how it got there (signal_lifecycle_state_is_valid).
LEMMA RecordEvent ==
    ASSUME NEW s, NEW row, NEW lc, NEW x, NEW t, Record(s, row, lc, x, t)
    PROVE  LastEventFits(s, row)
<1>1. Numbers(s) /\ Life(s, lc, t)
  BY DEF Record
<1>2. /\ row.status = lc.status /\ row.activated = lc.activated /\ row.closed = lc.terminal
      /\ row.events = lc.events /\ row.createdAt = s.createdAt
  BY DEF Record, Shows
<1>3. CASE IsWaiting(s, lc)
  <2>1. PICK e : e = Event("CREATED", s.createdAt, NoTime, NoPrice, "SIGNAL_CREATED")
    OBVIOUS
  <2>2. /\ e.type = "CREATED" /\ e.at = s.createdAt /\ e.price = NoPrice /\ e.reason = "SIGNAL_CREATED"
    BY <2>1 DEF Event
  <2>3. row.events = << e >> /\ row.status = "WAITING"
    BY <1>2, <1>3, <2>1 DEF IsWaiting
  <2>4. Len(row.events) = 1 /\ Last(row.events) = e
    BY <2>3 DEF Last
  <2> QED BY <1>2, <2>2, <2>3, <2>4 DEF LastEventFits
<1>4. CASE IsActive(s, lc, t)
  <2>1. PICK f : f = Event("CREATED", s.createdAt, NoTime, NoPrice, "SIGNAL_CREATED")
    OBVIOUS
  <2>2. PICK e : e = Event("ACTIVATED", lc.activated, lc.captured.bar, lc.captured.price, "ENTRY_EXECUTION_CONFIRMED")
    OBVIOUS
  <2>3. /\ e.type = "ACTIVATED" /\ e.at = lc.activated /\ e.price = lc.captured.price
        /\ e.reason = "ENTRY_EXECUTION_CONFIRMED"
    BY <2>2 DEF Event
  <2>4. row.events = << f, e >> /\ row.status = "ACTIVE"
    BY <1>2, <1>4, <2>1, <2>2 DEF IsActive
  <2>5. Len(row.events) = 2 /\ Last(row.events) = e
    BY <2>4 DEF Last
  <2>6. lc.captured.price # NoPrice
    <3>1. IsEntry(s, lc.captured, t)
      BY <1>4 DEF IsActive, Entered
    <3>2. /\ lc.captured.base \in Int /\ lc.captured.price \in Int /\ lc.captured.risk \in Int
          /\ lc.captured.planned \in Int
          /\ 0 < Min({lc.captured.base, lc.captured.price, lc.captured.risk, lc.captured.planned})
      BY <3>1 DEF IsEntry, EntryFill, EntryEvidenceHolds
    <3>3. 0 < lc.captured.price
      BY <3>2, PositiveFour
    <3> QED BY <3>2, <3>3 DEF NoPrice
  <2> QED BY <1>2, <2>3, <2>4, <2>5, <2>6 DEF LastEventFits
<1>5. CASE IsHit(s, lc, t)
  <2>1. PICK e : e = Last(lc.events)
    OBVIOUS
  <2>2. Len(row.events) = 3 /\ Last(row.events) = e /\ e.at = row.closed
    BY <1>2, <1>5, <2>1 DEF IsHit, Left, LastEvent
  <2>3. CASE lc.status = "TP_HIT"
    <3>1. e.type = "TP_HIT" /\ e.price = s.tp /\ e.reason = "TAKE_PROFIT_TOUCHED"
      BY <1>5, <2>1, <2>3 DEF IsHit, LastEvent
    <3>2. row.status = "TP_HIT"
      BY <1>2, <2>3
    <3> QED BY <2>2, <3>1, <3>2 DEF LastEventFits
  <2>4. CASE lc.status = "SL_HIT"
    <3>1. e.type = "SL_HIT" /\ e.price = s.sl /\ e.reason \in {"STOP_LOSS_TOUCHED", "CONSERVATIVE_STOP_FIRST"}
      BY <1>5, <2>1, <2>4 DEF IsHit, LastEvent
    <3>2. row.status = "SL_HIT"
      BY <1>2, <2>4
    <3> QED BY <2>2, <3>1, <3>2 DEF LastEventFits
  <2> QED BY <1>5, <2>3, <2>4 DEF IsHit
<1>6. CASE IsCancelled(s, lc, t)
  BY <1>2, <1>6 DEF IsCancelled, NotEntered, LastEvent, LastEventFits
<1>7. CASE IsAmbiguous(s, lc, t) /\ lc.activated = NoTime
  <2>1. ~Left(s, lc, t)
    BY <1>1, <1>7 DEF Left, Entered, IsEntry, EntryFill, Numbers, NoTime
  <2>2. PICK e : e = Last(lc.events)
    OBVIOUS
  <2>3. Len(row.events) = 2 /\ Last(row.events) = e /\ row.activated = NoTime /\ row.status = "AMBIGUOUS"
    BY <1>2, <1>7, <2>1, <2>2 DEF IsAmbiguous, NotEntered
  <2>4. /\ e.type = "AMBIGUOUS" /\ e.at = row.closed /\ e.price = NoPrice
        /\ e.reason \in {"ENTRY_AND_INVALIDATION_ORDER_UNKNOWN"}
    BY <1>2, <1>7, <2>1, <2>2 DEF IsAmbiguous, LastEvent
  <2> QED BY <2>3, <2>4 DEF LastEventFits
<1>8. CASE IsAmbiguous(s, lc, t) /\ lc.activated # NoTime
  <2>1. ~NotEntered(s, lc, t)
    BY <1>8 DEF NotEntered
  <2>2. PICK e : e = Last(lc.events)
    OBVIOUS
  <2>3. Len(row.events) = 3 /\ Last(row.events) = e /\ row.activated # NoTime /\ row.status = "AMBIGUOUS"
    BY <1>2, <1>8, <2>1, <2>2 DEF IsAmbiguous, Left
  <2>4. /\ e.type = "AMBIGUOUS" /\ e.at = row.closed /\ e.price = NoPrice
        /\ e.reason \in {"TP_AND_SL_TOUCHED_SAME_CANDLE", "ENTRY_AND_EXIT_ORDER_UNKNOWN"}
    BY <1>2, <1>8, <2>1, <2>2 DEF IsAmbiguous, LastEvent
  <2> QED BY <2>3, <2>4 DEF LastEventFits
<1> QED BY <1>1, <1>3, <1>4, <1>5, <1>6, <1>7, <1>8 DEF Life

\* Its entry adds up (signal_execution_evidence_is_valid, EntryExecutionResult).
LEMMA RecordEntry ==
    ASSUME NEW s, NEW row, NEW lc, NEW x, NEW t, Record(s, row, lc, x, t)
    PROVE  EntryArithmetic(s, row) /\ EntryEvidenceHolds(s, row.entry)
<1>1. Numbers(s) /\ Life(s, lc, t) /\ Shows(row, lc, x) /\ row.planned = Distance(s.ref, s.sl)
  BY DEF Record
<1>2. /\ row.entry.executed => IsEntry(s, row.entry, t) /\ row.entry.at = row.activated
      /\ EntryEvidenceHolds(s, row.entry)
  BY <1>1, ShownEntry
<1> QED BY <1>1, <1>2 DEF EntryArithmetic, IsEntry, EntryFill, EntryEvidenceHolds

\* Its exit adds up, and is the execution of the replay.
LEMMA RecordExit ==
    ASSUME NEW s, NEW row, NEW lc, NEW x, NEW t, Record(s, row, lc, x, t)
    PROVE  /\ ExitArithmetic(s, row)
           /\ row.exit # NoExit =>
                 /\ row.exit = x /\ row.entry = lc.captured /\ IsEntry(s, lc.captured, t)
                 /\ ExitFill(lc, x) /\ ExitEvidenceHolds(s, lc.captured, x)
<1> SUFFICES ASSUME row.exit # NoExit
             PROVE  /\ ExitArithmetic(s, row)
                    /\ row.exit = x /\ row.entry = lc.captured /\ IsEntry(s, lc.captured, t)
                    /\ ExitFill(lc, x) /\ ExitEvidenceHolds(s, lc.captured, x)
  BY DEF ExitArithmetic
<1>1. Numbers(s) /\ Life(s, lc, t) /\ Shows(row, lc, x) /\ row.status = lc.status
  BY DEF Record, Shows
<1>2. lc.status \in {"TP_HIT", "SL_HIT"} /\ row.exit = x
  BY <1>1, RecordState DEF EvidenceShape, Shows, Terminal
<1>3. /\ ExitFill(lc, x) /\ ExitEvidenceHolds(s, lc.captured, x)
      /\ x.reason = IF lc.status = "TP_HIT" THEN "TAKE_PROFIT" ELSE "STOP_LOSS"
      /\ x.requested = IF lc.status = "TP_HIT" THEN s.tp ELSE s.sl
  BY <1>2 DEF Record, ExecutionShown
<1>4. row.entry = lc.captured /\ IsEntry(s, lc.captured, t)
  BY <1>1, <1>2, LifeCases DEF Shows, Entered
<1>5. Left(s, lc, t)
  BY <1>1, <1>2 DEF Life, IsWaiting, IsActive, IsHit, IsCancelled, IsAmbiguous
<1>6. x.bar <= x.at
  <2>1. x.bar = Last(lc.events).bar /\ x.bar \in Int /\ x.bar <= lc.terminal
    BY <1>3, <1>5 DEF Left, ExitFill
  <2>2. x.at = IF x.gap THEN x.bar ELSE lc.terminal
    BY <1>3 DEF ExitFill
  <2> QED BY <2>1, <2>2
<1>7. x # NoExit
  BY <1>3 DEF ExitFill
<1>8. ExitArithmetic(s, row)
  BY <1>1, <1>2, <1>3, <1>4, <1>6, <1>7, Zenon DEF ExitArithmetic, ExitEvidenceHolds
<1> QED BY <1>2, <1>3, <1>4, <1>8

\* Its levels, prices, risks and costs pass the CHECKs of the table.
LEMMA RecordValues ==
    ASSUME NEW s, NEW row, NEW lc, NEW x, NEW t, Record(s, row, lc, x, t)
    PROVE  ValueDomains(s, row)
<1>1. Numbers(s) /\ LevelsHold(s) /\ Life(s, lc, t) /\ Shows(row, lc, x) /\ row.planned = Distance(s.ref, s.sl)
  BY DEF Record
<1>2. row.planned > 0
  BY <1>1 DEF Distance, Numbers, LevelsHold
<1>3. ASSUME row.entry.executed
      PROVE  /\ 0 < Min({row.entry.base, row.entry.price, row.entry.risk})
             /\ 0 <= Min({row.entry.slip, row.entry.spread})
  <2>1. IsEntry(s, row.entry, t)
    BY <1>1, <1>3, ShownEntry
  <2>2. /\ row.entry.base \in Int /\ row.entry.price \in Int /\ row.entry.risk \in Int /\ row.entry.planned \in Int
        /\ 0 < Min({row.entry.base, row.entry.price, row.entry.risk, row.entry.planned})
        /\ 0 <= Min({row.entry.slip, row.entry.spread})
    BY <1>3, <2>1 DEF IsEntry, EntryFill, EntryEvidenceHolds
  <2>3. 0 < row.entry.base /\ 0 < row.entry.price /\ 0 < row.entry.risk
    BY <2>2, PositiveFour
  <2> QED BY <2>2, <2>3, PositiveThree
<1>4. ASSUME row.exit # NoExit
      PROVE  /\ 0 < Min({row.exit.requested, row.exit.base, row.exit.price})
             /\ 0 <= Min({row.exit.slip, row.exit.total, row.exit.gapSlip, row.exit.commission})
  <2>1. /\ row.exit = x /\ IsEntry(s, lc.captured, t)
        /\ ExitFill(lc, x) /\ ExitEvidenceHolds(s, lc.captured, x)
    BY <1>4, RecordExit
  <2>2. /\ x.requested \in Int /\ x.base \in Int /\ x.price \in Int /\ x.planned \in Int
        /\ x.spread \in Int /\ x.slip \in Int /\ x.total \in Int /\ x.gapSlip \in Int /\ x.commission \in Int
        /\ lc.captured.price \in Int /\ lc.captured.risk \in Int
    BY <2>1 DEF IsEntry, EntryFill, ExitFill
  <2>3. /\ 0 < Min({x.requested, x.base, x.price, x.planned, lc.captured.price, lc.captured.risk})
        /\ 0 <= Min({x.spread, x.slip, x.total, x.gapSlip, x.commission})
    BY <2>1 DEF ExitFill, ExitEvidenceHolds
  <2>4. 0 < x.requested /\ 0 < x.base /\ 0 < x.price
    BY <2>2, <2>3, PositiveSix
  <2>5. 0 <= Min({x.slip, x.total, x.gapSlip, x.commission})
    BY <2>2, <2>3, CostsOfFive
  <2> QED BY <2>1, <2>2, <2>4, <2>5, PositiveThree
<1> QED BY <1>1, <1>2, <1>3, <1>4 DEF ValueDomains

\* A row that shows a life and its execution satisfies the trigger, the CHECKs and the
\* read schema.
LEMMA RecordHolds ==
    ASSUME NEW s, NEW row, NEW lc, NEW x, NEW t, Record(s, row, lc, x, t)
    PROVE  RowIsValid(s, row) /\ EntryEvidenceHolds(s, row.entry)
BY RecordState, RecordTimes, RecordEvent, RecordEntry, RecordExit, RecordValues DEF RowIsValid

\* A caller updates a row with what it took, and the repository lets it.
Writing(rt, row, u, t) ==
    /\ t \in Int /\ Numbers(rt.s) /\ LevelsHold(rt.s) /\ Life(rt.s, rt.lc, t)
    /\ rt.lc.status \in {"TP_HIT", "SL_HIT"} =>
          ExitFill(rt.lc, rt.execution) /\ ExitEvidenceHolds(rt.s, rt.lc.captured, rt.execution)
    /\ RowAt(rt, row, t) /\ Taken(rt, u, t) /\ RepositoryAccepts(rt.s, row, u)

\* The columns an update projects.
Columns(row, u, new) ==
    /\ RowFields(new) /\ new.status = u.lc.status /\ new.activated = u.lc.activated
    /\ new.closed = u.lc.terminal /\ new.events = u.lc.events
    /\ new.result = TerminalResult(u.lc.status)[1] /\ new.pnl = TerminalResult(u.lc.status)[2]
    /\ new.entry = IF u.entry.executed THEN u.entry ELSE row.entry
    /\ new.exit = IF u.entry.executed /\ u.exit # NoExit THEN u.exit ELSE row.exit
    /\ new.createdAt = row.createdAt /\ new.planned = row.planned

\* An update sets them and leaves the others.
LEMMA ProjectedIs ==
    ASSUME NEW row, RowFields(row), NEW u, NEW new, new = Projected(row, u)
    PROVE  Columns(row, u, new)
BY DEF RowFields, Projected, Columns

\* A row that ended is only replayed.
LEMMA TerminalRowKept ==
    ASSUME NEW rt, NEW row, NEW u, NEW t, Writing(rt, row, u, t), row.status \in Terminal
    PROVE  Projected(row, u) = row
<1>1. PICK new : new = Projected(row, u)
  OBVIOUS
<1>2. RecordLifecycleProjection(row) = LifecycleProjection(u) /\ RowFields(row)
  BY DEF Writing, RepositoryAccepts, MayFollow, RowAt
<1>3. /\ row.status = u.lc.status /\ row.activated = u.lc.activated /\ row.closed = u.lc.terminal
      /\ row.events = u.lc.events
      /\ << row.result, row.pnl >> = TerminalResult(u.lc.status)
      /\ << row.entry, row.exit >> = ExecutionProjection(u.entry, u.exit)
  BY <1>2 DEF RecordLifecycleProjection, LifecycleProjection
<1>4. row.result = TerminalResult(u.lc.status)[1] /\ row.pnl = TerminalResult(u.lc.status)[2]
  BY <1>3
<1>5. u.entry.executed => row.entry = u.entry /\ row.exit = u.exit
  BY <1>3 DEF ExecutionProjection
<1>6. /\ new.status = row.status /\ new.activated = row.activated /\ new.closed = row.closed
      /\ new.events = row.events /\ new.result = row.result /\ new.pnl = row.pnl
      /\ new.entry = row.entry /\ new.exit = row.exit
      /\ new.createdAt = row.createdAt /\ new.planned = row.planned /\ RowFields(new)
  <2>1. Columns(row, u, new)
    BY <1>1, <1>2, ProjectedIs
  <2>2. new.entry = row.entry
    BY <1>5, <2>1 DEF Columns
  <2>3. new.exit = row.exit
    BY <1>5, <2>1 DEF Columns
  <2> QED BY <1>3, <1>4, <2>1, <2>2, <2>3 DEF Columns
<1> QED BY <1>1, <1>2, <1>6 DEF RowFields

\* The execution a caller took along is one the row may show.
LEMMA TakenExecution ==
    ASSUME NEW rt, NEW row, NEW u, NEW t, Writing(rt, row, u, t)
    PROVE  /\ ExecutionShown(rt.s, u.lc, rt.execution)
           /\ u.lc.status \in Terminal => u.exit = rt.execution
           /\ u.lc.status \notin Terminal => u.exit = NoExit
<1>1. /\ EvidenceFlow(u.lc, u.entry, u.exit) /\ MatchesRecord(rt.s, row, u)
      /\ Later(u.lc, rt.lc) /\ (u.lc.status \in Terminal => u.exit = rt.execution)
  BY DEF Writing, RepositoryAccepts, Taken, HeldOf
<1>2. u.lc.status \notin Terminal => u.exit = NoExit
  BY <1>1 DEF EvidenceFlow, Terminal
<1>3. u.lc.status \in {"CANCELLED", "AMBIGUOUS"} => rt.execution = NoExit
  BY <1>1 DEF EvidenceFlow, Terminal
<1>4. ASSUME u.lc.status \in {"TP_HIT", "SL_HIT"}
      PROVE  /\ ExitFill(u.lc, rt.execution) /\ ExitEvidenceHolds(rt.s, u.lc.captured, rt.execution)
             /\ rt.execution.reason = IF u.lc.status = "TP_HIT" THEN "TAKE_PROFIT" ELSE "STOP_LOSS"
             /\ rt.execution.requested = IF u.lc.status = "TP_HIT" THEN rt.s.tp ELSE rt.s.sl
  <2>1. rt.lc = u.lc /\ u.exit = rt.execution
    BY <1>1, <1>4 DEF Later, Terminal
  <2>2. ExitFill(u.lc, rt.execution) /\ ExitEvidenceHolds(rt.s, u.lc.captured, rt.execution)
    BY <1>4, <2>1 DEF Writing
  <2>3. rt.execution # NoExit
    BY <2>2 DEF ExitFill
  <2> QED BY <1>1, <1>4, <2>1, <2>2, <2>3 DEF EvidenceFlow, MatchesRecord
<1> QED BY <1>1, <1>2, <1>3, <1>4 DEF ExecutionShown

\* An active row knows the entry of every later replay.
LEMMA ActiveRow ==
    ASSUME NEW rt, NEW row, NEW u, NEW t, Writing(rt, row, u, t), row.status = "ACTIVE"
    PROVE  /\ u.lc.status \in {"ACTIVE", "TP_HIT", "SL_HIT", "AMBIGUOUS"}
           /\ u.lc.activated = row.activated /\ u.lc.captured = row.entry
           /\ row.activated # NoTime /\ row.entry # NoEntry /\ row.exit = NoExit /\ row.closed = NoTime
           /\ u.lc.status = "ACTIVE" => u.lc.terminal = row.closed /\ u.lc.events = row.events
<1>1. PICK lc : HeldOf(rt, lc, t) /\ Shows(row, lc, rt.execution)
  BY DEF Writing, RowAt, Fresh
<1>2. lc.status = "ACTIVE" /\ IsActive(rt.s, lc, t) /\ Later(lc, rt.lc)
  BY <1>1 DEF HeldOf, Shows, Life, IsWaiting, IsActive, IsHit, IsCancelled, IsAmbiguous
<1>3. /\ rt.lc.status \in {"ACTIVE", "TP_HIT", "SL_HIT", "AMBIGUOUS"}
      /\ rt.lc.activated = lc.activated /\ rt.lc.captured = lc.captured
  BY <1>2 DEF Later
<1>4. Numbers(rt.s) /\ Life(rt.s, lc, t) /\ Life(rt.s, u.lc, t) /\ Later(u.lc, rt.lc)
  BY <1>1 DEF Writing, Taken, HeldOf
<1>5. lc.activated # NoTime /\ lc.captured.executed = TRUE
  BY <1>2, <1>4, LifeCases
<1>6. u.lc.status # "WAITING"
  BY DEF Writing, RepositoryAccepts, MayFollow
<1>7. u.lc.status \in {"ACTIVE"} \cup Terminal
  BY <1>4, <1>6, LifeCaptured
<1>8. /\ u.lc.status \in {"ACTIVE", "TP_HIT", "SL_HIT", "AMBIGUOUS"}
      /\ u.lc.activated = lc.activated /\ u.lc.captured = lc.captured
  <2>1. CASE u.lc.status = "ACTIVE"
    BY <1>3, <1>4, <2>1 DEF Later
  <2>2. CASE u.lc.status \in Terminal
    <3>1. rt.lc = u.lc
      BY <1>4, <2>2 DEF Later
    <3> QED BY <1>3, <3>1
  <2> QED BY <1>7, <2>1, <2>2
<1>9. /\ row.activated = lc.activated /\ row.entry = lc.captured /\ row.exit = NoExit
      /\ row.closed = lc.terminal /\ row.events = lc.events /\ lc.terminal = NoTime
  BY <1>1, <1>2, <1>5 DEF Shows, IsActive, Terminal
<1>10. u.lc.status = "ACTIVE" => u.lc.terminal = lc.terminal /\ u.lc.events = lc.events
  <2> SUFFICES ASSUME u.lc.status = "ACTIVE" PROVE u.lc.terminal = lc.terminal /\ u.lc.events = lc.events
    OBVIOUS
  <2>1. IsActive(rt.s, u.lc, t)
    BY <1>4 DEF Life, IsWaiting, IsActive, IsHit, IsCancelled, IsAmbiguous
  <2> QED BY <1>2, <1>8, <2>1 DEF IsActive
<1>11. lc.captured # NoEntry
  <2>1. NoEntry.executed = FALSE
    BY DEF NoEntry
  <2> QED BY <1>5, <2>1
<1> QED BY <1>5, <1>8, <1>9, <1>10, <1>11

\* A waiting row has nothing but, perhaps, the event of its creation.
LEMMA WaitingRow ==
    ASSUME NEW rt, NEW row, NEW u, NEW t, Writing(rt, row, u, t), row.status = "WAITING"
    PROVE  /\ row.entry = NoEntry /\ row.exit = NoExit /\ row.activated = NoTime /\ row.closed = NoTime
           /\ u.lc.status = "WAITING" => row.events \in {<<>>, u.lc.events}
<1>1. CASE Fresh(row)
  BY <1>1 DEF Fresh
<1>2. CASE \E lc : HeldOf(rt, lc, t) /\ Shows(row, lc, rt.execution)
  <2>1. PICK lc : HeldOf(rt, lc, t) /\ Shows(row, lc, rt.execution)
    BY <1>2
  <2>2. IsWaiting(rt.s, lc)
    BY <2>1 DEF HeldOf, Shows, Life, IsWaiting, IsActive, IsHit, IsCancelled, IsAmbiguous
  <2>3. u.lc.status = "WAITING" => IsWaiting(rt.s, u.lc)
    BY DEF Writing, Taken, HeldOf, Life, IsWaiting, IsActive, IsHit, IsCancelled, IsAmbiguous
  <2> QED BY <2>1, <2>2, <2>3 DEF Shows, IsWaiting, Terminal
<1> QED BY <1>1, <1>2 DEF Writing, RowAt

\* A row that may be updated and has not ended waits or is active.
LEMMA OpenRow ==
    ASSUME NEW rt, NEW row, NEW u, NEW t, Writing(rt, row, u, t), row.status \notin Terminal
    PROVE  row.status \in {"WAITING", "ACTIVE"}
<1>1. row.status \notin {"ABSENT", "NULL"}
  BY DEF Writing, RepositoryAccepts
<1>2. CASE Fresh(row)
  BY <1>1, <1>2 DEF Fresh
<1>3. CASE \E lc : HeldOf(rt, lc, t) /\ Shows(row, lc, rt.execution)
  <2>1. PICK lc : HeldOf(rt, lc, t) /\ Shows(row, lc, rt.execution)
    BY <1>3
  <2> QED BY <2>1, LifeCaptured DEF HeldOf, Shows
<1> QED BY <1>2, <1>3 DEF Writing, RowAt

\* An update leaves a row that shows what the caller took.
LEMMA UpdateShows ==
    ASSUME NEW rt, NEW row, NEW u, NEW t, Writing(rt, row, u, t), row.status \notin Terminal,
           NEW new, new = Projected(row, u)
    PROVE  Record(rt.s, new, u.lc, rt.execution, t) /\ RowFields(new)
<1>1. PICK lc : lc = u.lc
  OBVIOUS
<1>2. PICK s : s = rt.s
  OBVIOUS
<1>3. Numbers(s) /\ LevelsHold(s) /\ t \in Int /\ Life(s, lc, t) /\ RowFields(row)
  BY <1>1, <1>2 DEF Writing, Taken, HeldOf, RowAt
<1>4. /\ RowFields(new) /\ new.status = lc.status /\ new.activated = lc.activated
      /\ new.closed = lc.terminal /\ new.events = lc.events
      /\ new.result = TerminalResult(lc.status)[1] /\ new.pnl = TerminalResult(lc.status)[2]
      /\ new.entry = IF u.entry.executed THEN u.entry ELSE row.entry
      /\ new.exit = IF u.entry.executed /\ u.exit # NoExit THEN u.exit ELSE row.exit
      /\ new.createdAt = row.createdAt /\ new.planned = row.planned
  <2>1. Columns(row, u, new)
    BY <1>3, ProjectedIs
  <2> QED BY <1>1, <2>1 DEF Columns
<1>5. /\ ExecutionShown(s, lc, rt.execution)
      /\ lc.status \in Terminal => u.exit = rt.execution
      /\ lc.status \notin Terminal => u.exit = NoExit
  BY <1>1, <1>2, TakenExecution
<1>6. row.exit = NoExit /\ (lc.activated = NoTime => row.entry = NoEntry)
  <2>1. row.status \in {"WAITING", "ACTIVE"}
    BY OpenRow
  <2>2. CASE row.status = "WAITING"
    BY <2>2, WaitingRow
  <2>3. CASE row.status = "ACTIVE"
    BY <1>1, <2>3, ActiveRow
  <2> QED BY <2>1, <2>2, <2>3
<1>7. (u.entry.executed <=> lc.activated # NoTime) /\ (u.entry = lc.captured \/ lc.activated = NoTime)
  BY <1>1 DEF Writing, RepositoryAccepts, EvidenceFlow, Taken
<1>8. new.entry = IF lc.activated = NoTime THEN NoEntry ELSE lc.captured
  BY <1>4, <1>6, <1>7
<1>9. new.exit = IF lc.status \in Terminal THEN rt.execution ELSE NoExit
  <2>1. lc.status \in {"TP_HIT", "SL_HIT"} => u.entry.executed
    BY <1>3, <1>7, LifeCases
  <2>2. lc.status \in {"CANCELLED", "AMBIGUOUS"} => rt.execution = NoExit
    BY <1>5 DEF ExecutionShown
  <2> QED BY <1>4, <1>5, <1>6, <2>1, <2>2 DEF Terminal
<1>10. << new.result, new.pnl >> = TerminalResult(new.status)
  <2>1. /\ new.result = TerminalResult(new.status)[1] /\ new.pnl = TerminalResult(new.status)[2]
    BY <1>4
  <2>2. \E a, b : TerminalResult(new.status) = << a, b >>
    BY DEF TerminalResult
  <2> QED BY <2>1, <2>2
<1>11. new.createdAt = s.createdAt /\ new.planned = Distance(s.ref, s.sl)
  BY <1>2, <1>4 DEF Writing, RowAt
<1>12. Shows(new, lc, rt.execution)
  BY <1>4, <1>8, <1>9 DEF Shows
<1> QED BY <1>1, <1>2, <1>3, <1>4, <1>5, <1>10, <1>11, <1>12 DEF Record

\* An active row that stays active stays what it is.
LEMMA ActiveRowKept ==
    ASSUME NEW rt, NEW row, NEW u, NEW t, Writing(rt, row, u, t), row.status = "ACTIVE", u.lc.status = "ACTIVE",
           NEW new, new = Projected(row, u)
    PROVE  new = row
<1>1. Record(rt.s, new, u.lc, rt.execution, t) /\ RowFields(new) /\ RowFields(row)
  BY UpdateShows DEF Terminal, Writing, RowAt
<1>2. /\ u.lc.activated = row.activated /\ u.lc.captured = row.entry /\ row.activated # NoTime
      /\ row.exit = NoExit /\ u.lc.terminal = row.closed /\ u.lc.events = row.events
  BY ActiveRow
<1>3. /\ new.status = row.status /\ new.activated = row.activated /\ new.closed = row.closed
      /\ new.events = row.events /\ new.entry = row.entry /\ new.exit = row.exit
  BY <1>1, <1>2 DEF Record, Shows, Terminal
<1>4. new.result = row.result /\ new.pnl = row.pnl
  <2>1. << row.result, row.pnl >> = TerminalResult(row.status)
    BY DEF Writing, RowAt, RowIsValid, StateFields
  <2>2. << new.result, new.pnl >> = TerminalResult(new.status)
    BY <1>1 DEF Record
  <2>3. << new.result, new.pnl >> = << row.result, row.pnl >>
    BY <1>3, <2>1, <2>2
  <2> QED BY <2>3
<1>5. new.createdAt = row.createdAt /\ new.planned = row.planned
  BY <1>1 DEF Record, Writing, RowAt
<1> QED BY <1>1, <1>3, <1>4, <1>5 DEF RowFields

\* What the repository lets through, the listener, the trigger and the read schema let
\* through, and it is a step of the contract.
Written(rt, row, u, t, new) ==
    /\ Writable(rt.s, row, row, u) /\ RowAt(rt, new, t) /\ new.status \in {"WAITING", "ACTIVE"} \cup Terminal
    /\ ContractStep(row.status, new.status, row.entry, new.entry, row.exit, new.exit)

\* Writing a row that ended.
LEMMA WriteTerminal ==
    ASSUME NEW rt, NEW row, NEW u, NEW t, Writing(rt, row, u, t), row.status \in Terminal
    PROVE  Written(rt, row, u, t, Projected(row, u))
<1>1. Projected(row, u) = row
  BY TerminalRowKept
<1>2. PICK lc : HeldOf(rt, lc, t) /\ Shows(row, lc, rt.execution)
  BY DEF Writing, RowAt, Fresh, Terminal
<1>3. EntryEvidenceHolds(rt.s, row.entry)
  BY <1>2, ShownEntry DEF Writing, HeldOf
<1>4. RowIsValid(rt.s, row) /\ RowAt(rt, row, t)
  BY DEF Writing, RowAt
<1>5. OrmAccepts(row, row)
  BY DEF OrmAccepts
<1>6. Writable(rt.s, row, row, u)
  BY <1>1, <1>3, <1>4, <1>5 DEF Writable, ReadAccepted
<1> QED BY <1>1, <1>4, <1>6 DEF Written, ContractStep

\* Writing a row that has not ended.
LEMMA WriteOpen ==
    ASSUME NEW rt, NEW row, NEW u, NEW t, Writing(rt, row, u, t), row.status \notin Terminal
    PROVE  Written(rt, row, u, t, Projected(row, u))
<1>1. PICK new : new = Projected(row, u)
  OBVIOUS
<1>2. PICK lc : lc = u.lc
  OBVIOUS
<1>3. PICK s : s = rt.s
  OBVIOUS
<1>4. Record(s, new, lc, rt.execution, t) /\ RowFields(new)
  BY <1>1, <1>2, <1>3, UpdateShows
<1>5. RowIsValid(s, new) /\ EntryEvidenceHolds(s, new.entry)
  BY <1>4, RecordHolds
<1>6. /\ new.status = lc.status /\ new.activated = lc.activated /\ new.closed = lc.terminal
      /\ new.events = lc.events
      /\ new.entry = IF lc.activated = NoTime THEN NoEntry ELSE lc.captured
      /\ new.exit = IF lc.status \in Terminal THEN rt.execution ELSE NoExit
      /\ new.createdAt = row.createdAt /\ new.planned = row.planned
  BY <1>4, <1>3 DEF Record, Shows, Writing, RowAt
<1>7. Numbers(s) /\ Life(s, lc, t) /\ HeldOf(rt, lc, t) /\ lc.status \in {"WAITING", "ACTIVE"} \cup Terminal
  BY <1>2, <1>3, LifeCaptured DEF Writing, Taken, HeldOf
<1>8. RowAt(rt, new, t)
  BY <1>3, <1>4, <1>5, <1>7 DEF RowAt, Record
<1>9. CASE row.status = "WAITING"
  <2>1. /\ row.entry = NoEntry /\ row.exit = NoExit /\ row.activated = NoTime /\ row.closed = NoTime
        /\ lc.status = "WAITING" => row.events \in {<<>>, new.events}
    BY <1>2, <1>6, <1>9, WaitingRow
  <2>2. OrmAccepts(row, new)
    BY <1>9, <2>1 DEF OrmAccepts, Terminal
  <2>3. UpdateAccepted(s, row, new)
    BY <1>5, <1>6, <1>9, <2>1 DEF UpdateAccepted, Transition, Terminal
  <2>4. Writable(s, row, row, u)
    BY <1>1, <1>5, <2>2, <2>3 DEF Writable, ReadAccepted
  <2>5. lc.status \in {"ACTIVE", "TP_HIT", "SL_HIT"} => new.entry # NoEntry
    <3>1. NoEntry.executed = FALSE
      BY DEF NoEntry
    <3> QED BY <1>6, <1>7, <3>1, LifeCases
  <2>6. lc.status \in {"WAITING", "CANCELLED"} => new.entry = NoEntry
    BY <1>6, <1>7, LifeCases
  <2>7. ContractStep(row.status, new.status, row.entry, new.entry, row.exit, new.exit)
    BY <1>6, <1>7, <1>9, <2>1, <2>5, <2>6 DEF ContractStep, Terminal
  <2> QED BY <1>1, <1>3, <1>6, <1>7, <1>8, <2>4, <2>7 DEF Written
<1>10. CASE row.status = "ACTIVE"
  <2>1. /\ lc.status \in {"ACTIVE", "TP_HIT", "SL_HIT", "AMBIGUOUS"}
        /\ lc.activated = row.activated /\ lc.captured = row.entry
        /\ row.activated # NoTime /\ row.entry # NoEntry /\ row.exit = NoExit /\ row.closed = NoTime
    BY <1>2, <1>10, ActiveRow
  <2>2. new.entry = row.entry /\ new.activated = row.activated
    BY <1>6, <2>1
  <2>3. new.status = "ACTIVE" => new = row
    <3> SUFFICES ASSUME new.status = "ACTIVE" PROVE new = row
      OBVIOUS
    <3>1. u.lc.status = "ACTIVE"
      BY <1>2, <1>6
    <3> QED BY <1>1, <1>10, <3>1, ActiveRowKept
  <2>4. OrmAccepts(row, new)
    BY <1>10, <2>1, <2>2 DEF OrmAccepts, Terminal
  <2>5. UpdateAccepted(s, row, new)
    BY <1>5, <1>6, <1>10, <2>1, <2>2, <2>3 DEF UpdateAccepted, Transition, Terminal
  <2>6. Writable(s, row, row, u)
    BY <1>1, <1>5, <2>4, <2>5 DEF Writable, ReadAccepted
  <2>7. ContractStep(row.status, new.status, row.entry, new.entry, row.exit, new.exit)
    BY <1>6, <1>7, <1>10, <2>1, <2>2, <2>3 DEF ContractStep, Terminal
  <2> QED BY <1>1, <1>3, <1>6, <1>7, <1>8, <2>6, <2>7 DEF Written
<1> QED BY <1>9, <1>10, OpenRow

\* Writing any row.
LEMMA WriteAccepted ==
    ASSUME NEW rt, NEW row, NEW u, NEW t, Writing(rt, row, u, t)
    PROVE  Written(rt, row, u, t, Projected(row, u))
BY WriteTerminal, WriteOpen

-----------------------------------------------------------------------------
(* The table and its callers *)

RowsOK == /\ rows = [i \in Ids |-> rows[i]]
          /\ \A i \in Ids : rows[i] = Absent \/ (Known(i) /\ RowAt(runtimes[i], rows[i], now))
LocksOK == /\ lock = [i \in Ids |-> lock[i]]
           /\ \A i \in Ids : lock[i] \in Writers \cup {Free}
           /\ \A w \in Writers, i \in Ids : lock[i] = w <=> writers[w].at = "READ" /\ writers[w].id = i
Holds(w) == /\ writers[w].id \in Ids /\ Known(writers[w].id) /\ rows[writers[w].id] # Absent
            /\ Taken(runtimes[writers[w].id], writers[w], now)
WritersOK == /\ writers = [w \in Writers |-> writers[w]]
             /\ \A w \in Writers :
                   \/ writers[w].at = "IDLE"
                   \/ writers[w].at = "HOLDING" /\ Holds(w)
                   \/ writers[w].at = "READ" /\ Holds(w) /\ writers[w].seen = rows[writers[w].id]
TableInv == RowsOK /\ LocksOK /\ WritersOK

\* The table starts empty, its locks free and its callers idle.
LEMMA TableInit == Init => TableInv
<1> SUFFICES ASSUME Init PROVE TableInv
  OBVIOUS
<1>1. \A w \in Writers : writers[w].at = "IDLE"
  BY DEF Init, Idle
<1>2. \A i \in Ids : lock[i] = Free
  BY DEF Init
<1>3. RowsOK
  BY DEF Init, RowsOK
<1>4. LocksOK
  BY <1>1, <1>2, SignalsAssumption DEF Init, LocksOK
<1>5. WritersOK
  BY <1>1 DEF Init, WritersOK
<1> QED BY <1>3, <1>4, <1>5 DEF TableInv

\* An evaluation leaves the table alone, and every row and caller still fits.
LEMMA EvaluateTable ==
    ASSUME EngineInv, TableInv, NEW new \in SUBSET Ids, NEW lost \in SUBSET Ids, Evaluate(new, lost)
    PROVE  TableInv'
<1>1. /\ now' = now + 1 /\ UNCHANGED << rows, lock, writers >>
      /\ \/ UNCHANGED runtimes
         \/ Evaluated
  BY EvaluateShape
<1>2. now \in Int
  BY DEF EngineInv, TapeOK, Length
<1>3. ASSUME NEW i \in Ids, Known(i)
      PROVE  Known(i)' /\ Onward(runtimes[i], runtimes'[i], now)
  <2>1. RuntimeAt(i, runtimes[i], now)
    BY <1>3 DEF EngineInv, RuntimesOK
  <2>2. CASE UNCHANGED runtimes
    <3>1. Life(runtimes[i].s, runtimes[i].lc, now) /\ runtimes[i].s.createdAt \in Nat
      BY <2>1 DEF RuntimeAt
    <3>2. Life(runtimes[i].s, runtimes[i].lc, now + 1)
      BY <1>2, <3>1, LifeLater
    <3>3. Later(runtimes[i].lc, runtimes[i].lc)
      BY <3>1, LaterReflexive DEF Life
    <3>4. runtimes'[i] = runtimes[i]
      BY <2>2
    <3> QED BY <1>2, <1>3, <3>1, <3>2, <3>3, <3>4 DEF Onward, Known
  <2>3. CASE GoesOn(i, runtimes'[i])
    <3>1. PICK rt : rt = runtimes'[i]
      OBVIOUS
    <3>2. RuntimeAt(i, rt, now + 1) /\ Later(runtimes[i].lc, rt.lc) /\ rt.s = runtimes[i].s
          /\ (runtimes[i].lc.status \in Terminal => rt.execution = runtimes[i].execution)
      BY <1>3, <2>3, <3>1 DEF GoesOn
    <3>3. rt # NoRuntime
      BY <1>2, <3>2, RuntimeLater
    <3> QED BY <1>2, <2>1, <3>1, <3>2, <3>3 DEF Onward, RuntimeAt, Known
  <2> QED BY <1>1, <1>3, <2>2, <2>3 DEF Evaluated
<1>4. RowsOK'
  <2>1. ASSUME NEW i \in Ids, rows[i] # Absent
        PROVE  Known(i)' /\ RowAt(runtimes'[i], rows[i], now + 1)
    BY <1>3, <2>1, RowLater DEF TableInv, RowsOK
  <2> QED BY <1>1, <2>1 DEF TableInv, RowsOK
<1>5. LocksOK'
  BY <1>1 DEF TableInv, LocksOK
<1>6. ASSUME NEW w \in Writers, Holds(w)
      PROVE  Holds(w)'
  <2>1. PICK i \in Ids : i = writers[w].id
    BY <1>6 DEF Holds
  <2>2. Known(i) /\ Taken(runtimes[i], writers[w], now)
    BY <1>6, <2>1 DEF Holds
  <2>3. Known(i)' /\ Taken(runtimes'[i], writers[w], now + 1)
    BY <1>3, <2>2, TakenLater
  <2> QED BY <1>1, <1>6, <2>1, <2>3 DEF Holds
<1>7. WritersOK'
  BY <1>1, <1>6 DEF TableInv, WritersOK
<1> QED BY <1>4, <1>5, <1>7 DEF TableInv

\* A caller keeps what it took while its row stays in the table.
Carries(u, v) == v.id = u.id /\ v.lc = u.lc /\ v.entry = u.entry /\ v.exit = u.exit

\* A step of the table that leaves a caller what it took.
LEMMA StillHolds ==
    ASSUME NEW w, Holds(w), Carries(writers[w], writers'[w]), UNCHANGED engineVars,
           \A i \in Ids : rows[i] # Absent => rows'[i] # Absent
    PROVE  Holds(w)'
<1>1. PICK i \in Ids : i = writers[w].id
  BY DEF Holds
<1>2. Known(i)' /\ runtimes' = runtimes /\ now' = now
  BY <1>1 DEF Holds, Known, engineVars
<1>3. Taken(runtimes[i], writers'[w], now)
  BY <1>1 DEF Holds, Taken, Carries
<1>4. writers'[w].id = i /\ rows'[i] # Absent
  BY <1>1 DEF Carries, Holds
<1> QED BY <1>2, <1>3, <1>4 DEF Holds

\* A new row fits its signal (SignalRepository.create).
LEMMA CreateTable ==
    ASSUME EngineInv, TableInv, NEW i \in Ids, NEW final \in {"TRADE", "NO_TRADE"}, Create(i, final)
    PROVE  /\ TableInv'
           /\ rows[i].status = "ABSENT" /\ rows'[i].status \in {"WAITING", "NULL"} /\ rows'[i].entry = NoEntry
           /\ \A j \in Ids : j # i => rows'[j] = rows[j]
<1>1. PICK s : s = runtimes[i].s
  OBVIOUS
<1>2. PICK new : new = NewRecord(s, final)
  OBVIOUS
<1>3. /\ Known(i) /\ rows[i] = Absent /\ InsertAccepted(s, new) /\ rows' = [rows EXCEPT ![i] = new]
      /\ UNCHANGED << engineVars, lock, writers >>
  BY <1>1, <1>2 DEF Create
<1>4. /\ Fresh(new) /\ RowFields(new) /\ new.createdAt = s.createdAt /\ new.planned = Distance(s.ref, s.sl)
  BY <1>2 DEF NewRecord, Fresh, RowFields
<1>5. RowAt(runtimes[i], new, now)
  BY <1>1, <1>3, <1>4 DEF RowAt, InsertAccepted
<1>6. rows' = [j \in Ids |-> IF j = i THEN new ELSE rows[j]]
  BY <1>3 DEF TableInv, RowsOK
<1>7. Absent.status = "ABSENT" /\ new # Absent
  BY <1>4 DEF Absent, Fresh
<1>8. RowsOK'
  BY <1>3, <1>5, <1>6 DEF TableInv, RowsOK, Known, engineVars
<1>9. LocksOK'
  BY <1>3 DEF TableInv, LocksOK
<1>10. ASSUME NEW w \in Writers, Holds(w)
       PROVE  Holds(w)' /\ rows'[writers[w].id] = rows[writers[w].id]
  <2>1. Holds(w)'
    BY <1>3, <1>6, <1>7, <1>10, StillHolds DEF Carries
  <2> QED BY <1>3, <1>6, <1>10, <2>1 DEF Holds
<1>11. WritersOK'
  BY <1>3, <1>10 DEF TableInv, WritersOK
<1> QED BY <1>3, <1>4, <1>6, <1>7, <1>8, <1>9, <1>11 DEF TableInv, Fresh

\* A caller takes the last replay.
LEMMA TakeTable ==
    ASSUME EngineInv, TableInv, NEW w \in Writers, NEW i \in Ids, Take(w, i)
    PROVE  TableInv' /\ UNCHANGED rows
<1>1. PICK rt : rt = runtimes[i]
  OBVIOUS
<1>2. PICK entry \in {rt.entry, IF rt.lc.activated = NoTime THEN NoEntry ELSE rt.entry} :
          writers' = [writers EXCEPT ![w] = [at |-> "HOLDING", id |-> i, lc |-> rt.lc, entry |-> entry,
                                             exit |-> rt.execution]]
  BY <1>1 DEF Take
<1>3. /\ writers[w] = Idle /\ Known(i) /\ rows[i] # Absent /\ UNCHANGED << engineVars, rows, lock >>
  BY DEF Take
<1>4. PICK u : u = [at |-> "HOLDING", id |-> i, lc |-> rt.lc, entry |-> entry, exit |-> rt.execution]
  OBVIOUS
<1>5. u.at = "HOLDING" /\ u.id = i /\ u.lc = rt.lc /\ u.entry = entry /\ u.exit = rt.execution
  BY <1>4
<1>6. writers' = [x \in Writers |-> IF x = w THEN u ELSE writers[x]]
  BY <1>2, <1>4 DEF TableInv, WritersOK
<1>7. RuntimeAt(i, rt, now)
  BY <1>1, <1>3 DEF EngineInv, RuntimesOK
<1>8. Taken(rt, u, now)
  <2>1. HeldOf(rt, rt.lc, now)
    BY <1>7, LaterReflexive DEF RuntimeAt, Life, HeldOf
  <2>2. entry = rt.lc.captured \/ (rt.lc.activated = NoTime /\ entry = NoEntry)
    BY <1>2, <1>7 DEF RuntimeAt
  <2> QED BY <1>5, <2>1, <2>2 DEF Taken
<1>9. writers'[w] = u /\ Holds(w)'
  <2>1. writers'[w] = u
    BY <1>6
  <2> QED BY <1>1, <1>3, <1>5, <1>8, <2>1 DEF Holds, Known, engineVars
<1>10. ASSUME NEW x \in Writers, x # w
       PROVE  writers'[x] = writers[x] /\ (Holds(x) => Holds(x)')
  <2>1. writers'[x] = writers[x]
    BY <1>6, <1>10
  <2> QED BY <1>3, <2>1, StillHolds DEF Carries
<1>11. RowsOK'
  BY <1>3 DEF TableInv, RowsOK, Known, engineVars
<1>12. LocksOK'
  <2>1. ASSUME NEW x \in Writers, NEW j \in Ids
        PROVE  lock[j] = x <=> writers'[x].at = "READ" /\ writers'[x].id = j
    <3>1. CASE x = w
      BY <1>3, <1>5, <1>9, <3>1 DEF TableInv, LocksOK, Idle
    <3>2. CASE x # w
      BY <1>10, <3>2 DEF TableInv, LocksOK
    <3> QED BY <3>1, <3>2
  <2> QED BY <1>3, <2>1 DEF TableInv, LocksOK
<1>13. WritersOK'
  <2>1. ASSUME NEW x \in Writers
        PROVE  \/ writers'[x].at = "IDLE"
               \/ writers'[x].at = "HOLDING" /\ Holds(x)'
               \/ writers'[x].at = "READ" /\ Holds(x)' /\ writers'[x].seen = rows'[writers'[x].id]
    <3>1. CASE x = w
      BY <1>5, <1>9, <3>1
    <3>2. CASE x # w
      BY <1>3, <1>10, <3>2 DEF TableInv, WritersOK
    <3> QED BY <3>1, <3>2
  <2>2. writers' = [x \in Writers |-> writers'[x]]
    BY <1>6
  <2> QED BY <2>1, <2>2 DEF WritersOK
<1> QED BY <1>3, <1>11, <1>12, <1>13 DEF TableInv

\* A caller locks and reads its row (get_for_update).
LEMMA BeginTable ==
    ASSUME EngineInv, TableInv, NEW w \in Writers, Begin(w)
    PROVE  TableInv' /\ UNCHANGED rows
<1>1. PICK i : i = writers[w].id
  OBVIOUS
<1>2. PICK u : u = [at |-> "READ", id |-> writers[w].id, lc |-> writers[w].lc, entry |-> writers[w].entry,
                    exit |-> writers[w].exit, seen |-> rows[writers[w].id]]
  OBVIOUS
<1>3. /\ writers[w].at = "HOLDING" /\ lock[i] = Free /\ lock' = [lock EXCEPT ![i] = w]
      /\ writers' = [x \in Writers |-> IF x # w THEN writers[x] ELSE u]
      /\ UNCHANGED << engineVars, rows >>
  BY <1>1, <1>2 DEF Begin, Lockable
<1>4. Holds(w) /\ i \in Ids
  BY <1>1, <1>3 DEF TableInv, WritersOK, Holds
<1>5. lock' = [j \in Ids |-> IF j = i THEN w ELSE lock[j]]
  BY <1>3 DEF TableInv, LocksOK
<1>6. u.at = "READ" /\ u.id = i /\ u.seen = rows[i] /\ Carries(writers[w], u)
  BY <1>1, <1>2 DEF Carries
<1>7. writers'[w] = u /\ Holds(w)'
  <2>1. writers'[w] = u
    BY <1>3
  <2> QED BY <1>3, <1>4, <1>6, <2>1, StillHolds
<1>8. ASSUME NEW x \in Writers, x # w
      PROVE  writers'[x] = writers[x] /\ (Holds(x) => Holds(x)')
  <2>1. writers'[x] = writers[x]
    BY <1>3, <1>8
  <2> QED BY <1>3, <2>1, StillHolds DEF Carries
<1>9. RowsOK'
  BY <1>3 DEF TableInv, RowsOK, Known, engineVars
<1>10. LocksOK'
  <2>1. ASSUME NEW x \in Writers, NEW j \in Ids
        PROVE  lock'[j] = x <=> writers'[x].at = "READ" /\ writers'[x].id = j
    <3>1. lock'[j] = IF j = i THEN w ELSE lock[j]
      BY <1>5
    <3>2. lock[j] = x <=> writers[x].at = "READ" /\ writers[x].id = j
      BY DEF TableInv, LocksOK
    <3>3. CASE x = w
      BY <1>3, <1>6, <1>7, <3>1, <3>2, <3>3
    <3>4. CASE x # w
      BY <1>3, <1>8, <3>1, <3>2, <3>4, SignalsAssumption
    <3> QED BY <3>3, <3>4
  <2>2. \A j \in Ids : lock'[j] \in Writers \cup {Free}
    BY <1>5 DEF TableInv, LocksOK
  <2> QED BY <1>5, <2>1, <2>2 DEF LocksOK
<1>11. WritersOK'
  <2>1. ASSUME NEW x \in Writers
        PROVE  \/ writers'[x].at = "IDLE"
               \/ writers'[x].at = "HOLDING" /\ Holds(x)'
               \/ writers'[x].at = "READ" /\ Holds(x)' /\ writers'[x].seen = rows'[writers'[x].id]
    <3>1. CASE x = w
      BY <1>3, <1>6, <1>7, <3>1
    <3>2. CASE x # w
      BY <1>3, <1>8, <3>2 DEF TableInv, WritersOK
    <3> QED BY <3>1, <3>2
  <2>2. writers' = [x \in Writers |-> writers'[x]]
    BY <1>3
  <2> QED BY <2>1, <2>2 DEF WritersOK
<1> QED BY <1>3, <1>9, <1>10, <1>11 DEF TableInv

\* A transaction ends and leaves `row` behind.
LEMMA ReleaseTable ==
    ASSUME TableInv, NEW w \in Writers, writers[w].at = "READ", NEW i, i = writers[w].id,
           lock' = [lock EXCEPT ![i] = Free], writers' = [writers EXCEPT ![w] = Let(w)], UNCHANGED engineVars,
           NEW row, row # Absent, RowAt(runtimes[i], row, now), rows' = [rows EXCEPT ![i] = row]
    PROVE  TableInv'
<1>1. Holds(w) /\ i \in Ids /\ Known(i) /\ lock[i] = w
  BY DEF TableInv, WritersOK, LocksOK, Holds
<1>2. PICK u : u = Let(w)
  OBVIOUS
<1>3. u.at = "HOLDING" /\ Carries(writers[w], u)
  BY <1>2 DEF Let, Carries
<1>4. /\ writers' = [x \in Writers |-> IF x = w THEN u ELSE writers[x]]
      /\ lock' = [j \in Ids |-> IF j = i THEN Free ELSE lock[j]]
      /\ rows' = [j \in Ids |-> IF j = i THEN row ELSE rows[j]]
  BY <1>2 DEF TableInv, WritersOK, LocksOK, RowsOK
<1>5. \A j \in Ids : rows[j] # Absent => rows'[j] # Absent
  BY <1>4
<1>6. writers'[w] = u /\ Holds(w)'
  <2>1. writers'[w] = u
    BY <1>4
  <2> QED BY <1>1, <1>3, <1>5, <2>1, StillHolds
<1>7. ASSUME NEW x \in Writers, x # w
      PROVE  /\ writers'[x] = writers[x] /\ (Holds(x) => Holds(x)')
             /\ ~(writers[x].at = "READ" /\ writers[x].id = i)
  <2>1. writers'[x] = writers[x]
    BY <1>4, <1>7
  <2>2. ~(writers[x].at = "READ" /\ writers[x].id = i)
    BY <1>1, <1>7 DEF TableInv, LocksOK
  <2>3. Carries(writers[x], writers'[x])
    BY <2>1 DEF Carries
  <2> QED BY <1>5, <2>1, <2>2, <2>3, StillHolds
<1>8. RowsOK'
  BY <1>1, <1>4 DEF TableInv, RowsOK, Known, engineVars
<1>9. LocksOK'
  <2>1. ASSUME NEW x \in Writers, NEW j \in Ids
        PROVE  lock'[j] = x <=> writers'[x].at = "READ" /\ writers'[x].id = j
    <3>1. lock'[j] = IF j = i THEN Free ELSE lock[j]
      BY <1>4
    <3>2. lock[j] = x <=> writers[x].at = "READ" /\ writers[x].id = j
      BY DEF TableInv, LocksOK
    <3>3. Free # x
      BY SignalsAssumption
    <3>4. CASE x = w
      BY <1>3, <1>6, <3>1, <3>2, <3>3, <3>4
    <3>5. CASE x # w
      BY <1>7, <3>1, <3>2, <3>3, <3>5
    <3> QED BY <3>4, <3>5
  <2>2. \A j \in Ids : lock'[j] \in Writers \cup {Free}
    BY <1>4 DEF TableInv, LocksOK
  <2> QED BY <1>4, <2>1, <2>2 DEF LocksOK
<1>10. WritersOK'
  <2>1. ASSUME NEW x \in Writers
        PROVE  \/ writers'[x].at = "IDLE"
               \/ writers'[x].at = "HOLDING" /\ Holds(x)'
               \/ writers'[x].at = "READ" /\ Holds(x)' /\ writers'[x].seen = rows'[writers'[x].id]
    <3>1. CASE x = w
      BY <1>3, <1>6, <3>1
    <3>2. CASE x # w
      <4>1. writers[x].at = "READ" /\ Holds(x) => rows'[writers[x].id] = rows[writers[x].id]
        BY <1>4, <1>7, <3>2 DEF Holds
      <4> QED BY <1>7, <3>2, <4>1 DEF TableInv, WritersOK
    <3> QED BY <3>1, <3>2
  <2>2. writers' = [x \in Writers |-> writers'[x]]
    BY <1>4
  <2> QED BY <2>1, <2>2 DEF WritersOK
<1> QED BY <1>8, <1>9, <1>10 DEF TableInv

\* What a transaction is about to write.
LEMMA WritingNow ==
    ASSUME EngineInv, TableInv, NEW w \in Writers, writers[w].at = "READ", NEW i, i = writers[w].id
    PROVE  /\ i \in Ids /\ Known(i) /\ writers[w].seen = rows[i] /\ rows[i] # Absent
           /\ RowAt(runtimes[i], rows[i], now)
           /\ RepositoryAccepts(runtimes[i].s, rows[i], writers[w]) =>
                 Writing(runtimes[i], rows[i], writers[w], now)
<1>1. /\ i \in Ids /\ Known(i) /\ writers[w].seen = rows[i] /\ rows[i] # Absent
      /\ Taken(runtimes[i], writers[w], now)
  BY DEF TableInv, WritersOK, Holds
<1>2. RowAt(runtimes[i], rows[i], now)
  BY <1>1 DEF TableInv, RowsOK
<1>3. PICK rt : rt = runtimes[i]
  OBVIOUS
<1>4. RuntimeAt(i, rt, now) /\ now \in Int
  BY <1>1, <1>3 DEF EngineInv, RuntimesOK, TapeOK, Length
<1>5. Numbers(rt.s) /\ LevelsHold(rt.s)
  <2>1. PICK c \in Nat : c = rt.s.createdAt
    BY <1>4 DEF RuntimeAt
  <2>2. rt.s = Signal(i, c)
    BY <1>4, <2>1 DEF RuntimeAt
  <2> QED BY <1>1, <2>2, SignalNumbers
<1> QED BY <1>1, <1>2, <1>3, <1>4, <1>5 DEF Writing, RuntimeAt

\* A caller writes its row or is refused; either way its transaction ends.
LEMMA ApplyTable ==
    ASSUME EngineInv, TableInv, NEW w \in Writers, Apply(w)
    PROVE  /\ TableInv'
           /\ \A j \in Ids : \/ rows'[j] = rows[j]
                             \/ ContractStep(rows[j].status, rows'[j].status, rows[j].entry, rows'[j].entry,
                                             rows[j].exit, rows'[j].exit)
<1>1. PICK i : i = writers[w].id
  OBVIOUS
<1>2. PICK u : u = writers[w]
  OBVIOUS
<1>3. PICK rt : rt = runtimes[i]
  OBVIOUS
<1>4. u.at = "READ"
  BY <1>2 DEF Apply
<1>5. /\ i \in Ids /\ Known(i) /\ u.seen = rows[i] /\ rows[i] # Absent /\ RowAt(rt, rows[i], now)
      /\ RepositoryAccepts(rt.s, rows[i], u) => Writing(rt, rows[i], u, now)
  BY <1>1, <1>2, <1>3, <1>4, WritingNow
<1>6. /\ lock' = [lock EXCEPT ![i] = Free] /\ writers' = [writers EXCEPT ![w] = Let(w)] /\ UNCHANGED engineVars
      /\ rows' = IF RepositoryAccepts(rt.s, rows[i], u) /\ Writable(rt.s, rows[i], rows[i], u)
                 THEN [rows EXCEPT ![i] = Projected(rows[i], u)] ELSE rows
  BY <1>1, <1>2, <1>3, <1>5 DEF Apply
<1>7. rows = [j \in Ids |-> rows[j]]
  BY DEF TableInv, RowsOK
<1>8. CASE RepositoryAccepts(rt.s, rows[i], u)
  <2>1. PICK new : new = Projected(rows[i], u)
    OBVIOUS
  <2>2. Written(rt, rows[i], u, now, new)
    BY <1>5, <1>8, <2>1, WriteAccepted
  <2>3. rows' = [rows EXCEPT ![i] = new]
    BY <1>6, <1>8, <2>1, <2>2 DEF Written
  <2>4. new # Absent
    <3>1. Absent.status = "ABSENT"
      BY DEF Absent
    <3> QED BY <2>2, <3>1 DEF Written, Terminal
  <2>5. TableInv'
    BY <1>1, <1>2, <1>3, <1>4, <1>6, <2>2, <2>3, <2>4, ReleaseTable DEF Written
  <2>6. \A j \in Ids : rows'[j] = IF j = i THEN new ELSE rows[j]
    BY <1>7, <2>3
  <2>7. ContractStep(rows[i].status, new.status, rows[i].entry, new.entry, rows[i].exit, new.exit)
    BY <2>2 DEF Written
  <2> QED BY <2>5, <2>6, <2>7
<1>9. CASE ~RepositoryAccepts(rt.s, rows[i], u)
  <2>1. rows' = rows /\ rows' = [rows EXCEPT ![i] = rows[i]]
    BY <1>5, <1>6, <1>7, <1>9
  <2>2. TableInv'
    BY <1>1, <1>2, <1>3, <1>4, <1>5, <1>6, <2>1, ReleaseTable
  <2> QED BY <2>1, <2>2
<1> QED BY <1>8, <1>9

\* A transaction is lost.
LEMMA RollbackTable ==
    ASSUME EngineInv, TableInv, NEW w \in Writers, Rollback(w)
    PROVE  TableInv' /\ UNCHANGED rows
<1>1. PICK i : i = writers[w].id
  OBVIOUS
<1>2. /\ writers[w].at = "READ" /\ lock' = [lock EXCEPT ![i] = Free]
      /\ writers' = [writers EXCEPT ![w] = Let(w)] /\ UNCHANGED engineVars /\ UNCHANGED rows
  BY <1>1 DEF Rollback
<1>3. i \in Ids /\ rows[i] # Absent /\ RowAt(runtimes[i], rows[i], now)
  BY <1>1, <1>2, WritingNow
<1>4. rows' = [rows EXCEPT ![i] = rows[i]]
  BY <1>2, <1>3 DEF TableInv, RowsOK
<1> QED BY <1>1, <1>2, <1>3, <1>4, ReleaseTable

\* A caller gives up.
LEMMA ForgetTable ==
    ASSUME EngineInv, TableInv, NEW w \in Writers, Forget(w)
    PROVE  TableInv' /\ UNCHANGED rows
<1>1. /\ writers[w].at = "HOLDING" /\ UNCHANGED << engineVars, rows, lock >>
      /\ writers' = [x \in Writers |-> IF x = w THEN Idle ELSE writers[x]]
  BY DEF Forget, TableInv, WritersOK
<1>2. Idle.at = "IDLE"
  BY DEF Idle
<1>3. ASSUME NEW x \in Writers, x # w
      PROVE  writers'[x] = writers[x] /\ (Holds(x) => Holds(x)')
  <2>1. writers'[x] = writers[x]
    BY <1>1, <1>3
  <2> QED BY <1>1, <2>1, StillHolds DEF Carries
<1>4. RowsOK'
  BY <1>1 DEF TableInv, RowsOK, Known, engineVars
<1>5. LocksOK'
  <2>1. ASSUME NEW x \in Writers, NEW j \in Ids
        PROVE  lock[j] = x <=> writers'[x].at = "READ" /\ writers'[x].id = j
    <3>1. CASE x = w
      BY <1>1, <1>2, <3>1 DEF TableInv, LocksOK
    <3>2. CASE x # w
      BY <1>3, <3>2 DEF TableInv, LocksOK
    <3> QED BY <3>1, <3>2
  <2> QED BY <1>1, <2>1 DEF TableInv, LocksOK
<1>6. WritersOK'
  <2>1. ASSUME NEW x \in Writers
        PROVE  \/ writers'[x].at = "IDLE"
               \/ writers'[x].at = "HOLDING" /\ Holds(x)'
               \/ writers'[x].at = "READ" /\ Holds(x)' /\ writers'[x].seen = rows'[writers'[x].id]
    <3>1. CASE x = w
      BY <1>1, <1>2, <3>1
    <3>2. CASE x # w
      BY <1>1, <1>3, <3>2 DEF TableInv, WritersOK
    <3> QED BY <3>1, <3>2
  <2>2. writers' = [x \in Writers |-> writers'[x]]
    BY <1>1
  <2> QED BY <2>1, <2>2 DEF WritersOK
<1> QED BY <1>1, <1>4, <1>5, <1>6 DEF TableInv

\* Every step keeps the table what it is, and takes each row a step of the contract.
RowsStep ==
    \A j \in Ids : \/ rows'[j] = rows[j]
                   \/ ContractStep(rows[j].status, rows'[j].status, rows[j].entry, rows'[j].entry,
                                   rows[j].exit, rows'[j].exit)

\* Each action in turn.
LEMMA TableKept ==
    ASSUME EngineInv, TableInv, [Next]_vars
    PROVE  TableInv' /\ RowsStep
<1>1. CASE \E new \in SUBSET Ids, lost \in SUBSET Ids : Evaluate(new, lost)
  <2>1. PICK new \in SUBSET Ids, lost \in SUBSET Ids : Evaluate(new, lost)
    BY <1>1
  <2> QED BY <2>1, EvaluateTable, EvaluateShape DEF RowsStep
<1>2. CASE Report \/ UNCHANGED vars
  <2>1. UNCHANGED << tape, cfg, now, runtimes, rows, lock, writers >>
    BY <1>2 DEF Report, vars, engineVars, rowVars
  <2>2. RowsOK' /\ LocksOK'
    BY <2>1 DEF TableInv, RowsOK, LocksOK, Known
  <2>3. WritersOK'
    BY <2>1 DEF TableInv, WritersOK, Holds, Known
  <2> QED BY <2>1, <2>2, <2>3 DEF TableInv, RowsStep
<1>3. ASSUME NEW i \in Ids, NEW final \in {"TRADE", "NO_TRADE"}, Create(i, final)
      PROVE  TableInv' /\ RowsStep
  <2>1. /\ TableInv'
        /\ rows[i].status = "ABSENT" /\ rows'[i].status \in {"WAITING", "NULL"} /\ rows'[i].entry = NoEntry
        /\ \A j \in Ids : j # i => rows'[j] = rows[j]
    BY <1>3, CreateTable
  <2> QED BY <2>1 DEF RowsStep, ContractStep
<1>4. ASSUME NEW w \in Writers, NEW i \in Ids, Take(w, i)
      PROVE  TableInv' /\ RowsStep
  BY <1>4, TakeTable DEF RowsStep
<1>5. ASSUME NEW w \in Writers, Begin(w)
      PROVE  TableInv' /\ RowsStep
  BY <1>5, BeginTable DEF RowsStep
<1>6. ASSUME NEW w \in Writers, Apply(w)
      PROVE  TableInv' /\ RowsStep
  BY <1>6, ApplyTable DEF RowsStep
<1>7. ASSUME NEW w \in Writers, Rollback(w)
      PROVE  TableInv' /\ RowsStep
  BY <1>7, RollbackTable DEF RowsStep
<1>8. ASSUME NEW w \in Writers, Forget(w)
      PROVE  TableInv' /\ RowsStep
  BY <1>8, ForgetTable DEF RowsStep
<1> QED BY <1>1, <1>2, <1>3, <1>4, <1>5, <1>6, <1>7, <1>8 DEF Next

\* The whole system, from the first evaluation on.
HistoryInv == EngineInv /\ TableInv

\* The inductive invariant of the system, in every state.
LEMMA HistoryInvariance == Spec => []HistoryInv
<1>1. Init => HistoryInv
  BY EngineInit, TableInit DEF HistoryInv
<1>2. HistoryInv /\ [Next]_vars => HistoryInv'
  BY EngineKept, TableKept DEF HistoryInv
<1> QED BY <1>1, <1>2, PTL DEF Spec

-----------------------------------------------------------------------------
(* What follows for the rows *)

\* The status of a row.
LEMMA RowStatus ==
    ASSUME NEW rt, NEW row, NEW t, RowAt(rt, row, t)
    PROVE  row.status \in {"NULL", "WAITING", "ACTIVE"} \cup Terminal
<1>1. CASE Fresh(row)
  BY <1>1 DEF Fresh
<1>2. CASE \E lc : HeldOf(rt, lc, t) /\ Shows(row, lc, rt.execution)
  <2>1. PICK lc : HeldOf(rt, lc, t) /\ Shows(row, lc, rt.execution)
    BY <1>2
  <2> QED BY <2>1, LifeCaptured DEF HeldOf, Shows
<1> QED BY <1>1, <1>2 DEF RowAt

\* The inductive invariant types the system.
LEMMA HistoryTyped ==
    ASSUME HistoryInv
    PROVE  TypeOK
<1>1. now \in 0..Length /\ run \in {"RUNNING", "REPORTED", "RESULT_REFUSED", "REPORT_REFUSED", "ENTRY_CHANGED"}
  BY DEF HistoryInv, EngineInv, TapeOK
<1>2. ASSUME NEW i \in Ids
      PROVE  runtimes[i].lc.status \in Statuses \ {"NULL"}
  <2>1. CASE Known(i)
    <3>1. RuntimeAt(i, runtimes[i], now) /\ now \in Int
      BY <2>1 DEF HistoryInv, EngineInv, RuntimesOK, TapeOK, Length
    <3> QED BY <3>1, RuntimeLater DEF Statuses, Terminal
  <2>2. CASE ~Known(i)
    <3>1. NoRuntime.lc.status = "ABSENT"
      BY DEF NoRuntime
    <3> QED BY <2>2, <3>1 DEF Known, Statuses, Terminal
  <2> QED BY <2>1, <2>2
<1>3. ASSUME NEW i \in Ids
      PROVE  /\ rows[i].status \in Statuses /\ lock[i] \in Writers \cup {Free}
             /\ rows[i] # Absent => RowIsValid(runtimes[i].s, rows[i])
  <2>1. CASE rows[i] = Absent
    BY <2>1 DEF HistoryInv, TableInv, LocksOK, Absent, Statuses
  <2>2. CASE rows[i] # Absent
    <3>1. RowAt(runtimes[i], rows[i], now)
      BY <2>2 DEF HistoryInv, TableInv, RowsOK
    <3>2. rows[i].status \in {"NULL", "WAITING", "ACTIVE"} \cup Terminal
      BY <3>1, RowStatus
    <3> QED BY <3>1, <3>2 DEF HistoryInv, TableInv, LocksOK, Statuses, RowAt
  <2> QED BY <2>1, <2>2
<1>4. ASSUME NEW w \in Writers
      PROVE  /\ writers[w].at \in {"IDLE", "HOLDING", "READ"}
             /\ writers[w].at = "READ" <=> \E i \in Ids : lock[i] = w
  BY DEF HistoryInv, TableInv, WritersOK, LocksOK, Holds
<1> QED BY <1>1, <1>2, <1>3, <1>4 DEF TypeOK

\* Runtimes, rows, run and callers are what their types say, every row passes the
\* trigger, the CHECKs and the read schema, and a row is locked by exactly the
\* transaction that has read it (get_for_update).
THEOREM SignalsTypeCorrect == Spec => []TypeOK
BY HistoryInvariance, HistoryTyped, PTL

\* The inductive invariant makes every accepted update one the database accepts.
LEMMA HistoryWritable ==
    ASSUME HistoryInv
    PROVE  AcceptedIsWritable
<1> SUFFICES ASSUME NEW w \in Writers, writers[w].at = "READ", NEW i, i = writers[w].id,
                    RepositoryAccepts(runtimes[i].s, writers[w].seen, writers[w])
             PROVE  Writable(runtimes[i].s, rows[i], writers[w].seen, writers[w])
  BY DEF AcceptedIsWritable
<1>1. writers[w].seen = rows[i] /\ Writing(runtimes[i], rows[i], writers[w], now)
  BY WritingNow DEF HistoryInv
<1>2. Written(runtimes[i], rows[i], writers[w], now, Projected(rows[i], writers[w]))
  BY <1>1, WriteAccepted
<1> QED BY <1>1, <1>2 DEF Written

\* An update that the repository accepts is never refused by the ORM listener, the
\* history trigger or the read schema, however late, repeated or interleaved it comes
\* (SignalRepository.apply_lifecycle, prevent_signal_history_mutation).
THEOREM RowsWritable == Spec => []AcceptedIsWritable
BY HistoryInvariance, HistoryWritable, PTL

\* The trade of a replay that ended like its row.
LEMMA SameOutcome ==
    ASSUME NEW rt, NEW row, NEW t, RowAt(rt, row, t), row.status \in Terminal, Numbers(rt.s),
           rt.entry = rt.lc.captured, TradeHolds(ToTrade(rt))
    PROVE  LET trade == ToTrade(rt)
           IN  /\ trade.status = row.status /\ trade.execution = row.exit
               /\ trade.entry.executed <=> row.entry.executed
<1>1. PICK lc : HeldOf(rt, lc, t) /\ Shows(row, lc, rt.execution)
  BY DEF RowAt, Fresh, Terminal
<1>2. rt.lc = lc /\ row.status = lc.status /\ row.exit = rt.execution /\ row.activated = lc.activated
  BY <1>1 DEF HeldOf, Shows, Later
<1>3. PICK x : x = rt.execution
  OBVIOUS
<1>4. PICK trade : trade = ToTrade(rt)
  OBVIOUS
<1>5. /\ trade.status = (IF x = NoExit THEN lc.status ELSE IF x.reason = "TAKE_PROFIT" THEN "TP_HIT" ELSE "SL_HIT")
      /\ trade.activated = lc.activated /\ trade.entry = rt.entry /\ trade.execution = x
  BY <1>2, <1>3, <1>4 DEF ToTrade
<1>6. /\ trade.activated # NoTime <=> trade.entry.executed
      /\ trade.status \in {"TP_HIT", "SL_HIT"} <=> trade.execution # NoExit
  BY <1>4 DEF TradeHolds
<1>7. EvidenceShape(row) /\ ExitArithmetic(rt.s, row)
  BY DEF RowAt, RowIsValid
<1>8. row.entry.executed <=> row.activated # NoTime
  BY <1>7 DEF EvidenceShape
<1>9. trade.status = row.status
  <2>1. CASE x = NoExit
    BY <1>2, <1>5, <2>1
  <2>2. CASE x # NoExit
    <3>1. row.status \in {"TP_HIT", "SL_HIT"}
      BY <1>2, <1>3, <1>7, <2>2 DEF EvidenceShape
    <3>2. x.reason = IF row.status = "TP_HIT" THEN "TAKE_PROFIT" ELSE "STOP_LOSS"
      BY <1>2, <1>3, <1>7, <2>2 DEF ExitArithmetic
    <3> QED BY <1>5, <2>2, <3>1, <3>2
  <2> QED BY <2>1, <2>2
<1>10. trade.execution = row.exit /\ (trade.entry.executed <=> row.entry.executed)
  BY <1>2, <1>3, <1>5, <1>6, <1>8
<1> QED BY <1>4, <1>9, <1>10

\* The inductive invariant makes a terminal row and its trade the same observation.
LEMMA HistoryAgrees ==
    ASSUME HistoryInv
    PROVE  TableAgreesWithReport
<1> SUFFICES ASSUME NEW i \in Ids, rows[i].status \in Terminal, TradeHolds(ToTrade(runtimes[i]))
             PROVE  Undated(PersistedSignalFinancialObservation(rows[i]))
                        = Undated(BacktestFinancialObservation(ToTrade(runtimes[i])))
  BY DEF TableAgreesWithReport
<1>1. PICK rt : rt = runtimes[i]
  OBVIOUS
<1>2. PICK row : row = rows[i]
  OBVIOUS
<1>3. PICK trade : trade = ToTrade(rt)
  OBVIOUS
<1>4. row # Absent
  <2>1. Absent.status = "ABSENT"
    BY DEF Absent
  <2> QED BY <1>2, <2>1 DEF Terminal
<1>5. RowAt(rt, row, now) /\ RuntimeAt(i, rt, now)
  BY <1>1, <1>2, <1>4 DEF HistoryInv, TableInv, RowsOK, EngineInv, RuntimesOK
<1>6. Numbers(rt.s) /\ rt.entry = rt.lc.captured
  <2>1. PICK c \in Nat : c = rt.s.createdAt
    BY <1>5 DEF RuntimeAt
  <2>2. rt.s = Signal(i, c)
    BY <1>5, <2>1 DEF RuntimeAt
  <2> QED BY <1>5, <2>2, SignalNumbers DEF RuntimeAt
<1>7. /\ trade.status = row.status /\ trade.execution = row.exit
      /\ trade.entry.executed <=> row.entry.executed
  BY <1>1, <1>2, <1>3, <1>5, <1>6, SameOutcome
<1>8. trade.status \in {"TP_HIT", "SL_HIT"} <=> row.exit # NoExit
  BY <1>1, <1>3, <1>7 DEF TradeHolds
<1>9. trade.execution # NoExit => trade.entry.executed
  <2>1. row.exit # NoExit => row.activated # NoTime
    BY <1>5, <1>7, <1>8 DEF RowAt, RowIsValid, StateFields
  <2>2. row.entry.executed <=> row.activated # NoTime
    BY <1>5 DEF RowAt, RowIsValid, EvidenceShape
  <2> QED BY <1>7, <2>1, <2>2
<1>10. PICK kind : kind = IF row.entry.executed
                          THEN (IF row.status = "AMBIGUOUS" THEN "AMBIGUOUS_EXIT" ELSE "EXECUTED")
                          ELSE "NOT_EXECUTED"
  OBVIOUS
<1>11. kind = IF trade.execution # NoExit THEN "EXECUTED"
              ELSE IF trade.entry.executed THEN (IF trade.status = "AMBIGUOUS" THEN "AMBIGUOUS_EXIT" ELSE "EXECUTED")
              ELSE "NOT_EXECUTED"
  BY <1>7, <1>8, <1>9, <1>10
<1>12. PersistedSignalFinancialObservation(row) = Observation(row.status, kind, row.exit, row.closed)
  BY <1>10 DEF PersistedSignalFinancialObservation
<1>13. BacktestFinancialObservation(trade) = Observation(row.status, kind, row.exit, trade.closed)
  BY <1>7, <1>11 DEF BacktestFinancialObservation
<1>14. \A c : Undated(Observation(row.status, kind, row.exit, c))
                  = Undated(Observation(row.status, kind, row.exit, NoTime))
  BY DEF Undated, Observation
<1> QED BY <1>1, <1>2, <1>3, <1>12, <1>13, <1>14

\* A signal that ended in the table ended the same way in the backtest, where its trade
\* can be reported: metrics over rows and metrics over trades count the same outcome
\* (persisted_signal_financial_observation, backtest_financial_observation).
THEOREM RowsAgree == Spec => []TableAgreesWithReport
BY HistoryInvariance, HistoryAgrees, PTL

\* The table starts as the contract does and every step of the system is one of its steps.
LEMMA TableContractInit == Init => Table!Init
<1> SUFFICES ASSUME Init PROVE Table!Init
  OBVIOUS
<1>1. \A i \in Ids : rows[i] = Absent
  BY DEF Init
<1>2. Absent.status = "ABSENT" /\ Absent.entry = NoEntry
  BY DEF Absent
<1> QED BY <1>1, <1>2 DEF Table!Init

\* Steps of the rows, signal by signal, are one step of the contract.
LEMMA TableContractStep ==
    ASSUME RowsStep
    PROVE  Table!Next
<1> SUFFICES ASSUME NEW i \in Ids
             PROVE  \/ Table!Record(i) \/ Table!Enter(i) \/ Table!Rest(i)
                    \/ \E o \in {"TP_HIT", "SL_HIT", "CANCELLED", "AMBIGUOUS"} : Table!End(i, o)
  BY DEF Table!Next
<1>1. PICK a : a = rows[i]
  OBVIOUS
<1>2. PICK b : b = rows'[i]
  OBVIOUS
<1>3. b = a \/ ContractStep(a.status, b.status, a.entry, b.entry, a.exit, b.exit)
  BY <1>1, <1>2 DEF RowsStep
<1> QED BY <1>1, <1>2, <1>3 DEF ContractStep, Terminal, Table!Record, Table!Enter, Table!Rest, Table!End

\* The replays of a backtest and the rows of the table each implement SignalContract:
\* one life per signal that only goes forward, whatever is replayed from scratch and
\* whoever writes late, twice or concurrently (replay_signal_lifecycle,
\* SignalRepository.apply_lifecycle).
THEOREM ContractFollowed == Spec => HistoryFollowsContract
<1>1. Init => Replays!Init /\ Table!Init
  BY ReplaysInit, TableContractInit
<1>2. HistoryInv /\ [Next]_vars => [Replays!Next]_Replays!vars /\ [Table!Next]_Table!vars
  <2> SUFFICES ASSUME HistoryInv, [Next]_vars
               PROVE  [Replays!Next]_Replays!vars /\ [Table!Next]_Table!vars
    OBVIOUS
  <2>1. EngineInv /\ RowsStep
    BY TableKept DEF HistoryInv
  <2>2. [Replays!Next]_Replays!vars
    BY <2>1, ReplaysStep
  <2>3. Table!Next
    BY <2>1, TableContractStep
  <2> QED BY <2>2, <2>3
<1> QED BY <1>1, <1>2, HistoryInvariance, PTL
        DEF Spec, HistoryFollowsContract, Replays!Spec, Table!Spec

-----------------------------------------------------------------------------
(* The equity curve *)

\* Results that can be put in order and added up.
Results(R) ==
    /\ IsFiniteSet(R)
    /\ \A x \in R : x.id \in Int /\ x.obs.closed \in Int /\ x.obs.r \in Int
    /\ \A x, y \in R : x.id = y.id => x = y

\* c is R in order.
InTurn(R, c, N) ==
    /\ N \in Nat /\ Len(c) = N
    /\ \A n \in 1..N : c[n] \in R
    /\ \A x \in R : \E n \in 1..N : c[n] = x
    /\ \A m, n \in 1..N : Chronological(c[m], c[n]) <=> m < n

\* Counting who comes before puts the results in order.
LEMMA CurveInTurn ==
    ASSUME NEW R, Results(R)
    PROVE  InTurn(R, Curve(R), Cardinality(R))
<1> DEFINE N == Cardinality(R)
           before(x) == {y \in R : Chronological(y, x)}
           rank(x) == Cardinality(before(x))
           c == Curve(R)
<1>1. N \in Nat /\ \A x \in R : before(x) \in SUBSET R /\ IsFiniteSet(before(x)) /\ rank(x) \in Nat
  BY FS_Subset, FS_CardinalityType DEF Results
<1>2. ASSUME NEW x \in R, NEW y \in R
      PROVE  /\ ~Chronological(x, x)
             /\ x # y => Chronological(x, y) \/ Chronological(y, x)
             /\ \A z \in R : Chronological(x, y) /\ Chronological(y, z) => Chronological(x, z)
  BY DEF Results, Chronological
<1>3. ASSUME NEW x \in R, NEW y \in R, Chronological(x, y)
      PROVE  rank(x) < rank(y)
  <2>1. before(x) \in SUBSET before(y)
    BY <1>2, <1>3
  <2>2. x \in before(y) /\ x \notin before(x)
    BY <1>2, <1>3
  <2> HIDE DEF before
  <2>3. rank(x) <= rank(y) /\ rank(x) # rank(y)
    BY <1>1, <2>1, <2>2, FS_Subset
  <2> QED BY <1>1, <2>3
<1>4. ASSUME NEW x \in R
      PROVE  rank(x) < N
  <2>1. before(x) \in SUBSET R /\ x \notin before(x)
    BY <1>2
  <2> HIDE DEF before
  <2>2. rank(x) <= N /\ rank(x) # N
    BY <2>1, FS_Subset DEF Results
  <2> QED BY <1>1, <2>2
<1> HIDE DEF before
<1>5. \A x, y \in R : rank(x) = rank(y) => x = y
  BY <1>1, <1>2, <1>3
<1>6. \A n \in 1..N : \E x \in R : rank(x) = n - 1
  <2> DEFINE f == [x \in R |-> rank(x) + 1]
  <2>1. f \in Injection(R, 1..N)
    BY <1>1, <1>4, <1>5 DEF Injection, IsInjective
  <2>2. IsFiniteSet(1..N) /\ Cardinality(1..N) = N
    BY <1>1, FS_Interval
  <2> HIDE DEF f
  <2>3. f \in Surjection(R, 1..N)
    BY <2>1, <2>2, FS_Injection
  <2> SUFFICES ASSUME NEW n \in 1..N PROVE \E x \in R : rank(x) = n - 1
    OBVIOUS
  <2>4. \E x \in R : f[x] = n
    BY <2>3 DEF Surjection
  <2>5. PICK x \in R : f[x] = n
    BY <2>4
  <2>6. rank(x) + 1 = n
    BY <2>5 DEF f
  <2> QED BY <1>1, <2>6
<1>7. c = [n \in 1..N |-> CHOOSE x \in R : rank(x) = n - 1]
  BY DEF Curve, before
<1>8. \A n \in 1..N : c[n] \in R /\ rank(c[n]) = n - 1
  BY <1>6, <1>7
<1>9. Len(c) = N
  BY <1>1, <1>7
<1> HIDE DEF c
<1>10. \A x \in R : \E n \in 1..N : c[n] = x
  <2> SUFFICES ASSUME NEW x \in R PROVE \E n \in 1..N : c[n] = x
    OBVIOUS
  <2>1. rank(x) + 1 \in 1..N /\ (rank(x) + 1) - 1 = rank(x)
    BY <1>1, <1>4
  <2>2. c[rank(x) + 1] \in R /\ rank(c[rank(x) + 1]) = rank(x)
    BY <1>8, <2>1
  <2> QED BY <1>5, <2>1, <2>2
<1>11. \A m, n \in 1..N : Chronological(c[m], c[n]) <=> m < n
  <2> SUFFICES ASSUME NEW m \in 1..N, NEW n \in 1..N
               PROVE  Chronological(c[m], c[n]) <=> m < n
    OBVIOUS
  <2>1. c[m] \in R /\ rank(c[m]) = m - 1 /\ c[n] \in R /\ rank(c[n]) = n - 1
    BY <1>8
  <2>2. Chronological(c[m], c[n]) => m < n
    BY <1>3, <2>1
  <2>3. Chronological(c[n], c[m]) => n < m
    BY <1>3, <2>1
  <2>4. m < n => c[m] # c[n]
    BY <2>1
  <2> QED BY <1>2, <2>1, <2>2, <2>3, <2>4
<1>12. InTurn(R, c, N)
  <2> HIDE DEF rank, N
  <2> QED BY <1>1, <1>8, <1>9, <1>10, <1>11 DEF InTurn
<1> QED BY <1>12 DEF c

\* f is the equity after each result.
Sums(f, c) ==
    f = [n \in 0..Len(c) |-> IF n = 0 THEN NoEquity ELSE Realised(f[n - 1], c[n].obs.r)]

\* There is such a function, and the report's is its last value.
LEMMA EquityTrace ==
    ASSUME NEW c, Len(c) \in Nat
    PROVE  \E f : Sums(f, c) /\ Equity(c) = f[Len(c)]
<1> DEFINE e(f, n) == IF n = 0 THEN NoEquity ELSE Realised(f[n - 1], c[n].obs.r)
           part(f, m) == f = [n \in 0..m |-> e(f, n)]
           G == {m \in Nat : \E f : part(f, m)}
<1>1. 0 \in G
  <2>1. part([n \in 0..0 |-> NoEquity], 0)
    OBVIOUS
  <2>2. \E f : part(f, 0)
    BY ONLY <2>1
  <2> QED BY ONLY <2>2
<1>2. ASSUME NEW m \in 1..Len(c), m - 1 \in G
      PROVE  m \in G
  <2>1. PICK f : part(f, m - 1)
    BY <1>2
  <2> DEFINE h == [n \in 0..m |-> e(f, n)]
  <2>2. ASSUME NEW n \in 0..m
        PROVE  e(h, n) = e(f, n)
    <3>1. CASE n = 0
      BY <3>1
    <3>2. CASE n # 0
      <4>1. n - 1 \in 0..m /\ n - 1 \in 0..(m - 1)
        BY <3>2
      <4> HIDE DEF e
      <4>2. f[n - 1] = e(f, n - 1)
        BY <4>1, <2>1
      <4>3. h[n - 1] = e(f, n - 1)
        BY <4>1
      <4>4. h[n - 1] = f[n - 1]
        BY <4>2, <4>3
      <4> HIDE DEF h
      <4> QED BY <3>2, <4>4 DEF e
    <3> QED BY <3>1, <3>2
  <2> HIDE DEF e
  <2>3. part(h, m)
    BY <2>2
  <2>4. \E g : part(g, m)
    BY <2>3
  <2>5. m \in Nat
    OBVIOUS
  <2> HIDE DEF part, h
  <2> QED BY <2>4, <2>5
<1>3. Len(c) \in G
  <2> HIDE DEF G
  <2> PICK N \in Nat : N = Len(c)
    OBVIOUS
  <2>1. \A n \in 1..N : n - 1 \in G => n \in G
    BY <1>2
  <2>2. \A n \in 0..N : n \in G
    BY <1>1, <2>1, AfterEvery
  <2> QED BY <2>2
<1>4. \E f : Sums(f, c)
  BY <1>3 DEF Sums
<1> QED BY <1>4 DEF Sums, Equity

\* The larger of two numbers.
LEMMA LargerOf ==
    ASSUME NEW a \in Int, NEW b \in Int
    PROVE  Max({a, b}) = IF a < b THEN b ELSE a
<1>1. PICK m : m = IF a < b THEN b ELSE a
  OBVIOUS
<1>2. m \in {a, b} /\ \A y \in {a, b} : m >= y
  BY <1>1
<1>3. Max({a, b}) \in {a, b} /\ \A y \in {a, b} : Max({a, b}) >= y
  BY <1>2 DEF Max
<1>4. PICK x : x = Max({a, b})
  OBVIOUS
<1> QED BY <1>1, <1>2, <1>3, <1>4

\* The sum of the first results.
FirstSum(R, c, n) == SumFunctionOnSet([x \in R |-> x.obs.r], {c[m] : m \in 1..n})

\* It grows by one result at a time.
LEMMA FirstSums ==
    ASSUME NEW R, Results(R), NEW c, NEW N, InTurn(R, c, N)
    PROVE  /\ FirstSum(R, c, 0) = 0
           /\ \A n \in 0..N : FirstSum(R, c, n) \in Int
           /\ \A n \in 1..N : FirstSum(R, c, n) = FirstSum(R, c, n - 1) + c[n].obs.r
<1> DEFINE r == [x \in R |-> x.obs.r]
           first(n) == {c[m] : m \in 1..n}
<1>1. \A n \in 0..N : first(n) \in SUBSET R
  BY DEF InTurn
<1>2. first(0) = {}
  OBVIOUS
<1>3. IsFiniteSet(R) /\ \A x \in R : r[x] \in Int
  BY DEF Results
<1>4. ASSUME NEW n \in 1..N
      PROVE  first(n) = first(n - 1) \cup {c[n]} /\ c[n] \notin first(n - 1) /\ c[n] \in R /\ r[c[n]] = c[n].obs.r
  <2>1. n \in Nat /\ N \in Nat /\ c[n] \in R
    BY DEF InTurn
  <2>2. 1..n = (1..(n - 1)) \cup {n}
    BY <2>1
  <2>3. \A m \in 1..(n - 1) : c[m] # c[n]
    <3> SUFFICES ASSUME NEW m \in 1..(n - 1), c[m] = c[n] PROVE FALSE
      OBVIOUS
    <3>1. m \in 1..N /\ m < n
      BY <2>1
    <3> QED BY <3>1 DEF InTurn
  <2> QED BY <2>1, <2>2, <2>3
<1> HIDE DEF first, r
<1>5. \A n \in 0..N : FirstSum(R, c, n) = SumFunctionOnSet(r, first(n))
  BY DEF FirstSum, r, first
<1>6. \A n \in 0..N : SumFunctionOnSet(r, first(n)) \in Int
  BY <1>1, <1>3, SumInt
<1>7. ASSUME NEW n \in 1..N
      PROVE  SumFunctionOnSet(r, first(n)) = SumFunctionOnSet(r, first(n - 1)) + c[n].obs.r
  <2>1. n - 1 \in 0..N
    BY DEF InTurn
  <2>2. IsFiniteSet(first(n - 1)) /\ \A x \in first(n - 1) \cup {c[n]} : r[x] \in Int
    BY <1>1, <1>3, <1>4, <2>1, FS_Subset
  <2> PICK S : S = first(n - 1)
    OBVIOUS
  <2> PICK y : y = c[n]
    OBVIOUS
  <2>3. SumFunctionOnSet(r, S \cup {y}) = SumFunctionOnSet(r, S) + r[y]
    <3>1. IsFiniteSet(S) /\ y \notin S /\ \A x \in S \cup {y} : r[x] \in Int
      BY <1>4, <2>2
    <3> QED BY <3>1, SumAdd
  <2> QED BY <1>4, <2>3
<1>8. \A n \in 1..N : n \in 0..N /\ n - 1 \in 0..N
  BY DEF InTurn
<1>9. 0 \in 0..N
  BY DEF InTurn
<1> QED BY <1>2, <1>5, <1>6, <1>7, <1>8, <1>9, SumEmpty

\* m is the largest of the falls from one level of E to a later one, or to itself.
Deepest(E, n, m) ==
    /\ \E j \in 0..n : \E k \in 0..j : m = E[k] - E[j]
    /\ \A j \in 0..n : \A k \in 0..j : E[k] - E[j] <= m
Highest(E, n, m) ==
    /\ \E k \in 0..n : m = E[k]
    /\ \A k \in 0..n : E[k] <= m

\* One result after the other, the curve keeps the equity, its peak and its deepest fall.
LEMMA EquityIs ==
    ASSUME NEW R, Results(R), NEW c, NEW N, InTurn(R, c, N),
           NEW E, \A n \in 0..N : E[n] = FirstSum(R, c, n)
    PROVE  Deepest(E, N, Equity(c).drawdown)
<1>1. N \in Nat /\ Len(c) = N
  BY DEF InTurn
<1>2. PICK f : Sums(f, c) /\ Equity(c) = f[N]
  BY <1>1, EquityTrace
<1>3. /\ E[0] = 0 /\ \A n \in 0..N : E[n] \in Int
      /\ \A n \in 1..N : E[n] = E[n - 1] + c[n].obs.r /\ c[n].obs.r \in Int
  <2>1. \A n \in 1..N : n \in 0..N /\ n - 1 \in 0..N /\ c[n] \in R
    BY <1>1 DEF InTurn
  <2>2. 0 \in 0..N
    BY <1>1
  <2> QED BY <2>1, <2>2, FirstSums DEF Results
<1> DEFINE G == {n \in 0..N : /\ f[n].equity = E[n] /\ f[n].peak \in Int /\ f[n].drawdown \in Int
                              /\ Highest(E, n, f[n].peak) /\ Deepest(E, n, f[n].drawdown)}
<1>4. 0 \in G
  <2>1. f[0] = NoEquity
    BY <1>1, <1>2 DEF Sums
  <2>2. f[0].equity = 0 /\ f[0].peak = 0 /\ f[0].drawdown = 0
    BY <2>1 DEF NoEquity
  <2> QED BY <1>1, <1>3, <2>2 DEF Highest, Deepest
<1>5. ASSUME NEW n \in 1..N, n - 1 \in G
      PROVE  n \in G
  <2>1. n \in Nat /\ n \in 0..N /\ n # 0 /\ n - 1 \in 0..N
    BY <1>1
  <2>2. f[n] = Realised(f[n - 1], c[n].obs.r)
    BY <1>1, <1>2, <2>1, Zenon DEF Sums
  <2>3. PICK p \in Int : p = f[n - 1].peak
    BY <1>5
  <2>4. PICK d \in Int : d = f[n - 1].drawdown
    BY <1>5
  <2>5. Highest(E, n - 1, p) /\ Deepest(E, n - 1, d) /\ f[n - 1].equity = E[n - 1]
    BY <1>5, <2>3, <2>4
  <2>6. PICK e \in Int : e = E[n]
    BY <1>3, <2>1
  <2>7. f[n - 1].equity + c[n].obs.r = e
    BY <1>3, <2>5, <2>6
  <2>8. PICK q \in Int : q = (IF p < e THEN e ELSE p) /\ Max({p, e}) = q
    BY LargerOf
  <2>9. PICK h \in Int : h = (IF d < q - e THEN q - e ELSE d) /\ Max({d, q - e}) = h
    <3>1. q - e \in Int
      OBVIOUS
    <3> QED BY <3>1, LargerOf
  <2>10. f[n] = [equity |-> e, peak |-> q, drawdown |-> h]
    BY <2>2, <2>3, <2>4, <2>7, <2>8, <2>9 DEF Realised
  <2>11. \A j \in 0..n : j = n \/ j \in 0..(n - 1)
    BY <2>1
  <2>12. \A j \in 0..(n - 1) : j \in 0..n /\ j \in 0..N
    BY <1>1, <2>1
  <2>13. Highest(E, n, q)
    <3>1. \A k \in 0..n : E[k] <= q
      BY <1>3, <2>5, <2>6, <2>8, <2>11, <2>12 DEF Highest
    <3>2. \E k \in 0..n : q = E[k]
      <4>1. CASE p < e
        BY <2>1, <2>6, <2>8, <4>1
      <4>2. CASE ~(p < e)
        BY <2>5, <2>8, <2>12, <4>2 DEF Highest
      <4> QED BY <4>1, <4>2
    <3> QED BY <3>1, <3>2 DEF Highest
  <2>14. Deepest(E, n, h)
    <3>1. ASSUME NEW j \in 0..n, NEW k \in 0..j
          PROVE  E[k] - E[j] <= h
      <4>1. CASE j = n
        <5>1. E[k] \in Int /\ E[k] <= q
          <6>1. k \in 0..n /\ k \in 0..N
            BY <1>1, <2>1, <4>1
          <6> QED BY <1>3, <2>13, <6>1 DEF Highest
        <5> QED BY <2>6, <2>9, <4>1, <5>1
      <4>2. CASE j # n
        <5>1. j \in 0..(n - 1) /\ j \in 0..N /\ k \in 0..N
          BY <1>1, <2>1, <4>2
        <5>2. E[k] - E[j] <= d /\ E[k] \in Int /\ E[j] \in Int
          BY <1>3, <2>5, <5>1 DEF Deepest
        <5> QED BY <2>9, <5>2
      <4> QED BY <4>1, <4>2
    <3>2. \E j \in 0..n : \E k \in 0..j : h = E[k] - E[j]
      <4>1. CASE d < q - e
        <5>1. PICK k \in 0..n : q = E[k]
          BY <2>13 DEF Highest
        <5> QED BY <2>1, <2>6, <2>9, <4>1, <5>1
      <4>2. CASE ~(d < q - e)
        BY <2>5, <2>9, <2>12, <4>2 DEF Deepest
      <4> QED BY <4>1, <4>2
    <3> QED BY <3>1, <3>2 DEF Deepest
  <2> QED BY <2>1, <2>6, <2>10, <2>13, <2>14
<1>6. N \in G
  <2> HIDE DEF G
  <2>1. \A n \in 1..N : n - 1 \in G => n \in G
    BY <1>5
  <2>2. \A n \in 0..N : n \in G
    BY <1>1, <1>4, <2>1, AfterEvery
  <2> QED BY <1>1, <2>2
<1> QED BY <1>2, <1>6

\* The equity once x has closed, and the falls of the curve below an earlier level.
UpTo(R, x) == {y \in R : y.obs.closed < x.obs.closed \/ (y.obs.closed = x.obs.closed /\ y.id <= x.id)}
Level(R, x) == SumFunctionOnSet([y \in R |-> y.obs.r], UpTo(R, x))
Falls(R) == {0} \cup {0 - Level(R, y) : y \in R}
                \cup {Level(R, xy[1]) - Level(R, xy[2]) : xy \in {p \in R \X R : p[2] # p[1] /\ p[1] \in UpTo(R, p[2])}}

\* Up to a result are the first results of the curve, and before it those with a smaller rank.
LEMMA UpToIs ==
    ASSUME NEW R, Results(R), NEW c, NEW N, InTurn(R, c, N)
    PROVE  /\ \A n \in 1..N : Level(R, c[n]) = FirstSum(R, c, n)
           /\ \A m, n \in 1..N : c[n] # c[m] /\ c[m] \in UpTo(R, c[n]) <=> m < n
<1>1. ASSUME NEW x \in R, NEW y \in R
      PROVE  y \in UpTo(R, x) <=> y = x \/ Chronological(y, x)
  BY DEF Results, UpTo, Chronological
<1>2. ASSUME NEW m \in 1..N, NEW n \in 1..N
      PROVE  c[m] \in R /\ c[n] \in R /\ (Chronological(c[m], c[n]) <=> m < n) /\ (c[m] = c[n] => m = n)
  BY DEF InTurn
<1>3. ASSUME NEW n \in 1..N
      PROVE  UpTo(R, c[n]) = {c[m] : m \in 1..n}
  <2>1. n \in Nat /\ N \in Nat /\ c[n] \in R
    BY DEF InTurn
  <2>2. ASSUME NEW y \in UpTo(R, c[n])
        PROVE  y \in {c[m] : m \in 1..n}
    <3>1. y \in R
      BY DEF UpTo
    <3>2. PICK m \in 1..N : c[m] = y
      BY <3>1 DEF InTurn
    <3>3. m = n \/ m < n
      BY <1>1, <1>2, <2>1, <3>1, <3>2
    <3> QED BY <2>1, <3>2, <3>3
  <2>3. ASSUME NEW m \in 1..n
        PROVE  c[m] \in UpTo(R, c[n])
    <3>1. m \in 1..N /\ (m = n \/ m < n)
      BY <2>1
    <3> QED BY <1>1, <1>2, <3>1
  <2> QED BY <2>2, <2>3
<1>4. \A n \in 1..N : Level(R, c[n]) = FirstSum(R, c, n)
  BY <1>3 DEF Level, FirstSum
<1>5. ASSUME NEW m \in 1..N, NEW n \in 1..N
      PROVE  c[n] # c[m] /\ c[m] \in UpTo(R, c[n]) <=> m < n
  <2>1. m < n => c[m] # c[n]
    BY <1>2 DEF InTurn
  <2> QED BY <1>1, <1>2, <2>1
<1> QED BY <1>4, <1>5

\* The curve's drawdown is the deepest fall, in whatever order the falls are listed.
LEMMA DrawdownIs ==
    ASSUME NEW R, Results(R)
    PROVE  Equity(Curve(R)).drawdown = Max(Falls(R))
<1>1. PICK N : N = Cardinality(R)
  OBVIOUS
<1>2. PICK c : c = Curve(R)
  OBVIOUS
<1>3. InTurn(R, c, N) /\ N \in Nat
  BY <1>1, <1>2, CurveInTurn DEF InTurn
<1>4. PICK E : E = [n \in 0..N |-> FirstSum(R, c, n)]
  OBVIOUS
<1>5. PICK D : D = Equity(c).drawdown
  OBVIOUS
<1>6. Deepest(E, N, D)
  BY <1>3, <1>4, <1>5, EquityIs
<1>7. E[0] = 0 /\ \A n \in 0..N : E[n] \in Int
  BY <1>3, <1>4, FirstSums
<1>8. /\ \A n \in 1..N : c[n] \in R /\ Level(R, c[n]) = E[n]
      /\ \A x \in R : \E n \in 1..N : c[n] = x
      /\ \A m, n \in 1..N : c[n] # c[m] /\ c[m] \in UpTo(R, c[n]) <=> m < n
  <2>1. \A n \in 1..N : n \in 0..N
    BY <1>3
  <2>2. /\ \A n \in 1..N : Level(R, c[n]) = FirstSum(R, c, n)
        /\ \A m, n \in 1..N : c[n] # c[m] /\ c[m] \in UpTo(R, c[n]) <=> m < n
    BY <1>3, UpToIs
  <2>3. (\A n \in 1..N : c[n] \in R) /\ \A x \in R : \E n \in 1..N : c[n] = x
    BY <1>3 DEF InTurn
  <2>4. \A n \in 1..N : Level(R, c[n]) = E[n]
    BY ONLY <1>4, <2>1, <2>2
  <2> QED BY ONLY <2>2, <2>3, <2>4
<1>9. D \in Falls(R)
  <2>1. PICK j \in 0..N : \E k \in 0..j : D = E[k] - E[j]
    BY <1>6 DEF Deepest
  <2> PICK k \in 0..j : D = E[k] - E[j]
    BY <2>1
  <2>2. k \in 0..N /\ E[k] \in Int /\ E[j] \in Int
    BY <1>3, <1>7, <2>1
  <2>3. CASE k = j
    BY <2>1, <2>2, <2>3 DEF Falls
  <2>4. CASE k # j /\ k = 0
    <3>1. j \in 1..N
      BY <1>3, <2>4
    <3>2. D = 0 - Level(R, c[j]) /\ c[j] \in R
      BY <1>7, <1>8, <2>1, <2>4, <3>1
    <3> QED BY <3>2 DEF Falls
  <2>5. CASE k # j /\ k # 0
    <3>1. j \in 1..N /\ k \in 1..N /\ k < j
      BY <1>3, <2>1, <2>5
    <3>2. PICK p : p = << c[k], c[j] >>
      OBVIOUS
    <3>3. p \in R \X R /\ p[2] # p[1] /\ p[1] \in UpTo(R, p[2])
      BY <1>8, <3>1, <3>2
    <3>4. D = Level(R, p[1]) - Level(R, p[2])
      BY <1>8, <2>1, <3>1, <3>2
    <3> QED BY <3>3, <3>4 DEF Falls
  <2> QED BY <2>3, <2>4, <2>5
<1>10. D \in Int /\ \A e \in Falls(R) : e \in Int /\ e <= D
  <2>1. \A j \in 0..N : \A k \in 0..j : E[k] - E[j] <= D
    BY <1>6 DEF Deepest
  <2>2. D \in Int
    <3>1. PICK j \in 0..N : \E k \in 0..j : D = E[k] - E[j]
      BY <1>6 DEF Deepest
    <3> PICK k \in 0..j : D = E[k] - E[j]
      BY <3>1
    <3>2. k \in 0..N /\ E[k] \in Int /\ E[j] \in Int
      BY <1>3, <1>7, <3>1
    <3> QED BY <3>1, <3>2
  <2>3. 0 <= D
    BY <1>3, <1>7, <2>1
  <2>4. ASSUME NEW y \in R
        PROVE  0 - Level(R, y) \in Int /\ 0 - Level(R, y) <= D
    <3>1. PICK n \in 1..N : c[n] = y
      BY <1>8
    <3>2. n \in 0..N /\ 0 \in 0..n
      BY <1>3
    <3>3. E[0] - E[n] <= D /\ E[n] \in Int
      BY <1>7, <2>1, <3>2
    <3> QED BY <1>7, <1>8, <3>1, <3>3
  <2>5. ASSUME NEW p \in R \X R, p[2] # p[1], p[1] \in UpTo(R, p[2])
        PROVE  Level(R, p[1]) - Level(R, p[2]) \in Int /\ Level(R, p[1]) - Level(R, p[2]) <= D
    <3>1. PICK m \in 1..N : c[m] = p[1]
      BY <1>8
    <3>2. PICK n \in 1..N : c[n] = p[2]
      BY <1>8
    <3>3. m < n
      BY <1>8, <2>5, <3>1, <3>2
    <3>4. n \in 0..N /\ m \in 0..n /\ m \in 0..N
      BY <1>3, <3>3
    <3>5. E[m] - E[n] <= D /\ E[m] \in Int /\ E[n] \in Int
      BY <1>7, <2>1, <3>4
    <3>6. Level(R, p[1]) = E[m] /\ Level(R, p[2]) = E[n]
      BY <1>8, <3>1, <3>2
    <3> QED BY <3>5, <3>6
  <2> QED BY <2>2, <2>3, <2>4, <2>5 DEF Falls
<1>11. PICK F : F = Falls(R)
  OBVIOUS
<1>12. Max(F) \in F /\ \A e \in F : Max(F) >= e
  <2>1. D \in F /\ \A e \in F : D >= e
    BY <1>9, <1>10, <1>11
  <2> QED BY <2>1 DEF Max
<1>13. Max(F) = D
  <2>1. D \in Int /\ D \in F /\ \A e \in F : e \in Int /\ e <= D
    BY <1>9, <1>10, <1>11
  <2>2. PICK x : x = Max(F)
    OBVIOUS
  <2>3. x \in Int /\ x <= D /\ x >= D
    BY <1>12, <2>1, <2>2
  <2> QED BY <2>1, <2>2, <2>3
<1> QED BY <1>2, <1>5, <1>11, <1>13

\* Every execution a runtime holds can be added up.
PricedOK == \A i \in Ids : Priced(runtimes[i].execution)

\* Nothing was executed yet; what an evaluation executes is priced, and is kept.
LEMMA PricedInvariance == Spec => [](EngineInv /\ PricedOK)
<1>1. Init => PricedOK
  <2> SUFFICES ASSUME Init PROVE PricedOK
    OBVIOUS
  <2>1. NoRuntime.execution = NoExit
    BY DEF NoRuntime
  <2> QED BY <2>1 DEF Init, PricedOK, Priced
<1>2. EngineInv /\ PricedOK /\ [Next]_vars => PricedOK'
  <2> SUFFICES ASSUME EngineInv, PricedOK, [Next]_vars PROVE PricedOK'
    OBVIOUS
  <2>1. CASE UNCHANGED runtimes
    BY <2>1 DEF PricedOK
  <2>2. CASE Evaluated
    <3> SUFFICES ASSUME NEW i \in Ids PROVE Priced(runtimes'[i].execution)
      BY DEF PricedOK
    <3>1. CASE runtimes'[i] = NoRuntime
      BY <3>1 DEF NoRuntime, Priced
    <3>2. CASE GoesOn(i, runtimes'[i])
      BY <3>2 DEF GoesOn, PricedOK
    <3> QED BY <2>2, <3>1, <3>2 DEF Evaluated
  <2> QED BY <2>1, <2>2, EngineStep, EvaluateShape
<1> QED BY <1>1, <1>2, EngineInit, EngineKept, PTL DEF Spec

\* The trades of a run that have a result can be put in order and added up.
LEMMA TradesResult ==
    ASSUME PricedOK
    PROVE  Results({x \in Observed(DOMAIN Trades) : x.obs.outcome # "NULL"})
<1> DEFINE ids == DOMAIN Trades
           observed(i) == [id |-> i, obs |-> BacktestFinancialObservation(Trades[i])]
<1>1. PICK R : R = {x \in Observed(ids) : x.obs.outcome # "NULL"}
  OBVIOUS
<1>2. ids \in SUBSET Ids /\ IsFiniteSet(Ids) /\ Ids \in SUBSET Int
  BY SignalsAssumption DEF Trades, Ids
<1>3. ASSUME NEW i \in ids
      PROVE  Trades[i] = ToTrade(runtimes[i]) /\ Priced(runtimes[i].execution)
  BY <1>2 DEF Trades, PricedOK
<1>4. IsFiniteSet(ids)
  BY <1>2, FS_Subset
<1>5. Observed(ids) = {observed(i) : i \in ids}
  BY DEF Observed
<1> HIDE DEF ids
<1>6. IsFiniteSet(Observed(ids))
  <2> HIDE DEF observed
  <2>1. IsFiniteSet({observed(i) : i \in ids})
    <3> DEFINE f == [i \in ids |-> observed(i)]
    <3>1. {observed(i) : i \in ids} = {f[i] : i \in ids} /\ f \in [ids -> {f[i] : i \in ids}]
      OBVIOUS
    <3> HIDE DEF f
    <3>2. f \in Surjection(ids, {f[i] : i \in ids})
      BY <3>1 DEF Surjection
    <3>3. IsFiniteSet({f[i] : i \in ids})
      BY <1>4, <3>2, FS_Surjection
    <3> QED BY <3>1, <3>3
  <2> QED BY <1>5, <2>1
<1>7. IsFiniteSet(R)
  BY <1>1, <1>6, FS_Subset
<1>8. ASSUME NEW x \in R
      PROVE  x.id \in ids /\ x = observed(x.id) /\ x.obs.closed \in Int /\ x.obs.r \in Int
  <2>1. PICK i \in ids : x = observed(i)
    BY <1>1, <1>5
  <2>2. PICK e : e = runtimes[i].execution
    OBVIOUS
  <2>3. PICK trade : trade = ToTrade(runtimes[i])
    OBVIOUS
  <2>4. x.id = i /\ x.obs = BacktestFinancialObservation(trade)
    BY <1>3, <2>1, <2>3
  <2>5. trade.execution = e /\ (e # NoExit => trade.closed = e.at)
    BY <2>2, <2>3 DEF ToTrade
  <2>6. /\ x.obs.outcome = (IF e = NoExit THEN "NULL" ELSE e.outcome)
        /\ x.obs.r = (IF e = NoExit THEN 0 ELSE NetR(e)) /\ x.obs.closed = trade.closed
    BY <2>4, <2>5 DEF BacktestFinancialObservation, Observation
  <2>7. e # NoExit
    BY <1>1, <2>6
  <2>8. e.planned \in Nat \ {0} /\ e.net \in Int /\ e.at \in Int
    BY <1>3, <2>2, <2>7 DEF Priced
  <2>9. NetR(e) \in Int
    BY <2>8 DEF NetR, RUnit
  <2> QED BY <2>1, <2>4, <2>5, <2>6, <2>7, <2>8, <2>9
<1>9. \A x, y \in R : x.id = y.id => x = y
  BY <1>8
<1>10. Results(R)
  BY <1>2, <1>7, <1>8, <1>9 DEF Results
<1> QED BY <1>1, <1>10 DEF ids

\* The drawdown a backtest reports is the deepest fall of its realised equity below an
\* earlier level, trades taken in the order they closed, whatever signals it had
\* (summarize_financial_observations).
THEOREM DrawdownExact == Spec => []DrawdownIsExact
<1>1. ASSUME PricedOK
      PROVE  DrawdownIsExact
  <2>1. PICK R : R = {x \in Observed(DOMAIN Trades) : x.obs.outcome # "NULL"}
    OBVIOUS
  <2>2. Equity(Curve(R)).drawdown = Max(Falls(R))
    BY <1>1, <2>1, TradesResult, DrawdownIs
  <2>3. Summarize(Observed(DOMAIN Trades)).drawdown = Equity(Curve(R)).drawdown
    BY <2>1 DEF Summarize
  <2> QED BY <2>1, <2>2, <2>3 DEF DrawdownIsExact, Falls, Level, UpTo
<1> QED BY <1>1, PricedInvariance, PTL

-----------------------------------------------------------------------------
(* The price and the outcomes it leaves possible *)

Levels(s) == Numbers(s) /\ LevelsHold(s)
States == {"WAITING", "ACTIVE", "WIN", "LOSS"}

\* A range of prices, and the levels of a signal in it.
MeetsTarget(s, l, h) == IF s.dir = "LONG" THEN h >= s.tp ELSE l <= s.tp
MeetsStop(s, l, h) == IF s.dir = "LONG" THEN l <= s.sl ELSE h >= s.sl
MeetsZone(s, l, h) == l <= s.high /\ h >= s.low

\* The larger and the smaller of two numbers.
LEMMA OfTwo ==
    ASSUME NEW a \in Int, NEW b \in Int
    PROVE  /\ Max({a, b}) = IF a >= b THEN a ELSE b
           /\ Min({a, b}) = IF a <= b THEN a ELSE b
<1>1. Max({a, b}) = IF a >= b THEN a ELSE b
  <2>1. CASE a >= b
    BY <2>1 DEF Max
  <2>2. CASE b > a
    BY <2>2 DEF Max
  <2> QED BY <2>1, <2>2
<1>2. Min({a, b}) = IF a <= b THEN a ELSE b
  <2>1. CASE a <= b
    BY <2>1 DEF Min
  <2>2. CASE b < a
    BY <2>2 DEF Min
  <2> QED BY <2>1, <2>2
<1> QED BY <1>1, <1>2

\* The levels in their order.
Ordered(s) ==
    /\ s.low <= s.high
    /\ \/ s.dir = "LONG" /\ s.sl < s.low /\ s.high < s.tp
       \/ s.dir = "SHORT" /\ s.tp < s.low /\ s.high < s.sl

\* A signal's levels are in that order.
LEMMA LevelsOrdered ==
    ASSUME NEW s, Levels(s)
    PROVE  Ordered(s)
BY DEF Levels, LevelsHold, Ordered, Numbers

\* What becomes of a state when the price moves from a to b, both between l and h.
Moved(s, st, a, b, l, h, r) ==
    /\ r \in States
    /\ st \in {"WIN", "LOSS"} => r = st
    /\ st # "WAITING" => r # "WAITING"
    /\ r = "WIN" => st = "WIN" \/ MeetsTarget(s, l, h)
    /\ r = "LOSS" => st = "LOSS" \/ MeetsStop(s, l, h)
    /\ r = "ACTIVE" => ~MeetsTarget(s, b, b) /\ ~MeetsStop(s, b, b)
    /\ r = "WAITING" => (a < s.low /\ b < s.low) \/ (a > s.high /\ b > s.high)
    /\ st = "WAITING" /\ ~MeetsZone(s, l, h) => r = "WAITING"
    /\ st = "ACTIVE" /\ MeetsTarget(s, b, b) => r = "WIN"
    /\ st = "ACTIVE" /\ ~MeetsTarget(s, a, a) /\ MeetsStop(s, b, b) => r = "LOSS"
    /\ st = "ACTIVE" /\ a = b /\ ~MeetsTarget(s, b, b) /\ ~MeetsStop(s, b, b) => r = "ACTIVE"
    /\ st = "WAITING" /\ a = b /\ s.low <= b /\ b <= s.high => r = "ACTIVE"

\* A move does that.
LEMMA MoveIs ==
    ASSUME NEW s, Levels(s), NEW st \in States, NEW a \in Int, NEW b \in Int, NEW l \in Int, NEW h \in Int,
           l <= a, a <= h, l <= b, b <= h, NEW r, r = Move(s, st, a, b)
    PROVE  Moved(s, st, a, b, l, h, r)
<1>1. /\ s.low \in Int /\ s.high \in Int /\ s.tp \in Int /\ s.sl \in Int /\ Ordered(s)
  BY LevelsOrdered DEF Levels, Numbers
<1>2. PICK clamp \in Int : clamp = IF a < s.low THEN s.low ELSE IF a > s.high THEN s.high ELSE a
  BY <1>1
<1>3. Max({s.low, Min({s.high, a})}) = clamp
  <2>1. PICK m \in Int : m = Min({s.high, a}) /\ m = IF s.high <= a THEN s.high ELSE a
    BY <1>1, OfTwo
  <2>2. Max({s.low, m}) = IF s.low >= m THEN s.low ELSE m
    BY <1>1, <2>1, OfTwo
  <2>3. (IF s.low >= m THEN s.low ELSE m) = clamp
    BY <1>1, <1>2, <2>1 DEF Ordered
  <2>4. Max({s.low, Min({s.high, a})}) = Max({s.low, m})
    BY <2>1
  <2> QED BY <2>2, <2>3, <2>4
<1>4. PICK from \in Int : from = IF st = "ACTIVE" THEN a ELSE clamp
  BY <1>2
<1>5. PICK low \in Int : low = Min({from, b}) /\ low = IF from <= b THEN from ELSE b
  BY <1>4, OfTwo
<1>6. PICK high \in Int : high = Max({from, b}) /\ high = IF from >= b THEN from ELSE b
  BY <1>4, OfTwo
<1>7. PICK lo \in Int : lo = Min({a, b}) /\ lo = IF a <= b THEN a ELSE b
  BY OfTwo
<1>8. PICK hi \in Int : hi = Max({a, b}) /\ hi = IF a >= b THEN a ELSE b
  BY OfTwo
<1>9. r = IF st \in {"WIN", "LOSS"} \/ (st = "WAITING" /\ ~(lo <= s.high /\ hi >= s.low)) THEN st
          ELSE IF (IF s.dir = "LONG" THEN high >= s.tp ELSE low <= s.tp) THEN "WIN"
          ELSE IF (IF s.dir = "LONG" THEN low <= s.sl ELSE high >= s.sl) THEN "LOSS" ELSE "ACTIVE"
  BY <1>3, <1>4, <1>5, <1>6, <1>7, <1>8 DEF Move
<1>10. CASE st \in {"WIN", "LOSS"}
  BY <1>9, <1>10 DEF Moved, States
<1>11. CASE st = "WAITING"
  <2>1. CASE ~(lo <= s.high /\ hi >= s.low)
    BY <1>1, <1>7, <1>8, <1>9, <1>11, <2>1 DEF Moved, States, MeetsZone
  <2>2. CASE lo <= s.high /\ hi >= s.low
    <3>1. l <= low /\ high <= h /\ low <= b /\ b <= high
      BY <1>1, <1>2, <1>4, <1>5, <1>6, <1>7, <1>8, <1>11, <2>2
    <3>2. MeetsZone(s, l, h)
      BY <1>1, <1>7, <1>8, <2>2 DEF MeetsZone
    <3>3. a = b /\ s.low <= b /\ b <= s.high => low = b /\ high = b
      BY <1>1, <1>2, <1>4, <1>5, <1>6, <1>11
    <3> QED BY <1>1, <1>9, <1>11, <2>2, <3>1, <3>2, <3>3 DEF Moved, States, MeetsTarget, MeetsStop, Ordered
  <2> QED BY <2>1, <2>2
<1>12. CASE st = "ACTIVE"
  BY <1>1, <1>4, <1>5, <1>6, <1>9, <1>12 DEF Moved, States, MeetsTarget, MeetsStop, Ordered
<1> QED BY <1>10, <1>11, <1>12 DEF States

\* What becomes of a state when the price comes from p and meets the candle x, all of it
\* between l and h.
Walked(s, st, p, x, l, h, r) ==
    /\ r \in States
    /\ st \in {"WIN", "LOSS"} => r = st
    /\ st # "WAITING" => r # "WAITING"
    /\ r = "WIN" => st = "WIN" \/ MeetsTarget(s, l, h)
    /\ r = "LOSS" => st = "LOSS" \/ MeetsStop(s, l, h)
    /\ r = "ACTIVE" /\ st = "ACTIVE" => ~MeetsTarget(s, x.l, x.h) /\ ~MeetsStop(s, x.l, x.h)
    /\ r = "WAITING" => (p < s.low /\ x.h < s.low) \/ (p > s.high /\ x.l > s.high)
    /\ st = "WAITING" /\ ~MeetsZone(s, l, h) => r = "WAITING"
    /\ st = "ACTIVE" /\ MeetsTarget(s, x.o, x.o) => r = "WIN"
    /\ st = "ACTIVE" /\ p = x.o /\ MeetsStop(s, x.o, x.o) => r = "LOSS"
Within(x, l, h) == /\ x.o \in Int /\ x.h \in Int /\ x.l \in Int /\ x.c \in Int /\ l \in Int /\ h \in Int
                   /\ x.l <= x.o /\ x.o <= x.h /\ x.l <= x.c /\ x.c <= x.h /\ l <= x.l /\ x.h <= h

\* Walking through a candle does that.
LEMMA WalkIs ==
    ASSUME NEW s, Levels(s), NEW st \in States, NEW p \in Int, NEW x, NEW l, NEW h, Within(x, l, h),
           l <= p, p <= h, NEW r \in Walk(s, st, p, x)
    PROVE  Walked(s, st, p, x, l, h, r)
<1>1. PICK y \in Int, z \in Int :
         /\ r = Move(s, Move(s, Move(s, Move(s, st, p, x.o), x.o, y), y, z), z, x.c)
         /\ (y = x.h /\ z = x.l) \/ (y = x.l /\ z = x.h)
  BY DEF Walk, Within
<1>2. /\ l <= x.o /\ x.o <= h /\ l <= x.c /\ x.c <= h /\ l <= y /\ y <= h /\ l <= z /\ z <= h
      /\ x.o \in Int /\ x.c \in Int /\ l \in Int /\ h \in Int
  BY <1>1 DEF Within
<1>3. PICK s1 : s1 = Move(s, st, p, x.o)
  OBVIOUS
<1>4. PICK s2 : s2 = Move(s, s1, x.o, y)
  OBVIOUS
<1>5. PICK s3 : s3 = Move(s, s2, y, z)
  OBVIOUS
<1>6. Moved(s, st, p, x.o, l, h, s1)
  BY <1>2, <1>3, MoveIs
<1>7. Moved(s, s1, x.o, y, l, h, s2)
  BY <1>2, <1>4, <1>6, MoveIs DEF Moved
<1>8. Moved(s, s2, y, z, l, h, s3)
  <2>1. s2 \in States
    BY <1>7 DEF Moved
  <2> QED BY <1>2, <1>5, <2>1, MoveIs
<1>9. Moved(s, s3, z, x.c, l, h, r)
  <2>1. r = Move(s, s3, z, x.c)
    BY <1>1, <1>3, <1>4, <1>5
  <2> QED BY <1>2, <2>1, <1>8, MoveIs DEF Moved
<1>10. Ordered(s) /\ s.low \in Int /\ s.high \in Int /\ s.tp \in Int /\ s.sl \in Int
  BY LevelsOrdered DEF Levels, Numbers
<1>11. /\ r \in States
       /\ st \in {"WIN", "LOSS"} => r = st
       /\ st # "WAITING" => r # "WAITING"
       /\ r = "WIN" => st = "WIN" \/ MeetsTarget(s, l, h)
       /\ r = "LOSS" => st = "LOSS" \/ MeetsStop(s, l, h)
       /\ st = "WAITING" /\ ~MeetsZone(s, l, h) => r = "WAITING"
  BY <1>6, <1>7, <1>8, <1>9 DEF Moved
<1>12. st = "ACTIVE" /\ MeetsTarget(s, x.o, x.o) => r = "WIN"
  BY <1>6, <1>7, <1>8, <1>9 DEF Moved
<1>13. st = "ACTIVE" /\ p = x.o /\ MeetsStop(s, x.o, x.o) => r = "LOSS"
  <2>1. MeetsStop(s, x.o, x.o) => ~MeetsTarget(s, x.o, x.o)
    BY <1>2, <1>10 DEF MeetsStop, MeetsTarget, Ordered
  <2> QED BY <2>1, <1>6, <1>7, <1>8, <1>9 DEF Moved
<1>14. r = "ACTIVE" /\ st = "ACTIVE" => s1 = "ACTIVE" /\ s2 = "ACTIVE" /\ s3 = "ACTIVE"
  <2>1. /\ st = "ACTIVE" => s1 # "WAITING"
        /\ s1 # "WAITING" => s2 # "WAITING"
        /\ s2 # "WAITING" => s3 # "WAITING"
    BY <1>6, <1>7, <1>8 DEF Moved
  <2>2. /\ s1 \in {"WIN", "LOSS"} => s2 = s1
        /\ s2 \in {"WIN", "LOSS"} => s3 = s2
        /\ s3 \in {"WIN", "LOSS"} => r = s3
    BY <1>7, <1>8, <1>9 DEF Moved
  <2>3. s1 \in States /\ s2 \in States /\ s3 \in States
    BY <1>6, <1>7, <1>8 DEF Moved
  <2> QED BY ONLY <2>1, <2>2, <2>3 DEF States
<1>15. r = "ACTIVE" /\ st = "ACTIVE" => ~MeetsTarget(s, x.l, x.h) /\ ~MeetsStop(s, x.l, x.h)
  <2>1. s2 = "ACTIVE" => ~MeetsTarget(s, y, y) /\ ~MeetsStop(s, y, y)
    BY <1>7 DEF Moved
  <2>2. s3 = "ACTIVE" => ~MeetsTarget(s, z, z) /\ ~MeetsStop(s, z, z)
    BY <1>8 DEF Moved
  <2> QED BY <1>1, <1>14, <2>1, <2>2 DEF MeetsTarget, MeetsStop
<1>16. r = "WAITING" => s1 = "WAITING" /\ s2 = "WAITING" /\ s3 = "WAITING"
  BY <1>7, <1>8, <1>9 DEF Moved
<1>17. r = "WAITING" => (p < s.low /\ x.h < s.low) \/ (p > s.high /\ x.l > s.high)
  <2>1. s1 = "WAITING" => (p < s.low /\ x.o < s.low) \/ (p > s.high /\ x.o > s.high)
    BY <1>6 DEF Moved
  <2>2. s2 = "WAITING" => (x.o < s.low /\ y < s.low) \/ (x.o > s.high /\ y > s.high)
    BY <1>7 DEF Moved
  <2>3. s3 = "WAITING" => (y < s.low /\ z < s.low) \/ (y > s.high /\ z > s.high)
    BY <1>8 DEF Moved
  <2> QED BY <1>1, <1>2, <1>10, <1>16, <2>1, <2>2, <2>3 DEF Ordered
<1> QED BY <1>11, <1>12, <1>13, <1>15, <1>17 DEF Walked

\* An entry at the open is known to come before the candle's extremes.
LEMMA WalkFromZone ==
    ASSUME NEW s, Levels(s), NEW x, Within(x, x.l, x.h), s.low <= x.o, x.o <= s.high
    PROVE  Walk(s, "WAITING", x.o, x) = Walk(s, "ACTIVE", x.o, x)
<1>1. x.o \in Int /\ Ordered(s) /\ s.low \in Int /\ s.high \in Int /\ s.tp \in Int /\ s.sl \in Int
  BY LevelsOrdered DEF Within, Levels, Numbers
<1>2. ~MeetsTarget(s, x.o, x.o) /\ ~MeetsStop(s, x.o, x.o)
  BY <1>1 DEF MeetsTarget, MeetsStop, Ordered
<1>3. Moved(s, "WAITING", x.o, x.o, x.o, x.o, Move(s, "WAITING", x.o, x.o))
  BY <1>1, MoveIs DEF States
<1>4. Moved(s, "ACTIVE", x.o, x.o, x.o, x.o, Move(s, "ACTIVE", x.o, x.o))
  BY <1>1, MoveIs DEF States
<1>5. Move(s, "WAITING", x.o, x.o) = Move(s, "ACTIVE", x.o, x.o)
  BY <1>2, <1>3, <1>4 DEF Moved
<1> QED BY <1>5 DEF Walk

\* A position that a candle finds between its levels may lose whenever the candle
\* reaches the stop.
LEMMA WalkMayLose ==
    ASSUME NEW s, Levels(s), NEW x, Within(x, x.l, x.h), MeetsStop(s, x.l, x.h),
           ~MeetsTarget(s, x.o, x.o)
    PROVE  "LOSS" \in Walk(s, "ACTIVE", x.o, x)
<1>1. PICK y \in {x.l, x.h} : MeetsStop(s, y, y)
  BY DEF MeetsStop
<1>2. PICK z \in {x.l, x.h} : {y, z} = {x.l, x.h}
  OBVIOUS
<1>3. /\ x.l <= x.o /\ x.o <= x.h /\ x.l <= x.c /\ x.c <= x.h /\ x.l <= y /\ y <= x.h /\ x.l <= z /\ z <= x.h
      /\ x.o \in Int /\ x.c \in Int /\ x.l \in Int /\ x.h \in Int /\ y \in Int /\ z \in Int
  BY DEF Within
<1>4. PICK s1 : s1 = Move(s, "ACTIVE", x.o, x.o)
  OBVIOUS
<1>5. PICK s2 : s2 = Move(s, s1, x.o, y)
  OBVIOUS
<1>6. PICK s3 : s3 = Move(s, s2, y, z)
  OBVIOUS
<1>7. PICK r : r = Move(s, s3, z, x.c)
  OBVIOUS
<1>8. s1 \in {"ACTIVE", "LOSS"} /\ s1 \in States
  <2>1. Moved(s, "ACTIVE", x.o, x.o, x.o, x.o, s1)
    BY <1>3, <1>4, MoveIs DEF States
  <2> QED BY <2>1 DEF Moved, States
<1>9. s2 = "LOSS"
  <2>1. Moved(s, s1, x.o, y, x.l, x.h, s2)
    BY <1>3, <1>5, <1>8, MoveIs
  <2> QED BY <1>1, <1>8, <2>1 DEF Moved
<1>10. s3 = "LOSS"
  <2>1. Moved(s, s2, y, z, x.l, x.h, s3)
    BY <1>3, <1>6, <1>9, MoveIs DEF States
  <2> QED BY <1>9, <2>1 DEF Moved
<1>11. r = "LOSS"
  <2>1. Moved(s, s3, z, x.c, x.l, x.h, r)
    BY <1>3, <1>7, <1>10, MoveIs DEF States
  <2> QED BY <1>10, <2>1 DEF Moved
<1>12. (y = x.h /\ z = x.l) \/ (y = x.l /\ z = x.h)
  BY <1>1, <1>2
<1> QED BY <1>4, <1>5, <1>6, <1>7, <1>11, <1>12 DEF Walk

\* f is what the candles leave possible, one after the other.
Follows(f, s, cs, g, w, m) ==
    f = [n \in 0..m |-> IF n = 0 THEN {"WAITING"} ELSE Beyond(s, cs, g, w, f[n - 1], n)]

\* There is such a function, and its last value is what is possible.
LEMMA PossibleTrace ==
    ASSUME NEW s, NEW cs, NEW g, NEW w, NEW until \in Nat
    PROVE  \E f : Follows(f, s, cs, g, w, until) /\ Possible(s, cs, g, w, until) = f[until]
<1> DEFINE e(f, n) == IF n = 0 THEN {"WAITING"} ELSE Beyond(s, cs, g, w, f[n - 1], n)
           part(f, m) == f = [n \in 0..m |-> e(f, n)]
           bad == {m \in Nat : ~ \E f : part(f, m)}
<1>1. ASSUME NEW m \in Nat, m \in bad, \A j \in bad : m <= j
      PROVE  FALSE
  <2>1. PICK f : m > 0 => part(f, m - 1)
    <3>1. CASE m = 0
      BY <3>1
    <3>2. CASE m > 0
      <4>1. m - 1 \in Nat /\ ~(m <= m - 1)
        BY <3>2
      <4>2. m - 1 \notin bad
        <5> HIDE DEF bad
        <5> QED BY <4>1, <1>1
      <4> QED BY <4>1, <4>2
    <3> QED BY <3>1, <3>2
  <2> DEFINE h == [n \in 0..m |-> e(f, n)]
  <2>2. ASSUME NEW n \in 0..m
        PROVE  e(h, n) = e(f, n)
    <3>1. CASE n = 0
      BY <3>1
    <3>2. CASE n # 0
      <4>1. n - 1 \in 0..m /\ n - 1 \in 0..(m - 1) /\ m > 0
        BY <3>2
      <4>2. part(f, m - 1)
        BY <4>1, <2>1
      <4> HIDE DEF e
      <4>3. f[n - 1] = e(f, n - 1)
        BY <4>1, <4>2
      <4>4. h[n - 1] = e(f, n - 1)
        BY <4>1
      <4>5. h[n - 1] = f[n - 1]
        BY <4>3, <4>4
      <4> HIDE DEF h
      <4> QED BY <3>2, <4>5 DEF e
    <3> QED BY <3>1, <3>2
  <2> HIDE DEF e
  <2>3. part(h, m)
    <3>1. h = [n \in 0..m |-> e(h, n)]
      BY <2>2
    <3> QED BY <3>1
  <2>4. \E x : part(x, m)
    BY <2>3
  <2> QED BY <2>4, <1>1
<1>2. bad = {}
  <2> SUFFICES ASSUME bad # {} PROVE FALSE
    OBVIOUS
  <2>1. bad \in SUBSET Nat
    OBVIOUS
  <2> HIDE DEF bad
  <2>2. PICK m \in bad : \A j \in bad : m <= j
    BY <2>1, LeastNat
  <2> QED BY <2>1, <2>2, <1>1
<1>3. \E f : part(f, until)
  <2> HIDE DEF part
  <2> QED BY <1>2
<1>4. \E f : Follows(f, s, cs, g, w, until)
  BY <1>3 DEF Follows
<1> QED BY <1>4 DEF Follows, Possible

\* What n candles leave possible follows from what n - 1 do.
PossibleFrom(s, cs, g, w, m) ==
    /\ Possible(s, cs, g, w, 0) = {"WAITING"}
    /\ \A n \in 1..m : Possible(s, cs, g, w, n) = Beyond(s, cs, g, w, Possible(s, cs, g, w, n - 1), n)

\* It does, for every number of candles.
LEMMA PossibleGrows ==
    ASSUME NEW s, NEW cs, NEW g, NEW w, NEW m \in Nat
    PROVE  PossibleFrom(s, cs, g, w, m)
<1>1. Possible(s, cs, g, w, 0) = {"WAITING"}
  <2>1. PICK f : Follows(f, s, cs, g, w, 0) /\ Possible(s, cs, g, w, 0) = f[0]
    BY PossibleTrace
  <2> QED BY <2>1 DEF Follows
<1>2. ASSUME NEW n \in 1..m
      PROVE  Possible(s, cs, g, w, n) = Beyond(s, cs, g, w, Possible(s, cs, g, w, n - 1), n)
  <2>1. n \in Nat /\ n - 1 \in Nat /\ n # 0
    OBVIOUS
  <2>2. PICK f : Follows(f, s, cs, g, w, n) /\ Possible(s, cs, g, w, n) = f[n]
    BY <2>1, PossibleTrace
  <2>3. PICK h : Follows(h, s, cs, g, w, n - 1) /\ Possible(s, cs, g, w, n - 1) = h[n - 1]
    BY <2>1, PossibleTrace
  <2>4. PICK N \in Nat : N = n - 1
    BY <2>1
  <2> DEFINE G == {j \in 0..N : f[j] = h[j]}
  <2>5. 0 \in G
    BY <2>1, <2>2, <2>3, <2>4 DEF Follows
  <2>6. \A j \in 1..N : j - 1 \in G => j \in G
    <3> SUFFICES ASSUME NEW j \in 1..N, f[j - 1] = h[j - 1]
                 PROVE  f[j] = h[j]
      BY <2>4
    <3>1. j \in 0..n /\ j \in 0..(n - 1) /\ j # 0
      BY <2>4
    <3>2. f[j] = Beyond(s, cs, g, w, f[j - 1], j)
      BY <2>2, <3>1 DEF Follows
    <3>3. h[j] = Beyond(s, cs, g, w, h[j - 1], j)
      BY <2>3, <3>1 DEF Follows
    <3> QED BY <3>2, <3>3
  <2>7. \A j \in 0..N : j \in G
    <3> HIDE DEF G
    <3> QED BY <2>5, <2>6, AfterEvery
  <2>8. f[n - 1] = h[n - 1]
    BY <2>4, <2>7
  <2>9. f[n] = Beyond(s, cs, g, w, f[n - 1], n)
    <3>1. n \in 0..n /\ n # 0
      BY <2>1
    <3> QED BY <2>2, <3>1, Zenon DEF Follows
  <2> QED BY <2>2, <2>3, <2>8, <2>9
<1> QED BY <1>1, <1>2 DEF PossibleFrom

-----------------------------------------------------------------------------
(* The outcomes after each candle *)

IsCandle(x) == Within(x, x.l, x.h)

\* f is what the first m candles leave possible.
Outcomes(f, s, cs, g, w, m) ==
    /\ Levels(s) /\ g \in Nat \ {0} /\ w \in Nat \ {0} /\ m \in Nat
    /\ \A n \in 1..m : IsCandle(cs[n])
    /\ f[0] = {"WAITING"} /\ \A n \in 1..m : f[n] = Beyond(s, cs, g, w, f[n - 1], n)

\* The states in new come from those in old, and none of old is left out.
Steps(old, new, s, p, x, l, h) ==
    /\ \A r \in new : \E st \in old : Walked(s, st, p, x, l, h, r)
    /\ \A st \in old : \E r \in new : Walked(s, st, p, x, l, h, r)

\* A candle makes such a step.
LEMMA StepsOf ==
    ASSUME NEW s, Levels(s), NEW p \in Int, NEW x, NEW l, NEW h, Within(x, l, h), l <= p, p <= h,
           NEW old \in SUBSET States, NEW new, new = UNION {Walk(s, st, p, x) : st \in old}
    PROVE  Steps(old, new, s, p, x, l, h)
<1>1. ASSUME NEW r \in new
      PROVE  \E st \in old : Walked(s, st, p, x, l, h, r)
  <2>1. PICK st \in old : r \in Walk(s, st, p, x)
    OBVIOUS
  <2>2. st \in States
    OBVIOUS
  <2> QED BY <2>1, <2>2, WalkIs
<1>2. ASSUME NEW st \in old
      PROVE  \E r \in new : Walked(s, st, p, x, l, h, r)
  <2>1. PICK r : r \in Walk(s, st, p, x)
    BY DEF Walk
  <2>2. r \in new /\ st \in States
    BY <2>1
  <2> QED BY <2>1, <2>2, WalkIs
<1> QED BY <1>1, <1>2 DEF Steps

\* Where the price comes from when it meets candle n.
Before(cs, g, n) == IF n - 1 = ((n - 1) \div g) * g THEN cs[n].o ELSE cs[n - 1].c

\* What a candle does to the possible states: nothing before the signal may act.
LEMMA BeyondIs ==
    ASSUME NEW f, NEW s, NEW cs, NEW g, NEW w, NEW m, Outcomes(f, s, cs, g, w, m), NEW n \in 1..m
    PROVE  /\ Predates(s, ((n - 1) \div g) * g * w) => f[n] = f[n - 1]
           /\ ~Predates(s, ((n - 1) \div g) * g * w) =>
                 f[n] = UNION {Walk(s, st, Before(cs, g, n), cs[n]) : st \in f[n - 1]}
BY DEF Outcomes, Beyond, Before

\* The smallest range with the candle and where the price comes from.
LEMMA SomeRange ==
    ASSUME NEW f, NEW s, NEW cs, NEW g, NEW w, NEW m, Outcomes(f, s, cs, g, w, m), NEW n \in 1..m
    PROVE  \E p \in Int, l \in Int, h \in Int :
              p = Before(cs, g, n) /\ l <= p /\ p <= h /\ Within(cs[n], l, h)
<1>1. PICK p : p = Before(cs, g, n)
  OBVIOUS
<1>2. IsCandle(cs[n]) /\ (n - 1 # ((n - 1) \div g) * g => IsCandle(cs[n - 1]))
  <2>1. CASE n = 1
    <3>1. (n - 1) \div g = 0 /\ 0 * g = 0
      BY <2>1 DEF Outcomes
    <3> QED BY <2>1, <3>1 DEF Outcomes
  <2>2. CASE n # 1
    <3>1. n - 1 \in 1..m
      BY <2>2 DEF Outcomes
    <3> QED BY <3>1 DEF Outcomes
  <2> QED BY <2>1, <2>2
<1>3. p \in Int /\ cs[n].l \in Int /\ cs[n].h \in Int
  BY <1>1, <1>2 DEF IsCandle, Within, Before
<1>4. PICK l \in Int : l = IF p <= cs[n].l THEN p ELSE cs[n].l
  BY <1>3
<1>5. PICK h \in Int : h = IF p >= cs[n].h THEN p ELSE cs[n].h
  BY <1>3
<1>6. l <= p /\ p <= h /\ Within(cs[n], l, h)
  BY <1>2, <1>3, <1>4, <1>5 DEF IsCandle, Within
<1> QED BY <1>1, <1>3, <1>4, <1>5, <1>6

\* There is always some state.
LEMMA SomeState ==
    ASSUME NEW f, NEW s, NEW cs, NEW g, NEW w, NEW m, Outcomes(f, s, cs, g, w, m)
    PROVE  \A n \in 0..m : f[n] \in SUBSET States /\ f[n] # {}
<1> DEFINE G == {n \in 0..m : f[n] \in SUBSET States /\ f[n] # {}}
<1>1. 0 \in G /\ m \in Nat
  BY DEF Outcomes, States
<1>2. \A n \in 1..m : n - 1 \in G => n \in G
  <2> SUFFICES ASSUME NEW n \in 1..m, f[n - 1] \in SUBSET States, f[n - 1] # {}
               PROVE  f[n] \in SUBSET States /\ f[n] # {}
    BY <1>1
  <2>1. CASE Predates(s, ((n - 1) \div g) * g * w)
    BY <2>1, BeyondIs
  <2>2. CASE ~Predates(s, ((n - 1) \div g) * g * w)
    <3>1. PICK p \in Int, l \in Int, h \in Int :
             p = Before(cs, g, n) /\ l <= p /\ p <= h /\ Within(cs[n], l, h)
      BY SomeRange
    <3>2. f[n] = UNION {Walk(s, st, p, cs[n]) : st \in f[n - 1]}
      BY <2>2, <3>1, BeyondIs
    <3>3. Steps(f[n - 1], f[n], s, p, cs[n], l, h)
      <4>1. Levels(s)
        BY DEF Outcomes
      <4> QED BY <3>1, <3>2, <4>1, StepsOf
    <3> QED BY <3>3 DEF Steps, Walked
  <2> QED BY <2>1, <2>2
<1>3. \A n \in 0..m : n \in G
  <2> HIDE DEF G
  <2> QED BY <1>1, <1>2, AfterEvery
<1> QED BY <1>3

\* Each candle either changes nothing or makes a step.
LEMMA EachStep ==
    ASSUME NEW f, NEW s, NEW cs, NEW g, NEW w, NEW m, Outcomes(f, s, cs, g, w, m), NEW n \in 1..m
    PROVE  f[n] = f[n - 1] \/ \E p, l, h : Steps(f[n - 1], f[n], s, p, cs[n], l, h)
<1>1. CASE Predates(s, ((n - 1) \div g) * g * w)
  BY <1>1, BeyondIs
<1>2. CASE ~Predates(s, ((n - 1) \div g) * g * w)
  <2>1. PICK p \in Int, l \in Int, h \in Int :
           p = Before(cs, g, n) /\ l <= p /\ p <= h /\ Within(cs[n], l, h)
    BY SomeRange
  <2>2. f[n] = UNION {Walk(s, st, p, cs[n]) : st \in f[n - 1]}
    BY <1>2, <2>1, BeyondIs
  <2>3. f[n - 1] \in SUBSET States
    <3>1. n - 1 \in 0..m
      BY DEF Outcomes
    <3> QED BY <3>1, SomeState
  <2>4. Levels(s)
    BY DEF Outcomes
  <2>5. Steps(f[n - 1], f[n], s, p, cs[n], l, h)
    BY <2>1, <2>2, <2>3, <2>4, StepsOf
  <2> QED BY <2>5
<1> QED BY <1>1, <1>2

\* What was decided stays decided, what may be lost may stay lost, and what waits has
\* waited all along.
Persists(old, new) ==
    /\ \A r \in {"WIN", "LOSS"} : (old = {r} => new = {r}) /\ (r \in old => r \in new)
    /\ new = {"WAITING"} => old = {"WAITING"}

\* One candle keeps that.
LEMMA OneCandle ==
    ASSUME NEW f, NEW s, NEW cs, NEW g, NEW w, NEW m, Outcomes(f, s, cs, g, w, m), NEW n \in 1..m
    PROVE  Persists(f[n - 1], f[n])
<1>1. n - 1 \in 0..m /\ n \in 0..m
  BY DEF Outcomes
<1>2. f[n - 1] # {} /\ f[n] # {}
  BY <1>1, SomeState
<1>3. CASE f[n] = f[n - 1]
  BY <1>3 DEF Persists
<1>4. ASSUME NEW p, NEW l, NEW h, Steps(f[n - 1], f[n], s, p, cs[n], l, h)
      PROVE  Persists(f[n - 1], f[n])
  <2>1. ASSUME NEW r \in {"WIN", "LOSS"}, r \in f[n - 1]
        PROVE  r \in f[n]
    BY <1>4, <2>1 DEF Steps, Walked
  <2>2. ASSUME NEW r \in {"WIN", "LOSS"}, f[n - 1] = {r}
        PROVE  f[n] = {r}
    BY <1>2, <1>4, <2>2 DEF Steps, Walked
  <2>3. ASSUME f[n] = {"WAITING"}
        PROVE  f[n - 1] = {"WAITING"}
    <3>1. ASSUME NEW st \in f[n - 1]
          PROVE  st = "WAITING"
      BY <1>4, <2>3 DEF Steps, Walked
    <3> QED BY <1>2, <3>1
  <2> QED BY <2>1, <2>2, <2>3 DEF Persists
<1> QED BY <1>3, <1>4, EachStep

\* Any number of candles keep it.
LEMMA ManyCandles ==
    ASSUME NEW f, NEW s, NEW cs, NEW g, NEW w, NEW m, Outcomes(f, s, cs, g, w, m),
           NEW a \in 0..m, NEW b \in 0..m, a <= b
    PROVE  Persists(f[a], f[b])
<1>1. m \in Nat
  BY DEF Outcomes
<1>2. PICK N \in Nat : N = b - a
  BY <1>1
<1> DEFINE G == {j \in 0..N : Persists(f[a], f[a + j])}
<1>3. 0 \in G
  BY <1>1, <1>2 DEF Persists
<1>4. \A j \in 1..N : j - 1 \in G => j \in G
  <2> SUFFICES ASSUME NEW j \in 1..N, Persists(f[a], f[a + (j - 1)])
               PROVE  Persists(f[a], f[a + j])
    BY <1>2
  <2>1. a + j \in 1..m /\ (a + j) - 1 = a + (j - 1)
    BY <1>1, <1>2
  <2>2. Persists(f[(a + j) - 1], f[a + j])
    BY <2>1, OneCandle
  <2> QED BY <2>1, <2>2 DEF Persists
<1>5. N \in G
  <2> HIDE DEF G
  <2>1. \A j \in 0..N : j \in G
    BY <1>3, <1>4, AfterEvery
  <2> QED BY <1>2, <2>1
<1>6. a + N = b
  BY <1>1, <1>2
<1> QED BY <1>5, <1>6

-----------------------------------------------------------------------------
(* The candles of a bar *)

\* x is bar b of g candles.
IsBar(x, cs, g, b) ==
    /\ IsCandle(x) /\ x.o = cs[(b - 1) * g + 1].o
    /\ \A n \in ((b - 1) * g + 1)..(b * g) : Within(cs[n], x.l, x.h)
    /\ \E n \in ((b - 1) * g + 1)..(b * g) : cs[n].h = x.h
    /\ \E n \in ((b - 1) * g + 1)..(b * g) : cs[n].l = x.l

\* A bar the signal may act on.
OneBar(f, s, cs, g, w, m, b, x) ==
    /\ Outcomes(f, s, cs, g, w, m) /\ b \in Nat \ {0} /\ b * g <= m
    /\ IsBar(x, cs, g, b) /\ ~Predates(s, (b - 1) * g * w)

\* The candles of a bar.
LEMMA CandlesOfBar ==
    ASSUME NEW b \in Nat \ {0}, NEW g \in Nat \ {0}, NEW n \in ((b - 1) * g + 1)..(b * g)
    PROVE  /\ ((n - 1) \div g) * g = (b - 1) * g /\ n \in Nat /\ (b - 1) * g \in Nat /\ b * g = (b - 1) * g + g
<1>1. PICK lo \in Nat : lo = (b - 1) * g
  BY BarTimes
<1>2. b * g = lo + g /\ n - 1 \in Nat /\ lo <= n - 1 /\ n - 1 < lo + g /\ n \in Nat
  BY <1>1, BarTimes
<1>3. PICK q \in Nat : q = (n - 1) \div g
  BY <1>2, WholeBars
<1>4. q * g <= n - 1 /\ n - 1 < q * g + g
  BY <1>2, <1>3, WholeBars
<1>5. q * g \in Nat /\ b - 1 \in Nat
  BY BarsBefore
<1>6. b - 1 <= q
  <2>1. (b - 1) * g < q * g + g
    BY <1>1, <1>2, <1>4, <1>5
  <2> QED BY <1>3, <1>5, <2>1, NoMoreBars
<1>7. q <= b - 1
  <2>1. q * g < (b - 1) * g + g
    BY <1>1, <1>2, <1>4, <1>5
  <2> QED BY <1>3, <1>5, <2>1, NoMoreBars
<1>8. q = b - 1
  BY <1>5, <1>6, <1>7
<1> QED BY <1>1, <1>2, <1>3, <1>8

\* Inside a bar the price comes from the candle before, at its beginning from nowhere.
BarStep(f, s, cs, lo, n, x, p) ==
    /\ p = (IF n = lo + 1 THEN cs[n].o ELSE cs[n - 1].c) /\ p \in Int
    /\ f[n] = UNION {Walk(s, st, p, cs[n]) : st \in f[n - 1]}
    /\ f[n - 1] # {} /\ f[n] # {} /\ f[n - 1] \in SUBSET States
    /\ Within(cs[n], x.l, x.h)
    /\ Steps(f[n - 1], f[n], s, p, cs[n], x.l, x.h)

\* Each candle of the bar makes that step.
LEMMA StepOfBar ==
    ASSUME NEW f, NEW s, NEW cs, NEW g, NEW w, NEW m, NEW b, NEW x, OneBar(f, s, cs, g, w, m, b, x),
           NEW n \in ((b - 1) * g + 1)..(b * g)
    PROVE  \E p : BarStep(f, s, cs, (b - 1) * g, n, x, p)
<1>1. /\ Outcomes(f, s, cs, g, w, m) /\ b \in Nat \ {0} /\ g \in Nat \ {0} /\ b * g <= m /\ m \in Nat
      /\ IsBar(x, cs, g, b) /\ ~Predates(s, (b - 1) * g * w) /\ Levels(s)
  BY DEF OneBar, Outcomes
<1>2. PICK lo \in Nat : lo = (b - 1) * g
  BY <1>1, BarTimes
<1>3. ((n - 1) \div g) * g = lo /\ n \in Nat /\ b * g = lo + g
  BY <1>1, <1>2, CandlesOfBar
<1>12. PICK hi \in Nat : hi = b * g /\ hi = lo + g
  BY <1>1, <1>2, BarTimes
<1>13. n \in (lo + 1)..hi
  BY <1>2, <1>12
<1>4. n \in 1..m /\ n - 1 \in 0..m /\ n \in 0..m
  <2>1. hi <= m /\ m \in Nat
    BY <1>1, <1>12
  <2> QED BY ONLY <1>2, <1>12, <1>13, <2>1, lo \in Nat, hi \in Nat
<1>5. PICK p : p = IF n = lo + 1 THEN cs[n].o ELSE cs[n - 1].c
  OBVIOUS
<1>6. p = Before(cs, g, n)
  <2>1. n - 1 = lo <=> n = lo + 1
    BY <1>2, <1>3
  <2> QED BY <1>3, <1>5, <2>1 DEF Before
<1>7. f[n] = UNION {Walk(s, st, p, cs[n]) : st \in f[n - 1]}
  <2>1. ~Predates(s, ((n - 1) \div g) * g * w)
    BY <1>1, <1>2, <1>3
  <2>2. f[n] = UNION {Walk(s, st, Before(cs, g, n), cs[n]) : st \in f[n - 1]}
    BY <1>1, <1>4, <2>1, BeyondIs
  <2> QED BY <1>6, <2>2
<1>8. Within(cs[n], x.l, x.h)
  BY <1>1 DEF IsBar
<1>9. p \in Int /\ x.l <= p /\ p <= x.h
  <2>1. CASE n = lo + 1
    BY <1>5, <1>8, <2>1 DEF Within
  <2>2. CASE n # lo + 1
    <3>0. n - 1 \in (lo + 1)..hi
      BY ONLY <1>13, <2>2, lo \in Nat, hi \in Nat
    <3>1. n - 1 \in (lo + 1)..(b * g)
      BY <1>12, <3>0
    <3>2. Within(cs[n - 1], x.l, x.h)
      BY <1>1, <1>2, <3>1 DEF IsBar
    <3> QED BY <1>5, <2>2, <3>2 DEF Within
  <2> QED BY <2>1, <2>2
<1>10. f[n - 1] # {} /\ f[n] # {} /\ f[n - 1] \in SUBSET States
  BY <1>1, <1>4, SomeState
<1>11. Steps(f[n - 1], f[n], s, p, cs[n], x.l, x.h)
  BY <1>1, <1>7, <1>8, <1>9, <1>10, StepsOf
<1> QED BY <1>2, <1>5, <1>7, <1>8, <1>9, <1>10, <1>11 DEF BarStep

\* What holds before the first candle of a bar and after each holds after the last.
LEMMA ThroughBar ==
    ASSUME NEW b \in Nat \ {0}, NEW g \in Nat \ {0}, NEW G, (b - 1) * g \in G,
           \A n \in ((b - 1) * g + 1)..(b * g) : n - 1 \in G => n \in G
    PROVE  b * g \in G
<1>1. PICK lo \in Nat : lo = (b - 1) * g /\ b * g = lo + g
  BY BarTimes
<1> DEFINE H == {j \in 0..g : lo + j \in G}
<1>2. 0 \in H
  BY <1>1
<1>3. \A j \in 1..g : j - 1 \in H => j \in H
  <2> SUFFICES ASSUME NEW j \in 1..g, lo + (j - 1) \in G
               PROVE  lo + j \in G
    OBVIOUS
  <2>1. lo + j \in (lo + 1)..(lo + g) /\ (lo + j) - 1 = lo + (j - 1)
    BY <1>1
  <2> QED BY <1>1, <2>1
<1>4. g \in H
  <2> HIDE DEF H
  <2>1. \A j \in 0..g : j \in H
    BY <1>2, <1>3, AfterEvery
  <2> QED BY <2>1
<1> QED BY <1>1, <1>4

\* A bar that stays beside the zone leaves a waiting signal waiting.
LEMMA BarBeside ==
    ASSUME NEW f, NEW s, NEW cs, NEW g, NEW w, NEW m, NEW b, NEW x, OneBar(f, s, cs, g, w, m, b, x),
           f[(b - 1) * g] = {"WAITING"}, ~MeetsZone(s, x.l, x.h)
    PROVE  f[b * g] = {"WAITING"}
<1>1. b \in Nat \ {0} /\ g \in Nat \ {0}
  BY DEF OneBar, Outcomes
<1> DEFINE G == {n \in Nat : f[n] = {"WAITING"}}
<1>2. (b - 1) * g \in G
  BY <1>1, BarTimes
<1>3. ASSUME NEW n \in ((b - 1) * g + 1)..(b * g), n - 1 \in G
      PROVE  n \in G
  <2>1. PICK p : BarStep(f, s, cs, (b - 1) * g, n, x, p)
    BY StepOfBar
  <2>2. n \in Nat
    BY <1>1, CandlesOfBar
  <2>3. f[n - 1] = {"WAITING"}
    BY <1>3
  <2>4. \A r \in f[n] : r = "WAITING"
    BY <2>1, <2>3 DEF BarStep, Steps, Walked
  <2>5. f[n] = {"WAITING"}
    BY <2>1, <2>4 DEF BarStep
  <2> QED BY <2>2, <2>5
<1>4. b * g \in G
  <2> HIDE DEF G
  <2> QED BY <1>1, <1>2, <1>3, ThroughBar
<1> QED BY <1>4

\* A bar whose range holds neither level fills a waiting signal where it meets the zone.
LEMMA BarFills ==
    ASSUME NEW f, NEW s, NEW cs, NEW g, NEW w, NEW m, NEW b, NEW x, OneBar(f, s, cs, g, w, m, b, x),
           f[(b - 1) * g] = {"WAITING"}, MeetsZone(s, x.l, x.h),
           ~MeetsTarget(s, x.l, x.h), ~MeetsStop(s, x.l, x.h)
    PROVE  f[b * g] = {"ACTIVE"}
<1>1. b \in Nat \ {0} /\ g \in Nat \ {0}
  BY DEF OneBar, Outcomes
<1>2. PICK lo \in Nat : lo = (b - 1) * g /\ b * g = lo + g
  BY <1>1, BarTimes
<1>10. PICK hi \in Nat : hi = b * g
  BY <1>1, BarTimes
<1>3. s.low \in Int /\ s.high \in Int /\ Ordered(s)
  BY LevelsOrdered DEF OneBar, Outcomes, Levels, Numbers
<1> DEFINE Side(n) == \/ \A j \in (lo + 1)..n : cs[j].h < s.low
                      \/ \A j \in (lo + 1)..n : cs[j].l > s.high
           G == {n \in Nat : /\ f[n] \in SUBSET {"WAITING", "ACTIVE"}
                             /\ "WAITING" \in f[n] => Side(n)}
<1>4. (b - 1) * g \in G
  <2>1. Side(lo)
    BY <1>2
  <2> HIDE DEF Side
  <2> QED BY <1>2, <2>1
<1>5. ASSUME NEW n \in ((b - 1) * g + 1)..(b * g), n - 1 \in G
      PROVE  n \in G
  <2>1. PICK p : BarStep(f, s, cs, (b - 1) * g, n, x, p)
    BY StepOfBar
  <2>2. n \in Nat /\ lo + 1 <= n /\ n \in (lo + 1)..(b * g)
    BY <1>1, <1>2, CandlesOfBar
  <2>3. f[n - 1] \in SUBSET {"WAITING", "ACTIVE"} /\ ("WAITING" \in f[n - 1] => Side(n - 1))
    BY <1>5
  <2>4. f[n] \in SUBSET {"WAITING", "ACTIVE"}
    <3> SUFFICES ASSUME NEW r \in f[n]
                 PROVE  r \in {"WAITING", "ACTIVE"}
      OBVIOUS
    <3>1. PICK st \in f[n - 1] : Walked(s, st, p, cs[n], x.l, x.h, r)
      BY <2>1 DEF BarStep, Steps
    <3>2. st \in {"WAITING", "ACTIVE"}
      BY <2>3
    <3> QED BY <3>1, <3>2 DEF Walked, States
  <2>5. ASSUME "WAITING" \in f[n]
        PROVE  Side(n)
    <3>1. PICK st \in f[n - 1] : Walked(s, st, p, cs[n], x.l, x.h, "WAITING")
      BY <2>1, <2>5 DEF BarStep, Steps
    <3>2. st = "WAITING" /\ Side(n - 1)
      BY <2>3, <3>1 DEF Walked
    <3>3. (p < s.low /\ cs[n].h < s.low) \/ (p > s.high /\ cs[n].l > s.high)
      BY <3>1 DEF Walked
    <3>4. CASE n = lo + 1
      <4>1. \A j \in (lo + 1)..n : j = n
        BY <1>2, <2>2, <3>4
      <4> QED BY <3>3, <4>1
    <3>5. CASE n # lo + 1
      <4>0. n - 1 \in (lo + 1)..hi /\ n - 1 \in (lo + 1)..(n - 1)
        <5>1. n \in (lo + 1)..hi
          BY <1>10, <2>2
        <5> QED BY ONLY <5>1, <3>5, lo \in Nat, hi \in Nat
      <4>1. n - 1 \in (lo + 1)..(b * g) /\ n - 1 \in (lo + 1)..(n - 1)
        BY <1>10, <4>0
      <4>2. Within(cs[n - 1], x.l, x.h) /\ p = cs[n - 1].c
        BY <1>2, <2>1, <3>5, <4>1 DEF BarStep, OneBar, IsBar
      <4>3. cs[n - 1].l <= p /\ p <= cs[n - 1].h /\ p \in Int /\ cs[n - 1].l \in Int /\ cs[n - 1].h \in Int
        BY <4>2 DEF Within
      <4>4. \A j \in (lo + 1)..n : j \in (lo + 1)..(n - 1) \/ j = n
        BY <1>2, <2>2
      <4>5. CASE \A j \in (lo + 1)..(n - 1) : cs[j].h < s.low
        <5>1. p < s.low
          <6>1. cs[n - 1].h < s.low
            BY <4>1, <4>5
          <6> QED BY <1>3, <4>3, <6>1
        <5>2. cs[n].h < s.low
          BY <1>3, <3>3, <4>3, <5>1 DEF Ordered
        <5> QED BY <4>4, <4>5, <5>2
      <4>6. CASE \A j \in (lo + 1)..(n - 1) : cs[j].l > s.high
        <5>1. p > s.high
          <6>1. cs[n - 1].l > s.high
            BY <4>1, <4>6
          <6> QED BY <1>3, <4>3, <6>1
        <5>2. cs[n].l > s.high
          BY <1>3, <3>3, <4>3, <5>1 DEF Ordered
        <5> QED BY <4>4, <4>6, <5>2
      <4> QED BY <3>2, <4>5, <4>6
    <3> QED BY <3>4, <3>5
  <2> HIDE DEF Side
  <2> QED BY <2>2, <2>4, <2>5
<1>6. b * g \in G
  <2> HIDE DEF G
  <2> QED BY <1>1, <1>4, <1>5, ThroughBar
<1>7. ~Side(b * g)
  <2>1. PICK n \in (lo + 1)..(b * g) : cs[n].h = x.h
    BY <1>2 DEF OneBar, IsBar
  <2>2. PICK k \in (lo + 1)..(b * g) : cs[k].l = x.l
    BY <1>2 DEF OneBar, IsBar
  <2>3. x.h \in Int /\ x.l \in Int /\ x.l <= s.high /\ x.h >= s.low
    BY DEF OneBar, IsBar, IsCandle, Within, MeetsZone
  <2>4. ~(x.h < s.low) /\ ~(x.l > s.high)
    BY <1>3, <2>3
  <2> QED BY <2>1, <2>2, <2>4
<1>8. f[b * g] # {}
  <2>1. b * g \in 0..m
    BY <1>2 DEF OneBar, Outcomes
  <2> QED BY <2>1, SomeState DEF OneBar
<1>9. "WAITING" \notin f[b * g] /\ f[b * g] \in SUBSET {"WAITING", "ACTIVE"}
  <2> HIDE DEF Side
  <2> QED BY <1>6, <1>7
<1> QED BY <1>8, <1>9

-----------------------------------------------------------------------------
(* What a bar decides *)

\* The signal acts from the bar's open on: it was active before, or the open is in its zone.
ActsFromOpen(s, old, x) ==
    old = {"ACTIVE"} \/ (old = {"WAITING"} /\ s.low <= x.o /\ x.o <= s.high)

\* The first candle of such a bar.
LEMMA FirstCandle ==
    ASSUME NEW f, NEW s, NEW cs, NEW g, NEW w, NEW m, NEW b, NEW x, OneBar(f, s, cs, g, w, m, b, x),
           ActsFromOpen(s, f[(b - 1) * g], x), NEW n, n = (b - 1) * g + 1
    PROVE  /\ n \in ((b - 1) * g + 1)..(b * g)
           /\ cs[n].o = x.o /\ Within(cs[n], x.l, x.h)
           /\ f[n] = Walk(s, "ACTIVE", x.o, cs[n])
           /\ Steps({"ACTIVE"}, f[n], s, x.o, cs[n], x.l, x.h)
<1>1. b \in Nat \ {0} /\ g \in Nat \ {0} /\ Levels(s) /\ IsCandle(x) /\ x.o = cs[n].o
  BY DEF OneBar, Outcomes, IsBar
<1>2. PICK lo \in Nat : lo = (b - 1) * g /\ b * g = lo + g
  BY <1>1, BarTimes
<1>3. n \in ((b - 1) * g + 1)..(b * g)
  BY <1>1, <1>2
<1>4. PICK p : BarStep(f, s, cs, (b - 1) * g, n, x, p)
  BY <1>3, StepOfBar
<1>5. p = x.o /\ f[n] = UNION {Walk(s, st, x.o, cs[n]) : st \in f[lo]} /\ Within(cs[n], x.l, x.h) /\ x.o \in Int
  <2>1. n - 1 = lo
    BY <1>2
  <2> QED BY <1>1, <1>2, <1>4, <2>1 DEF BarStep
<1>6. Within(cs[n], cs[n].l, cs[n].h)
  BY <1>5 DEF Within
<1>7. f[n] = Walk(s, "ACTIVE", x.o, cs[n])
  <2>1. CASE f[lo] = {"ACTIVE"}
    BY <1>5, <2>1
  <2>2. CASE f[lo] = {"WAITING"} /\ s.low <= x.o /\ x.o <= s.high
    <3>1. Walk(s, "WAITING", x.o, cs[n]) = Walk(s, "ACTIVE", x.o, cs[n])
      BY <1>1, <1>6, <2>2, WalkFromZone
    <3> QED BY <1>5, <2>2, <3>1
  <2> QED BY <1>2, <2>1, <2>2 DEF ActsFromOpen
<1>8. Steps({"ACTIVE"}, f[n], s, x.o, cs[n], x.l, x.h)
  <2>1. f[n] = UNION {Walk(s, st, x.o, cs[n]) : st \in {"ACTIVE"}}
    BY <1>7
  <2>2. {"ACTIVE"} \in SUBSET States
    BY DEF States
  <2>3. x.l <= x.o /\ x.o <= x.h
    BY <1>1 DEF IsCandle, Within
  <2> QED BY <1>1, <1>5, <2>1, <2>2, <2>3, StepsOf
<1> QED BY <1>1, <1>3, <1>5, <1>7, <1>8

\* What a bar decides of a signal that acts from its open on.
Decided(s, x, new) ==
    /\ new # {} /\ new \in SUBSET {"ACTIVE", "WIN", "LOSS"}
    /\ "WIN" \in new => MeetsTarget(s, x.l, x.h)
    /\ "LOSS" \in new => MeetsStop(s, x.l, x.h)
    /\ "ACTIVE" \in new => ~MeetsTarget(s, x.l, x.h) /\ ~MeetsStop(s, x.l, x.h)

\* A bar the signal acts on from its open decides it so.
LEMMA BarDecides ==
    ASSUME NEW f, NEW s, NEW cs, NEW g, NEW w, NEW m, NEW b, NEW x, OneBar(f, s, cs, g, w, m, b, x),
           ActsFromOpen(s, f[(b - 1) * g], x)
    PROVE  Decided(s, x, f[b * g])
<1>1. b \in Nat \ {0} /\ g \in Nat \ {0}
  BY DEF OneBar, Outcomes
<1>2. PICK lo \in Nat : lo = (b - 1) * g /\ b * g = lo + g
  BY <1>1, BarTimes
<1> DEFINE Untouched(n) == \A j \in (lo + 1)..n : ~MeetsTarget(s, cs[j].l, cs[j].h) /\ ~MeetsStop(s, cs[j].l, cs[j].h)
           Fits(n) == /\ f[n] \in SUBSET {"ACTIVE", "WIN", "LOSS"}
                      /\ "WIN" \in f[n] => MeetsTarget(s, x.l, x.h)
                      /\ "LOSS" \in f[n] => MeetsStop(s, x.l, x.h)
                      /\ "ACTIVE" \in f[n] => Untouched(n)
           G == {n \in Nat : n = lo \/ Fits(n)}
<1>3. (b - 1) * g \in G
  BY <1>2
<1>4. ASSUME NEW n \in ((b - 1) * g + 1)..(b * g), n - 1 \in G
      PROVE  n \in G
  <2>1. n \in Nat /\ lo + 1 <= n
    BY <1>1, <1>2, CandlesOfBar
  <2>2. PICK F, p : /\ Steps(F, f[n], s, p, cs[n], x.l, x.h)
                    /\ \/ F = {"ACTIVE"} /\ n = lo + 1
                       \/ F = f[n - 1] /\ Fits(n - 1)
    <3>1. CASE n = lo + 1
      BY <1>2, <3>1, FirstCandle
    <3>2. CASE n # lo + 1
      <4>1. PICK p : BarStep(f, s, cs, (b - 1) * g, n, x, p)
        BY StepOfBar
      <4>2. Fits(n - 1)
        <5> HIDE DEF Fits
        <5> QED BY <1>4, <2>1, <3>2
      <4> HIDE DEF Fits
      <4> QED BY <4>1, <4>2 DEF BarStep
    <3> QED BY <3>1, <3>2
  <2>3. \A r \in f[n] : \E st \in F : Walked(s, st, p, cs[n], x.l, x.h, r)
    BY <2>2 DEF Steps
  <2>4. /\ F \in SUBSET {"ACTIVE", "WIN", "LOSS"}
        /\ "WIN" \in F => MeetsTarget(s, x.l, x.h)
        /\ "LOSS" \in F => MeetsStop(s, x.l, x.h)
        /\ "ACTIVE" \in F => Untouched(n - 1)
    <3>1. CASE F = {"ACTIVE"} /\ n = lo + 1
      <4>1. Untouched(lo)
        BY <1>2
      <4> HIDE DEF Untouched
      <4>2. n - 1 = lo
        BY <1>2, <3>1
      <4> QED BY <3>1, <4>1, <4>2
    <3>2. CASE F = f[n - 1] /\ Fits(n - 1)
      <4> HIDE DEF Untouched
      <4> QED BY <3>2
    <3> QED BY <2>2, <3>1, <3>2
  <2>5. f[n] \in SUBSET {"ACTIVE", "WIN", "LOSS"}
    <3> HIDE DEF Untouched
    <3> QED BY <2>3, <2>4 DEF Walked, States
  <2>6. ("WIN" \in f[n] => MeetsTarget(s, x.l, x.h)) /\ ("LOSS" \in f[n] => MeetsStop(s, x.l, x.h))
    <3> HIDE DEF Untouched
    <3> QED BY <2>3, <2>4 DEF Walked
  <2>7. ASSUME "ACTIVE" \in f[n]
        PROVE  Untouched(n)
    <3>1. PICK st \in F : Walked(s, st, p, cs[n], x.l, x.h, "ACTIVE")
      BY <2>3, <2>7
    <3>2. st = "ACTIVE"
      BY <2>4, <3>1 DEF Walked
    <3>3. Untouched(n - 1)
      <4> HIDE DEF Untouched
      <4> QED BY <2>4, <3>2
    <3>4. ~MeetsTarget(s, cs[n].l, cs[n].h) /\ ~MeetsStop(s, cs[n].l, cs[n].h)
      BY <3>1, <3>2 DEF Walked
    <3>5. \A j \in (lo + 1)..n : j \in (lo + 1)..(n - 1) \/ j = n
      BY ONLY <2>1, lo \in Nat
    <3> QED BY <3>3, <3>4, <3>5
  <2> HIDE DEF Untouched
  <2> QED BY <2>1, <2>5, <2>6, <2>7
<1>5. b * g \in G
  <2> HIDE DEF G
  <2> QED BY <1>1, <1>3, <1>4, ThroughBar
<1>6. Fits(b * g)
  <2>1. b * g # lo
    BY <1>1, <1>2
  <2> HIDE DEF Fits
  <2> QED BY <1>5, <2>1
<1>7. Untouched(b * g) => ~MeetsTarget(s, x.l, x.h) /\ ~MeetsStop(s, x.l, x.h)
  <2>1. PICK n \in (lo + 1)..(b * g) : cs[n].h = x.h
    BY <1>2 DEF OneBar, IsBar
  <2>2. PICK k \in (lo + 1)..(b * g) : cs[k].l = x.l
    BY <1>2 DEF OneBar, IsBar
  <2> QED BY <2>1, <2>2 DEF MeetsTarget, MeetsStop
<1>8. f[b * g] # {}
  <2>1. b * g \in 0..m
    BY <1>2 DEF OneBar, Outcomes
  <2> QED BY <2>1, SomeState DEF OneBar
<1> HIDE DEF Untouched
<1> QED BY <1>6, <1>7, <1>8 DEF Decided

\* An open at or beyond a level of an active signal decides it.
LEMMA OpenDecides ==
    ASSUME NEW f, NEW s, NEW cs, NEW g, NEW w, NEW m, NEW b, NEW x, OneBar(f, s, cs, g, w, m, b, x),
           f[(b - 1) * g] = {"ACTIVE"}
    PROVE  /\ MeetsTarget(s, x.o, x.o) => f[b * g] = {"WIN"}
           /\ MeetsStop(s, x.o, x.o) => f[b * g] = {"LOSS"}
<1>1. PICK n : n = (b - 1) * g + 1
  OBVIOUS
<1>2. /\ n \in ((b - 1) * g + 1)..(b * g)
      /\ cs[n].o = x.o /\ Steps({"ACTIVE"}, f[n], s, x.o, cs[n], x.l, x.h)
  BY <1>1, FirstCandle DEF ActsFromOpen
<1>3. /\ b \in Nat \ {0} /\ g \in Nat \ {0} /\ m \in Nat /\ b * g <= m /\ Outcomes(f, s, cs, g, w, m)
  BY DEF OneBar, Outcomes
<1>4. n \in 0..m /\ b * g \in 0..m /\ n <= b * g
  <2>1. PICK lo \in Nat : lo = (b - 1) * g /\ b * g = lo + g
    BY <1>3, BarTimes
  <2>2. PICK hi \in Nat : hi = b * g
    BY <2>1, <1>3
  <2> QED BY <1>1, <1>3, <2>1, <2>2
<1>5. f[n] # {}
  BY <1>3, <1>4, SomeState
<1>6. Persists(f[n], f[b * g])
  BY <1>3, <1>4, ManyCandles
<1>7. MeetsTarget(s, x.o, x.o) => f[n] = {"WIN"}
  BY <1>2, <1>5 DEF Steps, Walked
<1>8. MeetsStop(s, x.o, x.o) => f[n] = {"LOSS"}
  BY <1>2, <1>5 DEF Steps, Walked
<1> QED BY <1>6, <1>7, <1>8 DEF Persists

\* A bar that may be a loss, when its own range is all that is known of it.
LEMMA BarMayLose ==
    ASSUME NEW f, NEW s, NEW cs, NEW w, NEW m, NEW b, NEW x, OneBar(f, s, cs, 1, w, m, b, x),
           ActsFromOpen(s, f[b - 1], x), MeetsStop(s, x.l, x.h), ~MeetsTarget(s, x.o, x.o)
    PROVE  "LOSS" \in f[b]
<1>1. b \in Nat \ {0} /\ b * 1 = b /\ (b - 1) * 1 = b - 1 /\ Levels(s)
  BY DEF OneBar, Outcomes
<1>2. /\ b \in ((b - 1) * 1 + 1)..(b * 1)
      /\ cs[b].o = x.o /\ Within(cs[b], x.l, x.h) /\ f[b] = Walk(s, "ACTIVE", x.o, cs[b])
  BY <1>1, FirstCandle
<1>3. \A n \in ((b - 1) * 1 + 1)..(b * 1) : n = b
  BY <1>1
<1>4. cs[b].l = x.l /\ cs[b].h = x.h
  BY <1>3 DEF OneBar, IsBar
<1> QED BY <1>1, <1>2, <1>4, WalkMayLose

-----------------------------------------------------------------------------
(* Bars derived from candles *)

\* Of finitely many numbers one is largest and one is smallest.
LEMMA Extremes ==
    ASSUME NEW d \in Nat \ {0}, NEW v, \A n \in 1..d : v[n] \in Int
    PROVE  /\ \E a \in 1..d : \A n \in 1..d : v[n] <= v[a]
           /\ \E a \in 1..d : \A n \in 1..d : v[a] <= v[n]
<1> DEFINE G == {j \in 0..d : j = 0 \/ (/\ \E a \in 1..j : \A n \in 1..j : v[n] <= v[a]
                                        /\ \E a \in 1..j : \A n \in 1..j : v[a] <= v[n])}
<1>1. 0 \in G
  OBVIOUS
<1>2. ASSUME NEW j \in 1..d, j - 1 \in G
      PROVE  j \in G
  <2>1. CASE j = 1
    <3>1. \A n \in 1..j : n = 1
      BY <2>1
    <3>2. v[1] \in Int /\ 1 \in 1..j
      BY <2>1
    <3> QED BY <3>1, <3>2
  <2>2. CASE j # 1
    <3>0. j - 1 # 0 /\ j - 1 \in G
      BY <1>2, <2>2
    <3>1. PICK a \in 1..(j - 1) : \A n \in 1..(j - 1) : v[n] <= v[a]
      BY <3>0
    <3>2. PICK c \in 1..(j - 1) : \A n \in 1..(j - 1) : v[c] <= v[n]
      BY <3>0
    <3>3. /\ \A n \in 1..j : n \in 1..(j - 1) \/ n = j
          /\ a \in 1..j /\ c \in 1..j /\ j \in 1..j
      OBVIOUS
    <3>4. v[a] \in Int /\ v[c] \in Int /\ v[j] \in Int /\ \A n \in 1..j : v[n] \in Int
      BY <3>3
    <3>5. \E i \in 1..j : \A n \in 1..j : v[n] <= v[i]
      <4>1. CASE v[a] >= v[j]
        BY <3>1, <3>3, <3>4, <4>1
      <4>2. CASE v[j] > v[a]
        BY <3>1, <3>3, <3>4, <4>2
      <4> QED BY <3>4, <4>1, <4>2
    <3>6. \E i \in 1..j : \A n \in 1..j : v[i] <= v[n]
      <4>1. CASE v[c] <= v[j]
        BY <3>2, <3>3, <3>4, <4>1
      <4>2. CASE v[j] < v[c]
        BY <3>2, <3>3, <3>4, <4>2
      <4> QED BY <3>4, <4>1, <4>2
    <3> QED BY <3>5, <3>6
  <2> QED BY <2>1, <2>2
<1>3. d \in G
  <2> HIDE DEF G
  <2>1. \A n \in 1..d : n - 1 \in G => n \in G
    BY <1>2
  <2>2. \A n \in 0..d : n \in G
    BY <1>1, <2>1, AfterEvery
  <2> QED BY <2>2
<1> QED BY <1>3

\* The range of a bar is the range of its candles.
LEMMA RangeOf ==
    ASSUME NEW d \in Nat \ {0}, NEW v, \A n \in 1..d : v[n] \in Int, NEW S, S = {v[n] : n \in 1..d}
    PROVE  /\ Max(S) \in S /\ \A n \in 1..d : v[n] <= Max(S)
           /\ Min(S) \in S /\ \A n \in 1..d : Min(S) <= v[n]
<1>1. PICK a \in 1..d : \A n \in 1..d : v[n] <= v[a]
  BY Extremes
<1>2. PICK c \in 1..d : \A n \in 1..d : v[c] <= v[n]
  BY Extremes
<1>3. v[a] \in S /\ \A y \in S : v[a] >= y
  BY <1>1
<1>4. v[c] \in S /\ \A y \in S : v[c] <= y
  BY <1>2
<1>5. Max(S) \in S /\ \A y \in S : Max(S) >= y
  BY <1>3, Zenon DEF Max
<1>6. Min(S) \in S /\ \A y \in S : Min(S) <= y
  BY <1>4, Zenon DEF Min
<1>7. Max(S) \in Int
  BY <1>5
<1> QED BY <1>5, <1>6, <1>7

\* A candle opens and closes within its range.
LEMMA OpenAndClose ==
    ASSUME NEW y, NEW l, NEW h, Within(y, l, h)
    PROVE  y.o \in l..h /\ y.c \in l..h /\ l \in Int /\ h \in Int
BY DEF Within

\* A bar of a timeframe opens with its first candle and reaches as far as its candles.
LEMMA DerivedIsBar ==
    ASSUME NEW C, \A c \in C : IsCandle(c), NEW series \in Seq(C), NEW d \in Nat \ {0},
           NEW b \in 1..(Len(series) \div d)
    PROVE  IsBar(Derived(series, d)[b], series, d, b) /\ b * d <= Len(series)
<1>1. PICK N \in Nat : N = Len(series) \div d /\ N * d <= Len(series)
  <2>1. Len(series) \in Nat
    OBVIOUS
  <2> QED BY <2>1, WholeBars
<1>2. b \in Nat \ {0} /\ b <= N /\ b * d <= N * d
  BY <1>1, BarsBefore
<1>3. PICK lo \in Nat : lo = (b - 1) * d /\ b * d = lo + d
  BY <1>2, BarTimes
<1>4. PICK hi \in Nat : hi = b * d /\ hi <= Len(series) /\ hi = lo + d
  <2>1. Len(series) \in Nat /\ N * d \in Nat /\ b * d \in Nat
    BY <1>1, <1>2, BarsBefore
  <2> QED BY <1>1, <1>2, <1>3, <2>1
<1>5. PICK part : part = SubSeq(series, lo + 1, hi)
  OBVIOUS
<1>6. \A n \in 1..d : part[n] = series[lo + n] /\ lo + n \in 1..Len(series) /\ lo + n \in (lo + 1)..hi
  <2>1. Len(series) \in Nat
    OBVIOUS
  <2>2. lo + 1 \in 1..Len(series) /\ hi \in 1..Len(series)
    BY <1>4, <2>1
  <2>3. \A n \in 1..d : lo + n \in 1..Len(series) /\ n \in 1..(hi - (lo + 1) + 1) /\ lo + n \in (lo + 1)..hi /\ lo + 1 + n - 1 = lo + n
    BY <1>4, <2>1
  <2>4. \A n \in 1..(hi - (lo + 1) + 1) : SubSeq(series, lo + 1, hi)[n] = series[lo + 1 + n - 1]
    BY <2>2
  <2> QED BY <1>5, <2>3, <2>4
<1>7. ASSUME NEW n \in (lo + 1)..hi
      PROVE  n - lo \in 1..d /\ part[n - lo] = series[n] /\ IsCandle(series[n])
  <2>1. n - lo \in 1..d /\ lo + (n - lo) = n
    BY <1>4
  <2>2. part[n - lo] = series[n] /\ n \in 1..Len(series)
    BY <1>6, <2>1
  <2> QED BY <2>1, <2>2
<1>8. \A n \in 1..d : IsCandle(part[n])
  BY <1>6
<1>9. PICK H : H = [n \in 1..d |-> part[n].h]
  OBVIOUS
<1>10. PICK L : L = [n \in 1..d |-> part[n].l]
  OBVIOUS
<1>11. PICK hs : hs = {part[n].h : n \in 1..d}
  OBVIOUS
<1>12. PICK ls : ls = {part[n].l : n \in 1..d}
  OBVIOUS
<1>13. PICK x : x = Derived(series, d)[b]
  OBVIOUS
<1>14. x.o = part[1].o /\ x.c = part[d].c /\ x.h = Max(hs) /\ x.l = Min(ls)
  <2>1. Derived(series, d)[b] =
          [o |-> part[1].o, c |-> part[d].c, h |-> Max(hs), l |-> Min(ls)]
    BY <1>1, <1>3, <1>4, <1>5, <1>11, <1>12, Zenon DEF Derived
  <2> QED BY <1>13, <2>1
<1>15. /\ x.h \in hs /\ \A n \in 1..d : part[n].h <= x.h
  <2>1. \A n \in 1..d : H[n] \in Int /\ H[n] = part[n].h
    BY <1>8, <1>9 DEF IsCandle, Within
  <2>2. hs = {H[n] : n \in 1..d}
    BY <1>11, <2>1
  <2>3. Max(hs) \in hs /\ \A n \in 1..d : H[n] <= Max(hs)
    BY <2>1, <2>2, RangeOf
  <2> QED BY <1>14, <2>1, <2>3
<1>16. /\ x.l \in ls /\ \A n \in 1..d : x.l <= part[n].l
  <2>1. \A n \in 1..d : L[n] \in Int /\ L[n] = part[n].l
    BY <1>8, <1>10 DEF IsCandle, Within
  <2>2. ls = {L[n] : n \in 1..d}
    BY <1>12, <2>1
  <2>3. Min(ls) \in ls /\ \A n \in 1..d : Min(ls) <= L[n]
    BY <2>1, <2>2, RangeOf
  <2> QED BY <1>14, <2>1, <2>3
<1>17. x.h \in Int /\ x.l \in Int
  BY <1>8, <1>11, <1>12, <1>15, <1>16 DEF IsCandle, Within
<1>18. \A n \in 1..d : Within(part[n], x.l, x.h)
  BY <1>8, <1>15, <1>16, <1>17 DEF IsCandle, Within
<1>19. \A n \in (lo + 1)..hi : Within(series[n], x.l, x.h)
  BY <1>7, <1>18
<1>20. (\E n \in (lo + 1)..hi : series[n].h = x.h) /\ (\E n \in (lo + 1)..hi : series[n].l = x.l)
  <2>1. PICK n \in 1..d : part[n].h = x.h
    BY <1>11, <1>15
  <2>2. PICK k \in 1..d : part[k].l = x.l
    BY <1>12, <1>16
  <2> QED BY <1>6, <2>1, <2>2
<1>21. IsCandle(x)
  <2>1. 1 \in 1..d /\ d \in 1..d
    OBVIOUS
  <2>2. Within(part[1], x.l, x.h) /\ Within(part[d], x.l, x.h)
    BY <1>18, <2>1
  <2>3. PICK y : y = part[1]
    OBVIOUS
  <2>4. PICK z : z = part[d]
    OBVIOUS
  <2>5. Within(y, x.l, x.h) /\ Within(z, x.l, x.h) /\ x.o = y.o /\ x.c = z.c
    BY <1>14, <2>2, <2>3, <2>4
  <2>6. y.o \in x.l..x.h /\ z.c \in x.l..x.h
    BY <2>5, OpenAndClose
  <2>7. x.o \in x.l..x.h /\ x.c \in x.l..x.h
    BY <2>5, <2>6
  <2> QED BY <1>17, <2>7 DEF IsCandle, Within
<1>22. x.o = series[lo + 1].o
  BY <1>6, <1>14
<1> QED BY <1>3, <1>4, <1>13, <1>19, <1>20, <1>21, <1>22 DEF IsBar

\* A bar is its own only candle.
LEMMA OwnBar ==
    ASSUME NEW cs, NEW b \in Nat \ {0}, IsCandle(cs[b])
    PROVE  IsBar(cs[b], cs, 1, b)
<1>1. (b - 1) * 1 + 1 = b /\ b * 1 = b /\ \A n \in b..b : n = b
  OBVIOUS
<1> QED BY <1>1 DEF IsBar, IsCandle

-----------------------------------------------------------------------------
(* One bar, from its candles and from its own range *)

\* What a bar makes of what was possible before it.
BarEffect(s, x, old, new) ==
    /\ old = {"WAITING"} /\ ~MeetsZone(s, x.l, x.h) => new = {"WAITING"}
    /\ old = {"WAITING"} /\ MeetsZone(s, x.l, x.h) /\ ~MeetsTarget(s, x.l, x.h) /\ ~MeetsStop(s, x.l, x.h)
          => new = {"ACTIVE"}
    /\ ActsFromOpen(s, old, x) => Decided(s, x, new)
    /\ old = {"ACTIVE"} /\ MeetsTarget(s, x.o, x.o) => new = {"WIN"}
    /\ old = {"ACTIVE"} /\ MeetsStop(s, x.o, x.o) => new = {"LOSS"}
MayLose(s, x, old, new) ==
    ActsFromOpen(s, old, x) /\ MeetsStop(s, x.l, x.h) /\ ~MeetsTarget(s, x.o, x.o) => "LOSS" \in new

\* A bar the signal may act on does that.
LEMMA EffectOfBar ==
    ASSUME NEW f, NEW s, NEW cs, NEW g, NEW w, NEW m, NEW b, NEW x, OneBar(f, s, cs, g, w, m, b, x)
    PROVE  BarEffect(s, x, f[(b - 1) * g], f[b * g])
BY BarBeside, BarFills, BarDecides, OpenDecides DEF BarEffect

\* A bar that opens before the signal was created changes nothing.
LEMMA BarIgnored ==
    ASSUME NEW f, NEW s, NEW cs, NEW g, NEW w, NEW m, Outcomes(f, s, cs, g, w, m),
           NEW b \in Nat \ {0}, b * g <= m, Predates(s, (b - 1) * g * w)
    PROVE  f[b * g] = f[(b - 1) * g]
<1>1. g \in Nat \ {0} /\ m \in Nat
  BY DEF Outcomes
<1>2. PICK lo \in Nat : lo = (b - 1) * g /\ b * g = lo + g
  BY <1>1, BarTimes
<1> DEFINE G == {n \in Nat : f[n] = f[lo]}
<1>3. (b - 1) * g \in G
  BY <1>2
<1>4. ASSUME NEW n \in ((b - 1) * g + 1)..(b * g), n - 1 \in G
      PROVE  n \in G
  <2>1. ((n - 1) \div g) * g = (b - 1) * g /\ n \in Nat /\ n \in (lo + 1)..(lo + g)
    BY <1>1, <1>2, CandlesOfBar
  <2>2. n \in 1..m
    <3>1. lo + g <= m
      BY <1>2
    <3> QED BY ONLY <1>1, <2>1, <3>1, lo \in Nat
  <2>3. Predates(s, ((n - 1) \div g) * g * w)
    BY <2>1
  <2>4. f[n] = f[n - 1]
    BY <2>2, <2>3, BeyondIs
  <2> QED BY <1>4, <2>1, <2>4
<1>5. b * g \in G
  <2> HIDE DEF G
  <2> QED BY <1>1, <1>3, <1>4, ThroughBar
<1> QED BY <1>2, <1>5

\* A replay's bars, their candles, and what each of the two leaves possible.
Scene(s, bars, d, inv, cs, m, f, q) ==
    /\ d \in Nat \ {0} /\ Len(bars) \in Nat /\ Len(bars) * d <= m
    /\ Outcomes(f, s, cs, d, 1, m) /\ Outcomes(q, s, bars, 1, d, Len(bars))
    /\ \A b \in 1..Len(bars) : IsBar(bars[b], cs, d, b)
    /\ inv = NoTime \/ inv \in 0..m

\* One bar in a scene, from the candles' side and from its own.
SceneBar(s, x, d, b, F0, F, Q0, Q) ==
    /\ Levels(s) /\ IsCandle(x) /\ Persists(F0, F) /\ Persists(Q0, Q)
    /\ Predates(s, (b - 1) * d) => F = F0 /\ Q = Q0
    /\ ~Predates(s, (b - 1) * d) => BarEffect(s, x, F0, F) /\ BarEffect(s, x, Q0, Q) /\ MayLose(s, x, Q0, Q)

\* Every bar of a scene is one.
LEMMA BarOfScene ==
    ASSUME NEW s, NEW bars, NEW d, NEW inv, NEW cs, NEW m, NEW f, NEW q, Scene(s, bars, d, inv, cs, m, f, q),
           NEW b \in 1..Len(bars)
    PROVE  SceneBar(s, bars[b], d, b, f[(b - 1) * d], f[b * d], q[b - 1], q[b])
<1>1. PICK N \in Nat : N = Len(bars)
  BY DEF Scene
<1>2. b \in Nat \ {0} /\ b <= N /\ d \in Nat \ {0} /\ m \in Nat /\ b \in 1..N
  BY <1>1 DEF Scene, Outcomes
<1>3. PICK lo \in Nat : lo = (b - 1) * d /\ b * d = lo + d
  BY <1>2, BarTimes
<1>4. PICK hi \in Nat : hi = b * d /\ hi <= m
  <2>1. b * d <= N * d /\ b * d \in Nat /\ N * d \in Nat
    BY <1>1, <1>2, BarsBefore
  <2>2. N * d <= m
    BY <1>1 DEF Scene
  <2> QED BY <1>2, <2>1, <2>2
<1>5. lo \in 0..m /\ hi \in 0..m /\ lo <= hi
  BY <1>2, <1>3, <1>4
<1>6. Outcomes(f, s, cs, d, 1, m) /\ Outcomes(q, s, bars, 1, d, N) /\ IsBar(bars[b], cs, d, b)
  BY <1>1 DEF Scene
<1>7. IsCandle(bars[b]) /\ Levels(s)
  BY <1>6 DEF IsBar, Outcomes
<1>8. Persists(f[lo], f[hi])
  BY <1>5, <1>6, ManyCandles
<1>9. Persists(q[b - 1], q[b])
  BY <1>2, <1>6, OneCandle
<1>10. (b - 1) * d * 1 = (b - 1) * d /\ (b - 1) * 1 * d = (b - 1) * d /\ (b - 1) * 1 = b - 1 /\ b * 1 = b
  BY <1>2, <1>3
<1>11. CASE Predates(s, (b - 1) * d)
  <2>1. f[b * d] = f[(b - 1) * d]
    BY <1>2, <1>4, <1>6, <1>10, <1>11, BarIgnored
  <2>2. q[b * 1] = q[(b - 1) * 1]
    <3>1. Predates(s, (b - 1) * 1 * d) /\ b * 1 <= N
      BY <1>2, <1>10, <1>11
    <3> QED BY <1>2, <1>6, <3>1, BarIgnored
  <2> QED BY <1>3, <1>4, <1>7, <1>8, <1>9, <1>10, <1>11, <2>1, <2>2 DEF SceneBar
<1>12. CASE ~Predates(s, (b - 1) * d)
  <2>1. OneBar(f, s, cs, d, 1, m, b, bars[b])
    BY <1>2, <1>4, <1>6, <1>10, <1>12 DEF OneBar
  <2>2. OneBar(q, s, bars, 1, d, N, b, bars[b])
    <3>1. IsBar(bars[b], bars, 1, b)
      BY <1>2, <1>7, OwnBar
    <3> QED BY <1>2, <1>6, <1>10, <1>12, <3>1 DEF OneBar
  <2>3. BarEffect(s, bars[b], f[(b - 1) * d], f[b * d])
    BY <2>1, EffectOfBar
  <2>4. BarEffect(s, bars[b], q[(b - 1) * 1], q[b * 1])
    BY <2>2, EffectOfBar
  <2>5. MayLose(s, bars[b], q[b - 1], q[b])
    BY <2>2, BarMayLose DEF MayLose
  <2> QED BY <1>3, <1>4, <1>7, <1>8, <1>9, <1>10, <1>12, <2>3, <2>4, <2>5 DEF SceneBar
<1> QED BY <1>11, <1>12

-----------------------------------------------------------------------------
(* What is reported of a signal *)

\* What the trade of a lifecycle is reported as: an opening gap overrides the range.
Verdict(s, bars, d, k, lc) ==
    IF lc.status \notin Terminal THEN lc.status
    ELSE LET x == EvaluateExecution(s, bars, d, lc, lc.captured, k)
         IN  IF x = NoExit THEN lc.status ELSE IF x.reason = "TAKE_PROFIT" THEN "TP_HIT" ELSE "SL_HIT"
GapOf(s, bar, open, e) == IF ActiveBeforeOpen(e, open) THEN OpeningGapReason(s, bar) ELSE "NONE"

\* The verdict on a trade that was entered and ended.
LEMMA VerdictIs ==
    ASSUME NEW s, NEW bars, NEW d, NEW k, NEW lc, lc.status \in Closings, lc.captured.executed = TRUE,
           NEW bar, NEW open, Last(lc.events).bar = open, bars[open \div d + 1] = bar,
           NEW gap, gap = GapOf(s, bar, open, lc.captured)
    PROVE  Verdict(s, bars, d, k, lc) = IF gap = "TAKE_PROFIT" THEN "TP_HIT"
                                        ELSE IF gap = "STOP_LOSS" THEN "SL_HIT" ELSE lc.status
<1>1. PICK x : x = EvaluateExecution(s, bars, d, lc, lc.captured, k)
  OBVIOUS
<1>2. x = ExecuteTerminalCandle(s, bar, open, lc, lc.captured, k)
  BY <1>1 DEF EvaluateExecution, Closings
<1>3. gap \in {"TAKE_PROFIT", "STOP_LOSS", "NONE"}
  BY DEF GapOf, OpeningGapReason
<1>4. gap = "NONE" /\ lc.status = "AMBIGUOUS" => x = NoExit
  BY <1>2, Zenon DEF ExecuteTerminalCandle, GapOf
<1>5. ASSUME ~(gap = "NONE" /\ lc.status = "AMBIGUOUS")
      PROVE  x.reason = IF gap # "NONE" THEN gap ELSE IF lc.status = "TP_HIT" THEN "TAKE_PROFIT" ELSE "STOP_LOSS"
  BY <1>2, <1>5, Zenon DEF ExecuteTerminalCandle, GapOf
<1>6. ASSUME ~(gap = "NONE" /\ lc.status = "AMBIGUOUS")
      PROVE  x # NoExit
  <2>1. x.reason \in {"TAKE_PROFIT", "STOP_LOSS"}
    BY <1>3, <1>5, <1>6
  <2> QED BY <2>1 DEF NoExit
<1> QED BY <1>1, <1>3, <1>4, <1>5, <1>6 DEF Verdict, Closings, Terminal

\* The trade that is reported, against what the candles (F), the bars (Q) and the candles
\* up to a loss of structure (C) leave possible.
Forces(s, bars, d, k, lc, F, Q, C) ==
    LET v == Verdict(s, bars, d, k, lc)
    IN  /\ v = "TP_HIT" => F = {"WIN"}
        /\ v = "SL_HIT" => \/ F = {"LOSS"}
                           \/ /\ k.policy = "CONSERVATIVE_STOP_FIRST"
                              /\ "LOSS" \in Q \/ bars[Last(lc.events).bar \div d + 1].o = s.tp
        /\ v \in {"WAITING", "ACTIVE"} => F = {v}
        /\ v = "CANCELLED" => C = {"WAITING"}

\* The same after each bar, with what the next one needs; t is the bar's close.
Shape(lc) == /\ LifeFields(lc) /\ IsSeq(lc.events) /\ lc.raised \in BOOLEAN
             /\ lc.status \in {"WAITING", "ACTIVE"} \cup Terminal
Told(s, bars, d, k, lc, t, F, Q, C) ==
    /\ Shape(lc)
    /\ ~lc.raised =>
          /\ Forces(s, bars, d, k, lc, F, Q, C)
          /\ lc.status = "WAITING" => Q = {"WAITING"}
          /\ lc.status = "ACTIVE" => /\ Q = {"ACTIVE"} /\ lc.captured.executed = TRUE
                                     /\ lc.captured.bar \in Int /\ lc.captured.bar < t

\* What an opening gap says of the open.
LEMMA GapSays ==
    ASSUME NEW s, Levels(s), NEW x, IsCandle(x), NEW gap, gap = OpeningGapReason(s, x)
    PROVE  /\ gap \in {"TAKE_PROFIT", "STOP_LOSS", "NONE"}
           /\ gap = "TAKE_PROFIT" => MeetsTarget(s, x.o, x.o)
           /\ gap = "STOP_LOSS" => MeetsStop(s, x.o, x.o)
           /\ gap = "NONE" /\ MeetsTarget(s, x.o, x.o) => x.o = s.tp
<1>1. Ordered(s) /\ s.low \in Int /\ s.high \in Int /\ s.tp \in Int /\ s.sl \in Int /\ x.o \in Int
  BY LevelsOrdered DEF Levels, Numbers, IsCandle, Within
<1>2. CASE s.dir = "LONG"
  BY <1>1, <1>2 DEF OpeningGapReason, MeetsTarget, MeetsStop, Ordered
<1>3. CASE s.dir = "SHORT"
  BY <1>1, <1>3 DEF OpeningGapReason, MeetsTarget, MeetsStop, Ordered
<1> QED BY <1>1, <1>2, <1>3 DEF Ordered

\* A level at the open is within the candle's range, and the zone holds neither level.
LEMMA OpenSays ==
    ASSUME NEW s, Levels(s), NEW x, IsCandle(x)
    PROVE  /\ MeetsTarget(s, x.o, x.o) => MeetsTarget(s, x.l, x.h)
           /\ MeetsStop(s, x.o, x.o) => MeetsStop(s, x.l, x.h)
           /\ s.low <= x.o /\ x.o <= s.high => ~MeetsTarget(s, x.o, x.o)
<1>1. /\ Ordered(s) /\ s.low \in Int /\ s.high \in Int /\ s.tp \in Int /\ s.sl \in Int /\ x.o \in Int
      /\ x.l \in Int /\ x.h \in Int /\ x.l <= x.o /\ x.o <= x.h
  BY LevelsOrdered DEF Levels, Numbers, IsCandle, Within
<1> QED BY <1>1 DEF MeetsTarget, MeetsStop, Ordered

\* How an active signal came to a bar: from an earlier one, filled at its open, or filled
\* somewhere inside it while it touches nothing.
Arrives(s, x, open, e, F, Q) ==
    /\ Decided(s, x, F) /\ Decided(s, x, Q) /\ e.executed = TRUE /\ e.bar \in Int
    /\ \/ /\ e.bar < open
          /\ MeetsTarget(s, x.o, x.o) => F = {"WIN"}
          /\ MeetsStop(s, x.o, x.o) => F = {"LOSS"}
          /\ MeetsStop(s, x.l, x.h) /\ ~MeetsTarget(s, x.o, x.o) => "LOSS" \in Q
       \/ /\ e.bar = open /\ ~MeetsTarget(s, x.o, x.o)
          /\ MeetsStop(s, x.l, x.h) => "LOSS" \in Q
       \/ e.bar = open /\ ~MeetsTarget(s, x.l, x.h) /\ ~MeetsStop(s, x.l, x.h)

\* What is reported when such a bar closes the trade.
LEMMA ClosedTold ==
    ASSUME NEW s, Levels(s), NEW bars, NEW d, NEW k, NEW x, IsCandle(x), NEW open \in Int, NEW close \in Int,
           bars[open \div d + 1] = x,
           NEW acc, Shape(acc), NEW F, NEW Q, NEW C, Arrives(s, x, open, acc.captured, F, Q),
           MeetsTarget(s, x.l, x.h) \/ MeetsStop(s, x.l, x.h),
           NEW status, status = IF MeetsTarget(s, x.l, x.h) /\ MeetsStop(s, x.l, x.h)
                                THEN IF k.policy = "CONSERVATIVE_STOP_FIRST" THEN "SL_HIT" ELSE "AMBIGUOUS"
                                ELSE IF MeetsTarget(s, x.l, x.h) THEN "TP_HIT" ELSE "SL_HIT",
           NEW price, NEW reason, NEW new, new = Closed(acc, status, close, open, price, reason)
    PROVE  Told(s, bars, d, k, new, close, F, Q, C)
<1>1. /\ LifeFields(new) /\ new.status = status /\ new.captured = acc.captured /\ new.raised = acc.raised
      /\ NextEvent(acc, new, Event(status, close, open, price, reason))
  BY ClosedIs DEF Shape
<1>2. IsSeq(new.events) /\ Last(new.events).bar = open
  BY <1>1 DEF NextEvent, Event
<1>3. status \in Closings
  BY DEF Closings
<1>4. PICK gap : gap = GapOf(s, x, open, acc.captured)
  OBVIOUS
<1>5. PICK v : v = Verdict(s, bars, d, k, new)
  OBVIOUS
<1>6. v = IF gap = "TAKE_PROFIT" THEN "TP_HIT" ELSE IF gap = "STOP_LOSS" THEN "SL_HIT" ELSE status
  <2>1. new.captured.executed = TRUE
    BY <1>1 DEF Arrives
  <2>2. gap = GapOf(s, x, open, new.captured)
    BY <1>1, <1>4
  <2>3. new.status \in Closings
    BY <1>1, <1>3
  <2>5. Last(new.events).bar = open /\ bars[open \div d + 1] = x
    BY <1>2
  <2>4. Verdict(s, bars, d, k, new) = IF gap = "TAKE_PROFIT" THEN "TP_HIT"
                                      ELSE IF gap = "STOP_LOSS" THEN "SL_HIT" ELSE new.status
    BY ONLY <2>1, <2>2, <2>3, <2>5, VerdictIs
  <2> QED BY <1>1, <1>5, <2>4
<1>7. /\ gap \in {"TAKE_PROFIT", "STOP_LOSS", "NONE"}
      /\ gap # "NONE" => acc.captured.bar < open
      /\ gap = "TAKE_PROFIT" => MeetsTarget(s, x.o, x.o)
      /\ gap = "STOP_LOSS" => MeetsStop(s, x.o, x.o)
      /\ acc.captured.bar < open /\ gap = "NONE" /\ MeetsTarget(s, x.o, x.o) => x.o = s.tp
  <2>1. CASE acc.captured.bar < open
    <3>1. gap = OpeningGapReason(s, x)
      BY <1>4, <2>1 DEF GapOf, ActiveBeforeOpen
    <3> QED BY <2>1, <3>1, GapSays
  <2>2. CASE ~(acc.captured.bar < open)
    BY <1>4, <2>2 DEF GapOf, ActiveBeforeOpen
  <2> QED BY <2>1, <2>2
<1>8. acc.captured.bar < open => /\ MeetsTarget(s, x.o, x.o) => F = {"WIN"}
                                 /\ MeetsStop(s, x.o, x.o) => F = {"LOSS"}
                                 /\ MeetsStop(s, x.l, x.h) /\ ~MeetsTarget(s, x.o, x.o) => "LOSS" \in Q
  BY DEF Arrives
<1>9. ~(acc.captured.bar < open) /\ MeetsStop(s, x.l, x.h) => "LOSS" \in Q
  BY DEF Arrives
<1>10. /\ MeetsTarget(s, x.o, x.o) => MeetsTarget(s, x.l, x.h)
       /\ MeetsStop(s, x.o, x.o) => MeetsStop(s, x.l, x.h)
  BY OpenSays
<1>11. /\ MeetsTarget(s, x.l, x.h) /\ ~MeetsStop(s, x.l, x.h) => F = {"WIN"}
       /\ MeetsStop(s, x.l, x.h) /\ ~MeetsTarget(s, x.l, x.h) => F = {"LOSS"}
  <2>1. /\ F # {} /\ F \in SUBSET {"ACTIVE", "WIN", "LOSS"}
        /\ "WIN" \in F => MeetsTarget(s, x.l, x.h)
        /\ "LOSS" \in F => MeetsStop(s, x.l, x.h)
        /\ "ACTIVE" \in F => ~MeetsTarget(s, x.l, x.h) /\ ~MeetsStop(s, x.l, x.h)
    BY DEF Arrives, Decided
  <2> QED BY <2>1
<1>12. v = "TP_HIT" => F = {"WIN"}
  <2>1. CASE gap = "TAKE_PROFIT"
    BY <1>7, <1>8, <2>1
  <2>2. CASE gap = "STOP_LOSS"
    BY <1>6, <2>2
  <2>3. CASE gap = "NONE"
    BY <1>6, <1>11, <2>3
  <2> QED BY <1>7, <2>1, <2>2, <2>3
<1>13. v = "SL_HIT" => F = {"LOSS"} \/ (k.policy = "CONSERVATIVE_STOP_FIRST" /\ ("LOSS" \in Q \/ x.o = s.tp))
  <2>1. CASE gap = "TAKE_PROFIT"
    BY <1>6, <2>1
  <2>2. CASE gap = "STOP_LOSS"
    BY <1>7, <1>8, <2>2
  <2>3. CASE gap = "NONE"
    <3>1. CASE MeetsTarget(s, x.l, x.h) /\ MeetsStop(s, x.l, x.h)
      <4>1. "LOSS" \in Q \/ x.o = s.tp
        BY <1>7, <1>8, <1>9, <2>3, <3>1
      <4> QED BY <1>6, <2>3, <3>1, <4>1
    <3>2. CASE ~(MeetsTarget(s, x.l, x.h) /\ MeetsStop(s, x.l, x.h))
      BY <1>6, <1>11, <2>3, <3>2
    <3> QED BY <3>1, <3>2
  <2> QED BY <1>7, <2>1, <2>2, <2>3
<1>14. v \in Closings
  BY <1>3, <1>6 DEF Closings
<1>15. bars[Last(new.events).bar \div d + 1].o = x.o
  BY <1>2
<1>16. Forces(s, bars, d, k, new, F, Q, C)
  BY <1>5, <1>12, <1>13, <1>14, <1>15 DEF Forces, Closings
<1> QED BY <1>1, <1>2, <1>3, <1>16 DEF Told, Shape, Closings, Terminal

\* What an active signal that meets a bar is reported as.
LEMMA ResolveTold ==
    ASSUME NEW s, Levels(s), NEW bars, NEW d, NEW k, NEW x, IsCandle(x), NEW open \in Int, NEW close \in Int,
           open < close, bars[open \div d + 1] = x,
           NEW acc, Shape(acc), acc.status = "ACTIVE", NEW F, NEW Q, NEW C, Arrives(s, x, open, acc.captured, F, Q),
           NEW new, new = ResolveBar(s, x, open, close, k, acc)
    PROVE  Told(s, bars, d, k, new, close, F, Q, C)
<1> DEFINE tp == MeetsTarget(s, x.l, x.h)
           sl == MeetsStop(s, x.l, x.h)
<1>1. TakeProfitTouched(s, x) = tp /\ StopLossTouched(s, x) = sl
  BY DEF TakeProfitTouched, StopLossTouched, MeetsTarget, MeetsStop
<1>2. CASE tp \/ sl
  <2>1. PICK status, price, reason :
           /\ new = Closed(acc, status, close, open, price, reason)
           /\ status = IF tp /\ sl
                       THEN IF k.policy = "CONSERVATIVE_STOP_FIRST" THEN "SL_HIT" ELSE "AMBIGUOUS"
                       ELSE IF tp THEN "TP_HIT" ELSE "SL_HIT"
    <3> HIDE DEF tp, sl
    <3> QED BY <1>1, <1>2 DEF ResolveBar
  <2> QED BY <1>2, <2>1, ClosedTold
<1>3. CASE ~tp /\ ~sl
  <2>1. new = [acc EXCEPT !.last = close]
    <3> HIDE DEF tp, sl
    <3> QED BY <1>1, <1>3 DEF ResolveBar
  <2>2. /\ LifeFields(new) /\ new.status = "ACTIVE" /\ new.captured = acc.captured /\ new.events = acc.events
        /\ new.raised = acc.raised
    BY <2>1 DEF Shape, LifeFields
  <2>3. Shape(new)
    BY <2>2 DEF Shape
  <2>4. F = {"ACTIVE"} /\ Q = {"ACTIVE"}
    <3>1. Decided(s, x, F) /\ Decided(s, x, Q)
      BY DEF Arrives
    <3> QED BY <1>3, <3>1 DEF Decided
  <2>5. acc.captured.executed = TRUE /\ acc.captured.bar \in Int /\ acc.captured.bar < close
    BY DEF Arrives
  <2>6. Verdict(s, bars, d, k, new) = "ACTIVE"
    BY <2>2 DEF Verdict, Terminal
  <2>7. Forces(s, bars, d, k, new, F, Q, C)
    BY <2>4, <2>6 DEF Forces
  <2> QED BY <2>2, <2>3, <2>4, <2>5, <2>7 DEF Told
<1> QED BY <1>2, <1>3

\* What a bar fills of a waiting signal: whenever it meets the zone, and at the open only
\* when that is in the zone.
LEMMA EntryMeetsZone ==
    ASSUME NEW s, Levels(s), NEW bars, NEW n \in Nat \ {0}, NEW d \in Nat \ {0}, NEW k, NEW x, x = bars[n],
           IsCandle(x), NEW e, e = ExecuteEntryCandle(s, bars, n, d, k)
    PROVE  /\ e.executed = MeetsZone(s, x.l, x.h)
           /\ e.executed => /\ e.bar = (n - 1) * d
                            /\ OrderKnown(e, (n - 1) * d) <=> s.low <= x.o /\ x.o <= s.high
<1>1. /\ Ordered(s) /\ s.low \in Int /\ s.high \in Int /\ x.o \in Int
      /\ x.l \in Int /\ x.h \in Int /\ x.l <= x.o /\ x.o <= x.h
  BY LevelsOrdered DEF Levels, Numbers, IsCandle, Within
<1>2. (n - 1) * d # n * d
  BY BarTimes
<1> DEFINE inside == x.o \in s.low..s.high
           below == x.o < s.low /\ x.h >= s.low
           above == x.o > s.high /\ x.l <= s.high
<1>3. (inside \/ below \/ above) = MeetsZone(s, x.l, x.h)
  BY <1>1 DEF MeetsZone, Ordered
<1>4. inside <=> s.low <= x.o /\ x.o <= s.high
  BY <1>1
<1>5. CASE ~(inside \/ below \/ above)
  <2>1. e = NoEntry
    BY <1>5, Zenon DEF ExecuteEntryCandle
  <2>2. e.executed = FALSE
    BY <2>1 DEF NoEntry
  <2> QED BY <1>3, <1>5, <2>2
<1>6. CASE inside \/ below \/ above
  <2>1. e.executed = TRUE /\ e.bar = (n - 1) * d /\ e.at = IF inside THEN (n - 1) * d ELSE n * d
    BY <1>6, Zenon DEF ExecuteEntryCandle
  <2> HIDE DEF inside, below, above
  <2> QED BY <1>2, <1>3, <1>4, <1>6, <2>1 DEF OrderKnown
<1> QED BY <1>5, <1>6

\* What a signal that ends without a trade is reported as.
LEMMA NoTradeTold ==
    ASSUME NEW s, NEW bars, NEW d, NEW k, NEW acc, Shape(acc), NEW t, NEW F, NEW Q, NEW C,
           NEW new,
           \/ /\ \E inv, bar, last : new = Cancelled(acc, inv, bar, last)
              /\ C = {"WAITING"}
           \/ /\ \E close, open, price, reason :
                    new = Closed(acc, "AMBIGUOUS", close, open, price, reason) /\ acc.captured.bar = open /\ open \in Int
              /\ acc.captured.executed = TRUE
    PROVE  Told(s, bars, d, k, new, t, F, Q, C)
<1>1. LifeFields(acc) /\ IsSeq(acc.events) /\ acc.raised \in BOOLEAN
  BY DEF Shape
<1>2. ASSUME NEW inv, NEW bar, NEW last, new = Cancelled(acc, inv, bar, last), C = {"WAITING"}
      PROVE  Told(s, bars, d, k, new, t, F, Q, C)
  <2>1. /\ LifeFields(new) /\ new.status = "CANCELLED" /\ new.raised = acc.raised
        /\ NextEvent(acc, new, Event("CANCELLED", inv, bar, NoPrice, "STRUCTURAL_INVALIDATION_BEFORE_ENTRY"))
    BY <1>1, <1>2, CancelledIs
  <2>2. Shape(new)
    BY <1>1, <2>1 DEF Shape, NextEvent, Terminal
  <2>3. Verdict(s, bars, d, k, new) = "CANCELLED"
    BY <2>1 DEF Verdict, EvaluateExecution
  <2> QED BY <1>2, <2>1, <2>2, <2>3 DEF Told, Forces
<1>3. ASSUME NEW close, NEW open \in Int, NEW price, NEW reason,
             new = Closed(acc, "AMBIGUOUS", close, open, price, reason), acc.captured.bar = open,
             acc.captured.executed = TRUE
      PROVE  Told(s, bars, d, k, new, t, F, Q, C)
  <2>1. PICK status : status = "AMBIGUOUS"
    OBVIOUS
  <2>2. /\ LifeFields(new) /\ new.status = status /\ new.raised = acc.raised /\ new.captured = acc.captured
        /\ NextEvent(acc, new, Event(status, close, open, price, reason))
    BY <1>1, <1>3, <2>1, ClosedIs
  <2>3. Shape(new)
    BY <1>1, <2>1, <2>2 DEF Shape, NextEvent, Terminal
  <2>4. Last(new.events).bar = open
    BY <2>2 DEF NextEvent, Event
  <2>5. GapOf(s, bars[open \div d + 1], open, new.captured) = "NONE"
    BY <1>3, <2>2 DEF GapOf, ActiveBeforeOpen
  <2>6. PICK gap : gap = GapOf(s, bars[open \div d + 1], open, new.captured)
    OBVIOUS
  <2>7. PICK bar : bar = bars[open \div d + 1]
    OBVIOUS
  <2>8. new.status \in Closings /\ new.captured.executed = TRUE /\ gap = "NONE" /\ gap = GapOf(s, bar, open, new.captured)
    BY <1>3, <2>1, <2>2, <2>5, <2>6, <2>7 DEF Closings
  <2>9. Verdict(s, bars, d, k, new) = IF gap = "TAKE_PROFIT" THEN "TP_HIT"
                                        ELSE IF gap = "STOP_LOSS" THEN "SL_HIT" ELSE new.status
    BY <2>4, <2>7, <2>8, VerdictIs
  <2>10. Verdict(s, bars, d, k, new) = "AMBIGUOUS"
    BY <2>1, <2>2, <2>8, <2>9
  <2> QED BY <2>1, <2>2, <2>3, <2>10 DEF Told, Forces
<1> QED BY <1>2, <1>3

\* What a bar that fills it makes of a waiting signal, which it reaches with what the
\* candles and the bars make of it.
LEMMA ActivateTold ==
    ASSUME NEW s, Levels(s), NEW bars, NEW d, NEW k, NEW x, IsCandle(x), NEW open \in Int, NEW close \in Int,
           open < close, bars[open \div d + 1] = x,
           NEW seen, Shape(seen), NEW entry, seen.captured = entry, entry.executed = TRUE, entry.bar = open,
           NEW F, NEW Q, NEW C,
           OrderKnown(entry, open) \/ (~MeetsTarget(s, x.l, x.h) /\ ~MeetsStop(s, x.l, x.h)) =>
               Arrives(s, x, open, entry, F, Q),
           NEW new, new = ActivateBar(s, x, open, close, k, seen, entry)
    PROVE  Told(s, bars, d, k, new, close, F, Q, C)
<1>1. LifeFields(seen) /\ IsSeq(seen.events) /\ seen.raised \in BOOLEAN
  BY DEF Shape
<1> DEFINE e == Event("ACTIVATED", entry.at, open, entry.price, "ENTRY_EXECUTION_CONFIRMED")
           active == [seen EXCEPT !.status = "ACTIVE", !.activated = entry.at, !.last = close,
                                  !.events = Append(@, e)]
<1>2. PICK a : a = active
  OBVIOUS
<1>3. /\ LifeFields(a) /\ a.status = "ACTIVE" /\ a.captured = entry /\ a.raised = seen.raised
      /\ a.events = Append(seen.events, e)
  <2> HIDE DEF e
  <2> QED BY <1>1, <1>2 DEF LifeFields
<1>4. IsSeq(a.events)
  <2> HIDE DEF e
  <2>1. PICK f : f = seen.events
    OBVIOUS
  <2>2. IsSeq(Append(f, e))
    BY <1>1, <2>1, AppendIs
  <2> QED BY <1>3, <2>1, <2>2
<1>5. Shape(a)
  BY <1>1, <1>3, <1>4 DEF Shape
<1>6. PICK touched : touched = (MeetsTarget(s, x.l, x.h) \/ MeetsStop(s, x.l, x.h)) /\ touched \in BOOLEAN
  OBVIOUS
<1>7. (TakeProfitTouched(s, x) \/ StopLossTouched(s, x)) = touched
  BY <1>6 DEF TakeProfitTouched, StopLossTouched, MeetsTarget, MeetsStop
<1>8. new = IF touched /\ ~OrderKnown(entry, open)
            THEN Closed(a, "AMBIGUOUS", close, open, NoPrice, "ENTRY_AND_EXIT_ORDER_UNKNOWN")
            ELSE ResolveBar(s, x, open, close, k, a)
  BY <1>2, <1>7, Zenon DEF ActivateBar
<1>9. CASE touched /\ ~OrderKnown(entry, open)
  <2>1. \E c, o, p, r : new = Closed(a, "AMBIGUOUS", c, o, p, r) /\ a.captured.bar = o /\ o \in Int
    BY <1>3, <1>8, <1>9
  <2> QED BY <1>3, <1>5, <2>1, NoTradeTold
<1>10. CASE ~(touched /\ ~OrderKnown(entry, open))
  <2>1. Arrives(s, x, open, a.captured, F, Q)
    BY <1>3, <1>6, <1>10
  <2>2. new = ResolveBar(s, x, open, close, k, a)
    BY <1>8, <1>10
  <2> QED BY <1>3, <1>5, <2>1, <2>2, ResolveTold
<1> QED BY <1>9, <1>10

-----------------------------------------------------------------------------
(* A turn of the replay loop tells what is forced *)

\* One turn of the replay loop in a scene: inv is when the structure was lost, and C what
\* the candles up to then leave possible.
Turn(s, bars, d, inv, k, n, acc, F0, F, Q0, Q, C) ==
    /\ n \in Nat \ {0} /\ d \in Nat \ {0}
    /\ SceneBar(s, bars[n], d, n, F0, F, Q0, Q)
    /\ Told(s, bars, d, k, acc, (n - 1) * d, F0, Q0, C)
    /\ inv = NoTime \/ inv \in Nat
    /\ inv # NoTime /\ inv <= (n - 1) * d /\ F0 = {"WAITING"} => C = {"WAITING"}
    /\ inv # NoTime /\ inv <= n * d /\ F = {"WAITING"} => C = {"WAITING"}

\* A turn that does nothing.
LEMMA TurnRests ==
    ASSUME NEW s, NEW bars, NEW d, NEW inv, NEW k, NEW n, NEW acc, NEW F0, NEW F, NEW Q0, NEW Q, NEW C,
           Turn(s, bars, d, inv, k, n, acc, F0, F, Q0, Q, C),
           acc.raised \/ Settled(acc) \/ Predates(s, (n - 1) * d)
    PROVE  Told(s, bars, d, k, acc, n * d, F, Q, C)
<1>1. /\ Shape(acc) /\ (n - 1) * d \in Nat /\ n * d \in Nat /\ (n - 1) * d < n * d
      /\ Told(s, bars, d, k, acc, (n - 1) * d, F0, Q0, C)
      /\ SceneBar(s, bars[n], d, n, F0, F, Q0, Q)
  BY BarTimes DEF Turn, Told
<1>2. CASE acc.raised
  BY <1>1, <1>2 DEF Told
<1>3. CASE ~acc.raised /\ Settled(acc)
  <2>1. acc.status \notin {"WAITING", "ACTIVE"} /\ acc.status \in Terminal
    BY <1>3 DEF Settled, Terminal
  <2>2. PICK v : v = Verdict(s, bars, d, k, acc)
    OBVIOUS
  <2>3. v \notin {"WAITING", "ACTIVE"}
    BY <2>1, <2>2 DEF Verdict
  <2>4. Persists(F0, F) /\ Persists(Q0, Q)
    BY <1>1 DEF SceneBar
  <2>5. Forces(s, bars, d, k, acc, F0, Q0, C)
    BY <1>1, <1>3 DEF Told
  <2>6. Forces(s, bars, d, k, acc, F, Q, C)
    BY <2>2, <2>3, <2>4, <2>5 DEF Forces, Persists
  <2> QED BY <1>1, <2>1, <2>6 DEF Told
<1>4. CASE ~acc.raised /\ ~Settled(acc)
  <2>1. F = F0 /\ Q = Q0
    BY <1>1, <1>4 DEF SceneBar
  <2>2. PICK lo \in Nat, hi \in Nat : lo = (n - 1) * d /\ hi = n * d /\ lo < hi
    BY <1>1
  <2>3. Told(s, bars, d, k, acc, lo, F, Q, C)
    BY <1>1, <2>1, <2>2
  <2>4. Told(s, bars, d, k, acc, hi, F, Q, C)
    BY <2>2, <2>3 DEF Told
  <2> QED BY <2>2, <2>4
<1> QED BY <1>2, <1>3, <1>4

\* A turn of an active signal.
LEMMA TurnActive ==
    ASSUME NEW s, NEW bars, NEW d, NEW inv, NEW k, NEW n, NEW acc, NEW F0, NEW F, NEW Q0, NEW Q, NEW C,
           Turn(s, bars, d, inv, k, n, acc, F0, F, Q0, Q, C),
           ~acc.raised, acc.status = "ACTIVE", ~Predates(s, (n - 1) * d),
           NEW new, new = ReplayBar(s, bars, d, inv, k, acc, n)
    PROVE  Told(s, bars, d, k, new, n * d, F, Q, C)
<1>1. /\ (n - 1) * d \in Nat /\ n * d \in Nat /\ (n - 1) * d < n * d
      /\ Told(s, bars, d, k, acc, (n - 1) * d, F0, Q0, C)
      /\ SceneBar(s, bars[n], d, n, F0, F, Q0, Q) /\ n \in Nat \ {0} /\ d \in Nat \ {0}
  BY BarTimes DEF Turn
<1>2. PICK open \in Nat, close \in Nat : open = (n - 1) * d /\ close = n * d /\ open < close
  BY <1>1
<1>3. PICK x : x = bars[n]
  OBVIOUS
<1>4. bars[open \div d + 1] = x
  BY <1>1, <1>2, <1>3, BarIndex
<1>5. new = ResolveBar(s, x, open, close, k, acc)
  <2>1. NoEntry.executed = FALSE
    BY DEF NoEntry
  <2> QED BY <1>2, <1>3, <2>1 DEF ReplayBar, EntryEvidenceHolds, Invalidates, Settled, Terminal
<1>6. /\ Levels(s) /\ IsCandle(x) /\ BarEffect(s, x, F0, F) /\ BarEffect(s, x, Q0, Q) /\ MayLose(s, x, Q0, Q)
  BY <1>1, <1>3 DEF SceneBar
<1>7. /\ Shape(acc) /\ Q0 = {"ACTIVE"} /\ acc.captured.executed = TRUE
      /\ acc.captured.bar \in Int /\ acc.captured.bar < open
      /\ Forces(s, bars, d, k, acc, F0, Q0, C)
  BY <1>1, <1>2 DEF Told
<1>8. F0 = {"ACTIVE"}
  <2>1. Verdict(s, bars, d, k, acc) = "ACTIVE"
    BY DEF Verdict, Terminal
  <2> QED BY <1>7, <2>1 DEF Forces
<1>9. ActsFromOpen(s, F0, x) /\ ActsFromOpen(s, Q0, x)
  BY <1>7, <1>8 DEF ActsFromOpen
<1>10. Decided(s, x, F) /\ Decided(s, x, Q)
  BY <1>6, <1>9 DEF BarEffect
<1>11. /\ MeetsTarget(s, x.o, x.o) => F = {"WIN"}
       /\ MeetsStop(s, x.o, x.o) => F = {"LOSS"}
  BY <1>6, <1>8 DEF BarEffect
<1>12. MeetsStop(s, x.l, x.h) /\ ~MeetsTarget(s, x.o, x.o) => "LOSS" \in Q
  BY <1>6, <1>9 DEF MayLose
<1>13. Arrives(s, x, open, acc.captured, F, Q)
  BY <1>7, <1>10, <1>11, <1>12 DEF Arrives
<1>14. Told(s, bars, d, k, new, close, F, Q, C)
  BY <1>2, <1>4, <1>5, <1>6, <1>7, <1>13, ResolveTold
<1> QED BY <1>2, <1>14

\* What a waiting signal's bar makes of it.
Awaits(s, bars, d, inv, k, acc, n, open, close, x, entry, seen, new) ==
    \/ ~EntryEvidenceHolds(s, entry) /\ new = [acc EXCEPT !.raised = TRUE]
    \/ /\ EntryEvidenceHolds(s, entry)
       /\ \/ Invalidates(acc, inv, open) /\ new = Cancelled(seen, inv, NoTime, Max({acc.last, inv}))
          \/ /\ ~Invalidates(acc, inv, open) /\ Invalidates(acc, inv, close)
             /\ \/ entry.executed /\ new = Closed(seen, "AMBIGUOUS", close, open, NoPrice,
                                                  "ENTRY_AND_INVALIDATION_ORDER_UNKNOWN")
                \/ ~entry.executed /\ new = Cancelled(seen, inv, open, close)
          \/ /\ ~Invalidates(acc, inv, open) /\ ~Invalidates(acc, inv, close)
             /\ \/ entry.executed /\ new = ActivateBar(s, x, open, close, k, seen, entry)
                \/ ~entry.executed /\ new = [acc EXCEPT !.last = close]

\* A turn of a waiting signal.
LEMMA TurnWaiting ==
    ASSUME NEW s, NEW bars, NEW d, NEW inv, NEW k, NEW n, NEW acc, NEW F0, NEW F, NEW Q0, NEW Q, NEW C,
           Turn(s, bars, d, inv, k, n, acc, F0, F, Q0, Q, C),
           ~acc.raised, acc.status = "WAITING", ~Predates(s, (n - 1) * d),
           NEW new, new = ReplayBar(s, bars, d, inv, k, acc, n)
    PROVE  Told(s, bars, d, k, new, n * d, F, Q, C)
<1>1. /\ (n - 1) * d \in Nat /\ n * d \in Nat /\ (n - 1) * d < n * d
      /\ Told(s, bars, d, k, acc, (n - 1) * d, F0, Q0, C)
      /\ SceneBar(s, bars[n], d, n, F0, F, Q0, Q) /\ n \in Nat \ {0} /\ d \in Nat \ {0}
  BY BarTimes DEF Turn
<1>2. PICK open \in Nat, close \in Nat : open = (n - 1) * d /\ close = n * d /\ open < close
  BY <1>1
<1>3. PICK x : x = bars[n]
  OBVIOUS
<1>4. bars[open \div d + 1] = x
  BY <1>1, <1>2, <1>3, BarIndex
<1>5. PICK entry : entry = ExecuteEntryCandle(s, bars, n, d, k)
  OBVIOUS
<1>6. PICK seen : seen = IF entry.executed THEN [acc EXCEPT !.captured = entry] ELSE acc
  OBVIOUS
<1>7. Awaits(s, bars, d, inv, k, acc, n, open, close, x, entry, seen, new)
  BY <1>2, <1>3, <1>5, <1>6, Zenon DEF ReplayBar, Awaits, Settled, Terminal
<1>8. /\ Levels(s) /\ IsCandle(x) /\ BarEffect(s, x, F0, F) /\ BarEffect(s, x, Q0, Q) /\ MayLose(s, x, Q0, Q)
  BY <1>1, <1>3 DEF SceneBar
<1>9. /\ entry.executed = MeetsZone(s, x.l, x.h)
      /\ entry.executed => /\ entry.bar = open
                           /\ OrderKnown(entry, open) <=> s.low <= x.o /\ x.o <= s.high
  BY <1>1, <1>2, <1>3, <1>5, <1>8, EntryMeetsZone
<1>10. entry.executed \in BOOLEAN
  BY <1>8, <1>9 DEF MeetsZone, Levels, Numbers, IsCandle, Within
<1>11. /\ LifeFields(acc) /\ IsSeq(acc.events) /\ acc.raised = FALSE
       /\ Q0 = {"WAITING"} /\ F0 = {"WAITING"}
  <2>1. Verdict(s, bars, d, k, acc) = "WAITING"
    BY DEF Verdict, Terminal
  <2>2. Forces(s, bars, d, k, acc, F0, Q0, C) /\ Shape(acc) /\ Q0 = {"WAITING"}
    BY <1>1 DEF Told
  <2> QED BY <2>1, <2>2 DEF Forces, Shape
<1>12. /\ inv # NoTime /\ inv <= open => C = {"WAITING"}
       /\ inv # NoTime /\ inv <= close /\ F = {"WAITING"} => C = {"WAITING"}
  BY <1>2, <1>11 DEF Turn
<1>13. Shape(seen) /\ (entry.executed => seen.captured = entry)
  <2>1. CASE entry.executed
    <3>1. /\ LifeFields(seen) /\ seen.captured = entry /\ seen.status = "WAITING" /\ seen.raised = acc.raised
          /\ seen.events = acc.events
      BY <1>6, <1>11, <2>1 DEF LifeFields
    <3> QED BY <1>11, <3>1 DEF Shape
  <2>2. CASE ~entry.executed
    BY <1>6, <1>11, <2>2 DEF Shape
  <2> QED BY <2>1, <2>2
<1>14. ~entry.executed => F = {"WAITING"} /\ Q = {"WAITING"}
  BY <1>8, <1>9, <1>11 DEF BarEffect
<1>15. CASE new = [acc EXCEPT !.raised = TRUE]
  <2>1. /\ LifeFields(new) /\ new.raised = TRUE /\ new.status = "WAITING" /\ new.events = acc.events
    BY <1>11, <1>15 DEF LifeFields
  <2>2. Shape(new)
    BY <1>11, <2>1 DEF Shape
  <2> QED BY <2>1, <2>2 DEF Told
<1>16. CASE Invalidates(acc, inv, open) /\ new = Cancelled(seen, inv, NoTime, Max({acc.last, inv}))
  <2>1. C = {"WAITING"}
    BY <1>12, <1>16 DEF Invalidates
  <2>2. \E i, bar, last : new = Cancelled(seen, i, bar, last)
    BY <1>16
  <2> QED BY <1>13, <2>1, <2>2, NoTradeTold
<1>17. CASE entry.executed /\ new = Closed(seen, "AMBIGUOUS", close, open, NoPrice,
                                           "ENTRY_AND_INVALIDATION_ORDER_UNKNOWN")
  <2>1. seen.captured = entry /\ entry.executed = TRUE /\ seen.captured.bar = open /\ open \in Int
    BY <1>2, <1>9, <1>10, <1>13, <1>17
  <2>2. \E c, o, p, r : new = Closed(seen, "AMBIGUOUS", c, o, p, r) /\ seen.captured.bar = o /\ o \in Int
    BY <1>17, <2>1
  <2> QED BY <1>13, <2>1, <2>2, NoTradeTold
<1>18. CASE Invalidates(acc, inv, close) /\ ~entry.executed /\ new = Cancelled(seen, inv, open, close)
  <2>1. C = {"WAITING"}
    BY <1>12, <1>14, <1>18 DEF Invalidates
  <2>2. \E i, bar, last : new = Cancelled(seen, i, bar, last)
    BY <1>18
  <2> QED BY <1>13, <2>1, <2>2, NoTradeTold
<1>19. CASE entry.executed /\ new = ActivateBar(s, x, open, close, k, seen, entry)
  <2>1. entry.executed = TRUE /\ entry.bar = open /\ entry.bar \in Int /\ MeetsZone(s, x.l, x.h)
    BY <1>2, <1>9, <1>10, <1>19
  <2>2. ASSUME OrderKnown(entry, open)
        PROVE  Arrives(s, x, open, entry, F, Q)
    <3>1. s.low <= x.o /\ x.o <= s.high
      BY <1>9, <1>19, <2>2
    <3>2. ActsFromOpen(s, F0, x) /\ ActsFromOpen(s, Q0, x)
      BY <1>11, <3>1 DEF ActsFromOpen
    <3>3. Decided(s, x, F) /\ Decided(s, x, Q)
      BY <1>8, <3>2 DEF BarEffect
    <3>4. ~MeetsTarget(s, x.o, x.o)
      BY <1>8, <3>1, OpenSays
    <3>5. MeetsStop(s, x.l, x.h) => "LOSS" \in Q
      BY <1>8, <3>2, <3>4 DEF MayLose
    <3> QED BY <2>1, <3>3, <3>4, <3>5 DEF Arrives
  <2>3. ASSUME ~MeetsTarget(s, x.l, x.h), ~MeetsStop(s, x.l, x.h)
        PROVE  Arrives(s, x, open, entry, F, Q)
    <3>1. F = {"ACTIVE"} /\ Q = {"ACTIVE"}
      BY <1>8, <1>11, <2>1, <2>3 DEF BarEffect
    <3>2. Decided(s, x, F) /\ Decided(s, x, Q)
      BY <2>3, <3>1 DEF Decided
    <3> QED BY <2>1, <2>3, <3>2 DEF Arrives
  <2>4. OrderKnown(entry, open) \/ (~MeetsTarget(s, x.l, x.h) /\ ~MeetsStop(s, x.l, x.h)) =>
            Arrives(s, x, open, entry, F, Q)
    BY <2>2, <2>3
  <2>5. new = ActivateBar(s, x, open, close, k, seen, entry) /\ seen.captured = entry
    BY <1>13, <1>19
  <2>6. /\ open \in Int /\ close \in Int /\ open < close /\ bars[open \div d + 1] = x
        /\ Levels(s) /\ IsCandle(x) /\ Shape(seen) /\ entry.executed = TRUE /\ entry.bar = open
    BY <1>2, <1>4, <1>8, <1>13, <2>1
  <2>7. Told(s, bars, d, k, new, close, F, Q, C)
    BY ONLY <2>4, <2>5, <2>6, ActivateTold
  <2> QED BY <1>2, <2>7
<1>20. CASE ~entry.executed /\ new = [acc EXCEPT !.last = close]
  <2>1. /\ LifeFields(new) /\ new.raised = FALSE /\ new.status = "WAITING" /\ new.events = acc.events
    BY <1>11, <1>20 DEF LifeFields
  <2>2. Shape(new)
    BY <1>11, <2>1 DEF Shape
  <2>3. Verdict(s, bars, d, k, new) = "WAITING"
    BY <2>1 DEF Verdict, Terminal
  <2>4. Forces(s, bars, d, k, new, F, Q, C)
    BY <1>14, <1>20, <2>3 DEF Forces
  <2> QED BY <1>14, <1>20, <2>1, <2>2, <2>4 DEF Told
<1> QED BY <1>7, <1>15, <1>16, <1>17, <1>18, <1>19, <1>20, Zenon DEF Awaits

\* What the turn leaves is told as well.
LEMMA TurnTold ==
    ASSUME NEW s, NEW bars, NEW d, NEW inv, NEW k, NEW n, NEW acc, NEW F0, NEW F, NEW Q0, NEW Q, NEW C,
           Turn(s, bars, d, inv, k, n, acc, F0, F, Q0, Q, C)
    PROVE  Told(s, bars, d, k, ReplayBar(s, bars, d, inv, k, acc, n), n * d, F, Q, C)
<1>1. CASE acc.raised \/ Settled(acc) \/ Predates(s, (n - 1) * d)
  <2>1. ReplayBar(s, bars, d, inv, k, acc, n) = acc
    BY <1>1, Zenon DEF ReplayBar
  <2> QED BY <1>1, <2>1, TurnRests
<1>2. CASE ~(acc.raised \/ Settled(acc) \/ Predates(s, (n - 1) * d))
  <2>1. acc.status \in {"WAITING", "ACTIVE"}
    BY <1>2 DEF Turn, Told, Shape, Settled
  <2>2. PICK new : new = ReplayBar(s, bars, d, inv, k, acc, n)
    OBVIOUS
  <2>3. Told(s, bars, d, k, new, n * d, F, Q, C)
    BY <1>2, <2>1, <2>2, TurnActive, TurnWaiting
  <2> QED BY <2>2, <2>3
<1> QED BY <1>1, <1>2

\* Until the bar it is created in closes, nothing can happen to a signal.
LEMMA NothingBefore ==
    ASSUME NEW f, NEW s, NEW cs, NEW g, NEW m, Outcomes(f, s, cs, g, 1, m), s.createdAt \in 0..m
    PROVE  f[s.createdAt] = {"WAITING"}
<1>1. m \in Nat /\ g \in Nat \ {0} /\ s.createdAt \in Nat
  BY DEF Outcomes
<1> DEFINE G == {n \in 0..s.createdAt : f[n] = {"WAITING"}}
<1>2. 0 \in G
  BY <1>1 DEF Outcomes
<1>3. \A n \in 1..s.createdAt : n - 1 \in G => n \in G
  <2> SUFFICES ASSUME NEW n \in 1..s.createdAt, f[n - 1] = {"WAITING"}
               PROVE  f[n] = {"WAITING"}
    BY <1>1
  <2>1. n \in 1..m /\ n - 1 \in Nat /\ n <= s.createdAt
    BY <1>1
  <2>2. PICK q \in Nat : q = (n - 1) \div g
    BY <1>1, <2>1, WholeBars
  <2>3. PICK o \in Nat : o = q * g /\ o <= n - 1
    <3>1. PICK u \in Nat : u = n - 1
      BY <2>1
    <3>2. q * g <= u /\ q * g \in Nat
      BY <1>1, <2>2, <3>1, WholeBars, BarsBefore
    <3> QED BY <3>1, <3>2
  <2>4. ((n - 1) \div g) * g * 1 = o
    <3>1. o * 1 = o
      OBVIOUS
    <3> QED BY <2>2, <2>3, <3>1
  <2>5. Predates(s, o)
    BY ONLY <1>1, <2>1, <2>3 DEF Predates
  <2>6. f[n] = f[n - 1]
    BY <2>1, <2>4, <2>5, BeyondIs
  <2> QED BY <2>6
<1>4. s.createdAt \in G
  <2> HIDE DEF G
  <2>1. \A n \in 0..s.createdAt : n \in G
    BY <1>1, <1>2, <1>3, AfterEvery
  <2> QED BY <1>1, <2>1
<1> QED BY <1>4

\* What is told of a signal before its first bar.
LEMMA OpenedTold ==
    ASSUME NEW s, Numbers(s), NEW bars, NEW d, NEW inv, NEW k, NEW C,
           inv = s.createdAt => C = {"WAITING"}
    PROVE  Told(s, bars, d, k, Opened(s, inv), 0, {"WAITING"}, {"WAITING"}, C)
<1>1. PICK c : c = Created(s)
  OBVIOUS
<1>2. /\ LifeFields(c) /\ c.raised = FALSE /\ c.status = "WAITING"
      /\ c.events = << Event("CREATED", s.createdAt, NoTime, NoPrice, "SIGNAL_CREATED") >>
  BY <1>1 DEF Created, LifeFields
<1>3. IsSeq(c.events)
  BY <1>2 DEF IsSeq
<1>4. Shape(c)
  BY <1>2, <1>3 DEF Shape
<1>5. CASE inv # s.createdAt
  <2>1. Opened(s, inv) = c
    BY <1>1, <1>5 DEF Opened
  <2>2. Verdict(s, bars, d, k, c) = "WAITING"
    BY <1>2 DEF Verdict, Terminal
  <2>3. Forces(s, bars, d, k, c, {"WAITING"}, {"WAITING"}, C)
    BY <2>2 DEF Forces
  <2> QED BY <1>2, <1>4, <2>1, <2>3 DEF Told
<1>6. CASE inv = s.createdAt
  <2>1. Opened(s, inv) = Cancelled(c, inv, NoTime, s.createdAt)
    BY <1>1, <1>6 DEF Opened
  <2>2. PICK new : new = Opened(s, inv)
    OBVIOUS
  <2>3. \E i, bar, last : new = Cancelled(c, i, bar, last)
    BY <2>1, <2>2
  <2>4. PICK F, t : F = {"WAITING"} /\ t = 0
    OBVIOUS
  <2>5. Told(s, bars, d, k, new, t, F, F, C)
    BY <1>4, <1>6, <2>3, NoTradeTold
  <2> QED BY <2>2, <2>4, <2>5
<1> QED BY <1>5, <1>6

\* What is told of a replay over the bars of a scene.
LEMMA ReplayTold ==
    ASSUME NEW s, NEW bars, NEW d, NEW inv, NEW k, NEW cs, NEW m, NEW f, NEW q, Scene(s, bars, d, inv, cs, m, f, q),
           inv = NoTime \/ s.createdAt <= inv,
           NEW N, N = Len(bars)
    PROVE  Told(s, bars, d, k, ReplaySignalLifecycle(s, bars, d, inv, k), N * d, f[N * d], q[N], f[inv])
<1>1. PICK g : /\ Traces(g, s, bars, d, inv, k)
               /\ ReplaySignalLifecycle(s, bars, d, inv, k) = g[N]
  BY ReplayTrace DEF Scene
<1>2. /\ N \in Nat /\ d \in Nat \ {0} /\ m \in Nat /\ Levels(s) /\ Numbers(s) /\ s.createdAt \in Nat
      /\ Outcomes(f, s, cs, d, 1, m) /\ Outcomes(q, s, bars, 1, d, N)
      /\ f[0] = {"WAITING"} /\ q[0] = {"WAITING"}
      /\ inv = NoTime \/ inv \in 0..m
  BY DEF Scene, Outcomes, Levels, Numbers
<1> DEFINE G == {n \in 0..N : Told(s, bars, d, k, g[n], n * d, f[n * d], q[n], f[inv])}
<1>3. 0 \in G
  <2>1. g[0] = Opened(s, inv) /\ 0 * d = 0
    BY <1>1, <1>2 DEF Traces
  <2>2. inv = s.createdAt => f[inv] = {"WAITING"}
    <3> SUFFICES ASSUME inv = s.createdAt PROVE f[inv] = {"WAITING"}
      OBVIOUS
    <3>1. s.createdAt \in 0..m
      BY <1>2 DEF NoTime
    <3> QED BY <1>2, <3>1, NothingBefore
  <2>3. PICK C : C = f[inv]
    OBVIOUS
  <2>4. Told(s, bars, d, k, Opened(s, inv), 0, {"WAITING"}, {"WAITING"}, C)
    BY <1>2, <2>2, <2>3, OpenedTold
  <2>5. PICK z : z = 0 * d
    OBVIOUS
  <2>6. z = 0
    BY <2>1, <2>5
  <2>7. Told(s, bars, d, k, g[0], z, f[z], q[0], f[inv])
    BY ONLY <1>2, <2>1, <2>3, <2>4, <2>6
  <2>8. Told(s, bars, d, k, g[0], 0 * d, f[0 * d], q[0], f[inv])
    BY ONLY <2>5, <2>7
  <2>9. 0 \in 0..N
    BY <1>2
  <2> QED BY ONLY <2>8, <2>9
<1>4. ASSUME NEW n \in 1..N, n - 1 \in G
      PROVE  n \in G
  <2>1. n \in Nat \ {0} /\ n \in 0..N /\ n \in 1..Len(bars) /\ n \in 0..Len(bars) /\ n # 0
    BY <1>2
  <2>2. PICK lo \in Nat, hi \in Nat : lo = (n - 1) * d /\ hi = n * d /\ lo < hi
    BY <1>2, <2>1, BarTimes
  <2>3. hi <= m
    <3>1. n * d <= N * d
      BY <1>2, <2>1, BarsBefore
    <3>2. N * d <= m /\ N * d \in Nat
      BY <1>2, <2>1, BarsBefore DEF Scene
    <3>3. PICK e \in Nat : e = N * d
      BY <3>2
    <3> QED BY ONLY <2>2, <3>1, <3>2, <3>3, <1>2, hi \in Nat, e \in Nat
  <2>4. SceneBar(s, bars[n], d, n, f[lo], f[hi], q[n - 1], q[n])
    BY <2>1, <2>2, BarOfScene
  <2>5. g[n] = ReplayBar(s, bars, d, inv, k, g[n - 1], n)
    BY <1>1, <2>1, Zenon DEF Traces
  <2>6. Told(s, bars, d, k, g[n - 1], lo, f[lo], q[n - 1], f[inv])
    BY <1>4, <2>2
  <2>7. ASSUME NEW e \in 0..m, inv # NoTime, inv <= e, f[e] = {"WAITING"}
        PROVE  f[inv] = {"WAITING"}
    <3>1. Persists(f[inv], f[e])
      BY <1>2, <2>7, ManyCandles
    <3> QED BY <2>7, <3>1 DEF Persists
  <2>8. lo \in 0..m /\ hi \in 0..m
    BY <1>2, <2>2, <2>3
  <2>9. inv = NoTime \/ inv \in Nat
    BY <1>2
  <2>10. Turn(s, bars, d, inv, k, n, g[n - 1], f[lo], f[hi], q[n - 1], q[n], f[inv])
    BY <1>2, <2>1, <2>2, <2>4, <2>6, <2>7, <2>8, <2>9 DEF Turn
  <2>11. Told(s, bars, d, k, g[n], n * d, f[hi], q[n], f[inv])
    BY <2>5, <2>10, TurnTold
  <2> QED BY <2>1, <2>2, <2>11
<1>5. N \in G
  <2> HIDE DEF G
  <2>1. \A n \in 1..N : n - 1 \in G => n \in G
    BY <1>4
  <2>2. \A n \in 0..N : n \in G
    BY <1>2, <1>3, <2>1, AfterEvery
  <2> QED BY <1>2, <2>2
<1> QED BY <1>1, <1>5

-----------------------------------------------------------------------------
(* Every reported outcome is forced *)

\* What the canonical candles leave possible after each of them, and the signal's own bars.
AfterCandles(s, d) == [n \in 0..Length \cup {NoTime} |-> Possible(s, tape, d, 1, n)]
AfterBars(s, i, N) == [n \in 0..N |-> Possible(s, Series(i), 1, Signals[i].tf, n)]

\* The candles of a run and the visible bars of a signal are a scene.
LEMMA SceneNow ==
    ASSUME TapeOK, NEW i \in Ids, NEW c \in Nat, NEW inv, inv = NoTime \/ inv \in 0..now, c <= now,
           NEW s, s = Signal(i, c), NEW d, d = Signals[i].tf, NEW V, V = Visible(i, now)
    PROVE  Scene(s, V, d, inv, tape, Length, AfterCandles(s, d), AfterBars(s, i, Len(V)))
<1>1. /\ Levels(s) /\ d \in Nat \ {0}
  BY SignalNumbers DEF Levels
<1>2. tape \in Seq(cfg.candles) /\ now \in Nat /\ now <= Length /\ Length \in Nat
  BY DEF TapeOK, Length
<1>3. \A x \in cfg.candles : IsCandle(x)
  BY SignalsAssumption DEF TapeOK, CandleHolds, IsCandle, Within
<1>4. /\ Len(V) = now \div d
      /\ \A n \in 1..Len(V) : V[n] = Series(i)[n]
  <2>1. NoTime = NoTime /\ now <= Length /\ now \in Nat
    BY <1>2
  <2>2. /\ Len(Visible(i, now)) = now \div Signals[i].tf
        /\ \A n \in 1..Len(Visible(i, now)) : Visible(i, now)[n] = Series(i)[n]
    BY <2>1, ReplayInputsAt
  <2> QED BY <2>2
<1>5. PICK N \in Nat : N = now \div d /\ N * d <= now /\ N = Len(V)
  BY <1>1, <1>2, <1>4, WholeBars
<1>6. PICK L \in Nat : L = Length /\ L \div d \in Nat /\ N <= L \div d
  <2>1. PICK t \in Nat, u \in Nat : t = now /\ u = Length /\ t <= u
    BY <1>2
  <2>2. t \div d <= u \div d /\ u \div d \in Nat
    BY <1>1, <2>1, WholeBars, FewerBars
  <2> QED BY <1>5, <2>1, <2>2
<1>7. PICK M \in Nat : M = N * d /\ M <= Length
  BY <1>1, <1>2, <1>5, BarsBefore
<1>8. \A b \in 1..N : IsBar(V[b], tape, d, b)
  <2> SUFFICES ASSUME NEW b \in 1..N PROVE IsBar(V[b], tape, d, b)
    OBVIOUS
  <2>1. b \in 1..(Len(tape) \div d)
    BY <1>6 DEF Length
  <2>2. IsBar(Derived(tape, d)[b], tape, d, b)
    BY <1>1, <1>2, <1>3, <2>1, DerivedIsBar
  <2>3. V[b] = Derived(tape, d)[b]
    BY <1>4, <1>5 DEF Series
  <2> QED BY <2>2, <2>3
<1>9. PICK f : f = AfterCandles(s, d)
  OBVIOUS
<1>10. PICK q : q = AfterBars(s, i, N)
  OBVIOUS
<1>11. Outcomes(f, s, tape, d, 1, Length)
  <2>1. PossibleFrom(s, tape, d, 1, Length)
    BY <1>2, PossibleGrows
  <2>2. \A n \in 0..Length : f[n] = Possible(s, tape, d, 1, n)
    BY <1>9 DEF AfterCandles
  <2>3. f[0] = {"WAITING"}
    BY <1>2, <2>1, <2>2 DEF PossibleFrom
  <2>4. ASSUME NEW n \in 1..Length
        PROVE  f[n] = Beyond(s, tape, d, 1, f[n - 1], n) /\ IsCandle(tape[n])
    <3>1. n \in 0..Length /\ n - 1 \in 0..Length
      BY <1>2
    <3>2. tape[n] \in cfg.candles
      BY <1>2 DEF Length
    <3> QED BY <1>3, <2>1, <2>2, <3>1, <3>2 DEF PossibleFrom
  <2> QED BY <1>1, <1>2, <2>3, <2>4 DEF Outcomes
<1>12. Outcomes(q, s, V, 1, d, N)
  <2>1. PossibleFrom(s, Series(i), 1, d, N)
    BY PossibleGrows
  <2>2. \A n \in 0..N : q[n] = Possible(s, Series(i), 1, d, n)
    BY <1>10 DEF AfterBars
  <2>3. q[0] = {"WAITING"}
    BY <2>1, <2>2 DEF PossibleFrom
  <2>4. ASSUME NEW n \in 1..N
        PROVE  q[n] = Beyond(s, V, 1, d, q[n - 1], n) /\ IsCandle(V[n])
    <3>1. n \in 0..N /\ n - 1 \in 0..N /\ n \in 1..Len(V)
      BY <1>5
    <3>2. q[n] = Beyond(s, Series(i), 1, d, q[n - 1], n)
      BY <2>1, <2>2, <3>1 DEF PossibleFrom
    <3>3. V[n] = Series(i)[n]
      BY <1>4, <3>1
    <3>4. n - 1 = ((n - 1) \div 1) * 1
      OBVIOUS
    <3>5. Beyond(s, V, 1, d, q[n - 1], n) = Beyond(s, Series(i), 1, d, q[n - 1], n)
      BY <3>3, <3>4, Zenon DEF Beyond
    <3> QED BY <1>8, <3>2, <3>5 DEF IsBar
  <2> QED BY <1>1, <2>3, <2>4 DEF Outcomes
<1>13. inv = NoTime \/ inv \in 0..Length
  BY <1>2
<1> QED BY <1>1, <1>5, <1>7, <1>8, <1>9, <1>10, <1>11, <1>12, <1>13 DEF Scene

\* The bar that ended a replayed trade is visible, so its execution is that of the series.
LEMMA SameEnd ==
    ASSUME TapeOK, NEW i \in Ids, NEW c \in Nat, NEW t \in Nat, t <= Length, c <= t, NEW inv,
           inv = NoTime \/ (inv \in Nat /\ c <= inv),
           NEW s, s = Signal(i, c), NEW d, d = Signals[i].tf, NEW V, V = Visible(i, t),
           NEW lc, lc = ReplaySignalLifecycle(s, V, d, inv, cfg)
    PROVE  /\ lc.status \in Closings =>
                 V[Last(lc.events).bar \div d + 1] = Series(i)[Last(lc.events).bar \div d + 1]
           /\ \A e : lc.status \in Terminal =>
                 EvaluateExecution(s, V, d, lc, e, cfg) = EvaluateExecution(s, Series(i), d, lc, e, cfg)
<1>1. /\ ReplayInputs(s, V, d, inv, cfg, t)
      /\ \A n \in 1..Len(V) : V[n] = Series(i)[n]
  BY ReplayInputsAt
<1>2. ASSUME lc.status \in Closings
      PROVE  V[Last(lc.events).bar \div d + 1] = Series(i)[Last(lc.events).bar \div d + 1]
  <2>1. PICK m \in 1..Len(V) : Last(lc.events).bar = (m - 1) * d
    BY <1>1, <1>2, ReplayLife
  <2>2. m \in Nat \ {0} /\ d \in Nat \ {0}
    BY <1>1 DEF ReplayInputs
  <2>3. ((m - 1) * d) \div d + 1 = m
    BY <2>2, BarIndex
  <2> QED BY <1>1, <2>1, <2>3
<1>3. ASSUME NEW e, lc.status \in Terminal
      PROVE  EvaluateExecution(s, V, d, lc, e, cfg) = EvaluateExecution(s, Series(i), d, lc, e, cfg)
  <2>1. CASE lc.status = "CANCELLED"
    BY <2>1, Zenon DEF EvaluateExecution
  <2>2. CASE lc.status # "CANCELLED"
    <3>1. lc.status \in Closings
      BY <1>3, <2>2 DEF Terminal, Closings
    <3> QED BY <1>2, <3>1, Zenon DEF EvaluateExecution
  <2> QED BY <2>1, <2>2
<1> QED BY <1>2, <1>3

\* While no result was refused, every runtime is the replay of what is visible now, and
\* its execution that of its end.
Current(i, rt) ==
    /\ rt.lc = ReplaySignalLifecycle(rt.s, Visible(i, now), Signals[i].tf, rt.inv, cfg)
    /\ rt.execution = IF rt.lc.status \in Terminal
                      THEN EvaluateExecution(rt.s, Series(i), Signals[i].tf, rt.lc, rt.lc.captured, cfg)
                      ELSE NoExit
CurrentOK == run # "RESULT_REFUSED" => \A i \in Ids : Known(i) => Current(i, runtimes[i])

\* A run starts so: it has no runtime.
LEMMA CurrentInit == Init => CurrentOK
BY DEF Init, CurrentOK, Known

\* An evaluation that goes on keeps it.
LEMMA CurrentStep ==
    ASSUME EngineInv, CurrentOK, run = "RUNNING", now < Length, NEW i \in Ids, NEW rt, GoesOn(i, rt)
    PROVE  /\ rt.lc = ReplaySignalLifecycle(rt.s, Visible(i, now + 1), Signals[i].tf, rt.inv, cfg)
           /\ rt.execution = IF rt.lc.status \in Terminal
                             THEN EvaluateExecution(rt.s, Series(i), Signals[i].tf, rt.lc, rt.lc.captured, cfg)
                             ELSE NoExit
<1>1. PICK old : old = runtimes[i]
  OBVIOUS
<1>2. Known(i) => Current(i, old) /\ Later(old.lc, rt.lc) /\ rt.s = old.s
  BY <1>1 DEF CurrentOK, GoesOn
<1>3. ~Known(i) => old.execution = NoExit /\ old.lc.status \notin Terminal
  BY <1>1 DEF Known, NoRuntime, Terminal
<1>4. rt.lc = ReplaySignalLifecycle(rt.s, Visible(i, now + 1), Signals[i].tf, rt.inv, cfg)
  BY DEF GoesOn
<1>5. CASE old.lc.status \in Terminal
  <2>1. Known(i) /\ rt.lc = old.lc /\ rt.execution = old.execution
    BY <1>1, <1>2, <1>3, <1>5 DEF Later, GoesOn
  <2> QED BY <1>2, <1>4, <1>5, <2>1 DEF Current
<1>6. CASE old.lc.status \notin Terminal /\ rt.lc.status \notin Terminal
  <2>1. rt.execution = old.execution
    BY <1>1, <1>6 DEF GoesOn
  <2>2. old.execution = NoExit
    BY <1>2, <1>3, <1>6 DEF Current
  <2> QED BY <1>4, <1>6, <2>1, <2>2
<1>7. CASE old.lc.status \notin Terminal /\ rt.lc.status \in Terminal
  <2>1. rt.execution = EvaluateExecution(rt.s, Visible(i, now + 1), Signals[i].tf, rt.lc, rt.lc.captured, cfg)
    BY <1>1, <1>7 DEF GoesOn
  <2>2. PICK c : c = rt.s.createdAt
    OBVIOUS
  <2>3. PICK t \in Nat : t = now + 1 /\ t <= Length
    BY DEF EngineInv, TapeOK, Length
  <2>4. /\ rt.s = Signal(i, c) /\ c \in Nat /\ c <= t
        /\ rt.inv = NoTime \/ (rt.inv \in Nat /\ c <= rt.inv)
    BY <2>2, <2>3 DEF GoesOn, RuntimeAt
  <2>5. PICK V : V = Visible(i, t)
    OBVIOUS
  <2>6. PICK d : d = Signals[i].tf
    OBVIOUS
  <2>7. rt.lc = ReplaySignalLifecycle(rt.s, V, d, rt.inv, cfg)
    BY <1>4, <2>3, <2>5, <2>6
  <2>8. TapeOK
    BY DEF EngineInv
  <2>9. \A e : EvaluateExecution(rt.s, V, d, rt.lc, e, cfg) = EvaluateExecution(rt.s, Series(i), d, rt.lc, e, cfg)
    BY <1>7, <2>3, <2>4, <2>5, <2>6, <2>7, <2>8, SameEnd
  <2>10. rt.execution = EvaluateExecution(rt.s, Series(i), d, rt.lc, rt.lc.captured, cfg)
    BY <2>1, <2>3, <2>5, <2>6, <2>9
  <2> QED BY <1>4, <1>7, <2>6, <2>10
<1> QED BY <1>5, <1>6, <1>7

\* Every step keeps it.
LEMMA CurrentKept == EngineInv /\ CurrentOK /\ [Next]_vars => CurrentOK'
<1> SUFFICES ASSUME EngineInv, CurrentOK, [Next]_vars, run' # "RESULT_REFUSED", NEW i \in Ids, Known(i)'
             PROVE  Current(i, runtimes[i])'
  BY DEF CurrentOK
<1>1. CASE \E new \in SUBSET Ids, lost \in SUBSET Ids : Evaluate(new, lost)
  <2>1. /\ now' = now + 1 /\ now < Length /\ UNCHANGED << tape, cfg >> /\ run = "RUNNING" /\ Evaluated
    BY <1>1, EvaluateShape
  <2>2. GoesOn(i, runtimes'[i])
    BY <2>1 DEF Evaluated, Known
  <2>3. PICK rt : rt = runtimes'[i]
    OBVIOUS
  <2>4. /\ rt.lc = ReplaySignalLifecycle(rt.s, Visible(i, now + 1), Signals[i].tf, rt.inv, cfg)
        /\ rt.execution = IF rt.lc.status \in Terminal
                          THEN EvaluateExecution(rt.s, Series(i), Signals[i].tf, rt.lc, rt.lc.captured, cfg)
                          ELSE NoExit
    BY <2>1, <2>2, <2>3, CurrentStep
  <2>5. Visible(i, now)' = Visible(i, now + 1) /\ Series(i)' = Series(i) /\ cfg' = cfg
    BY <2>1 DEF Visible, Series
  <2> QED BY <2>3, <2>4, <2>5 DEF Current
<1>2. CASE /\ UNCHANGED << tape, cfg, now, runtimes >>
           /\ run' = run \/ (run = "RUNNING" /\ run' \in {"REPORTED", "REPORT_REFUSED"})
  <2>1. run # "RESULT_REFUSED"
    BY <1>2
  <2>2. Known(i) /\ Current(i, runtimes[i])
    BY <1>2, <2>1 DEF CurrentOK, Known
  <2>3. Visible(i, now)' = Visible(i, now) /\ Series(i)' = Series(i) /\ cfg' = cfg /\ runtimes' = runtimes
    BY <1>2 DEF Visible, Series
  <2> QED BY <2>2, <2>3 DEF Current
<1> QED BY <1>1, <1>2, EngineStep

\* What is known of the executions, in every state.
LEMMA CurrentInvariance == Spec => [](EngineInv /\ CurrentOK)
<1> QED BY EngineInit, EngineKept, CurrentInit, CurrentKept, PTL DEF Spec

\* What OutcomeIsForced asks of one trade with status v.
ForcedTrade(i, rt, d, v) ==
    LET possible == Possible(rt.s, tape, d, 1, (now \div d) * d)
    IN  /\ v = "TP_HIT" => possible = {"WIN"}
        /\ v = "SL_HIT" =>
              \/ possible = {"LOSS"}
              \/ /\ cfg.policy = "CONSERVATIVE_STOP_FIRST"
                 /\ "LOSS" \in Possible(rt.s, Series(i), 1, d, now \div d) \/ EndedAtTarget(i)
        /\ v \in {"WAITING", "ACTIVE"} => possible = {v}
        /\ v = "CANCELLED" => Possible(rt.s, tape, d, 1, rt.inv) = {"WAITING"}

\* The trade of a current runtime is what its replay is told to force.
LEMMA CurrentForced ==
    ASSUME TapeOK, NEW i \in Ids, RuntimeAt(i, runtimes[i], now), Current(i, runtimes[i]),
           NEW rt, rt = runtimes[i], NEW d, d = Signals[i].tf, NEW v, v = ToTrade(rt).status
    PROVE  ForcedTrade(i, rt, d, v)
<1>1. PICK s : s = rt.s
  OBVIOUS
<1>2. PICK c \in Nat : c = s.createdAt /\ s = Signal(i, c) /\ c <= now
  BY <1>1 DEF RuntimeAt
<1>3. PICK inv : inv = rt.inv /\ (inv = NoTime \/ (inv \in Nat /\ c <= inv /\ inv <= now))
  BY <1>1, <1>2 DEF RuntimeAt
<1>4. PICK V : V = Visible(i, now)
  OBVIOUS
<1>5. PICK lc : lc = rt.lc /\ lc = ReplaySignalLifecycle(s, V, d, inv, cfg) /\ lc.raised = FALSE
  BY <1>1, <1>3, <1>4 DEF Current, RuntimeAt
<1>6. now \in Nat /\ now <= Length /\ Length \in Nat
  BY DEF TapeOK, Length
<1>7. d \in Nat \ {0} /\ Len(V) = now \div d
  BY <1>2, <1>3, <1>4, <1>6, ReplayInputsAt, SignalNumbers
<1>8. PICK N \in Nat : N = now \div d /\ N = Len(V) /\ N * d <= now
  BY <1>6, <1>7, WholeBars
<1>9. PICK hi \in Nat : hi = N * d /\ hi <= Length
  BY <1>6, <1>7, <1>8, BarsBefore
<1>10. Scene(s, V, d, inv, tape, Length, AfterCandles(s, d), AfterBars(s, i, N))
  <2>1. inv = NoTime \/ inv \in 0..now
    BY <1>3
  <2> QED BY <1>2, <1>4, <1>8, <2>1, SceneNow
<1>11. Told(s, V, d, cfg, lc, N * d, AfterCandles(s, d)[N * d], AfterBars(s, i, N)[N], AfterCandles(s, d)[inv])
  BY <1>2, <1>3, <1>5, <1>8, <1>10, ReplayTold
<1>12. PICK F : F = Possible(s, tape, d, 1, hi)
  OBVIOUS
<1>13. PICK Q : Q = Possible(s, Series(i), 1, d, N)
  OBVIOUS
<1>14. PICK C : C = Possible(s, tape, d, 1, inv)
  OBVIOUS
<1>15. AfterCandles(s, d)[hi] = F /\ AfterBars(s, i, N)[N] = Q /\ AfterCandles(s, d)[inv] = C
  <2>1. hi \in 0..Length \cup {NoTime} /\ inv \in 0..Length \cup {NoTime} /\ N \in 0..N
    BY <1>3, <1>6, <1>9
  <2> QED BY <1>7, <1>12, <1>13, <1>14, <2>1 DEF AfterCandles, AfterBars
<1>16. Forces(s, V, d, cfg, lc, F, Q, C)
  BY <1>5, <1>9, <1>11, <1>15 DEF Told
<1>17. /\ lc.status \in Closings =>
              V[Last(lc.events).bar \div d + 1] = Series(i)[Last(lc.events).bar \div d + 1]
       /\ \A e : lc.status \in Terminal =>
              EvaluateExecution(s, V, d, lc, e, cfg) = EvaluateExecution(s, Series(i), d, lc, e, cfg)
  <2>1. PICK t \in Nat : t = now
    BY <1>6
  <2>2. /\ TapeOK /\ i \in Ids /\ c \in Nat /\ t \in Nat /\ t <= Length /\ c <= t
        /\ inv = NoTime \/ (inv \in Nat /\ c <= inv)
        /\ s = Signal(i, c) /\ d = Signals[i].tf /\ V = Visible(i, t)
        /\ lc = ReplaySignalLifecycle(s, V, d, inv, cfg)
    BY <1>2, <1>3, <1>4, <1>5, <1>6, <2>1
  <2> QED BY ONLY <2>2, SameEnd
<1>18. rt.execution = IF lc.status \in Terminal THEN EvaluateExecution(s, V, d, lc, lc.captured, cfg) ELSE NoExit
  BY <1>1, <1>5, <1>17 DEF Current
<1>19. v = Verdict(s, V, d, cfg, lc)
  <2>1. v = IF rt.execution = NoExit THEN lc.status
            ELSE IF rt.execution.reason = "TAKE_PROFIT" THEN "TP_HIT" ELSE "SL_HIT"
    BY <1>5 DEF ToTrade
  <2> QED BY <1>18, <2>1, Zenon DEF Verdict
<1>20. v = "SL_HIT" => lc.status \in Closings
  <2>1. CASE lc.status \notin Terminal
    BY <1>19, <2>1 DEF Verdict, Terminal
  <2>2. CASE lc.status = "CANCELLED"
    BY <1>19, <2>2 DEF Verdict, Terminal, EvaluateExecution
  <2> QED BY <2>1, <2>2 DEF Terminal, Closings
<1>21. v = "SL_HIT" /\ V[Last(lc.events).bar \div d + 1].o = s.tp => EndedAtTarget(i)
  BY <1>1, <1>5, <1>17, <1>20 DEF EndedAtTarget
<1>22. Possible(rt.s, tape, d, 1, (now \div d) * d) = F /\ Possible(rt.s, Series(i), 1, d, now \div d) = Q
       /\ Possible(rt.s, tape, d, 1, rt.inv) = C
  BY <1>1, <1>3, <1>8, <1>9, <1>12, <1>13, <1>14
<1> QED BY <1>16, <1>19, <1>21, <1>22 DEF Forces, ForcedTrade

\* An outcome is only reported when the candles force it, whatever the order of the prices
\* inside them; the stop-first policy alone may call an undecided bar of the signal's own
\* timeframe a loss (replay_signal_lifecycle, resolve_entry, _to_trade).
THEOREM OutcomeForced == Spec => []OutcomeIsForced
<1>1. ASSUME EngineInv, CurrentOK
      PROVE  OutcomeIsForced
  <2> SUFFICES ASSUME run # "RESULT_REFUSED", NEW i \in Ids, Known(i)
               PROVE  ForcedTrade(i, runtimes[i], Signals[i].tf, ToTrade(runtimes[i]).status)
    BY DEF OutcomeIsForced, ForcedTrade
  <2>1. TapeOK /\ RuntimeAt(i, runtimes[i], now) /\ Current(i, runtimes[i])
    BY <1>1 DEF EngineInv, RuntimesOK, CurrentOK
  <2>2. ForcedTrade(i, runtimes[i], Signals[i].tf, ToTrade(runtimes[i]).status)
    BY <2>1, CurrentForced
  <2> QED BY <2>2
<1> QED BY <1>1, CurrentInvariance, PTL
=============================================================================
