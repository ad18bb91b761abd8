--------------------------- MODULE ObservationWorker ---------------------------
(***************************************************************************)
(* The closed-minute observation worker for one market stream: several      *)
(* server processes, an advisory lock per stream, the canonical evidence    *)
(* table, and fan-out to the accounts with a checkpoint after each delivery.*)
(*                                                                         *)
(* gateway.observe is one transaction and one step here (ExecutionGateway   *)
(* opens it up).  The account is reduced to what the worker reads and what  *)
(* a delivery may trip over: the orders' cursors, the open position, the    *)
(* valuation marks and the economic time of the last fill in any market.    *)
(* A candle is its price; times are minutes, as in ExecutionGateway.        *)
(***************************************************************************)
EXTENDS Integers, FiniteSetsExt, TLC

CONSTANTS
    Workers,        \* server processes with the worker enabled
    Accounts,       \* account ids, numbers so that they have an order
    Orders,         \* orders of this market
    Owner,          \* Owner[o]: the account of order o
    FillsAt,        \* FillsAt[o]: the prices that touch order o
    Refused,        \* orders whose fill the ledger refuses (rejected orders)
    MultiMarket,    \* accounts that also trade in other markets
    Provider,       \* Provider[m]: what the provider may answer for minute m
    MaxCatchup,     \* max_catchup_candles
    MaxMinute,      \* bound: the clock stops here
    MaxCrashes      \* bound: process deaths

\* The lock of a stream that no session holds.
NoOne == "nobody"

ASSUME WorkerAssumption ==
    /\ NoOne \notin Workers
    /\ Accounts \subseteq Nat
    /\ Owner \in [Orders -> Accounts]
    /\ Refused \subseteq Orders /\ MultiMarket \subseteq Accounts
    /\ MaxCatchup \in Nat \ {0} /\ MaxMinute \in Nat \ {0} /\ MaxCrashes \in Nat

VARIABLES
    clock,       \* the server's UTC minute
    order,       \* order rows: [st, cursor, since, fill]
    position,    \* accounts with an open position in this market
    lastFilled,  \* Account.last_filled_at, over all markets
    marks,       \* execution_marks: [acct, at, price]
    observed,    \* market_observations: [at, price]
    delivered,   \* market_observation_deliveries: [acct, cutoff]
    lock,        \* holder of the stream's advisory lock
    worker,      \* worker[w]: where the cycle of w is
    crashes

vars == <<clock, order, position, lastFilled, marks, observed, delivered, lock,
          worker, crashes>>
accountRows == <<order, position, lastFilled, marks>>

NoOrder == [st |-> "NONE", since |-> 0, cursor |-> 0, fill |-> {}]
Idle == [pc |-> "IDLE"]

Init ==
    /\ clock = 1
    /\ order = [o \in Orders |-> NoOrder]
    /\ position = {}
    /\ lastFilled = [a \in Accounts |-> 0]
    /\ marks = {} /\ observed = {} /\ delivered = {}
    /\ lock = NoOne
    /\ worker = [w \in Workers |-> Idle]
    /\ crashes = 0

-----------------------------------------------------------------------------
(* The environment: time, clients, and deliveries of the other markets *)

Tick ==
    /\ clock < MaxMinute
    /\ clock' = clock + 1
    /\ UNCHANGED <<accountRows, observed, delivered, lock, worker, crashes>>

\* submit_order: an order accepted in minute m has first eligible open m + 1.
Accept(o) ==
    /\ order[o].st = "NONE"
    /\ order' = [order EXCEPT ![o] = [NoOrder EXCEPT !.st = "UNKNOWN", !.since = clock,
                                                     !.cursor = clock]]
    /\ UNCHANGED <<clock, position, lastFilled, marks, observed, delivered, lock, worker,
                   crashes>>

\* _save_submission, at once or much later by reconciliation.
Acknowledge(o) ==
    /\ order[o].st = "UNKNOWN"
    /\ order' = [order EXCEPT ![o].st = "PENDING"]
    /\ UNCHANGED <<clock, position, lastFilled, marks, observed, delivered, lock, worker,
                   crashes>>

Cancel(o) ==
    /\ order[o].st = "PENDING"
    /\ order' = [order EXCEPT ![o].st = "CANCELLED"]
    /\ UNCHANGED <<clock, position, lastFilled, marks, observed, delivered, lock, worker,
                   crashes>>

\* The stream of another market delivers a fill of the last closed minute.
FillElsewhere(a) ==
    /\ a \in MultiMarket
    /\ clock > 1 /\ lastFilled[a] < clock
    /\ lastFilled' = [lastFilled EXCEPT ![a] = clock]
    /\ UNCHANGED <<clock, order, position, marks, observed, delivered, lock, worker, crashes>>

-----------------------------------------------------------------------------
(* ObservationRepository *)

OrdersOf(a) == {o \in Orders : Owner[o] = a}

\* targets: the next open of every pending order, and the last closed minute
\* for an open position.
Starts(a, cutoff) ==
    {m \in {order[o].cursor + 1 : o \in {q \in OrdersOf(a) : order[q].st = "PENDING"}}
           \cup (IF a \in position THEN {cutoff - 1} ELSE {}) : m < cutoff}

\* Accounts with work that no checkpoint suppresses.
\* (Mutant: the checkpoints are not consulted.)
MutTargets(cutoff) == {a \in Accounts : Starts(a, cutoff) # {}}
Targets(cutoff) ==
    {a \in Accounts : /\ Starts(a, cutoff) # {}
                      /\ \A d \in delivered : d.acct = a => d.cutoff < cutoff}

FirstOpen(a, cutoff) == Min(Starts(a, cutoff))

\* start of the shared range.
RangeStart(cutoff) == Min({FirstOpen(a, cutoff) : a \in Targets(cutoff)})

-----------------------------------------------------------------------------
(* gateway.observe of batch, a function over the minutes of the range *)

Pending(a) == {o \in OrdersOf(a) : order[o].st = "PENDING"}
New(o, batch) == {m \in DOMAIN batch : m > order[o].cursor}
Touched(o, batch) == {m \in New(o, batch) : batch[m] \in FillsAt[o]}

\* (Mutant: the cutoff is taken for the open of the last closed minute.)
MutLastOpen(batch) == Max(DOMAIN batch) + 1
LastOpen(batch) == Max(DOMAIN batch)

\* missing first/next eligible observation.
Gap(a, batch) ==
    \E o \in Pending(a) : New(o, batch) # {} /\ order[o].cursor + 1 \notin DOMAIN batch

\* A fill behind the account's last fill, or a mark that contradicts one.
Unordered(a, batch) ==
    \E o \in Pending(a) \ Refused :
        Touched(o, batch) # {} /\ Min(Touched(o, batch)) + 1 < lastFilled[a]
MarkConflict(a, batch) ==
    \E k \in marks : k.acct = a /\ k.at \in DOMAIN batch /\ k.price # batch[k.at]

Observable(a, batch) == ~Gap(a, batch) /\ ~Unordered(a, batch) /\ ~MarkConflict(a, batch)

ObservedOrder(o, batch) ==
    IF Touched(o, batch) = {}
    THEN [order[o] EXCEPT !.cursor = Max({@, LastOpen(batch)})]
    ELSE LET m == Min(Touched(o, batch))
         IN  [order[o] EXCEPT !.cursor = m,
                !.st = IF o \in Refused THEN "REJECTED" ELSE "FILLED",
                !.fill = IF o \in Refused THEN {} ELSE {[at |-> m, price |-> batch[m]]}]

Observe(a, batch) ==
    LET filled == {o \in Pending(a) \ Refused : Touched(o, batch) # {}}
    IN  /\ order' = [o \in Orders |-> IF o \in Pending(a) THEN ObservedOrder(o, batch)
                                                          ELSE order[o]]
        /\ position' \in IF filled = {} THEN {position}
                        ELSE {position \cup {a}, position \ {a}}  \* opened, reduced or closed
        /\ lastFilled' = [lastFilled EXCEPT
             ![a] = Max({@} \cup {Min(Touched(o, batch)) + 1 : o \in filled})]
        /\ marks' = marks \cup {[acct |-> a, at |-> m, price |-> batch[m]] : m \in DOMAIN batch}

-----------------------------------------------------------------------------
(* One cycle of the worker: ObservationWorker._symbol *)

Leave(w) == lock' = NoOne /\ worker' = [worker EXCEPT ![w] = Idle]

\* pg_try_advisory_lock, then now and its cutoff; BUSY when the lock is taken.
\* (Mutant: no lock.)
MutMayEnter(w) == worker[w].pc = "IDLE"
MayEnter(w) == worker[w].pc = "IDLE" /\ lock = NoOne

Acquire(w) ==
    /\ MayEnter(w)
    /\ lock' = w
    /\ worker' = [worker EXCEPT ![w] = [pc |-> "LOCKED", cutoff |-> clock]]
    /\ UNCHANGED <<clock, accountRows, observed, delivered, crashes>>

\* The range must fit max_catchup_candles.  (Mutant: it must be shorter.)
MutFits(first, cutoff) == cutoff - first < MaxCatchup
Fits(first, cutoff) == cutoff - first <= MaxCatchup

\* NO_ELIGIBLE_OBSERVATION, or CATCHUP_LIMIT_EXCEEDED.
NothingToDo(w) ==
    /\ worker[w].pc = "LOCKED"
    /\ LET cutoff == worker[w].cutoff
       IN  Targets(cutoff) # {} => ~Fits(RangeStart(cutoff), cutoff)
    /\ Leave(w)
    /\ UNCHANGED <<clock, accountRows, observed, delivered, crashes>>

ReadTargets(w) ==
    LET cutoff == worker[w].cutoff
    IN  /\ worker[w].pc = "LOCKED"
        /\ Targets(cutoff) # {}
        /\ Fits(RangeStart(cutoff), cutoff)
        /\ worker' = [worker EXCEPT ![w] = [pc |-> "FETCHING", cutoff |-> cutoff,
                        first |-> RangeStart(cutoff), todo |-> Targets(cutoff)]]
        /\ UNCHANGED <<clock, accountRows, observed, delivered, lock, crashes>>

\* The provider fails, or the minute is over when it answers.
FetchFails(w) ==
    /\ worker[w].pc = "FETCHING"
    /\ Leave(w)
    /\ UNCHANGED <<clock, accountRows, observed, delivered, crashes>>

Batches(first, cutoff) ==
    {b \in [first..cutoff - 1 -> UNION {Provider[m] : m \in first..cutoff - 1}] :
        \A m \in first..cutoff - 1 : b[m] \in Provider[m]}

Fetch(w) ==
    LET k == worker[w]
    IN  /\ k.pc = "FETCHING"
        /\ clock = k.cutoff
        /\ \E b \in Batches(k.first, k.cutoff) :
             worker' = [worker EXCEPT ![w] = [pc |-> "FETCHED", cutoff |-> k.cutoff,
                                              todo |-> k.todo, batch |-> b]]
        /\ UNCHANGED <<clock, accountRows, observed, delivered, lock, crashes>>

\* A canonical row that differs from the batch.  (Mutant: it is overlooked.)
MutConflict(batch) == FALSE
Conflict(batch) == \E r \in observed : r.at \in DOMAIN batch /\ r.price # batch[r.at]

Capture(w) ==
    LET k == worker[w]
    IN  /\ k.pc = "FETCHED"
        /\ \/ /\ Conflict(k.batch)
              /\ Leave(w)
              /\ UNCHANGED observed
           \/ /\ ~Conflict(k.batch)
              /\ observed' = observed \cup {[at |-> m, price |-> k.batch[m]] :
                      m \in {n \in DOMAIN k.batch : \A r \in observed : r.at # n}}
              /\ worker' = [worker EXCEPT ![w].pc = "DELIVERING"]
              /\ UNCHANGED lock
        /\ UNCHANGED <<clock, accountRows, delivered, crashes>>

\* observe for the next account in stable id order: it commits, or it raises
\* (also when the minute is over) and the account is retried in a later cycle.
After(k, ok) ==
    IF ok THEN [k EXCEPT !.pc = "DELIVERED"] ELSE [k EXCEPT !.todo = @ \ {Min(@)}]

Deliver(w) ==
    LET k == worker[w]
        a == Min(k.todo)
    IN  /\ k.pc = "DELIVERING" /\ k.todo # {}
        /\ \/ /\ clock = k.cutoff /\ Observable(a, k.batch)
              /\ Observe(a, k.batch)
              /\ worker' = [worker EXCEPT ![w] = After(k, TRUE)]
           \/ /\ clock # k.cutoff \/ ~Observable(a, k.batch)
              /\ UNCHANGED accountRows
              /\ worker' = [worker EXCEPT ![w] = After(k, FALSE)]
        /\ UNCHANGED <<clock, observed, delivered, lock, crashes>>

\* The checkpoint, in a transaction of its own.
Checkpoint(w) ==
    LET k == worker[w]
    IN  /\ k.pc = "DELIVERED"
        /\ delivered' = delivered \cup {[acct |-> Min(k.todo), cutoff |-> k.cutoff]}
        /\ worker' = [worker EXCEPT ![w] = [k EXCEPT !.pc = "DELIVERING",
                                                     !.todo = @ \ {Min(@)}]]
        /\ UNCHANGED <<clock, accountRows, observed, lock, crashes>>

Release(w) ==
    /\ worker[w].pc = "DELIVERING" /\ worker[w].todo = {}
    /\ Leave(w)
    /\ UNCHANGED <<clock, accountRows, observed, delivered, crashes>>

\* The process dies between two steps and is restarted; its session lock goes
\* with the connection.  aclose, which lets a running transaction finish, is
\* also such a stop.
Crash(w) ==
    /\ worker[w].pc # "IDLE" /\ crashes < MaxCrashes
    /\ crashes' = crashes + 1
    /\ lock' = IF lock = w THEN NoOne ELSE lock
    /\ worker' = [worker EXCEPT ![w] = Idle]
    /\ UNCHANGED <<clock, accountRows, observed, delivered>>

-----------------------------------------------------------------------------
Step(w) == \/ Acquire(w) \/ NothingToDo(w) \/ ReadTargets(w) \/ Fetch(w) \/ FetchFails(w)
           \/ Capture(w) \/ Deliver(w) \/ Checkpoint(w) \/ Release(w)

Next ==
    \/ Tick
    \/ \E o \in Orders : Accept(o) \/ Acknowledge(o) \/ Cancel(o)
    \/ \E a \in Accounts : FillElsewhere(a)
    \/ \E w \in Workers : Step(w) \/ Crash(w)

Spec == Init /\ [][Next]_vars

\* _run polls for ever and every step of a cycle ends (HTTP and statement
\* timeouts); a provider asked again and again sometimes answers within the minute.
Fairness == \A w \in Workers : WF_vars(Step(w)) /\ SF_vars(Fetch(w))

FairSpec == Spec /\ Fairness

-----------------------------------------------------------------------------
(* Properties *)

CycleType ==
    {Idle}
      \cup [pc : {"LOCKED"}, cutoff : 1..MaxMinute]
      \cup [pc : {"FETCHING"}, cutoff : 1..MaxMinute, first : 1..MaxMinute,
            todo : SUBSET Accounts]

\* Every table and every worker's cycle keeps its shape; the
\* stream's lock is held by the one worker that is in a cycle.
TypeOK ==
    /\ clock \in 1..MaxMinute
    /\ \A o \in Orders :
         /\ order[o].st \in {"NONE", "UNKNOWN", "PENDING", "FILLED", "REJECTED", "CANCELLED"}
         /\ order[o].since \in 0..clock /\ order[o].cursor \in order[o].since..clock
    /\ position \subseteq Accounts
    /\ lastFilled \in [Accounts -> 0..MaxMinute]
    /\ \A k \in marks : k.acct \in Accounts /\ k.at < clock
    /\ \A d \in delivered : d.acct \in Accounts /\ d.cutoff <= clock
    /\ lock \in Workers \cup {NoOne}
    /\ \A w \in Workers : worker[w].pc # "IDLE" <=> lock = w
    /\ \A w \in Workers :
         \/ worker[w] \in CycleType
         \/ /\ worker[w].pc \in {"FETCHED", "DELIVERING", "DELIVERED"}
            /\ worker[w].todo \subseteq Accounts
            /\ LastOpen(worker[w].batch) = worker[w].cutoff - 1

\* All accounts see one market: whatever the provider answered on different
\* fetches, every fill and every valuation mark was made at the canonical
\* price of its minute.
OneCanonicalMarket ==
    /\ \A r, q \in observed : r.at = q.at => r = q
    /\ \A o \in Orders : order[o].fill \subseteq observed
    /\ \A k \in marks : [at |-> k.at, price |-> k.price] \in observed

\* No eligible minute is skipped and none is used before acceptance: every
\* minute from an order's acceptance to its cursor has canonical evidence, and
\* the order is filled at the first of them that touches it.
NoMinuteSkipped ==
    \A o \in Orders :
        /\ \A m \in order[o].since + 1 .. order[o].cursor : \E r \in observed : r.at = m
        /\ \A r \in observed :
             r.at \in order[o].since + 1 .. order[o].cursor /\ r.price \in FillsAt[o]
                => r.at = order[o].cursor /\ order[o].st \in {"FILLED", "REJECTED"}

\* A checkpoint is written only for a delivery that committed: the account it
\* names was valued at the checkpoint's cutoff; and no worker is about to deliver
\* a batch that another one has checkpointed.
CheckpointsMatchDeliveries ==
    /\ \A d \in delivered : \E k \in marks : k.acct = d.acct /\ k.at = d.cutoff - 1
    /\ \A w \in Workers :
        worker[w].pc = "DELIVERING" =>
            \A a \in worker[w].todo : [acct |-> a, cutoff |-> worker[w].cutoff] \notin delivered

\* The whole stream, shared range included, is within the catch-up limit.
BacklogFits ==
    \A o \in Orders :
        order[o].st \in {"UNKNOWN", "PENDING"} => MaxMinute - (order[o].cursor + 1) <= MaxCatchup

\* The next fill of a pending order of the account would be behind its last one:
\* the ledger refuses the account's deliveries (see LedgerReads).
Behind(a) == \E o \in Pending(a) : order[o].cursor + 2 < lastFilled[a]

\* The provider now answers otherwise than the canonical evidence says.
Contradicted == \E w \in Workers : worker[w].pc = "FETCHED" /\ Conflict(worker[w].batch)

\* While the stream's backlog is within the limit and the provider does not
\* contradict its own evidence for ever, an order that is behind the last closed
\* minute is filled, cancelled or caught up, unless its account was checkpointed
\* in that minute before the order was acknowledged (it waits for the next one),
\* whichever workers crash, whichever fetches fail and however often the
\* delivery to another account is refused.
EveryOrderCatchesUp ==
    <>[](~Contradicted) => \A o \in Orders :
        (clock = MaxMinute /\ BacklogFits /\ order[o].st = "PENDING")
        ~> (\/ order[o].st # "PENDING" \/ order[o].cursor >= MaxMinute - 1
            \/ [acct |-> Owner[o], cutoff |-> MaxMinute] \in delivered
            \/ Behind(Owner[o]))
===============================================================================
