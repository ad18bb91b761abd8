----------------------- MODULE ObservationWorker_proofs -----------------------
(***************************************************************************)
(* Proofs about the observation worker, for any number of processes,        *)
(* accounts, orders, minutes and crashes, and whatever the provider answers.*)
(***************************************************************************)
EXTENDS ObservationWorker, WellFoundedInduction, TLAPS

-----------------------------------------------------------------------------
(* Least and greatest minutes *)

\* A set of minutes that is not empty has a first one.
LEMMA MinOfNat ==
    ASSUME NEW T \in SUBSET Nat, T # {}
    PROVE  Min(T) \in T /\ \A y \in T : Min(T) <= y
<1>1. PICK x \in T : \A y \in T : ~(<<y, x>> \in OpToRel(<, Nat))
  BY NatLessThanWellFounded, WFMin
<1>2. \A y \in T : ~(y < x)
  BY <1>1 DEF OpToRel
<1>3. \E z \in T : \A y \in T : z <= y
  BY <1>2
<1> QED BY <1>3 DEF Min

\* A bounded set of minutes that is not empty has a last one.
LEMMA MaxOfBounded ==
    ASSUME NEW n \in Nat, NEW T \in SUBSET (0..n), T # {}
    PROVE  Max(T) \in T /\ \A y \in T : y <= Max(T)
<1> DEFINE bounds == {u \in 0..n : \A y \in T : y <= u}
<1>1. bounds \in SUBSET Nat /\ n \in bounds
  OBVIOUS
<1>2. PICK u : u = Min(bounds)
  OBVIOUS
<1>3. u \in bounds /\ \A v \in bounds : u <= v
  BY <1>1, <1>2, MinOfNat
<1>4. u \in T
  <2> SUFFICES ASSUME u \notin T PROVE FALSE
    OBVIOUS
  <2>1. \A y \in T : y <= u - 1
    BY <1>3
  <2>2. PICK y \in T : y \in 0..n
    OBVIOUS
  <2>3. u - 1 \in 0..n
    BY <1>3, <2>1, <2>2
  <2> QED BY <1>3, <2>1, <2>3
<1>5. \E z \in T : \A y \in T : z >= y
  BY <1>3, <1>4
<1> QED BY <1>5 DEF Max

\* The last minute of a range that is not empty.
LEMMA MaxOfRange ==
    ASSUME NEW f \in Nat, NEW c \in Nat, f < c
    PROVE  Max(f .. c - 1) = c - 1
<1>1. (f .. c - 1) \in SUBSET (0 .. c - 1) /\ c - 1 \in f .. c - 1 /\ c - 1 \in Nat
  OBVIOUS
<1>2. Max(f .. c - 1) \in f .. c - 1 /\ c - 1 <= Max(f .. c - 1)
  BY <1>1, MaxOfBounded
<1> QED BY <1>2

-----------------------------------------------------------------------------
(* The inductive invariant *)

Prices == UNION {Provider[m] : m \in 1..MaxMinute}
Evidence == [at : 1..MaxMinute, price : Prices]
OrderRow == [st : {"NONE", "UNKNOWN", "PENDING", "FILLED", "REJECTED", "CANCELLED"},
             since : Nat, cursor : Nat, fill : SUBSET Evidence]
Batch == UNION {[D -> Prices] : D \in SUBSET (1..MaxMinute)}
BatchCycle == [pc : {"FETCHED", "DELIVERING", "DELIVERED"}, cutoff : 1..MaxMinute,
               todo : SUBSET Accounts, batch : Batch]

ClockOK == clock \in 1..MaxMinute

OrdersOK ==
    /\ order \in [Orders -> OrderRow]
    /\ \A o \in Orders : /\ order[o].since \in 0..clock
                         /\ order[o].cursor \in order[o].since..clock

\* No fill, hence no position, before a minute has closed.
AccountsOK ==
    /\ position \subseteq Accounts /\ (position # {} => clock > 1)
    /\ lastFilled \in [Accounts -> 0..MaxMinute]

RowsOK ==
    /\ observed \subseteq Evidence
    /\ marks \subseteq [acct : Accounts, at : 1..MaxMinute, price : Prices]
    /\ \A k \in marks : k.at < clock
    /\ delivered \subseteq [acct : Accounts, cutoff : 1..MaxMinute]
    /\ \A d \in delivered : d.cutoff <= clock

LockOK ==
    /\ worker \in [Workers -> CycleType \cup BatchCycle]
    /\ lock \in Workers \cup {NoOne}
    /\ \A w \in Workers : worker[w].pc # "IDLE" <=> lock = w

\* What the worker in its cycle relies on between two steps: its range is not
\* empty and ends before its cutoff, nobody it has still to deliver to was
\* checkpointed, what it delivers is canonical, and the account it is about to
\* checkpoint was valued.
CycleOK(w) ==
    LET k == worker[w]
    IN  /\ k.pc # "IDLE" => k.cutoff \in 1..clock
        /\ k.pc = "LOCKED" => position = {} \/ k.cutoff > 1
        /\ k.pc = "FETCHING" => k.first \in 1 .. k.cutoff - 1
        /\ k.pc \in {"FETCHING", "FETCHED", "DELIVERING", "DELIVERED"} =>
             \A a \in k.todo : [acct |-> a, cutoff |-> k.cutoff] \notin delivered
        /\ k.pc \in {"FETCHED", "DELIVERING", "DELIVERED"} =>
             \E f \in 1 .. k.cutoff - 1 : k.batch \in [f .. k.cutoff - 1 -> Prices]
        /\ k.pc \in {"DELIVERING", "DELIVERED"} =>
             \A m \in DOMAIN k.batch : [at |-> m, price |-> k.batch[m]] \in observed
        /\ k.pc = "DELIVERED" =>
             /\ k.todo # {}
             /\ \E x \in marks : x.acct = Min(k.todo) /\ x.at = k.cutoff - 1
CyclesOK == \A w \in Workers : CycleOK(w)

CheckpointsValued ==
    \A d \in delivered : \E k \in marks : k.acct = d.acct /\ k.at = d.cutoff - 1

WorkerInv ==
    /\ ClockOK /\ OrdersOK /\ AccountsOK /\ RowsOK /\ LockOK /\ CyclesOK
    /\ OneCanonicalMarket /\ NoMinuteSkipped /\ CheckpointsValued

\* No worker holds the lock and nothing has been delivered.
LEMMA WorkerInit == Init => WorkerInv
<1> SUFFICES ASSUME Init PROVE WorkerInv
  OBVIOUS
<1> USE WorkerAssumption DEF Init
<1>1. ClockOK /\ AccountsOK /\ RowsOK
  BY DEF ClockOK, AccountsOK, RowsOK
<1>2. OrdersOK
  BY DEF OrdersOK, OrderRow, NoOrder
<1>3. LockOK
  BY DEF LockOK, CycleType, Idle
<1>4. CyclesOK
  BY DEF CyclesOK, CycleOK, Idle
<1>5. OneCanonicalMarket /\ NoMinuteSkipped /\ CheckpointsValued
  BY DEF OneCanonicalMarket, NoMinuteSkipped, CheckpointsValued, NoOrder
<1> QED BY <1>1, <1>2, <1>3, <1>4, <1>5 DEF WorkerInv

-----------------------------------------------------------------------------
(* What the invariant implies *)

\* The fields of a cycle, by where it is.
LEMMA CycleFields ==
    ASSUME LockOK, NEW w \in Workers
    PROVE  /\ worker[w] \in CycleType \cup BatchCycle
           /\ worker[w].pc \in {"IDLE", "LOCKED", "FETCHING", "FETCHED", "DELIVERING", "DELIVERED"}
           /\ worker[w].pc = "IDLE" => worker[w] = Idle
           /\ worker[w].pc = "LOCKED" =>
                worker[w] \in [pc : {"LOCKED"}, cutoff : 1..MaxMinute]
           /\ worker[w].pc = "FETCHING" =>
                worker[w] \in [pc : {"FETCHING"}, cutoff : 1..MaxMinute, first : 1..MaxMinute,
                               todo : SUBSET Accounts]
           /\ worker[w].pc \in {"FETCHED", "DELIVERING", "DELIVERED"} => worker[w] \in BatchCycle
<1>1. worker[w] \in CycleType \cup BatchCycle
  BY DEF LockOK
<1>2. CASE worker[w] \in {Idle}
  BY <1>1, <1>2 DEF Idle
<1>3. CASE worker[w] \in [pc : {"LOCKED"}, cutoff : 1..MaxMinute]
  BY <1>1, <1>3
<1>4. CASE worker[w] \in [pc : {"FETCHING"}, cutoff : 1..MaxMinute, first : 1..MaxMinute,
                          todo : SUBSET Accounts]
  BY <1>1, <1>4
<1>5. CASE worker[w] \in BatchCycle
  BY <1>1, <1>5 DEF BatchCycle
<1> QED BY <1>1, <1>2, <1>3, <1>4, <1>5 DEF CycleType

\* The inductive invariant types the worker.
LEMMA InvImpliesTypeOK == WorkerInv => TypeOK
<1> SUFFICES ASSUME WorkerInv PROVE TypeOK
  OBVIOUS
<1>1. clock \in 1..MaxMinute
  BY DEF WorkerInv, ClockOK
<1>2. \A o \in Orders :
         /\ order[o].st \in {"NONE", "UNKNOWN", "PENDING", "FILLED", "REJECTED", "CANCELLED"}
         /\ order[o].since \in 0..clock /\ order[o].cursor \in order[o].since..clock
  BY DEF WorkerInv, OrdersOK, OrderRow
<1>3. /\ position \subseteq Accounts /\ lastFilled \in [Accounts -> 0..MaxMinute]
      /\ \A k \in marks : k.acct \in Accounts /\ k.at < clock
      /\ \A d \in delivered : d.acct \in Accounts /\ d.cutoff <= clock
  BY DEF WorkerInv, AccountsOK, RowsOK
<1>4. lock \in Workers \cup {NoOne} /\ \A w \in Workers : worker[w].pc # "IDLE" <=> lock = w
  BY DEF WorkerInv, LockOK
<1>5. ASSUME NEW w \in Workers, worker[w] \notin CycleType
      PROVE  /\ worker[w].pc \in {"FETCHED", "DELIVERING", "DELIVERED"}
             /\ worker[w].todo \subseteq Accounts
             /\ LastOpen(worker[w].batch) = worker[w].cutoff - 1
  <2>1. worker[w] \in BatchCycle
    BY <1>5, CycleFields DEF WorkerInv
  <2>2. /\ worker[w].pc \in {"FETCHED", "DELIVERING", "DELIVERED"}
        /\ worker[w].todo \subseteq Accounts /\ worker[w].cutoff \in 1..MaxMinute
    BY <2>1 DEF BatchCycle
  <2>3. PICK f \in 1 .. worker[w].cutoff - 1 :
             worker[w].batch \in [f .. worker[w].cutoff - 1 -> Prices]
    BY <2>2 DEF WorkerInv, CyclesOK, CycleOK
  <2>4. f \in Nat /\ worker[w].cutoff \in Nat /\ f < worker[w].cutoff
    BY <2>2, <2>3, WorkerAssumption
  <2>5. DOMAIN worker[w].batch = f .. worker[w].cutoff - 1
    BY <2>3
  <2> QED BY <2>2, <2>4, <2>5, MaxOfRange DEF LastOpen
<1> QED BY <1>1, <1>2, <1>3, <1>4, <1>5 DEF TypeOK

\* The inductive invariant makes every checkpoint one that was delivered.
LEMMA InvImpliesCheckpoints == WorkerInv => CheckpointsMatchDeliveries
BY DEF WorkerInv, CheckpointsValued, CheckpointsMatchDeliveries, CyclesOK, CycleOK

-----------------------------------------------------------------------------
(* The environment *)

\* Time passes: every bound by the clock is only relaxed.
LEMMA TickInv == ASSUME WorkerInv, Tick PROVE WorkerInv'
<1>1. /\ clock \in 1..MaxMinute /\ clock' = clock + 1 /\ clock < MaxMinute
      /\ UNCHANGED <<order, position, lastFilled, marks, observed, delivered, lock, worker>>
  BY DEF Tick, WorkerInv, ClockOK, accountRows
<1>2. clock' \in 1..MaxMinute /\ ClockOK'
  BY <1>1, WorkerAssumption DEF ClockOK
<1>3. OrdersOK'
  <2> SUFFICES ASSUME NEW o \in Orders
               PROVE  order[o].since \in 0..clock' /\ order[o].cursor \in order[o].since..clock'
    BY <1>1 DEF WorkerInv, OrdersOK
  <2> QED BY <1>1 DEF WorkerInv, OrdersOK, OrderRow
<1>4. AccountsOK'
  BY <1>1 DEF WorkerInv, AccountsOK
<1>5. RowsOK'
  BY <1>1, WorkerAssumption DEF WorkerInv, RowsOK
<1>6. LockOK' /\ OneCanonicalMarket' /\ NoMinuteSkipped' /\ CheckpointsValued'
  BY <1>1 DEF WorkerInv, LockOK, OneCanonicalMarket, NoMinuteSkipped, CheckpointsValued
<1>7. CyclesOK'
  <2> SUFFICES ASSUME NEW w \in Workers PROVE CycleOK(w)'
    BY DEF CyclesOK
  <2>1. CycleOK(w)
    BY DEF WorkerInv, CyclesOK
  <2>2. worker[w].pc # "IDLE" => worker[w].cutoff \in 1..clock'
    BY <1>1, <2>1 DEF CycleOK
  <2> QED BY <1>1, <2>1, <2>2 DEF CycleOK
<1> QED BY <1>2, <1>3, <1>4, <1>5, <1>6, <1>7 DEF WorkerInv

\* A change of one order by its client: it moves no cursor except to the present
\* minute, at acceptance, and fills nothing.
LEMMA ClientStep ==
    ASSUME WorkerInv, NEW o \in Orders, NEW q \in OrderRow,
           order' = [order EXCEPT ![o] = q],
           \/ q.since = clock /\ q.cursor = clock
           \/ /\ q.since = order[o].since /\ q.cursor = order[o].cursor
              /\ order[o].st \notin {"FILLED", "REJECTED"},
           q.fill \subseteq order[o].fill,
           UNCHANGED <<clock, position, lastFilled, marks, observed, delivered, lock, worker>>
    PROVE  WorkerInv'
<1>1. /\ clock' = clock /\ position' = position /\ lastFilled' = lastFilled
      /\ marks' = marks /\ observed' = observed /\ delivered' = delivered
      /\ lock' = lock /\ worker' = worker
  OBVIOUS
<1>2. /\ order' \in [Orders -> OrderRow] /\ order'[o] = q
      /\ \A p \in Orders : p # o => order'[p] = order[p]
  BY DEF WorkerInv, OrdersOK
<1>3. clock \in Nat /\ q.since \in Nat /\ q.cursor \in Nat
  BY WorkerAssumption DEF WorkerInv, ClockOK, OrderRow
<1>4. ClockOK' /\ AccountsOK' /\ RowsOK' /\ LockOK' /\ CheckpointsValued'
  BY <1>1 DEF WorkerInv, ClockOK, AccountsOK, RowsOK, LockOK, CheckpointsValued
<1>5. OrdersOK'
  <2> SUFFICES ASSUME NEW p \in Orders
               PROVE  /\ order'[p].since \in 0..clock
                      /\ order'[p].cursor \in order'[p].since..clock
    BY <1>1, <1>2 DEF OrdersOK
  <2> QED BY <1>2, <1>3 DEF WorkerInv, OrdersOK
<1>6. CyclesOK'
  BY <1>1 DEF WorkerInv, CyclesOK, CycleOK
<1>7. OneCanonicalMarket'
  BY <1>1, <1>2 DEF WorkerInv, OneCanonicalMarket
<1>8. NoMinuteSkipped'
  <2> SUFFICES ASSUME NEW p \in Orders
               PROVE  /\ \A m \in order'[p].since + 1 .. order'[p].cursor :
                            \E r \in observed : r.at = m
                      /\ \A r \in observed :
                           r.at \in order'[p].since + 1 .. order'[p].cursor
                             /\ r.price \in FillsAt[p]
                           => r.at = order'[p].cursor /\ order'[p].st \in {"FILLED", "REJECTED"}
    BY <1>1 DEF NoMinuteSkipped
  <2>1. CASE p # o
    BY <2>1, <1>2 DEF WorkerInv, NoMinuteSkipped
  <2>2. CASE p = o /\ q.since = clock /\ q.cursor = clock
    <3>1. order'[p].since + 1 .. order'[p].cursor = {}
      BY <2>2, <1>2, <1>3
    <3> QED BY <3>1
  <2>3. CASE /\ p = o /\ q.since = order[o].since /\ q.cursor = order[o].cursor
             /\ order[o].st \notin {"FILLED", "REJECTED"}
    BY <2>3, <1>2 DEF WorkerInv, NoMinuteSkipped
  <2> QED BY <2>1, <2>2, <2>3
<1> QED BY <1>4, <1>5, <1>6, <1>7, <1>8 DEF WorkerInv

\* An order is accepted, acknowledged or cancelled.
LEMMA ClientInv ==
    ASSUME WorkerInv, NEW o \in Orders, Accept(o) \/ Acknowledge(o) \/ Cancel(o)
    PROVE  WorkerInv'
<1>1. order \in [Orders -> OrderRow] /\ order[o] \in OrderRow /\ clock \in Nat
  BY WorkerAssumption DEF WorkerInv, OrdersOK, ClockOK
<1>2. CASE Accept(o)
  <2> DEFINE q == [NoOrder EXCEPT !.st = "UNKNOWN", !.since = clock, !.cursor = clock]
  <2>1. q \in OrderRow /\ q.since = clock /\ q.cursor = clock /\ q.fill = {}
    BY <1>1 DEF NoOrder, OrderRow
  <2>2. /\ order' = [order EXCEPT ![o] = q]
        /\ UNCHANGED <<clock, position, lastFilled, marks, observed, delivered, lock, worker>>
    BY <1>2 DEF Accept
  <2> HIDE DEF q
  <2> QED BY <2>1, <2>2, ClientStep
<1>3. CASE Acknowledge(o)
  <2> DEFINE q == [order[o] EXCEPT !.st = "PENDING"]
  <2>1. /\ q \in OrderRow /\ q.since = order[o].since /\ q.cursor = order[o].cursor
        /\ q.fill = order[o].fill
    BY <1>1 DEF OrderRow
  <2>2. /\ order' = [order EXCEPT ![o] = q] /\ order[o].st = "UNKNOWN"
        /\ UNCHANGED <<clock, position, lastFilled, marks, observed, delivered, lock, worker>>
    BY <1>1, <1>3 DEF Acknowledge
  <2> HIDE DEF q
  <2> QED BY <2>1, <2>2, ClientStep
<1>4. CASE Cancel(o)
  <2> DEFINE q == [order[o] EXCEPT !.st = "CANCELLED"]
  <2>1. /\ q \in OrderRow /\ q.since = order[o].since /\ q.cursor = order[o].cursor
        /\ q.fill = order[o].fill
    BY <1>1 DEF OrderRow
  <2>2. /\ order' = [order EXCEPT ![o] = q] /\ order[o].st = "PENDING"
        /\ UNCHANGED <<clock, position, lastFilled, marks, observed, delivered, lock, worker>>
    BY <1>1, <1>4 DEF Cancel
  <2> HIDE DEF q
  <2> QED BY <2>1, <2>2, ClientStep
<1> QED BY <1>2, <1>3, <1>4

\* A fill in another market moves only the account's last fill.
LEMMA FillElsewhereInv ==
    ASSUME WorkerInv, NEW a \in Accounts, FillElsewhere(a)
    PROVE  WorkerInv'
<1>1. /\ lastFilled' = [lastFilled EXCEPT ![a] = clock]
      /\ UNCHANGED <<clock, order, position, marks, observed, delivered, lock, worker>>
  BY DEF FillElsewhere
<1>2. clock \in 0..MaxMinute
  BY WorkerAssumption DEF WorkerInv, ClockOK
<1>3. AccountsOK'
  BY <1>1, <1>2 DEF WorkerInv, AccountsOK
<1>4. /\ ClockOK' /\ OrdersOK' /\ RowsOK' /\ LockOK' /\ CyclesOK' /\ OneCanonicalMarket'
      /\ NoMinuteSkipped' /\ CheckpointsValued'
  BY <1>1 DEF WorkerInv, ClockOK, OrdersOK, RowsOK, LockOK, CyclesOK, CycleOK,
     OneCanonicalMarket, NoMinuteSkipped, CheckpointsValued
<1> QED BY <1>3, <1>4 DEF WorkerInv

-----------------------------------------------------------------------------
(* Steps of a cycle *)

\* While a worker is in its cycle every other one is idle.
LEMMA OthersIdle ==
    ASSUME LockOK, NEW w \in Workers, worker[w].pc # "IDLE"
    PROVE  lock = w /\ \A v \in Workers : v # w => worker[v].pc = "IDLE"
BY DEF LockOK

\* The worker that holds the lock goes on.
LEMMA HolderGoesOn ==
    ASSUME LockOK, NEW w \in Workers, worker[w].pc # "IDLE",
           NEW k \in CycleType \cup BatchCycle, k.pc # "IDLE",
           worker' = [worker EXCEPT ![w] = k], lock' = lock, CycleOK(w)'
    PROVE  LockOK' /\ CyclesOK'
<1>1. lock = w /\ \A v \in Workers : v # w => worker[v].pc = "IDLE"
  BY OthersIdle
<1>2. /\ worker' \in [Workers -> CycleType \cup BatchCycle] /\ worker'[w] = k
      /\ \A v \in Workers : v # w => worker'[v] = worker[v]
  BY DEF LockOK
<1>3. LockOK'
  BY <1>1, <1>2 DEF LockOK
<1>4. \A v \in Workers : v # w => CycleOK(v)'
  BY <1>1, <1>2 DEF CycleOK
<1> QED BY <1>3, <1>4 DEF CyclesOK

\* The worker that holds the lock ends its cycle, in whatever way.
LEMMA HolderLeaves ==
    ASSUME LockOK, NEW w \in Workers, worker[w].pc # "IDLE", Leave(w)
    PROVE  LockOK' /\ CyclesOK'
<1>1. lock = w /\ \A v \in Workers : v # w => worker[v].pc = "IDLE"
  BY OthersIdle
<1>2. /\ worker' \in [Workers -> CycleType \cup BatchCycle] /\ lock' = NoOne
      /\ \A v \in Workers : worker'[v].pc = "IDLE"
  BY <1>1 DEF LockOK, Leave, CycleType, Idle
<1>3. LockOK'
  BY <1>2, WorkerAssumption DEF LockOK
<1>4. CyclesOK'
  BY <1>2 DEF CyclesOK, CycleOK
<1> QED BY <1>3, <1>4

\* A step of a cycle that writes no table.
LEMMA CycleStep ==
    ASSUME WorkerInv, LockOK', CyclesOK',
           UNCHANGED <<clock, order, position, lastFilled, marks, observed, delivered>>
    PROVE  WorkerInv'
BY DEF WorkerInv, ClockOK, OrdersOK, AccountsOK, RowsOK, OneCanonicalMarket,
       NoMinuteSkipped, CheckpointsValued

\* A worker ends its cycle.
LEMMA LeaveInv ==
    ASSUME WorkerInv, NEW w \in Workers, NothingToDo(w) \/ FetchFails(w) \/ Release(w)
    PROVE  WorkerInv'
<1>1. /\ worker[w].pc # "IDLE" /\ Leave(w)
      /\ UNCHANGED <<clock, order, position, lastFilled, marks, observed, delivered>>
  BY DEF NothingToDo, FetchFails, Release, accountRows
<1> QED BY <1>1, HolderLeaves, CycleStep DEF WorkerInv

\* A worker dies.
LEMMA CrashInv ==
    ASSUME WorkerInv, NEW w \in Workers, Crash(w)
    PROVE  WorkerInv'
<1>1. worker[w].pc # "IDLE" /\ lock = w
  BY OthersIdle DEF Crash, WorkerInv
<1>2. /\ Leave(w)
      /\ UNCHANGED <<clock, order, position, lastFilled, marks, observed, delivered>>
  BY <1>1 DEF Crash, Leave, accountRows
<1> QED BY <1>1, <1>2, HolderLeaves, CycleStep DEF WorkerInv

\* A worker takes the lock.
LEMMA AcquireInv ==
    ASSUME WorkerInv, NEW w \in Workers, Acquire(w)
    PROVE  WorkerInv'
<1> DEFINE k == [pc |-> "LOCKED", cutoff |-> clock]
<1>1. /\ lock = NoOne /\ lock' = w /\ worker' = [worker EXCEPT ![w] = k]
      /\ UNCHANGED <<clock, order, position, lastFilled, marks, observed, delivered>>
  BY DEF Acquire, MayEnter, accountRows
<1>2. /\ clock \in 1..MaxMinute /\ k \in CycleType
      /\ position # {} => clock > 1
  BY DEF WorkerInv, ClockOK, AccountsOK, CycleType
<1>3. \A v \in Workers : worker[v].pc = "IDLE"
  BY <1>1, WorkerAssumption DEF WorkerInv, LockOK
<1>4. /\ worker' \in [Workers -> CycleType \cup BatchCycle] /\ worker'[w] = k
      /\ \A v \in Workers : v # w => worker'[v] = worker[v]
  BY <1>1, <1>2 DEF WorkerInv, LockOK
<1>5. LockOK'
  BY <1>1, <1>3, <1>4 DEF LockOK
<1>6. CyclesOK'
  <2> SUFFICES ASSUME NEW v \in Workers PROVE CycleOK(v)'
    BY DEF CyclesOK
  <2>1. CASE v = w
    BY <2>1, <1>1, <1>2, <1>4 DEF CycleOK
  <2>2. CASE v # w
    BY <2>2, <1>3, <1>4 DEF CycleOK
  <2> QED BY <2>1, <2>2
<1> QED BY <1>1, <1>5, <1>6, CycleStep

\* The shared range starts at a closed minute: the next open of an order or the
\* last closed minute of a position.
LEMMA RangeStartOK ==
    ASSUME WorkerInv, NEW cutoff \in 1..MaxMinute, Targets(cutoff) # {},
           position = {} \/ cutoff > 1
    PROVE  RangeStart(cutoff) \in 1 .. cutoff - 1
<1>1. \A a \in Accounts : Starts(a, cutoff) \subseteq 1 .. cutoff - 1
  <2> SUFFICES ASSUME NEW a \in Accounts, NEW m \in Starts(a, cutoff)
               PROVE  m \in 1 .. cutoff - 1
    OBVIOUS
  <2>1. /\ m < cutoff
        /\ \/ \E o \in Orders : m = order[o].cursor + 1
           \/ a \in position /\ m = cutoff - 1
    BY DEF Starts, OrdersOf
  <2>2. \A o \in Orders : order[o].cursor \in Nat
    BY DEF WorkerInv, OrdersOK, OrderRow
  <2> QED BY <2>1, <2>2, WorkerAssumption
<1> DEFINE firsts == {FirstOpen(a, cutoff) : a \in Targets(cutoff)}
<1>2. \A a \in Targets(cutoff) : FirstOpen(a, cutoff) \in 1 .. cutoff - 1
  <2> SUFFICES ASSUME NEW a \in Targets(cutoff)
               PROVE  FirstOpen(a, cutoff) \in 1 .. cutoff - 1
    OBVIOUS
  <2>1. a \in Accounts /\ Starts(a, cutoff) # {}
    BY DEF Targets
  <2>2. Starts(a, cutoff) \in SUBSET Nat
    BY <1>1, <2>1
  <2>3. Min(Starts(a, cutoff)) \in Starts(a, cutoff)
    BY <2>1, <2>2, MinOfNat
  <2> QED BY <1>1, <2>1, <2>3 DEF FirstOpen
<1>3. firsts # {} /\ firsts \in SUBSET (1 .. cutoff - 1)
  BY <1>2
<1> HIDE DEF firsts
<1>4. firsts \in SUBSET Nat
  BY <1>3
<1>5. Min(firsts) \in firsts
  BY <1>3, <1>4, MinOfNat
<1>6. Min(firsts) \in 1 .. cutoff - 1
  BY <1>3, <1>5
<1> QED BY <1>6 DEF RangeStart, firsts

\* A worker reads its targets.
LEMMA ReadTargetsInv ==
    ASSUME WorkerInv, NEW w \in Workers, ReadTargets(w)
    PROVE  WorkerInv'
<1> DEFINE c == worker[w].cutoff
           k == [pc |-> "FETCHING", cutoff |-> c, first |-> RangeStart(c), todo |-> Targets(c)]
<1>1. /\ worker[w].pc = "LOCKED" /\ Targets(c) # {} /\ lock' = lock
      /\ worker' = [worker EXCEPT ![w] = k]
      /\ UNCHANGED <<clock, order, position, lastFilled, marks, observed, delivered>>
  BY DEF ReadTargets, accountRows
<1>2. c \in 1..MaxMinute /\ c \in 1..clock /\ (position = {} \/ c > 1)
  <2>1. c \in 1..MaxMinute
    BY <1>1, CycleFields DEF WorkerInv
  <2>2. CycleOK(w)
    BY DEF WorkerInv, CyclesOK
  <2> QED BY <1>1, <2>1, <2>2 DEF CycleOK
<1> HIDE DEF c
<1>3. RangeStart(c) \in 1 .. c - 1
  BY <1>1, <1>2, RangeStartOK
<1>4. /\ Targets(c) \subseteq Accounts
      /\ \A a \in Targets(c) : [acct |-> a, cutoff |-> c] \notin delivered
  <2> SUFFICES ASSUME NEW a \in Targets(c)
               PROVE  a \in Accounts /\ [acct |-> a, cutoff |-> c] \notin delivered
    OBVIOUS
  <2>1. a \in Accounts /\ \A d \in delivered : d.acct = a => d.cutoff < c
    BY DEF Targets
  <2>2. [acct |-> a, cutoff |-> c].acct = a /\ [acct |-> a, cutoff |-> c].cutoff = c
    OBVIOUS
  <2> QED BY <1>2, <2>1, <2>2
<1>5. /\ k \in CycleType /\ k.pc = "FETCHING" /\ k.cutoff = c
      /\ k.first = RangeStart(c) /\ k.todo = Targets(c)
  BY <1>2, <1>3, <1>4, WorkerAssumption DEF CycleType
<1> HIDE DEF k
<1>6. worker'[w] = k
  BY <1>1 DEF WorkerInv, LockOK
<1>7. CycleOK(w)'
  BY <1>1, <1>2, <1>3, <1>4, <1>5, <1>6 DEF CycleOK
<1>8. LockOK' /\ CyclesOK'
  BY <1>1, <1>5, <1>7, HolderGoesOn DEF WorkerInv
<1> QED BY <1>1, <1>8, CycleStep

\* A worker fetches a candle.
LEMMA FetchInv ==
    ASSUME WorkerInv, NEW w \in Workers, Fetch(w)
    PROVE  WorkerInv'
<1> DEFINE c == worker[w].cutoff
           f == worker[w].first
           todo == worker[w].todo
<1>1. /\ worker[w].pc = "FETCHING" /\ lock' = lock
      /\ UNCHANGED <<clock, order, position, lastFilled, marks, observed, delivered>>
  BY DEF Fetch, accountRows
<1>2. PICK b \in Batches(f, c) :
         worker' = [worker EXCEPT ![w] = [pc |-> "FETCHED", cutoff |-> c, todo |-> todo, batch |-> b]]
  BY DEF Fetch
<1>3. c \in 1..MaxMinute /\ f \in 1..MaxMinute /\ todo \subseteq Accounts
  BY <1>1, CycleFields DEF WorkerInv
<1>4. /\ c \in 1..clock /\ f \in 1 .. c - 1
      /\ \A a \in todo : [acct |-> a, cutoff |-> c] \notin delivered
  <2>1. CycleOK(w)
    BY DEF WorkerInv, CyclesOK
  <2> QED BY <1>1, <2>1 DEF CycleOK
<1> DEFINE k == [pc |-> "FETCHED", cutoff |-> c, todo |-> todo, batch |-> b]
<1> HIDE DEF c, f, todo
<1>5. b \in [f .. c - 1 -> Prices]
  <2>1. b \in [f .. c - 1 -> UNION {Provider[m] : m \in f .. c - 1}]
    BY <1>2 DEF Batches
  <2>2. f .. c - 1 \subseteq 1..MaxMinute
    BY <1>3, WorkerAssumption
  <2>3. UNION {Provider[m] : m \in f .. c - 1} \subseteq Prices
    BY <2>2 DEF Prices
  <2> QED BY <2>1, <2>3
<1>6. b \in Batch
  <2>1. f .. c - 1 \in SUBSET (1..MaxMinute)
    BY <1>3, WorkerAssumption
  <2>2. \E D \in SUBSET (1..MaxMinute) : b \in [D -> Prices]
    BY <1>5, <2>1
  <2> QED BY <2>2 DEF Batch
<1>7. /\ k \in BatchCycle /\ k.pc = "FETCHED" /\ k.cutoff = c /\ k.todo = todo /\ k.batch = b
  BY <1>3, <1>6 DEF BatchCycle
<1>8. worker' = [worker EXCEPT ![w] = k]
  BY <1>2
<1> HIDE DEF k
<1>9. worker'[w] = k
  BY <1>8 DEF WorkerInv, LockOK
<1>10. CycleOK(w)'
  BY <1>1, <1>4, <1>5, <1>7, <1>9 DEF CycleOK
<1>11. LockOK' /\ CyclesOK'
  BY <1>1, <1>7, <1>8, <1>10, HolderGoesOn DEF WorkerInv
<1> QED BY <1>1, <1>11, CycleStep

\* Capturing a batch that contradicts no canonical row makes the whole batch
\* canonical, and adds rows only for minutes that had none, so none that an order
\* has already passed.
LEMMA CaptureInv ==
    ASSUME WorkerInv, NEW w \in Workers, Capture(w)
    PROVE  WorkerInv'
<1> DEFINE b == worker[w].batch
           c == worker[w].cutoff
           todo == worker[w].todo
           added == {[at |-> m, price |-> b[m]] :
                       m \in {n \in DOMAIN b : \A r \in observed : r.at # n}}
<1>1. worker[w].pc = "FETCHED" /\ UNCHANGED <<clock, order, position, lastFilled, marks, delivered>>
  BY DEF Capture, accountRows
<1>2. CASE Leave(w) /\ UNCHANGED observed
  BY <1>1, <1>2, HolderLeaves, CycleStep DEF WorkerInv
<1>3. CASE /\ ~Conflict(b) /\ observed' = observed \cup added
           /\ worker' = [worker EXCEPT ![w].pc = "DELIVERING"] /\ lock' = lock
  <2>1. /\ worker[w] \in BatchCycle /\ c \in 1..MaxMinute
    BY <1>1, CycleFields DEF WorkerInv, BatchCycle
  <2>2. CycleOK(w)
    BY DEF WorkerInv, CyclesOK
  <2>3. PICK f \in 1 .. c - 1 : b \in [f .. c - 1 -> Prices]
    BY <1>1, <2>2 DEF CycleOK
  <2>4. DOMAIN b = f .. c - 1 /\ DOMAIN b \subseteq 1..MaxMinute
    BY <2>1, <2>3, WorkerAssumption
  <2>5. added \subseteq Evidence /\ \A r \in added : \A q \in observed : q.at # r.at
    <3> SUFFICES ASSUME NEW r \in added
                 PROVE  r \in Evidence /\ \A q \in observed : q.at # r.at
      OBVIOUS
    <3>1. PICK m \in DOMAIN b : /\ \A q \in observed : q.at # m
                                /\ r = [at |-> m, price |-> b[m]]
      OBVIOUS
    <3>2. r.at = m /\ r.price = b[m] /\ b[m] \in Prices /\ m \in 1..MaxMinute
      BY <3>1, <2>3, <2>4
    <3> QED BY <3>1, <3>2 DEF Evidence
  <2>6. observed \subseteq Evidence /\ observed \subseteq observed'
        /\ \A r, q \in observed : r.at = q.at => r = q
    BY <1>3 DEF WorkerInv, RowsOK, OneCanonicalMarket
  <2>7. \A m \in DOMAIN b : [at |-> m, price |-> b[m]] \in observed'
    <3> SUFFICES ASSUME NEW m \in DOMAIN b
                 PROVE  [at |-> m, price |-> b[m]] \in observed'
      OBVIOUS
    <3>1. CASE \A r \in observed : r.at # m
      BY <3>1, <1>3
    <3>2. CASE \E r \in observed : r.at = m
      <4>1. PICK r \in observed : r.at = m
        BY <3>2
      <4>2. r.price = b[m]
        BY <4>1, <1>3 DEF Conflict
      <4>3. r = [at |-> m, price |-> b[m]]
        BY <4>1, <4>2, <2>6 DEF Evidence
      <4> QED BY <4>1, <4>3, <2>6
    <3> QED BY <3>1, <3>2
  <2>8. \A r, q \in observed' : r.at = q.at => r = q
    <3> SUFFICES ASSUME NEW r \in observed', NEW q \in observed', r.at = q.at
                 PROVE  r = q
      OBVIOUS
    <3>1. CASE r \in observed /\ q \in observed
      BY <3>1, <2>6
    <3>2. CASE r \in added /\ q \in added
      BY <3>2
    <3> QED BY <3>1, <3>2, <1>3, <2>5
  <2> DEFINE k == [worker[w] EXCEPT !.pc = "DELIVERING"]
  <2>9. /\ k \in BatchCycle /\ k.pc = "DELIVERING" /\ k.cutoff = c /\ k.todo = todo
        /\ k.batch = b
    BY <2>1 DEF BatchCycle
  <2>10. worker' = [worker EXCEPT ![w] = k]
    BY <1>3 DEF WorkerInv, LockOK
  <2> HIDE DEF k, added
  <2>11. worker'[w] = k
    BY <2>10 DEF WorkerInv, LockOK
  <2>12. CycleOK(w)'
    BY <1>1, <2>2, <2>3, <2>7, <2>9, <2>11 DEF CycleOK
  <2>13. LockOK' /\ CyclesOK'
    BY <1>1, <1>3, <2>9, <2>10, <2>12, HolderGoesOn DEF WorkerInv
  <2>14. ClockOK' /\ OrdersOK' /\ AccountsOK' /\ CheckpointsValued'
    BY <1>1 DEF WorkerInv, ClockOK, OrdersOK, AccountsOK, CheckpointsValued
  <2>15. RowsOK'
    BY <1>1, <1>3, <2>5 DEF WorkerInv, RowsOK
  <2>16. OneCanonicalMarket'
    BY <1>1, <2>6, <2>8 DEF WorkerInv, OneCanonicalMarket
  <2>17. NoMinuteSkipped'
    <3> SUFFICES ASSUME NEW o \in Orders
                 PROVE  /\ \A m \in order[o].since + 1 .. order[o].cursor :
                              \E r \in observed' : r.at = m
                        /\ \A r \in observed' :
                             r.at \in order[o].since + 1 .. order[o].cursor
                               /\ r.price \in FillsAt[o]
                             => r.at = order[o].cursor /\ order[o].st \in {"FILLED", "REJECTED"}
      BY <1>1 DEF NoMinuteSkipped
    <3>1. \A m \in order[o].since + 1 .. order[o].cursor : \E r \in observed : r.at = m
      BY DEF WorkerInv, NoMinuteSkipped
    <3>2. \A r \in observed' \ observed : r.at \notin order[o].since + 1 .. order[o].cursor
      BY <3>1, <1>3, <2>5
    <3> QED BY <3>1, <3>2, <2>6 DEF WorkerInv, NoMinuteSkipped
  <2> QED BY <2>13, <2>14, <2>15, <2>16, <2>17 DEF WorkerInv
<1> QED BY <1>2, <1>3 DEF Capture

-----------------------------------------------------------------------------
(* Delivering a batch to one account *)

\* The later of two minutes.
LEMMA MaxOfTwo ==
    ASSUME NEW x \in Nat, NEW y \in Nat
    PROVE  Max({x, y}) \in {x, y} /\ x <= Max({x, y}) /\ y <= Max({x, y})
<1>1. PICK n \in Nat : x <= n /\ y <= n
  <2>1. x + y \in Nat /\ x <= x + y /\ y <= x + y
    OBVIOUS
  <2> QED BY <2>1
<1>2. {x, y} \in SUBSET (0..n) /\ {x, y} # {}
  BY <1>1
<1> QED BY <1>1, <1>2, MaxOfBounded

\* A canonical batch that leaves no gap carries a pending order over minutes that
\* all have evidence, to the first one that touches it or past all of them.
LEMMA ObservedOrderOK ==
    ASSUME WorkerInv, NEW o \in Orders, order[o].st = "PENDING",
           NEW c \in Nat, c = clock, NEW f \in 1 .. c - 1, NEW b \in [f .. c - 1 -> Prices],
           \A m \in f .. c - 1 : [at |-> m, price |-> b[m]] \in observed,
           New(o, b) = {} \/ order[o].cursor + 1 \in DOMAIN b
    PROVE  LET q == ObservedOrder(o, b)
           IN  /\ q \in OrderRow /\ q.since = order[o].since
               /\ q.cursor \in order[o].cursor .. clock
               /\ q.fill \subseteq observed
               /\ \A m \in q.since + 1 .. q.cursor : \E r \in observed : r.at = m
               /\ \A r \in observed :
                    r.at \in q.since + 1 .. q.cursor /\ r.price \in FillsAt[o]
                      => r.at = q.cursor /\ q.st \in {"FILLED", "REJECTED"}
<1> DEFINE x == order[o].cursor
           q == ObservedOrder(o, b)
<1>1. /\ order[o] \in OrderRow /\ x \in Nat /\ order[o].since \in Nat
      /\ order[o].since <= x /\ x <= c /\ order[o].fill \subseteq observed
  BY DEF WorkerInv, OrdersOK, OrderRow, OneCanonicalMarket
<1>2. /\ \A m \in order[o].since + 1 .. x : \E r \in observed : r.at = m
      /\ \A r \in observed : r.at \in order[o].since + 1 .. x => r.price \notin FillsAt[o]
  BY DEF WorkerInv, NoMinuteSkipped
<1>3. observed \subseteq Evidence /\ \A r, p \in observed : r.at = p.at => r = p
  BY DEF WorkerInv, RowsOK, OneCanonicalMarket
<1>4. DOMAIN b = f .. c - 1 /\ LastOpen(b) = c - 1 /\ c - 1 \in Nat
  <2>1. DOMAIN b = f .. c - 1 /\ f \in Nat /\ f < c /\ c - 1 \in Nat
    OBVIOUS
  <2> QED BY <2>1, MaxOfRange DEF LastOpen
<1>5. New(o, b) = {m \in f .. c - 1 : m > x}
  BY <1>4 DEF New
<1>6. Touched(o, b) = {m \in f .. c - 1 : m > x /\ b[m] \in FillsAt[o]}
  BY <1>5 DEF Touched
<1>7. \A r \in observed : r.at \in f .. c - 1 => r.price = b[r.at]
  <2> SUFFICES ASSUME NEW r \in observed, r.at \in f .. c - 1
               PROVE  r.price = b[r.at]
    OBVIOUS
  <2>1. r = [at |-> r.at, price |-> b[r.at]]
    BY <1>3
  <2> QED BY <2>1
<1>8. \A m \in f .. c - 1 : m > x => \A n \in x + 1 .. m : n \in f .. c - 1
  BY <1>1, <1>4, <1>5
<1>9. ASSUME NEW y \in x .. c - 1, y > x => y \in f .. c - 1
      PROVE  \A m \in order[o].since + 1 .. y : \E r \in observed : r.at = m
  <2> SUFFICES ASSUME NEW m \in order[o].since + 1 .. y, m > x
               PROVE  \E r \in observed : r.at = m
    BY <1>1, <1>2
  <2>1. m \in f .. c - 1
    BY <1>1, <1>8, <1>9
  <2>2. [at |-> m, price |-> b[m]] \in observed /\ [at |-> m, price |-> b[m]].at = m
    BY <2>1
  <2> QED BY <2>2
<1> HIDE DEF x
<1>10. CASE Touched(o, b) = {}
  <2>1. q = [order[o] EXCEPT !.cursor = Max({x, c - 1})]
    BY <1>4, <1>10 DEF ObservedOrder, x
  <2>2. PICK y : y = Max({x, c - 1})
    OBVIOUS
  <2>3. y \in {x, c - 1} /\ x <= y /\ c - 1 <= y
    BY <1>1, <1>4, <2>2, MaxOfTwo
  <2>4. y \in Nat /\ y \in x .. c /\ (y = x \/ (y = c - 1 /\ y > x))
    BY <1>1, <1>4, <2>3
  <2>5. /\ q \in OrderRow /\ q.since = order[o].since /\ q.cursor = y
        /\ q.fill = order[o].fill /\ q.st = order[o].st
    BY <1>1, <2>1, <2>2, <2>4 DEF OrderRow
  <2> HIDE DEF q
  <2>6. \A m \in order[o].since + 1 .. y : \E r \in observed : r.at = m
    <3>1. CASE y = x
      BY <3>1, <1>2
    <3>2. CASE y = c - 1 /\ y > x
      BY <3>2, <1>1, <1>4, <1>9
    <3> QED BY <2>4, <3>1, <3>2
  <2>7. ASSUME NEW r \in observed, r.at \in order[o].since + 1 .. y, r.price \in FillsAt[o]
        PROVE  FALSE
    <3>1. r.at > x /\ r.at \in Nat
      BY <1>1, <1>2, <2>4, <2>7
    <3>2. y = c - 1 /\ y > x
      BY <2>4, <2>7, <3>1, <1>1
    <3>3. r.at \in f .. c - 1
      BY <3>1, <3>2, <2>7, <1>1, <1>4, <1>8
    <3> QED BY <3>1, <3>3, <2>7, <1>6, <1>7, <1>10
  <2>8. order[o].cursor = x /\ y \in x .. clock
    BY <2>4 DEF x
  <2> QED BY <2>5, <2>6, <2>7, <2>8, <1>1 DEF q
<1>11. CASE Touched(o, b) # {}
  <2>1. PICK y : y = Min(Touched(o, b))
    OBVIOUS
  <2>2. Touched(o, b) \in SUBSET Nat
    BY <1>6
  <2>3. y \in Touched(o, b) /\ \A m \in Touched(o, b) : y <= m
    BY <1>11, <2>1, <2>2, MinOfNat
  <2>4. y \in f .. c - 1 /\ y > x /\ b[y] \in FillsAt[o] /\ y \in Nat
    BY <2>3, <1>6
  <2> DEFINE new == [order[o] EXCEPT !.cursor = y,
                       !.st = IF o \in Refused THEN "REJECTED" ELSE "FILLED",
                       !.fill = IF o \in Refused THEN {} ELSE {[at |-> y, price |-> b[y]]}]
  <2>5. q = new
    BY <1>11, <2>1 DEF ObservedOrder
  <2>6. [at |-> y, price |-> b[y]] \in observed /\ [at |-> y, price |-> b[y]] \in Evidence
    BY <2>4, <1>3
  <2>7. /\ new \in OrderRow /\ new.since = order[o].since /\ new.cursor = y
        /\ new.fill = (IF o \in Refused THEN {} ELSE {[at |-> y, price |-> b[y]]})
        /\ new.st \in {"FILLED", "REJECTED"}
    <3> DEFINE st == IF o \in Refused THEN "REJECTED" ELSE "FILLED"
               fill == IF o \in Refused THEN {} ELSE {[at |-> y, price |-> b[y]]}
    <3>1. st \in {"FILLED", "REJECTED"} /\ fill \in SUBSET Evidence
      BY <2>6
    <3>2. new = [order[o] EXCEPT !.cursor = y, !.st = st, !.fill = fill]
      OBVIOUS
    <3> HIDE DEF st, fill, new
    <3>3. /\ new \in OrderRow /\ new.since = order[o].since /\ new.cursor = y
          /\ new.fill = fill /\ new.st = st
      BY <3>1, <3>2, <2>4, <1>1 DEF OrderRow
    <3> QED BY <3>1, <3>3 DEF fill
  <2> HIDE DEF q, new
  <2>8. y \in x .. c - 1 /\ order[o].cursor = x /\ y \in x .. clock
    BY <2>4, <1>1 DEF x
  <2>9. \A m \in order[o].since + 1 .. y : \E r \in observed : r.at = m
    BY <2>4, <2>8, <1>9
  <2>10. ASSUME NEW r \in observed, r.at \in order[o].since + 1 .. y, r.price \in FillsAt[o]
         PROVE  r.at = y
    <3>1. r.at > x /\ r.at \in Nat /\ r.at <= y
      BY <1>1, <1>2, <2>4, <2>10
    <3>2. r.at \in f .. c - 1
      BY <3>1, <2>4, <1>1, <1>8
    <3>3. r.at \in Touched(o, b)
      BY <3>1, <3>2, <2>10, <1>6, <1>7
    <3> QED BY <3>1, <3>3, <2>3, <2>4
  <2>11. new.fill \subseteq observed
    BY <2>6, <2>7
  <2> QED BY <2>5, <2>7, <2>8, <2>9, <2>10, <2>11 DEF q
<1> QED BY <1>10, <1>11

\* The account's last fill stays a minute the clock has reached.
LEMMA LastFilledOK ==
    ASSUME WorkerInv, NEW a \in Accounts,
           NEW c \in Nat, c = clock, NEW f \in 1 .. c - 1, NEW b \in [f .. c - 1 -> Prices],
           NEW filled, \A o \in filled : Touched(o, b) # {}
    PROVE  Max({lastFilled[a]} \cup {Min(Touched(o, b)) + 1 : o \in filled}) \in 0..MaxMinute
<1> DEFINE T == {lastFilled[a]} \cup {Min(Touched(o, b)) + 1 : o \in filled}
<1>1. lastFilled[a] \in 0..MaxMinute /\ c <= MaxMinute /\ MaxMinute \in Nat
  BY WorkerAssumption DEF WorkerInv, AccountsOK, ClockOK
<1>2. \A o \in filled : Min(Touched(o, b)) + 1 \in 0..MaxMinute
  <2> SUFFICES ASSUME NEW o \in filled
               PROVE  Min(Touched(o, b)) + 1 \in 0..MaxMinute
    OBVIOUS
  <2>1. Touched(o, b) \subseteq f .. c - 1
    BY DEF Touched, New
  <2>2. Touched(o, b) \in SUBSET Nat
    BY <2>1
  <2>3. Min(Touched(o, b)) \in Touched(o, b)
    BY <2>2, MinOfNat
  <2>4. PICK y \in f .. c - 1 : y = Min(Touched(o, b))
    BY <2>1, <2>3
  <2> QED BY <1>1, <2>4
<1>3. T \in SUBSET (0..MaxMinute) /\ T # {}
  BY <1>1, <1>2
<1> HIDE DEF T
<1>4. Max(T) \in T
  BY <1>1, <1>3, MaxOfBounded
<1>5. Max(T) \in 0..MaxMinute
  BY <1>3, <1>4
<1> QED BY <1>5 DEF T

\* gateway.observe of a canonical batch keeps every table in order.
LEMMA ObserveInv ==
    ASSUME WorkerInv, NEW a \in Accounts,
           NEW c \in Nat, c = clock, NEW f \in 1 .. c - 1, NEW b \in [f .. c - 1 -> Prices],
           \A m \in f .. c - 1 : [at |-> m, price |-> b[m]] \in observed,
           Observable(a, b), Observe(a, b), UNCHANGED <<clock, observed, delivered>>
    PROVE  /\ ClockOK' /\ OrdersOK' /\ AccountsOK' /\ RowsOK'
           /\ OneCanonicalMarket' /\ NoMinuteSkipped' /\ CheckpointsValued'
           /\ marks \subseteq marks'
           /\ \E x \in marks' : x.acct = a /\ x.at = c - 1
<1> DEFINE new == {[acct |-> a, at |-> m, price |-> b[m]] : m \in DOMAIN b}
           filled == {o \in Pending(a) \ Refused : Touched(o, b) # {}}
<1>1. /\ clock' = clock /\ observed' = observed /\ delivered' = delivered
      /\ marks' = marks \cup new
      /\ order' = [o \in Orders |-> IF o \in Pending(a) THEN ObservedOrder(o, b) ELSE order[o]]
      /\ lastFilled' = [lastFilled EXCEPT
             ![a] = Max({lastFilled[a]} \cup {Min(Touched(o, b)) + 1 : o \in filled})]
      /\ position' \subseteq position \cup {a}
  BY DEF Observe
<1>2. DOMAIN b = f .. c - 1 /\ f \in Nat /\ c \in 1..MaxMinute /\ c > 1 /\ c - 1 \in f .. c - 1
  BY DEF WorkerInv, ClockOK
<1>3. ASSUME NEW o \in Orders
      PROVE  /\ order'[o] \in OrderRow /\ order'[o].since \in 0..clock
             /\ order'[o].cursor \in order'[o].since .. clock
             /\ order'[o].fill \subseteq observed
             /\ \A m \in order'[o].since + 1 .. order'[o].cursor : \E r \in observed : r.at = m
             /\ \A r \in observed :
                  r.at \in order'[o].since + 1 .. order'[o].cursor /\ r.price \in FillsAt[o]
                    => r.at = order'[o].cursor /\ order'[o].st \in {"FILLED", "REJECTED"}
  <2>1. /\ order[o] \in OrderRow /\ order[o].since \in 0..clock
        /\ order[o].cursor \in order[o].since .. clock /\ order[o].fill \subseteq observed
    BY DEF WorkerInv, OrdersOK, OneCanonicalMarket
  <2>2. CASE o \in Pending(a)
    <3>1. order[o].st = "PENDING" /\ (New(o, b) = {} \/ order[o].cursor + 1 \in DOMAIN b)
      BY <2>2 DEF Pending, Observable, Gap
    <3>2. order'[o] = ObservedOrder(o, b)
      BY <2>2, <1>1
    <3> DEFINE q == ObservedOrder(o, b)
    <3>3. /\ q \in OrderRow /\ q.since = order[o].since
          /\ q.cursor \in order[o].cursor .. clock
          /\ q.fill \subseteq observed
          /\ \A m \in q.since + 1 .. q.cursor : \E r \in observed : r.at = m
          /\ \A r \in observed :
               r.at \in q.since + 1 .. q.cursor /\ r.price \in FillsAt[o]
                 => r.at = q.cursor /\ q.st \in {"FILLED", "REJECTED"}
      BY <3>1, ObservedOrderOK
    <3> HIDE DEF q
    <3>4. order'[o] = q
      BY <3>2 DEF q
    <3>5. q.since \in 0..clock /\ q.cursor \in q.since .. clock
      BY <2>1, <3>3
    <3> QED BY <3>3, <3>4, <3>5
  <2>3. CASE o \notin Pending(a)
    <3>1. order'[o] = order[o]
      BY <2>3, <1>1
    <3> QED BY <3>1, <2>1 DEF WorkerInv, NoMinuteSkipped
  <2> QED BY <2>2, <2>3
<1>4. ClockOK'
  BY <1>1 DEF WorkerInv, ClockOK
<1>5. OrdersOK'
  BY <1>1, <1>3 DEF OrdersOK
<1>6. AccountsOK'
  <2> DEFINE last == Max({lastFilled[a]} \cup {Min(Touched(o, b)) + 1 : o \in filled})
  <2>1. last \in 0..MaxMinute
    BY LastFilledOK
  <2>2. lastFilled' = [lastFilled EXCEPT ![a] = last]
    BY <1>1
  <2> HIDE DEF last
  <2>3. lastFilled' \in [Accounts -> 0..MaxMinute]
    BY <2>1, <2>2 DEF WorkerInv, AccountsOK
  <2> QED BY <2>3, <1>1, <1>2 DEF WorkerInv, AccountsOK
<1>7. \A x \in new : /\ x \in [acct : Accounts, at : 1..MaxMinute, price : Prices]
                     /\ x.at < clock /\ [at |-> x.at, price |-> x.price] \in observed
  <2> SUFFICES ASSUME NEW m \in f .. c - 1, NEW x, x = [acct |-> a, at |-> m, price |-> b[m]]
               PROVE  /\ x \in [acct : Accounts, at : 1..MaxMinute, price : Prices]
                      /\ x.at < clock /\ [at |-> x.at, price |-> x.price] \in observed
    BY <1>2
  <2>1. x.at = m /\ x.price = b[m] /\ b[m] \in Prices
    OBVIOUS
  <2>2. m \in 1..MaxMinute /\ m < clock
    BY <1>2, WorkerAssumption
  <2> QED BY <2>1, <2>2
<1>8. RowsOK'
  <2>1. /\ observed \subseteq Evidence
        /\ marks \subseteq [acct : Accounts, at : 1..MaxMinute, price : Prices]
        /\ \A k \in marks : k.at < clock
        /\ delivered \subseteq [acct : Accounts, cutoff : 1..MaxMinute]
        /\ \A d \in delivered : d.cutoff <= clock
    BY DEF WorkerInv, RowsOK
  <2> HIDE DEF new
  <2> QED BY <2>1, <1>1, <1>7 DEF RowsOK
<1>9. OneCanonicalMarket'
  <2>1. /\ \A r, q \in observed : r.at = q.at => r = q
        /\ \A k \in marks : [at |-> k.at, price |-> k.price] \in observed
    BY DEF WorkerInv, OneCanonicalMarket
  <2> HIDE DEF new
  <2> QED BY <2>1, <1>1, <1>3, <1>7 DEF OneCanonicalMarket
<1>10. NoMinuteSkipped'
  BY <1>1, <1>3 DEF NoMinuteSkipped
<1>11. CheckpointsValued'
  BY <1>1 DEF WorkerInv, CheckpointsValued
<1>12. \E x \in marks' : x.acct = a /\ x.at = c - 1
  <2>1. [acct |-> a, at |-> c - 1, price |-> b[c - 1]] \in marks'
    BY <1>1, <1>2
  <2> QED BY <2>1
<1> QED BY <1>1, <1>4, <1>5, <1>6, <1>8, <1>9, <1>10, <1>11, <1>12

\* A worker delivers a candle to an account.
LEMMA DeliverInv ==
    ASSUME WorkerInv, NEW w \in Workers, Deliver(w)
    PROVE  WorkerInv'
<1> DEFINE k == worker[w]
           a == Min(k.todo)
<1>1. /\ k.pc = "DELIVERING" /\ k.todo # {} /\ lock' = lock
      /\ UNCHANGED <<clock, observed, delivered>>
  BY DEF Deliver
<1>2. k \in BatchCycle /\ CycleOK(w)
  BY <1>1, CycleFields DEF WorkerInv, CyclesOK
<1>3. /\ k.todo \in SUBSET Accounts /\ k.todo \in SUBSET Nat /\ k.cutoff \in Nat
      /\ k.cutoff \in 1..clock
  <2>1. k.todo \in SUBSET Accounts /\ k.cutoff \in 1..MaxMinute
    BY <1>2 DEF BatchCycle
  <2>2. k.cutoff \in 1..clock
    BY <1>1, <1>2 DEF CycleOK
  <2>3. Accounts \subseteq Nat
    BY WorkerAssumption
  <2> HIDE DEF k
  <2>4. k.cutoff \in Nat
    BY <2>1
  <2>5. k.todo \in SUBSET Nat
    BY <2>1, <2>3
  <2> QED BY <2>1, <2>2, <2>4, <2>5
<1>4. a \in k.todo
  BY <1>1, <1>3, MinOfNat
<1>5. PICK f \in 1 .. k.cutoff - 1 : k.batch \in [f .. k.cutoff - 1 -> Prices]
  BY <1>1, <1>2 DEF CycleOK
<1>6. \A m \in f .. k.cutoff - 1 : [at |-> m, price |-> k.batch[m]] \in observed
  BY <1>1, <1>2, <1>5 DEF CycleOK
<1>7. CASE /\ clock = k.cutoff /\ Observable(a, k.batch) /\ Observe(a, k.batch)
           /\ worker' = [worker EXCEPT ![w] = After(k, TRUE)]
  <2> DEFINE n == After(k, TRUE)
  <2>1. /\ n \in BatchCycle /\ n.pc = "DELIVERED" /\ n.cutoff = k.cutoff /\ n.todo = k.todo
        /\ n.batch = k.batch
    BY <1>2 DEF After, BatchCycle
  <2>2. worker' = [worker EXCEPT ![w] = n]
    BY <1>7
  <2> HIDE DEF n
  <2>3. worker'[w] = n
    BY <2>2 DEF WorkerInv, LockOK
  <2>4. a \in Accounts
    BY <1>3, <1>4
  <2>5. /\ ClockOK' /\ OrdersOK' /\ AccountsOK' /\ RowsOK'
        /\ OneCanonicalMarket' /\ NoMinuteSkipped' /\ CheckpointsValued'
        /\ marks \subseteq marks'
        /\ \E x \in marks' : x.acct = a /\ x.at = k.cutoff - 1
    <3> HIDE DEF a, k
    <3> QED BY <1>1, <1>3, <1>5, <1>6, <1>7, <2>4, ObserveInv
  <2>6. CycleOK(w)'
    BY <1>1, <1>2, <2>1, <2>3, <2>5 DEF CycleOK
  <2>7. LockOK' /\ CyclesOK'
    BY <1>1, <2>1, <2>2, <2>6, HolderGoesOn DEF WorkerInv
  <2> QED BY <2>5, <2>7 DEF WorkerInv
<1>8. CASE /\ UNCHANGED accountRows
           /\ worker' = [worker EXCEPT ![w] = After(k, FALSE)]
  <2> DEFINE n == After(k, FALSE)
  <2>1. /\ n \in BatchCycle /\ n.pc = "DELIVERING" /\ n.cutoff = k.cutoff
        /\ n.todo = k.todo \ {a} /\ n.batch = k.batch
    BY <1>1, <1>2 DEF After, BatchCycle
  <2>2. worker' = [worker EXCEPT ![w] = n]
    BY <1>8
  <2> HIDE DEF n
  <2>3. worker'[w] = n
    BY <2>2 DEF WorkerInv, LockOK
  <2>4. CycleOK(w)'
    BY <1>1, <1>2, <2>1, <2>3 DEF CycleOK
  <2>5. LockOK' /\ CyclesOK'
    BY <1>1, <2>1, <2>2, <2>4, HolderGoesOn DEF WorkerInv
  <2> QED BY <1>1, <1>8, <2>5, CycleStep DEF accountRows
<1> QED BY <1>7, <1>8 DEF Deliver

\* A worker writes its checkpoint.
LEMMA CheckpointInv ==
    ASSUME WorkerInv, NEW w \in Workers, Checkpoint(w)
    PROVE  WorkerInv'
<1> DEFINE k == worker[w]
           a == Min(k.todo)
           n == [k EXCEPT !.pc = "DELIVERING", !.todo = @ \ {Min(@)}]
           d == [acct |-> a, cutoff |-> k.cutoff]
<1>1. /\ k.pc = "DELIVERED" /\ delivered' = delivered \cup {d} /\ lock' = lock
      /\ worker' = [worker EXCEPT ![w] = n]
      /\ UNCHANGED <<clock, order, position, lastFilled, marks, observed>>
  BY DEF Checkpoint, accountRows
<1>2. k \in BatchCycle /\ CycleOK(w)
  BY <1>1, CycleFields DEF WorkerInv, CyclesOK
<1>3. /\ k.todo \in SUBSET Accounts /\ k.todo \in SUBSET Nat /\ k.todo # {}
      /\ k.cutoff \in 1..clock /\ k.cutoff \in 1..MaxMinute
  <2>1. k.todo \in SUBSET Accounts /\ k.cutoff \in 1..MaxMinute
    BY <1>2 DEF BatchCycle
  <2>2. k.todo # {} /\ k.cutoff \in 1..clock
    BY <1>1, <1>2 DEF CycleOK
  <2> QED BY <2>1, <2>2, WorkerAssumption
<1>4. a \in k.todo
  BY <1>3, MinOfNat
<1>5. /\ n \in BatchCycle /\ n.pc = "DELIVERING" /\ n.cutoff = k.cutoff
      /\ n.todo = k.todo \ {a} /\ n.batch = k.batch
  BY <1>2 DEF BatchCycle
<1>6. d \in [acct : Accounts, cutoff : 1..MaxMinute] /\ d.acct = a /\ d.cutoff = k.cutoff
  BY <1>3, <1>4
<1>7. \E x \in marks : x.acct = a /\ x.at = k.cutoff - 1
  BY <1>1, <1>2 DEF CycleOK
<1>8. \A p \in k.todo \ {a} : [acct |-> p, cutoff |-> k.cutoff] \notin delivered'
  <2> SUFFICES ASSUME NEW p \in k.todo \ {a}
               PROVE  [acct |-> p, cutoff |-> k.cutoff] \notin delivered'
    OBVIOUS
  <2>1. [acct |-> p, cutoff |-> k.cutoff] \notin delivered
    BY <1>1, <1>2 DEF CycleOK
  <2>2. [acct |-> p, cutoff |-> k.cutoff].acct # d.acct
    BY <1>6
  <2> QED BY <1>1, <2>1, <2>2
<1> HIDE DEF n, d
<1>9. worker'[w] = n
  BY <1>1 DEF WorkerInv, LockOK
<1>10. CycleOK(w)'
  BY <1>1, <1>2, <1>5, <1>8, <1>9 DEF CycleOK
<1>11. LockOK' /\ CyclesOK'
  BY <1>1, <1>5, <1>10, HolderGoesOn DEF WorkerInv
<1>12. RowsOK'
  <2>1. d.cutoff <= clock
    BY <1>3, <1>6
  <2> QED BY <1>1, <1>6, <2>1 DEF WorkerInv, RowsOK
<1>13. CheckpointsValued'
  <2> SUFFICES ASSUME NEW e \in delivered'
               PROVE  \E x \in marks : x.acct = e.acct /\ x.at = e.cutoff - 1
    BY <1>1 DEF CheckpointsValued
  <2>1. CASE e = d
    BY <2>1, <1>6, <1>7
  <2>2. CASE e \in delivered
    BY <2>2 DEF WorkerInv, CheckpointsValued
  <2> QED BY <2>1, <2>2, <1>1
<1>14. ClockOK' /\ OrdersOK' /\ AccountsOK' /\ OneCanonicalMarket' /\ NoMinuteSkipped'
  BY <1>1 DEF WorkerInv, ClockOK, OrdersOK, AccountsOK, OneCanonicalMarket, NoMinuteSkipped
<1> QED BY <1>11, <1>12, <1>13, <1>14 DEF WorkerInv

-----------------------------------------------------------------------------
(* Theorems *)

\* Each action in turn.
LEMMA WorkerStep == WorkerInv /\ [Next]_vars => WorkerInv'
<1> SUFFICES ASSUME WorkerInv, [Next]_vars
             PROVE  WorkerInv'
  OBVIOUS
<1>1. CASE Tick
  BY <1>1, TickInv
<1>2. ASSUME NEW o \in Orders, Accept(o) \/ Acknowledge(o) \/ Cancel(o)
      PROVE  WorkerInv'
  BY <1>2, ClientInv
<1>3. ASSUME NEW a \in Accounts, FillElsewhere(a)
      PROVE  WorkerInv'
  BY <1>3, FillElsewhereInv
<1>4. ASSUME NEW w \in Workers, Step(w) \/ Crash(w)
      PROVE  WorkerInv'
  BY <1>4, AcquireInv, LeaveInv, ReadTargetsInv, FetchInv, CaptureInv, DeliverInv,
     CheckpointInv, CrashInv DEF Step
<1>5. CASE UNCHANGED vars
  <2>1. LockOK' /\ CyclesOK'
    BY <1>5 DEF vars, WorkerInv, LockOK, CyclesOK, CycleOK
  <2> QED BY <1>5, <2>1, CycleStep DEF vars
<1> QED BY <1>1, <1>2, <1>3, <1>4, <1>5 DEF Next

\* The inductive invariant, in every state.
LEMMA WorkerInvariant == Spec => []WorkerInv
BY WorkerInit, WorkerStep, PTL DEF Spec

\* Every row and every cycle keeps its shape, and the advisory lock of the stream
\* is held by the one process that is in a cycle, whichever processes die.
THEOREM WorkerTypeCorrect == Spec => []TypeOK
BY WorkerInvariant, InvImpliesTypeOK, PTL

\* capture and observe: every fill and mark of every account was made at the one
\* canonical price of its minute, however the provider's answers vary.
THEOREM AccountsSeeOneMarket == Spec => []OneCanonicalMarket
<1>1. WorkerInv => OneCanonicalMarket
  BY DEF WorkerInv
<1> QED BY <1>1, WorkerInvariant, PTL

\* observe: an order's cursor passes only minutes that have evidence, and stops
\* at the first one that touches it, whatever range the batch was fetched for.
THEOREM CursorsSkipNothing == Spec => []NoMinuteSkipped
<1>1. WorkerInv => NoMinuteSkipped
  BY DEF WorkerInv
<1> QED BY <1>1, WorkerInvariant, PTL

\* checkpoint: a delivery is recorded only after observe has committed it, and
\* nobody delivers what was recorded, although the two are separate transactions
\* and the process may die between them.
THEOREM CheckpointsAreDeliveries == Spec => []CheckpointsMatchDeliveries
BY WorkerInvariant, InvImpliesCheckpoints, PTL
=============================================================================
