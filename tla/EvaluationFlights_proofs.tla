----------------------- MODULE EvaluationFlights_proofs -----------------------
(***************************************************************************)
(* Proofs about the shared evaluations, for any number of requests, keys    *)
(* and leases.                                                              *)
(***************************************************************************)
EXTENDS EvaluationFlights, FiniteSetTheorems, SequenceTheorems, TLAPS

-----------------------------------------------------------------------------
(* The inductive invariant *)

\* Only a complete_response runs its own worker, and it is never at a flight;
\* nor is any other request before it enters one and after it has left.
OwnRunIsComplete == \A r \in Requests : req[r].st = "RUNNING" => r \in Complete
OutsideFlights ==
    \A r \in Requests :
        r \in Complete \/ req[r].st \notin {"WAITING", "REAPING"} => req[r].flight = 0

\* A request waits at a flight exactly while it is a member of it.
WaitersAreMembers ==
    \A r \in Requests :
        req[r].st = "WAITING" => /\ req[r].flight \in 1..Len(flight)
                                 /\ r \in flight[req[r].flight].members
MembersWait ==
    \A i \in 1..Len(flight) : \A r \in flight[i].members :
        req[r].st = "WAITING" /\ req[r].flight = i

\* A future holds an error only at a flight whose worker failed.
ErrorsHaveCause ==
    \A r \in Requests :
        req[r].future = "ERROR" => /\ req[r].st \in {"WAITING", "REAPING"}
                                   /\ req[r].flight \in 1..Len(flight)
                                   /\ flight[req[r].flight].failed

\* Once sealed a flight accepts nobody, so the members it has not answered are
\* in its snapshot, and none is left when the worker has returned.
SealedFlight(i) ==
    /\ flight[i].phase = "PROJECTING" =>
         /\ ~flight[i].accepting
         /\ \A r \in flight[i].members : req[r].future = "PENDING" => r \in flight[i].todo
    /\ flight[i].phase = "FINISHING" =>
         /\ ~flight[i].accepting
         /\ \A r \in flight[i].members : req[r].future # "PENDING"
    /\ flight[i].phase = "FAILING" => flight[i].failed
SealedFlights == \A i \in 1..Len(flight) : SealedFlight(i)

\* The runner, once closed, evaluates nothing.
RunnerStopped ==
    RunnerClosed => /\ \A i \in 1..Len(flight) : flight[i].phase \notin Evaluating
                    /\ \A r \in Requests : req[r].st # "RUNNING"

FlightsInv ==
    /\ TypeOK /\ IsFiniteSet(lease)
    /\ OwnRunIsComplete /\ OutsideFlights /\ WaitersAreMembers /\ MembersWait
    /\ NoOrphanWork /\ SingleFlight
    /\ ErrorsHaveCause /\ SealedFlights /\ RunnerStopped

RequestType == [st : {"NEW", "GONE"} \cup InProgress, flight : 0..Len(flight),
                future : {"PENDING", "BODY", "ERROR", "CANCELLED"},
                out : {"NONE", "BUSY", "BODY", "ERROR", "CANCELLED"}]

-----------------------------------------------------------------------------
(* The table of flights *)

\* A flight of the table is one.
LEMMA FlightFields ==
    ASSUME flight \in Seq(FlightType), NEW i \in 1..Len(flight)
    PROVE  /\ flight[i] \in FlightType
           /\ flight[i].key \in Keys /\ flight[i].members \subseteq Requests
           /\ flight[i].todo \subseteq Requests /\ flight[i].accepting \in BOOLEAN
           /\ flight[i].failed \in BOOLEAN
           /\ flight[i].phase \in Evaluating \cup Reaping \cup {"DONE"}
<1>1. flight[i] \in FlightType
  BY ElementOfSeq
<1> QED BY <1>1 DEF FlightType

\* Replacing one flight leaves the others alone.
LEMMA FlightReplaced ==
    ASSUME flight \in Seq(FlightType), NEW i \in 1..Len(flight), NEW g \in FlightType,
           flight' = [flight EXCEPT ![i] = g]
    PROVE  /\ flight' \in Seq(FlightType) /\ Len(flight') = Len(flight)
           /\ flight'[i] = g
           /\ \A j \in 1..Len(flight) : j # i => flight'[j] = flight[j]
BY ExceptSeq

\* A record of the table of requests is one.
LEMMA RequestFields ==
    ASSUME TypeOK, NEW r \in Requests
    PROVE  /\ req[r] \in RequestType
           /\ req[r].st \in {"NEW", "GONE"} \cup InProgress
           /\ req[r].flight \in 0..Len(flight)
           /\ req[r].future \in {"PENDING", "BODY", "ERROR", "CANCELLED"}
           /\ req[r].out \in {"NONE", "BUSY", "BODY", "ERROR", "CANCELLED"}
BY DEF TypeOK, RequestType

-----------------------------------------------------------------------------
(* Init *)

\* Nothing is reserved and no flight exists.
LEMMA FlightsInit == Init => FlightsInv
<1> SUFFICES ASSUME Init PROVE FlightsInv
  OBVIOUS
<1>1. lease = {} /\ flight = << >> /\ Len(flight) = 0
  BY DEF Init
<1>2. TypeOK /\ IsFiniteSet(lease)
  <2>1. Cardinality(lease) = 0 /\ IsFiniteSet(lease)
    BY <1>1, FS_EmptySet
  <2>2. Cardinality(lease) <= Capacity
    BY <2>1, FlightsAssumption
  <2> QED BY <1>1, <2>1, <2>2 DEF Init, TypeOK, InProgress, Keys
<1> QED BY <1>1, <1>2 DEF Init, FlightsInv, OwnRunIsComplete, OutsideFlights, WaitersAreMembers, MembersWait,
        NoOrphanWork, SingleFlight, ErrorsHaveCause, SealedFlights, RunnerStopped, OpenFlights,
        RunnerClosed
-----------------------------------------------------------------------------
(* Steps of a request that is no member of a flight *)

\* Such a request may change as long as it keeps the flight it reaps: no flight
\* and no member notices.
LEMMA NonMemberStep ==
    ASSUME FlightsInv, NEW r \in Requests, NEW q \in RequestType,
           req[r].st # "WAITING", q.st # "WAITING",
           q.st = "RUNNING" => r \in Complete /\ ~RunnerClosed,
           r \in Complete \/ q.st # "REAPING" => q.flight = 0,
           q.future = "ERROR" =>
               q.st = "REAPING" /\ q.flight = req[r].flight /\ req[r].future = "ERROR",
           req[r].flight \in OpenFlights => q.flight = req[r].flight /\ q.st \in InProgress,
           req' = [req EXCEPT ![r] = q],
           lease' = IF q.st \in InProgress THEN lease \cup {r} ELSE lease \ {r},
           q.st \in InProgress /\ r \notin lease => Cardinality(lease) < Capacity,
           asked' \subseteq Requests, UNCHANGED <<flight, table, closing>>
    PROVE  FlightsInv'
<1>1. flight' = flight /\ table' = table /\ closing' = closing
  OBVIOUS
<1>2. /\ DOMAIN req = Requests /\ req'[r] = q
      /\ \A p \in Requests \ {r} : req'[p] = req[p]
  BY DEF FlightsInv, TypeOK
<1>3. IsFiniteSet(lease') /\ Cardinality(lease') <= Capacity
  <2>1. IsFiniteSet(lease) /\ Cardinality(lease) \in Nat /\ Cardinality(lease) <= Capacity
    BY FS_CardinalityType DEF FlightsInv, TypeOK
  <2>2. CASE q.st \in InProgress
    <3>1. /\ IsFiniteSet(lease \cup {r})
          /\ Cardinality(lease \cup {r}) =
               IF r \in lease THEN Cardinality(lease) ELSE Cardinality(lease) + 1
      BY <2>1, FS_AddElement
    <3> QED BY <2>1, <2>2, <3>1, FlightsAssumption
  <2>3. CASE q.st \notin InProgress
    <3>1. /\ IsFiniteSet(lease \ {r})
          /\ Cardinality(lease \ {r}) =
               IF r \in lease THEN Cardinality(lease) - 1 ELSE Cardinality(lease)
      BY <2>1, FS_RemoveElement
    <3> QED BY <2>1, <2>3, <3>1, FlightsAssumption
  <2> QED BY <2>2, <2>3
<1>4. TypeOK'
  <2>1. lease' = {p \in Requests : req'[p].st \in InProgress}
    BY <1>2 DEF FlightsInv, TypeOK
  <2>2. req' \in [Requests -> RequestType]
    BY DEF FlightsInv, TypeOK, RequestType
  <2> QED BY <1>1, <1>3, <2>1, <2>2 DEF FlightsInv, TypeOK, RequestType
<1>5. OwnRunIsComplete' /\ OutsideFlights' /\ WaitersAreMembers'
  BY <1>1, <1>2 DEF FlightsInv, OwnRunIsComplete, OutsideFlights, WaitersAreMembers
<1>6. \A i \in 1..Len(flight) : \A p \in flight[i].members : p \in Requests /\ req'[p] = req[p]
  BY <1>2, FlightFields DEF FlightsInv, TypeOK, MembersWait
<1>7. MembersWait'
  BY <1>1, <1>6 DEF FlightsInv, MembersWait
<1>8. NoOrphanWork'
  <2> SUFFICES ASSUME NEW i \in OpenFlights
               PROVE  \E p \in lease' : req'[p].flight = i
    BY <1>1 DEF NoOrphanWork, OpenFlights
  <2>1. PICK p \in lease : req[p].flight = i
    BY DEF FlightsInv, NoOrphanWork
  <2> QED BY <2>1, <1>2 DEF FlightsInv, TypeOK
<1>9. SingleFlight'
  BY <1>1 DEF FlightsInv, SingleFlight, OpenFlights
<1>10. ErrorsHaveCause'
  BY <1>1, <1>2 DEF FlightsInv, ErrorsHaveCause
<1>11. SealedFlights'
  BY <1>1, <1>6 DEF FlightsInv, SealedFlights, SealedFlight
<1>12. RunnerStopped'
  BY <1>1, <1>2 DEF FlightsInv, RunnerStopped, RunnerClosed
<1> QED BY <1>3, <1>4, <1>5, <1>7, <1>8, <1>9, <1>10, <1>11, <1>12 DEF FlightsInv

\* Giving the lease back, once no open flight is reaped any more.
LEMMA ReleaseInv ==
    ASSUME FlightsInv, NEW r \in Requests, req[r].st # "WAITING",
           req[r].st = "REAPING" => \/ r \in Complete
                                    \/ flight[req[r].flight].phase = "DONE",
           NEW outcome \in {"NONE", "BUSY", "BODY", "ERROR", "CANCELLED"}, Gone(r, outcome),
           asked' \subseteq Requests, UNCHANGED <<flight, table, closing>>
    PROVE  FlightsInv'
<1>1. Ended(outcome) \in RequestType
  BY DEF Ended, RequestType, FlightsInv, TypeOK
<1>2. req[r].flight \notin OpenFlights
  BY DEF FlightsInv, OutsideFlights, OpenFlights
<1>3. /\ req' = [req EXCEPT ![r] = Ended(outcome)] /\ lease' = lease \ {r}
  BY DEF Gone
<1>4. /\ Ended(outcome).st = "GONE" /\ Ended(outcome).flight = 0
      /\ Ended(outcome).future = "PENDING"
  BY DEF Ended
<1> QED BY <1>1, <1>2, <1>3, <1>4, NonMemberStep DEF InProgress

\* A request gets a lease or is turned away.
LEMMA ReserveInv ==
    ASSUME FlightsInv, NEW r \in Requests, Reserve(r)
    PROVE  FlightsInv'
<1>1. /\ req[r].st = "NEW" /\ r \notin lease /\ asked' \subseteq Requests
      /\ UNCHANGED <<flight, table, closing>>
  BY DEF Reserve, FlightsInv, TypeOK, InProgress
<1>2. CASE Gone(r, "BUSY")
  BY <1>1, <1>2, ReleaseInv
<1>3. CASE /\ ~FlightsClosed /\ Cardinality(lease) < Capacity
           /\ lease' = lease \cup {r}
           /\ req' = [req EXCEPT ![r].st = IF r \in Complete THEN "RUNNING" ELSE "PREPARING"]
  <2> DEFINE q == [req[r] EXCEPT !.st = IF r \in Complete THEN "RUNNING" ELSE "PREPARING"]
  <2>1. /\ q \in RequestType /\ q.flight = req[r].flight /\ q.future = req[r].future
        /\ q.st = IF r \in Complete THEN "RUNNING" ELSE "PREPARING"
    BY RequestFields DEF FlightsInv, RequestType, InProgress
  <2>2. req[r].flight = 0 /\ req[r].future # "ERROR"
    BY <1>1 DEF FlightsInv, OutsideFlights, ErrorsHaveCause
  <2>3. req' = [req EXCEPT ![r] = q]
    BY <1>3 DEF FlightsInv, TypeOK
  <2> HIDE DEF q
  <2> QED BY <1>1, <1>3, <2>1, <2>2, <2>3, NonMemberStep
          DEF InProgress, FlightsClosed, RunnerClosed, OpenFlights
<1> QED BY <1>2, <1>3 DEF Reserve

\* A request whose preparation fails gives its lease back.
LEMMA PrepareFailsInv ==
    ASSUME FlightsInv, NEW r \in Requests, PrepareFails(r)
    PROVE  FlightsInv'
BY ReleaseInv DEF PrepareFails, FlightsInv, TypeOK

\* A complete response returns or raises.
LEMMA CompleteEndsInv ==
    ASSUME FlightsInv, NEW r \in Requests, CompleteEnds(r)
    PROVE  FlightsInv'
BY ReleaseInv DEF CompleteEnds, FlightsInv, TypeOK

\* A request that has reaped its work ends with the outcome it had.
LEMMA ReapedInv ==
    ASSUME FlightsInv, NEW r \in Requests, Reaped(r)
    PROVE  FlightsInv'
<1>1. req[r].out \in {"NONE", "BUSY", "BODY", "ERROR", "CANCELLED"}
  BY RequestFields DEF FlightsInv
<1> QED BY <1>1, ReleaseInv DEF Reaped, FlightsInv, TypeOK

\* A cancelled request that runs or reaps goes on reaping.
LEMMA KeepReapingInv ==
    ASSUME FlightsInv, NEW r \in Requests, req[r].st \in {"RUNNING", "REAPING"},
           req' = [req EXCEPT ![r].st = "REAPING", ![r].out = "CANCELLED"],
           asked' \subseteq Requests, UNCHANGED <<lease, flight, table, closing>>
    PROVE  FlightsInv'
<1> DEFINE q == [req[r] EXCEPT !.st = "REAPING", !.out = "CANCELLED"]
<1>1. /\ q \in RequestType /\ q.flight = req[r].flight /\ q.future = req[r].future
      /\ q.st = "REAPING"
  BY RequestFields DEF FlightsInv, RequestType, InProgress
<1>2. req' = [req EXCEPT ![r] = q]
  BY DEF FlightsInv, TypeOK
<1>3. r \in lease /\ lease' = lease \cup {r}
  BY DEF FlightsInv, TypeOK, InProgress
<1>4. r \in Complete => req[r].flight = 0
  BY DEF FlightsInv, OutsideFlights
<1> HIDE DEF q
<1> QED BY <1>1, <1>2, <1>3, <1>4, NonMemberStep DEF InProgress

-----------------------------------------------------------------------------
(* Leaving a flight *)

\* A member that leaves takes itself out; the last one cancels the task of a
\* flight that is not done.
LEMMA MemberLeaves ==
    ASSUME FlightsInv, NEW r \in Requests, req[r].st = "WAITING", NEW outcome,
           LeaveFlight(r, outcome)
    PROVE  LET i == req[r].flight
           IN  /\ i \in 1..Len(flight) /\ r \in flight[i].members
               /\ flight' \in Seq(FlightType) /\ Len(flight') = Len(flight)
               /\ \A j \in 1..Len(flight) : j # i => flight'[j] = flight[j]
               /\ flight'[i].members = flight[i].members \ {r}
               /\ flight'[i].key = flight[i].key /\ flight'[i].todo = flight[i].todo
               /\ flight'[i].accepting = flight[i].accepting
               /\ flight'[i].failed = flight[i].failed
               /\ flight'[i].phase = IF flight[i].members = {r} /\ flight[i].phase # "DONE"
                                     THEN "CANCELLING" ELSE flight[i].phase
<1> DEFINE i == req[r].flight
           h == Without(flight[i], r)
           g == Left(flight[i], r)
<1>1. i \in 1..Len(flight) /\ r \in flight[i].members
  BY DEF FlightsInv, WaitersAreMembers
<1>2. flight \in Seq(FlightType) /\ flight[i] \in FlightType
  BY <1>1, FlightFields DEF FlightsInv, TypeOK
<1>3. /\ h \in FlightType /\ h.members = flight[i].members \ {r} /\ h.key = flight[i].key
      /\ h.todo = flight[i].todo /\ h.accepting = flight[i].accepting
      /\ h.failed = flight[i].failed /\ h.phase = flight[i].phase
  BY <1>2 DEF FlightType, Without
<1>4. flight' = [flight EXCEPT ![i] = g]
  BY <1>1, <1>2 DEF LeaveFlight
<1>5. g = IF flight[i].members = {r} THEN Cancelled(h) ELSE h
  BY <1>1 DEF Left
<1> HIDE DEF h, g
<1>6. /\ g \in FlightType /\ g.members = h.members /\ g.key = h.key /\ g.todo = h.todo
      /\ g.accepting = h.accepting /\ g.failed = h.failed
      /\ g.phase = IF flight[i].members = {r} /\ h.phase # "DONE" THEN "CANCELLING" ELSE h.phase
  BY <1>3, <1>5 DEF Cancelled, FlightType, Reaping
<1>7. /\ flight' \in Seq(FlightType) /\ Len(flight') = Len(flight) /\ flight'[i] = g
      /\ \A j \in 1..Len(flight) : j # i => flight'[j] = flight[j]
  BY <1>1, <1>2, <1>4, <1>6, FlightReplaced
<1> HIDE DEF i
<1>8. /\ flight'[i].members = flight[i].members \ {r}
      /\ flight'[i].key = flight[i].key /\ flight'[i].todo = flight[i].todo
      /\ flight'[i].accepting = flight[i].accepting /\ flight'[i].failed = flight[i].failed
      /\ flight'[i].phase = IF flight[i].members = {r} /\ flight[i].phase # "DONE"
                            THEN "CANCELLING" ELSE flight[i].phase
  BY <1>3, <1>6, <1>7
<1> QED BY <1>1, <1>7, <1>8 DEF i

\* What the request that leaves becomes, and its lease.
LEMMA LeaverKeepsLease ==
    ASSUME FlightsInv, NEW r \in Requests, req[r].st = "WAITING",
           NEW outcome \in {"BODY", "ERROR", "CANCELLED"}, LeaveFlight(r, outcome)
    PROVE  /\ req' \in [Requests -> RequestType]
           /\ \A p \in Requests : p # r => req'[p] = req[p]
           /\ \/ /\ MustReap(req[r].flight, r) /\ lease' = lease
                 /\ req'[r].st = "REAPING" /\ req'[r].flight = req[r].flight
                 /\ req'[r].future = req[r].future
              \/ /\ ~MustReap(req[r].flight, r) /\ lease' = lease \ {r}
                 /\ req'[r].st = "GONE" /\ req'[r].flight = 0 /\ req'[r].future = "PENDING"
<1>1. req \in [Requests -> RequestType] /\ Len(flight) \in Nat
  BY DEF FlightsInv, TypeOK, RequestType
<1>2. CASE MustReap(req[r].flight, r)
  <2>1. /\ req' = [req EXCEPT ![r].st = "REAPING", ![r].out = outcome] /\ lease' = lease
    BY <1>2 DEF LeaveFlight
  <2> QED BY <1>1, <1>2, <2>1, ZenonT(30) DEF RequestType, InProgress
<1>3. CASE ~MustReap(req[r].flight, r)
  <2>1. req' = [req EXCEPT ![r] = Ended(outcome)] /\ lease' = lease \ {r}
    BY <1>3 DEF LeaveFlight, Gone
  <2> QED BY <1>1, <1>3, <2>1 DEF RequestType, InProgress, Ended
<1> QED BY <1>2, <1>3

\* A waiter leaves its flight; the last one takes the task with it.
LEMMA LeaveFlightInv ==
    ASSUME FlightsInv, NEW r \in Requests, req[r].st = "WAITING",
           NEW outcome \in {"BODY", "ERROR", "CANCELLED"}, LeaveFlight(r, outcome),
           asked' \subseteq Requests, UNCHANGED <<table, closing>>
    PROVE  FlightsInv'
<1> DEFINE i == req[r].flight
<1>1. /\ i \in 1..Len(flight) /\ r \in flight[i].members
      /\ flight' \in Seq(FlightType) /\ Len(flight') = Len(flight)
      /\ \A j \in 1..Len(flight) : j # i => flight'[j] = flight[j]
      /\ flight'[i].members = flight[i].members \ {r}
      /\ flight'[i].key = flight[i].key /\ flight'[i].todo = flight[i].todo
      /\ flight'[i].accepting = flight[i].accepting
      /\ flight'[i].failed = flight[i].failed
      /\ flight'[i].phase = IF flight[i].members = {r} /\ flight[i].phase # "DONE"
                            THEN "CANCELLING" ELSE flight[i].phase
  BY MemberLeaves
<1>2. /\ req' \in [Requests -> RequestType]
      /\ \A p \in Requests : p # r => req'[p] = req[p]
      /\ \/ /\ flight[i].members = {r} /\ flight[i].phase # "DONE" /\ lease' = lease
            /\ req'[r].st = "REAPING" /\ req'[r].flight = i
            /\ req'[r].future = req[r].future
         \/ /\ ~(flight[i].members = {r} /\ flight[i].phase # "DONE") /\ lease' = lease \ {r}
            /\ req'[r].st = "GONE" /\ req'[r].flight = 0 /\ req'[r].future = "PENDING"
  BY LeaverKeepsLease DEF MustReap
<1>3. table' = table /\ closing' = closing
  OBVIOUS
<1>4. /\ Len(flight) \in Nat /\ lease = {p \in Requests : req[p].st \in InProgress}
      /\ IsFiniteSet(lease) /\ Cardinality(lease) \in Nat /\ Cardinality(lease) <= Capacity
      /\ \A j \in 1..Len(flight) : flight[j].members \subseteq Requests
  BY FS_CardinalityType, FlightFields DEF FlightsInv, TypeOK
<1>5. \A j \in 1..Len(flight) : \A p \in flight[j].members :
          req[p].st = "WAITING" /\ req[p].flight = j
  BY DEF FlightsInv, MembersWait
<1>6. \A p \in Requests : req[p].flight \in 1..Len(flight) /\ p # r => req'[p] = req[p]
  BY <1>2
<1> HIDE DEF i
<1>7. TypeOK' /\ IsFiniteSet(lease')
  <2>1. IsFiniteSet(lease') /\ Cardinality(lease') <= Capacity
    <3>1. /\ IsFiniteSet(lease \ {r})
          /\ Cardinality(lease \ {r}) =
               IF r \in lease THEN Cardinality(lease) - 1 ELSE Cardinality(lease)
      BY <1>4, FS_RemoveElement
    <3>2. lease' = lease \/ lease' = lease \ {r}
      BY <1>2
    <3>3. CASE lease' = lease
      BY <3>3, <1>4
    <3>4. CASE lease' = lease \ {r}
      <4>1. Cardinality(lease \ {r}) <= Capacity
        BY <1>4, <3>1, FlightsAssumption
      <4> QED BY <3>1, <3>4, <4>1
    <3> QED BY <3>2, <3>3, <3>4
  <2>2. lease' = {p \in Requests : req'[p].st \in InProgress}
    <3>1. CASE lease' = lease /\ req'[r].st = "REAPING"
      BY <3>1, <1>2, <1>4 DEF InProgress
    <3>2. CASE lease' = lease \ {r} /\ req'[r].st = "GONE"
      BY <3>2, <1>2, <1>4 DEF InProgress
    <3> QED BY <1>2, <3>1, <3>2
  <2> QED BY <1>1, <1>2, <1>3, <2>1, <2>2 DEF FlightsInv, TypeOK, RequestType
<1>8. OwnRunIsComplete' /\ OutsideFlights'
  <2>1. r \notin Complete
    BY <1>1 DEF FlightsInv, OutsideFlights, i
  <2> QED BY <1>2, <2>1 DEF FlightsInv, OwnRunIsComplete, OutsideFlights
<1>9. WaitersAreMembers'
  BY <1>1, <1>2 DEF FlightsInv, WaitersAreMembers
<1>10. MembersWait'
  <2> SUFFICES ASSUME NEW j \in 1..Len(flight), NEW p \in flight'[j].members
               PROVE  req'[p].st = "WAITING" /\ req'[p].flight = j
    BY <1>1 DEF MembersWait
  <2>1. p \in flight[j].members /\ p # r
    BY <1>1, <1>5 DEF i
  <2> QED BY <2>1, <1>2, <1>4, <1>5
<1>11. NoOrphanWork'
  <2> SUFFICES ASSUME NEW j \in 1..Len(flight), flight'[j].phase # "DONE"
               PROVE  \E p \in lease' : req'[p].flight = j
    BY <1>1 DEF NoOrphanWork, OpenFlights
  <2>1. flight[j].phase # "DONE"
    BY <1>1
  <2>2. PICK p \in lease : req[p].flight = j
    BY <2>1 DEF FlightsInv, NoOrphanWork, OpenFlights
  <2>3. CASE p # r
    BY <2>2, <2>3, <1>2, <1>4
  <2>4. CASE p = r /\ flight[i].members = {r}
    BY <2>1, <2>2, <2>4, <1>2 DEF i
  <2>5. CASE p = r /\ flight[i].members # {r}
    <3>1. PICK m \in flight[i].members : m # r
      BY <2>5, <1>1
    <3>2. m \in Requests /\ req[m].st = "WAITING" /\ req[m].flight = i
      BY <3>1, <1>1, <1>4, <1>5
    <3>3. m \in lease' /\ req'[m].flight = i
      BY <3>1, <3>2, <1>2, <1>4 DEF InProgress
    <3> QED BY <3>3, <2>2, <2>5 DEF i
  <2> QED BY <2>3, <2>4, <2>5
<1>12. SingleFlight'
  BY <1>1, <1>3 DEF FlightsInv, SingleFlight, OpenFlights
<1>13. ErrorsHaveCause'
  BY <1>1, <1>2, SMTT(30), ZenonT(30) DEF FlightsInv, ErrorsHaveCause, i
<1>14. SealedFlights'
  <2> SUFFICES ASSUME NEW j \in 1..Len(flight)
               PROVE  SealedFlight(j)'
    BY <1>1 DEF SealedFlights
  <2>1. \A p \in flight'[j].members : p \in flight[j].members /\ req'[p] = req[p]
    BY <1>1, <1>2, <1>4, <1>5, SMTT(30) DEF i
  <2>2. SealedFlight(j)
    BY DEF FlightsInv, SealedFlights
  <2> QED BY <1>1, <2>1, <2>2 DEF SealedFlight
<1>15. RunnerStopped'
  BY <1>1, <1>2, <1>3 DEF FlightsInv, RunnerStopped, RunnerClosed, Evaluating
<1> QED BY <1>7, <1>8, <1>9, <1>10, <1>11, <1>12, <1>13, <1>14, <1>15 DEF FlightsInv

\* A waiter gets the outcome of its flight.
LEMMA AnsweredInv ==
    ASSUME FlightsInv, NEW r \in Requests, Answered(r)
    PROVE  FlightsInv'
<1>1. req[r].future \in {"BODY", "ERROR", "CANCELLED"}
  BY RequestFields DEF FlightsInv, Answered
<1> QED BY <1>1, LeaveFlightInv DEF Answered, FlightsInv, TypeOK

\* Being cancelled at an await, whoever asked for it.
LEMMA InterruptInv ==
    ASSUME FlightsInv, NEW r \in Requests, Interrupt(r), asked' \subseteq Requests,
           UNCHANGED <<table, closing>>
    PROVE  FlightsInv'
<1>1. CASE req[r].st = "PREPARING" /\ Gone(r, "CANCELLED") /\ UNCHANGED flight
  BY <1>1, ReleaseInv
<1>2. CASE req[r].st = "WAITING" /\ LeaveFlight(r, "CANCELLED")
  BY <1>2, LeaveFlightInv
<1>3. CASE /\ req[r].st \in {"RUNNING", "REAPING"}
           /\ req' = [req EXCEPT ![r].st = "REAPING", ![r].out = "CANCELLED"]
           /\ UNCHANGED <<lease, flight>>
  BY <1>3, KeepReapingInv
<1> QED BY <1>1, <1>2, <1>3 DEF Interrupt

\* A client disconnects, or the shutdown drains it.
LEMMA CancelledRequestInv ==
    ASSUME FlightsInv, NEW r \in Requests, Disconnect(r) \/ Drain(r)
    PROVE  FlightsInv'
BY InterruptInv DEF Disconnect, Drain, FlightsInv, TypeOK

-----------------------------------------------------------------------------
(* Entering a flight *)

\* A request that waits at one of the flights is a record of the table.
LEMMA WaitingRecord ==
    ASSUME NEW q \in RequestType', NEW i \in 0..Len(flight')
    PROVE  [q EXCEPT !.st = "WAITING", !.flight = i] \in RequestType'
BY DEF RequestType, InProgress

\* What a request that enters flight i writes: its flight, which may be new.
Entered(r, i) ==
    /\ flight' \in Seq(FlightType) /\ Len(flight) <= Len(flight')
    /\ \A j \in 1..Len(flight') : j # i => j \in 1..Len(flight) /\ flight'[j] = flight[j]
    /\ r \in flight'[i].members
    /\ \A p \in flight'[i].members : p # r => i \in 1..Len(flight) /\ p \in flight[i].members
    /\ i \in 1..Len(flight) => flight[i].members \subseteq flight'[i].members
    /\ i \in 1..Len(flight) /\ flight[i].failed => flight'[i].failed
    /\ flight'[i].phase \notin {"PROJECTING", "FINISHING"}
    /\ flight'[i].phase = "FAILING" => flight'[i].failed
    /\ RunnerClosed => flight'[i].phase # "RUNNING"
    /\ req' = [req EXCEPT ![r].st = "WAITING", ![r].flight = i]
    /\ table' \in [Keys -> 0..Len(flight')] /\ SingleFlight'
    /\ UNCHANGED <<lease, asked, closing>>

\* Whatever flight a request that was preparing joins or opens, if that flight
\* has it as its only new member, is open or has its key, and was not sealed.
LEMMA EnteredInv ==
    ASSUME FlightsInv, NEW r \in Requests, req[r].st = "PREPARING", r \notin Complete,
           NEW i \in 1..Len(flight'), Entered(r, i)
    PROVE  FlightsInv'
<1> USE DEF Entered
<1>1. lease' = lease /\ asked' = asked /\ closing' = closing
  OBVIOUS
<1>2. /\ Len(flight) \in Nat /\ Len(flight') \in Nat
      /\ lease = {p \in Requests : req[p].st \in InProgress}
      /\ req \in [Requests -> RequestType]
      /\ \A j \in 1..Len(flight) : flight[j].members \subseteq Requests
      /\ r \notin {p \in Requests : req[p].st = "WAITING"}
  BY FlightFields DEF FlightsInv, TypeOK, RequestType
<1>3. /\ req'[r].st = "WAITING" /\ req'[r].flight = i /\ req'[r].future = req[r].future
      /\ \A p \in Requests : p # r => req'[p] = req[p]
  BY <1>2 DEF RequestType
<1>4. req[r].future # "ERROR" /\ req[r].flight = 0
  BY DEF FlightsInv, ErrorsHaveCause, OutsideFlights
<1>5. \A j \in 1..Len(flight) : \A p \in flight[j].members :
          p # r /\ req[p].st = "WAITING" /\ req[p].flight = j
  BY DEF FlightsInv, MembersWait
<1>6. TypeOK' /\ IsFiniteSet(lease')
  <2>1. lease' = {p \in Requests : req'[p].st \in InProgress}
    BY <1>1, <1>2, <1>3 DEF InProgress
  <2>2. req' \in [Requests -> RequestType']
    <3> SUFFICES ASSUME NEW p \in Requests
                 PROVE  req'[p] \in RequestType'
      BY <1>2
    <3>1. 0..Len(flight) \subseteq 0..Len(flight') /\ i \in 0..Len(flight')
      BY <1>2
    <3>2. CASE p = r
      <4>1. /\ req'[p] = [req[p] EXCEPT !.st = "WAITING", !.flight = i]
            /\ req[p] \in RequestType
        BY <3>2, <1>2
      <4>2. req[p] \in RequestType'
        BY <4>1, <3>1 DEF RequestType
      <4> QED BY <4>1, <4>2, <3>1, WaitingRecord, ZenonT(30)
    <3>3. CASE p # r
      <4>1. req'[p] = req[p] /\ req[p] \in RequestType
        BY <3>3, <1>2, <1>3
      <4> QED BY <4>1, <3>1 DEF RequestType
    <3> QED BY <3>2, <3>3
  <2> QED BY <1>1, <2>1, <2>2 DEF FlightsInv, TypeOK, RequestType
<1>7. OwnRunIsComplete' /\ OutsideFlights'
  BY <1>3, ZenonT(30) DEF FlightsInv, OwnRunIsComplete, OutsideFlights
<1>8. WaitersAreMembers'
  <2> SUFFICES ASSUME NEW p \in Requests, req'[p].st = "WAITING"
               PROVE  /\ req'[p].flight \in 1..Len(flight')
                      /\ p \in flight'[req'[p].flight].members
    BY DEF WaitersAreMembers
  <2>1. CASE p = r
    BY <2>1, <1>3
  <2>2. CASE p # r
    <3>1. req[p].flight \in 1..Len(flight) /\ p \in flight[req[p].flight].members
      BY <2>2, <1>3 DEF FlightsInv, WaitersAreMembers
    <3>2. req[p].flight \in 1..Len(flight') /\ req'[p] = req[p]
      BY <2>2, <3>1, <1>2, <1>3
    <3> QED BY <2>2, <3>1, <3>2
  <2> QED BY <2>1, <2>2
<1>9. MembersWait'
  <2> SUFFICES ASSUME NEW j \in 1..Len(flight'), NEW p \in flight'[j].members
               PROVE  req'[p].st = "WAITING" /\ req'[p].flight = j
    BY DEF MembersWait
  <2>1. CASE p = r
    <3>1. j = i
      BY <2>1, <1>5
    <3> QED BY <3>1, <2>1, <1>3
  <2>2. CASE p # r
    <3>1. j \in 1..Len(flight) /\ p \in flight[j].members
      BY <2>2
    <3> QED BY <2>2, <3>1, <1>2, <1>3, <1>5
  <2> QED BY <2>1, <2>2
<1>10. NoOrphanWork'
  <2> SUFFICES ASSUME NEW j \in 1..Len(flight'), flight'[j].phase # "DONE"
               PROVE  \E p \in lease' : req'[p].flight = j
    BY DEF NoOrphanWork, OpenFlights
  <2>1. CASE j = i
    BY <2>1, <1>1, <1>2, <1>3 DEF InProgress
  <2>2. CASE j # i
    <3>1. PICK p \in lease : req[p].flight = j
      BY <2>2 DEF FlightsInv, NoOrphanWork, OpenFlights
    <3> QED BY <3>1, <1>1, <1>2, <1>3, <1>4
  <2> QED BY <2>1, <2>2
<1>11. ErrorsHaveCause'
  <2> SUFFICES ASSUME NEW p \in Requests, req'[p].future = "ERROR"
               PROVE  /\ req'[p].st \in {"WAITING", "REAPING"}
                      /\ req'[p].flight \in 1..Len(flight')
                      /\ flight'[req'[p].flight].failed
    BY DEF ErrorsHaveCause
  <2>1. p # r
    BY <1>3, <1>4
  <2>2. /\ req[p].st \in {"WAITING", "REAPING"} /\ req[p].flight \in 1..Len(flight)
        /\ flight[req[p].flight].failed
    BY <2>1, <1>3 DEF FlightsInv, ErrorsHaveCause
  <2>3. req'[p] = req[p] /\ req[p].flight \in 1..Len(flight')
    BY <2>1, <2>2, <1>2, <1>3
  <2> QED BY <2>2, <2>3
<1>12. SealedFlights'
  <2> SUFFICES ASSUME NEW j \in 1..Len(flight')
               PROVE  SealedFlight(j)'
    BY DEF SealedFlights
  <2>1. CASE j = i
    BY <2>1 DEF SealedFlight
  <2>2. CASE j # i
    <3>1. \A p \in flight[j].members : req'[p] = req[p]
      <4>1. j \in 1..Len(flight)
        BY <2>2
      <4> QED BY <4>1, <1>2, <1>3, <1>5
    <3>2. flight'[j] = flight[j] /\ SealedFlight(j)
      BY <2>2 DEF FlightsInv, SealedFlights
    <3> QED BY <3>1, <3>2 DEF SealedFlight
  <2> QED BY <2>1, <2>2
<1>13. RunnerStopped'
  BY <1>1, <1>3 DEF FlightsInv, RunnerStopped, RunnerClosed, Evaluating
<1> QED BY <1>6, <1>7, <1>8, <1>9, <1>10, <1>11, <1>12, <1>13 DEF FlightsInv

\* Joining the flight the table names.  It accepts, so it was never sealed.
LEMMA JoinInv ==
    ASSUME FlightsInv, NEW r \in Requests, req[r].st = "PREPARING", r \notin Complete,
           Joinable(KeyOf[r]),
           flight' = [flight EXCEPT ![table[KeyOf[r]]].members = @ \cup {r}],
           req' = [req EXCEPT ![r].st = "WAITING", ![r].flight = table[KeyOf[r]]],
           UNCHANGED <<table, lease, asked, closing>>
    PROVE  FlightsInv'
<1> DEFINE i == table[KeyOf[r]]
           g == [flight[i] EXCEPT !.members = @ \cup {r}]
<1>1. KeyOf[r] \in Keys /\ table \in [Keys -> 0..Len(flight)] /\ flight \in Seq(FlightType)
  BY DEF FlightsInv, TypeOK, Keys
<1>2. i \in 1..Len(flight) /\ flight[i].accepting
  BY <1>1 DEF Joinable
<1>3. flight[i] \in FlightType
  BY <1>1, <1>2, FlightFields
<1>4. /\ g \in FlightType /\ g.members = flight[i].members \cup {r}
      /\ g.key = flight[i].key /\ g.failed = flight[i].failed
      /\ g.phase = flight[i].phase /\ g.accepting = flight[i].accepting
  BY <1>3 DEF FlightType
<1>5. flight' = [flight EXCEPT ![i] = g]
  BY <1>1, <1>2
<1> HIDE DEF g
<1>6. /\ flight' \in Seq(FlightType) /\ Len(flight') = Len(flight)
      /\ flight'[i] = g
      /\ \A j \in 1..Len(flight) : j # i => flight'[j] = flight[j]
  <2>1. flight \in Seq(FlightType) /\ i \in 1..Len(flight) /\ g \in FlightType
    BY <1>1, <1>2, <1>4
  <2> HIDE DEF i
  <2> QED BY <2>1, <1>5, FlightReplaced
<1>7. SealedFlight(i) /\ (RunnerClosed => flight[i].phase # "RUNNING")
  BY <1>2 DEF FlightsInv, SealedFlights, RunnerStopped, Evaluating
<1>8. SingleFlight'
  BY <1>2, <1>4, <1>6 DEF FlightsInv, SingleFlight, OpenFlights
<1>9. Len(flight) \in Nat
  BY <1>1
<1> HIDE DEF i
<1>10. req' = [req EXCEPT ![r].st = "WAITING", ![r].flight = i]
  BY DEF i
<1>11. /\ flight'[i].phase \notin {"PROJECTING", "FINISHING"}
       /\ flight'[i].phase = "FAILING" => flight'[i].failed
       /\ RunnerClosed => flight'[i].phase # "RUNNING"
  BY <1>2, <1>4, <1>6, <1>7 DEF SealedFlight
<1>12. /\ i \in 1..Len(flight') /\ Len(flight) <= Len(flight')
       /\ table' \in [Keys -> 0..Len(flight')]
       /\ \A j \in 1..Len(flight') : j # i => j \in 1..Len(flight) /\ flight'[j] = flight[j]
       /\ r \in flight'[i].members
       /\ \A p \in flight'[i].members : p # r => i \in 1..Len(flight) /\ p \in flight[i].members
       /\ i \in 1..Len(flight) => flight[i].members \subseteq flight'[i].members
       /\ i \in 1..Len(flight) /\ flight[i].failed => flight'[i].failed
  BY <1>1, <1>2, <1>4, <1>6, <1>9
<1>13. Entered(r, i)
  BY <1>6, <1>8, <1>10, <1>11, <1>12 DEF Entered
<1> QED BY <1>12, <1>13, EnteredInv

\* Opening a flight, which the closed runner refuses at once.  No flight of the
\* key that is still open accepts, since the table would name it.
LEMMA OpenInv ==
    ASSUME FlightsInv, NEW r \in Requests, req[r].st = "PREPARING", r \notin Complete,
           ~Joinable(KeyOf[r]),
           NEW g \in FlightType, g.key = KeyOf[r], g.members = {r},
           g.phase = IF RunnerClosed THEN "FAILING" ELSE "RUNNING",
           RunnerClosed => g.failed,
           flight' = Append(flight, g),
           table' = [table EXCEPT ![KeyOf[r]] = Len(flight) + 1],
           req' = [req EXCEPT ![r].st = "WAITING", ![r].flight = Len(flight) + 1],
           UNCHANGED <<lease, asked, closing>>
    PROVE  FlightsInv'
<1> PICK n : n = Len(flight) + 1
  OBVIOUS
<1>1. /\ KeyOf[r] \in Keys /\ table \in [Keys -> 0..Len(flight)]
      /\ flight \in Seq(FlightType) /\ Len(flight) \in Nat
  BY DEF FlightsInv, TypeOK, Keys
<1>5. /\ flight' \in Seq(FlightType) /\ Len(flight') = n /\ flight'[n] = g
      /\ \A j \in 1..Len(flight) : flight'[j] = flight[j]
  BY <1>1, AppendProperties
<1>6. table' \in [Keys -> 0..Len(flight')]
  BY <1>1, <1>5
<1>7. SingleFlight'
  <2> SUFFICES ASSUME NEW j \in 1..Len(flight'), flight'[j].phase # "DONE", flight'[j].accepting
               PROVE  table'[flight'[j].key] = j
    BY DEF SingleFlight, OpenFlights
  <2>1. CASE j = n
    BY <2>1, <1>1, <1>5
  <2>2. CASE j \in 1..Len(flight)
    <3>1. /\ flight[j].phase # "DONE" /\ flight[j].accepting
          /\ flight'[j].key = flight[j].key /\ flight[j].key \in Keys
      BY <2>2, <1>1, <1>5, FlightFields
    <3>2. table[flight[j].key] = j
      BY <2>2, <3>1 DEF FlightsInv, SingleFlight, OpenFlights
    <3>3. flight[j].key # KeyOf[r]
      BY <2>2, <3>1, <3>2 DEF Joinable
    <3> QED BY <3>1, <3>2, <3>3, <1>1
  <2> QED BY <2>1, <2>2, <1>1, <1>5
<1>8. n \in 1..Len(flight') /\ n \notin 1..Len(flight) /\ Len(flight) <= Len(flight')
  BY <1>1, <1>5
<1>9. \A j \in 1..Len(flight') : j # n => j \in 1..Len(flight) /\ flight'[j] = flight[j]
  BY <1>1, <1>5
<1>10. req' = [req EXCEPT ![r].st = "WAITING", ![r].flight = n]
  OBVIOUS
<1>11. /\ flight'[n].phase \notin {"PROJECTING", "FINISHING"}
       /\ flight'[n].phase = "FAILING" => flight'[n].failed
       /\ RunnerClosed => flight'[n].phase # "RUNNING"
       /\ r \in flight'[n].members
       /\ \A p \in flight'[n].members : p # r => n \in 1..Len(flight) /\ p \in flight[n].members
       /\ n \in 1..Len(flight) => flight[n].members \subseteq flight'[n].members
       /\ n \in 1..Len(flight) /\ flight[n].failed => flight'[n].failed
  BY <1>5, <1>8
<1>12. flight' \in Seq(FlightType) /\ n \in 1..Len(flight') /\ Len(flight) <= Len(flight')
  BY <1>5, <1>8
<1>13. Entered(r, n)
  BY <1>6, <1>7, <1>9, <1>10, <1>11, <1>12 DEF Entered
<1> QED BY <1>8, <1>13, EnteredInv

\* A request joins the flight of its key or starts one.
LEMMA EnterInv ==
    ASSUME FlightsInv, NEW r \in Requests, Enter(r)
    PROVE  FlightsInv'
<1> DEFINE n == Len(flight) + 1
           g == [key |-> KeyOf[r], members |-> {r}, todo |-> {}, accepting |-> TRUE,
                 phase |-> IF RunnerClosed THEN "FAILING" ELSE "RUNNING",
                 failed |-> RunnerClosed]
<1>1. req[r].st = "PREPARING" /\ r \notin Complete /\ UNCHANGED <<lease, asked, closing>>
  BY DEF Enter
<1>2. g \in FlightType
  BY DEF FlightType, Evaluating, Reaping, RunnerClosed, Keys
<1>3. /\ g.members = {r} /\ g.key = KeyOf[r]
      /\ g.phase = IF RunnerClosed THEN "FAILING" ELSE "RUNNING"
  OBVIOUS
<1>4. RunnerClosed => g.failed
  OBVIOUS
<1>5. CASE Joinable(KeyOf[r])
  BY <1>1, <1>5, JoinInv DEF Enter
<1>6. CASE ~Joinable(KeyOf[r])
  <2>1. /\ flight' = Append(flight, g)
        /\ table' = [table EXCEPT ![KeyOf[r]] = Len(flight) + 1]
        /\ req' = [req EXCEPT ![r].st = "WAITING", ![r].flight = Len(flight) + 1]
    BY <1>6 DEF Enter
  <2> HIDE DEF g
  <2> QED BY <1>1, <1>2, <1>3, <1>4, <1>6, <2>1, OpenInv
<1> QED BY <1>5, <1>6

-----------------------------------------------------------------------------
(* The flight's task *)

\* A step of the task of flight i: it keeps the members, may seal the flight and
\* mark it failed, and tells waiting requests of their answers.
LEMMA TaskStep ==
    ASSUME FlightsInv, NEW i \in 1..Len(flight), NEW g \in FlightType,
           g.members = flight[i].members, g.key = flight[i].key,
           flight[i].failed => g.failed,
           flight[i].phase \notin Evaluating => g.phase \notin Evaluating,
           flight[i].phase # "DONE",
           flight' = [flight EXCEPT ![i] = g],
           req' \in [Requests -> RequestType],
           \A p \in Requests : /\ req'[p].st = req[p].st /\ req'[p].flight = req[p].flight
                               /\ req[p].future # "PENDING" => req'[p].future = req[p].future
                               /\ req[p].future = "PENDING" /\ req'[p].future = "ERROR" =>
                                     p \in flight[i].members /\ g.failed,
           SealedFlight(i)', SingleFlight', table' \in [Keys -> 0..Len(flight)],
           UNCHANGED <<lease, asked, closing>>
    PROVE  FlightsInv'
<1>1. lease' = lease /\ asked' = asked /\ closing' = closing
  OBVIOUS
<1>2. /\ flight \in Seq(FlightType) /\ lease = {p \in Requests : req[p].st \in InProgress}
      /\ \A j \in 1..Len(flight) : flight[j].members \subseteq Requests
  BY FlightFields DEF FlightsInv, TypeOK
<1>3. /\ flight' \in Seq(FlightType) /\ Len(flight') = Len(flight) /\ flight'[i] = g
      /\ \A j \in 1..Len(flight) : j # i => flight'[j] = flight[j]
  BY <1>2, FlightReplaced
<1>4. \A j \in 1..Len(flight) : flight'[j].members = flight[j].members
  BY <1>3
<1>5. TypeOK' /\ IsFiniteSet(lease')
  <2>1. lease' = {p \in Requests : req'[p].st \in InProgress}
    BY <1>1, <1>2
  <2> QED BY <1>1, <1>3, <2>1 DEF FlightsInv, TypeOK, RequestType
<1>6. OwnRunIsComplete' /\ OutsideFlights'
  BY DEF FlightsInv, OwnRunIsComplete, OutsideFlights
<1>7. WaitersAreMembers'
  BY <1>3, <1>4 DEF FlightsInv, WaitersAreMembers
<1>8. MembersWait'
  BY <1>2, <1>3, <1>4 DEF FlightsInv, MembersWait
<1>9. NoOrphanWork'
  <2> SUFFICES ASSUME NEW j \in 1..Len(flight), flight'[j].phase # "DONE"
               PROVE  \E p \in lease' : req'[p].flight = j
    BY <1>3 DEF NoOrphanWork, OpenFlights
  <2>1. flight[j].phase # "DONE"
    BY <1>3
  <2>2. PICK p \in lease : req[p].flight = j
    BY <2>1 DEF FlightsInv, NoOrphanWork, OpenFlights
  <2> QED BY <2>2, <1>1, <1>2
<1>10. ErrorsHaveCause'
  <2> SUFFICES ASSUME NEW p \in Requests, req'[p].future = "ERROR"
               PROVE  /\ req[p].st \in {"WAITING", "REAPING"}
                      /\ req[p].flight \in 1..Len(flight)
                      /\ flight'[req[p].flight].failed
    BY <1>3 DEF ErrorsHaveCause
  <2>1. CASE req[p].future = "ERROR"
    <3>1. /\ req[p].st \in {"WAITING", "REAPING"} /\ req[p].flight \in 1..Len(flight)
          /\ flight[req[p].flight].failed
      BY <2>1 DEF FlightsInv, ErrorsHaveCause
    <3> QED BY <3>1, <1>3
  <2>2. CASE req[p].future = "PENDING"
    <3>1. p \in flight[i].members /\ g.failed
      BY <2>2
    <3>2. req[p].st = "WAITING" /\ req[p].flight = i
      BY <3>1 DEF FlightsInv, MembersWait
    <3> QED BY <3>1, <3>2, <1>3
  <2> QED BY <2>1, <2>2
<1>11. SealedFlights'
  <2> SUFFICES ASSUME NEW j \in 1..Len(flight), j # i
               PROVE  SealedFlight(j)'
    BY <1>3 DEF SealedFlights
  <2>1. flight'[j] = flight[j] /\ SealedFlight(j)
    BY <1>3 DEF FlightsInv, SealedFlights
  <2>2. \A p \in flight[j].members :
            req[p].future # "PENDING" => req'[p].future # "PENDING"
    BY <1>2
  <2> QED BY <2>1, <2>2 DEF SealedFlight
<1>12. RunnerStopped'
  BY <1>1, <1>3 DEF FlightsInv, RunnerStopped, RunnerClosed
<1> QED BY <1>5, <1>6, <1>7, <1>8, <1>9, <1>10, <1>11, <1>12 DEF FlightsInv

\* A task that tells nobody anything.
LEMMA SilentTaskStep ==
    ASSUME FlightsInv, NEW i \in 1..Len(flight), NEW g \in FlightType,
           g.members = flight[i].members, g.key = flight[i].key,
           flight[i].failed => g.failed, g.accepting => flight[i].accepting,
           flight[i].phase \notin Evaluating => g.phase \notin Evaluating,
           flight[i].phase # "DONE",
           flight' = [flight EXCEPT ![i] = g],
           SealedFlight(i)',
           UNCHANGED <<lease, req, asked, table, closing>>
    PROVE  FlightsInv'
<1>1. flight \in Seq(FlightType) /\ req \in [Requests -> RequestType]
  BY DEF FlightsInv, TypeOK, RequestType
<1>2. /\ Len(flight') = Len(flight) /\ flight'[i] = g
      /\ \A j \in 1..Len(flight) : j # i => flight'[j] = flight[j]
  BY <1>1, FlightReplaced
<1>3. SingleFlight'
  BY <1>2 DEF FlightsInv, SingleFlight, OpenFlights
<1>4. table' \in [Keys -> 0..Len(flight)] /\ req' \in [Requests -> RequestType] /\ req' = req
  BY <1>1 DEF FlightsInv, TypeOK
<1> QED BY <1>3, <1>4, TaskStep

\* An evaluated flight is sealed and projected.
LEMMA EvaluatedInv ==
    ASSUME FlightsInv, NEW i \in 1..Len(flight), Evaluated(i)
    PROVE  FlightsInv'
<1>1. flight \in Seq(FlightType) /\ flight[i] \in FlightType
  BY FlightFields DEF FlightsInv, TypeOK
<1> DEFINE g == Sealed(flight[i])
<1>2. /\ g \in FlightType /\ g.members = flight[i].members /\ g.key = flight[i].key
      /\ g.todo = flight[i].members /\ g.phase = "PROJECTING"
      /\ g.failed = flight[i].failed /\ g.accepting = FALSE
  BY <1>1 DEF Sealed, FlightType, Evaluating
<1>3. /\ flight' = [flight EXCEPT ![i] = g] /\ flight[i].phase = "RUNNING"
      /\ UNCHANGED <<lease, req, asked, table, closing>>
  BY <1>1 DEF Evaluated
<1> HIDE DEF g
<1>4. flight'[i] = g
  BY <1>1, <1>2, <1>3, FlightReplaced
<1>5. SealedFlight(i)'
  BY <1>2, <1>3, <1>4 DEF SealedFlight
<1> QED BY <1>2, <1>3, <1>5, SilentTaskStep DEF Evaluating

\* The worker of a flight has sent its last message and is reaped.
LEMMA WorkerReturnsInv ==
    ASSUME FlightsInv, NEW i \in 1..Len(flight), WorkerReturns(i)
    PROVE  FlightsInv'
<1>1. flight \in Seq(FlightType) /\ flight[i] \in FlightType
  BY FlightFields DEF FlightsInv, TypeOK
<1> DEFINE g == [flight[i] EXCEPT !.phase = "FINISHING"]
<1>2. /\ g \in FlightType /\ g.members = flight[i].members /\ g.key = flight[i].key
      /\ g.phase = "FINISHING"
      /\ g.failed = flight[i].failed /\ g.accepting = flight[i].accepting
  BY <1>1 DEF FlightType, Reaping
<1>3. /\ flight' = [flight EXCEPT ![i] = g]
      /\ flight[i].phase = "PROJECTING" /\ flight[i].todo = {}
      /\ UNCHANGED <<lease, req, asked, table, closing>>
  BY <1>1 DEF WorkerReturns
<1> HIDE DEF g
<1>4. flight'[i] = g
  BY <1>1, <1>2, <1>3, FlightReplaced
<1>5. SealedFlight(i)'
  BY <1>2, <1>3, <1>4 DEF FlightsInv, SealedFlights, SealedFlight
<1> QED BY <1>2, <1>3, <1>5, SilentTaskStep DEF Evaluating

\* The worker of a flight fails.
LEMMA WorkerFailsInv ==
    ASSUME FlightsInv, NEW i \in 1..Len(flight), WorkerFails(i)
    PROVE  FlightsInv'
<1>1. flight \in Seq(FlightType) /\ flight[i] \in FlightType
  BY FlightFields DEF FlightsInv, TypeOK
<1> DEFINE g == [flight[i] EXCEPT !.phase = "FAILING", !.failed = TRUE]
<1>2. /\ g \in FlightType /\ g.members = flight[i].members /\ g.key = flight[i].key
      /\ g.phase = "FAILING" /\ g.failed = TRUE /\ g.accepting = flight[i].accepting
  BY <1>1 DEF FlightType, Reaping
<1>3. /\ flight' = [flight EXCEPT ![i] = g] /\ flight[i].phase \in Evaluating
      /\ UNCHANGED <<lease, req, asked, table, closing>>
  BY <1>1 DEF WorkerFails
<1> HIDE DEF g
<1>4. flight'[i] = g
  BY <1>1, <1>2, <1>3, FlightReplaced
<1>5. SealedFlight(i)'
  BY <1>2, <1>4 DEF SealedFlight
<1> QED BY <1>2, <1>3, <1>5, SilentTaskStep DEF Evaluating

\* published() answers a member that still waits, so whoever is left pending is
\* still in the snapshot.
LEMMA PublishInv ==
    ASSUME FlightsInv, NEW i \in 1..Len(flight), NEW r \in Requests, Publish(i, r)
    PROVE  FlightsInv'
<1>1. /\ flight \in Seq(FlightType) /\ flight[i] \in FlightType
      /\ req \in [Requests -> RequestType] /\ flight[i].members \subseteq Requests
  BY FlightFields DEF FlightsInv, TypeOK, RequestType
<1> DEFINE g == [flight[i] EXCEPT !.todo = @ \ {r}]
<1>2. /\ g \in FlightType /\ g.members = flight[i].members /\ g.key = flight[i].key
      /\ g.todo = flight[i].todo \ {r} /\ g.phase = flight[i].phase
      /\ g.failed = flight[i].failed /\ g.accepting = flight[i].accepting
  BY <1>1 DEF FlightType
<1>3. /\ flight' = [flight EXCEPT ![i] = g] /\ flight[i].phase = "PROJECTING"
      /\ UNCHANGED <<lease, asked, table, closing>>
  BY <1>1 DEF Publish
<1>4. req' = [req EXCEPT ![r].future = IF @ = "PENDING" THEN "BODY" ELSE @]
  BY DEF Publish
<1> HIDE DEF g
<1>5. /\ Len(flight') = Len(flight) /\ flight'[i] = g
      /\ \A j \in 1..Len(flight) : j # i => flight'[j] = flight[j]
  BY <1>1, <1>2, <1>3, FlightReplaced
<1>6. req' \in [Requests -> RequestType]
  BY <1>1, <1>4, ZenonT(30) DEF RequestType
<1>7. \A p \in Requests : /\ req'[p].st = req[p].st /\ req'[p].flight = req[p].flight
                          /\ req[p].future # "PENDING" => req'[p].future = req[p].future
                          /\ req'[p].future = "PENDING" => req[p].future = "PENDING" /\ p # r
                          /\ ~(req[p].future = "PENDING" /\ req'[p].future = "ERROR")
  BY <1>1, <1>4 DEF RequestType
<1>8. SealedFlight(i)'
  <2>1. SealedFlight(i)
    BY DEF FlightsInv, SealedFlights
  <2>2. \A p \in flight[i].members : req'[p].future = "PENDING" =>
            req[p].future = "PENDING" /\ p # r
    BY <1>1, <1>7
  <2> QED BY <2>1, <2>2, <1>2, <1>3, <1>5 DEF SealedFlight
<1>9. SingleFlight' /\ table' \in [Keys -> 0..Len(flight)]
  BY <1>2, <1>3, <1>5 DEF FlightsInv, SingleFlight, OpenFlights, TypeOK
<1> QED BY <1>2, <1>3, <1>6, <1>7, <1>8, <1>9, TaskStep

\* The end of a task: it tells an error only if its worker failed, for when it
\* finishes without publishing to everyone nobody is left waiting.
LEMMA TaskEndsInv ==
    ASSUME FlightsInv, NEW i \in 1..Len(flight), TaskEnds(i)
    PROVE  FlightsInv'
<1>1. /\ flight \in Seq(FlightType) /\ flight[i] \in FlightType
      /\ req \in [Requests -> RequestType] /\ flight[i].members \subseteq Requests
      /\ table \in [Keys -> 0..Len(flight)] /\ flight[i].key \in Keys
  BY FlightFields DEF FlightsInv, TypeOK, RequestType
<1> DEFINE g == [flight[i] EXCEPT !.phase = "DONE", !.todo = {}]
           v == Verdict(flight[i])
<1>2. /\ g \in FlightType /\ g.members = flight[i].members /\ g.key = flight[i].key
      /\ g.phase = "DONE"
      /\ g.failed = flight[i].failed /\ g.accepting = flight[i].accepting
  BY <1>1 DEF FlightType
<1>3. /\ flight' = [flight EXCEPT ![i] = g] /\ flight[i].phase \in Reaping
      /\ UNCHANGED <<lease, asked, closing>> /\ table' = Removed(i)
      /\ req' = [r \in Requests |->
                   IF r \in flight[i].members /\ req[r].future = "PENDING"
                   THEN [req[r] EXCEPT !.future = v] ELSE req[r]]
  BY <1>1 DEF TaskEnds
<1>4. v \in {"CANCELLED", "ERROR"} /\ (v = "ERROR" => flight[i].phase \in {"FINISHING", "FAILING"})
  BY <1>3 DEF Verdict, Reaping
<1> HIDE DEF g, v
<1>5. /\ Len(flight') = Len(flight) /\ flight'[i] = g
      /\ \A j \in 1..Len(flight) : j # i => flight'[j] = flight[j]
  BY <1>1, <1>2, <1>3, FlightReplaced
<1>6. req' \in [Requests -> RequestType]
  BY <1>1, <1>3, <1>4, ZenonT(30) DEF RequestType
<1>7. \A p \in Requests : /\ req'[p].st = req[p].st /\ req'[p].flight = req[p].flight
                          /\ req[p].future # "PENDING" => req'[p].future = req[p].future
                          /\ req[p].future = "PENDING" /\ req'[p].future = "ERROR" =>
                                p \in flight[i].members /\ v = "ERROR"
  BY <1>1, <1>3 DEF RequestType
<1>8. \A p \in Requests : req[p].future = "PENDING" /\ req'[p].future = "ERROR" =>
                              p \in flight[i].members /\ g.failed
  <2> SUFFICES ASSUME NEW p \in Requests, req[p].future = "PENDING", req'[p].future = "ERROR"
               PROVE  p \in flight[i].members /\ g.failed
    OBVIOUS
  <2>1. p \in flight[i].members /\ flight[i].phase \in {"FINISHING", "FAILING"}
    BY <1>4, <1>7
  <2>2. SealedFlight(i)
    BY DEF FlightsInv, SealedFlights
  <2> QED BY <2>1, <2>2, <1>2 DEF SealedFlight
<1>9. SealedFlight(i)'
  BY <1>2, <1>5 DEF SealedFlight
<1>10. table' \in [Keys -> 0..Len(flight)]
  BY <1>1, <1>3 DEF Removed
<1>11. SingleFlight'
  <2> SUFFICES ASSUME NEW j \in 1..Len(flight), flight'[j].phase # "DONE", flight'[j].accepting
               PROVE  table'[flight'[j].key] = j
    BY <1>5 DEF SingleFlight, OpenFlights
  <2>1. j # i /\ flight'[j] = flight[j]
    BY <1>2, <1>5
  <2>2. flight[j].key \in Keys
    BY <1>1, FlightFields
  <2>3. table[flight[j].key] = j
    BY <2>1 DEF FlightsInv, SingleFlight, OpenFlights
  <2> QED BY <2>1, <2>2, <2>3, <1>1, <1>3 DEF Removed
<1>12. flight[i].phase # "DONE" /\ g.phase \notin Evaluating
  BY <1>2, <1>3 DEF Reaping, Evaluating
<1> QED BY <1>2, <1>3, <1>6, <1>7, <1>8, <1>9, <1>10, <1>11, <1>12, TaskStep

-----------------------------------------------------------------------------
(* Shutdown *)

\* Cancelling every task changes only the phase of the flights that are open.
LEMMA CancelAll ==
    ASSUME flight \in Seq(FlightType), flight' = AllCancelled
    PROVE  /\ flight' \in Seq(FlightType) /\ Len(flight') = Len(flight)
           /\ \A i \in 1..Len(flight) :
                /\ flight'[i].members = flight[i].members /\ flight'[i].key = flight[i].key
                /\ flight'[i].todo = flight[i].todo /\ flight'[i].failed = flight[i].failed
                /\ flight'[i].accepting = flight[i].accepting
                /\ flight'[i].phase = IF flight[i].phase = "DONE" THEN "DONE" ELSE "CANCELLING"
<1>1. Len(flight) \in Nat
  OBVIOUS
<1>2. \A i \in 1..Len(flight) : Cancelled(flight[i]) \in FlightType
  BY FlightFields DEF Cancelled, FlightType, Reaping
<1>3. flight' = [i \in 1..Len(flight) |-> Cancelled(flight[i])]
  BY DEF AllCancelled
<1>4. flight' \in Seq(FlightType) /\ Len(flight') = Len(flight)
  BY <1>1, <1>2, <1>3, IsASeq, LenProperties
<1>5. ASSUME NEW i \in 1..Len(flight)
      PROVE  /\ flight'[i].members = flight[i].members /\ flight'[i].key = flight[i].key
             /\ flight'[i].todo = flight[i].todo /\ flight'[i].failed = flight[i].failed
             /\ flight'[i].accepting = flight[i].accepting
             /\ flight'[i].phase = IF flight[i].phase = "DONE" THEN "DONE" ELSE "CANCELLING"
  <2>1. flight[i] \in FlightType /\ flight'[i] = Cancelled(flight[i])
    BY <1>3, FlightFields
  <2> QED BY <2>1 DEF Cancelled, FlightType
<1> QED BY <1>4, <1>5

\* A stage of aclose that cancels every task: requests may only turn from their
\* own run to reaping.
LEMMA CancelAllInv ==
    ASSUME FlightsInv, flight' = AllCancelled,
           req' \in [Requests -> RequestType],
           \A p \in Requests :
              /\ req'[p].flight = req[p].flight /\ req'[p].future = req[p].future
              /\ \/ req'[p].st = req[p].st
                 \/ p \in Complete /\ req[p].st \in {"RUNNING", "REAPING"} /\ req'[p].st = "REAPING",
           RunnerClosed' => \A p \in Requests : req'[p].st # "RUNNING",
           UNCHANGED <<lease, asked, table>>
    PROVE  FlightsInv'
<1>1. lease' = lease /\ asked' = asked /\ table' = table
  OBVIOUS
<1>2. /\ flight \in Seq(FlightType) /\ lease = {p \in Requests : req[p].st \in InProgress}
      /\ \A j \in 1..Len(flight) : flight[j].members \subseteq Requests
  BY FlightFields DEF FlightsInv, TypeOK
<1>3. /\ flight' \in Seq(FlightType) /\ Len(flight') = Len(flight)
      /\ \A i \in 1..Len(flight) :
           /\ flight'[i].members = flight[i].members /\ flight'[i].key = flight[i].key
           /\ flight'[i].failed = flight[i].failed /\ flight'[i].accepting = flight[i].accepting
           /\ flight'[i].phase = IF flight[i].phase = "DONE" THEN "DONE" ELSE "CANCELLING"
  BY <1>2, CancelAll
<1>4. TypeOK' /\ IsFiniteSet(lease')
  <2>1. lease' = {p \in Requests : req'[p].st \in InProgress}
    <3>1. \A p \in Requests : req'[p].st \in InProgress <=> req[p].st \in InProgress
      BY DEF InProgress
    <3> QED BY <3>1, <1>1, <1>2
  <2> QED BY <1>1, <1>3, <2>1 DEF FlightsInv, TypeOK, RequestType
<1>5. OwnRunIsComplete' /\ OutsideFlights'
  BY DEF FlightsInv, OwnRunIsComplete, OutsideFlights
<1>6. WaitersAreMembers'
  BY <1>3 DEF FlightsInv, WaitersAreMembers
<1>7. MembersWait'
  <2> SUFFICES ASSUME NEW i \in 1..Len(flight), NEW p \in flight[i].members
               PROVE  req'[p].st = "WAITING" /\ req'[p].flight = i
    BY <1>3 DEF MembersWait
  <2>1. p \in Requests /\ req[p].st = "WAITING" /\ req[p].flight = i
    BY <1>2 DEF FlightsInv, MembersWait
  <2> QED BY <2>1
<1>8. NoOrphanWork'
  <2> SUFFICES ASSUME NEW i \in 1..Len(flight), flight[i].phase # "DONE"
               PROVE  \E p \in lease' : req'[p].flight = i
    BY <1>3 DEF NoOrphanWork, OpenFlights
  <2>1. PICK p \in lease : req[p].flight = i
    BY DEF FlightsInv, NoOrphanWork, OpenFlights
  <2> QED BY <2>1, <1>1, <1>2
<1>9. SingleFlight'
  BY <1>1, <1>3 DEF FlightsInv, SingleFlight, OpenFlights
<1>10. ErrorsHaveCause'
  BY <1>3 DEF FlightsInv, ErrorsHaveCause
<1>11. SealedFlights'
  BY <1>3 DEF SealedFlights, SealedFlight
<1>12. RunnerStopped'
  BY <1>3 DEF RunnerStopped, Evaluating
<1> QED BY <1>4, <1>5, <1>6, <1>7, <1>8, <1>9, <1>10, <1>11, <1>12 DEF FlightsInv

\* The shutdown seals the flights and cancels their tasks.
LEMMA CloseFlightsInv ==
    ASSUME FlightsInv, CloseFlights
    PROVE  FlightsInv'
<1>1. req' = req /\ req \in [Requests -> RequestType] /\ ~RunnerClosed'
  BY DEF CloseFlights, FlightsInv, TypeOK, RequestType, RunnerClosed
<1> QED BY <1>1, CancelAllInv DEF CloseFlights

\* The runner cancels every run of its own, and none is left running.
LEMMA CloseRunnerInv ==
    ASSUME FlightsInv, CloseRunner
    PROVE  FlightsInv'
<1> DEFINE own == {r \in Complete : req[r].st \in {"RUNNING", "REAPING"}}
<1>1. /\ flight' = AllCancelled /\ UNCHANGED <<lease, asked, table>>
      /\ req' = [r \in Requests |-> IF r \in own
                   THEN [req[r] EXCEPT !.st = "REAPING", !.out = "CANCELLED"] ELSE req[r]]
  BY DEF CloseRunner
<1>2. req \in [Requests -> RequestType]
  BY DEF FlightsInv, TypeOK, RequestType
<1>3. ASSUME NEW p \in Requests
      PROVE  /\ req'[p] \in RequestType
             /\ req'[p].flight = req[p].flight /\ req'[p].future = req[p].future
             /\ \/ req'[p].st = req[p].st
                \/ p \in Complete /\ req[p].st \in {"RUNNING", "REAPING"} /\ req'[p].st = "REAPING"
             /\ req'[p].st # "RUNNING"
  <2>1. CASE p \in own
    BY <2>1, <1>1, <1>2 DEF RequestType, InProgress
  <2>2. CASE p \notin own
    <3>1. req'[p] = req[p] /\ req[p] \in RequestType
      BY <2>2, <1>1, <1>2
    <3>2. req[p].st # "RUNNING"
      BY <2>2 DEF FlightsInv, OwnRunIsComplete
    <3> QED BY <3>1, <3>2
  <2> QED BY <2>1, <2>2
<1>4. req' \in [Requests -> RequestType]
  BY <1>1, <1>3
<1> QED BY <1>1, <1>3, <1>4, CancelAllInv

\* A step that leaves requests, flights and the runner's stage alone.
LEMMA UnchangedInv ==
    ASSUME FlightsInv, UNCHANGED <<lease, req, asked, flight, table>>,
           RunnerClosed' <=> RunnerClosed
    PROVE  FlightsInv'
BY DEF FlightsInv, TypeOK, OwnRunIsComplete, OutsideFlights, WaitersAreMembers, MembersWait,
       NoOrphanWork, SingleFlight, ErrorsHaveCause, SealedFlights, SealedFlight, RunnerStopped,
       OpenFlights

\* Each action in turn.
LEMMA FlightsStep == FlightsInv /\ [Next]_vars => FlightsInv'
<1> SUFFICES ASSUME FlightsInv, [Next]_vars
             PROVE  FlightsInv'
  OBVIOUS
<1>1. ASSUME NEW r \in Requests, Reserve(r) \/ RequestStep(r) \/ Disconnect(r) \/ Drain(r)
      PROVE  FlightsInv'
  BY <1>1, ReserveInv, EnterInv, PrepareFailsInv, CompleteEndsInv, AnsweredInv, ReapedInv,
     CancelledRequestInv DEF RequestStep
<1>2. ASSUME NEW i \in 1..Len(flight), FlightStep(i)
      PROVE  FlightsInv'
  BY <1>2, EvaluatedInv, WorkerReturnsInv, WorkerFailsInv, TaskEndsInv, PublishInv DEF FlightStep
<1>3. CASE CloseRequests
  BY <1>3, UnchangedInv DEF CloseRequests, RunnerClosed
<1>4. CASE CloseFlights
  BY <1>4, CloseFlightsInv
<1>5. CASE CloseRunner
  BY <1>5, CloseRunnerInv
<1>6. CASE CloseEnds
  BY <1>6, UnchangedInv DEF CloseEnds, RunnerClosed
<1>7. CASE UNCHANGED vars
  BY <1>7, UnchangedInv DEF vars, RunnerClosed
<1> QED BY <1>1, <1>2, <1>3, <1>4, <1>5, <1>6, <1>7 DEF Next

-----------------------------------------------------------------------------
(* Theorems *)

\* The inductive invariant, in every state.
LEMMA FlightsInvariant == Spec => []FlightsInv
BY FlightsInit, FlightsStep, PTL DEF Spec

\* The tables keep their shape, and exactly the requests in progress hold the
\* leases reserve gave out and release takes back: however requests fail, are
\* cancelled or are drained, no lease leaks and never more than Capacity are held.
THEOREM FlightsTypeCorrect == Spec => []TypeOK
<1>1. FlightsInv => TypeOK
  BY DEF FlightsInv
<1> QED BY <1>1, FlightsInvariant, PTL

\* Every task of InFlightResponses that is still alive is awaited by a request
\* that holds a lease, although members join and leave at any await.
THEOREM WorkIsOwned == Spec => []NoOrphanWork
<1>1. FlightsInv => NoOrphanWork
  BY DEF FlightsInv
<1> QED BY <1>1, FlightsInvariant, PTL

\* _flights names the one flight of a key that can still be joined, although a
\* sealed flight gives its key up only when its task ends.
THEOREM OneFlightPerKey == Spec => []SingleFlight
<1>1. FlightsInv => SingleFlight
  BY DEF FlightsInv
<1> QED BY <1>1, FlightsInvariant, PTL

\* response raises an error only for a flight whose worker failed: nobody can
\* join between EVALUATED and the end of the task and be left without an answer.
THEOREM ErrorsAreReal == Spec => []NoSpuriousError
<1>1. FlightsInv => NoSpuriousError
  BY DEF FlightsInv, ErrorsHaveCause, NoSpuriousError
<1> QED BY <1>1, FlightsInvariant, PTL

\* When aclose has returned no worker evaluates, not even for a request that was
\* preparing while each stage took its snapshot.
THEOREM ShutdownStopsWork == Spec => []NothingOutlivesShutdown
<1>1. FlightsInv => NothingOutlivesShutdown
  BY DEF FlightsInv, RunnerStopped, RunnerClosed, NothingOutlivesShutdown
<1> QED BY <1>1, FlightsInvariant, PTL
=============================================================================
