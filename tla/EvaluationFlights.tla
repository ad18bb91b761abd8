--------------------------- MODULE EvaluationFlights ---------------------------
(***************************************************************************)
(* Sharing of active strategy evaluations (services/evaluation_flights.py)  *)
(* under the request leases of DeterministicStrategyEvaluationService: every*)
(* request of one key joins the flight that is evaluating it, leaves it on  *)
(* its own, and the last one to leave cancels the flight's task and waits   *)
(* until its worker process has been reaped.                                *)
(*                                                                         *)
(* The asyncio loop runs one task at a time, so what a coroutine does       *)
(* between two awaits is one action.  A flight's task always takes its      *)
(* first step before its first member can leave (both wait in the loop's    *)
(* FIFO queue), so a flight is RUNNING as soon as it exists.  The worker    *)
(* process itself, warm slots included, is the runner's and is not here: it *)
(* answers, fails, or is reaped, each after any time.                       *)
(***************************************************************************)
EXTENDS Integers, Sequences, FiniteSets

CONSTANTS
    Requests,     \* one evaluation each
    Complete,     \* those of complete_response, which never share
    KeyOf,        \* KeyOf[r]: the evidence key its preparation arrives at
    Capacity      \* InFlightResponses(capacity)

ASSUME FlightsAssumption ==
    /\ Complete \subseteq Requests
    /\ Capacity \in Nat \ {0}
    /\ DOMAIN KeyOf = Requests

VARIABLES
    lease,        \* _leases
    req,          \* the coroutine of a request, its future and its outcome
    asked,        \* requests whose task was cancelled, by their client or aclose
    flight,       \* every _Flight ever made, in order
    table,        \* _flights: the flight of a key, 0 if none
    closing,      \* how far aclose has come
    owed          \* requests and flights the present stage of aclose awaits

vars == <<lease, req, asked, flight, table, closing, owed>>

Nothing == [requests |-> {}, flights |-> {}]
Keys == {KeyOf[r] : r \in Requests}
InProgress == {"PREPARING", "WAITING", "RUNNING", "REAPING"}
Reaping == {"FINISHING", "FAILING", "CANCELLING"}
Evaluating == {"RUNNING", "PROJECTING"}

FlightsClosed == closing \in {"FLIGHTS", "RUNNER", "DONE"}
\* (Mutant: run_prepared is not told that the runner is closed.)
MutRunnerClosed == FALSE
RunnerClosed == closing \in {"RUNNER", "DONE"}

Init ==
    /\ lease = {}
    /\ req = [r \in Requests |-> [st |-> "NEW", flight |-> 0, future |-> "PENDING",
                                  out |-> "NONE"]]
    /\ asked = {}
    /\ flight = << >>
    /\ table = [k \in Keys |-> 0]
    /\ closing = "OPEN" /\ owed = Nothing

-----------------------------------------------------------------------------
(* A request up to its flight *)

Ended(outcome) == [st |-> "GONE", flight |-> 0, future |-> "PENDING", out |-> outcome]

\* finally: self._flights.release(lease)
Gone(r, outcome) ==
    /\ req' = [req EXCEPT ![r] = Ended(outcome)]
    /\ lease' = lease \ {r}

\* reserve; a complete_response goes on to its own run_prepared.
Reserve(r) ==
    /\ req[r].st = "NEW"
    /\ \/ /\ FlightsClosed \/ Cardinality(lease) >= Capacity
          /\ Gone(r, "BUSY")
       \/ /\ ~FlightsClosed /\ Cardinality(lease) < Capacity
          /\ lease' = lease \cup {r}
          /\ req' = [req EXCEPT ![r].st = IF r \in Complete THEN "RUNNING" ELSE "PREPARING"]
    /\ UNCHANGED <<asked, flight, table, closing, owed>>

\* Provider, history or validation errors, before any flight.  (Mutant: the
\* lease is only given back by a request that got an answer.)
MutPrepareFails(r) ==
    /\ req[r].st = "PREPARING"
    /\ req' = [req EXCEPT ![r] = Ended("ERROR")]
    /\ UNCHANGED <<lease, asked, flight, table, closing, owed>>
PrepareFails(r) ==
    /\ req[r].st = "PREPARING"
    /\ Gone(r, "ERROR")
    /\ UNCHANGED <<asked, flight, table, closing, owed>>

Joinable(k) == table[k] # 0 /\ flight[table[k]].accepting

\* InFlightResponses.response up to its await: join the key's flight while it
\* accepts members, else open one.  A closed runner refuses the new one at once.
Enter(r) ==
    LET k == KeyOf[r]
        i == table[k]
        n == Len(flight) + 1
        Enters(f) == req' = [req EXCEPT ![r].st = "WAITING", ![r].flight = f]
    IN  /\ req[r].st = "PREPARING" /\ r \notin Complete
        /\ \/ /\ Joinable(k)
              /\ flight' = [flight EXCEPT ![i].members = @ \cup {r}]
              /\ Enters(i)
              /\ UNCHANGED table
           \/ /\ ~Joinable(k)
              /\ flight' = Append(flight,
                    [key |-> k, members |-> {r}, todo |-> {}, accepting |-> TRUE,
                     phase |-> IF RunnerClosed THEN "FAILING" ELSE "RUNNING",
                     failed |-> RunnerClosed])
              /\ table' = [table EXCEPT ![k] = n]
              /\ Enters(n)
        /\ UNCHANGED <<lease, asked, closing, owed>>

\* complete_response returns or raises after its worker was reaped.
CompleteEnds(r) ==
    /\ req[r].st = "RUNNING"
    /\ \E outcome \in {"BODY", "ERROR"} : Gone(r, outcome)
    /\ UNCHANGED <<asked, flight, table, closing, owed>>

-----------------------------------------------------------------------------
(* The flight's task: _execute around run_prepared *)

\* EVALUATED: projections() seals the flight.  (Mutant: it stays open.)
MutSealed(f) == [f EXCEPT !.phase = "PROJECTING", !.todo = f.members]
Sealed(f) == [f EXCEPT !.phase = "PROJECTING", !.todo = f.members, !.accepting = FALSE]

Evaluated(i) ==
    /\ flight[i].phase = "RUNNING"
    /\ flight' = [flight EXCEPT ![i] = Sealed(@)]
    /\ UNCHANGED <<lease, req, asked, table, closing, owed>>

\* PROJECTED: published() answers one member of the snapshot, if it still waits.
Publish(i, r) ==
    /\ flight[i].phase = "PROJECTING" /\ r \in flight[i].todo
    /\ flight' = [flight EXCEPT ![i].todo = @ \ {r}]
    /\ req' = [req EXCEPT ![r].future = IF @ = "PENDING" THEN "BODY" ELSE @]
    /\ UNCHANGED <<lease, asked, table, closing, owed>>

\* The worker's last message; its process is reaped.
WorkerReturns(i) ==
    /\ flight[i].phase = "PROJECTING" /\ flight[i].todo = {}
    /\ flight' = [flight EXCEPT ![i].phase = "FINISHING"]
    /\ UNCHANGED <<lease, req, asked, table, closing, owed>>

\* The worker fails, dies or exceeds its deadline; its process is reaped.
WorkerFails(i) ==
    /\ flight[i].phase \in Evaluating
    /\ flight' = [flight EXCEPT ![i].phase = "FAILING", ![i].failed = TRUE]
    /\ UNCHANGED <<lease, req, asked, table, closing, owed>>

\* What the members that still wait are told when the task ends; a flight that
\* finished without publishing to all of them raises.
Verdict(f) == IF f.phase = "CANCELLING" THEN "CANCELLED" ELSE "ERROR"

\* finally: the key is given up if it is still this flight's.  (Mutants:
\* whatever flight the key has is dropped; the key is kept.)
MutAnyRemoved(i) == [table EXCEPT ![flight[i].key] = 0]
Removed(i) == [table EXCEPT ![flight[i].key] = IF @ = i THEN 0 ELSE @]

TaskEnds(i) ==
    /\ flight[i].phase \in Reaping
    /\ flight' = [flight EXCEPT ![i].phase = "DONE", ![i].todo = {}]
    /\ req' = [r \in Requests |->
                 IF r \in flight[i].members /\ req[r].future = "PENDING"
                 THEN [req[r] EXCEPT !.future = Verdict(flight[i])] ELSE req[r]]
    /\ table' = Removed(i)
    /\ UNCHANGED <<lease, asked, closing, owed>>

-----------------------------------------------------------------------------
(* Leaving: finally of InFlightResponses.response *)

Cancelled(f) == IF f.phase = "DONE" THEN f ELSE [f EXCEPT !.phase = "CANCELLING"]

\* The last member cancels the task and keeps its lease until the task is done.
\* (Mutant: it does not wait.)
MutMustReap(i, r) == FALSE
MustReap(i, r) == flight[i].members = {r} /\ flight[i].phase # "DONE"

\* members.pop(member), and the cancellation of a task nobody waits for.
Without(f, r) == [f EXCEPT !.members = @ \ {r}]
Left(f, r) == IF f.members \ {r} = {} THEN Cancelled(Without(f, r)) ELSE Without(f, r)

LeaveFlight(r, outcome) ==
    LET i == req[r].flight
    IN  /\ flight' = [flight EXCEPT ![i] = Left(@, r)]
        /\ IF MustReap(i, r)
           THEN /\ req' = [req EXCEPT ![r].st = "REAPING", ![r].out = outcome]
                /\ UNCHANGED lease
           ELSE Gone(r, outcome)

\* The future has an answer.
Answered(r) ==
    /\ req[r].st = "WAITING" /\ req[r].future # "PENDING"
    /\ LeaveFlight(r, req[r].future)
    /\ UNCHANGED <<asked, table, closing, owed>>

Reaped(r) ==
    /\ req[r].st = "REAPING"
    /\ IF r \in Complete THEN TRUE ELSE flight[req[r].flight].phase = "DONE"
    /\ Gone(r, req[r].out)
    /\ UNCHANGED <<asked, flight, table, closing, owed>>

\* task.cancel() reaches the request at its await.
Interrupt(r) ==
    \/ /\ req[r].st = "PREPARING"
       /\ Gone(r, "CANCELLED")
       /\ UNCHANGED flight
    \/ /\ req[r].st = "WAITING"
       /\ LeaveFlight(r, "CANCELLED")
    \/ /\ req[r].st \in {"RUNNING", "REAPING"}
       /\ req' = [req EXCEPT ![r].st = "REAPING", ![r].out = "CANCELLED"]
       /\ UNCHANGED <<lease, flight>>

\* The client disconnects: _connected cancels the request's task.
Disconnect(r) ==
    /\ r \notin asked
    /\ Interrupt(r)
    /\ asked' = asked \cup {r}
    /\ UNCHANGED <<table, closing, owed>>

-----------------------------------------------------------------------------
(* Shutdown: DeterministicStrategyEvaluationService.aclose *)

OpenFlights == {i \in 1..Len(flight) : flight[i].phase # "DONE"}
AllCancelled == [i \in 1..Len(flight) |-> Cancelled(flight[i])]
Settled == /\ \A r \in owed.requests : req[r].st = "GONE"
           /\ \A i \in owed.flights : flight[i].phase = "DONE"

\* The tasks of the requests that hold a lease now are cancelled and awaited.
CloseRequests ==
    /\ closing = "OPEN"
    /\ closing' = "DRAINING"
    /\ owed' = [requests |-> lease, flights |-> {}]
    /\ UNCHANGED <<lease, req, asked, flight, table>>

Drain(r) ==
    /\ closing = "DRAINING" /\ r \in owed.requests \ asked
    /\ Interrupt(r)
    /\ asked' = asked \cup {r}
    /\ UNCHANGED <<table, closing, owed>>

\* InFlightResponses.aclose
CloseFlights ==
    /\ closing = "DRAINING" /\ Settled
    /\ closing' = "FLIGHTS"
    /\ flight' = AllCancelled
    /\ owed' = [requests |-> {}, flights |-> OpenFlights]
    /\ UNCHANGED <<lease, req, asked, table>>

\* IsolatedEvaluationRunner.aclose: every operation is cancelled and awaited.
CloseRunner ==
    /\ closing = "FLIGHTS" /\ Settled
    /\ closing' = "RUNNER"
    /\ flight' = AllCancelled
    /\ LET own == {r \in Complete : req[r].st \in {"RUNNING", "REAPING"}}
       IN  /\ req' = [r \in Requests |-> IF r \in own
                        THEN [req[r] EXCEPT !.st = "REAPING", !.out = "CANCELLED"] ELSE req[r]]
           /\ owed' = [requests |-> own, flights |-> OpenFlights]
    /\ UNCHANGED <<lease, asked, table>>

CloseEnds ==
    /\ closing = "RUNNER" /\ Settled
    /\ closing' = "DONE" /\ owed' = Nothing
    /\ UNCHANGED <<lease, req, asked, flight, table>>

-----------------------------------------------------------------------------
RequestStep(r) == Enter(r) \/ PrepareFails(r) \/ CompleteEnds(r) \/ Answered(r) \/ Reaped(r)

FlightStep(i) ==
    \/ Evaluated(i) \/ WorkerReturns(i) \/ WorkerFails(i) \/ TaskEnds(i)
    \/ \E r \in Requests : Publish(i, r)

Next ==
    \/ \E r \in Requests : Reserve(r) \/ RequestStep(r) \/ Disconnect(r) \/ Drain(r)
    \/ \E i \in 1..Len(flight) : FlightStep(i)
    \/ CloseRequests \/ CloseFlights \/ CloseRunner \/ CloseEnds

Spec == Init /\ [][Next]_vars

\* The loop runs every task that can go on; preparation has provider timeouts,
\* a worker a deadline, and join is followed by kill.
Fairness ==
    /\ \A r \in Requests : WF_vars(RequestStep(r)) /\ WF_vars(Drain(r))
    /\ \A i \in 1..Cardinality(Requests) : WF_vars(i <= Len(flight) /\ FlightStep(i))
    /\ WF_vars(CloseFlights) /\ WF_vars(CloseRunner) /\ WF_vars(CloseEnds)

FairSpec == Spec /\ Fairness

-----------------------------------------------------------------------------
(* Properties *)

FlightType ==
    [key : Keys, members : SUBSET Requests, todo : SUBSET Requests, accepting : BOOLEAN,
     phase : Evaluating \cup Reaping \cup {"DONE"}, failed : BOOLEAN]

\* The shape of the tables.  A lease is held by exactly the requests in
\* progress, so at most Capacity of them are, and capacity is never lost.
TypeOK ==
    /\ lease = {r \in Requests : req[r].st \in InProgress}
    /\ Cardinality(lease) <= Capacity
    /\ req \in [Requests -> [st : {"NEW", "GONE"} \cup InProgress, flight : 0..Len(flight),
                             future : {"PENDING", "BODY", "ERROR", "CANCELLED"},
                             out : {"NONE", "BUSY", "BODY", "ERROR", "CANCELLED"}]]
    /\ flight \in Seq(FlightType)
    /\ table \in [Keys -> 0..Len(flight)]
    /\ asked \subseteq Requests

\* Work is always owned: as long as a flight's task lives, a request that
\* holds a lease waits for it, so evaluations never outnumber the leases,
\* however members come and go.
NoOrphanWork ==
    \A i \in OpenFlights : \E r \in lease : req[r].flight = i

\* At most one flight of a key can be joined, and the table names it, although
\* a sealed flight outlives its entry.
SingleFlight ==
    \A i \in OpenFlights : flight[i].accepting => table[flight[i].key] = i

\* A member is told of an error only when its flight's worker failed: joining
\* late never yields 'worker did not publish every response'.
NoSpuriousError ==
    \A r \in Requests :
        req[r].future = "ERROR" => flight[req[r].flight].failed

\* After aclose has returned nothing is evaluated any more, not even for a
\* request that was still preparing while each stage took its snapshot.
NothingOutlivesShutdown ==
    closing = "DONE" =>
        /\ \A i \in 1..Len(flight) : flight[i].phase \notin Evaluating
        /\ \A r \in Requests : req[r].st # "RUNNING"


\* A request ends cancelled only if its own client left or the service is
\* closing: no other waiter's cancellation reaches it.
OnlyOwnCancellation ==
    \A r \in Requests :
        req[r].out = "CANCELLED" => r \in asked \/ closing # "OPEN"
===============================================================================
