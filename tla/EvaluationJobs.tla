----------------------------- MODULE EvaluationJobs -----------------------------
(***************************************************************************)
(* The table of asynchronous evaluation jobs (services/evaluation_jobs.py): *)
(* bounded in active jobs, entries and retained result bytes, with expiry,  *)
(* a lifetime per job and cancellation that waits for the job's task.       *)
(*                                                                         *)
(* The evaluation itself is complete_response of EvaluationFlights: here it *)
(* answers, fails, or is reaped after a cancellation.  Code between two     *)
(* awaits is one action.  terminal_monotonic orders the terminal jobs, so   *)
(* they are a sequence; an age in ticks decides expiry.                     *)
(***************************************************************************)
EXTENDS Integers, Sequences, FiniteSets, SequencesExt

CONSTANTS
    Jobs,          \* evaluation_ids
    Sizes,         \* what the two bodies of a result may amount to
    MaxActive, MaxJobs, MaxBytes, Retention,   \* the limits of the constructor
    MaxTime,       \* bound: the clock stops here
    MaxCancels     \* bound: concurrent DELETE requests of one job

ASSUME JobsAssumption ==
    /\ Sizes \subseteq Nat
    /\ {MaxActive, MaxJobs, MaxBytes, Retention} \subseteq Nat \ {0}
    /\ MaxTime \in Nat /\ MaxCancels \in Nat

VARIABLES
    clock,
    job,          \* every _Job ever made: status, task, bytes, time of its end
    active,       \* entries of _jobs that are not terminal
    ended,        \* entries of _jobs that are, oldest first: _terminal_jobs
    cancels,      \* cancel() coroutines that await the job's task
    closing       \* aclose

vars == <<clock, job, active, ended, cancels, closing>>

Terminal == {"COMPLETED", "FAILED", "CANCELLED"}
NoJob == [st |-> "NONE", task |-> "NONE", bytes |-> 0, at |-> 0]

Init ==
    /\ clock = 0
    /\ job = [j \in Jobs |-> NoJob]
    /\ active = {} /\ ended = << >>
    /\ cancels = [j \in Jobs |-> 0]
    /\ closing = "OPEN"

Entries(kept) == Cardinality(active) + Len(kept)
BytesOf(kept) == SumFunctionOnSet([j \in Jobs |-> job[j].bytes], ToSet(kept))

\* Terminal jobs are dropped, the oldest first, until enough have been.
Without(kept, n) == SubSeq(kept, n + 1, Len(kept))
Dropped(kept, enough) == Without(kept, Min(enough \cup {Len(kept)}))

\* _expire, which every create, status, result and cancel runs first, goes
\* through the sorted terminal jobs: what has expired is the oldest of them.
Unexpired ==
    Dropped(ended, {n \in 0..Len(ended) :
                       \A i \in n + 1..Len(ended) : clock - job[ended[i]].at < Retention})

Tick ==
    /\ clock < MaxTime
    /\ clock' = clock + 1
    /\ UNCHANGED <<job, active, ended, cancels, closing>>

-----------------------------------------------------------------------------
(* create, status and result *)

Busy == closing # "OPEN" \/ Cardinality(active) >= MaxActive

\* Room for one more entry.
Room(kept) == Entries(kept) < MaxJobs

Create(j) ==
    LET kept == Dropped(Unexpired, {n \in 0..Len(Unexpired) : Room(Without(Unexpired, n))})
    IN  /\ job[j].st = "NONE"
        /\ \/ /\ Busy \/ ~Room(kept)              \* 503, before or after the evictions
              /\ ended' = IF Busy THEN Unexpired ELSE kept
              /\ UNCHANGED <<job, active>>
           \/ /\ ~Busy /\ Room(kept)
              /\ ended' = kept
              /\ active' = active \cup {j}
              /\ job' = [job EXCEPT ![j].st = "PENDING", ![j].task = "READY"]
        /\ UNCHANGED <<clock, cancels, closing>>

\* status and result: a read, after expiry.
Read ==
    /\ ended' = Unexpired
    /\ UNCHANGED <<clock, job, active, cancels, closing>>

-----------------------------------------------------------------------------
(* The job's task: _run *)

Start(j) ==
    /\ job[j].task = "READY"
    /\ job' = [job EXCEPT ![j].st = "RUNNING", ![j].task = "RUNNING"]
    /\ UNCHANGED <<clock, active, ended, cancels, closing>>

\* The finally of _run: the job is terminal, behind all others.
EndTask(j, status, bytes, kept) ==
    /\ job' = [job EXCEPT ![j] = [st |-> status, task |-> "DONE", bytes |-> bytes, at |-> clock]]
    /\ active' = active \ {j}
    /\ ended' = IF j \in active THEN Append(kept, j) ELSE kept
    /\ UNCHANGED <<clock, cancels, closing>>

\* The bytes to be retained fit.  (Mutant: the new result is not counted.)
MutBytesFit(kept, size) == BytesOf(kept) <= MaxBytes
BytesFit(kept, size) == BytesOf(kept) + size <= MaxBytes

Evicted(size) == Dropped(ended, {n \in 0..Len(ended) : BytesFit(Without(ended, n), size)})

\* The answer of complete_response.  (Mutant: the bodies are assigned before
\* their size is checked.)
MutComplete(j, size) ==
    /\ job[j].task = "RUNNING"
    /\ EndTask(j, IF size > MaxBytes THEN "FAILED" ELSE "COMPLETED", size, Evicted(size))
Complete(j, size) ==
    /\ job[j].task = "RUNNING"
    /\ \/ /\ size > MaxBytes                  \* EVALUATION_RESULT_TOO_LARGE
          /\ EndTask(j, "FAILED", 0, ended)
       \/ /\ size <= MaxBytes
          /\ EndTask(j, "COMPLETED", size, Evicted(size))

Fail(j) ==
    /\ job[j].task = "RUNNING"
    /\ EndTask(j, "FAILED", 0, ended)

\* asyncio.timeout cancels the task from within; the evaluation is reaped.
Timeout(j) ==
    /\ job[j].task = "RUNNING"
    /\ job' = [job EXCEPT ![j].task = "EXPIRING"]
    /\ UNCHANGED <<clock, active, ended, cancels, closing>>

TimeoutReaped(j) ==
    /\ job[j].task = "EXPIRING"
    /\ EndTask(j, "FAILED", 0, ended)

\* Cancelled from outside, perhaps during EXPIRING: CancelledError reaches _run,
\* or an error that the clean-up raised in its place.
CancelReaped(j) ==
    /\ job[j].task = "CANCELLING"
    /\ \E status \in {"CANCELLED", "FAILED"} : EndTask(j, status, 0, ended)

-----------------------------------------------------------------------------
(* cancel *)

\* task.cancel(): a task that has not started never runs at all.
CancelledTask(b) ==
    [b EXCEPT !.task = CASE @ = "READY" -> "DONE"
                         [] @ \in {"RUNNING", "EXPIRING"} -> "CANCELLING"
                         [] OTHER -> @]

CancelJob(j) ==
    /\ j \in active /\ job[j].st \notin Terminal
    /\ cancels[j] < MaxCancels
    /\ cancels' = [cancels EXCEPT ![j] = @ + 1]
    /\ job' = [job EXCEPT ![j] = CancelledTask(@)]
    /\ ended' = Unexpired
    /\ UNCHANGED <<clock, active, closing>>

\* The status a finished task left unset.  (Mutants: a job whose task never
\* ran is left as it is; any outcome is overwritten.)
MutNeverRan(j) == FALSE
MutAnyOutcome(j) == TRUE
NeverRan(j) == job[j].st = "PENDING"

CancelReturns(j) ==
    /\ cancels[j] > 0 /\ job[j].task = "DONE"
    /\ cancels' = [cancels EXCEPT ![j] = @ - 1]
    /\ IF NeverRan(j)
       THEN /\ job' = [job EXCEPT ![j].st = "CANCELLED", ![j].at = clock]
            /\ active' = active \ {j}
            /\ ended' = IF j \in active THEN Append(ended, j) ELSE ended
       ELSE UNCHANGED <<job, active, ended>>
    /\ UNCHANGED <<clock, closing>>

-----------------------------------------------------------------------------
(* aclose *)

Close ==
    /\ closing = "OPEN"
    /\ closing' = "CLOSING"
    /\ job' = [j \in Jobs |-> IF j \in active THEN CancelledTask(job[j]) ELSE job[j]]
    /\ UNCHANGED <<clock, active, ended, cancels>>

CloseEnds ==
    /\ closing = "CLOSING"
    /\ \A j \in active : job[j].task = "DONE"
    /\ closing' = "CLOSED"
    /\ active' = {} /\ ended' = << >>
    /\ UNCHANGED <<clock, job, cancels>>

-----------------------------------------------------------------------------
TaskStep(j) ==
    \/ Start(j) \/ Fail(j) \/ Timeout(j) \/ TimeoutReaped(j) \/ CancelReaped(j)
    \/ \E size \in Sizes : Complete(j, size)

Next ==
    \/ Tick \/ Read
    \/ \E j \in Jobs : Create(j) \/ TaskStep(j) \/ CancelJob(j) \/ CancelReturns(j)
    \/ Close \/ CloseEnds

Spec == Init /\ [][Next]_vars

\* The loop runs every task that can go on; _run's timeout ends an evaluation
\* and the reaping after it kills the worker.
Fairness == /\ \A j \in Jobs : WF_vars(TaskStep(j)) /\ WF_vars(CancelReturns(j))
            /\ WF_vars(CloseEnds)

FairSpec == Spec /\ Fairness

-----------------------------------------------------------------------------
(* Properties *)

\* The shape of the table: an entry is active until its status is terminal,
\* and exactly a COMPLETED job has bodies.
TypeOK ==
    /\ active \subseteq Jobs /\ \A j \in active : job[j].st \in {"PENDING", "RUNNING"}
    /\ \A i \in 1..Len(ended) : job[ended[i]].st \in Terminal
    /\ IsInjective(ended)
    /\ \A j \in Jobs : /\ job[j].bytes \in 0..MaxBytes
                       /\ job[j].bytes > 0 => job[j].st = "COMPLETED"
                       /\ cancels[j] \in 0..MaxCancels

\* Whatever completes, fails or is cancelled in whatever order, the active
\* jobs, the entries and the retained bytes stay within their limits.
WithinLimits ==
    /\ Cardinality(active) <= MaxActive
    /\ Entries(ended) <= MaxJobs
    /\ BytesOf(ended) <= MaxBytes

Kept == active \cup ToSet(ended)

\* The outcome of a job is final, also for the cancel() that is still waiting,
\* and an entry leaves the table only when it is terminal and every older
\* terminal entry leaves with it (or the service closes).
OutcomesAreFinal ==
    [][/\ \A j \in Jobs : job[j].st \in Terminal => job'[j].st = job[j].st
       /\ closing' # "CLOSED" =>
            \A i \in 1..Len(ended) :
               ended[i] \notin Kept' => \A k \in 1..i : ended[k] \notin Kept'
       /\ closing' # "CLOSED" => active \subseteq Kept']_vars

\* Every accepted job reaches a terminal status, even one that was cancelled
\* before its first instruction, or the service closes.
EveryJobEnds ==
    \A j \in Jobs : job[j].st \in {"PENDING", "RUNNING"} ~>
                      (job[j].st \in Terminal \/ closing = "CLOSED")
===============================================================================
