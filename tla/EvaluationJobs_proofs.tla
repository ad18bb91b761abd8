------------------------- MODULE EvaluationJobs_proofs -------------------------
(***************************************************************************)
(* The job table of EvaluationJobs keeps its shape, its limits and its      *)
(* outcomes for any number of jobs, any sizes and any limits.               *)
(*                                                                         *)
(* The inductive invariant JobsInv relates three things: the phase of each  *)
(* task and the status it may leave (Phased), the entries that are not      *)
(* terminal (Staffed) and the terminal ones (Listed: distinct, oldest       *)
(* first, within the byte budget).                                          *)
(***************************************************************************)
EXTENDS EvaluationJobs, SequenceTheorems, Sums_proofs

Records == [st : {"NONE", "PENDING", "RUNNING"} \cup Terminal,
            task : {"NONE", "READY", "RUNNING", "EXPIRING", "CANCELLING", "DONE"},
            bytes : 0..MaxBytes, at : Nat]

\* A status follows from the phase of the task, but for the outcome and for a
\* task that was cancelled before it ran; a live task is an active entry.
Phased(jb, act, t) ==
    \A j \in Jobs :
       /\ (jb[j].task = "NONE") <=> (jb[j].st = "NONE")
       /\ jb[j].task = "READY" => jb[j].st = "PENDING"
       /\ jb[j].task \in {"RUNNING", "EXPIRING", "CANCELLING"} => jb[j].st = "RUNNING"
       /\ jb[j].task = "DONE" => jb[j].st \in Terminal \cup {"PENDING"}
       /\ jb[j].task \in {"READY", "RUNNING", "EXPIRING", "CANCELLING"} => j \in act
       /\ jb[j].bytes > 0 => jb[j].st = "COMPLETED"
       /\ jb[j].at <= t

Staffed(jb, act) ==
    /\ act \subseteq Jobs /\ IsFiniteSet(act) /\ Cardinality(act) <= MaxActive
    /\ \A j \in act : jb[j].st \in {"PENDING", "RUNNING"}

Bytes(jb, s) == SumFunctionOnSet([j \in Jobs |-> jb[j].bytes], ToSet(s))

Listed(jb, s) ==
    /\ s \in Seq(Jobs)
    /\ \A i \in 1..Len(s) : jb[s[i]].st \in Terminal
    /\ \A i, k \in 1..Len(s) : i < k => s[i] # s[k]
    /\ \A i, k \in 1..Len(s) : i < k => jb[s[i]].at <= jb[s[k]].at
    /\ Bytes(jb, s) <= MaxBytes

JobsInv ==
    /\ clock \in Nat /\ cancels \in [Jobs -> 0..MaxCancels]
    /\ closing \in {"OPEN", "CLOSING", "CLOSED"}
    /\ job \in [Jobs -> Records]
    /\ Phased(job, active, clock)
    /\ Staffed(job, active)
    /\ Listed(job, ended)
    /\ Cardinality(active) + Len(ended) <= MaxJobs

-----------------------------------------------------------------------------
(* Sequences that lose their oldest entries *)

\* What is left when the n oldest are dropped.
LEMMA WithoutIs ==
    ASSUME NEW S, NEW s \in Seq(S), NEW n \in 0..Len(s)
    PROVE  /\ Without(s, n) \in Seq(S)
           /\ Len(Without(s, n)) = Len(s) - n
           /\ \A i \in 1..Len(s) - n : Without(s, n)[i] = s[n + i]
<1>1. Len(s) \in Nat
  BY LenProperties
<1>2. CASE n = Len(s)
  <2>1. Without(s, n) = << >>
    BY <1>1, <1>2, SubSeqEmpty DEF Without
  <2> QED BY <2>1, <1>1, <1>2, EmptySeq
<1>3. CASE n < Len(s)
  <2>1. n + 1 \in 1..Len(s) + 1 /\ Len(s) \in n + 1 - 1..Len(s)
    BY <1>1, <1>3
  <2> QED BY <2>1, <1>1, <1>3, SubSeqProperties DEF Without
<1> QED BY <1>1, <1>2, <1>3

\* Dropping stops as soon as enough has been dropped, or with the last one.
LEMMA DroppedIs ==
    ASSUME NEW S, NEW s \in Seq(S), NEW enough \in SUBSET (0..Len(s))
    PROVE  \E n \in 0..Len(s) : /\ n \in enough \/ n = Len(s)
                                /\ Dropped(s, enough) = Without(s, n)
<1>1. Len(s) \in Nat
  BY LenProperties
<1>2. PICK T : T = enough \cup {Len(s)}
  OBVIOUS
<1>3. \A x \in T : x \in 0..Len(s) /\ (x \in enough \/ x = Len(s))
  BY <1>1, <1>2
<1>4. T \in SUBSET Nat /\ T # {}
  <2>1. \A x \in T : x \in Nat
    BY <1>1, <1>3
  <2> QED BY <2>1, <1>2
<1>5. \E x \in T : \A y \in T : x <= y
  BY <1>4, LeastNat
<1>6. Min(T) \in T
  BY <1>5 DEF Min
<1>7. Dropped(s, enough) = Without(s, Min(T))
  BY <1>2 DEF Dropped
<1> QED BY <1>3, <1>6, <1>7

\* The entries of a sequence are finitely many members of its base set.
LEMMA EntriesFinite ==
    ASSUME NEW S, NEW s \in Seq(S)
    PROVE  /\ ToSet(s) = {s[i] : i \in 1..Len(s)}
           /\ IsFiniteSet(ToSet(s)) /\ ToSet(s) \subseteq S
<1>1. Len(s) \in Nat /\ DOMAIN s = 1..Len(s) /\ \A i \in 1..Len(s) : s[i] \in S
  BY LenProperties, ElementOfSeq
<1>2. ToSet(s) = {s[i] : i \in 1..Len(s)}
  BY <1>1 DEF ToSet
<1>3. IsFiniteSet(1..Len(s))
  BY <1>1, FS_Interval
<1>4. IsFiniteSet({s[i] : i \in 1..Len(s)})
  <2>1. s \in [1..Len(s) -> {s[i] : i \in 1..Len(s)}]
    BY LenProperties
  <2>2. s \in Surjection(1..Len(s), {s[i] : i \in 1..Len(s)})
    BY <2>1 DEF Surjection
  <2> QED BY <2>2, <1>3, FS_Surjection
<1> QED BY <1>1, <1>2, <1>4

\* The bytes of a job list are a number, and dropping does not add to them.
LEMMA DropBytes ==
    ASSUME NEW jb \in [Jobs -> Records], NEW s \in Seq(Jobs), NEW n \in 0..Len(s)
    PROVE  /\ Bytes(jb, s) \in Nat /\ Bytes(jb, Without(s, n)) \in Nat
           /\ Bytes(jb, Without(s, n)) <= Bytes(jb, s)
<1>0. MaxBytes \in Nat
  BY JobsAssumption
<1>1. IsFiniteSet(ToSet(s)) /\ ToSet(s) \subseteq Jobs /\ ToSet(s) = {s[i] : i \in 1..Len(s)}
  BY EntriesFinite
<1>2. PICK w : w = Without(s, n)
  OBVIOUS
<1>3. /\ w \in Seq(Jobs) /\ Len(w) = Len(s) - n /\ \A i \in 1..Len(s) - n : w[i] = s[n + i]
      /\ Len(s) \in Nat
  BY <1>2, WithoutIs, LenProperties
<1>4. ToSet(w) = {w[i] : i \in 1..Len(w)}
  BY <1>3, EntriesFinite
<1>5. \A i \in 1..Len(w) : w[i] \in {s[k] : k \in 1..Len(s)}
  <2> TAKE i \in 1..Len(w)
  <2>1. i \in 1..Len(s) - n /\ n + i \in 1..Len(s)
    BY <1>3
  <2> QED BY <2>1, <1>3
<1>6. ToSet(w) \in SUBSET ToSet(s)
  BY <1>1, <1>4, <1>5
<1>7. PICK f : f = [j \in Jobs |-> jb[j].bytes]
  OBVIOUS
<1>8. \A x \in ToSet(s) : f[x] \in Nat
  <2> TAKE x \in ToSet(s)
  <2>1. x \in Jobs /\ jb[x] \in Records
    BY <1>1
  <2> QED BY <2>1, <1>7, <1>0 DEF Records
<1>9. /\ SumFunctionOnSet(f, ToSet(s)) \in Nat
      /\ SumFunctionOnSet(f, ToSet(w)) \in Nat
      /\ SumFunctionOnSet(f, ToSet(w)) <= SumFunctionOnSet(f, ToSet(s))
  BY <1>1, <1>6, <1>8, SumPart
<1> QED BY <1>2, <1>7, <1>9 DEF Bytes

\* The oldest entries can be dropped from a job list.
LEMMA ListedDrop ==
    ASSUME NEW jb \in [Jobs -> Records], NEW s, Listed(jb, s), NEW n \in 0..Len(s)
    PROVE  Listed(jb, Without(s, n))
<1>0. s \in Seq(Jobs) /\ Len(s) \in Nat
  BY LenProperties DEF Listed
<1>1. PICK w : w = Without(s, n)
  OBVIOUS
<1>2. w \in Seq(Jobs) /\ Len(w) = Len(s) - n /\ \A i \in 1..Len(w) : w[i] = s[n + i]
  BY <1>0, <1>1, WithoutIs
<1>3. Bytes(jb, w) <= MaxBytes
  <2>1. Bytes(jb, w) \in Nat /\ Bytes(jb, s) \in Nat /\ Bytes(jb, w) <= Bytes(jb, s)
    BY <1>0, <1>1, DropBytes
  <2>2. Bytes(jb, s) <= MaxBytes /\ MaxBytes \in Nat
    BY JobsAssumption DEF Listed
  <2> QED BY <2>1, <2>2
<1>4. \A i \in 1..Len(w) : n + i \in 1..Len(s)
  BY <1>0, <1>2
<1>5. \A i \in 1..Len(w) : jb[w[i]].st \in Terminal
  BY <1>2, <1>4 DEF Listed
<1>6. ASSUME NEW i \in 1..Len(w), NEW k \in 1..Len(w), i < k
      PROVE  w[i] # w[k] /\ jb[w[i]].at <= jb[w[k]].at
  <2>1. n + i \in 1..Len(s) /\ n + k \in 1..Len(s) /\ n + i < n + k
    BY <1>0, <1>4, <1>2, <1>6
  <2>2. s[n + i] # s[n + k] /\ jb[s[n + i]].at <= jb[s[n + k]].at
    BY <2>1 DEF Listed
  <2> QED BY <2>2, <1>2
<1>7. Listed(jb, w)
  BY <1>2, <1>3, <1>5, <1>6 DEF Listed
<1> QED BY <1>1, <1>7

\* A job list does not depend on jobs that are not in it, nor on the tasks.
LEMMA ListedSame ==
    ASSUME NEW jb \in [Jobs -> Records], NEW s, Listed(jb, s), NEW kb \in [Jobs -> Records],
           \A i \in 1..Len(s) : /\ kb[s[i]].st = jb[s[i]].st /\ kb[s[i]].at = jb[s[i]].at
                                /\ kb[s[i]].bytes = jb[s[i]].bytes
    PROVE  Listed(kb, s) /\ Bytes(kb, s) = Bytes(jb, s)
<1>0. s \in Seq(Jobs)
  BY DEF Listed
<1>1. IsFiniteSet(ToSet(s)) /\ ToSet(s) \subseteq Jobs /\ ToSet(s) = {s[i] : i \in 1..Len(s)}
  BY <1>0, EntriesFinite
<1>2. PICK f : f = [j \in Jobs |-> jb[j].bytes]
  OBVIOUS
<1>3. PICK g : g = [j \in Jobs |-> kb[j].bytes]
  OBVIOUS
<1>4. \A x \in ToSet(s) : f[x] = g[x]
  <2> TAKE x \in ToSet(s)
  <2>1. PICK i \in 1..Len(s) : x = s[i]
    BY <1>1
  <2> QED BY <2>1, <1>1, <1>2, <1>3
<1>5. SumFunctionOnSet(f, ToSet(s)) = SumFunctionOnSet(g, ToSet(s))
  BY <1>1, <1>4, SumSame
<1>6. Bytes(kb, s) = Bytes(jb, s)
  BY <1>2, <1>3, <1>5 DEF Bytes
<1> QED BY <1>6 DEF Listed

\* What may be appended to a job list.
Youngest(jb, s, j) ==
    /\ j \in Jobs /\ jb[j].st \in Terminal
    /\ \A i \in 1..Len(s) : s[i] # j /\ jb[s[i]].at <= jb[j].at
    /\ Bytes(jb, s) + jb[j].bytes <= MaxBytes

\* A job that ends now goes behind the others.
LEMMA ListedAppend ==
    ASSUME NEW jb \in [Jobs -> Records], NEW s, Listed(jb, s), NEW j, Youngest(jb, s, j)
    PROVE  Listed(jb, Append(s, j)) /\ Len(Append(s, j)) = Len(s) + 1
<1>0. s \in Seq(Jobs) /\ Len(s) \in Nat /\ j \in Jobs /\ MaxBytes \in Nat
  BY LenProperties, JobsAssumption DEF Listed, Youngest
<1>1. PICK w : w = Append(s, j)
  OBVIOUS
<1>2. /\ w \in Seq(Jobs) /\ Len(w) = Len(s) + 1
      /\ \A i \in 1..Len(s) : w[i] = s[i]
      /\ w[Len(s) + 1] = j
  BY <1>0, <1>1, AppendProperties
<1>3. \A i \in 1..Len(w) : i \in 1..Len(s) \/ i = Len(s) + 1
  BY <1>0, <1>2
<1>4. \A i \in 1..Len(w) : jb[w[i]].st \in Terminal
  BY <1>2, <1>3 DEF Listed, Youngest
<1>5. ASSUME NEW i \in 1..Len(w), NEW k \in 1..Len(w), i < k
      PROVE  w[i] # w[k] /\ jb[w[i]].at <= jb[w[k]].at
  <2>1. i \in 1..Len(s) /\ w[i] = s[i]
    BY <1>0, <1>2, <1>5
  <2>2. CASE k \in 1..Len(s)
    BY <2>1, <2>2, <1>2, <1>5 DEF Listed
  <2>3. CASE k = Len(s) + 1
    BY <2>1, <2>3, <1>2 DEF Youngest
  <2> QED BY <2>2, <2>3, <1>3
<1>6. ToSet(s) = {s[i] : i \in 1..Len(s)} /\ IsFiniteSet(ToSet(s)) /\ ToSet(s) \subseteq Jobs
  BY <1>0, EntriesFinite
<1>7. ToSet(w) = {w[i] : i \in 1..Len(w)}
  BY <1>2, EntriesFinite
<1>8. ToSet(w) = ToSet(s) \cup {j}
  <2>1. Len(s) + 1 \in 1..Len(w) /\ \A i \in 1..Len(s) : i \in 1..Len(w)
    BY <1>0, <1>2
  <2>2. \A i \in 1..Len(w) : w[i] \in {s[k] : k \in 1..Len(s)} \cup {j}
    BY <1>2, <1>3
  <2>3. j \in {w[i] : i \in 1..Len(w)} /\ \A i \in 1..Len(s) : s[i] \in {w[k] : k \in 1..Len(w)}
    BY <2>1, <1>2
  <2> QED BY <2>2, <2>3, <1>6, <1>7
<1>9. j \notin ToSet(s)
  BY <1>6 DEF Youngest
<1>10. PICK f : f = [x \in Jobs |-> jb[x].bytes]
  OBVIOUS
<1>11. \A x \in ToSet(s) \cup {j} : f[x] \in Int
  <2> TAKE x \in ToSet(s) \cup {j}
  <2>1. x \in Jobs /\ jb[x] \in Records
    BY <1>0, <1>6
  <2> QED BY <2>1, <1>10, <1>0 DEF Records
<1>12. SumFunctionOnSet(f, ToSet(s) \cup {j}) = SumFunctionOnSet(f, ToSet(s)) + f[j]
  BY <1>6, <1>9, <1>11, SumAdd
<1>13. Bytes(jb, w) = Bytes(jb, s) + jb[j].bytes
  BY <1>0, <1>8, <1>10, <1>12 DEF Bytes
<1>14. Bytes(jb, w) <= MaxBytes
  BY <1>13 DEF Youngest
<1>15. Listed(jb, w)
  BY <1>2, <1>4, <1>5, <1>14 DEF Listed
<1> QED BY <1>1, <1>2, <1>15

\* Dropping nothing, and dropping twice.
LEMMA WithoutNone == ASSUME NEW S, NEW s \in Seq(S) PROVE Without(s, 0) = s
<1>1. SubSeq(s, 1, Len(s)) = s
  BY SubSeqFull
<1> QED BY <1>1 DEF Without

\* Dropping some and then some more.
LEMMA WithoutTwice ==
    ASSUME NEW S, NEW s \in Seq(S), NEW n \in 0..Len(s), NEW m \in 0..Len(s) - n
    PROVE  Without(Without(s, n), m) = Without(s, n + m)
<1>1. Len(s) \in Nat /\ n + m \in 0..Len(s)
  BY LenProperties
<1>2. PICK w : w = Without(s, n)
  OBVIOUS
<1>3. w \in Seq(S) /\ Len(w) = Len(s) - n /\ \A i \in 1..Len(s) - n : w[i] = s[n + i]
  BY <1>2, WithoutIs
<1>4. PICK v : v = Without(w, m)
  OBVIOUS
<1>5. v \in Seq(S) /\ Len(v) = Len(w) - m /\ \A i \in 1..Len(w) - m : v[i] = w[m + i]
  <2>1. m \in 0..Len(w)
    BY <1>3
  <2> QED BY <2>1, <1>3, <1>4, WithoutIs, ZenonT(30)
<1>6. PICK u : u = Without(s, n + m)
  OBVIOUS
<1>7. u \in Seq(S) /\ Len(u) = Len(s) - (n + m) /\ \A i \in 1..Len(s) - (n + m) : u[i] = s[n + m + i]
  BY <1>1, <1>6, WithoutIs
<1>8. Len(v) = Len(u)
  BY <1>1, <1>3, <1>5, <1>7
<1>9. ASSUME NEW i \in 1..Len(v) PROVE v[i] = u[i]
  <2>1. /\ i \in 1..Len(w) - m /\ m + i \in 1..Len(s) - n /\ i \in 1..Len(s) - (n + m)
        /\ n + (m + i) = n + m + i
    BY <1>1, <1>3, <1>5, <1>7
  <2> QED BY <2>1, <1>3, <1>5, <1>7
<1>10. v = u
  BY <1>5, <1>7, <1>8, <1>9, SeqEqual
<1> QED BY <1>2, <1>4, <1>6, <1>10

\* Exactly the n oldest entries are gone.
LEMMA OldestGone ==
    ASSUME NEW jb, NEW s, Listed(jb, s), NEW n \in 0..Len(s), NEW i \in 1..Len(s)
    PROVE  s[i] \in ToSet(Without(s, n)) <=> i > n
<1>1. s \in Seq(Jobs) /\ Len(s) \in Nat
  BY LenProperties DEF Listed
<1>2. PICK w : w = Without(s, n)
  OBVIOUS
<1>3. w \in Seq(Jobs) /\ Len(w) = Len(s) - n /\ \A k \in 1..Len(s) - n : w[k] = s[n + k]
  BY <1>1, <1>2, WithoutIs
<1>4. ToSet(w) = {w[k] : k \in 1..Len(w)}
  BY <1>3, EntriesFinite
<1>5. CASE i > n
  <2>1. i - n \in 1..Len(w) /\ i - n \in 1..Len(s) - n /\ n + (i - n) = i
    BY <1>1, <1>3, <1>5
  <2>2. w[i - n] = s[i]
    BY <2>1, <1>3
  <2> QED BY <2>1, <2>2, <1>2, <1>4, <1>5
<1>6. CASE ~(i > n)
  <2>1. ASSUME NEW k \in 1..Len(w) PROVE w[k] # s[i]
    <3>1. k \in 1..Len(s) - n /\ n + k \in 1..Len(s) /\ i < n + k
      BY <1>1, <1>3, <1>6
    <3> QED BY <3>1, <1>3 DEF Listed
  <2> QED BY <2>1, <1>2, <1>4, <1>6
<1> QED BY <1>5, <1>6

-----------------------------------------------------------------------------
(* What every step does: outcomes stay, and the oldest entries leave first *)

\* The step keeps all outcomes and all active entries, and of the terminal
\* ones all but the n oldest, unless it closes the table.
Orderly ==
    /\ \A j \in Jobs : job[j].st \in Terminal => job'[j].st = job[j].st
    /\ closing' # "CLOSED" =>
          /\ active \subseteq Kept'
          /\ \E n \in 0..Len(ended) : \A i \in 1..Len(ended) : ended[i] \in Kept' <=> i > n

\* Enough for the second half: the table is the dropped list and a set that
\* holds the active entries and none of the list.
LEMMA OrderlyTable ==
    ASSUME JobsInv, NEW n \in 0..Len(ended), NEW A, active \subseteq A,
           \A i \in 1..Len(ended) : ended[i] \notin A,
           active' \cup ToSet(ended') = A \cup ToSet(Without(ended, n)),
           \A j \in Jobs : job[j].st \in Terminal => job'[j].st = job[j].st
    PROVE  Orderly
<1>1. Kept' = A \cup ToSet(Without(ended, n))
  BY DEF Kept
<1>2. \A i \in 1..Len(ended) : ended[i] \in ToSet(Without(ended, n)) <=> i > n
  BY OldestGone DEF JobsInv
<1>3. \A i \in 1..Len(ended) : ended[i] \in Kept' <=> i > n
  BY <1>1, <1>2
<1>4. active \subseteq Kept'
  BY <1>1
<1> QED BY <1>3, <1>4 DEF Orderly

\* The terminal entries are not active.
LEMMA EndedNotActive ==
    ASSUME JobsInv
    PROVE  \A i \in 1..Len(ended) : ended[i] \in Jobs /\ ended[i] \notin active
<1> TAKE i \in 1..Len(ended)
<1>1. ended[i] \in Jobs
  BY ElementOfSeq DEF JobsInv, Listed
<1>2. job[ended[i]].st \in {"COMPLETED", "FAILED", "CANCELLED"}
  BY DEF JobsInv, Listed, Terminal
<1>3. ended[i] \in active => job[ended[i]].st \in {"PENDING", "RUNNING"}
  BY DEF JobsInv, Staffed
<1> QED BY <1>1, <1>2, <1>3

\* The shorter list still fits.
LEMMA FewerEntries ==
    ASSUME JobsInv, NEW n \in 0..Len(ended)
    PROVE  /\ Listed(job, Without(ended, n))
           /\ Cardinality(active) \in Nat /\ Len(ended) \in Nat
           /\ Len(Without(ended, n)) = Len(ended) - n
           /\ Cardinality(active) + Len(Without(ended, n)) <= MaxJobs
<1>1. Listed(job, Without(ended, n))
  BY ListedDrop DEF JobsInv
<1>2. ended \in Seq(Jobs) /\ IsFiniteSet(active) /\ Cardinality(active) + Len(ended) <= MaxJobs
  BY DEF JobsInv, Listed, Staffed
<1>3. Len(Without(ended, n)) = Len(ended) - n /\ Len(ended) \in Nat
  BY <1>2, WithoutIs, LenProperties
<1>4. Cardinality(active) \in Nat
  BY <1>2, FS_CardinalityType
<1>5. MaxJobs \in Nat
  BY JobsAssumption
<1>6. Cardinality(active) + Len(Without(ended, n)) <= MaxJobs
  BY <1>2, <1>3, <1>4, <1>5
<1> QED BY <1>1, <1>3, <1>4, <1>6

\* Expiry: some of the oldest terminal jobs are dropped.
LEMMA ExpiryDrops == ASSUME JobsInv PROVE \E n \in 0..Len(ended) : Unexpired = Without(ended, n)
<1>1. ended \in Seq(Jobs)
  BY DEF JobsInv, Listed
<1>2. PICK e : e = {n \in 0..Len(ended) :
                       \A i \in n + 1..Len(ended) : clock - job[ended[i]].at < Retention}
  OBVIOUS
<1>3. e \in SUBSET (0..Len(ended))
  BY <1>2
<1>4. \E n \in 0..Len(ended) : Dropped(ended, e) = Without(ended, n)
  BY <1>1, <1>3, DroppedIs
<1> QED BY <1>2, <1>4 DEF Unexpired

\* Time passes, and entries are dropped: Tick, a read, a refused create.
LEMMA OnlyDrop ==
    ASSUME JobsInv, NEW n \in 0..Len(ended), ended' = Without(ended, n),
           clock' \in Nat, clock <= clock', cancels' \in [Jobs -> 0..MaxCancels],
           UNCHANGED <<job, active, closing>>
    PROVE  JobsInv' /\ Orderly
<1>1. Listed(job, ended)' /\ (Cardinality(active) + Len(ended) <= MaxJobs)'
  BY FewerEntries
<1>2. Phased(job, active, clock)'
  <2> SUFFICES ASSUME NEW j \in Jobs PROVE job[j].at <= clock'
    BY DEF JobsInv, Phased
  <2>1. job[j] \in Records /\ job[j].at <= clock /\ clock \in Nat
    BY DEF JobsInv, Phased
  <2> QED BY <2>1 DEF Records
<1>3. JobsInv'
  BY <1>1, <1>2 DEF JobsInv, Staffed
<1>4. Orderly
  <2>1. active' \cup ToSet(ended') = active \cup ToSet(Without(ended, n))
    OBVIOUS
  <2> QED BY <2>1, EndedNotActive, OrderlyTable
<1> QED BY <1>3, <1>4

\* The task of an active job changes phase; b is the job then.
Moved(b, j) ==
    /\ b \in Records /\ b.bytes = job[j].bytes /\ b.at = job[j].at
    /\ b.st \in {"PENDING", "RUNNING"}
    /\ b.task # "NONE"
    /\ b.task = "READY" => b.st = "PENDING"
    /\ b.task \in {"RUNNING", "EXPIRING", "CANCELLING"} => b.st = "RUNNING"
    /\ b.task = "DONE" => b.st = "PENDING"

\* An active job has no bodies, and its task has no outcome yet.
LEMMA ActiveJob ==
    ASSUME JobsInv, NEW j \in active
    PROVE  /\ j \in Jobs /\ job[j] \in Records /\ job[j].st \in {"PENDING", "RUNNING"}
           /\ job[j].bytes = 0 /\ job[j].at \in Nat /\ job[j].at <= clock
           /\ job[j].st \notin Terminal /\ job[j].task # "NONE"
<1>1. j \in Jobs /\ job[j].st \in {"PENDING", "RUNNING"}
  BY DEF JobsInv, Staffed
<1>2. job[j] \in Records /\ job[j].at \in Nat /\ job[j].bytes \in 0..MaxBytes
  BY <1>1 DEF JobsInv, Records
<1>3. /\ job[j].bytes > 0 => job[j].st = "COMPLETED"
      /\ job[j].at <= clock
      /\ job[j].task = "NONE" => job[j].st = "NONE"
  BY <1>1 DEF JobsInv, Phased
<1>4. job[j].bytes = 0
  BY <1>1, <1>2, <1>3, JobsAssumption
<1> QED BY <1>1, <1>2, <1>3, <1>4 DEF Terminal

\* Start, Timeout and the cancellation of a task.
LEMMA TaskMoves ==
    ASSUME JobsInv, NEW j \in active, NEW b, Moved(b, j), NEW n \in 0..Len(ended),
           job' = [job EXCEPT ![j] = b], ended' = Without(ended, n),
           cancels' \in [Jobs -> 0..MaxCancels], UNCHANGED <<clock, active, closing>>
    PROVE  JobsInv' /\ Orderly
<1>0. /\ j \in Jobs /\ job[j].st \notin Terminal /\ job[j].bytes = 0 /\ job[j].at <= clock
      /\ job \in [Jobs -> Records]
  BY ActiveJob DEF JobsInv
<1>1. job' \in [Jobs -> Records] /\ job'[j] = b /\ \A k \in Jobs \ {j} : job'[k] = job[k]
  BY <1>0 DEF Moved
<1>2. /\ Listed(job, Without(ended, n))
      /\ Cardinality(active) + Len(Without(ended, n)) <= MaxJobs
  BY FewerEntries
<1>3. PICK w : w = Without(ended, n)
  OBVIOUS
<1>4. \A i \in 1..Len(w) : w[i] # j /\ w[i] \in Jobs
  <2> TAKE i \in 1..Len(w)
  <2>1. job[w[i]].st \in Terminal /\ w \in Seq(Jobs)
    BY <1>2, <1>3 DEF Listed
  <2> QED BY <2>1, <1>0, ElementOfSeq
<1>5. \A i \in 1..Len(w) : /\ job'[w[i]].st = job[w[i]].st /\ job'[w[i]].at = job[w[i]].at
                           /\ job'[w[i]].bytes = job[w[i]].bytes
  BY <1>1, <1>4
<1>6. Listed(job', w)
  <2>1. PICK jb : jb = job
    OBVIOUS
  <2>2. PICK kb : kb = job'
    OBVIOUS
  <2>3. jb \in [Jobs -> Records] /\ kb \in [Jobs -> Records] /\ Listed(jb, w)
    BY <2>1, <2>2, <1>0, <1>1, <1>2, <1>3
  <2>4. \A i \in 1..Len(w) : /\ kb[w[i]].st = jb[w[i]].st /\ kb[w[i]].at = jb[w[i]].at
                             /\ kb[w[i]].bytes = jb[w[i]].bytes
    BY <2>1, <2>2, <1>5
  <2>5. Listed(kb, w) /\ Bytes(kb, w) = Bytes(jb, w)
    BY <2>3, <2>4, ListedSame
  <2> QED BY <2>1, <2>2, <2>5
<1>7. Phased(job', active, clock)
  <2> SUFFICES ASSUME NEW k \in Jobs
               PROVE  /\ (job'[k].task = "NONE") <=> (job'[k].st = "NONE")
                      /\ job'[k].task = "READY" => job'[k].st = "PENDING"
                      /\ job'[k].task \in {"RUNNING", "EXPIRING", "CANCELLING"} => job'[k].st = "RUNNING"
                      /\ job'[k].task = "DONE" => job'[k].st \in Terminal \cup {"PENDING"}
                      /\ job'[k].task \in {"READY", "RUNNING", "EXPIRING", "CANCELLING"} => k \in active
                      /\ job'[k].bytes > 0 => job'[k].st = "COMPLETED"
                      /\ job'[k].at <= clock
    BY DEF Phased
  <2>1. CASE k = j
    BY <2>1, <1>0, <1>1 DEF Moved
  <2>2. CASE k # j
    <3>1. job'[k] = job[k]
      BY <2>2, <1>1
    <3> QED BY <3>1 DEF JobsInv, Phased
  <2> QED BY <2>1, <2>2
<1>8. Staffed(job', active)
  <2>1. \A k \in active : job'[k].st \in {"PENDING", "RUNNING"}
    BY <1>1 DEF JobsInv, Staffed, Moved
  <2> QED BY <2>1 DEF JobsInv, Staffed
<1>9. JobsInv'
  BY <1>1, <1>2, <1>3, <1>6, <1>7, <1>8 DEF JobsInv
<1>10. \A k \in Jobs : job[k].st \in Terminal => job'[k].st = job[k].st
  BY <1>0, <1>1
<1>11. active' \cup ToSet(ended') = active \cup ToSet(Without(ended, n))
  OBVIOUS
<1> QED BY <1>9, <1>10, <1>11, EndedNotActive, OrderlyTable

\* The job's last state, b, when kept is what remains of the older ones.
Ended(b, j, kept) ==
    /\ b \in Records /\ b.st \in Terminal /\ b.task = "DONE" /\ b.at = clock
    /\ b.bytes > 0 => b.st = "COMPLETED"
    /\ Bytes(job, kept) + b.bytes <= MaxBytes

\* The end of _run, and of a cancel() whose task never ran.
LEMMA JobEnds ==
    ASSUME JobsInv, NEW j \in active, NEW b, NEW n \in 0..Len(ended),
           Ended(b, j, Without(ended, n)),
           job' = [job EXCEPT ![j] = b], active' = active \ {j},
           ended' = Append(Without(ended, n), j),
           cancels' \in [Jobs -> 0..MaxCancels], UNCHANGED <<clock, closing>>
    PROVE  JobsInv' /\ Orderly
<1>0. /\ j \in Jobs /\ job[j].st \notin Terminal /\ job \in [Jobs -> Records]
      /\ clock \in Nat /\ MaxJobs \in Nat /\ MaxActive \in Nat
  BY ActiveJob, JobsAssumption DEF JobsInv
<1>1. job' \in [Jobs -> Records] /\ job'[j] = b /\ \A k \in Jobs \ {j} : job'[k] = job[k]
  BY <1>0 DEF Ended
<1>2. /\ Listed(job, Without(ended, n)) /\ Len(Without(ended, n)) \in Nat
      /\ Cardinality(active) \in Nat
      /\ Cardinality(active) + Len(Without(ended, n)) <= MaxJobs
  <2>1. ended \in Seq(Jobs)
    BY DEF JobsInv, Listed
  <2>2. Without(ended, n) \in Seq(Jobs)
    BY <2>1, WithoutIs
  <2> QED BY <2>2, FewerEntries, LenProperties
<1>3. PICK w : w = Without(ended, n)
  OBVIOUS
<1>4. \A i \in 1..Len(w) : w[i] # j /\ w[i] \in Jobs
  <2> TAKE i \in 1..Len(w)
  <2>1. job[w[i]].st \in Terminal /\ w \in Seq(Jobs)
    BY <1>2, <1>3 DEF Listed
  <2> QED BY <2>1, <1>0, ElementOfSeq
<1>5. \A i \in 1..Len(w) : /\ job'[w[i]].st = job[w[i]].st /\ job'[w[i]].at = job[w[i]].at
                           /\ job'[w[i]].bytes = job[w[i]].bytes
  BY <1>1, <1>4
<1>6. Listed(job', w) /\ Bytes(job', w) = Bytes(job, w)
  <2>1. PICK jb : jb = job
    OBVIOUS
  <2>2. PICK kb : kb = job'
    OBVIOUS
  <2>3. jb \in [Jobs -> Records] /\ kb \in [Jobs -> Records] /\ Listed(jb, w)
    BY <2>1, <2>2, <1>0, <1>1, <1>2, <1>3
  <2>4. \A i \in 1..Len(w) : /\ kb[w[i]].st = jb[w[i]].st /\ kb[w[i]].at = jb[w[i]].at
                             /\ kb[w[i]].bytes = jb[w[i]].bytes
    BY <2>1, <2>2, <1>5
  <2>5. Listed(kb, w) /\ Bytes(kb, w) = Bytes(jb, w)
    BY <2>3, <2>4, ListedSame
  <2> QED BY <2>1, <2>2, <2>5
<1>7. Youngest(job', w, j)
  <2>1. \A i \in 1..Len(w) : job'[w[i]].at <= clock
    BY <1>4, <1>5 DEF JobsInv, Phased
  <2>2. Bytes(job', w) + job'[j].bytes <= MaxBytes /\ job'[j].st \in Terminal /\ job'[j].at = clock
    BY <1>1, <1>3, <1>6 DEF Ended
  <2> QED BY <2>1, <2>2, <1>0, <1>4 DEF Youngest
<1>8. Listed(job', Append(w, j)) /\ Len(Append(w, j)) = Len(w) + 1
  BY <1>1, <1>6, <1>7, ListedAppend
<1>9. IsFiniteSet(active') /\ Cardinality(active') = Cardinality(active) - 1
  <2>1. IsFiniteSet(active)
    BY DEF JobsInv, Staffed
  <2> QED BY <2>1, FS_RemoveElement
<1>10. Cardinality(active') + Len(ended') <= MaxJobs
  BY <1>0, <1>2, <1>3, <1>8, <1>9
<1>11. Staffed(job', active')
  <2>1. Cardinality(active) <= MaxActive /\ active \subseteq Jobs
        /\ \A k \in active : job[k].st \in {"PENDING", "RUNNING"}
    BY DEF JobsInv, Staffed
  <2>2. Cardinality(active') <= MaxActive
    BY <2>1, <1>0, <1>2, <1>9
  <2>3. active' \subseteq Jobs /\ \A k \in active' : job'[k].st \in {"PENDING", "RUNNING"}
    BY <2>1, <1>1
  <2> QED BY <2>2, <2>3, <1>9 DEF Staffed
<1>12. Phased(job', active', clock)
  <2> SUFFICES ASSUME NEW k \in Jobs
               PROVE  /\ (job'[k].task = "NONE") <=> (job'[k].st = "NONE")
                      /\ job'[k].task = "READY" => job'[k].st = "PENDING"
                      /\ job'[k].task \in {"RUNNING", "EXPIRING", "CANCELLING"} => job'[k].st = "RUNNING"
                      /\ job'[k].task = "DONE" => job'[k].st \in Terminal \cup {"PENDING"}
                      /\ job'[k].task \in {"READY", "RUNNING", "EXPIRING", "CANCELLING"} => k \in active'
                      /\ job'[k].bytes > 0 => job'[k].st = "COMPLETED"
                      /\ job'[k].at <= clock
    BY DEF Phased
  <2>1. CASE k = j
    <3>1. job'[k] = b
      BY <2>1, <1>1
    <3> QED BY <3>1, <1>0 DEF Ended, Terminal
  <2>2. CASE k # j
    <3>1. job'[k] = job[k] /\ (k \in active => k \in active')
      BY <2>2, <1>1
    <3> QED BY <3>1 DEF JobsInv, Phased
  <2> QED BY <2>1, <2>2
<1>13. JobsInv'
  BY <1>1, <1>3, <1>8, <1>10, <1>11, <1>12 DEF JobsInv
<1>14. \A k \in Jobs : job[k].st \in Terminal => job'[k].st = job[k].st
  BY <1>0, <1>1
<1>15. active' \cup ToSet(ended') = active \cup ToSet(Without(ended, n))
  <2>1. w \in Seq(Jobs) /\ Append(w, j) \in Seq(Jobs)
    BY <1>6, <1>8 DEF Listed
  <2>2. ToSet(w) = {w[i] : i \in 1..Len(w)} /\ Len(w) \in Nat
        /\ ToSet(Append(w, j)) = {Append(w, j)[i] : i \in 1..Len(Append(w, j))}
    BY <2>1, EntriesFinite, LenProperties
  <2>3. /\ Len(Append(w, j)) = Len(w) + 1
        /\ \A i \in 1..Len(w) : Append(w, j)[i] = w[i]
        /\ Append(w, j)[Len(w) + 1] = j
    BY <2>1, <1>0, AppendProperties
  <2>4. \A x : x \in {Append(w, j)[i] : i \in 1..Len(w) + 1} <=> x = j \/ x \in {w[i] : i \in 1..Len(w)}
    <3>1. \A i \in 1..Len(w) + 1 : i \in 1..Len(w) \/ i = Len(w) + 1
      BY <2>2
    <3>2. Len(w) + 1 \in 1..Len(w) + 1 /\ \A i \in 1..Len(w) : i \in 1..Len(w) + 1
      BY <2>2
    <3> QED BY <3>1, <3>2, <2>3
  <2>5. ToSet(Append(w, j)) = ToSet(w) \cup {j}
    BY <2>2, <2>3, <2>4
  <2> QED BY <2>5, <1>3
<1> QED BY <1>13, <1>14, <1>15, EndedNotActive, OrderlyTable

-----------------------------------------------------------------------------
(* The actions *)

\* Nothing is dropped.
LEMMA NoneDropped ==
    ASSUME JobsInv
    PROVE  0 \in 0..Len(ended) /\ ended = Without(ended, 0) /\ ended \in Seq(Jobs)
<1>1. ended \in Seq(Jobs)
  BY DEF JobsInv, Listed
<1> QED BY <1>1, WithoutNone, LenProperties

\* Time passes.
LEMMA TickStep == ASSUME JobsInv, Tick PROVE JobsInv' /\ Orderly
<1>1. clock \in Nat /\ clock' = clock + 1
  BY DEF Tick, JobsInv
<1>2. clock' \in Nat /\ clock <= clock'
  BY <1>1
<1>3. 0 \in 0..Len(ended) /\ ended' = Without(ended, 0)
  BY NoneDropped DEF Tick
<1>4. UNCHANGED <<job, active, closing>> /\ cancels' \in [Jobs -> 0..MaxCancels]
  BY DEF Tick, JobsInv
<1> QED BY <1>2, <1>3, <1>4, OnlyDrop

\* A step that leaves all but some of the oldest entries as it is.
LEMMA StillStep ==
    ASSUME JobsInv, NEW n \in 0..Len(ended), ended' = Without(ended, n),
           UNCHANGED <<clock, job, active, cancels, closing>>
    PROVE  JobsInv' /\ Orderly
<1>1. clock' \in Nat /\ clock <= clock' /\ cancels' \in [Jobs -> 0..MaxCancels]
  BY DEF JobsInv
<1> QED BY <1>1, OnlyDrop

\* A reader meets the jobs that have not expired.
LEMMA ReadStep == ASSUME JobsInv, Read PROVE JobsInv' /\ Orderly
<1>1. PICK n \in 0..Len(ended) : Unexpired = Without(ended, n)
  BY ExpiryDrops
<1> QED BY <1>1, StillStep DEF Read

\* What a create leaves of the terminal jobs.
LEMMA CreateDrops ==
    ASSUME JobsInv
    PROVE  \E n \in 0..Len(ended) :
              Dropped(Unexpired, {k \in 0..Len(Unexpired) : Room(Without(Unexpired, k))})
                = Without(ended, n)
<1>1. PICK n \in 0..Len(ended) : Unexpired = Without(ended, n)
  BY ExpiryDrops
<1>2. ended \in Seq(Jobs) /\ Len(ended) \in Nat
  BY LenProperties DEF JobsInv, Listed
<1>3. PICK u : u = Unexpired
  OBVIOUS
<1>4. u \in Seq(Jobs) /\ Len(u) = Len(ended) - n
  BY <1>1, <1>2, <1>3, WithoutIs
<1>5. PICK e : e = {k \in 0..Len(u) : Room(Without(u, k))}
  OBVIOUS
<1>6. e \in SUBSET (0..Len(u))
  BY <1>5
<1>7. PICK m \in 0..Len(u) : Dropped(u, e) = Without(u, m)
  BY <1>4, <1>6, DroppedIs
<1>8. m \in 0..Len(ended) - n /\ n + m \in 0..Len(ended)
  BY <1>2, <1>4, <1>7
<1>9. Without(u, m) = Without(ended, n + m)
  BY <1>1, <1>2, <1>3, <1>8, WithoutTwice
<1> QED BY <1>3, <1>5, <1>7, <1>8, <1>9

\* A job is admitted or refused.
LEMMA CreateStep == ASSUME JobsInv, NEW j \in Jobs, Create(j) PROVE JobsInv' /\ Orderly
<1>1. PICK kept : kept = Dropped(Unexpired, {n \in 0..Len(Unexpired) : Room(Without(Unexpired, n))})
  OBVIOUS
<1>2. PICK n \in 0..Len(ended) : kept = Without(ended, n)
  BY <1>1, CreateDrops
<1>3. PICK m \in 0..Len(ended) : Unexpired = Without(ended, m)
  BY ExpiryDrops
<1>4. CASE Busy \/ ~Room(kept)
  <2>1. /\ UNCHANGED <<clock, job, active, cancels, closing>>
        /\ ended' = Unexpired \/ ended' = kept
    BY <1>1, <1>4 DEF Create
  <2> QED BY <2>1, <1>2, <1>3, StillStep
<1>5. CASE ~Busy /\ Room(kept)
  <2>1. /\ job[j].st = "NONE" /\ ended' = kept /\ active' = active \cup {j}
        /\ job' = [job EXCEPT ![j].st = "PENDING", ![j].task = "READY"]
        /\ UNCHANGED <<clock, cancels, closing>>
    BY <1>1, <1>5 DEF Create
  <2>2. job \in [Jobs -> Records] /\ job[j] \in Records
    BY DEF JobsInv
  <2>3. /\ job'[j] = [job[j] EXCEPT !.st = "PENDING", !.task = "READY"]
        /\ \A k \in Jobs \ {j} : job'[k] = job[k]
    BY <2>1, <2>2
  <2>4. /\ job'[j] \in Records /\ job'[j].st = "PENDING" /\ job'[j].task = "READY"
        /\ job'[j].bytes = job[j].bytes /\ job'[j].at = job[j].at
    BY <2>2, <2>3 DEF Records
  <2>5. job' \in [Jobs -> Records]
    BY <2>1, <2>2, <2>3, <2>4
  <2>6. job[j].bytes \in 0..MaxBytes /\ ~(job[j].bytes > 0) /\ job[j].at <= clock
    BY <2>1, <2>2 DEF JobsInv, Phased, Records
  <2>7. j \notin active
    BY <2>1 DEF JobsInv, Staffed
  <2>8. /\ IsFiniteSet(active) /\ Cardinality(active) \in Nat /\ active \subseteq Jobs
        /\ \A k \in active : job[k].st \in {"PENDING", "RUNNING"}
    BY FS_CardinalityType DEF JobsInv, Staffed
  <2>9. IsFiniteSet(active') /\ Cardinality(active') = Cardinality(active) + 1
    BY <2>1, <2>7, <2>8, FS_AddElement
  <2>10. ~(Cardinality(active) >= MaxActive) /\ Cardinality(active) + Len(kept) < MaxJobs
    BY <1>5 DEF Busy, Room, Entries
  <2>11. Listed(job, kept) /\ Len(kept) \in Nat
    <3>1. Listed(job, kept)
      BY <1>2, FewerEntries
    <3> QED BY <3>1, LenProperties DEF Listed
  <2>12. MaxActive \in Nat /\ MaxJobs \in Nat
    BY JobsAssumption
  <2>13. Cardinality(active') <= MaxActive /\ Cardinality(active') + Len(ended') <= MaxJobs
    BY <2>1, <2>8, <2>9, <2>10, <2>11, <2>12
  <2>14. Staffed(job', active')
    <3>1. active' \subseteq Jobs /\ \A k \in active' : job'[k].st \in {"PENDING", "RUNNING"}
      BY <2>1, <2>3, <2>4, <2>8
    <3> QED BY <3>1, <2>9, <2>13 DEF Staffed
  <2>15. \A i \in 1..Len(kept) : kept[i] # j /\ kept[i] \in Jobs
    <3> TAKE i \in 1..Len(kept)
    <3>1. job[kept[i]].st \in Terminal /\ kept \in Seq(Jobs)
      BY <2>11 DEF Listed
    <3> QED BY <3>1, <2>1, ElementOfSeq DEF Terminal
  <2>16. Listed(job', kept)
    <3>1. PICK jb : jb = job
      OBVIOUS
    <3>2. PICK kb : kb = job'
      OBVIOUS
    <3>3. jb \in [Jobs -> Records] /\ kb \in [Jobs -> Records] /\ Listed(jb, kept)
      BY <3>1, <3>2, <2>2, <2>5, <2>11
    <3>4. \A i \in 1..Len(kept) : /\ kb[kept[i]].st = jb[kept[i]].st /\ kb[kept[i]].at = jb[kept[i]].at
                                  /\ kb[kept[i]].bytes = jb[kept[i]].bytes
      BY <3>1, <3>2, <2>3, <2>15
    <3>5. Listed(kb, kept)
      BY <3>3, <3>4, ListedSame
    <3> QED BY <3>2, <3>5
  <2>17. Phased(job', active', clock)
    <3> SUFFICES ASSUME NEW k \in Jobs
                 PROVE  /\ (job'[k].task = "NONE") <=> (job'[k].st = "NONE")
                        /\ job'[k].task = "READY" => job'[k].st = "PENDING"
                        /\ job'[k].task \in {"RUNNING", "EXPIRING", "CANCELLING"} => job'[k].st = "RUNNING"
                        /\ job'[k].task = "DONE" => job'[k].st \in Terminal \cup {"PENDING"}
                        /\ job'[k].task \in {"READY", "RUNNING", "EXPIRING", "CANCELLING"} => k \in active'
                        /\ job'[k].bytes > 0 => job'[k].st = "COMPLETED"
                        /\ job'[k].at <= clock
      BY DEF Phased
    <3>1. CASE k = j
      BY <3>1, <2>1, <2>4, <2>6
    <3>2. CASE k # j
      <4>1. job'[k] = job[k] /\ (k \in active => k \in active')
        BY <3>2, <2>1, <2>3
      <4> QED BY <4>1 DEF JobsInv, Phased
    <3> QED BY <3>1, <3>2
  <2>18. JobsInv'
    BY <2>1, <2>5, <2>13, <2>14, <2>16, <2>17 DEF JobsInv
  <2>19. \A k \in Jobs : job[k].st \in Terminal => job'[k].st = job[k].st
    BY <2>1, <2>3 DEF Terminal
  <2>20. \A i \in 1..Len(ended) : ended[i] \notin active \cup {j}
    <3> TAKE i \in 1..Len(ended)
    <3>1. job[ended[i]].st \in Terminal
      BY DEF JobsInv, Listed
    <3> QED BY <3>1, <2>1, EndedNotActive DEF Terminal
  <2>21. active' \cup ToSet(ended') = (active \cup {j}) \cup ToSet(Without(ended, n))
    BY <2>1, <1>2
  <2>22. active \subseteq active \cup {j}
    OBVIOUS
  <2>23. Orderly
    BY <2>19, <2>20, <2>21, <2>22, OrderlyTable
  <2> QED BY <2>18, <2>23
<1> QED BY <1>4, <1>5

\* A task that is at work belongs to an active entry.
LEMMA LiveIsActive ==
    ASSUME JobsInv, NEW j \in Jobs,
           job[j].task \in {"READY", "RUNNING", "EXPIRING", "CANCELLING"}
    PROVE  /\ j \in active /\ job[j] \in Records /\ job \in [Jobs -> Records]
           /\ job[j].task = "READY" => job[j].st = "PENDING"
           /\ job[j].task # "READY" => job[j].st = "RUNNING"
BY DEF JobsInv, Phased

\* A job starts to run.
LEMMA StartStep == ASSUME JobsInv, NEW j \in Jobs, Start(j) PROVE JobsInv' /\ Orderly
<1>1. j \in active /\ job[j] \in Records /\ job \in [Jobs -> Records]
  BY LiveIsActive DEF Start
<1>2. PICK b : b = [job[j] EXCEPT !.st = "RUNNING", !.task = "RUNNING"]
  OBVIOUS
<1>3. Moved(b, j)
  BY <1>1, <1>2 DEF Moved, Records
<1>4. job' = [job EXCEPT ![j] = b]
  BY <1>1, <1>2 DEF Start
<1>5. cancels' \in [Jobs -> 0..MaxCancels] /\ UNCHANGED <<clock, active, closing>>
  BY DEF Start, JobsInv
<1>6. 0 \in 0..Len(ended) /\ ended' = Without(ended, 0)
  BY NoneDropped DEF Start
<1> QED BY <1>1, <1>3, <1>4, <1>5, <1>6, TaskMoves

\* A running job exceeds its time.
LEMMA TimeoutStep == ASSUME JobsInv, NEW j \in Jobs, Timeout(j) PROVE JobsInv' /\ Orderly
<1>1. j \in active /\ job[j] \in Records /\ job \in [Jobs -> Records] /\ job[j].st = "RUNNING"
  BY LiveIsActive DEF Timeout
<1>2. PICK b : b = [job[j] EXCEPT !.task = "EXPIRING"]
  OBVIOUS
<1>3. Moved(b, j)
  BY <1>1, <1>2 DEF Moved, Records
<1>4. job' = [job EXCEPT ![j] = b]
  BY <1>1, <1>2 DEF Timeout
<1>5. cancels' \in [Jobs -> 0..MaxCancels] /\ UNCHANGED <<clock, active, closing>>
  BY DEF Timeout, JobsInv
<1>6. 0 \in 0..Len(ended) /\ ended' = Without(ended, 0)
  BY NoneDropped DEF Timeout
<1> QED BY <1>1, <1>3, <1>4, <1>5, <1>6, TaskMoves

\* task.cancel() moves a task that is at work and nothing else.
LEMMA CancelMoves ==
    ASSUME JobsInv, NEW j \in active
    PROVE  Moved(CancelledTask(job[j]), j)
<1>1. /\ j \in Jobs /\ job[j] \in Records /\ job[j].st \in {"PENDING", "RUNNING"}
      /\ job[j].task # "NONE"
  BY ActiveJob
<1>2. /\ job[j].task \in {"READY", "RUNNING", "EXPIRING", "CANCELLING", "DONE"}
      /\ job[j].task = "READY" => job[j].st = "PENDING"
      /\ job[j].task \in {"RUNNING", "EXPIRING", "CANCELLING"} => job[j].st = "RUNNING"
      /\ job[j].task = "DONE" => job[j].st = "PENDING"
  BY <1>1 DEF JobsInv, Phased, Records, Terminal
<1>3. CASE job[j].task = "READY"
  <2>1. CancelledTask(job[j]) = [job[j] EXCEPT !.task = "DONE"]
    BY <1>1, <1>3 DEF CancelledTask
  <2> QED BY <2>1, <1>1, <1>2, <1>3 DEF Moved, Records
<1>4. CASE job[j].task \in {"RUNNING", "EXPIRING"}
  <2>1. CancelledTask(job[j]) = [job[j] EXCEPT !.task = "CANCELLING"]
    BY <1>1, <1>4 DEF CancelledTask
  <2> QED BY <2>1, <1>1, <1>2, <1>4 DEF Moved, Records
<1>5. CASE job[j].task \in {"CANCELLING", "DONE"}
  <2>1. CancelledTask(job[j]) = [job[j] EXCEPT !.task = job[j].task]
    BY <1>1, <1>5 DEF CancelledTask
  <2> QED BY <2>1, <1>1, <1>2, <1>5 DEF Moved, Records
<1> QED BY <1>2, <1>3, <1>4, <1>5

\* A job is cancelled.
LEMMA CancelJobStep == ASSUME JobsInv, NEW j \in Jobs, CancelJob(j) PROVE JobsInv' /\ Orderly
<1>1. j \in active /\ cancels[j] < MaxCancels /\ job \in [Jobs -> Records]
  BY DEF CancelJob, JobsInv
<1>2. PICK b : b = CancelledTask(job[j])
  OBVIOUS
<1>3. Moved(b, j)
  BY <1>1, <1>2, CancelMoves
<1>4. job' = [job EXCEPT ![j] = b]
  BY <1>1, <1>2 DEF CancelJob
<1>5. cancels' \in [Jobs -> 0..MaxCancels]
  <2>1. cancels \in [Jobs -> 0..MaxCancels] /\ MaxCancels \in Nat
    BY JobsAssumption DEF JobsInv
  <2>2. cancels[j] + 1 \in 0..MaxCancels
    BY <2>1, <1>1
  <2> QED BY <2>1, <2>2 DEF CancelJob
<1>6. UNCHANGED <<clock, active, closing>>
  BY DEF CancelJob
<1>7. PICK n \in 0..Len(ended) : ended' = Without(ended, n)
  BY ExpiryDrops DEF CancelJob
<1> QED BY <1>1, <1>3, <1>4, <1>5, <1>6, <1>7, TaskMoves

\* The end of a task, with what it keeps of the older jobs.
LEMMA EndTaskStep ==
    ASSUME JobsInv, NEW j \in Jobs, job[j].task \in {"RUNNING", "EXPIRING", "CANCELLING"},
           NEW status \in Terminal, NEW bytes \in 0..MaxBytes, NEW n \in 0..Len(ended),
           bytes > 0 => status = "COMPLETED",
           Bytes(job, Without(ended, n)) + bytes <= MaxBytes,
           EndTask(j, status, bytes, Without(ended, n))
    PROVE  JobsInv' /\ Orderly
<1>1. j \in active
  BY LiveIsActive
<1>2. PICK b : b = [st |-> status, task |-> "DONE", bytes |-> bytes, at |-> clock]
  OBVIOUS
<1>3. Ended(b, j, Without(ended, n))
  BY <1>2 DEF Ended, Records, JobsInv
<1>4. /\ job' = [job EXCEPT ![j] = b] /\ active' = active \ {j}
      /\ ended' = Append(Without(ended, n), j) /\ UNCHANGED <<clock, closing>>
  BY <1>1, <1>2 DEF EndTask
<1>5. cancels' \in [Jobs -> 0..MaxCancels]
  BY DEF EndTask, JobsInv
<1> QED BY <1>1, <1>3, <1>4, <1>5, JobEnds

\* A task that ends without bodies.
LEMMA EmptyEnd ==
    ASSUME JobsInv, NEW j \in Jobs, job[j].task \in {"RUNNING", "EXPIRING", "CANCELLING"},
           NEW status \in Terminal, EndTask(j, status, 0, ended)
    PROVE  JobsInv' /\ Orderly
<1>1. 0 \in 0..Len(ended) /\ ended = Without(ended, 0) /\ ended \in Seq(Jobs)
  BY NoneDropped
<1>2. EndTask(j, status, 0, Without(ended, 0))
  BY <1>1
<1>3. MaxBytes \in Nat /\ 0 \in 0..MaxBytes
  BY JobsAssumption
<1>4. Bytes(job, ended) \in Nat /\ Bytes(job, ended) <= MaxBytes
  <2>1. job \in [Jobs -> Records] /\ Bytes(job, ended) <= MaxBytes
    BY DEF JobsInv, Listed
  <2> QED BY <2>1, <1>1, DropBytes
<1>5. Bytes(job, Without(ended, 0)) + 0 <= MaxBytes
  BY <1>1, <1>3, <1>4
<1> QED BY <1>1, <1>2, <1>3, <1>5, EndTaskStep

\* A job fails.
LEMMA FailStep == ASSUME JobsInv, NEW j \in Jobs, Fail(j) PROVE JobsInv' /\ Orderly
BY EmptyEnd DEF Fail, Terminal

\* A job that exceeded its time has been reaped.
LEMMA TimeoutReapedStep ==
    ASSUME JobsInv, NEW j \in Jobs, TimeoutReaped(j) PROVE JobsInv' /\ Orderly
BY EmptyEnd DEF TimeoutReaped, Terminal

\* A cancelled job has been reaped.
LEMMA CancelReapedStep ==
    ASSUME JobsInv, NEW j \in Jobs, CancelReaped(j) PROVE JobsInv' /\ Orderly
<1>1. PICK status \in {"CANCELLED", "FAILED"} : EndTask(j, status, 0, ended)
  BY DEF CancelReaped
<1>2. status \in Terminal
  BY <1>1 DEF Terminal
<1> QED BY <1>1, <1>2, EmptyEnd DEF CancelReaped

\* The eviction makes room for a result that fits at all.
LEMMA EvictionFits ==
    ASSUME JobsInv, NEW size \in 0..MaxBytes
    PROVE  \E n \in 0..Len(ended) : /\ Evicted(size) = Without(ended, n)
                                    /\ Bytes(job, Without(ended, n)) + size <= MaxBytes
<1>0. ended \in Seq(Jobs) /\ Len(ended) \in Nat /\ MaxBytes \in Nat
  BY LenProperties, JobsAssumption DEF JobsInv, Listed
<1>1. PICK e : e = {n \in 0..Len(ended) : BytesFit(Without(ended, n), size)}
  OBVIOUS
<1>2. e \in SUBSET (0..Len(ended))
  BY <1>1
<1>3. PICK n \in 0..Len(ended) : /\ n \in e \/ n = Len(ended)
                                 /\ Dropped(ended, e) = Without(ended, n)
  BY <1>0, <1>2, DroppedIs
<1>4. CASE n \in e
  <2>1. BytesFit(Without(ended, n), size)
    BY <1>1, <1>4
  <2>2. Bytes(job, Without(ended, n)) + size <= MaxBytes
    BY <2>1 DEF BytesFit, BytesOf, Bytes
  <2> QED BY <2>2, <1>1, <1>3 DEF Evicted
<1>5. CASE n = Len(ended)
  <2>1. PICK w : w = Without(ended, n)
    OBVIOUS
  <2>2. w \in Seq(Jobs) /\ Len(w) = 0
    BY <2>1, <1>0, <1>5, WithoutIs
  <2>3. ToSet(w) = {w[i] : i \in 1..Len(w)}
    BY <2>2, EntriesFinite
  <2>4. ToSet(w) = {}
    BY <2>2, <2>3
  <2>5. Bytes(job, w) = 0
    BY <2>4, SumEmpty DEF Bytes
  <2>6. Bytes(job, w) + size <= MaxBytes
    BY <2>5, <1>0
  <2> QED BY <2>1, <2>6, <1>1, <1>3 DEF Evicted
<1> QED BY <1>3, <1>4, <1>5

\* A job completes, if its result fits.
LEMMA CompleteStep ==
    ASSUME JobsInv, NEW j \in Jobs, NEW size \in Sizes, Complete(j, size)
    PROVE  JobsInv' /\ Orderly
<1>0. size \in Nat /\ MaxBytes \in Nat /\ job[j].task = "RUNNING"
  BY JobsAssumption DEF Complete
<1>1. CASE size > MaxBytes /\ EndTask(j, "FAILED", 0, ended)
  BY <1>0, <1>1, EmptyEnd DEF Terminal
<1>2. CASE size <= MaxBytes /\ EndTask(j, "COMPLETED", size, Evicted(size))
  <2>1. size \in 0..MaxBytes /\ "COMPLETED" \in Terminal
    BY <1>0, <1>2 DEF Terminal
  <2>2. PICK n \in 0..Len(ended) : /\ Evicted(size) = Without(ended, n)
                                   /\ Bytes(job, Without(ended, n)) + size <= MaxBytes
    BY <2>1, EvictionFits
  <2>3. EndTask(j, "COMPLETED", size, Without(ended, n))
    BY <2>2, <1>2
  <2> QED BY <2>1, <2>2, <2>3, <1>0, EndTaskStep
<1> QED BY <1>1, <1>2 DEF Complete

\* Statuses, ages and bytes of the terminal entries stay as they were.
LEMMA ListStays ==
    ASSUME JobsInv, job' \in [Jobs -> Records], ended' = ended,
           \A k \in Jobs : job[k].st \in Terminal => job'[k] = job[k]
    PROVE  Listed(job', ended')
<1>1. PICK jb : jb = job
  OBVIOUS
<1>2. PICK kb : kb = job'
  OBVIOUS
<1>3. PICK s : s = ended
  OBVIOUS
<1>4. jb \in [Jobs -> Records] /\ kb \in [Jobs -> Records] /\ Listed(jb, s)
  BY <1>1, <1>2, <1>3 DEF JobsInv
<1>5. \A i \in 1..Len(s) : /\ kb[s[i]].st = jb[s[i]].st /\ kb[s[i]].at = jb[s[i]].at
                           /\ kb[s[i]].bytes = jb[s[i]].bytes
  <2> TAKE i \in 1..Len(s)
  <2>1. s[i] \in Jobs /\ jb[s[i]].st \in Terminal
    BY <1>4, ElementOfSeq DEF Listed
  <2>2. kb[s[i]] = jb[s[i]]
    BY <2>1, <1>1, <1>2
  <2> QED BY <2>2
<1>6. Listed(kb, s)
  BY <1>4, <1>5, ListedSame
<1> QED BY <1>2, <1>3, <1>6

\* A cancellation returns; a job that never ran ends with it.
LEMMA CancelReturnsStep ==
    ASSUME JobsInv, NEW j \in Jobs, CancelReturns(j)
    PROVE  JobsInv' /\ Orderly
<1>0. /\ job \in [Jobs -> Records] /\ job[j] \in Records /\ job[j].task = "DONE"
      /\ clock \in Nat /\ UNCHANGED <<clock, closing>>
  BY DEF JobsInv, CancelReturns
<1>1. cancels' \in [Jobs -> 0..MaxCancels]
  <2>1. cancels \in [Jobs -> 0..MaxCancels] /\ MaxCancels \in Nat /\ cancels[j] > 0
    BY JobsAssumption DEF JobsInv, CancelReturns
  <2>2. cancels[j] - 1 \in 0..MaxCancels
    BY <2>1
  <2> QED BY <2>1, <2>2 DEF CancelReturns
<1>2. 0 \in 0..Len(ended) /\ ended = Without(ended, 0) /\ ended \in Seq(Jobs)
  BY NoneDropped
<1>3. CASE ~NeverRan(j)
  <2>1. UNCHANGED <<job, active>> /\ ended' = Without(ended, 0)
    BY <1>2, <1>3 DEF CancelReturns
  <2>2. clock' \in Nat /\ clock <= clock'
    BY <1>0
  <2> QED BY <2>1, <2>2, <1>0, <1>1, <1>2, OnlyDrop
<1>4. CASE NeverRan(j)
  <2>0. PICK b : b = [job[j] EXCEPT !.st = "CANCELLED", !.at = clock]
    OBVIOUS
  <2>1. /\ job[j].st = "PENDING" /\ job' = [job EXCEPT ![j] = b] /\ active' = active \ {j}
        /\ ended' = IF j \in active THEN Append(ended, j) ELSE ended
    BY <1>0, <1>4, <2>0 DEF CancelReturns, NeverRan
  <2>2. job[j].bytes = 0
    <3>1. job[j].bytes \in 0..MaxBytes /\ ~(job[j].bytes > 0)
      BY <2>1, <1>0 DEF JobsInv, Phased, Records
    <3> QED BY <3>1, JobsAssumption
  <2>3. /\ b \in Records /\ b.st = "CANCELLED" /\ b.task = "DONE" /\ b.at = clock /\ b.bytes = 0
    BY <2>0, <2>2, <1>0 DEF Records, Terminal
  <2>4. CASE j \in active
    <3>1. Bytes(job, ended) \in Nat /\ Bytes(job, ended) <= MaxBytes /\ MaxBytes \in Nat
      <4>1. Bytes(job, ended) <= MaxBytes
        BY DEF JobsInv, Listed
      <4> QED BY <4>1, <1>0, <1>2, DropBytes, JobsAssumption
    <3>2. Bytes(job, Without(ended, 0)) + b.bytes <= MaxBytes
      BY <3>1, <2>3, <1>2
    <3>3. Ended(b, j, Without(ended, 0))
      BY <3>2, <2>3 DEF Ended, Terminal
    <3>4. ended' = Append(Without(ended, 0), j)
      BY <2>1, <2>4, <1>2
    <3> QED BY <3>3, <3>4, <2>1, <2>4, <1>0, <1>1, <1>2, JobEnds
  <2>5. CASE j \notin active
    <3>1. active' = active /\ ended' = ended
      BY <2>1, <2>5
    <3>2. job' \in [Jobs -> Records] /\ job'[j] = b /\ \A k \in Jobs \ {j} : job'[k] = job[k]
      BY <2>1, <2>3, <1>0
    <3>3. \A k \in Jobs : job[k].st \in Terminal => job'[k] = job[k]
      BY <3>2, <2>1 DEF Terminal
    <3>4. Listed(job', ended')
      BY <3>1, <3>2, <3>3, ListStays
    <3>5. Staffed(job', active')
      BY <3>1, <3>2, <2>5 DEF JobsInv, Staffed
    <3>6. Phased(job', active', clock')
      <4> SUFFICES ASSUME NEW k \in Jobs
                   PROVE  /\ (job'[k].task = "NONE") <=> (job'[k].st = "NONE")
                          /\ job'[k].task = "READY" => job'[k].st = "PENDING"
                          /\ job'[k].task \in {"RUNNING", "EXPIRING", "CANCELLING"} => job'[k].st = "RUNNING"
                          /\ job'[k].task = "DONE" => job'[k].st \in Terminal \cup {"PENDING"}
                          /\ job'[k].task \in {"READY", "RUNNING", "EXPIRING", "CANCELLING"} => k \in active'
                          /\ job'[k].bytes > 0 => job'[k].st = "COMPLETED"
                          /\ job'[k].at <= clock'
        BY DEF Phased
      <4>1. CASE k = j
        BY <4>1, <3>2, <2>3, <1>0 DEF Terminal
      <4>2. CASE k # j
        <5>1. job'[k] = job[k]
          BY <4>2, <3>2
        <5> QED BY <5>1, <3>1, <1>0 DEF JobsInv, Phased
      <4> QED BY <4>1, <4>2
    <3>7. JobsInv'
      BY <3>1, <3>2, <3>4, <3>5, <3>6, <1>0, <1>1 DEF JobsInv
    <3>8. active' \cup ToSet(ended') = active \cup ToSet(Without(ended, 0))
      BY <3>1, <1>2
    <3>9. \A k \in Jobs : job[k].st \in Terminal => job'[k].st = job[k].st
      BY <3>3
    <3> QED BY <3>7, <3>8, <3>9, <1>2, EndedNotActive, OrderlyTable
  <2> QED BY <2>4, <2>5
<1> QED BY <1>3, <1>4

\* The service closes.
LEMMA CloseStep == ASSUME JobsInv, Close PROVE JobsInv' /\ Orderly
<1>0. /\ job \in [Jobs -> Records] /\ active' = active /\ ended' = ended /\ clock' = clock
      /\ cancels' = cancels /\ closing' = "CLOSING"
      /\ job' = [k \in Jobs |-> IF k \in active THEN CancelledTask(job[k]) ELSE job[k]]
  BY DEF JobsInv, Close
<1>1. \A k \in active : k \in Jobs /\ job[k].st \notin Terminal /\ job'[k] = CancelledTask(job[k])
                        /\ Moved(job'[k], k) /\ job[k].bytes = 0 /\ job[k].at <= clock
  BY <1>0, ActiveJob, CancelMoves
<1>2. \A k \in Jobs \ active : job'[k] = job[k]
  BY <1>0
<1>3. job' \in [Jobs -> Records]
  <2>1. \A k \in Jobs : job'[k] \in Records
    BY <1>0, <1>1, <1>2 DEF Moved
  <2> QED BY <2>1, <1>0
<1>4. \A k \in Jobs : job[k].st \in Terminal => job'[k] = job[k]
  BY <1>1, <1>2
<1>5. Listed(job', ended')
  BY <1>0, <1>3, <1>4, ListStays
<1>6. Staffed(job', active')
  BY <1>0, <1>1 DEF JobsInv, Staffed, Moved
<1>7. Phased(job', active', clock')
  <2> SUFFICES ASSUME NEW k \in Jobs
               PROVE  /\ (job'[k].task = "NONE") <=> (job'[k].st = "NONE")
                      /\ job'[k].task = "READY" => job'[k].st = "PENDING"
                      /\ job'[k].task \in {"RUNNING", "EXPIRING", "CANCELLING"} => job'[k].st = "RUNNING"
                      /\ job'[k].task = "DONE" => job'[k].st \in Terminal \cup {"PENDING"}
                      /\ job'[k].task \in {"READY", "RUNNING", "EXPIRING", "CANCELLING"} => k \in active'
                      /\ job'[k].bytes > 0 => job'[k].st = "COMPLETED"
                      /\ job'[k].at <= clock'
    BY DEF Phased
  <2>1. CASE k \in active
    BY <2>1, <1>0, <1>1 DEF Moved
  <2>2. CASE k \notin active
    <3>1. job'[k] = job[k]
      BY <2>2, <1>2
    <3> QED BY <3>1, <1>0 DEF JobsInv, Phased
  <2> QED BY <2>1, <2>2
<1>8. JobsInv'
  BY <1>0, <1>3, <1>5, <1>6, <1>7 DEF JobsInv
<1>9. 0 \in 0..Len(ended) /\ active' \cup ToSet(ended') = active \cup ToSet(Without(ended, 0))
  BY <1>0, NoneDropped
<1>10. \A k \in Jobs : job[k].st \in Terminal => job'[k].st = job[k].st
  BY <1>4
<1> QED BY <1>8, <1>9, <1>10, EndedNotActive, OrderlyTable

\* The empty table.
LEMMA EmptyTable ==
    ASSUME NEW jb
    PROVE  /\ Listed(jb, << >>) /\ Staffed(jb, {}) /\ Cardinality({}) + Len(<< >>) <= MaxJobs
<1>0. MaxBytes \in Nat /\ MaxJobs \in Nat /\ MaxActive \in Nat
  BY JobsAssumption
<1>1. Cardinality({}) = 0 /\ IsFiniteSet({})
  BY FS_EmptySet
<1>2. PICK s : s = << >>
  OBVIOUS
<1>3. s \in Seq(Jobs) /\ Len(s) = 0
  BY <1>2
<1>4. ToSet(s) = {s[i] : i \in 1..Len(s)}
  BY <1>3, EntriesFinite
<1>5. ToSet(s) = {}
  BY <1>3, <1>4
<1>6. Bytes(jb, s) = 0
  BY <1>5, SumEmpty DEF Bytes
<1>7. Listed(jb, s)
  BY <1>0, <1>3, <1>6 DEF Listed
<1>8. Staffed(jb, {})
  BY <1>0, <1>1 DEF Staffed
<1>9. Cardinality({}) + Len(s) <= MaxJobs
  BY <1>0, <1>1, <1>3
<1> QED BY <1>2, <1>7, <1>8, <1>9

\* The service has closed.
LEMMA CloseEndsStep == ASSUME JobsInv, CloseEnds PROVE JobsInv' /\ Orderly
<1>0. /\ active' = {} /\ ended' = << >> /\ closing' = "CLOSED" /\ UNCHANGED <<clock, job, cancels>>
      /\ \A j \in active : job[j].task = "DONE"
  BY DEF CloseEnds
<1>1. /\ Listed(job', ended') /\ Staffed(job', active')
      /\ Cardinality(active') + Len(ended') <= MaxJobs
  BY <1>0, EmptyTable
<1>2. Phased(job', active', clock')
  <2>1. \A j \in Jobs : job[j].task \notin {"READY", "RUNNING", "EXPIRING", "CANCELLING"}
    BY <1>0 DEF JobsInv, Phased
  <2> QED BY <2>1, <1>0 DEF JobsInv, Phased
<1>3. JobsInv'
  BY <1>0, <1>1, <1>2 DEF JobsInv
<1> QED BY <1>0, <1>3 DEF Orderly

-----------------------------------------------------------------------------
(* The theorems *)

\* The table starts empty.
LEMMA JobsInit == ASSUME Init PROVE JobsInv
<1>1. NoJob \in Records /\ NoJob.st = "NONE" /\ NoJob.task = "NONE" /\ NoJob.bytes = 0 /\ NoJob.at = 0
  BY JobsAssumption DEF NoJob, Records
<1>2. job \in [Jobs -> Records] /\ \A j \in Jobs : job[j] = NoJob
  BY <1>1 DEF Init
<1>3. Phased(job, active, clock)
  BY <1>1, <1>2 DEF Init, Phased
<1>4. Listed(job, ended) /\ Staffed(job, active) /\ Cardinality(active) + Len(ended) <= MaxJobs
  BY EmptyTable DEF Init
<1>5. clock \in Nat /\ cancels \in [Jobs -> 0..MaxCancels] /\ closing = "OPEN"
  BY JobsAssumption DEF Init
<1> QED BY <1>2, <1>3, <1>4, <1>5 DEF JobsInv

\* Every step of the table and of its tasks keeps the invariant and is orderly.
LEMMA JobsNext == ASSUME JobsInv, [Next]_vars PROVE JobsInv' /\ (Orderly \/ UNCHANGED vars)
<1>1. ASSUME NEW j \in Jobs, TaskStep(j) PROVE JobsInv' /\ Orderly
  BY <1>1, StartStep, FailStep, TimeoutStep, TimeoutReapedStep, CancelReapedStep, CompleteStep
     DEF TaskStep
<1>2. ASSUME NEW j \in Jobs, Create(j) \/ TaskStep(j) \/ CancelJob(j) \/ CancelReturns(j)
      PROVE  JobsInv' /\ Orderly
  BY <1>1, <1>2, CreateStep, CancelJobStep, CancelReturnsStep
<1>3. CASE Next
  BY <1>2, <1>3, TickStep, ReadStep, CloseStep, CloseEndsStep DEF Next
<1>4. CASE UNCHANGED vars
  BY <1>4 DEF vars, JobsInv
<1> QED BY <1>3, <1>4

\* JobsInv holds in every state of every behaviour of the table.
THEOREM JobsInvariance == Spec => []JobsInv
<1>1. Init => JobsInv
  BY JobsInit
<1>2. JobsInv /\ [Next]_vars => JobsInv'
  BY JobsNext
<1> QED BY <1>1, <1>2, PTL DEF Spec

\* The shape of the table (evaluation_jobs.py:26-57): active entries have no
\* outcome, the others have one and are listed once, and only a COMPLETED job
\* retains bodies, none larger than the budget.
THEOREM JobsTypeCorrect == Spec => []TypeOK
<1>1. ASSUME JobsInv PROVE TypeOK
  <2>1. active \subseteq Jobs /\ \A j \in active : job[j].st \in {"PENDING", "RUNNING"}
    BY <1>1 DEF JobsInv, Staffed
  <2>2. \A i \in 1..Len(ended) : job[ended[i]].st \in Terminal
    BY <1>1 DEF JobsInv, Listed
  <2>3. IsInjective(ended)
    <3>1. ended \in Seq(Jobs) /\ Len(ended) \in Nat /\ DOMAIN ended = 1..Len(ended)
      BY <1>1, LenProperties DEF JobsInv, Listed
    <3>2. \A i, k \in 1..Len(ended) : i < k => ended[i] # ended[k]
      BY <1>1 DEF JobsInv, Listed
    <3>3. ASSUME NEW i \in 1..Len(ended), NEW k \in 1..Len(ended), ended[i] = ended[k]
          PROVE  i = k
      BY <3>1, <3>2, <3>3
    <3> QED BY <3>1, <3>3 DEF IsInjective
  <2>4. \A j \in Jobs : /\ job[j].bytes \in 0..MaxBytes
                        /\ job[j].bytes > 0 => job[j].st = "COMPLETED"
                        /\ cancels[j] \in 0..MaxCancels
    BY <1>1 DEF JobsInv, Phased, Records
  <2> QED BY <2>1, <2>2, <2>3, <2>4 DEF TypeOK
<1> QED BY <1>1, JobsInvariance, PTL

\* Whatever completes, fails, expires or is cancelled in whatever order, the
\* active jobs, the entries and the retained bytes stay within the limits of
\* the constructor (create and the eviction loop of _run).
THEOREM LimitsHold == Spec => []WithinLimits
<1>1. ASSUME JobsInv PROVE WithinLimits
  BY <1>1 DEF JobsInv, Staffed, Listed, WithinLimits, Entries, BytesOf, Bytes
<1> QED BY <1>1, JobsInvariance, PTL

\* No outcome is overwritten, not by a second cancel() either, no active entry
\* leaves the table, and the terminal ones leave it oldest first.
THEOREM OutcomesFinal == Spec => OutcomesAreFinal
<1> DEFINE Final ==
       /\ \A j \in Jobs : job[j].st \in Terminal => job'[j].st = job[j].st
       /\ closing' # "CLOSED" =>
            \A i \in 1..Len(ended) :
               ended[i] \notin Kept' => \A k \in 1..i : ended[k] \notin Kept'
       /\ closing' # "CLOSED" => active \subseteq Kept'
<1>1. ASSUME JobsInv, Orderly PROVE Final
  <2>1. Len(ended) \in Nat
    BY <1>1, LenProperties DEF JobsInv, Listed
  <2>2. ASSUME closing' # "CLOSED", NEW i \in 1..Len(ended), ended[i] \notin Kept', NEW k \in 1..i
        PROVE  ended[k] \notin Kept'
    <3>1. PICK n \in 0..Len(ended) : \A m \in 1..Len(ended) : ended[m] \in Kept' <=> m > n
      BY <1>1, <2>2 DEF Orderly
    <3>2. ~(i > n) /\ k \in 1..Len(ended)
      BY <3>1, <2>1, <2>2
    <3>3. ~(k > n)
      BY <3>2, <2>1
    <3> QED BY <3>1, <3>2, <3>3
  <2> QED BY <2>2, <1>1 DEF Orderly
<1>2. JobsInv /\ [Next]_vars => [Final]_vars
  BY <1>1, JobsNext
<1>3. OutcomesAreFinal <=> [][Final]_vars
  BY DEF OutcomesAreFinal
<1> QED BY <1>2, <1>3, JobsInvariance, PTL DEF Spec
================================================================================
