------------------------------ MODULE Sums_proofs ------------------------------
(***************************************************************************)
(* Sums over finite sets: what SumFunctionOnSet of the community modules,   *)
(* with which the accounts and the job table add up, computes.  Induction   *)
(* is over the subsets of a finite set, stated for a set of subsets.        *)
(***************************************************************************)
EXTENDS Integers, FiniteSets, Functions, FiniteSetTheorems, WellFoundedInduction, TLAPS

\* A set of numbers that is not empty has a least one.
LEMMA LeastNat ==
    ASSUME NEW T \in SUBSET Nat, T # {}
    PROVE  \E x \in T : \A y \in T : x <= y
<1>1. PICK x \in T : \A y \in T : ~(<<y, x>> \in OpToRel(<, Nat))
  BY NatLessThanWellFounded, WFMin
<1>2. \A y \in T : ~(y < x)
  BY <1>1 DEF OpToRel
<1> QED BY <1>2

\* A property of sets that holds when it holds with any one element less,
\* holds of every subset of a finite set.
LEMMA SubsetInduction ==
    ASSUME NEW S, IsFiniteSet(S), NEW P \in SUBSET (SUBSET S),
           \A T \in SUBSET S : (\A x \in T : T \ {x} \in P) => T \in P
    PROVE  P = SUBSET S
<1> DEFINE bad == {T \in SUBSET S : T \notin P}
           sizes == {Cardinality(T) : T \in bad}
<1> SUFFICES ASSUME bad # {} PROVE FALSE
  OBVIOUS
<1>1. \A T \in SUBSET S : IsFiniteSet(T) /\ Cardinality(T) \in Nat
  BY FS_Subset, FS_CardinalityType
<1>2. sizes \in SUBSET Nat /\ sizes # {}
  BY <1>1
<1>3. PICK n \in sizes : \A m \in sizes : n <= m
  BY <1>2, LeastNat
<1>4. PICK T \in bad : Cardinality(T) = n
  BY <1>3
<1>5. ASSUME NEW x \in T
      PROVE  T \ {x} \in P
  <2>1. IsFiniteSet(T) /\ Cardinality(T \ {x}) = n - 1 /\ n \in Nat
    BY <1>1, <1>4, FS_RemoveElement
  <2>2. T \ {x} \notin bad
    <3> SUFFICES ASSUME T \ {x} \in bad PROVE FALSE
      OBVIOUS
    <3>1. n - 1 \in sizes
      BY <2>1
    <3>2. n <= n - 1
      BY <3>1, <1>3
    <3> QED BY <2>1, <3>2
  <2> QED BY <2>2
<1> QED BY <1>4, <1>5

-----------------------------------------------------------------------------
(* The recursion of the fold *)

Pick(s) == CHOOSE x \in s : TRUE

\* g adds up f over every subset of S, one picked element at a time.
IsSum(g, f, S) ==
    g = [s \in SUBSET S |-> IF s = {} THEN 0 ELSE f[Pick(s)] + g[s \ {Pick(s)}]]

\* A set with an element has a picked one.
LEMMA PickIn == ASSUME NEW s, s # {} PROVE Pick(s) \in s
BY DEF Pick

\* One step of the recursion.
LEMMA SumUnfold ==
    ASSUME NEW g, NEW f, NEW S, IsSum(g, f, S), NEW T \in SUBSET S
    PROVE  g[T] = IF T = {} THEN 0 ELSE f[Pick(T)] + g[T \ {Pick(T)}]
<1> DEFINE e(s) == IF s = {} THEN 0 ELSE f[Pick(s)] + g[s \ {Pick(s)}]
<1>1. g = [s \in SUBSET S |-> e(s)]
  BY DEF IsSum
<1> HIDE DEF e
<1>2. g[T] = e(T)
  BY <1>1
<1> QED BY <1>2 DEF e

\* The recursion has a solution over a finite set.
LEMMA SumExists ==
    ASSUME NEW f, NEW S, IsFiniteSet(S)
    PROVE  \E g : IsSum(g, f, S)
<1> DEFINE e(g, s) == IF s = {} THEN 0 ELSE f[Pick(s)] + g[s \ {Pick(s)}]
           small(n) == {s \in SUBSET S : Cardinality(s) <= n}
           part(g, n) == g = [s \in small(n) |-> e(g, s)]
           bad == {n \in Nat : ~ \E g : part(g, n)}
<1>1. \A T \in SUBSET S : IsFiniteSet(T) /\ Cardinality(T) \in Nat
  BY FS_Subset, FS_CardinalityType
<1>2. ASSUME NEW n \in Nat, n \in bad, \A m \in bad : n <= m
      PROVE  FALSE
  <2>1. PICK g : n > 0 => part(g, n - 1)
    <3>1. CASE n = 0
      BY <3>1
    <3>2. CASE n > 0
      <4>1. n - 1 \in Nat /\ ~(n <= n - 1)
        BY <3>2
      <4>2. n - 1 \notin bad
        <5> HIDE DEF bad
        <5> QED BY <4>1, <1>2
      <4> QED BY <4>1, <4>2
    <3> QED BY <3>1, <3>2
  <2> DEFINE h == [s \in small(n) |-> e(g, s)]
  <2>2. ASSUME NEW s \in small(n)
        PROVE  e(h, s) = e(g, s)
    <3>1. CASE s = {}
      BY <3>1
    <3>2. CASE s # {}
      <4> DEFINE t == s \ {Pick(s)}
      <4>1. /\ IsFiniteSet(s) /\ Cardinality(s) \in Nat /\ Cardinality(s) <= n
            /\ Pick(s) \in s
        BY <3>2, <1>1, PickIn
      <4>2. Cardinality(t) = Cardinality(s) - 1 /\ Cardinality(t) \in Nat
        BY <4>1, <1>1, FS_RemoveElement
      <4>3. n > 0 /\ Cardinality(t) <= n - 1 /\ Cardinality(t) <= n
        BY <4>1, <4>2
      <4>4. t \in small(n - 1) /\ t \in small(n)
        BY <4>3
      <4>5. part(g, n - 1)
        BY <4>3, <2>1
      <4> HIDE DEF t, e
      <4>6. g[t] = e(g, t)
        BY <4>4, <4>5
      <4>7. h[t] = e(g, t)
        BY <4>4
      <4>8. h[t] = g[t]
        BY <4>6, <4>7
      <4> QED BY <3>2, <4>8 DEF e, t
    <3> QED BY <3>1, <3>2
  <2> HIDE DEF e
  <2>3. part(h, n)
    <3>1. h = [s \in small(n) |-> e(h, s)]
      BY <2>2
    <3> QED BY <3>1
  <2>4. \E k : part(k, n)
    BY <2>3
  <2> QED BY <2>4, <1>2
<1>3. bad = {}
  <2> SUFFICES ASSUME bad # {} PROVE FALSE
    OBVIOUS
  <2>1. bad \in SUBSET Nat
    OBVIOUS
  <2> HIDE DEF bad
  <2>2. PICK n \in bad : \A m \in bad : n <= m
    BY <2>1, LeastNat
  <2> QED BY <2>1, <2>2, <1>2
<1>4. Cardinality(S) \in Nat
  BY FS_CardinalityType
<1>5. PICK g : part(g, Cardinality(S))
  BY <1>3, <1>4
<1>6. small(Cardinality(S)) = SUBSET S
  BY FS_Subset
<1> QED BY <1>5, <1>6 DEF IsSum

\* The community operator is such a solution.
LEMMA SumIs ==
    ASSUME NEW f, NEW S, IsFiniteSet(S)
    PROVE  \E g : IsSum(g, f, S) /\ SumFunctionOnSet(f, S) = g[S]
<1>1. \E g : IsSum(g, f, S)
  BY SumExists
<1> QED BY <1>1 DEF SumFunctionOnSet, FoldFunctionOnSet, MapThenFoldSet, IsSum, Pick
-----------------------------------------------------------------------------
(* The laws of the sum *)

\* Two solutions agree on a set where the summands do.
LEMMA SumsAgree ==
    ASSUME NEW S, IsFiniteSet(S), NEW R, NEW g, NEW h, NEW f, NEW k, S \subseteq R,
           IsSum(g, f, S), IsSum(h, k, R), \A x \in S : f[x] = k[x]
    PROVE  g[S] = h[S]
<1> DEFINE P == {T \in SUBSET S : g[T] = h[T]}
<1>1. ASSUME NEW T \in SUBSET S, \A x \in T : T \ {x} \in P
      PROVE  T \in P
  <2>0. T \in SUBSET R
    OBVIOUS
  <2>1. /\ g[T] = IF T = {} THEN 0 ELSE f[Pick(T)] + g[T \ {Pick(T)}]
        /\ h[T] = IF T = {} THEN 0 ELSE k[Pick(T)] + h[T \ {Pick(T)}]
    <3>1. g[T] = IF T = {} THEN 0 ELSE f[Pick(T)] + g[T \ {Pick(T)}]
      <4>1. IsSum(g, f, S) /\ T \in SUBSET S
        OBVIOUS
      <4> QED BY ONLY <4>1, SumUnfold
    <3>2. h[T] = IF T = {} THEN 0 ELSE k[Pick(T)] + h[T \ {Pick(T)}]
      BY <2>0, SumUnfold
    <3> QED BY <3>1, <3>2
  <2>2. CASE T = {}
    BY <2>1, <2>2
  <2>3. CASE T # {}
    <3>1. Pick(T) \in T
      BY <2>3, PickIn
    <3>2. f[Pick(T)] = k[Pick(T)] /\ g[T \ {Pick(T)}] = h[T \ {Pick(T)}]
      BY <1>1, <3>1
    <3> QED BY <2>1, <2>3, <3>2
  <2> QED BY <2>2, <2>3
<1>2. P \in SUBSET (SUBSET S)
  OBVIOUS
<1> HIDE DEF P
<1>3. P = SUBSET S
  BY <1>1, <1>2, SubsetInduction
<1>4. S \in P
  BY <1>3
<1> QED BY <1>4 DEF P

\* A sum depends on the summands of its set alone.
LEMMA SumSame ==
    ASSUME NEW S, IsFiniteSet(S), NEW f, NEW k, \A x \in S : f[x] = k[x]
    PROVE  SumFunctionOnSet(f, S) = SumFunctionOnSet(k, S)
<1>1. PICK g : IsSum(g, f, S) /\ SumFunctionOnSet(f, S) = g[S]
  BY SumIs
<1>2. PICK h : IsSum(h, k, S) /\ SumFunctionOnSet(k, S) = h[S]
  BY SumIs
<1> QED BY <1>1, <1>2, SumsAgree

\* A sum is one summand and the sum of the rest.
LEMMA SumPick ==
    ASSUME NEW S, IsFiniteSet(S), NEW f
    PROVE  SumFunctionOnSet(f, S)
             = IF S = {} THEN 0 ELSE f[Pick(S)] + SumFunctionOnSet(f, S \ {Pick(S)})
<1>1. PICK g : IsSum(g, f, S) /\ SumFunctionOnSet(f, S) = g[S]
  BY SumIs
<1>2. IsFiniteSet(S \ {Pick(S)})
  BY FS_Subset
<1>3. PICK h : /\ IsSum(h, f, S \ {Pick(S)})
               /\ SumFunctionOnSet(f, S \ {Pick(S)}) = h[S \ {Pick(S)}]
  BY <1>2, SumIs
<1>4. h[S \ {Pick(S)}] = g[S \ {Pick(S)}]
  BY <1>1, <1>2, <1>3, SumsAgree
<1>5. g[S] = IF S = {} THEN 0 ELSE f[Pick(S)] + g[S \ {Pick(S)}]
  BY <1>1, SumUnfold
<1> QED BY <1>1, <1>3, <1>4, <1>5

\* The empty sum.
LEMMA SumEmpty == ASSUME NEW f PROVE SumFunctionOnSet(f, {}) = 0
BY FS_EmptySet, SumPick

\* Numbers add up to a number.
LEMMA SumInt ==
    ASSUME NEW S, IsFiniteSet(S), NEW f, \A x \in S : f[x] \in Int
    PROVE  \A T \in SUBSET S : SumFunctionOnSet(f, T) \in Int
<1> DEFINE P == {T \in SUBSET S : SumFunctionOnSet(f, T) \in Int}
<1>1. ASSUME NEW T \in SUBSET S, \A x \in T : T \ {x} \in P
      PROVE  T \in P
  <2>1. SumFunctionOnSet(f, T)
          = IF T = {} THEN 0 ELSE f[Pick(T)] + SumFunctionOnSet(f, T \ {Pick(T)})
    BY FS_Subset, SumPick
  <2>2. CASE T = {}
    BY <2>1, <2>2
  <2>3. CASE T # {}
    <3>1. Pick(T) \in T
      BY <2>3, PickIn
    <3>2. f[Pick(T)] \in Int /\ SumFunctionOnSet(f, T \ {Pick(T)}) \in Int
      BY <1>1, <3>1
    <3> QED BY <2>1, <2>3, <3>2
  <2> QED BY <2>2, <2>3
<1>2. P \in SUBSET (SUBSET S)
  OBVIOUS
<1> HIDE DEF P
<1>3. P = SUBSET S
  BY <1>1, <1>2, SubsetInduction
<1> QED BY <1>3 DEF P

\* Any summand may be taken out of a sum.
LEMMA SumRemove ==
    ASSUME NEW S, IsFiniteSet(S), NEW f, \A x \in S : f[x] \in Int
    PROVE  \A x \in S : SumFunctionOnSet(f, S) = f[x] + SumFunctionOnSet(f, S \ {x})
<1> DEFINE law(T) == \A x \in T : SumFunctionOnSet(f, T) = f[x] + SumFunctionOnSet(f, T \ {x})
           P == {T \in SUBSET S : law(T)}
<1>1. ASSUME NEW T \in SUBSET S, \A x \in T : T \ {x} \in P
      PROVE  T \in P
  <2> SUFFICES ASSUME NEW x \in T
               PROVE  SumFunctionOnSet(f, T) = f[x] + SumFunctionOnSet(f, T \ {x})
    OBVIOUS
  <2> DEFINE y == Pick(T)
  <2>1. y \in T
    BY PickIn
  <2>2. SumFunctionOnSet(f, T) = f[y] + SumFunctionOnSet(f, T \ {y})
    BY FS_Subset, SumPick
  <2> HIDE DEF y
  <2>3. CASE x = y
    BY <2>2, <2>3
  <2>4. CASE x # y
    <3>1. law(T \ {x}) /\ law(T \ {y})
      BY <1>1, <2>1
    <3>2. /\ SumFunctionOnSet(f, T \ {x}) = f[y] + SumFunctionOnSet(f, (T \ {x}) \ {y})
          /\ SumFunctionOnSet(f, T \ {y}) = f[x] + SumFunctionOnSet(f, (T \ {y}) \ {x})
      BY <2>1, <2>4, <3>1
    <3>3. (T \ {x}) \ {y} = (T \ {y}) \ {x} /\ (T \ {y}) \ {x} \in SUBSET S
      OBVIOUS
    <3>4. SumFunctionOnSet(f, (T \ {y}) \ {x}) \in Int /\ f[x] \in Int /\ f[y] \in Int
      BY <2>1, <3>3, SumInt
    <3>5. PICK rest : rest = SumFunctionOnSet(f, (T \ {y}) \ {x})
      OBVIOUS
    <3>6. /\ SumFunctionOnSet(f, T) = f[y] + (f[x] + rest)
          /\ SumFunctionOnSet(f, T \ {x}) = f[y] + rest
          /\ rest \in Int /\ f[x] \in Int /\ f[y] \in Int
      BY <2>2, <3>2, <3>3, <3>4, <3>5
    <3> QED BY <3>6
  <2> QED BY <2>3, <2>4
<1>2. P \in SUBSET (SUBSET S)
  OBVIOUS
<1> HIDE DEF P
<1>3. P = SUBSET S
  BY <1>1, <1>2, SubsetInduction
<1>4. S \in P
  BY <1>3
<1> QED BY <1>4 DEF P

\* A new summand is added.
LEMMA SumAdd ==
    ASSUME NEW S, IsFiniteSet(S), NEW y, y \notin S, NEW f, \A x \in S \cup {y} : f[x] \in Int
    PROVE  SumFunctionOnSet(f, S \cup {y}) = SumFunctionOnSet(f, S) + f[y]
<1>1. IsFiniteSet(S \cup {y}) /\ (S \cup {y}) \ {y} = S /\ y \in S \cup {y}
  BY FS_AddElement
<1>2. SumFunctionOnSet(f, S \cup {y}) = f[y] + SumFunctionOnSet(f, S)
  BY <1>1, SumRemove
<1>3. SumFunctionOnSet(f, S) \in Int /\ f[y] \in Int
  BY SumInt
<1> QED BY <1>2, <1>3

\* k is f with another value at y.
Replaced(S, y, f, k) ==
    /\ IsFiniteSet(S) /\ y \in S
    /\ \A x \in S : f[x] \in Int /\ k[x] \in Int
    /\ \A x \in S \ {y} : k[x] = f[x]

\* One summand is replaced.
LEMMA SumReplace ==
    ASSUME NEW S, NEW y, NEW f, NEW k, Replaced(S, y, f, k)
    PROVE  SumFunctionOnSet(k, S) = SumFunctionOnSet(f, S) - f[y] + k[y]
<1>0. /\ IsFiniteSet(S) /\ y \in S /\ \A x \in S : f[x] \in Int /\ k[x] \in Int
      /\ \A x \in S \ {y} : k[x] = f[x]
  BY DEF Replaced
<1>1. /\ SumFunctionOnSet(f, S) = f[y] + SumFunctionOnSet(f, S \ {y})
      /\ SumFunctionOnSet(k, S) = k[y] + SumFunctionOnSet(k, S \ {y})
  BY <1>0, SumRemove
<1>2. SumFunctionOnSet(f, S \ {y}) = SumFunctionOnSet(k, S \ {y})
  BY <1>0, FS_Subset, SumSame
<1>3. SumFunctionOnSet(f, S \ {y}) \in Int /\ f[y] \in Int /\ k[y] \in Int
  BY <1>0, SumInt
<1> QED BY <1>1, <1>2, <1>3

\* Natural numbers add up to one, and a part of them to no more.
LEMMA SumPart ==
    ASSUME NEW S, IsFiniteSet(S), NEW f, \A x \in S : f[x] \in Nat, NEW R \in SUBSET S
    PROVE  /\ SumFunctionOnSet(f, S) \in Nat
           /\ SumFunctionOnSet(f, R) \in Nat
           /\ SumFunctionOnSet(f, R) <= SumFunctionOnSet(f, S)
<1> DEFINE part(T) == R \cap T
           P == {T \in SUBSET S : /\ SumFunctionOnSet(f, T) \in Nat
                                  /\ SumFunctionOnSet(f, part(T)) \in Nat
                                  /\ SumFunctionOnSet(f, part(T)) <= SumFunctionOnSet(f, T)}
<1>1. ASSUME NEW T \in SUBSET S, \A x \in T : T \ {x} \in P
      PROVE  T \in P
  <2>1. CASE T = {}
    <3>1. part(T) = {}
      BY <2>1
    <3> QED BY <2>1, <3>1, SumEmpty
  <2>2. CASE T # {}
    <3>1. PICK y : y \in T
      BY <2>2
    <3>2. /\ f[y] \in Nat /\ IsFiniteSet(T) /\ IsFiniteSet(part(T))
          /\ \A x \in T : f[x] \in Int
      BY <3>1, FS_Subset
    <3>3. SumFunctionOnSet(f, T) = f[y] + SumFunctionOnSet(f, T \ {y})
      BY <3>1, <3>2, SumRemove
    <3>4. /\ SumFunctionOnSet(f, T \ {y}) \in Nat
          /\ SumFunctionOnSet(f, part(T \ {y})) \in Nat
          /\ SumFunctionOnSet(f, part(T \ {y})) <= SumFunctionOnSet(f, T \ {y})
      BY <1>1, <3>1
    <3>5. CASE y \in R
      <4>1. part(T \ {y}) = part(T) \ {y} /\ y \in part(T)
        BY <3>1, <3>5
      <4>2. SumFunctionOnSet(f, part(T)) = f[y] + SumFunctionOnSet(f, part(T \ {y}))
        BY <3>2, <4>1, SumRemove
      <4> QED BY <3>2, <3>3, <3>4, <4>2
    <3>6. CASE y \notin R
      <4>1. part(T \ {y}) = part(T)
        BY <3>6
      <4> QED BY <3>2, <3>3, <3>4, <4>1
    <3> QED BY <3>5, <3>6
  <2> QED BY <2>1, <2>2
<1>2. P \in SUBSET (SUBSET S)
  OBVIOUS
<1>5. part(S) = R
  OBVIOUS
<1> HIDE DEF P
<1>3. P = SUBSET S
  BY <1>1, <1>2, SubsetInduction
<1>4. S \in P
  BY <1>3
<1> QED BY <1>4, <1>5 DEF P

\* v, summed over B, is w, summed over A, with one more element.
Grown(n, v, w, A, B) ==
    /\ n \in Nat /\ \A i \in 1..n + 1 : v[i] \in Int
    /\ \A i \in 1..n : v[i] = w[i]
    /\ A \in SUBSET (1..n) /\ B \in SUBSET (1..n + 1) /\ B \ {n + 1} = A

\* A sum over a sequence that grew by one element.
LEMMA SumGrows ==
    ASSUME NEW n, NEW v, NEW w, NEW A, NEW B, Grown(n, v, w, A, B)
    PROVE  /\ SumFunctionOnSet(w, A) \in Int
           /\ SumFunctionOnSet(v, B)
                = SumFunctionOnSet(w, A) + (IF n + 1 \in B THEN v[n + 1] ELSE 0)
<1>0. /\ n \in Nat /\ \A i \in 1..n + 1 : v[i] \in Int
      /\ \A i \in 1..n : v[i] = w[i]
      /\ A \in SUBSET (1..n) /\ B \in SUBSET (1..n + 1) /\ B \ {n + 1} = A
  BY DEF Grown
<1>1. IsFiniteSet(1..n + 1) /\ 1..n \subseteq 1..n + 1 /\ n + 1 \in Int
  BY <1>0, FS_Interval
<1>2. IsFiniteSet(A) /\ \A i \in A : v[i] = w[i] /\ v[i] \in Int
  BY <1>0, <1>1, FS_Subset
<1>3. SumFunctionOnSet(v, A) = SumFunctionOnSet(w, A)
  BY <1>2, SumSame
<1>4. SumFunctionOnSet(v, A) \in Int
  BY <1>2, SumInt
<1>5. CASE n + 1 \in B
  <2>1. B = A \cup {n + 1} /\ n + 1 \notin A
    BY <1>0, <1>5
  <2>2. \A i \in A \cup {n + 1} : v[i] \in Int
    BY <1>0, <1>1, <1>2, <1>5
  <2>3. SumFunctionOnSet(v, A \cup {n + 1}) = SumFunctionOnSet(v, A) + v[n + 1]
    BY <1>2, <2>1, <2>2, SumAdd
  <2> QED BY <1>3, <1>4, <1>5, <2>1, <2>3
<1>6. CASE n + 1 \notin B
  <2>1. B = A
    BY <1>0, <1>6
  <2> QED BY <1>3, <1>4, <1>6, <2>1
<1> QED BY <1>5, <1>6

\* Zeros add up to zero.
LEMMA SumZero ==
    ASSUME NEW S, IsFiniteSet(S), NEW f, \A x \in S : f[x] = 0
    PROVE  SumFunctionOnSet(f, S) = 0
<1> DEFINE P == {T \in SUBSET S : SumFunctionOnSet(f, T) = 0}
<1>1. ASSUME NEW T \in SUBSET S, \A x \in T : T \ {x} \in P
      PROVE  T \in P
  <2>1. SumFunctionOnSet(f, T)
          = IF T = {} THEN 0 ELSE f[Pick(T)] + SumFunctionOnSet(f, T \ {Pick(T)})
    BY FS_Subset, SumPick
  <2>2. T # {} => f[Pick(T)] = 0 /\ SumFunctionOnSet(f, T \ {Pick(T)}) = 0
    BY <1>1, PickIn
  <2> QED BY <2>1, <2>2
<1>2. P \in SUBSET (SUBSET S)
  OBVIOUS
<1> HIDE DEF P
<1>3. P = SUBSET S
  BY <1>1, <1>2, SubsetInduction
<1> QED BY <1>3 DEF P
=============================================================================
