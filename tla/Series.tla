--------------------------------- MODULE Series --------------------------------
(* Sequences of detector objects, built by index. *)
EXTENDS Integers, SequencesExt

\* <<F(1), ..., F(n)>>
Each(n, F(_)) == SubSeq([k \in 1..n |-> F(k)], 1, n)

\* The numbers a, a + 1, ..., b.
From(a, b) == Each(b - a + 1, LAMBDA k : a + k - 1)
===============================================================================
