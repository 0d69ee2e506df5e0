------------------------------ MODULE Ordering ------------------------------
(***************************************************************************)
(* Sorting a set and filtering a sequence, defined by position: what the   *)
(* k-th element is does not depend on the others having been computed, so  *)
(* that facts about it need no induction.                                  *)
(***************************************************************************)
EXTENDS Integers, Sequences, FiniteSets

\* S sorted by the strict total order R, a set of pairs: the k-th element is the
\* one that k - 1 elements precede.
Sorted(S, R) ==
  [k \in 1..Cardinality(S) |->
     CHOOSE c \in S : Cardinality({d \in S : <<d, c>> \in R}) = k - 1]

\* The numbers of I in increasing order.
Places(I) == Sorted(I, {p \in I \X I : p[1] < p[2]})

\* The elements of s at the positions I, in the order they have in s.
At(s, I) == LET at == Places(I) IN [k \in 1..Cardinality(I) |-> s[at[k]]]

\* The first n elements of s, or all of them.
Take(s, n) == SubSeq(s, 1, IF Len(s) > n THEN n ELSE Len(s))

=============================================================================
