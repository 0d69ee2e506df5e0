--------------------------- MODULE MCCompletionTxn ---------------------------
(* CompletionTxn on a job of a few domains.                                *)
EXTENDS CompletionTxn, TLC

Symmetry == Permutations(Domains)

=============================================================================
