----------------------------- MODULE MCJobQueue -----------------------------
(***************************************************************************)
(* JobQueue for TLC.                                                       *)
(***************************************************************************)
EXTENDS JobQueue, TLC

\* Job, worker and nonce names are only compared for equality.
Symmetry == Permutations(Jobs) \cup Permutations(Workers) \cup Permutations(Nonces)

=============================================================================
