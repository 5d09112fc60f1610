------------------------- MODULE MCSharedCacheDir -------------------------
(* Instances of SharedCacheDir for TLC. *)
EXTENDS SharedCacheDir, TLC

\* Processes and keys are only compared; both may be permuted.
Symmetry == Permutations(Procs) \cup Permutations(Keys)

=============================================================================
