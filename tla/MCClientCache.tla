--------------------------- MODULE MCClientCache ---------------------------
(* Instances of ClientCache for TLC. *)
EXTENDS ClientCache, TLC

\* Processes and keys are only compared; both may be permuted.
Symmetry == Permutations(Procs) \cup Permutations(Keys)

=============================================================================
