--------------------------- MODULE MCCallsAlone ---------------------------
(* Instances of CallsAlone for TLC. *)
EXTENDS CallsAlone, TLC

\* Processes and keys are only compared; both may be permuted.
Symmetry == Permutations(Procs) \cup Permutations(Keys)

=============================================================================
