---------------------------- MODULE MCLinkedList ----------------------------
(* Instances of LinkedList for TLC. *)
EXTENDS LinkedList, TLC

\* Addresses are only compared.
Symmetry == Permutations(Nodes)

=============================================================================
