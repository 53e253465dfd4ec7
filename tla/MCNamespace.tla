---------------------------- MODULE MCNamespace -----------------------------
(* Namespace on a small instance: inode numbers and names are interchangeable. *)
EXTENDS Namespace, TLC

Symmetry == Permutations(Node) \cup Permutations(Name)

=============================================================================
