------------------------------ MODULE MCBumFS -------------------------------
(* BumFS on a small instance: inodes and handles are interchangeable. *)
EXTENDS BumFS, TLC

Symmetry == Permutations(Ino) \cup Permutations(Fh)

=============================================================================
