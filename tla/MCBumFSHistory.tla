--------------------------- MODULE MCBumFSHistory ---------------------------
(* BumFSHistory on a small instance: inodes and handles are interchangeable. *)
EXTENDS BumFSHistory, TLC

Symmetry == Permutations(Ino) \cup Permutations(Fh)

=============================================================================
