--------------------------- MODULE MCLockFreeQueue ---------------------------
(* LockFreeQueue for TLC.                                                  *)
EXTENDS LockFreeQueue, TLC

\* Addresses are interchangeable; so are producers.
Symmetry == Permutations(Nodes) \cup Permutations(Producers)
=============================================================================
