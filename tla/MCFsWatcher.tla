---------------------------- MODULE MCFsWatcher ----------------------------
(* FsWatcher for TLC.                                                      *)
EXTENDS FsWatcher, TLC

\* Clients and addresses are interchangeable (not in the run of the liveness properties).
Symmetry == Permutations(Clients) \cup Permutations(Ovs)
=============================================================================
