---------------------------- MODULE MCFileStore -----------------------------
(* Two processes, a file and its copy. *)
EXTENDS FileStore, TLC

CONSTANTS p1, p2, f1, f2

TwoProcesses == {p1, p2}
TwoFiles == {f1, f2}
Symmetry == Permutations(TwoProcesses) \cup Permutations(TwoFiles)
=============================================================================
