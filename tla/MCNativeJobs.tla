---------------------------- MODULE MCNativeJobs ----------------------------
(* Two objects, a db object and a buffer, and two asynchronous calls. *)
EXTENDS NativeJobs, TLC

CONSTANTS d1, b1, j1, j2

OneDb == {d1}
OneBuffer == {b1}
TwoJobs == {j1, j2}
Symmetry == Permutations(TwoJobs)
=============================================================================
