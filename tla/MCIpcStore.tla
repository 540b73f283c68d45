----------------------------- MODULE MCIpcStore -----------------------------
(***************************************************************************)
(* A process that reads, two that write, and one data record.  The fields  *)
(* state and key are treated alike, so that one of them is enough.         *)
(***************************************************************************)
EXTENDS IpcStore, TLC

CONSTANTS p1, p2, p3

DataFields == <<"size", "value", "key">>
One == {p1}
LastTwo == {p2, p3}
Three == {p1, p2, p3}
Symmetry == Permutations(LastTwo)
=============================================================================
