----------------------------- MODULE MCIpcLock ------------------------------
(***************************************************************************)
(* IpcLock on small instances: worker processes of which some only read,   *)
(* some only write and one does both.  Two permits stand for the 24: the   *)
(* cases that matter are none, some and all of them left.                  *)
(***************************************************************************)
EXTENDS IpcLock

CONSTANTS p1, p2, p3

Nobody == {}
Two == {p1, p2}
LastTwo == {p2, p3}
Three == {p1, p2, p3}
=============================================================================
