----------------------------- MODULE MCDispatch -----------------------------
(***************************************************************************)
(* Dispatch with one notification of each kind that differs: an ordinary   *)
(* one and a PRE_BEGIN_REQUEST.  (A SEND_RESPONSE is treated in all        *)
(* respects like a BEGIN_REQUEST.)                                         *)
(***************************************************************************)
EXTENDS Dispatch, TLC

CONSTANTS r1, r2

MCRequests == {r1, r2}
MCTypeOf == (r1 :> "BEGIN_REQUEST") @@ (r2 :> "PRE_BEGIN_REQUEST")
=============================================================================
