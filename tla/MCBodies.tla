------------------------------ MODULE MCBodies ------------------------------
(***************************************************************************)
(* The body of a request and the body of its response.  The two share no   *)
(* variable, so a behaviour takes up one of them, and the other stays as   *)
(* it was in the beginning: what they do in turn adds nothing to what      *)
(* either does.                                                            *)
(*                                                                         *)
(* The request: every body of up to five bytes, read at most two bytes at  *)
(* a time.  The response: chunks of at most three bytes and bodies of up   *)
(* to seven: empty, shorter than a chunk, multiples of it, and one off.    *)
(***************************************************************************)
EXTENDS RequestRead, ResponseBody

ShortBodies == UNION {[1..n -> Byte] : n \in 0..5}

VARIABLE side   \* the body that the behaviour is about

(* Most requests that are answered with a body have none themselves. *)
BodiesInit == /\ RequestInit /\ BodyInit
              /\ side \in {"request", "response"}
              /\ side = "response" => body = <<>>

ReadRequest == /\ side = "request"
               /\ RequestNext
               /\ UNCHANGED <<vars, bodyVars, side>>

WriteResponse == /\ side = "response"
                 /\ BodyNext
                 /\ UNCHANGED <<requestVars, side>>

BodiesNext == ReadRequest \/ WriteResponse

BodiesSpec == BodiesInit /\ [][BodiesNext]_<<requestVars, vars, bodyVars, side>>
=============================================================================
