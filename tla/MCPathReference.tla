-------------------------- MODULE MCPathReference ---------------------------
(***************************************************************************)
(* Every name of up to five segments, each "", ".", ".." or one of two     *)
(* other names, with slashes; and the shorter ones with backslashes too.   *)
(***************************************************************************)
EXTENDS PathReference

TwoNames == {"a", "b"}

Special(names) == names \cup {"", ".", ".."}
Parts(seps, names) == [sep : seps, segment : Special(names)]
Inputs(names, n, seps) ==
    [first : Special(names), rest : UNION {[1..k -> Parts(seps, names)] : k \in 0..n}]

LongInputs == Inputs(TwoNames, 4, {"/"}) \cup Inputs(TwoNames, 1, {"/", "\\"})
=============================================================================
