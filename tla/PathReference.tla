--------------------------- MODULE PathReference ----------------------------
(***************************************************************************)
(* What a name means, against which PathNormalize is checked: a walk along *)
(* the segments, one by one, from the first.  "." stays, ".." goes back by *)
(* one and anything else goes forward.                                     *)
(***************************************************************************)
EXTENDS PathNormalize

(* From the only segment so far ".." goes back to where there is nothing   *)
(* yet, as rule C is worded: "remove the last segment and its preceding    *)
(* "/" (if any)" (v8_wrapper.cpp:217).                                     *)
Walk(path, segment) ==
    IF segment = "." THEN path
    ELSE IF segment # ".." THEN Append(path, segment)
    ELSE IF Len(path) = 1 THEN Empty ELSE SubSeq(path, 1, Len(path) - 1)

(* Where it is after each of the segments of s. *)
Walked(s) ==
    LET at[k \in 1..Len(s)] == IF k = 1 THEN <<s[1]>> ELSE Walk(at[k - 1], s[k])
    IN  at

(* s without the dot segments at its beginning. *)
WithoutLeadingDots(s) ==
    LET rest == {i \in DOMAIN s : s[i] \notin Dots}
    IN  IF rest = {} THEN Empty
        ELSE SubSeq(s, CHOOSE i \in rest : \A k \in rest : i <= k, Len(s))

(* Where a name leads; one that ends with a dot segment names a directory, *)
(* and ends with a slash then.                                             *)
Meaning(s) ==
    LET end == Walked(s)[Len(s)]
    IN  IF s[Len(s)] \in Dots THEN Append(end, "") ELSE end

Stripped(raw) == WithoutLeadingDots(Slashes(raw))

Expected(raw) == Meaning(Stripped(raw))

(* Along s the walk goes back over a segment with no slash before it, the  *)
(* first of a name that does not begin with one.                           *)
BacksOverFirst(s) ==
    \E k \in 2..Len(s) : LET path == Walked(s)[k - 1]
                         IN  s[k] = ".." /\ Len(path) = 1 /\ path # Empty

(* Every path that is returned, from the loop or from the cache, is where  *)
(* walking along the name leads, whichever rules of the loop it took, if   *)
(* the walk does not go back over the first segment: the code keeps that.  *)
LeadsToNamedFile ==
    returned # Nothing /\ ~BacksOverFirst(Stripped(returned[1]))
        => returned[2] = Expected(returned[1])

(* The same of every name: the loop is the one of RFC 3986, 5.2.4, as its  *)
(* comments have it (v8_wrapper.cpp:181).                                  *)
FollowsRFC3986 == returned # Nothing => returned[2] = Expected(returned[1])
=============================================================================
