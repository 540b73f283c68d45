--------------------------- MODULE PathNormalize ----------------------------
(***************************************************************************)
(* get_relative_file_path (v8_wrapper.cpp): the name a script gives to a   *)
(* function of fs becomes a path below the script's directory.             *)
(* Backslashes are replaced by slashes and dot segments removed by the     *)
(* loop of RFC 3986, 5.2.4, before the directory is put in front.  Results *)
(* are kept in cached_paths under the name as it was given.                *)
(*                                                                         *)
(* A string is the sequence of its segments, the parts between slashes:    *)
(* "/a//b" is <<"", "a", "", "b">> and the empty string is <<"">>.  Since  *)
(* every rule of the loop works on whole segments, segments other than     *)
(* "", "." and ".." are any names.                                         *)
(***************************************************************************)
EXTENDS Naturals, Sequences

CONSTANTS Names,       \* segments that are not special
          RawInputs,   \* the names given to the functions of fs, as segments with
                       \* the slash or backslash before each: see Raw
          MaxMisses,   \* bounds: how many names are resolved,
          MaxLookups   \* and how many calls are made

Segments == Names \cup {"", ".", ".."}
Dots == {".", ".."}
Empty == <<"">>

(* A name as given: its first segment, and the others with the character   *)
(* that separates each from the one before.                                *)
Raw == [first : Segments, rest : Seq([sep : {"/", "\\"}, segment : Segments])]

ASSUME PathAssumption ==
    /\ Names \cap {"", ".", ".."} = {}
    /\ RawInputs \subseteq Raw
    /\ MaxMisses \in Nat /\ MaxLookups \in Nat

VARIABLES pc,            \* "idle" or "loop"
          raw_input,     \* the argument
          input, output, \* the buffers of the loop
          cached_paths,  \* a partial function from raw names to paths
          returned,      \* the latest <<name, path>> returned
          misses, lookups

vars == <<pc, raw_input, input, output, cached_paths, returned, misses, lookups>>

Nothing == <<>>

Init == /\ pc = "idle"
        /\ raw_input = Nothing
        /\ input = Empty /\ output = Empty
        /\ cached_paths = [r \in {} |-> Empty]
        /\ returned = Nothing
        /\ misses = 0 /\ lookups = 0

-----------------------------------------------------------------------------
(* The loop that replaces backslashes. *)
Slashes(raw) == <<raw.first>> \o [i \in DOMAIN raw.rest |-> raw.rest[i].segment]

(* "/" followed by the segments after the first n. *)
FromSlash(s, n) == <<"">> \o SubSeq(s, n + 1, Len(s))

(* Rule A: a prefix "../" or "./" is dropped. *)
RuleA(s) == Len(s) > 1 /\ s[1] \in Dots

(* Rule B: "/./" or the whole of "/." *)
RuleB(s) == Len(s) > 1 /\ s[1] = "" /\ s[2] = "."

(* Rule C: "/../" or the whole of "/.." *)
RuleC(s) == Len(s) > 1 /\ s[1] = "" /\ s[2] = ".."

(* Rule D: the whole of "." or ".." *)
RuleD(s) == Len(s) = 1 /\ s[1] \in Dots

(* After rules B and C: the prefix has become "/". *)
SlashRest(s) == IF Len(s) = 2 THEN <<"", "">> ELSE FromSlash(s, 2)

(* The last "/" of the output and what follows is removed, if there is a   *)
(* "/"; otherwise the output stays.                                        *)
CutLast(s) == IF Len(s) > 1 THEN SubSeq(s, 1, Len(s) - 1) ELSE s

(* Rule E moves the first segment, with the slash before it if there is    *)
(* one: how many elements that is, what it adds to the output (appending a *)
(* string without a slash extends the last segment, which is empty then).  *)
Moved(s) == IF s[1] = "" /\ Len(s) > 1 THEN 2 ELSE 1

AddFirst(o, s) == IF Moved(s) = 2 THEN Append(o, s[2])
                  ELSE IF o = Empty THEN <<s[1]>> ELSE o

RestAfter(s) == IF Len(s) = Moved(s) THEN Empty ELSE FromSlash(s, Moved(s))

-----------------------------------------------------------------------------
(* A name that is in the cache. *)
Hit(raw) ==
    /\ pc = "idle" /\ lookups < MaxLookups
    /\ raw \in DOMAIN cached_paths
    /\ lookups' = lookups + 1
    /\ returned' = <<raw, cached_paths[raw]>>
    /\ UNCHANGED <<pc, raw_input, input, output, cached_paths, misses>>

(* One that is not: the loop begins. *)
Miss(raw) ==
    /\ pc = "idle" /\ lookups < MaxLookups
    /\ raw \notin DOMAIN cached_paths
    /\ misses < MaxMisses
    /\ misses' = misses + 1
    /\ lookups' = lookups + 1
    /\ pc' = "loop"
    /\ raw_input' = raw
    /\ input' = Slashes(raw)
    /\ output' = Empty
    /\ UNCHANGED <<cached_paths, returned>>

DropPrefix ==
    /\ pc = "loop" /\ RuleA(input)
    /\ input' = Tail(input)
    /\ UNCHANGED <<pc, raw_input, output, cached_paths, returned, misses, lookups>>

(* Seeded defect: the whole of "/." is replaced by itself. *)
DropDotInsideOnly ==
    /\ pc = "loop" /\ RuleB(input)
    /\ input' = IF Len(input) > 2 THEN SlashRest(input) ELSE input
    /\ UNCHANGED <<pc, raw_input, output, cached_paths, returned, misses, lookups>>

DropDot ==
    /\ pc = "loop" /\ RuleB(input)
    /\ input' = SlashRest(input)
    /\ UNCHANGED <<pc, raw_input, output, cached_paths, returned, misses, lookups>>

(* Seeded defect: "/.." as the whole input is not treated like "/../". *)
GoUpInsideOnly ==
    /\ pc = "loop" /\ RuleC(input)
    /\ input' = SlashRest(input)
    /\ output' = IF Len(input) > 2 THEN CutLast(output) ELSE output
    /\ UNCHANGED <<pc, raw_input, cached_paths, returned, misses, lookups>>

GoUp ==
    /\ pc = "loop" /\ RuleC(input)
    /\ input' = SlashRest(input)
    /\ output' = CutLast(output)
    /\ UNCHANGED <<pc, raw_input, cached_paths, returned, misses, lookups>>

(* Seeded defect: only "." is recognised, not "..". *)
DropOneDot ==
    /\ pc = "loop" /\ RuleD(input)
    /\ input' = Empty
    /\ output' = IF input[1] = "." THEN output ELSE AddFirst(output, input)
    /\ UNCHANGED <<pc, raw_input, cached_paths, returned, misses, lookups>>

DropDots ==
    /\ pc = "loop" /\ RuleD(input)
    /\ input' = Empty
    /\ UNCHANGED <<pc, raw_input, output, cached_paths, returned, misses, lookups>>

MoveSegment ==
    /\ pc = "loop" /\ input # Empty
    /\ ~RuleA(input) /\ ~RuleB(input) /\ ~RuleC(input) /\ ~RuleD(input)
    /\ output' = AddFirst(output, input)
    /\ input' = RestAfter(input)
    /\ UNCHANGED <<pc, raw_input, cached_paths, returned, misses, lookups>>

(* The input is used up: the path is cached and returned. *)
Return ==
    /\ pc = "loop" /\ input = Empty
    /\ pc' = "idle"
    /\ cached_paths' = [r \in DOMAIN cached_paths \cup {raw_input} |->
                          IF r = raw_input THEN output ELSE cached_paths[r]]
    /\ returned' = <<raw_input, output>>
    /\ UNCHANGED <<raw_input, input, output, misses, lookups>>

Loop == DropPrefix \/ DropDot \/ GoUp \/ DropDots \/ MoveSegment \/ Return

(* No more calls, or no more within the bounds. *)
Done == pc = "idle" /\ (lookups = MaxLookups \/ misses = MaxMisses) /\ UNCHANGED vars

Next == (\E raw \in RawInputs : Hit(raw) \/ Miss(raw)) \/ Loop \/ Done

Spec == Init /\ [][Next]_vars

(* The loop is sequential code. *)
FairSpec == Spec /\ WF_vars(Loop)

-----------------------------------------------------------------------------
Strings == Seq(Segments) \ {<<>>}

(* The variables keep to their ranges. *)
TypeOK == /\ pc \in {"idle", "loop"}
          /\ raw_input \in RawInputs \cup {Nothing}
          /\ input \in Strings /\ output \in Strings
          /\ DOMAIN cached_paths \subseteq RawInputs
          /\ \A r \in DOMAIN cached_paths : cached_paths[r] \in Strings
          /\ returned \in {Nothing} \cup (RawInputs \X Strings)
          /\ misses \in 0..MaxMisses /\ lookups \in 0..MaxLookups

HasDots(s) == \E i \in DOMAIN s : s[i] \in Dots

(* No path that is returned or cached has a "." or ".." left in it, however *)
(* the rules of the loop met: the directory that is put in front of it     *)
(* stays in front.                                                         *)
NoDotSegments ==
    /\ \A r \in DOMAIN cached_paths : ~HasDots(cached_paths[r])
    /\ returned # Nothing => ~HasDots(returned[2])

(* Once something has been moved to the output, the input is used up or    *)
(* begins with a slash: moving a segment never glues it to the one before. *)
SlashBetween == pc = "loop" /\ output # Empty => input[1] = ""

(* The loop ends, for every name. *)
EveryNameResolves == pc = "loop" ~> pc = "idle"
=============================================================================
