------------------------------ MODULE FsProofs ------------------------------
(***************************************************************************)
(* What TLAPS proves of the functions of fs.  Of get_relative_file_path,   *)
(* for names of every length: no path has a dot segment left, a path is    *)
(* where the walk along the segments of its name leads unless that goes    *)
(* back over the first segment, and every round of the loop makes its      *)
(* input smaller.  Of write, read, copy and delete, for any number of      *)
(* processes, files, blocks and calls: a file on which no two calls have   *)
(* met holds what the calls on it amount to, and a read of it returns      *)
(* that.                                                                   *)
(***************************************************************************)
EXTENDS PathReference, FileStore, SequenceTheorems, WellFoundedInduction, TLAPS

(* The output has no dot segments at any point of the loop. *)
OutputClean == ~HasDots(output)

(* The loop works on a name that was given. *)
LoopHasName == pc = "loop" => raw_input \in RawInputs

PathInv == TypeOK /\ OutputClean /\ NoDotSegments /\ SlashBetween /\ LoopHasName

-----------------------------------------------------------------------------
(* A string is a sequence of one or more segments. *)
LEMMA StringFacts ==
    ASSUME NEW s \in Strings
    PROVE  /\ s \in Seq(Segments) /\ s # <<>>
           /\ Len(s) \in Nat /\ Len(s) > 0 /\ DOMAIN s = 1..Len(s)
           /\ \A i \in 1..Len(s) : s[i] \in Segments
<1>1. s \in Seq(Segments) /\ s # <<>>
  BY DEF Strings
<1> QED
  BY <1>1, EmptySeq, LenProperties, ElementOfSeq

(* A sequence of at least one segment is a string. *)
LEMMA SegmentsMakeString ==
    ASSUME NEW s \in Seq(Segments), Len(s) \in Nat \ {0}
    PROVE  s \in Strings
  BY EmptySeq DEF Strings

(* A string of one segment, and one of two. *)
LEMMA ShortSeqs ==
    ASSUME NEW S, NEW x \in S, NEW y \in S
    PROVE  /\ <<x>> \in Seq(S) /\ Len(<<x>>) = 1 /\ <<x>>[1] = x
           /\ <<x, y>> \in Seq(S) /\ Len(<<x, y>>) = 2 /\ <<x, y>>[1] = x
  OBVIOUS

(* The same, as strings. *)
LEMMA ShortStrings ==
    ASSUME NEW x \in Segments, NEW y \in Segments
    PROVE  /\ <<x>> \in Strings /\ Len(<<x>>) = 1 /\ <<x>>[1] = x
           /\ <<x, y>> \in Strings /\ Len(<<x, y>>) = 2 /\ <<x, y>>[1] = x
<1> DEFINE s == <<x>>
           t == <<x, y>>
<1>1. s \in Seq(Segments) /\ Len(s) = 1
  BY ShortSeqs
<1>2. t \in Seq(Segments) /\ Len(t) = 2
  BY ShortSeqs
<1> HIDE DEF s, t
<1>3. s \in Strings
  BY <1>1, SegmentsMakeString
<1>4. t \in Strings
  BY <1>2, SegmentsMakeString
<1> QED
  BY <1>3, <1>4, ShortSeqs DEF s, t

(* The pieces that the rules of the loop make of a string. *)
LEMMA FromSlashFacts ==
    ASSUME NEW s \in Strings, NEW n \in 1..Len(s)
    PROVE  FromSlash(s, n) \in Strings /\ FromSlash(s, n)[1] = ""
<1> DEFINE u == <<"">>
           v == SubSeq(s, n + 1, Len(s))
<1>1. "" \in Segments
  BY DEF Segments
<1>2. u \in Seq(Segments) /\ Len(u) = 1 /\ u[1] = ""
  BY <1>1, ShortSeqs
<1>3. v \in Seq(Segments) /\ Len(v) \in Nat
  <2>1. n + 1 \in Int /\ Len(s) \in Int /\ \A i \in (n + 1)..Len(s) : s[i] \in Segments
    BY StringFacts
  <2>2. v \in Seq(Segments)
    BY <2>1, SubSeqProperties
  <2> QED
    BY <2>2, LenProperties
<1> HIDE DEF u, v
<1>4. u \o v \in Seq(Segments) /\ Len(u \o v) \in Nat \ {0}
  <2>1. Len(u) = 1
    BY <1>2
  <2>2. u \o v \in Seq(Segments) /\ Len(u \o v) = Len(u) + Len(v)
    BY <1>2, <1>3, ConcatProperties
  <2> QED
    BY <2>1, <2>2, <1>3
<1>6. (u \o v)[1] = u[1]
  <2>1. Len(u) = 1
    BY <1>2
  <2>2. \A i \in 1..(Len(u) + Len(v)) : (u \o v)[i] = IF i <= Len(u) THEN u[i] ELSE v[i - Len(u)]
    BY <1>2, <1>3, ConcatProperties
  <2> QED
    BY <2>1, <2>2, <1>3
<1>5. u \o v \in Strings
  BY <1>4, SegmentsMakeString
<1> QED
  BY <1>2, <1>5, <1>6 DEF FromSlash, u, v

(* What the rules leave of the input is a string; most begin with a slash. *)
LEMMA RestFacts ==
    ASSUME NEW s \in Strings
    PROVE  /\ Len(s) > 1 => SlashRest(s) \in Strings /\ SlashRest(s)[1] = ""
           /\ Len(s) > 1 => Tail(s) \in Strings
           /\ RestAfter(s) \in Strings /\ RestAfter(s)[1] = ""
           /\ Empty \in Strings /\ Len(Empty) = 1 /\ Empty[1] = ""
<1>1. "" \in Segments
  BY DEF Segments
<1>2. Empty \in Strings /\ Len(Empty) = 1 /\ Empty[1] = ""
  BY <1>1, ShortStrings DEF Empty
<1>3. Len(s) \in Nat /\ Len(s) > 0
  BY StringFacts
<1>4. ASSUME Len(s) > 1 PROVE SlashRest(s) \in Strings /\ SlashRest(s)[1] = ""
  <2>1. CASE Len(s) = 2
    BY <2>1, <1>1, ShortStrings DEF SlashRest
  <2>2. CASE Len(s) # 2
    <3>1. 2 \in 1..Len(s)
      BY <1>3, <1>4
    <3> QED
      BY <2>2, <3>1, FromSlashFacts DEF SlashRest
  <2> QED
    BY <2>1, <2>2
<1>5. ASSUME Len(s) > 1 PROVE Tail(s) \in Strings
  <2>1. s \in Seq(Segments) /\ s # <<>>
    BY StringFacts
  <2>2. Tail(s) \in Seq(Segments) /\ Len(Tail(s)) = Len(s) - 1
    BY <2>1, HeadTailProperties
  <2>3. Len(Tail(s)) \in Nat \ {0}
    BY <1>3, <1>5, <2>2
  <2> QED
    BY <2>2, <2>3, SegmentsMakeString
<1>6. RestAfter(s) \in Strings /\ RestAfter(s)[1] = ""
  <2>1. Moved(s) \in 1..Len(s)
    <3>1. CASE s[1] = "" /\ Len(s) > 1
      <4>1. Moved(s) = 2
        BY <3>1, Zenon DEF Moved
      <4>2. Len(s) > 1
        BY <3>1
      <4> QED
        BY <1>3, <4>1, <4>2
    <3>2. CASE ~(s[1] = "" /\ Len(s) > 1)
      <4>1. Moved(s) = 1
        BY <3>2, Zenon DEF Moved
      <4> QED
        BY <1>3, <4>1
    <3> QED
      BY <3>1, <3>2
  <2>2. CASE Len(s) = Moved(s)
    BY <2>2, <1>2 DEF RestAfter
  <2>3. CASE Len(s) # Moved(s)
    BY <2>1, <2>3, FromSlashFacts DEF RestAfter
  <2> QED
    BY <2>2, <2>3
<1> QED
  BY <1>2, <1>4, <1>5, <1>6

(* A name with its backslashes replaced is a string. *)
LEMMA SlashesFacts ==
    ASSUME NEW raw \in Raw
    PROVE  Slashes(raw) \in Strings
<1> DEFINE u == <<raw.first>>
           v == [i \in DOMAIN raw.rest |-> raw.rest[i].segment]
           R == [sep : {"/", "\\"}, segment : Segments]
<1>1. raw.first \in Segments /\ raw.rest \in Seq(R)
  BY DEF Raw
<1>2. u \in Seq(Segments) /\ Len(u) = 1
  BY <1>1, ShortSeqs
<1>3. v \in Seq(Segments)
  <2>1. Len(raw.rest) \in Nat /\ DOMAIN raw.rest = 1..Len(raw.rest)
    BY <1>1, LenProperties
  <2>2. \A i \in DOMAIN raw.rest : raw.rest[i].segment \in Segments
    <3>1. ASSUME NEW i \in 1..Len(raw.rest) PROVE raw.rest[i] \in R
      BY <1>1, ElementOfSeq
    <3>2. \A r \in R : r.segment \in Segments
      OBVIOUS
    <3> HIDE DEF R
    <3> QED
      BY <2>1, <3>1, <3>2
  <2>3. v \in [1..Len(raw.rest) -> Segments]
    BY <2>1, <2>2
  <2> HIDE DEF v
  <2> QED
    BY <2>1, <2>3, SeqDef
<1> HIDE DEF u, v
<1>4. u \o v \in Seq(Segments) /\ Len(u \o v) = Len(u) + Len(v) /\ Len(v) \in Nat
  BY <1>2, <1>3, ConcatProperties, LenProperties
<1>5. Len(u \o v) \in Nat \ {0}
  BY <1>2, <1>4
<1>6. u \o v \in Strings
  BY <1>4, <1>5, SegmentsMakeString
<1> QED
  BY <1>6 DEF Slashes, u, v

(* Cutting the last segment off leaves a string, and adds no dots. *)
LEMMA CutFacts ==
    ASSUME NEW o \in Strings
    PROVE  CutLast(o) \in Strings /\ (HasDots(CutLast(o)) => HasDots(o))
<1>1. Len(o) \in Nat /\ DOMAIN o = 1..Len(o) /\ \A i \in 1..Len(o) : o[i] \in Segments
  BY StringFacts
<1>2. CASE Len(o) > 1
  <2> DEFINE t == SubSeq(o, 1, Len(o) - 1)
  <2>1. 1 \in Int /\ Len(o) - 1 \in Int /\ \A i \in 1..(Len(o) - 1) : o[i] \in Segments
    BY <1>1
  <2>2. /\ t \in Seq(Segments)
        /\ Len(t) = IF 1 <= Len(o) - 1 THEN Len(o) - 1 - 1 + 1 ELSE 0
        /\ \A i \in 1..(Len(o) - 1 - 1 + 1) : t[i] = o[1 + i - 1]
    BY <2>1, SubSeqProperties
  <2> HIDE DEF t
  <2>3. Len(t) = Len(o) - 1 /\ Len(t) \in Nat \ {0}
    <3>1. Len(o) \in Nat
      BY <1>1
    <3>2. Len(t) = IF 1 <= Len(o) - 1 THEN Len(o) - 1 - 1 + 1 ELSE 0
      BY <2>2
    <3>3. \A n \in Nat : n > 1 => /\ (IF 1 <= n - 1 THEN n - 1 - 1 + 1 ELSE 0) = n - 1
                                   /\ n - 1 \in Nat \ {0}
      OBVIOUS
    <3> QED
      BY <3>1, <3>2, <3>3, <1>2, Zenon
  <2>4. t \in Strings
    BY <2>2, <2>3, SegmentsMakeString
  <2>5. ASSUME NEW i \in DOMAIN t PROVE i \in DOMAIN o /\ t[i] = o[i]
    <3>1. DOMAIN t = 1..Len(t)
      BY <2>2, LenProperties
    <3>2. i \in 1..(Len(o) - 1)
      BY <3>1, <2>3
    <3>3. /\ i \in 1..Len(o) /\ i \in 1..(Len(o) - 1 - 1 + 1) /\ 1 + i - 1 = i
      <4>1. Len(o) \in Nat
        BY <1>1
      <4> QED
        BY <4>1, <3>2
    <3>4. t[i] = o[1 + i - 1]
      BY <2>2, <3>3
    <3> QED
      BY <1>1, <3>3, <3>4
  <2>6. CutLast(o) = t
    BY <1>2 DEF CutLast, t
  <2> QED
    BY <2>4, <2>5, <2>6 DEF HasDots
<1>3. CASE ~(Len(o) > 1)
  BY <1>3 DEF CutLast
<1> QED
  BY <1>2, <1>3

(* A segment that no rule removes is not a dot segment: adding it to the   *)
(* output adds no dots.                                                    *)
LEMMA AddFacts ==
    ASSUME NEW o \in Strings, NEW s \in Strings,
           ~RuleA(s), ~RuleB(s), ~RuleC(s), ~RuleD(s)
    PROVE  AddFirst(o, s) \in Strings /\ (HasDots(AddFirst(o, s)) => HasDots(o))
<1>1. /\ Len(s) \in Nat /\ Len(s) > 0 /\ \A i \in 1..Len(s) : s[i] \in Segments
      /\ o \in Seq(Segments) /\ Len(o) \in Nat /\ DOMAIN o = 1..Len(o)
  BY StringFacts
<1>2. CASE s[1] = "" /\ Len(s) > 1
  <2>0. Len(s) > 1
    BY <1>2
  <2>1. Moved(s) = 2
    BY <1>2, Zenon DEF Moved
  <2>2. s[2] \in Segments
    <3>1. 2 \in 1..Len(s)
      BY <1>1, <2>0
    <3> QED
      BY <1>1, <3>1
  <2>3. s[2] \notin Dots
    BY <1>2, Zenon DEF RuleB, RuleC, Dots
  <2> DEFINE x == s[2]
             t == Append(o, x)
  <2>4. /\ t \in Seq(Segments) /\ Len(t) = Len(o) + 1
        /\ \A i \in 1..Len(o) : t[i] = o[i]
        /\ t[Len(o) + 1] = x
    BY <1>1, <2>2, AppendProperties
  <2>5. AddFirst(o, s) = t
    BY <2>1 DEF AddFirst
  <2> HIDE DEF t, x
  <2>6. t \in Strings
    <3>1. Len(t) \in Nat \ {0}
      BY <1>1, <2>4
    <3> QED
      BY <2>4, <3>1, SegmentsMakeString
  <2>7. ASSUME NEW i \in DOMAIN t, t[i] \in Dots PROVE i \in DOMAIN o /\ o[i] \in Dots
    <3>1. DOMAIN t = 1..Len(t)
      BY <2>4, LenProperties
    <3>2. i \in 1..Len(o) \/ i = Len(o) + 1
      BY <1>1, <2>4, <3>1
    <3>3. i # Len(o) + 1
      BY <2>3, <2>4, <2>7 DEF x
    <3> QED
      BY <1>1, <2>4, <2>7, <3>2, <3>3
  <2> QED
    BY <2>5, <2>6, <2>7 DEF HasDots
<1>3. CASE ~(s[1] = "" /\ Len(s) > 1)
  <2>1. Moved(s) = 1
    BY <1>3, Zenon DEF Moved
  <2>2. s[1] \in Segments
    <3>1. 1 \in 1..Len(s)
      BY <1>1
    <3> QED
      BY <1>1, <3>1
  <2>3. s[1] \notin Dots
    <3>1. Len(s) = 1 \/ Len(s) > 1
      <4>1. Len(s) \in Nat /\ Len(s) > 0
        BY <1>1
      <4>2. \A n \in Nat : n > 0 => n = 1 \/ n > 1
        OBVIOUS
      <4> QED
        BY <4>1, <4>2, Zenon
    <3> QED
      BY <3>1, Zenon DEF RuleA, RuleD
  <2> DEFINE x == s[1]
  <2>4. x \in Segments /\ x \notin Dots
    BY <2>2, <2>3
  <2>5. AddFirst(o, s) = IF o = Empty THEN <<x>> ELSE o
    BY <2>1 DEF AddFirst
  <2> HIDE DEF x
  <2>6. <<x>> \in Strings
    BY <2>4, ShortStrings
  <2>7. ~HasDots(<<x>>)
    BY <2>4 DEF HasDots
  <2> QED
    BY <2>5, <2>6, <2>7
<1> QED
  BY <1>2, <1>3

-----------------------------------------------------------------------------
(* The empty string. *)
LEMMA EmptyFacts == Empty \in Strings /\ Empty[1] = "" /\ ~HasDots(Empty)
<1>1. "" \in Segments /\ "" \notin Dots
  BY DEF Segments, Dots
<1> DEFINE x == ""
<1>2. x \in Segments /\ x \notin Dots
  BY <1>1
<1> HIDE DEF x
<1>3. <<x>> \in Strings /\ <<x>>[1] = x
  BY <1>2, ShortStrings
<1>4. ~HasDots(<<x>>)
  BY <1>2 DEF HasDots
<1> QED
  BY <1>3, <1>4 DEF Empty, x

(* A result is a pair of a name and a path. *)
LEMMA PairFacts ==
    ASSUME NEW A, NEW B, NEW a \in A, NEW b \in B
    PROVE  <<a, b>> \in A \X B /\ <<a, b>>[2] = b
  OBVIOUS

(* The invariant holds before the first call. *)
LEMMA PathInitHolds == Init => PathInv
<1> SUFFICES ASSUME Init PROVE PathInv
  OBVIOUS
<1>1. misses \in 0..MaxMisses /\ lookups \in 0..MaxLookups
  <2>1. misses = 0 /\ lookups = 0 /\ MaxMisses \in Nat /\ MaxLookups \in Nat
    BY PathAssumption DEF Init
  <2> QED
    BY <2>1
<1>2. DOMAIN cached_paths = {}
  BY DEF Init
<1>3. TypeOK
  BY <1>1, <1>2, EmptyFacts, Zenon DEF Init, TypeOK
<1>4. OutputClean /\ NoDotSegments /\ SlashBetween /\ LoopHasName
  BY <1>2, EmptyFacts, Zenon DEF Init, OutputClean, NoDotSegments, SlashBetween, LoopHasName
<1> QED
  BY <1>3, <1>4 DEF PathInv

(* Looking a name up keeps it, found ... *)
LEMMA HitKeeps ==
    ASSUME PathInv, NEW raw \in RawInputs, Hit(raw)
    PROVE  PathInv'
<1>1. lookups' \in 0..MaxLookups
  <2>1. lookups \in 0..MaxLookups /\ lookups < MaxLookups /\ lookups' = lookups + 1
    BY Zenon DEF Hit, PathInv, TypeOK
  <2>2. MaxLookups \in Nat
    BY PathAssumption
  <2> QED
    BY <2>1, <2>2
<1>2. cached_paths[raw] \in Strings /\ ~HasDots(cached_paths[raw])
  BY Zenon DEF Hit, PathInv, TypeOK, NoDotSegments
<1>3. returned' \in RawInputs \X Strings /\ returned'[2] = cached_paths[raw]
  <2>1. returned' = <<raw, cached_paths[raw]>>
    BY DEF Hit
  <2> QED
    BY <1>2, <2>1, PairFacts
<1>4. UNCHANGED <<pc, raw_input, input, output, cached_paths, misses>>
  BY DEF Hit
<1>5. TypeOK'
  BY <1>1, <1>3, <1>4, Zenon DEF PathInv, TypeOK
<1>6. OutputClean' /\ SlashBetween' /\ LoopHasName'
  BY <1>4, Zenon DEF PathInv, OutputClean, SlashBetween, LoopHasName
<1>7. NoDotSegments'
  <2>1. ~HasDots(returned'[2])
    BY <1>2, <1>3
  <2> QED
    BY <1>4, <2>1, Zenon DEF PathInv, NoDotSegments
<1> QED
  BY <1>5, <1>6, <1>7 DEF PathInv

(* ... or not. *)
LEMMA MissKeeps ==
    ASSUME PathInv, NEW raw \in RawInputs, Miss(raw)
    PROVE  PathInv'
<1>1. lookups' \in 0..MaxLookups /\ misses' \in 0..MaxMisses
  <2>1. /\ lookups \in 0..MaxLookups /\ lookups < MaxLookups /\ lookups' = lookups + 1
        /\ misses \in 0..MaxMisses /\ misses < MaxMisses /\ misses' = misses + 1
    BY Zenon DEF Miss, PathInv, TypeOK
  <2>2. MaxLookups \in Nat /\ MaxMisses \in Nat
    BY PathAssumption
  <2> QED
    BY <2>1, <2>2
<1>2. Slashes(raw) \in Strings
  <2>1. raw \in Raw
    BY PathAssumption
  <2> QED
    BY <2>1, SlashesFacts
<1>3. /\ pc' = "loop" /\ raw_input' = raw /\ input' = Slashes(raw) /\ output' = Empty
      /\ UNCHANGED <<cached_paths, returned>>
  BY DEF Miss
<1>4. TypeOK'
  BY <1>1, <1>2, <1>3, EmptyFacts, Zenon DEF PathInv, TypeOK
<1>5. OutputClean' /\ SlashBetween' /\ NoDotSegments' /\ LoopHasName'
  BY <1>3, EmptyFacts, Zenon
     DEF PathInv, OutputClean, SlashBetween, NoDotSegments, LoopHasName
<1> QED
  BY <1>4, <1>5 DEF PathInv

(* What a round of the loop has to do to keep it. *)
LEMMA RoundKeeps ==
    ASSUME PathInv, pc = "loop",
           input' \in Strings, output' \in Strings,
           HasDots(output') => HasDots(output),
           output' = Empty \/ input'[1] = "",
           UNCHANGED <<pc, raw_input, cached_paths, returned, misses, lookups>>
    PROVE  PathInv'
<1>1. TypeOK'
  BY DEF PathInv, TypeOK
<1>2. OutputClean' /\ SlashBetween' /\ NoDotSegments' /\ LoopHasName'
  BY DEF PathInv, OutputClean, SlashBetween, NoDotSegments, LoopHasName
<1> QED
  BY <1>1, <1>2 DEF PathInv

(* The rounds do so: before a rule for a prefix without a slash applies,   *)
(* nothing has been moved to the output.                                   *)
LEMMA LoopKeeps ==
    ASSUME PathInv, Loop
    PROVE  PathInv'
<1>1. input \in Strings /\ output \in Strings /\ ~HasDots(output)
      /\ (pc = "loop" /\ output # Empty => input[1] = "")
  BY DEF PathInv, TypeOK, OutputClean, SlashBetween
<1>2. CASE DropPrefix
  <2>1. Tail(input) \in Strings
    BY <1>1, <1>2, RestFacts DEF DropPrefix, RuleA
  <2>2. output = Empty
    BY <1>1, <1>2, Zenon DEF DropPrefix, RuleA, Dots
  <2> QED
    BY <1>1, <1>2, <2>1, <2>2, RoundKeeps DEF DropPrefix
<1>3. CASE DropDot
  <2>1. SlashRest(input) \in Strings /\ SlashRest(input)[1] = ""
    BY <1>1, <1>3, RestFacts DEF DropDot, RuleB
  <2> QED
    BY <1>1, <1>3, <2>1, RoundKeeps DEF DropDot
<1>4. CASE GoUp
  <2>1. SlashRest(input) \in Strings /\ SlashRest(input)[1] = ""
    BY <1>1, <1>4, RestFacts DEF GoUp, RuleC
  <2>2. CutLast(output) \in Strings /\ (HasDots(CutLast(output)) => HasDots(output))
    BY <1>1, CutFacts
  <2> QED
    BY <1>1, <1>4, <2>1, <2>2, RoundKeeps DEF GoUp
<1>5. CASE DropDots
  <2>1. Empty \in Strings /\ Empty[1] = ""
    BY <1>1, RestFacts
  <2> QED
    BY <1>1, <1>5, <2>1, RoundKeeps DEF DropDots
<1>6. CASE MoveSegment
  <2>1. RestAfter(input) \in Strings /\ RestAfter(input)[1] = ""
    BY <1>1, RestFacts
  <2>2. /\ AddFirst(output, input) \in Strings
        /\ HasDots(AddFirst(output, input)) => HasDots(output)
    BY <1>1, <1>6, AddFacts DEF MoveSegment
  <2> QED
    BY <1>6, <2>1, <2>2, RoundKeeps DEF MoveSegment
<1>7. CASE Return
  <2>1. /\ raw_input \in RawInputs /\ pc' = "idle"
        /\ UNCHANGED <<raw_input, input, output, misses, lookups>>
        /\ returned' = <<raw_input, output>>
    BY <1>7, Zenon DEF Return, PathInv, LoopHasName
  <2>2. returned' \in RawInputs \X Strings /\ returned'[2] = output
    BY <1>1, <2>1, PairFacts
  <2>3. /\ DOMAIN cached_paths' = DOMAIN cached_paths \cup {raw_input}
        /\ \A r \in DOMAIN cached_paths' :
             cached_paths'[r] = IF r = raw_input THEN output ELSE cached_paths[r]
    BY <1>7 DEF Return
  <2>4. /\ DOMAIN cached_paths' \subseteq RawInputs
        /\ \A r \in DOMAIN cached_paths' : cached_paths'[r] \in Strings
                                           /\ ~HasDots(cached_paths'[r])
    <3>1. /\ DOMAIN cached_paths \subseteq RawInputs
          /\ \A r \in DOMAIN cached_paths : cached_paths[r] \in Strings
                                            /\ ~HasDots(cached_paths[r])
      BY DEF PathInv, TypeOK, NoDotSegments
    <3> QED
      BY <1>1, <2>1, <2>3, <3>1
  <2>5. TypeOK'
    BY <2>1, <2>2, <2>4, Zenon DEF PathInv, TypeOK
  <2>6. ~HasDots(returned'[2])
    BY <1>1, <2>2
  <2>7. OutputClean' /\ NoDotSegments' /\ SlashBetween' /\ LoopHasName'
    BY <2>1, <2>4, <2>6, Zenon
       DEF PathInv, OutputClean, NoDotSegments, SlashBetween, LoopHasName
  <2> QED
    BY <2>5, <2>7 DEF PathInv
<1> QED
  BY <1>2, <1>3, <1>4, <1>5, <1>6, <1>7 DEF Loop

(* Every step keeps the invariant. *)
LEMMA PathNextKeeps == PathInv /\ [Next]_vars => PathInv'
<1> SUFFICES ASSUME PathInv, [Next]_vars PROVE PathInv'
  OBVIOUS
<1>1. CASE UNCHANGED vars
  BY <1>1 DEF vars, PathInv, TypeOK, OutputClean, NoDotSegments, SlashBetween, LoopHasName
<1>2. CASE Next
  BY <1>1, <1>2, HitKeeps, MissKeeps, LoopKeeps DEF Next, Done
<1> QED
  BY <1>1, <1>2

(* The invariant holds throughout. *)
THEOREM PathInvariance == Spec => []PathInv
BY PathInitHolds, PathNextKeeps, PTL DEF Spec

(* The buffers of the loop are strings, and the cache holds paths. *)
THEOREM PathTypeOK == Spec => []TypeOK
<1>1. PathInv => TypeOK
  BY DEF PathInv
<1> QED
  BY <1>1, PathInvariance, PTL

(* Whatever name a script gives, of whatever length, the path that is      *)
(* returned or cached has no "." or ".." left in it.                       *)
THEOREM PathNoDotSegments == Spec => []NoDotSegments
<1>1. PathInv => NoDotSegments
  BY DEF PathInv
<1> QED
  BY <1>1, PathInvariance, PTL

(* Once something has been moved to the output, the input is used up or    *)
(* begins with a slash, so that segments are never glued together.         *)
THEOREM PathSlashBetween == Spec => []SlashBetween
<1>1. PathInv => SlashBetween
  BY DEF PathInv
<1> QED
  BY <1>1, PathInvariance, PTL
-----------------------------------------------------------------------------
(* A set of natural numbers has a least element. *)
LEMMA LeastElement ==
    ASSUME NEW T, T \subseteq Nat, T # {}
    PROVE  \E x \in T : \A y \in T : ~(y < x)
<1>1. \E x \in T : \A y \in T : <<y, x>> \notin OpToRel(<, Nat)
  BY NatLessThanWellFounded, WFMin, Zenon
<1>2. \A x, y \in Nat : y < x => <<y, x>> \in OpToRel(<, Nat)
  BY DEF OpToRel
<1> QED
  BY <1>1, <1>2, Zenon

(* A length is one or more than one. *)
LEMMA OneOrMore == \A n \in Nat : (n > 1 => n # 1) /\ (n > 0 => n = 1 \/ n > 1)
OBVIOUS

(* Where the loop leads for every name: the walk of PathReference, except  *)
(* that it stays at the first segment of a name without a slash in front.  *)
StayWalk(path, segment) ==
    IF segment = "." THEN path
    ELSE IF segment # ".." THEN Append(path, segment)
    ELSE IF Len(path) = 1 THEN path ELSE SubSeq(path, 1, Len(path) - 1)

Stayed(s) ==
    LET at[k \in 1..Len(s)] == IF k = 1 THEN <<s[1]>> ELSE StayWalk(at[k - 1], s[k])
    IN  at

StayMeaning(s) ==
    LET end == Stayed(s)[Len(s)]
    IN  IF s[Len(s)] \in Dots THEN Append(end, "") ELSE end

StayExpected(raw) == StayMeaning(Stripped(raw))

StayReturned == returned # Nothing => returned[2] = StayExpected(returned[1])

(* One of the two walks along s, as far as m. *)
Stride(stay, path, segment) == IF stay THEN StayWalk(path, segment) ELSE Walk(path, segment)

IsWalk(stay, s, w, m) ==
    w = [k \in 1..m |-> IF k = 1 THEN <<s[1]>> ELSE Stride(stay, w[k - 1], s[k])]

(* There is one for every length: the shortest without one would have one  *)
(* by going one step further than the one before.                          *)
LEMMA WalksExist ==
    ASSUME NEW stay, NEW s, NEW n \in Nat \ {0}
    PROVE  \E w : IsWalk(stay, s, w, n)
<1> DEFINE T == {m \in Nat \ {0} : ~ \E w : IsWalk(stay, s, w, m)}
<1> SUFFICES ASSUME T # {} PROVE FALSE
  OBVIOUS
<1>1. PICK x \in T : \A y \in T : ~(y < x)
  BY LeastElement
<1>2. x \in Nat \ {0} /\ ~ \E w : IsWalk(stay, s, w, x)
  BY <1>1
<1>3. CASE x = 1
  <2> DEFINE w == [k \in 1..1 |-> <<s[1]>>]
  <2>1. IsWalk(stay, s, w, 1)
    BY DEF IsWalk
  <2> QED
    BY <1>2, <1>3, <2>1
<1>4. CASE x # 1
  <2>1. x - 1 \in Nat \ {0} /\ x - 1 < x
    BY <1>2, <1>4
  <2>2. PICK v : IsWalk(stay, s, v, x - 1)
    BY <1>1, <2>1
  <2> DEFINE w == [k \in 1..x |-> IF k = 1 THEN <<s[1]>> ELSE Stride(stay, v[k - 1], s[k])]
  <2>3. ASSUME NEW k \in 1..(x - 1) PROVE v[k] = w[k]
    <3>1. k \in 1..x
      BY <1>2, <2>3
    <3>2. v[k] = IF k = 1 THEN <<s[1]>> ELSE Stride(stay, v[k - 1], s[k])
      BY <2>2, <2>3, Zenon DEF IsWalk
    <3>3. w[k] = IF k = 1 THEN <<s[1]>> ELSE Stride(stay, v[k - 1], s[k])
      BY <3>1, Zenon
    <3> QED
      BY <3>2, <3>3, Zenon
  <2>4. ASSUME NEW k \in 1..x
        PROVE  (IF k = 1 THEN <<s[1]>> ELSE Stride(stay, v[k - 1], s[k]))
                 = (IF k = 1 THEN <<s[1]>> ELSE Stride(stay, w[k - 1], s[k]))
    <3>1. CASE k = 1
      BY <3>1, Zenon
    <3>2. CASE k # 1
      <4>1. k - 1 \in 1..(x - 1)
        BY <1>2, <2>4, <3>2
      <4>2. v[k - 1] = w[k - 1]
        BY <2>3, <4>1
      <4> HIDE DEF w
      <4> QED
        BY <3>2, <4>2, Zenon
    <3> QED
      BY <3>1, <3>2
  <2> DEFINE u == [k \in 1..x |-> IF k = 1 THEN <<s[1]>> ELSE Stride(stay, w[k - 1], s[k])]
  <2>5. w = u
    BY <2>4, Zenon
  <2> HIDE DEF w
  <2>6. IsWalk(stay, s, w, x)
    BY <2>5, Zenon DEF IsWalk
  <2> QED
    BY <1>2, <2>6
<1> QED
  BY <1>3, <1>4

(* One step of the walk. *)
LEMMA StayWalkFacts ==
    ASSUME NEW path \in Strings, NEW segment \in Segments
    PROVE  /\ StayWalk(path, segment) \in Strings
           /\ segment = "." => StayWalk(path, segment) = path
           /\ segment = ".." => StayWalk(path, segment) = CutLast(path)
           /\ segment \notin Dots => StayWalk(path, segment) = Append(path, segment)
<1>1. path \in Seq(Segments) /\ Len(path) \in Nat /\ Len(path) > 0
  BY StringFacts
<1>2. CASE segment = "."
  BY <1>2 DEF StayWalk, Dots
<1>3. CASE segment = ".."
  <2>1. StayWalk(path, segment) = IF Len(path) = 1 THEN path ELSE SubSeq(path, 1, Len(path) - 1)
    BY <1>3 DEF StayWalk
  <2>2. Len(path) = 1 <=> ~(Len(path) > 1)
    BY <1>1, OneOrMore, Zenon
  <2>3. StayWalk(path, segment) = CutLast(path)
    BY <2>1, <2>2, Zenon DEF CutLast
  <2> QED
    BY <1>3, <2>3, CutFacts DEF Dots
<1>4. CASE segment # "." /\ segment # ".."
  <2>1. StayWalk(path, segment) = Append(path, segment)
    BY <1>4, Zenon DEF StayWalk
  <2>2. Append(path, segment) \in Seq(Segments) /\ Len(Append(path, segment)) = Len(path) + 1
    BY <1>1, AppendProperties
  <2>3. Len(Append(path, segment)) \in Nat \ {0}
    BY <1>1, <2>2
  <2>4. Append(path, segment) \in Strings
    BY <2>2, <2>3, SegmentsMakeString
  <2> QED
    BY <1>4, <2>1, <2>4, Zenon
<1> QED
  BY <1>2, <1>3, <1>4

(* The walk along a string: where it is after each segment. *)
LEMMA StayedFacts ==
    ASSUME NEW s \in Strings
    PROVE  /\ Stayed(s)[1] = <<s[1]>>
           /\ \A k \in 2..Len(s) : Stayed(s)[k] = StayWalk(Stayed(s)[k - 1], s[k])
           /\ \A k \in 1..Len(s) : Stayed(s)[k] \in Strings
<1> DEFINE n == Len(s)
           w == Stayed(s)
<1>1. n \in Nat \ {0} /\ \A i \in 1..n : s[i] \in Segments
  BY StringFacts
<1>2. w = [k \in 1..n |-> IF k = 1 THEN <<s[1]>> ELSE StayWalk(w[k - 1], s[k])]
  <2>1. \E v : v = [k \in 1..n |-> IF k = 1 THEN <<s[1]>> ELSE StayWalk(v[k - 1], s[k])]
    <3>1. PICK v : IsWalk(TRUE, s, v, n)
      BY <1>1, WalksExist
    <3> QED
      BY <3>1, Zenon DEF IsWalk, Stride
  <2>2. w = CHOOSE v : v = [k \in 1..n |-> IF k = 1 THEN <<s[1]>> ELSE StayWalk(v[k - 1], s[k])]
    BY DEF Stayed
  <2> QED
    BY <2>1, <2>2, Zenon
<1> HIDE DEF n, w
<1>3. \A k \in 1..n : w[k] = IF k = 1 THEN <<s[1]>> ELSE StayWalk(w[k - 1], s[k])
  BY <1>2, Zenon
<1>4. w[1] = <<s[1]>>
  <2>1. 1 \in 1..n
    BY <1>1
  <2> QED
    BY <1>3, <2>1, Zenon
<1>5. ASSUME NEW k \in 2..n PROVE w[k] = StayWalk(w[k - 1], s[k])
  <2>1. k \in 1..n /\ k # 1
    BY <1>1, <1>5
  <2> QED
    BY <1>3, <2>1, Zenon
<1>6. \A k \in 1..n : w[k] \in Strings
  <2> DEFINE T == {k \in 1..n : w[k] \notin Strings}
  <2> SUFFICES ASSUME T # {} PROVE FALSE
    OBVIOUS
  <2>1. PICK x \in T : \A y \in T : ~(y < x)
    <3>1. T \subseteq Nat
      BY <1>1
    <3> HIDE DEF T
    <3> QED
      BY <3>1, LeastElement
  <2>2. x \in 1..n /\ w[x] \notin Strings
    BY <2>1
  <2>3. x # 1
    <3>1. 1 \in 1..n
      BY <1>1
    <3>2. s[1] \in Segments
      BY <1>1, <3>1
    <3>3. <<s[1]>> \in Strings
      BY <3>2, ShortStrings
    <3> QED
      BY <1>4, <2>2, <3>3
  <2>4. x \in 2..n /\ x - 1 \in 1..n /\ x - 1 < x
    BY <1>1, <2>2, <2>3
  <2>5. w[x - 1] \in Strings
    BY <2>1, <2>4
  <2>6. w[x] = StayWalk(w[x - 1], s[x])
    BY <1>5, <2>4
  <2>7. s[x] \in Segments
    BY <1>1, <2>2
  <2> QED
    BY <2>2, <2>5, <2>6, <2>7, StayWalkFacts
<1> QED
  BY <1>4, <1>5, <1>6 DEF n, w

(* What is left of s behind segment k, with a slash before it. *)
LEMMA FromSlashElements ==
    ASSUME NEW s \in Strings, NEW k \in 1..Len(s)
    PROVE  /\ FromSlash(s, k) \in Strings
           /\ Len(FromSlash(s, k)) = Len(s) - k + 1
           /\ \A i \in 1..(Len(s) - k + 1) :
                FromSlash(s, k)[i] = IF i = 1 THEN "" ELSE s[k + i - 1]
<1> DEFINE u == <<"">>
           v == SubSeq(s, k + 1, Len(s))
<1>1. "" \in Segments
  BY DEF Segments
<1>2. u \in Seq(Segments) /\ Len(u) = 1 /\ u[1] = ""
  BY <1>1, ShortSeqs
<1>3. Len(s) \in Nat
  BY StringFacts
<1>4. k + 1 \in Int /\ Len(s) \in Int /\ \A i \in (k + 1)..Len(s) : s[i] \in Segments
  BY StringFacts
<1>5. /\ v \in Seq(Segments)
      /\ Len(v) = IF k + 1 <= Len(s) THEN Len(s) - (k + 1) + 1 ELSE 0
      /\ \A i \in 1..(Len(s) - (k + 1) + 1) : v[i] = s[k + 1 + i - 1]
  BY <1>4, SubSeqProperties
<1>6. FromSlash(s, k) \in Strings
  BY FromSlashFacts
<1>7. FromSlash(s, k) = u \o v
  BY DEF FromSlash
<1> HIDE DEF u, v
<1>8. /\ Len(u \o v) = Len(u) + Len(v)
      /\ \A i \in 1..(Len(u) + Len(v)) : (u \o v)[i] = IF i <= Len(u) THEN u[i] ELSE v[i - Len(u)]
  BY <1>2, <1>5, ConcatProperties
<1>9. Len(v) = Len(s) - k
  BY <1>3, <1>5
<1>10. Len(u) + Len(v) = Len(s) - k + 1
  <2>1. Len(u) = 1
    BY <1>2
  <2> QED
    BY <1>3, <1>9, <2>1
<1>11. ASSUME NEW i \in 1..(Len(s) - k + 1)
       PROVE  (u \o v)[i] = IF i = 1 THEN "" ELSE s[k + i - 1]
  <2>1. (u \o v)[i] = IF i <= Len(u) THEN u[i] ELSE v[i - Len(u)]
    BY <1>8, <1>10
  <2>2. Len(u) = 1
    BY <1>2
  <2>3. CASE i = 1
    <3>1. i <= Len(u)
      BY <2>2, <2>3
    <3> QED
      BY <2>1, <2>3, <3>1, <1>2, Zenon
  <2>4. CASE i # 1
    <3>1. ~(i <= Len(u)) /\ i - Len(u) \in 1..(Len(s) - (k + 1) + 1)
          /\ k + 1 + (i - Len(u)) - 1 = k + i - 1
      BY <1>3, <1>11, <2>2, <2>4
    <3>2. v[i - Len(u)] = s[k + 1 + (i - Len(u)) - 1]
      BY <1>5, <3>1
    <3> QED
      BY <2>1, <2>4, <3>1, <3>2, Zenon
  <2> QED
    BY <2>3, <2>4
<1> QED
  BY <1>6, <1>7, <1>8, <1>10, <1>11, Zenon

(* Strings with the same segments are the same. *)
LEMMA SameString ==
    ASSUME NEW s \in Strings, NEW t \in Strings,
           Len(s) = Len(t), \A i \in 1..Len(s) : s[i] = t[i]
    PROVE  s = t
<1>1. s \in Seq(Segments) /\ t \in Seq(Segments)
  BY DEF Strings
<1> QED
  BY <1>1, SeqEqual

(* The rest behind segment k + 1 is the rest of the rest behind k. *)
LEMMA FromSlashAgain ==
    ASSUME NEW s \in Strings, NEW k \in 1..Len(s), k < Len(s)
    PROVE  FromSlash(FromSlash(s, k), 2) = FromSlash(s, k + 1)
<1> DEFINE f == FromSlash(s, k)
           g == FromSlash(f, 2)
           h == FromSlash(s, k + 1)
<1>1. Len(s) \in Nat
  BY StringFacts
<1>2. k + 1 \in 1..Len(s)
  BY <1>1
<1>3. /\ f \in Strings /\ Len(f) = Len(s) - k + 1
      /\ \A i \in 1..(Len(s) - k + 1) : f[i] = IF i = 1 THEN "" ELSE s[k + i - 1]
  BY FromSlashElements
<1>4. /\ h \in Strings /\ Len(h) = Len(s) - (k + 1) + 1
      /\ \A i \in 1..(Len(s) - (k + 1) + 1) : h[i] = IF i = 1 THEN "" ELSE s[(k + 1) + i - 1]
  BY <1>2, FromSlashElements
<1> HIDE DEF f, h
<1>0. Len(f) = Len(s) - k + 1 /\ Len(h) = Len(s) - (k + 1) + 1
  BY <1>3, <1>4
<1>5. 2 \in 1..Len(f)
  BY <1>1, <1>0
<1>6. /\ g \in Strings /\ Len(g) = Len(f) - 2 + 1
      /\ \A i \in 1..(Len(f) - 2 + 1) : g[i] = IF i = 1 THEN "" ELSE f[2 + i - 1]
  BY <1>3, <1>5, FromSlashElements
<1> HIDE DEF g
<1>7. Len(g) = Len(s) - k /\ Len(h) = Len(s) - k
  <2>1. Len(g) = Len(f) - 2 + 1
    BY <1>6
  <2> QED
    BY <1>0, <1>1, <2>1
<1>8. ASSUME NEW i \in 1..(Len(s) - k) PROVE g[i] = h[i]
  <2>1. i \in 1..(Len(f) - 2 + 1) /\ i \in 1..(Len(s) - (k + 1) + 1)
    BY <1>0, <1>1, <1>8
  <2>2. g[i] = IF i = 1 THEN "" ELSE f[2 + i - 1]
    BY <1>6, <2>1
  <2>3. h[i] = IF i = 1 THEN "" ELSE s[(k + 1) + i - 1]
    BY <1>4, <2>1
  <2>4. ASSUME i # 1 PROVE f[2 + i - 1] = s[(k + 1) + i - 1]
    <3>1. 2 + i - 1 \in 1..(Len(s) - k + 1) /\ 2 + i - 1 # 1
          /\ k + (2 + i - 1) - 1 = (k + 1) + i - 1
      BY <1>1, <1>8
    <3>2. f[2 + i - 1] = IF 2 + i - 1 = 1 THEN "" ELSE s[k + (2 + i - 1) - 1]
      BY <1>3, <3>1
    <3> QED
      BY <3>1, <3>2, Zenon
  <2>5. CASE i = 1
    BY <2>2, <2>3, <2>5, Zenon
  <2>6. CASE i # 1
    <3>1. f[2 + i - 1] = s[(k + 1) + i - 1]
      BY <2>4, <2>6
    <3> QED
      BY <2>2, <2>3, <2>6, <3>1, Zenon
  <2> QED
    BY <2>5, <2>6
<1>9. g = h
  BY <1>4, <1>6, <1>7, <1>8, SameString
<1> QED
  BY <1>9 DEF f, g, h

(* A string that begins with a slash is what is left behind its first      *)
(* segment; behind the last one nothing is left.                           *)
LEMMA FromSlashEnds ==
    ASSUME NEW s \in Strings
    PROVE  /\ s[1] = "" => FromSlash(s, 1) = s
           /\ FromSlash(s, Len(s)) = Empty
           /\ \A k \in 1..Len(s) : FromSlash(s, k) = Empty => k = Len(s)
<1>1. Len(s) \in Nat /\ Len(s) > 0
  BY StringFacts
<1>2. 1 \in 1..Len(s) /\ Len(s) \in 1..Len(s)
  BY <1>1
<1>3. Empty \in Strings /\ Len(Empty) = 1 /\ Empty[1] = ""
  <2>1. "" \in Segments
    BY DEF Segments
  <2> QED
    BY <2>1, ShortStrings DEF Empty
<1>4. ASSUME s[1] = "" PROVE FromSlash(s, 1) = s
  <2> DEFINE f == FromSlash(s, 1)
  <2>1. /\ f \in Strings /\ Len(f) = Len(s) - 1 + 1
        /\ \A i \in 1..(Len(s) - 1 + 1) : f[i] = IF i = 1 THEN "" ELSE s[1 + i - 1]
    BY <1>2, FromSlashElements
  <2> HIDE DEF f
  <2>2. Len(f) = Len(s)
    <3>1. Len(f) = Len(s) - 1 + 1
      BY <2>1
    <3> QED
      BY <1>1, <3>1
  <2>3. ASSUME NEW i \in 1..Len(s) PROVE f[i] = s[i]
    <3>1. i \in 1..(Len(s) - 1 + 1) /\ 1 + i - 1 = i
      BY <1>1, <2>3
    <3>2. f[i] = IF i = 1 THEN "" ELSE s[i]
      BY <2>1, <3>1
    <3> QED
      BY <1>4, <3>2, Zenon
  <2>4. f = s
    BY <2>1, <2>2, <2>3, SameString
  <2> QED
    BY <2>4 DEF f
<1>5. FromSlash(s, Len(s)) = Empty
  <2> DEFINE f == FromSlash(s, Len(s))
  <2>1. /\ f \in Strings /\ Len(f) = Len(s) - Len(s) + 1
        /\ \A i \in 1..(Len(s) - Len(s) + 1) : f[i] = IF i = 1 THEN "" ELSE s[Len(s) + i - 1]
    BY <1>2, FromSlashElements
  <2> HIDE DEF f
  <2>2. Len(f) = 1 /\ 1 \in 1..(Len(s) - Len(s) + 1)
    <3>1. Len(f) = Len(s) - Len(s) + 1
      BY <2>1
    <3> QED
      BY <1>1, <3>1
  <2>3. f[1] = ""
    BY <2>1, <2>2, Zenon
  <2>4. \A i \in 1..Len(f) : f[i] = Empty[i]
    <3>1. \A i \in 1..Len(f) : i = 1
      <4>1. Len(f) = 1
        BY <2>2
      <4> QED
        BY <4>1
    <3> QED
      BY <2>3, <3>1, <1>3, Zenon
  <2>5. f = Empty
    BY <1>3, <2>1, <2>2, <2>4, SameString
  <2> QED
    BY <2>5 DEF f
<1>6. ASSUME NEW k \in 1..Len(s), FromSlash(s, k) = Empty PROVE k = Len(s)
  <2>1. Len(Empty) = Len(s) - k + 1
    BY <1>6, FromSlashElements
  <2>2. Len(Empty) = 1
    BY <1>3
  <2>3. \A m, n \in Nat : n - m + 1 = 1 => m = n
    OBVIOUS
  <2>4. k \in Nat /\ Len(s) - k + 1 = 1
    <3>1. k \in Nat
      BY <1>1
    <3> QED
      BY <2>1, <2>2, <3>1, Zenon
  <2> QED
    BY <1>1, <2>3, <2>4, Zenon
<1> QED
  BY <1>4, <1>5, <1>6

(* A part of the tail is a part of the string. *)
LEMMA SubSeqOfTail ==
    ASSUME NEW s \in Strings, NEW j \in 2..Len(s)
    PROVE  SubSeq(Tail(s), j - 1, Len(Tail(s))) = SubSeq(s, j, Len(s))
<1> DEFINE t == Tail(s)
           m == Len(s)
           u == SubSeq(t, j - 1, Len(t))
           v == SubSeq(s, j, m)
<1>1. /\ s \in Seq(Segments) /\ s # <<>> /\ m \in Nat
      /\ \A i \in 1..m : s[i] \in Segments
  BY StringFacts
<1>2. /\ t \in Seq(Segments) /\ Len(t) = m - 1
      /\ \A i \in 1..Len(t) : t[i] = s[i + 1]
  BY <1>1, HeadTailProperties
<1>3. \A i \in 1..Len(t) : t[i] \in Segments
  BY <1>2, ElementOfSeq
<1> HIDE DEF t
<1>4. /\ u \in Seq(Segments)
      /\ Len(u) = IF j - 1 <= Len(t) THEN Len(t) - (j - 1) + 1 ELSE 0
      /\ \A i \in 1..(Len(t) - (j - 1) + 1) : u[i] = t[(j - 1) + i - 1]
  <2>1. j - 1 \in Int /\ Len(t) \in Int /\ \A i \in (j - 1)..Len(t) : t[i] \in Segments
    BY <1>1, <1>2, <1>3
  <2> QED
    BY <2>1, SubSeqProperties
<1>5. /\ v \in Seq(Segments)
      /\ Len(v) = IF j <= m THEN m - j + 1 ELSE 0
      /\ \A i \in 1..(m - j + 1) : v[i] = s[j + i - 1]
  <2>1. j \in Int /\ m \in Int /\ \A i \in j..m : s[i] \in Segments
    BY <1>1
  <2> QED
    BY <2>1, SubSeqProperties
<1> HIDE DEF u, v, m
<1>6. j \in 2..m
  BY DEF m
<1>7. Len(u) = m - j + 1 /\ Len(v) = m - j + 1
  BY <1>1, <1>2, <1>4, <1>5, <1>6
<1>8. ASSUME NEW i \in 1..(m - j + 1) PROVE u[i] = v[i]
  <2>1. /\ i \in 1..(Len(t) - (j - 1) + 1) /\ (j - 1) + i - 1 \in 1..Len(t)
        /\ (j - 1) + i - 1 + 1 = j + i - 1
    BY <1>1, <1>2, <1>6
  <2>2. u[i] = t[(j - 1) + i - 1]
    BY <1>4, <2>1
  <2>3. t[(j - 1) + i - 1] = s[(j - 1) + i - 1 + 1]
    BY <1>2, <2>1
  <2>4. v[i] = s[j + i - 1]
    BY <1>5
  <2> QED
    BY <2>1, <2>2, <2>3, <2>4, Zenon
<1>9. u = v
  BY <1>4, <1>5, <1>7, <1>8, SeqEqual
<1> QED
  BY <1>9 DEF u, v, t, m

(* Leading dot segments do not matter. *)
LEMMA LeadingDots ==
    ASSUME NEW s \in Strings
    PROVE  /\ s[1] \notin Dots => WithoutLeadingDots(s) = s
           /\ RuleA(s) => WithoutLeadingDots(Tail(s)) = WithoutLeadingDots(s)
           /\ RuleD(s) => WithoutLeadingDots(s) = Empty
           /\ WithoutLeadingDots(s) \in Strings
<1> DEFINE rest == {i \in DOMAIN s : s[i] \notin Dots}
           First(r) == CHOOSE i \in r : \A k \in r : i <= k
<1>1. /\ s \in Seq(Segments) /\ s # <<>> /\ Len(s) \in Nat /\ Len(s) > 0
      /\ DOMAIN s = 1..Len(s) /\ \A i \in 1..Len(s) : s[i] \in Segments
  BY StringFacts
<1>2. 1 \in 1..Len(s)
  BY <1>1
<1>3. WithoutLeadingDots(s) = IF rest = {} THEN Empty ELSE SubSeq(s, First(rest), Len(s))
  BY DEF WithoutLeadingDots
<1>4. ASSUME NEW r, r \subseteq Nat, r # {}
      PROVE  First(r) \in r /\ \A k \in r : First(r) <= k
  <2>1. PICK i \in r : \A k \in r : ~(k < i)
    BY <1>4, LeastElement
  <2>2. \A k \in r : i <= k
    BY <1>4, <2>1
  <2> QED
    BY <2>2, Zenon
<1>5. ASSUME NEW r, r \subseteq Nat, NEW i \in r, \A k \in r : i <= k
      PROVE  First(r) = i
  <2>1. First(r) \in r /\ \A k \in r : First(r) <= k
    BY <1>4, <1>5
  <2>2. First(r) <= i /\ i <= First(r) /\ i \in Nat /\ First(r) \in Nat
    BY <1>5, <2>1
  <2> HIDE DEF First
  <2> QED
    BY <2>2
<1>6. rest \subseteq Nat
  BY <1>1
<1>7. ASSUME s[1] \notin Dots PROVE WithoutLeadingDots(s) = s
  <2>1. 1 \in rest /\ \A k \in rest : 1 <= k
    BY <1>1, <1>2, <1>7
  <2>2. First(rest) = 1
    BY <1>5, <1>6, <2>1
  <2>3. SubSeq(s, 1, Len(s)) = s
    BY <1>1, SubSeqFull
  <2> HIDE DEF First, rest
  <2> QED
    BY <1>3, <2>1, <2>2, <2>3
<1>8. ASSUME RuleD(s) PROVE WithoutLeadingDots(s) = Empty
  <2>1. \A i \in DOMAIN s : i = 1
    <3>1. Len(s) = 1
      BY <1>8 DEF RuleD
    <3> QED
      BY <1>1, <3>1
  <2>2. rest = {}
    BY <1>8, <2>1, Zenon DEF RuleD
  <2> QED
    BY <1>3, <2>2
<1>9. ASSUME RuleA(s) PROVE WithoutLeadingDots(Tail(s)) = WithoutLeadingDots(s)
  <2> DEFINE t == Tail(s)
             later == {i \in DOMAIN t : t[i] \notin Dots}
  <2>1. Len(s) > 1 /\ s[1] \in Dots
    BY <1>9 DEF RuleA
  <2>2. /\ t \in Seq(Segments) /\ Len(t) = Len(s) - 1
        /\ \A i \in 1..Len(t) : t[i] = s[i + 1]
    BY <1>1, HeadTailProperties
  <2>3. t = SubSeq(s, 2, Len(s))
    BY <1>1, TailIsSubSeq
  <2>4. WithoutLeadingDots(t) = IF later = {} THEN Empty ELSE SubSeq(t, First(later), Len(t))
    BY DEF WithoutLeadingDots
  <2> HIDE DEF t
  <2>5. DOMAIN t = 1..Len(t)
    BY <2>2, LenProperties
  <2>6. ASSUME NEW i \in later PROVE i \in 1..Len(t) /\ i + 1 \in rest
    <3>1. i \in 1..Len(t) /\ t[i] \notin Dots
      BY <2>5, <2>6
    <3>2. i + 1 \in 1..Len(s) /\ t[i] = s[i + 1]
      BY <1>1, <2>2, <3>1
    <3> QED
      BY <1>1, <3>1, <3>2
  <2>7. ASSUME NEW j \in rest PROVE j \in 2..Len(s) /\ j - 1 \in later
    <3>1. j \in 1..Len(s) /\ s[j] \notin Dots
      BY <1>1, <2>7
    <3>2. j # 1
      BY <2>1, <3>1
    <3>3. j \in 2..Len(s) /\ j - 1 \in 1..Len(t) /\ (j - 1) + 1 = j
      BY <1>1, <2>2, <3>1, <3>2
    <3>4. t[j - 1] = s[j]
      BY <2>2, <3>3
    <3> QED
      BY <2>5, <3>1, <3>3, <3>4
  <2>8. CASE rest = {}
    <3>1. later = {}
      BY <2>6, <2>8
    <3> QED
      BY <1>3, <2>4, <2>8, <3>1 DEF t
  <2>9. CASE rest # {}
    <3>1. PICK j : j = First(rest)
      OBVIOUS
    <3>2. j \in rest /\ \A k \in rest : j <= k
      BY <1>4, <1>6, <2>9, <3>1
    <3>3. j \in 2..Len(s) /\ j - 1 \in later
      BY <2>7, <3>2
    <3>4. ASSUME NEW i \in later PROVE j - 1 <= i
      <4>1. i \in 1..Len(t) /\ j <= i + 1
        BY <2>6, <3>2, <3>4
      <4> HIDE DEF later, rest
      <4> QED
        BY <3>3, <4>1
    <3>5. First(later) = j - 1
      <4>1. later \subseteq Nat
        BY <2>6
      <4> HIDE DEF later
      <4> QED
        BY <1>5, <3>3, <3>4, <4>1
    <3>6. SubSeq(t, j - 1, Len(t)) = SubSeq(s, j, Len(s))
      BY <3>3, SubSeqOfTail DEF t
    <3>7. later # {}
      BY <3>3
    <3> HIDE DEF later, rest, First
    <3> QED
      BY <1>3, <2>4, <2>9, <3>1, <3>5, <3>6, <3>7, Zenon DEF t
  <2> QED
    BY <2>8, <2>9
<1>10. WithoutLeadingDots(s) \in Strings
  <2>1. CASE rest = {}
    BY <1>3, <2>1, EmptyFacts
  <2>2. CASE rest # {}
    <3>1. PICK j : j = First(rest)
      OBVIOUS
    <3>2. j \in rest
      BY <1>4, <1>6, <2>2, <3>1
    <3>3. j \in 1..Len(s)
      BY <1>1, <3>2
    <3>4. j \in Int /\ Len(s) \in Int /\ \A i \in j..Len(s) : s[i] \in Segments
      BY <1>1, <3>3
    <3> DEFINE u == SubSeq(s, j, Len(s))
    <3>5. u \in Seq(Segments) /\ Len(u) = IF j <= Len(s) THEN Len(s) - j + 1 ELSE 0
      BY <3>4, SubSeqProperties
    <3> HIDE DEF u
    <3>6. Len(u) \in Nat \ {0}
      BY <1>1, <3>3, <3>5
    <3>7. u \in Strings
      BY <3>5, <3>6, SegmentsMakeString
    <3> HIDE DEF First, rest
    <3> QED
      BY <1>3, <2>2, <3>1, <3>7 DEF u
  <2> QED
    BY <2>1, <2>2
<1> QED
  BY <1>7, <1>8, <1>9, <1>10

-----------------------------------------------------------------------------
(* The name without the dot segments in front, and where a round of the    *)
(* loop is, with i in the input and o in the output: still before it ...   *)
Leading(i, o, s) == o = Empty /\ WithoutLeadingDots(i) = s

(* ... or behind its segment k, with the walk so far in the output ...     *)
Walking(i, o, s) == \E k \in 1..Len(s) :
                       /\ i = FromSlash(s, k) /\ o = Stayed(s)[k]
                       /\ k = Len(s) => s[k] \notin Dots

(* ... or behind the dot segment it ends with, which leaves a slash ...    *)
Trailing(i, o, s) == i = <<"", "">> /\ o = Stayed(s)[Len(s)] /\ s[Len(s)] \in Dots

(* ... or at its end. *)
Ended(i, o, s) == i = Empty /\ o = StayMeaning(s)

OnTheWay(i, o, s) ==
    Leading(i, o, s) \/ Walking(i, o, s) \/ Trailing(i, o, s) \/ Ended(i, o, s)

(* The empty string and the one that is only a slash. *)
LEMMA SlashFacts ==
    /\ Empty \in Strings /\ Len(Empty) = 1 /\ Empty[1] = ""
    /\ <<"", "">> \in Strings /\ Len(<<"", "">>) = 2
    /\ <<"", "">>[1] = "" /\ <<"", "">>[2] = ""
    /\ "" \notin Dots /\ "" \in Segments
<1>1. "" \in Segments /\ "" \notin Dots
  BY DEF Segments, Dots
<1>2. <<"", "">>[2] = ""
  OBVIOUS
<1> QED
  BY <1>1, <1>2, ShortStrings DEF Empty

(* Where the walk along s ends. *)
LEMMA MeaningFacts ==
    ASSUME NEW s \in Strings
    PROVE  /\ s[Len(s)] \notin Dots => StayMeaning(s) = Stayed(s)[Len(s)]
           /\ s[Len(s)] \in Dots => StayMeaning(s) = Append(Stayed(s)[Len(s)], "")
           /\ StayMeaning(Empty) = Empty
<1>1. StayMeaning(Empty) = Empty
  <2>1. Stayed(Empty)[1] = <<Empty[1]>>
    BY SlashFacts, StayedFacts
  <2>2. Empty[Len(Empty)] \notin Dots /\ Stayed(Empty)[Len(Empty)] = Empty
    BY <2>1, SlashFacts, Zenon DEF Empty
  <2> HIDE DEF Empty
  <2> QED
    BY <2>2, Zenon DEF StayMeaning
<1> QED
  BY <1>1, Zenon DEF StayMeaning

(* A loop whose input begins with a slash is past the dot segments in      *)
(* front; otherwise it has not begun to walk.                              *)
LEMMA Phases ==
    ASSUME NEW i \in Strings, NEW o \in Strings, NEW s \in Strings, OnTheWay(i, o, s)
    PROVE  /\ i[1] = "" => Walking(i, o, s) \/ Trailing(i, o, s) \/ Ended(i, o, s)
           /\ i[1] # "" => Leading(i, o, s)
<1>1. ASSUME i[1] = "", Leading(i, o, s) PROVE Walking(i, o, s)
  <2>1. i = s
    BY <1>1, LeadingDots, SlashFacts DEF Leading
  <2>2. Stayed(s)[1] = <<s[1]>>
    BY StayedFacts
  <2>3. o = Stayed(s)[1]
    BY <1>1, <2>1, <2>2, Zenon DEF Leading, Empty
  <2>4. i = FromSlash(s, 1)
    BY <1>1, <2>1, FromSlashEnds
  <2>5. 1 \in 1..Len(s)
    <3>1. Len(s) \in Nat /\ Len(s) > 0
      BY StringFacts
    <3> QED
      BY <3>1
  <2>6. s[1] \notin Dots
    BY <1>1, <2>1, SlashFacts, Zenon
  <2> QED
    BY <2>3, <2>4, <2>5, <2>6, Zenon DEF Walking
<1>2. ASSUME Walking(i, o, s) PROVE i[1] = ""
  <2>1. PICK k \in 1..Len(s) : i = FromSlash(s, k)
    BY <1>2, Zenon DEF Walking
  <2> QED
    BY <2>1, FromSlashFacts
<1>3. ASSUME Trailing(i, o, s) \/ Ended(i, o, s) PROVE i[1] = ""
  BY <1>3, SlashFacts, Zenon DEF Trailing, Ended
<1> QED
  BY <1>1, <1>2, <1>3, Zenon DEF OnTheWay

(* A walk that is behind segment k and has more than a slash before it     *)
(* takes segment k + 1 next.                                               *)
LEMMA WalkOn ==
    ASSUME NEW i \in Strings, NEW o \in Strings, NEW s \in Strings,
           Walking(i, o, s), Len(i) > 1
    PROVE  \E k \in 1..Len(s) :
             /\ k < Len(s) /\ k + 1 \in 1..Len(s)
             /\ i[2] = s[k + 1] /\ i[2] \in Segments
             /\ Stayed(s)[k + 1] = StayWalk(o, i[2])
             /\ FromSlash(i, 2) = FromSlash(s, k + 1)
             /\ Len(i) = 2 <=> k + 1 = Len(s)
<1>1. PICK k \in 1..Len(s) : i = FromSlash(s, k) /\ o = Stayed(s)[k]
  BY Zenon DEF Walking
<1>2. Len(s) \in Nat /\ \A j \in 1..Len(s) : s[j] \in Segments
  BY StringFacts
<1>3. /\ Len(i) = Len(s) - k + 1
      /\ \A j \in 1..(Len(s) - k + 1) : i[j] = IF j = 1 THEN "" ELSE s[k + j - 1]
  BY <1>1, FromSlashElements
<1>4. Len(i) = Len(s) - k + 1
  BY <1>3
<1>5. /\ k < Len(s) /\ k + 1 \in 1..Len(s) /\ k + 1 \in 2..Len(s) /\ (k + 1) - 1 = k
      /\ 2 \in 1..(Len(s) - k + 1) /\ k + 2 - 1 = k + 1
      /\ (Len(i) = 2 <=> k + 1 = Len(s))
  BY <1>2, <1>4
<1>6. i[2] = s[k + 1]
  <2>1. i[2] = IF 2 = 1 THEN "" ELSE s[k + 2 - 1]
    BY <1>3, <1>5
  <2>2. 2 # 1
    OBVIOUS
  <2> QED
    BY <1>5, <2>1, <2>2, Zenon
<1>7. Stayed(s)[k + 1] = StayWalk(o, i[2])
  <2>1. Stayed(s)[k + 1] = StayWalk(Stayed(s)[(k + 1) - 1], s[k + 1])
    BY <1>5, StayedFacts
  <2> QED
    BY <1>1, <1>5, <1>6, <2>1, Zenon
<1>8. FromSlash(i, 2) = FromSlash(s, k + 1)
  BY <1>1, <1>5, FromSlashAgain
<1> QED
  BY <1>2, <1>5, <1>6, <1>7, <1>8, Zenon

(* A segment that is dropped, as the walk drops it (rules B and C). *)
LEMMA DropsAsWalked ==
    ASSUME NEW i \in Strings, NEW o \in Strings, NEW s \in Strings, NEW new \in Strings,
           OnTheWay(i, o, s), Len(i) > 1, i[1] = "", i[2] \in Dots, new = StayWalk(o, i[2])
    PROVE  OnTheWay(SlashRest(i), new, s)
<1>1. Walking(i, o, s)
  <2>1. ~Trailing(i, o, s)
    BY SlashFacts, Zenon DEF Trailing
  <2>2. ~Ended(i, o, s)
    <3>1. Len(Empty) = 1
      BY SlashFacts
    <3>3. Len(i) \in Nat /\ Len(i) > 1
      BY StringFacts
    <3> QED
      BY <3>1, <3>3, OneOrMore, Zenon DEF Ended
  <2> QED
    BY <2>1, <2>2, Phases
<1>2. PICK k \in 1..Len(s) :
             /\ k < Len(s) /\ k + 1 \in 1..Len(s)
             /\ i[2] = s[k + 1] /\ i[2] \in Segments
             /\ Stayed(s)[k + 1] = StayWalk(o, i[2])
             /\ FromSlash(i, 2) = FromSlash(s, k + 1)
             /\ Len(i) = 2 <=> k + 1 = Len(s)
  BY <1>1, WalkOn
<1>3. CASE Len(i) = 2
  <2>1. Trailing(SlashRest(i), new, s)
    BY <1>2, <1>3, Zenon DEF Trailing, SlashRest
  <2> QED
    BY <2>1 DEF OnTheWay
<1>4. CASE Len(i) # 2
  <2>1. Walking(SlashRest(i), new, s)
    BY <1>2, <1>4, Zenon DEF Walking, SlashRest
  <2> QED
    BY <2>1 DEF OnTheWay
<1> QED
  BY <1>3, <1>4

(* A segment that is moved, as the walk takes it (rule E). *)
LEMMA MovesAsWalked ==
    ASSUME NEW i \in Strings, NEW o \in Strings, NEW s \in Strings, OnTheWay(i, o, s),
           i # Empty, ~RuleA(i), ~RuleB(i), ~RuleC(i), ~RuleD(i)
    PROVE  OnTheWay(RestAfter(i), AddFirst(o, i), s)
<1>1. Len(i) \in Nat /\ Len(i) > 0 /\ (Len(i) = 1 \/ Len(i) > 1)
  <2>1. Len(i) \in Nat /\ Len(i) > 0
    BY StringFacts
  <2> QED
    BY <2>1, OneOrMore, Zenon
<1>2. CASE i[1] # ""
  <2>1. i[1] \notin Dots
    BY <1>1, Zenon DEF RuleA, RuleD
  <2>2. i = s /\ o = Empty
    BY <1>2, <2>1, Phases, LeadingDots DEF Leading
  <2>3. Moved(i) = 1
    BY <1>2, Zenon DEF Moved
  <2>4. AddFirst(o, i) = <<i[1]>>
    <3>1. Moved(i) # 2
      BY <2>3
    <3> QED
      BY <2>2, <3>1, Zenon DEF AddFirst
  <2>5. AddFirst(o, i) = Stayed(s)[1]
    <3>1. Stayed(s)[1] = <<s[1]>>
      BY StayedFacts
    <3> QED
      BY <2>2, <2>4, <3>1, Zenon
  <2>6. RestAfter(i) = FromSlash(s, 1)
    <3>1. FromSlash(s, Len(s)) = Empty
      BY FromSlashEnds
    <3> QED
      BY <2>2, <2>3, <3>1, Zenon DEF RestAfter
  <2>7. 1 \in 1..Len(s) /\ s[1] \notin Dots
    <3>1. 1 \in 1..Len(i)
      BY <1>1
    <3> QED
      BY <2>1, <2>2, <3>1, Zenon
  <2>8. Walking(RestAfter(i), AddFirst(o, i), s)
    BY <2>5, <2>6, <2>7, Zenon DEF Walking
  <2> QED
    BY <2>8 DEF OnTheWay
<1>3. CASE i[1] = ""
  <2>1. Len(i) > 1
    <3>1. ASSUME Len(i) = 1 PROVE FALSE
      <4>1. \A j \in 1..Len(i) : j = 1
        BY <3>1
      <4>2. \A j \in 1..Len(i) : i[j] = Empty[j]
        BY <1>3, <4>1, SlashFacts, Zenon
      <4>3. Len(i) = Len(Empty)
        BY <3>1, SlashFacts, Zenon
      <4> QED
        BY <4>2, <4>3, SlashFacts, SameString
    <3> QED
      BY <1>1, <3>1
  <2>2. Moved(i) = 2
    BY <1>3, <2>1, Zenon DEF Moved
  <2>3. AddFirst(o, i) = Append(o, i[2])
    BY <2>2, Zenon DEF AddFirst
  <2>4. i[2] \notin Dots
    BY <1>3, <2>1, Zenon DEF RuleB, RuleC, Dots
  <2>5. CASE Walking(i, o, s)
    <3>1. PICK k \in 1..Len(s) :
                 /\ k < Len(s) /\ k + 1 \in 1..Len(s)
                 /\ i[2] = s[k + 1] /\ i[2] \in Segments
                 /\ Stayed(s)[k + 1] = StayWalk(o, i[2])
                 /\ FromSlash(i, 2) = FromSlash(s, k + 1)
                 /\ Len(i) = 2 <=> k + 1 = Len(s)
      BY <2>1, <2>5, WalkOn
    <3>2. AddFirst(o, i) = Stayed(s)[k + 1]
      BY <2>3, <2>4, <3>1, StayWalkFacts
    <3>3. RestAfter(i) = FromSlash(s, k + 1)
      <4>1. FromSlash(s, Len(s)) = Empty
        BY FromSlashEnds
      <4> QED
        BY <2>2, <3>1, <4>1, Zenon DEF RestAfter
    <3>4. Walking(RestAfter(i), AddFirst(o, i), s)
      BY <2>4, <3>1, <3>2, <3>3, Zenon DEF Walking
    <3> QED
      BY <3>4 DEF OnTheWay
  <2>6. CASE Trailing(i, o, s)
    <3>1. i[2] = "" /\ Len(i) = 2
      BY <2>6, SlashFacts, Zenon DEF Trailing
    <3>2. RestAfter(i) = Empty
      BY <2>2, <3>1, Zenon DEF RestAfter
    <3>3. StayMeaning(s) = Append(o, "")
      BY <2>6, MeaningFacts, Zenon DEF Trailing
    <3>4. Ended(RestAfter(i), AddFirst(o, i), s)
      BY <2>3, <3>1, <3>2, <3>3, Zenon DEF Ended
    <3> QED
      BY <3>4 DEF OnTheWay
  <2> QED
    BY <1>3, <2>5, <2>6, Phases DEF Ended
<1> QED
  BY <1>2, <1>3

(* When the input is used up, the output is where the name leads. *)
LEMMA EndsAsWalked ==
    ASSUME NEW o \in Strings, NEW s \in Strings, OnTheWay(Empty, o, s)
    PROVE  o = StayMeaning(s)
<1>1. CASE Walking(Empty, o, s)
  <2>1. PICK k \in 1..Len(s) : /\ Empty = FromSlash(s, k) /\ o = Stayed(s)[k]
                               /\ k = Len(s) => s[k] \notin Dots
    BY <1>1, Zenon DEF Walking
  <2>2. k = Len(s)
    BY <2>1, FromSlashEnds
  <2> QED
    BY <2>1, <2>2, MeaningFacts, Zenon
<1>2. CASE Trailing(Empty, o, s)
  <2>1. Len(Empty) = 1 /\ Len(<<"", "">>) = 2
    BY SlashFacts
  <2>2. 1 # 2
    OBVIOUS
  <2> QED
    BY <1>2, <2>1, <2>2, Zenon DEF Trailing
<1>3. CASE Ended(Empty, o, s)
  BY <1>3, Zenon DEF Ended
<1> QED
  BY <1>1, <1>2, <1>3, SlashFacts, Phases

(* Dot segments in front are dropped without effect (rules A and D). *)
LEMMA LeadingDropped ==
    ASSUME NEW i \in Strings, NEW o \in Strings, NEW s \in Strings, OnTheWay(i, o, s)
    PROVE  /\ RuleA(i) => OnTheWay(Tail(i), o, s)
           /\ RuleD(i) => OnTheWay(Empty, o, s)
<1>1. ASSUME i[1] \in Dots PROVE Leading(i, o, s)
  <2>1. i[1] # ""
    BY <1>1, SlashFacts, Zenon
  <2> QED
    BY <2>1, Phases
<1>2. ASSUME RuleA(i) PROVE OnTheWay(Tail(i), o, s)
  <2>1. Leading(Tail(i), o, s)
    BY <1>1, <1>2, LeadingDots, Zenon DEF RuleA, Leading
  <2> QED
    BY <2>1 DEF OnTheWay
<1>3. ASSUME RuleD(i) PROVE OnTheWay(Empty, o, s)
  <2>1. s = Empty /\ o = Empty
    BY <1>1, <1>3, LeadingDots, Zenon DEF RuleD, Leading
  <2>2. Ended(Empty, o, s)
    BY <2>1, MeaningFacts, Zenon DEF Ended
  <2> QED
    BY <2>2 DEF OnTheWay
<1> QED
  BY <1>2, <1>3

-----------------------------------------------------------------------------
(* The loop is on the way along the name it works on, and the cache holds  *)
(* what the walks along its names lead to.                                 *)
WalkInv == /\ pc = "loop" => OnTheWay(input, output, Stripped(raw_input))
           /\ \A r \in DOMAIN cached_paths : cached_paths[r] = StayExpected(r)
           /\ StayReturned

(* It is a string. *)
LEMMA StrippedFacts == ASSUME NEW raw \in RawInputs PROVE Stripped(raw) \in Strings
<1>1. Slashes(raw) \in Strings
  BY PathAssumption, SlashesFacts
<1> QED
  BY <1>1, LeadingDots DEF Stripped

(* What a round of the loop has to do to keep it. *)
LEMMA WalkRoundKeeps ==
    ASSUME WalkInv, OnTheWay(input', output', Stripped(raw_input)),
           UNCHANGED <<pc, raw_input, cached_paths, returned, misses, lookups>>
    PROVE  WalkInv'
BY Zenon DEF WalkInv, StayReturned

(* The rounds do so. *)
LEMMA WalkLoopKeeps ==
    ASSUME PathInv, WalkInv, Loop
    PROVE  WalkInv'
<1>1. /\ pc = "loop" /\ raw_input \in RawInputs
      /\ input \in Strings /\ output \in Strings
  BY Zenon DEF PathInv, TypeOK, LoopHasName, Loop, DropPrefix, DropDot, GoUp, DropDots,
               MoveSegment, Return
<1>2. PICK s : s = Stripped(raw_input)
  OBVIOUS
<1>3. s \in Strings
  BY <1>1, <1>2, StrippedFacts
<1>4. OnTheWay(input, output, s)
  BY <1>1, <1>2, Zenon DEF WalkInv
<1>5. CASE DropPrefix
  <2>1. OnTheWay(Tail(input), output, s)
    BY <1>1, <1>3, <1>4, <1>5, LeadingDropped DEF DropPrefix
  <2> QED
    BY <1>2, <1>5, <2>1, WalkRoundKeeps DEF DropPrefix
<1>6. CASE DropDot
  <2>1. Len(input) > 1 /\ input[1] = "" /\ input[2] = "." /\ input[2] \in Dots
        /\ "." \in Segments
    BY <1>6 DEF DropDot, RuleB, Dots, Segments
  <2>2. StayWalk(output, input[2]) = output
    BY <1>1, <2>1, StayWalkFacts
  <2>3. OnTheWay(SlashRest(input), output, s)
    BY <1>1, <1>3, <1>4, <2>1, <2>2, DropsAsWalked
  <2> QED
    BY <1>2, <1>6, <2>3, WalkRoundKeeps DEF DropDot
<1>7. CASE GoUp
  <2>1. Len(input) > 1 /\ input[1] = "" /\ input[2] = ".." /\ input[2] \in Dots
        /\ ".." \in Segments
    BY <1>7 DEF GoUp, RuleC, Dots, Segments
  <2>2. StayWalk(output, input[2]) = CutLast(output) /\ CutLast(output) \in Strings
    BY <1>1, <2>1, StayWalkFacts, CutFacts
  <2>3. OnTheWay(SlashRest(input), CutLast(output), s)
    BY <1>1, <1>3, <1>4, <2>1, <2>2, DropsAsWalked
  <2> QED
    BY <1>2, <1>7, <2>3, WalkRoundKeeps DEF GoUp
<1>8. CASE DropDots
  <2>1. OnTheWay(Empty, output, s)
    BY <1>1, <1>3, <1>4, <1>8, LeadingDropped DEF DropDots
  <2> QED
    BY <1>2, <1>8, <2>1, WalkRoundKeeps DEF DropDots
<1>9. CASE MoveSegment
  <2>1. OnTheWay(RestAfter(input), AddFirst(output, input), s)
    BY <1>1, <1>3, <1>4, <1>9, MovesAsWalked DEF MoveSegment
  <2> QED
    BY <1>2, <1>9, <2>1, WalkRoundKeeps DEF MoveSegment
<1>10. CASE Return
  <2>1. output = StayExpected(raw_input)
    <3>1. input = Empty
      BY <1>10 DEF Return
    <3>2. output = StayMeaning(s)
      BY <1>1, <1>3, <1>4, <3>1, EndsAsWalked, Zenon
    <3> QED
      BY <1>2, <3>2, Zenon DEF StayExpected, Stripped
  <2>2. /\ DOMAIN cached_paths' = DOMAIN cached_paths \cup {raw_input}
        /\ \A r \in DOMAIN cached_paths' :
             cached_paths'[r] = IF r = raw_input THEN output ELSE cached_paths[r]
    BY <1>10 DEF Return
  <2>3. pc' = "idle" /\ "idle" # "loop" /\ returned' = <<raw_input, output>>
    BY <1>10 DEF Return
  <2>4. \A r \in DOMAIN cached_paths' : cached_paths'[r] = StayExpected(r)
    BY <2>1, <2>2, Zenon DEF WalkInv
  <2>5. returned'[2] = StayExpected(returned'[1])
    <3>1. returned'[1] = raw_input /\ returned'[2] = output
      BY <2>3
    <3> QED
      BY <2>1, <3>1, Zenon
  <2> QED
    BY <2>3, <2>4, <2>5, Zenon DEF WalkInv, StayReturned
<1> QED
  BY <1>5, <1>6, <1>7, <1>8, <1>9, <1>10 DEF Loop

(* Every step keeps the two invariants. *)
LEMMA WalkNextKeeps == PathInv /\ WalkInv /\ [Next]_vars => WalkInv'
<1> SUFFICES ASSUME PathInv, WalkInv, [Next]_vars PROVE WalkInv'
  OBVIOUS
<1>1. CASE UNCHANGED vars
  BY <1>1, Zenon DEF vars, WalkInv, StayReturned
<1>2. ASSUME NEW raw \in RawInputs, Hit(raw) PROVE WalkInv'
  <2>1. returned' = <<raw, cached_paths[raw]>> /\ cached_paths[raw] = StayExpected(raw)
    BY <1>2, Zenon DEF Hit, WalkInv
  <2>2. returned'[1] = raw /\ returned'[2] = cached_paths[raw]
    BY <2>1
  <2>3. StayReturned'
    BY <2>1, <2>2, Zenon DEF StayReturned
  <2>4. UNCHANGED <<pc, raw_input, input, output, cached_paths>>
    BY <1>2 DEF Hit
  <2> QED
    BY <2>3, <2>4, Zenon DEF WalkInv
<1>3. ASSUME NEW raw \in RawInputs, Miss(raw) PROVE WalkInv'
  <2>1. /\ raw_input' = raw /\ input' = Slashes(raw) /\ output' = Empty
        /\ UNCHANGED <<cached_paths, returned>>
    BY <1>3 DEF Miss
  <2>2. OnTheWay(input', output', Stripped(raw_input'))
    BY <2>1, Zenon DEF OnTheWay, Leading, Stripped
  <2> QED
    BY <2>1, <2>2, Zenon DEF WalkInv, StayReturned
<1> QED
  BY <1>1, <1>2, <1>3, WalkLoopKeeps DEF Next, Done

(* The walk of PathReference, where it is after each segment. *)
LEMMA ReferenceFacts ==
    ASSUME NEW s \in Strings
    PROVE  /\ Walked(s)[1] = <<s[1]>>
           /\ \A k \in 2..Len(s) : Walked(s)[k] = Walk(Walked(s)[k - 1], s[k])
<1> DEFINE n == Len(s)
           w == Walked(s)
<1>1. n \in Nat \ {0}
  BY StringFacts
<1>2. w = [k \in 1..n |-> IF k = 1 THEN <<s[1]>> ELSE Walk(w[k - 1], s[k])]
  <2>1. \E v : v = [k \in 1..n |-> IF k = 1 THEN <<s[1]>> ELSE Walk(v[k - 1], s[k])]
    <3>1. PICK v : IsWalk(FALSE, s, v, n)
      BY <1>1, WalksExist
    <3> QED
      BY <3>1, Zenon DEF IsWalk, Stride
  <2>2. w = CHOOSE v : v = [k \in 1..n |-> IF k = 1 THEN <<s[1]>> ELSE Walk(v[k - 1], s[k])]
    BY DEF Walked
  <2> QED
    BY <2>1, <2>2, Zenon
<1> HIDE DEF n, w
<1>3. \A k \in 1..n : w[k] = IF k = 1 THEN <<s[1]>> ELSE Walk(w[k - 1], s[k])
  BY <1>2, Zenon
<1>4. w[1] = <<s[1]>>
  <2>1. 1 \in 1..n
    BY <1>1
  <2> QED
    BY <1>3, <2>1, Zenon
<1>5. ASSUME NEW k \in 2..n PROVE w[k] = Walk(w[k - 1], s[k])
  <2>1. k \in 1..n /\ k # 1
    BY <1>1, <1>5
  <2> QED
    BY <1>3, <2>1, Zenon
<1> QED
  BY <1>4, <1>5 DEF n, w

(* The two walks lead to the same place, unless the name goes back over    *)
(* its first segment: the first place where they part would be there.      *)
LEMMA WalksAgree ==
    ASSUME NEW s \in Strings, ~BacksOverFirst(s)
    PROVE  Meaning(s) = StayMeaning(s)
<1> DEFINE n == Len(s)
           w == Walked(s)
           v == Stayed(s)
           T == {k \in 1..n : w[k] # v[k]}
<1>1. n \in Nat \ {0} /\ w[1] = v[1]
  <2>1. n \in Nat \ {0}
    BY StringFacts
  <2>2. w[1] = v[1]
    <3>1. Walked(s)[1] = <<s[1]>>
      BY ReferenceFacts
    <3>2. Stayed(s)[1] = <<s[1]>>
      BY StayedFacts
    <3> QED
      BY <3>1, <3>2, Zenon
  <2> QED
    BY <2>1, <2>2
<1>2. \A k \in 2..n : /\ w[k] = Walk(w[k - 1], s[k])
                      /\ v[k] = StayWalk(v[k - 1], s[k])
                      /\ ~(s[k] = ".." /\ Len(w[k - 1]) = 1 /\ w[k - 1] # Empty)
  BY ReferenceFacts, StayedFacts, Zenon DEF BacksOverFirst
<1> HIDE DEF n, w, v
<1>3. T = {}
  <2> SUFFICES ASSUME T # {} PROVE FALSE
    OBVIOUS
  <2>1. PICK x \in T : \A y \in T : ~(y < x)
    <3>1. T \subseteq Nat
      BY <1>1
    <3> HIDE DEF T
    <3> QED
      BY <3>1, LeastElement
  <2>2. x \in 2..n /\ x - 1 \in 1..n /\ x - 1 < x /\ w[x] # v[x]
    BY <1>1, <2>1
  <2>3. w[x - 1] = v[x - 1]
    BY <2>1, <2>2
  <2>4. PICK path : path = w[x - 1]
    OBVIOUS
  <2>5. w[x] = Walk(path, s[x]) /\ v[x] = StayWalk(path, s[x])
    BY <1>2, <2>2, <2>3, <2>4, Zenon
  <2>6. ~(s[x] = ".." /\ Len(path) = 1 /\ path # Empty)
    BY <1>2, <2>2, <2>4, Zenon
  <2>7. Walk(path, s[x]) = StayWalk(path, s[x])
    BY <2>6, Zenon DEF Walk, StayWalk
  <2> QED
    BY <2>2, <2>5, <2>7, Zenon
<1>4. n \in 1..n
  BY <1>1
<1>5. w[n] = v[n]
  BY <1>3, <1>4
<1> QED
  BY <1>5, Zenon DEF Meaning, StayMeaning, n, w, v

(* Whatever name a script gives, of whatever length, the path it gets is   *)
(* where walking along the segments of the name leads, from the loop and   *)
(* from the cache, unless the name goes back over its first segment.       *)
THEOREM PathLeadsToNamedFile == Spec => []LeadsToNamedFile
<1>1. Init => WalkInv
  BY Zenon DEF Init, WalkInv, StayReturned
<1>2. ASSUME PathInv, WalkInv PROVE LeadsToNamedFile
  <2> SUFFICES ASSUME returned # Nothing, ~BacksOverFirst(Stripped(returned[1]))
               PROVE  returned[2] = Expected(returned[1])
    BY DEF LeadsToNamedFile
  <2>1. returned[1] \in RawInputs
    BY <1>2 DEF PathInv, TypeOK
  <2>2. Stripped(returned[1]) \in Strings
    BY <2>1, StrippedFacts
  <2>3. Meaning(Stripped(returned[1])) = StayMeaning(Stripped(returned[1]))
    BY <2>2, WalksAgree
  <2> QED
    BY <1>2, <2>3, Zenon DEF WalkInv, StayReturned, Expected, StayExpected
<1> QED
  BY <1>1, <1>2, PathInvariance, WalkNextKeeps, PTL DEF Spec

-----------------------------------------------------------------------------
(* The weight of what is still in the input: its length, above all. *)
Weight(s) == 3 * Len(s) + (IF s[1] = "" THEN 0 ELSE 1) + (IF s[Len(s)] \in Dots THEN 1 ELSE 0)

(* Whatever is shorter weighs less. *)
LEMMA ShorterIsLighter ==
    ASSUME NEW s \in Strings
    PROVE  /\ Weight(s) \in Nat
           /\ \A t \in Strings : Len(t) < Len(s) => Weight(t) < Weight(s)
<1>1. ASSUME NEW t \in Strings
      PROVE  Weight(t) \in Nat /\ 3 * Len(t) <= Weight(t) /\ Weight(t) <= 3 * Len(t) + 2
  <2>1. PICK a, b : /\ a = (IF t[1] = "" THEN 0 ELSE 1)
                    /\ b = (IF t[Len(t)] \in Dots THEN 1 ELSE 0)
    OBVIOUS
  <2>2. a \in {0, 1} /\ b \in {0, 1}
    BY <2>1, Zenon
  <2>3. Weight(t) = 3 * Len(t) + a + b
    BY <2>1, Zenon DEF Weight
  <2>4. Len(t) \in Nat
    BY StringFacts
  <2> QED
    BY <2>2, <2>3, <2>4, SMT
<1>2. ASSUME NEW t \in Strings, Len(t) < Len(s) PROVE Weight(t) < Weight(s)
  <2>1. /\ Weight(t) \in Nat /\ Weight(t) <= 3 * Len(t) + 2
        /\ Weight(s) \in Nat /\ 3 * Len(s) <= Weight(s)
    BY <1>1
  <2>2. Len(t) \in Nat /\ Len(s) \in Nat
    BY StringFacts
  <2>3. \A m, n, x, y \in Nat : m < n /\ x <= 3 * m + 2 /\ 3 * n <= y => x < y
    OBVIOUS
  <2> QED
    BY <1>2, <2>1, <2>2, <2>3, Zenon
<1> QED
  BY <1>1, <1>2

(* With the same length, the first and the last segment decide. *)
LEMMA CompareWeights ==
    \A n \in Nat : \A a, b, c \in {0, 1} :
       (a = 1 /\ (c = 0 \/ b = 1)) \/ (b = 1 /\ c = 0) => 3 * n + 0 + c < 3 * n + a + b
OBVIOUS

(* The last place of a sequence of more than one. *)
LEMMA LastPlace == \A n \in Nat : n > 1 => n \in 1..(n - 1 + 1) /\ n # 1 /\ 1 + n - 1 = n
OBVIOUS

(* Of two strings of the same length the one without a first segment, or   *)
(* without a dot segment at its end, weighs less.                          *)
LEMMA SlashIsLighter ==
    ASSUME NEW s \in Strings, NEW t \in Strings, Len(t) = Len(s), t[1] = "",
           \/ s[1] # "" /\ (t[Len(t)] \in Dots => s[Len(s)] \in Dots)
           \/ s[Len(s)] \in Dots /\ t[Len(t)] \notin Dots
    PROVE  Weight(t) < Weight(s)
<1>1. PICK a, b, c : /\ a = (IF s[1] = "" THEN 0 ELSE 1)
                     /\ b = (IF s[Len(s)] \in Dots THEN 1 ELSE 0)
                     /\ c = (IF t[Len(t)] \in Dots THEN 1 ELSE 0)
  OBVIOUS
<1>2. /\ a \in {0, 1} /\ b \in {0, 1} /\ c \in {0, 1}
      /\ \/ a = 1 /\ (c = 0 \/ b = 1)
         \/ b = 1 /\ c = 0
  BY <1>1, Zenon
<1>3. Weight(s) = 3 * Len(s) + a + b /\ Weight(t) = 3 * Len(s) + 0 + c
  BY <1>1, Zenon DEF Weight
<1>4. Len(s) \in Nat
  BY StringFacts
<1> QED
  BY <1>2, <1>3, <1>4, CompareWeights, Zenon

(* What the rules make of the input weighs less. *)
LEMMA RulesLighten ==
    ASSUME NEW s \in Strings
    PROVE  /\ RuleA(s) => Weight(Tail(s)) < Weight(s)
           /\ RuleB(s) \/ RuleC(s) => Weight(SlashRest(s)) < Weight(s)
           /\ RuleD(s) => Weight(Empty) < Weight(s)
           /\ s # Empty /\ ~RuleA(s) /\ ~RuleD(s) => Weight(RestAfter(s)) < Weight(s)
<1>1. Len(s) \in Nat /\ Len(s) > 0 /\ s \in Seq(Segments) /\ s # <<>>
  BY StringFacts
<1>2. ASSUME RuleA(s) PROVE Weight(Tail(s)) < Weight(s)
  <2>1. Tail(s) \in Strings
    BY <1>2, RestFacts DEF RuleA
  <2>2. Len(Tail(s)) = Len(s) - 1
    BY <1>1, HeadTailProperties
  <2>3. Len(Tail(s)) < Len(s)
    BY <1>1, <2>2
  <2> QED
    BY <2>1, <2>3, ShorterIsLighter
<1>3. ASSUME Len(s) > 1 PROVE FromSlash(s, 2) \in Strings /\ Len(FromSlash(s, 2)) < Len(s)
  <2>1. 2 \in 1..Len(s)
    BY <1>1, <1>3
  <2>2. FromSlash(s, 2) \in Strings /\ Len(FromSlash(s, 2)) = Len(s) - 2 + 1
    BY <2>1, FromSlashElements
  <2> QED
    BY <1>1, <2>2
<1>4. ASSUME RuleB(s) \/ RuleC(s) PROVE Weight(SlashRest(s)) < Weight(s)
  <2>1. Len(s) > 1 /\ s[2] \in Dots
    BY <1>4, Zenon DEF RuleB, RuleC, Dots
  <2>2. CASE Len(s) = 2
    <3>1. SlashRest(s) = <<"", "">>
      BY <2>2, Zenon DEF SlashRest
    <3> QED
      BY <2>1, <2>2, <3>1, SlashFacts, SlashIsLighter, Zenon
  <2>3. CASE Len(s) # 2
    <3>1. SlashRest(s) = FromSlash(s, 2)
      BY <2>3, Zenon DEF SlashRest
    <3> QED
      BY <1>3, <2>1, <3>1, ShorterIsLighter
  <2> QED
    BY <2>2, <2>3
<1>5. ASSUME RuleD(s) PROVE Weight(Empty) < Weight(s)
  <2>1. Len(s) = 1 /\ s[1] \in Dots
    BY <1>5 DEF RuleD
  <2> QED
    BY <2>1, SlashFacts, SlashIsLighter, Zenon
<1>6. ASSUME s # Empty, ~RuleA(s), ~RuleD(s) PROVE Weight(RestAfter(s)) < Weight(s)
  <2>0. Len(s) = 1 \/ Len(s) > 1
    BY <1>1, OneOrMore, Zenon
  <2>1. CASE s[1] = "" /\ Len(s) > 1
    <3>1. Moved(s) = 2
      BY <2>1, Zenon DEF Moved
    <3>2. FromSlash(s, Len(s)) = Empty
      BY FromSlashEnds
    <3>3. RestAfter(s) = FromSlash(s, 2)
      BY <3>1, <3>2, Zenon DEF RestAfter
    <3> QED
      BY <1>3, <2>1, <3>3, ShorterIsLighter
  <2>2. CASE s[1] = "" /\ Len(s) = 1
    <3>1. \A j \in 1..Len(s) : j = 1
      <4>1. Len(s) = 1
        BY <2>2
      <4> QED
        BY <4>1
    <3>2. \A j \in 1..Len(s) : s[j] = Empty[j]
      BY <2>2, <3>1, SlashFacts, Zenon
    <3>3. Len(s) = Len(Empty)
      BY <2>2, SlashFacts, Zenon
    <3> QED
      BY <1>6, <3>2, <3>3, SlashFacts, SameString
  <2>3. CASE s[1] # ""
    <3>1. Moved(s) = 1
      BY <2>3, Zenon DEF Moved
    <3>2. FromSlash(s, Len(s)) = Empty
      BY FromSlashEnds
    <3>3. RestAfter(s) = FromSlash(s, 1)
      BY <3>1, <3>2, Zenon DEF RestAfter
    <3> DEFINE f == FromSlash(s, 1)
    <3>4. 1 \in 1..Len(s)
      BY <1>1
    <3>5. /\ f \in Strings /\ Len(f) = Len(s) - 1 + 1
          /\ \A i \in 1..(Len(s) - 1 + 1) : f[i] = IF i = 1 THEN "" ELSE s[1 + i - 1]
      BY <3>4, FromSlashElements
    <3>6. f[1] = ""
      BY <3>4, FromSlashFacts
    <3> HIDE DEF f
    <3>7. Len(f) = Len(s)
      <4>1. Len(f) = Len(s) - 1 + 1
        BY <3>5
      <4> QED
        BY <1>1, <4>1
    <3>8. f[Len(f)] \in Dots => s[Len(s)] \in Dots
      <4>1. CASE Len(s) = 1
        BY <3>6, <3>7, <4>1, SlashFacts, Zenon
      <4>2. CASE Len(s) > 1
        <5>1. Len(s) \in 1..(Len(s) - 1 + 1) /\ Len(s) # 1 /\ 1 + Len(s) - 1 = Len(s)
          BY <1>1, <4>2, LastPlace, Zenon
        <5>2. f[Len(s)] = IF Len(s) = 1 THEN "" ELSE s[1 + Len(s) - 1]
          BY <3>5, <5>1
        <5> QED
          BY <3>7, <5>1, <5>2, Zenon
      <4> QED
        BY <2>0, <4>1, <4>2
    <3>9. Weight(f) < Weight(s)
      BY <2>3, <3>5, <3>6, <3>7, <3>8, SlashIsLighter, Zenon
    <3> QED
      BY <3>3, <3>9 DEF f
  <2> QED
    BY <2>0, <2>1, <2>2, <2>3
<1> QED
  BY <1>2, <1>4, <1>5, <1>6

(* Every round of the loop makes its input lighter, and a weight is a      *)
(* natural number: the loop ends within as many rounds as the name weighs, *)
(* three for each segment and two more, for names of every length.         *)
THEOREM LoopRunsDown ==
    Spec => [][Loop /\ pc' = "loop" => /\ Weight(input) \in Nat
                                       /\ Weight(input') < Weight(input)]_vars
<1>1. ASSUME PathInv, Loop, pc' = "loop"
      PROVE  Weight(input) \in Nat /\ Weight(input') < Weight(input)
  <2>1. input \in Strings
    BY <1>1 DEF PathInv, TypeOK
  <2>2. ~Return
    BY <1>1 DEF Return
  <2> QED
    BY <1>1, <2>1, <2>2, RulesLighten, ShorterIsLighter, Zenon
       DEF Loop, DropPrefix, DropDot, GoUp, DropDots, MoveSegment
<1>2. PathInv /\ [Next]_vars =>
        [Loop /\ pc' = "loop" => /\ Weight(input) \in Nat
                                 /\ Weight(input') < Weight(input)]_vars
  BY <1>1
<1> QED
  BY <1>2, PathInvariance, PTL DEF Spec

-----------------------------------------------------------------------------
(* The files: the contents of one, and a call. *)
Content == [there : BOOLEAN, blocks : Seq(Nat)]
Call == [op : {"none", "write", "read", "copy"}, file : Files \cup {""},
         from : Files \cup {""}, append : BOOLEAN,
         at : Nat, count : Nat, stamp : Nat, data : Seq(Nat)]

(* Calls keep to the files there are, and a copy goes to another file. *)
CallOn(p) ==
    /\ InCall(p) => call[p].file \in Files
    /\ call[p].op = "copy" => call[p].from \in Files /\ call[p].from # call[p].file

(* Files hold blocks. *)
FileTypeOK ==
    /\ disk \in [Files -> Content] /\ intent \in [Files -> Content]
    /\ call \in [Processes -> Call]
    /\ \A p \in Processes : CallOn(p)
    /\ calls \in Nat
    /\ excused \subseteq Files

(* A writer is alone on its file. *)
WriterAlone(f) ==
    \A p, q \in Processes : Writes(p, f) /\ (Writes(q, f) \/ Reads(q, f)) => p = q

(* Behind what the file had when the call opened it, or behind nothing,    *)
(* lie the blocks the call has written so far.                             *)
Stamps(n, x) == [k \in 1..n |-> x]
Kept(p) == IF call[p].append THEN intent[call[p].file].blocks ELSE <<>>

Growing(f) == \A p \in Processes : call[p].op = "write" /\ call[p].file = f =>
                 /\ call[p].at <= call[p].count
                 /\ disk[f] = File(Kept(p) \o Stamps(call[p].at, call[p].stamp))

(* A copy being made has the first blocks of what it is a copy of, ... *)
CopyGrowing(f) == \A p \in Processes : call[p].op = "copy" /\ call[p].file = f =>
                    /\ call[p].at <= Len(call[p].data)
                    /\ disk[f] = File(SubSeq(call[p].data, 1, call[p].at))

(* ... which stays as it was. *)
Original(f) == \A p \in Processes : call[p].op = "copy" /\ call[p].from = f =>
                 disk[f] = File(call[p].data)

(* Nobody is writing it: it is as intended. *)
AtRest(f) == (\A p \in Processes : ~Writes(p, f)) => disk[f] = intent[f]

(* A reader's buffer has the size of the file and, so far, its contents. *)
Reading(f) == \A p \in Processes : call[p].op = "read" /\ call[p].file = f =>
                 /\ Len(call[p].data) = Len(disk[f].blocks)
                 /\ call[p].at <= Len(call[p].data)
                 /\ \A k \in 1..call[p].at : call[p].data[k] = disk[f].blocks[k]

InOrder(f) == /\ WriterAlone(f) /\ Growing(f) /\ AtRest(f) /\ Reading(f)
              /\ CopyGrowing(f) /\ Original(f)

(* A copy that is in order is one of a file that is. *)
Linked == \A p \in Processes :
             call[p].op = "copy" /\ call[p].file \notin excused => call[p].from \notin excused

FileInv == FileTypeOK /\ Linked /\ \A f \in Files \ excused : InOrder(f)

-----------------------------------------------------------------------------
(* A call that is none, and the fields of one that begins. *)
LEMMA NoCallFacts == NoCall \in Call /\ NoCall.op = "none"
<1>1. <<>> \in Seq(Nat)
  BY EmptySeq
<1> QED
  BY <1>1 DEF NoCall, Call

(* The contents of a file are blocks and a flag. *)
LEMMA ContentFacts ==
    ASSUME NEW b \in Seq(Nat)
    PROVE  File(b) \in Content /\ File(b).blocks = b /\ File(b).there = TRUE
BY DEF File, Content

(* A file that is not there has no blocks. *)
LEMMA MissingFacts == Missing \in Content /\ Missing.blocks = <<>>
<1>1. <<>> \in Seq(Nat)
  BY EmptySeq
<1> QED
  BY <1>1 DEF Missing, Content

(* A file that a step leaves alone, with the calls on it, stays in order. *)
LEMMA Untouched ==
    ASSUME FileTypeOK, NEW f \in Files, InOrder(f),
           disk'[f] = disk[f], intent'[f] = intent[f],
           \A p \in Processes : (Writes(p, f) \/ Reads(p, f) \/ Writes(p, f)' \/ Reads(p, f)')
                                => call'[p] = call[p]
    PROVE  InOrder(f)'
<1>1. \A p \in Processes : /\ Writes(p, f)' <=> Writes(p, f)
                           /\ Reads(p, f)' <=> Reads(p, f)
  BY DEF Writes, Reads
<1>2. WriterAlone(f)'
  BY <1>1 DEF InOrder, WriterAlone
<1>3. Growing(f)'
  <2> SUFFICES ASSUME NEW p \in Processes, call'[p].op = "write", call'[p].file = f
               PROVE  /\ call'[p].at <= call'[p].count
                      /\ disk'[f] = File(Kept(p)' \o Stamps(call'[p].at, call'[p].stamp))
    BY DEF Growing
  <2>1. call'[p] = call[p] /\ call[p].file = f /\ call[p].op = "write"
    BY <1>1 DEF Writes
  <2>2. Kept(p)' = Kept(p)
    BY <2>1 DEF Kept
  <2> QED
    BY <2>1, <2>2 DEF InOrder, Growing
<1>4. AtRest(f)'
  BY <1>1 DEF InOrder, AtRest
<1>5. Reading(f)'
  BY DEF InOrder, Reading, Reads
<1>6. CopyGrowing(f)'
  BY DEF InOrder, CopyGrowing, Writes
<1>7. Original(f)'
  BY DEF InOrder, Original, Reads
<1> QED
  BY <1>2, <1>3, <1>4, <1>5, <1>6, <1>7 DEF InOrder

(* A file that nobody uses and that is as intended is in order. *)
LEMMA Unused ==
    ASSUME NEW f \in Files, \A p \in Processes : ~Writes(p, f) /\ ~Reads(p, f),
           disk[f] = intent[f]
    PROVE  InOrder(f)
BY DEF InOrder, WriterAlone, Growing, AtRest, Reading, CopyGrowing, Original, Writes, Reads

(* Copies go on, and with an original that is excused goes its copy. *)
LEMMA LinkedKept ==
    ASSUME FileInv, excused \subseteq excused',
           \A q \in Processes : call'[q].op = "copy" =>
               call[q].op = "copy" /\ call'[q].file = call[q].file /\ call'[q].from = call[q].from,
           \A q \in Processes : call[q].op = "copy" /\ call[q].from \in excused' \ excused
               => call[q].file \in excused'
    PROVE  Linked'
BY DEF FileInv, Linked

(* What is being written and is in order nobody copies. *)
LEMMA WrittenIsNotCopied ==
    ASSUME FileInv, NEW f \in Files \ excused, NEW w \in Processes, Writes(w, f)
    PROVE  \A q \in Processes : ~Reads(q, f)
<1> SUFFICES ASSUME NEW q \in Processes, Reads(q, f) PROVE FALSE
  OBVIOUS
<1>1. q = w
  BY DEF FileInv, InOrder, WriterAlone
<1>2. CallOn(w)
  BY DEF FileInv, FileTypeOK
<1> QED
  BY <1>1, <1>2 DEF Writes, Reads, CallOn

(* Nobody has called yet. *)
LEMMA FileInitHolds == FileInit => FileInv
<1> SUFFICES ASSUME FileInit PROVE FileInv
  OBVIOUS
<1>1. FileTypeOK
  BY NoCallFacts, MissingFacts DEF FileInit, FileTypeOK, InCall, CallOn
<1>2. ASSUME NEW f \in Files PROVE InOrder(f)
  <2>1. \A p \in Processes : ~Writes(p, f) /\ ~Reads(p, f)
    BY NoCallFacts DEF FileInit, Writes, Reads
  <2>2. disk[f] = intent[f]
    BY DEF FileInit
  <2> QED
    BY <2>1, <2>2, Unused
<1>3. Linked
  BY NoCallFacts DEF FileInit, Linked
<1> QED
  BY <1>1, <1>2, <1>3 DEF FileInv

(* The file a call opens, opened to append or not. *)
LEMMA OpenedFacts ==
    ASSUME FileTypeOK, NEW f \in Files, NEW append \in BOOLEAN
    PROVE  /\ Opened(f, append) \in Content
           /\ disk[f].blocks \in Seq(Nat) /\ intent[f].blocks \in Seq(Nat)
           /\ Opened(f, append) = File(IF append THEN disk[f].blocks ELSE <<>>)
<1>1. disk[f] \in Content /\ intent[f] \in Content
  BY DEF FileTypeOK
<1>2. disk[f].blocks \in Seq(Nat) /\ intent[f].blocks \in Seq(Nat)
  BY <1>1 DEF Content
<1>3. <<>> \in Seq(Nat)
  BY EmptySeq
<1> QED
  BY <1>2, <1>3, ContentFacts DEF Opened

(* A call that begins on p has no effect on the files others use. *)
LEMMA NobodyUses ==
    ASSUME NEW f \in Files
    PROVE  /\ Writers(f) = {} <=> \A q \in Processes : ~Writes(q, f)
           /\ Readers(f) = {} <=> \A q \in Processes : ~Reads(q, f)
BY DEF Writers, Readers

(* A file that is opened to be written: it is excused if anybody uses it,  *)
(* and the copies being made of it with it.                                *)
LEMMA DisturbedFacts ==
    ASSUME FileInv, NEW f \in Files
    PROVE  /\ f \notin Disturbed(f) => \A q \in Processes : ~Writes(q, f) /\ ~Reads(q, f)
           /\ Disturbed(f) \subseteq Files
           /\ \A q \in Processes :
                call[q].op = "copy" /\ call[q].from \in Disturbed(f) \ excused
                   => call[q].file \in Disturbed(f)
<1>1. f \notin Disturbed(f) => \A q \in Processes : ~Writes(q, f) /\ ~Reads(q, f)
  BY NobodyUses DEF Disturbed
<1>2. Disturbed(f) \subseteq Files
  BY DEF Disturbed
<1>3. ASSUME NEW q \in Processes, call[q].op = "copy", call[q].from \in Disturbed(f) \ excused
      PROVE  call[q].file \in Disturbed(f)
  <2>1. call[q].file \in Files /\ call[q].from \in Files
    BY <1>3 DEF FileInv, FileTypeOK, CallOn, InCall
  <2>2. CASE call[q].from = f
    <3>1. q \in Readers(f) /\ Writes(q, call[q].file)
      BY <1>3, <2>2 DEF Readers, Reads, Writes
    <3> QED
      BY <2>1, <3>1 DEF Disturbed
  <2>3. CASE call[q].from # f
    <3>1. PICK w \in Processes : Writes(w, call[q].from)
      BY <1>3, <2>3 DEF Disturbed, Readers
    <3>2. Reads(q, call[q].from)
      BY <1>3 DEF Reads
    <3> QED
      BY <1>3, <2>1, <3>1, <3>2, WrittenIsNotCopied
  <2> QED
    BY <2>2, <2>3
<1> QED
  BY <1>1, <1>2, <1>3

(* fs.write opens the file. *)
LEMMA WriteOpensKeeps ==
    ASSUME FileInv, NEW p \in Processes, NEW f \in Files, NEW append \in BOOLEAN,
           NEW count \in 0..MaxBlocks, WriteOpens(p, f, append, count)
    PROVE  FileInv'
<1>1. /\ ~InCall(p) /\ calls' = calls + 1
      /\ disk' = [disk EXCEPT ![f] = Opened(f, append)]
      /\ intent' = intent
      /\ excused' = excused \cup Disturbed(f)
  BY DEF WriteOpens, NewCall
<1>2. PICK c : /\ call' = [call EXCEPT ![p] = c]
               /\ c = [NoCall EXCEPT !.op = "write", !.file = f, !.append = append,
                                     !.count = count, !.stamp = calls']
  BY DEF WriteOpens
<1>3. FileTypeOK
  BY DEF FileInv
<1>4. /\ c.op = "write" /\ c.file = f /\ c.append = append
      /\ c.at = 0 /\ c.count = count
  BY <1>2 DEF NoCall
<1>5. c \in Call
  <2>1. calls' \in Nat /\ count \in Nat
    BY <1>1, <1>3, FileAssumption DEF FileTypeOK
  <2>2. <<>> \in Seq(Nat)
    BY EmptySeq
  <2> QED
    BY <1>2, <2>1, <2>2 DEF NoCall, Call
<1>6. call \in [Processes -> Call]
  BY <1>3 DEF FileTypeOK
<1>7. call'[p] = c /\ \A q \in Processes : q # p => call'[q] = call[q]
  BY <1>2, <1>6
<1>8. FileTypeOK'
  <2>1. disk' \in [Files -> Content] /\ intent' \in [Files -> Content]
    BY <1>1, <1>3, OpenedFacts DEF FileTypeOK
  <2>2. call' \in [Processes -> Call]
    BY <1>2, <1>5, <1>6
  <2>3. \A q \in Processes : CallOn(q)'
    BY <1>3, <1>4, <1>7 DEF InCall, CallOn, FileTypeOK
  <2>4. calls' \in Nat /\ excused' \subseteq Files
    BY <1>1, <1>3, DisturbedFacts DEF FileTypeOK
  <2> QED
    BY <2>1, <2>2, <2>3, <2>4 DEF FileTypeOK
<1>9. ASSUME NEW g \in Files \ excused' PROVE InOrder(g)'
  <2>1. g \in Files \ excused /\ InOrder(g)
    BY <1>1 DEF FileInv
  <2>2. ~Writes(p, g) /\ ~Reads(p, g)
    BY <1>1 DEF InCall, Writes, Reads
  <2>3. CASE g # f
    <3>1. disk'[g] = disk[g] /\ intent'[g] = intent[g]
      BY <1>1, <1>3, <2>3 DEF FileTypeOK
    <3>2. ~Writes(p, g)' /\ ~Reads(p, g)'
      BY <1>4, <1>7, <2>3 DEF Writes, Reads
    <3> QED
      BY <1>3, <1>7, <2>1, <2>2, <3>1, <3>2, Untouched
  <2>4. CASE g = f
    <3>2. \A q \in Processes : ~Writes(q, f) /\ ~Reads(q, f)
      BY <1>1, <2>4, DisturbedFacts
    <3>3. disk[f] = intent[f]
      BY <2>1, <2>4, <3>2 DEF InOrder, AtRest
    <3>4. \A q \in Processes : (Writes(q, f)' => q = p) /\ ~Reads(q, f)'
      BY <1>4, <1>7, <3>2 DEF Writes, Reads
    <3>5. WriterAlone(f)' /\ Reading(f)' /\ CopyGrowing(f)' /\ Original(f)'
      BY <1>4, <1>7, <3>4
         DEF WriterAlone, Reading, CopyGrowing, Original, Writes, Reads
    <3>6. Writes(p, f)'
      BY <1>4, <1>7 DEF Writes
    <3>7. AtRest(f)'
      BY <3>6 DEF AtRest
    <3>8. disk'[f] = File(Kept(p)' \o Stamps(call'[p].at, call'[p].stamp))
      <4>1. Stamps(0, c.stamp) = <<>>
        BY DEF Stamps
      <4>2. call'[p].at = 0 /\ call'[p].stamp = c.stamp
        BY <1>4, <1>7
      <4>3. Kept(p)' = IF append THEN disk[f].blocks ELSE <<>>
        BY <1>1, <1>4, <1>7, <3>3 DEF Kept
      <4>4. Kept(p)' \in Seq(Nat)
        BY <1>3, <4>3, OpenedFacts, EmptySeq
      <4>5. Kept(p)' \o <<>> = Kept(p)'
        BY <4>4, ConcatEmptySeq
      <4>6. disk'[f] = Opened(f, append)
        BY <1>1, <1>3 DEF FileTypeOK
      <4>7. disk'[f] = File(Kept(p)')
        BY <4>3, <4>6 DEF Opened
      <4> QED
        BY <4>1, <4>2, <4>5, <4>7
    <3>9. call'[p].at <= call'[p].count
      BY <1>4, <1>7, FileAssumption
    <3>10. Growing(f)'
      BY <3>4, <3>8, <3>9 DEF Growing, Writes
    <3> QED
      BY <2>4, <3>5, <3>7, <3>10 DEF InOrder
  <2> QED
    BY <2>3, <2>4
<1>10. Linked'
  BY <1>1, <1>4, <1>7, DisturbedFacts, LinkedKept
<1> QED
  BY <1>8, <1>9, <1>10 DEF FileInv

(* Data that is neither text nor array: the file has been opened. *)
LEMMA WriteRefusedKeeps ==
    ASSUME FileInv, NEW p \in Processes, NEW f \in Files, NEW append \in BOOLEAN,
           WriteRefused(p, f, append)
    PROVE  FileInv'
<1>1. /\ ~InCall(p) /\ calls' = calls + 1 /\ call' = call
      /\ disk' = [disk EXCEPT ![f] = Opened(f, append)]
      /\ intent' = [intent EXCEPT ![f] = File(IF append THEN intent[f].blocks ELSE <<>>)]
      /\ excused' = excused \cup Disturbed(f)
  BY DEF WriteRefused, NewCall
<1>2. FileTypeOK
  BY DEF FileInv
<1>3. FileTypeOK'
  <2>1. disk' \in [Files -> Content]
    BY <1>1, <1>2, OpenedFacts DEF FileTypeOK
  <2>2. File(IF append THEN intent[f].blocks ELSE <<>>) \in Content
    BY <1>2, OpenedFacts, ContentFacts, EmptySeq
  <2>3. intent' \in [Files -> Content]
    BY <1>1, <1>2, <2>2 DEF FileTypeOK
  <2>4. calls' \in Nat /\ excused' \subseteq Files
    BY <1>1, <1>2, DisturbedFacts DEF FileTypeOK
  <2>5. /\ call' \in [Processes -> Call]
        /\ \A q \in Processes : CallOn(q)'
    BY <1>1, <1>2 DEF FileTypeOK, InCall, CallOn
  <2> QED
    BY <2>1, <2>3, <2>4, <2>5 DEF FileTypeOK
<1>4. ASSUME NEW g \in Files \ excused' PROVE InOrder(g)'
  <2>1. g \in Files \ excused /\ InOrder(g)
    BY <1>1 DEF FileInv
  <2>2. CASE g # f
    <3>1. disk'[g] = disk[g] /\ intent'[g] = intent[g]
      BY <1>1, <1>2, <2>2 DEF FileTypeOK
    <3> QED
      BY <1>1, <1>2, <2>1, <3>1, Untouched
  <2>3. CASE g = f
    <3>2. \A q \in Processes : ~Writes(q, f) /\ ~Reads(q, f)
      BY <1>1, <2>3, DisturbedFacts
    <3>3. \A q \in Processes : ~Writes(q, f)' /\ ~Reads(q, f)'
      BY <1>1, <3>2 DEF Writes, Reads
    <3>4. disk[f] = intent[f]
      BY <2>1, <2>3, <3>2 DEF InOrder, AtRest
    <3>5. disk'[f] = intent'[f]
      BY <1>1, <1>2, <3>4 DEF FileTypeOK, Opened
    <3> QED
      BY <2>3, <3>3, <3>5
         DEF InOrder, WriterAlone, Growing, AtRest, Reading, CopyGrowing, Original, Writes, Reads
  <2> QED
    BY <2>2, <2>3
<1>5. Linked'
  BY <1>1, DisturbedFacts, LinkedKept
<1> QED
  BY <1>3, <1>4, <1>5 DEF FileInv

(* Storing behind the last block is appending. *)
LEMMA StoredFacts ==
    ASSUME NEW b \in Seq(Nat), NEW m \in Nat \ {0}, NEW x \in Nat
    PROVE  /\ Stored(b, m, x) \in Seq(Nat)
           /\ m = Len(b) + 1 => Stored(b, m, x) = Append(b, x)
<1>1. Len(b) \in Nat /\ \A k \in 1..Len(b) : b[k] \in Nat
  BY LenProperties, ElementOfSeq
<1> DEFINE n == IF m > Len(b) THEN m ELSE Len(b)
           e(k) == IF k = m THEN x ELSE IF k <= Len(b) THEN b[k] ELSE Garbage
<1>2. n \in Nat
  BY <1>1
<1>3. \A k \in 1..n : e(k) \in Nat
  BY <1>1 DEF Garbage
<1>4. Stored(b, m, x) = [k \in 1..n |-> e(k)]
  BY DEF Stored
<1>5. [k \in 1..n |-> e(k)] \in Seq(Nat) /\ Len([k \in 1..n |-> e(k)]) = n
  <2> HIDE DEF n, e
  <2> QED
    BY <1>2, <1>3
<1>6. ASSUME m = Len(b) + 1 PROVE Stored(b, m, x) = Append(b, x)
  <2>1. n = Len(b) + 1
    BY <1>1, <1>6
  <2>2. /\ Append(b, x) \in Seq(Nat) /\ Len(Append(b, x)) = Len(b) + 1
        /\ \A k \in 1..Len(b) : Append(b, x)[k] = b[k]
        /\ Append(b, x)[Len(b) + 1] = x
    BY AppendProperties
  <2>3. ASSUME NEW k \in 1..n PROVE Stored(b, m, x)[k] = Append(b, x)[k]
    <3>1. Stored(b, m, x)[k] = e(k)
      BY <1>4
    <3>2. CASE k = Len(b) + 1
      BY <1>6, <2>2, <3>1, <3>2
    <3>3. CASE k # Len(b) + 1
      <4>1. k \in 1..Len(b) /\ k # m /\ k <= Len(b)
        BY <1>1, <1>6, <2>1, <3>3
      <4> QED
        BY <2>2, <3>1, <4>1
    <3> QED
      BY <3>2, <3>3
  <2> HIDE DEF n, e
  <2> QED
    BY <1>4, <1>5, <2>1, <2>2, <2>3, SeqEqual
<1> QED
  BY <1>4, <1>5, <1>6

(* Blocks of one write, and one more of them. *)
LEMMA StampsFacts ==
    ASSUME NEW n \in Nat, NEW x \in Nat
    PROVE  /\ Stamps(n, x) \in Seq(Nat) /\ Len(Stamps(n, x)) = n
           /\ Stamps(n + 1, x) = Append(Stamps(n, x), x)
<1>1. Stamps(n, x) \in Seq(Nat) /\ Len(Stamps(n, x)) = n
  BY DEF Stamps
<1>2. Stamps(n + 1, x) \in Seq(Nat) /\ Len(Stamps(n + 1, x)) = n + 1
  BY DEF Stamps
<1>3. /\ Append(Stamps(n, x), x) \in Seq(Nat) /\ Len(Append(Stamps(n, x), x)) = n + 1
      /\ \A k \in 1..n : Append(Stamps(n, x), x)[k] = Stamps(n, x)[k]
      /\ Append(Stamps(n, x), x)[n + 1] = x
  BY <1>1, AppendProperties
<1>4. ASSUME NEW k \in 1..(n + 1) PROVE Stamps(n + 1, x)[k] = Append(Stamps(n, x), x)[k]
  <2>1. Stamps(n + 1, x)[k] = x
    BY DEF Stamps
  <2>2. CASE k = n + 1
    BY <1>3, <2>1, <2>2
  <2>3. CASE k # n + 1
    <3>1. k \in 1..n
      BY <2>3
    <3>2. Stamps(n, x)[k] = x
      BY <3>1 DEF Stamps
    <3> QED
      BY <1>3, <2>1, <3>1, <3>2
  <2> QED
    BY <2>2, <2>3
<1> QED
  BY <1>1, <1>2, <1>3, <1>4, SeqEqual

(* What a step of a call may change of it. *)
LEMMA CallFacts ==
    ASSUME FileTypeOK, NEW p \in Processes
    PROVE  /\ call[p] \in Call /\ call \in [Processes -> Call]
           /\ call[p].at \in Nat /\ call[p].count \in Nat /\ call[p].stamp \in Nat
           /\ call[p].data \in Seq(Nat) /\ call[p].append \in BOOLEAN
           /\ InCall(p) => call[p].file \in Files
           /\ call[p].op = "copy" => call[p].from \in Files /\ call[p].from # call[p].file
<1>1. call[p] \in Call /\ call \in [Processes -> Call]
  BY DEF FileTypeOK
<1>2. CallOn(p)
  BY DEF FileTypeOK
<1> QED
  BY <1>1, <1>2 DEF Call, CallOn

(* A call with one field changed. *)
LEMMA CallMoves ==
    ASSUME NEW c \in Call, NEW n \in Nat
    PROVE  /\ [c EXCEPT !.at = n] \in Call
           /\ [c EXCEPT !.at = n].op = c.op /\ [c EXCEPT !.at = n].file = c.file
           /\ [c EXCEPT !.at = n].append = c.append /\ [c EXCEPT !.at = n].at = n
           /\ [c EXCEPT !.at = n].count = c.count /\ [c EXCEPT !.at = n].stamp = c.stamp
           /\ [c EXCEPT !.at = n].from = c.from /\ [c EXCEPT !.at = n].data = c.data
BY DEF Call

(* A block is written. *)
LEMMA WriteBlockKeeps ==
    ASSUME FileInv, NEW p \in Processes, WriteBlock(p)
    PROVE  FileInv'
<1>0. PICK f, x : f = call[p].file /\ x = call[p].stamp
  OBVIOUS
<1> DEFINE b == disk[f].blocks
           m == IF call[p].append THEN Len(b) + 1 ELSE call[p].at + 1
<1>1. /\ call[p].op = "write" /\ call[p].at < call[p].count
      /\ disk' = [disk EXCEPT ![f].blocks = Stored(b, m, x)]
      /\ UNCHANGED <<leaked, calls, restarts, intent, excused>>
  BY <1>0 DEF WriteBlock
<1>2. PICK c : call' = [call EXCEPT ![p] = c] /\ c = [call[p] EXCEPT !.at = call[p].at + 1]
  BY DEF WriteBlock
<1>3. FileTypeOK
  BY DEF FileInv
<1>4. /\ call[p] \in Call /\ call \in [Processes -> Call]
      /\ call[p].at \in Nat /\ call[p].count \in Nat /\ x \in Nat
      /\ call[p].append \in BOOLEAN /\ f \in Files
  BY <1>0, <1>1, <1>3, CallFacts DEF InCall
<1>5. /\ c \in Call /\ c.op = "write" /\ c.file = f /\ c.append = call[p].append
      /\ c.at = call[p].at + 1 /\ c.count = call[p].count /\ c.stamp = x
  <2>1. c \in Call
    <3>1. PICK old \in Call, n \in Nat : old = call[p] /\ n = call[p].at + 1
      BY <1>4
    <3> QED
      BY <1>2, <3>1, CallMoves
  <2>2. c.op = "write" /\ c.file = f /\ c.at = call[p].at + 1 /\ c.count = call[p].count /\ c.stamp = x
    BY <1>0, <1>1, <1>2, <1>4 DEF Call
  <2>3. c.append = call[p].append
    BY <1>2, <1>4 DEF Call
  <2> QED
    BY <2>1, <2>2, <2>3
<1>6. call'[p] = c /\ \A q \in Processes : q # p => call'[q] = call[q]
  BY <1>2, <1>4
<1>7. b \in Seq(Nat) /\ Len(b) \in Nat /\ m \in Nat \ {0}
  <2>1. disk[f] \in Content
    BY <1>3, <1>4 DEF FileTypeOK
  <2>2. b \in Seq(Nat)
    BY <2>1 DEF Content
  <2>3. Len(b) \in Nat
    BY <2>2, LenProperties
  <2> QED
    BY <1>4, <2>2, <2>3
<1>8. Stored(b, m, x) \in Seq(Nat) /\ (m = Len(b) + 1 => Stored(b, m, x) = Append(b, x))
  <2> HIDE DEF b, m
  <2> QED
    BY <1>4, <1>7, StoredFacts
<1>9. /\ disk'[f] = [disk[f] EXCEPT !.blocks = Stored(b, m, x)]
      /\ \A g \in Files : g # f => disk'[g] = disk[g]
      /\ disk' \in [Files -> Content]
  <2> DEFINE new == Stored(b, m, x)
  <2> HIDE DEF b, m, new
  <2>1. disk' = [disk EXCEPT ![f] = [disk[f] EXCEPT !.blocks = new]] /\ new \in Seq(Nat)
    BY <1>1, <1>8 DEF new
  <2>2. disk \in [Files -> Content]
    BY <1>3 DEF FileTypeOK
  <2>3. [disk[f] EXCEPT !.blocks = new] \in Content
    BY <1>4, <2>1, <2>2 DEF Content
  <2> QED
    BY <1>4, <2>1, <2>2, <2>3 DEF new
<1> HIDE DEF b, m
<1>10. FileTypeOK'
  <2>1. intent' \in [Files -> Content] /\ calls' \in Nat /\ excused' \subseteq Files
    BY <1>1, <1>3 DEF FileTypeOK
  <2>2. call' \in [Processes -> Call]
    BY <1>2, <1>4, <1>5
  <2>3. \A q \in Processes : CallOn(q)'
    BY <1>3, <1>4, <1>5, <1>6 DEF InCall, CallOn, FileTypeOK
  <2> QED
    BY <1>9, <2>1, <2>2, <2>3 DEF FileTypeOK
<1>11. ASSUME NEW g \in Files \ excused' PROVE InOrder(g)'
  <2>1. g \in Files \ excused /\ InOrder(g)
    BY <1>1 DEF FileInv
  <2>2. CASE g # f
    <3>1. disk'[g] = disk[g] /\ intent'[g] = intent[g]
      BY <1>1, <1>9, <2>2
    <3>2. ~Writes(p, g) /\ ~Reads(p, g) /\ ~Writes(p, g)' /\ ~Reads(p, g)'
      BY <1>0, <1>1, <1>5, <1>6, <2>2 DEF Writes, Reads
    <3> QED
      BY <1>3, <1>6, <2>1, <3>1, <3>2, Untouched
  <2>3. CASE g = f
    <3>1. Writes(p, f) /\ Writes(p, f)'
      BY <1>0, <1>1, <1>5, <1>6 DEF Writes
    <3>2. \A q \in Processes : q # p => ~Writes(q, f) /\ ~Reads(q, f)
      BY <2>1, <2>3, <3>1 DEF InOrder, WriterAlone
    <3>3. \A q \in Processes : (Writes(q, f)' => q = p) /\ ~Reads(q, f)'
      BY <1>5, <1>6, <3>2 DEF Writes, Reads
    <3>4. /\ WriterAlone(f)' /\ AtRest(f)' /\ Reading(f)'
          /\ CopyGrowing(f)' /\ Original(f)'
      BY <1>5, <1>6, <3>1, <3>3
         DEF WriterAlone, AtRest, Reading, CopyGrowing, Original, Writes, Reads
    <3>5. disk[f] = File(Kept(p) \o Stamps(call[p].at, x))
      BY <1>0, <1>1, <2>1, <2>3 DEF InOrder, Growing
    <3> DEFINE s == Kept(p)
               t == Stamps(call[p].at, x)
    <3>6. s \in Seq(Nat) /\ (~call[p].append => s = <<>>)
      <4>1. intent[f].blocks \in Seq(Nat)
        BY <1>3, <1>4, OpenedFacts
      <4>2. <<>> \in Seq(Nat)
        BY EmptySeq
      <4> QED
        BY <1>0, <1>4, <4>1, <4>2 DEF Kept
    <3>7. t \in Seq(Nat) /\ Len(t) = call[p].at /\ Stamps(call[p].at + 1, x) = Append(t, x)
      BY <1>4, StampsFacts
    <3>8. Kept(p)' = s
      BY <1>0, <1>1, <1>5, <1>6 DEF Kept
    <3> HIDE DEF s, t
    <3>9. s \o t \in Seq(Nat)
      BY <3>6, <3>7, ConcatProperties
    <3>10. b = s \o t /\ disk[f].there = TRUE
      BY <3>5, <3>9, ContentFacts DEF b, s, t
    <3>11. m = Len(b) + 1
      <4>1. CASE call[p].append
        BY <4>1 DEF m
      <4>2. CASE ~call[p].append
        <5>1. <<>> \o t = t
          BY <3>7, ConcatEmptySeq
        <5>2. b = t
          BY <3>6, <3>10, <4>2, <5>1
        <5> QED
          BY <3>7, <4>2, <5>2 DEF m
      <4> QED
        BY <4>1, <4>2
    <3>12. Stored(b, m, x) = s \o Stamps(call[p].at + 1, x)
      <4>1. Stored(b, m, x) = Append(b, x)
        BY <1>8, <3>11
      <4>2. Append(s \o t, x) = s \o Append(t, x)
        <5>1. PICK S : S = Nat
          OBVIOUS
        <5>2. s \in Seq(S) /\ t \in Seq(S) /\ x \in S
          BY <1>4, <3>6, <3>7, <5>1
        <5> QED
          BY <5>2, SMT
      <4> QED
        BY <3>7, <3>10, <4>1, <4>2
    <3>13. disk'[f] = File(Kept(p)' \o Stamps(call'[p].at, call'[p].stamp))
      <4> DEFINE new == Stored(b, m, x)
      <4> HIDE DEF new
      <4>1. disk'[f] = [disk[f] EXCEPT !.blocks = new] /\ disk[f] = File(b)
        BY <1>9, <3>5, <3>10 DEF new, s, t
      <4>2. disk'[f] = File(new)
        <5>1. disk'[f] = [File(b) EXCEPT !.blocks = new]
          BY <4>1
        <5> QED
          BY <5>1 DEF File
      <4>3. new = s \o Stamps(call[p].at + 1, x)
        BY <3>12 DEF new
      <4> QED
        BY <1>5, <1>6, <3>8, <4>2, <4>3
    <3>14. call'[p].at <= call'[p].count
      BY <1>1, <1>4, <1>5, <1>6
    <3>15. Growing(f)'
      BY <3>3, <3>13, <3>14 DEF Growing, Writes
    <3> QED
      BY <2>3, <3>4, <3>15 DEF InOrder
  <2> QED
    BY <2>2, <2>3
<1>12. Linked'
  BY <1>1, <1>5, <1>6, LinkedKept
<1> QED
  BY <1>10, <1>11, <1>12 DEF FileInv

(* A write that fails unseen excuses its file. *)
LEMMA WriteFailsUnseenKeeps ==
    ASSUME FileInv, NEW p \in Processes, WriteFailsUnseen(p)
    PROVE  FileInv'
<1>1. /\ call[p].op = "write" /\ excused' = excused \cup {call[p].file}
      /\ UNCHANGED <<disk, leaked, calls, restarts, intent>>
  BY DEF WriteFailsUnseen
<1>2. PICK c : call' = [call EXCEPT ![p] = c] /\ c = [call[p] EXCEPT !.at = call[p].count]
  BY DEF WriteFailsUnseen
<1>3. FileTypeOK
  BY DEF FileInv
<1>4. /\ call[p] \in Call /\ call \in [Processes -> Call] /\ call[p].count \in Nat
      /\ call[p].file \in Files
  BY <1>1, <1>3, CallFacts DEF InCall
<1>5. c \in Call /\ c.op = call[p].op /\ c.file = call[p].file
  <2>1. PICK old \in Call, n \in Nat : old = call[p] /\ n = call[p].count
    BY <1>4
  <2> QED
    BY <1>2, <2>1, CallMoves
<1>6. call'[p] = c /\ \A q \in Processes : q # p => call'[q] = call[q]
  BY <1>2, <1>4
<1>7. FileTypeOK'
  <2>1. call' \in [Processes -> Call]
    BY <1>2, <1>4, <1>5
  <2>2. \A q \in Processes : CallOn(q)'
    BY <1>1, <1>3, <1>4, <1>5, <1>6 DEF InCall, CallOn, FileTypeOK
  <2> QED
    BY <1>1, <1>3, <1>4, <2>1, <2>2 DEF FileTypeOK
<1>8. ASSUME NEW g \in Files \ excused' PROVE InOrder(g)'
  <2>1. g \in Files \ excused /\ InOrder(g) /\ g # call[p].file
    BY <1>1 DEF FileInv
  <2>2. ~Writes(p, g) /\ ~Reads(p, g) /\ ~Writes(p, g)' /\ ~Reads(p, g)'
    BY <1>1, <1>5, <1>6, <2>1 DEF Writes, Reads
  <2> QED
    BY <1>1, <1>3, <1>6, <2>1, <2>2, Untouched
<1>9. Linked'
  <2>1. ASSUME NEW q \in Processes, call[q].op = "copy", call[q].from \in excused' \ excused
        PROVE  FALSE
    <3>1. Writes(p, call[q].from) /\ Reads(q, call[q].from) /\ call[q].from \in Files \ excused
      BY <1>1, <1>4, <2>1 DEF Writes, Reads
    <3> QED
      BY <3>1, WrittenIsNotCopied
  <2> QED
    BY <1>1, <1>5, <1>6, <2>1, LinkedKept
<1> QED
  BY <1>7, <1>8, <1>9 DEF FileInv

(* The end of a write: all it had to write lies in the file. *)
LEMMA WriteClosesKeeps ==
    ASSUME FileInv, NEW p \in Processes, WriteCloses(p)
    PROVE  FileInv'
<1>0. PICK f, n, x : f = call[p].file /\ n = call[p].count /\ x = call[p].stamp
  OBVIOUS
<1> DEFINE new == IF call[p].append THEN intent[f].blocks \o Stamps(n, x) ELSE Stamps(n, x)
<1>1. /\ call[p].op = "write" /\ call[p].at = n
      /\ call' = [call EXCEPT ![p] = NoCall]
      /\ intent' = [intent EXCEPT ![f] = File(new)]
      /\ UNCHANGED <<disk, leaked, calls, restarts, excused>>
  BY <1>0 DEF WriteCloses, Stamps
<1>2. FileTypeOK
  BY DEF FileInv
<1>3. /\ call \in [Processes -> Call] /\ n \in Nat /\ x \in Nat
      /\ call[p].append \in BOOLEAN /\ f \in Files
  BY <1>0, <1>1, <1>2, CallFacts DEF InCall
<1>4. call'[p] = NoCall /\ \A q \in Processes : q # p => call'[q] = call[q]
  BY <1>1, <1>3
<1>5. Stamps(n, x) \in Seq(Nat) /\ intent[f].blocks \in Seq(Nat)
  BY <1>2, <1>3, StampsFacts, OpenedFacts
<1>6. new \in Seq(Nat)
  BY <1>3, <1>5, ConcatProperties
<1>7. new = Kept(p) \o Stamps(n, x)
  <2>1. <<>> \o Stamps(n, x) = Stamps(n, x)
    BY <1>5, ConcatEmptySeq
  <2> QED
    BY <1>0, <1>3, <2>1 DEF Kept
<1> HIDE DEF new
<1>8. intent' \in [Files -> Content] /\ intent'[f] = File(new)
      /\ \A g \in Files : g # f => intent'[g] = intent[g]
  BY <1>1, <1>2, <1>3, <1>6, ContentFacts DEF FileTypeOK
<1>9. FileTypeOK'
  <2>1. call' \in [Processes -> Call]
    BY <1>1, <1>3, NoCallFacts
  <2>2. \A q \in Processes : CallOn(q)'
    BY <1>2, <1>4, NoCallFacts DEF InCall, CallOn, FileTypeOK
  <2> QED
    BY <1>1, <1>2, <1>8, <2>1, <2>2 DEF FileTypeOK
<1>10. ASSUME NEW g \in Files \ excused' PROVE InOrder(g)'
  <2>1. g \in Files \ excused /\ InOrder(g)
    BY <1>1 DEF FileInv
  <2>2. ~Writes(p, g)' /\ ~Reads(p, g)'
    BY <1>4, NoCallFacts DEF Writes, Reads
  <2>3. CASE g # f
    <3>1. ~Writes(p, g) /\ ~Reads(p, g)
      BY <1>0, <1>1, <2>3 DEF Writes, Reads
    <3> QED
      BY <1>1, <1>2, <1>4, <1>8, <2>1, <2>2, <2>3, <3>1, Untouched
  <2>4. CASE g = f
    <3>1. Writes(p, f)
      BY <1>0, <1>1 DEF Writes
    <3>2. \A q \in Processes : q # p => ~Writes(q, f) /\ ~Reads(q, f)
      BY <2>1, <2>4, <3>1 DEF InOrder, WriterAlone
    <3>3. \A q \in Processes : ~Writes(q, f)' /\ ~Reads(q, f)'
      BY <1>4, <2>2, <2>4, <3>2 DEF Writes, Reads
    <3>4. disk[f] = File(Kept(p) \o Stamps(n, x))
      BY <1>0, <1>1, <2>1, <2>4 DEF InOrder, Growing
    <3>5. disk'[f] = intent'[f]
      BY <1>1, <1>7, <1>8, <3>4
    <3> QED
      BY <2>4, <3>3, <3>5
         DEF InOrder, WriterAlone, Growing, AtRest, Reading, CopyGrowing, Original, Writes, Reads
  <2> QED
    BY <2>3, <2>4
<1>11. Linked'
  BY <1>1, <1>4, NoCallFacts, LinkedKept
<1> QED
  BY <1>9, <1>10, <1>11 DEF FileInv

(* fs.read opens the file and makes a buffer of its size. *)
LEMMA ReadOpensKeeps ==
    ASSUME FileInv, NEW p \in Processes, NEW f \in Files, ReadOpens(p, f)
    PROVE  FileInv'
<1> DEFINE n == Len(disk[f].blocks)
           blank == [k \in 1..n |-> Garbage]
<1>1. /\ ~InCall(p) /\ calls' = calls + 1
      /\ excused' = IF Writers(f) # {} THEN excused \cup {f} ELSE excused
      /\ UNCHANGED <<disk, intent>>
  BY DEF ReadOpens, NewCall
<1>2. PICK c : /\ call' = [call EXCEPT ![p] = c]
               /\ c = [NoCall EXCEPT !.op = "read", !.file = f, !.data = blank]
  BY DEF ReadOpens
<1>3. FileTypeOK
  BY DEF FileInv
<1>4. n \in Nat
  <2>1. disk[f].blocks \in Seq(Nat)
    BY <1>3, OpenedFacts
  <2> QED
    BY <2>1, LenProperties
<1> HIDE DEF n
<1>5. blank \in Seq(Nat) /\ Len(blank) = n
  BY <1>4 DEF Garbage
<1> HIDE DEF blank
<1>6. c.op = "read" /\ c.file = f /\ c.at = 0 /\ c.data = blank
  BY <1>2 DEF NoCall
<1>7. c \in Call
  BY <1>2, <1>5 DEF NoCall, Call
<1>8. call \in [Processes -> Call]
  BY <1>3 DEF FileTypeOK
<1>9. call'[p] = c /\ \A q \in Processes : q # p => call'[q] = call[q]
  BY <1>2, <1>8
<1>10. FileTypeOK'
  <2>1. call' \in [Processes -> Call]
    BY <1>2, <1>7, <1>8
  <2>2. \A q \in Processes : CallOn(q)'
    BY <1>3, <1>6, <1>9 DEF InCall, CallOn, FileTypeOK
  <2>3. calls' \in Nat /\ excused' \subseteq Files
    BY <1>1, <1>3 DEF FileTypeOK
  <2> QED
    BY <1>1, <1>3, <2>1, <2>2, <2>3 DEF FileTypeOK
<1>11. ASSUME NEW g \in Files \ excused' PROVE InOrder(g)'
  <2>1. g \in Files \ excused /\ InOrder(g)
    BY <1>1 DEF FileInv
  <2>2. ~Writes(p, g) /\ ~Reads(p, g) /\ ~Writes(p, g)'
    BY <1>1, <1>6, <1>9 DEF InCall, Writes, Reads
  <2>3. CASE g # f
    <3>1. ~Reads(p, g)'
      BY <1>6, <1>9, <2>3 DEF Reads
    <3> QED
      BY <1>1, <1>3, <1>9, <2>1, <2>2, <3>1, Untouched
  <2>4. CASE g = f
    <3>1. \A q \in Processes : ~Writes(q, f)
      BY <1>1, <2>4, NobodyUses
    <3>2. \A q \in Processes : ~Writes(q, f)'
      BY <1>9, <2>2, <2>4, <3>1 DEF Writes
    <3>3. WriterAlone(f)' /\ Growing(f)' /\ AtRest(f)' /\ CopyGrowing(f)' /\ Original(f)'
      <4>1. WriterAlone(f)' /\ Growing(f)' /\ CopyGrowing(f)'
        BY <3>2 DEF WriterAlone, Growing, CopyGrowing, Writes
      <4>2. AtRest(f)'
        BY <1>1, <2>1, <2>4, <3>1 DEF InOrder, AtRest
      <4>3. Original(f)'
        BY <1>1, <1>6, <1>9, <2>1, <2>4 DEF InOrder, Original
      <4> QED
        BY <4>1, <4>2, <4>3
    <3>4. Reading(f)'
      <4> SUFFICES ASSUME NEW q \in Processes, call'[q].op = "read", call'[q].file = f
                   PROVE  /\ Len(call'[q].data) = Len(disk'[f].blocks)
                          /\ call'[q].at <= Len(call'[q].data)
                          /\ \A k \in 1..call'[q].at : call'[q].data[k] = disk'[f].blocks[k]
        BY DEF Reading
      <4>1. CASE q = p
        <5>1. Len(disk'[f].blocks) = n
          BY <1>1 DEF n
        <5>2. call'[q].data = blank /\ call'[q].at = 0
          BY <1>6, <1>9, <4>1
        <5> QED
          BY <1>4, <1>5, <5>1, <5>2
      <4>2. CASE q # p
        BY <1>1, <1>9, <2>1, <2>4, <4>2 DEF InOrder, Reading
      <4> QED
        BY <4>1, <4>2
    <3> QED
      BY <2>4, <3>3, <3>4 DEF InOrder
  <2> QED
    BY <2>3, <2>4
<1>12. Linked'
  <2>1. ASSUME NEW q \in Processes, call[q].op = "copy", call[q].from \in excused' \ excused
        PROVE  FALSE
    <3>1. PICK w \in Processes : Writes(w, f)
      BY <1>1, <2>1, NobodyUses
    <3>2. Reads(q, f) /\ f \in Files \ excused
      BY <1>1, <2>1 DEF Reads
    <3> QED
      BY <3>1, <3>2, WrittenIsNotCopied
  <2> QED
    BY <1>1, <1>6, <1>9, <2>1, LinkedKept
<1> QED
  BY <1>10, <1>11, <1>12 DEF FileInv

(* A block is read. *)
LEMMA ReadBlockKeeps ==
    ASSUME FileInv, NEW p \in Processes, ReadBlock(p)
    PROVE  FileInv'
<1>0. PICK f, n, old, b : /\ f = call[p].file /\ n = call[p].at + 1
                          /\ old = call[p].data /\ b = disk[f].blocks
  OBVIOUS
<1>1. /\ call[p].op = "read" /\ call[p].at < Len(old) /\ call[p].at < Len(b)
      /\ UNCHANGED <<disk, leaked, calls, restarts, intent, excused>>
  BY <1>0 DEF ReadBlock
<1>2. PICK c : /\ call' = [call EXCEPT ![p] = c]
               /\ c = [call[p] EXCEPT !.at = n, !.data = [old EXCEPT ![n] = b[n]]]
  BY <1>0 DEF ReadBlock
<1>3. FileTypeOK
  BY DEF FileInv
<1>4. /\ call[p] \in Call /\ call \in [Processes -> Call] /\ call[p].at \in Nat
      /\ old \in Seq(Nat) /\ f \in Files
  BY <1>0, <1>1, <1>3, CallFacts DEF InCall
<1>5. b \in Seq(Nat) /\ Len(b) \in Nat /\ Len(old) \in Nat
  <2>1. b \in Seq(Nat)
    BY <1>0, <1>3, <1>4, OpenedFacts
  <2> QED
    BY <1>4, <2>1, LenProperties
<1>6. n \in 1..Len(b) /\ n \in 1..Len(old) /\ n \in Nat
  <2>1. n = call[p].at + 1 /\ call[p].at < Len(old) /\ call[p].at < Len(b)
    BY <1>0, <1>1
  <2>2. call[p].at \in Nat
    BY <1>4
  <2> QED
    BY <1>5, <2>1, <2>2
<1> DEFINE new == [old EXCEPT ![n] = b[n]]
<1>7. /\ new \in Seq(Nat) /\ Len(new) = Len(old)
      /\ new[n] = b[n] /\ \A k \in 1..Len(old) : k # n => new[k] = old[k]
  <2>1. b[n] \in Nat
    BY <1>5, <1>6, ElementOfSeq
  <2>2. new \in Seq(Nat) /\ Len(new) = Len(old)
    BY <1>4, <1>6, <2>1, ExceptSeq
  <2>3. DOMAIN old = 1..Len(old)
    BY <1>4, LenProperties
  <2> QED
    BY <1>6, <2>2, <2>3
<1> HIDE DEF new
<1>8. c = [call[p] EXCEPT !.at = n, !.data = new]
  BY <1>2 DEF new
<1>9. c \in Call /\ c.op = "read" /\ c.file = f /\ c.at = n /\ c.data = new
  BY <1>0, <1>1, <1>4, <1>6, <1>7, <1>8 DEF Call
<1>10. call'[p] = c /\ \A q \in Processes : q # p => call'[q] = call[q]
  BY <1>2, <1>4
<1>11. FileTypeOK'
  <2>1. call' \in [Processes -> Call]
    BY <1>2, <1>4, <1>9
  <2>2. \A q \in Processes : CallOn(q)'
    BY <1>3, <1>4, <1>9, <1>10 DEF InCall, CallOn, FileTypeOK
  <2> QED
    BY <1>1, <1>3, <2>1, <2>2 DEF FileTypeOK
<1>12. ASSUME NEW g \in Files \ excused' PROVE InOrder(g)'
  <2>1. g \in Files \ excused /\ InOrder(g)
    BY <1>1 DEF FileInv
  <2>2. CASE g # f
    <3>1. ~Writes(p, g) /\ ~Reads(p, g) /\ ~Writes(p, g)' /\ ~Reads(p, g)'
      BY <1>0, <1>1, <1>9, <1>10, <2>2 DEF Writes, Reads
    <3> QED
      BY <1>1, <1>3, <1>10, <2>1, <3>1, Untouched
  <2>3. CASE g = f
    <3>1. Reads(p, f) /\ ~Writes(p, f)' /\ Reads(p, f)'
      BY <1>0, <1>1, <1>9, <1>10 DEF Reads, Writes
    <3>2. \A q \in Processes : ~Writes(q, f)
      <4>1. ~Writes(p, f)
        BY <1>1 DEF Writes
      <4> QED
        BY <2>1, <2>3, <3>1, <4>1 DEF InOrder, WriterAlone
    <3>3. \A q \in Processes : ~Writes(q, f)'
      BY <1>10, <3>1, <3>2 DEF Writes
    <3>4. WriterAlone(f)' /\ Growing(f)' /\ AtRest(f)' /\ CopyGrowing(f)' /\ Original(f)'
      <4>1. WriterAlone(f)' /\ Growing(f)' /\ CopyGrowing(f)'
        BY <3>3 DEF WriterAlone, Growing, CopyGrowing, Writes
      <4>2. AtRest(f)'
        BY <1>1, <2>1, <2>3, <3>2 DEF InOrder, AtRest
      <4>3. Original(f)'
        BY <1>1, <1>9, <1>10, <2>1, <2>3 DEF InOrder, Original
      <4> QED
        BY <4>1, <4>2, <4>3
    <3>5. /\ Len(old) = Len(b)
          /\ \A k \in 1..call[p].at : old[k] = b[k]
      BY <1>0, <1>1, <2>1, <2>3 DEF InOrder, Reading
    <3>6. ASSUME NEW k \in 1..n PROVE new[k] = b[k]
      <4>1. CASE k = n
        BY <1>7, <4>1
      <4>2. CASE k # n
        <5>1. k \in 1..call[p].at /\ k \in 1..Len(old)
          BY <1>0, <1>1, <1>4, <1>5, <1>6, <4>2
        <5> QED
          BY <1>7, <3>5, <4>2, <5>1
      <4> QED
        BY <4>1, <4>2
    <3>7. Reading(f)'
      <4> SUFFICES ASSUME NEW q \in Processes, call'[q].op = "read", call'[q].file = f
                   PROVE  /\ Len(call'[q].data) = Len(disk'[f].blocks)
                          /\ call'[q].at <= Len(call'[q].data)
                          /\ \A k \in 1..call'[q].at : call'[q].data[k] = disk'[f].blocks[k]
        BY DEF Reading
      <4>1. CASE q = p
        <5>1. disk'[f].blocks = b /\ call'[q].data = new /\ call'[q].at = n
          BY <1>0, <1>1, <1>9, <1>10, <4>1
        <5>2. n <= Len(new) /\ Len(new) = Len(b)
          BY <1>6, <1>7, <3>5
        <5> QED
          BY <3>6, <5>1, <5>2
      <4>2. CASE q # p
        BY <1>1, <1>10, <2>1, <2>3, <4>2 DEF InOrder, Reading
      <4> QED
        BY <4>1, <4>2
    <3> QED
      BY <2>3, <3>4, <3>7 DEF InOrder
  <2> QED
    BY <2>2, <2>3
<1>13. Linked'
  BY <1>1, <1>9, <1>10, LinkedKept
<1> QED
  BY <1>11, <1>12, <1>13 DEF FileInv

(* The end of a read: its buffer holds what the file is meant to hold. *)
LEMMA ReadEndsWhole ==
    ASSUME FileInv, NEW p \in Processes, ReadCloses(p), call[p].file \notin excused
    PROVE  call[p].data = intent[call[p].file].blocks
<1>0. PICK f, old, b : f = call[p].file /\ old = call[p].data /\ b = disk[f].blocks
  OBVIOUS
<1>1. call[p].op = "read" /\ (call[p].at = Len(old) \/ call[p].at >= Len(b))
  BY <1>0 DEF ReadCloses
<1>2. FileTypeOK
  BY DEF FileInv
<1>3. f \in Files \ excused /\ old \in Seq(Nat) /\ call[p].at \in Nat
  BY <1>0, <1>1, <1>2, CallFacts DEF InCall
<1>4. b \in Seq(Nat) /\ Len(b) \in Nat /\ Len(old) \in Nat
  <2>1. b \in Seq(Nat)
    BY <1>0, <1>2, <1>3, OpenedFacts
  <2> QED
    BY <1>3, <2>1, LenProperties
<1>5. InOrder(f) /\ Reads(p, f) /\ ~Writes(p, f)
  BY <1>0, <1>1, <1>3 DEF FileInv, Reads, Writes
<1>6. disk[f] = intent[f]
  BY <1>5 DEF InOrder, WriterAlone, AtRest
<1>7. /\ Len(old) = Len(b) /\ call[p].at <= Len(old)
      /\ \A k \in 1..call[p].at : old[k] = b[k]
  BY <1>0, <1>1, <1>5 DEF InOrder, Reading
<1>8. call[p].at = Len(old)
  BY <1>1, <1>3, <1>4, <1>7
<1>9. old = b
  BY <1>3, <1>4, <1>7, <1>8, SeqEqual
<1> QED
  BY <1>0, <1>6, <1>9

(* A call that ends without changing a file. *)
LEMMA CallEndsKeeps ==
    ASSUME FileInv, NEW p \in Processes, call' = [call EXCEPT ![p] = NoCall],
           UNCHANGED <<disk, calls, intent>>,
           excused \subseteq excused', excused' \subseteq Files,
           \A f \in Files : Writes(p, f) => f \in excused',
           excused' \subseteq excused \cup {f \in Files : Writes(p, f)}
    PROVE  FileInv'
<1>1. FileTypeOK
  BY DEF FileInv
<1>2. call \in [Processes -> Call]
  BY <1>1 DEF FileTypeOK
<1>3. call'[p] = NoCall /\ \A q \in Processes : q # p => call'[q] = call[q]
  BY <1>2
<1>4. FileTypeOK'
  <2>1. call' \in [Processes -> Call]
    BY <1>2, NoCallFacts
  <2>2. \A q \in Processes : CallOn(q)'
    BY <1>1, <1>3, NoCallFacts DEF InCall, CallOn, FileTypeOK
  <2> QED
    BY <1>1, <2>1, <2>2 DEF FileTypeOK
<1>5. ASSUME NEW g \in Files \ excused' PROVE InOrder(g)'
  <2>1. g \in Files \ excused /\ InOrder(g)
    BY DEF FileInv
  <2>2. ~Writes(p, g)' /\ ~Reads(p, g)' /\ ~Writes(p, g)
    BY <1>3, NoCallFacts DEF Writes, Reads
  <2>3. \A q \in Processes : /\ Writes(q, g)' <=> Writes(q, g)
                             /\ Reads(q, g)' => Reads(q, g) /\ call'[q] = call[q]
                             /\ Writes(q, g) => call'[q] = call[q] /\ Kept(q)' = Kept(q)
    BY <1>3, <2>2 DEF Writes, Reads, Kept
  <2>4. WriterAlone(g)' /\ AtRest(g)'
    BY <2>1, <2>3 DEF InOrder, WriterAlone, AtRest
  <2>5. Growing(g)'
    BY <2>1, <2>3 DEF InOrder, Growing, Writes
  <2>6. Reading(g)'
    BY <2>1, <2>3 DEF InOrder, Reading, Reads
  <2>7. CopyGrowing(g)'
    BY <2>1, <2>3 DEF InOrder, CopyGrowing, Writes
  <2>8. Original(g)'
    BY <2>1, <2>3 DEF InOrder, Original, Reads
  <2> QED
    BY <2>4, <2>5, <2>6, <2>7, <2>8 DEF InOrder
<1>6. Linked'
  <2>1. ASSUME NEW q \in Processes, call[q].op = "copy", call[q].from \in excused' \ excused
        PROVE  FALSE
    <3>1. Writes(p, call[q].from) /\ Reads(q, call[q].from) /\ call[q].from \in Files \ excused
      BY <2>1 DEF Reads
    <3> QED
      BY <3>1, WrittenIsNotCopied
  <2> QED
    BY <1>3, <2>1, NoCallFacts, LinkedKept
<1> QED
  BY <1>4, <1>5, <1>6 DEF FileInv

(* The end of a read. *)
LEMMA ReadClosesKeeps == ASSUME FileInv, NEW p \in Processes, ReadCloses(p) PROVE FileInv'
<1>1. /\ call' = [call EXCEPT ![p] = NoCall] /\ call[p].op = "read"
      /\ UNCHANGED <<disk, calls, intent, excused>>
  BY DEF ReadCloses
<1>2. \A f \in Files : ~Writes(p, f)
  BY <1>1 DEF Writes
<1> QED
  BY <1>1, <1>2, CallEndsKeeps DEF FileInv, FileTypeOK

(* A process that is recycled. *)
LEMMA RestartKeeps == ASSUME FileInv, NEW p \in Processes, Restart(p) PROVE FileInv'
<1>1. /\ call' = [call EXCEPT ![p] = NoCall]
      /\ UNCHANGED <<disk, calls, intent>>
      /\ excused' = excused \cup {f \in Files : Writes(p, f)}
  BY DEF Restart
<1>2. excused \subseteq excused' /\ excused' \subseteq Files
  BY <1>1 DEF FileInv, FileTypeOK
<1> QED
  BY <1>1, <1>2, CallEndsKeeps

(* A file that cannot be opened. *)
LEMMA OpenFailsKeeps ==
    ASSUME FileInv, NEW p \in Processes, NEW f \in Files, OpenFails(p, f)
    PROVE  FileInv'
<1>1. UNCHANGED <<disk, call, intent, excused>> /\ calls' = calls + 1
  BY DEF OpenFails, NewCall
<1>2. FileTypeOK
  BY DEF FileInv
<1>3. FileTypeOK'
  BY <1>1, <1>2 DEF FileTypeOK, InCall, CallOn
<1>4. ASSUME NEW g \in Files \ excused' PROVE InOrder(g)'
  BY <1>1, <1>2, Untouched DEF FileInv
<1>5. Linked'
  BY <1>1, LinkedKept
<1> QED
  BY <1>3, <1>4, <1>5 DEF FileInv

(* fs.delete: nobody has the file open. *)
LEMMA DeleteKeeps ==
    ASSUME FileInv, NEW p \in Processes, NEW f \in Files, Delete(p, f)
    PROVE  FileInv'
<1>1. /\ ~IsOpen(f) /\ calls' = calls + 1 /\ call' = call
      /\ disk' = [disk EXCEPT ![f] = Missing]
      /\ intent' = [intent EXCEPT ![f] = Missing]
      /\ excused' = excused \ {f}
  BY DEF Delete, NewCall
<1>2. FileTypeOK
  BY DEF FileInv
<1>3. \A q \in Processes : ~Writes(q, f) /\ ~Reads(q, f)
  BY <1>1, NobodyUses DEF IsOpen
<1>4. FileTypeOK'
  <2>1. disk' \in [Files -> Content] /\ intent' \in [Files -> Content]
    BY <1>1, <1>2, MissingFacts DEF FileTypeOK
  <2>2. calls' \in Nat /\ excused' \subseteq Files
    BY <1>1, <1>2 DEF FileTypeOK
  <2>3. call' \in [Processes -> Call] /\ \A q \in Processes : CallOn(q)'
    BY <1>1, <1>2 DEF FileTypeOK, InCall, CallOn
  <2> QED
    BY <2>1, <2>2, <2>3 DEF FileTypeOK
<1>5. ASSUME NEW g \in Files \ excused' PROVE InOrder(g)'
  <2>1. CASE g # f
    <3>1. InOrder(g)
      BY <1>1, <1>5, <2>1 DEF FileInv
    <3>2. disk'[g] = disk[g] /\ intent'[g] = intent[g]
      BY <1>1, <1>2, <2>1 DEF FileTypeOK
    <3> QED
      BY <1>1, <1>2, <3>1, <3>2, Untouched
  <2>2. CASE g = f
    <3>1. \A q \in Processes : ~Writes(q, f)' /\ ~Reads(q, f)'
      BY <1>1, <1>3 DEF Writes, Reads
    <3>2. disk'[f] = intent'[f]
      BY <1>1, <1>2 DEF FileTypeOK
    <3> QED
      BY <2>2, <3>1, <3>2
         DEF InOrder, WriterAlone, Growing, AtRest, Reading, CopyGrowing, Original, Writes, Reads
  <2> QED
    BY <2>1, <2>2
<1>6. Linked'
  BY <1>1, <1>3 DEF FileInv, Linked, Writes
<1> QED
  BY <1>4, <1>5, <1>6 DEF FileInv

(* fs.copy opens the two files. *)
LEMMA CopyOpensKeeps ==
    ASSUME FileInv, NEW p \in Processes, NEW from \in Files, NEW to \in Files,
           NEW overwrite \in BOOLEAN, CopyOpens(p, from, to, overwrite)
    PROVE  FileInv'
<1> DEFINE b == disk[from].blocks
<1>1. /\ ~InCall(p) /\ calls' = calls + 1 /\ from # to
      /\ disk[from].there /\ ~IsOpen(to)
      /\ disk' = [disk EXCEPT ![to] = File(<<>>)]
      /\ excused' = IF from \in excused \/ Writers(from) # {}
                    THEN excused \cup {from, to} ELSE excused \ {to}
      /\ intent' = intent
  BY DEF CopyOpens, NewCall
<1>2. PICK c : /\ call' = [call EXCEPT ![p] = c]
               /\ c = [NoCall EXCEPT !.op = "copy", !.file = to, !.from = from, !.data = b]
  BY DEF CopyOpens
<1>3. FileTypeOK
  BY DEF FileInv
<1>4. b \in Seq(Nat) /\ <<>> \in Seq(Nat) /\ disk[from] \in Content
  BY <1>3, OpenedFacts, EmptySeq DEF FileTypeOK
<1>5. disk[from] = File(b)
  BY <1>1, <1>4 DEF Content, File
<1> HIDE DEF b
<1>6. c.op = "copy" /\ c.file = to /\ c.from = from /\ c.at = 0 /\ c.data = b
  BY <1>2 DEF NoCall
<1>7. c \in Call
  BY <1>2, <1>4 DEF NoCall, Call
<1>8. call'[p] = c /\ \A q \in Processes : q # p => call'[q] = call[q]
  BY <1>2, <1>3 DEF FileTypeOK
<1>9. \A q \in Processes : ~Writes(q, to) /\ ~Reads(q, to)
  BY <1>1, NobodyUses DEF IsOpen
<1>10. FileTypeOK'
  <2>1. disk' \in [Files -> Content] /\ intent' \in [Files -> Content]
    BY <1>1, <1>3, <1>4, ContentFacts DEF FileTypeOK
  <2>2. call' \in [Processes -> Call]
    BY <1>2, <1>3, <1>7 DEF FileTypeOK
  <2>3. \A q \in Processes : CallOn(q)'
    BY <1>1, <1>3, <1>6, <1>8 DEF CallOn, InCall, FileTypeOK
  <2>4. calls' \in Nat /\ excused' \subseteq Files
    BY <1>1, <1>3 DEF FileTypeOK
  <2> QED
    BY <2>1, <2>2, <2>3, <2>4 DEF FileTypeOK
<1>11. ASSUME NEW g \in Files \ excused' PROVE InOrder(g)'
  <2>1. CASE g = to
    <3>1. \A q \in Processes : (Writes(q, to)' => q = p) /\ ~Reads(q, to)'
      BY <1>1, <1>6, <1>8, <1>9 DEF Writes, Reads
    <3>2. Writes(p, to)'
      BY <1>6, <1>8 DEF Writes
    <3>3. WriterAlone(to)' /\ AtRest(to)' /\ Growing(to)' /\ Reading(to)' /\ Original(to)'
      BY <1>6, <1>8, <3>1, <3>2
         DEF WriterAlone, AtRest, Growing, Reading, Original, Writes, Reads
    <3>4. disk'[to] = File(<<>>)
      BY <1>1, <1>3 DEF FileTypeOK
    <3>5. SubSeq(b, 1, 0) = <<>> /\ Len(b) \in Nat
      BY <1>4, LenProperties, SubSeqEmpty
    <3>6. CopyGrowing(to)'
      <4> SUFFICES ASSUME NEW q \in Processes, call'[q].op = "copy", call'[q].file = to
                   PROVE  /\ call'[q].at <= Len(call'[q].data)
                          /\ disk'[to] = File(SubSeq(call'[q].data, 1, call'[q].at))
        BY DEF CopyGrowing
      <4>1. call'[q] = c
        BY <1>8, <3>1 DEF Writes
      <4>2. call'[q].at = 0 /\ call'[q].data = b
        BY <1>6, <4>1
      <4>3. 0 <= Len(b)
        BY <3>5
      <4> QED
        BY <3>4, <3>5, <4>2, <4>3
    <3> QED
      BY <2>1, <3>3, <3>6 DEF InOrder
  <2>2. CASE g # to
    <3>1. g \in Files \ excused /\ InOrder(g)
      BY <1>1, <1>11, <2>2 DEF FileInv
    <3>2. disk'[g] = disk[g] /\ intent'[g] = intent[g]
      BY <1>1, <1>3, <2>2 DEF FileTypeOK
    <3>3. ~Writes(p, g) /\ ~Reads(p, g) /\ ~Writes(p, g)'
      BY <1>1, <1>6, <1>8, <2>2 DEF InCall, Writes, Reads
    <3>4. CASE g # from
      <4>1. ~Reads(p, g)'
        BY <1>6, <1>8, <3>4 DEF Reads
      <4> QED
        BY <1>3, <1>8, <3>1, <3>2, <3>3, <4>1, Untouched
    <3>5. CASE g = from
      <4>1. \A q \in Processes : ~Writes(q, g)
        BY <1>1, <1>11, <3>5, NobodyUses
      <4>2. \A q \in Processes : ~Writes(q, g)'
        BY <1>8, <3>3, <4>1 DEF Writes
      <4>3. WriterAlone(g)' /\ Growing(g)' /\ CopyGrowing(g)'
        BY <4>2 DEF WriterAlone, Growing, CopyGrowing, Writes
      <4>4. AtRest(g)'
        BY <3>1, <3>2, <4>1 DEF InOrder, AtRest
      <4>5. Reading(g)'
        BY <1>6, <1>8, <3>1, <3>2 DEF InOrder, Reading
      <4>6. Original(g)'
        BY <1>5, <1>6, <1>8, <3>1, <3>2, <3>5 DEF InOrder, Original
      <4> QED
        BY <4>3, <4>4, <4>5, <4>6 DEF InOrder
    <3> QED
      BY <3>4, <3>5
  <2> QED
    BY <2>1, <2>2
<1>12. Linked'
  <2> SUFFICES ASSUME NEW q \in Processes, call'[q].op = "copy", call'[q].file \notin excused'
               PROVE  call'[q].from \notin excused'
    BY DEF Linked
  <2>1. CASE q = p
    BY <1>1, <1>6, <1>8, <2>1
  <2>2. CASE q # p
    <3>1. call[q].op = "copy" /\ call'[q] = call[q]
      BY <1>8, <2>2
    <3>2. Writes(q, call[q].file) /\ Reads(q, call[q].from) /\ call[q].from \in Files
      BY <1>3, <3>1, CallFacts DEF Writes, Reads
    <3>3. call[q].file # to /\ call[q].from # to
      BY <1>9, <3>2
    <3>4. call[q].from \notin excused
      BY <1>1, <3>1, <3>3 DEF FileInv, Linked
    <3>5. call[q].from = from => Writers(from) = {}
      BY <3>2, <3>4, WrittenIsNotCopied, NobodyUses
    <3> QED
      BY <1>1, <3>1, <3>3, <3>4, <3>5
  <2> QED
    BY <2>1, <2>2
<1> QED
  BY <1>10, <1>11, <1>12 DEF FileInv

(* A piece that is one longer. *)
LEMMA PieceGrows ==
    ASSUME NEW b \in Seq(Nat), NEW k \in Nat, k < Len(b)
    PROVE  /\ SubSeq(b, 1, k) \in Seq(Nat) /\ Len(SubSeq(b, 1, k)) = k
           /\ k + 1 \in 1..Len(b) /\ b[k + 1] \in Nat
           /\ Append(SubSeq(b, 1, k), b[k + 1]) = SubSeq(b, 1, k + 1)
<1>1. Len(b) \in Nat /\ k + 1 \in 1..Len(b)
  BY LenProperties
<1>2. b[k + 1] \in Nat
  BY <1>1, ElementOfSeq
<1>3. SubSeq(b, 1, k) \in Seq(Nat) /\ Len(SubSeq(b, 1, k)) = k
  BY <1>1
<1>4. Append(SubSeq(b, 1, k), b[k + 1]) = SubSeq(b, 1, k + 1)
  BY <1>1, <1>2, <1>3
<1> QED
  BY <1>1, <1>2, <1>3, <1>4

(* A block is copied. *)
LEMMA CopyBlockKeeps ==
    ASSUME FileInv, NEW p \in Processes, CopyBlock(p)
    PROVE  FileInv'
<1>0. PICK f, from, k, old, x : /\ f = call[p].file /\ from = call[p].from /\ k = call[p].at
                                /\ old = disk[f].blocks /\ x = disk[from].blocks[k + 1]
  OBVIOUS
<1>1. /\ call[p].op = "copy" /\ k < Len(disk[from].blocks)
      /\ disk' = [disk EXCEPT ![f].blocks = Stored(old, k + 1, x)]
      /\ UNCHANGED <<leaked, calls, restarts, intent, excused>>
  BY <1>0 DEF CopyBlock
<1>2. PICK c : call' = [call EXCEPT ![p] = c] /\ c = [call[p] EXCEPT !.at = k + 1]
  BY <1>0 DEF CopyBlock
<1>3. FileTypeOK
  BY DEF FileInv
<1>4. /\ call[p] \in Call /\ call \in [Processes -> Call] /\ k \in Nat
      /\ call[p].data \in Seq(Nat)
      /\ f \in Files /\ from \in Files /\ from # f
  BY <1>0, <1>1, <1>3, CallFacts DEF InCall
<1>5. /\ c \in Call /\ c.op = "copy" /\ c.file = f /\ c.from = from
      /\ c.at = k + 1 /\ c.data = call[p].data
  <2>1. PICK o \in Call, n \in Nat : o = call[p] /\ n = k + 1
    BY <1>4
  <2>2. c = [o EXCEPT !.at = n]
    BY <1>2, <2>1
  <2> QED
    BY <1>0, <1>1, <2>1, <2>2, CallMoves
<1>6. call'[p] = c /\ \A q \in Processes : q # p => call'[q] = call[q]
  BY <1>2, <1>4
<1>7. old \in Seq(Nat) /\ disk[from].blocks \in Seq(Nat)
  BY <1>0, <1>3, <1>4, OpenedFacts
<1>8. x \in Nat
  BY <1>0, <1>1, <1>4, <1>7, PieceGrows
<1> DEFINE new == Stored(old, k + 1, x)
<1>9. new \in Seq(Nat) /\ (k + 1 = Len(old) + 1 => new = Append(old, x))
  <2>1. k + 1 \in Nat \ {0}
    BY <1>4
  <2> QED
    BY <1>7, <1>8, <2>1, StoredFacts
<1>10. disk' = [disk EXCEPT ![f] = [disk[f] EXCEPT !.blocks = new]]
  BY <1>1
<1> HIDE DEF new
<1>11. /\ disk'[f] = [disk[f] EXCEPT !.blocks = new]
       /\ \A g \in Files : g # f => disk'[g] = disk[g]
       /\ disk' \in [Files -> Content]
  <2>1. disk \in [Files -> Content]
    BY <1>3 DEF FileTypeOK
  <2>2. [disk[f] EXCEPT !.blocks = new] \in Content
    BY <1>4, <1>9, <2>1 DEF Content
  <2> QED
    BY <1>4, <1>10, <2>1, <2>2
<1>12. FileTypeOK'
  <2>1. intent' \in [Files -> Content] /\ calls' \in Nat /\ excused' \subseteq Files
    BY <1>1, <1>3 DEF FileTypeOK
  <2>2. call' \in [Processes -> Call]
    BY <1>2, <1>4, <1>5
  <2>3. \A q \in Processes : CallOn(q)'
    BY <1>3, <1>4, <1>5, <1>6 DEF InCall, CallOn, FileTypeOK
  <2> QED
    BY <1>11, <2>1, <2>2, <2>3 DEF FileTypeOK
<1>13. ASSUME NEW g \in Files \ excused' PROVE InOrder(g)'
  <2>1. g \in Files \ excused /\ InOrder(g)
    BY <1>1 DEF FileInv
  <2>2. CASE g # f /\ g # from
    <3>1. ~Writes(p, g) /\ ~Reads(p, g) /\ ~Writes(p, g)' /\ ~Reads(p, g)'
      BY <1>0, <1>1, <1>5, <1>6, <2>2 DEF Writes, Reads
    <3>2. disk'[g] = disk[g] /\ intent'[g] = intent[g]
      BY <1>1, <1>11, <2>2
    <3> QED
      BY <1>3, <1>6, <2>1, <3>1, <3>2, Untouched
  <2>3. CASE g = from
    <3>1. disk'[g] = disk[g] /\ intent'[g] = intent[g]
      BY <1>1, <1>4, <1>11, <2>3
    <3>2. \A q \in Processes : /\ Writes(q, g)' <=> Writes(q, g)
                               /\ Reads(q, g)' <=> Reads(q, g)
      BY <1>0, <1>1, <1>5, <1>6 DEF Writes, Reads
    <3>3. WriterAlone(g)' /\ AtRest(g)'
      BY <2>1, <3>1, <3>2 DEF InOrder, WriterAlone, AtRest
    <3>4. Reads(p, g)
      BY <1>0, <1>1, <2>3 DEF Reads
    <3>5. \A q \in Processes : ~Writes(q, g)'
      BY <2>1, <3>2, <3>4, WrittenIsNotCopied
    <3>6. Growing(g)' /\ CopyGrowing(g)'
      BY <3>5 DEF Growing, CopyGrowing, Writes
    <3>7. Reading(g)'
      BY <1>5, <1>6, <2>1, <3>1 DEF InOrder, Reading
    <3>8. Original(g)'
      BY <1>0, <1>1, <1>5, <1>6, <2>1, <3>1 DEF InOrder, Original
    <3> QED
      BY <3>3, <3>6, <3>7, <3>8 DEF InOrder
  <2>4. CASE g = f
    <3>1. Writes(p, f) /\ Writes(p, f)'
      BY <1>0, <1>1, <1>5, <1>6 DEF Writes
    <3>2. \A q \in Processes : q # p => ~Writes(q, f) /\ ~Reads(q, f)
      BY <2>1, <2>4, <3>1 DEF InOrder, WriterAlone
    <3>3. \A q \in Processes : (Writes(q, f)' => q = p) /\ ~Reads(q, f)'
      BY <1>4, <1>5, <1>6, <3>2 DEF Writes, Reads
    <3>4. WriterAlone(f)' /\ AtRest(f)' /\ Growing(f)' /\ Reading(f)' /\ Original(f)'
      BY <1>5, <1>6, <3>1, <3>3
         DEF WriterAlone, AtRest, Growing, Reading, Original, Writes, Reads
    <3>5. PICK b : b = call[p].data
      OBVIOUS
    <3>6. b \in Seq(Nat) /\ disk[f] = File(SubSeq(b, 1, k)) /\ k <= Len(b)
      BY <1>0, <1>1, <1>4, <2>1, <2>4, <3>5 DEF InOrder, CopyGrowing
    <3>7. disk[from] = File(b)
      <4>1. from \in Files \ excused
        BY <1>0, <1>1, <1>4, <2>1, <2>4 DEF FileInv, Linked
      <4> QED
        BY <1>0, <1>1, <3>5, <4>1 DEF FileInv, InOrder, Original
    <3>8. disk[from].blocks = b /\ x = b[k + 1] /\ k < Len(b)
      BY <1>0, <1>1, <3>6, <3>7, ContentFacts
    <3>9. /\ SubSeq(b, 1, k) \in Seq(Nat) /\ Len(SubSeq(b, 1, k)) = k
          /\ k + 1 \in 1..Len(b)
          /\ Append(SubSeq(b, 1, k), b[k + 1]) = SubSeq(b, 1, k + 1)
      BY <1>4, <3>6, <3>8, PieceGrows
    <3>10. old = SubSeq(b, 1, k)
      BY <1>0, <3>6, <3>9, ContentFacts
    <3>11. new = SubSeq(b, 1, k + 1)
      BY <1>9, <3>8, <3>9, <3>10
    <3>12. disk'[f] = File(new)
      <4>1. disk'[f] = [File(old) EXCEPT !.blocks = new]
        BY <1>11, <3>6, <3>10
      <4> QED
        BY <4>1 DEF File
    <3>13. call'[p].data = b /\ call'[p].at = k + 1 /\ k + 1 <= Len(b)
      BY <1>5, <1>6, <3>5, <3>9
    <3>14. CopyGrowing(f)'
      BY <3>3, <3>11, <3>12, <3>13 DEF CopyGrowing, Writes
    <3> QED
      BY <2>4, <3>4, <3>14 DEF InOrder
  <2> QED
    BY <2>2, <2>3, <2>4
<1>14. Linked'
  BY <1>0, <1>1, <1>5, <1>6, LinkedKept
<1> QED
  BY <1>12, <1>13, <1>14 DEF FileInv

(* The end of the original is reached: the copy is what it is. *)
LEMMA CopyClosesKeeps ==
    ASSUME FileInv, NEW p \in Processes, CopyCloses(p)
    PROVE  FileInv'
<1>0. PICK f, from : f = call[p].file /\ from = call[p].from
  OBVIOUS
<1>1. /\ call[p].op = "copy" /\ call[p].at >= Len(disk[from].blocks)
      /\ call' = [call EXCEPT ![p] = NoCall]
      /\ intent' = [intent EXCEPT ![f] = intent[from]]
      /\ UNCHANGED <<disk, leaked, calls, restarts, excused>>
  BY <1>0 DEF CopyCloses
<1>2. FileTypeOK
  BY DEF FileInv
<1>3. /\ call \in [Processes -> Call] /\ call[p].at \in Nat /\ call[p].data \in Seq(Nat)
      /\ f \in Files /\ from \in Files /\ from # f
  BY <1>0, <1>1, <1>2, CallFacts DEF InCall
<1>4. call'[p] = NoCall /\ \A q \in Processes : q # p => call'[q] = call[q]
  BY <1>1, <1>3
<1>5. /\ intent' \in [Files -> Content] /\ intent'[f] = intent[from]
      /\ \A g \in Files : g # f => intent'[g] = intent[g]
  BY <1>1, <1>2, <1>3 DEF FileTypeOK
<1>6. FileTypeOK'
  <2>1. call' \in [Processes -> Call]
    BY <1>1, <1>3, NoCallFacts
  <2>2. \A q \in Processes : CallOn(q)'
    BY <1>2, <1>4, NoCallFacts DEF InCall, CallOn, FileTypeOK
  <2> QED
    BY <1>1, <1>2, <1>5, <2>1, <2>2 DEF FileTypeOK
<1>7. ASSUME NEW g \in Files \ excused' PROVE InOrder(g)'
  <2>1. g \in Files \ excused /\ InOrder(g)
    BY <1>1 DEF FileInv
  <2>2. ~Writes(p, g)' /\ ~Reads(p, g)'
    BY <1>4, NoCallFacts DEF Writes, Reads
  <2>3. CASE g # f
    <3>1. disk'[g] = disk[g] /\ intent'[g] = intent[g] /\ ~Writes(p, g)
      BY <1>0, <1>1, <1>5, <2>3 DEF Writes
    <3>2. \A q \in Processes : /\ Writes(q, g)' <=> Writes(q, g)
                               /\ Reads(q, g)' => Reads(q, g) /\ call'[q] = call[q]
                               /\ Writes(q, g) => call'[q] = call[q] /\ Kept(q)' = Kept(q)
      BY <1>4, <2>2, <3>1 DEF Writes, Reads, Kept
    <3>3. WriterAlone(g)' /\ AtRest(g)'
      BY <2>1, <3>1, <3>2 DEF InOrder, WriterAlone, AtRest
    <3>4. Growing(g)'
      BY <2>1, <3>1, <3>2 DEF InOrder, Growing, Writes
    <3>5. Reading(g)'
      BY <2>1, <3>1, <3>2 DEF InOrder, Reading, Reads
    <3>6. CopyGrowing(g)'
      BY <2>1, <3>1, <3>2 DEF InOrder, CopyGrowing, Writes
    <3>7. Original(g)'
      BY <2>1, <3>1, <3>2 DEF InOrder, Original, Reads
    <3> QED
      BY <3>3, <3>4, <3>5, <3>6, <3>7 DEF InOrder
  <2>4. CASE g = f
    <3>1. Writes(p, f) /\ Reads(p, from)
      BY <1>0, <1>1 DEF Writes, Reads
    <3>2. \A q \in Processes : q # p => ~Writes(q, f) /\ ~Reads(q, f)
      BY <2>1, <2>4, <3>1 DEF InOrder, WriterAlone
    <3>3. \A q \in Processes : ~Writes(q, f)' /\ ~Reads(q, f)'
      BY <1>4, <2>2, <2>4, <3>2 DEF Writes, Reads
    <3>4. PICK b : b = call[p].data
      OBVIOUS
    <3>5. b \in Seq(Nat) /\ disk[f] = File(SubSeq(b, 1, call[p].at)) /\ call[p].at <= Len(b)
      BY <1>0, <1>1, <1>3, <2>1, <2>4, <3>4 DEF InOrder, CopyGrowing
    <3>6. from \in Files \ excused
      BY <1>0, <1>1, <1>3, <2>1, <2>4 DEF FileInv, Linked
    <3>7. disk[from] = File(b)
      BY <1>0, <1>1, <3>4, <3>6 DEF FileInv, InOrder, Original
    <3>8. disk[from].blocks = b
      BY <3>5, <3>7, ContentFacts
    <3>9. SubSeq(b, 1, call[p].at) = b
      <4>1. call[p].at = Len(b)
        <5>1. call[p].at >= Len(b) /\ Len(b) \in Nat
          BY <1>1, <3>5, <3>8, LenProperties
        <5> QED
          BY <1>3, <3>5, <5>1
      <4>2. SubSeq(b, 1, Len(b)) = b
        BY <3>5
      <4> QED
        BY <4>1, <4>2
    <3>10. \A q \in Processes : ~Writes(q, from)
      BY <3>1, <3>6, WrittenIsNotCopied
    <3>11. disk[from] = intent[from]
      BY <3>6, <3>10 DEF FileInv, InOrder, AtRest
    <3>12. disk'[f] = intent'[f]
      BY <1>1, <1>5, <3>5, <3>7, <3>9, <3>11
    <3> QED
      BY <2>4, <3>3, <3>12
         DEF InOrder, WriterAlone, Growing, AtRest, Reading, CopyGrowing, Original, Writes, Reads
  <2> QED
    BY <2>3, <2>4
<1>8. Linked'
  BY <1>1, <1>4, NoCallFacts, LinkedKept
<1> QED
  BY <1>6, <1>7, <1>8 DEF FileInv

(* A copy that fails: what it has left is excused. *)
LEMMA CopyFailsKeeps ==
    ASSUME FileInv, NEW p \in Processes, CopyFails(p)
    PROVE  FileInv'
<1>0. PICK f : f = call[p].file
  OBVIOUS
<1>1. /\ call[p].op = "copy"
      /\ call' = [call EXCEPT ![p] = NoCall]
      /\ disk' = disk \/ disk' = [disk EXCEPT ![f] = Missing]
      /\ excused' = excused \cup {f}
      /\ UNCHANGED <<calls, intent>>
  BY <1>0 DEF CopyFails
<1>2. FileTypeOK
  BY DEF FileInv
<1>3. call \in [Processes -> Call] /\ f \in Files /\ disk \in [Files -> Content]
  BY <1>0, <1>1, <1>2, CallFacts DEF InCall, FileTypeOK
<1>4. call'[p] = NoCall /\ \A q \in Processes : q # p => call'[q] = call[q]
  BY <1>1, <1>3
<1>5. disk' \in [Files -> Content] /\ \A g \in Files : g # f => disk'[g] = disk[g]
  BY <1>1, <1>3, MissingFacts
<1>6. FileTypeOK'
  <2>1. call' \in [Processes -> Call]
    BY <1>1, <1>3, NoCallFacts
  <2>2. \A q \in Processes : CallOn(q)'
    BY <1>2, <1>4, NoCallFacts DEF InCall, CallOn, FileTypeOK
  <2> QED
    BY <1>1, <1>2, <1>3, <1>5, <2>1, <2>2 DEF FileTypeOK
<1>7. ASSUME NEW g \in Files \ excused' PROVE InOrder(g)'
  <2>1. g \in Files \ excused /\ InOrder(g) /\ g # f
    BY <1>1 DEF FileInv
  <2>2. disk'[g] = disk[g] /\ intent'[g] = intent[g] /\ ~Writes(p, g)
    BY <1>0, <1>1, <1>5, <2>1 DEF Writes
  <2>3. ~Writes(p, g)' /\ ~Reads(p, g)'
    BY <1>4, NoCallFacts DEF Writes, Reads
  <2>4. \A q \in Processes : /\ Writes(q, g)' <=> Writes(q, g)
                             /\ Reads(q, g)' => Reads(q, g) /\ call'[q] = call[q]
                             /\ Writes(q, g) => call'[q] = call[q] /\ Kept(q)' = Kept(q)
    BY <1>1, <1>4, <2>2, <2>3 DEF Writes, Reads, Kept
  <2>5. WriterAlone(g)' /\ AtRest(g)'
    BY <2>1, <2>2, <2>4 DEF InOrder, WriterAlone, AtRest
  <2>6. Growing(g)'
    BY <2>1, <2>2, <2>4 DEF InOrder, Growing, Writes
  <2>7. Reading(g)'
    BY <2>1, <2>2, <2>4 DEF InOrder, Reading, Reads
  <2>8. CopyGrowing(g)'
    BY <2>1, <2>2, <2>4 DEF InOrder, CopyGrowing, Writes
  <2>9. Original(g)'
    BY <2>1, <2>2, <2>4 DEF InOrder, Original, Reads
  <2> QED
    BY <2>5, <2>6, <2>7, <2>8, <2>9 DEF InOrder
<1>8. Linked'
  <2>1. ASSUME NEW q \in Processes, call[q].op = "copy", call[q].from \in excused' \ excused
        PROVE  FALSE
    <3>1. Writes(p, call[q].from) /\ Reads(q, call[q].from) /\ call[q].from \in Files \ excused
      BY <1>0, <1>1, <1>3, <2>1 DEF Writes, Reads
    <3> QED
      BY <3>1, WrittenIsNotCopied
  <2> QED
    BY <1>1, <1>4, <2>1, NoCallFacts, LinkedKept
<1> QED
  BY <1>6, <1>7, <1>8 DEF FileInv

(* Every step keeps the invariant. *)
LEMMA FileNextKeeps == FileInv /\ [FileNext]_fileVars => FileInv'
<1> SUFFICES ASSUME FileInv, [FileNext]_fileVars PROVE FileInv'
  OBVIOUS
<1>1. CASE UNCHANGED fileVars
  <2>1. FileTypeOK /\ UNCHANGED <<disk, call, calls, intent, excused>>
    BY <1>1 DEF FileInv, fileVars
  <2>2. FileTypeOK'
    BY <2>1 DEF FileTypeOK, InCall, CallOn
  <2>3. ASSUME NEW g \in Files \ excused' PROVE InOrder(g)'
    BY <2>1, Untouched DEF FileInv
  <2>4. Linked'
    BY <2>1, LinkedKept
  <2> QED
    BY <2>2, <2>3, <2>4 DEF FileInv
<1>2. ASSUME NEW p \in Processes, FileStep(p) PROVE FileInv'
  <2>1. ASSUME NEW f \in Files, NEW append \in BOOLEAN,
               \/ \E count \in 0..MaxBlocks : WriteOpens(p, f, append, count)
               \/ WriteRefused(p, f, append)
        PROVE  FileInv'
    BY <2>1, WriteOpensKeeps, WriteRefusedKeeps
  <2>2. ASSUME WriteBlock(p) \/ WriteFailsUnseen(p) \/ WriteCloses(p) PROVE FileInv'
    BY <2>2, WriteBlockKeeps, WriteFailsUnseenKeeps, WriteClosesKeeps
  <2>3. ASSUME NEW f \in Files, ReadOpens(p, f) \/ OpenFails(p, f) \/ Delete(p, f)
        PROVE  FileInv'
    BY <2>3, ReadOpensKeeps, OpenFailsKeeps, DeleteKeeps
  <2>4. ASSUME ReadBlock(p) \/ ReadCloses(p) \/ Restart(p) PROVE FileInv'
    BY <2>4, ReadBlockKeeps, ReadClosesKeeps, RestartKeeps
  <2>5. ASSUME NEW from \in Files, NEW to \in Files, NEW overwrite \in BOOLEAN,
               CopyOpens(p, from, to, overwrite)
        PROVE  FileInv'
    BY <2>5, CopyOpensKeeps
  <2>6. ASSUME CopyBlock(p) \/ CopyCloses(p) \/ CopyFails(p) PROVE FileInv'
    BY <2>6, CopyBlockKeeps, CopyClosesKeeps, CopyFailsKeeps
  <2> QED
    BY <1>2, <2>1, <2>2, <2>3, <2>4, <2>5, <2>6 DEF FileStep
<1> QED
  BY <1>1, <1>2 DEF FileNext, AllReturned

(* The invariant holds throughout. *)
THEOREM FileInvariance == FileSpec => []FileInv
BY FileInitHolds, FileNextKeeps, PTL DEF FileSpec

(* Files hold blocks, and calls keep to the files there are. *)
THEOREM FileTypes == FileSpec => []FileTypeOK
<1>1. FileInv => FileTypeOK
  BY DEF FileInv
<1> QED
  BY <1>1, FileInvariance, PTL

(* For any number of processes and files and data of any length, a file on *)
(* which no two calls have met and no call has failed unseen holds what    *)
(* the calls on it amount to.                                              *)
THEOREM FilesAreIntended == FileSpec => []FileIsIntended
<1>1. FileInv => FileIsIntended
  <2> SUFFICES ASSUME FileInv, NEW f \in Files \ excused, Writers(f) = {}
               PROVE  disk[f] = intent[f]
    BY DEF FileIsIntended
  <2>1. \A q \in Processes : ~Writes(q, f)
    BY NobodyUses
  <2> QED
    BY <2>1 DEF FileInv, InOrder, AtRest
<1> QED
  BY <1>1, FileInvariance, PTL

(* A read of such a file returns all of it and nothing else. *)
THEOREM ReadsAreWhole == FileSpec => ReadIsWhole
<1>1. FileInv /\ [FileNext]_fileVars =>
        [\A p \in Processes : ReadCloses(p) /\ call[p].file \notin excused =>
           call[p].data = intent[call[p].file].blocks]_fileVars
  BY ReadEndsWhole
<1> QED
  BY <1>1, FileInvariance, PTL DEF FileSpec, ReadIsWhole
=============================================================================
