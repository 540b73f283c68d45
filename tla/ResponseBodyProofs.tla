------------------------- MODULE ResponseBodyProofs -------------------------
(***************************************************************************)
(* What TLAPS proves of response.write and response.read, for every        *)
(* MAX_BYTES a USHORT can hold, bodies of every length and any number of   *)
(* chunks.  LoopInvariant is the invariant of the do-while loop of write:  *)
(* it delivers the buffer exactly.                                         *)
(*                                                                         *)
(* The two loops of read need to know where each chunk lies in the whole.  *)
(* That is a sum over the chunks before it; the proof does not compute it, *)
(* it keeps a table of the sums (Laid) for as long as the list of chunks   *)
(* stays as it is, and adds a line to it with each new chunk.              *)
(***************************************************************************)
EXTENDS ResponseBody, SequenceTheorems, TLAPS

(* At the head of the loop IIS has the bytes before buffer_offset, and     *)
(* bytes_to_write is the length of the next chunk.  has_more_data is       *)
(* computed in one way before the loop and in another inside it: if it is  *)
(* FALSE, the next chunk is the last one either way.                       *)
LoopInvariant ==
    pc = "writing" =>
        /\ outcome = "none"
        /\ buffer_offset <= buffer_size
        /\ delivered = buffer_offset
        /\ bytes_to_write = pmin(buffer_size - buffer_offset, MAX_BYTES)
        /\ ~has_more_data => buffer_size - buffer_offset <= MAX_BYTES
        /\ buffer_offset = buffer_size => buffer_size = 0

IInv == TypeOK /\ LoopInvariant /\ WholeBufferDelivered

-----------------------------------------------------------------------------
(* The length of a chunk survives the conversion to USHORT. *)
LEMMA UshortExact == ASSUME NEW n \in 0..MAX_BYTES PROVE USHORT(n) = n
BY WriteAssumption DEF USHORT

(* The smaller of two numbers is one of them and no larger than either. *)
LEMMA PminFacts ==
    ASSUME NEW a \in Nat, NEW b \in Nat
    PROVE  /\ pmin(a, b) \in Nat
           /\ pmin(a, b) <= a /\ pmin(a, b) <= b
           /\ pmin(a, b) = a \/ pmin(a, b) = b
BY DEF pmin

(* The loop invariant holds when the loop is entered. *)
LEMMA BeginKeeps ==
    ASSUME IInv, NEW size \in 0..MaxSize, Begin(size), asked' \in 0..MaxSize
    PROVE  IInv'
<1> USE WriteAssumption DEF IInv, Begin
<1>1. size \in Nat /\ MAX_BYTES \in Nat
  OBVIOUS
<1>2. TypeOK'
  BY <1>1, PminFacts DEF TypeOK
<1>3. LoopInvariant'
  <2>1. size - 0 = size /\ 0 <= size
    BY <1>1
  <2>2. ~(size - pmin(size, MAX_BYTES) > 0) => size <= MAX_BYTES
    BY <1>1 DEF pmin
  <2> QED
    BY <1>1, <2>1, <2>2 DEF LoopInvariant
<1>4. WholeBufferDelivered'
  BY DEF WholeBufferDelivered
<1> QED
  BY <1>2, <1>3, <1>4

(* What one round of the loop does, in numbers. *)
LEMMA Round ==
    ASSUME IInv, WriteEntityChunks
    PROVE  /\ delivered' = delivered + bytes_to_write
           /\ delivered' = buffer_offset'
           /\ buffer_offset' \in 0..buffer_size
           /\ chunk' = [start |-> delivered, length |-> bytes_to_write, more |-> has_more_data]
           /\ bytes_to_write' \in 0..MAX_BYTES
           /\ has_more_data' <=> buffer_offset' # buffer_size
           /\ ~has_more_data => buffer_offset' = buffer_size
           /\ bytes_to_write = 0 => buffer_size = 0
<1>1. /\ buffer_size \in Nat /\ buffer_offset \in Nat /\ MAX_BYTES \in Nat \ {0}
      /\ bytes_to_write \in 0..MAX_BYTES /\ has_more_data \in BOOLEAN
      /\ buffer_offset <= buffer_size
      /\ delivered = buffer_offset
      /\ bytes_to_write = pmin(buffer_size - buffer_offset, MAX_BYTES)
      /\ ~has_more_data => buffer_size - buffer_offset <= MAX_BYTES
      /\ buffer_offset = buffer_size => buffer_size = 0
  BY WriteAssumption DEF IInv, TypeOK, LoopInvariant, WriteEntityChunks
<1>2. USHORT(bytes_to_write) = bytes_to_write
  BY <1>1, UshortExact
<1>3. /\ bytes_to_write <= buffer_size - buffer_offset
      /\ bytes_to_write = buffer_size - buffer_offset \/ bytes_to_write = MAX_BYTES
  BY <1>1 DEF pmin
<1>4. /\ buffer_offset' = buffer_offset + bytes_to_write
      /\ delivered' = delivered + bytes_to_write
      /\ chunk' = [start |-> delivered, length |-> bytes_to_write, more |-> has_more_data]
  BY <1>1, <1>2 DEF WriteEntityChunks
<1>5. buffer_offset' \in 0..buffer_size /\ buffer_size - buffer_offset' \in Nat
  BY <1>1, <1>3, <1>4
<1>6. bytes_to_write' \in 0..MAX_BYTES
  BY <1>1, <1>5, PminFacts DEF WriteEntityChunks
<1>7. ~has_more_data => buffer_offset' = buffer_size
  BY <1>1, <1>3, <1>4
<1>8. has_more_data' <=> buffer_offset' # buffer_size
  <2>1. \A x \in 0..buffer_size : (buffer_size - x > 0) <=> x # buffer_size
    BY <1>1
  <2>2. (buffer_size - buffer_offset' > 0) <=> buffer_offset' # buffer_size
    BY <1>5, <2>1, Zenon
  <2>3. has_more_data' = (buffer_size - buffer_offset' > 0)
    BY DEF WriteEntityChunks
  <2> QED
    BY <2>2, <2>3
<1>9. bytes_to_write = 0 => buffer_size = 0
  BY <1>1, <1>3
<1> QED
  BY <1>1, <1>4, <1>5, <1>6, <1>7, <1>8, <1>9

(* A round of the loop keeps the invariant. *)
LEMMA RoundKeeps == ASSUME IInv, WriteEntityChunks PROVE IInv'
<1> USE WriteAssumption DEF IInv, WriteEntityChunks
<1>1. TypeOK'
  BY Round DEF TypeOK
<1>2. LoopInvariant'
  BY Round DEF TypeOK, LoopInvariant
<1>3. WholeBufferDelivered'
  BY Round DEF TypeOK, LoopInvariant, WholeBufferDelivered
<1> QED
  BY <1>1, <1>2, <1>3

(* Every step keeps the invariant. *)
LEMMA NextKeeps == IInv /\ [Next]_vars => IInv'
<1> SUFFICES ASSUME IInv, [Next]_vars PROVE IInv'
  OBVIOUS
<1>1. CASE StrayPointer
  BY <1>1, WriteAssumption DEF IInv, StrayPointer, TypeOK, LoopInvariant, WholeBufferDelivered
<1>2. CASE BadArgument
  BY <1>2, WriteAssumption DEF IInv, BadArgument, TypeOK, LoopInvariant, WholeBufferDelivered
<1>3. CASE \E size \in 0..MaxSize : StartString(size)
  BY <1>3, BeginKeeps DEF StartString
<1>4. CASE \E view, size \in 0..MaxSize : StartArray(view, size)
  BY <1>4, BeginKeeps DEF StartArray
<1>5. CASE WriteEntityChunks
  BY <1>5, RoundKeeps
<1>6. CASE WriteFails
  BY <1>6 DEF IInv, WriteFails, TypeOK, LoopInvariant, WholeBufferDelivered
<1>7. CASE UNCHANGED vars
  BY <1>7 DEF vars, IInv, TypeOK, LoopInvariant, WholeBufferDelivered
<1> QED
  BY <1>1, <1>2, <1>3, <1>4, <1>5, <1>6, <1>7 DEF Next, Terminated

(* The invariant holds before anything is written. *)
LEMMA WriteInitHolds == Init => IInv
<1> SUFFICES ASSUME Init PROVE IInv
  OBVIOUS
<1>1. 0 \in 0..MaxSize /\ 0 \in 0..MAX_BYTES /\ 0 \in 0..MaxWrites
  BY WriteAssumption
<1>2. TypeOK
  BY <1>1 DEF Init, TypeOK
<1> QED
  BY <1>2 DEF Init, IInv, LoopInvariant, WholeBufferDelivered

(* The invariant holds throughout. *)
THEOREM Invariance == Spec => []IInv
BY WriteInitHolds, NextKeeps, PTL DEF Spec

(* No chunk is longer than MAX_BYTES and no subtraction wraps around. *)
THEOREM WriteTypeOK == Spec => []TypeOK
<1>1. IInv => TypeOK
  BY DEF IInv
<1> QED
  BY <1>1, Invariance, PTL

(* A write that returns has delivered the whole buffer, of any length. *)
THEOREM WriteDelivers == Spec => []WholeBufferDelivered
<1>1. IInv => WholeBufferDelivered
  BY DEF IInv
<1> QED
  BY <1>1, Invariance, PTL

(* Chunks neither leave a gap nor overlap. *)
THEOREM WriteContiguous == Spec => ChunksContiguous
<1>1. IInv /\ [Next]_vars =>
        [WriteEntityChunks => /\ chunk'.start = delivered
                              /\ delivered' <= buffer_size]_vars
  <2> SUFFICES ASSUME IInv, WriteEntityChunks
               PROVE  chunk'.start = delivered /\ delivered' <= buffer_size
    OBVIOUS
  <2> QED
    BY Round DEF IInv, TypeOK
<1> QED
  BY <1>1, Invariance, PTL DEF Spec, ChunksContiguous

(* A chunk announced as the last one is the last one, and only the chunk   *)
(* of an empty body is empty.                                              *)
THEOREM WriteLastMeansLast == Spec => LastMeansLast
<1>1. IInv /\ [Next]_vars =>
        [WriteEntityChunks => /\ ~chunk'.more => outcome' = "returned"
                              /\ chunk'.length = 0 => buffer_size = 0]_vars
  <2> SUFFICES ASSUME IInv, WriteEntityChunks
               PROVE  /\ ~chunk'.more => outcome' = "returned"
                      /\ chunk'.length = 0 => buffer_size = 0
    OBVIOUS
  <2> QED
    BY Round DEF WriteEntityChunks
<1> QED
  BY <1>1, Invariance, PTL DEF Spec, LastMeansLast

-----------------------------------------------------------------------------
(* A byte, a byte of a buffer that may not be initialised, and a chunk. *)
Octet == Nat \X Nat
Cell == Octet \cup {Garbage}
Chunk == [type : {"memory", "file"}, bytes : Seq(Octet)]

(* The chunks of list, one after the other, are the bytes of mem, and the  *)
(* k-th of them begins behind at[k].                                       *)
Laid(list, at, mem) ==
    /\ at \in [1..(Len(list) + 1) -> Nat]
    /\ mem \in Seq(Octet)
    /\ at[1] = 0 /\ at[Len(list) + 1] = Len(mem)
    /\ \A k \in 1..(Len(list) + 1) : at[k] <= Len(mem)
    /\ \A k \in 1..Len(list) :
         /\ at[k + 1] = at[k] + Len(list[k].bytes)
         /\ \A m \in 1..Len(list[k].bytes) : mem[at[k] + m] = list[k].bytes[m]

(* A run of bytes is a sequence of its length. *)
LEMMA BytesFacts ==
    ASSUME NEW n \in Nat, NEW first \in Nat, NEW count \in Nat
    PROVE  /\ Bytes(n, first, count) \in Seq(Octet)
           /\ Len(Bytes(n, first, count)) = count
           /\ \A k \in 1..count : Bytes(n, first, count)[k] = <<n, first + k>>
<1>1. \A k \in 1..count : <<n, first + k>> \in Octet
  BY DEF Octet
<1> QED
  BY <1>1 DEF Bytes

(* A sequence in two pieces. *)
LEMMA TwoPieces ==
    ASSUME NEW S, NEW s \in Seq(S), NEW t \in Seq(S), NEW u \in Seq(S),
           Len(u) = Len(s) + Len(t),
           \A k \in 1..Len(s) : u[k] = s[k],
           \A k \in 1..Len(t) : u[Len(s) + k] = t[k]
    PROVE  u = s \o t
<1>1. Len(s) \in Nat /\ Len(t) \in Nat
  BY LenProperties
<1>2. /\ s \o t \in Seq(S) /\ Len(s \o t) = Len(s) + Len(t)
      /\ \A k \in 1..(Len(s) + Len(t)) :
           (s \o t)[k] = IF k <= Len(s) THEN s[k] ELSE t[k - Len(s)]
  BY ConcatProperties
<1>3. ASSUME NEW k \in 1..(Len(s) + Len(t)) PROVE u[k] = (s \o t)[k]
  <2>1. CASE k <= Len(s)
    <3>1. k \in 1..Len(s)
      BY <1>1, <2>1
    <3> QED
      BY <1>2, <2>1, <3>1
  <2>2. CASE ~(k <= Len(s))
    <3>0. k - Len(s) \in 1..Len(t) /\ k = Len(s) + (k - Len(s))
      BY <1>1, <2>2
    <3>1. PICK m \in 1..Len(t) : k = Len(s) + m /\ k - Len(s) = m
      BY <3>0
    <3> QED
      BY <1>2, <2>2, <3>1
  <2> QED
    BY <2>1, <2>2
<1> QED
  BY <1>2, <1>3, SeqEqual

(* A chunk appended to the list lies behind the others. *)
LEMMA LaidAppend ==
    ASSUME NEW list \in Seq(Chunk), NEW at, NEW mem, Laid(list, at, mem), NEW c \in Chunk
    PROVE  \E pos : Laid(Append(list, c), pos, mem \o c.bytes)
<1> DEFINE n == Len(list)
           new == mem \o c.bytes
           more == Append(list, c)
           pos == [k \in 1..(n + 2) |-> IF k <= n + 1 THEN at[k] ELSE Len(new)]
<1>1. n \in Nat /\ mem \in Seq(Octet) /\ c.bytes \in Seq(Octet)
  BY LenProperties DEF Laid, Chunk
<1>2. /\ new \in Seq(Octet) /\ Len(new) = Len(mem) + Len(c.bytes)
      /\ \A m \in 1..Len(mem) : new[m] = mem[m]
      /\ \A m \in 1..Len(c.bytes) : new[Len(mem) + m] = c.bytes[m]
  BY <1>1, ConcatProperties, LenProperties
<1>3. /\ Len(more) = n + 1
      /\ \A k \in 1..n : more[k] = list[k]
      /\ more[n + 1] = c
  BY <1>1, AppendProperties
<1>4. Len(mem) \in Nat /\ Len(c.bytes) \in Nat
  BY <1>1, LenProperties
<1>5. \A k \in 1..n : Len(list[k].bytes) \in Nat
  BY <1>1, ElementOfSeq, LenProperties DEF Chunk
<1>6. /\ at \in [1..(n + 1) -> Nat]
      /\ at[1] = 0 /\ at[n + 1] = Len(mem)
      /\ \A k \in 1..(n + 1) : at[k] <= Len(mem)
      /\ \A k \in 1..n :
         /\ at[k + 1] = at[k] + Len(list[k].bytes)
         /\ \A m \in 1..Len(list[k].bytes) : mem[at[k] + m] = list[k].bytes[m]
  BY DEF Laid
<1> HIDE DEF n, new, more
<1>7. pos \in [1..(n + 2) -> Nat] /\ pos[1] = 0 /\ pos[n + 2] = Len(new)
  BY <1>1, <1>2, <1>4, <1>6
<1>8. \A k \in 1..(n + 2) : pos[k] <= Len(new)
  BY <1>1, <1>2, <1>4, <1>6
<1>9. ASSUME NEW k \in 1..(n + 1)
      PROVE  /\ pos[k + 1] = pos[k] + Len(more[k].bytes)
             /\ \A m \in 1..Len(more[k].bytes) : new[pos[k] + m] = more[k].bytes[m]
  <2>1. CASE k = n + 1
    <3>1. pos[k] = Len(mem) /\ pos[k + 1] = Len(new)
      BY <1>1, <1>6, <2>1
    <3> QED
      BY <1>2, <1>3, <2>1, <3>1
  <2>2. CASE k # n + 1
    <3>1. k \in 1..n /\ k + 1 \in 1..(n + 1) /\ k \in 1..(n + 1) /\ more[k] = list[k]
      BY <1>1, <1>3, <2>2
    <3>2. pos[k] = at[k] /\ pos[k + 1] = at[k + 1]
      BY <1>1, <3>1
    <3>3. at[k] \in Nat /\ at[k + 1] <= Len(mem) /\ at[k + 1] = at[k] + Len(list[k].bytes)
      BY <1>6, <3>1
    <3>4. ASSUME NEW m \in 1..Len(list[k].bytes)
          PROVE  new[at[k] + m] = list[k].bytes[m]
      <4>1. at[k] + m \in 1..Len(mem)
        BY <1>4, <1>5, <3>1, <3>3
      <4> QED
        BY <1>2, <1>6, <3>1, <4>1
    <3> QED
      BY <3>1, <3>2, <3>3, <3>4
  <2> QED
    BY <2>1, <2>2
<1>10. Laid(more, pos, new)
  <2>1. Len(more) + 1 = n + 2
    BY <1>1, <1>3
  <2> HIDE DEF pos
  <2> QED
    BY <1>2, <1>3, <1>7, <1>8, <1>9, <2>1 DEF Laid
<1> HIDE DEF pos
<1> QED
  BY <1>10 DEF more, new

-----------------------------------------------------------------------------
(* The part of the state that does not depend on where the chunks lie. *)
ChunksOK ==
    /\ entity \in Seq(Chunk)
    /\ \A k \in 1..Len(entity) :
         /\ entity[k].type = "file" => entity[k].bytes = <<>>
         /\ Len(entity[k].bytes) <= MAX_BYTES

CountsOK == /\ reads \in 0..MaxReads /\ foreign \in 0..MaxForeign /\ clears \in 0..MaxClears
            /\ total_size \in 0..(MaxWrites * MaxSize + MaxForeign)

ControlOK == /\ reading \in {"no", "sum", "copy"}
             /\ reading # "no" => pc = "idle"
             /\ damaged \in BOOLEAN
             /\ result.is \in {"null", "exception", "value"}

(* What belongs into memory is what lies there, followed by what a write   *)
(* in progress has still to deliver.                                       *)
Rest == Bytes(writes, delivered, buffer_size - delivered)

Owed(mem) == ~damaged => due = IF pc = "writing" THEN mem \o Rest ELSE mem

(* There is no more than the bounds allow. *)
Bounded(mem) ==
    Len(mem) + (IF pc = "writing" THEN buffer_size - delivered ELSE 0)
        <= writes * MaxSize + foreign

(* The two loops of read: the sum and the offset are where chunk i begins. *)
Looping(at, mem) ==
    /\ reading # "no" => i \in 1..(Len(entity) + 1)
    /\ reading = "sum" => total_size = at[i]
    /\ reading = "copy" =>
         /\ total_size = Len(mem) /\ total_size # 0
         /\ offset = at[i]
         /\ data \in Seq(Cell) /\ Len(data) = total_size
         /\ \A m \in 1..offset : data[m] = mem[m]

Layout(at, mem) == Laid(entity, at, mem) /\ Owed(mem) /\ Bounded(mem) /\ Looping(at, mem)

BodyInv == /\ IInv
           /\ ChunksOK
           /\ CountsOK
           /\ ControlOK
           /\ \E at, mem : Layout(at, mem)

-----------------------------------------------------------------------------
(* A step of the response's body is a step of write, or none. *)
LEMMA BodyStep == [BodyNext]_<<vars, bodyVars>> => [Next]_vars
<1> SUFFICES ASSUME BodyNext PROVE Next \/ UNCHANGED vars
  BY DEF vars
<1>1. CASE WriteBegins
  BY <1>1 DEF WriteBegins, Next
<1>2. CASE ChunkWritten
  BY <1>2 DEF ChunkWritten, Next
<1>3. CASE WriteThrows
  BY <1>3 DEF WriteThrows, Next
<1>4. CASE Stray
  BY <1>4 DEF Stray, Next
<1>5. CASE ForeignChunk \/ Clear \/ ReadBegins \/ SumChunk \/ Allocate \/ CopyChunk \/ ReadEnds
  BY <1>5 DEF ForeignChunk, Clear, ReadBegins, SumChunk, Allocate, CopyChunk, ReadEnds
<1>6. CASE Sent
  BY <1>6 DEF Sent
<1> QED
  BY <1>1, <1>2, <1>3, <1>4, <1>5, <1>6 DEF BodyNext

(* Multiplying by more gives more. *)
LEMMA ProductGrows ==
    ASSUME NEW a \in Nat, NEW b \in Nat, NEW c \in Nat, a <= b
    PROVE  a * c <= b * c /\ a * c \in Nat /\ b * c \in Nat /\ (a + 1) * c = a * c + c
OBVIOUS

(* Within the bounds of writing, memory is within the bounds of reading. *)
LEMMA MemoryBound ==
    ASSUME BodyInv, NEW at, NEW mem, Layout(at, mem), pc # "writing"
    PROVE  Len(mem) \in 0..(MaxWrites * MaxSize + MaxForeign)
<1>1. mem \in Seq(Octet)
  BY DEF Layout, Laid
<1>2. Len(mem) \in Nat
  BY <1>1, LenProperties
<1>3. writes \in Nat /\ MaxWrites \in Nat /\ MaxSize \in Nat /\ writes <= MaxWrites
  BY WriteAssumption DEF BodyInv, IInv, TypeOK
<1>4. foreign \in Nat /\ MaxForeign \in Nat /\ foreign <= MaxForeign
  BY BodyAssumption DEF BodyInv, CountsOK
<1>5. /\ writes * MaxSize <= MaxWrites * MaxSize
      /\ writes * MaxSize \in Nat /\ MaxWrites * MaxSize \in Nat
  BY <1>3, ProductGrows
<1>6. Len(mem) <= writes * MaxSize + foreign
  BY <1>2 DEF Layout, Bounded
<1> QED
  BY <1>2, <1>4, <1>5, <1>6

(* Types that the steps below need. *)
LEMMA BodyFacts ==
    ASSUME BodyInv, NEW at, NEW mem, Layout(at, mem)
    PROVE  /\ mem \in Seq(Octet) /\ Len(mem) \in Nat
           /\ entity \in Seq(Chunk) /\ Len(entity) \in Nat
           /\ at \in [1..(Len(entity) + 1) -> Nat]
           /\ \A k \in 1..Len(entity) : /\ entity[k].bytes \in Seq(Octet)
                                        /\ Len(entity[k].bytes) \in Nat
<1>1. mem \in Seq(Octet) /\ entity \in Seq(Chunk) /\ at \in [1..(Len(entity) + 1) -> Nat]
  BY DEF Layout, Laid, BodyInv, ChunksOK
<1>2. ASSUME NEW k \in 1..Len(entity) PROVE entity[k].bytes \in Seq(Octet)
  <2>1. entity[k] \in Chunk
    BY <1>1, ElementOfSeq
  <2> QED
    BY <2>1 DEF Chunk
<1> QED
  BY <1>1, <1>2, LenProperties

(* The call of read. *)
LEMMA ReadBeginsKeeps ==
    ASSUME BodyInv, NEW at, NEW mem, Layout(at, mem), ReadBegins
    PROVE  ChunksOK' /\ CountsOK' /\ ControlOK' /\ Layout(at, mem)'
<1>1. ChunksOK'
  BY DEF BodyInv, ChunksOK, ReadBegins
<1>2. CountsOK'
  <2>1. reads' \in 0..MaxReads
    BY BodyAssumption DEF BodyInv, CountsOK, ReadBegins
  <2>2. total_size' = 0 /\ UNCHANGED <<foreign, clears>>
    BY DEF ReadBegins
  <2>3. 0 \in 0..(MaxWrites * MaxSize + MaxForeign)
    <3>1. MaxWrites * MaxSize \in Nat /\ MaxForeign \in Nat
      BY ProductGrows, WriteAssumption, BodyAssumption
    <3> QED
      BY <3>1
  <2> QED
    BY <2>1, <2>2, <2>3 DEF BodyInv, CountsOK
<1>3. ControlOK'
  BY DEF BodyInv, ControlOK, ReadBegins, Null, vars
<1>4. Layout(at, mem)'
  <2>1. Laid(entity', at, mem) /\ Owed(mem)' /\ Bounded(mem)'
    BY DEF Layout, Owed, Rest, Bounded, ReadBegins, vars
  <2>2. Looping(at, mem)'
    <3>1. 1 \in 1..(Len(entity) + 1) /\ at[1] = 0
      BY BodyFacts DEF Layout, Laid
    <3>2. i' = 1 /\ total_size' = 0 /\ entity' = entity /\ reading' # "copy"
      BY DEF ReadBegins
    <3> QED
      BY <3>1, <3>2 DEF Looping
  <2> QED
    BY <2>1, <2>2 DEF Layout
<1> QED
  BY <1>1, <1>2, <1>3, <1>4

(* A round of the first loop. *)
LEMMA SumChunkKeeps ==
    ASSUME BodyInv, NEW at, NEW mem, Layout(at, mem), SumChunk
    PROVE  ChunksOK' /\ CountsOK' /\ ControlOK' /\ Layout(at, mem)'
<1>1. /\ i \in 1..Len(entity) /\ total_size = at[i] /\ Len(entity) \in Nat
      /\ pc = "idle" /\ reading = "sum"
  <2>1. i \in 1..(Len(entity) + 1) /\ i <= Len(entity) /\ total_size = at[i] /\ reading = "sum"
    BY DEF Layout, Looping, SumChunk
  <2>2. Len(entity) \in Nat
    BY BodyFacts
  <2>3. pc = "idle"
    BY <2>1 DEF BodyInv, ControlOK
  <2> QED
    BY <2>1, <2>2, <2>3
<1>2. (IF entity[i].type = "memory" THEN Len(entity[i].bytes) ELSE 0) = Len(entity[i].bytes)
  <2>1. CASE entity[i].type = "memory"
    BY <2>1
  <2>2. CASE entity[i].type # "memory"
    <3>1. entity[i] \in Chunk
      BY <1>1, BodyFacts, ElementOfSeq
    <3>2. entity[i].type = "file"
      BY <2>2, <3>1 DEF Chunk
    <3>3. entity[i].bytes = <<>>
      BY <1>1, <3>2 DEF BodyInv, ChunksOK
    <3> QED
      BY <2>2, <3>3, EmptySeq
  <2> QED
    BY <2>1, <2>2
<1>3. total_size' = at[i + 1] /\ i' = i + 1 /\ i + 1 \in 1..(Len(entity) + 1)
  <2>1. total_size' = total_size + Len(entity[i].bytes) /\ i' = i + 1
    BY <1>2 DEF SumChunk
  <2>2. at[i + 1] = at[i] + Len(entity[i].bytes)
    BY <1>1 DEF Layout, Laid
  <2> QED
    BY <1>1, <2>1, <2>2
<1>4. total_size' \in 0..(MaxWrites * MaxSize + MaxForeign)
  <2>1. at[i + 1] <= Len(mem) /\ at[i + 1] \in Nat
    BY <1>3, BodyFacts DEF Layout, Laid
  <2>2. Len(mem) \in 0..(MaxWrites * MaxSize + MaxForeign)
    BY <1>1, MemoryBound
  <2>3. MaxWrites * MaxSize \in Nat /\ MaxForeign \in Nat
    BY ProductGrows, WriteAssumption, BodyAssumption
  <2> HIDE DEF Layout
  <2> QED
    BY <1>3, <2>1, <2>2, <2>3
<1>5. ChunksOK' /\ CountsOK'
  BY <1>4 DEF BodyInv, ChunksOK, CountsOK, SumChunk
<1>6. ControlOK'
  BY DEF BodyInv, ControlOK, SumChunk, vars
<1>7. Looping(at, mem)'
  <2>1. reading' = "sum" /\ entity' = entity
    BY <1>1 DEF SumChunk
  <2> QED
    BY <1>3, <2>1 DEF Looping
<1>8. Laid(entity', at, mem) /\ Owed(mem)' /\ Bounded(mem)'
  BY DEF Layout, Owed, Rest, Bounded, SumChunk, vars
<1> QED
  BY <1>5, <1>6, <1>7, <1>8 DEF Layout

(* A sequence of a given length. *)
LEMMA BlankFacts ==
    ASSUME NEW n \in Nat
    PROVE  /\ [k \in 1..n |-> Garbage] \in Seq(Cell)
           /\ Len([k \in 1..n |-> Garbage]) = n
BY DEF Cell

(* Between the loops the buffer is made, or nothing is there to return. *)
LEMMA AllocateKeeps ==
    ASSUME BodyInv, NEW at, NEW mem, Layout(at, mem), Allocate
    PROVE  /\ ChunksOK' /\ CountsOK' /\ ControlOK' /\ Layout(at, mem)'
           /\ total_size = Len(mem) /\ pc = "idle"
<1>1. pc = "idle" /\ reading = "sum"
  BY DEF BodyInv, ControlOK, Allocate
<1>2. total_size = Len(mem)
  <2>1. i \in 1..(Len(entity) + 1) /\ i > Len(entity) /\ Len(entity) \in Nat
    BY <1>1, BodyFacts DEF Layout, Looping, Allocate
  <2>2. i = Len(entity) + 1
    BY <2>1
  <2> QED
    BY <1>1, <2>2 DEF Layout, Looping, Laid
<1>3. ChunksOK' /\ CountsOK'
  BY DEF BodyInv, ChunksOK, CountsOK, Allocate
<1>4. ControlOK'
  BY <1>1 DEF BodyInv, ControlOK, Allocate, vars, Null
<1>5. Laid(entity', at, mem) /\ Owed(mem)' /\ Bounded(mem)'
  BY DEF Layout, Owed, Rest, Bounded, Allocate, vars
<1>6. Looping(at, mem)'
  <2>1. CASE total_size = 0
    BY <2>1 DEF Looping, Allocate
  <2>2. CASE total_size # 0
    <3>1. /\ i' = 1 /\ offset' = 0 /\ data' = [k \in 1..total_size |-> Garbage]
          /\ entity' = entity /\ total_size' = total_size /\ reading' = "copy"
      BY <2>2 DEF Allocate
    <3>2. 1 \in 1..(Len(entity) + 1) /\ at[1] = 0 /\ Len(mem) \in Nat
      BY BodyFacts DEF Layout, Laid
    <3>3. data' \in Seq(Cell) /\ Len(data') = total_size
      BY <1>2, <3>1, <3>2, BlankFacts
    <3> QED
      BY <1>2, <2>2, <3>1, <3>2, <3>3 DEF Looping
  <2> QED
    BY <2>1, <2>2
<1> QED
  BY <1>1, <1>2, <1>3, <1>4, <1>5, <1>6 DEF Layout

(* memcpy overwrites the bytes behind the offset and no others. *)
LEMMA CopiedFacts ==
    ASSUME NEW to \in Seq(Cell), NEW from \in Seq(Octet), NEW o \in Nat,
           o + Len(from) <= Len(to)
    PROVE  /\ Copied(to, o, from) \in Seq(Cell)
           /\ Len(Copied(to, o, from)) = Len(to)
           /\ \A k \in 1..o : Copied(to, o, from)[k] = to[k]
           /\ \A m \in 1..Len(from) : Copied(to, o, from)[o + m] = from[m]
<1>1. /\ Len(to) \in Nat /\ DOMAIN to = 1..Len(to) /\ \A k \in 1..Len(to) : to[k] \in Cell
      /\ Len(from) \in Nat /\ DOMAIN from = 1..Len(from)
      /\ \A k \in 1..Len(from) : from[k] \in Cell
  BY LenProperties, ElementOfSeq DEF Cell
<1> DEFINE n == Len(to)
           f == Copied(to, o, from)
<1>2. /\ DOMAIN f = 1..n
      /\ \A k \in 1..n : f[k] = IF k - o \in 1..Len(from) THEN from[k - o] ELSE to[k]
  BY <1>1 DEF Copied
<1>3. f = [k \in 1..n |-> IF k - o \in 1..Len(from) THEN from[k - o] ELSE to[k]]
  BY <1>1 DEF Copied
<1>4. \A k \in 1..n : (IF k - o \in 1..Len(from) THEN from[k - o] ELSE to[k]) \in Cell
  BY <1>1
<1>5. f \in Seq(Cell) /\ Len(f) = n
  BY <1>1, <1>3, <1>4
<1>6. \A k \in 1..o : f[k] = to[k]
  <2> TAKE k \in 1..o
  <2>1. k \in 1..n /\ ~(k - o \in 1..Len(from))
    BY <1>1
  <2> QED
    BY <1>2, <2>1
<1>7. \A m \in 1..Len(from) : f[o + m] = from[m]
  <2> TAKE m \in 1..Len(from)
  <2>1. o + m \in 1..n /\ (o + m) - o = m
    BY <1>1
  <2> QED
    BY <1>2, <2>1
<1> QED
  BY <1>5, <1>6, <1>7

(* A round of the second loop. *)
LEMMA CopyChunkKeeps ==
    ASSUME BodyInv, NEW at, NEW mem, Layout(at, mem), CopyChunk
    PROVE  ChunksOK' /\ CountsOK' /\ ControlOK' /\ Layout(at, mem)'
<1>1. /\ i \in 1..Len(entity) /\ i + 1 \in 1..(Len(entity) + 1) /\ offset = at[i]
      /\ total_size = Len(mem) /\ total_size # 0
      /\ data \in Seq(Cell) /\ Len(data) = total_size
      /\ \A m \in 1..offset : data[m] = mem[m]
      /\ reading = "copy"
  <2>1. /\ i \in 1..(Len(entity) + 1) /\ i <= Len(entity) /\ reading = "copy"
        /\ offset = at[i] /\ total_size = Len(mem) /\ total_size # 0
        /\ data \in Seq(Cell) /\ Len(data) = total_size
        /\ \A m \in 1..offset : data[m] = mem[m]
    BY DEF Layout, Looping, CopyChunk
  <2>2. Len(entity) \in Nat
    BY BodyFacts
  <2>3. i \in 1..Len(entity) /\ i + 1 \in 1..(Len(entity) + 1)
    BY <2>1, <2>2
  <2> QED
    BY <2>1, <2>3
<1> DEFINE piece == entity[i].bytes
<1>2. /\ piece \in Seq(Octet) /\ Len(piece) \in Nat /\ Len(mem) \in Nat
      /\ at[i] \in Nat /\ at[i + 1] \in Nat
      /\ at[i + 1] = at[i] + Len(piece) /\ at[i + 1] <= Len(mem)
      /\ \A m \in 1..Len(piece) : mem[at[i] + m] = piece[m]
  <2>1. piece \in Seq(Octet) /\ Len(piece) \in Nat /\ Len(mem) \in Nat
    BY <1>1, BodyFacts
  <2>2. i \in 1..(Len(entity) + 1)
    BY <1>1, BodyFacts
  <2>3. at[i] \in Nat /\ at[i + 1] \in Nat
    BY <1>1, <2>2, BodyFacts
  <2>4. at[i + 1] <= Len(mem)
    BY <1>1 DEF Layout, Laid
  <2>5. /\ at[i + 1] = at[i] + Len(piece)
        /\ \A m \in 1..Len(piece) : mem[at[i] + m] = piece[m]
    BY <1>1 DEF Layout, Laid
  <2> QED
    BY <2>1, <2>3, <2>4, <2>5
<1>3. /\ data' \in Seq(Cell) /\ Len(data') = Len(data)
      /\ offset' = at[i + 1]
      /\ \A m \in 1..offset' : data'[m] = mem[m]
  <2>1. CASE entity[i].type = "memory" /\ piece # <<>>
    <3>1. data' = Copied(data, offset, piece) /\ offset' = offset + Len(piece)
      BY <2>1 DEF CopyChunk
    <3>2. offset \in Nat /\ offset + Len(piece) <= Len(data)
      BY <1>1, <1>2
    <3> HIDE DEF piece
    <3>3. /\ data' \in Seq(Cell) /\ Len(data') = Len(data)
          /\ \A k \in 1..offset : data'[k] = data[k]
          /\ \A m \in 1..Len(piece) : data'[offset + m] = piece[m]
      BY <1>1, <1>2, <3>1, <3>2, CopiedFacts
    <3>4. ASSUME NEW m \in 1..(offset + Len(piece)) PROVE data'[m] = mem[m]
      <4>1. CASE m \in 1..offset
        BY <1>1, <3>3, <4>1
      <4>2. CASE m \notin 1..offset
        <5>1. m - offset \in 1..Len(piece) /\ offset + (m - offset) = m
          BY <1>2, <3>2, <4>2
        <5>2. PICK x \in 1..Len(piece) : m = offset + x
          BY <5>1
        <5> QED
          BY <1>1, <1>2, <3>3, <5>2
      <4> QED
        BY <4>1, <4>2
    <3>5. offset' = at[i + 1]
      BY <1>1, <1>2, <3>1
    <3> QED
      BY <3>1, <3>3, <3>4, <3>5
  <2>2. CASE ~(entity[i].type = "memory" /\ piece # <<>>)
    <3>1. data' = data /\ offset' = offset
      BY <2>2 DEF CopyChunk
    <3>2. piece = <<>>
      <4>1. entity[i] \in Chunk
        BY <1>1, BodyFacts, ElementOfSeq
      <4>2. entity[i].type = "file" => piece = <<>>
        BY <1>1 DEF BodyInv, ChunksOK
      <4> QED
        BY <2>2, <4>1, <4>2 DEF Chunk
    <3>3. Len(piece) = 0
      BY <3>2, EmptySeq
    <3>4. at[i + 1] = at[i]
      BY <1>2, <3>3
    <3> QED
      BY <1>1, <3>1, <3>4
  <2> QED
    BY <2>1, <2>2
<1>4. /\ i' = i + 1 /\ entity' = entity /\ total_size' = total_size /\ reading' = "copy"
      /\ UNCHANGED <<result, reads, foreign, clears, due, damaged, vars>>
  BY <1>1 DEF CopyChunk
<1>5. ChunksOK' /\ CountsOK'
  BY <1>4 DEF BodyInv, ChunksOK, CountsOK
<1>6. ControlOK'
  BY <1>1, <1>4 DEF BodyInv, ControlOK, vars
<1>7. Looping(at, mem)'
  BY <1>1, <1>3, <1>4 DEF Looping
<1>8. Laid(entity', at, mem) /\ Owed(mem)' /\ Bounded(mem)'
  BY <1>4 DEF Layout, Owed, Rest, Bounded, vars
<1> QED
  BY <1>5, <1>6, <1>7, <1>8 DEF Layout

(* The end of a read: the buffer holds all that lies in memory. *)
LEMMA ReadEndsKeeps ==
    ASSUME BodyInv, NEW at, NEW mem, Layout(at, mem), ReadEnds
    PROVE  /\ ChunksOK' /\ CountsOK' /\ ControlOK' /\ Layout(at, mem)'
           /\ data = mem /\ mem # <<>> /\ pc = "idle"
<1>1. pc = "idle" /\ reading = "copy"
  BY DEF BodyInv, ControlOK, ReadEnds
<1>2. data = mem /\ mem # <<>>
  <2>1. i \in 1..(Len(entity) + 1) /\ i > Len(entity) /\ Len(entity) \in Nat
    BY <1>1, BodyFacts DEF Layout, Looping, ReadEnds
  <2>2. i = Len(entity) + 1
    BY <2>1
  <2>3. /\ offset = Len(mem) /\ Len(mem) # 0 /\ Len(data) = Len(mem)
        /\ data \in Seq(Cell) /\ mem \in Seq(Octet)
        /\ \A m \in 1..Len(mem) : data[m] = mem[m]
    BY <1>1, <2>2, BodyFacts DEF Layout, Looping, Laid
  <2>4. mem \in Seq(Cell)
    BY <2>3, LenProperties, ElementOfSeq DEF Cell
  <2>5. data = mem
    BY <2>3, <2>4, SeqEqual
  <2>6. mem # <<>>
    BY <2>3, EmptySeq
  <2> QED
    BY <2>5, <2>6
<1>3. ChunksOK' /\ CountsOK'
  BY DEF BodyInv, ChunksOK, CountsOK, ReadEnds
<1>4. ControlOK'
  BY DEF BodyInv, ControlOK, ReadEnds, vars, Value, Threw
<1>5. Laid(entity', at, mem) /\ Owed(mem)' /\ Bounded(mem)'
  BY DEF Layout, Owed, Rest, Bounded, ReadEnds, vars
<1>6. Looping(at, mem)'
  BY DEF Looping, ReadEnds
<1> QED
  BY <1>1, <1>2, <1>3, <1>4, <1>5, <1>6 DEF Layout

-----------------------------------------------------------------------------
(* The call of write: what it is going to deliver is due. *)
LEMMA WriteBeginsKeeps ==
    ASSUME BodyInv, NEW at, NEW mem, Layout(at, mem), WriteBegins
    PROVE  ChunksOK' /\ CountsOK' /\ ControlOK' /\ Layout(at, mem)'
<1>1. PICK size \in 0..MaxSize : Begin(size)
  BY DEF WriteBegins, StartString, StartArray
<1>2. /\ pc = "idle" /\ pc' = "writing" /\ buffer_size' = size /\ delivered' = 0
      /\ writes' = writes + 1 /\ reading = "no"
  BY <1>1 DEF Begin, WriteBegins
<1>3. /\ due' = due \o Bytes(writes', 0, buffer_size')
      /\ UNCHANGED <<entity, reading, i, total_size, offset, data, result, reads, foreign,
                     clears, damaged>>
  BY DEF WriteBegins
<1>4. ChunksOK' /\ CountsOK' /\ ControlOK'
  BY <1>2, <1>3 DEF BodyInv, ChunksOK, CountsOK, ControlOK
<1>5. Laid(entity', at, mem) /\ Looping(at, mem)'
  BY <1>2, <1>3 DEF Layout, Looping
<1>6. size \in Nat /\ size - 0 = size
  BY WriteAssumption
<1>7. Owed(mem)'
  <2>1. Rest' = Bytes(writes', 0, size)
    BY <1>2, <1>6 DEF Rest
  <2>2. ~damaged => due = mem
    BY <1>2 DEF Layout, Owed
  <2> QED
    BY <1>2, <1>3, <2>1, <2>2 DEF Owed
<1>8. Bounded(mem)'
  <2>1. /\ writes \in Nat /\ writes' <= MaxWrites /\ MaxWrites \in Nat /\ MaxSize \in Nat
        /\ size <= MaxSize
    BY <1>1, <1>2, WriteAssumption DEF BodyInv, IInv, TypeOK, Begin
  <2>2. (writes + 1) * MaxSize = writes * MaxSize + MaxSize /\ writes * MaxSize \in Nat
    BY <2>1, ProductGrows
  <2>3. Len(mem) \in Nat /\ foreign \in Nat
    BY BodyFacts, BodyAssumption DEF BodyInv, CountsOK
  <2>4. Len(mem) <= writes * MaxSize + foreign
    BY <1>2, <2>3 DEF Layout, Bounded
  <2>5. Len(mem) + size <= (writes + 1) * MaxSize + foreign
    BY <1>6, <2>1, <2>2, <2>3, <2>4
  <2> QED
    BY <1>2, <1>3, <1>6, <2>5 DEF Bounded
<1> QED
  BY <1>4, <1>5, <1>7, <1>8 DEF Layout

(* A chunk of write lies behind the others and is no longer due. *)
LEMMA ChunkWrittenKeeps ==
    ASSUME BodyInv, NEW at, NEW mem, Layout(at, mem), ChunkWritten
    PROVE  ChunksOK' /\ CountsOK' /\ ControlOK' /\ \E pos, new : Layout(pos, new)'
<1> DEFINE n == bytes_to_write
           piece == Bytes(writes, delivered, n)
<1>1. /\ delivered' = delivered + n /\ delivered' \in 0..buffer_size
      /\ chunk'.start = delivered /\ chunk'.length = n
      /\ pc = "writing" /\ buffer_size' = buffer_size /\ writes' = writes
      /\ pc' \in {"writing", "idle"}
      /\ pc' = "idle" => delivered' = buffer_size
  <2>1. WriteEntityChunks /\ IInv
    BY DEF ChunkWritten, BodyInv
  <2>2. /\ delivered' = delivered + n /\ delivered' \in 0..buffer_size
        /\ chunk'.start = delivered /\ chunk'.length = n
        /\ has_more_data' <=> delivered' # buffer_size
    BY <2>1, Round
  <2> QED
    BY <2>1, <2>2 DEF WriteEntityChunks
<1>2. writes \in Nat /\ delivered \in Nat /\ n \in Nat /\ n <= MAX_BYTES /\ buffer_size \in Nat
  BY WriteAssumption DEF BodyInv, IInv, TypeOK
<1>3. piece \in Seq(Octet) /\ Len(piece) = n
  BY <1>2, BytesFacts
<1>4. /\ entity' = Append(entity, InMemory(piece))
      /\ UNCHANGED <<reading, i, total_size, offset, data, result, reads, foreign, clears,
                     due, damaged>>
  BY <1>1 DEF ChunkWritten
<1> HIDE DEF piece, n
<1>0. PICK new : new = mem \o piece
  OBVIOUS
<1>5. InMemory(piece) \in Chunk /\ InMemory(piece).bytes = piece /\ InMemory(piece).type = "memory"
  BY <1>3 DEF Chunk, InMemory
<1>6. ChunksOK'
  <2>1. entity \in Seq(Chunk) /\ Len(entity) \in Nat
    BY BodyFacts
  <2>2. /\ entity' \in Seq(Chunk) /\ Len(entity') = Len(entity) + 1
        /\ \A k \in 1..Len(entity) : entity'[k] = entity[k]
        /\ entity'[Len(entity) + 1] = InMemory(piece)
    BY <1>4, <1>5, <2>1, AppendProperties
  <2>3. ASSUME NEW k \in 1..Len(entity')
        PROVE  /\ entity'[k].type = "file" => entity'[k].bytes = <<>>
               /\ Len(entity'[k].bytes) <= MAX_BYTES
    <3>1. CASE k = Len(entity) + 1
      BY <1>2, <1>3, <1>5, <2>2, <3>1
    <3>2. CASE k # Len(entity) + 1
      <4>1. k \in 1..Len(entity)
        BY <2>1, <2>2, <3>2
      <4> QED
        BY <2>2, <4>1 DEF BodyInv, ChunksOK
    <3> QED
      BY <3>1, <3>2
  <2> QED
    BY <2>2, <2>3 DEF ChunksOK
<1>7. CountsOK'
  BY <1>4 DEF BodyInv, CountsOK
<1>8. reading = "no" /\ reading' = "no"
  BY <1>1, <1>4 DEF BodyInv, ControlOK
<1>9. ControlOK'
  BY <1>4, <1>8 DEF BodyInv, ControlOK
<1>10. PICK pos : Laid(entity', pos, new)
  <2>1. entity \in Seq(Chunk) /\ Laid(entity, at, mem)
    BY BodyFacts DEF Layout
  <2>2. \E pos : Laid(Append(entity, InMemory(piece)), pos, mem \o InMemory(piece).bytes)
    BY <1>5, <2>1, LaidAppend
  <2> QED
    BY <1>0, <1>4, <1>5, <2>2
<1>11. Looping(pos, new)'
  BY <1>8 DEF Looping
<1>12. mem \in Seq(Octet) /\ Len(mem) \in Nat
  BY BodyFacts
<1> DEFINE tail == Bytes(writes, delivered + n, buffer_size - (delivered + n))
<1>13. Owed(new)'
  <2> SUFFICES ASSUME ~damaged
               PROVE  due = IF pc' = "writing" THEN new \o Rest' ELSE new
    BY <1>4 DEF Owed
  <2>1. due = mem \o Bytes(writes, delivered, buffer_size - delivered)
    BY <1>1 DEF Layout, Owed, Rest
  <2>2. /\ buffer_size - (delivered + n) \in Nat /\ delivered + n \in Nat
        /\ buffer_size - delivered = n + (buffer_size - (delivered + n))
    BY <1>1, <1>2
  <2>3. tail \in Seq(Octet) /\ Len(tail) = buffer_size - (delivered + n)
    BY <1>2, <2>2, BytesFacts
  <2>4. Bytes(writes, delivered, buffer_size - delivered) = piece \o tail
    <3> DEFINE whole == Bytes(writes, delivered, buffer_size - delivered)
    <3>1. buffer_size - delivered \in Nat
      BY <1>2, <2>2
    <3>2. /\ whole \in Seq(Octet) /\ Len(whole) = buffer_size - delivered
          /\ \A k \in 1..(buffer_size - delivered) : whole[k] = <<writes, delivered + k>>
      BY <1>2, <3>1, BytesFacts
    <3>3. \A k \in 1..n : piece[k] = <<writes, delivered + k>>
      BY <1>2, BytesFacts DEF piece
    <3>4. \A k \in 1..(buffer_size - (delivered + n)) : tail[k] = <<writes, (delivered + n) + k>>
      BY <1>2, <2>2, BytesFacts
    <3> HIDE DEF whole, tail
    <3>5. \A k \in 1..n : whole[k] = piece[k]
      <4> TAKE k \in 1..n
      <4>1. k \in 1..(buffer_size - delivered)
        BY <1>2, <2>2
      <4> QED
        BY <3>2, <3>3, <4>1
    <3>6. \A k \in 1..(buffer_size - (delivered + n)) : whole[n + k] = tail[k]
      <4> TAKE k \in 1..(buffer_size - (delivered + n))
      <4>1. n + k \in 1..(buffer_size - delivered) /\ delivered + (n + k) = (delivered + n) + k
        BY <1>2, <2>2
      <4>2. whole[n + k] = <<writes, delivered + (n + k)>>
        BY <3>2, <4>1
      <4> QED
        BY <3>4, <4>1, <4>2
    <3>7. Len(whole) = Len(piece) + Len(tail)
      BY <1>3, <2>2, <2>3, <3>2
    <3>8. /\ \A k \in 1..Len(piece) : whole[k] = piece[k]
          /\ \A k \in 1..Len(tail) : whole[Len(piece) + k] = tail[k]
      BY <1>3, <2>3, <3>5, <3>6
    <3>9. whole = piece \o tail
      BY <1>3, <2>3, <3>2, <3>7, <3>8, TwoPieces, Zenon
    <3> QED
      BY <3>9 DEF whole
  <2>5. Rest' = tail
    BY <1>1 DEF Rest
  <2> HIDE DEF tail
  <2>6. (mem \o piece) \o tail = mem \o (piece \o tail)
    BY <1>3, <1>12, <2>3, SMTT(30)
  <2>7. due = new \o tail
    BY <1>0, <2>1, <2>4, <2>6
  <2>8. new \in Seq(Octet)
    BY <1>0, <1>3, <1>12, ConcatProperties
  <2>9. pc' # "writing" => new \o tail = new
    <3>1. pc' # "writing" => Len(tail) = 0
      <4>1. pc' # "writing" => delivered + n = buffer_size
        BY <1>1
      <4>2. delivered + n = buffer_size => buffer_size - (delivered + n) = 0
        BY <1>2
      <4> QED
        BY <2>3, <4>1, <4>2
    <3>2. pc' # "writing" => tail = <<>>
      BY <2>3, <3>1, EmptySeq
    <3> QED
      BY <2>8, <3>2, ConcatEmptySeq
  <2> QED
    BY <2>5, <2>7, <2>9
<1>14. Bounded(new)'
  <2>1. Len(new) = Len(mem) + n
    BY <1>0, <1>3, <1>12, ConcatProperties
  <2>2. Len(mem) + (buffer_size - delivered) <= writes * MaxSize + foreign
    BY <1>1 DEF Layout, Bounded
  <2> DEFINE most == writes * MaxSize + foreign
  <2>3. most' = most
    BY <1>1, <1>4
  <2>4. most \in Nat
    <3>1. writes * MaxSize \in Nat
      BY <1>2, ProductGrows, WriteAssumption
    <3>2. foreign \in Nat
      BY BodyAssumption DEF BodyInv, CountsOK
    <3> QED
      BY <3>1, <3>2
  <2>5. Len(mem) + (buffer_size - delivered) <= most
    BY <2>2
  <2> HIDE DEF most
  <2>6. Len(new) + (buffer_size - (delivered + n)) <= most /\ Len(new) <= most
    BY <1>1, <1>2, <1>12, <2>1, <2>4, <2>5
  <2>7. Len(new) + (IF pc' = "writing" THEN buffer_size' - delivered' ELSE 0) <= most'
    BY <1>1, <1>12, <1>2, <2>1, <2>3, <2>6
  <2> QED
    BY <2>7 DEF Bounded, most
<1>15. Layout(pos, new)'
  BY <1>10, <1>11, <1>13, <1>14 DEF Layout
<1> QED
  BY <1>6, <1>7, <1>9, <1>15

(* A write that throws: what it still had to deliver is lost. *)
LEMMA WriteThrowsKeeps ==
    ASSUME BodyInv, NEW at, NEW mem, Layout(at, mem), WriteThrows
    PROVE  ChunksOK' /\ CountsOK' /\ ControlOK' /\ Layout(at, mem)'
<1>1. /\ reading = "no" /\ damaged' = (damaged \/ pc = "writing")
      /\ UNCHANGED <<entity, reading, i, total_size, offset, data, result, reads, foreign,
                     clears, due>>
  BY DEF WriteThrows
<1>2. ChunksOK' /\ CountsOK' /\ ControlOK'
  BY <1>1 DEF BodyInv, ChunksOK, CountsOK, ControlOK
<1>3. Laid(entity', at, mem) /\ Looping(at, mem)'
  BY <1>1 DEF Layout, Looping
<1>4. pc' = "idle" /\ pc \in {"idle", "writing"}
  BY DEF WriteThrows, BadArgument, WriteFails
<1>5. Owed(mem)'
  BY <1>1, <1>4 DEF Layout, Owed
<1>6. Bounded(mem)'
  <2>1. /\ writes \in Nat /\ MaxSize \in Nat
        /\ pc = "writing" => delivered \in Nat /\ buffer_size \in Nat /\ delivered <= buffer_size
    BY WriteAssumption DEF BodyInv, IInv, TypeOK, LoopInvariant
  <2>2. Len(mem) \in Nat /\ foreign \in Nat /\ foreign' = foreign
    BY <1>1, BodyFacts, BodyAssumption DEF BodyInv, CountsOK
  <2>3. writes' = writes \/ writes' = writes + 1
    BY DEF WriteThrows, BadArgument, WriteFails
  <2>4. writes * MaxSize \in Nat /\ (writes + 1) * MaxSize = writes * MaxSize + MaxSize
    BY <2>1, ProductGrows
  <2>5. Len(mem) <= writes * MaxSize + foreign
    <3>1. CASE pc = "writing"
      <4>1. Len(mem) + (buffer_size - delivered) <= writes * MaxSize + foreign
        BY <3>1 DEF Layout, Bounded
      <4> QED
        BY <2>1, <2>2, <2>4, <3>1, <4>1
    <3>2. CASE pc # "writing"
      BY <2>2, <3>2 DEF Layout, Bounded
    <3> QED
      BY <3>1, <3>2
  <2>6. writes' * MaxSize = writes * MaxSize \/ writes' * MaxSize = writes * MaxSize + MaxSize
    BY <2>3, <2>4
  <2>7. Len(mem) <= writes' * MaxSize + foreign
    BY <2>1, <2>2, <2>4, <2>5, <2>6
  <2> QED
    BY <1>4, <2>2, <2>7 DEF Bounded
<1> QED
  BY <1>2, <1>3, <1>5, <1>6 DEF Layout

(* The process reads through a stray pointer. *)
LEMMA StrayKeeps ==
    ASSUME BodyInv, NEW at, NEW mem, Layout(at, mem), Stray
    PROVE  ChunksOK' /\ CountsOK' /\ ControlOK' /\ Layout(at, mem)'
<1>1. /\ reading = "no" /\ pc = "idle" /\ pc' = "undefined" /\ writes' = writes + 1
      /\ UNCHANGED <<entity, reading, i, total_size, offset, data, result, reads, foreign,
                     clears, due, damaged>>
  BY DEF Stray, StrayPointer, bodyVars
<1>2. ChunksOK' /\ CountsOK' /\ ControlOK'
  BY <1>1 DEF BodyInv, ChunksOK, CountsOK, ControlOK
<1>3. Laid(entity', at, mem) /\ Looping(at, mem)' /\ Owed(mem)'
  BY <1>1 DEF Layout, Looping, Owed
<1>4. Bounded(mem)'
  <2>1. /\ writes \in Nat /\ MaxSize \in Nat /\ Len(mem) \in Nat /\ foreign \in Nat
        /\ foreign' = foreign
    BY <1>1, WriteAssumption, BodyFacts, BodyAssumption DEF BodyInv, IInv, TypeOK, CountsOK
  <2>2. writes * MaxSize \in Nat /\ (writes + 1) * MaxSize = writes * MaxSize + MaxSize
    BY <2>1, ProductGrows
  <2>3. Len(mem) <= writes * MaxSize + foreign
    BY <1>1, <2>1 DEF Layout, Bounded
  <2>4. Len(mem) <= (writes + 1) * MaxSize + foreign
    BY <2>1, <2>2, <2>3
  <2> QED
    BY <1>1, <2>1, <2>4 DEF Bounded
<1> QED
  BY <1>2, <1>3, <1>4 DEF Layout

(* A chunk of another module. *)
LEMMA ForeignChunkKeeps ==
    ASSUME BodyInv, NEW at, NEW mem, Layout(at, mem), ForeignChunk
    PROVE  ChunksOK' /\ CountsOK' /\ ControlOK' /\ \E pos, new : Layout(pos, new)'
<1>1. PICK c \in {InMemory(<<>>), InMemory(Bytes(0, foreign, 1)), InFile} :
        entity' = Append(entity, c) /\ due' = due \o c.bytes
  BY DEF ForeignChunk
<1>2. /\ pc = "idle" /\ pc' = "idle" /\ reading = "no" /\ reading' = "no" /\ writes' = writes
      /\ foreign < MaxForeign /\ foreign' = foreign + 1
      /\ UNCHANGED <<total_size, result, reads, clears, damaged>>
  BY DEF ForeignChunk, vars
<1>3. foreign \in Nat /\ MaxForeign \in Nat
  BY BodyAssumption DEF BodyInv, CountsOK
<1>4. /\ c \in Chunk /\ Len(c.bytes) <= 1 /\ Len(c.bytes) \in Nat
      /\ c.type = "file" => c.bytes = <<>>
  <2>1. Bytes(0, foreign, 1) \in Seq(Octet) /\ Len(Bytes(0, foreign, 1)) = 1
    <3>1. PICK z \in Nat, one \in Nat : z = 0 /\ one = 1
      OBVIOUS
    <3>2. Bytes(z, foreign, one) \in Seq(Octet) /\ Len(Bytes(z, foreign, one)) = one
      BY <1>3, BytesFacts
    <3> QED
      BY <3>1, <3>2
  <2>2. <<>> \in Seq(Octet) /\ Len(<<>>) = 0
    BY EmptySeq
  <2>3. CASE c = InMemory(Bytes(0, foreign, 1))
    <3> DEFINE b == Bytes(0, foreign, 1)
    <3> HIDE DEF b
    <3>1. b \in Seq(Octet) /\ Len(b) = 1 /\ c = InMemory(b)
      BY <2>1, <2>3 DEF b
    <3>2. c.bytes = b /\ c.type = "memory"
      BY <3>1 DEF InMemory
    <3>3. c \in Chunk
      BY <3>1 DEF InMemory, Chunk
    <3> QED
      BY <3>1, <3>2, <3>3
  <2>4. CASE c = InMemory(<<>>)
    BY <2>2, <2>4 DEF InMemory, Chunk
  <2>5. CASE c = InFile
    BY <2>2, <2>5 DEF InFile, Chunk
  <2> QED
    BY <1>1, <2>3, <2>4, <2>5
<1>5. ChunksOK'
  <2>1. entity \in Seq(Chunk) /\ Len(entity) \in Nat
    BY BodyFacts
  <2>2. /\ entity' \in Seq(Chunk) /\ Len(entity') = Len(entity) + 1
        /\ \A k \in 1..Len(entity) : entity'[k] = entity[k]
        /\ entity'[Len(entity) + 1] = c
    BY <1>1, <1>4, <2>1, AppendProperties
  <2>3. ASSUME NEW k \in 1..Len(entity')
        PROVE  /\ entity'[k].type = "file" => entity'[k].bytes = <<>>
               /\ Len(entity'[k].bytes) <= MAX_BYTES
    <3>1. CASE k = Len(entity) + 1
      <4>1. Len(c.bytes) <= MAX_BYTES
        BY <1>4, WriteAssumption
      <4> QED
        BY <1>4, <2>2, <3>1, <4>1
    <3>2. CASE k # Len(entity) + 1
      <4>1. k \in 1..Len(entity)
        BY <2>1, <2>2, <3>2
      <4> QED
        BY <2>2, <4>1 DEF BodyInv, ChunksOK
    <3> QED
      BY <3>1, <3>2
  <2> QED
    BY <2>2, <2>3 DEF ChunksOK
<1>6. CountsOK'
  <2>1. foreign' \in 0..MaxForeign
    BY <1>2, <1>3
  <2> QED
    BY <1>2, <2>1 DEF BodyInv, CountsOK
<1>7. ControlOK'
  BY <1>2 DEF BodyInv, ControlOK
<1>8. PICK new : new = mem \o c.bytes
  OBVIOUS
<1>9. PICK pos : Laid(entity', pos, new)
  <2>1. entity \in Seq(Chunk) /\ Laid(entity, at, mem)
    BY BodyFacts DEF Layout
  <2> QED
    BY <1>1, <1>4, <1>8, <2>1, LaidAppend
<1>10. Looping(pos, new)'
  BY <1>2 DEF Looping
<1>11. Owed(new)'
  BY <1>1, <1>2, <1>8 DEF Layout, Owed
<1>12. Bounded(new)'
  <2>1. mem \in Seq(Octet) /\ Len(mem) \in Nat
    BY BodyFacts
  <2>2. Len(new) = Len(mem) + Len(c.bytes)
    BY <1>4, <1>8, <2>1, ConcatProperties DEF Chunk
  <2>3. Len(mem) <= writes * MaxSize + foreign
    BY <1>2, <2>1 DEF Layout, Bounded
  <2>4. writes * MaxSize \in Nat
    BY WriteAssumption, ProductGrows DEF BodyInv, IInv, TypeOK
  <2>5. Len(new) <= writes * MaxSize + (foreign + 1) /\ Len(new) + 0 = Len(new)
    BY <1>3, <1>4, <2>1, <2>2, <2>3, <2>4
  <2> QED
    BY <1>2, <2>5 DEF Bounded
<1>13. Layout(pos, new)'
  BY <1>9, <1>10, <1>11, <1>12 DEF Layout
<1> QED
  BY <1>5, <1>6, <1>7, <1>13

(* An empty response has an empty layout. *)
LEMMA EmptyLaid == Laid(<<>>, [k \in 1..1 |-> 0], <<>>)
<1>1. <<>> \in Seq(Octet) /\ Len(<<>>) = 0
  BY EmptySeq
<1> QED
  BY <1>1 DEF Laid

(* response.clear *)
LEMMA ClearKeeps ==
    ASSUME BodyInv, Clear
    PROVE  ChunksOK' /\ CountsOK' /\ ControlOK' /\ \E pos, new : Layout(pos, new)'
<1>1. /\ pc = "idle" /\ pc' = "idle" /\ reading = "no" /\ reading' = "no" /\ writes' = writes
      /\ entity' = <<>> /\ due' = <<>> /\ damaged' = FALSE
      /\ clears < MaxClears /\ clears' = clears + 1
      /\ UNCHANGED <<total_size, result, reads, foreign>>
  BY DEF Clear, vars
<1>2. <<>> \in Seq(Chunk) /\ Len(<<>>) = 0
  BY EmptySeq
<1>3. ChunksOK'
  BY <1>1, <1>2 DEF ChunksOK
<1>4. CountsOK'
  <2>1. clears' \in 0..MaxClears
    BY <1>1, BodyAssumption DEF BodyInv, CountsOK
  <2> QED
    BY <1>1, <2>1 DEF BodyInv, CountsOK
<1>5. ControlOK'
  BY <1>1 DEF BodyInv, ControlOK
<1>6. PICK pos : Laid(entity', pos, <<>>)
  BY <1>1, EmptyLaid
<1>7. Looping(pos, <<>>)' /\ Owed(<<>>)'
  BY <1>1 DEF Looping, Owed
<1>8. Bounded(<<>>)'
  <2>1. writes * MaxSize \in Nat /\ foreign \in Nat
    BY WriteAssumption, BodyAssumption, ProductGrows DEF BodyInv, IInv, TypeOK, CountsOK
  <2>2. 0 + 0 <= writes * MaxSize + foreign
    BY <2>1
  <2> QED
    BY <1>1, <1>2, <2>2 DEF Bounded
<1> QED
  BY <1>3, <1>4, <1>5, <1>6, <1>7, <1>8 DEF Layout

-----------------------------------------------------------------------------
(* The response is empty at first. *)
LEMMA BodyInitHolds == BodyInit => BodyInv
<1> SUFFICES ASSUME BodyInit PROVE BodyInv
  OBVIOUS
<1>1. IInv
  BY WriteInitHolds DEF BodyInit
<1>2. <<>> \in Seq(Chunk) /\ Len(<<>>) = 0
  BY EmptySeq
<1>3. ChunksOK
  BY <1>2 DEF BodyInit, ChunksOK
<1>4. CountsOK
  <2>1. MaxWrites * MaxSize \in Nat
    BY WriteAssumption, ProductGrows
  <2> QED
    BY <2>1, BodyAssumption DEF BodyInit, CountsOK
<1>5. ControlOK
  BY DEF BodyInit, ControlOK, Null
<1>6. PICK pos : Laid(entity, pos, <<>>)
  BY EmptyLaid DEF BodyInit
<1>7. Looping(pos, <<>>) /\ Owed(<<>>)
  BY DEF BodyInit, Init, Looping, Owed
<1>8. Bounded(<<>>)
  <2>1. 0 * MaxSize + 0 = 0
    BY WriteAssumption
  <2>2. pc = "idle" /\ writes = 0 /\ foreign = 0
    BY DEF BodyInit, Init
  <2>3. 0 + 0 <= writes * MaxSize + foreign
    BY <2>1, <2>2
  <2> QED
    BY <1>2, <2>2, <2>3 DEF Bounded
<1>9. \E at, mem : Layout(at, mem)
  BY <1>6, <1>7, <1>8 DEF Layout
<1> QED
  BY <1>1, <1>3, <1>4, <1>5, <1>9 DEF BodyInv

(* Every step keeps the invariant. *)
LEMMA BodyNextKeeps == BodyInv /\ [BodyNext]_<<vars, bodyVars>> => BodyInv'
<1> SUFFICES ASSUME BodyInv, [BodyNext]_<<vars, bodyVars>> PROVE BodyInv'
  OBVIOUS
<1>1. IInv'
  BY BodyStep, NextKeeps DEF BodyInv
<1>2. PICK at, mem : Layout(at, mem)
  BY DEF BodyInv
<1>3. ChunksOK' /\ CountsOK' /\ ControlOK' /\ \E pos, new : Layout(pos, new)'
  <2>1. CASE UNCHANGED <<vars, bodyVars>>
    <3>1. ChunksOK' /\ CountsOK' /\ ControlOK'
      BY <2>1 DEF BodyInv, ChunksOK, CountsOK, ControlOK, vars, bodyVars
    <3>2. Layout(at, mem)'
      BY <1>2, <2>1 DEF Layout, Owed, Rest, Bounded, Looping, vars, bodyVars
    <3> QED
      BY <3>1, <3>2
  <2>2. CASE WriteBegins
    BY <1>2, <2>2, WriteBeginsKeeps
  <2>3. CASE ChunkWritten
    BY <1>2, <2>3, ChunkWrittenKeeps
  <2>4. CASE WriteThrows
    BY <1>2, <2>4, WriteThrowsKeeps
  <2>5. CASE Stray
    BY <1>2, <2>5, StrayKeeps
  <2>6. CASE ForeignChunk
    BY <1>2, <2>6, ForeignChunkKeeps
  <2>7. CASE Clear
    BY <2>7, ClearKeeps
  <2>8. CASE ReadBegins
    BY <1>2, <2>8, ReadBeginsKeeps
  <2>9. CASE SumChunk
    BY <1>2, <2>9, SumChunkKeeps
  <2>10. CASE Allocate
    BY <1>2, <2>10, AllocateKeeps
  <2>11. CASE CopyChunk
    BY <1>2, <2>11, CopyChunkKeeps
  <2>12. CASE ReadEnds
    BY <1>2, <2>12, ReadEndsKeeps
  <2>13. CASE Sent
    BY <2>1, <2>13 DEF Sent
  <2> QED
    BY <2>1, <2>2, <2>3, <2>4, <2>5, <2>6, <2>7, <2>8, <2>9, <2>10, <2>11, <2>12, <2>13
       DEF BodyNext
<1> QED
  BY <1>1, <1>3 DEF BodyInv

(* The invariant holds throughout. *)
THEOREM BodyInvariance == BodySpec => []BodyInv
BY BodyInitHolds, BodyNextKeeps, PTL DEF BodySpec

(* The body's specification implements that of write: what is proved of    *)
(* writing holds with reading, clearing and other modules in between.      *)
THEOREM BodyImplementsWrite == BodySpec => Spec
<1>1. BodyInit => Init
  BY DEF BodyInit
<1> QED
  BY <1>1, BodyStep, PTL DEF BodySpec, Spec

(* A write that returns has delivered the whole buffer, in a response that *)
(* is also read, cleared and written to by others.                         *)
THEOREM BodyDelivers == BodySpec => []WholeBufferDelivered
BY BodyImplementsWrite, WriteDelivers, PTL

(* ... in chunks that neither leave a gap nor overlap ... *)
THEOREM BodyContiguous == BodySpec => ChunksContiguous
BY BodyImplementsWrite, WriteContiguous, PTL

(* ... of which the one announced as the last is the last. *)
THEOREM BodyLastMeansLast == BodySpec => LastMeansLast
BY BodyImplementsWrite, WriteLastMeansLast, PTL

(* The buffer that the first loop of read measures is never overrun by the *)
(* second, for any list of chunks.                                         *)
THEOREM BodyTypes == BodySpec => []BodyTypeOK
<1>1. BodyInv => BodyTypeOK
  <2> SUFFICES ASSUME BodyInv PROVE BodyTypeOK
    OBVIOUS
  <2>1. PICK at, mem : Layout(at, mem)
    BY DEF BodyInv
  <2>2. entity \in Seq(Chunk) /\ Len(entity) \in Nat /\ Len(mem) \in Nat
    BY <2>1, BodyFacts
  <2>3. \A k \in DOMAIN entity : /\ entity[k].type \in {"memory", "file"}
                                /\ Len(entity[k].bytes) <= MAX_BYTES
    <3> SUFFICES ASSUME NEW k \in 1..Len(entity)
                 PROVE  /\ entity[k].type \in {"memory", "file"}
                        /\ Len(entity[k].bytes) <= MAX_BYTES
      BY <2>2, LenProperties
    <3>1. entity[k] \in Chunk
      BY <2>2, ElementOfSeq
    <3> QED
      BY <3>1 DEF Chunk, BodyInv, ChunksOK
  <2>4. i \in 0..(Len(entity) + 1) \/ reading = "no"
    BY <2>1, <2>2 DEF Layout, Looping
  <2>5. reading = "copy" => Len(data) = total_size /\ offset \in 0..total_size
    <3> SUFFICES ASSUME reading = "copy"
                 PROVE  Len(data) = total_size /\ offset \in 0..total_size
      OBVIOUS
    <3>1. /\ Len(data) = total_size /\ total_size = Len(mem) /\ offset = at[i]
          /\ i \in 1..(Len(entity) + 1)
      BY <2>1 DEF Layout, Looping
    <3>2. at[i] \in Nat /\ at[i] <= Len(mem)
      BY <2>1, <3>1 DEF Layout, Laid
    <3> QED
      BY <2>2, <3>1, <3>2
  <2>6. reading \in {"no", "sum", "copy"} /\ result.is \in {"null", "exception", "value"}
    BY DEF BodyInv, ControlOK
  <2>7. damaged \in BOOLEAN
    BY DEF BodyInv, ControlOK
  <2>8. /\ reads \in 0..MaxReads /\ foreign \in 0..MaxForeign /\ clears \in 0..MaxClears
        /\ total_size \in 0..(MaxWrites * MaxSize + MaxForeign)
    BY DEF BodyInv, CountsOK
  <2> QED
    BY <2>3, <2>4, <2>5, <2>6, <2>7, <2>8, Zenon DEF BodyTypeOK
<1> QED
  BY <1>1, BodyInvariance, PTL

(* A read returns what was written, byte for byte, however many chunks it  *)
(* lies in and whatever lies between them.                                 *)
THEOREM BodyReadReturnsWritten == BodySpec => ReadReturnsWritten
<1>1. BodyInv /\ [BodyNext]_<<vars, bodyVars>> =>
        [reading # "no" /\ reading' = "no" /\ ~damaged =>
           result' = Threw \/ result' = (IF due = <<>> THEN Null ELSE Value(due))]_<<vars, bodyVars>>
  <2> SUFFICES ASSUME BodyInv, BodyNext, reading # "no", reading' = "no", ~damaged
               PROVE  result' = Threw \/ result' = (IF due = <<>> THEN Null ELSE Value(due))
    BY DEF bodyVars
  <2>1. PICK at, mem : Layout(at, mem)
    BY DEF BodyInv
  <2>2. pc = "idle"
    BY DEF BodyInv, ControlOK
  <2>3. due = mem
    BY <2>1, <2>2 DEF Layout, Owed
  <2>4. Allocate \/ ReadEnds
    BY <2>2 DEF BodyNext, WriteBegins, ChunkWritten, WriteEntityChunks, WriteThrows, Stray,
                ForeignChunk, Clear, ReadBegins, SumChunk, CopyChunk, Sent
  <2>5. CASE Allocate
    <3>1. total_size = Len(mem) /\ mem \in Seq(Octet)
      BY <2>1, <2>5, AllocateKeeps, BodyFacts
    <3>2. total_size = 0 /\ result' = Null
      BY <2>5 DEF Allocate
    <3>3. mem = <<>>
      BY <3>1, <3>2, EmptySeq
    <3> QED
      BY <2>3, <3>2, <3>3
  <2>6. CASE ReadEnds
    <3>1. data = mem /\ mem # <<>>
      BY <2>1, <2>6, ReadEndsKeeps
    <3>2. result' \in {Value(data), Threw}
      BY <2>6 DEF ReadEnds
    <3> QED
      BY <2>3, <3>1, <3>2
  <2> QED
    BY <2>4, <2>5, <2>6
<1> QED
  BY <1>1, BodyInvariance, PTL DEF BodySpec, ReadReturnsWritten
=============================================================================
