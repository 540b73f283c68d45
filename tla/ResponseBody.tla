---------------------------- MODULE ResponseBody ----------------------------
(***************************************************************************)
(* The body of a response, as response.write, response.clear and           *)
(* response.read of v8_wrapper.cpp and the other modules of the pipeline   *)
(* make it: the list of entity chunks that IIS keeps.  response.read goes  *)
(* through the list twice, first to add up the lengths of the chunks that  *)
(* lie in memory, then to copy those chunks into a buffer of that size,    *)
(* which for a text begins as memory nobody has initialised.               *)
(*                                                                         *)
(* Writing is ResponseWrite; a byte is <<n, i>>, the i-th byte of the n-th *)
(* body written, or <<0, n>>, a byte of another module.  The two forms of  *)
(* read, as a text of one character per byte and as a Uint8Array, run the  *)
(* same loops.                                                             *)
(***************************************************************************)
EXTENDS ResponseWrite, Sequences

CONSTANTS MaxReads,    \* bounds: how often the body is read,
          MaxForeign,  \* how many chunks other modules add,
          MaxClears    \* and how often the response is cleared

ASSUME BodyAssumption == MaxReads \in Nat /\ MaxForeign \in Nat /\ MaxClears \in Nat

VARIABLES entity,      \* pEntityChunks: what IIS has, and in which form
          reading,     \* "no", "sum" or "copy": the loop read is in
          i,           \* the chunk it is at
          total_size, offset, data,
          result,      \* what the last read returned
          reads, foreign, clears,
          due,         \* the bytes that belong into the response's memory
          damaged      \* a write has failed half-way since the last clear

bodyVars == <<entity, reading, i, total_size, offset, data, result, reads, foreign,
              clears, due, damaged>>

Null == [is |-> "null", bytes |-> <<>>]
Threw == [is |-> "exception", bytes |-> <<>>]
Value(bytes) == [is |-> "value", bytes |-> bytes]
Garbage == <<>>

InMemory(bytes) == [type |-> "memory", bytes |-> bytes]
InFile == [type |-> "file", bytes |-> <<>>]

Bytes(n, first, count) == [k \in 1..count |-> <<n, first + k>>]

BodyInit ==
    /\ Init
    /\ entity = <<>>
    /\ reading = "no"
    /\ i = 0 /\ total_size = 0 /\ offset = 0 /\ data = <<>>
    /\ result = Null
    /\ reads = 0 /\ foreign = 0 /\ clears = 0
    /\ due = <<>>
    /\ damaged = FALSE

-----------------------------------------------------------------------------
(* response.write, from the call up to the loop *)
WriteBegins ==
    /\ reading = "no"
    /\ \/ \E size \in 0..MaxSize : StartString(size)
       \/ \E view, size \in 0..MaxSize : StartArray(view, size)
    /\ due' = due \o Bytes(writes', 0, buffer_size')
    /\ UNCHANGED <<entity, reading, i, total_size, offset, data, result, reads, foreign,
                   clears, damaged>>

(* ... one round of its loop: IIS appends the chunk *)
ChunkWritten ==
    /\ WriteEntityChunks
    /\ entity' = Append(entity, InMemory(Bytes(writes, chunk'.start, chunk'.length)))
    /\ UNCHANGED <<reading, i, total_size, offset, data, result, reads, foreign, clears,
                   due, damaged>>

(* ... and the two ways it throws. *)
WriteThrows ==
    /\ reading = "no"
    /\ BadArgument \/ WriteFails
    /\ damaged' = (damaged \/ pc = "writing")
    /\ UNCHANGED <<entity, reading, i, total_size, offset, data, result, reads, foreign,
                   clears, due>>

(* Another module of the pipeline adds a chunk: in memory, perhaps an      *)
(* empty one, or a part of a file.                                         *)
ForeignChunk ==
    /\ pc = "idle" /\ reading = "no"
    /\ foreign < MaxForeign
    /\ foreign' = foreign + 1
    /\ \E c \in {InMemory(<<>>), InMemory(Bytes(0, foreign, 1)), InFile} :
         entity' = Append(entity, c) /\ due' = due \o c.bytes
    /\ UNCHANGED <<reading, i, total_size, offset, data, result, reads, clears, damaged, vars>>

(* response.clear *)
Clear ==
    /\ pc = "idle" /\ reading = "no"
    /\ clears < MaxClears
    /\ clears' = clears + 1
    /\ entity' = <<>>
    /\ due' = <<>>
    /\ damaged' = FALSE
    /\ UNCHANGED <<reading, i, total_size, offset, data, result, reads, foreign, vars>>

-----------------------------------------------------------------------------
(* response.read, up to the first loop: null if there are no chunks *)
ReadBegins ==
    /\ pc = "idle" /\ reading = "no"
    /\ reads < MaxReads
    /\ reads' = reads + 1
    /\ IF entity = <<>> THEN reading' = "no" /\ result' = Null
                        ELSE reading' = "sum" /\ UNCHANGED result
    /\ i' = 1
    /\ total_size' = 0
    /\ UNCHANGED <<entity, offset, data, foreign, clears, due, damaged, vars>>

(* Chunks that are not in memory are left out. *)
SumChunk ==
    /\ reading = "sum" /\ i <= Len(entity)
    /\ total_size' = total_size + (IF entity[i].type = "memory" THEN Len(entity[i].bytes) ELSE 0)
    /\ i' = i + 1
    /\ UNCHANGED <<entity, reading, offset, data, result, reads, foreign, clears, due,
                   damaged, vars>>

(* Null if there is nothing in memory; otherwise a buffer of total_size. *)
Allocate ==
    /\ reading = "sum" /\ i > Len(entity)
    /\ IF total_size = 0
       THEN reading' = "no" /\ result' = Null /\ UNCHANGED <<i, offset, data>>
       ELSE /\ reading' = "copy"
            /\ i' = 1
            /\ offset' = 0
            /\ data' = [k \in 1..total_size |-> Garbage]
            /\ UNCHANGED result
    /\ UNCHANGED <<entity, total_size, reads, foreign, clears, due, damaged, vars>>

(* memcpy of n bytes to the position at *)
Copied(to, at, bytes) ==
    [k \in DOMAIN to |-> IF k - at \in DOMAIN bytes THEN bytes[k - at] ELSE to[k]]

(* Seeded defect: the offset also moves on for chunks that are not copied. *)
CopyChunkByIndex ==
    /\ reading = "copy" /\ i <= Len(entity)
    /\ data' = Copied(data, offset, entity[i].bytes)
    /\ offset' = offset + (IF entity[i].bytes = <<>> THEN 1 ELSE Len(entity[i].bytes))
    /\ i' = i + 1
    /\ UNCHANGED <<entity, reading, total_size, result, reads, foreign, clears, due,
                   damaged, vars>>

CopyChunk ==
    /\ reading = "copy" /\ i <= Len(entity)
    /\ IF entity[i].type = "memory" /\ entity[i].bytes # <<>>
       THEN /\ data' = Copied(data, offset, entity[i].bytes)
            /\ offset' = offset + Len(entity[i].bytes)
       ELSE UNCHANGED <<data, offset>>
    /\ i' = i + 1
    /\ UNCHANGED <<entity, reading, total_size, result, reads, foreign, clears, due,
                   damaged, vars>>

(* The value is returned; a text that is too long for V8 is an exception. *)
ReadEnds ==
    /\ reading = "copy" /\ i > Len(entity)
    /\ reading' = "no"
    /\ result' \in {Value(data), Threw}
    /\ UNCHANGED <<entity, i, total_size, offset, data, reads, foreign, clears, due,
                   damaged, vars>>

(* The response is sent, or nothing is known of the process. *)
Sent == pc \in {"idle", "undefined"} /\ reading = "no" /\ UNCHANGED <<vars, bodyVars>>

Stray == StrayPointer /\ reading = "no" /\ UNCHANGED bodyVars

BodyNext ==
    \/ WriteBegins \/ ChunkWritten \/ WriteThrows \/ Stray
    \/ ForeignChunk \/ Clear
    \/ ReadBegins \/ SumChunk \/ Allocate \/ CopyChunk \/ ReadEnds
    \/ Sent

BodySpec == BodyInit /\ [][BodyNext]_<<vars, bodyVars>>

-----------------------------------------------------------------------------
(* The variables keep to their ranges; in particular read never copies     *)
(* past the end of its buffer, although its two loops decide in different  *)
(* words which chunks count.                                               *)
BodyTypeOK ==
    /\ \A k \in DOMAIN entity : /\ entity[k].type \in {"memory", "file"}
                               /\ Len(entity[k].bytes) <= MAX_BYTES
    /\ reading \in {"no", "sum", "copy"}
    /\ i \in 0..(Len(entity) + 1) \/ reading = "no"
    /\ total_size \in 0..(MaxWrites * MaxSize + MaxForeign)
    /\ reading = "copy" => Len(data) = total_size /\ offset \in 0..total_size
    /\ result.is \in {"null", "exception", "value"}
    /\ reads \in 0..MaxReads /\ foreign \in 0..MaxForeign /\ clears \in 0..MaxClears
    /\ damaged \in BOOLEAN

(* What a read returns is, byte for byte and in order, what the script and *)
(* the other modules have put into memory since the response was cleared:  *)
(* no byte of the buffer is left uninitialised, the bounds between chunks  *)
(* do not show, and null means that there is nothing.  This holds unless a *)
(* write has failed half-way.                                              *)
ReadReturnsWritten ==
    [][reading # "no" /\ reading' = "no" /\ ~damaged =>
         result' = Threw \/ result' = (IF due = <<>> THEN Null ELSE Value(due))]_<<vars, bodyVars>>
=============================================================================
