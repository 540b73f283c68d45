---------------------------- MODULE ResponseWrite ----------------------------
(***************************************************************************)
(* response.write (v8_wrapper.cpp): the body, a string or a Uint8Array, is *)
(* handed to IIS in chunks of at most MAX_BYTES bytes, whose length the    *)
(* HTTP API keeps in a USHORT.  A script may write several bodies one      *)
(* after the other.  Bytes are told apart by their position only.          *)
(*                                                                         *)
(* Utf8ValueScoped tests, and deletes, a pointer that it sets for strings  *)
(* only: for any other argument its value is whatever the stack holds, and *)
(* the model chooses between null and a stray address.                     *)
(***************************************************************************)
EXTENDS Naturals

CONSTANTS MAX_BYTES,    \* 65535: the most one chunk may carry
          USHORT_RANGE, \* 2^16: USHORT(n) is n % USHORT_RANGE
          MaxSize,      \* bound: the length of a body
          MaxWrites     \* bound: how many bodies are written

ASSUME WriteAssumption ==
    /\ MAX_BYTES \in Nat \ {0}
    /\ USHORT_RANGE \in Nat
    /\ MAX_BYTES < USHORT_RANGE
    /\ MaxSize \in Nat
    /\ MaxWrites \in Nat

VARIABLES pc,             \* "idle", "writing" (inside the loop) or "undefined"
          asked,          \* the length of the body the script has asked to write
          buffer_size, buffer_offset, bytes_to_write, has_more_data,
          delivered,      \* how much of the body IIS has
          chunk,          \* the last chunk given to IIS
          outcome,        \* how the last write ended
          writes          \* how many bodies have been written

vars == <<pc, asked, buffer_size, buffer_offset, bytes_to_write, has_more_data,
          delivered, chunk, outcome, writes>>

pmin(a, b) == IF a < b THEN a ELSE b
USHORT(n) == n % USHORT_RANGE

Init == /\ pc = "idle"
        /\ asked = 0
        /\ buffer_size = 0 /\ buffer_offset = 0 /\ bytes_to_write = 0
        /\ has_more_data = FALSE
        /\ delivered = 0
        /\ chunk = [start |-> 0, length |-> 0, more |-> FALSE]
        /\ outcome = "none"
        /\ writes = 0

(* An argument that is not a string, and a stray pointer: the code takes   *)
(* it for a string and reads through it.                                   *)
StrayPointer ==
    /\ pc = "idle"
    /\ writes < MaxWrites
    /\ writes' = writes + 1
    /\ pc' = "undefined"
    /\ outcome' = "none"
    /\ UNCHANGED <<asked, buffer_size, buffer_offset, bytes_to_write,
                   has_more_data, delivered, chunk>>

(* The argument is neither a string nor a Uint8Array: an exception, before *)
(* anything is given to IIS.                                               *)
BadArgument ==
    /\ pc = "idle"
    /\ writes < MaxWrites
    /\ writes' = writes + 1
    /\ outcome' = "threw"
    /\ UNCHANGED <<pc, asked, buffer_size, buffer_offset, bytes_to_write,
                   has_more_data, delivered, chunk>>

(* Seeded defect: the first chunk is never announced as one of several. *)
BeginUnannounced(size) ==
    /\ pc = "idle"
    /\ writes < MaxWrites
    /\ writes' = writes + 1
    /\ pc' = "writing"
    /\ buffer_size' = size
    /\ buffer_offset' = 0
    /\ bytes_to_write' = pmin(size, MAX_BYTES)
    /\ has_more_data' = FALSE
    /\ delivered' = 0
    /\ outcome' = "none"
    /\ UNCHANGED chunk

(* The call up to the loop, for a body that lies in size bytes of memory. *)
Begin(size) ==
    /\ pc = "idle"
    /\ writes < MaxWrites
    /\ writes' = writes + 1
    /\ pc' = "writing"
    /\ buffer_size' = size
    /\ buffer_offset' = 0
    /\ bytes_to_write' = pmin(size, MAX_BYTES)
    /\ has_more_data' = (size - pmin(size, MAX_BYTES) > 0)
    /\ delivered' = 0
    /\ outcome' = "none"
    /\ UNCHANGED chunk

StartString(size) == asked' = size /\ Begin(size)

(* Of a Uint8Array the code takes the whole ArrayBuffer, also when the     *)
(* array is a view of a part of it.                                        *)
StartArray(view, size) == view <= size /\ asked' = view /\ Begin(size)

(* Seeded defect: the loop goes on while the next chunk is a full one. *)
WriteEntityChunksShort ==
    /\ pc = "writing"
    /\ chunk' = [start |-> buffer_offset, length |-> USHORT(bytes_to_write),
                 more |-> has_more_data]
    /\ delivered' = delivered + USHORT(bytes_to_write)
    /\ buffer_offset' = buffer_offset + bytes_to_write
    /\ bytes_to_write' = pmin(buffer_size - buffer_offset', MAX_BYTES)
    /\ has_more_data' = (bytes_to_write' = MAX_BYTES)
    /\ pc' = IF has_more_data' THEN "writing" ELSE "idle"
    /\ outcome' = IF has_more_data' THEN "none" ELSE "returned"
    /\ UNCHANGED <<asked, buffer_size, writes>>

(* Seeded defect: the offset moves on by the size of a full chunk less one. *)
WriteEntityChunksOverlap ==
    /\ pc = "writing"
    /\ chunk' = [start |-> buffer_offset, length |-> USHORT(bytes_to_write),
                 more |-> has_more_data]
    /\ delivered' = delivered + USHORT(bytes_to_write)
    /\ buffer_offset' = buffer_offset + (IF has_more_data THEN bytes_to_write - 1
                                                          ELSE bytes_to_write)
    /\ bytes_to_write' = pmin(buffer_size - buffer_offset', MAX_BYTES)
    /\ has_more_data' = (buffer_size - buffer_offset' > 0)
    /\ pc' = IF has_more_data' THEN "writing" ELSE "idle"
    /\ outcome' = IF has_more_data' THEN "none" ELSE "returned"
    /\ UNCHANGED <<asked, buffer_size, writes>>

(* One round of the loop: a chunk is inserted into the response. *)
WriteEntityChunks ==
    /\ pc = "writing"
    /\ chunk' = [start |-> buffer_offset, length |-> USHORT(bytes_to_write),
                 more |-> has_more_data]
    /\ delivered' = delivered + USHORT(bytes_to_write)
    /\ buffer_offset' = buffer_offset + bytes_to_write
    /\ bytes_to_write' = pmin(buffer_size - buffer_offset', MAX_BYTES)
    /\ has_more_data' = (buffer_size - buffer_offset' > 0)
    /\ pc' = IF has_more_data' THEN "writing" ELSE "idle"
    /\ outcome' = IF has_more_data' THEN "none" ELSE "returned"
    /\ UNCHANGED <<asked, buffer_size, writes>>

(* IIS refuses the chunk: an exception, with the chunks before it sent. *)
WriteFails ==
    /\ pc = "writing"
    /\ pc' = "idle"
    /\ outcome' = "threw"
    /\ UNCHANGED <<asked, buffer_size, buffer_offset, bytes_to_write, has_more_data,
                   delivered, chunk, writes>>

(* The script writes nothing more, or nothing is known of the process. *)
Terminated == /\ pc = "undefined" \/ (pc = "idle" /\ writes = MaxWrites)
              /\ UNCHANGED vars

Next == \/ StrayPointer
        \/ BadArgument
        \/ \E size \in 0..MaxSize : StartString(size)
        \/ \E view, size \in 0..MaxSize : StartArray(view, size)
        \/ WriteEntityChunks
        \/ WriteFails
        \/ Terminated

Spec == Init /\ [][Next]_vars

-----------------------------------------------------------------------------
(* Each variable keeps to the values the code can give it; a chunk never   *)
(* carries more than MAX_BYTES and the subtractions never wrap around.     *)
TypeOK == /\ pc \in {"idle", "writing", "undefined"}
          /\ asked \in 0..MaxSize
          /\ buffer_size \in 0..MaxSize
          /\ buffer_offset \in 0..MaxSize
          /\ bytes_to_write \in 0..MAX_BYTES
          /\ has_more_data \in BOOLEAN
          /\ delivered \in 0..MaxSize
          /\ chunk \in [start : 0..MaxSize, length : 0..MAX_BYTES, more : BOOLEAN]
          /\ outcome \in {"none", "returned", "threw"}
          /\ writes \in 0..MaxWrites

(* A write that returns has delivered the whole buffer and nothing else,   *)
(* for every length: empty, a multiple of MAX_BYTES, one byte more.        *)
WholeBufferDelivered == outcome = "returned" => delivered = buffer_size

(* Chunks follow each other without a gap and without an overlap: each one *)
(* starts where IIS has received up to, in spite of the USHORT in between. *)
ChunksContiguous ==
    [][WriteEntityChunks => /\ chunk'.start = delivered
                            /\ delivered' <= buffer_size]_vars

(* A chunk announced as the last one is the last one; and no chunk but the *)
(* one of an empty body is empty, so the loop cannot spin.                 *)
LastMeansLast ==
    [][WriteEntityChunks => /\ ~chunk'.more => outcome' = "returned"
                            /\ chunk'.length = 0 => buffer_size = 0]_vars
=============================================================================
