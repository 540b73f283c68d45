---------------------------- MODULE RequestRead -----------------------------
(***************************************************************************)
(* request.read (v8_wrapper.cpp): the body of the request is taken from    *)
(* IIS in pieces of at most BUFFER_SIZE bytes, made into a string, and     *)
(* with the argument rewrite put back, so that later modules of the        *)
(* pipeline can read it too.  IIS delivers as much at a time as it has.    *)
(*                                                                         *)
(* Of a byte the model keeps what UTF-8 makes of it: "a" is a character of *)
(* its own, "L" begins one of two bytes and "C" continues it.  A string is *)
(* a sequence of "a", "LC" and the replacement character.                  *)
(***************************************************************************)
EXTENDS Naturals, Sequences

CONSTANTS Bodies,           \* the bodies requests may have
          BUFFER_SIZE,      \* 4096: the size of the array on the stack
          MaxRequestReads   \* bound: how often a request is read

Byte == {"a", "L", "C"}

ASSUME ReadAssumption ==
    /\ Bodies \subseteq Seq(Byte)
    /\ BUFFER_SIZE \in Nat \ {0}
    /\ MaxRequestReads \in Nat

VARIABLES body,         \* the body as the client has sent it
          remaining,    \* what is left of it for the next reader
          in_read,      \* a call of read is in its loop
          rewrite,      \* its argument
          bytes,        \* what it has read so far
          read_result,  \* what the latest read has come to
          request_reads,
          plain,        \* the body has been read once without rewrite
          lost          \* a read has failed

requestVars == <<body, remaining, in_read, rewrite, bytes, read_result, request_reads,
                 plain, lost>>

NoText == [is |-> "null", text |-> <<>>]
ReadThrew == [is |-> "exception", text |-> <<>>]
Text(t) == [is |-> "text", text |-> t]

RequestInit ==
    /\ body \in Bodies
    /\ remaining = body
    /\ in_read = FALSE
    /\ rewrite = FALSE
    /\ bytes = <<>>
    /\ read_result = NoText
    /\ request_reads = 0
    /\ plain = FALSE
    /\ lost = FALSE

-----------------------------------------------------------------------------
(* NewFromUtf8: a lead and its continuation are one character; a lead or a *)
(* continuation on its own becomes a replacement character.                *)
Decode(b) ==
    LET Joined(k) == k < Len(b) /\ b[k] = "L" /\ b[k + 1] = "C"
        Text_[k \in 0..Len(b)] ==
            IF k = 0 THEN <<>>
            ELSE IF k > 1 /\ Joined(k - 1) THEN Text_[k - 1]
            ELSE Append(Text_[k - 1], IF Joined(k) THEN "LC"
                                      ELSE IF b[k] = "a" THEN "a" ELSE "replacement")
    IN  Text_[Len(b)]

GetRemainingEntityBytes == Len(remaining)

(* The call: null if there is nothing to read. *)
ReadNull ==
    /\ ~in_read /\ request_reads < MaxRequestReads
    /\ GetRemainingEntityBytes = 0
    /\ request_reads' = request_reads + 1
    /\ read_result' = NoText
    /\ UNCHANGED <<body, remaining, in_read, rewrite, bytes, plain, lost>>

RequestReadBegins ==
    /\ ~in_read /\ request_reads < MaxRequestReads
    /\ GetRemainingEntityBytes # 0
    /\ request_reads' = request_reads + 1
    /\ in_read' = TRUE
    /\ rewrite' \in BOOLEAN
    /\ bytes' = <<>>
    /\ UNCHANGED <<body, remaining, read_result, plain, lost>>

(* One round of the loop: IIS gives some bytes, at most a buffer full. *)
ReadEntityBody ==
    /\ in_read /\ GetRemainingEntityBytes # 0
    /\ \E n \in 1..BUFFER_SIZE :
         /\ n <= Len(remaining)
         /\ bytes' = bytes \o SubSeq(remaining, 1, n)
         /\ remaining' = SubSeq(remaining, n + 1, Len(remaining))
    /\ UNCHANGED <<body, in_read, rewrite, read_result, request_reads, plain, lost>>

(* IIS fails, or gives nothing: an exception.  What has been read is gone. *)
ReadFails ==
    /\ in_read /\ GetRemainingEntityBytes # 0
    /\ in_read' = FALSE
    /\ read_result' = ReadThrew
    /\ lost' = TRUE
    /\ UNCHANGED <<body, remaining, rewrite, bytes, request_reads, plain>>

(* Seeded defect: the last buffer is put back, not all that has been read. *)
RewriteLastBuffer ==
    /\ in_read /\ GetRemainingEntityBytes = 0 /\ rewrite
    /\ remaining' = IF Len(bytes) > BUFFER_SIZE
                    THEN SubSeq(bytes, Len(bytes) - BUFFER_SIZE + 1, Len(bytes)) ELSE bytes
    /\ in_read' = FALSE
    /\ read_result' = Text(Decode(bytes))
    /\ UNCHANGED <<body, rewrite, bytes, request_reads, plain, lost>>

(* All is read; with rewrite it is put back. *)
Rewrite ==
    /\ in_read /\ GetRemainingEntityBytes = 0 /\ rewrite
    /\ remaining' = bytes
    /\ in_read' = FALSE
    /\ read_result' = Text(Decode(bytes))
    /\ UNCHANGED <<body, rewrite, bytes, request_reads, plain, lost>>

(* Neither AllocateRequestMemory nor InsertEntityBody need succeed: an     *)
(* exception, with the body gone.                                          *)
RewriteFails ==
    /\ in_read /\ GetRemainingEntityBytes = 0 /\ rewrite
    /\ in_read' = FALSE
    /\ read_result' = ReadThrew
    /\ lost' = TRUE
    /\ UNCHANGED <<body, remaining, rewrite, bytes, request_reads, plain>>

(* Seeded defect: the string is made from the last buffer. *)
ReturnLastBuffer ==
    /\ in_read /\ GetRemainingEntityBytes = 0 /\ ~rewrite
    /\ in_read' = FALSE
    /\ read_result' = Text(Decode(IF Len(bytes) > BUFFER_SIZE
                             THEN SubSeq(bytes, Len(bytes) - BUFFER_SIZE + 1, Len(bytes))
                             ELSE bytes))
    /\ plain' = TRUE
    /\ UNCHANGED <<body, remaining, rewrite, bytes, request_reads, lost>>

(* Without rewrite nothing is left for the next reader. *)
Return ==
    /\ in_read /\ GetRemainingEntityBytes = 0 /\ ~rewrite
    /\ in_read' = FALSE
    /\ read_result' = Text(Decode(bytes))
    /\ plain' = TRUE
    /\ UNCHANGED <<body, remaining, rewrite, bytes, request_reads, lost>>

(* The request goes on to the next module. *)
RequestDone == ~in_read /\ UNCHANGED requestVars

RequestNext ==
    \/ ReadNull \/ RequestReadBegins
    \/ ReadEntityBody \/ ReadFails
    \/ Rewrite \/ RewriteFails \/ Return
    \/ RequestDone

RequestSpec == RequestInit /\ [][RequestNext]_requestVars

-----------------------------------------------------------------------------
(* What later modules of the pipeline find, between calls of read: the     *)
(* whole body as the client has sent it, as long as every read that came   *)
(* to an end was with rewrite and none failed; nothing at all after a read *)
(* without; and only a failed read can leave a part of it.                 *)
PipelineSeesBody ==
    ~in_read /\ ~lost => remaining = IF plain THEN <<>> ELSE body

(* Every read of a body that is there yields the text of the whole body,   *)
(* in whatever pieces IIS delivers it and however often it was put back:   *)
(* characters on the border of two pieces are not broken.                  *)
ReadsWholeBody ==
    ~lost /\ read_result.is = "text" => read_result.text = Decode(body)
=============================================================================
