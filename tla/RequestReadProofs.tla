-------------------------- MODULE RequestReadProofs -------------------------
(***************************************************************************)
(* What TLAPS proves of request.read, for bodies of every length, every    *)
(* size of the buffer and any number of reads.  The invariant of the loop  *)
(* is Conserved: what has been read, followed by what is left, is the body *)
(* the client has sent.                                                    *)
(***************************************************************************)
EXTENDS RequestRead, SequenceTheorems, TLAPS

(* The variables keep to their ranges. *)
ReadTypeOK ==
    /\ body \in Seq(Byte) /\ remaining \in Seq(Byte) /\ bytes \in Seq(Byte)
    /\ in_read \in BOOLEAN /\ rewrite \in BOOLEAN /\ plain \in BOOLEAN /\ lost \in BOOLEAN
    /\ request_reads \in 0..MaxRequestReads

(* In the loop of a read nothing has got lost, and the body has not been   *)
(* read away before.                                                       *)
Conserved == in_read /\ ~lost => bytes \o remaining = body /\ ~plain

ReadInv == ReadTypeOK /\ Conserved /\ PipelineSeesBody /\ ReadsWholeBody

-----------------------------------------------------------------------------
(* The length of a body is zero for the empty one only. *)
LEMMA RemainingFacts ==
    ASSUME remaining \in Seq(Byte)
    PROVE  GetRemainingEntityBytes = 0 <=> remaining = <<>>
BY EmptySeq DEF GetRemainingEntityBytes

(* A piece moved from the front of one sequence to the end of another. *)
LEMMA PieceMoved ==
    ASSUME NEW S, NEW s \in Seq(S), NEW t \in Seq(S), NEW n \in 1..Len(t)
    PROVE  /\ s \o SubSeq(t, 1, n) \in Seq(S)
           /\ SubSeq(t, n + 1, Len(t)) \in Seq(S)
           /\ (s \o SubSeq(t, 1, n)) \o SubSeq(t, n + 1, Len(t)) = s \o t
<1>1. Len(t) \in Nat /\ n \in Nat /\ n <= Len(t) /\ 1 <= n
  BY LenProperties
<1>2. SubSeq(t, 1, n) \in Seq(S) /\ SubSeq(t, n + 1, Len(t)) \in Seq(S)
  <2>1. \A i \in 1..n : t[i] \in S
    BY <1>1, ElementOfSeq
  <2>2. \A i \in (n + 1)..Len(t) : t[i] \in S
    BY <1>1, ElementOfSeq
  <2> QED
    BY <1>1, <2>1, <2>2, SubSeqProperties
<1>3. SubSeq(t, 1, n) \o SubSeq(t, n + 1, Len(t)) = t
  BY <1>1
<1> DEFINE u == SubSeq(t, 1, n)
           v == SubSeq(t, n + 1, Len(t))
<1>4. u \in Seq(S) /\ v \in Seq(S)
  BY <1>2
<1>5. u \o v = t
  BY <1>3
<1> HIDE DEF u, v
<1>6. s \o u \in Seq(S)
  BY <1>4, ConcatProperties
<1>7. (s \o u) \o v = s \o (u \o v)
  BY <1>4, SMTT(30)
<1>8. s \o u \in Seq(S) /\ v \in Seq(S) /\ (s \o u) \o v = s \o t
  BY <1>4, <1>5, <1>6, <1>7, Zenon
<1> QED
  BY <1>8, Zenon DEF u, v

(* No read has been made. *)
LEMMA ReadInitHolds == RequestInit => ReadInv
<1> SUFFICES ASSUME RequestInit PROVE ReadInv
  OBVIOUS
<1>1. ReadTypeOK
  <2>1. body \in Seq(Byte) /\ remaining \in Seq(Byte)
    BY ReadAssumption DEF RequestInit
  <2>2. bytes \in Seq(Byte)
    BY EmptySeq DEF RequestInit
  <2>3. request_reads \in 0..MaxRequestReads
    BY ReadAssumption DEF RequestInit
  <2>4. in_read \in BOOLEAN /\ rewrite \in BOOLEAN /\ plain \in BOOLEAN /\ lost \in BOOLEAN
    BY DEF RequestInit
  <2> QED
    BY <2>1, <2>2, <2>3, <2>4 DEF ReadTypeOK
<1>2. Conserved /\ PipelineSeesBody
  BY DEF RequestInit, Conserved, PipelineSeesBody
<1>3. ReadsWholeBody
  BY DEF RequestInit, ReadsWholeBody, NoText
<1> QED
  BY <1>1, <1>2, <1>3 DEF ReadInv

(* The whole body has been read: its text is what read returns. *)
LEMMA AllIsRead ==
    ASSUME ReadInv, in_read, ~lost, GetRemainingEntityBytes = 0
    PROVE  bytes = body /\ ~plain
<1>1. remaining = <<>>
  BY RemainingFacts DEF ReadInv, ReadTypeOK
<1>2. bytes \o remaining = bytes
  BY <1>1, ConcatEmptySeq DEF ReadInv, ReadTypeOK
<1> QED
  BY <1>2 DEF ReadInv, Conserved

(* One round of the loop. *)
LEMMA ReadEntityBodyKeeps == ASSUME ReadInv, ReadEntityBody PROVE ReadInv'
<1>1. PICK n \in 1..BUFFER_SIZE :
        /\ n <= Len(remaining)
        /\ bytes' = bytes \o SubSeq(remaining, 1, n)
        /\ remaining' = SubSeq(remaining, n + 1, Len(remaining))
  BY DEF ReadEntityBody
<1>2. n \in 1..Len(remaining)
  BY <1>1, ReadAssumption, LenProperties DEF ReadInv, ReadTypeOK
<1>3. bytes' \in Seq(Byte) /\ remaining' \in Seq(Byte) /\ bytes' \o remaining' = bytes \o remaining
  <2>1. bytes \in Seq(Byte) /\ remaining \in Seq(Byte)
    BY DEF ReadInv, ReadTypeOK
  <2> QED
    BY <1>1, <1>2, <2>1, PieceMoved
<1> QED
  BY <1>3 DEF ReadInv, ReadTypeOK, Conserved, PipelineSeesBody, ReadsWholeBody, ReadEntityBody

(* The ends of a read that succeed ... *)
LEMMA EndKeeps == ASSUME ReadInv, Rewrite \/ Return PROVE ReadInv'
<1>1. ~lost => bytes = body /\ ~plain
  BY AllIsRead DEF Rewrite, Return
<1>2. read_result' = Text(Decode(bytes))
  BY DEF Rewrite, Return
<1>3. read_result'.text = Decode(bytes)
  BY <1>2 DEF Text
<1>4. ReadsWholeBody'
  BY <1>1, <1>3 DEF ReadsWholeBody, Rewrite, Return
<1>5. remaining = <<>>
  BY RemainingFacts DEF ReadInv, ReadTypeOK, Rewrite, Return
<1>6. PipelineSeesBody'
  BY <1>1, <1>5 DEF PipelineSeesBody, Rewrite, Return
<1>7. ReadTypeOK' /\ Conserved'
  BY DEF ReadInv, ReadTypeOK, Conserved, Rewrite, Return
<1> QED
  BY <1>4, <1>6, <1>7 DEF ReadInv

(* ... and the ones that throw. *)
LEMMA FailureKeeps == ASSUME ReadInv, ReadFails \/ RewriteFails PROVE ReadInv'
BY DEF ReadInv, ReadTypeOK, Conserved, PipelineSeesBody, ReadsWholeBody, ReadFails,
       RewriteFails

(* The calls. *)
LEMMA BeginKeeps == ASSUME ReadInv, ReadNull \/ RequestReadBegins PROVE ReadInv'
<1>1. request_reads' \in 0..MaxRequestReads
  BY ReadAssumption DEF ReadInv, ReadTypeOK, ReadNull, RequestReadBegins
<1>2. CASE ReadNull
  BY <1>1, <1>2 DEF ReadInv, ReadTypeOK, Conserved, PipelineSeesBody, ReadsWholeBody, ReadNull,
                    NoText
<1>3. CASE RequestReadBegins
  <2>1. remaining # <<>>
    BY <1>3, RemainingFacts DEF ReadInv, ReadTypeOK, RequestReadBegins
  <2>2. ~lost => remaining = body /\ ~plain
    BY <2>1, <1>3 DEF ReadInv, PipelineSeesBody, RequestReadBegins
  <2>3. <<>> \o remaining = remaining
    BY ConcatEmptySeq DEF ReadInv, ReadTypeOK
  <2>4. Conserved'
    BY <2>2, <2>3, <1>3 DEF Conserved, RequestReadBegins
  <2>5. ReadTypeOK' /\ PipelineSeesBody' /\ ReadsWholeBody'
    BY <1>1, <1>3 DEF ReadInv, ReadTypeOK, PipelineSeesBody, ReadsWholeBody, RequestReadBegins
  <2> QED
    BY <2>4, <2>5 DEF ReadInv
<1> QED
  BY <1>2, <1>3

(* One step of anybody. *)
LEMMA ReadNextKeeps == ReadInv /\ [RequestNext]_requestVars => ReadInv'
<1> SUFFICES ASSUME ReadInv, [RequestNext]_requestVars PROVE ReadInv'
  OBVIOUS
<1>1. CASE UNCHANGED requestVars
  BY <1>1 DEF ReadInv, ReadTypeOK, Conserved, PipelineSeesBody, ReadsWholeBody, requestVars
<1>2. CASE RequestDone
  BY <1>1, <1>2 DEF RequestDone
<1> QED
  BY <1>1, <1>2, BeginKeeps, ReadEntityBodyKeeps, EndKeeps, FailureKeeps DEF RequestNext

(* The invariant holds throughout. *)
THEOREM ReadInvariance == RequestSpec => []ReadInv
BY ReadInitHolds, ReadNextKeeps, PTL DEF RequestSpec

(* Buffers and bodies are sequences of bytes, however IIS cuts them. *)
THEOREM ReadTypes == RequestSpec => []ReadTypeOK
<1>1. ReadInv => ReadTypeOK
  BY DEF ReadInv
<1> QED
  BY <1>1, ReadInvariance, PTL

(* Between reads the rest of the pipeline finds the body untouched, or     *)
(* nothing after a read without rewrite, unless a read has failed.         *)
THEOREM ReadPipelineSeesBody == RequestSpec => []PipelineSeesBody
<1>1. ReadInv => PipelineSeesBody
  BY DEF ReadInv
<1> QED
  BY <1>1, ReadInvariance, PTL

(* The text that read returns is that of the whole body, in whatever       *)
(* pieces IIS has delivered it.                                            *)
THEOREM ReadReadsWholeBody == RequestSpec => []ReadsWholeBody
<1>1. ReadInv => ReadsWholeBody
  BY DEF ReadInv
<1> QED
  BY <1>1, ReadInvariance, PTL
=============================================================================
