----------------------------- MODULE FileStore ------------------------------
(***************************************************************************)
(* The functions fs.write, fs.read, fs.copy and fs.delete (v8_wrapper.cpp) *)
(* on files that the worker processes of a server share.  In a process one *)
(* call runs at a time, under the isolate's lock; nothing orders the calls *)
(* of different processes.  A call of write or read opens a stream of the  *)
(* C library, moves its data a block at a time and closes the stream; what *)
(* fwrite and fread return is ignored, and a write whose data is neither   *)
(* text nor array throws with its stream open.  Copying is left to         *)
(* CopyFileW, which moves blocks from file to file as well.                *)
(*                                                                         *)
(* The contents of a file are a sequence of blocks, a block the number of  *)
(* the write it comes from.  Windows does not delete or overwrite a file   *)
(* that is open, and limits the streams of a process.  Whether a file that *)
(* CopyFileW is writing can be opened meanwhile it does not say.           *)
(***************************************************************************)
EXTENDS Naturals, Sequences, FiniteSets

CONSTANTS Processes, Files,
          MaxStreams,   \* 512: streams a process may have open
          MaxBlocks,    \* bounds: the length of the data of a write,
          MaxCalls,     \* how many calls there are,
          MaxRestarts   \* and how often a process is recycled

ASSUME FileAssumption ==
    MaxStreams \in Nat /\ MaxBlocks \in Nat /\ MaxCalls \in Nat /\ MaxRestarts \in Nat

VARIABLES disk,      \* disk[f]: Missing, or the blocks of f
          call,      \* call[p]: the call process p is in
          leaked,    \* leaked[p]: the streams that calls have left open, as files
          calls, restarts,
          intent,    \* intent[f]: the contents that the calls so far amount to
          excused    \* files on which two calls have met, or a call has failed unseen

fileVars == <<disk, call, leaked, calls, restarts, intent, excused>>

Missing == [there |-> FALSE, blocks |-> <<>>]
File(blocks) == [there |-> TRUE, blocks |-> blocks]

(* A call: of write with what tells its data, of read with its buffer, of  *)
(* copy with the file it copies, and what that held, for the properties.   *)
NoCall == [op |-> "none", file |-> "", from |-> "", append |-> FALSE, at |-> 0,
           count |-> 0, stamp |-> 0, data |-> <<>>]
Garbage == 0    \* what new char[] or ArrayBuffer::New leave in a block

FileInit ==
    /\ disk = [f \in Files |-> Missing]
    /\ call = [p \in Processes |-> NoCall]
    /\ leaked = [p \in Processes |-> <<>>]
    /\ calls = 0 /\ restarts = 0
    /\ intent = disk
    /\ excused = {}

-----------------------------------------------------------------------------
InCall(p) == call[p].op # "none"
Writes(p, f) == call[p].op \in {"write", "copy"} /\ call[p].file = f
Reads(p, f) == \/ call[p].op = "read" /\ call[p].file = f
               \/ call[p].op = "copy" /\ call[p].from = f
Writers(f) == {p \in Processes : Writes(p, f)}
Readers(f) == {p \in Processes : Reads(p, f)}
Streams(p) == Len(leaked[p])
LeftOpen(f) == \E p \in Processes : \E k \in DOMAIN leaked[p] : leaked[p][k] = f
IsOpen(f) == Writers(f) \cup Readers(f) # {} \/ LeftOpen(f)

(* The files that are no longer sure to be as intended once f is written,  *)
(* because calls on it meet: f itself and the copies being made of it.     *)
Disturbed(f) ==
    IF Writers(f) \cup Readers(f) = {} THEN {}
    ELSE {f} \cup {g \in Files : \E p \in Readers(f) : Writes(p, g)}

NewCall(p) == ~InCall(p) /\ calls < MaxCalls /\ calls' = calls + 1

(* _wfopen with "wb" empties the file, with "ab" it keeps what is there. *)
Opened(f, append) == File(IF append THEN disk[f].blocks ELSE <<>>)

(* fs.write opens the file; count blocks are to be written. *)
WriteOpens(p, f, append, count) ==
    /\ NewCall(p) /\ Streams(p) < MaxStreams
    /\ disk' = [disk EXCEPT ![f] = Opened(f, append)]
    /\ call' = [call EXCEPT ![p] = [NoCall EXCEPT !.op = "write", !.file = f,
                              !.append = append, !.count = count, !.stamp = calls']]
    /\ excused' = excused \cup Disturbed(f)
    /\ UNCHANGED <<leaked, restarts, intent>>

(* The data is neither a text nor an array: an exception, after the file   *)
(* has been opened, and nobody closes it.                                  *)
WriteRefused(p, f, append) ==
    /\ NewCall(p) /\ Streams(p) < MaxStreams
    /\ disk' = [disk EXCEPT ![f] = Opened(f, append)]
    /\ leaked' = [leaked EXCEPT ![p] = Append(@, f)]
    /\ intent' = [intent EXCEPT ![f] = File(IF append THEN @.blocks ELSE <<>>)]
    /\ excused' = excused \cup Disturbed(f)
    /\ UNCHANGED <<call, restarts>>

(* Storing block x at position at, or at the end. *)
Stored(blocks, at, x) ==
    [k \in 1..(IF at > Len(blocks) THEN at ELSE Len(blocks)) |->
       IF k = at THEN x ELSE IF k <= Len(blocks) THEN blocks[k] ELSE Garbage]

(* Seeded defect: what is to be appended goes to the position of the       *)
(* stream, which begins at the start of the file.                          *)
WriteBlockOver(p) ==
    /\ call[p].op = "write" /\ call[p].at < call[p].count
    /\ call' = [call EXCEPT ![p].at = @ + 1]
    /\ LET f == call[p].file
       IN  disk' = [disk EXCEPT ![f].blocks = Stored(@, call[p].at + 1, call[p].stamp)]
    /\ UNCHANGED <<leaked, calls, restarts, intent, excused>>

(* A block reaches the file: at the end if the file was opened to append,  *)
(* otherwise at the position of this stream.                               *)
WriteBlock(p) ==
    /\ call[p].op = "write" /\ call[p].at < call[p].count
    /\ call' = [call EXCEPT ![p].at = @ + 1]
    /\ LET f == call[p].file
           at == IF call[p].append THEN Len(disk[f].blocks) + 1 ELSE call[p].at + 1
       IN  disk' = [disk EXCEPT ![f].blocks = Stored(@, at, call[p].stamp)]
    /\ UNCHANGED <<leaked, calls, restarts, intent, excused>>

(* The disk is full: fwrite says so to nobody. *)
WriteFailsUnseen(p) ==
    /\ call[p].op = "write" /\ call[p].at < call[p].count
    /\ call' = [call EXCEPT ![p].at = call[p].count]
    /\ excused' = excused \cup {call[p].file}
    /\ UNCHANGED <<disk, leaked, calls, restarts, intent>>

(* fclose, and the return of fs.write *)
WriteCloses(p) ==
    /\ call[p].op = "write" /\ call[p].at = call[p].count
    /\ call' = [call EXCEPT ![p] = NoCall]
    /\ LET data == [k \in 1..call[p].count |-> call[p].stamp]
       IN  intent' = [intent EXCEPT ![call[p].file] =
                        File(IF call[p].append THEN @.blocks \o data ELSE data)]
    /\ UNCHANGED <<disk, leaked, calls, restarts, excused>>

(* fs.read opens the file, takes its size and makes a buffer of that size. *)
ReadOpens(p, f) ==
    /\ NewCall(p) /\ Streams(p) < MaxStreams
    /\ disk[f].there
    /\ call' = [call EXCEPT ![p] = [NoCall EXCEPT !.op = "read", !.file = f,
                              !.data = [k \in 1..Len(disk[f].blocks) |-> Garbage]]]
    /\ excused' = IF Writers(f) # {} THEN excused \cup {f} ELSE excused
    /\ UNCHANGED <<disk, leaked, restarts, intent>>

(* fread: up to the size there was, as far as the file still goes. *)
ReadBlock(p) ==
    /\ call[p].op = "read"
    /\ call[p].at < Len(call[p].data) /\ call[p].at < Len(disk[call[p].file].blocks)
    /\ LET n == call[p].at + 1
       IN  call' = [call EXCEPT ![p] =
                      [@ EXCEPT !.at = n, !.data[n] = disk[call[p].file].blocks[n]]]
    /\ UNCHANGED <<disk, leaked, calls, restarts, intent, excused>>

(* Seeded defect: the buffer is returned one block before it is full. *)
ReadClosesEarly(p) ==
    /\ call[p].op = "read"
    /\ call[p].at + 1 >= Len(call[p].data) \/ call[p].at >= Len(disk[call[p].file].blocks)
    /\ call' = [call EXCEPT ![p] = NoCall]
    /\ UNCHANGED <<disk, leaked, calls, restarts, intent, excused>>

(* fclose, and the return of the buffer, as it is *)
ReadCloses(p) ==
    /\ call[p].op = "read"
    /\ call[p].at = Len(call[p].data) \/ call[p].at >= Len(disk[call[p].file].blocks)
    /\ call' = [call EXCEPT ![p] = NoCall]
    /\ UNCHANGED <<disk, leaked, calls, restarts, intent, excused>>

(* read or write cannot open the file: an exception, and nothing else. *)
OpenFails(p, f) ==
    /\ NewCall(p)
    /\ \/ ~disk[f].there \/ Streams(p) >= MaxStreams
       \/ \E q \in Writers(f) : call[q].op = "copy"
    /\ UNCHANGED <<disk, call, leaked, restarts, intent, excused>>

(* fs.delete; it returns FALSE if the file is not there or is open. *)
Delete(p, f) ==
    /\ NewCall(p)
    /\ disk[f].there /\ ~IsOpen(f)
    /\ disk' = [disk EXCEPT ![f] = Missing]
    /\ intent' = [intent EXCEPT ![f] = Missing]
    /\ excused' = excused \ {f}
    /\ UNCHANGED <<call, leaked, restarts>>

(* fs.copy; it returns FALSE in the other cases.  CopyFileW opens the      *)
(* original and creates or empties the copy, ...                           *)
CopyOpens(p, from, to, overwrite) ==
    /\ NewCall(p)
    /\ from # to
    /\ disk[from].there /\ ~IsOpen(to)
    /\ disk[to].there => overwrite
    /\ disk' = [disk EXCEPT ![to] = File(<<>>)]
    /\ call' = [call EXCEPT ![p] = [NoCall EXCEPT !.op = "copy", !.file = to, !.from = from,
                              !.data = disk[from].blocks]]
    /\ excused' = IF from \in excused \/ Writers(from) # {}
                  THEN excused \cup {from, to} ELSE excused \ {to}
    /\ UNCHANGED <<leaked, restarts, intent>>

(* ... moves a block ...                                                   *)
CopyBlock(p) ==
    /\ call[p].op = "copy" /\ call[p].at < Len(disk[call[p].from].blocks)
    /\ LET n == call[p].at + 1
       IN  /\ call' = [call EXCEPT ![p].at = n]
           /\ disk' = [disk EXCEPT ![call[p].file].blocks =
                         Stored(@, n, disk[call[p].from].blocks[n])]
    /\ UNCHANGED <<leaked, calls, restarts, intent, excused>>

(* ... until it is at the end of the original.                             *)
CopyCloses(p) ==
    /\ call[p].op = "copy" /\ call[p].at >= Len(disk[call[p].from].blocks)
    /\ call' = [call EXCEPT ![p] = NoCall]
    /\ intent' = [intent EXCEPT ![call[p].file] = intent[call[p].from]]
    /\ UNCHANGED <<disk, leaked, calls, restarts, excused>>

(* Or it fails on the way, and fs.copy returns FALSE: the copy is what has *)
(* been copied so far, or is taken away again.                             *)
CopyFails(p) ==
    /\ call[p].op = "copy"
    /\ call' = [call EXCEPT ![p] = NoCall]
    /\ LET to == call[p].file
       IN  /\ \/ UNCHANGED disk
              \/ /\ Writers(to) = {p} /\ Readers(to) = {} /\ ~LeftOpen(to)
                 /\ disk' = [disk EXCEPT ![to] = Missing]
           /\ excused' = excused \cup {to}
    /\ UNCHANGED <<leaked, calls, restarts, intent>>

(* The process ends, perhaps in a call, and is started anew: its streams   *)
(* are closed.                                                             *)
Restart(p) ==
    /\ restarts < MaxRestarts
    /\ restarts' = restarts + 1
    /\ call' = [call EXCEPT ![p] = NoCall]
    /\ leaked' = [leaked EXCEPT ![p] = <<>>]
    /\ excused' = excused \cup {f \in Files : Writes(p, f)}
    /\ UNCHANGED <<disk, calls, intent>>

FileStep(p) ==
    \/ \E f \in Files, append \in BOOLEAN :
         \/ \E count \in 0..MaxBlocks : WriteOpens(p, f, append, count)
         \/ WriteRefused(p, f, append)
    \/ WriteBlock(p) \/ WriteFailsUnseen(p) \/ WriteCloses(p)
    \/ \E f \in Files : ReadOpens(p, f) \/ OpenFails(p, f) \/ Delete(p, f)
    \/ ReadBlock(p) \/ ReadCloses(p)
    \/ \E from, to \in Files, overwrite \in BOOLEAN : CopyOpens(p, from, to, overwrite)
    \/ CopyBlock(p) \/ CopyCloses(p) \/ CopyFails(p)
    \/ Restart(p)

AllReturned == (\A p \in Processes : ~InCall(p)) /\ UNCHANGED fileVars

FileNext == (\E p \in Processes : FileStep(p)) \/ AllReturned

FileSpec == FileInit /\ [][FileNext]_fileVars

-----------------------------------------------------------------------------
(* A file on which no two calls have met, no call was cut off and no error *)
(* passed unseen holds, between calls, what the calls on it amount to: the *)
(* last write with everything appended since, or the copy of such a file.  *)
FileIsIntended ==
    \A f \in Files \ excused :
       Writers(f) = {} => disk[f] = intent[f]

(* What a read of such a file returns is its contents, with no block left  *)
(* as the allocation found it: the size that is taken before the file is   *)
(* read is still its size.                                                 *)
ReadIsWhole ==
    [][\A p \in Processes : ReadCloses(p) /\ call[p].file \notin excused =>
         call[p].data = intent[call[p].file].blocks]_fileVars
=============================================================================
