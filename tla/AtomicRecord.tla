---------------------------- MODULE AtomicRecord ----------------------------
(***************************************************************************)
(* What the double-buffered records of the shared store promise: a record  *)
(* whose fields change together or not at all.  Every update has a stamp,  *)
(* newer than all that the record holds; a process that dies in the middle *)
(* of an update leaves no trace.                                           *)
(***************************************************************************)
EXTENDS Naturals

CONSTANTS Fields, Stamps

VARIABLE record

Init == record = [f \in Fields |-> 0]

Update(w, s) ==
    /\ \A f \in Fields : record[f] < s
    /\ record' = [f \in Fields |-> IF f \in w THEN s ELSE record[f]]

Next == \E w \in SUBSET Fields, s \in Stamps : Update(w, s)

Spec == Init /\ [][Next]_record
=============================================================================
