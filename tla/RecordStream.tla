---------------------------- MODULE RecordStream ----------------------------
(***************************************************************************)
(* What the fixup record table is: one stream of variable-length records.  *)
(* Each record begins on the byte where the previous one ended, belongs to *)
(* a page no earlier than the previous record's page, and the stream is    *)
(* complete when the records account for every byte of the table.  Nothing *)
(* here knows about the fixup page table: FixupTable, which reads the      *)
(* table one page span at a time, implements this stream for every         *)
(* well-formed image.                                                      *)
(***************************************************************************)
EXTENDS Integers, Sequences

VARIABLES
  size,    \* bytes of the record table
  pages,   \* pages a record may belong to, 0 .. pages - 1
  recs,    \* records delivered so far: [page, offset, size]
  closed   \* the whole table has been delivered

vars == <<size, pages, recs, closed>>

End == IF recs = <<>> THEN 0
       ELSE recs[Len(recs)].offset + recs[Len(recs)].size

LastPage == IF recs = <<>> THEN 0 ELSE recs[Len(recs)].page

Init ==
  /\ size \in Nat /\ pages \in Nat
  /\ recs = <<>>
  /\ closed = FALSE

(* The next record, somewhere on the current page or on a later one. *)
Deliver ==
  /\ ~closed
  /\ \E n \in 1 .. (size - End), p \in LastPage .. (pages - 1) :
       recs' = Append(recs, [page |-> p, offset |-> End, size |-> n])
  /\ UNCHANGED <<size, pages, closed>>

(* The stream closes only on the table's last byte. *)
Close ==
  /\ ~closed
  /\ End = size
  /\ closed' = TRUE
  /\ UNCHANGED <<size, pages, recs>>

Next == Deliver \/ Close

Spec == Init /\ [][Next]_vars
=============================================================================
