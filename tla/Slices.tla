-------------------------------- MODULE Slices --------------------------------
(***************************************************************************)
(* Slice (include/leveldb/slice.h): a key or a value as a sequence of bytes. *)
(***************************************************************************)
EXTENDS Integers, Sequences

\* a.compare(b) < 0: memcmp of the common length, then the shorter one first.
BytesLess(a, b) ==
  \/ Len(a) < Len(b) /\ a = SubSeq(b, 1, Len(a))
  \/ \E i \in 1 .. (IF Len(a) < Len(b) THEN Len(a) ELSE Len(b)) :
       a[i] < b[i] /\ SubSeq(a, 1, i - 1) = SubSeq(b, 1, i - 1)
=============================================================================
