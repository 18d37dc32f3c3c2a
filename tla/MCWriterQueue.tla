----------------------------- MODULE MCWriterQueue -----------------------------
(* Instances of WriterQueue for TLC. *)
EXTENDS WriterQueue, TLC

CONSTANTS w1, w2, s1, b1, b2

Plan(calls, faults) == [t \in Threads \cup {DISK} |-> IF t = DISK THEN faults ELSE calls[t]]

OneEach == {Plan([t \in Threads |-> 1], 1)}
OneEachSound == {Plan([t \in Threads |-> 1], 0)}

\* One call of each writer and snapshotter with failing I/O; without, one of a writer
\* and two of each backup, or one of a writer, a snapshotter and a backup.
LivePlans == {Plan([t \in Threads |-> IF t \in Backups THEN 0 ELSE 1], 1),
              Plan([t \in Threads |-> IF t \in Backups THEN 2 ELSE IF t = w1 THEN 1 ELSE 0], 0),
              Plan([t \in Threads |-> IF t \in {w1, s1, b1} THEN 1 ELSE 0], 0)}

Symmetry == Permutations(Writers)
=============================================================================
