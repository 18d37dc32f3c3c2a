------------------------------ MODULE MCWritePath ------------------------------
(* Instances of WritePath for TLC. *)
EXTENDS WritePath, TLC

CONSTANTS w1, w2, b1

Plan(calls, faults) == [t \in Threads \cup {DISK} |-> IF t = DISK THEN faults ELSE calls[t]]

ThreeEach == {Plan([t \in Threads |-> 3], 1)}
TwoEach == {Plan([t \in Threads |-> 2], 0)}

OnceBackup == [t \in Threads |-> IF t \in Backups THEN 1 ELSE 2]
OneBackup == {Plan(OnceBackup, 0)}
OneBackupFails == {Plan(OnceBackup, 1)}
=============================================================================
