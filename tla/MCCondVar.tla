------------------------------- MODULE MCCondVar -------------------------------
(* Instances of CondVar for TLC. *)
EXTENDS CondVar

CONSTANTS t1, t2, t3, s1, s2, a1
=============================================================================
