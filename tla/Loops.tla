-------------------------------- MODULE Loops --------------------------------
(* Loops of the code as operators. *)
EXTENDS Naturals

\* A step is taken until the state, a record with a field halt, says so.
Iterate(Step(_), start) ==
  LET RECURSIVE run(_)
      run(s) == IF s.halt THEN s ELSE run(Step(s))
  IN  run(start)
=============================================================================
