------------------------------ MODULE MCReplay ------------------------------
(* Replay on small instances: two writes of one key or of two keys, and       *)
(* three writes of two keys.                                                  *)
EXTENDS Replay

MCReplayPlans == {<<1, 1>>, <<1, 2>>}

MCReplayLonger == {<<1, 2, 1>>, <<2, 1, 1>>}

\* The plan of a replay that is not looked at.
OneReplayPlan == CHOOSE plan \in MCReplayPlans : TRUE
=============================================================================
