------------------------------ MODULE MCStage ------------------------------
(* Instances of ActiveStage for TLC.                                         *)
EXTENDS StageInvariant, TLC

CONSTANTS g1, g2

OneGoal == {g1}
=============================================================================
