---------------------------- MODULE MCAgentLoop ----------------------------
(* Instances of AgentLoop for TLC.                                           *)
EXTENDS AgentLoopInvariant, TLC

CONSTANTS g1, g2

OneGoal == {g1}
TwoGoals == {g1, g2}
=============================================================================
