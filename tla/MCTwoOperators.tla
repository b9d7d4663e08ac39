--------------------------- MODULE MCTwoOperators ---------------------------
(* Two processes over a one-stage workflow and its one-stage replacement.    *)
EXTENDS TwoOperators

CONSTANTS inspect, gate

MCStage == {inspect, gate}
MCWorkflows == {"only"}
MCStagesOf == [w \in Workflows |-> {inspect}]
MCGated == [w \in Workflows |-> {inspect, gate}]
MCDeps == [w \in Workflows |-> [st \in MCStage |-> {}]]
MCHuman == [w \in Workflows |-> {gate}]
MCSteps == [w \in Workflows |-> [st \in MCStage |-> 1]]
MCRank == [w \in Workflows |-> (inspect :> 1) @@ (gate :> 2)]
=============================================================================
