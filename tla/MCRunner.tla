------------------------------ MODULE MCRunner ------------------------------
(* Instances of WorkflowRunner for TLC: a workflow of an agent stage, a      *)
(* human gate and a second agent stage, and a one-stage replacement.         *)
EXTENDS RunnerLedger, TLC

CONSTANTS inspect, gate, finish

MCStage == {inspect, gate, finish}
MCWorkflows == {"full", "short"}
MCStagesOf == [w \in Workflows |-> IF w = "full" THEN MCStage ELSE {finish}]
MCDeps == [w \in Workflows |->
             IF w = "full" THEN (inspect :> {}) @@ (gate :> {inspect}) @@ (finish :> {gate})
             ELSE [st \in MCStage |-> {}]]
MCHuman == [w \in Workflows |-> {gate}]
MCSteps == [w \in Workflows |-> (inspect :> 1) @@ (gate :> 1) @@ (finish :> 3)]
MCDeclared == [w \in Workflows |-> (inspect :> 1) @@ (gate :> 2) @@ (finish :> 3)]
MCByName == [w \in Workflows |-> (finish :> 1) @@ (gate :> 2) @@ (inspect :> 3)]

\* A smaller instance for the questions about lineages.
MCOneStage == {"short"}

=============================================================================
