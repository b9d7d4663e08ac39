---------------------------- MODULE MCOperation ----------------------------
(* One operation of the coordinator, and two operators of one mission, for   *)
(* TLC.  They share no state, so a behaviour takes steps of one of them only *)
(* while the other stays in one initial state.                               *)
EXTENDS MCCoordinator, MCTwoOperators

VARIABLE part

MCInit ==
    /\ part \in {"operation", "operators"}
    /\ CoordinatorInit /\ Init
    /\ part = "operators" => mode = "plan" /\ check = None /\ refusing = {}

MCNext ==
    /\ UNCHANGED part
    /\ \/ part = "operation" /\ CoordinatorNext /\ UNCHANGED vars
       \/ part = "operators" /\ Next /\ UNCHANGED coordinatorVars

MCSpec == MCInit /\ [][MCNext]_<<part, vars, coordinatorVars>>
=============================================================================
