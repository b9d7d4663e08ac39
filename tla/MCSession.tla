----------------------------- MODULE MCSession -----------------------------
(* What an operator's session rests on, for TLC: the interactive tool loop,  *)
(* the project memory, the mission and evidence store, the routing of models *)
(* the interface's model, and the terminals.  They share no state, so a      *)
(* behaviour takes steps of one of them only.                                *)
EXTENDS AgentLoopInvariant, SessionInvariant, StoreInvariant, TLC

CONSTANTS g1, g2, c1, c2, p1, p2, n1, n2

VARIABLE part

TwoGoals == {g1, g2}
TwoClients == {c1, c2}
TwoProjects == {p1, p2}
TwoNodes == {n1, n2}

\* Two local models and two hosted ones; h1 may be given confidential data.
FourModels == {"l1", "l2", "h1", "h2"}
ModelInfo ==
    [m \in FourModels |->
        [local |-> m \in {"l1", "l2"}, openrouter |-> m \in {"h2", "l2"},
         max |-> CASE m = "h1" -> 2 [] m = "h2" -> 1 [] OTHER -> 3,
         group |-> "general", structured |-> m # "l2",
         rank |-> CASE m = "l1" -> 1 [] m = "h1" -> 2 [] m = "l2" -> 3 [] m = "h2" -> 4]]

MCInit ==
    /\ part \in {"loop", "memory", "store", "routing", "interface", "terminal"}
    /\ Init /\ MemoryInit /\ StoreInit /\ RoutingInit /\ UiInit /\ TerminalInit
    /\ part # "memory" => backend = "sqlite"
    /\ part # "store" => db = "sqlite"
    /\ part # "routing" => up = Models
    /\ part # "terminal" => rows[1].focus = NoHost

MCNext ==
    /\ UNCHANGED part
    /\ \/ /\ part = "loop" /\ Next
          /\ UNCHANGED <<memoryVars, storeVars, routeVars, uiVars, terminalVars>>
       \/ /\ part = "memory" /\ MemoryNext
          /\ UNCHANGED <<vars, storeVars, routeVars, uiVars, terminalVars>>
       \/ /\ part = "store" /\ StoreNext
          /\ UNCHANGED <<vars, memoryVars, routeVars, uiVars, terminalVars>>
       \/ /\ part = "routing" /\ RoutingNext
          /\ UNCHANGED <<vars, memoryVars, storeVars, uiVars, terminalVars>>
       \/ /\ part = "interface" /\ UiNext
          /\ UNCHANGED <<vars, memoryVars, storeVars, routeVars, terminalVars>>
       \/ /\ part = "terminal" /\ TerminalNext
          /\ UNCHANGED <<vars, memoryVars, storeVars, routeVars, uiVars>>

MCSpec ==
    MCInit /\ [][MCNext]_<<part, vars, memoryVars, storeVars, routeVars, uiVars, terminalVars>>
=============================================================================
