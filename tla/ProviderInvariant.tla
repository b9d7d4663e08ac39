------------------------- MODULE ProviderInvariant -------------------------
(***************************************************************************)
(* The inductive invariant of ProviderExecution.                           *)
(***************************************************************************)
EXTENDS ProviderExecution

Children == {"none", "running", "zero", "nonzero", "killed"}

ProviderTypeOK ==
    /\ run \in [Tasks -> Frame]
    /\ child \in [Tasks -> Children]
    /\ box \in [Tasks -> {"none", "there", "stuck"}]
    /\ token \in [Tasks -> Kinds \cup {"none"}]
    /\ scope \in [Tasks -> BOOLEAN]
    /\ session \in [closed : BOOLEAN, run : Nat]
    /\ starts \in [Tasks -> Nat]

\* Each provider's call is at a place of that provider's execute.
PlaceFitsKind(r) ==
    /\ IsProcess(r.kind) => r.pc \notin {"stop", "logs", "remove"}
    /\ r.kind = "docker" => r.pc \notin {"kill", "reap"}
    /\ r.kind = "mcp" => r.pc \in {"idle", "wait"}

\* Whoever waits for a process, kills it or reaps it has one; before that, and
\* behind an MCP call, there is none; only what exited with 0 is a success.
ChildFits(r, c) ==
    /\ IsProcess(r.kind) /\ r.pc \in {"wait", "kill", "reap"} => c # "none"
    /\ r.pc = "spawn" \/ r.kind = "mcp" => c = "none"
    /\ r.out = "ok" /\ r.kind # "mcp" => c = "zero"

\* Only a Docker call that will still come to its finally clause has a
\* container that is to be removed.
BoxHasOwner(r, b) ==
    b = "there" => r.kind = "docker" /\ r.pc \in {"wait", "stop", "logs", "remove"}

ProviderInv ==
    /\ ProviderTypeOK
    /\ \A t \in Tasks : /\ PlaceFitsKind(run[t])
                        /\ ChildFits(run[t], child[t])
                        /\ BoxHasOwner(run[t], box[t])
    /\ AnsweredIsOver
=============================================================================
