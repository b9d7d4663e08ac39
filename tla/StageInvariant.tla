--------------------------- MODULE StageInvariant ---------------------------
(***************************************************************************)
(* The inductive invariant of ActiveStage, beside LoopInv of the loop the  *)
(* agent executor drives.                                                  *)
(***************************************************************************)
EXTENDS ActiveStage

Observations ==
    {o \in [status : {"success", "error", "timeout", "denied", "blocked", "cancelled"},
            cat : {"", "policy_denial", "approval_rejected", "missing_dependency",
                   "telemetry_failure", "unsupported_action", "execution_failure",
                   "timeout", "cancellation"},
            ok : BOOLEAN, ev : BOOLEAN] :
        o.ok = (o.status = "success")}

Escalations == [kind : EscalationKinds, ref : Nat]

StageResults ==
    [outcome : {"completed", "needs_replan", "blocked", "failed", "raised"}, gate : BOOLEAN,
     attempts : Nat, obs : Seq(Observations), esc : Escalations \cup {Nil}]

StageTypeOK ==
    /\ exec \in {"idle", "agent", "read"} /\ used \subseteq {"agent", "read"}
    /\ moved \subseteq Materials
    /\ call \in {"none", "refused", "gated", "launched"} /\ flag \in BOOLEAN
    /\ obs \in Seq(Observations) /\ tries \in Nat /\ coord \in Coordinators
    /\ handoff \in StageResults \cup {Nil}
    /\ calls \in Nat /\ reads \in Nat

\* While the loop runs, either coordinator has the stage's check and mode: a
\* new scope copies them.
AgentIsBound ==
    exec = "agent" =>
        \A via \in {"stage", "current"} : coord[via] = [mode |-> "stage", check |-> TRUE]

\* The loop stops at the first call that fails, which is then the last one.
AgentStopsAtFailure ==
    exec = "agent" =>
        /\ Failed(obs) # {} => loop.stopped = "action_failed"
        /\ Failed(obs) \subseteq {Len(obs)}

\* The read executor has an observation of each attempt but the one it is in.
ReadsAreCounted ==
    /\ "read" \notin used => reads = 0
    /\ exec = "read" =>
          /\ "read" \in used /\ reads = tries /\ tries \in 1..MaxAttempts
          /\ Len(obs) = tries - 1

\* A stage in progress has not been handed over.
InProgress == exec # "idle" => handoff = Nil

StageInv ==
    /\ StageTypeOK
    /\ AgentIsBound /\ AgentStopsAtFailure /\ ReadsAreCounted /\ InProgress
    /\ OwnModeRestored /\ HandoffIsProven /\ ReadsAreBounded
=============================================================================
