---------------------------- MODULE ActiveStage ----------------------------
(***************************************************************************)
(* The executors of active workflow stages (workflows/agent_executor.py)   *)
(* around the tool-use loop they drive:                                    *)
(*                                                                         *)
(*   GovernedAgentStageExecutor  binds a stage to the envelope of the task *)
(*       it was handed, runs UniversalAgent.run_tool_loop under a          *)
(*       temporary check, mode and approval prompt, and hands a typed      *)
(*       result to the workflow runner;                                    *)
(*   GovernedReadStageExecutor   makes one declared READ call through the  *)
(*       host controller, and again only after a timeout.                  *)
(*                                                                         *)
(* The loop is AgentLoop with Stage = TRUE; every step of it here is a     *)
(* step of AgentLoop.  moved is what differs from what the stage was bound *)
(* to: the envelope of task and context, the provider's identity, the      *)
(* engagement scope of the agent.                                          *)
(***************************************************************************)
EXTENDS AgentLoopInvariant, Sequences, FiniteSets

CONSTANTS
    MaxAttempts,     \* max_attempts of the declared read action
    MaxCalls         \* bound: calls of the executors

ASSUME StageAssumption ==
    /\ Stage
    /\ MaxAttempts \in 1..2
    /\ MaxCalls \in Nat

VARIABLES
    exec,      \* "idle", "agent" (in run_tool_loop) or "read" (in host.run)
    used,      \* which of the two executors has run its stage
    moved,     \* see above
    call,      \* the governed call: "none", "refused", "gated", "launched"
    flag,      \* material_changed
    obs,       \* runtime.observations
    tries,     \* attempts of the read executor
    coord,     \* the coordinators of the agent: see Coordinators
    handoff,   \* the last StageResult, or Nil
    calls,     \* calls of the executors so far
    reads      \* host.run calls of the read executor so far

stageVars == <<exec, used, moved, call, flag, obs, tries, coord, handoff, calls, reads>>
allVars == <<vars, stageVars>>

-----------------------------------------------------------------------------
Materials == {"envelope", "provider", "scope"}

\* status and error_category of what the coordinator returns without having
\* launched the operation, and after it.
Refusals ==
    {<<"denied", "policy_denial">>, <<"denied", "approval_rejected">>,
     <<"blocked", "missing_dependency">>, <<"error", "telemetry_failure">>}
BlockedCall == {<<"blocked", "unsupported_action">>, <<"error", "telemetry_failure">>}
Endings ==
    {<<"success", "">>, <<"error", "execution_failure">>, <<"timeout", "timeout">>,
     <<"error", "telemetry_failure">>}
Cancelled == <<"cancelled", "cancellation">>

\* ActiveEscalationKind, without the one only old documents have.
EscalationKinds ==
    {"policy", "approval", "dependency", "verification", "timeout", "cancellation", "safety",
     "execution", "budget", "material_change"}

ASSUME StageNilAssumption == Nil \notin [kind : EscalationKinds, ref : Nat]

\* _project_observation: end is a status and category, ev whether protected
\* evidence is attached.
Observation(end, ev) ==
    [status |-> end[1], cat |-> end[2], ok |-> end[1] = "success", ev |-> ev]

Protected(o) == \E i \in DOMAIN o : o[i].ok /\ o[i].ev
Failed(o) == {i \in DOMAIN o : ~ o[i].ok}
LastFailed(o) == CHOOSE i \in Failed(o) : \A j \in Failed(o) : j <= i
Successes(o) == Cardinality({i \in DOMAIN o : o[i].ok})

\* _classify_escalation; ref is the observation it points to, 0 for none.
Escalation(outcome, o, override) ==
    LET ref == IF Failed(o) = {} THEN 0 ELSE LastFailed(o)
        last == o[ref]
        kind == CASE override # Nil -> override
                  [] ref = 0 -> CASE outcome = "needs_replan" -> "verification"
                                  [] outcome = "blocked" -> "budget"
                                  [] OTHER -> "execution"
                  [] last.cat \in {"approval_required", "approval_rejected",
                                   "approval_invalid", "approval_expired"} -> "approval"
                  [] last.cat = "policy_denial" \/ last.status = "denied" -> "policy"
                  [] last.cat = "missing_dependency" -> "dependency"
                  [] last.cat = "telemetry_failure" -> "safety"
                  [] last.cat = "cancellation" -> "cancellation"
                  [] last.cat = "timeout" -> "timeout"
                  [] OTHER -> "execution"
    IN  IF outcome = "completed" THEN Nil ELSE [kind |-> kind, ref |-> ref]

\* WorkflowGate.check on the executor's own observations.
GateCheck(success, final, o) ==
    /\ success /\ final
    /\ Successes(o) >= MinSuccess
    /\ RequireEvidence => Protected(o)

\* The validators of ActiveNodeResult and StageResult: a record that fails
\* them is not returned, the validation error is raised.
Accepted(h) ==
    /\ h.outcome = "completed" => h.gate /\ Protected(h.obs) /\ h.esc = Nil
    /\ h.outcome # "completed" => h.esc # Nil
    /\ h.esc # Nil => h.esc.ref \in {0} \cup DOMAIN h.obs
    /\ h.attempts >= Cardinality({i \in DOMAIN h.obs : h.obs[i].status # "blocked"})

Returned(h) == IF Accepted(h) THEN h ELSE [h EXCEPT !.outcome = "raised"]

\* Variant: completion is not held back without protected evidence.
HandoffUnproven(outcome, final, o, attempts, override) ==
    LET ok == GateCheck(outcome = "completed", final, o)
        out == IF outcome = "completed" /\ ~ ok THEN "needs_replan" ELSE outcome
    IN  Returned([outcome |-> out, gate |-> ok, attempts |-> attempts, obs |-> o,
                  esc |-> Escalation(out, o, override)])

\* ActiveStageRuntime.finish: the observations decide, whatever the loop said.
Handoff(outcome, final, o, attempts, override) ==
    LET same == "envelope" \notin moved
        first == IF same THEN outcome ELSE "blocked"
        cause == IF same THEN override ELSE "material_change"
        ok == GateCheck(first = "completed", final, o) /\ Protected(o)
        out == IF first = "completed" /\ ~ ok THEN "needs_replan" ELSE first
    IN  Returned([outcome |-> out, gate |-> ok, attempts |-> attempts, obs |-> o,
                  esc |-> Escalation(out, o, cause)])

-----------------------------------------------------------------------------
\* stage_coordinator, which the host controller uses too, and the agent's
\* current coordinator.  They are one object until set_scope makes another
\* while the loop runs.  mode stands for the permission mode and the approval
\* callback: the operator's own or the stage's.
Coordinators ==
    [stage : [mode : {"own", "stage"}, check : BOOLEAN],
     current : [mode : {"own", "stage"}, check : BOOLEAN],
     split : BOOLEAN]

Own == [mode |-> "own", check |-> FALSE]
OneCoordinator(c) == [stage |-> c, current |-> c, split |-> FALSE]

\* Variant: the new coordinator starts without the previous one's check.
SetScopeUnchecked ==
    [coord EXCEPT !.current.check = FALSE, !.split = TRUE]

\* set_scope while the loop runs: mode, callback and check are carried over.
SetScope == [coord EXCEPT !.split = TRUE]

\* Variant: everything is put back on the coordinator of the stage.
RestoreStage == [coord EXCEPT !.stage = Own]

\* The finally clause of run_tool_loop: the check is put back on the
\* stage's coordinator, mode and callback on the current one.
Restore ==
    IF coord.split
    THEN [coord EXCEPT !.stage.check = FALSE, !.current.mode = "own"]
    ELSE OneCoordinator(Own)

-----------------------------------------------------------------------------
StageInit ==
    /\ Init
    /\ exec = "idle" /\ used = {} /\ moved = {} /\ call = "none" /\ flag = FALSE
    /\ obs = <<>> /\ tries = 0 /\ coord = OneCoordinator(Own)
    /\ handoff = Nil /\ calls = 0 /\ reads = 0

\* __call__ with a context from_task refuses, for either executor: no runtime,
\* no active record.
Unbound ==
    /\ exec = "idle" /\ calls < MaxCalls
    /\ calls' = calls + 1
    /\ handoff' = [outcome |-> "blocked", gate |-> FALSE, attempts |-> 0, obs |-> <<>>,
                   esc |-> Nil]
    /\ UNCHANGED <<vars, exec, used, moved, call, flag, obs, tries, coord, reads>>

\* The agent executor takes its stage: set_scope gives the agent a fresh
\* coordinator, run_tool_loop puts the stage's check, mode and prompt on it.
AgentStarts(g) ==
    /\ exec = "idle" /\ calls < MaxCalls
    /\ "agent" \notin used
    /\ Begin(g)
    /\ exec' = "agent" /\ used' = used \cup {"agent"} /\ calls' = calls + 1
    /\ moved' = {} /\ obs' = <<>> /\ flag' = FALSE /\ handoff' = Nil
    /\ coord' = OneCoordinator([mode |-> "stage", check |-> TRUE])
    /\ UNCHANGED <<call, tries, reads>>

\* "stage is not an unused agent node", or building the agent raises.
AgentRefuses ==
    /\ exec = "idle" /\ calls < MaxCalls
    /\ calls' = calls + 1
    /\ used' = used \cup {"agent"} /\ moved' = {}
    /\ handoff' = IF "agent" \in used
                  THEN Handoff("blocked", FALSE, <<>>, 0, "policy")
                  ELSE Handoff("failed", FALSE, <<>>, 0, "execution")
    /\ UNCHANGED <<vars, exec, call, flag, obs, tries, coord, reads>>

\* Something the stage is bound to changes while the loop awaits the model,
\* an approval or a tool; a new scope comes with a new coordinator.
Change(m) ==
    /\ exec = "read" \/ (exec = "agent" /\ loop.pc # "idle")
    /\ m = "scope" => exec = "agent"
    /\ moved' = moved \cup {m}
    /\ coord' = IF m = "scope" THEN SetScope ELSE coord
    /\ UNCHANGED <<vars, exec, used, call, flag, obs, tries, handoff, calls, reads>>

\* The scope is set again to the entries it had.
Rescope ==
    /\ exec = "agent" /\ loop.pc # "idle" /\ ~ coord.split
    /\ coord' = SetScope
    /\ UNCHANGED <<vars, exec, used, moved, call, flag, obs, tries, handoff, calls, reads>>

\* Steps of the loop in which the executor has no part.
LoopMoves ==
    /\ exec = "agent"
    /\ Call("reject") \/ Reject \/ Complete \/ Replan \/ GiveUp \/ Exhaust
    /\ UNCHANGED stageVars

\* invoke: before_governed_call is asked before anything else.
Invoke ==
    /\ exec = "agent" /\ Call("invoke")
    /\ flag' = (moved # {})
    /\ call' = IF moved # {} THEN "refused" ELSE "gated"
    /\ UNCHANGED <<exec, used, moved, obs, tries, coord, handoff, calls, reads>>

\* _observe: the result is recorded for the stage and returned to the loop.
Observe(o) ==
    /\ Return(IF o.ok THEN 1 ELSE 0, IF o.ev THEN 1 ELSE 0)
    /\ obs' = Append(obs, o)
    /\ call' = "none"

\* The refused call is accounted for through the coordinator.
InvokeRefused(end) ==
    /\ exec = "agent" /\ call = "refused"
    /\ Observe(Observation(end, FALSE))
    /\ UNCHANGED <<exec, used, moved, flag, tries, coord, handoff, calls, reads>>

\* build_coding_command refuses the parameters: nothing is recorded.
CodingRefused ==
    /\ exec = "agent" /\ call = "gated"
    /\ Return(0, 0) /\ call' = "none"
    /\ UNCHANGED <<exec, used, moved, flag, obs, tries, coord, handoff, calls, reads>>

\* Policy, approval, dependency or telemetry stops the call.
GateRefuses(end) ==
    /\ exec = "agent" /\ call = "gated"
    /\ Observe(Observation(end, FALSE))
    /\ UNCHANGED <<exec, used, moved, flag, tries, coord, handoff, calls, reads>>

\* The coordinator asks its pre-execution check at the launch: the host
\* controller's calls go through the stage's coordinator, those of playbooks
\* and MCP tools through the agent's current one.
CallLaunches(via) ==
    /\ exec = "agent" /\ call = "gated"
    /\ coord[via].check => moved = {}
    /\ call' = "launched"
    /\ UNCHANGED <<vars, exec, used, moved, flag, obs, tries, coord, handoff, calls, reads>>

CheckStopsCall(via, end) ==
    /\ exec = "agent" /\ call = "gated"
    /\ coord[via].check /\ moved # {}
    /\ flag' = TRUE
    /\ Observe(Observation(end, FALSE))
    /\ UNCHANGED <<exec, used, moved, tries, coord, handoff, calls, reads>>

CallReturns(end, ev) ==
    /\ exec = "agent" /\ call = "launched"
    /\ Observe(Observation(end, ev))
    /\ UNCHANGED <<exec, used, moved, flag, tries, coord, handoff, calls, reads>>

\* The stage is cancelled.  A launched call leaves its own record.
AgentCancelled ==
    /\ exec = "agent" /\ Interrupt
    /\ LET o == IF call = "launched" THEN Append(obs, Observation(Cancelled, FALSE))
                ELSE obs
       IN  /\ obs' = o
           /\ handoff' = Handoff("blocked", FALSE, o, Len(o), "cancellation")
    /\ exec' = "idle" /\ call' = "none" /\ coord' = Restore
    /\ UNCHANGED <<used, moved, flag, tries, calls, reads>>

\* The loop raises: the model's provider, most often.
AgentRaises ==
    /\ exec = "agent" /\ Interrupt
    /\ handoff' = Handoff("failed", FALSE, obs, Len(obs), "execution")
    /\ exec' = "idle" /\ call' = "none" /\ coord' = Restore
    /\ UNCHANGED <<used, moved, flag, obs, tries, calls, reads>>

\* The outcome of the stage by how the loop stopped.
Outcome(stopped) ==
    CASE stopped = "final" -> "completed"
      [] stopped = "verification_failed" -> "needs_replan"
      [] stopped \in {"budget", "action_failed"} -> "blocked"
      [] OTHER -> "failed"

\* The loop has returned: run_tool_loop restores the coordinators and the
\* executor finishes, without an await in between.
AgentReturns(final) ==
    /\ exec = "agent" /\ loop.pc = "idle"
    /\ handoff' = Handoff(Outcome(loop.stopped), final, obs, Len(obs),
            CASE flag -> "material_change"
              [] loop.stopped = "budget" -> "budget"
              [] loop.stopped = "action_failed" /\ obs = <<>> -> "execution"
              [] OTHER -> Nil)
    /\ exec' = "idle" /\ coord' = Restore
    /\ UNCHANGED <<vars, used, moved, call, flag, obs, tries, calls, reads>>

-----------------------------------------------------------------------------
\* GovernedReadStageExecutor._blocked: the refusal is accounted for as one
\* more observation.
ReadBlocked(end, o, attempts, kind) ==
    LET all == Append(o, Observation(end, FALSE)) IN
    Returned([outcome |-> "blocked", gate |-> FALSE, attempts |-> attempts, obs |-> all,
              esc |-> Escalation("blocked", all, kind)])

\* The action does not fit the stage, asks for more than its budget or was
\* attempted before.
ReadRefuses(end) ==
    /\ exec = "idle" /\ calls < MaxCalls
    /\ \/ handoff' = ReadBlocked(end, <<>>, 0, "material_change")
       \/ MaxAttempts > MaxSteps /\ handoff' = ReadBlocked(end, <<>>, 0, "budget")
       \/ "read" \in used /\ handoff' = ReadBlocked(end, <<>>, 0, "policy")
    /\ calls' = calls + 1
    /\ UNCHANGED <<vars, exec, used, moved, call, flag, obs, tries, coord, reads>>

\* The first attempt: nothing can have changed since the stage was bound.
ReadStarts ==
    /\ exec = "idle" /\ calls < MaxCalls
    /\ MaxAttempts <= MaxSteps /\ "read" \notin used
    /\ exec' = "read" /\ used' = used \cup {"read"} /\ calls' = calls + 1
    /\ moved' = {} /\ obs' = <<>> /\ tries' = 1 /\ handoff' = Nil /\ reads' = reads + 1
    /\ UNCHANGED <<vars, call, flag, coord>>

\* The statuses and categories a governed read is blocked by rather than
\* failed.
BlockingEnd(o) ==
    \/ o.status \in {"denied", "blocked", "cancelled"}
    \/ o.cat \in {"policy_denial", "approval_required", "approval_rejected",
                  "approval_invalid", "approval_expired", "missing_dependency",
                  "cancellation", "telemetry_failure"}

\* Only a timeout is tried again.
Retries(o) == o.status = "timeout" /\ o.cat = "timeout" /\ tries < MaxAttempts

\* host.run returns.  Whatever it says, a change ends the stage for review.
ReadReturns(o, end) ==
    /\ exec = "read"
    /\ obs' = Append(obs, o)
    /\ \/ /\ moved # {}
          /\ handoff' = ReadBlocked(end, obs', tries, "material_change")
          /\ exec' = "idle"
          /\ UNCHANGED <<tries, reads>>
       \/ /\ moved = {} /\ Retries(o)
          /\ tries' = tries + 1 /\ reads' = reads + 1
          /\ UNCHANGED <<exec, handoff>>
       \/ /\ moved = {} /\ ~ Retries(o)
          /\ handoff' = Handoff(IF o.ok THEN "completed"
                                ELSE IF BlockingEnd(o) THEN "blocked" ELSE "failed",
                                o.ok, obs', tries, Nil)
          /\ exec' = "idle"
          /\ UNCHANGED <<tries, reads>>
    /\ UNCHANGED <<vars, used, moved, call, flag, coord, calls>>

\* Cancelled, with or without the coordinator's record, or host.run raises.
ReadEnds(coordinated) ==
    /\ exec = "read"
    /\ LET o == IF coordinated THEN Append(obs, Observation(Cancelled, FALSE)) ELSE obs
       IN  /\ obs' = o
           /\ handoff' \in {Handoff("blocked", FALSE, o, tries, "cancellation")} \cup
                 (IF coordinated THEN {} ELSE {Handoff("failed", FALSE, o, tries, "execution")})
    /\ exec' = "idle"
    /\ UNCHANGED <<vars, used, moved, call, flag, tries, coord, calls, reads>>

-----------------------------------------------------------------------------
StageNext ==
    \/ Unbound \/ AgentRefuses \/ ReadStarts \/ Rescope \/ LoopMoves \/ Invoke
    \/ \E g \in Goals : AgentStarts(g)
    \/ \E m \in Materials : Change(m)
    \/ \E end \in BlockedCall : InvokeRefused(end) \/ ReadRefuses(end)
    \/ CodingRefused
    \/ \E end \in Refusals : GateRefuses(end)
    \/ \E via \in {"stage", "current"} :
          \/ CallLaunches(via)
          \/ \E end \in BlockedCall : CheckStopsCall(via, end)
    \/ \E end \in Endings, ev \in BOOLEAN : CallReturns(end, ev)
    \/ AgentCancelled \/ AgentRaises
    \/ \E final \in BOOLEAN : AgentReturns(final)
    \/ \E end \in Endings \cup Refusals, ev \in BOOLEAN, e \in BlockedCall :
          ReadReturns(Observation(end, ev), e)
    \/ \E coordinated \in BOOLEAN : ReadEnds(coordinated)

StageSpec == StageInit /\ [][StageNext]_allVars

-----------------------------------------------------------------------------
\* A launched call was launched with everything the stage was bound to as it
\* was, also when the scope, and with it the coordinator, was replaced while
\* the call waited for its approval.
LaunchedAsBound == [][call' = "launched" /\ call # "launched" => moved = {}]_allVars

\* When the stage has returned, the agent's coordinator has the operator's own
\* permission mode and approval prompt again, whichever coordinator that is by
\* then, and, unless the scope was replaced in between, no check of the stage.
OwnModeRestored ==
    exec # "agent" =>
        /\ coord.current.mode = "own"
        /\ ~ coord.split => ~ coord.current.check

\* A stage is handed over as completed only on protected evidence of a
\* successful call, a met gate, an unchanged envelope and no failed call, and
\* anything else names its reason.  Only telemetry that could not be written
\* makes the executor raise instead.
HandoffIsProven ==
    handoff # Nil =>
        /\ handoff.outcome = "completed" =>
              /\ Protected(handoff.obs) /\ Successes(handoff.obs) >= MinSuccess
              /\ "envelope" \notin moved /\ handoff.esc = Nil
              /\ \A i \in Failed(handoff.obs) : handoff.obs[i].status = "timeout"
        /\ handoff.outcome = "raised" =>
              \E i \in DOMAIN handoff.obs : handoff.obs[i].cat = "telemetry_failure"

\* The declared read is made at most max_attempts times in the life of its
\* executor, and each time but the first because the one before timed out.
ReadsAreBounded ==
    /\ reads <= MaxAttempts
    /\ exec = "read" => \A i \in DOMAIN obs : obs[i].status = "timeout"

\* A stage ends on proof, and is not repeated without need.
StageIsProven == HandoffIsProven /\ ReadsAreBounded
=============================================================================
