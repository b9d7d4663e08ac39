----------------------------- MODULE AgentLoop -----------------------------
(***************************************************************************)
(* ToolUseLoop.run of src/decode/runtime/agent_loop.py, as its two callers *)
(* use it through UniversalAgent.run_tool_loop:                            *)
(*                                                                         *)
(*   Stage       a workflow stage (workflows/agent_executor.py): the gate  *)
(*               is declared, the first failure stops the loop, nothing is *)
(*               checkpointed and nothing is resumed;                      *)
(*   otherwise   the interactive session (app/tui/app.py): no completion   *)
(*               condition, every change of the task is checkpointed under *)
(*               the session's id, and a run for the goal of an unfinished *)
(*               checkpoint resumes it.                                    *)
(*                                                                         *)
(* One session.  The task state is reduced to its goal, its status and     *)
(* how many actions, observations, successes and evidence artifacts it     *)
(* records.  The loop awaits the model at "think" and the governed tool    *)
(* at "invoke"; "reject" lies between the two checkpoints of a call whose  *)
(* tool is unknown or whose parameters are invalid.  Between these points  *)
(* the code is synchronous and makes at most one checkpoint, so a crash or *)
(* a Ctrl+C there cannot be told from one at the point before or after.    *)
(***************************************************************************)
EXTENDS Integers

CONSTANTS
    Goals,              \* the goals the operator types
    SessionGoal,        \* the goal the session was created with
    Stage,              \* which of the two callers this is
    MaxSteps,           \* max_steps
    MaxReplans,         \* max_replans
    MinSuccess,         \* the gate's min_successful_actions
    RequireEvidence,    \* the gate's require_evidence
    Reviewed,           \* DECODE_MODEL_REVIEW: a reviewer model judges too
    MaxRuns,            \* bound: runs of the loop
    Nil

ASSUME LoopAssumption ==
    /\ SessionGoal \in Goals
    /\ Stage \in BOOLEAN /\ RequireEvidence \in BOOLEAN /\ Reviewed \in BOOLEAN
    /\ MaxSteps \in Nat \ {0}
    /\ MaxReplans \in Nat /\ MinSuccess \in Nat /\ MaxRuns \in Nat

VARIABLES
    task,   \* _last_task_state of this process for the session, or Nil
    disk,   \* the session's row of the task_state table, or Nil
    loop,   \* the frame of run: where it is, steps left, replans, stopped
    runs    \* how many runs were asked for

vars == <<task, disk, loop, runs>>

-----------------------------------------------------------------------------
Statuses == {"investigating", "blocked", "complete"}

\* good    successful observations
\* linked  artifacts with an evidence id and hash, what evidence_count counts
\* proven  those whose observation succeeded, what the runner's gate counts
TaskState ==
    [goal : Goals, status : Statuses, acts : Nat, seen : Nat,
     good : Nat, linked : Nat, proven : Nat]

ASSUME NilAssumption == Nil \notin TaskState

Stops == {"none", "final", "verification_failed", "action_failed", "budget",
          "raised", "refused", "interrupted"}

Frames ==
    [pc : {"idle", "think", "invoke", "reject"}, left : 0..MaxSteps,
     replans : 0..MaxReplans, stopped : Stops]

NewTask(g) ==
    [goal |-> g, status |-> "investigating", acts |-> 0, seen |-> 0,
     good |-> 0, linked |-> 0, proven |-> 0]

Ended(stopped) == [pc |-> "idle", left |-> 0, replans |-> 0, stopped |-> stopped]

Init ==
    /\ task = Nil /\ disk = Nil
    /\ loop = Ended("none")
    /\ runs = 0

-----------------------------------------------------------------------------
\* record_action.
WithAction(t) == [t EXCEPT !.acts = @ + 1]

\* record_observation: success s and evidence e are 0 or 1.
WithObservation(t, s, e) ==
    [t EXCEPT !.seen = @ + 1, !.good = @ + s, !.linked = @ + e,
              !.proven = @ + (IF s = 1 THEN e ELSE 0)]

Mark(t, status) == [t EXCEPT !.status = status]

\* Variant: a checkpoint that cannot be written is passed over.
SaveCheckpointBestEffort(t, l) ==
    /\ task' = t
    /\ loop' = l
    /\ \/ disk' = (IF Stage THEN disk ELSE t)
       \/ disk' = disk

\* _save_checkpoint with the loop about to continue as l.  Only an
\* interactive run has a checkpoint; one that cannot be written raises out
\* of run.
SaveCheckpoint(t, l) ==
    /\ task' = t
    /\ \/ /\ disk' = (IF Stage THEN disk ELSE t)
          /\ loop' = l
       \/ /\ ~ Stage
          /\ disk' = disk
          /\ loop' = Ended("raised")

\* The resume_state _handle_agent passes: the saved task, if it is this goal's
\* and unfinished.
Resumable(g) ==
    ~ Stage /\ disk # Nil /\ disk.goal = g /\ disk.status = "investigating"

\* run_tool_loop's test of the action and observation records.
Balanced(t) == t.acts = t.seen

\* Verifier.verify: no conditions are declared outside a stage.
ConditionsMet(t) ==
    Stage => t.good >= MinSuccess /\ (RequireEvidence => t.linked >= 1)

\* ModelVerifier.verify: the reviewer is asked once the conditions are met.
Verdicts(t) ==
    IF ~ ConditionsMet(t) THEN {FALSE} ELSE IF Reviewed THEN BOOLEAN ELSE {TRUE}

-----------------------------------------------------------------------------
\* Variant: the records of a resumed task are not compared.
BeginUnchecked(g) ==
    /\ loop.pc = "idle" /\ runs < MaxRuns
    /\ SaveCheckpoint(IF Resumable(g) THEN disk ELSE NewTask(g),
            [pc |-> "think", left |-> MaxSteps, replans |-> 0, stopped |-> "none"])
    /\ runs' = runs + 1

\* run_tool_loop up to the first checkpoint of ToolUseLoop.run.
Begin(g) ==
    /\ loop.pc = "idle" /\ runs < MaxRuns
    /\ Resumable(g) => Balanced(disk)
    /\ SaveCheckpoint(IF Resumable(g) THEN disk ELSE NewTask(g),
            [pc |-> "think", left |-> MaxSteps, replans |-> 0, stopped |-> "none"])
    /\ runs' = runs + 1

\* "checkpoint has an unresolved action; manual review is required".
RefuseResume(g) ==
    /\ loop.pc = "idle" /\ runs < MaxRuns
    /\ Resumable(g) /\ ~ Balanced(disk)
    /\ loop' = Ended("refused")
    /\ runs' = runs + 1
    /\ UNCHANGED <<task, disk>>

\* The model asks for a tool; then tells whether it is known and its
\* parameters are valid.  The action is recorded before it is carried out.
Call(then) ==
    /\ loop.pc = "think" /\ loop.left > 0
    /\ SaveCheckpoint(WithAction(task), [loop EXCEPT !.pc = then, !.left = @ - 1])
    /\ UNCHANGED runs

\* Variant: the observation is not checkpointed.
ObservedUnsaved(s, e) ==
    /\ task' = WithObservation(task, s, e)
    /\ loop' = IF Stage /\ s = 0 THEN Ended("action_failed") ELSE [loop EXCEPT !.pc = "think"]
    /\ UNCHANGED <<disk, runs>>

\* Variant: a stage goes on after a failed action.
ObservedOnward(s, e) ==
    /\ SaveCheckpoint(WithObservation(task, s, e), [loop EXCEPT !.pc = "think"])
    /\ UNCHANGED runs

\* The observation of a call is recorded; a stage stops at a failed one.
Observed(s, e) ==
    /\ LET t == WithObservation(task, s, e) IN
       IF Stage /\ s = 0
       THEN SaveCheckpoint(Mark(t, "blocked"), Ended("action_failed"))
       ELSE SaveCheckpoint(t, [loop EXCEPT !.pc = "think"])
    /\ UNCHANGED runs

\* The governed tool returns.
Return(s, e) ==
    /\ loop.pc = "invoke"
    /\ Observed(s, e)

\* The unknown tool or the invalid parameters.
Reject ==
    /\ loop.pc = "reject"
    /\ Observed(0, 0)

\* Variant: completion is reported and not checkpointed.
CompleteUnsaved ==
    /\ loop.pc = "think" /\ loop.left > 0
    /\ TRUE \in Verdicts(task)
    /\ task' = Mark(task, "complete")
    /\ loop' = Ended("final")
    /\ UNCHANGED <<disk, runs>>

\* The model answers without a tool and the verifier accepts.
Complete ==
    /\ loop.pc = "think" /\ loop.left > 0
    /\ TRUE \in Verdicts(task)
    /\ SaveCheckpoint(Mark(task, "complete"), Ended("final"))
    /\ UNCHANGED runs

\* It does not, and the model is told to go on.
Replan ==
    /\ loop.pc = "think" /\ loop.left > 0
    /\ FALSE \in Verdicts(task)
    /\ loop.replans < MaxReplans
    /\ SaveCheckpoint(Mark(task, "investigating"),
            [loop EXCEPT !.left = @ - 1, !.replans = @ + 1])
    /\ UNCHANGED runs

\* Variant: the task is left as it is when the replans are used up.
GiveUpUnmarked ==
    /\ loop.pc = "think" /\ loop.left > 0
    /\ FALSE \in Verdicts(task)
    /\ loop.replans >= MaxReplans
    /\ SaveCheckpoint(task, Ended("verification_failed"))
    /\ UNCHANGED runs

\* It does not, and the replans are used up.
GiveUp ==
    /\ loop.pc = "think" /\ loop.left > 0
    /\ FALSE \in Verdicts(task)
    /\ loop.replans >= MaxReplans
    /\ SaveCheckpoint(Mark(task, "blocked"), Ended("verification_failed"))
    /\ UNCHANGED runs

\* "step budget exhausted".
Exhaust ==
    /\ loop.pc = "think" /\ loop.left = 0
    /\ task' = IF Stage THEN Mark(task, "blocked") ELSE task
    /\ loop' = Ended("budget")
    /\ UNCHANGED <<disk, runs>>

-----------------------------------------------------------------------------
\* Ctrl+C, a cancelled stage or a provider that raises: the process goes on.
Interrupt ==
    /\ loop.pc # "idle"
    /\ loop' = Ended("interrupted")
    /\ UNCHANGED <<task, disk, runs>>

\* The process dies and the session is resumed in another one; the same holds
\* of a session left for another and resumed later, except that no run of it
\* can be in progress then.
Restart ==
    /\ task' = Nil
    /\ loop' = Ended("none")
    /\ UNCHANGED <<disk, runs>>

\* /checkpoint: the task of this process, or, when it has run none in this
\* session, a snapshot without actions.
ManualCheckpoint ==
    /\ loop.pc = "idle" /\ ~ Stage
    /\ disk' = IF task # Nil THEN task ELSE NewTask(SessionGoal)
    /\ UNCHANGED <<task, loop, runs>>

Next ==
    \/ \E g \in Goals : Begin(g) \/ RefuseResume(g)
    \/ \E then \in {"invoke", "reject"} : Call(then)
    \/ \E s, e \in {0, 1} : Return(s, e)
    \/ Reject \/ Complete \/ Replan \/ GiveUp \/ Exhaust
    \/ Interrupt \/ Restart \/ ManualCheckpoint

Spec == Init /\ [][Next]_vars

-----------------------------------------------------------------------------
\* Type correctness of the task state, its saved row and the loop's frame.
TypeOK ==
    /\ task \in TaskState \cup {Nil}
    /\ disk \in TaskState \cup {Nil}
    /\ loop \in Frames
    /\ runs \in Nat

\* Whatever a governed tool is doing, the saved task already names it as an
\* action without an observation: a crash, a Ctrl+C or a checkpoint that
\* failed earlier never leaves a tool running that the row does not show.
RecordedBeforeInvoked ==
    ~ Stage /\ loop.pc \in {"invoke", "reject"} =>
        disk # Nil /\ disk = task /\ disk.acts = disk.seen + 1

\* The model is never asked to go on from a task whose last action has no
\* observation, resumed or not: such an action may have happened.
AskedOnlyWhenSettled ==
    loop.pc = "think" => task # Nil /\ Balanced(task) /\ task.status = "investigating"

\* A run that reports "final" or "verification_failed" has left exactly that
\* outcome in the row, so the same goal is not taken up again as unfinished.
EndIsSaved ==
    /\ ~ Stage /\ task # Nil /\ loop.stopped \in {"final", "verification_failed"} =>
          disk = task /\ task.status = (IF loop.stopped = "final" THEN "complete" ELSE "blocked")

\* What the loop reports as final passes the runner's own gate, which counts
\* only evidence of successful actions while the loop's verifier counts all
\* evidence: no failed action is behind a final answer.
FinalPassesGate ==
    Stage /\ task # Nil /\ loop.stopped = "final" =>
        /\ task.good >= MinSuccess
        /\ RequireEvidence => task.proven >= 1
        /\ task.good = task.acts

\* A stage takes no action after a failed one, and then, or when its budget
\* or its replans are used up, it leaves its task blocked.
StageStopsBlocked ==
    Stage /\ task # Nil =>
        /\ task.seen - task.good <= 1
        /\ task.seen > task.good => loop.pc = "idle" /\ task.acts = task.seen
        /\ loop.stopped \in {"action_failed", "verification_failed", "budget"} =>
              task.status = "blocked"

\* An action without an observation stays in the session's row until its own
\* observation joins it: "Unresolved actions require manual review".
UnresolvedIsKept ==
    [][disk # Nil /\ ~ Balanced(disk) => disk' # Nil /\ disk'.acts >= disk.acts]_vars
=============================================================================
