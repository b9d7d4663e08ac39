# decode: a TLA+ verification project

`decode` runs reviewed workflows and single governed actions for an operator.
This directory specifies the parts of it whose correctness depends on the order
of steps: what survives a crash, what a second process may undo, what changed
while a coroutine was waiting. Paths below are relative to `src/src/decode/`
unless they start with `docs/`.

## 1. Inventory

| Component | State it keeps | Operations | Talks to |
|---|---|---|---|
| Workflow runner `workflows/runner.py` | none of its own: a `task_state` document, `mission_nodes` rows and a `sessions` row per session | `start`, `start_core`, `decide_core`, `issued_core`, `run_core`, `approve_core_stage`, `review_core`, `stop_core`, `replan_core`, `run` | planner (call), store (SQLite transactions), stage executor (awaited callback) |
| Core planner `workflows/registry.py`, `workflows/models.py` | none | `select`, `decide`; budget `stop_reason`, `reserve` | runner |
| Plan graph `planner/dag.py` | node statuses, dependencies | `ready_nodes`, `topological_order`, `mark` | runner, planner |
| Task state `schema/task_state.py`, `schema/store.py` | objective, status, revision, environment, Active results | `mark`, `_touch`, record operations, whole-document `save` | everything above |
| Session store `persistence/store.py` | SQLite tables | `create_session`, `close_session`, `save_plan`, `checkpoint_plan_node`, `recover_interrupted_plan`, `save_task_state`, ... | one commit per call |
| Execution coordinator `runtime/coordinator.py` | current approval callback and pre-execution check | `execute`, `set_mode`, `set_pre_execution_check`, `set_approval_callback` | gate, hooks, audit, log, feedback, evidence; awaits approval, preparation, operation |
| Governance gate `governance/gate.py`, `governance/scope.py` | permission mode, scope, destructive override | `evaluate`, `set_mode` | audit trail |
| Active stage executors `workflows/agent_executor.py` | envelope of the stage, its observations | bind, run, classify the outcome | agent facade, runner |
| Tool-use loop `runtime/agent_loop.py`, `verification/verifier.py` | steps left, replans; the task state it works on | `run`, checkpoint, resume | model provider, governed tools, task state |
| Agent facade `universal_agent.py` | current coordinator, scope, provider | `run_tool_loop`, `set_scope`, `execute_*` | coordinator |
| Host controller, host control `runtime/host_controller.py`, `hostcontrol/` | filesystem scope, command policy, local or provider session | `run` of `shell_command`, `session_open`, `session_exec`, `session_close`; `set_scope` | coordinator (awaited four times), provider |
| Execution providers `execution/` | processes, containers, execution token, provider session | `execute` with a timeout, `execute_session`, `check_health`, `map_path` | coordinator's execution token |
| Protected evidence `persistence/evidence.py` | files | `capture`, `verify` | coordinator, store |
| Mongo mirror `persistence/mongo_store.py` | the tables of the session store as collections | the same, one command at a time | everything that uses the store |
| Memory `memory/layers.py` | artifacts with revisions, project knowledge, events | `remember`, `edit`, `forget`, `recall`, `history`, `export`, `compress`, `learn`, `relate`, `delete` | store |
| Model routing `models/routing.py`, `models/registry.py`, `kernel/provider.py` | availability, catalogue | `route`, `fallback`, catalogue refresh, retries | facade, terminal |
| Terminal `app/tui/app.py`, `persistence/manager.py` | session, target, scope entries, conversation, mode, filesystem scope, cached host controller | the slash commands, agent runs | facade, store, transcript files |
| Observability, capabilities, extensions, MCP manager, knowledge search, skills, prompting, reports, command line | see PROJECT.json | | |

Where it is hard:

* **Crashes.** The runner has no transaction around a call. A checkpoint is a
  row and a document, a replan is five writes, completion is a row and a
  document in an order that differs between two branches. The process may stop
  after any of them, and the next command starts from what is there.
* **Decisions that travel.** A Core decision is computed in one command, shown
  to a human and consumed in another, possibly much later and possibly twice.
* **Lineages.** A replacement session inherits a budget and nothing else; the
  limits and the "one live session" rule are properties of the whole chain.
* **Two processes.** Nothing leases a session, and every save writes the whole
  document.
* **Awaits.** `execute` gives up the event loop three times; mode, check,
  request and clock are different afterwards.
* **Checkpoints.** The tool-use loop writes before and after each action; a crash
  in between leaves an action of which nobody knows whether it happened.
* **Sessions.** A provider session, a terminal's session, a project's memory are
  each used by several calls or processes that overlap, and each call acts on
  what it saw when it entered.
* **Processes.** A command may end at the moment its wait gives up; a cancelled
  task may leave a thread, a container or a token behind.
* **Commands that are not transactions.** SQLite commits a call as a whole, Mongo
  executes it command by command.
* **Failing sinks.** Any audit, log, feedback or evidence write may fail, before
  or after the action has happened.

What makes each correct is in sections 3 to 5; `PROJECT.json` lists the hazards
at their lines, with the properties that would catch them.

## 2. Modules

| Module | Contents |
|---|---|
| `WorkflowRunner` | runner, planner, plan graph and the store they write |
| `RunnerInvariant` | its inductive invariants `RunnerInv`, `WorkInv`, `ChargeInv`, `KinInv` and `LinkInv`, as named parts |
| `MissionLedger` | abstract: what the budgeted bridge promises of a mission |
| `RunnerLedger` | refinement mapping from `WorkflowRunner` to `MissionLedger` |
| `TwoOperators` | two instances of `WorkflowRunner` on one store |
| `RunnerSteps` | what each step of a call does to the store, who descends from whom, and the walk of the lineage |
| `RunnerProofs` | theorems about `WorkflowRunner`, and that it implements `MissionLedger` |
| `TwoOperatorsProofs` | theorems about `TwoOperators`, from the lemmas of `RunnerSteps` for each process |
| `Coordinator` | `ExecutionCoordinator.execute` with `GovernanceGate.evaluate` |
| `CoordinatorInvariant` | its inductive invariant `CoordinatorInv` |
| `CoordinatorProofs` | theorems about `Coordinator` |
| `AgentLoop` | `ToolUseLoop.run` with the verifier, its checkpoints and its two callers |
| `AgentLoopInvariant` | its inductive invariant `LoopInv` |
| `ActiveStage` | the two stage executors around `AgentLoop`, and the facade's temporary restrictions |
| `StageInvariant`, `StageProofs` | inductive invariant of `ActiveStage`, and theorems about it and `AgentLoop` |
| `HostController` | host commands and sessions, from entry to launch |
| `HostInvariant` | inductive invariant of `HostController` |
| `CommandPolicy` | the command policy: sudo, outputs, risk, targets, as operators |
| `ProviderExecution` | one command at a provider: process, container, token, session |
| `ProviderInvariant` | inductive invariant of `ProviderExecution` |
| `HostProofs` | theorems about `HostController`, `ProviderExecution` and `CommandPolicy` |
| `ProjectMemory` | artifacts and project knowledge, on SQLite and Mongo |
| `MissionStore` | plans and nodes on SQLite and Mongo; evidence files, rows and links |
| `StoreInvariant`, `StoreProofs` | inductive invariants of `MissionStore` and `ProjectMemory`, and theorems |
| `ModelRouting` | routing, fallback, retries; catalogue and model of the interface |
| `TerminalSession` | terminals: sessions, transcripts, scope, mode, metering |
| `SessionInvariant`, `SessionProofs` | inductive invariants of `TerminalSession` and `ModelRouting`, and theorems |
| `MCRunner`, `MCTwoOperators`, `MCCoordinator`, `MCOperation`, `MCAgentLoop`, `MCStage`, `MCHost`, `MCSession` | instances for TLC |

`ActiveStage` extends `AgentLoop` and drives its actions, so a stage is the
composition of executor and loop; `TwoOperators` composes two runners;
`RunnerLedger` refines `MissionLedger`. `MCOperation`, `MCHost` and `MCSession` put
modules side by side that share no state: a variable `part` chooses at the start which of them
takes steps, so that the states add up and are not multiplied.

### WorkflowRunner

Variables follow the three records of a session: `blob[s]` (the document, `Nil`
until first saved), `rows[s]` (the node rows that `_load` lays over the
document), `srow[s]` (the sessions row). `run` is the call in flight: the loaded
document `mem`, the nodes, the decision, and where it stands (`pc`). `held` is
the decision the operator kept; `decide_core` may be called without the operator
adopting the new one, so stale decisions occur. `calls`, `spent` and
`spentSteps` count executor invocations and exist only for the properties.

Every durable write is one action. Validation and the writes before the first
commit are one action with the entry, because nothing else can see them.
Refusals that change nothing are guards. `Crash` resets `run` and leaves the
store. A decision is the record of the state it was computed from, which is what
`core_state_fingerprint` hashes; equality of decisions stands for equality of
fingerprints.

The executor is `InvokeExecutor`, then one `RecordResult(r)`, where `r` says what
the runner makes of the envelope, binding and gate checks: `verified`,
`unbound` (gate passed, no Active result, compatibility path only), `review` or
`failed`. The executor's inside is `ActiveStage`.

The constant `RepeatStop` says whether an operator stops a mission that is
already stopped. The code allows it, and every run but `runner_lineage` sets it
to `TRUE`; that one leaves it out because it alone makes a lineage unloadable,
which `runner_repeat_stop` shows separately. The theorems hold for both values,
except `LoadableStaysForever`, which has `RepeatStop = FALSE` as its hypothesis.

### Coordinator

`call[c]` is the coroutine frame of one call of `execute`. Its `pc` names the
block it is about to run; `approving`, `preparing` and `running` are the awaits.
Blocks between awaits are synchronous: while one call is in such a block no other
task runs (`Resumes`, `Quiet`), but the clock ticks. `mat` is the request's
approval-bound material and `dig` the digest taken at entry; a digest is the
material itself, since `approval_digest` hashes all the fields that
`resolved_action_error` compares. `trail[c]` and `kept[c]` are what reached the
sinks, `launched` and `consent` are history. The environment actions change mode,
check, the check's answer and the request while some call awaits.

### AgentLoop

`Stage` chooses the caller: a workflow stage (declared gate, stop at the first
failure, no checkpoint, no resume) or the interactive session (no gate, a
checkpoint at every change, resume of an unfinished task of the same goal).
`task` is the process's `_last_task_state`, `disk` the session's `task_state`
row, `loop` the frame of `run`. The awaits are `think` (the model) and `invoke`
(the governed tool); `reject` lies between the two checkpoints of a call that is
never made. Any checkpoint may fail and then raises out of `run`. `Interrupt` is
Ctrl+C, a cancelled stage or a raising provider; `Restart` is the death of the
process followed by `/resume`; `ManualCheckpoint` is `/checkpoint`. A task state
is its goal, its status and its counts of actions, observations, successes and
evidence; `run_tool_loop` also compares the step and the tool of each pair,
which agree by construction when the lengths do.

### ActiveStage

`exec` says which executor is at work: `agent` (inside `run_tool_loop`) or `read`
(inside `host.run`). What a stage is bound to is abstracted to what may differ
from it by now (`moved`): the envelope of task and context, the provider's
identity, the scope. `Change` may add to it at every await. `coord` is the
coordinator the stage began with and the agent's current one, which `set_scope`
replaces (`split`); the check of a stage is put back on the first, mode and
approval prompt on the second. `obs` is the executor's list of observations,
`handoff` the typed result. Every step of the loop is an action of `AgentLoop`,
so `FinalPassesGate` and `StageStopsBlocked` are checked of the loop as its real
caller drives it.

### HostController, CommandPolicy, ProviderExecution

`fr[s]` is the frame of a call: what its action was resolved to and bound to.
`resolve`, `gate`, `prepared` and `running` are its awaits; the coordinator's
decision in `gate` is nondeterministic (`Coordinator` has its inside). Session
objects are numbered (`made`) because calls hold on to the object they entered
with while the controller's own (`cur`) changes. Scope, policy, mapping and
executables change in between (`SetHostScope`, `Remap`, `ReplaceExecutable`).

`CommandPolicy` has argument vectors over a small alphabet: a token is a flag, a
word, or a flag with an attached value, a pair of which either half may be
`Missing`. The operators are those of
`hostcontrol/policy.py`, the loop over options a recursive function. Its two
properties compare a vector with the same vector behind `sudo`, and the vector
sent to a provider with the outputs that were checked.

`ProviderExecution` has a frame per asyncio task and, beside it, what the command
itself does (`child`, moved by `Exits` alone). The local, SSH and WSL providers
take the same steps around a process of this host. A cancelled Docker call goes
on as a `thread`. A wait for a container may end, time out, report no status or raise
(`ContainerWaitFails`). `token` is the context variable that lets a call through.

### ProjectMemory, MissionStore

The variable `backend` (`db`) chooses SQLite or Mongo. A SQLite call is one step
where it is one transaction; a read before it is a step of its own. Every Mongo
command is a step, and a client can be cut off between any two. An artifact is
its owner, its current value (author, sensitive or not), version and history;
`late` marks every row added after a deletion of its project began, which no
deletion promises to catch; `DeletionIsClean` exempts those rows, and on Mongo the
ends of edges while another project is being deleted. `exact` (`memory/layers.py:84`)
returns the row itself where `Show` takes its rendered form; but it leaves out
sensitive rows, and no revision of another row is sensitive (`SensitiveStays`), so
that both show the same.

Two Mongo saves of a plan may overlap: nothing in `save_plan` prevents it, though
`runner._start` saves a plan once, under a session identifier nobody else has.
`alone` is whether a save has overlapped none, and `torn` that one was cut off,
failed on a node another had inserted (`MongoInsertFails`) or overlapped another,
and that none has been completed alone since. Then the nodes and the plan may
differ; what holds even so is that a status fits the material of its own row.
`written`, `earned` and `refs` are history
variables: revisions acknowledged, the material a status was reached with,
references returned.

### ModelRouting, TerminalSession

A model is its locality, the highest classification it accepts, fallback group,
structured output and rank; `sent` is where a request's data went. The
interface's part is the catalogue, the client's model and the configured one.

A terminal is the record `Terminal`. A conversation is reduced to the sessions
its messages are from. In this version of the code nothing adds messages to the
conversation any more: the only `append` is in the branch for a pending action
(`app/tui/app.py:533-556`), and nothing that is still called sets one, so
`_execute_tool` and `_execute_command` are dead code and left out. Messages are
therefore those of transcripts of an earlier release, which the initial state
has one of. Usage is one token per run.

## 3. Runs

| Run | Checks | Shows |
|---|---|---|
| `runner_budgeted` | `RunnerInv`, `BudgetHonoured`, `SingleLiveSession`, `DispatchIsUnambiguous`, `ImplementsLedger` | budgeted missions of two sessions, crash anywhere; refinement of `MissionLedger` |
| `runner_compat` | `NoReplay`, `CompletionIsHonest`, `StepsAreLegal`, `CallsReturn` | decision path and `run()` mixed on one session; every call returns |
| `runner_lineage` | `LoadableForever` | three sessions at a lineage limit of one |
| `runner_repeat_stop` | `StoppedStillDecides` | **violated**, finding 1 |
| `two_operators_stop` | `StopSurvives` | **violated**, finding 2 |
| `operation_control` | `CoordinatorInv`, `RefusedNeverRan`, `SuccessIsAccounted`, `LaunchIsBound`, `PreparedLaunchIsCurrent` (coordinator); `NeverForked` (two operators) | one call of every kind, everything else free; two processes replanning one parent |
| `coordinator_cancel` | `TelemetryLossIsReported` | **violated**, finding 3 |
| `stage_executors` | `FinalPassesGate`, `StageStopsBlocked`, `OwnModeRestored`, `StageIsProven`, `LaunchedAsBound` | both executors, bindings changing at every await |
| `loop_unresolved` | `UnresolvedIsKept` | **violated**, finding 4 |
| `host_execution` | `LaunchIsAuthorised`, `CurrentIsOpen` (controller); `AnsweredIsOver`, `ExecuteReturns` (providers); `PolicySeesThrough` (policy) | from a command to its process |
| `provider_cancel` | `CancelTerminatesChildren` | **violated**, finding 5 |
| `operator_session` | `LoopInv`, `RecordedBeforeInvoked`, `AskedOnlyWhenSettled`, `EndIsSaved` (loop); `NoRevisionLost`, `ShownIsPermitted`, `DeletionIsClean` (memory); `StatusFitsMaterial`, `StartedIsNotReplayed`, `EvidenceVerifies` (store); `DataStaysWhereItMay`, `InterfaceKnowsModels` (models); `SessionIsOwn`, `OperatorChoiceHolds` (terminals) | what an operator's session rests on |

Some properties are conjunctions of named parts, each with its own comment:
`CompletionIsHonest` (`CompletionIsProven`, `ClosedIsFinished`), `StepsAreLegal`
(`DependenciesFirst`, `NodeProgress`, `StopIsFinal`), `StageIsProven`
(`HandoffIsProven`, `ReadsAreBounded`), `PolicySeesThrough` (`SudoIsTransparent`,
`SentWritesInside`), `ShownIsPermitted` (`SensitiveIsHidden`, `MemoryIsolated`),
`DeletionIsClean` (`DeletedIsGone`, `EdgesHaveEnds`), `InterfaceKnowsModels`
(`CatalogueSurvives`, `UsageIsAttributed`), `SessionIsOwn` (`ConversationIsOwn`,
`BilledOnce`), `OperatorChoiceHolds` (`GivenScopeHolds`, `HostSeesCurrent`).

**Bounds.** The workflow has an agent stage, a human gate that depends on it and
an agent stage behind the gate, with an alphabetical order that is the reverse
of the declared one; its replacement has one stage. That is the smallest
workflow in which dependencies, gates, both orders and a replacement matter.
`MaxRevision` stops entering calls, never a call in progress; with 8 a session
can be decided, run, crashed, reviewed and approved to its end and beyond.
`MaxDispatches = 2` and `MaxReserved = 5` are reached and exceeded by the three
possible dispatches of two sessions. `MaxLineage` is 32 in the code; 1 in
`runner_lineage` puts the limit within reach. The two-process runs have one
agent stage (and a gate, in `two_operators_stop`), which is where the overwritten
documents already differ. `operation_control` has one call: calls share only
mode, check and clock, which the environment changes anyway, and the theorems
cover any number. Two ticks with a lifetime of two let an approval expire before,
during and after each await. Materials are symmetric. The loop of `operator_session` has two
goals, so that a task is resumed, replaced and taken up again, and three runs of
three steps with one replan, so that each limit is reached within a run and a
run can be interrupted, refused and restarted. `stage_executors` runs each executor
once and tries to run it again, as its guard expects; four steps hold two
successes, a failure and a replan, and the read has its two attempts.

`host_execution`: two calls are the fewest that overlap; one change of the
outside world between any two steps is enough to make a check stale, and two
`PATH` entries let an executable be replaced or shadowed. Two directories, one of
them written in each scope, and two mappings tell read from write and mapped from
unmapped. Two tasks with a command limit of one reach and pass the limit. The
policy gets every vector of a binary and up to two tokens of the alphabet, and
up to three of a smaller one. `operator_session`: two clients, processes or
terminals each; three operations of the memory are an edit, a racing edit and a
deletion; four of the store are two saves and two checkpoints or captures; four
models, two of each locality, allow a fallback in and out of it; five inputs
start two sessions, resume the third and run in between.

**Deadlock** is not checked: a mission ends, and a bounded model runs out of
revisions.

**Fairness.** `FairSpec` asks weak fairness of `Step`, the steps of a call
already entered: sequential code around an executor whose allowance of steps is
bounded. Nothing is assumed of operators, and crashes stay possible. `AgentLoop`
has no fairness: the code awaits the model without a timeout. `ExecuteReturns`
asks weak fairness of each task's `ProviderStep`: the event loop and the worker
thread run, waits give up after their timeout, and a killed process dies.
Nothing is asked of the command itself, which may run for ever.

## 4. Findings

1. `stop_core` accepts the `stopped` decision of a mission that `replan_core`
   has stopped and overwrites the decision recorded in `core_stop`. The
   transition still holds the old one, so `_load` refuses the parent and the
   lineage check refuses the live replacement. `docs/BRAIN_ARCHITECTURE.md`
   says that a fresh decision then returns `stopped`.
2. A process that loaded a session before another one stopped it writes its old
   document over the stop at its next save, and later decisions delegate again.
   `docs/WORKFLOWS.md` says only that a stop does not cancel the other process.
3. The cancellation branch of `execute` ignores whether its telemetry was
   written; every other branch reports the loss as `telemetry_failure`.
4. After a crash during a tool call and `/resume`, `/checkpoint` overwrites the
   saved task and its unresolved action with an empty snapshot, because this
   process has no task of the session. The next run for the goal is no longer
   refused, although `docs/BUILD_PLAN.md` says that unresolved actions require
   manual review. Running another goal in the session has the same effect.

5. `docs/EXECUTION_PIPELINE.md` says that a timeout or a cancellation terminates
   the children. The local, SSH and WSL providers kill and reap their process in
   the branch for `TimeoutError` only; a cancelled call is over while its process
   runs on. `AnsweredIsOver` therefore leaves the process of a cancelled call out.
   A cancelled Docker call is left to its worker thread, which removes the
   container at its end and may even start it after the cancellation.

One more text is denied by a single step, which needs no run:
`memory/layers.py:190` says that nodes and edges of the knowledge graph cannot
cross project boundaries, and `add_project_knowledge_edge` stores any two node
identifiers under any project without comparing theirs. `DeletionIsClean` allows
for such edges.

Besides, the models show behaviour of which we found no text that says otherwise.
A local session closed during an approval comes back (`host_controller.py:1468`),
which is why `CurrentIsOpen` is about provider sessions; a Mongo save undoes a
checkpoint made during it (`mongo_store.py:576`), the one exception in
`StartedIsNotReplayed`; two processes that link evidence to one finding can lose a
link; a command limit is passed by the commands under way together
(`execution/base.py:388`); a transcript cut off while it is written counts as
empty; `/scope` prints its entries and not the scope in force.

## 5. Proofs

TLAPS checks every `...Proofs` module and `RunnerSteps` to the last leaf.
Assumptions are the named ASSUMEs of the modules: bounds are naturals, the workflow functions
have their types, a stage depends only on stages of its workflow, a stage's
step allowance is 1..32, and a value that stands for an absent one (`Nil`,
`Missing`, `Absent`, `NoProject`, `Placeholder`, ...) is none of the values it
can replace; there is at least one session, client, project, material or
filesystem root where the code has one. Nothing is assumed of the dependency
graph's shape, of the number of sessions, stages, processes, terminals or
models, or of the size of any bound.

Every safety theorem has the same form: an inductive invariant, one lemma per
action (or per group of actions that do the same to the invariant), and the
property as a consequence. TLC checked each inductive invariant on the instances
of section 3 before it was proved. A step touches one call, process, terminal
or client; so the invariants are written as predicates of one frame and the
shared tables, a lemma says which changes of the tables the other frames bear,
and each action's lemma shows it makes only such changes.

**WorkflowRunner.** `RunnerInvariantHolds`: `Spec => []RunnerInv`. None of
`NoReplay`, `BudgetHonoured` and `SingleLiveSession` is inductive. The parts of
`RunnerInv`:

* `RunShape`, `InSync` - which fields a call has at each `pc`, and that its
  memory is the stored session up to what it has not saved yet;
* `OneLive` - at most one session is unstopped, the one a replan is building
  included, and its parent is stopped by then;
* `RowsFence` - a stage that was invoked is past `pending`, except in the step
  from `invoke`, so `ReadyNodes` cannot offer it again;
* `OneKind`, `Ledger` - all sessions of a mission have one kind; the documents'
  counters dominate `spent` plus the reservation held by the call in flight, and
  stay within the budget. A replacement copies the counters of a stopped parent,
  which `OneLive` keeps from moving;
* `Handoffs`, `OneStagePerCall` - who set a dispatch marker, and that a
  delegating call handles just the stage it reserved.

`TypeCorrect`, `NeverReplays`, `BudgetIsHonoured` and `NeverForks` follow.

`WorkInvariantHolds`: `Spec => []WorkInv`, on top of `RunnerInv`. It ties
results, rows, statuses and the handoff marker together:

* `SessionFits` - an agent stage that succeeded was executed, a `complete` Core
  document is `Proven`, a closed session has finished, and a session without a
  document has not begun;
* `MemoryFits` - the marker of the call may be one it has dropped and not yet
  saved, its status is the store's except between the two writes of a
  completion;
* `EntryFits` - a command that has just been validated holds the decision for
  exactly the state it loaded, which is what makes a stale decision harmless;
* `StageFits`, `RowsFit`, `HandoffFits`, `EndFits` - the stage at work is of the
  workflow, its dependencies succeeded, only its row may be marked running once
  recovery is past, a reservation is for this stage and rests on proven results,
  and a call about to complete knows that all stages succeeded;
* `OthersQuiet` - beside the live session no other has a marker or a running
  row. This is why `replan_core` must refuse interrupted work: without it a
  marker would outlive its session, and `DispatchIsUnambiguous` fails.

From it follow `CompletesHonestly` (`CompletionIsHonest`), `StepsStayLegal`
(`StepsAreLegal`: dependencies first, no undone progress, a final stop) and
`DispatchesAreUnambiguous`.

`ImplementsTheLedger`: if only budgeted missions are started, `Spec` implies
`MissionLedger`'s under the mapping of `RunnerLedger`. The hypothesis is the
domain of the claim, since other missions have no ledger; it is that of
`runner_budgeted`. `ChargeInv` says that the live session's document, or the one
being created, is charged at least as much as any other, so the maximum over
the lineage that the mapping takes is the live session's charge.
`AdvanceHandoff` is `Grant` (on a pending row, so the stage was never started),
`InvokeExecutor` is `Spend`, a step that loses a reservation (a crash, a row
found running) is `Void`, and every other step leaves charges alone (`SavedBy`,
`RewritesKeep`, `SaveEffect`) and can make no reservation (`ReservedBy`).

`KinshipHolds`: `Spec => []KinInv`, who descends from whom: sessions come into
being in order, a parent before its replacement, one root to a mission, and a
call works on a saved session under the parent its document names. Seven writes
create or end sessions or name a child; every other step is `Ordinary`, saving
at most the call's own document with the links it has (`StepKinds` in
`RunnerSteps`). The walk of `_validate_core_lineage` is a recursive function;
`WalkExists`, `WalkIsChain` and `LineageIsChain` show, by a smallest
counterexample, that for a lineage of any length it visits exactly the chain of
parents.

`LoadableStaysForever`: `RepeatStop = FALSE` implies `Spec => LoadableForever`.
`LinkInv` says that a transition and the stop it caused hold the same decision,
that a child which is named is saved, names its parent and can be loaded
(`LinksFit`), and that the call in flight has the links of its stored document,
none to overwrite when it stops, and a child built for the decision it saved
(`CallLinks`). A step that changes none of the fields the check reads, or only
those of a session without a child, loses no loadable session (`LoadableStays`);
the other steps are `stop_core`, `replan_core` and the naming of the child, one
lemma each. The hypothesis excludes just finding 1, which makes the statement
false: `runner_repeat_stop` is its counterexample.

**TwoOperators.** `TwoOperatorsKin`: `Spec => []TwoInv`. `RunnerInv` cannot be
used here: it says that a call's memory is the stored session, and the other
process writes over it. What survives is kinship. `KinStep` says what a step
shows of itself to others: a document stays and keeps its parent, the only one
that appears is the child being created, and its session was taken from the
absent ones. `TwoInv` is `KinInv` of each process, and that the two never create
the same session (`Apart`); a step of one keeps its own `KinInv` by the lemmas of
`RunnerSteps` and is a `KinStep`, which keeps the other's (`BystanderA`,
`BystanderB`). `TwoOperatorsNeverFork` follows from `OneLoadable`, for missions
of any size: parents form a tree with one root and each names one child, so of
two sessions that can be loaded one is in the lineage of the other (`ChainsNest`);
and whoever is above another in a lineage that passes the check was stopped by
its own replacement.

**Coordinator.** `CoordinatorInvariantHolds`: `Spec => []CoordinatorInv`. Its
parts: a call past the gate is backed by consent or did not need it (`Backed`),
its effective expiry is no later than the grant and the request (`Dated`), it is
in the trail before anything is awaited on its behalf (`Authorised`), a recheck
that passed describes the present (`Current`: nothing but the clock moves until
the launch), a settled refusal has not launched (`Truthful`), a settled success
has its records (`Accounted`). `RefusalsAreTrue` and `SuccessIsOnRecord` follow
from it as invariants, `LaunchesAreBound` and `PreparedLaunchesAreCurrent` as
action properties, for any number of concurrent calls.

**AgentLoop.** `LoopInvariant`: `Spec => []LoopInv`. Its parts: where the loop is
tells how far the task's records have come (`RecordsFollowLoop`), an interactive
run works on the task it has saved (`RunIsSaved`), a running stage has seen no
failure, so the two ways of counting evidence agree (`StageIsClean`), and the
reported ending matches the task and the row (`EndingsAgree`). One lemma,
`CheckpointKeepsInv`, handles the checkpoint that is written and the one that
raises; each action instantiates it. The five safety properties follow, for any
goals, gate, limits and number of runs, with or without a reviewer.

**ActiveStage.** `StageRunsTheLoop`: `StageSpec => Spec`, each step of an
executor is a step of `AgentLoop` or leaves its variables alone. So `LoopInv` and
what follows from it hold of the composition (`StageFinalMeetsGate`,
`StageStopsInExecutor`). `StageInvariantHolds` adds what the executor knows:
while its loop runs, both coordinators it can reach have the stage's check and
mode (`AgentIsBound`: a replaced scope copies them), only its last observation can
be a failed one (`AgentStopsAtFailure`, from the loop's `stopped`), and a read
executor has an observation of each attempt but the current (`ReadsAreCounted`).
`OwnModeIsRestored`, `StageEndsOnProof` and `LaunchesAreBoundToStage` follow.

**HostController.** `HostInvariantHolds`. The part that is not obvious is
`OpensItsOwn`: the object a waiting `session_open` will install is nobody else's,
so no `session_close` in between can have closed it. With `FramesAreBound` this
gives `ControllerHoldsOpenProviderSession`; with `PreparedIsChecked`, the action property
`LaunchesAreAuthorised`, for any number of overlapping calls and changes of scope,
policy, mapping and executables.

**ProviderExecution.** `ProviderInvariantHolds`: each kind of provider is only at
the places of its own `execute`, whoever waits for, kills or reaps a process has
one, and a container that is to be removed has a call that will come to its
`finally`; and a call that is over has no running command but those
`AnsweredIsOver` names. `AnsweredCallsAreOver` follows for any number of tasks.

**CommandPolicy.** `PolicySees`: `PolicySpec => []PolicySeesThrough`, for any
commands of any length and any provider paths. The invariant is small
(`PolicyInv`: what was decided and sent is what the operators say); the work is
in the operators. The scans of `StripSudo` and `FlagOutputs` are recursive
functions that run from an argument to the next or the one after it. TLAPS must
first be shown that such a function exists (`Downward`, `GatheredExists`), and then
that two scans agree: behind a prefix every binding moves by the length of the
prefix (`BindingsMove`); what is sent has a provider path where the command has
an output and is the same elsewhere, so the scan stops at the same places
(`SentScan`), and it is not riskier (`SentRisk`). The inductions run over the
positions of one vector, again by a smallest counterexample. `PolicyAssumption`
says of commands that they begin with the name of a binary other than `sudo` (a
second `sudo` is not looked through by the code either), and of the mapping
that its paths are not empty and that every output has one: the controller maps
each output before it rewrites the command and refuses the command otherwise.

**TerminalSession, ModelRouting.** `TerminalInvariantHolds`: a run belongs to the
session and the count it started from (`RunsAreCounted`), which gives
`SessionsStayApart` and `ChoicesStayInForce`. `RoutingInvariantHolds`: the router
remembers every model that was sent something (`TriedWereSent`), so a fallback is
never a model already tried, and `DataIsConfined`. `UiInvariantHolds`: the model
a run uses is the configured one; `InterfaceStaysInformed`.

**MissionStore.** `StoreInvariantHolds`. A Mongo save replaces the plan and then
writes its nodes one by one; `OwnSave` says that what it read was sound and, while
it is alone, that its plan is the loaded one and has the nodes written so far;
`SavesAreOwn` that nobody saves beside one that is alone. So a plan that is not
torn has the nodes it was saved with (`NodesFit`) and a status was reached with
the material it stands beside (`FitTable`). `OwnCapture`: a process captures
under identifiers of its own, to which no reference exists before the file is
protected. `StatusIsEarned`, `EvidenceStaysVerified` and the action property
`StartedStaysStarted` follow, whatever saves overlap; the last names the one step
that makes started work runnable again, and shows that even this one keeps the
row and its attempts. The first attempt at the induction failed for
a reason in the model: a save that wrote back a row it had read earlier had to
record the material that row was reached with at that time (`reached`), not the
one of the time of writing.

**ProjectMemory.** `MemoryInvariantHolds`. `OwnEdit`: who is about to write an
edit has read the present row or one with a smaller version, which the guarded
update refuses; it keeps sensitive what was. `OwnView`: what was shown had been
acknowledged and was not sensitive. `OwnDeletion`: how many of the tables a
deletion has cleared. `DeletionIsMarked`: nothing is absent but what a deletion
took. `RevisionsAreKept`, `OnlyPermittedIsShown` and `DeletedProjectsAreGone`
follow, on both backends, for any number of clients.

**Only model-checked.** `CallsReturn` and `ExecuteReturns`, which are liveness
under fairness and out of TLAPS's reach, and the five properties that are
violated, of course. Every safety and action property of the passing runs is
stated by a theorem, `LoadableForever` under the hypothesis above.

The library's induction theorems cannot be instantiated here, so recursive
functions are reasoned about by hand: a set of counterexamples that is not empty
has a smallest element, whose predecessor is none. No theorem is about a
`RECURSIVE` operator; there is none in the modules.

## 6. Not modelled, and the plan

Not modelled on purpose: text (selection by words, prompts, reports, redaction,
search and ranking of knowledge, matching of hosts and domains), YAML and field
validation of definitions, edits of a definition between two calls,
presentation, the read-only host capabilities, the Windows access lists, network
transport. Capability registry, extensions, the MCP manager, skills, reports and
bootstrap keep no state that two actors share; they are registration and file
copies at start-up. What runs at the far end of ssh or wsl after its client was
killed is out of the code's sight.

Left of the plan:

1. `SharedSession`: an interactive session resumed on a workflow's session, both
   writing one `task_state` row (`AgentLoop` composed with `WorkflowRunner`).
2. `PlanGraph`: `topological_order` and cycle detection against a reference.
3. `StopSurvives` and `StoppedStillDecides` become theorems once the code loads
   a document again before it writes it, and refuses a second stop.
