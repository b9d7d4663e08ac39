--------------------------- MODULE WorkflowRunner ---------------------------
(***************************************************************************)
(* The durable workflow runner of src/decode/workflows/runner.py together  *)
(* with the Core planner of src/decode/workflows/registry.py and the part  *)
(* of the SQLite store they write.                                         *)
(*                                                                         *)
(* A mission is a chain of sessions: session 1 is created by start() or    *)
(* start_core(), every later one by replan_core().  For each session the   *)
(* store holds three independent records, each written in a transaction of *)
(* its own:                                                                *)
(*                                                                         *)
(*   blob[s]  the task_state JSON document (status, environment, Active    *)
(*            results); Nil until it is first saved;                       *)
(*   rows[s]  the mission_nodes rows, the durable status of every stage,   *)
(*            which _load() lays over the plan kept in the blob;           *)
(*   srow[s]  the sessions row.                                            *)
(*                                                                         *)
(* One call into the runner is in flight at a time (docs/WORKFLOWS.md: the *)
(* bridge is sequential; TwoOperators.tla drops that).  run is its memory: *)
(* the loaded state, the decision it was given and where it stands.  Every *)
(* durable write is an action of its own, and the process may die between  *)
(* any two of them (Crash), losing run and nothing else.                   *)
(*                                                                         *)
(* Left out: unresolved_questions and completion_conditions (empty in      *)
(* every state this code writes), edits of a workflow definition between   *)
(* two calls (_load then refuses the session), and the texts of reports.   *)
(***************************************************************************)
EXTENDS Integers, FiniteSets

CONSTANTS
    MaxSessions,        \* bound: sessions in a mission's lineage
    MaxRevision,        \* bound: no call enters a session past this revision
    MaxLineage,         \* replacement transitions a lineage may have (32)
    MaxDispatches,      \* CoreMissionBudget.max_stage_dispatches
    MaxReserved,        \* CoreMissionBudget.max_reserved_steps
    Workflows, Stage,   \* reviewed definitions; stage identifiers
    StagesOf, Deps,     \* per workflow: its stages, their depends_on
    Human,              \* per workflow: the stages with execution: human
    Steps,              \* per workflow: max_steps of each stage
    Declared, ByName,   \* per workflow: rank of a stage in the declaration
                        \* and in the alphabetical order of the saved plan
    Kinds,              \* which of "plain", "core", "budgeted" may start
    RepeatStop,         \* may an operator stop a stopped mission again?
    Nil

Sessions == 1..MaxSessions

ASSUME BoundsAssumption ==
    /\ MaxSessions \in Nat \ {0}
    /\ MaxRevision \in Nat /\ MaxLineage \in Nat
    /\ MaxDispatches \in Nat /\ MaxReserved \in Nat
    /\ RepeatStop \in BOOLEAN

ASSUME WorkflowAssumption ==
    /\ StagesOf \in [Workflows -> SUBSET Stage]
    /\ Deps \in [Workflows -> [Stage -> SUBSET Stage]]
    /\ \A w \in Workflows, st \in Stage : Deps[w][st] \subseteq StagesOf[w]
    /\ Human \in [Workflows -> SUBSET Stage]
    /\ Steps \in [Workflows -> [Stage -> 1..32]]
    /\ Declared \in [Workflows -> [Stage -> Nat]]
    /\ ByName \in [Workflows -> [Stage -> Nat]]
    /\ Kinds \subseteq {"plain", "core", "budgeted"}

VARIABLES
    blob, rows, srow,   \* the store
    held,               \* the decision the operator last chose to keep
    run,                \* the call in flight
    calls,              \* history: executor invocations per session and stage
    spent, spentSteps   \* history: invocations, and the steps handed to them

store == <<blob, rows, srow>>
history == <<calls, spent, spentSteps>>
vars == <<blob, rows, srow, held, run, calls, spent, spentSteps>>

-----------------------------------------------------------------------------
(* The task_state document and the decisions bound to it. *)

TaskStatuses == {"investigating", "blocked", "complete", "failed"}
NodeStatuses == {"absent", "pending", "running", "success", "needs_review", "error"}
Verdicts == {"none", "verified", "escalated"}
Outcomes == {"delegate", "await_approval", "needs_review", "complete",
             "failed", "budget_exhausted", "stopped"}

\* The outcomes whose decision carries a CoreReviewRequest.
ReviewOutcomes == {"needs_review", "failed", "budget_exhausted"}

\* core_state_fingerprint: everything in the loaded state except the issued
\* decision and its consumed flag.
Fingerprint(b, n) ==
    [rev |-> b.rev, status |-> b.status, nodes |-> n, active |-> b.active,
     pending |-> b.pending, used |-> b.used, reserved |-> b.reserved,
     stopped |-> b.stop # Nil, child |-> b.child]

Fingerprints ==
    [rev : Nat, status : TaskStatuses, nodes : [Stage -> NodeStatuses],
     active : [Stage -> Verdicts], pending : Stage \cup {Nil}, used : Nat,
     reserved : Nat, stopped : BOOLEAN, child : Sessions \cup {Nil}]

Decisions ==
    [sid : Sessions, outcome : Outcomes, stage : Stage \cup {Nil}, fp : Fingerprints]

Blobs ==
    [kind : {"plain", "core", "budgeted"}, wf : Workflows, status : TaskStatuses,
     rev : Nat, active : [Stage -> Verdicts], pending : Stage \cup {Nil},
     used : Nat, reserved : Nat,
     stop : Decisions \cup {Nil},                 \* core_stop.decision
     replan : Decisions \cup {Nil},               \* core_replan_transition.decision
     child : Sessions \cup {Nil},                 \* ... .replacement_session_id
     parent : Sessions \cup {Nil}, via : Decisions \cup {Nil}, \* core_replan_origin
     decision : Decisions \cup {Nil}, consumed : BOOLEAN]

NewBlob(k, w) ==
    [kind |-> k, wf |-> w, status |-> "investigating", rev |-> 0,
     active |-> [st \in Stage |-> "none"], pending |-> Nil, used |-> 0,
     reserved |-> 0, stop |-> Nil, replan |-> Nil, child |-> Nil,
     parent |-> Nil, via |-> Nil, decision |-> Nil, consumed |-> TRUE]

\* The child document _start() builds for a replacement: the parent's budget
\* usage and nothing else of its progress.
ReplacementBlob(p, s, d, w) ==
    [NewBlob(p.kind, w) EXCEPT !.used = p.used, !.reserved = p.reserved,
                               !.parent = s, !.via = d]

Touch(b) == [b EXCEPT !.rev = @ + 1]
Mark(b, status) == Touch([b EXCEPT !.status = status])
Consume(b) == [b EXCEPT !.consumed = TRUE]

-----------------------------------------------------------------------------
(* CoreWorkflowPlanner.decide: a fixed precedence over the loaded state.    *)

Agents(w) == StagesOf[w] \ Human[w]
DepsDone(w, n, st) == \A d \in Deps[w][st] : n[d] = "success"

\* PlanGraph.ready_nodes
ReadyNodes(w, n) == {st \in StagesOf[w] : n[st] = "pending" /\ DepsDone(w, n, st)}

CoreReady(w, n) ==
    {st \in StagesOf[w] : n[st] \in {"pending", "needs_review"} /\ DepsDone(w, n, st)}

First(S, rank) == CHOOSE st \in S : \A o \in S : rank[st] <= rank[o]

\* Review-paused stages first, then declaration order.
NextStage(w, n) ==
    LET ready == CoreReady(w, n)
        paused == {st \in ready : n[st] = "needs_review"}
    IN  First(IF paused # {} THEN paused ELSE ready, Declared[w])

HasFailed(b, n) == b.status = "failed" \/ \E st \in StagesOf[b.wf] : n[st] = "error"

Ambiguous(b, n) ==
    \/ b.pending # Nil
    \/ \E st \in StagesOf[b.wf] : n[st] = "running"
    \/ \E st \in Agents(b.wf) : n[st] = "needs_review"

\* Some finished agent stage has no bound, completed, gate-passing Active result.
Unproven(b, n) ==
    \E st \in Agents(b.wf) : n[st] = "success" /\ b.active[st] # "verified"

AllSucceeded(w, n) == \A st \in StagesOf[w] : n[st] = "success"

\* Off by one in the dispatch comparison.
BudgetCoversOneMore(b, steps) ==
    b.kind = "budgeted" =>
        /\ b.used <= MaxDispatches
        /\ b.reserved + steps <= MaxReserved

\* CoreBudgetState.stop_reason(steps) = ""
BudgetCovers(b, steps) ==
    b.kind = "budgeted" =>
        /\ b.used < MaxDispatches
        /\ b.reserved + steps <= MaxReserved

Outcome(b, n) ==
    IF b.stop # Nil THEN "stopped"
    ELSE IF HasFailed(b, n) THEN "failed"
    ELSE IF Ambiguous(b, n) \/ Unproven(b, n) THEN "needs_review"
    ELSE IF AllSucceeded(b.wf, n) THEN "complete"
    ELSE IF CoreReady(b.wf, n) = {} \/ b.status = "complete" THEN "needs_review"
    ELSE IF NextStage(b.wf, n) \in Human[b.wf] THEN "await_approval"
    ELSE IF ~ BudgetCovers(b, Steps[b.wf][NextStage(b.wf, n)]) THEN "budget_exhausted"
    ELSE IF b.status = "blocked" THEN "needs_review"
    ELSE "delegate"

Decide(s, b, n) ==
    LET o == Outcome(b, n)
    IN  [sid |-> s, outcome |-> o,
         stage |-> IF o \in {"delegate", "await_approval"} THEN NextStage(b.wf, n) ELSE Nil,
         fp |-> Fingerprint(b, n)]

\* _validate_core_decision on the freshly loaded state.
ValidDecision(s, b, n, d) ==
    /\ b.kind # "plain"
    /\ ~ b.consumed
    /\ b.decision = d
    /\ d = Decide(s, b, n)

-----------------------------------------------------------------------------
(* _load and _validate_core_lineage. *)

StopMatchesTransition(b) == b.replan # Nil => b.stop = b.replan

\* The child need not be the one the parent's transition names.
LinkHoldsUnbound(s) ==
    LET b == blob[s] IN
    b.parent # Nil =>
        LET p == blob[b.parent] IN
        /\ p # Nil
        /\ p.replan # Nil /\ p.stop = p.replan /\ p.replan = b.via
        /\ p.used <= b.used /\ p.reserved <= b.reserved

\* One link of the ancestor walk: s against the parent its origin names.
LinkHolds(s) ==
    LET b == blob[s] IN
    b.parent # Nil =>
        LET p == blob[b.parent] IN
        /\ p # Nil
        /\ p.replan # Nil /\ p.stop = p.replan /\ p.replan = b.via
        /\ p.child = s
        /\ p.used <= b.used /\ p.reserved <= b.reserved

\* A session and its ancestors; a parent is always created before its child.
Lineage(s) ==
    LET walk[t \in Sessions] ==
            IF blob[t] = Nil THEN {t}
            ELSE IF blob[t].parent = Nil THEN {t}
            ELSE {t} \cup walk[blob[t].parent]
    IN  walk[s]

LineageDepth(s) == Cardinality(Lineage(s)) - 1

Loadable(s) ==
    /\ blob[s] # Nil
    /\ StopMatchesTransition(blob[s])
    /\ LineageDepth(s) <= MaxLineage
    /\ \A a \in Lineage(s) : blob[a] # Nil /\ LinkHolds(a)

-----------------------------------------------------------------------------
(* The call in flight. *)

Ops == {"start", "decide", "advance", "approve", "review", "stop", "replan", "run"}
PCs == {"enter", "recover", "approve", "loop", "checkpoint", "save_checkpoint",
        "invoke", "executing", "settle", "close", "close_first",
        "create", "save_plan", "save_state", "link"}

\* Nil stands for an absent value and is none of the values it can replace.
ASSUME NilAssumption ==
    /\ Nil \notin Stage /\ Nil \notin Sessions
    /\ Nil \notin Decisions /\ Nil \notin Blobs
    /\ Nil \notin Ops \cup PCs \cup TaskStatuses \cup NodeStatuses

IdleRun ==
    [op |-> Nil, pc |-> "idle", sid |-> Nil, mem |-> Nil, nodes |-> Nil, dec |-> Nil,
     stage |-> Nil, to |-> Nil, next |-> Nil, mark |-> Nil, kid |-> Nil, kidSid |-> Nil]

Idle == run.pc = "idle"

Enter(op, s, d, st) ==
    run' = [IdleRun EXCEPT !.op = op, !.pc = "enter", !.sid = s, !.mem = blob[s],
                           !.nodes = rows[s], !.dec = d, !.stage = st]

At(op, pc) == run.op = op /\ run.pc = pc

\* TaskStateStore.save of the session the call loaded.
Save(b) == blob' = [blob EXCEPT ![run.sid] = b]

Init ==
    /\ blob = [s \in Sessions |-> Nil]
    /\ rows = [s \in Sessions |-> [st \in Stage |-> "absent"]]
    /\ srow = [s \in Sessions |-> "absent"]
    /\ held = Nil
    /\ run = IdleRun
    /\ calls = [s \in Sessions |-> [st \in Stage |-> 0]]
    /\ spent = 0
    /\ spentSteps = 0

-----------------------------------------------------------------------------
(* Creating a session: start(), start_core(), and the tail of replan_core(). *)

\* The validated entry of start()/start_core(): one mission per behaviour, so
\* a start is repeated only after a crash that left no document.
Start(k, w) ==
    /\ Idle
    /\ \A s \in Sessions : blob[s] = Nil
    /\ \E s \in Sessions : srow[s] = "absent"
    /\ run' = [IdleRun EXCEPT !.op = "start", !.pc = "create", !.kid = NewBlob(k, w)]
    /\ UNCHANGED <<store, held, history>>

\* sessions.create
CreateSession(s) ==
    /\ run.pc = "create"
    /\ srow[s] = "absent"
    /\ \A t \in Sessions : t < s => srow[t] # "absent"
    /\ srow' = [srow EXCEPT ![s] = "open"]
    /\ run' = [run EXCEPT !.pc = "save_plan", !.kidSid = s]
    /\ UNCHANGED <<blob, rows, held, history>>

\* _save_plan: one transaction inserts the plan and a pending row per stage.
SavePlan ==
    /\ run.pc = "save_plan"
    /\ rows' = [rows EXCEPT ![run.kidSid] =
                   [st \in Stage |-> IF st \in StagesOf[run.kid.wf] THEN "pending" ELSE "absent"]]
    /\ run' = [run EXCEPT !.pc = "save_state"]
    /\ UNCHANGED <<blob, srow, held, history>>

\* The first save of the new session's task_state.
SaveTaskState ==
    /\ run.pc = "save_state"
    /\ blob' = [blob EXCEPT ![run.kidSid] = run.kid]
    /\ run' = IF run.op = "replan" THEN [run EXCEPT !.pc = "link"] ELSE IdleRun
    /\ UNCHANGED <<rows, srow, held, history>>

\* replan_core's last save: the parent names its replacement.
LinkReplacement ==
    /\ run.pc = "link"
    /\ Save(Touch([run.mem EXCEPT !.child = run.kidSid]))
    /\ run' = IdleRun
    /\ UNCHANGED <<rows, srow, held, history>>

-----------------------------------------------------------------------------
(* Operator commands on a Core session: load, validate, enter. *)

CanEnter(s) == Idle /\ Loadable(s) /\ blob[s].rev < MaxRevision

CallDecide(s) ==
    /\ CanEnter(s)
    /\ blob[s].kind # "plain"
    /\ Enter("decide", s, Nil, Nil)
    /\ UNCHANGED <<store, held, history>>

\* decide_core: recompute, persist and hand out; the operator may keep acting
\* on a decision issued earlier.
DecideCore ==
    /\ At("decide", "enter")
    /\ LET d == Decide(run.sid, run.mem, run.nodes) IN
       /\ Save([run.mem EXCEPT !.decision = d, !.consumed = FALSE])
       /\ held' \in {held, d}
    /\ run' = IdleRun
    /\ UNCHANGED <<rows, srow, history>>

\* issued_core: hand out the stored decision again, if it is still valid.
IssuedCore(s) ==
    /\ Idle /\ Loadable(s)
    /\ ValidDecision(s, blob[s], rows[s], blob[s].decision)
    /\ held' = blob[s].decision
    /\ UNCHANGED <<store, run, history>>

\* Without the interrupted-work check.
MayReplanInterrupted(s) ==
    /\ held.outcome \in ReviewOutcomes
    /\ blob[s].stop = Nil
    /\ LineageDepth(s) < MaxLineage
    /\ \E t \in Sessions : srow[t] = "absent"

\* Without room for one more transition.
MayReplanTooDeep(s) ==
    /\ held.outcome \in ReviewOutcomes
    /\ blob[s].stop = Nil
    /\ blob[s].pending = Nil
    /\ \A st \in Stage : rows[s][st] # "running"
    /\ LineageDepth(s) <= MaxLineage
    /\ \E t \in Sessions : srow[t] = "absent"

\* replan_core's own preconditions.
MayReplan(s) ==
    /\ held.outcome \in ReviewOutcomes
    /\ blob[s].stop = Nil
    /\ blob[s].pending = Nil
    /\ \A st \in Stage : rows[s][st] # "running"
    /\ LineageDepth(s) < MaxLineage
    /\ \E t \in Sessions : srow[t] = "absent"       \* bound: MaxSessions

\* run_core, approve_core_stage, review_core, stop_core and replan_core all
\* load the session and refuse a decision that is not the valid issued one.
CallCore(op, s) ==
    /\ CanEnter(s)
    /\ held # Nil
    /\ ValidDecision(s, blob[s], rows[s], held)
    /\ op = "approve" => held.outcome = "await_approval"
    /\ op = "review" => held.outcome \in ReviewOutcomes
    /\ op = "stop" => (RepeatStop \/ held.outcome # "stopped")
    /\ op = "replan" => MayReplan(s)
    /\ Enter(op, s, held, held.stage)
    /\ UNCHANGED <<store, held, history>>

ReviewCore ==
    /\ At("review", "enter")
    /\ Save(Consume(Mark(run.mem, IF run.dec.outcome = "failed" THEN "failed" ELSE "blocked")))
    /\ run' = IdleRun
    /\ UNCHANGED <<rows, srow, held, history>>

\* A stop keeps a terminal status and blocks any other.
StoppedBlob(b, d) ==
    Consume([(IF b.status \in {"complete", "failed"} THEN Touch(b) ELSE Mark(b, "blocked"))
             EXCEPT !.stop = d])

StopCore ==
    /\ At("stop", "enter")
    /\ Save(StoppedBlob(run.mem, run.dec))
    /\ run' = IdleRun
    /\ UNCHANGED <<rows, srow, held, history>>

\* The transition is recorded without stopping the parent.
ReplannedBlobRunning(b, d) ==
    Consume([(IF b.status = "failed" THEN Touch(b) ELSE Mark(b, "blocked"))
             EXCEPT !.replan = d])

\* The parent is saved stopped, with an open transition, before anything of
\* the replacement exists.
ReplannedBlob(b, d) ==
    Consume([[(IF b.status = "failed" THEN Touch(b) ELSE Mark(b, "blocked"))
              EXCEPT !.replan = d] EXCEPT !.stop = d])

ReplanCore(w) ==
    /\ At("replan", "enter")
    /\ LET b == ReplannedBlob(run.mem, run.dec) IN
       /\ Save(b)
       /\ run' = [run EXCEPT !.pc = "create", !.mem = b,
                             !.kid = ReplacementBlob(run.mem, run.sid, run.dec, w)]
    /\ UNCHANGED <<rows, srow, held, history>>

-----------------------------------------------------------------------------
(* run_core: consume one decision. *)

\* A decision that delegates nothing only settles the mission's status.
AdvanceSettle ==
    /\ At("advance", "enter")
    /\ run.dec.outcome \notin {"delegate", "await_approval"}
    /\ LET b == IF run.dec.outcome = "stopped" /\ run.mem.status \in {"complete", "failed"}
                THEN Touch(run.mem)
                ELSE Mark(run.mem, IF run.dec.outcome \in {"complete", "failed"}
                                   THEN run.dec.outcome ELSE "blocked")
       IN  /\ Save(Consume(b))
           /\ run' = IF b.status = "complete" THEN [run EXCEPT !.pc = "close"] ELSE IdleRun
    /\ UNCHANGED <<rows, srow, held, history>>

\* A human gate is put in review; no blob save precedes the row.
AdvanceAwait ==
    /\ At("advance", "enter")
    /\ run.dec.outcome = "await_approval"
    /\ run' = [run EXCEPT !.pc = "checkpoint", !.to = "needs_review", !.next = "settle",
                          !.mark = "blocked", !.mem = Consume(run.mem)]
    /\ UNCHANGED <<store, held, history>>

\* The reservation is left for after the stage has run.
HandoffUnreserved(b, st) == [Consume(b) EXCEPT !.pending = st]

\* CoreBudgetState.reserve, the handoff marker and consumption in one save.
Handoff(b, st) ==
    LET c == [Consume(b) EXCEPT !.pending = st]
    IN  IF b.kind = "budgeted"
        THEN Touch([[c EXCEPT !.used = @ + 1] EXCEPT !.reserved = @ + Steps[b.wf][st]])
        ELSE c

AdvanceHandoff ==
    /\ At("advance", "enter")
    /\ run.dec.outcome = "delegate"
    /\ LET b == Handoff(run.mem, run.stage) IN
       /\ Save(b)
       /\ run' = [run EXCEPT !.pc = "recover", !.mem = b]
    /\ UNCHANGED <<rows, srow, held, history>>

-----------------------------------------------------------------------------
(* run(): the compatibility path of _advance. *)

\* Budgeted missions are let through.
CompatibilityAdmitsBudgeted(b, n) ==
    \/ b.stop # Nil
    \/ b.pending # Nil
    \/ b.kind = "core" /\ Outcome(b, n) \in ReviewOutcomes

\* A stopped mission is let through.
CompatibilityAdmitsStopped(b, n) ==
    \/ b.pending # Nil
    \/ b.kind = "budgeted"
    \/ b.kind = "core" /\ Outcome(b, n) \in ReviewOutcomes

\* What _advance refuses before it recovers anything.
CompatibilityRefused(b, n) ==
    \/ b.stop # Nil
    \/ b.pending # Nil
    \/ b.kind = "budgeted"
    \/ b.kind = "core" /\ Outcome(b, n) \in ReviewOutcomes

\* st is the stage named by approve_stage, or Nil.
CallRun(s, st) ==
    /\ CanEnter(s)
    /\ ~ CompatibilityRefused(blob[s], rows[s])
    /\ run' = [IdleRun EXCEPT !.op = "run", !.pc = "recover", !.sid = s, !.mem = blob[s],
                              !.nodes = rows[s], !.stage = st]
    /\ UNCHANGED <<store, held, history>>

\* Interrupted work is put back in the queue.
RecoveredForRetry(n) == [st \in Stage |-> IF n[st] = "running" THEN "pending" ELSE n[st]]

\* recover_interrupted_plan: running rows become needs_review and nothing else
\* happens in this call.
Recovered(n) == [st \in Stage |-> IF n[st] = "running" THEN "needs_review" ELSE n[st]]

RecoverInterrupted ==
    /\ run.pc = "recover"
    /\ IF \E st \in Stage : rows[run.sid][st] = "running"
       THEN /\ rows' = [rows EXCEPT ![run.sid] = Recovered(@)]
            /\ run' = [run EXCEPT !.pc = "settle", !.mark = "blocked", !.mem = blob[run.sid],
                                  !.nodes = Recovered(rows[run.sid])]
       ELSE /\ run' = [run EXCEPT !.pc = IF run.op = "run" /\ run.stage # Nil
                                         THEN "approve" ELSE "loop"]
            /\ UNCHANGED rows
    /\ UNCHANGED <<blob, srow, held, history>>

-----------------------------------------------------------------------------
(* Human gates. *)

\* approve_core_stage: consume, and pause a gate that is still pending.
ApproveCoreStage ==
    /\ At("approve", "enter")
    /\ Save(Consume(run.mem))
    /\ run' = IF run.nodes[run.stage] = "pending"
              THEN [run EXCEPT !.pc = "checkpoint", !.to = "needs_review", !.next = "approve",
                               !.mem = Consume(run.mem)]
              ELSE [run EXCEPT !.pc = "approve", !.mem = Consume(run.mem)]
    /\ UNCHANGED <<rows, srow, held, history>>

Approvable(b, n, st) ==
    /\ st \in StagesOf[b.wf] \cap Human[b.wf]
    /\ n[st] = "needs_review"
    /\ DepsDone(b.wf, n, st)

\* _approve_human_stage; it raises, ending the call, when st is not a human
\* gate awaiting approval.
ApproveHumanStage ==
    /\ run.pc = "approve"
    /\ run' = IF Approvable(run.mem, run.nodes, run.stage)
              THEN [run EXCEPT !.pc = "checkpoint", !.to = "success", !.next = "settle",
                               !.mark = "investigating"]
              ELSE IdleRun
    /\ UNCHANGED <<store, held, history>>

-----------------------------------------------------------------------------
(* The stage loop of _advance. *)

\* The stage this pass of the loop works on.
Picks(st) ==
    LET ready == ReadyNodes(run.mem.wf, run.nodes) IN
    /\ st \in ready
    /\ IF run.op = "advance" THEN st = run.dec.stage
       ELSE \A o \in ready : ByName[run.mem.wf][st] <= ByName[run.mem.wf][o]

\* The gate is noticed but its row is not written.
LoopHumanUnrecorded(st) ==
    /\ run.pc = "loop" /\ Picks(st)
    /\ st \in Human[run.mem.wf]
    /\ run' = [run EXCEPT !.stage = st]
    /\ UNCHANGED <<store, held, history>>

LoopHuman(st) ==
    /\ run.pc = "loop" /\ Picks(st)
    /\ st \in Human[run.mem.wf]
    /\ run' = [run EXCEPT !.pc = "checkpoint", !.stage = st, !.to = "needs_review",
                          !.next = "settle", !.mark = "blocked"]
    /\ UNCHANGED <<store, held, history>>

LoopAgent(st) ==
    /\ run.pc = "loop" /\ Picks(st)
    /\ st \notin Human[run.mem.wf]
    /\ run' = [run EXCEPT !.pc = "checkpoint", !.stage = st, !.to = "running", !.next = "invoke"]
    /\ UNCHANGED <<store, held, history>>

\* Completion without a last look at the Core decision.
FinalStatusUnchecked(s, b, n) ==
    IF AllSucceeded(b.wf, n) THEN "complete"
    ELSE IF \E st \in StagesOf[b.wf] : n[st] = "needs_review" THEN "blocked"
    ELSE IF \E st \in StagesOf[b.wf] : n[st] = "error" THEN "failed" ELSE "blocked"

\* The status a call settles on when no stage is ready.
FinalStatus(s, b, n) ==
    IF AllSucceeded(b.wf, n)
    THEN IF b.kind = "plain" \/ Decide(s, b, n).outcome = "complete" THEN "complete" ELSE "blocked"
    ELSE IF \E st \in StagesOf[b.wf] : n[st] = "needs_review" THEN "blocked"
    ELSE IF \E st \in StagesOf[b.wf] : n[st] = "error" THEN "failed" ELSE "blocked"

\* No stage is ready; or the delegated one no longer is, and the call raises.
LoopEnd ==
    /\ run.pc = "loop"
    /\ ~ \E st \in Stage : Picks(st)
    /\ LET f == FinalStatus(run.sid, run.mem, run.nodes) IN
       run' = IF ReadyNodes(run.mem.wf, run.nodes) # {} THEN IdleRun
              ELSE [run EXCEPT !.pc = IF f = "complete" THEN "close_first" ELSE "settle",
                               !.mark = f]
    /\ UNCHANGED <<store, held, history>>

\* The first write of _checkpoint: the node's row.
CheckpointRow ==
    /\ run.pc = "checkpoint"
    /\ rows' = [rows EXCEPT ![run.sid][run.stage] = run.to]
    /\ run' = [run EXCEPT !.pc = "save_checkpoint", !.mem = Touch(@),
                          !.nodes = [@ EXCEPT ![run.stage] = run.to]]
    /\ UNCHANGED <<blob, srow, held, history>>

\* Its second write: the blob.
CheckpointSave ==
    /\ run.pc = "save_checkpoint"
    /\ Save(run.mem)
    /\ run' = [run EXCEPT !.pc = run.next]
    /\ UNCHANGED <<rows, srow, held, history>>

\* The executor is called; from here its effects are outside the store.
InvokeExecutor ==
    /\ run.pc = "invoke"
    /\ calls' = [calls EXCEPT ![run.sid][run.stage] = @ + 1]
    /\ spent' = spent + 1
    /\ spentSteps' = spentSteps + Steps[run.mem.wf][run.stage]
    /\ run' = [run EXCEPT !.pc = "executing"]
    /\ UNCHANGED <<store, held>>

\* What a stage can come back with once the runner has checked its envelope
\* and gate: the row it gets, the Active verdict recorded with it.
\*   verified  gate passed, bound Active result
\*   unbound   gate passed, no Active result (compatibility path only)
\*   review    blocked, needs_replan, cancelled or envelope changed
\*   failed    failed outcome or gate
Results == {"verified", "unbound", "review", "failed"}

NodeAfter == [verified |-> "success", unbound |-> "success",
              review |-> "needs_review", failed |-> "error"]
ActiveAfter(r, old) ==
    CASE r = "verified" -> "verified" [] r = "unbound" -> old [] OTHER -> "escalated"

\* _record_result saves the result while the handoff marker is still set; the
\* marker is dropped in memory and leaves the store with the checkpoint.
RecordResult(r) ==
    /\ run.pc = "executing"
    /\ run.op = "advance" => r # "unbound"
    /\ LET st == run.stage
           b == Touch([run.mem EXCEPT !.active[st] = ActiveAfter(r, @)])
           more == \E o \in StagesOf[b.wf] \ {st} : run.nodes[o] # "success"
       IN  /\ Save(b)
           /\ run' = [run EXCEPT
                 !.pc = "checkpoint", !.to = NodeAfter[r],
                 !.mem = [b EXCEPT !.pending = IF run.op = "advance" THEN Nil ELSE @],
                 !.next = IF NodeAfter[r] = "success" /\ ~ (run.op = "advance" /\ more)
                          THEN "loop" ELSE "settle",
                 !.mark = CASE NodeAfter[r] = "success" -> "investigating"
                            [] r = "review" -> "blocked"
                            [] OTHER -> "failed"]
    /\ UNCHANGED <<rows, srow, held, history>>

\* mark(status) and the call's last save.  After a compatibility approval the
\* call goes on with the loop.
Settle ==
    /\ run.pc = "settle"
    /\ Save(Mark(run.mem, run.mark))
    /\ run' = IF run.op = "run" /\ run.mark = "investigating"
              THEN [run EXCEPT !.pc = "loop", !.mem = Mark(run.mem, run.mark)]
              ELSE IdleRun
    /\ UNCHANGED <<rows, srow, held, history>>

\* sessions.close: after the COMPLETE save in run_core's settling branch,
\* before it at the end of the stage loop.
CloseSession ==
    /\ run.pc \in {"close", "close_first"}
    /\ srow' = [srow EXCEPT ![run.sid] = "closed"]
    /\ run' = IF run.pc = "close" THEN IdleRun ELSE [run EXCEPT !.pc = "settle"]
    /\ UNCHANGED <<blob, rows, held, history>>

\* The process dies between two durable writes.
Crash ==
    /\ ~ Idle
    /\ run' = IdleRun
    /\ UNCHANGED <<store, held, history>>

-----------------------------------------------------------------------------
\* The steps a call takes by itself once it has been entered.
Step ==
    \/ \E s \in Sessions : CreateSession(s)
    \/ SavePlan \/ SaveTaskState \/ LinkReplacement
    \/ DecideCore \/ ReviewCore \/ StopCore
    \/ \E w \in Workflows : ReplanCore(w)
    \/ AdvanceSettle \/ AdvanceAwait \/ AdvanceHandoff
    \/ RecoverInterrupted \/ ApproveCoreStage \/ ApproveHumanStage
    \/ \E st \in Stage : LoopHuman(st)
    \/ \E st \in Stage : LoopAgent(st)
    \/ LoopEnd
    \/ CheckpointRow \/ CheckpointSave \/ InvokeExecutor
    \/ \E r \in Results : RecordResult(r)
    \/ Settle \/ CloseSession

\* What operators and callers may ask for.
Request ==
    \/ \E k \in Kinds, w \in Workflows : Start(k, w)
    \/ \E s \in Sessions : CallDecide(s)
    \/ \E s \in Sessions : IssuedCore(s)
    \/ \E s \in Sessions, op \in {"advance", "approve", "review", "stop", "replan"} : CallCore(op, s)
    \/ \E s \in Sessions, st \in Stage \cup {Nil} : CallRun(s, st)

Next == Step \/ Request \/ Crash

Spec == Init /\ [][Next]_vars

\* The runner is ordinary sequential code around an executor with a bounded
\* step allowance: a call that has been entered keeps taking steps.
FairSpec == Spec /\ WF_vars(Step)

-----------------------------------------------------------------------------
(* Correctness. *)

Runs ==
    [op : Ops \cup {Nil}, pc : PCs \cup {"idle"}, sid : Sessions \cup {Nil},
     mem : Blobs \cup {Nil}, nodes : [Stage -> NodeStatuses] \cup {Nil},
     dec : Decisions \cup {Nil}, stage : Stage \cup {Nil}, to : NodeStatuses \cup {Nil},
     next : PCs \cup {Nil}, mark : TaskStatuses \cup {Nil},
     kid : Blobs \cup {Nil}, kidSid : Sessions \cup {Nil}]

\* Every record of the store and of the call in flight has its shape: a saved
\* document, a plan of known node statuses, counters that are numbers.
TypeOK ==
    /\ blob \in [Sessions -> Blobs \cup {Nil}]
    /\ rows \in [Sessions -> [Stage -> NodeStatuses]]
    /\ srow \in [Sessions -> {"absent", "open", "closed"}]
    /\ held \in Decisions \cup {Nil}
    /\ run \in Runs
    /\ calls \in [Sessions -> [Stage -> Nat]]
    /\ spent \in Nat /\ spentSteps \in Nat

\* No automatic replay: whatever crashes, retries of commands and repeated
\* decisions happen, a stage's executor is called at most once per session
\* (recover_interrupted_plan, core_dispatch_pending and the needs_review fence).
NoReplay == \A s \in Sessions, st \in Stage : calls[s][st] <= 1

\* A mission's budget covers all it ever dispatched, over every replacement
\* session and every crash: reservations are saved before the handoff, are
\* inherited by a replacement and never refunded.
BudgetHonoured ==
    (\E s \in Sessions : blob[s] # Nil /\ blob[s].kind = "budgeted") =>
        spent <= MaxDispatches /\ spentSteps <= MaxReserved

\* "A replacement cannot fork a live mission": at most one session of a
\* mission is saved without a stop, even between the durable writes of
\* replan_core and after a crash there.
SingleLiveSession ==
    \A s, t \in Sessions :
        /\ blob[s] # Nil /\ blob[t] # Nil
        /\ blob[s].stop = Nil /\ blob[t].stop = Nil
        => s = t

\* Core declares a mission complete only on proof: every agent stage succeeded,
\* ran exactly once in this session and left a bound verified Active result,
\* and no handoff is unresolved.
CompletionIsProven ==
    \A s \in Sessions :
        blob[s] # Nil /\ blob[s].kind # "plain" /\ blob[s].status = "complete" =>
            /\ AllSucceeded(blob[s].wf, rows[s])
            /\ blob[s].pending = Nil
            /\ \A st \in Agents(blob[s].wf) :
                  calls[s][st] = 1 /\ blob[s].active[st] = "verified"

\* A sessions row is closed only when every stage of the plan has succeeded,
\* although the close and the COMPLETE save are separate writes whose order
\* differs between the two completing branches of _advance.
ClosedIsFinished ==
    \A s \in Sessions :
        srow[s] = "closed" =>
            /\ blob[s] # Nil
            /\ AllSucceeded(blob[s].wf, rows[s])

\* Completion is honest at every write of it, the document's and the row's.
CompletionIsHonest == CompletionIsProven /\ ClosedIsFinished

\* The executor is called only by a call whose own handoff is the only
\* unresolved one of the whole mission: no other session has a dispatch marker
\* or a running row left by a crash, and the session is neither stopped nor
\* failed.
DispatchIsUnambiguous ==
    [][spent' # spent =>
         /\ \A s \in Sessions :
              /\ blob[s] # Nil /\ blob[s].pending # Nil => s = run.sid /\ blob[s].pending = run.stage
              /\ \A st \in Stage : rows[s][st] = "running" => s = run.sid /\ st = run.stage
         /\ blob[run.sid].stop = Nil
         /\ blob[run.sid].kind # "plain" => blob[run.sid].status # "failed"]_vars

\* A stage is started only when everything it depends on has succeeded in the
\* store, and, on the Core path, is proven by a bound Active result.
DependenciesFirst ==
    [][spent' # spent =>
         \A d \in Deps[blob[run.sid].wf][run.stage] :
            /\ rows[run.sid][d] = "success"
            /\ run.op = "advance" /\ d \notin Human[blob[run.sid].wf]
                  => blob[run.sid].active[d] = "verified"]_vars

\* Progress is never undone and a gate is never passed by accident: a stage
\* that succeeded keeps its row, one that was given up (error) keeps it too, a
\* human gate succeeds only in an approving call, and an agent stage only
\* after its executor ran.
NodeProgress ==
    [][\A s \in Sessions, st \in Stage :
         /\ rows[s][st] \in {"success", "error"} => rows'[s][st] = rows[s][st]
         /\ rows'[s][st] = "success" /\ rows[s][st] # "success" =>
              IF st \in Human[blob[s].wf]
              THEN run.op = "approve" \/ (run.op = "run" /\ run.mark = "investigating")
              ELSE calls[s][st] = 1]_vars

\* An operator's stop is permanent and the reservations of a session only grow.
StopIsFinal ==
    [][\A s \in Sessions :
         blob[s] # Nil /\ blob[s].stop # Nil =>
            /\ blob'[s].stop # Nil
            /\ blob'[s].used = blob[s].used
            /\ calls'[s] = calls[s]]_vars

\* What no step of the runner may do, on either path: start a stage before its
\* dependencies, undo a node, pass a gate unasked, or undo a stop.
StepsAreLegal == DependenciesFirst /\ NodeProgress /\ StopIsFinal

\* The mission's lineage stays usable: a session that could be loaded, and a
\* replacement its parent has just come to name, can be loaded after the step,
\* so neither a crash nor a legal command ever cuts an operator off from the
\* mission's state.
LoadableForever ==
    [][\A s \in Sessions :
         \/ Loadable(s)
         \/ \E p \in Sessions : blob'[p] # Nil /\ blob'[p].child = s
         => Loadable(s)']_vars

\* docs/BRAIN_ARCHITECTURE.md on stop_core: "A fresh decision returns
\* `stopped`".  Every stopped session can be loaded, and decides so.
StoppedStillDecides ==
    \A s \in Sessions :
        blob[s] # Nil /\ blob[s].stop # Nil =>
            Loadable(s) /\ Outcome(blob[s], rows[s]) = "stopped"

\* Every entered call returns: the stage loop of _advance ends.
CallsReturn == ~ Idle ~> Idle
=============================================================================
