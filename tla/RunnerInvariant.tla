--------------------------- MODULE RunnerInvariant ---------------------------
(***************************************************************************)
(* The inductive strengthenings of the runner, what holds between the      *)
(* durable writes of a call: RunnerInv behind NoReplay, BudgetHonoured and *)
(* the single live session, WorkInv behind completion, progress and        *)
(* handoffs, ChargeInv behind the ledger of a budgeted mission, KinInv and *)
(* LinkInv behind the lineage of a mission.                                *)
(***************************************************************************)
EXTENDS WorkflowRunner

Creating == {"create", "save_plan", "save_state", "link"}
Started == run.pc # "idle" /\ run.op # "start"
Checkpointing == run.pc \in {"checkpoint", "save_checkpoint"}
AboutToInvoke == run.pc = "invoke" \/ (Checkpointing /\ run.next = "invoke")

\* The fields of the call in flight are present where its steps read them.
RunShape ==
    /\ run.pc = "idle" => run = IdleRun
    /\ run.pc # "idle" => run.op # Nil
    /\ Started => /\ run.sid \in Sessions
                  /\ run.mem \in Blobs
                  /\ run.nodes \in [Stage -> NodeStatuses]
    /\ run.op = "start" => run.pc \in {"create", "save_plan", "save_state"}
    /\ run.pc \in Creating => run.op \in {"start", "replan"} /\ run.kid \in Blobs
    /\ run.pc \in Creating \ {"create"} => run.kidSid \in Sessions
    /\ run.op = "replan" => run.pc \in {"enter"} \cup Creating
    /\ run.op = "run" => run.pc # "enter"
    /\ run.pc \in {"enter", "recover", "approve", "loop"} => run.op # "start"
    /\ run.op \in {"advance", "approve", "review", "stop", "replan"} => run.dec \in Decisions
    /\ run.op = "approve" => run.stage \in Stage
    /\ run.op = "advance" /\ run.pc = "enter" /\ run.dec.outcome \in {"delegate", "await_approval"}
          => run.stage \in Stage
    /\ Checkpointing =>
          /\ run.stage \in Stage
          /\ run.to \in NodeStatuses \ {"absent", "pending"}
          /\ run.next \in {"approve", "settle", "invoke", "loop"}
          /\ run.next = "settle" => run.mark \in TaskStatuses
    /\ run.pc \in {"recover", "loop", "invoke", "executing"}
          \/ (Checkpointing /\ run.next \in {"invoke", "loop"}) => run.op \in {"advance", "run"}
    /\ run.pc \in {"invoke", "executing"} => run.stage \in Stage
    /\ run.pc \in {"settle", "close_first"} => run.mark \in TaskStatuses

\* A loaded call works on what the store holds: the parts of the document the
\* fences rest on, and the node rows.
InSync ==
    Started =>
        LET b == blob[run.sid] IN
        /\ b # Nil
        /\ run.mem.kind = b.kind /\ run.mem.wf = b.wf /\ run.mem.stop = b.stop
        /\ run.mem.used = b.used /\ run.mem.reserved = b.reserved
        /\ run.nodes = rows[run.sid]

Live(s) == blob[s] # Nil /\ blob[s].stop = Nil

\* Sessions come into being in order, and only one of them is not stopped.
OneLive ==
    /\ \A s \in Sessions : srow[s] = "absent" => blob[s] = Nil
    /\ \A s \in Sessions, st \in Stage : blob[s] = Nil => calls[s][st] = 0
    /\ \A s, t \in Sessions : Live(s) /\ Live(t) => s = t
    /\ run.op = "start" => \A s \in Sessions : blob[s] = Nil
    /\ run.op = "replan" /\ run.pc = "enter" => run.mem.stop = Nil
    /\ run.op = "replan" /\ run.pc \in {"create", "save_plan", "save_state"} =>
          \A s \in Sessions : ~ Live(s)
    /\ run.pc \in {"save_plan", "save_state"} =>
          blob[run.kidSid] = Nil /\ srow[run.kidSid] # "absent"
    /\ run.op = "replan" /\ run.pc = "link" => run.mem.stop # Nil

\* A row that was never marked running was never executed, and a row about to
\* be executed is marked running and was never executed before.
RowsFence ==
    /\ \A s \in Sessions, st \in Stage :
          /\ calls[s][st] \in {0, 1}
          /\ rows[s][st] \in {"absent", "pending"} => calls[s][st] = 0
    /\ AboutToInvoke =>
          /\ calls[run.sid][run.stage] = 0
          /\ IF run.pc = "checkpoint" THEN run.to = "running"
             ELSE rows[run.sid][run.stage] = "running"

\* A reservation is outstanding: saved, and not yet handed to the executor.
Reserved ==
    /\ run.op = "advance"
    /\ \/ run.pc = "recover"
       \/ AboutToInvoke
       \/ run.pc = "loop" /\ run.mem.pending # Nil

Outstanding == IF Reserved THEN 1 ELSE 0
OutstandingSteps == IF Reserved THEN Steps[run.mem.wf][run.stage] ELSE 0

\* All sessions of a mission are of one kind, and a mission without a document
\* has executed nothing.
OneKind ==
    /\ \A s, t \in Sessions : blob[s] # Nil /\ blob[t] # Nil => blob[s].kind = blob[t].kind
    /\ run.pc \in Creating => \A s \in Sessions : blob[s] # Nil => blob[s].kind = run.kid.kind
    /\ (\A s \in Sessions : blob[s] = Nil) => spent = 0 /\ spentSteps = 0

\* The live session's ledger covers everything the mission has executed, plus
\* the outstanding reservation, and is within the limits; so does the document
\* of a session that is about to become the live one.
Ledger ==
    /\ \A s \in Sessions : Live(s) /\ blob[s].kind = "budgeted" =>
          /\ spent + Outstanding <= blob[s].used /\ blob[s].used <= MaxDispatches
          /\ spentSteps + OutstandingSteps <= blob[s].reserved /\ blob[s].reserved <= MaxReserved
    /\ run.pc \in {"create", "save_plan", "save_state"} /\ run.kid.kind = "budgeted" =>
          /\ spent <= run.kid.used /\ run.kid.used <= MaxDispatches
          /\ spentSteps <= run.kid.reserved /\ run.kid.reserved <= MaxReserved

\* What a call that will hand a stage to the executor knows: compatibility
\* calls are never budgeted, and a delegation was decided on a document that
\* the budget covers and that is not stopped.
Handoffs ==
    /\ run.op = "run" => run.mem.kind # "budgeted" /\ run.mem.stop = Nil
    /\ run.op = "advance" /\ run.pc = "enter" /\ run.dec.outcome = "delegate" =>
          /\ run.mem.stop = Nil /\ run.stage = run.dec.stage
          /\ BudgetCovers(run.mem, Steps[run.mem.wf][run.stage])
    /\ Reserved => /\ run.mem.stop = Nil /\ run.mem.pending # Nil
                   /\ run.stage = run.dec.stage /\ run.stage \in Stage

\* A run_core call returns to the loop only with the whole plan succeeded, so
\* it cannot pick a second stage.
OneStagePerCall ==
    run.op = "advance" =>
        /\ run.pc = "loop" /\ run.mem.pending = Nil => AllSucceeded(run.mem.wf, run.nodes)
        /\ Checkpointing /\ run.next = "loop" =>
              /\ run.mem.pending = Nil /\ run.to = "success"
              /\ \A o \in StagesOf[run.mem.wf] \ {run.stage} : run.nodes[o] = "success"
              /\ run.pc = "save_checkpoint" => run.nodes[run.stage] = "success"

\* The inductive invariant of the runner: the fences and the ledger hold
\* between any two durable writes of any call, so also after any crash.
RunnerInv ==
    /\ TypeOK /\ RunShape /\ InSync
    /\ OneLive /\ RowsFence
    /\ OneKind /\ Ledger /\ BudgetHonoured /\ Handoffs
    /\ OneStagePerCall

-----------------------------------------------------------------------------
(* What the completion, the rows and the handoffs of a session rest on.      *)

\* The proof of a completed Core mission, as CompletionIsProven demands it.
Proven(b, n, called) ==
    /\ AllSucceeded(b.wf, n) /\ b.pending = Nil
    /\ \A st \in Agents(b.wf) : called[st] = 1 /\ b.active[st] = "verified"

\* A session without a document has not begun; an agent stage that succeeded
\* was executed; only stages of the workflow run; a closed session has
\* finished, a complete one is proven.
SessionFits(b, n, called, row) ==
    IF b = Nil
    THEN row # "closed" /\ \A st \in Stage : n[st] \in {"absent", "pending"}
    ELSE /\ \A st \in Stage \ Human[b.wf] : n[st] = "success" => called[st] = 1
         /\ \A st \in Stage \ StagesOf[b.wf] : n[st] # "running"
         /\ row = "closed" => AllSucceeded(b.wf, n)
         /\ b.kind # "plain" /\ b.status = "complete" => Proven(b, n, called)

\* The marker a call has may be one it has dropped and not yet saved; the
\* status is the store's, except between the two writes of a completion.
MemoryFits(c, b, called) ==
    /\ c.op # "run" => c.mem.kind # "plain"
    /\ c.op = "run" => c.mem.pending = Nil /\ b.pending = Nil
    /\ c.mem.active = b.active /\ c.mem.pending \in {b.pending, Nil}
    /\ c.pc # "close" => c.mem.status = b.status
    /\ c.mem.kind # "plain" /\ c.mem.status = "complete" => Proven(c.mem, c.nodes, called)

\* A command has just been validated: its decision is the one for its state.
EntryFits(c) ==
    c.pc = "enter" /\ c.op # "decide" =>
        /\ c.dec = Decide(c.sid, c.mem, c.nodes) /\ c.stage = c.dec.stage
        /\ c.op = "approve" => c.dec.outcome = "await_approval"
        /\ c.op = "replan" => c.mem.pending = Nil /\ \A st \in Stage : c.nodes[st] # "running"

AtWork == {"checkpoint", "save_checkpoint", "invoke", "executing"}
Marking(c) == c.pc \in {"checkpoint", "save_checkpoint"}
Invoking(c) == c.pc = "invoke" \/ (Marking(c) /\ c.next = "invoke")

\* The stage at work is one of the workflow, its row is not final, and it
\* succeeds as a gate in an approval or as an agent stage after its executor.
StageFits(c, called) ==
    /\ c.pc \in AtWork => c.stage \in StagesOf[c.mem.wf]
    /\ c.pc = "approve" \/ (Marking(c) /\ c.next = "approve") => c.op \in {"approve", "run"}
    /\ Marking(c) =>
          /\ c.next = "settle" => c.mark # "complete"
          /\ c.to = "running" <=> c.next = "invoke"
          /\ c.to = "success" => IF c.stage \in Human[c.mem.wf]
                                 THEN c.op = "approve" \/ (c.op = "run" /\ c.mark = "investigating")
                                 ELSE called[c.stage] = 1
    /\ c.pc = "checkpoint" => c.nodes[c.stage] \in {"pending", "needs_review", "running"}
    /\ Invoking(c) => c.stage \notin Human[c.mem.wf] /\ DepsDone(c.mem.wf, c.nodes, c.stage)
    /\ c.pc = "executing" =>
          c.stage \notin Human[c.mem.wf] /\ called[c.stage] = 1 /\ c.nodes[c.stage] = "running"

\* Past recovery only the stage at work may be marked running.
RowsFit(c) ==
    c.pc \notin {"enter", "recover"} =>
        \A st \in Stage : c.nodes[st] = "running" =>
            c.stage = st /\ c.pc \in AtWork /\ (c.pc = "save_checkpoint" => c.to = "running")

\* Reserved, of the call c.
Reserving(c) ==
    /\ c.op = "advance"
    /\ c.pc = "recover" \/ Invoking(c) \/ (c.pc = "loop" /\ c.mem.pending # Nil)

\* A reservation is for the stage at work, on proven results; no call goes on
\* to a stage of a failed Core mission.
HandoffFits(c) ==
    /\ Reserving(c) => c.mem.pending = c.stage /\ ~ Unproven(c.mem, c.nodes)
    /\ /\ c.op \in {"advance", "run"} /\ c.pc \in {"recover", "approve", "loop"} \cup AtWork
       /\ c.mem.kind # "plain"
       => c.mem.status # "failed"

\* A call about to end knows what it is about to write.
EndFits(c, called) ==
    /\ c.pc = "close" => AllSucceeded(c.mem.wf, c.nodes)
    /\ c.pc = "close_first" => c.mark = "complete"
    /\ c.pc \in {"close_first", "settle"} /\ c.mark = "complete" =>
          /\ AllSucceeded(c.mem.wf, c.nodes)
          /\ c.mem.kind # "plain" => Proven(c.mem, c.nodes, called)

CallFits(c, b, called) ==
    /\ MemoryFits(c, b, called) /\ EntryFits(c) /\ StageFits(c, called)
    /\ RowsFit(c) /\ HandoffFits(c) /\ EndFits(c, called)

\* Nothing of the session is unresolved.
Quiet(b, n) == (b # Nil => b.pending = Nil) /\ \A st \in Stage : n[st] # "running"

\* Beside a live session every other is quiet, and so are all while the next
\* one is being created.
OthersQuiet ==
    /\ \A s, t \in Sessions : Live(s) /\ t # s => Quiet(blob[t], rows[t])
    /\ run.op = "replan" /\ run.pc \in {"create", "save_plan", "save_state"} =>
          \A t \in Sessions : Quiet(blob[t], rows[t])

\* Completion, progress and handoffs are honest between any two writes.
WorkInv ==
    /\ \A s \in Sessions : SessionFits(blob[s], rows[s], calls[s], srow[s])
    /\ Started => CallFits(run, blob[run.sid], calls[run.sid])
    /\ run.pc \in Creating => run.kid.status = "investigating"
    /\ OthersQuiet

-----------------------------------------------------------------------------
(* What the ledger of a budgeted mission rests on. *)

\* No document was charged more than this one.
Tops(b) ==
    \A t \in Sessions : blob[t] # Nil => blob[t].used <= b.used /\ blob[t].reserved <= b.reserved

\* The live session, or the one that is about to be, is charged for the whole
\* mission; a replacement starts where its parent stands.
ChargeInv ==
    /\ \A s \in Sessions : blob[s] # Nil => blob[s].kind = "budgeted"
    /\ run.pc \in Creating => run.kid.kind = "budgeted"
    /\ \A s \in Sessions : Live(s) => Tops(blob[s])
    /\ run.pc \in Creating \ {"link"} =>
          /\ Tops(run.kid)
          /\ run.op = "start" => run.kid.used = 0 /\ run.kid.reserved = 0
          /\ run.op = "replan" => run.kid.used = run.mem.used /\ run.kid.reserved = run.mem.reserved

-----------------------------------------------------------------------------
(* Who descends from whom, for one runner and for each of several on one     *)
(* store: nothing here says that a call's memory is the stored document.     *)

Making(c) == c.pc \in {"save_plan", "save_state"}

\* Sessions are created in order and never lost, a parent before its child,
\* and the mission has one root.
StoreKin ==
    /\ \A s \in Sessions : srow[s] = "absent" => blob[s] = Nil
    /\ \A s, t \in Sessions : s < t /\ srow[t] # "absent" => srow[s] # "absent"
    /\ \A s \in Sessions : blob[s] # Nil /\ blob[s].parent # Nil => blob[s].parent < s
    /\ \A s, t \in Sessions :
          /\ blob[s] # Nil /\ blob[s].parent = Nil
          /\ blob[t] # Nil /\ blob[t].parent = Nil
          => s = t

\* A call works on a saved session under its own parent, and the session it
\* creates is later than its parent and nobody's before it is saved.
CallKin ==
    /\ Started => blob[run.sid] # Nil /\ run.mem.parent = blob[run.sid].parent
    /\ run.op = "start" => run.kid.parent = Nil /\ \A s \in Sessions : blob[s] = Nil
    /\ run.op = "replan" /\ run.pc \in Creating \ {"link"} => run.kid.parent = run.sid
    /\ Making(run) =>
          /\ blob[run.kidSid] = Nil /\ srow[run.kidSid] # "absent"
          /\ run.op = "replan" => run.sid < run.kidSid

KinInv == TypeOK /\ RunShape /\ StoreKin /\ CallKin

\* What a step shows of itself to the other calls on the store: a document
\* stays and keeps its parent, the only one that appears is the child being
\* created, and its session was taken from the absent ones.
KinStep ==
    /\ \A s \in Sessions :
          /\ blob[s] # Nil => blob'[s] # Nil /\ blob'[s].parent = blob[s].parent
          /\ blob[s] = Nil /\ blob'[s] # Nil => run.pc = "save_state" /\ s = run.kidSid
          /\ srow[s] # "absent" => srow'[s] # "absent"
    /\ Making(run') => \/ Making(run) /\ run'.kidSid = run.kidSid
                       \/ srow[run'.kidSid] = "absent"
    /\ run'.op = "start" /\ run.op # "start" => run.pc = "idle"

-----------------------------------------------------------------------------
(* What the links of a lineage rest on. *)

\* A replacement that its parent names is saved, names its parent and the
\* decision that replaced it, and starts from what the parent was charged.
NamedChild(p, s) ==
    /\ blob[s] # Nil /\ blob[s].parent = p /\ blob[s].via = blob[p].replan
    /\ blob[p].used <= blob[s].used /\ blob[p].reserved <= blob[s].reserved

\* A session that was replaced was stopped by the same decision; who has a
\* child was replaced, and the child can be loaded.
LinksFit ==
    \A p \in Sessions : blob[p] # Nil =>
        /\ StopMatchesTransition(blob[p])
        /\ blob[p].child # Nil =>
              blob[p].replan # Nil /\ NamedChild(p, blob[p].child) /\ Loadable(blob[p].child)

\* A call works on a session that can be loaded, and keeps its links; a stop
\* is entered only on a session without one, and a replacement ends by naming
\* the child it has built for the decision that it saved.
CallLinks ==
    Started =>
        LET b == blob[run.sid] IN
        /\ Loadable(run.sid)
        /\ run.mem.via = b.via /\ run.mem.replan = b.replan /\ run.mem.child = b.child
        /\ run.op = "stop" /\ run.pc = "enter" => run.mem.stop = Nil
        /\ run.op = "replan" =>
              /\ LineageDepth(run.sid) < MaxLineage
              /\ run.mem.child = Nil
              /\ run.pc \in Creating => run.mem.replan = run.dec
        /\ run.op = "replan" /\ run.pc \in Creating \ {"link"} =>
              /\ run.kid.via = run.dec /\ run.kid.child = Nil /\ run.kid.replan = Nil
              /\ run.kid.used = run.mem.used /\ run.kid.reserved = run.mem.reserved
        /\ run.op = "replan" /\ run.pc = "link" => NamedChild(run.sid, run.kidSid)

LinkInv ==
    /\ LinksFit /\ CallLinks
    /\ run.op = "start" => run.kid.child = Nil /\ run.kid.replan = Nil
=============================================================================
