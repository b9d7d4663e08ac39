---------------------------- MODULE RunnerProofs ----------------------------
(***************************************************************************)
(* Machine-checked proofs about WorkflowRunner, for every number of        *)
(* sessions, every workflow and every budget.  RunnerInv is inductive, and *)
(* implies NoReplay, BudgetHonoured and the single live session; beside    *)
(* it WorkInv is inductive, and with it completion is honest, every step   *)
(* of a session is a legal one and every dispatch is unambiguous; beside   *)
(* both ChargeInv is, and with it a budgeted mission implements            *)
(* MissionLedger.  KinInv is inductive by itself (RunnerSteps), and beside *)
(* it and RunnerInv so is LinkInv, which keeps every session loadable.     *)
(***************************************************************************)
EXTENDS RunnerLedger, RunnerSteps

-----------------------------------------------------------------------------
(* Calls that return. *)

\* What the ledger's inequalities are about are natural numbers.
LEMMA LedgerNumbers ==
    ASSUME RunnerInv
    PROVE  /\ Outstanding \in Nat /\ OutstandingSteps \in Nat
           /\ spent \in Nat /\ spentSteps \in Nat /\ MaxDispatches \in Nat /\ MaxReserved \in Nat
           /\ \A s \in Sessions : blob[s] # Nil =>
                 blob[s] \in Blobs /\ blob[s].used \in Nat /\ blob[s].reserved \in Nat
<1>1. \A s \in Sessions : blob[s] # Nil => blob[s] \in Blobs
  BY DEF RunnerInv, TypeOK
<1>2. \A b \in Blobs : b.used \in Nat /\ b.reserved \in Nat /\ b.wf \in Workflows
  BY DEF Blobs
<1>3. Reserved => Steps[run.mem.wf][run.stage] \in Nat
  <2> SUFFICES ASSUME Reserved PROVE Steps[run.mem.wf][run.stage] \in Nat
    OBVIOUS
  <2>1. run.stage \in Stage
    BY DEF RunnerInv, Handoffs
  <2>2. run.mem \in Blobs
    BY DEF RunnerInv, RunShape, Started, Reserved, AboutToInvoke, Checkpointing
  <2>3. Steps[run.mem.wf][run.stage] \in 1..32
    BY <1>2, <2>1, <2>2, WorkflowAssumption
  <2> QED
    BY <2>3
<1> QED
  BY <1>1, <1>2, <1>3, BoundsAssumption DEF Outstanding, OutstandingSteps, RunnerInv, TypeOK

\* s's document may have been rewritten, keeping its kind and its ledger; it
\* may have been stopped by that, but not released.
Kept(s) ==
    /\ blob'[s] = Nil <=> blob[s] = Nil
    /\ blob[s] # Nil =>
          /\ blob'[s].kind = blob[s].kind
          /\ blob'[s].used = blob[s].used /\ blob'[s].reserved = blob[s].reserved
          /\ blob'[s].stop = Nil => blob[s].stop = Nil

\* A call that returns after a save that keeps every ledger leaves the
\* invariant intact: this is what a crash relies on, too.
LEMMA Returns ==
    ASSUME RunnerInv, TypeOK', run' = IdleRun, UNCHANGED <<rows, history>>,
           \A s \in Sessions : srow'[s] = "absent" => srow[s] = "absent",
           \A s \in Sessions : Kept(s)
    PROVE  RunnerInv'
<1> USE DEF RunnerInv, history
<1>1. /\ run'.pc = "idle" /\ run'.op = Nil
      /\ Nil # "start" /\ Nil # "replan" /\ Nil # "run" /\ Nil # "advance"
  BY NilAssumption DEF IdleRun, Ops
<1>2. ~ Started' /\ ~ Checkpointing' /\ ~ AboutToInvoke' /\ ~ Reserved' /\ run'.pc \notin Creating
  BY <1>1 DEF Started, Checkpointing, AboutToInvoke, Reserved, Creating
<1>3. RunShape'
  BY <1>1, <1>2, NilAssumption DEF RunShape, IdleRun, Creating, Ops
<1>4. InSync'
  BY <1>2 DEF InSync
<1>5. OneLive'
  BY <1>1, <1>2 DEF OneLive, Live, Kept
<1>6. RowsFence'
  BY <1>2 DEF RowsFence
<1>7. OneKind'
  BY <1>2 DEF OneKind, Kept
<1>8. Ledger'
  <2> SUFFICES ASSUME NEW s \in Sessions, Live(s)', blob'[s].kind = "budgeted"
               PROVE  /\ spent + 0 <= blob'[s].used /\ blob'[s].used <= MaxDispatches
                      /\ spentSteps + 0 <= blob'[s].reserved /\ blob'[s].reserved <= MaxReserved
    BY <1>1, <1>2 DEF Ledger, Outstanding, OutstandingSteps, Creating
  <2>1. Live(s) /\ blob[s].kind = "budgeted" /\ blob[s].used = blob'[s].used
        /\ blob[s].reserved = blob'[s].reserved
    BY DEF Live, Kept
  <2>2. blob[s].used \in Nat /\ blob[s].reserved \in Nat
    BY <2>1, LedgerNumbers DEF Live
  <2>3. /\ spent + Outstanding <= blob[s].used /\ blob[s].used <= MaxDispatches
        /\ spentSteps + OutstandingSteps <= blob[s].reserved /\ blob[s].reserved <= MaxReserved
    BY <2>1 DEF Ledger
  <2> QED
    BY <2>1, <2>2, <2>3, LedgerNumbers
<1>9. BudgetHonoured'
  BY DEF BudgetHonoured, Kept
<1>10. Handoffs'
  BY <1>1, <1>2 DEF Handoffs
<1>11. OneStagePerCall'
  BY <1>1 DEF OneStagePerCall
<1> QED
  BY <1>3, <1>4, <1>5, <1>6, <1>7, <1>8, <1>9, <1>10, <1>11

\* A loaded call that saves a document with the ledger it loaded keeps every
\* session's ledger.
LEMMA SaveKeeps ==
    ASSUME RunnerInv, Started, NEW b \in Blobs, Save(b),
           b.kind = run.mem.kind, b.used = run.mem.used, b.reserved = run.mem.reserved,
           b.stop = Nil => run.mem.stop = Nil
    PROVE  /\ \A s \in Sessions : Kept(s)
           /\ blob' \in [Sessions -> Blobs \cup {Nil}]
           /\ blob' = [blob EXCEPT ![run.sid] = b]
<1>1. blob \in [Sessions -> Blobs \cup {Nil}] /\ run.sid \in Sessions /\ blob[run.sid] # Nil
  BY DEF RunnerInv, TypeOK, RunShape, InSync
<1>2. b # Nil
  BY NilAssumption
<1>3. blob' = [blob EXCEPT ![run.sid] = b]
  BY DEF Save
<1>4. blob' \in [Sessions -> Blobs \cup {Nil}]
  BY <1>1, <1>3
<1>5. \A s \in Sessions : Kept(s)
  BY <1>1, <1>2, <1>3 DEF Kept, RunnerInv, InSync
<1> QED
  BY <1>3, <1>4, <1>5

\* The same when the fields kept are given as one tuple.
LEMMA SaveCoreKeeps ==
    ASSUME RunnerInv, Started, NEW b \in Blobs, Save(b), Core(b) = Core(run.mem)
    PROVE  /\ \A s \in Sessions : Kept(s)
           /\ blob' \in [Sessions -> Blobs \cup {Nil}]
           /\ blob' = [blob EXCEPT ![run.sid] = b]
<1>1. b.kind = run.mem.kind /\ b.used = run.mem.used /\ b.reserved = run.mem.reserved
      /\ b.stop = run.mem.stop
  BY DEF Core
<1> QED
  BY <1>1, SaveKeeps

\* A crash, or any return of a call without a last write.
LEMMA ReturnsUnchanged ==
    ASSUME RunnerInv, run' = IdleRun, UNCHANGED <<store, held, history>>
    PROVE  RunnerInv'
<1>1. TypeOK'
  BY IdleRunType DEF RunnerInv, TypeOK, store, history
<1>2. \A s \in Sessions : Kept(s)
  BY DEF Kept, store
<1> QED
  BY <1>1, <1>2, Returns DEF store

\* A return after a last save that keeps the ledger.
LEMMA ReturnsSaved ==
    ASSUME RunnerInv, run' = IdleRun, UNCHANGED <<rows, srow, history>>,
           held' \in Decisions \cup {Nil},
           blob' \in [Sessions -> Blobs \cup {Nil}], \A s \in Sessions : Kept(s)
    PROVE  RunnerInv'
<1>1. TypeOK'
  BY IdleRunType DEF RunnerInv, TypeOK, history
<1> QED
  BY <1>1, Returns

\* decide_core writes the decision and its flag, and no ledger.
LEMMA DecideCoreKeeps == ASSUME RunnerInv, DecideCore PROVE RunnerInv'
<1> DEFINE d == Decide(run.sid, run.mem, run.nodes)
           b == [[run.mem EXCEPT !.decision = d] EXCEPT !.consumed = FALSE]
<1>1. Started /\ run.sid \in Sessions /\ run.mem \in Blobs /\ run.nodes \in [Stage -> NodeStatuses]
  BY DEF DecideCore, At, RunnerInv, RunShape, Started
<1>2. d \in Decisions
  BY <1>1, DecideType
<1>3. b \in Blobs
  BY <1>1, <1>2, FieldWrites
<1>4. Core(b) = Core(run.mem)
  BY <1>1 DEF Core, Blobs
<1>5. Save(b)
  BY DEF DecideCore
<1>6. held' \in Decisions \cup {Nil}
  BY <1>2 DEF DecideCore, RunnerInv, TypeOK
<1> QED
  BY <1>1, <1>3, <1>4, <1>5, <1>6, SaveCoreKeeps, ReturnsSaved DEF DecideCore

\* review_core settles the status and keeps the ledger.
LEMMA ReviewCoreKeeps == ASSUME RunnerInv, ReviewCore PROVE RunnerInv'
<1> DEFINE m == IF run.dec.outcome = "failed" THEN "failed" ELSE "blocked"
           b == Consume(Mark(run.mem, m))
<1>1. Started /\ run.mem \in Blobs
  BY DEF ReviewCore, At, RunnerInv, RunShape, Started
<1>2. m \in TaskStatuses
  BY Names
<1>3. b \in Blobs /\ Core(b) = Core(run.mem)
  BY <1>1, <1>2, Updates
<1>4. Save(b)
  BY DEF ReviewCore
<1>5. held' \in Decisions \cup {Nil}
  BY DEF ReviewCore, RunnerInv, TypeOK
<1> QED
  BY <1>1, <1>3, <1>4, <1>5, SaveCoreKeeps, ReturnsSaved DEF ReviewCore

\* stop_core only ever adds a stop.
LEMMA StopCoreKeeps == ASSUME RunnerInv, StopCore PROVE RunnerInv'
<1> DEFINE b == StoppedBlob(run.mem, run.dec)
<1>1. Started /\ run.mem \in Blobs /\ run.dec \in Decisions
  BY DEF StopCore, At, RunnerInv, RunShape, Started
<1>2. /\ b \in Blobs /\ b.stop # Nil
      /\ b.kind = run.mem.kind /\ b.used = run.mem.used /\ b.reserved = run.mem.reserved
  BY <1>1, Stops, NilAssumption DEF Core
<1>3. Save(b)
  BY DEF StopCore
<1>4. held' \in Decisions \cup {Nil}
  BY DEF StopCore, RunnerInv, TypeOK
<1> QED
  BY <1>1, <1>2, <1>3, <1>4, SaveKeeps, ReturnsSaved DEF StopCore

\* The parent's last save names the child and changes no ledger.
LEMMA LinkReplacementKeeps == ASSUME RunnerInv, LinkReplacement PROVE RunnerInv'
<1> DEFINE c == [run.mem EXCEPT !.child = run.kidSid]
           b == Touch(c)
<1>1. Started /\ run.mem \in Blobs /\ run.kidSid \in Sessions
  BY DEF LinkReplacement, RunnerInv, RunShape, Started, Creating
<1>2. c \in Blobs
  BY <1>1, FieldWrites
<1>3. Core(c) = Core(run.mem)
  BY <1>1 DEF Core, Blobs
<1>4. b \in Blobs /\ Core(b) = Core(run.mem)
  BY <1>2, <1>3, Updates
<1>5. Save(b)
  BY DEF LinkReplacement
<1>6. held' \in Decisions \cup {Nil}
  BY DEF LinkReplacement, RunnerInv, TypeOK
<1> QED
  BY <1>1, <1>4, <1>5, <1>6, SaveCoreKeeps, ReturnsSaved DEF LinkReplacement

-----------------------------------------------------------------------------
(* Calls that go on. *)

\* Two documents agree on what the fences and the ledger are about.
SameLedger(a, b) ==
    /\ a.kind = b.kind /\ a.wf = b.wf /\ a.stop = b.stop
    /\ a.used = b.used /\ a.reserved = b.reserved

\* The frame of a step inside a loaded call: it stays in its session and past
\* its entry, works on documents with the ledger it loaded, and executes nothing.
Inside ==
    /\ Started /\ run.op # "replan"
    /\ run'.op = run.op /\ run'.sid = run.sid /\ run'.dec = run.dec
    /\ run' \in Runs /\ run'.pc \notin Creating \cup {"idle", "enter"}
    /\ run'.mem \in Blobs /\ SameLedger(run'.mem, run.mem)
    /\ run'.nodes \in [Stage -> NodeStatuses]
    /\ UNCHANGED <<held, history>>

\* Such a step keeps the invariant if what it writes keeps every ledger and
\* un-executes no row, and if it reserves nothing and starts nothing new.
LEMMA Continues ==
    ASSUME RunnerInv, Inside, RunShape', OneStagePerCall',
           srow' \in [Sessions -> {"absent", "open", "closed"}],
           \A s \in Sessions : srow'[s] = "absent" => srow[s] = "absent",
           blob' \in [Sessions -> Blobs \cup {Nil}],
           \A s \in Sessions : Kept(s),
           SameLedger(blob'[run.sid], run.mem),
           rows' \in [Sessions -> [Stage -> NodeStatuses]],
           run'.nodes = rows'[run.sid],
           \A s \in Sessions, st \in Stage :
              rows'[s][st] \in {"absent", "pending"} => rows[s][st] \in {"absent", "pending"},
           AboutToInvoke' =>
              /\ calls[run.sid][run'.stage] = 0
              /\ IF run'.pc = "checkpoint" THEN run'.to = "running"
                 ELSE rows'[run.sid][run'.stage] = "running",
           Reserved' => Reserved /\ run'.stage = run.stage /\ run'.mem.pending # Nil
    PROVE  RunnerInv'
<1> USE DEF RunnerInv, history
<1>1. TypeOK'
  BY DEF TypeOK, Inside
<1>2. /\ run'.op # "start" /\ run'.op # "replan" /\ Started' /\ run.sid \in Sessions
      /\ blob[run.sid] # Nil /\ blob'[run.sid] # Nil
  BY DEF Inside, Started, RunShape, InSync, Kept
<1>3. InSync'
  BY <1>2 DEF InSync, Inside, SameLedger
<1>4. OneLive'
  BY <1>2 DEF OneLive, Live, Kept, Inside, Creating
<1>5. RowsFence'
  BY DEF RowsFence, Inside
<1>6. OneKind'
  BY DEF OneKind, Kept, Inside
<1>7. Ledger'
  <2>0. /\ Outstanding' <= Outstanding /\ OutstandingSteps' <= OutstandingSteps
        /\ Outstanding' \in Nat /\ OutstandingSteps' \in Nat
    BY LedgerNumbers DEF Outstanding, OutstandingSteps, Inside, SameLedger
  <2> SUFFICES ASSUME NEW s \in Sessions, Live(s)', blob'[s].kind = "budgeted"
               PROVE  /\ spent + Outstanding' <= blob'[s].used
                      /\ blob'[s].used <= MaxDispatches
                      /\ spentSteps + OutstandingSteps' <= blob'[s].reserved
                      /\ blob'[s].reserved <= MaxReserved
    BY DEF Ledger, Inside, Creating
  <2>1. Live(s) /\ blob[s].kind = "budgeted" /\ blob[s].used = blob'[s].used
        /\ blob[s].reserved = blob'[s].reserved
    BY DEF Live, Kept
  <2>2. blob[s].used \in Nat /\ blob[s].reserved \in Nat
    BY <2>1, LedgerNumbers DEF Live
  <2>3. /\ spent + Outstanding <= blob[s].used /\ blob[s].used <= MaxDispatches
        /\ spentSteps + OutstandingSteps <= blob[s].reserved /\ blob[s].reserved <= MaxReserved
    BY <2>1 DEF Ledger
  <2> QED
    BY <2>0, <2>1, <2>2, <2>3, LedgerNumbers
<1>8. BudgetHonoured'
  BY DEF BudgetHonoured, Kept, Inside
<1>9. Handoffs'
  BY DEF Handoffs, Inside, SameLedger
<1> QED
  BY <1>1, <1>3, <1>4, <1>5, <1>6, <1>7, <1>8, <1>9

\* The frame when nothing but the call's memory changes.
LEMMA ContinuesUnchanged ==
    ASSUME RunnerInv, Inside, RunShape', OneStagePerCall', UNCHANGED store,
           run'.nodes = run.nodes,
           AboutToInvoke' =>
              /\ calls[run.sid][run'.stage] = 0
              /\ IF run'.pc = "checkpoint" THEN run'.to = "running"
                 ELSE rows[run.sid][run'.stage] = "running",
           Reserved' => Reserved /\ run'.stage = run.stage /\ run'.mem.pending # Nil
    PROVE  RunnerInv'
<1>1. /\ srow' \in [Sessions -> {"absent", "open", "closed"}]
      /\ blob' \in [Sessions -> Blobs \cup {Nil}]
      /\ rows' \in [Sessions -> [Stage -> NodeStatuses]]
  BY DEF RunnerInv, TypeOK, store
<1>2. \A s \in Sessions : Kept(s)
  BY DEF Kept, store
<1>3. /\ \A s \in Sessions : srow'[s] = "absent" => srow[s] = "absent"
      /\ \A s \in Sessions, st \in Stage :
            rows'[s][st] \in {"absent", "pending"} => rows[s][st] \in {"absent", "pending"}
      /\ rows' = rows
  BY DEF store
<1>4. SameLedger(blob'[run.sid], run.mem) /\ run'.nodes = rows'[run.sid]
  BY DEF Inside, RunnerInv, InSync, SameLedger, store
<1> QED
  BY <1>1, <1>2, <1>3, <1>4, Continues

\* The frame when the call saves its session's document and nothing else.
LEMMA ContinuesSaved ==
    ASSUME RunnerInv, Inside, RunShape', OneStagePerCall', UNCHANGED <<rows, srow>>,
           NEW b \in Blobs, Save(b), SameLedger(b, run.mem),
           run'.nodes = run.nodes,
           AboutToInvoke' =>
              /\ calls[run.sid][run'.stage] = 0
              /\ IF run'.pc = "checkpoint" THEN run'.to = "running"
                 ELSE rows[run.sid][run'.stage] = "running",
           Reserved' => Reserved /\ run'.stage = run.stage /\ run'.mem.pending # Nil
    PROVE  RunnerInv'
<1>1. /\ \A s \in Sessions : Kept(s)
      /\ blob' \in [Sessions -> Blobs \cup {Nil}]
      /\ blob' = [blob EXCEPT ![run.sid] = b]
  BY SaveKeeps DEF SameLedger, Inside
<1>2. /\ srow' \in [Sessions -> {"absent", "open", "closed"}]
      /\ rows' \in [Sessions -> [Stage -> NodeStatuses]]
      /\ run.sid \in Sessions /\ blob \in [Sessions -> Blobs \cup {Nil}]
  BY DEF RunnerInv, TypeOK, RunShape, Inside
<1>3. SameLedger(blob'[run.sid], run.mem)
  BY <1>1, <1>2
<1>4. run'.nodes = rows'[run.sid]
  BY DEF Inside, RunnerInv, InSync
<1> QED
  BY <1>1, <1>2, <1>3, <1>4, Continues

\* A decision that delegates nothing saves a status and returns or closes.
LEMMA AdvanceSettleKeeps == ASSUME RunnerInv, AdvanceSettle PROVE RunnerInv'
<1> DEFINE m == IF run.dec.outcome \in {"complete", "failed"} THEN run.dec.outcome ELSE "blocked"
           b == IF run.dec.outcome = "stopped" /\ run.mem.status \in {"complete", "failed"}
                THEN Touch(run.mem) ELSE Mark(run.mem, m)
<1>1. /\ Started /\ run.mem \in Blobs /\ run \in Runs /\ run.op = "advance"
      /\ run.nodes \in [Stage -> NodeStatuses]
  BY DEF AdvanceSettle, At, RunnerInv, RunShape, Started, TypeOK
<1>2. m \in TaskStatuses
  BY Names
<1>3. b \in Blobs /\ Core(b) = Core(run.mem)
  BY <1>1, <1>2, Updates
<1>4. Consume(b) \in Blobs /\ Core(Consume(b)) = Core(run.mem)
  BY <1>3, Updates
<1>5. Save(Consume(b)) /\ held' \in Decisions \cup {Nil} /\ UNCHANGED <<rows, srow, held, history>>
  BY DEF AdvanceSettle, RunnerInv, TypeOK
<1>6. CASE b.status # "complete"
  <2>1. run' = IdleRun
    BY <1>6 DEF AdvanceSettle
  <2> QED
    BY <1>1, <1>4, <1>5, <2>1, SaveCoreKeeps, ReturnsSaved
<1>7. CASE b.status = "complete"
  <2>1. run' = [run EXCEPT !.pc = "close"]
    BY <1>7 DEF AdvanceSettle
  <2>2. /\ run' \in Runs /\ run'.pc = "close" /\ run'.op = "advance" /\ run'.sid = run.sid
        /\ run'.mem = run.mem /\ run'.nodes = run.nodes /\ run'.dec = run.dec
    BY <1>1, <2>1, Names DEF Runs
  <2>3. Inside
    BY <1>1, <1>5, <2>2 DEF Inside, SameLedger, Creating
  <2>4. RunShape'
    BY <1>1, <2>2 DEF RunnerInv, RunShape, Started, Creating, Checkpointing
  <2>5. OneStagePerCall'
    BY <2>2 DEF OneStagePerCall, Checkpointing
  <2>6. ~ AboutToInvoke' /\ ~ Reserved'
    BY <2>2 DEF AboutToInvoke, Reserved, Checkpointing
  <2>7. SameLedger(Consume(b), run.mem)
    BY <1>4 DEF Core, SameLedger
  <2> QED
    BY <1>4, <1>5, <2>2, <2>3, <2>4, <2>5, <2>6, <2>7, ContinuesSaved
<1> QED
  BY <1>6, <1>7

\* Putting a human gate in review reserves nothing.
LEMMA AdvanceAwaitKeeps == ASSUME RunnerInv, AdvanceAwait PROVE RunnerInv'
<1>1. /\ Started /\ run.mem \in Blobs /\ run \in Runs /\ run.op = "advance"
      /\ run.nodes \in [Stage -> NodeStatuses] /\ run.stage \in Stage
  BY DEF AdvanceAwait, At, RunnerInv, RunShape, Started, TypeOK
<1>2. Consume(run.mem) \in Blobs /\ SameLedger(Consume(run.mem), run.mem)
  BY <1>1, Updates DEF Core, SameLedger
<1>3. /\ run' = [run EXCEPT !.pc = "checkpoint", !.to = "needs_review", !.next = "settle",
                            !.mark = "blocked", !.mem = Consume(run.mem)]
      /\ UNCHANGED <<store, held, history>>
  BY DEF AdvanceAwait
<1>4. run' \in Runs
  BY <1>1, <1>2, <1>3, Names DEF Runs
<1>5. /\ run'.pc = "checkpoint" /\ run'.op = "advance" /\ run'.sid = run.sid
      /\ run'.mem = Consume(run.mem) /\ run'.nodes = run.nodes /\ run'.dec = run.dec
      /\ run'.stage = run.stage /\ run'.to = "needs_review" /\ run'.next = "settle"
      /\ run'.mark = "blocked"
  BY <1>1, <1>3 DEF Runs
<1>6. Inside
  BY <1>1, <1>2, <1>3, <1>4, <1>5 DEF Inside, Creating
<1>7. RunShape'
  BY <1>1, <1>2, <1>5, Names DEF RunnerInv, RunShape, Started, Creating, Checkpointing
<1>8. OneStagePerCall' /\ ~ AboutToInvoke' /\ ~ Reserved'
  BY <1>5 DEF OneStagePerCall, Checkpointing, AboutToInvoke, Reserved
<1> QED
  BY <1>3, <1>5, <1>6, <1>7, <1>8, ContinuesUnchanged

\* approve_core_stage consumes its decision and reserves nothing.
LEMMA ApproveCoreStageKeeps == ASSUME RunnerInv, ApproveCoreStage PROVE RunnerInv'
<1>1. /\ Started /\ run.mem \in Blobs /\ run \in Runs /\ run.op = "approve"
      /\ run.nodes \in [Stage -> NodeStatuses] /\ run.stage \in Stage
  BY DEF ApproveCoreStage, At, RunnerInv, RunShape, Started, TypeOK
<1>2. Consume(run.mem) \in Blobs /\ SameLedger(Consume(run.mem), run.mem)
  BY <1>1, Updates DEF Core, SameLedger
<1>3. Save(Consume(run.mem)) /\ UNCHANGED <<rows, srow, held, history>>
  BY DEF ApproveCoreStage
<1>4. CASE run.nodes[run.stage] = "pending"
  <2>1. run' = [run EXCEPT !.pc = "checkpoint", !.to = "needs_review", !.next = "approve",
                           !.mem = Consume(run.mem)]
    BY <1>4 DEF ApproveCoreStage
  <2>2. run' \in Runs
    BY <1>1, <1>2, <2>1, Names DEF Runs
  <2>3. /\ run'.pc = "checkpoint" /\ run'.op = "approve" /\ run'.sid = run.sid
        /\ run'.mem = Consume(run.mem) /\ run'.nodes = run.nodes /\ run'.dec = run.dec
        /\ run'.stage = run.stage /\ run'.to = "needs_review" /\ run'.next = "approve"
    BY <1>1, <2>1 DEF Runs
  <2>4. Inside
    BY <1>1, <1>2, <1>3, <2>2, <2>3 DEF Inside, Creating
  <2>5. RunShape'
    BY <1>1, <1>2, <2>3, Names DEF RunnerInv, RunShape, Started, Creating, Checkpointing
  <2>6. OneStagePerCall' /\ ~ AboutToInvoke' /\ ~ Reserved'
    BY <2>3 DEF OneStagePerCall, Checkpointing, AboutToInvoke, Reserved
  <2> QED
    BY <1>2, <1>3, <2>3, <2>4, <2>5, <2>6, ContinuesSaved
<1>5. CASE run.nodes[run.stage] # "pending"
  <2>1. run' = [run EXCEPT !.pc = "approve", !.mem = Consume(run.mem)]
    BY <1>5 DEF ApproveCoreStage
  <2>2. run' \in Runs
    BY <1>1, <1>2, <2>1, Names DEF Runs
  <2>3. /\ run'.pc = "approve" /\ run'.op = "approve" /\ run'.sid = run.sid
        /\ run'.mem = Consume(run.mem) /\ run'.nodes = run.nodes /\ run'.dec = run.dec
        /\ run'.stage = run.stage
    BY <1>1, <2>1 DEF Runs
  <2>4. Inside
    BY <1>1, <1>2, <1>3, <2>2, <2>3 DEF Inside, Creating
  <2>5. RunShape'
    BY <1>1, <1>2, <2>3 DEF RunnerInv, RunShape, Started, Creating, Checkpointing
  <2>6. OneStagePerCall' /\ ~ AboutToInvoke' /\ ~ Reserved'
    BY <2>3 DEF OneStagePerCall, Checkpointing, AboutToInvoke, Reserved
  <2> QED
    BY <1>2, <1>3, <2>3, <2>4, <2>5, <2>6, ContinuesSaved
<1> QED
  BY <1>4, <1>5

\* An approval, accepted or refused, starts no agent stage.
LEMMA ApproveHumanStageKeeps == ASSUME RunnerInv, ApproveHumanStage PROVE RunnerInv'
<1>1. /\ Started /\ run.mem \in Blobs /\ run \in Runs /\ run.op # "replan"
      /\ run.nodes \in [Stage -> NodeStatuses]
  BY DEF ApproveHumanStage, RunnerInv, RunShape, Started, TypeOK, Creating
<1>2. UNCHANGED <<store, held, history>>
  BY DEF ApproveHumanStage
<1>3. CASE ~ Approvable(run.mem, run.nodes, run.stage)
  <2>1. run' = IdleRun
    BY <1>3 DEF ApproveHumanStage
  <2> QED
    BY <1>2, <2>1, ReturnsUnchanged
<1>4. CASE Approvable(run.mem, run.nodes, run.stage)
  <2>1. run' = [run EXCEPT !.pc = "checkpoint", !.to = "success", !.next = "settle",
                           !.mark = "investigating"]
    BY <1>4 DEF ApproveHumanStage
  <2>2. run' \in Runs
    BY <1>1, <2>1, Names DEF Runs
  <2>3. /\ run'.pc = "checkpoint" /\ run'.op = run.op /\ run'.sid = run.sid
        /\ run'.mem = run.mem /\ run'.nodes = run.nodes /\ run'.dec = run.dec
        /\ run'.stage = run.stage /\ run'.to = "success" /\ run'.next = "settle"
        /\ run'.mark = "investigating"
    BY <1>1, <2>1 DEF Runs
  <2>4. run.stage \in Stage
    BY <1>1, <1>4, WorkflowAssumption DEF Approvable, Blobs
  <2>5. Inside
    BY <1>1, <1>2, <2>2, <2>3 DEF Inside, Creating, SameLedger
  <2>6. RunShape'
    BY <1>1, <2>3, <2>4, Names DEF RunnerInv, RunShape, Started, Creating, Checkpointing
  <2>7. OneStagePerCall' /\ ~ AboutToInvoke' /\ ~ Reserved'
    BY <2>3 DEF OneStagePerCall, Checkpointing, AboutToInvoke, Reserved
  <2> QED
    BY <1>2, <2>3, <2>5, <2>6, <2>7, ContinuesUnchanged
<1> QED
  BY <1>3, <1>4

\* Pausing at a human gate starts no agent stage.
LEMMA LoopHumanKeeps == ASSUME RunnerInv, NEW st \in Stage, LoopHuman(st) PROVE RunnerInv'
<1>1. /\ Started /\ run.mem \in Blobs /\ run \in Runs /\ run.op \in {"advance", "run"}
      /\ run.nodes \in [Stage -> NodeStatuses]
  BY DEF LoopHuman, RunnerInv, RunShape, Started, TypeOK, Creating
<1>2. /\ run' = [run EXCEPT !.pc = "checkpoint", !.stage = st, !.to = "needs_review",
                            !.next = "settle", !.mark = "blocked"]
      /\ UNCHANGED <<store, held, history>>
  BY DEF LoopHuman
<1>3. run' \in Runs
  BY <1>1, <1>2, Names DEF Runs
<1>4. /\ run'.pc = "checkpoint" /\ run'.op = run.op /\ run'.sid = run.sid
      /\ run'.mem = run.mem /\ run'.nodes = run.nodes /\ run'.dec = run.dec
      /\ run'.stage = st /\ run'.to = "needs_review" /\ run'.next = "settle"
      /\ run'.mark = "blocked"
  BY <1>1, <1>2 DEF Runs
<1>5. Inside
  BY <1>1, <1>2, <1>3, <1>4 DEF Inside, Creating, SameLedger
<1>6. RunShape'
  BY <1>1, <1>4, Names DEF RunnerInv, RunShape, Started, Creating, Checkpointing
<1>7. OneStagePerCall' /\ ~ AboutToInvoke' /\ ~ Reserved'
  BY <1>4 DEF OneStagePerCall, Checkpointing, AboutToInvoke, Reserved
<1> QED
  BY <1>2, <1>4, <1>5, <1>6, <1>7, ContinuesUnchanged

\* The stage the loop starts is pending, so it never ran; on the Core path it
\* is the stage whose reservation is outstanding.
LEMMA LoopAgentKeeps == ASSUME RunnerInv, NEW st \in Stage, LoopAgent(st) PROVE RunnerInv'
<1>1. /\ Started /\ run.mem \in Blobs /\ run \in Runs /\ run.op \in {"advance", "run"}
      /\ run.nodes \in [Stage -> NodeStatuses] /\ run.pc = "loop" /\ run.sid \in Sessions
  BY DEF LoopAgent, RunnerInv, RunShape, Started, TypeOK, Creating
<1>2. /\ run' = [run EXCEPT !.pc = "checkpoint", !.stage = st, !.to = "running", !.next = "invoke"]
      /\ UNCHANGED <<store, held, history>>
  BY DEF LoopAgent
<1>3. run' \in Runs
  BY <1>1, <1>2, Names DEF Runs
<1>4. /\ run'.pc = "checkpoint" /\ run'.op = run.op /\ run'.sid = run.sid
      /\ run'.mem = run.mem /\ run'.nodes = run.nodes /\ run'.dec = run.dec
      /\ run'.stage = st /\ run'.to = "running" /\ run'.next = "invoke"
  BY <1>1, <1>2 DEF Runs
<1>5. st \in StagesOf[run.mem.wf] /\ run.nodes[st] = "pending"
  BY DEF LoopAgent, Picks, ReadyNodes
<1>6. calls[run.sid][st] = 0
  BY <1>1, <1>5 DEF RunnerInv, RowsFence, InSync
<1>7. run.op = "advance" => Reserved /\ st = run.stage /\ run.mem.pending # Nil
  <2> SUFFICES ASSUME run.op = "advance" PROVE Reserved /\ st = run.stage /\ run.mem.pending # Nil
    OBVIOUS
  <2>1. run.mem.pending # Nil
    BY <1>1, <1>5 DEF RunnerInv, OneStagePerCall, AllSucceeded
  <2>2. Reserved
    BY <1>1, <2>1 DEF Reserved
  <2>3. st = run.dec.stage
    BY DEF LoopAgent, Picks
  <2> QED
    BY <2>1, <2>2, <2>3 DEF RunnerInv, Handoffs
<1>8. Inside
  BY <1>1, <1>2, <1>3, <1>4 DEF Inside, Creating, SameLedger
<1>9. RunShape'
  BY <1>1, <1>4, Names DEF RunnerInv, RunShape, Started, Creating, Checkpointing
<1>10. OneStagePerCall'
  BY <1>4 DEF OneStagePerCall, Checkpointing
<1>11. Reserved' => Reserved /\ run'.stage = run.stage /\ run'.mem.pending # Nil
  BY <1>4, <1>7 DEF Reserved
<1> QED
  BY <1>2, <1>4, <1>6, <1>8, <1>9, <1>10, <1>11, ContinuesUnchanged

\* The end of the stage loop only settles a status.
LEMMA LoopEndKeeps == ASSUME RunnerInv, LoopEnd PROVE RunnerInv'
<1> DEFINE f == FinalStatus(run.sid, run.mem, run.nodes)
           pc == IF f = "complete" THEN "close_first" ELSE "settle"
<1>1. /\ Started /\ run.mem \in Blobs /\ run \in Runs /\ run.op \in {"advance", "run"}
      /\ run.nodes \in [Stage -> NodeStatuses]
  BY DEF LoopEnd, RunnerInv, RunShape, Started, TypeOK, Creating
<1>2. UNCHANGED <<store, held, history>>
  BY DEF LoopEnd
<1>3. CASE ReadyNodes(run.mem.wf, run.nodes) # {}
  <2>1. run' = IdleRun
    BY <1>3 DEF LoopEnd
  <2> QED
    BY <1>2, <2>1, ReturnsUnchanged
<1>4. CASE ReadyNodes(run.mem.wf, run.nodes) = {}
  <2>0. f \in TaskStatuses /\ pc \in PCs /\ pc \in {"close_first", "settle"}
    BY Names DEF FinalStatus
  <2> HIDE DEF f, pc
  <2>1. run' = [run EXCEPT !.pc = pc, !.mark = f]
    BY <1>4 DEF LoopEnd, f, pc
  <2>2. run' \in Runs
    BY <1>1, <2>0, <2>1 DEF Runs
  <2>3. /\ run'.pc = pc /\ run'.op = run.op /\ run'.sid = run.sid
        /\ run'.mem = run.mem /\ run'.nodes = run.nodes /\ run'.dec = run.dec
        /\ run'.stage = run.stage /\ run'.mark = f
    BY <1>1, <2>1 DEF Runs
  <2>4. Inside
    BY <1>1, <1>2, <2>0, <2>2, <2>3 DEF Inside, Creating, SameLedger
  <2>5. RunShape'
    BY <1>1, <2>0, <2>3 DEF RunnerInv, RunShape, Started, Creating, Checkpointing
  <2>6. OneStagePerCall' /\ ~ AboutToInvoke' /\ ~ Reserved'
    BY <2>0, <2>3 DEF OneStagePerCall, Checkpointing, AboutToInvoke, Reserved
  <2> QED
    BY <1>2, <2>3, <2>4, <2>5, <2>6, ContinuesUnchanged
<1> QED
  BY <1>3, <1>4

\* Writing a row never makes it look unexecuted.
LEMMA CheckpointRowKeeps == ASSUME RunnerInv, CheckpointRow PROVE RunnerInv'
<1> DEFINE nodes == [run.nodes EXCEPT ![run.stage] = run.to]
<1>1. /\ Started /\ run.mem \in Blobs /\ run \in Runs /\ run.op # "replan"
      /\ run.nodes \in [Stage -> NodeStatuses] /\ run.stage \in Stage
      /\ run.to \in NodeStatuses /\ run.to \notin {"absent", "pending"}
      /\ run.sid \in Sessions /\ run.pc = "checkpoint"
      /\ rows \in [Sessions -> [Stage -> NodeStatuses]]
  BY DEF CheckpointRow, RunnerInv, RunShape, Started, TypeOK, Creating, Checkpointing
<1>2. Touch(run.mem) \in Blobs /\ SameLedger(Touch(run.mem), run.mem)
      /\ Touch(run.mem).pending = run.mem.pending
  BY <1>1, Updates DEF Core, SameLedger
<1>3. /\ rows' = [rows EXCEPT ![run.sid][run.stage] = run.to]
      /\ run' = [run EXCEPT !.pc = "save_checkpoint", !.mem = Touch(run.mem), !.nodes = nodes]
      /\ UNCHANGED <<blob, srow, held, history>>
  BY <1>1 DEF CheckpointRow, Runs
<1>4. nodes \in [Stage -> NodeStatuses]
  BY <1>1
<1>5. run' \in Runs
  BY <1>1, <1>2, <1>3, <1>4, Names DEF Runs
<1>6. /\ run'.pc = "save_checkpoint" /\ run'.op = run.op /\ run'.sid = run.sid
      /\ run'.mem = Touch(run.mem) /\ run'.nodes = nodes /\ run'.dec = run.dec
      /\ run'.stage = run.stage /\ run'.to = run.to /\ run'.next = run.next /\ run'.mark = run.mark
  BY <1>1, <1>3 DEF Runs
<1>7. Inside
  BY <1>1, <1>2, <1>3, <1>4, <1>5, <1>6 DEF Inside, Creating
<1>8. RunShape'
  BY <1>1, <1>2, <1>4, <1>6 DEF RunnerInv, RunShape, Started, Creating, Checkpointing
<1>9. OneStagePerCall'
  BY <1>1, <1>2, <1>6 DEF RunnerInv, OneStagePerCall, Checkpointing, SameLedger
<1>10. /\ rows' \in [Sessions -> [Stage -> NodeStatuses]]
       /\ rows'[run.sid] = [rows[run.sid] EXCEPT ![run.stage] = run.to]
       /\ \A s \in Sessions, st \in Stage :
              rows'[s][st] \in {"absent", "pending"} => rows[s][st] \in {"absent", "pending"}
  BY <1>1, <1>3
<1>11. run'.nodes = rows'[run.sid]
  BY <1>1, <1>6, <1>10 DEF RunnerInv, InSync
<1>12. AboutToInvoke' => /\ calls[run.sid][run'.stage] = 0
                        /\ rows'[run.sid][run'.stage] = "running"
  BY <1>1, <1>6, <1>10 DEF RunnerInv, RowsFence, AboutToInvoke, Checkpointing
<1>13. Reserved' => Reserved /\ run'.stage = run.stage /\ run'.mem.pending # Nil
  BY <1>1, <1>2, <1>6 DEF RunnerInv, Handoffs, Reserved, AboutToInvoke, Checkpointing
<1>14. /\ srow' \in [Sessions -> {"absent", "open", "closed"}]
       /\ \A s \in Sessions : srow'[s] = "absent" => srow[s] = "absent"
       /\ blob' \in [Sessions -> Blobs \cup {Nil}]
       /\ \A s \in Sessions : Kept(s)
       /\ SameLedger(blob'[run.sid], run.mem)
  BY <1>1, <1>3 DEF RunnerInv, TypeOK, InSync, Kept, SameLedger
<1> QED
  BY <1>6, <1>7, <1>8, <1>9, <1>10, <1>11, <1>12, <1>13, <1>14, Continues

\* The document saved by a checkpoint has the ledger that was loaded.
LEMMA CheckpointSaveKeeps == ASSUME RunnerInv, CheckpointSave PROVE RunnerInv'
<1>1. /\ Started /\ run.mem \in Blobs /\ run \in Runs /\ run.op # "replan"
      /\ run.nodes \in [Stage -> NodeStatuses] /\ run.stage \in Stage
      /\ run.next \in {"approve", "settle", "invoke", "loop"} /\ run.next \in PCs
      /\ run.pc = "save_checkpoint"
  BY Names DEF CheckpointSave, RunnerInv, RunShape, Started, TypeOK, Creating, Checkpointing
<1>2. /\ Save(run.mem) /\ SameLedger(run.mem, run.mem)
      /\ run' = [run EXCEPT !.pc = run.next]
      /\ UNCHANGED <<rows, srow, held, history>>
  BY DEF CheckpointSave, SameLedger
<1>3. run' \in Runs
  BY <1>1, <1>2 DEF Runs
<1>4. /\ run'.pc = run.next /\ run'.op = run.op /\ run'.sid = run.sid
      /\ run'.mem = run.mem /\ run'.nodes = run.nodes /\ run'.dec = run.dec
      /\ run'.stage = run.stage /\ run'.mark = run.mark
  BY <1>1, <1>2 DEF Runs
<1>5. Inside
  BY <1>1, <1>2, <1>3, <1>4 DEF Inside, Creating
<1>6. RunShape'
  BY <1>1, <1>4 DEF RunnerInv, RunShape, Started, Creating, Checkpointing
<1>7. OneStagePerCall'
  BY <1>1, <1>4 DEF RunnerInv, OneStagePerCall, Checkpointing, AllSucceeded
<1>8. AboutToInvoke' => /\ calls[run.sid][run'.stage] = 0
                       /\ rows[run.sid][run'.stage] = "running" /\ run'.pc # "checkpoint"
  BY <1>1, <1>4 DEF RunnerInv, RowsFence, AboutToInvoke, Checkpointing
<1>9. Reserved' => Reserved /\ run'.stage = run.stage /\ run'.mem.pending # Nil
  BY <1>1, <1>4 DEF RunnerInv, Handoffs, OneStagePerCall, Reserved, AboutToInvoke, Checkpointing
<1> QED
  BY <1>1, <1>2, <1>4, <1>5, <1>6, <1>7, <1>8, <1>9, ContinuesSaved

\* A returning stage resolves the handoff; on the Core path the call goes back
\* to the loop only when every other stage has succeeded.
LEMMA RecordResultKeeps == ASSUME RunnerInv, NEW r \in Results, RecordResult(r) PROVE RunnerInv'
<1> DEFINE st == run.stage
           active == [run.mem.active EXCEPT ![st] = ActiveAfter(r, run.mem.active[st])]
           b == Touch([run.mem EXCEPT !.active = active])
           more == \E o \in StagesOf[b.wf] \ {st} : run.nodes[o] # "success"
           to == NodeAfter[r]
           mem == [b EXCEPT !.pending = IF run.op = "advance" THEN Nil ELSE b.pending]
           next == IF to = "success" /\ ~ (run.op = "advance" /\ more) THEN "loop" ELSE "settle"
           mark == CASE to = "success" -> "investigating"
                     [] r = "review" -> "blocked"
                     [] OTHER -> "failed"
<1>1. /\ Started /\ run.mem \in Blobs /\ run \in Runs /\ run.op \in {"advance", "run"}
      /\ run.nodes \in [Stage -> NodeStatuses] /\ run.stage \in Stage /\ run.pc = "executing"
  BY DEF RecordResult, RunnerInv, RunShape, Started, TypeOK, Creating
<1>2. to \in NodeStatuses \ {"absent", "pending"} /\ next \in {"loop", "settle"} /\ next \in PCs
      /\ mark \in TaskStatuses
  BY Names DEF Results, NodeAfter
<1>3. active \in [Stage -> Verdicts]
  <2>1. run.mem.active \in [Stage -> Verdicts]
    BY <1>1 DEF Blobs
  <2>2. ActiveAfter(r, run.mem.active[st]) \in Verdicts
    BY <1>1, <2>1 DEF ActiveAfter, Verdicts, Results
  <2> QED
    BY <2>1, <2>2
<1>4. [run.mem EXCEPT !.active = active] \in Blobs
      /\ Core([run.mem EXCEPT !.active = active]) = Core(run.mem)
  <2>1. [run.mem EXCEPT !.active = active] \in Blobs
    BY <1>1, <1>3, FieldWrites
  <2> HIDE DEF active
  <2>2. Core([run.mem EXCEPT !.active = active]) = Core(run.mem)
    BY <1>1 DEF Core, Blobs
  <2> QED
    BY <2>1, <2>2
<1>5. b \in Blobs /\ Core(b) = Core(run.mem)
  BY <1>4, Updates
<1>6. SameLedger(b, run.mem)
  BY <1>5 DEF Core, SameLedger
<1>7. mem \in Blobs /\ SameLedger(mem, run.mem) /\ (run.op = "advance" => mem.pending = Nil)
  <2> HIDE DEF b
  <2> DEFINE p == IF run.op = "advance" THEN Nil ELSE b.pending
  <2>1. p \in Stage \cup {Nil}
    BY <1>5 DEF Blobs
  <2>2. mem \in Blobs
    BY <1>5, <2>1, FieldWrites
  <2>3. SameLedger(mem, b) /\ mem.pending = p
    BY <1>5 DEF SameLedger, Blobs
  <2> QED
    BY <1>6, <2>2, <2>3 DEF SameLedger
<1>8. Save(b) /\ UNCHANGED <<rows, srow, held, history>>
  <2>1. [run.mem EXCEPT !.active = active]
        = [run.mem EXCEPT !.active[st] = ActiveAfter(r, run.mem.active[st])]
    BY <1>1, <1>3 DEF Blobs
  <2> QED
    BY <2>1 DEF RecordResult
<1>9. run' = [run EXCEPT !.pc = "checkpoint", !.to = to, !.mem = mem, !.next = next, !.mark = mark]
  <2>1. [run.mem EXCEPT !.active = active]
        = [run.mem EXCEPT !.active[st] = ActiveAfter(r, run.mem.active[st])]
    BY <1>1, <1>3 DEF Blobs
  <2>2. [b EXCEPT !.pending = IF run.op = "advance" THEN Nil ELSE @] = mem
    BY <1>5, SMTT(40) DEF Blobs
  <2> QED
    BY <2>1, <2>2 DEF RecordResult
<1>10. run'.op = "advance" /\ next = "loop" =>
          to = "success" /\ \A o \in StagesOf[mem.wf] \ {st} : run.nodes[o] = "success"
  BY <1>6, <1>7, <1>9, <1>1, ZenonT(60) DEF SameLedger, Runs
<1> HIDE DEF mem, to, next, mark
<1>11. run' \in Runs
  BY <1>1, <1>2, <1>7, <1>9, Names DEF Runs
<1>12. /\ run'.pc = "checkpoint" /\ run'.op = run.op /\ run'.sid = run.sid
       /\ run'.mem = mem /\ run'.nodes = run.nodes /\ run'.dec = run.dec
       /\ run'.stage = run.stage /\ run'.to = to /\ run'.next = next /\ run'.mark = mark
  BY <1>1, <1>9 DEF Runs
<1>13. Inside
  BY <1>1, <1>7, <1>8, <1>11, <1>12 DEF Inside, Creating
<1>14. RunShape'
  BY <1>1, <1>2, <1>7, <1>12 DEF RunnerInv, RunShape, Started, Creating, Checkpointing
<1>15. OneStagePerCall'
  BY <1>7, <1>10, <1>12 DEF OneStagePerCall, Checkpointing
<1>16. ~ AboutToInvoke' /\ ~ Reserved'
  BY <1>2, <1>12 DEF AboutToInvoke, Reserved, Checkpointing
<1> QED
  BY <1>5, <1>6, <1>8, <1>12, <1>13, <1>14, <1>15, <1>16, ContinuesSaved

\* The last save of a call has the ledger that was loaded.
LEMMA SettleKeeps == ASSUME RunnerInv, Settle PROVE RunnerInv'
<1> DEFINE b == Mark(run.mem, run.mark)
<1>1. /\ Started /\ run.mem \in Blobs /\ run \in Runs /\ run.op # "replan"
      /\ run.nodes \in [Stage -> NodeStatuses] /\ run.mark \in TaskStatuses
  BY DEF Settle, RunnerInv, RunShape, Started, TypeOK, Creating
<1>2. b \in Blobs /\ Core(b) = Core(run.mem) /\ SameLedger(b, run.mem)
  BY <1>1, Updates DEF Core, SameLedger
<1>3. Save(b) /\ UNCHANGED <<rows, srow, held, history>> /\ held' \in Decisions \cup {Nil}
  BY DEF Settle, RunnerInv, TypeOK
<1>4. CASE ~ (run.op = "run" /\ run.mark = "investigating")
  <2>1. run' = IdleRun
    BY <1>4 DEF Settle
  <2> QED
    BY <1>1, <1>2, <1>3, <2>1, SaveCoreKeeps, ReturnsSaved
<1>5. CASE run.op = "run" /\ run.mark = "investigating"
  <2> HIDE DEF b
  <2>1. run' = [run EXCEPT !.pc = "loop", !.mem = b]
    BY <1>5 DEF Settle, b
  <2>2. run' \in Runs
    BY <1>1, <1>2, <2>1, Names DEF Runs
  <2>3. /\ run'.pc = "loop" /\ run'.op = "run" /\ run'.sid = run.sid
        /\ run'.mem = b /\ run'.nodes = run.nodes /\ run'.dec = run.dec
    BY <1>1, <1>5, <2>1 DEF Runs
  <2>4. Inside
    BY <1>1, <1>2, <1>3, <1>5, <2>2, <2>3 DEF Inside, Creating
  <2>5. RunShape'
    BY <1>1, <1>2, <1>5, <2>3 DEF RunnerInv, RunShape, Started, Creating, Checkpointing
  <2>6. OneStagePerCall' /\ ~ AboutToInvoke' /\ ~ Reserved'
    BY <2>3 DEF OneStagePerCall, Checkpointing, AboutToInvoke, Reserved
  <2> QED
    BY <1>2, <1>3, <2>3, <2>4, <2>5, <2>6, ContinuesSaved
<1> QED
  BY <1>4, <1>5

\* Closing the sessions row touches no document.
LEMMA CloseSessionKeeps == ASSUME RunnerInv, CloseSession PROVE RunnerInv'
<1>1. /\ Started /\ run.mem \in Blobs /\ run \in Runs /\ run.op # "replan"
      /\ run.nodes \in [Stage -> NodeStatuses] /\ run.sid \in Sessions
      /\ run.pc = "close_first" => run.mark \in TaskStatuses
  BY DEF CloseSession, RunnerInv, RunShape, Started, TypeOK, Creating
<1>2. UNCHANGED <<blob, rows, held, history>> /\ srow' = [srow EXCEPT ![run.sid] = "closed"]
  BY DEF CloseSession
<1>3. /\ srow' \in [Sessions -> {"absent", "open", "closed"}]
      /\ \A s \in Sessions : srow'[s] = "absent" => srow[s] = "absent"
      /\ blob' \in [Sessions -> Blobs \cup {Nil}]
      /\ rows' \in [Sessions -> [Stage -> NodeStatuses]]
      /\ \A s \in Sessions : Kept(s)
  BY <1>1, <1>2 DEF RunnerInv, TypeOK, Kept
<1>4. CASE run.pc = "close"
  <2>1. run' = IdleRun
    BY <1>4 DEF CloseSession
  <2>2. TypeOK'
    BY <1>2, <1>3, <2>1, IdleRunType DEF RunnerInv, TypeOK, history
  <2> QED
    BY <1>2, <1>3, <2>1, <2>2, Returns
<1>5. CASE run.pc = "close_first"
  <2>1. run' = [run EXCEPT !.pc = "settle"]
    BY <1>5 DEF CloseSession
  <2>2. run' \in Runs
    BY <1>1, <2>1, Names DEF Runs
  <2>3. /\ run'.pc = "settle" /\ run'.op = run.op /\ run'.sid = run.sid
        /\ run'.mem = run.mem /\ run'.nodes = run.nodes /\ run'.dec = run.dec
        /\ run'.stage = run.stage /\ run'.mark = run.mark
    BY <1>1, <2>1 DEF Runs
  <2>4. Inside
    BY <1>1, <1>2, <2>2, <2>3 DEF Inside, Creating, SameLedger
  <2>5. RunShape'
    BY <1>1, <1>5, <2>3 DEF RunnerInv, RunShape, Started, Creating, Checkpointing
  <2>6. OneStagePerCall' /\ ~ AboutToInvoke' /\ ~ Reserved'
    BY <2>3 DEF OneStagePerCall, Checkpointing, AboutToInvoke, Reserved
  <2>7. SameLedger(blob'[run.sid], run.mem) /\ run'.nodes = rows'[run.sid]
    BY <1>1, <1>2, <2>3 DEF RunnerInv, InSync, SameLedger
  <2> QED
    BY <1>2, <1>3, <2>3, <2>4, <2>5, <2>6, <2>7, Continues
<1> QED
  BY <1>4, <1>5 DEF CloseSession

\* Recovery puts interrupted rows in review, which never makes a row look
\* unexecuted, and gives the call nothing more to start.
LEMMA RecoverInterruptedKeeps == ASSUME RunnerInv, RecoverInterrupted PROVE RunnerInv'
<1>1. /\ Started /\ run.mem \in Blobs /\ run \in Runs /\ run.op \in {"advance", "run"}
      /\ run.nodes \in [Stage -> NodeStatuses] /\ run.sid \in Sessions /\ run.pc = "recover"
      /\ rows \in [Sessions -> [Stage -> NodeStatuses]]
      /\ blob \in [Sessions -> Blobs \cup {Nil}] /\ blob[run.sid] # Nil
  BY DEF RecoverInterrupted, RunnerInv, RunShape, Started, TypeOK, Creating, InSync
<1>2. UNCHANGED <<blob, srow, held, history>>
  BY DEF RecoverInterrupted
<1>3. CASE \E st \in Stage : rows[run.sid][st] = "running"
  <2> DEFINE nodes == Recovered(rows[run.sid])
             mem == blob[run.sid]
  <2>1. /\ rows' = [rows EXCEPT ![run.sid] = nodes]
        /\ run' = [run EXCEPT !.pc = "settle", !.mark = "blocked", !.mem = mem, !.nodes = nodes]
    BY <1>3 DEF RecoverInterrupted
  <2>2. /\ nodes \in [Stage -> NodeStatuses]
        /\ \A st \in Stage : nodes[st] \in {"absent", "pending"}
                                => rows[run.sid][st] \in {"absent", "pending"}
    BY <1>1, Names DEF Recovered
  <2>3. mem \in Blobs /\ SameLedger(mem, run.mem)
    BY <1>1 DEF RunnerInv, InSync, SameLedger
  <2> HIDE DEF nodes, mem
  <2>4. run' \in Runs
    BY <1>1, <2>1, <2>2, <2>3, Names DEF Runs
  <2>5. /\ run'.pc = "settle" /\ run'.op = run.op /\ run'.sid = run.sid
        /\ run'.mem = mem /\ run'.nodes = nodes /\ run'.dec = run.dec
        /\ run'.stage = run.stage /\ run'.mark = "blocked"
    BY <1>1, <2>1 DEF Runs
  <2>6. Inside
    BY <1>1, <1>2, <2>2, <2>3, <2>4, <2>5 DEF Inside, Creating
  <2>7. RunShape'
    BY <1>1, <2>2, <2>3, <2>5, Names DEF RunnerInv, RunShape, Started, Creating, Checkpointing
  <2>8. OneStagePerCall' /\ ~ AboutToInvoke' /\ ~ Reserved'
    BY <2>5 DEF OneStagePerCall, Checkpointing, AboutToInvoke, Reserved
  <2>9. /\ rows' \in [Sessions -> [Stage -> NodeStatuses]] /\ run'.nodes = rows'[run.sid]
        /\ \A s \in Sessions, st \in Stage :
              rows'[s][st] \in {"absent", "pending"} => rows[s][st] \in {"absent", "pending"}
    BY <1>1, <2>1, <2>2, <2>5
  <2>10. /\ srow' \in [Sessions -> {"absent", "open", "closed"}]
         /\ \A s \in Sessions : srow'[s] = "absent" => srow[s] = "absent"
         /\ blob' \in [Sessions -> Blobs \cup {Nil}]
         /\ \A s \in Sessions : Kept(s)
         /\ SameLedger(blob'[run.sid], run.mem)
    BY <1>1, <1>2 DEF RunnerInv, TypeOK, InSync, Kept, SameLedger
  <2> QED
    BY <2>6, <2>7, <2>8, <2>9, <2>10, Continues
<1>4. CASE ~ \E st \in Stage : rows[run.sid][st] = "running"
  <2> DEFINE pc == IF run.op = "run" /\ run.stage # Nil THEN "approve" ELSE "loop"
  <2>1. run' = [run EXCEPT !.pc = pc] /\ UNCHANGED store
    BY <1>2, <1>4 DEF RecoverInterrupted, store
  <2>2. pc \in PCs /\ pc \in {"approve", "loop"} /\ (run.op = "advance" => pc = "loop")
    BY Names
  <2> HIDE DEF pc
  <2>3. run' \in Runs
    BY <1>1, <2>1, <2>2 DEF Runs
  <2>4. /\ run'.pc = pc /\ run'.op = run.op /\ run'.sid = run.sid
        /\ run'.mem = run.mem /\ run'.nodes = run.nodes /\ run'.dec = run.dec
        /\ run'.stage = run.stage
    BY <1>1, <2>1 DEF Runs
  <2>5. Inside
    BY <1>1, <1>2, <2>2, <2>3, <2>4 DEF Inside, Creating, SameLedger
  <2>6. RunShape'
    BY <1>1, <2>2, <2>4 DEF RunnerInv, RunShape, Started, Creating, Checkpointing
  <2>7. run.op = "advance" => Reserved /\ run.mem.pending # Nil
    BY <1>1 DEF RunnerInv, Handoffs, Reserved
  <2>8. OneStagePerCall' /\ ~ AboutToInvoke'
    BY <2>2, <2>4, <2>7 DEF OneStagePerCall, Checkpointing, AboutToInvoke
  <2>9. Reserved' => Reserved /\ run'.stage = run.stage /\ run'.mem.pending # Nil
    BY <2>4, <2>7 DEF Reserved
  <2> QED
    BY <2>1, <2>4, <2>5, <2>6, <2>8, <2>9, ContinuesUnchanged
<1> QED
  BY <1>3, <1>4

-----------------------------------------------------------------------------
(* The two steps the budget is about: reserving and spending. *)

\* The handoff reserves in the same save that sets the marker, and the fresh
\* decision it consumes was covered by the budget.
LEMMA AdvanceHandoffKeeps == ASSUME RunnerInv, AdvanceHandoff PROVE RunnerInv'
<1> DEFINE b == Handoff(run.mem, run.stage)
           n == Steps[run.mem.wf][run.stage]
<1> USE DEF RunnerInv
<1>1. /\ Started /\ run.mem \in Blobs /\ run \in Runs /\ run.op = "advance" /\ run.pc = "enter"
      /\ run.nodes \in [Stage -> NodeStatuses] /\ run.sid \in Sessions
      /\ run.stage \in Stage /\ run.dec \in Decisions /\ run.dec.outcome = "delegate"
      /\ blob \in [Sessions -> Blobs \cup {Nil}] /\ blob[run.sid] # Nil
  BY DEF AdvanceHandoff, At, RunShape, Started, TypeOK, InSync
<1>2. run.mem.stop = Nil /\ run.stage = run.dec.stage /\ BudgetCovers(run.mem, n)
  BY <1>1 DEF Handoffs
<1>3. n \in Nat /\ run.mem.used \in Nat /\ run.mem.reserved \in Nat
  <2>1. run.mem.wf \in Workflows /\ run.mem.used \in Nat /\ run.mem.reserved \in Nat
    BY <1>1 DEF Blobs
  <2>2. n \in 1..32
    BY <1>1, <2>1, WorkflowAssumption
  <2> QED
    BY <2>1, <2>2
<1>4. /\ b \in Blobs /\ b.kind = run.mem.kind /\ b.wf = run.mem.wf /\ b.stop = Nil
      /\ b.pending = run.stage
      /\ run.mem.kind # "budgeted" => b.used = run.mem.used /\ b.reserved = run.mem.reserved
      /\ run.mem.kind = "budgeted" => b.used = run.mem.used + 1 /\ b.reserved = run.mem.reserved + n
  BY <1>1, <1>2, HandoffCharges DEF Core
<1>5. /\ blob' = [blob EXCEPT ![run.sid] = b]
      /\ run' = [run EXCEPT !.pc = "recover", !.mem = b]
      /\ UNCHANGED <<rows, srow, held, history>>
  BY DEF AdvanceHandoff, Save
<1> HIDE DEF b
<1>6. run' \in Runs
  <2>1. run \in Runs /\ b \in Blobs /\ run' = [run EXCEPT !.pc = "recover", !.mem = b]
    BY <1>1, <1>4, <1>5
  <2> QED
    BY <2>1, Names DEF Runs
<1>7. /\ run'.pc = "recover" /\ run'.op = "advance" /\ run'.sid = run.sid
      /\ run'.mem = b /\ run'.nodes = run.nodes /\ run'.dec = run.dec
      /\ run'.stage = run.stage
  BY <1>1, <1>5 DEF Runs
<1>8. TypeOK'
  BY <1>1, <1>4, <1>5, <1>6 DEF TypeOK, history
<1>9. RunShape'
  BY <1>1, <1>4, <1>7 DEF RunShape, Started, Creating, Checkpointing
<1>10. b # Nil /\ Live(run.sid) /\ blob'[run.sid] = b
       /\ \A s \in Sessions : s # run.sid => blob'[s] = blob[s]
  BY <1>1, <1>2, <1>4, <1>5, NilAssumption DEF Live, InSync
<1>11. InSync'
  BY <1>1, <1>5, <1>7, <1>10 DEF InSync
<1>12. OneLive'
  BY <1>1, <1>4, <1>5, <1>7, <1>10 DEF OneLive, Live, history
<1>13. RowsFence'
  BY <1>5, <1>7 DEF RowsFence, AboutToInvoke, Checkpointing, history
<1>14. OneKind'
  <2>1. \A s \in Sessions : (blob'[s] = Nil <=> blob[s] = Nil)
                            /\ (blob[s] # Nil => blob'[s].kind = blob[s].kind)
    BY <1>1, <1>4, <1>10 DEF InSync
  <2> QED
    BY <1>5, <1>7, <2>1 DEF OneKind, Creating, history
<1>15. /\ ~ Reserved /\ Outstanding = 0 /\ OutstandingSteps = 0
       /\ Outstanding' = 1 /\ OutstandingSteps' = n
  BY <1>1, <1>4, <1>7 DEF Reserved, AboutToInvoke, Checkpointing, Outstanding, OutstandingSteps
<1>16. Ledger'
  <2> SUFFICES ASSUME NEW s \in Sessions, Live(s)', blob'[s].kind = "budgeted"
               PROVE  /\ spent + 1 <= blob'[s].used /\ blob'[s].used <= MaxDispatches
                      /\ spentSteps + n <= blob'[s].reserved
                      /\ blob'[s].reserved <= MaxReserved
    BY <1>5, <1>7, <1>15 DEF Ledger, history
  <2>1. s = run.sid
    BY <1>1, <1>10 DEF OneLive, Live
  <2>2. run.mem.kind = "budgeted" /\ blob[s].kind = "budgeted"
        /\ blob[s].used = run.mem.used /\ blob[s].reserved = run.mem.reserved
        /\ blob'[s].used = run.mem.used + 1 /\ blob'[s].reserved = run.mem.reserved + n
    BY <1>1, <1>4, <1>10, <2>1 DEF InSync
  <2>3. spent + 0 <= run.mem.used /\ spentSteps + 0 <= run.mem.reserved
    BY <1>10, <1>15, <2>1, <2>2 DEF Ledger
  <2>4. run.mem.used < MaxDispatches /\ run.mem.reserved + n <= MaxReserved
    BY <1>2, <2>2 DEF BudgetCovers
  <2> QED
    BY <1>3, <2>2, <2>3, <2>4, LedgerNumbers
<1>17. BudgetHonoured'
  <2>1. \A s \in Sessions : blob'[s] # Nil => blob[s] # Nil /\ blob'[s].kind = blob[s].kind
    BY <1>1, <1>4, <1>10 DEF InSync
  <2> QED
    BY <1>5, <2>1 DEF BudgetHonoured, history
<1>18. Handoffs'
  BY <1>1, <1>2, <1>4, <1>7, NilAssumption DEF Handoffs, Reserved
<1>19. OneStagePerCall'
  BY <1>7 DEF OneStagePerCall, Checkpointing
<1> QED
  BY <1>8, <1>9, <1>11, <1>12, <1>13, <1>14, <1>16, <1>17, <1>18, <1>19

\* Calling the executor spends the outstanding reservation, on a row that was
\* never executed.
LEMMA InvokeExecutorKeeps == ASSUME RunnerInv, InvokeExecutor PROVE RunnerInv'
<1> DEFINE n == Steps[run.mem.wf][run.stage]
<1> USE DEF RunnerInv
<1>1. /\ Started /\ run.mem \in Blobs /\ run \in Runs /\ run.op \in {"advance", "run"}
      /\ run.pc = "invoke" /\ run.nodes \in [Stage -> NodeStatuses] /\ run.sid \in Sessions
      /\ run.stage \in Stage
      /\ calls \in [Sessions -> [Stage -> Nat]] /\ blob[run.sid] # Nil
  BY DEF InvokeExecutor, RunShape, Started, TypeOK, InSync
<1>2. n \in Nat
  <2>1. run.mem.wf \in Workflows
    BY <1>1 DEF Blobs
  <2>2. n \in 1..32
    BY <1>1, <2>1, WorkflowAssumption
  <2> QED
    BY <2>2
<1>3. /\ calls' = [calls EXCEPT ![run.sid][run.stage] = @ + 1]
      /\ spent' = spent + 1 /\ spentSteps' = spentSteps + n
      /\ run' = [run EXCEPT !.pc = "executing"]
      /\ blob' = blob /\ rows' = rows /\ srow' = srow /\ held' = held
  BY DEF InvokeExecutor, store
<1>4. calls[run.sid][run.stage] = 0 /\ rows[run.sid][run.stage] = "running"
  BY <1>1 DEF RowsFence, AboutToInvoke
<1>5. /\ calls' \in [Sessions -> [Stage -> Nat]]
      /\ calls'[run.sid][run.stage] = 1
      /\ \A s \in Sessions, st \in Stage :
            s # run.sid \/ st # run.stage => calls'[s][st] = calls[s][st]
  BY <1>1, <1>3, <1>4
<1>6. run' \in Runs
  <2>1. run \in Runs /\ run' = [run EXCEPT !.pc = "executing"]
    BY <1>1, <1>3
  <2> QED
    BY <2>1, Names DEF Runs
<1>7. /\ run'.pc = "executing" /\ run'.op = run.op /\ run'.sid = run.sid
      /\ run'.mem = run.mem /\ run'.nodes = run.nodes /\ run'.dec = run.dec
      /\ run'.stage = run.stage
  BY <1>1, <1>3 DEF Runs
<1>8. TypeOK'
  BY <1>2, <1>3, <1>5, <1>6 DEF TypeOK
<1>9. RunShape'
  BY <1>1, <1>7 DEF RunShape, Started, Creating, Checkpointing
<1>10. InSync'
  BY <1>1, <1>3, <1>7 DEF InSync
<1>11. OneLive'
  BY <1>1, <1>3, <1>5, <1>7 DEF OneLive, Live, RunShape, Creating
<1>12. RowsFence'
  <2>1. ~ AboutToInvoke'
    BY <1>7 DEF AboutToInvoke, Checkpointing
  <2> QED
    BY <1>3, <1>4, <1>5, <2>1 DEF RowsFence
<1>13. OneKind'
  BY <1>1, <1>3, <1>7 DEF OneKind, Creating
<1>14. ~ Reserved' /\ Outstanding' = 0 /\ OutstandingSteps' = 0
  BY <1>7 DEF Reserved, AboutToInvoke, Checkpointing, Outstanding, OutstandingSteps
<1>15. ASSUME NEW s \in Sessions, blob[s] # Nil, blob[s].kind = "budgeted"
       PROVE  /\ Live(run.sid)
              /\ spent + 1 <= blob[run.sid].used /\ blob[run.sid].used <= MaxDispatches
              /\ spentSteps + n <= blob[run.sid].reserved /\ blob[run.sid].reserved <= MaxReserved
  <2>1. run.mem.kind = "budgeted" /\ blob[run.sid].kind = "budgeted"
    BY <1>1, <1>15 DEF OneKind, InSync
  <2>2. run.op = "advance"
    BY <1>1, <2>1 DEF Handoffs
  <2>3. Reserved
    BY <1>1, <2>2 DEF Reserved, AboutToInvoke
  <2>4. Live(run.sid)
    BY <1>1, <2>3 DEF Handoffs, InSync, Live
  <2>5. Outstanding = 1 /\ OutstandingSteps = n
    BY <2>3 DEF Outstanding, OutstandingSteps
  <2> QED
    BY <1>1, <2>1, <2>4, <2>5 DEF Ledger
<1>16. Ledger'
  <2> SUFFICES ASSUME NEW s \in Sessions, Live(s), blob[s].kind = "budgeted"
               PROVE  /\ spent + 1 + 0 <= blob[s].used /\ blob[s].used <= MaxDispatches
                      /\ spentSteps + n + 0 <= blob[s].reserved
                      /\ blob[s].reserved <= MaxReserved
    BY <1>3, <1>7, <1>14 DEF Ledger, Live
  <2>1. s = run.sid
    BY <1>1, <1>15 DEF OneLive, Live
  <2> QED
    BY <1>2, <1>15, <2>1, LedgerNumbers DEF Live
<1>17. BudgetHonoured'
  <2> SUFFICES ASSUME NEW s \in Sessions, blob[s] # Nil, blob[s].kind = "budgeted"
               PROVE  spent + 1 <= MaxDispatches /\ spentSteps + n <= MaxReserved
    BY <1>3 DEF BudgetHonoured
  <2> QED
    BY <1>1, <1>2, <1>15, LedgerNumbers
<1>18. Handoffs'
  BY <1>7, <1>14 DEF Handoffs
<1>19. OneStagePerCall'
  BY <1>7 DEF OneStagePerCall, Checkpointing
<1> QED
  BY <1>8, <1>9, <1>10, <1>11, <1>12, <1>13, <1>16, <1>17, <1>18, <1>19

-----------------------------------------------------------------------------
(* Sessions that come into being. *)

\* What the invariant says while a session is being created.
LEMMA CreatingMeans ==
    ASSUME RunnerInv, run.pc \in Creating
    PROVE  /\ run \in Runs /\ run.op \in {"start", "replan"} /\ run.kid \in Blobs
           /\ ~ Reserved /\ ~ AboutToInvoke /\ ~ Checkpointing
           /\ Outstanding = 0 /\ OutstandingSteps = 0
           /\ run.op = "replan" => Started /\ run.sid \in Sessions /\ blob[run.sid] # Nil
  BY DEF RunnerInv, TypeOK, RunShape, InSync, Started, Creating, Reserved, AboutToInvoke,
         Checkpointing, Outstanding, OutstandingSteps

\* sessions.create takes an identifier under which nothing was ever saved.
LEMMA CreateSessionKeeps == ASSUME RunnerInv, NEW s \in Sessions, CreateSession(s) PROVE RunnerInv'
<1> USE DEF RunnerInv
<1>1. /\ run \in Runs /\ run.op \in {"start", "replan"} /\ run.kid \in Blobs /\ run.pc = "create"
      /\ ~ Reserved /\ Outstanding = 0 /\ OutstandingSteps = 0
      /\ srow[s] = "absent" /\ blob[s] = Nil /\ srow \in [Sessions -> {"absent", "open", "closed"}]
  BY CreatingMeans DEF CreateSession, Creating, OneLive, TypeOK
<1>2. /\ srow' = [srow EXCEPT ![s] = "open"]
      /\ run' = [run EXCEPT !.pc = "save_plan", !.kidSid = s]
      /\ blob' = blob /\ rows' = rows /\ held' = held
      /\ calls' = calls /\ spent' = spent /\ spentSteps' = spentSteps
  BY DEF CreateSession, history
<1>3. run' \in Runs
  <2>1. run \in Runs /\ run' = [run EXCEPT !.pc = "save_plan", !.kidSid = s]
    BY <1>1, <1>2
  <2> QED
    BY <2>1, Names DEF Runs
<1>4. /\ run'.pc = "save_plan" /\ run'.op = run.op /\ run'.sid = run.sid
      /\ run'.mem = run.mem /\ run'.nodes = run.nodes /\ run'.dec = run.dec
      /\ run'.kid = run.kid /\ run'.kidSid = s
  BY <1>1, <1>2 DEF Runs
<1>5. TypeOK'
  BY <1>1, <1>2, <1>3 DEF TypeOK
<1>6. RunShape'
  BY <1>1, <1>4 DEF RunShape, Started, Creating, Checkpointing
<1>7. InSync'
  BY <1>1, <1>2, <1>4 DEF InSync, Started
<1>8. OneLive'
  BY <1>1, <1>2, <1>4 DEF OneLive, Live
<1>9. ~ AboutToInvoke' /\ ~ Reserved' /\ Outstanding' = 0 /\ OutstandingSteps' = 0
  BY <1>4 DEF Reserved, AboutToInvoke, Checkpointing, Outstanding, OutstandingSteps
<1>10. RowsFence' /\ OneKind'
  BY <1>1, <1>2, <1>4, <1>9 DEF RowsFence, OneKind, Creating
<1>11. Ledger' /\ BudgetHonoured'
  BY <1>1, <1>2, <1>4, <1>9 DEF Ledger, Live, BudgetHonoured
<1>12. Handoffs' /\ OneStagePerCall'
  BY <1>1, <1>4, <1>9 DEF Handoffs, OneStagePerCall
<1> QED
  BY <1>5, <1>6, <1>7, <1>8, <1>10, <1>11, <1>12

\* The new plan's rows belong to a session that never executed anything.
LEMMA SavePlanKeeps == ASSUME RunnerInv, SavePlan PROVE RunnerInv'
<1> DEFINE plan == [st \in Stage |-> IF st \in StagesOf[run.kid.wf] THEN "pending" ELSE "absent"]
           k == run.kidSid
<1> USE DEF RunnerInv
<1>1. /\ run \in Runs /\ run.op \in {"start", "replan"} /\ run.kid \in Blobs /\ run.pc = "save_plan"
      /\ ~ Reserved /\ Outstanding = 0 /\ OutstandingSteps = 0
      /\ k \in Sessions /\ blob[k] = Nil /\ \A st \in Stage : calls[k][st] = 0
      /\ rows \in [Sessions -> [Stage -> NodeStatuses]]
      /\ run.op = "replan" => Started /\ run.sid \in Sessions /\ blob[run.sid] # Nil
  BY CreatingMeans DEF SavePlan, Creating, OneLive, TypeOK, RunShape
<1>2. plan \in [Stage -> NodeStatuses]
  BY DEF NodeStatuses
<1>3. /\ rows' = [rows EXCEPT ![k] = plan]
      /\ run' = [run EXCEPT !.pc = "save_state"]
      /\ blob' = blob /\ srow' = srow /\ held' = held
      /\ calls' = calls /\ spent' = spent /\ spentSteps' = spentSteps
  BY DEF SavePlan, history
<1> HIDE DEF plan
<1>4. run' \in Runs
  <2>1. run \in Runs /\ run' = [run EXCEPT !.pc = "save_state"]
    BY <1>1, <1>3
  <2> QED
    BY <2>1, Names DEF Runs
<1>5. /\ run'.pc = "save_state" /\ run'.op = run.op /\ run'.sid = run.sid
      /\ run'.mem = run.mem /\ run'.nodes = run.nodes /\ run'.dec = run.dec
      /\ run'.kid = run.kid /\ run'.kidSid = k
  BY <1>1, <1>3 DEF Runs
<1>6. TypeOK'
  BY <1>1, <1>2, <1>3, <1>4 DEF TypeOK
<1>7. RunShape'
  BY <1>1, <1>5 DEF RunShape, Started, Creating, Checkpointing
<1>8. InSync'
  BY <1>1, <1>3, <1>5 DEF InSync, Started
<1>9. OneLive'
  BY <1>1, <1>3, <1>5 DEF OneLive, Live
<1>10. ~ AboutToInvoke' /\ ~ Reserved' /\ Outstanding' = 0 /\ OutstandingSteps' = 0
  BY <1>5 DEF Reserved, AboutToInvoke, Checkpointing, Outstanding, OutstandingSteps
<1>11. RowsFence'
  BY <1>1, <1>3, <1>10 DEF RowsFence
<1>12. OneKind' /\ Ledger' /\ BudgetHonoured'
  BY <1>1, <1>3, <1>5, <1>10 DEF OneKind, Creating, Ledger, Live, BudgetHonoured
<1>13. Handoffs' /\ OneStagePerCall'
  BY <1>1, <1>5, <1>10 DEF Handoffs, OneStagePerCall
<1> QED
  BY <1>6, <1>7, <1>8, <1>9, <1>11, <1>12, <1>13

\* The new document becomes the live one when no other is, and its ledger
\* covers everything the mission has executed.
LEMMA SaveTaskStateKeeps == ASSUME RunnerInv, SaveTaskState PROVE RunnerInv'
<1> DEFINE k == run.kidSid
           b == run.kid
<1> USE DEF RunnerInv
<1>1. /\ run \in Runs /\ run.op \in {"start", "replan"} /\ b \in Blobs /\ run.pc = "save_state"
      /\ ~ Reserved /\ Outstanding = 0 /\ OutstandingSteps = 0
      /\ k \in Sessions /\ blob[k] = Nil /\ srow[k] # "absent"
      /\ blob \in [Sessions -> Blobs \cup {Nil}] /\ b # Nil
      /\ run.op = "replan" => Started /\ run.sid \in Sessions /\ blob[run.sid] # Nil
  BY CreatingMeans, NilAssumption DEF SaveTaskState, Creating, OneLive, TypeOK, RunShape
<1>2. /\ blob' = [blob EXCEPT ![k] = b]
      /\ rows' = rows /\ srow' = srow /\ held' = held
      /\ calls' = calls /\ spent' = spent /\ spentSteps' = spentSteps
  BY DEF SaveTaskState, history
<1>3. /\ blob' \in [Sessions -> Blobs \cup {Nil}] /\ blob'[k] = b
      /\ \A s \in Sessions : s # k => blob'[s] = blob[s]
  BY <1>1, <1>2
<1>4. \A s \in Sessions : ~ Live(s)
  BY <1>1 DEF OneLive, Live
<1>5. \A s \in Sessions : Live(s)' => s = k
  BY <1>3, <1>4 DEF Live
<1>6. \A s \in Sessions : blob'[s] # Nil => blob'[s].kind = b.kind
  BY <1>1, <1>3 DEF OneKind, Creating
<1>7. CASE run.op = "start"
  <2>1. run' = IdleRun
    BY <1>7 DEF SaveTaskState
  <2>2. /\ run'.pc = "idle" /\ run'.op = Nil
        /\ Nil # "start" /\ Nil # "replan" /\ Nil # "run" /\ Nil # "advance"
    BY <2>1, NilAssumption DEF IdleRun, Ops
  <2>3. /\ ~ Started' /\ ~ Checkpointing' /\ ~ AboutToInvoke' /\ ~ Reserved'
        /\ run'.pc \notin Creating /\ Outstanding' = 0 /\ OutstandingSteps' = 0
    BY <2>2 DEF Started, Checkpointing, AboutToInvoke, Reserved, Creating, Outstanding, OutstandingSteps
  <2>4. TypeOK'
    BY <1>2, <1>3, <2>1, IdleRunType DEF TypeOK
  <2>5. RunShape' /\ InSync'
    BY <2>1, <2>2, <2>3, NilAssumption DEF RunShape, IdleRun, Creating, Ops, InSync
  <2>6. OneLive'
    BY <1>1, <1>2, <1>3, <1>5, <2>2, <2>3 DEF OneLive
  <2>7. RowsFence' /\ OneKind'
    BY <1>1, <1>2, <1>3, <1>6, <2>3 DEF RowsFence, OneKind
  <2>8. Ledger' /\ BudgetHonoured'
    <3>1. b.kind = "budgeted" => /\ spent <= b.used /\ b.used <= MaxDispatches
                                 /\ spentSteps <= b.reserved /\ b.reserved <= MaxReserved
      BY <1>1 DEF Ledger
    <3>2. b.used \in Nat /\ b.reserved \in Nat
      BY <1>1 DEF Blobs
    <3>3. Ledger'
      BY <1>2, <1>3, <1>5, <2>2, <2>3, <3>1, <3>2, LedgerNumbers DEF Ledger
    <3>4. BudgetHonoured'
      BY <1>2, <1>6, <3>1, <3>2, LedgerNumbers DEF BudgetHonoured
    <3> QED
      BY <3>3, <3>4
  <2>9. Handoffs' /\ OneStagePerCall'
    BY <2>2, <2>3 DEF Handoffs, OneStagePerCall
  <2> QED
    BY <2>4, <2>5, <2>6, <2>7, <2>8, <2>9
<1>8. CASE run.op = "replan"
  <2>1. run' = [run EXCEPT !.pc = "link"]
    BY <1>8 DEF SaveTaskState
  <2>2. run' \in Runs
    <3>1. run \in Runs /\ run' = [run EXCEPT !.pc = "link"]
      BY <1>1, <2>1
    <3> QED
      BY <3>1, Names DEF Runs
  <2>3. /\ run'.pc = "link" /\ run'.op = "replan" /\ run'.sid = run.sid
        /\ run'.mem = run.mem /\ run'.nodes = run.nodes /\ run'.dec = run.dec
        /\ run'.kid = b /\ run'.kidSid = k
    BY <1>1, <1>8, <2>1 DEF Runs
  <2>4. ~ AboutToInvoke' /\ ~ Reserved' /\ Outstanding' = 0 /\ OutstandingSteps' = 0
    BY <2>3 DEF Reserved, AboutToInvoke, Checkpointing, Outstanding, OutstandingSteps
  <2>5. TypeOK'
    BY <1>2, <1>3, <2>2 DEF TypeOK
  <2>6. RunShape'
    BY <1>1, <1>8, <2>3 DEF RunShape, Started, Creating, Checkpointing
  <2>7. InSync'
    BY <1>1, <1>2, <1>3, <1>8, <2>3 DEF InSync
  <2>8. OneLive'
    <3>1. run.mem.stop # Nil
      BY <1>1, <1>4, <1>8 DEF InSync, Live
    <3> QED
      BY <1>1, <1>2, <1>3, <1>5, <2>3, <3>1 DEF OneLive
  <2>9. RowsFence' /\ OneKind'
    BY <1>1, <1>2, <1>3, <1>6, <2>3, <2>4 DEF RowsFence, OneKind
  <2>10. Ledger' /\ BudgetHonoured'
    <3>1. b.kind = "budgeted" => /\ spent <= b.used /\ b.used <= MaxDispatches
                                 /\ spentSteps <= b.reserved /\ b.reserved <= MaxReserved
      BY <1>1 DEF Ledger
    <3>2. b.used \in Nat /\ b.reserved \in Nat
      BY <1>1 DEF Blobs
    <3>3. Ledger'
      BY <1>2, <1>3, <1>5, <2>3, <2>4, <3>1, <3>2, LedgerNumbers DEF Ledger
    <3>4. BudgetHonoured'
      BY <1>2, <1>6, <3>1, <3>2, LedgerNumbers DEF BudgetHonoured
    <3> QED
      BY <3>3, <3>4
  <2>11. Handoffs' /\ OneStagePerCall'
    BY <2>3, <2>4 DEF Handoffs, OneStagePerCall
  <2> QED
    BY <2>5, <2>6, <2>7, <2>8, <2>9, <2>10, <2>11
<1> QED
  BY <1>1, <1>7, <1>8

\* Replanning stops the live session before its replacement exists, and hands
\* the replacement the ledger it had.
LEMMA ReplanCoreKeeps == ASSUME RunnerInv, NEW w \in Workflows, ReplanCore(w) PROVE RunnerInv'
<1> DEFINE b == ReplannedBlob(run.mem, run.dec)
           kid == ReplacementBlob(run.mem, run.sid, run.dec, w)
           p == run.sid
<1> USE DEF RunnerInv
<1>1. /\ Started /\ run.mem \in Blobs /\ run \in Runs /\ run.op = "replan" /\ run.pc = "enter"
      /\ run.nodes \in [Stage -> NodeStatuses] /\ p \in Sessions /\ run.dec \in Decisions
      /\ run.mem.stop = Nil
      /\ blob \in [Sessions -> Blobs \cup {Nil}] /\ blob[p] # Nil
  BY DEF ReplanCore, At, RunShape, Started, TypeOK, InSync, OneLive
<1>2. /\ b \in Blobs /\ b # Nil /\ b.stop # Nil /\ b.kind = run.mem.kind /\ b.wf = run.mem.wf
      /\ b.used = run.mem.used /\ b.reserved = run.mem.reserved
  BY <1>1, Stops, NilAssumption DEF Core
<1>3. /\ kid \in Blobs /\ kid.kind = run.mem.kind
      /\ kid.used = run.mem.used /\ kid.reserved = run.mem.reserved
  BY <1>1, Replacement
<1>4. /\ blob' = [blob EXCEPT ![p] = b]
      /\ run' = [run EXCEPT !.pc = "create", !.mem = b, !.kid = kid]
      /\ rows' = rows /\ srow' = srow /\ held' = held
      /\ calls' = calls /\ spent' = spent /\ spentSteps' = spentSteps
  BY DEF ReplanCore, Save, history
<1> HIDE DEF b, kid
<1>5. run' \in Runs
  <2>1. /\ run \in Runs /\ b \in Blobs /\ kid \in Blobs
        /\ run' = [run EXCEPT !.pc = "create", !.mem = b, !.kid = kid]
    BY <1>1, <1>2, <1>3, <1>4
  <2> QED
    BY <2>1, Names DEF Runs
<1>6. /\ run'.pc = "create" /\ run'.op = "replan" /\ run'.sid = p
      /\ run'.mem = b /\ run'.nodes = run.nodes /\ run'.dec = run.dec /\ run'.kid = kid
  BY <1>1, <1>4 DEF Runs
<1>7. /\ blob' \in [Sessions -> Blobs \cup {Nil}] /\ blob'[p] = b
      /\ \A s \in Sessions : s # p => blob'[s] = blob[s]
  BY <1>1, <1>2, <1>4
<1>8. Live(p) /\ \A s \in Sessions : ~ Live(s)'
  <2>1. Live(p)
    BY <1>1 DEF InSync, Live
  <2> QED
    BY <1>1, <1>2, <1>7, <2>1 DEF OneLive, Live
<1>9. TypeOK'
  BY <1>4, <1>5, <1>7 DEF TypeOK
<1>10. RunShape'
  BY <1>1, <1>2, <1>3, <1>6 DEF RunShape, Started, Creating, Checkpointing
<1>11. InSync'
  BY <1>1, <1>2, <1>4, <1>6, <1>7 DEF InSync
<1>12. OneLive'
  BY <1>1, <1>2, <1>4, <1>6, <1>7, <1>8 DEF OneLive
<1>13. /\ ~ AboutToInvoke' /\ ~ Reserved' /\ ~ Reserved
       /\ Outstanding = 0 /\ OutstandingSteps = 0
  BY <1>1, <1>6 DEF Reserved, AboutToInvoke, Checkpointing, Outstanding, OutstandingSteps
<1>14. RowsFence'
  BY <1>4, <1>13 DEF RowsFence
<1>15. \A s \in Sessions : /\ blob'[s] = Nil <=> blob[s] = Nil
                           /\ blob[s] # Nil => blob'[s].kind = blob[s].kind
  BY <1>1, <1>2, <1>7 DEF InSync
<1>16. OneKind'
  <2>1. \A s \in Sessions : blob[s] # Nil => blob[s].kind = kid.kind
    BY <1>1, <1>3 DEF OneKind, InSync
  <2> QED
    BY <1>1, <1>4, <1>6, <1>15, <2>1 DEF OneKind
<1>17. Ledger'
  <2> SUFFICES ASSUME kid.kind = "budgeted"
               PROVE  /\ spent <= kid.used /\ kid.used <= MaxDispatches
                      /\ spentSteps <= kid.reserved /\ kid.reserved <= MaxReserved
    BY <1>4, <1>6, <1>8 DEF Ledger
  <2>1. blob[p].kind = "budgeted" /\ blob[p].used = kid.used /\ blob[p].reserved = kid.reserved
    BY <1>1, <1>3 DEF InSync
  <2>2. /\ spent + 0 <= blob[p].used /\ blob[p].used <= MaxDispatches
        /\ spentSteps + 0 <= blob[p].reserved /\ blob[p].reserved <= MaxReserved
    BY <1>1, <1>8, <1>13, <2>1 DEF Ledger
  <2> QED
    BY <2>1, <2>2, LedgerNumbers
<1>18. BudgetHonoured'
  BY <1>4, <1>15 DEF BudgetHonoured
<1>19. Handoffs' /\ OneStagePerCall'
  BY <1>6, <1>13 DEF Handoffs, OneStagePerCall
<1> QED
  BY <1>9, <1>10, <1>11, <1>12, <1>14, <1>16, <1>17, <1>18, <1>19

\* A mission starts when no document exists, so nothing has been executed.
LEMMA StartKeeps == ASSUME RunnerInv, NEW k \in Kinds, NEW w \in Workflows, Start(k, w) PROVE RunnerInv'
<1> DEFINE kid == NewBlob(k, w)
<1> USE DEF RunnerInv
<1>1. /\ kid \in Blobs /\ kid.used = 0 /\ kid.reserved = 0
  <2>1. k \in {"plain", "core", "budgeted"}
    BY WorkflowAssumption
  <2> QED
    BY <2>1, NewSession
<1>2. /\ \A s \in Sessions : blob[s] = Nil
      /\ run' = [IdleRun EXCEPT !.op = "start", !.pc = "create", !.kid = kid]
      /\ blob' = blob /\ rows' = rows /\ srow' = srow /\ held' = held
      /\ calls' = calls /\ spent' = spent /\ spentSteps' = spentSteps
  BY DEF Start, store, history
<1> HIDE DEF kid
<1>3. run' \in Runs
  <2>1. /\ IdleRun \in Runs /\ kid \in Blobs
        /\ run' = [IdleRun EXCEPT !.op = "start", !.pc = "create", !.kid = kid]
    BY <1>1, <1>2, IdleRunType
  <2> QED
    BY <2>1, Names DEF Runs
<1>4. run'.op = "start" /\ run'.pc = "create" /\ run'.kid = kid
  BY <1>2 DEF IdleRun
<1>5. TypeOK'
  BY <1>2, <1>3 DEF TypeOK
<1>6. ~ Started' /\ ~ AboutToInvoke' /\ ~ Checkpointing' /\ ~ Reserved'
  BY <1>4 DEF Started, AboutToInvoke, Checkpointing, Reserved
<1>7. RunShape'
  BY <1>1, <1>4, <1>6, NilAssumption DEF RunShape, Creating, Ops
<1>8. InSync' /\ RowsFence'
  BY <1>2, <1>6 DEF InSync, RowsFence
<1>a. OneLive'
  BY <1>2, <1>4 DEF OneLive, Live
<1>b. OneKind'
  BY <1>2 DEF OneKind
<1>9. Ledger'
  <2>1. spent = 0 /\ spentSteps = 0
    BY <1>2 DEF OneKind
  <2> QED
    BY <1>1, <1>2, <1>4, <2>1, BoundsAssumption DEF Ledger, Live
<1>10. BudgetHonoured' /\ Handoffs' /\ OneStagePerCall'
  BY <1>2, <1>4, <1>6 DEF BudgetHonoured, Handoffs, OneStagePerCall
<1> QED
  BY <1>5, <1>7, <1>8, <1>a, <1>b, <1>9, <1>10

-----------------------------------------------------------------------------
(* Calls that enter. *)

\* A call loads a saved document and its rows; it keeps the invariant if what
\* it loaded justifies what the operation is about to do.
LEMMA Enters ==
    ASSUME RunnerInv, UNCHANGED <<store, held, history>>, NEW s \in Sessions, blob[s] # Nil,
           run' \in Runs, run'.sid = s, run'.mem = blob[s], run'.nodes = rows[s],
           run'.pc \in {"enter", "recover"}, run'.pc = "recover" <=> run'.op = "run",
           run'.op # Nil, run'.op # "start",
           run'.op = "replan" => blob[s].stop = Nil,
           run'.op \in {"advance", "approve", "review", "stop", "replan"} => run'.dec \in Decisions,
           run'.op = "approve" => run'.stage \in Stage,
           run'.op = "advance" /\ run'.dec.outcome \in {"delegate", "await_approval"}
              => run'.stage \in Stage,
           Handoffs'
    PROVE  RunnerInv'
<1> USE DEF RunnerInv
<1>1. blob[s] \in Blobs /\ rows[s] \in [Stage -> NodeStatuses]
  BY DEF TypeOK
<1>2. /\ blob' = blob /\ rows' = rows /\ srow' = srow /\ held' = held
      /\ calls' = calls /\ spent' = spent /\ spentSteps' = spentSteps
  BY DEF store, history
<1>3. TypeOK'
  BY <1>2 DEF TypeOK
<1>4. Started' /\ ~ AboutToInvoke' /\ ~ Checkpointing' /\ ~ Reserved'
      /\ run'.pc \notin Creating
  BY DEF Started, AboutToInvoke, Checkpointing, Reserved, Creating
<1>5. RunShape'
  BY <1>1, <1>4 DEF RunShape, Creating
<1>6. InSync'
  BY <1>2 DEF InSync
<1>7. OneLive' /\ RowsFence'
  BY <1>2, <1>4 DEF OneLive, Live, RowsFence
<1>8. OneKind' /\ BudgetHonoured'
  BY <1>2, <1>4 DEF OneKind, BudgetHonoured
<1>9. Ledger'
  <2> SUFFICES ASSUME NEW t \in Sessions, Live(t), blob[t].kind = "budgeted"
               PROVE  /\ spent + 0 <= blob[t].used /\ blob[t].used <= MaxDispatches
                      /\ spentSteps + 0 <= blob[t].reserved /\ blob[t].reserved <= MaxReserved
    BY <1>2, <1>4 DEF Ledger, Live, Outstanding, OutstandingSteps
  <2> QED
    BY LedgerNumbers DEF Ledger, Live
<1>10. OneStagePerCall'
  BY <1>4 DEF OneStagePerCall, Checkpointing
<1> QED
  BY <1>3, <1>5, <1>6, <1>7, <1>8, <1>9, <1>10

\* What Enter puts in the call's memory.
LEMMA EnterMeans ==
    ASSUME RunnerInv, NEW op \in Ops, NEW s \in Sessions, NEW d \in Decisions \cup {Nil},
           NEW st \in Stage \cup {Nil}, blob[s] # Nil, Enter(op, s, d, st)
    PROVE  /\ run' \in Runs /\ run'.op = op /\ run'.pc = "enter" /\ run'.sid = s
           /\ run'.mem = blob[s] /\ run'.nodes = rows[s] /\ run'.dec = d /\ run'.stage = st
<1>1. blob[s] \in Blobs /\ rows[s] \in [Stage -> NodeStatuses]
  BY DEF RunnerInv, TypeOK
<1>2. run' = [IdleRun EXCEPT !.op = op, !.pc = "enter", !.sid = s, !.mem = blob[s],
                             !.nodes = rows[s], !.dec = d, !.stage = st]
  BY DEF Enter
<1>3. run' \in Runs
  BY <1>1, <1>2, IdleRunType, Names DEF Runs
<1> QED
  BY <1>2, <1>3, IdleRunType DEF Runs

\* Entering decide_core loads and changes nothing.
LEMMA CallDecideKeeps == ASSUME RunnerInv, NEW s \in Sessions, CallDecide(s) PROVE RunnerInv'
<1>1. blob[s] # Nil /\ Enter("decide", s, Nil, Nil) /\ UNCHANGED <<store, held, history>>
  BY DEF CallDecide, CanEnter, Loadable
<1>2. /\ run' \in Runs /\ run'.op = "decide" /\ run'.pc = "enter" /\ run'.sid = s
      /\ run'.mem = blob[s] /\ run'.nodes = rows[s]
  BY <1>1, EnterMeans, Names
<1>3. Nil # "decide"
  BY NilAssumption, Names
<1>4. Handoffs'
  BY <1>2 DEF Handoffs, Reserved
<1> QED
  BY <1>1, <1>2, <1>3, <1>4, Enters

\* A decision that passes _validate_core_decision was made on exactly the
\* state the call loaded, so a delegation is covered by its budget.
LEMMA CallCoreKeeps ==
    ASSUME RunnerInv, NEW s \in Sessions,
           NEW op \in {"advance", "approve", "review", "stop", "replan"}, CallCore(op, s)
    PROVE  RunnerInv'
<1>1. /\ blob[s] # Nil /\ Enter(op, s, held, held.stage) /\ UNCHANGED <<store, held, history>>
      /\ held # Nil /\ ValidDecision(s, blob[s], rows[s], held)
      /\ op = "approve" => held.outcome = "await_approval"
      /\ op = "replan" => blob[s].stop = Nil
  BY DEF CallCore, CanEnter, Loadable, MayReplan
<1>2. /\ blob[s] \in Blobs /\ rows[s] \in [Stage -> NodeStatuses] /\ held \in Decisions
      /\ op \in Ops /\ op # Nil
  BY <1>1, NilAssumption DEF RunnerInv, TypeOK, Ops
<1>3. held = Decide(s, blob[s], rows[s])
  BY <1>1 DEF ValidDecision
<1>4. /\ held.outcome = Outcome(blob[s], rows[s])
      /\ held.outcome \in {"delegate", "await_approval"} =>
            held.stage = NextStage(blob[s].wf, rows[s]) /\ held.stage \in Stage
  BY <1>2, <1>3, DecideType
<1>5. held.stage \in Stage \cup {Nil}
  BY <1>2 DEF Decisions
<1>6. /\ run' \in Runs /\ run'.op = op /\ run'.pc = "enter" /\ run'.sid = s
      /\ run'.mem = blob[s] /\ run'.nodes = rows[s] /\ run'.dec = held /\ run'.stage = held.stage
  BY <1>1, <1>2, <1>5, EnterMeans
<1>7. Handoffs'
  <2>1. held.outcome = "delegate" =>
           /\ blob[s].stop = Nil
           /\ BudgetCovers(blob[s], Steps[blob[s].wf][held.stage])
    BY <1>2, <1>4, DelegateMeans
  <2>2. ~ Reserved'
    BY <1>6 DEF Reserved, AboutToInvoke, Checkpointing
  <2>3. op = "advance" /\ held.outcome = "delegate" =>
           BudgetCovers(run'.mem, Steps[run'.mem.wf][run'.stage])
    BY <1>6, <2>1
  <2> QED
    BY <1>6, <2>1, <2>2, <2>3 DEF Handoffs, BudgetCovers
<1> QED
  BY <1>1, <1>2, <1>4, <1>6, <1>7, Enters

\* run() enters only sessions that are neither stopped nor budgeted.
LEMMA CallRunKeeps ==
    ASSUME RunnerInv, NEW s \in Sessions, NEW st \in Stage \cup {Nil}, CallRun(s, st)
    PROVE  RunnerInv'
<1>1. /\ blob[s] # Nil /\ UNCHANGED <<store, held, history>>
      /\ blob[s].stop = Nil /\ blob[s].kind # "budgeted"
      /\ run' = [IdleRun EXCEPT !.op = "run", !.pc = "recover", !.sid = s, !.mem = blob[s],
                                !.nodes = rows[s], !.stage = st]
  BY DEF CallRun, CanEnter, Loadable, CompatibilityRefused
<1>2. blob[s] \in Blobs /\ rows[s] \in [Stage -> NodeStatuses]
  BY <1>1 DEF RunnerInv, TypeOK
<1>3. run' \in Runs
  <2>1. ASSUME NEW b \in Blobs, NEW n \in [Stage -> NodeStatuses]
        PROVE  [IdleRun EXCEPT !.op = "run", !.pc = "recover", !.sid = s, !.mem = b,
                               !.nodes = n, !.stage = st] \in Runs
    BY IdleRunType, Names DEF Runs
  <2> QED
    BY <1>1, <1>2, <2>1
<1>4. /\ run'.op = "run" /\ run'.pc = "recover" /\ run'.sid = s
      /\ run'.mem = blob[s] /\ run'.nodes = rows[s]
  BY <1>1, IdleRunType DEF Runs
<1>5. Nil # "run"
  BY NilAssumption, Names
<1>6. Handoffs'
  BY <1>1, <1>4 DEF Handoffs, Reserved
<1> QED
  BY <1>1, <1>3, <1>4, <1>5, <1>6, Enters

\* issued_core hands out a saved decision and changes no record.
LEMMA IssuedCoreKeeps == ASSUME RunnerInv, NEW s \in Sessions, IssuedCore(s) PROVE RunnerInv'
<1>1. /\ run = IdleRun /\ run' = IdleRun /\ UNCHANGED <<rows, srow, history>> /\ UNCHANGED blob
      /\ held' = blob[s].decision /\ blob[s] # Nil
  BY DEF IssuedCore, Idle, RunnerInv, RunShape, store, Loadable
<1>2. blob' \in [Sessions -> Blobs \cup {Nil}] /\ held' \in Decisions \cup {Nil}
  BY <1>1 DEF RunnerInv, TypeOK, Blobs
<1>3. \A t \in Sessions : Kept(t)
  BY <1>1 DEF Kept
<1> QED
  BY <1>1, <1>2, <1>3, ReturnsSaved

-----------------------------------------------------------------------------
(* The theorems. *)

\* The empty store satisfies the invariant.
LEMMA InitHolds == Init => RunnerInv
<1> SUFFICES ASSUME Init PROVE RunnerInv
  OBVIOUS
<1>1. /\ run.pc = "idle" /\ run.op = Nil /\ run = IdleRun
      /\ Nil # "start" /\ Nil # "replan" /\ Nil # "run" /\ Nil # "advance"
  BY NilAssumption DEF Init, IdleRun, Ops
<1>2. ~ Started /\ ~ Checkpointing /\ ~ AboutToInvoke /\ ~ Reserved /\ run.pc \notin Creating
  BY <1>1 DEF Started, Checkpointing, AboutToInvoke, Reserved, Creating
<1>3. TypeOK
  BY IdleRunType DEF Init, TypeOK, NodeStatuses
<1>4. RunShape /\ InSync
  BY <1>1, <1>2, NilAssumption DEF RunShape, InSync, Creating, Ops
<1>5. OneLive /\ RowsFence /\ OneKind
  BY <1>1, <1>2 DEF Init, OneLive, Live, RowsFence, OneKind
<1>6. Ledger /\ BudgetHonoured
  BY <1>1, <1>2 DEF Init, Ledger, Live, BudgetHonoured, Creating
<1>7. Handoffs /\ OneStagePerCall
  BY <1>1, <1>2 DEF Handoffs, OneStagePerCall
<1> QED
  BY <1>3, <1>4, <1>5, <1>6, <1>7 DEF RunnerInv

\* Every step of the specification keeps the invariant.
LEMMA NextKeeps == RunnerInv /\ [Next]_vars => RunnerInv'
<1> SUFFICES ASSUME RunnerInv, [Next]_vars PROVE RunnerInv'
  OBVIOUS
<1>1. CASE Step
  <2>1. CASE \E s \in Sessions : CreateSession(s)
    BY <2>1, CreateSessionKeeps
  <2>2. CASE SavePlan
    BY <2>2, SavePlanKeeps
  <2>3. CASE SaveTaskState
    BY <2>3, SaveTaskStateKeeps
  <2>4. CASE LinkReplacement
    BY <2>4, LinkReplacementKeeps
  <2>5. CASE DecideCore
    BY <2>5, DecideCoreKeeps
  <2>6. CASE ReviewCore
    BY <2>6, ReviewCoreKeeps
  <2>7. CASE StopCore
    BY <2>7, StopCoreKeeps
  <2>8. CASE \E w \in Workflows : ReplanCore(w)
    BY <2>8, ReplanCoreKeeps
  <2>9. CASE AdvanceSettle
    BY <2>9, AdvanceSettleKeeps
  <2>10. CASE AdvanceAwait
    BY <2>10, AdvanceAwaitKeeps
  <2>11. CASE AdvanceHandoff
    BY <2>11, AdvanceHandoffKeeps
  <2>12. CASE RecoverInterrupted
    BY <2>12, RecoverInterruptedKeeps
  <2>13. CASE ApproveCoreStage
    BY <2>13, ApproveCoreStageKeeps
  <2>14. CASE ApproveHumanStage
    BY <2>14, ApproveHumanStageKeeps
  <2>15. CASE \E st \in Stage : LoopHuman(st)
    BY <2>15, LoopHumanKeeps
  <2>16. CASE \E st \in Stage : LoopAgent(st)
    BY <2>16, LoopAgentKeeps
  <2>17. CASE LoopEnd
    BY <2>17, LoopEndKeeps
  <2>18. CASE CheckpointRow
    BY <2>18, CheckpointRowKeeps
  <2>19. CASE CheckpointSave
    BY <2>19, CheckpointSaveKeeps
  <2>20. CASE InvokeExecutor
    BY <2>20, InvokeExecutorKeeps
  <2>21. CASE \E r \in Results : RecordResult(r)
    BY <2>21, RecordResultKeeps
  <2>22. CASE Settle
    BY <2>22, SettleKeeps
  <2>23. CASE CloseSession
    BY <2>23, CloseSessionKeeps
  <2> QED
    BY <1>1, <2>1, <2>2, <2>3, <2>4, <2>5, <2>6, <2>7, <2>8, <2>9, <2>10, <2>11, <2>12,
       <2>13, <2>14, <2>15, <2>16, <2>17, <2>18, <2>19, <2>20, <2>21, <2>22, <2>23 DEF Step
<1>2. CASE Request
  BY <1>2, StartKeeps, CallDecideKeeps, IssuedCoreKeeps, CallCoreKeeps, CallRunKeeps DEF Request
<1>3. CASE Crash
  BY <1>3, ReturnsUnchanged DEF Crash
<1>4. CASE UNCHANGED vars
  <2>1. run' = run /\ blob' = blob /\ rows' = rows /\ srow' = srow /\ held' = held
        /\ calls' = calls /\ spent' = spent /\ spentSteps' = spentSteps
    BY <1>4 DEF vars
  <2> QED
    BY <2>1 DEF RunnerInv, TypeOK, RunShape, InSync, OneLive, RowsFence, OneKind, Ledger,
        BudgetHonoured, Handoffs, OneStagePerCall, Started, Checkpointing, AboutToInvoke,
        Reserved, Outstanding, OutstandingSteps, Live
<1> QED
  BY <1>1, <1>2, <1>3, <1>4 DEF Next

\* The invariant between the durable writes: whatever the workflows, the
\* budget and the number of sessions, every step of every call, and a crash at
\* any point, keeps the fences and the ledger.
THEOREM RunnerInvariantHolds == Spec => []RunnerInv
  BY InitHolds, NextKeeps, PTL DEF Spec

\* Every record of the store and of the call in flight keeps its shape.
THEOREM TypeCorrect == Spec => []TypeOK
<1>1. RunnerInv => TypeOK
  BY DEF RunnerInv
<1> QED
  BY <1>1, RunnerInvariantHolds, PTL

\* No automatic replay: a stage's executor is called at most once per session.
THEOREM NeverReplays == Spec => []NoReplay
<1>1. RunnerInv => NoReplay
  BY DEF RunnerInv, RowsFence, NoReplay
<1> QED
  BY <1>1, RunnerInvariantHolds, PTL

\* The budget of a mission covers everything it dispatches over its whole
\* lineage of sessions.
THEOREM BudgetIsHonoured == Spec => []BudgetHonoured
<1>1. RunnerInv => BudgetHonoured
  BY DEF RunnerInv
<1> QED
  BY <1>1, RunnerInvariantHolds, PTL

\* A replacement cannot fork a live mission.
THEOREM NeverForks == Spec => []SingleLiveSession
<1>1. RunnerInv => SingleLiveSession
  BY DEF RunnerInv, OneLive, Live, SingleLiveSession
<1> QED
  BY <1>1, RunnerInvariantHolds, PTL

-----------------------------------------------------------------------------
(* Completion, progress and handoffs: the same steps, against WorkInv. *)

\* Nil is none of the names that the fields of a call are compared with.
LEMMA IdleIsOut ==
    /\ IdleRun.pc = "idle" /\ IdleRun.op = Nil
    /\ Nil \notin {"start", "decide", "advance", "approve", "review", "stop", "replan", "run"}
  BY NilAssumption DEF IdleRun, Ops

\* A stopped session stays stopped, with its reservations and executions.
StopStays ==
    \A s \in Sessions :
        blob[s] # Nil /\ blob[s].stop # Nil =>
            /\ blob'[s].stop # Nil
            /\ blob'[s].used = blob[s].used
            /\ calls'[s] = calls[s]

\* Touching and consuming a document keep its status and its results.
LEMMA StatusWrites ==
    ASSUME NEW b \in Blobs
    PROVE  /\ Touch(b).status = b.status /\ Touch(b).active = b.active
           /\ Consume(b).status = b.status /\ Consume(b).active = b.active
           /\ \A v \in TaskStatuses : Mark(b, v).status = v /\ Mark(b, v).active = b.active
<1>1. \A c \in Blobs : Touch(c).status = c.status /\ Touch(c).active = c.active
  BY DEF Touch, Blobs
<1>2. Consume(b).status = b.status /\ Consume(b).active = b.active
  BY DEF Consume, Blobs
<1>3. \A v \in TaskStatuses : Mark(b, v).status = v /\ Mark(b, v).active = b.active
  <2> SUFFICES ASSUME NEW v \in TaskStatuses
               PROVE  Mark(b, v).status = v /\ Mark(b, v).active = b.active
    OBVIOUS
  <2> DEFINE c == [b EXCEPT !.status = v]
  <2>1. c \in Blobs /\ c.status = v /\ c.active = b.active
    BY FieldWrites DEF Blobs
  <2>2. Mark(b, v) = Touch(c)
    BY DEF Mark
  <2> QED
    BY <1>1, <2>1, <2>2
<1> QED
  BY <1>1, <1>2, <1>3

\* A stop leaves a document complete only if it was; a transition never does.
LEMMA StopsStatus ==
    ASSUME NEW b \in Blobs, NEW d \in Decisions
    PROVE  /\ StoppedBlob(b, d).active = b.active
           /\ StoppedBlob(b, d).status = "complete" => b.status = "complete"
           /\ ReplannedBlob(b, d).active = b.active
           /\ ReplannedBlob(b, d).status # "complete"
<1> DEFINE x == IF b.status \in {"complete", "failed"} THEN Touch(b) ELSE Mark(b, "blocked")
           y == IF b.status = "failed" THEN Touch(b) ELSE Mark(b, "blocked")
           z == [y EXCEPT !.replan = d]
           stop(c) == [c EXCEPT !.stop = d]
<1>0. "blocked" \in TaskStatuses
  BY DEF TaskStatuses
<1>1. x \in Blobs /\ x.active = b.active /\ (x.status = "complete" => b.status = "complete")
  BY <1>0, Updates, StatusWrites
<1>2. y \in Blobs /\ y.active = b.active /\ y.status # "complete"
  BY <1>0, Updates, StatusWrites
<1>3. z \in Blobs /\ z.active = y.active /\ z.status = y.status
  BY <1>2, FieldWrites, SMTT(40) DEF Blobs
<1>4. \A c \in Blobs : stop(c) \in Blobs /\ stop(c).active = c.active /\ stop(c).status = c.status
  BY FieldWrites DEF Blobs
<1>5. StoppedBlob(b, d) = Consume(stop(x))
  BY DEF StoppedBlob
<1>6. ReplannedBlob(b, d) = Consume(stop(z))
  BY DEF ReplannedBlob
<1> HIDE DEF x, y, z, stop
<1> QED
  BY <1>1, <1>2, <1>3, <1>4, <1>5, <1>6, StatusWrites

\* A handoff keeps the status and the results.
LEMMA HandoffStatus ==
    ASSUME NEW b \in Blobs, NEW st \in Stage
    PROVE  /\ Handoff(b, st).status = b.status /\ Handoff(b, st).active = b.active
           /\ Handoff(b, st).pending = st
<1>1. b.wf \in Workflows /\ Steps[b.wf][st] \in Nat /\ b.used \in Nat /\ b.reserved \in Nat
  <2>1. b.wf \in Workflows /\ b.used \in Nat /\ b.reserved \in Nat
    BY DEF Blobs
  <2>2. Steps[b.wf][st] \in 1..32
    BY <2>1, WorkflowAssumption
  <2> QED
    BY <2>1, <2>2
<1> DEFINE a == Consume(b)
           c == [a EXCEPT !.pending = st]
           e == [c EXCEPT !.used = c.used + 1]
           f == [e EXCEPT !.reserved = e.reserved + Steps[b.wf][st]]
<1>2. a \in Blobs /\ a.status = b.status /\ a.active = b.active
  BY Updates, StatusWrites
<1> HIDE DEF a
<1>3. c \in Blobs /\ c.status = b.status /\ c.active = b.active /\ c.pending = st
  BY <1>2, FieldWrites DEF Blobs
<1> HIDE DEF c
<1>4. c.used + 1 \in Nat
  BY <1>3 DEF Blobs
<1>5. e \in Blobs /\ e.status = b.status /\ e.active = b.active /\ e.pending = st
  BY <1>3, <1>4, FieldWrites DEF Blobs
<1> HIDE DEF e
<1>6. e.reserved + Steps[b.wf][st] \in Nat
  BY <1>1, <1>5 DEF Blobs
<1>7. f \in Blobs /\ f.status = b.status /\ f.active = b.active /\ f.pending = st
  BY <1>5, <1>6, FieldWrites DEF Blobs
<1>8. Handoff(b, st) = IF b.kind = "budgeted" THEN Touch(f) ELSE c
  BY <1>3, <1>5 DEF Handoff, Blobs, a, c, e
<1> HIDE DEF f
<1> QED
  BY <1>3, <1>7, <1>8, Updates, StatusWrites DEF Core

\* What a call works on, and that its memory fits its session as the store does.
LEMMA Mine ==
    ASSUME RunnerInv, WorkInv, Started
    PROVE  /\ run.sid \in Sessions /\ run \in Runs
           /\ blob[run.sid] # Nil /\ blob[run.sid] \in Blobs
           /\ run.mem # Nil /\ run.mem \in Blobs /\ run.mem.wf \in Workflows
           /\ StagesOf[run.mem.wf] \subseteq Stage
           /\ run.nodes \in [Stage -> NodeStatuses] /\ run.nodes = rows[run.sid]
           /\ run.mem.kind = blob[run.sid].kind /\ run.mem.wf = blob[run.sid].wf
           /\ run.mem.stop = blob[run.sid].stop /\ run.mem.used = blob[run.sid].used
           /\ SessionFits(blob[run.sid], run.nodes, calls[run.sid], srow[run.sid])
           /\ SessionFits(run.mem, run.nodes, calls[run.sid], srow[run.sid])
           /\ CallFits(run, blob[run.sid], calls[run.sid])
<1>1. /\ run.sid \in Sessions /\ run \in Runs /\ blob[run.sid] # Nil
      /\ run.mem \in Blobs /\ run.mem # Nil /\ blob[run.sid] \in Blobs
      /\ run.nodes \in [Stage -> NodeStatuses] /\ run.nodes = rows[run.sid]
      /\ run.mem.kind = blob[run.sid].kind /\ run.mem.wf = blob[run.sid].wf
      /\ run.mem.stop = blob[run.sid].stop /\ run.mem.used = blob[run.sid].used
  BY NilAssumption DEF RunnerInv, RunShape, InSync, TypeOK
<1>2. run.mem.wf \in Workflows /\ StagesOf[run.mem.wf] \subseteq Stage
  BY <1>1, WorkflowAssumption DEF Blobs
<1>3. /\ SessionFits(blob[run.sid], run.nodes, calls[run.sid], srow[run.sid])
      /\ CallFits(run, blob[run.sid], calls[run.sid])
  BY <1>1 DEF WorkInv
<1>4. SessionFits(run.mem, run.nodes, calls[run.sid], srow[run.sid])
  BY <1>1, <1>3 DEF SessionFits, CallFits, MemoryFits
<1> QED
  BY <1>1, <1>2, <1>3, <1>4

\* A session with a stage left is neither closed nor completed by Core.
LEMMA Unfinished ==
    ASSUME NEW b, b # Nil, NEW n, NEW called, NEW row, SessionFits(b, n, called, row),
           NEW st \in StagesOf[b.wf], n[st] # "success"
    PROVE  row # "closed" /\ (b.kind # "plain" => b.status # "complete")
  BY DEF SessionFits, Proven, AllSucceeded

\* A step of a loaded call changes the store in its own session only; it keeps
\* the invariant if that session and the call fit afterwards, if it releases
\* no stop, and if it leaves nothing unresolved in a session that is stopped.
LEMMA WorkFrame ==
    ASSUME RunnerInv, WorkInv, Started,
           \A s \in Sessions \ {run.sid} :
              blob'[s] = blob[s] /\ rows'[s] = rows[s] /\ calls'[s] = calls[s] /\ srow'[s] = srow[s],
           SessionFits(blob'[run.sid], rows'[run.sid], calls'[run.sid], srow'[run.sid]),
           Started' => run'.sid = run.sid /\ CallFits(run', blob'[run.sid], calls'[run.sid]),
           run'.pc \in Creating => run'.kid.status = "investigating",
           blob'[run.sid].stop = Nil => blob[run.sid].stop = Nil,
           run.mem.stop # Nil =>
              blob'[run.sid].used = run.mem.used /\ calls'[run.sid] = calls[run.sid],
           Live(run.sid) \/ (Quiet(blob[run.sid], rows[run.sid])
                             => Quiet(blob'[run.sid], rows'[run.sid])),
           run'.op = "replan" /\ run'.pc \in {"create", "save_plan", "save_state"} =>
              \A t \in Sessions : Quiet(blob'[t], rows'[t])
    PROVE  WorkInv' /\ StopStays
<1>1. \A s \in Sessions : SessionFits(blob'[s], rows'[s], calls'[s], srow'[s])
  BY DEF WorkInv
<1>2. Started' => CallFits(run', blob'[run'.sid], calls'[run'.sid])
  OBVIOUS
<1>3. ASSUME NEW s \in Sessions, NEW t \in Sessions, Live(s)', t # s
      PROVE  Quiet(blob'[t], rows'[t])
  <2>1. Live(s)
    BY <1>3, Mine DEF Live
  <2>2. Quiet(blob[t], rows[t])
    BY <1>3, <2>1 DEF WorkInv, OthersQuiet
  <2>3. Live(run.sid) => t # run.sid
    BY <1>3, <2>1 DEF RunnerInv, OneLive
  <2> QED
    BY <2>2, <2>3, Mine
<1>4. OthersQuiet'
  BY <1>3 DEF OthersQuiet
<1>5. StopStays
  BY Mine DEF StopStays
<1> QED
  BY <1>1, <1>2, <1>4, <1>5 DEF WorkInv

\* Such a step that saves a document of the session, and returns or goes on.
LEMMA WorkSaves ==
    ASSUME RunnerInv, WorkInv, Started, UNCHANGED <<rows, srow, history>>,
           NEW b \in Blobs, Save(b),
           b.kind = run.mem.kind, b.wf = run.mem.wf,
           b.stop = Nil => run.mem.stop = Nil,
           run.mem.stop # Nil => b.used = run.mem.used,
           run.mem.stop = Nil \/ b.pending \in {run.mem.pending, blob[run.sid].pending, Nil},
           b.kind # "plain" /\ b.status = "complete" => Proven(b, run.nodes, calls[run.sid]),
           \/ run' = IdleRun
           \/ run'.sid = run.sid /\ run'.pc \notin Creating /\ CallFits(run', b, calls[run.sid])
    PROVE  WorkInv' /\ StopStays
<1>1. b # Nil /\ blob \in [Sessions -> Blobs \cup {Nil}]
  BY NilAssumption DEF RunnerInv, TypeOK
<1>2. blob' = [blob EXCEPT ![run.sid] = b] /\ rows' = rows /\ srow' = srow /\ calls' = calls
  BY DEF Save, history
<1>3. blob'[run.sid] = b /\ \A s \in Sessions \ {run.sid} : blob'[s] = blob[s]
  BY <1>1, <1>2, Mine
<1>4. SessionFits(b, run.nodes, calls[run.sid], srow[run.sid])
  BY <1>1, Mine DEF SessionFits
<1>5. Live(run.sid) \/ b.pending \in {blob[run.sid].pending, Nil}
  BY Mine DEF Live, CallFits, MemoryFits
<1>6. Live(run.sid) \/ (Quiet(blob[run.sid], rows[run.sid]) => Quiet(b, rows[run.sid]))
  BY <1>5, Mine DEF Quiet
<1>7. /\ run' = IdleRun => ~ Started'
      /\ run'.pc \notin Creating
  BY IdleIsOut DEF Started, Creating
<1> QED
  BY <1>2, <1>3, <1>4, <1>6, <1>7, Mine, WorkFrame DEF Creating

\* Such a step that saves nothing.
LEMMA WorkMoves ==
    ASSUME RunnerInv, WorkInv, Started, UNCHANGED <<store, held, history>>,
           \/ run' = IdleRun
           \/ /\ run'.sid = run.sid /\ run'.pc \notin Creating
              /\ CallFits(run', blob[run.sid], calls[run.sid])
    PROVE  WorkInv' /\ StopStays
<1>1. blob' = blob /\ rows' = rows /\ srow' = srow /\ calls' = calls
  BY DEF store, history
<1>2. /\ run' = IdleRun => ~ Started'
      /\ run'.pc \notin Creating
  BY IdleIsOut DEF Started, Creating
<1> QED
  BY <1>1, <1>2, Mine, WorkFrame DEF Creating

\* DecideCore keeps WorkInv and withdraws no stop.
LEMMA DecideCoreWorks == ASSUME RunnerInv, WorkInv, DecideCore PROVE WorkInv' /\ StopStays
<1> DEFINE d == Decide(run.sid, run.mem, run.nodes)
           c == [run.mem EXCEPT !.decision = d]
           b == [c EXCEPT !.consumed = FALSE]
<1>1. Started
  BY DEF DecideCore, At, RunnerInv, RunShape, Started
<1>2. d \in Decisions
  BY <1>1, Mine, DecideType
<1> HIDE DEF d
<1>3. /\ c \in Blobs /\ Core(c) = Core(run.mem)
      /\ c.status = run.mem.status /\ c.active = run.mem.active
  <2>1. run.mem \in Blobs
    BY <1>1, Mine
  <2> QED
    BY <1>2, <2>1, FieldWrites DEF Core, Blobs
<1> HIDE DEF c
<1>a. b \in Blobs
  BY <1>3, FieldWrites
<1>4. Core(b) = Core(run.mem) /\ b.status = run.mem.status /\ b.active = run.mem.active
  BY <1>3 DEF Core, Blobs
<1>5. Save(b) /\ run' = IdleRun /\ UNCHANGED <<rows, srow, history>>
  BY DEF DecideCore, c, d
<1> HIDE DEF b
<1>6. b.kind # "plain" /\ b.status = "complete" => Proven(b, run.nodes, calls[run.sid])
  BY <1>1, <1>4, Mine DEF CallFits, MemoryFits, Proven, Core
<1> QED
  BY <1>1, <1>a, <1>4, <1>5, <1>6, WorkSaves DEF Core

\* ReviewCore keeps WorkInv and withdraws no stop.
LEMMA ReviewCoreWorks == ASSUME RunnerInv, WorkInv, ReviewCore PROVE WorkInv' /\ StopStays
<1> DEFINE m == IF run.dec.outcome = "failed" THEN "failed" ELSE "blocked"
           a == Mark(run.mem, m)
           b == Consume(a)
<1>1. Started
  BY DEF ReviewCore, At, RunnerInv, RunShape, Started
<1>2. m \in TaskStatuses /\ m # "complete"
  BY Names
<1>3. a \in Blobs /\ Core(a) = Core(run.mem) /\ a.status # "complete"
  BY <1>1, <1>2, Mine, Updates, StatusWrites
<1>4. b \in Blobs /\ Core(b) = Core(run.mem) /\ b.status # "complete"
  BY <1>3, Updates, StatusWrites
<1>5. Save(b) /\ run' = IdleRun /\ UNCHANGED <<rows, srow, history>>
  BY DEF ReviewCore
<1> HIDE DEF b
<1> QED
  BY <1>1, <1>4, <1>5, WorkSaves DEF Core

\* StopCore keeps WorkInv and withdraws no stop.
LEMMA StopCoreWorks == ASSUME RunnerInv, WorkInv, StopCore PROVE WorkInv' /\ StopStays
<1> DEFINE b == StoppedBlob(run.mem, run.dec)
<1>1. Started /\ run.dec \in Decisions
  BY DEF StopCore, At, RunnerInv, RunShape, Started
<1>2. /\ b \in Blobs /\ b.kind = run.mem.kind /\ b.wf = run.mem.wf /\ b.stop # Nil /\ b.used = run.mem.used
      /\ b.pending = run.mem.pending /\ b.active = run.mem.active
      /\ b.status = "complete" => run.mem.status = "complete"
  BY <1>1, Mine, Stops, StopsStatus, NilAssumption DEF Core
<1>3. Save(b) /\ run' = IdleRun /\ UNCHANGED <<rows, srow, history>>
  BY DEF StopCore
<1> HIDE DEF b
<1>4. b.kind # "plain" /\ b.status = "complete" => Proven(b, run.nodes, calls[run.sid])
  BY <1>1, <1>2, Mine DEF CallFits, MemoryFits, Proven
<1> QED
  BY <1>1, <1>2, <1>3, <1>4, WorkSaves

\* LinkReplacement keeps WorkInv and withdraws no stop.
LEMMA LinkReplacementWorks == ASSUME RunnerInv, WorkInv, LinkReplacement PROVE WorkInv' /\ StopStays
<1> DEFINE c == [run.mem EXCEPT !.child = run.kidSid]
           b == Touch(c)
<1>1. Started /\ run.kidSid \in Sessions
  BY DEF LinkReplacement, RunnerInv, RunShape, Started, Creating
<1>2. /\ c \in Blobs /\ Core(c) = Core(run.mem)
      /\ c.status = run.mem.status /\ c.active = run.mem.active
  <2>1. run.mem \in Blobs
    BY <1>1, Mine
  <2> QED
    BY <1>1, <2>1, FieldWrites DEF Core, Blobs
<1> HIDE DEF c
<1>3. /\ b \in Blobs /\ Core(b) = Core(run.mem)
      /\ b.status = run.mem.status /\ b.active = run.mem.active
  BY <1>2, Updates, StatusWrites
<1>4. Save(b) /\ run' = IdleRun /\ UNCHANGED <<rows, srow, history>>
  BY DEF LinkReplacement, c
<1> HIDE DEF b
<1>5. b.kind # "plain" /\ b.status = "complete" => Proven(b, run.nodes, calls[run.sid])
  BY <1>1, <1>3, Mine DEF CallFits, MemoryFits, Proven, Core
<1> QED
  BY <1>1, <1>3, <1>4, <1>5, WorkSaves DEF Core

\* Crash keeps WorkInv and withdraws no stop.
LEMMA CrashWorks == ASSUME RunnerInv, WorkInv, Crash PROVE WorkInv' /\ StopStays
<1>1. /\ run' = IdleRun /\ run'.pc = "idle" /\ blob' = blob /\ rows' = rows /\ srow' = srow
      /\ calls' = calls
  BY IdleIsOut DEF Crash, store, history
<1>2. ~ Started' /\ run'.pc \notin Creating
  BY <1>1 DEF Started, Creating
<1>3. OthersQuiet'
  BY <1>1 DEF WorkInv, OthersQuiet, Live
<1> QED
  BY <1>1, <1>2, <1>3 DEF WorkInv, StopStays

\* IssuedCore keeps WorkInv and withdraws no stop.
LEMMA IssuedCoreWorks == ASSUME RunnerInv, WorkInv, NEW s \in Sessions, IssuedCore(s) PROVE WorkInv' /\ StopStays
<1>1. run' = run /\ blob' = blob /\ rows' = rows /\ srow' = srow /\ calls' = calls
  BY DEF IssuedCore, store, history
<1>2. Started' <=> Started
  BY <1>1 DEF Started
<1>3. OthersQuiet'
  BY <1>1 DEF WorkInv, OthersQuiet, Live
<1> QED
  BY <1>1, <1>2, <1>3 DEF WorkInv, StopStays

\* What a decision on the state of the call says about that state.
LEMMA CompleteMeans ==
    ASSUME RunnerInv, WorkInv, Started, Outcome(run.mem, run.nodes) = "complete"
    PROVE  Proven(run.mem, run.nodes, calls[run.sid])
<1>1. /\ AllSucceeded(run.mem.wf, run.nodes) /\ run.mem.pending = Nil
      /\ ~ Unproven(run.mem, run.nodes)
  BY DEF Outcome, Ambiguous
<1>2. \A st \in Agents(run.mem.wf) :
         run.nodes[st] = "success" /\ st \in Stage \ Human[run.mem.wf]
  BY <1>1, Mine DEF AllSucceeded, Agents
<1>3. \A st \in Agents(run.mem.wf) : run.mem.active[st] = "verified"
  BY <1>1, <1>2 DEF Unproven
<1>4. \A st \in Agents(run.mem.wf) : calls[run.sid][st] = 1
  BY <1>2, Mine DEF SessionFits
<1> QED
  BY <1>1, <1>3, <1>4 DEF Proven

\* A stage is delegated, or its approval awaited, out of a state that is not
\* failed, where nothing is unresolved or unproven and the stage is ready.
LEMMA ReadyMeans ==
    ASSUME NEW b \in Blobs, NEW n \in [Stage -> NodeStatuses], NEW s \in Sessions,
           Decide(s, b, n).outcome \in {"delegate", "await_approval"}
    PROVE  /\ b.stop = Nil /\ b.status # "failed" /\ b.pending = Nil
           /\ ~ Unproven(b, n) /\ ~ AllSucceeded(b.wf, n)
           /\ \A st \in StagesOf[b.wf] : n[st] # "running"
           /\ \A st \in Agents(b.wf) : n[st] # "needs_review"
           /\ Decide(s, b, n).stage \in CoreReady(b.wf, n)
<1> DEFINE o == Outcome(b, n)
<1>1. /\ Decide(s, b, n).outcome = o
      /\ o \in {"delegate", "await_approval"} => Decide(s, b, n).stage = NextStage(b.wf, n)
  BY DEF Decide
<1>2. /\ b.stop = Nil /\ ~ HasFailed(b, n) /\ ~ Ambiguous(b, n) /\ ~ Unproven(b, n)
      /\ ~ AllSucceeded(b.wf, n) /\ CoreReady(b.wf, n) # {}
  BY <1>1 DEF Outcome
<1>3. NextStage(b.wf, n) \in CoreReady(b.wf, n)
  <2>1. b.wf \in Workflows
    BY DEF Blobs
  <2> QED
    BY <1>2, <2>1, NextStageIn
<1> QED
  BY <1>1, <1>2, <1>3 DEF HasFailed, Ambiguous

\* A call that enters has the store's document and rows.
LEMMA WorkEnters ==
    ASSUME RunnerInv, WorkInv, UNCHANGED <<store, held, history>>,
           NEW s \in Sessions, blob[s] # Nil,
           run'.sid = s, run'.mem = blob[s], run'.nodes = rows[s],
           run'.pc \in {"enter", "recover"}, run'.pc = "recover" => run'.op = "run",
           run'.op # "run" => blob[s].kind # "plain",
           run'.op = "run" => blob[s].pending = Nil /\ (blob[s].kind # "plain" => blob[s].status # "failed"),
           EntryFits(run')
    PROVE  WorkInv' /\ StopStays
<1>1. blob' = blob /\ rows' = rows /\ srow' = srow /\ calls' = calls
  BY DEF store, history
<1>2. SessionFits(blob[s], rows[s], calls[s], srow[s])
  BY DEF WorkInv
<1>3. MemoryFits(run', blob[s], calls[s])
  BY <1>2 DEF MemoryFits, SessionFits
<1>4. StageFits(run', calls[s]) /\ RowsFit(run') /\ EndFits(run', calls[s])
  BY DEF StageFits, RowsFit, EndFits, AtWork, Marking, Invoking
<1>5. HandoffFits(run')
  BY DEF HandoffFits, Reserving, AtWork, Marking, Invoking
<1>6. run'.pc \notin Creating
  BY DEF Creating
<1>7. OthersQuiet'
  BY <1>1, <1>6 DEF WorkInv, OthersQuiet, Live, Creating
<1> QED
  BY <1>1, <1>3, <1>4, <1>5, <1>6, <1>7 DEF WorkInv, StopStays, CallFits

\* CallDecide keeps WorkInv and withdraws no stop.
LEMMA CallDecideWorks == ASSUME RunnerInv, WorkInv, NEW s \in Sessions, CallDecide(s) PROVE WorkInv' /\ StopStays
<1>1. /\ blob[s] # Nil /\ blob[s].kind # "plain" /\ Enter("decide", s, Nil, Nil)
      /\ UNCHANGED <<store, held, history>>
  BY DEF CallDecide, CanEnter, Loadable
<1>2. /\ run'.op = "decide" /\ run'.pc = "enter" /\ run'.sid = s
      /\ run'.mem = blob[s] /\ run'.nodes = rows[s]
  BY <1>1, EnterMeans, Names
<1>3. EntryFits(run')
  BY <1>2 DEF EntryFits
<1> QED
  BY <1>1, <1>2, <1>3, WorkEnters

\* CallCore keeps WorkInv and withdraws no stop.
LEMMA CallCoreWorks ==
    ASSUME RunnerInv, WorkInv, NEW s \in Sessions,
           NEW op \in {"advance", "approve", "review", "stop", "replan"}, CallCore(op, s)
    PROVE  WorkInv' /\ StopStays
<1>1. /\ blob[s] # Nil /\ Enter(op, s, held, held.stage) /\ UNCHANGED <<store, held, history>>
      /\ held # Nil /\ held = Decide(s, blob[s], rows[s]) /\ blob[s].kind # "plain"
      /\ op = "approve" => held.outcome = "await_approval"
      /\ op = "replan" => blob[s].pending = Nil /\ \A st \in Stage : rows[s][st] # "running"
  BY DEF CallCore, CanEnter, Loadable, MayReplan, ValidDecision
<1>2. held \in Decisions /\ held.stage \in Stage \cup {Nil} /\ op \in Ops
  BY <1>1 DEF RunnerInv, TypeOK, Ops, Decisions
<1>3. /\ run'.op = op /\ run'.pc = "enter" /\ run'.sid = s
      /\ run'.mem = blob[s] /\ run'.nodes = rows[s] /\ run'.dec = held /\ run'.stage = held.stage
  BY <1>1, <1>2, EnterMeans
<1>4. EntryFits(run')
  BY <1>1, <1>3 DEF EntryFits
<1> QED
  BY <1>1, <1>3, <1>4, WorkEnters

\* run() refuses an unresolved handoff, and a Core mission that has failed.
LEMMA CallRunWorks ==
    ASSUME RunnerInv, WorkInv, NEW s \in Sessions, NEW st \in Stage \cup {Nil}, CallRun(s, st)
    PROVE  WorkInv' /\ StopStays
<1>1. /\ blob[s] # Nil /\ UNCHANGED <<store, held, history>>
      /\ ~ CompatibilityRefused(blob[s], rows[s])
      /\ run' = [IdleRun EXCEPT !.op = "run", !.pc = "recover", !.sid = s, !.mem = blob[s],
                                !.nodes = rows[s], !.stage = st]
  BY DEF CallRun, CanEnter, Loadable
<1>2. /\ run'.op = "run" /\ run'.pc = "recover" /\ run'.sid = s
      /\ run'.mem = blob[s] /\ run'.nodes = rows[s]
  BY <1>1, IdleRunType DEF Runs
<1>3. blob[s].kind \in {"plain", "core", "budgeted"}
  BY <1>1 DEF RunnerInv, TypeOK, Blobs
<1>4. blob[s].pending = Nil /\ (blob[s].kind # "plain" => blob[s].status # "failed")
  BY <1>1, <1>3 DEF CompatibilityRefused, Outcome, HasFailed, ReviewOutcomes
<1>5. EntryFits(run')
  BY <1>2 DEF EntryFits
<1> QED
  BY <1>1, <1>2, <1>4, <1>5, WorkEnters

\* Start keeps WorkInv and withdraws no stop.
LEMMA StartWorks == ASSUME RunnerInv, WorkInv, NEW k \in Kinds, NEW w \in Workflows, Start(k, w) PROVE WorkInv' /\ StopStays
<1>1. /\ run' = [IdleRun EXCEPT !.op = "start", !.pc = "create", !.kid = NewBlob(k, w)]
      /\ blob' = blob /\ rows' = rows /\ srow' = srow /\ calls' = calls
  BY DEF Start, store, history
<1>2. run'.op = "start" /\ run'.pc = "create" /\ run'.kid = NewBlob(k, w)
  BY <1>1 DEF IdleRun
<1>3. run'.kid.status = "investigating"
  BY <1>2 DEF NewBlob
<1>4. ~ Started' /\ OthersQuiet'
  BY <1>1, <1>2 DEF Started, WorkInv, OthersQuiet, Live
<1> QED
  BY <1>1, <1>3, <1>4 DEF WorkInv, StopStays

-----------------------------------------------------------------------------
(* Creating a session. *)

\* While a session is being created the call's own document does not matter.
LEMMA CreatingFits ==
    ASSUME RunnerInv, WorkInv, run.op = "replan",
           run.pc \in {"create", "save_plan", "save_state"},
           run'.pc \in {"save_plan", "save_state", "link"}, run'.op = run.op, run'.sid = run.sid,
           run'.mem = run.mem, run'.nodes = run.nodes,
           blob'[run.sid] = blob[run.sid], calls' = calls
    PROVE  CallFits(run', blob'[run.sid], calls'[run.sid])
<1>1. Started
  BY DEF Started
<1>2. MemoryFits(run', blob[run.sid], calls[run.sid])
  BY <1>1, Mine DEF CallFits, MemoryFits
<1>3. /\ EntryFits(run') /\ StageFits(run', calls[run.sid]) /\ HandoffFits(run')
      /\ EndFits(run', calls[run.sid])
  BY DEF EntryFits, StageFits, HandoffFits, EndFits, Reserving, AtWork, Marking, Invoking
<1>4. \A st \in Stage : run.nodes[st] # "running"
  BY <1>1, Mine DEF CallFits, RowsFit, AtWork
<1>5. RowsFit(run')
  BY <1>4 DEF RowsFit
<1> QED
  BY <1>2, <1>3, <1>5 DEF CallFits

\* CreateSession keeps WorkInv and withdraws no stop.
LEMMA CreateSessionWorks == ASSUME RunnerInv, WorkInv, NEW s \in Sessions, CreateSession(s) PROVE WorkInv' /\ StopStays
<1>1. /\ run.pc = "create" /\ srow[s] = "absent" /\ srow' = [srow EXCEPT ![s] = "open"]
      /\ run' = [run EXCEPT !.pc = "save_plan", !.kidSid = s]
      /\ blob' = blob /\ rows' = rows /\ calls' = calls
  BY DEF CreateSession, history
<1>2. run \in Runs /\ srow \in [Sessions -> {"absent", "open", "closed"}]
      /\ run.op \in {"start", "replan"}
  BY <1>1 DEF RunnerInv, TypeOK, RunShape, Creating
<1>3. /\ run'.pc = "save_plan" /\ run'.op = run.op /\ run'.sid = run.sid /\ run'.mem = run.mem
      /\ run'.nodes = run.nodes /\ run'.kid = run.kid
  BY <1>1, <1>2 DEF Runs
<1>4. \A t \in Sessions : SessionFits(blob'[t], rows'[t], calls'[t], srow'[t])
  BY <1>1, <1>2 DEF WorkInv, SessionFits
<1>5. Started' => CallFits(run', blob'[run'.sid], calls'[run'.sid])
  BY <1>1, <1>2, <1>3, CreatingFits DEF Started
<1>6. OthersQuiet'
  BY <1>1, <1>3 DEF WorkInv, OthersQuiet, Live
<1> QED
  BY <1>1, <1>3, <1>4, <1>5, <1>6 DEF WorkInv, StopStays, Creating

\* The rows of the new session are written before its document exists.
LEMMA SavePlanWorks == ASSUME RunnerInv, WorkInv, SavePlan PROVE WorkInv' /\ StopStays
<1> DEFINE n == [st \in Stage |-> IF st \in StagesOf[run.kid.wf] THEN "pending" ELSE "absent"]
<1>1. /\ run.pc = "save_plan" /\ rows' = [rows EXCEPT ![run.kidSid] = n]
      /\ run' = [run EXCEPT !.pc = "save_state"]
      /\ blob' = blob /\ srow' = srow /\ calls' = calls
  BY DEF SavePlan, history
<1>2. /\ run \in Runs /\ rows \in [Sessions -> [Stage -> NodeStatuses]]
      /\ run.op \in {"start", "replan"} /\ run.kidSid \in Sessions /\ blob[run.kidSid] = Nil
  BY <1>1 DEF RunnerInv, TypeOK, RunShape, OneLive, Creating
<1>3. /\ run'.pc = "save_state" /\ run'.op = run.op /\ run'.sid = run.sid /\ run'.mem = run.mem
      /\ run'.nodes = run.nodes /\ run'.kid = run.kid
  BY <1>1, <1>2 DEF Runs
<1>4. \A st \in Stage : n[st] \in {"absent", "pending"} /\ n[st] # "running"
  OBVIOUS
<1> HIDE DEF n
<1>5. \A t \in Sessions : rows'[t] = IF t = run.kidSid THEN n ELSE rows[t]
  BY <1>1, <1>2
<1>6. \A t \in Sessions : SessionFits(blob'[t], rows'[t], calls'[t], srow'[t])
  BY <1>1, <1>2, <1>4, <1>5 DEF WorkInv, SessionFits
<1>7. Started' => CallFits(run', blob'[run'.sid], calls'[run'.sid])
  BY <1>1, <1>2, <1>3, CreatingFits DEF Started
<1>8. \A t \in Sessions : Quiet(blob[t], rows[t]) => Quiet(blob'[t], rows'[t])
  BY <1>1, <1>4, <1>5 DEF Quiet
<1>9. OthersQuiet'
  BY <1>1, <1>3, <1>8 DEF WorkInv, OthersQuiet, Live
<1> QED
  BY <1>1, <1>3, <1>6, <1>7, <1>9 DEF WorkInv, StopStays, Creating

\* The new session becomes the live one, beside quiet sessions only.
LEMMA SaveTaskStateWorks == ASSUME RunnerInv, WorkInv, SaveTaskState PROVE WorkInv' /\ StopStays
<1>1. /\ run.pc = "save_state" /\ blob' = [blob EXCEPT ![run.kidSid] = run.kid]
      /\ run' = IF run.op = "replan" THEN [run EXCEPT !.pc = "link"] ELSE IdleRun
      /\ rows' = rows /\ srow' = srow /\ calls' = calls
  BY DEF SaveTaskState, history
<1>2. /\ run \in Runs /\ blob \in [Sessions -> Blobs \cup {Nil}]
      /\ run.op \in {"start", "replan"} /\ run.kidSid \in Sessions /\ blob[run.kidSid] = Nil
      /\ run.kid \in Blobs /\ run.kid # Nil
  BY <1>1, NilAssumption DEF RunnerInv, TypeOK, RunShape, OneLive, Creating
<1>3. run.kid.status = "investigating"
  BY <1>1 DEF WorkInv, Creating
<1>4. \A t \in Sessions : blob'[t] = IF t = run.kidSid THEN run.kid ELSE blob[t]
  BY <1>1, <1>2
<1>5. \A t \in Sessions : SessionFits(blob'[t], rows'[t], calls'[t], srow'[t])
  BY <1>1, <1>2, <1>3, <1>4 DEF WorkInv, SessionFits
<1>6. \A t \in Sessions : Quiet(blob[t], rows[t])
  <2>1. CASE run.op = "replan"
    BY <1>1, <2>1 DEF WorkInv, OthersQuiet
  <2>2. CASE run.op = "start"
    BY <2>2 DEF RunnerInv, OneLive, WorkInv, SessionFits, Quiet
  <2> QED
    BY <1>2, <2>1, <2>2
<1>7. \A t \in Sessions : t # run.kidSid => ~ Live(t)' /\ Quiet(blob'[t], rows'[t])
  BY <1>1, <1>2, <1>4, <1>6 DEF RunnerInv, OneLive, Live
<1>b. StopStays
  BY <1>1, <1>2, <1>4 DEF StopStays
<1>8. CASE run.op = "start"
  <2>1. run'.pc = "idle" /\ ~ Started'
    BY <1>1, <1>8, IdleIsOut DEF Started
  <2> QED
    BY <1>b, <1>5, <1>7, <2>1 DEF WorkInv, OthersQuiet, Creating
<1>9. CASE run.op = "replan"
  <2>1. /\ run'.pc = "link" /\ run'.op = run.op /\ run'.sid = run.sid /\ run'.mem = run.mem
        /\ run'.nodes = run.nodes /\ run'.kid = run.kid
    BY <1>1, <1>2, <1>9 DEF Runs
  <2>2. blob'[run.sid] = blob[run.sid] /\ Started
    BY <1>1, <1>2, <1>4, <1>9, Mine DEF Started
  <2>3. CallFits(run', blob'[run'.sid], calls'[run'.sid])
    BY <1>1, <1>9, <2>1, <2>2, CreatingFits
  <2> QED
    BY <1>b, <1>3, <1>5, <1>7, <2>1, <2>3 DEF WorkInv, OthersQuiet
<1> QED
  BY <1>2, <1>8, <1>9

\* A replan finds its own session quiet, and beside a live one the others are.
LEMMA ReplanCoreWorks == ASSUME RunnerInv, WorkInv, NEW w \in Workflows, ReplanCore(w) PROVE WorkInv' /\ StopStays
<1> DEFINE b == ReplannedBlob(run.mem, run.dec)
           kid == ReplacementBlob(run.mem, run.sid, run.dec, w)
<1>1. /\ Started /\ run.op = "replan" /\ run.pc = "enter" /\ run.dec \in Decisions
      /\ run.mem.stop = Nil
  BY DEF ReplanCore, At, RunnerInv, RunShape, OneLive, Started
<1>2. /\ blob' = [blob EXCEPT ![run.sid] = b]
      /\ run' = [run EXCEPT !.pc = "create", !.mem = b, !.kid = kid]
      /\ rows' = rows /\ srow' = srow /\ calls' = calls
  BY DEF ReplanCore, Save, history
<1>3. /\ b \in Blobs /\ b # Nil /\ b.stop # Nil /\ b.kind = run.mem.kind /\ b.wf = run.mem.wf
      /\ b.pending = run.mem.pending /\ b.active = run.mem.active /\ b.status # "complete"
  BY <1>1, Mine, Stops, StopsStatus, NilAssumption DEF Core
<1>4. kid.status = "investigating"
  <2>1. run.mem.kind \in {"plain", "core", "budgeted"}
    BY <1>1, Mine DEF Blobs
  <2>2. NewBlob(run.mem.kind, w) \in Blobs /\ NewBlob(run.mem.kind, w).status = "investigating"
    BY <2>1, NewSession DEF NewBlob
  <2> QED
    BY <2>2 DEF ReplacementBlob, Blobs
<1> HIDE DEF b, kid
<1>5. /\ run'.pc = "create" /\ run'.op = "replan" /\ run'.sid = run.sid
      /\ run'.mem = b /\ run'.nodes = run.nodes /\ run'.kid = kid
  BY <1>1, <1>2, Mine DEF Runs
<1>6. blob'[run.sid] = b /\ \A t \in Sessions \ {run.sid} : blob'[t] = blob[t]
  <2>1. blob \in [Sessions -> Blobs \cup {Nil}]
    BY DEF RunnerInv, TypeOK
  <2> QED
    BY <1>1, <1>2, <2>1, Mine
<1>7. SessionFits(b, rows'[run.sid], calls'[run.sid], srow'[run.sid])
  BY <1>1, <1>2, <1>3, Mine DEF SessionFits
<1>8. run.mem.pending = Nil /\ \A st \in Stage : run.nodes[st] # "running"
  BY <1>1, Mine DEF CallFits, EntryFits
<1>9. CallFits(run', b, calls[run.sid])
  <2>1. MemoryFits(run', b, calls[run.sid])
    BY <1>1, <1>3, <1>5, Mine DEF CallFits, MemoryFits
  <2>2. /\ EntryFits(run') /\ StageFits(run', calls[run.sid]) /\ HandoffFits(run')
        /\ EndFits(run', calls[run.sid])
    BY <1>5 DEF EntryFits, StageFits, HandoffFits, EndFits, Reserving, AtWork, Marking, Invoking
  <2>3. RowsFit(run')
    BY <1>5, <1>8 DEF RowsFit
  <2> QED
    BY <2>1, <2>2, <2>3 DEF CallFits
<1>10. Live(run.sid)
  BY <1>1, Mine DEF Live
<1>11. \A t \in Sessions : Quiet(blob'[t], rows'[t])
  <2>1. \A t \in Sessions \ {run.sid} : Quiet(blob[t], rows[t])
    BY <1>1, <1>10, Mine DEF WorkInv, OthersQuiet
  <2>2. Quiet(b, run.nodes)
    BY <1>3, <1>8 DEF Quiet
  <2> QED
    BY <1>1, <1>2, <1>6, <2>1, <2>2, Mine
<1> QED
  BY <1>1, <1>2, <1>4, <1>5, <1>6, <1>7, <1>9, <1>10, <1>11, Mine, WorkFrame

-----------------------------------------------------------------------------
(* run_core, and the approval of a gate. *)

\* A decision is settled as complete only on proof.
LEMMA AdvanceSettleWorks == ASSUME RunnerInv, WorkInv, AdvanceSettle PROVE WorkInv' /\ StopStays
<1> DEFINE m == IF run.dec.outcome \in {"complete", "failed"} THEN run.dec.outcome ELSE "blocked"
           c == IF run.dec.outcome = "stopped" /\ run.mem.status \in {"complete", "failed"}
                THEN Touch(run.mem) ELSE Mark(run.mem, m)
           b == Consume(c)
<1>1. Started /\ run.op = "advance" /\ run.pc = "enter"
  BY DEF AdvanceSettle, At, RunnerInv, RunShape, Started
<1>2. m \in TaskStatuses /\ (m = "complete" => run.dec.outcome = "complete")
  BY Names
<1>3. /\ c \in Blobs /\ Core(c) = Core(run.mem) /\ c.active = run.mem.active
      /\ c.status = "complete" => run.mem.status = "complete" \/ run.dec.outcome = "complete"
  BY <1>1, <1>2, Mine, Updates, StatusWrites
<1>4. /\ Save(b) /\ UNCHANGED <<rows, srow, held, history>>
      /\ run' = IF c.status = "complete" THEN [run EXCEPT !.pc = "close"] ELSE IdleRun
  BY DEF AdvanceSettle
<1> HIDE DEF c
<1>5. b \in Blobs /\ Core(b) = Core(run.mem) /\ b.active = run.mem.active /\ b.status = c.status
  BY <1>3, Updates, StatusWrites
<1> HIDE DEF b
<1>6. run.mem.kind # "plain" /\ run.dec.outcome = Outcome(run.mem, run.nodes)
  BY <1>1, Mine DEF CallFits, MemoryFits, EntryFits, Decide
<1>7. c.status = "complete" => Proven(run.mem, run.nodes, calls[run.sid])
  BY <1>1, <1>3, <1>6, CompleteMeans, Mine DEF CallFits, MemoryFits
<1>8. b.status = "complete" => Proven(b, run.nodes, calls[run.sid])
  BY <1>5, <1>7 DEF Proven, Core
<1>9. CASE c.status # "complete"
  BY <1>1, <1>4, <1>5, <1>8, <1>9, WorkSaves DEF Core, history
<1>10. CASE c.status = "complete"
  <2>1. /\ run'.pc = "close" /\ run'.op = "advance" /\ run'.sid = run.sid
        /\ run'.mem = run.mem /\ run'.nodes = run.nodes
    BY <1>1, <1>4, <1>10, Mine DEF Runs
  <2>2. AllSucceeded(run.mem.wf, run.nodes)
    BY <1>7, <1>10 DEF Proven
  <2>3. MemoryFits(run', b, calls[run.sid])
    BY <1>5, <1>6, <1>7, <1>10, <2>1 DEF MemoryFits, Core
  <2>4. \A st \in Stage : run.nodes[st] # "running"
    <3>1. \A st \in Stage \ StagesOf[run.mem.wf] : run.nodes[st] # "running"
      BY <1>1, Mine DEF SessionFits
    <3> QED
      BY <2>2, <3>1 DEF AllSucceeded
  <2>5. /\ EntryFits(run') /\ StageFits(run', calls[run.sid]) /\ HandoffFits(run')
        /\ EndFits(run', calls[run.sid]) /\ RowsFit(run')
    BY <2>1, <2>2, <2>4 DEF EntryFits, StageFits, HandoffFits, EndFits, RowsFit, Reserving,
       AtWork, Marking, Invoking
  <2>6. CallFits(run', b, calls[run.sid])
    BY <2>3, <2>5 DEF CallFits
  <2> QED
    BY <1>1, <1>4, <1>5, <1>8, <2>1, <2>6, WorkSaves DEF Core, Creating, history
<1> QED
  BY <1>9, <1>10

\* What the entry of a delegated or awaited stage knows.
LEMMA AtEntry ==
    ASSUME RunnerInv, WorkInv, Started, run.pc = "enter", run.op # "decide",
           run.dec.outcome \in {"delegate", "await_approval"}
    PROVE  /\ run.mem.stop = Nil /\ run.mem.status \notin {"failed", "complete"}
           /\ run.mem.pending = Nil /\ ~ Unproven(run.mem, run.nodes)
           /\ \A st \in Stage : run.nodes[st] # "running"
           /\ run.stage \in StagesOf[run.mem.wf] /\ run.stage \in Stage
           /\ run.stage = run.dec.stage
           /\ run.nodes[run.stage] \in {"pending", "needs_review"}
           /\ DepsDone(run.mem.wf, run.nodes, run.stage)
<1>1. /\ run.dec = Decide(run.sid, run.mem, run.nodes) /\ run.stage = run.dec.stage
      /\ run.mem.kind # "plain" \/ run.op = "run"
  BY Mine DEF CallFits, EntryFits, MemoryFits
<1>2. /\ run.mem.stop = Nil /\ run.mem.status # "failed" /\ run.mem.pending = Nil
      /\ ~ Unproven(run.mem, run.nodes) /\ ~ AllSucceeded(run.mem.wf, run.nodes)
      /\ \A st \in StagesOf[run.mem.wf] : run.nodes[st] # "running"
      /\ run.stage \in CoreReady(run.mem.wf, run.nodes)
  BY <1>1, Mine, ReadyMeans
<1>3. \A st \in Stage : run.nodes[st] # "running"
  BY <1>2, Mine DEF SessionFits
<1>4. run.mem.status # "complete"
  <2>1. run.op # "run"
    BY DEF RunnerInv, RunShape
  <2> QED
    BY <1>1, <1>2, <2>1, Mine DEF CallFits, MemoryFits, Proven
<1> QED
  BY <1>1, <1>2, <1>3, <1>4, Mine DEF CoreReady

\* AdvanceAwait keeps WorkInv and withdraws no stop.
LEMMA AdvanceAwaitWorks == ASSUME RunnerInv, WorkInv, AdvanceAwait PROVE WorkInv' /\ StopStays
<1> DEFINE b == Consume(run.mem)
<1>1. /\ Started /\ run.op = "advance" /\ run.pc = "enter" /\ run.dec.outcome = "await_approval"
      /\ run' = [run EXCEPT !.pc = "checkpoint", !.to = "needs_review", !.next = "settle",
                            !.mark = "blocked", !.mem = b]
      /\ UNCHANGED <<store, held, history>>
  BY DEF AdvanceAwait, At, RunnerInv, RunShape, Started
<1>2. b \in Blobs /\ Core(b) = Core(run.mem) /\ b.status = run.mem.status /\ b.active = run.mem.active
  BY <1>1, Mine, Updates, StatusWrites
<1> HIDE DEF b
<1>3. /\ run'.pc = "checkpoint" /\ run'.op = "advance" /\ run'.sid = run.sid /\ run'.mem = b
      /\ run'.nodes = run.nodes /\ run'.stage = run.stage /\ run'.to = "needs_review"
      /\ run'.next = "settle" /\ run'.mark = "blocked"
  BY <1>1, Mine DEF Runs
<1>4. MemoryFits(run', blob[run.sid], calls[run.sid])
  BY <1>1, <1>2, <1>3, Mine DEF CallFits, MemoryFits, Core, Proven
<1>5. EntryFits(run') /\ EndFits(run', calls[run.sid])
  BY <1>3 DEF EntryFits, EndFits
<1>6. StageFits(run', calls[run.sid])
  BY <1>1, <1>2, <1>3, AtEntry DEF StageFits, AtWork, Marking, Invoking, Core
<1>7. RowsFit(run') /\ HandoffFits(run')
  BY <1>1, <1>2, <1>3, AtEntry DEF RowsFit, HandoffFits, Reserving, Marking, Invoking, Core
<1> QED
  BY <1>1, <1>3, <1>4, <1>5, <1>6, <1>7, WorkMoves DEF CallFits, Creating

\* A handoff is saved on a state where nothing else is unresolved.
LEMMA AdvanceHandoffWorks == ASSUME RunnerInv, WorkInv, AdvanceHandoff PROVE WorkInv' /\ StopStays
<1> DEFINE b == Handoff(run.mem, run.stage)
<1>1. /\ Started /\ run.op = "advance" /\ run.pc = "enter" /\ run.dec.outcome = "delegate"
      /\ Save(b) /\ run' = [run EXCEPT !.pc = "recover", !.mem = b]
      /\ UNCHANGED <<rows, srow, held, history>>
  BY DEF AdvanceHandoff, At, RunnerInv, RunShape, Started
<1>2. run.stage \in Stage
  BY <1>1, AtEntry
<1>3. /\ b \in Blobs /\ b.kind = run.mem.kind /\ b.wf = run.mem.wf /\ b.stop = run.mem.stop
      /\ b.status = run.mem.status /\ b.active = run.mem.active /\ b.pending = run.stage
  <2>1. run.mem.kind = "budgeted" \/ run.mem.kind # "budgeted"
    OBVIOUS
  <2> QED
    BY <1>1, <1>2, <2>1, Mine, HandoffCharges, HandoffStatus DEF Core
<1> HIDE DEF b
<1>4. /\ run'.pc = "recover" /\ run'.op = "advance" /\ run'.sid = run.sid /\ run'.mem = b
      /\ run'.nodes = run.nodes /\ run'.stage = run.stage
  BY <1>1, Mine DEF Runs
<1>5. MemoryFits(run', b, calls[run.sid])
  BY <1>1, <1>3, <1>4, Mine, AtEntry DEF CallFits, MemoryFits
<1>6. EntryFits(run') /\ EndFits(run', calls[run.sid]) /\ RowsFit(run')
  BY <1>4 DEF EntryFits, EndFits, RowsFit
<1>7. StageFits(run', calls[run.sid])
  BY <1>4 DEF StageFits, AtWork, Marking, Invoking
<1>8. HandoffFits(run')
  BY <1>1, <1>3, <1>4, AtEntry DEF HandoffFits, Unproven
<1> QED
  BY <1>1, <1>3, <1>4, <1>5, <1>6, <1>7, <1>8, AtEntry, WorkSaves DEF CallFits, Creating, history

\* ApproveCoreStage keeps WorkInv and withdraws no stop.
LEMMA ApproveCoreStageWorks == ASSUME RunnerInv, WorkInv, ApproveCoreStage PROVE WorkInv' /\ StopStays
<1> DEFINE b == Consume(run.mem)
<1>1. /\ Started /\ run.op = "approve" /\ run.pc = "enter" /\ Save(b)
      /\ run' = IF run.nodes[run.stage] = "pending"
                THEN [run EXCEPT !.pc = "checkpoint", !.to = "needs_review", !.next = "approve",
                                 !.mem = b]
                ELSE [run EXCEPT !.pc = "approve", !.mem = b]
      /\ UNCHANGED <<rows, srow, held, history>>
  BY DEF ApproveCoreStage, At, RunnerInv, RunShape, Started
<1>2. b \in Blobs /\ Core(b) = Core(run.mem) /\ b.status = run.mem.status /\ b.active = run.mem.active
  BY <1>1, Mine, Updates, StatusWrites
<1> HIDE DEF b
<1>3. run.dec.outcome = "await_approval"
  BY <1>1, Mine DEF CallFits, EntryFits
<1>4. /\ run'.pc \in {"checkpoint", "approve"} /\ run'.op = "approve" /\ run'.sid = run.sid
      /\ run'.mem = b /\ run'.nodes = run.nodes /\ run'.stage = run.stage
      /\ run'.pc = "checkpoint" =>
            run'.to = "needs_review" /\ run'.next = "approve" /\ run.nodes[run.stage] = "pending"
  BY <1>1, Mine DEF Runs
<1>5. MemoryFits(run', b, calls[run.sid])
  BY <1>1, <1>2, <1>4, Mine DEF CallFits, MemoryFits, Core, Proven
<1>6. EntryFits(run') /\ EndFits(run', calls[run.sid])
  BY <1>4 DEF EntryFits, EndFits
<1>7. StageFits(run', calls[run.sid])
  BY <1>1, <1>2, <1>3, <1>4, AtEntry DEF StageFits, AtWork, Marking, Invoking, Core
<1>8. RowsFit(run') /\ HandoffFits(run')
  BY <1>1, <1>2, <1>3, <1>4, AtEntry DEF RowsFit, HandoffFits, Reserving
<1>9. b.kind # "plain" /\ b.status = "complete" => Proven(b, run.nodes, calls[run.sid])
  BY <1>4, <1>5 DEF MemoryFits
<1> QED
  BY <1>1, <1>2, <1>4, <1>5, <1>6, <1>7, <1>8, <1>9, WorkSaves DEF CallFits, Creating, Core, history

\* ApproveHumanStage keeps WorkInv and withdraws no stop.
LEMMA ApproveHumanStageWorks == ASSUME RunnerInv, WorkInv, ApproveHumanStage PROVE WorkInv' /\ StopStays
<1>1. Started /\ run.pc = "approve" /\ UNCHANGED <<store, held, history>>
  BY DEF ApproveHumanStage, RunnerInv, RunShape, Started
<1>2. CASE ~ Approvable(run.mem, run.nodes, run.stage)
  BY <1>1, <1>2, WorkMoves DEF ApproveHumanStage
<1>3. CASE Approvable(run.mem, run.nodes, run.stage)
  <2>1. run' = [run EXCEPT !.pc = "checkpoint", !.to = "success", !.next = "settle",
                           !.mark = "investigating"]
    BY <1>3 DEF ApproveHumanStage
  <2>2. /\ run'.pc = "checkpoint" /\ run'.op = run.op /\ run'.sid = run.sid /\ run'.mem = run.mem
        /\ run'.nodes = run.nodes /\ run'.stage = run.stage /\ run'.to = "success"
        /\ run'.next = "settle" /\ run'.mark = "investigating"
    BY <1>1, <2>1, Mine DEF Runs
  <2>3. /\ run.stage \in StagesOf[run.mem.wf] /\ run.stage \in Human[run.mem.wf]
        /\ run.nodes[run.stage] = "needs_review"
    BY <1>3 DEF Approvable
  <2>4. run.op \in {"approve", "run"}
    BY <1>1, Mine DEF CallFits, StageFits
  <2>5. MemoryFits(run', blob[run.sid], calls[run.sid])
    BY <1>1, <2>2, Mine DEF CallFits, MemoryFits
  <2>6. EntryFits(run') /\ EndFits(run', calls[run.sid])
    BY <2>2 DEF EntryFits, EndFits
  <2>7. StageFits(run', calls[run.sid])
    BY <2>2, <2>3, <2>4 DEF StageFits, AtWork, Marking, Invoking
  <2>8. RowsFit(run')
    BY <1>1, <2>2, Mine DEF CallFits, RowsFit, AtWork
  <2>9. HandoffFits(run')
    BY <1>1, <2>2, Mine DEF CallFits, HandoffFits, Reserving, Marking, Invoking, AtWork
  <2> QED
    BY <1>1, <2>2, <2>5, <2>6, <2>7, <2>8, <2>9, WorkMoves DEF CallFits, Creating
<1> QED
  BY <1>2, <1>3

-----------------------------------------------------------------------------
(* Recovery, the stage loop and its checkpoints. *)

\* Recovery leaves nothing running and undoes nothing.
LEMMA RecoveredMeans ==
    ASSUME NEW n \in [Stage -> NodeStatuses]
    PROVE  /\ Recovered(n) \in [Stage -> NodeStatuses]
           /\ \A st \in Stage : /\ Recovered(n)[st] # "running"
                                /\ n[st] # "running" => Recovered(n)[st] = n[st]
                                /\ Recovered(n)[st] = "success" <=> n[st] = "success"
  BY DEF Recovered, NodeStatuses

\* RecoverInterrupted keeps WorkInv and withdraws no stop.
LEMMA RecoverInterruptedWorks == ASSUME RunnerInv, WorkInv, RecoverInterrupted PROVE WorkInv' /\ StopStays
<1> DEFINE n == Recovered(run.nodes)
           c == blob[run.sid]
<1>1. /\ Started /\ run.pc = "recover" /\ blob' = blob /\ srow' = srow /\ calls' = calls
      /\ run.op \in {"advance", "run"}
  BY DEF RecoverInterrupted, RunnerInv, RunShape, Started, history
<1>2. /\ n \in [Stage -> NodeStatuses]
      /\ \A st \in Stage : n[st] # "running" /\ (n[st] = "success" <=> run.nodes[st] = "success")
  BY <1>1, Mine, RecoveredMeans
<1>3. CASE \E st \in Stage : rows[run.sid][st] = "running"
  <2>1. /\ rows' = [rows EXCEPT ![run.sid] = n]
        /\ run' = [run EXCEPT !.pc = "settle", !.mark = "blocked", !.mem = c, !.nodes = n]
    BY <1>1, <1>3, Mine DEF RecoverInterrupted
  <2> HIDE DEF n
  <2>2. /\ run'.pc = "settle" /\ run'.op = run.op /\ run'.sid = run.sid /\ run'.mem = c
        /\ run'.nodes = n /\ run'.mark = "blocked"
    BY <1>1, <2>1, Mine DEF Runs
  <2>3. /\ rows'[run.sid] = n /\ \A s \in Sessions \ {run.sid} : rows'[s] = rows[s]
    <3>1. rows \in [Sessions -> [Stage -> NodeStatuses]]
      BY DEF RunnerInv, TypeOK
    <3> QED
      BY <1>1, <2>1, <3>1, Mine
  <2>4. SessionFits(c, n, calls[run.sid], srow[run.sid])
    BY <1>1, <1>2, Mine DEF SessionFits, Proven, AllSucceeded
  <2>5. MemoryFits(run', c, calls[run.sid])
    BY <1>1, <2>2, <2>4, Mine DEF CallFits, MemoryFits, SessionFits
  <2>6. /\ EntryFits(run') /\ StageFits(run', calls[run.sid]) /\ HandoffFits(run')
        /\ EndFits(run', calls[run.sid]) /\ RowsFit(run')
    BY <1>2, <2>2 DEF EntryFits, StageFits, HandoffFits, EndFits, RowsFit, Reserving, AtWork,
       Marking, Invoking
  <2>7. Quiet(c, rows[run.sid]) => Quiet(c, n)
    BY <1>2 DEF Quiet
  <2> QED
    BY <1>1, <2>2, <2>3, <2>4, <2>5, <2>6, <2>7, Mine, WorkFrame DEF CallFits, Creating
<1>4. CASE ~ \E st \in Stage : rows[run.sid][st] = "running"
  <2> DEFINE pc == IF run.op = "run" /\ run.stage # Nil THEN "approve" ELSE "loop"
  <2>1. /\ run' = [run EXCEPT !.pc = pc] /\ UNCHANGED <<store, held, history>>
        /\ pc \in {"approve", "loop"} /\ (pc = "approve" => run.op = "run")
    BY <1>4 DEF RecoverInterrupted, store
  <2> HIDE DEF pc
  <2>2. /\ run'.pc = pc /\ run'.op = run.op /\ run'.sid = run.sid /\ run'.mem = run.mem
        /\ run'.nodes = run.nodes /\ run'.stage = run.stage
    BY <1>1, <2>1, Mine DEF Runs
  <2>3. MemoryFits(run', blob[run.sid], calls[run.sid])
    BY <1>1, <2>1, <2>2, Mine DEF CallFits, MemoryFits
  <2>4. EntryFits(run') /\ StageFits(run', calls[run.sid]) /\ EndFits(run', calls[run.sid])
    BY <2>1, <2>2 DEF EntryFits, StageFits, EndFits, AtWork, Marking, Invoking
  <2>5. RowsFit(run')
    BY <1>1, <1>4, <2>2, Mine DEF RowsFit
  <2>6. HandoffFits(run')
    BY <1>1, <2>1, <2>2, Mine DEF CallFits, HandoffFits, Reserving, Marking, Invoking
  <2> QED
    BY <1>1, <2>1, <2>2, <2>3, <2>4, <2>5, <2>6, WorkMoves DEF CallFits, Creating
<1> QED
  BY <1>3, <1>4

\* The stage a pass of the loop picks is ready, and no row is marked running.
LEMMA AtLoop ==
    ASSUME RunnerInv, WorkInv, run.pc = "loop"
    PROVE  /\ Started /\ run.op \in {"advance", "run"}
           /\ \A st \in Stage : run.nodes[st] # "running"
           /\ \A st \in Stage : Picks(st) =>
                 /\ st \in StagesOf[run.mem.wf] /\ run.nodes[st] = "pending"
                 /\ DepsDone(run.mem.wf, run.nodes, st)
                 /\ run.op = "advance" => st = run.dec.stage
<1>1. Started /\ run.op \in {"advance", "run"}
  BY DEF RunnerInv, RunShape, Started
<1>2. \A st \in Stage : run.nodes[st] # "running"
  BY <1>1, Mine DEF CallFits, RowsFit, AtWork
<1> QED
  BY <1>1, <1>2 DEF Picks, ReadyNodes

\* LoopHuman keeps WorkInv and withdraws no stop.
LEMMA LoopHumanWorks == ASSUME RunnerInv, WorkInv, NEW st \in Stage, LoopHuman(st) PROVE WorkInv' /\ StopStays
<1>1. /\ run.pc = "loop" /\ Picks(st) /\ UNCHANGED <<store, held, history>>
      /\ run' = [run EXCEPT !.pc = "checkpoint", !.stage = st, !.to = "needs_review",
                            !.next = "settle", !.mark = "blocked"]
  BY DEF LoopHuman
<1>2. Started /\ run.op \in {"advance", "run"}
  BY <1>1, AtLoop
<1>3. /\ run'.pc = "checkpoint" /\ run'.op = run.op /\ run'.sid = run.sid /\ run'.mem = run.mem
      /\ run'.nodes = run.nodes /\ run'.stage = st /\ run'.to = "needs_review"
      /\ run'.next = "settle" /\ run'.mark = "blocked"
  BY <1>1, <1>2, Mine DEF Runs
<1>4. MemoryFits(run', blob[run.sid], calls[run.sid])
  BY <1>1, <1>2, <1>3, Mine DEF CallFits, MemoryFits
<1>5. EntryFits(run') /\ EndFits(run', calls[run.sid])
  BY <1>3 DEF EntryFits, EndFits
<1>6. StageFits(run', calls[run.sid])
  BY <1>1, <1>3, AtLoop DEF StageFits, Marking, Invoking
<1>7. RowsFit(run')
  BY <1>1, <1>3, AtLoop DEF RowsFit
<1>8. HandoffFits(run')
  BY <1>1, <1>2, <1>3, Mine DEF CallFits, HandoffFits, Reserving, Marking, Invoking
<1> QED
  BY <1>1, <1>2, <1>3, <1>4, <1>5, <1>6, <1>7, <1>8, WorkMoves DEF CallFits, Creating

\* LoopAgent keeps WorkInv and withdraws no stop.
LEMMA LoopAgentWorks == ASSUME RunnerInv, WorkInv, NEW st \in Stage, LoopAgent(st) PROVE WorkInv' /\ StopStays
<1>1. /\ run.pc = "loop" /\ Picks(st) /\ UNCHANGED <<store, held, history>>
      /\ st \notin Human[run.mem.wf]
      /\ run' = [run EXCEPT !.pc = "checkpoint", !.stage = st, !.to = "running", !.next = "invoke"]
  BY DEF LoopAgent
<1>2. Started /\ run.op \in {"advance", "run"}
  BY <1>1, AtLoop
<1>3. /\ run'.pc = "checkpoint" /\ run'.op = run.op /\ run'.sid = run.sid /\ run'.mem = run.mem
      /\ run'.nodes = run.nodes /\ run'.stage = st /\ run'.to = "running" /\ run'.next = "invoke"
  BY <1>1, <1>2, Mine DEF Runs
<1>4. MemoryFits(run', blob[run.sid], calls[run.sid])
  BY <1>1, <1>2, <1>3, Mine DEF CallFits, MemoryFits
<1>5. EntryFits(run') /\ EndFits(run', calls[run.sid])
  BY <1>3 DEF EntryFits, EndFits
<1>6. StageFits(run', calls[run.sid])
  BY <1>1, <1>3, AtLoop DEF StageFits, Marking, Invoking
<1>7. RowsFit(run')
  BY <1>1, <1>3, AtLoop DEF RowsFit
<1>8. run.op = "advance" => run.mem.pending # Nil /\ st = run.stage
  <2> SUFFICES ASSUME run.op = "advance" PROVE run.mem.pending # Nil /\ st = run.stage
    OBVIOUS
  <2>1. st \in StagesOf[run.mem.wf] /\ run.nodes[st] = "pending" /\ st = run.dec.stage
    BY <1>1, AtLoop
  <2>2. run.mem.pending # Nil
    BY <1>1, <2>1 DEF RunnerInv, OneStagePerCall, AllSucceeded
  <2>3. Reserved
    BY <1>1, <2>2 DEF Reserved
  <2> QED
    BY <2>1, <2>2, <2>3 DEF RunnerInv, Handoffs
<1>9. HandoffFits(run')
  BY <1>1, <1>2, <1>3, <1>8, Mine DEF CallFits, HandoffFits, Reserving
<1> QED
  BY <1>1, <1>2, <1>3, <1>4, <1>5, <1>6, <1>7, <1>9, WorkMoves DEF CallFits, Creating

\* The last status is complete only with every stage succeeded and, on the
\* Core path, with the planner's own word for it.
LEMMA LoopEndWorks == ASSUME RunnerInv, WorkInv, LoopEnd PROVE WorkInv' /\ StopStays
<1> DEFINE f == FinalStatus(run.sid, run.mem, run.nodes)
           pc == IF f = "complete" THEN "close_first" ELSE "settle"
<1>1. /\ Started /\ run.pc = "loop" /\ UNCHANGED <<store, held, history>>
      /\ run' = IF ReadyNodes(run.mem.wf, run.nodes) # {} THEN IdleRun
                ELSE [run EXCEPT !.pc = pc, !.mark = f]
  BY AtLoop DEF LoopEnd
<1>2. CASE ReadyNodes(run.mem.wf, run.nodes) # {}
  BY <1>1, <1>2, WorkMoves
<1>3. CASE ReadyNodes(run.mem.wf, run.nodes) = {}
  <2>1. f = "complete" => /\ AllSucceeded(run.mem.wf, run.nodes)
                          /\ run.mem.kind = "plain" \/ Outcome(run.mem, run.nodes) = "complete"
    BY DEF FinalStatus, Decide
  <2>2. pc \in {"close_first", "settle"} /\ (pc = "close_first" => f = "complete")
    OBVIOUS
  <2> HIDE DEF f, pc
  <2>3. /\ run'.pc = pc /\ run'.op = run.op /\ run'.sid = run.sid /\ run'.mem = run.mem
        /\ run'.nodes = run.nodes /\ run'.mark = f
    BY <1>1, <1>3, Mine DEF Runs
  <2>4. MemoryFits(run', blob[run.sid], calls[run.sid])
    BY <1>1, <2>2, <2>3, Mine DEF CallFits, MemoryFits
  <2>5. /\ EntryFits(run') /\ StageFits(run', calls[run.sid]) /\ HandoffFits(run')
    BY <2>2, <2>3 DEF EntryFits, StageFits, HandoffFits, Reserving, AtWork, Marking, Invoking
  <2>6. RowsFit(run')
    BY <1>1, <2>3, AtLoop DEF RowsFit
  <2>7. EndFits(run', calls[run.sid])
    BY <1>1, <2>1, <2>2, <2>3, CompleteMeans DEF EndFits
  <2> QED
    BY <1>1, <2>2, <2>3, <2>4, <2>5, <2>6, <2>7, WorkMoves DEF CallFits, Creating
<1> QED
  BY <1>2, <1>3

\* A row changes under a stage that is not final, so in a session that is
\* neither closed nor complete.
LEMMA CheckpointRowWorks == ASSUME RunnerInv, WorkInv, CheckpointRow PROVE WorkInv' /\ StopStays
<1> DEFINE st == run.stage
           m == Touch(run.mem)
           n == [run.nodes EXCEPT ![st] = run.to]
<1>1. /\ Started /\ run.pc = "checkpoint" /\ blob' = blob /\ srow' = srow /\ calls' = calls
      /\ st \in Stage /\ run.to \in NodeStatuses \ {"absent", "pending"}
  BY DEF CheckpointRow, RunnerInv, RunShape, Started, Checkpointing, history
<1>2. /\ rows' = [rows EXCEPT ![run.sid] = n]
      /\ run' = [run EXCEPT !.pc = "save_checkpoint", !.mem = m, !.nodes = n]
  <2>1. rows' = [rows EXCEPT ![run.sid][st] = run.to] /\ rows[run.sid] = run.nodes
    BY <1>1, Mine DEF CheckpointRow
  <2>2. rows' = [rows EXCEPT ![run.sid] = n]
    BY <2>1
  <2>3. run' = [run EXCEPT !.pc = "save_checkpoint", !.mem = m, !.nodes = n]
    BY <1>1, Mine DEF CheckpointRow, Runs
  <2> QED
    BY <2>2, <2>3
<1>3. /\ m \in Blobs /\ Core(m) = Core(run.mem)
      /\ m.status = run.mem.status /\ m.active = run.mem.active
  BY <1>1, Mine, Updates, StatusWrites
<1>4. \A x \in Stage : n[x] = IF x = st THEN run.to ELSE run.nodes[x]
  BY <1>1, Mine
<1> HIDE DEF m, n
<1>5. /\ run'.pc = "save_checkpoint" /\ run'.op = run.op /\ run'.sid = run.sid /\ run'.mem = m
      /\ run'.nodes = n /\ run'.stage = st /\ run'.to = run.to /\ run'.next = run.next
      /\ run'.mark = run.mark
  BY <1>1, <1>2, Mine DEF Runs
<1>6. rows'[run.sid] = n /\ \A s \in Sessions \ {run.sid} : rows'[s] = rows[s]
  <2>1. rows \in [Sessions -> [Stage -> NodeStatuses]]
    BY DEF RunnerInv, TypeOK
  <2> QED
    BY <1>1, <1>2, <2>1, Mine
<1>7. /\ st \in StagesOf[run.mem.wf] /\ run.nodes[st] \in {"pending", "needs_review", "running"}
      /\ run.next = "settle" => run.mark # "complete"
      /\ run.to = "running" <=> run.next = "invoke"
      /\ run.to = "success" => IF st \in Human[run.mem.wf]
                               THEN run.op = "approve" \/ (run.op = "run" /\ run.mark = "investigating")
                               ELSE calls[run.sid][st] = 1
      /\ run.next = "invoke" => st \notin Human[run.mem.wf] /\ DepsDone(run.mem.wf, run.nodes, st)
      /\ run.next = "approve" => run.op \in {"approve", "run"}
  BY <1>1, Mine DEF CallFits, StageFits, AtWork, Marking, Invoking
<1>8. run.nodes[st] # "success" /\ \A x \in Stage : run.nodes[x] = "running" => x = st
  BY <1>1, <1>7, Mine DEF CallFits, RowsFit
<1>9. /\ srow[run.sid] # "closed"
      /\ run.mem.kind # "plain" => run.mem.status # "complete"
      /\ blob[run.sid].kind # "plain" => blob[run.sid].status # "complete"
  BY <1>1, <1>7, <1>8, Mine, Unfinished
<1>10. SessionFits(blob[run.sid], n, calls[run.sid], srow[run.sid])
  BY <1>1, <1>4, <1>7, <1>9, Mine DEF SessionFits
<1>11. MemoryFits(run', blob[run.sid], calls[run.sid])
  BY <1>1, <1>3, <1>5, <1>9, Mine DEF CallFits, MemoryFits, Core
<1>12. EntryFits(run') /\ EndFits(run', calls[run.sid])
  BY <1>5 DEF EntryFits, EndFits
<1>13. run.next = "invoke" => DepsDone(run.mem.wf, n, st)
  <2>1. Deps[run.mem.wf][st] \subseteq Stage
    BY <1>1, Mine, WorkflowAssumption
  <2> QED
    BY <1>4, <1>7, <1>8, <2>1 DEF DepsDone
<1>14. StageFits(run', calls[run.sid])
  BY <1>3, <1>5, <1>7, <1>13 DEF StageFits, AtWork, Marking, Invoking, Core
<1>15. RowsFit(run')
  BY <1>1, <1>4, <1>5, <1>8 DEF RowsFit, AtWork
<1>16. HandoffFits(run')
  <2>1. Unproven(m, n) /\ run.next = "invoke" => Unproven(run.mem, run.nodes)
    BY <1>1, <1>3, <1>4, <1>7, Mine DEF Unproven, Agents, Core
  <2> QED
    BY <1>1, <1>3, <1>5, <2>1, Mine DEF CallFits, HandoffFits, Reserving, Marking, Invoking,
       AtWork, Core
<1>17. Live(run.sid) \/ (Quiet(blob[run.sid], rows[run.sid]) => Quiet(blob[run.sid], n))
  <2>1. CASE run.to = "running"
    <3>1. run.op \in {"advance", "run"} /\ AboutToInvoke
      BY <1>1, <1>7, <2>1 DEF RunnerInv, RunShape, AboutToInvoke, Checkpointing
    <3>2. run.mem.stop = Nil
      BY <3>1 DEF RunnerInv, Handoffs, Reserved
    <3> QED
      BY <1>1, <3>2, Mine DEF Live
  <2>2. CASE run.to # "running"
    BY <1>1, <1>4, <2>2, Mine DEF Quiet
  <2> QED
    BY <2>1, <2>2
<1>18. CallFits(run', blob[run.sid], calls[run.sid])
  BY <1>11, <1>12, <1>14, <1>15, <1>16 DEF CallFits
<1> QED
  BY <1>1, <1>5, <1>6, <1>10, <1>17, <1>18, Mine, WorkFrame DEF Creating

\* CheckpointSave keeps WorkInv and withdraws no stop.
LEMMA CheckpointSaveWorks == ASSUME RunnerInv, WorkInv, CheckpointSave PROVE WorkInv' /\ StopStays
<1>1. /\ Started /\ run.pc = "save_checkpoint" /\ Save(run.mem)
      /\ run' = [run EXCEPT !.pc = run.next]
      /\ UNCHANGED <<rows, srow, held, history>>
      /\ run.next \in {"approve", "settle", "invoke", "loop"}
  BY DEF CheckpointSave, RunnerInv, RunShape, Started, Checkpointing
<1>2. /\ run'.pc = run.next /\ run'.op = run.op /\ run'.sid = run.sid /\ run'.mem = run.mem
      /\ run'.nodes = run.nodes /\ run'.stage = run.stage /\ run'.mark = run.mark
  BY <1>1, Mine DEF Runs
<1>3. MemoryFits(run', run.mem, calls[run.sid])
  BY <1>1, <1>2, Mine DEF CallFits, MemoryFits
<1>4. StageFits(run', calls[run.sid])
  BY <1>1, <1>2, Mine DEF CallFits, StageFits, AtWork, Marking, Invoking
<1>5. EntryFits(run') /\ EndFits(run', calls[run.sid])
  BY <1>1, <1>2, Mine DEF CallFits, StageFits, EntryFits, EndFits, Marking
<1>6. RowsFit(run')
  BY <1>1, <1>2, Mine DEF CallFits, StageFits, RowsFit, AtWork, Marking
<1>7. run.op = "advance" /\ run.next = "loop" => run.mem.pending = Nil
  BY <1>1 DEF RunnerInv, OneStagePerCall, Checkpointing
<1>8. HandoffFits(run')
  BY <1>1, <1>2, <1>7, Mine DEF CallFits, HandoffFits, Reserving, Marking, Invoking, AtWork
<1>9. run.mem.kind # "plain" /\ run.mem.status = "complete" =>
         Proven(run.mem, run.nodes, calls[run.sid])
  BY <1>1, Mine DEF CallFits, MemoryFits
<1> QED
  BY <1>1, <1>2, <1>3, <1>4, <1>5, <1>6, <1>8, <1>9, Mine, WorkSaves
     DEF CallFits, Creating, history

\* A row that is marked running has not been executed before.
LEMMA InvokeExecutorWorks == ASSUME RunnerInv, WorkInv, InvokeExecutor PROVE WorkInv' /\ StopStays
<1> DEFINE st == run.stage
           k == [calls[run.sid] EXCEPT ![st] = 1]
<1>1. /\ Started /\ run.pc = "invoke" /\ st \in Stage
      /\ run' = [run EXCEPT !.pc = "executing"]
      /\ blob' = blob /\ rows' = rows /\ srow' = srow
  BY DEF InvokeExecutor, RunnerInv, RunShape, Started, store
<1>2. calls[run.sid][st] = 0 /\ run.nodes[st] = "running"
  BY <1>1, Mine DEF RunnerInv, RowsFence, AboutToInvoke
<1>3. calls' = [calls EXCEPT ![run.sid] = k] /\ calls \in [Sessions -> [Stage -> Nat]]
  BY <1>1, <1>2, Mine DEF InvokeExecutor, RunnerInv, TypeOK
<1>4. \A x \in Stage : k[x] = IF x = st THEN 1 ELSE calls[run.sid][x]
  BY <1>1, <1>3, Mine
<1> HIDE DEF k
<1>5. calls'[run.sid] = k /\ \A s \in Sessions \ {run.sid} : calls'[s] = calls[s]
  BY <1>1, <1>3, Mine
<1>6. /\ run'.pc = "executing" /\ run'.op = run.op /\ run'.sid = run.sid /\ run'.mem = run.mem
      /\ run'.nodes = run.nodes /\ run'.stage = st
  BY <1>1, Mine DEF Runs
<1>7. st \in StagesOf[run.mem.wf] /\ st \notin Human[run.mem.wf]
  BY <1>1, Mine DEF CallFits, StageFits, AtWork, Invoking
<1>8. /\ srow[run.sid] # "closed"
      /\ run.mem.kind # "plain" => run.mem.status # "complete"
      /\ blob[run.sid].kind # "plain" => blob[run.sid].status # "complete"
  BY <1>1, <1>2, <1>7, Mine, Unfinished
<1>9. SessionFits(blob[run.sid], rows[run.sid], k, srow[run.sid])
  BY <1>1, <1>2, <1>4, <1>8, Mine DEF SessionFits
<1>10. MemoryFits(run', blob[run.sid], k)
  BY <1>1, <1>6, <1>8, Mine DEF CallFits, MemoryFits
<1>11. EntryFits(run') /\ EndFits(run', k)
  BY <1>6 DEF EntryFits, EndFits
<1>12. StageFits(run', k)
  BY <1>1, <1>2, <1>4, <1>6, <1>7 DEF StageFits, Marking, Invoking
<1>13. RowsFit(run') /\ HandoffFits(run')
  BY <1>1, <1>6, Mine DEF CallFits, RowsFit, HandoffFits, Reserving, Marking, Invoking, AtWork
<1>14. CallFits(run', blob[run.sid], k)
  BY <1>10, <1>11, <1>12, <1>13 DEF CallFits
<1>15. run.mem.stop = Nil
  BY <1>1 DEF RunnerInv, RunShape, Handoffs, Reserved, AboutToInvoke
<1> QED
  BY <1>1, <1>5, <1>6, <1>9, <1>14, <1>15, Mine, WorkFrame DEF Creating

\* The result is saved while the stage's row still says running.
LEMMA RecordResultWorks == ASSUME RunnerInv, WorkInv, NEW r \in Results, RecordResult(r) PROVE WorkInv' /\ StopStays
<1> DEFINE st == run.stage
           active == [run.mem.active EXCEPT ![st] = ActiveAfter(r, run.mem.active[st])]
           a == [run.mem EXCEPT !.active = active]
           b == Touch(a)
           more == \E o \in StagesOf[b.wf] \ {st} : run.nodes[o] # "success"
           to == NodeAfter[r]
           mem == [b EXCEPT !.pending = IF run.op = "advance" THEN Nil ELSE b.pending]
           next == IF to = "success" /\ ~ (run.op = "advance" /\ more) THEN "loop" ELSE "settle"
           mark == CASE to = "success" -> "investigating"
                     [] r = "review" -> "blocked"
                     [] OTHER -> "failed"
<1>1. /\ Started /\ run.op \in {"advance", "run"} /\ st \in Stage /\ run.pc = "executing"
  BY DEF RecordResult, RunnerInv, RunShape, Started
<1>2. /\ to \in {"success", "needs_review", "error"} /\ next \in {"loop", "settle"}
      /\ mark # "complete"
  BY DEF Results, NodeAfter
<1>3. active \in [Stage -> Verdicts]
  <2>1. run.mem.active \in [Stage -> Verdicts]
    BY <1>1, Mine DEF Blobs
  <2>2. ActiveAfter(r, run.mem.active[st]) \in Verdicts
    BY <1>1, <2>1 DEF ActiveAfter, Verdicts, Results
  <2> QED
    BY <2>1, <2>2
<1>4. a = [run.mem EXCEPT !.active[st] = ActiveAfter(r, run.mem.active[st])]
  BY <1>1, <1>3, Mine DEF Blobs
<1>5. a \in Blobs /\ Core(a) = Core(run.mem) /\ a.status = run.mem.status
  <2>1. a \in Blobs
    BY <1>1, <1>3, Mine, FieldWrites
  <2> HIDE DEF active
  <2>2. Core(a) = Core(run.mem) /\ a.status = run.mem.status
    BY <1>1, Mine DEF Core, Blobs
  <2> QED
    BY <2>1, <2>2
<1>6. /\ Save(b) /\ UNCHANGED <<rows, srow, held, history>>
  BY <1>4 DEF RecordResult
<1>7. run' = [run EXCEPT !.pc = "checkpoint", !.to = to, !.mem = mem, !.next = next, !.mark = mark]
  <2>1. b \in Blobs
    BY <1>5, Updates
  <2>2. [b EXCEPT !.pending = IF run.op = "advance" THEN Nil ELSE @] = mem
    BY <2>1 DEF Blobs
  <2> QED
    BY <1>4, <2>2 DEF RecordResult
<1> HIDE DEF a, to, next, mark
<1>8. b \in Blobs /\ Core(b) = Core(run.mem) /\ b.status = run.mem.status
  BY <1>5, Updates, StatusWrites
<1> HIDE DEF b
<1>9. run.op = "run" => run.mem.pending = Nil
  BY <1>1, Mine DEF CallFits, MemoryFits
<1>10. /\ mem.pending = Nil /\ mem.kind = run.mem.kind /\ mem.wf = run.mem.wf
       /\ mem.active = b.active /\ mem.status = run.mem.status
  BY <1>1, <1>8, <1>9 DEF Core, Blobs
<1> HIDE DEF mem
<1>11. /\ run'.pc = "checkpoint" /\ run'.op = run.op /\ run'.sid = run.sid /\ run'.mem = mem
       /\ run'.nodes = run.nodes /\ run'.stage = st /\ run'.to = to /\ run'.next = next
       /\ run'.mark = mark
  BY <1>1, <1>7, Mine DEF Runs
<1>12. /\ st \in StagesOf[run.mem.wf] /\ st \notin Human[run.mem.wf]
       /\ calls[run.sid][st] = 1 /\ run.nodes[st] = "running"
  BY <1>1, Mine DEF CallFits, StageFits, AtWork
<1>13. run.mem.kind # "plain" => run.mem.status # "complete" /\ run.mem.status # "failed"
  BY <1>1, <1>12, Mine, Unfinished DEF CallFits, HandoffFits, AtWork
<1>14. MemoryFits(run', b, calls[run.sid])
  BY <1>1, <1>8, <1>9, <1>10, <1>11, <1>13, Mine DEF CallFits, MemoryFits, Core
<1>15. EntryFits(run') /\ EndFits(run', calls[run.sid])
  BY <1>11 DEF EntryFits, EndFits
<1>16. StageFits(run', calls[run.sid])
  BY <1>2, <1>10, <1>11, <1>12 DEF StageFits, Marking, Invoking
<1>17. RowsFit(run')
  BY <1>1, <1>11, Mine DEF CallFits, RowsFit, AtWork
<1>18. HandoffFits(run')
  BY <1>2, <1>10, <1>11, <1>13 DEF HandoffFits, Reserving, Marking, Invoking
<1>19. b.kind = run.mem.kind /\ b.wf = run.mem.wf /\ b.stop = run.mem.stop
       /\ b.pending = run.mem.pending /\ b.used = run.mem.used
  BY <1>8 DEF Core
<1>20. CallFits(run', b, calls[run.sid])
  BY <1>14, <1>15, <1>16, <1>17, <1>18 DEF CallFits
<1>21. UNCHANGED <<rows, srow, history>>
  BY <1>6
<1> QED
  BY <1>1, <1>6, <1>8, <1>11, <1>13, <1>19, <1>20, <1>21, WorkSaves DEF Creating

\* The call's last save: complete only on proof.
LEMMA SettleWorks == ASSUME RunnerInv, WorkInv, Settle PROVE WorkInv' /\ StopStays
<1> DEFINE b == Mark(run.mem, run.mark)
<1>1. /\ Started /\ run.pc = "settle" /\ run.mark \in TaskStatuses
      /\ Save(b) /\ UNCHANGED <<rows, srow, held, history>>
      /\ run' = IF run.op = "run" /\ run.mark = "investigating"
                THEN [run EXCEPT !.pc = "loop", !.mem = b] ELSE IdleRun
  BY DEF Settle, RunnerInv, RunShape, Started
<1>2. b \in Blobs /\ Core(b) = Core(run.mem) /\ b.status = run.mark /\ b.active = run.mem.active
  BY <1>1, Mine, Updates, StatusWrites
<1> HIDE DEF b
<1>3. b.kind # "plain" /\ b.status = "complete" => Proven(b, run.nodes, calls[run.sid])
  BY <1>1, <1>2, Mine DEF CallFits, EndFits, Proven, Core
<1>4. CASE ~ (run.op = "run" /\ run.mark = "investigating")
  BY <1>1, <1>2, <1>3, <1>4, WorkSaves DEF Core, history
<1>5. CASE run.op = "run" /\ run.mark = "investigating"
  <2>1. /\ run'.pc = "loop" /\ run'.op = "run" /\ run'.sid = run.sid /\ run'.mem = b
        /\ run'.nodes = run.nodes
    BY <1>1, <1>5, Mine DEF Runs
  <2>2. MemoryFits(run', b, calls[run.sid])
    BY <1>1, <1>2, <1>5, <2>1, Mine DEF CallFits, MemoryFits, Core
  <2>3. /\ EntryFits(run') /\ StageFits(run', calls[run.sid]) /\ EndFits(run', calls[run.sid])
        /\ HandoffFits(run')
    BY <1>2, <1>5, <2>1 DEF EntryFits, StageFits, EndFits, HandoffFits, Reserving, AtWork,
       Marking, Invoking
  <2>4. RowsFit(run')
    BY <1>1, <2>1, Mine DEF CallFits, RowsFit, AtWork
  <2> QED
    BY <1>1, <1>2, <1>3, <2>1, <2>2, <2>3, <2>4, WorkSaves DEF CallFits, Creating, Core, history
<1> QED
  BY <1>4, <1>5

\* A row is closed on a plan that has succeeded.
LEMMA CloseSessionWorks == ASSUME RunnerInv, WorkInv, CloseSession PROVE WorkInv' /\ StopStays
<1>1. /\ Started /\ run.pc \in {"close", "close_first"}
      /\ srow' = [srow EXCEPT ![run.sid] = "closed"]
      /\ run' = IF run.pc = "close" THEN IdleRun ELSE [run EXCEPT !.pc = "settle"]
      /\ blob' = blob /\ rows' = rows /\ calls' = calls
  BY DEF CloseSession, RunnerInv, RunShape, Started, Creating, history
<1>2. srow'[run.sid] = "closed" /\ \A s \in Sessions \ {run.sid} : srow'[s] = srow[s]
  <2>1. srow \in [Sessions -> {"absent", "open", "closed"}]
    BY DEF RunnerInv, TypeOK
  <2> QED
    BY <1>1, <2>1, Mine
<1>3. AllSucceeded(run.mem.wf, run.nodes)
  BY <1>1, Mine DEF CallFits, EndFits
<1>4. SessionFits(blob[run.sid], rows[run.sid], calls[run.sid], "closed")
  BY <1>1, <1>3, Mine DEF SessionFits
<1>5. CASE run.pc = "close"
  <2>1. run'.pc = "idle" /\ ~ Started' /\ run'.pc \notin Creating
    BY <1>1, <1>5, IdleIsOut DEF Started, Creating
  <2> QED
    BY <1>1, <1>2, <1>4, <2>1, Mine, WorkFrame DEF Creating
<1>6. CASE run.pc = "close_first"
  <2>1. /\ run'.pc = "settle" /\ run'.op = run.op /\ run'.sid = run.sid /\ run'.mem = run.mem
        /\ run'.nodes = run.nodes /\ run'.mark = run.mark
    BY <1>1, <1>6, Mine DEF Runs
  <2>2. /\ MemoryFits(run', blob[run.sid], calls[run.sid]) /\ EndFits(run', calls[run.sid])
    BY <1>1, <1>6, <2>1, Mine DEF CallFits, MemoryFits, EndFits
  <2>3. EntryFits(run') /\ StageFits(run', calls[run.sid]) /\ HandoffFits(run')
    BY <2>1 DEF EntryFits, StageFits, HandoffFits, Reserving, AtWork, Marking, Invoking
  <2>4. RowsFit(run')
    BY <1>1, <1>6, <2>1, Mine DEF CallFits, RowsFit, AtWork
  <2>5. CallFits(run', blob[run.sid], calls[run.sid])
    BY <2>2, <2>3, <2>4 DEF CallFits
  <2> QED
    BY <1>1, <1>2, <1>4, <2>1, <2>5, Mine, WorkFrame DEF Creating
<1> QED
  BY <1>1, <1>5, <1>6

-----------------------------------------------------------------------------
(* The theorems on completion, progress and handoffs. *)

\* WorkInv holds before any call.
LEMMA WorkInit == Init => WorkInv
<1> SUFFICES ASSUME Init PROVE WorkInv
  OBVIOUS
<1>1. run.pc = "idle" /\ ~ Started /\ run.pc \notin Creating
  BY IdleIsOut DEF Init, Started, Creating
<1>2. \A s \in Sessions : SessionFits(blob[s], rows[s], calls[s], srow[s])
  BY DEF Init, SessionFits
<1>3. OthersQuiet
  BY <1>1 DEF Init, OthersQuiet, Live
<1> QED
  BY <1>1, <1>2, <1>3 DEF WorkInv

\* WorkInv is kept, and a stop is never withdrawn, by every step.
LEMMA WorkNext == RunnerInv /\ WorkInv /\ [Next]_vars => WorkInv' /\ StopStays
<1> SUFFICES ASSUME RunnerInv, WorkInv, [Next]_vars PROVE WorkInv' /\ StopStays
  OBVIOUS
<1>1. CASE Step
  <2>1. CASE \E s \in Sessions : CreateSession(s)
    BY <2>1, CreateSessionWorks
  <2>2. CASE SavePlan
    BY <2>2, SavePlanWorks
  <2>3. CASE SaveTaskState
    BY <2>3, SaveTaskStateWorks
  <2>4. CASE LinkReplacement
    BY <2>4, LinkReplacementWorks
  <2>5. CASE DecideCore
    BY <2>5, DecideCoreWorks
  <2>6. CASE ReviewCore
    BY <2>6, ReviewCoreWorks
  <2>7. CASE StopCore
    BY <2>7, StopCoreWorks
  <2>8. CASE \E w \in Workflows : ReplanCore(w)
    BY <2>8, ReplanCoreWorks
  <2>9. CASE AdvanceSettle
    BY <2>9, AdvanceSettleWorks
  <2>10. CASE AdvanceAwait
    BY <2>10, AdvanceAwaitWorks
  <2>11. CASE AdvanceHandoff
    BY <2>11, AdvanceHandoffWorks
  <2>12. CASE RecoverInterrupted
    BY <2>12, RecoverInterruptedWorks
  <2>13. CASE ApproveCoreStage
    BY <2>13, ApproveCoreStageWorks
  <2>14. CASE ApproveHumanStage
    BY <2>14, ApproveHumanStageWorks
  <2>15. CASE \E st \in Stage : LoopHuman(st)
    BY <2>15, LoopHumanWorks
  <2>16. CASE \E st \in Stage : LoopAgent(st)
    BY <2>16, LoopAgentWorks
  <2>17. CASE LoopEnd
    BY <2>17, LoopEndWorks
  <2>18. CASE CheckpointRow
    BY <2>18, CheckpointRowWorks
  <2>19. CASE CheckpointSave
    BY <2>19, CheckpointSaveWorks
  <2>20. CASE InvokeExecutor
    BY <2>20, InvokeExecutorWorks
  <2>21. CASE \E r \in Results : RecordResult(r)
    BY <2>21, RecordResultWorks
  <2>22. CASE Settle
    BY <2>22, SettleWorks
  <2>23. CASE CloseSession
    BY <2>23, CloseSessionWorks
  <2> QED
    BY <1>1, <2>1, <2>2, <2>3, <2>4, <2>5, <2>6, <2>7, <2>8, <2>9, <2>10, <2>11, <2>12,
       <2>13, <2>14, <2>15, <2>16, <2>17, <2>18, <2>19, <2>20, <2>21, <2>22, <2>23 DEF Step
<1>2. CASE Request
  BY <1>2, StartWorks, CallDecideWorks, IssuedCoreWorks, CallCoreWorks, CallRunWorks DEF Request
<1>3. CASE Crash
  BY <1>3, CrashWorks
<1>4. CASE UNCHANGED vars
  <2>1. run' = run /\ blob' = blob /\ rows' = rows /\ srow' = srow /\ calls' = calls
    BY <1>4 DEF vars
  <2>2. (Started' <=> Started) /\ (OthersQuiet' <=> OthersQuiet)
    BY <2>1 DEF Started, OthersQuiet, Live
  <2> QED
    BY <2>1, <2>2 DEF WorkInv, StopStays
<1> QED
  BY <1>1, <1>2, <1>3, <1>4 DEF Next

\* Which steps write rows, and which one calls the executor.
LEMMA RowsWrittenBy ==
    ASSUME [Next]_vars
    PROVE  rows' = rows \/ SavePlan \/ CheckpointRow \/ RecoverInterrupted
<1>1. CASE Step
  BY <1>1 DEF Step, CreateSession, SaveTaskState, LinkReplacement, DecideCore, ReviewCore, StopCore,
     ReplanCore, AdvanceSettle, AdvanceAwait, AdvanceHandoff, ApproveCoreStage, ApproveHumanStage,
     LoopHuman, LoopAgent, LoopEnd, CheckpointSave, InvokeExecutor, RecordResult, Settle,
     CloseSession, store
<1>2. CASE Request
  BY <1>2 DEF Request, Start, CallDecide, IssuedCore, CallCore, CallRun, store
<1>3. CASE Crash \/ UNCHANGED vars
  BY <1>3 DEF Crash, vars, store
<1> QED
  BY <1>1, <1>2, <1>3, SMTT(40) DEF Next

\* Only the executor's invocation spends.
LEMMA SpentBy ==
    ASSUME [Next]_vars
    PROVE  spent' = spent \/ InvokeExecutor
<1>1. CASE Step
  BY <1>1 DEF Step, CreateSession, SavePlan, SaveTaskState, LinkReplacement, DecideCore, ReviewCore,
     StopCore, ReplanCore, AdvanceSettle, AdvanceAwait, AdvanceHandoff, RecoverInterrupted,
     ApproveCoreStage, ApproveHumanStage, LoopHuman, LoopAgent, LoopEnd, CheckpointRow,
     CheckpointSave, RecordResult, Settle, CloseSession, history
<1>2. CASE Request
  BY <1>2 DEF Request, Start, CallDecide, IssuedCore, CallCore, CallRun, history
<1>3. CASE Crash \/ UNCHANGED vars
  BY <1>3 DEF Crash, vars, history
<1> QED
  BY <1>1, <1>2, <1>3, SMTT(40) DEF Next

\* The steps that StepsAreLegal and DispatchIsUnambiguous allow.
DependenciesMet ==
    spent' # spent =>
        \A d \in Deps[blob[run.sid].wf][run.stage] :
            /\ rows[run.sid][d] = "success"
            /\ run.op = "advance" /\ d \notin Human[blob[run.sid].wf]
                  => blob[run.sid].active[d] = "verified"

NodesProgress ==
    \A s \in Sessions, st \in Stage :
        /\ rows[s][st] \in {"success", "error"} => rows'[s][st] = rows[s][st]
        /\ rows'[s][st] = "success" /\ rows[s][st] # "success" =>
              IF st \in Human[blob[s].wf]
              THEN run.op = "approve" \/ (run.op = "run" /\ run.mark = "investigating")
              ELSE calls[s][st] = 1

Unambiguous ==
    spent' # spent =>
         /\ \A s \in Sessions :
              /\ blob[s] # Nil /\ blob[s].pending # Nil => s = run.sid /\ blob[s].pending = run.stage
              /\ \A st \in Stage : rows[s][st] = "running" => s = run.sid /\ st = run.stage
         /\ blob[run.sid].stop = Nil
         /\ blob[run.sid].kind # "plain" => blob[run.sid].status # "failed"

\* The call that invokes the executor holds the mission's only open handoff.
LEMMA InvokeIsLegal ==
    ASSUME RunnerInv, WorkInv, InvokeExecutor
    PROVE  DependenciesMet /\ Unambiguous
<1>1. /\ Started /\ run.pc = "invoke" /\ run.stage \in Stage /\ run.op \in {"advance", "run"}
  BY DEF InvokeExecutor, RunnerInv, RunShape, Started
<1>2. DepsDone(run.mem.wf, run.nodes, run.stage)
  BY <1>1, Mine DEF CallFits, StageFits, Invoking
<1>3. run.op = "advance" => run.mem.pending = run.stage /\ ~ Unproven(run.mem, run.nodes)
  BY <1>1, Mine DEF CallFits, HandoffFits, Reserving, Invoking
<1>4. /\ run.mem.active = blob[run.sid].active /\ run.mem.status = blob[run.sid].status
      /\ run.mem.pending \in {blob[run.sid].pending, Nil}
      /\ run.op = "run" => blob[run.sid].pending = Nil
      /\ run.mem.kind # "plain" => run.mem.status # "failed"
  BY <1>1, Mine DEF CallFits, MemoryFits, HandoffFits, AtWork
<1>5. Live(run.sid)
  <2>1. run.mem.stop = Nil
    BY <1>1 DEF RunnerInv, Handoffs, Reserved, AboutToInvoke
  <2> QED
    BY <1>1, <2>1, Mine DEF Live
<1>6. DependenciesMet
  <2> SUFFICES ASSUME NEW d \in Deps[run.mem.wf][run.stage]
               PROVE  /\ run.nodes[d] = "success"
                      /\ run.op = "advance" /\ d \notin Human[run.mem.wf]
                            => run.mem.active[d] = "verified"
    BY <1>1, <1>4, Mine DEF DependenciesMet
  <2>1. run.nodes[d] = "success" /\ d \in StagesOf[run.mem.wf]
    BY <1>1, <1>2, Mine, WorkflowAssumption DEF DepsDone
  <2> QED
    BY <1>3, <2>1 DEF Unproven, Agents
<1>7. Unambiguous
  <2>1. \A s \in Sessions : s # run.sid => Quiet(blob[s], rows[s])
    BY <1>1, <1>5, Mine DEF WorkInv, OthersQuiet
  <2>2. blob[run.sid].pending # Nil => blob[run.sid].pending = run.stage
    BY <1>1, <1>3, <1>4, NilAssumption
  <2>3. \A st \in Stage : run.nodes[st] = "running" => st = run.stage
    BY <1>1, Mine DEF CallFits, RowsFit
  <2>4. blob[run.sid].stop = Nil /\ (blob[run.sid].kind # "plain" => blob[run.sid].status # "failed")
    BY <1>1, <1>4, <1>5, Mine DEF Live
  <2> QED
    BY <1>1, <2>1, <2>2, <2>3, <2>4, Mine DEF Unambiguous, Quiet
<1> QED
  BY <1>6, <1>7

\* What is over stays so, and a node succeeds only by its one call or a human's approval.
LEMMA NodesAreLegal == RunnerInv /\ WorkInv /\ [Next]_vars => NodesProgress
<1> SUFFICES ASSUME RunnerInv, WorkInv, [Next]_vars PROVE NodesProgress
  OBVIOUS
<1>0. rows \in [Sessions -> [Stage -> NodeStatuses]]
  BY DEF RunnerInv, TypeOK
<1>1. CASE rows' = rows
  BY <1>1 DEF NodesProgress
<1>2. CASE SavePlan
  <2> DEFINE n == [st \in Stage |-> IF st \in StagesOf[run.kid.wf] THEN "pending" ELSE "absent"]
  <2>1. /\ rows' = [rows EXCEPT ![run.kidSid] = n] /\ run.kidSid \in Sessions
        /\ blob[run.kidSid] = Nil
    BY <1>2 DEF SavePlan, RunnerInv, RunShape, OneLive, Creating
  <2>2. \A st \in Stage : n[st] \in {"absent", "pending"}
    OBVIOUS
  <2> HIDE DEF n
  <2>3. \A st \in Stage : rows[run.kidSid][st] \in {"absent", "pending"}
    BY <2>1 DEF WorkInv, SessionFits
  <2>4. \A s \in Sessions : rows'[s] = IF s = run.kidSid THEN n ELSE rows[s]
    BY <1>0, <2>1
  <2> QED
    BY <2>2, <2>3, <2>4 DEF NodesProgress
<1>3. CASE CheckpointRow
  <2>1. /\ Started /\ run.pc = "checkpoint" /\ run.stage \in Stage
        /\ rows' = [rows EXCEPT ![run.sid][run.stage] = run.to]
    BY <1>3 DEF CheckpointRow, RunnerInv, RunShape, Started, Checkpointing
  <2>2. /\ run.nodes[run.stage] \in {"pending", "needs_review", "running"}
        /\ run.to = "success" =>
              IF run.stage \in Human[run.mem.wf]
              THEN run.op = "approve" \/ (run.op = "run" /\ run.mark = "investigating")
              ELSE calls[run.sid][run.stage] = 1
    BY <2>1, Mine DEF CallFits, StageFits, Marking
  <2>3. \A s \in Sessions, st \in Stage :
           rows'[s][st] = IF s = run.sid /\ st = run.stage THEN run.to ELSE rows[s][st]
    BY <1>0, <2>1, Mine
  <2> QED
    BY <2>1, <2>2, <2>3, Mine DEF NodesProgress
<1>4. CASE RecoverInterrupted
  <2>1. CASE rows' = rows
    BY <2>1 DEF NodesProgress
  <2>2. CASE rows' # rows
    <3>1. /\ Started /\ rows' = [rows EXCEPT ![run.sid] = Recovered(rows[run.sid])]
      BY <1>4, <2>2 DEF RecoverInterrupted, RunnerInv, RunShape, Started
    <3>2. \A s \in Sessions :
             rows'[s] = IF s = run.sid THEN Recovered(rows[s]) ELSE rows[s]
      BY <1>0, <3>1, Mine
    <3> QED
      BY <1>0, <3>2, RecoveredMeans DEF NodesProgress
  <2> QED
    BY <2>1, <2>2
<1> QED
  BY <1>1, <1>2, <1>3, <1>4, RowsWrittenBy

\* Between any two writes of any call, and after a crash at any of them, the
\* documents, the rows and the call fit one another as WorkInv says.
THEOREM WorkInvariantHolds == Spec => []WorkInv
  BY RunnerInvariantHolds, WorkInit, WorkNext, PTL DEF Spec

\* Completion is honest: a Core mission is complete only on proof, and a row is
\* closed only on a plan that has succeeded.
THEOREM CompletesHonestly == Spec => []CompletionIsHonest
<1>1. RunnerInv /\ WorkInv => CompletionIsHonest
  BY DEF WorkInv, SessionFits, Proven, CompletionIsHonest, CompletionIsProven, ClosedIsFinished
<1> QED
  BY <1>1, RunnerInvariantHolds, WorkInvariantHolds, PTL

\* No step starts a stage before its dependencies, undoes a node, passes a gate
\* unasked, or undoes a stop.
THEOREM StepsStayLegal == Spec => StepsAreLegal
<1>1. RunnerInv /\ WorkInv /\ [Next]_vars => [DependenciesMet]_vars
  BY InvokeIsLegal, SpentBy DEF DependenciesMet
<1>2. RunnerInv /\ WorkInv /\ [Next]_vars => [NodesProgress]_vars
  BY NodesAreLegal
<1>3. RunnerInv /\ WorkInv /\ [Next]_vars => [StopStays]_vars
  BY WorkNext
<1>4. Spec => [][DependenciesMet]_vars
  BY <1>1, RunnerInvariantHolds, WorkInvariantHolds, PTL DEF Spec
<1>5. Spec => [][NodesProgress]_vars
  BY <1>2, RunnerInvariantHolds, WorkInvariantHolds, PTL DEF Spec
<1>6. Spec => [][StopStays]_vars
  BY <1>3, RunnerInvariantHolds, WorkInvariantHolds, PTL DEF Spec
<1>7. Spec => DependenciesFirst
  BY <1>4 DEF DependenciesFirst, DependenciesMet
<1>8. Spec => NodeProgress
  BY <1>5 DEF NodeProgress, NodesProgress
<1>9. Spec => StopIsFinal
  BY <1>6 DEF StopIsFinal, StopStays
<1> QED
  BY <1>7, <1>8, <1>9 DEF StepsAreLegal

\* The executor is called only by the call that holds the mission's one open
\* handoff, on a session that is neither stopped nor failed.
THEOREM DispatchesAreUnambiguous == Spec => DispatchIsUnambiguous
<1>1. RunnerInv /\ WorkInv /\ [Next]_vars => [Unambiguous]_vars
  BY InvokeIsLegal, SpentBy DEF Unambiguous
<1>2. Spec => [][Unambiguous]_vars
  BY <1>1, RunnerInvariantHolds, WorkInvariantHolds, PTL DEF Spec
<1> QED
  BY <1>2 DEF DispatchIsUnambiguous, Unambiguous

-----------------------------------------------------------------------------
(* The refinement of MissionLedger, for budgeted missions.                   *)

\* The greatest member of a set of numbers.
LEMMA MaxIs ==
    ASSUME NEW S, S \subseteq Nat, NEW m \in S, \A n \in S : n <= m
    PROVE  Max(S) = m
<1>1. \A n \in S : m >= n
  OBVIOUS
<1>2. \E x \in S : \A y \in S : x >= y
  BY <1>1
<1>3. Max(S) \in S /\ \A y \in S : Max(S) >= y
  BY <1>2, Zenon DEF Max
<1>4. Max(S) \in Nat /\ m \in Nat /\ Max(S) >= m /\ m >= Max(S)
  BY <1>1, <1>3
<1> QED
  BY <1>4

\* What a step does to the documents, besides charging one or adding one.
Rewrites ==
    \/ blob' = blob
    \/ /\ Started
       /\ \E b \in Blobs :
             /\ Save(b)
             /\ b.kind = run.mem.kind /\ b.used = run.mem.used /\ b.reserved = run.mem.reserved
             /\ b.stop = Nil => run.mem.stop = Nil

\* Every step is a handoff, a save of the task state, or rewrites a session at most.
LEMMA SavedBy ==
    ASSUME RunnerInv, [Next]_vars
    PROVE  AdvanceHandoff \/ SaveTaskState \/ Rewrites
<1> DEFINE R(b) == /\ b \in Blobs /\ b.kind = run.mem.kind /\ b.used = run.mem.used
                   /\ b.reserved = run.mem.reserved /\ (b.stop = Nil => run.mem.stop = Nil)
<1>0. \A b : Started /\ R(b) /\ Save(b) => Rewrites
  BY DEF Rewrites
<1>m. Started => run.mem \in Blobs /\ R(run.mem)
  BY DEF RunnerInv, RunShape
<1>c. \A b \in Blobs : Core(b) = Core(run.mem) => R(b)
  BY DEF Core
<1>u. \A b \in Blobs : R(b) => /\ R(Touch(b)) /\ R(Consume(b))
                               /\ \A v \in TaskStatuses : R(Mark(b, v))
  BY Updates DEF Core
<1>t. {"failed", "blocked", "complete"} \subseteq TaskStatuses
  BY DEF TaskStatuses
<1>h. At("advance", "enter") \/ At("decide", "enter") \/ At("review", "enter")
         \/ At("stop", "enter") \/ At("replan", "enter") \/ At("approve", "enter")
         \/ run.pc \in {"link", "save_checkpoint", "executing", "settle"} => Started
  BY DEF At, Started, RunnerInv, RunShape, Creating, Checkpointing
<1>k. run.op \in {"stop", "replan"} /\ run.pc # "idle" => run.dec \in Decisions
  BY DEF RunnerInv, RunShape
<1>1. CASE LinkReplacement
  <2>1. run.mem \in Blobs /\ Started /\ run.kidSid \in Sessions
    BY <1>1, <1>m, <1>h DEF LinkReplacement, RunnerInv, RunShape, Creating
  <2> DEFINE c == [run.mem EXCEPT !.child = run.kidSid]
  <2>2. c \in Blobs
    BY <2>1, FieldWrites
  <2>3. Core(c) = Core(run.mem)
    BY <2>1 DEF Core, Blobs
  <2> QED
    BY <1>0, <1>1, <1>c, <1>u, <2>1, <2>2, <2>3 DEF LinkReplacement
<1>2. CASE DecideCore
  <2> DEFINE d == Decide(run.sid, run.mem, run.nodes)
             c == [run.mem EXCEPT !.decision = d]
             e == [c EXCEPT !.consumed = FALSE]
  <2>1. /\ Started /\ run.mem \in Blobs /\ run.sid \in Sessions
        /\ run.nodes \in [Stage -> NodeStatuses]
    BY <1>2, <1>m, <1>h DEF DecideCore, RunnerInv, RunShape
  <2>2. d \in Decisions
    BY <2>1, DecideType
  <2>3. c \in Blobs
    BY <2>1, <2>2, FieldWrites
  <2>4. e \in Blobs
    BY <2>3, FieldWrites
  <2>5. Core(c) = Core(run.mem)
    BY <2>1 DEF Core, Blobs
  <2>6. Core(e) = Core(c)
    BY <2>3 DEF Core, Blobs
  <2>7. [run.mem EXCEPT !.decision = d, !.consumed = FALSE] = e
    BY <2>1 DEF Blobs
  <2>8. Save(e)
    BY <1>2, <2>7 DEF DecideCore
  <2> QED
    BY <1>0, <1>c, <2>1, <2>4, <2>5, <2>6, <2>8
<1>3. CASE ReviewCore
  BY <1>0, <1>3, <1>m, <1>u, <1>t, <1>h DEF ReviewCore
<1>4. CASE StopCore
  <2>1. Started /\ run.mem \in Blobs /\ run.dec \in Decisions
    BY <1>4, <1>m, <1>h, <1>k DEF StopCore, At
  <2>2. R(StoppedBlob(run.mem, run.dec))
    BY <2>1, Stops, NilAssumption DEF Core
  <2> QED
    BY <1>0, <1>4, <2>1, <2>2 DEF StopCore
<1>5. CASE \E w \in Workflows : ReplanCore(w)
  <2>1. Started /\ run.mem \in Blobs /\ run.dec \in Decisions
    BY <1>5, <1>m, <1>h, <1>k DEF ReplanCore, At
  <2>2. R(ReplannedBlob(run.mem, run.dec))
    BY <2>1, Stops, NilAssumption DEF Core
  <2> QED
    BY <1>0, <1>5, <2>1, <2>2 DEF ReplanCore
<1>6. CASE AdvanceSettle
  <2>1. Started /\ run.mem \in Blobs
    BY <1>6, <1>m, <1>h DEF AdvanceSettle
  <2> DEFINE v == IF run.dec.outcome \in {"complete", "failed"} THEN run.dec.outcome ELSE "blocked"
  <2>2. v \in TaskStatuses
    BY <1>t
  <2>3. R(Touch(run.mem)) /\ R(Mark(run.mem, v))
    BY <2>1, <2>2, <1>m, <1>u
  <2>4. R(Consume(Touch(run.mem))) /\ R(Consume(Mark(run.mem, v)))
    BY <2>3, <1>u
  <2>5. Save(Consume(Touch(run.mem))) \/ Save(Consume(Mark(run.mem, v)))
    BY <1>6 DEF AdvanceSettle
  <2> QED
    BY <1>0, <2>1, <2>4, <2>5
<1>7. CASE ApproveCoreStage
  BY <1>0, <1>7, <1>m, <1>u, <1>h DEF ApproveCoreStage
<1>8. CASE CheckpointSave
  BY <1>0, <1>8, <1>m, <1>h DEF CheckpointSave
<1>9. CASE \E r \in Results : RecordResult(r)
  <2>1. PICK r \in Results : RecordResult(r)
    BY <1>9
  <2>2. Started /\ run.mem \in Blobs /\ run.stage \in Stage
    BY <2>1, <1>m, <1>h DEF RecordResult, RunnerInv, RunShape
  <2> DEFINE a == [run.mem.active EXCEPT ![run.stage] = ActiveAfter(r, @)]
             c == [run.mem EXCEPT !.active = a]
  <2>3. run.mem.active \in [Stage -> Verdicts]
    BY <2>2 DEF Blobs
  <2>4. ActiveAfter(r, run.mem.active[run.stage]) \in Verdicts
    BY <2>2, <2>3 DEF ActiveAfter, Verdicts
  <2>5. a \in [Stage -> Verdicts]
    BY <2>3, <2>4
  <2>6. c \in Blobs
    BY <2>2, <2>5, FieldWrites
  <2>7. Core(c) = Core(run.mem)
    BY <2>2 DEF Core, Blobs
  <2>8. [run.mem EXCEPT !.active[run.stage] = ActiveAfter(r, @)] = c
    BY <2>2 DEF Blobs
  <2>9. Save(Touch(c))
    BY <2>1, <2>8 DEF RecordResult
  <2> QED
    BY <1>0, <1>c, <1>u, <2>2, <2>6, <2>7, <2>9
<1>10. CASE Settle
  <2>1. Started /\ run.mem \in Blobs /\ run.mark \in TaskStatuses
    BY <1>10, <1>m, <1>h, SMTT(40) DEF Settle, RunnerInv, RunShape
  <2> QED
    BY <1>0, <1>10, <1>m, <1>u, <2>1 DEF Settle
<1>11. CASE \/ \E s \in Sessions : CreateSession(s)
            \/ SavePlan \/ AdvanceAwait \/ RecoverInterrupted \/ ApproveHumanStage
            \/ (\E st \in Stage : LoopHuman(st)) \/ (\E st \in Stage : LoopAgent(st))
            \/ LoopEnd \/ CheckpointRow \/ InvokeExecutor \/ CloseSession
            \/ Request \/ Crash \/ UNCHANGED vars
  BY <1>11 DEF Rewrites, CreateSession, SavePlan, AdvanceAwait, RecoverInterrupted,
     ApproveHumanStage, LoopHuman, LoopAgent, LoopEnd, CheckpointRow, InvokeExecutor, CloseSession,
     Request, Start, CallDecide, IssuedCore, CallCore, CallRun, Crash, store, vars
<1> QED
  BY <1>1, <1>2, <1>3, <1>4, <1>5, <1>6, <1>7, <1>8, <1>9, <1>10, <1>11 DEF Next, Step

\* What every session keeps in such a step.
LedgerKept(s) ==
    /\ blob'[s] = Nil <=> blob[s] = Nil
    /\ blob[s] # Nil =>
          /\ blob'[s].kind = blob[s].kind
          /\ blob'[s].used = blob[s].used /\ blob'[s].reserved = blob[s].reserved
    /\ Live(s)' => Live(s)

\* A step that at most rewrites a session keeps its ledger.
LEMMA RewritesKeep ==
    ASSUME RunnerInv, Rewrites, NEW s \in Sessions
    PROVE  LedgerKept(s)
<1>1. CASE blob' = blob
  BY <1>1 DEF LedgerKept, Live
<1>2. CASE blob' # blob
  <2>1. PICK b \in Blobs :
           /\ Save(b)
           /\ b.kind = run.mem.kind /\ b.used = run.mem.used /\ b.reserved = run.mem.reserved
           /\ b.stop = Nil => run.mem.stop = Nil
    BY <1>2 DEF Rewrites
  <2>2. /\ Started /\ run.sid \in Sessions /\ blob[run.sid] # Nil /\ b # Nil
        /\ run.mem.kind = blob[run.sid].kind /\ run.mem.stop = blob[run.sid].stop
        /\ run.mem.used = blob[run.sid].used /\ run.mem.reserved = blob[run.sid].reserved
    BY <1>2, NilAssumption DEF Rewrites, RunnerInv, RunShape, InSync
  <2>3. blob \in [Sessions -> Blobs \cup {Nil}] /\ blob' = [blob EXCEPT ![run.sid] = b]
    BY <2>1 DEF RunnerInv, TypeOK, Save
  <2>4. blob'[s] = IF s = run.sid THEN b ELSE blob[s]
    BY <2>2, <2>3
  <2> QED
    BY <2>1, <2>2, <2>4 DEF LedgerKept, Live
<1> QED
  BY <1>1, <1>2

\* Which steps lead into a creation, and what a creation carries on.
LEMMA CreatingBy ==
    ASSUME RunnerInv, [Next]_vars, run'.pc \in Creating
    PROVE  \/ \E k \in Kinds, w \in Workflows : Start(k, w)
           \/ \E w \in Workflows : ReplanCore(w)
           \/ /\ run.pc \in Creating /\ run'.kid = run.kid /\ run'.op = run.op
              /\ run'.mem = run.mem
              /\ run'.pc # "link" => run.pc # "link"
<1>1. run \in Runs /\ IdleRun.pc = "idle"
  BY DEF RunnerInv, TypeOK, IdleRun
<1>i. run' # IdleRun
  BY <1>1 DEF Creating
<1>2. CASE \/ \E s \in Sessions : CreateSession(s)
           \/ SavePlan \/ SaveTaskState \/ UNCHANGED vars
           \/ \E s \in Sessions : IssuedCore(s)
  BY <1>1, <1>2, <1>i DEF CreateSession, SavePlan, SaveTaskState, IssuedCore, vars, Creating, Runs
<1>3. CASE LinkReplacement \/ DecideCore \/ ReviewCore \/ StopCore \/ Crash
  BY <1>3, <1>i DEF LinkReplacement, DecideCore, ReviewCore, StopCore, Crash
<1>4. CASE \/ AdvanceSettle \/ AdvanceAwait \/ AdvanceHandoff
           \/ RecoverInterrupted \/ ApproveCoreStage \/ ApproveHumanStage
  BY <1>1, <1>4, <1>i DEF AdvanceSettle, AdvanceAwait, AdvanceHandoff, RecoverInterrupted,
     ApproveCoreStage, ApproveHumanStage, Creating, Runs
<1>5. CASE \/ (\E st \in Stage : LoopHuman(st)) \/ (\E st \in Stage : LoopAgent(st))
           \/ CheckpointRow \/ InvokeExecutor
  BY <1>1, <1>5, ZenonT(60) DEF LoopHuman, LoopAgent, CheckpointRow, InvokeExecutor, Creating, Runs
<1>8. CASE LoopEnd \/ CloseSession \/ Settle
  BY <1>1, <1>8, <1>i DEF LoopEnd, CloseSession, Settle, Creating, Runs
<1>9. CASE \E r \in Results : RecordResult(r)
  <2>1. run'.pc = "checkpoint"
    BY <1>1, <1>9 DEF RecordResult, Runs
  <2> QED
    BY <2>1 DEF Creating
<1>6. CASE CheckpointSave
  <2>1. run'.pc = run.next
    BY <1>1, <1>6 DEF CheckpointSave, Runs
  <2>2. run.next \in {"approve", "settle", "invoke", "loop"}
    BY <1>6 DEF CheckpointSave, RunnerInv, RunShape, Checkpointing
  <2> QED
    BY <2>1, <2>2 DEF Creating
<1>7. CASE \/ \E s \in Sessions : CallDecide(s)
           \/ \E s \in Sessions, op \in {"advance", "approve", "review", "stop", "replan"} :
                 CallCore(op, s)
           \/ \E s \in Sessions, st \in Stage \cup {Nil} : CallRun(s, st)
  <2>1. \/ \E op, s, d, st : Enter(op, s, d, st)
        \/ \E s \in Sessions, st \in Stage \cup {Nil} : CallRun(s, st)
    BY <1>7 DEF CallDecide, CallCore
  <2>2. run'.pc \in {"enter", "recover"}
    BY <2>1 DEF Enter, CallRun, IdleRun
  <2> QED
    BY <2>2 DEF Creating
<1> QED
  BY <1>2, <1>3, <1>4, <1>5, <1>6, <1>7, <1>8, <1>9 DEF Next, Step, Request

\* A reservation is made by a handoff, and is otherwise that of the step before.
LEMMA ReservedBy ==
    ASSUME RunnerInv, [Next]_vars, Reserved'
    PROVE  AdvanceHandoff \/ (Reserved /\ run'.sid = run.sid /\ run'.stage = run.stage)
<1>1. run \in Runs /\ IdleRun.op = Nil /\ Nil # "advance"
  BY NilAssumption DEF RunnerInv, TypeOK, IdleRun, Ops
<1>2. run' # IdleRun
  BY <1>1 DEF Reserved
<1>3. CASE UNCHANGED run
  BY <1>3 DEF Reserved, AboutToInvoke, Checkpointing
<1>4. CASE \/ SavePlan \/ SaveTaskState \/ \E s \in Sessions : CreateSession(s)
           \/ \E w \in Workflows : ReplanCore(w)
           \/ \E k \in Kinds, w \in Workflows : Start(k, w)
  BY <1>1, <1>2, <1>4 DEF SavePlan, SaveTaskState, CreateSession, ReplanCore, Start, Reserved,
     AboutToInvoke, Checkpointing, Runs, IdleRun
<1>5. CASE \/ LinkReplacement \/ DecideCore \/ ReviewCore \/ StopCore \/ Crash
  BY <1>2, <1>5 DEF LinkReplacement, DecideCore, ReviewCore, StopCore, Crash
<1>6. CASE AdvanceSettle \/ AdvanceAwait \/ ApproveCoreStage \/ ApproveHumanStage
  BY <1>1, <1>2, <1>6, ZenonT(60) DEF AdvanceSettle, AdvanceAwait, ApproveCoreStage, ApproveHumanStage, At,
     Reserved, AboutToInvoke, Checkpointing, Runs
<1>7. CASE RecoverInterrupted
  BY <1>1, <1>7 DEF RecoverInterrupted, Reserved, AboutToInvoke, Checkpointing, Runs
<1>8. ASSUME NEW st \in Stage, LoopHuman(st)
      PROVE  FALSE
  BY <1>1, <1>8 DEF LoopHuman, Reserved, AboutToInvoke, Checkpointing, Runs
<1>9. ASSUME NEW st \in Stage, LoopAgent(st)
      PROVE  Reserved /\ run'.sid = run.sid /\ run'.stage = run.stage
  <2>1. /\ run.op = "advance" /\ run.pc = "loop" /\ run'.sid = run.sid /\ run'.stage = st
        /\ Picks(st) /\ st = run.dec.stage
    BY <1>1, <1>9 DEF LoopAgent, Reserved, Runs, Picks
  <2>2. run.mem.pending # Nil
    BY <2>1 DEF RunnerInv, OneStagePerCall, AllSucceeded, Picks, ReadyNodes
  <2> QED
    BY <2>1, <2>2 DEF Reserved, RunnerInv, Handoffs
<1>10. CASE LoopEnd
  BY <1>1, <1>2, <1>10 DEF LoopEnd, Reserved, AboutToInvoke, Checkpointing, Runs
<1>11. CASE CheckpointRow
  BY <1>1, <1>11 DEF CheckpointRow, Reserved, AboutToInvoke, Checkpointing, Runs
<1>12. CASE CheckpointSave
  <2>1. /\ run'.pc = run.next /\ run'.op = run.op /\ run'.mem = run.mem /\ run'.next = run.next
        /\ run'.sid = run.sid /\ run'.stage = run.stage /\ run.pc = "save_checkpoint"
    BY <1>1, <1>12 DEF CheckpointSave, Runs
  <2>2. run.next \in {"approve", "settle", "invoke", "loop"}
    BY <2>1 DEF RunnerInv, RunShape, Checkpointing
  <2>3. run.next = "loop" /\ run.op = "advance" => run.mem.pending = Nil
    BY <2>1 DEF RunnerInv, OneStagePerCall, Checkpointing
  <2>4. run.op = "advance" /\ run.next = "invoke"
    BY <2>1, <2>2, <2>3 DEF Reserved, AboutToInvoke, Checkpointing
  <2> QED
    BY <2>1, <2>4 DEF Reserved, AboutToInvoke, Checkpointing
<1>13. CASE InvokeExecutor \/ CloseSession
  BY <1>1, <1>2, <1>13 DEF InvokeExecutor, CloseSession, Reserved, AboutToInvoke, Checkpointing, Runs
<1>14. ASSUME NEW r \in Results, RecordResult(r)
       PROVE  FALSE
  <2>1. run'.pc = "checkpoint" /\ run'.next \in {"loop", "settle"}
    BY <1>1, <1>14 DEF RecordResult, Runs
  <2> QED
    BY <2>1 DEF Reserved, AboutToInvoke, Checkpointing
<1>15. CASE Settle
  BY <1>1, <1>2, <1>15 DEF Settle, Reserved, Runs
<1>16. CASE \/ \E s \in Sessions : CallDecide(s)
            \/ \E s \in Sessions, op \in {"advance", "approve", "review", "stop", "replan"} :
                  CallCore(op, s)
  <2>1. \E op, s, d, st : Enter(op, s, d, st)
    BY <1>16 DEF CallDecide, CallCore
  <2>2. run'.pc = "enter"
    BY <2>1 DEF Enter, IdleRun
  <2> QED
    BY <2>2 DEF Reserved, AboutToInvoke, Checkpointing
<1>17. CASE \E s \in Sessions, st \in Stage \cup {Nil} : CallRun(s, st)
  <2>1. run'.op = "run"
    BY <1>17 DEF CallRun, IdleRun
  <2> QED
    BY <2>1 DEF Reserved
<1>18. CASE AdvanceHandoff
  BY <1>18, SMTT(40)
<1> QED
  BY <1>3, <1>4, <1>5, <1>6, <1>7, <1>8, <1>9, <1>10, <1>11, <1>12, <1>13, <1>14, <1>15, <1>16,
     <1>17, <1>18 DEF Next, Step, Request, IssuedCore, vars

\* Only the executor's invocation counts as a call.
LEMMA CallsBy ==
    ASSUME [Next]_vars
    PROVE  calls' = calls \/ InvokeExecutor
<1>1. CASE Step
  BY <1>1 DEF Step, CreateSession, SavePlan, SaveTaskState, LinkReplacement, DecideCore, ReviewCore,
     StopCore, ReplanCore, AdvanceSettle, AdvanceAwait, AdvanceHandoff, RecoverInterrupted,
     ApproveCoreStage, ApproveHumanStage, LoopHuman, LoopAgent, LoopEnd, CheckpointRow,
     CheckpointSave, RecordResult, Settle, CloseSession, history
<1>2. CASE Request
  BY <1>2 DEF Request, Start, CallDecide, IssuedCore, CallCore, CallRun, history
<1>3. CASE Crash \/ UNCHANGED vars
  BY <1>3, SMTT(40) DEF Crash, vars, history
<1> QED
  BY <1>1, <1>2, <1>3 DEF Next

\* A handoff charges the live session, which covers the whole mission, and
\* grants a stage that was never executed.
LEMMA HandoffEffect ==
    ASSUME RunnerInv, WorkInv, ChargeInv, AdvanceHandoff,
           NEW b, b = blob[run.sid], NEW n, n = Steps[run.mem.wf][run.stage]
    PROVE  /\ run.sid \in Sessions /\ run.stage \in Stage /\ n \in 1..32
           /\ b \in Blobs /\ b # Nil /\ b.stop = Nil /\ b.kind = "budgeted" /\ Tops(b)
           /\ b.used < MaxDispatches /\ b.reserved + n <= MaxReserved
           /\ calls[run.sid][run.stage] = 0
           /\ blob'[run.sid] # Nil /\ blob'[run.sid].kind = "budgeted"
           /\ blob'[run.sid].used = b.used + 1 /\ blob'[run.sid].reserved = b.reserved + n
           /\ \A s \in Sessions \ {run.sid} : blob'[s] = blob[s]
           /\ run.op = "advance" /\ run.pc = "enter" /\ run'.pc = "recover" /\ run'.op = "advance"
           /\ run'.sid = run.sid /\ run'.stage = run.stage /\ calls' = calls
<1> DEFINE h == Handoff(run.mem, run.stage)
<1>1. /\ Started /\ run.op = "advance" /\ run.pc = "enter" /\ run.dec.outcome = "delegate"
      /\ Save(h) /\ run' = [run EXCEPT !.pc = "recover", !.mem = h] /\ calls' = calls
  BY DEF AdvanceHandoff, At, Started, history
<1>2. /\ run.sid \in Sessions /\ run \in Runs /\ run.mem \in Blobs /\ b \in Blobs /\ b # Nil
      /\ run.mem.kind = b.kind /\ run.mem.wf \in Workflows /\ run.nodes = rows[run.sid]
      /\ run.mem.stop = b.stop /\ run.mem.used = b.used
  BY <1>1, Mine
<1>3. run.mem.reserved = b.reserved
  BY <1>1 DEF RunnerInv, InSync
<1>4. b.kind = "budgeted"
  BY <1>2 DEF ChargeInv
<1>5. /\ run.stage \in Stage /\ run.stage \in StagesOf[run.mem.wf] /\ run.stage = run.dec.stage
      /\ run.nodes[run.stage] \in {"pending", "needs_review"} /\ run.mem.stop = Nil
  BY <1>1, AtEntry
<1>6. BudgetCovers(run.mem, n)
  BY <1>1 DEF RunnerInv, Handoffs
<1>7. n \in 1..32
  BY <1>2, <1>5, WorkflowAssumption
<1>8. run.nodes[run.stage] = "pending"
  <2>1. run.dec = Decide(run.sid, run.mem, run.nodes)
    BY <1>1, Mine DEF CallFits, EntryFits
  <2>2. Outcome(run.mem, run.nodes) = "delegate" /\ run.stage = NextStage(run.mem.wf, run.nodes)
    BY <1>1, <1>5, <2>1 DEF Decide
  <2>3. ~ Ambiguous(run.mem, run.nodes) /\ run.stage \notin Human[run.mem.wf]
    BY <2>2 DEF Outcome
  <2> QED
    BY <1>5, <2>3 DEF Ambiguous, Agents
<1>9. calls[run.sid][run.stage] = 0
  BY <1>2, <1>5, <1>8 DEF RunnerInv, RowsFence
<1>10. Core(h) = <<b.kind, run.mem.wf, b.used + 1, b.reserved + n, Nil, run.stage>> /\ h \in Blobs
  BY <1>2, <1>3, <1>4, <1>5, HandoffCharges
<1>11. h # Nil /\ h.kind = "budgeted" /\ h.used = b.used + 1 /\ h.reserved = b.reserved + n
  BY <1>4, <1>10, NilAssumption DEF Core
<1> HIDE DEF h
<1>12. blob' = [blob EXCEPT ![run.sid] = h] /\ blob \in [Sessions -> Blobs \cup {Nil}]
  BY <1>1 DEF Save, RunnerInv, TypeOK
<1>13. blob'[run.sid] = h /\ \A s \in Sessions \ {run.sid} : blob'[s] = blob[s]
  BY <1>2, <1>12
<1>14. /\ run'.pc = "recover" /\ run'.op = "advance"
       /\ run'.sid = run.sid /\ run'.stage = run.stage
  BY <1>1, <1>2 DEF Runs
<1>15. Tops(b)
  BY <1>2, <1>5 DEF ChargeInv, Live
<1>16. b.used < MaxDispatches /\ b.reserved + n <= MaxReserved
  BY <1>2, <1>3, <1>4, <1>6 DEF BudgetCovers
<1> QED
  BY <1>1, <1>2, <1>4, <1>5, <1>7, <1>9, <1>11, <1>13, <1>14, <1>15, <1>16

\* The first save of a session adds its document, which covers the mission.
LEMMA SaveEffect ==
    ASSUME RunnerInv, ChargeInv, SaveTaskState, NEW k, k = run.kid
    PROVE  /\ run.kidSid \in Sessions /\ blob[run.kidSid] = Nil
           /\ k \in Blobs /\ k # Nil /\ k.kind = "budgeted" /\ Tops(k)
           /\ blob'[run.kidSid] = k /\ \A s \in Sessions \ {run.kidSid} : blob'[s] = blob[s]
           /\ \A s \in Sessions : ~ Live(s)
           /\ \/ \E s \in Sessions : /\ blob[s] # Nil
                                     /\ k.used = blob[s].used /\ k.reserved = blob[s].reserved
              \/ k.used = 0 /\ k.reserved = 0
<1>1. /\ run.pc = "save_state" /\ blob' = [blob EXCEPT ![run.kidSid] = run.kid]
      /\ run.op \in {"start", "replan"} /\ run.kid \in Blobs /\ run.kidSid \in Sessions
      /\ blob[run.kidSid] = Nil /\ blob \in [Sessions -> Blobs \cup {Nil}]
  BY DEF SaveTaskState, RunnerInv, RunShape, TypeOK, OneLive, Creating
<1>2. /\ run.kid.kind = "budgeted" /\ Tops(run.kid)
      /\ run.op = "start" => run.kid.used = 0 /\ run.kid.reserved = 0
      /\ run.op = "replan" => run.kid.used = run.mem.used /\ run.kid.reserved = run.mem.reserved
  BY <1>1 DEF ChargeInv, Creating
<1>3. \A s \in Sessions : ~ Live(s)
  BY <1>1 DEF RunnerInv, OneLive, Live
<1>4. run.op = "replan" => /\ run.sid \in Sessions /\ blob[run.sid] # Nil
                           /\ run.mem.used = blob[run.sid].used
                           /\ run.mem.reserved = blob[run.sid].reserved
  BY <1>1 DEF RunnerInv, RunShape, InSync, Started
<1> QED
  BY <1>1, <1>2, <1>3, <1>4, NilAssumption

\* ChargeInv holds before any call.
LEMMA ChargeInit == Init => ChargeInv
  BY DEF Init, ChargeInv, Live, IdleRun, Creating

\* ChargeInv is kept by every step.
LEMMA ChargeNext ==
    ASSUME Kinds \subseteq {"budgeted"}, RunnerInv, WorkInv, ChargeInv, [Next]_vars
    PROVE  ChargeInv'
<1>1. CASE AdvanceHandoff
  <2> DEFINE n == Steps[run.mem.wf][run.stage]
             b == blob[run.sid]
  <2>1. /\ run.sid \in Sessions /\ n \in 1..32
        /\ b \in Blobs /\ b # Nil /\ b.stop = Nil /\ Tops(b)
        /\ blob'[run.sid] # Nil /\ blob'[run.sid].kind = "budgeted"
        /\ blob'[run.sid].used = b.used + 1 /\ blob'[run.sid].reserved = b.reserved + n
        /\ \A s \in Sessions \ {run.sid} : blob'[s] = blob[s]
        /\ run'.pc = "recover"
    BY <1>1, HandoffEffect
  <2>2. /\ blob \in [Sessions -> Blobs \cup {Nil}]
        /\ \A s, t \in Sessions : Live(s) /\ Live(t) => s = t
    BY DEF RunnerInv, TypeOK, OneLive
  <2>3. b.used \in Nat /\ b.reserved \in Nat
        /\ \A s \in Sessions : blob[s] # Nil => blob[s].used \in Nat /\ blob[s].reserved \in Nat
    BY <2>1, <2>2 DEF Blobs
  <2> HIDE DEF n
  <2>4. \A s \in Sessions : Live(s)' => s = run.sid
    BY <2>1, <2>2 DEF Live
  <2>5. ASSUME NEW s \in Sessions, Live(s)'
        PROVE  Tops(blob[s])'
    <3>1. ASSUME NEW t \in Sessions, blob'[t] # Nil
          PROVE  blob'[t].used <= blob'[s].used /\ blob'[t].reserved <= blob'[s].reserved
      BY <2>1, <2>3, <2>4, <2>5, <3>1 DEF Tops
    <3> QED
      BY <3>1 DEF Tops
  <2>6. \A s \in Sessions : blob'[s] # Nil => blob'[s].kind = "budgeted"
    BY <2>1 DEF ChargeInv
  <2> QED
    BY <2>1, <2>5, <2>6 DEF ChargeInv, Creating
<1>2. CASE SaveTaskState
  <2> DEFINE k == run.kid
  <2>1. /\ run.kidSid \in Sessions
        /\ k \in Blobs /\ k.kind = "budgeted" /\ Tops(k)
        /\ blob'[run.kidSid] = k /\ \A s \in Sessions \ {run.kidSid} : blob'[s] = blob[s]
        /\ \A s \in Sessions : ~ Live(s)
    BY <1>2, SaveEffect
  <2>2. k.used \in Nat /\ k.reserved \in Nat
    BY <2>1 DEF Blobs
  <2>3. \A s \in Sessions : Live(s)' => s = run.kidSid
    BY <2>1 DEF Live
  <2>4. ASSUME NEW s \in Sessions, Live(s)'
        PROVE  Tops(blob[s])'
    <3>1. ASSUME NEW t \in Sessions, blob'[t] # Nil
          PROVE  blob'[t].used <= blob'[s].used /\ blob'[t].reserved <= blob'[s].reserved
      BY <2>1, <2>2, <2>3, <2>4, <3>1 DEF Tops
    <3> QED
      BY <3>1 DEF Tops
  <2>5. run'.pc \in Creating => run'.pc = "link" /\ run'.kid = run.kid
    BY <1>2 DEF SaveTaskState, RunnerInv, TypeOK, Runs, IdleRun, Creating
  <2>6. \A s \in Sessions : blob'[s] # Nil => blob'[s].kind = "budgeted"
    BY <2>1 DEF ChargeInv
  <2> QED
    BY <2>1, <2>4, <2>5, <2>6 DEF ChargeInv
<1>3. CASE Rewrites
  <2>1. \A s \in Sessions : LedgerKept(s)
    BY <1>3, RewritesKeep
  <2>2. \A s \in Sessions : Live(s)' => Live(s)
    BY <2>1 DEF LedgerKept
  <2>3. \A s \in Sessions : blob'[s] # Nil => blob'[s].kind = "budgeted"
    BY <2>1 DEF LedgerKept, ChargeInv
  <2>4. \A s \in Sessions : Live(s)' => Tops(blob[s])'
    BY <2>1, <2>2 DEF LedgerKept, ChargeInv, Tops, Live
  <2>5. ASSUME run'.pc \in Creating
        PROVE  /\ run'.kid.kind = "budgeted"
               /\ run'.pc # "link" =>
                  /\ Tops(run.kid)'
                  /\ run'.op = "start" => run'.kid.used = 0 /\ run'.kid.reserved = 0
                  /\ run'.op = "replan" => /\ run'.kid.used = run'.mem.used
                                           /\ run'.kid.reserved = run'.mem.reserved
    <3>1. CASE \E k \in Kinds, w \in Workflows : Start(k, w)
      <4>1. PICK k \in Kinds, w \in Workflows : Start(k, w)
        BY <3>1
      <4>2. /\ run' = [IdleRun EXCEPT !.op = "start", !.pc = "create", !.kid = NewBlob(k, w)]
            /\ blob' = blob /\ \A s \in Sessions : blob[s] = Nil
        BY <4>1 DEF Start, store
      <4>3. run'.op = "start" /\ run'.kid = NewBlob(k, w) /\ k = "budgeted"
        BY <4>2 DEF IdleRun
      <4> QED
        BY <4>2, <4>3, NewSession DEF Tops
    <3>2. CASE \E w \in Workflows : ReplanCore(w)
      <4>1. PICK w \in Workflows : ReplanCore(w)
        BY <3>2
      <4> DEFINE b == ReplannedBlob(run.mem, run.dec)
                 kid == ReplacementBlob(run.mem, run.sid, run.dec, w)
      <4>2. /\ Started /\ run.op = "replan" /\ run \in Runs /\ run.dec \in Decisions
            /\ run.mem \in Blobs /\ run.sid \in Sessions /\ run.mem.stop = Nil
            /\ run.mem.kind = "budgeted" /\ Tops(run.mem)
        <5>1. /\ Started /\ run.op = "replan" /\ run.pc = "enter" /\ run \in Runs
              /\ run.dec \in Decisions /\ run.mem \in Blobs /\ run.sid \in Sessions
          BY <4>1 DEF ReplanCore, At, Started, RunnerInv, TypeOK, RunShape
        <5>2. run.mem.stop = Nil
          BY <5>1 DEF RunnerInv, OneLive
        <5>3. /\ blob[run.sid] # Nil /\ run.mem.kind = blob[run.sid].kind
              /\ run.mem.stop = blob[run.sid].stop /\ run.mem.used = blob[run.sid].used
              /\ run.mem.reserved = blob[run.sid].reserved
          BY <5>1 DEF RunnerInv, InSync
        <5>4. Tops(blob[run.sid]) /\ blob[run.sid].kind = "budgeted"
          BY <5>1, <5>2, <5>3 DEF ChargeInv, Live
        <5> QED
          BY <5>1, <5>2, <5>3, <5>4 DEF Tops
      <4>3. /\ kid.kind = "budgeted" /\ kid.used = run.mem.used /\ kid.reserved = run.mem.reserved
        BY <4>2, Replacement
      <4>4. b.used = run.mem.used /\ b.reserved = run.mem.reserved
        BY <4>2, Stops DEF Core
      <4>5. run' = [run EXCEPT !.pc = "create", !.mem = b, !.kid = kid]
        BY <4>1 DEF ReplanCore
      <4> HIDE DEF b, kid
      <4>6. run'.op = "replan" /\ run'.mem = b /\ run'.kid = kid
        BY <4>2, <4>5 DEF Runs
      <4>7. Tops(run.kid)'
        BY <2>1, <4>2, <4>3, <4>6 DEF Tops, LedgerKept
      <4> QED
        BY <4>3, <4>4, <4>6, <4>7
    <3>3. CASE /\ run.pc \in Creating /\ run'.kid = run.kid /\ run'.op = run.op
               /\ run'.mem = run.mem
               /\ run'.pc # "link" => run.pc # "link"
      <4>1. Tops(run.kid) => Tops(run.kid)'
        BY <2>1, <3>3 DEF Tops, LedgerKept
      <4> QED
        BY <3>3, <4>1 DEF ChargeInv
    <3> QED
      BY <2>5, <3>1, <3>2, <3>3, CreatingBy
  <2> QED
    BY <2>3, <2>4, <2>5 DEF ChargeInv
<1> QED
  BY <1>1, <1>2, <1>3, SavedBy

\* The charge of a set of documents is that of the one that tops them.
LEMMA ChargeOf ==
    ASSUME NEW d \in [Sessions -> Blobs \cup {Nil}], NEW b \in Blobs,
           \A t \in Sessions : d[t] # Nil => d[t].used <= b.used /\ d[t].reserved <= b.reserved,
           \/ \E s \in Sessions : d[s] # Nil /\ d[s].used = b.used /\ d[s].reserved = b.reserved
           \/ b.used = 0 /\ b.reserved = 0
    PROVE  /\ Max({d[s].used : s \in {s \in Sessions : d[s] # Nil}} \cup {0}) = b.used
           /\ Max({d[s].reserved : s \in {s \in Sessions : d[s] # Nil}} \cup {0}) = b.reserved
<1> DEFINE S == {s \in Sessions : d[s] # Nil}
           U == {d[s].used : s \in S} \cup {0}
           R == {d[s].reserved : s \in S} \cup {0}
<1>1. b.used \in Nat /\ b.reserved \in Nat
  BY DEF Blobs
<1>2. \A s \in S : d[s] \in Blobs
  OBVIOUS
<1>3. \A s \in S : d[s].used \in Nat /\ d[s].reserved \in Nat
  BY <1>2 DEF Blobs
<1>4. U \subseteq Nat /\ R \subseteq Nat
  BY <1>3
<1>5. b.used \in U /\ b.reserved \in R
  OBVIOUS
<1>6. (\A x \in U : x <= b.used) /\ (\A x \in R : x <= b.reserved)
  BY <1>1
<1> HIDE DEF U, R
<1>7. Max(U) = b.used
  BY <1>4, <1>5, <1>6, MaxIs
<1>8. Max(R) = b.reserved
  BY <1>4, <1>5, <1>6, MaxIs
<1> QED
  BY <1>7, <1>8 DEF U, R

\* A handoff is a grant.
LEMMA HandoffGrants ==
    ASSUME RunnerInv, WorkInv, ChargeInv, AdvanceHandoff
    PROVE  ML!Grant(<<run.sid, run.stage>>)
<1> DEFINE b == blob[run.sid]
           c == blob'[run.sid]
           n == Steps[run.mem.wf][run.stage]
<1>1. /\ run.sid \in Sessions /\ run.stage \in Stage /\ n \in 1..32
      /\ b \in Blobs /\ b # Nil /\ Tops(b)
      /\ b.used < MaxDispatches /\ b.reserved + n <= MaxReserved
      /\ calls[run.sid][run.stage] = 0
      /\ c # Nil /\ c.used = b.used + 1 /\ c.reserved = b.reserved + n
      /\ \A s \in Sessions \ {run.sid} : blob'[s] = blob[s]
      /\ run.op = "advance" /\ run.pc = "enter" /\ run'.pc = "recover" /\ run'.op = "advance"
      /\ run'.sid = run.sid /\ run'.stage = run.stage /\ calls' = calls
  BY HandoffEffect
<1>2. blob \in [Sessions -> Blobs \cup {Nil}] /\ blob' \in [Sessions -> Blobs \cup {Nil}]
  <2>1. RunnerInv'
    BY AdvanceHandoffKeeps
  <2> QED
    BY <2>1 DEF RunnerInv, TypeOK
<1>3. c \in Blobs
  BY <1>1, <1>2
<1>4. /\ b.used \in Nat /\ b.reserved \in Nat
      /\ \A s \in Sessions : blob[s] # Nil => blob[s].used \in Nat /\ blob[s].reserved \in Nat
  BY <1>1, <1>2 DEF Blobs
<1>5. Granted = b.used /\ GrantedSteps = b.reserved
  BY <1>1, <1>2, ChargeOf DEF Granted, GrantedSteps, Saved, Tops
<1> HIDE DEF n, c
<1>6. \A t \in Sessions : blob'[t] # Nil => blob'[t].used <= c.used /\ blob'[t].reserved <= c.reserved
  BY <1>1, <1>4 DEF Tops, c
<1>7. \E s \in Sessions : blob'[s] # Nil /\ blob'[s].used = c.used /\ blob'[s].reserved = c.reserved
  BY <1>1 DEF c
<1>8. Granted' = c.used /\ GrantedSteps' = c.reserved
  BY <1>2, <1>3, <1>6, <1>7, ChargeOf DEF Granted, GrantedSteps, Saved
<1>9. Open = Nil /\ Open' = <<run.sid, run.stage>>
  BY <1>1 DEF Open, Reserved, AboutToInvoke, Checkpointing
<1>10. <<run.sid, run.stage>> \notin Done /\ Done' = Done
  BY <1>1 DEF Done
<1>11. /\ Granted < MaxDispatches /\ Granted' = Granted + 1
       /\ GrantedSteps + n <= MaxReserved /\ GrantedSteps' = GrantedSteps + n
  BY <1>1, <1>5, <1>8
<1> QED
  BY <1>1, <1>9, <1>10, <1>11 DEF ML!Grant

\* No other step changes what is charged.
LEMMA ChargesStay ==
    ASSUME RunnerInv, ChargeInv, [Next]_vars, ~ AdvanceHandoff
    PROVE  Granted' = Granted /\ GrantedSteps' = GrantedSteps
<1>1. CASE SaveTaskState
  <2> DEFINE k == run.kid
  <2>1. /\ run.kidSid \in Sessions /\ blob[run.kidSid] = Nil
        /\ k \in Blobs /\ k # Nil /\ Tops(k)
        /\ blob'[run.kidSid] = k /\ \A s \in Sessions \ {run.kidSid} : blob'[s] = blob[s]
        /\ \/ \E s \in Sessions : /\ blob[s] # Nil
                                  /\ k.used = blob[s].used /\ k.reserved = blob[s].reserved
           \/ k.used = 0 /\ k.reserved = 0
    BY <1>1, SaveEffect
  <2>2. blob \in [Sessions -> Blobs \cup {Nil}] /\ blob' \in [Sessions -> Blobs \cup {Nil}]
    <3>1. RunnerInv'
      BY <1>1, SaveTaskStateKeeps
    <3> QED
      BY <3>1 DEF RunnerInv, TypeOK
  <2>3. k.used \in Nat /\ k.reserved \in Nat
    BY <2>1 DEF Blobs
  <2> HIDE DEF k
  <2>4. Granted = k.used /\ GrantedSteps = k.reserved
    BY <2>1, <2>2, ChargeOf DEF Granted, GrantedSteps, Saved, Tops
  <2>5. \A t \in Sessions : blob'[t] # Nil =>
           blob'[t].used <= k.used /\ blob'[t].reserved <= k.reserved
    BY <2>1, <2>3 DEF Tops
  <2>6. Granted' = k.used /\ GrantedSteps' = k.reserved
    BY <2>1, <2>2, <2>5, ChargeOf DEF Granted, GrantedSteps, Saved
  <2> QED
    BY <2>4, <2>6
<1>2. CASE Rewrites
  <2>1. \A s \in Sessions : LedgerKept(s)
    BY <1>2, RewritesKeep
  <2>2. Saved' = Saved
    BY <2>1 DEF LedgerKept, Saved
  <2>3. \A s \in Saved : blob'[s].used = blob[s].used /\ blob'[s].reserved = blob[s].reserved
    BY <2>1 DEF LedgerKept, Saved
  <2>4. /\ {blob[s].used : s \in Saved}' = {blob[s].used : s \in Saved}
        /\ {blob[s].reserved : s \in Saved}' = {blob[s].reserved : s \in Saved}
    BY <2>2, <2>3
  <2> QED
    BY <2>4 DEF Granted, GrantedSteps
<1> QED
  BY <1>1, <1>2, SavedBy

\* Every step of the runner is one of the ledger, or none of its business.
LEMMA LedgerStep ==
    ASSUME RunnerInv, WorkInv, ChargeInv, [Next]_vars
    PROVE  [ML!Next]_(ML!ledger)
<1>1. CASE AdvanceHandoff
  <2>1. <<run.sid, run.stage>> \in Sessions \X Stage
    BY <1>1, HandoffEffect
  <2> QED
    BY <1>1, <2>1, HandoffGrants DEF ML!Next
<1>2. CASE ~ AdvanceHandoff /\ InvokeExecutor
  <2>1. /\ run.pc = "invoke" /\ run \in Runs /\ run' = [run EXCEPT !.pc = "executing"]
        /\ calls' = [calls EXCEPT ![run.sid][run.stage] = @ + 1]
        /\ calls \in [Sessions -> [Stage -> Nat]]
    BY <1>2 DEF InvokeExecutor, RunnerInv, TypeOK
  <2>2. /\ run.op \in {"advance", "run"} /\ run.sid \in Sessions /\ run.stage \in Stage
        /\ blob[run.sid] # Nil /\ run.mem.kind = blob[run.sid].kind
    BY <2>1 DEF RunnerInv, RunShape, InSync, Started
  <2>3. run.op = "advance"
    BY <2>2 DEF ChargeInv, RunnerInv, Handoffs
  <2>4. Open = <<run.sid, run.stage>> /\ Open # Nil
    BY <2>1, <2>2, <2>3, GrantAssumption DEF Open, Reserved, AboutToInvoke
  <2>5. Open' = Nil
    BY <2>1 DEF Open, Reserved, AboutToInvoke, Checkpointing, Runs
  <2>6. Done' = Done \cup {<<run.sid, run.stage>>}
    <3>1. \A t \in Sessions \X Stage :
             calls'[t[1]][t[2]] = IF t = <<run.sid, run.stage>> THEN calls[t[1]][t[2]] + 1
                                  ELSE calls[t[1]][t[2]]
      BY <2>1, <2>2
    <3>2. \A t \in Sessions \X Stage : calls[t[1]][t[2]] \in Nat
      BY <2>1
    <3>3. <<run.sid, run.stage>> \in Sessions \X Stage
      BY <2>2
    <3> QED
      BY <3>1, <3>2, <3>3 DEF Done
  <2> QED
    BY <1>2, <2>4, <2>5, <2>6, ChargesStay DEF ML!Next, ML!Spend
<1>3. CASE ~ AdvanceHandoff /\ calls' = calls
  <2>1. Done' = Done
    BY <1>3 DEF Done
  <2>2. Open' \in {Open, Nil}
    BY <1>3, ReservedBy DEF Open
  <2> QED
    BY <1>3, <2>1, <2>2, ChargesStay DEF ML!Next, ML!Void, ML!ledger
<1> QED
  BY <1>1, <1>2, <1>3, CallsBy

\* The ledger starts as the runner does.
LEMMA LedgerInit == Init => ML!Init
<1> SUFFICES ASSUME Init PROVE ML!Init
  OBVIOUS
<1>1. Saved = {} /\ ~ Reserved
  BY NilAssumption DEF Init, Saved, Reserved, IdleRun, Ops
<1>2. Max({0}) = 0
  <2>1. {0} \subseteq Nat /\ 0 \in {0} /\ \A n \in {0} : n <= 0
    OBVIOUS
  <2> QED
    BY <2>1, MaxIs
<1>3. {blob[s].used : s \in Saved} \cup {0} = {0} /\ {blob[s].reserved : s \in Saved} \cup {0} = {0}
  BY <1>1
<1>4. Granted = 0 /\ GrantedSteps = 0
  BY <1>2, <1>3 DEF Granted, GrantedSteps
<1>5. Open = Nil /\ Done = {}
  BY <1>1 DEF Open, Done, Init
<1> QED
  BY <1>4, <1>5 DEF ML!Init

\* A mission that may only be started budgeted is, with its documents, its
\* replacements and its crashes, one ledger: one grant at a time, charged
\* before it starts, never refunded and never granted again.
THEOREM ImplementsTheLedger ==
    ASSUME Kinds \subseteq {"budgeted"}
    PROVE  Spec => ImplementsLedger
<1>1. RunnerInv /\ WorkInv /\ ChargeInv /\ [Next]_vars => ChargeInv'
  BY ChargeNext
<1>2. Spec => []ChargeInv
  BY <1>1, ChargeInit, RunnerInvariantHolds, WorkInvariantHolds, PTL DEF Spec
<1>3. RunnerInv /\ WorkInv /\ ChargeInv /\ [Next]_vars => [ML!Next]_(ML!ledger)
  BY LedgerStep
<1> QED
  BY <1>2, <1>3, LedgerInit, RunnerInvariantHolds, WorkInvariantHolds, PTL
     DEF Spec, ImplementsLedger, ML!Spec
-----------------------------------------------------------------------------
(* The lineage stays usable. *)

\* What a step may do to the documents that are already saved.
Steady ==
    \A a \in Sessions : blob[a] # Nil =>
        /\ blob'[a] # Nil /\ blob'[a].parent = blob[a].parent /\ blob'[a].via = blob[a].via
        /\ blob[a].used <= blob'[a].used /\ blob[a].reserved <= blob'[a].reserved
        /\ StopMatchesTransition(blob'[a])
        /\ blob[a].child # Nil =>
              /\ blob'[a].child = blob[a].child /\ blob'[a].replan = blob[a].replan
              /\ blob'[a].used = blob[a].used /\ blob'[a].reserved = blob[a].reserved

\* The walk of _validate_core_lineage before a step ...
LEMMA LineageWalks ==
    TypeOK /\ StoreKin =>
        \E f : f = Walked(MaxSessions, Parents, f) /\ \A s \in Sessions : Lineage(s) = f[s]
  BY LineageIsWalk

\* ... after it.
LEMMA LineageWalksNext ==
    TypeOK' /\ StoreKin' =>
        \E f : f = Walked(MaxSessions, Parents', f) /\ \A s \in Sessions : Lineage(s)' = f[s]
<1>1. (TypeOK /\ StoreKin =>
        \E f : f = Walked(MaxSessions, Parents, f) /\ \A s \in Sessions : Lineage(s) = f[s])'
  BY LineageWalks, PTL
<1> QED
  BY <1>1 DEF Walked

\* The parents form a forest after a step too.
LEMMA ForestNext == TypeOK' /\ StoreKin' => Forest(MaxSessions, Parents')
<1>1. TypeOK /\ StoreKin => Forest(MaxSessions, Parents)
  BY ParentsForest
<1>2. (TypeOK /\ StoreKin => Forest(MaxSessions, Parents))'
  BY <1>1, PTL
<1> QED
  BY <1>2 DEF Forest

\* A session and its ancestors, as far as they are saved, keep their lineage.
LEMMA LineageStays ==
    ASSUME KinInv, KinInv', Steady, NEW s \in Sessions, \A a \in Lineage(s) : blob[a] # Nil
    PROVE  Lineage(s)' = Lineage(s)
<1> USE DEF KinInv
<1>1. PICK f : f = Walked(MaxSessions, Parents, f) /\ \A t \in Sessions : Lineage(t) = f[t]
  BY LineageIsWalk
<1>2. PICK g : g = Walked(MaxSessions, Parents', g) /\ \A t \in Sessions : Lineage(t)' = g[t]
  BY LineageWalksNext
<1>3. Forest(MaxSessions, Parents) /\ Forest(MaxSessions, Parents')
  BY ParentsForest, ForestNext
<1>4. MaxSessions \in Nat /\ s \in 1..MaxSessions
  BY BoundsAssumption DEF Sessions
<1>5. f[s] \subseteq Sessions
  BY <1>1, <1>3, <1>4, WalkIsChain DEF Chain, Sessions
<1>6. ASSUME NEW a \in f[s] PROVE (Parents')[a] = Parents[a]
  <2>1. a \in Sessions /\ blob[a] # Nil
    BY <1>1, <1>5, <1>6
  <2>2. blob'[a] # Nil /\ blob'[a].parent = blob[a].parent
    BY <2>1 DEF Steady
  <2> QED
    BY <2>1, <2>2 DEF Parents
<1> HIDE DEF KinInv
<1>7. g[s] = f[s]
  BY <1>1, <1>2, <1>3, <1>4, <1>6, WalksAgree
<1> QED
  BY <1>1, <1>2, <1>7

\* A step that is steady loses no session that could be loaded.
LEMMA LoadableStays ==
    ASSUME KinInv, KinInv', Steady, NEW s \in Sessions, Loadable(s)
    PROVE  Loadable(s)' /\ LineageDepth(s)' = LineageDepth(s) /\ Lineage(s)' = Lineage(s)
<1>1. Lineage(s)' = Lineage(s)
  BY LineageStays DEF Loadable
<1>2. LineageDepth(s)' = LineageDepth(s)
  BY <1>1 DEF LineageDepth
<1>3. Lineage(s) \subseteq Sessions
  <2>1. Chain(MaxSessions, Parents, s, Lineage(s))
    BY LineageIsChain DEF KinInv
  <2> QED
    BY <2>1, BoundsAssumption DEF Chain, Sessions
<1>4. ASSUME NEW a \in Lineage(s) PROVE blob'[a] # Nil /\ LinkHolds(a)'
  <2> DEFINE p == blob[a].parent
  <2>1. /\ a \in Sessions /\ blob[a] # Nil /\ LinkHolds(a) /\ blob[a] \in Blobs /\ blob'[a] \in Blobs
        /\ blob'[a] # Nil /\ blob'[a].parent = p /\ blob'[a].via = blob[a].via
        /\ blob[a].used <= blob'[a].used /\ blob[a].reserved <= blob'[a].reserved
    BY <1>3, <1>4 DEF Loadable, Steady, KinInv, TypeOK
  <2>2. CASE p = Nil
    BY <2>1, <2>2 DEF LinkHolds
  <2>3. CASE p # Nil
    <3>1. /\ p \in Sessions /\ blob[p] # Nil /\ blob[p].replan # Nil /\ blob[p].replan = blob[a].via
          /\ blob[p].child = a /\ blob[p].used <= blob[a].used /\ blob[p].reserved <= blob[a].reserved
      BY <2>1, <2>3 DEF LinkHolds, Blobs
    <3>2. a # Nil
      BY <2>1, NilAssumption
    <3>3. /\ blob'[p] # Nil /\ StopMatchesTransition(blob'[p])
          /\ blob'[p].child = a /\ blob'[p].replan = blob[p].replan
          /\ blob'[p].used = blob[p].used /\ blob'[p].reserved = blob[p].reserved
      BY <3>1, <3>2 DEF Steady
    <3>4. blob[p] \in Blobs
      BY <3>1 DEF KinInv, TypeOK
    <3>5. blob[p].used <= blob'[a].used /\ blob[p].reserved <= blob'[a].reserved
      BY <2>1, <3>1, <3>4 DEF Blobs
    <3> QED
      BY <2>1, <3>1, <3>3, <3>5 DEF LinkHolds, StopMatchesTransition
  <2> QED
    BY <2>1, <2>2, <2>3
<1>5. blob'[s] # Nil /\ StopMatchesTransition(blob'[s])
  BY DEF Steady, Loadable
<1> QED
  BY <1>1, <1>2, <1>4, <1>5 DEF Loadable

\* So no link is lost that was there before.
LEMMA LinksStay ==
    ASSUME KinInv, KinInv', Steady, LinksFit,
           \A p \in Sessions : blob'[p] # Nil =>
               /\ StopMatchesTransition(blob'[p])
               /\ blob'[p].child # Nil => blob[p] # Nil /\ blob[p].child # Nil
    PROVE  LinksFit'
<1> SUFFICES ASSUME NEW p \in Sessions, blob'[p] # Nil, blob'[p].child # Nil
             PROVE  blob'[p].replan # Nil /\ (NamedChild(p, blob[p].child) /\ Loadable(blob[p].child))'
  BY DEF LinksFit
<1>1. /\ blob[p] # Nil /\ blob[p].child # Nil /\ blob'[p].child = blob[p].child
      /\ blob'[p].replan = blob[p].replan
      /\ blob'[p].used = blob[p].used /\ blob'[p].reserved = blob[p].reserved
  BY DEF Steady
<1>2. blob[p] \in Blobs
  BY <1>1 DEF KinInv, TypeOK
<1>3. PICK c \in Sessions : c = blob[p].child
  BY <1>1, <1>2 DEF Blobs
<1>4. blob[p].replan # Nil /\ NamedChild(p, c) /\ Loadable(c)
  BY <1>1, <1>3 DEF LinksFit
<1>5. blob[c] # Nil /\ blob[c] \in Blobs /\ blob'[c] \in Blobs
  BY <1>4 DEF KinInv, TypeOK, NamedChild, Steady
<1>6. Loadable(c)'
  BY <1>4, LoadableStays
<1>7. NamedChild(p, c)'
  <2>1. /\ blob'[c] # Nil /\ blob'[c].parent = blob[c].parent /\ blob'[c].via = blob[c].via
        /\ blob[c].used <= blob'[c].used /\ blob[c].reserved <= blob'[c].reserved
    BY <1>5 DEF Steady
  <2>2. blob[p].used <= blob'[c].used /\ blob[p].reserved <= blob'[c].reserved
    BY <1>2, <1>4, <1>5, <2>1 DEF NamedChild, Blobs
  <2> QED
    BY <1>1, <1>4, <2>1, <2>2 DEF NamedChild
<1>8. blob'[p].child = c
  BY <1>1, <1>3
<1> QED
  BY <1>1, <1>4, <1>6, <1>7, <1>8

\* What the memory of a loaded call has in common with its saved document.
LEMMA LoadedLinks ==
    ASSUME RunnerInv, KinInv, LinkInv, Started
    PROVE  /\ run.sid \in Sessions /\ run.mem \in Blobs /\ Loadable(run.sid)
           /\ blob[run.sid] \in Blobs /\ blob[run.sid] # Nil /\ blob \in [Sessions -> Blobs \cup {Nil}]
           /\ Links(run.mem) = Links(blob[run.sid]) /\ run.mem.stop = blob[run.sid].stop
           /\ run.mem.used = blob[run.sid].used /\ run.mem.reserved = blob[run.sid].reserved
           /\ StopMatchesTransition(run.mem)
           /\ run.mem.child # Nil => run.mem.replan # Nil
<1>1. run.sid \in Sessions /\ run.mem \in Blobs
  BY DEF KinInv, RunShape
<1>2. blob \in [Sessions -> Blobs \cup {Nil}] /\ blob[run.sid] # Nil
  BY DEF KinInv, TypeOK, CallKin
<1>3. /\ run.mem.stop = blob[run.sid].stop
      /\ run.mem.used = blob[run.sid].used /\ run.mem.reserved = blob[run.sid].reserved
  BY DEF RunnerInv, InSync
<1>4. /\ Loadable(run.sid) /\ run.mem.via = blob[run.sid].via
      /\ run.mem.replan = blob[run.sid].replan /\ run.mem.child = blob[run.sid].child
  BY DEF LinkInv, CallLinks
<1>5. run.mem.parent = blob[run.sid].parent
  BY DEF KinInv, CallKin
<1>6. StopMatchesTransition(blob[run.sid]) /\ (blob[run.sid].child # Nil => blob[run.sid].replan # Nil)
  BY <1>1, <1>2 DEF LinkInv, LinksFit
<1> QED
  BY <1>1, <1>2, <1>3, <1>4, <1>5, <1>6 DEF Links, StopMatchesTransition

\* A step that saves nothing.
LEMMA NothingSaved ==
    ASSUME KinInv, KinInv', LinksFit, blob' = blob
    PROVE  Steady /\ LinksFit'
<1>1. Steady
  <2> SUFFICES ASSUME NEW a \in Sessions, blob[a] # Nil
               PROVE  /\ StopMatchesTransition(blob[a])
                      /\ blob[a].used <= blob[a].used /\ blob[a].reserved <= blob[a].reserved
    BY DEF Steady
  <2>1. blob[a] \in Blobs
    BY DEF KinInv, TypeOK
  <2>2. blob[a].used \in Nat /\ blob[a].reserved \in Nat
    BY <2>1 DEF Blobs
  <2> QED
    BY <2>2 DEF LinksFit
<1>2. \A p \in Sessions : blob'[p] # Nil =>
          /\ StopMatchesTransition(blob'[p])
          /\ blob'[p].child # Nil => blob[p] # Nil /\ blob[p].child # Nil
  BY DEF LinksFit
<1> QED
  BY <1>1, <1>2, LinksStay

\* A step that saves the session's document with the links it has, or opens
\* the transition of a session without a child.
LEMMA SavedSteady ==
    ASSUME RunnerInv, KinInv, KinInv', LinkInv, Started, NEW b \in Blobs, Save(b),
           b.parent = run.mem.parent, b.via = run.mem.via, b.child = run.mem.child \/ run.mem.child = Nil,
           b.replan = run.mem.replan \/ run.mem.child = Nil, StopMatchesTransition(b),
           run.mem.used <= b.used, run.mem.reserved <= b.reserved,
           (run.mem.used = b.used /\ run.mem.reserved = b.reserved) \/ run.mem.child = Nil
    PROVE  Steady
<1>1. /\ run.sid \in Sessions /\ blob[run.sid] # Nil /\ blob \in [Sessions -> Blobs \cup {Nil}]
      /\ Links(run.mem) = Links(blob[run.sid])
      /\ run.mem.used = blob[run.sid].used /\ run.mem.reserved = blob[run.sid].reserved
  BY LoadedLinks
<1>2. b # Nil
  BY NilAssumption
<1> SUFFICES ASSUME NEW a \in Sessions, blob[a] # Nil
             PROVE  /\ blob'[a] # Nil /\ blob'[a].parent = blob[a].parent /\ blob'[a].via = blob[a].via
                    /\ blob[a].used <= blob'[a].used /\ blob[a].reserved <= blob'[a].reserved
                    /\ StopMatchesTransition(blob'[a])
                    /\ blob[a].child # Nil =>
                          /\ blob'[a].child = blob[a].child /\ blob'[a].replan = blob[a].replan
                          /\ blob'[a].used = blob[a].used /\ blob'[a].reserved = blob[a].reserved
  BY DEF Steady
<1>3. CASE a = run.sid
  <2>1. blob'[a] = b
    BY <1>1, <1>3 DEF Save
  <2> QED
    BY <1>1, <1>2, <1>3, <2>1 DEF Links
<1>4. CASE a # run.sid
  <2>1. blob'[a] = blob[a]
    BY <1>1, <1>4 DEF Save
  <2>2. blob[a].used \in Nat /\ blob[a].reserved \in Nat
    BY <1>1 DEF Blobs
  <2> QED
    BY <2>1, <2>2 DEF LinkInv, LinksFit
<1> QED
  BY <1>3, <1>4

\* ... and names no child.
LEMMA SavedLinks ==
    ASSUME RunnerInv, KinInv, KinInv', LinkInv, Started, NEW b \in Blobs, Save(b),
           b.parent = run.mem.parent, b.via = run.mem.via, b.child = run.mem.child,
           b.replan = run.mem.replan \/ run.mem.child = Nil, StopMatchesTransition(b),
           run.mem.used <= b.used, run.mem.reserved <= b.reserved,
           (run.mem.used = b.used /\ run.mem.reserved = b.reserved) \/ run.mem.child = Nil
    PROVE  Steady /\ LinksFit'
<1>1. Steady
  BY SavedSteady
<1>2. ASSUME NEW p \in Sessions, blob'[p] # Nil
      PROVE  /\ StopMatchesTransition(blob'[p])
             /\ blob'[p].child # Nil => blob[p] # Nil /\ blob[p].child # Nil
  <2>1. /\ run.sid \in Sessions /\ blob[run.sid] # Nil /\ blob \in [Sessions -> Blobs \cup {Nil}]
        /\ Links(run.mem) = Links(blob[run.sid])
    BY LoadedLinks
  <2>2. CASE p = run.sid
    BY <2>1, <2>2 DEF Save, Links
  <2>3. CASE p # run.sid
    BY <1>2, <2>1, <2>3 DEF Save, LinkInv, LinksFit
  <2> QED
    BY <2>2, <2>3
<1> QED
  BY <1>1, <1>2, LinksStay DEF LinkInv


\* What every step is shown to do to the links.
LinksStep == Steady /\ LinkInv'

\* What an ordinary step saves: only a handoff charges, and it has no child.
LEMMA OrdinarySaveLinks ==
    ASSUME RunnerInv, KinInv, KinInv', LinkInv, OrdinarySave
    PROVE  Steady /\ LinksFit'
<1>1. CASE blob' = blob
  BY <1>1, NothingSaved DEF LinkInv
<1>2. ASSUME Started, NEW b \in Blobs, Save(b), Keeps(b, run.mem) PROVE Steady /\ LinksFit'
  <2>1. Links(b) = Links(run.mem) /\ b.stop = run.mem.stop
    BY <1>2 DEF Keeps
  <2>2. /\ b.parent = run.mem.parent /\ b.via = run.mem.via /\ b.child = run.mem.child
        /\ b.replan = run.mem.replan
    BY <2>1 DEF Links
  <2>3. run.mem \in Blobs /\ StopMatchesTransition(run.mem) /\ (run.mem.child # Nil => run.mem.replan # Nil)
    BY <1>2, LoadedLinks
  <2>4. StopMatchesTransition(b)
    BY <2>1, <2>2, <2>3 DEF StopMatchesTransition
  <2>5. AdvanceHandoff => run.mem.child = Nil
    <3>1. AdvanceHandoff => run.mem.stop = Nil
      BY DEF AdvanceHandoff, At, RunnerInv, Handoffs
    <3> QED
      BY <2>3, <3>1 DEF StopMatchesTransition
  <2>6. /\ run.mem.used <= b.used /\ run.mem.reserved <= b.reserved
        /\ (run.mem.used = b.used /\ run.mem.reserved = b.reserved) \/ run.mem.child = Nil
    BY <1>2, <2>3, <2>5 DEF Keeps, Blobs
  <2> QED
    BY <1>2, <2>2, <2>4, <2>6, SavedLinks
<1> QED
  BY <1>1, <1>2 DEF OrdinarySave

\* An ordinary step keeps every link, whether its call goes on or has just loaded.
LEMMA OrdinaryLinks ==
    ASSUME RunnerInv, RepeatStop = FALSE, KinInv, KinInv', LinkInv, Fits
    PROVE  LinksStep
<1>1. Steady /\ LinksFit'
  BY OrdinarySaveLinks DEF Fits, Ordinary
<1>2. CASE run' = IdleRun
  <2>1. run'.pc = "idle" /\ run'.op = Nil /\ Nil # "start"
    BY <1>2, NilAssumption DEF IdleRun, Ops
  <2> QED
    BY <1>1, <2>1 DEF LinksStep, LinkInv, CallLinks, Started
<1>3. CASE run' = run /\ ~ Making(run)
  <2>1. CASE ~ Started
    BY <1>1, <1>3, <2>1 DEF LinksStep, LinkInv, CallLinks, Started
  <2>2. CASE Started
    <3> DEFINE s == run.sid
    <3>1. /\ s \in Sessions /\ run.mem \in Blobs /\ Loadable(s) /\ blob[s] \in Blobs /\ blob[s] # Nil
          /\ blob \in [Sessions -> Blobs \cup {Nil}]
          /\ Links(run.mem) = Links(blob[s])
          /\ run.mem.used = blob[s].used /\ run.mem.reserved = blob[s].reserved
      BY <2>2, LoadedLinks
    <3>2. Loadable(s)' /\ LineageDepth(s)' = LineageDepth(s)
      <4>1. PICK t \in Sessions : t = s
        BY <3>1
      <4>2. Loadable(t)' /\ LineageDepth(t)' = LineageDepth(t)
        BY <1>1, <3>1, <4>1, LoadableStays
      <4> QED
        BY <1>3, <4>1, <4>2
    <3>3. Links(blob'[s]) = Links(run.mem) /\ blob'[s] # Nil
      <4>1. CASE blob' = blob
        BY <3>1, <4>1
      <4>2. ASSUME NEW b \in Blobs, Save(b), Keeps(b, run.mem) PROVE Links(blob'[s]) = Links(run.mem) /\ blob'[s] # Nil
        BY <3>1, <4>2, NilAssumption DEF Save, Keeps
      <4> QED
        BY <4>1, <4>2 DEF Fits, Ordinary, OrdinarySave
    <3>4. run.op = "replan" /\ run.pc = "link" => NamedChild(run.sid, run.kidSid)'
      <4> SUFFICES ASSUME run.op = "replan", run.pc = "link" PROVE NamedChild(run.sid, run.kidSid)'
        OBVIOUS
      <4>1. NamedChild(s, run.kidSid) /\ run.kidSid \in Sessions
        BY <2>2 DEF LinkInv, CallLinks, KinInv, RunShape, Creating
      <4>2. /\ blob[run.kidSid] \in Blobs
            /\ blob'[run.kidSid] # Nil /\ blob'[run.kidSid].parent = blob[run.kidSid].parent
            /\ blob'[run.kidSid].via = blob[run.kidSid].via /\ blob'[run.kidSid] \in Blobs
            /\ blob[run.kidSid].used <= blob'[run.kidSid].used
            /\ blob[run.kidSid].reserved <= blob'[run.kidSid].reserved
        BY <1>1, <4>1 DEF Steady, NamedChild, KinInv, TypeOK
      <4>3. blob'[s].used = blob[s].used /\ blob'[s].reserved = blob[s].reserved
        <5>1. ASSUME NEW b \in Blobs, Save(b), Keeps(b, run.mem)
              PROVE  blob'[s].used = blob[s].used /\ blob'[s].reserved = blob[s].reserved
          <6>1. ~ AdvanceHandoff
            BY DEF AdvanceHandoff, At
          <6> QED
            BY <3>1, <5>1, <6>1 DEF Save, Keeps
        <5> QED
          BY <5>1 DEF Fits, Ordinary, OrdinarySave
      <4>4. blob'[s].replan = blob[s].replan
        BY <3>1, <3>3 DEF Links
      <4>5. blob[s].used <= blob'[run.kidSid].used /\ blob[s].reserved <= blob'[run.kidSid].reserved
        BY <3>1, <4>1, <4>2 DEF NamedChild, Blobs
      <4> QED
        BY <1>3, <4>1, <4>2, <4>3, <4>4, <4>5 DEF NamedChild
    <3>5. CallLinks'
      BY <1>3, <2>2, <3>2, <3>3, <3>4 DEF LinkInv, CallLinks, Links, Started
    <3> QED
      BY <1>1, <1>3, <3>5 DEF LinksStep, LinkInv
  <2> QED
    BY <2>1, <2>2
<1>4. CASE /\ Started /\ run.op # "replan"
           /\ run'.pc \notin Creating \cup {"idle", "enter"}
           /\ run'.op = run.op /\ run'.sid = run.sid
           /\ \/ Links(run'.mem) = Links(run.mem)
              \/ run'.mem = blob[run.sid]
  <2>1. /\ run.sid \in Sessions /\ Loadable(run.sid) /\ blob[run.sid] # Nil
        /\ Links(run.mem) = Links(blob[run.sid])  /\ blob \in [Sessions -> Blobs \cup {Nil}]
    BY <1>4, LoadedLinks
  <2>2. Loadable(run.sid)'
    <3>1. PICK t \in Sessions : t = run.sid
      BY <2>1
    <3>2. Loadable(t)'
      BY <1>1, <2>1, <3>1, LoadableStays
    <3> QED
      BY <1>4, <3>1, <3>2
  <2>3. Links(blob'[run.sid]) = Links(run.mem)
    <3>1. ASSUME NEW b \in Blobs, Save(b), Keeps(b, run.mem) PROVE Links(blob'[run.sid]) = Links(run.mem)
      BY <2>1, <3>1 DEF Save, Keeps
    <3> QED
      BY <2>1, <3>1 DEF Fits, Ordinary, OrdinarySave
  <2>4. Links(run'.mem) = Links(blob'[run.sid])
    BY <1>4, <2>1, <2>3
  <2>5. run'.op # "start" /\ run'.op # "replan" /\ run'.pc # "enter"
    BY <1>4 DEF Started
  <2> QED
    BY <1>1, <1>4, <2>2, <2>4, <2>5 DEF LinksStep, LinkInv, CallLinks, Links
<1>5. CASE /\ Idle /\ blob' = blob /\ run'.pc \in {"enter", "recover"} /\ run'.op # "start"
           /\ \E s \in Sessions : Loadable(s) /\ run'.sid = s /\ run'.mem = blob[s]
           /\ run'.op \in {"stop", "replan"} => CallCore(run'.op, run'.sid)
  <2>1. PICK s \in Sessions : Loadable(s) /\ run'.sid = s /\ run'.mem = blob[s]
    BY <1>5
  <2>2. Loadable(s)' /\ LineageDepth(s)' = LineageDepth(s)
    BY <1>1, <2>1, LoadableStays
  <2>3. run'.op = "stop" => blob[s].stop = Nil
    <3> SUFFICES ASSUME run'.op = "stop" PROVE blob[s].stop = Nil
      OBVIOUS
    <3>1. CallCore("stop", s)
      BY <1>5, <2>1
    <3>2. held.outcome # "stopped" /\ held = Decide(s, blob[s], rows[s])
      BY <3>1 DEF CallCore, ValidDecision
    <3> QED
      BY <3>2 DEF Decide, Outcome
  <2>4. run'.op = "replan" => LineageDepth(s) < MaxLineage /\ blob[s].child = Nil
    <3> SUFFICES ASSUME run'.op = "replan" PROVE LineageDepth(s) < MaxLineage /\ blob[s].child = Nil
      OBVIOUS
    <3>1. CallCore("replan", s)
      BY <1>5, <2>1
    <3>2. LineageDepth(s) < MaxLineage /\ blob[s].stop = Nil
      BY <3>1 DEF CallCore, MayReplan
    <3> QED
      BY <2>1, <3>2 DEF LinkInv, LinksFit, StopMatchesTransition, Loadable
  <2>5. run'.pc \notin Creating /\ run'.pc # "link"
    BY <1>5 DEF Creating
  <2>6. CallLinks'
    BY <1>5, <2>1, <2>2, <2>3, <2>4, <2>5 DEF CallLinks
  <2> QED
    BY <1>1, <1>5, <2>6 DEF LinksStep, LinkInv
<1> QED
  BY <1>2, <1>3, <1>4, <1>5 DEF Fits, Ordinary, OrdinaryMove

\* start() enters with a document without links.
LEMMA StartLinks ==
    ASSUME RunnerInv, KinInv, KinInv', LinkInv, NEW k \in Kinds, NEW w \in Workflows, Start(k, w)
    PROVE  LinksStep
<1>1. blob' = blob /\ run' = [IdleRun EXCEPT !.op = "start", !.pc = "create", !.kid = NewBlob(k, w)]
  BY DEF Start, store
<1>2. Steady /\ LinksFit'
  BY <1>1, NothingSaved DEF LinkInv
<1>3. run'.op = "start" /\ run'.kid = NewBlob(k, w)
  BY <1>1 DEF IdleRun
<1>4. run'.kid.child = Nil /\ run'.kid.replan = Nil
  BY <1>3 DEF NewBlob
<1> QED
  BY <1>2, <1>3, <1>4 DEF LinksStep, LinkInv, CallLinks, Started

\* The sessions row and the plan of the session being created: no document
\* changes, and the call knows what it knew.
LEMMA NewRowsLinks ==
    ASSUME RunnerInv, KinInv, KinInv', LinkInv, run.pc \in {"create", "save_plan"}, blob' = blob,
           run'.op = run.op, run'.sid = run.sid, run'.mem = run.mem, run'.dec = run.dec,
           run'.kid = run.kid, run'.pc \in {"save_plan", "save_state"}
    PROVE  LinksStep
<1>1. Steady /\ LinksFit'
  BY NothingSaved DEF LinkInv
<1>2. Started' => Started /\ run.op = "replan"
  BY CreatesMeans DEF Started
<1>3. ASSUME Started PROVE Loadable(run.sid)' /\ LineageDepth(run.sid)' = LineageDepth(run.sid)
  <2>1. PICK t \in Sessions : t = run.sid /\ Loadable(t)
    BY <1>3, LoadedLinks
  <2>2. Loadable(t)' /\ LineageDepth(t)' = LineageDepth(t)
    BY <1>1, <2>1, LoadableStays
  <2>3. t = run'.sid
    BY <2>1
  <2> QED
    BY <2>1, <2>2, <2>3
<1>4. run.pc \in Creating \ {"link"} /\ run'.pc \in Creating \ {"link"} /\ run'.pc # "enter"
  BY DEF Creating
<1>5. CallLinks'
  <2> SUFFICES ASSUME Started' PROVE CallLinks'
    BY DEF CallLinks
  <2>1. Started /\ run.op = "replan"
    BY <1>2
  <2> QED
    BY <1>3, <1>4, <2>1 DEF LinkInv, CallLinks
<1>6. run'.op = "start" => run'.kid.child = Nil /\ run'.kid.replan = Nil
  BY DEF LinkInv
<1> QED
  BY <1>1, <1>5, <1>6 DEF LinksStep, LinkInv

\* sessions.create saves no document.
LEMMA CreateSessionLinks ==
    ASSUME RunnerInv, KinInv, KinInv', LinkInv, NEW s \in Sessions, CreateSession(s)
    PROVE  LinksStep
<1>1. /\ run.pc = "create" /\ blob' = blob /\ run' = [run EXCEPT !.pc = "save_plan", !.kidSid = s]
      /\ run \in Runs
  BY CreatesMeans DEF CreateSession
<1>2. /\ run'.op = run.op /\ run'.sid = run.sid /\ run'.mem = run.mem /\ run'.dec = run.dec
      /\ run'.kid = run.kid /\ run'.pc = "save_plan"
  BY <1>1 DEF Runs
<1> QED
  BY <1>1, <1>2, NewRowsLinks

\* _save_plan saves no document.
LEMMA SavePlanLinks == ASSUME RunnerInv, KinInv, KinInv', LinkInv, SavePlan PROVE LinksStep
<1>1. /\ run.pc = "save_plan" /\ blob' = blob /\ run' = [run EXCEPT !.pc = "save_state"]
      /\ run \in Runs
  BY CreatesMeans DEF SavePlan
<1>2. /\ run'.op = run.op /\ run'.sid = run.sid /\ run'.mem = run.mem /\ run'.dec = run.dec
      /\ run'.kid = run.kid /\ run'.pc = "save_state"
  BY <1>1 DEF Runs
<1> QED
  BY <1>1, <1>2, NewRowsLinks

\* stop_core ends a session that has no child and no transition.
LEMMA StopCoreLinks == ASSUME RunnerInv, KinInv, KinInv', LinkInv, StopCore PROVE LinksStep
<1> DEFINE b == StoppedBlob(run.mem, run.dec)
<1>1. Started /\ run.op = "stop" /\ run.pc = "enter"
  BY LoadedMeans DEF StopCore, At
<1>2. /\ run.mem \in Blobs /\ StopMatchesTransition(run.mem)
      /\ run.mem.child # Nil => run.mem.replan # Nil
  BY <1>1, LoadedLinks
<1>3. run.mem.replan = Nil /\ run.mem.child = Nil
  BY <1>1, <1>2 DEF LinkInv, CallLinks, StopMatchesTransition
<1>4. run.dec \in Decisions /\ run.mem.wf \in Workflows /\ run.sid \in Sessions
  BY <1>1, <1>2, LoadedLinks DEF KinInv, RunShape, Blobs
<1>5. /\ b \in Blobs /\ Links(b) = Links(run.mem) /\ b.used = run.mem.used /\ b.reserved = run.mem.reserved
  BY <1>2, <1>4, Stops, LinkWrites DEF Core
<1>6. run.mem.used \in Nat /\ run.mem.reserved \in Nat
  BY <1>2 DEF Blobs
<1>7. Save(b) /\ run' = IdleRun
  BY DEF StopCore
<1>8. /\ b.parent = run.mem.parent /\ b.via = run.mem.via /\ b.child = run.mem.child
      /\ b.replan = Nil /\ StopMatchesTransition(b)
      /\ run.mem.used <= b.used /\ run.mem.reserved <= b.reserved
  BY <1>3, <1>5, <1>6 DEF Links, StopMatchesTransition
<1> HIDE DEF b
<1>9. Steady /\ LinksFit'
  BY <1>1, <1>3, <1>5, <1>7, <1>8, SavedLinks
<1>10. run'.pc = "idle" /\ run'.op = Nil /\ Nil # "start"
  BY <1>7, NilAssumption DEF IdleRun, Ops
<1> QED
  BY <1>9, <1>10 DEF LinksStep, LinkInv, CallLinks, Started

\* replan_core first saves the parent, stopped by the decision that opens the
\* transition; the call goes on with that document and a child for it.
LEMMA ReplanCoreLinks ==
    ASSUME RunnerInv, KinInv, KinInv', LinkInv, NEW w \in Workflows, ReplanCore(w)
    PROVE  LinksStep
<1> DEFINE b == ReplannedBlob(run.mem, run.dec)
           kid == ReplacementBlob(run.mem, run.sid, run.dec, w)
<1>1. Started /\ run.op = "replan" /\ run.pc = "enter" /\ run \in Runs
  BY LoadedMeans DEF ReplanCore, At
<1>2. /\ run.mem \in Blobs /\ run.sid \in Sessions /\ run.dec \in Decisions /\ Loadable(run.sid)
      /\ blob \in [Sessions -> Blobs \cup {Nil}]
  BY <1>1, LoadedLinks DEF KinInv, RunShape
<1>3. run.mem.child = Nil /\ LineageDepth(run.sid) < MaxLineage
  BY <1>1 DEF LinkInv, CallLinks
<1>4. /\ b \in Blobs /\ Links(b) = <<run.mem.parent, run.mem.via, run.mem.child, run.dec>>
      /\ b.stop = run.dec /\ b.used = run.mem.used /\ b.reserved = run.mem.reserved
  BY <1>2, Stops, LinkWrites DEF Core
<1>5. /\ Links(kid) = <<run.sid, run.dec, Nil, Nil>>
      /\ kid.used = run.mem.used /\ kid.reserved = run.mem.reserved
  BY <1>2, Replacement, LinkWrites
<1>6. Save(b) /\ run' = [run EXCEPT !.pc = "create", !.mem = b, !.kid = kid]
  BY DEF ReplanCore
<1> HIDE DEF b, kid
<1>7. run.mem.used \in Nat /\ run.mem.reserved \in Nat
  BY <1>2 DEF Blobs
<1>8. /\ b.parent = run.mem.parent /\ b.via = run.mem.via /\ b.child = run.mem.child
      /\ b.replan = run.dec /\ StopMatchesTransition(b)
      /\ run.mem.used <= b.used /\ run.mem.reserved <= b.reserved
  BY <1>4, <1>7 DEF Links, StopMatchesTransition
<1>9. Steady /\ LinksFit'
  BY <1>1, <1>3, <1>4, <1>6, <1>8, SavedLinks
<1>10. /\ run'.pc = "create" /\ run'.op = "replan" /\ run'.sid = run.sid /\ run'.mem = b
       /\ run'.dec = run.dec /\ run'.kid = kid
  BY <1>1, <1>6 DEF Runs
<1>11. Loadable(run.sid)' /\ LineageDepth(run.sid)' = LineageDepth(run.sid)
  <2>1. PICK t \in Sessions : t = run.sid /\ Loadable(t)
    BY <1>2
  <2>2. Loadable(t)' /\ LineageDepth(t)' = LineageDepth(t)
    BY <1>9, <2>1, LoadableStays
  <2>3. t = run'.sid
    BY <1>10, <2>1
  <2> QED
    BY <2>1, <2>2, <2>3
<1>12. blob'[run.sid] = b
  BY <1>2, <1>6 DEF Save
<1>13. CallLinks'
  BY <1>3, <1>4, <1>5, <1>8, <1>10, <1>11, <1>12 DEF CallLinks, Links
<1> QED
  BY <1>9, <1>10, <1>13 DEF LinksStep, LinkInv

\* The child is saved: it names its parent and the decision that replaced it,
\* and nobody names it yet.
LEMMA SaveTaskStateLinks ==
    ASSUME RunnerInv, KinInv, KinInv', LinkInv, SaveTaskState PROVE LinksStep
<1> DEFINE k == run.kidSid
<1>1. run.pc = "save_state" /\ blob' = [blob EXCEPT ![k] = run.kid]
  BY DEF SaveTaskState
<1>2. /\ k \in Sessions /\ blob[k] = Nil /\ run.kid \in Blobs /\ blob \in [Sessions -> Blobs \cup {Nil}]
      /\ run \in Runs
  BY <1>1, CreatesMeans DEF KinInv, CallKin, RunShape, TypeOK, Making, Creating
<1>3. blob'[k] = run.kid /\ run.kid # Nil /\ \A a \in Sessions : a # k => blob'[a] = blob[a]
  BY <1>1, <1>2, NilAssumption
<1>4. run.kid.child = Nil /\ run.kid.replan = Nil
  <2>1. CASE run.op = "start"
    BY <2>1 DEF LinkInv
  <2>2. CASE run.op = "replan"
    <3>1. Started
      BY <1>1, <2>2, CreatesMeans
    <3> QED
      BY <1>1, <2>2, <3>1 DEF LinkInv, CallLinks, Creating
  <2> QED
    BY <1>1, <2>1, <2>2, CreatesMeans
<1>5. Steady
  <2> SUFFICES ASSUME NEW a \in Sessions, blob[a] # Nil
               PROVE  /\ blob'[a] = blob[a] /\ StopMatchesTransition(blob[a])
                      /\ blob[a].used <= blob[a].used /\ blob[a].reserved <= blob[a].reserved
    BY DEF Steady
  <2>1. blob'[a] = blob[a]
    BY <1>2, <1>3
  <2>2. blob[a].used \in Nat /\ blob[a].reserved \in Nat
    BY <1>2 DEF Blobs
  <2> QED
    BY <2>1, <2>2 DEF LinkInv, LinksFit
<1>6. LinksFit'
  <2>1. \A p \in Sessions : blob'[p] # Nil =>
            /\ StopMatchesTransition(blob'[p])
            /\ blob'[p].child # Nil => blob[p] # Nil /\ blob[p].child # Nil
    BY <1>3, <1>4 DEF LinkInv, LinksFit, StopMatchesTransition
  <2> QED
    BY <1>5, <2>1, LinksStay DEF LinkInv
<1>7. CASE run.op # "replan"
  <2>1. run' = IdleRun
    BY <1>7 DEF SaveTaskState
  <2>2. run'.pc = "idle" /\ run'.op = Nil /\ Nil # "start"
    BY <2>1, NilAssumption DEF IdleRun, Ops
  <2> QED
    BY <1>5, <1>6, <2>2 DEF LinksStep, LinkInv, CallLinks, Started
<1>8. CASE run.op = "replan"
  <2> DEFINE s == run.sid
  <2>1. run' = [run EXCEPT !.pc = "link"]
    BY <1>8 DEF SaveTaskState
  <2>2. /\ run'.pc = "link" /\ run'.op = "replan" /\ run'.sid = s /\ run'.mem = run.mem
        /\ run'.dec = run.dec /\ run'.kid = run.kid /\ run'.kidSid = k
    BY <1>2, <1>8, <2>1 DEF Runs
  <2>3. Started /\ run.kid.parent = s /\ run.dec \in Decisions
    BY <1>1, <1>8, CreatesMeans DEF KinInv, RunShape
  <2>4. /\ s \in Sessions /\ run.mem \in Blobs /\ Loadable(s) /\ blob[s] # Nil
        /\ Links(run.mem) = Links(blob[s])
        /\ run.mem.used = blob[s].used /\ run.mem.reserved = blob[s].reserved
    BY <2>3, LoadedLinks
  <2>5. /\ run.kid.via = run.dec /\ run.mem.replan = run.dec /\ run.mem.child = Nil
        /\ run.kid.used = run.mem.used /\ run.kid.reserved = run.mem.reserved
        /\ LineageDepth(s) < MaxLineage
    BY <1>1, <1>8, <2>3 DEF LinkInv, CallLinks, Creating
  <2>6. Loadable(s)' /\ LineageDepth(s)' = LineageDepth(s)
    <3>1. PICK t \in Sessions : t = s /\ Loadable(t)
      BY <2>4
    <3>2. Loadable(t)' /\ LineageDepth(t)' = LineageDepth(t)
      BY <1>5, <3>1, LoadableStays
    <3>3. t = run'.sid
      BY <2>2, <3>1
    <3> QED
      BY <2>2, <3>1, <3>2, <3>3
  <2>7. blob'[s] = blob[s] /\ blob[s].replan = run.dec /\ blob[s].child = Nil
    BY <1>2, <1>3, <2>4, <2>5 DEF Links
  <2>8. NamedChild(run.sid, run.kidSid)'
    <3>1. run.mem.used \in Nat /\ run.mem.reserved \in Nat
      BY <2>4 DEF Blobs
    <3> QED
      BY <1>3, <2>2, <2>3, <2>4, <2>5, <2>7, <3>1 DEF NamedChild
  <2>9. CallLinks'
    BY <2>2, <2>4, <2>5, <2>6, <2>7, <2>8 DEF CallLinks, Links
  <2> QED
    BY <1>5, <1>6, <2>2, <2>9 DEF LinksStep, LinkInv
<1> QED
  BY <1>7, <1>8

\* A saved child is one deeper than its parent.
LEMMA ChildLineage ==
    ASSUME KinInv', NEW p \in Sessions, NEW k \in Sessions, blob'[k] # Nil, blob'[k].parent = p
    PROVE  Lineage(k)' = {k} \cup Lineage(p)' /\ LineageDepth(k)' = LineageDepth(p)' + 1
<1> USE DEF KinInv
<1>1. PICK g : g = Walked(MaxSessions, Parents', g) /\ \A t \in Sessions : Lineage(t)' = g[t]
  BY LineageWalksNext
<1>2. Forest(MaxSessions, Parents')
  BY ForestNext
<1>3. MaxSessions \in Nat /\ p \in 1..MaxSessions /\ k \in 1..MaxSessions
  BY BoundsAssumption DEF Sessions
<1>4. (Parents')[k] = p /\ p # 0 /\ p # Nil
  BY <1>3, NilAssumption DEF Parents
<1>5. p < k
  BY <1>2, <1>3, <1>4 DEF Forest
<1>6. g[k] = {k} \cup g[p]
  BY <1>1, <1>3, <1>4, Zenon DEF Walked
<1>7. g[p] \subseteq 1..p
  BY <1>1, <1>2, <1>3, WalkIsChain DEF Chain
<1>8. IsFiniteSet(g[p]) /\ k \notin g[p]
  <2>1. IsFiniteSet(1..p)
    BY <1>3, FS_Interval
  <2>2. IsFiniteSet(g[p])
    BY <1>7, <2>1, FS_Subset
  <2> QED
    BY <1>3, <1>5, <1>7, <2>2
<1>9. Cardinality(g[p]) \in Nat /\ Cardinality(g[p] \cup {k}) = Cardinality(g[p]) + 1
  BY <1>8, FS_AddElement, FS_CardinalityType
<1>10. g[k] = g[p] \cup {k}
  BY <1>6
<1>11. LineageDepth(k)' = Cardinality(g[k]) - 1 /\ LineageDepth(p)' = Cardinality(g[p]) - 1
  BY <1>1 DEF LineageDepth
<1> QED
  BY <1>1, <1>6, <1>9, <1>10, <1>11

\* The parent names the child, which from now on can be loaded.
LEMMA LinkReplacementLinks ==
    ASSUME RunnerInv, KinInv, KinInv', LinkInv, LinkReplacement PROVE LinksStep
<1> DEFINE c == [run.mem EXCEPT !.child = run.kidSid]
           b == Touch(c)
<1>1. Started /\ run.pc = "link" /\ run.op = "replan" /\ run.kidSid \in Sessions /\ run.dec \in Decisions
  <2>1. run.pc = "link" /\ run.op # "start"
    BY LoadedMeans DEF LinkReplacement, Started
  <2> QED
    BY <2>1, LoadedMeans DEF LinkReplacement, KinInv, RunShape, Creating
<1>2. /\ run.sid \in Sessions /\ run.mem \in Blobs /\ Loadable(run.sid)
      /\ blob[run.sid] \in Blobs /\ blob[run.sid] # Nil /\ blob \in [Sessions -> Blobs \cup {Nil}]
      /\ Links(run.mem) = Links(blob[run.sid]) /\ run.mem.stop = blob[run.sid].stop
      /\ run.mem.used = blob[run.sid].used /\ run.mem.reserved = blob[run.sid].reserved
      /\ StopMatchesTransition(run.mem)
  BY <1>1, LoadedLinks
<1>3. PICK p \in Sessions, k \in Sessions : p = run.sid /\ k = run.kidSid
  BY <1>1, <1>2
<1>4. /\ LineageDepth(p) < MaxLineage /\ run.mem.child = Nil /\ run.mem.replan = run.dec
      /\ NamedChild(p, k)
  BY <1>1, <1>3 DEF LinkInv, CallLinks, Creating
<1>5. c \in Blobs /\ Links(c) = <<run.mem.parent, run.mem.via, k, run.mem.replan>>
      /\ c.stop = run.mem.stop /\ c.used = run.mem.used /\ c.reserved = run.mem.reserved
  <2>1. c \in Blobs
    BY <1>1, <1>2, FieldWrites
  <2>2. DOMAIN c = DOMAIN run.mem
    OBVIOUS
  <2> QED
    BY <1>2, <1>3, <2>1 DEF Links, Blobs
<1> HIDE DEF c
<1>6. b \in Blobs /\ Links(b) = <<run.mem.parent, run.mem.via, k, run.mem.replan>>
      /\ b.stop = run.mem.stop /\ b.used = run.mem.used /\ b.reserved = run.mem.reserved
  BY <1>5, Updates, LinkUpdates DEF Core
<1>7. Save(b) /\ run' = IdleRun
  BY DEF LinkReplacement, c
<1> HIDE DEF b
<1>8. /\ b.parent = run.mem.parent /\ b.via = run.mem.via /\ b.child = k
      /\ b.replan = run.mem.replan /\ StopMatchesTransition(b)
  BY <1>2, <1>6 DEF Links, StopMatchesTransition
<1>9. run.mem.used <= b.used /\ run.mem.reserved <= b.reserved
  BY <1>2, <1>6 DEF Blobs
<1>10. Steady
  BY <1>1, <1>4, <1>6, <1>7, <1>8, <1>9, SavedSteady
<1>11. Loadable(p)' /\ LineageDepth(p)' = LineageDepth(p) /\ Lineage(p)' = Lineage(p)
  BY <1>2, <1>3, <1>10, LoadableStays
<1>12. blob'[p] = b /\ \A a \in Sessions : a # p => blob'[a] = blob[a]
  BY <1>2, <1>3, <1>7 DEF Save
<1>13. k # p
  <2>1. blob[k] # Nil /\ blob[k].parent = p /\ p # Nil
    BY <1>4, NilAssumption DEF NamedChild
  <2>2. p < k
    BY <2>1 DEF KinInv, StoreKin
  <2> QED
    BY <2>2 DEF Sessions
<1>14. /\ blob'[k] = blob[k] /\ blob[k] # Nil /\ blob[k].parent = p /\ blob[k].via = run.dec
       /\ b.used <= blob[k].used /\ b.reserved <= blob[k].reserved
  BY <1>2, <1>3, <1>4, <1>6, <1>12, <1>13 DEF NamedChild, Links
<1>15. Lineage(k)' = {k} \cup Lineage(p)' /\ LineageDepth(k)' = LineageDepth(p)' + 1
  BY <1>14, ChildLineage
<1>16. b # Nil /\ run.dec # Nil /\ p # Nil
  BY <1>1, <1>6, NilAssumption
<1>17. LinkHolds(k)'
  BY <1>4, <1>8, <1>12, <1>14, <1>16 DEF LinkHolds, StopMatchesTransition
<1>18. Loadable(k)'
  <2>1. LineageDepth(p) + 1 <= MaxLineage
    <3>1. LineageDepth(p) \in Int
      <4>1. Chain(MaxSessions, Parents, p, Lineage(p))
        BY LineageIsChain DEF KinInv
      <4>2. Lineage(p) \subseteq 1..p /\ IsFiniteSet(1..p)
        BY <4>1, FS_Interval DEF Chain, Sessions
      <4>3. Cardinality(Lineage(p)) \in Nat
        BY <4>2, FS_Subset, FS_CardinalityType
      <4> QED
        BY <4>3 DEF LineageDepth
    <3> QED
      BY <1>4, <3>1, BoundsAssumption
  <2>2. LineageDepth(k)' <= MaxLineage
    BY <1>11, <1>15, <2>1
  <2>3. \A a \in Lineage(k)' : blob'[a] # Nil /\ LinkHolds(a)'
    BY <1>11, <1>14, <1>15, <1>17 DEF Loadable
  <2>4. blob'[k] # Nil /\ StopMatchesTransition(blob'[k])
    BY <1>14 DEF LinkInv, LinksFit
  <2> QED
    BY <2>2, <2>3, <2>4 DEF Loadable
<1>19. LinksFit'
  <2> SUFFICES ASSUME NEW q \in Sessions, blob'[q] # Nil
               PROVE  (/\ StopMatchesTransition(blob[q])
                       /\ blob[q].child # Nil =>
                             blob[q].replan # Nil /\ NamedChild(q, blob[q].child) /\ Loadable(blob[q].child))'
    BY DEF LinksFit
  <2>1. CASE q = p
    <3>1. NamedChild(p, k)'
      BY <1>4, <1>8, <1>12, <1>14 DEF NamedChild
    <3> QED
      BY <1>4, <1>8, <1>12, <1>16, <1>18, <2>1, <3>1
  <2>2. CASE q # p
    <3>1. blob'[q] = blob[q] /\ blob[q] # Nil
      BY <1>12, <2>2
    <3>2. StopMatchesTransition(blob'[q])
      BY <3>1 DEF LinkInv, LinksFit
    <3>3. CASE blob[q].child = Nil
      BY <3>1, <3>2, <3>3
    <3>4. CASE blob[q].child # Nil
      <4>1. PICK d \in Sessions : d = blob[q].child
        BY <1>2, <3>1, <3>4 DEF Blobs
      <4>2. blob[q].replan # Nil /\ NamedChild(q, d) /\ Loadable(d)
        BY <3>1, <3>4, <4>1 DEF LinkInv, LinksFit
      <4>3. Loadable(d)'
        BY <1>10, <4>2, LoadableStays
      <4>4. NamedChild(q, d)'
        <5>1. /\ blob'[d] # Nil /\ blob'[d].parent = blob[d].parent /\ blob'[d].via = blob[d].via
              /\ blob[d].used <= blob'[d].used /\ blob[d].reserved <= blob'[d].reserved
              /\ blob[d] \in Blobs /\ blob'[d] \in Blobs /\ blob[q] \in Blobs
          BY <1>2, <1>10, <3>1, <4>2 DEF Steady, NamedChild, KinInv, TypeOK
        <5>2. blob[q].used <= blob'[d].used /\ blob[q].reserved <= blob'[d].reserved
          BY <4>2, <5>1 DEF NamedChild, Blobs
        <5> QED
          BY <3>1, <4>2, <5>1, <5>2 DEF NamedChild
      <4> QED
        BY <3>1, <3>2, <4>1, <4>2, <4>3, <4>4
    <3> QED
      BY <3>3, <3>4
  <2> QED
    BY <2>1, <2>2
<1>20. run'.pc = "idle" /\ run'.op = Nil /\ Nil # "start"
  BY <1>7, NilAssumption DEF IdleRun, Ops
<1> QED
  BY <1>10, <1>19, <1>20 DEF LinksStep, LinkInv, CallLinks, Started

\* Every step keeps the links, when a stopped mission is not stopped again.
LEMMA LinksNext ==
    ASSUME RunnerInv, KinInv, LinkInv, [Next]_vars, RepeatStop = FALSE
    PROVE  KinInv' /\ LinksStep
<1>1. KinInv'
  BY CallKeepsKin
<1>2. CASE UNCHANGED vars
  <2>1. blob' = blob /\ rows' = rows /\ srow' = srow /\ held' = held /\ run' = run
    BY <1>2 DEF vars
  <2>2. Steady /\ LinksFit'
    BY <1>1, <2>1, NothingSaved DEF LinkInv
  <2>3. ASSUME Started PROVE Loadable(run.sid)' /\ LineageDepth(run.sid)' = LineageDepth(run.sid)
    <3>1. PICK t \in Sessions : t = run.sid /\ Loadable(t)
      BY <2>3, LoadedLinks
    <3>2. Loadable(t)' /\ LineageDepth(t)' = LineageDepth(t)
      BY <1>1, <2>2, <3>1, LoadableStays
    <3>3. t = run'.sid
      BY <2>1, <3>1
    <3> QED
      BY <2>1, <3>1, <3>2, <3>3
  <2>4. CallLinks'
    BY <2>1, <2>3 DEF LinkInv, CallLinks, Started, NamedChild
  <2> QED
    BY <1>1, <2>1, <2>2, <2>4 DEF LinksStep, LinkInv
<1>3. CASE Fits
  BY <1>1, <1>3, OrdinaryLinks
<1> QED
  BY <1>1, <1>2, <1>3, StepKinds, StartLinks, CreateSessionLinks, SavePlanLinks,
     SaveTaskStateLinks, LinkReplacementLinks, StopCoreLinks, ReplanCoreLinks

\* Before anything was started there are no links.
LEMMA LinksInit == Init => LinkInv
<1> SUFFICES ASSUME Init PROVE LinkInv
  OBVIOUS
<1>1. run.pc = "idle" /\ run.op = Nil /\ Nil # "start" /\ \A p \in Sessions : blob[p] = Nil
  BY NilAssumption DEF Init, IdleRun, Ops
<1> QED
  BY <1>1 DEF LinkInv, LinksFit, CallLinks, Started

\* KinInv: whatever a call does or a crash leaves behind, sessions come into
\* being in order, a parent before its child, one root to a mission, and a
\* call works on a saved session under the parent that its document names.
THEOREM KinshipHolds == Spec => []KinInv
<1>1. KinInv /\ [Next]_vars => KinInv'
  BY CallKeepsKin
<1> QED
  BY <1>1, InitKin, PTL DEF Spec

\* LoadableForever: no durable write of any call, no crash between two of them
\* and no legal command cuts an operator off from a session that could be
\* loaded, for lineages of any length, provided a mission that is stopped is
\* not stopped again (stop_core lets that through, and then overwrites the
\* decision that the transition is bound to).
THEOREM LoadableStaysForever ==
    ASSUME RepeatStop = FALSE
    PROVE  Spec => LoadableForever
<1>1. RunnerInv /\ KinInv /\ LinkInv /\ [Next]_vars => LinkInv'
  BY LinksNext DEF LinksStep
<1>2. Spec => []LinkInv
  BY <1>1, LinksInit, RunnerInvariantHolds, KinshipHolds, PTL DEF Spec
<1>3. RunnerInv /\ KinInv /\ LinkInv /\ [Next]_vars =>
        [\A s \in Sessions :
           \/ Loadable(s)
           \/ \E p \in Sessions : blob'[p] # Nil /\ blob'[p].child = s
           => Loadable(s)']_vars
  <2> SUFFICES ASSUME RunnerInv, KinInv, LinkInv, [Next]_vars, NEW s \in Sessions,
                      \/ Loadable(s)
                      \/ \E p \in Sessions : blob'[p] # Nil /\ blob'[p].child = s
               PROVE  Loadable(s)'
    OBVIOUS
  <2>1. KinInv' /\ Steady /\ LinksFit'
    BY LinksNext DEF LinksStep, LinkInv
  <2>2. CASE Loadable(s)
    BY <2>1, <2>2, LoadableStays
  <2>3. ASSUME NEW p \in Sessions, blob'[p] # Nil, blob'[p].child = s PROVE Loadable(s)'
    <3>1. s # Nil
      BY NilAssumption
    <3> QED
      BY <2>1, <2>3, <3>1 DEF LinksFit
  <2> QED
    BY <2>2, <2>3
<1> QED
  BY <1>2, <1>3, RunnerInvariantHolds, KinshipHolds, PTL DEF Spec, LoadableForever

=============================================================================
