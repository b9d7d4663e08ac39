---------------------------- MODULE StageProofs ----------------------------
(***************************************************************************)
(* LoopInv is inductive, and what follows from it, for every set of goals, *)
(* every gate and every limit, with or without a reviewer.  The executors  *)
(* of active stages make the steps of the tool-use loop and no others, and *)
(* StageInv is inductive beside the loop's own invariant; so, for any      *)
(* gate, limits and number of calls, a stage is completed only on proof    *)
(* and the operator's mode is back when it has ended.                      *)
(***************************************************************************)
EXTENDS StageInvariant, SequenceTheorems, FiniteSetTheorems, TLAPS

-----------------------------------------------------------------------------
(* The tool-use loop.                                                        *)

\* A new task state has the type of one.
LEMMA NewTaskType == ASSUME NEW g \in Goals PROVE NewTask(g) \in TaskState
  BY DEF NewTask, TaskState, Statuses

\* So has one to which an action is added.
LEMMA WithActionType ==
    ASSUME NEW t \in TaskState
    PROVE  /\ WithAction(t) \in TaskState
           /\ WithAction(t).acts = t.acts + 1
           /\ \A f \in {"goal", "status", "seen", "good", "linked", "proven"} :
                 WithAction(t)[f] = t[f]
  BY DEF WithAction, TaskState

\* An observation adds one to seen and what it brings to the other counts.
LEMMA WithObservationType ==
    ASSUME NEW t \in TaskState, NEW s \in {0, 1}, NEW e \in {0, 1}
    PROVE  LET u == WithObservation(t, s, e) IN
           /\ u \in TaskState
           /\ u.seen = t.seen + 1 /\ u.good = t.good + s /\ u.linked = t.linked + e
           /\ u.proven = t.proven + (IF s = 1 THEN e ELSE 0)
           /\ u.goal = t.goal /\ u.status = t.status /\ u.acts = t.acts
<1> DEFINE u == WithObservation(t, s, e)
<1>1. PICK n1 \in Nat, n2 \in Nat, n3 \in Nat, n4 \in Nat :
        /\ n1 = t.seen + 1 /\ n2 = t.good + s /\ n3 = t.linked + e
        /\ n4 = t.proven + (IF s = 1 THEN e ELSE 0)
  BY DEF TaskState
<1>2. u = [t EXCEPT !.seen = n1, !.good = n2, !.linked = n3, !.proven = n4]
  BY <1>1 DEF WithObservation
<1> HIDE DEF u
<1>3. u \in TaskState BY <1>2 DEF TaskState
<1>4. u.seen = n1 /\ u.good = n2 /\ u.linked = n3 /\ u.proven = n4 BY <1>2 DEF TaskState
<1>5. u.goal = t.goal /\ u.status = t.status /\ u.acts = t.acts BY <1>2 DEF TaskState
<1>6. QED BY <1>1, <1>3, <1>4, <1>5 DEF u

\* A status is set and nothing else.
LEMMA MarkType ==
    ASSUME NEW t \in TaskState, NEW st \in Statuses
    PROVE  /\ Mark(t, st) \in TaskState /\ Mark(t, st).status = st
           /\ Mark(t, st).acts = t.acts /\ Mark(t, st).seen = t.seen /\ Mark(t, st).good = t.good
           /\ Mark(t, st).linked = t.linked /\ Mark(t, st).proven = t.proven
  BY DEF Mark, TaskState

\* A loop that has ended has the type of a frame.
LEMMA EndedType ==
    ASSUME NEW st \in Stops
    PROVE  Ended(st) \in Frames /\ Ended(st).pc = "idle" /\ Ended(st).stopped = st
  BY LoopAssumption DEF Ended, Frames

\* A step whose task and frame are well-formed keeps the invariant, whether its
\* checkpoint is written or raises, if the new frame fits the new task.
LEMMA CheckpointKeepsInv ==
    ASSUME LoopInv, NEW t \in TaskState, NEW l \in Frames, SaveCheckpoint(t, l),
           runs' \in Nat,
           l.pc # "idle" => /\ t.status = "investigating"
                            /\ l.stopped = "none"
                            /\ Stage => t.good = t.seen /\ t.proven = t.linked,
           l.pc = "think" => t.acts = t.seen,
           l.pc \in {"invoke", "reject"} => t.acts = t.seen + 1,
           l.stopped = "final" => t.status = "complete",
           l.stopped = "verification_failed" => t.status = "blocked",
           Stage => /\ l.stopped = "final" =>
                          /\ t.good >= MinSuccess
                          /\ RequireEvidence => t.proven >= 1
                          /\ t.good = t.acts
                    /\ t.seen - t.good <= 1
                    /\ t.seen > t.good => l.pc = "idle" /\ t.acts = t.seen
                    /\ l.stopped \in {"action_failed", "verification_failed", "budget"} =>
                          t.status = "blocked"
    PROVE  LoopInv'
<1>1. CASE disk' = (IF Stage THEN disk ELSE t) /\ loop' = l /\ task' = t
  <2>1. TypeOK' BY <1>1 DEF LoopInv, TypeOK
  <2>2. RecordsFollowLoop' BY <1>1, NilAssumption DEF RecordsFollowLoop
  <2>3. RunIsSaved' BY <1>1 DEF RunIsSaved
  <2>4. StageIsClean' BY <1>1 DEF StageIsClean
  <2>5. EndingsAgree'
    <3>1. EndIsSaved' BY <1>1 DEF EndIsSaved
    <3>2. FinalPassesGate' BY <1>1 DEF FinalPassesGate
    <3>3. StageStopsBlocked' BY <1>1 DEF StageStopsBlocked
    <3>4. QED BY <3>1, <3>2, <3>3 DEF EndingsAgree
  <2>6. QED BY <2>1, <2>2, <2>3, <2>4, <2>5 DEF LoopInv
<1>2. CASE ~ Stage /\ disk' = disk /\ loop' = Ended("raised") /\ task' = t
  <2>1. /\ loop' \in Frames /\ loop'.pc = "idle" /\ loop'.stopped = "raised"
    BY <1>2, EndedType DEF Stops
  <2>2. TypeOK' BY <1>2, <2>1 DEF LoopInv, TypeOK
  <2>3. RecordsFollowLoop' /\ RunIsSaved' /\ StageIsClean'
    BY <2>1 DEF RecordsFollowLoop, RunIsSaved, StageIsClean
  <2>4. EndingsAgree'
    BY <1>2, <2>1 DEF EndingsAgree, EndIsSaved, FinalPassesGate, StageStopsBlocked
  <2>5. QED BY <2>2, <2>3, <2>4 DEF LoopInv
<1>3. QED BY <1>1, <1>2 DEF SaveCheckpoint

\* Where the loop is, the task is a task state.
LEMMA RunningTask ==
    ASSUME LoopInv, loop.pc # "idle"
    PROVE  /\ task \in TaskState /\ task.status = "investigating"
           /\ loop \in Frames /\ loop.stopped = "none"
           /\ task.acts \in Nat /\ task.seen \in Nat /\ task.good \in Nat
           /\ task.linked \in Nat /\ task.proven \in Nat
           /\ loop.pc = "think" => task.acts = task.seen
           /\ loop.pc \in {"invoke", "reject"} => task.acts = task.seen + 1
           /\ Stage => task.good = task.seen /\ task.proven = task.linked
<1>1. task \in TaskState BY DEF LoopInv, TypeOK, RecordsFollowLoop
<1>2. QED BY <1>1 DEF LoopInv, TypeOK, RecordsFollowLoop, StageIsClean, TaskState

\* A frame that goes on.
LEMMA FrameGoesOn ==
    ASSUME LoopInv, NEW pc \in {"think", "invoke", "reject"}
    PROVE  /\ [loop EXCEPT !.pc = pc] \in Frames
           /\ [loop EXCEPT !.pc = pc].pc = pc
           /\ [loop EXCEPT !.pc = pc].stopped = loop.stopped
           /\ loop.left > 0 =>
                 /\ [loop EXCEPT !.pc = pc, !.left = @ - 1] \in Frames
                 /\ [loop EXCEPT !.pc = pc, !.left = @ - 1].pc = pc
                 /\ [loop EXCEPT !.pc = pc, !.left = @ - 1].stopped = loop.stopped
<1>1. loop \in Frames BY DEF LoopInv, TypeOK
<1>2. /\ [loop EXCEPT !.pc = pc] \in Frames
      /\ [loop EXCEPT !.pc = pc].pc = pc
      /\ [loop EXCEPT !.pc = pc].stopped = loop.stopped
  BY <1>1 DEF Frames
<1>3. ASSUME loop.left > 0
      PROVE  /\ [loop EXCEPT !.pc = pc, !.left = @ - 1] \in Frames
             /\ [loop EXCEPT !.pc = pc, !.left = @ - 1].pc = pc
             /\ [loop EXCEPT !.pc = pc, !.left = @ - 1].stopped = loop.stopped
  <2>1. loop.left - 1 \in 0..MaxSteps BY <1>1, <1>3, LoopAssumption DEF Frames
  <2>2. QED BY <1>1, <2>1 DEF Frames
<1>4. QED BY <1>2, <1>3

\* A frame that replans.
LEMMA FrameReplans ==
    ASSUME LoopInv, loop.left > 0, loop.replans < MaxReplans
    PROVE  LET l == [loop EXCEPT !.left = @ - 1, !.replans = @ + 1] IN
           l \in Frames /\ l.pc = loop.pc /\ l.stopped = loop.stopped
<1>1. loop \in Frames BY DEF LoopInv, TypeOK
<1>2. loop.left - 1 \in 0..MaxSteps BY <1>1, LoopAssumption DEF Frames
<1>3. loop.replans + 1 \in 0..MaxReplans BY <1>1, LoopAssumption DEF Frames
<1>4. QED BY <1>1, <1>2, <1>3 DEF Frames

\* A run begins from a settled task, new or resumed.
LEMMA BeginKeepsInv == ASSUME LoopInv, NEW g \in Goals, Begin(g) PROVE LoopInv'
<1> DEFINE t == IF Resumable(g) THEN disk ELSE NewTask(g)
           l == [pc |-> "think", left |-> MaxSteps, replans |-> 0, stopped |-> "none"]
<1>1. l \in Frames /\ l.pc = "think" /\ l.stopped = "none"
  BY LoopAssumption DEF Frames, Stops
<1>2. t \in TaskState /\ t.acts = t.seen /\ t.status = "investigating"
  <2>1. CASE Resumable(g)
    BY <2>1 DEF Begin, Balanced, Resumable, LoopInv, TypeOK
  <2>2. CASE ~ Resumable(g)
    BY <2>2, NewTaskType DEF NewTask
  <2>3. QED BY <2>1, <2>2
<1>3. Stage => t.good = 0 /\ t.seen = 0 /\ t.proven = 0 /\ t.linked = 0
  BY DEF Resumable, NewTask
<1>4. SaveCheckpoint(t, l) BY DEF Begin
<1>5. runs' \in Nat BY DEF Begin, LoopInv, TypeOK
<1> HIDE DEF t, l
<1>6. QED BY <1>1, <1>2, <1>3, <1>4, <1>5, CheckpointKeepsInv

\* An action is recorded and checkpointed before it is carried out.
LEMMA CallKeepsInv ==
    ASSUME LoopInv, NEW then \in {"invoke", "reject"}, Call(then) PROVE LoopInv'
<1> DEFINE t == WithAction(task)
           l == [loop EXCEPT !.pc = then, !.left = @ - 1]
<1>1. loop.pc = "think" /\ loop.left > 0 /\ SaveCheckpoint(t, l) /\ runs' \in Nat
  BY DEF Call, LoopInv, TypeOK
<1>2. l \in Frames /\ l.pc = then /\ l.stopped = "none"
  BY <1>1, FrameGoesOn, RunningTask
<1>3. /\ t \in TaskState /\ t.acts = task.acts + 1 /\ t.status = "investigating"
      /\ t.seen = task.seen /\ t.good = task.good
      /\ t.linked = task.linked /\ t.proven = task.proven
  BY <1>1, RunningTask, WithActionType
<1>4. /\ t.acts = t.seen + 1
      /\ Stage => t.good = t.seen /\ t.proven = t.linked /\ t.seen - t.good <= 1 /\ ~ (t.seen > t.good)
  BY <1>1, <1>3, RunningTask
<1> HIDE DEF t, l
<1>5. QED BY <1>1, <1>2, <1>3, <1>4, CheckpointKeepsInv

\* Its observation is recorded; a failed one ends a stage.
LEMMA ObservedKeepsInv ==
    ASSUME LoopInv, NEW s \in {0, 1}, NEW e \in {0, 1},
           loop.pc \in {"invoke", "reject"}, Observed(s, e)
    PROVE  LoopInv'
<1> DEFINE u == WithObservation(task, s, e)
<1>1. /\ u \in TaskState /\ u.acts = task.acts /\ u.seen = task.seen + 1
      /\ u.good = task.good + s /\ u.linked = task.linked + e
      /\ u.proven = task.proven + (IF s = 1 THEN e ELSE 0) /\ u.status = "investigating"
  BY RunningTask, WithObservationType
<1>2. /\ u.acts = u.seen
      /\ Stage => u.seen - u.good <= 1
      /\ Stage /\ s = 1 => u.good = u.seen /\ u.proven = u.linked /\ ~ (u.seen > u.good)
  BY <1>1, RunningTask
<1>3. runs' \in Nat BY DEF Observed, LoopInv, TypeOK
<1> DEFINE b == Mark(u, "blocked")
           f == Ended("action_failed")
           l == [loop EXCEPT !.pc = "think"]
<1>4. /\ Stage /\ s = 0 => SaveCheckpoint(b, f)
      /\ ~ (Stage /\ s = 0) => SaveCheckpoint(u, l)
  BY DEF Observed
<1>5. l \in Frames /\ l.pc = "think" /\ l.stopped = "none"
  BY FrameGoesOn, RunningTask
<1>6. f \in Frames /\ f.pc = "idle" /\ f.stopped = "action_failed"
  BY EndedType DEF Stops
<1>7. /\ b \in TaskState /\ b.status = "blocked"
      /\ b.acts = u.acts /\ b.seen = u.seen /\ b.good = u.good
  BY <1>1, MarkType DEF Statuses
<1> HIDE DEF u, b, f, l
<1>8. CASE Stage /\ s = 0
  BY <1>2, <1>3, <1>4, <1>6, <1>7, <1>8, CheckpointKeepsInv
<1>9. CASE ~ (Stage /\ s = 0)
  <2>1. Stage => s = 1 BY <1>9
  <2>2. QED BY <1>1, <1>2, <1>3, <1>4, <1>5, <1>9, <2>1, CheckpointKeepsInv
<1>10. QED BY <1>8, <1>9

\* The verifier accepts.
LEMMA CompleteKeepsInv == ASSUME LoopInv, Complete PROVE LoopInv'
<1> DEFINE t == Mark(task, "complete")
           l == Ended("final")
<1>1. loop.pc = "think" /\ SaveCheckpoint(t, l) /\ runs' \in Nat /\ TRUE \in Verdicts(task)
  BY DEF Complete, LoopInv, TypeOK
<1>2. l \in Frames /\ l.pc = "idle" /\ l.stopped = "final"
  BY EndedType DEF Stops
<1>3. /\ t \in TaskState /\ t.status = "complete" /\ t.acts = task.acts /\ t.seen = task.seen
      /\ t.good = task.good /\ t.linked = task.linked /\ t.proven = task.proven
  BY <1>1, RunningTask, MarkType DEF Statuses
<1>4. ConditionsMet(task) BY <1>1 DEF Verdicts
<1>5. Stage => /\ t.good >= MinSuccess /\ (RequireEvidence => t.proven >= 1) /\ t.good = t.acts
               /\ t.seen - t.good <= 1 /\ ~ (t.seen > t.good)
  BY <1>1, <1>3, <1>4, RunningTask DEF ConditionsMet
<1> HIDE DEF t, l
<1>6. QED BY <1>1, <1>2, <1>3, <1>5, CheckpointKeepsInv

\* The verifier refuses and the loop goes on.
LEMMA ReplanKeepsInv == ASSUME LoopInv, Replan PROVE LoopInv'
<1> DEFINE t == Mark(task, "investigating")
           l == [loop EXCEPT !.left = @ - 1, !.replans = @ + 1]
<1>1. /\ loop.pc = "think" /\ loop.left > 0 /\ loop.replans < MaxReplans
      /\ SaveCheckpoint(t, l) /\ runs' \in Nat
  BY DEF Replan, LoopInv, TypeOK
<1>2. l \in Frames /\ l.pc = "think" /\ l.stopped = "none"
  BY <1>1, FrameReplans, RunningTask
<1>3. /\ t \in TaskState /\ t.status = "investigating" /\ t.acts = task.acts /\ t.seen = task.seen
      /\ t.good = task.good /\ t.linked = task.linked /\ t.proven = task.proven
  BY <1>1, RunningTask, MarkType DEF Statuses
<1>4. /\ t.acts = t.seen
      /\ Stage => t.good = t.seen /\ t.proven = t.linked /\ t.seen - t.good <= 1 /\ ~ (t.seen > t.good)
  BY <1>1, <1>3, RunningTask
<1> HIDE DEF t, l
<1>5. QED BY <1>1, <1>2, <1>3, <1>4, CheckpointKeepsInv

\* The verifier refuses for the last time.
LEMMA GiveUpKeepsInv == ASSUME LoopInv, GiveUp PROVE LoopInv'
<1> DEFINE t == Mark(task, "blocked")
           l == Ended("verification_failed")
<1>1. loop.pc = "think" /\ SaveCheckpoint(t, l) /\ runs' \in Nat
  BY DEF GiveUp, LoopInv, TypeOK
<1>2. l \in Frames /\ l.pc = "idle" /\ l.stopped = "verification_failed"
  BY EndedType DEF Stops
<1>3. /\ t \in TaskState /\ t.status = "blocked" /\ t.acts = task.acts /\ t.seen = task.seen
      /\ t.good = task.good
  BY <1>1, RunningTask, MarkType DEF Statuses
<1>4. Stage => t.seen - t.good <= 1 /\ ~ (t.seen > t.good)
  BY <1>1, <1>3, RunningTask
<1> HIDE DEF t, l
<1>5. QED BY <1>1, <1>2, <1>3, <1>4, CheckpointKeepsInv

\* The step budget is used up.
LEMMA ExhaustKeepsInv == ASSUME LoopInv, Exhaust PROVE LoopInv'
<1> DEFINE b == Mark(task, "blocked")
<1>1. /\ loop.pc = "think" /\ loop' = Ended("budget") /\ disk' = disk /\ runs' = runs
      /\ task' = IF Stage THEN b ELSE task
  BY DEF Exhaust
<1>2. loop' \in Frames /\ loop'.pc = "idle" /\ loop'.stopped = "budget"
  BY <1>1, EndedType DEF Stops
<1>3. /\ b \in TaskState /\ b.status = "blocked" /\ b.acts = task.acts /\ b.seen = task.seen
      /\ b.good = task.good
  BY <1>1, RunningTask, MarkType DEF Statuses
<1> HIDE DEF b
<1>4. TypeOK' BY <1>1, <1>2, <1>3 DEF LoopInv, TypeOK
<1>5. RecordsFollowLoop' /\ RunIsSaved' /\ StageIsClean'
  BY <1>2 DEF RecordsFollowLoop, RunIsSaved, StageIsClean
<1>6. EndingsAgree'
  BY <1>1, <1>2, <1>3, RunningTask DEF EndingsAgree, EndIsSaved, FinalPassesGate, StageStopsBlocked
<1>7. QED BY <1>4, <1>5, <1>6 DEF LoopInv

\* The steps that only end a run: the refused resume and the interruption.
LEMMA EndKeepsInv ==
    ASSUME LoopInv, NEW st \in {"refused", "interrupted"}, loop' = Ended(st),
           task' = task, disk' = disk, runs' \in Nat
    PROVE  LoopInv'
<1>1. loop' \in Frames /\ loop'.pc = "idle" /\ loop'.stopped = st
  BY EndedType DEF Stops
<1>2. TypeOK' BY <1>1 DEF LoopInv, TypeOK
<1>3. RecordsFollowLoop' /\ RunIsSaved' /\ StageIsClean'
  BY <1>1 DEF RecordsFollowLoop, RunIsSaved, StageIsClean
<1>4. EndingsAgree'
  <2>1. SUFFICES ASSUME task # Nil PROVE StageStopsBlocked'
    BY <1>1 DEF EndingsAgree, EndIsSaved, FinalPassesGate
  <2>2. QED BY <1>1, <2>1 DEF LoopInv, EndingsAgree, StageStopsBlocked
<1>5. QED BY <1>2, <1>3, <1>4 DEF LoopInv

\* The process dies: only the row is left.
LEMMA RestartKeepsInv == ASSUME LoopInv, Restart PROVE LoopInv'
<1>1. /\ loop' \in Frames /\ loop'.pc = "idle" /\ loop'.stopped = "none"
      /\ task' = Nil /\ disk' = disk /\ runs' = runs
  BY EndedType DEF Restart, Stops
<1>2. QED
  BY <1>1 DEF LoopInv, TypeOK, RecordsFollowLoop, RunIsSaved, StageIsClean, EndingsAgree

\* /checkpoint of the task of this process, or of a snapshot.
LEMMA ManualCheckpointKeepsInv == ASSUME LoopInv, ManualCheckpoint PROVE LoopInv'
<1>1. /\ loop.pc = "idle" /\ loop' = loop /\ task' = task /\ runs' = runs /\ ~ Stage
      /\ task # Nil => disk' = task
      /\ disk' \in TaskState \cup {Nil}
  BY NewTaskType, LoopAssumption DEF ManualCheckpoint, LoopInv, TypeOK
<1>2. TypeOK' BY <1>1 DEF LoopInv, TypeOK
<1>3. RecordsFollowLoop' /\ RunIsSaved' /\ StageIsClean'
  BY <1>1 DEF RecordsFollowLoop, RunIsSaved, StageIsClean
<1>4. EndingsAgree'
  BY <1>1 DEF LoopInv, EndingsAgree, EndIsSaved, FinalPassesGate, StageStopsBlocked
<1>5. QED BY <1>2, <1>3, <1>4 DEF LoopInv

\* LoopInv is inductive: every step of the loop, its callers and the operator
\* keeps the records, the row and the reported ending together.
THEOREM LoopInvariant == Spec => []LoopInv
<1>1. Init => LoopInv
  <2> SUFFICES ASSUME Init PROVE LoopInv OBVIOUS
  <2>1. loop \in Frames /\ loop.pc = "idle" /\ loop.stopped = "none"
    BY EndedType DEF Init, Stops
  <2>2. QED
    BY <2>1 DEF Init, LoopInv, TypeOK, RecordsFollowLoop, RunIsSaved, StageIsClean, EndingsAgree
<1>2. LoopInv /\ [Next]_vars => LoopInv'
  <2> SUFFICES ASSUME LoopInv, [Next]_vars PROVE LoopInv' OBVIOUS
  <2>1. ASSUME NEW g \in Goals, Begin(g) PROVE LoopInv' BY <2>1, BeginKeepsInv
  <2>2. ASSUME NEW g \in Goals, RefuseResume(g) PROVE LoopInv'
    BY <2>2, EndKeepsInv DEF RefuseResume, LoopInv, TypeOK
  <2>3. ASSUME NEW then \in {"invoke", "reject"}, Call(then) PROVE LoopInv'
    BY <2>3, CallKeepsInv
  <2>4. ASSUME NEW s \in {0, 1}, NEW e \in {0, 1}, Return(s, e) PROVE LoopInv'
    BY <2>4, ObservedKeepsInv DEF Return
  <2>5. CASE Reject BY <2>5, ObservedKeepsInv DEF Reject
  <2>6. CASE Complete BY <2>6, CompleteKeepsInv
  <2>7. CASE Replan BY <2>7, ReplanKeepsInv
  <2>8. CASE GiveUp BY <2>8, GiveUpKeepsInv
  <2>9. CASE Exhaust BY <2>9, ExhaustKeepsInv
  <2>10. CASE Interrupt BY <2>10, EndKeepsInv DEF Interrupt, LoopInv, TypeOK
  <2>11. CASE Restart BY <2>11, RestartKeepsInv
  <2>12. CASE ManualCheckpoint BY <2>12, ManualCheckpointKeepsInv
  <2>13. CASE UNCHANGED vars
    BY <2>13 DEF vars, LoopInv, TypeOK, RecordsFollowLoop, RunIsSaved, StageIsClean,
                 EndingsAgree, EndIsSaved, FinalPassesGate, StageStopsBlocked
  <2>14. QED
    BY <2>1, <2>2, <2>3, <2>4, <2>5, <2>6, <2>7, <2>8, <2>9, <2>10, <2>11, <2>12, <2>13 DEF Next
<1>3. QED BY <1>1, <1>2, PTL DEF Spec

\* No tool runs that the session's row does not show as unresolved.
THEOREM ToolsAreRecorded == Spec => []RecordedBeforeInvoked
<1>1. LoopInv => RecordedBeforeInvoked
  BY DEF LoopInv, RecordsFollowLoop, RunIsSaved, RecordedBeforeInvoked
<1>2. QED BY <1>1, LoopInvariant, PTL

\* The model goes on only from a task all of whose actions are settled.
THEOREM ModelSeesSettledTask == Spec => []AskedOnlyWhenSettled
<1>1. LoopInv => AskedOnlyWhenSettled
  BY DEF LoopInv, RecordsFollowLoop, AskedOnlyWhenSettled, Balanced
<1>2. QED BY <1>1, LoopInvariant, PTL

\* What an interactive run reports as its ending is in the session's row.
THEOREM EndingIsInRow == Spec => []EndIsSaved
<1>1. LoopInv => EndIsSaved BY DEF LoopInv, EndingsAgree, EndIsSaved
<1>2. QED BY <1>1, LoopInvariant, PTL

\* A stage's final answer passes the runner's gate, for every gate.
THEOREM FinalMeetsGate == Spec => []FinalPassesGate
<1>1. LoopInv => FinalPassesGate BY DEF LoopInv, EndingsAgree, FinalPassesGate
<1>2. QED BY <1>1, LoopInvariant, PTL

\* A stage stops at its first failure and ends blocked unless it completes.
THEOREM StageStops == Spec => []StageStopsBlocked
<1>1. LoopInv => StageStopsBlocked BY DEF LoopInv, EndingsAgree, StageStopsBlocked
<1>2. QED BY <1>1, LoopInvariant, PTL

-----------------------------------------------------------------------------
(* The executors of active stages.                                           *)

CallEnds == Refusals \cup BlockedCall \cup Endings \cup {Cancelled}

\* The last failed observation, if one failed, is well-defined.
HasLastFailed(o) == Failed(o) = {} \/ \E i \in Failed(o) : \A j \in Failed(o) : j <= i

\* What a call ends with is recorded as its status, category and evidence.
LEMMA ObservationType ==
    ASSUME NEW end \in CallEnds, NEW ev \in BOOLEAN
    PROVE  /\ Observation(end, ev) \in Observations
           /\ Observation(end, ev).status = end[1] /\ Observation(end, ev).cat = end[2]
           /\ Observation(end, ev).ok = (end[1] = "success") /\ Observation(end, ev).ev = ev
<1>1. PICK status \in {"success", "error", "timeout", "denied", "blocked", "cancelled"},
          cat \in {"", "policy_denial", "approval_rejected", "missing_dependency",
                  "telemetry_failure", "unsupported_action", "execution_failure",
                  "timeout", "cancellation"} : end = <<status, cat>>
  BY DEF CallEnds, Refusals, BlockedCall, Endings, Cancelled
<1>2. end[1] = status /\ end[2] = cat BY <1>1
<1> DEFINE ok == status = "success"
           r == [status |-> status, cat |-> cat, ok |-> ok, ev |-> ev]
<1>3. Observation(end, ev) = r BY <1>2 DEF Observation
<1>4. ok \in BOOLEAN /\ ok = (status = "success") OBVIOUS
<1> HIDE DEF ok
<1>5. r.status = status /\ r.cat = cat /\ r.ok = ok /\ r.ev = ev OBVIOUS
<1>6. r \in Observations BY <1>4, <1>5 DEF Observations
<1> HIDE DEF r
<1>7. QED BY <1>2, <1>3, <1>4, <1>5, <1>6

\* The failed ones of one more observation.
LEMMA FailedAppend ==
    ASSUME NEW o \in Seq(Observations), NEW x \in Observations
    PROVE  /\ Append(o, x) \in Seq(Observations) /\ Len(Append(o, x)) = Len(o) + 1
           /\ \A i \in 1..Len(o) : Append(o, x)[i] = o[i]
           /\ Append(o, x)[Len(o) + 1] = x
           /\ Failed(Append(o, x)) =
                 IF x.ok THEN Failed(o) ELSE Failed(o) \cup {Len(o) + 1}
           /\ Failed(o) \subseteq 1..Len(o)
<1>1. /\ Append(o, x) \in Seq(Observations) /\ Len(Append(o, x)) = Len(o) + 1
      /\ \A i \in 1..Len(o) : Append(o, x)[i] = o[i]
      /\ Append(o, x)[Len(o) + 1] = x
  BY AppendProperties
<1>2. /\ DOMAIN o = 1..Len(o) /\ DOMAIN Append(o, x) = 1..(Len(o) + 1) /\ Len(o) \in Nat
  BY <1>1, LenProperties
<1>3. \A i : i \in 1..(Len(o) + 1) <=> i \in 1..Len(o) \/ i = Len(o) + 1 BY <1>2
<1>4. \A i : i \in 1..Len(o) => i # Len(o) + 1 BY <1>2
<1>5. QED BY <1>1, <1>2, <1>3, <1>4 DEF Failed

\* One more observation leaves a last failed one if there was one.
LEMMA LastFailedAppend ==
    ASSUME NEW o \in Seq(Observations), NEW x \in Observations, HasLastFailed(o)
    PROVE  HasLastFailed(Append(o, x))
<1>1. Len(o) \in Nat /\ \A i \in Failed(o) : i \in Nat /\ i <= Len(o)
  BY FailedAppend, LenProperties
<1>2. CASE x.ok BY <1>2, FailedAppend DEF HasLastFailed
<1>3. CASE ~ x.ok BY <1>1, <1>3, FailedAppend DEF HasLastFailed
<1>4. QED BY <1>2, <1>3

\* Where all have failed, and where only the last has.
LEMMA LastFailedOf ==
    ASSUME NEW o \in Seq(Observations),
           (\A i \in DOMAIN o : ~ o[i].ok) \/ Failed(o) \subseteq {Len(o)}
    PROVE  HasLastFailed(o)
<1>1. DOMAIN o = 1..Len(o) /\ Len(o) \in Nat BY LenProperties
<1>2. CASE \A i \in DOMAIN o : ~ o[i].ok
  <2>1. Failed(o) = 1..Len(o) BY <1>1, <1>2 DEF Failed
  <2>2. CASE Len(o) = 0 BY <2>1, <2>2 DEF HasLastFailed
  <2>3. CASE Len(o) # 0
    <3>1. Len(o) \in Failed(o) /\ \A j \in Failed(o) : j <= Len(o) BY <1>1, <2>1, <2>3
    <3>2. QED BY <3>1 DEF HasLastFailed
  <2>4. QED BY <2>2, <2>3
<1>3. CASE Failed(o) \subseteq {Len(o)} BY <1>1, <1>3 DEF HasLastFailed
<1>4. QED BY <1>2, <1>3

\* _classify_escalation gives a kind and points to an observation there is.
LEMMA EscalationType ==
    ASSUME NEW o \in Seq(Observations), HasLastFailed(o),
           NEW outcome, NEW override \in EscalationKinds \cup {Nil}
    PROVE  /\ outcome = "completed" => Escalation(outcome, o, override) = Nil
           /\ outcome # "completed" =>
                 /\ Escalation(outcome, o, override) \in Escalations
                 /\ Escalation(outcome, o, override) # Nil
                 /\ Escalation(outcome, o, override).ref \in {0} \cup DOMAIN o
<1> DEFINE ref == IF Failed(o) = {} THEN 0 ELSE LastFailed(o)
           last == o[ref]
           kind == CASE override # Nil -> override
                     [] ref = 0 -> CASE outcome = "needs_replan" -> "verification"
                                     [] outcome = "blocked" -> "budget"
                                     [] OTHER -> "execution"
                     [] last.cat \in {"approval_required", "approval_rejected",
                                      "approval_invalid", "approval_expired"} -> "approval"
                     [] last.cat = "policy_denial" \/ last.status = "denied" -> "policy"
                     [] last.cat = "missing_dependency" -> "dependency"
                     [] last.cat = "telemetry_failure" -> "safety"
                     [] last.cat = "cancellation" -> "cancellation"
                     [] last.cat = "timeout" -> "timeout"
                     [] OTHER -> "execution"
<1>1. ref \in {0} \cup DOMAIN o
  <2>1. CASE Failed(o) = {} BY <2>1
  <2>2. CASE Failed(o) # {}
    <3>1. \E i \in Failed(o) : \A j \in Failed(o) : j <= i BY <2>2 DEF HasLastFailed
    <3>2. LastFailed(o) \in Failed(o) BY <3>1 DEF LastFailed
    <3>3. QED BY <3>2 DEF Failed
  <2>3. QED BY <2>1, <2>2
<1>2. ref \in Nat BY <1>1, LenProperties
<1>3. Escalation(outcome, o, override) =
         IF outcome = "completed" THEN Nil ELSE [kind |-> kind, ref |-> ref]
  BY DEF Escalation
<1> HIDE DEF ref, last
<1>4. kind \in EscalationKinds BY DEF EscalationKinds
<1> HIDE DEF kind
<1>5. [kind |-> kind, ref |-> ref] \in Escalations BY <1>2, <1>4 DEF Escalations
<1>6. QED BY <1>1, <1>3, <1>5, StageNilAssumption DEF Escalations

\* So many attempts as observations cover those that were not blocked.
LEMMA AttemptsCover ==
    ASSUME NEW o \in Seq(Observations), NEW n \in Nat, Len(o) <= n
    PROVE  n >= Cardinality({i \in DOMAIN o : o[i].status # "blocked"})
<1> DEFINE S == {i \in DOMAIN o : o[i].status # "blocked"}
<1>1. DOMAIN o = 1..Len(o) /\ Len(o) \in Nat BY LenProperties
<1>2. S \in SUBSET (1..Len(o)) BY <1>1
<1>3. /\ IsFiniteSet(1..Len(o))
      /\ Cardinality(1..Len(o)) = IF 1 > Len(o) THEN 0 ELSE Len(o) - 1 + 1
  <2>1. 1 \in Int /\ Len(o) \in Int BY <1>1
  <2>2. QED BY <2>1, FS_Interval
<1>4. Cardinality(1..Len(o)) = Len(o) BY <1>1, <1>3
<1>5. IsFiniteSet(S) /\ Cardinality(S) <= Cardinality(1..Len(o)) BY <1>2, <1>3, FS_Subset
<1>6. Cardinality(S) \in Nat BY <1>5, FS_CardinalityType
<1> HIDE DEF S
<1>7. n >= Cardinality(S) BY <1>1, <1>4, <1>5, <1>6
<1>8. QED BY <1>7 DEF S

\* ActiveStageRuntime.finish hands over a valid record when its attempts cover
\* its observations, and completes only on proof.
LEMMA HandoffType ==
    ASSUME NEW o \in Seq(Observations), HasLastFailed(o), NEW n \in Nat, Len(o) <= n,
           NEW outcome \in {"completed", "needs_replan", "blocked", "failed"},
           NEW final \in BOOLEAN, NEW override \in EscalationKinds \cup {Nil}
    PROVE  LET h == Handoff(outcome, final, o, n, override) IN
           /\ h \in StageResults /\ h.outcome # "raised" /\ h.obs = o
           /\ h.outcome = "completed" =>
                 /\ outcome = "completed" /\ "envelope" \notin moved /\ h.esc = Nil
                 /\ Protected(o) /\ Successes(o) >= MinSuccess
<1> DEFINE same == "envelope" \notin moved
           first == IF same THEN outcome ELSE "blocked"
           cause == IF same THEN override ELSE "material_change"
           ok == GateCheck(first = "completed", final, o) /\ Protected(o)
           out == IF first = "completed" /\ ~ ok THEN "needs_replan" ELSE first
           h == [outcome |-> out, gate |-> ok, attempts |-> n, obs |-> o,
                 esc |-> Escalation(out, o, cause)]
<1>1. Handoff(outcome, final, o, n, override) = Returned(h) BY DEF Handoff
<1>2. cause \in EscalationKinds \cup {Nil} BY DEF EscalationKinds
<1>3. /\ out \in {"completed", "needs_replan", "blocked", "failed"}
      /\ out = "completed" =>
            /\ outcome = "completed" /\ same /\ ok
            /\ Protected(o) /\ Successes(o) >= MinSuccess
  BY DEF GateCheck
<1>4. ok \in BOOLEAN OBVIOUS
<1> HIDE DEF out, cause, ok
<1>5. /\ out = "completed" => Escalation(out, o, cause) = Nil
      /\ out # "completed" => /\ Escalation(out, o, cause) \in Escalations
                              /\ Escalation(out, o, cause) # Nil
                              /\ Escalation(out, o, cause).ref \in {0} \cup DOMAIN o
  BY <1>2, EscalationType
<1>6. /\ h \in StageResults /\ h.outcome = out /\ h.gate = ok /\ h.attempts = n /\ h.obs = o
      /\ h.esc = Escalation(out, o, cause)
  BY <1>3, <1>4, <1>5 DEF StageResults
<1> HIDE DEF h
<1>7. Accepted(h) BY <1>3, <1>5, <1>6, AttemptsCover DEF Accepted
<1>8. Returned(h) = h BY <1>7 DEF Returned
<1>9. QED BY <1>1, <1>3, <1>5, <1>6, <1>8

\* _blocked of the read executor: the record is valid unless the refusal could
\* not be accounted for.
LEMMA ReadBlockedType ==
    ASSUME NEW o \in Seq(Observations), HasLastFailed(o), NEW n \in Nat, Len(o) <= n,
           NEW end \in BlockedCall, NEW kind \in EscalationKinds
    PROVE  LET h == ReadBlocked(end, o, n, kind) IN
           /\ h \in StageResults /\ h.outcome \in {"blocked", "raised"}
           /\ h.outcome = "raised" => \E i \in DOMAIN h.obs : h.obs[i].cat = "telemetry_failure"
<1> DEFINE x == Observation(end, FALSE)
           all == Append(o, x)
           h == [outcome |-> "blocked", gate |-> FALSE, attempts |-> n, obs |-> all,
                 esc |-> Escalation("blocked", all, kind)]
<1>1. ReadBlocked(end, o, n, kind) = Returned(h) BY DEF ReadBlocked
<1>2. /\ x \in Observations /\ x.status = end[1] /\ x.cat = end[2]
  BY ObservationType DEF CallEnds
<1>3. x.status = "blocked" \/ x.cat = "telemetry_failure"
  <2>1. CASE end = <<"blocked", "unsupported_action">> BY <1>2, <2>1
  <2>2. CASE end = <<"error", "telemetry_failure">> BY <1>2, <2>2
  <2>3. QED BY <2>1, <2>2 DEF BlockedCall
<1> HIDE DEF x
<1>4. /\ all \in Seq(Observations) /\ Len(all) = Len(o) + 1 /\ all[Len(o) + 1] = x
      /\ \A i \in 1..Len(o) : all[i] = o[i]
      /\ DOMAIN all = 1..Len(all) /\ DOMAIN o = 1..Len(o) /\ Len(o) \in Nat
  BY <1>2, FailedAppend, LenProperties
<1>5. HasLastFailed(all) BY <1>2, LastFailedAppend
<1> HIDE DEF all
<1>6. /\ Escalation("blocked", all, kind) \in Escalations
      /\ Escalation("blocked", all, kind) # Nil
      /\ Escalation("blocked", all, kind).ref \in {0} \cup DOMAIN all
  BY <1>4, <1>5, EscalationType
<1>7. /\ h \in StageResults /\ h.outcome = "blocked" /\ h.attempts = n /\ h.obs = all
      /\ h.esc = Escalation("blocked", all, kind) /\ h.gate = FALSE
  BY <1>4, <1>6 DEF StageResults
<1>8. [h EXCEPT !.outcome = "raised"] \in StageResults
      /\ [h EXCEPT !.outcome = "raised"].outcome = "raised"
      /\ [h EXCEPT !.outcome = "raised"].obs = all
  BY <1>7 DEF StageResults
<1> HIDE DEF h
<1>9. x.status = "blocked" => Accepted(h)
  <2>1. SUFFICES ASSUME x.status = "blocked" PROVE Accepted(h) OBVIOUS
  <2>2. {i \in DOMAIN all : all[i].status # "blocked"} = {i \in DOMAIN o : o[i].status # "blocked"}
    <3>1. \A i : i \in DOMAIN all <=> i \in DOMAIN o \/ i = Len(o) + 1 BY <1>4
    <3>2. Len(o) + 1 \notin DOMAIN o BY <1>4
    <3>3. QED BY <1>4, <2>1, <3>1, <3>2
  <2>3. n >= Cardinality({i \in DOMAIN all : all[i].status # "blocked"})
    BY <2>2, AttemptsCover
  <2>4. QED BY <1>6, <1>7, <2>3 DEF Accepted
<1>10. x.cat = "telemetry_failure" => \E i \in DOMAIN all : all[i].cat = "telemetry_failure"
  BY <1>4
<1>11. QED BY <1>1, <1>3, <1>7, <1>8, <1>9, <1>10 DEF Returned

-----------------------------------------------------------------------------
\* What finish returns is handed over as proven.
LEMMA HandsOver ==
    ASSUME StageInv, NEW o \in Seq(Observations), HasLastFailed(o), NEW n \in Nat, Len(o) <= n,
           NEW outcome \in {"completed", "needs_replan", "blocked", "failed"},
           NEW final \in BOOLEAN, NEW override \in EscalationKinds \cup {Nil},
           handoff' = Handoff(outcome, final, o, n, override), moved' \subseteq moved,
           outcome = "completed" => \A i \in Failed(o) : o[i].status = "timeout"
    PROVE  handoff' \in StageResults /\ HandoffIsProven'
<1>1. /\ handoff' \in StageResults /\ handoff'.outcome # "raised" /\ handoff'.obs = o
      /\ handoff'.outcome = "completed" =>
            /\ outcome = "completed" /\ "envelope" \notin moved /\ handoff'.esc = Nil
            /\ Protected(o) /\ Successes(o) >= MinSuccess
  BY HandoffType
<1>2. QED BY <1>1 DEF HandoffIsProven

\* A stage that has ended keeps the invariant if it is handed over as proven
\* and the operator's mode is back.
LEMMA EndedKeepsInv ==
    ASSUME StageInv, exec' = "idle",
           handoff' \in StageResults, HandoffIsProven',
           used' \subseteq {"agent", "read"}, used \subseteq used', reads' = reads,
           moved' \subseteq Materials, flag' \in BOOLEAN,
           call' \in {"none", "refused", "gated", "launched"},
           obs' \in Seq(Observations), tries' \in Nat, calls' \in Nat,
           coord' \in Coordinators, coord'.current.mode = "own",
           ~ coord'.split => ~ coord'.current.check
    PROVE  StageInv'
<1>1. StageTypeOK' BY DEF StageInv, StageTypeOK
<1>2. AgentIsBound' /\ AgentStopsAtFailure' /\ InProgress'
  BY DEF AgentIsBound, AgentStopsAtFailure, InProgress
<1>3. ReadsAreCounted' /\ ReadsAreBounded'
  BY DEF StageInv, ReadsAreCounted, ReadsAreBounded
<1>4. OwnModeRestored' BY DEF OwnModeRestored
<1>5. QED BY <1>1, <1>2, <1>3, <1>4 DEF StageInv

\* A step within run_tool_loop keeps it if the coordinators stay the stage's and
\* the loop has stopped at a call that failed.
LEMMA AgentKeepsInv ==
    ASSUME StageInv, exec = "agent", exec' = "agent",
           UNCHANGED <<used, tries, handoff, calls, reads>>,
           moved' \subseteq Materials, flag' \in BOOLEAN,
           call' \in {"none", "refused", "gated", "launched"},
           obs' \in Seq(Observations), coord' \in Coordinators,
           \A via \in {"stage", "current"} : coord'[via] = coord[via],
           Failed(obs') # {} => loop'.stopped = "action_failed",
           Failed(obs') \subseteq {Len(obs')}
    PROVE  StageInv'
<1>1. StageTypeOK' BY DEF StageInv, StageTypeOK
<1>2. AgentIsBound' BY DEF StageInv, AgentIsBound
<1>3. AgentStopsAtFailure' BY DEF AgentStopsAtFailure, Failed
<1>4. InProgress' /\ HandoffIsProven' /\ OwnModeRestored'
  BY DEF StageInv, InProgress, HandoffIsProven, OwnModeRestored
<1>5. ReadsAreCounted' /\ ReadsAreBounded'
  BY DEF StageInv, ReadsAreCounted, ReadsAreBounded
<1>6. QED BY <1>1, <1>2, <1>3, <1>4, <1>5 DEF StageInv

\* As long as the loop runs, nothing has failed.
LEMMA RunningIsClean ==
    ASSUME StageInv, LoopInv, exec = "agent", loop.pc # "idle"
    PROVE  Failed(obs) = {} /\ obs \in Seq(Observations) /\ loop.stopped = "none"
<1>1. loop.stopped = "none" BY RunningTask
<1>2. QED BY <1>1 DEF StageInv, StageTypeOK, AgentStopsAtFailure

\* run_tool_loop's finally clause gives the operator's mode back.
LEMMA RestoreType ==
    ASSUME StageInv, exec = "agent"
    PROVE  /\ Restore \in Coordinators /\ Restore.current.mode = "own"
           /\ ~ Restore.split => ~ Restore.current.check
<1>1. PICK a \in {"own", "stage"}, b \in BOOLEAN, c \in {"own", "stage"}, d \in BOOLEAN,
           e \in BOOLEAN :
         coord = [stage |-> [mode |-> a, check |-> b], current |-> [mode |-> c, check |-> d],
                  split |-> e]
  BY DEF StageInv, StageTypeOK, Coordinators
<1>2. CASE e
  <2>1. Restore = [stage |-> [mode |-> a, check |-> FALSE],
                   current |-> [mode |-> "own", check |-> d], split |-> TRUE]
    BY <1>1, <1>2 DEF Restore
  <2>2. QED BY <2>1 DEF Coordinators
<1>3. CASE ~ e
  <2>1. Restore = [stage |-> [mode |-> "own", check |-> FALSE],
                   current |-> [mode |-> "own", check |-> FALSE], split |-> FALSE]
    BY <1>1, <1>3 DEF Restore, OneCoordinator, Own
  <2>2. QED BY <2>1 DEF Coordinators
<1>4. QED BY <1>2, <1>3

\* A new scope brings a coordinator with the old one's mode and check.
LEMMA SetScopeType ==
    ASSUME StageInv
    PROVE  /\ SetScope \in Coordinators
           /\ \A via \in {"stage", "current"} : SetScope[via] = coord[via]
  BY DEF StageInv, StageTypeOK, Coordinators, SetScope

-----------------------------------------------------------------------------
LEMMA IdleKeepsInv ==
    ASSUME StageInv, Unbound \/ AgentRefuses \/ \E end \in BlockedCall : ReadRefuses(end)
    PROVE  StageInv'
<1> DEFINE e == <<>>
<1>1. /\ e \in Seq(Observations) /\ Len(e) <= 0 /\ 0 \in Nat /\ HasLastFailed(e)
  BY DEF Failed, HasLastFailed
<1>2. /\ exec = "idle" => coord.current.mode = "own" /\ (~ coord.split => ~ coord.current.check)
      /\ coord \in Coordinators /\ calls + 1 \in Nat /\ obs \in Seq(Observations) /\ tries \in Nat
      /\ used \cup {"agent"} \subseteq {"agent", "read"}
  BY DEF StageInv, StageTypeOK, OwnModeRestored
<1>3. CASE Unbound
  <2>1. handoff' \in StageResults /\ handoff'.outcome = "blocked"
    BY <1>3 DEF Unbound, StageResults
  <2>2. HandoffIsProven' BY <2>1 DEF HandoffIsProven
  <2>3. QED BY <1>2, <1>3, <2>1, <2>2, EndedKeepsInv DEF Unbound, StageInv, StageTypeOK
<1>4. CASE AgentRefuses
  <2>1. handoff' \in StageResults /\ HandoffIsProven'
    <3>1. moved' \subseteq moved /\ 0 \in Nat BY <1>4 DEF AgentRefuses
    <3>2. CASE "agent" \in used
      <4>1. handoff' = Handoff("blocked", FALSE, e, 0, "policy") BY <1>4, <3>2 DEF AgentRefuses
      <4> HIDE DEF e
      <4>2. QED BY <1>1, <3>1, <4>1, HandsOver DEF EscalationKinds
    <3>3. CASE "agent" \notin used
      <4>1. handoff' = Handoff("failed", FALSE, e, 0, "execution")
        BY <1>4, <3>3 DEF AgentRefuses
      <4> HIDE DEF e
      <4>2. QED BY <1>1, <3>1, <4>1, HandsOver DEF EscalationKinds
    <3>4. QED BY <3>2, <3>3
  <2>2. QED BY <1>2, <1>4, <2>1, EndedKeepsInv DEF AgentRefuses, StageInv, StageTypeOK
<1>5. ASSUME NEW end \in BlockedCall, ReadRefuses(end) PROVE StageInv'
  <2>1. PICK kind \in {"material_change", "budget", "policy"} :
           handoff' = ReadBlocked(end, e, 0, kind)
    BY <1>5 DEF ReadRefuses
  <2>2. kind \in EscalationKinds BY DEF EscalationKinds
  <2> HIDE DEF e
  <2>3. /\ handoff' \in StageResults /\ handoff'.outcome \in {"blocked", "raised"}
        /\ handoff'.outcome = "raised" =>
              \E i \in DOMAIN handoff'.obs : handoff'.obs[i].cat = "telemetry_failure"
    BY <1>1, <2>1, <2>2, ReadBlockedType
  <2>4. HandoffIsProven' BY <2>3 DEF HandoffIsProven
  <2>5. QED BY <1>2, <1>5, <2>3, <2>4, EndedKeepsInv DEF ReadRefuses, StageInv, StageTypeOK
<1>6. QED BY <1>3, <1>4, <1>5

LEMMA AgentStartsKeeps ==
    ASSUME StageInv, LoopInv, NEW g \in Goals, AgentStarts(g)
    PROVE  StageInv'
<1>1. /\ coord' \in Coordinators
      /\ \A via \in {"stage", "current"} : coord'[via] = [mode |-> "stage", check |-> TRUE]
  BY DEF AgentStarts, OneCoordinator, Coordinators
<1>2. obs' = <<>> /\ obs' \in Seq(Observations) /\ Failed(obs') = {}
  BY DEF AgentStarts, Failed
<1>3. StageTypeOK'
  <2>1. calls' \in Nat /\ used' \subseteq {"agent", "read"}
    BY DEF AgentStarts, StageInv, StageTypeOK
  <2>2. QED BY <1>1, <1>2, <2>1 DEF AgentStarts, StageInv, StageTypeOK
<1>4. AgentIsBound' BY <1>1 DEF AgentIsBound
<1>5. AgentStopsAtFailure' BY <1>2 DEF AgentStopsAtFailure, Failed
<1>6. InProgress' /\ HandoffIsProven' /\ OwnModeRestored'
  BY DEF AgentStarts, InProgress, HandoffIsProven, OwnModeRestored
<1>7. ReadsAreCounted' /\ ReadsAreBounded'
  BY DEF AgentStarts, StageInv, ReadsAreCounted, ReadsAreBounded
<1>8. QED BY <1>3, <1>4, <1>5, <1>6, <1>7 DEF StageInv

LEMMA ReadStartsKeeps == ASSUME StageInv, ReadStarts PROVE StageInv'
<1>1. obs' = <<>> /\ obs' \in Seq(Observations) /\ Len(obs') = 0 BY DEF ReadStarts
<1>2. reads = 0 /\ reads' = 1 /\ tries' = 1 /\ 1 \in 1..MaxAttempts /\ 1 <= MaxAttempts
  BY StageAssumption DEF ReadStarts, StageInv, ReadsAreCounted
<1>3. StageTypeOK'
  <2>1. calls' \in Nat /\ used' \subseteq {"agent", "read"}
    BY DEF ReadStarts, StageInv, StageTypeOK
  <2>2. QED BY <1>1, <1>2, <2>1 DEF ReadStarts, StageInv, StageTypeOK
<1>4. AgentIsBound' /\ AgentStopsAtFailure' /\ InProgress' /\ HandoffIsProven'
  BY DEF ReadStarts, AgentIsBound, AgentStopsAtFailure, InProgress, HandoffIsProven
<1>5. OwnModeRestored' BY DEF ReadStarts, StageInv, OwnModeRestored
<1>6. ReadsAreCounted' BY <1>1, <1>2 DEF ReadStarts, ReadsAreCounted
<1>7. ReadsAreBounded' BY <1>1, <1>2 DEF ReadStarts, ReadsAreBounded
<1>8. QED BY <1>3, <1>4, <1>5, <1>6, <1>7 DEF StageInv

\* Something changes under either executor.
LEMMA ChangeKeeps ==
    ASSUME StageInv, LoopInv, (\E m \in Materials : Change(m)) \/ Rescope
    PROVE  StageInv'
<1>1. SetScope \in Coordinators /\ \A via \in {"stage", "current"} : SetScope[via] = coord[via]
  BY SetScopeType
<1>2. moved' \subseteq Materials BY DEF Change, Rescope, StageInv, StageTypeOK
<1>3. CASE exec = "agent"
  <2>1. loop.pc # "idle" BY <1>3 DEF Change, Rescope
  <2>2. Failed(obs) = {} BY <1>3, <2>1, RunningIsClean
  <2>3. /\ coord' \in Coordinators
        /\ \A via \in {"stage", "current"} : coord'[via] = coord[via]
    BY <1>1 DEF Change, Rescope, StageInv, StageTypeOK
  <2>4. QED
    BY <1>2, <1>3, <2>2, <2>3, AgentKeepsInv DEF Change, Rescope, StageInv, StageTypeOK
<1>4. CASE exec # "agent"
  <2>1. exec = "read" /\ UNCHANGED <<vars, exec, used, call, flag, obs, tries, coord, handoff,
                                    calls, reads>>
    BY <1>4 DEF Change, Rescope
  <2>2. handoff = Nil BY <2>1 DEF StageInv, InProgress
  <2>3. StageTypeOK' BY <1>2, <2>1 DEF StageInv, StageTypeOK
  <2>4. AgentIsBound' /\ AgentStopsAtFailure' /\ InProgress' /\ HandoffIsProven'
    BY <2>1, <2>2 DEF AgentIsBound, AgentStopsAtFailure, InProgress, HandoffIsProven
  <2>5. OwnModeRestored' /\ ReadsAreCounted' /\ ReadsAreBounded'
    BY <2>1 DEF StageInv, OwnModeRestored, ReadsAreCounted, ReadsAreBounded
  <2>6. QED BY <2>3, <2>4, <2>5 DEF StageInv
<1>5. QED BY <1>3, <1>4

\* The loop goes on without the executor, or asks it for a call.
LEMMA LoopMovesKeeps ==
    ASSUME StageInv, LoopInv, LoopMoves \/ Invoke \/ CodingRefused
           \/ \E via \in {"stage", "current"} : CallLaunches(via)
    PROVE  StageInv'
<1>1. CASE LoopMoves \/ Invoke
  <2>1. exec = "agent" /\ exec' = "agent" /\ loop.pc # "idle"
    BY <1>1 DEF LoopMoves, Invoke, stageVars, Call, Reject, Complete, Replan, GiveUp, Exhaust
  <2>2. Failed(obs) = {} /\ obs' = obs
    BY <1>1, <2>1, RunningIsClean DEF LoopMoves, Invoke, stageVars
  <2>3. /\ UNCHANGED <<used, tries, handoff, calls, reads, moved, coord>>
        /\ flag' \in BOOLEAN /\ call' \in {"none", "refused", "gated", "launched"}
    BY <1>1 DEF LoopMoves, Invoke, stageVars, StageInv, StageTypeOK
  <2>4. QED BY <2>1, <2>2, <2>3, AgentKeepsInv DEF StageInv, StageTypeOK
<1>2. CASE CodingRefused
  <2>1. exec = "agent" /\ exec' = "agent" /\ loop.pc # "idle" BY <1>2 DEF CodingRefused, Return
  <2>2. Failed(obs) = {} /\ obs' = obs BY <1>2, <2>1, RunningIsClean DEF CodingRefused
  <2>3. QED
    BY <1>2, <2>1, <2>2, AgentKeepsInv DEF CodingRefused, StageInv, StageTypeOK
<1>3. ASSUME NEW via \in {"stage", "current"}, CallLaunches(via) PROVE StageInv'
  <2>1. /\ Failed(obs) # {} => loop.stopped = "action_failed"
        /\ Failed(obs) \subseteq {Len(obs)} /\ loop' = loop
    BY <1>3 DEF CallLaunches, StageInv, AgentStopsAtFailure, vars
  <2>2. QED BY <1>3, <2>1, AgentKeepsInv DEF CallLaunches, StageInv, StageTypeOK
<1>4. QED BY <1>1, <1>2, <1>3

\* A call's result is recorded: the loop stops if it failed.
LEMMA ObserveKeeps ==
    ASSUME StageInv, LoopInv, exec = "agent", exec' = "agent", NEW o \in Observations,
           Observe(o), flag' \in BOOLEAN,
           UNCHANGED <<used, moved, tries, coord, handoff, calls, reads>>
    PROVE  StageInv'
<1>1. loop.pc # "idle" BY DEF Observe, Return
<1>2. Failed(obs) = {} /\ obs \in Seq(Observations) BY <1>1, RunningIsClean
<1>3. /\ obs' \in Seq(Observations) /\ Len(obs') = Len(obs) + 1
      /\ Failed(obs') = IF o.ok THEN {} ELSE {Len(obs')}
  BY <1>2, FailedAppend DEF Observe
<1>4. ~ o.ok => loop'.stopped = "action_failed"
  <2>1. SUFFICES ASSUME ~ o.ok PROVE loop'.stopped = "action_failed" OBVIOUS
  <2>2. Stage BY StageAssumption
  <2>3. \E t : SaveCheckpoint(t, Ended("action_failed"))
    BY <2>1, <2>2 DEF Observe, Return, Observed
  <2>4. loop' = Ended("action_failed") BY <2>2, <2>3 DEF SaveCheckpoint
  <2>5. QED BY <2>4 DEF Ended
<1>5. QED BY <1>3, <1>4, AgentKeepsInv DEF Observe, StageInv, StageTypeOK

LEMMA CallEndsKeeps ==
    ASSUME StageInv, LoopInv,
           \/ \E end \in BlockedCall : InvokeRefused(end)
           \/ \E end \in Refusals : GateRefuses(end)
           \/ \E via \in {"stage", "current"}, end \in BlockedCall : CheckStopsCall(via, end)
           \/ \E end \in Endings, ev \in BOOLEAN : CallReturns(end, ev)
    PROVE  StageInv'
<1>1. \E end \in CallEnds, ev \in BOOLEAN : Observe(Observation(end, ev))
  BY DEF InvokeRefused, GateRefuses, CheckStopsCall, CallReturns, CallEnds
<1>2. \E o \in Observations : Observe(o) BY <1>1, ObservationType
<1>3. /\ exec = "agent" /\ exec' = "agent" /\ flag' \in BOOLEAN
      /\ UNCHANGED <<used, moved, tries, coord, handoff, calls, reads>>
  BY DEF InvokeRefused, GateRefuses, CheckStopsCall, CallReturns, StageInv, StageTypeOK
<1>4. QED BY <1>2, <1>3, ObserveKeeps

-----------------------------------------------------------------------------
\* The agent executor finishes.
LEMMA AgentEndsKeeps ==
    ASSUME StageInv, LoopInv, exec = "agent", exec' = "idle", coord' = Restore,
           UNCHANGED <<used, moved, flag, tries, calls, reads>>,
           call' \in {"none", "refused", "gated", "launched"},
           obs' \in Seq(Observations), handoff' \in StageResults, HandoffIsProven'
    PROVE  StageInv'
  BY RestoreType, EndedKeepsInv DEF StageInv, StageTypeOK

LEMMA AgentCancelledKeeps == ASSUME StageInv, LoopInv, AgentCancelled PROVE StageInv'
<1> DEFINE x == Observation(Cancelled, FALSE)
           o == IF call = "launched" THEN Append(obs, x) ELSE obs
<1>1. exec = "agent" /\ loop.pc # "idle" BY DEF AgentCancelled, Interrupt
<1>2. Failed(obs) = {} /\ obs \in Seq(Observations) BY <1>1, RunningIsClean
<1>3. x \in Observations BY ObservationType DEF CallEnds
<1> HIDE DEF x
<1>4. o \in Seq(Observations) /\ HasLastFailed(o)
  BY <1>2, <1>3, FailedAppend, LastFailedAppend DEF HasLastFailed
<1>5. obs' = o /\ handoff' = Handoff("blocked", FALSE, o, Len(o), "cancellation")
  BY DEF AgentCancelled, x
<1> HIDE DEF o
<1>6. Len(o) \in Nat /\ Len(o) <= Len(o) BY <1>4, LenProperties
<1>7. handoff' \in StageResults /\ HandoffIsProven'
  BY <1>4, <1>5, <1>6, HandsOver DEF AgentCancelled, EscalationKinds
<1>8. QED BY <1>1, <1>4, <1>5, <1>7, AgentEndsKeeps DEF AgentCancelled

LEMMA AgentRaisesKeeps == ASSUME StageInv, LoopInv, AgentRaises PROVE StageInv'
<1>1. exec = "agent" /\ loop.pc # "idle" BY DEF AgentRaises, Interrupt
<1>2. Failed(obs) = {} /\ obs \in Seq(Observations) BY <1>1, RunningIsClean
<1>3. HasLastFailed(obs) BY <1>2 DEF HasLastFailed
<1>4. Len(obs) \in Nat /\ Len(obs) <= Len(obs) BY <1>2, LenProperties
<1>5. handoff' = Handoff("failed", FALSE, obs, Len(obs), "execution") /\ moved' \subseteq moved
  BY DEF AgentRaises
<1>6. handoff' \in StageResults /\ HandoffIsProven'
  BY <1>2, <1>3, <1>4, <1>5, HandsOver DEF EscalationKinds
<1>7. QED BY <1>1, <1>2, <1>6, AgentEndsKeeps DEF AgentRaises

LEMMA AgentReturnsKeeps ==
    ASSUME StageInv, LoopInv, NEW final \in BOOLEAN, AgentReturns(final)
    PROVE  StageInv'
<1> DEFINE outcome == Outcome(loop.stopped)
           override == CASE flag -> "material_change"
                         [] loop.stopped = "budget" -> "budget"
                         [] loop.stopped = "action_failed" /\ obs = <<>> -> "execution"
                         [] OTHER -> Nil
<1>1. /\ exec = "agent" /\ obs \in Seq(Observations)
      /\ Failed(obs) # {} => loop.stopped = "action_failed"
      /\ Failed(obs) \subseteq {Len(obs)}
  BY DEF AgentReturns, StageInv, StageTypeOK, AgentStopsAtFailure
<1>2. HasLastFailed(obs) BY <1>1, LastFailedOf
<1>3. Len(obs) \in Nat /\ Len(obs) <= Len(obs) BY <1>1, LenProperties
<1>4. /\ outcome \in {"completed", "needs_replan", "blocked", "failed"}
      /\ outcome = "completed" => loop.stopped = "final"
  BY DEF Outcome
<1>5. override \in EscalationKinds \cup {Nil} BY DEF EscalationKinds
<1>6. handoff' = Handoff(outcome, final, obs, Len(obs), override) /\ moved' \subseteq moved
  BY DEF AgentReturns
<1> HIDE DEF outcome, override
<1>7. handoff' \in StageResults /\ HandoffIsProven'
  BY <1>1, <1>2, <1>3, <1>4, <1>5, <1>6, HandsOver
<1>8. QED BY <1>1, <1>7, AgentEndsKeeps DEF AgentReturns, StageInv, StageTypeOK

-----------------------------------------------------------------------------
\* The read executor between two of its steps.
LEMMA ReadingState ==
    ASSUME StageInv, exec = "read"
    PROVE  /\ obs \in Seq(Observations) /\ Len(obs) = tries - 1 /\ tries \in 1..MaxAttempts
           /\ reads = tries /\ HasLastFailed(obs) /\ handoff = Nil
           /\ \A i \in 1..Len(obs) : obs[i].status = "timeout"
           /\ DOMAIN obs = 1..Len(obs) /\ tries \in Nat /\ MaxAttempts \in Nat
<1>1. /\ obs \in Seq(Observations) /\ Len(obs) = tries - 1 /\ tries \in 1..MaxAttempts
      /\ reads = tries /\ handoff = Nil
      /\ \A i \in DOMAIN obs : obs[i].status = "timeout"
  BY DEF StageInv, StageTypeOK, ReadsAreCounted, ReadsAreBounded, InProgress
<1>2. DOMAIN obs = 1..Len(obs) BY <1>1, LenProperties
<1>3. \A i \in DOMAIN obs : obs[i] \in Observations BY <1>1, <1>2, ElementOfSeq
<1>4. \A i \in DOMAIN obs : ~ obs[i].ok BY <1>1, <1>3 DEF Observations
<1>5. QED BY <1>1, <1>2, <1>4, LastFailedOf, StageAssumption

\* The read executor ends its stage.
LEMMA ReadEndedKeeps ==
    ASSUME StageInv, exec = "read", exec' = "idle",
           UNCHANGED <<used, moved, call, flag, tries, coord, calls, reads>>,
           obs' \in Seq(Observations), handoff' \in StageResults, HandoffIsProven'
    PROVE  StageInv'
  BY EndedKeepsInv DEF StageInv, StageTypeOK, OwnModeRestored

LEMMA ReadReturnsKeeps ==
    ASSUME StageInv, NEW o \in Observations, NEW end \in BlockedCall, ReadReturns(o, end)
    PROVE  StageInv'
<1>1. exec = "read" /\ obs' = Append(obs, o) BY DEF ReadReturns
<1>2. /\ obs \in Seq(Observations) /\ Len(obs) = tries - 1 /\ tries \in 1..MaxAttempts
      /\ reads = tries /\ HasLastFailed(obs) /\ handoff = Nil
      /\ \A i \in 1..Len(obs) : obs[i].status = "timeout"
      /\ tries \in Nat /\ MaxAttempts \in Nat
  BY <1>1, ReadingState
<1>3. /\ obs' \in Seq(Observations) /\ Len(obs') = tries
      /\ \A i \in 1..Len(obs) : obs'[i].status = "timeout"
      /\ obs'[Len(obs')] = o /\ HasLastFailed(obs')
      /\ o.ok => Failed(obs') \subseteq 1..Len(obs)
  BY <1>1, <1>2, FailedAppend, LastFailedAppend
<1>4. CASE moved # {}
  <2>1. handoff' = ReadBlocked(end, obs', tries, "material_change") /\ exec' = "idle"
    BY <1>4 DEF ReadReturns
  <2>2. tries \in Nat /\ Len(obs') <= tries /\ "material_change" \in EscalationKinds
    BY <1>2, <1>3 DEF EscalationKinds
  <2>3. /\ handoff' \in StageResults /\ handoff'.outcome \in {"blocked", "raised"}
        /\ handoff'.outcome = "raised" =>
              \E i \in DOMAIN handoff'.obs : handoff'.obs[i].cat = "telemetry_failure"
    BY <1>3, <2>1, <2>2, ReadBlockedType
  <2>4. HandoffIsProven' BY <2>3 DEF HandoffIsProven
  <2>5. QED BY <1>1, <1>3, <1>4, <2>1, <2>3, <2>4, ReadEndedKeeps DEF ReadReturns
<1>5. CASE moved = {} /\ Retries(o)
  <2>1. /\ tries' = tries + 1 /\ reads' = reads + 1 /\ tries < MaxAttempts
        /\ o.status = "timeout"
        /\ UNCHANGED <<vars, exec, used, moved, call, flag, coord, handoff, calls>>
    BY <1>5 DEF ReadReturns, Retries
  <2>2. tries' \in 1..MaxAttempts /\ tries' \in Nat /\ reads' = tries' /\ Len(obs') = tries' - 1
    BY <1>2, <1>3, <2>1
  <2>3. \A i \in DOMAIN obs' : obs'[i].status = "timeout"
    <3>1. \A i \in 1..Len(obs') : i \in 1..Len(obs) \/ i = Len(obs') BY <1>2, <1>3
    <3>2. DOMAIN obs' = 1..Len(obs') BY <1>3, LenProperties
    <3>3. QED BY <1>3, <2>1, <3>1, <3>2
  <2>4. StageTypeOK' BY <1>3, <2>1, <2>2 DEF StageInv, StageTypeOK
  <2>5. AgentIsBound' /\ AgentStopsAtFailure' /\ InProgress' /\ HandoffIsProven'
    BY <1>1, <1>2, <2>1 DEF AgentIsBound, AgentStopsAtFailure, InProgress, HandoffIsProven
  <2>6. OwnModeRestored' BY <2>1 DEF StageInv, OwnModeRestored
  <2>7. ReadsAreCounted' BY <1>1, <2>1, <2>2 DEF StageInv, ReadsAreCounted
  <2>8. ReadsAreBounded' BY <2>2, <2>3 DEF ReadsAreBounded
  <2>9. QED BY <2>4, <2>5, <2>6, <2>7, <2>8 DEF StageInv
<1>6. CASE moved = {} /\ ~ Retries(o)
  <2> DEFINE outcome == IF o.ok THEN "completed"
                        ELSE IF BlockingEnd(o) THEN "blocked" ELSE "failed"
  <2>1. handoff' = Handoff(outcome, o.ok, obs', tries, Nil) /\ exec' = "idle"
    BY <1>6 DEF ReadReturns
  <2>2. outcome \in {"completed", "needs_replan", "blocked", "failed"}
        /\ (outcome = "completed" => o.ok)
    OBVIOUS
  <2> HIDE DEF outcome
  <2>3. o.ok \in BOOLEAN BY DEF Observations
  <2>4. tries \in Nat /\ Len(obs') <= tries /\ moved' \subseteq moved
    BY <1>2, <1>3 DEF ReadReturns
  <2>5. outcome = "completed" => \A i \in Failed(obs') : obs'[i].status = "timeout"
    BY <1>3, <2>2
  <2>6. handoff' \in StageResults /\ HandoffIsProven'
    BY <1>3, <2>1, <2>2, <2>3, <2>4, <2>5, HandsOver
  <2>7. QED BY <1>1, <1>3, <1>6, <2>1, <2>6, ReadEndedKeeps DEF ReadReturns
<1>7. QED BY <1>4, <1>5, <1>6

LEMMA ReadEndsKeeps ==
    ASSUME StageInv, NEW coordinated \in BOOLEAN, ReadEnds(coordinated)
    PROVE  StageInv'
<1> DEFINE x == Observation(Cancelled, FALSE)
           o == IF coordinated THEN Append(obs, x) ELSE obs
<1>1. exec = "read" /\ obs' = o /\ exec' = "idle" BY DEF ReadEnds
<1>2. /\ obs \in Seq(Observations) /\ Len(obs) = tries - 1 /\ HasLastFailed(obs)
      /\ tries \in Nat
  BY <1>1, ReadingState
<1>3. PICK outcome \in {"blocked", "failed"}, kind \in {"cancellation", "execution"} :
         handoff' = Handoff(outcome, FALSE, o, tries, kind)
  BY DEF ReadEnds
<1>4. x \in Observations BY ObservationType DEF CallEnds
<1> HIDE DEF x
<1>5. o \in Seq(Observations) /\ Len(o) <= tries /\ HasLastFailed(o)
  BY <1>2, <1>4, FailedAppend, LastFailedAppend
<1> HIDE DEF o
<1>6. kind \in EscalationKinds /\ moved' \subseteq moved BY DEF EscalationKinds, ReadEnds
<1>7. handoff' \in StageResults /\ HandoffIsProven'
  BY <1>2, <1>3, <1>5, <1>6, HandsOver
<1>8. QED BY <1>1, <1>5, <1>7, ReadEndedKeeps DEF ReadEnds

-----------------------------------------------------------------------------
LEMMA StageInitHolds == StageInit => StageInv
<1> SUFFICES ASSUME StageInit PROVE StageInv
  OBVIOUS
<1>1. OneCoordinator(Own) \in Coordinators /\ OneCoordinator(Own).current.mode = "own"
      /\ ~ OneCoordinator(Own).current.check
  BY DEF OneCoordinator, Own, Coordinators
<1>2. obs = <<>> /\ obs \in Seq(Observations) BY DEF StageInit
<1>3. StageTypeOK BY <1>1, <1>2 DEF StageInit, StageTypeOK, Materials
<1>4. AgentIsBound /\ AgentStopsAtFailure /\ ReadsAreCounted /\ InProgress /\ HandoffIsProven
  BY DEF StageInit, AgentIsBound, AgentStopsAtFailure, ReadsAreCounted, InProgress,
         HandoffIsProven
<1>5. OwnModeRestored BY <1>1 DEF StageInit, OwnModeRestored
<1>6. ReadsAreBounded BY StageAssumption DEF StageInit, ReadsAreBounded
<1>7. QED BY <1>3, <1>4, <1>5, <1>6 DEF StageInv

LEMMA StageNextKeeps == StageInv /\ LoopInv /\ [StageNext]_allVars => StageInv'
<1> SUFFICES ASSUME StageInv, LoopInv, [StageNext]_allVars PROVE StageInv'
  OBVIOUS
<1>1. CASE UNCHANGED allVars
  BY <1>1 DEF allVars, stageVars, vars, StageInv, StageTypeOK, AgentIsBound, AgentStopsAtFailure,
              ReadsAreCounted, InProgress, OwnModeRestored, HandoffIsProven, ReadsAreBounded
<1>2. CASE StageNext
  <2>1. CASE Unbound \/ AgentRefuses \/ \E end \in BlockedCall : ReadRefuses(end)
    BY <2>1, IdleKeepsInv
  <2>2. CASE \E g \in Goals : AgentStarts(g) BY <2>2, AgentStartsKeeps
  <2>3. CASE ReadStarts BY <2>3, ReadStartsKeeps
  <2>4. CASE (\E m \in Materials : Change(m)) \/ Rescope BY <2>4, ChangeKeeps
  <2>5. CASE LoopMoves \/ Invoke \/ CodingRefused
             \/ \E via \in {"stage", "current"} : CallLaunches(via)
    BY <2>5, LoopMovesKeeps
  <2>6. CASE \/ \E end \in BlockedCall : InvokeRefused(end)
             \/ \E end \in Refusals : GateRefuses(end)
             \/ \E via \in {"stage", "current"}, end \in BlockedCall : CheckStopsCall(via, end)
             \/ \E end \in Endings, ev \in BOOLEAN : CallReturns(end, ev)
    BY <2>6, CallEndsKeeps
  <2>7. CASE AgentCancelled BY <2>7, AgentCancelledKeeps
  <2>8. CASE AgentRaises BY <2>8, AgentRaisesKeeps
  <2>9. CASE \E final \in BOOLEAN : AgentReturns(final) BY <2>9, AgentReturnsKeeps
  <2>10. ASSUME NEW end \in Endings \cup Refusals, NEW ev \in BOOLEAN, NEW e \in BlockedCall,
                ReadReturns(Observation(end, ev), e)
         PROVE  StageInv'
    <3>1. Observation(end, ev) \in Observations BY ObservationType DEF CallEnds
    <3>2. QED BY <2>10, <3>1, ReadReturnsKeeps
  <2>11. CASE \E coordinated \in BOOLEAN : ReadEnds(coordinated) BY <2>11, ReadEndsKeeps
  <2>12. QED
    BY <1>2, <2>1, <2>2, <2>3, <2>4, <2>5, <2>6, <2>7, <2>8, <2>9, <2>10, <2>11 DEF StageNext
<1>3. QED BY <1>1, <1>2

\* A step of an executor is one of the loop it drives, or leaves the loop alone.
LEMMA StageStepIsLoopStep == [StageNext]_allVars => [Next]_vars
<1> SUFFICES ASSUME [StageNext]_allVars PROVE [Next]_vars
  OBVIOUS
<1>1. CASE UNCHANGED allVars BY <1>1 DEF allVars
<1>2. CASE Unbound \/ AgentRefuses \/ Rescope \/ ReadStarts
           \/ (\E end \in BlockedCall : ReadRefuses(end))
           \/ (\E m \in Materials : Change(m))
           \/ (\E via \in {"stage", "current"} : CallLaunches(via))
           \/ (\E final \in BOOLEAN : AgentReturns(final))
           \/ (\E coordinated \in BOOLEAN : ReadEnds(coordinated))
  BY <1>2 DEF Unbound, AgentRefuses, Rescope, ReadStarts, ReadRefuses, Change, CallLaunches,
              AgentReturns, ReadEnds
<1>3. ASSUME NEW o, NEW e, ReadReturns(o, e) PROVE [Next]_vars BY <1>3 DEF ReadReturns
<1>4. CASE \E g \in Goals : AgentStarts(g) BY <1>4 DEF AgentStarts, Next
<1>5. CASE LoopMoves \/ Invoke BY <1>5 DEF LoopMoves, Invoke, Next
<1>6. CASE AgentCancelled \/ AgentRaises BY <1>6 DEF AgentCancelled, AgentRaises, Next
<1>7. CASE CodingRefused BY <1>7 DEF CodingRefused, Next
<1>8. CASE \/ \E end \in BlockedCall : InvokeRefused(end)
           \/ \E end \in Refusals : GateRefuses(end)
           \/ \E via \in {"stage", "current"}, end \in BlockedCall : CheckStopsCall(via, end)
           \/ \E end \in Endings, ev \in BOOLEAN : CallReturns(end, ev)
  <2>1. \E o : Observe(o) BY <1>8 DEF InvokeRefused, GateRefuses, CheckStopsCall, CallReturns
  <2>2. \E s \in {0, 1}, e \in {0, 1} : Return(s, e) BY <2>1 DEF Observe
  <2>3. QED BY <2>2 DEF Next
<1>9. QED
  BY <1>1, <1>2, <1>3, <1>4, <1>5, <1>6, <1>7, <1>8 DEF StageNext

\* What the executors do to the tool-use loop is what ToolUseLoop.run does by
\* itself: a stage is a run of AgentLoop, and what holds of every run of the
\* loop holds of the stage's.
THEOREM StageRunsTheLoop == StageSpec => Spec
<1>1. StageInit => Init BY DEF StageInit
<1>2. QED BY <1>1, StageStepIsLoopStep, PTL DEF StageSpec, Spec

\* So a stage's final answer passes the runner's gate also in the executor that
\* drives the loop, with its restrictions, cancellations and telemetry failures.
THEOREM StageFinalMeetsGate == StageSpec => []FinalPassesGate
<1>1. QED BY StageRunsTheLoop, FinalMeetsGate, PTL

\* And it acts no more after a failed call, and ends blocked unless it completes.
THEOREM StageStopsInExecutor == StageSpec => []StageStopsBlocked
<1>1. QED BY StageRunsTheLoop, StageStops, PTL

\* Every reachable state of the executors has the invariant.
THEOREM StageInvariantHolds == StageSpec => []StageInv
<1>1. StageSpec => []LoopInv BY StageRunsTheLoop, LoopInvariant, PTL
<1>2. QED BY <1>1, StageInitHolds, StageNextKeeps, PTL DEF StageSpec

\* After a stage the operator's own permission mode and prompt are back on the
\* agent's coordinator, replaced meanwhile or not.
THEOREM OwnModeIsRestored == StageSpec => []OwnModeRestored
<1>1. StageInv => OwnModeRestored BY DEF StageInv
<1>2. QED BY <1>1, StageInvariantHolds, PTL

\* finish and _blocked hand over as completed only what is proven, and the read
\* executor repeats a read only after a timeout and up to max_attempts.
THEOREM StageEndsOnProof == StageSpec => []StageIsProven
<1>1. StageInv => StageIsProven BY DEF StageInv, StageIsProven
<1>2. QED BY <1>1, StageInvariantHolds, PTL

\* Whichever coordinator a call goes through, it asks the stage's check at the
\* launch: nothing the stage was bound to has changed by then.
THEOREM LaunchesAreBoundToStage == StageSpec => LaunchedAsBound
<1>1. ASSUME StageInv, [StageNext]_allVars, call' = "launched", call # "launched"
      PROVE  moved = {}
  <2>1. PICK via \in {"stage", "current"} : CallLaunches(via)
    BY <1>1 DEF StageNext, allVars, stageVars, Unbound, AgentRefuses, ReadStarts, Rescope,
                LoopMoves, Invoke, AgentStarts, Change, Observe, InvokeRefused, ReadRefuses,
                CodingRefused, GateRefuses, CheckStopsCall, CallReturns, AgentCancelled,
                AgentRaises, AgentReturns, ReadReturns, ReadEnds
  <2>2. coord[via].check BY <1>1, <2>1 DEF CallLaunches, StageInv, AgentIsBound
  <2>3. QED BY <2>1, <2>2 DEF CallLaunches
<1>2. StageInv /\ [StageNext]_allVars =>
         [call' = "launched" /\ call # "launched" => moved = {}]_allVars
  BY <1>1
<1>3. QED BY <1>2, StageInvariantHolds, PTL DEF StageSpec, LaunchedAsBound
============================================================================
