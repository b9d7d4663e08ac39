-------------------------- MODULE TwoOperatorsProofs --------------------------
(***************************************************************************)
(* Two processes without a lease never fork a mission.  AP and BP are the  *)
(* runner's lemmas (RunnerSteps) read for process A and for process B: a   *)
(* step of a process is a step of the runner on its own call, and passes   *)
(* by the other call without touching what that one rests on.              *)
(***************************************************************************)
EXTENDS TwoOperators, TLAPS

AP == INSTANCE RunnerSteps WITH run <- runA, held <- heldA
BP == INSTANCE RunnerSteps WITH run <- runB, held <- heldB

\* What both processes assume of their constants.
LEMMA Constants ==
    /\ MaxSessions \in Nat \ {0}
    /\ MaxRevision \in Nat /\ MaxLineage \in Nat
    /\ MaxDispatches \in Nat /\ MaxReserved \in Nat
    /\ RepeatStop \in BOOLEAN
    /\ StagesOf \in [Workflows -> SUBSET Stage]
    /\ Deps \in [Workflows -> [Stage -> SUBSET Stage]]
    /\ \A w \in Workflows, st \in Stage : Deps[w][st] \subseteq StagesOf[w]
    /\ Human \in [Workflows -> SUBSET Stage]
    /\ Steps \in [Workflows -> [Stage -> 1..32]]
    /\ Declared \in [Workflows -> [Stage -> Nat]]
    /\ ByName \in [Workflows -> [Stage -> Nat]]
    /\ Kinds \subseteq {"plain", "core", "budgeted"}
BY BoundsAssumption, WorkflowAssumption

\* Nil is none of the values of process A.
LEMMA NilA ==
    /\ Nil \notin Stage /\ Nil \notin AP!Sessions
    /\ Nil \notin AP!Decisions /\ Nil \notin AP!Blobs
    /\ Nil \notin AP!Ops \cup AP!PCs \cup AP!TaskStatuses \cup AP!NodeStatuses
<1>1. /\ A!Sessions = AP!Sessions /\ A!Decisions = AP!Decisions /\ A!Blobs = AP!Blobs
      /\ A!Ops = AP!Ops /\ A!PCs = AP!PCs /\ A!TaskStatuses = AP!TaskStatuses
      /\ A!NodeStatuses = AP!NodeStatuses
  BY DEF A!Sessions, AP!Sessions, A!Decisions, AP!Decisions, A!Blobs, AP!Blobs, A!Ops, AP!Ops,
      A!PCs, AP!PCs, A!TaskStatuses, AP!TaskStatuses, A!NodeStatuses, AP!NodeStatuses,
      A!Outcomes, AP!Outcomes, A!Fingerprints, AP!Fingerprints, A!Verdicts, AP!Verdicts
<1> QED
  BY <1>1, NilAssumption

\* The same in the terms of process B.
LEMMA NilB ==
    /\ Nil \notin Stage /\ Nil \notin BP!Sessions
    /\ Nil \notin BP!Decisions /\ Nil \notin BP!Blobs
    /\ Nil \notin BP!Ops \cup BP!PCs \cup BP!TaskStatuses \cup BP!NodeStatuses
<1>1. /\ A!Sessions = BP!Sessions /\ A!Decisions = BP!Decisions /\ A!Blobs = BP!Blobs
      /\ A!Ops = BP!Ops /\ A!PCs = BP!PCs /\ A!TaskStatuses = BP!TaskStatuses
      /\ A!NodeStatuses = BP!NodeStatuses
  BY DEF A!Sessions, BP!Sessions, A!Decisions, BP!Decisions, A!Blobs, BP!Blobs, A!Ops, BP!Ops,
      A!PCs, BP!PCs, A!TaskStatuses, BP!TaskStatuses, A!NodeStatuses, BP!NodeStatuses,
      A!Outcomes, BP!Outcomes, A!Fingerprints, BP!Fingerprints, A!Verdicts, BP!Verdicts
<1> QED
  BY <1>1, NilAssumption

\* Process A as the model runs it and as the runner's lemmas know it: the same
\* definitions over the same variables, decision, load and step.
LEMMA SameA ==
    /\ A!Init <=> AP!Init
    /\ A!Next <=> AP!Next
    /\ \A s \in 1..MaxSessions : A!Loadable(s) <=> AP!Loadable(s)
<1> USE DEF A!store, AP!store, A!history, AP!history, A!Sessions, AP!Sessions, A!IdleRun,
    AP!IdleRun, A!Idle, AP!Idle, A!At, AP!At, A!Save, AP!Save, A!Touch, AP!Touch,
    A!Mark, AP!Mark, A!Consume, AP!Consume
<1>1. \A s : A!Lineage(s) = AP!Lineage(s)
  <2> TAKE s
  <2> QED
    BY Zenon DEF A!Lineage, AP!Lineage
<1>2. \A s : A!LineageDepth(s) = AP!LineageDepth(s)
  <2> TAKE s
  <2>1. A!Lineage(s) = AP!Lineage(s)
    BY <1>1
  <2>2. A!Cardinality(A!Lineage(s)) = AP!Cardinality(A!Lineage(s))
    BY Zenon DEF A!Cardinality, AP!Cardinality
  <2> QED
    BY <2>1, <2>2 DEF A!LineageDepth, AP!LineageDepth
<1>3. \A s : A!Loadable(s) <=> AP!Loadable(s)
  BY <1>1, <1>2 DEF A!Loadable, AP!Loadable, A!StopMatchesTransition,
      AP!StopMatchesTransition, A!LinkHolds, AP!LinkHolds
<1>4. A!SavePlan <=> AP!SavePlan
  BY DEF A!SavePlan, AP!SavePlan
<1>5. A!SaveTaskState <=> AP!SaveTaskState
  BY DEF A!SaveTaskState, AP!SaveTaskState
<1>6. A!LinkReplacement <=> AP!LinkReplacement
  BY DEF A!LinkReplacement, AP!LinkReplacement
<1>7. A!DecideCore <=> AP!DecideCore
  BY DEF A!DecideCore, AP!DecideCore, A!Decide, AP!Decide, A!Fingerprint, AP!Fingerprint,
      A!NextStage, AP!NextStage, A!CoreReady, AP!CoreReady, A!DepsDone, AP!DepsDone,
      A!First, AP!First, A!Outcome, AP!Outcome, A!HasFailed, AP!HasFailed, A!Ambiguous,
      AP!Ambiguous, A!Agents, AP!Agents, A!Unproven, AP!Unproven, A!AllSucceeded,
      AP!AllSucceeded, A!BudgetCovers, AP!BudgetCovers
<1>8. A!ReviewCore <=> AP!ReviewCore
  BY DEF A!ReviewCore, AP!ReviewCore
<1>9. A!StopCore <=> AP!StopCore
  BY DEF A!StopCore, AP!StopCore, A!StoppedBlob, AP!StoppedBlob
<1>10. A!AdvanceSettle <=> AP!AdvanceSettle
  BY DEF A!AdvanceSettle, AP!AdvanceSettle
<1>11. A!AdvanceAwait <=> AP!AdvanceAwait
  BY DEF A!AdvanceAwait, AP!AdvanceAwait
<1>12. A!AdvanceHandoff <=> AP!AdvanceHandoff
  BY DEF A!AdvanceHandoff, AP!AdvanceHandoff, A!Handoff, AP!Handoff
<1>13. A!RecoverInterrupted <=> AP!RecoverInterrupted
  BY DEF A!RecoverInterrupted, AP!RecoverInterrupted, A!Recovered, AP!Recovered
<1>14. A!ApproveCoreStage <=> AP!ApproveCoreStage
  BY DEF A!ApproveCoreStage, AP!ApproveCoreStage
<1>15. A!ApproveHumanStage <=> AP!ApproveHumanStage
  BY DEF A!ApproveHumanStage, AP!ApproveHumanStage, A!Approvable, AP!Approvable,
      A!DepsDone, AP!DepsDone
<1>16. A!LoopEnd <=> AP!LoopEnd
  BY DEF A!LoopEnd, AP!LoopEnd, A!ReadyNodes, AP!ReadyNodes, A!DepsDone, AP!DepsDone,
      A!Picks, AP!Picks, A!FinalStatus, AP!FinalStatus, A!AllSucceeded, AP!AllSucceeded,
      A!Decide, AP!Decide, A!Fingerprint, AP!Fingerprint, A!NextStage, AP!NextStage,
      A!CoreReady, AP!CoreReady, A!First, AP!First, A!Outcome, AP!Outcome, A!HasFailed,
      AP!HasFailed, A!Ambiguous, AP!Ambiguous, A!Agents, AP!Agents, A!Unproven,
      AP!Unproven, A!BudgetCovers, AP!BudgetCovers
<1>17. A!CheckpointRow <=> AP!CheckpointRow
  BY DEF A!CheckpointRow, AP!CheckpointRow
<1>18. A!CheckpointSave <=> AP!CheckpointSave
  BY DEF A!CheckpointSave, AP!CheckpointSave
<1>19. A!InvokeExecutor <=> AP!InvokeExecutor
  BY DEF A!InvokeExecutor, AP!InvokeExecutor
<1>20. A!Settle <=> AP!Settle
  BY DEF A!Settle, AP!Settle
<1>21. A!CloseSession <=> AP!CloseSession
  BY DEF A!CloseSession, AP!CloseSession
<1>22. A!Crash <=> AP!Crash
  BY DEF A!Crash, AP!Crash
<1>23. \A s : A!CreateSession(s) <=> AP!CreateSession(s)
  BY DEF A!CreateSession, AP!CreateSession
<1>24. \A w : A!ReplanCore(w) <=> AP!ReplanCore(w)
  BY DEF A!ReplanCore, AP!ReplanCore, A!ReplacementBlob, AP!ReplacementBlob, A!NewBlob,
      AP!NewBlob, A!ReplannedBlob, AP!ReplannedBlob
<1>25. \A st : A!LoopHuman(st) <=> AP!LoopHuman(st)
  BY DEF A!LoopHuman, AP!LoopHuman, A!Picks, AP!Picks, A!ReadyNodes, AP!ReadyNodes,
      A!DepsDone, AP!DepsDone
<1>26. \A st : A!LoopAgent(st) <=> AP!LoopAgent(st)
  BY DEF A!LoopAgent, AP!LoopAgent, A!Picks, AP!Picks, A!ReadyNodes, AP!ReadyNodes,
      A!DepsDone, AP!DepsDone
<1>27. \A r : A!RecordResult(r) <=> AP!RecordResult(r)
  BY DEF A!RecordResult, AP!RecordResult, A!NodeAfter, AP!NodeAfter, A!ActiveAfter,
      AP!ActiveAfter
<1>28. \A k, w : A!Start(k, w) <=> AP!Start(k, w)
  BY DEF A!Start, AP!Start, A!NewBlob, AP!NewBlob
<1>29. ASSUME NEW s PROVE A!CallDecide(s) <=> AP!CallDecide(s)
  BY <1>3, SMTT(40)
  DEF A!CallDecide, AP!CallDecide, A!Enter, AP!Enter, A!CanEnter, AP!CanEnter
<1>30. ASSUME NEW s PROVE A!IssuedCore(s) <=> AP!IssuedCore(s)
  BY <1>3, ZenonT(60)
  DEF A!IssuedCore, AP!IssuedCore, A!ValidDecision, AP!ValidDecision, A!Decide,
      AP!Decide, A!Fingerprint, AP!Fingerprint, A!NextStage, AP!NextStage, A!CoreReady,
      AP!CoreReady, A!DepsDone, AP!DepsDone, A!First, AP!First, A!Outcome, AP!Outcome,
      A!HasFailed, AP!HasFailed, A!Ambiguous, AP!Ambiguous, A!Agents, AP!Agents,
      A!Unproven, AP!Unproven, A!AllSucceeded, AP!AllSucceeded, A!BudgetCovers,
      AP!BudgetCovers
<1>31. ASSUME NEW op, NEW s PROVE A!CallCore(op, s) <=> AP!CallCore(op, s)
  BY <1>2, <1>3, ZenonT(60)
  DEF A!CallCore, AP!CallCore, A!ReviewOutcomes, AP!ReviewOutcomes, A!ValidDecision,
      AP!ValidDecision, A!Decide, AP!Decide, A!Fingerprint, AP!Fingerprint, A!NextStage,
      AP!NextStage, A!CoreReady, AP!CoreReady, A!DepsDone, AP!DepsDone, A!First,
      AP!First, A!Outcome, AP!Outcome, A!HasFailed, AP!HasFailed, A!Ambiguous,
      AP!Ambiguous, A!Agents, AP!Agents, A!Unproven, AP!Unproven, A!AllSucceeded,
      AP!AllSucceeded, A!BudgetCovers, AP!BudgetCovers, A!Enter, AP!Enter, A!CanEnter,
      AP!CanEnter, A!MayReplan, AP!MayReplan
<1>32. ASSUME NEW s, NEW st PROVE A!CallRun(s, st) <=> AP!CallRun(s, st)
  BY <1>3
  DEF A!CallRun, AP!CallRun, A!CanEnter, AP!CanEnter, A!CompatibilityRefused,
      AP!CompatibilityRefused, A!ReviewOutcomes, AP!ReviewOutcomes, A!Outcome,
      AP!Outcome, A!CoreReady, AP!CoreReady, A!DepsDone, AP!DepsDone, A!NextStage,
      AP!NextStage, A!First, AP!First, A!HasFailed, AP!HasFailed, A!Ambiguous,
      AP!Ambiguous, A!Agents, AP!Agents, A!Unproven, AP!Unproven, A!AllSucceeded,
      AP!AllSucceeded, A!BudgetCovers, AP!BudgetCovers
<1>33. A!Init <=> AP!Init
  BY DEF A!Init, AP!Init
<1> HIDE DEF A!store, AP!store, A!history, AP!history, A!IdleRun,
    AP!IdleRun, A!Idle, AP!Idle, A!At, AP!At, A!Save, AP!Save, A!Touch, AP!Touch,
    A!Mark, AP!Mark, A!Consume, AP!Consume
<1>34. A!Step <=> AP!Step
  BY <1>4, <1>5, <1>6, <1>7, <1>8, <1>9, <1>10, <1>11, <1>12, <1>13, <1>14, <1>15, <1>16,
     <1>17, <1>18, <1>19, <1>20, <1>21, <1>23, <1>24, <1>25, <1>26, <1>27
  DEF A!Step, AP!Step, A!Results, AP!Results
<1>35. A!Request <=> AP!Request
  BY <1>28, <1>29, <1>30, <1>31, <1>32
  DEF A!Request, AP!Request
<1> QED
  BY <1>22, <1>33, <1>3, <1>34, <1>35 DEF A!Next, AP!Next

\* Process B as the model runs it and as the runner's lemmas know it: the same
\* definitions over the same variables, decision, load and step.
LEMMA SameB ==
    /\ B!Init <=> BP!Init
    /\ B!Next <=> BP!Next
    /\ \A s \in 1..MaxSessions : B!Loadable(s) <=> BP!Loadable(s)
<1> USE DEF B!store, BP!store, B!history, BP!history, B!Sessions, BP!Sessions, B!IdleRun,
    BP!IdleRun, B!Idle, BP!Idle, B!At, BP!At, B!Save, BP!Save, B!Touch, BP!Touch,
    B!Mark, BP!Mark, B!Consume, BP!Consume
<1>1. \A s : B!Lineage(s) = BP!Lineage(s)
  <2> TAKE s
  <2> QED
    BY Zenon DEF B!Lineage, BP!Lineage
<1>2. \A s : B!LineageDepth(s) = BP!LineageDepth(s)
  <2> TAKE s
  <2>1. B!Lineage(s) = BP!Lineage(s)
    BY <1>1
  <2>2. B!Cardinality(B!Lineage(s)) = BP!Cardinality(B!Lineage(s))
    BY Zenon DEF B!Cardinality, BP!Cardinality
  <2> QED
    BY <2>1, <2>2 DEF B!LineageDepth, BP!LineageDepth
<1>3. \A s : B!Loadable(s) <=> BP!Loadable(s)
  BY <1>1, <1>2 DEF B!Loadable, BP!Loadable, B!StopMatchesTransition,
      BP!StopMatchesTransition, B!LinkHolds, BP!LinkHolds
<1>4. B!SavePlan <=> BP!SavePlan
  BY DEF B!SavePlan, BP!SavePlan
<1>5. B!SaveTaskState <=> BP!SaveTaskState
  BY DEF B!SaveTaskState, BP!SaveTaskState
<1>6. B!LinkReplacement <=> BP!LinkReplacement
  BY DEF B!LinkReplacement, BP!LinkReplacement
<1>7. B!DecideCore <=> BP!DecideCore
  BY DEF B!DecideCore, BP!DecideCore, B!Decide, BP!Decide, B!Fingerprint, BP!Fingerprint,
      B!NextStage, BP!NextStage, B!CoreReady, BP!CoreReady, B!DepsDone, BP!DepsDone,
      B!First, BP!First, B!Outcome, BP!Outcome, B!HasFailed, BP!HasFailed, B!Ambiguous,
      BP!Ambiguous, B!Agents, BP!Agents, B!Unproven, BP!Unproven, B!AllSucceeded,
      BP!AllSucceeded, B!BudgetCovers, BP!BudgetCovers
<1>8. B!ReviewCore <=> BP!ReviewCore
  BY DEF B!ReviewCore, BP!ReviewCore
<1>9. B!StopCore <=> BP!StopCore
  BY DEF B!StopCore, BP!StopCore, B!StoppedBlob, BP!StoppedBlob
<1>10. B!AdvanceSettle <=> BP!AdvanceSettle
  BY DEF B!AdvanceSettle, BP!AdvanceSettle
<1>11. B!AdvanceAwait <=> BP!AdvanceAwait
  BY DEF B!AdvanceAwait, BP!AdvanceAwait
<1>12. B!AdvanceHandoff <=> BP!AdvanceHandoff
  BY DEF B!AdvanceHandoff, BP!AdvanceHandoff, B!Handoff, BP!Handoff
<1>13. B!RecoverInterrupted <=> BP!RecoverInterrupted
  BY DEF B!RecoverInterrupted, BP!RecoverInterrupted, B!Recovered, BP!Recovered
<1>14. B!ApproveCoreStage <=> BP!ApproveCoreStage
  BY DEF B!ApproveCoreStage, BP!ApproveCoreStage
<1>15. B!ApproveHumanStage <=> BP!ApproveHumanStage
  BY DEF B!ApproveHumanStage, BP!ApproveHumanStage, B!Approvable, BP!Approvable,
      B!DepsDone, BP!DepsDone
<1>16. B!LoopEnd <=> BP!LoopEnd
  BY DEF B!LoopEnd, BP!LoopEnd, B!ReadyNodes, BP!ReadyNodes, B!DepsDone, BP!DepsDone,
      B!Picks, BP!Picks, B!FinalStatus, BP!FinalStatus, B!AllSucceeded, BP!AllSucceeded,
      B!Decide, BP!Decide, B!Fingerprint, BP!Fingerprint, B!NextStage, BP!NextStage,
      B!CoreReady, BP!CoreReady, B!First, BP!First, B!Outcome, BP!Outcome, B!HasFailed,
      BP!HasFailed, B!Ambiguous, BP!Ambiguous, B!Agents, BP!Agents, B!Unproven,
      BP!Unproven, B!BudgetCovers, BP!BudgetCovers
<1>17. B!CheckpointRow <=> BP!CheckpointRow
  BY DEF B!CheckpointRow, BP!CheckpointRow
<1>18. B!CheckpointSave <=> BP!CheckpointSave
  BY DEF B!CheckpointSave, BP!CheckpointSave
<1>19. B!InvokeExecutor <=> BP!InvokeExecutor
  BY DEF B!InvokeExecutor, BP!InvokeExecutor
<1>20. B!Settle <=> BP!Settle
  BY DEF B!Settle, BP!Settle
<1>21. B!CloseSession <=> BP!CloseSession
  BY DEF B!CloseSession, BP!CloseSession
<1>22. B!Crash <=> BP!Crash
  BY DEF B!Crash, BP!Crash
<1>23. \A s : B!CreateSession(s) <=> BP!CreateSession(s)
  BY DEF B!CreateSession, BP!CreateSession
<1>24. \A w : B!ReplanCore(w) <=> BP!ReplanCore(w)
  BY DEF B!ReplanCore, BP!ReplanCore, B!ReplacementBlob, BP!ReplacementBlob, B!NewBlob,
      BP!NewBlob, B!ReplannedBlob, BP!ReplannedBlob
<1>25. \A st : B!LoopHuman(st) <=> BP!LoopHuman(st)
  BY DEF B!LoopHuman, BP!LoopHuman, B!Picks, BP!Picks, B!ReadyNodes, BP!ReadyNodes,
      B!DepsDone, BP!DepsDone
<1>26. \A st : B!LoopAgent(st) <=> BP!LoopAgent(st)
  BY DEF B!LoopAgent, BP!LoopAgent, B!Picks, BP!Picks, B!ReadyNodes, BP!ReadyNodes,
      B!DepsDone, BP!DepsDone
<1>27. \A r : B!RecordResult(r) <=> BP!RecordResult(r)
  BY DEF B!RecordResult, BP!RecordResult, B!NodeAfter, BP!NodeAfter, B!ActiveAfter,
      BP!ActiveAfter
<1>28. \A k, w : B!Start(k, w) <=> BP!Start(k, w)
  BY DEF B!Start, BP!Start, B!NewBlob, BP!NewBlob
<1>29. ASSUME NEW s PROVE B!CallDecide(s) <=> BP!CallDecide(s)
  BY <1>3
  DEF B!CallDecide, BP!CallDecide, B!Enter, BP!Enter, B!CanEnter, BP!CanEnter
<1>30. ASSUME NEW s PROVE B!IssuedCore(s) <=> BP!IssuedCore(s)
  BY <1>3
  DEF B!IssuedCore, BP!IssuedCore, B!ValidDecision, BP!ValidDecision, B!Decide,
      BP!Decide, B!Fingerprint, BP!Fingerprint, B!NextStage, BP!NextStage, B!CoreReady,
      BP!CoreReady, B!DepsDone, BP!DepsDone, B!First, BP!First, B!Outcome, BP!Outcome,
      B!HasFailed, BP!HasFailed, B!Ambiguous, BP!Ambiguous, B!Agents, BP!Agents,
      B!Unproven, BP!Unproven, B!AllSucceeded, BP!AllSucceeded, B!BudgetCovers,
      BP!BudgetCovers
<1>31. ASSUME NEW op, NEW s PROVE B!CallCore(op, s) <=> BP!CallCore(op, s)
  BY <1>2, <1>3
  DEF B!CallCore, BP!CallCore, B!ReviewOutcomes, BP!ReviewOutcomes, B!ValidDecision,
      BP!ValidDecision, B!Decide, BP!Decide, B!Fingerprint, BP!Fingerprint, B!NextStage,
      BP!NextStage, B!CoreReady, BP!CoreReady, B!DepsDone, BP!DepsDone, B!First,
      BP!First, B!Outcome, BP!Outcome, B!HasFailed, BP!HasFailed, B!Ambiguous,
      BP!Ambiguous, B!Agents, BP!Agents, B!Unproven, BP!Unproven, B!AllSucceeded,
      BP!AllSucceeded, B!BudgetCovers, BP!BudgetCovers, B!Enter, BP!Enter, B!CanEnter,
      BP!CanEnter, B!MayReplan, BP!MayReplan
<1>32. ASSUME NEW s, NEW st PROVE B!CallRun(s, st) <=> BP!CallRun(s, st)
  BY <1>3
  DEF B!CallRun, BP!CallRun, B!CanEnter, BP!CanEnter, B!CompatibilityRefused,
      BP!CompatibilityRefused, B!ReviewOutcomes, BP!ReviewOutcomes, B!Outcome,
      BP!Outcome, B!CoreReady, BP!CoreReady, B!DepsDone, BP!DepsDone, B!NextStage,
      BP!NextStage, B!First, BP!First, B!HasFailed, BP!HasFailed, B!Ambiguous,
      BP!Ambiguous, B!Agents, BP!Agents, B!Unproven, BP!Unproven, B!AllSucceeded,
      BP!AllSucceeded, B!BudgetCovers, BP!BudgetCovers
<1>33. B!Init <=> BP!Init
  BY DEF B!Init, BP!Init
<1> HIDE DEF B!store, BP!store, B!history, BP!history, B!IdleRun,
    BP!IdleRun, B!Idle, BP!Idle, B!At, BP!At, B!Save, BP!Save, B!Touch, BP!Touch,
    B!Mark, BP!Mark, B!Consume, BP!Consume
<1>34. B!Step <=> BP!Step
  BY <1>4, <1>5, <1>6, <1>7, <1>8, <1>9, <1>10, <1>11, <1>12, <1>13, <1>14, <1>15, <1>16,
     <1>17, <1>18, <1>19, <1>20, <1>21, <1>23, <1>24, <1>25, <1>26, <1>27
  DEF B!Step, BP!Step, B!Results, BP!Results
<1>35. B!Request <=> BP!Request
  BY <1>28, <1>29, <1>30, <1>31, <1>32
  DEF B!Request, BP!Request
<1> QED
  BY <1>22, <1>33, <1>3, <1>34, <1>35 DEF B!Next, BP!Next

-----------------------------------------------------------------------------
\* Every process works on its own kin, the two never create the same session,
\* and only process A starts the mission.
Apart == AP!Making(runA) /\ BP!Making(runB) => runA.kidSid # runB.kidSid
TwoInv == AP!KinInv /\ BP!KinInv /\ Apart /\ runB.op # "start"

\* The two processes read and write documents of the same types.
LEMMA SameTypes ==
    /\ AP!Blobs = BP!Blobs /\ AP!Decisions = BP!Decisions /\ AP!NodeStatuses = BP!NodeStatuses
BY DEF AP!Sessions, BP!Sessions, AP!Decisions, BP!Decisions, AP!Blobs, BP!Blobs,
    AP!TaskStatuses, BP!TaskStatuses, AP!NodeStatuses, BP!NodeStatuses,
    AP!Outcomes, BP!Outcomes, AP!Fingerprints, BP!Fingerprints, AP!Verdicts, BP!Verdicts

\* A call that another process's step passes by keeps its kin: its session
\* stays under its parent, and nobody else saves the session it creates.
LEMMA BystanderB ==
    ASSUME TwoInv, AP!KinInv', AP!KinStep, runB' = runB, heldB' = heldB
    PROVE  BP!KinInv' /\ Apart' /\ runB'.op # "start"
<1> USE DEF AP!Sessions, BP!Sessions
<1>1. BP!TypeOK'
  <2>1. AP!TypeOK'
    BY DEF AP!KinInv
  <2>2. heldB \in BP!Decisions \cup {Nil} /\ runB \in BP!Runs
    BY DEF TwoInv, BP!KinInv, BP!TypeOK
  <2> QED
    BY <2>1, <2>2, SameTypes DEF BP!TypeOK, AP!TypeOK
<1>2. BP!RunShape'
  BY DEF TwoInv, BP!KinInv, BP!RunShape, BP!Started, BP!Checkpointing
<1>3. BP!StoreKin'
  BY DEF AP!KinInv, AP!StoreKin, BP!StoreKin
<1>4. Apart'
  BY DEF TwoInv, BP!KinInv, BP!CallKin, BP!RunShape, BP!Creating, BP!Making, Apart, AP!KinStep, AP!Making
<1>5. BP!CallKin'
  <2>1. BP!Started => runB.sid \in BP!Sessions
    BY DEF TwoInv, BP!KinInv, BP!RunShape
  <2>2. BP!Making(runB) => runB.kidSid \in BP!Sessions
    BY DEF TwoInv, BP!KinInv, BP!RunShape, BP!Creating, BP!Making
  <2>3. BP!Making(runB) => blob[runB.kidSid] = Nil /\ blob'[runB.kidSid] = Nil
    <3> SUFFICES ASSUME BP!Making(runB) PROVE blob[runB.kidSid] = Nil /\ blob'[runB.kidSid] = Nil
      OBVIOUS
    <3>1. blob[runB.kidSid] = Nil
      BY DEF TwoInv, BP!KinInv, BP!CallKin
    <3>2. ~ (runA.pc = "save_state" /\ runB.kidSid = runA.kidSid)
      BY DEF TwoInv, Apart, AP!Making
    <3> QED
      BY <2>2, <3>1, <3>2 DEF AP!KinStep
  <2> QED
    BY <2>1, <2>2, <2>3 DEF TwoInv, BP!KinInv, BP!CallKin, BP!Started, AP!KinStep, BP!Making
<1> QED
  BY <1>1, <1>2, <1>3, <1>4, <1>5 DEF BP!KinInv, TwoInv

\* The same of process A, which may be about to save the first document.
LEMMA BystanderA ==
    ASSUME TwoInv, BP!KinInv', BP!KinStep, runA' = runA, heldA' = heldA
    PROVE  AP!KinInv' /\ Apart'
<1> USE DEF AP!Sessions, BP!Sessions
<1>1. AP!TypeOK'
  <2>1. BP!TypeOK'
    BY DEF BP!KinInv
  <2>2. heldA \in AP!Decisions \cup {Nil} /\ runA \in AP!Runs
    BY DEF TwoInv, AP!KinInv, AP!TypeOK
  <2> QED
    BY <2>1, <2>2, SameTypes DEF AP!TypeOK, BP!TypeOK
<1>2. AP!RunShape'
  BY DEF TwoInv, AP!KinInv, AP!RunShape, AP!Started, AP!Checkpointing
<1>3. AP!StoreKin'
  BY DEF BP!KinInv, BP!StoreKin, AP!StoreKin
<1>4. Apart'
  BY DEF TwoInv, AP!KinInv, AP!CallKin, AP!RunShape, AP!Creating, AP!Making, Apart, BP!KinStep, BP!Making
<1>5. AP!CallKin'
  <2>1. AP!Started => runA.sid \in AP!Sessions
    BY DEF TwoInv, AP!KinInv, AP!RunShape
  <2>2. AP!Making(runA) => runA.kidSid \in AP!Sessions
    BY DEF TwoInv, AP!KinInv, AP!RunShape, AP!Creating, AP!Making
  <2>3. AP!Making(runA) => blob[runA.kidSid] = Nil /\ blob'[runA.kidSid] = Nil
    <3> SUFFICES ASSUME AP!Making(runA) PROVE blob[runA.kidSid] = Nil /\ blob'[runA.kidSid] = Nil
      OBVIOUS
    <3>1. blob[runA.kidSid] = Nil
      BY DEF TwoInv, AP!KinInv, AP!CallKin
    <3>2. ~ (runB.pc = "save_state" /\ runA.kidSid = runB.kidSid)
      BY DEF TwoInv, Apart, BP!Making
    <3> QED
      BY <2>2, <3>1, <3>2 DEF BP!KinStep
  <2>4. ASSUME runA.op = "start", NEW s \in AP!Sessions PROVE blob'[s] = Nil
    <3>1. \A t \in AP!Sessions : blob[t] = Nil
      BY <2>4 DEF TwoInv, AP!KinInv, AP!CallKin
    <3>2. runB.pc # "save_state"
      <4> SUFFICES ASSUME runB.pc = "save_state" PROVE FALSE
        OBVIOUS
      <4>1. BP!Started /\ runB.sid \in BP!Sessions
        BY DEF TwoInv, BP!KinInv, BP!RunShape, BP!Started
      <4> QED
        BY <3>1, <4>1 DEF TwoInv, BP!KinInv, BP!CallKin
    <3> QED
      BY <2>4, <3>1, <3>2 DEF BP!KinStep
  <2>5. AP!Started => blob'[runA.sid] # Nil /\ runA.mem.parent = blob'[runA.sid].parent
    BY <2>1 DEF TwoInv, AP!KinInv, AP!CallKin, BP!KinStep
  <2>6. AP!Making(runA) => srow'[runA.kidSid] # "absent"
    BY <2>2 DEF TwoInv, AP!KinInv, AP!CallKin, BP!KinStep
  <2> QED
    BY <2>3, <2>4, <2>5, <2>6 DEF TwoInv, AP!KinInv, AP!CallKin, AP!Started, AP!Making
<1> QED
  BY <1>1, <1>2, <1>3, <1>4, <1>5 DEF AP!KinInv

\* Before anything was started both calls are idle.
LEMMA TwoInit == Init => TwoInv
<1> SUFFICES ASSUME Init PROVE TwoInv
  OBVIOUS
<1>1. AP!KinInv
  BY SameA, AP!InitKin, NilA, Constants DEF Init
<1>2. BP!KinInv
  BY SameB, BP!InitKin, NilB, Constants DEF Init
<1>3. runB.op = Nil /\ runB.pc = "idle"
  BY DEF Init, B!Init, B!IdleRun
<1>4. runB.op # "start"
  BY <1>3, NilB DEF BP!Ops
<1>5. Apart
  BY <1>3 DEF Apart, BP!Making
<1> QED
  BY <1>1, <1>2, <1>4, <1>5 DEF TwoInv

\* A step of either process keeps both calls and the store in order.
LEMMA TwoKeeps == TwoInv /\ [Next]_vars => TwoInv'
<1> SUFFICES ASSUME TwoInv, [Next]_vars PROVE TwoInv'
  OBVIOUS
<1>1. CASE StepA
  <2>1. AP!KinInv /\ [AP!Next]_(AP!vars)
    BY <1>1, SameA DEF StepA, TwoInv
  <2>2. AP!KinInv' /\ AP!KinStep
    BY <2>1, AP!CallKeepsKin, NilA, Constants
  <2> QED
    BY <1>1, <2>2, BystanderB DEF StepA, TwoInv
<1>2. CASE StepB
  <2>1. BP!KinInv /\ [BP!Next]_(BP!vars)
    BY <1>2, SameB DEF StepB, TwoInv
  <2>2. BP!KinInv' /\ BP!KinStep
    BY <2>1, BP!CallKeepsKin, NilB, Constants
  <2> QED
    BY <1>2, <2>2, BystanderA DEF StepB, TwoInv
<1>3. CASE UNCHANGED vars
  <2>1. AP!KinInv /\ [AP!Next]_(AP!vars)
    BY <1>3 DEF TwoInv, vars, AP!vars
  <2>2. AP!KinInv' /\ AP!KinStep
    BY <2>1, AP!CallKeepsKin, NilA, Constants
  <2> QED
    BY <1>3, <2>2, BystanderB DEF vars, TwoInv
<1> QED
  BY <1>1, <1>2, <1>3 DEF Next

\* Each of the two processes, the store between them, and what the calls do to
\* it, keep their kin whatever the interleaving.
THEOREM TwoOperatorsKin == Spec => []TwoInv
<1>1. Init => TwoInv
  BY TwoInit
<1>2. TwoInv /\ [Next]_vars => TwoInv'
  BY TwoKeeps
<1> QED
  BY <1>1, <1>2, PTL DEF Spec

\* NeverForked: however two processes without a lease interleave, write stale
\* documents over each other and crash, and for missions and lineages of any
\* size, _validate_core_lineage lets at most one session that is not stopped
\* be loaded.
THEOREM TwoOperatorsNeverFork == Spec => []NeverForked
<1>1. TwoInv => NeverForked
  <2> SUFFICES ASSUME TwoInv, NEW s \in 1..MaxSessions, NEW t \in 1..MaxSessions,
                      A!Loadable(s), A!Loadable(t), blob[s].stop = Nil, blob[t].stop = Nil
               PROVE  s = t
    BY DEF NeverForked
  <2>1. AP!TypeOK /\ AP!StoreKin
    BY DEF TwoInv, AP!KinInv
  <2>2. s \in AP!Sessions /\ t \in AP!Sessions
    BY DEF AP!Sessions
  <2>3. AP!Loadable(s) /\ AP!Loadable(t)
    BY SameA
  <2> QED
    BY <2>1, <2>2, <2>3, AP!OneLoadable, NilA, Constants
<1> QED
  BY <1>1, TwoOperatorsKin, PTL
=============================================================================
