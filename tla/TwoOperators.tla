---------------------------- MODULE TwoOperators ----------------------------
(***************************************************************************)
(* Two processes drive one mission: two `decode core` commands in two      *)
(* terminals, each a WorkflowRunner of its own over the same SQLite file.  *)
(* The processes share the store and interleave at its transactions; each  *)
(* has the call it is executing and the decision its operator holds.       *)
(*                                                                         *)
(* The bridge takes no lease (docs/WORKFLOWS.md: task revisions are "not a *)
(* runtime FSM or a concurrent-worker lease"), so what is asked here is    *)
(* only what the documentation still promises of this situation.           *)
(***************************************************************************)
EXTENDS Integers, FiniteSets, TLC

CONSTANTS
    MaxSessions, MaxRevision, MaxLineage, MaxDispatches, MaxReserved,
    Workflows, Stage, StagesOf, Deps, Human, Steps, Declared, ByName,
    Kinds, RepeatStop, Nil

VARIABLES blob, rows, srow, calls, spent, spentSteps, runA, heldA, runB, heldB

shared == <<blob, rows, srow, calls, spent, spentSteps>>
vars == <<blob, rows, srow, calls, spent, spentSteps, runA, heldA, runB, heldB>>

A == INSTANCE WorkflowRunner WITH run <- runA, held <- heldA
B == INSTANCE WorkflowRunner WITH run <- runB, held <- heldB

\* What the runner assumes of its constants, of the one set both processes have.
ASSUME BoundsAssumption ==
    /\ MaxSessions \in Nat \ {0}
    /\ MaxRevision \in Nat /\ MaxLineage \in Nat
    /\ MaxDispatches \in Nat /\ MaxReserved \in Nat
    /\ RepeatStop \in BOOLEAN

ASSUME WorkflowAssumption ==
    /\ StagesOf \in [Workflows -> SUBSET Stage]
    /\ Deps \in [Workflows -> [Stage -> SUBSET Stage]]
    /\ \A w \in Workflows, st \in Stage : Deps[w][st] \subseteq StagesOf[w]
    /\ Human \in [Workflows -> SUBSET Stage]
    /\ Steps \in [Workflows -> [Stage -> 1..32]]
    /\ Declared \in [Workflows -> [Stage -> Nat]]
    /\ ByName \in [Workflows -> [Stage -> Nat]]
    /\ Kinds \subseteq {"plain", "core", "budgeted"}

ASSUME NilAssumption ==
    /\ Nil \notin Stage /\ Nil \notin A!Sessions
    /\ Nil \notin A!Decisions /\ Nil \notin A!Blobs
    /\ Nil \notin A!Ops \cup A!PCs \cup A!TaskStatuses \cup A!NodeStatuses

Init == A!Init /\ B!Init

\* Process A starts the mission; a second mission would share nothing with it.
StepA == A!Next /\ UNCHANGED <<runB, heldB>>
StepB == B!Next /\ runB'.op # "start" /\ UNCHANGED <<runA, heldA>>

Next == StepA \/ StepB

Spec == Init /\ [][Next]_vars

-----------------------------------------------------------------------------
\* Parent/child linkage keeps a mission single even without a lease: whatever
\* stale documents the two processes write over each other, and even if both
\* replan the same parent, at most one session of the mission can be loaded
\* and is not stopped (_validate_core_lineage on every load).
NeverForked ==
    \A s, t \in 1..MaxSessions :
        /\ A!Loadable(s) /\ A!Loadable(t)
        /\ blob[s].stop = Nil /\ blob[t].stop = Nil
        => s = t

\* docs/WORKFLOWS.md: "`stop` prevents further delegation/compatibility
\* execution at a safe boundary; it does not cancel another process in
\* flight."  A saved core_stop stays in the session's document.
StopSurvives ==
    [][\A s \in 1..MaxSessions :
         blob[s] # Nil /\ blob[s].stop # Nil => blob'[s] # Nil /\ blob'[s].stop # Nil]_vars
=============================================================================
