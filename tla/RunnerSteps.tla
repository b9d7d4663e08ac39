---------------------------- MODULE RunnerSteps ----------------------------
(***************************************************************************)
(* Facts about WorkflowRunner that the proofs about one runner and about   *)
(* two on one store share: the operators its actions are built from, the   *)
(* walk from a session to its ancestors (_validate_core_lineage), and what *)
(* every step of a call does to who descends from whom.                    *)
(***************************************************************************)
EXTENDS RunnerInvariant, FiniteSetTheorems, WellFoundedInduction, TLAPS

-----------------------------------------------------------------------------
(* The operators the actions are built from. *)

\* First picks a member: a non-empty set of ranked stages has a least rank.
LEMMA FirstIn ==
    ASSUME NEW S, S \subseteq Stage, S # {}, NEW rank \in [Stage -> Nat]
    PROVE  First(S, rank) \in S
<1> DEFINE T == {rank[x] : x \in S}
<1>1. T \subseteq Nat /\ T # {}
  OBVIOUS
<1>2. \E m \in T : \A k \in T : ~ (<<k, m>> \in OpToRel(<, Nat))
  BY <1>1, NatLessThanWellFounded, WFMin
<1>3. PICK m \in T : \A k \in T : ~ (<<k, m>> \in OpToRel(<, Nat))
  BY <1>2
<1>r. \A k, l \in Nat : k < l => <<k, l>> \in OpToRel(<, Nat)
  BY Zenon DEF OpToRel
<1>4. \A k \in T : m <= k
  <2> SUFFICES ASSUME NEW k \in T PROVE m <= k
    OBVIOUS
  <2>1. ~ (k < m)
    BY <1>1, <1>3, <1>r, Zenon
  <2> QED
    BY <1>1, <2>1
<1>5. PICK x \in S : rank[x] = m
  BY <1>3
<1>6. \A y \in S : rank[x] <= rank[y]
  BY <1>4, <1>5
<1> QED
  BY <1>6 DEF First

\* The planner's next stage is a ready stage of the workflow.
LEMMA NextStageIn ==
    ASSUME NEW w \in Workflows, NEW n, CoreReady(w, n) # {}
    PROVE  NextStage(w, n) \in CoreReady(w, n) /\ NextStage(w, n) \in Stage
<1> DEFINE ready == CoreReady(w, n)
           paused == {st \in ready : n[st] = "needs_review"}
           from == IF paused # {} THEN paused ELSE ready
<1>1. from \subseteq ready /\ from # {} /\ ready \subseteq Stage
  BY WorkflowAssumption DEF CoreReady
<1>2. Declared[w] \in [Stage -> Nat]
  BY WorkflowAssumption
<1>3. First(from, Declared[w]) \in from
  BY <1>1, <1>2, FirstIn
<1>4. NextStage(w, n) = First(from, Declared[w])
  BY DEF NextStage
<1> QED
  BY <1>1, <1>3, <1>4

\* What a delegate decision guarantees about the state it was made on.
LEMMA DelegateMeans ==
    ASSUME NEW b \in Blobs, NEW n, Outcome(b, n) = "delegate"
    PROVE  /\ b.stop = Nil
           /\ b.pending = Nil
           /\ CoreReady(b.wf, n) # {}
           /\ BudgetCovers(b, Steps[b.wf][NextStage(b.wf, n)])
  BY DEF Outcome, Ambiguous

\* A decision on a loaded state is a decision record.
LEMMA DecideType ==
    ASSUME NEW s \in Sessions, NEW b \in Blobs, NEW n \in [Stage -> NodeStatuses]
    PROVE  /\ Decide(s, b, n) \in Decisions
           /\ Decide(s, b, n).outcome = Outcome(b, n)
           /\ Decide(s, b, n).outcome \in {"delegate", "await_approval"} =>
                 /\ Decide(s, b, n).stage = NextStage(b.wf, n)
                 /\ Decide(s, b, n).stage \in Stage
<1> DEFINE o == Outcome(b, n)
<1>1. o \in Outcomes
  BY DEF Outcome, Outcomes
<1>2. o \in {"delegate", "await_approval"} => CoreReady(b.wf, n) # {}
  BY DEF Outcome
<1>3. b.wf \in Workflows
  BY DEF Blobs
<1>4. o \in {"delegate", "await_approval"} => NextStage(b.wf, n) \in Stage
  BY <1>2, <1>3, NextStageIn
<1>5. Fingerprint(b, n) \in Fingerprints
  BY DEF Fingerprint, Fingerprints, Blobs
<1> QED
  BY <1>1, <1>4, <1>5 DEF Decide, Decisions

\* Writing one field of a document leaves a document.
LEMMA FieldWrites ==
    ASSUME NEW b \in Blobs
    PROVE  /\ \A v \in TaskStatuses : [b EXCEPT !.status = v] \in Blobs
           /\ \A v \in Nat : [b EXCEPT !.rev = v] \in Blobs
           /\ \A v \in Nat : [b EXCEPT !.used = v] \in Blobs
           /\ \A v \in Nat : [b EXCEPT !.reserved = v] \in Blobs
           /\ \A v \in Stage \cup {Nil} : [b EXCEPT !.pending = v] \in Blobs
           /\ \A v \in Decisions : [b EXCEPT !.stop = v] \in Blobs
           /\ \A v \in Decisions : [b EXCEPT !.replan = v] \in Blobs
           /\ \A v \in Decisions : [b EXCEPT !.decision = v] \in Blobs
           /\ \A v \in Sessions : [b EXCEPT !.child = v] \in Blobs
           /\ \A v \in Sessions : [b EXCEPT !.parent = v] \in Blobs
           /\ \A v \in Decisions : [b EXCEPT !.via = v] \in Blobs
           /\ \A v \in BOOLEAN : [b EXCEPT !.consumed = v] \in Blobs
           /\ \A v \in [Stage -> Verdicts] : [b EXCEPT !.active = v] \in Blobs
  BY DEF Blobs

\* The fields the fences and the ledger are about.
Core(b) == <<b.kind, b.wf, b.used, b.reserved, b.stop, b.pending>>

\* Touching, marking and consuming a document keep all of them.
LEMMA Updates ==
    ASSUME NEW b \in Blobs
    PROVE  /\ Touch(b) \in Blobs /\ Core(Touch(b)) = Core(b)
           /\ Consume(b) \in Blobs /\ Core(Consume(b)) = Core(b)
           /\ \A status \in TaskStatuses :
                 Mark(b, status) \in Blobs /\ Core(Mark(b, status)) = Core(b)
<1>1. \A c \in Blobs : Touch(c) \in Blobs /\ Core(Touch(c)) = Core(c)
  <2> SUFFICES ASSUME NEW c \in Blobs PROVE Touch(c) \in Blobs /\ Core(Touch(c)) = Core(c)
    OBVIOUS
  <2>1. c.rev + 1 \in Nat
    BY DEF Blobs
  <2>2. Touch(c) \in Blobs
    BY <2>1, FieldWrites DEF Touch
  <2>3. Core(Touch(c)) = Core(c)
    BY DEF Core, Touch, Blobs
  <2> QED
    BY <2>2, <2>3
<1>2. Consume(b) \in Blobs
  BY FieldWrites DEF Consume
<1>3. Core(Consume(b)) = Core(b)
  BY DEF Core, Consume, Blobs
<1>4. \A status \in TaskStatuses : Mark(b, status) \in Blobs /\ Core(Mark(b, status)) = Core(b)
  <2> SUFFICES ASSUME NEW status \in TaskStatuses
               PROVE  Mark(b, status) \in Blobs /\ Core(Mark(b, status)) = Core(b)
    OBVIOUS
  <2> DEFINE c == [b EXCEPT !.status = status]
  <2>1. c \in Blobs
    BY FieldWrites
  <2>2. Core(c) = Core(b)
    BY DEF Core, Blobs
  <2>3. Mark(b, status) = Touch(c)
    BY DEF Mark
  <2> QED
    BY <1>1, <2>1, <2>2, <2>3
<1> QED
  BY <1>1, <1>2, <1>3, <1>4

\* Stopping or replanning changes the stop of a document and no budget.
LEMMA Stops ==
    ASSUME NEW b \in Blobs, NEW d \in Decisions
    PROVE  /\ StoppedBlob(b, d) \in Blobs /\ StoppedBlob(b, d).stop = d
           /\ Core(StoppedBlob(b, d)) = <<b.kind, b.wf, b.used, b.reserved, d, b.pending>>
           /\ ReplannedBlob(b, d) \in Blobs /\ ReplannedBlob(b, d).stop = d
           /\ Core(ReplannedBlob(b, d)) = <<b.kind, b.wf, b.used, b.reserved, d, b.pending>>
<1> DEFINE x == IF b.status \in {"complete", "failed"} THEN Touch(b) ELSE Mark(b, "blocked")
           y == IF b.status = "failed" THEN Touch(b) ELSE Mark(b, "blocked")
           z == [y EXCEPT !.replan = d]
           stop(c) == [c EXCEPT !.stop = d]
<1>0. "blocked" \in TaskStatuses
  BY DEF TaskStatuses
<1>1. x \in Blobs /\ Core(x) = Core(b)
  BY <1>0, Updates
<1>2. y \in Blobs /\ Core(y) = Core(b)
  BY <1>0, Updates
<1>3. z \in Blobs
  BY <1>2, FieldWrites
<1>4. Core(z) = Core(b)
  BY <1>2 DEF Core, Blobs
<1>5. \A c \in Blobs : stop(c) \in Blobs
  BY FieldWrites
<1>6. \A c \in Blobs : Core(c) = Core(b) =>
         Core(stop(c)) = <<b.kind, b.wf, b.used, b.reserved, d, b.pending>>
  BY DEF Core, Blobs
<1>7. /\ stop(x) \in Blobs /\ Core(stop(x)) = <<b.kind, b.wf, b.used, b.reserved, d, b.pending>>
      /\ stop(z) \in Blobs /\ Core(stop(z)) = <<b.kind, b.wf, b.used, b.reserved, d, b.pending>>
  BY <1>1, <1>3, <1>4, <1>5, <1>6
<1>8. StoppedBlob(b, d) = Consume(stop(x))
  BY DEF StoppedBlob
<1>9. ReplannedBlob(b, d) = Consume(stop(z))
  BY DEF ReplannedBlob
<1>10. /\ StoppedBlob(b, d) \in Blobs
       /\ Core(StoppedBlob(b, d)) = <<b.kind, b.wf, b.used, b.reserved, d, b.pending>>
       /\ ReplannedBlob(b, d) \in Blobs
       /\ Core(ReplannedBlob(b, d)) = <<b.kind, b.wf, b.used, b.reserved, d, b.pending>>
  BY <1>7, <1>8, <1>9, Updates
<1> QED
  BY <1>10 DEF Core

\* A handoff charges a budgeted mission one dispatch and the stage's steps.
LEMMA HandoffCharges ==
    ASSUME NEW b \in Blobs, NEW st \in Stage
    PROVE  /\ Handoff(b, st) \in Blobs
           /\ b.kind # "budgeted" =>
                 Core(Handoff(b, st)) = <<b.kind, b.wf, b.used, b.reserved, b.stop, st>>
           /\ b.kind = "budgeted" =>
                 Core(Handoff(b, st)) = <<b.kind, b.wf, b.used + 1,
                                          b.reserved + Steps[b.wf][st], b.stop, st>>
<1>1. b.wf \in Workflows /\ Steps[b.wf][st] \in Nat /\ b.used \in Nat /\ b.reserved \in Nat
  <2>1. b.wf \in Workflows /\ b.used \in Nat /\ b.reserved \in Nat
    BY DEF Blobs
  <2>2. Steps[b.wf][st] \in 1..32
    BY <2>1, WorkflowAssumption
  <2> QED
    BY <2>1, <2>2
<1> DEFINE c == [Consume(b) EXCEPT !.pending = st]
           e == [c EXCEPT !.used = c.used + 1]
           f == [e EXCEPT !.reserved = e.reserved + Steps[b.wf][st]]
<1>2. c \in Blobs
  BY Updates, FieldWrites
<1>3. Core(c) = <<b.kind, b.wf, b.used, b.reserved, b.stop, st>>
  BY Updates DEF Core, Blobs
<1>4. c.used + 1 \in Nat /\ c.used = b.used /\ c.reserved = b.reserved
  BY <1>1, <1>3 DEF Core
<1>5. e \in Blobs
  BY <1>2, <1>4, FieldWrites
<1>6. Core(e) = <<b.kind, b.wf, b.used + 1, b.reserved, b.stop, st>>
  BY <1>2, <1>3, <1>4 DEF Core, Blobs
<1>7. e.reserved = b.reserved
  BY <1>6 DEF Core
<1>8. e.reserved + Steps[b.wf][st] \in Nat
  BY <1>1, <1>7
<1>9. f \in Blobs
  BY <1>5, <1>8, FieldWrites
<1>10. Core(f) = <<b.kind, b.wf, b.used + 1, b.reserved + Steps[b.wf][st], b.stop, st>>
  BY <1>5, <1>6, <1>7 DEF Core, Blobs
<1>11. Handoff(b, st) = IF b.kind = "budgeted" THEN Touch(f) ELSE c
  BY <1>2, <1>5 DEF Handoff, Blobs
<1>12. Touch(f) \in Blobs /\ Core(Touch(f)) = Core(f)
  BY <1>9, Updates
<1> QED
  BY <1>2, <1>3, <1>10, <1>11, <1>12

\* A new session starts unstopped and has spent nothing.
LEMMA NewSession ==
    ASSUME NEW k \in {"plain", "core", "budgeted"}, NEW w \in Workflows
    PROVE  /\ NewBlob(k, w) \in Blobs /\ NewBlob(k, w).kind = k /\ NewBlob(k, w).stop = Nil
           /\ NewBlob(k, w).used = 0 /\ NewBlob(k, w).reserved = 0
  BY DEF NewBlob, Blobs, TaskStatuses, Verdicts

\* A replacement inherits what its parent has spent.
LEMMA Replacement ==
    ASSUME NEW w \in Workflows, NEW p \in Blobs, NEW s \in Sessions, NEW d \in Decisions
    PROVE  /\ ReplacementBlob(p, s, d, w) \in Blobs
           /\ ReplacementBlob(p, s, d, w).kind = p.kind
           /\ ReplacementBlob(p, s, d, w).used = p.used
           /\ ReplacementBlob(p, s, d, w).reserved = p.reserved
<1> DEFINE n == NewBlob(p.kind, w)
<1>1. p.kind \in {"plain", "core", "budgeted"} /\ p.used \in Nat /\ p.reserved \in Nat
  BY DEF Blobs
<1>2. n \in Blobs /\ n.kind = p.kind
  BY <1>1, NewSession
<1>3. ReplacementBlob(p, s, d, w) = [n EXCEPT !.used = p.used, !.reserved = p.reserved,
                                             !.parent = s, !.via = d]
  BY DEF ReplacementBlob
<1> HIDE DEF n
<1> QED
  BY <1>1, <1>2, <1>3 DEF Blobs

\* The program points and statuses the actions write, as members of their sets.
LEMMA Names ==
    /\ "enter" \in PCs /\ "recover" \in PCs /\ "approve" \in PCs /\ "loop" \in PCs
    /\ "checkpoint" \in PCs /\ "save_checkpoint" \in PCs /\ "invoke" \in PCs
    /\ "executing" \in PCs /\ "settle" \in PCs /\ "close" \in PCs /\ "close_first" \in PCs
    /\ "create" \in PCs /\ "save_plan" \in PCs /\ "save_state" \in PCs /\ "link" \in PCs
    /\ "investigating" \in TaskStatuses /\ "blocked" \in TaskStatuses
    /\ "complete" \in TaskStatuses /\ "failed" \in TaskStatuses
    /\ "running" \in NodeStatuses /\ "success" \in NodeStatuses
    /\ "needs_review" \in NodeStatuses /\ "error" \in NodeStatuses
    /\ "start" \in Ops /\ "decide" \in Ops /\ "run" \in Ops
  BY DEF PCs, TaskStatuses, NodeStatuses, Ops

\* The memory of no call at all is well-typed.
LEMMA IdleRunType == IdleRun \in Runs
  BY DEF IdleRun, Runs

-----------------------------------------------------------------------------
(* Walks in any forest: nodes are 1..n, par[t] is the parent of t, 0 when it *)
(* has none.                                                                 *)

\* A parent is created before its child.
Forest(n, par) ==
    /\ par \in [1..n -> 0..n]
    /\ \A t \in 1..n : par[t] < t

\* One unfolding of the walk.
Walked(n, par, f) == [t \in 1..n |-> IF par[t] = 0 THEN {t} ELSE {t} \cup f[par[t]]]

\* A non-empty set of numbers has a least one.
LEMMA LeastNumber ==
    ASSUME NEW T, T \subseteq Nat, T # {}
    PROVE  \E m \in T : \A k \in T : m <= k
<1>1. PICK m \in T : \A k \in T : ~ (<<k, m>> \in OpToRel(<, Nat))
  BY NatLessThanWellFounded, WFMin
<1>2. \A k, l \in Nat : k < l => <<k, l>> \in OpToRel(<, Nat)
  BY Zenon DEF OpToRel
<1>3. ASSUME NEW k \in T PROVE m <= k
  <2>1. ~ (k < m) BY <1>1, <1>2
  <2> QED BY <2>1
<1> QED BY <1>3

\* A non-empty set of numbers up to n has a greatest one.
LEMMA GreatestNumber ==
    ASSUME NEW n \in Nat, NEW T, T \subseteq 0..n, T # {}
    PROVE  \E m \in T : \A k \in T : k <= m
<1> DEFINE R == {n - k : k \in T}
<1>1. R \subseteq Nat /\ R # {}
  <2>1. \A k \in T : n - k \in Nat OBVIOUS
  <2> QED BY <2>1
<1>2. PICK r \in R : \A q \in R : r <= q
  <2> HIDE DEF R
  <2> QED BY <1>1, LeastNumber
<1>3. PICK m \in T : r = n - m OBVIOUS
<1>4. ASSUME NEW k \in T PROVE k <= m
  <2>1. n - m <= n - k BY <1>2, <1>3
  <2> QED BY <2>1
<1> QED BY <1>4

\* The walk is well defined.
LEMMA WalkExists ==
    ASSUME NEW n \in Nat, NEW par, Forest(n, par)
    PROVE  \E f : f = Walked(n, par, f)
<1> DEFINE One(f, t) == IF par[t] = 0 THEN {t} ELSE {t} \cup f[par[t]]
           UpTo(f, k) == \A t \in 1..k : f[t] = One(f, t)
           T == {k \in 0..n : ~ \E f : UpTo(f, k)}
<1>0. \A t \in 1..n : par[t] \in 0..n /\ par[t] < t BY DEF Forest
<1>1. T = {}
  <2> SUFFICES ASSUME T # {} PROVE FALSE OBVIOUS
  <2>1. PICK k \in T : \A j \in T : k <= j
    <3>1. T \subseteq Nat OBVIOUS
    <3> HIDE DEF T
    <3> QED BY <3>1, LeastNumber
  <2>2. k # 0
    <3>1. \A t \in 1..0 : FALSE OBVIOUS
    <3>2. UpTo({}, 0) BY <3>1
    <3> HIDE DEF UpTo
    <3> QED BY <3>2
  <2>3. k \in 1..n /\ k - 1 \in 0..n /\ k - 1 \notin T
    <3>1. k \in 0..n OBVIOUS
    <3>2. k \in 1..n /\ k - 1 \in 0..n /\ ~ (k <= k - 1) BY <3>1, <2>2
    <3> HIDE DEF T
    <3> QED BY <2>1, <3>2
  <2>4. PICK f : UpTo(f, k - 1)
    <3> HIDE DEF UpTo
    <3> QED BY <2>3
  <2> DEFINE g == [t \in 1..n |-> IF t = k THEN One(f, k) ELSE f[t]]
  <2>5. ASSUME NEW t \in 1..k PROVE g[t] = One(g, t)
    <3>1. t \in 1..n /\ par[t] \in 0..n /\ par[t] < t BY <1>0, <2>3
    <3>2. par[t] # 0 => g[par[t]] = f[par[t]]
      <4>1. par[t] # 0 => par[t] \in 1..n /\ par[t] # k BY <3>1, <2>3
      <4> HIDE DEF One
      <4> QED BY <4>1
    <3>3. One(g, t) = One(f, t)
      <4> HIDE DEF g
      <4> QED BY <3>2
    <3>4. g[t] = One(f, t)
      <4>1. CASE t = k BY <4>1, <3>1
      <4>2. CASE t # k
        <5>1. t \in 1..(k - 1) BY <4>2, <2>3
        <5>2. f[t] = One(f, t) BY <5>1, <2>4
        <5>3. g[t] = f[t] BY <4>2, <3>1
        <5> HIDE DEF g, One
        <5> QED BY <5>2, <5>3
      <4> QED BY <4>1, <4>2
    <3> HIDE DEF g, One
    <3> QED BY <3>3, <3>4
  <2>6. UpTo(g, k)
    <3> HIDE DEF g, One
    <3> QED BY <2>5
  <2> HIDE DEF g, UpTo
  <2> QED BY <2>1, <2>6
<1>2. PICK f : UpTo(f, n)
  <2>1. n \notin T BY <1>1
  <2> HIDE DEF UpTo
  <2> QED BY <2>1
<1> DEFINE g == [t \in 1..n |-> f[t]]
<1>3. ASSUME NEW t \in 1..n PROVE g[t] = One(g, t)
  <2>1. par[t] # 0 => par[t] \in 1..n BY <1>0
  <2>2. f[t] = One(f, t) BY <1>2
  <2>3. par[t] # 0 => g[par[t]] = f[par[t]] BY <2>1
  <2> QED BY <2>2, <2>3
<1>4. g = [t \in 1..n |-> One(g, t)]
  <2>1. DOMAIN g = 1..n /\ g = [t \in 1..n |-> g[t]] OBVIOUS
  <2> HIDE DEF g, One
  <2> QED BY <2>1, <1>3
<1> QED BY <1>4, Zenon DEF Walked

\* What the walk from t collects: t, the parent of whatever it collects, and
\* nothing but t and parents of what it collects; all of them no later than t.
Chain(n, par, t, L) ==
    /\ L \subseteq 1..t /\ t \in L
    /\ \A a \in L : par[a] # 0 => par[a] \in L
    /\ \A a \in L : a # t => \E u \in L : par[u] = a

\* The walk from s collects the chain from s to its root.
LEMMA WalkIsChain ==
    ASSUME NEW n \in Nat, NEW par, Forest(n, par), NEW f, f = Walked(n, par, f), NEW s \in 1..n
    PROVE  Chain(n, par, s, f[s])
<1> DEFINE T == {t \in 1..n : ~ Chain(n, par, t, f[t])}
<1>0. \A t \in 1..n : par[t] \in 0..n /\ par[t] < t BY DEF Forest
<1>1. \A t \in 1..n : f[t] = IF par[t] = 0 THEN {t} ELSE {t} \cup f[par[t]]
  BY Zenon DEF Walked
<1>2. T = {}
  <2> SUFFICES ASSUME T # {} PROVE FALSE OBVIOUS
  <2>1. PICK t \in T : \A j \in T : t <= j
    <3>1. T \subseteq Nat OBVIOUS
    <3> HIDE DEF T
    <3> QED BY <3>1, LeastNumber
  <2>2. t \in 1..n OBVIOUS
  <2>3. CASE par[t] = 0
    <3>1. f[t] = {t} BY <1>1, <2>2, <2>3
    <3>2. Chain(n, par, t, f[t]) BY <2>2, <2>3, <3>1 DEF Chain
    <3> QED BY <3>2
  <2>4. CASE par[t] # 0
    <3> DEFINE p == par[t]
    <3>1. p \in 1..n /\ p < t BY <1>0, <2>2, <2>4
    <3>2. f[t] = {t} \cup f[p] BY <1>1, <2>2, <2>4
    <3>3. Chain(n, par, p, f[p])
      <4>1. p \notin T BY <2>1, <2>2, <3>1
      <4> QED BY <3>1, <4>1
    <3>4. f[p] \subseteq 1..p /\ p \in f[p] BY <3>3 DEF Chain
    <3>5. f[t] \subseteq 1..t /\ t \in f[t] BY <2>2, <3>1, <3>2, <3>4
    <3>6. \A a \in f[t] : par[a] # 0 => par[a] \in f[t] BY <3>2, <3>3, <3>4 DEF Chain
    <3>7. \A a \in f[t] : a # t => \E u \in f[t] : par[u] = a
      <4> TAKE a \in f[t]
      <4> SUFFICES ASSUME a # t PROVE \E u \in f[t] : par[u] = a OBVIOUS
      <4>1. CASE a = p BY <4>1, <3>5
      <4>2. CASE a # p BY <4>2, <3>2, <3>3 DEF Chain
      <4> QED BY <4>1, <4>2
    <3> QED BY <3>5, <3>6, <3>7 DEF Chain
  <2> QED BY <2>3, <2>4
<1> QED BY <1>2


\* Two chains that come from one root, and in which no parent has two
\* children, lie on one another: one of them starts within the other.
LEMMA ChainsNest ==
    ASSUME NEW n \in Nat, NEW par, Forest(n, par), NEW s \in 1..n, NEW t \in 1..n,
           NEW L, NEW M, Chain(n, par, s, L), Chain(n, par, t, M),
           \A u \in L, v \in M : par[u] = 0 /\ par[v] = 0 => u = v,
           \A u \in L, v \in M : par[u] # 0 /\ par[u] = par[v] => u = v
    PROVE  s \in M \/ t \in L
<1>0. \A a \in 1..n : par[a] \in 0..n /\ par[a] < a BY DEF Forest
<1>1. L \subseteq 1..n /\ M \subseteq 1..n BY DEF Chain
<1>2. PICK l \in L : par[l] = 0
  <2>1. PICK l \in L : \A a \in L : l <= a
    <3>1. L \subseteq Nat /\ L # {} BY <1>1 DEF Chain
    <3> QED BY <3>1, LeastNumber
  <2>2. l \in 1..n /\ (par[l] # 0 => par[l] \in L /\ l <= par[l]) BY <1>1, <2>1 DEF Chain
  <2>3. par[l] = 0 BY <1>0, <2>2
  <2> QED BY <2>3
<1>3. PICK m \in M : par[m] = 0
  <2>1. PICK m \in M : \A a \in M : m <= a
    <3>1. M \subseteq Nat /\ M # {} BY <1>1 DEF Chain
    <3> QED BY <3>1, LeastNumber
  <2>2. m \in 1..n /\ (par[m] # 0 => par[m] \in M /\ m <= par[m]) BY <1>1, <2>1 DEF Chain
  <2>3. par[m] = 0 BY <1>0, <2>2
  <2> QED BY <2>3
<1>4. L \cap M # {} BY <1>2, <1>3
<1>5. PICK c \in L \cap M : \A a \in L \cap M : a <= c
  <2>1. L \cap M \subseteq 0..n BY <1>1
  <2> QED BY <1>4, <2>1, GreatestNumber
<1>6. CASE c # s /\ c # t
  <2>1. PICK u \in L : par[u] = c BY <1>5, <1>6 DEF Chain
  <2>2. PICK v \in M : par[v] = c BY <1>5, <1>6 DEF Chain
  <2>3. c \in 1..n /\ u \in 1..n BY <1>1, <1>5
  <2>4. u = v BY <2>1, <2>2, <2>3
  <2>5. u <= c /\ c < u BY <1>0, <1>5, <2>1, <2>2, <2>3, <2>4
  <2> QED BY <2>3, <2>5
<1> QED BY <1>5, <1>6

\* A walk depends only on the parents it meets.
LEMMA WalksAgree ==
    ASSUME NEW n \in Nat, NEW par, Forest(n, par), NEW f, f = Walked(n, par, f),
           NEW q, Forest(n, q), NEW g, g = Walked(n, q, g),
           NEW s \in 1..n, \A a \in f[s] : q[a] = par[a]
    PROVE  g[s] = f[s]
<1> DEFINE T == {t \in 1..n : (\A a \in f[t] : q[a] = par[a]) /\ g[t] # f[t]}
<1>0. \A t \in 1..n : par[t] \in 0..n /\ par[t] < t BY DEF Forest
<1>1. \A t \in 1..n : f[t] = IF par[t] = 0 THEN {t} ELSE {t} \cup f[par[t]]
  BY Zenon DEF Walked
<1>2. \A t \in 1..n : g[t] = IF q[t] = 0 THEN {t} ELSE {t} \cup g[q[t]]
  BY Zenon DEF Walked
<1>3. T = {}
  <2> SUFFICES ASSUME T # {} PROVE FALSE OBVIOUS
  <2>1. PICK t \in T : \A j \in T : t <= j
    <3>1. T \subseteq Nat OBVIOUS
    <3> HIDE DEF T
    <3> QED BY <3>1, LeastNumber
  <2>2. t \in 1..n /\ (\A a \in f[t] : q[a] = par[a]) /\ g[t] # f[t] OBVIOUS
  <2>3. t \in f[t] BY <1>1, <2>2
  <2>4. q[t] = par[t] BY <2>2, <2>3
  <2>5. CASE par[t] = 0 BY <1>1, <1>2, <2>2, <2>4, <2>5
  <2>6. CASE par[t] # 0
    <3>1. par[t] \in 1..n /\ par[t] < t BY <1>0, <2>2, <2>6
    <3>2. par[t] \notin T BY <2>1, <2>2, <3>1
    <3>3. f[t] = {t} \cup f[par[t]] /\ g[t] = {t} \cup g[par[t]] BY <1>1, <1>2, <2>2, <2>4, <2>6
    <3>4. \A a \in f[par[t]] : q[a] = par[a] BY <2>2, <3>3
    <3>5. g[par[t]] = f[par[t]] BY <3>1, <3>2, <3>4
    <3> QED BY <2>2, <3>3, <3>5
  <2> QED BY <2>5, <2>6
<1> QED BY <1>3

-----------------------------------------------------------------------------
(* What a step does to the documents, and to the memory of its call. *)

\* Where a document stands in the lineage.
Links(b) == <<b.parent, b.via, b.child, b.replan>>

\* What is written into a document of a session that goes on keeps its links.
LEMMA LinkUpdates ==
    ASSUME NEW b \in Blobs
    PROVE  /\ Links(Touch(b)) = Links(b) /\ Links(Consume(b)) = Links(b)
           /\ \A status \in TaskStatuses : Links(Mark(b, status)) = Links(b)
           /\ \A st \in Stage : Links(Handoff(b, st)) = Links(b)
<1>1. \A c \in Blobs : Links(Touch(c)) = Links(c) /\ Links(Consume(c)) = Links(c)
  BY DEF Links, Touch, Consume, Blobs
<1>2. \A status \in TaskStatuses : Links(Mark(b, status)) = Links(b)
  <2> TAKE status \in TaskStatuses
  <2>1. [b EXCEPT !.status = status] \in Blobs
    BY FieldWrites
  <2>2. Links([b EXCEPT !.status = status]) = Links(b)
    BY DEF Links, Blobs
  <2> QED
    BY <1>1, <2>1, <2>2 DEF Mark
<1>3. \A st \in Stage : Links(Handoff(b, st)) = Links(b)
  <2> TAKE st \in Stage
  <2> DEFINE c == [Consume(b) EXCEPT !.pending = st]
             e == [c EXCEPT !.used = c.used + 1]
             f == [e EXCEPT !.reserved = e.reserved + Steps[b.wf][st]]
  <2>1. DOMAIN Consume(b) = DOMAIN b /\ {"parent", "via", "child", "replan"} \subseteq DOMAIN b
    BY DEF Consume, Blobs
  <2>2. DOMAIN c = DOMAIN b /\ Links(c) = Links(Consume(b))
    BY <2>1 DEF Links
  <2>3. DOMAIN f = DOMAIN b /\ Links(f) = Links(c)
    BY <2>1, <2>2 DEF Links
  <2>4. Links(Touch(f)) = Links(f)
    BY <2>1, <2>3 DEF Links, Touch
  <2>5. Handoff(b, st) = IF b.kind = "budgeted" THEN Touch(f) ELSE c
    BY DEF Handoff
  <2> QED
    BY <1>1, <2>2, <2>3, <2>4, <2>5
<1> QED
  BY <1>1, <1>2, <1>3

\* A stop leaves the links alone; a replacement opens the parent's transition;
\* a new session has no links, a child those of its origin.
LEMMA LinkWrites ==
    ASSUME NEW b \in Blobs, NEW d \in Decisions, NEW s \in Sessions, NEW w \in Workflows
    PROVE  /\ Links(StoppedBlob(b, d)) = Links(b)
           /\ Links(ReplannedBlob(b, d)) = <<b.parent, b.via, b.child, d>>
           /\ \A k : Links(NewBlob(k, w)) = <<Nil, Nil, Nil, Nil>>
           /\ Links(ReplacementBlob(b, s, d, w)) = <<s, d, Nil, Nil>>
<1> DEFINE x == IF b.status \in {"complete", "failed"} THEN Touch(b) ELSE Mark(b, "blocked")
           y == IF b.status = "failed" THEN Touch(b) ELSE Mark(b, "blocked")
           z == [y EXCEPT !.replan = d]
           xs == [x EXCEPT !.stop = d]
           zs == [z EXCEPT !.stop = d]
<1>0. "blocked" \in TaskStatuses
  BY DEF TaskStatuses
<1>1. x \in Blobs /\ Links(x) = Links(b) /\ y \in Blobs /\ Links(y) = Links(b)
  BY <1>0, Updates, LinkUpdates
<1>2. xs \in Blobs /\ z \in Blobs /\ zs \in Blobs
  BY <1>1, FieldWrites
<1> HIDE DEF x, y
<1>3. Links(xs) = Links(b)
  BY <1>1 DEF Links, Blobs
<1>4. Links(z) = <<b.parent, b.via, b.child, d>>
  BY <1>1 DEF Links, Blobs
<1>5. Links(zs) = Links(z)
  <2> HIDE DEF z
  <2> QED
    BY <1>2 DEF Links, Blobs
<1>6. StoppedBlob(b, d) = Consume(xs)
  BY DEF StoppedBlob, x
<1>7. ReplannedBlob(b, d) = Consume(zs)
  BY DEF ReplannedBlob, y
<1>8. \A k : Links(NewBlob(k, w)) = <<Nil, Nil, Nil, Nil>>
  BY DEF Links, NewBlob
<1>9. Links(ReplacementBlob(b, s, d, w)) = <<s, d, Nil, Nil>>
  BY DEF Links, ReplacementBlob, NewBlob
<1> HIDE DEF xs, zs
<1>10. Links(Consume(xs)) = Links(xs) /\ Links(Consume(zs)) = Links(zs)
  BY <1>2, LinkUpdates
<1> QED
  BY <1>3, <1>4, <1>5, <1>6, <1>7, <1>8, <1>9, <1>10

\* A document written by a step that is neither a stop nor a replacement.
Keeps(b, c) ==
    /\ Links(b) = Links(c) /\ b.stop = c.stop
    /\ \/ b.used = c.used /\ b.reserved = c.reserved
       \/ AdvanceHandoff /\ c.used <= b.used /\ c.reserved <= b.reserved

OrdinarySave ==
    \/ blob' = blob
    \/ Started /\ \E b \in Blobs : Save(b) /\ Keeps(b, run.mem)

\* The call returns, waits for its next step, goes on in its session, or has
\* just loaded one.
OrdinaryMove ==
    \/ run' = IdleRun
    \/ run' = run /\ ~ Making(run)
    \/ /\ Started /\ run.op # "replan"
       /\ run'.pc \notin Creating \cup {"idle", "enter"}
       /\ run'.op = run.op /\ run'.sid = run.sid
       /\ \/ Links(run'.mem) = Links(run.mem)
          \/ run'.mem = blob[run.sid]
    \/ /\ Idle /\ blob' = blob /\ run'.pc \in {"enter", "recover"} /\ run'.op # "start"
       /\ \E s \in Sessions : Loadable(s) /\ run'.sid = s /\ run'.mem = blob[s]
       /\ run'.op \in {"stop", "replan"} => CallCore(run'.op, run'.sid)

Ordinary ==
    /\ OrdinarySave /\ OrdinaryMove
    /\ \A s \in Sessions : srow'[s] = "absent" <=> srow[s] = "absent"

\* What an ordinary step is shown to be, beside keeping its shape.
Fits == Ordinary /\ TypeOK' /\ RunShape'

\* The document a loaded call saves is stored under its session.
LEMMA SaveFits ==
    ASSUME KinInv, Started, NEW b \in Blobs, Save(b), Keeps(b, run.mem)
    PROVE  OrdinarySave /\ blob' \in [Sessions -> Blobs \cup {Nil}]
<1>1. blob \in [Sessions -> Blobs \cup {Nil}] /\ run.sid \in Sessions
  BY DEF KinInv, TypeOK, RunShape
<1> QED
  BY <1>1 DEF OrdinarySave, Save

\* Everything but the reservation keeps what was charged.
LEMMA KeepsAll ==
    ASSUME NEW b, NEW c, Core(b) = Core(c), Links(b) = Links(c)
    PROVE  Keeps(b, c)
  BY DEF Core, Keeps

\* A call that returns.
LEMMA ReturnFits ==
    ASSUME KinInv, run' = IdleRun, OrdinarySave, blob' \in [Sessions -> Blobs \cup {Nil}],
           UNCHANGED <<rows, history>>, held' \in Decisions \cup {Nil},
           srow' \in [Sessions -> {"absent", "open", "closed"}],
           \A s \in Sessions : srow'[s] = "absent" <=> srow[s] = "absent"
    PROVE  Fits
<1>1. Ordinary
  BY DEF Ordinary, OrdinaryMove
<1>2. TypeOK'
  BY IdleRunType DEF KinInv, TypeOK, history
<1>3. run'.pc = "idle" /\ run'.op = Nil /\ Nil # "start" /\ Nil # "replan" /\ Nil # "run"
      /\ Nil # "advance"
  BY NilAssumption DEF IdleRun, Ops
<1>4. ~ Started' /\ ~ Checkpointing' /\ run'.pc \notin Creating
  BY <1>3 DEF Started, Checkpointing, Creating
<1>5. RunShape'
  BY <1>3, <1>4, NilAssumption DEF RunShape, IdleRun, Creating, Ops
<1> QED
  BY <1>1, <1>2, <1>5 DEF Fits

\* ... and leaves the rows as they are.
LEMMA ReturnSameFits ==
    ASSUME KinInv, run' = IdleRun, OrdinarySave, blob' \in [Sessions -> Blobs \cup {Nil}],
           UNCHANGED <<rows, srow, held, history>>
    PROVE  Fits
<1>1. held' \in Decisions \cup {Nil} /\ srow' \in [Sessions -> {"absent", "open", "closed"}]
  BY DEF KinInv, TypeOK
<1> QED
  BY <1>1, ReturnFits

\* A call that goes on with the document it has, in shape.
LEMMA GoesOnFits ==
    ASSUME KinInv, Started, run.op # "replan", run' \in Runs, RunShape',
           run'.pc \notin Creating \cup {"idle", "enter"}, run'.op = run.op, run'.sid = run.sid,
           Links(run'.mem) = Links(run.mem) \/ run'.mem = blob[run.sid],
           OrdinarySave, blob' \in [Sessions -> Blobs \cup {Nil}],
           rows' \in [Sessions -> [Stage -> NodeStatuses]],
           srow' \in [Sessions -> {"absent", "open", "closed"}],
           \A s \in Sessions : srow'[s] = "absent" <=> srow[s] = "absent",
           UNCHANGED <<held, history>>
    PROVE  Fits
<1>1. Ordinary
  BY DEF Ordinary, OrdinaryMove
<1>2. TypeOK'
  BY DEF KinInv, TypeOK, history
<1> QED
  BY <1>1, <1>2 DEF Fits

\* ... with the rows as they are.
LEMMA GoesOnSameFits ==
    ASSUME KinInv, Started, run.op # "replan", run' \in Runs, RunShape',
           run'.pc \notin Creating \cup {"idle", "enter"}, run'.op = run.op, run'.sid = run.sid,
           Links(run'.mem) = Links(run.mem),
           OrdinarySave, blob' \in [Sessions -> Blobs \cup {Nil}],
           UNCHANGED <<rows, srow, held, history>>
    PROVE  Fits
<1>1. /\ rows' \in [Sessions -> [Stage -> NodeStatuses]]
      /\ srow' \in [Sessions -> {"absent", "open", "closed"}]
      /\ \A s \in Sessions : srow'[s] = "absent" <=> srow[s] = "absent"
  BY DEF KinInv, TypeOK
<1> QED
  BY <1>1, GoesOnFits

\* What a step of a loaded call finds in its memory.
LEMMA LoadedMeans ==
    ASSUME KinInv,
           \/ run.pc = "enter"
           \/ run.pc \in PCs \ (Creating \cup {"enter"})
           \/ run.pc = "link"
    PROVE  /\ Started /\ run \in Runs /\ run.sid \in Sessions /\ run.mem \in Blobs
           /\ run.nodes \in [Stage -> NodeStatuses]
           /\ blob[run.sid] \in Blobs /\ blob[run.sid] # Nil
           /\ run.mem.parent = blob[run.sid].parent
           /\ run.pc \notin Creating \cup {"enter"} => run.op # "replan"
<1>1. run.pc # "idle"
  BY DEF PCs
<1>2. run.op # "start"
  <2>1. run.op = "start" => run.pc \in {"create", "save_plan", "save_state"}
    BY DEF KinInv, RunShape
  <2> QED
    BY <2>1, SMTT(30) DEF PCs, Creating
<1>3. Started
  BY <1>1, <1>2 DEF Started
<1>4. blob[run.sid] # Nil /\ run.sid \in Sessions /\ blob \in [Sessions -> Blobs \cup {Nil}]
  BY <1>3 DEF KinInv, CallKin, RunShape, TypeOK
<1> QED
  BY <1>3, <1>4 DEF KinInv, CallKin, RunShape, TypeOK, Creating

\* decide_core writes the decision and its flag.
LEMMA DecideCoreFits == ASSUME KinInv, DecideCore PROVE Fits
<1> DEFINE d == Decide(run.sid, run.mem, run.nodes)
           c == [run.mem EXCEPT !.decision = d]
           b == [c EXCEPT !.consumed = FALSE]
<1>1. /\ Started /\ run.sid \in Sessions /\ run.mem \in Blobs /\ run.nodes \in [Stage -> NodeStatuses]
  BY LoadedMeans DEF DecideCore, At
<1>2. d \in Decisions
  BY <1>1, DecideType
<1>3. c \in Blobs /\ b \in Blobs
  BY <1>1, <1>2, FieldWrites
<1>4. Core(b) = Core(run.mem) /\ Links(b) = Links(run.mem)
  <2>1. Core(c) = Core(run.mem) /\ Links(c) = Links(run.mem)
    BY <1>1 DEF Core, Links, Blobs
  <2>2. Core(b) = Core(c) /\ Links(b) = Links(c)
    BY <1>3 DEF Core, Links, Blobs
  <2> QED
    BY <2>1, <2>2
<1>5. Save(b) /\ UNCHANGED <<rows, srow, history>> /\ run' = IdleRun
  <2>1. [run.mem EXCEPT !.decision = d, !.consumed = FALSE] = b
    BY <1>1 DEF Blobs
  <2> QED
    BY <2>1 DEF DecideCore
<1>6. held' \in Decisions \cup {Nil} /\ srow' \in [Sessions -> {"absent", "open", "closed"}]
  BY <1>2 DEF DecideCore, KinInv, TypeOK
<1>7. OrdinarySave /\ blob' \in [Sessions -> Blobs \cup {Nil}]
  BY <1>1, <1>3, <1>4, <1>5, KeepsAll, SaveFits
<1> QED
  BY <1>5, <1>6, <1>7, ReturnFits

\* review_core settles the status.
LEMMA ReviewCoreFits == ASSUME KinInv, ReviewCore PROVE Fits
<1> DEFINE m == IF run.dec.outcome = "failed" THEN "failed" ELSE "blocked"
           b == Consume(Mark(run.mem, m))
<1>1. Started /\ run.mem \in Blobs
  BY LoadedMeans DEF ReviewCore, At
<1>2. m \in TaskStatuses
  BY Names
<1>3. b \in Blobs /\ Core(b) = Core(run.mem) /\ Links(b) = Links(run.mem)
  BY <1>1, <1>2, Updates, LinkUpdates
<1>4. Save(b) /\ run' = IdleRun /\ UNCHANGED <<rows, srow, held, history>>
  BY DEF ReviewCore
<1>5. OrdinarySave /\ blob' \in [Sessions -> Blobs \cup {Nil}]
  BY <1>1, <1>3, <1>4, KeepsAll, SaveFits
<1> QED
  BY <1>4, <1>5, ReturnSameFits

\* A decision that delegates nothing saves a status and returns or closes.
LEMMA AdvanceSettleFits == ASSUME KinInv, AdvanceSettle PROVE Fits
<1> DEFINE m == IF run.dec.outcome \in {"complete", "failed"} THEN run.dec.outcome ELSE "blocked"
           b == IF run.dec.outcome = "stopped" /\ run.mem.status \in {"complete", "failed"}
                THEN Touch(run.mem) ELSE Mark(run.mem, m)
<1>1. /\ Started /\ run.mem \in Blobs /\ run \in Runs /\ run.op = "advance"
      /\ run.nodes \in [Stage -> NodeStatuses]
  BY LoadedMeans DEF AdvanceSettle, At
<1>2. m \in TaskStatuses
  BY Names
<1>3. b \in Blobs /\ Core(b) = Core(run.mem) /\ Links(b) = Links(run.mem)
  BY <1>1, <1>2, Updates, LinkUpdates
<1>4. Consume(b) \in Blobs /\ Core(Consume(b)) = Core(run.mem) /\ Links(Consume(b)) = Links(run.mem)
  BY <1>3, Updates, LinkUpdates
<1>5. Save(Consume(b)) /\ UNCHANGED <<rows, srow, held, history>>
  BY DEF AdvanceSettle
<1>6. OrdinarySave /\ blob' \in [Sessions -> Blobs \cup {Nil}]
  BY <1>1, <1>4, <1>5, KeepsAll, SaveFits
<1>7. CASE b.status # "complete"
  <2>1. run' = IdleRun
    BY <1>7 DEF AdvanceSettle
  <2> QED
    BY <1>5, <1>6, <2>1, ReturnSameFits
<1>8. CASE b.status = "complete"
  <2>1. run' = [run EXCEPT !.pc = "close"]
    BY <1>8 DEF AdvanceSettle
  <2>2. /\ run' \in Runs /\ run'.pc = "close" /\ run'.op = "advance" /\ run'.sid = run.sid
        /\ run'.mem = run.mem /\ run'.nodes = run.nodes /\ run'.dec = run.dec
    BY <1>1, <2>1, Names DEF Runs
  <2>3. RunShape'
    BY <1>1, <2>2 DEF KinInv, RunShape, Started, Creating, Checkpointing
  <2>4. run'.pc \notin Creating \cup {"idle", "enter"}
    BY <2>2 DEF Creating
  <2> QED
    BY <1>1, <1>5, <1>6, <2>2, <2>3, <2>4, GoesOnSameFits
<1> QED
  BY <1>7, <1>8

\* Putting a human gate in review writes no document yet.
LEMMA AdvanceAwaitFits == ASSUME KinInv, AdvanceAwait PROVE Fits
<1>1. /\ Started /\ run.mem \in Blobs /\ run \in Runs /\ run.op = "advance"
      /\ run.nodes \in [Stage -> NodeStatuses] /\ run.stage \in Stage
  <2>1. run.stage \in Stage
    BY DEF AdvanceAwait, At, KinInv, RunShape
  <2> QED
    BY <2>1, LoadedMeans DEF AdvanceAwait, At
<1>2. Consume(run.mem) \in Blobs /\ Links(Consume(run.mem)) = Links(run.mem)
  BY <1>1, Updates, LinkUpdates
<1>3. /\ run' = [run EXCEPT !.pc = "checkpoint", !.to = "needs_review", !.next = "settle",
                            !.mark = "blocked", !.mem = Consume(run.mem)]
      /\ UNCHANGED <<store, held, history>>
  BY DEF AdvanceAwait
<1>4. run' \in Runs
  BY <1>1, <1>2, <1>3, Names DEF Runs
<1>5. /\ run'.pc = "checkpoint" /\ run'.op = "advance" /\ run'.sid = run.sid
      /\ run'.mem = Consume(run.mem) /\ run'.nodes = run.nodes /\ run'.dec = run.dec
      /\ run'.stage = run.stage /\ run'.to = "needs_review" /\ run'.next = "settle"
      /\ run'.mark = "blocked"
  BY <1>1, <1>3 DEF Runs
<1>6. RunShape'
  BY <1>1, <1>2, <1>5, Names DEF KinInv, RunShape, Started, Creating, Checkpointing
<1>7. run'.pc \notin Creating \cup {"idle", "enter"}
  BY <1>5 DEF Creating
<1>8. OrdinarySave /\ blob' \in [Sessions -> Blobs \cup {Nil}] /\ UNCHANGED <<rows, srow>>
  BY <1>3 DEF OrdinarySave, store, KinInv, TypeOK
<1> QED
  BY <1>1, <1>2, <1>3, <1>4, <1>5, <1>6, <1>7, <1>8, GoesOnSameFits

\* The handoff is charged, and changes neither the stop nor the links.
LEMMA AdvanceHandoffFits == ASSUME KinInv, AdvanceHandoff PROVE Fits
<1> DEFINE b == Handoff(run.mem, run.stage)
           n == Steps[run.mem.wf][run.stage]
<1>1. /\ Started /\ run.mem \in Blobs /\ run \in Runs /\ run.op = "advance"
      /\ run.nodes \in [Stage -> NodeStatuses] /\ run.stage \in Stage
  <2>1. run.stage \in Stage
    BY DEF AdvanceHandoff, At, KinInv, RunShape
  <2> QED
    BY <2>1, LoadedMeans DEF AdvanceHandoff, At
<1>2. n \in Nat /\ run.mem.used \in Nat /\ run.mem.reserved \in Nat
  <2>1. run.mem.wf \in Workflows /\ run.mem.used \in Nat /\ run.mem.reserved \in Nat
    BY <1>1 DEF Blobs
  <2>2. n \in 1..32
    BY <1>1, <2>1, WorkflowAssumption
  <2> QED
    BY <2>1, <2>2
<1>3. b \in Blobs /\ Links(b) = Links(run.mem)
  BY <1>1, HandoffCharges, LinkUpdates
<1>4. b.stop = run.mem.stop /\ run.mem.used <= b.used /\ run.mem.reserved <= b.reserved
  BY <1>1, <1>2, HandoffCharges DEF Core
<1>5. /\ Save(b) /\ run' = [run EXCEPT !.pc = "recover", !.mem = b]
      /\ UNCHANGED <<rows, srow, held, history>>
  BY DEF AdvanceHandoff
<1> HIDE DEF b
<1>6. OrdinarySave /\ blob' \in [Sessions -> Blobs \cup {Nil}]
  <2>1. Keeps(b, run.mem)
    BY <1>3, <1>4 DEF Keeps
  <2> QED
    BY <1>1, <1>3, <1>5, <2>1, SaveFits
<1>7. run' \in Runs
  <2>1. run \in Runs /\ b \in Blobs /\ run' = [run EXCEPT !.pc = "recover", !.mem = b]
    BY <1>1, <1>3, <1>5
  <2> QED
    BY <2>1, Names DEF Runs
<1>8. /\ run'.pc = "recover" /\ run'.op = "advance" /\ run'.sid = run.sid
      /\ run'.mem = b /\ run'.nodes = run.nodes /\ run'.dec = run.dec /\ run'.stage = run.stage
  BY <1>1, <1>5 DEF Runs
<1>9. RunShape'
  BY <1>1, <1>3, <1>8 DEF KinInv, RunShape, Started, Creating, Checkpointing
<1>10. run'.pc \notin Creating \cup {"idle", "enter"}
  BY <1>8 DEF Creating
<1> QED
  BY <1>1, <1>3, <1>5, <1>6, <1>7, <1>8, <1>9, <1>10, GoesOnSameFits

\* approve_core_stage consumes its decision.
LEMMA ApproveCoreStageFits == ASSUME KinInv, ApproveCoreStage PROVE Fits
<1>1. /\ Started /\ run.mem \in Blobs /\ run \in Runs /\ run.op = "approve"
      /\ run.nodes \in [Stage -> NodeStatuses] /\ run.stage \in Stage
  <2>1. run.stage \in Stage
    BY DEF ApproveCoreStage, At, KinInv, RunShape
  <2> QED
    BY <2>1, LoadedMeans DEF ApproveCoreStage, At
<1>2. /\ Consume(run.mem) \in Blobs /\ Core(Consume(run.mem)) = Core(run.mem)
      /\ Links(Consume(run.mem)) = Links(run.mem)
  BY <1>1, Updates, LinkUpdates
<1>3. Save(Consume(run.mem)) /\ UNCHANGED <<rows, srow, held, history>>
  BY DEF ApproveCoreStage
<1>6. OrdinarySave /\ blob' \in [Sessions -> Blobs \cup {Nil}]
  BY <1>1, <1>2, <1>3, KeepsAll, SaveFits
<1>4. CASE run.nodes[run.stage] = "pending"
  <2>1. run' = [run EXCEPT !.pc = "checkpoint", !.to = "needs_review", !.next = "approve",
                           !.mem = Consume(run.mem)]
    BY <1>4 DEF ApproveCoreStage
  <2>2. run' \in Runs
    BY <1>1, <1>2, <2>1, Names DEF Runs
  <2>3. /\ run'.pc = "checkpoint" /\ run'.op = "approve" /\ run'.sid = run.sid
        /\ run'.mem = Consume(run.mem) /\ run'.nodes = run.nodes /\ run'.dec = run.dec
        /\ run'.stage = run.stage /\ run'.to = "needs_review" /\ run'.next = "approve"
    BY <1>1, <2>1 DEF Runs
  <2>4. RunShape'
    BY <1>1, <1>2, <2>3, Names DEF KinInv, RunShape, Started, Creating, Checkpointing
  <2>5. run'.pc \notin Creating \cup {"idle", "enter"}
    BY <2>3 DEF Creating
  <2> QED
    BY <1>1, <1>2, <1>3, <1>6, <2>2, <2>3, <2>4, <2>5, GoesOnSameFits
<1>5. CASE run.nodes[run.stage] # "pending"
  <2>1. run' = [run EXCEPT !.pc = "approve", !.mem = Consume(run.mem)]
    BY <1>5 DEF ApproveCoreStage
  <2>2. run' \in Runs
    BY <1>1, <1>2, <2>1, Names DEF Runs
  <2>3. /\ run'.pc = "approve" /\ run'.op = "approve" /\ run'.sid = run.sid
        /\ run'.mem = Consume(run.mem) /\ run'.nodes = run.nodes /\ run'.dec = run.dec
        /\ run'.stage = run.stage
    BY <1>1, <2>1 DEF Runs
  <2>4. RunShape'
    BY <1>1, <1>2, <2>3 DEF KinInv, RunShape, Started, Creating, Checkpointing
  <2>5. run'.pc \notin Creating \cup {"idle", "enter"}
    BY <2>3 DEF Creating
  <2> QED
    BY <1>1, <1>2, <1>3, <1>6, <2>2, <2>3, <2>4, <2>5, GoesOnSameFits
<1> QED
  BY <1>4, <1>5

\* An approval changes only the memory of its call.
LEMMA ApproveHumanStageFits == ASSUME KinInv, ApproveHumanStage PROVE Fits
<1>1. /\ Started /\ run.mem \in Blobs /\ run \in Runs /\ run.op # "replan"
      /\ run.nodes \in [Stage -> NodeStatuses]
  BY LoadedMeans DEF ApproveHumanStage, Creating, PCs
<1>2. UNCHANGED <<store, held, history>>
  BY DEF ApproveHumanStage
<1>5. OrdinarySave /\ blob' \in [Sessions -> Blobs \cup {Nil}] /\ UNCHANGED <<rows, srow>>
  BY <1>2 DEF OrdinarySave, store, KinInv, TypeOK
<1>3. CASE ~ Approvable(run.mem, run.nodes, run.stage)
  <2>1. run' = IdleRun
    BY <1>3 DEF ApproveHumanStage
  <2> QED
    BY <1>2, <1>5, <2>1, ReturnSameFits
<1>4. CASE Approvable(run.mem, run.nodes, run.stage)
  <2>1. run' = [run EXCEPT !.pc = "checkpoint", !.to = "success", !.next = "settle",
                           !.mark = "investigating"]
    BY <1>4 DEF ApproveHumanStage
  <2>2. run' \in Runs
    BY <1>1, <2>1, Names DEF Runs
  <2>3. /\ run'.pc = "checkpoint" /\ run'.op = run.op /\ run'.sid = run.sid
        /\ run'.mem = run.mem /\ run'.nodes = run.nodes /\ run'.dec = run.dec
        /\ run'.stage = run.stage /\ run'.to = "success" /\ run'.next = "settle"
        /\ run'.mark = "investigating"
    BY <1>1, <2>1 DEF Runs
  <2>4. run.stage \in Stage
    BY <1>1, <1>4, WorkflowAssumption DEF Approvable, Blobs
  <2>5. RunShape'
    BY <1>1, <2>3, <2>4, Names DEF KinInv, RunShape, Started, Creating, Checkpointing
  <2>6. run'.pc \notin Creating \cup {"idle", "enter"}
    BY <2>3 DEF Creating
  <2> QED
    BY <1>1, <1>2, <1>5, <2>2, <2>3, <2>5, <2>6, GoesOnSameFits
<1> QED
  BY <1>3, <1>4

\* So does choosing the stage to work on, a gate or an agent stage.
LEMMA LoopStageFits ==
    ASSUME KinInv, NEW st \in Stage, LoopHuman(st) \/ LoopAgent(st) PROVE Fits
<1>1. /\ Started /\ run.mem \in Blobs /\ run \in Runs /\ run.op \in {"advance", "run"}
      /\ run.nodes \in [Stage -> NodeStatuses]
  <2>1. run.pc = "loop"
    BY DEF LoopHuman, LoopAgent
  <2>2. run.op \in {"advance", "run"}
    BY <2>1 DEF KinInv, RunShape
  <2> QED
    BY <2>1, <2>2, LoadedMeans DEF Creating, PCs
<1>2. UNCHANGED <<store, held, history>>
  BY DEF LoopHuman, LoopAgent
<1>3. OrdinarySave /\ blob' \in [Sessions -> Blobs \cup {Nil}] /\ UNCHANGED <<rows, srow>>
  BY <1>2 DEF OrdinarySave, store, KinInv, TypeOK
<1>4. CASE LoopHuman(st)
  <2>1. run' = [run EXCEPT !.pc = "checkpoint", !.stage = st, !.to = "needs_review",
                           !.next = "settle", !.mark = "blocked"]
    BY <1>4 DEF LoopHuman
  <2>2. run' \in Runs
    BY <1>1, <2>1, Names DEF Runs
  <2>3. /\ run'.pc = "checkpoint" /\ run'.op = run.op /\ run'.sid = run.sid
        /\ run'.mem = run.mem /\ run'.nodes = run.nodes /\ run'.dec = run.dec
        /\ run'.stage = st /\ run'.to = "needs_review" /\ run'.next = "settle"
        /\ run'.mark = "blocked"
    BY <1>1, <2>1 DEF Runs
  <2>4. RunShape'
    BY <1>1, <2>3, Names DEF KinInv, RunShape, Started, Creating, Checkpointing
  <2>5. run'.pc \notin Creating \cup {"idle", "enter"}
    BY <2>3 DEF Creating
  <2> QED
    BY <1>1, <1>2, <1>3, <2>2, <2>3, <2>4, <2>5, GoesOnSameFits
<1>5. CASE LoopAgent(st)
  <2>1. run' = [run EXCEPT !.pc = "checkpoint", !.stage = st, !.to = "running", !.next = "invoke"]
    BY <1>5 DEF LoopAgent
  <2>2. run' \in Runs
    BY <1>1, <2>1, Names DEF Runs
  <2>3. /\ run'.pc = "checkpoint" /\ run'.op = run.op /\ run'.sid = run.sid
        /\ run'.mem = run.mem /\ run'.nodes = run.nodes /\ run'.dec = run.dec
        /\ run'.stage = st /\ run'.to = "running" /\ run'.next = "invoke"
    BY <1>1, <2>1 DEF Runs
  <2>4. RunShape'
    BY <1>1, <2>3, Names DEF KinInv, RunShape, Started, Creating, Checkpointing
  <2>5. run'.pc \notin Creating \cup {"idle", "enter"}
    BY <2>3 DEF Creating
  <2> QED
    BY <1>1, <1>2, <1>3, <2>2, <2>3, <2>4, <2>5, GoesOnSameFits
<1> QED
  BY <1>4, <1>5

\* The end of the stage loop only settles a status.
LEMMA LoopEndFits == ASSUME KinInv, LoopEnd PROVE Fits
<1> DEFINE f == FinalStatus(run.sid, run.mem, run.nodes)
           pc == IF f = "complete" THEN "close_first" ELSE "settle"
<1>1. /\ Started /\ run.mem \in Blobs /\ run \in Runs /\ run.op \in {"advance", "run"}
      /\ run.nodes \in [Stage -> NodeStatuses]
  <2>1. run.pc = "loop"
    BY DEF LoopEnd
  <2>2. run.op \in {"advance", "run"}
    BY <2>1 DEF KinInv, RunShape
  <2> QED
    BY <2>1, <2>2, LoadedMeans DEF Creating, PCs
<1>2. UNCHANGED <<store, held, history>>
  BY DEF LoopEnd
<1>5. OrdinarySave /\ blob' \in [Sessions -> Blobs \cup {Nil}] /\ UNCHANGED <<rows, srow>>
  BY <1>2 DEF OrdinarySave, store, KinInv, TypeOK
<1>3. CASE ReadyNodes(run.mem.wf, run.nodes) # {}
  <2>1. run' = IdleRun
    BY <1>3 DEF LoopEnd
  <2> QED
    BY <1>2, <1>5, <2>1, ReturnSameFits
<1>4. CASE ReadyNodes(run.mem.wf, run.nodes) = {}
  <2>0. f \in TaskStatuses /\ pc \in PCs /\ pc \in {"close_first", "settle"}
    BY Names DEF FinalStatus
  <2> HIDE DEF f, pc
  <2>1. run' = [run EXCEPT !.pc = pc, !.mark = f]
    BY <1>4 DEF LoopEnd, f, pc
  <2>2. run' \in Runs
    BY <1>1, <2>0, <2>1 DEF Runs
  <2>3. /\ run'.pc = pc /\ run'.op = run.op /\ run'.sid = run.sid
        /\ run'.mem = run.mem /\ run'.nodes = run.nodes /\ run'.dec = run.dec
        /\ run'.stage = run.stage /\ run'.mark = f
    BY <1>1, <2>1 DEF Runs
  <2>4. RunShape'
    BY <1>1, <2>0, <2>3 DEF KinInv, RunShape, Started, Creating, Checkpointing
  <2>5. run'.pc \notin Creating \cup {"idle", "enter"}
    BY <2>0, <2>3 DEF Creating
  <2>6. run.op # "replan" /\ Links(run'.mem) = Links(run.mem)
    BY <1>1, <2>3
  <2> QED
    BY <1>1, <1>2, <1>5, <2>2, <2>3, <2>4, <2>5, <2>6, GoesOnSameFits
<1> QED
  BY <1>3, <1>4

\* The row of a stage is written, and no document.
LEMMA CheckpointRowFits == ASSUME KinInv, CheckpointRow PROVE Fits
<1> DEFINE nodes == [run.nodes EXCEPT ![run.stage] = run.to]
<1>1. /\ Started /\ run.mem \in Blobs /\ run \in Runs /\ run.op # "replan"
      /\ run.nodes \in [Stage -> NodeStatuses] /\ run.sid \in Sessions /\ run.pc = "checkpoint"
  BY LoadedMeans DEF CheckpointRow, PCs, Creating
<1>2. /\ run.stage \in Stage /\ run.to \in NodeStatuses /\ run.to \notin {"absent", "pending"}
      /\ rows \in [Sessions -> [Stage -> NodeStatuses]]
  BY <1>1 DEF KinInv, RunShape, TypeOK, Checkpointing
<1>3. /\ rows' = [rows EXCEPT ![run.sid][run.stage] = run.to]
      /\ run' = [run EXCEPT !.pc = "save_checkpoint", !.mem = Touch(run.mem), !.nodes = nodes]
      /\ UNCHANGED <<blob, srow, held, history>>
  BY <1>1 DEF CheckpointRow, Runs
<1>4. nodes \in [Stage -> NodeStatuses] /\ rows' \in [Sessions -> [Stage -> NodeStatuses]]
  BY <1>1, <1>2, <1>3
<1>5. Touch(run.mem) \in Blobs /\ Links(Touch(run.mem)) = Links(run.mem)
  BY <1>1, Updates, LinkUpdates
<1>6. run' \in Runs
  BY <1>1, <1>3, <1>4, <1>5, Names DEF Runs
<1>7. /\ run'.pc = "save_checkpoint" /\ run'.op = run.op /\ run'.sid = run.sid
      /\ run'.mem = Touch(run.mem) /\ run'.nodes = nodes /\ run'.dec = run.dec
      /\ run'.stage = run.stage /\ run'.to = run.to /\ run'.next = run.next /\ run'.mark = run.mark
  BY <1>1, <1>3 DEF Runs
<1>8. RunShape'
  BY <1>1, <1>2, <1>4, <1>5, <1>7 DEF KinInv, RunShape, Started, Creating, Checkpointing
<1>9. run'.pc \notin Creating \cup {"idle", "enter"}
  BY <1>7 DEF Creating
<1>10. /\ OrdinarySave /\ blob' \in [Sessions -> Blobs \cup {Nil}]
       /\ srow' \in [Sessions -> {"absent", "open", "closed"}]
       /\ \A s \in Sessions : srow'[s] = "absent" <=> srow[s] = "absent"
  BY <1>3 DEF OrdinarySave, KinInv, TypeOK
<1> QED
  BY <1>1, <1>3, <1>4, <1>5, <1>6, <1>7, <1>8, <1>9, <1>10, GoesOnFits

\* The document of the call is saved as it is.
LEMMA CheckpointSaveFits == ASSUME KinInv, CheckpointSave PROVE Fits
<1>1. /\ Started /\ run.mem \in Blobs /\ run \in Runs /\ run.op # "replan"
      /\ run.nodes \in [Stage -> NodeStatuses] /\ run.pc = "save_checkpoint"
  BY LoadedMeans DEF CheckpointSave, PCs, Creating
<1>2. run.stage \in Stage /\ run.next \in {"approve", "settle", "invoke", "loop"} /\ run.next \in PCs
  BY <1>1, Names DEF KinInv, RunShape, Checkpointing
<1>3. /\ Save(run.mem) /\ run' = [run EXCEPT !.pc = run.next]
      /\ UNCHANGED <<rows, srow, held, history>>
  BY DEF CheckpointSave
<1>4. run' \in Runs
  BY <1>1, <1>2, <1>3 DEF Runs
<1>5. /\ run'.pc = run.next /\ run'.op = run.op /\ run'.sid = run.sid
      /\ run'.mem = run.mem /\ run'.nodes = run.nodes /\ run'.dec = run.dec
      /\ run'.stage = run.stage /\ run'.mark = run.mark
  BY <1>1, <1>3 DEF Runs
<1>6. RunShape'
  BY <1>1, <1>2, <1>5 DEF KinInv, RunShape, Started, Creating, Checkpointing
<1>7. run'.pc \notin Creating \cup {"idle", "enter"}
  BY <1>2, <1>5 DEF Creating
<1>8. OrdinarySave /\ blob' \in [Sessions -> Blobs \cup {Nil}]
  BY <1>1, <1>3, KeepsAll, SaveFits
<1> QED
  BY <1>1, <1>3, <1>4, <1>5, <1>6, <1>7, <1>8, GoesOnSameFits

\* The executor is called: only its history changes.
LEMMA InvokeExecutorFits == ASSUME KinInv, InvokeExecutor PROVE Fits
<1> DEFINE n == Steps[run.mem.wf][run.stage]
<1>1. /\ Started /\ run.mem \in Blobs /\ run \in Runs /\ run.op # "replan" /\ run.pc = "invoke"
      /\ run.nodes \in [Stage -> NodeStatuses] /\ run.sid \in Sessions
  BY LoadedMeans DEF InvokeExecutor, PCs, Creating
<1>2. run.stage \in Stage /\ run.op \in {"advance", "run"}
  BY <1>1 DEF KinInv, RunShape
<1>3. n \in Nat
  <2>1. run.mem.wf \in Workflows
    BY <1>1 DEF Blobs
  <2>2. n \in 1..32
    BY <1>2, <2>1, WorkflowAssumption
  <2> QED
    BY <2>2
<1>4. /\ calls' = [calls EXCEPT ![run.sid][run.stage] = @ + 1]
      /\ spent' = spent + 1 /\ spentSteps' = spentSteps + n
      /\ run' = [run EXCEPT !.pc = "executing"]
      /\ blob' = blob /\ rows' = rows /\ srow' = srow /\ held' = held
  BY DEF InvokeExecutor, store
<1>5. run' \in Runs
  BY <1>1, <1>4, Names DEF Runs
<1>6. /\ run'.pc = "executing" /\ run'.op = run.op /\ run'.sid = run.sid
      /\ run'.mem = run.mem /\ run'.nodes = run.nodes /\ run'.dec = run.dec
      /\ run'.stage = run.stage
  BY <1>1, <1>4 DEF Runs
<1>7. TypeOK'
  <2>1. calls \in [Sessions -> [Stage -> Nat]] /\ spent \in Nat /\ spentSteps \in Nat
    BY DEF KinInv, TypeOK
  <2>2. calls[run.sid][run.stage] + 1 \in Nat
    BY <1>1, <1>2, <2>1
  <2>3. calls' \in [Sessions -> [Stage -> Nat]]
    BY <1>1, <1>2, <1>4, <2>1, <2>2
  <2> QED
    BY <1>3, <1>4, <1>5, <2>1, <2>3 DEF KinInv, TypeOK
<1>8. RunShape'
  BY <1>1, <1>2, <1>6 DEF KinInv, RunShape, Started, Creating, Checkpointing
<1>9. Ordinary
  BY <1>1, <1>4, <1>6 DEF Ordinary, OrdinarySave, OrdinaryMove, Creating
<1> QED
  BY <1>7, <1>8, <1>9 DEF Fits

\* A returning stage leaves its verdict, and drops the marker in memory.
LEMMA RecordResultFits == ASSUME KinInv, NEW r \in Results, RecordResult(r) PROVE Fits
<1> DEFINE st == run.stage
           active == [run.mem.active EXCEPT ![st] = ActiveAfter(r, run.mem.active[st])]
           c == [run.mem EXCEPT !.active = active]
           b == Touch(c)
           more == \E o \in StagesOf[b.wf] \ {st} : run.nodes[o] # "success"
           to == NodeAfter[r]
           mem == [b EXCEPT !.pending = IF run.op = "advance" THEN Nil ELSE b.pending]
           next == IF to = "success" /\ ~ (run.op = "advance" /\ more) THEN "loop" ELSE "settle"
           mark == CASE to = "success" -> "investigating"
                     [] r = "review" -> "blocked"
                     [] OTHER -> "failed"
<1>1. /\ Started /\ run.mem \in Blobs /\ run \in Runs /\ run.op # "replan" /\ run.pc = "executing"
      /\ run.nodes \in [Stage -> NodeStatuses]
  BY LoadedMeans DEF RecordResult, PCs, Creating
<1>2. st \in Stage /\ run.op \in {"advance", "run"}
  BY <1>1 DEF KinInv, RunShape
<1>3. to \in NodeStatuses \ {"absent", "pending"} /\ next \in {"loop", "settle"} /\ next \in PCs
      /\ mark \in TaskStatuses
  BY Names DEF Results, NodeAfter
<1>4. active \in [Stage -> Verdicts]
  <2>1. run.mem.active \in [Stage -> Verdicts]
    BY <1>1 DEF Blobs
  <2>2. ActiveAfter(r, run.mem.active[st]) \in Verdicts
    BY <1>2, <2>1 DEF ActiveAfter, Verdicts, Results
  <2> QED
    BY <2>1, <2>2
<1>5. c \in Blobs
  BY <1>1, <1>4, FieldWrites
<1>6. Core(c) = Core(run.mem) /\ Links(c) = Links(run.mem)
  <2> HIDE DEF active
  <2> QED
    BY <1>1 DEF Core, Links, Blobs
<1>7. b \in Blobs /\ Core(b) = Core(run.mem) /\ Links(b) = Links(run.mem)
  <2> HIDE DEF c
  <2> QED
    BY <1>5, <1>6, Updates, LinkUpdates
<1>8. mem \in Blobs /\ Links(mem) = Links(run.mem)
  <2> HIDE DEF b
  <2> DEFINE p == IF run.op = "advance" THEN Nil ELSE b.pending
  <2>1. p \in Stage \cup {Nil}
    BY <1>7 DEF Blobs
  <2>2. mem \in Blobs
    BY <1>7, <2>1, FieldWrites
  <2>3. Links(mem) = Links(b)
    BY <1>7 DEF Links, Blobs
  <2> QED
    BY <1>7, <2>2, <2>3
<1>9. c = [run.mem EXCEPT !.active[st] = ActiveAfter(r, run.mem.active[st])]
  BY <1>1, <1>4 DEF Blobs
<1>10. Save(b) /\ UNCHANGED <<rows, srow, held, history>>
  BY <1>9 DEF RecordResult
<1>11. run' = [run EXCEPT !.pc = "checkpoint", !.to = to, !.mem = mem, !.next = next, !.mark = mark]
  <2>1. [b EXCEPT !.pending = IF run.op = "advance" THEN Nil ELSE @] = mem
    BY <1>7, SMTT(40) DEF Blobs
  <2> QED
    BY <1>9, <2>1 DEF RecordResult
<1>12. OrdinarySave /\ blob' \in [Sessions -> Blobs \cup {Nil}]
  <2> HIDE DEF b
  <2> QED
    BY <1>1, <1>7, <1>10, KeepsAll, SaveFits
<1> HIDE DEF mem, to, next, mark
<1>13. run' \in Runs
  BY <1>1, <1>3, <1>8, <1>11, Names DEF Runs
<1>14. /\ run'.pc = "checkpoint" /\ run'.op = run.op /\ run'.sid = run.sid
       /\ run'.mem = mem /\ run'.nodes = run.nodes /\ run'.dec = run.dec
       /\ run'.stage = st /\ run'.to = to /\ run'.next = next /\ run'.mark = mark
  BY <1>1, <1>11 DEF Runs
<1>15. RunShape'
  BY <1>1, <1>2, <1>3, <1>8, <1>14 DEF KinInv, RunShape, Started, Creating, Checkpointing
<1>16. run'.pc \notin Creating \cup {"idle", "enter"}
  BY <1>14 DEF Creating
<1> QED
  BY <1>1, <1>8, <1>10, <1>12, <1>13, <1>14, <1>15, <1>16, GoesOnSameFits

\* The last save of a call; after a compatibility approval it goes on.
LEMMA SettleFits == ASSUME KinInv, Settle PROVE Fits
<1> DEFINE b == Mark(run.mem, run.mark)
<1>1. /\ Started /\ run.mem \in Blobs /\ run \in Runs /\ run.op # "replan" /\ run.pc = "settle"
      /\ run.nodes \in [Stage -> NodeStatuses]
  BY LoadedMeans DEF Settle, PCs, Creating
<1>2. run.mark \in TaskStatuses
  BY <1>1 DEF KinInv, RunShape
<1>3. b \in Blobs /\ Core(b) = Core(run.mem) /\ Links(b) = Links(run.mem)
  BY <1>1, <1>2, Updates, LinkUpdates
<1>4. Save(b) /\ UNCHANGED <<rows, srow, held, history>>
  BY DEF Settle
<1>5. OrdinarySave /\ blob' \in [Sessions -> Blobs \cup {Nil}]
  BY <1>1, <1>3, <1>4, KeepsAll, SaveFits
<1>6. CASE ~ (run.op = "run" /\ run.mark = "investigating")
  <2>1. run' = IdleRun
    BY <1>6 DEF Settle
  <2> QED
    BY <1>4, <1>5, <2>1, ReturnSameFits
<1>7. CASE run.op = "run" /\ run.mark = "investigating"
  <2> HIDE DEF b
  <2>1. run' = [run EXCEPT !.pc = "loop", !.mem = b]
    BY <1>7 DEF Settle, b
  <2>2. run' \in Runs
    BY <1>1, <1>3, <2>1, Names DEF Runs
  <2>3. /\ run'.pc = "loop" /\ run'.op = "run" /\ run'.sid = run.sid
        /\ run'.mem = b /\ run'.nodes = run.nodes /\ run'.dec = run.dec
    BY <1>1, <1>7, <2>1 DEF Runs
  <2>4. RunShape'
    BY <1>1, <1>3, <1>7, <2>3 DEF KinInv, RunShape, Started, Creating, Checkpointing
  <2>5. run'.pc \notin Creating \cup {"idle", "enter"}
    BY <2>3 DEF Creating
  <2> QED
    BY <1>1, <1>3, <1>4, <1>5, <1>7, <2>2, <2>3, <2>4, <2>5, GoesOnSameFits
<1> QED
  BY <1>6, <1>7

\* Closing the sessions row touches no document.
LEMMA CloseSessionFits == ASSUME KinInv, CloseSession PROVE Fits
<1>1. /\ Started /\ run.mem \in Blobs /\ run \in Runs /\ run.op # "replan"
      /\ run.nodes \in [Stage -> NodeStatuses] /\ run.sid \in Sessions
  BY LoadedMeans DEF CloseSession, PCs, Creating
<1>2. run.pc = "close_first" => run.mark \in TaskStatuses
  BY DEF KinInv, RunShape
<1>3. UNCHANGED <<blob, rows, held, history>> /\ srow' = [srow EXCEPT ![run.sid] = "closed"]
  BY DEF CloseSession
<1>4. srow[run.sid] # "absent"
  BY <1>1, LoadedMeans DEF CloseSession, KinInv, StoreKin, PCs, Creating
<1>5. /\ srow' \in [Sessions -> {"absent", "open", "closed"}]
      /\ \A s \in Sessions : srow'[s] = "absent" <=> srow[s] = "absent"
  BY <1>1, <1>3, <1>4 DEF KinInv, TypeOK
<1>6. /\ OrdinarySave /\ blob' \in [Sessions -> Blobs \cup {Nil}]
      /\ rows' \in [Sessions -> [Stage -> NodeStatuses]] /\ held' \in Decisions \cup {Nil}
  BY <1>3 DEF OrdinarySave, KinInv, TypeOK
<1>7. CASE run.pc = "close"
  <2>1. run' = IdleRun
    BY <1>7 DEF CloseSession
  <2> QED
    BY <1>3, <1>5, <1>6, <2>1, ReturnFits
<1>8. CASE run.pc = "close_first"
  <2>1. run' = [run EXCEPT !.pc = "settle"]
    BY <1>8 DEF CloseSession
  <2>2. run' \in Runs
    BY <1>1, <2>1, Names DEF Runs
  <2>3. /\ run'.pc = "settle" /\ run'.op = run.op /\ run'.sid = run.sid
        /\ run'.mem = run.mem /\ run'.nodes = run.nodes /\ run'.dec = run.dec
        /\ run'.stage = run.stage /\ run'.mark = run.mark
    BY <1>1, <2>1 DEF Runs
  <2>4. RunShape'
    BY <1>1, <1>2, <1>8, <2>3 DEF KinInv, RunShape, Started, Creating, Checkpointing
  <2>5. run'.pc \notin Creating \cup {"idle", "enter"}
    BY <2>3 DEF Creating
  <2> QED
    BY <1>1, <1>3, <1>5, <1>6, <2>2, <2>3, <2>4, <2>5, GoesOnFits
<1> QED
  BY <1>7, <1>8 DEF CloseSession

\* Recovery rewrites rows, and reloads the document it found.
LEMMA RecoverInterruptedFits == ASSUME KinInv, RecoverInterrupted PROVE Fits
<1>1. /\ Started /\ run.mem \in Blobs /\ run \in Runs /\ run.op # "replan"
      /\ run.nodes \in [Stage -> NodeStatuses] /\ run.sid \in Sessions /\ run.pc = "recover"
      /\ blob[run.sid] \in Blobs
  BY LoadedMeans DEF RecoverInterrupted, PCs, Creating
<1>2. run.op \in {"advance", "run"} /\ rows \in [Sessions -> [Stage -> NodeStatuses]]
  BY <1>1 DEF KinInv, RunShape, TypeOK
<1>3. UNCHANGED <<blob, srow, held, history>>
  BY DEF RecoverInterrupted
<1>4. /\ OrdinarySave /\ blob' \in [Sessions -> Blobs \cup {Nil}]
      /\ srow' \in [Sessions -> {"absent", "open", "closed"}]
      /\ \A s \in Sessions : srow'[s] = "absent" <=> srow[s] = "absent"
  BY <1>3 DEF OrdinarySave, KinInv, TypeOK
<1>5. CASE \E st \in Stage : rows[run.sid][st] = "running"
  <2> DEFINE nodes == Recovered(rows[run.sid])
             mem == blob[run.sid]
  <2>1. /\ rows' = [rows EXCEPT ![run.sid] = nodes]
        /\ run' = [run EXCEPT !.pc = "settle", !.mark = "blocked", !.mem = mem, !.nodes = nodes]
    BY <1>5 DEF RecoverInterrupted
  <2>2. nodes \in [Stage -> NodeStatuses]
    BY <1>1, <1>2, Names DEF Recovered
  <2>3. mem \in Blobs
    BY <1>1
  <2> HIDE DEF nodes, mem
  <2>4. run' \in Runs
    BY <1>1, <2>1, <2>2, <2>3, Names DEF Runs
  <2>5. /\ run'.pc = "settle" /\ run'.op = run.op /\ run'.sid = run.sid
        /\ run'.mem = mem /\ run'.nodes = nodes /\ run'.dec = run.dec
        /\ run'.stage = run.stage /\ run'.mark = "blocked"
    BY <1>1, <2>1 DEF Runs
  <2>6. RunShape'
    BY <1>1, <1>2, <2>2, <2>3, <2>5, Names DEF KinInv, RunShape, Started, Creating, Checkpointing
  <2>7. run'.pc \notin Creating \cup {"idle", "enter"} /\ run'.mem = blob[run.sid]
    BY <2>5 DEF Creating, mem
  <2>8. rows' \in [Sessions -> [Stage -> NodeStatuses]]
    BY <1>1, <1>2, <2>1, <2>2
  <2> QED
    BY <1>1, <1>3, <1>4, <2>4, <2>5, <2>6, <2>7, <2>8, GoesOnFits
<1>6. CASE ~ \E st \in Stage : rows[run.sid][st] = "running"
  <2> DEFINE pc == IF run.op = "run" /\ run.stage # Nil THEN "approve" ELSE "loop"
  <2>1. run' = [run EXCEPT !.pc = pc] /\ UNCHANGED rows
    BY <1>6 DEF RecoverInterrupted
  <2>2. pc \in PCs /\ pc \in {"approve", "loop"}
    BY Names
  <2> HIDE DEF pc
  <2>3. run' \in Runs
    BY <1>1, <2>1, <2>2 DEF Runs
  <2>4. /\ run'.pc = pc /\ run'.op = run.op /\ run'.sid = run.sid
        /\ run'.mem = run.mem /\ run'.nodes = run.nodes /\ run'.dec = run.dec
        /\ run'.stage = run.stage
    BY <1>1, <2>1 DEF Runs
  <2>5. RunShape'
    BY <1>1, <1>2, <2>2, <2>4 DEF KinInv, RunShape, Started, Creating, Checkpointing
  <2>6. run'.pc \notin Creating \cup {"idle", "enter"}
    BY <2>2, <2>4 DEF Creating
  <2> QED
    BY <1>1, <1>3, <1>4, <2>1, <2>3, <2>4, <2>5, <2>6, GoesOnSameFits
<1> QED
  BY <1>5, <1>6

-----------------------------------------------------------------------------
(* Calls that enter. *)

\* A call loads a saved document and its rows.
LEMMA EntryFits1 ==
    ASSUME KinInv, Idle, UNCHANGED <<store, held, history>>, NEW s \in Sessions, Loadable(s),
           run' \in Runs, run'.sid = s, run'.mem = blob[s], run'.nodes = rows[s],
           run'.pc \in {"enter", "recover"}, run'.pc = "recover" <=> run'.op = "run",
           run'.op # Nil, run'.op # "start",
           run'.op \in {"advance", "approve", "review", "stop", "replan"} => run'.dec \in Decisions,
           run'.op = "approve" => run'.stage \in Stage,
           run'.op = "advance" /\ run'.dec.outcome \in {"delegate", "await_approval"}
              => run'.stage \in Stage,
           run'.op \in {"stop", "replan"} => CallCore(run'.op, s)
    PROVE  Fits
<1>1. blob[s] \in Blobs /\ rows[s] \in [Stage -> NodeStatuses]
  BY DEF KinInv, TypeOK, Loadable
<1>2. /\ blob' = blob /\ rows' = rows /\ srow' = srow /\ held' = held
      /\ calls' = calls /\ spent' = spent /\ spentSteps' = spentSteps
  BY DEF store, history
<1>3. TypeOK'
  BY <1>2 DEF KinInv, TypeOK
<1>4. Started' /\ ~ Checkpointing' /\ run'.pc \notin Creating
  BY DEF Started, Checkpointing, Creating
<1>5. RunShape'
  BY <1>1, <1>4 DEF RunShape, Creating
<1>6. Ordinary
  BY <1>2 DEF Ordinary, OrdinarySave, OrdinaryMove
<1> QED
  BY <1>3, <1>5, <1>6 DEF Fits

\* What Enter puts in the call's memory.
LEMMA EnterLoads ==
    ASSUME KinInv, NEW op \in Ops, NEW s \in Sessions, NEW d \in Decisions \cup {Nil},
           NEW st \in Stage \cup {Nil}, blob[s] # Nil, Enter(op, s, d, st)
    PROVE  /\ run' \in Runs /\ run'.op = op /\ run'.pc = "enter" /\ run'.sid = s
           /\ run'.mem = blob[s] /\ run'.nodes = rows[s] /\ run'.dec = d /\ run'.stage = st
<1>1. blob[s] \in Blobs /\ rows[s] \in [Stage -> NodeStatuses]
  BY DEF KinInv, TypeOK
<1>2. run' = [IdleRun EXCEPT !.op = op, !.pc = "enter", !.sid = s, !.mem = blob[s],
                             !.nodes = rows[s], !.dec = d, !.stage = st]
  BY DEF Enter
<1>3. run' \in Runs
  BY <1>1, <1>2, IdleRunType, Names DEF Runs
<1> QED
  BY <1>2, <1>3, IdleRunType DEF Runs

\* decide_core enters with the document it loaded.
LEMMA CallDecideFits == ASSUME KinInv, NEW s \in Sessions, CallDecide(s) PROVE Fits
<1>1. /\ Idle /\ Loadable(s) /\ blob[s] # Nil /\ Enter("decide", s, Nil, Nil)
      /\ UNCHANGED <<store, held, history>>
  BY DEF CallDecide, CanEnter, Loadable
<1>2. /\ run' \in Runs /\ run'.op = "decide" /\ run'.pc = "enter" /\ run'.sid = s
      /\ run'.mem = blob[s] /\ run'.nodes = rows[s]
  BY <1>1, EnterLoads, Names
<1>3. Nil # "decide"
  BY NilAssumption, Names
<1> QED
  BY <1>1, <1>2, <1>3, EntryFits1

\* So does every command on an issued decision.
LEMMA CallCoreFits ==
    ASSUME KinInv, NEW s \in Sessions,
           NEW op \in {"advance", "approve", "review", "stop", "replan"}, CallCore(op, s)
    PROVE  Fits
<1>1. /\ Idle /\ Loadable(s) /\ blob[s] # Nil /\ Enter(op, s, held, held.stage)
      /\ UNCHANGED <<store, held, history>> /\ held # Nil
      /\ ValidDecision(s, blob[s], rows[s], held)
      /\ op = "approve" => held.outcome = "await_approval"
  BY DEF CallCore, CanEnter, Loadable
<1>2. /\ blob[s] \in Blobs /\ rows[s] \in [Stage -> NodeStatuses] /\ held \in Decisions
      /\ op \in Ops /\ op # Nil
  BY <1>1, NilAssumption DEF KinInv, TypeOK, Ops
<1>3. held = Decide(s, blob[s], rows[s])
  BY <1>1 DEF ValidDecision
<1>4. held.outcome \in {"delegate", "await_approval"} => held.stage \in Stage
  BY <1>2, <1>3, DecideType
<1>5. held.stage \in Stage \cup {Nil}
  BY <1>2 DEF Decisions
<1>6. /\ run' \in Runs /\ run'.op = op /\ run'.pc = "enter" /\ run'.sid = s
      /\ run'.mem = blob[s] /\ run'.nodes = rows[s] /\ run'.dec = held /\ run'.stage = held.stage
  BY <1>1, <1>2, <1>5, EnterLoads
<1> QED
  BY <1>1, <1>2, <1>4, <1>6, EntryFits1

\* So does run() on the compatibility path.
LEMMA CallRunFits ==
    ASSUME KinInv, NEW s \in Sessions, NEW st \in Stage \cup {Nil}, CallRun(s, st) PROVE Fits
<1>1. /\ Idle /\ Loadable(s) /\ blob[s] # Nil /\ UNCHANGED <<store, held, history>>
      /\ run' = [IdleRun EXCEPT !.op = "run", !.pc = "recover", !.sid = s, !.mem = blob[s],
                                !.nodes = rows[s], !.stage = st]
  BY DEF CallRun, CanEnter, Loadable
<1>2. blob[s] \in Blobs /\ rows[s] \in [Stage -> NodeStatuses]
  BY <1>1 DEF KinInv, TypeOK
<1>3. run' \in Runs
  <2>1. ASSUME NEW b \in Blobs, NEW n \in [Stage -> NodeStatuses]
        PROVE  [IdleRun EXCEPT !.op = "run", !.pc = "recover", !.sid = s, !.mem = b,
                               !.nodes = n, !.stage = st] \in Runs
    BY IdleRunType, Names DEF Runs
  <2> QED
    BY <1>1, <1>2, <2>1
<1>4. /\ run'.op = "run" /\ run'.pc = "recover" /\ run'.sid = s
      /\ run'.mem = blob[s] /\ run'.nodes = rows[s]
  BY <1>1, IdleRunType DEF Runs
<1>5. Nil # "run"
  BY NilAssumption, Names
<1> QED
  BY <1>1, <1>3, <1>4, <1>5, EntryFits1

\* issued_core hands out a saved decision and changes no record.
LEMMA IssuedCoreFits == ASSUME KinInv, NEW s \in Sessions, IssuedCore(s) PROVE Fits
<1>1. /\ run' = IdleRun /\ UNCHANGED <<rows, srow, history>> /\ blob' = blob
      /\ held' = blob[s].decision /\ blob[s] # Nil
  BY DEF IssuedCore, Idle, KinInv, RunShape, store, Loadable
<1>2. /\ blob' \in [Sessions -> Blobs \cup {Nil}] /\ held' \in Decisions \cup {Nil}
      /\ srow' \in [Sessions -> {"absent", "open", "closed"}]
  BY <1>1 DEF KinInv, TypeOK, Blobs
<1> QED
  BY <1>1, <1>2, ReturnFits DEF OrdinarySave

\* A crash loses the call and nothing else.
LEMMA CrashFits == ASSUME KinInv, Crash PROVE Fits
<1>1. /\ run' = IdleRun /\ UNCHANGED <<rows, srow, held, history>> /\ blob' = blob
  BY DEF Crash, store
<1>2. blob' \in [Sessions -> Blobs \cup {Nil}]
  BY <1>1 DEF KinInv, TypeOK
<1> QED
  BY <1>1, <1>2, ReturnSameFits DEF OrdinarySave

\* A step that is ordinary keeps everybody's descent.
LEMMA OrdinaryKeepsKin == ASSUME KinInv, Fits PROVE KinInv' /\ KinStep
<1> USE DEF KinInv
<1>1. /\ blob \in [Sessions -> Blobs \cup {Nil}] /\ blob' \in [Sessions -> Blobs \cup {Nil}]
      /\ \A s \in Sessions : srow'[s] = "absent" <=> srow[s] = "absent"
  BY DEF Fits, Ordinary, TypeOK
<1>2. \A s \in Sessions : /\ blob'[s] = Nil <=> blob[s] = Nil
                          /\ blob[s] # Nil => blob'[s].parent = blob[s].parent
  <2>1. CASE blob' = blob
    BY <2>1
  <2>2. CASE Started /\ \E b \in Blobs : Save(b) /\ Keeps(b, run.mem)
    <3>1. PICK b \in Blobs : Save(b) /\ Keeps(b, run.mem)
      BY <2>2
    <3>2. b # Nil /\ b.parent = run.mem.parent
      BY <3>1, NilAssumption DEF Keeps, Links
    <3>3. run.sid \in Sessions /\ blob[run.sid] # Nil /\ run.mem.parent = blob[run.sid].parent
      BY <2>2 DEF CallKin, RunShape
    <3> QED
      BY <1>1, <3>1, <3>2, <3>3 DEF Save
  <2> QED
    BY <2>1, <2>2 DEF Fits, Ordinary, OrdinarySave
<1>3. StoreKin'
  BY <1>1, <1>2, SMTT(30) DEF StoreKin
<1>4. CASE run' = IdleRun
  <2>1. run'.pc = "idle" /\ run'.op = Nil /\ Nil # "start" /\ Nil # "replan"
    BY <1>4, NilAssumption DEF IdleRun, Ops
  <2>2. ~ Started' /\ ~ Making(run')
    BY <2>1 DEF Started, Making
  <2>3. CallKin'
    BY <2>1, <2>2 DEF CallKin
  <2>4. KinStep
    BY <1>1, <1>2, <2>1, <2>2 DEF KinStep
  <2> QED
    BY <1>3, <2>3, <2>4 DEF Fits
<1>5. CASE run' = run /\ ~ Making(run)
  <2>1. CallKin'
    BY <1>2, <1>5 DEF CallKin, Started, Making, RunShape
  <2>2. KinStep
    BY <1>1, <1>2, <1>5 DEF KinStep
  <2> QED
    BY <1>3, <2>1, <2>2 DEF Fits
<1>6. CASE /\ Started /\ run.op # "replan"
           /\ run'.pc \notin Creating \cup {"idle", "enter"}
           /\ run'.op = run.op /\ run'.sid = run.sid
           /\ \/ Links(run'.mem) = Links(run.mem)
              \/ run'.mem = blob[run.sid]
  <2>1. run'.op # "start" /\ ~ Making(run') /\ run'.pc \notin Creating
    BY <1>6 DEF Started, Making, Creating
  <2>2. /\ run.sid \in Sessions /\ blob[run.sid] # Nil
        /\ run'.mem.parent = run.mem.parent /\ run.mem.parent = blob[run.sid].parent
    BY <1>6 DEF CallKin, RunShape, Links
  <2>3. CallKin'
    BY <1>2, <1>6, <2>1, <2>2 DEF CallKin
  <2>4. KinStep
    BY <1>1, <1>2, <2>1 DEF KinStep
  <2> QED
    BY <1>3, <2>3, <2>4 DEF Fits
<1>7. CASE /\ Idle /\ blob' = blob /\ run'.pc \in {"enter", "recover"} /\ run'.op # "start"
           /\ \E s \in Sessions : Loadable(s) /\ run'.sid = s /\ run'.mem = blob[s]
  <2>1. ~ Making(run') /\ run'.pc \notin Creating
    BY <1>7 DEF Making, Creating
  <2>2. CallKin'
    BY <1>7, <2>1 DEF CallKin, Loadable
  <2>3. KinStep
    BY <1>1, <1>2, <1>7, <2>1 DEF KinStep
  <2> QED
    BY <1>3, <2>2, <2>3 DEF Fits
<1> QED
  BY <1>4, <1>5, <1>6, <1>7 DEF Fits, Ordinary, OrdinaryMove

-----------------------------------------------------------------------------
(* The steps that write a stop, a link, or a new session. *)

\* A loaded call that saves its document under the same parent.
LEMMA ParentKept ==
    ASSUME KinInv, Started, NEW b \in Blobs, Save(b), b.parent = run.mem.parent, srow' = srow
    PROVE  /\ blob' \in [Sessions -> Blobs \cup {Nil}] /\ StoreKin'
           /\ \A s \in Sessions : /\ blob'[s] = Nil <=> blob[s] = Nil
                                  /\ blob[s] # Nil => blob'[s].parent = blob[s].parent
<1> USE DEF KinInv
<1>1. /\ blob \in [Sessions -> Blobs \cup {Nil}] /\ b # Nil
      /\ run.sid \in Sessions /\ blob[run.sid] # Nil /\ run.mem.parent = blob[run.sid].parent
  BY NilAssumption DEF CallKin, RunShape, TypeOK
<1>2. blob' \in [Sessions -> Blobs \cup {Nil}]
  BY <1>1 DEF Save
<1>3. \A s \in Sessions : /\ blob'[s] = Nil <=> blob[s] = Nil
                          /\ blob[s] # Nil => blob'[s].parent = blob[s].parent
  BY <1>1 DEF Save
<1>4. StoreKin'
  BY <1>3, SMTT(30) DEF StoreKin
<1> QED
  BY <1>2, <1>3, <1>4

\* ... and returns.
LEMMA LastSaveKeepsKin ==
    ASSUME KinInv, Started, NEW b \in Blobs, Save(b), b.parent = run.mem.parent,
           run' = IdleRun, UNCHANGED <<rows, srow, held, history>>
    PROVE  KinInv' /\ KinStep
<1> USE DEF KinInv
<1>1. /\ blob' \in [Sessions -> Blobs \cup {Nil}] /\ StoreKin'
      /\ \A s \in Sessions : /\ blob'[s] = Nil <=> blob[s] = Nil
                             /\ blob[s] # Nil => blob'[s].parent = blob[s].parent
  BY ParentKept
<1>2. run'.pc = "idle" /\ run'.op = Nil /\ Nil # "start" /\ Nil # "replan" /\ Nil # "run"
      /\ Nil # "advance"
  BY NilAssumption DEF IdleRun, Ops
<1>3. ~ Started' /\ ~ Checkpointing' /\ ~ Making(run') /\ run'.pc \notin Creating
  BY <1>2 DEF Started, Checkpointing, Making, Creating
<1>4. TypeOK'
  BY <1>1, IdleRunType DEF TypeOK, history
<1>5. RunShape'
  BY <1>2, <1>3, NilAssumption DEF RunShape, IdleRun, Creating, Ops
<1>6. CallKin' /\ KinStep
  BY <1>1, <1>2, <1>3 DEF CallKin, KinStep
<1> QED
  BY <1>1, <1>4, <1>5, <1>6

\* stop_core saves its session where it stands.
LEMMA StopCoreKeepsKin == ASSUME KinInv, StopCore PROVE KinInv' /\ KinStep
<1> DEFINE b == StoppedBlob(run.mem, run.dec)
<1>1. Started /\ run.mem \in Blobs /\ run.sid \in Sessions
  BY LoadedMeans DEF StopCore, At
<1>2. run.dec \in Decisions
  BY DEF StopCore, At, KinInv, RunShape
<1>3. b \in Blobs /\ Links(b) = Links(run.mem)
  <2>1. b \in Blobs
    BY <1>1, <1>2, Stops
  <2>2. run.mem.wf \in Workflows
    BY <1>1 DEF Blobs
  <2>3. Links(b) = Links(run.mem)
    BY <1>1, <1>2, <2>2, LinkWrites
  <2> QED
    BY <2>1, <2>3
<1>4. Save(b) /\ run' = IdleRun /\ UNCHANGED <<rows, srow, held, history>>
  BY DEF StopCore
<1> QED
  BY <1>1, <1>3, <1>4, LastSaveKeepsKin DEF Links

\* The parent names its replacement.
LEMMA LinkReplacementKeepsKin == ASSUME KinInv, LinkReplacement PROVE KinInv' /\ KinStep
<1> DEFINE c == [run.mem EXCEPT !.child = run.kidSid]
<1>1. Started /\ run.mem \in Blobs /\ run.kidSid \in Sessions
  <2>1. run.kidSid \in Sessions
    BY DEF LinkReplacement, KinInv, RunShape, Creating
  <2> QED
    BY <2>1, LoadedMeans DEF LinkReplacement
<1>2. c \in Blobs /\ c.parent = run.mem.parent
  BY <1>1, FieldWrites DEF Blobs
<1>3. Touch(c) \in Blobs /\ Touch(c).parent = run.mem.parent
  <2> HIDE DEF c
  <2> QED
    BY <1>2, Updates, LinkUpdates DEF Links
<1>4. Save(Touch(c)) /\ run' = IdleRun /\ UNCHANGED <<rows, srow, held, history>>
  BY DEF LinkReplacement
<1> HIDE DEF c
<1> QED
  BY <1>1, <1>3, <1>4, LastSaveKeepsKin

\* The parent is stopped, and its call holds the child it is about to create.
LEMMA ReplanCoreKeepsKin ==
    ASSUME KinInv, NEW w \in Workflows, ReplanCore(w) PROVE KinInv' /\ KinStep
<1> DEFINE b == ReplannedBlob(run.mem, run.dec)
           kid == ReplacementBlob(run.mem, run.sid, run.dec, w)
<1> USE DEF KinInv
<1>1. /\ Started /\ run \in Runs /\ run.mem \in Blobs /\ run.sid \in Sessions /\ run.op = "replan"
      /\ run.pc = "enter" /\ run.nodes \in [Stage -> NodeStatuses] /\ blob[run.sid] # Nil
      /\ run.mem.parent = blob[run.sid].parent
  BY LoadedMeans DEF ReplanCore, At
<1>2. run.dec \in Decisions
  BY <1>1 DEF RunShape
<1>3. b \in Blobs /\ Links(b) = <<run.mem.parent, run.mem.via, run.mem.child, run.dec>>
  BY <1>1, <1>2, Stops, LinkWrites
<1>4. kid \in Blobs /\ Links(kid) = <<run.sid, run.dec, Nil, Nil>>
  BY <1>1, <1>2, Replacement, LinkWrites
<1>5. /\ Save(b) /\ run' = [run EXCEPT !.pc = "create", !.mem = b, !.kid = kid]
      /\ UNCHANGED <<rows, srow, held, history>>
  BY DEF ReplanCore
<1> HIDE DEF b, kid
<1>6. run' \in Runs
  <2>1. run \in Runs /\ b \in Blobs /\ kid \in Blobs
        /\ run' = [run EXCEPT !.pc = "create", !.mem = b, !.kid = kid]
    BY <1>1, <1>3, <1>4, <1>5
  <2> QED
    BY <2>1, Names DEF Runs
<1>7. /\ run'.pc = "create" /\ run'.op = "replan" /\ run'.sid = run.sid /\ run'.mem = b
      /\ run'.nodes = run.nodes /\ run'.dec = run.dec /\ run'.kid = kid
  BY <1>1, <1>5 DEF Runs
<1>8. b.parent = run.mem.parent /\ kid.parent = run.sid
  BY <1>3, <1>4 DEF Links
<1>9. /\ blob' \in [Sessions -> Blobs \cup {Nil}] /\ StoreKin'
      /\ \A s \in Sessions : /\ blob'[s] = Nil <=> blob[s] = Nil
                             /\ blob[s] # Nil => blob'[s].parent = blob[s].parent
  BY <1>1, <1>3, <1>5, <1>8, ParentKept
<1>10. TypeOK'
  BY <1>5, <1>6, <1>9 DEF TypeOK, history
<1>11. RunShape'
  BY <1>1, <1>2, <1>3, <1>4, <1>7 DEF RunShape, Started, Creating, Checkpointing
<1>12. CallKin'
  BY <1>1, <1>7, <1>8, <1>9 DEF CallKin, Making
<1>13. KinStep
  BY <1>5, <1>7, <1>9 DEF KinStep, Making
<1> QED
  BY <1>9, <1>10, <1>11, <1>12, <1>13

\* A start begins a mission with no document and no parent.
LEMMA StartKeepsKin ==
    ASSUME KinInv, NEW k \in Kinds, NEW w \in Workflows, Start(k, w) PROVE KinInv' /\ KinStep
<1> DEFINE kid == NewBlob(k, w)
<1> USE DEF KinInv
<1>1. kid \in Blobs /\ kid.parent = Nil
  <2>1. k \in {"plain", "core", "budgeted"}
    BY WorkflowAssumption
  <2> QED
    BY <2>1, NewSession DEF NewBlob
<1>2. /\ \A s \in Sessions : blob[s] = Nil
      /\ run' = [IdleRun EXCEPT !.op = "start", !.pc = "create", !.kid = kid] /\ run.pc = "idle"
      /\ blob' = blob /\ rows' = rows /\ srow' = srow /\ held' = held
      /\ calls' = calls /\ spent' = spent /\ spentSteps' = spentSteps
  BY DEF Start, Idle, store, history
<1> HIDE DEF kid
<1>3. run' \in Runs
  <2>1. /\ IdleRun \in Runs /\ kid \in Blobs
        /\ run' = [IdleRun EXCEPT !.op = "start", !.pc = "create", !.kid = kid]
    BY <1>1, <1>2, IdleRunType
  <2> QED
    BY <2>1, Names DEF Runs
<1>4. run'.op = "start" /\ run'.pc = "create" /\ run'.kid = kid
  BY <1>2 DEF IdleRun
<1>5. ~ Started' /\ ~ Checkpointing' /\ ~ Making(run') /\ Nil # "start"
  BY <1>4, NilAssumption DEF Started, Checkpointing, Making, Ops
<1>6. TypeOK'
  BY <1>2, <1>3 DEF TypeOK
<1>7. RunShape'
  BY <1>1, <1>4, <1>5, NilAssumption DEF RunShape, Creating, Ops
<1>8. StoreKin' /\ CallKin'
  BY <1>1, <1>2, <1>4, <1>5 DEF StoreKin, CallKin
<1>9. KinStep
  BY <1>2, <1>5 DEF KinStep
<1> QED
  BY <1>6, <1>7, <1>8, <1>9

\* What a call that creates a session holds.
LEMMA CreatesMeans ==
    ASSUME KinInv, run.pc \in {"create", "save_plan", "save_state"}
    PROVE  /\ run \in Runs /\ run.op \in {"start", "replan"} /\ run.kid \in Blobs
           /\ run.op = "replan" => /\ Started /\ run.sid \in Sessions /\ blob[run.sid] # Nil
                                   /\ run.mem.parent = blob[run.sid].parent
                                   /\ run.kid.parent = run.sid
           /\ run.op = "start" => run.kid.parent = Nil /\ \A s \in Sessions : blob[s] = Nil
<1>1. run \in Runs /\ run.op \in {"start", "replan"} /\ run.kid \in Blobs
  BY DEF KinInv, TypeOK, RunShape, Creating
<1>2. run.op = "replan" => Started /\ run.sid \in Sessions
  BY DEF KinInv, RunShape, Started
<1> QED
  BY <1>1, <1>2 DEF KinInv, CallKin, Creating

\* The child's session is the first absent one, so later than its parent.
LEMMA CreateSessionKeepsKin ==
    ASSUME KinInv, NEW s \in Sessions, CreateSession(s) PROVE KinInv' /\ KinStep
<1> USE DEF KinInv
<1>1. /\ run \in Runs /\ run.op \in {"start", "replan"} /\ run.kid \in Blobs /\ run.pc = "create"
      /\ run.op = "replan" => Started /\ run.sid \in Sessions /\ blob[run.sid] # Nil
  BY CreatesMeans DEF CreateSession
<1>2. /\ srow' = [srow EXCEPT ![s] = "open"] /\ srow[s] = "absent"
      /\ \A t \in Sessions : t < s => srow[t] # "absent"
      /\ run' = [run EXCEPT !.pc = "save_plan", !.kidSid = s]
      /\ blob' = blob /\ rows' = rows /\ held' = held
      /\ calls' = calls /\ spent' = spent /\ spentSteps' = spentSteps
  BY DEF CreateSession, history
<1>3. run' \in Runs
  BY <1>1, <1>2, Names DEF Runs
<1>4. /\ run'.pc = "save_plan" /\ run'.op = run.op /\ run'.sid = run.sid
      /\ run'.mem = run.mem /\ run'.nodes = run.nodes /\ run'.dec = run.dec
      /\ run'.kid = run.kid /\ run'.kidSid = s
  BY <1>1, <1>2 DEF Runs
<1>5. TypeOK'
  BY <1>2, <1>3 DEF TypeOK
<1>6. RunShape'
  BY <1>1, <1>4 DEF RunShape, Started, Creating, Checkpointing
<1>7. srow \in [Sessions -> {"absent", "open", "closed"}] /\ \A t \in Sessions : t \in Nat
  BY DEF TypeOK, Sessions
<1>8. StoreKin'
  <2>1. \A t \in Sessions : srow'[t] = (IF t = s THEN "open" ELSE srow[t])
    BY <1>2, <1>7
  <2>2. \A t, u \in Sessions : t < u /\ srow'[u] # "absent" => srow'[t] # "absent"
    BY <1>2, <1>7, <2>1 DEF StoreKin
  <2> QED
    BY <1>2, <2>1, <2>2 DEF StoreKin
<1>9. blob[s] = Nil
  BY <1>2 DEF StoreKin
<1>10. run.op = "replan" => run.sid < s
  <2> SUFFICES ASSUME run.op = "replan" PROVE run.sid < s
    OBVIOUS
  <2>1. srow[run.sid] # "absent" /\ run.sid \in Nat /\ s \in Nat
    BY <1>1, <1>7 DEF StoreKin
  <2>2. ~ (s < run.sid) /\ s # run.sid
    BY <1>1, <1>2, <2>1 DEF StoreKin
  <2> QED
    BY <2>1, <2>2
<1>11. CallKin'
  BY <1>1, <1>2, <1>4, <1>7, <1>9, <1>10 DEF CallKin, Started, Making, Creating
<1>12. KinStep
  BY <1>1, <1>2, <1>4, <1>7 DEF KinStep, Making
<1> QED
  BY <1>5, <1>6, <1>8, <1>11, <1>12

\* The plan is saved, and no document.
LEMMA SavePlanKeepsKin == ASSUME KinInv, SavePlan PROVE KinInv' /\ KinStep
<1> DEFINE plan == [st \in Stage |-> IF st \in StagesOf[run.kid.wf] THEN "pending" ELSE "absent"]
           k == run.kidSid
<1> USE DEF KinInv
<1>1. /\ run \in Runs /\ run.op \in {"start", "replan"} /\ run.kid \in Blobs /\ run.pc = "save_plan"
      /\ run.op = "replan" => Started /\ run.sid \in Sessions
  BY CreatesMeans DEF SavePlan
<1>2. k \in Sessions /\ rows \in [Sessions -> [Stage -> NodeStatuses]]
  BY <1>1 DEF RunShape, TypeOK, Creating
<1>3. plan \in [Stage -> NodeStatuses]
  BY DEF NodeStatuses
<1>4. /\ rows' = [rows EXCEPT ![k] = plan] /\ run' = [run EXCEPT !.pc = "save_state"]
      /\ blob' = blob /\ srow' = srow /\ held' = held
      /\ calls' = calls /\ spent' = spent /\ spentSteps' = spentSteps
  BY DEF SavePlan, history
<1> HIDE DEF plan
<1>5. run' \in Runs
  BY <1>1, <1>4, Names DEF Runs
<1>6. /\ run'.pc = "save_state" /\ run'.op = run.op /\ run'.sid = run.sid
      /\ run'.mem = run.mem /\ run'.nodes = run.nodes /\ run'.dec = run.dec
      /\ run'.kid = run.kid /\ run'.kidSid = k
  BY <1>1, <1>4 DEF Runs
<1>7. TypeOK'
  BY <1>2, <1>3, <1>4, <1>5 DEF TypeOK
<1>8. RunShape'
  BY <1>1, <1>2, <1>6 DEF RunShape, Started, Creating, Checkpointing
<1>9. StoreKin' /\ CallKin' /\ KinStep
  BY <1>1, <1>4, <1>6 DEF StoreKin, CallKin, KinStep, Started, Making, Creating
<1> QED
  BY <1>7, <1>8, <1>9

\* The first save of the new session: the only step by which one appears.
LEMMA SaveTaskStateKeepsKin == ASSUME KinInv, SaveTaskState PROVE KinInv' /\ KinStep
<1> DEFINE k == run.kidSid
           b == run.kid
<1> USE DEF KinInv
<1>1. /\ run \in Runs /\ run.op \in {"start", "replan"} /\ b \in Blobs /\ b # Nil
      /\ run.pc = "save_state"
      /\ run.op = "replan" => /\ Started /\ run.sid \in Sessions /\ blob[run.sid] # Nil
                              /\ run.mem.parent = blob[run.sid].parent /\ b.parent = run.sid
      /\ run.op = "start" => b.parent = Nil /\ \A s \in Sessions : blob[s] = Nil
  BY CreatesMeans, NilAssumption DEF SaveTaskState
<1>2. k \in Sessions /\ blob[k] = Nil /\ srow[k] # "absent"
      /\ (run.op = "replan" => run.sid < k) /\ blob \in [Sessions -> Blobs \cup {Nil}]
  BY <1>1 DEF RunShape, TypeOK, Creating, CallKin, Making
<1>3. /\ blob' = [blob EXCEPT ![k] = b]
      /\ run' = IF run.op = "replan" THEN [run EXCEPT !.pc = "link"] ELSE IdleRun
      /\ rows' = rows /\ srow' = srow /\ held' = held
      /\ calls' = calls /\ spent' = spent /\ spentSteps' = spentSteps
  BY DEF SaveTaskState, history
<1>4. blob' \in [Sessions -> Blobs \cup {Nil}] /\ blob'[k] = b
      /\ \A s \in Sessions : s # k => blob'[s] = blob[s]
  BY <1>1, <1>2, <1>3
<1>5. run' \in Runs
  <2>1. [run EXCEPT !.pc = "link"] \in Runs
    BY <1>1, Names DEF Runs
  <2> QED
    BY <1>3, <2>1, IdleRunType
<1>6. TypeOK'
  BY <1>3, <1>4, <1>5 DEF TypeOK
<1>p. run.op = "replan" => b.parent # Nil
  BY <1>1, NilAssumption
<1>7. StoreKin'
  <2>1. \A s \in Sessions : srow'[s] = "absent" => blob'[s] = Nil
    BY <1>2, <1>3, <1>4 DEF StoreKin
  <2>2. \A s \in Sessions : blob'[s] # Nil /\ blob'[s].parent # Nil => blob'[s].parent < s
    BY <1>1, <1>2, <1>4 DEF StoreKin
  <2>3. \A s, t \in Sessions : /\ blob'[s] # Nil /\ blob'[s].parent = Nil
                               /\ blob'[t] # Nil /\ blob'[t].parent = Nil
                               => s = t
    <3> TAKE s, t \in Sessions
    <3> HAVE /\ blob'[s] # Nil /\ blob'[s].parent = Nil
             /\ blob'[t] # Nil /\ blob'[t].parent = Nil
    <3> HIDE DEF k, b
    <3>1. CASE run.op = "start"
      BY <1>1, <1>4, <3>1
    <3>2. CASE run.op = "replan"
      <4>1. s # k /\ t # k
        BY <1>4, <1>p, <3>2
      <4>2. blob'[s] = blob[s] /\ blob'[t] = blob[t]
        BY <1>4, <4>1
      <4> QED
        BY <4>2 DEF StoreKin
    <3> QED
      BY <1>1, <3>1, <3>2
  <2>4. \A s, t \in Sessions : s < t /\ srow'[t] # "absent" => srow'[s] # "absent"
    BY <1>3 DEF StoreKin
  <2> QED
    BY <2>1, <2>2, <2>3, <2>4 DEF StoreKin
<1>8. CASE run.op = "start"
  <2>1. run' = IdleRun /\ run'.pc = "idle" /\ run'.op = Nil /\ Nil # "start" /\ Nil # "replan"
        /\ Nil # "run" /\ Nil # "advance"
    BY <1>3, <1>8, NilAssumption DEF IdleRun, Ops
  <2>2. ~ Started' /\ ~ Checkpointing' /\ ~ Making(run') /\ run'.pc \notin Creating
    BY <2>1 DEF Started, Checkpointing, Making, Creating
  <2>3. RunShape'
    BY <2>1, <2>2, NilAssumption DEF RunShape, IdleRun, Creating, Ops
  <2>4. CallKin'
    BY <2>1, <2>2 DEF CallKin
  <2>5. KinStep
    BY <1>1, <1>2, <1>3, <1>4, <2>1, <2>2 DEF KinStep
  <2> QED
    BY <1>6, <1>7, <2>3, <2>4, <2>5
<1>9. CASE run.op = "replan"
  <2>1. run' = [run EXCEPT !.pc = "link"]
    BY <1>3, <1>9
  <2>2. /\ run'.pc = "link" /\ run'.op = "replan" /\ run'.sid = run.sid /\ run'.mem = run.mem
        /\ run'.nodes = run.nodes /\ run'.dec = run.dec /\ run'.kid = b /\ run'.kidSid = k
    BY <1>1, <1>9, <2>1 DEF Runs
  <2>3. RunShape'
    BY <1>1, <1>2, <1>9, <2>2 DEF RunShape, Started, Creating, Checkpointing
  <2>4. run.sid # k
    BY <1>1, <1>2, <1>9
  <2>5. CallKin'
    BY <1>1, <1>4, <1>9, <2>2, <2>4 DEF CallKin, Making
  <2>6. KinStep
    BY <1>1, <1>2, <1>3, <1>4, <2>2 DEF KinStep, Making
  <2> QED
    BY <1>6, <1>7, <2>3, <2>5, <2>6
<1> QED
  BY <1>1, <1>8, <1>9

-----------------------------------------------------------------------------
(* Every step of one call. *)

\* A step does one of the seven writes above, is ordinary, or is none.
LEMMA StepKinds ==
    ASSUME KinInv, [Next]_vars
    PROVE  \/ \E k \in Kinds, w \in Workflows : Start(k, w)
           \/ \E s \in Sessions : CreateSession(s)
           \/ SavePlan \/ SaveTaskState \/ LinkReplacement \/ StopCore
           \/ \E w \in Workflows : ReplanCore(w)
           \/ Fits
           \/ UNCHANGED vars
<1>1. CASE \/ DecideCore \/ ReviewCore \/ AdvanceSettle \/ AdvanceAwait \/ AdvanceHandoff
           \/ RecoverInterrupted \/ ApproveCoreStage \/ ApproveHumanStage \/ LoopEnd
           \/ CheckpointRow \/ CheckpointSave \/ InvokeExecutor \/ Settle \/ CloseSession \/ Crash
  BY <1>1, DecideCoreFits, ReviewCoreFits, AdvanceSettleFits, AdvanceAwaitFits, AdvanceHandoffFits,
     RecoverInterruptedFits, ApproveCoreStageFits, ApproveHumanStageFits, LoopEndFits,
     CheckpointRowFits, CheckpointSaveFits, InvokeExecutorFits, SettleFits, CloseSessionFits, CrashFits
<1>2. CASE \E st \in Stage : LoopHuman(st) \/ LoopAgent(st)
  BY <1>2, LoopStageFits
<1>3. CASE \E r \in Results : RecordResult(r)
  BY <1>3, RecordResultFits
<1>4. CASE \/ \E s \in Sessions : CallDecide(s)
           \/ \E s \in Sessions : IssuedCore(s)
           \/ \E s \in Sessions, op \in {"advance", "approve", "review", "stop", "replan"} :
                 CallCore(op, s)
           \/ \E s \in Sessions, st \in Stage \cup {Nil} : CallRun(s, st)
  BY <1>4, CallDecideFits, IssuedCoreFits, CallCoreFits, CallRunFits
<1> QED
  BY <1>1, <1>2, <1>3, <1>4 DEF Next, Step, Request

\* Every step of a call keeps its kin, and shows itself to other calls as KinStep.
LEMMA CallKeepsKin == ASSUME KinInv, [Next]_vars PROVE KinInv' /\ KinStep
<1>1. CASE UNCHANGED vars
  <2>1. /\ run' = run /\ blob' = blob /\ rows' = rows /\ srow' = srow /\ held' = held
        /\ calls' = calls /\ spent' = spent /\ spentSteps' = spentSteps
    BY <1>1 DEF vars
  <2>2. KinInv'
    BY <2>1 DEF KinInv, TypeOK, RunShape, StoreKin, CallKin, Started, Checkpointing, Making
  <2>3. KinStep
    BY <2>1 DEF KinStep, Making
  <2> QED
    BY <2>2, <2>3
<1>2. CASE Fits
  BY <1>2, OrdinaryKeepsKin
<1> QED
  BY <1>1, <1>2, StepKinds, StartKeepsKin, CreateSessionKeepsKin, SavePlanKeepsKin,
     SaveTaskStateKeepsKin, LinkReplacementKeepsKin, StopCoreKeepsKin, ReplanCoreKeepsKin

\* Before anything was started nobody has kin.
LEMMA InitKin == Init => KinInv
<1> SUFFICES ASSUME Init PROVE KinInv
  OBVIOUS
<1>1. /\ run.pc = "idle" /\ run.op = Nil /\ run = IdleRun
      /\ Nil # "start" /\ Nil # "replan" /\ Nil # "run" /\ Nil # "advance"
  BY NilAssumption DEF Init, IdleRun, Ops
<1>2. ~ Started /\ ~ Checkpointing /\ ~ Making(run) /\ run.pc \notin Creating
  BY <1>1 DEF Started, Checkpointing, Making, Creating
<1>3. TypeOK
  BY IdleRunType DEF Init, TypeOK, NodeStatuses
<1>4. RunShape
  BY <1>1, <1>2, NilAssumption DEF RunShape, Creating, Ops
<1>5. StoreKin /\ CallKin
  BY <1>1, <1>2 DEF Init, StoreKin, CallKin
<1> QED
  BY <1>3, <1>4, <1>5 DEF KinInv

-----------------------------------------------------------------------------
(* The lineages of the store. *)

\* A session without a document, or whose document has no origin, is a root.
Parents ==
    [t \in Sessions |-> IF blob[t] = Nil \/ blob[t].parent = Nil THEN 0 ELSE blob[t].parent]

\* The parents of a store in order form a forest.
LEMMA ParentsForest == ASSUME TypeOK, StoreKin PROVE Forest(MaxSessions, Parents)
<1>1. ASSUME NEW t \in Sessions PROVE Parents[t] \in 0..MaxSessions /\ Parents[t] < t
  <2>1. t \in 1..MaxSessions /\ MaxSessions \in Nat
    BY BoundsAssumption DEF Sessions
  <2>2. CASE blob[t] = Nil \/ blob[t].parent = Nil
    BY <2>1, <2>2 DEF Parents
  <2>3. CASE blob[t] # Nil /\ blob[t].parent # Nil
    <3>1. blob[t] \in Blobs
      BY <2>3 DEF TypeOK
    <3>2. blob[t].parent \in 1..MaxSessions
      BY <2>3, <3>1 DEF Blobs, Sessions
    <3>3. blob[t].parent < t /\ Parents[t] = blob[t].parent
      BY <2>3 DEF StoreKin, Parents
    <3> QED
      BY <2>1, <3>2, <3>3
  <2> QED
    BY <2>2, <2>3
<1>2. Parents \in [1..MaxSessions -> 0..MaxSessions]
  BY <1>1 DEF Parents, Sessions
<1> QED
  BY <1>1, <1>2 DEF Forest, Sessions

\* _validate_core_lineage walks exactly the chain of parents.
LEMMA LineageIsWalk ==
    ASSUME TypeOK, StoreKin
    PROVE  \E f : f = Walked(MaxSessions, Parents, f) /\ \A s \in Sessions : Lineage(s) = f[s]
<1> DEFINE Body(f) == [t \in Sessions |-> IF blob[t] = Nil THEN {t}
                                          ELSE IF blob[t].parent = Nil THEN {t}
                                          ELSE {t} \cup f[blob[t].parent]]
<1>1. ASSUME NEW f PROVE Body(f) = Walked(MaxSessions, Parents, f)
  <2>1. ASSUME NEW t \in Sessions
        PROVE  (IF blob[t] = Nil THEN {t}
                ELSE IF blob[t].parent = Nil THEN {t} ELSE {t} \cup f[blob[t].parent])
               = (IF Parents[t] = 0 THEN {t} ELSE {t} \cup f[Parents[t]])
    <3>1. CASE blob[t] = Nil \/ blob[t].parent = Nil
      BY <3>1 DEF Parents
    <3>2. CASE blob[t] # Nil /\ blob[t].parent # Nil
      <4>1. blob[t] \in Blobs
        BY <3>2 DEF TypeOK
      <4>2. blob[t].parent \in Sessions
        BY <3>2, <4>1 DEF Blobs
      <4>3. blob[t].parent # 0
        BY <4>2, BoundsAssumption DEF Sessions
      <4> QED
        BY <3>2, <4>3 DEF Parents
    <3> QED
      BY <3>1, <3>2
  <2> QED
    BY <2>1, Zenon DEF Walked, Sessions
<1>2. \E f : f = Walked(MaxSessions, Parents, f)
  BY ParentsForest, WalkExists, BoundsAssumption
<1> DEFINE w == CHOOSE f : f = Body(f)
<1>3. w = Body(w)
  <2>1. \E f : f = Body(f)
    BY <1>1, <1>2
  <2> HIDE DEF Body
  <2> QED
    BY <2>1
<1>4. \A s \in Sessions : Lineage(s) = w[s]
  BY DEF Lineage
<1> HIDE DEF w, Body
<1>5. w = Walked(MaxSessions, Parents, w)
  BY <1>1, <1>3
<1> QED
  BY <1>4, <1>5

\* So a lineage is the chain from a session to its root.
LEMMA LineageIsChain ==
    ASSUME TypeOK, StoreKin, NEW s \in Sessions
    PROVE  Chain(MaxSessions, Parents, s, Lineage(s))
<1>1. PICK f : f = Walked(MaxSessions, Parents, f) /\ \A t \in Sessions : Lineage(t) = f[t]
  BY LineageIsWalk
<1> QED
  BY <1>1, ParentsForest, WalkIsChain, BoundsAssumption DEF Sessions

\* Of the sessions that can be loaded, at most one is not stopped: a session
\* with a loadable descendant is a parent its child's check found stopped.
LEMMA OneLoadable ==
    ASSUME TypeOK, StoreKin, NEW s \in Sessions, NEW t \in Sessions,
           Loadable(s), Loadable(t), blob[s].stop = Nil, blob[t].stop = Nil
    PROVE  s = t
<1> DEFINE L == Lineage(s)
           M == Lineage(t)
           n == MaxSessions
<1>1. Chain(n, Parents, s, L) /\ Chain(n, Parents, t, M) /\ Forest(n, Parents)
  BY LineageIsChain, ParentsForest
<1>2. n \in Nat /\ s \in 1..n /\ t \in 1..n
  BY BoundsAssumption DEF Sessions
<1>3. L \subseteq Sessions /\ M \subseteq Sessions
  BY <1>1, <1>2 DEF Chain, Sessions
<1>4. \A a \in L : blob[a] # Nil /\ LinkHolds(a)
  BY DEF Loadable
<1>5. \A a \in M : blob[a] # Nil /\ LinkHolds(a)
  BY DEF Loadable
<1> HIDE DEF L, M
<1>6. \A a \in Sessions : blob[a] # Nil =>
          /\ blob[a].parent \in Sessions \cup {Nil}
          /\ Parents[a] = 0 <=> blob[a].parent = Nil
          /\ Parents[a] # 0 => blob[a].parent = Parents[a]
  <2> SUFFICES ASSUME NEW a \in Sessions, blob[a] # Nil
               PROVE  /\ blob[a].parent \in Sessions \cup {Nil}
                      /\ Parents[a] = 0 <=> blob[a].parent = Nil
                      /\ Parents[a] # 0 => blob[a].parent = Parents[a]
    OBVIOUS
  <2>1. blob[a].parent \in Sessions \cup {Nil}
    BY DEF TypeOK, Blobs
  <2>2. blob[a].parent \in Sessions => blob[a].parent # 0
    BY BoundsAssumption DEF Sessions
  <2> QED
    BY <2>1, <2>2 DEF Parents
<1>7. \A u \in L, v \in M : Parents[u] = 0 /\ Parents[v] = 0 => u = v
  BY <1>3, <1>4, <1>5, <1>6 DEF StoreKin
<1>8. \A u \in L, v \in M : Parents[u] # 0 /\ Parents[u] = Parents[v] => u = v
  <2> SUFFICES ASSUME NEW u \in L, NEW v \in M, Parents[u] # 0, Parents[u] = Parents[v]
               PROVE  u = v
    OBVIOUS
  <2>1. blob[u].parent = Parents[u] /\ blob[v].parent = Parents[u]
        /\ blob[u].parent # Nil /\ blob[v].parent # Nil
    BY <1>3, <1>4, <1>5, <1>6
  <2>2. blob[blob[u].parent].child = u
    BY <1>4, <2>1 DEF LinkHolds
  <2>3. blob[blob[v].parent].child = v
    BY <1>5, <2>1 DEF LinkHolds
  <2> QED
    BY <2>1, <2>2, <2>3
<1>9. s \in M \/ t \in L
  BY <1>1, <1>2, <1>7, <1>8, ChainsNest
\* Whoever is in the lineage of another was stopped by its replacement.
<1>10. ASSUME NEW a \in Sessions, NEW c \in Sessions, NEW K,
              Chain(n, Parents, c, K), \A u \in K : blob[u] # Nil /\ LinkHolds(u), K \subseteq Sessions,
              a \in K, a # c
       PROVE  blob[a].stop # Nil
  <2>1. PICK u \in K : Parents[u] = a
    BY <1>10 DEF Chain
  <2>2. a # 0
    BY BoundsAssumption DEF Sessions
  <2>3. blob[u].parent = a /\ a # Nil
    BY <1>6, <1>10, <2>1, <2>2, NilAssumption
  <2>4. blob[a].replan # Nil /\ blob[a].stop = blob[a].replan
    BY <1>10, <2>3 DEF LinkHolds
  <2> QED
    BY <2>4
<1> QED
  BY <1>1, <1>3, <1>4, <1>5, <1>9, <1>10

=============================================================================
