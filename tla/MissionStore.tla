---------------------------- MODULE MissionStore ----------------------------
(***************************************************************************)
(* What SessionStore (SQLite) and MongoSessionStore keep of one session's  *)
(* mission: its plan with the state of each node, and the evidence of its  *)
(* findings, whose payloads ProtectedEvidenceStore keeps in files.         *)
(*                                                                         *)
(* The processes share the database and the evidence directory.  A SQLite  *)
(* transaction is one step; every Mongo command and every system call on   *)
(* an evidence file is one, and a process can die between any two of them. *)
(* An evidence identifier is a fresh UUID or the id of a request, so only  *)
(* the process that made it captures under it, perhaps more than once.     *)
(***************************************************************************)
EXTENDS Integers, Sequences, FiniteSets

CONSTANTS
    Procs,
    PlanNodes,      \* the nodes of the plan
    Materials,      \* material fingerprints
    Findings,
    Payloads,       \* contents of evidence
    IdsPerProc,     \* bound: identifiers a process captures under
    MaxAttempts,    \* max_attempts of reset_retryable_node
    MaxTasks,       \* bound: operations started
    Missing

\* The states of a node that the stores tell apart.
NodeStatuses == {"pending", "running", "success", "error", "timeout", "needs_review"}

ASSUME StoreAssumption ==
    /\ PlanNodes # {} /\ Materials # {}
    /\ {IdsPerProc, MaxAttempts, MaxTasks} \subseteq Nat
    /\ {Missing, "partial"} \cap Payloads = {} /\ Missing \notin Findings
    /\ Missing # "partial" /\ Missing \notin [PlanNodes -> Materials]
    /\ Missing \notin [material : Materials, status : NodeStatuses, attempts : Nat]

VARIABLES
    db,        \* "sqlite" or "mongo"
    plan,      \* plan_json: per node its material, or Missing
    row,       \* mission_nodes: per node [material, status, attempts], or Missing
    earned,    \* per node: the material its status was reached with
    torn,      \* a Mongo save was cut off or overlapped another, and none
               \* has been completed alone since
    file,      \* the evidence files: Missing, "partial" or a payload
    refs,      \* references that were returned: <<identifier, payload>>
    evidence,  \* rows of evidence: [id, payload, finding]
    linked,    \* per finding: its evidence_ids
    proc,      \* per process: the operation it is in
    tasks      \* operations started

storeVars == <<db, plan, row, earned, torn, file, refs, evidence, linked, proc, tasks>>

-----------------------------------------------------------------------------
Ids == Procs \X (1..IdsPerProc)

\* What a process is in; of a Mongo save the plan, the nodes it has read, what
\* their status was reached with, those still to be written, and whether no
\* other save has been under way since it began (alone).
Idle == [pc |-> "idle", plan |-> Missing, seen |-> Missing, reached |-> Missing, todo |-> {},
         alone |-> FALSE,
         id |-> Missing, payload |-> Missing, finding |-> Missing, ids |-> {}]

StoreInit ==
    /\ db \in {"sqlite", "mongo"}
    /\ plan = Missing /\ row = [n \in PlanNodes |-> Missing]
    /\ earned = [n \in PlanNodes |-> Missing] /\ torn = FALSE
    /\ file = [i \in Ids |-> Missing]
    /\ refs = {} /\ evidence = {} /\ linked = [f \in Findings |-> {}]
    /\ proc = [p \in Procs |-> Idle]
    /\ tasks = 0

planVars == <<plan, row, earned, torn>>
evidenceVars == <<file, refs, evidence, linked>>

StartsTask(p) == proc[p].pc = "idle" /\ tasks < MaxTasks /\ tasks' = tasks + 1 /\ UNCHANGED db
Continues(p, pc) == proc[p].pc = pc /\ UNCHANGED <<db, tasks>>

NewRow(m) == [material |-> m, status |-> "pending", attempts |-> 0]

-----------------------------------------------------------------------------
\* INSERT ... ON CONFLICT: a node of the same material keeps its status.
SqliteRow(n, m) ==
    IF row[n] = Missing THEN NewRow(m)
    ELSE IF row[n].material = m THEN row[n]
    ELSE [row[n] EXCEPT !.material = m, !.status = "pending"]

Earned(n, r) == IF r.status = "pending" THEN Missing ELSE earned[n]

\* SessionStore.save_plan, committed as a whole.
SqliteSavePlan(p, ms) ==
    /\ StartsTask(p) /\ db = "sqlite"
    /\ plan' = ms
    /\ row' = [n \in PlanNodes |-> SqliteRow(n, ms[n])]
    /\ earned' = [n \in PlanNodes |-> Earned(n, row'[n])]
    /\ UNCHANGED <<torn, proc, evidenceVars>>

\* MongoSessionStore.save_plan: the nodes are read, the plan is replaced, and
\* then each node is written from what was read.  Nothing keeps two saves from
\* overlapping but the caller: runner._start saves a plan once, for a session
\* nobody else has yet.
NobodySaves == \A q \in Procs : proc[q].plan = Missing

MongoReadNodes(p, ms) ==
    /\ StartsTask(p) /\ db = "mongo"
    /\ proc' = [q \in Procs |->
                  IF q = p
                  THEN [Idle EXCEPT !.pc = "replace", !.plan = ms, !.seen = row, !.reached = earned,
                                    !.todo = PlanNodes, !.alone = NobodySaves]
                  ELSE [proc[q] EXCEPT !.alone = FALSE]]
    /\ UNCHANGED <<planVars, evidenceVars>>

MongoReplacePlan(p) ==
    /\ Continues(p, "replace")
    /\ plan' = proc[p].plan /\ torn' = TRUE
    /\ proc' = [proc EXCEPT ![p].pc = "nodes"]
    /\ UNCHANGED <<row, earned, evidenceVars>>

\* Variant: a node is reset when the plan has changed, not the node's row.
MongoRowByPlan(n, m, seen) ==
    IF seen[n] = Missing THEN NewRow(m)
    ELSE [row[n] EXCEPT !.material = m,
                        !.status = IF plan[n] = m THEN seen[n].status ELSE "pending"]

\* Variant: what was read is written back as a whole.
MongoRowReplaced(n, m, seen) ==
    IF seen[n] = Missing THEN NewRow(m)
    ELSE [seen[n] EXCEPT !.material = m,
                         !.status = IF seen[n].material = m THEN @ ELSE "pending"]

\* insert_one of a new node, update_one of a known one.
MongoRow(n, m, seen) ==
    IF seen[n] = Missing THEN NewRow(m)
    ELSE [row[n] EXCEPT !.material = m,
                        !.status = IF seen[n].material = m THEN seen[n].status ELSE "pending"]

\* Another save has inserted the node since it was looked for.
IsDuplicate(p, n) == proc[p].seen[n] = Missing /\ row[n] # Missing

MongoWriteNode(p, n) ==
    /\ Continues(p, "nodes") /\ n \in proc[p].todo /\ ~ IsDuplicate(p, n)
    /\ row' = [row EXCEPT ![n] = MongoRow(n, proc[p].plan[n], proc[p].seen)]
    /\ earned' = [earned EXCEPT ![n] = IF row'[n].status = "pending" THEN Missing
                                       ELSE proc[p].reached[n]]
    /\ torn' = (proc[p].todo # {n} \/ ~ proc[p].alone)
    /\ proc' = [proc EXCEPT ![p] = IF @.todo = {n} THEN Idle
                                   ELSE [proc[p] EXCEPT !.todo = @ \ {n}]]
    /\ UNCHANGED <<plan, evidenceVars>>

\* insert_one raises DuplicateKeyError, and nobody writes the other nodes.
MongoInsertFails(p, n) ==
    /\ Continues(p, "nodes") /\ n \in proc[p].todo /\ IsDuplicate(p, n)
    /\ proc' = [proc EXCEPT ![p] = Idle]
    /\ UNCHANGED <<planVars, evidenceVars>>

-----------------------------------------------------------------------------
\* checkpoint_plan_node, as the runner calls it around a node's work.
Checkpoint(p, n, status) ==
    /\ StartsTask(p) /\ row[n] # Missing
    /\ IF row[n].status = "pending" THEN status = "running"
       ELSE row[n].status = "running" /\ status \in {"success", "error"}
    /\ row' = [row EXCEPT ![n].status = status,
                          ![n].attempts = IF status = "running" THEN @ + 1 ELSE @]
    /\ earned' = [earned EXCEPT ![n] = row[n].material]
    /\ UNCHANGED <<plan, torn, proc, evidenceVars>>

\* recover_interrupted_plan.
RecoverInterrupted(p) ==
    /\ StartsTask(p)
    /\ \E n \in PlanNodes : row[n] # Missing /\ row[n].status = "running"
    /\ row' = [n \in PlanNodes |->
                  IF row[n] # Missing /\ row[n].status = "running"
                  THEN [row[n] EXCEPT !.status = "needs_review"] ELSE row[n]]
    /\ UNCHANGED <<plan, earned, torn, proc, evidenceVars>>

\* The nodes reset_retryable_node accepts.
Retryable(r) == r.status \in {"error", "timeout"} /\ r.attempts < MaxAttempts

ResetRetryable(p, n) ==
    /\ StartsTask(p) /\ row[n] # Missing /\ Retryable(row[n])
    /\ row' = [row EXCEPT ![n].status = "pending"]
    /\ earned' = [earned EXCEPT ![n] = Missing]
    /\ UNCHANGED <<plan, torn, proc, evidenceVars>>

-----------------------------------------------------------------------------
\* capture: the exclusive create.  A path that exists is accepted when it
\* holds the same payload.
CreateFile(p, i, payload, f) ==
    /\ StartsTask(p) /\ i[1] = p /\ file[i] = Missing
    /\ file' = [file EXCEPT ![i] = "partial"]
    /\ proc' = [proc EXCEPT ![p] = [Idle EXCEPT !.pc = "write", !.id = i,
                                       !.payload = payload, !.finding = f]]
    /\ UNCHANGED <<planVars, refs, evidence, linked>>

\* Variant: an existing file is written again.
AcceptExistingAny(p, i, payload) ==
    /\ StartsTask(p) /\ i[1] = p /\ file[i] # Missing
    /\ file' = [file EXCEPT ![i] = payload]
    /\ refs' = refs \cup {<<i, payload>>}
    /\ UNCHANGED <<planVars, proc, evidence, linked>>

AcceptExisting(p, i, payload) ==
    /\ StartsTask(p) /\ i[1] = p /\ file[i] = payload
    /\ refs' = refs \cup {<<i, payload>>}
    /\ UNCHANGED <<planVars, proc, file, evidence, linked>>

\* write, flush and fsync.
WriteFile(p) ==
    /\ Continues(p, "write")
    /\ file' = [file EXCEPT ![proc[p].id] = proc[p].payload]
    /\ proc' = [proc EXCEPT ![p].pc = "protect"]
    /\ UNCHANGED <<planVars, refs, evidence, linked>>

\* The write or the protection of the file fails: it is unlinked.
Unlink(p) ==
    /\ proc[p].pc \in {"write", "protect"}
    /\ file' = [file EXCEPT ![proc[p].id] = Missing]
    /\ proc' = [proc EXCEPT ![p] = Idle]
    /\ UNCHANGED <<db, tasks, planVars, refs, evidence, linked>>

\* _restrict_access; capture returns.  The coordinator keeps the reference,
\* add_evidence goes on to insert its row.
Protect(p) ==
    /\ Continues(p, "protect")
    /\ refs' = refs \cup {<<proc[p].id, proc[p].payload>>}
    /\ proc' = [proc EXCEPT ![p] = IF @.finding = Missing THEN Idle ELSE [@ EXCEPT !.pc = "insert"]]
    /\ UNCHANGED <<planVars, file, evidence, linked>>

InsertEvidence(p) ==
    /\ Continues(p, "insert")
    /\ evidence' = evidence \cup {[id |-> proc[p].id, payload |-> proc[p].payload,
                                   finding |-> proc[p].finding]}
    /\ proc' = [proc EXCEPT ![p].pc = "link", ![p].ids = linked[proc[p].finding]]
    /\ UNCHANGED <<planVars, file, refs, linked>>

\* link_evidence_to_finding: the list is read, extended and written back;
\* the insertion above stands for the read, which directly follows it.
LinkEvidence(p) ==
    /\ Continues(p, "link")
    /\ linked' = [linked EXCEPT ![proc[p].finding] = proc[p].ids \cup {proc[p].id}]
    /\ proc' = [proc EXCEPT ![p] = Idle]
    /\ UNCHANGED <<planVars, file, refs, evidence>>

\* A process dies; the others and what is stored stay as they are.
Dies(p) ==
    /\ proc[p].pc # "idle"
    /\ proc' = [proc EXCEPT ![p] = Idle]
    /\ UNCHANGED <<db, tasks, planVars, evidenceVars>>

StoreNext ==
    \E p \in Procs :
        \/ \E ms \in [PlanNodes -> Materials] : SqliteSavePlan(p, ms) \/ MongoReadNodes(p, ms)
        \/ MongoReplacePlan(p)
        \/ \E n \in PlanNodes :
              \/ MongoWriteNode(p, n) \/ MongoInsertFails(p, n) \/ ResetRetryable(p, n)
              \/ \E s \in {"running", "success", "error"} : Checkpoint(p, n, s)
        \/ RecoverInterrupted(p)
        \/ \E i \in Ids, d \in Payloads :
              \/ \E f \in Findings \cup {Missing} : CreateFile(p, i, d, f)
              \/ AcceptExisting(p, i, d)
        \/ WriteFile(p) \/ Unlink(p) \/ Protect(p) \/ InsertEvidence(p) \/ LinkEvidence(p)
        \/ Dies(p)

StoreSpec == StoreInit /\ [][StoreNext]_storeVars

-----------------------------------------------------------------------------
\* No node ever has a status that was reached with other material than its
\* row's, whatever saves overlap or are cut off.  And once a save that overlapped
\* no other is completed, that is the material of the loaded plan, also when an
\* earlier save was cut off between the plan and its nodes.
StatusFitsMaterial ==
    \A n \in PlanNodes :
        /\ row[n] # Missing /\ row[n].status # "pending" => earned[n] = row[n].material
        /\ plan # Missing /\ ~ torn => row[n] # Missing /\ row[n].material = plan[n]

\* A Mongo save writes a node back that was changed after the save read it.
WritesBackStale(p, n) ==
    /\ proc[p].pc = "nodes" /\ n \in proc[p].todo /\ n \notin proc'[p].todo
    /\ proc[p].seen[n] # row[n]

\* Work that was started, finished or fenced for review becomes runnable again
\* only with other material: neither saving the plan nor recovery or retry
\* replays it.  The one step of the code that can is a Mongo save that undoes a
\* checkpoint made since it read the node (mongo_store.py:576); but the start
\* stays counted even then, so that retries remain limited.
StartedIsNotReplayed ==
    [][\A n \in PlanNodes : row[n] # Missing =>
          /\ row'[n] # Missing /\ row'[n].attempts >= row[n].attempts
          /\ /\ row[n].status \in {"running", "success", "needs_review"}
             /\ row'[n].status = "pending" /\ row'[n].material = row[n].material
             => \E p \in Procs : WritesBackStale(p, n)]_storeVars

\* Every reference that was returned and every row still verifies: the file
\* holds that payload, whatever failed, died or was captured again since; and
\* what a finding lists has its row, wherever add_evidence was cut off.
EvidenceVerifies ==
    /\ \A r \in refs : file[r[1]] = r[2]
    /\ \A e \in evidence : <<e.id, e.payload>> \in refs
    /\ \A f \in Findings : \A i \in linked[f] : \E e \in evidence : e.id = i /\ e.finding = f
=============================================================================
