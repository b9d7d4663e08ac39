---------------------------- MODULE StoreProofs ----------------------------
(***************************************************************************)
(* The invariants of StoreInvariant are inductive, on either backend: for  *)
(* any processes, nodes, materials and evidence, and any clients, projects *)
(* and artifacts.                                                          *)
(***************************************************************************)
EXTENDS StoreInvariant, SequenceTheorems, TLAPS

LEMMA IdleIsState ==
    Idle \in ProcStates /\ Idle.pc = "idle" /\ Idle.plan = Missing /\ Idle.alone = FALSE
  BY DEF Idle, ProcStates

\* A process that neither saves a plan nor changes what is kept of it.
LEMMA PlanIsLeft ==
    ASSUME PlanInv, NEW p \in Procs, NEW v \in ProcStates, proc' = [proc EXCEPT ![p] = v],
           ~ Saving(v), v.plan = Missing, UNCHANGED <<plan, row, earned, torn>>, db' = db,
           tasks' \in Nat
    PROVE  PlanInv'
<1>1. proc \in [Procs -> ProcStates] BY DEF PlanInv, PlanTypeOK
<1>2. /\ proc' \in [Procs -> ProcStates] /\ proc'[p] = v
      /\ \A q \in Procs : q # p => proc'[q] = proc[q]
  BY <1>1
<1>3. PlanTypeOK' BY <1>2 DEF PlanInv, PlanTypeOK
<1>4. OwnSave(v, plan, row) BY DEF OwnSave, Saving
<1>5. SavesAreOwn'
  <2> SUFFICES ASSUME NEW q \in Procs
               PROVE  /\ OwnSave(proc'[q], plan, row)
                      /\ Saving(proc'[q]) => db = "mongo"
                      /\ Saving(proc'[q]) /\ proc'[q].alone =>
                            \A x \in Procs : Saving(proc'[x]) => x = q
    BY DEF SavesAreOwn, OwnSave, Saving, FitTable
  <2>1. CASE q = p BY <1>2, <1>4, <2>1
  <2>2. CASE q # p
    <3>1. /\ OwnSave(proc[q], plan, row)
          /\ Saving(proc[q]) => db = "mongo"
          /\ Saving(proc[q]) /\ proc[q].alone => \A x \in Procs : Saving(proc[x]) => x = q
      BY DEF PlanInv, SavesAreOwn
    <3>2. \A x \in Procs : Saving(proc'[x]) => Saving(proc[x]) BY <1>2
    <3>3. QED BY <1>2, <2>2, <3>1, <3>2
  <2>3. QED BY <2>1, <2>2
<1>6. QED BY <1>3, <1>5 DEF PlanInv, FitTable, NodesFit

\* A step that changes the status of nodes, and no node's material.
LEMMA NodesKeepInv ==
    ASSUME PlanInv, UNCHANGED <<plan, torn, proc>>, db' = db, tasks' \in Nat,
           row' \in NodeTables, earned' \in Reached, FitTable(row', earned'),
           \A n \in PlanNodes : row[n] # Missing =>
              row'[n] # Missing /\ row'[n].material = row[n].material
    PROVE  PlanInv'
<1>1. PlanTypeOK' BY DEF PlanInv, PlanTypeOK
<1>2. SavesAreOwn' BY DEF PlanInv, SavesAreOwn, OwnSave, Saving, FitTable
<1>3. NodesFit(plan, torn, row)' BY DEF PlanInv, NodesFit
<1>4. FitTable(row, earned)' BY DEF FitTable
<1>5. QED BY <1>1, <1>2, <1>3, <1>4 DEF PlanInv

\* One node's row with another status.
LEMMA StatusRow ==
    ASSUME NEW r \in NodeRows, NEW s \in NodeStatuses
    PROVE  /\ [r EXCEPT !.status = s] \in NodeRows
           /\ [r EXCEPT !.status = s].material = r.material /\ [r EXCEPT !.status = s].status = s
  BY DEF NodeRows

LEMMA MissingIsNone ==
    /\ Missing \notin NodeRows
    /\ \A ms \in [PlanNodes -> Materials] : ms # Missing
  BY StoreAssumption DEF NodeRows

\* One node's status changes, with what it was reached with.
LEMMA NodeKeepsInv ==
    ASSUME PlanInv, UNCHANGED <<plan, torn, proc>>, db' = db, tasks' \in Nat,
           NEW n \in PlanNodes, row[n] # Missing, NEW r \in NodeRows, NEW e,
           row' = [row EXCEPT ![n] = r], earned' = [earned EXCEPT ![n] = e],
           r.material = row[n].material, e \in {Missing, r.material},
           r.status # "pending" => e = r.material
    PROVE  PlanInv'
<1>1. row \in NodeTables /\ earned \in Reached /\ FitTable(row, earned)
  BY DEF PlanInv, PlanTypeOK
<1>2. e \in Materials \cup {Missing} BY DEF NodeRows
<1>3. /\ row' \in NodeTables /\ earned' \in Reached /\ row'[n] = r /\ earned'[n] = e
      /\ \A k \in PlanNodes : k # n => row'[k] = row[k] /\ earned'[k] = earned[k]
  BY <1>1, <1>2 DEF NodeTables, Reached
<1>4. FitTable(row', earned') BY <1>1, <1>3 DEF FitTable
<1>5. \A k \in PlanNodes : row[k] # Missing =>
         row'[k] # Missing /\ row'[k].material = row[k].material
  BY <1>3, MissingIsNone
<1>6. QED BY <1>3, <1>4, <1>5, NodesKeepInv

-----------------------------------------------------------------------------
\* A saved plan has every node's material, and keeps what was reached with it.
LEMMA SqliteSaveKeepsInv ==
    ASSUME PlanInv, NEW p \in Procs, NEW ms \in [PlanNodes -> Materials], SqliteSavePlan(p, ms)
    PROVE  PlanInv'
<1>1. /\ row \in NodeTables /\ earned \in Reached /\ FitTable(row, earned) /\ tasks \in Nat
  BY DEF PlanInv, PlanTypeOK
<1>2. /\ db = "sqlite" /\ db' = db /\ tasks' \in Nat /\ plan' = ms /\ proc' = proc /\ torn' = torn
      /\ row' = [n \in PlanNodes |-> SqliteRow(n, ms[n])]
      /\ earned' = [n \in PlanNodes |-> Earned(n, row'[n])]
  BY <1>1 DEF SqliteSavePlan, StartsTask
<1>3. ASSUME NEW n \in PlanNodes
      PROVE  /\ row'[n] \in NodeRows /\ row'[n].material = ms[n]
             /\ row'[n].status = "pending" \/ row'[n] = row[n]
  <2>1. row'[n] = SqliteRow(n, ms[n]) /\ ms[n] \in Materials BY <1>2
  <2>2. CASE row[n] = Missing
    BY <2>1, <2>2 DEF SqliteRow, NewRow, NodeRows, NodeStatuses
  <2>3. CASE row[n] # Missing
    <3>1. row[n] \in NodeRows BY <1>1, <2>3 DEF NodeTables
    <3>2. "pending" \in NodeStatuses BY DEF NodeStatuses
    <3>3. CASE row[n].material = ms[n] BY <2>1, <2>3, <3>1, <3>3 DEF SqliteRow
    <3>4. CASE row[n].material # ms[n]
      BY <2>1, <2>3, <3>1, <3>2, <3>4 DEF SqliteRow, NodeRows
    <3>5. QED BY <3>3, <3>4
  <2>4. QED BY <2>2, <2>3
<1>4. row' \in NodeTables BY <1>2, <1>3 DEF NodeTables
<1>5. ASSUME NEW n \in PlanNodes
      PROVE  /\ earned'[n] \in Materials \cup {Missing}
             /\ row'[n].status # "pending" => earned'[n] = row'[n].material
  <2>1. earned'[n] = Earned(n, row'[n]) BY <1>2
  <2>2. earned[n] \in Materials \cup {Missing} BY <1>1 DEF Reached
  <2>3. CASE row'[n].status = "pending" BY <2>1, <2>3 DEF Earned
  <2>4. CASE row'[n].status # "pending"
    <3>1. row'[n] = row[n] /\ row[n] # Missing BY <1>3, <2>4, MissingIsNone
    <3>2. QED BY <1>1, <2>1, <2>2, <2>4, <3>1 DEF Earned, FitTable
  <2>5. QED BY <2>3, <2>4
<1>6. earned' \in Reached BY <1>2, <1>5 DEF Reached
<1>7. PlanTypeOK' BY <1>2, <1>4, <1>6 DEF PlanInv, PlanTypeOK
<1>8. SavesAreOwn'
  <2>1. \A q \in Procs : ~ Saving(proc[q]) /\ proc[q].plan = Missing
    BY <1>2 DEF PlanInv, SavesAreOwn, OwnSave
  <2>2. QED BY <1>2, <2>1 DEF SavesAreOwn, OwnSave, Saving
<1>9. FitTable(row, earned)' BY <1>5 DEF FitTable
<1>10. NodesFit(plan, torn, row)' BY <1>2, <1>3, MissingIsNone DEF NodesFit
<1>11. QED BY <1>7, <1>8, <1>9, <1>10 DEF PlanInv

\* A Mongo save that begins ends the solitude of the others.
Beginning(ms) ==
    [Idle EXCEPT !.pc = "replace", !.plan = ms, !.seen = row, !.reached = earned,
                 !.todo = PlanNodes, !.alone = NobodySaves]

LEMMA BeginningIs ==
    ASSUME PlanInv, NEW p \in Procs, NEW ms \in [PlanNodes -> Materials], MongoReadNodes(p, ms)
    PROVE  /\ proc' \in [Procs -> ProcStates] /\ proc'[p].pc = "replace" /\ proc'[p].plan = ms
           /\ proc'[p].seen = row /\ proc'[p].reached = earned /\ proc'[p].todo = PlanNodes
           /\ proc'[p].alone <=> NobodySaves
           /\ \A q \in Procs : q # p =>
                 proc'[q] = [proc[q] EXCEPT !.alone = FALSE] /\ proc[q] \in ProcStates
<1> DEFINE v == Beginning(ms)
<1>1. /\ row \in NodeTables /\ earned \in Reached /\ proc \in [Procs -> ProcStates]
      /\ NobodySaves \in BOOLEAN
  BY DEF PlanInv, PlanTypeOK, NobodySaves
<1>2. /\ v \in ProcStates /\ v.pc = "replace" /\ v.plan = ms /\ v.seen = row /\ v.reached = earned
      /\ v.todo = PlanNodes /\ v.alone = NobodySaves
  BY <1>1, IdleIsState DEF Beginning, Idle, ProcStates
<1>3. proc' = [q \in Procs |-> IF q = p THEN v ELSE [proc[q] EXCEPT !.alone = FALSE]]
  BY DEF MongoReadNodes, Beginning
<1> HIDE DEF v
<1>4. \A q \in Procs : [proc[q] EXCEPT !.alone = FALSE] \in ProcStates BY <1>1 DEF ProcStates
<1>5. QED BY <1>1, <1>2, <1>3, <1>4

\* All but its solitude.
LEMMA NotAlone ==
    ASSUME NEW u \in ProcStates
    PROVE  LET v == [u EXCEPT !.alone = FALSE]
           IN  /\ v.pc = u.pc /\ v.plan = u.plan /\ v.seen = u.seen /\ v.reached = u.reached
               /\ v.todo = u.todo /\ v.alone = FALSE /\ v.id = u.id /\ v.payload = u.payload
               /\ v.finding = u.finding /\ v.ids = u.ids
  BY DEF ProcStates

LEMMA MongoReadKeepsInv ==
    ASSUME PlanInv, NEW p \in Procs, NEW ms \in [PlanNodes -> Materials], MongoReadNodes(p, ms)
    PROVE  PlanInv'
<1>1. /\ row \in NodeTables /\ earned \in Reached /\ FitTable(row, earned) /\ tasks \in Nat
  BY DEF PlanInv, PlanTypeOK
<1>2. db = "mongo" /\ db' = db /\ tasks' \in Nat /\ UNCHANGED <<plan, row, earned, torn>>
  BY <1>1 DEF MongoReadNodes, StartsTask, planVars
<1>3. ms # Missing BY MissingIsNone
<1>4. PlanTypeOK' BY <1>2, BeginningIs DEF PlanInv, PlanTypeOK
<1>5. Saving(proc'[p]) /\ OwnSave(proc'[p], plan, row)
  BY <1>1, <1>3, BeginningIs DEF OwnSave, Saving
<1>6. proc'[p].alone => \A q \in Procs : q # p => ~ Saving(proc[q])
  BY BeginningIs DEF NobodySaves, PlanInv, SavesAreOwn, OwnSave
<1>7. ASSUME NEW q \in Procs, q # p
      PROVE  /\ OwnSave(proc'[q], plan, row) /\ ~ proc'[q].alone
             /\ Saving(proc'[q]) <=> Saving(proc[q])
  <2>1. PICK u \in ProcStates : u = proc[q] BY <1>7, BeginningIs
  <2> DEFINE v == [u EXCEPT !.alone = FALSE]
  <2>2. /\ v.pc = u.pc /\ v.plan = u.plan /\ v.seen = u.seen /\ v.reached = u.reached
        /\ v.todo = u.todo /\ v.alone = FALSE
    BY NotAlone
  <2>3. proc'[q] = v BY <1>7, <2>1, BeginningIs
  <2>4. OwnSave(u, plan, row) BY <2>1 DEF PlanInv, SavesAreOwn
  <2> HIDE DEF v
  <2>5. OwnSave(v, plan, row) BY <2>2, <2>4 DEF OwnSave, Saving
  <2>6. QED BY <2>1, <2>2, <2>3, <2>5 DEF Saving
<1>8. SavesAreOwn'
  <2>1. \A q \in Procs : OwnSave(proc[q], plan, row)'
    BY <1>2, <1>5, <1>7 DEF OwnSave, Saving, FitTable
  <2>2. \A q \in Procs : Saving(proc'[q]) /\ proc'[q].alone =>
           \A x \in Procs : Saving(proc'[x]) => x = q
    BY <1>6, <1>7
  <2>3. QED BY <1>2, <2>1, <2>2 DEF SavesAreOwn, Saving
<1>9. QED BY <1>2, <1>4, <1>8 DEF PlanInv, FitTable, NodesFit

\* What is known of a process that goes on with a save.
LEMMA SaverIs ==
    ASSUME PlanInv, NEW p \in Procs, Saving(proc[p])
    PROVE  /\ proc[p] \in ProcStates /\ proc[p].plan \in [PlanNodes -> Materials]
           /\ proc[p].plan # Missing /\ proc[p].seen \in NodeTables /\ proc[p].reached \in Reached
           /\ FitTable(proc[p].seen, proc[p].reached) /\ db = "mongo"
           /\ \A n \in PlanNodes : proc[p].seen[n] # Missing => row[n] # Missing
           /\ proc[p].alone => \A q \in Procs : q # p => ~ Saving(proc[q])
<1>1. proc[p] \in ProcStates BY DEF PlanInv, PlanTypeOK
<1>2. /\ OwnSave(proc[p], plan, row) /\ db = "mongo"
      /\ proc[p].alone => \A q \in Procs : Saving(proc[q]) => q = p
  BY DEF PlanInv, SavesAreOwn
<1>3. proc[p].plan \in [PlanNodes -> Materials] \cup {Missing} BY <1>1 DEF ProcStates
<1>4. QED BY <1>1, <1>2, <1>3 DEF OwnSave

\* A step of a process that saves: another one that does is not alone.
LEMMA SaverKeepsInv ==
    ASSUME PlanInv, NEW p \in Procs, Saving(proc[p]), NEW v \in ProcStates,
           proc' = [proc EXCEPT ![p] = v],
           db' = db, tasks' = tasks, torn' \in BOOLEAN, plan' \in [PlanNodes -> Materials] \cup {Missing},
           row' \in NodeTables, earned' \in Reached, FitTable(row', earned'),
           \A n \in PlanNodes : row[n] # Missing => row'[n] # Missing,
           v.alone => proc[p].alone,
           OwnSave(v, plan', row'), NodesFit(plan', torn', row')
    PROVE  PlanInv'
<1>1. /\ proc' \in [Procs -> ProcStates] /\ proc'[p] = v
      /\ \A q \in Procs : q # p => proc'[q] = proc[q]
  BY DEF PlanInv, PlanTypeOK
<1>2. PlanTypeOK' BY <1>1 DEF PlanInv, PlanTypeOK
<1>3. ASSUME NEW q \in Procs, q # p
      PROVE  OwnSave(proc[q], plan', row') /\ ~ (Saving(proc[q]) /\ proc[q].alone)
  <2>1. ~ (Saving(proc[q]) /\ proc[q].alone) BY <1>3, SaverIs
  <2>2. OwnSave(proc[q], plan, row) BY DEF PlanInv, SavesAreOwn
  <2>3. QED BY <2>1, <2>2 DEF OwnSave, Saving
<1>4. SavesAreOwn'
  <2>1. \A q \in Procs : OwnSave(proc[q], plan, row)'
    BY <1>1, <1>3 DEF OwnSave, Saving, FitTable
  <2>2. \A q \in Procs : Saving(proc'[q]) /\ proc'[q].alone =>
           \A x \in Procs : Saving(proc'[x]) => x = q
    <3> SUFFICES ASSUME NEW q \in Procs, Saving(proc'[q]), proc'[q].alone,
                        NEW x \in Procs, Saving(proc'[x])
                 PROVE  x = q
      OBVIOUS
    <3>1. q = p BY <1>1, <1>3
    <3>2. proc[p].alone BY <1>1, <3>1
    <3>3. QED BY <1>1, <3>1, <3>2, SaverIs
  <2>3. db' = "mongo" BY SaverIs
  <2>4. QED BY <2>1, <2>2, <2>3 DEF SavesAreOwn, Saving
<1>5. QED BY <1>2, <1>4 DEF PlanInv, FitTable, NodesFit

LEMMA MongoReplaceKeepsInv ==
    ASSUME PlanInv, NEW p \in Procs, MongoReplacePlan(p)
    PROVE  PlanInv'
<1> DEFINE v == [proc[p] EXCEPT !.pc = "nodes"]
<1>1. /\ Saving(proc[p]) /\ db' = db /\ tasks' = tasks /\ plan' = proc[p].plan /\ torn' = TRUE
      /\ proc' = [proc EXCEPT ![p].pc = "nodes"] /\ UNCHANGED <<row, earned>>
      /\ proc[p].pc = "replace"
  BY DEF MongoReplacePlan, Continues, Saving
<1>2. proc' = [proc EXCEPT ![p] = v] BY <1>1 DEF PlanInv, PlanTypeOK
<1>3. PICK u \in ProcStates : u = proc[p] BY <1>1, SaverIs
<1>4. /\ v \in ProcStates /\ v.pc = "nodes" /\ v.plan = u.plan /\ v.seen = u.seen
      /\ v.reached = u.reached /\ v.todo = u.todo /\ v.alone = u.alone
  BY <1>3 DEF ProcStates
<1> HIDE DEF v
<1>5. /\ OwnSave(u, plan, row) /\ row \in NodeTables /\ earned \in Reached
      /\ FitTable(row, earned)
  BY <1>3 DEF PlanInv, SavesAreOwn, PlanTypeOK
<1>6. u.pc = "replace" /\ u.plan \in [PlanNodes -> Materials] BY <1>1, <1>3, SaverIs
<1>7. OwnSave(v, u.plan, row) BY <1>4, <1>5, <1>6 DEF OwnSave, Saving
<1>8. NodesFit(u.plan, TRUE, row) BY DEF NodesFit
<1>9. plan' = u.plan /\ row' = row /\ earned' = earned BY <1>1, <1>3
<1>10. v.alone => proc[p].alone BY <1>3, <1>4
<1>11. QED BY <1>1, <1>2, <1>4, <1>5, <1>6, <1>7, <1>8, <1>9, <1>10, SaverKeepsInv, ZenonT(60)

\* A save that fails is left where it is.
LEMMA MongoFailsKeepsInv ==
    ASSUME PlanInv, NEW p \in Procs, NEW n \in PlanNodes, MongoInsertFails(p, n)
    PROVE  PlanInv'
<1>1. /\ proc' = [proc EXCEPT ![p] = Idle] /\ db' = db /\ tasks' \in Nat
      /\ UNCHANGED <<plan, row, earned, torn>>
  BY DEF MongoInsertFails, Continues, planVars, PlanInv, PlanTypeOK
<1>2. QED BY <1>1, IdleIsState, PlanIsLeft DEF Saving

\* The row a save writes has the material of the plan, and a status only if
\* that is what it was reached with.
LEMMA MongoRowFits ==
    ASSUME NEW n \in PlanNodes, NEW m \in Materials, NEW seen \in NodeTables,
           NEW reached \in Reached, FitTable(seen, reached), PlanInv,
           seen[n] # Missing => row[n] # Missing
    PROVE  /\ MongoRow(n, m, seen) \in NodeRows /\ MongoRow(n, m, seen).material = m
           /\ MongoRow(n, m, seen).status # "pending" => reached[n] = m
           /\ seen[n] # Missing /\ MongoRow(n, m, seen).status = "pending"
                 => seen[n].material # m \/ seen[n].status = "pending"
<1>1. CASE seen[n] = Missing
  BY <1>1 DEF MongoRow, NewRow, NodeRows, NodeStatuses
<1>2. CASE seen[n] # Missing
  <2>1. seen[n] \in NodeRows /\ row[n] \in NodeRows
    BY <1>2 DEF NodeTables, PlanInv, PlanTypeOK
  <2>2. seen[n].status \in NodeStatuses /\ "pending" \in NodeStatuses
    BY <2>1 DEF NodeRows, NodeStatuses
  <2> DEFINE s == IF seen[n].material = m THEN seen[n].status ELSE "pending"
  <2>3. s \in NodeStatuses BY <2>2
  <2>4. MongoRow(n, m, seen) = [row[n] EXCEPT !.material = m, !.status = s] BY <1>2 DEF MongoRow
  <2>5. s # "pending" => seen[n].material = m /\ seen[n].status # "pending" OBVIOUS
  <2>6. s = "pending" => seen[n].material # m \/ seen[n].status = "pending" OBVIOUS
  <2> HIDE DEF s
  <2>7. /\ MongoRow(n, m, seen) \in NodeRows /\ MongoRow(n, m, seen).material = m
        /\ MongoRow(n, m, seen).status = s
    BY <2>1, <2>3, <2>4 DEF NodeRows
  <2>8. s # "pending" => reached[n] = m BY <1>2, <2>5 DEF FitTable
  <2>9. QED BY <2>6, <2>7, <2>8
<1>3. QED BY <1>1, <1>2

LEMMA MongoWriteKeepsInv ==
    ASSUME PlanInv, NEW p \in Procs, NEW n \in PlanNodes, MongoWriteNode(p, n)
    PROVE  PlanInv'
<1>1. Saving(proc[p]) BY DEF MongoWriteNode, Continues, Saving
<1>2. PICK u \in ProcStates : u = proc[p] BY <1>1, SaverIs
<1> DEFINE r == MongoRow(n, u.plan[n], u.seen)
           e == IF r.status = "pending" THEN Missing ELSE u.reached[n]
           v == IF u.todo = {n} THEN Idle ELSE [u EXCEPT !.todo = u.todo \ {n}]
<1>3. /\ row \in NodeTables /\ earned \in Reached /\ FitTable(row, earned)
      /\ OwnSave(u, plan, row) /\ proc \in [Procs -> ProcStates]
  BY <1>2 DEF PlanInv, PlanTypeOK, SavesAreOwn
<1>4. /\ u.pc = "nodes" /\ n \in u.todo /\ db' = db /\ tasks' = tasks /\ plan' = plan
      /\ row' = [row EXCEPT ![n] = r]
      /\ torn' = (u.todo # {n} \/ ~ u.alone)
      /\ proc' = [proc EXCEPT ![p] = v]
  <2>1. /\ u.pc = "nodes" /\ n \in u.todo /\ db' = db /\ tasks' = tasks /\ plan' = plan
        /\ row' = [row EXCEPT ![n] = r] /\ torn' = (u.todo # {n} \/ ~ u.alone)
    BY <1>2 DEF MongoWriteNode, Continues, evidenceVars
  <2> DEFINE w == IF proc[p].todo = {n} THEN Idle
                  ELSE [proc[p] EXCEPT !.todo = proc[p].todo \ {n}]
  <2>2. proc' = [proc EXCEPT ![p] = w] BY <1>3 DEF MongoWriteNode
  <2>3. w = v BY <1>2
  <2>4. QED BY <2>1, <2>2, <2>3
<1>5. /\ u.plan \in [PlanNodes -> Materials] /\ u.plan # Missing /\ u.seen \in NodeTables
      /\ u.reached \in Reached /\ FitTable(u.seen, u.reached) /\ u.todo \in SUBSET PlanNodes
      /\ \A k \in PlanNodes : u.seen[k] # Missing => row[k] # Missing
  BY <1>1, <1>2, SaverIs DEF ProcStates
<1>6. u.plan[n] \in Materials BY <1>5
<1>7. /\ r \in NodeRows /\ r.material = u.plan[n]
      /\ r.status # "pending" => u.reached[n] = u.plan[n]
  BY <1>5, <1>6, MongoRowFits
<1> HIDE DEF r
<1>8. row'[n] = r BY <1>3, <1>4, <1>7 DEF NodeTables
<1>9. earned' = [earned EXCEPT ![n] = e] BY <1>2, <1>8 DEF MongoWriteNode
<1>10. e \in Materials \cup {Missing} /\ (r.status # "pending" => e = r.material)
  BY <1>5, <1>7 DEF Reached
<1> HIDE DEF e
<1>11. /\ row' \in NodeTables /\ earned' \in Reached /\ row'[n] = r /\ earned'[n] = e
       /\ \A k \in PlanNodes : k # n => row'[k] = row[k] /\ earned'[k] = earned[k]
  BY <1>3, <1>4, <1>7, <1>9, <1>10 DEF NodeTables, Reached
<1>12. FitTable(row', earned') BY <1>3, <1>10, <1>11 DEF FitTable
<1>13. u.alone => plan = u.plan /\ \A k \in PlanNodes : (k \notin u.todo \/ k = n) =>
          row'[k] # Missing /\ row'[k].material = plan[k]
  <2> SUFFICES ASSUME u.alone
               PROVE  plan = u.plan /\ \A k \in PlanNodes : (k \notin u.todo \/ k = n) =>
                         row'[k] # Missing /\ row'[k].material = plan[k]
    OBVIOUS
  <2>1. r # Missing BY <1>7, MissingIsNone
  <2>2. plan = u.plan /\ \A k \in PlanNodes \ u.todo : row[k] # Missing /\ row[k].material = plan[k]
    BY <1>3, <1>4 DEF OwnSave
  <2>3. QED BY <1>4, <1>7, <1>11, <2>1, <2>2
<1>14. \A k \in PlanNodes : row[k] # Missing => row'[k] # Missing
  BY <1>7, <1>11, MissingIsNone
<1>15. plan \in [PlanNodes -> Materials] \cup {Missing} /\ torn' \in BOOLEAN
  BY <1>4 DEF PlanInv, PlanTypeOK
<1>16. NodesFit(plan', torn', row')
  <2> SUFFICES ASSUME ~ torn' PROVE \A k \in PlanNodes : row'[k] # Missing /\ row'[k].material = plan[k]
    BY <1>4 DEF NodesFit
  <2>1. u.todo = {n} /\ u.alone BY <1>4
  <2>2. QED BY <1>13, <2>1
<1>17. CASE u.todo = {n}
  <2>1. v = Idle BY <1>17
  <2>2. OwnSave(v, plan', row') BY <2>1, IdleIsState DEF OwnSave, Saving
  <2>3. v \in ProcStates /\ ~ v.alone BY <2>1, IdleIsState
  <2> HIDE DEF v
  <2>4. QED BY <1>1, <1>4, <1>11, <1>12, <1>14, <1>15, <1>16, <2>2, <2>3, SaverKeepsInv
<1>18. CASE u.todo # {n}
  <2>1. v = [u EXCEPT !.todo = u.todo \ {n}] BY <1>18
  <2> HIDE DEF v
  <2>2. /\ v \in ProcStates /\ v.pc = u.pc /\ v.plan = u.plan /\ v.seen = u.seen
        /\ v.reached = u.reached /\ v.todo = u.todo \ {n} /\ v.alone = u.alone
    BY <2>1 DEF ProcStates
  <2>3. OwnSave(v, plan', row')
    <3>1. v.pc = "nodes" /\ v.plan # Missing BY <1>4, <1>5, <2>2
    <3>2. v.alone => plan' = v.plan /\ \A k \in PlanNodes \ v.todo :
                        row'[k] # Missing /\ row'[k].material = plan'[k]
      BY <1>4, <1>13, <2>2
    <3>3. \A k \in PlanNodes : v.seen[k] # Missing => row'[k] # Missing BY <1>5, <1>14, <2>2
    <3>4. v.seen \in NodeTables /\ v.reached \in Reached /\ FitTable(v.seen, v.reached)
      BY <1>5, <2>2
    <3>5. QED BY <3>1, <3>2, <3>3, <3>4 DEF OwnSave, Saving
  <2>4. v.alone => proc[p].alone BY <1>2, <2>2
  <2>5. QED BY <1>1, <1>4, <1>11, <1>12, <1>14, <1>15, <1>16, <2>2, <2>3, <2>4, SaverKeepsInv
<1>19. QED BY <1>17, <1>18

\* Work on nodes keeps their material.
LEMMA WorkKeepsInv ==
    ASSUME PlanInv, NEW p \in Procs
    PROVE  /\ \A n \in PlanNodes, status \in {"running", "success", "error"} :
                 Checkpoint(p, n, status) => PlanInv'
           /\ RecoverInterrupted(p) => PlanInv'
           /\ \A n \in PlanNodes : ResetRetryable(p, n) => PlanInv'
<1>1. row \in NodeTables /\ earned \in Reached /\ FitTable(row, earned) /\ tasks \in Nat
  BY DEF PlanInv, PlanTypeOK
<1>2. \A n \in PlanNodes : row[n] # Missing => row[n] \in NodeRows BY <1>1 DEF NodeTables
<1>3. ASSUME NEW n \in PlanNodes, NEW status \in {"running", "success", "error"},
             Checkpoint(p, n, status)
      PROVE  PlanInv'
  <2> DEFINE k == IF status = "running" THEN row[n].attempts + 1 ELSE row[n].attempts
             r == [row[n] EXCEPT !.status = status, !.attempts = k]
  <2>1. /\ row[n] # Missing /\ UNCHANGED <<plan, torn, proc>> /\ db' = db /\ tasks' \in Nat
        /\ earned' = [earned EXCEPT ![n] = row[n].material]
    BY <1>1, <1>3 DEF Checkpoint, StartsTask
  <2>2. row[n] \in NodeRows BY <1>2, <2>1
  <2>3. k \in Nat BY <2>2 DEF NodeRows
  <2>4. row' = [row EXCEPT ![n] = r] BY <1>1, <1>3, <2>2 DEF Checkpoint, NodeTables, NodeRows
  <2>5. status \in NodeStatuses BY DEF NodeStatuses
  <2> HIDE DEF k
  <2>6. r \in NodeRows /\ r.material = row[n].material BY <2>2, <2>3, <2>5 DEF NodeRows
  <2> HIDE DEF r
  <2>7. QED BY <2>1, <2>4, <2>6, NodeKeepsInv
<1>4. ASSUME RecoverInterrupted(p) PROVE PlanInv'
  <2>1. /\ UNCHANGED <<plan, torn, proc>> /\ db' = db /\ tasks' \in Nat /\ earned' = earned
        /\ row' = [n \in PlanNodes |->
                      IF row[n] # Missing /\ row[n].status = "running"
                      THEN [row[n] EXCEPT !.status = "needs_review"] ELSE row[n]]
    BY <1>1, <1>4 DEF RecoverInterrupted, StartsTask
  <2>2. ASSUME NEW n \in PlanNodes
        PROVE  /\ row'[n] \in NodeRows \cup {Missing}
               /\ row'[n] # Missing <=> row[n] # Missing
               /\ row[n] # Missing => row'[n].material = row[n].material
               /\ row[n] # Missing /\ row'[n].status # "pending" => row[n].status # "pending"
    <3>1. CASE row[n] # Missing /\ row[n].status = "running"
      <4>1. row'[n] = [row[n] EXCEPT !.status = "needs_review"] BY <2>1, <3>1
      <4>2. row[n] \in NodeRows /\ "needs_review" \in NodeStatuses BY <1>2, <3>1 DEF NodeStatuses
      <4>3. row'[n] \in NodeRows /\ row'[n].material = row[n].material BY <4>1, <4>2, StatusRow
      <4>4. QED BY <3>1, <4>3, MissingIsNone
    <3>2. CASE ~ (row[n] # Missing /\ row[n].status = "running")
      BY <1>2, <2>1, <3>2
    <3>3. QED BY <3>1, <3>2
  <2>3. row' \in NodeTables /\ earned' \in Reached BY <1>1, <2>1, <2>2 DEF NodeTables
  <2>4. FitTable(row', earned') BY <1>1, <2>1, <2>2 DEF FitTable
  <2>5. QED BY <2>1, <2>2, <2>3, <2>4, NodesKeepInv
<1>5. ASSUME NEW n \in PlanNodes, ResetRetryable(p, n) PROVE PlanInv'
  <2> DEFINE r == [row[n] EXCEPT !.status = "pending"]
  <2>1. /\ row[n] # Missing /\ UNCHANGED <<plan, torn, proc>> /\ db' = db /\ tasks' \in Nat
        /\ earned' = [earned EXCEPT ![n] = Missing]
        /\ row' = [row EXCEPT ![n] = r]
    BY <1>1, <1>5 DEF ResetRetryable, StartsTask
  <2>2. row[n] \in NodeRows /\ "pending" \in NodeStatuses BY <1>2, <2>1 DEF NodeStatuses
  <2>3. r \in NodeRows /\ r.material = row[n].material /\ r.status = "pending"
    BY <2>2, StatusRow
  <2> HIDE DEF r
  <2>4. QED BY <2>1, <2>3, NodeKeepsInv
<1>6. QED BY <1>3, <1>4, <1>5

-----------------------------------------------------------------------------
\* A process that is not capturing, beside evidence that nobody changes.
LEMMA EvidenceIsLeft ==
    ASSUME EvidenceInv, NEW p \in Procs, NEW v \in ProcStates,
           proc' = [proc EXCEPT ![p] = v], proc \in [Procs -> ProcStates],
           v.pc \in {"idle", "replace", "nodes"}, UNCHANGED evidenceVars
    PROVE  EvidenceInv'
<1>1. UNCHANGED <<file, refs, evidence, linked>> BY DEF evidenceVars
<1>2. EvidenceTypeOK' /\ EvidenceVerifies'
  BY <1>1 DEF EvidenceInv, EvidenceTypeOK, EvidenceVerifies
<1>3. ASSUME NEW q \in Procs PROVE OwnCapture(q, proc'[q], file, refs, evidence)
  <2>1. CASE q = p BY <2>1 DEF OwnCapture
  <2>2. CASE q # p BY <2>2 DEF EvidenceInv, CapturesAreOwn
  <2>3. QED BY <2>1, <2>2
<1>4. CapturesAreOwn' BY <1>1, <1>3 DEF CapturesAreOwn, OwnCapture, HasRows
<1>5. QED BY <1>2, <1>4 DEF EvidenceInv

LEMMA EvidenceUntouched ==
    ASSUME EvidenceInv, UNCHANGED evidenceVars, proc' = proc
    PROVE  EvidenceInv'
  BY DEF EvidenceInv, EvidenceTypeOK, EvidenceVerifies, CapturesAreOwn, OwnCapture, HasRows,
         evidenceVars

\* A step of a process that captures changes files and references under its
\* own identifiers only; nothing that was given or inserted is taken back.
LEMMA CaptureKeepsInv ==
    ASSUME EvidenceInv, NEW p \in Procs, NEW v \in ProcStates,
           proc' = [proc EXCEPT ![p] = v], proc \in [Procs -> ProcStates],
           EvidenceTypeOK', EvidenceVerifies',
           \A i \in Ids : i[1] # p => file'[i] = file[i],
           refs \subseteq refs', \A r \in refs' : r \in refs \/ r[1][1] = p,
           evidence \subseteq evidence',
           OwnCapture(p, v, file', refs', evidence')
    PROVE  EvidenceInv'
<1>1. ASSUME NEW q \in Procs PROVE OwnCapture(q, proc'[q], file', refs', evidence')
  <2>1. CASE q = p BY <2>1
  <2>2. CASE q # p
    <3>1. OwnCapture(q, proc[q], file, refs, evidence) /\ proc'[q] = proc[q]
      BY <2>2 DEF EvidenceInv, CapturesAreOwn
    <3>2. ASSUME proc[q].pc \in {"write", "protect"}
          PROVE  /\ proc[q].id \in Ids /\ proc[q].id[1] = q /\ file'[proc[q].id] = file[proc[q].id]
                 /\ \A r \in refs' : r[1] # proc[q].id
      <4>1. /\ proc[q].id \in Ids /\ proc[q].id[1] = q /\ \A r \in refs : r[1] # proc[q].id
        BY <3>1, <3>2 DEF OwnCapture
      <4>2. QED BY <2>2, <4>1
    <3>3. \A ids, f : HasRows(ids, f, evidence) => HasRows(ids, f, evidence') BY DEF HasRows
    <3> HIDE DEF HasRows
    <3>4. QED BY <3>1, <3>2, <3>3 DEF OwnCapture
  <2>3. QED BY <2>1, <2>2
<1>2. CapturesAreOwn' BY <1>1 DEF CapturesAreOwn, OwnCapture, HasRows
<1>3. QED BY <1>2 DEF EvidenceInv

\* What is known of a process that captures.
LEMMA CapturerIs ==
    ASSUME StoreInv, NEW p \in Procs
    PROVE  /\ proc \in [Procs -> ProcStates] /\ proc[p] \in ProcStates
           /\ OwnCapture(p, proc[p], file, refs, evidence)
           /\ proc[p].pc \notin {"replace", "nodes"} => proc[p].plan = Missing
           /\ proc[p].ids \in SUBSET Ids
           /\ EvidenceTypeOK /\ EvidenceVerifies /\ tasks \in Nat
<1>1. proc \in [Procs -> ProcStates] /\ tasks \in Nat BY DEF StoreInv, PlanInv, PlanTypeOK
<1>2. OwnSave(proc[p], plan, row) BY DEF StoreInv, PlanInv, SavesAreOwn
<1>3. proc[p].ids \in SUBSET Ids BY <1>1 DEF ProcStates
<1>4. QED BY <1>1, <1>2, <1>3 DEF StoreInv, EvidenceInv, CapturesAreOwn, OwnSave, Saving

\* A reference that is there has a payload in its file, so a file without one
\* has no reference.
LEMMA NoReferenceWithout ==
    ASSUME EvidenceTypeOK, EvidenceVerifies, NEW i \in Ids, file[i] \notin Payloads
    PROVE  \A r \in refs : r[1] # i
  BY DEF EvidenceTypeOK, EvidenceVerifies

LEMMA CreateKeepsInv ==
    ASSUME StoreInv, NEW p \in Procs, NEW i \in Ids, NEW d \in Payloads,
           NEW f \in Findings \cup {Missing}, CreateFile(p, i, d, f)
    PROVE  StoreInv'
<1> DEFINE v == [Idle EXCEPT !.pc = "write", !.id = i, !.payload = d, !.finding = f]
<1>1. /\ i[1] = p /\ file[i] = Missing /\ file' = [file EXCEPT ![i] = "partial"]
      /\ proc' = [proc EXCEPT ![p] = v] /\ UNCHANGED <<plan, row, earned, torn>>
      /\ refs' = refs /\ evidence' = evidence /\ linked' = linked /\ db' = db /\ tasks' \in Nat
  BY CapturerIs DEF CreateFile, StartsTask, planVars
<1>2. /\ v \in ProcStates /\ v.pc = "write" /\ v.plan = Missing /\ v.id = i /\ v.payload = d
  BY IdleIsState DEF Idle, ProcStates
<1> HIDE DEF v
<1>3. EvidenceTypeOK /\ EvidenceVerifies /\ proc \in [Procs -> ProcStates] BY CapturerIs
<1>4. \A r \in refs : r[1] # i
  <2>1. file[i] \notin Payloads BY <1>1, StoreAssumption
  <2>2. QED BY <1>3, <2>1, NoReferenceWithout
<1>5. file' \in [Ids -> Payloads \cup {Missing, "partial"}] /\ \A k \in Ids : k # i => file'[k] = file[k]
  BY <1>1, <1>3 DEF EvidenceTypeOK
<1>6. EvidenceTypeOK' BY <1>1, <1>3, <1>5 DEF EvidenceTypeOK
<1>7. EvidenceVerifies'
  <2>1. \A r \in refs : r[1] \in Ids /\ r[1] # i BY <1>3, <1>4 DEF EvidenceTypeOK
  <2>2. QED BY <1>1, <1>3, <1>5, <2>1 DEF EvidenceVerifies
<1>8. OwnCapture(p, v, file', refs', evidence') BY <1>1, <1>2, <1>4 DEF OwnCapture
<1>9. PlanInv' BY <1>1, <1>2, PlanIsLeft DEF StoreInv, Saving
<1>10. EvidenceInv'
  <2>1. \A k \in Ids : k[1] # p => file'[k] = file[k] BY <1>1, <1>5
  <2>2. EvidenceInv BY DEF StoreInv
  <2>3. QED BY <1>1, <1>2, <1>3, <1>6, <1>7, <1>8, <2>1, <2>2, CaptureKeepsInv
<1>11. QED BY <1>9, <1>10 DEF StoreInv

LEMMA AcceptKeepsInv ==
    ASSUME StoreInv, NEW p \in Procs, NEW i \in Ids, NEW d \in Payloads, AcceptExisting(p, i, d)
    PROVE  StoreInv'
<1>1. /\ i[1] = p /\ file[i] = d /\ refs' = refs \cup {<<i, d>>} /\ proc' = proc
      /\ proc[p].pc = "idle" /\ UNCHANGED <<plan, row, earned, torn>>
      /\ UNCHANGED <<file, evidence, linked>> /\ db' = db /\ tasks' \in Nat
  BY CapturerIs DEF AcceptExisting, StartsTask, planVars
<1>2. /\ EvidenceTypeOK /\ EvidenceVerifies /\ proc \in [Procs -> ProcStates]
      /\ proc[p] \in ProcStates /\ proc[p].plan = Missing
  BY <1>1, CapturerIs
<1>3. proc' = [proc EXCEPT ![p] = proc[p]] BY <1>1, <1>2
<1>4. EvidenceTypeOK' BY <1>1, <1>2 DEF EvidenceTypeOK
<1>5. EvidenceVerifies' BY <1>1, <1>2 DEF EvidenceVerifies
<1>6. OwnCapture(p, proc[p], file', refs', evidence') BY <1>1 DEF OwnCapture
<1>7. PlanInv' BY <1>1, <1>2, <1>3, PlanIsLeft DEF StoreInv, Saving
<1>8. EvidenceInv'
  <2>1. \A r \in refs' : r \in refs \/ r[1][1] = p BY <1>1
  <2>2. /\ \A k \in Ids : k[1] # p => file'[k] = file[k]
        /\ EvidenceInv /\ refs \subseteq refs' /\ evidence \subseteq evidence'
    BY <1>1 DEF StoreInv
  <2>3. QED BY <1>2, <1>3, <1>4, <1>5, <1>6, <2>1, <2>2, CaptureKeepsInv
<1>9. QED BY <1>7, <1>8 DEF StoreInv

\* The file gets what the process captures, or is taken away again.
LEMMA FileKeepsInv ==
    ASSUME StoreInv, NEW p \in Procs, proc[p].pc \in {"write", "protect"}, NEW v \in ProcStates,
           proc' = [proc EXCEPT ![p] = v], v.plan = Missing, ~ Saving(v),
           NEW x \in Payloads \cup {Missing}, file' = [file EXCEPT ![proc[p].id] = x],
           OwnCapture(p, v, file', refs, evidence),
           UNCHANGED <<plan, row, earned, torn>>, UNCHANGED <<refs, evidence, linked>>,
           db' = db, tasks' = tasks
    PROVE  StoreInv'
<1>1. /\ proc[p].id \in Ids /\ proc[p].id[1] = p /\ \A r \in refs : r[1] # proc[p].id
      /\ EvidenceTypeOK /\ EvidenceVerifies /\ proc \in [Procs -> ProcStates] /\ tasks' \in Nat
  BY CapturerIs DEF OwnCapture
<1>2. /\ file' \in [Ids -> Payloads \cup {Missing, "partial"}]
      /\ \A k \in Ids : k # proc[p].id => file'[k] = file[k]
  BY <1>1 DEF EvidenceTypeOK
<1>3. EvidenceTypeOK' BY <1>1, <1>2 DEF EvidenceTypeOK
<1>4. EvidenceVerifies'
  <2>1. \A r \in refs : r[1] \in Ids /\ r[1] # proc[p].id BY <1>1 DEF EvidenceTypeOK
  <2>2. QED BY <1>1, <1>2, <2>1 DEF EvidenceVerifies
<1>5. PlanInv' BY <1>1, PlanIsLeft DEF StoreInv
<1>6. EvidenceInv'
  <2>1. OwnCapture(p, v, file', refs', evidence') OBVIOUS
  <2>2. /\ \A k \in Ids : k[1] # p => file'[k] = file[k]
        /\ EvidenceInv /\ refs \subseteq refs' /\ evidence \subseteq evidence'
    BY <1>1, <1>2 DEF StoreInv
  <2>3. \A r \in refs' : r \in refs \/ r[1][1] = p OBVIOUS
  <2>4. QED BY <1>1, <1>3, <1>4, <2>1, <2>2, <2>3, CaptureKeepsInv
<1>7. QED BY <1>5, <1>6 DEF StoreInv

LEMMA WriteKeepsInv ==
    ASSUME StoreInv, NEW p \in Procs, WriteFile(p) PROVE StoreInv'
<1> DEFINE v == [proc[p] EXCEPT !.pc = "protect"]
<1>1. /\ proc \in [Procs -> ProcStates] /\ proc[p] \in ProcStates /\ proc[p].pc = "write"
      /\ OwnCapture(p, proc[p], file, refs, evidence) /\ EvidenceTypeOK /\ proc[p].plan = Missing
  BY CapturerIs DEF WriteFile, Continues
<1>2. /\ proc' = [proc EXCEPT ![p] = v] /\ file' = [file EXCEPT ![proc[p].id] = proc[p].payload]
      /\ UNCHANGED <<plan, row, earned, torn>> /\ UNCHANGED <<refs, evidence, linked>>
      /\ db' = db /\ tasks' = tasks
  BY <1>1 DEF WriteFile, Continues, planVars
<1>3. /\ v \in ProcStates /\ v.pc = "protect" /\ v.id = proc[p].id /\ v.payload = proc[p].payload
      /\ v.plan = Missing
  BY <1>1 DEF ProcStates
<1> HIDE DEF v
<1>4. proc[p].id \in Ids /\ proc[p].payload \in Payloads BY <1>1 DEF OwnCapture
<1>5. file'[proc[p].id] = proc[p].payload BY <1>1, <1>2, <1>4 DEF EvidenceTypeOK
<1>6. OwnCapture(p, v, file', refs, evidence) BY <1>1, <1>3, <1>5 DEF OwnCapture
<1>7. QED BY <1>1, <1>2, <1>3, <1>4, <1>6, FileKeepsInv DEF Saving

LEMMA UnlinkKeepsInv ==
    ASSUME StoreInv, NEW p \in Procs, Unlink(p) PROVE StoreInv'
<1>1. /\ proc[p].pc \in {"write", "protect"} /\ file' = [file EXCEPT ![proc[p].id] = Missing]
      /\ proc' = [proc EXCEPT ![p] = Idle] /\ UNCHANGED <<plan, row, earned, torn>>
      /\ UNCHANGED <<refs, evidence, linked>> /\ db' = db /\ tasks' = tasks
  BY DEF Unlink, planVars
<1>2. OwnCapture(p, Idle, file', refs, evidence) BY IdleIsState DEF OwnCapture
<1>3. QED BY <1>1, <1>2, IdleIsState, FileKeepsInv DEF Saving

\* A step of a capture after its file was written: references and rows are
\* added for what the file holds.
LEMMA RecordKeepsInv ==
    ASSUME StoreInv, NEW p \in Procs, NEW v \in ProcStates,
           proc' = [proc EXCEPT ![p] = v], v.plan = Missing, ~ Saving(v),
           UNCHANGED <<plan, row, earned, torn>>, file' = file, db' = db, tasks' = tasks,
           refs \subseteq refs', \A r \in refs' : r \in refs \/ r[1][1] = p,
           evidence \subseteq evidence', EvidenceTypeOK', EvidenceVerifies',
           OwnCapture(p, v, file, refs', evidence')
    PROVE  StoreInv'
<1>1. proc \in [Procs -> ProcStates] /\ tasks' \in Nat BY CapturerIs
<1>2. PlanInv' BY <1>1, PlanIsLeft DEF StoreInv
<1>3. \A k \in Ids : k[1] # p => file'[k] = file[k] OBVIOUS
<1>4. OwnCapture(p, v, file', refs', evidence') /\ EvidenceInv BY DEF StoreInv
<1>5. EvidenceInv' BY <1>1, <1>3, <1>4, CaptureKeepsInv
<1>6. QED BY <1>2, <1>5 DEF StoreInv

LEMMA ProtectKeepsInv ==
    ASSUME StoreInv, NEW p \in Procs, Protect(p) PROVE StoreInv'
<1>1. PICK u \in ProcStates : u = proc[p] BY CapturerIs
<1> DEFINE v == IF u.finding = Missing THEN Idle ELSE [u EXCEPT !.pc = "insert"]
           r == <<u.id, u.payload>>
<1>2. /\ proc \in [Procs -> ProcStates] /\ u.pc = "protect" /\ EvidenceTypeOK /\ EvidenceVerifies
      /\ OwnCapture(p, u, file, refs, evidence) /\ u.plan = Missing
  BY <1>1, CapturerIs DEF Protect, Continues
<1>3. /\ UNCHANGED <<plan, row, earned, torn>> /\ file' = file /\ db' = db /\ tasks' = tasks
      /\ evidence' = evidence /\ linked' = linked /\ refs' = refs \cup {r}
  BY <1>1 DEF Protect, Continues, planVars
<1>4. proc' = [proc EXCEPT ![p] = v] BY <1>1, <1>2 DEF Protect
<1>5. u.id \in Ids /\ u.payload \in Payloads /\ u.id[1] = p /\ file[u.id] = u.payload
  BY <1>2 DEF OwnCapture
<1>6. r \in Ids \X Payloads /\ r[1] = u.id /\ r[2] = u.payload BY <1>5
<1>7. /\ v \in ProcStates /\ v.plan = Missing /\ v.pc \in {"idle", "insert"}
      /\ v.pc = "insert" =>
            v.finding \in Findings /\ v.id = u.id /\ v.payload = u.payload
  <2>1. CASE u.finding = Missing BY <2>1, IdleIsState
  <2>2. CASE u.finding # Missing
    <3>1. v = [u EXCEPT !.pc = "insert"] BY <2>2
    <3>2. u.finding \in Findings BY <2>2 DEF ProcStates
    <3>3. u.plan = Missing BY <1>2
    <3> HIDE DEF v
    <3>4. QED BY <3>1, <3>2, <3>3 DEF ProcStates
  <2>3. QED BY <2>1, <2>2
<1> HIDE DEF v
<1>8. r \in refs' /\ refs \subseteq refs' /\ \A x \in refs' : x \in refs \/ x = r BY <1>3
<1>9. OwnCapture(p, v, file, refs', evidence') BY <1>5, <1>7, <1>8 DEF OwnCapture
<1>10. EvidenceTypeOK' BY <1>2, <1>3, <1>6 DEF EvidenceTypeOK
<1>11. EvidenceVerifies'
  <2>1. \A x \in refs' : file[x[1]] = x[2] BY <1>2, <1>5, <1>6, <1>8 DEF EvidenceVerifies
  <2>2. QED BY <1>2, <1>3, <1>8, <2>1 DEF EvidenceVerifies
<1>12. \A x \in refs' : x \in refs \/ x[1][1] = p BY <1>5, <1>6, <1>8
<1>13. ~ Saving(v) /\ evidence \subseteq evidence' BY <1>3, <1>7 DEF Saving
<1> HIDE DEF r
<1>14. QED
  BY <1>3, <1>4, <1>7, <1>8, <1>9, <1>10, <1>11, <1>12, <1>13, RecordKeepsInv

LEMMA InsertKeepsInv ==
    ASSUME StoreInv, NEW p \in Procs, InsertEvidence(p) PROVE StoreInv'
<1>1. PICK u \in ProcStates : u = proc[p] BY CapturerIs
<1> DEFINE v == [u EXCEPT !.pc = "link", !.ids = linked[u.finding]]
           e == [id |-> u.id, payload |-> u.payload, finding |-> u.finding]
<1>2. /\ proc \in [Procs -> ProcStates] /\ u.pc = "insert" /\ EvidenceTypeOK /\ EvidenceVerifies
      /\ OwnCapture(p, u, file, refs, evidence) /\ u.plan = Missing
  BY <1>1, CapturerIs DEF InsertEvidence, Continues
<1>3. /\ UNCHANGED <<plan, row, earned, torn>> /\ file' = file /\ db' = db /\ tasks' = tasks
      /\ evidence' = evidence \cup {e} /\ linked' = linked /\ refs' = refs
  BY <1>1 DEF InsertEvidence, Continues, planVars
<1>4. proc' = [proc EXCEPT ![p] = v] BY <1>1, <1>2 DEF InsertEvidence
<1>5. /\ u.id \in Ids /\ u.payload \in Payloads /\ u.finding \in Findings
      /\ <<u.id, u.payload>> \in refs
  BY <1>2 DEF OwnCapture
<1>6. linked[u.finding] \in SUBSET Ids /\ HasRows(linked[u.finding], u.finding, evidence)
  BY <1>2, <1>5 DEF EvidenceTypeOK, EvidenceVerifies, HasRows
<1>7. /\ v \in ProcStates /\ v.pc = "link" /\ v.plan = Missing /\ v.finding = u.finding
      /\ v.id = u.id /\ v.payload = u.payload /\ v.ids = linked[u.finding]
  <2> DEFINE ids == linked[u.finding]
  <2>1. v = [u EXCEPT !.pc = "link", !.ids = ids] /\ ids \in SUBSET Ids /\ u.plan = Missing
    BY <1>2, <1>6
  <2> HIDE DEF v, ids
  <2>2. /\ v \in ProcStates /\ v.pc = "link" /\ v.plan = Missing /\ v.finding = u.finding
        /\ v.id = u.id /\ v.payload = u.payload /\ v.ids = ids
    BY <2>1 DEF ProcStates
  <2>3. QED BY <2>2 DEF ids
<1> HIDE DEF v
<1>8. e.id = u.id /\ e.payload = u.payload /\ e.finding = u.finding
      /\ e \in [id : Ids, payload : Payloads, finding : Findings]
  BY <1>5
<1> HIDE DEF e
<1>9. e \in evidence' /\ evidence \subseteq evidence' /\ \A x \in evidence' : x \in evidence \/ x = e
  BY <1>3
<1>10. HasRows(v.ids \cup {v.id}, v.finding, evidence')
  BY <1>6, <1>7, <1>8, <1>9 DEF HasRows
<1>11. OwnCapture(p, v, file, refs', evidence') BY <1>3, <1>5, <1>7, <1>10 DEF OwnCapture
<1>12. EvidenceTypeOK' BY <1>2, <1>3, <1>8 DEF EvidenceTypeOK
<1>13. EvidenceVerifies' BY <1>2, <1>3, <1>5, <1>8, <1>9 DEF EvidenceVerifies
<1>14. ~ Saving(v) /\ refs \subseteq refs' /\ \A r \in refs' : r \in refs \/ r[1][1] = p
  BY <1>3, <1>7 DEF Saving
<1>15. QED
  BY <1>3, <1>4, <1>7, <1>9, <1>11, <1>12, <1>13, <1>14, RecordKeepsInv

LEMMA LinkKeepsInv ==
    ASSUME StoreInv, NEW p \in Procs, LinkEvidence(p) PROVE StoreInv'
<1>1. PICK u \in ProcStates : u = proc[p] BY CapturerIs
<1> DEFINE ids == u.ids \cup {u.id}
<1>2. /\ u.pc = "link" /\ EvidenceTypeOK /\ EvidenceVerifies
      /\ OwnCapture(p, u, file, refs, evidence) /\ u.ids \in SUBSET Ids
  BY <1>1, CapturerIs DEF LinkEvidence, Continues
<1>3. /\ UNCHANGED <<plan, row, earned, torn>> /\ file' = file /\ db' = db /\ tasks' = tasks
      /\ evidence' = evidence /\ linked' = [linked EXCEPT ![u.finding] = ids] /\ refs' = refs
      /\ proc' = [proc EXCEPT ![p] = Idle]
  BY <1>1 DEF LinkEvidence, Continues, planVars
<1>4. u.id \in Ids /\ u.finding \in Findings /\ HasRows(ids, u.finding, evidence)
  BY <1>2 DEF OwnCapture
<1>5. ids \in SUBSET Ids BY <1>2, <1>4
<1> HIDE DEF ids
<1>6. EvidenceTypeOK' BY <1>2, <1>3, <1>5 DEF EvidenceTypeOK
<1>7. \A f \in Findings : HasRows(linked'[f], f, evidence)
  BY <1>2, <1>3, <1>4 DEF EvidenceTypeOK, EvidenceVerifies, HasRows
<1>8. EvidenceVerifies' BY <1>2, <1>3, <1>7 DEF EvidenceVerifies, HasRows
<1>9. OwnCapture(p, Idle, file, refs', evidence') BY IdleIsState DEF OwnCapture
<1>10. /\ refs \subseteq refs' /\ \A r \in refs' : r \in refs \/ r[1][1] = p
       /\ evidence \subseteq evidence'
  BY <1>3
<1>11. ~ Saving(Idle) BY IdleIsState DEF Saving
<1>12. QED BY <1>3, <1>6, <1>8, <1>9, <1>10, <1>11, IdleIsState, RecordKeepsInv

\* A death leaves what is stored as it is, also a plan half saved.
LEMMA DeathKeepsInv ==
    ASSUME StoreInv, NEW p \in Procs, Dies(p) PROVE StoreInv'
<1>1. /\ proc' = [proc EXCEPT ![p] = Idle] /\ UNCHANGED <<plan, row, earned, torn>>
      /\ UNCHANGED evidenceVars /\ db' = db /\ tasks' \in Nat /\ proc \in [Procs -> ProcStates]
  BY CapturerIs DEF Dies, planVars
<1>2. PlanInv' BY <1>1, IdleIsState, PlanIsLeft DEF StoreInv, Saving
<1>3. EvidenceInv' BY <1>1, IdleIsState, EvidenceIsLeft DEF StoreInv
<1>4. QED BY <1>2, <1>3 DEF StoreInv

-----------------------------------------------------------------------------
\* The steps of plans leave evidence alone.
LEMMA PlanStepKeepsInv ==
    ASSUME StoreInv, NEW p \in Procs
    PROVE  /\ \A ms \in [PlanNodes -> Materials] :
                 SqliteSavePlan(p, ms) \/ MongoReadNodes(p, ms) => StoreInv'
           /\ MongoReplacePlan(p) => StoreInv'
           /\ \A n \in PlanNodes :
                 MongoWriteNode(p, n) \/ MongoInsertFails(p, n) \/ ResetRetryable(p, n) => StoreInv'
           /\ \A n \in PlanNodes, s \in {"running", "success", "error"} :
                 Checkpoint(p, n, s) => StoreInv'
           /\ RecoverInterrupted(p) => StoreInv'
<1>1. PlanInv /\ EvidenceInv BY DEF StoreInv
<1>2. ASSUME UNCHANGED evidenceVars, proc' = proc, PlanInv' PROVE StoreInv'
  BY <1>1, <1>2, EvidenceUntouched DEF StoreInv
<1>3. ASSUME UNCHANGED evidenceVars, PlanInv', NEW v \in ProcStates,
             proc' = [proc EXCEPT ![p] = v], v.pc \in {"idle", "replace", "nodes"}
      PROVE  StoreInv'
  BY <1>1, <1>3, CapturerIs, EvidenceIsLeft DEF StoreInv
<1>4. ASSUME NEW ms \in [PlanNodes -> Materials], SqliteSavePlan(p, ms) PROVE StoreInv'
  BY <1>1, <1>2, <1>4, SqliteSaveKeepsInv DEF SqliteSavePlan
<1>5. ASSUME NEW ms \in [PlanNodes -> Materials], MongoReadNodes(p, ms) PROVE StoreInv'
  <2>1. PlanInv' BY <1>1, <1>5, MongoReadKeepsInv
  <2>2. /\ proc'[p].pc = "replace"
        /\ \A q \in Procs : q # p =>
              proc'[q] = [proc[q] EXCEPT !.alone = FALSE] /\ proc[q] \in ProcStates
    BY <1>1, <1>5, BeginningIs
  <2>3. UNCHANGED <<file, refs, evidence, linked>> BY <1>5 DEF MongoReadNodes, evidenceVars
  <2>4. \A q \in Procs : OwnCapture(q, proc'[q], file, refs, evidence)
    <3> SUFFICES ASSUME NEW q \in Procs PROVE OwnCapture(q, proc'[q], file, refs, evidence)
      OBVIOUS
    <3>1. CASE q = p BY <2>2, <3>1 DEF OwnCapture
    <3>2. CASE q # p
      <4>1. PICK u \in ProcStates : u = proc[q] BY <2>2, <3>2
      <4> DEFINE v == [u EXCEPT !.alone = FALSE]
      <4>2. /\ v.pc = u.pc /\ v.id = u.id /\ v.payload = u.payload /\ v.finding = u.finding
            /\ v.ids = u.ids
        BY NotAlone
      <4>3. proc'[q] = v /\ OwnCapture(q, u, file, refs, evidence)
        BY <1>1, <2>2, <3>2, <4>1 DEF EvidenceInv, CapturesAreOwn
      <4> HIDE DEF v
      <4>4. QED BY <4>2, <4>3 DEF OwnCapture
    <3>3. QED BY <3>1, <3>2
  <2>5. EvidenceInv'
    BY <1>1, <2>3, <2>4
    DEF EvidenceInv, EvidenceTypeOK, CapturesAreOwn, OwnCapture, HasRows, EvidenceVerifies
  <2>6. QED BY <2>1, <2>5 DEF StoreInv
<1>6. ASSUME MongoReplacePlan(p) PROVE StoreInv'
  <2> DEFINE v == [proc[p] EXCEPT !.pc = "nodes"]
  <2>1. PlanInv' BY <1>1, <1>6, MongoReplaceKeepsInv
  <2>2. proc' = [proc EXCEPT ![p] = v] /\ UNCHANGED evidenceVars
    BY <1>6, CapturerIs DEF MongoReplacePlan
  <2>3. proc[p] \in ProcStates BY CapturerIs
  <2>4. v \in ProcStates /\ v.pc = "nodes" BY <2>3 DEF ProcStates
  <2> HIDE DEF v
  <2>5. QED BY <1>3, <2>1, <2>2, <2>4
<1>7. ASSUME NEW n \in PlanNodes, MongoWriteNode(p, n) PROVE StoreInv'
  <2>1. PICK u \in ProcStates : u = proc[p] BY CapturerIs
  <2> DEFINE v == IF u.todo = {n} THEN Idle ELSE [u EXCEPT !.todo = u.todo \ {n}]
  <2>2. PlanInv' BY <1>1, <1>7, MongoWriteKeepsInv
  <2>3. proc' = [proc EXCEPT ![p] = v] /\ UNCHANGED evidenceVars /\ u.pc = "nodes"
    BY <1>7, <2>1, CapturerIs DEF MongoWriteNode, Continues
  <2>4. v \in ProcStates /\ v.pc \in {"idle", "nodes"}
    <3>1. CASE u.todo = {n} BY <3>1, IdleIsState
    <3>2. CASE u.todo # {n}
      <4>1. v = [u EXCEPT !.todo = u.todo \ {n}] BY <3>2
      <4>2. QED BY <2>3, <4>1 DEF ProcStates
    <3>3. QED BY <3>1, <3>2
  <2> HIDE DEF v
  <2>5. QED BY <1>3, <2>2, <2>3, <2>4
<1>8. ASSUME NEW n \in PlanNodes, NEW s \in {"running", "success", "error"}, Checkpoint(p, n, s)
      PROVE  StoreInv'
  BY <1>1, <1>2, <1>8, WorkKeepsInv DEF Checkpoint
<1>9. ASSUME NEW n \in PlanNodes, ResetRetryable(p, n) PROVE StoreInv'
  BY <1>1, <1>2, <1>9, WorkKeepsInv DEF ResetRetryable
<1>10. ASSUME RecoverInterrupted(p) PROVE StoreInv'
  BY <1>1, <1>2, <1>10, WorkKeepsInv DEF RecoverInterrupted
<1>11. ASSUME NEW n \in PlanNodes, MongoInsertFails(p, n) PROVE StoreInv'
  <2>1. PlanInv' BY <1>1, <1>11, MongoFailsKeepsInv
  <2>2. QED BY <1>3, <1>11, <2>1, IdleIsState DEF MongoInsertFails
<1>12. QED BY <1>4, <1>5, <1>6, <1>7, <1>8, <1>9, <1>10, <1>11

LEMMA StoreInitInv == StoreInit => StoreInv
<1> SUFFICES ASSUME StoreInit PROVE StoreInv OBVIOUS
<1>1. proc = [p \in Procs |-> Idle] /\ proc \in [Procs -> ProcStates]
  BY IdleIsState DEF StoreInit
<1>2. PlanTypeOK BY <1>1 DEF StoreInit, PlanTypeOK, NodeTables, Reached
<1>3. SavesAreOwn BY <1>1, IdleIsState DEF SavesAreOwn, OwnSave, Saving
<1>4. PlanInv BY <1>2, <1>3 DEF PlanInv, StoreInit, FitTable, NodesFit
<1>5. CapturesAreOwn BY <1>1, IdleIsState DEF CapturesAreOwn, OwnCapture
<1>6. EvidenceInv BY <1>5 DEF EvidenceInv, EvidenceTypeOK, EvidenceVerifies, StoreInit
<1>7. QED BY <1>4, <1>6 DEF StoreInv

LEMMA StoreNextInv == StoreInv /\ [StoreNext]_storeVars => StoreInv'
<1> SUFFICES ASSUME StoreInv, [StoreNext]_storeVars PROVE StoreInv' OBVIOUS
<1>1. CASE UNCHANGED storeVars
  <2>1. /\ UNCHANGED <<plan, row, earned, torn, db, proc, tasks>> /\ UNCHANGED evidenceVars
    BY <1>1 DEF storeVars, evidenceVars
  <2>2. PlanInv'
    BY <2>1 DEF StoreInv, PlanInv, PlanTypeOK, FitTable, SavesAreOwn, OwnSave, Saving, NodesFit
  <2>3. QED BY <2>1, <2>2, EvidenceUntouched DEF StoreInv
<1>2. CASE StoreNext
  <2>1. PICK p \in Procs :
        \/ \E ms \in [PlanNodes -> Materials] : SqliteSavePlan(p, ms) \/ MongoReadNodes(p, ms)
        \/ MongoReplacePlan(p)
        \/ \E n \in PlanNodes :
              \/ MongoWriteNode(p, n) \/ MongoInsertFails(p, n) \/ ResetRetryable(p, n)
              \/ \E s \in {"running", "success", "error"} : Checkpoint(p, n, s)
        \/ RecoverInterrupted(p)
        \/ \E i \in Ids, d \in Payloads :
              \/ \E f \in Findings \cup {Missing} : CreateFile(p, i, d, f)
              \/ AcceptExisting(p, i, d)
        \/ WriteFile(p) \/ Unlink(p) \/ Protect(p) \/ InsertEvidence(p) \/ LinkEvidence(p)
        \/ Dies(p)
    BY <1>2 DEF StoreNext
  <2>2. CASE \/ \E ms \in [PlanNodes -> Materials] : SqliteSavePlan(p, ms) \/ MongoReadNodes(p, ms)
             \/ MongoReplacePlan(p)
             \/ \E n \in PlanNodes :
                   \/ MongoWriteNode(p, n) \/ MongoInsertFails(p, n) \/ ResetRetryable(p, n)
                   \/ \E s \in {"running", "success", "error"} : Checkpoint(p, n, s)
             \/ RecoverInterrupted(p)
    BY <2>2, PlanStepKeepsInv
  <2>3. CASE \E i \in Ids, d \in Payloads :
                \/ \E f \in Findings \cup {Missing} : CreateFile(p, i, d, f)
                \/ AcceptExisting(p, i, d)
    BY <2>3, CreateKeepsInv, AcceptKeepsInv
  <2>4. CASE WriteFile(p) \/ Unlink(p) BY <2>4, WriteKeepsInv, UnlinkKeepsInv
  <2>5. CASE Protect(p) \/ InsertEvidence(p) \/ LinkEvidence(p)
    BY <2>5, ProtectKeepsInv, InsertKeepsInv, LinkKeepsInv
  <2>6. CASE Dies(p) BY <2>6, DeathKeepsInv
  <2>7. QED BY <2>1, <2>2, <2>3, <2>4, <2>5, <2>6
<1>3. QED BY <1>1, <1>2

\* The invariant of plans and evidence, for any processes, nodes, materials,
\* findings and payloads, on either backend.
THEOREM StoreInvariantHolds == StoreSpec => []StoreInv
  BY StoreInitInv, StoreNextInv, PTL DEF StoreSpec

\* Whatever saves overlapped or were cut off, a node has its status from its
\* row's own material, and after a save that was alone from the loaded plan's
\* (save_plan of either store).
THEOREM StatusIsEarned == StoreSpec => []StatusFitsMaterial
<1>1. StoreInv => StatusFitsMaterial
  BY DEF StoreInv, PlanInv, NodesFit, FitTable, StatusFitsMaterial
<1>2. QED BY <1>1, StoreInvariantHolds, PTL

\* Every reference and every row of evidence verifies (capture, add_evidence,
\* link_evidence_to_finding).
THEOREM EvidenceStaysVerified == StoreSpec => []EvidenceVerifies
<1>1. StoreInv => EvidenceVerifies BY DEF StoreInv, EvidenceInv
<1>2. QED BY <1>1, StoreInvariantHolds, PTL

\* What StartedIsNotReplayed says of one node.
NotReplayed(n) ==
    row[n] # Missing =>
       /\ row'[n] # Missing /\ row'[n].attempts >= row[n].attempts
       /\ /\ row[n].status \in {"running", "success", "needs_review"}
          /\ row'[n].status = "pending" /\ row'[n].material = row[n].material
          => \E p \in Procs : WritesBackStale(p, n)

\* A row that is kept, or of which only the status changes to another than
\* pending, or what is no longer at work is made pending.
LEMMA RowIsKept ==
    ASSUME NEW n \in PlanNodes, row[n] \in NodeRows, row'[n] \in NodeRows,
           row'[n].attempts >= row[n].attempts,
           \/ row'[n] = row[n]
           \/ row'[n].status # "pending"
           \/ row'[n].material # row[n].material
           \/ row[n].status \notin {"running", "success", "needs_review"}
    PROVE  NotReplayed(n)
  BY MissingIsNone DEF NotReplayed

\* A save keeps a row and its attempts, and makes a node that was started
\* runnable only with other material, unless it writes back what is stale.
LEMMA SaveDoesNotReplay ==
    ASSUME PlanInv, NEW p \in Procs, NEW n \in PlanNodes,
           \/ \E ms \in [PlanNodes -> Materials] : SqliteSavePlan(p, ms)
           \/ \E k \in PlanNodes : MongoWriteNode(p, k)
    PROVE  NotReplayed(n)
<1> SUFFICES ASSUME row[n] # Missing PROVE NotReplayed(n) BY DEF NotReplayed
<1>1. row \in NodeTables /\ row[n] \in NodeRows /\ row[n].attempts \in Nat
  BY DEF PlanInv, PlanTypeOK, NodeTables, NodeRows
<1>2. ASSUME NEW ms \in [PlanNodes -> Materials], SqliteSavePlan(p, ms) PROVE NotReplayed(n)
  <2>1. row'[n] = SqliteRow(n, ms[n]) /\ ms[n] \in Materials BY <1>2 DEF SqliteSavePlan
  <2>2. CASE row[n].material = ms[n]
    <3>1. row'[n] = row[n] BY <2>1, <2>2 DEF SqliteRow
    <3>2. row'[n] \in NodeRows /\ row'[n].attempts >= row[n].attempts BY <1>1, <3>1
    <3>3. QED BY <1>1, <3>1, <3>2, RowIsKept
  <2>3. CASE row[n].material # ms[n]
    <3>1. row'[n] = [row[n] EXCEPT !.material = ms[n], !.status = "pending"]
      BY <2>1, <2>3 DEF SqliteRow
    <3>2. "pending" \in NodeStatuses BY DEF NodeStatuses
    <3>3. /\ row'[n] \in NodeRows /\ row'[n].material = ms[n]
          /\ row'[n].attempts = row[n].attempts
      BY <1>1, <2>1, <3>1, <3>2 DEF NodeRows
    <3>4. QED BY <1>1, <2>3, <3>3, RowIsKept
  <2>4. QED BY <2>2, <2>3
<1>3. ASSUME NEW k \in PlanNodes, MongoWriteNode(p, k) PROVE NotReplayed(n)
  <2>1. PICK u \in ProcStates : u = proc[p] BY DEF PlanInv, PlanTypeOK
  <2> DEFINE r == MongoRow(k, u.plan[k], u.seen)
  <2>2. /\ Saving(u) /\ row' = [row EXCEPT ![k] = r] /\ u.pc = "nodes" /\ k \in u.todo
        /\ u.seen[k] = Missing => row[k] = Missing
    BY <1>3, <2>1 DEF MongoWriteNode, Continues, Saving, IsDuplicate
  <2>3. /\ u.plan \in [PlanNodes -> Materials] /\ u.seen \in NodeTables
        /\ u.reached \in Reached /\ FitTable(u.seen, u.reached)
        /\ \A m \in PlanNodes : u.seen[m] # Missing => row[m] # Missing
    BY <2>1, <2>2, SaverIs
  <2>4. CASE k # n
    <3>1. row'[n] = row[n] BY <1>1, <2>2, <2>4 DEF NodeTables
    <3>2. row'[n] \in NodeRows /\ row'[n].attempts >= row[n].attempts BY <1>1, <3>1
    <3>3. QED BY <1>1, <3>1, <3>2, RowIsKept
  <2>5. CASE k = n
    <3>1. row'[n] = r /\ u.seen[n] # Missing BY <1>1, <2>2, <2>5 DEF NodeTables
    <3>2. u.plan[k] \in Materials BY <2>3
    <3>3. /\ r \in NodeRows /\ r.material = u.plan[n]
          /\ r.status = "pending" => u.seen[n].material # u.plan[n] \/ u.seen[n].status = "pending"
      BY <2>3, <2>5, <3>1, <3>2, MongoRowFits
    <3>4. r.attempts = row[n].attempts BY <1>1, <2>5, <3>1 DEF MongoRow, NodeRows
    <3> HIDE DEF r
    <3>5. row'[n].attempts >= row[n].attempts BY <1>1, <3>1, <3>4
    <3>6. CASE u.seen[n] = row[n]
      BY <1>1, <3>1, <3>3, <3>5, <3>6, RowIsKept
    <3>7. CASE u.seen[n] # row[n]
      <4>1. n \notin proc'[p].todo
        <5> DEFINE w == IF proc[p].todo = {n} THEN Idle
                        ELSE [proc[p] EXCEPT !.todo = proc[p].todo \ {n}]
        <5>1. proc' = [proc EXCEPT ![p] = w] /\ proc \in [Procs -> ProcStates]
          BY <1>3, <2>5 DEF MongoWriteNode, PlanInv, PlanTypeOK
        <5>2. n \notin w.todo BY <2>1 DEF Idle, ProcStates
        <5> HIDE DEF w
        <5>3. QED BY <5>1, <5>2
      <4>2. WritesBackStale(p, n) BY <2>1, <2>2, <2>5, <3>7, <4>1 DEF WritesBackStale
      <4>3. row'[n] # Missing BY <3>1, <3>3, MissingIsNone
      <4>4. QED BY <3>5, <4>2, <4>3 DEF NotReplayed
    <3>8. QED BY <3>6, <3>7
  <2>6. QED BY <2>4, <2>5
<1>4. QED BY <1>2, <1>3

\* A node stays started, and counted as such, whatever saves, recoveries and
\* retries follow, also where they overlap; only a Mongo save that undoes a
\* checkpoint makes it runnable again with its material, and not its attempts
\* (save_plan, checkpoint_plan_node, recover_interrupted_plan and
\* reset_retryable_node of either store).
THEOREM StartedStaysStarted == StoreSpec => StartedIsNotReplayed
<1>1. StoreInv /\ [StoreNext]_storeVars => [\A n \in PlanNodes : NotReplayed(n)]_storeVars
  <2> SUFFICES ASSUME StoreInv, StoreNext, NEW n \in PlanNodes, row[n] # Missing
               PROVE  NotReplayed(n)
    BY DEF NotReplayed
  <2>1. /\ PlanInv /\ row \in NodeTables /\ row[n] \in NodeRows /\ row[n].attempts \in Nat
    BY DEF StoreInv, PlanInv, PlanTypeOK, NodeTables, NodeRows
  <2>2. ASSUME row'[n] = row[n] PROVE NotReplayed(n)
    <3>1. row'[n] \in NodeRows /\ row'[n].attempts >= row[n].attempts BY <2>1, <2>2
    <3>2. QED BY <2>1, <2>2, <3>1, RowIsKept
  <2>3. ASSUME NEW p \in Procs, NEW k \in PlanNodes, NEW s \in {"running", "success", "error"},
               Checkpoint(p, k, s)
        PROVE  NotReplayed(n)
    <3>1. CASE k # n
      <4>1. row'[n] = row[n] BY <2>1, <2>3, <3>1 DEF Checkpoint, NodeTables
      <4>2. QED BY <2>2, <4>1
    <3>2. CASE k = n
      <4> DEFINE a == IF s = "running" THEN row[n].attempts + 1 ELSE row[n].attempts
                 r == [row[n] EXCEPT !.status = s, !.attempts = a]
      <4>1. row'[n] = r BY <2>1, <2>3, <3>2 DEF Checkpoint, NodeTables, NodeRows
      <4>2. a \in Nat /\ a >= row[n].attempts /\ s \in NodeStatuses BY <2>1 DEF NodeStatuses
      <4> HIDE DEF a
      <4>3. r \in NodeRows /\ r.status = s /\ r.attempts = a BY <2>1, <4>2 DEF NodeRows
      <4> HIDE DEF r
      <4>4. QED BY <2>1, <4>1, <4>2, <4>3, RowIsKept
    <3>3. QED BY <3>1, <3>2
  <2>4. ASSUME NEW p \in Procs, RecoverInterrupted(p) PROVE NotReplayed(n)
    <3>1. row'[n] = IF row[n].status = "running"
                    THEN [row[n] EXCEPT !.status = "needs_review"] ELSE row[n]
      BY <2>4 DEF RecoverInterrupted
    <3>2. CASE row[n].status = "running"
      <4>1. "needs_review" \in NodeStatuses BY DEF NodeStatuses
      <4>2. /\ row'[n] \in NodeRows /\ row'[n].status = "needs_review"
            /\ row'[n].attempts = row[n].attempts
        BY <2>1, <3>1, <3>2, <4>1 DEF NodeRows
      <4>3. QED BY <2>1, <4>2, RowIsKept
    <3>3. CASE row[n].status # "running" BY <2>2, <3>1, <3>3
    <3>4. QED BY <3>2, <3>3
  <2>5. ASSUME NEW p \in Procs, NEW k \in PlanNodes, ResetRetryable(p, k) PROVE NotReplayed(n)
    <3>1. row' = [row EXCEPT ![k].status = "pending"] /\ row[k].status \in {"error", "timeout"}
      BY <2>5 DEF ResetRetryable, Retryable
    <3>2. CASE k # n
      <4>1. row'[n] = row[n] BY <2>1, <3>1, <3>2 DEF NodeTables
      <4>2. QED BY <2>2, <4>1
    <3>3. CASE k = n
      <4>1. row'[n] = [row[n] EXCEPT !.status = "pending"] BY <2>1, <3>1, <3>3 DEF NodeTables
      <4>2. "pending" \in NodeStatuses BY DEF NodeStatuses
      <4>3. row'[n] \in NodeRows /\ row'[n].attempts = row[n].attempts
        BY <2>1, <4>1, <4>2 DEF NodeRows
      <4>4. row[n].status \notin {"running", "success", "needs_review"} BY <3>1, <3>3
      <4>5. QED BY <2>1, <4>3, <4>4, RowIsKept
    <3>4. QED BY <3>2, <3>3
  <2>6. ASSUME NEW p \in Procs,
               \/ \E ms \in [PlanNodes -> Materials] : SqliteSavePlan(p, ms)
               \/ \E k \in PlanNodes : MongoWriteNode(p, k)
        PROVE  NotReplayed(n)
    BY <2>1, <2>6, SaveDoesNotReplay
  <2>7. ASSUME NEW p \in Procs,
               \/ \E ms \in [PlanNodes -> Materials] : MongoReadNodes(p, ms)
               \/ MongoReplacePlan(p)
               \/ \E k \in PlanNodes : MongoInsertFails(p, k)
               \/ \E i \in Ids, d \in Payloads :
                     \/ \E f \in Findings \cup {Missing} : CreateFile(p, i, d, f)
                     \/ AcceptExisting(p, i, d)
               \/ WriteFile(p) \/ Unlink(p) \/ Protect(p) \/ InsertEvidence(p) \/ LinkEvidence(p)
               \/ Dies(p)
        PROVE  NotReplayed(n)
    <3>1. row' = row
      BY <2>7 DEF MongoReadNodes, MongoReplacePlan, MongoInsertFails, CreateFile, AcceptExisting,
                  WriteFile, Unlink, Protect, InsertEvidence, LinkEvidence, Dies, planVars
    <3>2. QED BY <2>2, <3>1
  <2>8. QED BY <2>3, <2>4, <2>5, <2>6, <2>7 DEF StoreNext
<1>2. (\A n \in PlanNodes : NotReplayed(n)) <=>
         \A n \in PlanNodes : row[n] # Missing =>
            /\ row'[n] # Missing /\ row'[n].attempts >= row[n].attempts
            /\ /\ row[n].status \in {"running", "success", "needs_review"}
               /\ row'[n].status = "pending" /\ row'[n].material = row[n].material
               => \E p \in Procs : WritesBackStale(p, n)
  BY DEF NotReplayed
<1>3. QED BY <1>1, <1>2, StoreInvariantHolds, PTL DEF StoreSpec, StartedIsNotReplayed
-----------------------------------------------------------------------------
(* A project's memory. *)

\* A table of which rows were only deleted, and to which only rows were added
\* that are late where their project is doomed.
Later(old, new, dead) ==
    /\ Len(old) <= Len(new)
    /\ \A i \in 1..Len(new) : new[i] # Absent =>
          \/ /\ i \in 1..Len(old) /\ old[i] # Absent
             /\ new[i].owner = old[i].owner /\ new[i].late = old[i].late
          \/ i \notin 1..Len(old) /\ (new[i].owner \in dead => new[i].late)

\* Artifacts that are as they were, deleted, or of a later version.
Dated(old, new) ==
    \A i \in 1..Len(old) : new[i] # Absent =>
        old[i] # Absent /\ (new[i] = old[i] \/ VersionOf(new[i]) > VersionOf(old[i]))

\* Acknowledged revisions stay.
Grown(old, new) ==
    /\ Len(old) <= Len(new)
    /\ \A i \in 1..Len(old) :
          /\ Len(old[i]) <= Len(new[i])
          /\ \A k \in 1..Len(old[i]) : new[i][k] = old[i][k]

LEMMA LaterKeepsGone ==
    ASSUME NEW old, NEW new, NEW dead, NEW p \in dead, Len(old) \in Nat, Len(new) \in Nat,
           Later(old, new, dead), GoneFrom(old, p)
    PROVE  GoneFrom(new, p)
  BY DEF Later, GoneFrom

LEMMA VersionIsNat ==
    ASSUME NEW r \in Artifact
    PROVE  VersionOf(r) \in Nat \ {0}
  BY DEF Artifact, VersionOf

\* What a client goes by holds on when others change the tables.
LEMMA OthersKeepFit ==
    ASSUME TablesTypeOK, TablesTypeOK', NEW u \in ClientStates,
           ClientFits(u, arts, edges, nodes, doomed, written),
           Later(arts, arts', doomed), Later(nodes, nodes', doomed), Later(edges, edges', doomed),
           Dated(arts, arts'), Grown(written, written'), doomed \subseteq doomed'
    PROVE  ClientFits(u, arts', edges', nodes', doomed', written')
<1>1. /\ Len(arts) \in Nat /\ Len(arts') \in Nat /\ Len(nodes) \in Nat /\ Len(nodes') \in Nat
      /\ Len(edges) \in Nat /\ Len(edges') \in Nat /\ Len(written) \in Nat /\ Len(written') \in Nat
  BY LenProperties DEF TablesTypeOK
<1>2. OwnEdit(u, arts')
  <2>1. OwnEdit(u, arts) /\ Len(arts) <= Len(arts') BY DEF ClientFits, Later
  <2>2. u.pc \in {"edit", "forget"} => u.id \in 1..Len(arts') BY <1>1, <2>1 DEF OwnEdit
  <2>3. ASSUME u.pc = "edit", arts'[u.id] # Absent
        PROVE  /\ VersionOf(u.row) <= VersionOf(arts'[u.id])
               /\ VersionOf(u.row) = VersionOf(arts'[u.id]) =>
                     /\ u.row.owner = arts'[u.id].owner /\ u.row.value = arts'[u.id].value
                     /\ u.row.history = arts'[u.id].history
    <3>1. u.id \in 1..Len(arts) /\ u.row \in Artifact BY <2>1, <2>3 DEF OwnEdit
    <3>2. /\ arts[u.id] # Absent
          /\ arts'[u.id] = arts[u.id] \/ VersionOf(arts'[u.id]) > VersionOf(arts[u.id])
      BY <2>3, <3>1 DEF Dated
    <3>3. /\ VersionOf(u.row) <= VersionOf(arts[u.id])
          /\ VersionOf(u.row) = VersionOf(arts[u.id]) =>
                /\ u.row.owner = arts[u.id].owner /\ u.row.value = arts[u.id].value
                /\ u.row.history = arts[u.id].history
      BY <2>1, <2>3, <3>2 DEF OwnEdit
    <3>4. arts[u.id] \in Artifact
      <4>1. arts[u.id] \in Artifact \cup {Absent} BY <3>1, ElementOfSeq DEF TablesTypeOK
      <4>2. QED BY <3>2, <4>1
    <3>5. arts'[u.id] \in Artifact
      <4>1. u.id \in 1..Len(arts') BY <2>2, <2>3
      <4>2. arts'[u.id] \in Artifact \cup {Absent} BY <4>1, ElementOfSeq DEF TablesTypeOK
      <4>3. QED BY <2>3, <4>2
    <3>6. VersionOf(u.row) \in Nat /\ VersionOf(arts[u.id]) \in Nat /\ VersionOf(arts'[u.id]) \in Nat
      BY <3>1, <3>4, <3>5, VersionIsNat
    <3>7. CASE arts'[u.id] = arts[u.id] BY <3>3, <3>7
    <3>8. CASE VersionOf(arts'[u.id]) > VersionOf(arts[u.id]) BY <3>3, <3>6, <3>8
    <3>9. QED BY <3>2, <3>7, <3>8
  <2>4. QED BY <2>1, <2>2, <2>3 DEF OwnEdit
<1>3. OwnView(u, written')
  <2> SUFFICES ASSUME NEW x \in u.out
               PROVE  /\ x.owner = u.owner /\ x.id \in 1..Len(written')
                      /\ x.of <= Len(written'[x.id])
                      /\ \A k \in 1..x.of : ~ written'[x.id][k].sensitive
    BY DEF OwnView
  <2>1. /\ x.owner = u.owner /\ x.id \in 1..Len(written) /\ x.of <= Len(written[x.id])
        /\ \A k \in 1..x.of : ~ written[x.id][k].sensitive
    BY DEF ClientFits, OwnView
  <2>2. x.of \in Nat BY DEF ClientStates, Showing
  <2>3. x.id \in 1..Len(written') BY <1>1, <2>1 DEF Grown
  <2>4. Len(written[x.id]) \in Nat /\ Len(written'[x.id]) \in Nat
    <3>1. written[x.id] \in Seq(Value) BY <2>1, ElementOfSeq DEF TablesTypeOK
    <3>2. written'[x.id] \in Seq(Value) BY <2>3, ElementOfSeq DEF TablesTypeOK
    <3>3. QED BY <3>1, <3>2, LenProperties
  <2>5. /\ Len(written[x.id]) <= Len(written'[x.id])
        /\ \A k \in 1..Len(written[x.id]) : written'[x.id][k] = written[x.id][k]
    BY <2>1 DEF Grown
  <2>6. \A k \in 1..x.of : k \in 1..Len(written[x.id]) BY <2>1, <2>2, <2>4
  <2>7. \A k \in 1..x.of : ~ written'[x.id][k].sensitive BY <2>1, <2>5, <2>6
  <2>8. x.of <= Len(written'[x.id]) BY <2>1, <2>2, <2>4, <2>5
  <2>9. QED BY <2>1, <2>3, <2>7, <2>8
<1>4. OwnDeletion(u, arts', edges', nodes', doomed')
  <2> SUFFICES ASSUME u.pc = "drop"
               PROVE  /\ u.owner \in doomed' /\ u.id \in 1..5
                      /\ u.id >= 2 => GoneFrom(arts', u.owner)
                      /\ u.id >= 3 => GoneFrom(edges', u.owner)
                      /\ u.id >= 4 => GoneFrom(nodes', u.owner)
    BY DEF OwnDeletion
  <2>1. /\ u.owner \in doomed /\ u.id \in 1..5
        /\ u.id >= 2 => GoneFrom(arts, u.owner)
        /\ u.id >= 3 => GoneFrom(edges, u.owner)
        /\ u.id >= 4 => GoneFrom(nodes, u.owner)
    BY DEF ClientFits, OwnDeletion
  <2>2. GoneFrom(arts, u.owner) => GoneFrom(arts', u.owner) BY <1>1, <2>1, LaterKeepsGone
  <2>3. GoneFrom(edges, u.owner) => GoneFrom(edges', u.owner) BY <1>1, <2>1, LaterKeepsGone
  <2>4. GoneFrom(nodes, u.owner) => GoneFrom(nodes', u.owner) BY <1>1, <2>1, LaterKeepsGone
  <2>5. QED BY <2>1, <2>2, <2>3, <2>4
<1>5. QED BY <1>2, <1>3, <1>4 DEF ClientFits

\* Tables that did not change.
LEMMA SameTable ==
    ASSUME NEW table, NEW S, table \in Seq(S), NEW dead
    PROVE  Later(table, table, dead)
<1>1. Len(table) \in Nat BY LenProperties
<1>2. QED BY <1>1 DEF Later

LEMMA SameArtifacts ==
    ASSUME TablesTypeOK
    PROVE  Dated(arts, arts) /\ Grown(written, written)
<1>1. Len(arts) \in Nat /\ Len(written) \in Nat BY LenProperties DEF TablesTypeOK
<1>2. \A i \in 1..Len(written) : Len(written[i]) \in Nat
  <2> SUFFICES ASSUME NEW i \in 1..Len(written) PROVE Len(written[i]) \in Nat OBVIOUS
  <2>1. written[i] \in Seq(Value) BY ElementOfSeq DEF TablesTypeOK
  <2>2. QED BY <2>1, LenProperties
<1>3. QED BY <1>1, <1>2 DEF Dated, Grown

\* A client takes a step: it fits the new tables, and the others still do.
LEMMA ClientStep ==
    ASSUME MemoryTypeOK, ClientsFit, TablesTypeOK', NEW c \in Clients, NEW u \in ClientStates,
           cl' = [cl EXCEPT ![c] = u],
           ClientFits(u, arts', edges', nodes', doomed', written'),
           Later(arts, arts', doomed), Later(nodes, nodes', doomed), Later(edges, edges', doomed),
           Dated(arts, arts'), Grown(written, written'), doomed \subseteq doomed'
    PROVE  MemoryTypeOK' /\ ClientsFit'
<1>1. cl \in [Clients -> ClientStates] BY DEF MemoryTypeOK
<1>2. /\ cl' \in [Clients -> ClientStates] /\ cl'[c] = u
      /\ \A d \in Clients : d # c => cl'[d] = cl[d]
  BY <1>1
<1>3. ASSUME NEW d \in Clients
      PROVE  ClientFits(cl'[d], arts', edges', nodes', doomed', written')
  <2>1. CASE d = c BY <1>2, <2>1
  <2>2. CASE d # c
    <3>1. ClientFits(cl[d], arts, edges, nodes, doomed, written) BY DEF ClientsFit
    <3>2. cl[d] \in ClientStates BY <1>1
    <3>3. ClientFits(cl[d], arts', edges', nodes', doomed', written')
      BY <3>1, <3>2, OthersKeepFit DEF MemoryTypeOK
    <3>4. QED BY <1>2, <2>2, <3>3
  <2>3. QED BY <2>1, <2>2
<1>4. QED BY <1>2, <1>3 DEF MemoryTypeOK, ClientsFit

\* A table some of whose rows were deleted.
Pruned(old, new) ==
    Len(new) = Len(old) /\ \A i \in 1..Len(old) : new[i] = old[i] \/ new[i] = Absent

LEMMA PrunedIsLater ==
    ASSUME NEW S, NEW old \in Seq(S), NEW new, Pruned(old, new), NEW dead
    PROVE  Later(old, new, dead)
<1>1. Len(old) \in Nat BY LenProperties
<1>2. QED BY <1>1 DEF Pruned, Later

\* A row that was added, late where its project is doomed.
LEMMA AddedIsLater ==
    ASSUME NEW S, NEW old \in Seq(S), NEW r \in S, NEW dead, r.owner \in dead => r.late
    PROVE  Later(old, Append(old, r), dead)
<1>1. /\ Len(old) \in Nat /\ Len(Append(old, r)) = Len(old) + 1
      /\ \A i \in 1..Len(old) : Append(old, r)[i] = old[i]
      /\ Append(old, r)[Len(old) + 1] = r
  BY LenProperties, AppendProperties
<1>2. \A i \in 1..Len(old) + 1 : i \in 1..Len(old) \/ i = Len(old) + 1 BY <1>1
<1>3. QED BY <1>1, <1>2 DEF Later

\* The artifacts hold what was acknowledged, when some were deleted.
LEMMA FewerArtifactsFit ==
    ASSUME TablesTypeOK, NoRevisionLost, SensitiveStays, Pruned(arts, arts'), written' = written
    PROVE  /\ NoRevisionLost' /\ SensitiveStays' /\ Dated(arts, arts')
           /\ Later(arts, arts', doomed) /\ Grown(written, written')
<1>1. Later(arts, arts', doomed) BY PrunedIsLater DEF TablesTypeOK
<1>2. Dated(arts, arts') BY DEF Pruned, Dated
<1>3. NoRevisionLost' /\ SensitiveStays' BY DEF Pruned, NoRevisionLost, SensitiveStays
<1>4. QED BY <1>1, <1>2, <1>3, SameArtifacts

LEMMA SameIsPruned ==
    ASSUME NEW old, NEW new, new = old
    PROVE  Pruned(old, new)
  BY DEF Pruned

\* A project that is gone stays so; one that goes has left nothing behind.
LEMMA GoneStaysGone ==
    ASSUME TablesTypeOK, TablesTypeOK', DeletedIsGone, DeletionIsMarked, doomed \subseteq doomed',
           Later(arts, arts', doomed), Later(nodes, nodes', doomed), Later(edges, edges', doomed),
           \A p \in projects \ projects' :
              /\ p \in doomed /\ GoneFrom(arts', p)
              /\ GoneFrom(nodes', p) /\ GoneFrom(edges', p)
    PROVE  DeletedIsGone' /\ Projects \ projects' \subseteq doomed'
<1>1. /\ Len(arts) \in Nat /\ Len(arts') \in Nat /\ Len(nodes) \in Nat /\ Len(nodes') \in Nat
      /\ Len(edges) \in Nat /\ Len(edges') \in Nat
  BY LenProperties DEF TablesTypeOK
<1>2. ASSUME NEW p \in Projects \ projects'
      PROVE  p \in doomed /\ GoneFrom(arts', p) /\ GoneFrom(nodes', p) /\ GoneFrom(edges', p)
  <2>1. CASE p \in projects BY <2>1
  <2>2. CASE p \notin projects
    <3>1. p \in doomed BY <2>2 DEF DeletionIsMarked
    <3>2. GoneFrom(arts, p) /\ GoneFrom(nodes, p) /\ GoneFrom(edges, p)
      BY <2>2 DEF DeletedIsGone, GoneFrom
    <3>3. GoneFrom(arts', p) BY <1>1, <3>1, <3>2, LaterKeepsGone
    <3>4. GoneFrom(nodes', p) BY <1>1, <3>1, <3>2, LaterKeepsGone
    <3>5. GoneFrom(edges', p) BY <1>1, <3>1, <3>2, LaterKeepsGone
    <3>6. QED BY <3>1, <3>3, <3>4, <3>5
  <2>3. QED BY <2>1, <2>2
<1>3. DeletedIsGone' BY <1>2 DEF DeletedIsGone, GoneFrom
<1>4. QED BY <1>2, <1>3

\* The nodes are as they were: the edges that are left keep their ends.
LEMMA SameNodesSameEnds ==
    ASSUME TablesTypeOK, DeletionIsMarked, EdgesHaveEnds, Pruned(edges, edges'), nodes' = nodes,
           doomed \subseteq doomed', backend' = backend
    PROVE  /\ EdgesHaveEnds' /\ ((\E n \in 1..Len(nodes') : nodes'[n] = Absent) => doomed' # {})
           /\ \A e \in 1..Len(edges') : edges'[e] # Absent =>
                 edges'[e].from \in 1..Len(nodes') /\ edges'[e].to \in 1..Len(nodes')
<1>1. \A e \in 1..Len(edges') : edges'[e] # Absent => e \in 1..Len(edges) /\ edges'[e] = edges[e]
  BY DEF Pruned
<1>2. EdgesHaveEnds' BY <1>1 DEF EdgesHaveEnds
<1>3. QED BY <1>1, <1>2 DEF DeletionIsMarked

\* What a step on the tables owes to the clients that do not take it.
TablesFollow ==
    /\ TablesTypeOK' /\ RowsInv' /\ doomed \subseteq doomed'
    /\ Later(arts, arts', doomed) /\ Later(nodes, nodes', doomed) /\ Later(edges, edges', doomed)
    /\ Dated(arts, arts') /\ Grown(written, written')

LEMMA TablesStep ==
    ASSUME MemoryInv, TablesFollow, NEW c \in Clients, NEW u \in ClientStates,
           cl' = [cl EXCEPT ![c] = u],
           ClientFits(u, arts', edges', nodes', doomed', written')
    PROVE  MemoryInv'
  BY ClientStep DEF MemoryInv, TablesFollow

LEMMA IdleClientStep ==
    ASSUME MemoryInv, TablesFollow, cl' = cl
    PROVE  MemoryInv'
<1>1. cl \in [Clients -> ClientStates] BY DEF MemoryInv, MemoryTypeOK
<1>2. ASSUME NEW d \in Clients
      PROVE  ClientFits(cl'[d], arts', edges', nodes', doomed', written')
  <2>1. ClientFits(cl[d], arts, edges, nodes, doomed, written) BY DEF MemoryInv, ClientsFit
  <2>2. cl[d] \in ClientStates BY <1>1
  <2>3. ClientFits(cl[d], arts', edges', nodes', doomed', written')
    BY <2>1, <2>2, OthersKeepFit DEF MemoryInv, MemoryTypeOK, TablesFollow
  <2>4. QED BY <2>3
<1>3. QED BY <1>1, <1>2 DEF MemoryInv, MemoryTypeOK, ClientsFit, TablesFollow

\* The tables are as they were.
LEMMA TablesAtRest ==
    ASSUME MemoryInv, UNCHANGED <<projects, arts, nodes, edges, doomed, written>>,
           backend' = backend, work' \in Nat
    PROVE  TablesFollow
<1>1. TablesTypeOK BY DEF MemoryInv, MemoryTypeOK
<1>2. Later(arts, arts, doomed) /\ Later(nodes, nodes, doomed) /\ Later(edges, edges, doomed)
  BY <1>1, SameTable DEF TablesTypeOK
<1>3. Dated(arts, arts) /\ Grown(written, written) BY <1>1, SameArtifacts
<1>4. TablesTypeOK' BY <1>1 DEF TablesTypeOK
<1>5. RowsInv'
  BY DEF MemoryInv, RowsInv, NoRevisionLost, SensitiveStays, DeletionIsMarked, DeletionIsClean,
         DeletedIsGone, EdgesHaveEnds
<1>6. QED BY <1>2, <1>3, <1>4, <1>5 DEF TablesFollow

LEMMA ArtifactAdded ==
    ASSUME MemoryInv, NEW o \in Owners, NEW v \in Value,
           arts' = Append(arts, NewArtifact(o, v, 1)), written' = Append(written, <<v>>),
           UNCHANGED <<projects, nodes, edges, doomed>>, backend' = backend, work' \in Nat
    PROVE  TablesFollow
<1> DEFINE r == NewArtifact(o, v, 1)
<1>1. TablesTypeOK BY DEF MemoryInv, MemoryTypeOK
<1>2. /\ r \in Artifact /\ r.owner = o /\ r.value = v /\ r.version = 1 /\ r.history = <<>>
      /\ r.late = (o \in doomed)
  <2>1. <<>> \in Seq(Value) BY EmptySeq
  <2>2. QED BY <2>1 DEF NewArtifact, Artifact
<1>3. r # Absent BY <1>2, MemoryAssumption
<1> HIDE DEF r
<1>4. arts \in Seq(Artifact \cup {Absent}) /\ r \in Artifact \cup {Absent} BY <1>1, <1>2 DEF TablesTypeOK
<1>5. /\ arts' \in Seq(Artifact \cup {Absent}) /\ Len(arts) \in Nat /\ Len(arts') = Len(arts) + 1
      /\ \A i \in 1..Len(arts) : arts'[i] = arts[i]
      /\ arts'[Len(arts) + 1] = r
  BY <1>4, LenProperties, AppendProperties DEF r
<1>6. <<v>> \in Seq(Value) /\ Len(<<v>>) = 1 /\ <<v>>[1] = v OBVIOUS
<1>7. /\ written' \in Seq(Seq(Value)) /\ Len(written) = Len(arts) /\ Len(written') = Len(arts) + 1
      /\ \A i \in 1..Len(arts) : written'[i] = written[i]
      /\ written'[Len(arts) + 1] = <<v>>
  BY <1>1, <1>6, LenProperties, AppendProperties DEF TablesTypeOK
<1>8. TablesTypeOK' BY <1>1, <1>5, <1>7 DEF TablesTypeOK
<1>9. Later(arts, arts', doomed) BY <1>2, <1>4, AddedIsLater DEF r
<1>10. Later(nodes, nodes', doomed) /\ Later(edges, edges', doomed)
  BY <1>1, SameTable DEF TablesTypeOK
<1>11. Dated(arts, arts') BY <1>5 DEF Dated
<1>12. Grown(written, written')
  <2>1. \A i \in 1..Len(written) : Len(written[i]) \in Nat
    <3> SUFFICES ASSUME NEW i \in 1..Len(written) PROVE Len(written[i]) \in Nat OBVIOUS
    <3>1. written[i] \in Seq(Value) BY <1>1, ElementOfSeq DEF TablesTypeOK
    <3>2. QED BY <3>1, LenProperties
  <2>2. QED BY <1>5, <1>7, <2>1 DEF Grown
<1>13. \A i \in 1..Len(arts') : i \in 1..Len(arts) \/ i = Len(arts) + 1 BY <1>5
<1>14. NoRevisionLost'
  <2>1. Append(r.history, r.value) = <<v>> BY <1>2
  <2>2. VersionOf(r) = Len(<<v>>) BY <1>2, <1>6 DEF VersionOf
  <2>3. \A i \in 1..Len(arts) : arts[i] # Absent =>
           Append(arts[i].history, arts[i].value) = written[i] /\ VersionOf(arts[i]) = Len(written[i])
    BY DEF MemoryInv, RowsInv, NoRevisionLost
  <2>4. QED BY <1>5, <1>7, <1>13, <2>1, <2>2, <2>3 DEF NoRevisionLost
<1>15. SensitiveStays'
  <2>1. \A k \in 1..Len(<<v>>) : <<v>>[k].sensitive => r.value.sensitive BY <1>2, <1>6
  <2>2. QED BY <1>5, <1>7, <1>13, <2>1 DEF MemoryInv, RowsInv, SensitiveStays
<1>16. DeletedIsGone' /\ Projects \ projects' \subseteq doomed'
  BY <1>1, <1>8, <1>9, <1>10, GoneStaysGone DEF MemoryInv, RowsInv, DeletionIsClean
<1>17. DeletionIsMarked' /\ EdgesHaveEnds'
  BY <1>16 DEF MemoryInv, RowsInv, DeletionIsMarked, DeletionIsClean, EdgesHaveEnds
<1>18. QED
  BY <1>8, <1>9, <1>10, <1>11, <1>12, <1>14, <1>15, <1>16, <1>17 DEF TablesFollow, RowsInv, DeletionIsClean

LEMMA RevisionFields ==
    ASSUME NEW q \in Artifact, NEW v \in Value, NEW p \in Artifact
    PROVE  LET r == [Revision(q, v) EXCEPT !.late = p.late] IN
           /\ r \in Artifact /\ r.owner = q.owner /\ r.value = v
           /\ r.history = Append(q.history, q.value)
           /\ r.version = VersionOf(q) + 1 /\ r.late = p.late
<1> DEFINE n == VersionOf(q) + 1
           h == Append(q.history, q.value)
           r == [owner |-> q.owner, value |-> v, version |-> n, history |-> h, late |-> p.late]
<1>1. h \in Seq(Value) /\ q.owner \in Owners
  BY AppendProperties DEF Artifact
<1>2. n \in Nat BY VersionIsNat
<1>3. Revision(q, v) = [q EXCEPT !.value = v, !.version = n, !.history = h] BY DEF Revision
<1> HIDE DEF n, h
<1>4. Revision(q, v) =
         [owner |-> q.owner, value |-> v, version |-> n, history |-> h, late |-> q.late]
  BY <1>3 DEF Artifact
<1>5. [Revision(q, v) EXCEPT !.late = p.late] = r
  BY <1>4
<1>6. r \in Artifact BY <1>1, <1>2 DEF Artifact
<1>7. /\ r.owner = q.owner /\ r.value = v /\ r.history = h /\ r.version = n
      /\ r.late = p.late
  OBVIOUS
<1> HIDE DEF r
<1>8. QED BY <1>5, <1>6, <1>7 DEF h, n

\* The artifact as its writer last saw it, with the value it writes.
LEMMA ArtifactRevised ==
    ASSUME MemoryInv, NEW c \in Clients, cl[c].pc = "edit", StillExpected(c),
           arts' = [arts EXCEPT ![cl[c].id] =
              [Revision(cl[c].row, cl[c].value) EXCEPT !.late = arts[cl[c].id].late]],
           written' = [written EXCEPT ![cl[c].id] = Append(@, cl[c].value)],
           UNCHANGED <<projects, nodes, edges, doomed>>, backend' = backend, work' \in Nat
    PROVE  TablesFollow
<1> DEFINE id == cl[c].id
           old == arts[id]
           v == cl[c].value
           r == [Revision(cl[c].row, v) EXCEPT !.late = old.late]
<1>1. TablesTypeOK BY DEF MemoryInv, MemoryTypeOK
<1>2. OwnEdit(cl[c], arts) BY DEF MemoryInv, ClientsFit, ClientFits
<1>3. id \in 1..Len(arts) /\ cl[c].row \in Artifact /\ v \in Value BY <1>2 DEF OwnEdit
<1>4. old # Absent /\ VersionOf(old) = VersionOf(cl[c].row) BY DEF StillExpected
<1>5. old \in Artifact
  <2>1. old \in Artifact \cup {Absent} BY <1>1, <1>3, ElementOfSeq DEF TablesTypeOK
  <2>2. QED BY <1>4, <2>1
<1>6. /\ cl[c].row.owner = old.owner /\ cl[c].row.value = old.value
      /\ cl[c].row.history = old.history
  BY <1>2, <1>4 DEF OwnEdit
<1>7. VersionOf(old) \in Nat \ {0} BY <1>5, VersionIsNat
<1>8. /\ r.owner = old.owner /\ r.value = v /\ r.history = Append(old.history, old.value)
      /\ r.version = VersionOf(old) + 1 /\ r.late = old.late /\ r \in Artifact
  <2> DEFINE q == cl[c].row
  <2>1. q.owner = old.owner /\ q.value = old.value /\ q.history = old.history
    BY <1>6
  <2>2. VersionOf(old) = VersionOf(q) BY <1>4
  <2>3. q \in Artifact /\ v \in Value /\ old \in Artifact BY <1>3, <1>5
  <2>4. r = [Revision(q, v) EXCEPT !.late = old.late] OBVIOUS
  <2> HIDE DEF q, v, old, r
  <2>5. LET e == [Revision(q, v) EXCEPT !.late = old.late] IN
        /\ e \in Artifact /\ e.owner = q.owner /\ e.value = v
        /\ e.history = Append(q.history, q.value)
        /\ e.version = VersionOf(q) + 1 /\ e.late = old.late
    BY ONLY <2>3, RevisionFields
  <2>6. QED BY <2>1, <2>2, <2>4, <2>5
<1>9. r # Absent BY <1>8, MemoryAssumption
<1>10. arts' = [arts EXCEPT ![id] = r] OBVIOUS
<1>11. written[id] \in Seq(Value) /\ id \in 1..Len(written) BY <1>1, <1>3, ElementOfSeq DEF TablesTypeOK
<1>12. written' = [written EXCEPT ![id] = Append(written[id], v)] OBVIOUS
<1> HIDE DEF r, v, old, id
<1>13. arts \in Seq(Artifact \cup {Absent}) BY <1>1 DEF TablesTypeOK
<1>14. /\ arts' \in Seq(Artifact \cup {Absent}) /\ Len(arts') = Len(arts)
       /\ \A i \in 1..Len(arts) : arts'[i] = IF i = id THEN r ELSE arts[i]
  <2>1. r \in Artifact \cup {Absent} BY <1>8
  <2>2. /\ [arts EXCEPT ![id] = r] \in Seq(Artifact \cup {Absent})
        /\ Len([arts EXCEPT ![id] = r]) = Len(arts)
        /\ \A i \in 1..Len(arts) : [arts EXCEPT ![id] = r][i] = IF i = id THEN r ELSE arts[i]
    BY <1>3, <1>13, <2>1, ExceptSeq DEF id
  <2>3. QED BY <1>10, <2>2
<1>15. /\ Append(written[id], v) \in Seq(Value) /\ Len(written[id]) \in Nat
       /\ Len(Append(written[id], v)) = Len(written[id]) + 1
       /\ \A k \in 1..Len(written[id]) : Append(written[id], v)[k] = written[id][k]
       /\ Append(written[id], v)[Len(written[id]) + 1] = v
  BY <1>3, <1>11, LenProperties, AppendProperties
<1>16. /\ written' \in Seq(Seq(Value)) /\ Len(written') = Len(written)
       /\ \A i \in 1..Len(written) :
             written'[i] = IF i = id THEN Append(written[id], v) ELSE written[i]
  <2>1. written \in Seq(Seq(Value)) BY <1>1 DEF TablesTypeOK
  <2>2. QED BY <1>11, <1>12, <1>15, <2>1, ExceptSeq, SMTT(40)
<1>17. Len(written) = Len(arts) /\ Len(arts) \in Nat BY <1>1, LenProperties DEF TablesTypeOK
<1>18. TablesTypeOK' BY <1>1, <1>14, <1>16, <1>17 DEF TablesTypeOK
<1>19. Later(arts, arts', doomed)
  <2> SUFFICES ASSUME NEW i \in 1..Len(arts'), arts'[i] # Absent
               PROVE  /\ i \in 1..Len(arts) /\ arts[i] # Absent
                      /\ arts'[i].owner = arts[i].owner /\ arts'[i].late = arts[i].late
    BY <1>14, <1>17 DEF Later
  <2>1. CASE i = id BY <1>4, <1>8, <1>14, <2>1 DEF old
  <2>2. CASE i # id BY <1>14, <2>2
  <2>3. QED BY <2>1, <2>2
<1>20. Later(nodes, nodes', doomed) /\ Later(edges, edges', doomed)
  BY <1>1, SameTable DEF TablesTypeOK
<1>21. VersionOf(r) = VersionOf(old) + 1 BY <1>7, <1>8 DEF VersionOf
<1>22. Dated(arts, arts')
  <2> SUFFICES ASSUME NEW i \in 1..Len(arts), arts'[i] # Absent
               PROVE  /\ arts[i] # Absent
                      /\ arts'[i] = arts[i] \/ VersionOf(arts'[i]) > VersionOf(arts[i])
    BY DEF Dated
  <2>1. CASE i = id
    <3>1. arts[i] = old /\ arts'[i] = r BY <1>14, <2>1 DEF old
    <3>2. VersionOf(r) > VersionOf(old) BY <1>7, <1>21
    <3>3. QED BY <1>4, <3>1, <3>2
  <2>2. CASE i # id BY <1>14, <2>2
  <2>3. QED BY <2>1, <2>2
<1>23. Grown(written, written')
  <2>1. \A i \in 1..Len(written) : Len(written[i]) \in Nat
    <3> SUFFICES ASSUME NEW i \in 1..Len(written) PROVE Len(written[i]) \in Nat OBVIOUS
    <3>1. written[i] \in Seq(Value) BY <1>1, ElementOfSeq DEF TablesTypeOK
    <3>2. QED BY <3>1, LenProperties
  <2>2. \A i \in 1..Len(written) :
           /\ Len(written[i]) <= Len(written'[i])
           /\ \A k \in 1..Len(written[i]) : written'[i][k] = written[i][k]
    BY <1>15, <1>16, <2>1
  <2>3. QED BY <1>16, <1>17, <2>2 DEF Grown
<1>24. /\ Append(old.history, old.value) = written[id] /\ VersionOf(old) = Len(written[id])
       /\ \A k \in 1..Len(written[id]) : written[id][k].sensitive => old.value.sensitive
  BY <1>3, <1>4 DEF old, MemoryInv, RowsInv, NoRevisionLost, SensitiveStays
<1>25. old.value.sensitive => v.sensitive BY <1>2, <1>6 DEF OwnEdit, v
<1>26. NoRevisionLost'
  <2>1. /\ Append(r.history, r.value) = Append(written[id], v)
        /\ VersionOf(r) = Len(Append(written[id], v))
    BY <1>8, <1>15, <1>21, <1>24
  <2> SUFFICES ASSUME NEW i \in 1..Len(arts), arts'[i] # Absent
               PROVE  /\ Append(arts'[i].history, arts'[i].value) = written'[i]
                      /\ VersionOf(arts'[i]) = Len(written'[i])
    BY <1>14 DEF NoRevisionLost
  <2>2. CASE i = id BY <1>14, <1>16, <1>17, <2>1, <2>2
  <2>3. CASE i # id BY <1>14, <1>16, <1>17, <2>3 DEF MemoryInv, RowsInv, NoRevisionLost
  <2>4. QED BY <2>2, <2>3
<1>27. SensitiveStays'
  <2> SUFFICES ASSUME NEW i \in 1..Len(arts), arts'[i] # Absent, NEW k \in 1..Len(written'[i]),
                      written'[i][k].sensitive
               PROVE  arts'[i].value.sensitive
    BY <1>14 DEF SensitiveStays
  <2>1. CASE i = id
    <3>1. arts'[i] = r /\ written'[i] = Append(written[id], v) BY <1>14, <1>16, <1>17, <2>1
    <3>2. k \in 1..Len(written[id]) \/ k = Len(written[id]) + 1 BY <1>15, <3>1, SMTT(40)
    <3>3. CASE k \in 1..Len(written[id]) BY <1>8, <1>15, <1>24, <1>25, <3>1, <3>3
    <3>4. CASE k = Len(written[id]) + 1 BY <1>8, <1>15, <3>1, <3>4
    <3>5. QED BY <3>2, <3>3, <3>4
  <2>2. CASE i # id BY <1>14, <1>16, <1>17, <2>2 DEF MemoryInv, RowsInv, SensitiveStays
  <2>3. QED BY <2>1, <2>2
<1>28. DeletedIsGone' /\ Projects \ projects' \subseteq doomed'
  BY <1>1, <1>18, <1>19, <1>20, GoneStaysGone DEF MemoryInv, RowsInv, DeletionIsClean
<1>29. DeletionIsMarked' /\ EdgesHaveEnds'
  BY <1>28 DEF MemoryInv, RowsInv, DeletionIsMarked, DeletionIsClean, EdgesHaveEnds
<1>30. QED
  BY <1>18, <1>19, <1>20, <1>22, <1>23, <1>26, <1>27, <1>28, <1>29
  DEF TablesFollow, RowsInv, DeletionIsClean

\* Rows are deleted, and projects: these have nothing left.
LEMMA RowsDeleted ==
    ASSUME MemoryInv, TablesTypeOK', Pruned(arts, arts'), Pruned(nodes, nodes'), Pruned(edges, edges'),
           UNCHANGED <<doomed, written>>, projects' \subseteq projects,
           \A p \in projects \ projects' :
              /\ p \in doomed /\ GoneFrom(arts', p)
              /\ GoneFrom(nodes', p) /\ GoneFrom(edges', p),
           nodes' # nodes => doomed # {}, EdgesHaveEnds'
    PROVE  TablesFollow
<1>1. TablesTypeOK BY DEF MemoryInv, MemoryTypeOK
<1>2. Later(nodes, nodes', doomed) /\ Later(edges, edges', doomed)
  BY <1>1, PrunedIsLater DEF TablesTypeOK
<1>3. /\ NoRevisionLost' /\ SensitiveStays' /\ Dated(arts, arts')
      /\ Later(arts, arts', doomed) /\ Grown(written, written')
  BY <1>1, FewerArtifactsFit DEF MemoryInv, RowsInv
<1>4. DeletedIsGone' /\ Projects \ projects' \subseteq doomed'
  BY <1>1, <1>2, <1>3, GoneStaysGone DEF MemoryInv, RowsInv, DeletionIsClean
<1>5. DeletionIsMarked'
  <2>1. (\E n \in 1..Len(nodes') : nodes'[n] = Absent) => doomed' # {}
    BY DEF MemoryInv, RowsInv, DeletionIsMarked
  <2>2. \A e \in 1..Len(edges') : edges'[e] # Absent =>
           edges'[e].from \in 1..Len(nodes') /\ edges'[e].to \in 1..Len(nodes')
    BY DEF MemoryInv, RowsInv, DeletionIsMarked, Pruned
  <2>3. QED BY <1>4, <2>1, <2>2 DEF DeletionIsMarked
<1>6. QED BY <1>2, <1>3, <1>4, <1>5 DEF TablesFollow, RowsInv, DeletionIsClean

LEMMA FunctionIsTable ==
    ASSUME NEW T, NEW n \in Nat, NEW f \in [1..n -> T]
    PROVE  f \in Seq(T) /\ Len(f) = n
<1>1. f \in Seq(T) BY SeqDef
<1>2. Len(f) \in Nat /\ DOMAIN f = 1..Len(f) BY <1>1, LenProperties
<1>3. DOMAIN f = 1..n OBVIOUS
<1>4. QED BY <1>1, <1>2, <1>3

\* The rows of a project are deleted.
LEMMA OwnedRowsGo ==
    ASSUME NEW S, NEW old \in Seq(S \cup {Absent}), NEW p, NEW new,
           new = [i \in DOMAIN old |-> IF old[i] # Absent /\ old[i].owner = p THEN Absent ELSE old[i]]
    PROVE  new \in Seq(S \cup {Absent}) /\ Pruned(old, new) /\ GoneFrom(new, p)
<1>1. Len(old) \in Nat /\ DOMAIN old = 1..Len(old) BY LenProperties
<1>2. \A i \in 1..Len(old) : old[i] \in S \cup {Absent} BY ElementOfSeq
<1>3. new \in [1..Len(old) -> S \cup {Absent}] BY <1>1, <1>2
<1>4. new \in Seq(S \cup {Absent}) /\ Len(new) = Len(old) BY <1>1, <1>3, FunctionIsTable
<1>5. \A i \in 1..Len(old) : new[i] = IF old[i] # Absent /\ old[i].owner = p THEN Absent ELSE old[i]
  BY <1>1
<1>6. QED BY <1>4, <1>5 DEF Pruned, GoneFrom

LEMMA PrunedKeepsGone ==
    ASSUME NEW old, NEW new, Pruned(old, new), NEW p, GoneFrom(old, p)
    PROVE  GoneFrom(new, p)
  BY DEF Pruned, GoneFrom

LEMMA CascadeFollows ==
    ASSUME MemoryInv, NEW c \in Clients, CascadeDelete(c)
    PROVE  TablesFollow
<1> DEFINE p == cl[c].owner
<1>1. TablesTypeOK BY DEF MemoryInv, MemoryTypeOK
<1>2. cl[c].pc = "drop" /\ backend' = backend /\ work' = work BY DEF CascadeDelete, Goes
<1>3. p \in doomed BY <1>2 DEF MemoryInv, ClientsFit, ClientFits, OwnDeletion
<1>4. /\ arts' = [i \in DOMAIN arts |->
                     IF arts[i] # Absent /\ arts[i].owner = p THEN Absent ELSE arts[i]]
      /\ nodes' = [i \in DOMAIN nodes |->
                     IF nodes[i] # Absent /\ nodes[i].owner = p THEN Absent ELSE nodes[i]]
  BY DEF CascadeDelete, Without
<1>5. edges' = [i \in DOMAIN edges |->
                   IF /\ edges[i] # Absent
                      /\ \/ edges[i].owner = p
                         \/ nodes'[edges[i].from] = Absent \/ nodes'[edges[i].to] = Absent
                   THEN Absent ELSE edges[i]]
  BY DEF CascadeDelete, Without
<1>6. projects' = projects \ {p} /\ UNCHANGED <<doomed, written>> BY DEF CascadeDelete
<1> HIDE DEF p
<1>7. arts' \in Seq(Artifact \cup {Absent}) /\ Pruned(arts, arts') /\ GoneFrom(arts', p)
  BY <1>1, <1>4, OwnedRowsGo DEF TablesTypeOK
<1>8. nodes' \in Seq(KnowledgeNode \cup {Absent}) /\ Pruned(nodes, nodes') /\ GoneFrom(nodes', p)
  BY <1>1, <1>4, OwnedRowsGo DEF TablesTypeOK
<1>9. /\ edges' \in Seq(KnowledgeEdge \cup {Absent}) /\ Pruned(edges, edges')
      /\ \A i \in 1..Len(edges') : edges'[i] # Absent =>
            /\ edges'[i].owner # p
            /\ nodes'[edges'[i].from] # Absent /\ nodes'[edges'[i].to] # Absent
  <2>1. edges \in Seq(KnowledgeEdge \cup {Absent}) BY <1>1 DEF TablesTypeOK
  <2>2. Len(edges) \in Nat /\ DOMAIN edges = 1..Len(edges) BY <2>1, LenProperties
  <2>3. \A i \in 1..Len(edges) : edges[i] \in KnowledgeEdge \cup {Absent} BY <2>1, ElementOfSeq
  <2>4. \A i \in 1..Len(edges) : edges'[i] =
           IF /\ edges[i] # Absent
              /\ \/ edges[i].owner = p
                 \/ nodes'[edges[i].from] = Absent \/ nodes'[edges[i].to] = Absent
           THEN Absent ELSE edges[i]
    BY <1>5, <2>2
  <2>5. edges' = [i \in 1..Len(edges) |-> edges'[i]] BY <1>5, <2>2
  <2>6. edges' \in [1..Len(edges) -> KnowledgeEdge \cup {Absent}] BY <2>3, <2>4, <2>5
  <2>7. edges' \in Seq(KnowledgeEdge \cup {Absent}) /\ Len(edges') = Len(edges)
    BY <2>2, <2>6, FunctionIsTable
  <2>8. QED BY <2>4, <2>7 DEF Pruned
<1>10. Len(written) = Len(arts) /\ Len(arts') = Len(arts) BY <1>1, <1>7 DEF TablesTypeOK, Pruned
<1>11. TablesTypeOK' BY <1>1, <1>2, <1>6, <1>7, <1>8, <1>9, <1>10 DEF TablesTypeOK
<1>12. EdgesHaveEnds' BY <1>9 DEF EdgesHaveEnds
<1>13. GoneFrom(edges', p) BY <1>9 DEF GoneFrom
<1>14. QED BY <1>3, <1>6, <1>7, <1>8, <1>9, <1>11, <1>12, <1>13, RowsDeleted

LEMMA MongoDeleteFollows ==
    ASSUME MemoryInv, NEW c \in Clients, MongoDelete(c)
    PROVE  /\ TablesFollow
           /\ cl[c].owner \in doomed /\ cl[c].id \in 1..5
           /\ cl[c].id >= 1 => GoneFrom(arts', cl[c].owner)
           /\ cl[c].id >= 2 => GoneFrom(edges', cl[c].owner)
           /\ cl[c].id >= 3 => GoneFrom(nodes', cl[c].owner)
<1> DEFINE p == cl[c].owner
           k == cl[c].id
<1>1. TablesTypeOK BY DEF MemoryInv, MemoryTypeOK
<1>2. cl[c].pc = "drop" /\ backend' = backend /\ work' = work /\ backend = "mongo"
  BY DEF MongoDelete, Goes
<1>3. /\ p \in doomed /\ k \in 1..5
      /\ k >= 2 => GoneFrom(arts, p)
      /\ k >= 3 => GoneFrom(edges, p)
      /\ k >= 4 => GoneFrom(nodes, p)
  BY <1>2 DEF MemoryInv, ClientsFit, ClientFits, OwnDeletion
<1>4. /\ MongoOrder[1] = "artifacts" /\ MongoOrder[2] = "edges" /\ MongoOrder[3] = "nodes"
      /\ MongoOrder[4] = "events" /\ MongoOrder[5] = "row"
  BY DEF MongoOrder
<1>5. /\ arts' = IF MongoOrder[k] = "artifacts"
                 THEN [i \in DOMAIN arts |->
                         IF arts[i] # Absent /\ arts[i].owner = p THEN Absent ELSE arts[i]]
                 ELSE arts
      /\ edges' = IF MongoOrder[k] = "edges"
                  THEN [i \in DOMAIN edges |->
                          IF edges[i] # Absent /\ edges[i].owner = p THEN Absent ELSE edges[i]]
                  ELSE edges
      /\ nodes' = IF MongoOrder[k] = "nodes"
                  THEN [i \in DOMAIN nodes |->
                          IF nodes[i] # Absent /\ nodes[i].owner = p THEN Absent ELSE nodes[i]]
                  ELSE nodes
  BY DEF MongoDelete, Without
<1>6. /\ projects' = IF MongoOrder[k] = "row" THEN projects \ {p} ELSE projects
      /\ UNCHANGED <<doomed, written>>
  BY DEF MongoDelete
<1> HIDE DEF p, k
<1>7. /\ arts' \in Seq(Artifact \cup {Absent}) /\ Pruned(arts, arts')
      /\ k = 1 => GoneFrom(arts', p)
      /\ k # 1 => arts' = arts
  <2>1. arts \in Seq(Artifact \cup {Absent}) BY <1>1 DEF TablesTypeOK
  <2>2. CASE k = 1 BY <1>4, <1>5, <2>1, <2>2, OwnedRowsGo
  <2>3. CASE k # 1
    <3>1. arts' = arts BY <1>3, <1>4, <1>5, <2>3
    <3>2. QED BY <2>1, <2>3, <3>1, SameIsPruned
  <2>4. QED BY <2>2, <2>3
<1>8. /\ edges' \in Seq(KnowledgeEdge \cup {Absent}) /\ Pruned(edges, edges')
      /\ k = 2 => GoneFrom(edges', p)
      /\ k # 2 => edges' = edges
  <2>1. edges \in Seq(KnowledgeEdge \cup {Absent}) BY <1>1 DEF TablesTypeOK
  <2>2. CASE k = 2 BY <1>4, <1>5, <2>1, <2>2, OwnedRowsGo
  <2>3. CASE k # 2
    <3>1. edges' = edges BY <1>3, <1>4, <1>5, <2>3
    <3>2. QED BY <2>1, <2>3, <3>1, SameIsPruned
  <2>4. QED BY <2>2, <2>3
<1>9. /\ nodes' \in Seq(KnowledgeNode \cup {Absent}) /\ Pruned(nodes, nodes')
      /\ k = 3 => GoneFrom(nodes', p)
      /\ k # 3 => nodes' = nodes
  <2>1. nodes \in Seq(KnowledgeNode \cup {Absent}) BY <1>1 DEF TablesTypeOK
  <2>2. CASE k = 3 BY <1>4, <1>5, <2>1, <2>2, OwnedRowsGo
  <2>3. CASE k # 3
    <3>1. nodes' = nodes BY <1>3, <1>4, <1>5, <2>3
    <3>2. QED BY <2>1, <2>3, <3>1, SameIsPruned
  <2>4. QED BY <2>2, <2>3
<1>10. /\ k >= 1 => GoneFrom(arts', p)
       /\ k >= 2 => GoneFrom(edges', p)
       /\ k >= 3 => GoneFrom(nodes', p)
  <2>1. k \in {1, 2, 3, 4, 5} BY <1>3
  <2>2. GoneFrom(arts, p) => GoneFrom(arts', p) BY <1>7, PrunedKeepsGone
  <2>3. GoneFrom(edges, p) => GoneFrom(edges', p) BY <1>8, PrunedKeepsGone
  <2>4. GoneFrom(nodes, p) => GoneFrom(nodes', p) BY <1>9, PrunedKeepsGone
  <2>5. QED BY <1>3, <1>7, <1>8, <1>9, <2>1, <2>2, <2>3, <2>4
<1>11. projects' \subseteq projects /\ (projects' # projects => k = 5 /\ projects' = projects \ {p})
  BY <1>3, <1>4, <1>6
<1>12. TablesTypeOK'
  <2>1. Len(written) = Len(arts) /\ Len(arts') = Len(arts) BY <1>1, <1>7 DEF TablesTypeOK, Pruned
  <2>2. QED BY <1>1, <1>2, <1>6, <1>7, <1>8, <1>9, <1>11, <2>1 DEF TablesTypeOK
<1>13. EdgesHaveEnds'
  <2>1. CASE k # 3
    <3>1. nodes' = nodes BY <1>9, <2>1
    <3>2. QED
      BY <1>1, <1>2, <1>6, <1>8, <3>1, SameNodesSameEnds DEF MemoryInv, RowsInv, DeletionIsClean
  <2>2. CASE k = 3
    <3>1. edges' = edges /\ GoneFrom(edges, p) BY <1>3, <1>8, <2>2
    <3>2. \A e \in 1..Len(edges') : edges'[e] # Absent /\ ~ edges'[e].late => edges'[e].owner # p
      BY <3>1 DEF GoneFrom
    <3>3. QED BY <1>2, <1>3, <1>6, <3>2 DEF EdgesHaveEnds
  <2>3. QED BY <2>1, <2>2
<1>14. \A q \in projects \ projects' :
          q \in doomed /\ GoneFrom(arts', q) /\ GoneFrom(nodes', q) /\ GoneFrom(edges', q)
  BY <1>3, <1>10, <1>11
<1>15. nodes' # nodes => doomed # {} BY <1>3
<1>16. TablesFollow
  BY <1>6, <1>7, <1>8, <1>9, <1>11, <1>12, <1>13, <1>14, <1>15, RowsDeleted
<1>17. QED BY <1>3, <1>10, <1>16 DEF p, k

LEMMA AtRestFits ==
    /\ AtRest \in ClientStates /\ AtRest.pc = "idle" /\ AtRest.out = {}
    /\ \A a, e, n, dead, w : ClientFits(AtRest, a, e, n, dead, w)
<1>1. AtRest \in ClientStates /\ AtRest.pc = "idle" /\ AtRest.out = {}
  BY DEF AtRest, ClientStates, Owners
<1>2. QED BY <1>1 DEF ClientFits, OwnEdit, OwnView, OwnDeletion

\* A client goes on, and the tables stay as they are.
LEMMA LocalStep ==
    ASSUME MemoryInv, NEW c \in Clients, NEW u \in ClientStates, cl' = [cl EXCEPT ![c] = u],
           ClientFits(u, arts, edges, nodes, doomed, written),
           UNCHANGED <<projects, arts, nodes, edges, doomed, written>>,
           backend' = backend, work' \in Nat
    PROVE  MemoryInv'
<1>1. TablesFollow BY TablesAtRest
<1>2. ClientFits(u, arts', edges', nodes', doomed', written') OBVIOUS
<1>3. QED BY <1>1, <1>2, TablesStep

LEMMA WorkIsNat ==
    ASSUME MemoryInv, NEW c \in Clients
    PROVE  /\ Starts(c) => work' \in Nat /\ backend' = backend
           /\ \A pc : Goes(c, pc) => work' \in Nat /\ backend' = backend
<1>1. work \in Nat BY DEF MemoryInv, MemoryTypeOK, TablesTypeOK
<1>2. QED BY <1>1 DEF Starts, Goes

LEMMA RememberKeepsInv ==
    ASSUME MemoryInv, NEW c \in Clients, NEW o \in Owners, NEW s \in BOOLEAN, Remember(c, o, s)
    PROVE  MemoryInv'
<1>1. [by |-> c, sensitive |-> s] \in Value BY DEF Value
<1>2. work' \in Nat /\ backend' = backend BY WorkIsNat DEF Remember
<1>3. TablesFollow BY <1>1, <1>2, ArtifactAdded DEF Remember
<1>4. cl' = cl BY DEF Remember
<1>5. QED BY <1>3, <1>4, IdleClientStep

LEMMA EditingClient ==
    ASSUME NEW o \in Owners, NEW id \in Nat, NEW r \in Artifact, NEW v \in Value
    PROVE  LET u == [AtRest EXCEPT !.pc = "edit", !.owner = o, !.id = id, !.row = r, !.value = v]
           IN  /\ u.pc = "edit" /\ u.id = id /\ u.row = r /\ u.value = v /\ u.out = {}
               /\ u \in ClientStates
  BY DEF AtRest, ClientStates

LEMMA EditKeepsInv ==
    ASSUME MemoryInv, NEW c \in Clients, NEW o \in Owners, NEW id \in 1..Len(arts),
           NEW s \in BOOLEAN, Edit(c, o, id, s)
    PROVE  MemoryInv'
<1> DEFINE v == [by |-> c, sensitive |-> s]
           u == [AtRest EXCEPT !.pc = "edit", !.owner = o, !.id = id, !.row = arts[id], !.value = v]
<1>1. arts[id] # Absent /\ (arts[id].value.sensitive => s) BY DEF Edit
<1>2. arts[id] \in Artifact
  <2>1. arts[id] \in Artifact \cup {Absent} BY ElementOfSeq DEF MemoryInv, MemoryTypeOK, TablesTypeOK
  <2>2. QED BY <1>1, <2>1
<1>3. v \in Value /\ v.sensitive = s BY DEF Value
<1> HIDE DEF v
<1>4. /\ u.pc = "edit" /\ u.id = id /\ u.row = arts[id] /\ u.value = v /\ u.out = {}
      /\ u \in ClientStates
  <2>1. Len(arts) \in Nat BY LenProperties DEF MemoryInv, MemoryTypeOK, TablesTypeOK
  <2>2. id \in Nat BY <2>1
  <2>3. QED BY <1>2, <1>3, <2>2, EditingClient
<1>5. work' \in Nat /\ backend' = backend BY WorkIsNat DEF Edit
<1>6. cl' = [cl EXCEPT ![c] = u] /\ UNCHANGED <<projects, arts, nodes, edges, doomed, written>>
  BY DEF Edit, tables, v
<1> HIDE DEF u
<1>7. VersionOf(arts[id]) \in Nat BY <1>2, VersionIsNat
<1>8. ClientFits(u, arts, edges, nodes, doomed, written)
  BY <1>1, <1>2, <1>3, <1>4, <1>7 DEF ClientFits, OwnEdit, OwnView, OwnDeletion
<1>9. QED BY <1>4, <1>5, <1>6, <1>8, LocalStep

LEMMA WriteEditKeepsInv ==
    ASSUME MemoryInv, NEW c \in Clients, WriteEdit(c)
    PROVE  MemoryInv'
<1>1. /\ cl[c].pc = "edit" /\ cl' = [cl EXCEPT ![c] = AtRest]
      /\ UNCHANGED <<projects, nodes, edges, doomed>>
  BY DEF WriteEdit, Goes
<1>2. work' \in Nat /\ backend' = backend BY WorkIsNat DEF WriteEdit
<1>3. CASE StillExpected(c)
  <2>1. TablesFollow BY <1>1, <1>2, <1>3, ArtifactRevised DEF WriteEdit
  <2>2. QED BY <1>1, <2>1, AtRestFits, TablesStep
<1>4. CASE ~ StillExpected(c)
  <2>1. UNCHANGED <<arts, written>> BY <1>4 DEF WriteEdit
  <2>2. QED BY <1>1, <1>2, <2>1, AtRestFits, LocalStep
<1>5. QED BY <1>3, <1>4

LEMMA ForgetKeepsInv ==
    ASSUME MemoryInv, NEW c \in Clients, NEW o \in Owners, NEW id \in 1..Len(arts), Forget(c, o, id)
    PROVE  MemoryInv'
<1> DEFINE u == [AtRest EXCEPT !.pc = "forget", !.owner = o, !.id = id]
<1>1. u.pc = "forget" /\ u.id = id /\ u.out = {} /\ u \in ClientStates
  <2>1. id \in Nat
    <3>1. Len(arts) \in Nat BY LenProperties DEF MemoryInv, MemoryTypeOK, TablesTypeOK
    <3>2. QED BY <3>1
  <2>2. QED BY <2>1 DEF AtRest, ClientStates
<1>2. work' \in Nat /\ backend' = backend BY WorkIsNat DEF Forget
<1>3. cl' = [cl EXCEPT ![c] = u] /\ UNCHANGED <<projects, arts, nodes, edges, doomed, written>>
  BY DEF Forget, tables
<1> HIDE DEF u
<1>4. ClientFits(u, arts, edges, nodes, doomed, written)
  BY <1>1 DEF ClientFits, OwnEdit, OwnView, OwnDeletion
<1>5. QED BY <1>1, <1>2, <1>3, <1>4, LocalStep

LEMMA WriteForgetKeepsInv ==
    ASSUME MemoryInv, NEW c \in Clients, WriteForget(c)
    PROVE  MemoryInv'
<1>1. /\ cl[c].pc = "forget" /\ cl' = [cl EXCEPT ![c] = AtRest]
      /\ arts' = [arts EXCEPT ![cl[c].id] = Absent]
      /\ UNCHANGED <<projects, nodes, edges, doomed, written>>
  BY DEF WriteForget, Goes
<1>2. work' \in Nat /\ backend' = backend BY WorkIsNat DEF WriteForget
<1>3. cl[c].id \in 1..Len(arts) BY <1>1 DEF MemoryInv, ClientsFit, ClientFits, OwnEdit
<1>4. TablesTypeOK BY DEF MemoryInv, MemoryTypeOK
<1>5. arts' \in Seq(Artifact \cup {Absent}) /\ Pruned(arts, arts')
  <2>1. arts \in Seq(Artifact \cup {Absent}) BY <1>4 DEF TablesTypeOK
  <2>2. DEFINE id == cl[c].id
  <2>3. /\ [arts EXCEPT ![id] = Absent] \in Seq(Artifact \cup {Absent})
        /\ Len([arts EXCEPT ![id] = Absent]) = Len(arts)
        /\ \A i \in 1..Len(arts) :
              [arts EXCEPT ![id] = Absent][i] = IF i = id THEN Absent ELSE arts[i]
    <3>1. id \in 1..Len(arts) BY <1>3
    <3> HIDE DEF id
    <3>2. QED BY <2>1, <3>1, ExceptSeq
  <2>4. QED BY <1>1, <2>3 DEF Pruned
<1>6. TablesTypeOK' BY <1>1, <1>2, <1>4, <1>5 DEF TablesTypeOK, Pruned
<1>7. Pruned(nodes, nodes') /\ Pruned(edges, edges') BY <1>1, SameIsPruned
<1>8. EdgesHaveEnds'
  BY <1>1, <1>2, <1>4, <1>7, SameNodesSameEnds DEF MemoryInv, RowsInv, DeletionIsClean
<1>9. TablesFollow BY <1>1, <1>5, <1>6, <1>7, <1>8, RowsDeleted
<1>10. QED BY <1>1, <1>9, AtRestFits, TablesStep

\* What is rendered of an artifact is its own, and nothing of it was sensitive.
LEMMA RenderedFits ==
    ASSUME MemoryInv, NEW id \in 1..Len(arts), arts[id] # Absent, NEW x \in Rendered(id)
    PROVE  /\ x \in Showing /\ x.owner = arts[id].owner /\ x.id \in 1..Len(written)
           /\ x.of <= Len(written[x.id])
           /\ \A k \in 1..x.of : ~ written[x.id][k].sensitive
<1> DEFINE all == Append(arts[id].history, arts[id].value)
<1>1. TablesTypeOK BY DEF MemoryInv, MemoryTypeOK
<1>2. all = written[id] /\ id \in 1..Len(written)
  BY <1>1 DEF MemoryInv, RowsInv, NoRevisionLost, TablesTypeOK
<1>3. PICK k \in 1..Len(all) :
         /\ ~ Hidden(arts[id], all[k])
         /\ x = [id |-> id, owner |-> arts[id].owner, revision |-> k, of |-> Len(all)]
  BY DEF Rendered
<1> HIDE DEF all
<1>4. arts[id] \in Artifact
  <2>1. arts[id] \in Artifact \cup {Absent} BY <1>1, ElementOfSeq DEF TablesTypeOK
  <2>2. QED BY <2>1
<1>5. Len(all) \in Nat /\ Len(arts) \in Nat
  <2>1. written[id] \in Seq(Value) BY <1>1, <1>2, ElementOfSeq DEF TablesTypeOK
  <2>2. QED BY <1>1, <1>2, <2>1, LenProperties DEF TablesTypeOK
<1>6. ~ arts[id].value.sensitive BY <1>3 DEF Hidden
<1>7. \A j \in 1..Len(written[id]) : ~ written[id][j].sensitive
  BY <1>6 DEF MemoryInv, RowsInv, SensitiveStays
<1>8. arts[id].owner \in Owners BY <1>4 DEF Artifact
<1>9. x \in Showing BY <1>3, <1>5, <1>8 DEF Showing
<1>10. QED BY <1>2, <1>3, <1>5, <1>7, <1>9

LEMMA RecalledFits ==
    ASSUME MemoryInv, NEW o
    PROVE  LET out == UNION {Rendered(id) : id \in Recalled(o)} IN
           /\ out \subseteq Showing
           /\ \A u : u.out = out /\ u.owner = o => OwnView(u, written)
<1>1. ASSUME NEW id \in Recalled(o), NEW x \in Rendered(id)
      PROVE  /\ x \in Showing /\ x.owner = o /\ x.id \in 1..Len(written)
             /\ x.of <= Len(written[x.id])
             /\ \A k \in 1..x.of : ~ written[x.id][k].sensitive
  <2>1. id \in 1..Len(arts) /\ arts[id] # Absent /\ arts[id].owner = o BY DEF Recalled
  <2>2. QED BY <2>1, RenderedFits
<1>2. QED BY <1>1 DEF OwnView

LEMMA ShowKeepsInv ==
    ASSUME MemoryInv, NEW c \in Clients, NEW o \in Owners \cup {NoProject}, Show(c, o)
    PROVE  MemoryInv'
<1> DEFINE out == UNION {Rendered(id) : id \in Recalled(o)}
           u == [AtRest EXCEPT !.owner = o, !.out = out]
<1>1. out \subseteq Showing /\ \A w : w.out = out /\ w.owner = o => OwnView(w, written)
  BY RecalledFits
<1>2. work' \in Nat /\ backend' = backend BY WorkIsNat DEF Show
<1>3. cl' = [cl EXCEPT ![c] = u] /\ UNCHANGED <<projects, arts, nodes, edges, doomed, written>>
  BY DEF Show, tables
<1> HIDE DEF out
<1>4. u.pc = "idle" /\ u.owner = o /\ u.out = out /\ u \in ClientStates
  BY <1>1 DEF AtRest, ClientStates
<1> HIDE DEF u
<1>5. ClientFits(u, arts, edges, nodes, doomed, written)
  BY <1>1, <1>4 DEF ClientFits, OwnEdit, OwnDeletion
<1>6. QED BY <1>2, <1>3, <1>4, <1>5, LocalStep

LEMMA ExportKeepsInv ==
    ASSUME MemoryInv, NEW c \in Clients, NEW p \in Projects, ExportProject(c, p)
    PROVE  MemoryInv'
<1> DEFINE out == UNION {Rendered(id) : id \in Recalled(p)}
           u == [AtRest EXCEPT !.pc = "event", !.owner = p, !.event = "export", !.out = out]
<1>1. out \subseteq Showing /\ \A w : w.out = out /\ w.owner = p => OwnView(w, written)
  BY RecalledFits
<1>2. work' \in Nat /\ backend' = backend BY WorkIsNat DEF ExportProject
<1>3. cl' = [cl EXCEPT ![c] = u] /\ UNCHANGED <<projects, arts, nodes, edges, doomed, written>>
  BY DEF ExportProject, tables
<1> HIDE DEF out
<1>4. u.pc = "event" /\ u.owner = p /\ u.out = out /\ u \in ClientStates
  BY <1>1 DEF AtRest, ClientStates, Owners
<1> HIDE DEF u
<1>5. ClientFits(u, arts, edges, nodes, doomed, written)
  BY <1>1, <1>4 DEF ClientFits, OwnEdit, OwnDeletion
<1>6. QED BY <1>2, <1>3, <1>4, <1>5, LocalStep

LEMMA CompressKeepsInv ==
    ASSUME MemoryInv, NEW c \in Clients, NEW p \in Projects, Compress(c, p)
    PROVE  MemoryInv'
<1> DEFINE u == [AtRest EXCEPT !.pc = "summary", !.owner = p]
<1>1. work' \in Nat /\ backend' = backend BY WorkIsNat DEF Compress
<1>2. cl' = [cl EXCEPT ![c] = u] /\ UNCHANGED <<projects, arts, nodes, edges, doomed, written>>
  BY DEF Compress, tables
<1>3. u.pc = "summary" /\ u.owner = p /\ u.out = {} /\ u \in ClientStates
  BY DEF AtRest, ClientStates, Owners
<1> HIDE DEF u
<1>4. ClientFits(u, arts, edges, nodes, doomed, written)
  BY <1>3 DEF ClientFits, OwnEdit, OwnView, OwnDeletion
<1>5. QED BY <1>1, <1>2, <1>3, <1>4, LocalStep

\* A client that goes on to its event, or is done with it.
LEMMA EventClient ==
    ASSUME NEW w \in ClientStates, NEW pc \in {"event", "idle"},
           NEW event \in {"none", "export", "compression"}
    PROVE  LET u == [w EXCEPT !.pc = pc, !.event = event]
           IN  u.pc = pc /\ u.owner = w.owner /\ u.out = w.out /\ u \in ClientStates
  BY DEF ClientStates

LEMMA AddSummaryKeepsInv ==
    ASSUME MemoryInv, NEW c \in Clients, AddSummary(c)
    PROVE  MemoryInv'
<1> DEFINE w == cl[c]
           u == [w EXCEPT !.pc = "event", !.event = "compression"]
           v == [by |-> c, sensitive |-> FALSE]
<1>1. cl \in [Clients -> ClientStates] BY DEF MemoryInv, MemoryTypeOK
<1>2. w \in ClientStates /\ ClientFits(w, arts, edges, nodes, doomed, written)
  BY <1>1 DEF MemoryInv, ClientsFit
<1>3. w.pc = "summary" /\ w.owner \in Projects BY <1>2 DEF AddSummary, Goes, ClientFits
<1>4. work' \in Nat /\ backend' = backend BY WorkIsNat DEF AddSummary
<1>5. cl' = [cl EXCEPT ![c] = u] BY <1>1 DEF AddSummary
<1>6. TablesFollow
  <2>1. v \in Value /\ w.owner \in Owners BY <1>3, SMTT(40) DEF Value, Owners
  <2>2. QED BY <1>4, <2>1, ArtifactAdded DEF AddSummary
<1> HIDE DEF w
<1>7. u.pc = "event" /\ u.owner = w.owner /\ u.out = w.out /\ u \in ClientStates
  BY <1>2, EventClient
<1> HIDE DEF u
<1>8. ClientFits(w, arts', edges', nodes', doomed', written')
  BY <1>2, <1>6, OthersKeepFit DEF MemoryInv, MemoryTypeOK, TablesFollow
<1>9. ClientFits(u, arts', edges', nodes', doomed', written')
  BY <1>7, <1>8 DEF ClientFits, OwnEdit, OwnView, OwnDeletion
<1>10. QED BY <1>5, <1>6, <1>7, <1>9, TablesStep

LEMMA RecordEventKeepsInv ==
    ASSUME MemoryInv, NEW c \in Clients, RecordEvent(c)
    PROVE  MemoryInv'
<1> DEFINE w == cl[c]
           u == [w EXCEPT !.pc = "idle", !.event = "none"]
<1>1. cl \in [Clients -> ClientStates] BY DEF MemoryInv, MemoryTypeOK
<1>2. w \in ClientStates /\ ClientFits(w, arts, edges, nodes, doomed, written)
  BY <1>1 DEF MemoryInv, ClientsFit
<1>3. work' \in Nat /\ backend' = backend BY WorkIsNat DEF RecordEvent
<1>4. cl' = [cl EXCEPT ![c] = u] /\ UNCHANGED <<projects, arts, nodes, edges, doomed, written>>
  BY <1>1 DEF RecordEvent
<1> HIDE DEF w
<1>5. u.pc = "idle" /\ u.owner = w.owner /\ u.out = w.out /\ u \in ClientStates
  BY <1>2, EventClient
<1> HIDE DEF u
<1>6. ClientFits(u, arts, edges, nodes, doomed, written)
  BY <1>2, <1>5 DEF ClientFits, OwnEdit, OwnView, OwnDeletion
<1>7. QED BY <1>3, <1>4, <1>5, <1>6, LocalStep

LEMMA LearnKeepsInv ==
    ASSUME MemoryInv, NEW c \in Clients, NEW p \in Projects, Learn(c, p)
    PROVE  MemoryInv'
<1> DEFINE r == [owner |-> p, late |-> p \in doomed]
<1>1. TablesTypeOK BY DEF MemoryInv, MemoryTypeOK
<1>2. /\ nodes' = Append(nodes, r) /\ UNCHANGED <<projects, arts, edges, doomed, written>>
      /\ cl' = cl
  BY DEF Learn
<1>3. r \in KnowledgeNode /\ r # Absent /\ (r.owner \in doomed => r.late)
  <2>1. r \in KnowledgeNode /\ r.owner = p /\ r.late = (p \in doomed) BY DEF KnowledgeNode
  <2>2. QED BY <2>1, MemoryAssumption
<1> HIDE DEF r
<1>4. work' \in Nat /\ backend' = backend BY WorkIsNat DEF Learn
<1>5. nodes \in Seq(KnowledgeNode \cup {Absent}) /\ r \in KnowledgeNode \cup {Absent}
  BY <1>1, <1>3 DEF TablesTypeOK
<1>6. /\ nodes' \in Seq(KnowledgeNode \cup {Absent}) /\ Len(nodes) \in Nat
      /\ Len(nodes') = Len(nodes) + 1
      /\ \A i \in 1..Len(nodes) : nodes'[i] = nodes[i]
      /\ nodes'[Len(nodes) + 1] = r
  BY <1>2, <1>5, LenProperties, AppendProperties
<1>7. TablesTypeOK' BY <1>1, <1>2, <1>4, <1>6 DEF TablesTypeOK
<1>8. Later(nodes, nodes', doomed) BY <1>2, <1>3, <1>5, AddedIsLater
<1>9. Later(arts, arts', doomed) /\ Later(edges, edges', doomed)
  BY <1>1, <1>2, SameTable DEF TablesTypeOK
<1>10. Dated(arts, arts') /\ Grown(written, written') BY <1>1, <1>2, SameArtifacts
<1>11. DeletedIsGone' /\ Projects \ projects' \subseteq doomed'
  BY <1>1, <1>2, <1>7, <1>8, <1>9, GoneStaysGone DEF MemoryInv, RowsInv, DeletionIsClean
<1>12. NoRevisionLost' /\ SensitiveStays'
  BY <1>2 DEF MemoryInv, RowsInv, NoRevisionLost, SensitiveStays
<1>13. \A i \in 1..Len(nodes') : i \in 1..Len(nodes) \/ i = Len(nodes) + 1 BY <1>6
<1>14. DeletionIsMarked'
  <2>1. (\E n \in 1..Len(nodes') : nodes'[n] = Absent) => doomed' # {}
    BY <1>2, <1>3, <1>6, <1>13 DEF MemoryInv, RowsInv, DeletionIsMarked
  <2>2. \A e \in 1..Len(edges') : edges'[e] # Absent =>
           edges'[e].from \in 1..Len(nodes') /\ edges'[e].to \in 1..Len(nodes')
    BY <1>2, <1>6 DEF MemoryInv, RowsInv, DeletionIsMarked
  <2>3. QED BY <1>11, <2>1, <2>2 DEF DeletionIsMarked
<1>15. EdgesHaveEnds'
  <2> SUFFICES ASSUME NEW e \in 1..Len(edges), edges[e] # Absent, ~ edges[e].late,
                      NEW n \in {edges[e].from, edges[e].to}, nodes'[n] = Absent
               PROVE  backend = "mongo" /\ \E q \in doomed : q # edges[e].owner
    BY <1>2, <1>4 DEF EdgesHaveEnds
  <2>1. n \in 1..Len(nodes) BY DEF MemoryInv, RowsInv, DeletionIsMarked
  <2>2. nodes[n] = Absent BY <1>6, <2>1
  <2>3. QED BY <2>2 DEF MemoryInv, RowsInv, DeletionIsClean, EdgesHaveEnds
<1>16. TablesFollow
  BY <1>2, <1>7, <1>8, <1>9, <1>10, <1>11, <1>12, <1>14, <1>15 DEF TablesFollow, RowsInv, DeletionIsClean
<1>17. QED BY <1>2, <1>16, IdleClientStep

LEMMA RelateKeepsInv ==
    ASSUME MemoryInv, NEW c \in Clients, NEW p \in Projects, NEW from \in 1..Len(nodes),
           NEW to \in 1..Len(nodes), Relate(c, p, from, to)
    PROVE  MemoryInv'
<1> DEFINE r == [owner |-> p, from |-> from, to |-> to, late |-> p \in doomed]
<1>1. TablesTypeOK BY DEF MemoryInv, MemoryTypeOK
<1>2. /\ edges' = Append(edges, r) /\ UNCHANGED <<projects, arts, nodes, doomed, written>>
      /\ cl' = cl /\ (backend = "sqlite" => nodes[from] # Absent /\ nodes[to] # Absent)
  BY DEF Relate
<1>3. /\ r \in KnowledgeEdge /\ r # Absent /\ (r.owner \in doomed => r.late)
      /\ r.owner = p /\ r.from = from /\ r.to = to /\ r.late = (p \in doomed)
  <2>1. Len(nodes) \in Nat BY <1>1, LenProperties DEF TablesTypeOK
  <2>2. from \in Nat /\ to \in Nat BY <2>1
  <2>3. /\ r \in KnowledgeEdge /\ r.owner = p /\ r.from = from /\ r.to = to
        /\ r.late = (p \in doomed)
    BY <2>2 DEF KnowledgeEdge
  <2>4. QED BY <2>3, MemoryAssumption
<1> HIDE DEF r
<1>4. work' \in Nat /\ backend' = backend BY WorkIsNat DEF Relate
<1>5. edges \in Seq(KnowledgeEdge \cup {Absent}) /\ r \in KnowledgeEdge \cup {Absent}
  BY <1>1, <1>3 DEF TablesTypeOK
<1>6. /\ edges' \in Seq(KnowledgeEdge \cup {Absent}) /\ Len(edges) \in Nat
      /\ Len(edges') = Len(edges) + 1
      /\ \A i \in 1..Len(edges) : edges'[i] = edges[i]
      /\ edges'[Len(edges) + 1] = r
  BY <1>2, <1>5, LenProperties, AppendProperties
<1>7. TablesTypeOK' BY <1>1, <1>2, <1>4, <1>6 DEF TablesTypeOK
<1>8. Later(edges, edges', doomed) BY <1>2, <1>3, <1>5, AddedIsLater
<1>9. Later(arts, arts', doomed) /\ Later(nodes, nodes', doomed)
  BY <1>1, <1>2, SameTable DEF TablesTypeOK
<1>10. Dated(arts, arts') /\ Grown(written, written') BY <1>1, <1>2, SameArtifacts
<1>11. DeletedIsGone' /\ Projects \ projects' \subseteq doomed'
  BY <1>1, <1>2, <1>7, <1>8, <1>9, GoneStaysGone DEF MemoryInv, RowsInv, DeletionIsClean
<1>12. NoRevisionLost' /\ SensitiveStays'
  BY <1>2 DEF MemoryInv, RowsInv, NoRevisionLost, SensitiveStays
<1>13. \A i \in 1..Len(edges') : i \in 1..Len(edges) \/ i = Len(edges) + 1 BY <1>6
<1>14. DeletionIsMarked'
  <2>1. (\E n \in 1..Len(nodes') : nodes'[n] = Absent) => doomed' # {}
    BY <1>2 DEF MemoryInv, RowsInv, DeletionIsMarked
  <2>2. \A e \in 1..Len(edges') : edges'[e] # Absent =>
           edges'[e].from \in 1..Len(nodes') /\ edges'[e].to \in 1..Len(nodes')
    BY <1>2, <1>3, <1>6, <1>13 DEF MemoryInv, RowsInv, DeletionIsMarked
  <2>3. QED BY <1>11, <2>1, <2>2 DEF DeletionIsMarked
<1>15. EdgesHaveEnds'
  <2> SUFFICES ASSUME NEW e \in 1..Len(edges'), edges'[e] # Absent, ~ edges'[e].late,
                      NEW n \in {edges'[e].from, edges'[e].to}, nodes[n] = Absent
               PROVE  backend = "mongo" /\ \E q \in doomed : q # edges'[e].owner
    BY <1>2, <1>4 DEF EdgesHaveEnds
  <2>1. CASE e \in 1..Len(edges)
    BY <1>6, <2>1 DEF MemoryInv, RowsInv, DeletionIsClean, EdgesHaveEnds
  <2>2. CASE e = Len(edges) + 1
    <3>1. n \in {from, to} /\ p \notin doomed /\ edges'[e].owner = p BY <1>3, <1>6, <2>2
    <3>2. backend = "mongo" BY <1>1, <1>2, <3>1 DEF TablesTypeOK
    <3>3. doomed # {} BY <3>1 DEF MemoryInv, RowsInv, DeletionIsMarked
    <3>4. QED BY <3>1, <3>2, <3>3
  <2>3. QED BY <1>13, <2>1, <2>2
<1>16. TablesFollow
  BY <1>2, <1>7, <1>8, <1>9, <1>10, <1>11, <1>12, <1>14, <1>15 DEF TablesFollow, RowsInv, DeletionIsClean
<1>17. QED BY <1>2, <1>16, IdleClientStep

LEMMA DeleteProjectKeepsInv ==
    ASSUME MemoryInv, NEW c \in Clients, NEW p \in Projects, DeleteProject(c, p)
    PROVE  MemoryInv'
<1> DEFINE u == [AtRest EXCEPT !.pc = "drop", !.owner = p, !.id = 1]
<1>1. TablesTypeOK BY DEF MemoryInv, MemoryTypeOK
<1>2. /\ UNCHANGED <<projects, arts, nodes, edges, written>> /\ doomed' = doomed \cup {p}
      /\ cl' = [cl EXCEPT ![c] = u]
  BY DEF DeleteProject
<1>3. u.pc = "drop" /\ u.owner = p /\ u.id = 1 /\ u.out = {} /\ u \in ClientStates
  BY DEF AtRest, ClientStates, Owners
<1> HIDE DEF u
<1>4. work' \in Nat /\ backend' = backend BY WorkIsNat DEF DeleteProject
<1>5. TablesTypeOK' BY <1>1, <1>2, <1>4 DEF TablesTypeOK
<1>6. Later(arts, arts', doomed) /\ Later(nodes, nodes', doomed) /\ Later(edges, edges', doomed)
  BY <1>1, <1>2, SameTable DEF TablesTypeOK
<1>7. Dated(arts, arts') /\ Grown(written, written') BY <1>1, <1>2, SameArtifacts
<1>8. RowsInv'
  <2>1. NoRevisionLost' /\ SensitiveStays'
    BY <1>2 DEF MemoryInv, RowsInv, NoRevisionLost, SensitiveStays
  <2>2. DeletionIsMarked' BY <1>2 DEF MemoryInv, RowsInv, DeletionIsMarked
  <2>3. DeletedIsGone' BY <1>2 DEF MemoryInv, RowsInv, DeletionIsClean, DeletedIsGone
  <2>4. EdgesHaveEnds' BY <1>2, <1>4 DEF MemoryInv, RowsInv, DeletionIsClean, EdgesHaveEnds
  <2>5. QED BY <2>1, <2>2, <2>3, <2>4 DEF RowsInv, DeletionIsClean
<1>9. ClientFits(u, arts', edges', nodes', doomed', written')
  BY <1>2, <1>3 DEF ClientFits, OwnEdit, OwnView, OwnDeletion
<1>10. TablesFollow BY <1>2, <1>5, <1>6, <1>7, <1>8 DEF TablesFollow
<1>11. QED BY <1>2, <1>3, <1>9, <1>10, TablesStep

LEMMA CascadeKeepsInv ==
    ASSUME MemoryInv, NEW c \in Clients, CascadeDelete(c)
    PROVE  MemoryInv'
<1>1. cl' = [cl EXCEPT ![c] = AtRest] BY DEF CascadeDelete
<1>2. QED BY <1>1, CascadeFollows, AtRestFits, TablesStep

LEMMA MongoDeleteKeepsInv ==
    ASSUME MemoryInv, NEW c \in Clients, MongoDelete(c)
    PROVE  MemoryInv'
<1> DEFINE w == cl[c]
           u == IF w.id = 5 THEN AtRest ELSE [w EXCEPT !.id = w.id + 1]
<1>1. cl \in [Clients -> ClientStates] BY DEF MemoryInv, MemoryTypeOK
<1>2. w \in ClientStates /\ ClientFits(w, arts, edges, nodes, doomed, written) /\ w.pc = "drop"
  BY <1>1 DEF MemoryInv, ClientsFit, MongoDelete, Goes
<1>3. /\ TablesFollow /\ w.owner \in doomed /\ w.id \in 1..5
      /\ w.id >= 1 => GoneFrom(arts', w.owner)
      /\ w.id >= 2 => GoneFrom(edges', w.owner)
      /\ w.id >= 3 => GoneFrom(nodes', w.owner)
  BY MongoDeleteFollows
<1>4. cl' = [cl EXCEPT ![c] = u]
  <2>1. Len(MongoOrder) = 5 BY DEF MongoOrder
  <2>2. QED BY <2>1 DEF MongoDelete
<1>5. ClientFits(w, arts', edges', nodes', doomed', written')
  BY <1>2, <1>3, OthersKeepFit DEF MemoryInv, MemoryTypeOK, TablesFollow
<1> HIDE DEF w
<1>6. CASE w.id = 5
  <2>1. u = AtRest BY <1>6
  <2>2. QED BY <1>3, <1>4, <2>1, AtRestFits, TablesStep
<1>7. CASE w.id # 5
  <2>1. u.pc = "drop" /\ u.owner = w.owner /\ u.out = w.out /\ u.id = w.id + 1 /\ u \in ClientStates
    BY <1>2, <1>3, <1>7 DEF ClientStates
  <2> HIDE DEF u
  <2>2. OwnDeletion(u, arts', edges', nodes', doomed')
    <3>1. u.owner \in doomed' BY <1>3, <2>1 DEF TablesFollow
    <3>2. u.id \in 1..5 /\ (u.id >= 2 => w.id >= 1) /\ (u.id >= 3 => w.id >= 2) /\ (u.id >= 4 => w.id >= 3)
      BY <1>3, <1>7, <2>1
    <3>3. QED BY <1>3, <2>1, <3>1, <3>2 DEF OwnDeletion
  <2>3. ClientFits(u, arts', edges', nodes', doomed', written')
    BY <1>5, <2>1, <2>2 DEF ClientFits, OwnEdit, OwnView
  <2>4. QED BY <1>3, <1>4, <2>1, <2>3, TablesStep
<1>8. QED BY <1>6, <1>7

LEMMA CutOffKeepsInv ==
    ASSUME MemoryInv, NEW c \in Clients, CutOff(c)
    PROVE  MemoryInv'
<1>1. /\ cl' = [cl EXCEPT ![c] = AtRest] /\ UNCHANGED <<projects, arts, nodes, edges, doomed, written>>
      /\ backend' = backend
  BY DEF CutOff, tables
<1>2. work' \in Nat BY DEF CutOff, MemoryInv, MemoryTypeOK, TablesTypeOK
<1>3. QED BY <1>1, <1>2, AtRestFits, LocalStep

LEMMA MemoryNextKeepsInv ==
    ASSUME MemoryInv, [MemoryNext]_memoryVars
    PROVE  MemoryInv'
<1>1. CASE UNCHANGED memoryVars
  <2>1. /\ UNCHANGED <<projects, arts, nodes, edges, doomed, written>>
        /\ backend' = backend /\ work' = work /\ cl' = cl
    BY <1>1 DEF memoryVars
  <2>2. work' \in Nat BY <2>1 DEF MemoryInv, MemoryTypeOK, TablesTypeOK
  <2>3. TablesFollow BY <2>1, <2>2, TablesAtRest
  <2>4. QED BY <2>1, <2>3, IdleClientStep
<1>2. CASE MemoryNext
  <2>1. PICK c \in Clients :
           \/ \E o \in Owners, s \in BOOLEAN :
                 \/ Remember(c, o, s)
                 \/ \E id \in 1..Len(arts) : Edit(c, o, id, s)
           \/ \E o \in Owners, id \in 1..Len(arts) : Forget(c, o, id)
           \/ \E o \in Owners \cup {NoProject} : Show(c, o)
           \/ \E p \in Projects :
                 \/ ExportProject(c, p) \/ Compress(c, p) \/ DeleteProject(c, p) \/ Learn(c, p)
                 \/ \E from, to \in 1..Len(nodes) : Relate(c, p, from, to)
           \/ WriteEdit(c) \/ WriteForget(c) \/ AddSummary(c) \/ RecordEvent(c)
           \/ CascadeDelete(c) \/ MongoDelete(c) \/ CutOff(c)
    BY <1>2 DEF MemoryNext
  <2>2. CASE \E o \in Owners, s \in BOOLEAN :
                \/ Remember(c, o, s)
                \/ \E id \in 1..Len(arts) : Edit(c, o, id, s)
    BY <2>2, RememberKeepsInv, EditKeepsInv
  <2>3. CASE \/ \E o \in Owners, id \in 1..Len(arts) : Forget(c, o, id)
             \/ \E o \in Owners \cup {NoProject} : Show(c, o)
    BY <2>3, ForgetKeepsInv, ShowKeepsInv
  <2>4. CASE \E p \in Projects :
                \/ ExportProject(c, p) \/ Compress(c, p) \/ DeleteProject(c, p) \/ Learn(c, p)
                \/ \E from, to \in 1..Len(nodes) : Relate(c, p, from, to)
    BY <2>4, ExportKeepsInv, CompressKeepsInv, DeleteProjectKeepsInv, LearnKeepsInv, RelateKeepsInv
  <2>5. CASE WriteEdit(c) \/ WriteForget(c) \/ AddSummary(c) \/ RecordEvent(c)
    BY <2>5, WriteEditKeepsInv, WriteForgetKeepsInv, AddSummaryKeepsInv, RecordEventKeepsInv
  <2>6. CASE CascadeDelete(c) \/ MongoDelete(c) \/ CutOff(c)
    BY <2>6, CascadeKeepsInv, MongoDeleteKeepsInv, CutOffKeepsInv
  <2>7. QED BY <2>1, <2>2, <2>3, <2>4, <2>5, <2>6
<1>3. QED BY <1>1, <1>2

LEMMA MemoryInitInv ==
    ASSUME MemoryInit
    PROVE  MemoryInv
<1> DEFINE p == CHOOSE q \in Projects : TRUE
           v == [by |-> CHOOSE c \in Clients : TRUE, sensitive |-> FALSE]
           k == [owner |-> p, late |-> FALSE]
<1>1. p \in Projects /\ v \in Value /\ v.sensitive = FALSE BY MemoryAssumption DEF Value
<1>2. /\ backend \in {"sqlite", "mongo"} /\ projects = Projects /\ doomed = {}
      /\ edges = <<>> /\ cl = [c \in Clients |-> AtRest] /\ work = 0
      /\ \E version \in {0, 1} : arts = <<NewArtifact(p, v, version)>>
      /\ written = <<<<v>>>> /\ nodes = <<k>>
  BY DEF MemoryInit
<1>3. k \in KnowledgeNode /\ k # Absent
  <2>1. k \in KnowledgeNode BY <1>1 DEF KnowledgeNode
  <2>2. QED BY <2>1, MemoryAssumption
<1>4. PICK version \in {0, 1} : arts = <<NewArtifact(p, v, version)>> BY <1>2
<1> DEFINE r == NewArtifact(p, v, version)
<1>5. /\ r \in Artifact /\ r.owner = p /\ r.value = v /\ r.version \in {0, 1} /\ r.history = <<>>
  <2>1. <<>> \in Seq(Value) /\ p \in Owners BY <1>1, EmptySeq DEF Owners
  <2>2. QED BY <1>1, <2>1 DEF NewArtifact, Artifact
<1>6. r # Absent BY <1>5, MemoryAssumption
<1>7. arts = <<r>> BY <1>4
<1> HIDE DEF r, k, p
<1>8. <<v>> \in Seq(Value) /\ Len(<<v>>) = 1 /\ <<v>>[1] = v BY <1>1
<1>9. /\ arts \in Seq(Artifact \cup {Absent}) /\ Len(arts) = 1 /\ arts[1] = r
  <2>1. r \in Artifact \cup {Absent} BY <1>5
  <2>2. QED BY <1>7, <2>1
<1>10. written \in Seq(Seq(Value)) /\ Len(written) = 1 /\ written[1] = <<v>>
  <2> DEFINE w == <<v>>
  <2>1. w \in Seq(Value) /\ written = <<w>> BY <1>2, <1>8
  <2> HIDE DEF w
  <2>2. written \in Seq(Seq(Value)) /\ Len(written) = 1 /\ written[1] = w BY <2>1
  <2>3. QED BY <2>2 DEF w
<1>11. nodes \in Seq(KnowledgeNode \cup {Absent}) /\ Len(nodes) = 1 /\ nodes[1] = k
  <2>1. k \in KnowledgeNode \cup {Absent} BY <1>3
  <2>2. QED BY <1>2, <2>1
<1>12. edges \in Seq(KnowledgeEdge \cup {Absent}) /\ Len(edges) = 0 BY <1>2, EmptySeq
<1>13. MemoryTypeOK
  <2>1. TablesTypeOK BY <1>2, <1>9, <1>10, <1>11, <1>12 DEF TablesTypeOK
  <2>2. QED BY <1>2, <2>1, AtRestFits DEF MemoryTypeOK
<1>14. ClientsFit BY <1>2, AtRestFits DEF ClientsFit
<1>15. NoRevisionLost /\ SensitiveStays
  <2>1. Append(r.history, r.value) = <<v>> /\ VersionOf(r) = 1 BY <1>5 DEF VersionOf
  <2>2. \A id \in 1..Len(arts) : id = 1 BY <1>9
  <2>3. /\ Append(arts[1].history, arts[1].value) = written[1]
        /\ VersionOf(arts[1]) = Len(written[1])
    BY <1>8, <1>9, <1>10, <2>1
  <2>4. NoRevisionLost BY <2>2, <2>3 DEF NoRevisionLost
  <2>5. SensitiveStays
    <3>1. \A j \in 1..Len(<<v>>) : ~ <<v>>[j].sensitive BY <1>1, <1>8
    <3>2. QED BY <1>9, <1>10, <3>1 DEF SensitiveStays
  <2>6. QED BY <2>4, <2>5
<1>16. DeletionIsMarked /\ DeletionIsClean
  <2>1. \A e \in 1..Len(edges) : FALSE BY <1>12
  <2>2. \A n \in 1..Len(nodes) : nodes[n] # Absent BY <1>3, <1>11
  <2>3. Projects \ projects = {} BY <1>2
  <2>4. DeletionIsMarked BY <2>1, <2>2, <2>3 DEF DeletionIsMarked
  <2>5. DeletedIsGone BY <2>3 DEF DeletedIsGone
  <2>6. EdgesHaveEnds BY <2>1 DEF EdgesHaveEnds
  <2>7. QED BY <2>4, <2>5, <2>6 DEF DeletionIsClean
<1>17. QED BY <1>13, <1>14, <1>15, <1>16 DEF MemoryInv, RowsInv

\* The memory's invariant, on either backend (SessionStore, MongoSessionStore).
THEOREM MemoryInvariantHolds == MemorySpec => []MemoryInv
  BY MemoryInitInv, MemoryNextKeepsInv, PTL DEF MemorySpec

\* Of two clients that revise the same version one is told: no revision that
\* was acknowledged is lost or overwritten (update_artifact, artifact_revision).
THEOREM RevisionsAreKept == MemorySpec => []NoRevisionLost
<1>1. MemoryInv => NoRevisionLost BY DEF MemoryInv, RowsInv
<1>2. QED BY <1>1, MemoryInvariantHolds, PTL

\* What a memory shows is its own, and nothing of an artifact that was ever
\* marked sensitive (render_artifact, artifact_revision, ScopedMemory.export).
THEOREM OnlyPermittedIsShown == MemorySpec => []ShownIsPermitted
<1>1. MemoryInv => ShownIsPermitted
  BY DEF MemoryInv, ClientsFit, ClientFits, OwnView, ShownIsPermitted, SensitiveIsHidden, MemoryIsolated
<1>2. QED BY <1>1, MemoryInvariantHolds, PTL

\* A project that is gone has left nothing behind, wherever its deletion was cut
\* off or raced (delete_project_memory of both stores).
THEOREM DeletedProjectsAreGone == MemorySpec => []DeletionIsClean
<1>1. MemoryInv => DeletionIsClean BY DEF MemoryInv, RowsInv
<1>2. QED BY <1>1, MemoryInvariantHolds, PTL
=============================================================================
