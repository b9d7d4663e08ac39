--------------------------- MODULE StoreInvariant ---------------------------
(***************************************************************************)
(* The inductive invariants of what is kept: of a mission's plan and its   *)
(* nodes, of the evidence, and of a project's memory.                      *)
(***************************************************************************)
EXTENDS MissionStore, ProjectMemory

NodeRows == [material : Materials, status : NodeStatuses, attempts : Nat]
NodeTables == [PlanNodes -> NodeRows \cup {Missing}]
Reached == [PlanNodes -> Materials \cup {Missing}]

\* A table of nodes in which what was started has the material it started with.
FitTable(table, reached) ==
    \A n \in PlanNodes : table[n] # Missing /\ table[n].status # "pending" =>
        reached[n] = table[n].material

ProcStates ==
    [pc : {"idle", "replace", "nodes", "write", "protect", "insert", "link"},
     plan : [PlanNodes -> Materials] \cup {Missing},
     seen : NodeTables \cup {Missing}, reached : Reached \cup {Missing}, todo : SUBSET PlanNodes,
     alone : BOOLEAN,
     id : Ids \cup {Missing}, payload : Payloads \cup {Missing},
     finding : Findings \cup {Missing}, ids : SUBSET Ids]

PlanTypeOK ==
    /\ db \in {"sqlite", "mongo"} /\ torn \in BOOLEAN /\ tasks \in Nat
    /\ plan \in [PlanNodes -> Materials] \cup {Missing}
    /\ row \in NodeTables /\ earned \in Reached
    /\ proc \in [Procs -> ProcStates]

\* What a save has read was sound; and while it is alone, the plan it has
\* replaced is the loaded one, and has the nodes that are written.
Saving(u) == u.pc \in {"replace", "nodes"}

OwnSave(u, loaded_plan, table) ==
    /\ Saving(u) <=> u.plan # Missing
    /\ Saving(u) =>
          /\ u.seen \in NodeTables /\ u.reached \in Reached /\ FitTable(u.seen, u.reached)
          /\ \A n \in PlanNodes : u.seen[n] # Missing => table[n] # Missing
    /\ u.pc = "replace" => u.todo = PlanNodes
    /\ u.pc = "nodes" /\ u.alone =>
          /\ loaded_plan = u.plan
          /\ \A n \in PlanNodes \ u.todo :
                table[n] # Missing /\ table[n].material = loaded_plan[n]

\* Only in Mongo is a save under way between two steps; one that is alone is
\* the only one.
SavesAreOwn ==
    \A p \in Procs :
        /\ OwnSave(proc[p], plan, row)
        /\ Saving(proc[p]) => db = "mongo"
        /\ Saving(proc[p]) /\ proc[p].alone => \A q \in Procs : Saving(proc[q]) => q = p

\* The nodes have the material of the plan that is loaded.
NodesFit(loaded_plan, is_torn, table) ==
    loaded_plan # Missing /\ ~ is_torn =>
        \A n \in PlanNodes : table[n] # Missing /\ table[n].material = loaded_plan[n]

PlanInv == PlanTypeOK /\ FitTable(row, earned) /\ SavesAreOwn /\ NodesFit(plan, torn, row)

-----------------------------------------------------------------------------
EvidenceTypeOK ==
    /\ file \in [Ids -> Payloads \cup {Missing, "partial"}]
    /\ refs \subseteq Ids \X Payloads
    /\ evidence \subseteq [id : Ids, payload : Payloads, finding : Findings]
    /\ linked \in [Findings -> SUBSET Ids]

\* The evidence of a finding has its rows.
HasRows(ids, f, table) == \A i \in ids : \E e \in table : e.id = i /\ e.finding = f

\* A process captures under an identifier of its own, to which no reference was
\* returned before its file is protected; and lists what it has inserted.
OwnCapture(p, u, files, given, table) ==
    /\ u.pc \in {"write", "protect", "insert", "link"} => u.id \in Ids /\ u.payload \in Payloads
    /\ u.pc \in {"write", "protect"} => u.id[1] = p /\ \A r \in given : r[1] # u.id
    /\ u.pc = "protect" => files[u.id] = u.payload
    /\ u.pc \in {"insert", "link"} => u.finding \in Findings /\ <<u.id, u.payload>> \in given
    /\ u.pc = "link" => HasRows(u.ids \cup {u.id}, u.finding, table)

CapturesAreOwn == \A p \in Procs : OwnCapture(p, proc[p], file, refs, evidence)

EvidenceInv == EvidenceTypeOK /\ CapturesAreOwn /\ EvidenceVerifies

StoreInv == PlanInv /\ EvidenceInv

-----------------------------------------------------------------------------
Showing == [id : Nat, owner : Owners, revision : Nat, of : Nat]

ClientStates ==
    [pc : {"idle", "edit", "forget", "event", "summary", "drop"},
     owner : Owners \cup {NoProject}, id : Nat, row : Artifact \cup {Absent},
     value : Value \cup {Absent}, event : {"none", "export", "compression"}, out : SUBSET Showing]

TablesTypeOK ==
    /\ backend \in {"sqlite", "mongo"} /\ work \in Nat
    /\ projects \subseteq Projects /\ doomed \subseteq Projects
    /\ arts \in Seq(Artifact \cup {Absent}) /\ written \in Seq(Seq(Value))
    /\ Len(written) = Len(arts)
    /\ nodes \in Seq(KnowledgeNode \cup {Absent}) /\ edges \in Seq(KnowledgeEdge \cup {Absent})

MemoryTypeOK == TablesTypeOK /\ cl \in [Clients -> ClientStates]

\* An artifact one of whose revisions is sensitive is itself sensitive.
SensitiveStays ==
    \A id \in 1..Len(arts) : arts[id] # Absent =>
        \A k \in 1..Len(written[id]) : written[id][k].sensitive => arts[id].value.sensitive

\* Who writes an edit has read the row there is now, or an earlier one; and
\* keeps sensitive what was.
OwnEdit(u, table) ==
    /\ u.pc \in {"edit", "forget"} => u.id \in 1..Len(table)
    /\ u.pc = "edit" =>
        /\ u.row \in Artifact /\ u.value \in Value
        /\ u.row.value.sensitive => u.value.sensitive
        /\ table[u.id] # Absent =>
              /\ VersionOf(u.row) <= VersionOf(table[u.id])
              /\ VersionOf(u.row) = VersionOf(table[u.id]) =>
                    /\ u.row.owner = table[u.id].owner /\ u.row.value = table[u.id].value
                    /\ u.row.history = table[u.id].history

\* What was shown had been acknowledged, and was not sensitive.
OwnView(u, acknowledged) ==
    \A x \in u.out :
        /\ x.owner = u.owner /\ x.id \in 1..Len(acknowledged)
        /\ x.of <= Len(acknowledged[x.id])
        /\ \A k \in 1..x.of : ~ acknowledged[x.id][k].sensitive

\* The table holds nothing of the project but what came too late for its deletion.
GoneFrom(table, p) ==
    \A i \in 1..Len(table) : table[i] # Absent /\ table[i].owner = p => table[i].late

\* How far the deletion of its project has come, for a client that is at it.
OwnDeletion(u, a, e, n, dead) ==
    u.pc = "drop" =>
        /\ u.owner \in dead /\ u.id \in 1..5
        /\ u.id >= 2 => GoneFrom(a, u.owner)
        /\ u.id >= 3 => GoneFrom(e, u.owner)
        /\ u.id >= 4 => GoneFrom(n, u.owner)

ClientFits(u, a, e, n, dead, w) ==
    /\ OwnEdit(u, a) /\ OwnView(u, w) /\ OwnDeletion(u, a, e, n, dead)
    /\ u.pc = "summary" => u.owner \in Projects

ClientsFit == \A c \in Clients : ClientFits(cl[c], arts, edges, nodes, doomed, written)

\* Only what is deleted of a doomed project is absent, and an edge has its ends
\* among the nodes there ever were.
DeletionIsMarked ==
    /\ Projects \ projects \subseteq doomed
    /\ (\E n \in 1..Len(nodes) : nodes[n] = Absent) => doomed # {}
    /\ \A e \in 1..Len(edges) : edges[e] # Absent =>
          edges[e].from \in 1..Len(nodes) /\ edges[e].to \in 1..Len(nodes)

RowsInv == NoRevisionLost /\ SensitiveStays /\ DeletionIsMarked /\ DeletionIsClean

MemoryInv == MemoryTypeOK /\ ClientsFit /\ RowsInv
=============================================================================
