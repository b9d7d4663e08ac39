--------------------------- MODULE ProjectMemory ---------------------------
(***************************************************************************)
(* The durable memory of a project: artifacts with versions and a history, *)
(* and the knowledge graph, as memory/layers.py uses them through          *)
(* SessionStore (SQLite) or MongoSessionStore.                             *)
(*                                                                         *)
(* The clients are processes on one database.  Every SQL transaction and   *)
(* every Mongo command is one step; an operation that makes several of     *)
(* them can be cut off between them, or lose its ground to another client. *)
(* SQLite keeps the foreign keys, Mongo has none.  A value is reduced to   *)
(* who wrote it and whether it is sensitive; expiry is left out, and a     *)
(* refused operation changes nothing.                                      *)
(***************************************************************************)
EXTENDS Integers, Sequences, FiniteSets

CONSTANTS
    Clients,
    Projects,
    Global,          \* the owner of a GlobalMemory
    NoProject,       \* a ProjectMemory without a project
    MaxArtifacts,    \* bound: artifacts ever added
    MaxNodes,        \* bound: knowledge nodes ever added
    MaxEdges,        \* bound: knowledge edges ever added
    MaxWork,         \* bound: operations started
    Absent

Owners == Projects \cup {Global}

Value == [by : Clients, sensitive : BOOLEAN]

\* The rows of the tables: an artifact remembers its earlier values; late says
\* that the deletion of its project had begun when it was added.
Artifact ==
    [owner : Owners, value : Value, version : Nat, history : Seq(Value), late : BOOLEAN]
KnowledgeNode == [owner : Projects, late : BOOLEAN]
KnowledgeEdge == [owner : Projects, from : Nat, to : Nat, late : BOOLEAN]

ASSUME MemoryAssumption ==
    /\ Clients # {} /\ Projects # {}
    /\ Global \notin Projects /\ NoProject \notin Owners
    /\ {MaxArtifacts, MaxNodes, MaxEdges, MaxWork} \subseteq Nat
    /\ Absent \notin Artifact /\ Absent \notin KnowledgeNode /\ Absent \notin KnowledgeEdge

VARIABLES
    backend,   \* "sqlite" or "mongo"
    projects,  \* the rows of projects
    arts,      \* the artifacts ever added: a row, or Absent once deleted
    nodes,     \* knowledge nodes ever added, likewise
    edges,     \* knowledge edges ever added, likewise
    events,    \* memory_events: <<project, event>>
    doomed,    \* the projects whose deletion was started
    written,   \* per artifact: the revisions acknowledged to their writers
    cl,        \* per client: the operation it is in and what it was shown
    work       \* operations started

memoryVars == <<backend, projects, arts, nodes, edges, events, doomed, written, cl, work>>

-----------------------------------------------------------------------------
\* A document written before versions existed has none; it counts as the first.
VersionOf(r) == IF r.version = 0 THEN 1 ELSE r.version

NewArtifact(o, v, version) ==
    [owner |-> o, value |-> v, version |-> version, history |-> <<>>,
     late |-> o \in doomed]

AtRest == [pc |-> "idle", owner |-> NoProject, id |-> 0, row |-> Absent,
           value |-> Absent, event |-> "none", out |-> {}]

\* One project holds an artifact and a knowledge node; the artifact is in Mongo
\* perhaps a document of an earlier release.
MemoryInit ==
    /\ backend \in {"sqlite", "mongo"}
    /\ projects = Projects /\ events = {} /\ doomed = {}
    /\ LET p == CHOOSE q \in Projects : TRUE
           v == [by |-> CHOOSE c \in Clients : TRUE, sensitive |-> FALSE] IN
       /\ \E version \in IF backend = "mongo" THEN {0, 1} ELSE {1} :
             arts = <<NewArtifact(p, v, version)>>
       /\ written = <<<<v>>>>
       /\ nodes = <<[owner |-> p, late |-> FALSE]>>
    /\ edges = <<>>
    /\ cl = [c \in Clients |-> AtRest]
    /\ work = 0

tables == <<projects, arts, nodes, edges, events, doomed, written>>

\* The foreign key on projects.
ProjectThere(o) == backend = "sqlite" /\ o \in Projects => o \in projects

Starts(c) == cl[c].pc = "idle" /\ work < MaxWork /\ work' = work + 1 /\ UNCHANGED backend
Goes(c, pc) == cl[c].pc = pc /\ UNCHANGED <<backend, work>>

-----------------------------------------------------------------------------
\* ScopedMemory.remember and add_artifact.
Remember(c, o, sensitive) ==
    /\ Starts(c) /\ Len(arts) < MaxArtifacts /\ ProjectThere(o)
    /\ LET v == [by |-> c, sensitive |-> sensitive] IN
       /\ arts' = Append(arts, NewArtifact(o, v, 1))
       /\ written' = Append(written, <<v>>)
    /\ UNCHANGED <<projects, nodes, edges, events, doomed, cl>>

\* update_artifact up to its write: the row is of this owner, its version is
\* the one expected, and a sensitive artifact stays sensitive.
Edit(c, o, id, sensitive) ==
    /\ Starts(c)
    /\ arts[id] # Absent /\ arts[id].owner = o
    /\ arts[id].value.sensitive => sensitive
    /\ cl' = [cl EXCEPT ![c] = [AtRest EXCEPT !.pc = "edit", !.owner = o, !.id = id,
                 !.row = arts[id], !.value = [by |-> c, sensitive |-> sensitive]]]
    /\ UNCHANGED tables

\* artifact_revision: the old row joins its own history.
Revision(r, v) ==
    [r EXCEPT !.value = v, !.version = VersionOf(r) + 1,
              !.history = Append(@, r.value)]

\* Variant: the row is written whatever its version is by now.
StillExpectedAlways(c) == arts[cl[c].id] # Absent

\* UPDATE ... WHERE id = ? AND version = ?, and the query of update_one.
StillExpected(c) ==
    /\ arts[cl[c].id] # Absent
    /\ VersionOf(arts[cl[c].id]) = VersionOf(cl[c].row)

WriteEdit(c) ==
    /\ Goes(c, "edit")
    /\ IF StillExpected(c)
       THEN /\ arts' = [arts EXCEPT ![cl[c].id] =
                  [Revision(cl[c].row, cl[c].value) EXCEPT !.late = arts[cl[c].id].late]]
            /\ written' = [written EXCEPT ![cl[c].id] = Append(@, cl[c].value)]
       ELSE UNCHANGED <<arts, written>>
    /\ cl' = [cl EXCEPT ![c] = AtRest]
    /\ UNCHANGED <<projects, nodes, edges, events, doomed>>

\* delete_artifact: looked up for its owner, deleted by its id.
Forget(c, o, id) ==
    /\ Starts(c)
    /\ arts[id] # Absent /\ arts[id].owner = o
    /\ cl' = [cl EXCEPT ![c] = [AtRest EXCEPT !.pc = "forget", !.owner = o, !.id = id]]
    /\ UNCHANGED tables

WriteForget(c) ==
    /\ Goes(c, "forget")
    /\ arts' = [arts EXCEPT ![cl[c].id] = Absent]
    /\ cl' = [cl EXCEPT ![c] = AtRest]
    /\ UNCHANGED <<projects, nodes, edges, events, doomed, written>>

-----------------------------------------------------------------------------
\* Variant: each revision is hidden by its own mark only.
HiddenByItself(r, v) == v.sensitive

\* render_artifact: a sensitive artifact hides every revision it ever had.
Hidden(r, v) == v.sensitive \/ r.value.sensitive

\* What a rendered artifact shows in clear.
Rendered(id) ==
    LET r == arts[id]
        all == Append(r.history, r.value)
    IN  {[id |-> id, owner |-> r.owner, revision |-> k, of |-> Len(all)] :
            k \in {j \in 1..Len(all) : ~ Hidden(r, all[j])}}

\* get_artifacts for an owner; ProjectMemory.recall without a project.
Recalled(o) == {id \in 1..Len(arts) : arts[id] # Absent /\ arts[id].owner = o}

\* exact, history and export of a memory, sensitive content not asked for.
Show(c, o) ==
    /\ Starts(c)
    /\ cl' = [cl EXCEPT ![c] = [AtRest EXCEPT !.owner = o,
                                   !.out = UNION {Rendered(id) : id \in Recalled(o)}]]
    /\ UNCHANGED tables

\* export_project: shown once its event is recorded.
ExportProject(c, p) ==
    /\ Starts(c) /\ p \in projects
    /\ cl' = [cl EXCEPT ![c] = [AtRest EXCEPT !.pc = "event", !.owner = p, !.event = "export",
                                   !.out = UNION {Rendered(id) : id \in Recalled(p)}]]
    /\ UNCHANGED tables

\* compress_project_artifacts: the artifacts are counted, the summary added
\* and the event recorded.
Compress(c, p) ==
    /\ Starts(c) /\ Recalled(p) # {}
    /\ cl' = [cl EXCEPT ![c] = [AtRest EXCEPT !.pc = "summary", !.owner = p]]
    /\ UNCHANGED tables

AddSummary(c) ==
    /\ Goes(c, "summary") /\ Len(arts) < MaxArtifacts /\ ProjectThere(cl[c].owner)
    /\ LET v == [by |-> c, sensitive |-> FALSE] IN
       /\ arts' = Append(arts, NewArtifact(cl[c].owner, v, 1))
       /\ written' = Append(written, <<v>>)
    /\ cl' = [cl EXCEPT ![c].pc = "event", ![c].event = "compression"]
    /\ UNCHANGED <<projects, nodes, edges, events, doomed>>

\* record_memory_event, the last step of both.
RecordEvent(c) ==
    /\ Goes(c, "event") /\ ProjectThere(cl[c].owner)
    /\ events' = events \cup {<<cl[c].owner, cl[c].event>>}
    /\ cl' = [cl EXCEPT ![c].pc = "idle", ![c].event = "none"]
    /\ UNCHANGED <<projects, arts, nodes, edges, doomed, written>>

-----------------------------------------------------------------------------
\* ProjectKnowledgeMemory.learn.
Learn(c, p) ==
    /\ Starts(c) /\ Len(nodes) < MaxNodes /\ ProjectThere(p)
    /\ nodes' = Append(nodes, [owner |-> p, late |-> p \in doomed])
    /\ UNCHANGED <<projects, arts, edges, events, doomed, written, cl>>

\* relate: the ends may be nodes of any project.
Relate(c, p, from, to) ==
    /\ Starts(c) /\ Len(edges) < MaxEdges /\ ProjectThere(p)
    /\ backend = "sqlite" => nodes[from] # Absent /\ nodes[to] # Absent
    /\ edges' = Append(edges, [owner |-> p, from |-> from, to |-> to, late |-> p \in doomed])
    /\ UNCHANGED <<projects, arts, nodes, events, doomed, written, cl>>

-----------------------------------------------------------------------------
\* delete_project_memory: the event, then the rows.
DeleteProject(c, p) ==
    /\ Starts(c) /\ ProjectThere(p)
    /\ events' = events \cup {<<p, "deletion_requested">>}
    /\ doomed' = doomed \cup {p}
    /\ cl' = [cl EXCEPT ![c] = [AtRest EXCEPT !.pc = "drop", !.owner = p, !.id = 1]]
    /\ UNCHANGED <<projects, arts, nodes, edges, written>>

Without(rows, gone(_)) == [i \in DOMAIN rows |->
    IF rows[i] # Absent /\ gone(rows[i]) THEN Absent ELSE rows[i]]

\* DELETE FROM projects: ON DELETE CASCADE takes the rest with it.
CascadeDelete(c) ==
    LET p == cl[c].owner
        Mine(r) == r.owner = p
        left == Without(nodes, Mine)
        Cut(e) == e.owner = p \/ left[e.from] = Absent \/ left[e.to] = Absent
    IN  /\ Goes(c, "drop") /\ backend = "sqlite"
        /\ projects' = projects \ {p}
        /\ arts' = Without(arts, Mine)
        /\ nodes' = left
        /\ edges' = Without(edges, Cut)
        /\ events' = {e \in events : e[1] # p}
        /\ cl' = [cl EXCEPT ![c] = AtRest]
        /\ UNCHANGED <<doomed, written>>

\* Variant: the project's row goes first.
MongoOrderRowFirst == <<"row", "artifacts", "edges", "nodes", "events">>

\* The delete commands of MongoSessionStore.delete_project_memory.
MongoOrder == <<"artifacts", "edges", "nodes", "events", "row">>

MongoDelete(c) ==
    LET p == cl[c].owner
        what == MongoOrder[cl[c].id]
        Mine(r) == r.owner = p
    IN  /\ Goes(c, "drop") /\ backend = "mongo"
        /\ arts' = IF what = "artifacts" THEN Without(arts, Mine) ELSE arts
        /\ edges' = IF what = "edges" THEN Without(edges, Mine) ELSE edges
        /\ nodes' = IF what = "nodes" THEN Without(nodes, Mine) ELSE nodes
        /\ events' = IF what = "events" THEN {e \in events : e[1] # p} ELSE events
        /\ projects' = IF what = "row" THEN projects \ {p} ELSE projects
        /\ cl' = [cl EXCEPT ![c] = IF cl[c].id = Len(MongoOrder) THEN AtRest
                                   ELSE [cl[c] EXCEPT !.id = cl[c].id + 1]]
        /\ UNCHANGED <<doomed, written>>

\* A client is killed, or its operation raises.
CutOff(c) ==
    /\ cl[c].pc # "idle"
    /\ cl' = [cl EXCEPT ![c] = AtRest]
    /\ UNCHANGED <<backend, tables, work>>

MemoryNext ==
    \E c \in Clients :
        \/ \E o \in Owners, s \in BOOLEAN :
              \/ Remember(c, o, s)
              \/ \E id \in 1..Len(arts) : Edit(c, o, id, s)
        \/ \E o \in Owners, id \in 1..Len(arts) : Forget(c, o, id)
        \/ \E o \in Owners \cup {NoProject} : Show(c, o)
        \/ \E p \in Projects :
              \/ ExportProject(c, p) \/ Compress(c, p) \/ DeleteProject(c, p) \/ Learn(c, p)
              \/ \E from, to \in 1..Len(nodes) : Relate(c, p, from, to)
        \/ WriteEdit(c) \/ WriteForget(c) \/ AddSummary(c) \/ RecordEvent(c)
        \/ CascadeDelete(c) \/ MongoDelete(c) \/ CutOff(c)

MemorySpec == MemoryInit /\ [][MemoryNext]_memoryVars

-----------------------------------------------------------------------------
\* Of two clients that revise the same version one is told of the conflict:
\* the history and the value of an artifact are exactly the revisions that
\* were acknowledged, in their order.
NoRevisionLost ==
    \A id \in 1..Len(arts) : arts[id] # Absent =>
        /\ Append(arts[id].history, arts[id].value) = written[id]
        /\ VersionOf(arts[id]) = Len(written[id])

\* No revision is shown in clear once the artifact is sensitive, also none
\* from before it was marked so.
SensitiveIsHidden ==
    \A c \in Clients : \A x \in cl[c].out :
        \A k \in 1..x.of : ~ written[x.id][k].sensitive

\* A memory shows artifacts of its own owner only, and without one nothing.
MemoryIsolated == \A c \in Clients : \A x \in cl[c].out : x.owner = cl[c].owner

\* What a memory shows is its own and not sensitive.
ShownIsPermitted == SensitiveIsHidden /\ MemoryIsolated

\* A project that is gone has left nothing behind of what it held when its
\* deletion began: no deletion that was cut off or raced, and no edit or
\* compression under way, keeps or brings back a row of it.
DeletedIsGone ==
    \A p \in Projects \ projects :
        /\ \A id \in 1..Len(arts) : arts[id] # Absent /\ arts[id].owner = p => arts[id].late
        /\ \A n \in 1..Len(nodes) : nodes[n] # Absent /\ nodes[n].owner = p => nodes[n].late
        /\ \A e \in 1..Len(edges) : edges[e] # Absent /\ edges[e].owner = p => edges[e].late

\* An edge within one project has both its ends, also half way through a
\* deletion, unless it was added behind the deletion's back.
EdgesHaveEnds ==
    \A e \in 1..Len(edges) :
        edges[e] # Absent /\ ~ edges[e].late =>
            \A n \in {edges[e].from, edges[e].to} :
                nodes[n] = Absent => backend = "mongo" /\ \E p \in doomed : p # edges[e].owner

\* Deletion is clean on either backend, wherever it was cut off.
DeletionIsClean == DeletedIsGone /\ EdgesHaveEnds
=============================================================================
