-------------------------- MODULE TerminalSession --------------------------
(***************************************************************************)
(* AgentREPL of app/tui/app.py with SessionManager of                      *)
(* persistence/manager.py: the session a terminal works in, its transcript *)
(* and metered tokens, the target and network scope it gives the agent,    *)
(* and the permission mode and filesystem scope of its host controller.    *)
(*                                                                         *)
(* Terminals are processes on one database and one transcript directory,   *)
(* so any of them may resume a session another one works in.  A terminal   *)
(* reads one input at a time and handles it in one step, but for a run of  *)
(* the agent, which can be cancelled, and the write of a transcript, which *)
(* can be cut short.  A conversation is reduced to the sessions its        *)
(* messages are from, and a run to one token.  The branch for a pending    *)
(* action is left out: nothing that is still called ever sets one.         *)
(***************************************************************************)
EXTENDS Integers, Sequences, FiniteSets

CONSTANTS
    Terminals,
    Hosts,         \* targets an operator may name
    Placeholder,   \* target.example.com
    NoHost,
    Roots,         \* filesystem scopes
    MaxSessions,   \* bound: sessions in the database
    MaxInputs      \* bound: inputs given to all terminals

ASSUME TerminalAssumption ==
    /\ {Placeholder, NoHost} \cap Hosts = {} /\ Placeholder # NoHost
    /\ Roots # {} /\ MaxSessions \in Nat \ {0} /\ MaxInputs \in Nat

VARIABLES
    rows,         \* sessions: [focus, status]
    transcripts,  \* per session: its file: the sessions its messages are from
    metered,      \* per session: the tokens in its usage row
    completed,    \* per session: the runs that returned in it
    term,         \* per terminal: see Terminal
    llm,          \* per terminal: tokens its client has counted
    seen,         \* what host operations ran under: <<shown, in force>>
    inputs        \* inputs so far

terminalVars == <<rows, transcripts, metered, completed, term, llm, seen, inputs>>

-----------------------------------------------------------------------------
Sessions == 1..MaxSessions
PermissionModes == <<"plan", "ask", "auto">>
Nowhere == [mode |-> "none", roots |-> "none"]

\* The attributes of AgentREPL: the session (0 for none), _current_target,
\* _scope_entries and the agent's scope, _conversation_history (which is the
\* agent's own list, too), mode and filesystem scope, and those of the cached
\* host controller; since holds the token count when a run began, -1 for none.
Terminal ==
    [up |-> FALSE, sid |-> 0, target |-> NoHost, entries |-> {}, scope |-> {},
     conv |-> {}, mode |-> "ask", roots |-> CHOOSE r \in Roots : TRUE,
     ctl |-> Nowhere, since |-> -1]

\* One closed session with messages is there, left by an earlier release.
TerminalInit ==
    /\ \E f \in Hosts \cup {NoHost} : rows = <<[focus |-> f, status |-> "closed"]>>
    /\ transcripts = [s \in Sessions |-> IF s = 1 THEN {1} ELSE {}]
    /\ metered = [s \in Sessions |-> 0] /\ completed = [s \in Sessions |-> 0]
    /\ term = [t \in Terminals |-> Terminal]
    /\ llm = [t \in Terminals |-> 0]
    /\ seen = {} /\ inputs = 0

\* A terminal at its prompt takes an input and stays where it is but for term'.
Input(t) == term[t].up /\ term[t].since = -1 /\ inputs < MaxInputs /\ inputs' = inputs + 1

Becomes(t, u) == term' = [term EXCEPT ![t] = u]

-----------------------------------------------------------------------------
\* update_session, and _save_session of terminal t: the transcript is written
\* and the session closed.
WithStatus(rs, s, status) == [rs EXCEPT ![s].status = status]
SavedRows(t) == IF term[t].sid = 0 THEN rows ELSE WithStatus(rows, term[t].sid, "closed")
SavedFiles(t) ==
    IF term[t].sid = 0 THEN transcripts
    ELSE [transcripts EXCEPT ![term[t].sid] = term[t].conv]

\* Variant: the target's scope is set in any case.
ScopeForAlways(u, hosts) == hosts

\* set_scope is called for targets only as long as no scope was given.
ScopeFor(u, hosts) == IF u.entries = {} THEN hosts ELSE u.scope

\* What _resume_session restores once it has saved the session of before.  A
\* session without a focus leaves the scope of before in force.
Resumed(t, s) ==
    LET u == term[t]
    IN  [u EXCEPT !.up = TRUE, !.sid = s, !.target = rows[s].focus,
                  !.conv = SavedFiles(t)[s],
                  !.scope = IF rows[s].focus = NoHost THEN @ ELSE ScopeFor(u, {rows[s].focus})]

\* _resume_session, also of the session this or another terminal works in.
Resume(t, s) ==
    /\ transcripts' = SavedFiles(t)
    /\ rows' = WithStatus(SavedRows(t), s, "active")
    /\ Becomes(t, Resumed(t, s))
    /\ UNCHANGED <<metered, completed, seen>>

\* start_repl: a fresh agent without scope; --resume and --continue.
Launch(t, s) ==
    /\ ~ term[t].up /\ inputs < MaxInputs /\ inputs' = inputs + 1
    /\ IF s # 0 THEN Resume(t, s)
       ELSE /\ Becomes(t, [Terminal EXCEPT !.up = TRUE])
            /\ UNCHANGED <<rows, transcripts, metered, completed, seen>>
    /\ llm' = [llm EXCEPT ![t] = 0]

\* /resume, and /continue where no session is active: the latest one.
HandleResume(t, s) == Input(t) /\ Resume(t, s) /\ UNCHANGED llm

HandleContinue(t) ==
    /\ Input(t) /\ term[t].sid = 0
    /\ Resume(t, Len(rows))
    /\ UNCHANGED llm

-----------------------------------------------------------------------------
\* create_session
Created(rs, focus) == Append(rs, [focus |-> focus, status |-> "active"])

\* Variant: the conversation is left as it is.
StartKeeping(t, h) ==
    LET target == IF h = NoHost THEN term[t].target ELSE h
        focus == IF target = NoHost THEN Placeholder ELSE target
    IN  /\ Len(rows) < MaxSessions
        /\ transcripts' = SavedFiles(t)
        /\ rows' = Created(SavedRows(t), focus)
        /\ Becomes(t, [term[t] EXCEPT !.target = target, !.sid = Len(rows'),
                                      !.scope = ScopeFor(term[t], {focus})])

\* _handle_start: the old session is saved, and the conversation begins anew.
Start(t, h) ==
    LET target == IF h = NoHost THEN term[t].target ELSE h
        focus == IF target = NoHost THEN Placeholder ELSE target
    IN  /\ Len(rows) < MaxSessions
        /\ transcripts' = SavedFiles(t)
        /\ rows' = Created(SavedRows(t), focus)
        /\ Becomes(t, [term[t] EXCEPT !.target = target, !.sid = Len(rows'), !.conv = {},
                                      !.scope = ScopeFor(term[t], {focus})])

HandleStart(t, h) ==
    /\ Input(t) /\ Start(t, h)
    /\ UNCHANGED <<metered, completed, llm, seen>>

\* _handle_target: without a session it starts one.
HandleTarget(t, h) ==
    /\ Input(t)
    /\ IF term[t].sid = 0 THEN Start(t, h)
       ELSE /\ Becomes(t, [term[t] EXCEPT !.target = h, !.scope = ScopeFor(term[t], {h})])
            /\ UNCHANGED <<rows, transcripts>>
    /\ UNCHANGED <<metered, completed, llm, seen>>

\* _handle_scope; the entries may be none.
HandleScope(t, hs) ==
    /\ Input(t)
    /\ \E first \in IF hs = {} THEN {NoHost} ELSE hs :
          Becomes(t, [term[t] EXCEPT !.entries = hs, !.scope = hs,
                         !.target = IF @ = NoHost THEN first ELSE @])
    /\ UNCHANGED <<rows, transcripts, metered, completed, llm, seen>>

\* _handle_reset, and /clear.
HandleReset(t) ==
    /\ Input(t)
    /\ transcripts' = SavedFiles(t) /\ rows' = SavedRows(t)
    /\ Becomes(t, [term[t] EXCEPT !.sid = 0, !.conv = {}])
    /\ UNCHANGED <<metered, completed, llm, seen>>

HandleClear(t) ==
    /\ Input(t)
    /\ Becomes(t, [term[t] EXCEPT !.conv = {}])
    /\ UNCHANGED <<rows, transcripts, metered, completed, llm, seen>>

\* _handle_checkpoint, as far as the transcript; for the task see AgentLoop.
HandleCheckpoint(t) ==
    /\ Input(t) /\ term[t].sid # 0
    /\ transcripts' = SavedFiles(t)
    /\ UNCHANGED <<rows, metered, completed, term, llm, seen>>

\* _exit, by command or key.
Exit(t) ==
    /\ Input(t)
    /\ transcripts' = SavedFiles(t) /\ rows' = SavedRows(t)
    /\ Becomes(t, Terminal)
    /\ UNCHANGED <<metered, completed, llm, seen>>

\* The terminal is killed, perhaps while it writes a transcript: what is left
\* of the file is no JSON, which load_transcript takes for an empty one.
Killed(t, writing) ==
    /\ term[t].up
    /\ writing => term[t].sid # 0 /\ term[t].since = -1
    /\ transcripts' = IF writing THEN [transcripts EXCEPT ![term[t].sid] = {}] ELSE transcripts
    /\ Becomes(t, Terminal)
    /\ UNCHANGED <<rows, metered, completed, llm, seen, inputs>>

-----------------------------------------------------------------------------
\* _chat_loop and _handle_agent up to the await: a host named in the text
\* becomes the target where there is none, and _ensure_session makes a session
\* where there is none.
BeginRun(t, h) ==
    LET target == IF term[t].target = NoHost THEN h ELSE term[t].target
        u == [term[t] EXCEPT !.target = target, !.since = llm[t]]
    IN  /\ Input(t)
        /\ IF term[t].sid # 0 THEN Becomes(t, u) /\ UNCHANGED rows
           ELSE /\ Len(rows) < MaxSessions
                /\ rows' = Created(rows, target)
                /\ Becomes(t, [u EXCEPT !.sid = Len(rows'),
                       !.scope = IF target = NoHost THEN @ ELSE ScopeFor(u, {target})])
        /\ UNCHANGED <<transcripts, metered, completed, llm, seen>>

\* _meter_usage: what the client has counted since the run began.
Meter(t) == llm'[t] - term[t].since

\* The run returns: usage and run are recorded in the session.
RunReturns(t) ==
    /\ term[t].since # -1
    /\ llm' = [llm EXCEPT ![t] = @ + 1]
    /\ metered' = [metered EXCEPT ![term[t].sid] = @ + Meter(t)]
    /\ completed' = [completed EXCEPT ![term[t].sid] = @ + 1]
    /\ Becomes(t, [term[t] EXCEPT !.since = -1])
    /\ UNCHANGED <<rows, transcripts, seen, inputs>>

\* Ctrl+C or an exception, caught by _run: the tokens stay counted by the
\* client and are recorded nowhere.
RunFails(t) ==
    /\ term[t].since # -1
    /\ llm' = [llm EXCEPT ![t] = @ + 1]
    /\ Becomes(t, [term[t] EXCEPT !.since = -1])
    /\ UNCHANGED <<rows, transcripts, metered, completed, seen, inputs>>

-----------------------------------------------------------------------------
\* _handle_mode and _cycle_mode; _handle_fsscope.
HandleMode(t, i) ==
    /\ Input(t) /\ term[t].mode # PermissionModes[i]
    /\ Becomes(t, [term[t] EXCEPT !.mode = PermissionModes[i]])
    /\ UNCHANGED <<rows, transcripts, metered, completed, llm, seen>>

HandleFsscope(t, r) ==
    /\ Input(t) /\ term[t].roots # r
    /\ Becomes(t, [term[t] EXCEPT !.roots = r])
    /\ UNCHANGED <<rows, transcripts, metered, completed, llm, seen>>

Shown(u) == [mode |-> u.mode, roots |-> u.roots]

\* _host_controller: made once, then given the mode and scope of now.
Controller(u) ==
    IF u.ctl = Nowhere THEN Shown(u)
    ELSE [u.ctl EXCEPT !.mode = u.mode, !.roots = u.roots]

\* /run, /read, /ls, /ps and !
HandleHost(t) ==
    /\ Input(t)
    /\ LET ctl == Controller(term[t]) IN
       /\ Becomes(t, [term[t] EXCEPT !.ctl = ctl])
       /\ seen' = seen \cup {<<Shown(term[t]), ctl>>}
    /\ UNCHANGED <<rows, transcripts, metered, completed, llm>>

TerminalNext ==
    \E t \in Terminals :
        \/ Launch(t, 0) \/ HandleReset(t) \/ HandleClear(t) \/ HandleCheckpoint(t) \/ Exit(t)
        \/ HandleContinue(t) \/ RunReturns(t) \/ RunFails(t) \/ HandleHost(t)
        \/ \E w \in BOOLEAN : Killed(t, w)
        \/ \E s \in 1..Len(rows) : Launch(t, s) \/ HandleResume(t, s)
        \/ \E h \in Hosts : HandleTarget(t, h)
        \/ \E h \in Hosts \cup {NoHost} : HandleStart(t, h) \/ BeginRun(t, h)
        \/ \E hs \in SUBSET Hosts : HandleScope(t, hs)
        \/ \E i \in 1..3 : HandleMode(t, i)
        \/ \E r \in Roots : HandleFsscope(t, r)

TerminalSpec == TerminalInit /\ [][TerminalNext]_terminalVars

-----------------------------------------------------------------------------
\* Messages of one session never get into another: neither into a terminal's
\* conversation (what the agent is shown) nor into a transcript, in whatever
\* order terminals start, resume, reset and save sessions.
ConversationIsOwn ==
    /\ \A t \in Terminals : term[t].conv \subseteq {term[t].sid}
    /\ \A s \in Sessions : transcripts[s] \subseteq {s}

\* A scope the operator gave stays the agent's scope, whatever targets are
\* named or detected and whatever sessions are started or resumed after it.
GivenScopeHolds ==
    \A t \in Terminals : term[t].entries # {} => term[t].scope = term[t].entries

\* A session is billed for the runs that returned in it and for nothing else:
\* not for cancelled ones, for those of other sessions of the terminal, or
\* twice, also when two terminals work in it.
BilledOnce == \A s \in Sessions : metered[s] = completed[s]

\* A host operation runs under the mode and filesystem scope the terminal
\* shows, although the controller is made once.
HostSeesCurrent == \A x \in seen : x[1] = x[2]

\* A session's messages and its bill are its own.
SessionIsOwn == ConversationIsOwn /\ BilledOnce

\* What the operator chose is in force wherever it is used: the network scope
\* for the agent, mode and filesystem scope for host operations.
OperatorChoiceHolds == GivenScopeHolds /\ HostSeesCurrent
=============================================================================
