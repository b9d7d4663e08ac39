--------------------------- MODULE SessionProofs ---------------------------
(***************************************************************************)
(* The invariants of SessionInvariant are inductive: for any terminals,    *)
(* targets and bounds, any models and ranking, and any catalogue.  So      *)
(* sessions keep to themselves, the operator's choice is in force, data    *)
(* reaches only models that may have it, and usage is recorded under the   *)
(* model that caused it.                                                   *)
(***************************************************************************)
EXTENDS SessionInvariant, SequenceTheorems, FiniteSetTheorems, WellFoundedInduction, TLAPS

\* What the invariant says of one terminal.
Sound(u, n) ==
    /\ u.conv \subseteq {u.sid}
    /\ u.entries # {} => u.scope = u.entries
    /\ u.since # -1 => u.up /\ u.sid # 0 /\ u.since = n

LEMMA TerminalOf ==
    ASSUME TerminalInv, NEW t \in Terminals
    PROVE  /\ term[t] \in TerminalStates /\ llm[t] \in Nat /\ Sound(term[t], llm[t])
           /\ Len(rows) \in 1..MaxSessions \/ term[t].sid = 0
           /\ term[t].sid \in 0..Len(rows) /\ Len(rows) \in Nat
           /\ term[t].sid # 0 => term[t].sid \in 1..Len(rows) /\ term[t].sid \in Sessions
<1>1. term[t] \in TerminalStates /\ llm[t] \in Nat BY DEF TerminalInv, TerminalTypeOK
<1>2. rows \in Seq(SessionRows) /\ Len(rows) <= MaxSessions BY DEF TerminalInv, TerminalTypeOK
<1>3. Len(rows) \in Nat BY <1>2, LenProperties
<1>4. term[t].sid \in Nat BY <1>1 DEF TerminalStates
<1>5. term[t].sid <= Len(rows) BY DEF TerminalInv, RunsAreCounted
<1>6. Sound(term[t], llm[t])
  BY DEF TerminalInv, RunsAreCounted, SessionIsOwn, ConversationIsOwn, OperatorChoiceHolds,
         GivenScopeHolds, Sound
<1>7. QED BY <1>1, <1>2, <1>3, <1>4, <1>5, <1>6, TerminalAssumption DEF Sessions

\* The terminal of a process that has just begun, or has ended.
LEMMA FreshTerminal ==
    /\ Terminal \in TerminalStates /\ Terminal.sid = 0 /\ Terminal.since = -1 /\ Terminal.up = FALSE
    /\ Terminal.conv = {} /\ Terminal.entries = {} /\ \A n \in Nat : Sound(Terminal, n)
<1>1. (CHOOSE r \in Roots : TRUE) \in Roots BY TerminalAssumption
<1>2. QED BY <1>1 DEF Terminal, TerminalStates, Targets, Modes, Nowhere, Sound

\* A step of one terminal keeps the invariant if what it makes of itself is
\* sound, and the files stay their sessions' own.
LEMMA TerminalKeepsInv ==
    ASSUME TerminalInv, NEW t \in Terminals, NEW u \in TerminalStates,
           term' = [term EXCEPT ![t] = u],
           rows' \in Seq(SessionRows), Len(rows') <= MaxSessions, Len(rows) <= Len(rows'),
           u.sid <= Len(rows'),
           transcripts' \in [Sessions -> SUBSET Sessions],
           \A s \in Sessions : transcripts'[s] \subseteq {s},
           NEW n \in Nat, llm' = [llm EXCEPT ![t] = n], Sound(u, n),
           metered' \in [Sessions -> Nat], completed' \in [Sessions -> Nat], BilledOnce',
           HostSeesCurrent', inputs' \in Nat
    PROVE  TerminalInv'
<1>1. /\ term \in [Terminals -> TerminalStates] /\ llm \in [Terminals -> Nat]
      /\ rows \in Seq(SessionRows)
  BY DEF TerminalInv, TerminalTypeOK
<1>2. /\ term' \in [Terminals -> TerminalStates] /\ llm' \in [Terminals -> Nat]
      /\ term'[t] = u /\ llm'[t] = n
      /\ \A x \in Terminals : x # t => term'[x] = term[x] /\ llm'[x] = llm[x]
  BY <1>1
<1>3. Len(rows) \in Nat /\ Len(rows') \in Nat /\ Len(rows) \in 1..MaxSessions
  BY <1>1, LenProperties DEF TerminalInv, TerminalTypeOK
<1>4. TerminalTypeOK'
  <2>1. Len(rows') \in 1..MaxSessions BY <1>3, TerminalAssumption
  <2>2. QED BY <1>2, <2>1 DEF TerminalTypeOK
<1>5. ASSUME NEW x \in Terminals
      PROVE  Sound(term'[x], llm'[x]) /\ term'[x].sid <= Len(rows')
  <2>1. CASE x = t BY <1>2, <2>1
  <2>2. CASE x # t
    <3>1. Sound(term[x], llm[x]) /\ term[x].sid \in 0..Len(rows) BY TerminalOf
    <3>2. QED BY <1>2, <1>3, <2>2, <3>1
  <2>3. QED BY <2>1, <2>2
<1>6. RunsAreCounted' BY <1>5 DEF RunsAreCounted, Sound
<1>7. SessionIsOwn' BY <1>5 DEF SessionIsOwn, ConversationIsOwn, Sound
<1>8. OperatorChoiceHolds' BY <1>5 DEF OperatorChoiceHolds, GivenScopeHolds, Sound
<1>9. QED BY <1>4, <1>6, <1>7, <1>8 DEF TerminalInv

\* The same of a step that leaves sessions, bills and clients alone.
LEMMA InputKeepsInv ==
    ASSUME TerminalInv, NEW t \in Terminals, NEW u \in TerminalStates, Becomes(t, u),
           UNCHANGED <<rows, transcripts, metered, completed, llm>>,
           u.sid \in {0, term[t].sid}, Sound(u, llm[t]), HostSeesCurrent', inputs' \in Nat
    PROVE  TerminalInv'
<1>1. llm \in [Terminals -> Nat] /\ rows \in Seq(SessionRows) /\ Len(rows) <= MaxSessions
      /\ transcripts \in [Sessions -> SUBSET Sessions]
      /\ metered \in [Sessions -> Nat] /\ completed \in [Sessions -> Nat]
  BY DEF TerminalInv, TerminalTypeOK
<1>2. llm' = [llm EXCEPT ![t] = llm[t]] /\ llm[t] \in Nat BY <1>1
<1>3. Len(rows) \in Nat /\ term[t].sid \in 0..Len(rows) BY TerminalOf
<1>4. BilledOnce' /\ \A s \in Sessions : transcripts'[s] \subseteq {s}
  BY DEF TerminalInv, SessionIsOwn, ConversationIsOwn, BilledOnce
<1>5. u.sid <= Len(rows') /\ Len(rows) <= Len(rows') /\ Len(rows') <= MaxSessions BY <1>1, <1>3
<1>6. term' = [term EXCEPT ![t] = u] BY DEF Becomes
<1>7. QED BY <1>1, <1>2, <1>4, <1>5, <1>6, TerminalKeepsInv

-----------------------------------------------------------------------------
\* The rows of sessions of which one is marked or to which one is added.
LEMMA MarkedRows ==
    ASSUME NEW rs \in Seq(SessionRows), NEW s \in 1..Len(rs), NEW status \in {"active", "closed"}
    PROVE  WithStatus(rs, s, status) \in Seq(SessionRows) /\ Len(WithStatus(rs, s, status)) = Len(rs)
<1> DEFINE r == [rs[s] EXCEPT !.status = status]
<1>1. rs[s] \in SessionRows BY ElementOfSeq
<1>2. r \in SessionRows BY <1>1 DEF SessionRows
<1>3. WithStatus(rs, s, status) = [rs EXCEPT ![s] = r] BY DEF WithStatus
<1> HIDE DEF r
<1>4. QED BY <1>2, <1>3, ExceptSeq

LEMMA CreatedRows ==
    ASSUME NEW rs \in Seq(SessionRows), NEW focus \in Targets
    PROVE  /\ Created(rs, focus) \in Seq(SessionRows)
           /\ Len(Created(rs, focus)) = Len(rs) + 1
<1> DEFINE r == [focus |-> focus, status |-> "active"]
<1>1. r \in SessionRows BY DEF SessionRows
<1>2. Created(rs, focus) = Append(rs, r) BY DEF Created
<1> HIDE DEF r
<1>3. QED BY <1>1, <1>2, AppendProperties

\* Saving a session changes no other session's file, and its own to messages
\* of its own.
LEMMA SavedIsOwn ==
    ASSUME TerminalInv, NEW t \in Terminals
    PROVE  /\ SavedRows(t) \in Seq(SessionRows) /\ Len(SavedRows(t)) = Len(rows)
           /\ SavedFiles(t) \in [Sessions -> SUBSET Sessions]
           /\ \A s \in Sessions : SavedFiles(t)[s] \subseteq {s}
<1>1. /\ rows \in Seq(SessionRows) /\ transcripts \in [Sessions -> SUBSET Sessions]
      /\ \A s \in Sessions : transcripts[s] \subseteq {s}
  BY DEF TerminalInv, TerminalTypeOK, SessionIsOwn, ConversationIsOwn
<1>2. CASE term[t].sid = 0 BY <1>1, <1>2 DEF SavedRows, SavedFiles
<1>3. CASE term[t].sid # 0
  <2>1. /\ term[t].sid \in 1..Len(rows) /\ term[t].sid \in Sessions
        /\ term[t].conv \in SUBSET Sessions /\ term[t].conv \subseteq {term[t].sid}
    BY <1>3, TerminalOf DEF TerminalStates, Sound
  <2>2. SavedRows(t) \in Seq(SessionRows) /\ Len(SavedRows(t)) = Len(rows)
    BY <1>1, <1>3, <2>1, MarkedRows DEF SavedRows
  <2>3. SavedFiles(t) = [transcripts EXCEPT ![term[t].sid] = term[t].conv] BY <1>3 DEF SavedFiles
  <2>4. QED BY <1>1, <2>1, <2>2, <2>3
<1>4. QED BY <1>2, <1>3

\* What a step leaves of bills and host operations.
LEMMA Unbilled ==
    ASSUME TerminalInv, UNCHANGED <<metered, completed>>
    PROVE  metered' \in [Sessions -> Nat] /\ completed' \in [Sessions -> Nat] /\ BilledOnce'
  BY DEF TerminalInv, TerminalTypeOK, SessionIsOwn, BilledOnce

LEMMA Unseen ==
    ASSUME TerminalInv, UNCHANGED seen PROVE HostSeesCurrent'
  BY DEF TerminalInv, OperatorChoiceHolds, HostSeesCurrent

-----------------------------------------------------------------------------
\* Resuming takes up a session's own messages.
LEMMA ResumeKeepsInv ==
    ASSUME TerminalInv, NEW t \in Terminals, NEW s \in 1..Len(rows), term[t].since = -1,
           Resume(t, s), NEW n \in Nat, llm' = [llm EXCEPT ![t] = n], inputs' \in Nat
    PROVE  TerminalInv'
<1> DEFINE u == Resumed(t, s)
<1>1. /\ rows \in Seq(SessionRows) /\ Len(rows) <= MaxSessions /\ Len(rows) \in Nat
      /\ term[t] \in TerminalStates /\ Sound(term[t], llm[t])
  BY TerminalOf DEF TerminalInv, TerminalTypeOK
<1>2. rows[s] \in SessionRows BY <1>1, ElementOfSeq
<1>3. rows[s].focus \in Targets BY <1>2 DEF SessionRows
<1>4. s \in Sessions BY <1>1, TerminalAssumption DEF Sessions
<1>5. SavedFiles(t)[s] \in SUBSET Sessions /\ SavedFiles(t)[s] \subseteq {s} BY <1>4, SavedIsOwn
<1>6. u \in TerminalStates /\ u.sid = s /\ u.since = -1 /\ u.conv = SavedFiles(t)[s]
      /\ u.entries = term[t].entries
      /\ (u.entries # {} => u.scope = term[t].scope)
  <2> DEFINE focus == rows[s].focus
             conv == SavedFiles(t)[s]
             scope == IF focus = NoHost THEN term[t].scope ELSE ScopeFor(term[t], {focus})
  <2>1. u = [term[t] EXCEPT !.up = TRUE, !.sid = s, !.target = focus, !.conv = conv, !.scope = scope]
    BY <1>1 DEF Resumed, TerminalStates
  <2>2. term[t].scope \in SUBSET Targets BY <1>1 DEF TerminalStates
  <2>3. scope \in SUBSET Targets /\ (term[t].entries # {} => scope = term[t].scope)
    BY <1>3, <2>2 DEF ScopeFor
  <2>4. focus \in Targets /\ conv \in SUBSET Sessions /\ s \in Nat BY <1>3, <1>4, <1>5 DEF Sessions
  <2> HIDE DEF u, focus, conv, scope
  <2>5. /\ u \in TerminalStates /\ u.sid = s /\ u.since = term[t].since /\ u.conv = conv
        /\ u.entries = term[t].entries /\ u.scope = scope
    BY <1>1, <2>1, <2>3, <2>4 DEF TerminalStates
  <2>6. QED BY <2>3, <2>5 DEF conv
<1>7. Sound(u, n) BY <1>1, <1>5, <1>6 DEF Sound
<1>8. /\ rows' = WithStatus(SavedRows(t), s, "active") /\ transcripts' = SavedFiles(t)
      /\ term' = [term EXCEPT ![t] = u] /\ UNCHANGED <<metered, completed, seen>>
  BY DEF Resume, Becomes
<1>9. s \in 1..Len(SavedRows(t)) /\ SavedRows(t) \in Seq(SessionRows) BY SavedIsOwn
<1>10. rows' \in Seq(SessionRows) /\ Len(rows') = Len(rows)
  BY <1>8, <1>9, MarkedRows, SavedIsOwn
<1> HIDE DEF u
<1>11. u.sid <= Len(rows') /\ Len(rows) <= Len(rows') /\ Len(rows') <= MaxSessions
  BY <1>1, <1>6, <1>10
<1>12. transcripts' \in [Sessions -> SUBSET Sessions] /\ \A x \in Sessions : transcripts'[x] \subseteq {x}
  BY <1>8, SavedIsOwn
<1>13. QED
  BY <1>6, <1>7, <1>8, <1>10, <1>11, <1>12, Unbilled, Unseen, TerminalKeepsInv

LEMMA LaunchKeepsInv ==
    ASSUME TerminalInv, NEW t \in Terminals, NEW s \in 0..Len(rows), Launch(t, s)
    PROVE  TerminalInv'
<1>1. /\ term[t].since = -1 /\ inputs' \in Nat /\ llm \in [Terminals -> Nat]
      /\ rows \in Seq(SessionRows) /\ Len(rows) \in Nat /\ Len(rows) <= MaxSessions
      /\ transcripts \in [Sessions -> SUBSET Sessions]
  BY TerminalOf DEF Launch, Sound, TerminalInv, TerminalTypeOK
<1>2. llm' = [llm EXCEPT ![t] = 0] /\ 0 \in Nat BY DEF Launch
<1>3. CASE s # 0
  <2>1. s \in 1..Len(rows) /\ Resume(t, s) BY <1>3 DEF Launch
  <2>2. QED BY <1>1, <1>2, <2>1, ResumeKeepsInv
<1>4. CASE s = 0
  <2> DEFINE u == [Terminal EXCEPT !.up = TRUE]
  <2>1. term' = [term EXCEPT ![t] = u] /\ UNCHANGED <<rows, transcripts, metered, completed, seen>>
    BY <1>4 DEF Launch, Becomes
  <2>2. u \in TerminalStates /\ u.sid = 0 /\ Sound(u, 0)
    BY FreshTerminal DEF Sound, TerminalStates
  <2> HIDE DEF u
  <2>3. /\ transcripts' \in [Sessions -> SUBSET Sessions]
        /\ \A x \in Sessions : transcripts'[x] \subseteq {x}
    BY <1>1, <2>1 DEF TerminalInv, SessionIsOwn, ConversationIsOwn
  <2>4. /\ rows' \in Seq(SessionRows) /\ Len(rows') <= MaxSessions /\ Len(rows) <= Len(rows')
        /\ u.sid <= Len(rows')
    BY <1>1, <2>1, <2>2
  <2>5. QED BY <1>1, <1>2, <2>1, <2>2, <2>3, <2>4, Unbilled, Unseen, TerminalKeepsInv
<1>5. QED BY <1>3, <1>4

\* A new session begins with an empty conversation.
LEMMA StartKeepsInv ==
    ASSUME TerminalInv, NEW t \in Terminals, NEW h \in Hosts \cup {NoHost}, term[t].since = -1,
           Start(t, h), UNCHANGED <<metered, completed, llm, seen>>, inputs' \in Nat
    PROVE  TerminalInv'
<1> DEFINE target == IF h = NoHost THEN term[t].target ELSE h
           focus == IF target = NoHost THEN Placeholder ELSE target
           u == [term[t] EXCEPT !.target = target, !.sid = Len(rows'), !.conv = {},
                                !.scope = ScopeFor(term[t], {focus})]
<1>1. /\ rows \in Seq(SessionRows) /\ Len(rows) <= MaxSessions /\ Len(rows) \in Nat
      /\ term[t] \in TerminalStates /\ Sound(term[t], llm[t]) /\ llm[t] \in Nat
      /\ llm \in [Terminals -> Nat]
  BY TerminalOf DEF TerminalInv, TerminalTypeOK
<1>2. target \in Targets /\ focus \in Targets BY <1>1 DEF TerminalStates, Targets
<1>3. /\ Len(rows) < MaxSessions /\ transcripts' = SavedFiles(t)
      /\ rows' = Created(SavedRows(t), focus) /\ term' = [term EXCEPT ![t] = u]
  BY DEF Start, Becomes
<1> HIDE DEF target, focus
<1>4. rows' \in Seq(SessionRows) /\ Len(rows') = Len(rows) + 1
  BY <1>2, <1>3, SavedIsOwn, CreatedRows
<1>5. Len(rows') \in Nat /\ Len(rows') <= MaxSessions
  BY <1>1, <1>3, <1>4, TerminalAssumption
<1>6. /\ u \in TerminalStates /\ u.sid = Len(rows') /\ u.conv = {} /\ u.since = -1
      /\ u.entries = term[t].entries /\ (u.entries # {} => u.scope = term[t].scope)
  BY <1>1, <1>2, <1>5 DEF TerminalStates, ScopeFor
<1>7. Sound(u, llm[t]) BY <1>1, <1>6 DEF Sound
<1>8. llm' = [llm EXCEPT ![t] = llm[t]] BY <1>1
<1>9. transcripts' \in [Sessions -> SUBSET Sessions] /\ \A x \in Sessions : transcripts'[x] \subseteq {x}
  BY <1>3, SavedIsOwn
<1> HIDE DEF u
<1>10. u.sid <= Len(rows') /\ Len(rows) <= Len(rows') BY <1>1, <1>4, <1>5, <1>6
<1>11. QED
  BY <1>1, <1>3, <1>4, <1>5, <1>6, <1>7, <1>8, <1>9, <1>10, Unbilled, Unseen, TerminalKeepsInv

\* Closing a session, or a terminal, saves it and leaves nothing in it.
LEMMA CloseKeepsInv ==
    ASSUME TerminalInv, NEW t \in Terminals, NEW u \in TerminalStates, Becomes(t, u),
           u.sid = 0, u.conv = {}, u.since = -1, u.entries # {} => u.scope = u.entries,
           transcripts' = SavedFiles(t), rows' = SavedRows(t),
           UNCHANGED <<metered, completed, llm, seen>>, inputs' \in Nat
    PROVE  TerminalInv'
<1>1. /\ Len(rows) <= MaxSessions /\ Len(rows) \in Nat /\ llm[t] \in Nat
      /\ llm' = [llm EXCEPT ![t] = llm[t]] /\ term' = [term EXCEPT ![t] = u]
  BY TerminalOf DEF TerminalInv, TerminalTypeOK, Becomes
<1>2. Sound(u, llm[t]) BY DEF Sound
<1>3. rows' \in Seq(SessionRows) /\ Len(rows') = Len(rows) BY SavedIsOwn
<1>4. transcripts' \in [Sessions -> SUBSET Sessions] /\ \A x \in Sessions : transcripts'[x] \subseteq {x}
  BY SavedIsOwn
<1>5. u.sid <= Len(rows') /\ Len(rows) <= Len(rows') /\ Len(rows') <= MaxSessions
  BY <1>1, <1>3
<1>6. QED BY <1>1, <1>2, <1>3, <1>4, <1>5, Unbilled, Unseen, TerminalKeepsInv

-----------------------------------------------------------------------------
\* What an input that starts no run does to its terminal.
LEMMA PromptKeepsInv ==
    ASSUME TerminalInv, NEW t \in Terminals, Input(t),
           NEW u \in TerminalStates, Becomes(t, u),
           u.sid = term[t].sid, u.conv = term[t].conv \/ u.conv = {},
           u.since = term[t].since, u.entries # {} => u.scope = u.entries,
           UNCHANGED <<rows, transcripts, metered, completed, llm>>, HostSeesCurrent'
    PROVE  TerminalInv'
<1>1. term[t].since = -1 /\ inputs' \in Nat /\ Sound(term[t], llm[t])
  BY TerminalOf DEF Input, TerminalInv, TerminalTypeOK
<1>2. Sound(u, llm[t]) /\ u.sid \in {0, term[t].sid} BY <1>1 DEF Sound
<1>3. QED BY <1>1, <1>2, InputKeepsInv

LEMMA ChoicesKeepInv ==
    ASSUME TerminalInv, NEW t \in Terminals
    PROVE  /\ (\A hs \in SUBSET Hosts : HandleScope(t, hs) => TerminalInv')
           /\ (HandleClear(t) => TerminalInv')
           /\ (\A i \in 1..3 : HandleMode(t, i) => TerminalInv')
           /\ (\A r \in Roots : HandleFsscope(t, r) => TerminalInv')
           /\ (HandleHost(t) => TerminalInv')
<1>1. term[t] \in TerminalStates /\ Sound(term[t], llm[t]) BY TerminalOf
<1>2. ASSUME NEW hs \in SUBSET Hosts, HandleScope(t, hs) PROVE TerminalInv'
  <2>1. PICK first \in IF hs = {} THEN {NoHost} ELSE hs :
              Becomes(t, [term[t] EXCEPT !.entries = hs, !.scope = hs,
                             !.target = IF @ = NoHost THEN first ELSE @])
    BY <1>2 DEF HandleScope
  <2> DEFINE target == IF term[t].target = NoHost THEN first ELSE term[t].target
             u == [term[t] EXCEPT !.entries = hs, !.scope = hs, !.target = target]
  <2>2. target \in Targets BY <1>1, <2>1 DEF TerminalStates, Targets
  <2>3. Becomes(t, u) BY <1>1, <2>1 DEF TerminalStates
  <2>4. hs \in SUBSET Targets BY DEF Targets
  <2> HIDE DEF target
  <2>5. u \in TerminalStates /\ u.sid = term[t].sid /\ u.conv = term[t].conv
        /\ u.since = term[t].since /\ u.entries = hs /\ u.scope = hs
    BY <1>1, <2>2, <2>4 DEF TerminalStates
  <2> HIDE DEF u
  <2>6. Input(t) /\ UNCHANGED <<rows, transcripts, metered, completed, llm>> /\ UNCHANGED seen
    BY <1>2 DEF HandleScope
  <2>7. QED BY <2>3, <2>5, <2>6, Unseen, PromptKeepsInv
<1>3. ASSUME HandleClear(t) PROVE TerminalInv'
  <2> DEFINE u == [term[t] EXCEPT !.conv = {}]
  <2>1. u \in TerminalStates /\ u.sid = term[t].sid /\ u.conv = {}
        /\ u.since = term[t].since /\ u.entries = term[t].entries /\ u.scope = term[t].scope
    BY <1>1 DEF TerminalStates
  <2>2. Input(t) /\ Becomes(t, u) /\ UNCHANGED <<rows, transcripts, metered, completed, llm>> /\ UNCHANGED seen
    BY <1>3 DEF HandleClear
  <2> HIDE DEF u
  <2>3. QED BY <1>1, <2>1, <2>2, Unseen, PromptKeepsInv DEF Sound
<1>4. ASSUME NEW i \in 1..3, HandleMode(t, i) PROVE TerminalInv'
  <2> DEFINE mode == PermissionModes[i]
             u == [term[t] EXCEPT !.mode = mode]
  <2>1. mode \in Modes BY DEF PermissionModes, Modes
  <2>2. Input(t) /\ Becomes(t, u) /\ UNCHANGED <<rows, transcripts, metered, completed, llm>> /\ UNCHANGED seen
    BY <1>4 DEF HandleMode
  <2> HIDE DEF mode
  <2>3. u \in TerminalStates /\ u.sid = term[t].sid /\ u.conv = term[t].conv
        /\ u.since = term[t].since /\ u.entries = term[t].entries /\ u.scope = term[t].scope
    BY <1>1, <2>1 DEF TerminalStates
  <2> HIDE DEF u
  <2>4. QED BY <1>1, <2>2, <2>3, Unseen, PromptKeepsInv DEF Sound
<1>5. ASSUME NEW r \in Roots, HandleFsscope(t, r) PROVE TerminalInv'
  <2> DEFINE u == [term[t] EXCEPT !.roots = r]
  <2>1. u \in TerminalStates /\ u.sid = term[t].sid /\ u.conv = term[t].conv
        /\ u.since = term[t].since /\ u.entries = term[t].entries /\ u.scope = term[t].scope
    BY <1>1 DEF TerminalStates
  <2>2. Input(t) /\ Becomes(t, u) /\ UNCHANGED <<rows, transcripts, metered, completed, llm>> /\ UNCHANGED seen
    BY <1>5 DEF HandleFsscope
  <2> HIDE DEF u
  <2>3. QED BY <1>1, <2>1, <2>2, Unseen, PromptKeepsInv DEF Sound
<1>6. ASSUME HandleHost(t) PROVE TerminalInv'
  <2> DEFINE ctl == Controller(term[t])
             u == [term[t] EXCEPT !.ctl = ctl]
  <2>1. ctl = Shown(term[t]) BY <1>1 DEF Controller, Shown, TerminalStates, Nowhere
  <2>2. ctl \in [mode : Modes \cup {"none"}, roots : Roots \cup {"none"}]
    BY <1>1, <2>1 DEF Shown, TerminalStates
  <2>3. Input(t) /\ Becomes(t, u) /\ UNCHANGED <<rows, transcripts, metered, completed, llm>>
        /\ seen' = seen \cup {<<Shown(term[t]), ctl>>}
    BY <1>6 DEF HandleHost
  <2> HIDE DEF ctl
  <2>4. u \in TerminalStates /\ u.sid = term[t].sid /\ u.conv = term[t].conv
        /\ u.since = term[t].since /\ u.entries = term[t].entries /\ u.scope = term[t].scope
    BY <1>1, <2>2 DEF TerminalStates
  <2> HIDE DEF u
  <2>5. HostSeesCurrent' BY <2>1, <2>3 DEF HostSeesCurrent, TerminalInv, OperatorChoiceHolds
  <2>6. QED BY <1>1, <2>3, <2>4, <2>5, PromptKeepsInv DEF Sound
<1>7. QED BY <1>2, <1>3, <1>4, <1>5, <1>6

LEMMA SessionsKeepInv ==
    ASSUME TerminalInv, NEW t \in Terminals
    PROVE  /\ (\A h \in Hosts \cup {NoHost} : HandleStart(t, h) => TerminalInv')
           /\ (\A h \in Hosts : HandleTarget(t, h) => TerminalInv')
           /\ (\A s \in 1..Len(rows) : HandleResume(t, s) => TerminalInv')
           /\ (Len(rows) # 0 /\ HandleContinue(t) => TerminalInv')
           /\ (HandleReset(t) => TerminalInv')
           /\ (HandleCheckpoint(t) => TerminalInv')
           /\ (Exit(t) => TerminalInv')
           /\ (\A w \in BOOLEAN : Killed(t, w) => TerminalInv')
<1>1. /\ term[t] \in TerminalStates /\ Sound(term[t], llm[t]) /\ llm[t] \in Nat
      /\ llm \in [Terminals -> Nat] /\ inputs \in Nat /\ Len(rows) \in Nat
      /\ Input(t) => inputs' \in Nat /\ term[t].since = -1
  BY TerminalOf DEF TerminalInv, TerminalTypeOK, Input
<1>2. ASSUME NEW h \in Hosts \cup {NoHost}, HandleStart(t, h) PROVE TerminalInv'
  BY <1>1, <1>2, StartKeepsInv DEF HandleStart
<1>3. ASSUME NEW h \in Hosts, HandleTarget(t, h) PROVE TerminalInv'
  <2>1. CASE term[t].sid = 0
    <3>1. Input(t) /\ Start(t, h) /\ UNCHANGED <<metered, completed, llm, seen>>
      BY <1>3, <2>1 DEF HandleTarget
    <3>2. QED BY <1>1, <3>1, StartKeepsInv
  <2>2. CASE term[t].sid # 0
    <3> DEFINE scope == ScopeFor(term[t], {h})
               u == [term[t] EXCEPT !.target = h, !.scope = scope]
    <3>1. /\ Input(t) /\ Becomes(t, u)
          /\ UNCHANGED <<rows, transcripts, metered, completed, llm>> /\ UNCHANGED seen
      BY <1>3, <2>2 DEF HandleTarget
    <3>2. scope \in SUBSET Targets /\ (term[t].entries # {} => scope = term[t].scope)
      BY <1>1 DEF ScopeFor, TerminalStates, Targets
    <3> HIDE DEF scope
    <3>3. h \in Targets BY DEF Targets
    <3>4. u \in TerminalStates /\ u.sid = term[t].sid /\ u.conv = term[t].conv
          /\ u.since = term[t].since /\ u.entries = term[t].entries /\ u.scope = scope
      BY <1>1, <3>2, <3>3 DEF TerminalStates
    <3> HIDE DEF u
    <3>5. QED BY <1>1, <3>1, <3>2, <3>4, Unseen, PromptKeepsInv DEF Sound
  <2>3. QED BY <2>1, <2>2
<1>4. ASSUME NEW s \in 1..Len(rows), Resume(t, s), Input(t), UNCHANGED llm PROVE TerminalInv'
  <2>1. llm' = [llm EXCEPT ![t] = llm[t]] BY <1>1, <1>4
  <2>2. QED BY <1>1, <1>4, <2>1, ResumeKeepsInv
<1>5. ASSUME NEW s \in 1..Len(rows), HandleResume(t, s) PROVE TerminalInv'
  BY <1>4, <1>5 DEF HandleResume
<1>6. ASSUME HandleContinue(t), Len(rows) # 0 PROVE TerminalInv'
  <2>1. Len(rows) \in 1..Len(rows) BY <1>1, <1>6
  <2>2. QED BY <1>4, <1>6, <2>1 DEF HandleContinue
<1>7. ASSUME HandleReset(t) PROVE TerminalInv'
  <2> DEFINE u == [term[t] EXCEPT !.sid = 0, !.conv = {}]
  <2>1. /\ Input(t) /\ Becomes(t, u) /\ transcripts' = SavedFiles(t) /\ rows' = SavedRows(t)
        /\ UNCHANGED <<metered, completed, llm, seen>>
    BY <1>7 DEF HandleReset
  <2>2. u \in TerminalStates /\ u.sid = 0 /\ u.conv = {} /\ u.since = term[t].since
        /\ u.entries = term[t].entries /\ u.scope = term[t].scope
    BY <1>1 DEF TerminalStates
  <2> HIDE DEF u
  <2>3. QED BY <1>1, <2>1, <2>2, CloseKeepsInv DEF Sound
<1>8. ASSUME HandleCheckpoint(t) PROVE TerminalInv'
  <2>1. /\ term' = [term EXCEPT ![t] = term[t]] /\ llm' = [llm EXCEPT ![t] = llm[t]]
        /\ transcripts' = SavedFiles(t) /\ UNCHANGED <<rows, metered, completed, seen>>
        /\ inputs' \in Nat
    BY <1>1, <1>8 DEF HandleCheckpoint, TerminalInv, TerminalTypeOK
  <2>2. /\ rows' \in Seq(SessionRows) /\ Len(rows') <= MaxSessions /\ Len(rows) <= Len(rows')
        /\ term[t].sid <= Len(rows')
    BY <2>1, TerminalOf DEF TerminalInv, TerminalTypeOK
  <2>3. transcripts' \in [Sessions -> SUBSET Sessions] /\ \A x \in Sessions : transcripts'[x] \subseteq {x}
    BY <2>1, SavedIsOwn
  <2>4. QED BY <1>1, <2>1, <2>2, <2>3, Unbilled, Unseen, TerminalKeepsInv
<1>9. ASSUME Exit(t) PROVE TerminalInv'
  <2>1. /\ Input(t) /\ Becomes(t, Terminal) /\ transcripts' = SavedFiles(t) /\ rows' = SavedRows(t)
        /\ UNCHANGED <<metered, completed, llm, seen>>
    BY <1>9 DEF Exit
  <2>2. QED BY <1>1, <2>1, FreshTerminal, CloseKeepsInv
<1>10. ASSUME NEW w \in BOOLEAN, Killed(t, w) PROVE TerminalInv'
  <2>1. /\ term' = [term EXCEPT ![t] = Terminal] /\ llm' = [llm EXCEPT ![t] = llm[t]]
        /\ UNCHANGED <<rows, metered, completed, seen, inputs>>
    BY <1>1, <1>10 DEF Killed, Becomes
  <2>2. /\ transcripts \in [Sessions -> SUBSET Sessions]
        /\ \A x \in Sessions : transcripts[x] \subseteq {x}
    BY DEF TerminalInv, TerminalTypeOK, SessionIsOwn, ConversationIsOwn
  <2>3. transcripts' = transcripts \/ transcripts' = [transcripts EXCEPT ![term[t].sid] = {}]
    BY <1>10 DEF Killed
  <2>4. transcripts' \in [Sessions -> SUBSET Sessions] /\ \A x \in Sessions : transcripts'[x] \subseteq {x}
    BY <2>2, <2>3
  <2>5. /\ rows' \in Seq(SessionRows) /\ Len(rows') <= MaxSessions /\ Len(rows) <= Len(rows')
        /\ Terminal.sid <= Len(rows') /\ inputs' \in Nat
    BY <1>1, <2>1, FreshTerminal DEF TerminalInv, TerminalTypeOK
  <2>6. QED
    BY <1>1, <2>1, <2>4, <2>5, FreshTerminal, Unbilled, Unseen, TerminalKeepsInv
<1>11. QED BY <1>2, <1>3, <1>5, <1>6, <1>7, <1>8, <1>9, <1>10

-----------------------------------------------------------------------------
\* A run counts from what the client counted when it began.
LEMMA BeginRunKeepsInv ==
    ASSUME TerminalInv, NEW t \in Terminals, NEW h \in Hosts \cup {NoHost}, BeginRun(t, h)
    PROVE  TerminalInv'
<1> DEFINE target == IF term[t].target = NoHost THEN h ELSE term[t].target
           u == [term[t] EXCEPT !.target = target, !.since = llm[t]]
<1>1. /\ rows \in Seq(SessionRows) /\ Len(rows) <= MaxSessions /\ Len(rows) \in Nat
      /\ term[t] \in TerminalStates /\ Sound(term[t], llm[t]) /\ llm[t] \in Nat
      /\ llm \in [Terminals -> Nat] /\ transcripts \in [Sessions -> SUBSET Sessions]
      /\ term[t].sid \in 0..Len(rows)
  BY TerminalOf DEF TerminalInv, TerminalTypeOK
<1>2. /\ term[t].up /\ term[t].since = -1 /\ inputs' \in Nat
      /\ transcripts' = transcripts /\ llm' = [llm EXCEPT ![t] = llm[t]]
      /\ UNCHANGED <<metered, completed>> /\ UNCHANGED seen
  BY <1>1 DEF BeginRun, Input, TerminalInv, TerminalTypeOK
<1>3. target \in Targets BY <1>1 DEF TerminalStates, Targets
<1>4. /\ u \in TerminalStates /\ u.sid = term[t].sid /\ u.conv = term[t].conv /\ u.up
      /\ u.since = llm[t] /\ u.entries = term[t].entries /\ u.scope = term[t].scope
  <2>1. term[t] \in TerminalStates /\ llm[t] \in Int /\ term[t].up BY <1>1, <1>2
  <2> HIDE DEF target
  <2>2. QED BY <1>3, <2>1 DEF TerminalStates
<1>5. transcripts' \in [Sessions -> SUBSET Sessions] /\ \A x \in Sessions : transcripts'[x] \subseteq {x}
  BY <1>1, <1>2 DEF TerminalInv, SessionIsOwn, ConversationIsOwn
<1>6. CASE term[t].sid # 0
  <2>1. term' = [term EXCEPT ![t] = u] /\ rows' = rows BY <1>6 DEF BeginRun, Becomes
  <2>2. Sound(u, llm[t]) BY <1>1, <1>4, <1>6 DEF Sound
  <2> HIDE DEF u
  <2>3. u.sid <= Len(rows') /\ Len(rows) <= Len(rows') BY <1>1, <1>4, <2>1
  <2>4. QED BY <1>1, <1>2, <1>4, <1>5, <2>1, <2>2, <2>3, Unbilled, Unseen, TerminalKeepsInv
<1>7. CASE term[t].sid = 0
  <2> DEFINE scope == IF target = NoHost THEN u.scope ELSE ScopeFor(u, {target})
             v == [u EXCEPT !.sid = Len(rows'), !.scope = scope]
  <2>1. Len(rows) < MaxSessions /\ rows' = Created(rows, target) BY <1>7 DEF BeginRun
  <2>2. term' = [term EXCEPT ![t] = v] BY <1>4, <1>7 DEF BeginRun, Becomes, TerminalStates
  <2>3. rows' \in Seq(SessionRows) /\ Len(rows') = Len(rows) + 1
    BY <1>1, <1>3, <2>1, CreatedRows
  <2>4. Len(rows') \in Nat \ {0} /\ Len(rows') <= MaxSessions BY <1>1, <2>1, <2>3, TerminalAssumption
  <2> HIDE DEF u, target
  <2>5. scope \in SUBSET Targets /\ (u.entries # {} => scope = u.scope)
    BY <1>3, <1>4 DEF ScopeFor, TerminalStates
  <2> HIDE DEF scope
  <2>6. /\ v \in TerminalStates /\ v.sid = Len(rows') /\ v.conv = u.conv /\ v.up
        /\ v.since = llm[t] /\ v.entries = u.entries /\ v.scope = scope
    BY <1>4, <2>4, <2>5 DEF TerminalStates
  <2> HIDE DEF v
  <2>7. v.conv = {}
    <3>1. term[t].conv \subseteq {0} /\ term[t].conv \in SUBSET Sessions
      BY <1>1, <1>7 DEF Sound, TerminalStates
    <3>2. 0 \notin Sessions BY DEF Sessions
    <3>3. QED BY <1>4, <2>6, <3>1, <3>2
  <2>8. v.entries # {} => v.scope = v.entries BY <1>1, <1>4, <2>5, <2>6 DEF Sound
  <2>9. Sound(v, llm[t]) BY <2>4, <2>6, <2>7, <2>8 DEF Sound
  <2>10. v.sid <= Len(rows') /\ Len(rows) <= Len(rows') BY <1>1, <2>3, <2>4, <2>6
  <2>11. QED
    BY <1>1, <1>2, <1>5, <2>2, <2>3, <2>4, <2>6, <2>9, <2>10, Unbilled, Unseen, TerminalKeepsInv
<1>8. QED BY <1>6, <1>7

\* What ends with a run is billed once, or not at all.
LEMMA EndRunKeepsInv ==
    ASSUME TerminalInv, NEW t \in Terminals, RunReturns(t) \/ RunFails(t)
    PROVE  TerminalInv'
<1> DEFINE u == [term[t] EXCEPT !.since = -1]
           n == llm[t] + 1
           sid == term[t].sid
<1>1. /\ rows \in Seq(SessionRows) /\ Len(rows) <= MaxSessions /\ Len(rows) \in Nat
      /\ term[t] \in TerminalStates /\ Sound(term[t], llm[t]) /\ llm[t] \in Nat
      /\ llm \in [Terminals -> Nat] /\ transcripts \in [Sessions -> SUBSET Sessions]
      /\ term[t].sid \in 0..Len(rows) /\ inputs \in Nat
      /\ metered \in [Sessions -> Nat] /\ completed \in [Sessions -> Nat]
      /\ \A s \in Sessions : metered[s] = completed[s]
  BY TerminalOf DEF TerminalInv, TerminalTypeOK, SessionIsOwn, BilledOnce
<1>2. /\ term[t].since # -1 /\ llm' = [llm EXCEPT ![t] = n] /\ term' = [term EXCEPT ![t] = u]
      /\ rows' = rows /\ transcripts' = transcripts /\ UNCHANGED seen /\ inputs' = inputs
  BY DEF RunReturns, RunFails, Becomes
<1>3. term[t].since = llm[t] /\ sid \in Sessions BY <1>1, <1>2, TerminalOf DEF Sound
<1>4. /\ metered' \in [Sessions -> Nat] /\ completed' \in [Sessions -> Nat] /\ BilledOnce'
  <2>1. CASE RunFails(t) BY <2>1, Unbilled DEF RunFails
  <2>2. CASE RunReturns(t)
    <3>1. Meter(t) = 1 BY <1>1, <1>2, <1>3 DEF Meter
    <3>2. /\ metered' = [metered EXCEPT ![sid] = metered[sid] + 1]
          /\ completed' = [completed EXCEPT ![sid] = completed[sid] + 1]
      BY <2>2, <3>1 DEF RunReturns
    <3>3. metered[sid] \in Nat /\ completed[sid] \in Nat BY <1>1, <1>3
    <3> HIDE DEF sid
    <3>4. QED BY <1>1, <1>3, <3>2, <3>3 DEF BilledOnce
  <2>3. QED BY <2>1, <2>2
<1>5. /\ u \in TerminalStates /\ u.sid = term[t].sid /\ u.conv = term[t].conv
      /\ u.since = -1 /\ u.entries = term[t].entries /\ u.scope = term[t].scope
  <2> DEFINE none == -1
  <2>1. term[t] \in TerminalStates /\ none \in Int /\ u = [term[t] EXCEPT !.since = none] BY <1>1
  <2> HIDE DEF none, u
  <2>2. /\ u \in TerminalStates /\ u.sid = term[t].sid /\ u.conv = term[t].conv
        /\ u.since = none /\ u.entries = term[t].entries /\ u.scope = term[t].scope
    BY <2>1 DEF TerminalStates
  <2>3. QED BY <2>2 DEF none
<1> HIDE DEF u
<1>6. Sound(u, n) BY <1>1, <1>5 DEF Sound
<1>7. n \in Nat BY <1>1
<1> HIDE DEF n
<1>8. transcripts' \in [Sessions -> SUBSET Sessions] /\ \A x \in Sessions : transcripts'[x] \subseteq {x}
  BY <1>1, <1>2 DEF TerminalInv, SessionIsOwn, ConversationIsOwn
<1>9. /\ rows' \in Seq(SessionRows) /\ Len(rows') <= MaxSessions /\ Len(rows) <= Len(rows')
      /\ u.sid <= Len(rows') /\ inputs' \in Nat
  BY <1>1, <1>2, <1>5
<1>10. QED
  BY <1>2, <1>4, <1>5, <1>6, <1>7, <1>8, <1>9, Unseen, TerminalKeepsInv

-----------------------------------------------------------------------------
LEMMA TerminalInitInv == TerminalInit => TerminalInv
<1> SUFFICES ASSUME TerminalInit PROVE TerminalInv OBVIOUS
<1>1. PICK f \in Hosts \cup {NoHost} : rows = <<[focus |-> f, status |-> "closed"]>>
  BY DEF TerminalInit
<1>2. [focus |-> f, status |-> "closed"] \in SessionRows BY DEF SessionRows, Targets
<1>3. rows \in Seq(SessionRows) /\ Len(rows) = 1 BY <1>1, <1>2
<1>4. 1 <= MaxSessions BY TerminalAssumption
<1>5. term = [t \in Terminals |-> Terminal] /\ llm = [t \in Terminals |-> 0] BY DEF TerminalInit
<1>6. /\ transcripts = [s \in Sessions |-> IF s = 1 THEN {1} ELSE {}]
      /\ metered = [s \in Sessions |-> 0] /\ completed = [s \in Sessions |-> 0]
      /\ seen = {} /\ inputs = 0
  BY DEF TerminalInit
<1>7. TerminalTypeOK BY <1>3, <1>4, <1>5, <1>6, FreshTerminal DEF TerminalTypeOK
<1>8. RunsAreCounted BY <1>3, <1>5, FreshTerminal DEF RunsAreCounted
<1>9. SessionIsOwn
  BY <1>5, <1>6, FreshTerminal DEF SessionIsOwn, ConversationIsOwn, BilledOnce
<1>10. OperatorChoiceHolds
  BY <1>5, <1>6, FreshTerminal DEF OperatorChoiceHolds, GivenScopeHolds, HostSeesCurrent
<1>11. QED BY <1>7, <1>8, <1>9, <1>10 DEF TerminalInv

LEMMA TerminalNextInv ==
    ASSUME TerminalInv, TerminalNext PROVE TerminalInv'
<1>1. Len(rows) \in Nat /\ Len(rows) # 0
  BY LenProperties, TerminalAssumption DEF TerminalInv, TerminalTypeOK
<1>2. PICK t \in Terminals :
        \/ Launch(t, 0) \/ HandleReset(t) \/ HandleClear(t) \/ HandleCheckpoint(t) \/ Exit(t)
        \/ HandleContinue(t) \/ RunReturns(t) \/ RunFails(t) \/ HandleHost(t)
        \/ \E w \in BOOLEAN : Killed(t, w)
        \/ \E s \in 1..Len(rows) : Launch(t, s) \/ HandleResume(t, s)
        \/ \E h \in Hosts : HandleTarget(t, h)
        \/ \E h \in Hosts \cup {NoHost} : HandleStart(t, h) \/ BeginRun(t, h)
        \/ \E hs \in SUBSET Hosts : HandleScope(t, hs)
        \/ \E i \in 1..3 : HandleMode(t, i)
        \/ \E r \in Roots : HandleFsscope(t, r)
  BY DEF TerminalNext
<1>3. CASE \E s \in 1..Len(rows) : Launch(t, s) \/ HandleResume(t, s)
  BY <1>1, <1>3, LaunchKeepsInv, SessionsKeepInv
<1>4. CASE Launch(t, 0) BY <1>1, <1>4, LaunchKeepsInv
<1>5. CASE \/ HandleReset(t) \/ HandleCheckpoint(t) \/ Exit(t) \/ HandleContinue(t)
           \/ \E w \in BOOLEAN : Killed(t, w)
           \/ \E h \in Hosts : HandleTarget(t, h)
  BY <1>1, <1>5, SessionsKeepInv
<1>6. CASE \E h \in Hosts \cup {NoHost} : HandleStart(t, h) \/ BeginRun(t, h)
  BY <1>6, SessionsKeepInv, BeginRunKeepsInv
<1>7. CASE RunReturns(t) \/ RunFails(t) BY <1>7, EndRunKeepsInv
<1>8. CASE \/ HandleClear(t) \/ HandleHost(t)
           \/ \E hs \in SUBSET Hosts : HandleScope(t, hs)
           \/ \E i \in 1..3 : HandleMode(t, i)
           \/ \E r \in Roots : HandleFsscope(t, r)
  BY <1>8, ChoicesKeepInv
<1>9. QED BY <1>2, <1>3, <1>4, <1>5, <1>6, <1>7, <1>8

\* The invariant of the terminals, for any number of terminals, targets,
\* sessions and inputs.
THEOREM TerminalInvariantHolds == TerminalSpec => []TerminalInv
<1>1. TerminalInv /\ UNCHANGED terminalVars => TerminalInv'
  BY DEF TerminalInv, TerminalTypeOK, RunsAreCounted, SessionIsOwn, ConversationIsOwn, BilledOnce,
         OperatorChoiceHolds, GivenScopeHolds, HostSeesCurrent, terminalVars
<1>2. TerminalInv /\ [TerminalNext]_terminalVars => TerminalInv' BY <1>1, TerminalNextInv
<1>3. QED BY <1>2, TerminalInitInv, PTL DEF TerminalSpec

\* No session's messages or bill get into another, whatever terminals do with
\* them (_save_session, _resume_session, _handle_start, _meter_usage).
THEOREM SessionsStayApart == TerminalSpec => []SessionIsOwn
<1>1. TerminalInv => SessionIsOwn BY DEF TerminalInv
<1>2. QED BY <1>1, TerminalInvariantHolds, PTL

\* The scope the operator gave is the agent's, and host operations run under
\* the mode and filesystem scope that are shown.
THEOREM ChoicesStayInForce == TerminalSpec => []OperatorChoiceHolds
<1>1. TerminalInv => OperatorChoiceHolds BY DEF TerminalInv
<1>2. QED BY <1>1, TerminalInvariantHolds, PTL

-----------------------------------------------------------------------------
\* The router's choice is one of the candidates: some rank is the lowest.
LEMMA BestIsThere ==
    ASSUME NEW S \in SUBSET Models, S # {}
    PROVE  Best(S) \in S
<1> DEFINE ranks == {Info[m].rank : m \in S}
           less == OpToRel(<, Nat)
<1>1. ranks \subseteq 1..Cardinality(Models) BY RoutingAssumption
<1>2. ranks \subseteq Nat /\ ranks # {} BY <1>1
<1>3. IsWellFoundedOn(less, Nat) BY NatLessThanWellFounded, Zenon
<1> HIDE DEF ranks, less
<1>4. PICK x \in ranks : \A y \in ranks : ~ (<<y, x>> \in less) BY <1>2, <1>3, WFMin
<1>5. \A y \in ranks : x <= y
  <2> SUFFICES ASSUME NEW y \in ranks PROVE x <= y OBVIOUS
  <2>1. x \in Nat /\ y \in Nat BY <1>2
  <2>2. <<y, x>> \in less <=> y < x BY <2>1 DEF less, OpToRel
  <2>3. QED BY <1>4, <2>1, <2>2
<1>6. \E m \in S : \A n \in S : Info[m].rank <= Info[n].rank BY <1>5 DEF ranks
<1>7. QED BY <1>6 DEF Best

\* A decision's model passed the filters of its request; a fallback has the
\* locality of the model before it and was not tried.
LEMMA RouteDecides ==
    ASSUME NEW r \in Requests, up \subseteq Models, NEW d, d = Route(r), d.model # NoModel
    PROVE  /\ d.model \in Models /\ d.tried = {d.model}
           /\ Accepts(d.model, r.class)
           /\ r.local \/ (r.class >= Confidential /\ r.pinned = NoModel) => Info[d.model].local
<1> DEFINE eligible == IF r.pinned # NoModel
                       THEN {m \in {r.pinned} : PassesHardFilters(m, r)}
                       ELSE {m \in Models : PassesHardFilters(m, Effective(r))}
<1>1. r.pinned \in Models \cup {NoModel} /\ r.class \in Classes BY DEF Requests
<1>2. d = IF eligible = {} THEN Decision(NoModel, {})
          ELSE Decision(Best(eligible), {Best(eligible)})
  BY DEF Route
<1>3. eligible \in SUBSET Models BY <1>1
<1>4. ASSUME NEW m \in eligible
      PROVE  /\ Accepts(m, r.class)
             /\ r.local \/ (r.class >= Confidential /\ r.pinned = NoModel) => Info[m].local
  <2>1. CASE r.pinned # NoModel BY <2>1, <1>4 DEF PassesHardFilters
  <2>2. CASE r.pinned = NoModel
    <3>1. PassesHardFilters(m, Effective(r)) BY <2>2, <1>4
    <3>2. Effective(r).class = r.class /\ Effective(r).local = (r.local \/ r.class >= Confidential)
      BY DEF Effective, Requests
    <3>3. QED BY <2>2, <3>1, <3>2 DEF PassesHardFilters
  <2>3. QED BY <2>1, <2>2
<1> HIDE DEF eligible
<1>5. eligible # {} BY <1>2 DEF Decision
<1>6. Best(eligible) \in eligible BY <1>3, <1>5, BestIsThere
<1>7. d.model = Best(eligible) /\ d.tried = {Best(eligible)} BY <1>2, <1>5 DEF Decision
<1>8. QED BY <1>3, <1>4, <1>6, <1>7

LEMMA FallbackDecides ==
    ASSUME NEW r, NEW e, NEW d, d = Fallback(e, r), d.model # NoModel
    PROVE  /\ d.model \in Models /\ d.tried = e.tried \cup {d.model} /\ d.model \notin e.tried
           /\ Accepts(d.model, r.class) /\ Info[d.model].local = Info[e.model].local
<1> DEFINE pool == IF r.fallback THEN FallbackPool(e.model, r, e.tried) ELSE {}
<1>1. d = IF pool = {} THEN Decision(NoModel, e.tried)
          ELSE Decision(Best(pool), e.tried \cup {Best(pool)})
  BY DEF Fallback
<1>2. pool # {} BY <1>1 DEF Decision
<1>3. \A m \in pool : /\ m \in Models /\ m \notin e.tried /\ Accepts(m, r.class)
                      /\ Info[m].local = Info[e.model].local
  BY DEF FallbackPool, PassesHardFilters
<1> HIDE DEF pool
<1>4. pool \in SUBSET Models BY <1>3
<1>5. Best(pool) \in pool BY <1>2, <1>4, BestIsThere
<1>6. d.model = Best(pool) /\ d.tried = e.tried \cup {Best(pool)} BY <1>1, <1>2 DEF Decision
<1>7. QED BY <1>3, <1>5, <1>6

\* Whatever is decided is a decision, and nothing tried is forgotten.
LEMMA DecisionTypes ==
    ASSUME RoutingTypeOK, NEW r \in Requests
    PROVE  /\ Route(r) \in [model : Models \cup {NoModel}, tried : SUBSET Models]
           /\ Fallback(dec, r) \in [model : Models \cup {NoModel}, tried : SUBSET Models]
           /\ Route(r).model = NoModel => Route(r).tried = {}
           /\ Fallback(dec, r).model = NoModel => Fallback(dec, r).tried = dec.tried
<1>1. dec.tried \in SUBSET Models /\ up \subseteq Models BY DEF RoutingTypeOK
<1>2. ASSUME NEW S, NEW m PROVE Decision(m, S).model = m /\ Decision(m, S).tried = S
  BY DEF Decision
<1> DEFINE a == Route(r)
           b == Fallback(dec, r)
<1>3. /\ \E m, S : a = Decision(m, S)
      /\ a.model = NoModel => a.tried = {}
      /\ a.model # NoModel => a.model \in Models /\ a.tried = {a.model}
  <2> DEFINE E == IF r.pinned # NoModel THEN {m \in {r.pinned} : PassesHardFilters(m, r)}
                  ELSE {m \in Models : PassesHardFilters(m, Effective(r))}
  <2>1. a = IF E = {} THEN Decision(NoModel, {}) ELSE Decision(Best(E), {Best(E)}) BY DEF Route
  <2>2. r.pinned \in Models \cup {NoModel} BY DEF Requests
  <2>3. E \in SUBSET Models BY <2>2
  <2> HIDE DEF E, a
  <2>4. CASE E = {} BY <1>2, <2>1, <2>4
  <2>5. CASE E # {}
    <3>1. Best(E) \in Models BY <2>3, <2>5, BestIsThere
    <3>2. QED BY <1>2, <2>1, <2>5, <3>1, RoutingAssumption
  <2>6. QED BY <2>4, <2>5
<1>4. /\ \E m, S : b = Decision(m, S)
      /\ b.model = NoModel => b.tried = dec.tried
      /\ b.model # NoModel => b.model \in Models /\ b.tried = dec.tried \cup {b.model}
  <2> DEFINE E == IF r.fallback THEN FallbackPool(dec.model, r, dec.tried) ELSE {}
  <2>1. b = IF E = {} THEN Decision(NoModel, dec.tried)
            ELSE Decision(Best(E), dec.tried \cup {Best(E)})
    BY DEF Fallback
  <2>2. E \in SUBSET Models BY DEF FallbackPool
  <2> HIDE DEF E, b
  <2>3. CASE E = {} BY <1>2, <2>1, <2>3
  <2>4. CASE E # {}
    <3>1. Best(E) \in Models BY <2>2, <2>4, BestIsThere
    <3>2. QED BY <1>2, <2>1, <2>4, <3>1, RoutingAssumption
  <2>5. QED BY <2>3, <2>4
<1> HIDE DEF a, b
<1>5. a \in [model : Models \cup {NoModel}, tried : SUBSET Models] BY <1>1, <1>3 DEF Decision
<1>6. b \in [model : Models \cup {NoModel}, tried : SUBSET Models] BY <1>1, <1>4 DEF Decision
<1>7. QED BY <1>3, <1>4, <1>5, <1>6 DEF a, b

-----------------------------------------------------------------------------
\* A refused request sends nothing.
LEMMA RefusalKeepsInv ==
    ASSUME RoutingInv, NEW d \in [model : Models \cup {NoModel}, tried : SUBSET Models],
           Decided(d), d.model = NoModel, req' \in Requests, UNCHANGED <<up, health>>,
           sent = <<>> \/ (req' = req /\ d.tried = dec.tried)
    PROVE  RoutingInv'
<1>1. dec' = d /\ ask' = [pc |-> "refused", tries |-> 0] /\ sent' = sent BY DEF Decided
<1>2. RoutingTypeOK' BY <1>1 DEF RoutingInv, RoutingTypeOK
<1>3. CASE sent = <<>>
  <2>1. DOMAIN sent' = {} BY <1>1, <1>3
  <2>2. QED BY <1>1, <1>2, <2>1 DEF RoutingInv, TriedWereSent, DataStaysWhereItMay
<1>4. CASE req' = req /\ d.tried = dec.tried
  BY <1>1, <1>2, <1>4 DEF RoutingInv, TriedWereSent, DataStaysWhereItMay
<1>5. QED BY <1>3, <1>4

\* The first model is one the request may be sent to.
LEMMA SelectKeepsInv ==
    ASSUME RoutingInv, NEW r \in Requests, Select(r)
    PROVE  RoutingInv'
<1> DEFINE d == Route(r)
<1>1. /\ sent = <<>> /\ req' = r /\ Decided(d) /\ UNCHANGED <<up, health>>
      /\ up \subseteq Models /\ health \in Nat
  BY DEF Select, RoutingInv, RoutingTypeOK, TriedWereSent
<1>2. d \in [model : Models \cup {NoModel}, tried : SUBSET Models]
  BY DecisionTypes DEF RoutingInv
<1>3. d.model # NoModel =>
        /\ d.model \in Models /\ d.tried = {d.model} /\ Accepts(d.model, r.class)
        /\ r.local \/ (r.class >= Confidential /\ r.pinned = NoModel) => Info[d.model].local
  BY <1>1, RouteDecides
<1> HIDE DEF d
<1>4. CASE d.model = NoModel BY <1>1, <1>2, <1>4, RefusalKeepsInv
<1>5. CASE d.model # NoModel
  <2>1. /\ dec' = d /\ ask' = [pc |-> "asking", tries |-> 0] /\ sent' = <<d.model>>
    BY <1>1, <1>5 DEF Decided
  <2>2. d.model \in Models /\ d.tried = {d.model} BY <1>3, <1>5
  <2>3. sent' \in Seq(Models) /\ Len(sent') = 1 /\ DOMAIN sent' = {1} /\ sent'[1] = d.model
    BY <2>1, <2>2
  <2>4. RoutingTypeOK' BY <1>1, <1>2, <2>1, <2>3 DEF RoutingTypeOK
  <2>5. TriedWereSent' BY <2>1, <2>2, <2>3 DEF TriedWereSent
  <2>6. DataStaysWhereItMay' BY <1>1, <1>3, <1>5, <2>3 DEF DataStaysWhereItMay
  <2>7. QED BY <2>4, <2>5, <2>6 DEF RoutingInv
<1>6. QED BY <1>4, <1>5

\* Every further one accepts the data, too, is where the first one is, and is
\* new.
LEMMA NextModelKeepsInv ==
    ASSUME RoutingInv, NextModel
    PROVE  RoutingInv'
<1> DEFINE d == Fallback(dec, req)
<1>1. /\ ask.pc = "failed" /\ req' = req /\ Decided(d) /\ UNCHANGED <<up, health>>
      /\ up \subseteq Models /\ health \in Nat /\ req \in Requests /\ sent \in Seq(Models)
  BY DEF NextModel, RoutingInv, RoutingTypeOK
<1>2. /\ d \in [model : Models \cup {NoModel}, tried : SUBSET Models]
      /\ d.model = NoModel => d.tried = dec.tried
  BY <1>1, DecisionTypes DEF RoutingInv
<1>3. d.model # NoModel =>
        /\ d.model \in Models /\ d.tried = dec.tried \cup {d.model} /\ d.model \notin dec.tried
        /\ Accepts(d.model, req.class) /\ Info[d.model].local = Info[dec.model].local
  BY FallbackDecides
<1> HIDE DEF d
<1>4. CASE d.model = NoModel BY <1>1, <1>2, <1>4, RefusalKeepsInv
<1>5. CASE d.model # NoModel
  <2> DEFINE m == d.model
             n == Len(sent)
  <2>1. dec' = d /\ ask' = [pc |-> "asking", tries |-> 0] /\ sent' = Append(sent, m)
    BY <1>1, <1>5 DEF Decided
  <2>2. m \in Models BY <1>3, <1>5
  <2>3. /\ sent' \in Seq(Models) /\ Len(sent') = n + 1 /\ sent'[n + 1] = m /\ sent' # <<>>
        /\ \A i \in 1..n : sent'[i] = sent[i]
    BY <1>1, <2>1, <2>2, AppendProperties
  <2>4. /\ sent # <<>> /\ dec.model = sent[n] /\ \A i \in DOMAIN sent : sent[i] \in dec.tried
        /\ DataStaysWhereItMay
    BY <1>1 DEF RoutingInv, TriedWereSent
  <2>5. n \in Nat \ {0} /\ DOMAIN sent = 1..n BY <1>1, <2>4, LenProperties, EmptySeq
  <2>6. DOMAIN sent' = 1..(n + 1) BY <2>3, LenProperties
  <2> HIDE DEF m, n
  <2>7. DOMAIN sent' = (1..n) \cup {n + 1} /\ n + 1 \notin 1..n /\ 1 \in 1..n /\ n \in 1..n
    BY <2>5, <2>6
  <2>8. d.tried = dec.tried \cup {m} /\ m \notin dec.tried /\ Accepts(m, req.class)
        /\ Info[m].local = Info[sent[1]].local
    <3>1. Info[sent[n]].local = Info[sent[1]].local BY <2>4, <2>5, <2>7 DEF DataStaysWhereItMay
    <3>2. QED BY <1>3, <1>5, <2>4, <3>1 DEF m
  <2>9. RoutingTypeOK' BY <1>1, <1>2, <2>1, <2>3 DEF RoutingTypeOK
  <2>10. TriedWereSent'
    <3>1. \A i \in DOMAIN sent' : sent'[i] \in dec'.tried BY <2>1, <2>3, <2>4, <2>5, <2>7, <2>8
    <3>2. sent'[Len(sent')] = dec'.model BY <2>1, <2>3 DEF m
    <3>3. QED BY <2>1, <2>3, <3>1, <3>2 DEF TriedWereSent
  <2>11. DataStaysWhereItMay'
    <3> SUFFICES ASSUME NEW i \in DOMAIN sent'
                 PROVE  /\ Accepts(sent'[i], req.class)
                        /\ Info[sent'[i]].local = Info[sent'[1]].local
                        /\ req.local \/ (req.class >= Confidential /\ req.pinned = NoModel)
                              => Info[sent'[i]].local
                        /\ \A j \in DOMAIN sent' : sent'[i] = sent'[j] => i = j
      BY <1>1 DEF DataStaysWhereItMay
    <3>1. sent'[1] = sent[1] BY <2>3, <2>7
    <3>2. /\ Accepts(sent[1], req.class)
          /\ req.local \/ (req.class >= Confidential /\ req.pinned = NoModel) => Info[sent[1]].local
      BY <2>4, <2>5, <2>7 DEF DataStaysWhereItMay
    <3>3. \A j \in 1..n : sent'[j] \in dec.tried /\ sent'[j] # m BY <2>3, <2>4, <2>5, <2>8
    <3>4. CASE i = n + 1 BY <2>3, <2>7, <2>8, <3>1, <3>2, <3>3, <3>4
    <3>5. CASE i \in 1..n
      <4>1. /\ Accepts(sent[i], req.class) /\ Info[sent[i]].local = Info[sent[1]].local
            /\ \A j \in 1..n : sent[i] = sent[j] => i = j
        BY <2>4, <2>5, <3>5 DEF DataStaysWhereItMay
      <4>2. QED BY <2>3, <2>7, <3>1, <3>2, <3>3, <3>5, <4>1
    <3>6. QED BY <2>7, <3>4, <3>5
  <2>12. QED BY <2>9, <2>10, <2>11 DEF RoutingInv
<1>6. QED BY <1>4, <1>5

LEMMA AttemptKeepsInv ==
    ASSUME RoutingInv, NEW outcome, Attempt(outcome)
    PROVE  RoutingInv'
<1>1. /\ ask.pc = "asking" /\ UNCHANGED <<up, req, dec, sent, health>>
      /\ ask \in [pc : {"idle", "asking", "answered", "failed", "refused"}, tries : Nat]
  BY DEF Attempt, RoutingInv, RoutingTypeOK
<1>2. \/ ask' = [ask EXCEPT !.pc = "answered"] \/ ask' = [ask EXCEPT !.pc = "failed"]
      \/ ask' = [ask EXCEPT !.tries = @ + 1]
  BY DEF Attempt
<1>3. /\ ask' \in [pc : {"idle", "asking", "answered", "failed", "refused"}, tries : Nat]
      /\ ask'.pc \in {"asking", "answered", "failed"}
  BY <1>1, <1>2
<1>4. QED
  BY <1>1, <1>3 DEF RoutingInv, RoutingTypeOK, TriedWereSent, DataStaysWhereItMay

LEMMA RoutingInitInv == RoutingInit => RoutingInv
<1> SUFFICES ASSUME RoutingInit PROVE RoutingInv OBVIOUS
<1> DEFINE plain == [task |-> "analysis", class |-> 0, local |-> FALSE, structured |-> FALSE,
                     worst |-> 2, pinned |-> NoModel, fallback |-> TRUE]
<1>1. plain \in Requests BY DEF Requests, Classes
<1>2. \E r \in Requests : r.pinned = NoModel BY <1>1
<1>3. NoRequest \in Requests BY <1>2 DEF NoRequest
<1>4. sent = <<>> /\ sent \in Seq(Models) /\ DOMAIN sent = {} BY EmptySeq DEF RoutingInit
<1>5. RoutingTypeOK BY <1>3, <1>4 DEF RoutingTypeOK, RoutingInit, Decision
<1>6. QED BY <1>4, <1>5 DEF RoutingInv, RoutingInit, TriedWereSent, DataStaysWhereItMay

\* The invariant of routing, for any models, ranking, retries and changes.
THEOREM RoutingInvariantHolds == RoutingSpec => []RoutingInv
<1>1. RoutingInv /\ [RoutingNext]_routeVars => RoutingInv'
  <2> SUFFICES ASSUME RoutingInv, [RoutingNext]_routeVars PROVE RoutingInv' OBVIOUS
  <2>1. CASE UNCHANGED routeVars
    BY <2>1 DEF routeVars, RoutingInv, RoutingTypeOK, TriedWereSent, DataStaysWhereItMay
  <2>2. CASE \E r \in Requests : Select(r) BY <2>2, SelectKeepsInv
  <2>3. CASE \E outcome \in {"usable", "unusable", "fatal"} : Attempt(outcome)
    BY <2>3, AttemptKeepsInv
  <2>4. CASE NextModel BY <2>4, NextModelKeepsInv
  <2>5. CASE \E m \in Models : HealthChanges(m)
    BY <2>5 DEF HealthChanges, RoutingInv, RoutingTypeOK, TriedWereSent, DataStaysWhereItMay
  <2>6. QED BY <2>1, <2>2, <2>3, <2>4, <2>5 DEF RoutingNext
<1>2. QED BY <1>1, RoutingInitInv, PTL DEF RoutingSpec

\* A request's data reaches only models that accept its class and, where it
\* must, only local ones, however often it falls back (route, fallback).
THEOREM DataIsConfined == RoutingSpec => []DataStaysWhereItMay
<1>1. RoutingInv => DataStaysWhereItMay BY DEF RoutingInv
<1>2. QED BY <1>1, RoutingInvariantHolds, PTL

-----------------------------------------------------------------------------
LEMMA RefreshKeepsCatalogue ==
    ASSUME UiInv, NEW records \in SUBSET Models, NEW force, Refresh(records, force)
    PROVE  catalogue' \subseteq Models /\ loaded' \in BOOLEAN /\ CatalogueSurvives'
<1>1. CASE UNCHANGED <<catalogue, loaded>>
  BY <1>1 DEF UiInv, InterfaceKnowsModels, CatalogueSurvives
<1>2. CASE Fetched(records) # {} /\ catalogue' = Direct \cup Fetched(records) /\ loaded' = TRUE
  BY <1>2 DEF Fetched, Direct, CatalogueSurvives
<1>3. QED BY <1>1, <1>2 DEF Refresh

\* The invariant of the interface's model, for any models and any catalogues.
THEOREM UiInvariantHolds == UiSpec => []UiInv
<1>1. UiInit => UiInv
  BY DEF UiInit, UiInv, InterfaceKnowsModels, CatalogueSurvives, UsageIsAttributed, Direct
<1>2. UiInv /\ [UiNext]_uiVars => UiInv'
  <2> SUFFICES ASSUME UiInv, [UiNext]_uiVars PROVE UiInv' OBVIOUS
  <2>1. CASE UNCHANGED uiVars
    BY <2>1 DEF uiVars, UiInv, InterfaceKnowsModels, CatalogueSurvives, UsageIsAttributed
  <2>2. ASSUME NEW records \in SUBSET Models, NEW force \in BOOLEAN, ListModels(records, force)
        PROVE  UiInv'
    BY <2>2, RefreshKeepsCatalogue DEF ListModels, UiInv, InterfaceKnowsModels, UsageIsAttributed
  <2>3. ASSUME NEW records \in SUBSET Models, NEW m \in Models, SwitchModel(m, records)
        PROVE  UiInv'
    <3>1. catalogue' \subseteq Models /\ loaded' \in BOOLEAN /\ CatalogueSurvives'
      <4>1. CASE m \in catalogue
        BY <2>3, <4>1 DEF SwitchModel, UiInv, InterfaceKnowsModels, CatalogueSurvives
      <4>2. CASE m \notin catalogue BY <2>3, <4>2, RefreshKeepsCatalogue DEF SwitchModel
      <4>3. QED BY <4>1, <4>2
    <3>2. QED BY <2>3, <3>1 DEF SwitchModel, UiInv, InterfaceKnowsModels, UsageIsAttributed
  <2>4. CASE MeterUsage
    BY <2>4 DEF MeterUsage, UiInv, InterfaceKnowsModels, CatalogueSurvives, UsageIsAttributed
  <2>5. QED BY <2>1, <2>2, <2>3, <2>4 DEF UiNext
<1>3. QED BY <1>1, <1>2, PTL DEF UiSpec

\* No refresh loses the models that can be used, and no switch the model a
\* run's usage is recorded by (_refresh_openrouter_catalog, _meter_usage).
THEOREM InterfaceStaysInformed == UiSpec => []InterfaceKnowsModels
<1>1. UiInv => InterfaceKnowsModels BY DEF UiInv
<1>2. QED BY <1>1, UiInvariantHolds, PTL
=============================================================================
