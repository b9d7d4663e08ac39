-------------------------- MODULE SessionInvariant --------------------------
(***************************************************************************)
(* The inductive invariants of an operator's session: those of the         *)
(* terminals, of a request's way through the models, and of the model the  *)
(* interface works with.                                                   *)
(***************************************************************************)
EXTENDS ModelRouting, TerminalSession

Targets == Hosts \cup {NoHost, Placeholder}
Modes == {"plan", "ask", "auto"}

SessionRows == [focus : Targets, status : {"active", "closed"}]

TerminalStates ==
    [up : BOOLEAN, sid : Nat, target : Targets, entries : SUBSET Hosts, scope : SUBSET Targets,
     conv : SUBSET Sessions, mode : Modes, roots : Roots,
     ctl : [mode : Modes \cup {"none"}, roots : Roots \cup {"none"}], since : Int]

TerminalTypeOK ==
    /\ rows \in Seq(SessionRows) /\ Len(rows) \in 1..MaxSessions
    /\ transcripts \in [Sessions -> SUBSET Sessions]
    /\ metered \in [Sessions -> Nat] /\ completed \in [Sessions -> Nat]
    /\ term \in [Terminals -> TerminalStates]
    /\ llm \in [Terminals -> Nat]
    /\ inputs \in Nat

\* A terminal works in a session that was created; a run is one of a session,
\* of a terminal that is up, and nothing was counted since it began.
RunsAreCounted ==
    \A t \in Terminals :
        /\ term[t].sid <= Len(rows)
        /\ term[t].since # -1 =>
              term[t].up /\ term[t].sid # 0 /\ term[t].since = llm[t]

TerminalInv == TerminalTypeOK /\ RunsAreCounted /\ SessionIsOwn /\ OperatorChoiceHolds

-----------------------------------------------------------------------------
RoutingTypeOK ==
    /\ up \subseteq Models
    /\ req \in Requests
    /\ dec \in [model : Models \cup {NoModel}, tried : SUBSET Models]
    /\ ask \in [pc : {"idle", "asking", "answered", "failed", "refused"}, tries : Nat]
    /\ sent \in Seq(Models)
    /\ health \in Nat

\* The router remembers every model that was sent something, and the caller
\* works with the last of them.
TriedWereSent ==
    /\ \A i \in DOMAIN sent : sent[i] \in dec.tried
    /\ ask.pc = "idle" => sent = <<>>
    /\ ask.pc \in {"asking", "answered", "failed"} => sent # <<>> /\ dec.model = sent[Len(sent)]

RoutingInv == RoutingTypeOK /\ TriedWereSent /\ DataStaysWhereItMay

\* What a run uses is what the configuration names.
UiInv ==
    /\ catalogue \subseteq Models /\ loaded \in BOOLEAN
    /\ active = configured
    /\ InterfaceKnowsModels
=============================================================================
