------------------------------- MODULE MCHost -------------------------------
(* Instances of HostController, ProviderExecution and CommandPolicy for TLC, *)
(* side by side: a behaviour takes steps of one of them only.                *)
EXTENDS HostInvariant, ProviderInvariant, CommandPolicy, TLC

CONSTANTS s1, s2, t1, t2, d1, d2, p1, p2

VARIABLE part

TwoSlots == {s1, s2}
TwoTasks == {t1, t2}
TwoDirs == {d1, d2}

\* Each directory is written in one scope and only read in the other; the
\* third scope is empty.
SomeScopes ==
    {[read |-> {d1}, write |-> {d2}], [read |-> {d1, d2}, write |-> {d1}],
     [read |-> {}, write |-> {}]}

\* The second mapping sends d1 elsewhere, read-only, and d2 nowhere.
SomeMappings ==
    {[d \in TwoDirs |-> [to |-> IF d = d1 THEN p1 ELSE p2, rw |-> TRUE]],
     [d \in TwoDirs |-> [to |-> IF d = d1 THEN p2 ELSE Unmapped, rw |-> FALSE]]}

\* All vectors of up to two arguments, those of three over fewer tokens.
FewTokens == {Flag("-o"), Flag("-O"), <<"--output=", "g">>, Word("f"), Word("g"), Flag("--force")}
SomeTokens ==
    FewTokens \cup {<<"-o", "f">>, Word("url"), Word("domain"), Flag("--help"), Flag("-u"),
                   Flag("-c"), Flag(">")}

SomeCommands ==
    LET ForNmap(b) == IF b = "nmap" THEN {Flag("-oN"), <<"-oN", "g">>} ELSE {}
        Vectors(b, n) ==
            [1..n -> ForNmap(b) \cup (IF n < 3 THEN SomeTokens ELSE FewTokens)]
    IN  UNION {{<<Word(b)>> \o args : args \in Vectors(b, n)} :
                  b \in {"ls", "rm", "cp", "touch", "curl", "wget", "nmap", "bash"}, n \in 0..3}

AtProvider ==
    [v \in {"", "f", "g", "url", "domain"} |->
        CASE v = "" -> "@" [] v = "f" -> "@f" [] v = "g" -> "@g"
          [] v = "url" -> "@u" [] v = "domain" -> "@d"]

NoCommand == [argv |-> <<>>, verdict |-> "none", risk |-> "READ", sent |-> <<>>]

Init ==
    \/ part = "host" /\ HostInit /\ ProviderInit /\ session.run = 0 /\ cmd = NoCommand
    \/ /\ part \in {"provider", "policy"}
       /\ HostInit /\ external /\ made = <<>> /\ fs.write = {d1}
       /\ ProviderInit
       /\ IF part = "policy" THEN PolicyInit /\ session.run = 0 ELSE cmd = NoCommand

Next ==
    /\ UNCHANGED part
    /\ \/ part = "host" /\ HostNext /\ UNCHANGED <<providerVars, cmd>>
       \/ part = "provider" /\ ProviderNext /\ UNCHANGED <<hostVars, cmd>>
       \/ part = "policy" /\ Submit /\ UNCHANGED <<hostVars, providerVars>>

Spec ==
    /\ Init /\ [][Next]_<<part, hostVars, providerVars, cmd>>
    /\ \A t \in Tasks : WF_providerVars(ProviderStep(t))
=============================================================================
