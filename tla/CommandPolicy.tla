--------------------------- MODULE CommandPolicy ---------------------------
(***************************************************************************)
(* The argument-sensitive policy of hostcontrol/policy.py: how a command   *)
(* is read through a leading sudo, which of its arguments are outputs, how *)
(* they are rewritten for an external provider, how risky the command is   *)
(* and what the permission mode makes of it.                               *)
(*                                                                         *)
(* A token is a pair: a flag and the value written to it without a space,  *)
(* either of which may be missing.  -oN stands for nmap's four -oX flags,  *)
(* and only nmap is given it.  The letter case of tokens and the resolving *)
(* of paths are left out.                                                  *)
(***************************************************************************)
EXTENDS Integers, Sequences, FiniteSets, Functions

CONSTANTS
    Commands,    \* argument vectors, each beginning with a binary other than sudo
    Permitted,   \* the binaries the allow and deny lists let through
    Provided     \* host value -> the provider path it is replaced by

VARIABLE cmd     \* the command, what was decided and what is sent

-----------------------------------------------------------------------------
Missing == ""
Flag(f) == <<f, Missing>>
Word(v) == <<Missing, v>>
IsFlag(t) == t[1] \notin {Missing, ">"}

Destructive == {"rm"}
WriteBinaries == {"cp", "touch"}
NetworkBinaries == {"curl", "wget", "nmap"}
Interpreters == {"bash"}
SudoValueFlags == {Flag("-u"), Flag("-g")}
ControlTokens == {Flag(">"), <<">", "f">>}
Targets == {"url", "domain"}

RiskRank == [READ |-> 0, WRITE |-> 1, DESTRUCTIVE |-> 2]

\* Variant: every option of sudo is taken to be one token.
StripSudoFlagsOnly(argv) ==
    LET n == Len(argv)
        from[i \in 2..(n + 2)] ==
            IF i > n THEN n + 1
            ELSE IF argv[i] = Flag("--") THEN i + 1
            ELSE IF IsFlag(argv[i]) THEN from[i + 1] ELSE i
    IN  IF argv[1] # Word("sudo") THEN <<FALSE, 0>> ELSE <<TRUE, from[2] - 1>>

\* strip_sudo: whether it is sudo, and how many tokens come before the
\* command proper.
StripSudo(argv) ==
    LET n == Len(argv)
        from[i \in 2..(n + 2)] ==
            IF i > n THEN n + 1
            ELSE IF argv[i] = Flag("--") THEN i + 1
            ELSE IF IsFlag(argv[i])
                 THEN from[IF argv[i] \in SudoValueFlags THEN i + 2 ELSE i + 1]
            ELSE i
    IN  IF argv[1] # Word("sudo") THEN <<FALSE, 0>> ELSE <<TRUE, from[2] - 1>>

Inner(argv) == SubSeq(argv, StripSudo(argv)[2] + 1, Len(argv))

-----------------------------------------------------------------------------
ValueFlags(binary) ==
    {Flag("--output")}
      \cup IF binary = "wget" THEN {Flag("-O"), Flag("-P")} ELSE {Flag("-o")}

\* curl -O writes into the working directory: an output without a position.
InCwd == [index |-> 0, prefix |-> Missing, path |-> Word(".")]

\* The while loop: the outputs of args[i..].  A flag takes the next token,
\* whatever that is, and that token is not read as a flag itself.
FlagOutputs(binary, args, offset) ==
    LET At(i, prefix, path) ==
            {[index |-> offset + i + 1, prefix |-> prefix, path |-> path]}
        Next2(i) == At(i + 1, Missing, args[i + 1])
        Attached(i, prefix) ==
            IF args[i][1] = prefix /\ args[i][2] # Missing
            THEN At(i, prefix, Word(args[i][2])) ELSE {}
        scan[i \in 1..(Len(args) + 2)] ==
            IF i > Len(args) THEN {}
            ELSE IF args[i] \in ValueFlags(binary) /\ i < Len(args)
                 THEN Next2(i) \cup scan[i + 2]
            ELSE IF binary = "nmap" /\ args[i] = Flag("-oN") /\ i < Len(args)
                 THEN Next2(i) \cup scan[i + 2]
            ELSE scan[i + 1] \cup Attached(i, "--output=")
                   \cup (IF binary = "curl" THEN Attached(i, "-o") ELSE {})
                   \cup (IF binary = "nmap" THEN Attached(i, "-oN") ELSE {})
                   \cup (IF binary = "curl" /\ args[i] = Flag("-O") THEN {InCwd} ELSE {})
    IN  scan[1]

\* The last word of cp, every word of touch.
PositionalOutputs(binary, args, offset) ==
    LET words == {i \in 1..Len(args) : ~ IsFlag(args[i])}
        outs == CASE binary = "cp" -> {i \in words : \A j \in words : j <= i}
                  [] binary = "touch" -> words
                  [] OTHER -> {}
    IN  {[index |-> offset + i + 1, prefix |-> Missing, path |-> args[i]] : i \in outs}

\* command_output_bindings.
OutputBindings(argv) ==
    LET inner == Inner(argv)
        offset == StripSudo(argv)[2]
    IN  IF inner = <<>> THEN {}
        ELSE FlagOutputs(inner[1][2], Tail(inner), offset)
               \cup PositionalOutputs(inner[1][2], Tail(inner), offset)

ProviderValues == Range(Provided)

\* Commands begin with the name of a binary, provider paths are not empty, and
\* there is one for every output: without one a command is refused before.
ASSUME PolicyAssumption ==
    /\ \A argv \in Commands :
          /\ argv \in Seq(STRING \X STRING) /\ argv # <<>>
          /\ argv[1][1] = Missing /\ argv[1] # Word("sudo")
          /\ \A b \in OutputBindings(argv) : b.index # 0 => b.path[2] \in DOMAIN Provided
    /\ \A v \in DOMAIN Provided : Provided[v] \in STRING \ {Missing}

\* rewrite_command_output_paths.
Rewrite(argv) ==
    [i \in DOMAIN argv |->
        LET here == {b \in OutputBindings(argv) : b.index = i}
        IN  IF here = {} THEN argv[i]
            ELSE LET b == CHOOSE x \in here : TRUE
                 IN  <<b.prefix, Provided[b.path[2]]>>]

-----------------------------------------------------------------------------
\* command_target finds something; command_requires_target.
HasTarget(inner) ==
    \E i \in 2..Len(inner) :
        \/ inner[i] = Word("url")
        \/ inner[i] = Word("domain") /\ inner[1][2] \in NetworkBinaries

RequiresTarget(argv) ==
    LET inner == Inner(argv) IN
    /\ inner # <<>>
    /\ ~ (inner[1][2] \in NetworkBinaries /\ Flag("--help") \in Range(Tail(inner)))
    /\ HasTarget(inner) \/ inner[1][2] \in NetworkBinaries

\* CommandPolicy.check: the lists are asked about the first token, the
\* operators and the interpreters are looked for behind sudo.
Check(argv) ==
    LET inner == Inner(argv) IN
    /\ argv[1][2] \in Permitted
    /\ inner # <<>> =>
          /\ ~ (inner[1][2] \in Interpreters /\ Flag("-c") \in Range(Tail(inner)))
          /\ Range(inner) \cap ControlTokens = {}

\* CommandPolicy.classify.
Classify(argv) ==
    LET sudo == StripSudo(argv)[1]
        inner == Inner(argv)
    IN  IF inner = <<>> THEN (IF sudo THEN "WRITE" ELSE "READ")
        ELSE IF inner[1][2] \in Destructive
                \/ Flag("--force") \in Range(Tail(inner))
                \/ Range(inner) \cap ControlTokens # {} THEN "DESTRUCTIVE"
        ELSE IF OutputBindings(inner) # {} \/ inner[1][2] \in WriteBinaries \/ sudo
             THEN "WRITE"
        ELSE "READ"

\* resolve_mode_decision.
ModeDecision(mode, risk) ==
    IF mode = "plan" THEN "deny"
    ELSE IF risk = "READ" \/ (risk = "WRITE" /\ mode = "auto") THEN "allow"
    ELSE "approve"

-----------------------------------------------------------------------------
PolicyInit ==
    cmd \in [argv : Commands, verdict : {"new"}, risk : {"READ"}, sent : {<<>>}]

\* What the host controller asks the policy about a command it is given.
Submit ==
    /\ cmd.verdict = "new"
    /\ cmd' = IF Check(cmd.argv)
              THEN [cmd EXCEPT !.verdict = "accepted", !.risk = Classify(cmd.argv),
                               !.sent = Rewrite(cmd.argv)]
              ELSE [cmd EXCEPT !.verdict = "refused"]

PolicySpec == PolicyInit /\ [][Submit]_cmd

-----------------------------------------------------------------------------
Modes == {"plan", "ask", "auto"}
Strictness == [allow |-> 0, approve |-> 1, deny |-> 2]
SudoPrefixes ==
    {<<Word("sudo")>>, <<Word("sudo"), Flag("-S")>>, <<Word("sudo"), Flag("--")>>,
     <<Word("sudo"), Flag("-u"), Word("f")>>, <<Word("sudo"), Flag("-g"), Flag("-S")>>}

\* Writing sudo and its options in front of a command changes neither what it
\* writes to nor whether it needs a target, and in no mode makes the decision
\* about it more lenient.
SudoIsTransparent ==
    cmd.verdict = "accepted" =>
        \A p \in SudoPrefixes :
            LET a == p \o cmd.argv IN
            /\ RequiresTarget(a) <=> RequiresTarget(cmd.argv)
            /\ Rewrite(a) = p \o cmd.sent
            /\ \A m \in Modes : Strictness[ModeDecision(m, Classify(a))]
                                  >= Strictness[ModeDecision(m, cmd.risk)]

\* The command a provider is sent, read again as a command, names provider
\* paths for all its outputs, and is not riskier than the one approved.
SentWritesInside ==
    cmd.verdict = "accepted" =>
        /\ \A b \in OutputBindings(cmd.sent) : b.index # 0 => b.path[2] \in ProviderValues
        /\ RiskRank[Classify(cmd.sent)] <= RiskRank[cmd.risk]

\* What a command writes to and how risky it is are found wherever it is: alone,
\* behind sudo, and in the form it is sent in.
PolicySeesThrough == SudoIsTransparent /\ SentWritesInside
=============================================================================
