------------------------- MODULE ProviderExecution -------------------------
(***************************************************************************)
(* The execution providers of src/decode/execution: how one command is run *)
(* by the local, SSH, WSL, Docker and MCP providers, under which token the *)
(* call is let through, and the provider's stateful session around it.     *)
(*                                                                         *)
(* Each task is an asyncio task with a context variable of its own.  The   *)
(* child process, the container and the MCP server move on their own: they *)
(* may end at any moment, also the one at which the wait for them gives    *)
(* up.  A cancelled task leaves its call at the await it is at; nothing in *)
(* the providers catches the cancellation.                                 *)
(***************************************************************************)
EXTENDS Integers, FiniteSets

CONSTANTS
    Tasks,          \* the asyncio tasks that call the provider
    Kinds,          \* the providers: a subset of ProviderKinds
    CommandLimit,   \* command_limit of the session
    MaxStarts       \* bound: calls of each task

ProviderKinds == {"local", "ssh", "wsl", "docker", "mcp"}

ASSUME ProviderAssumption ==
    /\ Kinds \subseteq ProviderKinds
    /\ CommandLimit \in Nat \ {0} /\ MaxStarts \in Nat

VARIABLES
    run,       \* per task: the frame of execute (see Frame)
    child,     \* per task: the process or container behind its latest call
    box,       \* per task: the container of its latest call: "none", "there"
               \* or, when the removal failed, "stuck"
    token,     \* per task: the provider the context variable names, or "none"
    scope,     \* per task: it is inside the coordinator's call or a health check
    session,   \* the provider session: closed, commands run
    starts     \* per task: calls so far

providerVars == <<run, child, box, token, scope, session, starts>>

-----------------------------------------------------------------------------
Frame ==
    [pc : {"idle", "spawn", "wait", "kill", "reap", "stop", "logs", "remove"},
     kind : ProviderKinds, inSession : BOOLEAN,
     out : {"none", "ok", "failed", "error", "timeout", "cancelled"},
     thread : BOOLEAN]

\* thread: a Docker call whose task is gone runs on in its worker thread.
NoRun == [pc |-> "idle", kind |-> "local", inSession |-> FALSE, out |-> "none",
          thread |-> FALSE]

Ends(r, out) == [r EXCEPT !.pc = "idle", !.out = IF r.thread THEN "cancelled" ELSE out,
                          !.thread = FALSE]

\* These three take the same steps around a process of this host: the command
\* itself, or the ssh or wsl.exe client that carries it.  What a client leaves
\* running at the other end is out of their sight and out of this model.
IsProcess(k) == k \in {"local", "ssh", "wsl"}

\* The session may have run its commands already.
ProviderInit ==
    /\ run = [t \in Tasks |-> NoRun]
    /\ child = [t \in Tasks |-> "none"]
    /\ box = [t \in Tasks |-> "none"]
    /\ token = [t \in Tasks |-> "none"]
    /\ scope = [t \in Tasks |-> FALSE]
    /\ session \in [closed : {FALSE}, run : {0, CommandLimit}]
    /\ starts = [t \in Tasks |-> 0]

-----------------------------------------------------------------------------
\* _activate_execution: by the coordinator for the executor of a request, and
\* by the wrapped check_health for the time of the check.
Activate(t, k) ==
    /\ ~ scope[t] /\ run[t].pc = "idle" /\ starts[t] < MaxStarts
    /\ scope' = [scope EXCEPT ![t] = TRUE]
    /\ token' = [token EXCEPT ![t] = k]
    /\ UNCHANGED <<run, child, box, session, starts>>

\* _reset_execution in the finally clause, also when execute was cancelled.
Reset(t) ==
    /\ scope' = [scope EXCEPT ![t] = FALSE]
    /\ token' = [token EXCEPT ![t] = "none"]

Deactivate(t) ==
    /\ scope[t] /\ (run[t].pc = "idle" \/ run[t].thread)
    /\ Reset(t)
    /\ UNCHANGED <<run, child, box, session, starts>>

\* _provider_execution_matches.
Governed(t, k) == token[t] = k

\* prepare_session_context and the limit, before the await.
SessionOpen == ~ session.closed /\ session.run < CommandLimit

\* execute or execute_session up to its first await.  An unsupported context,
\* a missing client, a malformed MCP payload end it there.
Execute(t, k, inSession, usable) ==
    /\ run[t].pc = "idle" /\ starts[t] < MaxStarts
    /\ Governed(t, k)
    /\ inSession => IsProcess(k) /\ SessionOpen
    /\ starts' = [starts EXCEPT ![t] = @ + 1]
    /\ child' = [child EXCEPT ![t] = "none"]
    /\ LET r == [NoRun EXCEPT !.pc = IF k = "mcp" THEN "wait" ELSE "spawn",
                              !.kind = k, !.inSession = inSession]
       IN  run' = [run EXCEPT ![t] = IF usable THEN r ELSE Ends(r, "error")]
    /\ session' = IF inSession /\ ~ usable
                  THEN [session EXCEPT !.run = @ + 1] ELSE session
    /\ box' = [box EXCEPT ![t] = "none"]
    /\ UNCHANGED <<token, scope>>

\* What execute_session does with a result.
Recorded(r) ==
    IF r.inSession
    THEN [session EXCEPT !.run = @ + 1]
    ELSE session

Return(t, out) ==
    /\ run' = [run EXCEPT ![t] = Ends(@, out)]
    /\ session' = IF run[t].thread THEN session ELSE Recorded(run'[t])
    /\ UNCHANGED <<token, scope, starts>>

\* The process is created, or the container is created and started.
Spawn(t) ==
    /\ run[t].pc = "spawn"
    /\ run' = [run EXCEPT ![t].pc = "wait"]
    /\ child' = [child EXCEPT ![t] = "running"]
    /\ box' = IF run[t].kind = "docker" THEN [box EXCEPT ![t] = "there"] ELSE box
    /\ UNCHANGED <<token, scope, session, starts>>

\* The command is not found, the image is not cached, the socket is gone.
SpawnFails(t) ==
    /\ run[t].pc = "spawn"
    /\ Return(t, "error")
    /\ UNCHANGED <<child, box>>

\* A container that is created and does not start is removed by the finally.
StartFails(t) ==
    /\ run[t].pc = "spawn" /\ run[t].kind = "docker"
    /\ run' = [run EXCEPT ![t].pc = "remove", ![t].out = "error"]
    /\ box' = [box EXCEPT ![t] = "there"]
    /\ UNCHANGED <<child, token, scope, session, starts>>

\* The process or container ends; code stands for 0 or not.
Exits(t, code) ==
    /\ child[t] = "running"
    /\ child' = [child EXCEPT ![t] = code]
    /\ UNCHANGED <<run, box, token, scope, session, starts>>

\* communicate returns: success is the exit code 0.
Collect(t) ==
    /\ run[t].pc = "wait" /\ IsProcess(run[t].kind)
    /\ child[t] \in {"zero", "nonzero"}
    /\ Return(t, IF child[t] = "zero" THEN "ok" ELSE "failed")
    /\ UNCHANGED <<child, box>>

\* The MCP call returns or raises.
ToolReturns(t, out) ==
    /\ run[t].pc = "wait" /\ run[t].kind = "mcp"
    /\ Return(t, out)
    /\ UNCHANGED <<child, box>>

\* Variant: the timed out process is left to itself.
TimeoutUnkilled(t) ==
    /\ run[t].pc = "wait"
    /\ \/ /\ IsProcess(run[t].kind) \/ run[t].kind = "mcp"
          /\ Return(t, "timeout")
       \/ /\ run[t].kind = "docker"
          /\ run' = [run EXCEPT ![t].pc = "stop", ![t].out = "timeout"]
          /\ UNCHANGED <<token, scope, session, starts>>
    /\ UNCHANGED <<child, box>>

\* wait_for gives up: whether or not the process has ended by then.
Timeout(t) ==
    /\ run[t].pc = "wait"
    /\ \/ /\ run[t].kind = "mcp"
          /\ Return(t, "timeout")
       \/ /\ run[t].kind # "mcp"
          /\ run' = [run EXCEPT ![t].pc = IF run[t].kind = "docker" THEN "stop" ELSE "kill",
                                ![t].out = "timeout"]
          /\ UNCHANGED <<token, scope, session, starts>>
    /\ UNCHANGED <<child, box>>

\* Variant: the process is only waited for.
KillUnsent(t) ==
    /\ run[t].pc = "kill"
    /\ run' = [run EXCEPT ![t].pc = "reap"]
    /\ UNCHANGED <<child, box, token, scope, session, starts>>

\* proc.kill(): a process that has just ended is not there to be killed.
Kill(t) ==
    /\ run[t].pc = "kill"
    /\ child' = [child EXCEPT ![t] = IF @ = "running" THEN "killed" ELSE @]
    /\ run' = [run EXCEPT ![t].pc = "reap"]
    /\ UNCHANGED <<box, token, scope, session, starts>>

\* proc.wait() returns, or there was no process to wait for.
Reap(t) ==
    /\ run[t].pc = "reap" /\ child[t] # "running"
    /\ Return(t, "timeout")
    /\ UNCHANGED <<child, box>>

\* container.wait returns: the status code, or something that is none.
ContainerEnds(t, valid) ==
    /\ run[t].pc = "wait" /\ run[t].kind = "docker"
    /\ child[t] \in {"zero", "nonzero"}
    /\ run' = [run EXCEPT ![t].pc = "logs",
                          ![t].out = IF ~ valid THEN "error"
                                     ELSE IF child[t] = "zero" THEN "ok" ELSE "failed"]
    /\ UNCHANGED <<child, box, token, scope, session, starts>>

\* container.wait raises something that is no timeout: no stop, no logs, on to
\* the finally clause, and execute makes the exception an error.  The container
\* may run on.
ContainerWaitFails(t) ==
    /\ run[t].pc = "wait" /\ run[t].kind = "docker"
    /\ run' = [run EXCEPT ![t].pc = "remove", ![t].out = "error"]
    /\ UNCHANGED <<child, box, token, scope, session, starts>>

\* container.stop; whether it works is not looked at.
StopContainer(t, works) ==
    /\ run[t].pc = "stop"
    /\ child' = [child EXCEPT ![t] = IF @ = "running" /\ works THEN "killed" ELSE @]
    /\ run' = [run EXCEPT ![t].pc = "logs"]
    /\ UNCHANGED <<box, token, scope, session, starts>>

\* container.logs; an exception makes the result an error.
ReadLogs(t, works) ==
    /\ run[t].pc = "logs"
    /\ run' = [run EXCEPT ![t].pc = "remove", ![t].out = IF works THEN @ ELSE "error"]
    /\ UNCHANGED <<child, box, token, scope, session, starts>>

\* remove(force=True) in the finally clause; its failure is passed over.
RemoveContainer(t, works) ==
    /\ run[t].pc = "remove"
    /\ box' = [box EXCEPT ![t] = IF works THEN "none" ELSE "stuck"]
    /\ child' = [child EXCEPT ![t] = IF @ = "running" /\ works THEN "killed" ELSE @]
    /\ Return(t, run[t].out)

\* The task is cancelled at an await.  The worker thread of a Docker call
\* cannot be: it goes on, and nobody waits for its result.
CancelTask(t) ==
    /\ run[t].pc \in {"spawn", "wait", "reap", "stop", "logs", "remove"} /\ ~ run[t].thread
    /\ run' = [run EXCEPT ![t] = IF run[t].kind = "docker"
                                 THEN [@ EXCEPT !.thread = TRUE]
                                 ELSE Ends(@, "cancelled")]
    /\ UNCHANGED <<child, box, token, scope, session, starts>>

\* close_session, also while a command of the session is under way.
CloseSession ==
    /\ ~ session.closed
    /\ session' = [session EXCEPT !.closed = TRUE]
    /\ UNCHANGED <<run, child, box, token, scope, starts>>

-----------------------------------------------------------------------------
\* What the provider itself does next, as opposed to its callers, the command
\* and the operator.
ProviderStep(t) ==
    \/ Spawn(t) \/ SpawnFails(t) \/ StartFails(t) \/ Collect(t) \/ Timeout(t)
    \/ Kill(t) \/ Reap(t) \/ ContainerWaitFails(t)
    \/ \E out \in {"ok", "error"} : ToolReturns(t, out)
    \/ \E b \in BOOLEAN : ContainerEnds(t, b) \/ StopContainer(t, b)
                            \/ ReadLogs(t, b) \/ RemoveContainer(t, b)

ProviderNext ==
    \/ \E t \in Tasks :
          \/ \E k \in Kinds : Activate(t, k)
          \/ \E k \in Kinds, s, usable \in BOOLEAN : Execute(t, k, s, usable)
          \/ Deactivate(t) \/ ProviderStep(t) \/ CancelTask(t)
          \/ \E code \in {"zero", "nonzero"} : Exits(t, code)
    \/ CloseSession

ProviderSpec ==
    /\ ProviderInit /\ [][ProviderNext]_providerVars
    /\ \A t \in Tasks : WF_providerVars(ProviderStep(t))

-----------------------------------------------------------------------------
\* When a call is over, on whichever path, its container has been removed or
\* the removal itself failed; its command has ended too, unless its container
\* could not be removed or it is the process of a cancelled call, of which this
\* says nothing (see CancelTerminatesChildren); and a success is an exit with
\* code 0.  So what is retried after a timeout or an error runs alone.
AnsweredIsOver ==
    \A t \in Tasks : run[t].pc = "idle" =>
        /\ box[t] # "there"
        /\ child[t] = "running" =>
              box[t] = "stuck" \/ (IsProcess(run[t].kind) /\ run[t].out = "cancelled")
        /\ run[t].out = "ok" /\ run[t].kind # "mcp" => child[t] = "zero"

\* docs/EXECUTION_PIPELINE.md: "Timeout/cancel terminates children."  When the
\* call of a process is over because its task was cancelled, so is the process.
CancelTerminatesChildren ==
    \A t \in Tasks :
        run[t].pc = "idle" /\ IsProcess(run[t].kind) /\ run[t].out = "cancelled"
            => child[t] # "running"

\* Every started command ends: it is answered, or its task was cancelled.
ExecuteReturns ==
    \A t \in Tasks : (run[t].pc # "idle") ~> (run[t].pc = "idle")
=============================================================================
