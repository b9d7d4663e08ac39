--------------------------- MODULE HostController ---------------------------
(***************************************************************************)
(* HostController of runtime/host_controller.py: shell_command and the     *)
(* stateful session capabilities, on the local host or through an external *)
(* provider, from the checks made when a call enters to its launch.        *)
(*                                                                         *)
(* A call awaits the coordinator while its executable is resolved, while   *)
(* its approval is asked for, while the executable is looked at again and, *)
(* through a provider, while the command runs.  At each of these the host  *)
(* scope, the command policy, the provider's path mapping, the executables *)
(* and, by another call, the session may change.  Two calls are in flight  *)
(* at most.  A refusal changes nothing and only ends the call.             *)
(***************************************************************************)
EXTENDS Integers, FiniteSets, Sequences

CONSTANTS
    Slots,        \* the calls in flight
    Dirs,         \* host directories
    Scopes,       \* filesystem scopes: [read : SUBSET Dirs, write : SUBSET Dirs]
    Mappings,     \* path mappings: each Dirs -> [to : provider directory or
                  \* Unmapped, rw : BOOLEAN]
    Unmapped,
    Home,         \* the directory the process runs in
    MaxCalls,     \* bound: calls made
    MaxChanges    \* bound: changes from outside the calls

ASSUME HostAssumption ==
    /\ Home \in Dirs
    /\ Scopes \subseteq [read : SUBSET Dirs, write : SUBSET Dirs]
    /\ MaxCalls \in Nat /\ MaxChanges \in Nat

VARIABLES
    external,   \* _uses_external_provider
    fs,         \* _scope
    policy,     \* _policy: "none" or the policy in force
    mapping,    \* the provider's path mappings
    exe,        \* per PATH entry: the digest of the executable there, 0 if none
    made,       \* session objects made so far, each [cwd, pcwd, pol, closed]
    cur,        \* _session or _provider_session: its number, 0 for None
    hostCwd,    \* _provider_session_host_cwd
    fr,         \* per slot: the frame of the call
    calls,      \* calls so far
    changes     \* changes so far

hostVars == <<external, fs, policy, mapping, exe, made, cur, hostCwd, fr, calls, changes>>

-----------------------------------------------------------------------------
Policies == {"none", "deny", "p1", "p2"}
PathEntries == 1..2

\* CommandPolicy.check passes; FilesystemScope.allows; map_path.
Allowed(p) == p \in {"p1", "p2"}
Readable(s, d) == d \in s.read \cup s.write
Writable(s, d) == d \in s.write
MapsTo(m, d, p) == m[d].to = p /\ p # Unmapped
IsMapped(m, d) == m[d].to # Unmapped
MapsForWrite(m, d, p) == MapsTo(m, d, p) /\ m[d].rw

\* inspect_executable: the digest of what is at a path, 0 when nothing is.
DigestAt(e, i) == e[i]

\* _list_provider_tools with an exact name, and the lookup of the host: the
\* first entry of PATH that has the executable.
Lookup(e) ==
    IF \A i \in PathEntries : e[i] = 0 THEN 0
    ELSE CHOOSE i \in PathEntries :
            DigestAt(e, i) # 0 /\ \A j \in PathEntries : DigestAt(e, j) # 0 => i <= j

\* The frame of a call holds what its action was resolved to: session,
\* directories on the host and at the provider, output, policy, scope, mapping
\* and directory of the provider session (bound) it is bound to, path and digest
\* of its executable.
NoCall == [pc |-> "idle", op |-> "none", sid |-> 0, fresh |-> FALSE,
           cwd |-> Home, pcwd |-> Unmapped, next |-> Home, npcwd |-> Unmapped,
           out |-> Home, pout |-> Unmapped, pol |-> "none",
           fs |-> CHOOSE s \in Scopes : TRUE, mapping |-> CHOOSE m \in Mappings : TRUE,
           bound |-> Unmapped, path |-> 0, digest |-> 0, seen |-> 0]

NewSession(cwd, pcwd) == [cwd |-> cwd, pcwd |-> pcwd, pol |-> policy, closed |-> FALSE]

\* A session may have been opened before.
HostInit ==
    /\ external \in BOOLEAN
    /\ fs \in {s \in Scopes : s.write # {}} /\ policy = "p1"
    /\ mapping \in {m \in Mappings : \A d \in Dirs : m[d].rw}
    /\ exe = [i \in PathEntries |-> i - 1]
    /\ made \in {<<>>, <<NewSession(Home, mapping[Home].to)>>}
    /\ cur = Len(made) /\ hostCwd = Home
    /\ fr = [s \in Slots |-> NoCall]
    /\ calls = 0 /\ changes = 0

world == <<external, fs, policy, mapping, exe, changes>>
sessionState == <<made, cur, hostCwd>>

Entering(s) == fr[s].pc = "idle" /\ calls < MaxCalls /\ calls' = calls + 1

-----------------------------------------------------------------------------
\* shell_command writing to directory d: policy, scope and mapping of the
\* output are checked before the first await.
EnterShell(s, d) ==
    /\ Entering(s)
    /\ Allowed(policy) /\ Writable(fs, d)
    /\ external => MapsForWrite(mapping, d, mapping[d].to)
    /\ fr' = [fr EXCEPT ![s] = [NoCall EXCEPT !.pc = "resolve", !.op = "shell",
                 !.out = d, !.pout = mapping[d].to, !.pol = policy]]
    /\ UNCHANGED <<world, sessionState>>

\* _session_host_cwd without a directory asked for.
SessionHostCwd(cwd) == Readable(fs, cwd) /\ (Readable(fs, Home) => cwd = Home)

\* The session a session_exec is bound to: the open one, or a new one in a
\* directory the scope allows.
ProviderSessionFor(cwd) ==
    IF cur = 0 THEN SessionHostCwd(cwd) /\ IsMapped(mapping, cwd)
    ELSE cwd = hostCwd /\ ~ made[cur].closed /\ MapsTo(mapping, cwd, made[cur].pcwd)

LocalSessionFor(cwd) ==
    IF cur = 0 THEN cwd = Home ELSE cwd = made[cur].cwd /\ made[cur].pol = policy

\* A cd reads the directory it goes to, a command writes to its output.
ProviderMayUse(op, d) ==
    IF op = "cd" THEN Readable(fs, d) /\ IsMapped(mapping, d)
    ELSE Writable(fs, d) /\ MapsForWrite(mapping, d, mapping[d].to)

LocalMayUse(op, d) == IF op = "cd" THEN Readable(fs, d) ELSE Writable(fs, d)

\* session_exec of a command that writes to d, or of cd to d.
EnterExec(s, op, cwd, d) ==
    /\ Entering(s)
    /\ Allowed(policy) /\ Readable(fs, cwd)
    /\ IF external THEN ProviderSessionFor(cwd) /\ ProviderMayUse(op, d)
                   ELSE LocalSessionFor(cwd) /\ LocalMayUse(op, d)
    /\ made' = IF cur = 0 THEN Append(made, NewSession(cwd, mapping[cwd].to)) ELSE made
    /\ LET c == [NoCall EXCEPT !.op = op, !.fresh = (cur = 0), !.pol = policy,
                    !.sid = IF cur = 0 THEN Len(made') ELSE cur,
                    !.pc = IF op = "cd" /\ ~ external THEN "gate" ELSE "resolve",
                    !.cwd = cwd,
                    !.pcwd = IF external THEN mapping[cwd].to ELSE Unmapped]
       IN  fr' = [fr EXCEPT ![s] = IF op = "cd"
                    THEN [c EXCEPT !.next = d, !.npcwd = mapping[d].to]
                    ELSE [c EXCEPT !.out = d, !.pout = mapping[d].to]]
    /\ UNCHANGED <<world, cur, hostCwd>>

\* session_open in d; the local host's, when no directory is asked for, is in
\* Home, which is not looked at.  A provider session is made now and becomes
\* the controller's when the coordinator lets the call through.
EnterOpen(s, d) ==
    /\ Entering(s)
    /\ Readable(fs, d) \/ (~ external /\ d = Home)
    /\ external => cur = 0 /\ policy # "none" /\ IsMapped(mapping, d)
    /\ made' = Append(made, NewSession(d, mapping[d].to))
    /\ fr' = [fr EXCEPT ![s] = [NoCall EXCEPT !.pc = "gate", !.op = "open",
                 !.sid = Len(made'), !.cwd = d]]
    /\ UNCHANGED <<world, cur, hostCwd>>

EnterClose(s) ==
    /\ Entering(s)
    /\ external => policy # "none"
    /\ fr' = [fr EXCEPT ![s] = [NoCall EXCEPT !.pc = "gate", !.op = "close", !.sid = cur]]
    /\ UNCHANGED <<world, sessionState>>

-----------------------------------------------------------------------------
\* _resolve_executables: the path the name stands for and its digest; scope,
\* provider and the context of the provider session are bound after it.
Resolve(s) ==
    /\ fr[s].pc = "resolve" /\ Lookup(exe) # 0
    /\ fr' = [fr EXCEPT ![s].pc = "gate", ![s].path = Lookup(exe),
                        ![s].digest = DigestAt(exe, Lookup(exe)),
                        ![s].fs = fs, ![s].mapping = mapping,
                        ![s].bound = IF fr[s].sid = 0 THEN Unmapped
                                     ELSE made[fr[s].sid].pcwd]
    /\ UNCHANGED <<world, calls, sessionState>>

\* Denied, rejected, cancelled, or the executable is missing.
Abandon(s) ==
    /\ fr[s].pc \in {"resolve", "gate", "prepared"}
    /\ fr' = [fr EXCEPT ![s] = NoCall]
    /\ UNCHANGED <<world, calls, sessionState>>

\* The coordinator lets the call through (see Coordinator for how) and prepares
\* it: _recheck_executables finds the same digest at the same path.
Recheck(s) ==
    /\ fr[s].pc = "gate" /\ fr[s].op \in {"shell", "exec", "cd"}
    /\ fr[s].digest # 0 => DigestAt(exe, fr[s].path) = fr[s].digest
    /\ fr' = [fr EXCEPT ![s].pc = "prepared",
                        ![s].seen = IF fr[s].digest = 0 THEN 0
                                    ELSE DigestAt(exe, fr[s].path)]
    /\ UNCHANGED <<world, calls, sessionState>>

-----------------------------------------------------------------------------
\* Variant: the scope is compared and the outputs are not checked again.
BindingHoldsByScope(c) ==
    /\ c.fs.read = fs.read
    /\ Allowed(policy)
    /\ external => c.mapping = mapping

\* _validate_command_binding.
BindingHolds(c) ==
    /\ c.fs = fs /\ fs.read \cup fs.write # {}
    /\ Allowed(policy)
    /\ c.mapping = mapping
    /\ c.op # "cd" => Writable(fs, c.out)
    /\ external /\ c.op # "cd" => MapsForWrite(mapping, c.out, c.pout)

\* What _exec of a provider session checks besides.
ProviderSessionHolds(c) ==
    /\ cur = (IF c.fresh THEN 0 ELSE c.sid)
    /\ made[c.sid].pcwd = c.bound
    /\ ~ c.fresh => hostCwd = c.cwd
    /\ Readable(fs, c.cwd)
    /\ c.op = "cd" => Readable(fs, c.next)
    /\ MapsTo(mapping, c.cwd, c.pcwd)
    /\ ~ made[c.sid].closed

\* What _exec of a local session checks.  A session closed meanwhile is not
\* noticed: it becomes the controller's again.
LocalSessionHolds(c) ==
    /\ policy = c.pol /\ made[c.sid].pol = c.pol
    /\ cur # 0 => cur = c.sid
    /\ made[c.sid].cwd = c.cwd
    /\ Allowed(policy) /\ Readable(fs, c.cwd)
    /\ IF c.op = "cd" THEN Readable(fs, c.next) ELSE Writable(fs, c.out)

\* _op of shell_command, the local host's run being done when it returns.
LaunchShell(s) ==
    /\ fr[s].pc = "prepared" /\ fr[s].op = "shell"
    /\ BindingHolds(fr[s])
    /\ fr' = [fr EXCEPT ![s].pc = "running"]
    /\ UNCHANGED <<world, calls, sessionState>>

\* _exec through a provider: a fresh session becomes the controller's.
LaunchProvider(s) ==
    /\ fr[s].pc = "prepared" /\ fr[s].op \in {"exec", "cd"} /\ external
    /\ BindingHolds(fr[s]) /\ ProviderSessionHolds(fr[s])
    /\ cur' = fr[s].sid
    /\ hostCwd' = IF fr[s].fresh THEN fr[s].cwd ELSE hostCwd
    /\ fr' = [fr EXCEPT ![s].pc = "running"]
    /\ UNCHANGED <<world, calls, made>>

\* _exec and HostSession.run on the local host: the session moves at once when
\* what a cd names is a directory.
LaunchLocal(s, isDir) ==
    /\ fr[s].pc = "prepared" /\ fr[s].op \in {"exec", "cd"} /\ ~ external
    /\ LocalSessionHolds(fr[s])
    /\ cur' = fr[s].sid
    /\ fr' = [fr EXCEPT ![s].pc = "running"]
    /\ made' = IF fr[s].op = "cd" /\ isDir
               THEN [made EXCEPT ![fr[s].sid].cwd = fr[s].next] ELSE made
    /\ UNCHANGED <<world, calls, hostCwd>>

\* The command ends; after a successful cd the provider session moves, unless
\* it was closed while the test for the directory ran.
Finish(s, ok) ==
    /\ fr[s].pc = "running"
    /\ LET moves == external /\ fr[s].op = "cd" /\ ok /\ ~ made[fr[s].sid].closed IN
       /\ made' = IF moves THEN [made EXCEPT ![fr[s].sid].pcwd = fr[s].npcwd] ELSE made
       /\ hostCwd' = IF moves THEN fr[s].next ELSE hostCwd
    /\ fr' = [fr EXCEPT ![s] = NoCall]
    /\ UNCHANGED <<world, calls, cur>>

\* _open: whatever session is there by now is replaced.
Open(s) ==
    /\ fr[s].pc = "gate" /\ fr[s].op = "open"
    /\ external \/ policy # "none"
    /\ cur' = fr[s].sid
    /\ hostCwd' = IF external THEN fr[s].cwd ELSE hostCwd
    /\ made' = IF external THEN made ELSE [made EXCEPT ![fr[s].sid].pol = policy]
    /\ fr' = [fr EXCEPT ![s] = NoCall]
    /\ UNCHANGED <<world, calls>>

\* Variant: only the session object is closed.
CloseObject(s) ==
    /\ fr[s].pc = "gate" /\ fr[s].op = "close"
    /\ fr[s].sid # 0 /\ external => ~ made[fr[s].sid].closed
    /\ made' = IF fr[s].sid = 0 THEN made ELSE [made EXCEPT ![fr[s].sid].closed = TRUE]
    /\ fr' = [fr EXCEPT ![s] = NoCall]
    /\ UNCHANGED <<world, calls, hostCwd, cur>>

\* _close: the session the call was bound to is closed, and the controller
\* has none afterwards.  Closing a closed provider session raises.
Close(s) ==
    /\ fr[s].pc = "gate" /\ fr[s].op = "close"
    /\ fr[s].sid # 0 /\ external => ~ made[fr[s].sid].closed
    /\ made' = IF external /\ fr[s].sid # 0
               THEN [made EXCEPT ![fr[s].sid].closed = TRUE] ELSE made
    /\ cur' = 0 /\ hostCwd' = Home
    /\ fr' = [fr EXCEPT ![s] = NoCall]
    /\ UNCHANGED <<world, calls>>

-----------------------------------------------------------------------------
\* set_scope, the provider's configuration and the files change while calls
\* wait.
Changed ==
    /\ changes < MaxChanges /\ changes' = changes + 1
    /\ UNCHANGED <<external, sessionState, fr, calls>>

SetHostScope(s, p) ==
    /\ Changed /\ <<fs, policy>> # <<s, p>>
    /\ fs' = s /\ policy' = p
    /\ UNCHANGED <<mapping, exe>>

Remap(m) ==
    /\ Changed /\ external /\ mapping # m
    /\ mapping' = m
    /\ UNCHANGED <<fs, policy, exe>>

ReplaceExecutable(i, digest) ==
    /\ Changed /\ exe[i] # digest
    /\ exe' = [exe EXCEPT ![i] = digest]
    /\ UNCHANGED <<fs, policy, mapping>>

HostNext ==
    \/ \E s \in Slots :
          \/ \E d \in Dirs : EnterShell(s, d) \/ EnterOpen(s, d)
          \/ \E op \in {"exec", "cd"}, cwd, d \in Dirs : EnterExec(s, op, cwd, d)
          \/ EnterClose(s) \/ Resolve(s) \/ Abandon(s) \/ Recheck(s)
          \/ LaunchShell(s) \/ LaunchProvider(s) \/ Open(s) \/ Close(s)
          \/ \E ok \in BOOLEAN : LaunchLocal(s, ok) \/ Finish(s, ok)
    \/ \E s \in Scopes, p \in Policies : SetHostScope(s, p)
    \/ \E m \in Mappings : Remap(m)
    \/ \E i \in PathEntries, digest \in 0..2 : ReplaceExecutable(i, digest)

HostSpec == HostInit /\ [][HostNext]_hostVars

-----------------------------------------------------------------------------
Launches(s) == fr[s].pc = "prepared" /\ fr'[s].pc = "running"

\* What starts is inside the restrictions of this moment, not of the moment
\* the call entered: policy, directory and output are allowed now, the output
\* and the working directory still map to the provider paths that were
\* approved, and the session is in that directory on the host.  Its executable
\* was seen, after the approval, with the digest the approval was given for,
\* at the path that was approved.
LaunchIsAuthorised ==
    [][\A s \in Slots : Launches(s) =>
          LET c == fr[s] IN
          /\ Allowed(policy) /\ c.seen = c.digest
          /\ c.op # "cd" => Writable(fs, c.out) /\ (external => MapsForWrite(mapping, c.out, c.pout))
          /\ c.op # "shell" =>
                /\ Readable(fs, c.cwd)
                /\ external => MapsTo(mapping, c.cwd, c.pcwd) /\ hostCwd' = c.cwd
                /\ ~ external => made[c.sid].cwd = c.cwd
          /\ c.op = "cd" => Readable(fs, c.next)]_hostVars

\* The controller never holds a provider session that was closed, whatever
\* calls overlapped.  Of local sessions this says nothing: one that is closed
\* while a session_exec waits becomes the controller's again (LocalSessionHolds).
CurrentIsOpen == external /\ cur # 0 => ~ made[cur].closed
=============================================================================
