--------------------------- MODULE HostInvariant ---------------------------
(***************************************************************************)
(* The inductive invariant of HostController.                              *)
(***************************************************************************)
EXTENDS HostController

\* The provider directories the mappings name, and none.
Paths == {m[d].to : m \in Mappings, d \in Dirs} \cup {Unmapped}

SessionObjects == [cwd : Dirs, pcwd : Paths, pol : Policies, closed : BOOLEAN]

Digests == 0..2

CallFrames ==
    [pc : {"idle", "resolve", "gate", "prepared", "running"},
     op : {"none", "shell", "exec", "cd", "open", "close"},
     sid : Nat, fresh : BOOLEAN, cwd : Dirs, pcwd : Paths, next : Dirs, npcwd : Paths,
     out : Dirs, pout : Paths, pol : Policies, fs : Scopes, mapping : Mappings,
     bound : Paths, path : 0..2, digest : Digests, seen : Digests]

HostTypeOK ==
    /\ external \in BOOLEAN
    /\ fs \in Scopes /\ policy \in Policies /\ mapping \in Mappings
    /\ exe \in [PathEntries -> Digests]
    /\ made \in Seq(SessionObjects)
    /\ cur \in 0..Len(made) /\ hostCwd \in Dirs
    /\ fr \in [Slots -> CallFrames]
    /\ calls \in Nat /\ changes \in Nat

\* A frame is bound to a session object that was made, and one that is done
\* with its call is bound to none.
FramesAreBound ==
    \A s \in Slots :
        /\ fr[s].sid <= Len(made)
        /\ fr[s].pc # "idle" /\ fr[s].op \in {"exec", "cd", "open"} => fr[s].sid # 0
        /\ fr[s].pc = "idle" => fr[s].sid = 0

\* The session object of a session_open that has not been let through yet is
\* nobody else's: it is not the controller's, no other call is bound to it, and
\* so no session_close can have closed it.
OpensItsOwn ==
    \A s \in Slots : fr[s].pc # "idle" /\ fr[s].op = "open" =>
        /\ ~ made[fr[s].sid].closed
        /\ cur # fr[s].sid
        /\ \A u \in Slots : u # s => fr[u].sid # fr[s].sid

\* A call that was prepared runs a command, with the executable it was
\* approved with.
PreparedIsChecked ==
    \A s \in Slots : fr[s].pc = "prepared" =>
        fr[s].seen = fr[s].digest /\ fr[s].op \in {"shell", "exec", "cd"}

HostInv ==
    HostTypeOK /\ FramesAreBound /\ OpensItsOwn /\ PreparedIsChecked /\ CurrentIsOpen
=============================================================================
