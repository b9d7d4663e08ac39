----------------------------- MODULE HostProofs -----------------------------
(***************************************************************************)
(* What is proved of the host controller, of the providers under it and of *)
(* its command policy.                                                     *)
(*                                                                         *)
(* HostInv is inductive, for any calls in flight, any scopes and any path  *)
(* mappings; so the controller never holds a closed provider session (a    *)
(* local one can come back closed, of which nothing is claimed), and       *)
(* what starts is inside the restrictions of the moment it starts.         *)
(* ProviderInv is inductive, for any tasks, any of the providers and any   *)
(* command limit; so whatever order commands, timeouts, exits, failures    *)
(* and cancellations come in, only the process of a cancelled call and a   *)
(* container that cannot be removed outlive the call that started them.    *)
(* The policy reads a command, its outputs and its risk the same wherever  *)
(* it is: alone, behind sudo, and in the form in which it is sent.         *)
(***************************************************************************)
EXTENDS HostInvariant, ProviderInvariant, CommandPolicy, SequenceTheorems,
        WellFoundedInduction, TLAPS

-----------------------------------------------------------------------------
(* The host controller.                                                      *)

\* A session_open on its way.
Opening(f) == f.pc # "idle" /\ f.op = "open"

\* What FramesAreBound and PreparedIsChecked say of one frame.
FrameFits(f) ==
    /\ f.pc # "idle" /\ f.op \in {"exec", "cd", "open"} => f.sid # 0
    /\ f.pc = "idle" => f.sid = 0
    /\ f.pc = "prepared" => f.seen = f.digest /\ f.op \in {"shell", "exec", "cd"}

\* What the invariant says of the frame of a call, by parts.
LEMMA FrameOf ==
    ASSUME HostInv, NEW s \in Slots
    PROVE  /\ fr[s] \in CallFrames /\ FrameFits(fr[s]) /\ fr[s].sid \in 0..Len(made)
           /\ Opening(fr[s]) =>
                /\ fr[s].sid # 0 /\ ~ made[fr[s].sid].closed /\ cur # fr[s].sid
                /\ \A u \in Slots : u # s => fr[u].sid # fr[s].sid
<1>1. fr[s] \in CallFrames BY DEF HostInv, HostTypeOK
<1>2. fr[s].sid \in Nat BY <1>1 DEF CallFrames
<1>3. made \in Seq(SessionObjects) BY DEF HostInv, HostTypeOK
<1>4. fr[s].sid <= Len(made) BY DEF HostInv, FramesAreBound
<1>5. fr[s].sid \in 0..Len(made) BY <1>2, <1>3, <1>4, LenProperties
<1>6. FrameFits(fr[s]) BY DEF HostInv, FramesAreBound, PreparedIsChecked, FrameFits
<1>7. QED BY <1>1, <1>5, <1>6 DEF HostInv, OpensItsOwn, Opening, FrameFits

\* The frame of no call, whatever the scopes and mappings.
LEMMA NoCallIsFrame ==
    ASSUME HostInv
    PROVE  NoCall \in CallFrames /\ FrameFits(NoCall) /\ ~ Opening(NoCall) /\ NoCall.sid = 0
<1>1. (CHOOSE s \in Scopes : TRUE) \in Scopes /\ (CHOOSE m \in Mappings : TRUE) \in Mappings
  BY DEF HostInv, HostTypeOK
<1>2. QED BY <1>1, HostAssumption DEF NoCall, CallFrames, Policies, Digests, Paths, FrameFits, Opening

\* A step of one call keeps the invariant if its own frame fits, the session
\* objects of the session_opens on their way stay open and their own, and the
\* controller's is open.
LEMMA CallKeepsInv ==
    ASSUME HostInv, NEW s \in Slots, NEW f \in CallFrames, fr' = [fr EXCEPT ![s] = f],
           UNCHANGED world, calls' \in Nat,
           made' \in Seq(SessionObjects), Len(made) <= Len(made'),
           cur' \in 0..Len(made'), hostCwd' \in Dirs,
           FrameFits(f), f.sid <= Len(made'),
           Opening(f) => /\ ~ made'[f.sid].closed /\ cur' # f.sid
                         /\ \A u \in Slots : u # s => fr[u].sid # f.sid,
           \A u \in Slots : u # s /\ Opening(fr[u]) =>
              ~ made'[fr[u].sid].closed /\ cur' # fr[u].sid /\ f.sid # fr[u].sid,
           external /\ cur' # 0 => ~ made'[cur'].closed
    PROVE  HostInv'
<1>1. fr' \in [Slots -> CallFrames] /\ fr'[s] = f
      /\ \A u \in Slots : u # s => fr'[u] = fr[u]
  BY DEF HostInv, HostTypeOK
<1>2. HostTypeOK' BY <1>1 DEF HostInv, HostTypeOK, world
<1>3. FramesAreBound'
  <2> SUFFICES ASSUME NEW u \in Slots
               PROVE  /\ fr'[u].sid <= Len(made')
                      /\ fr'[u].pc # "idle" /\ fr'[u].op \in {"exec", "cd", "open"} => fr'[u].sid # 0
                      /\ fr'[u].pc = "idle" => fr'[u].sid = 0
    BY DEF FramesAreBound
  <2>1. CASE u = s BY <1>1, <2>1 DEF FrameFits
  <2>2. CASE u # s
    <3>1. fr[u].sid \in 0..Len(made) /\ FrameFits(fr[u]) BY FrameOf
    <3>2. Len(made) \in Nat /\ Len(made') \in Nat BY LenProperties DEF HostInv, HostTypeOK
    <3>3. fr'[u] = fr[u] BY <1>1, <2>2
    <3>4. fr[u].sid <= Len(made') BY <3>1, <3>2
    <3>5. QED BY <3>1, <3>3, <3>4 DEF FrameFits
  <2>3. QED BY <2>1, <2>2
<1>4. OpensItsOwn'
  <2> SUFFICES ASSUME NEW u \in Slots, fr'[u].pc # "idle", fr'[u].op = "open"
               PROVE  /\ ~ made'[fr'[u].sid].closed /\ cur' # fr'[u].sid
                      /\ \A v \in Slots : v # u => fr'[v].sid # fr'[u].sid
    BY DEF OpensItsOwn
  <2>1. CASE u = s BY <1>1, <2>1 DEF Opening
  <2>2. CASE u # s
    <3>1. Opening(fr[u]) /\ fr'[u] = fr[u] BY <1>1, <2>2 DEF Opening
    <3>2. \A v \in Slots : v # u => fr[v].sid # fr[u].sid BY <3>1, FrameOf
    <3>3. QED BY <1>1, <2>2, <3>1, <3>2
  <2>3. QED BY <2>1, <2>2
<1>5. PreparedIsChecked' BY <1>1 DEF PreparedIsChecked, HostInv, FrameFits
<1>6. CurrentIsOpen' BY DEF CurrentIsOpen, world
<1>7. QED BY <1>2, <1>3, <1>4, <1>5, <1>6 DEF HostInv

\* One that changes only the frame of its call, the call being bound to what
\* it was bound to, to nothing, or to the controller's session.
LEMMA FrameKeepsInv ==
    ASSUME HostInv, NEW s \in Slots, NEW f \in CallFrames, fr' = [fr EXCEPT ![s] = f],
           UNCHANGED <<world, sessionState>>, calls' \in Nat, FrameFits(f),
           f.sid \in {0, fr[s].sid, cur},
           Opening(f) => Opening(fr[s]) /\ f.sid = fr[s].sid
    PROVE  HostInv'
<1>1. /\ made' = made /\ cur' = cur /\ hostCwd' = hostCwd /\ made \in Seq(SessionObjects)
      /\ cur \in 0..Len(made) /\ hostCwd \in Dirs
  BY DEF sessionState, HostInv, HostTypeOK
<1>2. Len(made) \in Nat BY <1>1, LenProperties
<1>3. fr[s].sid \in 0..Len(made) BY FrameOf
<1>4. f.sid <= Len(made') BY <1>1, <1>2, <1>3
<1>5. Opening(f) => /\ ~ made'[f.sid].closed /\ cur' # f.sid
                    /\ \A u \in Slots : u # s => fr[u].sid # f.sid
  BY <1>1, FrameOf
<1>6. ASSUME NEW u \in Slots, u # s, Opening(fr[u])
      PROVE  ~ made'[fr[u].sid].closed /\ cur' # fr[u].sid /\ f.sid # fr[u].sid
  BY <1>1, <1>6, FrameOf
<1>7. external /\ cur' # 0 => ~ made'[cur'].closed BY <1>1 DEF HostInv, CurrentIsOpen
<1>8. UNCHANGED world BY DEF world
<1>9. Len(made) <= Len(made') BY <1>1, <1>2
<1>10. QED BY <1>1, <1>4, <1>5, <1>6, <1>7, <1>8, <1>9, CallKeepsInv

\* One whose call is bound to a session object it makes.
LEMMA FreshKeepsInv ==
    ASSUME HostInv, NEW s \in Slots, NEW f \in CallFrames, fr' = [fr EXCEPT ![s] = f],
           NEW x \in SessionObjects, ~ x.closed, made' = Append(made, x),
           UNCHANGED <<world, cur, hostCwd>>, calls' \in Nat, FrameFits(f), f.sid = Len(made')
    PROVE  HostInv'
<1>1. /\ made \in Seq(SessionObjects) /\ cur \in 0..Len(made) /\ hostCwd \in Dirs
  BY DEF HostInv, HostTypeOK
<1>2. /\ made' \in Seq(SessionObjects) /\ Len(made') = Len(made) + 1 /\ made'[Len(made')] = x
      /\ \A i \in 1..Len(made) : made'[i] = made[i]
  BY <1>1, AppendProperties
<1>3. Len(made) \in Nat BY <1>1, LenProperties
<1>4. ASSUME NEW u \in Slots PROVE fr[u].sid # f.sid /\ fr[u].sid \in 0..Len(made)
  BY <1>2, <1>3, FrameOf
<1>5. cur' # f.sid /\ cur' \in 0..Len(made') BY <1>1, <1>2, <1>3
<1>6. ASSUME NEW u \in Slots, u # s, Opening(fr[u])
      PROVE  ~ made'[fr[u].sid].closed /\ cur' # fr[u].sid /\ f.sid # fr[u].sid
  <2>1. fr[u].sid \in 1..Len(made) /\ ~ made[fr[u].sid].closed /\ cur # fr[u].sid
    BY <1>3, <1>4, <1>6, FrameOf
  <2>2. QED BY <1>2, <1>4, <2>1
<1>7. external /\ cur' # 0 => ~ made'[cur'].closed
  <2>1. SUFFICES ASSUME external, cur # 0 PROVE ~ made'[cur].closed OBVIOUS
  <2>2. cur \in 1..Len(made) BY <1>1, <1>3, <2>1
  <2>3. QED BY <1>2, <2>1, <2>2 DEF HostInv, CurrentIsOpen
<1>8. UNCHANGED world /\ hostCwd' \in Dirs BY <1>1
<1>9. Len(made) <= Len(made') /\ f.sid <= Len(made') BY <1>2, <1>3
<1>10. /\ ~ made'[f.sid].closed /\ \A u \in Slots : u # s => fr[u].sid # f.sid
  BY <1>2, <1>4
<1>11. QED BY <1>2, <1>5, <1>6, <1>7, <1>8, <1>9, <1>10, CallKeepsInv

-----------------------------------------------------------------------------
\* A directory's place at the provider.
LEMMA MappedTo ==
    ASSUME HostInv, NEW d \in Dirs
    PROVE  mapping[d].to \in Paths /\ Unmapped \in Paths
  BY DEF HostInv, HostTypeOK, Paths

\* A session object made now.
LEMMA NewSessionType ==
    ASSUME HostInv, NEW d \in Dirs
    PROVE  NewSession(d, mapping[d].to) \in SessionObjects /\ ~ NewSession(d, mapping[d].to).closed
  BY MappedTo DEF NewSession, SessionObjects, HostInv, HostTypeOK

LEMMA EnterShellKeeps ==
    ASSUME HostInv, NEW s \in Slots, NEW d \in Dirs, EnterShell(s, d)
    PROVE  HostInv'
<1> DEFINE f == [NoCall EXCEPT !.pc = "resolve", !.op = "shell",
                    !.out = d, !.pout = mapping[d].to, !.pol = policy]
<1>1. f \in CallFrames /\ FrameFits(f) /\ f.sid = 0 /\ ~ Opening(f)
  BY NoCallIsFrame, MappedTo DEF CallFrames, FrameFits, Opening, HostInv, HostTypeOK
<1>2. fr' = [fr EXCEPT ![s] = f] /\ calls' \in Nat
  BY DEF EnterShell, Entering, HostInv, HostTypeOK
<1> HIDE DEF f
<1>3. QED BY <1>1, <1>2, FrameKeepsInv DEF EnterShell

LEMMA EnterExecKeeps ==
    ASSUME HostInv, NEW s \in Slots, NEW op \in {"exec", "cd"}, NEW cwd \in Dirs, NEW d \in Dirs,
           EnterExec(s, op, cwd, d)
    PROVE  HostInv'
<1> DEFINE c == [NoCall EXCEPT !.op = op, !.fresh = (cur = 0), !.pol = policy,
                    !.sid = IF cur = 0 THEN Len(made') ELSE cur,
                    !.pc = IF op = "cd" /\ ~ external THEN "gate" ELSE "resolve",
                    !.cwd = cwd,
                    !.pcwd = IF external THEN mapping[cwd].to ELSE Unmapped]
           f == IF op = "cd" THEN [c EXCEPT !.next = d, !.npcwd = mapping[d].to]
                             ELSE [c EXCEPT !.out = d, !.pout = mapping[d].to]
<1>1. /\ made \in Seq(SessionObjects) /\ Len(made) \in Nat /\ cur \in 0..Len(made)
  BY LenProperties DEF HostInv, HostTypeOK
<1>2. cur = 0 => /\ made' = Append(made, NewSession(cwd, mapping[cwd].to))
                 /\ Len(made') = Len(made) + 1
  BY <1>1, NewSessionType, AppendProperties DEF EnterExec
<1>3. /\ c \in CallFrames /\ c.pc \in {"gate", "resolve"} /\ c.op = op
      /\ c.sid = (IF cur = 0 THEN Len(made') ELSE cur) /\ c.sid # 0
  <2>1. (IF cur = 0 THEN Len(made') ELSE cur) \in Nat \ {0} BY <1>1, <1>2
  <2>2. policy \in Policies BY DEF HostInv, HostTypeOK
  <2>3. (IF external THEN mapping[cwd].to ELSE Unmapped) \in Paths BY MappedTo
  <2>4. QED BY <2>1, <2>2, <2>3, NoCallIsFrame DEF CallFrames
<1>4. fr' = [fr EXCEPT ![s] = f] /\ calls' \in Nat
  BY DEF EnterExec, Entering, HostInv, HostTypeOK
<1> HIDE DEF c
<1>5. f \in CallFrames /\ f.pc = c.pc /\ f.op = c.op /\ f.sid = c.sid
  BY <1>3, MappedTo DEF CallFrames
<1> HIDE DEF f
<1>6. FrameFits(f) /\ ~ Opening(f) BY <1>3, <1>5 DEF FrameFits, Opening
<1>7. UNCHANGED <<world, cur, hostCwd>> BY DEF EnterExec
<1>8. CASE cur = 0
  <2> DEFINE x == NewSession(cwd, mapping[cwd].to)
  <2>1. x \in SessionObjects /\ ~ x.closed /\ made' = Append(made, x) BY <1>2, <1>8, NewSessionType
  <2>2. f.sid = Len(made') BY <1>3, <1>5, <1>8
  <2> HIDE DEF x
  <2>3. QED BY <1>4, <1>5, <1>6, <1>7, <2>1, <2>2, FreshKeepsInv
<1>9. CASE cur # 0
  <2>1. f.sid = cur /\ made' = made BY <1>3, <1>5, <1>9 DEF EnterExec
  <2>2. QED BY <1>4, <1>5, <1>6, <1>7, <2>1, FrameKeepsInv DEF sessionState
<1>10. QED BY <1>8, <1>9

LEMMA EnterOpenKeeps ==
    ASSUME HostInv, NEW s \in Slots, NEW d \in Dirs, EnterOpen(s, d)
    PROVE  HostInv'
<1> DEFINE f == [NoCall EXCEPT !.pc = "gate", !.op = "open", !.sid = Len(made'), !.cwd = d]
           x == NewSession(d, mapping[d].to)
<1>1. x \in SessionObjects /\ ~ x.closed /\ made' = Append(made, x)
  BY NewSessionType DEF EnterOpen
<1>2. fr' = [fr EXCEPT ![s] = f] /\ calls' \in Nat /\ UNCHANGED <<world, cur, hostCwd>>
  BY DEF EnterOpen, Entering, HostInv, HostTypeOK
<1> HIDE DEF x
<1>3. Len(made') \in Nat \ {0}
  BY <1>1, AppendProperties, LenProperties DEF HostInv, HostTypeOK
<1>4. f \in CallFrames /\ FrameFits(f) /\ f.sid = Len(made')
  BY <1>3, NoCallIsFrame DEF CallFrames, FrameFits
<1> HIDE DEF f
<1>5. QED BY <1>1, <1>2, <1>4, FreshKeepsInv

LEMMA EnterCloseKeeps == ASSUME HostInv, NEW s \in Slots, EnterClose(s) PROVE HostInv'
<1> DEFINE f == [NoCall EXCEPT !.pc = "gate", !.op = "close", !.sid = cur]
<1>1. cur \in Nat BY LenProperties DEF HostInv, HostTypeOK
<1>2. f \in CallFrames /\ FrameFits(f) /\ f.sid = cur /\ ~ Opening(f)
  BY <1>1, NoCallIsFrame DEF CallFrames, FrameFits, Opening
<1>3. fr' = [fr EXCEPT ![s] = f] /\ calls' \in Nat
  BY DEF EnterClose, Entering, HostInv, HostTypeOK
<1> HIDE DEF f
<1>4. QED BY <1>2, <1>3, FrameKeepsInv DEF EnterClose

-----------------------------------------------------------------------------
\* The first entry of PATH that has the executable.
LEMMA LookupFindsEntry ==
    ASSUME NEW e \in [PathEntries -> Digests]
    PROVE  Lookup(e) \in 0..2 /\ (Lookup(e) # 0 => Lookup(e) \in PathEntries)
<1>1. CASE \A i \in PathEntries : e[i] = 0 BY <1>1 DEF Lookup
<1>2. CASE ~ \A i \in PathEntries : e[i] = 0
  <2>1. \E i \in PathEntries : DigestAt(e, i) # 0
                               /\ \A j \in PathEntries : DigestAt(e, j) # 0 => i <= j
    <3>1. CASE e[1] # 0 BY <3>1 DEF PathEntries, DigestAt
    <3>2. CASE e[1] = 0 BY <1>2, <3>2 DEF PathEntries, DigestAt
    <3>3. QED BY <3>1, <3>2
  <2>2. Lookup(e) \in PathEntries BY <1>2, <2>1 DEF Lookup
  <2>3. QED BY <2>2 DEF PathEntries
<1>3. QED BY <1>1, <1>2

LEMMA ResolveKeeps == ASSUME HostInv, NEW s \in Slots, Resolve(s) PROVE HostInv'
<1> DEFINE b == IF fr[s].sid = 0 THEN Unmapped ELSE made[fr[s].sid].pcwd
           f == [fr[s] EXCEPT !.pc = "gate", !.path = Lookup(exe),
                              !.digest = DigestAt(exe, Lookup(exe)), !.fs = fs, !.mapping = mapping,
                              !.bound = b]
<1>1. fr[s] \in CallFrames /\ FrameFits(fr[s]) BY FrameOf
<1>2. /\ Lookup(exe) \in 0..2 /\ DigestAt(exe, Lookup(exe)) \in Digests
  BY LookupFindsEntry DEF Resolve, DigestAt, HostInv, HostTypeOK
<1>3. b \in Paths
  <2>1. made \in Seq(SessionObjects) /\ fr[s].sid \in 0..Len(made)
    BY FrameOf DEF HostInv, HostTypeOK
  <2>2. fr[s].sid # 0 => made[fr[s].sid] \in SessionObjects BY <2>1, ElementOfSeq
  <2>3. QED BY <2>2 DEF SessionObjects, Paths
<1> HIDE DEF b
<1>4. f \in CallFrames /\ f.pc = "gate" /\ f.op = fr[s].op /\ f.sid = fr[s].sid
  BY <1>1, <1>2, <1>3 DEF CallFrames, HostInv, HostTypeOK
<1>5. fr' = [fr EXCEPT ![s] = f]
  BY <1>1 DEF b, Resolve, CallFrames, HostInv, HostTypeOK
<1> HIDE DEF f
<1>6. FrameFits(f) /\ (Opening(f) => Opening(fr[s]))
  BY <1>1, <1>4 DEF FrameFits, Opening, Resolve
<1>7. QED BY <1>4, <1>5, <1>6, FrameKeepsInv DEF Resolve, HostInv, HostTypeOK

LEMMA AbandonKeeps == ASSUME HostInv, NEW s \in Slots, Abandon(s) PROVE HostInv'
  BY NoCallIsFrame, FrameKeepsInv DEF Abandon, HostInv, HostTypeOK

LEMMA RecheckKeeps == ASSUME HostInv, NEW s \in Slots, Recheck(s) PROVE HostInv'
<1> DEFINE seen == IF fr[s].digest = 0 THEN 0 ELSE DigestAt(exe, fr[s].path)
           f == [fr[s] EXCEPT !.pc = "prepared", !.seen = seen]
<1>1. fr[s] \in CallFrames /\ FrameFits(fr[s]) BY FrameOf
<1>2. seen = fr[s].digest /\ seen \in Digests BY <1>1 DEF Recheck, CallFrames
<1>3. fr' = [fr EXCEPT ![s] = f]
  BY <1>1 DEF Recheck, CallFrames, HostInv, HostTypeOK
<1> HIDE DEF seen
<1>4. /\ f \in CallFrames /\ f.pc = "prepared" /\ f.op = fr[s].op /\ f.sid = fr[s].sid
      /\ f.seen = seen /\ f.digest = fr[s].digest
  BY <1>1, <1>2 DEF CallFrames
<1> HIDE DEF f
<1>5. FrameFits(f) /\ ~ Opening(f) BY <1>1, <1>2, <1>4 DEF FrameFits, Opening, Recheck
<1>6. QED BY <1>3, <1>4, <1>5, FrameKeepsInv DEF Recheck, HostInv, HostTypeOK

\* A prepared call begins to run.
LEMMA RunningFrame ==
    ASSUME HostInv, NEW s \in Slots, fr[s].pc = "prepared"
    PROVE  \E f \in CallFrames :
              /\ [fr EXCEPT ![s].pc = "running"] = [fr EXCEPT ![s] = f]
              /\ FrameFits(f) /\ ~ Opening(f) /\ f.sid = fr[s].sid
<1> DEFINE f == [fr[s] EXCEPT !.pc = "running"]
<1>1. fr[s] \in CallFrames /\ FrameFits(fr[s]) BY FrameOf
<1>2. /\ f \in CallFrames /\ f.pc = "running" /\ f.op = fr[s].op /\ f.sid = fr[s].sid
  BY <1>1 DEF CallFrames
<1>3. [fr EXCEPT ![s].pc = "running"] = [fr EXCEPT ![s] = f]
  BY DEF HostInv, HostTypeOK
<1> HIDE DEF f
<1>4. FrameFits(f) /\ ~ Opening(f) BY <1>1, <1>2 DEF FrameFits, Opening
<1>5. QED BY <1>2, <1>3, <1>4

LEMMA LaunchShellKeeps == ASSUME HostInv, NEW s \in Slots, LaunchShell(s) PROVE HostInv'
<1>1. PICK f \in CallFrames :
          /\ [fr EXCEPT ![s].pc = "running"] = [fr EXCEPT ![s] = f]
          /\ FrameFits(f) /\ ~ Opening(f) /\ f.sid = fr[s].sid
  BY RunningFrame DEF LaunchShell
<1>2. fr' = [fr EXCEPT ![s] = f] /\ calls' \in Nat BY <1>1 DEF LaunchShell, HostInv, HostTypeOK
<1>3. QED BY <1>1, <1>2, FrameKeepsInv DEF LaunchShell

\* A call whose session becomes the controller's.
LEMMA TakesSession ==
    ASSUME HostInv, NEW s \in Slots, fr[s].sid # 0,
           NEW f \in CallFrames, fr' = [fr EXCEPT ![s] = f],
           FrameFits(f), ~ Opening(f), f.sid \in {0, fr[s].sid},
           cur' = fr[s].sid, hostCwd' \in Dirs, UNCHANGED <<world, calls>>,
           \/ made' = made
           \/ \E x \in SessionObjects :
                 made' = [made EXCEPT ![fr[s].sid] = x] /\ x.closed = made[fr[s].sid].closed,
           external => ~ made[fr[s].sid].closed
    PROVE  HostInv'
<1>1. made \in Seq(SessionObjects) /\ Len(made) \in Nat
  BY LenProperties DEF HostInv, HostTypeOK
<1>2. fr[s].sid \in 1..Len(made) BY <1>1, FrameOf
<1>3. /\ made' \in Seq(SessionObjects) /\ Len(made') = Len(made)
      /\ \A i \in 1..Len(made) : made'[i].closed = made[i].closed
  BY <1>1, <1>2, ExceptSeq
<1>4. ASSUME NEW u \in Slots, u # s, Opening(fr[u])
      PROVE  ~ made'[fr[u].sid].closed /\ cur' # fr[u].sid /\ f.sid # fr[u].sid
  <2>1. /\ fr[u].sid \in 0..Len(made) /\ fr[u].sid # 0
        /\ ~ made[fr[u].sid].closed /\ fr[s].sid # fr[u].sid
    BY <1>4, FrameOf
  <2>2. fr[u].sid \in 1..Len(made) BY <1>1, <2>1
  <2>3. QED BY <1>3, <2>1, <2>2
<1>5. /\ cur' \in 0..Len(made') /\ Len(made) <= Len(made') /\ f.sid <= Len(made')
  BY <1>1, <1>2, <1>3
<1>6. external /\ cur' # 0 => ~ made'[cur'].closed BY <1>2, <1>3
<1>7. UNCHANGED world /\ calls' \in Nat BY DEF HostInv, HostTypeOK
<1>8. QED BY <1>3, <1>4, <1>5, <1>6, <1>7, CallKeepsInv

LEMMA LaunchProviderKeeps == ASSUME HostInv, NEW s \in Slots, LaunchProvider(s) PROVE HostInv'
<1>1. PICK f \in CallFrames :
          /\ [fr EXCEPT ![s].pc = "running"] = [fr EXCEPT ![s] = f]
          /\ FrameFits(f) /\ ~ Opening(f) /\ f.sid = fr[s].sid
  BY RunningFrame DEF LaunchProvider
<1>2. fr[s] \in CallFrames /\ fr[s].sid # 0
  BY FrameOf DEF LaunchProvider, FrameFits
<1>3. hostCwd' \in Dirs BY <1>2 DEF LaunchProvider, CallFrames, HostInv, HostTypeOK
<1>4. ~ made[fr[s].sid].closed BY DEF LaunchProvider, ProviderSessionHolds
<1>5. fr' = [fr EXCEPT ![s] = f] BY <1>1 DEF LaunchProvider
<1>6. QED BY <1>1, <1>2, <1>3, <1>4, <1>5, TakesSession DEF LaunchProvider

LEMMA LaunchLocalKeeps ==
    ASSUME HostInv, NEW s \in Slots, NEW isDir \in BOOLEAN, LaunchLocal(s, isDir)
    PROVE  HostInv'
<1>1. PICK f \in CallFrames :
          /\ [fr EXCEPT ![s].pc = "running"] = [fr EXCEPT ![s] = f]
          /\ FrameFits(f) /\ ~ Opening(f) /\ f.sid = fr[s].sid
  BY RunningFrame DEF LaunchLocal
<1>2. /\ fr[s] \in CallFrames /\ fr[s].sid # 0 /\ fr[s].sid \in 0..Len(made)
  BY FrameOf DEF LaunchLocal, FrameFits
<1>3. made \in Seq(SessionObjects) /\ Len(made) \in Nat
  BY LenProperties DEF HostInv, HostTypeOK
<1>4. made[fr[s].sid] \in SessionObjects BY <1>2, <1>3, ElementOfSeq
<1>5. \/ made' = made
      \/ \E x \in SessionObjects :
            made' = [made EXCEPT ![fr[s].sid] = x] /\ x.closed = made[fr[s].sid].closed
  <2> DEFINE x == [made[fr[s].sid] EXCEPT !.cwd = fr[s].next]
  <2>1. x \in SessionObjects /\ x.closed = made[fr[s].sid].closed
    BY <1>2, <1>4 DEF SessionObjects, CallFrames
  <2>2. made' = made \/ made' = [made EXCEPT ![fr[s].sid] = x] BY DEF LaunchLocal
  <2>3. QED BY <2>1, <2>2
<1>6. hostCwd' \in Dirs /\ ~ external BY DEF LaunchLocal, HostInv, HostTypeOK
<1>7. fr' = [fr EXCEPT ![s] = f] BY <1>1 DEF LaunchLocal
<1>8. QED BY <1>1, <1>2, <1>5, <1>6, <1>7, TakesSession DEF LaunchLocal

LEMMA OpenKeeps == ASSUME HostInv, NEW s \in Slots, Open(s) PROVE HostInv'
<1>1. /\ fr[s] \in CallFrames /\ fr[s].sid # 0 /\ fr[s].sid \in 0..Len(made)
      /\ ~ made[fr[s].sid].closed
  BY FrameOf DEF Open, Opening
<1>2. made \in Seq(SessionObjects) /\ Len(made) \in Nat
  BY LenProperties DEF HostInv, HostTypeOK
<1>3. made[fr[s].sid] \in SessionObjects BY <1>1, <1>2, ElementOfSeq
<1>4. \/ made' = made
      \/ \E x \in SessionObjects :
            made' = [made EXCEPT ![fr[s].sid] = x] /\ x.closed = made[fr[s].sid].closed
  <2> DEFINE x == [made[fr[s].sid] EXCEPT !.pol = policy]
  <2>1. x \in SessionObjects /\ x.closed = made[fr[s].sid].closed
    BY <1>3 DEF SessionObjects, HostInv, HostTypeOK
  <2>2. made' = made \/ made' = [made EXCEPT ![fr[s].sid] = x] BY DEF Open
  <2>3. QED BY <2>1, <2>2
<1>5. hostCwd' \in Dirs BY <1>1 DEF Open, CallFrames, HostInv, HostTypeOK
<1>6. QED BY <1>1, <1>4, <1>5, NoCallIsFrame, TakesSession DEF Open

\* A call that ends without giving its session to the controller.
LEMMA FinishKeeps ==
    ASSUME HostInv, NEW s \in Slots, NEW ok \in BOOLEAN, Finish(s, ok)
    PROVE  HostInv'
<1> DEFINE moves == external /\ fr[s].op = "cd" /\ ok /\ ~ made[fr[s].sid].closed
           x == [made[fr[s].sid] EXCEPT !.pcwd = fr[s].npcwd]
<1>1. /\ fr[s] \in CallFrames /\ fr[s].sid \in 0..Len(made) /\ FrameFits(fr[s])
  BY FrameOf
<1>2. /\ made \in Seq(SessionObjects) /\ Len(made) \in Nat /\ cur \in 0..Len(made)
      /\ hostCwd \in Dirs
  BY LenProperties DEF HostInv, HostTypeOK
<1>3. moves => fr[s].sid \in 1..Len(made) BY <1>1, <1>2 DEF Finish, FrameFits
<1>4. moves => x \in SessionObjects /\ x.closed = made[fr[s].sid].closed
  <2>1. moves => made[fr[s].sid] \in SessionObjects BY <1>2, <1>3, ElementOfSeq
  <2> HIDE DEF moves
  <2>2. QED BY <1>1, <2>1 DEF SessionObjects, CallFrames
<1>5. hostCwd' \in Dirs BY <1>1, <1>2 DEF Finish, CallFrames
<1>6. made' = IF moves THEN [made EXCEPT ![fr[s].sid] = x] ELSE made BY DEF Finish
<1> HIDE DEF moves, x
<1>7. /\ made' \in Seq(SessionObjects) /\ Len(made') = Len(made)
      /\ \A i \in 1..Len(made) : made'[i].closed = made[i].closed
  <2>1. CASE moves BY <1>2, <1>3, <1>4, <1>6, <2>1, ExceptSeq
  <2>2. CASE ~ moves BY <1>2, <1>6, <2>2
  <2>3. QED BY <2>1, <2>2
<1>8. ASSUME NEW u \in Slots, u # s, Opening(fr[u])
      PROVE  ~ made'[fr[u].sid].closed /\ cur' # fr[u].sid /\ NoCall.sid # fr[u].sid
  <2>1. fr[u].sid \in 1..Len(made) /\ ~ made[fr[u].sid].closed /\ cur # fr[u].sid
    BY <1>2, <1>8, FrameOf
  <2>2. NoCall.sid = 0 /\ cur' = cur BY NoCallIsFrame DEF Finish
  <2>3. QED BY <1>7, <2>1, <2>2
<1>9. external /\ cur' # 0 => ~ made'[cur'].closed
  <2>1. SUFFICES ASSUME external, cur # 0 PROVE ~ made'[cur].closed BY DEF Finish
  <2>2. cur \in 1..Len(made) BY <1>2, <2>1
  <2>3. QED BY <1>7, <2>1, <2>2 DEF HostInv, CurrentIsOpen
<1>10. /\ cur' \in 0..Len(made') /\ Len(made) <= Len(made') /\ NoCall.sid <= Len(made')
  BY <1>2, <1>7, NoCallIsFrame DEF Finish
<1>11. UNCHANGED world /\ calls' \in Nat /\ fr' = [fr EXCEPT ![s] = NoCall]
  BY DEF Finish, HostInv, HostTypeOK
<1>12. QED BY <1>5, <1>7, <1>8, <1>9, <1>10, <1>11, NoCallIsFrame, CallKeepsInv

LEMMA CloseKeeps == ASSUME HostInv, NEW s \in Slots, Close(s) PROVE HostInv'
<1> DEFINE closes == external /\ fr[s].sid # 0
           x == [made[fr[s].sid] EXCEPT !.closed = TRUE]
<1>1. fr[s] \in CallFrames /\ fr[s].sid \in 0..Len(made) BY FrameOf
<1>2. made \in Seq(SessionObjects) /\ Len(made) \in Nat
  BY LenProperties DEF HostInv, HostTypeOK
<1>3. closes => fr[s].sid \in 1..Len(made) BY <1>1, <1>2
<1>4. closes => x \in SessionObjects
  <2>1. closes => made[fr[s].sid] \in SessionObjects BY <1>2, <1>3, ElementOfSeq
  <2> HIDE DEF closes
  <2>2. QED BY <2>1 DEF SessionObjects
<1>5. made' = IF closes THEN [made EXCEPT ![fr[s].sid] = x] ELSE made BY DEF Close
<1> HIDE DEF closes, x
<1>6. /\ made' \in Seq(SessionObjects) /\ Len(made') = Len(made)
      /\ \A i \in 1..Len(made) : i # fr[s].sid => made'[i] = made[i]
  <2>1. CASE closes BY <1>2, <1>3, <1>4, <1>5, <2>1, ExceptSeq
  <2>2. CASE ~ closes BY <1>2, <1>5, <2>2
  <2>3. QED BY <2>1, <2>2
<1>7. ASSUME NEW u \in Slots, u # s, Opening(fr[u])
      PROVE  ~ made'[fr[u].sid].closed /\ cur' # fr[u].sid /\ NoCall.sid # fr[u].sid
  <2>1. /\ fr[u].sid \in 1..Len(made) /\ ~ made[fr[u].sid].closed /\ fr[s].sid # fr[u].sid
    BY <1>2, <1>7, FrameOf
  <2>2. NoCall.sid = 0 /\ cur' = 0 BY NoCallIsFrame DEF Close
  <2>3. QED BY <1>6, <2>1, <2>2
<1>8. cur' = 0 /\ hostCwd' \in Dirs BY HostAssumption DEF Close
<1>9. cur' \in 0..Len(made') /\ Len(made) <= Len(made') /\ NoCall.sid <= Len(made')
  BY <1>2, <1>6, <1>8, NoCallIsFrame
<1>10. UNCHANGED world /\ calls' \in Nat /\ fr' = [fr EXCEPT ![s] = NoCall]
  BY DEF Close, HostInv, HostTypeOK
<1>11. QED BY <1>6, <1>7, <1>8, <1>9, <1>10, NoCallIsFrame, CallKeepsInv

\* What changes from outside is no call's and no session's.
LEMMA WorldKeepsInv ==
    ASSUME HostInv,
           \/ \E s \in Scopes, p \in Policies : SetHostScope(s, p)
           \/ \E m \in Mappings : Remap(m)
           \/ \E i \in PathEntries, digest \in 0..2 : ReplaceExecutable(i, digest)
    PROVE  HostInv'
<1>1. UNCHANGED <<external, sessionState, fr, calls>> /\ changes' \in Nat
  BY DEF SetHostScope, Remap, ReplaceExecutable, Changed, HostInv, HostTypeOK
<1>2. fs' \in Scopes /\ policy' \in Policies /\ mapping' \in Mappings
  BY DEF SetHostScope, Remap, ReplaceExecutable, HostInv, HostTypeOK
<1>3. exe' \in [PathEntries -> Digests]
  BY DEF SetHostScope, Remap, ReplaceExecutable, HostInv, HostTypeOK, Digests
<1>4. HostTypeOK' BY <1>1, <1>2, <1>3 DEF sessionState, HostInv, HostTypeOK
<1>5. QED
  BY <1>1, <1>4
     DEF sessionState, HostInv, FramesAreBound, OpensItsOwn, PreparedIsChecked, CurrentIsOpen

-----------------------------------------------------------------------------
LEMMA HostInitHolds == HostInit => HostInv
<1> SUFFICES ASSUME HostInit PROVE HostInv
  OBVIOUS
<1>1. fs \in Scopes /\ mapping \in Mappings /\ policy \in Policies
  BY DEF HostInit, Policies
<1>2. (CHOOSE s \in Scopes : TRUE) \in Scopes /\ (CHOOSE m \in Mappings : TRUE) \in Mappings
  BY <1>1
<1>3. NoCall \in CallFrames /\ FrameFits(NoCall) /\ NoCall.sid = 0 /\ NoCall.pc = "idle"
  BY <1>2, HostAssumption DEF NoCall, CallFrames, Policies, Digests, Paths, FrameFits
<1>4. exe \in [PathEntries -> Digests] BY DEF HostInit, PathEntries, Digests
<1>5. /\ made \in Seq(SessionObjects) /\ Len(made) \in Nat
      /\ \A i \in 1..Len(made) : ~ made[i].closed
  <2> DEFINE x == NewSession(Home, mapping[Home].to)
  <2>1. x \in SessionObjects /\ ~ x.closed
    BY <1>1, HostAssumption DEF NewSession, SessionObjects, Paths
  <2> HIDE DEF x
  <2>2. made = <<>> \/ made = <<x>> BY DEF HostInit, x
  <2>3. CASE made = <<>> BY <2>3
  <2>4. CASE made = <<x>> BY <2>1, <2>4
  <2>5. QED BY <2>2, <2>3, <2>4
<1>6. HostTypeOK BY <1>1, <1>3, <1>4, <1>5, HostAssumption DEF HostInit, HostTypeOK
<1>7. CurrentIsOpen BY <1>5 DEF HostInit, CurrentIsOpen
<1>8. \A s \in Slots : fr[s] = NoCall BY DEF HostInit
<1>9. FramesAreBound /\ OpensItsOwn /\ PreparedIsChecked
  BY <1>3, <1>5, <1>8 DEF FramesAreBound, OpensItsOwn, PreparedIsChecked
<1>10. QED BY <1>6, <1>7, <1>9 DEF HostInv

LEMMA HostNextKeeps == HostInv /\ [HostNext]_hostVars => HostInv'
<1> SUFFICES ASSUME HostInv, [HostNext]_hostVars PROVE HostInv'
  OBVIOUS
<1>1. CASE UNCHANGED hostVars
  BY <1>1 DEF hostVars, HostInv, HostTypeOK, FramesAreBound, OpensItsOwn, PreparedIsChecked,
              CurrentIsOpen
<1>2. ASSUME NEW s \in Slots, NEW d \in Dirs, EnterShell(s, d) \/ EnterOpen(s, d)
      PROVE  HostInv'
  BY <1>2, EnterShellKeeps, EnterOpenKeeps
<1>3. ASSUME NEW s \in Slots, NEW op \in {"exec", "cd"}, NEW cwd \in Dirs, NEW d \in Dirs,
             EnterExec(s, op, cwd, d)
      PROVE  HostInv'
  BY <1>3, EnterExecKeeps
<1>4. ASSUME NEW s \in Slots,
             \/ EnterClose(s) \/ Resolve(s) \/ Abandon(s) \/ Recheck(s)
             \/ LaunchShell(s) \/ LaunchProvider(s) \/ Open(s) \/ Close(s)
      PROVE  HostInv'
  BY <1>4, EnterCloseKeeps, ResolveKeeps, AbandonKeeps, RecheckKeeps, LaunchShellKeeps,
     LaunchProviderKeeps, OpenKeeps, CloseKeeps
<1>5. ASSUME NEW s \in Slots, NEW ok \in BOOLEAN, LaunchLocal(s, ok) \/ Finish(s, ok)
      PROVE  HostInv'
  BY <1>5, LaunchLocalKeeps, FinishKeeps
<1>6. QED BY <1>1, <1>2, <1>3, <1>4, <1>5, WorldKeepsInv DEF HostNext

-----------------------------------------------------------------------------
\* Every reachable state has the invariant: each call of the host controller is
\* bound to a session object that was made, and a session_open to one of its own.
THEOREM HostInvariantHolds == HostSpec => []HostInv
  BY HostInitHolds, HostNextKeeps, PTL DEF HostSpec

\* _provider_session is never a session that was closed, whatever opens, closes
\* and commands of provider sessions overlapped.  Nothing is claimed of _session,
\* which a waiting session_exec of the local host takes back when it was closed.
THEOREM ControllerHoldsOpenProviderSession == HostSpec => []CurrentIsOpen
<1>1. HostInv => CurrentIsOpen BY DEF HostInv
<1>2. QED BY <1>1, HostInvariantHolds, PTL

\* A step that makes a prepared call run is one of the three launches.
LEMMA LaunchSteps ==
    ASSUME HostInv, [HostNext]_hostVars, NEW s \in Slots, Launches(s)
    PROVE  LaunchShell(s) \/ LaunchProvider(s) \/ \E isDir \in BOOLEAN : LaunchLocal(s, isDir)
<1>1. fr \in [Slots -> CallFrames] BY DEF HostInv, HostTypeOK
<1>2. fr'[s].pc # fr[s].pc BY DEF Launches
<1>3. ASSUME NEW u \in Slots, NEW f, fr' = [fr EXCEPT ![u] = f], f.pc # "running"
      PROVE  FALSE
  BY <1>1, <1>3 DEF Launches
<1>4. NoCall.pc = "idle" BY DEF NoCall
<1>5. ~ UNCHANGED fr BY <1>2
<1>6. ASSUME NEW u \in Slots, NEW d \in Dirs, EnterShell(u, d) \/ EnterOpen(u, d) PROVE FALSE
  BY <1>1, <1>6, ZenonT(60) DEF EnterShell, EnterOpen, Launches, NoCall
<1>7. ASSUME NEW u \in Slots, NEW op \in {"exec", "cd"}, NEW cwd \in Dirs, NEW d \in Dirs,
             EnterExec(u, op, cwd, d)
      PROVE  FALSE
  <2>1. CASE u = s BY <1>7, <2>1 DEF EnterExec, Entering, Launches
  <2>2. CASE u # s BY <1>1, <1>2, <1>7, <2>2 DEF EnterExec
  <2>3. QED BY <2>1, <2>2
<1>8. ASSUME NEW u \in Slots,
             EnterClose(u) \/ Resolve(u) \/ Recheck(u) \/ Open(u) \/ Close(u) \/ Abandon(u)
                \/ \E ok \in BOOLEAN : Finish(u, ok)
      PROVE  FALSE
  <2>1. CASE u # s
    BY <1>1, <1>2, <1>8, <2>1
       DEF EnterClose, Resolve, Recheck, Open, Close, Abandon, Finish
  <2>2. CASE u = s
    BY <1>1, <1>4, <1>8, <2>2
       DEF EnterClose, Entering, Resolve, Recheck, Open, Close, Abandon, Finish, Launches
  <2>3. QED BY <2>1, <2>2
<1>9. ASSUME NEW u \in Slots, u # s,
             LaunchShell(u) \/ LaunchProvider(u) \/ \E isDir \in BOOLEAN : LaunchLocal(u, isDir)
      PROVE  FALSE
  BY <1>1, <1>2, <1>9 DEF LaunchShell, LaunchProvider, LaunchLocal
<1>10. \/ \E u \in Slots :
            \/ \E d \in Dirs : EnterShell(u, d) \/ EnterOpen(u, d)
            \/ \E op \in {"exec", "cd"}, cwd, d \in Dirs : EnterExec(u, op, cwd, d)
            \/ EnterClose(u) \/ Resolve(u) \/ Abandon(u) \/ Recheck(u)
            \/ LaunchShell(u) \/ LaunchProvider(u) \/ Open(u) \/ Close(u)
            \/ \E ok \in BOOLEAN : LaunchLocal(u, ok) \/ Finish(u, ok)
  BY <1>5 DEF HostNext, hostVars, SetHostScope, Remap, ReplaceExecutable, Changed
<1>11. QED BY <1>6, <1>7, <1>8, <1>9, <1>10

\* _validate_command_binding and the checks of _exec, at every launch: what
\* starts is allowed by the policy, scope and mapping of that moment, in the
\* directory its session is in, with the executable it was approved with.
THEOREM LaunchesAreAuthorised == HostSpec => LaunchIsAuthorised
<1> DEFINE Authorised(s) ==
          LET c == fr[s] IN
          /\ Allowed(policy) /\ c.seen = c.digest
          /\ c.op # "cd" => Writable(fs, c.out) /\ (external => MapsForWrite(mapping, c.out, c.pout))
          /\ c.op # "shell" =>
                /\ Readable(fs, c.cwd)
                /\ external => MapsTo(mapping, c.cwd, c.pcwd) /\ hostCwd' = c.cwd
                /\ ~ external => made[c.sid].cwd = c.cwd
          /\ c.op = "cd" => Readable(fs, c.next)
<1>1. ASSUME HostInv, [HostNext]_hostVars, NEW s \in Slots, Launches(s)
      PROVE  Authorised(s)
  <2>1. /\ fr[s].seen = fr[s].digest /\ fr[s].op \in {"shell", "exec", "cd"}
    BY <1>1 DEF HostInv, PreparedIsChecked, Launches
  <2>2. CASE LaunchShell(s) BY <2>1, <2>2 DEF LaunchShell, BindingHolds
  <2>3. CASE LaunchProvider(s)
    BY <2>1, <2>3 DEF LaunchProvider, BindingHolds, ProviderSessionHolds
  <2>4. ASSUME NEW isDir \in BOOLEAN, LaunchLocal(s, isDir) PROVE Authorised(s)
    BY <2>1, <2>4 DEF LaunchLocal, LocalSessionHolds
  <2>5. QED BY <1>1, <2>2, <2>3, <2>4, LaunchSteps
<1>2. HostInv /\ [HostNext]_hostVars =>
         [\A s \in Slots : Launches(s) => Authorised(s)]_hostVars
  BY <1>1
<1>3. QED BY <1>2, HostInvariantHolds, PTL DEF HostSpec, LaunchIsAuthorised

-----------------------------------------------------------------------------
(* The providers.                                                            *)

Sessions == [closed : BOOLEAN, run : Nat]

Outs == {"none", "ok", "failed", "error", "timeout", "cancelled"}

\* What AnsweredIsOver says of one call.
Over(r, c, b) ==
    r.pc = "idle" =>
        /\ b # "there"
        /\ c = "running" => b = "stuck" \/ (IsProcess(r.kind) /\ r.out = "cancelled")
        /\ r.out = "ok" /\ r.kind # "mcp" => c = "zero"

\* What the invariant says of one task.
TaskInv(t) ==
    /\ run[t] \in Frame /\ child[t] \in Children /\ box[t] \in {"none", "there", "stuck"}
    /\ token[t] \in Kinds \cup {"none"} /\ scope[t] \in BOOLEAN /\ starts[t] \in Nat
    /\ PlaceFitsKind(run[t]) /\ ChildFits(run[t], child[t]) /\ BoxHasOwner(run[t], box[t])
    /\ Over(run[t], child[t], box[t])

\* A step of task t: nothing of another task is written.
StepOf(t) ==
    /\ \E v : run' = [run EXCEPT ![t] = v]
    /\ \E v : child' = [child EXCEPT ![t] = v]
    /\ \E v : box' = [box EXCEPT ![t] = v]
    /\ \E v : token' = [token EXCEPT ![t] = v]
    /\ \E v : scope' = [scope EXCEPT ![t] = v]
    /\ \E v : starts' = [starts EXCEPT ![t] = v]

\* The invariant is that of each task, and the type of what they share.
LEMMA InvOfTasks ==
    ASSUME ProviderInv
    PROVE  session \in Sessions /\ \A t \in Tasks : TaskInv(t)
  BY DEF ProviderInv, ProviderTypeOK, AnsweredIsOver, Over, TaskInv, Sessions

\* A step of one task keeps the invariant if it keeps that task's.
LEMMA OneTaskChanges ==
    ASSUME ProviderInv, NEW t \in Tasks, StepOf(t), session' \in Sessions, TaskInv(t)'
    PROVE  ProviderInv'
<1> USE DEF StepOf
<1>1. ASSUME NEW u \in Tasks, u # t
      PROVE  /\ run'[u] = run[u] /\ child'[u] = child[u] /\ box'[u] = box[u]
             /\ token'[u] = token[u] /\ scope'[u] = scope[u] /\ starts'[u] = starts[u]
  BY <1>1 DEF ProviderInv, ProviderTypeOK
<1>2. \A u \in Tasks : TaskInv(u)' BY <1>1, InvOfTasks DEF TaskInv
<1>3. ProviderTypeOK'
  <2>1. run' \in [Tasks -> Frame] BY <1>2 DEF ProviderInv, ProviderTypeOK, TaskInv
  <2>2. child' \in [Tasks -> Children] BY <1>2 DEF ProviderInv, ProviderTypeOK, TaskInv
  <2>3. box' \in [Tasks -> {"none", "there", "stuck"}]
    BY <1>2 DEF ProviderInv, ProviderTypeOK, TaskInv
  <2>4. token' \in [Tasks -> Kinds \cup {"none"}]
    BY <1>2 DEF ProviderInv, ProviderTypeOK, TaskInv
  <2>5. scope' \in [Tasks -> BOOLEAN] BY <1>2 DEF ProviderInv, ProviderTypeOK, TaskInv
  <2>6. starts' \in [Tasks -> Nat] BY <1>2 DEF ProviderInv, ProviderTypeOK, TaskInv
  <2>7. QED BY <2>1, <2>2, <2>3, <2>4, <2>5, <2>6 DEF ProviderTypeOK, Sessions
<1>4. \A u \in Tasks : /\ PlaceFitsKind(run[u])'
                       /\ ChildFits(run[u], child[u])'
                       /\ BoxHasOwner(run[u], box[u])'
  BY <1>2 DEF TaskInv
<1>5. AnsweredIsOver' BY <1>2 DEF TaskInv, Over, AnsweredIsOver
<1>6. QED BY <1>3, <1>4, <1>5 DEF ProviderInv

\* What a task leaves alone of itself is as if it had been written back.
LEMMA NothingWritten ==
    ASSUME ProviderInv, NEW t \in Tasks
    PROVE  /\ run = [run EXCEPT ![t] = run[t]] /\ child = [child EXCEPT ![t] = child[t]]
           /\ box = [box EXCEPT ![t] = box[t]] /\ token = [token EXCEPT ![t] = token[t]]
           /\ scope = [scope EXCEPT ![t] = scope[t]] /\ starts = [starts EXCEPT ![t] = starts[t]]
  BY DEF ProviderInv, ProviderTypeOK

\* A frame that has ended.
LEMMA EndsType ==
    ASSUME NEW r \in Frame, NEW out \in Outs
    PROVE  /\ Ends(r, out) \in Frame
           /\ Ends(r, out).pc = "idle" /\ Ends(r, out).kind = r.kind
           /\ Ends(r, out).inSession = r.inSession
           /\ Ends(r, out).out \in {out, "cancelled"}
  BY DEF Ends, Frame, Outs

\* The commands a session has run only grow, and stay a number.
LEMMA SessionAfter ==
    ASSUME session \in Sessions
    PROVE  /\ [session EXCEPT !.run = @ + 1] \in Sessions
           /\ [session EXCEPT !.closed = TRUE] \in Sessions
<1>1. session.run + 1 \in Nat BY DEF Sessions
<1>2. QED BY <1>1 DEF Sessions

-----------------------------------------------------------------------------
\* The steps of a task outside of its call, and of its process.
LEMMA CallerKeepsInv ==
    ASSUME ProviderInv, NEW t \in Tasks,
           \/ \E k \in Kinds : Activate(t, k)
           \/ Deactivate(t)
           \/ \E code \in {"zero", "nonzero"} : Exits(t, code)
    PROVE  ProviderInv'
<1>1. TaskInv(t) /\ session \in Sessions BY InvOfTasks
<1>2. ASSUME NEW k \in Kinds, Activate(t, k) PROVE ProviderInv'
  <2>1. StepOf(t) BY <1>2, NothingWritten DEF Activate, StepOf
  <2>2. TaskInv(t)' BY <1>1, <1>2 DEF Activate, TaskInv, ProviderInv, ProviderTypeOK
  <2>3. QED BY <1>1, <1>2, <2>1, <2>2, OneTaskChanges DEF Activate
<1>3. CASE Deactivate(t)
  <2>1. StepOf(t) BY <1>3, NothingWritten DEF Deactivate, Reset, StepOf
  <2>2. TaskInv(t)' BY <1>1, <1>3 DEF Deactivate, Reset, TaskInv, ProviderInv, ProviderTypeOK
  <2>3. QED BY <1>1, <1>3, <2>1, <2>2, OneTaskChanges DEF Deactivate
<1>4. ASSUME NEW code \in {"zero", "nonzero"}, Exits(t, code) PROVE ProviderInv'
  <2>1. StepOf(t) BY <1>4, NothingWritten, ZenonT(60) DEF Exits, StepOf
  <2>2. TaskInv(t)'
    BY <1>1, <1>4
       DEF Exits, TaskInv, ChildFits, Over, Children, ProviderInv, ProviderTypeOK
  <2>3. QED BY <1>1, <1>4, <2>1, <2>2, OneTaskChanges DEF Exits
<1>5. QED BY <1>2, <1>3, <1>4

\* A call up to its first await.
LEMMA ExecuteKeepsInv ==
    ASSUME ProviderInv, NEW t \in Tasks, NEW k \in Kinds, NEW inSession \in BOOLEAN,
           NEW usable \in BOOLEAN, Execute(t, k, inSession, usable)
    PROVE  ProviderInv'
<1> DEFINE r == [NoRun EXCEPT !.pc = IF k = "mcp" THEN "wait" ELSE "spawn",
                              !.kind = k, !.inSession = inSession]
           u == IF usable THEN r ELSE Ends(r, "error")
<1>1. TaskInv(t) /\ session \in Sessions BY InvOfTasks
<1>2. k \in ProviderKinds BY ProviderAssumption
<1>3. /\ u \in Frame /\ u.kind = k
      /\ \/ u.pc = "idle" /\ u.out = "error"
         \/ u.pc = (IF k = "mcp" THEN "wait" ELSE "spawn") /\ u.out = "none"
  <2>1. /\ r \in Frame /\ r.kind = k /\ r.pc = IF k = "mcp" THEN "wait" ELSE "spawn"
        /\ r.out = "none" /\ Ends(r, "error") \in Frame /\ Ends(r, "error").pc = "idle"
        /\ Ends(r, "error").out = "error" /\ Ends(r, "error").kind = k
    BY <1>2 DEF NoRun, Frame, Ends, ProviderKinds
  <2> HIDE DEF r
  <2>2. CASE usable BY <2>1, <2>2
  <2>3. CASE ~ usable BY <2>1, <2>3
  <2>4. QED BY <2>2, <2>3
<1>4. run' = [run EXCEPT ![t] = u] BY DEF Execute
<1>5. session' \in Sessions BY <1>1, SessionAfter DEF Execute
<1> HIDE DEF u, r
<1>6. StepOf(t) BY <1>4, NothingWritten DEF StepOf, Execute
<1>7. /\ run'[t] = u /\ child'[t] = "none" /\ starts'[t] = starts[t] + 1
      /\ box'[t] = "none" /\ token'[t] = token[t] /\ scope'[t] = scope[t]
  BY <1>4 DEF Execute, ProviderInv, ProviderTypeOK
<1>8. TaskInv(t)'
  BY <1>1, <1>2, <1>3, <1>7
     DEF TaskInv, PlaceFitsKind, ChildFits, BoxHasOwner, Over, IsProcess, Children, ProviderKinds
<1>9. QED BY <1>5, <1>6, <1>8, OneTaskChanges

-----------------------------------------------------------------------------
\* What a call may leave when it returns out.
MayLeave(r, out, c, b) ==
    /\ c = "running" => b = "stuck" \/ (IsProcess(r.kind) /\ out = "cancelled")
    /\ out = "ok" /\ r.kind # "mcp" => c = "zero"
    /\ r.kind = "mcp" => c = "none"

\* A call that returns keeps the invariant if its container has been dealt with
\* and it leaves nothing else behind.
LEMMA ReturnKeepsInv ==
    ASSUME ProviderInv, NEW t \in Tasks,
           NEW out \in Outs,
           run' = [run EXCEPT ![t] = Ends(@, out)], session' \in Sessions,
           UNCHANGED <<token, scope, starts>>,
           \E c \in Children, b \in {"none", "stuck"} :
              /\ child' = [child EXCEPT ![t] = c] /\ box' = [box EXCEPT ![t] = b]
              /\ MayLeave(run[t], out, c, b)
    PROVE  ProviderInv'
<1> DEFINE r == Ends(run[t], out)
<1>1. TaskInv(t) BY InvOfTasks
<1>2. r \in Frame /\ r.pc = "idle" /\ r.kind = run[t].kind /\ r.out \in {out, "cancelled"}
  BY <1>1, EndsType DEF TaskInv
<1>3. run' = [run EXCEPT ![t] = r] OBVIOUS
<1> HIDE DEF r
<1>4. StepOf(t) BY <1>3, NothingWritten, ZenonT(60) DEF StepOf
<1>5. /\ run'[t] = r /\ child'[t] \in Children /\ box'[t] \in {"none", "stuck"}
      /\ token'[t] = token[t] /\ scope'[t] = scope[t] /\ starts'[t] = starts[t]
      /\ MayLeave(run[t], out, child'[t], box'[t])
  BY <1>3 DEF ProviderInv, ProviderTypeOK
<1>6. TaskInv(t)'
  BY <1>1, <1>2, <1>5
     DEF TaskInv, PlaceFitsKind, ChildFits, BoxHasOwner, Over, MayLeave, IsProcess
<1>7. QED BY <1>4, <1>6, OneTaskChanges

\* The session after a return.
LEMMA ReturnSession ==
    ASSUME ProviderInv, NEW t \in Tasks, NEW out, Return(t, out)
    PROVE  session' \in Sessions
  BY InvOfTasks, SessionAfter DEF Return, Recorded

\* A call without a container, and one whose process stays as it is.
LEMMA ReturnWithoutBox ==
    ASSUME ProviderInv, NEW t \in Tasks,
           NEW out \in Outs,
           run' = [run EXCEPT ![t] = Ends(@, out)], session' \in Sessions,
           UNCHANGED <<token, scope, starts, child, box>>, box[t] # "there",
           MayLeave(run[t], out, child[t], box[t])
    PROVE  ProviderInv'
<1>1. TaskInv(t) BY InvOfTasks
<1>2. child[t] \in Children /\ box[t] \in {"none", "stuck"} BY <1>1 DEF TaskInv
<1>3. child' = [child EXCEPT ![t] = child[t]] /\ box' = [box EXCEPT ![t] = box[t]]
  BY NothingWritten
<1>4. \E c \in Children, b \in {"none", "stuck"} :
         /\ child' = [child EXCEPT ![t] = c] /\ box' = [box EXCEPT ![t] = b]
         /\ MayLeave(run[t], out, c, b)
  BY <1>2, <1>3
<1>5. UNCHANGED <<token, scope, starts>> OBVIOUS
<1>6. QED BY <1>4, <1>5, ReturnKeepsInv

\* A call that goes on to another place of its provider keeps the invariant.
LEMMA PlaceKeepsInv ==
    ASSUME ProviderInv, NEW t \in Tasks, NEW r \in Frame,
           run' = [run EXCEPT ![t] = r], r.pc # "idle", PlaceFitsKind(r),
           \E c \in Children : ChildFits(r, c) /\ child' = [child EXCEPT ![t] = c],
           \E b \in {"none", "there", "stuck"} :
              BoxHasOwner(r, b) /\ box' = [box EXCEPT ![t] = b],
           UNCHANGED <<token, scope, session, starts>>
    PROVE  ProviderInv'
<1>1. TaskInv(t) /\ session \in Sessions BY InvOfTasks
<1>2. StepOf(t) BY NothingWritten DEF StepOf
<1>3. /\ run'[t] = r /\ child'[t] \in Children /\ box'[t] \in {"none", "there", "stuck"}
      /\ ChildFits(r, child'[t]) /\ BoxHasOwner(r, box'[t])
      /\ token'[t] = token[t] /\ scope'[t] = scope[t] /\ starts'[t] = starts[t]
  BY DEF ProviderInv, ProviderTypeOK
<1>4. TaskInv(t)' BY <1>1, <1>3 DEF TaskInv, Over
<1>5. QED BY <1>1, <1>2, <1>4, OneTaskChanges

\* One that changes nothing but the frame.
LEMMA TaskFrameKeepsInv ==
    ASSUME ProviderInv, NEW t \in Tasks, NEW r \in Frame,
           run' = [run EXCEPT ![t] = r], r.pc # "idle", PlaceFitsKind(r),
           ChildFits(r, child[t]), BoxHasOwner(r, box[t]),
           UNCHANGED <<child, box, token, scope, session, starts>>
    PROVE  ProviderInv'
<1>1. TaskInv(t) BY InvOfTasks
<1>2. child[t] \in Children /\ box[t] \in {"none", "there", "stuck"} BY <1>1 DEF TaskInv
<1>3. child' = [child EXCEPT ![t] = child[t]] /\ box' = [box EXCEPT ![t] = box[t]]
  BY NothingWritten
<1>4. QED BY <1>2, <1>3, PlaceKeepsInv

-----------------------------------------------------------------------------
\* The steps around a process of this host, and of an MCP call.
LEMMA ProcessKeepsInv ==
    ASSUME ProviderInv, NEW t \in Tasks,
           \/ Spawn(t) \/ SpawnFails(t) \/ Collect(t) \/ Timeout(t) \/ Kill(t) \/ Reap(t)
           \/ \E out \in {"ok", "error"} : ToolReturns(t, out)
    PROVE  ProviderInv'
<1>1. TaskInv(t) BY InvOfTasks
<1>2. run[t] \in Frame BY <1>1 DEF TaskInv
<1>3. run[t].pc = "spawn" => box[t] # "there" BY <1>1 DEF TaskInv, BoxHasOwner
<1>4. run[t].kind # "docker" => box[t] # "there" BY <1>1 DEF TaskInv, BoxHasOwner
<1>5. CASE Spawn(t)
  <2> DEFINE r == [run[t] EXCEPT !.pc = "wait"]
  <2>1. r \in Frame /\ r.pc = "wait" /\ r.kind = run[t].kind /\ r.out = run[t].out
    BY <1>2 DEF Frame
  <2>2. run' = [run EXCEPT ![t] = r] BY <1>5 DEF Spawn
  <2> HIDE DEF r
  <2>3. PlaceFitsKind(r) /\ ChildFits(r, "running")
    BY <1>1, <1>5, <2>1 DEF TaskInv, Spawn, PlaceFitsKind, ChildFits, IsProcess
  <2>4. CASE run[t].kind = "docker"
    <3>1. BoxHasOwner(r, "there") /\ box' = [box EXCEPT ![t] = "there"]
      BY <1>5, <2>1, <2>4 DEF BoxHasOwner, Spawn
    <3>2. QED BY <1>5, <2>1, <2>2, <2>3, <3>1, PlaceKeepsInv DEF Spawn, Children
  <2>5. CASE run[t].kind # "docker"
    <3>1. /\ BoxHasOwner(r, box[t]) /\ box' = [box EXCEPT ![t] = box[t]]
          /\ box[t] \in {"none", "there", "stuck"}
      BY <1>1, <1>4, <1>5, <2>5, NothingWritten DEF BoxHasOwner, Spawn, TaskInv
    <3>2. QED BY <1>5, <2>1, <2>2, <2>3, <3>1, PlaceKeepsInv DEF Spawn, Children
  <2>6. QED BY <2>4, <2>5
<1>6. CASE SpawnFails(t)
  <2>1. MayLeave(run[t], "error", child[t], box[t])
    BY <1>1, <1>6 DEF SpawnFails, TaskInv, ChildFits, MayLeave
  <2>2. QED BY <1>3, <1>6, <2>1, ReturnWithoutBox, ReturnSession DEF SpawnFails, Return, Outs
<1>7. CASE Collect(t)
  <2>1. run[t].kind # "docker" BY <1>7 DEF Collect, IsProcess
  <2>2. CASE child[t] = "zero"
    <3>1. Return(t, "ok") BY <1>7, <2>2 DEF Collect
    <3>2. MayLeave(run[t], "ok", child[t], box[t])
      BY <1>7, <2>2 DEF Collect, MayLeave, IsProcess
    <3>3. QED BY <1>4, <1>7, <2>1, <3>1, <3>2, ReturnWithoutBox, ReturnSession
              DEF Collect, Return, Outs
  <2>3. CASE child[t] # "zero"
    <3>1. Return(t, "failed") BY <1>7, <2>3 DEF Collect
    <3>2. MayLeave(run[t], "failed", child[t], box[t])
      BY <1>7, <2>3 DEF Collect, MayLeave, IsProcess
    <3>3. QED BY <1>4, <1>7, <2>1, <3>1, <3>2, ReturnWithoutBox, ReturnSession
              DEF Collect, Return, Outs
  <2>4. QED BY <2>2, <2>3
<1>8. CASE Timeout(t)
  <2>1. CASE run[t].kind = "mcp"
    <3>1. MayLeave(run[t], "timeout", child[t], box[t])
      BY <1>1, <2>1 DEF TaskInv, ChildFits, MayLeave
    <3>2. QED BY <1>4, <1>8, <2>1, <3>1, ReturnWithoutBox, ReturnSession
              DEF Timeout, Return, IsProcess, Outs
  <2>2. CASE run[t].kind # "mcp"
    <3> DEFINE pc == IF run[t].kind = "docker" THEN "stop" ELSE "kill"
               r == [run[t] EXCEPT !.pc = pc, !.out = "timeout"]
    <3>1. r \in Frame /\ r.pc = pc /\ r.kind = run[t].kind /\ r.out = "timeout"
      BY <1>2 DEF Frame
    <3>2. run' = [run EXCEPT ![t] = r] BY <1>2, <1>8, <2>2 DEF Timeout, Frame, ProviderInv, ProviderTypeOK
    <3> HIDE DEF r
    <3>3. PlaceFitsKind(r) /\ ChildFits(r, child[t]) /\ BoxHasOwner(r, box[t])
      BY <1>1, <1>8, <2>2, <3>1
         DEF Timeout, TaskInv, PlaceFitsKind, ChildFits, BoxHasOwner, IsProcess
    <3>4. QED BY <1>8, <2>2, <3>1, <3>2, <3>3, TaskFrameKeepsInv DEF Timeout
  <2>3. QED BY <2>1, <2>2
<1>9. CASE Kill(t)
  <2> DEFINE r == [run[t] EXCEPT !.pc = "reap"]
             c == IF child[t] = "running" THEN "killed" ELSE child[t]
  <2>1. r \in Frame /\ r.pc = "reap" /\ r.kind = run[t].kind /\ r.out = run[t].out
    BY <1>2 DEF Frame
  <2>2. run' = [run EXCEPT ![t] = r] /\ child' = [child EXCEPT ![t] = c] BY <1>9 DEF Kill
  <2>3. c \in Children BY <1>1 DEF TaskInv, Children
  <2> HIDE DEF r
  <2>4. PlaceFitsKind(r) /\ ChildFits(r, c) /\ BoxHasOwner(r, box[t])
    BY <1>1, <1>9, <2>1 DEF Kill, TaskInv, PlaceFitsKind, ChildFits, BoxHasOwner, IsProcess
  <2> HIDE DEF c
  <2>5. /\ box' = [box EXCEPT ![t] = box[t]] /\ box[t] \in {"none", "there", "stuck"}
        /\ UNCHANGED <<token, scope, session, starts>>
    BY <1>1, <1>9, NothingWritten DEF Kill, TaskInv
  <2>6. QED BY <2>1, <2>2, <2>3, <2>4, <2>5, PlaceKeepsInv
<1>10. CASE Reap(t)
  <2>1. run[t].kind # "docker" BY <1>1, <1>10 DEF Reap, TaskInv, PlaceFitsKind
  <2>2. MayLeave(run[t], "timeout", child[t], box[t])
    BY <1>1, <1>10 DEF Reap, TaskInv, ChildFits, MayLeave
  <2>3. QED BY <1>4, <1>10, <2>1, <2>2, ReturnWithoutBox, ReturnSession DEF Reap, Return, Outs
<1>11. ASSUME NEW out \in {"ok", "error"}, ToolReturns(t, out) PROVE ProviderInv'
  <2>1. MayLeave(run[t], out, child[t], box[t])
    BY <1>1, <1>11 DEF ToolReturns, TaskInv, ChildFits, MayLeave
  <2>2. QED BY <1>4, <1>11, <2>1, ReturnWithoutBox, ReturnSession
            DEF ToolReturns, Return, IsProcess, Outs
<1>12. QED BY <1>5, <1>6, <1>7, <1>8, <1>9, <1>10, <1>11

\* The steps of a Docker call.
LEMMA ContainerKeepsInv ==
    ASSUME ProviderInv, NEW t \in Tasks,
           \/ StartFails(t) \/ ContainerWaitFails(t)
           \/ \E b \in BOOLEAN : ContainerEnds(t, b) \/ StopContainer(t, b)
                                   \/ ReadLogs(t, b) \/ RemoveContainer(t, b)
    PROVE  ProviderInv'
<1>1. TaskInv(t) BY InvOfTasks
<1>2. run[t] \in Frame BY <1>1 DEF TaskInv
<1>3. run[t].pc \in {"stop", "logs", "remove"} => run[t].kind = "docker"
  BY <1>1 DEF TaskInv, PlaceFitsKind, IsProcess, Frame, ProviderKinds
<1>4. CASE StartFails(t)
  <2> DEFINE r == [run[t] EXCEPT !.pc = "remove", !.out = "error"]
  <2>1. r \in Frame /\ r.pc = "remove" /\ r.kind = "docker" /\ r.out = "error"
    BY <1>2, <1>4 DEF Frame, StartFails
  <2>2. run' = [run EXCEPT ![t] = r] BY <1>4 DEF StartFails, ProviderInv, ProviderTypeOK, Frame
  <2> HIDE DEF r
  <2>3. PlaceFitsKind(r) /\ ChildFits(r, child[t]) /\ BoxHasOwner(r, "there")
    BY <2>1 DEF PlaceFitsKind, ChildFits, BoxHasOwner, IsProcess
  <2>4. /\ child' = [child EXCEPT ![t] = child[t]] /\ child[t] \in Children
        /\ box' = [box EXCEPT ![t] = "there"] /\ UNCHANGED <<token, scope, session, starts>>
    BY <1>1, <1>4, NothingWritten DEF StartFails, TaskInv
  <2>5. QED BY <2>1, <2>2, <2>3, <2>4, PlaceKeepsInv
<1>5. ASSUME NEW b \in BOOLEAN, ContainerEnds(t, b) PROVE ProviderInv'
  <2> DEFINE out == IF ~ b THEN "error" ELSE IF child[t] = "zero" THEN "ok" ELSE "failed"
             r == [run[t] EXCEPT !.pc = "logs", !.out = out]
  <2>1. /\ r \in Frame /\ r.pc = "logs" /\ r.kind = "docker"
        /\ r.out = "ok" => child[t] = "zero"
    BY <1>2, <1>5 DEF Frame, ContainerEnds
  <2>2. run' = [run EXCEPT ![t] = r] BY <1>5 DEF ContainerEnds, ProviderInv, ProviderTypeOK, Frame
  <2> HIDE DEF r
  <2>3. PlaceFitsKind(r) /\ ChildFits(r, child[t]) /\ BoxHasOwner(r, box[t])
    BY <2>1 DEF PlaceFitsKind, ChildFits, BoxHasOwner, IsProcess
  <2>4. QED BY <1>5, <2>1, <2>2, <2>3, TaskFrameKeepsInv DEF ContainerEnds
<1>6. ASSUME NEW b \in BOOLEAN, StopContainer(t, b) PROVE ProviderInv'
  <2> DEFINE r == [run[t] EXCEPT !.pc = "logs"]
             c == IF child[t] = "running" /\ b THEN "killed" ELSE child[t]
  <2>1. r \in Frame /\ r.pc = "logs" /\ r.kind = "docker" /\ r.out = run[t].out
    BY <1>2, <1>3, <1>6 DEF Frame, StopContainer
  <2>2. run' = [run EXCEPT ![t] = r] /\ child' = [child EXCEPT ![t] = c]
    BY <1>6 DEF StopContainer
  <2>3. /\ c \in Children /\ run[t].kind = "docker"
        /\ run[t].out = "ok" => c = "zero"
    BY <1>1, <1>3, <1>6 DEF StopContainer, TaskInv, ChildFits, Children
  <2> HIDE DEF r, c
  <2>4. PlaceFitsKind(r) /\ ChildFits(r, c) /\ BoxHasOwner(r, box[t])
    BY <2>1, <2>3 DEF PlaceFitsKind, ChildFits, BoxHasOwner, IsProcess
  <2>5. /\ box' = [box EXCEPT ![t] = box[t]] /\ box[t] \in {"none", "there", "stuck"}
        /\ UNCHANGED <<token, scope, session, starts>>
    BY <1>1, <1>6, NothingWritten DEF StopContainer, TaskInv
  <2>6. QED BY <2>1, <2>2, <2>3, <2>4, <2>5, PlaceKeepsInv
<1>7. ASSUME NEW b \in BOOLEAN, ReadLogs(t, b) PROVE ProviderInv'
  <2> DEFINE out == IF b THEN run[t].out ELSE "error"
             r == [run[t] EXCEPT !.pc = "remove", !.out = out]
  <2>1. /\ r \in Frame /\ r.pc = "remove" /\ r.kind = "docker"
        /\ r.out = "ok" => child[t] = "zero"
    BY <1>1, <1>2, <1>3, <1>7 DEF Frame, ReadLogs, TaskInv, ChildFits
  <2>2. run' = [run EXCEPT ![t] = r] BY <1>7 DEF ReadLogs, ProviderInv, ProviderTypeOK, Frame
  <2> HIDE DEF r
  <2>3. PlaceFitsKind(r) /\ ChildFits(r, child[t]) /\ BoxHasOwner(r, box[t])
    BY <2>1 DEF PlaceFitsKind, ChildFits, BoxHasOwner, IsProcess
  <2>4. QED BY <1>7, <2>1, <2>2, <2>3, TaskFrameKeepsInv DEF ReadLogs
<1>8. ASSUME NEW b \in BOOLEAN, RemoveContainer(t, b) PROVE ProviderInv'
  <2> DEFINE c == IF child[t] = "running" /\ b THEN "killed" ELSE child[t]
             x == IF b THEN "none" ELSE "stuck"
  <2>1. run[t].kind = "docker" BY <1>3, <1>8 DEF RemoveContainer
  <2>2. c \in Children /\ MayLeave(run[t], run[t].out, c, x)
    BY <1>1, <2>1 DEF TaskInv, ChildFits, MayLeave, Children
  <2>3. child' = [child EXCEPT ![t] = c] /\ box' = [box EXCEPT ![t] = x]
    BY <1>8 DEF RemoveContainer
  <2>4. x \in {"none", "stuck"} /\ run[t].out \in Outs BY <1>2 DEF Frame, Outs
  <2> HIDE DEF c, x
  <2>5. \E a \in Children, z \in {"none", "stuck"} :
           /\ child' = [child EXCEPT ![t] = a] /\ box' = [box EXCEPT ![t] = z]
           /\ MayLeave(run[t], run[t].out, a, z)
    BY <2>2, <2>3, <2>4
  <2>6. /\ Return(t, run[t].out)
        /\ run' = [run EXCEPT ![t] = Ends(@, run[t].out)] /\ UNCHANGED <<token, scope, starts>>
    BY <1>8 DEF RemoveContainer, Return
  <2>7. session' \in Sessions BY <2>6, ReturnSession
  <2>8. QED BY <2>4, <2>5, <2>6, <2>7, ReturnKeepsInv
<1>9. CASE ContainerWaitFails(t)
  <2> DEFINE r == [run[t] EXCEPT !.pc = "remove", !.out = "error"]
  <2>1. r \in Frame /\ r.pc = "remove" /\ r.kind = "docker" /\ r.out = "error"
    BY <1>2, <1>9 DEF Frame, ContainerWaitFails
  <2>2. run' = [run EXCEPT ![t] = r]
    BY <1>9 DEF ContainerWaitFails, ProviderInv, ProviderTypeOK, Frame
  <2> HIDE DEF r
  <2>3. PlaceFitsKind(r) /\ ChildFits(r, child[t]) /\ BoxHasOwner(r, box[t])
    BY <2>1 DEF PlaceFitsKind, ChildFits, BoxHasOwner, IsProcess
  <2>4. QED BY <1>9, <2>1, <2>2, <2>3, TaskFrameKeepsInv DEF ContainerWaitFails
<1>10. QED BY <1>4, <1>5, <1>6, <1>7, <1>8, <1>9

-----------------------------------------------------------------------------
\* Cancellation, which reaches no worker thread.
LEMMA CancelKeepsInv == ASSUME ProviderInv, NEW t \in Tasks, CancelTask(t) PROVE ProviderInv'
<1>1. TaskInv(t) /\ session \in Sessions BY InvOfTasks
<1>2. run[t] \in Frame BY <1>1 DEF TaskInv
<1>3. CASE run[t].kind = "docker"
  <2> DEFINE r == [run[t] EXCEPT !.thread = TRUE]
  <2>1. r \in Frame /\ r.pc = run[t].pc /\ r.kind = run[t].kind /\ r.out = run[t].out
    BY <1>2 DEF Frame
  <2>2. run' = [run EXCEPT ![t] = r] BY <1>3 DEF CancelTask
  <2> HIDE DEF r
  <2>3. /\ r.pc # "idle" /\ PlaceFitsKind(r) /\ ChildFits(r, child[t])
        /\ BoxHasOwner(r, box[t])
    BY <1>1, <2>1 DEF CancelTask, TaskInv, PlaceFitsKind, ChildFits, BoxHasOwner, IsProcess
  <2>4. QED BY <2>1, <2>2, <2>3, TaskFrameKeepsInv DEF CancelTask
<1>4. CASE run[t].kind # "docker"
  <2>1. run' = [run EXCEPT ![t] = Ends(@, "cancelled")] BY <1>4 DEF CancelTask
  <2>2. box[t] # "there" BY <1>1, <1>4 DEF TaskInv, BoxHasOwner
  <2>3. MayLeave(run[t], "cancelled", child[t], box[t])
    BY <1>1, <1>2, <1>4 DEF TaskInv, ChildFits, MayLeave, IsProcess, Frame, ProviderKinds
  <2>4. QED BY <1>1, <2>1, <2>2, <2>3, ReturnWithoutBox DEF CancelTask, Outs
<1>5. QED BY <1>3, <1>4

\* Closing the session concerns no call.
LEMMA CloseSessionKeepsInv == ASSUME ProviderInv, CloseSession PROVE ProviderInv'
<1>1. session' \in Sessions BY InvOfTasks, SessionAfter DEF CloseSession
<1>2. QED
  BY <1>1 DEF CloseSession, ProviderInv, ProviderTypeOK, Sessions, AnsweredIsOver

LEMMA ProviderInitHolds == ProviderInit => ProviderInv
<1> SUFFICES ASSUME ProviderInit PROVE ProviderInv
  OBVIOUS
<1> USE DEF ProviderInit
<1>1. NoRun \in Frame BY DEF NoRun, Frame, ProviderKinds
<1>2. NoRun.pc = "idle" /\ NoRun.kind = "local" /\ NoRun.out = "none" BY DEF NoRun
<1>3. ProviderTypeOK
  <2>1. PICK b \in {FALSE}, n \in {0, CommandLimit} : session = [closed |-> b, run |-> n]
    OBVIOUS
  <2>2. n \in Nat BY ProviderAssumption
  <2>3. session \in [closed : BOOLEAN, run : Nat] BY <2>1, <2>2
  <2>4. QED BY <1>1, <2>3 DEF ProviderTypeOK, Children
<1>4. \A t \in Tasks : /\ PlaceFitsKind(run[t])
                       /\ ChildFits(run[t], child[t])
                       /\ BoxHasOwner(run[t], box[t])
  BY <1>2 DEF PlaceFitsKind, ChildFits, BoxHasOwner, IsProcess
<1>5. AnsweredIsOver BY <1>2 DEF AnsweredIsOver
<1>6. QED BY <1>3, <1>4, <1>5 DEF ProviderInv

LEMMA ProviderNextKeeps == ProviderInv /\ [ProviderNext]_providerVars => ProviderInv'
<1> SUFFICES ASSUME ProviderInv, [ProviderNext]_providerVars PROVE ProviderInv'
  OBVIOUS
<1>1. CASE UNCHANGED providerVars
  BY <1>1 DEF providerVars, ProviderInv, ProviderTypeOK, AnsweredIsOver
<1>2. CASE CloseSession BY <1>2, CloseSessionKeepsInv
<1>3. ASSUME NEW t \in Tasks, NEW k \in Kinds, NEW s \in BOOLEAN, NEW usable \in BOOLEAN,
             Execute(t, k, s, usable)
      PROVE  ProviderInv'
  BY <1>3, ExecuteKeepsInv
<1>4. ASSUME NEW t \in Tasks,
             \/ \E k \in Kinds : Activate(t, k)
             \/ Deactivate(t)
             \/ \E code \in {"zero", "nonzero"} : Exits(t, code)
      PROVE  ProviderInv'
  BY <1>4, CallerKeepsInv
<1>5. ASSUME NEW t \in Tasks, ProviderStep(t) PROVE ProviderInv'
  BY <1>5, ProcessKeepsInv, ContainerKeepsInv DEF ProviderStep
<1>6. ASSUME NEW t \in Tasks, CancelTask(t) PROVE ProviderInv'
  BY <1>6, CancelKeepsInv
<1>7. QED BY <1>1, <1>2, <1>3, <1>4, <1>5, <1>6 DEF ProviderNext

-----------------------------------------------------------------------------
\* Every reachable state has the invariant: execute of any provider, alone or
\* beside others, is at a place of its own kind, has the process it waits for
\* and, with a container, still its finally clause ahead.
THEOREM ProviderInvariantHolds == ProviderSpec => []ProviderInv
  BY ProviderInitHolds, ProviderNextKeeps, PTL DEF ProviderSpec

\* When a call is over its container is gone or could not be removed, its
\* command has ended unless it is in such a container or is the process of a
\* cancelled call, and a success is an exit with code 0: for any tasks, any of
\* the providers and any order of commands, timeouts, failures and ends.
THEOREM AnsweredCallsAreOver == ProviderSpec => []AnsweredIsOver
<1>1. ProviderInv => AnsweredIsOver
  BY DEF ProviderInv
<1>2. QED BY <1>1, ProviderInvariantHolds, PTL

-----------------------------------------------------------------------------
(* The command policy.                                                       *)

\* A non-empty set of numbers has a least one.
LEMMA LeastNumber ==
    ASSUME NEW T, T \subseteq Nat, T # {}
    PROVE  \E m \in T : \A k \in T : m <= k
<1>1. PICK m \in T : \A k \in T : ~ (<<k, m>> \in OpToRel(<, Nat))
  BY NatLessThanWellFounded, WFMin
<1>2. \A k, l \in Nat : k < l => <<k, l>> \in OpToRel(<, Nat)
  BY Zenon DEF OpToRel
<1>3. ASSUME NEW k \in T PROVE m <= k
  <2>1. ~ (k < m) BY <1>1, <1>2
  <2> QED BY <2>1
<1> QED BY <1>3

-----------------------------------------------------------------------------
(* A reader of arguments looks at one and goes on to a later one, or stops.  *)
(* There is a function that does so from every argument.                     *)

\* Goes on from each position to a later one.
GoesOn(n, stop, nx) == \A i \in (1..n) \ stop : nx[i] \in (i + 1)..n

\* What is found from each position on: leaf[i] where it stops, otherwise met[i]
\* with what is found from the next position on.
Gathered(n, stop, leaf, met, nx, f) ==
    [i \in 1..n |-> IF i \in stop THEN leaf[i]
                    ELSE IF met[i] = {} THEN f[nx[i]] ELSE met[i] \cup f[nx[i]]]

\* Such a function exists: take the shortest tail of the positions without one.
LEMMA GatheredExists ==
    ASSUME NEW n \in Nat, NEW stop, NEW leaf, NEW met, NEW nx, GoesOn(n, stop, nx)
    PROVE  \E f : f = Gathered(n, stop, leaf, met, nx, f)
<1> DEFINE One(f, i) == IF i \in stop THEN leaf[i]
                        ELSE IF met[i] = {} THEN f[nx[i]] ELSE met[i] \cup f[nx[i]]
           From(f, k) == \A i \in (n + 1 - k)..n : f[i] = One(f, i)
           T == {k \in 0..n : ~ \E f : From(f, k)}
<1>0. \A i \in (1..n) \ stop : nx[i] \in 1..n /\ nx[i] > i
  BY DEF GoesOn
<1>1. T = {}
  <2> SUFFICES ASSUME T # {} PROVE FALSE
    OBVIOUS
  <2>1. PICK k \in T : \A j \in T : k <= j
    <3>1. T \subseteq Nat
      OBVIOUS
    <3> HIDE DEF T
    <3> QED
      BY <3>1, LeastNumber
  <2>2. k # 0
    <3>1. \A i \in (n + 1)..n : FALSE
      OBVIOUS
    <3>2. From({}, 0)
      BY <3>1
    <3> HIDE DEF From
    <3> QED
      BY <3>2
  <2>3. k \in 1..n /\ k - 1 \in 0..n /\ k - 1 \notin T
    <3>1. k \in 0..n
      OBVIOUS
    <3>2. k \in 1..n /\ k - 1 \in 0..n /\ ~ (k <= k - 1)
      BY <3>1, <2>2
    <3> HIDE DEF T
    <3> QED
      BY <2>1, <3>2
  <2>4. PICK f : From(f, k - 1)
    <3> HIDE DEF From
    <3> QED
      BY <2>3
  <2> DEFINE h == n + 1 - k
             g == [i \in 1..n |-> IF i = h THEN One(f, h) ELSE f[i]]
  <2>5. ASSUME NEW i \in h..n PROVE g[i] = One(g, i)
    <3>1. i \in 1..n /\ h \in 1..n
      BY <2>3
    <3>2. i \notin stop => g[nx[i]] = f[nx[i]]
      <4>1. i \notin stop => nx[i] \in 1..n /\ nx[i] # h
        BY <3>1, <2>3, <1>0
      <4> HIDE DEF One, h
      <4> QED
        BY <4>1
    <3>3. One(g, i) = One(f, i)
      <4> HIDE DEF g, h
      <4>1. CASE i \in stop
        BY <4>1
      <4>2. CASE i \notin stop
        <5>1. g[nx[i]] = f[nx[i]]
          BY <3>2, <4>2
        <5> QED
          BY <4>2, <5>1
      <4> QED
        BY <4>1, <4>2
    <3>4. g[i] = One(f, i)
      <4>1. CASE i = h
        BY <4>1, <3>1
      <4>2. CASE i # h
        <5>1. i \in (n + 1 - (k - 1))..n
          BY <4>2, <2>3
        <5>2. f[i] = One(f, i)
          BY <5>1, <2>4
        <5>3. g[i] = f[i]
          BY <4>2, <3>1
        <5> HIDE DEF g, One
        <5> QED
          BY <5>2, <5>3
      <4> QED
        BY <4>1, <4>2
    <3> HIDE DEF g, One
    <3> QED
      BY <3>3, <3>4
  <2>6. From(g, k)
    <3> HIDE DEF g, One
    <3> QED
      BY <2>5
  <2> HIDE DEF g, From
  <2> QED
    BY <2>1, <2>6
<1>2. PICK f : From(f, n)
  <2>1. n \notin T
    BY <1>1
  <2> HIDE DEF From
  <2> QED
    BY <2>1
<1> DEFINE g == [i \in 1..n |-> f[i]]
<1>3. ASSUME NEW i \in 1..n PROVE g[i] = One(g, i)
  <2>1. i \notin stop => g[nx[i]] = f[nx[i]]
    BY <1>0
  <2>2. f[i] = One(f, i)
    <3>1. i \in (n + 1 - n)..n
      OBVIOUS
    <3> QED
      BY <3>1, <1>2
  <2>3. g[i] = f[i]
    OBVIOUS
  <2> HIDE DEF g
  <2>4. CASE i \in stop
    BY <2>2, <2>3, <2>4
  <2>5. CASE i \notin stop
    <3>1. g[nx[i]] = f[nx[i]]
      BY <2>1, <2>5
    <3> QED
      BY <2>2, <2>3, <2>5, <3>1
  <2> QED
    BY <2>4, <2>5
<1>4. g = Gathered(n, stop, leaf, met, nx, g)
  <2> HIDE DEF One
  <2>1. \A i \in 1..n : g[i] = One(g, i)
    BY <1>3
  <2>2. g = [i \in 1..n |-> One(g, i)]
    BY <2>1
  <2> QED
    BY <2>2 DEF Gathered, One
<1> QED
  BY <1>4

-----------------------------------------------------------------------------
(* How the arguments are read for outputs.                                   *)

Binding(i, prefix, path) == [index |-> i, prefix |-> prefix, path |-> path]

\* The argument is a flag that takes the next one as its output.
Takes(binary, args, i) ==
    /\ i < Len(args)
    /\ \/ args[i] \in ValueFlags(binary)
       \/ binary = "nmap" /\ args[i] = Flag("-oN")

\* The prefixes with which an argument names an output itself.
Prefixes(binary) ==
    {"--output="} \cup (IF binary = "curl" THEN {"-o"} ELSE {})
                  \cup (IF binary = "nmap" THEN {"-oN"} ELSE {})

\* The outputs an argument that takes no other one names itself.
Own(binary, args, offset, i) ==
    {Binding(offset + i + 1, args[i][1], Word(args[i][2])) :
        x \in {y \in {1} : args[i][1] \in Prefixes(binary) /\ args[i][2] # Missing}}
      \cup {InCwd : x \in {y \in {1} : binary = "curl" /\ args[i] = Flag("-O")}}

\* What the scan for flags finds from each argument on.
ScanOf(binary, args, offset, f) ==
    \A i \in 1..(Len(args) + 2) :
        f[i] = IF i > Len(args) THEN {}
               ELSE IF Takes(binary, args, i)
               THEN {Binding(offset + (i + 1) + 1, Missing, args[i + 1])} \cup f[i + 2]
               ELSE f[i + 1] \cup Own(binary, args, offset, i)

\* FlagOutputs is such a scan.
LEMMA FlagScan ==
    ASSUME NEW binary, NEW args, Len(args) \in Nat, NEW offset \in Nat
    PROVE  \E f : ScanOf(binary, args, offset, f) /\ FlagOutputs(binary, args, offset) = f[1]
<1> DEFINE n == Len(args)
           At(i, prefix, path) == {[index |-> offset + i + 1, prefix |-> prefix, path |-> path]}
           Att(i, prefix) == IF args[i][1] = prefix /\ args[i][2] # Missing
                             THEN At(i, prefix, Word(args[i][2])) ELSE {}
           Step(f, i) ==
             IF i > Len(args) THEN {}
             ELSE IF args[i] \in ValueFlags(binary) /\ i < Len(args)
                  THEN At(i + 1, Missing, args[i + 1]) \cup f[i + 2]
             ELSE IF binary = "nmap" /\ args[i] = Flag("-oN") /\ i < Len(args)
                  THEN At(i + 1, Missing, args[i + 1]) \cup f[i + 2]
             ELSE f[i + 1] \cup Att(i, "--output=")
                    \cup (IF binary = "curl" THEN Att(i, "-o") ELSE {})
                    \cup (IF binary = "nmap" THEN Att(i, "-oN") ELSE {})
                    \cup (IF binary = "curl" /\ args[i] = Flag("-O") THEN {InCwd} ELSE {})
           Body(f) == [i \in 1..(Len(args) + 2) |-> Step(f, i)]
           Mine(f, i) ==
             IF i > n THEN {}
             ELSE IF Takes(binary, args, i)
             THEN {Binding(offset + (i + 1) + 1, Missing, args[i + 1])} \cup f[i + 2]
             ELSE f[i + 1] \cup Own(binary, args, offset, i)
           w == CHOOSE f : f = Body(f)
<1>1. FlagOutputs(binary, args, offset) = w[1]
  BY DEF FlagOutputs
<1>2. ASSUME NEW f, NEW i \in 1..(n + 2) PROVE Step(f, i) = Mine(f, i)
  <2>1. CASE i > n
    BY <2>1
  <2>2. CASE ~ (i > n) /\ Takes(binary, args, i)
    BY <2>2 DEF Takes, Binding
  <2>3. CASE ~ (i > n) /\ ~ Takes(binary, args, i)
    <3> DEFINE O == Att(i, "--output=") \cup (IF binary = "curl" THEN Att(i, "-o") ELSE {})
                     \cup (IF binary = "nmap" THEN Att(i, "-oN") ELSE {})
                     \cup (IF binary = "curl" /\ args[i] = Flag("-O") THEN {InCwd} ELSE {})
    <3>1. O = Own(binary, args, offset, i)
      BY DEF Own, Prefixes, Binding
    <3>2. Step(f, i) = f[i + 1] \cup O
      BY <2>3 DEF Takes
    <3> HIDE DEF Step, O
    <3> QED
      BY <2>3, <3>1, <3>2
  <2> QED
    BY <2>1, <2>2, <2>3
<1> DEFINE stop == {n + 1, n + 2}
           leaf == [i \in 1..(n + 2) |-> {}]
           met == [i \in 1..(n + 2) |->
                     IF Takes(binary, args, i)
                     THEN {Binding(offset + (i + 1) + 1, Missing, args[i + 1])}
                     ELSE Own(binary, args, offset, i)]
           nx == [i \in 1..(n + 2) |-> IF Takes(binary, args, i) THEN i + 2 ELSE i + 1]
<1>3. \E f : f = Gathered(n + 2, stop, leaf, met, nx, f)
  <2>1. GoesOn(n + 2, stop, nx)
    BY DEF GoesOn, Takes
  <2>2. n + 2 \in Nat
    OBVIOUS
  <2> HIDE DEF n, stop, leaf, met, nx
  <2> QED
    BY <2>1, <2>2, GatheredExists
<1>4. ASSUME NEW f PROVE Gathered(n + 2, stop, leaf, met, nx, f) = Body(f)
  <2>1. ASSUME NEW i \in 1..(n + 2)
        PROVE  (IF i \in stop THEN leaf[i]
                ELSE IF met[i] = {} THEN f[nx[i]] ELSE met[i] \cup f[nx[i]]) = Mine(f, i)
    <3>1. i \in stop <=> i > n
      OBVIOUS
    <3>2. i \in stop => leaf[i] = {}
      OBVIOUS
    <3>3. Takes(binary, args, i) =>
             /\ nx[i] = i + 2
             /\ met[i] = {Binding(offset + (i + 1) + 1, Missing, args[i + 1])}
      OBVIOUS
    <3>4. ~ Takes(binary, args, i) => nx[i] = i + 1 /\ met[i] = Own(binary, args, offset, i)
      OBVIOUS
    <3> HIDE DEF stop, leaf, met, nx, n
    <3>5. CASE i \in stop
      BY <3>1, <3>2, <3>5
    <3>6. CASE i \notin stop /\ Takes(binary, args, i)
      BY <3>1, <3>3, <3>6
    <3>7. CASE i \notin stop /\ ~ Takes(binary, args, i)
      BY <3>1, <3>4, <3>7
    <3> QED
      BY <3>5, <3>6, <3>7
  <2> HIDE DEF stop, leaf, met, nx, Step, Mine
  <2> QED
    BY <1>2, <2>1 DEF Gathered
<1>5. w = Body(w)
  <2>1. \E f : f = Body(f)
    <3> HIDE DEF stop, leaf, met, nx, Body
    <3> QED
      BY <1>3, <1>4
  <2> HIDE DEF Body
  <2> QED
    BY <2>1
<1>6. \A i \in 1..(n + 2) : w[i] = Mine(w, i)
  <2> HIDE DEF Step, Mine, w
  <2> QED
    BY <1>2, <1>5
<1> HIDE DEF w
<1> QED
  BY <1>1, <1>6 DEF ScanOf

-----------------------------------------------------------------------------
(* Reading a command through sudo and its options.                           *)

\* The prefixes with which a token can name an output.
OutputPrefixes == {Missing, "--output=", "-o", "-oN"}

\* The tokens of commands, of the prefixes and of what is sent: all are pairs
\* of strings.
Tokens ==
    (STRING \X STRING)
      \cup {Word("sudo"), Flag("-S"), Flag("--"), Flag("-u"), Flag("-g"), Word("f")}
      \cup {<<x, Provided[v]>> : x \in OutputPrefixes, v \in DOMAIN Provided}

\* A command begins with the name of a binary.
IsCommand(argv) ==
    argv \in Seq(Tokens) /\ argv # <<>> /\ argv[1][1] = Missing /\ argv[1] # Word("sudo")

\* A flag that is there is not missing.
LEMMA FlagNames ==
    Missing \notin {">", "--", "-S", "-u", "-g", "--output", "-o", "-O", "-P", "-oN", "--output=",
                   "--force"}
BY DEF Missing

\* What the tokens of a concatenation are.
LEMMA Concatenated ==
    ASSUME NEW S, NEW p \in Seq(S), NEW q \in Seq(S)
    PROVE  /\ p \o q \in Seq(S) /\ Len(p \o q) = Len(p) + Len(q)
           /\ \A i \in 1..Len(p) : (p \o q)[i] = p[i]
           /\ \A i \in 1..Len(q) : (p \o q)[Len(p) + i] = q[i]
OBVIOUS

\* What the loop of strip_sudo does at an argument.
SudoStep(argv, f, i) ==
    IF i > Len(argv) THEN Len(argv) + 1
    ELSE IF argv[i] = Flag("--") THEN i + 1
    ELSE IF IsFlag(argv[i]) THEN f[IF argv[i] \in SudoValueFlags THEN i + 2 ELSE i + 1]
    ELSE i

\* StripSudo is such a loop.
LEMMA SudoScan ==
    ASSUME NEW argv, Len(argv) \in Nat, argv[1] = Word("sudo")
    PROVE  \E f : /\ \A i \in 2..(Len(argv) + 2) : f[i] = SudoStep(argv, f, i)
                  /\ StripSudo(argv) = <<TRUE, f[2] - 1>>
<1> DEFINE n == Len(argv)
           Body(f) == [i \in 2..(Len(argv) + 2) |->
                         IF i > Len(argv) THEN Len(argv) + 1
                         ELSE IF argv[i] = Flag("--") THEN i + 1
                         ELSE IF IsFlag(argv[i])
                              THEN f[IF argv[i] \in SudoValueFlags THEN i + 2 ELSE i + 1]
                         ELSE i]
           w == CHOOSE f : f = Body(f)
           stop == {i \in 1..(n + 2) : i > n \/ argv[i] = Flag("--") \/ ~ IsFlag(argv[i])}
           leaf == [i \in 1..(n + 2) |-> IF i > n THEN n + 1
                                         ELSE IF argv[i] = Flag("--") THEN i + 1 ELSE i]
           met == [i \in 1..(n + 2) |-> {}]
           nx == [i \in 1..(n + 2) |-> IF argv[i] \in SudoValueFlags THEN i + 2 ELSE i + 1]
<1>1. StripSudo(argv) = <<TRUE, w[2] - 1>>
  BY DEF StripSudo
<1>2. PICK f : f = Gathered(n + 2, stop, leaf, met, nx, f)
  <2>1. GoesOn(n + 2, stop, nx)
    BY DEF GoesOn
  <2>2. n + 2 \in Nat
    OBVIOUS
  <2> HIDE DEF n, stop, leaf, met, nx
  <2> QED
    BY <2>1, <2>2, GatheredExists
<1> DEFINE g == [i \in 2..(n + 2) |-> f[i]]
<1>3. ASSUME NEW i \in 2..(n + 2) PROVE g[i] = SudoStep(argv, g, i)
  <2>1. f[i] = IF i \in stop THEN leaf[i] ELSE f[nx[i]]
    <3>1. i \in 1..(n + 2) /\ met[i] = {}
      OBVIOUS
    <3> HIDE DEF stop, leaf, met, nx, n
    <3> QED
      BY <1>2, <3>1 DEF Gathered
  <2>2. g[i] = f[i]
    OBVIOUS
  <2>3. i \notin stop => g[nx[i]] = f[nx[i]]
    OBVIOUS
  <2>4. i \in stop <=> i > n \/ argv[i] = Flag("--") \/ ~ IsFlag(argv[i])
    OBVIOUS
  <2>5. /\ leaf[i] = IF i > n THEN n + 1 ELSE IF argv[i] = Flag("--") THEN i + 1 ELSE i
        /\ nx[i] = IF argv[i] \in SudoValueFlags THEN i + 2 ELSE i + 1
    OBVIOUS
  <2> HIDE DEF g, stop, leaf, nx
  <2> QED
    BY <2>1, <2>2, <2>3, <2>4, <2>5 DEF SudoStep
<1>4. w = Body(w)
  <2>1. g = Body(g)
    <3>1. Body(g) = [i \in 2..(n + 2) |-> SudoStep(argv, g, i)]
      BY DEF SudoStep
    <3>2. g = [i \in 2..(n + 2) |-> g[i]]
      OBVIOUS
    <3> HIDE DEF g, Body
    <3> QED
      BY <1>3, <3>1, <3>2
  <2> HIDE DEF g, Body
  <2> QED
    BY <2>1
<1>5. \A i \in 2..(n + 2) : w[i] = SudoStep(argv, w, i)
  <2> HIDE DEF w
  <2> QED
    BY <1>4 DEF SudoStep
<1> HIDE DEF w
<1> QED
  BY <1>1, <1>5

\* The parts of a command, said once.
LEMMA CommandShape ==
    ASSUME NEW argv, IsCommand(argv)
    PROVE  /\ argv \in Seq(Tokens) /\ Len(argv) \in Nat /\ Len(argv) >= 1
           /\ \A i \in 1..Len(argv) : argv[i] \in Tokens
           /\ argv[1] \in Tokens /\ argv[1][1] = Missing /\ argv[1] # Word("sudo")
           /\ argv[1] # Flag("--") /\ ~ IsFlag(argv[1])
<1>1. argv \in Seq(Tokens) /\ argv # <<>> /\ argv[1][1] = Missing /\ argv[1] # Word("sudo")
  BY DEF IsCommand
<1>2. Len(argv) \in Nat /\ Len(argv) >= 1
  BY <1>1
<1>3. \A i \in 1..Len(argv) : argv[i] \in Tokens
  BY <1>1, ElementOfSeq
<1>4. argv[1] \in Tokens
  BY <1>2, <1>3
<1>5. argv[1] # Flag("--") /\ ~ IsFlag(argv[1])
  <2>1. \A t : t = <<"--", Missing>> => t[1] # Missing
    BY FlagNames
  <2> QED
    BY <1>1, <2>1 DEF Flag, IsFlag
<1> QED
  BY <1>1, <1>2, <1>3, <1>4, <1>5

\* The prefixes, told apart by what follows the sudo.
LEMMA PrefixShape ==
    ASSUME NEW p \in SudoPrefixes
    PROVE  /\ p \in Seq(Tokens) /\ Len(p) \in 1..3 /\ p[1] = Word("sudo")
           /\ \/ Len(p) = 1
              \/ Len(p) = 2 /\ p[2] = Flag("-S")
              \/ Len(p) = 2 /\ p[2] = Flag("--")
              \/ Len(p) = 3 /\ p[2] = Flag("-u")
              \/ Len(p) = 3 /\ p[2] = Flag("-g")
<1>0. {Word("sudo"), Flag("-S"), Flag("--"), Flag("-u"), Flag("-g"), Word("f")} \subseteq Tokens
  BY DEF Tokens
<1>1. CASE p = <<Word("sudo")>>
  BY <1>0, <1>1
<1>2. CASE p = <<Word("sudo"), Flag("-S")>>
  BY <1>0, <1>2
<1>3. CASE p = <<Word("sudo"), Flag("--")>>
  BY <1>0, <1>3
<1>4. CASE p = <<Word("sudo"), Flag("-u"), Word("f")>>
  BY <1>0, <1>4
<1>5. CASE p = <<Word("sudo"), Flag("-g"), Flag("-S")>>
  BY <1>0, <1>5
<1> QED
  BY <1>1, <1>2, <1>3, <1>4, <1>5 DEF SudoPrefixes

\* Behind each of the prefixes, the command is found where it begins.
LEMMA BehindSudo ==
    ASSUME NEW argv, IsCommand(argv), NEW p \in SudoPrefixes
    PROVE  /\ p \in Seq(Tokens) /\ Len(p) \in 1..3
           /\ StripSudo(p \o argv) = <<TRUE, Len(p)>>
           /\ Inner(p \o argv) = argv
<1> DEFINE a == p \o argv
           n == Len(argv)
<1>1. argv \in Seq(Tokens) /\ n \in Nat /\ n >= 1
  BY CommandShape
<1>2. p \in Seq(Tokens) /\ Len(p) \in 1..3 /\ p[1] = Word("sudo")
  BY PrefixShape
<1>3. /\ a \in Seq(Tokens) /\ Len(a) = Len(p) + n
      /\ \A i \in 1..Len(p) : a[i] = p[i]
      /\ \A i \in 1..n : a[Len(p) + i] = argv[i]
  BY <1>1, <1>2, Concatenated
<1>4. a[1] = Word("sudo") /\ a[Len(p) + 1] = argv[1]
  BY <1>1, <1>2, <1>3
<1>5. argv[1] # Flag("--") /\ ~ IsFlag(argv[1])
  BY CommandShape
<1> HIDE DEF a
<1>6. StripSudo(a) = <<TRUE, Len(p)>>
  <2>1. PICK f : /\ \A i \in 2..(Len(a) + 2) : f[i] = SudoStep(a, f, i)
                 /\ StripSudo(a) = <<TRUE, f[2] - 1>>
    <3>1. Len(a) \in Nat
      BY <1>1, <1>2, <1>3
    <3> QED
      BY <1>4, <3>1, SudoScan
  <2>2. f[2] = SudoStep(a, f, 2) /\ f[Len(p) + 1] = Len(p) + 1
    <3>1. {2, Len(p) + 1} \subseteq 2..(Len(a) + 2)
      BY <1>1, <1>2, <1>3
    <3>2. f[Len(p) + 1] = SudoStep(a, f, Len(p) + 1)
      BY <2>1, <3>1
    <3>3. SudoStep(a, f, Len(p) + 1) = Len(p) + 1
      BY <1>1, <1>2, <1>3, <1>4, <1>5 DEF SudoStep
    <3> QED
      BY <2>1, <3>1, <3>2, <3>3
  <2>3. f[2] = Len(p) + 1
    <3>1. Len(p) # 1 => a[2] = p[2] /\ ~ (2 > Len(a))
      BY <1>1, <1>2, <1>3
    <3>2. CASE Len(p) = 1
      BY <2>2, <3>2
    <3>3. CASE Len(p) = 2 /\ p[2] = Flag("-S")
      <4>1. IsFlag(p[2]) /\ p[2] # Flag("--") /\ p[2] \notin SudoValueFlags
        <5>1. p[2] = <<"-S", Missing>> /\ p[2][1] = "-S"
          BY <3>3 DEF Flag
        <5> QED
          BY <5>1, FlagNames DEF Flag, IsFlag, SudoValueFlags
      <4>2. f[2] = f[3]
        BY <2>2, <3>1, <3>3, <4>1 DEF SudoStep
      <4> QED
        BY <2>2, <3>3, <4>2
    <3>4. CASE Len(p) = 2 /\ p[2] = Flag("--")
      BY <2>2, <3>1, <3>4 DEF SudoStep
    <3>5. CASE Len(p) = 3 /\ (p[2] = Flag("-u") \/ p[2] = Flag("-g"))
      <4>1. IsFlag(p[2]) /\ p[2] # Flag("--") /\ p[2] \in SudoValueFlags
        <5>1. p[2] \in {<<"-u", Missing>>, <<"-g", Missing>>} /\ p[2][1] \in {"-u", "-g"}
          BY <3>5 DEF Flag
        <5> QED
          BY <5>1, FlagNames DEF Flag, IsFlag, SudoValueFlags
      <4>2. f[2] = f[4]
        BY <2>2, <3>1, <3>5, <4>1 DEF SudoStep
      <4> QED
        BY <2>2, <3>5, <4>2
    <3> QED
      BY <3>2, <3>3, <3>4, <3>5, PrefixShape
  <2> QED
    BY <1>2, <2>1, <2>3
<1>7. Inner(a) = argv
  <2> DEFINE u == SubSeq(a, Len(p) + 1, Len(p) + n)
  <2>1. Inner(a) = u
    BY <1>3, <1>6 DEF Inner
  <2>2. \A i \in (Len(p) + 1)..(Len(p) + n) : a[i] \in Tokens
    <3>1. \A i \in (Len(p) + 1)..(Len(p) + n) : i \in 1..Len(a)
      BY <1>1, <1>2, <1>3
    <3> QED
      BY <1>3, <3>1, ElementOfSeq
  <2>3. Len(p) + 1 \in Int /\ Len(p) + n \in Int
    BY <1>1, <1>2
  <2>4. /\ u \in Seq(Tokens)
        /\ Len(u) = IF Len(p) + 1 <= Len(p) + n THEN Len(p) + n - (Len(p) + 1) + 1 ELSE 0
        /\ \A i \in 1..(Len(p) + n - (Len(p) + 1) + 1) : u[i] = a[Len(p) + 1 + i - 1]
    BY <2>2, <2>3, SubSeqProperties
  <2> HIDE DEF u
  <2>5. Len(u) = n /\ \A i \in 1..n : u[i] = argv[i]
    BY <1>1, <1>2, <1>3, <2>4, SMTT(30)
  <2> QED
    BY <1>1, <2>1, <2>4, <2>5, SeqEqual
<1> QED
  BY <1>2, <1>6, <1>7 DEF a

\* A command that is not behind sudo is its own inner command.
LEMMA NotBehindSudo ==
    ASSUME NEW argv, IsCommand(argv)
    PROVE  StripSudo(argv) = <<FALSE, 0>> /\ Inner(argv) = argv
<1>1. StripSudo(argv) = <<FALSE, 0>>
  BY DEF StripSudo, IsCommand
<1>2. Inner(argv) = SubSeq(argv, 1, Len(argv))
  BY <1>1 DEF Inner
<1>3. argv \in Seq(Tokens)
  BY DEF IsCommand
<1> QED
  BY <1>1, <1>2, <1>3, SubSeqFull

-----------------------------------------------------------------------------
(* What the bindings of a command say of its tokens.                         *)

\* What holds of a position when it holds of the later ones holds of all.
LEMMA Downward ==
    ASSUME NEW m \in Nat, NEW G,
           \A i \in 1..m : (\A j \in (i + 1)..m : j \in G) => i \in G
    PROVE  \A i \in 1..m : i \in G
<1> DEFINE T == {k \in 0..m : m - k \in 1..m /\ m - k \notin G}
<1>1. T = {}
  <2> SUFFICES ASSUME T # {} PROVE FALSE
    OBVIOUS
  <2>1. PICK k \in T : \A j \in T : k <= j
    <3>1. T \subseteq Nat
      OBVIOUS
    <3> HIDE DEF T
    <3> QED
      BY <3>1, LeastNumber
  <2>2. k \in 0..m /\ m - k \in 1..m /\ m - k \notin G
    OBVIOUS
  <2>3. ASSUME NEW j \in (m - k + 1)..m PROVE j \in G
    <3>1. m - j \in 0..m /\ m - (m - j) = j /\ j \in 1..m /\ ~ (k <= m - j)
      BY <2>2
    <3>2. m - j \notin T
      <4> HIDE DEF T
      <4> QED
        BY <2>1, <3>1
    <3> QED
      BY <3>1, <3>2
  <2> QED
    BY <2>2, <2>3
<1>2. ASSUME NEW i \in 1..m PROVE i \in G
  <2>1. m - i \in 0..m /\ m - (m - i) = i
    OBVIOUS
  <2>2. m - i \notin T
    BY <1>1
  <2> QED
    BY <2>1, <2>2
<1> QED
  BY <1>2

\* A binding names the output a token carries.
Names(binary, t, b) ==
    /\ b.path[2] = t[2]
    /\ b.prefix # Missing => b.prefix = t[1] /\ t[1] \in Prefixes(binary)

\* A binding is that of the working directory, or of a token from the i-th on.
BoundFrom(binary, args, offset, i, b) ==
    \/ b = InCwd
    \/ /\ b.index \in (offset + i + 1)..(offset + Len(args) + 1)
       /\ Names(binary, args[b.index - offset - 1], b)

\* A token has one prefix.
Agree(S) == \A b, c \in S : b.index = c.index => b.prefix = c.prefix

\* What an argument names itself, and the one it takes.
LEMMA OwnFacts ==
    ASSUME NEW binary, NEW args, Len(args) \in Nat, NEW offset \in Nat, NEW i \in 1..Len(args),
           NEW b \in Own(binary, args, offset, i)
    PROVE  \/ b = InCwd /\ args[i] = Flag("-O")
           \/ /\ b = Binding(offset + i + 1, args[i][1], Word(args[i][2]))
              /\ b.index = offset + i + 1 /\ b.prefix = args[i][1] /\ b.path = Word(args[i][2])
              /\ args[i][1] \in Prefixes(binary) /\ args[i][2] # Missing
BY DEF Own, Binding

\* The scan finds bindings of later tokens, and for each of them one prefix.
LEMMA ScanFacts ==
    ASSUME NEW binary, NEW args, Len(args) \in Nat, NEW offset \in Nat, NEW f,
           ScanOf(binary, args, offset, f)
    PROVE  \A i \in 1..(Len(args) + 2) :
              Agree(f[i]) /\ \A b \in f[i] : BoundFrom(binary, args, offset, i, b)
<1> DEFINE n == Len(args)
           B(i, b) == BoundFrom(binary, args, offset, i, b)
           G == {i \in 1..(n + 2) : Agree(f[i]) /\ \A b \in f[i] : B(i, b)}
<1>1. ASSUME NEW i \in 1..(n + 2), \A j \in (i + 1)..(n + 2) : j \in G PROVE i \in G
  <2>0. f[i] = IF i > n THEN {}
               ELSE IF Takes(binary, args, i)
               THEN {Binding(offset + (i + 1) + 1, Missing, args[i + 1])} \cup f[i + 2]
               ELSE f[i + 1] \cup Own(binary, args, offset, i)
    BY DEF ScanOf
  <2>1. CASE i > n
    BY <2>0, <2>1 DEF Agree
  <2>2. CASE ~ (i > n) /\ Takes(binary, args, i)
    <3> DEFINE x == Binding(offset + (i + 1) + 1, Missing, args[i + 1])
    <3>1. i + 2 \in (i + 1)..(n + 2) /\ i < n
      BY <2>2 DEF Takes
    <3>2. Agree(f[i + 2]) /\ \A b \in f[i + 2] : B(i + 2, b)
      BY <1>1, <3>1
    <3>3. x.index = offset + i + 2 /\ x.prefix = Missing /\ x.path = args[i + 1]
      BY DEF Binding
    <3>4. f[i] = {x} \cup f[i + 2]
      BY <2>0, <2>2
    <3>5. B(i, x)
      <4> HIDE DEF x
      <4>1. x.index \in (offset + i + 1)..(offset + n + 1) /\ x.index - offset - 1 = i + 1
        BY <3>1, <3>3
      <4>2. Names(binary, args[i + 1], x)
        BY <3>3 DEF Names
      <4> QED
        BY <4>1, <4>2 DEF BoundFrom
    <3>6. \A b \in f[i + 2] : B(i, b) /\ b.index # x.index
      <4> SUFFICES ASSUME NEW b \in f[i + 2] PROVE B(i, b) /\ b.index # x.index
        OBVIOUS
      <4>1. CASE b = InCwd
        BY <3>1, <3>3, <4>1 DEF BoundFrom, InCwd
      <4>2. CASE b # InCwd
        <5>1. /\ b.index \in (offset + i + 3)..(offset + n + 1)
              /\ Names(binary, args[b.index - offset - 1], b)
          BY <3>2, <4>2 DEF BoundFrom
        <5>2. b.index \in (offset + i + 1)..(offset + n + 1) /\ b.index # offset + i + 2
          BY <5>1
        <5> QED
          BY <3>3, <5>1, <5>2 DEF BoundFrom
      <4> QED
        BY <4>1, <4>2
    <3> HIDE DEF x, B
    <3>7. Agree(f[i])
      BY <3>2, <3>4, <3>6 DEF Agree
    <3> QED
      BY <3>4, <3>5, <3>6, <3>7
  <2>3. CASE ~ (i > n) /\ ~ Takes(binary, args, i)
    <3> DEFINE O == Own(binary, args, offset, i)
    <3>1. i + 1 \in (i + 1)..(n + 2) /\ i \in 1..n
      BY <2>3
    <3>2. Agree(f[i + 1]) /\ \A b \in f[i + 1] : B(i + 1, b)
      BY <1>1, <3>1
    <3>3. f[i] = f[i + 1] \cup O
      BY <2>0, <2>3
    <3>4. \A b \in O :
            \/ b = InCwd
            \/ /\ b.index = offset + i + 1 /\ b.prefix = args[i][1] /\ b.path = Word(args[i][2])
               /\ args[i][1] \in Prefixes(binary)
      BY <3>1, OwnFacts
    <3> HIDE DEF O
    <3>5. \A b \in O : B(i, b)
      BY <3>1, <3>4, SMTT(30) DEF BoundFrom, Names, Word
    <3>6. \A b \in f[i + 1] : b = InCwd \/ b.index > offset + i + 1
      BY <3>1, <3>2 DEF BoundFrom
    <3>7. \A b \in f[i + 1] : B(i, b)
      <4> SUFFICES ASSUME NEW b \in f[i + 1], b # InCwd PROVE B(i, b)
        BY DEF BoundFrom
      <4>1. /\ b.index \in (offset + i + 2)..(offset + n + 1)
            /\ Names(binary, args[b.index - offset - 1], b)
        BY <3>2 DEF BoundFrom
      <4> QED
        BY <4>1 DEF BoundFrom
    <3>8. Agree(f[i])
      <4>1. InCwd.index = 0 /\ InCwd.prefix = Missing
        BY DEF InCwd
      <4>2. \A b, c \in O : b.index = c.index => b.prefix = c.prefix
        BY <3>1, <3>4, <4>1
      <4>3. \A b \in O, c \in f[i + 1] : b.index = c.index => b.prefix = c.prefix
        BY <3>1, <3>4, <3>6, <4>1
      <4> QED
        BY <3>2, <3>3, <4>2, <4>3 DEF Agree
    <3> HIDE DEF B
    <3> QED
      BY <3>3, <3>5, <3>7, <3>8
  <2> QED
    BY <2>1, <2>2, <2>3
<1>2. \A i \in 1..(n + 2) : i \in G
  <2>1. n + 2 \in Nat
    OBVIOUS
  <2> HIDE DEF n, G
  <2> QED
    BY <1>1, <2>1, Downward
<1> QED
  BY <1>2

Bindings(binary, args, offset) ==
    FlagOutputs(binary, args, offset) \cup PositionalOutputs(binary, args, offset)

\* A binding by position is that of a word.
LEMMA PositionalFacts ==
    ASSUME NEW binary, NEW args, Len(args) \in Nat, NEW offset \in Nat,
           NEW b \in PositionalOutputs(binary, args, offset)
    PROVE  \E j \in 1..Len(args) :
              /\ b = Binding(offset + j + 1, Missing, args[j]) /\ ~ IsFlag(args[j])
              /\ b.index = offset + j + 1 /\ b.prefix = Missing /\ b.path = args[j]
BY DEF PositionalOutputs, Binding

\* A word carries no prefix.
LEMMA WordsHaveNoPrefix ==
    ASSUME NEW binary, NEW t, ~ IsFlag(t)
    PROVE  t[1] \notin Prefixes(binary)
BY FlagNames DEF IsFlag, Prefixes

\* All bindings are of arguments, and each argument has one prefix.
LEMMA BindingsFacts ==
    ASSUME NEW binary, NEW args, Len(args) \in Nat, NEW offset \in Nat
    PROVE  /\ \A b \in Bindings(binary, args, offset) : BoundFrom(binary, args, offset, 1, b)
           /\ Agree(Bindings(binary, args, offset))
<1> DEFINE F == FlagOutputs(binary, args, offset)
           P == PositionalOutputs(binary, args, offset)
<1>1. Agree(F) /\ \A b \in F : BoundFrom(binary, args, offset, 1, b)
  <2>1. PICK f : ScanOf(binary, args, offset, f) /\ F = f[1]
    BY FlagScan
  <2>2. 1 \in 1..(Len(args) + 2)
    OBVIOUS
  <2> HIDE DEF F
  <2> QED
    BY <2>1, <2>2, ScanFacts
<1>2. ASSUME NEW b \in P
      PROVE  /\ b.index \in (offset + 2)..(offset + Len(args) + 1) /\ b.prefix = Missing
             /\ Names(binary, args[b.index - offset - 1], b)
             /\ ~ IsFlag(args[b.index - offset - 1])
  <2>1. PICK j \in 1..Len(args) :
              /\ ~ IsFlag(args[j])
              /\ b.index = offset + j + 1 /\ b.prefix = Missing /\ b.path = args[j]
    BY PositionalFacts
  <2>2. b.index - offset - 1 = j
    BY <2>1
  <2> QED
    BY <2>1, <2>2 DEF Names
<1> HIDE DEF F, P
<1>3. ASSUME NEW b \in F, NEW c \in P, b.index = c.index PROVE b.prefix = c.prefix
  <2>1. b.index # 0
    BY <1>2, <1>3
  <2>2. b # InCwd
    BY <2>1 DEF InCwd
  <2>3. Names(binary, args[b.index - offset - 1], b)
    BY <1>1, <2>2 DEF BoundFrom
  <2>4. ~ IsFlag(args[b.index - offset - 1])
    BY <1>2, <1>3
  <2> QED
    BY <1>2, <2>3, <2>4, WordsHaveNoPrefix DEF Names
<1>4. \A b \in F \cup P : BoundFrom(binary, args, offset, 1, b)
  <2>1. offset + 1 + 1 = offset + 2
    OBVIOUS
  <2> QED
    BY <1>1, <1>2, <2>1 DEF BoundFrom
<1>5. Agree(F \cup P)
  <2> SUFFICES ASSUME NEW b \in F \cup P, NEW c \in F \cup P, b.index = c.index
               PROVE  b.prefix = c.prefix
    BY DEF Agree
  <2>1. CASE b \in F /\ c \in F
    BY <1>1, <2>1 DEF Agree
  <2>2. CASE b \in P /\ c \in P
    BY <1>2, <2>2
  <2> QED
    BY <1>3, <2>1, <2>2
<1> QED
  BY <1>4, <1>5 DEF Bindings, F, P

-----------------------------------------------------------------------------
(* Behind a prefix the bindings are the same, further on.                    *)

Moved(b, k) == IF b.index = 0 THEN b ELSE Binding(b.index + k, b.prefix, b.path)

\* The bindings of T are those of S, k tokens further on.
MovesTo(S, T, k) ==
    /\ \A b \in S : Moved(b, k) \in T
    /\ \A c \in T : \E b \in S : c = Moved(b, k)

\* What one token further on carries.
LEMMA OwnMoves ==
    ASSUME NEW binary, NEW args, Len(args) \in Nat, NEW k \in Nat, NEW i \in 1..Len(args)
    PROVE  MovesTo(Own(binary, args, 0, i), Own(binary, args, k, i), k)
<1> DEFINE x == Binding(0 + i + 1, args[i][1], Word(args[i][2]))
           y == Binding(k + i + 1, args[i][1], Word(args[i][2]))
           here == args[i][1] \in Prefixes(binary) /\ args[i][2] # Missing
           cwd == binary = "curl" /\ args[i] = Flag("-O")
<1>1. \A b : b \in Own(binary, args, 0, i) <=> (here /\ b = x) \/ (cwd /\ b = InCwd)
  BY DEF Own
<1>2. \A c : c \in Own(binary, args, k, i) <=> (here /\ c = y) \/ (cwd /\ c = InCwd)
  BY DEF Own
<1>3. Moved(x, k) = y
  BY DEF Moved, Binding
<1>4. Moved(InCwd, k) = InCwd
  BY DEF Moved, InCwd
<1> HIDE DEF x, y, here, cwd
<1> QED
  BY <1>1, <1>2, <1>3, <1>4 DEF MovesTo

\* What the scan finds moves with the arguments.
LEMMA ScanMoves ==
    ASSUME NEW binary, NEW args, Len(args) \in Nat, NEW k \in Nat, NEW f, NEW g,
           ScanOf(binary, args, k, f), ScanOf(binary, args, 0, g)
    PROVE  \A i \in 1..(Len(args) + 2) : MovesTo(g[i], f[i], k)
<1> DEFINE n == Len(args)
           G == {i \in 1..(n + 2) : MovesTo(g[i], f[i], k)}
<1>1. ASSUME NEW i \in 1..(n + 2), \A j \in (i + 1)..(n + 2) : j \in G PROVE i \in G
  <2>0. /\ f[i] = IF i > n THEN {}
                  ELSE IF Takes(binary, args, i)
                  THEN {Binding(k + (i + 1) + 1, Missing, args[i + 1])} \cup f[i + 2]
                  ELSE f[i + 1] \cup Own(binary, args, k, i)
        /\ g[i] = IF i > n THEN {}
                  ELSE IF Takes(binary, args, i)
                  THEN {Binding(0 + (i + 1) + 1, Missing, args[i + 1])} \cup g[i + 2]
                  ELSE g[i + 1] \cup Own(binary, args, 0, i)
    BY DEF ScanOf
  <2>1. CASE i > n
    BY <2>0, <2>1 DEF MovesTo
  <2>2. CASE ~ (i > n) /\ Takes(binary, args, i)
    <3> DEFINE x == Binding(0 + (i + 1) + 1, Missing, args[i + 1])
               y == Binding(k + (i + 1) + 1, Missing, args[i + 1])
    <3>1. Moved(x, k) = y
      BY DEF Moved, Binding
    <3>2. MovesTo(g[i + 2], f[i + 2], k)
      <4>1. i + 2 \in (i + 1)..(n + 2)
        BY <2>2
      <4> QED
        BY <1>1, <4>1
    <3>3. f[i] = {y} \cup f[i + 2] /\ g[i] = {x} \cup g[i + 2]
      BY <2>0, <2>2
    <3> HIDE DEF x, y
    <3> QED
      BY <3>1, <3>2, <3>3 DEF MovesTo
  <2>3. CASE ~ (i > n) /\ ~ Takes(binary, args, i)
    <3>1. MovesTo(g[i + 1], f[i + 1], k)
      <4>1. i + 1 \in (i + 1)..(n + 2)
        BY <2>3
      <4> QED
        BY <1>1, <4>1
    <3>2. /\ f[i] = f[i + 1] \cup Own(binary, args, k, i)
          /\ g[i] = g[i + 1] \cup Own(binary, args, 0, i)
      BY <2>0, <2>3
    <3>3. i \in 1..n
      BY <2>3
    <3>4. MovesTo(Own(binary, args, 0, i), Own(binary, args, k, i), k)
      BY <3>3, OwnMoves
    <3>5. \A b \in g[i] : Moved(b, k) \in f[i]
      BY <3>1, <3>2, <3>4 DEF MovesTo
    <3>6. \A c \in f[i] : \E b \in g[i] : c = Moved(b, k)
      BY <3>1, <3>2, <3>4 DEF MovesTo
    <3> QED
      BY <3>5, <3>6 DEF MovesTo
  <2> QED
    BY <2>1, <2>2, <2>3
<1>2. \A i \in 1..(n + 2) : i \in G
  <2>1. n + 2 \in Nat
    OBVIOUS
  <2> HIDE DEF n, G
  <2> QED
    BY <1>1, <2>1, Downward
<1> QED
  BY <1>2

\* The bindings move with the arguments.
LEMMA BindingsMove ==
    ASSUME NEW binary, NEW args, Len(args) \in Nat, NEW k \in Nat
    PROVE  MovesTo(Bindings(binary, args, 0), Bindings(binary, args, k), k)
<1>1. PICK f : ScanOf(binary, args, k, f) /\ FlagOutputs(binary, args, k) = f[1]
  BY FlagScan
<1>2. PICK g : ScanOf(binary, args, 0, g) /\ FlagOutputs(binary, args, 0) = g[1]
  BY FlagScan
<1>3. MovesTo(g[1], f[1], k)
  <2>1. 1 \in 1..(Len(args) + 2)
    OBVIOUS
  <2> QED
    BY <1>1, <1>2, <2>1, ScanMoves
<1> DEFINE words == {i \in 1..Len(args) : ~ IsFlag(args[i])}
           outs == CASE binary = "cp" -> {i \in words : \A j \in words : j <= i}
                     [] binary = "touch" -> words
                     [] OTHER -> {}
<1>4. \A o \in Nat : \A x :
         x \in PositionalOutputs(binary, args, o)
            <=> \E i \in outs : x = Binding(o + i + 1, Missing, args[i])
  BY DEF PositionalOutputs, Binding
<1>5. outs \subseteq 1..Len(args)
  OBVIOUS
<1> HIDE DEF outs
<1>6. \A i \in outs :
         Moved(Binding(0 + i + 1, Missing, args[i]), k) = Binding(k + i + 1, Missing, args[i])
  BY <1>5 DEF Moved, Binding
<1>7. MovesTo(PositionalOutputs(binary, args, 0), PositionalOutputs(binary, args, k), k)
  BY <1>4, <1>6 DEF MovesTo
<1> QED
  BY <1>1, <1>2, <1>3, <1>7 DEF Bindings, MovesTo

-----------------------------------------------------------------------------
(* What is sent.                                                             *)

\* The command inside a: inner, behind k tokens.
Holds(a, inner, k) ==
    /\ IsCommand(inner) /\ Inner(a) = inner /\ StripSudo(a)[2] = k
    /\ k \in Nat /\ DOMAIN a = 1..(k + Len(inner))
    /\ \A i \in 1..Len(inner) : a[k + i] = inner[i]

\* A command that is not behind sudo is inside itself, behind nothing.
LEMMA CommandHolds ==
    ASSUME NEW argv, IsCommand(argv)
    PROVE  Holds(argv, argv, 0)
<1>1. Inner(argv) = argv /\ StripSudo(argv)[2] = 0
  <2>1. StripSudo(argv) = <<FALSE, 0>> /\ Inner(argv) = argv
    BY NotBehindSudo
  <2>2. <<FALSE, 0>>[2] = 0
    OBVIOUS
  <2> QED
    BY <2>1, <2>2
<1>2. argv \in Seq(Tokens) /\ Len(argv) \in Nat
  BY CommandShape
<1>3. DOMAIN argv = 1..Len(argv)
  BY <1>2, LenProperties
<1> QED
  BY <1>1, <1>2, <1>3 DEF Holds

\* Behind a prefix the command is inside, behind the tokens of the prefix.
LEMMA SudoHolds ==
    ASSUME NEW argv, IsCommand(argv), NEW p \in SudoPrefixes
    PROVE  Holds(p \o argv, argv, Len(p))
<1>1. /\ p \in Seq(Tokens) /\ Len(p) \in 1..3
      /\ StripSudo(p \o argv) = <<TRUE, Len(p)>> /\ Inner(p \o argv) = argv
  BY BehindSudo
<1>2. argv \in Seq(Tokens) /\ Len(argv) \in Nat
  BY CommandShape
<1>3. /\ p \o argv \in Seq(Tokens) /\ Len(p \o argv) = Len(p) + Len(argv)
      /\ \A i \in 1..Len(argv) : (p \o argv)[Len(p) + i] = argv[i]
  BY <1>1, <1>2, Concatenated
<1>4. DOMAIN (p \o argv) = 1..(Len(p) + Len(argv))
  BY <1>3, LenProperties
<1>5. StripSudo(p \o argv)[2] = Len(p) /\ Len(p) \in Nat
  BY <1>1
<1> QED
  BY <1>1, <1>3, <1>4, <1>5 DEF Holds

\* The arguments of a command are those behind its binary.
LEMMA Arguments ==
    ASSUME NEW argv, IsCommand(argv)
    PROVE  /\ Len(Tail(argv)) \in Nat /\ Len(argv) = Len(Tail(argv)) + 1
           /\ Tail(argv) \in Seq(Tokens)
           /\ \A i \in 1..Len(Tail(argv)) : Tail(argv)[i] = argv[i + 1]
<1>1. argv \in Seq(Tokens) /\ Len(argv) \in Nat /\ Len(argv) >= 1
  BY CommandShape
<1>2. argv # <<>>
  BY <1>1
<1>3. /\ Tail(argv) \in Seq(Tokens) /\ Len(Tail(argv)) = Len(argv) - 1
      /\ \A i \in 1..Len(Tail(argv)) : Tail(argv)[i] = argv[i + 1]
  BY <1>1, <1>2, HeadTailProperties
<1> QED
  BY <1>1, <1>3

\* The outputs of a command are those of its binary and its arguments.
LEMMA OutputsOf ==
    ASSUME NEW a, NEW inner, NEW k, Holds(a, inner, k)
    PROVE  OutputBindings(a) = Bindings(inner[1][2], Tail(inner), k)
<1>1. inner # <<>>
  BY DEF Holds, IsCommand
<1> QED
  BY <1>1 DEF Holds, OutputBindings, Bindings

\* A binding with a position is that of a token behind the binary.
LEMMA OutputIsArgument ==
    ASSUME NEW a, NEW inner, NEW k, Holds(a, inner, k), NEW b \in OutputBindings(a)
    PROVE  \/ b = InCwd /\ b.index = 0
           \/ /\ b.index \in (k + 2)..(k + Len(inner)) /\ b.index \in DOMAIN a
              /\ Names(inner[1][2], a[b.index], b)
<1> DEFINE args == Tail(inner)
<1>1. /\ Len(args) \in Nat /\ Len(inner) = Len(args) + 1
      /\ \A i \in 1..Len(args) : args[i] = inner[i + 1]
  BY Arguments DEF Holds
<1>2. k \in Nat /\ DOMAIN a = 1..(k + Len(inner)) /\ \A i \in 1..Len(inner) : a[k + i] = inner[i]
  BY DEF Holds
<1>3. BoundFrom(inner[1][2], args, k, 1, b)
  BY <1>1, <1>2, OutputsOf, BindingsFacts
<1> HIDE DEF args
<1>4. CASE b = InCwd
  BY <1>4 DEF InCwd
<1>5. CASE b # InCwd
  <2>1. /\ b.index \in (k + 1 + 1)..(k + Len(args) + 1)
        /\ Names(inner[1][2], args[b.index - k - 1], b)
    BY <1>3, <1>5 DEF BoundFrom
  <2>2. b.index - k - 1 \in 1..Len(args) /\ b.index - k \in 1..Len(inner)
    BY <1>1, <1>2, <2>1, SMTT(40)
  <2>3. args[b.index - k - 1] = a[b.index]
    <3>1. args[b.index - k - 1] = inner[b.index - k]
      BY <1>1, <1>2, <2>1, <2>2, SMTT(40)
    <3>2. inner[b.index - k] = a[k + (b.index - k)]
      BY <1>2, <2>2
    <3>3. k + (b.index - k) = b.index
      BY <1>2, <2>1
    <3> QED
      BY <3>1, <3>2, <3>3
  <2> QED
    BY <1>1, <1>2, <2>1, <2>3
<1> QED
  BY <1>4, <1>5

\* All bindings of one position say the same about what is written there.
LEMMA OutputsAgree ==
    ASSUME NEW a, NEW inner, NEW k, Holds(a, inner, k),
           NEW b \in OutputBindings(a), NEW c \in OutputBindings(a),
           b.index = c.index, b.index # 0
    PROVE  b.prefix = c.prefix /\ b.path[2] = c.path[2]
<1>1. b.path[2] = a[b.index][2] /\ c.path[2] = a[c.index][2]
  BY OutputIsArgument DEF Names
<1>2. Agree(OutputBindings(a))
  <2>1. Len(Tail(inner)) \in Nat /\ k \in Nat
    BY Arguments DEF Holds
  <2> QED
    BY <2>1, OutputsOf, BindingsFacts
<1> QED
  BY <1>1, <1>2 DEF Agree

\* A rewritten token.
LEMMA RewriteAt ==
    ASSUME NEW a, NEW inner, NEW k, Holds(a, inner, k),
           NEW b \in OutputBindings(a), b.index # 0
    PROVE  Rewrite(a)[b.index] = <<b.prefix, Provided[b.path[2]]>>
<1> DEFINE here == {x \in OutputBindings(a) : x.index = b.index}
           c == CHOOSE x \in here : TRUE
<1>1. b.index \in DOMAIN a
  BY OutputIsArgument
<1>2. here # {} /\ c \in here
  OBVIOUS
<1>3. Rewrite(a)[b.index] = <<c.prefix, Provided[c.path[2]]>>
  BY <1>1, <1>2 DEF Rewrite
<1>4. c.prefix = b.prefix /\ c.path[2] = b.path[2]
  <2>1. c \in OutputBindings(a) /\ c.index = b.index
    BY <1>2
  <2> HIDE DEF c, here
  <2> QED
    BY <2>1, OutputsAgree
<1> HIDE DEF c, here
<1> QED
  BY <1>3, <1>4

\* The other tokens are sent as they are.
LEMMA RewriteElsewhere ==
    ASSUME NEW a, NEW i \in DOMAIN a, \A b \in OutputBindings(a) : b.index # i
    PROVE  Rewrite(a)[i] = a[i]
<1>1. {b \in OutputBindings(a) : b.index = i} = {}
  OBVIOUS
<1> QED
  BY <1>1 DEF Rewrite

\* What is sent for a command is a command of the same binary.
LEMMA SentIsCommand ==
    ASSUME NEW argv, IsCommand(argv),
           \A b \in OutputBindings(argv) : b.index # 0 => b.path[2] \in DOMAIN Provided
    PROVE  LET sent == Rewrite(argv) IN
           IsCommand(sent) /\ Len(sent) = Len(argv) /\ sent[1] = argv[1]
<1> DEFINE sent == Rewrite(argv)
           n == Len(argv)
<1>1. argv \in Seq(Tokens) /\ n \in Nat /\ n >= 1 /\ \A i \in 1..n : argv[i] \in Tokens
  BY CommandShape
<1>2. Holds(argv, argv, 0) /\ DOMAIN argv = 1..n
  BY <1>1, CommandHolds, LenProperties
<1>3. ASSUME NEW i \in 1..n PROVE sent[i] \in Tokens
  <2>1. CASE \A b \in OutputBindings(argv) : b.index # i
    BY <1>1, <1>2, <2>1, RewriteElsewhere
  <2>2. CASE \E b \in OutputBindings(argv) : b.index = i
    <3>1. PICK b \in OutputBindings(argv) : b.index = i
      BY <2>2
    <3>2. sent[i] = <<b.prefix, Provided[b.path[2]]>>
      <4>1. b.index # 0
        BY <3>1
      <4>2. Rewrite(argv)[b.index] = <<b.prefix, Provided[b.path[2]]>>
        BY <1>2, <4>1, RewriteAt
      <4> QED
        BY <3>1, <4>2
    <3>3. b.path[2] \in DOMAIN Provided
      BY <3>1
    <3>4. b.prefix \in OutputPrefixes
      <4>1. b.prefix = Missing \/ b.prefix \in Prefixes(argv[1][2])
        BY <1>2, <3>1, OutputIsArgument DEF Names
      <4> QED
        BY <4>1 DEF Prefixes, OutputPrefixes
    <3> HIDE DEF sent
    <3>5. sent[i] \in {<<x, Provided[v]>> : x \in OutputPrefixes, v \in DOMAIN Provided}
      BY <3>2, <3>3, <3>4
    <3> QED
      BY <3>5 DEF Tokens
  <2> QED
    BY <2>1, <2>2
<1>4. sent = [i \in 1..n |-> sent[i]]
  BY <1>2 DEF Rewrite
<1>5. sent[1] = argv[1]
  <2>1. ASSUME NEW b \in OutputBindings(argv) PROVE b.index # 1
    <3>1. b.index = 0 \/ b.index \in 2..n
      BY <1>1, <1>2, OutputIsArgument
    <3> QED
      BY <3>1
  <2> QED
    BY <1>1, <1>2, <2>1, RewriteElsewhere
<1> HIDE DEF sent
<1>6. sent \in [1..n -> Tokens]
  BY <1>3, <1>4
<1>7. sent \in Seq(Tokens) /\ Len(sent) = n
  BY <1>1, <1>6
<1>8. sent # <<>>
  BY <1>1, <1>7
<1> QED
  BY <1>1, <1>5, <1>7, <1>8 DEF IsCommand, sent

\* Behind a prefix, the same is sent behind the prefix.
LEMMA RewriteBehindSudo ==
    ASSUME NEW argv, IsCommand(argv), NEW p \in SudoPrefixes,
           \A b \in OutputBindings(argv) : b.index # 0 => b.path[2] \in DOMAIN Provided
    PROVE  Rewrite(p \o argv) = p \o Rewrite(argv)
<1> DEFINE a == p \o argv
           sent == Rewrite(argv)
           k == Len(p)
           n == Len(argv)
           binary == argv[1][2]
           args == Tail(argv)
<1>1. argv \in Seq(Tokens) /\ n \in Nat /\ n >= 1
  BY CommandShape
<1>2. p \in Seq(Tokens) /\ k \in 1..3
  BY BehindSudo
<1>3. /\ a \in Seq(Tokens) /\ Len(a) = k + n /\ DOMAIN a = 1..(k + n)
      /\ \A i \in 1..k : a[i] = p[i]
      /\ \A i \in 1..n : a[k + i] = argv[i]
  <2>1. /\ a \in Seq(Tokens) /\ Len(a) = k + n
        /\ \A i \in 1..k : a[i] = p[i]
        /\ \A i \in 1..n : a[k + i] = argv[i]
    BY <1>1, <1>2, Concatenated
  <2> QED
    BY <2>1, LenProperties
<1>4. IsCommand(sent) /\ sent \in Seq(Tokens) /\ Len(sent) = n
  <2>1. IsCommand(sent) /\ Len(sent) = n
    BY SentIsCommand
  <2> QED
    BY <2>1 DEF IsCommand
<1> HIDE DEF sent
<1>5. /\ p \o sent \in Seq(Tokens) /\ Len(p \o sent) = k + n
      /\ \A i \in 1..k : (p \o sent)[i] = p[i]
      /\ \A i \in 1..n : (p \o sent)[k + i] = sent[i]
  BY <1>2, <1>4, Concatenated
<1>6. Holds(a, argv, k) /\ Holds(argv, argv, 0)
  BY SudoHolds, CommandHolds
<1> HIDE DEF a
<1>7. /\ OutputBindings(a) = Bindings(binary, args, k)
      /\ OutputBindings(argv) = Bindings(binary, args, 0)
      /\ MovesTo(OutputBindings(argv), OutputBindings(a), k)
  <2>1. OutputBindings(a) = Bindings(binary, args, k) /\ OutputBindings(argv) = Bindings(binary, args, 0)
    BY <1>6, OutputsOf
  <2>2. MovesTo(Bindings(binary, args, 0), Bindings(binary, args, k), k)
    <3>1. Len(args) \in Nat /\ k \in Nat
      BY <1>2, Arguments
    <3> HIDE DEF binary, args, k
    <3> QED
      BY <3>1, BindingsMove
  <2> QED
    BY <2>1, <2>2
<1>8. ASSUME NEW i \in 1..k PROVE Rewrite(a)[i] = (p \o sent)[i]
  <2>1. ASSUME NEW b \in OutputBindings(a) PROVE b.index # i
    <3>1. b.index = 0 \/ b.index \in (k + 2)..(k + n)
      BY <1>6, OutputIsArgument
    <3> QED
      BY <1>1, <1>2, <3>1
  <2>2. i \in DOMAIN a
    BY <1>1, <1>2, <1>3
  <2>3. Rewrite(a)[i] = a[i]
    BY <2>1, <2>2, RewriteElsewhere
  <2> QED
    BY <1>3, <1>5, <2>3
<1>9. ASSUME NEW i \in 1..n PROVE Rewrite(a)[k + i] = (p \o sent)[k + i]
  <2>1. k + i \in DOMAIN a /\ i \in DOMAIN argv /\ k + i # 0
    BY <1>1, <1>2, <1>3, LenProperties
  <2>2. CASE \E b \in OutputBindings(argv) : b.index = i
    <3>1. PICK b \in OutputBindings(argv) : b.index = i
      BY <2>2
    <3>2. Moved(b, k) \in OutputBindings(a)
      BY <1>7 DEF MovesTo
    <3>3. Moved(b, k).index = k + i /\ Moved(b, k).prefix = b.prefix /\ Moved(b, k).path = b.path
      BY <1>2, <3>1 DEF Moved, Binding
    <3>4. Rewrite(a)[k + i] = <<b.prefix, Provided[b.path[2]]>>
      BY <1>6, <2>1, <3>2, <3>3, RewriteAt
    <3>5. sent[i] = <<b.prefix, Provided[b.path[2]]>>
      <4>1. b.index # 0
        BY <3>1
      <4>2. Rewrite(argv)[b.index] = <<b.prefix, Provided[b.path[2]]>>
        BY <1>6, <4>1, RewriteAt
      <4> QED
        BY <3>1, <4>2 DEF sent
    <3> QED
      BY <1>5, <3>4, <3>5
  <2>3. CASE \A b \in OutputBindings(argv) : b.index # i
    <3>1. ASSUME NEW c \in OutputBindings(a) PROVE c.index # k + i
      <4>1. PICK b \in OutputBindings(argv) : c = Moved(b, k)
        BY <1>7 DEF MovesTo
      <4>2. b.index = 0 \/ b.index \in 2..n
        BY <1>1, <1>6, OutputIsArgument
      <4>3. CASE b.index = 0
        BY <1>2, <4>1, <4>3 DEF Moved
      <4>4. CASE b.index \in 2..n
        <5>1. c.index = b.index + k
          BY <4>1, <4>4 DEF Moved, Binding
        <5>2. b.index # i
          BY <2>3
        <5> QED
          BY <1>2, <4>4, <5>1, <5>2
      <4> QED
        BY <4>2, <4>3, <4>4
    <3>2. Rewrite(a)[k + i] = a[k + i]
      BY <2>1, <3>1, RewriteElsewhere
    <3>3. sent[i] = argv[i]
      BY <2>1, <2>3, RewriteElsewhere DEF sent
    <3> QED
      BY <1>3, <1>5, <3>2, <3>3
  <2> QED
    BY <2>2, <2>3
<1>10. \A i \in 1..(k + n) : Rewrite(a)[i] = (p \o sent)[i]
  <2> SUFFICES ASSUME NEW i \in 1..(k + n) PROVE Rewrite(a)[i] = (p \o sent)[i]
    OBVIOUS
  <2>1. CASE i <= k
    BY <1>2, <1>8, <2>1
  <2>2. CASE ~ (i <= k)
    <3>1. i - k \in 1..n /\ k + (i - k) = i
      BY <1>1, <1>2, <2>2
    <3>2. Rewrite(a)[k + (i - k)] = (p \o sent)[k + (i - k)]
      BY <1>9, <3>1
    <3> QED
      BY <3>1, <3>2
  <2> QED
    BY <2>1, <2>2
<1>11. Rewrite(a) = [i \in 1..(k + n) |-> Rewrite(a)[i]]
  BY <1>3 DEF Rewrite
<1>12. p \o sent = [i \in 1..(k + n) |-> (p \o sent)[i]]
  BY <1>5, LenProperties
<1>13. Rewrite(a) = p \o sent
  BY <1>10, <1>11, <1>12
<1> QED
  BY <1>13 DEF a, sent

-----------------------------------------------------------------------------
(* Reading what is sent: outs are the arguments sent for args.               *)

Rewritten(binary, args, j) == \E b \in Bindings(binary, args, 0) : b.index = j + 1

\* Outputs become provider paths, behind the prefix they had.
SentFor(binary, args, outs) ==
    /\ Len(args) \in Nat /\ Len(outs) = Len(args)
    /\ \A j \in 1..Len(args) :
          /\ Rewritten(binary, args, j) =>
                /\ outs[j][2] \in ProviderValues /\ outs[j][2] # Missing
                /\ outs[j][1] # Missing => outs[j][1] = args[j][1] /\ args[j][1] \in Prefixes(binary)
          /\ ~ Rewritten(binary, args, j) => outs[j] = args[j]

Inside(b) == b.index # 0 => b.path[2] \in ProviderValues

\* A flag that takes the next argument is a flag alone.
LEMMA TakesIsFlag ==
    ASSUME NEW binary, NEW args, NEW i, Takes(binary, args, i)
    PROVE  IsFlag(args[i]) /\ args[i][2] = Missing
<1>1. \E f \in {"--output", "-o", "-O", "-P", "-oN"} : args[i] = <<f, Missing>>
  BY DEF Takes, ValueFlags, Flag
<1>2. \A f \in {"--output", "-o", "-O", "-P", "-oN"} : f \notin {Missing, ">"}
  BY FlagNames
<1> QED
  BY <1>1, <1>2 DEF IsFlag

\* At the positions the scan of args visits, g[i] being all it finds from i on,
\* the scan of outs does the same and finds provider paths.
LEMMA SentScan ==
    ASSUME NEW binary, NEW args, NEW outs, SentFor(binary, args, outs), NEW g, NEW h,
           ScanOf(binary, args, 0, g), ScanOf(binary, outs, 0, h),
           FlagOutputs(binary, args, 0) = g[1]
    PROVE  \A b \in h[1] : Inside(b)
<1> DEFINE n == Len(args)
           Visited(i) == g[i] \subseteq g[1] /\ \A b \in g[1] : b.index >= i + 1 => b \in g[i]
           G == {i \in 1..(n + 2) : Visited(i) => \A b \in h[i] : Inside(b)}
<1>0. n \in Nat /\ Len(outs) = n
  BY DEF SentFor
<1>a. \A b \in g[1] : b.index \in Nat
  <2>1. 1 \in 1..(Len(args) + 2)
    BY <1>0
  <2>2. \A b \in g[1] : BoundFrom(binary, args, 0, 1, b)
    BY <1>0, <2>1, ScanFacts
  <2> QED
    BY <1>0, <2>2 DEF BoundFrom, InCwd
<1>1. ASSUME NEW i \in 1..(n + 2), \A j \in (i + 1)..(n + 2) : j \in G PROVE i \in G
  <2> SUFFICES ASSUME Visited(i) PROVE \A b \in h[i] : Inside(b)
    OBVIOUS
  <2>0. /\ g[i] = IF i > n THEN {}
                  ELSE IF Takes(binary, args, i)
                  THEN {Binding(0 + (i + 1) + 1, Missing, args[i + 1])} \cup g[i + 2]
                  ELSE g[i + 1] \cup Own(binary, args, 0, i)
        /\ h[i] = IF i > n THEN {}
                  ELSE IF Takes(binary, outs, i)
                  THEN {Binding(0 + (i + 1) + 1, Missing, outs[i + 1])} \cup h[i + 2]
                  ELSE h[i + 1] \cup Own(binary, outs, 0, i)
    BY <1>0 DEF ScanOf
  <2>1. CASE i > n
    BY <2>0, <2>1
  <2>2. CASE ~ (i > n) /\ Takes(binary, args, i)
    <3> DEFINE x == Binding(0 + (i + 1) + 1, Missing, args[i + 1])
               y == Binding(0 + (i + 1) + 1, Missing, outs[i + 1])
    <3>1. i + 2 \in (i + 1)..(n + 2) /\ i + 2 \in 1..(n + 2) /\ i < n
      BY <1>0, <2>2 DEF Takes
    <3>2. x.index = i + 2 /\ y.index = i + 2 /\ y.path = outs[i + 1]
      BY DEF Binding
    <3>3. g[i] = {x} \cup g[i + 2]
      BY <2>0, <2>2
    <3> HIDE DEF x, y
    <3>4. \A b \in g[i + 2] : b.index = 0 \/ b.index >= i + 3
      <4>1. \A b \in g[i + 2] : BoundFrom(binary, args, 0, i + 2, b)
        BY <1>0, <3>1, ScanFacts
      <4> QED
        BY <1>0, <4>1 DEF BoundFrom, InCwd
    <3>5. Visited(i + 2)
      <4>1. ASSUME NEW b \in g[1], b.index >= i + 3 PROVE b \in g[i + 2]
        <5>1. b.index >= i + 1 /\ b.index # i + 2
          BY <1>a, <4>1
        <5> QED
          BY <3>2, <3>3, <5>1
      <4> QED
        BY <3>3, <4>1
    <3>6. ~ Rewritten(binary, args, i)
      <4> SUFFICES ASSUME NEW b \in Bindings(binary, args, 0), b.index = i + 1 PROVE FALSE
        BY DEF Rewritten
      <4>1. CASE b \in FlagOutputs(binary, args, 0)
        <5>1. b \in g[i]
          BY <4>1
        <5> QED
          BY <3>2, <3>3, <3>4, <5>1
      <4>2. CASE b \in PositionalOutputs(binary, args, 0)
        <5>1. PICK j \in 1..n : ~ IsFlag(args[j]) /\ b.index = 0 + j + 1
          BY <1>0, <4>2, PositionalFacts
        <5>2. j = i
          BY <5>1
        <5> QED
          BY <2>2, <5>1, <5>2, TakesIsFlag
      <4> QED
        BY <4>1, <4>2 DEF Bindings
    <3>7. outs[i] = args[i]
      BY <1>0, <3>1, <3>6 DEF SentFor
    <3>8. h[i] = {y} \cup h[i + 2]
      <4>1. Takes(binary, outs, i)
        BY <1>0, <2>2, <3>7 DEF Takes
      <4> QED
        BY <2>0, <2>2, <4>1 DEF y
    <3>9. Inside(y)
      <4>1. x \in Bindings(binary, args, 0)
        BY <3>3 DEF Bindings
      <4>2. Rewritten(binary, args, i + 1)
        BY <3>2, <4>1 DEF Rewritten
      <4>3. i + 1 \in 1..Len(args)
        BY <1>0, <3>1
      <4> QED
        BY <3>2, <4>2, <4>3 DEF SentFor, Inside
    <3>10. \A b \in h[i + 2] : Inside(b)
      BY <1>1, <3>1, <3>5
    <3> QED
      BY <3>8, <3>9, <3>10
  <2>3. CASE ~ (i > n) /\ ~ Takes(binary, args, i)
    <3>1. i + 1 \in (i + 1)..(n + 2) /\ i + 1 \in 1..(n + 2) /\ i \in 1..n
      BY <1>0, <2>3
    <3>2. g[i] = g[i + 1] \cup Own(binary, args, 0, i)
      BY <2>0, <2>3
    <3>3. \A b \in Own(binary, args, 0, i) : b.index = 0 \/ b.index = i + 1
      <4>1. \A b \in Own(binary, args, 0, i) : b = InCwd \/ b.index = 0 + i + 1
        BY DEF Own, Binding
      <4> QED
        BY <4>1 DEF InCwd
    <3>4. Visited(i + 1)
      <4>1. ASSUME NEW b \in g[1], b.index >= i + 2 PROVE b \in g[i + 1]
        <5>1. b.index >= i + 1 /\ b.index # i + 1 /\ b.index # 0
          BY <1>a, <4>1
        <5> QED
          BY <3>2, <3>3, <5>1
      <4> QED
        BY <3>2, <4>1
    <3>5. \A b \in h[i + 1] : Inside(b)
      BY <1>1, <3>1, <3>4
    <3>6. ~ Takes(binary, outs, i)
      <4>1. CASE Rewritten(binary, args, i)
        <5>1. outs[i][2] # Missing
          BY <3>1, <4>1 DEF SentFor
        <5> QED
          BY <5>1, TakesIsFlag
      <4>2. CASE ~ Rewritten(binary, args, i)
        <5>1. outs[i] = args[i]
          BY <3>1, <4>2 DEF SentFor
        <5> QED
          BY <1>0, <2>3, <5>1 DEF Takes
      <4> QED
        BY <4>1, <4>2
    <3>7. h[i] = h[i + 1] \cup Own(binary, outs, 0, i)
      BY <2>0, <2>3, <3>6
    <3>8. ASSUME NEW b \in Own(binary, outs, 0, i) PROVE Inside(b)
      <4>1. \/ b = InCwd
            \/ b.index = 0 + i + 1 /\ b.path = Word(outs[i][2])
        BY DEF Own, Binding
      <4>2. CASE b = InCwd
        BY <4>2 DEF Inside, InCwd
      <4>3. CASE b # InCwd /\ Rewritten(binary, args, i)
        <5>1. outs[i][2] \in ProviderValues
          BY <3>1, <4>3 DEF SentFor
        <5> QED
          BY <4>1, <4>3, <5>1 DEF Inside, Word
      <4>4. CASE b # InCwd /\ ~ Rewritten(binary, args, i)
        <5>1. outs[i] = args[i]
          BY <3>1, <4>4 DEF SentFor
        <5>2. b \in Own(binary, args, 0, i)
          BY <5>1 DEF Own
        <5>3. b \in Bindings(binary, args, 0)
          BY <3>2, <5>2 DEF Bindings
        <5>4. b.index = i + 1
          BY <4>1, <4>4
        <5> QED
          BY <4>4, <5>3, <5>4 DEF Rewritten
      <4> QED
        BY <4>2, <4>3, <4>4
    <3> QED
      BY <3>5, <3>7, <3>8
  <2> QED
    BY <2>1, <2>2, <2>3
<1>2. \A i \in 1..(n + 2) : i \in G
  <2>1. n + 2 \in Nat
    BY <1>0
  <2> HIDE DEF n, G
  <2> QED
    BY <1>1, <2>1, Downward
<1>3. Visited(1)
  <2>1. \A b \in g[1] : b \in g[1]
    OBVIOUS
  <2> QED
    OBVIOUS
<1>4. 1 \in 1..(n + 2)
  BY <1>0
<1> QED
  BY <1>2, <1>3, <1>4

\* The words of outs are provider paths where those of args are outputs: a word
\* stays a word, so the last one is not an earlier one.
LEMMA SentWords ==
    ASSUME NEW binary, NEW args, NEW outs, SentFor(binary, args, outs),
           NEW c \in PositionalOutputs(binary, outs, 0)
    PROVE  Inside(c)
<1> DEFINE n == Len(args)
           words(s) == {i \in 1..Len(s) : ~ IsFlag(s[i])}
<1>0. n \in Nat /\ Len(outs) = n
  BY DEF SentFor
<1>1. PICK j \in words(outs) :
         /\ c = Binding(0 + j + 1, Missing, outs[j])
         /\ binary = "touch" \/ (binary = "cp" /\ \A i \in words(outs) : i <= j)
  BY DEF PositionalOutputs, Binding
<1>2. j \in 1..n /\ ~ IsFlag(outs[j])
  BY <1>0
<1>3. c.path = outs[j]
  BY <1>1 DEF Binding
<1>4. Rewritten(binary, args, j)
  <2> SUFFICES ASSUME ~ Rewritten(binary, args, j) PROVE FALSE
    OBVIOUS
  <2>1. outs[j] = args[j]
    BY <1>2 DEF SentFor
  <2>2. j \in words(args)
    BY <1>2, <2>1
  <2>3. words(args) \subseteq words(outs)
    <3> SUFFICES ASSUME NEW i \in words(args) PROVE ~ IsFlag(outs[i])
      BY <1>0
    <3>1. args[i][1] \notin Prefixes(binary)
      BY WordsHaveNoPrefix
    <3>2. CASE Rewritten(binary, args, i)
      <4>1. outs[i][1] = Missing
        BY <3>1, <3>2 DEF SentFor
      <4> QED
        BY <4>1 DEF IsFlag
    <3>3. CASE ~ Rewritten(binary, args, i)
      <4>1. outs[i] = args[i]
        BY <3>3 DEF SentFor
      <4> QED
        BY <4>1
    <3> QED
      BY <3>2, <3>3
  <2> DEFINE x == Binding(0 + j + 1, Missing, args[j])
  <2>4. x \in PositionalOutputs(binary, args, 0)
    <3>1. CASE binary = "touch"
      BY <2>2, <3>1 DEF PositionalOutputs, Binding
    <3>2. CASE binary = "cp" /\ \A i \in words(outs) : i <= j
      <4>1. \A i \in words(args) : i <= j
        BY <2>3, <3>2
      <4> QED
        BY <2>2, <3>2, <4>1 DEF PositionalOutputs, Binding
    <3> QED
      BY <1>1, <3>1, <3>2
  <2>5. x.index = j + 1
    BY DEF Binding
  <2> HIDE DEF x
  <2> QED
    BY <2>4, <2>5 DEF Rewritten, Bindings
<1> QED
  BY <1>2, <1>3, <1>4 DEF SentFor, Inside

\* So everything that is sent names provider paths.
LEMMA SentInside ==
    ASSUME NEW binary, NEW args, NEW outs, SentFor(binary, args, outs)
    PROVE  \A b \in Bindings(binary, outs, 0) : Inside(b)
<1>0. Len(args) \in Nat /\ Len(outs) \in Nat
  BY DEF SentFor
<1>1. PICK g : ScanOf(binary, args, 0, g) /\ FlagOutputs(binary, args, 0) = g[1]
  BY <1>0, FlagScan
<1>2. PICK h : ScanOf(binary, outs, 0, h) /\ FlagOutputs(binary, outs, 0) = h[1]
  BY <1>0, FlagScan
<1>3. \A b \in h[1] : Inside(b)
  BY <1>1, <1>2, SentScan
<1> QED
  BY <1>2, <1>3, SentWords DEF Bindings

-----------------------------------------------------------------------------
(* The property of one command.                                              *)

\* The provider has a path for every output of the command.
HasPlaces(argv) ==
    \A b \in OutputBindings(argv) : b.index # 0 => b.path[2] \in DOMAIN Provided

\* The assumption on commands, in the terms above.
LEMMA CommandsAreCommands ==
    ASSUME NEW argv \in Commands
    PROVE  IsCommand(argv) /\ HasPlaces(argv)
<1>1. argv \in Seq(STRING \X STRING) /\ argv # <<>> /\ argv[1][1] = Missing /\ argv[1] # Word("sudo")
  BY PolicyAssumption
<1>2. HasPlaces(argv)
  BY PolicyAssumption DEF HasPlaces
<1>3. STRING \X STRING \subseteq Tokens
  BY DEF Tokens
<1>4. argv \in Seq(Tokens)
  BY <1>1, <1>3, SeqMonotonic
<1> QED
  BY <1>1, <1>2, <1>4 DEF IsCommand

\* What is sent for the arguments of a command.
LEMMA SentForCommand ==
    ASSUME NEW argv, IsCommand(argv), HasPlaces(argv)
    PROVE  SentFor(argv[1][2], Tail(argv), Tail(Rewrite(argv)))
<1> DEFINE sent == Rewrite(argv)
           binary == argv[1][2]
           args == Tail(argv)
           outs == Tail(sent)
           n == Len(argv)
<1>1. n \in Nat /\ n >= 1 /\ DOMAIN argv = 1..n
  <2>1. argv \in Seq(Tokens) /\ n \in Nat /\ n >= 1
    BY CommandShape
  <2> QED
    BY <2>1, LenProperties
<1>2. Holds(argv, argv, 0)
  BY CommandHolds
<1>3. IsCommand(sent) /\ Len(sent) = n
  BY SentIsCommand DEF HasPlaces
<1>4. /\ Len(args) \in Nat /\ n = Len(args) + 1
      /\ \A i \in 1..Len(args) : args[i] = argv[i + 1]
  BY Arguments
<1>5. OutputBindings(argv) = Bindings(binary, args, 0)
  BY <1>2, OutputsOf
<1> HIDE DEF sent, args
<1>6. /\ Len(outs) \in Nat /\ n = Len(outs) + 1
      /\ \A i \in 1..Len(outs) : outs[i] = sent[i + 1]
  BY <1>3, Arguments
<1> HIDE DEF outs
<1>7. ASSUME NEW j \in 1..Len(args)
      PROVE  /\ Rewritten(binary, args, j) =>
                  /\ outs[j][2] \in ProviderValues /\ outs[j][2] # Missing
                  /\ outs[j][1] # Missing =>
                        outs[j][1] = args[j][1] /\ args[j][1] \in Prefixes(binary)
             /\ ~ Rewritten(binary, args, j) => outs[j] = args[j]
  <2>1. outs[j] = sent[j + 1] /\ args[j] = argv[j + 1] /\ j + 1 \in DOMAIN argv /\ j + 1 # 0
    BY <1>1, <1>4, <1>6
  <2>2. CASE Rewritten(binary, args, j)
    <3>1. PICK b \in OutputBindings(argv) : b.index = j + 1
      BY <1>5, <2>2 DEF Rewritten
    <3>2. b.index # 0
      BY <2>1, <3>1
    <3>3. Rewrite(argv)[b.index] = <<b.prefix, Provided[b.path[2]]>>
      BY <1>2, <3>2, RewriteAt
    <3>4. outs[j] = <<b.prefix, Provided[b.path[2]]>>
      BY <2>1, <3>1, <3>3 DEF sent
    <3>5. b.path[2] \in DOMAIN Provided
      BY <3>2 DEF HasPlaces
    <3>6. Provided[b.path[2]] # Missing /\ Provided[b.path[2]] \in ProviderValues
      BY <3>5, PolicyAssumption DEF ProviderValues, Range
    <3>7. Names(binary, argv[b.index], b)
      BY <1>2, <3>2, OutputIsArgument
    <3>8. b.prefix # Missing => b.prefix = args[j][1] /\ args[j][1] \in Prefixes(binary)
      BY <2>1, <3>1, <3>7 DEF Names
    <3>9. outs[j][1] = b.prefix /\ outs[j][2] = Provided[b.path[2]]
      BY <3>4
    <3> QED
      BY <2>2, <3>6, <3>8, <3>9
  <2>3. CASE ~ Rewritten(binary, args, j)
    <3>1. \A b \in OutputBindings(argv) : b.index # j + 1
      BY <1>5, <2>3 DEF Rewritten
    <3>2. Rewrite(argv)[j + 1] = argv[j + 1]
      BY <2>1, <3>1, RewriteElsewhere
    <3> QED
      BY <2>1, <2>3, <3>2 DEF sent
  <2> QED
    BY <2>2, <2>3
<1>8. SentFor(binary, args, outs)
  <2> HIDE DEF binary
  <2> QED
    BY <1>1, <1>4, <1>6, <1>7 DEF SentFor
<1> QED
  BY <1>8 DEF outs, args, sent

\* The outputs of what is sent are provider paths.
LEMMA SentOutputs ==
    ASSUME NEW argv, IsCommand(argv), HasPlaces(argv),
           NEW b \in OutputBindings(Rewrite(argv))
    PROVE  Inside(b)
<1> DEFINE sent == Rewrite(argv)
<1>1. IsCommand(sent) /\ sent[1] = argv[1]
  BY SentIsCommand DEF HasPlaces
<1>2. SentFor(argv[1][2], Tail(argv), Tail(sent))
  BY SentForCommand
<1> HIDE DEF sent
<1>3. OutputBindings(sent) = Bindings(argv[1][2], Tail(sent), 0)
  BY <1>1, CommandHolds, OutputsOf
<1> QED
  BY <1>2, <1>3, SentInside DEF sent

\* What makes a command destructive, and what makes it write.
Destroys(argv) ==
    \/ argv[1][2] \in Destructive
    \/ Flag("--force") \in Range(Tail(argv))
    \/ Range(argv) \cap ControlTokens # {}

Writes(argv) == OutputBindings(argv) # {} \/ argv[1][2] \in WriteBinaries

\* How risky a command is, alone and behind a prefix.
LEMMA Risk ==
    ASSUME NEW argv, IsCommand(argv)
    PROVE  /\ Destroys(argv) => Classify(argv) = "DESTRUCTIVE"
           /\ ~ Destroys(argv) /\ Writes(argv) => Classify(argv) = "WRITE"
           /\ ~ Destroys(argv) /\ ~ Writes(argv) => Classify(argv) = "READ"
           /\ \A p \in SudoPrefixes :
                 Classify(p \o argv) = IF Destroys(argv) THEN "DESTRUCTIVE" ELSE "WRITE"
<1>1. argv # <<>> /\ Inner(argv) = argv
  BY NotBehindSudo DEF IsCommand
<1>2. ~ StripSudo(argv)[1]
  <2>1. StripSudo(argv) = <<FALSE, 0>>
    BY NotBehindSudo
  <2>2. ~ <<FALSE, 0>>[1]
    OBVIOUS
  <2> QED
    BY <2>1, <2>2
<1>3. ASSUME NEW p \in SudoPrefixes
      PROVE  Classify(p \o argv) = IF Destroys(argv) THEN "DESTRUCTIVE" ELSE "WRITE"
  <2>1. StripSudo(p \o argv) = <<TRUE, Len(p)>> /\ Inner(p \o argv) = argv
    BY BehindSudo
  <2>2. StripSudo(p \o argv)[1]
    <3>1. <<TRUE, Len(p)>>[1]
      OBVIOUS
    <3> QED
      BY <2>1, <3>1
  <2> QED
    BY <1>1, <2>1, <2>2 DEF Classify, Destroys
<1> QED
  BY <1>1, <1>2, <1>3 DEF Classify, Destroys, Writes

\* What is sent is not riskier than the command.
LEMMA SentRisk ==
    ASSUME NEW argv, IsCommand(argv), HasPlaces(argv)
    PROVE  RiskRank[Classify(Rewrite(argv))] <= RiskRank[Classify(argv)]
<1> DEFINE sent == Rewrite(argv)
           n == Len(argv)
<1>1. IsCommand(sent) /\ Len(sent) = n /\ sent[1] = argv[1]
  BY SentIsCommand DEF HasPlaces
<1>2. n \in Nat /\ n >= 1 /\ DOMAIN argv = 1..n
  <2>1. argv \in Seq(Tokens) /\ n \in Nat /\ n >= 1
    BY CommandShape
  <2> QED
    BY <2>1, LenProperties
<1>3. Holds(argv, argv, 0)
  BY CommandHolds
<1>4. ASSUME NEW i \in 1..n
      PROVE  sent[i] = argv[i] \/ sent[i] \notin ControlTokens \cup {Flag("--force")}
  <2>1. CASE \A b \in OutputBindings(argv) : b.index # i
    BY <1>2, <2>1, RewriteElsewhere
  <2>2. CASE \E b \in OutputBindings(argv) : b.index = i
    <3>1. PICK b \in OutputBindings(argv) : b.index = i
      BY <2>2
    <3>2. b.index # 0
      BY <3>1
    <3>3. sent[i] = <<b.prefix, Provided[b.path[2]]>>
      <4>1. Rewrite(argv)[b.index] = <<b.prefix, Provided[b.path[2]]>>
        BY <1>3, <3>2, RewriteAt
      <4> QED
        BY <3>1, <4>1
    <3>4. Provided[b.path[2]] # Missing
      BY <3>2, PolicyAssumption DEF HasPlaces
    <3>5. b.prefix # ">"
      <4>1. b.prefix # Missing => b.prefix \in Prefixes(argv[1][2])
        BY <1>3, <3>2, OutputIsArgument DEF Names
      <4> QED
        BY <4>1, FlagNames DEF Prefixes
    <3> HIDE DEF sent
    <3>6. sent[i][1] # ">" /\ sent[i][2] # Missing
      BY <3>3, <3>4, <3>5
    <3> QED
      BY <3>6 DEF ControlTokens, Flag
  <2> QED
    BY <2>1, <2>2
<1>5. OutputBindings(argv) = {} => sent = argv
  <2> SUFFICES ASSUME OutputBindings(argv) = {} PROVE sent = argv
    OBVIOUS
  <2>1. ASSUME NEW i \in 1..n PROVE sent[i] = argv[i]
    BY <1>2, RewriteElsewhere
  <2> HIDE DEF sent
  <2>2. sent \in Seq(Tokens) /\ argv \in Seq(Tokens)
    BY <1>1 DEF IsCommand
  <2> QED
    BY <1>1, <2>1, <2>2, SeqEqual
<1> HIDE DEF sent
<1>6. Destroys(sent) => Destroys(argv)
  <2>1. CASE sent[1][2] \in Destructive
    BY <1>1, <2>1 DEF Destroys
  <2>2. CASE Flag("--force") \in Range(Tail(sent))
    <3>1. /\ Len(Tail(sent)) \in Nat /\ n = Len(Tail(sent)) + 1
          /\ Tail(sent) \in Seq(Tokens)
          /\ \A i \in 1..Len(Tail(sent)) : Tail(sent)[i] = sent[i + 1]
      BY <1>1, Arguments
    <3>2. /\ Len(Tail(argv)) \in Nat /\ n = Len(Tail(argv)) + 1
          /\ Tail(argv) \in Seq(Tokens)
          /\ \A i \in 1..Len(Tail(argv)) : Tail(argv)[i] = argv[i + 1]
      BY Arguments
    <3>3. DOMAIN Tail(sent) = 1..Len(Tail(sent)) /\ DOMAIN Tail(argv) = 1..Len(Tail(argv))
      BY <3>1, <3>2, LenProperties
    <3>4. PICK i \in 1..Len(Tail(sent)) : Tail(sent)[i] = Flag("--force")
      BY <2>2, <3>3 DEF Range
    <3>5. i \in 1..Len(Tail(argv)) /\ i + 1 \in 1..n
      BY <3>1, <3>2
    <3>6. Tail(argv)[i] = Flag("--force")
      BY <1>4, <3>1, <3>2, <3>4, <3>5
    <3>7. Flag("--force") \in Range(Tail(argv))
      BY <3>3, <3>5, <3>6 DEF Range
    <3> QED
      BY <3>7 DEF Destroys
  <2>3. CASE Range(sent) \cap ControlTokens # {}
    <3>1. DOMAIN sent = 1..n
      <4>1. sent \in Seq(Tokens)
        BY <1>1 DEF IsCommand
      <4> QED
        BY <1>1, <4>1, LenProperties
    <3>2. PICK i \in 1..n : sent[i] \in ControlTokens
      BY <2>3, <3>1 DEF Range
    <3>3. argv[i] \in ControlTokens
      BY <1>4, <3>2
    <3>4. Range(argv) \cap ControlTokens # {}
      BY <1>2, <3>3 DEF Range
    <3> QED
      BY <3>4 DEF Destroys
  <2> QED
    BY <2>1, <2>2, <2>3 DEF Destroys
<1>7. Writes(sent) => Writes(argv)
  BY <1>1, <1>5 DEF Writes
<1>8. /\ Destroys(argv) => Classify(argv) = "DESTRUCTIVE"
      /\ ~ Destroys(argv) /\ Writes(argv) => Classify(argv) = "WRITE"
      /\ ~ Destroys(argv) /\ ~ Writes(argv) => Classify(argv) = "READ"
  BY Risk
<1>9. /\ Destroys(sent) => Classify(sent) = "DESTRUCTIVE"
      /\ ~ Destroys(sent) /\ Writes(sent) => Classify(sent) = "WRITE"
      /\ ~ Destroys(sent) /\ ~ Writes(sent) => Classify(sent) = "READ"
  BY <1>1, Risk
<1>10. RiskRank["READ"] = 0 /\ RiskRank["WRITE"] = 1 /\ RiskRank["DESTRUCTIVE"] = 2
  BY DEF RiskRank
<1>11. RiskRank[Classify(sent)] <= RiskRank[Classify(argv)]
  BY <1>6, <1>7, <1>8, <1>9, <1>10
<1> QED
  BY <1>11 DEF sent

\* Sudo in front changes neither the target nor makes the decision more lenient.
LEMMA SudoDecision ==
    ASSUME NEW argv, IsCommand(argv), NEW p \in SudoPrefixes
    PROVE  /\ RequiresTarget(p \o argv) <=> RequiresTarget(argv)
           /\ \A m \in Modes : Strictness[ModeDecision(m, Classify(p \o argv))]
                                 >= Strictness[ModeDecision(m, Classify(argv))]
<1>1. RequiresTarget(p \o argv) <=> RequiresTarget(argv)
  <2>1. Inner(p \o argv) = argv /\ Inner(argv) = argv
    BY BehindSudo, NotBehindSudo
  <2> QED
    BY <2>1 DEF RequiresTarget
<1>2. ASSUME NEW m \in Modes
      PROVE  Strictness[ModeDecision(m, Classify(p \o argv))]
               >= Strictness[ModeDecision(m, Classify(argv))]
  <2>1. \/ Classify(argv) = "DESTRUCTIVE" /\ Classify(p \o argv) = "DESTRUCTIVE"
        \/ Classify(argv) \in {"READ", "WRITE"} /\ Classify(p \o argv) = "WRITE"
    BY Risk
  <2>2. Strictness["allow"] = 0 /\ Strictness["approve"] = 1 /\ Strictness["deny"] = 2
    BY DEF Strictness
  <2> QED
    BY <2>1, <2>2 DEF ModeDecision, Modes
<1> QED
  BY <1>1, <1>2

-----------------------------------------------------------------------------
(* The specification.                                                        *)

\* What is decided about a command is what the policy says of it.
PolicyInv ==
    /\ cmd \in [argv : Commands, verdict : {"new", "accepted", "refused"},
                risk : {"READ", "WRITE", "DESTRUCTIVE"}, sent : Seq(Tokens)]
    /\ cmd.verdict = "accepted" =>
          cmd.risk = Classify(cmd.argv) /\ cmd.sent = Rewrite(cmd.argv)

\* PolicyInv holds of a command that is given.
LEMMA PolicyStarts == PolicyInit => PolicyInv
<1> SUFFICES ASSUME PolicyInit PROVE PolicyInv
  OBVIOUS
<1>1. <<>> \in Seq(Tokens)
  BY EmptySeq
<1> QED
  BY <1>1 DEF PolicyInit, PolicyInv

\* PolicyInv is kept by the controller asking about it.
LEMMA PolicyKeeps == PolicyInv /\ [Submit]_cmd => PolicyInv'
<1> SUFFICES ASSUME PolicyInv, [Submit]_cmd PROVE PolicyInv'
  OBVIOUS
<1> DEFINE a == cmd.argv
<1>1. CASE UNCHANGED cmd
  BY <1>1 DEF PolicyInv
<1>2. CASE Submit /\ Check(a)
  <2>1. a \in Commands /\ IsCommand(a) /\ HasPlaces(a)
    BY CommandsAreCommands DEF PolicyInv
  <2>2. Rewrite(a) \in Seq(Tokens)
    <3>1. IsCommand(Rewrite(a))
      BY <2>1, SentIsCommand DEF HasPlaces
    <3> QED
      BY <3>1 DEF IsCommand
  <2>3. Classify(a) \in {"READ", "WRITE", "DESTRUCTIVE"}
    BY <2>1, Risk
  <2>4. cmd' = [cmd EXCEPT !.verdict = "accepted", !.risk = Classify(cmd.argv),
                           !.sent = Rewrite(cmd.argv)]
    BY <1>2 DEF Submit
  <2> QED
    BY <2>2, <2>3, <2>4 DEF PolicyInv
<1>3. CASE Submit /\ ~ Check(a)
  <2>1. cmd' = [cmd EXCEPT !.verdict = "refused"]
    BY <1>3 DEF Submit
  <2> QED
    BY <2>1 DEF PolicyInv
<1> QED
  BY <1>1, <1>2, <1>3

\* So the policy sees through a prefix, and through its own rewriting.
LEMMA PolicyImplies == PolicyInv => PolicySeesThrough
<1> SUFFICES ASSUME PolicyInv, cmd.verdict = "accepted"
             PROVE  PolicySeesThrough
  BY DEF PolicySeesThrough, SudoIsTransparent, SentWritesInside
<1> DEFINE a == cmd.argv
<1>1. IsCommand(a) /\ HasPlaces(a) /\ cmd.risk = Classify(a) /\ cmd.sent = Rewrite(a)
  BY CommandsAreCommands DEF PolicyInv
<1> HIDE DEF a
<1>2. ASSUME NEW p \in SudoPrefixes
      PROVE  /\ RequiresTarget(p \o a) <=> RequiresTarget(a)
             /\ Rewrite(p \o a) = p \o cmd.sent
             /\ \A m \in Modes : Strictness[ModeDecision(m, Classify(p \o a))]
                                   >= Strictness[ModeDecision(m, cmd.risk)]
  <2>1. Rewrite(p \o a) = p \o Rewrite(a)
    BY <1>1, RewriteBehindSudo DEF HasPlaces
  <2>2. /\ RequiresTarget(p \o a) <=> RequiresTarget(a)
        /\ \A m \in Modes : Strictness[ModeDecision(m, Classify(p \o a))]
                              >= Strictness[ModeDecision(m, Classify(a))]
    BY <1>1, SudoDecision
  <2> QED
    BY <1>1, <2>1, <2>2
<1>3. SudoIsTransparent
  BY <1>2 DEF SudoIsTransparent, a
<1>4. \A b \in OutputBindings(Rewrite(a)) : b.index # 0 => b.path[2] \in ProviderValues
  BY <1>1, SentOutputs DEF Inside
<1>5. RiskRank[Classify(Rewrite(a))] <= RiskRank[Classify(a)]
  BY <1>1, SentRisk
<1>6. SentWritesInside
  BY <1>1, <1>4, <1>5 DEF SentWritesInside
<1> QED
  BY <1>3, <1>6 DEF PolicySeesThrough

\* For any commands and any provider paths: sudo and its options in front of a
\* command change neither its outputs nor its target nor make the decision about
\* it more lenient, and what a provider is sent, read again, writes to provider
\* paths only and is not riskier than what was approved.
THEOREM PolicySees == PolicySpec => []PolicySeesThrough
<1>1. PolicySpec => []PolicyInv
  BY PolicyStarts, PolicyKeeps, PTL DEF PolicySpec
<1> QED
  BY <1>1, PolicyImplies, PTL
=============================================================================
