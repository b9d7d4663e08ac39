------------------------ MODULE CoordinatorInvariant ------------------------
(***************************************************************************)
(* The inductive strengthening behind the safety properties of             *)
(* Coordinator.  Each part is about one call and says what its place in    *)
(* execute already guarantees.                                             *)
(***************************************************************************)
EXTENDS Coordinator

\* Past the gate and not yet launched.
Cleared == {"authorize", "preparing", "recheck", "launch"}

\* Past the authorisation record and not yet at the terminal telemetry.
Recorded == {"preparing", "recheck", "launch", "running", "capture"}

\* What the gate and the human decided still backs a cleared call: the expiry
\* in force is no later than the request's and the grant's.
Backed(c) ==
    LET k == call[c] IN
    /\ k.pc = "approving" => k.dec = "needs_approval"
    /\ k.pc \in Cleared \cup {"approving"} =>
         /\ k.q.risk = "DESTRUCTIVE" => k.dec = "needs_approval"
         /\ k.dec # "needs_approval" => k.eff = k.exp
         /\ k.dec = "needs_approval" => k.exp # None
    /\ k.pc \in Cleared /\ k.dec = "needs_approval" =>
         /\ consent[c] # None /\ consent[c].digest = k.dig
         /\ k.eff # None /\ k.eff <= k.exp /\ k.eff <= consent[c].until

\* A request that the gate may send to a human has an expiry.
Dated(c) ==
    call[c].pc \in {"validate", "gate"} =>
        /\ call[c].eff = call[c].exp
        /\ call[c].q.risk # "READ" => call[c].exp # None

\* From the authorisation on, the trail holds it.
Authorised(c) == call[c].pc \in Recorded => HasEvent(c, "approval")

\* The moment of launch: nothing has changed since it was last looked at.
Current(c) ==
    LET k == call[c] IN
    k.pc = "launch" =>
        /\ k.mat = k.dig
        /\ k.q.prepared =>
             /\ mode # "plan" /\ Gate(k.q, mode) # "deny"
             /\ Gate(k.q, mode) = "needs_approval" => k.dec = "needs_approval"
             /\ ~ CheckRefuses

\* A launched call ends as an execution, an unlaunched one may be refused.
Truthful(c) ==
    LET k == call[c] IN
    /\ launched[c] =>
         /\ k.pc \in {"running", "capture", "finish", "done"}
         /\ k.pc \in {"capture", "finish"} =>
              k.end.status \notin {"denied", "blocked"} /\ k.end.event # "rejection"
         /\ result[c] # None => result[c].status \notin {"denied", "blocked"}
         /\ \A e \in trail[c] : e.event # "rejection"
    /\ result[c] # None => k.pc = "done"
    /\ k.pc \notin {"finish", "done"} => \A e \in trail[c] : e.event # "rejection"

\* Success is announced with its records complete.
Accounted(c) ==
    LET k == call[c] IN
    /\ k.pc = "capture" => k.value /\ k.end.event = "tool_execution"
    /\ k.pc = "finish" /\ k.end.status = "success" =>
         /\ k.end.event = "tool_execution"
         /\ HasEvent(c, "approval")
         /\ k.value => "evidence" \in kept[c]
    /\ result[c] # None /\ result[c].status = "success" =>
         /\ HasEvent(c, "approval") /\ HasEvent(c, "tool_execution")
         /\ {"log", "feedback"} \subseteq kept[c]
         /\ k.value => "evidence" \in kept[c]

CallInv(c) ==
    Backed(c) /\ Dated(c) /\ Authorised(c) /\ Current(c) /\ Truthful(c) /\ Accounted(c)

\* The inductive invariant of the coordinator: every frame of execute is at a
\* place whose guarantees hold.
CoordinatorInv == TypeOK /\ \A c \in Calls : CallInv(c)
=============================================================================
