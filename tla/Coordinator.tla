---------------------------- MODULE Coordinator ----------------------------
(***************************************************************************)
(* ExecutionCoordinator.execute of src/decode/runtime/coordinator.py with  *)
(* GovernanceGate.evaluate of src/decode/governance/gate.py: how one       *)
(* governed action is validated, authorised, prepared, launched and        *)
(* accounted for.                                                          *)
(*                                                                         *)
(* execute is a coroutine.  It gives up the event loop at three awaits:    *)
(* the approval callback ("approving"), the preparation ("preparing") and  *)
(* the operation ("running").  There, and only there, other tasks may      *)
(* change what it relies on: the gate's mode, the installed pre-execution  *)
(* check and its answer, the mutable request.  Wall-clock time passes      *)
(* everywhere.  Every write to the audit trail, the execution log, the     *)
(* feedback store and the evidence store can fail.                         *)
(*                                                                         *)
(* A request's digest is its material itself: approval_digest hashes every *)
(* field that resolved_action_error reads, so a request consistent at      *)
(* entry is inconsistent later only if its material differs.               *)
(***************************************************************************)
EXTENDS Integers, FiniteSets

CONSTANTS
    Calls,              \* calls of execute on one coordinator
    Materials,          \* values of a request's approval-bound fields
    Checks,             \* pre-execution checks that may be installed
    MaxClock,           \* bound: the model's clock stops here
    Requests,           \* the requests callers make
    TTL,                \* approval_ttl_seconds
    AllowDestructive,   \* the engagement override of the gate
    None

Times == 0..MaxClock

ASSUME CoordinatorAssumption ==
    /\ MaxClock \in Nat /\ TTL \in Nat \ {0}
    /\ AllowDestructive \in BOOLEAN
    /\ None \notin Nat /\ None \notin Checks

VARIABLES
    clock, mode,        \* wall clock; the gate's permission mode
    check, refusing,    \* installed check (or None); checks that now refuse
    call,               \* the coroutine frames
    trail,              \* per call: the audit events recorded for it
    kept,               \* per call: the other records written for it
    result,             \* per call: what the caller gets
    launched,           \* history: was the operation started?
    consent             \* history: what the human granted, or None

sinks == <<trail, kept>>
env == <<clock, mode, check, refusing>>
coordinatorVars == <<clock, mode, check, refusing, call, trail, kept, result, launched, consent>>

-----------------------------------------------------------------------------
Modes == {"plan", "ask", "auto"}
Risks == {"READ", "WRITE", "DESTRUCTIVE"}

\* obstacle  why the request is refused before governance sees it, if it is:
\*           blocked_reason, a resolved action that does not match or a
\*           pre-hook's veto ("unsupported"), or a missing dependency
\* admitted  a required target is present and the target is in scope
\* expires   an approval_expires_at the caller has already set
\* approver  an approval callback is configured
\* prepared  execute is given a preparation
AnyRequest ==
    [risk : Risks, obstacle : {"none", "unsupported", "missing_dependency"},
     admitted : BOOLEAN, expires : Times \cup {None}, approver : BOOLEAN, prepared : BOOLEAN]

Statuses == {"success", "denied", "blocked", "error", "timeout", "cancelled", "raised"}
Categories ==
    {"none", "policy_denial", "approval_required", "approval_rejected", "approval_invalid",
     "approval_expired", "missing_dependency", "timeout", "cancellation",
     "execution_failure", "telemetry_failure", "unsupported_action"}
EventKinds == {"approval", "rejection", "tool_execution"}

Awaiting == {"approving", "preparing", "running"}
Synchronous == {"validate", "gate", "authorize", "recheck", "launch", "capture", "finish"}

\* end: the terminal result under construction; its audit event, if any.
Ends == [status : Statuses, category : Categories, event : EventKinds \cup {"none"}]
NoEnd == [status |-> "error", category |-> "none", event |-> "none"]

ASSUME RequestAssumption == Requests \subseteq AnyRequest

\* What a human granted; what a caller gets.
Consents == [digest : Materials, until : Times]
Results == [status : Statuses, category : Categories]

ASSUME AbsentAssumption == None \notin Consents /\ None \notin Results

NoRequest == [risk |-> "READ", obstacle |-> "none", admitted |-> TRUE, expires |-> None,
              approver |-> FALSE, prepared |-> FALSE]

NewCall(q, m, expires) ==
    [pc |-> "validate", q |-> q, mat |-> m, dig |-> m, exp |-> expires, eff |-> expires,
     dec |-> "deny", lmode |-> "plan", lcheck |-> None, value |-> FALSE, end |-> NoEnd]

\* min over datetimes
Earlier(s, t) == IF s <= t THEN s ELSE t

-----------------------------------------------------------------------------
\* The event loop runs one task at a time.
Resumes(c) == \A o \in Calls \ {c} : call[o].pc \notin Synchronous
Quiet == \A o \in Calls : call[o].pc \notin Synchronous

At(c, pc) == call[c].pc = pc /\ Resumes(c)
Goto(c, pc) == call' = [call EXCEPT ![c].pc = pc]

\* The terminal result is settled; its telemetry follows.
End(c, status, category, event) ==
    call' = [call EXCEPT ![c].pc = "finish",
                         ![c].end = [status |-> status, category |-> category, event |-> event]]

Refuse(c, status, category) == End(c, status, category, "rejection")

\* _telemetry_unavailable: nothing more is sent to the audit trail.
Unavailable(c) == End(c, "error", "telemetry_failure", "none")

Audited(c, event, digest) ==
    trail' = [trail EXCEPT ![c] = @ \cup {[event |-> event, digest |-> digest]}]

\* GovernanceGate.evaluate
Gate(q, m) ==
    IF \/ ~ q.admitted
       \/ m = "plan"
       \/ q.risk = "DESTRUCTIVE" /\ ~ AllowDestructive
    THEN "deny"
    ELSE IF q.risk = "READ" \/ (q.risk = "WRITE" /\ m = "auto") THEN "allow"
    ELSE "needs_approval"

\* A denial the gate has recorded itself; if it could not, nothing may run.
Denied(c, audited) ==
    IF audited
    THEN Audited(c, "rejection", None) /\ End(c, "denied", "policy_denial", "none")
    ELSE Unavailable(c) /\ UNCHANGED trail

\* The installed check gives a reason, or raises.
CheckRefuses == check # None /\ check \in refusing

-----------------------------------------------------------------------------
(* The coroutine. *)

\* execute is called: a request that needs an expiry gets one, and the digest
\* of what is to be approved is taken.
Submit(c, q, m) ==
    /\ call[c].pc = "idle" /\ Quiet
    /\ call' = [call EXCEPT ![c] =
                  NewCall(q, m, IF q.risk # "READ" /\ q.expires = None THEN clock + TTL ELSE q.expires)]
    /\ UNCHANGED <<env, sinks, result, launched, consent>>

\* blocked_reason, dependency, resolved_action_error and the pre-hooks.
Validate(c) ==
    /\ At(c, "validate")
    /\ CASE call[c].q.obstacle = "none" -> Goto(c, "gate")
         [] call[c].q.obstacle = "unsupported" -> Refuse(c, "blocked", "unsupported_action")
         [] OTHER -> Refuse(c, "blocked", "missing_dependency")
    /\ UNCHANGED <<env, sinks, result, launched, consent>>

Evaluate(c, audited) ==
    /\ At(c, "gate")
    /\ LET k == call[c]
           d == Gate(k.q, mode)
       IN  CASE d = "deny" -> Denied(c, audited)
             [] d = "allow" ->
                  call' = [call EXCEPT ![c].pc = "authorize", ![c].dec = d] /\ UNCHANGED trail
             [] OTHER ->
                  /\ IF ~ k.q.approver THEN Refuse(c, "denied", "approval_required")
                     ELSE IF k.exp <= clock THEN Refuse(c, "denied", "approval_expired")
                     ELSE call' = [call EXCEPT ![c].pc = "approving", ![c].dec = d]
                  /\ UNCHANGED trail
    /\ UNCHANGED <<env, kept, result, launched, consent>>

\* The callback's answers: no (or it raised), or a grant for a digest from one
\* time until another.  A plain True is the grant for the request as asked,
\* from now until its expiry.
Grants == [digest : Materials, from : Times, until : Times]

\* The grant's own, earlier expiry is forgotten.
AnswerUntilRequestExpiry(c, g) ==
    /\ At(c, "approving")
    /\ LET k == call[c] IN
       IF g.digest # k.dig
       THEN Refuse(c, "denied", "approval_invalid") /\ UNCHANGED consent
       ELSE IF g.from > clock \/ Earlier(g.until, k.exp) <= clock
       THEN Refuse(c, "denied", "approval_expired") /\ UNCHANGED consent
       ELSE IF k.mat # k.dig
       THEN Refuse(c, "denied", "approval_invalid") /\ UNCHANGED consent
       ELSE /\ call' = [call EXCEPT ![c].pc = "authorize", ![c].eff = k.exp]
            /\ consent' = [consent EXCEPT ![c] = [digest |-> g.digest, until |-> g.until]]
    /\ UNCHANGED <<env, sinks, result, launched>>

Answer(c, g) ==
    /\ At(c, "approving")
    /\ LET k == call[c] IN
       IF g.digest # k.dig
       THEN Refuse(c, "denied", "approval_invalid") /\ UNCHANGED consent
       ELSE IF g.from > clock \/ Earlier(g.until, k.exp) <= clock
       THEN Refuse(c, "denied", "approval_expired") /\ UNCHANGED consent
       ELSE IF k.mat # k.dig
       THEN Refuse(c, "denied", "approval_invalid") /\ UNCHANGED consent
       ELSE /\ call' = [call EXCEPT ![c].pc = "authorize", ![c].eff = Earlier(g.until, k.exp)]
            /\ consent' = [consent EXCEPT ![c] = [digest |-> g.digest, until |-> g.until]]
    /\ UNCHANGED <<env, sinks, result, launched>>

Reject(c) ==
    /\ At(c, "approving")
    /\ Refuse(c, "denied", "approval_rejected")
    /\ UNCHANGED <<env, sinks, result, launched, consent>>

\* The action goes ahead although its authorisation could not be recorded.
AuthorizeUnaudited(c, audited) ==
    /\ At(c, "authorize")
    /\ LET k == call[c] IN
       IF k.mat # k.dig \/ CheckRefuses
       THEN Refuse(c, "blocked", "unsupported_action") /\ UNCHANGED trail
       ELSE /\ IF audited THEN Audited(c, "approval", k.dig) ELSE UNCHANGED trail
            /\ call' = [call EXCEPT ![c].pc = IF k.q.prepared THEN "preparing" ELSE "launch",
                                    ![c].lmode = mode, ![c].lcheck = check]
    /\ UNCHANGED <<env, kept, result, launched, consent>>

\* The last checks before the authorisation is recorded, and the record.
Authorize(c, audited) ==
    /\ At(c, "authorize")
    /\ LET k == call[c] IN
       IF k.mat # k.dig \/ CheckRefuses
       THEN Refuse(c, "blocked", "unsupported_action") /\ UNCHANGED trail
       ELSE IF ~ audited THEN Unavailable(c) /\ UNCHANGED trail
       ELSE /\ Audited(c, "approval", k.dig)
            /\ call' = [call EXCEPT ![c].pc = IF k.q.prepared THEN "preparing" ELSE "launch",
                                    ![c].lmode = mode, ![c].lcheck = check]
    /\ UNCHANGED <<env, kept, result, launched, consent>>

\* After an awaited preparation only the material is compared again.
RecheckMaterial(c, audited) ==
    /\ At(c, "recheck")
    /\ IF call[c].mat # call[c].dig THEN Refuse(c, "blocked", "unsupported_action")
       ELSE Goto(c, "launch")
    /\ UNCHANGED <<env, sinks, result, launched, consent>>

\* After an awaited preparation everything is looked at again.
Recheck(c, audited) ==
    /\ At(c, "recheck")
    /\ LET k == call[c]
           d == Gate(k.q, mode)
       IN  IF \/ k.mat # k.dig
              \/ check # k.lcheck \/ mode # k.lmode
              \/ CheckRefuses
           THEN Refuse(c, "blocked", "unsupported_action") /\ UNCHANGED trail
           ELSE IF d = "deny" THEN Denied(c, audited)
           ELSE IF d = "needs_approval" /\ k.dec # "needs_approval"
           THEN Refuse(c, "blocked", "unsupported_action") /\ UNCHANGED trail
           ELSE Goto(c, "launch") /\ UNCHANGED trail
    /\ UNCHANGED <<env, kept, result, launched, consent>>

\* The expiry is looked at once the operation is already running.
LaunchThenCheck(c) ==
    /\ At(c, "launch")
    /\ launched' = [launched EXCEPT ![c] = TRUE]
    /\ IF call[c].eff # None /\ call[c].eff <= clock
       THEN Refuse(c, "denied", "approval_expired")
       ELSE Goto(c, "running")
    /\ UNCHANGED <<env, sinks, result, consent>>

\* The operation is started unless the approval has expired meanwhile.
Launch(c) ==
    /\ At(c, "launch")
    /\ IF call[c].eff # None /\ call[c].eff <= clock
       THEN Refuse(c, "denied", "approval_expired") /\ UNCHANGED launched
       ELSE Goto(c, "running") /\ launched' = [launched EXCEPT ![c] = TRUE]
    /\ UNCHANGED <<env, sinks, result, consent>>

\* What an awaited coroutine comes back with: nothing, a value that says
\* success, failure or timed out, or a TimeoutError or other exception.
Returns == {"nothing", "success", "failure", "timed_out", "timeout", "raises"}
HasValue == {"success", "failure", "timed_out"}
StatusOf == [nothing |-> "success", success |-> "success", failure |-> "error",
             timed_out |-> "timeout", timeout |-> "timeout", raises |-> "error"]
CategoryOf == [nothing |-> "none", success |-> "none", failure |-> "execution_failure",
               timed_out |-> "timeout", timeout |-> "timeout", raises |-> "execution_failure"]

\* The result of an awaited coroutine; a value is protected before anything
\* is reported.
Returned(c, v) ==
    call' = [call EXCEPT
        ![c].pc = IF v \in HasValue THEN "capture" ELSE "finish",
        ![c].value = v \in HasValue,
        ![c].end = [status |-> StatusOf[v], category |-> CategoryOf[v], event |-> "tool_execution"]]

\* A preparation that returns a value, or raises, ends the call in its place.
Prepared(c, v) ==
    /\ At(c, "preparing")
    /\ IF v = "nothing" THEN Goto(c, "recheck") ELSE Returned(c, v)
    /\ UNCHANGED <<env, sinks, result, launched, consent>>

Complete(c, v) ==
    /\ At(c, "running")
    /\ Returned(c, v)
    /\ UNCHANGED <<env, sinks, result, launched, consent>>

\* The task is cancelled at an await.  During approval nothing is recorded.
Cancel(c) ==
    /\ call[c].pc \in Awaiting /\ Quiet
    /\ IF call[c].pc = "approving"
       THEN /\ Goto(c, "done")
            /\ result' = [result EXCEPT ![c] = [status |-> "raised", category |-> "none"]]
       ELSE /\ End(c, "cancelled", "cancellation", "tool_execution")
            /\ UNCHANGED result
    /\ UNCHANGED <<env, sinks, launched, consent>>

\* A failed capture is ignored.
CaptureIgnored(c, stored) ==
    /\ At(c, "capture")
    /\ Goto(c, "finish")
    /\ kept' = IF stored THEN [kept EXCEPT ![c] = @ \cup {"evidence"}] ELSE kept
    /\ UNCHANGED <<env, trail, result, launched, consent>>

\* _capture_evidence
Capture(c, stored) ==
    /\ At(c, "capture")
    /\ IF stored
       THEN Goto(c, "finish") /\ kept' = [kept EXCEPT ![c] = @ \cup {"evidence"}]
       ELSE End(c, "error", "telemetry_failure", "tool_execution") /\ UNCHANGED kept
    /\ UNCHANGED <<env, trail, result, launched, consent>>

\* _record_terminal and _record_non_audit_telemetry, with the writes that are
\* lost.  The cancellation path does not look at what they return.
RecordTerminal(c, lost) ==
    /\ At(c, "finish")
    /\ LET e == call[c].end
           failed == \/ lost \cap {"log", "feedback"} # {}
                     \/ "audit" \in lost /\ e.event # "none"
       IN  /\ IF e.event # "none" /\ "audit" \notin lost
              THEN Audited(c, e.event, call[c].dig)
              ELSE UNCHANGED trail
           /\ kept' = [kept EXCEPT ![c] = @ \cup ({"log", "feedback"} \ lost)]
           /\ result' = [result EXCEPT ![c] =
                 IF failed /\ e.status # "cancelled"
                 THEN [status |-> "error", category |-> "telemetry_failure"]
                 ELSE [status |-> e.status, category |-> e.category]]
    /\ Goto(c, "done")
    /\ UNCHANGED <<env, launched, consent>>

-----------------------------------------------------------------------------
(* The rest of the process.  It matters while some call awaits: between     *)
(* calls it is part of the arbitrary initial state.                          *)

Elsewhere == Quiet /\ \E c \in Calls : call[c].pc \in Awaiting

Tick ==
    /\ clock < MaxClock
    /\ \E c \in Calls : call[c].pc \notin {"idle", "done"}
    /\ clock' = clock + 1
    /\ UNCHANGED <<mode, check, refusing, call, sinks, result, launched, consent>>

\* set_mode
SetMode(m) ==
    /\ Elsewhere
    /\ mode' = m
    /\ UNCHANGED <<clock, check, refusing, call, sinks, result, launched, consent>>

\* set_pre_execution_check
SetPreExecutionCheck(k) ==
    /\ Elsewhere
    /\ check' = k
    /\ UNCHANGED <<clock, mode, refusing, call, sinks, result, launched, consent>>

\* What a check looks at has changed.
ChangeAnswer(k) ==
    /\ Elsewhere
    /\ refusing' = IF k \in refusing THEN refusing \ {k} ELSE refusing \cup {k}
    /\ UNCHANGED <<clock, mode, check, call, sinks, result, launched, consent>>

\* Whoever holds the request object changes an approval-bound field.
Mutate(c, m) ==
    /\ Quiet
    /\ call[c].pc \in Awaiting
    /\ call' = [call EXCEPT ![c].mat = m]
    /\ UNCHANGED <<env, sinks, result, launched, consent>>

CoordinatorInit ==
    /\ clock = 0
    /\ mode \in Modes
    /\ check \in Checks \cup {None}
    /\ refusing \in SUBSET Checks
    /\ \E m \in Materials :
         call = [c \in Calls |-> [NewCall(NoRequest, m, None) EXCEPT !.pc = "idle"]]
    /\ trail = [c \in Calls |-> {}]
    /\ kept = [c \in Calls |-> {}]
    /\ result = [c \in Calls |-> None]
    /\ launched = [c \in Calls |-> FALSE]
    /\ consent = [c \in Calls |-> None]

Execute(c) ==
    \/ call[c].pc = "idle" /\ \E q \in Requests, m \in Materials : Submit(c, q, m)
    \/ Validate(c)
    \/ \E ok \in BOOLEAN : Evaluate(c, ok)
    \/ \E g \in Grants : Answer(c, g)
    \/ Reject(c)
    \/ \E ok \in BOOLEAN : Authorize(c, ok)
    \/ \E v \in Returns : Prepared(c, v)
    \/ \E ok \in BOOLEAN : Recheck(c, ok)
    \/ Launch(c)
    \/ \E v \in Returns : Complete(c, v)
    \/ Cancel(c)
    \/ \E ok \in BOOLEAN : Capture(c, ok)
    \/ \E lost \in SUBSET {"audit", "log", "feedback"} : RecordTerminal(c, lost)

Environment ==
    \/ Tick
    \/ \E m \in Modes : SetMode(m)
    \/ \E k \in Checks \cup {None} : SetPreExecutionCheck(k)
    \/ \E k \in Checks : ChangeAnswer(k)
    \/ \E c \in Calls, m \in Materials : Mutate(c, m)

CoordinatorNext == (\E c \in Calls : Execute(c)) \/ Environment

CoordinatorSpec == CoordinatorInit /\ [][CoordinatorNext]_coordinatorVars

-----------------------------------------------------------------------------
(* Correctness. *)

Frames ==
    [pc : Awaiting \cup Synchronous \cup {"idle", "done"}, q : AnyRequest,
     mat : Materials, dig : Materials, exp : Nat \cup {None}, eff : Nat \cup {None},
     dec : {"deny", "allow", "needs_approval"}, lmode : Modes, lcheck : Checks \cup {None},
     value : BOOLEAN, end : Ends]

Events == [event : EventKinds, digest : Materials \cup {None}]

\* Frames, records and results have their shape.
TypeOK ==
    /\ clock \in Nat /\ mode \in Modes
    /\ check \in Checks \cup {None} /\ refusing \subseteq Checks
    /\ call \in [Calls -> Frames]
    /\ trail \in [Calls -> SUBSET Events]
    /\ kept \in [Calls -> SUBSET {"evidence", "log", "feedback"}]
    /\ result \in [Calls -> Results \cup {None}]
    /\ launched \in [Calls -> BOOLEAN]
    /\ consent \in [Calls -> Consents \cup {None}]

HasEvent(c, event) == [event |-> event, digest |-> call[c].dig] \in trail[c]

\* An operation starts only on what was authorised: the audit trail already
\* holds the authorisation of exactly the material now in the request, no
\* approval in play has expired, and an action that needed a human has the
\* human's grant for that material, still valid at the moment of launch,
\* whatever happened at the approval and preparation awaits.
LaunchIsBound ==
    [][\A c \in Calls : launched'[c] # launched[c] =>
         LET k == call[c] IN
         /\ [event |-> "approval", digest |-> k.mat] \in trail[c]
         /\ k.exp # None => clock < k.exp
         /\ k.dec = "needs_approval" \/ k.q.risk = "DESTRUCTIVE" =>
              /\ consent[c] # None
              /\ consent[c].digest = k.mat
              /\ clock < consent[c].until]_coordinatorVars

\* docs/BRAIN_ARCHITECTURE.md: "The coordinator checks the envelope again
\* after approval and awaited executable preparation, before launch".  An
\* operation launched after a preparation obeys the restrictions in force at
\* that moment: the mode still admits it, with a human's grant if the mode now
\* asks for one, and the installed check still agrees.
PreparedLaunchIsCurrent ==
    [][\A c \in Calls : launched'[c] # launched[c] /\ call[c].q.prepared =>
         /\ Gate(call[c].q, mode) # "deny" /\ mode # "plan"
         /\ Gate(call[c].q, mode) = "needs_approval" => consent[c] # None
         /\ ~ CheckRefuses]_coordinatorVars

\* A refusal is the truth: when the caller is told "denied" or "blocked", or
\* the audit trail holds a rejection, the operation never started.
RefusedNeverRan ==
    \A c \in Calls :
        \/ result[c] # None /\ result[c].status \in {"denied", "blocked"}
        \/ \E e \in trail[c] : e.event = "rejection"
        => ~ launched[c]

\* Success is reported only for an action the records account for: an
\* authorisation and an execution of the same digest in the audit trail, a log
\* entry, feedback, and protected evidence of any value it returned.
SuccessIsAccounted ==
    \A c \in Calls :
        result[c] # None /\ result[c].status = "success" =>
            /\ HasEvent(c, "approval") /\ HasEvent(c, "tool_execution")
            /\ {"log", "feedback"} \subseteq kept[c]
            /\ call[c].value => "evidence" \in kept[c]

\* The class promises "mandatory telemetry" (coordinator.py:451), and README.md
\* "fail-closed behavior when required safety services fail": a call that
\* launched and ended without its audit, log and feedback records tells the
\* caller so.
TelemetryLossIsReported ==
    \A c \in Calls :
        /\ result[c] # None /\ launched[c]
        /\ ~ HasEvent(c, "tool_execution") \/ ~ {"log", "feedback"} \subseteq kept[c]
        => result[c].category = "telemetry_failure"
=============================================================================
