------------------------- MODULE CoordinatorProofs -------------------------
(***************************************************************************)
(* CoordinatorInv is inductive, and what follows from it, for every set of *)
(* concurrent calls, requests, materials and checks.                       *)
(***************************************************************************)
EXTENDS CoordinatorInvariant, TLAPS

\* The frame of a call after End, whoever settles on the result.
LEMMA EndFrame ==
    ASSUME TypeOK, NEW c \in Calls, NEW status \in Statuses, NEW category \in Categories,
           NEW event \in EventKinds \cup {"none"}, End(c, status, category, event)
    PROVE  /\ call' \in [Calls -> Frames]
           /\ call'[c] = [call[c] EXCEPT !.pc = "finish",
                            !.end = [status |-> status, category |-> category, event |-> event]]
           /\ \A o \in Calls \ {c} : call'[o] = call[o]
<1> DEFINE e == [status |-> status, category |-> category, event |-> event]
           k == [call[c] EXCEPT !.pc = "finish", !.end = e]
<1>1. call[c] \in Frames /\ call \in [Calls -> Frames] BY DEF TypeOK
<1>2. e \in Ends BY DEF Ends
<1>3. "finish" \in Awaiting \cup Synchronous \cup {"idle", "done"} BY DEF Synchronous
<1>4. k \in Frames
  <2> HIDE DEF e
  <2> QED BY <1>1, <1>2, <1>3 DEF Frames
<1>5. call' = [call EXCEPT ![c] = k] BY <1>1 DEF End
<1> HIDE DEF k
<1>6. /\ call' \in [Calls -> Frames] /\ call'[c] = k
      /\ \A o \in Calls \ {c} : call'[o] = call[o]
  BY <1>1, <1>4, <1>5
<1>7. QED BY <1>6 DEF k

\* The frame of a call that moves on.
LEMMA GotoFrame ==
    ASSUME TypeOK, NEW c \in Calls, NEW pc \in Awaiting \cup Synchronous \cup {"idle", "done"},
           Goto(c, pc)
    PROVE  /\ call' \in [Calls -> Frames]
           /\ call'[c] = [call[c] EXCEPT !.pc = pc]
           /\ \A o \in Calls \ {c} : call'[o] = call[o]
<1> DEFINE k == [call[c] EXCEPT !.pc = pc]
<1>1. call[c] \in Frames /\ call \in [Calls -> Frames] BY DEF TypeOK
<1>2. k \in Frames
  <2> HIDE DEF k
  <2>1. k = [call[c] EXCEPT !.pc = pc] BY DEF k
  <2> DEFINE P == Awaiting \cup Synchronous \cup {"idle", "done"}
  <2>2. pc \in P OBVIOUS
  <2>3. QED BY <1>1, <2>1, <2>2 DEF Frames
<1>3. call' = [call EXCEPT ![c] = k] BY <1>1 DEF Goto
<1> HIDE DEF k
<1>4. /\ call' \in [Calls -> Frames] /\ call'[c] = k
      /\ \A o \in Calls \ {c} : call'[o] = call[o]
  BY <1>1, <1>2, <1>3
<1>5. QED BY <1>4 DEF k

\* An audit record for one call.
LEMMA AuditFrame ==
    ASSUME TypeOK, NEW c \in Calls, NEW event \in EventKinds,
           NEW digest \in Materials \cup {None}, Audited(c, event, digest)
    PROVE  /\ trail' \in [Calls -> SUBSET Events]
           /\ trail'[c] = trail[c] \cup {[event |-> event, digest |-> digest]}
           /\ \A o \in Calls \ {c} : trail'[o] = trail[o]
  BY DEF TypeOK, Audited, Events

\* The words used by the actions are statuses, categories and so on.
LEMMA Words ==
    /\ \A w \in {"success", "denied", "blocked", "error", "timeout", "cancelled", "raised"} :
          w \in Statuses
    /\ \A w \in {"none", "policy_denial", "approval_required", "approval_rejected",
                 "approval_invalid", "approval_expired", "missing_dependency", "timeout",
                 "cancellation", "execution_failure", "telemetry_failure",
                 "unsupported_action"} : w \in Categories
    /\ \A w \in {"approval", "rejection", "tool_execution"} : w \in EventKinds
    /\ \A w \in {"idle", "done", "validate", "gate", "authorize", "recheck", "launch",
                 "capture", "finish", "approving", "preparing", "running"} :
          w \in Awaiting \cup Synchronous \cup {"idle", "done"}
  BY DEF Statuses, Categories, EventKinds, Awaiting, Synchronous

\* A step of one call leaves the guarantees of the others alone.
LEMMA Assemble ==
    ASSUME CoordinatorInv, NEW c \in Calls, TypeOK', CallInv(c)',
           mode' = mode, check' = check, refusing' = refusing,
           \A o \in Calls \ {c} :
              /\ call'[o] = call[o] /\ trail'[o] = trail[o] /\ kept'[o] = kept[o]
              /\ result'[o] = result[o] /\ launched'[o] = launched[o] /\ consent'[o] = consent[o]
    PROVE  CoordinatorInv'
<1>1. SUFFICES ASSUME NEW o \in Calls \ {c} PROVE CallInv(o)'
  BY DEF CoordinatorInv
<1>2. CallInv(o) BY DEF CoordinatorInv
<1>3. Backed(o)' /\ Dated(o)' BY <1>2 DEF CallInv, Backed, Dated
<1>4. Authorised(o)' BY <1>2 DEF CallInv, Authorised, HasEvent
<1>5. Current(o)' BY <1>2 DEF CallInv, Current, Gate, CheckRefuses
<1>6. Truthful(o)' BY <1>2 DEF CallInv, Truthful
<1>7. Accounted(o)' BY <1>2 DEF CallInv, Accounted, HasEvent
<1>8. QED BY <1>3, <1>4, <1>5, <1>6, <1>7 DEF CallInv

\* A call that is refused, or whose audit service is gone, before it launched.
LEMMA Refused ==
    ASSUME CoordinatorInv, NEW c \in Calls, NEW status \in {"denied", "blocked", "error"},
           NEW category \in Categories, NEW event \in {"rejection", "none"},
           End(c, status, category, event), ~ launched[c], result[c] = None,
           trail' \in [Calls -> SUBSET Events],
           \A o \in Calls \ {c} : trail'[o] = trail[o],
           UNCHANGED <<env, kept, result, launched, consent>>
    PROVE  CoordinatorInv'
<1>1. TypeOK /\ CallInv(c) BY DEF CoordinatorInv
<1>2. /\ call' \in [Calls -> Frames]
      /\ call'[c] = [call[c] EXCEPT !.pc = "finish",
                       !.end = [status |-> status, category |-> category, event |-> event]]
      /\ \A o \in Calls \ {c} : call'[o] = call[o]
  <2>1. status \in Statuses /\ event \in EventKinds \cup {"none"} BY Words
  <2>2. QED BY <1>1, <2>1, EndFrame
<1>3. TypeOK' BY <1>1, <1>2 DEF TypeOK, env
<1>4. call'[c].pc = "finish" /\ call'[c].end.status = status
  BY <1>1, <1>2 DEF TypeOK, Frames
<1>5. CallInv(c)'
  BY <1>4 DEF CallInv, Backed, Dated, Authorised, Current, Truthful, Accounted, Cleared, Recorded
<1>6. QED BY <1>2, <1>3, <1>5, Assemble DEF env

\* execute is entered.
LEMMA SubmitStep ==
    ASSUME CoordinatorInv, NEW c \in Calls, NEW q \in Requests, NEW m \in Materials,
           Submit(c, q, m)
    PROVE  CoordinatorInv'
<1>1. TypeOK /\ CallInv(c) BY DEF CoordinatorInv
<1> DEFINE x == IF q.risk # "READ" /\ q.expires = None THEN clock + TTL ELSE q.expires
<1>2. q \in AnyRequest BY RequestAssumption
<1>3. x \in Nat \cup {None} /\ (q.risk # "READ" => x # None)
  BY <1>1, <1>2, CoordinatorAssumption DEF TypeOK, AnyRequest, Times
<1>4. NewCall(q, m, x) \in Frames
  BY <1>2, <1>3 DEF NewCall, Frames, Synchronous, Modes, Ends, NoEnd, Statuses, Categories
<1>5. call' = [call EXCEPT ![c] = NewCall(q, m, x)] BY DEF Submit
<1>6. /\ call' \in [Calls -> Frames] /\ call'[c] = NewCall(q, m, x)
      /\ \A o \in Calls \ {c} : call'[o] = call[o]
  BY <1>1, <1>4, <1>5 DEF TypeOK
<1>7. UNCHANGED <<env, sinks, result, launched, consent>> BY DEF Submit
<1>8. TypeOK' BY <1>1, <1>6, <1>7 DEF TypeOK, env, sinks
<1>9. call[c].pc = "idle" BY DEF Submit
<1>10. ~ launched[c] /\ result[c] = None BY <1>1, <1>9 DEF CallInv, Truthful
<1>11. /\ call'[c].pc = "validate" /\ call'[c].q = q
       /\ call'[c].exp = x /\ call'[c].eff = x
  BY <1>6 DEF NewCall
<1>12. CallInv(c)'
  BY <1>1, <1>3, <1>7, <1>9, <1>10, <1>11
     DEF CallInv, Backed, Dated, Authorised, Current, Truthful, Accounted, Cleared, Recorded, sinks
<1>13. QED BY <1>6, <1>7, <1>8, <1>12, Assemble DEF env, sinks

\* A call before its launch has neither launched nor returned.
LEMMA NotYet ==
    ASSUME CoordinatorInv, NEW c \in Calls,
           call[c].pc \in {"validate", "gate", "approving"} \cup Cleared
    PROVE  ~ launched[c] /\ result[c] = None
  BY DEF CoordinatorInv, CallInv, Truthful, Cleared

\* A denial by the gate, recorded or not.
LEMMA DeniedStep ==
    ASSUME CoordinatorInv, NEW c \in Calls, NEW ok \in BOOLEAN, Denied(c, ok),
           ~ launched[c], result[c] = None,
           UNCHANGED <<env, kept, result, launched, consent>>
    PROVE  CoordinatorInv'
<1>1. TypeOK BY DEF CoordinatorInv
<1>2. CASE ok
  <2>1. Audited(c, "rejection", None) /\ End(c, "denied", "policy_denial", "none")
    BY <1>2 DEF Denied
  <2>2. trail' \in [Calls -> SUBSET Events] /\ \A o \in Calls \ {c} : trail'[o] = trail[o]
    BY <1>1, <2>1, AuditFrame, Words
  <2>3. QED BY <2>1, <2>2, Refused, Words
<1>3. CASE ~ ok
  <2>1. End(c, "error", "telemetry_failure", "none") /\ UNCHANGED trail
    BY <1>3 DEF Denied, Unavailable
  <2>2. QED BY <1>1, <2>1, Refused, Words DEF TypeOK
<1>4. QED BY <1>2, <1>3

\* A refusal that leaves the trail to the terminal telemetry.
LEMMA RefuseStep ==
    ASSUME CoordinatorInv, NEW c \in Calls, NEW status \in {"denied", "blocked"},
           NEW category \in Categories, Refuse(c, status, category),
           ~ launched[c], result[c] = None,
           UNCHANGED <<env, sinks, result, launched, consent>>
    PROVE  CoordinatorInv'
<1>1. TypeOK BY DEF CoordinatorInv
<1>2. End(c, status, category, "rejection") BY DEF Refuse
<1>3. UNCHANGED trail /\ UNCHANGED <<env, kept, result, launched, consent>> BY DEF sinks
<1>4. trail' \in [Calls -> SUBSET Events] /\ \A o \in Calls \ {c} : trail'[o] = trail[o]
  BY <1>1, <1>3 DEF TypeOK
<1>5. QED BY <1>2, <1>3, <1>4, Refused

\* blocked_reason, dependency, resolved action and hooks.
LEMMA ValidateStep ==
    ASSUME CoordinatorInv, NEW c \in Calls, Validate(c)
    PROVE  CoordinatorInv'
<1>1. TypeOK /\ CallInv(c) BY DEF CoordinatorInv
<1>2. call[c].pc = "validate" /\ UNCHANGED <<env, sinks, result, launched, consent>>
  BY DEF Validate, At
<1>3. ~ launched[c] /\ result[c] = None BY <1>2, NotYet
<1>4. CASE Goto(c, "gate")
  <2>1. /\ call' \in [Calls -> Frames] /\ call'[c] = [call[c] EXCEPT !.pc = "gate"]
        /\ \A o \in Calls \ {c} : call'[o] = call[o]
    BY <1>1, <1>4, GotoFrame, Words
  <2>2. TypeOK' BY <1>1, <1>2, <2>1 DEF TypeOK, env, sinks
  <2>3. /\ call'[c].pc = "gate" /\ call'[c].q = call[c].q
        /\ call'[c].exp = call[c].exp /\ call'[c].eff = call[c].eff
    BY <1>1, <2>1 DEF TypeOK, Frames
  <2>4. CallInv(c)'
    BY <1>1, <1>2, <1>3, <2>3
       DEF CallInv, Backed, Dated, Authorised, Current, Truthful, Accounted, Cleared, Recorded, sinks
  <2>5. QED BY <1>2, <2>1, <2>2, <2>4, Assemble DEF env, sinks
<1>5. CASE Refuse(c, "blocked", "unsupported_action")
  BY <1>2, <1>3, <1>5, RefuseStep, Words
<1>6. CASE Refuse(c, "blocked", "missing_dependency")
  BY <1>2, <1>3, <1>6, RefuseStep, Words
<1>7. QED BY <1>4, <1>5, <1>6 DEF Validate

\* The gate's first decision.
LEMMA EvaluateStep ==
    ASSUME CoordinatorInv, NEW c \in Calls, NEW ok \in BOOLEAN, Evaluate(c, ok)
    PROVE  CoordinatorInv'
<1> DEFINE k == call[c]
           d == Gate(k.q, mode)
<1>1. TypeOK /\ CallInv(c) BY DEF CoordinatorInv
<1>2. k.pc = "gate" /\ UNCHANGED <<env, kept, result, launched, consent>>
  BY DEF Evaluate, At
<1>3. ~ launched[c] /\ result[c] = None BY <1>2, NotYet
<1>4. k \in Frames /\ k.q \in AnyRequest BY <1>1 DEF TypeOK, Frames
<1>5. /\ d \in {"deny", "allow", "needs_approval"}
      /\ k.q.risk = "DESTRUCTIVE" => d # "allow"
      /\ d = "needs_approval" => k.q.risk # "READ"
  BY <1>4 DEF Gate, AnyRequest, Risks
<1>6. CASE d = "deny"
  <2>1. Denied(c, ok) BY <1>6 DEF Evaluate
  <2>2. QED BY <1>2, <1>3, <2>1, DeniedStep
<1>7. ASSUME NEW pc \in {"authorize", "approving"}, UNCHANGED trail, d # "deny",
             call' = [call EXCEPT ![c].pc = pc, ![c].dec = d],
             d = IF pc = "authorize" THEN "allow" ELSE "needs_approval"
      PROVE  CoordinatorInv'
  <2> DEFINE n == [k EXCEPT !.pc = pc, !.dec = d]
  <2>1. pc \in Awaiting \cup Synchronous \cup {"idle", "done"} BY <1>7, Words
  <2>2. n \in Frames
    <3> HIDE DEF k, d
    <3> QED BY <1>4, <1>5, <2>1 DEF Frames
  <2>3. call' = [call EXCEPT ![c] = n] BY <1>1, <1>7 DEF TypeOK
  <2>4. /\ n.pc = pc /\ n.dec = d /\ n.q = k.q /\ n.exp = k.exp /\ n.eff = k.eff
    <3> HIDE DEF k, d
    <3> QED BY <1>4 DEF Frames
  <2>5. k.eff = k.exp BY <1>1, <1>2 DEF CallInv, Dated
  <2>6. k.q.risk # "READ" => k.exp # None BY <1>1, <1>2 DEF CallInv, Dated
  <2> HIDE DEF n
  <2>7. /\ call' \in [Calls -> Frames] /\ call'[c] = n
        /\ \A o \in Calls \ {c} : call'[o] = call[o]
    BY <1>1, <2>2, <2>3 DEF TypeOK
  <2>8. TypeOK' BY <1>1, <1>2, <1>7, <2>7 DEF TypeOK, env
  <2>9. Backed(c)' /\ Dated(c)'
    <3> HIDE DEF k, d
    <3> QED BY <1>5, <1>7, <2>4, <2>5, <2>6, <2>7 DEF Backed, Dated, Cleared
  <2>10. Authorised(c)' /\ Current(c)' /\ Truthful(c)' /\ Accounted(c)'
    <3>1. \A e \in trail[c] : e.event # "rejection" BY <1>1, <1>2 DEF CallInv, Truthful
    <3> HIDE DEF k, d
    <3> QED BY <1>2, <1>3, <1>7, <2>4, <2>7, <3>1
         DEF Authorised, Current, Truthful, Accounted, Recorded
  <2>11. QED BY <1>2, <1>7, <2>7, <2>8, <2>9, <2>10, Assemble DEF CallInv, env
<1>8. CASE d = "allow"
  <2>1. call' = [call EXCEPT ![c].pc = "authorize", ![c].dec = d] /\ UNCHANGED trail
    BY <1>8 DEF Evaluate
  <2>2. QED BY <1>7, <1>8, <2>1
<1>9. CASE d = "needs_approval"
  <2>1. UNCHANGED trail /\ UNCHANGED sinks BY <1>2, <1>9 DEF Evaluate, sinks
  <2>2. CASE Refuse(c, "denied", "approval_required") \/ Refuse(c, "denied", "approval_expired")
    BY <1>2, <1>3, <2>1, <2>2, RefuseStep, Words
  <2>3. CASE call' = [call EXCEPT ![c].pc = "approving", ![c].dec = d]
    BY <1>7, <1>9, <2>1, <2>3
  <2>4. QED BY <1>9, <2>2, <2>3 DEF Evaluate
<1>10. QED BY <1>5, <1>6, <1>8, <1>9

\* The callback's grant.
LEMMA AnswerStep ==
    ASSUME CoordinatorInv, NEW c \in Calls, NEW g \in Grants, Answer(c, g)
    PROVE  CoordinatorInv'
<1> DEFINE k == call[c]
           t == Earlier(g.until, k.exp)
           a == [digest |-> g.digest, until |-> g.until]
           n == [k EXCEPT !.pc = "authorize", !.eff = t]
<1>1. TypeOK /\ CallInv(c) BY DEF CoordinatorInv
<1>2. k.pc = "approving" /\ UNCHANGED <<env, sinks, result, launched>> BY DEF Answer, At
<1>3. ~ launched[c] /\ result[c] = None BY <1>2, NotYet
<1>4. CASE /\ UNCHANGED consent
           /\ Refuse(c, "denied", "approval_invalid") \/ Refuse(c, "denied", "approval_expired")
  BY <1>2, <1>3, <1>4, RefuseStep, Words
<1>5. CASE /\ g.digest = k.dig
           /\ call' = [call EXCEPT ![c].pc = "authorize", ![c].eff = t]
           /\ consent' = [consent EXCEPT ![c] = a]
  <2>1. k \in Frames /\ k.exp \in Nat \cup {None} BY <1>1 DEF TypeOK, Frames
  <2>2. k.exp # None /\ k.dec = "needs_approval" BY <1>1, <1>2 DEF CallInv, Backed
  <2>3. g.until \in Times /\ g.until \in Nat /\ g.digest \in Materials
    BY CoordinatorAssumption DEF Grants, Times
  <2>4. t \in Nat /\ t <= k.exp /\ t <= g.until /\ t # None
    BY <2>1, <2>2, <2>3, CoordinatorAssumption DEF Earlier
  <2>5. n \in Frames
    <3> HIDE DEF k, t
    <3> QED BY <2>1, <2>4, Words DEF Frames
  <2>6. call' = [call EXCEPT ![c] = n] BY <1>1, <1>5 DEF TypeOK
  <2>7. n.pc = "authorize" /\ n.eff = t /\ n.dec = k.dec /\ n.exp = k.exp /\ n.dig = k.dig
    <3> HIDE DEF k, t
    <3> QED BY <2>1 DEF Frames
  <2> HIDE DEF n
  <2>8. /\ call' \in [Calls -> Frames] /\ call'[c] = n
        /\ \A o \in Calls \ {c} : call'[o] = call[o]
    BY <1>1, <2>5, <2>6 DEF TypeOK
  <2>9. a \in Consents /\ a # None
    <3>1. a \in Consents BY <2>3 DEF Consents
    <3>2. QED BY <3>1, AbsentAssumption
  <2>10. a.digest = g.digest /\ a.until = g.until OBVIOUS
  <2> HIDE DEF a
  <2>11. /\ consent' \in [Calls -> Consents \cup {None}]
         /\ consent'[c] = a /\ \A o \in Calls \ {c} : consent'[o] = consent[o]
    BY <1>1, <1>5, <2>9 DEF TypeOK
  <2>12. TypeOK' BY <1>1, <1>2, <2>8, <2>11 DEF TypeOK, env, sinks
  <2>13. Backed(c)' /\ Dated(c)'
    <3>1. /\ n.pc = "authorize" /\ n.dec = "needs_approval" /\ n.exp # None /\ n.eff # None
          /\ n.eff <= n.exp /\ n.eff <= a.until /\ a.digest = n.dig
      BY <1>5, <2>2, <2>4, <2>7, <2>10
    <3>2. QED BY <3>1, <2>8, <2>9, <2>11 DEF Backed, Dated, Cleared
  <2>14. Authorised(c)' /\ Current(c)' /\ Truthful(c)' /\ Accounted(c)'
    <3>1. \A e \in trail[c] : e.event # "rejection" BY <1>1, <1>2 DEF CallInv, Truthful
    <3>2. QED BY <1>2, <1>3, <2>7, <2>8, <3>1
         DEF Authorised, Current, Truthful, Accounted, Recorded, sinks
  <2>15. QED BY <1>2, <2>8, <2>11, <2>12, <2>13, <2>14, Assemble DEF CallInv, env, sinks
<1>6. QED BY <1>4, <1>5 DEF Answer

\* The callback's refusal.
LEMMA RejectStep ==
    ASSUME CoordinatorInv, NEW c \in Calls, Reject(c)
    PROVE  CoordinatorInv'
<1>1. call[c].pc = "approving" BY DEF Reject, At
<1>2. ~ launched[c] /\ result[c] = None BY <1>1, NotYet
<1>3. QED BY <1>2, RefuseStep, Words DEF Reject

\* The authorisation record, and the start of the preparation.
LEMMA AuthorizeStep ==
    ASSUME CoordinatorInv, NEW c \in Calls, NEW ok \in BOOLEAN, Authorize(c, ok)
    PROVE  CoordinatorInv'
<1> DEFINE k == call[c]
           pc == IF k.q.prepared THEN "preparing" ELSE "launch"
           n == [k EXCEPT !.pc = pc, !.lmode = mode, !.lcheck = check]
<1>1. TypeOK /\ CallInv(c) BY DEF CoordinatorInv
<1>2. k.pc = "authorize" /\ UNCHANGED <<env, kept, result, launched, consent>>
  BY DEF Authorize, At
<1>3. ~ launched[c] /\ result[c] = None BY <1>2, NotYet DEF Cleared
<1>4. CASE Refuse(c, "blocked", "unsupported_action") /\ UNCHANGED trail
  BY <1>2, <1>3, <1>4, RefuseStep, Words DEF sinks
<1>5. CASE Unavailable(c) /\ UNCHANGED trail
  <2>1. End(c, "error", "telemetry_failure", "none") BY <1>5 DEF Unavailable
  <2>2. trail' \in [Calls -> SUBSET Events] /\ \A o \in Calls \ {c} : trail'[o] = trail[o]
    BY <1>1, <1>5 DEF TypeOK
  <2>3. QED BY <1>2, <1>3, <2>1, <2>2, Refused, Words
<1>6. CASE /\ k.mat = k.dig
           /\ Audited(c, "approval", k.dig)
           /\ call' = [call EXCEPT ![c].pc = pc, ![c].lmode = mode, ![c].lcheck = check]
  <2>1. /\ k \in Frames /\ k.dig \in Materials /\ mode \in Modes /\ check \in Checks \cup {None}
        /\ k.q.prepared \in BOOLEAN
    BY <1>1 DEF TypeOK, Frames, AnyRequest
  <2>2. pc \in Awaiting \cup Synchronous \cup {"idle", "done"} BY Words
  <2>3. pc \in {"preparing", "launch"} /\ (pc = "launch" => ~ k.q.prepared) BY <2>1
  <2>4. n \in Frames
    <3> HIDE DEF k, pc
    <3> QED BY <2>1, <2>2 DEF Frames
  <2>5. call' = [call EXCEPT ![c] = n] BY <1>1, <1>6 DEF TypeOK
  <2>6. /\ n.pc = pc /\ n.q = k.q /\ n.mat = k.mat /\ n.dig = k.dig /\ n.exp = k.exp
        /\ n.eff = k.eff /\ n.dec = k.dec
    <3> HIDE DEF k, pc
    <3> QED BY <2>1 DEF Frames
  <2> HIDE DEF n
  <2>7. /\ call' \in [Calls -> Frames] /\ call'[c] = n
        /\ \A o \in Calls \ {c} : call'[o] = call[o]
    BY <1>1, <2>4, <2>5 DEF TypeOK
  <2>8. /\ trail' \in [Calls -> SUBSET Events]
        /\ trail'[c] = trail[c] \cup {[event |-> "approval", digest |-> k.dig]}
        /\ \A o \in Calls \ {c} : trail'[o] = trail[o]
    BY <1>1, <1>6, <2>1, AuditFrame, Words
  <2>9. TypeOK' BY <1>1, <1>2, <2>7, <2>8 DEF TypeOK, env
  <2>10. Backed(c)' /\ Dated(c)'
    <3> HIDE DEF pc
    <3> QED BY <1>1, <1>2, <2>3, <2>6, <2>7 DEF CallInv, Backed, Dated, Cleared
  <2>11. \A e \in trail'[c] : e.event # "rejection"
    BY <1>1, <1>2, <2>8 DEF CallInv, Truthful
  <2> HIDE DEF k, pc
  <2>12. Authorised(c)' BY <2>6, <2>7, <2>8 DEF Authorised, HasEvent
  <2>13. Current(c)' BY <1>6, <2>3, <2>6, <2>7 DEF Current
  <2>14. Truthful(c)' /\ Accounted(c)'
    BY <1>2, <1>3, <2>3, <2>6, <2>7, <2>11 DEF Truthful, Accounted
  <2>15. QED BY <1>2, <2>7, <2>8, <2>9, <2>10, <2>12, <2>13, <2>14, Assemble DEF CallInv, env
<1>7. QED BY <1>4, <1>5, <1>6 DEF Authorize

\* The frame after an awaited coroutine has come back with a result.
LEMMA ReturnedStep ==
    ASSUME CoordinatorInv, NEW c \in Calls, NEW v \in Returns, Returned(c, v),
           call[c].pc \in {"preparing", "running"},
           UNCHANGED <<env, sinks, result, launched, consent>>
    PROVE  CoordinatorInv'
<1> DEFINE k == call[c]
           pc == IF v \in HasValue THEN "capture" ELSE "finish"
           e == [status |-> StatusOf[v], category |-> CategoryOf[v], event |-> "tool_execution"]
           n == [k EXCEPT !.pc = pc, !.value = v \in HasValue, !.end = e]
<1>1. TypeOK /\ CallInv(c) BY DEF CoordinatorInv
<1>2. k \in Frames BY <1>1 DEF TypeOK
<1>3. /\ StatusOf[v] \in {"success", "error", "timeout"}
      /\ CategoryOf[v] \in {"none", "execution_failure", "timeout"}
  BY DEF Returns, StatusOf, CategoryOf
<1>4. e \in Ends /\ e.status = StatusOf[v] /\ e.event = "tool_execution"
  BY <1>3 DEF Ends, Statuses, Categories, EventKinds
<1>5. pc \in Awaiting \cup Synchronous \cup {"idle", "done"} BY Words
<1>6. (v \in HasValue) \in BOOLEAN OBVIOUS
<1>7. n \in Frames
  <2> HIDE DEF k, pc, e
  <2> QED BY <1>2, <1>4, <1>5, <1>6 DEF Frames
<1>8. call' = [call EXCEPT ![c] = n] BY <1>1 DEF TypeOK, Returned
<1>9. n.pc = pc /\ n.value = (v \in HasValue) /\ n.end = e /\ n.dig = k.dig
  <2> HIDE DEF k, pc, e
  <2> QED BY <1>2 DEF Frames
<1> HIDE DEF n
<1>10. /\ call' \in [Calls -> Frames] /\ call'[c] = n
       /\ \A o \in Calls \ {c} : call'[o] = call[o]
  BY <1>1, <1>7, <1>8 DEF TypeOK
<1>11. TypeOK' BY <1>1, <1>10 DEF TypeOK, env, sinks
<1>12. pc \in {"capture", "finish"} /\ (pc = "finish" <=> ~ (v \in HasValue)) OBVIOUS
<1>13. HasEvent(c, "approval") /\ result[c] = None
  BY <1>1 DEF CallInv, Authorised, Truthful, Recorded
<1> HIDE DEF pc, e
<1>14. Backed(c)' /\ Dated(c)' /\ Current(c)'
  BY <1>9, <1>10, <1>12 DEF Backed, Dated, Current, Cleared
<1>15. HasEvent(c, "approval")' BY <1>9, <1>10, <1>13 DEF HasEvent, sinks
<1>16. Authorised(c)' BY <1>15 DEF Authorised
<1>17. Truthful(c)'
  BY <1>1, <1>3, <1>4, <1>9, <1>10, <1>12, <1>13 DEF CallInv, Truthful, sinks
<1>18. Accounted(c)'
  BY <1>4, <1>9, <1>10, <1>12, <1>13, <1>15 DEF Accounted
<1>19. QED
  BY <1>10, <1>11, <1>14, <1>16, <1>17, <1>18, Assemble DEF CallInv, env, sinks

\* A call that only moves to a later place of execute keeps its fields.
LEMMA Moved ==
    ASSUME CoordinatorInv, NEW c \in Calls,
           NEW pc \in Awaiting \cup Synchronous \cup {"idle", "done"}, Goto(c, pc)
    PROVE  LET k == call[c]
               n == call'[c]
           IN  /\ call' \in [Calls -> Frames]
               /\ \A o \in Calls \ {c} : call'[o] = call[o]
               /\ n.pc = pc /\ n.q = k.q /\ n.mat = k.mat /\ n.dig = k.dig /\ n.exp = k.exp
               /\ n.eff = k.eff /\ n.dec = k.dec /\ n.value = k.value /\ n.end = k.end
<1>1. TypeOK BY DEF CoordinatorInv
<1>2. call[c] \in Frames BY <1>1 DEF TypeOK
<1>3. /\ call' \in [Calls -> Frames] /\ call'[c] = [call[c] EXCEPT !.pc = pc]
      /\ \A o \in Calls \ {c} : call'[o] = call[o]
  BY <1>1, GotoFrame
<1>4. QED BY <1>2, <1>3 DEF Frames

\* The preparation is over.
LEMMA PreparedStep ==
    ASSUME CoordinatorInv, NEW c \in Calls, NEW v \in Returns, Prepared(c, v)
    PROVE  CoordinatorInv'
<1>1. TypeOK /\ CallInv(c) BY DEF CoordinatorInv
<1>2. call[c].pc = "preparing" /\ UNCHANGED <<env, sinks, result, launched, consent>>
  BY DEF Prepared, At
<1>3. ~ launched[c] /\ result[c] = None BY <1>2, NotYet DEF Cleared
<1>4. CASE v # "nothing" BY <1>2, <1>4, ReturnedStep DEF Prepared
<1>5. CASE v = "nothing"
  <2>1. Goto(c, "recheck") BY <1>5 DEF Prepared
  <2>2. /\ call' \in [Calls -> Frames] /\ \A o \in Calls \ {c} : call'[o] = call[o]
        /\ call'[c].pc = "recheck" /\ call'[c].q = call[c].q /\ call'[c].dig = call[c].dig
        /\ call'[c].exp = call[c].exp /\ call'[c].eff = call[c].eff /\ call'[c].dec = call[c].dec
    BY <2>1, Moved, Words
  <2>3. TypeOK' BY <1>1, <1>2, <2>2 DEF TypeOK, env, sinks
  <2>4. Backed(c)' /\ Dated(c)' BY <1>1, <1>2, <2>2 DEF CallInv, Backed, Dated, Cleared
  <2>5. Authorised(c)' BY <1>1, <1>2, <2>2 DEF CallInv, Authorised, Recorded, HasEvent, sinks
  <2>6. Current(c)' /\ Truthful(c)' /\ Accounted(c)'
    BY <1>1, <1>2, <1>3, <2>2 DEF CallInv, Current, Truthful, Accounted, sinks
  <2>7. QED BY <1>2, <2>2, <2>3, <2>4, <2>5, <2>6, Assemble DEF CallInv, env, sinks
<1>6. QED BY <1>4, <1>5

\* The second look after the preparation.
LEMMA RecheckStep ==
    ASSUME CoordinatorInv, NEW c \in Calls, NEW ok \in BOOLEAN, Recheck(c, ok)
    PROVE  CoordinatorInv'
<1> DEFINE k == call[c]
           d == Gate(k.q, mode)
<1>1. TypeOK /\ CallInv(c) BY DEF CoordinatorInv
<1>2. k.pc = "recheck" /\ UNCHANGED <<env, kept, result, launched, consent>>
  BY DEF Recheck, At
<1>3. ~ launched[c] /\ result[c] = None BY <1>2, NotYet DEF Cleared
<1>4. CASE Refuse(c, "blocked", "unsupported_action") /\ UNCHANGED trail
  BY <1>2, <1>3, <1>4, RefuseStep, Words DEF sinks
<1>5. CASE Denied(c, ok) BY <1>2, <1>3, <1>5, DeniedStep
<1>6. CASE /\ k.mat = k.dig /\ ~ CheckRefuses /\ d # "deny"
           /\ d = "needs_approval" => k.dec = "needs_approval"
           /\ Goto(c, "launch") /\ UNCHANGED trail
  <2>1. /\ call' \in [Calls -> Frames] /\ \A o \in Calls \ {c} : call'[o] = call[o]
        /\ call'[c].pc = "launch" /\ call'[c].q = k.q /\ call'[c].dig = k.dig
        /\ call'[c].mat = k.mat
        /\ call'[c].exp = k.exp /\ call'[c].eff = k.eff /\ call'[c].dec = k.dec
    BY <1>6, Moved, Words
  <2>2. TypeOK' BY <1>1, <1>2, <1>6, <2>1 DEF TypeOK, env
  <2>3. Backed(c)' /\ Dated(c)' BY <1>1, <1>2, <2>1 DEF CallInv, Backed, Dated, Cleared
  <2>4. Authorised(c)' BY <1>1, <1>2, <1>6, <2>1 DEF CallInv, Authorised, Recorded, HasEvent
  <2>5. mode # "plan" BY <1>6 DEF Gate
  <2>6. Gate(call'[c].q, mode') = d /\ CheckRefuses' = CheckRefuses
    BY <1>2, <2>1 DEF env, CheckRefuses
  <2>7. Current(c)'
    <3> HIDE DEF d
    <3> QED BY <1>2, <1>6, <2>1, <2>5, <2>6 DEF Current, env
  <2>8. Truthful(c)' /\ Accounted(c)'
    BY <1>1, <1>2, <1>3, <1>6, <2>1 DEF CallInv, Truthful, Accounted
  <2>9. QED BY <1>2, <1>6, <2>1, <2>2, <2>3, <2>4, <2>7, <2>8, Assemble DEF CallInv, env
<1>7. QED
  <2> HIDE DEF d
  <2>1. \/ Refuse(c, "blocked", "unsupported_action") /\ UNCHANGED trail
        \/ Denied(c, ok)
        \/ /\ k.mat = k.dig /\ ~ CheckRefuses /\ d # "deny"
           /\ d = "needs_approval" => k.dec = "needs_approval"
           /\ Goto(c, "launch") /\ UNCHANGED trail
    BY DEF Recheck, d
  <2>2. QED BY <2>1, <1>4, <1>5, <1>6

\* The launch, or the expiry that prevents it.
LEMMA LaunchStep ==
    ASSUME CoordinatorInv, NEW c \in Calls, Launch(c)
    PROVE  CoordinatorInv'
<1>1. TypeOK /\ CallInv(c) BY DEF CoordinatorInv
<1>2. call[c].pc = "launch" /\ UNCHANGED <<env, sinks, result, consent>> BY DEF Launch, At
<1>3. ~ launched[c] /\ result[c] = None BY <1>2, NotYet DEF Cleared
<1>4. CASE Refuse(c, "denied", "approval_expired") /\ UNCHANGED launched
  BY <1>2, <1>3, <1>4, RefuseStep, Words
<1>5. CASE Goto(c, "running") /\ launched' = [launched EXCEPT ![c] = TRUE]
            /\ \A e \in trail[c] : e.event # "rejection"
  <2>1. /\ call' \in [Calls -> Frames] /\ \A o \in Calls \ {c} : call'[o] = call[o]
        /\ call'[c].pc = "running" /\ call'[c].dig = call[c].dig
    BY <1>5, Moved, Words
  <2>2. /\ launched' \in [Calls -> BOOLEAN]
        /\ \A o \in Calls \ {c} : launched'[o] = launched[o]
    BY <1>1, <1>5 DEF TypeOK
  <2>3. TypeOK' BY <1>1, <1>2, <2>1, <2>2 DEF TypeOK, env, sinks
  <2>4. Backed(c)' /\ Dated(c)' /\ Current(c)' BY <2>1 DEF Backed, Dated, Current, Cleared
  <2>5. Authorised(c)' BY <1>1, <1>2, <2>1 DEF CallInv, Authorised, Recorded, HasEvent, sinks
  <2>6. Truthful(c)' /\ Accounted(c)'
    BY <1>2, <1>3, <1>5, <2>1 DEF Truthful, Accounted, sinks
  <2>7. QED BY <1>2, <2>1, <2>2, <2>3, <2>4, <2>5, <2>6, Assemble DEF CallInv, env, sinks
<1>6. \A e \in trail[c] : e.event # "rejection" BY <1>1, <1>2 DEF CallInv, Truthful
<1>7. QED BY <1>4, <1>5, <1>6 DEF Launch

\* A cancellation at an await.
LEMMA CancelStep ==
    ASSUME CoordinatorInv, NEW c \in Calls, Cancel(c)
    PROVE  CoordinatorInv'
<1>1. TypeOK /\ CallInv(c) BY DEF CoordinatorInv
<1>2. call[c].pc \in Awaiting /\ UNCHANGED <<env, sinks, launched, consent>> BY DEF Cancel
<1>3. result[c] = None BY <1>1, <1>2 DEF CallInv, Truthful, Awaiting
<1>4. CASE call[c].pc = "approving"
  <2> DEFINE x == [status |-> "raised", category |-> "none"]
  <2>1. Goto(c, "done") /\ result' = [result EXCEPT ![c] = x] BY <1>4 DEF Cancel
  <2>2. /\ call' \in [Calls -> Frames] /\ \A o \in Calls \ {c} : call'[o] = call[o]
        /\ call'[c].pc = "done"
    BY <2>1, Moved, Words
  <2>3. x \in Results /\ x.status = "raised" BY Words DEF Results
  <2> HIDE DEF x
  <2>4. /\ result' \in [Calls -> Results \cup {None}] /\ result'[c] = x
        /\ \A o \in Calls \ {c} : result'[o] = result[o]
    BY <1>1, <2>1, <2>3 DEF TypeOK
  <2>5. TypeOK' BY <1>1, <1>2, <2>2, <2>4 DEF TypeOK, env, sinks
  <2>6. ~ launched[c] BY <1>4, NotYet
  <2>7. CallInv(c)'
    BY <1>2, <2>2, <2>3, <2>4, <2>6
       DEF CallInv, Backed, Dated, Authorised, Current, Truthful, Accounted, Cleared, Recorded
  <2>8. QED BY <1>2, <2>2, <2>4, <2>5, <2>7, Assemble DEF env, sinks
<1>5. CASE call[c].pc # "approving"
  <2>1. End(c, "cancelled", "cancellation", "tool_execution") /\ UNCHANGED result
    BY <1>5 DEF Cancel
  <2>2. /\ call' \in [Calls -> Frames]
        /\ call'[c] = [call[c] EXCEPT !.pc = "finish",
              !.end = [status |-> "cancelled", category |-> "cancellation",
                       event |-> "tool_execution"]]
        /\ \A o \in Calls \ {c} : call'[o] = call[o]
    BY <1>1, <2>1, EndFrame, Words
  <2>3. /\ call'[c].pc = "finish" /\ call'[c].end.status = "cancelled"
        /\ call'[c].end.event = "tool_execution"
    BY <1>1, <2>2 DEF TypeOK, Frames
  <2>4. TypeOK' BY <1>1, <1>2, <2>1, <2>2 DEF TypeOK, env, sinks
  <2>5. Backed(c)' /\ Dated(c)' /\ Authorised(c)' /\ Current(c)' /\ Accounted(c)'
    BY <1>3, <2>1, <2>3 DEF Backed, Dated, Authorised, Current, Accounted, Cleared, Recorded
  <2>6. Truthful(c)'
    BY <1>1, <1>2, <1>3, <2>1, <2>3 DEF CallInv, Truthful, sinks
  <2>7. QED BY <1>2, <2>1, <2>2, <2>4, <2>5, <2>6, Assemble DEF CallInv, env, sinks
<1>6. QED BY <1>4, <1>5

\* The evidence of a returned value.
LEMMA CaptureStep ==
    ASSUME CoordinatorInv, NEW c \in Calls, NEW ok \in BOOLEAN, Capture(c, ok)
    PROVE  CoordinatorInv'
<1>1. TypeOK /\ CallInv(c) BY DEF CoordinatorInv
<1>2. call[c].pc = "capture" /\ UNCHANGED <<env, trail, result, launched, consent>>
  BY DEF Capture, At
<1>3. result[c] = None BY <1>1, <1>2 DEF CallInv, Truthful
<1>4. CASE ok
  <2>1. Goto(c, "finish") /\ kept' = [kept EXCEPT ![c] = @ \cup {"evidence"}]
    BY <1>4 DEF Capture
  <2>2. /\ call' \in [Calls -> Frames] /\ \A o \in Calls \ {c} : call'[o] = call[o]
        /\ call'[c].pc = "finish" /\ call'[c].dig = call[c].dig
        /\ call'[c].value = call[c].value /\ call'[c].end = call[c].end
    BY <2>1, Moved, Words
  <2>3. /\ kept' \in [Calls -> SUBSET {"evidence", "log", "feedback"}]
        /\ "evidence" \in kept'[c]
        /\ \A o \in Calls \ {c} : kept'[o] = kept[o]
    BY <1>1, <2>1 DEF TypeOK
  <2>4. TypeOK' BY <1>1, <1>2, <2>2, <2>3 DEF TypeOK, env
  <2>5. Backed(c)' /\ Dated(c)' /\ Authorised(c)' /\ Current(c)'
    BY <2>2 DEF Backed, Dated, Authorised, Current, Cleared, Recorded
  <2>6. Truthful(c)' BY <1>1, <1>2, <1>3, <2>2 DEF CallInv, Truthful
  <2>7. Accounted(c)'
    BY <1>1, <1>2, <1>3, <2>2, <2>3 DEF CallInv, Accounted, Authorised, Recorded, HasEvent
  <2>8. QED BY <1>2, <2>2, <2>3, <2>4, <2>5, <2>6, <2>7, Assemble DEF CallInv, env
<1>5. CASE ~ ok
  <2>1. End(c, "error", "telemetry_failure", "tool_execution") /\ UNCHANGED kept
    BY <1>5 DEF Capture
  <2>2. /\ call' \in [Calls -> Frames]
        /\ call'[c] = [call[c] EXCEPT !.pc = "finish",
              !.end = [status |-> "error", category |-> "telemetry_failure",
                       event |-> "tool_execution"]]
        /\ \A o \in Calls \ {c} : call'[o] = call[o]
    BY <1>1, <2>1, EndFrame, Words
  <2>3. /\ call'[c].pc = "finish" /\ call'[c].end.status = "error"
        /\ call'[c].end.event = "tool_execution"
    BY <1>1, <2>2 DEF TypeOK, Frames
  <2>4. TypeOK' BY <1>1, <1>2, <2>1, <2>2 DEF TypeOK, env
  <2>5. Backed(c)' /\ Dated(c)' /\ Authorised(c)' /\ Current(c)' /\ Accounted(c)'
    BY <1>2, <1>3, <2>3 DEF Backed, Dated, Authorised, Current, Accounted, Cleared, Recorded
  <2>6. Truthful(c)' BY <1>1, <1>2, <1>3, <2>3 DEF CallInv, Truthful
  <2>7. QED BY <1>2, <2>1, <2>2, <2>4, <2>5, <2>6, Assemble DEF CallInv, env
<1>6. QED BY <1>4, <1>5

\* The terminal telemetry, with whatever of it is lost.
LEMMA RecordTerminalStep ==
    ASSUME CoordinatorInv, NEW c \in Calls, NEW lost \in SUBSET {"audit", "log", "feedback"},
           RecordTerminal(c, lost)
    PROVE  CoordinatorInv'
<1> DEFINE e == call[c].end
           failed == \/ lost \cap {"log", "feedback"} # {}
                     \/ "audit" \in lost /\ e.event # "none"
           x == IF failed /\ e.status # "cancelled"
                THEN [status |-> "error", category |-> "telemetry_failure"]
                ELSE [status |-> e.status, category |-> e.category]
<1>1. TypeOK /\ CallInv(c) BY DEF CoordinatorInv
<1>2. call[c].pc = "finish" /\ UNCHANGED <<env, launched, consent>> /\ Goto(c, "done")
  BY DEF RecordTerminal, At
<1>3. /\ call[c] \in Frames /\ e \in Ends /\ e.status \in Statuses /\ e.category \in Categories
      /\ e.event \in EventKinds \cup {"none"} /\ call[c].dig \in Materials
  BY <1>1 DEF TypeOK, Frames, Ends
<1>4. /\ call' \in [Calls -> Frames] /\ \A o \in Calls \ {c} : call'[o] = call[o]
      /\ call'[c].pc = "done" /\ call'[c].dig = call[c].dig /\ call'[c].value = call[c].value
  BY <1>2, Moved, Words
<1>5. /\ trail' \in [Calls -> SUBSET Events]
      /\ \A o \in Calls \ {c} : trail'[o] = trail[o]
      /\ IF e.event # "none" /\ "audit" \notin lost
         THEN trail'[c] = trail[c] \cup {[event |-> e.event, digest |-> call[c].dig]}
         ELSE trail'[c] = trail[c]
  <2>1. CASE e.event # "none" /\ "audit" \notin lost
    <3>1. Audited(c, e.event, call[c].dig) BY <2>1 DEF RecordTerminal
    <3>2. e.event \in EventKinds BY <1>3, <2>1
    <3>3. QED BY <1>1, <1>3, <2>1, <3>1, <3>2, AuditFrame
  <2>2. CASE ~ (e.event # "none" /\ "audit" \notin lost)
    <3>1. UNCHANGED trail BY <2>2 DEF RecordTerminal
    <3>2. QED BY <1>1, <2>2, <3>1 DEF TypeOK
  <2>3. QED BY <2>1, <2>2
<1>6. kept' = [kept EXCEPT ![c] = @ \cup ({"log", "feedback"} \ lost)] BY DEF RecordTerminal
<1>7. /\ kept' \in [Calls -> SUBSET {"evidence", "log", "feedback"}]
      /\ kept'[c] = kept[c] \cup ({"log", "feedback"} \ lost)
      /\ \A o \in Calls \ {c} : kept'[o] = kept[o]
  BY <1>1, <1>6 DEF TypeOK
<1>8. result' = [result EXCEPT ![c] = x] BY DEF RecordTerminal
<1>9. x \in Results BY <1>3, Words DEF Results
<1>10. x.status = IF failed /\ e.status # "cancelled" THEN "error" ELSE e.status OBVIOUS
<1> HIDE DEF x
<1>11. /\ result' \in [Calls -> Results \cup {None}] /\ result'[c] = x
       /\ \A o \in Calls \ {c} : result'[o] = result[o]
  BY <1>1, <1>8, <1>9 DEF TypeOK
<1>12. TypeOK' BY <1>1, <1>2, <1>4, <1>5, <1>7, <1>11 DEF TypeOK, env
<1>13. Backed(c)' /\ Dated(c)' /\ Authorised(c)' /\ Current(c)'
  BY <1>4 DEF Backed, Dated, Authorised, Current, Cleared, Recorded
<1>14. Truthful(c)'
  <2>1. /\ launched[c] => /\ e.status \notin {"denied", "blocked"} /\ e.event # "rejection"
                          /\ \A a \in trail[c] : a.event # "rejection"
    BY <1>1, <1>2 DEF CallInv, Truthful
  <2>2. launched[c] => x.status \notin {"denied", "blocked"} BY <1>10, <2>1
  <2>3. launched[c] => \A a \in trail'[c] : a.event # "rejection" BY <1>5, <2>1
  <2>4. QED BY <1>2, <1>4, <1>11, <2>2, <2>3 DEF Truthful
<1>15. Accounted(c)'
  <2>1. SUFFICES ASSUME x.status = "success"
                 PROVE  /\ HasEvent(c, "approval")' /\ HasEvent(c, "tool_execution")'
                        /\ {"log", "feedback"} \subseteq kept'[c]
                        /\ call'[c].value => "evidence" \in kept'[c]
    BY <1>4, <1>11 DEF Accounted
  <2>2. e.status = "success" /\ ~ failed BY <1>10, <2>1
  <2>3. /\ e.event = "tool_execution" /\ HasEvent(c, "approval")
        /\ call[c].value => "evidence" \in kept[c]
    BY <1>1, <1>2, <2>2 DEF CallInv, Accounted
  <2>4. "audit" \notin lost /\ "log" \notin lost /\ "feedback" \notin lost BY <2>2, <2>3
  <2>5. HasEvent(c, "approval")' /\ HasEvent(c, "tool_execution")'
    BY <1>4, <1>5, <2>3, <2>4 DEF HasEvent
  <2>6. QED BY <1>4, <1>7, <2>3, <2>4, <2>5
<1>16. QED
  BY <1>2, <1>4, <1>5, <1>7, <1>11, <1>12, <1>13, <1>14, <1>15, Assemble DEF CallInv, env

\* Time, and what other tasks do to the gate and the checks: no call is at its
\* launch when the restrictions change.
LEMMA Outside ==
    ASSUME CoordinatorInv, TypeOK', UNCHANGED <<call, sinks, result, launched, consent>>,
           Quiet \/ UNCHANGED <<mode, check, refusing>>
    PROVE  CoordinatorInv'
<1>1. SUFFICES ASSUME NEW c \in Calls PROVE CallInv(c)' BY DEF CoordinatorInv
<1>2. CallInv(c) BY DEF CoordinatorInv
<1>3. Backed(c)' /\ Dated(c)' BY <1>2 DEF CallInv, Backed, Dated
<1>4. Authorised(c)' /\ Truthful(c)' /\ Accounted(c)'
  BY <1>2 DEF CallInv, Authorised, Truthful, Accounted, HasEvent, sinks
<1>5. Current(c)'
  <2>1. CASE Quiet BY <2>1 DEF Quiet, Synchronous, Current
  <2>2. CASE UNCHANGED <<mode, check, refusing>>
    BY <1>2, <2>2 DEF CallInv, Current, Gate, CheckRefuses
  <2>3. QED BY <2>1, <2>2
<1>6. QED BY <1>3, <1>4, <1>5 DEF CallInv

\* The holder of a request changes it while its call awaits.
LEMMA MutateStep ==
    ASSUME CoordinatorInv, NEW c \in Calls, NEW m \in Materials, Mutate(c, m)
    PROVE  CoordinatorInv'
<1> DEFINE k == call[c]
           n == [k EXCEPT !.mat = m]
<1>1. TypeOK /\ CallInv(c) BY DEF CoordinatorInv
<1>2. k.pc \in Awaiting /\ UNCHANGED <<env, sinks, result, launched, consent>> BY DEF Mutate
<1>3. k \in Frames BY <1>1 DEF TypeOK
<1>4. n \in Frames
  <2> HIDE DEF k
  <2> QED BY <1>3 DEF Frames
<1>5. /\ n.pc = k.pc /\ n.q = k.q /\ n.dig = k.dig /\ n.exp = k.exp /\ n.eff = k.eff
      /\ n.dec = k.dec /\ n.value = k.value /\ n.end = k.end
  <2> HIDE DEF k
  <2> QED BY <1>3 DEF Frames
<1>6. call' = [call EXCEPT ![c] = n] BY <1>1 DEF TypeOK, Mutate
<1> HIDE DEF n
<1>7. /\ call' \in [Calls -> Frames] /\ call'[c] = n
      /\ \A o \in Calls \ {c} : call'[o] = call[o]
  BY <1>1, <1>4, <1>6 DEF TypeOK
<1>8. TypeOK' BY <1>1, <1>2, <1>7 DEF TypeOK, env, sinks
<1>9. Backed(c)' /\ Dated(c)' BY <1>1, <1>2, <1>5, <1>7 DEF CallInv, Backed, Dated
<1>10. Authorised(c)' BY <1>1, <1>2, <1>5, <1>7 DEF CallInv, Authorised, HasEvent, sinks
<1>11. Current(c)' BY <1>2, <1>5, <1>7 DEF Current, Awaiting
<1>12. Truthful(c)' BY <1>1, <1>2, <1>5, <1>7 DEF CallInv, Truthful, sinks
<1>13. Accounted(c)' BY <1>1, <1>2, <1>5, <1>7 DEF CallInv, Accounted, HasEvent, sinks
<1>14. QED
  BY <1>2, <1>7, <1>8, <1>9, <1>10, <1>11, <1>12, <1>13, Assemble DEF CallInv, env, sinks

\* Every step of the process keeps the invariant.
LEMMA CoordinatorInductive ==
    ASSUME CoordinatorInv, [CoordinatorNext]_coordinatorVars
    PROVE  CoordinatorInv'
<1>1. TypeOK BY DEF CoordinatorInv
<1>2. ASSUME NEW c \in Calls, Execute(c) PROVE CoordinatorInv'
  <2>1. CASE \E q \in Requests, m \in Materials : Submit(c, q, m) BY <2>1, SubmitStep
  <2>2. CASE Validate(c) BY <2>2, ValidateStep
  <2>3. CASE \E ok \in BOOLEAN : Evaluate(c, ok) BY <2>3, EvaluateStep
  <2>4. CASE \E g \in Grants : Answer(c, g) BY <2>4, AnswerStep
  <2>5. CASE Reject(c) BY <2>5, RejectStep
  <2>6. CASE \E ok \in BOOLEAN : Authorize(c, ok) BY <2>6, AuthorizeStep
  <2>7. CASE \E v \in Returns : Prepared(c, v) BY <2>7, PreparedStep
  <2>8. CASE \E ok \in BOOLEAN : Recheck(c, ok) BY <2>8, RecheckStep
  <2>9. CASE Launch(c) BY <2>9, LaunchStep
  <2>10. CASE \E v \in Returns : Complete(c, v)
    <3>1. PICK v \in Returns : Complete(c, v) BY <2>10
    <3>2. /\ Returned(c, v) /\ call[c].pc \in {"preparing", "running"}
          /\ UNCHANGED <<env, sinks, result, launched, consent>>
      BY <3>1 DEF Complete, At
    <3>3. QED BY <3>2, ReturnedStep
  <2>11. CASE Cancel(c) BY <2>11, CancelStep
  <2>12. CASE \E ok \in BOOLEAN : Capture(c, ok) BY <2>12, CaptureStep
  <2>13. CASE \E lost \in SUBSET {"audit", "log", "feedback"} : RecordTerminal(c, lost)
    BY <2>13, RecordTerminalStep
  <2>14. QED
    BY <1>2, <2>1, <2>2, <2>3, <2>4, <2>5, <2>6, <2>7, <2>8, <2>9, <2>10, <2>11, <2>12, <2>13
       DEF Execute
<1>3. CASE Tick
  <2>1. TypeOK' BY <1>1, <1>3 DEF Tick, TypeOK, sinks
  <2>2. QED BY <1>3, <2>1, Outside DEF Tick
<1>4. ASSUME NEW m \in Modes, SetMode(m) PROVE CoordinatorInv'
  <2>1. TypeOK' BY <1>1, <1>4 DEF SetMode, TypeOK, sinks
  <2>2. QED BY <1>4, <2>1, Outside DEF SetMode, Elsewhere
<1>5. ASSUME NEW k \in Checks \cup {None}, SetPreExecutionCheck(k) PROVE CoordinatorInv'
  <2>1. TypeOK' BY <1>1, <1>5 DEF SetPreExecutionCheck, TypeOK, sinks
  <2>2. QED BY <1>5, <2>1, Outside DEF SetPreExecutionCheck, Elsewhere
<1>6. ASSUME NEW k \in Checks, ChangeAnswer(k) PROVE CoordinatorInv'
  <2>1. TypeOK' BY <1>1, <1>6 DEF ChangeAnswer, TypeOK, sinks
  <2>2. QED BY <1>6, <2>1, Outside DEF ChangeAnswer, Elsewhere
<1>7. CASE UNCHANGED coordinatorVars
  <2>1. TypeOK' BY <1>1, <1>7 DEF coordinatorVars, TypeOK
  <2>2. QED BY <1>7, <2>1, Outside DEF coordinatorVars, sinks
<1>8. QED BY <1>2, <1>3, <1>4, <1>5, <1>6, <1>7, MutateStep DEF CoordinatorNext, Environment

\* No call has been made yet.
LEMMA CoordinatorInitially == CoordinatorInit => CoordinatorInv
<1>1. SUFFICES ASSUME CoordinatorInit PROVE CoordinatorInv OBVIOUS
<1>2. PICK m \in Materials :
        call = [c \in Calls |-> [NewCall(NoRequest, m, None) EXCEPT !.pc = "idle"]]
  BY <1>1 DEF CoordinatorInit
<1> DEFINE f == [NewCall(NoRequest, m, None) EXCEPT !.pc = "idle"]
<1>3. NoRequest \in AnyRequest BY DEF NoRequest, AnyRequest, Risks
<1>4. f \in Frames /\ f.pc = "idle"
  BY <1>3 DEF NewCall, Frames, Synchronous, Modes, Ends, NoEnd, Statuses, Categories
<1> HIDE DEF f
<1>5. call \in [Calls -> Frames] /\ \A c \in Calls : call[c].pc = "idle" BY <1>2, <1>4 DEF f
<1>6. TypeOK BY <1>1, <1>5 DEF CoordinatorInit, TypeOK
<1>7. \A c \in Calls : CallInv(c)
  BY <1>1, <1>5
     DEF CoordinatorInit, CallInv, Backed, Dated, Authorised, Current, Truthful, Accounted, Cleared, Recorded
<1>8. QED BY <1>6, <1>7 DEF CoordinatorInv

-----------------------------------------------------------------------------
\* Every frame of execute keeps the guarantees of its place, whatever the other
\* tasks, the clock and the record stores do.
THEOREM CoordinatorInvariantHolds == CoordinatorSpec => []CoordinatorInv
<1>1. CoordinatorInit => CoordinatorInv BY CoordinatorInitially
<1>2. CoordinatorInv /\ [CoordinatorNext]_coordinatorVars => CoordinatorInv' BY CoordinatorInductive
<1>3. QED BY <1>1, <1>2, PTL DEF CoordinatorSpec

\* A refusal reported to a caller, or recorded, is the truth: nothing ran.
THEOREM RefusalsAreTrue == CoordinatorSpec => []RefusedNeverRan
<1>1. CoordinatorInv => RefusedNeverRan
  BY DEF CoordinatorInv, CallInv, Truthful, RefusedNeverRan
<1>2. QED BY <1>1, CoordinatorInvariantHolds, PTL

\* A reported success has its authorisation, execution, log, feedback and
\* evidence records.
THEOREM SuccessIsOnRecord == CoordinatorSpec => []SuccessIsAccounted
<1>1. CoordinatorInv => SuccessIsAccounted
  BY DEF CoordinatorInv, CallInv, Accounted, SuccessIsAccounted
<1>2. QED BY <1>1, CoordinatorInvariantHolds, PTL

\* Only the launch itself starts an operation.
LEMMA StartedByLaunch ==
    ASSUME CoordinatorInv, [CoordinatorNext]_coordinatorVars, NEW c \in Calls, launched'[c] # launched[c]
    PROVE  call[c].pc = "launch" /\ ~ (call[c].eff # None /\ call[c].eff <= clock)
<1>1. launched \in [Calls -> BOOLEAN] BY DEF CoordinatorInv, TypeOK
<1>2. ~ UNCHANGED coordinatorVars /\ ~ Environment
  BY DEF coordinatorVars, Environment, Tick, SetMode, SetPreExecutionCheck, ChangeAnswer, Mutate
<1>3. PICK o \in Calls : Execute(o) BY <1>2 DEF CoordinatorNext
<1>4. Launch(o)
  <2>1. ASSUME NEW ok \in BOOLEAN PROVE ~ Evaluate(o, ok) /\ ~ Authorize(o, ok)
    BY DEF Evaluate, Authorize
  <2>2. ASSUME NEW ok \in BOOLEAN PROVE ~ Recheck(o, ok) /\ ~ Capture(o, ok)
    BY DEF Recheck, Capture
  <2>3. ASSUME NEW v \in Returns PROVE ~ Prepared(o, v) /\ ~ Complete(o, v)
    BY DEF Prepared, Complete
  <2>4. ASSUME NEW q \in Requests, NEW m \in Materials PROVE ~ Submit(o, q, m) BY DEF Submit
  <2>5. ASSUME NEW g \in Grants PROVE ~ Answer(o, g) BY DEF Answer
  <2>6. ASSUME NEW lost \in SUBSET {"audit", "log", "feedback"}
        PROVE  ~ RecordTerminal(o, lost)
    BY DEF RecordTerminal
  <2>7. ~ Validate(o) /\ ~ Reject(o) /\ ~ Cancel(o) BY DEF Validate, Reject, Cancel
  <2>8. QED BY <1>3, <2>1, <2>2, <2>3, <2>4, <2>5, <2>6, <2>7 DEF Execute
<1>5. launched' = [launched EXCEPT ![o] = TRUE] /\ ~ (call[o].eff # None /\ call[o].eff <= clock)
  BY <1>4 DEF Launch
<1>6. o = c BY <1>1, <1>5
<1>7. QED BY <1>4, <1>5, <1>6 DEF Launch, At

\* An operation starts only on the material whose authorisation is on record,
\* before any expiry, and with the human's valid grant where one was needed.
THEOREM LaunchesAreBound == CoordinatorSpec => LaunchIsBound
<1> DEFINE A == \A c \in Calls : launched'[c] # launched[c] =>
                  LET k == call[c] IN
                  /\ [event |-> "approval", digest |-> k.mat] \in trail[c]
                  /\ k.exp # None => clock < k.exp
                  /\ k.dec = "needs_approval" \/ k.q.risk = "DESTRUCTIVE" =>
                       /\ consent[c] # None
                       /\ consent[c].digest = k.mat
                       /\ clock < consent[c].until
<1>1. ASSUME CoordinatorInv, [CoordinatorNext]_coordinatorVars PROVE A
  <2>1. SUFFICES ASSUME NEW c \in Calls, launched'[c] # launched[c]
                 PROVE  LET k == call[c] IN
                        /\ [event |-> "approval", digest |-> k.mat] \in trail[c]
                        /\ k.exp # None => clock < k.exp
                        /\ k.dec = "needs_approval" \/ k.q.risk = "DESTRUCTIVE" =>
                             /\ consent[c] # None
                             /\ consent[c].digest = k.mat
                             /\ clock < consent[c].until
    OBVIOUS
  <2> DEFINE k == call[c]
  <2>2. k.pc = "launch" /\ ~ (k.eff # None /\ k.eff <= clock) BY <1>1, <2>1, StartedByLaunch
  <2>3. CallInv(c) /\ TypeOK BY <1>1 DEF CoordinatorInv
  <2>4. k.mat = k.dig BY <2>2, <2>3 DEF CallInv, Current
  <2>5. [event |-> "approval", digest |-> k.mat] \in trail[c]
    BY <2>2, <2>3, <2>4 DEF CallInv, Authorised, Recorded, HasEvent
  <2>6. /\ clock \in Nat /\ k.eff \in Nat \cup {None} /\ k.exp \in Nat \cup {None}
        /\ consent[c] # None => consent[c].until \in Nat
    <3>1. k \in Frames /\ consent[c] \in Consents \cup {None} /\ clock \in Nat
      BY <2>3 DEF TypeOK
    <3>2. k.eff \in Nat \cup {None} /\ k.exp \in Nat \cup {None} BY <3>1 DEF Frames
    <3>3. consent[c] # None => consent[c].until \in Nat
      BY <3>1, CoordinatorAssumption DEF Consents, Times
    <3>4. QED BY <3>1, <3>2, <3>3
  <2>7. CASE k.dec = "needs_approval"
    <3>1. /\ consent[c] # None /\ consent[c].digest = k.dig /\ k.exp # None
          /\ k.eff # None /\ k.eff <= k.exp /\ k.eff <= consent[c].until
      BY <2>2, <2>3, <2>7 DEF CallInv, Backed, Cleared
    <3> HIDE DEF k
    <3>2. clock < k.exp /\ clock < consent[c].until BY <2>2, <2>6, <3>1
    <3>3. QED BY <2>4, <2>5, <3>1, <3>2 DEF k
  <2>8. CASE k.dec # "needs_approval"
    <3>1. k.eff = k.exp /\ k.q.risk # "DESTRUCTIVE"
      BY <2>2, <2>3, <2>8 DEF CallInv, Backed, Cleared
    <3> HIDE DEF k
    <3>2. k.exp # None => clock < k.exp BY <2>2, <2>6, <3>1
    <3>3. QED BY <2>5, <2>8, <3>1, <3>2 DEF k
  <2>9. QED BY <2>7, <2>8
<1>2. CoordinatorInv /\ [CoordinatorNext]_coordinatorVars => [A]_coordinatorVars BY <1>1
<1>3. LaunchIsBound <=> [][A]_coordinatorVars BY DEF LaunchIsBound
<1> HIDE DEF A
<1>4. QED BY <1>2, <1>3, CoordinatorInvariantHolds, PTL DEF CoordinatorSpec

\* After an awaited preparation an operation starts only under the mode and
\* the check in force at that moment.
THEOREM PreparedLaunchesAreCurrent == CoordinatorSpec => PreparedLaunchIsCurrent
<1> DEFINE A == \A c \in Calls : launched'[c] # launched[c] /\ call[c].q.prepared =>
                  /\ Gate(call[c].q, mode) # "deny" /\ mode # "plan"
                  /\ Gate(call[c].q, mode) = "needs_approval" => consent[c] # None
                  /\ ~ CheckRefuses
<1>1. ASSUME CoordinatorInv, [CoordinatorNext]_coordinatorVars PROVE A
  <2>1. SUFFICES ASSUME NEW c \in Calls, launched'[c] # launched[c], call[c].q.prepared
                 PROVE  /\ Gate(call[c].q, mode) # "deny" /\ mode # "plan"
                        /\ Gate(call[c].q, mode) = "needs_approval" => consent[c] # None
                        /\ ~ CheckRefuses
    OBVIOUS
  <2>2. call[c].pc = "launch" BY <1>1, <2>1, StartedByLaunch
  <2>3. Current(c) /\ Backed(c) BY <1>1 DEF CoordinatorInv, CallInv
  <2>4. QED BY <2>1, <2>2, <2>3 DEF Current, Backed, Cleared
<1>2. CoordinatorInv /\ [CoordinatorNext]_coordinatorVars => [A]_coordinatorVars BY <1>1
<1>3. PreparedLaunchIsCurrent <=> [][A]_coordinatorVars BY DEF PreparedLaunchIsCurrent
<1> HIDE DEF A
<1>4. QED BY <1>2, <1>3, CoordinatorInvariantHolds, PTL DEF CoordinatorSpec
=============================================================================
