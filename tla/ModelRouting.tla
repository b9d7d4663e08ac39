---------------------------- MODULE ModelRouting ----------------------------
(***************************************************************************)
(* Model selection: the router of models/routing.py over the registry, the *)
(* retries of the OpenRouter provider (kernel/provider.py), and the model  *)
(* the terminal interface works with: switching it, refreshing the live    *)
(* catalogue, attributing the tokens of a run.                             *)
(*                                                                         *)
(* A request is routed, its inference attempted, and after a failure the   *)
(* caller asks the router for the next model.  Availability and rate       *)
(* limits change in between.  Of the hard filters that compare a number    *)
(* (context, quality, latency, cost) one stands for all: how far down the  *)
(* ranking the request goes.                                               *)
(***************************************************************************)
EXTENDS Integers, Sequences, FiniteSets

CONSTANTS
    Models,
    Info,         \* per model: [local, openrouter : BOOLEAN, max : 0..3, group,
                  \* structured : BOOLEAN, rank : its place in the ranking]
    NoModel,
    MaxRetries,   \* MAX_RETRIES
    MaxHealth     \* bound: changes of availability

ASSUME RoutingAssumption ==
    /\ NoModel \notin Models /\ MaxRetries \in Nat \ {0} /\ MaxHealth \in Nat
    /\ {Info[m].rank : m \in Models} = 1..Cardinality(Models)

VARIABLES
    up,          \* models available and not rate limited
    req,         \* the request
    dec,         \* the router's last decision: [model, tried]
    ask,         \* [pc, tries]: where the caller is, attempts at this model
    sent,        \* the models the request's data was sent to, in order
    health,      \* changes of availability so far
    catalogue,   \* the interface's registry
    loaded,      \* _openrouter_catalog_loaded
    active,      \* llm._model
    configured,  \* Config.MODEL
    usage        \* recorded usage: [by, as]

routeVars == <<up, req, dec, ask, sent, health>>
uiVars == <<catalogue, loaded, active, configured, usage>>

-----------------------------------------------------------------------------
\* public, internal, confidential and restricted data
Classes == 0..3
Confidential == 2

Requests ==
    [task : {"planning", "analysis"}, class : Classes, local : BOOLEAN,
     structured : BOOLEAN, worst : {2, Cardinality(Models)}, pinned : Models \cup {NoModel},
     fallback : BOOLEAN]

\* DEFAULT_RULES applied by _effective.
Effective(r) ==
    [r EXCEPT !.local = r.local \/ r.class >= Confidential,
              !.structured = r.structured \/ r.task = "planning"]

\* DataPolicy.accepts.
Accepts(m, class) == class <= Info[m].max

\* _passes_hard_filters.
PassesHardFilters(m, r) ==
    /\ m \in up
    /\ Accepts(m, r.class)
    /\ r.local => Info[m].local
    /\ r.structured => Info[m].structured
    /\ Info[m].rank <= r.worst

\* The first by _rank_key.
Best(S) == CHOOSE m \in S : \A n \in S : Info[m].rank <= Info[n].rank

\* Variant: the group is trusted to have one locality.
FallbackPoolByGroup(m, r, tried) ==
    {n \in Models : /\ Info[m].group # "" /\ Info[n].group = Info[m].group /\ n \notin tried
                    /\ PassesHardFilters(n, r)}

\* _fallback_pool.
FallbackPool(m, r, tried) ==
    {n \in Models : /\ Info[m].group # "" /\ Info[n].group = Info[m].group /\ n \notin tried
                    /\ Info[n].local = Info[m].local
                    /\ PassesHardFilters(n, r)}

Decision(m, tried) == [model |-> m, tried |-> tried]

\* route: a pinned model is not held to the rules, only to the filters.
Route(r) ==
    LET eligible == IF r.pinned # NoModel
                    THEN {m \in {r.pinned} : PassesHardFilters(m, r)}
                    ELSE {m \in Models : PassesHardFilters(m, Effective(r))}
    IN  IF eligible = {} THEN Decision(NoModel, {})
        ELSE Decision(Best(eligible), {Best(eligible)})

\* fallback: the request is taken as it is, without the rules.
Fallback(d, r) ==
    LET pool == IF r.fallback THEN FallbackPool(d.model, r, d.tried) ELSE {}
    IN  IF pool = {} THEN Decision(NoModel, d.tried)
        ELSE Decision(Best(pool), d.tried \cup {Best(pool)})

-----------------------------------------------------------------------------
NoRequest == CHOOSE r \in Requests : r.pinned = NoModel

\* The registry's availability is set from the configured credentials.
RoutingInit ==
    /\ up \in SUBSET Models
    /\ req = NoRequest /\ dec = Decision(NoModel, {})
    /\ ask = [pc |-> "idle", tries |-> 0]
    /\ sent = <<>> /\ health = 0

Decided(d) ==
    /\ dec' = d
    /\ ask' = [pc |-> IF d.model = NoModel THEN "refused" ELSE "asking", tries |-> 0]
    /\ sent' = IF d.model = NoModel THEN sent ELSE Append(sent, d.model)

Select(r) ==
    /\ ask.pc = "idle"
    /\ req' = r
    /\ Decided(Route(r))
    /\ UNCHANGED <<up, health>>

\* One turn of _chat: an answer ends it; an unusable one and a transient error
\* are tried again; other providers than OpenRouter are asked once.
Attempt(outcome) ==
    /\ ask.pc = "asking"
    /\ LET last == ask.tries + 1 = MaxRetries \/ ~ Info[dec.model].openrouter
       IN  ask' = CASE outcome = "usable" -> [ask EXCEPT !.pc = "answered"]
                    [] outcome = "fatal" \/ last -> [ask EXCEPT !.pc = "failed"]
                    [] OTHER -> [ask EXCEPT !.tries = @ + 1]
    /\ UNCHANGED <<up, req, dec, sent, health>>

NextModel ==
    /\ ask.pc = "failed"
    /\ Decided(Fallback(dec, req))
    /\ UNCHANGED <<up, req, health>>

HealthChanges(m) ==
    /\ health < MaxHealth /\ health' = health + 1
    /\ up' = IF m \in up THEN up \ {m} ELSE up \cup {m}
    /\ UNCHANGED <<req, dec, ask, sent>>

-----------------------------------------------------------------------------
Direct == {m \in Models : ~ Info[m].openrouter}

UiInit ==
    /\ catalogue = Models /\ loaded = FALSE
    /\ active = CHOOSE m \in Models : TRUE
    /\ configured = active
    /\ usage = {}

\* fetch_openrouter_catalog: of the records that came those that are valid; no
\* valid one is an error.
Fetched(records) == records \cap (Models \ Direct)

\* Variant: whatever was fetched replaces the catalogue.
RefreshUnchecked(records, force) ==
    /\ catalogue' = IF loaded /\ ~ force THEN catalogue ELSE Direct \cup Fetched(records)
    /\ loaded' = TRUE

\* _refresh_openrouter_catalog.
Refresh(records, force) ==
    IF (loaded /\ ~ force) \/ Fetched(records) = {}
    THEN UNCHANGED <<catalogue, loaded>>
    ELSE catalogue' = Direct \cup Fetched(records) /\ loaded' = TRUE

\* _handle_model without a name.
ListModels(records, force) ==
    /\ Refresh(records, force)
    /\ UNCHANGED <<active, configured, usage>>

\* _handle_model with a name: an unknown one is looked for in the live
\* catalogue, and used whether or not it is found there.
SwitchModel(m, records) ==
    /\ IF m \in catalogue THEN UNCHANGED <<catalogue, loaded>> ELSE Refresh(records, FALSE)
    /\ active' = m /\ configured' = m
    /\ UNCHANGED usage

\* _meter_usage after a run: the tokens the client counted are recorded under
\* the configured model, priced by the registry or at nothing.
MeterUsage ==
    /\ usage' = usage \cup {[by |-> active, as |-> configured,
                             priced |-> configured \in catalogue]}
    /\ UNCHANGED <<catalogue, loaded, active, configured>>

RoutingNext ==
    \/ \E r \in Requests : Select(r)
    \/ \E outcome \in {"usable", "unusable", "fatal"} : Attempt(outcome)
    \/ NextModel
    \/ \E m \in Models : HealthChanges(m)

UiNext ==
    \/ \E records \in SUBSET Models :
          \/ \E force \in BOOLEAN : ListModels(records, force)
          \/ \E m \in Models : SwitchModel(m, records)
    \/ MeterUsage

RoutingSpec == RoutingInit /\ [][RoutingNext]_routeVars

UiSpec == UiInit /\ [][UiNext]_uiVars

-----------------------------------------------------------------------------
\* However often a request falls back while models come and go, its data only
\* reaches models that accept its classification; all of them have the first
\* one's locality, so confidential data that the rules kept local stays local;
\* and no model is tried twice.
DataStaysWhereItMay ==
    \A i \in DOMAIN sent :
        /\ Accepts(sent[i], req.class)
        /\ Info[sent[i]].local = Info[sent[1]].local
        /\ req.local \/ (req.class >= Confidential /\ req.pinned = NoModel)
              => Info[sent[i]].local
        /\ \A j \in DOMAIN sent : sent[i] = sent[j] => i = j

\* A catalogue that could not be fetched, or had nothing usable in it, leaves the
\* interface one it can work with: the direct models stay, and so does some
\* OpenRouter model.
CatalogueSurvives ==
    Direct \subseteq catalogue /\ (Models # Direct => catalogue # Direct)

\* The tokens of a run are recorded under the model that used them, whatever
\* was switched before.
UsageIsAttributed == \A u \in usage : u.by = u.as

\* Neither a poor catalogue nor a switch of models spoils what later runs are
\* priced and recorded by.
InterfaceKnowsModels == CatalogueSurvives /\ UsageIsAttributed
=============================================================================
