--------------------------- MODULE RoutePlanning ---------------------------
(***************************************************************************)
(* resolveGatewayRoute over a registry snapshot: the request, the preset   *)
(* and the caller's policy are merged, the candidates are filtered, scored *)
(* and ranked, and a chain of fallbacks is planned, one candidate at a     *)
(* time as its two loops do.  Nothing is executed.                         *)
(*                                                                         *)
(* Names are compared by their place in NameOrder.  The comparison of two  *)
(* scored candidates is not transitive (cost and latency count only when   *)
(* both know them), so what Array.prototype.sort makes of it is any order  *)
(* whose neighbours are in order: all the sort of the engine guarantees.   *)
(***************************************************************************)
EXTENDS GatewayRegistry, SequencesExt

CONSTANTS
    NameOrder,    \* the names of providers and models, as localeCompare orders them
    Questions     \* [source, request, policy, preset, stamped] to resolve

\* what the program makes of a number it reads: an amount, or nothing
Amount == Nat \cup {Unknown}
Components == {"capability", "preferred", "priority", "cost", "latency", "context", "local", "explicit", "status"}

(* Documents and lists are finite and their numbers are amounts (normalizeInteger and
   normalizeNullableNumber), weights are rounded (normalizeWeights), and the
   amounts of a request are what validateRoutingRequest lets pass; it does not look
   at the output. *)
ASSUME QuestionsAssumption ==
    \A q \in Questions :
        /\ \A file \in FileNames : IsFiniteSet(q.source[file])
        /\ \A raw \in q.source.providers : {raw.priority, raw.latency} \subseteq Amount
        /\ \A raw \in q.source.models :
              {raw.context, raw.output, raw.inputCost, raw.outputCost, raw.priority, raw.latency} \subseteq Amount
        /\ \A raw \in q.source.localModels : {raw.context, raw.priority, raw.latency} \subseteq Amount
        /\ IsFiniteSet(q.policy.preferred)
        /\ q.policy.maxFallbacks \in Int
        /\ q.policy.weights \in [Components -> Nat]
        /\ q.policy.neutral \in BOOLEAN
        /\ q.request.wellFormed => {q.request.input, q.request.context} \subseteq Amount
        /\ {q.request.output, q.request.maxTokens} \subseteq Int

VARIABLES
    question,     \* what is asked
    snapshot,     \* the registry built from the question's source
    stage,        \* "load", "resolve", "rank", "spread", "fill" or "done"
    merged,       \* the policy of the request, the preset and the caller in one
    ranking,      \* the viable candidates, best first
    index,        \* how many of them a loop has seen
    chain,        \* the fallbacks, candidates in the order of the plan
    used,         \* providers the first loop has used
    answer        \* "planned" or the cause of the refusal

routeVars == <<question, snapshot, stage, merged, ranking, index, chain, used, answer>>

request == question.request
given == question.policy

-----------------------------------------------------------------------------
(* createGatewayRouteCandidates.                                           *)

Provider(id) == {p \in snapshot.providers : p.id = id}
FirstKnown(a, b) == IF a # Unknown THEN a ELSE b
Priority(number) == IF number = Unknown THEN 0 ELSE number

ModelCandidate(m) ==
    LET owner == Provider(m.provider)
        Of(field, absent) == IF owner = {} THEN absent ELSE (CHOOSE p \in owner : TRUE)[field]
    IN [provider |-> IF m.provider = None THEN "unknown" ELSE m.provider, model |-> m.id,
        names |-> m.aliases \cup {m.id}, capabilities |-> m.capabilities,
        context |-> m.context, output |-> m.output, inputCost |-> m.inputCost, outputCost |-> m.outputCost,
        local |-> m.local \/ Of("local", FALSE), enabled |-> m.enabled /\ Of("enabled", FALSE),
        status |-> m.status, providerStatus |-> Of("status", "missing"),
        priority |-> Priority(m.priority) + Priority(Of("priority", Unknown)),
        latency |-> FirstKnown(m.latency, Of("latency", Unknown))]

\* a local model belongs to the provider "local", or to one named for its engine
LocalCandidate(l) ==
    LET owner == Provider("local")
        Of(field, absent) == IF owner = {} THEN absent ELSE (CHOOSE p \in owner : TRUE)[field]
    IN [provider |-> IF owner = {} THEN "local-" \o l.engine ELSE "local", model |-> l.id,
        names |-> l.aliases \cup {l.id}, capabilities |-> l.capabilities,
        context |-> l.context, output |-> Unknown, inputCost |-> Unknown, outputCost |-> Unknown,
        local |-> TRUE, enabled |-> l.enabled /\ Of("enabled", TRUE),
        status |-> l.status, providerStatus |-> Of("status", "metadata-only"),
        priority |-> Priority(l.priority) + Priority(Of("priority", Unknown)),
        latency |-> FirstKnown(l.latency, Of("latency", Unknown))]

Candidates ==
    {ModelCandidate(m) : m \in snapshot.models} \cup {LocalCandidate(l) : l \in snapshot.locals}

Place(name) == IF Contains(NameOrder, name) THEN SelectInSeq(NameOrder, LAMBDA n : n = name) ELSE 0
Precedes(c, d) ==
    \/ Place(c.provider) < Place(d.provider)
    \/ c.provider = d.provider /\ Place(c.model) < Place(d.model)

\* findCandidateByModel: the first one in the order of names, not the one with that id
Found(name) ==
    {c \in Candidates : name \in c.names /\ \A d \in Candidates : name \in d.names => ~Precedes(d, c)}

-----------------------------------------------------------------------------
(* normalizeRoutingPolicy.                                                 *)

Preset == {p \in snapshot.presets : p.id = question.preset}

\* a boolean of the policy is "unset", "yes" or "no"
Decided(value, fallback) == IF value = "unset" THEN fallback ELSE value = "yes"

\* toDecisionStrategy and back: the names decisions use are accepted too
Canonical(strategy) ==
    CASE strategy = "capability-based" -> "capability"
      [] strategy = "context-window-aware" -> "context-aware"
      [] strategy = "privacy-local-first" -> "local-first"
      [] strategy \in PresetStrategies -> strategy
      [] OTHER -> "balanced"

Explicit == request.provider # None \/ request.model # None

Strategy ==
    LET preset == IF Preset = {} THEN "balanced" ELSE (CHOOSE p \in Preset : TRUE).strategy
        wanted == SelectSeq(<<given.strategy, request.strategy, IF Explicit THEN "explicit" ELSE None, preset>>,
                            LAMBDA s : s # None)
    IN Canonical(Head(wanted))

PresetField(field) == UNION {p[field] : p \in Preset}

FallbackDefault ==
    Decided(request.fallback, \A p \in Preset : p.fallback = "yes")

\* MUTANT: the caller's capabilities replace those of the preset and the request
MergedOverriding ==
    IF given.required # {} THEN given.required ELSE PresetField("required") \cup request.required

MergedRequired == PresetField("required") \cup request.required \cup given.required

Merged ==
    [strategy |-> Strategy,
     required |-> MergedRequired,
     preferred |-> PresetField("preferred") \cup request.preferred \cup given.preferred,
     localRequired |-> Decided(given.localRequired, request.privacy = "local-only"),
     localPreferred |-> Decided(given.localPreferred, \/ request.privacy = "local-first"
                                                      \/ \E p \in Preset : p.localFirst
                                                      \/ Strategy = "local-first"),
     fallback |-> Decided(given.fallback, FallbackDefault),
     maxFallbacks |-> IF given.maxFallbacks < 0 THEN 3 ELSE Min({given.maxFallbacks, 10}),
     allowDisabled |-> Decided(given.allowDisabled, FALSE),
     statuses |-> IF given.statuses = {} THEN {"available", "metadata-only"} ELSE given.statuses,
     neutral |-> given.neutral,
     weights |-> given.weights,
     excludedProviders |-> request.excludedProviders \cup given.excludedProviders,
     excludedModels |-> request.excludedModels \cup given.excludedModels,
     providerIds |-> PresetField("providerIds") \cup given.providerIds,
     modelIds |-> PresetField("modelIds") \cup given.modelIds,
     diverse |-> Decided(given.diverse, TRUE)]

-----------------------------------------------------------------------------
(* filterGatewayRouteCandidates.                                           *)

\* max_tokens limits the output but does not count for the context window
OutputTokens == IF request.output # Unknown THEN request.output ELSE request.maxTokens

RequiredContext ==
    LET estimate == IF request.input # Unknown /\ request.output # Unknown
                    THEN request.input + request.output ELSE Unknown
    IN Max({request.context, estimate})

OutsidePreset(c, p) ==
    When(p.providerIds # {} /\ c.provider \notin p.providerIds, "provider_mismatch")
    \cup When(p.modelIds # {} /\ c.names \cap p.modelIds = {}, "model_mismatch")

OutsideRequest(c) ==
    When(request.provider # None /\ c.provider # request.provider, "provider_mismatch")
    \cup When(request.model # None /\ request.model \notin c.names, "model_mismatch")

TooSmall(c) ==
    When(RequiredContext # Unknown /\ c.context < RequiredContext, "context_window_insufficient")
    \cup When(OutputTokens > 0 /\ c.output # Unknown /\ c.output < OutputTokens, "output_limit_insufficient")

NotLocal(c, p) ==
    When(p.localRequired /\ ~c.local, "local_required")
    \cup When(request.privacy = "local-only" /\ ~c.local, "privacy_policy_mismatch")

Rejections(c, p) ==
    When(~p.allowDisabled /\ ~c.enabled, "disabled")
    \cup When(c.provider \in p.excludedProviders, "provider_excluded")
    \cup When(c.names \cap p.excludedModels # {}, "model_excluded")
    \cup OutsideRequest(c) \cup OutsidePreset(c, p)
    \cup When(~(p.required \subseteq c.capabilities), "capability_missing")
    \cup TooSmall(c) \cup NotLocal(c, p)
    \cup When(~({c.status, c.providerStatus} \subseteq p.statuses), "unsupported_status")

Viable(p) == {c \in Candidates : Rejections(c, p) = {}}

-----------------------------------------------------------------------------
(* scoreGatewayRouteCandidates: nine components, each the rounded share of  *)
(* its weight.                                                             *)

\* Math.round of num / den of the weight
Share(num, den, weight) == (2 * num * weight + den) \div (2 * den)

\* the estimated cost of the request, in millionths
Cost(c) ==
    IF Unknown \in {c.inputCost, c.outputCost, request.input} \/ OutputTokens <= 0 THEN Unknown
    ELSE request.input * c.inputCost + OutputTokens * c.outputCost
Latency(c) == c.latency

KnownCosts(V) == {Cost(c) : c \in V} \ {Unknown}
KnownLatencies(V) == {Latency(c) : c \in V} \ {Unknown}

\* costScore and latencyScore: the least is worth all, the greatest nothing
MetricShare(metric, known, percentUnknown, p, weight) ==
    IF metric = Unknown THEN Share(IF p.neutral THEN 50 ELSE percentUnknown, 100, weight)
    ELSE IF Cardinality(known) = 1 THEN weight
    ELSE Share(Max(known) - metric, Max(known) - Min(known), weight)

PreferredShare(c, p) ==
    IF p.preferred = {} THEN Share(1, 2, p.weights.preferred)
    ELSE Share(Cardinality(p.preferred \cap c.capabilities), Cardinality(p.preferred), p.weights.preferred)

PriorityShare(c, p) ==
    IF c.priority <= 0 THEN Share(1, 2, p.weights.priority)
    ELSE Share(Min({c.priority, 100}), 100, p.weights.priority)

ContextShare(c, p) ==
    IF RequiredContext = Unknown \/ c.context = Unknown THEN Share(1, 2, p.weights.context)
    ELSE LET size == Max({c.context, 1})
             rest == size - (c.context - RequiredContext)
         IN IF 4 * rest >= size THEN Share(rest, size, p.weights.context) ELSE Share(1, 4, p.weights.context)

ExplicitHalves(c) ==
    (IF request.provider = c.provider THEN 1 ELSE 0) + (IF request.model \in c.names THEN 1 ELSE 0)

Contributions(c, V, p) ==
    [capability |-> p.weights.capability,
     preferred |-> PreferredShare(c, p),
     priority |-> PriorityShare(c, p),
     cost |-> MetricShare(Cost(c), KnownCosts(V), 15, p, p.weights.cost),
     latency |-> MetricShare(Latency(c), KnownLatencies(V), 20, p, p.weights.latency),
     context |-> ContextShare(c, p),
     local |-> IF c.local THEN p.weights.local ELSE IF p.localPreferred THEN 0 ELSE Share(1, 2, p.weights.local),
     explicit |-> Share(ExplicitHalves(c), 2, p.weights.explicit),
     status |-> IF c.status = "available" THEN p.weights.status ELSE Share(60, 100, p.weights.status)]

\* rankGatewayRouteCandidates: a strategy doubles one component
Favoured(strategy) ==
    CASE strategy = "capability" -> "preferred"    [] strategy = "cost-first" -> "cost"
      [] strategy = "latency-first" -> "latency"   [] strategy = "context-aware" -> "context"
      [] strategy = "local-first" -> "local"       [] strategy = "explicit" -> "explicit"
      [] strategy = "fallback-chain" -> "status"   [] OTHER -> None

Total(parts) ==
    parts.capability + parts.preferred + parts.priority + parts.cost + parts.latency + parts.context
    + parts.local + parts.explicit + parts.status

\* the score is cut off at 1, the sum of all weights: all candidates have the same weights
Score(c, V, p) ==
    LET parts == Contributions(c, V, p)
    IN Min({Total([name \in DOMAIN parts |-> IF name = Favoured(p.strategy) THEN 2 * parts[name] ELSE parts[name]]),
            Total(p.weights)})

Warnings(c) ==
    When(Cost(c) = Unknown, "cost unknown") \cup When(c.latency = Unknown, "latency unknown")
    \cup When(c.context = Unknown, "context window unknown")

Difference(a, b) == IF Unknown \in {a, b} THEN 0 ELSE a - b

\* MUTANT: what is unknown about a route does not count against it
ComparisonsButWarnings(c, d, score, p) ==
    <<score[d] - score[c],
      IF p.localPreferred /\ c.local # d.local THEN (IF c.local THEN -1 ELSE 1) ELSE 0,
      Difference(Cost(c), Cost(d)), Difference(c.latency, d.latency), d.priority - c.priority,
      Place(c.provider) - Place(d.provider), Place(c.model) - Place(d.model)>>

\* compareScoredCandidates: the first that is not zero decides
Comparisons(c, d, score, p) ==
    <<score[d] - score[c],
      Cardinality(Warnings(c)) - Cardinality(Warnings(d)),
      IF p.localPreferred /\ c.local # d.local THEN (IF c.local THEN -1 ELSE 1) ELSE 0,
      Difference(Cost(c), Cost(d)), Difference(c.latency, d.latency), d.priority - c.priority,
      Place(c.provider) - Place(d.provider), Place(c.model) - Place(d.model)>>

Before(c, d, score, p) ==
    LET signs == Comparisons(c, d, score, p)
    IN \E i \in DOMAIN signs : signs[i] < 0 /\ \A j \in 1 .. (i - 1) : signs[j] = 0

Rankings(V, p) ==
    LET score == [c \in V |-> Score(c, V, p)]
    IN {s \in SetToSeqs(V) : \A i \in 1 .. (Len(s) - 1) : ~Before(s[i + 1], s[i], score, p)}

-----------------------------------------------------------------------------
RouteInit ==
    /\ question \in Questions
    /\ snapshot = [providers |-> {}, models |-> {}, locals |-> {}, presets |-> {}, errors |-> {}]
    /\ stage = "load" /\ merged = <<>> /\ ranking = <<>> /\ index = 0 /\ chain = <<>> /\ used = {}
    /\ answer = "none"

Load ==
    /\ stage = "load"
    /\ snapshot' = Snapshot(question.source)
    /\ stage' = "resolve"
    /\ UNCHANGED <<question, merged, ranking, index, chain, used, answer>>

\* validateRoutingRequest; a request is well formed when its fields have their types
PrivacyPolicies == {"standard", "local-first", "local-only", "no-retention-preferred"}
RequestErrors ==
    When(~request.wellFormed \/ request.context = 0 \/ request.privacy \notin PrivacyPolicies, "invalid_request")
    \cup CapabilityErrors(request.required \cup request.preferred)

\* the checks before the candidates are filtered, in their order
Refusal ==
    CASE RequestErrors # {} -> "validation_failed"
      [] RequestErrors = {} /\ question.preset # None /\ Preset = {} -> "preset_not_found"
      [] OTHER ->
            IF request.provider # None /\ Provider(request.provider) = {} THEN "provider_not_found"
            ELSE IF request.model # None /\ Found(request.model) = {} THEN "model_not_found"
            ELSE IF /\ request.provider # None /\ request.model # None
                    /\ \A c \in Found(request.model) : c.provider # request.provider
                 THEN "provider_model_mismatch"
            ELSE IF Viable(Merged) = {} THEN "no_viable_candidate" ELSE "none"

Refuse ==
    /\ stage = "resolve" /\ Refusal # "none"
    /\ stage' = "done" /\ answer' = Refusal
    /\ UNCHANGED <<question, snapshot, merged, ranking, index, chain, used>>

Rank ==
    /\ stage = "resolve" /\ Refusal = "none"
    /\ merged' = Merged
    /\ ranking' \in Rankings(Viable(Merged), Merged)
    /\ used' = {Head(ranking').provider}
    /\ stage' = "spread"
    /\ UNCHANGED <<question, snapshot, index, chain, answer>>

Selected == Head(ranking)
Candidate == ranking[index + 1]
SameRoute(c, d) == c.provider = d.provider /\ c.model = d.model
Full == Len(chain) >= merged.maxFallbacks
Planned == merged.fallback /\ merged.maxFallbacks > 0

\* MUTANT: the provider of the selected route is not among the used ones
WaitsForFallbacks(c) ==
    /\ merged.diverse /\ c.provider \in {d.provider : d \in Range(chain)}
    /\ \E d \in Range(ranking) : d.provider \notin used

Waits(c) ==
    merged.diverse /\ c.provider \in used /\ \E d \in Range(ranking) : d.provider \notin used

\* the first loop prefers providers it has not used
Spread ==
    /\ stage = "spread" /\ Planned /\ ~Full /\ index < Len(ranking)
    /\ index' = index + 1
    /\ IF SameRoute(Candidate, Selected) \/ Waits(Candidate) THEN UNCHANGED <<chain, used>>
       ELSE chain' = Append(chain, Candidate) /\ used' = used \cup {Candidate.provider}
    /\ UNCHANGED <<question, snapshot, stage, merged, ranking, answer>>

SpreadEnds ==
    /\ stage = "spread"
    /\ \/ ~Planned \/ Full \/ index = Len(ranking)
    /\ stage' = "fill" /\ index' = 0
    /\ UNCHANGED <<question, snapshot, merged, ranking, chain, used, answer>>

\* the second loop takes what the first has passed over
Filling == Planned /\ merged.diverse /\ ~Full /\ index < Len(ranking)

Fill ==
    /\ stage = "fill" /\ Filling
    /\ index' = index + 1
    /\ chain' = IF \E c \in {Selected} \cup Range(chain) : SameRoute(Candidate, c) THEN chain
                ELSE Append(chain, Candidate)
    /\ UNCHANGED <<question, snapshot, stage, merged, ranking, used, answer>>

\* toDecisionStrategy: what a decision calls the strategy of the policy
DecisionStrategy(strategy) ==
    CASE strategy = "capability" -> "capability-based"
      [] strategy = "context-aware" -> "context-window-aware"
      [] strategy = "local-first" -> "privacy-local-first"
      [] OTHER -> strategy

\* validateRouteDecision: a decision has an id, a time and a strategy of its own
RoutingStrategies == {DecisionStrategy(s) : s \in PresetStrategies}
DecisionErrors ==
    When(~question.stamped \/ DecisionStrategy(merged.strategy) \notin RoutingStrategies, "invalid_request")

Decide ==
    /\ stage = "fill" /\ ~Filling
    /\ stage' = "done"
    /\ answer' = IF DecisionErrors = {} THEN "planned" ELSE "validation_failed"
    /\ UNCHANGED <<question, snapshot, merged, ranking, index, chain, used>>

RouteNext == Load \/ Refuse \/ Rank \/ Spread \/ SpreadEnds \/ Fill \/ Decide

RouteSpec == RouteInit /\ [][RouteNext]_routeVars

-----------------------------------------------------------------------------
PlannedRoutes == {Selected} \cup Range(chain)
IsPlan == stage = "done" /\ answer = "planned"

\* The providers and models a route may use are those the preset lists and
\* those the caller's policy lists, together: a caller that lists some adds to
\* the choice of the preset, and does not narrow it.
Listed(field) == PresetField(field) \cup given[field]

\* What the request, the preset or the caller requires of a route holds for
\* the selected one and for every fallback.  The capabilities and exclusions of
\* one are not lifted by another, a request that must stay local stays local
\* whatever the caller's policy says, and the sizes, the provider and the model
\* a request asks for are kept.  Only the lists of preset and caller are united:
\* of them a route meets one or the other (policy.js:103-154, filters.js:29-74,
\* fallback.js:13).
RoutesMeetRequirements ==
    IsPlan => \A r \in PlannedRoutes :
        /\ request.required \cup given.required \cup PresetField("required") \subseteq r.capabilities
        /\ request.privacy = "local-only" \/ given.localRequired = "yes" => r.local
        /\ r.names \cap (request.excludedModels \cup given.excludedModels) = {}
        /\ r.provider \notin request.excludedProviders \cup given.excludedProviders
        /\ request.provider # None => r.provider = request.provider
        /\ request.model # None => request.model \in r.names
        /\ request.context # Unknown => r.context >= request.context
        /\ request.input # Unknown /\ request.output # Unknown => r.context >= request.input + request.output
        /\ OutputTokens > 0 /\ r.output # Unknown => r.output >= OutputTokens
        /\ r.enabled \/ given.allowDisabled = "yes"
        /\ {r.status, r.providerStatus} \subseteq
               IF given.statuses = {} THEN {"available", "metadata-only"} ELSE given.statuses
        /\ Listed("providerIds") # {} => r.provider \in Listed("providerIds")
        /\ Listed("modelIds") # {} => r.names \cap Listed("modelIds") # {}

\* A chain that is spread over the providers goes back to one of them only
\* when no viable provider is left out, names no route twice, and is as long
\* as the limit and the viable routes allow (fallback.js:9-50).
ChainIsSpread ==
    IsPlan /\ Planned /\ merged.diverse
    /\ (\A c, d \in Range(ranking) : SameRoute(c, d) => c = d) =>
        LET plan == <<Selected>> \o chain
            Providers(n) == {plan[i].provider : i \in 1 .. n}
        IN /\ IsInjective(plan)
           /\ Len(chain) = Min({merged.maxFallbacks, Len(ranking) - 1})
           /\ \A i \in 2 .. Len(plan) :
                 plan[i].provider \in Providers(i - 1)
                     => {c.provider : c \in Range(ranking)} \subseteq Providers(i - 1)

\* "Missing cost is not treated as free" and missing latency is not treated as
\* fastest (docs/gateway-routing-strategies.md): a route whose cost or latency
\* is unknown is never selected where one that is alike in everything else is
\* known to have the best of it, although scores saturate, weights may be zero
\* and rounding makes small differences vanish (scoring.js:36-46, 123-136).
Alike(c, d, but) == \A f \in DOMAIN c \ ({"provider", "model", "names"} \cup but) : c[f] = d[f]

UnknownIsNotBest ==
    IsPlan => \A c \in Range(ranking) \ {Selected} :
        ExplicitHalves(c) = ExplicitHalves(Selected) =>
            /\ ~(/\ Alike(c, Selected, {"inputCost", "outputCost"})
                 /\ Cost(Selected) = Unknown /\ Cost(c) # Unknown
                 /\ Cost(c) = Min(KnownCosts(Range(ranking))))
            /\ ~(/\ Alike(c, Selected, {"latency"})
                 /\ c.latency # Unknown /\ Selected.latency = Unknown
                 /\ c.latency = Min(KnownLatencies(Range(ranking))))

\* A registry without errors keeps its presets usable: no model that a preset
\* names by its id is turned away as outside of that preset, for the providers
\* of such models are counted in (normalization.js:252, snapshot.js:104,
\* filters.js:48).  A preset that names a model by an alias has no such luck.
PresetsReachTheirModels ==
    stage # "load" /\ snapshot.errors = {} =>
        \A p \in snapshot.presets, m \in snapshot.models :
            m.id \in p.modelIds /\ m.provider # None =>
                OutsidePreset(ModelCandidate(m), [providerIds |-> p.providerIds, modelIds |-> p.modelIds]) = {}
=============================================================================
