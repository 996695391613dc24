-------------------------- MODULE GovernedDispatch --------------------------
(***************************************************************************)
(* The way of a governed call from the operator's configuration to the     *)
(* injected transport: createGatewayServer checks the configuration,       *)
(* start() compiles it into a dispatcher that keeps frozen copies, and     *)
(* each call passes the dispatcher's routes, the contract check, the       *)
(* execution gate, the transport check and the credential resolver before  *)
(* the transport is invoked.                                               *)
(*                                                                         *)
(* The embedding program still holds the objects it configured with, and   *)
(* may change them at any time: the copies must not follow, while the      *)
(* transport and the environment are used by reference and do.             *)
(*                                                                         *)
(* A URL is the verdict of the destination policy (TransportPolicy), its   *)
(* host and its path as a sequence of characters; a check of a record's    *)
(* shape (allowed keys, field types, contract version) is one boolean.     *)
(***************************************************************************)
EXTENDS Naturals, Sequences, SequencesExt

CONSTANTS
    Configs,        \* configurations a server may be created with
    Edits,          \* configurations the program may turn its objects into
    Transports,     \* the methods a transport may have
    Environments,   \* per environment variable, what it holds
    Keys,           \* model names a request may have
    UnsafeNames,    \* names that are reserved or break the pattern of safe keys
    MockKeys,       \* names of the mock provider's models
    Sizes,          \* bytes a normalized request may have
    Calls,          \* calls
    MaxChanges,     \* bound on the changes the program makes
    MaxStarts       \* bound on the starts of the server

NoEnv == "no variable"
ProviderCapabilities == {"chat", "streaming", "tools"}
NoRef == [env |-> NoEnv, wellFormed |-> FALSE]
NotSent == [provider |-> "none"]

\* A request may name the model of any route; a path is a sequence of characters.
IsPath(path) == path \in Seq(ToSet(path))
ASSUME DispatchAssumption ==
    \A config \in Configs \cup Edits :
        /\ Len(config.routes) \in Nat /\ DOMAIN config.routes = 1 .. Len(config.routes)
        /\ \A i \in DOMAIN config.routes :
              LET r == config.routes[i]
              IN r.key \in Keys /\ r = [key |-> r.key, provider |-> r.provider, model |-> r.model]
        /\ \A p \in DOMAIN config.providers :
              LET c == config.providers[p]
              IN IsPath(c.endpoint.url.path) /\ IsPath(c.adapter.base.path)

VARIABLES
    server,        \* "none", "refused", "created", "running" or "stopped"
    given,         \* the configuration objects the program holds
    transport,     \* the methods of the transport object
    environment,   \* the environment object
    checked,       \* what createGatewayServer saw
    origin,        \* what the running dispatcher was compiled from
    compiled,      \* the dispatcher's private copies
    calls,         \* per call: the request, its outcome, what was sent
    changes, starts

vars == <<server, given, transport, environment, checked, origin, compiled, calls, changes, starts>>

-----------------------------------------------------------------------------
(* Destinations.                                                           *)

\* a path without its trailing slashes
Stripped(path) == SubSeq(path, 1, SelectLastInSeq(path, LAMBDA ch : ch # "/"))

SameOrBelow(path, base) == path = base \/ IsPrefix(Append(base, "/"), path)

\* validateEndpointBinding: "ok" or the code of the denial
Binding(url, base) ==
    IF url.verdict # "ok" THEN url.verdict
    ELSE IF /\ base.verdict = "ok" /\ url.host = base.host
            /\ SameOrBelow(Stripped(url.path), Stripped(base.path))
         THEN "ok" ELSE "endpoint_forbidden"

-----------------------------------------------------------------------------
(* The contracts of the records, asked when compiling and again by each     *)
(* call.  The field wellFormed stands for the checks of keys and types.     *)

SafeKey(name) == name \notin UnsafeNames

AdapterContract(adapter) ==
    /\ adapter.wellFormed /\ adapter.models # {}
    /\ adapter.vocabulary \subseteq ProviderCapabilities
    /\ adapter.env # NoEnv => SafeKey(adapter.env)

EndpointContract(endpoint) ==
    endpoint.wellFormed /\ endpoint.url.verdict = "ok" /\ ~endpoint.redirects

\* timeouts in seconds; the limit is max_request_bytes, of at most 50 MB
Limits == {n \in Nat \ {0} : n <= 52428800}
PolicyContract(policy) ==
    /\ policy.wellFormed /\ policy.attempts = 1 /\ ~policy.redirects
    /\ policy.timeout \in 1 .. 300 /\ policy.limit \in Limits

CapabilityContract(capability) == capability.wellFormed

ReferenceContract(ref) == ref.wellFormed /\ SafeKey(ref.env)

-----------------------------------------------------------------------------
(* compileGovernedRuntimeConfig.                                           *)

When(condition, error) == IF condition THEN {error} ELSE {}

AdapterErrors(p, c) ==
    IF ~AdapterContract(c.adapter) THEN {"invalid_adapter"}
    ELSE When(c.adapter.type # "openai-compatible", "invalid_adapter_type")
         \cup When(c.adapter.id # p, "provider_id_mismatch")

EndpointErrors(c) ==
    When(~EndpointContract(c.endpoint), "invalid_endpoint")
    \cup When(Binding(c.endpoint.url, c.adapter.base) # "ok", "invalid_endpoint_binding")

\* MUTANT: a provider that is not among the allowed ones compiles
PolicyErrorsOfEnabled(p, c) ==
    IF ~PolicyContract(c.policy) THEN {"invalid_policy"} ELSE When(~c.policy.enabled, "provider_not_enabled")

PolicyErrors(p, c) ==
    IF ~PolicyContract(c.policy) THEN {"invalid_policy"}
    ELSE When(~c.policy.enabled, "provider_not_enabled")
         \cup When(p \notin c.policy.allowed, "provider_not_allowed")

CapabilityErrors(c, enabled, methods) ==
    IF ~CapabilityContract(c.capability) THEN {"invalid_capability"}
    ELSE When(~c.capability.chat \/ ~(c.capability.plain \/ c.capability.sse), "unusable_capability")
         \cup When(enabled /\ \/ c.capability.plain /\ "execute" \notin methods
                              \/ c.capability.sse /\ "stream" \notin methods, "invalid_transport")

ReferenceErrors(c) ==
    IF c.adapter.env = NoEnv THEN When(c.ref # NoRef, "forbidden_credential_ref")
    ELSE IF c.ref = NoRef THEN {"missing_credential_ref"}
    ELSE IF ~ReferenceContract(c.ref) THEN {"invalid_credential_ref"}
    ELSE When(c.ref.env # c.adapter.env, "credential_ref_mismatch")

ProviderErrors(p, config, methods) ==
    LET c == config.providers[p]
    IN IF ~SafeKey(p) THEN {"invalid_provider_id"}
       ELSE UNION {AdapterErrors(p, c), EndpointErrors(c), PolicyErrors(p, c),
                   CapabilityErrors(c, config.enabled, methods), ReferenceErrors(c)}

Validated(config, methods) ==
    {p \in DOMAIN config.providers : ProviderErrors(p, config, methods) = {}}

\* MUTANT: a route may lead to a provider that is not configured
RouteErrorsOfKeys(i, config, methods) ==
    IF SafeKey(config.routes[i].key) THEN {} ELSE {"invalid_model_key"}

RouteErrors(i, config, methods) ==
    LET r == config.routes[i]
        valid == Validated(config, methods)
    IN IF ~SafeKey(r.key) THEN {"invalid_model_key"}
       ELSE IF \E j \in 1 .. i - 1 : config.routes[j].key = r.key THEN {"duplicate_model_route"}
       ELSE IF ~SafeKey(r.provider) \/ ~SafeKey(r.model) THEN {"invalid_model_route"}
       ELSE IF r.provider \notin valid THEN When(config.enabled, "unconfigured_provider")
       ELSE When(r.model \notin config.providers[r.provider].adapter.models, "unknown_model")

Errors(config, methods) ==
    When(~config.wellFormed, "invalid_environment")
    \cup When(config.enabled /\ "execute" \notin methods, "invalid_transport")
    \cup (UNION {ProviderErrors(p, config, methods) : p \in DOMAIN config.providers})
    \cup (UNION {RouteErrors(i, config, methods) : i \in DOMAIN config.routes})

NoProviders == [p \in {} |-> NotSent]
Failed == [success |-> FALSE, enabled |-> FALSE, providers |-> NoProviders, routes |-> <<>>]

Compiled(config, methods) ==
    IF Errors(config, methods) # {} THEN Failed
    ELSE [success |-> TRUE, enabled |-> config.enabled,
          providers |-> config.providers, routes |-> config.routes]

-----------------------------------------------------------------------------
(* The dispatcher.                                                         *)

Routed(key) == \E i \in DOMAIN compiled.routes : compiled.routes[i].key = key
RouteOf(key) == compiled.routes[CHOOSE i \in DOMAIN compiled.routes : compiled.routes[i].key = key]

ResolveRoute(key) ==
    IF SafeKey(key) /\ Routed(key)
    THEN IF compiled.enabled THEN "governed-external" ELSE "disabled-external"
    ELSE IF SafeKey(key) /\ key \in MockKeys THEN "mock" ELSE "unknown"

\* what /v1/models lists beside the mock provider's models
ListExternalModels ==
    {key \in Keys : /\ compiled.enabled /\ Routed(key)
                    /\ RouteOf(key).provider \in DOMAIN compiled.providers
                    /\ compiled.providers[RouteOf(key).provider].policy.enabled}

-----------------------------------------------------------------------------
(* One call: from its checks to the invocation of the transport.           *)

\* validateExecutionRequest
ContractHolds(q, c) ==
    /\ q.wellFormed
    /\ c.ref = NoRef \/ ReferenceContract(c.ref)
    /\ EndpointContract(c.endpoint)
    /\ PolicyContract(c.policy) /\ (c.policy.enabled => c.ref # NoRef)
    /\ CapabilityContract(c.capability) /\ (q.stream => c.capability.sse)

\* the capability and the adapter's vocabulary have what the request needs
Offers(c, q) ==
    /\ c.capability.chat /\ "chat" \in c.adapter.vocabulary
    /\ IF q.stream THEN c.capability.sse /\ "streaming" \in c.adapter.vocabulary
                   ELSE c.capability.plain
    /\ q.tools => c.capability.tools /\ "tools" \in c.adapter.vocabulary

\* evaluateExecutionGate: the first denial, or "allowed"
Gate(q, p, c) ==
    IF ~PolicyContract(c.policy) \/ ~c.policy.enabled THEN "execution_disabled"
    ELSE IF p \notin c.policy.allowed THEN "provider_not_enabled"
    ELSE IF \/ c.policy.attempts # 1 \/ c.policy.redirects
            \/ c.policy.timeout \notin 1 .. 600 \/ c.policy.limit = 0 THEN "execution_disabled"
    ELSE IF \/ ~AdapterContract(c.adapter) \/ c.adapter.id # p
            \/ c.adapter.type # "openai-compatible" THEN "provider_not_enabled"
    ELSE IF ~ContractHolds(q, c) THEN "request_invalid"
    ELSE IF Binding(c.endpoint.url, c.adapter.base) # "ok" THEN Binding(c.endpoint.url, c.adapter.base)
    ELSE IF ~Offers(c, q) THEN "unsupported_capability"
    ELSE IF c.adapter.env # NoEnv /\ c.ref # NoRef /\ c.ref.env # c.adapter.env
         THEN "credential_reference_invalid"
    ELSE "allowed"

SecretIsSet(c, env) == c.adapter.env # NoEnv /\ env[c.adapter.env] = "secret"

\* resolveEnvironmentCredential: whether it ends with a live credential.  A variable that
\* is absent, empty, blank, no string, too long or has control characters gives none; the
\* executors refuse a call without one even where the reference is not "required"
Resolves(p, c, env) ==
    /\ AdapterContract(c.adapter) /\ c.adapter.id = p
    /\ ReferenceContract(c.ref) /\ c.ref.env = c.adapter.env
    /\ SecretIsSet(c, env)

\* the transport is asked for the method the call needs
TransportServes(q) == IF q.stream THEN "stream" \in transport ELSE "execute" \in transport

\* the plain executor has one code for every breach of the contract, the streaming one maps
\* the code of the first
ContractCode(q, c) ==
    IF ~q.stream \/ ~q.wellFormed THEN "request_invalid"
    ELSE IF c.policy.enabled /\ c.ref = NoRef THEN "execution_disabled"
    ELSE "unsupported_capability"

\* normalizeOpenAIExecutionRequest asks once more for what the contract and the gate asked
Normalizes(q, c) ==
    ContractHolds(q, c) /\ (q.stream => c.capability.sse) /\ (q.tools => c.capability.tools)

\* the order of both executors: contract, gate, transport, credential, normalization, size
Preflight(q, p, c) ==
    IF ~ContractHolds(q, c) THEN ContractCode(q, c)
    ELSE IF Gate(q, p, c) # "allowed" THEN Gate(q, p, c)
    ELSE IF ~TransportServes(q) THEN "internal_execution_error"
    ELSE IF c.ref # NoRef /\ ~Resolves(p, c, environment) THEN "credential_unavailable"
    ELSE IF ~Normalizes(q, c) THEN "request_invalid"
    ELSE IF q.size > c.policy.limit THEN "request_too_large"
    ELSE "sent"

Requests == [key : Keys, stream : BOOLEAN, tools : BOOLEAN, wellFormed : BOOLEAN, size : Sizes]
NoRequest == [key |-> "none", stream |-> FALSE, tools |-> FALSE, wellFormed |-> FALSE, size |-> 0]

-----------------------------------------------------------------------------
\* MUTANT: the dispatcher keeps the program's objects instead of copies
ProvidersInUseAsGiven == given.providers

ProvidersInUse == compiled.providers

Ends(k, q, code) ==
    calls' = [calls EXCEPT ![k] = [request |-> q, at |-> "refused", code |-> code, sent |-> NotSent]]

Sends(k, q, p, c) ==
    calls' = [calls EXCEPT ![k] =
        [request |-> q, at |-> "sent", code |-> "none",
         sent |-> [provider |-> p, model |-> RouteOf(q.key).model, url |-> c.endpoint.url,
                   adapter |-> c.adapter.id, env |-> c.ref.env]]]

\* executeRoute and executeStreamRoute
Execute(k, q) ==
    LET p == RouteOf(q.key).provider
        c == ProvidersInUse[p]
        code == Preflight(q, p, c)
    IN IF p \notin DOMAIN ProvidersInUse THEN Ends(k, q, "internal_error")
       ELSE IF code = "sent" THEN Sends(k, q, p, c) ELSE Ends(k, q, code)

Route(k, q) ==
    LET type == ResolveRoute(q.key)
    IN \/ type = "unknown" /\ Ends(k, q, "model_not_found")
       \/ type = "disabled-external" /\ Ends(k, q, "execution_disabled")
       \/ type = "mock" /\ Ends(k, q, "mock")
       \/ type = "governed-external" /\ Execute(k, q)

\* a request that reaches the handler's route decision
Call(k) ==
    /\ server = "running" /\ calls[k].at = "new"
    /\ \E q \in Requests :
          /\ q.wellFormed \/ ResolveRoute(q.key) = "governed-external"
          /\ Route(k, q)
    /\ UNCHANGED <<server, given, transport, environment, checked, origin, compiled, changes, starts>>

\* createGatewayServer
CreateServer ==
    /\ server = "none"
    /\ server' = IF Compiled(given, transport).success THEN "created" ELSE "refused"
    /\ checked' = given
    /\ UNCHANGED <<given, transport, environment, origin, compiled, calls, changes, starts>>

\* start(): createGatewayApp compiles the configuration again, and does not ask whether it
\* compiled
Start ==
    /\ server \in {"created", "stopped"} /\ starts < MaxStarts
    /\ server' = "running" /\ starts' = starts + 1
    /\ origin' = given
    /\ compiled' = Compiled(given, transport)
    /\ UNCHANGED <<given, transport, environment, checked, calls, changes>>

Stop ==
    /\ server = "running" /\ server' = "stopped"
    /\ UNCHANGED <<given, transport, environment, checked, origin, compiled, calls, changes, starts>>

\* the program changes the objects it configured the server with
Edit ==
    /\ server # "refused" /\ changes < MaxChanges /\ changes' = changes + 1
    /\ \/ given' \in Edits \ {given} /\ UNCHANGED <<transport, environment>>
       \/ transport' \in Transports \ {transport} /\ UNCHANGED <<given, environment>>
       \/ environment' \in Environments \ {environment} /\ UNCHANGED <<given, transport>>
    /\ UNCHANGED <<server, checked, origin, compiled, calls, starts>>

Init ==
    /\ server = "none" /\ given \in Configs
    /\ transport \in Transports /\ environment \in Environments
    /\ checked = given /\ origin = given
    /\ compiled = Failed
    /\ calls = [k \in Calls |-> [request |-> NoRequest, at |-> "new", code |-> "none", sent |-> NotSent]]
    /\ changes = 0 /\ starts = 0

Next == CreateServer \/ Start \/ Stop \/ Edit \/ \E k \in Calls : Call(k)

Spec == Init /\ [][Next]_vars

-----------------------------------------------------------------------------
(* Correctness.                                                            *)

Decided(k) == calls[k].at = "new" /\ calls'[k].at # "new"

\* the path is the base's, or continues it after a slash
Descends(path, base) ==
    LET n == Len(base)
    IN /\ n <= Len(path) /\ \A i \in 1 .. n : path[i] = base[i]
       /\ n = Len(path) \/ path[n + 1] = "/"

Authorized(config, q, sent) ==
    LET c == config.providers[sent.provider]
    IN /\ config.enabled
       /\ \E i \in DOMAIN config.routes :
             config.routes[i] = [key |-> q.key, provider |-> sent.provider, model |-> sent.model]
       /\ sent.model \in c.adapter.models /\ sent.adapter = sent.provider
       /\ c.policy.enabled /\ sent.provider \in c.policy.allowed
       /\ sent.url = c.endpoint.url /\ sent.url.verdict = "ok"
       /\ sent.url.host = c.adapter.base.host
       /\ Descends(Stripped(sent.url.path), Stripped(c.adapter.base.path))
       /\ q.wellFormed /\ (q.tools => c.capability.tools) /\ ~(q.size > c.policy.limit)
       /\ IF q.stream THEN c.capability.sse ELSE c.capability.plain
       /\ sent.env = c.adapter.env

\* Whatever reaches the transport is what the configuration allowed when the server was
\* started: the route's provider and model, an allowed provider, an endpoint below the
\* adapter's base, the adapter's own variable.  What the program did to its objects since
\* then, and which of the checks noticed what, makes no difference.
SentIsAuthorized ==
    [][\A k \in Calls : Decided(k) /\ calls'[k].at = "sent"
          => Authorized(origin, calls'[k].request, calls'[k].sent)]_vars

\* why a call to a model that is listed may be refused.  Compiling asks for none of this, so
\* four of the causes may hold for every call: a provider without a credential, an adapter
\* without "chat", a transport without "stream", and a limit no request keeps
CausesOf(q, c) ==
    [request_invalid |-> ~q.wellFormed \/ c.ref = NoRef,
     execution_disabled |-> q.stream /\ c.ref = NoRef,
     unsupported_capability |-> ~Offers(c, q),
     internal_execution_error |-> ~TransportServes(q),
     credential_unavailable |-> ~SecretIsSet(c, environment),
     request_too_large |-> q.size > c.policy.limit]

\* A model that /v1/models lists is never refused for what compiling has checked: the
\* contract check, the gate, the resolver and the normalization check it again, each with
\* code of its own, and a refusal has one of the causes above.
ListedIsRefusedForCause ==
    [][\A k \in Calls :
          LET q == calls'[k].request
              c == compiled.providers[RouteOf(q.key).provider]
              code == calls'[k].code
          IN Decided(k) /\ calls'[k].at = "refused" /\ q.key \in ListExternalModels
               => code \in DOMAIN CausesOf(q, c) /\ CausesOf(q, c)[code]]_vars

\* Authorization is exact: the checks let through nothing that was not configured, and hold
\* back nothing that was but for the causes above.
AuthorizationIsExact == SentIsAuthorized /\ ListedIsRefusedForCause

\* A server that was created and whose objects nobody changed runs with all of it: every
\* route of an enabled configuration is listed, and every listed model is routed.
AcceptedIsListed ==
    server = "running" /\ changes = 0 =>
        ListExternalModels = {given.routes[i].key : i \in {j \in DOMAIN given.routes : given.enabled}}

\* tests/integration/gateway-governed-runtime.test.js:126: a mutation of the source objects
\* after their validation cannot alter execution.  The dispatcher in use was compiled from
\* what createGatewayServer validated.
RunsWhatWasChecked == server = "running" => origin = checked
=============================================================================
