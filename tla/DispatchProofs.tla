---------------------------- MODULE DispatchProofs ----------------------------
(***************************************************************************)
(* Proofs about the way of a governed call to its upstream and back.       *)
(*                                                                         *)
(* GovernedDispatch, for every set of configurations, with any number of   *)
(* providers, routes, models and calls, and for any changes the program    *)
(* makes to its objects.  DInv is the inductive invariant: the dispatcher  *)
(* in use is a copy of a configuration that compiled (CompiledIsSound),    *)
(* and while nothing has been changed it is the configuration the server   *)
(* was created with (UnchangedRuns).  What a configuration without errors  *)
(* guarantees is said once, in SoundProvider and SoundRoute; the checks of *)
(* a call are compared with it.                                            *)
(*                                                                         *)
(* OpenAIAdapter, for every set of calls, whatever the upstream sends and  *)
(* however it is cut.  A scan of the buffer is a function of the number of *)
(* tokens read (ScanSteps); if it were ever not sound there would be a     *)
(* least number of tokens after which it is not, and ReadTokenSound        *)
(* excludes that.  What is handed on is collected in the same way.         *)
(*                                                                         *)
(* That fragments do not show (FragmentIInv) is said of a position in the  *)
(* body.  Ended, OpenLine, OpenGroup and Complete take the part of a body  *)
(* that was read apart, by the Split that also takes the whole apart; a    *)
(* token more changes them as ReadToken changes a scan (TokenLine).  So a  *)
(* parser that has read to some position (Follows) has, after a fragment,  *)
(* read to a later one, given up, or come to the [DONE] (FeedReads), what  *)
(* it has emitted stands first in what the whole body says (CompleteStays) *)
(* and is handed on as it is handed on there (HeardOn).                    *)
(***************************************************************************)
EXTENDS GovernedDispatch, OpenAIAdapter, SequenceTheorems, FiniteSetTheorems, WellFoundedInduction, TLAPS

-----------------------------------------------------------------------------
(* GovernedDispatch.                                                       *)

(* A configuration has no errors with the methods of some transport. *)
Compiles(config) == \E methods : Errors(config, methods) = {}

CompiledIsSound ==
    \/ compiled = Failed
    \/ /\ Compiles(origin)
       /\ compiled = [success |-> TRUE, enabled |-> origin.enabled,
                      providers |-> origin.providers, routes |-> origin.routes]

(* While nothing has been changed, what was checked is what runs. *)
UnchangedRuns ==
    changes = 0 =>
        /\ server \in {"created", "running", "stopped"} => Errors(given, transport) = {}
        /\ server = "running" => origin = given /\ compiled = Compiled(given, transport)

Typed ==
    /\ given \in Configs \cup Edits /\ origin \in Configs \cup Edits
    /\ changes \in Nat
    /\ calls = [k \in Calls |-> calls[k]]

DInv == Typed /\ CompiledIsSound /\ UnchangedRuns

-----------------------------------------------------------------------------
(* Paths.                                                                  *)

LEMMA MaxExists ==
    ASSUME NEW bound \in Nat, NEW T \in SUBSET (0 .. bound), T # {}
    PROVE  \E x \in T : \A y \in T : y <= x
<1> DEFINE S == {bound - x : x \in T}
           R == OpToRel(<, Nat)
<1>1. S \in SUBSET Nat /\ S # {}
  <2>1. \A x \in T : bound - x \in Nat
    OBVIOUS
  <2>2. QED
    BY <2>1
<1>2. PICK l \in S : \A m \in S : ~(<<m, l>> \in R)
  BY <1>1, NatLessThanWellFounded, WFMin, Zenon
<1>3. PICK x \in T : l = bound - x
  OBVIOUS
<1>4. ASSUME NEW y \in T PROVE y <= x
  <2>1. bound - y \in S /\ bound - y \in Nat /\ l \in Nat
    BY <1>1, <1>3
  <2>2. ~(bound - y < l)
    BY <1>2, <2>1 DEF OpToRel
  <2>3. QED
    BY <1>3, <2>2
<1>5. QED
  BY <1>4

LEMMA StrippedIsPath ==
    ASSUME NEW S, NEW path \in Seq(S)
    PROVE  Stripped(path) \in Seq(S)
<1> DEFINE I == {i \in 1 .. Len(path) : path[i] # "/"}
       n == IF I # {} THEN CHOOSE x \in I : \A y \in I : x >= y ELSE 0
<1>2. n \in 0 .. Len(path) /\ Len(path) \in Nat
  <2>1. CASE I = {}
    BY <2>1
  <2>2. CASE I # {}
    <3>1. I \in SUBSET (0 .. Len(path)) /\ Len(path) \in Nat
      OBVIOUS
    <3>2. PICK x \in I : \A y \in I : y <= x
      BY <2>2, <3>1, MaxExists
    <3>3. \E z \in I : \A y \in I : z >= y
      BY <3>1, <3>2
    <3>4. n \in I
      BY <2>2, <3>3
    <3>5. QED
      BY <3>1, <3>4
  <2>3. QED
    BY <2>1, <2>2
<1>3. Stripped(path) = SubSeq(path, 1, n)
  BY DEF Stripped, SelectLastInSeq, Max
<1>4. \A i \in 1 .. n : path[i] \in S
  BY <1>2, ElementOfSeq
<1>5. QED
  BY <1>2, <1>3, <1>4, SubSeqProperties, SMTT(60)

(* A path that is below a base descends from it: the base's characters first, then a slash. *)
LEMMA BelowDescends ==
    ASSUME NEW S, NEW path \in Seq(S), NEW base \in Seq(S), SameOrBelow(path, base)
    PROVE  Descends(path, base)
<1>1. CASE path = base
  BY <1>1 DEF Descends
<1>2. CASE IsPrefix(Append(base, "/"), path)
  <2>1. PICK n \in Nat : n = Len(base)
    OBVIOUS
  <2>2. PICK full : full = Append(base, "/")
    OBVIOUS
  <2>3. /\ full \in Seq(S \cup {"/"}) /\ Len(full) = n + 1 /\ full[n + 1] = "/"
        /\ \A i \in 1 .. n : full[i] = base[i]
    <3>1. base \in Seq(S \cup {"/"})
      BY SeqMonotonic
    <3>2. QED
      BY <2>1, <2>2, <3>1
  <2>4. n + 1 <= Len(path) /\ SubSeq(full, 1, n + 1) = SubSeq(path, 1, n + 1) /\ Len(path) \in Nat
    BY <1>2, <2>2, <2>3 DEF IsPrefix
  <2>5. \A i \in 1 .. n + 1 : full[i] = path[i]
    <3>1. \A i \in 1 .. n + 1 : SubSeq(full, 1, n + 1)[i] = full[i]
      BY <2>1, <2>3
    <3>2. \A i \in 1 .. n + 1 : SubSeq(path, 1, n + 1)[i] = path[i]
      BY <2>1, <2>4
    <3>3. QED
      BY <2>4, <3>1, <3>2
  <2>6. n <= Len(path) /\ (\A i \in 1 .. n : path[i] = base[i]) /\ path[n + 1] = "/"
    BY <2>1, <2>3, <2>4, <2>5
  <2>7. QED
    BY <2>1, <2>6 DEF Descends
<1>3. QED
  BY <1>1, <1>2 DEF SameOrBelow

-----------------------------------------------------------------------------
(* What a configuration without errors guarantees.                         *)

LEMMA SoundProvider ==
    ASSUME NEW config, NEW methods, NEW p \in DOMAIN config.providers,
           Errors(config, methods) = {},
           NEW c, c = config.providers[p]
    PROVE  /\ p \in Validated(config, methods) /\ SafeKey(p)
           /\ AdapterContract(c.adapter) /\ c.adapter.type = "openai-compatible" /\ c.adapter.id = p
           /\ EndpointContract(c.endpoint) /\ Binding(c.endpoint.url, c.adapter.base) = "ok"
           /\ PolicyContract(c.policy) /\ c.policy.enabled /\ p \in c.policy.allowed
           /\ CapabilityContract(c.capability) /\ c.capability.chat
           /\ \/ c.adapter.env = NoEnv /\ c.ref = NoRef
              \/ c.ref # NoRef /\ ReferenceContract(c.ref) /\ c.ref.env = c.adapter.env
<1>1. ProviderErrors(p, config, methods) = {}
  BY DEF Errors
<1>2. SafeKey(p)
  BY <1>1 DEF ProviderErrors
<1>3. /\ AdapterErrors(p, c) = {} /\ EndpointErrors(c) = {} /\ PolicyErrors(p, c) = {}
      /\ CapabilityErrors(c, config.enabled, methods) = {} /\ ReferenceErrors(c) = {}
  BY <1>1, <1>2 DEF ProviderErrors
<1>4. AdapterContract(c.adapter) /\ c.adapter.type = "openai-compatible" /\ c.adapter.id = p
  BY <1>3 DEF AdapterErrors, When
<1>5. EndpointContract(c.endpoint) /\ Binding(c.endpoint.url, c.adapter.base) = "ok"
  BY <1>3 DEF EndpointErrors, When
<1>6. PolicyContract(c.policy) /\ c.policy.enabled /\ p \in c.policy.allowed
  BY <1>3 DEF PolicyErrors, When
<1>7. CapabilityContract(c.capability) /\ c.capability.chat
  BY <1>3 DEF CapabilityErrors, When
<1>8. \/ c.adapter.env = NoEnv /\ c.ref = NoRef
      \/ c.ref # NoRef /\ ReferenceContract(c.ref) /\ c.ref.env = c.adapter.env
  BY <1>3 DEF ReferenceErrors, When
<1>9. QED
  BY <1>1, <1>2, <1>4, <1>5, <1>6, <1>7, <1>8 DEF Validated

LEMMA SoundRoute ==
    ASSUME NEW config, NEW methods, NEW i \in DOMAIN config.routes,
           Errors(config, methods) = {}, config.enabled
    PROVE  LET r == config.routes[i]
           IN /\ SafeKey(r.key) /\ r.provider \in DOMAIN config.providers
              /\ r.model \in config.providers[r.provider].adapter.models
              /\ ~ \E j \in 1 .. i - 1 : config.routes[j].key = r.key
<1>1. RouteErrors(i, config, methods) = {}
  BY DEF Errors
<1>2. QED
  BY <1>1 DEF RouteErrors, When, Validated
-----------------------------------------------------------------------------
(* The dispatcher in use.                                                  *)

LEMMA InUse ==
    ASSUME DInv, compiled.enabled
    PROVE  /\ origin.enabled /\ compiled.providers = origin.providers /\ compiled.routes = origin.routes
           /\ Compiles(origin) /\ origin \in Configs \cup Edits
BY DEF DInv, Typed, CompiledIsSound, Failed

LEMMA RouteOfRouted ==
    ASSUME NEW key, Routed(key)
    PROVE  \E i \in DOMAIN compiled.routes : compiled.routes[i].key = key /\ RouteOf(key) = compiled.routes[i]
BY DEF Routed, RouteOf

(* A step that decides a call is that call's, and it takes the way Route describes. *)
LEMMA DecidedByRoute ==
    ASSUME DInv, [Next]_vars, NEW k \in Calls, Decided(k)
    PROVE  \E q \in Requests : Route(k, q)
<1>1. calls' # calls
  BY DEF Decided
<1>2. PICK j \in Calls : Call(j)
  BY <1>1 DEF Next, CreateServer, Start, Stop, Edit, vars
<1>3. PICK q \in Requests : Route(j, q)
  BY <1>2 DEF Call
<1>4. \A l \in Calls : l # j => calls'[l] = calls[l]
  BY <1>3 DEF DInv, Typed, Route, Execute, Ends, Sends
<1>5. QED
  BY <1>3, <1>4 DEF Decided

LEMMA SentByExecute ==
    ASSUME DInv, NEW k \in Calls, NEW q \in Requests, Route(k, q), calls'[k].at = "sent"
    PROVE  LET p == RouteOf(q.key).provider
               c == compiled.providers[p]
           IN /\ Routed(q.key) /\ compiled.enabled /\ p \in DOMAIN compiled.providers
              /\ Preflight(q, p, c) = "sent" /\ calls'[k].request = q
              /\ calls'[k].sent = [provider |-> p, model |-> RouteOf(q.key).model, url |-> c.endpoint.url,
                                   adapter |-> c.adapter.id, env |-> c.ref.env]
<1>1. \A code : ~Ends(k, q, code)
  BY DEF DInv, Typed, Ends
<1>2. ResolveRoute(q.key) = "governed-external" /\ Execute(k, q)
  BY <1>1 DEF Route
<1>3. Routed(q.key) /\ compiled.enabled
  BY <1>2 DEF ResolveRoute
<1> DEFINE p == RouteOf(q.key).provider
           c == compiled.providers[p]
<1>4. p \in DOMAIN compiled.providers /\ Preflight(q, p, c) = "sent" /\ Sends(k, q, p, c)
  BY <1>1, <1>2 DEF Execute, ProvidersInUse
<1>5. /\ calls'[k].request = q
      /\ calls'[k].sent = [provider |-> p, model |-> RouteOf(q.key).model, url |-> c.endpoint.url,
                           adapter |-> c.adapter.id, env |-> c.ref.env]
  BY <1>4 DEF Sends, DInv, Typed
<1>6. QED
  BY <1>3, <1>4, <1>5

(* A binding is asked for only where the destination itself is in order. *)
LEMMA BindingDenies ==
    ASSUME NEW q, NEW c, ContractHolds(q, c)
    PROVE  Binding(c.endpoint.url, c.adapter.base) \in {"ok", "endpoint_forbidden"}
BY DEF ContractHolds, EndpointContract, Binding

LEMMA GatePassed ==
    ASSUME NEW q, NEW p, NEW c, ContractHolds(q, c), Gate(q, p, c) = "allowed"
    PROVE  /\ c.policy.enabled /\ p \in c.policy.allowed /\ c.adapter.id = p
           /\ Binding(c.endpoint.url, c.adapter.base) = "ok" /\ Offers(c, q)
BY BindingDenies DEF Gate

(* What passes the checks. *)
LEMMA PreflightPassed ==
    ASSUME NEW q, NEW p, NEW c, Preflight(q, p, c) = "sent"
    PROVE  /\ ContractHolds(q, c) /\ Gate(q, p, c) = "allowed"
           /\ c.ref # NoRef => Resolves(p, c, environment)
           /\ ~(q.size > c.policy.limit)
<1>1. ContractHolds(q, c)
  BY DEF Preflight, ContractCode
<1>2. Gate(q, p, c) # "sent"
  BY <1>1, BindingDenies DEF Gate
<1>3. QED
  BY <1>1, <1>2 DEF Preflight

(* Whatever is sent is what the configuration the dispatcher was compiled from allows. *)
LEMMA RouteIsAuthorized ==
    ASSUME DInv, NEW k \in Calls, NEW q \in Requests, Route(k, q), calls'[k].at = "sent"
    PROVE  Authorized(origin, calls'[k].request, calls'[k].sent)
<1>1. PICK r : r = RouteOf(q.key)
  OBVIOUS
<1>2. PICK p : p = r.provider
  OBVIOUS
<1>3. PICK c : c = compiled.providers[p]
  OBVIOUS
<1>4. PICK message : message = calls'[k].sent
  OBVIOUS
<1>5. /\ Routed(q.key) /\ compiled.enabled /\ p \in DOMAIN compiled.providers
      /\ Preflight(q, p, c) = "sent" /\ calls'[k].request = q
      /\ message = [provider |-> p, model |-> r.model, url |-> c.endpoint.url,
                 adapter |-> c.adapter.id, env |-> c.ref.env]
  BY <1>1, <1>2, <1>3, <1>4, SentByExecute
<1>6. /\ origin.enabled /\ compiled.providers = origin.providers /\ compiled.routes = origin.routes
      /\ Compiles(origin) /\ origin \in Configs \cup Edits
  BY <1>5, InUse
<1>7. p \in DOMAIN origin.providers /\ c = origin.providers[p]
  BY <1>3, <1>5, <1>6
<1>8. PICK i \in DOMAIN origin.routes : origin.routes[i].key = q.key /\ r = origin.routes[i]
  BY <1>1, <1>5, <1>6, RouteOfRouted
<1>9. origin.routes[i] = [key |-> q.key, provider |-> p, model |-> r.model]
  BY <1>2, <1>6, <1>8, DispatchAssumption
<1>10. r.model \in c.adapter.models
  BY <1>2, <1>6, <1>7, <1>8, SoundRoute DEF Compiles
<1>11. /\ ContractHolds(q, c) /\ Offers(c, q)
       /\ c.policy.enabled /\ p \in c.policy.allowed /\ c.adapter.id = p
       /\ Binding(c.endpoint.url, c.adapter.base) = "ok"
       /\ c.ref # NoRef => Resolves(p, c, environment)
       /\ ~(q.size > c.policy.limit)
  BY <1>5, PreflightPassed, GatePassed
<1>12. /\ c.endpoint.url.verdict = "ok" /\ c.endpoint.url.host = c.adapter.base.host
       /\ SameOrBelow(Stripped(c.endpoint.url.path), Stripped(c.adapter.base.path))
  BY <1>11 DEF Binding
<1>13. Descends(Stripped(c.endpoint.url.path), Stripped(c.adapter.base.path))
  <2>1. PICK path : path = c.endpoint.url.path
    OBVIOUS
  <2>2. PICK base : base = c.adapter.base.path
    OBVIOUS
  <2>3. path \in Seq(ToSet(path)) /\ base \in Seq(ToSet(base))
    BY <1>6, <1>7, <2>1, <2>2, DispatchAssumption DEF IsPath
  <2>4. PICK S : S = ToSet(path) \cup ToSet(base)
    OBVIOUS
  <2>5. path \in Seq(S) /\ base \in Seq(S)
    BY <2>3, <2>4, SeqMonotonic
  <2>6. QED
    BY <1>12, <2>1, <2>2, <2>5, StrippedIsPath, BelowDescends
<1>14. /\ q.wellFormed /\ (q.tools => c.capability.tools) /\ ~(q.size > c.policy.limit)
       /\ IF q.stream THEN c.capability.sse ELSE c.capability.plain
       /\ c.ref # NoRef /\ c.ref.env = c.adapter.env
  BY <1>11 DEF ContractHolds, Offers, Resolves
<1>15. Authorized(origin, q, message)
  BY <1>5, <1>6, <1>7, <1>8, <1>9, <1>10, <1>11, <1>12, <1>13, <1>14 DEF Authorized
<1>16. QED
  BY <1>4, <1>5, <1>15
(* A byte limit that passes the contract is one for the gate, too. *)
LEMMA LimitsArePositive == ASSUME NEW n \in Limits PROVE n # 0
BY SMT DEF Limits

(* The gate repeats what compiling has checked: of a provider that compiled it denies only
   what it does not offer. *)
LEMMA GateOfSound ==
    ASSUME NEW config, NEW methods, NEW p \in DOMAIN config.providers, Errors(config, methods) = {},
           NEW c, c = config.providers[p], NEW q, ContractHolds(q, c)
    PROVE  /\ Gate(q, p, c) \in {"allowed", "unsupported_capability"}
           /\ Gate(q, p, c) = "unsupported_capability" => ~Offers(c, q)
<1>1. /\ AdapterContract(c.adapter) /\ c.adapter.type = "openai-compatible" /\ c.adapter.id = p
      /\ Binding(c.endpoint.url, c.adapter.base) = "ok"
      /\ PolicyContract(c.policy) /\ c.policy.enabled /\ p \in c.policy.allowed
      /\ c.adapter.env = NoEnv \/ c.ref.env = c.adapter.env
  BY SoundProvider
<1>2. c.policy.attempts = 1 /\ ~c.policy.redirects /\ c.policy.timeout \in 1 .. 600 /\ c.policy.limit # 0
  <2>1. /\ c.policy.attempts = 1 /\ ~c.policy.redirects
        /\ c.policy.timeout \in 1 .. 300 /\ c.policy.limit \in Limits
    BY <1>1, Zenon DEF PolicyContract
  <2>2. PICK t \in 1 .. 300, n \in Limits : t = c.policy.timeout /\ n = c.policy.limit
    BY <2>1, Zenon
  <2>3. t \in 1 .. 600 /\ n # 0
    BY LimitsArePositive
  <2>4. QED
    BY <2>1, <2>2, <2>3, Zenon
<1>3. QED
  BY <1>1, <1>2 DEF Gate

LEMMA ContractOfSound ==
    ASSUME NEW config, NEW methods, NEW p \in DOMAIN config.providers, Errors(config, methods) = {},
           NEW c, c = config.providers[p], NEW q, ~ContractHolds(q, c), q.stream \in BOOLEAN
    PROVE  \/ ContractCode(q, c) = "request_invalid" /\ (~q.wellFormed \/ c.ref = NoRef)
           \/ ContractCode(q, c) = "execution_disabled" /\ q.stream /\ c.ref = NoRef
           \/ ContractCode(q, c) = "unsupported_capability" /\ ~Offers(c, q)
<1>1. /\ EndpointContract(c.endpoint) /\ PolicyContract(c.policy) /\ CapabilityContract(c.capability)
      /\ c.ref = NoRef \/ ReferenceContract(c.ref)
  BY SoundProvider
<1>2. ~q.wellFormed \/ c.ref = NoRef \/ (q.stream /\ ~c.capability.sse)
  BY <1>1, Zenon DEF ContractHolds
<1>3. q.stream /\ ~c.capability.sse => ~Offers(c, q)
  BY DEF Offers
<1>4. q.wellFormed /\ ~(c.policy.enabled /\ c.ref = NoRef) => q.stream /\ ~c.capability.sse
  BY <1>1 DEF ContractHolds
<1>5. QED
  BY <1>2, <1>3, <1>4 DEF ContractCode

(* A refusal of a call to a listed model has one of the causes. *)
LEMMA RefusalHasCause ==
    ASSUME DInv, NEW k \in Calls, NEW q \in Requests, Route(k, q), q.key \in ListExternalModels,
           calls'[k].at = "refused",
           NEW c, c = compiled.providers[RouteOf(q.key).provider],
           NEW code, code = calls'[k].code
    PROVE  /\ calls'[k].request = q
           /\ \/ code = "request_invalid" /\ (~q.wellFormed \/ c.ref = NoRef)
              \/ code = "execution_disabled" /\ q.stream /\ c.ref = NoRef
              \/ code = "unsupported_capability" /\ ~Offers(c, q)
              \/ code = "internal_execution_error" /\ ~TransportServes(q)
              \/ code = "credential_unavailable" /\ ~SecretIsSet(c, environment)
              \/ code = "request_too_large" /\ q.size > c.policy.limit
<1>1. PICK r : r = RouteOf(q.key)
  OBVIOUS
<1>2. PICK p : p = r.provider
  OBVIOUS
<1>3. /\ compiled.enabled /\ Routed(q.key) /\ p \in DOMAIN compiled.providers /\ c = compiled.providers[p]
  BY <1>1, <1>2 DEF ListExternalModels
<1>4. /\ origin.enabled /\ compiled.providers = origin.providers /\ compiled.routes = origin.routes
      /\ Compiles(origin)
  BY <1>3, InUse
<1>5. PICK methods : Errors(origin, methods) = {}
  BY <1>4 DEF Compiles
<1>6. p \in DOMAIN origin.providers /\ c = origin.providers[p]
  BY <1>3, <1>4
<1>7. SafeKey(q.key)
  <2>1. PICK i \in DOMAIN origin.routes : origin.routes[i].key = q.key
    BY <1>3, <1>4, RouteOfRouted
  <2>2. QED
    BY <1>4, <1>5, <2>1, SoundRoute
<1>8. ResolveRoute(q.key) = "governed-external"
  BY <1>3, <1>7 DEF ResolveRoute
<1>9. Execute(k, q)
  BY <1>8 DEF Route
<1>10. Ends(k, q, Preflight(q, p, c)) /\ Preflight(q, p, c) # "sent"
  <2>1. ~Sends(k, q, p, c)
    BY DEF DInv, Typed, Sends
  <2>2. QED
    BY <1>1, <1>2, <1>3, <1>9, <2>1 DEF Execute, ProvidersInUse
<1>11. calls'[k].request = q /\ code = Preflight(q, p, c)
  BY <1>10 DEF DInv, Typed, Ends
<1>12. CASE ~ContractHolds(q, c)
  <2>1. code = ContractCode(q, c)
    BY <1>11, <1>12 DEF Preflight
  <2>2. q.stream \in BOOLEAN
    BY DEF Requests
  <2>3. QED
    BY <1>5, <1>6, <1>11, <1>12, <2>1, <2>2, ContractOfSound
<1>13. CASE ContractHolds(q, c) /\ Gate(q, p, c) # "allowed"
  <2>1. code = Gate(q, p, c)
    BY <1>11, <1>13 DEF Preflight
  <2>2. QED
    BY <1>5, <1>6, <1>11, <1>13, <2>1, GateOfSound
<1>14. CASE ContractHolds(q, c) /\ Gate(q, p, c) = "allowed"
  <2>4. Normalizes(q, c)
    <3>1. Offers(c, q)
      BY <1>14, GatePassed
    <3>2. QED
      BY <1>14, <3>1 DEF Normalizes, Offers
  <2>1. \/ code = "internal_execution_error" /\ ~TransportServes(q)
        \/ code = "credential_unavailable" /\ c.ref # NoRef /\ ~Resolves(p, c, environment)
        \/ code = "request_too_large" /\ q.size > c.policy.limit
    BY <1>10, <1>11, <1>14, <2>4 DEF Preflight
  <2>2. c.ref # NoRef => /\ AdapterContract(c.adapter) /\ c.adapter.id = p
                         /\ ReferenceContract(c.ref) /\ c.ref.env = c.adapter.env
    BY <1>5, <1>6, SoundProvider
  <2>3. QED
    BY <1>11, <2>1, <2>2 DEF Resolves
<1>15. QED
  BY <1>12, <1>13, <1>14

-----------------------------------------------------------------------------
LEMMA InitDInv == Init => DInv
BY DEF Init, DInv, Typed, CompiledIsSound, UnchangedRuns

LEMMA CompiledIsEither ==
    ASSUME NEW config, NEW methods
    PROVE  \/ Compiled(config, methods) = Failed /\ Errors(config, methods) # {}
           \/ /\ Errors(config, methods) = {}
              /\ Compiled(config, methods) = [success |-> TRUE, enabled |-> config.enabled,
                                              providers |-> config.providers, routes |-> config.routes]
BY DEF Compiled

LEMMA NextKeepsDInv == DInv /\ [Next]_vars => DInv'
<1> SUFFICES ASSUME DInv, [Next]_vars PROVE DInv'
  OBVIOUS
<1>1. CASE CreateServer
  <2>1. server' = "created" => Errors(given, transport) = {}
    BY <1>1, CompiledIsEither DEF CreateServer, Failed
  <2>2. server' \in {"created", "refused"}
    BY <1>1 DEF CreateServer
  <2>3. UNCHANGED <<given, transport, origin, compiled, calls, changes>>
    BY <1>1 DEF CreateServer
  <2>4. UnchangedRuns'
    BY <2>1, <2>2, <2>3 DEF UnchangedRuns
  <2>5. QED
    BY <2>3, <2>4 DEF DInv, Typed, CompiledIsSound, Compiles
<1>2. CASE Start
  <2>1. /\ server \in {"created", "stopped"} /\ server' = "running" /\ origin' = given
        /\ compiled' = Compiled(given, transport)
        /\ UNCHANGED <<given, transport, calls, changes>>
    BY <1>2 DEF Start
  <2>2. CompiledIsSound'
    BY <2>1, CompiledIsEither DEF CompiledIsSound, Compiles
  <2>3. UnchangedRuns'
    BY <2>1 DEF DInv, UnchangedRuns
  <2>4. QED
    BY <2>1, <2>2, <2>3 DEF DInv, Typed
<1>3. CASE Stop
  BY <1>3 DEF Stop, DInv, Typed, CompiledIsSound, UnchangedRuns, Compiles
<1>4. CASE Edit
  <2>1. given' \in Configs \cup Edits /\ changes' \in Nat /\ changes' # 0
    BY <1>4 DEF Edit, DInv, Typed
  <2>2. UNCHANGED <<origin, compiled, calls>>
    BY <1>4 DEF Edit
  <2>3. QED
    BY <2>1, <2>2 DEF DInv, Typed, CompiledIsSound, UnchangedRuns, Compiles
<1>5. ASSUME NEW k \in Calls, Call(k)
      PROVE  DInv'
  <2>1. UNCHANGED <<server, given, transport, origin, compiled, changes>>
    BY <1>5 DEF Call
  <2>2. calls' = [l \in Calls |-> calls'[l]]
    BY <1>5 DEF DInv, Typed, Call, Route, Execute, Ends, Sends
  <2>3. QED
    BY <2>1, <2>2 DEF DInv, Typed, CompiledIsSound, UnchangedRuns, Compiles
<1>6. CASE UNCHANGED vars
  BY <1>6 DEF vars, DInv, Typed, CompiledIsSound, UnchangedRuns, Compiles
<1>7. QED
  BY <1>1, <1>2, <1>3, <1>4, <1>5, <1>6 DEF Next

(* What holds throughout: the dispatcher is a copy of a configuration without errors, or
   refuses everything, whatever the program does to its own objects. *)
THEOREM Inductive == Spec => []DInv
BY InitDInv, NextKeepsDInv, PTL DEF Spec

(* Whatever reaches a transport is what the configuration allowed when the server started, and
   a listed model is refused only for a cause of the request, of the moment, or of what
   compiling does not ask for: for every configuration and every change made to it. *)
THEOREM AuthorizationAlwaysExact == Spec => AuthorizationIsExact
<1>1. DInv /\ [Next]_vars =>
         \A k \in Calls : Decided(k) /\ calls'[k].at = "sent"
            => Authorized(origin, calls'[k].request, calls'[k].sent)
  BY DecidedByRoute, RouteIsAuthorized
<1>2. DInv /\ [Next]_vars =>
         \A k \in Calls :
            LET q == calls'[k].request
                c == compiled.providers[RouteOf(q.key).provider]
                code == calls'[k].code
            IN Decided(k) /\ calls'[k].at = "refused" /\ q.key \in ListExternalModels
                 => code \in DOMAIN CausesOf(q, c) /\ CausesOf(q, c)[code]
  <2>1. SUFFICES ASSUME DInv, [Next]_vars, NEW k \in Calls, Decided(k), calls'[k].at = "refused",
                        NEW q, q = calls'[k].request, q.key \in ListExternalModels,
                        NEW c, c = compiled.providers[RouteOf(q.key).provider],
                        NEW code, code = calls'[k].code
                 PROVE  code \in DOMAIN CausesOf(q, c) /\ CausesOf(q, c)[code]
    OBVIOUS
  <2>2. PICK s \in Requests : Route(k, s)
    BY <2>1, DecidedByRoute
  <2>3. s = q
    BY <2>1, <2>2 DEF Route, Execute, Ends, Sends, DInv, Typed
  <2>4. \/ code = "request_invalid" /\ (~q.wellFormed \/ c.ref = NoRef)
        \/ code = "execution_disabled" /\ q.stream /\ c.ref = NoRef
        \/ code = "unsupported_capability" /\ ~Offers(c, q)
        \/ code = "internal_execution_error" /\ ~TransportServes(q)
        \/ code = "credential_unavailable" /\ ~SecretIsSet(c, environment)
        \/ code = "request_too_large" /\ q.size > c.policy.limit
    BY <2>1, <2>2, <2>3, RefusalHasCause
  <2>5. /\ CausesOf(q, c).request_invalid = (~q.wellFormed \/ c.ref = NoRef)
        /\ CausesOf(q, c).execution_disabled = (q.stream /\ c.ref = NoRef)
        /\ CausesOf(q, c).unsupported_capability = ~Offers(c, q)
        /\ CausesOf(q, c).internal_execution_error = ~TransportServes(q)
        /\ CausesOf(q, c).credential_unavailable = ~SecretIsSet(c, environment)
        /\ CausesOf(q, c).request_too_large = (q.size > c.policy.limit)
    BY Zenon DEF CausesOf
  <2>6. DOMAIN CausesOf(q, c) = {"request_invalid", "execution_disabled", "unsupported_capability",
                                 "internal_execution_error", "credential_unavailable", "request_too_large"}
    BY DEF CausesOf
  <2>7. QED
    BY <2>4, <2>5, <2>6, Zenon
<1>3. QED
  BY <1>1, <1>2, Inductive, PTL DEF AuthorizationIsExact, SentIsAuthorized, ListedIsRefusedForCause, Spec

(* A server that was created, and whose objects nobody changed, lists every route of an enabled
   configuration and nothing else. *)
THEOREM AcceptedAlwaysListed == Spec => []AcceptedIsListed
<1>1. DInv => AcceptedIsListed
  <2>1. SUFFICES ASSUME DInv, server = "running", changes = 0
                 PROVE  ListExternalModels = {given.routes[i].key : i \in {j \in DOMAIN given.routes : given.enabled}}
    BY DEF AcceptedIsListed
  <2>2. /\ Errors(given, transport) = {}
        /\ compiled.enabled = given.enabled /\ compiled.providers = given.providers
        /\ compiled.routes = given.routes /\ given \in Configs \cup Edits
    BY <2>1, CompiledIsEither DEF DInv, UnchangedRuns, Typed
  <2>3. CASE ~given.enabled
    BY <2>2, <2>3 DEF ListExternalModels
  <2>4. CASE given.enabled
    <3>1. ASSUME NEW i \in DOMAIN given.routes
          PROVE  given.routes[i].key \in ListExternalModels
      <4>1. PICK key : key = given.routes[i].key
        OBVIOUS
      <4>2. key \in Keys /\ Routed(key)
        BY <2>2, <4>1, DispatchAssumption DEF Routed
      <4>3. PICK j \in DOMAIN given.routes : RouteOf(key) = given.routes[j]
        BY <2>2, <4>2, RouteOfRouted
      <4>4. PICK p : p = given.routes[j].provider
        OBVIOUS
      <4>5. p \in DOMAIN given.providers
        BY <2>2, <2>4, <4>4, SoundRoute
      <4>6. given.providers[p].policy.enabled
        BY <2>2, <4>5, SoundProvider
      <4>7. QED
        BY <2>2, <2>4, <4>1, <4>2, <4>3, <4>4, <4>5, <4>6 DEF ListExternalModels
    <3>2. ASSUME NEW key \in ListExternalModels
          PROVE  \E i \in DOMAIN given.routes : key = given.routes[i].key
      BY <2>2 DEF ListExternalModels, Routed
    <3>3. QED
      BY <2>4, <3>1, <3>2 DEF ListExternalModels
  <2>5. QED
    BY <2>3, <2>4
<1>2. QED
  BY <1>1, Inductive, PTL

-----------------------------------------------------------------------------
(* OpenAIAdapter.                                                          *)

(* Choices as the caller gets them; without declared tools none may call any. *)
NormalChoice == [role : AllowedRoles \cup {None}, finish : AllowedFinish \cup {None}, tools : BOOLEAN, index : Int]
Harmless(choices) == capability.toolCalls \/ \A j \in DOMAIN choices : ~choices[j].tools
HarmlessChoices == {choices \in Seq(NormalChoice) : Harmless(choices)}

(* The events of the parser. *)
Whys == {"json", "choice", "tools", "oversized", "trailing"}
ErrorEvent ==
    {e \in [type : {"error"}, why : Whys, code : {"unsupported_capability", "stream_error"}, status : {500}] :
        e.why = "tools" => e.code = "unsupported_capability"}
ChunkEvent == [type : {"chunk"}, named : BOOLEAN, choices : HarmlessChoices]
SoundEvent == ErrorEvent \cup ChunkEvent \cup [type : {"done", "usage"}]

(* A set of natural numbers has a least element. *)
LEMMA LeastOf ==
    ASSUME NEW T \in SUBSET Nat, T # {}
    PROVE  Min(T) \in T /\ \A y \in T : Min(T) <= y
<1>1. PICK x \in T : \A y \in T : ~(<<y, x>> \in OpToRel(<, Nat))
  <2>1. T \subseteq Nat /\ T # {} /\ IsWellFoundedOn(OpToRel(<, Nat), Nat)
    BY NatLessThanWellFounded
  <2>2. QED
    BY <2>1, WFMin, Zenon
<1>2. ASSUME NEW y \in T PROVE x <= y
  <2>1. ~(y < x)
    BY <1>1 DEF OpToRel
  <2>2. QED
    BY <2>1
<1>3. QED
  BY <1>2 DEF Min

(* The errors of the parser keep the code they are made with. *)
LEMMA OwnErrorIsSound ==
    ASSUME NEW context \in {"unsupported_capability", "stream_error"}, NEW why \in Whys,
           why = "tools" => context = "unsupported_capability"
    PROVE  OwnError(context, why) \in SoundEvent
<1> DEFINE e == [status |-> Unknown, message |-> {"stream"}, code |-> {}, type |-> {}]
<1>1. ToSet(Own) = {"unsupported_capability", "stream_error", "upstream_protocol_error"}
  BY DEF ToSet, Own
<1> DEFINE names == [c \in ToSet(Own) |-> context = c \/ c \in e.code]
<1>2. /\ names["unsupported_capability"] <=> context = "unsupported_capability"
      /\ names["stream_error"] <=> context = "stream_error"
      /\ "stream" \in e.message
  BY <1>1
<1>3. NormalizeError(e, context) =
         IF context = "unsupported_capability" THEN "unsupported_capability" ELSE "stream_error"
  <2> HIDE DEF e
  <2>1. NormalizeError(e, context) =
           IF names["unsupported_capability"] THEN "unsupported_capability"
           ELSE IF names["stream_error"] \/ "stream" \in e.message THEN "stream_error"
           ELSE IF names["upstream_protocol_error"] THEN "upstream_protocol_error" ELSE TaxonomyOf(e)
    BY DEF NormalizeError
  <2> HIDE DEF names
  <2>2. CASE context = "unsupported_capability"
    BY <1>2, <2>1, <2>2
  <2>3. CASE context = "stream_error"
    BY <1>2, <2>1, <2>3
  <2>4. QED
    BY <2>2, <2>3
<1>4. NormalizedStatus(e) = 500
  BY DEF NormalizedStatus, Unknown
<1>5. OwnError(context, why) = [type |-> "error", why |-> why, code |-> NormalizeError(e, context), status |-> 500]
  BY <1>4 DEF OwnError
<1> HIDE DEF e
<1>6. OwnError(context, why) \in ErrorEvent
  BY <1>3, <1>5 DEF ErrorEvent
<1>7. QED
  BY <1>6 DEF SoundEvent

(* Those it makes where no choice is looked at. *)
LEMMA OwnEvents ==
    /\ OwnError("stream_error", "json") \in SoundEvent
    /\ Oversized \in Seq(SoundEvent)
    /\ \A tokens : Trailing(tokens) \in Seq(SoundEvent)
<1>1. \A why \in Whys \ {"tools"} : OwnError("stream_error", why) \in SoundEvent
  BY OwnErrorIsSound
<1>2. QED
  BY <1>1 DEF Oversized, Trailing, Whys

(* Choices that are not refused are harmless, whatever they are normalized to. *)
LEMMA ChoicesAreNormal ==
    ASSUME NEW choices, IsChoices(choices), NEW absent \in {InAnswer, InChunk}
    PROVE  /\ NormalizeChoices(choices, absent) \in Seq(NormalChoice)
           /\ Refusal(choices) \in {None, "unsupported_capability", "stream_error"}
           /\ (capability.toolCalls \in BOOLEAN /\ Refusal(choices) = None) =>
                 NormalizeChoices(choices, absent) \in HarmlessChoices
<1> DEFINE normal == NormalizeChoices(choices, absent)
<1>1. absent.role \in AllowedRoles \cup {None} /\ absent.finish \in AllowedFinish \cup {None}
  BY DEF InAnswer, InChunk, AllowedRoles, AllowedFinish
<1>2. \A i \in DOMAIN choices :
         /\ NormalizeRole(choices[i].role, absent) \in AllowedRoles \cup {None}
         /\ NormalizeFinish(choices[i].finish, absent) \in AllowedFinish \cup {None}
         /\ choices[i].tools \in BOOLEAN /\ choices[i].index \in Int /\ i \in Int
  BY <1>1 DEF NormalizeRole, NormalizeFinish, IsChoices, AllowedFinish
<1>3. \A i \in DOMAIN choices :
         normal[i] \in NormalChoice /\ normal[i].tools = choices[i].tools
  BY <1>2 DEF NormalizeChoices, NormalChoice
<1>4. PICK n \in Nat : n = Len(choices) /\ DOMAIN choices = 1 .. n
  BY DEF IsChoices
<1>5. DOMAIN normal = 1 .. n
  BY <1>4 DEF NormalizeChoices
<1> HIDE DEF normal
<1>6. normal \in [1 .. n -> NormalChoice]
  <2>1. normal = [i \in DOMAIN normal |-> normal[i]]
    BY DEF normal, NormalizeChoices
  <2>2. QED
    BY <1>3, <1>4, <1>5, <2>1
<1>7. normal \in Seq(NormalChoice)
  BY <1>4, <1>6
<1>8. Refusal(choices) \in {None, "unsupported_capability", "stream_error"}
  BY DEF Refusal
<1>9. ASSUME capability.toolCalls \in BOOLEAN, Refusal(choices) = None
      PROVE  Harmless(normal)
  <2>1. \A i \in DOMAIN choices : ~(choices[i].tools /\ ~capability.toolCalls)
    BY <1>9, <1>2 DEF Refusal, None
  <2>2. QED
    BY <1>3, <1>4, <1>5, <1>9, <2>1 DEF Harmless
<1>10. QED
  BY <1>7, <1>8, <1>9 DEF HarmlessChoices, normal

(* Whatever an event spells, what is made of it is sound. *)
LEMMA ParsedIsSound ==
    ASSUME NEW content, capability.toolCalls \in BOOLEAN
    PROVE  ParseEventData(content) \in Seq(SoundEvent)
<1> DEFINE text == Pieces(content)
           object == Json[text]
<1>1. CASE White(content)
  BY <1>1 DEF ParseEventData
<1>2. CASE ~White(content) /\ text = <<"[DONE]">>
  <2>1. ParseEventData(content) = <<DoneEvent>>
    BY <1>2 DEF ParseEventData
  <2>2. DoneEvent \in SoundEvent
    BY DEF SoundEvent, DoneEvent
  <2>3. QED
    BY <2>1, <2>2
<1>3. CASE ~White(content) /\ text # <<"[DONE]">> /\ text \notin DOMAIN Json
  <2>1. ParseEventData(content) = <<OwnError("stream_error", "json")>>
    BY <1>3 DEF ParseEventData
  <2>2. QED
    BY <2>1, OwnEvents
<1>4. CASE ~White(content) /\ text # <<"[DONE]">> /\ text \in DOMAIN Json
  <2> DEFINE refusal == IF object.choices = <<>> THEN None ELSE Refusal(object.choices)
             chunk == [type |-> "chunk", named |-> object.named,
                       choices |-> NormalizeChoices(object.choices, InChunk)]
             error == OwnError(refusal, IF refusal = "stream_error" THEN "choice" ELSE "tools")
             found == IF object.choices = <<>> THEN <<>> ELSE <<chunk>>
             counted == IF object.usage THEN <<[type |-> "usage"]>> ELSE <<>>
  <2>1. ParseEventData(content) = IF refusal # None THEN <<error>> ELSE found \o counted
    BY <1>4 DEF ParseEventData
  <2>2. IsChoices(object.choices) /\ object.usage \in BOOLEAN /\ object.named \in BOOLEAN
    BY <1>4, JsonAssumption
  <2>3. refusal \in {None, "unsupported_capability", "stream_error"}
    BY <2>2, ChoicesAreNormal
  <2>4. counted \in Seq(SoundEvent)
    <3>1. [type |-> "usage"] \in SoundEvent
      BY DEF SoundEvent
    <3>2. QED
      BY <3>1
  <2>5. refusal # None => error \in SoundEvent
    <3> HIDE DEF refusal
    <3>1. CASE refusal = "stream_error"
      BY <3>1, OwnErrorIsSound DEF Whys
    <3>2. CASE refusal = "unsupported_capability"
      BY <3>2, OwnErrorIsSound DEF Whys
    <3>3. QED
      BY <2>3, <3>1, <3>2
  <2>6. refusal = None => found \in Seq(SoundEvent)
    <3>1. CASE object.choices = <<>>
      BY <3>1
    <3>2. CASE object.choices # <<>> /\ Refusal(object.choices) = None
      <4>1. NormalizeChoices(object.choices, InChunk) \in HarmlessChoices
        BY <2>2, <3>2, ChoicesAreNormal
      <4>2. chunk \in ChunkEvent
        BY <2>2, <4>1 DEF ChunkEvent
      <4>3. chunk \in SoundEvent
        BY <4>2 DEF SoundEvent
      <4> HIDE DEF chunk
      <4>4. QED
        BY <3>2, <4>3
    <3>3. QED
      BY <3>1, <3>2
  <2> HIDE DEF refusal, error, found, counted
  <2>7. QED
    BY <2>1, <2>4, <2>5, <2>6
<1>5. QED
  BY <1>1, <1>2, <1>3, <1>4

(* A scan has its fields, a line of tokens and sound events. *)
Tokens == DOMAIN Weight
ScanFields == {"lines", "bytes", "line", "rest", "events", "over", "done"}
SoundScan(s) == DOMAIN s = ScanFields /\ s.line \in Seq(Tokens) /\ s.events \in Seq(SoundEvent)

(* Every step of a scan leaves it sound: its beginning, *)
LEMMA ScanBegins == ASSUME NEW p, NEW tokens PROVE SoundScan(ScanOf(p, tokens))
BY DEF SoundScan, ScanOf, ScanFields

(* the end of an event, *)
LEMMA EventEndsSound ==
    ASSUME NEW s, SoundScan(s), capability.toolCalls \in BOOLEAN
    PROVE  SoundScan(EventEnds(s))
<1> DEFINE content == Data(s.lines)
           events == ParseEventData(content)
           emptied == [s EXCEPT !.line = <<>>, !.lines = <<>>, !.bytes = 0]
           large == [emptied EXCEPT !.events = @ \o Oversized, !.over = TRUE, !.rest = <<>>]
           last == [emptied EXCEPT !.events = @ \o events \o Trailing(s.rest), !.over = TRUE, !.done = TRUE, !.rest = <<>>]
           next == [emptied EXCEPT !.events = @ \o events]
<1>1. EventEnds(s) \in {large, last, next}
  BY DEF EventEnds
<1>2. events \in Seq(SoundEvent) /\ Oversized \in Seq(SoundEvent) /\ Trailing(s.rest) \in Seq(SoundEvent)
  BY ParsedIsSound, OwnEvents
<1> HIDE DEF events
<1>3. DOMAIN emptied = ScanFields /\ emptied.line = <<>> /\ emptied.events = s.events
  BY DEF SoundScan, ScanFields
<1> HIDE DEF emptied
<1>4. SoundScan(large)
  <2>1. /\ DOMAIN large = ScanFields /\ large.line = <<>>
        /\ large.events = s.events \o Oversized
    BY <1>3 DEF ScanFields
  <2>2. s.events \in Seq(SoundEvent)
    BY DEF SoundScan
  <2> HIDE DEF large
  <2>3. QED
    BY <1>2, <2>1, <2>2 DEF SoundScan
<1>5. SoundScan(last)
  <2>1. /\ DOMAIN last = ScanFields /\ last.line = <<>>
        /\ last.events = s.events \o events \o Trailing(s.rest)
    BY <1>3 DEF ScanFields
  <2>2. s.events \in Seq(SoundEvent)
    BY DEF SoundScan
  <2> HIDE DEF last
  <2>3. QED
    BY <1>2, <2>1, <2>2 DEF SoundScan
<1>6. SoundScan(next)
  <2>1. /\ DOMAIN next = ScanFields /\ next.line = <<>>
        /\ next.events = s.events \o events
    BY <1>3 DEF ScanFields
  <2>2. s.events \in Seq(SoundEvent)
    BY DEF SoundScan
  <2> HIDE DEF next
  <2>3. QED
    BY <1>2, <2>1, <2>2 DEF SoundScan
<1> HIDE DEF large, last, next
<1>7. QED
  BY <1>1, <1>4, <1>5, <1>6

(* and any other token. *)
LEMMA ReadTokenSound ==
    ASSUME NEW s, SoundScan(s), NEW t \in Tokens, capability.toolCalls \in BOOLEAN
    PROVE  SoundScan(ReadToken(s, t))
<1> DEFINE ahead == [s EXCEPT !.rest = Tail(@)]
           line == StripCr(ahead.line)
           bytes == ahead.bytes + Bytes(line)
<1>1. SoundScan(ahead)
  BY DEF SoundScan, ScanFields
<1> HIDE DEF ahead
<1>2. SoundScan([ahead EXCEPT !.line = Append(@, t)])
  BY <1>1 DEF SoundScan, ScanFields
<1>3. SoundScan([ahead EXCEPT !.line = <<>>])
  BY <1>1 DEF SoundScan, ScanFields
<1>4. SoundScan([ScanOf(NewParser, <<>>) EXCEPT !.events = Oversized, !.over = TRUE])
  BY OwnEvents DEF SoundScan, ScanFields, ScanOf
<1>5. SoundScan([ahead EXCEPT !.line = <<>>, !.lines = Append(@, line), !.bytes = bytes])
  BY <1>1 DEF SoundScan, ScanFields
<1>6. SoundScan(EventEnds(ahead))
  BY <1>1, EventEndsSound
<1>7. SoundScan(LineEnds(ahead))
  <2> HIDE DEF line
  <2>1. LineEnds(ahead) \in
           {EventEnds(ahead), [ahead EXCEPT !.line = <<>>],
            [ScanOf(NewParser, <<>>) EXCEPT !.events = Oversized, !.over = TRUE],
            [ahead EXCEPT !.line = <<>>, !.lines = Append(@, line), !.bytes = bytes]}
    BY DEF LineEnds, line
  <2>2. QED
    BY <1>3, <1>4, <1>5, <1>6, <2>1
<1>8. ReadToken(s, t) \in {s, [ahead EXCEPT !.line = Append(@, t)], LineEnds(ahead)}
  BY DEF ReadToken, ahead
<1>9. QED
  BY <1>2, <1>7, <1>8

(* A scan reads one token after the other. *)
LEMMA ScanSteps ==
    ASSUME NEW p, NEW buffer, NEW n \in Nat, n = Len(buffer)
    PROVE  \E scanned :
              /\ scanned[0] = ScanOf(p, buffer)
              /\ \A i \in 1 .. n : scanned[i] = ReadToken(scanned[i - 1], buffer[i])
              /\ Scan(p, buffer) = scanned[n]
<1> DEFINE Def(g, m) == [i \in 0 .. m |-> IF i = 0 THEN ScanOf(p, buffer) ELSE ReadToken(g[i - 1], buffer[i])]
           T == {m \in Nat : ~ \E g : g = Def(g, m)}
<1>1. T = {}
  <2> SUFFICES ASSUME T # {} PROVE FALSE
    OBVIOUS
  <2>1. PICK m \in T : \A k \in T : m <= k
    <3>1. T \in SUBSET Nat
      OBVIOUS
    <3> HIDE DEF T
    <3>2. Min(T) \in T /\ \A k \in T : Min(T) <= k
      BY <3>1, LeastOf
    <3>3. QED
      BY <3>2
  <2>2. m # 0
    <3>1. [i \in 0 .. 0 |-> ScanOf(p, buffer)] = Def([i \in 0 .. 0 |-> ScanOf(p, buffer)], 0)
      OBVIOUS
    <3>2. QED
      BY <2>1, <3>1
  <2>3. m - 1 \in Nat /\ m - 1 \notin T
    <3>1. m \in Nat
      OBVIOUS
    <3> HIDE DEF T
    <3>2. QED
      BY <2>1, <2>2, <3>1
  <2>4. PICK g : g = Def(g, m - 1)
    <3>1. \A k \in Nat : k \notin T => \E g : g = Def(g, k)
      OBVIOUS
    <3>2. QED
      BY <2>3, <3>1, Zenon
  <2> DEFINE h == [i \in 0 .. m |-> IF i < m THEN g[i] ELSE ReadToken(g[m - 1], buffer[m])]
  <2>5. \A i \in 0 .. m : h[i] = IF i = 0 THEN ScanOf(p, buffer) ELSE ReadToken(h[i - 1], buffer[i])
    <3> TAKE i \in 0 .. m
    <3>1. CASE i = m
      BY <2>2, <2>3, <3>1
    <3>2. CASE i < m
      <4>1. g[i] = IF i = 0 THEN ScanOf(p, buffer) ELSE ReadToken(g[i - 1], buffer[i])
        BY <2>1, <2>3, <2>4, <3>2
      <4>2. h[i] = g[i] /\ (i # 0 => h[i - 1] = g[i - 1])
        BY <2>1, <3>2
      <4>3. QED
        BY <4>1, <4>2
    <3>3. QED
      BY <2>1, <3>1, <3>2
  <2>6. h = Def(h, m)
    BY <2>5
  <2>7. QED
    BY <2>1, <2>6
<1>2. PICK g : g = Def(g, n)
  BY <1>1
<1> DEFINE scanned == CHOOSE f : f = Def(f, n)
<1>3. scanned = Def(scanned, n)
  BY <1>2
<1>4. Scan(p, buffer) = scanned[n]
  BY DEF Scan
<1> HIDE DEF scanned
<1>5. /\ scanned[0] = ScanOf(p, buffer)
      /\ \A i \in 1 .. n : scanned[i] = ReadToken(scanned[i - 1], buffer[i])
  BY <1>3
<1>6. QED
  BY <1>4, <1>5

(* An answer that blames the tools or the upstream is one the code makes of them. *)
AnswerIsKnown ==
    /\ answer.why = "tools" => answer.code = "unsupported_capability"
    /\ answer.why = "upstream" =>
          upstream.kind = "error" /\
          answer = Answered("failed", NormalizeError(ErrorSeen(upstream), None), "upstream",
                            NormalizedStatus(ErrorSeen(upstream)))

AdapterIInv ==
    /\ call \in AdapterCalls
    /\ sent \subseteq Supported
    /\ left \in Seq(Tokens) /\ parser.buffer \in Seq(Tokens)
    /\ yielded \in Seq(HarmlessChoices)
    /\ AnswerIsKnown

(* So the events of a scan are sound, whatever was in the buffer. *)
LEMMA ScanIsSound ==
    ASSUME NEW p, NEW buffer \in Seq(Tokens), capability.toolCalls \in BOOLEAN
    PROVE  SoundScan(Scan(p, buffer))
<1>1. PICK n \in Nat : n = Len(buffer) /\ DOMAIN buffer = 1 .. n
  OBVIOUS
<1>2. PICK scanned : /\ scanned[0] = ScanOf(p, buffer)
                     /\ \A i \in 1 .. n : scanned[i] = ReadToken(scanned[i - 1], buffer[i])
                     /\ Scan(p, buffer) = scanned[n]
  BY <1>1, ScanSteps
<1> DEFINE T == {i \in 0 .. n : ~SoundScan(scanned[i])}
<1>3. T \in SUBSET Nat
  OBVIOUS
<1>4. ASSUME NEW i \in T, \A k \in T : i <= k PROVE FALSE
  <2>1. CASE i = 0
    BY <1>2, <2>1, ScanBegins
  <2>2. CASE i # 0
    <3>1. i \in 1 .. n /\ i - 1 \in 0 .. n /\ ~(i <= i - 1)
      BY <2>2
    <3>2. SoundScan(scanned[i - 1])
      <4>1. i - 1 \notin T
        <5> HIDE DEF T
        <5>1. QED
          BY <1>4, <3>1
      <4>2. QED
        BY <3>1, <4>1
    <3>3. buffer[i] \in Tokens
      BY <1>1, <3>1
    <3>4. SoundScan(ReadToken(scanned[i - 1], buffer[i]))
      BY <3>2, <3>3, ReadTokenSound
    <3>5. scanned[i] = ReadToken(scanned[i - 1], buffer[i])
      BY <1>2, <3>1
    <3>6. QED
      BY <3>4, <3>5
  <2>3. QED
    BY <2>1, <2>2
<1> HIDE DEF T
<1>5. T = {}
  BY <1>3, <1>4, LeastOf
<1>6. QED
  BY <1>1, <1>2, <1>5 DEF T

(* What a fragment makes of a parser, *)
LEMMA FeedIsSound ==
    ASSUME NEW p, p.buffer \in Seq(Tokens), NEW fragment \in Seq(Tokens), capability.toolCalls \in BOOLEAN
    PROVE  /\ Feed(p, fragment).events \in Seq(SoundEvent)
           /\ Feed(p, fragment).parser.buffer \in Seq(Tokens)
<1> DEFINE buffer == p.buffer \o fragment
           s == Scan(p, buffer)
<1>1. SoundScan(s)
  <2>1. buffer \in Seq(Tokens)
    OBVIOUS
  <2>2. QED
    BY <2>1, ScanIsSound
<1>2. Feed(p, fragment) \in
        {[events |-> Trailing(fragment), parser |-> p], [events |-> Oversized, parser |-> NewParser],
         [events |-> s.events, parser |-> [buffer |-> s.line, eventLines |-> s.lines, eventByteCount |-> s.bytes,
                                           isDone |-> s.done]]}
  BY DEF Feed
<1> HIDE DEF s
<1>3. s.events \in Seq(SoundEvent) /\ s.line \in Seq(Tokens)
  BY <1>1 DEF SoundScan
<1>4. Trailing(fragment) \in Seq(SoundEvent) /\ Oversized \in Seq(SoundEvent)
  BY OwnEvents
<1>5. NewParser.buffer \in Seq(Tokens)
  BY DEF NewParser
<1> HIDE DEF buffer
<1>6. QED
  BY <1>2, <1>3, <1>4, <1>5

(* and what the end of a body makes of it. *)
LEMMA FlushIsSound ==
    ASSUME NEW p, capability.toolCalls \in BOOLEAN
    PROVE  Flush(p) \in Seq(SoundEvent)
<1> DEFINE line == StripCr(p.buffer)
           ends == line # <<>> /\ line[1] # "colon"
           s == ScanOf([p EXCEPT !.eventLines = IF ends THEN Append(@, line) ELSE @], <<>>)
<1>1. SoundScan(EventEnds(s))
  <2>1. SoundScan(s)
    BY ScanBegins
  <2> HIDE DEF s
  <2>2. QED
    BY <2>1, EventEndsSound
<1>2. Flush(p) \in {<<>>, EventEnds(s).events}
  BY DEF Flush
<1> HIDE DEF s
<1>3. EventEnds(s).events \in Seq(SoundEvent)
  BY <1>1 DEF SoundScan
<1>4. <<>> \in Seq(SoundEvent)
  OBVIOUS
<1>5. QED
  BY <1>2, <1>3, <1>4, Zenon

(* What is handed on is collected event by event. *)
LEMMA HandedOnSteps ==
    ASSUME NEW events, NEW n \in Nat, n = Len(events)
    PROVE  \E heard :
              /\ heard[0] = <<>>
              /\ \A i \in 1 .. n :
                    heard[i] = IF events[i].type # "chunk" \/ \E j \in Failing(events) : j <= i THEN heard[i - 1]
                               ELSE Append(heard[i - 1], events[i].choices)
              /\ HandedOn(events) = heard[n]
<1> DEFINE Passed(i) == events[i].type # "chunk" \/ \E j \in Failing(events) : j <= i
           Def(g, m) == [i \in 0 .. m |-> IF i = 0 THEN <<>>
                                          ELSE IF Passed(i) THEN g[i - 1] ELSE Append(g[i - 1], events[i].choices)]
           T == {m \in Nat : ~ \E g : g = Def(g, m)}
<1>1. T = {}
  <2> SUFFICES ASSUME T # {} PROVE FALSE
    OBVIOUS
  <2>1. PICK m \in T : \A k \in T : m <= k
    <3>1. T \in SUBSET Nat
      OBVIOUS
    <3> HIDE DEF T
    <3>2. Min(T) \in T /\ \A k \in T : Min(T) <= k
      BY <3>1, LeastOf
    <3>3. QED
      BY <3>2
  <2> HIDE DEF Passed
  <2>2. m # 0
    <3>1. [i \in 0 .. 0 |-> <<>>] = Def([i \in 0 .. 0 |-> <<>>], 0)
      OBVIOUS
    <3>2. QED
      BY <2>1, <3>1
  <2>3. m - 1 \in Nat /\ m - 1 \notin T
    <3>1. m \in Nat
      OBVIOUS
    <3> HIDE DEF T
    <3>2. QED
      BY <2>1, <2>2, <3>1
  <2>4. PICK g : g = Def(g, m - 1)
    <3>1. \A k \in Nat : k \notin T => \E g : g = Def(g, k)
      OBVIOUS
    <3>2. QED
      BY <2>3, <3>1, Zenon
  <2> DEFINE h == [i \in 0 .. m |-> IF i < m THEN g[i]
                                    ELSE IF Passed(m) THEN g[m - 1] ELSE Append(g[m - 1], events[m].choices)]
  <2>5. \A i \in 0 .. m : h[i] = IF i = 0 THEN <<>>
                                 ELSE IF Passed(i) THEN h[i - 1] ELSE Append(h[i - 1], events[i].choices)
    <3> TAKE i \in 0 .. m
    <3>1. CASE i = m
      BY <2>2, <2>3, <3>1
    <3>2. CASE i < m
      <4>1. g[i] = IF i = 0 THEN <<>> ELSE IF Passed(i) THEN g[i - 1] ELSE Append(g[i - 1], events[i].choices)
        <5>1. i \in 0 .. (m - 1)
          BY <2>1, <3>2
        <5>2. QED
          BY <2>4, <5>1, Zenon
      <4>2. h[i] = g[i] /\ (i # 0 => h[i - 1] = g[i - 1])
        BY <2>1, <3>2
      <4>3. QED
        BY <4>1, <4>2
    <3>3. QED
      BY <2>1, <3>1, <3>2
  <2>6. h = Def(h, m)
    BY <2>5
  <2>7. QED
    BY <2>1, <2>6
<1>2. PICK g : g = Def(g, n)
  BY <1>1
<1> DEFINE heard == CHOOSE f : f = Def(f, n)
<1>3. heard = Def(heard, n)
  BY <1>2
<1>4. HandedOn(events) = heard[n]
  BY DEF HandedOn
<1> HIDE DEF heard
<1>5. /\ heard[0] = <<>>
      /\ \A i \in 1 .. n :
            heard[i] = IF Passed(i) THEN heard[i - 1] ELSE Append(heard[i - 1], events[i].choices)
  <2> HIDE DEF Passed
  <2>1. \A i \in 0 .. n : heard[i] = IF i = 0 THEN <<>>
                                      ELSE IF Passed(i) THEN heard[i - 1] ELSE Append(heard[i - 1], events[i].choices)
    BY <1>3, Zenon
  <2> HIDE DEF Def
  <2>2. QED
    BY <2>1
<1>6. QED
  BY <1>4, <1>5

(* Of sound events only harmless choices are handed on. *)
LEMMA HandedOnIsHarmless ==
    ASSUME NEW events \in Seq(SoundEvent)
    PROVE  HandedOn(events) \in Seq(HarmlessChoices)
<1>1. PICK n \in Nat : n = Len(events) /\ DOMAIN events = 1 .. n
  OBVIOUS
<1>2. PICK heard : /\ heard[0] = <<>>
                   /\ \A i \in 1 .. n :
                         heard[i] = IF events[i].type # "chunk" \/ \E j \in Failing(events) : j <= i THEN heard[i - 1]
                                    ELSE Append(heard[i - 1], events[i].choices)
                   /\ HandedOn(events) = heard[n]
  BY <1>1, HandedOnSteps
<1>3. ASSUME NEW i \in 1 .. n, heard[i - 1] \in Seq(HarmlessChoices)
      PROVE  heard[i] \in Seq(HarmlessChoices)
  <2>1. CASE heard[i] = heard[i - 1]
    BY <1>3, <2>1
  <2>2. CASE events[i].type = "chunk" /\ heard[i] = Append(heard[i - 1], events[i].choices)
    <3>1. events[i] \in SoundEvent
      BY <1>1
    <3>2. events[i].choices \in HarmlessChoices
      BY <2>2, <3>1 DEF SoundEvent, ErrorEvent, ChunkEvent
    <3>3. QED
      BY <1>3, <2>2, <3>2
  <2>3. QED
    BY <1>2, <2>1, <2>2
<1> DEFINE T == {i \in 0 .. n : heard[i] \notin Seq(HarmlessChoices)}
<1>4. T \in SUBSET Nat
  OBVIOUS
<1>5. ASSUME NEW i \in T, \A k \in T : i <= k PROVE FALSE
  <2>1. i # 0
    <3>1. heard[0] \in Seq(HarmlessChoices)
      BY <1>2
    <3>2. heard[i] \notin Seq(HarmlessChoices)
      OBVIOUS
    <3>3. QED
      BY <3>1, <3>2
  <2>2. i \in 1 .. n /\ i - 1 \in 0 .. n /\ ~(i <= i - 1)
    BY <2>1
  <2>3. i - 1 \notin T
    <3> HIDE DEF T
    <3>1. QED
      BY <1>5, <2>2
  <2>4. QED
    BY <1>3, <2>2, <2>3
<1> HIDE DEF T
<1>6. T = {}
  BY <1>4, <1>5, LeastOf
<1>7. QED
  BY <1>1, <1>2, <1>6 DEF T

(* What the assumption says of the call at hand. *)
LEMMA CallFacts ==
    ASSUME call \in AdapterCalls
    PROVE  /\ capability.toolCalls \in BOOLEAN /\ capability.sseStreaming \in BOOLEAN
           /\ request.stream \in BOOLEAN
           /\ request.stream => upstream.body \in Seq(Tokens)
           /\ ~request.stream => upstream.kind \in {"error", "body"} /\ upstream.bytes \in Nat
           /\ upstream.kind = "body" => IsChoices(upstream.choices)
BY AdapterCallsAssumption DEF capability, request, upstream, Tokens

(* How a call ends for the events the generator was given. *)
LEMMA SettledIsKnown ==
    ASSUME AdapterIInv, NEW events \in Seq(SoundEvent), NEW failing \in SUBSET DOMAIN events,
           Settle(events, failing), call' = call
    PROVE  AnswerIsKnown'
<1> DEFINE first == events[Min(failing)]
<1>1. CASE answer' = answer
  BY <1>1 DEF AdapterIInv, AnswerIsKnown, upstream
<1>2. CASE answer' \in {Completed, StreamFails("stream_error", "chunk")}
  BY <1>2 DEF Completed, StreamFails, Answered, AnswerIsKnown, None
<1>3. CASE failing # {} /\ first.type = "error" /\ answer' = Answered("failed", first.code, first.why, first.status)
  <2>1. PICK n \in Nat : DOMAIN events = 1 .. n /\ \A i \in 1 .. n : events[i] \in SoundEvent
    OBVIOUS
  <2>2. Min(failing) \in failing
    <3>1. failing \in SUBSET Nat
      BY <2>1
    <3>2. QED
      BY <1>3, <3>1, LeastOf
  <2>3. first \in SoundEvent
    BY <2>1, <2>2
  <2> HIDE DEF first
  <2>4. first.why \in Whys /\ (first.why = "tools" => first.code = "unsupported_capability")
    BY <1>3, <2>3 DEF SoundEvent, ErrorEvent, ChunkEvent
  <2>5. answer'.why = first.why /\ answer'.code = first.code
    BY <1>3 DEF Answered
  <2>6. QED
    BY <2>4, <2>5 DEF AnswerIsKnown, Whys
<1>4. QED
  BY <1>1, <1>2, <1>3 DEF Settle, Close

(* The invariant holds of a call that was not made yet, and every action keeps it. *)
LEMMA AdapterInitIInv == AdapterInit => AdapterIInv
BY DEF AdapterInit, AdapterIInv, AnswerIsKnown, NoAnswer, Answered, NewParser, None

(* What is sent is supported. *)
LEMMA NormalizeRequestIInv == AdapterIInv /\ NormalizeRequest => AdapterIInv'
<1> SUFFICES ASSUME AdapterIInv, NormalizeRequest PROVE AdapterIInv'
  OBVIOUS
<1>1. UNCHANGED <<call, parser, yielded>>
  BY DEF NormalizeRequest
<1>2. call \in AdapterCalls /\ parser.buffer \in Seq(Tokens) /\ yielded \in Seq(HarmlessChoices)
  BY DEF AdapterIInv
<1>3. HarmlessChoices' = HarmlessChoices
  BY <1>1 DEF HarmlessChoices, Harmless, capability
<1>4. sent' \subseteq Supported /\ Supported' = Supported
  <2>1. sent' \in {sent, Wanted} /\ (sent' # sent => Wanted \subseteq Supported)
    BY DEF NormalizeRequest
  <2>2. QED
    BY <1>1, <2>1 DEF AdapterIInv, Supported, capability
<1>5. left' \in Seq(Tokens)
  <2>1. left' \in {left, <<>>} \/ (request.stream /\ left' = upstream.body)
    BY DEF NormalizeRequest
  <2>2. <<>> \in Seq(Tokens) /\ left \in Seq(Tokens)
    BY DEF AdapterIInv
  <2>3. QED
    BY <1>2, <2>1, <2>2, CallFacts
<1>6. AnswerIsKnown'
  <2>1. CASE answer' = answer
    BY <1>1, <2>1 DEF AdapterIInv, AnswerIsKnown, upstream
  <2>2. CASE answer' = RefusedRequest
    BY <2>2 DEF RefusedRequest, Answered, AnswerIsKnown
  <2>3. QED
    BY <2>1, <2>2 DEF NormalizeRequest, Close
<1>7. QED
  BY <1>1, <1>2, <1>3, <1>4, <1>5, <1>6 DEF AdapterIInv

(* An answer is refused, or harmless. *)
LEMMA UpstreamAnswersIInv == AdapterIInv /\ UpstreamAnswers => AdapterIInv'
<1> SUFFICES ASSUME AdapterIInv, UpstreamAnswers PROVE AdapterIInv'
  OBVIOUS
<1>1. UNCHANGED <<call, sent, left, parser>> /\ answer' = PlainVerdict /\ ~request.stream
  BY DEF UpstreamAnswers
<1>2. /\ call \in AdapterCalls /\ parser.buffer \in Seq(Tokens) /\ left \in Seq(Tokens)
      /\ sent \subseteq Supported
  BY DEF AdapterIInv
<1>3. HarmlessChoices' = HarmlessChoices /\ Supported' = Supported
  BY <1>1 DEF HarmlessChoices, Harmless, Supported, capability
<1>4. capability.toolCalls \in BOOLEAN /\ upstream.kind \in {"error", "body"} /\ upstream.bytes \in Nat
  BY <1>1, <1>2, CallFacts
<1>5. \/ /\ upstream.kind = "error"
         /\ answer' = Answered("failed", NormalizeError(ErrorSeen(upstream), None), "upstream",
                               NormalizedStatus(ErrorSeen(upstream)))
      \/ answer' = Answered("failed", "response_too_large", "size", Unknown)
      \/ answer' = Answered("failed", "upstream_protocol_error", "body", Unknown)
      \/ upstream.kind = "body" /\ answer' = Completed /\ Refusal(upstream.choices) = None
  <2>1. CASE upstream.bytes > MaxResponse
    BY <1>1, <2>1, <1>4, CapsAreSizes DEF PlainVerdict
  <2>2. CASE upstream.bytes <= MaxResponse /\ upstream.kind = "error"
    BY <1>1, <2>2, <1>4, CapsAreSizes DEF PlainVerdict
  <2>3. CASE upstream.bytes <= MaxResponse /\ upstream.kind = "body"
    BY <1>1, <2>3, <1>4, CapsAreSizes DEF PlainVerdict
  <2>4. QED
    BY <1>4, <2>1, <2>2, <2>3, CapsAreSizes
<1>6. AnswerIsKnown'
  <2>1. (ErrorSeen(upstream))' = ErrorSeen(upstream) /\ upstream' = upstream
    BY <1>1 DEF upstream, ErrorSeen
  <2>2. CASE /\ upstream.kind = "error"
             /\ answer' = Answered("failed", NormalizeError(ErrorSeen(upstream), None), "upstream",
                                   NormalizedStatus(ErrorSeen(upstream)))
    <3>1. NormalizeError(ErrorSeen(upstream), None)' = NormalizeError(ErrorSeen(upstream), None)
      BY <2>1 DEF NormalizeError, TaxonomyOf
    <3>2. NormalizedStatus(ErrorSeen(upstream))' = NormalizedStatus(ErrorSeen(upstream))
      BY <2>1 DEF NormalizedStatus
    <3>3. answer'.why = "upstream"
      BY <2>2 DEF Answered
    <3>4. QED
      BY <2>1, <2>2, <3>1, <3>2, <3>3 DEF AnswerIsKnown, Answered
  <2>3. CASE answer' \in {Answered("failed", "response_too_large", "size", Unknown),
                          Answered("failed", "upstream_protocol_error", "body", Unknown), Completed}
    BY <2>3 DEF AnswerIsKnown, Answered, Completed, None
  <2>4. QED
    BY <1>5, <2>2, <2>3
<1>7. yielded' \in Seq(HarmlessChoices)
  <2>1. CASE PlainVerdict.state = "completed"
    <3>1. upstream.kind = "body" /\ Refusal(upstream.choices) = None
      BY <1>1, <1>5, <2>1 DEF Answered
    <3>2. IsChoices(upstream.choices)
      BY <1>2, <3>1, CallFacts
    <3>3. NormalizeChoices(upstream.choices, InAnswer) \in HarmlessChoices
      BY <1>4, <3>1, <3>2, ChoicesAreNormal
    <3>4. yielded' = <<NormalizeChoices(upstream.choices, InAnswer)>>
      BY <2>1 DEF UpstreamAnswers
    <3>5. QED
      BY <3>3, <3>4
  <2>2. CASE PlainVerdict.state # "completed"
    BY <2>2 DEF UpstreamAnswers
  <2>3. QED
    BY <2>1, <2>2
<1>8. QED
  BY <1>1, <1>2, <1>3, <1>6, <1>7 DEF AdapterIInv

(* A fragment is fed to the parser, and its events are handed on. *)
LEMMA FragmentArrivesIInv ==
    ASSUME AdapterIInv, NEW n \in 1 .. Len(left), FragmentArrives(n)
    PROVE  AdapterIInv'
<1> DEFINE fragment == SubSeq(left, 1, n)
           fed == Feed(parser, fragment)
<1>1. UNCHANGED <<call, sent>> /\ left' = SubSeq(left, n + 1, Len(left))
  BY DEF FragmentArrives
<1>2. /\ call \in AdapterCalls /\ parser.buffer \in Seq(Tokens) /\ left \in Seq(Tokens)
      /\ sent \subseteq Supported /\ yielded \in Seq(HarmlessChoices)
  BY DEF AdapterIInv
<1>3. HarmlessChoices' = HarmlessChoices /\ Supported' = Supported
  BY <1>1 DEF HarmlessChoices, Harmless, Supported, capability
<1>4. fragment \in Seq(Tokens) /\ left' \in Seq(Tokens)
  BY <1>1, <1>2
<1> HIDE DEF fragment
<1>5. fed.events \in Seq(SoundEvent) /\ fed.parser.buffer \in Seq(Tokens)
  BY <1>2, <1>4, CallFacts, FeedIsSound
<1>6. CASE UNCHANGED <<parser, yielded>> /\ answer' = StreamFails("response_too_large", "size")
  <2>1. AnswerIsKnown'
    BY <1>6 DEF AnswerIsKnown, StreamFails, Answered
  <2>2. QED
    BY <1>1, <1>2, <1>3, <1>4, <1>6, <2>1 DEF AdapterIInv
<1>7. CASE /\ parser' = fed.parser /\ yielded' = yielded \o HandedOn(fed.events)
           /\ Settle(fed.events, Failing(fed.events))
  <2> HIDE DEF fed
  <2>1. HandedOn(fed.events) \in Seq(HarmlessChoices)
    BY <1>5, HandedOnIsHarmless
  <2>2. yielded' \in Seq(HarmlessChoices)
    BY <1>2, <1>7, <2>1
  <2>3. Failing(fed.events) \subseteq DOMAIN fed.events
    BY DEF Failing, StreamErrors
  <2>4. AnswerIsKnown'
    BY <1>1, <1>5, <1>7, <2>3, SettledIsKnown
  <2>5. QED
    BY <1>1, <1>2, <1>3, <1>4, <1>5, <1>7, <2>2, <2>4 DEF AdapterIInv
<1>8. QED
  BY <1>6, <1>7 DEF FragmentArrives, Close, fragment

(* The end of the body hands on nothing. *)
LEMMA BodyEndsIInv == AdapterIInv /\ BodyEnds => AdapterIInv'
<1> SUFFICES ASSUME AdapterIInv, BodyEnds PROVE AdapterIInv'
  OBVIOUS
<1> DEFINE events == Flush(parser)
<1>1. UNCHANGED <<call, sent, left, yielded>> /\ parser' = NewParser
  BY DEF BodyEnds
<1>2. /\ call \in AdapterCalls /\ left \in Seq(Tokens)
      /\ sent \subseteq Supported /\ yielded \in Seq(HarmlessChoices)
  BY DEF AdapterIInv
<1>3. HarmlessChoices' = HarmlessChoices /\ Supported' = Supported
  BY <1>1 DEF HarmlessChoices, Harmless, Supported, capability
<1>4. events \in Seq(SoundEvent)
  BY <1>2, CallFacts, FlushIsSound
<1>5. AnswerIsKnown'
  <2>1. CASE answer' = StreamFails("stream_error", "premature")
    BY <2>1 DEF AnswerIsKnown, StreamFails, Answered
  <2>2. CASE Settle(events, StreamErrors(events))
    <3> HIDE DEF events
    <3>1. StreamErrors(events) \subseteq DOMAIN events
      BY DEF StreamErrors
    <3>2. QED
      BY <1>1, <1>4, <2>2, <3>1, SettledIsKnown
  <2>3. QED
    BY <2>1, <2>2 DEF BodyEnds, Close
<1>6. parser'.buffer \in Seq(Tokens)
  BY <1>1 DEF NewParser
<1>7. QED
  BY <1>1, <1>2, <1>3, <1>5, <1>6 DEF AdapterIInv

(* The inductive invariant of a call through the adapter: what was sent is supported,
   what was yielded is harmless, and the answer is one the code can give. *)
THEOREM AdapterInductive == AdapterSpec => []AdapterIInv
<1>1. ASSUME AdapterIInv, [AdapterNext]_adapterVars PROVE AdapterIInv'
  <2>1. CASE NormalizeRequest
    BY <1>1, <2>1, NormalizeRequestIInv
  <2>2. CASE UpstreamAnswers
    BY <1>1, <2>2, UpstreamAnswersIInv
  <2>3. ASSUME NEW n \in 1 .. Len(left), FragmentArrives(n) PROVE AdapterIInv'
    BY <1>1, <2>3, FragmentArrivesIInv
  <2>4. CASE BodyEnds
    BY <1>1, <2>4, BodyEndsIInv
  <2>5. CASE UNCHANGED adapterVars
    <3>1. UNCHANGED <<call, sent, left, parser, yielded, answer>>
      BY <2>5 DEF adapterVars
    <3>2. /\ HarmlessChoices' = HarmlessChoices /\ Supported' = Supported
          /\ AnswerIsKnown' = AnswerIsKnown
      BY <3>1 DEF HarmlessChoices, Harmless, Supported, capability, AnswerIsKnown, upstream
    <3>3. QED
      BY <1>1, <3>1, <3>2 DEF AdapterIInv
  <2>6. QED
    BY <1>1, <2>1, <2>2, <2>3, <2>4, <2>5 DEF AdapterNext
<1>2. QED
  BY <1>1, AdapterInitIInv, PTL DEF AdapterSpec

(* ToolsAreDeclared: no tool call is asked of, or handed on from, a provider that does
   not declare them, for any bodies, any objects in them and any fragments
   (request.js, response.js and sse.js). *)
THEOREM ToolsAlwaysDeclared == AdapterSpec => []ToolsAreDeclared
<1>1. ASSUME AdapterIInv PROVE ToolsAreDeclared
  <2>1. CASE capability.toolCalls
    BY <2>1 DEF ToolsAreDeclared
  <2>2. CASE ~capability.toolCalls
    <3>1. sent \cap {"tools", "tool_choice"} = {}
      BY <1>1, <2>2 DEF AdapterIInv, Supported
    <3>2. \A i \in DOMAIN yielded : yielded[i] \in HarmlessChoices
      BY <1>1 DEF AdapterIInv
    <3>3. \A i \in DOMAIN yielded : \A j \in DOMAIN yielded[i] : ~yielded[i][j].tools
      BY <2>2, <3>2 DEF HarmlessChoices, Harmless
    <3>4. QED
      BY <3>1, <3>3 DEF ToolsAreDeclared
  <2>3. QED
    BY <2>1, <2>2
<1>2. QED
  BY <1>1, AdapterInductive, PTL

(* What normalizeOpenAIError makes of an error without a context. *)
LEMMA ErrorsCause ==
    ASSUME NEW e
    PROVE  NormalizeError(e, None) =
             IF "unsupported_capability" \in e.code THEN "unsupported_capability"
             ELSE IF "stream_error" \in e.code \/ "stream" \in e.message THEN "stream_error"
             ELSE IF "upstream_protocol_error" \in e.code THEN "upstream_protocol_error" ELSE TaxonomyOf(e)
<1> DEFINE names == [c \in ToSet(Own) |-> None = c \/ c \in e.code]
<1>1. ToSet(Own) = {"unsupported_capability", "stream_error", "upstream_protocol_error"}
  BY DEF ToSet, Own
<1>2. /\ names["unsupported_capability"] <=> "unsupported_capability" \in e.code
      /\ names["stream_error"] <=> "stream_error" \in e.code
      /\ names["upstream_protocol_error"] <=> "upstream_protocol_error" \in e.code
  BY <1>1 DEF None
<1>3. NormalizeError(e, None) =
         IF names["unsupported_capability"] THEN "unsupported_capability"
         ELSE IF names["stream_error"] \/ "stream" \in e.message THEN "stream_error"
         ELSE IF names["upstream_protocol_error"] THEN "upstream_protocol_error" ELSE TaxonomyOf(e)
  BY DEF NormalizeError
<1> HIDE DEF names
<1>4. QED
  BY <1>2, <1>3

(* Its words and the status it carries are all that decides, and the fallback is left to
   errors whose words say nothing. *)
LEMMA CauseHasEvidence ==
    ASSUME NEW e
    PROVE  /\ NormalizeError(e, None) \in WordsSay(e) \cup {Documented(e.status)}
           /\ NormalizeError(e, None) = "internal_execution_error" => WordsSay(e) \subseteq {"upstream_quota"}
           /\ WordsSay(e) = {} => NormalizeError(e, None) = Documented(e.status)
           /\ e.status = 429 /\ WordsSay(e) = {"upstream_quota"} => NormalizeError(e, None) = "upstream_quota"
<1>1. ToSet(Own) = {"unsupported_capability", "stream_error", "upstream_protocol_error"}
  BY DEF ToSet, Own
<1>2. PICK words : words = WordsSay(e)
  OBVIOUS
<1>3. /\ "unsupported_capability" \in words <=> "unsupported_capability" \in e.code
      /\ "stream_error" \in words <=> "stream_error" \in e.code \/ "stream" \in e.message
      /\ "upstream_protocol_error" \in words <=> "upstream_protocol_error" \in e.code
      /\ "upstream_authentication" \in words <=>
            "api_key" \in e.message \/ "unauthorized" \in e.message \/ "invalid_api_key" \in e.code
      /\ "upstream_rate_limit" \in words <=> "rate_limit" \in e.code \/ "requests" \in e.type
      /\ "upstream_quota" \in words <=> "quota" \in e.code \cup e.type \cup e.message
      /\ "timeout" \in words <=> "timeout" \in e.code \cup e.message
      /\ "request_invalid" \in words <=> "invalid" \in e.code \cup e.type
      /\ words \subseteq {"unsupported_capability", "stream_error", "upstream_protocol_error",
                          "upstream_authentication", "upstream_rate_limit", "upstream_quota", "timeout",
                          "request_invalid"}
  BY <1>1, <1>2 DEF WordsSay
<1>4. PICK code : code = NormalizeError(e, None)
  OBVIOUS
<1>5. code = IF "unsupported_capability" \in words THEN "unsupported_capability"
             ELSE IF "stream_error" \in words THEN "stream_error"
             ELSE IF "upstream_protocol_error" \in words THEN "upstream_protocol_error"
             ELSE IF e.status \in {401, 403} \/ "upstream_authentication" \in words
             THEN "upstream_authentication"
             ELSE IF e.status = 429 \/ "upstream_rate_limit" \in words
             THEN IF "upstream_quota" \in words THEN "upstream_quota" ELSE "upstream_rate_limit"
             ELSE IF e.status \in {408, 504} \/ "timeout" \in words THEN "timeout"
             ELSE IF e.status = 413 THEN "request_too_large"
             ELSE IF e.status \in {400, 404, 422} \/ "request_invalid" \in words THEN "request_invalid"
             ELSE IF e.status \in 500..599 THEN "upstream_server_error"
             ELSE "internal_execution_error"
  <2>1. PICK other : other = TaxonomyOf(e)
    OBVIOUS
  <2>2. code = IF "unsupported_capability" \in e.code THEN "unsupported_capability"
               ELSE IF "stream_error" \in e.code \/ "stream" \in e.message THEN "stream_error"
               ELSE IF "upstream_protocol_error" \in e.code THEN "upstream_protocol_error" ELSE other
    BY <1>4, <2>1, ErrorsCause
  <2>3. other = IF e.status \in {401, 403} \/ "upstream_authentication" \in words
                THEN "upstream_authentication"
                ELSE IF e.status = 429 \/ "upstream_rate_limit" \in words
                THEN IF "upstream_quota" \in words THEN "upstream_quota" ELSE "upstream_rate_limit"
                ELSE IF e.status \in {408, 504} \/ "timeout" \in words THEN "timeout"
                ELSE IF e.status = 413 THEN "request_too_large"
                ELSE IF e.status \in {400, 404, 422} \/ "request_invalid" \in words THEN "request_invalid"
                ELSE IF e.status \in 500..599 THEN "upstream_server_error"
                ELSE "internal_execution_error"
    BY <1>3, <2>1 DEF TaxonomyOf
  <2>4. QED
    BY <1>3, <2>2, <2>3
<1>6. code \in words \cup {Documented(e.status)}
  BY <1>5 DEF Documented
<1>7. code = "internal_execution_error" => words \subseteq {"upstream_quota"}
  BY <1>3, <1>5
<1>8. words = {} => code = Documented(e.status)
  BY <1>6
<1>9. e.status = 429 /\ words = {"upstream_quota"} => code = "upstream_quota"
  BY <1>5
<1>10. QED
  BY <1>2, <1>4, <1>6, <1>7, <1>8, <1>9

(* ErrorKeepsCause: an undeclared tool call ends as an unsupported capability, and an
   upstream error as a cause its words or a status stand for, by the HTTP status where that
   reaches the adapter and no word says otherwise (normalizeOpenAIError). *)
THEOREM ErrorAlwaysKeepsCause == AdapterSpec => []ErrorKeepsCause
<1>1. ASSUME AdapterIInv PROVE ErrorKeepsCause
  <2>1. ASSUME answer.why = "upstream",
               NEW e, e = upstream.error, NEW http, http = upstream.status,
               NEW seen, seen = ErrorSeen(upstream)
        PROVE  /\ answer.code \in WordsSay(e) \cup {Documented(http), Documented(seen.status)}
               /\ answer.code = "internal_execution_error" => WordsSay(e) \subseteq {"upstream_quota"}
               /\ StatusReaches(upstream) =>
                    /\ IsPlain(e) => answer.code = Documented(http)
                    /\ http = 429 /\ WordsSay(e) = {"upstream_quota"} => answer.code = "upstream_quota"
                    /\ answer.status = NormalizedStatus([status |-> http])
    <3>1. IsError(e)
      BY <1>1, <2>1, AdapterCallsAssumption DEF AdapterIInv, AnswerIsKnown, upstream
    <3>2. /\ seen.message = e.message /\ seen.code = e.code /\ seen.type = e.type
          /\ StatusReaches(upstream) => seen.status = http
      BY <2>1, <3>1 DEF ErrorSeen, IsError, StatusReaches
    <3>3. answer = Answered("failed", NormalizeError(seen, None), "upstream", NormalizedStatus(seen))
      BY <1>1, <2>1 DEF AdapterIInv, AnswerIsKnown
    <3>4. answer.code = NormalizeError(seen, None) /\ answer.status = NormalizedStatus(seen)
      BY <3>3 DEF Answered
    <3>5. WordsSay(seen) = WordsSay(e)
      BY <3>2 DEF WordsSay
    <3>6. IsPlain(e) => WordsSay(e) = {}
      <4>1. ToSet(Own) = {"unsupported_capability", "stream_error", "upstream_protocol_error"}
        BY DEF ToSet, Own
      <4>2. QED
        BY <4>1 DEF WordsSay, IsPlain
    <3>7. StatusReaches(upstream) => NormalizedStatus(seen) = NormalizedStatus([status |-> http])
      BY <3>2 DEF NormalizedStatus
    <3>8. QED
      BY <3>2, <3>4, <3>5, <3>6, <3>7, CauseHasEvidence
  <2>2. answer.why = "tools" => answer.code = "unsupported_capability"
    BY <1>1 DEF AdapterIInv, AnswerIsKnown
  <2>3. QED
    BY <2>1, <2>2 DEF ErrorKeepsCause
<1>2. QED
  BY <1>1, AdapterInductive, PTL

-----------------------------------------------------------------------------
(* FragmentationIsInvisible.                                               *)

(* What holds of 0 and passes from every number to the next holds of all up to a bound. *)
LEMMA UpTo ==
    ASSUME NEW n \in Nat, NEW G, 0 \in G, \A i \in 1 .. n : i - 1 \in G => i \in G
    PROVE  \A i \in 0 .. n : i \in G
<1> DEFINE T == {i \in 0 .. n : i \notin G}
<1>1. T \in SUBSET Nat
  OBVIOUS
<1>2. ASSUME NEW i \in T, \A k \in T : i <= k PROVE FALSE
  <2>1. i \in 1 .. n /\ i - 1 \in 0 .. n /\ ~(i <= i - 1) /\ i \notin G
    OBVIOUS
  <2>2. i - 1 \notin T
    <3> HIDE DEF T
    <3>1. QED
      BY <1>2, <2>1
  <2>3. QED
    BY <2>1, <2>2
<1> HIDE DEF T
<1>3. T = {}
  BY <1>1, <1>2, LeastOf
<1>4. QED
  BY <1>3 DEF T

(* The data of an event is joined line by line. *)
LEMMA DataSteps ==
    ASSUME NEW lines, NEW n \in Nat, n = Len(lines)
    PROVE  \E data :
              /\ data[0] = <<>>
              /\ \A i \in 1 .. n :
                    data[i] = IF lines[i][1] # "data" THEN data[i - 1]
                              ELSE IF data[i - 1] = <<>> THEN Tail(lines[i])
                              ELSE data[i - 1] \o <<"lf">> \o Tail(lines[i])
              /\ Data(lines) = data[n]
<1> DEFINE Step(i, data) == IF lines[i][1] # "data" THEN data
                            ELSE IF data = <<>> THEN Tail(lines[i]) ELSE data \o <<"lf">> \o Tail(lines[i])
           Def(g, m) == [i \in 0 .. m |-> IF i = 0 THEN <<>> ELSE Step(i, g[i - 1])]
           Exists(m) == \E g : g = Def(g, m)
           G == {m \in 0 .. n : Exists(m)}
           data == CHOOSE g : g = Def(g, n)
<1>1. Data(lines) = data[n]
  BY DEF Data
<1> HIDE DEF Step
<1>2. 0 \in G
  <2>1. [i \in 0 .. 0 |-> <<>>] = Def([i \in 0 .. 0 |-> <<>>], 0)
    OBVIOUS
  <2>2. Exists(0)
    BY <2>1, Zenon
  <2> HIDE DEF Exists
  <2>3. QED
    BY <2>2
<1>3. ASSUME NEW m \in 1 .. n, m - 1 \in G PROVE m \in G
  <2>1. PICK g : g = Def(g, m - 1)
    <3>1. Exists(m - 1)
      <4> HIDE DEF Exists
      <4>1. QED
        BY <1>3
    <3>2. QED
      BY <3>1, Zenon
  <2> DEFINE h == [i \in 0 .. m |-> IF i < m THEN g[i] ELSE Step(m, g[m - 1])]
  <2>2. \A i \in 0 .. m : h[i] = IF i = 0 THEN <<>> ELSE Step(i, h[i - 1])
    <3> TAKE i \in 0 .. m
    <3>1. CASE i = m
      BY <3>1
    <3>2. CASE i < m
      <4>1. g[i] = IF i = 0 THEN <<>> ELSE Step(i, g[i - 1])
        <5>1. i \in 0 .. (m - 1)
          BY <3>2
        <5>2. QED
          BY <2>1, <5>1, Zenon
      <4>2. h[i] = g[i] /\ (i # 0 => h[i - 1] = g[i - 1])
        BY <3>2
      <4>3. QED
        BY <4>1, <4>2
    <3>3. QED
      BY <3>1, <3>2
  <2>3. h = Def(h, m)
    BY <2>2
  <2>4. Exists(m)
    BY <2>3, Zenon
  <2> HIDE DEF Exists
  <2>5. QED
    BY <2>4
<1>4. Exists(n)
  <2> HIDE DEF Exists
  <2>1. \A i \in 0 .. n : i \in G
    <3> HIDE DEF G
    <3>1. QED
      BY <1>2, <1>3, UpTo, Zenon
  <2>2. QED
    BY <2>1
<1>5. data = Def(data, n)
  BY <1>4
<1> HIDE DEF data
<1>6. data[0] = <<>> /\ \A i \in 1 .. n : data[i] = Step(i, data[i - 1])
  <2>1. \A i \in 0 .. n : data[i] = IF i = 0 THEN <<>> ELSE Step(i, data[i - 1])
    BY <1>5, Zenon
  <2> HIDE DEF Def
  <2>2. QED
    BY <2>1
<1>7. QED
  BY <1>1, <1>6 DEF Step

(* A line that is appended adds to the data, or does not. *)
LEMMA DataAppend ==
    ASSUME NEW S, NEW lines \in Seq(S), NEW line \in S
    PROVE  Data(Append(lines, line)) =
              IF line[1] # "data" THEN Data(lines)
              ELSE IF Data(lines) = <<>> THEN Tail(line)
              ELSE Data(lines) \o <<"lf">> \o Tail(line)
<1> DEFINE more == Append(lines, line)
<1>1. PICK n \in Nat : n = Len(lines) /\ DOMAIN lines = 1 .. n
  OBVIOUS
<1>2. more \in Seq(S) /\ Len(more) = n + 1 /\ more[n + 1] = line /\ \A i \in 1 .. n : more[i] = lines[i]
  BY <1>1
<1> HIDE DEF more
<1> DEFINE Step(text, data) == IF text[1] # "data" THEN data
                               ELSE IF data = <<>> THEN Tail(text) ELSE data \o <<"lf">> \o Tail(text)
<1>3. PICK f : /\ f[0] = <<>>
               /\ \A i \in 1 .. n : f[i] = Step(lines[i], f[i - 1])
               /\ Data(lines) = f[n]
  BY <1>1, DataSteps
<1>4. PICK g : /\ g[0] = <<>>
               /\ \A i \in 1 .. n + 1 : g[i] = Step(more[i], g[i - 1])
               /\ Data(more) = g[n + 1]
  BY <1>1, <1>2, DataSteps
<1> HIDE DEF Step
<1> DEFINE G == {i \in 0 .. n : f[i] = g[i]}
<1>5. 0 \in G /\ \A i \in 1 .. n : i - 1 \in G => i \in G
  BY <1>2, <1>3, <1>4
<1>6. f[n] = g[n]
  <2>1. \A i \in 0 .. n : i \in G
    <3> HIDE DEF G
    <3>1. QED
      BY <1>5, UpTo, Zenon
  <2>2. QED
    BY <2>1
<1>7. Data(more) = Step(line, Data(lines))
  BY <1>2, <1>3, <1>4, <1>6
<1>8. QED
  BY <1>7 DEF Step, more

(* What one element does to the parts. *)
OnePart == << <<>> >>
PartStep(x, mark, parts) ==
    IF x = mark THEN Append(parts, <<>>) ELSE Append(Front(parts), Append(Last(parts), x))

(* A sequence is split element by element. *)
LEMMA SplitSteps ==
    ASSUME NEW s, NEW mark, NEW n \in Nat, n = Len(s)
    PROVE  \E parts :
              /\ parts[0] = OnePart
              /\ \A i \in 1 .. n : parts[i] = PartStep(s[i], mark, parts[i - 1])
              /\ Split(s, mark) = parts[n]
<1> DEFINE Step(i, parts) == PartStep(s[i], mark, parts)
           Def(g, m) == [i \in 0 .. m |-> IF i = 0 THEN OnePart ELSE Step(i, g[i - 1])]
           Exists(m) == \E g : g = Def(g, m)
           G == {m \in 0 .. n : Exists(m)}
           parts == CHOOSE g : g = Def(g, n)
<1>1. Split(s, mark) = parts[n]
  BY DEF Split, PartStep, OnePart
<1> HIDE DEF Step
<1>2. 0 \in G
  <2>1. [i \in 0 .. 0 |-> OnePart] = Def([i \in 0 .. 0 |-> OnePart], 0)
    OBVIOUS
  <2>2. Exists(0)
    BY <2>1, Zenon
  <2> HIDE DEF Exists
  <2>3. QED
    BY <2>2
<1>3. ASSUME NEW m \in 1 .. n, m - 1 \in G PROVE m \in G
  <2>1. PICK g : g = Def(g, m - 1)
    <3>1. Exists(m - 1)
      <4> HIDE DEF Exists
      <4>1. QED
        BY <1>3
    <3>2. QED
      BY <3>1, Zenon
  <2> DEFINE h == [i \in 0 .. m |-> IF i < m THEN g[i] ELSE Step(m, g[m - 1])]
  <2>2. \A i \in 0 .. m : h[i] = IF i = 0 THEN OnePart ELSE Step(i, h[i - 1])
    <3> TAKE i \in 0 .. m
    <3>1. CASE i = m
      BY <3>1
    <3>2. CASE i < m
      <4>1. g[i] = IF i = 0 THEN OnePart ELSE Step(i, g[i - 1])
        <5>1. i \in 0 .. (m - 1)
          BY <3>2
        <5>2. QED
          BY <2>1, <5>1, Zenon
      <4>2. h[i] = g[i] /\ (i # 0 => h[i - 1] = g[i - 1])
        BY <3>2
      <4>3. QED
        BY <4>1, <4>2
    <3>3. QED
      BY <3>1, <3>2
  <2>3. h = Def(h, m)
    BY <2>2
  <2>4. Exists(m)
    BY <2>3, Zenon
  <2> HIDE DEF Exists
  <2>5. QED
    BY <2>4
<1>4. Exists(n)
  <2> HIDE DEF Exists
  <2>1. \A i \in 0 .. n : i \in G
    <3> HIDE DEF G
    <3>1. QED
      BY <1>2, <1>3, UpTo, Zenon
  <2>2. QED
    BY <2>1
<1>5. parts = Def(parts, n)
  BY <1>4
<1> HIDE DEF parts
<1>6. parts[0] = OnePart /\ \A i \in 1 .. n : parts[i] = Step(i, parts[i - 1])
  <2>1. \A i \in 0 .. n : parts[i] = IF i = 0 THEN OnePart ELSE Step(i, parts[i - 1])
    BY <1>5, Zenon
  <2> HIDE DEF Def
  <2>2. QED
    BY <2>1
<1>7. QED
  BY <1>1, <1>6 DEF Step

(* One more element ends the last part or is added to it. *)
LEMMA SplitAppend ==
    ASSUME NEW S, NEW s \in Seq(S), NEW x \in S, NEW mark
    PROVE  /\ Split(<<>>, mark) = << <<>> >>
           /\ Split(Append(s, x), mark) =
                 IF x = mark THEN Append(Split(s, mark), <<>>)
                 ELSE Append(Front(Split(s, mark)), Append(Last(Split(s, mark)), x))
<1> DEFINE more == Append(s, x)
<1>1. PICK n \in Nat : n = Len(s) /\ DOMAIN s = 1 .. n
  OBVIOUS
<1>2. more \in Seq(S) /\ Len(more) = n + 1 /\ more[n + 1] = x /\ \A i \in 1 .. n : more[i] = s[i]
  BY <1>1
<1> HIDE DEF more
<1>3. PICK f : /\ f[0] = OnePart
               /\ \A i \in 1 .. n : f[i] = PartStep(s[i], mark, f[i - 1])
               /\ Split(s, mark) = f[n]
  <2>1. n \in Nat /\ n = Len(s)
    BY <1>1
  <2>2. QED
    BY <2>1, SplitSteps, SMTT(60)
<1>4. PICK g : /\ g[0] = OnePart
               /\ \A i \in 1 .. n + 1 : g[i] = PartStep(more[i], mark, g[i - 1])
               /\ Split(more, mark) = g[n + 1]
  <2>1. n + 1 \in Nat /\ n + 1 = Len(more)
    BY <1>2
  <2>2. QED
    BY <2>1, SplitSteps
<1> DEFINE G == {i \in 0 .. n : f[i] = g[i]}
<1>5. 0 \in G /\ \A i \in 1 .. n : i - 1 \in G => i \in G
  BY <1>2, <1>3, <1>4
<1>6. f[n] = g[n]
  <2>1. \A i \in 0 .. n : i \in G
    <3> HIDE DEF G
    <3>1. QED
      BY <1>5, UpTo, Zenon
  <2>2. QED
    BY <2>1
<1>7. Split(more, mark) = PartStep(x, mark, Split(s, mark))
  BY <1>2, <1>3, <1>4, <1>6
<1>8. Split(<<>>, mark) = OnePart
  <2>1. 0 \in Nat /\ 0 = Len(<<>>)
    OBVIOUS
  <2>2. PICK parts : parts[0] = OnePart /\ Split(<<>>, mark) = parts[0]
    BY <2>1, SplitSteps
  <2>3. QED
    BY <2>2
<1>9. QED
  BY <1>7, <1>8 DEF PartStep, OnePart, more

(* There is always a last part. *)
LEMMA SplitParts ==
    ASSUME NEW S, NEW s \in Seq(S), NEW mark
    PROVE  Split(s, mark) \in Seq(Seq(S)) /\ Split(s, mark) # <<>>
<1>1. PICK n \in Nat : n = Len(s) /\ \A i \in 1 .. n : s[i] \in S
  OBVIOUS
<1>2. PICK parts : /\ parts[0] = OnePart
                   /\ \A i \in 1 .. n : parts[i] = PartStep(s[i], mark, parts[i - 1])
                   /\ Split(s, mark) = parts[n]
  BY <1>1, SplitSteps, SMTT(60)
<1> DEFINE IsSplit(p) == p \in Seq(Seq(S)) /\ p # <<>>
           G == {i \in 0 .. n : IsSplit(parts[i])}
<1>3. 0 \in G
  <2>1. <<>> \in Seq(S)
    OBVIOUS
  <2>2. IsSplit(OnePart)
    BY <2>1 DEF OnePart
  <2> HIDE DEF IsSplit
  <2>3. QED
    BY <1>2, <2>2
<1>4. ASSUME NEW i \in 1 .. n, i - 1 \in G PROVE i \in G
  <2>1. PICK p : p = parts[i - 1]
    OBVIOUS
  <2>2. p \in Seq(Seq(S)) /\ p # <<>>
    BY <1>4, <2>1
  <2>3. Front(p) \in Seq(Seq(S)) /\ Last(p) \in Seq(S)
    BY <2>2 DEF Front, Last
  <2>4. Append(p, <<>>) \in Seq(Seq(S)) /\ Append(p, <<>>) # <<>>
    BY <2>2
  <2>5. Append(Last(p), s[i]) \in Seq(S)
    BY <1>1, <2>3
  <2>6. IsSplit(Append(Front(p), Append(Last(p), s[i])))
    <3>1. PICK front, last : front = Front(p) /\ last = Append(Last(p), s[i])
      OBVIOUS
    <3>2. Append(front, last) \in Seq(Seq(S)) /\ Append(front, last) # <<>>
      <4>1. front \in Seq(Seq(S)) /\ last \in Seq(S)
        BY <2>3, <2>5, <3>1
      <4>2. QED
        BY <4>1, AppendProperties
    <3>3. QED
      BY <3>1, <3>2
  <2>7. IsSplit(parts[i])
    BY <1>2, <2>1, <2>4, <2>6 DEF PartStep
  <2> HIDE DEF IsSplit
  <2>8. QED
    BY <2>7
<1>5. \A i \in 0 .. n : i \in G
  <2> HIDE DEF G
  <2>1. QED
    BY <1>3, <1>4, UpTo, Zenon
<1>6. IsSplit(parts[n])
  <2> HIDE DEF IsSplit
  <2>1. QED
    BY <1>5
<1>7. QED
  BY <1>2, <1>6

(* The events of groups are collected group by group. *)
LEMMA EventsOfSteps ==
    ASSUME NEW groups, NEW n \in Nat, n = Len(groups)
    PROVE  \E said :
              /\ said[0] = <<>>
              /\ \A i \in 1 .. n : said[i] = said[i - 1] \o ParseEventData(Data(groups[i]))
              /\ EventsOf(groups) = said[n]
<1> DEFINE Step(i, said) == said \o ParseEventData(Data(groups[i]))
           Def(g, m) == [i \in 0 .. m |-> IF i = 0 THEN <<>> ELSE Step(i, g[i - 1])]
           Exists(m) == \E g : g = Def(g, m)
           G == {m \in 0 .. n : Exists(m)}
           said == CHOOSE g : g = Def(g, n)
<1>1. EventsOf(groups) = said[n]
  BY DEF EventsOf
<1> HIDE DEF Step
<1>2. 0 \in G
  <2>1. [i \in 0 .. 0 |-> <<>>] = Def([i \in 0 .. 0 |-> <<>>], 0)
    OBVIOUS
  <2>2. Exists(0)
    BY <2>1, Zenon
  <2> HIDE DEF Exists
  <2>3. QED
    BY <2>2
<1>3. ASSUME NEW m \in 1 .. n, m - 1 \in G PROVE m \in G
  <2>1. PICK g : g = Def(g, m - 1)
    <3>1. Exists(m - 1)
      <4> HIDE DEF Exists
      <4>1. QED
        BY <1>3
    <3>2. QED
      BY <3>1, Zenon
  <2> DEFINE h == [i \in 0 .. m |-> IF i < m THEN g[i] ELSE Step(m, g[m - 1])]
  <2>2. \A i \in 0 .. m : h[i] = IF i = 0 THEN <<>> ELSE Step(i, h[i - 1])
    <3> TAKE i \in 0 .. m
    <3>1. CASE i = m
      BY <3>1
    <3>2. CASE i < m
      <4>1. g[i] = IF i = 0 THEN <<>> ELSE Step(i, g[i - 1])
        <5>1. i \in 0 .. (m - 1)
          BY <3>2
        <5>2. QED
          BY <2>1, <5>1, Zenon
      <4>2. h[i] = g[i] /\ (i # 0 => h[i - 1] = g[i - 1])
        BY <3>2
      <4>3. QED
        BY <4>1, <4>2
    <3>3. QED
      BY <3>1, <3>2
  <2>3. h = Def(h, m)
    BY <2>2
  <2>4. Exists(m)
    BY <2>3, Zenon
  <2> HIDE DEF Exists
  <2>5. QED
    BY <2>4
<1>4. Exists(n)
  <2> HIDE DEF Exists
  <2>1. \A i \in 0 .. n : i \in G
    <3> HIDE DEF G
    <3>1. QED
      BY <1>2, <1>3, UpTo, Zenon
  <2>2. QED
    BY <2>1
<1>5. said = Def(said, n)
  BY <1>4
<1> HIDE DEF said
<1>6. said[0] = <<>> /\ \A i \in 1 .. n : said[i] = Step(i, said[i - 1])
  <2>1. \A i \in 0 .. n : said[i] = IF i = 0 THEN <<>> ELSE Step(i, said[i - 1])
    BY <1>5, Zenon
  <2> HIDE DEF Def
  <2>2. QED
    BY <2>1
<1>7. QED
  BY <1>1, <1>6 DEF Step

(* Another group adds what it spells. *)
LEMMA EventsOfAppend ==
    ASSUME NEW S, NEW groups \in Seq(S), NEW group \in S
    PROVE  /\ EventsOf(<<>>) = <<>>
           /\ EventsOf(Append(groups, group)) = EventsOf(groups) \o ParseEventData(Data(group))
<1> DEFINE more == Append(groups, group)
           Step(g, said) == said \o ParseEventData(Data(g))
<1>1. PICK n \in Nat : n = Len(groups) /\ DOMAIN groups = 1 .. n
  OBVIOUS
<1>2. more \in Seq(S) /\ Len(more) = n + 1 /\ more[n + 1] = group /\ \A i \in 1 .. n : more[i] = groups[i]
  BY <1>1
<1> HIDE DEF more
<1>3. PICK f : /\ f[0] = <<>>
               /\ \A i \in 1 .. n : f[i] = Step(groups[i], f[i - 1])
               /\ EventsOf(groups) = f[n]
  BY <1>1, EventsOfSteps
<1>4. PICK g : /\ g[0] = <<>>
               /\ \A i \in 1 .. n + 1 : g[i] = Step(more[i], g[i - 1])
               /\ EventsOf(more) = g[n + 1]
  <2>1. n + 1 \in Nat /\ n + 1 = Len(more)
    BY <1>2
  <2>2. QED
    BY <2>1, EventsOfSteps
<1> HIDE DEF Step
<1> DEFINE G == {i \in 0 .. n : f[i] = g[i]}
<1>5. 0 \in G /\ \A i \in 1 .. n : i - 1 \in G => i \in G
  BY <1>2, <1>3, <1>4
<1>6. f[n] = g[n]
  <2>1. \A i \in 0 .. n : i \in G
    <3> HIDE DEF G
    <3>1. QED
      BY <1>5, UpTo, Zenon
  <2>2. QED
    BY <2>1
<1>7. EventsOf(more) = Step(group, EventsOf(groups))
  BY <1>2, <1>3, <1>4, <1>6
<1>8. EventsOf(<<>>) = <<>>
  <2>1. 0 \in Nat /\ 0 = Len(<<>>)
    OBVIOUS
  <2>2. PICK said : /\ said[0] = <<>>
                    /\ \A i \in 1 .. 0 : said[i] = said[i - 1] \o ParseEventData(Data((<<>>)[i]))
                    /\ EventsOf(<<>>) = said[0]
    BY <2>1, EventsOfSteps, Zenon
  <2>3. QED
    BY <2>2
<1>9. QED
  BY <1>7, <1>8 DEF Step, more

(* The last element of a sequence, and what stands before it. *)
LEMMA FrontLast ==
    ASSUME NEW S, NEW s \in Seq(S), NEW x \in S
    PROVE  Front(Append(s, x)) = s /\ Last(Append(s, x)) = x
<1> DEFINE more == Append(s, x)
<1>1. PICK n \in Nat : n = Len(s)
  OBVIOUS
<1>2. more \in Seq(S) /\ Len(more) = n + 1 /\ more[n + 1] = x /\ \A i \in 1 .. n : more[i] = s[i]
  BY <1>1
<1> HIDE DEF more
<1>3. Last(more) = x
  BY <1>2 DEF Last
<1>4. Front(more) = s
  <2>1. Front(more) = SubSeq(more, 1, n)
    BY <1>2 DEF Front
  <2>2. SubSeq(more, 1, n) \in Seq(S) /\ Len(SubSeq(more, 1, n)) = n
        /\ \A i \in 1 .. n : SubSeq(more, 1, n)[i] = s[i]
    BY <1>2
  <2>3. QED
    BY <1>1, <2>1, <2>2, SeqEqual
<1>5. QED
  BY <1>3, <1>4 DEF more

(* A sequence that is not empty is its front and its last element. *)
LEMMA FrontAndLast ==
    ASSUME NEW S, NEW s \in Seq(S), s # <<>>
    PROVE  Front(s) \in Seq(S) /\ Last(s) \in S /\ s = Append(Front(s), Last(s))
           /\ Len(Front(s)) = Len(s) - 1 /\ Last(s) = s[Len(s)]
           /\ \A i \in 1 .. Len(s) - 1 : Front(s)[i] = s[i]
<1>1. PICK r \in Seq(S), x \in S : s = Append(r, x)
  BY SequenceEmptyOrAppend
<1>2. Front(s) = r /\ Last(s) = x
  BY <1>1, FrontLast
<1>3. Len(s) = Len(r) + 1 /\ s[Len(r) + 1] = x /\ (\A i \in 1 .. Len(r) : s[i] = r[i]) /\ Len(r) \in Nat
  BY <1>1
<1>4. QED
  BY <1>1, <1>2, <1>3

(* A line without its carriage return is a line. *)
LEMMA StripCrLine ==
    ASSUME NEW S, NEW line \in Seq(S)
    PROVE  StripCr(line) \in Seq(S)
BY FrontAndLast DEF StripCr

(* What the tokens of a body say that have been read: the lines that have ended, the line
   that has not, the lines since the last blank line and the events before it. *)
Ended(read) == [i \in 1 .. Len(Split(read, "lf")) - 1 |-> StripCr(Split(read, "lf")[i])]
OpenLine(read) == Last(Split(read, "lf"))
OpenGroup(read) == Last(Split(Ended(read), <<>>))
Complete(read) == EventsOf(Front(Split(Ended(read), <<>>)))

(* They are lines and groups of lines, and with the line that has not ended they are all. *)
LEMMA EndedLines ==
    ASSUME NEW S, NEW read \in Seq(S)
    PROVE  /\ Ended(read) \in Seq(Seq(S)) /\ OpenLine(read) \in Seq(S) /\ OpenGroup(read) \in Seq(Seq(S))
           /\ Split(Ended(read), <<>>) \in Seq(Seq(Seq(S))) /\ Split(Ended(read), <<>>) # <<>>
           /\ BodyLines(read) = Append(Ended(read), StripCr(OpenLine(read)))
<1> DEFINE lines == Split(read, "lf")
<1>1. lines \in Seq(Seq(S)) /\ lines # <<>>
  BY SplitParts
<1>2. Ended(read) = [i \in 1 .. Len(lines) - 1 |-> StripCr(lines[i])] /\ OpenLine(read) = Last(lines)
  BY DEF Ended, OpenLine
<1>3. BodyLines(read) = [i \in DOMAIN lines |-> StripCr(lines[i])]
  BY DEF BodyLines
<1> HIDE DEF lines
<1>4. PICK n \in Nat : Len(lines) = n + 1 /\ DOMAIN lines = 1 .. n + 1 /\ \A i \in 1 .. n + 1 : lines[i] \in Seq(S)
  <2>1. Len(lines) \in Nat /\ Len(lines) # 0
    BY <1>1
  <2>2. PICK n \in Nat : n = Len(lines) - 1
    BY <2>1
  <2>3. Len(lines) = n + 1
    BY <2>1, <2>2
  <2>4. \A i \in 1 .. Len(lines) : lines[i] \in Seq(S)
    BY <1>1, ElementOfSeq
  <2>5. DOMAIN lines = 1 .. Len(lines)
    BY <1>1, LenProperties
  <2>6. QED
    BY <2>3, <2>4, <2>5
<1>5. \A i \in 1 .. n + 1 : StripCr(lines[i]) \in Seq(S)
  BY <1>4, StripCrLine
<1>6. Ended(read) \in Seq(Seq(S)) /\ Len(Ended(read)) = n
  <2>1. Ended(read) = [i \in 1 .. n |-> StripCr(lines[i])]
    BY <1>2, <1>4
  <2>2. Ended(read) \in [1 .. n -> Seq(S)]
    BY <1>5, <2>1
  <2>3. QED
    BY <2>2
<1>7. OpenLine(read) \in Seq(S) /\ OpenLine(read) = lines[n + 1]
  BY <1>1, <1>2, <1>4, FrontAndLast
<1>8. BodyLines(read) = Append(Ended(read), StripCr(OpenLine(read)))
  <2>1. StripCr(OpenLine(read)) \in Seq(S)
    BY <1>7, StripCrLine
  <2> DEFINE whole == Append(Ended(read), StripCr(OpenLine(read)))
  <2>2. whole \in Seq(Seq(S)) /\ Len(whole) = n + 1 /\ whole[n + 1] = StripCr(OpenLine(read))
        /\ \A i \in 1 .. n : whole[i] = Ended(read)[i]
    BY <1>6, <2>1, AppendProperties
  <2> HIDE DEF whole
  <2>3. \A i \in 1 .. n : Ended(read)[i] = StripCr(lines[i])
    BY <1>2, <1>4
  <2>4. \A i \in 1 .. n + 1 : whole[i] = StripCr(lines[i])
    <3> TAKE i \in 1 .. n + 1
    <3>1. CASE i = n + 1
      BY <1>7, <2>2, <3>1
    <3>2. CASE i \in 1 .. n
      BY <2>2, <2>3, <3>2
    <3>3. QED
      BY <3>1, <3>2
  <2>5. BodyLines(read) = [i \in 1 .. n + 1 |-> StripCr(lines[i])]
    BY <1>3, <1>4
  <2>6. BodyLines(read) \in Seq(Seq(S)) /\ Len(BodyLines(read)) = n + 1
    <3>1. BodyLines(read) \in [1 .. n + 1 -> Seq(S)]
      BY <1>5, <2>5
    <3>2. QED
      BY <3>1
  <2>7. \A i \in 1 .. n + 1 : BodyLines(read)[i] = whole[i]
    BY <2>4, <2>5
  <2>8. BodyLines(read) = whole
    BY <2>2, <2>6, <2>7, SeqEqual
  <2>9. QED
    BY <2>8 DEF whole
<1>9. Split(Ended(read), <<>>) \in Seq(Seq(Seq(S))) /\ Split(Ended(read), <<>>) # <<>>
  BY <1>6, SplitParts
<1>10. OpenGroup(read) \in Seq(Seq(S))
  BY <1>9, FrontAndLast DEF OpenGroup
<1>11. QED
  BY <1>6, <1>7, <1>8, <1>9, <1>10

(* Nothing is said by nothing. *)
LEMMA NothingRead ==
    /\ Complete(<<>>) = <<>> /\ OpenLine(<<>>) = <<>> /\ OpenGroup(<<>>) = <<>>
    /\ Data(<<>>) = <<>> /\ ParseEventData(<<>>) = <<>>
<1>1. \A mark : Split(<<>>, mark) = << <<>> >>
  <2> TAKE mark
  <2>1. <<>> \in Seq({1}) /\ 1 \in {1}
    OBVIOUS
  <2>2. QED
    BY <2>1, SplitAppend
<1>2. Last(<< <<>> >>) = <<>> /\ Front(<< <<>> >>) = <<>> /\ Len(<< <<>> >>) = 1
  BY DEF Last, Front
<1>3. OpenLine(<<>>) = <<>>
  BY <1>1, <1>2 DEF OpenLine
<1>4. Ended(<<>>) = <<>>
  <2>1. <<>> \in Seq({1})
    OBVIOUS
  <2>2. Ended(<<>>) \in Seq(Seq({1}))
    BY <2>1, EndedLines
  <2>3. DOMAIN Ended(<<>>) = 1 .. Len(Split(<<>>, "lf")) - 1
    BY DEF Ended
  <2>4. Len(Split(<<>>, "lf")) - 1 = 0
    BY <1>1, <1>2
  <2>5. DOMAIN Ended(<<>>) = 1 .. 0
    BY <2>3, <2>4, Zenon
  <2>6. QED
    BY <2>2, <2>5, EmptySeq
<1>5. EventsOf(<<>>) = <<>>
  <2>1. <<>> \in Seq({1}) /\ 1 \in {1}
    OBVIOUS
  <2>2. QED
    BY <2>1, EventsOfAppend
<1>6. Complete(<<>>) = <<>> /\ OpenGroup(<<>>) = <<>>
  BY <1>1, <1>2, <1>4, <1>5 DEF Complete, OpenGroup
<1>7. Data(<<>>) = <<>>
  <2>1. 0 \in Nat /\ 0 = Len(<<>>)
    OBVIOUS
  <2>2. PICK data : data[0] = <<>> /\ Data(<<>>) = data[0]
    BY <2>1, DataSteps
  <2>3. QED
    BY <2>2
<1>8. ParseEventData(<<>>) = <<>>
  BY DEF ParseEventData, White
<1>9. QED
  BY <1>3, <1>6, <1>7, <1>8

(* A token that ends no line is added to the line. *)
LEMMA ReadOther ==
    ASSUME NEW S, NEW read \in Seq(S), NEW t \in S, t # "lf"
    PROVE  /\ OpenLine(Append(read, t)) = Append(OpenLine(read), t)
           /\ Ended(Append(read, t)) = Ended(read)
           /\ OpenGroup(Append(read, t)) = OpenGroup(read)
           /\ Complete(Append(read, t)) = Complete(read)
<1> DEFINE lines == Split(read, "lf")
           more == Split(Append(read, t), "lf")
<1>1. lines \in Seq(Seq(S)) /\ lines # <<>>
  BY SplitParts
<1>2. more = Append(Front(lines), Append(Last(lines), t))
  BY SplitAppend
<1>3. /\ Ended(read) = [i \in 1 .. Len(lines) - 1 |-> StripCr(lines[i])] /\ OpenLine(read) = Last(lines)
      /\ Ended(Append(read, t)) = [i \in 1 .. Len(more) - 1 |-> StripCr(more[i])]
      /\ OpenLine(Append(read, t)) = Last(more)
  BY DEF Ended, OpenLine
<1> HIDE DEF lines, more
<1>4. /\ Front(lines) \in Seq(Seq(S)) /\ Last(lines) \in Seq(S) /\ Len(Front(lines)) = Len(lines) - 1
      /\ \A i \in 1 .. Len(lines) - 1 : Front(lines)[i] = lines[i]
  BY <1>1, FrontAndLast
<1>5. Append(Last(lines), t) \in Seq(S)
  BY <1>4
<1>6. Last(more) = Append(Last(lines), t)
  BY <1>2, <1>4, <1>5, FrontLast
<1>7. Len(more) - 1 = Len(lines) - 1 /\ \A i \in 1 .. Len(lines) - 1 : more[i] = lines[i]
  <2>1. /\ Len(more) = Len(Front(lines)) + 1
        /\ \A i \in 1 .. Len(Front(lines)) : more[i] = Front(lines)[i]
    BY <1>2, <1>4, <1>5, AppendProperties
  <2>2. Len(lines) \in Nat
    BY <1>1
  <2>3. QED
    BY <1>4, <2>1, <2>2
<1>8. Ended(Append(read, t)) = Ended(read)
  BY <1>3, <1>7
<1>9. QED
  BY <1>3, <1>6, <1>8 DEF OpenGroup, Complete

(* A line feed ends the line, and a blank line the group. *)
LEMMA ReadLf ==
    ASSUME NEW S, NEW read \in Seq(S), "lf" \in S
    PROVE  LET next == Append(read, "lf")
               line == StripCr(OpenLine(read))
           IN /\ OpenLine(next) = <<>>
              /\ line = <<>> =>
                    /\ OpenGroup(next) = <<>>
                    /\ Complete(next) = Complete(read) \o ParseEventData(Data(OpenGroup(read)))
              /\ line # <<>> =>
                    /\ OpenGroup(next) = Append(OpenGroup(read), line)
                    /\ Complete(next) = Complete(read)
<1> DEFINE next == Append(read, "lf")
           line == StripCr(OpenLine(read))
           lines == Split(read, "lf")
           more == Split(next, "lf")
<1>1. lines \in Seq(Seq(S)) /\ lines # <<>>
  BY SplitParts
<1>2. more = Append(lines, <<>>)
  BY SplitAppend
<1>3. BodyLines(read) = Append(Ended(read), line) /\ OpenLine(read) \in Seq(S)
  BY EndedLines
<1>4. line \in Seq(S)
  BY <1>3, StripCrLine
<1>5. <<>> \in Seq(S)
  OBVIOUS
<1>6. OpenLine(next) = <<>>
  <2>1. OpenLine(next) = Last(more)
    BY DEF OpenLine
  <2> HIDE DEF lines, more
  <2>2. QED
    BY <1>1, <1>2, <1>5, <2>1, FrontLast
<1>7. Ended(next) = Append(Ended(read), line)
  <2>1. Ended(next) = [i \in 1 .. Len(more) - 1 |-> StripCr(more[i])]
    BY DEF Ended
  <2>2. BodyLines(read) = [i \in DOMAIN lines |-> StripCr(lines[i])]
    BY DEF BodyLines
  <2> HIDE DEF lines, more
  <2>3. /\ Len(more) = Len(lines) + 1 /\ Len(lines) \in Nat /\ DOMAIN lines = 1 .. Len(lines)
        /\ \A i \in 1 .. Len(lines) : more[i] = lines[i]
    BY <1>1, <1>2, <1>5, AppendProperties, LenProperties
  <2>4. Ended(next) = [i \in 1 .. Len(lines) |-> StripCr(lines[i])]
    BY <2>1, <2>3
  <2>5. QED
    BY <1>3, <2>2, <2>3, <2>4
<1> HIDE DEF next, line, lines, more
<1> DEFINE groups == Split(Ended(read), <<>>)
<1>8. groups \in Seq(Seq(Seq(S))) /\ groups # <<>> /\ Ended(read) \in Seq(Seq(S)) /\ OpenGroup(read) \in Seq(Seq(S))
  BY EndedLines, ZenonT(60)
<1>9. Split(Ended(next), <<>>) = IF line = <<>> THEN Append(groups, <<>>)
                                 ELSE Append(Front(groups), Append(Last(groups), line))
  <2>1. Split(Append(Ended(read), line), <<>>) =
          IF line = <<>> THEN Append(groups, <<>>) ELSE Append(Front(groups), Append(Last(groups), line))
    <3>1. \A T, s, x : s \in Seq(T) /\ x \in T =>
              Split(Append(s, x), <<>>) =
                IF x = <<>> THEN Append(Split(s, <<>>), <<>>)
                ELSE Append(Front(Split(s, <<>>)), Append(Last(Split(s, <<>>)), x))
      BY SplitAppend
    <3>2. Ended(read) \in Seq(Seq(S)) /\ line \in Seq(S)
      BY <1>4, <1>8
    <3> HIDE DEF line
    <3>3. QED
      BY <3>1, <3>2
  <2>2. QED
    BY <1>7, <2>1
<1>10. /\ OpenGroup(read) = Last(groups) /\ Complete(read) = EventsOf(Front(groups))
       /\ OpenGroup(next) = Last(Split(Ended(next), <<>>)) /\ Complete(next) = EventsOf(Front(Split(Ended(next), <<>>)))
  BY DEF OpenGroup, Complete
<1> HIDE DEF groups
<1>11. Front(groups) \in Seq(Seq(Seq(S))) /\ Last(groups) \in Seq(Seq(S)) /\ groups = Append(Front(groups), Last(groups))
  BY <1>8, FrontAndLast
<1>12. CASE line = <<>>
  <2>1. <<>> \in Seq(Seq(S))
    OBVIOUS
  <2>2. OpenGroup(next) = <<>> /\ Complete(next) = EventsOf(groups)
    <3>1. Last(Append(groups, <<>>)) = <<>> /\ Front(Append(groups, <<>>)) = groups
      BY <1>8, <2>1, FrontLast, ZenonT(60)
    <3>2. QED
      BY <1>9, <1>10, <1>12, <3>1
  <2>3. EventsOf(groups) = EventsOf(Front(groups)) \o ParseEventData(Data(Last(groups)))
    BY <1>11, EventsOfAppend
  <2>4. QED
    BY <1>6, <1>10, <1>12, <2>2, <2>3 DEF next, line
<1>13. CASE line # <<>>
  <2>1. Append(Last(groups), line) \in Seq(Seq(S))
    BY <1>4, <1>11, AppendProperties
  <2>2. OpenGroup(next) = Append(Last(groups), line) /\ Complete(next) = EventsOf(Front(groups))
    <3> DEFINE last == Append(Last(groups), line)
    <3>1. last \in Seq(Seq(S))
      BY <2>1
    <3> HIDE DEF last
    <3>2. Last(Append(Front(groups), last)) = last /\ Front(Append(Front(groups), last)) = Front(groups)
      BY <1>11, <3>1, FrontLast
    <3>3. Split(Ended(next), <<>>) = Append(Front(groups), last)
      BY <1>9, <1>13 DEF last
    <3>4. QED
      BY <1>10, <3>2, <3>3 DEF last
  <2>3. QED
    BY <1>6, <1>10, <1>13, <2>2 DEF next, line
<1>14. QED
  BY <1>12, <1>13

(* Concatenation of events. *)
LEMMA Associative ==
    ASSUME NEW a \in Seq(SoundEvent), NEW b \in Seq(SoundEvent), NEW c \in Seq(SoundEvent)
    PROVE  (a \o b) \o c = a \o (b \o c)
<1> DEFINE l == (a \o b) \o c
           r == a \o (b \o c)
<1>1. PICK na \in Nat, nb \in Nat, nc \in Nat : na = Len(a) /\ nb = Len(b) /\ nc = Len(c)
  OBVIOUS
<1>2. l \in Seq(SoundEvent) /\ r \in Seq(SoundEvent) /\ Len(l) = (na + nb) + nc /\ Len(r) = na + (nb + nc)
  BY <1>1
<1>3. \A i \in 1 .. (na + nb) + nc : l[i] = r[i]
  BY <1>1
<1> HIDE DEF l, r
<1>4. l = r
  BY <1>2, <1>3, SeqEqual
<1>5. QED
  BY <1>4 DEF l, r

(* The events of groups are sound. *)
LEMMA EventsAreSound ==
    ASSUME NEW S, NEW groups \in Seq(S), capability.toolCalls \in BOOLEAN
    PROVE  EventsOf(groups) \in Seq(SoundEvent)
<1>1. PICK n \in Nat : n = Len(groups)
  OBVIOUS
<1>2. PICK said : /\ said[0] = <<>>
                  /\ \A i \in 1 .. n : said[i] = said[i - 1] \o ParseEventData(Data(groups[i]))
                  /\ EventsOf(groups) = said[n]
  BY <1>1, EventsOfSteps
<1> DEFINE G == {i \in 0 .. n : said[i] \in Seq(SoundEvent)}
<1>3. 0 \in G
  <2>1. <<>> \in Seq(SoundEvent)
    OBVIOUS
  <2>2. said[0] \in Seq(SoundEvent)
    BY <1>2, <2>1, Zenon
  <2>3. QED
    BY <2>2
<1>4. ASSUME NEW i \in 1 .. n, i - 1 \in G PROVE i \in G
  <2>1. ParseEventData(Data(groups[i])) \in Seq(SoundEvent)
    BY ParsedIsSound
  <2>2. said[i - 1] \in Seq(SoundEvent)
    BY <1>4
  <2>3. said[i] \in Seq(SoundEvent)
    BY <1>2, <2>1, <2>2, ConcatProperties
  <2>4. QED
    BY <2>3
<1>5. \A i \in 0 .. n : i \in G
  <2> HIDE DEF G
  <2>1. QED
    BY <1>3, <1>4, UpTo, Zenon
<1>6. QED
  BY <1>2, <1>5

(* So are those of the groups that have ended. *)
LEMMA CompleteIsSound ==
    ASSUME NEW S, NEW read \in Seq(S), capability.toolCalls \in BOOLEAN
    PROVE  Complete(read) \in Seq(SoundEvent)
<1>1. Split(Ended(read), <<>>) \in Seq(Seq(Seq(S))) /\ Split(Ended(read), <<>>) # <<>>
  BY EndedLines
<1>2. Front(Split(Ended(read), <<>>)) \in Seq(Seq(Seq(S)))
  BY <1>1, FrontAndLast
<1>3. QED
  BY <1>2, EventsAreSound DEF Complete

(* What a body says besides what is complete is what the group says that has not ended. *)
FinalGroup(read) ==
    IF StripCr(OpenLine(read)) = <<>> THEN OpenGroup(read) ELSE Append(OpenGroup(read), StripCr(OpenLine(read)))

(* With it the body has said everything. *)
LEMMA SaidInTheEnd ==
    ASSUME NEW S, NEW read \in Seq(S), capability.toolCalls \in BOOLEAN
    PROVE  BodyEvents(read) = Complete(read) \o ParseEventData(Data(FinalGroup(read)))
<1> DEFINE line == StripCr(OpenLine(read))
           groups == Split(Ended(read), <<>>)
<1>1. /\ groups \in Seq(Seq(Seq(S))) /\ groups # <<>> /\ Ended(read) \in Seq(Seq(S)) /\ OpenLine(read) \in Seq(S)
      /\ BodyLines(read) = Append(Ended(read), line)
  BY EndedLines
<1>2. line \in Seq(S)
  BY <1>1, StripCrLine
<1>3. OpenGroup(read) = Last(groups) /\ Complete(read) = EventsOf(Front(groups))
      /\ FinalGroup(read) = IF line = <<>> THEN OpenGroup(read) ELSE Append(OpenGroup(read), line)
  BY DEF OpenGroup, Complete, FinalGroup
<1>4. BodyEvents(read) = EventsOf(Split(Append(Ended(read), line), <<>>))
  BY <1>1 DEF BodyEvents
<1> HIDE DEF line
<1>5. Split(Append(Ended(read), line), <<>>) =
         IF line = <<>> THEN Append(groups, <<>>) ELSE Append(Front(groups), Append(Last(groups), line))
  BY <1>1, <1>2, SplitAppend
<1> HIDE DEF groups
<1>6. Front(groups) \in Seq(Seq(Seq(S))) /\ Last(groups) \in Seq(Seq(S)) /\ groups = Append(Front(groups), Last(groups))
  BY <1>1, FrontAndLast
<1>7. CASE line = <<>>
  <2>1. <<>> \in Seq(Seq(S))
    OBVIOUS
  <2>2. EventsOf(Append(groups, <<>>)) = EventsOf(groups) \o ParseEventData(Data(<<>>))
    BY <1>1, <2>1, EventsOfAppend
  <2>3. EventsOf(groups) = EventsOf(Front(groups)) \o ParseEventData(Data(Last(groups)))
    BY <1>6, EventsOfAppend
  <2>4. EventsOf(groups) \in Seq(SoundEvent)
    BY <1>1, EventsAreSound
  <2>5. EventsOf(groups) \o <<>> = EventsOf(groups)
    BY <2>4, ConcatEmptySeq
  <2>6. QED
    BY <1>3, <1>4, <1>5, <1>7, <2>2, <2>3, <2>5, NothingRead
<1>8. CASE line # <<>>
  <2>1. Append(Last(groups), line) \in Seq(Seq(S))
    BY <1>2, <1>6, AppendProperties
  <2>2. EventsOf(Append(Front(groups), Append(Last(groups), line))) =
           EventsOf(Front(groups)) \o ParseEventData(Data(Append(Last(groups), line)))
    BY <1>6, <2>1, EventsOfAppend
  <2>3. QED
    BY <1>3, <1>4, <1>5, <1>8, <2>2
<1>9. QED
  BY <1>7, <1>8

(* What is complete stays: a body says it first, however it goes on. *)
LEMMA CompleteStays ==
    ASSUME NEW body \in Seq(Tokens), NEW k \in 0 .. Len(body), capability.toolCalls \in BOOLEAN
    PROVE  \E rest \in Seq(SoundEvent) : BodyEvents(body) = Complete(SubSeq(body, 1, k)) \o rest
<1> DEFINE C(i) == Complete(SubSeq(body, 1, i))
           Stays(i) == \E rest \in Seq(SoundEvent) : BodyEvents(body) = C(i) \o rest
           n == Len(body)
           G == {j \in 0 .. n : Stays(n - j)}
<1>1. n \in Nat
  OBVIOUS
<1>2. \A i \in 0 .. n : SubSeq(body, 1, i) \in Seq(Tokens) /\ C(i) \in Seq(SoundEvent)
  <2> TAKE i \in 0 .. n
  <2>1. SubSeq(body, 1, i) \in Seq(Tokens)
    OBVIOUS
  <2>2. QED
    BY <2>1, CompleteIsSound
<1>3. Stays(n)
  <2>1. SubSeq(body, 1, n) = body
    BY SubSeqFull
  <2>2. BodyEvents(body) = C(n) \o ParseEventData(Data(FinalGroup(body)))
    BY <2>1, SaidInTheEnd
  <2>3. ParseEventData(Data(FinalGroup(body))) \in Seq(SoundEvent)
    BY ParsedIsSound
  <2> HIDE DEF n, C
  <2>4. QED
    BY <2>2, <2>3
<1>4. ASSUME NEW i \in 1 .. n, Stays(i) PROVE Stays(i - 1)
  <2> DEFINE read == SubSeq(body, 1, i - 1)
  <2>1. read \in Seq(Tokens) /\ body[i] \in Tokens /\ SubSeq(body, 1, i) = Append(read, body[i])
    <3>1. i - 1 \in 0 .. n /\ i \in 1 .. Len(body) /\ 1 \in 1 .. Len(body) /\ i \in 1 .. Len(body)
      BY <1>1
    <3>2. SubSeq(body, 1, i) = SubSeq(body, 1, i - 1) \o <<body[i]>>
      BY <3>1, SubSeqRecursiveSecond
    <3>3. read \in Seq(Tokens) /\ body[i] \in Tokens
      BY <1>2, <3>1, ElementOfSeq
    <3>4. QED
      BY <3>2, <3>3, AppendIsConcat
  <2>2. \E more \in Seq(SoundEvent) : C(i) = C(i - 1) \o more
    <3>1. C(i) = Complete(Append(read, body[i])) /\ C(i - 1) = Complete(read)
      BY <2>1
    <3>2. C(i - 1) \in Seq(SoundEvent)
      BY <1>1, <1>2
    <3> HIDE DEF read, C
    <3>3. CASE C(i) = C(i - 1)
      <4>1. C(i) = C(i - 1) \o <<>> /\ <<>> \in Seq(SoundEvent)
        BY <3>2, <3>3, ConcatEmptySeq
      <4>2. QED
        BY <4>1
    <3>4. CASE C(i) = C(i - 1) \o ParseEventData(Data(OpenGroup(read)))
      <4>1. ParseEventData(Data(OpenGroup(read))) \in Seq(SoundEvent)
        BY ParsedIsSound
      <4>2. QED
        BY <3>4, <4>1
    <3>5. QED
      <4>1. CASE body[i] = "lf"
        <5>1. "lf" \in Tokens
          BY <2>1, <4>1
        <5>2. \/ Complete(Append(read, "lf")) = Complete(read)
              \/ Complete(Append(read, "lf")) = Complete(read) \o ParseEventData(Data(OpenGroup(read)))
          BY <2>1, <5>1, ReadLf
        <5>3. QED
          BY <3>1, <3>3, <3>4, <4>1, <5>2
      <4>2. CASE body[i] # "lf"
        <5>1. Complete(Append(read, body[i])) = Complete(read)
          BY <2>1, <4>2, ReadOther
        <5>2. QED
          BY <3>1, <3>3, <5>1
      <4>3. QED
        BY <4>1, <4>2
  <2>3. PICK more \in Seq(SoundEvent) : C(i) = C(i - 1) \o more
    BY <2>2
  <2>4. PICK rest \in Seq(SoundEvent) : BodyEvents(body) = C(i) \o rest
    BY <1>4
  <2>5. C(i - 1) \in Seq(SoundEvent)
    BY <1>1, <1>2
  <2> HIDE DEF C
  <2>6. BodyEvents(body) = C(i - 1) \o (more \o rest) /\ more \o rest \in Seq(SoundEvent)
    <3>1. PICK before : before = C(i - 1) /\ before \in Seq(SoundEvent)
      BY <2>5
    <3>2. (before \o more) \o rest = before \o (more \o rest)
      BY <2>3, <2>4, <3>1, Associative
    <3>3. more \o rest \in Seq(SoundEvent)
      OBVIOUS
    <3>4. QED
      BY <2>3, <2>4, <3>1, <3>2, <3>3
  <2>7. QED
    BY <2>6
<1> HIDE DEF Stays, n
<1>5. 0 \in G
  BY <1>1, <1>3
<1>6. ASSUME NEW j \in 1 .. n, j - 1 \in G PROVE j \in G
  <2>1. n - (j - 1) \in 1 .. n /\ (n - (j - 1)) - 1 = n - j /\ Stays(n - (j - 1))
    BY <1>1, <1>6
  <2>2. Stays(n - j)
    BY <1>4, <2>1
  <2>3. QED
    BY <1>1, <2>2
<1>7. \A j \in 0 .. n : j \in G
  <2> HIDE DEF G
  <2>1. QED
    BY <1>1, <1>5, <1>6, UpTo, Zenon
<1>8. n - k \in 0 .. n /\ n - (n - k) = k
  BY <1>1 DEF n
<1>9. Stays(k)
  BY <1>7, <1>8
<1>10. QED
  BY <1>9 DEF Stays

(* What is heard of an event: nothing, where it is no chunk or comes after a failing one. *)
Faulty(e) == e.type = "error" \/ (e.type = "chunk" /\ ~e.named)
Mute(events, i) == events[i].type # "chunk" \/ \E j \in Failing(events) : j <= i
Hear(events, i, heard, e) == IF Mute(events, i) THEN heard ELSE Append(heard, e.choices)

(* An event fails by itself, wherever it stands. *)
LEMMA FailingByElement ==
    ASSUME NEW events
    PROVE  Failing(events) = {i \in DOMAIN events : Faulty(events[i])}
BY DEF Failing, StreamErrors, Faulty

(* The elements of two lists of events, one after the other. *)
LEMMA Joined ==
    ASSUME NEW A \in Seq(SoundEvent), NEW B \in Seq(SoundEvent), NEW a \in Nat, NEW b \in Nat,
           a = Len(A), b = Len(B)
    PROVE  /\ A \o B \in Seq(SoundEvent) /\ Len(A \o B) = a + b /\ DOMAIN (A \o B) = 1 .. a + b
           /\ DOMAIN A = 1 .. a /\ DOMAIN B = 1 .. b
           /\ \A i \in 1 .. a : (A \o B)[i] = A[i]
           /\ \A i \in 1 .. b : (A \o B)[a + i] = B[i]
<1>1. A \o B \in Seq(SoundEvent) /\ Len(A \o B) = a + b
  OBVIOUS
<1>2. (\A i \in 1 .. a : (A \o B)[i] = A[i]) /\ \A i \in 1 .. b : (A \o B)[a + i] = B[i]
  OBVIOUS
<1>3. DOMAIN A = 1 .. a /\ DOMAIN B = 1 .. b
  OBVIOUS
<1> DEFINE C == A \o B
<1>4. DOMAIN C = 1 .. a + b
  <2>1. C \in Seq(SoundEvent) /\ Len(C) = a + b
    BY <1>1
  <2> HIDE DEF C
  <2>2. QED
    BY <2>1
<1>5. QED
  BY <1>1, <1>2, <1>3, <1>4

(* The failing events of two lists, one after the other. *)
LEMMA FailingJoined ==
    ASSUME NEW A \in Seq(SoundEvent), NEW B \in Seq(SoundEvent), NEW a \in Nat, NEW b \in Nat,
           a = Len(A), b = Len(B)
    PROVE  /\ \A i \in 1 .. a : i \in Failing(A \o B) <=> i \in Failing(A)
           /\ \A i \in 1 .. b : a + i \in Failing(A \o B) <=> i \in Failing(B)
           /\ Failing(A) \subseteq 1 .. a /\ Failing(B) \subseteq 1 .. b
           /\ Failing(A \o B) \subseteq 1 .. a + b
<1> DEFINE C == A \o B
<1>1. /\ C \in Seq(SoundEvent) /\ DOMAIN C = 1 .. a + b /\ DOMAIN A = 1 .. a /\ DOMAIN B = 1 .. b
      /\ \A i \in 1 .. a : C[i] = A[i]
      /\ \A i \in 1 .. b : C[a + i] = B[i]
  BY Joined
<1> HIDE DEF C
<1>2. /\ Failing(A) = {i \in 1 .. a : Faulty(A[i])} /\ Failing(B) = {i \in 1 .. b : Faulty(B[i])}
      /\ Failing(C) = {i \in 1 .. a + b : Faulty(C[i])}
  BY <1>1, FailingByElement
<1>3. \A i \in 1 .. a : i \in Failing(C) <=> i \in Failing(A)
  BY <1>1, <1>2
<1>4. \A i \in 1 .. b : a + i \in Failing(C) <=> i \in Failing(B)
  <2> TAKE i \in 1 .. b
  <2>1. a + i \in 1 .. a + b
    OBVIOUS
  <2>2. QED
    BY <1>1, <1>2, <2>1
<1>5. QED
  BY <1>2, <1>3, <1>4 DEF C

(* HandedOn hears the events one by one. *)
LEMMA HearSteps ==
    ASSUME NEW events, NEW n \in Nat, n = Len(events)
    PROVE  \E heard : /\ heard[0] = <<>>
                      /\ \A i \in 1 .. n : heard[i] = Hear(events, i, heard[i - 1], events[i])
                      /\ HandedOn(events) = heard[n]
BY HandedOnSteps DEF Hear, Mute

(* How two lists are heard, one after the other. *)
IsHearing(A, B, a, b, heard) ==
    /\ heard[a] = HandedOn(A)
    /\ heard[a + b] = HandedOn(A \o B)
    /\ \A i \in 1 .. b : heard[a + i] = Hear(A \o B, a + i, heard[a + (i - 1)], B[i])

(* What stands before a failing event is heard as if it stood alone; *)
LEMMA HeardFirst ==
    ASSUME NEW A \in Seq(SoundEvent), NEW B \in Seq(SoundEvent), NEW a \in Nat, NEW b \in Nat,
           a = Len(A), b = Len(B)
    PROVE  \E heard : IsHearing(A, B, a, b, heard)
<1> DEFINE C == A \o B
<1>1. /\ C \in Seq(SoundEvent) /\ Len(C) = a + b
      /\ \A i \in 1 .. a : C[i] = A[i]
      /\ \A i \in 1 .. b : C[a + i] = B[i]
  BY Joined
<1>2. /\ \A i \in 1 .. a : i \in Failing(C) <=> i \in Failing(A)
      /\ Failing(A) \subseteq 1 .. a /\ Failing(C) \subseteq 1 .. a + b
  BY FailingJoined
<1> HIDE DEF C
<1>3. PICK f : /\ f[0] = <<>>
               /\ \A i \in 1 .. a + b : f[i] = Hear(C, i, f[i - 1], C[i])
               /\ HandedOn(C) = f[a + b]
  <2>1. PICK n \in Nat : n = a + b
    OBVIOUS
  <2>2. \E f : /\ f[0] = <<>>
               /\ \A i \in 1 .. n : f[i] = Hear(C, i, f[i - 1], C[i])
               /\ HandedOn(C) = f[n]
    <3>1. n \in Nat /\ n = Len(C)
      BY <1>1, <2>1
    <3>2. QED
      BY <3>1, HearSteps, Zenon
  <2>3. QED
    BY <2>1, <2>2
<1>4. PICK g : /\ g[0] = <<>>
               /\ \A i \in 1 .. a : g[i] = Hear(A, i, g[i - 1], A[i])
               /\ HandedOn(A) = g[a]
  BY HearSteps
<1>5. \A i \in 1 .. a : Mute(A, i) <=> Mute(C, i)
  <2> TAKE i \in 1 .. a
  <2>1. (\E j \in Failing(A) : j <= i) <=> \E j \in Failing(C) : j <= i
    <3>1. \A j \in Failing(C) : j <= i => j \in 1 .. a
      BY <1>2
    <3>2. QED
      BY <1>2, <3>1
  <2>2. QED
    BY <1>1, <2>1 DEF Mute
<1> DEFINE G == {i \in 0 .. a : f[i] = g[i]}
<1>6. 0 \in G
  BY <1>3, <1>4
<1>7. ASSUME NEW i \in 1 .. a, i - 1 \in G PROVE i \in G
  <2>1. f[i] = Hear(C, i, f[i - 1], C[i])
    <3>1. i \in 1 .. a + b
      OBVIOUS
    <3>2. QED
      BY <1>3, <3>1, Zenon
  <2>2. g[i] = Hear(A, i, g[i - 1], A[i]) /\ f[i - 1] = g[i - 1] /\ C[i] = A[i] /\ (Mute(A, i) <=> Mute(C, i))
    BY <1>1, <1>4, <1>5, <1>7
  <2>3. f[i] = g[i]
    BY <2>1, <2>2 DEF Hear
  <2>4. QED
    BY <2>3
<1>8. f[a] = g[a]
  <2>1. \A i \in 0 .. a : i \in G
    <3> HIDE DEF G
    <3>1. QED
      BY <1>6, <1>7, UpTo, Zenon
  <2>2. QED
    BY <2>1
<1>9. \A i \in 1 .. b : f[a + i] = Hear(C, a + i, f[a + (i - 1)], B[i])
  <2> TAKE i \in 1 .. b
  <2>1. a + i \in 1 .. a + b /\ (a + i) - 1 = a + (i - 1)
    OBVIOUS
  <2>2. f[a + i] = Hear(C, a + i, f[(a + i) - 1], C[a + i])
    BY <1>3, <2>1, Zenon
  <2>3. C[a + i] = B[i]
    BY <1>1
  <2>4. QED
    BY <2>1, <2>2, <2>3
<1>10. QED
  <2>1. f[a] = HandedOn(A) /\ f[a + b] = HandedOn(A \o B)
    BY <1>3, <1>4, <1>8 DEF C
  <2>2. \A i \in 1 .. b : f[a + i] = Hear(A \o B, a + i, f[a + (i - 1)], B[i])
    BY <1>9 DEF C
  <2>3. IsHearing(A, B, a, b, f)
    BY <2>1, <2>2 DEF IsHearing
  <2>4. QED
    BY <2>3, Zenon

(* what follows it is not heard, and what is no chunk is not heard at all; *)
LEMMA HeardNoMore ==
    ASSUME NEW A \in Seq(SoundEvent), NEW B \in Seq(SoundEvent),
           Failing(A) # {} \/ \A i \in DOMAIN B : B[i].type # "chunk"
    PROVE  HandedOn(A \o B) = HandedOn(A)
<1> DEFINE C == A \o B
<1>1. PICK a \in Nat, b \in Nat : a = Len(A) /\ b = Len(B)
  OBVIOUS
<1>0. PICK heard : IsHearing(A, B, a, b, heard)
  BY <1>1, HeardFirst
<1>2. /\ heard[a] = HandedOn(A)
      /\ heard[a + b] = HandedOn(C)
      /\ \A i \in 1 .. b : heard[a + i] = Hear(C, a + i, heard[a + (i - 1)], B[i])
  BY <1>0 DEF IsHearing
<1>3. /\ \A i \in 1 .. b : C[a + i] = B[i]
      /\ DOMAIN B = 1 .. b
  BY <1>1, Joined
<1>4. /\ \A i \in 1 .. a : i \in Failing(C) <=> i \in Failing(A)
      /\ Failing(A) \subseteq 1 .. a
  BY <1>1, FailingJoined
<1> HIDE DEF C
<1>5. \A i \in 1 .. b : Mute(C, a + i)
  <2> TAKE i \in 1 .. b
  <2>1. CASE Failing(A) # {}
    <3>1. PICK j \in Failing(A) : TRUE
      BY <2>1
    <3>2. j \in 1 .. a /\ j \in Failing(C)
      BY <1>4, <3>1
    <3>3. j <= a + i
      BY <1>1, <3>2
    <3>4. QED
      BY <3>2, <3>3 DEF Mute
  <2>2. CASE \A k \in DOMAIN B : B[k].type # "chunk"
    BY <1>3, <2>2 DEF Mute
  <2>3. QED
    BY <2>1, <2>2
<1> DEFINE G == {i \in 0 .. b : heard[a + i] = heard[a]}
<1>6. 0 \in G
  BY <1>1
<1>7. ASSUME NEW i \in 1 .. b, i - 1 \in G PROVE i \in G
  <2>1. heard[a + i] = Hear(C, a + i, heard[a + (i - 1)], B[i]) /\ Mute(C, a + i)
    BY <1>2, <1>5 DEF C
  <2>2. heard[a + i] = heard[a + (i - 1)]
    BY <2>1 DEF Hear
  <2>3. heard[a + (i - 1)] = heard[a]
    BY <1>7
  <2>4. QED
    BY <2>2, <2>3
<1>8. heard[a + b] = heard[a]
  <2>1. \A i \in 0 .. b : i \in G
    <3> HIDE DEF G
    <3>1. QED
      BY <1>1, <1>6, <1>7, UpTo, Zenon
  <2>2. QED
    BY <1>1, <2>1
<1>9. QED
  BY <1>2, <1>8 DEF C

(* A chunk more is a chunk more of the second list. *)
LEMMA AppendJoined ==
    ASSUME NEW first \in Seq(HarmlessChoices), NEW before \in Seq(HarmlessChoices), NEW c \in HarmlessChoices
    PROVE  /\ Append(first \o before, c) = first \o Append(before, c)
           /\ Append(before, c) \in Seq(HarmlessChoices)
<1> DEFINE l == Append(first \o before, c)
           r == first \o Append(before, c)
<1>1. PICK n \in Nat, m \in Nat : n = Len(first) /\ m = Len(before)
  OBVIOUS
<1> DEFINE whole == first \o before
           more == Append(before, c)
<1>2. /\ whole \in Seq(HarmlessChoices) /\ Len(whole) = n + m
      /\ (\A i \in 1 .. n : whole[i] = first[i]) /\ \A i \in n + 1 .. n + m : whole[i] = before[i - n]
  BY <1>1
<1>3. /\ more \in Seq(HarmlessChoices) /\ Len(more) = m + 1 /\ more[m + 1] = c
      /\ \A i \in 1 .. m : more[i] = before[i]
  BY <1>1
<1> HIDE DEF whole, more
<1>4. /\ l \in Seq(HarmlessChoices) /\ Len(l) = n + (m + 1) /\ l[n + (m + 1)] = c
      /\ \A i \in 1 .. n + m : l[i] = whole[i]
  <2>1. l = Append(whole, c)
    BY DEF whole
  <2> HIDE DEF l
  <2>2. QED
    BY <1>2, <2>1
<1>5. /\ r \in Seq(HarmlessChoices) /\ Len(r) = n + (m + 1)
      /\ (\A i \in 1 .. n : r[i] = first[i]) /\ \A i \in n + 1 .. n + (m + 1) : r[i] = more[i - n]
  BY <1>1, <1>3, SMTT(60)
<1> HIDE DEF l, r
<1>6. \A i \in 1 .. n + (m + 1) : l[i] = r[i]
  <2> TAKE i \in 1 .. n + (m + 1)
  <2>1. CASE i \in 1 .. n
    BY <1>2, <1>4, <1>5, <2>1
  <2>2. CASE i \in n + 1 .. n + m
    <3>1. l[i] = before[i - n]
      BY <1>2, <1>4, <2>2
    <3>2. r[i] = more[i - n] /\ i - n \in 1 .. m
      BY <1>5, <2>2
    <3>3. QED
      BY <1>3, <3>1, <3>2
  <2>3. CASE i = n + (m + 1)
    BY <1>3, <1>4, <1>5, <2>3
  <2>4. QED
    BY <2>1, <2>2, <2>3
<1>7. l = r
  BY <1>4, <1>5, <1>6, SeqEqual
<1>8. QED
  BY <1>3, <1>7 DEF l, r, whole, more

(* and where nothing fails, what follows is heard as if it stood alone. *)
LEMMA HeardOn ==
    ASSUME NEW A \in Seq(SoundEvent), NEW B \in Seq(SoundEvent), Failing(A) = {}
    PROVE  HandedOn(A \o B) = HandedOn(A) \o HandedOn(B)
<1> DEFINE C == A \o B
<1>1. PICK a \in Nat, b \in Nat : a = Len(A) /\ b = Len(B)
  OBVIOUS
<1>0. PICK heard : IsHearing(A, B, a, b, heard)
  BY <1>1, HeardFirst
<1>2. /\ heard[a] = HandedOn(A)
      /\ heard[a + b] = HandedOn(C)
      /\ \A i \in 1 .. b : heard[a + i] = Hear(C, a + i, heard[a + (i - 1)], B[i])
  BY <1>0 DEF IsHearing
<1>3. /\ \A i \in 1 .. b : C[a + i] = B[i]
      /\ DOMAIN B = 1 .. b
  BY <1>1, Joined
<1>4. /\ \A i \in 1 .. a : i \in Failing(C) <=> i \in Failing(A)
      /\ \A i \in 1 .. b : a + i \in Failing(C) <=> i \in Failing(B)
      /\ Failing(B) \subseteq 1 .. b /\ Failing(C) \subseteq 1 .. a + b
  BY <1>1, FailingJoined
<1> HIDE DEF C
<1>5. PICK g : /\ g[0] = <<>>
               /\ \A i \in 1 .. b : g[i] = Hear(B, i, g[i - 1], B[i])
               /\ HandedOn(B) = g[b]
  BY <1>1, HearSteps
<1>6. \A i \in 1 .. b : Mute(C, a + i) <=> Mute(B, i)
  <2> TAKE i \in 1 .. b
  <2>1. (\E j \in Failing(C) : j <= a + i) => \E j \in Failing(B) : j <= i
    <3> SUFFICES ASSUME NEW j \in Failing(C), j <= a + i PROVE \E k \in Failing(B) : k <= i
      OBVIOUS
    <3>1. j \in 1 .. a + b /\ j \notin 1 .. a
      BY <1>4
    <3>2. j - a \in 1 .. b /\ a + (j - a) = j /\ j - a <= i
      BY <1>1, <3>1
    <3>3. j - a \in Failing(B)
      BY <1>4, <3>2
    <3>4. QED
      BY <3>2, <3>3
  <2>2. (\E j \in Failing(B) : j <= i) => \E j \in Failing(C) : j <= a + i
    <3> SUFFICES ASSUME NEW j \in Failing(B), j <= i PROVE \E k \in Failing(C) : k <= a + i
      OBVIOUS
    <3>1. j \in 1 .. b /\ a + j \in Failing(C)
      BY <1>4
    <3>2. a + j <= a + i
      BY <1>1, <3>1
    <3>3. QED
      BY <3>1, <3>2
  <2>3. C[a + i] = B[i]
    BY <1>3
  <2>4. QED
    BY <2>1, <2>2, <2>3 DEF Mute
<1>7. HandedOn(A) \in Seq(HarmlessChoices)
  BY HandedOnIsHarmless
<1> DEFINE first == HandedOn(A)
           G == {i \in 0 .. b : g[i] \in Seq(HarmlessChoices) /\ heard[a + i] = first \o g[i]}
<1>8. first \in Seq(HarmlessChoices)
  BY <1>7
<1> HIDE DEF first
<1>9. 0 \in G
  <2>1. g[0] = <<>> /\ heard[a + 0] = first
    BY <1>1, <1>2, <1>5 DEF first
  <2>2. first \o <<>> = first
    BY <1>8, ConcatEmptySeq
  <2>3. <<>> \in Seq(HarmlessChoices)
    OBVIOUS
  <2>4. g[0] \in Seq(HarmlessChoices) /\ heard[a + 0] = first \o g[0] /\ 0 \in 0 .. b
    <3>0. 0 \in 0 .. b
      BY <1>1
    <3>1. heard[a + 0] = first \o g[0]
      BY <2>1, <2>2, Zenon
    <3>2. g[0] \in Seq(HarmlessChoices)
      BY <2>1, <2>3, Zenon
    <3>3. QED
      BY <3>0, <3>1, <3>2
  <2>5. QED
    BY <2>4
<1>10. ASSUME NEW i \in 1 .. b, i - 1 \in G PROVE i \in G
  <2>1. /\ heard[a + i] = Hear(C, a + i, heard[a + (i - 1)], B[i])
        /\ g[i] = Hear(B, i, g[i - 1], B[i])
        /\ Mute(C, a + i) <=> Mute(B, i)
    BY <1>2, <1>5, <1>6 DEF C
  <2>2. PICK before \in Seq(HarmlessChoices) : g[i - 1] = before /\ heard[a + (i - 1)] = first \o before
    BY <1>10
  <2>3. CASE Mute(B, i)
    <3>1. heard[a + i] = first \o before /\ g[i] = before
      BY <2>1, <2>2, <2>3 DEF Hear
    <3>2. heard[a + i] = first \o g[i] /\ g[i] \in Seq(HarmlessChoices)
      BY <3>1, Zenon
    <3>3. QED
      BY <3>2
  <2>4. CASE ~Mute(B, i)
    <3>1. B[i] \in SoundEvent /\ B[i].type = "chunk"
      <4>1. B[i] \in SoundEvent
        BY <1>1
      <4>2. QED
        BY <2>4, <4>1 DEF Mute
    <3>2. B[i].choices \in HarmlessChoices
      BY <3>1 DEF SoundEvent, ErrorEvent, ChunkEvent
    <3>3. PICK c \in HarmlessChoices : c = B[i].choices
      BY <3>2
    <3>4. heard[a + i] = Append(first \o before, c) /\ g[i] = Append(before, c)
      BY <2>1, <2>2, <2>4, <3>3 DEF Hear
    <3>5. Append(first \o before, c) = first \o Append(before, c) /\ Append(before, c) \in Seq(HarmlessChoices)
      BY <1>8, AppendJoined
    <3>6. heard[a + i] = first \o g[i] /\ g[i] \in Seq(HarmlessChoices)
      BY <3>4, <3>5, Zenon
    <3>7. QED
      BY <3>6
  <2>5. QED
    BY <2>3, <2>4
<1>11. heard[a + b] = first \o g[b]
  <2>1. \A i \in 0 .. b : i \in G
    <3> HIDE DEF G
    <3>1. QED
      BY <1>1, <1>9, <1>10, UpTo, Zenon
  <2>2. QED
    BY <1>1, <2>1
<1>12. QED
  BY <1>2, <1>5, <1>11 DEF C, first

(* What is heard of a list is heard first of every longer one. *)
LEMMA HeardIsPrefix ==
    ASSUME NEW A \in Seq(SoundEvent), NEW B \in Seq(SoundEvent)
    PROVE  \E r \in Seq(HarmlessChoices) : HandedOn(A \o B) = HandedOn(A) \o r
<1>1. CASE Failing(A) = {}
  <2>1. HandedOn(A \o B) = HandedOn(A) \o HandedOn(B)
    BY <1>1, HeardOn
  <2>2. HandedOn(B) \in Seq(HarmlessChoices)
    BY HandedOnIsHarmless
  <2>3. QED
    BY <2>1, <2>2
<1>2. CASE Failing(A) # {}
  <2>1. HandedOn(A \o B) = HandedOn(A)
    BY <1>2, HeardNoMore
  <2>2. HandedOn(A) \in Seq(HarmlessChoices) /\ <<>> \in Seq(HarmlessChoices)
    BY HandedOnIsHarmless
  <2>3. HandedOn(A) \o <<>> = HandedOn(A)
    BY <2>2, ConcatEmptySeq
  <2>4. QED
    BY <2>1, <2>2, <2>3
<1>3. QED
  BY <1>1, <1>2

(* A list is a prefix of itself and more. *)
LEMMA PrefixOfJoined ==
    ASSUME NEW s \in Seq(HarmlessChoices), NEW r \in Seq(HarmlessChoices)
    PROVE  IsPrefix(s, s \o r)
<1> DEFINE t == s \o r
<1>1. PICK n \in Nat, m \in Nat : n = Len(s) /\ m = Len(r)
  OBVIOUS
<1>2. t \in Seq(HarmlessChoices) /\ Len(t) = n + m /\ \A i \in 1 .. n : t[i] = s[i]
  BY <1>1
<1> HIDE DEF t
<1>3. SubSeq(s, 1, n) \in Seq(HarmlessChoices) /\ Len(SubSeq(s, 1, n)) = n /\ \A i \in 1 .. n : SubSeq(s, 1, n)[i] = s[i]
  BY <1>1
<1>4. SubSeq(t, 1, n) \in Seq(HarmlessChoices) /\ Len(SubSeq(t, 1, n)) = n /\ \A i \in 1 .. n : SubSeq(t, 1, n)[i] = t[i]
  BY <1>2
<1>5. \A i \in 1 .. n : SubSeq(s, 1, n)[i] = SubSeq(t, 1, n)[i]
  BY <1>2, <1>3, <1>4
<1>6. SubSeq(s, 1, n) = SubSeq(t, 1, n)
  BY <1>3, <1>4, <1>5, SeqEqual
<1>7. n <= n + m
  OBVIOUS
<1>8. IsPrefix(s, t)
  BY <1>1, <1>2, <1>6, <1>7 DEF IsPrefix
<1>9. QED
  BY <1>8 DEF t

(* Faults and [DONE]s of two lists. *)
NoDone(events) == \A i \in DOMAIN events : events[i].type # "done"

(* Two lists have no fault and no [DONE] when neither has. *)
LEMMA NoneOfJoined ==
    ASSUME NEW A \in Seq(SoundEvent), NEW B \in Seq(SoundEvent)
    PROVE  /\ Failing(A \o B) = {} <=> Failing(A) = {} /\ Failing(B) = {}
           /\ NoDone(A \o B) <=> NoDone(A) /\ NoDone(B)
<1> DEFINE C == A \o B
<1>1. PICK a \in Nat, b \in Nat : a = Len(A) /\ b = Len(B)
  OBVIOUS
<1>2. /\ DOMAIN C = 1 .. a + b /\ DOMAIN A = 1 .. a /\ DOMAIN B = 1 .. b
      /\ \A i \in 1 .. a : C[i] = A[i]
      /\ \A i \in 1 .. b : C[a + i] = B[i]
  BY <1>1, Joined
<1>3. /\ \A i \in 1 .. a : i \in Failing(C) <=> i \in Failing(A)
      /\ \A i \in 1 .. b : a + i \in Failing(C) <=> i \in Failing(B)
      /\ Failing(A) \subseteq 1 .. a /\ Failing(B) \subseteq 1 .. b
      /\ Failing(C) \subseteq 1 .. a + b
  BY <1>1, FailingJoined
<1> HIDE DEF C
<1>4. \A i \in 1 .. a + b : i \in 1 .. a \/ (i - a \in 1 .. b /\ a + (i - a) = i)
  BY <1>1
<1>5. \A i \in 1 .. b : a + i \in 1 .. a + b
  BY <1>1
<1>6. \A i \in 1 .. a : i \in 1 .. a + b
  BY <1>1
<1>7. Failing(C) = {} <=> Failing(A) = {} /\ Failing(B) = {}
  <2>1. ASSUME Failing(C) = {} PROVE Failing(A) = {} /\ Failing(B) = {}
    BY <1>3, <2>1
  <2>2. ASSUME Failing(A) = {}, Failing(B) = {}, NEW i \in Failing(C) PROVE FALSE
    <3>1. i \in 1 .. a + b
      BY <1>3
    <3>2. CASE i \in 1 .. a
      BY <1>3, <2>2, <3>2
    <3>3. CASE i - a \in 1 .. b /\ a + (i - a) = i
      <4>1. i - a \in Failing(B)
        <5>1. PICK k \in 1 .. b : k = i - a /\ a + k = i
          BY <3>3
        <5>2. QED
          BY <1>3, <5>1
      <4>2. QED
        BY <2>2, <4>1
    <3>4. QED
      BY <1>4, <3>1, <3>2, <3>3
  <2>3. QED
    BY <2>1, <2>2
<1>8. NoDone(C) <=> NoDone(A) /\ NoDone(B)
  <2>1. ASSUME NoDone(C) PROVE NoDone(A) /\ NoDone(B)
    BY <1>2, <1>5, <1>6, <2>1 DEF NoDone
  <2>2. ASSUME NoDone(A), NoDone(B), NEW i \in 1 .. a + b PROVE C[i].type # "done"
    <3>1. CASE i \in 1 .. a
      BY <1>2, <2>2, <3>1 DEF NoDone
    <3>2. CASE i - a \in 1 .. b /\ a + (i - a) = i
      <4>1. PICK k \in 1 .. b : k = i - a /\ a + k = i
        BY <3>2
      <4>2. C[a + k] = B[k] /\ k \in DOMAIN B
        BY <1>2, <4>1
      <4>3. B[k].type # "done"
        BY <2>2, <4>2, Zenon DEF NoDone
      <4>4. QED
        BY <4>1, <4>2, <4>3, Zenon
    <3>3. QED
      BY <1>4, <3>1, <3>2
  <2>3. QED
    BY <1>2, <2>1, <2>2 DEF NoDone
<1>9. QED
  BY <1>7, <1>8 DEF C

(* What stands before the first [DONE] is kept; *)
LEMMA UpToDoneKeeps ==
    ASSUME NEW A \in Seq(SoundEvent), NEW B \in Seq(SoundEvent), NoDone(A)
    PROVE  \E r \in Seq(SoundEvent) : UpToDone(A \o B) = A \o r
<1> DEFINE C == A \o B
           done == {i \in DOMAIN C : C[i].type = "done"}
<1>1. PICK a \in Nat, b \in Nat : a = Len(A) /\ b = Len(B)
  OBVIOUS
<1>2. /\ C \in Seq(SoundEvent) /\ Len(C) = a + b
      /\ DOMAIN C = 1 .. a + b /\ DOMAIN A = 1 .. a /\ DOMAIN B = 1 .. b
      /\ \A i \in 1 .. a : C[i] = A[i]
      /\ \A i \in 1 .. b : C[a + i] = B[i]
  BY <1>1, Joined
<1>3. UpToDone(C) = IF done = {} THEN C ELSE SubSeq(C, 1, Min(done))
  BY DEF UpToDone
<1>4. CASE done = {}
  BY <1>3, <1>4
<1>5. CASE done # {}
  <2> DEFINE m == Min(done)
  <2>1. m \in done
    <3>1. done \in SUBSET Nat
      BY <1>1, <1>2
    <3>2. QED
      BY <1>5, <3>1, LeastOf
  <2>2. m \in 1 .. a + b /\ m \notin 1 .. a
    <3>1. m \in 1 .. a + b /\ C[m].type = "done"
      BY <1>2, <2>1
    <3> HIDE DEF m, C
    <3>2. m \in 1 .. a => C[m] = A[m] /\ A[m].type # "done"
      BY <1>2 DEF NoDone
    <3>3. QED
      BY <3>1, <3>2
  <2> HIDE DEF m, C, done
  <2>3. PICK k \in 1 .. b : m = a + k
    <3>1. m - a \in 1 .. b /\ m = a + (m - a)
      BY <1>1, <2>2
    <3>2. QED
      BY <3>1
  <2> DEFINE r == SubSeq(B, 1, k)
             l == SubSeq(C, 1, a + k)
  <2>4. r \in Seq(SoundEvent) /\ Len(r) = k /\ \A i \in 1 .. k : r[i] = B[i]
    BY <1>1
  <2>5. l \in Seq(SoundEvent) /\ Len(l) = a + k /\ \A i \in 1 .. a + k : l[i] = C[i]
    BY <1>1, <1>2
  <2> HIDE DEF r, l
  <2>6. /\ A \o r \in Seq(SoundEvent) /\ Len(A \o r) = a + k
        /\ \A i \in 1 .. a : (A \o r)[i] = A[i]
        /\ \A i \in 1 .. k : (A \o r)[a + i] = r[i]
    <3>1. PICK d \in Nat : d = k
      BY <1>1
    <3>2. d = Len(r) /\ r \in Seq(SoundEvent) /\ a = Len(A)
      BY <1>1, <2>4, <3>1
    <3>3. /\ A \o r \in Seq(SoundEvent) /\ Len(A \o r) = a + d
          /\ \A i \in 1 .. a : (A \o r)[i] = A[i]
          /\ \A i \in 1 .. d : (A \o r)[a + i] = r[i]
      BY <3>2, Joined
    <3>4. QED
      BY <3>1, <3>3
  <2>7. \A i \in 1 .. a + k : l[i] = (A \o r)[i]
    <3> TAKE i \in 1 .. a + k
    <3>1. CASE i \in 1 .. a
      <4>1. C[i] = A[i] /\ (A \o r)[i] = A[i]
        BY <1>2, <2>6, <3>1
      <4>2. QED
        BY <2>5, <4>1
    <3>2. CASE i \notin 1 .. a
      <4>1. i - a \in 1 .. k /\ i = a + (i - a)
        BY <1>1, <3>2
      <4>2. PICK j \in 1 .. k : i = a + j
        BY <4>1
      <4>3. C[i] = B[j] /\ (A \o r)[i] = r[j] /\ r[j] = B[j]
        BY <1>2, <2>4, <2>6, <4>2
      <4>4. QED
        BY <2>5, <4>3
    <3>3. QED
      BY <3>1, <3>2
  <2>8. l = A \o r
    BY <2>5, <2>6, <2>7, SeqEqual
  <2>9. UpToDone(C) = l
    BY <1>3, <1>5, <2>3 DEF l, m
  <2>10. QED
    BY <2>4, <2>8, <2>9 DEF C
<1>6. QED
  BY <1>4, <1>5

(* what follows it is not. *)
LEMMA UpToDoneStops ==
    ASSUME NEW A \in Seq(SoundEvent), NEW B \in Seq(SoundEvent), NoDone(A)
    PROVE  UpToDone((A \o <<DoneEvent>>) \o B) = A \o <<DoneEvent>>
<1> DEFINE D == A \o <<DoneEvent>>
           C == D \o B
           done == {i \in DOMAIN C : C[i].type = "done"}
<1>1. PICK a \in Nat, b \in Nat : a = Len(A) /\ b = Len(B)
  OBVIOUS
<1>2. DoneEvent \in SoundEvent /\ DoneEvent.type = "done"
  BY DEF SoundEvent, DoneEvent
<1>3. D \in Seq(SoundEvent) /\ Len(D) = a + 1 /\ D[a + 1] = DoneEvent /\ \A i \in 1 .. a : D[i] = A[i]
  <2> HIDE DEF SoundEvent, DoneEvent
  <2>1. QED
    BY <1>1, <1>2
<1> HIDE DEF D
<1>4. /\ C \in Seq(SoundEvent) /\ Len(C) = (a + 1) + b /\ DOMAIN C = 1 .. (a + 1) + b
      /\ \A i \in 1 .. a + 1 : C[i] = D[i]
  <2>1. PICK d \in Nat : d = a + 1
    BY <1>1
  <2>2. D \in Seq(SoundEvent) /\ d = Len(D) /\ b = Len(B)
    BY <1>1, <1>3, <2>1
  <2>3. /\ C \in Seq(SoundEvent) /\ Len(C) = d + b /\ DOMAIN C = 1 .. d + b
        /\ \A i \in 1 .. d : C[i] = D[i]
    BY <2>2, Joined
  <2>4. QED
    BY <2>1, <2>3
<1>5. UpToDone(C) = IF done = {} THEN C ELSE SubSeq(C, 1, Min(done))
  BY DEF UpToDone
<1> HIDE DEF C
<1>6. a + 1 \in done /\ done \in SUBSET Nat
  BY <1>1, <1>2, <1>3, <1>4
<1>7. \A i \in 1 .. a : i \notin done
  BY <1>1, <1>3, <1>4, SMTT(60) DEF NoDone
<1> HIDE DEF done
<1>8. Min(done) = a + 1
  <2>1. Min(done) \in done /\ \A y \in done : Min(done) <= y
    BY <1>6, LeastOf
  <2>2. Min(done) \in Nat /\ Min(done) <= a + 1 /\ Min(done) # 0
    <3>1. 0 \notin done
      BY <1>4 DEF done
    <3>2. QED
      BY <1>6, <2>1, <3>1
  <2>3. QED
    BY <1>7, <2>1, <2>2
<1>9. SubSeq(C, 1, a + 1) = D
  <2>1. SubSeq(C, 1, a + 1) \in Seq(SoundEvent) /\ Len(SubSeq(C, 1, a + 1)) = a + 1
        /\ \A i \in 1 .. a + 1 : SubSeq(C, 1, a + 1)[i] = C[i]
    BY <1>4
  <2>2. \A i \in 1 .. a + 1 : SubSeq(C, 1, a + 1)[i] = D[i]
    BY <1>4, <2>1
  <2>3. QED
    BY <1>3, <2>1, <2>2, SeqEqual
<1>10. UpToDone(C) = D
  BY <1>5, <1>6, <1>8, <1>9
<1>11. QED
  BY <1>10 DEF C, D

(* An event that says [DONE] says nothing else. *)
LEMMA DoneAlone ==
    ASSUME NEW content, capability.toolCalls \in BOOLEAN
    PROVE  NoDone(ParseEventData(content)) \/ ParseEventData(content) = <<DoneEvent>>
<1> DEFINE text == Pieces(content)
           object == Json[text]
           refusal == IF object.choices = <<>> THEN None ELSE Refusal(object.choices)
           chunk == [type |-> "chunk", named |-> object.named,
                     choices |-> NormalizeChoices(object.choices, InChunk)]
           why == IF refusal = "stream_error" THEN "choice" ELSE "tools"
<1>1. /\ OwnError("stream_error", "json").type = "error" /\ OwnError(refusal, why).type = "error"
  BY DEF OwnError
<1>2. chunk.type = "chunk" /\ [type |-> "usage"].type = "usage"
  OBVIOUS
<1>3. ParseEventData(content) \in
         {<<>>, <<DoneEvent>>, <<OwnError("stream_error", "json")>>, <<OwnError(refusal, why)>>,
          <<>> \o <<>>, <<chunk>> \o <<>>, <<>> \o <<[type |-> "usage"]>>, <<chunk>> \o <<[type |-> "usage"]>>}
  BY DEF ParseEventData
<1> HIDE DEF chunk, refusal, why
<1>4. CASE ParseEventData(content) = <<>>
  BY <1>4 DEF NoDone
<1>5. CASE ParseEventData(content) \in {<<OwnError("stream_error", "json")>>, <<OwnError(refusal, why)>>}
  BY <1>1, <1>5 DEF NoDone
<1>6. CASE ParseEventData(content) \in {<<>> \o <<>>, <<chunk>> \o <<>>, <<>> \o <<[type |-> "usage"]>>,
                                         <<chunk>> \o <<[type |-> "usage"]>>}
  BY <1>2, <1>6 DEF NoDone
<1>7. QED
  BY <1>3, <1>4, <1>5, <1>6

(* A body read up to a position, and one token further. *)
Read(body, k) == SubSeq(body, 1, k)

(* One token further is one token more. *)
LEMMA ReadNext ==
    ASSUME NEW body \in Seq(Tokens), NEW k \in Nat, NEW n \in Nat, n = Len(body), k + 1 <= n
    PROVE  /\ Read(body, k) \in Seq(Tokens) /\ body[k + 1] \in Tokens
           /\ Read(body, k + 1) = Append(Read(body, k), body[k + 1])
<1>1. PICK i \in 1 .. n : i = k + 1 /\ i - 1 = k
  OBVIOUS
<1>2. SubSeq(body, 1, i) = SubSeq(body, 1, i - 1) \o <<body[i]>>
  BY SubSeqRecursiveSecond
<1>3. SubSeq(body, 1, k) \in Seq(Tokens) /\ body[i] \in Tokens
  OBVIOUS
<1>4. SubSeq(body, 1, k) \o <<body[i]>> = Append(SubSeq(body, 1, k), body[i])
  BY <1>3, AppendIsConcat
<1>5. QED
  BY <1>1, <1>2, <1>3, <1>4 DEF Read

(* The line that has not ended holds no line feed. *)
LEMMA OpenLineOpen ==
    ASSUME NEW body \in Seq(Tokens), NEW k \in 0 .. Len(body)
    PROVE  \A j \in DOMAIN OpenLine(Read(body, k)) : OpenLine(Read(body, k))[j] # "lf"
<1> DEFINE Open(i) == \A j \in DOMAIN OpenLine(Read(body, i)) : OpenLine(Read(body, i))[j] # "lf"
           G == {i \in 0 .. k : Open(i)}
<1>1. PICK n \in Nat : n = Len(body)
  OBVIOUS
<1>2. Open(0)
  <2>1. Read(body, 0) = <<>>
    BY DEF Read
  <2>2. OpenLine(Read(body, 0)) = <<>>
    BY <2>1, NothingRead
  <2>3. QED
    BY <2>2
<1>3. ASSUME NEW i \in 1 .. k, Open(i - 1) PROVE Open(i)
  <2>1. PICK j \in Nat : j = i - 1 /\ j + 1 = i /\ j + 1 <= n
    BY <1>1
  <2> DEFINE read == Read(body, j)
             t == body[j + 1]
  <2>2. read \in Seq(Tokens) /\ t \in Tokens /\ Read(body, j + 1) = Append(read, t)
    BY <1>1, <2>1, ReadNext
  <2>3. OpenLine(read) \in Seq(Tokens)
    BY <2>2, EndedLines
  <2> HIDE DEF read, t
  <2>4. \A l \in DOMAIN OpenLine(read) : OpenLine(read)[l] # "lf"
    BY <1>3, <2>1 DEF read
  <2>5. CASE t = "lf"
    <3>1. "lf" \in Tokens
      BY <2>2, <2>5
    <3>2. OpenLine(Append(read, "lf")) = <<>>
      BY <2>2, <3>1, ReadLf
    <3>3. OpenLine(Read(body, i)) = <<>>
      BY <2>1, <2>2, <2>5, <3>2
    <3>4. QED
      BY <3>3
  <2>6. CASE t # "lf"
    <3>1. OpenLine(Append(read, t)) = Append(OpenLine(read), t)
      BY <2>2, <2>6, ReadOther
    <3>2. OpenLine(Read(body, i)) = Append(OpenLine(read), t)
      BY <2>1, <2>2, <3>1
    <3>3. PICK line \in Seq(Tokens) : line = OpenLine(read)
      BY <2>3
    <3>4. \A l \in DOMAIN Append(line, t) : Append(line, t)[l] # "lf"
      BY <2>2, <2>4, <2>6, <3>3
    <3>5. QED
      BY <3>2, <3>3, <3>4
  <2>7. QED
    BY <2>5, <2>6
<1> HIDE DEF Open
<1>4. k \in Nat /\ 0 \in G /\ \A i \in 1 .. k : i - 1 \in G => i \in G
  BY <1>1, <1>2, <1>3
<1>5. k \in G
  <2>1. \A i \in 0 .. k : i \in G
    <3> HIDE DEF G
    <3>1. QED
      BY <1>4, UpTo, Zenon
  <2>2. QED
    BY <1>4, <2>1
<1>6. QED
  BY <1>5 DEF Open

(* A parser has read the body up to a position. *)
ParserFields == {"buffer", "eventLines", "eventByteCount", "isDone"}
Follows(p, read) ==
    /\ DOMAIN p = ParserFields
    /\ p.buffer = OpenLine(read)
    /\ p.eventLines \in Seq(Seq(Tokens))
    /\ Data(p.eventLines) = Data(OpenGroup(read))
    /\ p.isDone = FALSE

(* So has a scan: of the tokens r + 1 to m of the body those up to k have been looked at, *)
At(s, body, r, m, k) ==
    /\ SoundScan(s) /\ s.over = FALSE /\ s.done = FALSE
    /\ s.line = OpenLine(Read(body, k))
    /\ s.lines \in Seq(Seq(Tokens))
    /\ Data(s.lines) = Data(OpenGroup(Read(body, k)))
    /\ s.rest = SubSeq(body, k + 1, m)
    /\ Complete(Read(body, k)) = Complete(Read(body, r)) \o s.events
    /\ NoDone(s.events)

(* or an event was too large, and what was emitted before is what the body says there, *)
GaveUp(e, events, body, r) ==
    /\ NoDone(e) /\ events = e \o Oversized
    /\ \E rest \in Seq(SoundEvent) : BodyEvents(body) = (Complete(Read(body, r)) \o e) \o rest
Large(s, body, r) ==
    /\ SoundScan(s) /\ s.over = TRUE /\ s.done = FALSE
    /\ \E e \in Seq(SoundEvent) : GaveUp(e, s.events, body, r)

(* or [DONE] was said at some position, and what follows it is looked at once. *)
HasEnded(k, e, events, body, r, m) ==
    /\ NoDone(e)
    /\ Complete(Read(body, k)) = (Complete(Read(body, r)) \o e) \o <<DoneEvent>>
    /\ events = (e \o <<DoneEvent>>) \o Trailing(SubSeq(body, k + 1, m))
Finished(s, body, r, m) ==
    /\ SoundScan(s) /\ s.over = TRUE /\ s.done = TRUE
    /\ \E k \in r + 1 .. m, e \in Seq(SoundEvent) : HasEnded(k, e, s.events, body, r, m)

Scanned(s, body, r, m, k) == At(s, body, r, m, k) \/ Large(s, body, r) \/ Finished(s, body, r, m)

(* What stands before a position is said first by the whole. *)
LEMMA SaidBefore ==
    ASSUME NEW body \in Seq(Tokens), NEW k \in 0 .. Len(body), capability.toolCalls \in BOOLEAN
    PROVE  /\ Complete(Read(body, k)) \in Seq(SoundEvent)
           /\ \E rest \in Seq(SoundEvent) : BodyEvents(body) = Complete(Read(body, k)) \o rest
<1>1. Read(body, k) \in Seq(Tokens)
  BY DEF Read
<1>2. QED
  BY <1>1, CompleteIsSound, CompleteStays DEF Read

(* The tokens not looked at after one more. *)
LEMMA RestOf ==
    ASSUME NEW body \in Seq(Tokens), NEW k \in Nat, NEW m \in Nat, k + 1 <= m, m <= Len(body)
    PROVE  Tail(SubSeq(body, k + 1, m)) = SubSeq(body, k + 2, m)
<1> DEFINE s == SubSeq(body, k + 1, m)
           t == SubSeq(body, k + 2, m)
<1>1. PICK n \in Nat, d \in Nat : n = Len(body) /\ m = k + 1 + d
  <2>1. Len(body) \in Nat /\ m - (k + 1) \in Nat /\ m = k + 1 + (m - (k + 1))
    OBVIOUS
  <2>2. QED
    BY <2>1
<1>2. s \in Seq(Tokens) /\ Len(s) = d + 1 /\ \A i \in 1 .. d + 1 : s[i] = body[k + i]
  BY <1>1
<1>3. t \in Seq(Tokens) /\ Len(t) = d /\ \A i \in 1 .. d : t[i] = body[k + 1 + i]
  BY <1>1
<1> HIDE DEF s, t
<1>4. Tail(s) \in Seq(Tokens) /\ Len(Tail(s)) = d /\ \A i \in 1 .. d : Tail(s)[i] = s[i + 1]
  BY <1>2
<1>5. \A i \in 1 .. d : Tail(s)[i] = t[i]
  <2> TAKE i \in 1 .. d
  <2>1. i + 1 \in 1 .. d + 1 /\ k + (i + 1) = k + 1 + i
    OBVIOUS
  <2>2. s[i + 1] = body[k + (i + 1)]
    BY <1>2, <2>1
  <2>3. QED
    BY <1>3, <1>4, <2>1, <2>2
<1>6. Tail(s) = t
  BY <1>3, <1>4, <1>5, SeqEqual
<1>7. QED
  BY <1>6 DEF s, t

(* Every token takes the scan one position further, or to its end: one that ends no line, *)
LEMMA TokenOther ==
    ASSUME NEW body \in Seq(Tokens), NEW r \in Nat, NEW k \in Nat, NEW m \in Nat,
           r <= k, k + 1 <= m, m <= Len(body), capability.toolCalls \in BOOLEAN,
           NEW s, At(s, body, r, m, k), body[k + 1] # "lf"
    PROVE  At(ReadToken(s, body[k + 1]), body, r, m, k + 1)
<1> DEFINE t == body[k + 1]
           ahead == [s EXCEPT !.rest = Tail(@)]
           next == [ahead EXCEPT !.line = Append(@, t)]
<1>1. Read(body, k) \in Seq(Tokens) /\ t \in Tokens /\ Read(body, k + 1) = Append(Read(body, k), t)
  <2>1. PICK n \in Nat : n = Len(body)
    OBVIOUS
  <2>2. QED
    BY <2>1, ReadNext
<1>2. ReadToken(s, t) = next
  BY DEF ReadToken, At
<1>3. DOMAIN s = ScanFields
  BY DEF At, SoundScan
<1>4. /\ next.over = s.over /\ next.done = s.done /\ next.line = Append(s.line, t) /\ next.lines = s.lines
      /\ next.rest = Tail(s.rest) /\ next.events = s.events
  BY <1>3 DEF ScanFields
<1>5. SoundScan(next)
  BY <1>1, <1>2, ReadTokenSound DEF At
<1> HIDE DEF next, t
<1>6. /\ OpenLine(Read(body, k + 1)) = Append(OpenLine(Read(body, k)), t)
      /\ OpenGroup(Read(body, k + 1)) = OpenGroup(Read(body, k))
      /\ Complete(Read(body, k + 1)) = Complete(Read(body, k))
  <2>1. t # "lf"
    BY DEF t
  <2>2. PICK read \in Seq(Tokens) : read = Read(body, k)
    BY <1>1
  <2>3. /\ OpenLine(Append(read, t)) = Append(OpenLine(read), t)
        /\ OpenGroup(Append(read, t)) = OpenGroup(read)
        /\ Complete(Append(read, t)) = Complete(read)
    BY <1>1, <2>1, ReadOther
  <2>4. QED
    BY <1>1, <2>2, <2>3
<1>7. next.rest = SubSeq(body, (k + 1) + 1, m)
  <2>1. Tail(SubSeq(body, k + 1, m)) = SubSeq(body, k + 2, m)
    BY RestOf
  <2>2. (k + 1) + 1 = k + 2
    OBVIOUS
  <2>3. s.rest = SubSeq(body, k + 1, m)
    BY DEF At
  <2>4. QED
    BY <1>4, <2>1, <2>2, <2>3
<1>8. At(next, body, r, m, k + 1)
  BY <1>4, <1>5, <1>6, <1>7 DEF At
<1>9. QED
  BY <1>2, <1>8 DEF t

(* a line feed after an empty line, *)
LEMMA TokenBlank ==
    ASSUME NEW body \in Seq(Tokens), NEW r \in Nat, NEW k \in Nat, NEW m \in Nat,
           r <= k, k + 1 <= m, m <= Len(body), capability.toolCalls \in BOOLEAN,
           NEW s, At(s, body, r, m, k), body[k + 1] = "lf", StripCr(OpenLine(Read(body, k))) = <<>>
    PROVE  Scanned(ReadToken(s, "lf"), body, r, m, k + 1)
<1> DEFINE ahead == [s EXCEPT !.rest = Tail(@)]
           next == ReadToken(s, "lf")
           content == Data(ahead.lines)
           events == ParseEventData(content)
           emptied == [ahead EXCEPT !.line = <<>>, !.lines = <<>>, !.bytes = 0]
           large == [emptied EXCEPT !.events = @ \o Oversized, !.over = TRUE, !.rest = <<>>]
           last == [emptied EXCEPT !.events = @ \o events \o Trailing(ahead.rest), !.over = TRUE, !.done = TRUE, !.rest = <<>>]
           more == [emptied EXCEPT !.events = @ \o events]
           before == Complete(Read(body, r))
<1>1. Read(body, k) \in Seq(Tokens) /\ "lf" \in Tokens /\ Read(body, k + 1) = Append(Read(body, k), "lf")
  <2>1. PICK n \in Nat : n = Len(body)
    OBVIOUS
  <2>2. QED
    BY <2>1, ReadNext
<1>2. DOMAIN s = ScanFields
  BY DEF At, SoundScan
<1>3. /\ ahead.over = s.over /\ ahead.done = s.done /\ ahead.line = s.line /\ ahead.lines = s.lines
      /\ ahead.rest = Tail(s.rest) /\ ahead.events = s.events /\ DOMAIN ahead = ScanFields
  BY <1>2 DEF ScanFields
<1>4. next = LineEnds(ahead)
  BY DEF ReadToken, At
<1>5. StripCr(ahead.line) = <<>>
  BY <1>3 DEF At
<1>6. ahead.rest = SubSeq(body, (k + 1) + 1, m)
  <2>1. Tail(SubSeq(body, k + 1, m)) = SubSeq(body, k + 2, m)
    BY RestOf
  <2>2. (k + 1) + 1 = k + 2
    OBVIOUS
  <2>3. s.rest = SubSeq(body, k + 1, m)
    BY DEF At
  <2>4. QED
    BY <1>3, <2>1, <2>2, <2>3
<1>7. SoundScan(next)
  BY <1>1, ReadTokenSound DEF At
<1> HIDE DEF ahead
<1>8. next = EventEnds(ahead)
  BY <1>4, <1>5 DEF LineEnds
<1> HIDE DEF next
<1>9. next = IF Bytes(content) > MaxEvent THEN large
             ELSE IF \E i \in DOMAIN events : events[i].type = "done" THEN last ELSE more
  BY <1>8 DEF EventEnds
<1>10. events \in Seq(SoundEvent) /\ (NoDone(events) \/ events = <<DoneEvent>>)
  BY ParsedIsSound, DoneAlone
<1>11. content = Data(OpenGroup(Read(body, k)))
  BY <1>3 DEF At
<1>12. /\ emptied.events = s.events /\ emptied.over = FALSE /\ emptied.done = FALSE /\ emptied.line = <<>>
       /\ emptied.lines = <<>> /\ emptied.rest = ahead.rest /\ DOMAIN emptied = ScanFields
  BY <1>3 DEF ScanFields, At
<1>13. /\ OpenLine(Read(body, k + 1)) = <<>> /\ OpenGroup(Read(body, k + 1)) = <<>>
       /\ Complete(Read(body, k + 1)) = Complete(Read(body, k)) \o events
  BY <1>1, <1>11, ReadLf
<1> HIDE DEF content, events, emptied
<1>14. /\ Complete(Read(body, k)) = before \o s.events
       /\ NoDone(s.events) /\ s.events \in Seq(SoundEvent) /\ before \in Seq(SoundEvent)
  <2>1. r \in 0 .. Len(body)
    OBVIOUS
  <2>2. QED
    BY <2>1, SaidBefore DEF At, SoundScan
<1>15. CASE Bytes(content) > MaxEvent
  <2>1. next.over = TRUE /\ next.done = FALSE /\ next.events = s.events \o Oversized
    BY <1>9, <1>12, <1>15 DEF ScanFields
  <2>2. \E rest \in Seq(SoundEvent) : BodyEvents(body) = (before \o s.events) \o rest
    <3>1. k \in 0 .. Len(body)
      OBVIOUS
    <3>2. QED
      BY <1>14, <3>1, SaidBefore
  <2>3. GaveUp(s.events, next.events, body, r)
    BY <1>14, <2>1, <2>2 DEF GaveUp
  <2>4. Large(next, body, r)
    BY <1>7, <1>14, <2>1, <2>3 DEF Large
  <2>5. QED
    BY <2>4 DEF Scanned, next
<1>16. CASE ~(Bytes(content) > MaxEvent) /\ \E i \in DOMAIN events : events[i].type = "done"
  <2>1. next = last
    BY <1>9, <1>16
  <2>2. events = <<DoneEvent>>
    BY <1>10, <1>16 DEF NoDone
  <2>3. next.over = TRUE /\ next.done = TRUE /\ next.events = (s.events \o events) \o Trailing(ahead.rest)
    BY <1>12, <2>1 DEF ScanFields
  <2>4. Complete(Read(body, k + 1)) = (before \o s.events) \o <<DoneEvent>>
    BY <1>13, <1>14, <2>2
  <2>5. HasEnded(k + 1, s.events, next.events, body, r, m)
    BY <1>6, <1>14, <2>2, <2>3, <2>4 DEF HasEnded
  <2>6. k + 1 \in r + 1 .. m
    OBVIOUS
  <2>7. Finished(next, body, r, m)
    BY <1>7, <1>14, <2>3, <2>5, <2>6 DEF Finished
  <2>8. QED
    BY <2>7 DEF Scanned, next
<1>17. CASE ~(Bytes(content) > MaxEvent) /\ ~ \E i \in DOMAIN events : events[i].type = "done"
  <2>1. next = more
    BY <1>9, <1>17
  <2>2. NoDone(events)
    BY <1>17 DEF NoDone
  <2>3. /\ next.over = FALSE /\ next.done = FALSE /\ next.events = s.events \o events
        /\ next.line = <<>> /\ next.lines = <<>> /\ next.rest = ahead.rest
    BY <1>12, <2>1 DEF ScanFields
  <2>4. NoDone(s.events \o events)
    BY <1>10, <1>14, <2>2, NoneOfJoined
  <2>5. Complete(Read(body, k + 1)) = before \o (s.events \o events)
    <3>1. PICK x \in Seq(SoundEvent), y \in Seq(SoundEvent), z \in Seq(SoundEvent) :
             x = before /\ y = s.events /\ z = events
      BY <1>10, <1>14
    <3>2. (x \o y) \o z = x \o (y \o z)
      BY Associative
    <3>3. QED
      BY <1>13, <1>14, <3>1, <3>2
  <2>6. <<>> \in Seq(Seq(Tokens))
    OBVIOUS
  <2>7. At(next, body, r, m, k + 1)
    BY <1>6, <1>7, <1>13, <2>3, <2>4, <2>5, <2>6 DEF At
  <2>8. QED
    BY <2>7 DEF Scanned, next
<1>18. QED
  BY <1>15, <1>16, <1>17

(* and one after a line of an event. *)
LEMMA TokenLine ==
    ASSUME NEW body \in Seq(Tokens), NEW r \in Nat, NEW k \in Nat, NEW m \in Nat,
           r <= k, k + 1 <= m, m <= Len(body), capability.toolCalls \in BOOLEAN,
           NEW s, At(s, body, r, m, k), body[k + 1] = "lf", StripCr(OpenLine(Read(body, k))) # <<>>
    PROVE  Scanned(ReadToken(s, "lf"), body, r, m, k + 1)
<1> DEFINE ahead == [s EXCEPT !.rest = Tail(@)]
           next == ReadToken(s, "lf")
           line == StripCr(ahead.line)
           bytes == ahead.bytes + Bytes(line)
           before == Complete(Read(body, r))
           comment == [ahead EXCEPT !.line = <<>>]
           large == [ScanOf(NewParser, <<>>) EXCEPT !.events = Oversized, !.over = TRUE]
           more == [ahead EXCEPT !.line = <<>>, !.lines = Append(@, line), !.bytes = bytes]
<1>1. Read(body, k) \in Seq(Tokens) /\ "lf" \in Tokens /\ Read(body, k + 1) = Append(Read(body, k), "lf")
  <2>1. PICK n \in Nat : n = Len(body)
    OBVIOUS
  <2>2. QED
    BY <2>1, ReadNext
<1>2. DOMAIN s = ScanFields
  BY DEF At, SoundScan
<1>3. /\ ahead.over = FALSE /\ ahead.done = FALSE /\ ahead.line = s.line /\ ahead.lines = s.lines
      /\ ahead.rest = Tail(s.rest) /\ ahead.events = s.events /\ DOMAIN ahead = ScanFields
  BY <1>2 DEF ScanFields, At
<1>4. next = LineEnds(ahead)
  BY DEF ReadToken, At
<1>5. line = StripCr(OpenLine(Read(body, k))) /\ line # <<>>
  BY <1>3 DEF At
<1>6. ahead.rest = SubSeq(body, (k + 1) + 1, m)
  <2>1. Tail(SubSeq(body, k + 1, m)) = SubSeq(body, k + 2, m)
    BY RestOf
  <2>2. (k + 1) + 1 = k + 2
    OBVIOUS
  <2>3. s.rest = SubSeq(body, k + 1, m)
    BY DEF At
  <2>4. QED
    BY <1>3, <2>1, <2>2, <2>3
<1>7. SoundScan(next)
  BY <1>1, ReadTokenSound DEF At
<1> HIDE DEF ahead
<1>8. next = IF line[1] = "colon" THEN comment ELSE IF bytes > MaxEvent THEN large ELSE more
  BY <1>4, <1>5 DEF LineEnds
<1> HIDE DEF next
<1>9. line \in Seq(Tokens) /\ OpenGroup(Read(body, k)) \in Seq(Seq(Tokens))
  <2>1. OpenLine(Read(body, k)) \in Seq(Tokens) /\ OpenGroup(Read(body, k)) \in Seq(Seq(Tokens))
    BY <1>1, EndedLines
  <2>2. QED
    BY <1>5, <2>1, StripCrLine
<1>10. /\ OpenLine(Read(body, k + 1)) = <<>> /\ OpenGroup(Read(body, k + 1)) = Append(OpenGroup(Read(body, k)), line)
       /\ Complete(Read(body, k + 1)) = Complete(Read(body, k))
  BY <1>1, <1>5, ReadLf
<1>11. Data(OpenGroup(Read(body, k + 1))) =
          IF line[1] # "data" THEN Data(OpenGroup(Read(body, k)))
          ELSE IF Data(OpenGroup(Read(body, k))) = <<>> THEN Tail(line)
          ELSE Data(OpenGroup(Read(body, k))) \o <<"lf">> \o Tail(line)
  BY <1>9, <1>10, DataAppend
<1>12. /\ s.lines \in Seq(Seq(Tokens)) /\ Data(s.lines) = Data(OpenGroup(Read(body, k)))
       /\ Complete(Read(body, k)) = before \o s.events
       /\ NoDone(s.events) /\ s.events \in Seq(SoundEvent) /\ before \in Seq(SoundEvent)
  <2>1. r \in 0 .. Len(body)
    OBVIOUS
  <2>2. QED
    BY <2>1, SaidBefore DEF At, SoundScan
<1>13. Data(Append(s.lines, line)) = IF line[1] # "data" THEN Data(s.lines)
          ELSE IF Data(s.lines) = <<>> THEN Tail(line) ELSE Data(s.lines) \o <<"lf">> \o Tail(line)
  BY <1>9, <1>12, DataAppend
<1> HIDE DEF line, bytes
<1>14. CASE line[1] = "colon"
  <2>1. /\ next.over = FALSE /\ next.done = FALSE /\ next.events = s.events
        /\ next.line = <<>> /\ next.lines = s.lines /\ next.rest = ahead.rest
    BY <1>3, <1>8, <1>14 DEF ScanFields
  <2>2. Data(OpenGroup(Read(body, k + 1))) = Data(s.lines)
    BY <1>11, <1>12, <1>14
  <2>3. At(next, body, r, m, k + 1)
    BY <1>6, <1>7, <1>10, <1>12, <2>1, <2>2 DEF At
  <2>4. QED
    BY <2>3 DEF Scanned, next
<1>15. CASE line[1] # "colon" /\ bytes > MaxEvent
  <2>1. next.over = TRUE /\ next.done = FALSE /\ next.events = Oversized
    BY <1>8, <1>15 DEF ScanOf
  <2>2. PICK e \in Seq(SoundEvent) : e = <<>>
    <3>1. <<>> \in Seq(SoundEvent)
      OBVIOUS
    <3>2. QED
      BY <3>1, Zenon
  <2>3. next.events = e \o Oversized /\ before \o e = before
    <3>1. Oversized \in Seq(SoundEvent)
      BY OwnEvents
    <3>2. <<>> \o Oversized = Oversized /\ before \o <<>> = before
      BY <1>12, <3>1, ConcatEmptySeq
    <3>3. QED
      BY <2>1, <2>2, <3>2
  <2>4. \E rest \in Seq(SoundEvent) : BodyEvents(body) = (before \o e) \o rest
    <3>1. r \in 0 .. Len(body)
      OBVIOUS
    <3>2. QED
      BY <2>3, <3>1, SaidBefore
  <2>5. NoDone(e)
    BY <2>2 DEF NoDone
  <2>6. GaveUp(e, next.events, body, r)
    BY <2>3, <2>4, <2>5 DEF GaveUp
  <2>7. Large(next, body, r)
    BY <1>7, <2>1, <2>6 DEF Large
  <2>8. QED
    BY <2>7 DEF Scanned, next
<1>16. CASE line[1] # "colon" /\ ~(bytes > MaxEvent)
  <2>1. next = more
    BY <1>8, <1>16
  <2>2. /\ next.over = FALSE /\ next.done = FALSE /\ next.events = s.events
        /\ next.line = <<>> /\ next.lines = Append(s.lines, line) /\ next.rest = ahead.rest
    BY <1>3, <2>1 DEF ScanFields
  <2>3. Data(OpenGroup(Read(body, k + 1))) = Data(next.lines)
    BY <1>11, <1>12, <1>13, <2>2
  <2>4. next.lines \in Seq(Seq(Tokens))
    BY <1>9, <1>12, <2>2, AppendProperties
  <2>5. At(next, body, r, m, k + 1)
    BY <1>6, <1>7, <1>10, <1>12, <2>2, <2>3, <2>4 DEF At
  <2>6. QED
    BY <2>5 DEF Scanned, next
<1>17. QED
  BY <1>14, <1>15, <1>16

(* Whatever the token, the scan has read it. *)
LEMMA TokenRead ==
    ASSUME NEW body \in Seq(Tokens), NEW r \in Nat, NEW k \in Nat, NEW m \in Nat,
           r <= k, k + 1 <= m, m <= Len(body), capability.toolCalls \in BOOLEAN,
           NEW s, Scanned(s, body, r, m, k)
    PROVE  Scanned(ReadToken(s, body[k + 1]), body, r, m, k + 1)
<1>1. CASE At(s, body, r, m, k)
  <2>1. CASE body[k + 1] # "lf"
    BY <1>1, <2>1, TokenOther DEF Scanned
  <2>2. CASE body[k + 1] = "lf" /\ StripCr(OpenLine(Read(body, k))) = <<>>
    BY <1>1, <2>2, TokenBlank
  <2>3. CASE body[k + 1] = "lf" /\ StripCr(OpenLine(Read(body, k))) # <<>>
    BY <1>1, <2>3, TokenLine
  <2>4. QED
    BY <2>1, <2>2, <2>3
<1>2. CASE Large(s, body, r) \/ Finished(s, body, r, m)
  <2>1. s.over = TRUE
    BY <1>2 DEF Large, Finished
  <2>2. ReadToken(s, body[k + 1]) = s
    BY <2>1 DEF ReadToken
  <2>3. QED
    BY <1>2, <2>2 DEF Scanned
<1>3. QED
  BY <1>1, <1>2 DEF Scanned

(* What the buffer held is read again without a line feed. *)
Begun(s, p, buffer, n, i) ==
    /\ SoundScan(s) /\ s.over = FALSE /\ s.done = FALSE
    /\ s.line = SubSeq(buffer, 1, i) /\ s.lines = p.eventLines /\ s.events = <<>>
    /\ s.rest = SubSeq(buffer, i + 1, n)

(* A token of the buffer that is no line feed joins the line. *)
LEMMA BufferRead ==
    ASSUME NEW p, NEW buffer \in Seq(Tokens), NEW n \in Nat, n = Len(buffer), NEW i \in Nat, i + 1 <= n,
           NEW s, Begun(s, p, buffer, n, i), buffer[i + 1] # "lf", capability.toolCalls \in BOOLEAN
    PROVE  Begun(ReadToken(s, buffer[i + 1]), p, buffer, n, i + 1)
<1> DEFINE t == buffer[i + 1]
           ahead == [s EXCEPT !.rest = Tail(@)]
           next == [ahead EXCEPT !.line = Append(@, t)]
<1>1. ReadToken(s, t) = next
  BY DEF ReadToken, Begun
<1>2. DOMAIN s = ScanFields
  BY DEF Begun, SoundScan
<1>3. /\ next.over = s.over /\ next.done = s.done /\ next.line = Append(s.line, t) /\ next.lines = s.lines
      /\ next.rest = Tail(s.rest) /\ next.events = s.events
  BY <1>2 DEF ScanFields
<1>4. t \in Tokens
  OBVIOUS
<1>5. SoundScan(next)
  BY <1>1, <1>4, ReadTokenSound DEF Begun
<1>6. SubSeq(buffer, 1, i + 1) = Append(SubSeq(buffer, 1, i), t)
  BY ReadNext DEF Read
<1> HIDE DEF next, t
<1>7. next.rest = SubSeq(buffer, (i + 1) + 1, n)
  <2>1. Tail(SubSeq(buffer, i + 1, n)) = SubSeq(buffer, i + 2, n)
    <3>1. n <= Len(buffer)
      OBVIOUS
    <3>2. QED
      BY <3>1, RestOf
  <2>2. (i + 1) + 1 = i + 2
    OBVIOUS
  <2>3. s.rest = SubSeq(buffer, i + 1, n)
    BY DEF Begun
  <2>4. QED
    BY <1>3, <2>1, <2>2, <2>3
<1>8. Begun(next, p, buffer, n, i + 1)
  BY <1>3, <1>5, <1>6, <1>7 DEF Begun
<1>9. QED
  BY <1>1, <1>8 DEF t

(* The tokens of the buffer and then those of the fragment. *)
LEMMA JoinedTokens ==
    ASSUME NEW A \in Seq(Tokens), NEW B \in Seq(Tokens), NEW a \in Nat, NEW b \in Nat,
           a = Len(A), b = Len(B)
    PROVE  /\ A \o B \in Seq(Tokens) /\ Len(A \o B) = a + b
           /\ \A i \in 1 .. a : (A \o B)[i] = A[i]
           /\ \A i \in 1 .. b : (A \o B)[a + i] = B[i]
OBVIOUS

(* So a scan reads the body as far as it goes. *)
LEMMA ScanReads ==
    ASSUME NEW body \in Seq(Tokens), NEW r \in Nat, NEW m \in Nat, r <= m, m <= Len(body),
           NEW p, Follows(p, Read(body, r)), capability.toolCalls \in BOOLEAN
    PROVE  Scanned(Scan(p, p.buffer \o SubSeq(body, r + 1, m)), body, r, m, m)
<1> DEFINE line == p.buffer
           fragment == SubSeq(body, r + 1, m)
           buffer == line \o fragment
<1>1. r \in 0 .. Len(body)
  OBVIOUS
<1>2. line \in Seq(Tokens) /\ \A j \in DOMAIN line : line[j] # "lf"
  <2>1. Read(body, r) \in Seq(Tokens)
    BY DEF Read
  <2>2. OpenLine(Read(body, r)) \in Seq(Tokens)
    BY <2>1, EndedLines
  <2>3. QED
    BY <1>1, <2>2, OpenLineOpen DEF Follows
<1> HIDE DEF line
<1>3. PICK b \in Nat, d \in Nat : b = Len(line) /\ m = r + d
  <2>1. Len(line) \in Nat /\ m - r \in Nat /\ m = r + (m - r)
    BY <1>2
  <2>2. QED
    BY <2>1
<1>4. fragment \in Seq(Tokens) /\ Len(fragment) = d /\ \A j \in 1 .. d : fragment[j] = body[r + j]
  BY <1>3, SMTT(60)
<1> HIDE DEF fragment
<1>5. /\ buffer \in Seq(Tokens) /\ Len(buffer) = b + d
      /\ \A j \in 1 .. b : buffer[j] = line[j]
      /\ \A j \in 1 .. d : buffer[b + j] = fragment[j]
  <2>1. line \in Seq(Tokens) /\ fragment \in Seq(Tokens) /\ b = Len(line) /\ d = Len(fragment)
    BY <1>2, <1>3, <1>4
  <2>2. QED
    BY <2>1, JoinedTokens
<1> HIDE DEF buffer
<1>6. PICK n \in Nat : n = b + d /\ n = Len(buffer)
  BY <1>5
<1>7. PICK scanned : /\ scanned[0] = ScanOf(p, buffer)
                     /\ \A i \in 1 .. n : scanned[i] = ReadToken(scanned[i - 1], buffer[i])
                     /\ Scan(p, buffer) = scanned[n]
  <2>1. n \in Nat /\ n = Len(buffer)
    BY <1>6
  <2>2. QED
    BY <2>1, ScanSteps, SMTT(90)
<1> DEFINE F == {i \in 0 .. b : Begun(scanned[i], p, buffer, n, i)}
<1>8. 0 \in F
  <2>1. SoundScan(ScanOf(p, buffer))
    BY ScanBegins
  <2>2. SubSeq(buffer, 1, 0) = <<>> /\ SubSeq(buffer, 0 + 1, n) = buffer
    <3>1. SubSeq(buffer, 1, 0) = <<>>
      BY <1>5
    <3>2. SubSeq(buffer, 1, n) = buffer
      BY <1>5, <1>6, SubSeqFull
    <3>3. QED
      BY <3>1, <3>2
  <2>3. /\ ScanOf(p, buffer).over = FALSE /\ ScanOf(p, buffer).done = FALSE /\ ScanOf(p, buffer).line = <<>>
        /\ ScanOf(p, buffer).lines = p.eventLines /\ ScanOf(p, buffer).events = <<>>
        /\ ScanOf(p, buffer).rest = buffer
    BY DEF ScanOf
  <2>4. Begun(ScanOf(p, buffer), p, buffer, n, 0)
    BY <2>1, <2>2, <2>3 DEF Begun
  <2>5. QED
    BY <1>7, <2>4
<1>9. ASSUME NEW i \in 1 .. b, i - 1 \in F PROVE i \in F
  <2>1. PICK j \in Nat : j = i - 1 /\ j + 1 = i /\ j + 1 <= n
    BY <1>6
  <2>2. buffer[j + 1] # "lf"
    BY <1>2, <1>3, <1>5, <2>1
  <2>3. Begun(scanned[j], p, buffer, n, j)
    BY <1>9, <2>1
  <2>4. Begun(ReadToken(scanned[j], buffer[j + 1]), p, buffer, n, j + 1)
    BY <1>5, <1>6, <2>1, <2>2, <2>3, BufferRead
  <2>5. scanned[i] = ReadToken(scanned[j], buffer[j + 1])
    <3>1. i \in 1 .. n
      BY <1>6
    <3>2. QED
      BY <1>7, <2>1, <3>1
  <2>6. QED
    BY <2>1, <2>4, <2>5
<1>10. Begun(scanned[b], p, buffer, n, b)
  <2>1. \A i \in 0 .. b : i \in F
    <3> HIDE DEF F
    <3>1. QED
      BY <1>8, <1>9, UpTo, Zenon
  <2>2. QED
    BY <2>1
<1>11. At(scanned[b], body, r, m, r)
  <2>1. SubSeq(buffer, 1, b) = line
    <3>1. /\ SubSeq(buffer, 1, b) \in Seq(Tokens) /\ Len(SubSeq(buffer, 1, b)) = b
          /\ \A j \in 1 .. b : SubSeq(buffer, 1, b)[j] = buffer[j]
      BY <1>5
    <3>2. \A j \in 1 .. b : SubSeq(buffer, 1, b)[j] = line[j]
      BY <1>5, <3>1
    <3>3. QED
      BY <1>2, <1>3, <3>1, <3>2, SeqEqual
  <2>2. SubSeq(buffer, b + 1, n) = fragment
    <3> DEFINE rest == SubSeq(buffer, b + 1, n)
    <3>1. rest \in Seq(Tokens) /\ Len(rest) = d /\ \A j \in 1 .. d : rest[j] = buffer[b + j]
      BY <1>5, <1>6
    <3> HIDE DEF rest
    <3>2. \A j \in 1 .. d : rest[j] = fragment[j]
      BY <1>5, <3>1
    <3>3. rest = fragment
      BY <1>4, <3>1, <3>2, SeqEqual
    <3>4. QED
      BY <3>3 DEF rest
  <2>3. Complete(Read(body, r)) \o <<>> = Complete(Read(body, r))
    <3>1. Complete(Read(body, r)) \in Seq(SoundEvent)
      BY <1>1, SaidBefore
    <3>2. QED
      BY <3>1, ConcatEmptySeq
  <2>4. NoDone(<<>>)
    BY DEF NoDone
  <2>5. /\ line = OpenLine(Read(body, r)) /\ p.eventLines \in Seq(Seq(Tokens))
        /\ Data(p.eventLines) = Data(OpenGroup(Read(body, r)))
    BY DEF Follows, line
  <2>6. QED
    BY <1>10, <2>1, <2>2, <2>3, <2>4, <2>5 DEF At, Begun, fragment
<1> DEFINE G == {j \in 0 .. d : Scanned(scanned[b + j], body, r, m, r + j)}
<1>12. 0 \in G
  <2>1. b + 0 = b /\ r + 0 = r /\ 0 \in 0 .. d
    OBVIOUS
  <2>2. Scanned(scanned[b], body, r, m, r)
    BY <1>11 DEF Scanned
  <2>3. QED
    BY <2>1, <2>2
<1>13. ASSUME NEW i \in 1 .. d, i - 1 \in G PROVE i \in G
  <2>1. PICK j \in Nat, k \in Nat : /\ j = i - 1 /\ j + 1 = i /\ k = r + j /\ k + 1 = r + i
                                    /\ r <= k /\ k + 1 <= m
    <3>1. i - 1 \in Nat /\ r + (i - 1) \in Nat /\ (i - 1) + 1 = i /\ (r + (i - 1)) + 1 = r + i
          /\ r <= r + (i - 1) /\ r + i <= m
      BY <1>3
    <3>2. QED
      BY <3>1
  <2>2. Scanned(scanned[b + j], body, r, m, k)
    BY <1>13, <2>1
  <2>3. Scanned(ReadToken(scanned[b + j], body[k + 1]), body, r, m, k + 1)
    BY <2>1, <2>2, TokenRead
  <2>4. scanned[b + i] = ReadToken(scanned[b + j], body[k + 1])
    <3>1. b + i \in 1 .. n /\ (b + i) - 1 = b + j
      BY <1>6, <2>1
    <3>2. scanned[b + i] = ReadToken(scanned[(b + i) - 1], buffer[b + i])
      BY <1>7, <3>1, Zenon
    <3>3. buffer[b + i] = body[r + i]
      BY <1>4, <1>5
    <3>4. QED
      BY <2>1, <3>1, <3>2, <3>3
  <2>5. QED
    BY <2>1, <2>3, <2>4
<1>14. Scanned(scanned[b + d], body, r, m, r + d)
  <2>1. \A j \in 0 .. d : j \in G
    <3> HIDE DEF G
    <3>1. QED
      BY <1>12, <1>13, UpTo, Zenon
  <2>2. QED
    BY <2>1
<1>15. QED
  BY <1>3, <1>6, <1>7, <1>14 DEF buffer, line, fragment

(* What a fragment makes of a parser that has read the body as far as r: it reads on to m,
   gives up, or comes to the [DONE]. *)
ReadsOn(fed, body, r, m) ==
    /\ fed.events \in Seq(SoundEvent) /\ NoDone(fed.events)
    /\ Follows(fed.parser, Read(body, m))
    /\ Complete(Read(body, m)) = Complete(Read(body, r)) \o fed.events
GivesUp(fed, body, r) == \E e \in Seq(SoundEvent) : GaveUp(e, fed.events, body, r)
ComesToDone(fed, body, r, m) == \E k \in r + 1 .. m, e \in Seq(SoundEvent) : HasEnded(k, e, fed.events, body, r, m)

(* These are all: the parser says what the body says there, whatever it held back before. *)
LEMMA FeedReads ==
    ASSUME NEW body \in Seq(Tokens), NEW r \in Nat, NEW m \in Nat, r <= m, m <= Len(body),
           NEW p, Follows(p, Read(body, r)), capability.toolCalls \in BOOLEAN,
           NEW fed, fed = Feed(p, SubSeq(body, r + 1, m))
    PROVE  ReadsOn(fed, body, r, m) \/ GivesUp(fed, body, r) \/ ComesToDone(fed, body, r, m)
<1> DEFINE buffer == p.buffer \o SubSeq(body, r + 1, m)
           s == Scan(p, buffer)
<1>1. fed = IF Bytes(buffer) > MaxBuffer THEN [events |-> Oversized, parser |-> NewParser]
            ELSE [events |-> s.events,
                  parser |-> [buffer |-> s.line, eventLines |-> s.lines, eventByteCount |-> s.bytes, isDone |-> s.done]]
  BY DEF Feed, Follows
<1>2. Scanned(s, body, r, m, m)
  BY ScanReads
<1> HIDE DEF s, buffer
<1>3. CASE Bytes(buffer) > MaxBuffer
  <2>1. fed.events = Oversized
    BY <1>1, <1>3
  <2>2. PICK e \in Seq(SoundEvent) : e = <<>>
    <3>1. <<>> \in Seq(SoundEvent)
      OBVIOUS
    <3>2. QED
      BY <3>1, Zenon
  <2>3. r \in 0 .. Len(body)
    OBVIOUS
  <2>4. Complete(Read(body, r)) \o e = Complete(Read(body, r)) /\ e \o Oversized = Oversized
    <3>1. Complete(Read(body, r)) \in Seq(SoundEvent) /\ Oversized \in Seq(SoundEvent)
      BY <2>3, SaidBefore, OwnEvents
    <3>2. QED
      BY <2>2, <3>1, ConcatEmptySeq
  <2>5. GaveUp(e, fed.events, body, r)
    <3>1. NoDone(e)
      BY <2>2 DEF NoDone
    <3>2. \E rest \in Seq(SoundEvent) : BodyEvents(body) = (Complete(Read(body, r)) \o e) \o rest
      BY <2>3, <2>4, SaidBefore
    <3>3. QED
      BY <2>1, <2>4, <3>1, <3>2 DEF GaveUp
  <2>6. QED
    BY <2>5 DEF GivesUp
<1>4. CASE ~(Bytes(buffer) > MaxBuffer)
  <2>1. /\ fed.events = s.events
        /\ fed.parser = [buffer |-> s.line, eventLines |-> s.lines, eventByteCount |-> s.bytes, isDone |-> s.done]
    BY <1>1, <1>4
  <2>2. CASE At(s, body, r, m, m)
    <3>1. Follows(fed.parser, Read(body, m))
      BY <2>1, <2>2 DEF At, Follows, ParserFields
    <3>2. s.events \in Seq(SoundEvent) /\ NoDone(s.events)
          /\ Complete(Read(body, m)) = Complete(Read(body, r)) \o s.events
      BY <2>2 DEF At, SoundScan
    <3>3. QED
      BY <2>1, <3>1, <3>2 DEF ReadsOn
  <2>3. CASE Large(s, body, r)
    BY <2>1, <2>3 DEF Large, GivesUp
  <2>4. CASE Finished(s, body, r, m)
    BY <2>1, <2>4 DEF Finished, ComesToDone
  <2>5. QED
    BY <1>2, <2>2, <2>3, <2>4 DEF Scanned
<1>5. QED
  BY <1>3, <1>4

(* What a body says up to its [DONE]. *)
LEMMA SaysOf ==
    ASSUME NEW body \in Seq(Tokens), NEW X \in Seq(SoundEvent), NEW rest \in Seq(SoundEvent), NoDone(X),
           BodyEvents(body) = (X \o <<DoneEvent>>) \o rest
    PROVE  /\ UpToDone(BodyEvents(body)) = X \o <<DoneEvent>>
           /\ SaysDone(body) <=> Failing(X) = {}
           /\ Failing(X \o <<DoneEvent>>) = {} <=> Failing(X) = {}
<1> DEFINE D == X \o <<DoneEvent>>
<1>1. UpToDone(BodyEvents(body)) = D
  BY UpToDoneStops
<1>2. DoneEvent \in SoundEvent /\ DoneEvent.type = "done" /\ <<DoneEvent>> \in Seq(SoundEvent)
  BY DEF SoundEvent, DoneEvent
<1>3. Failing(<<DoneEvent>>) = {}
  BY <1>2 DEF Failing, StreamErrors
<1>4. Failing(D) = {} <=> Failing(X) = {}
  BY <1>2, <1>3, NoneOfJoined
<1>5. D = Append(X, DoneEvent) /\ D # <<>> /\ Last(D) = DoneEvent
  <2>1. D = Append(X, DoneEvent)
    <3> HIDE DEF SoundEvent, DoneEvent
    <3>1. QED
      BY <1>2, AppendIsConcat
  <2>2. Last(Append(X, DoneEvent)) = DoneEvent
    BY <1>2, FrontLast
  <2>3. Append(X, DoneEvent) # <<>>
    <3> HIDE DEF SoundEvent, DoneEvent
    <3>1. QED
      BY <1>2, AppendProperties, SMTT(60)
  <2>4. QED
    BY <2>1, <2>2, <2>3
<1> HIDE DEF D
<1>6. SaysDone(body) <=> Failing(D) = {}
  BY <1>1, <1>2, <1>5 DEF SaysDone
<1>7. QED
  BY <1>1, <1>4, <1>6 DEF D

(* What the caller may be told of a body: FragmentationIsInvisible of a closed stream. *)
Told(body, heard, ending) ==
    LET all == HandedOn(UpToDone(BodyEvents(body)))
    IN /\ IsPrefix(heard, all)
       /\ ending.state = "completed" => SaysDone(body) /\ heard = all
       /\ EndsWithDone(body) => ending.state = "completed" \/ ending.why \in {"size", "oversized"}

(* Where what was handed on is heard of events the body says, an error may follow if the body
   has a fault there, or was too large. *)
LEMMA FailsTold ==
    ASSUME NEW body \in Seq(Tokens), NEW A \in Seq(SoundEvent), NEW e \in Seq(SoundEvent), NEW rest \in Seq(SoundEvent),
           Failing(A) = {}, NoDone(A), NoDone(e), BodyEvents(body) = (A \o e) \o rest,
           NEW ending, ending.state = "failed",
           Failing(e) # {} \/ ending.why \in {"size", "oversized"}
    PROVE  Told(body, HandedOn(A) \o HandedOn(e), ending)
<1>1. A \o e \in Seq(SoundEvent) /\ NoDone(A \o e)
  <2>1. NoDone(A \o e)
    BY NoneOfJoined
  <2>2. QED
    BY <2>1
<1>2. PICK more \in Seq(SoundEvent) : UpToDone(BodyEvents(body)) = (A \o e) \o more
  <2>1. PICK said \in Seq(SoundEvent) : said = A \o e
    BY <1>1
  <2>2. NoDone(said) /\ BodyEvents(body) = said \o rest
    BY <1>1, <2>1
  <2>3. \E more \in Seq(SoundEvent) : UpToDone(said \o rest) = said \o more
    BY <2>2, UpToDoneKeeps
  <2>4. QED
    BY <2>1, <2>2, <2>3
<1>3. HandedOn(A \o e) = HandedOn(A) \o HandedOn(e) /\ HandedOn(A \o e) \in Seq(HarmlessChoices)
  BY <1>1, HeardOn, HandedOnIsHarmless
<1>4. IsPrefix(HandedOn(A) \o HandedOn(e), HandedOn(UpToDone(BodyEvents(body))))
  <2>1. PICK r \in Seq(HarmlessChoices) : HandedOn((A \o e) \o more) = HandedOn(A \o e) \o r
    BY <1>1, HeardIsPrefix
  <2>2. IsPrefix(HandedOn(A \o e), HandedOn(A \o e) \o r)
    BY <1>3, PrefixOfJoined
  <2>3. QED
    BY <1>2, <1>3, <2>1, <2>2
<1>5. Failing(e) # {} => ~EndsWithDone(body)
  <2>1. Failing((A \o e) \o more) = {} => Failing(A \o e) = {}
    BY <1>1, NoneOfJoined
  <2>2. Failing(A \o e) = {} => Failing(e) = {}
    BY NoneOfJoined
  <2>3. SaysDone(body) => Failing((A \o e) \o more) = {}
    BY <1>2 DEF SaysDone
  <2>4. QED
    BY <2>1, <2>2, <2>3 DEF EndsWithDone
<1>6. QED
  BY <1>4, <1>5 DEF Told

(* Of no events nothing is handed on. *)
LEMMA HeardNothing == HandedOn(<<>>) = <<>>
<1>1. 0 \in Nat /\ 0 = Len(<<>>)
  OBVIOUS
<1>2. PICK heard : heard[0] = <<>> /\ HandedOn(<<>>) = heard[0]
  BY <1>1, HearSteps
<1>3. QED
  BY <1>2

(* How events end a call. *)
LEMMA SettledHow ==
    ASSUME NEW events, NEW failing, Settle(events, failing)
    PROVE  \/ /\ failing # {} /\ stage' = "closed" /\ answer'.state = "failed"
              /\ events[Min(failing)].type = "error" => answer'.why = events[Min(failing)].why
           \/ failing = {} /\ ~NoDone(events) /\ stage' = "closed" /\ answer' = Completed
           \/ failing = {} /\ NoDone(events) /\ UNCHANGED <<stage, answer>>
<1>1. CASE failing # {}
  BY <1>1 DEF Settle, Close, StreamFails, Answered
<1>2. CASE failing = {} /\ ~NoDone(events)
  BY <1>2 DEF Settle, Close, NoDone
<1>3. CASE failing = {} /\ NoDone(events)
  BY <1>3 DEF Settle, NoDone
<1>4. QED
  BY <1>1, <1>2, <1>3

(* The events of a parser that gave up: those before, and the error. *)
LEMMA OversizedFails ==
    ASSUME NEW e \in Seq(SoundEvent)
    PROVE  /\ e \o Oversized \in Seq(SoundEvent) /\ Failing(e \o Oversized) # {}
           /\ HandedOn(e \o Oversized) = HandedOn(e)
           /\ Failing(e) = {} =>
                 LET first == (e \o Oversized)[Min(Failing(e \o Oversized))]
                 IN first.type = "error" /\ first.why = "oversized"
<1> DEFINE C == e \o Oversized
           error == OwnError("stream_error", "oversized")
<1>1. Oversized = <<error>> /\ error.type = "error" /\ error.why = "oversized" /\ Oversized \in Seq(SoundEvent)
  BY OwnEvents DEF Oversized, OwnError
<1> HIDE DEF error
<1>2. Oversized[1] = error /\ DOMAIN Oversized = {1} /\ Len(Oversized) = 1
  BY <1>1
<1>3. Failing(Oversized) = {1}
  BY <1>1, <1>2 DEF Failing, StreamErrors
<1>4. \A i \in DOMAIN Oversized : Oversized[i].type # "chunk"
  BY <1>1, <1>2
<1>5. PICK a \in Nat, b \in Nat : a = Len(e) /\ b = Len(Oversized) /\ b = 1
  BY <1>2
<1>6. C \in Seq(SoundEvent) /\ \A i \in 1 .. b : C[a + i] = Oversized[i]
  BY <1>1, <1>5, Joined
<1>7. Failing(C) # {} /\ HandedOn(C) = HandedOn(e)
  BY <1>1, <1>3, <1>4, NoneOfJoined, HeardNoMore
<1>8. ASSUME Failing(e) = {} PROVE C[Min(Failing(C))] = error
  <2>1. /\ \A i \in 1 .. a : i \in Failing(C) <=> i \in Failing(e)
        /\ Failing(C) \subseteq 1 .. a + b
    BY <1>1, <1>5, FailingJoined
  <2> HIDE DEF C
  <2>2. Failing(C) = {a + 1}
    BY <1>5, <1>7, <1>8, <2>1
  <2>3. Min(Failing(C)) = a + 1
    <3>1. Failing(C) \in SUBSET Nat
      BY <2>2
    <3>2. Min(Failing(C)) \in Failing(C)
      BY <1>7, <3>1, LeastOf
    <3>3. QED
      BY <2>2, <3>2
  <2>4. QED
    BY <1>2, <1>5, <1>6, <2>3
<1>9. QED
  BY <1>1, <1>6, <1>7, <1>8 DEF C

(* What a fragment leads to. *)
LEMMA ToldOfGivenUp ==
    ASSUME NEW body \in Seq(Tokens), NEW r \in 0 .. Len(body), capability.toolCalls \in BOOLEAN,
           Failing(Complete(Read(body, r))) = {}, NoDone(Complete(Read(body, r))),
           NEW events, NEW e \in Seq(SoundEvent), GaveUp(e, events, body, r),
           Settle(events, Failing(events))
    PROVE  stage' = "closed" /\ Told(body, HandedOn(Complete(Read(body, r))) \o HandedOn(events), answer')
<1>1. events = e \o Oversized /\ NoDone(e)
  BY DEF GaveUp
<1>2. PICK A \in Seq(SoundEvent) : A = Complete(Read(body, r))
  BY SaidBefore
<1>3. PICK rest \in Seq(SoundEvent) : BodyEvents(body) = (A \o e) \o rest
  BY <1>2 DEF GaveUp
<1>4. /\ Failing(events) # {} /\ HandedOn(events) = HandedOn(e)
      /\ Failing(e) = {} => events[Min(Failing(events))].type = "error" /\ events[Min(Failing(events))].why = "oversized"
  BY <1>1, OversizedFails
<1>5. /\ stage' = "closed" /\ answer'.state = "failed"
      /\ events[Min(Failing(events))].type = "error" => answer'.why = events[Min(Failing(events))].why
  BY <1>4, SettledHow
<1>6. Failing(e) # {} \/ answer'.why \in {"size", "oversized"}
  BY <1>4, <1>5
<1>7. Told(body, HandedOn(A) \o HandedOn(e), answer')
  BY <1>1, <1>2, <1>3, <1>5, <1>6, FailsTold
<1>8. QED
  BY <1>2, <1>4, <1>5, <1>7

(* White space after the [DONE] is no trailing event. *)
LEMMA TrailingOf ==
    ASSUME NEW body \in Seq(Tokens), NEW k \in Nat, NEW m \in Nat, k <= m, m <= Len(body),
           White(SubSeq(body, k + 1, Len(body)))
    PROVE  Trailing(SubSeq(body, k + 1, m)) = <<>>
<1>1. PICK n \in Nat : n = Len(body)
  OBVIOUS
<1>2. \A i \in k + 1 .. n : body[i] \in {"lf", "cr"}
  <2> TAKE i \in k + 1 .. n
  <2>1. PICK j \in 1 .. n - k : i = k + j
    <3>1. i - k \in 1 .. n - k /\ i = k + (i - k)
      BY <1>1
    <3>2. QED
      BY <3>1
  <2>2. j \in DOMAIN SubSeq(body, k + 1, n) /\ SubSeq(body, k + 1, n)[j] = body[k + j]
    BY <1>1
  <2>3. QED
    BY <1>1, <2>1, <2>2 DEF White
<1>3. White(SubSeq(body, k + 1, m))
  <2>1. \A j \in DOMAIN SubSeq(body, k + 1, m) : k + j \in k + 1 .. n /\ SubSeq(body, k + 1, m)[j] = body[k + j]
    BY <1>1
  <2>2. QED
    BY <1>2, <2>1 DEF White
<1>4. QED
  BY <1>3 DEF Trailing

(* What trails the [DONE] holds no chunk. *)
LEMMA NotAChunk ==
    ASSUME NEW tokens
    PROVE  Trailing(tokens) \in Seq(SoundEvent) /\ \A i \in DOMAIN Trailing(tokens) : Trailing(tokens)[i].type # "chunk"
<1> DEFINE error == OwnError("stream_error", "trailing")
<1>1. error.type = "error"
  BY DEF OwnError
<1>2. Trailing(tokens) \in {<<>>, <<error>>}
  BY DEF Trailing
<1> HIDE DEF error
<1>3. QED
  BY <1>1, <1>2, OwnEvents

(* What the caller is told when the body comes to its [DONE]. *)
LEMMA ToldOfEnded ==
    ASSUME NEW body \in Seq(Tokens), NEW r \in 0 .. Len(body), NEW m \in 0 .. Len(body), capability.toolCalls \in BOOLEAN,
           Failing(Complete(Read(body, r))) = {}, NoDone(Complete(Read(body, r))),
           NEW events, NEW k \in r + 1 .. m, NEW e \in Seq(SoundEvent), HasEnded(k, e, events, body, r, m),
           Settle(events, Failing(events))
    PROVE  stage' = "closed" /\ Told(body, HandedOn(Complete(Read(body, r))) \o HandedOn(events), answer')
<1>1. PICK A \in Seq(SoundEvent), D \in Seq(SoundEvent), T \in Seq(SoundEvent) :
         /\ A = Complete(Read(body, r)) /\ D = e \o <<DoneEvent>> /\ T = Trailing(SubSeq(body, k + 1, m))
  <2>1. Complete(Read(body, r)) \in Seq(SoundEvent)
    BY SaidBefore
  <2>2. <<DoneEvent>> \in Seq(SoundEvent)
    BY DEF SoundEvent, DoneEvent
  <2>3. Trailing(SubSeq(body, k + 1, m)) \in Seq(SoundEvent)
    BY NotAChunk
  <2>4. e \o <<DoneEvent>> \in Seq(SoundEvent)
    <3> HIDE DEF DoneEvent
    <3>1. QED
      BY <2>2
  <2>5. QED
    BY <2>1, <2>3, <2>4
<1>2. NoDone(e) /\ events = D \o T
  BY <1>1 DEF HasEnded
<1>3. <<DoneEvent>> \in Seq(SoundEvent) /\ ~NoDone(<<DoneEvent>>) /\ Failing(<<DoneEvent>>) = {}
  BY DEF SoundEvent, DoneEvent, NoDone, Failing, StreamErrors
<1>4. PICK X \in Seq(SoundEvent) : X = A \o e
  <2>1. A \o e \in Seq(SoundEvent)
    OBVIOUS
  <2>2. QED
    BY <2>1
<1>5. NoDone(X) /\ (Failing(X) = {} <=> Failing(e) = {})
  BY <1>1, <1>2, <1>4, NoneOfJoined
<1>6. Complete(Read(body, k)) = X \o <<DoneEvent>> /\ k \in 0 .. Len(body)
  BY <1>1, <1>4 DEF HasEnded
<1>7. X \o <<DoneEvent>> = A \o D /\ X \o <<DoneEvent>> \in Seq(SoundEvent)
  <2>1. PICK d \in Seq(SoundEvent) : d = <<DoneEvent>>
    BY <1>3
  <2>2. (A \o e) \o d = A \o (e \o d)
    <3>1. A \in Seq(SoundEvent) /\ e \in Seq(SoundEvent) /\ d \in Seq(SoundEvent)
      BY <1>1, <2>1
    <3>2. QED
      BY <3>1, Associative, ZenonT(60)
  <2>3. X \o d \in Seq(SoundEvent)
    OBVIOUS
  <2>4. QED
    BY <1>1, <1>4, <2>1, <2>2, <2>3
<1>8. /\ UpToDone(BodyEvents(body)) = X \o <<DoneEvent>>
      /\ SaysDone(body) <=> Failing(X) = {}
  <2>1. PICK rest \in Seq(SoundEvent) : BodyEvents(body) = Complete(Read(body, k)) \o rest
    BY <1>6, SaidBefore
  <2>2. QED
    BY <1>5, <1>6, <2>1, SaysOf
<1>9. SaysDone(Read(body, k)) <=> Failing(X) = {}
  <2>1. PICK read \in Seq(Tokens) : read = Read(body, k)
    <3>1. k \in 0 .. Len(body)
      BY <1>6
    <3>2. Read(body, k) \in Seq(Tokens)
      BY <3>1 DEF Read
    <3>3. QED
      BY <3>2
  <2>2. PICK rest \in Seq(SoundEvent) : BodyEvents(read) = Complete(read) \o rest
    <3>1. BodyEvents(read) = Complete(read) \o ParseEventData(Data(FinalGroup(read)))
      BY SaidInTheEnd
    <3>2. ParseEventData(Data(FinalGroup(read))) \in Seq(SoundEvent)
      BY ParsedIsSound
    <3>3. QED
      BY <3>1, <3>2
  <2>3. BodyEvents(read) = (X \o <<DoneEvent>>) \o rest
    BY <1>6, <2>1, <2>2
  <2>4. QED
    BY <1>5, <2>1, <2>3, SaysOf
<1>10. HandedOn(A) \o HandedOn(events) = HandedOn(X \o <<DoneEvent>>)
  <2>1. HandedOn(events) = HandedOn(D)
    <3>1. \A i \in DOMAIN T : T[i].type # "chunk"
      BY <1>1, NotAChunk
    <3>2. HandedOn(D \o T) = HandedOn(D)
      BY <3>1, HeardNoMore
    <3>3. QED
      BY <1>2, <3>2
  <2>2. HandedOn(A \o D) = HandedOn(A) \o HandedOn(D)
    BY <1>1, HeardOn
  <2>3. QED
    BY <1>7, <2>1, <2>2
<1>11. IsPrefix(HandedOn(X \o <<DoneEvent>>), HandedOn(X \o <<DoneEvent>>))
  <2>1. PICK h \in Seq(HarmlessChoices) : h = HandedOn(X \o <<DoneEvent>>)
    BY <1>7, HandedOnIsHarmless
  <2>2. <<>> \in Seq(HarmlessChoices) /\ h \o <<>> = h
    BY ConcatEmptySeq
  <2>3. QED
    BY <2>1, <2>2, PrefixOfJoined
<1>12. ~NoDone(events) /\ (Failing(events) = {} <=> Failing(e) = {} /\ Failing(T) = {})
  <2>1. ~NoDone(D) /\ (Failing(D) = {} <=> Failing(e) = {})
    BY <1>1, <1>3, NoneOfJoined
  <2>2. QED
    BY <1>2, <2>1, NoneOfJoined
<1>13. EndsWithDone(body) => Failing(e) = {} /\ T = <<>>
  <2> SUFFICES ASSUME EndsWithDone(body) PROVE Failing(e) = {} /\ T = <<>>
    OBVIOUS
  <2>1. Failing(X) = {}
    BY <1>8 DEF EndsWithDone
  <2>2. SaysDone(SubSeq(body, 1, k)) /\ k \in DOMAIN body
    BY <1>9, <2>1 DEF Read
  <2>3. White(SubSeq(body, k + 1, Len(body)))
    BY <2>2 DEF EndsWithDone
  <2>4. T = <<>>
    <3>1. k \in Nat /\ m \in Nat /\ k <= m /\ m <= Len(body)
      OBVIOUS
    <3>2. QED
      BY <1>1, <2>3, <3>1, TrailingOf
  <2>5. QED
    BY <1>5, <2>1, <2>4
<1>14. CASE Failing(events) = {}
  <2>1. stage' = "closed" /\ answer' = Completed
    BY <1>12, <1>14, SettledHow
  <2>2. answer'.state = "completed"
    BY <2>1 DEF Completed, Answered
  <2>3. SaysDone(body)
    BY <1>5, <1>8, <1>12, <1>14
  <2>4. QED
    BY <1>1, <1>8, <1>10, <1>11, <2>1, <2>2, <2>3 DEF Told
<1>15. CASE Failing(events) # {}
  <2>1. stage' = "closed" /\ answer'.state = "failed"
    BY <1>15, SettledHow
  <2>2. ~EndsWithDone(body)
    <3>1. Failing(<<>>) = {}
      BY DEF Failing, StreamErrors
    <3>2. QED
      BY <1>12, <1>13, <1>15, <3>1
  <2>3. QED
    BY <1>1, <1>8, <1>10, <1>11, <2>1, <2>2 DEF Told
<1>16. QED
  BY <1>14, <1>15

(* What the caller is told when the body is read on. *)
LEMMA ToldOfReadOn ==
    ASSUME NEW body \in Seq(Tokens), NEW r \in 0 .. Len(body), NEW m \in 0 .. Len(body), capability.toolCalls \in BOOLEAN,
           Failing(Complete(Read(body, r))) = {}, NoDone(Complete(Read(body, r))),
           NEW fed, ReadsOn(fed, body, r, m),
           Settle(fed.events, Failing(fed.events))
    PROVE  \/ /\ UNCHANGED <<stage, answer>>
              /\ Failing(Complete(Read(body, m))) = {} /\ NoDone(Complete(Read(body, m)))
              /\ HandedOn(Complete(Read(body, r))) \o HandedOn(fed.events) = HandedOn(Complete(Read(body, m)))
           \/ stage' = "closed" /\ Told(body, HandedOn(Complete(Read(body, r))) \o HandedOn(fed.events), answer')
<1>1. PICK A \in Seq(SoundEvent), e \in Seq(SoundEvent) : A = Complete(Read(body, r)) /\ e = fed.events
  BY SaidBefore DEF ReadsOn
<1>2. NoDone(e) /\ Complete(Read(body, m)) = A \o e
  BY <1>1 DEF ReadsOn
<1>3. CASE Failing(e) = {}
  <2>1. UNCHANGED <<stage, answer>>
    BY <1>1, <1>2, <1>3, SettledHow
  <2>2. Failing(A \o e) = {} /\ NoDone(A \o e)
    BY <1>1, <1>2, <1>3, NoneOfJoined
  <2>3. HandedOn(A \o e) = HandedOn(A) \o HandedOn(e)
    BY <1>1, HeardOn
  <2>4. QED
    BY <1>1, <1>2, <2>1, <2>2, <2>3
<1>4. CASE Failing(e) # {}
  <2>1. stage' = "closed" /\ answer'.state = "failed"
    BY <1>1, <1>4, SettledHow
  <2>2. PICK rest \in Seq(SoundEvent) : BodyEvents(body) = (A \o e) \o rest
    BY <1>2, SaidBefore
  <2>3. Told(body, HandedOn(A) \o HandedOn(e), answer')
    BY <1>1, <1>2, <1>4, <2>1, <2>2, FailsTold
  <2>4. QED
    BY <1>1, <2>1, <2>3
<1>5. QED
  BY <1>3, <1>4

(* The response is too large, or something else that nobody handed on. *)
LEMMA ToldOfNothing ==
    ASSUME NEW body \in Seq(Tokens), NEW r \in 0 .. Len(body), capability.toolCalls \in BOOLEAN,
           Failing(Complete(Read(body, r))) = {}, NoDone(Complete(Read(body, r))),
           NEW ending, ending.state = "failed", ending.why \in {"size", "oversized"}
    PROVE  Told(body, HandedOn(Complete(Read(body, r))), ending)
<1>1. PICK A \in Seq(SoundEvent), rest \in Seq(SoundEvent) : A = Complete(Read(body, r)) /\ BodyEvents(body) = A \o rest
  BY SaidBefore
<1>2. PICK e \in Seq(SoundEvent) : e = <<>>
  <2>1. <<>> \in Seq(SoundEvent)
    OBVIOUS
  <2>2. QED
    BY <2>1, Zenon
<1>3. A \o e = A
  BY <1>2, ConcatEmptySeq
<1>4. NoDone(e)
  BY <1>2 DEF NoDone
<1>5. BodyEvents(body) = (A \o e) \o rest
  BY <1>1, <1>3
<1>6. Told(body, HandedOn(A) \o HandedOn(e), ending)
  BY <1>1, <1>4, <1>5, FailsTold
<1>7. HandedOn(A) \o HandedOn(e) = HandedOn(A)
  <2>1. HandedOn(A) \in Seq(HarmlessChoices)
    BY HandedOnIsHarmless
  <2>2. HandedOn(e) = <<>>
    BY <1>2, HeardNothing
  <2>3. QED
    BY <2>1, <2>2, ConcatEmptySeq
<1>8. QED
  BY <1>1, <1>6, <1>7

(* What the end of the body makes of a parser that has read all of it: it gives up, or says
   what the last group of lines says. *)
LEMMA FlushReads ==
    ASSUME NEW body \in Seq(Tokens), NEW p, Follows(p, body), capability.toolCalls \in BOOLEAN
    PROVE  Flush(p) \in {Oversized, ParseEventData(Data(FinalGroup(body)))}
<1> DEFINE line == StripCr(p.buffer)
           ends == line # <<>> /\ line[1] # "colon"
           q == [p EXCEPT !.eventLines = IF ends THEN Append(@, line) ELSE @]
           s == ScanOf(q, <<>>)
           content == Data(s.lines)
           said == ParseEventData(content)
           group == OpenGroup(body)
<1>1. line = StripCr(OpenLine(body)) /\ Data(p.eventLines) = Data(group) /\ p.eventLines \in Seq(Seq(Tokens))
  BY DEF Follows
<1>2. line \in Seq(Tokens) /\ group \in Seq(Seq(Tokens))
  <2>1. OpenLine(body) \in Seq(Tokens) /\ group \in Seq(Seq(Tokens))
    BY EndedLines
  <2>2. QED
    BY <1>1, <2>1, StripCrLine
<1>3. q.eventLines = IF ends THEN Append(p.eventLines, line) ELSE p.eventLines
  BY DEF Follows, ParserFields
<1>4. /\ s.lines = q.eventLines /\ s.events = <<>> /\ s.rest = <<>> /\ DOMAIN s = ScanFields
  BY DEF ScanOf, ScanFields
<1>5. Flush(p) = IF s.lines = <<>> THEN <<>> ELSE EventEnds(s).events
  BY DEF Flush, Follows
<1>6. FinalGroup(body) = IF line = <<>> THEN group ELSE Append(group, line)
  BY <1>1 DEF FinalGroup
<1> HIDE DEF line, q, s, group
<1>7. Data(s.lines) = Data(FinalGroup(body))
  <2>1. line # <<>> => Data(Append(group, line)) =
           IF line[1] # "data" THEN Data(group)
           ELSE IF Data(group) = <<>> THEN Tail(line) ELSE Data(group) \o <<"lf">> \o Tail(line)
    BY <1>2, DataAppend
  <2>2. line # <<>> => Data(Append(p.eventLines, line)) =
           IF line[1] # "data" THEN Data(p.eventLines)
           ELSE IF Data(p.eventLines) = <<>> THEN Tail(line) ELSE Data(p.eventLines) \o <<"lf">> \o Tail(line)
    BY <1>1, <1>2, DataAppend
  <2>3. CASE line = <<>>
    BY <1>1, <1>3, <1>4, <1>6, <2>3
  <2>4. CASE line # <<>> /\ line[1] = "colon"
    <3>1. Data(s.lines) = Data(p.eventLines)
      BY <1>3, <1>4, <2>4
    <3>2. Data(FinalGroup(body)) = Data(group)
      BY <1>6, <2>1, <2>4
    <3>3. QED
      BY <1>1, <3>1, <3>2
  <2>5. CASE line # <<>> /\ line[1] # "colon"
    <3>1. Data(s.lines) = Data(Append(p.eventLines, line))
      BY <1>3, <1>4, <2>5
    <3>2. Data(FinalGroup(body)) = Data(Append(group, line))
      BY <1>6, <2>5
    <3>3. QED
      BY <1>1, <2>1, <2>2, <2>5, <3>1, <3>2
  <2>6. QED
    BY <2>3, <2>4, <2>5
<1>8. CASE s.lines = <<>>
  <2>1. ParseEventData(Data(FinalGroup(body))) = <<>>
    BY <1>7, <1>8, NothingRead
  <2>2. QED
    BY <1>5, <1>8, <2>1
<1>9. CASE s.lines # <<>>
  <2> DEFINE emptied == [s EXCEPT !.line = <<>>, !.lines = <<>>, !.bytes = 0]
             large == [emptied EXCEPT !.events = @ \o Oversized, !.over = TRUE, !.rest = <<>>]
             last == [emptied EXCEPT !.events = @ \o said \o Trailing(s.rest), !.over = TRUE, !.done = TRUE, !.rest = <<>>]
             more == [emptied EXCEPT !.events = @ \o said]
  <2>1. EventEnds(s) \in {large, last, more}
    BY DEF EventEnds
  <2>2. emptied.events = <<>> /\ DOMAIN emptied = ScanFields
    BY <1>4 DEF ScanFields
  <2>3. said \in Seq(SoundEvent) /\ Oversized \in Seq(SoundEvent) /\ Trailing(s.rest) = <<>>
    <3>1. Trailing(<<>>) = <<>>
      BY DEF Trailing, White
    <3>2. QED
      BY <1>4, <3>1, ParsedIsSound, OwnEvents
  <2> HIDE DEF emptied, said
  <2>4. /\ large.events = <<>> \o Oversized /\ more.events = <<>> \o said
        /\ last.events = (<<>> \o said) \o Trailing(s.rest)
    BY <2>2 DEF ScanFields
  <2>5. /\ <<>> \o Oversized = Oversized /\ <<>> \o said = said /\ said \o <<>> = said
    BY <2>3, ConcatEmptySeq
  <2> HIDE DEF large, last, more
  <2>6. EventEnds(s).events \in {Oversized, said}
    BY <2>1, <2>3, <2>4, <2>5
  <2>7. said = ParseEventData(Data(FinalGroup(body)))
    BY <1>7 DEF said
  <2>8. QED
    BY <1>5, <1>9, <2>6, <2>7
<1>10. QED
  BY <1>8, <1>9

(* A body that never says [DONE] does not say it. *)
LEMMA NeverDone ==
    ASSUME NEW body, BodyEvents(body) \in Seq(SoundEvent), NoDone(BodyEvents(body))
    PROVE  UpToDone(BodyEvents(body)) = BodyEvents(body) /\ ~SaysDone(body)
<1> DEFINE events == BodyEvents(body)
<1>1. UpToDone(events) = events
  BY DEF UpToDone, NoDone
<1>2. events # <<>> => Last(events).type # "done"
  <2>1. events \in Seq(SoundEvent)
    OBVIOUS
  <2> HIDE DEF events
  <2>2. ASSUME events # <<>> PROVE Last(events) = events[Len(events)] /\ Len(events) \in DOMAIN events
    <3>1. Last(events) = events[Len(events)]
      BY DEF Last
    <3>2. Len(events) \in Nat /\ DOMAIN events = 1..Len(events) /\ Len(events) # 0
      BY <2>1, <2>2
    <3>3. QED
      BY <3>1, <3>2
  <2>3. \A i \in DOMAIN events : events[i].type # "done"
    BY DEF NoDone, events
  <2>4. QED
    BY <2>2, <2>3
<1> HIDE DEF events
<1>3. ~SaysDone(body)
  BY <1>1, <1>2 DEF SaysDone, events
<1>4. QED
  BY <1>1, <1>3 DEF events

(* What the caller is told at the end of the body. *)
LEMMA ToldOfFlushed ==
    ASSUME NEW body \in Seq(Tokens), capability.toolCalls \in BOOLEAN,
           Failing(Complete(body)) = {}, NoDone(Complete(body)),
           NEW events, events = ParseEventData(Data(FinalGroup(body))),
           \/ /\ \A i \in DOMAIN events : events[i].type \notin {"error", "done"}
              /\ stage' = "closed" /\ answer' = StreamFails("stream_error", "premature")
           \/ /\ ~ \A i \in DOMAIN events : events[i].type \notin {"error", "done"}
              /\ Settle(events, StreamErrors(events))
    PROVE  stage' = "closed" /\ Told(body, HandedOn(Complete(body)), answer')
<1>1. PICK A \in Seq(SoundEvent), P \in Seq(SoundEvent) : A = Complete(body) /\ P = events
  <2>1. Complete(body) \in Seq(SoundEvent)
    BY CompleteIsSound
  <2>2. events \in Seq(SoundEvent)
    BY ParsedIsSound
  <2>3. QED
    BY <2>1, <2>2
<1>2. BodyEvents(body) = A \o P
  BY <1>1, SaidInTheEnd
<1>3. PICK h \in Seq(HarmlessChoices) : h = HandedOn(A)
  BY HandedOnIsHarmless
<1>4. CASE P = <<DoneEvent>>
  <2>1. DoneEvent.type = "done" /\ StreamErrors(P) = {} /\ ~NoDone(P)
    BY <1>4 DEF DoneEvent, StreamErrors, NoDone
  <2>2. stage' = "closed" /\ answer' = Completed
    <3>1. ~ \A i \in DOMAIN events : events[i].type \notin {"error", "done"}
      BY <1>1, <2>1 DEF NoDone
    <3>2. QED
      BY <1>1, <2>1, <3>1, SettledHow
  <2>3. PICK rest \in Seq(SoundEvent) : rest = <<>>
    <3>1. <<>> \in Seq(SoundEvent)
      OBVIOUS
    <3>2. QED
      BY <3>1, Zenon
  <2>4. BodyEvents(body) = (A \o <<DoneEvent>>) \o rest
    <3>1. A \o P \in Seq(SoundEvent)
      OBVIOUS
    <3>2. (A \o P) \o <<>> = A \o P
      BY <3>1, ConcatEmptySeq
    <3>3. QED
      BY <1>2, <1>4, <2>3, <3>2
  <2>5. UpToDone(BodyEvents(body)) = A \o <<DoneEvent>> /\ SaysDone(body)
    BY <1>1, <2>4, SaysOf
  <2>6. HandedOn(A \o P) = HandedOn(A)
    <3>1. \A i \in DOMAIN P : P[i].type # "chunk"
      BY <1>4, <2>1
    <3>2. QED
      BY <3>1, HeardNoMore
  <2>7. IsPrefix(h, h)
    <3>1. <<>> \in Seq(HarmlessChoices) /\ h \o <<>> = h
      BY ConcatEmptySeq
    <3>2. QED
      BY <3>1, PrefixOfJoined
  <2>8. answer'.state = "completed"
    BY <2>2 DEF Completed, Answered
  <2>9. HandedOn(UpToDone(BodyEvents(body))) = h
    BY <1>3, <1>4, <2>5, <2>6
  <2>10. QED
    BY <1>1, <1>3, <2>2, <2>5, <2>7, <2>8, <2>9 DEF Told
<1>5. CASE NoDone(P)
  <2>1. BodyEvents(body) \in Seq(SoundEvent) /\ NoDone(BodyEvents(body))
    <3>1. A \o P \in Seq(SoundEvent) /\ NoDone(A \o P)
      <4>1. NoDone(A \o P)
        BY <1>1, <1>5, NoneOfJoined
      <4>2. QED
        BY <4>1
    <3>2. QED
      BY <1>2, <3>1
  <2>2. UpToDone(BodyEvents(body)) = A \o P /\ ~SaysDone(body)
    BY <1>2, <2>1, NeverDone
  <2>3. stage' = "closed" /\ answer'.state = "failed"
    <3>1. CASE answer' = StreamFails("stream_error", "premature") /\ stage' = "closed"
      BY <3>1 DEF StreamFails, Answered
    <3>2. CASE /\ ~ \A i \in DOMAIN events : events[i].type \notin {"error", "done"}
               /\ Settle(events, StreamErrors(events))
      <4>1. StreamErrors(events) # {}
        BY <1>1, <1>5, <3>2 DEF NoDone, StreamErrors
      <4>2. QED
        BY <3>2, <4>1, SettledHow
    <3>3. QED
      BY <3>1, <3>2
  <2>4. PICK r \in Seq(HarmlessChoices) : HandedOn(A \o P) = HandedOn(A) \o r
    BY HeardIsPrefix
  <2>5. IsPrefix(h, h \o r)
    BY PrefixOfJoined
  <2>6. QED
    BY <1>1, <1>3, <2>2, <2>3, <2>4, <2>5 DEF Told, EndsWithDone
<1>6. QED
  BY <1>1, <1>4, <1>5, DoneAlone

(* The stream is being read: its first k tokens have been, and without fault. *)
Reading(k) ==
    /\ left = SubSeq(upstream.body, k + 1, Len(upstream.body))
    /\ Follows(parser, Read(upstream.body, k))
    /\ yielded = HandedOn(Complete(Read(upstream.body, k)))
    /\ Failing(Complete(Read(upstream.body, k))) = {}
    /\ NoDone(Complete(Read(upstream.body, k)))

FragmentIInv ==
    /\ stage = "asked" => parser = NewParser /\ yielded = <<>>
    /\ stage = "sent" /\ request.stream => \E k \in 0 .. Len(upstream.body) : Reading(k)
    /\ FragmentationIsInvisible

(* What a body says depends on the call alone. *)
LEMMA CompleteStaysSo ==
    ASSUME call' = call
    PROVE  \A i : Complete(Read(upstream.body, i))' = Complete(Read(upstream.body, i))
BY DEF Complete, EventsOf, ParseEventData, Refusal, capability, upstream

(* What has been read stays so while nothing is done to it, *)
LEMMA ReadingGoesOn ==
    ASSUME call' = call,
           NEW k, left' = SubSeq(upstream.body, k + 1, Len(upstream.body)),
           Follows(parser', Read(upstream.body, k)),
           yielded' = HandedOn(Complete(Read(upstream.body, k))),
           Failing(Complete(Read(upstream.body, k))) = {},
           NoDone(Complete(Read(upstream.body, k)))
    PROVE  Reading(k)'
<1>1. Complete(Read(upstream.body, k))' = Complete(Read(upstream.body, k))
  BY CompleteStaysSo
<1>2. upstream' = upstream
  BY DEF upstream
<1>3. QED
  BY <1>1, <1>2 DEF Reading

(* and what the caller has been told is what the body says. *)
LEMMA ToldIsInvisible ==
    ASSUME call' = call, Told(upstream.body, yielded', answer')
    PROVE  FragmentationIsInvisible'
<1>1. BodyEvents(upstream.body)' = BodyEvents(upstream.body)
  BY DEF BodyEvents, EventsOf, ParseEventData, Refusal, capability, upstream
<1>2. SaysDone(upstream.body)' = SaysDone(upstream.body)
  BY DEF SaysDone, BodyEvents, EventsOf, ParseEventData, Refusal, capability, upstream
<1>3. EndsWithDone(upstream.body)' = EndsWithDone(upstream.body)
  BY DEF EndsWithDone, SaysDone, BodyEvents, EventsOf, ParseEventData, Refusal, capability, upstream
<1>4. QED
  BY <1>1, <1>2, <1>3 DEF FragmentationIsInvisible, Told

(* A request that is sent has had nothing of its answer read. *)
LEMMA NormalizeRequestFragment ==
    ASSUME call \in AdapterCalls, FragmentIInv, NormalizeRequest
    PROVE  FragmentIInv'
<1>1. call' = call /\ parser' = parser /\ yielded' = yielded /\ stage = "asked" /\ stage' \in {"sent", "closed"}
  BY DEF NormalizeRequest, Close
<1>2. parser = NewParser /\ yielded = <<>>
  BY <1>1 DEF FragmentIInv
<1>3. request' = request /\ upstream' = upstream
  BY <1>1 DEF request, upstream
<1>4. FragmentationIsInvisible'
  <2>1. stage' = "closed" => answer'.state = "refused"
    BY DEF NormalizeRequest, Close, RefusedRequest, Answered
  <2>2. QED
    BY <2>1 DEF FragmentationIsInvisible
<1>5. ASSUME stage' = "sent", request.stream PROVE Reading(0)' /\ 0 \in 0 .. Len(upstream.body)
  <2>1. upstream.body \in Seq(Tokens)
    BY <1>5, CallFacts
  <2>2. left' = upstream.body
    BY <1>5 DEF NormalizeRequest, Close
  <2>3. Read(upstream.body, 0) = <<>>
    BY <2>1 DEF Read
  <2>4. SubSeq(upstream.body, 0 + 1, Len(upstream.body)) = upstream.body
    BY <2>1, SubSeqFull
  <2>5. OpenLine(<<>>) = <<>> /\ OpenGroup(<<>>) = <<>> /\ Complete(<<>>) = <<>>
    BY NothingRead
  <2>6. Follows(parser', <<>>)
    <3>1. <<>> \in Seq(Seq(Tokens))
      OBVIOUS
    <3>2. QED
      BY <1>1, <1>2, <2>5, <3>1 DEF Follows, NewParser, ParserFields
  <2>7. HandedOn(<<>>) = <<>> /\ Failing(<<>>) = {} /\ NoDone(<<>>)
    BY HeardNothing DEF Failing, StreamErrors, NoDone
  <2>8. Reading(0)'
    <3>1. left' = SubSeq(upstream.body, 0 + 1, Len(upstream.body))
      BY <2>2, <2>4
    <3>2. Follows(parser', Read(upstream.body, 0))
      BY <2>3, <2>6
    <3>3. Complete(Read(upstream.body, 0)) = <<>>
      BY <2>3, <2>5
    <3>4. yielded' = HandedOn(Complete(Read(upstream.body, 0)))
      BY <1>1, <1>2, <2>7, <3>3
    <3>5. Failing(Complete(Read(upstream.body, 0))) = {} /\ NoDone(Complete(Read(upstream.body, 0)))
      BY <2>7, <3>3
    <3>6. QED
      BY <1>1, <3>1, <3>2, <3>4, <3>5, ReadingGoesOn
  <2>9. QED
    BY <2>1, <2>8
<1>6. QED
  BY <1>1, <1>3, <1>4, <1>5 DEF FragmentIInv

(* The d tokens of a body after the first r. *)
IsPart(part, body, r, d) == part \in Seq(Tokens) /\ Len(part) = d /\ \A i \in 1 .. d : part[i] = body[r + i]

(* A part of the body is what stands there. *)
LEMMA PartOf ==
    ASSUME NEW body \in Seq(Tokens), NEW r \in Nat, NEW m \in Nat, NEW d \in Nat, m = r + d, m <= Len(body),
           NEW part, part = SubSeq(body, r + 1, m)
    PROVE  IsPart(part, body, r, d)
<1>1. PICK n \in Nat : n = Len(body)
  OBVIOUS
<1>2. /\ SubSeq(body, r + 1, m) \in Seq(Tokens) /\ Len(SubSeq(body, r + 1, m)) = d
      /\ \A i \in 1 .. d : SubSeq(body, r + 1, m)[i] = body[r + i]
  <2>1. SubSeq(body, r + 1, m) \in Seq(Tokens)
    BY <1>1
  <2>2. Len(SubSeq(body, r + 1, m)) = d
    BY <1>1
  <2>3. ASSUME NEW i \in 1 .. d PROVE SubSeq(body, r + 1, m)[i] = body[r + i]
    BY <1>1
  <2>4. QED
    BY <2>1, <2>2, <2>3
<1>3. QED
  BY <1>2 DEF IsPart

(* A part of what is left is a part of the body. *)
LEMMA PartOfRest ==
    ASSUME NEW body \in Seq(Tokens), NEW r \in Nat, NEW s \in Nat, NEW n \in Nat, s = Len(body), r <= s,
           NEW rest, rest = SubSeq(body, r + 1, s), n <= Len(rest)
    PROVE  /\ r + n <= s
           /\ SubSeq(rest, 1, n) = SubSeq(body, r + 1, r + n)
           /\ SubSeq(rest, n + 1, Len(rest)) = SubSeq(body, (r + n) + 1, s)
<1>1. PICK d \in Nat : s = r + d
  <2>1. s - r \in Nat /\ s = r + (s - r)
    OBVIOUS
  <2>2. QED
    BY <2>1
<1>2. rest \in Seq(Tokens) /\ Len(rest) = d /\ \A i \in 1 .. d : rest[i] = body[r + i]
  <2>1. s <= Len(body)
    OBVIOUS
  <2>2. IsPart(rest, body, r, d)
    BY <1>1, <2>1, PartOf
  <2>3. QED
    BY <2>2 DEF IsPart
<1>3. PICK f \in Nat : d = n + f
  <2>1. d - n \in Nat /\ d = n + (d - n)
    BY <1>2
  <2>2. QED
    BY <2>1
<1>4. SubSeq(rest, 1, n) = SubSeq(body, r + 1, r + n)
  <2> DEFINE a == SubSeq(rest, 1, n)
             b == SubSeq(body, r + 1, r + n)
  <2>1. a \in Seq(Tokens) /\ Len(a) = n /\ \A i \in 1 .. n : a[i] = rest[i]
    BY <1>2, <1>3
  <2>2. b \in Seq(Tokens) /\ Len(b) = n /\ \A i \in 1 .. n : b[i] = body[r + i]
    <3>1. r + n \in Nat /\ r + n <= Len(body)
      BY <1>1, <1>3
    <3> HIDE DEF b
    <3>2. IsPart(b, body, r, n)
      BY <3>1, PartOf DEF b
    <3>3. QED
      BY <3>2 DEF IsPart
  <2>3. \A i \in 1 .. n : a[i] = b[i]
    <3> HIDE DEF a, b
    <3>1. QED
      BY <1>2, <1>3, <2>1, <2>2, SMTT(60)
  <2> HIDE DEF a, b
  <2>4. a = b
    BY <2>1, <2>2, <2>3, SeqEqual
  <2>5. QED
    BY <2>4 DEF a, b
<1>5. SubSeq(rest, n + 1, Len(rest)) = SubSeq(body, (r + n) + 1, s)
  <2> DEFINE a == SubSeq(rest, n + 1, d)
             b == SubSeq(body, (r + n) + 1, s)
  <2>1. a \in Seq(Tokens) /\ Len(a) = f /\ \A i \in 1 .. f : a[i] = rest[n + i]
    BY <1>2, <1>3
  <2>2. b \in Seq(Tokens) /\ Len(b) = f /\ \A i \in 1 .. f : b[i] = body[r + n + i]
    <3>1. PICK m \in Nat : m = r + n
      OBVIOUS
    <3>2. s = m + f /\ s <= Len(body)
      BY <1>1, <1>3, <3>1
    <3>3. b = SubSeq(body, m + 1, s)
      BY <3>1
    <3> HIDE DEF b
    <3>4. IsPart(b, body, m, f)
      BY <3>2, <3>3, PartOf
    <3>5. QED
      BY <3>1, <3>4 DEF IsPart
  <2>3. \A i \in 1 .. f : a[i] = b[i]
    <3> HIDE DEF a, b
    <3> TAKE i \in 1 .. f
    <3>1. n + i \in 1 .. d /\ r + (n + i) = r + n + i
      BY <1>3
    <3>2. rest[n + i] = body[r + (n + i)]
      BY <1>2, <3>1
    <3>3. QED
      BY <2>1, <2>2, <3>1, <3>2
  <2> HIDE DEF a, b
  <2>4. a = b
    BY <2>1, <2>2, <2>3, SeqEqual
  <2>5. QED
    BY <1>2, <2>4 DEF a, b
<1>6. QED
  BY <1>1, <1>2, <1>3, <1>4, <1>5

(* A fragment is read, or ends the call as the body says. *)
LEMMA FragmentArrivesFragment ==
    ASSUME call \in AdapterCalls, FragmentIInv, NEW n \in 1 .. Len(left), FragmentArrives(n)
    PROVE  FragmentIInv'
<1> DEFINE body == upstream.body
           fed == Feed(parser, SubSeq(left, 1, n))
<1>1. call' = call /\ request.stream /\ stage = "sent" /\ left' = SubSeq(left, n + 1, Len(left))
  BY DEF FragmentArrives
<1>2. request' = request /\ upstream' = upstream
  BY <1>1 DEF request, upstream
<1>3. body \in Seq(Tokens) /\ capability.toolCalls \in BOOLEAN
  BY <1>1, CallFacts
<1>4. PICK s \in Nat : s = Len(body)
  BY <1>3
<1>5. PICK r \in 0 .. s : Reading(r)
  BY <1>1, <1>4 DEF FragmentIInv
<1>6. /\ left = SubSeq(body, r + 1, s) /\ Follows(parser, Read(body, r))
      /\ yielded = HandedOn(Complete(Read(body, r)))
      /\ Failing(Complete(Read(body, r))) = {} /\ NoDone(Complete(Read(body, r)))
  BY <1>4, <1>5 DEF Reading
<1>7. PICK m \in Nat : m = r + n
  <2>1. n \in Nat /\ r \in Nat
    OBVIOUS
  <2>2. QED
    BY <2>1
<1>8. /\ r \in Nat /\ r <= s /\ m \in 0 .. s /\ r <= m /\ m <= s
      /\ SubSeq(left, 1, n) = SubSeq(body, r + 1, m)
      /\ SubSeq(left, n + 1, Len(left)) = SubSeq(body, m + 1, s)
  <2>1. n \in Nat /\ n <= Len(left) /\ r \in Nat /\ r <= s
    <3>1. Len(left) \in Nat
      BY <1>3, <1>4, <1>6
    <3>2. QED
      BY <3>1
  <2>2. /\ r + n <= s /\ SubSeq(left, 1, n) = SubSeq(body, r + 1, r + n)
        /\ SubSeq(left, n + 1, Len(left)) = SubSeq(body, (r + n) + 1, s)
    BY <1>3, <1>4, <1>6, <2>1, PartOfRest, SMTT(60)
  <2>3. QED
    BY <1>7, <2>1, <2>2
<1>9. r \in 0 .. Len(body) /\ m \in 0 .. Len(body)
  BY <1>4, <1>8
<1> HIDE DEF body, fed
<1>10. CASE /\ Close(StreamFails("response_too_large", "size"))
            /\ UNCHANGED <<parser, yielded>>
  <2>1. answer' = StreamFails("response_too_large", "size") /\ stage' = "closed"
    BY <1>10 DEF Close
  <2>2. answer'.state = "failed" /\ answer'.why \in {"size", "oversized"}
    BY <2>1 DEF StreamFails, Answered
  <2>3. Told(body, HandedOn(Complete(Read(body, r))), answer')
    BY <1>3, <1>6, <1>9, <2>2, ToldOfNothing
  <2>4. Told(body, yielded', answer')
    BY <1>6, <1>10, <2>3
  <2>5. QED
    BY <1>1, <2>1, <2>4, ToldIsInvisible DEF FragmentIInv, body
<1>11. CASE /\ parser' = fed.parser
            /\ yielded' = yielded \o HandedOn(fed.events)
            /\ Settle(fed.events, Failing(fed.events))
  <2>1. fed = Feed(parser, SubSeq(body, r + 1, m))
    BY <1>8 DEF fed
  <2>2. ReadsOn(fed, body, r, m) \/ GivesUp(fed, body, r) \/ ComesToDone(fed, body, r, m)
    BY <1>3, <1>4, <1>6, <1>8, <2>1, FeedReads
  <2>3. yielded' = HandedOn(Complete(Read(body, r))) \o HandedOn(fed.events)
    BY <1>6, <1>11
  <2>4. CASE stage' = "closed" /\ Told(body, yielded', answer')
    BY <1>1, <2>4, ToldIsInvisible DEF FragmentIInv, body
  <2>5. CASE ReadsOn(fed, body, r, m)
    <3>1. \/ /\ UNCHANGED <<stage, answer>>
             /\ Failing(Complete(Read(body, m))) = {} /\ NoDone(Complete(Read(body, m)))
             /\ HandedOn(Complete(Read(body, r))) \o HandedOn(fed.events) = HandedOn(Complete(Read(body, m)))
          \/ stage' = "closed" /\ Told(body, HandedOn(Complete(Read(body, r))) \o HandedOn(fed.events), answer')
      BY <1>3, <1>6, <1>9, <1>11, <2>5, ToldOfReadOn
    <3>2. CASE /\ UNCHANGED <<stage, answer>>
               /\ Failing(Complete(Read(body, m))) = {} /\ NoDone(Complete(Read(body, m)))
               /\ HandedOn(Complete(Read(body, r))) \o HandedOn(fed.events) = HandedOn(Complete(Read(body, m)))
      <4>1. Follows(parser', Read(body, m))
        BY <1>11, <2>5 DEF ReadsOn
      <4>2. left' = SubSeq(body, m + 1, Len(body)) /\ yielded' = HandedOn(Complete(Read(body, m)))
        BY <1>1, <1>4, <1>8, <2>3, <3>2
      <4>3. Reading(m)'
        BY <1>1, <3>2, <4>1, <4>2, ReadingGoesOn DEF body
      <4>4. (\E k \in 0 .. Len(upstream.body) : Reading(k))'
        BY <1>2, <1>9, <4>3 DEF body
      <4>5. stage' = "sent"
        BY <1>1, <3>2
      <4>6. QED
        BY <4>4, <4>5 DEF FragmentIInv, FragmentationIsInvisible
    <3>3. QED
      BY <2>3, <2>4, <3>1, <3>2
  <2>6. CASE GivesUp(fed, body, r)
    <3>1. PICK e \in Seq(SoundEvent) : GaveUp(e, fed.events, body, r)
      BY <2>6 DEF GivesUp
    <3>2. stage' = "closed" /\ Told(body, HandedOn(Complete(Read(body, r))) \o HandedOn(fed.events), answer')
      BY <1>3, <1>6, <1>9, <1>11, <3>1, ToldOfGivenUp
    <3>3. QED
      BY <2>3, <2>4, <3>2
  <2>7. CASE ComesToDone(fed, body, r, m)
    <3>1. PICK k \in r + 1 .. m, e \in Seq(SoundEvent) : HasEnded(k, e, fed.events, body, r, m)
      BY <2>7 DEF ComesToDone
    <3>2. stage' = "closed" /\ Told(body, HandedOn(Complete(Read(body, r))) \o HandedOn(fed.events), answer')
      BY <1>3, <1>6, <1>9, <1>11, <3>1, ToldOfEnded
    <3>3. QED
      BY <2>3, <2>4, <3>2
  <2>8. QED
    BY <2>2, <2>5, <2>6, <2>7
<1>12. QED
  BY <1>10, <1>11 DEF FragmentArrives, fed

(* The end of the body ends the call as the body says. *)
LEMMA BodyEndsFragment ==
    ASSUME call \in AdapterCalls, FragmentIInv, BodyEnds
    PROVE  FragmentIInv'
<1> DEFINE body == upstream.body
           events == Flush(parser)
<1>1. call' = call /\ request.stream /\ stage = "sent" /\ left = <<>> /\ yielded' = yielded
  BY DEF BodyEnds
<1>2. body \in Seq(Tokens) /\ capability.toolCalls \in BOOLEAN
  BY <1>1, CallFacts
<1>3. PICK s \in Nat : s = Len(body)
  BY <1>2
<1>4. PICK r \in 0 .. s : Reading(r)
  BY <1>1, <1>3 DEF FragmentIInv
<1>5. /\ left = SubSeq(body, r + 1, s) /\ Follows(parser, Read(body, r))
      /\ yielded = HandedOn(Complete(Read(body, r)))
      /\ Failing(Complete(Read(body, r))) = {} /\ NoDone(Complete(Read(body, r)))
  BY <1>3, <1>4 DEF Reading
<1>6. r = s
  <2>1. PICK d \in Nat : d = s - r /\ s = r + d /\ r \in Nat /\ s <= s
    <3>1. s - r \in Nat /\ s = r + (s - r) /\ r \in Nat /\ s <= s
      OBVIOUS
    <3>2. QED
      BY <3>1
  <2>2. Len(left) = d
    <3>1. IsPart(left, body, r, d)
      BY <1>2, <1>3, <1>5, <2>1, PartOf
    <3>2. QED
      BY <3>1 DEF IsPart
  <2>3. d = 0
    BY <1>1, <1>5, <2>2
  <2>4. QED
    BY <2>1, <2>3
<1>7. Read(body, r) = body
  BY <1>2, <1>3, <1>6, SubSeqFull DEF Read
<1>8. Flush(parser) \in {Oversized, ParseEventData(Data(FinalGroup(body)))}
  BY <1>2, <1>5, <1>7, FlushReads
<1> HIDE DEF body
<1>9. CASE events = Oversized
  <2>1. /\ Oversized[1].type = "error" /\ Oversized[1].why = "oversized" /\ DOMAIN Oversized = {1}
    BY DEF Oversized, OwnError
  <2>2. StreamErrors(Oversized) = {1}
    BY <2>1 DEF StreamErrors
  <2>3. Settle(Oversized, {1})
    <3>1. ~ \A i \in DOMAIN Oversized : Oversized[i].type \notin {"error", "done"}
      BY <2>1
    <3>2. QED
      BY <1>9, <2>2, <3>1 DEF BodyEnds
  <2>4. Min({1}) = 1
    BY DEF Min
  <2>5. stage' = "closed" /\ answer'.state = "failed" /\ answer'.why = "oversized"
    <3> HIDE DEF events
    <3>1. Oversized[Min({1})].type = "error" /\ Oversized[Min({1})].why = "oversized"
      BY <2>1, <2>4
    <3>2. QED
      BY <2>3, <3>1, SettledHow
  <2>6. Told(body, HandedOn(Complete(Read(body, r))), answer')
    BY <1>2, <1>3, <1>5, <2>5, ToldOfNothing
  <2>7. QED
    BY <1>1, <1>5, <2>5, <2>6, ToldIsInvisible DEF FragmentIInv, body
<1>10. CASE events = ParseEventData(Data(FinalGroup(body)))
  <2>1. \/ /\ \A i \in DOMAIN events : events[i].type \notin {"error", "done"}
           /\ stage' = "closed" /\ answer' = StreamFails("stream_error", "premature")
        \/ /\ ~ \A i \in DOMAIN events : events[i].type \notin {"error", "done"}
           /\ Settle(events, StreamErrors(events))
    BY DEF BodyEnds, Close
  <2> HIDE DEF events
  <2>2. stage' = "closed" /\ Told(body, HandedOn(Complete(body)), answer')
    BY <1>2, <1>5, <1>7, <1>10, <2>1, ToldOfFlushed
  <2>3. QED
    BY <1>1, <1>5, <1>7, <2>2, ToldIsInvisible DEF FragmentIInv, body
<1>11. QED
  BY <1>8, <1>9, <1>10

(* FragmentationIsInvisible: for any bodies, any objects in them and however the network cuts
   them, the caller is told what the body read in one piece says (sse.js feed and flush,
   stream-executor.js safeEventGenerator). *)
THEOREM FragmentationAlwaysInvisible == AdapterSpec => []FragmentationIsInvisible
<1>1. AdapterInit => FragmentIInv
  BY DEF AdapterInit, FragmentIInv, FragmentationIsInvisible
<1>2. ASSUME AdapterIInv, FragmentIInv, [AdapterNext]_adapterVars PROVE FragmentIInv'
  <2>1. call \in AdapterCalls
    BY <1>2 DEF AdapterIInv
  <2>2. CASE NormalizeRequest
    BY <1>2, <2>1, <2>2, NormalizeRequestFragment
  <2>3. CASE UpstreamAnswers
    <3>1. ~request.stream /\ request' = request /\ stage' = "closed"
      BY <2>3 DEF UpstreamAnswers, request
    <3>2. QED
      BY <3>1 DEF FragmentIInv, FragmentationIsInvisible
  <2>4. ASSUME NEW n \in 1 .. Len(left), FragmentArrives(n) PROVE FragmentIInv'
    BY <1>2, <2>1, <2>4, FragmentArrivesFragment
  <2>5. CASE BodyEnds
    BY <1>2, <2>1, <2>5, BodyEndsFragment
  <2>6. CASE UNCHANGED adapterVars
    <3>1. UNCHANGED <<call, stage, left, parser, yielded, answer>>
      BY <2>6 DEF adapterVars
    <3>2. request' = request /\ upstream' = upstream
      BY <3>1 DEF request, upstream
    <3>3. ASSUME NEW k, Reading(k) PROVE Reading(k)'
      <4>1. /\ left' = SubSeq(upstream.body, k + 1, Len(upstream.body))
            /\ Follows(parser', Read(upstream.body, k))
            /\ yielded' = HandedOn(Complete(Read(upstream.body, k)))
            /\ Failing(Complete(Read(upstream.body, k))) = {}
            /\ NoDone(Complete(Read(upstream.body, k)))
        BY <3>1, <3>3 DEF Reading
      <4>2. QED
        BY <3>1, <4>1, ReadingGoesOn
    <3>4. FragmentationIsInvisible'
      <4>1. BodyEvents(upstream.body)' = BodyEvents(upstream.body)
        BY <3>1 DEF BodyEvents, EventsOf, ParseEventData, Refusal, capability, upstream
      <4>2. SaysDone(upstream.body)' = SaysDone(upstream.body)
        BY <3>1 DEF SaysDone, BodyEvents, EventsOf, ParseEventData, Refusal, capability, upstream
      <4>3. EndsWithDone(upstream.body)' = EndsWithDone(upstream.body)
        BY <3>1 DEF EndsWithDone, SaysDone, BodyEvents, EventsOf, ParseEventData, Refusal, capability, upstream
      <4>4. FragmentationIsInvisible
        BY <1>2 DEF FragmentIInv
      <4>5. QED
        BY <3>1, <3>2, <4>1, <4>2, <4>3, <4>4 DEF FragmentationIsInvisible
    <3>5. (stage = "sent" /\ request.stream => \E k \in 0 .. Len(upstream.body) : Reading(k))'
      <4>1. stage = "sent" /\ request.stream => \E k \in 0 .. Len(upstream.body) : Reading(k)
        BY <1>2 DEF FragmentIInv
      <4>2. QED
        BY <3>1, <3>2, <3>3, <4>1
    <3>6. (stage = "asked" => parser = NewParser /\ yielded = <<>>)'
      BY <1>2, <3>1 DEF FragmentIInv
    <3>7. QED
      BY <3>4, <3>5, <3>6 DEF FragmentIInv
  <2>7. QED
    BY <1>2, <2>2, <2>3, <2>4, <2>5, <2>6 DEF AdapterNext
<1>3. FragmentIInv => FragmentationIsInvisible
  BY DEF FragmentIInv
<1>4. QED
  BY <1>1, <1>2, <1>3, AdapterInductive, PTL DEF AdapterSpec
=============================================================================
