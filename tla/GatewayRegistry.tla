-------------------------- MODULE GatewayRegistry --------------------------
(***************************************************************************)
(* buildGatewayRegistrySnapshot: four YAML files of a project become one   *)
(* frozen record of providers, models, local models and routing presets    *)
(* with the errors found on the way.  Only the order of the checks is      *)
(* lost: errors are a set of codes.  A snapshot with errors is returned    *)
(* all the same, and the callers decide whether to use it.                 *)
(*                                                                         *)
(* The patterns a text is held against (slugs, aliases, names of           *)
(* environment variables, numbers, secrets) are the set "faults" of a raw  *)
(* record: the codes of the checks its texts fail.                         *)
(***************************************************************************)
EXTENDS Integers, FiniteSets, Sequences, FiniteSetsExt

ProviderCapabilities == {"chat", "streaming", "tools", "vision", "audio", "reasoning",
                         "embeddings", "local", "structured-output"}
ProviderTypes == {"openai-compatible", "native", "local", "mock"}
PresetStrategies == {"explicit", "capability", "cost-first", "latency-first", "context-aware",
                     "local-first", "fallback-chain", "balanced", "user-policy"}
FileNames == {"providers", "models", "localModels", "routingPresets"}

None == "none"       \* a name that is absent
Unknown == -1        \* a number that is null

When(condition, code) == IF condition THEN {code} ELSE {}

-----------------------------------------------------------------------------
(* loadGatewayRegistrySources.  A file is read, missing, outside of the     *)
(* root, or read without its root key.                                     *)

FileErrors(state) ==
    When(state = "outside", "path_traversal") \cup When(state = "missing", "missing_source")
    \cup When(state = "rootless", "invalid_source")

Entries(source, file) == IF source.files[file] = "read" THEN source[file] ELSE {}
Repeated(source, file) == IF source.files[file] = "read" THEN source.repeated[file] ELSE {}

-----------------------------------------------------------------------------
(* Normalization.                                                          *)

StatusOf(status, default) == IF status = "" THEN default ELSE status
Capabilities(given) == given \cap ProviderCapabilities
CapabilityErrors(given) == When(~(given \subseteq ProviderCapabilities), "unsupported_capability")

\* validateProviderUrl
UrlErrors(url, local) ==
    When(\/ url.form \in {"shell", "malformed"}
         \/ url.form = "parsed" /\ (\/ url.userinfo \/ url.fragment
                                    \/ local /\ (url.scheme \notin {"http", "https"} \/ url.host # "loopback")
                                    \/ ~local /\ (url.scheme # "https" \/ url.host # "public")),
         "unsafe_url")
\* only a URL that does not parse is dropped
UrlKept(url) == url.form = "parsed"

IsLocal(raw) == raw.local \/ raw.id = "local" \/ raw.type = "local"

ProviderOf(raw) ==
    [id |-> raw.id, local |-> IsLocal(raw), enabled |-> raw.enabled,
     type |-> IF raw.type \in ProviderTypes THEN raw.type
              ELSE IF IsLocal(raw) THEN "local" ELSE "openai-compatible",
     status |-> StatusOf(raw.status, "available"), priority |-> raw.priority, latency |-> raw.latency]

ProviderErrors(raw) == raw.faults \cup UrlErrors(raw.url, IsLocal(raw)) \cup CapabilityErrors(raw.capabilities)

ModelOf(raw) ==
    [id |-> raw.id, provider |-> raw.provider, aliases |-> raw.aliases,
     capabilities |-> Capabilities(raw.capabilities),
     context |-> raw.context, output |-> raw.output, inputCost |-> raw.inputCost, outputCost |-> raw.outputCost,
     local |-> raw.local, enabled |-> raw.enabled, status |-> StatusOf(raw.status, "available"),
     priority |-> raw.priority, latency |-> raw.latency]

ModelErrors(raw) == raw.faults \cup CapabilityErrors(raw.capabilities)

\* a local model answers to its own name and to the name its engine knows
LocalModelOf(raw) ==
    [id |-> raw.id, engine |-> raw.engine, hasEndpoint |-> UrlKept(raw.endpoint),
     aliases |-> {raw.name, raw.model}, capabilities |-> Capabilities(raw.capabilities),
     context |-> raw.context, enabled |-> raw.enabled, status |-> StatusOf(raw.status, "metadata-only"),
     priority |-> raw.priority, latency |-> raw.latency]

LocalModelErrors(raw) ==
    raw.faults \cup UrlErrors(raw.endpoint, TRUE) \cup CapabilityErrors(raw.capabilities)

PresetStrategy(raw) ==
    CASE raw.strategy \in PresetStrategies -> raw.strategy
      [] raw.strategy \notin PresetStrategies /\ raw.localFirst -> "local-first"
      [] raw.strategy \notin PresetStrategies /\ ~raw.localFirst ->
            IF raw.fallback # {} THEN "fallback-chain" ELSE "explicit"

ModelIds(raw) == raw.models \cup raw.primary \cup raw.fallback \cup raw.saving

\* MUTANT: a preset has only the providers it lists
PresetOfListed(raw, models) ==
    [id |-> raw.id, strategy |-> PresetStrategy(raw), modelIds |-> ModelIds(raw),
     providerIds |-> raw.providers,
     required |-> Capabilities(raw.required), preferred |-> Capabilities(raw.preferred),
     fallback |-> "yes", localFirst |-> raw.localFirst]

\* the providers of the models a preset names by their id are added to its own
PresetOf(raw, models) ==
    [id |-> raw.id, strategy |-> PresetStrategy(raw), modelIds |-> ModelIds(raw),
     providerIds |-> raw.providers \cup ({m.provider : m \in {n \in models : n.id \in ModelIds(raw)}} \ {None}),
     required |-> Capabilities(raw.required), preferred |-> Capabilities(raw.preferred),
     fallback |-> IF raw.fallbackAllowed = "unset" THEN (IF raw.fallback # {} THEN "yes" ELSE "no")
                  ELSE raw.fallbackAllowed,
     localFirst |-> raw.localFirst]

PresetErrors(raw) == raw.faults \cup CapabilityErrors(raw.required) \cup CapabilityErrors(raw.preferred)

-----------------------------------------------------------------------------
(* validateCrossReferences.                                                *)

Ids(records) == {r.id : r \in records}
Duplicated(records) == Cardinality(Ids(records)) # Cardinality(records)
Aliases(models) == UNION {m.aliases : m \in models}

CrossReferenceErrors(providers, models, locals, presets) ==
    When(Duplicated(locals), "duplicate_local_model")
    \cup When(\E m \in models : ~m.local /\ m.provider \notin Ids(providers), "unknown_provider")
    \cup When(\E m, n \in models : m # n /\ m.aliases \cap n.aliases # {}, "duplicate_alias")
    \cup When(\E l \in locals : ~l.hasEndpoint, "invalid_local_model")
    \cup When(\E p \in presets : ~(p.providerIds \subseteq Ids(providers)), "unknown_provider")
    \cup When(\E p \in presets : ~(p.modelIds \subseteq Ids(models) \cup Aliases(models)), "unknown_model")

RepeatedErrors(source) ==
    When(Repeated(source, "providers") # {}, "duplicate_provider")
    \cup When(Repeated(source, "models") # {}, "duplicate_model")
    \cup When(Repeated(source, "routingPresets") # {}, "duplicate_routing_preset")

\* an entry that is no mapping is reported and skipped
Records(source, file) == {raw \in Entries(source, file) : raw.isObject}
ShapeErrors(source) ==
    When(\E file \in FileNames : Records(source, file) # Entries(source, file), "invalid_record")

Snapshot(source) ==
    LET providers == {ProviderOf(raw) : raw \in Records(source, "providers")}
        models == {ModelOf(raw) : raw \in Records(source, "models")}
        locals == {LocalModelOf(raw) : raw \in Records(source, "localModels")}
        presets == {PresetOf(raw, models) : raw \in Records(source, "routingPresets")}
    IN [providers |-> providers, models |-> models, locals |-> locals, presets |-> presets,
        errors |-> UNION {FileErrors(source.files[file]) : file \in FileNames}
                   \cup RepeatedErrors(source) \cup ShapeErrors(source)
                   \cup UNION {ProviderErrors(raw) : raw \in Records(source, "providers")}
                   \cup UNION {ModelErrors(raw) : raw \in Records(source, "models")}
                   \cup UNION {LocalModelErrors(raw) : raw \in Records(source, "localModels")}
                   \cup UNION {PresetErrors(raw) : raw \in Records(source, "routingPresets")}
                   \cup CrossReferenceErrors(providers, models, locals, presets)]

\* getModel: an id before an alias
GetModel(snapshot, name) ==
    LET byId == {m \in snapshot.models : m.id = name}
    IN IF byId # {} THEN byId ELSE {m \in snapshot.models : name \in m.aliases}
=============================================================================
