-------------------------- MODULE MCRoutePlanning --------------------------
EXTENDS RoutePlanning

MCNameOrder == <<"alpha", "alpha-big", "alpha-fast", "beta", "beta-fast", "fast", "gamma", "gamma-fast",
                 "local", "local-ollama", "ollama:llama", "unknown">>

Https == [form |-> "parsed", scheme |-> "https", host |-> "public", userinfo |-> FALSE, fragment |-> FALSE]
Loopback == [Https EXCEPT !.scheme = "http", !.host = "loopback"]

RawProvider(id) ==
    [id |-> id, isObject |-> TRUE, local |-> FALSE, enabled |-> TRUE, type |-> "openai-compatible",
     url |-> IF id = "local" THEN Loopback ELSE Https,
     capabilities |-> {"chat"}, status |-> "", priority |-> Unknown, latency |-> Unknown, faults |-> {}]
RawModel(id, provider, cost, latency) ==
    [id |-> id, isObject |-> TRUE, provider |-> provider, aliases |-> {}, capabilities |-> {"chat", "tools"},
     context |-> 8, output |-> 4, inputCost |-> cost, outputCost |-> cost, local |-> FALSE, enabled |-> TRUE,
     status |-> "", priority |-> Unknown, latency |-> latency, faults |-> {}]
RawLocal ==
    [id |-> "ollama:llama", isObject |-> TRUE, engine |-> "ollama", endpoint |-> Loopback, name |-> "llama",
     model |-> "fast", capabilities |-> {"chat", "local"}, context |-> 4, enabled |-> TRUE, status |-> "",
     priority |-> Unknown, latency |-> Unknown, faults |-> {}]
RawPreset(id, primary, fallback) ==
    [id |-> id, isObject |-> TRUE, strategy |-> "", providers |-> {}, models |-> {}, primary |-> primary,
     fallback |-> fallback, saving |-> {}, required |-> {"tools"}, preferred |-> {}, fallbackAllowed |-> "unset",
     localFirst |-> FALSE, faults |-> {}]

AllRead == [f \in FileNames |-> "read"]
NoneRepeated == [f \in FileNames |-> {}]
Fast == [RawModel("alpha-fast", "alpha", 1, 3) EXCEPT !.aliases = {"fast"}]

\* four providers, one of them local
Wide ==
    [files |-> AllRead, repeated |-> NoneRepeated,
     providers |-> {[RawProvider("alpha") EXCEPT !.priority = 90], RawProvider("beta"), RawProvider("gamma"),
                    RawProvider("local")},
     models |-> {Fast, RawModel("alpha-big", "alpha", 3, Unknown), RawModel("beta-fast", "beta", Unknown, 2),
                 [RawModel("gamma-fast", "gamma", 1, Unknown) EXCEPT !.capabilities = {"chat"}, !.context = 4]},
     localModels |-> {RawLocal},
     routingPresets |-> {RawPreset("coding", {"alpha-fast"}, {"beta-fast"}), RawPreset("aliased", {"fast"}, {"beta-fast"}),
                       [RawPreset("mixed", {"alpha-fast"}, {}) EXCEPT !.providers = {"beta"}]}]

\* models alike but for what is known of them: where weights are zero, cost
\* prefers gamma-fast to alpha-big, and the names put alpha-fast between the two
Alikes ==
    [Wide EXCEPT !.providers = {RawProvider("alpha"), RawProvider("beta"), RawProvider("gamma")},
                 !.models = {RawModel("alpha-fast", "alpha", Unknown, 2), RawModel("alpha-big", "alpha", 2, Unknown),
                             RawModel("beta-fast", "beta", 1, 2), RawModel("gamma-fast", "gamma", 1, Unknown)},
                 !.localModels = {},
                 !.routingPresets = {RawPreset("coding", {"alpha-fast"}, {})}]

\* the models of one provider are disabled
Dimmed == [Wide EXCEPT !.models = {[r EXCEPT !.enabled = r.provider # "alpha"] : r \in @}]

\* a file is missing, records are broken or refer to nothing
Broken ==
    {[Wide EXCEPT !.files[f] = state] : f \in FileNames, state \in {"missing", "outside", "rootless"}}
    \cup {[Wide EXCEPT !.repeated[f] = {"alpha"}] : f \in FileNames \ {"localModels"}}
    \cup {[Wide EXCEPT !.providers = {[r EXCEPT !.url = url] : r \in @}] :
             url \in {[Https EXCEPT !.form = "malformed"], [Https EXCEPT !.userinfo = TRUE], [Https EXCEPT !.host = "private"]}}
    \cup {[Wide EXCEPT !.localModels = {[RawLocal EXCEPT !.endpoint.form = "none"]}],
          [Wide EXCEPT !.models = {[r EXCEPT !.aliases = {"fast"}] : r \in @}],
          [Wide EXCEPT !.models = {[r EXCEPT !.isObject = FALSE] : r \in @}],
          [Wide EXCEPT !.models = {[r EXCEPT !.capabilities = {"chat", "telepathy"}] : r \in @}],
          [Wide EXCEPT !.routingPresets = @ \cup {RawPreset("lost", {"nowhere"}, {})}]}

Ask ==
    [wellFormed |-> TRUE, provider |-> None, model |-> None, required |-> {"chat"}, preferred |-> {},
     excludedProviders |-> {}, excludedModels |-> {}, input |-> 2, output |-> 2, maxTokens |-> Unknown,
     context |-> Unknown, privacy |-> "standard", strategy |-> None, fallback |-> "unset"]
Asks ==
    {[Ask EXCEPT !.privacy = v] : v \in {"standard", "local-first", "local-only"}}
    \cup {[Ask EXCEPT !.provider = v, !.model = m] : v \in {None, "alpha", "local", "nowhere"}, m \in {None, "fast", "alpha-big", "nothing"}}
    \cup {[Ask EXCEPT !.wellFormed = FALSE], [Ask EXCEPT !.required = {"telepathy"}], [Ask EXCEPT !.excludedModels = {"fast"}],
          [Ask EXCEPT !.excludedProviders = {"alpha"}], [Ask EXCEPT !.fallback = "no"],
          [Ask EXCEPT !.required = {"tools"}],
          [Ask EXCEPT !.output = 6], [Ask EXCEPT !.output = Unknown, !.maxTokens = 2], [Ask EXCEPT !.context = 8],
          [Ask EXCEPT !.preferred = {"tools", "local"}], [Ask EXCEPT !.strategy = "context-window-aware"]}

Weights(cost, latency) ==
    [capability |-> 30, preferred |-> 20, priority |-> 10, cost |-> cost, latency |-> latency, context |-> 10,
     local |-> 10, explicit |-> 20, status |-> 5]
Caller ==
    [strategy |-> None, required |-> {}, preferred |-> {}, localRequired |-> "unset", localPreferred |-> "unset",
     fallback |-> "unset", maxFallbacks |-> -1, allowDisabled |-> "unset", statuses |-> {}, neutral |-> FALSE,
     weights |-> Weights(15, 10), excludedProviders |-> {}, excludedModels |-> {}, providerIds |-> {},
     modelIds |-> {}, diverse |-> "unset"]
Callers ==
    {[Caller EXCEPT !.strategy = s] : s \in PresetStrategies \cup {"privacy-local-first"}}
    \cup {[Caller EXCEPT !.maxFallbacks = n, !.diverse = d] : n \in {0, 1, 2}, d \in {"yes", "no"}}
    \cup {[Caller EXCEPT !.weights = Weights(c, l), !.neutral = n] : c, l \in {0, 15}, n \in BOOLEAN}
    \cup {[Caller EXCEPT !.localRequired = "no"], [Caller EXCEPT !.localRequired = "yes"],
          [Caller EXCEPT !.fallback = "yes"], [Caller EXCEPT !.required = {"streaming"}],
          [Caller EXCEPT !.required = {"chat"}], [Caller EXCEPT !.statuses = {"metadata-only"}],
          [Caller EXCEPT !.excludedModels = {"beta-fast"}], [Caller EXCEPT !.providerIds = {"beta", "gamma"}],
          [Caller EXCEPT !.allowDisabled = "yes"], [Caller EXCEPT !.modelIds = {"alpha-big"}]}

Question(source, ask, caller, preset) ==
    [source |-> source, request |-> ask, policy |-> caller, preset |-> preset, stamped |-> TRUE]

MCQuestions ==
    {Question(s, a, c, preset) : s \in {Wide, Alikes}, a \in Asks, c \in Callers,
                                 preset \in {None, "coding", "aliased"}}
    \cup {Question(Dimmed, Ask, c, None) : c \in Callers}
    \cup {Question(s, Ask, Caller, preset) : s \in Broken, preset \in {None, "coding"}}
    \cup {[Question(Wide, Ask, Caller, None) EXCEPT !.stamped = FALSE]}
=============================================================================
