------------------------- MODULE MCGovernedDispatch -------------------------
EXTENDS GovernedDispatch

Url(verdict, host, path) == [verdict |-> verdict, host |-> host, path |-> path]
Path == <<"/", "v", "/", "c">>
Base == <<"/", "v", "/">>

\* a provider whose every check succeeds
Sound(p) ==
    [adapter |-> [wellFormed |-> TRUE, type |-> "openai-compatible", id |-> p, models |-> {"m"},
                  vocabulary |-> {"chat", "streaming"}, env |-> "KEY", base |-> Url("ok", "h", Base)],
     endpoint |-> [wellFormed |-> TRUE, redirects |-> FALSE, url |-> Url("ok", "h", Path)],
     policy |-> [wellFormed |-> TRUE, enabled |-> TRUE, allowed |-> {p},
                 attempts |-> 1, redirects |-> FALSE, timeout |-> 300, limit |-> 1048576],
     capability |-> [wellFormed |-> TRUE, chat |-> TRUE, plain |-> TRUE, sse |-> TRUE, tools |-> FALSE],
     ref |-> [env |-> "KEY", wellFormed |-> TRUE]]

\* one field at a time differs
Varied(c) ==
    {[c EXCEPT !.adapter.wellFormed = FALSE], [c EXCEPT !.adapter.type = "other"],
     [c EXCEPT !.adapter.id = "q"], [c EXCEPT !.adapter.models = {}], [c EXCEPT !.adapter.models = {"n"}],
     [c EXCEPT !.adapter.vocabulary = {"chat", "unknown"}], [c EXCEPT !.adapter.env = "proto"],
     [c EXCEPT !.adapter.env = "OTHER"], [c EXCEPT !.adapter.env = NoEnv]}
    \cup {[c EXCEPT !.adapter.vocabulary = v] : v \in {{"chat", "streaming", "tools"}, {"chat"}, {"streaming"}}}
    \cup {[c EXCEPT !.adapter.base = u] : u \in {Url("ok", "g", Base), Url("endpoint_invalid", "h", Base),
                                                 Url("ok", "h", <<"/">>), Url("ok", "h", Path),
                                                 Url("ok", "h", <<"/", "v", "/", "c", "c">>)}}
    \cup {[c EXCEPT !.endpoint.wellFormed = FALSE], [c EXCEPT !.endpoint.redirects = TRUE]}
    \cup {[c EXCEPT !.endpoint.url = u] : u \in {Url("endpoint_invalid", "h", Path), Url("endpoint_forbidden", "h", Path),
                                                 Url("ok", "g", Path), Url("ok", "h", Base),
                                                 Url("ok", "h", <<"/", "v", "v">>), Url("ok", "h", <<"/">>)}}
    \cup {[c EXCEPT !.policy.wellFormed = FALSE], [c EXCEPT !.policy.enabled = FALSE],
          [c EXCEPT !.policy.allowed = {"q"}], [c EXCEPT !.policy.attempts = 2],
          [c EXCEPT !.policy.redirects = TRUE], [c EXCEPT !.policy.timeout = 301],
          [c EXCEPT !.policy.timeout = 0], [c EXCEPT !.policy.limit = 0], [c EXCEPT !.policy.limit = 1],
          [c EXCEPT !.policy.limit = 100], [c EXCEPT !.policy.limit = 52428801],
          [c EXCEPT !.capability.wellFormed = FALSE], [c EXCEPT !.capability.chat = FALSE],
          [c EXCEPT !.capability.plain = FALSE], [c EXCEPT !.capability.sse = FALSE],
          [c EXCEPT !.capability.tools = TRUE],
          [c EXCEPT !.ref = NoRef], [c EXCEPT !.ref.wellFormed = FALSE],
          [c EXCEPT !.ref.env = "OTHER"]}

\* a provider with up to two differences
Provider(p) == LET once == Varied(Sound(p)) IN {Sound(p)} \cup once \cup UNION {Varied(c) : c \in once}

RouteTo(key, p, m) == [key |-> key, provider |-> p, model |-> m]
Plain == <<RouteTo("k", "p", "m")>>

Whole(enabled, providers, routes) ==
    [wellFormed |-> TRUE, enabled |-> enabled, providers |-> providers, routes |-> routes]

Both == [x \in {"p", "q"} |-> Sound(x)]
MCRoutes ==
    {<<>>, Plain, <<RouteTo("k", "q", "m")>>, <<RouteTo("k", "p", "n")>>, <<RouteTo("proto", "p", "m")>>,
     <<RouteTo("k", "proto", "m")>>, Plain \o Plain, Plain \o <<RouteTo("mock", "q", "m")>>}

MCConfigs ==
    {Whole(TRUE, [x \in {"p"} |-> c], Plain) : c \in Provider("p")}
    \cup {Whole(enabled, providers, routes) :
             enabled \in BOOLEAN, routes \in MCRoutes,
             providers \in {Both, [x \in {"p"} |-> Sound("p")], [x \in {"proto"} |-> Sound("proto")]}}
    \cup {[Whole(TRUE, Both, Plain) EXCEPT !.wellFormed = FALSE]}

MCEdits ==
    {Whole(TRUE, Both, <<RouteTo("k", "q", "m")>>),
     Whole(FALSE, Both, Plain),
     Whole(TRUE, [x \in {"p"} |-> [Sound("p") EXCEPT !.endpoint.url.host = "g"]], Plain),
     Whole(TRUE, [x \in {"p"} |-> [Sound("p") EXCEPT !.endpoint.url.path = <<"/", "v", "/", "d">>]], Plain)}

MCTransports == {{}, {"execute"}, {"execute", "stream"}}
MCEnvironments == [{"KEY", "OTHER"} -> {"secret", "unusable"}]
=============================================================================
