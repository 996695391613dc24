-------------------------- MODULE MCOpenAIAdapter --------------------------
EXTENDS OpenAIAdapter, TLC

Choice(tools, finish) == [formed |-> TRUE, role |-> "assistant", tools |-> tools, finish |-> finish, index |-> Unknown]
Hello == Choice(FALSE, "absent")
Misformed == [Hello EXCEPT !.formed = FALSE]
Odd == [Hello EXCEPT !.role = "robot", !.finish = "bored", !.index = 7]
Calling == Choice(TRUE, "tool_calls")

Says(choices) == [choices |-> choices, usage |-> FALSE, named |-> TRUE]

\* "open" and "close" are the halves of one object
MCJson ==
    <<"hello">> :> Says(<<Hello>>)
    @@ <<"calls">> :> Says(<<Hello, Calling>>)
    @@ <<"odd">> :> Says(<<Odd, Hello>>)
    @@ <<"misformed">> :> Says(<<Hello, Misformed>>)
    @@ <<"nameless">> :> [Says(<<Hello>>) EXCEPT !.named = FALSE]
    @@ <<"scalar">> :> Says(<<>>)
    @@ <<"open", "close">> :> [Says(<<Choice(FALSE, "stop")>>) EXCEPT !.usage = TRUE]

Pieced == {"hello", "calls", "odd", "misformed", "nameless", "scalar", "open", "close", "[DONE]", "words"}
MCWeight == [t \in Pieced \cup {"lf", "cr", "colon", "data"} |->
                CASE t \in {"lf", "cr", "colon"} -> 1 [] t = "odd" -> 6 [] OTHER -> 2]

Event(piece) == <<"data", piece, "lf", "lf">>
Done == Event("[DONE]")

Framings ==
    {<<>>, <<"words", "lf">>, <<"colon", "words", "lf">>, <<"data", "hello", "cr", "lf", "cr", "lf">>,
     <<"data", "open", "lf", "data", "close", "lf", "lf">>}
Events ==
    {<<"data", "odd", "words", "words", "lf", "lf">>, <<"data", "hello", "lf", "words", "words", "words", "lf", "lf">>}
    \cup {Event(piece) : piece \in Pieced} \cup Framings
Endings ==
    {Done, Done \o <<"cr", "lf">>, Done \o Event("hello"), Done \o <<"[DONE]">>, <<"data", "[DONE]">>,
     <<"data", "[DONE]", "cr">>, <<"data", "calls">>}

\* most bodies are within MaxResponse; some overrun it in their last event
Bodies == {e \o f \o ending : e \in Framings, f \in Events, ending \in Endings}

Capabilities == [sseStreaming : BOOLEAN, toolCalls : BOOLEAN]
Fields == {{}, {"tools"}, {"tool_choice"}}

Stream(body) == [kind |-> "stream", body |-> body]
Answer(choices, bytes, named) == [kind |-> "body", choices |-> choices, bytes |-> bytes, named |-> named]
Error(nested, status, error) == [kind |-> "error", nested |-> nested, status |-> status, bytes |-> 1, error |-> error]

Statuses == {400, 401, 404, 408, 413, 422, 429, 500, Unknown}
Words == [message : {{}, {"stream"}, {"api_key"}, {"quota"}}, code : {{}, {"invalid", "invalid_api_key"}, {"rate_limit"}},
          type : {{}, {"requests"}}]
Errors ==
    {Error(nested, http, [message |-> w.message, code |-> w.code, type |-> w.type, status |-> status]) :
        w \in Words, http \in Statuses, <<nested, status>> \in ({FALSE} \X {Unknown}) \cup ({TRUE} \X Statuses)}

Answers ==
    {Answer(choices, 1, TRUE) : choices \in {<<>>, <<Hello>>, <<Odd, Hello>>, <<Hello, Calling>>, <<Misformed, Calling>>}}
    \cup {Answer(<<Hello>>, MaxResponse + 1, TRUE), Answer(<<Hello>>, 1, FALSE)}

MCCalls ==
    {[request |-> [stream |-> TRUE, fields |-> {}], capability |-> c, upstream |-> Stream(body)] :
        c \in {c \in Capabilities : c.sseStreaming}, body \in Bodies}
    \cup {[request |-> [stream |-> TRUE, fields |-> f], capability |-> c, upstream |-> Stream(Done)] :
        f \in Fields, c \in Capabilities}
    \cup {[request |-> [stream |-> FALSE, fields |-> f], capability |-> c, upstream |-> u] :
        f \in Fields, c \in Capabilities, u \in Answers}
    \cup {[request |-> [stream |-> FALSE, fields |-> {}], capability |-> c, upstream |-> u] :
        c \in {c \in Capabilities : c.sseStreaming}, u \in Errors}

=============================================================================
