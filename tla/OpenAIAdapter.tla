--------------------------- MODULE OpenAIAdapter ---------------------------
(***************************************************************************)
(* The OpenAI-compatible adapter within one governed call: the request is  *)
(* normalized, and what the upstream sends back is, as the call asked, one *)
(* answer (an error or a body) or a stream of server-sent events, cut into *)
(* fragments anywhere.  The stream is read by createOpenAISSEParser for    *)
(* safeEventGenerator, which yields its chunks.                            *)
(*                                                                         *)
(* A body is a sequence of tokens: "lf", "cr", "colon" (the start of a     *)
(* comment), "data" (a data: prefix) and pieces of payload, each with a    *)
(* weight in bytes.  Json gives the object some pieces spell; pieces that  *)
(* are not in its domain spell none.                                       *)
(***************************************************************************)
EXTENDS Integers, SequencesExt

CONSTANTS
    AdapterCalls,          \* [request, capability, upstream]
    Weight,         \* the bytes of a token
    Json,           \* sequences of pieces to [choices, usage, named]
    MaxResponse,    \* policy.max_response_bytes
    BufferCap,      \* 16 MB, and
    EventCap        \* 8 MB in the code: what a policy cannot raise

ASSUME CapsAreSizes == MaxResponse \in Nat /\ BufferCap \in Nat /\ EventCap \in Nat

\* a list of choices as JSON.parse leaves it: whether each is well formed and calls tools is known
IsChoices(choices) ==
    /\ Len(choices) \in Nat /\ DOMAIN choices = 1 .. Len(choices)
    /\ \A i \in DOMAIN choices : choices[i].index \in Int /\ {choices[i].formed, choices[i].tools} \subseteq BOOLEAN

ASSUME JsonAssumption ==
    \A text \in DOMAIN Json : IsChoices(Json[text].choices) /\ {Json[text].usage, Json[text].named} \subseteq BOOLEAN

IsError(e) == e = [message |-> e.message, code |-> e.code, type |-> e.type, status |-> e.status]

\* a stream is made of the tokens that have a weight; a call that is no stream is answered
\* with an error or a body
ASSUME AdapterCallsAssumption ==
    \A c \in AdapterCalls :
        /\ {c.capability.toolCalls, c.capability.sseStreaming, c.request.stream} \subseteq BOOLEAN
        /\ c.upstream.kind \in IF c.request.stream THEN {"stream"} ELSE {"error", "body"}
        /\ c.upstream.kind = "stream" => c.upstream.body \in Seq(DOMAIN Weight)
        /\ c.upstream.kind # "stream" => c.upstream.bytes \in Nat
        /\ c.upstream.kind = "body" => IsChoices(c.upstream.choices)
        /\ c.upstream.kind = "error" => IsError(c.upstream.error)

VARIABLES
    call,       \* the call this is about
    stage,      \* "asked", "sent" or "closed"
    sent,       \* the fields of the payload that need a capability
    left,       \* the tokens of the stream not delivered yet
    received,   \* bytes delivered (cumulativeBytes)
    parser,     \* [buffer, eventLines, eventByteCount, isDone]
    yielded,    \* the choices of each response handed on
    answer      \* how the call ended

adapterVars == <<call, stage, sent, left, received, parser, yielded, answer>>

request == call.request
capability == call.capability
upstream == call.upstream

None == "none"
Unknown == -1

Bytes(tokens) == FoldLeft(LAMBDA sum, t : sum + Weight[t], 0, tokens)
MaxBuffer == Min({MaxResponse, BufferCap})
MaxEvent == Min({MaxResponse, EventCap})

-----------------------------------------------------------------------------
(* normalizeOpenAIError.  A message, code or type is the set of the words  *)
(* the code looks for in it; the context names a code for the adapter's    *)
(* own errors.                                                             *)

TaxonomyOf(e) ==
    IF e.status \in {401, 403} \/ "api_key" \in e.message \/ "unauthorized" \in e.message \/ "invalid_api_key" \in e.code
    THEN "upstream_authentication"
    ELSE IF e.status = 429 \/ "rate_limit" \in e.code \/ "requests" \in e.type
    THEN IF "quota" \in e.code \cup e.type \cup e.message THEN "upstream_quota" ELSE "upstream_rate_limit"
    ELSE IF e.status \in {408, 504} \/ "timeout" \in e.code \cup e.message THEN "timeout"
    ELSE IF e.status = 413 THEN "request_too_large"
    ELSE IF e.status \in {400, 404, 422} \/ "invalid" \in e.code \cup e.type THEN "request_invalid"
    ELSE IF e.status \in 500..599 THEN "upstream_server_error"
    ELSE "internal_execution_error"

\* the status an error carries, once normalized
NormalizedStatus(e) == IF e.status \in 100..599 THEN e.status ELSE 500

Own == <<"unsupported_capability", "stream_error", "upstream_protocol_error">>

\* MUTANT: the message is looked at before the code
NormalizeErrorByMessage(e, context) ==
    IF "stream" \in e.message THEN "stream_error"
    ELSE IF context # None THEN context ELSE TaxonomyOf(e)

\* of the adapter's own codes the first one named counts; a message that
\* mentions a stream (or an "upstream") is a stream error
NormalizeError(e, context) ==
    LET names == [c \in ToSet(Own) |-> context = c \/ c \in e.code]
        isStream == names["stream_error"] \/ "stream" \in e.message
    IN IF names["unsupported_capability"] THEN "unsupported_capability"
       ELSE IF isStream THEN "stream_error"
       ELSE IF names["upstream_protocol_error"] THEN "upstream_protocol_error" ELSE TaxonomyOf(e)

\* the messages of the parser all mention SSE or a stream
OwnError(context, why) ==
    LET e == [status |-> Unknown, message |-> {"stream"}, code |-> {}, type |-> {}]
    IN [type |-> "error", why |-> why, code |-> NormalizeError(e, context), status |-> NormalizedStatus(e)]

-----------------------------------------------------------------------------
(* The choices of a stream's event and of an answer.                       *)

AllowedRoles == {"system", "user", "assistant", "tool", "developer"}
AllowedFinish == {"stop", "length", "tool_calls", "content_filter", "error"}

\* what an answer says where its choice says nothing, and what a chunk does
InAnswer == [role |-> "assistant", finish |-> "stop"]
InChunk == [role |-> None, finish |-> None]

NormalizeRole(role, absent) == IF role \in AllowedRoles THEN role ELSE absent.role

NormalizeFinish(finish, absent) ==
    CASE finish = "absent" -> absent.finish
      [] finish = None \/ finish \in AllowedFinish -> finish
      [] OTHER -> "stop"

\* a lone choice is numbered 0 whatever the upstream said
NormalizeChoices(choices, absent) ==
    [i \in DOMAIN choices |->
        LET c == choices[i]
        IN [role |-> NormalizeRole(c.role, absent), finish |-> NormalizeFinish(c.finish, absent), tools |-> c.tools,
            index |-> IF Len(choices) = 1 THEN 0 ELSE IF c.index = Unknown THEN i - 1 ELSE c.index]]

\* MUTANT: only the first choice is looked at
RefusalOfFirst(choices) ==
    IF ~choices[1].formed THEN "stream_error"
    ELSE IF choices[1].tools /\ ~capability.toolCalls THEN "unsupported_capability" ELSE None

\* the first choice that is malformed, or calls tools without the capability, decides
Refusal(choices) ==
    LET faulty == {i \in DOMAIN choices : ~choices[i].formed \/ (choices[i].tools /\ ~capability.toolCalls)}
    IN IF faulty = {} THEN None
       ELSE IF choices[Min(faulty)].formed THEN "unsupported_capability" ELSE "stream_error"

-----------------------------------------------------------------------------
(* createOpenAISSEParser.                                                  *)

NewParser == [buffer |-> <<>>, eventLines |-> <<>>, eventByteCount |-> 0, isDone |-> FALSE]

White(tokens) == \A i \in DOMAIN tokens : tokens[i] \in {"lf", "cr"}
Pieces(tokens) == SelectSeq(tokens, LAMBDA t : t \notin {"lf", "cr"})

StripCr(line) == IF line # <<>> /\ Last(line) = "cr" THEN Front(line) ELSE line

\* the data lines of an event, joined with line feeds
Data(lines) ==
    LET data[i \in 0 .. Len(lines)] ==
            IF i = 0 THEN <<>>
            ELSE IF lines[i][1] # "data" THEN data[i - 1]
            ELSE IF data[i - 1] = <<>> THEN Tail(lines[i]) ELSE data[i - 1] \o <<"lf">> \o Tail(lines[i])
    IN data[Len(lines)]

DoneEvent == [type |-> "done"]

\* parseEventData; white space between pieces means nothing to JSON
ParseEventData(content) ==
    LET text == Pieces(content)
        object == Json[text]
        refusal == IF object.choices = <<>> THEN None ELSE Refusal(object.choices)
        chunk == [type |-> "chunk", named |-> object.named,
                  choices |-> NormalizeChoices(object.choices, InChunk)]
    IN IF White(content) THEN <<>>
       ELSE IF text = <<"[DONE]">> THEN <<DoneEvent>>
       ELSE IF text \notin DOMAIN Json THEN <<OwnError("stream_error", "json")>>
       ELSE IF refusal # None THEN <<OwnError(refusal, IF refusal = "stream_error" THEN "choice" ELSE "tools")>>
       ELSE (IF object.choices = <<>> THEN <<>> ELSE <<chunk>>)
            \o (IF object.usage THEN <<[type |-> "usage"]>> ELSE <<>>)

Oversized == <<OwnError("stream_error", "oversized")>>
Trailing(tokens) == IF White(tokens) THEN <<>> ELSE <<OwnError("stream_error", "trailing")>>

\* what a scan of the buffer has come to: the parser's fields, the line being
\* read, the tokens not looked at, the events emitted, and whether it is over
ScanOf(p, tokens) ==
    [lines |-> p.eventLines, bytes |-> p.eventByteCount, line |-> <<>>, rest |-> tokens,
     events |-> <<>>, over |-> FALSE, done |-> FALSE]

\* processEventLines
EventEnds(s) ==
    LET content == Data(s.lines)
        events == ParseEventData(content)
        isDone == \E i \in DOMAIN events : events[i].type = "done"
        emptied == [s EXCEPT !.line = <<>>, !.lines = <<>>, !.bytes = 0]
    IN IF Bytes(content) > MaxEvent
       THEN [emptied EXCEPT !.events = @ \o Oversized, !.over = TRUE, !.rest = <<>>]
       ELSE IF isDone
       THEN [emptied EXCEPT !.events = @ \o events \o Trailing(s.rest), !.over = TRUE, !.done = TRUE, !.rest = <<>>]
       ELSE [emptied EXCEPT !.events = @ \o events]

\* an event that grows too large takes the events before it with it
LineEnds(s) ==
    LET line == StripCr(s.line)
        bytes == s.bytes + Bytes(line)
    IN CASE line = <<>> -> EventEnds(s)
         [] line # <<>> /\ line[1] = "colon" -> [s EXCEPT !.line = <<>>]
         [] OTHER -> IF bytes > MaxEvent
                     THEN [ScanOf(NewParser, <<>>) EXCEPT !.events = Oversized, !.over = TRUE]
                     ELSE [s EXCEPT !.line = <<>>, !.lines = Append(@, line), !.bytes = bytes]

ReadToken(s, t) ==
    LET ahead == [s EXCEPT !.rest = Tail(@)]
    IN CASE s.over -> s
         [] ~s.over /\ t # "lf" -> [ahead EXCEPT !.line = Append(@, t)]
         [] OTHER -> LineEnds(ahead)

Scan(p, buffer) ==
    LET scanned[i \in 0 .. Len(buffer)] ==
            IF i = 0 THEN ScanOf(p, buffer) ELSE ReadToken(scanned[i - 1], buffer[i])
    IN scanned[Len(buffer)]

\* MUTANT: what follows the last line feed is forgotten
FeedWholeLines(p, fragment) ==
    LET buffer == p.buffer \o fragment
        s == Scan(p, buffer)
    IN [events |-> s.events,
        parser |-> [buffer |-> <<>>, eventLines |-> s.lines, eventByteCount |-> s.bytes, isDone |-> s.done]]

\* feed: the buffer is scanned, and keeps the line that has not ended
Feed(p, fragment) ==
    LET buffer == p.buffer \o fragment
        s == Scan(p, buffer)
    IN CASE p.isDone -> [events |-> Trailing(fragment), parser |-> p]
         [] ~p.isDone /\ Bytes(buffer) > MaxBuffer -> [events |-> Oversized, parser |-> NewParser]
         [] OTHER -> [events |-> s.events,
                      parser |-> [buffer |-> s.line, eventLines |-> s.lines, eventByteCount |-> s.bytes,
                                  isDone |-> s.done]]

\* flush: a line that has not ended counts, without its bytes
Flush(p) ==
    LET line == StripCr(p.buffer)
        ends == line # <<>> /\ line[1] # "colon"
        s == ScanOf([p EXCEPT !.eventLines = IF ends THEN Append(@, line) ELSE @], <<>>)
    IN IF p.isDone \/ s.lines = <<>> THEN <<>> ELSE EventEnds(s).events

-----------------------------------------------------------------------------
(* The call.                                                               *)

\* the status of an error is Unknown where nothing sets one
Answered(state, code, why, status) == [state |-> state, code |-> code, why |-> why, status |-> status]
NoAnswer == Answered(None, None, None, Unknown)
Completed == Answered("completed", None, None, Unknown)

Close(ending) == stage' = "closed" /\ answer' = ending

\* CATEGORY_STATUS_MAP
StatusOfCategory(category) ==
    CASE category \in {"request_invalid", "unsupported_capability", "credential_reference_invalid",
                       "endpoint_invalid", "upstream_client_error"} -> 400
      [] category = "upstream_authentication" -> 401
      [] category \in {"execution_disabled", "provider_not_enabled", "endpoint_forbidden"} -> 403
      [] category = "request_too_large" -> 413
      [] category \in {"upstream_rate_limit", "upstream_quota"} -> 429
      [] category = "cancelled" -> 499
      [] category \in {"upstream_server_error", "upstream_protocol_error", "stream_error", "response_too_large"} -> 502
      [] category = "credential_unavailable" -> 503
      [] category = "timeout" -> 504
      [] OTHER -> 500

\* both executors refuse for a missing capability before the adapter would: a stream by
\* its pre-check or the gate, tools by the gate
RefusedRequest ==
    Answered("refused", "unsupported_capability", "request", StatusOfCategory("unsupported_capability"))

\* the errors of safeEventGenerator
StreamFails(code, why) == Answered("failed", code, why, 502)

AdapterInit ==
    /\ call \in AdapterCalls
    /\ stage = "asked"
    /\ sent = {}
    /\ left = <<>>
    /\ received = 0
    /\ parser = NewParser
    /\ yielded = <<>>
    /\ answer = NoAnswer

Wanted == (IF request.stream THEN {"stream"} ELSE {}) \cup request.fields
Supported ==
    (IF capability.sseStreaming THEN {"stream"} ELSE {})
    \cup (IF capability.toolCalls THEN {"tools", "tool_choice"} ELSE {})

(* normalizeOpenAIExecutionRequest, behind the checks of the executors *)
NormalizeRequest ==
    /\ stage = "asked"
    /\ IF Wanted \subseteq Supported
       THEN /\ stage' = "sent"
            /\ sent' = Wanted
            /\ left' = IF request.stream THEN upstream.body ELSE <<>>
            /\ UNCHANGED answer
       ELSE /\ Close(RefusedRequest)
            /\ UNCHANGED <<sent, left>>
    /\ UNCHANGED <<call, received, parser, yielded>>

\* executeGovernedRequest hands on the error itself: the status beside it is lost
ErrorSeen(u) == IF u.nested THEN u.error ELSE [u.error EXCEPT !.status = u.status]

PlainVerdict ==
    CASE upstream.bytes > MaxResponse -> Answered("failed", "response_too_large", "size", Unknown)
      [] upstream.bytes <= MaxResponse /\ upstream.kind = "error"
           -> Answered("failed", NormalizeError(ErrorSeen(upstream), None), "upstream",
                       NormalizedStatus(ErrorSeen(upstream)))
      [] OTHER ->
           IF \/ upstream.choices = <<>>
              \/ Refusal(upstream.choices) # None
              \/ ~upstream.named
           THEN Answered("failed", "upstream_protocol_error", "body", Unknown)
           ELSE Completed

(* normalizeOpenAIError or normalizeOpenAIResponse, by executeGovernedRequest: *)
(* whatever the adapter says of a body it refuses, its error is read from a    *)
(* field that is never set                                                     *)
UpstreamAnswers ==
    /\ stage = "sent"
    /\ ~request.stream
    /\ stage' = "closed"
    /\ answer' = PlainVerdict
    /\ yielded' = IF PlainVerdict.state = "completed"
                  THEN <<NormalizeChoices(upstream.choices, InAnswer)>> ELSE <<>>
    /\ UNCHANGED <<call, sent, left, received, parser>>

\* safeEventGenerator: the chunks up to the first error are handed on
StreamErrors(events) == {i \in DOMAIN events : events[i].type = "error"}
Failing(events) ==
    StreamErrors(events) \cup {i \in DOMAIN events : events[i].type = "chunk" /\ ~events[i].named}
HandedOn(events) ==
    LET heard[i \in 0 .. Len(events)] ==
            IF i = 0 THEN <<>>
            ELSE IF events[i].type # "chunk" \/ \E j \in Failing(events) : j <= i THEN heard[i - 1]
            ELSE Append(heard[i - 1], events[i].choices)
    IN heard[Len(events)]

\* the first of the failing events decides
Settle(events, failing) ==
    LET first == events[Min(failing)]
    IN CASE failing # {} -> IF first.type = "error" THEN Close(Answered("failed", first.code, first.why, first.status))
                            ELSE Close(StreamFails("stream_error", "chunk"))
         [] failing = {} /\ \E i \in DOMAIN events : events[i].type = "done" -> Close(Completed)
         [] OTHER -> UNCHANGED <<stage, answer>>

(* n more tokens arrive in one fragment *)
FragmentArrives(n) ==
    LET fragment == SubSeq(left, 1, n)
        fed == Feed(parser, fragment)
    IN /\ stage = "sent"
       /\ request.stream
       /\ left' = SubSeq(left, n + 1, Len(left))
       /\ received' = received + Bytes(fragment)
       /\ IF received' > MaxResponse
          THEN /\ Close(StreamFails("response_too_large", "size"))
               /\ UNCHANGED <<parser, yielded>>
          ELSE /\ parser' = fed.parser
               /\ yielded' = yielded \o HandedOn(fed.events)
               /\ Settle(fed.events, Failing(fed.events))
       /\ UNCHANGED <<call, sent>>

(* the iterator is done: of what a flush emits only [DONE] and errors count *)
BodyEnds ==
    LET events == Flush(parser)
    IN /\ stage = "sent"
       /\ request.stream
       /\ left = <<>>
       /\ parser' = NewParser
       /\ IF \A i \in DOMAIN events : events[i].type \notin {"error", "done"}
          THEN Close(StreamFails("stream_error", "premature"))
          ELSE Settle(events, StreamErrors(events))
       /\ UNCHANGED <<call, sent, left, received, yielded>>

AdapterNext ==
    \/ NormalizeRequest
    \/ UpstreamAnswers
    \/ \E n \in 1..Len(left) : FragmentArrives(n)
    \/ BodyEnds

AdapterSpec == AdapterInit /\ [][AdapterNext]_adapterVars

-----------------------------------------------------------------------------
(* What a body says when it is read in one piece.                          *)

\* the parts of a sequence between the elements that are the mark
Split(s, mark) ==
    LET parts[i \in 0 .. Len(s)] ==
            IF i = 0 THEN <<<<>>>>
            ELSE IF s[i] = mark THEN Append(parts[i - 1], <<>>)
            ELSE Append(Front(parts[i - 1]), Append(Last(parts[i - 1]), s[i]))
    IN parts[Len(s)]

BodyLines(body) ==
    LET lines == Split(body, "lf")
    IN [i \in DOMAIN lines |-> StripCr(lines[i])]

\* the events that groups of lines spell, in order
EventsOf(groups) ==
    LET said[i \in 0 .. Len(groups)] ==
            IF i = 0 THEN <<>> ELSE said[i - 1] \o ParseEventData(Data(groups[i]))
    IN said[Len(groups)]

\* the events of a body: what stands between its blank lines
BodyEvents(body) == EventsOf(Split(BodyLines(body), <<>>))

\* the events up to the first [DONE]
UpToDone(events) ==
    LET done == {i \in DOMAIN events : events[i].type = "done"}
    IN IF done = {} THEN events ELSE SubSeq(events, 1, Min(done))

SaysDone(body) ==
    LET events == UpToDone(BodyEvents(body))
    IN events # <<>> /\ Last(events).type = "done" /\ Failing(events) = {}

\* nothing but white space follows the [DONE]
EndsWithDone(body) ==
    /\ SaysDone(body)
    /\ \A n \in DOMAIN body : SaysDone(SubSeq(body, 1, n)) => White(SubSeq(body, n + 1, Len(body)))

(* However the network cuts a body, the caller is handed the chunks that   *)
(* the whole body holds and in its order; it completes only when the body  *)
(* says [DONE] before any fault, with every chunk before it handed on; and *)
(* a sound body that ends with [DONE] fails for its size or not at all.    *)
(* (sse.js feed and flush, stream-executor.js safeEventGenerator)          *)
FragmentationIsInvisible ==
    stage = "closed" /\ request.stream /\ answer.state # "refused" =>
        LET heard == HandedOn(UpToDone(BodyEvents(upstream.body)))
        IN /\ IsPrefix(yielded, heard)
           /\ answer.state = "completed" => SaysDone(upstream.body) /\ yielded = heard
           /\ EndsWithDone(upstream.body) => answer.state = "completed" \/ answer.why \in {"size", "oversized"}

(* An answer or any choice of a chunk that calls tools is handed on only   *)
(* for a provider that declares tool calls, and a request asks only a      *)
(* provider that declares them to call tools.  (request.js, response.js    *)
(* and sse.js, each with its own check)                                    *)
ToolsAreDeclared ==
    \/ capability.toolCalls
    \/ /\ sent \cap {"tools", "tool_choice"} = {}
       /\ \A i \in DOMAIN yielded : \A j \in DOMAIN yielded[i] : ~yielded[i][j].tools

\* docs/openai-adapter-normalization.md, the taxonomy of section 3
Documented(status) ==
    CASE status \in {400, 404, 422} -> "request_invalid"
      [] status \in {401, 403} -> "upstream_authentication"
      [] status \in {408, 504} -> "timeout"
      [] status = 413 -> "request_too_large"
      [] status = 429 -> "upstream_rate_limit"
      [] status \in 500..599 \ {504} -> "upstream_server_error"
      [] OTHER -> "internal_execution_error"

\* an error whose words say nothing of a cause
IsPlain(e) == e.message \cup e.code \cup e.type = {}

\* the HTTP status the transport reports is seen: beside a nested error it is not, and
\* the error may have a status of its own
StatusReaches(u) == u.nested => u.error.status = u.status

\* the causes the words of an error stand for
WordsSay(e) ==
    {kind \in ToSet(Own) : kind \in e.code}
    \cup {kind \in {"stream_error"} : "stream" \in e.message}
    \cup {kind \in {"upstream_authentication"} :
             "api_key" \in e.message \/ "unauthorized" \in e.message \/ "invalid_api_key" \in e.code}
    \cup {kind \in {"upstream_rate_limit"} : "rate_limit" \in e.code \/ "requests" \in e.type}
    \cup {kind \in {"upstream_quota"} : "quota" \in e.code \cup e.type \cup e.message}
    \cup {kind \in {"timeout"} : "timeout" \in e.code \cup e.message}
    \cup {kind \in {"request_invalid"} : "invalid" \in e.code \cup e.type}

(* A stream that calls undeclared tools ends as an unsupported capability  *)
(* although its message mentions a stream.  An upstream error ends as a    *)
(* cause that a status it came with is documented for, or that one of its  *)
(* own words names, and as the fallback only if its words name none.       *)
(* Without such words the HTTP status decides, both kind and status, and a *)
(* 429 with nothing but a quota named is a quota; both only where the      *)
(* status reaches the adapter.  (error.js normalizeOpenAIError, executor.js*)
(* 516-529)                                                                *)
ErrorKeepsCause ==
    stage = "closed" =>
        /\ answer.why = "tools" => answer.code = "unsupported_capability"
        /\ answer.why = "upstream" =>
             LET e == upstream.error
                 http == upstream.status
             IN /\ answer.code \in WordsSay(e) \cup {Documented(http), Documented(ErrorSeen(upstream).status)}
                /\ answer.code = "internal_execution_error" => WordsSay(e) \subseteq {"upstream_quota"}
                /\ StatusReaches(upstream) =>
                     /\ IsPlain(e) => answer.code = Documented(http)
                     /\ http = 429 /\ WordsSay(e) = {"upstream_quota"} => answer.code = "upstream_quota"
                     /\ answer.status = NormalizedStatus([status |-> http])

=============================================================================
