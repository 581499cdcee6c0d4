------------------------------ MODULE Parsers ------------------------------
(***************************************************************************)
(* What the endpoint picker reads from bodies: the parsers (OpenAI, vLLM   *)
(* gRPC, passthrough), the model name it puts into a request, the usage it *)
(* takes from the response and the model name it puts back there.          *)
(* A response is a sequence of messages (lines of an event stream, gRPC    *)
(* frames, or one JSON document).  The proxy cuts it into chunks anywhere: *)
(* a message is two halves, and a chunk is an interval of halves <<a, b>>, *)
(* those from a + 1 to b.  A body that cannot be parsed is only logged.    *)
(* Of the usage the endpoint picker reports, for every chunk, the dynamic  *)
(* metadata the request-attribute-reporter plugins write for the proxy,    *)
(* and the histograms of tokens, times and sizes.                          *)
(* A CEL program is named by what it gives: "no" does not compile, "error" *)
(* fails, "text" has another type than asked for, "half" is no whole       *)
(* number, "minus" is -1; any other one is a field of the usage, and as a  *)
(* condition whether that field is positive.                               *)
(***************************************************************************)
EXTENDS Component, SequencesExt

CONSTANTS
    ParsedExchanges,   \* [parser, request, messages, eventStream]
    ReporterConfigs    \* sequences of configurations of attribute reporters

\* Usage{} before any usage was read
usageOrZero(u) == IF u = Nil THEN [prompt |-> 0, completion |-> 0, total |-> 0, cached |-> Nil] ELSE u

-----------------------------------------------------------------------------
\* request-attribute-reporter.  A configuration is a sequence of attributes
\* [namespace, name, expression, condition].

defaultNamespace == "envoy.lb"

\* New; Nil is an error
newReporter(config) ==
    LET a == config[1]
    IN IF Len(config) # 1 THEN Nil
       ELSE IF a.name = "" \/ a.expression \in {"", "no"} \/ a.condition = "no" THEN Nil
       ELSE [a EXCEPT !.namespace = IF @ = "" THEN defaultNamespace ELSE @]

\* shouldCalculateValue: an error, and a result that is no boolean, mean no.
shouldCalculateValue(a, u) ==
    \/ a.condition = ""
    \/ /\ a.condition \notin {"error", "text", "half", "minus"}
       /\ u[a.condition] # Nil /\ u[a.condition] > 0

\* calculateValue, truncated to an integer; -1 also stands for a wrong type, Nil for an error
calculateValue(a, u) ==
    CASE a.expression = "error" -> Nil
      [] a.expression \in {"text", "minus"} -> -1
      [] a.expression = "half" -> u.total \div 2
      [] OTHER -> u[a.expression]

\* ResponseBody of one plugin: zero and -1 are not written
reportAttribute(a, u, metadata) ==
    LET v == calculateValue(a, u)
        written == Lookup(metadata, a.namespace, <<>>)
    IN IF ~shouldCalculateValue(a, u) \/ v \in {Nil, -1, 0} THEN metadata
       ELSE With(metadata, a.namespace, With(written, a.name, v))

\* Director.HandleResponseBody: a new response for every chunk, filled by the
\* plugins one after the other
runReporters(reporters, u) ==
    FoldLeft(LAMBDA m, a : reportAttribute(a, usageOrZero(u), m), <<>>, reporters)

-----------------------------------------------------------------------------
\* The histograms, as the sequences of what was observed

noMeters == [input |-> <<>>, output |-> <<>>, cached |-> <<>>, latency |-> 0, perToken |-> 0, size |-> <<>>]

\* RecordInputTokens and RecordOutputTokens leave out zero.
positive(n) == IF n > 0 THEN <<n>> ELSE <<>>
recordTokens(m, u) ==
    [m EXCEPT !.input = @ \o positive(u.prompt), !.output = @ \o positive(u.completion),
              !.cached = IF u.cached = Nil THEN @ ELSE Append(@, u.cached)]

\* RecordNormalizedTimePerOutputToken, RecordRequestLatencies and
\* RecordResponseSizes; a completion is later than the request it answers
recordPerToken(m, u) == [m EXCEPT !.perToken = IF u.completion > 0 THEN @ + 1 ELSE @]
recordLatency(m) == [m EXCEPT !.latency = @ + 1]
recordSize(m, size) == [m EXCEPT !.size = Append(@, size)]
recordCompletion(m, u, size) == recordPerToken(recordSize(recordLatency(m), size), u)

-----------------------------------------------------------------------------
\* A reporter that cannot be made stops the start.  `sent` is the dynamic
\* metadata of the last message that was sent for the body.
ParsersInit ==
    \E x \in ParsedExchanges, configs \in ReporterConfigs :
      LET reporters == [k \in DOMAIN configs |-> newReporter(configs[k])]
      IN st = [x |-> x, pc |-> IF Nil \in Range(reporters) THEN "refused" ELSE "request", reporters |-> reporters,
            sent |-> Nil, meters |-> noMeters, api |-> Nil, streaming |-> FALSE, incoming |-> "", target |-> "",
            chunks |-> <<>>, pos |-> 0, usage |-> Nil, restored |-> {}]

-----------------------------------------------------------------------------
\* Requests.  A path is the set of the API paths it contains, {} when it is
\* empty; `fields` are the fields of the body that are valid and not empty.

APIs == <<"conversations", "responses", "chat", "completions", "embeddings">>
PromptField == [conversations |-> "items", responses |-> "input", chat |-> "messages",
                completions |-> "prompt", embeddings |-> "input"]

\* getRequestPath: the first header that is there.
getRequestPath(paths) ==
    LET there == SelectSeq(paths, LAMBDA p : p # {})
    IN IF there = <<>> THEN {"completions"} ELSE there[1]

determineAPITypeFromPath(path) ==
    LET known == SelectSeq(APIs, LAMBDA a : a \in path)
    IN IF known = <<>> THEN "completions" ELSE known[1]

\* The OpenAI request, parsed twice: as a map and by its API.  Nil is an error.
extractRequestBody(r) ==
    LET api == determineAPITypeFromPath(getRequestPath(r.paths))
    IN IF r.json /\ PromptField[api] \in r.fields THEN [api |-> api, payload |-> "map", stream |-> r.stream] ELSE Nil

\* A gRPC frame: only a complete one that is not compressed gives its message.
convertToLLMRequestBody(r) ==
    IF r.frame # "complete" \/ r.input = Nil THEN Nil
    ELSE CASE r.method = "Generate" -> [api |-> "completions", payload |-> "proto", stream |-> r.stream]
           [] r.method = "Embed" -> IF r.input = "tokenized" THEN [api |-> "embeddings", payload |-> "proto", stream |-> FALSE] ELSE Nil
           [] OTHER -> Nil

passthroughBody == [api |-> Nil, payload |-> "raw", stream |-> FALSE]

ParseRequest(x) ==
    CASE x.parser = "openai" -> extractRequestBody(x.request)
      [] x.parser = "vllmgrpc" -> convertToLLMRequestBody(x.request)
      [] x.parser = "passthrough" -> passthroughBody

\* processRequestBody: only a map has a model name, which must be a string and
\* may be empty.  `to` is the name the rewrite rules give, or else the model.
ProcessRequestBody ==
    /\ st.pc = "request"
    /\ LET body == ParseRequest(st.x)
           r == st.x.request
       IN st' = IF body = Nil THEN [st EXCEPT !.pc = "refused"]
                ELSE IF body.payload # "map"
                THEN [st EXCEPT !.pc = "response", !.api = body.api, !.streaming = body.stream \/ st.x.eventStream]
                ELSE IF r.model = Nil THEN [st EXCEPT !.pc = "refused"]
                ELSE [st EXCEPT !.pc = "response", !.api = body.api, !.streaming = body.stream \/ st.x.eventStream,
                                !.incoming = r.model, !.target = r.to]

-----------------------------------------------------------------------------
\* Usage.  A usage object is a function from the fields it has to numbers.

Count(u, names) ==
    LET there == SelectSeq(names, LAMBDA n : n \in DOMAIN u)
    IN IF there = <<>> THEN 0 ELSE u[there[1]]

usageOf(u, prompt, completion) ==
    [prompt |-> Count(u, prompt), completion |-> Count(u, completion), total |-> Count(u, <<"total_tokens">>),
     cached |-> Lookup(u, "cached_tokens", Nil)]

extractUsageByAPIType(u, object) ==
    CASE object \in {"response", "conversation"} -> usageOf(u, <<"input_tokens">>, <<"output_tokens">>)
      [] object \in {"chat.completion", "chat.completion.chunk", "text_completion"} ->
            usageOf(u, <<"prompt_tokens">>, <<"completion_tokens">>)
      [] OTHER -> usageOf(u, <<"input_tokens", "prompt_tokens">>, <<"output_tokens", "completion_tokens">>)

extractUsage(doc) == IF doc.usage = Nil THEN Nil ELSE extractUsageByAPIType(doc.usage, doc.object)

\* One line is decoded into a struct that keeps what earlier lines of the
\* chunk left in the fields this one does not have; an object adds to a map.
\* A line is JSON with the types the struct asks for, or it is not JSON at all:
\* what the decoder keeps of a line of other types is left out, and so are a
\* usage and numbers of other types, on which extractUsage would panic.
decodeLine(s, line) ==
    LET merged == IF line.nested = <<>> THEN s.nested
                  ELSE IF s.nested = Nil \/ line.nested[1] = Nil THEN line.nested[1]
                  ELSE line.nested[1] @@ s.nested
    IN [nested |-> merged, type |-> IF line.type = "" THEN s.type ELSE line.type,
        object |-> IF line.object = "" THEN s.object ELSE line.object,
        usage |-> IF line.usage # Nil THEN usageOf(line.usage, <<"prompt_tokens">>, <<"completion_tokens">>) ELSE Nil]

\* extractUsageStreaming: the first line with a usage, of those that are whole.
extractUsageStreaming(lines) ==
    FoldLeft(LAMBDA s, line :
               IF s.usage # Nil \/ ~line.json THEN s
               ELSE LET d == decodeLine(s, line)
                    IN IF d.usage = Nil /\ d.nested # Nil /\ d.type = "response.completed"
                       THEN [d EXCEPT !.usage = extractUsageByAPIType(d.nested, d.object)] ELSE d,
             [nested |-> Nil, type |-> "", object |-> "", usage |-> Nil], lines).usage

\* A gRPC message, decoded as a GenerateResponse and else as an EmbedResponse;
\* `generate` is what its bytes give as the former, Nil if nothing.
grpcUsage(m) ==
    IF m.generate # Nil
    THEN IF m.generate.prompt > 0 \/ m.generate.completion > 0
         THEN [prompt |-> m.generate.prompt, completion |-> m.generate.completion,
               total |-> m.generate.prompt + m.generate.completion, cached |-> m.generate.cached]
         ELSE Nil
    ELSE IF m.embedTokens > 0
         THEN [prompt |-> m.embedTokens, completion |-> 0, total |-> m.embedTokens, cached |-> Nil]
         ELSE Nil

-----------------------------------------------------------------------------
\* Responses

Halves == 2 * Len(st.x.messages)
Covers(c, i) == c[1] =< 2 * i - 2 /\ 2 * i =< c[2]
wholeMessages(c) ==
    LET whole == SelectSeq([i \in DOMAIN st.x.messages |-> i], LAMBDA i : Covers(c, i))
    IN [k \in DOMAIN whole |-> st.x.messages[whole[k]]]

\* The frame at the head of a chunk, the only one that is read, if it is complete.
firstFrame(c) == IF c[1] % 2 = 0 /\ c[1] + 2 =< c[2] THEN st.x.messages[c[1] \div 2 + 1] ELSE Nil

\* ParseResponse of the interval c.
ParseResponse(c) ==
    IF st.x.parser = "passthrough" \/ c[1] = c[2] THEN Nil
    ELSE IF st.x.parser = "vllmgrpc" THEN IF firstFrame(c) = Nil THEN Nil ELSE grpcUsage(firstFrame(c))
    ELSE IF st.x.eventStream THEN extractUsageStreaming(wholeMessages(c))
    ELSE IF Covers(c, 1) THEN extractUsage(st.x.messages[1]) ELSE Nil

\* The messages of c whose model name, in that spacing, is not cut.
namesIn(c, spacing) ==
    {i \in DOMAIN st.x.messages : LET m == st.x.messages[i]
                                  IN m.name = spacing /\ (Covers(c, i) \/ (~m.nameCut /\ c[1] =< 2*i - 2 /\ 2*i - 1 =< c[2]))}

\* rewriteModelName: the names without a space, or if there are none those with one.
rewriteModelName(c) ==
    IF st.target = "" \/ st.incoming = "" \/ st.target = st.incoming THEN {}
    ELSE IF namesIn(c, "tight") # {} THEN namesIn(c, "tight") ELSE namesIn(c, "spaced")

\* HandleResponseBody: a usage replaces the one before; the plugins are shown
\* the one there is.
applyUsage(s, c) ==
    LET read == ParseResponse(c)
        u == IF read = Nil THEN s.usage ELSE read
        counted == IF read = Nil THEN s.meters ELSE recordTokens(s.meters, read)
    IN [s EXCEPT !.usage = u,
                 !.meters = IF s.pc = "done" THEN recordCompletion(counted, usageOrZero(u), s.pos) ELSE counted,
                 !.sent = runReporters(s.reporters, u)]

\* finishResponse at the end of a stream or at the trailers: a response that
\* is not streamed has been collected; one that is has nothing left to read.
finishResponse(s) ==
    IF s.streaming THEN [applyUsage([s EXCEPT !.pc = "done"], <<s.pos, s.pos>>) EXCEPT !.sent = s.sent]
    ELSE applyUsage([s EXCEPT !.pc = "done", !.restored = @ \cup rewriteModelName(<<0, s.pos>>)], <<0, s.pos>>)

\* A chunk up to half b; the last may be empty.
ResponseBody(b, endOfStream) ==
    /\ st.pc = "response" /\ b >= st.pos /\ (b = st.pos => endOfStream) /\ (endOfStream => b = Halves)
    /\ LET c == <<st.pos, b>>
           s == [st EXCEPT !.pos = b, !.chunks = Append(@, c)]
       IN st' = IF st.streaming
                THEN applyUsage([s EXCEPT !.restored = @ \cup rewriteModelName(c),
                                                   !.pc = IF endOfStream THEN "done" ELSE @], c)
                ELSE IF endOfStream THEN finishResponse(s) ELSE s

ResponseTrailers == /\ st.pc = "response" /\ st.pos = Halves
                    /\ st' = finishResponse(st)

ParsersNext == \/ ProcessRequestBody
               \/ \E b \in 0..Halves, endOfStream \in BOOLEAN : ResponseBody(b, endOfStream)
               \/ ResponseTrailers

-----------------------------------------------------------------------------
\* The usage that message i alone reports.
Reported(i) ==
    LET m == st.x.messages[i]
    IN IF st.x.parser = "vllmgrpc" THEN grpcUsage(m)
       ELSE IF st.x.eventStream THEN extractUsageStreaming(<<m>>) ELSE extractUsage(m)

(***************************************************************************)
(* However the proxy cuts a response: one that is not streamed is read as  *)
(* a whole, so its usage is the document's and every model name is put     *)
(* back.  The usage of a streamed one is that of the last chunk that holds *)
(* a usage whole (its first, in an event stream; the frame at its head, in *)
(* gRPC), so a usage that is cut, or a frame that does not come first, is  *)
(* lost; a plain answer to a streaming request is read only if it comes in *)
(* one chunk.  The target's name is shown to the client only where a cut   *)
(* goes through it or a chunk mixes two spacings, and wherever the request *)
(* has an empty model name, which is accepted and never put back.  A       *)
(* request that is accepted has the prompt its API needs and a model.      *)
(* Whatever was read is reported: each message for the body carries the    *)
(* attributes the reporters compute from the usage known by then, all of   *)
(* them, so the last one carries those of the usage that counts; time and  *)
(* size are recorded exactly once, tokens as often as a chunk told a usage.*)
(***************************************************************************)
UsageCounted ==
    part = "parsers" =>
      LET n == Len(st.x.messages)
          InOrder(c) == SelectSeq([i \in 1..n |-> i], LAMBDA i : Covers(c, i) /\ Reported(i) # Nil)
          Frames(c) == SelectSeq(InOrder(c), LAMBDA i : c[1] = 2 * i - 2)
          Read(c) == IF st.x.parser = "vllmgrpc" THEN Frames(c) ELSE InOrder(c)
          units == IF st.streaming THEN st.chunks ELSE <<<<0, Halves>>>>
          telling == SelectSeq(units, LAMBDA c : Read(c) # <<>>)
      IN /\ st.pc = "done" /\ st.x.parser # "passthrough" =>
              st.usage = IF telling = <<>> THEN Nil ELSE Reported(Read(telling[Len(telling)])[1])
         /\ st.pc = "done" /\ st.x.parser = "openai" /\ st.incoming # st.target /\ st.target # "" =>
              \A i \in 1..n : \/ i \in st.restored \/ st.x.messages[i].name = "" \/ st.incoming = ""
                              \/ st.x.messages[i].nameCut /\ ~\E k \in DOMAIN units : Covers(units[k], i)
                              \/ st.x.messages[i].name = "spaced" /\ \E k \in DOMAIN units :
                                    namesIn(units[k], "tight") # {} /\ i \in namesIn(units[k], "spaced")
         /\ st.pc = "response" /\ st.x.parser = "openai" =>
              PromptField[st.api] \in st.x.request.fields /\ st.x.request.model # Nil
         /\ st.pc = "done" /\ (~st.streaming \/ Len(st.chunks) > 0) => \A k \in DOMAIN st.reporters :
              LET a == st.reporters[k]
                  u == usageOrZero(st.usage)
                  v == calculateValue(a, u)
                  later == \E j \in DOMAIN st.reporters : j > k /\ st.reporters[j].namespace = a.namespace
                                                        /\ st.reporters[j].name = a.name
              IN shouldCalculateValue(a, u) /\ v \notin {Nil, -1, 0} /\ ~later =>
                   a.namespace \in DOMAIN st.sent /\ Lookup(st.sent[a.namespace], a.name, Nil) = v
         /\ st.meters.latency = (IF st.pc = "done" THEN 1 ELSE 0)
         /\ st.pc = "done" => st.meters.size = <<Halves>> /\ Len(st.meters.input) =< Len(telling)
         /\ st.meters.perToken =< Len(st.meters.output)
=============================================================================
