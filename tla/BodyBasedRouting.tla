-------------------------- MODULE BodyBasedRouting --------------------------
(***************************************************************************)
(* The body-based router (cmd/bbr, pkg/bbr): its start from the command    *)
(* line, and one external-processing stream with the proxy, in streaming   *)
(* (full-duplex) and in buffered mode.  A body is [len, valid, model]: its *)
(* length, whether it parses, and its "model" field (Nil when absent).     *)
(***************************************************************************)
EXTENDS AdapterStore, SequencesExt

CONSTANTS
    RouterOptions,     \* [ports, streaming, specs]: ports are <<grpc, health, metrics>>
    Exchanges,         \* [request, requestTrailers, response, responseTrailers], bodies Nil when absent
    ResponsePlugins,   \* sequences of custom response plugins linked into the binary
    RouterStore,       \* what the adapter store holds when the request comes
    ChunkLimit,        \* BodyByteLimit
    MaxPort            \* 65535

ModelHeader == "X-Gateway-Model-Name"
BaseModelHeader == "X-Gateway-Base-Model-Name"
ContentLength == "Content-Length"

-----------------------------------------------------------------------------
\* Start (cmd/bbr/runner/runner.go, server/options.go, config/spec.go)

specAccepted(s) == s.segments >= 2 /\ s.type # "" /\ s.name # "" /\ s.valid

optionsValid(o) ==
    /\ \A i \in DOMAIN o.ports : o.ports[i] \in 1..MaxPort
    /\ Cardinality(ToSet(o.ports)) = Len(o.ports)

Registry == {"body-field-to-header", "base-model-to-header", "custom"}

newBodyFieldToHeader(field, header) ==
    IF field = "" \/ header = "" THEN Nil ELSE [type |-> "body-field-to-header", field |-> field, header |-> header]

\* The instance a factory makes of a spec, Nil when it returns an error.
factory(s) ==
    IF s.type = "body-field-to-header"
    THEN (IF s.json = Nil THEN Nil ELSE newBodyFieldToHeader(s.json.field, s.json.header))
    ELSE IF s.type = "base-model-to-header" THEN [type |-> s.type] ELSE [type |-> s.type, ops |-> s.json]

DefaultPlugins == <<newBodyFieldToHeader("model", ModelHeader), [type |-> "base-model-to-header"]>>

\* An unknown plugin type makes Run return the error of an earlier call, nil.
startFailure(specs) ==
    LET bad == {i \in DOMAIN specs : IF specs[i].type \in Registry THEN factory(specs[i]) = Nil ELSE TRUE}
    IN IF bad = {} THEN Nil
       ELSE LET first == CHOOSE i \in bad : \A j \in bad : i =< j
            IN IF specs[first].type \in Registry THEN "error" ELSE "exit"

RouterRun ==
    /\ st.stage = "starting"
    /\ LET o == st.opts
           failure == startFailure(o.specs)
       IN IF (\E i \in DOMAIN o.specs : ~specAccepted(o.specs[i])) \/ ~optionsValid(o)
          THEN st' = [st EXCEPT !.stage = "error"]
          ELSE IF failure # Nil THEN st' = [st EXCEPT !.stage = failure]
          ELSE st' = [st EXCEPT !.stage = "serving",
                        !.requestPlugins = IF o.specs = <<>> THEN DefaultPlugins
                                           ELSE [i \in DOMAIN o.specs |-> factory(o.specs[i])]]

-----------------------------------------------------------------------------
\* The messages a plugin sees (framework/types.go)

newInferenceMessage == [headers |-> <<>>, body |-> Nil, mutated |-> <<>>, removed |-> {}, bodyMutated |-> FALSE]

SetHeader(m, k, v) ==
    IF k \in DOMAIN m.headers /\ Lookup(m.headers, k, Nil) = v THEN m
    ELSE [m EXCEPT !.headers = With(@, k, v), !.mutated = With(@, k, v), !.removed = @ \ {k}]

RemoveHeader(m, k) ==
    IF k \notin DOMAIN m.headers THEN m
    ELSE [m EXCEPT !.headers = Without(@, {k}), !.mutated = Without(@, {k}), !.removed = @ \cup {k}]

SetBody(m, body) == [m EXCEPT !.body = body, !.bodyMutated = TRUE]

SetBodyField(m, v) ==
    SetBody(m, [m.body EXCEPT !.model = v, !.len = IF m.body.model = Nil THEN @ + 1 ELSE @])

RemoveBodyField(m) ==
    IF m.body.model = Nil THEN m ELSE SetBody(m, [m.body EXCEPT !.model = Nil, !.len = @ - 1])

\* A plugin of another package may call any of the methods, in any order.
applyOp(m, op) ==
    CASE op.op = "setHeader" -> SetHeader(m, op.key, op.value)
      [] op.op = "removeHeader" -> RemoveHeader(m, op.key)
      [] op.op = "setBody" -> SetBody(m, op.body)
      [] op.op = "setField" -> SetBodyField(m, op.value)
      [] op.op = "removeField" -> RemoveBodyField(m)
      [] OTHER -> m

bodyFieldToHeader(p, m) ==
    IF m.body.model \in {Nil, ""} \/ p.field # "model" THEN m ELSE SetHeader(m, p.header, m.body.model)

baseModelToHeader(m) ==
    IF m.body.model = Nil THEN m
    ELSE LET base == getBaseModel(RouterStore, m.body.model)
         IN SetHeader(m, BaseModelHeader, IF base = Nil THEN "" ELSE base)

fails(p) == p.type = "custom" /\ (IF p.type = "custom" THEN \E i \in DOMAIN p.ops : p.ops[i].op = "fail" ELSE FALSE)

processWith(m, p) ==
    CASE p.type = "body-field-to-header" -> bodyFieldToHeader(p, m)
      [] p.type = "base-model-to-header" -> baseModelToHeader(m)
      [] OTHER -> FoldLeft(applyOp, m, p.ops)

runPlugins(plugins, m) == FoldLeft(processWith, m, plugins)

-----------------------------------------------------------------------------
\* The stream (handlers/server.go, request.go, response.go).  `at` is the next
\* message the proxy has for the server, `got` the bytes of the body so far.

BodyRoutingInit ==
    \E o \in RouterOptions, x \in Exchanges, p \in ResponsePlugins :
       st = [stage |-> "starting", opts |-> o, requestPlugins |-> <<>>, responsePlugins |-> p, exchange |-> x,
             at |-> "requestHeaders", got |-> 0, request |-> newInferenceMessage,
             response |-> newInferenceMessage, sent |-> <<>>]

answer(kind, m) == [kind |-> kind, set |-> m.mutated, remove |-> m.removed, len |-> 0, eos |-> FALSE]
bare(kind) == answer(kind, newInferenceMessage)

buildChunked(kind, len) ==
    IF len = 0 THEN <<[bare(kind) EXCEPT !.eos = TRUE]>>
    ELSE LET n == (len + ChunkLimit - 1) \div ChunkLimit
         IN [i \in 1..n |-> [bare(kind) EXCEPT !.len = Min2(ChunkLimit, len - ((i - 1) * ChunkLimit)), !.eos = i = n]]

sendAll(answers, at) == [st EXCEPT !.sent = @ \o answers, !.at = at, !.got = 0]
fail(code) == [st EXCEPT !.at = "closed", !.sent = IF code = "Unknown" THEN @ ELSE Append(@, bare("immediate"))]

RequestHeadersArrive ==
    /\ st.stage = "serving" /\ st.at = "requestHeaders"
    /\ LET x == st.exchange
           eos == x.request = Nil /\ ~x.requestTrailers
           next == IF x.request # Nil THEN "requestBody"
                   ELSE IF x.requestTrailers THEN "requestTrailers" ELSE "responseHeaders"
           s == sendAll(IF st.opts.streaming /\ ~eos THEN <<>> ELSE <<bare("requestHeaders")>>, next)
       IN st' = [s EXCEPT !.request.headers = ("x-request-id" :> "id")]

\* Mutant: the length announced is that of the body received.
lengthReceived(m, body) ==
    LET len == IF m.bodyMutated THEN m.body.len ELSE body.len
        final == SetHeader(m, ContentLength, body.len)
    IN IF st.opts.streaming
       THEN <<answer("requestHeaders", final)>> \o buildChunked("requestBody", len)
       ELSE <<[answer("requestBody", final) EXCEPT !.len = IF m.bodyMutated THEN len ELSE Nil]>>
\* HandleRequestBody on a body that parses, its plugins having run without error.
requestBodyAnswers(m, body) ==
    LET len == IF m.bodyMutated THEN m.body.len ELSE body.len
        final == IF m.bodyMutated \/ st.opts.streaming THEN SetHeader(m, ContentLength, len) ELSE m
    IN IF st.opts.streaming
       THEN <<answer("requestHeaders", final)>> \o buildChunked("requestBody", len)
       ELSE <<[answer("requestBody", final) EXCEPT !.len = IF m.bodyMutated THEN len ELSE Nil]>>

HandleRequestBody(body) ==
    LET m == runPlugins(st.requestPlugins, [st.request EXCEPT !.body = body])
        next == IF st.exchange.requestTrailers THEN "requestTrailers" ELSE "responseHeaders"
    IN IF ~body.valid THEN fail("BadRequest")
       ELSE IF \E i \in DOMAIN st.requestPlugins : fails(st.requestPlugins[i]) THEN fail("Unknown")
       ELSE [sendAll(requestBodyAnswers(m, body), next) EXCEPT !.request = m]

\* The last chunk carries the end of the stream unless trailers follow; in
\* buffered mode the body comes in one message.
RequestBodyArrives ==
    /\ st.stage = "serving" /\ st.at = "requestBody"
    /\ LET x == st.exchange
       IN \E n \in (IF st.opts.streaming THEN 0..(x.request.len - st.got) ELSE {x.request.len}) :
             LET last == st.got + n = x.request.len
                 eos == last /\ ~x.requestTrailers
             IN /\ n > 0 \/ last
                /\ st' = IF st.opts.streaming /\ ~eos
                         THEN [st EXCEPT !.got = @ + n, !.at = IF last THEN "requestTrailers" ELSE @]
                         ELSE HandleRequestBody(x.request)

RequestTrailersArrive ==
    /\ st.stage = "serving" /\ st.at = "requestTrailers"
    /\ st' = sendAll(<<bare("requestTrailers")>>, "responseHeaders")

\* The proxy has a response once it could forward the request.
Answered(kind) == \E i \in DOMAIN st.sent : st.sent[i].kind = kind

ResponseHeadersArrive ==
    /\ st.stage = "serving" /\ st.at = "responseHeaders" /\ Answered("requestHeaders")
    /\ LET x == st.exchange
           eos == x.response = Nil /\ ~x.responseTrailers
           next == IF x.response # Nil THEN "responseBody"
                   ELSE IF x.responseTrailers THEN "responseTrailers" ELSE "done"
           s == sendAll(IF st.opts.streaming /\ ~eos THEN <<>> ELSE <<bare("responseHeaders")>>, next)
       IN st' = [s EXCEPT !.response.headers = ("server" :> "s")]

generateEmptyResponseBodyResponse(body) ==
    IF st.opts.streaming THEN <<bare("responseHeaders")>> \o buildChunked("responseBody", body.len)
    ELSE <<[bare("responseBody") EXCEPT !.len = Nil]>>

responseBodyAnswers(m, body) ==
    LET len == IF m.bodyMutated THEN m.body.len ELSE body.len
        final == IF m.bodyMutated THEN SetHeader(m, ContentLength, len) ELSE m
    IN IF st.opts.streaming
       THEN <<answer("responseHeaders", final)>> \o buildChunked("responseBody", len)
       ELSE <<[answer("responseBody", final) EXCEPT !.len = IF m.bodyMutated THEN len ELSE Nil]>>

HandleResponseBody(body) ==
    LET m == runPlugins(st.responsePlugins, [st.response EXCEPT !.body = body])
        next == IF st.exchange.responseTrailers THEN "responseTrailers" ELSE "done"
    IN IF st.responsePlugins = <<>> \/ ~body.valid
       THEN sendAll(generateEmptyResponseBodyResponse(body), next)
       ELSE IF \E i \in DOMAIN st.responsePlugins : fails(st.responsePlugins[i]) THEN fail("Unknown")
       ELSE [sendAll(responseBodyAnswers(m, body), next) EXCEPT !.response = m]

ResponseBodyArrives ==
    /\ st.stage = "serving" /\ st.at = "responseBody"
    /\ LET x == st.exchange
       IN \E n \in (IF st.opts.streaming THEN 0..(x.response.len - st.got) ELSE {x.response.len}) :
             LET last == st.got + n = x.response.len
                 eos == last /\ ~x.responseTrailers
             IN /\ n > 0 \/ last
                /\ st' = IF st.opts.streaming /\ ~eos
                         THEN [st EXCEPT !.got = @ + n, !.at = IF last THEN "responseTrailers" ELSE @]
                         ELSE HandleResponseBody(x.response)

ResponseTrailersArrive ==
    /\ st.stage = "serving" /\ st.at = "responseTrailers"
    /\ st' = sendAll(<<bare("responseTrailers")>>, "done")

\* The proxy closes or cancels the stream, or a receive or a send fails.
StreamEnds ==
    /\ st.stage = "serving" /\ st.at # "closed"
    /\ st' = [st EXCEPT !.at = "closed"]

BodyRoutingNext ==
    \/ RouterRun
    \/ RequestHeadersArrive \/ RequestBodyArrives \/ RequestTrailersArrive
    \/ ResponseHeadersArrive \/ ResponseBodyArrives \/ ResponseTrailersArrive
    \/ StreamEnds

-----------------------------------------------------------------------------
AnswersOf(kind) == SelectSeq(st.sent, LAMBDA a : a.kind = kind)
KindOrder == <<"requestHeaders", "requestBody", "requestTrailers", "responseHeaders", "responseBody",
               "responseTrailers", "immediate">>
RankOf(kind) == CHOOSE i \in DOMAIN KindOrder : KindOrder[i] = kind

InOrder ==
    \A i, j \in DOMAIN st.sent : i < j =>
       \/ RankOf(st.sent[i].kind) < RankOf(st.sent[j].kind)
       \/ st.sent[i].kind = st.sent[j].kind /\ st.sent[i].kind \in {"requestBody", "responseBody"}

\* The chunks of a streamed body are the whole of it, within the limit, and only
\* the last ends the stream; a Content-Length sent with them is their length.
BodyWhole(headersKind, bodyKind, m, body) ==
    LET chunks == AnswersOf(bodyKind)
        total == FoldLeft(LAMBDA n, c : n + c.len, 0, chunks)
    IN chunks # <<>> =>
         /\ total = IF m.bodyMutated THEN m.body.len ELSE body.len
         /\ \A i \in DOMAIN chunks : chunks[i].len =< ChunkLimit /\ (chunks[i].eos <=> i = Len(chunks))
         /\ \A i \in DOMAIN st.sent :
               (st.sent[i].kind = headersKind /\ ContentLength \in DOMAIN st.sent[i].set) =>
                  st.sent[i].set[ContentLength] = total

\* Applying the mutations of an answer to the message the proxy holds gives the
\* headers the plugins left, the length apart.
MutationsExact(kinds, m, original) ==
    \A i \in DOMAIN st.sent : st.sent[i].kind \in kinds /\ m.body # Nil =>
       LET a == st.sent[i]
           applied == [k \in (DOMAIN original \ a.remove) \cup DOMAIN a.set |->
                         IF k \in DOMAIN a.set THEN a.set[k] ELSE original[k]]
       IN Without(applied, {ContentLength}) = m.headers

(***************************************************************************)
(* What the proxy is told is consistent.  Answers come in the order of the *)
(* messages, headers before the body they describe; a streamed body is     *)
(* passed on whole, in chunks within the limit, and under the              *)
(* Content-Length of what is sent, mutated or not; the header mutations    *)
(* applied to the original headers give exactly what the plugins left; and *)
(* with the default plugins the request carries its model and its base     *)
(* model.  Every request and response whose last message has come has its  *)
(* headers answered, with one exception: in streaming mode nothing but the *)
(* trailers is answered when a message ends in trailers.  The process ends *)
(* without an error only for a plugin type that nobody registered.         *)
(***************************************************************************)
RoutedByBody ==
    part = "bodyrouting" =>
      /\ InOrder
      /\ st.opts.streaming =>
           /\ BodyWhole("requestHeaders", "requestBody", st.request, st.exchange.request)
           /\ BodyWhole("responseHeaders", "responseBody", st.response, st.exchange.response)
      /\ LET kinds == IF st.opts.streaming THEN {"requestHeaders"} ELSE {"requestBody"}
             responseKinds == IF st.opts.streaming THEN {"responseHeaders"} ELSE {"responseBody"}
         IN /\ MutationsExact(kinds, st.request, ("x-request-id" :> "id"))
            /\ MutationsExact(responseKinds, st.response, ("server" :> "s"))
            /\ \A i \in DOMAIN st.sent :
                  (st.sent[i].kind \in kinds /\ st.request.body # Nil /\ st.opts.specs = <<>>) =>
                     LET model == st.exchange.request.model
                         base == getBaseModel(RouterStore, model)
                     IN /\ Lookup(st.sent[i].set, ModelHeader, "") = (IF model = Nil THEN "" ELSE model)
                        /\ model # Nil => st.sent[i].set[BaseModelHeader] = (IF base = Nil THEN "" ELSE base)
      /\ st.at = "responseHeaders" =>
            (Answered("requestHeaders") <=> ~(st.opts.streaming /\ st.exchange.requestTrailers))
      /\ st.at = "done" =>
            (Answered("responseHeaders") <=> ~(st.opts.streaming /\ st.exchange.responseTrailers))
      /\ (st.stage = "exit" => \E i \in DOMAIN st.opts.specs : st.opts.specs[i].type \notin Registry)
=============================================================================
