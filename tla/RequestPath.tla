---------------------------- MODULE RequestPath ----------------------------
(***************************************************************************)
(* The path of a request through the endpoint picker: the ext_proc stream  *)
(* server (Process), the director it calls when the body is complete       *)
(* (admission, candidates, per-request data, scheduling, PreRequest hooks) *)
(* and the hooks of the in-flight load producer and the eviction plugin,   *)
(* which count on the director to call them once each.                     *)
(*                                                                         *)
(* A stream is one goroutine.  A step is the handling of one message from  *)
(* Envoy, its responses included; the director is cut where it blocks or   *)
(* works on a copy of shared state.  Returning from Process runs the       *)
(* deferred function in the same step.                                     *)
(***************************************************************************)
EXTENDS InFlightLoad, EvictionQueue

CONSTANTS
  FlowControl,      \* is the flow control layer on?
  MaxTargets,       \* endpoints the picker may return
  MaxChunks,        \* response chunks before the last one
  Varied,           \* streams whose messages vary and whose sends may fail; the
                    \* others send one body and get one, or disconnect: a bound
  Pools,            \* the endpoints to start with; only a pool of one loses its
  MaxDeletes        \* pod, at most MaxDeletes times: bounds

ASSUME PathAssumption ==
  /\ IsFiniteSet(Requests)
  /\ "none" \notin Endpoints
  /\ Pools \subseteq SUBSET Endpoints
  /\ MaxTargets \in Nat

VARIABLES
  ctx,              \* the RequestContext of each stream
  pods,             \* the endpoints of the datastore
  pending,          \* deletions the datastore or the producer has still to learn of
  deletes,          \* pods deleted so far
  dropped           \* endpoint |-> what deletions took from its request counter

podVars == <<pods, pending, deletes>>
vars == <<ctx, podVars, dropped, loadVars, evictionVars>>

RequestReceived == 0
HeaderRequestResponseComplete == 1
BodyRequestResponsesComplete == 2
ResponseReceived == 4
\* Mutant: sending the response headers does not advance the state.
NotAdvanced == 4
HeaderResponseResponseComplete == 5
BodyResponseResponsesComplete == 6

None == "none"

NewContext ==
  [ pc |-> "recv",            \* where the goroutine is
    phase |-> "init",         \* what Envoy has sent
    RequestState |-> RequestReceived,
    targets |-> << >>,        \* TargetEndpoint; its head is TargetPod
    candidates |-> {},        \* the scheduler's copies of the endpoints
    streaming |-> FALSE, complete |-> FALSE,
    body |-> {},              \* whose bytes the body buffer holds
    reqHeader |-> FALSE, reqBody |-> FALSE,
    respHeader |-> FALSE, respBody |-> << >>, respTrailer |-> FALSE,
    chunks |-> 0,
    cancelled |-> FALSE,      \* the stream's context
    sent |-> << >>,           \* what the stream has sent to Envoy
    started |-> 0, finished |-> 0 ]   \* PreRequest and final ResponseBody hooks run

TargetPod(c) == IF c.targets = << >> THEN None ELSE Head(c.targets)

-----------------------------------------------------------------------------
(* The responses.                                                          *)

\* BuildChunkedBodyResponses: the end of stream goes with the last chunk.
bodyResponses(eos) == <<IF eos THEN "respBodyEos" ELSE "respBody">>

\* The messages updateStateAndSendIfNeeded would send, in its order.
pendingResponses(c) ==
  LET h1 == c.RequestState = RequestReceived /\ c.reqHeader
      b1 == (h1 \/ c.RequestState = HeaderRequestResponseComplete) /\ c.reqBody
      h2 == c.RequestState = ResponseReceived /\ c.respHeader
      b2 == h2 \/ c.RequestState = HeaderResponseResponseComplete
      t2 == ((b2 /\ c.complete) \/ c.RequestState = BodyResponseResponsesComplete) /\ c.respTrailer
  IN  (IF h1 THEN <<"reqHeader">> ELSE << >>) \o (IF b1 THEN <<"reqBody">> ELSE << >>)
      \o (IF h2 THEN <<"respHeader">> ELSE << >>) \o (IF b2 THEN c.respBody ELSE << >>)
      \o (IF t2 THEN <<"respTrailer">> ELSE << >>)

\* The context once all of them are sent.
sentAll(c) ==
  LET h1 == c.RequestState = RequestReceived /\ c.reqHeader
      b1 == (h1 \/ c.RequestState = HeaderRequestResponseComplete) /\ c.reqBody
      h2 == c.RequestState = ResponseReceived /\ c.respHeader
      b2 == h2 \/ c.RequestState = HeaderResponseResponseComplete
  IN  [c EXCEPT !.sent = @ \o pendingResponses(c),
                !.RequestState = CASE b1 -> BodyRequestResponsesComplete
                                   [] h1 /\ ~b1 -> HeaderRequestResponseComplete
                                   [] b2 /\ c.complete -> BodyResponseResponsesComplete
                                   [] h2 /\ ~c.complete -> HeaderResponseResponseComplete
                                   [] OTHER -> c.RequestState,
                !.reqBody = @ /\ ~b1,
                !.respBody = IF b2 THEN << >> ELSE @]

-----------------------------------------------------------------------------
(* The hooks.                                                              *)

NoHooks == UNCHANGED <<loadVars, evictionVars>>

\* runPreRequestPlugins
runPreRequestPlugins(s, targets) == LoadPreRequest(s, targets) /\ EvictionPreRequest(s)

completionHooks(s, c) == LoadResponseBody(s, TargetPod(c)) /\ EvictionResponseBody(s)

\* runResponseBodyPlugins: the hooks skip chunks before the last one, and
\* requests the director has not scheduled.
runResponseBodyPlugins(s, c, eos) == IF eos THEN completionHooks(s, c) ELSE NoHooks

\* Mutant: the deferred function runs the completion hooks unconditionally.
forceAlways(c) == TargetPod(c) # None

\* A scheduled request whose response was never marked complete.
forceCompletion(c) == TargetPod(c) # None /\ ~c.complete

\* Process returns: the deferred function.
Return(s, c) ==
  /\ ctx' = [ctx EXCEPT ![s] = [NewContext EXCEPT
                !.pc = "done", !.cancelled = TRUE, !.targets = c.targets, !.started = c.started,
                !.finished = c.finished + IF forceCompletion(c) THEN 1 ELSE 0]]
  /\ runResponseBodyPlugins(s, c, forceCompletion(c))

\* An error becomes an immediate response; whether or not Envoy gets it, the
\* stream ends.
ReturnError(s, c) ==
  /\ \E q \in {<<"immediate">>} \union IF s \in Varied THEN {<< >>} ELSE {} :
       ctx' = [ctx EXCEPT ![s] = [c EXCEPT !.pc = "return", !.sent = @ \o q]]
  /\ NoHooks

\* updateStateAndSendIfNeeded: all responses go out and the stream waits for
\* the next message, or one fails and the stream ends.
updateStateAndSendIfNeeded(s, c, hooks) ==
  \/ /\ ctx' = [ctx EXCEPT ![s] = [sentAll(c) EXCEPT !.pc = "recv"]]
     /\ hooks
  \/ s \in Varied /\ \E n \in 0..(Len(pendingResponses(c)) - 1) :
       /\ ctx' = [ctx EXCEPT ![s] = [c EXCEPT !.pc = "return",
                                               !.sent = @ \o SubSeq(pendingResponses(c), 1, n)]]
       /\ hooks

\* Mutant: a failed send is only logged.
LogOnly(s) == ctx[s].pc = "return" /\ UNCHANGED vars

\* After an error or a failed send.
Deferred(s) ==
  /\ ctx[s].pc = "return"
  /\ Return(s, ctx[s])
  /\ UNCHANGED <<podVars, dropped>>

Receiving(s, phases) == ctx[s].pc = "recv" /\ ~ctx[s].cancelled /\ ctx[s].phase \in phases

-----------------------------------------------------------------------------
(* The request messages.                                                   *)

\* HandleRequestHeaders: a request without a body goes to a random endpoint.
RecvRequestHeaders(s, eos) ==
  /\ Receiving(s, {"init"})
  /\ LET c == [ctx[s] EXCEPT !.phase = IF eos THEN "reqDone" ELSE "reqBody"]
     IN  IF eos /\ pods = {}
         THEN ReturnError(s, c)
         ELSE updateStateAndSendIfNeeded(s, [c EXCEPT !.reqHeader = eos], NoHooks)
  /\ UNCHANGED <<podVars, dropped>>

\* A chunk of the request body, and the last one, which the director handles.
RecvRequestBody(s, eos) ==
  /\ Receiving(s, {"reqBody"})
  /\ eos \/ "request" \notin ctx[s].body
  /\ ctx' = [ctx EXCEPT ![s].body = IF eos THEN {} ELSE {"request"},
                        ![s].phase = IF eos THEN "reqDone" ELSE @,
                        ![s].pc = IF eos THEN "admit" ELSE @]
  /\ UNCHANGED <<podVars, dropped, loadVars, evictionVars>>

\* Request trailers are not used: the director is never called, and there is
\* nothing to send.
RecvRequestTrailers(s) ==
  /\ Receiving(s, {"reqBody"})
  /\ ctx' = [ctx EXCEPT ![s].phase = "reqDone"]
  /\ UNCHANGED <<podVars, dropped, loadVars, evictionVars>>

-----------------------------------------------------------------------------
(* Director.HandleRequest                                                  *)

\* A body that does not parse, or an admission error.
HandleRequestRejected(s) ==
  /\ ctx[s].pc = "admit"
  /\ ReturnError(s, ctx[s])
  /\ UNCHANGED <<podVars, dropped>>

\* rejectIfSheddableAndSaturated
LegacyAdmit(s) == PriorityOf[s] >= 0 \/ ~Saturated(pods)

\* Admit: the flow control layer dispatches the request when it pleases (see
\* ShardProcessor) or reports an error, a cancelled context included.  Then
\* Locate and toSchedulerEndpoints: the scheduler gets copies of the endpoints.
Admit(s) ==
  /\ ctx[s].pc = "admit"
  /\ FlowControl \/ LegacyAdmit(s)
  /\ IF pods = {}
     THEN ReturnError(s, ctx[s])
     ELSE /\ ctx' = [ctx EXCEPT ![s].pc = "prepare", ![s].candidates = pods]
          /\ NoHooks
  /\ UNCHANGED <<podVars, dropped>>

\* runPrepareDataPlugins puts the loads on the copies; a timeout or a cancelled
\* context leaves some without, and the request goes on.  Of the copies the
\* model keeps those that pass the detector's filter.
PrepareData(s, ready) ==
  /\ ctx[s].pc = "prepare"
  /\ ready \subseteq ctx[s].candidates
  /\ ctx' = [ctx EXCEPT ![s].pc = "schedule", ![s].candidates = Filter(LoadPrepareData(@, ready))]
  /\ UNCHANGED <<podVars, dropped, loadVars, evictionVars>>

\* An admission plugin denies the request, or no endpoint passes the filters.
ScheduleFails(s) ==
  /\ ctx[s].pc = "schedule"
  /\ ReturnError(s, ctx[s])
  /\ UNCHANGED <<podVars, dropped>>

\* Schedule and prepareRequest; the request goes on to Envoy.
Schedule(s, targets) ==
  /\ ctx[s].pc = "schedule"
  /\ Range(targets) \subseteq ctx[s].candidates
  /\ LET c == [ctx[s] EXCEPT !.targets = targets, !.candidates = {}, !.started = @ + 1,
                             !.reqHeader = TRUE, !.reqBody = TRUE]
     IN  updateStateAndSendIfNeeded(s, c, runPreRequestPlugins(s, targets))
  /\ UNCHANGED <<podVars, dropped>>

-----------------------------------------------------------------------------
(* The response messages: Envoy answers once it has the request's headers. *)

RecvResponseHeaders(s, eventStream) ==
  /\ Receiving(s, {"reqDone"})
  /\ ctx[s].RequestState \in {HeaderRequestResponseComplete, BodyRequestResponsesComplete}
  /\ updateStateAndSendIfNeeded(s,
       [ctx[s] EXCEPT !.phase = "response", !.streaming = eventStream,
                      !.RequestState = ResponseReceived, !.respHeader = TRUE], NoHooks)
  /\ UNCHANGED <<podVars, dropped>>

\* finishResponse returns early on a finished response.
mustFinish(c) == ~c.complete

\* finishResponse
finishResponse(c, setEos) ==
  [c EXCEPT !.complete = TRUE,
            !.finished = @ + IF mustFinish(c) /\ TargetPod(c) # None THEN 1 ELSE 0,
            !.respBody = IF mustFinish(c) /\ ~c.streaming THEN bodyResponses(setEos) ELSE @]

RecvResponseBody(s, eos) ==
  /\ Receiving(s, {"response"})
  /\ eos \/ ctx[s].chunks < MaxChunks
  /\ LET c == [ctx[s] EXCEPT !.phase = IF eos THEN "respDone" ELSE @, !.chunks = @ + 1]
         d == CASE c.streaming -> [c EXCEPT !.complete = @ \/ eos, !.respBody = bodyResponses(eos),
                                            !.finished = @ + IF eos /\ TargetPod(c) # None THEN 1 ELSE 0]
                [] ~c.streaming /\ eos -> finishResponse([c EXCEPT !.body = @ \union {"response"}], TRUE)
                [] OTHER -> [c EXCEPT !.body = @ \union {"response"}]
     IN  updateStateAndSendIfNeeded(s, d, runResponseBodyPlugins(s, d, d.finished > c.finished))
  /\ UNCHANGED <<podVars, dropped>>

RecvResponseTrailers(s) ==
  /\ Receiving(s, {"response"})
  /\ LET c == [ctx[s] EXCEPT !.phase = "respDone", !.respTrailer = TRUE]
         d == finishResponse(c, FALSE)
     IN  updateStateAndSendIfNeeded(s, d, runResponseBodyPlugins(s, d, d.finished > c.finished))
  /\ UNCHANGED <<podVars, dropped>>

-----------------------------------------------------------------------------
(* The end of a stream, and the surroundings.                              *)

\* Envoy resets the stream while the director is busy with it.
Cancel(s) ==
  /\ s \in Varied /\ ctx[s].pc \notin {"recv", "done"} /\ ~ctx[s].cancelled
  /\ ctx' = [ctx EXCEPT ![s].cancelled = TRUE]
  /\ UNCHANGED <<podVars, dropped, loadVars, evictionVars>>

\* Recv reports the end of the stream, a cancelled context or an error.
RecvEnds(s) ==
  /\ ctx[s].pc = "recv"
  /\ Return(s, ctx[s])
  /\ UNCHANGED <<podVars, dropped>>

\* The eviction plugin's goroutine wakes when the context of the stream ends.
Untracking(s) ==
  /\ ctx[s].cancelled
  /\ ContextDone(s)
  /\ UNCHANGED <<ctx, podVars, dropped, loadVars>>

Evict ==
  /\ EvictPop \/ \E failed \in BOOLEAN : EvictAborted(failed)
  /\ UNCHANGED <<ctx, podVars, dropped, loadVars>>

\* A pod is deleted: the datastore's reconciler and the producer's
\* notification each learn of it in their own time.
PodDeleted(e) ==
  /\ e \in pods /\ \A w \in {"store", "producer"} : <<e, w>> \notin pending
  /\ deletes < MaxDeletes
  /\ deletes' = deletes + 1
  /\ pending' = pending \union ({e} \X {"store", "producer"})
  /\ UNCHANGED <<ctx, pods, dropped, loadVars, evictionVars>>

PodReconciled(e) ==
  /\ <<e, "store">> \in pending
  /\ pending' = pending \ {<<e, "store">>}
  /\ pods' = pods \ {e}
  /\ UNCHANGED <<ctx, deletes, dropped, loadVars, evictionVars>>

PodNotified(e) ==
  /\ <<e, "producer">> \in pending
  /\ pending' = pending \ {<<e, "producer">>}
  /\ dropped' = [dropped EXCEPT ![e] = @ + get(requestTracker, e)]
  /\ DeleteEndpoint(e)
  /\ UNCHANGED <<ctx, pods, deletes, evictionVars>>

\* A pod of the same name comes back, as that of a stateful set does.
PodAdded(e) ==
  /\ pods = {} /\ {e} \in Pools /\ <<e, "producer">> \notin pending
  /\ pods' = pods \union {e}
  /\ attributes' = [attributes EXCEPT ![e] = 0]
  /\ UNCHANGED <<ctx, pending, deletes, dropped, requestTracker, tokenTracker, evictionVars>>

Init ==
  /\ ctx = [s \in Requests |-> NewContext]
  /\ pods \in Pools
  /\ pending = {} /\ deletes = IF Cardinality(pods) = 1 THEN 0 ELSE MaxDeletes
  /\ dropped = [e \in Endpoints |-> 0]
  /\ LoadInit
  /\ EvictionInit

Targets == {q \in UNION {[1..n -> Endpoints] : n \in 1..MaxTargets} : IsInjective(q)}

Step(s) ==
  \/ HandleRequestRejected(s) \/ Admit(s)
  \/ \E ready \in SUBSET Endpoints : PrepareData(s, ready)
  \/ ScheduleFails(s) \/ \E targets \in Targets : Schedule(s, targets)
  \/ Deferred(s)

Message(s) ==
  \/ \E eos \in BOOLEAN : (eos => s \in Varied) /\ RecvRequestHeaders(s, eos)
  \/ \E eos \in BOOLEAN : (~eos => s \in Varied) /\ RecvRequestBody(s, eos)
  \/ s \in Varied /\ RecvRequestTrailers(s)
  \/ \E eventStream \in BOOLEAN : (eventStream => s \in Varied) /\ RecvResponseHeaders(s, eventStream)
  \/ \E eos \in BOOLEAN : (~eos => s \in Varied) /\ RecvResponseBody(s, eos)
  \/ s \in Varied /\ RecvResponseTrailers(s)

AllDone == \A s \in Requests : ctx[s].pc = "done" /\ s \notin waiters

Next ==
  \/ \E s \in Requests : Step(s) \/ Message(s) \/ RecvEnds(s) \/ Cancel(s) \/ Untracking(s)
  \/ Evict
  \/ \E e \in Endpoints : PodDeleted(e) \/ PodReconciled(e) \/ PodNotified(e) \/ PodAdded(e)
  \/ AllDone /\ UNCHANGED vars

Spec == Init /\ [][Next]_vars

\* The goroutines of the streams and of the eviction plugin run; Envoy's
\* timeouts end a stream it has no more use for.
FairSpec ==
  /\ Spec
  /\ \A s \in Requests : WF_vars(Step(s)) /\ WF_vars(RecvEnds(s)) /\ WF_vars(Untracking(s))

-----------------------------------------------------------------------------
(* Properties.                                                             *)

\* The PreRequest hooks of a request run at most once, the completion hooks
\* never before them nor twice, and a stream that has ended has run as many of
\* one as of the other, however it ended: last chunk, trailers, error, failed
\* send or disconnect (Process and its deferred function, finishResponse).
HooksOnce ==
  \A s \in Requests :
    /\ ctx[s].finished <= ctx[s].started /\ ctx[s].started <= 1
    /\ ctx[s].pc = "done" => ctx[s].finished = ctx[s].started

InFlightAt(e) == {s \in Requests : ctx[s].finished < ctx[s].started /\ e \in Range(ctx[s].targets)}
FallbackOf(e) == {s \in Requests : ctx[s].finished = 1 /\ e \in Range(Tail(ctx[s].targets))}

\* The ledger of the in-flight load: what an endpoint's counter shows, and what
\* the deletion of its pod took from it, are the requests in flight at the
\* endpoint and the finished ones that had it as a fallback, which
\* InFlightLoadProducer.ResponseBody never gives back.
LoadLedger ==
  \A e \in Endpoints :
    get(requestTracker, e) + dropped[e] = Cardinality(InFlightAt(e)) + Cardinality(FallbackOf(e))

Rank == [reqHeader |-> 1, reqBody |-> 2, respHeader |-> 3, respBody |-> 4,
         respBodyEos |-> 5, respTrailer |-> 6, immediate |-> 7]

\* Responses go out in the order updateStateAndSendIfNeeded promises: headers,
\* body, trailers, of the request and then of the response, nothing but
\* response chunks twice, nothing after an immediate response; and the buffer
\* that is sent as the response body holds no byte of the request.
ResponsesWellFormed ==
  \A s \in Requests : LET q == ctx[s].sent IN
    /\ \A i \in 1..(Len(q) - 1) :
         Rank[q[i]] < Rank[q[i + 1]] \/ (q[i] = "respBody" /\ q[i + 1] = "respBody")
    /\ "respBody" \in Range(q) \/ "respBodyEos" \in Range(q) => "respHeader" \in Range(q)
    /\ ctx[s].phase = "response" => "request" \notin ctx[s].body

\* The eviction plugin tracks a request only between its PreRequest hooks and
\* its completion, and only while the goroutine that will forget it when the
\* stream ends is there; a failed abort that returns later is the exception,
\* which may leave a request tracked for good.  The heap never holds more.
TrackedRequests ==
  /\ handles \subseteq DOMAIN allInFlight
  /\ \A r \in DOMAIN allInFlight :
       \/ r \in waiters /\ ctx[r].finished < ctx[r].started
       \/ r \in retracked

\* A request handed to its endpoint gets its completion hooks, whatever
\* becomes of its stream.
CompletionRuns == \A s \in Requests : (ctx[s].started = 1) ~> (ctx[s].finished = 1)

\* The detector reports the pool saturated when the requests in flight at its
\* endpoints, as the producer counts them, fill their capacity.
BackpressureSeesLoad ==
  (pods # {} /\ FoldSet(LAMBDA e, n : get(requestTracker, e) + n, 0, pods) >= MaxConcurrency * Cardinality(pods))
    => Saturated(pods)
=============================================================================
