------------------------- MODULE RequestPathProofs -------------------------
(***************************************************************************)
(* The hooks of the request path run once, the eviction plugin tracks only *)
(* requests in flight, the load counters balance, and a stream's responses *)
(* reach the proxy in the order it expects: for every number of requests   *)
(* and endpoints, every picker and every pool.                             *)
(***************************************************************************)
EXTENDS RequestPath, FiniteSetTheorems, TLAPS

-----------------------------------------------------------------------------
(* The inductive invariant.                                                *)

InDirector == {"admit", "prepare", "schedule"}

Messages == {"reqHeader", "reqBody", "respHeader", "respBody", "respBodyEos",
             "respTrailer", "immediate"}

Context ==
  [ pc : {"recv", "return", "done"} \union InDirector,
    phase : {"init", "reqBody", "reqDone", "response", "respDone"},
    RequestState : Nat,
    targets : Seq(Endpoints), candidates : SUBSET Endpoints,
    streaming : BOOLEAN, complete : BOOLEAN,
    body : SUBSET {"request", "response"},
    reqHeader : BOOLEAN, reqBody : BOOLEAN,
    respHeader : BOOLEAN, respBody : Seq(Messages), respTrailer : BOOLEAN,
    chunks : Nat,
    cancelled : BOOLEAN,
    sent : Seq(Messages),
    started : {0, 1}, finished : {0, 1} ]

Injective(q) == \A i, j \in DOMAIN q : q[i] = q[j] => i = j

\* A stream that has not returned has targets once its PreRequest hooks have
\* run, its completion hooks have run when the response is complete, and only
\* a response makes it complete.
Running(c) ==
  /\ c.started = IF c.targets = << >> THEN 0 ELSE 1
  /\ c.finished = IF c.complete THEN c.started ELSE 0
  /\ c.phase \in {"init", "reqBody"} => c.started = 0
  /\ c.phase # "respDone" => ~c.complete

HookInv(c) ==
  /\ c \in Context
  /\ c.pc = "done" => c.finished = c.started
  /\ c.pc # "done" => Running(c)
  /\ c.pc \in InDirector => c.started = 0 /\ c.phase = "reqDone"
  /\ Injective(c.targets)

PathInv ==
  /\ ctx \in [Requests -> Context]
  /\ \A s \in Requests : HookInv(ctx[s])
  /\ pods \subseteq Endpoints

TrackInv ==
  /\ DOMAIN allInFlight \subseteq Requests
  /\ \A r \in DOMAIN allInFlight : allInFlight[r].id = r
  /\ evicting = NoItem \/ evicting.id \in Requests
  /\ TrackedRequests

LoadInv ==
  /\ \A e \in DOMAIN requestTracker : requestTracker[e] \in Int
  /\ dropped \in [Endpoints -> Int]
  /\ LoadLedger

IInv == PathInv /\ TrackInv /\ LoadInv

-----------------------------------------------------------------------------
(* What a stream's step does: it replaces the context of one stream, and   *)
(* runs no hook, the PreRequest hooks, or the completion hooks.            *)

Ready(c) == c \in Context /\ Running(c) /\ Injective(c.targets)

Alike(c, d) ==
  d.targets = c.targets /\ d.started = c.started /\ d.finished = c.finished

Quiet(s, d) == Alike(ctx[s], d) /\ NoHooks

Starts(s, d) ==
  /\ ctx[s].started = 0 /\ ctx[s].finished = 0 /\ d.started = 1 /\ d.finished = 0
  /\ runPreRequestPlugins(s, d.targets)

Finishes(s, d) ==
  /\ ctx[s].started = 1 /\ ctx[s].finished = 0 /\ d.started = 1 /\ d.finished = 1
  /\ d.targets = ctx[s].targets /\ d.targets # << >>
  /\ completionHooks(s, d)

StreamStep(s) ==
  /\ \E d \in Context :
       /\ HookInv(d)
       /\ ctx' = [ctx EXCEPT ![s] = d]
       /\ Quiet(s, d) \/ Starts(s, d) \/ Finishes(s, d)
  /\ UNCHANGED <<pods, dropped>>

-----------------------------------------------------------------------------
(* Contexts.                                                               *)

\* The sequences of one message name, and the empty one.
LEMMA NameSequences ==
  << >> \in Seq(Messages) /\ \A x \in Messages : <<x>> \in Seq(Messages)
  OBVIOUS

\* The fields of a context that sending reads.
LEMMA ContextTypes ==
  ASSUME NEW c \in Context
  PROVE  /\ c.respBody \in Seq(Messages) /\ c.sent \in Seq(Messages)
         /\ c.RequestState \in Nat
  BY Zenon DEF Context

\* The messages a stream has to send are a sequence of names.
LEMMA PendingType ==
  ASSUME NEW c \in Context
  PROVE  pendingResponses(c) \in Seq(Messages)
  <1> DEFINE h1 == c.RequestState = RequestReceived /\ c.reqHeader
             b1 == (h1 \/ c.RequestState = HeaderRequestResponseComplete) /\ c.reqBody
             h2 == c.RequestState = ResponseReceived /\ c.respHeader
             b2 == h2 \/ c.RequestState = HeaderResponseResponseComplete
             t2 == ((b2 /\ c.complete) \/ c.RequestState = BodyResponseResponsesComplete) /\ c.respTrailer
             q1 == IF h1 THEN <<"reqHeader">> ELSE << >>
             q2 == IF b1 THEN <<"reqBody">> ELSE << >>
             q3 == IF h2 THEN <<"respHeader">> ELSE << >>
             q4 == IF b2 THEN c.respBody ELSE << >>
             q5 == IF t2 THEN <<"respTrailer">> ELSE << >>
  <1>1. pendingResponses(c) = q1 \o q2 \o q3 \o q4 \o q5
    BY Zenon DEF pendingResponses
  <1> HIDE DEF h1, b1, h2, b2, t2
  <1>2. /\ q1 \in Seq(Messages) /\ q2 \in Seq(Messages) /\ q3 \in Seq(Messages)
        /\ q4 \in Seq(Messages) /\ q5 \in Seq(Messages)
    BY NameSequences, ContextTypes, Zenon DEF Messages
  <1> HIDE DEF q1, q2, q3, q4, q5
  <1> QED
    BY <1>1, <1>2

\* Sending them touches nothing the hooks depend on.
LEMMA SentAllAlike ==
  ASSUME NEW c \in Context
  PROVE  /\ sentAll(c) \in Context
         /\ Alike(c, sentAll(c))
         /\ sentAll(c).complete = c.complete /\ sentAll(c).phase = c.phase
  <1> DEFINE h1 == c.RequestState = RequestReceived /\ c.reqHeader
             b1 == (h1 \/ c.RequestState = HeaderRequestResponseComplete) /\ c.reqBody
             h2 == c.RequestState = ResponseReceived /\ c.respHeader
             b2 == h2 \/ c.RequestState = HeaderResponseResponseComplete
             n == CASE b1 -> BodyRequestResponsesComplete
                    [] h1 /\ ~b1 -> HeaderRequestResponseComplete
                    [] b2 /\ c.complete -> BodyResponseResponsesComplete
                    [] h2 /\ ~c.complete -> HeaderResponseResponseComplete
                    [] OTHER -> c.RequestState
             b == c.reqBody /\ ~b1
             q == IF b2 THEN << >> ELSE c.respBody
             r == c.sent \o pendingResponses(c)
  <1>1. sentAll(c) = [c EXCEPT !.sent = r, !.RequestState = n, !.reqBody = b, !.respBody = q]
    BY Zenon DEF sentAll
  <1>2. n \in Nat
    BY Zenon, ContextTypes DEF BodyRequestResponsesComplete, HeaderRequestResponseComplete,
       BodyResponseResponsesComplete, HeaderResponseResponseComplete
  <1>3. b \in BOOLEAN
    BY Zenon
  <1> HIDE DEF n, b, b2
  <1>4. q \in Seq(Messages) /\ r \in Seq(Messages)
    <2>1. q \in Seq(Messages)
      BY NameSequences, ContextTypes, Zenon
    <2>2. r \in Seq(Messages)
      BY PendingType, ContextTypes
    <2> QED
      BY <2>1, <2>2, Zenon
  <1> HIDE DEF q, r
  <1> DEFINE a == [c EXCEPT !.sent = r, !.RequestState = n]
             d == [a EXCEPT !.reqBody = b, !.respBody = q]
  <1>5. a \in Context /\ Alike(c, a) /\ a.complete = c.complete /\ a.phase = c.phase
    BY <1>2, <1>4, Zenon DEF Context, Alike
  <1>6. sentAll(c) = d
    BY <1>1, Zenon
  <1> HIDE DEF a
  <1>7. d \in Context /\ Alike(a, d) /\ d.complete = a.complete /\ d.phase = a.phase
    BY <1>3, <1>4, <1>5, Zenon DEF Context, Alike
  <1> QED
    BY <1>5, <1>6, <1>7, Zenon DEF Alike

\* Whether or not all the messages go out, a context ready to send leaves a
\* good one behind.
LEMMA SendKeeps ==
  ASSUME NEW s \in Requests, NEW c \in Context, Ready(c),
         updateStateAndSendIfNeeded(s, c, TRUE)
  PROVE  \E d \in Context : HookInv(d) /\ Alike(c, d) /\ ctx' = [ctx EXCEPT ![s] = d]
  <1>1. CASE ctx' = [ctx EXCEPT ![s] = [sentAll(c) EXCEPT !.pc = "recv"]]
    <2> DEFINE a == sentAll(c)
               d == [a EXCEPT !.pc = "recv"]
    <2>1. /\ a \in Context /\ Alike(c, a)
          /\ a.complete = c.complete /\ a.phase = c.phase
      BY SentAllAlike, Zenon
    <2> HIDE DEF a
    <2>2. d \in Context /\ d.pc = "recv" /\ Alike(c, d) /\ d.complete = c.complete /\ d.phase = c.phase
      BY <2>1, Zenon DEF Context, Alike
    <2>3. HookInv(d)
      BY <2>2, Zenon DEF HookInv, Ready, Running, Alike, Injective, InDirector
    <2> QED
      BY <1>1, <2>2, <2>3, Zenon DEF a
  <1>2. ASSUME NEW n \in 0..(Len(pendingResponses(c)) - 1),
               ctx' = [ctx EXCEPT ![s] = [c EXCEPT !.pc = "return",
                                          !.sent = @ \o SubSeq(pendingResponses(c), 1, n)]]
        PROVE  \E d \in Context : HookInv(d) /\ Alike(c, d) /\ ctx' = [ctx EXCEPT ![s] = d]
    <2> DEFINE q == c.sent \o SubSeq(pendingResponses(c), 1, n)
               d == [c EXCEPT !.pc = "return", !.sent = q]
    <2>1. q \in Seq(Messages)
      BY PendingType DEF Context
    <2> HIDE DEF q
    <2>2. d \in Context /\ d.pc = "return" /\ Alike(c, d) /\ d.complete = c.complete /\ d.phase = c.phase
      BY <2>1, Zenon DEF Context, Alike
    <2>3. HookInv(d)
      BY <2>2, Zenon DEF HookInv, Ready, Running, Alike, Injective, InDirector
    <2> QED
      BY <1>2, <2>2, <2>3, Zenon DEF q
  <1>3. \/ ctx' = [ctx EXCEPT ![s] = [sentAll(c) EXCEPT !.pc = "recv"]]
        \/ \E n \in 0..(Len(pendingResponses(c)) - 1) :
             ctx' = [ctx EXCEPT ![s] = [c EXCEPT !.pc = "return",
                                        !.sent = @ \o SubSeq(pendingResponses(c), 1, n)]]
    BY Zenon DEF updateStateAndSendIfNeeded
  <1> QED
    BY <1>1, <1>2, <1>3, Zenon

\* So does an error.
LEMMA ErrorKeeps ==
  ASSUME NEW s \in Requests, NEW c \in Context, Ready(c), ReturnError(s, c)
  PROVE  \E d \in Context : HookInv(d) /\ Alike(c, d) /\ ctx' = [ctx EXCEPT ![s] = d]
  <1>1. PICK q \in {<<"immediate">>, << >>} :
          ctx' = [ctx EXCEPT ![s] = [c EXCEPT !.pc = "return", !.sent = @ \o q]]
    BY Zenon DEF ReturnError
  <1> DEFINE r == c.sent \o q
             d == [c EXCEPT !.pc = "return", !.sent = r]
  <1>2. q \in Seq(Messages)
    BY NameSequences, Zenon DEF Messages
  <1>2A. r \in Seq(Messages)
    BY <1>2, ContextTypes
  <1> HIDE DEF r
  <1>3. d \in Context /\ d.pc = "return" /\ Alike(c, d) /\ d.complete = c.complete /\ d.phase = c.phase
    BY <1>2A, Zenon DEF Context, Alike
  <1>4. HookInv(d)
    BY <1>3, Zenon DEF HookInv, Ready, Running, Alike, Injective, InDirector
  <1> QED
    BY <1>1, <1>3, <1>4, Zenon DEF r

\* A context has a target pod exactly when it has targets.
LEMMA TargetPodNone ==
  ASSUME NEW c \in Context
  PROVE  TargetPod(c) # None <=> c.targets # << >>
  <1>1. c.targets \in Seq(Endpoints)
    BY Zenon DEF Context
  <1>2. c.targets # << >> => Head(c.targets) \in Endpoints
    BY <1>1
  <1> QED
    BY <1>2, PathAssumption, Zenon DEF TargetPod, None

\* A stream that has not returned has a context that is ready to send.
LEMMA NotDoneReady ==
  ASSUME PathInv, NEW s \in Requests, ctx[s].pc # "done"
  PROVE  ctx[s] \in Context /\ Ready(ctx[s])
  BY Zenon DEF PathInv, HookInv, Ready

-----------------------------------------------------------------------------
(* Every action of a stream is a StreamStep.                               *)

\* An error response: no hook runs in the step that sends it (ReturnError).
LEMMA ErrorStep ==
  ASSUME PathInv, NEW s \in Requests, NEW c \in Context, Ready(c), Alike(ctx[s], c),
         ReturnError(s, c), UNCHANGED <<podVars, dropped>>
  PROVE  StreamStep(s)
  <1>1. PICK d \in Context : HookInv(d) /\ Alike(c, d) /\ ctx' = [ctx EXCEPT ![s] = d]
    BY ErrorKeeps, Zenon
  <1>2. Quiet(s, d)
    BY <1>1, Zenon DEF Quiet, Alike, ReturnError
  <1> QED
    BY <1>1, <1>2, Zenon DEF StreamStep, podVars

\* A step that only sends what is due.
LEMMA QuietSendStep ==
  ASSUME PathInv, NEW s \in Requests, NEW c \in Context, Ready(c), Alike(ctx[s], c),
         updateStateAndSendIfNeeded(s, c, TRUE), NoHooks, UNCHANGED <<podVars, dropped>>
  PROVE  StreamStep(s)
  <1>1. PICK d \in Context : HookInv(d) /\ Alike(c, d) /\ ctx' = [ctx EXCEPT ![s] = d]
    BY SendKeeps, Zenon
  <1>2. Quiet(s, d)
    BY <1>1, Zenon DEF Quiet, Alike
  <1> QED
    BY <1>1, <1>2, Zenon DEF StreamStep, podVars

\* The deferred function: it completes what was started and not completed.
LEMMA ReturnStep ==
  ASSUME PathInv, NEW s \in Requests, ctx[s].pc # "done", Return(s, ctx[s]),
         UNCHANGED <<podVars, dropped>>
  PROVE  StreamStep(s)
  <1> DEFINE c == ctx[s]
             f == c.finished + IF forceCompletion(c) THEN 1 ELSE 0
             d == [NewContext EXCEPT !.pc = "done", !.cancelled = TRUE, !.targets = c.targets,
                                     !.started = c.started, !.finished = f]
  <1>1. c \in Context /\ Ready(c)
    BY NotDoneReady, Zenon
  <1>2. ctx' = [ctx EXCEPT ![s] = d] /\ runResponseBodyPlugins(s, c, forceCompletion(c))
    BY Zenon DEF Return
  <1> HIDE DEF c
  <1>3. c.targets \in Seq(Endpoints) /\ c.started \in {0, 1} /\ c.finished \in {0, 1}
    BY <1>1, Zenon DEF Context
  <1>4. forceCompletion(c) <=> c.started = 1 /\ ~c.complete
    BY <1>1, TargetPodNone DEF forceCompletion, Ready, Running
  <1>5. f = c.started /\ (forceCompletion(c) => c.finished = 0 /\ c.started = 1)
        /\ (~forceCompletion(c) => f = c.finished)
    BY <1>1, <1>3, <1>4 DEF Ready, Running
  <1> HIDE DEF f
  <1>6. /\ d \in Context /\ d.pc = "done" /\ d.targets = c.targets
        /\ d.started = c.started /\ d.finished = f
    BY <1>3, <1>5, NameSequences, Zenon DEF Context, NewContext, RequestReceived
  <1>7. HookInv(d)
    BY <1>1, <1>5, <1>6, Zenon DEF HookInv, InDirector, Ready
  <1>8. TargetPod(d) = TargetPod(c)
    BY <1>6 DEF TargetPod
  <1> HIDE DEF d
  <1>9. Quiet(s, d) \/ Finishes(s, d)
    <2>1. CASE forceCompletion(c)
      <3>1. completionHooks(s, d)
        BY <1>2, <1>8, <2>1, Zenon DEF runResponseBodyPlugins, completionHooks
      <3>2. c.targets # << >>
        BY <1>1, <2>1, TargetPodNone, Zenon DEF forceCompletion
      <3> QED
        BY <3>1, <3>2, <1>5, <1>6, <2>1, Zenon DEF Finishes, c
    <2>2. CASE ~forceCompletion(c)
      BY <1>2, <1>5, <1>6, <2>2, Zenon DEF runResponseBodyPlugins, Quiet, Alike, c
    <2> QED
      BY <2>1, <2>2, Zenon
  <1> QED
    BY <1>2, <1>6, <1>7, <1>9, Zenon DEF StreamStep, podVars, d

\* HandleRequestHeaders runs no hook, even when it picks a random endpoint.
LEMMA RequestHeadersStep ==
  ASSUME PathInv, NEW s \in Requests, NEW eos \in BOOLEAN, RecvRequestHeaders(s, eos)
  PROVE  StreamStep(s)
  <1> DEFINE b == ctx[s]
             p == IF eos THEN "reqDone" ELSE "reqBody"
             c == [b EXCEPT !.phase = p]
             d == [c EXCEPT !.reqHeader = eos]
  <1>1. b \in Context /\ Ready(b) /\ b.phase = "init"
    BY NotDoneReady, Zenon DEF RecvRequestHeaders, Receiving
  <1>2. /\ \/ ReturnError(s, c)
           \/ updateStateAndSendIfNeeded(s, d, NoHooks)
        /\ UNCHANGED <<podVars, dropped>>
    BY Zenon DEF RecvRequestHeaders
  <1>3. p \in {"reqDone", "reqBody"}
    BY Zenon
  <1> HIDE DEF b, p
  <1>4. c \in Context /\ Alike(b, c) /\ c.complete = b.complete /\ c.phase = p
    BY <1>1, <1>3, Zenon DEF Context, Alike
  <1> HIDE DEF c
  <1>5. d \in Context /\ Alike(b, d) /\ d.complete = b.complete /\ d.phase = p
    BY <1>4, Zenon DEF Context, Alike
  <1> HIDE DEF d
  <1>6. Ready(c) /\ Ready(d)
    BY <1>1, <1>3, <1>4, <1>5, Zenon DEF Ready, Running, Alike
  <1>7. CASE ReturnError(s, c)
    BY <1>2, <1>4, <1>6, <1>7, ErrorStep, Zenon DEF b
  <1>8. CASE updateStateAndSendIfNeeded(s, d, NoHooks)
    <2>1. updateStateAndSendIfNeeded(s, d, TRUE) /\ NoHooks
      BY <1>8, Zenon DEF updateStateAndSendIfNeeded
    <2> QED
      BY <1>2, <1>5, <1>6, <2>1, QuietSendStep, Zenon DEF b
  <1> QED
    BY <1>2, <1>7, <1>8, Zenon

\* A chunk of the request body; the last one hands the request to the director.
LEMMA RequestBodyStep ==
  ASSUME PathInv, NEW s \in Requests, NEW eos \in BOOLEAN, RecvRequestBody(s, eos)
  PROVE  StreamStep(s)
  <1> DEFINE b == ctx[s]
             d == [b EXCEPT !.body = IF eos THEN {} ELSE {"request"},
                            !.phase = IF eos THEN "reqDone" ELSE @,
                            !.pc = IF eos THEN "admit" ELSE @]
  <1>1. b \in Context /\ Ready(b) /\ b.phase = "reqBody" /\ b.pc = "recv"
    BY NotDoneReady, Zenon DEF RecvRequestBody, Receiving
  <1>2. ctx' = [ctx EXCEPT ![s] = d]
    BY Zenon DEF RecvRequestBody, PathInv
  <1> HIDE DEF b
  <1>3. /\ d \in Context /\ Alike(b, d) /\ d.complete = b.complete
        /\ \/ d.pc = "admit" /\ d.phase = "reqDone"
           \/ d.pc = "recv" /\ d.phase = "reqBody"
    BY <1>1, Zenon DEF Context, Alike, InDirector
  <1> HIDE DEF d
  <1>4. HookInv(d)
    BY <1>1, <1>3, Zenon DEF HookInv, Ready, Running, Alike, InDirector
  <1>5. Quiet(s, d)
    BY <1>3, Zenon DEF Quiet, NoHooks, RecvRequestBody, b
  <1> QED
    BY <1>2, <1>3, <1>4, <1>5, Zenon DEF StreamStep, RecvRequestBody, podVars

\* Request trailers end the request without the director.
LEMMA RequestTrailersStep ==
  ASSUME PathInv, NEW s \in Requests, RecvRequestTrailers(s)
  PROVE  StreamStep(s)
  <1> DEFINE b == ctx[s]
             d == [b EXCEPT !.phase = "reqDone"]
  <1>1. b \in Context /\ Ready(b) /\ b.phase = "reqBody" /\ b.pc = "recv"
    BY NotDoneReady, Zenon DEF RecvRequestTrailers, Receiving
  <1>2. ctx' = [ctx EXCEPT ![s] = d]
    BY Zenon DEF RecvRequestTrailers, PathInv
  <1> HIDE DEF b
  <1>3. /\ d \in Context /\ Alike(b, d) /\ d.complete = b.complete
        /\ d.pc = "recv" /\ d.phase = "reqDone"
    BY <1>1, Zenon DEF Context, Alike
  <1> HIDE DEF d
  <1>4. HookInv(d)
    BY <1>1, <1>3, Zenon DEF HookInv, Ready, Running, Alike, InDirector
  <1>5. Quiet(s, d)
    BY <1>3, Zenon DEF Quiet, NoHooks, RecvRequestTrailers, b
  <1> QED
    BY <1>2, <1>3, <1>4, <1>5, Zenon DEF StreamStep, RecvRequestTrailers, podVars

\* A reset while the director is busy only marks the context.
LEMMA CancelStep ==
  ASSUME PathInv, NEW s \in Requests, Cancel(s)
  PROVE  StreamStep(s)
  <1> DEFINE b == ctx[s]
             d == [b EXCEPT !.cancelled = TRUE]
  <1>1. b \in Context /\ HookInv(b)
    BY Zenon DEF PathInv
  <1>2. ctx' = [ctx EXCEPT ![s] = d]
    BY Zenon DEF Cancel, PathInv
  <1> HIDE DEF b
  <1>3. /\ d \in Context /\ Alike(b, d) /\ d.complete = b.complete
        /\ d.pc = b.pc /\ d.phase = b.phase
    BY <1>1, Zenon DEF Context, Alike
  <1> HIDE DEF d
  <1>4. HookInv(d)
    BY <1>1, <1>3, Zenon DEF HookInv, Running, Alike
  <1>5. Quiet(s, d)
    BY <1>3, Zenon DEF Quiet, NoHooks, Cancel, b
  <1> QED
    BY <1>2, <1>3, <1>4, <1>5, Zenon DEF StreamStep, Cancel, podVars

\* An error of the director, before the PreRequest hooks.
LEMMA DirectorErrorStep ==
  ASSUME PathInv, NEW s \in Requests, HandleRequestRejected(s) \/ ScheduleFails(s)
  PROVE  StreamStep(s)
  <1>1. ctx[s].pc # "done" /\ ReturnError(s, ctx[s]) /\ UNCHANGED <<podVars, dropped>>
    BY Zenon DEF HandleRequestRejected, ScheduleFails
  <1>2. ctx[s] \in Context /\ Ready(ctx[s])
    BY <1>1, NotDoneReady, Zenon
  <1>3. Alike(ctx[s], ctx[s])
    BY Zenon DEF Alike
  <1> QED
    BY <1>1, <1>2, <1>3, ErrorStep, Zenon

\* The director goes on from one stage to the next.
LEMMA StageStep ==
  ASSUME PathInv, NEW s \in Requests, ctx[s].pc \in InDirector,
         NEW stage \in InDirector, NEW es \in SUBSET Endpoints,
         ctx' = [ctx EXCEPT ![s].pc = stage, ![s].candidates = es],
         NoHooks, UNCHANGED <<podVars, dropped>>
  PROVE  StreamStep(s)
  <1> DEFINE b == ctx[s]
             d == [b EXCEPT !.pc = stage, !.candidates = es]
  <1>1. b \in Context /\ HookInv(b) /\ b.pc \in InDirector
    BY Zenon DEF PathInv
  <1>2. ctx' = [ctx EXCEPT ![s] = d]
    BY Zenon DEF PathInv
  <1> HIDE DEF b
  <1>3. /\ d \in Context /\ Alike(b, d) /\ d.complete = b.complete
        /\ d.pc = stage /\ d.phase = b.phase
    BY <1>1, Zenon DEF Context, Alike
  <1> HIDE DEF d
  <1>4. HookInv(d)
    BY <1>1, <1>3, Zenon DEF HookInv, Running, Alike, InDirector
  <1>5. Quiet(s, d)
    BY <1>3, Zenon DEF Quiet, b
  <1> QED
    BY <1>2, <1>3, <1>4, <1>5, Zenon DEF StreamStep, podVars

\* Admit and the copies of the endpoints: on to the next stage, or an error.
LEMMA AdmitStep ==
  ASSUME PathInv, NEW s \in Requests, Admit(s)
  PROVE  StreamStep(s)
  <1>1. CASE ReturnError(s, ctx[s])
    <2>1. ctx[s] \in Context /\ Ready(ctx[s]) /\ Alike(ctx[s], ctx[s])
      BY NotDoneReady, Zenon DEF Admit, Alike
    <2> QED
      BY <1>1, <2>1, ErrorStep, Zenon DEF Admit
  <1>2. CASE ctx' = [ctx EXCEPT ![s].pc = "prepare", ![s].candidates = pods] /\ NoHooks
    <2>1. pods \in SUBSET Endpoints /\ ctx[s].pc \in InDirector /\ "prepare" \in InDirector
      BY Zenon DEF PathInv, Admit, InDirector
    <2> QED
      BY <1>2, <2>1, StageStep, Zenon DEF Admit
  <1> QED
    BY <1>1, <1>2, Zenon DEF Admit

\* The candidates stay endpoints of the pool.
LEMMA PrepareDataStep ==
  ASSUME PathInv, NEW s \in Requests, NEW ready \in SUBSET Endpoints, PrepareData(s, ready)
  PROVE  StreamStep(s)
  <1> DEFINE es == Filter(LoadPrepareData(ctx[s].candidates, ready))
  <1>1. ctx[s].candidates \in SUBSET Endpoints
    BY Zenon DEF PathInv, Context
  <1>2. es \in SUBSET Endpoints
    BY <1>1, Zenon DEF Filter, LoadPrepareData
  <1>3. ctx' = [ctx EXCEPT ![s].pc = "schedule", ![s].candidates = es]
    <2>1. ctx[s] \in Context
      BY Zenon DEF PathInv
    <2> QED
      BY <2>1, Zenon DEF PrepareData, PathInv, Context
  <1>4. ctx[s].pc \in InDirector /\ "schedule" \in InDirector
    BY Zenon DEF PrepareData, InDirector
  <1> HIDE DEF es
  <1> QED
    BY <1>2, <1>3, <1>4, StageStep, Zenon DEF PrepareData, NoHooks

\* The targets a picker may return.
LEMMA TargetsType ==
  ASSUME NEW q \in Targets
  PROVE  q \in Seq(Endpoints) /\ q # << >> /\ Injective(q)
  <1>1. PICK n \in 1..MaxTargets : q \in [1..n -> Endpoints]
    BY Zenon DEF Targets
  <1>2. n \in Nat /\ n >= 1
    BY PathAssumption
  <1>3. q \in Seq(Endpoints) /\ Len(q) = n
    BY <1>1, <1>2
  <1>4. Injective(q)
    BY Zenon DEF Targets, IsInjective, Injective
  <1> QED
    BY <1>2, <1>3, <1>4

\* The step that sets the targets runs the PreRequest hooks, once.
LEMMA ScheduleStep ==
  ASSUME PathInv, NEW s \in Requests, NEW targets \in Targets, Schedule(s, targets)
  PROVE  StreamStep(s)
  <1> DEFINE b == ctx[s]
             c == [b EXCEPT !.targets = targets, !.candidates = {}, !.started = @ + 1,
                            !.reqHeader = TRUE, !.reqBody = TRUE]
  <1>1. b \in Context /\ HookInv(b) /\ b.pc = "schedule"
    BY Zenon DEF PathInv, Schedule
  <1>2. /\ updateStateAndSendIfNeeded(s, c, runPreRequestPlugins(s, targets))
        /\ UNCHANGED <<podVars, dropped>>
    BY Zenon DEF Schedule
  <1>3. updateStateAndSendIfNeeded(s, c, TRUE) /\ runPreRequestPlugins(s, targets)
    BY <1>2, Zenon DEF updateStateAndSendIfNeeded
  <1>4. targets \in Seq(Endpoints) /\ targets # << >> /\ Injective(targets)
    BY TargetsType, Zenon
  <1> HIDE DEF b
  <1>5. b.started = 0 /\ b.finished = 0 /\ b.phase = "reqDone" /\ ~b.complete
    BY <1>1, Zenon DEF HookInv, Running, InDirector
  <1>6. /\ c \in Context /\ c.targets = targets /\ c.started = 1 /\ c.finished = 0
        /\ c.complete = b.complete /\ c.phase = "reqDone"
    <2> DEFINE a == [b EXCEPT !.targets = targets, !.candidates = {}, !.started = 1]
               e == [a EXCEPT !.reqHeader = TRUE, !.reqBody = TRUE]
    <2>1. /\ a \in Context /\ a.targets = targets /\ a.started = 1 /\ a.finished = 0
          /\ a.complete = b.complete /\ a.phase = "reqDone"
      BY <1>1, <1>4, <1>5, Zenon DEF Context
    <2>2. c = e
      BY <1>5
    <2> HIDE DEF a, c
    <2>3. /\ e \in Context /\ e.targets = targets /\ e.started = 1 /\ e.finished = 0
          /\ e.complete = a.complete /\ e.phase = "reqDone"
      BY <2>1, Zenon DEF Context
    <2> QED
      BY <2>1, <2>2, <2>3, Zenon
  <1> HIDE DEF c
  <1>7. Ready(c)
    BY <1>4, <1>5, <1>6, Zenon DEF Ready, Running
  <1>8. PICK d \in Context : HookInv(d) /\ Alike(c, d) /\ ctx' = [ctx EXCEPT ![s] = d]
    BY <1>3, <1>6, <1>7, SendKeeps, Zenon
  <1>9. Starts(s, d)
    BY <1>3, <1>5, <1>6, <1>8, Zenon DEF Starts, Alike, b
  <1> QED
    BY <1>2, <1>8, <1>9, Zenon DEF StreamStep, podVars

\* Response headers complete nothing.
LEMMA ResponseHeadersStep ==
  ASSUME PathInv, NEW s \in Requests, NEW eventStream \in BOOLEAN,
         RecvResponseHeaders(s, eventStream)
  PROVE  StreamStep(s)
  <1> DEFINE b == ctx[s]
             c == [b EXCEPT !.phase = "response", !.streaming = eventStream,
                            !.RequestState = ResponseReceived, !.respHeader = TRUE]
  <1>1. b \in Context /\ Ready(b) /\ b.phase = "reqDone"
    BY NotDoneReady, Zenon DEF RecvResponseHeaders, Receiving
  <1>2. updateStateAndSendIfNeeded(s, c, NoHooks) /\ UNCHANGED <<podVars, dropped>>
    BY Zenon DEF RecvResponseHeaders
  <1>3. updateStateAndSendIfNeeded(s, c, TRUE) /\ NoHooks
    BY <1>2, Zenon DEF updateStateAndSendIfNeeded
  <1> HIDE DEF b
  <1>4. c \in Context /\ Alike(b, c) /\ c.complete = b.complete /\ c.phase = "response"
    BY <1>1, Zenon DEF Context, Alike, ResponseReceived
  <1> HIDE DEF c
  <1>5. Ready(c)
    BY <1>1, <1>4, Zenon DEF Ready, Running, Alike
  <1> QED
    BY <1>2, <1>3, <1>4, <1>5, QuietSendStep, Zenon DEF b

\* A chunk of the response or its trailers: the completion hooks run in the
\* step that completes it.
LEMMA FinishSendStep ==
  ASSUME PathInv, NEW s \in Requests, ctx[s].pc # "done",
         NEW d \in Context, Ready(d), ~ctx[s].complete,
         d.targets = ctx[s].targets, d.started = ctx[s].started,
         updateStateAndSendIfNeeded(s, d, TRUE), runResponseBodyPlugins(s, d, d.finished > ctx[s].finished),
         UNCHANGED <<podVars, dropped>>
  PROVE  StreamStep(s)
  <1>1. ctx[s] \in Context /\ Ready(ctx[s])
    BY NotDoneReady, Zenon
  <1>2. ctx[s].finished = 0 /\ d.finished \in {0, 1} /\ ctx[s].started \in {0, 1}
    BY <1>1, Zenon DEF Ready, Running, Context
  <1>3. CASE d.finished = 0
    <2>1. NoHooks
      BY <1>2, <1>3 DEF runResponseBodyPlugins
    <2>2. Alike(ctx[s], d)
      BY <1>2, <1>3, Zenon DEF Alike
    <2> QED
      BY <2>1, <2>2, QuietSendStep, Zenon
  <1>4. CASE d.finished = 1
    <2>1. completionHooks(s, d)
      BY <1>2, <1>4 DEF runResponseBodyPlugins
    <2>2. d.started = 1 /\ d.targets # << >>
      BY <1>4 DEF Ready, Running
    <2>3. PICK a \in Context : HookInv(a) /\ Alike(d, a) /\ ctx' = [ctx EXCEPT ![s] = a]
      BY SendKeeps, Zenon
    <2>4. TargetPod(a) = TargetPod(d)
      BY <2>3, Zenon DEF TargetPod, Alike
    <2>5. completionHooks(s, a)
      BY <2>1, <2>4, Zenon DEF completionHooks
    <2>6. Finishes(s, a)
      BY <1>2, <1>4, <2>2, <2>3, <2>5, Zenon DEF Finishes, Alike
    <2> QED
      BY <2>3, <2>6, Zenon DEF StreamStep, podVars
  <1> QED
    BY <1>2, <1>3, <1>4, Zenon

\* finishResponse completes the response of a context that has not.
LEMMA FinishResponse ==
  ASSUME NEW c \in Context, NEW eos \in BOOLEAN, ~c.complete, c.phase = "respDone",
         Injective(c.targets), c.finished = 0,
         c.started = IF c.targets = << >> THEN 0 ELSE 1
  PROVE  LET d == finishResponse(c, eos)
         IN  d \in Context /\ Ready(d) /\ d.targets = c.targets /\ d.started = c.started
  <1> DEFINE f == c.finished + IF mustFinish(c) /\ TargetPod(c) # None THEN 1 ELSE 0
             q == IF mustFinish(c) /\ ~c.streaming THEN bodyResponses(eos) ELSE c.respBody
             d == [c EXCEPT !.complete = TRUE, !.finished = f, !.respBody = q]
  <1>1. finishResponse(c, eos) = d
    BY Zenon DEF finishResponse
  <1>2. f = c.started /\ f \in {0, 1}
    BY TargetPodNone DEF mustFinish
  <1>3. bodyResponses(eos) \in Seq(Messages)
    BY NameSequences, Zenon DEF bodyResponses, Messages
  <1>4. q \in Seq(Messages)
    BY <1>3, ContextTypes, Zenon
  <1> HIDE DEF f, q
  <1>5. /\ d \in Context /\ d.targets = c.targets /\ d.started = c.started
        /\ d.finished = f /\ d.complete = TRUE /\ d.phase = c.phase
    BY <1>2, <1>4, ZenonT(30) DEF Context
  <1> HIDE DEF d
  <1>6. Ready(d)
    BY <1>2, <1>5, Zenon DEF Ready, Running
  <1> QED
    BY <1>1, <1>5, <1>6, Zenon

\* Trailers finish a response whose last chunk has not (finishResponse).
LEMMA ResponseTrailersStep ==
  ASSUME PathInv, NEW s \in Requests, RecvResponseTrailers(s)
  PROVE  StreamStep(s)
  <1> DEFINE b == ctx[s]
             c == [b EXCEPT !.phase = "respDone", !.respTrailer = TRUE]
             d == finishResponse(c, FALSE)
  <1>1. b \in Context /\ Ready(b) /\ b.phase = "response" /\ b.pc # "done"
    BY NotDoneReady, Zenon DEF RecvResponseTrailers, Receiving
  <1>2. /\ updateStateAndSendIfNeeded(s, d, runResponseBodyPlugins(s, d, d.finished > c.finished))
        /\ UNCHANGED <<podVars, dropped>>
    BY Zenon DEF RecvResponseTrailers
  <1>3. /\ updateStateAndSendIfNeeded(s, d, TRUE)
        /\ runResponseBodyPlugins(s, d, d.finished > c.finished)
    BY <1>2, Zenon DEF updateStateAndSendIfNeeded
  <1> HIDE DEF b, d
  <1>4. c \in Context /\ Alike(b, c) /\ c.complete = b.complete /\ c.phase = "respDone"
    BY <1>1, Zenon DEF Context, Alike
  <1> HIDE DEF c
  <1>5. ~b.complete /\ b.finished = 0
    BY <1>1, Zenon DEF Ready, Running
  <1>6. /\ Injective(c.targets) /\ c.finished = 0 /\ ~c.complete
        /\ c.started = IF c.targets = << >> THEN 0 ELSE 1
    BY <1>1, <1>4, <1>5, Zenon DEF Ready, Running, Alike
  <1>7. d \in Context /\ Ready(d) /\ d.targets = c.targets /\ d.started = c.started
    BY <1>4, <1>6, FinishResponse, Zenon DEF d
  <1>8. d.targets = b.targets /\ d.started = b.started /\ c.finished = b.finished
    BY <1>4, <1>7, Zenon DEF Alike
  <1> QED
    BY <1>1, <1>2, <1>3, <1>5, <1>7, <1>8, FinishSendStep, Zenon DEF b

\* The last chunk finishes the response, streamed or buffered.
LEMMA ResponseBodyStep ==
  ASSUME PathInv, NEW s \in Requests, NEW eos \in BOOLEAN, RecvResponseBody(s, eos)
  PROVE  StreamStep(s)
  <1> DEFINE b == ctx[s]
             c == [b EXCEPT !.phase = IF eos THEN "respDone" ELSE @, !.chunks = @ + 1]
             f == c.finished + IF eos /\ TargetPod(c) # None THEN 1 ELSE 0
             e == [c EXCEPT !.body = @ \union {"response"}]
             streamed == [c EXCEPT !.complete = @ \/ eos, !.respBody = bodyResponses(eos),
                                   !.finished = @ + IF eos /\ TargetPod(c) # None THEN 1 ELSE 0]
             d == CASE c.streaming -> streamed
                    [] ~c.streaming /\ eos -> finishResponse(e, TRUE)
                    [] OTHER -> e
  <1>1. b \in Context /\ Ready(b) /\ b.phase = "response" /\ b.pc # "done"
    BY NotDoneReady, Zenon DEF RecvResponseBody, Receiving
  <1>2. /\ updateStateAndSendIfNeeded(s, d, runResponseBodyPlugins(s, d, d.finished > c.finished))
        /\ UNCHANGED <<podVars, dropped>>
    BY Zenon DEF RecvResponseBody
  <1>3. /\ updateStateAndSendIfNeeded(s, d, TRUE)
        /\ runResponseBodyPlugins(s, d, d.finished > c.finished)
    BY <1>2, Zenon DEF updateStateAndSendIfNeeded
  <1> HIDE DEF b, d
  <1>4. /\ c \in Context /\ Alike(b, c) /\ c.complete = b.complete
        /\ c.phase = IF eos THEN "respDone" ELSE "response"
    <2> DEFINE p == IF eos THEN "respDone" ELSE "response"
               n == b.chunks + 1
    <2>1. n \in Nat /\ p \in {"respDone", "response"}
      BY <1>1 DEF Context
    <2>2. c = [b EXCEPT !.phase = p, !.chunks = n]
      BY <1>1, Zenon
    <2> HIDE DEF c, p, n
    <2>3. c \in Context /\ Alike(b, c) /\ c.complete = b.complete /\ c.phase = p
      BY <1>1, <2>1, <2>2, Zenon DEF Context, Alike
    <2> QED
      BY <2>3, Zenon DEF p
  <1> HIDE DEF c
  <1>5. ~b.complete /\ b.finished = 0
    BY <1>1, Zenon DEF Ready, Running
  <1>6. /\ Injective(c.targets) /\ c.finished = 0 /\ ~c.complete
        /\ c.started = IF c.targets = << >> THEN 0 ELSE 1
    BY <1>1, <1>4, <1>5, Zenon DEF Ready, Running, Alike
  <1>7. /\ e \in Context /\ Alike(c, e) /\ e.complete = c.complete /\ e.phase = c.phase
    BY <1>4, Zenon DEF Context, Alike
  <1> HIDE DEF e
  <1>8. CASE c.streaming
    <2>1. streamed = [c EXCEPT !.complete = eos, !.respBody = bodyResponses(eos), !.finished = f]
      BY <1>4, <1>6, Zenon DEF Context
    <2>2. f = (IF eos THEN c.started ELSE 0) /\ f \in {0, 1}
      BY <1>4, <1>6, TargetPodNone
    <2>3. bodyResponses(eos) \in Seq(Messages)
      BY NameSequences, Zenon DEF bodyResponses, Messages
    <2> HIDE DEF f, streamed
    <2>4. /\ streamed \in Context /\ streamed.targets = c.targets /\ streamed.started = c.started
          /\ streamed.finished = f /\ streamed.complete = eos /\ streamed.phase = c.phase
      BY <1>4, <2>1, <2>2, <2>3, ZenonT(30) DEF Context
    <2>5. d = streamed
      BY <1>8, Zenon DEF d
    <2> QED
      <3>1. Ready(streamed)
        BY <1>4, <1>6, <2>2, <2>4, Zenon DEF Ready, Running
      <3>2. streamed.targets = b.targets /\ streamed.started = b.started /\ c.finished = b.finished
        BY <1>4, <2>4, Zenon DEF Alike
      <3> QED
        BY <1>1, <1>2, <1>3, <1>5, <2>4, <2>5, <3>1, <3>2, FinishSendStep, Zenon DEF b
  <1>9. CASE ~c.streaming /\ eos
    <2>1. d = finishResponse(e, TRUE)
      BY <1>9, Zenon DEF d
    <2>2. /\ Injective(e.targets) /\ e.finished = 0 /\ ~e.complete /\ e.phase = "respDone"
          /\ e.started = IF e.targets = << >> THEN 0 ELSE 1
      BY <1>4, <1>6, <1>7, <1>9, Zenon DEF Alike
    <2>3. d \in Context /\ Ready(d) /\ d.targets = e.targets /\ d.started = e.started
      BY <1>7, <2>1, <2>2, FinishResponse, Zenon
    <2>4. d.targets = b.targets /\ d.started = b.started /\ c.finished = b.finished
      BY <1>4, <1>7, <2>3, Zenon DEF Alike
    <2> QED
      BY <1>1, <1>2, <1>3, <1>5, <2>3, <2>4, FinishSendStep, Zenon DEF b
  <1>10. CASE ~c.streaming /\ ~eos
    <2>1. d = e
      BY <1>10, Zenon DEF d
    <2>2. Ready(e)
      BY <1>4, <1>6, <1>7, <1>10, Zenon DEF Ready, Running, Alike
    <2>3. e.targets = b.targets /\ e.started = b.started /\ c.finished = b.finished
      BY <1>4, <1>7, Zenon DEF Alike
    <2> QED
      BY <1>1, <1>2, <1>3, <1>5, <1>7, <2>1, <2>2, <2>3, FinishSendStep, Zenon DEF b
  <1> QED
    BY <1>8, <1>9, <1>10, Zenon

-----------------------------------------------------------------------------
(* What a step leaves alone.                                               *)

\* The steps of the surroundings.
OutsideStep ==
  \/ \E s \in Requests : Untracking(s)
  \/ Evict
  \/ \E e \in Endpoints : PodDeleted(e) \/ PodReconciled(e) \/ PodNotified(e) \/ PodAdded(e)

\* Whatever a stream does is a StreamStep.
LEMMA StreamCases ==
  ASSUME PathInv, NEW s \in Requests, Step(s) \/ Message(s) \/ RecvEnds(s) \/ Cancel(s)
  PROVE  StreamStep(s)
  <1>1. CASE Step(s)
    <2>1. CASE Deferred(s)
      BY <2>1, ReturnStep, Zenon DEF Deferred
    <2>2. CASE HandleRequestRejected(s) \/ ScheduleFails(s)
      BY <2>2, DirectorErrorStep, Zenon
    <2>3. CASE Admit(s)
      BY <2>3, AdmitStep, Zenon
    <2>4. CASE \E ready \in SUBSET Endpoints : PrepareData(s, ready)
      BY <2>4, PrepareDataStep, Zenon
    <2>5. CASE \E targets \in Targets : Schedule(s, targets)
      BY <2>5, ScheduleStep, Zenon
    <2> QED
      BY <1>1, <2>1, <2>2, <2>3, <2>4, <2>5, Zenon DEF Step
  <1>2. CASE Message(s)
    <2>1. CASE \E eos \in BOOLEAN : RecvRequestHeaders(s, eos)
      BY <2>1, RequestHeadersStep, Zenon
    <2>2. CASE \E eos \in BOOLEAN : RecvRequestBody(s, eos)
      BY <2>2, RequestBodyStep, Zenon
    <2>3. CASE RecvRequestTrailers(s)
      BY <2>3, RequestTrailersStep, Zenon
    <2>4. CASE \E eventStream \in BOOLEAN : RecvResponseHeaders(s, eventStream)
      BY <2>4, ResponseHeadersStep, Zenon
    <2>5. CASE \E eos \in BOOLEAN : RecvResponseBody(s, eos)
      BY <2>5, ResponseBodyStep, Zenon
    <2>6. CASE RecvResponseTrailers(s)
      BY <2>6, ResponseTrailersStep, Zenon
    <2> QED
      BY <1>2, <2>1, <2>2, <2>3, <2>4, <2>5, <2>6, Zenon DEF Message
  <1>3. CASE RecvEnds(s)
    BY <1>3, ReturnStep, Zenon DEF RecvEnds
  <1>4. CASE Cancel(s)
    BY <1>4, CancelStep, Zenon
  <1> QED
    BY <1>1, <1>2, <1>3, <1>4

\* The cases of a step: a stream's, one of the surroundings, or none.
LEMMA NextCases ==
  ASSUME PathInv, [Next]_vars
  PROVE  (\E s \in Requests : StreamStep(s)) \/ OutsideStep \/ UNCHANGED vars
  <1>1. ASSUME NEW s \in Requests, Step(s) \/ Message(s) \/ RecvEnds(s) \/ Cancel(s)
        PROVE  StreamStep(s)
    BY <1>1, StreamCases, Zenon
  <1> QED
    BY <1>1, Zenon DEF Next, OutsideStep

\* Only a stream changes its context, and it leaves a good one behind.
LEMMA PathPreserved ==
  ASSUME PathInv, [Next]_vars
  PROVE  PathInv'
  <1>1. ASSUME NEW s \in Requests, StreamStep(s)
        PROVE  PathInv'
    <2>1. PICK d \in Context : HookInv(d) /\ ctx' = [ctx EXCEPT ![s] = d]
      BY <1>1, Zenon DEF StreamStep
    <2>2. pods' = pods
      BY <1>1, Zenon DEF StreamStep
    <2>3. ctx' \in [Requests -> Context] /\ \A r \in Requests : ctx'[r] = IF r = s THEN d ELSE ctx[r]
      BY <2>1, Zenon DEF PathInv
    <2>4. \A r \in Requests : HookInv(ctx'[r])
      BY <2>1, <2>3, Zenon DEF PathInv
    <2> QED
      BY <2>2, <2>3, <2>4, Zenon DEF PathInv
  <1>2. CASE OutsideStep
    <2>1. ctx' = ctx
      BY <1>2, Zenon DEF OutsideStep, Untracking, Evict, PodDeleted, PodReconciled, PodNotified, PodAdded
    <2>2. pods' \subseteq Endpoints
      BY <1>2, Zenon DEF PathInv, OutsideStep, Untracking, Evict, PodDeleted, PodReconciled, PodNotified,
                  PodAdded, podVars
    <2> QED
      BY <2>1, <2>2, Zenon DEF PathInv
  <1>3. CASE UNCHANGED vars
    BY <1>3, Zenon DEF PathInv, vars, podVars
  <1> QED
    BY <1>1, <1>2, <1>3, NextCases, Zenon

-----------------------------------------------------------------------------
(* The eviction plugin.                                                    *)

\* A tracked request that is untracked leaves the others as they were.
LEMMA UntrackKeeps ==
  ASSUME TrackInv, NEW id, Untrack(id)
  PROVE  /\ handles' \subseteq DOMAIN allInFlight'
         /\ DOMAIN allInFlight' = DOMAIN allInFlight \ {id}
         /\ \A r \in DOMAIN allInFlight' : allInFlight'[r] = allInFlight[r]
  BY Zenon DEF TrackInv, TrackedRequests, Untrack, Without

\* Tracking a request adds it and leaves the others as they were.
LEMMA TrackKeeps ==
  ASSUME TrackInv, NEW item, Track(item)
  PROVE  /\ handles' \subseteq DOMAIN allInFlight'
         /\ DOMAIN allInFlight' = DOMAIN allInFlight \union {item.id}
         /\ \A r \in DOMAIN allInFlight' :
              allInFlight'[r] = IF r = item.id THEN item ELSE allInFlight[r]
  BY Zenon DEF TrackInv, TrackedRequests, Track, Put

\* Every step keeps the eviction plugin's invariant.
LEMMA TrackPreserved ==
  ASSUME PathInv, TrackInv, [Next]_vars
  PROVE  TrackInv'
  <1>1. ASSUME NEW s \in Requests, StreamStep(s)
        PROVE  TrackInv'
    <2>1. PICK d \in Context : /\ ctx' = [ctx EXCEPT ![s] = d]
                               /\ Quiet(s, d) \/ Starts(s, d) \/ Finishes(s, d)
      BY <1>1, Zenon DEF StreamStep
    <2>2. \A r \in Requests : ctx'[r] = IF r = s THEN d ELSE ctx[r]
      BY <2>1, Zenon DEF PathInv
    <2>3. CASE Quiet(s, d)
      <3>1. \A r \in Requests : ctx'[r].started = ctx[r].started /\ ctx'[r].finished = ctx[r].finished
        BY <2>2, <2>3, Zenon DEF Quiet, Alike
      <3>2. UNCHANGED evictionVars
        BY <2>3, Zenon DEF Quiet, NoHooks
      <3> QED
        BY <3>1, <3>2, Zenon DEF TrackInv, TrackedRequests, evictionVars
    <2>4. CASE Starts(s, d)
      <3> DEFINE item == NewItem(s)
      <3>1. /\ Track(item) /\ item.id = s
            /\ waiters' = waiters \union {s} /\ UNCHANGED <<evicting, retracked>>
        BY <2>4, Zenon DEF Starts, runPreRequestPlugins, EvictionPreRequest, NewItem
      <3> HIDE DEF item
      <3>2. ctx'[s].finished < ctx'[s].started
        BY <2>2, <2>4 DEF Starts
      <3>3. /\ handles' \subseteq DOMAIN allInFlight'
            /\ DOMAIN allInFlight' = DOMAIN allInFlight \union {s}
            /\ \A r \in DOMAIN allInFlight' :
                 allInFlight'[r] = IF r = s THEN item ELSE allInFlight[r]
        BY <3>1, TrackKeeps, Zenon
      <3> QED
        BY <2>2, <3>1, <3>2, <3>3, Zenon DEF TrackInv, TrackedRequests
    <2>5. CASE Finishes(s, d)
      <3>1. Untrack(s) /\ UNCHANGED <<waiters, evicting, retracked>>
        BY <2>5, Zenon DEF Finishes, completionHooks, EvictionResponseBody
      <3>2. /\ handles' \subseteq DOMAIN allInFlight'
            /\ DOMAIN allInFlight' = DOMAIN allInFlight \ {s}
            /\ \A r \in DOMAIN allInFlight' : allInFlight'[r] = allInFlight[r]
        BY <3>1, UntrackKeeps, Zenon
      <3> QED
        BY <2>2, <3>1, <3>2, Zenon DEF TrackInv, TrackedRequests
    <2> QED
      BY <2>1, <2>3, <2>4, <2>5, Zenon
  <1>2. ASSUME NEW s \in Requests, Untracking(s)
        PROVE  TrackInv'
    <2>1. Untrack(s) /\ waiters' = waiters \ {s} /\ UNCHANGED <<ctx, evicting, retracked>>
      BY <1>2, Zenon DEF Untracking, ContextDone
    <2>2. /\ handles' \subseteq DOMAIN allInFlight'
          /\ DOMAIN allInFlight' = DOMAIN allInFlight \ {s}
          /\ \A r \in DOMAIN allInFlight' : allInFlight'[r] = allInFlight[r]
      BY <2>1, UntrackKeeps, Zenon
    <2> QED
      BY <2>1, <2>2, Zenon DEF TrackInv, TrackedRequests
  <1>3. CASE Evict /\ EvictPop
    <2>1. PICK id \in handles : evicting' = allInFlight[id] /\ Untrack(id)
      BY <1>3, Zenon DEF EvictPop
    <2>2. UNCHANGED <<ctx, waiters, retracked>>
      BY <1>3, Zenon DEF Evict, EvictPop
    <2>3. /\ handles' \subseteq DOMAIN allInFlight'
          /\ DOMAIN allInFlight' = DOMAIN allInFlight \ {id}
          /\ \A r \in DOMAIN allInFlight' : allInFlight'[r] = allInFlight[r]
      BY <2>1, UntrackKeeps, Zenon
    <2>4. evicting'.id \in Requests
      BY <2>1, Zenon DEF TrackInv, TrackedRequests
    <2> QED
      BY <2>2, <2>3, <2>4, Zenon DEF TrackInv, TrackedRequests
  <1>4. ASSUME NEW failed \in BOOLEAN, Evict, EvictAborted(failed)
        PROVE  TrackInv'
    <2>1. evicting.id \in Requests /\ evicting' = NoItem /\ UNCHANGED <<ctx, waiters>>
      BY <1>4, Zenon DEF Evict, EvictAborted, TrackInv
    <2>2. CASE failed
      <3>1. Track(evicting) /\ retracked' = retracked \union {evicting.id}
        BY <1>4, <2>2, Zenon DEF EvictAborted
      <3>2. /\ handles' \subseteq DOMAIN allInFlight'
            /\ DOMAIN allInFlight' = DOMAIN allInFlight \union {evicting.id}
            /\ \A r \in DOMAIN allInFlight' :
                 allInFlight'[r] = IF r = evicting.id THEN evicting ELSE allInFlight[r]
        BY <3>1, TrackKeeps, Zenon
      <3> QED
        BY <2>1, <3>1, <3>2, Zenon DEF TrackInv, TrackedRequests
    <2>3. CASE ~failed
      BY <1>4, <2>1, <2>3, Zenon DEF EvictAborted, TrackInv, TrackedRequests
    <2> QED
      BY <2>2, <2>3, Zenon
  <1>5. CASE UNCHANGED <<ctx, evictionVars>>
    BY <1>5, Zenon DEF TrackInv, TrackedRequests, evictionVars
  <1>6. ASSUME NEW e \in Endpoints, PodDeleted(e) \/ PodReconciled(e) \/ PodNotified(e) \/ PodAdded(e)
        PROVE  UNCHANGED <<ctx, evictionVars>>
    BY <1>6, Zenon DEF PodDeleted, PodReconciled, PodNotified, PodAdded
  <1>7. UNCHANGED vars => UNCHANGED <<ctx, evictionVars>>
    BY Zenon DEF vars
  <1>8. Evict => EvictPop \/ \E failed \in BOOLEAN : EvictAborted(failed)
    BY Zenon DEF Evict
  <1> QED
    BY <1>1, <1>2, <1>3, <1>4, <1>5, <1>6, <1>7, <1>8, NextCases, Zenon DEF OutsideStep

-----------------------------------------------------------------------------
(* The order of the responses.                                             *)

\* The order the property asks for, in a form that every prefix inherits.
Ordered(q) ==
  /\ \A i \in 1..(Len(q) - 1) :
       Rank[q[i]] < Rank[q[i + 1]] \/ (q[i] = "respBody" /\ q[i + 1] = "respBody")
  /\ \A i \in 1..Len(q) : q[i] \in {"respBody", "respBodyEos"} =>
       \E j \in 1..(i - 1) : q[j] = "respHeader"

\* What a stream has sent when it waits for a message or is in the director.
SentSoFar(c) ==
  /\ ~c.reqBody
  /\ c.RequestState # BodyResponseResponsesComplete => c.respBody = << >> /\ ~c.respTrailer
  /\ c.pc \in InDirector => c.RequestState = RequestReceived
  /\ \/ /\ c.RequestState = RequestReceived /\ c.sent = << >> /\ ~c.reqHeader
        /\ c.phase \in {"init", "reqBody", "reqDone"}
        /\ c.phase = "init" \/ c.pc \in InDirector => c.body = {}
     \/ /\ \/ c.RequestState = HeaderRequestResponseComplete /\ c.sent = <<"reqHeader">>
           \/ c.RequestState = BodyRequestResponsesComplete /\ c.sent = <<"reqHeader", "reqBody">>
        /\ c.phase = "reqDone" /\ c.body = {}
     \/ /\ c.RequestState = HeaderResponseResponseComplete /\ c.phase = "response"
        /\ c.sent # << >> /\ c.sent[Len(c.sent)] \in {"respHeader", "respBody"}
        /\ \E j \in 1..Len(c.sent) : c.sent[j] = "respHeader"
     \/ c.RequestState = BodyResponseResponsesComplete /\ c.phase = "respDone"

SentInv(c) ==
  /\ Ordered(c.sent)
  /\ c.phase = "response" => "request" \notin c.body
  /\ c.pc \notin {"return", "done"} => SentSoFar(c)

ResponseInv == \A s \in Requests : SentInv(ctx[s])

-----------------------------------------------------------------------------
(* Sequences of responses.                                                 *)

\* Sequences of responses may be appended in any grouping.
LEMMA ConcatAssociates ==
  ASSUME NEW M, NEW x \in Seq(M), NEW y \in Seq(M), NEW z \in Seq(M)
  PROVE  (x \o y) \o z = x \o (y \o z)
  BY SMTT(30)

\* The same for the messages of a stream.
LEMMA MessagesAssociate ==
  \A x, y, z \in Seq(Messages) : (x \o y) \o z = x \o (y \o z)
  BY ConcatAssociates

\* A response may follow those of lower rank, and a chunk another chunk.
LEMMA OrderedAppend ==
  ASSUME NEW q \in Seq(Messages), Ordered(q), NEW x \in Messages,
         \/ q = << >>
         \/ Rank[q[Len(q)]] < Rank[x]
         \/ q[Len(q)] = "respBody" /\ x = "respBody",
         x \in {"respBody", "respBodyEos"} => \E j \in 1..Len(q) : q[j] = "respHeader"
  PROVE  Ordered(Append(q, x)) /\ Append(q, x) \in Seq(Messages)
  <1> DEFINE r == Append(q, x)
  <1>1. /\ Len(q) \in Nat /\ r \in Seq(Messages) /\ Len(r) = Len(q) + 1 /\ r[Len(q) + 1] = x
        /\ \A i \in 1..Len(q) : r[i] = q[i]
    OBVIOUS
  <1>2. q # << >> => Len(q) > 0
    OBVIOUS
  <1> HIDE DEF r
  <1>3. ASSUME NEW i \in 1..(Len(r) - 1)
        PROVE  Rank[r[i]] < Rank[r[i + 1]] \/ (r[i] = "respBody" /\ r[i + 1] = "respBody")
    <2>1. CASE i < Len(q)
      BY <1>1, <2>1 DEF Ordered
    <2>2. CASE i = Len(q)
      <3>1. q # << >> /\ r[i] = q[Len(q)] /\ r[i + 1] = x
        BY <1>1, <2>2
      <3> QED
        BY <3>1, Zenon
    <2> QED
      BY <1>1, <2>1, <2>2
  <1>4. ASSUME NEW i \in 1..Len(r), r[i] \in {"respBody", "respBodyEos"}
        PROVE  \E j \in 1..(i - 1) : r[j] = "respHeader"
    <2>1. CASE i \in 1..Len(q)
      <3>1. PICK j \in 1..(i - 1) : q[j] = "respHeader"
        BY <1>1, <1>4, <2>1, Zenon DEF Ordered
      <3> QED
        BY <1>1, <2>1, <3>1
    <2>2. CASE i = Len(q) + 1
      <3>1. PICK j \in 1..Len(q) : q[j] = "respHeader"
        BY <1>1, <1>4, <2>2, Zenon
      <3> QED
        BY <1>1, <2>2, <3>1
    <2> QED
      BY <1>1, <2>1, <2>2
  <1> QED
    BY <1>1, <1>3, <1>4, Zenon DEF Ordered, r

\* What went out before a send failed is in order too.
LEMMA OrderedPrefix ==
  ASSUME NEW q \in Seq(Messages), NEW p \in Seq(Messages), NEW n \in 0..Len(p), Ordered(q \o p)
  PROVE  Ordered(q \o SubSeq(p, 1, n))
  <1> DEFINE t == SubSeq(p, 1, n)
             r == q \o t
             u == q \o p
  <1>1. t \in Seq(Messages) /\ Len(t) = n /\ \A i \in 1..n : t[i] = p[i]
    OBVIOUS
  <1> HIDE DEF t
  <1>2. /\ Len(q) \in Nat /\ Len(r) = Len(q) + n /\ Len(u) = Len(q) + Len(p) /\ Len(p) \in Nat
        /\ \A i \in 1..Len(r) : r[i] = u[i]
    BY <1>1
  <1> HIDE DEF r, u
  <1>3. Ordered(u)
    BY Zenon DEF u
  <1>4. Ordered(r)
    <2>1. ASSUME NEW i \in 1..(Len(r) - 1)
          PROVE  Rank[r[i]] < Rank[r[i + 1]] \/ (r[i] = "respBody" /\ r[i + 1] = "respBody")
      BY <1>2, <1>3 DEF Ordered
    <2>2. ASSUME NEW i \in 1..Len(r), r[i] \in {"respBody", "respBodyEos"}
          PROVE  \E j \in 1..(i - 1) : r[j] = "respHeader"
      <3>1. PICK j \in 1..(i - 1) : u[j] = "respHeader"
        BY <1>2, <1>3, <2>2 DEF Ordered
      <3> QED
        BY <1>2, <3>1
    <2> QED
      BY <2>1, <2>2, Zenon DEF Ordered
  <1> QED
    BY <1>4, Zenon DEF r, t

\* The first responses of a stream.
LEMMA OrderedFirst ==
  /\ Ordered(<< >>) /\ Ordered(<<"immediate">>) /\ Ordered(<<"reqHeader">>)
  /\ Ordered(<<"reqHeader", "reqBody">>)
  <1>1. Ordered(<< >>)
    BY DEF Ordered
  <1>2. ASSUME NEW x \in {"immediate", "reqHeader"}
        PROVE  Ordered(<<x>>)
    BY DEF Ordered
  <1>3. Ordered(<<"reqHeader", "reqBody">>)
    BY DEF Ordered, Rank
  <1> QED
    BY <1>1, <1>2, <1>3, Zenon

-----------------------------------------------------------------------------
(* What updateStateAndSendIfNeeded sends.                                  *)

\* Its conditions: which of the five kinds of responses are due.
H1(c) == c.RequestState = RequestReceived /\ c.reqHeader
B1(c) == (H1(c) \/ c.RequestState = HeaderRequestResponseComplete) /\ c.reqBody
H2(c) == c.RequestState = ResponseReceived /\ c.respHeader
B2(c) == H2(c) \/ c.RequestState = HeaderResponseResponseComplete
T2(c) == ((B2(c) /\ c.complete) \/ c.RequestState = BodyResponseResponsesComplete) /\ c.respTrailer

NextState(c) ==
  CASE B1(c) -> BodyRequestResponsesComplete
    [] H1(c) /\ ~B1(c) -> HeaderRequestResponseComplete
    [] B2(c) /\ c.complete -> BodyResponseResponsesComplete
    [] H2(c) /\ ~c.complete -> HeaderResponseResponseComplete
    [] OTHER -> c.RequestState

After(c) == [sentAll(c) EXCEPT !.pc = "recv"]

\* The fields of a context that has sent what was due.
LEMMA AfterFields ==
  ASSUME NEW c \in Context
  PROVE  /\ After(c).sent = c.sent \o pendingResponses(c)
         /\ After(c).RequestState = NextState(c)
         /\ After(c).reqBody = (c.reqBody /\ ~B1(c))
         /\ After(c).respBody = IF B2(c) THEN << >> ELSE c.respBody
         /\ After(c).pc = "recv" /\ After(c).phase = c.phase /\ After(c).body = c.body
         /\ After(c).reqHeader = c.reqHeader /\ After(c).respTrailer = c.respTrailer
  <1> DEFINE n == NextState(c)
             b == c.reqBody /\ ~B1(c)
             q == IF B2(c) THEN << >> ELSE c.respBody
             r == c.sent \o pendingResponses(c)
             a == [c EXCEPT !.sent = r, !.RequestState = n]
             d == [a EXCEPT !.reqBody = b, !.respBody = q]
             e == [d EXCEPT !.pc = "recv"]
  <1>1. After(c) = e
    BY Zenon DEF After, sentAll, NextState, H1, B1, H2, B2
  <1> HIDE DEF n, b, q, r
  <1>2. /\ a.sent = r /\ a.RequestState = n /\ a.phase = c.phase /\ a.body = c.body
        /\ a.reqHeader = c.reqHeader /\ a.respTrailer = c.respTrailer
        /\ DOMAIN a = DOMAIN c
    BY Zenon DEF Context
  <1>3. DOMAIN c = DOMAIN NewContext
    BY Zenon DEF Context, NewContext
  <1> HIDE DEF a
  <1>4. /\ d.sent = a.sent /\ d.RequestState = a.RequestState /\ d.phase = a.phase /\ d.body = a.body
        /\ d.reqHeader = a.reqHeader /\ d.respTrailer = a.respTrailer
        /\ d.reqBody = b /\ d.respBody = q /\ DOMAIN d = DOMAIN a
    BY <1>2, <1>3, Zenon DEF NewContext
  <1> HIDE DEF d
  <1>5. /\ e.sent = d.sent /\ e.RequestState = d.RequestState /\ e.phase = d.phase /\ e.body = d.body
        /\ e.reqHeader = d.reqHeader /\ e.respTrailer = d.respTrailer
        /\ e.reqBody = d.reqBody /\ e.respBody = d.respBody /\ e.pc = "recv"
    BY <1>2, <1>3, <1>4, Zenon DEF NewContext
  <1> HIDE DEF e
  <1>6. /\ After(c).sent = r /\ After(c).RequestState = n /\ After(c).reqBody = b
        /\ After(c).respBody = q
        /\ After(c).pc = "recv" /\ After(c).phase = c.phase /\ After(c).body = c.body
        /\ After(c).reqHeader = c.reqHeader /\ After(c).respTrailer = c.respTrailer
    BY <1>1, <1>2, <1>4, <1>5, Zenon
  <1> QED
    BY <1>6, Zenon DEF n, b, q, r

\* The responses due, kind by kind.
LEMMA PendingParts ==
  ASSUME NEW c \in Context
  PROVE  pendingResponses(c) =
           (IF H1(c) THEN <<"reqHeader">> ELSE << >>) \o (IF B1(c) THEN <<"reqBody">> ELSE << >>)
             \o (IF H2(c) THEN <<"respHeader">> ELSE << >>) \o (IF B2(c) THEN c.respBody ELSE << >>)
             \o (IF T2(c) THEN <<"respTrailer">> ELSE << >>)
  BY Zenon DEF pendingResponses, H1, B1, H2, B2, T2

\* Concatenations of short sequences.
LEMMA ShortConcat ==
  ASSUME NEW q \in Seq(Messages), NEW x \in Messages, NEW y \in Messages
  PROVE  /\ << >> \o q = q /\ q \o << >> = q
         /\ <<x>> \o <<y>> = <<x, y>>
         /\ q \o <<x>> = Append(q, x)
         /\ q \o <<x, y>> = Append(Append(q, x), y)
  <1>1. << >> \o q = q /\ q \o << >> = q
    OBVIOUS
  <1>2. <<x>> \o <<y>> = <<x, y>>
    <2> DEFINE r == <<x>> \o <<y>>
               t == <<x, y>>
    <2>1. <<x>> \in Seq(Messages) /\ <<y>> \in Seq(Messages)
      BY NameSequences, Zenon
    <2>2. r \in Seq(Messages) /\ Len(r) = 2 /\ r[1] = x /\ r[2] = y
      BY <2>1
    <2>3. t \in Seq(Messages) /\ Len(t) = 2 /\ t[1] = x /\ t[2] = y
      OBVIOUS
    <2> HIDE DEF r, t
    <2>4. r = t
      BY <2>2, <2>3
    <2> QED
      BY <2>4, Zenon DEF r, t
  <1>3. q \o <<x>> = Append(q, x)
    OBVIOUS
  <1>4. q \o <<x, y>> = Append(Append(q, x), y)
    OBVIOUS
  <1> QED
    BY <1>1, <1>2, <1>3, <1>4, Zenon

\* Before the response: the request's headers, and its body with them.
LEMMA RequestPending ==
  ASSUME NEW c \in Context, c.RequestState = RequestReceived
  PROVE  /\ pendingResponses(c) = IF c.reqHeader
                                  THEN (IF c.reqBody THEN <<"reqHeader", "reqBody">> ELSE <<"reqHeader">>)
                                  ELSE << >>
         /\ NextState(c) = IF c.reqHeader
                           THEN (IF c.reqBody THEN BodyRequestResponsesComplete
                                              ELSE HeaderRequestResponseComplete)
                           ELSE RequestReceived
         /\ B1(c) = (c.reqHeader /\ c.reqBody) /\ ~B2(c)
  <1>1. /\ H1(c) = c.reqHeader /\ B1(c) = (c.reqHeader /\ c.reqBody) /\ ~H2(c) /\ ~B2(c) /\ ~T2(c)
    BY DEF Context, H1, B1, H2, B2, T2, RequestReceived, HeaderRequestResponseComplete, ResponseReceived,
           HeaderResponseResponseComplete, BodyResponseResponsesComplete
  <1>2. NextState(c) = IF c.reqHeader
                       THEN (IF c.reqBody THEN BodyRequestResponsesComplete
                                          ELSE HeaderRequestResponseComplete)
                       ELSE RequestReceived
    <2>1. CASE c.reqHeader /\ c.reqBody
      BY <1>1, <2>1, Zenon DEF NextState
    <2>2. CASE c.reqHeader /\ ~c.reqBody
      BY <1>1, <2>2, Zenon DEF NextState
    <2>3. CASE ~c.reqHeader
      BY <1>1, <2>3, Zenon DEF NextState
    <2> QED
      BY <2>1, <2>2, <2>3, Zenon
  <1> DEFINE q1 == IF H1(c) THEN <<"reqHeader">> ELSE << >>
             q2 == IF B1(c) THEN <<"reqBody">> ELSE << >>
  <1>3. pendingResponses(c) = q1 \o q2 \o << >> \o << >> \o << >>
    BY <1>1, PendingParts, Zenon
  <1>4. q1 \in Seq(Messages) /\ q2 \in Seq(Messages)
    BY NameSequences, Zenon DEF Messages
  <1>5. pendingResponses(c) = q1 \o q2
    <2> HIDE DEF q1, q2
    <2> QED BY <1>3, <1>4
  <1>6. q1 \o q2 = IF c.reqHeader
                   THEN (IF c.reqBody THEN <<"reqHeader", "reqBody">> ELSE <<"reqHeader">>)
                   ELSE << >>
    <2>1. CASE c.reqHeader /\ c.reqBody
      <3>1. <<"reqHeader">> \o <<"reqBody">> = <<"reqHeader", "reqBody">>
        BY ShortConcat, NameSequences, Zenon DEF Messages
      <3>2. q1 = <<"reqHeader">> /\ q2 = <<"reqBody">>
        BY <1>1, <2>1, Zenon
      <3> HIDE DEF q1, q2
      <3> QED
        BY <2>1, <3>1, <3>2, Zenon
    <2>2. CASE c.reqHeader /\ ~c.reqBody
      <3>1. q1 = <<"reqHeader">> /\ q2 = << >>
        BY <1>1, <2>2, Zenon
      <3> HIDE DEF q1, q2
      <3> QED
        BY <1>4, <2>2, <3>1
    <2>3. CASE ~c.reqHeader
      <3>1. q1 = << >> /\ q2 = << >>
        BY <1>1, <2>3, Zenon
      <3> HIDE DEF q1, q2
      <3> QED
        BY <1>4, <2>3, <3>1
    <2> QED
      BY <2>1, <2>2, <2>3, Zenon
  <1> HIDE DEF q1, q2
  <1> QED
    BY <1>1, <1>2, <1>5, <1>6, Zenon

\* Response headers go out alone.
LEMMA HeaderPending ==
  ASSUME NEW c \in Context, c.RequestState = ResponseReceived, c.respHeader, c.respBody = << >>,
         ~c.respTrailer, ~c.complete
  PROVE  /\ pendingResponses(c) = <<"respHeader">>
         /\ NextState(c) = HeaderResponseResponseComplete /\ ~B1(c) /\ B2(c)
  <1>1. ~H1(c) /\ ~B1(c) /\ H2(c) /\ B2(c) /\ ~T2(c)
    BY DEF H1, B1, H2, B2, T2, RequestReceived, HeaderRequestResponseComplete, ResponseReceived,
           HeaderResponseResponseComplete, BodyResponseResponsesComplete
  <1>2. NextState(c) = HeaderResponseResponseComplete
    BY <1>1, Zenon DEF NextState
  <1>3. pendingResponses(c) = << >> \o << >> \o <<"respHeader">> \o << >> \o << >>
    BY <1>1, PendingParts, Zenon
  <1> QED
    BY <1>1, <1>2, <1>3

\* After them, what the response body brings, and the trailers at its end.
LEMMA BodyPending ==
  ASSUME NEW c \in Context, c.RequestState = HeaderResponseResponseComplete
  PROVE  /\ pendingResponses(c) = c.respBody \o IF c.complete /\ c.respTrailer THEN <<"respTrailer">> ELSE << >>
         /\ NextState(c) = IF c.complete THEN BodyResponseResponsesComplete
                                         ELSE HeaderResponseResponseComplete
         /\ ~B1(c) /\ B2(c)
  <1>1. ~H1(c) /\ ~B1(c) /\ ~H2(c) /\ B2(c) /\ T2(c) = (c.complete /\ c.respTrailer)
    BY DEF Context, H1, B1, H2, B2, T2, RequestReceived, HeaderRequestResponseComplete, ResponseReceived,
           HeaderResponseResponseComplete, BodyResponseResponsesComplete
  <1>2. NextState(c) = IF c.complete THEN BodyResponseResponsesComplete
                                     ELSE HeaderResponseResponseComplete
    BY <1>1, Zenon DEF NextState
  <1> DEFINE q4 == c.respBody
             q5 == IF T2(c) THEN <<"respTrailer">> ELSE << >>
  <1>3. pendingResponses(c) = << >> \o << >> \o << >> \o q4 \o q5
    BY <1>1, PendingParts, Zenon
  <1>4. q4 \in Seq(Messages)
    BY ContextTypes, Zenon
  <1>5. pendingResponses(c) = q4 \o q5
    <2> HIDE DEF q4, q5
    <2> QED BY <1>3, <1>4
  <1> QED
    BY <1>1, <1>2, <1>5, Zenon

\* A step that sends: all of it or a part, it is enough that all would be in order.
LEMMA SendInOrder ==
  ASSUME PathInv, NEW s \in Requests, NEW c \in Context, updateStateAndSendIfNeeded(s, c, TRUE),
         Ordered(c.sent \o pendingResponses(c)),
         c.phase = "response" => "request" \notin c.body,
         SentSoFar(After(c))
  PROVE  SentInv(ctx'[s])
  <1>1. \/ ctx'[s] = After(c)
        \/ \E n \in 0..(Len(pendingResponses(c)) - 1) :
             ctx'[s] = [c EXCEPT !.pc = "return", !.sent = @ \o SubSeq(pendingResponses(c), 1, n)]
    BY Zenon DEF updateStateAndSendIfNeeded, PathInv, After
  <1>2. CASE ctx'[s] = After(c)
    BY <1>2, AfterFields, Zenon DEF SentInv
  <1>3. ASSUME NEW n \in 0..(Len(pendingResponses(c)) - 1),
               ctx'[s] = [c EXCEPT !.pc = "return", !.sent = @ \o SubSeq(pendingResponses(c), 1, n)]
        PROVE  SentInv(ctx'[s])
    <2> DEFINE q == c.sent \o SubSeq(pendingResponses(c), 1, n)
               d == [c EXCEPT !.pc = "return", !.sent = q]
    <2>1. Ordered(q)
      <3>1. /\ c.sent \in Seq(Messages) /\ pendingResponses(c) \in Seq(Messages)
            /\ n \in 0..Len(pendingResponses(c))
        BY PendingType, ContextTypes
      <3> QED
        BY <3>1, OrderedPrefix, Zenon
    <2> HIDE DEF q
    <2>2. d.pc = "return" /\ d.sent = q /\ d.phase = c.phase /\ d.body = c.body
      BY Zenon DEF Context
    <2>3. ctx'[s] = d
      BY <1>3, Zenon DEF q
    <2> QED
      BY <2>1, <2>2, <2>3, Zenon DEF SentInv
  <1> QED
    BY <1>1, <1>2, <1>3, Zenon

\* An error is the first response, and the last.
LEMMA ErrorInOrder ==
  ASSUME PathInv, NEW s \in Requests, NEW c \in Context, ReturnError(s, c),
         c.sent = << >>, c.phase # "response"
  PROVE  SentInv(ctx'[s])
  <1>1. PICK q \in {<<"immediate">>, << >>} :
          ctx' = [ctx EXCEPT ![s] = [c EXCEPT !.pc = "return", !.sent = @ \o q]]
    BY Zenon DEF ReturnError
  <1>2. c.sent \o q = q
    BY <1>1
  <1> DEFINE d == [c EXCEPT !.pc = "return", !.sent = q]
  <1>3. ctx'[s] = d
    BY <1>1, <1>2, Zenon DEF PathInv
  <1>4. d.pc = "return" /\ d.sent = q /\ d.phase = c.phase
    BY Zenon DEF Context
  <1> QED
    BY <1>3, <1>4, OrderedFirst, Zenon DEF SentInv

-----------------------------------------------------------------------------
(* The actions of a stream.                                                *)

\* The request headers arrive: the responses stay in order.
LEMMA HeadersInOrder ==
  ASSUME PathInv, NEW s \in Requests, SentInv(ctx[s]), NEW eos \in BOOLEAN, RecvRequestHeaders(s, eos)
  PROVE  SentInv(ctx'[s])
  <1> DEFINE b == ctx[s]
             p == IF eos THEN "reqDone" ELSE "reqBody"
             c == [b EXCEPT !.phase = p]
             d == [c EXCEPT !.reqHeader = eos]
  <1>1. b \in Context /\ b.phase = "init" /\ b.pc = "recv" /\ SentSoFar(b)
    BY Zenon DEF RecvRequestHeaders, Receiving, PathInv, SentInv
  <1>2. /\ b.RequestState = RequestReceived /\ b.sent = << >> /\ b.body = {} /\ ~b.reqBody
        /\ b.respBody = << >> /\ ~b.respTrailer
    BY <1>1 DEF SentSoFar, RequestReceived, BodyResponseResponsesComplete, HeaderResponseResponseComplete,
                HeaderRequestResponseComplete, BodyRequestResponsesComplete
  <1>3. ReturnError(s, c) \/ updateStateAndSendIfNeeded(s, d, TRUE)
    BY Zenon DEF RecvRequestHeaders, updateStateAndSendIfNeeded
  <1> HIDE DEF b
  <1>4. /\ c \in Context /\ c.phase \in {"reqDone", "reqBody"} /\ c.sent = b.sent
        /\ c.RequestState = b.RequestState /\ c.body = b.body /\ c.reqBody = b.reqBody
        /\ c.respBody = b.respBody /\ c.respTrailer = b.respTrailer /\ (eos => c.phase = "reqDone")
    <2>1. p \in {"reqDone", "reqBody"} /\ (eos => p = "reqDone")
      BY Zenon
    <2> HIDE DEF p
    <2> QED BY <1>1, <2>1, Zenon DEF Context
  <1> HIDE DEF c
  <1>5. /\ d \in Context /\ d.reqHeader = eos /\ d.phase = c.phase /\ d.sent = c.sent
        /\ d.RequestState = c.RequestState /\ d.body = c.body /\ d.reqBody = c.reqBody
        /\ d.respBody = c.respBody /\ d.respTrailer = c.respTrailer
    BY <1>4, Zenon DEF Context
  <1> HIDE DEF d
  <1>6. CASE ReturnError(s, c)
    BY <1>2, <1>4, <1>6, ErrorInOrder, Zenon DEF b
  <1>7. CASE updateStateAndSendIfNeeded(s, d, TRUE)
    <2>1. /\ pendingResponses(d) = IF eos THEN <<"reqHeader">> ELSE << >>
          /\ NextState(d) = IF eos THEN HeaderRequestResponseComplete ELSE RequestReceived
          /\ ~B1(d) /\ ~B2(d)
      BY <1>2, <1>4, <1>5, RequestPending, Zenon
    <2>2. d.sent \o pendingResponses(d) = IF eos THEN <<"reqHeader">> ELSE << >>
      BY <1>2, <1>4, <1>5, <2>1
    <2>3. SentSoFar(After(d))
      BY <1>2, <1>4, <1>5, <2>1, <2>2, AfterFields, ZenonT(30)
         DEF SentSoFar, InDirector, RequestReceived, BodyResponseResponsesComplete,
             HeaderRequestResponseComplete
    <2>4. Ordered(d.sent \o pendingResponses(d))
      BY <2>2, OrderedFirst, Zenon
    <2> QED
      BY <1>4, <1>5, <1>7, <2>3, <2>4, SendInOrder, Zenon
  <1> QED
    BY <1>3, <1>6, <1>7, Zenon

\* A stream's step that sends nothing and leaves RequestState alone.
LEMMA SilentInOrder ==
  ASSUME NEW b \in Context, SentInv(b), b.pc \notin {"return", "done"},
         NEW d, d.sent = b.sent, d.RequestState = b.RequestState,
         d.reqHeader = b.reqHeader, d.reqBody = b.reqBody, d.respBody = b.respBody,
         d.respTrailer = b.respTrailer,
         b.RequestState = RequestReceived, d.phase \in {"reqBody", "reqDone"},
         d.pc \in InDirector => d.body = {}
  PROVE  SentInv(d)
  BY SMTT(30) DEF SentInv, SentSoFar, RequestReceived, BodyResponseResponsesComplete, HeaderResponseResponseComplete,
         HeaderRequestResponseComplete, BodyRequestResponsesComplete

\* A part of the request body arrives: the responses stay in order.
LEMMA RequestBodyInOrder ==
  ASSUME PathInv, NEW s \in Requests, SentInv(ctx[s]), NEW eos \in BOOLEAN, RecvRequestBody(s, eos)
  PROVE  SentInv(ctx'[s])
  <1> DEFINE b == ctx[s]
             m == IF eos THEN {} ELSE {"request"}
             p == IF eos THEN "reqDone" ELSE b.phase
             x == IF eos THEN "admit" ELSE b.pc
             d == [b EXCEPT !.body = m, !.phase = p, !.pc = x]
  <1>1. b \in Context /\ b.phase = "reqBody" /\ b.pc = "recv" /\ SentSoFar(b)
    BY Zenon DEF RecvRequestBody, Receiving, PathInv, SentInv
  <1>2. b.RequestState = RequestReceived
    BY <1>1, Zenon DEF SentSoFar
  <1>3. ctx'[s] = d
    BY Zenon DEF RecvRequestBody, PathInv
  <1>4. p \in {"reqBody", "reqDone"} /\ (x \in InDirector => m = {})
    BY <1>1, Zenon DEF InDirector
  <1> HIDE DEF b, m, p, x
  <1>5. /\ d.sent = b.sent /\ d.RequestState = b.RequestState
        /\ d.reqHeader = b.reqHeader /\ d.reqBody = b.reqBody /\ d.respBody = b.respBody
        /\ d.respTrailer = b.respTrailer /\ d.phase = p /\ d.pc = x /\ d.body = m
    BY <1>1, Zenon DEF Context
  <1> HIDE DEF d
  <1> QED
    BY <1>1, <1>2, <1>3, <1>4, <1>5, SilentInOrder, Zenon DEF b

\* The request trailers arrive: the responses stay in order.
LEMMA RequestTrailersInOrder ==
  ASSUME PathInv, NEW s \in Requests, SentInv(ctx[s]), RecvRequestTrailers(s)
  PROVE  SentInv(ctx'[s])
  <1> DEFINE b == ctx[s]
             d == [b EXCEPT !.phase = "reqDone"]
  <1>1. b \in Context /\ b.phase = "reqBody" /\ b.pc = "recv" /\ SentSoFar(b)
    BY Zenon DEF RecvRequestTrailers, Receiving, PathInv, SentInv
  <1>2. b.RequestState = RequestReceived
    BY <1>1, Zenon DEF SentSoFar
  <1>3. ctx'[s] = d
    BY Zenon DEF RecvRequestTrailers, PathInv
  <1> HIDE DEF b
  <1>4. /\ d.sent = b.sent /\ d.RequestState = b.RequestState
        /\ d.reqHeader = b.reqHeader /\ d.reqBody = b.reqBody /\ d.respBody = b.respBody
        /\ d.respTrailer = b.respTrailer /\ d.phase = "reqDone" /\ d.pc = b.pc
    BY <1>1, Zenon DEF Context
  <1> HIDE DEF d
  <1> QED
    BY <1>1, <1>2, <1>3, <1>4, SilentInOrder, Zenon DEF b, InDirector

\* A stream in the director has sent nothing.
LEMMA InDirectorFacts ==
  ASSUME PathInv, NEW s \in Requests, SentInv(ctx[s]), ctx[s].pc \in InDirector
  PROVE  /\ ctx[s] \in Context /\ ctx[s].RequestState = RequestReceived /\ ctx[s].sent = << >>
         /\ ctx[s].phase = "reqDone" /\ ctx[s].body = {} /\ ~ctx[s].reqBody
         /\ ctx[s].respBody = << >> /\ ~ctx[s].respTrailer
  <1>1. ctx[s] \in Context /\ ctx[s].phase = "reqDone" /\ SentSoFar(ctx[s])
    BY Zenon DEF PathInv, HookInv, SentInv, InDirector
  <1> QED
    BY <1>1, SMTT(30) DEF SentSoFar, RequestReceived, BodyResponseResponsesComplete, HeaderResponseResponseComplete,
                HeaderRequestResponseComplete, BodyRequestResponsesComplete

\* The director prepares or refuses the request: the responses stay in order.
LEMMA DirectorInOrder ==
  ASSUME PathInv, NEW s \in Requests, SentInv(ctx[s]),
         \/ HandleRequestRejected(s) \/ ScheduleFails(s) \/ Admit(s)
         \/ \E ready \in SUBSET Endpoints : PrepareData(s, ready)
  PROVE  SentInv(ctx'[s])
  <1> DEFINE b == ctx[s]
  <1>1. b.pc \in InDirector
    BY Zenon DEF HandleRequestRejected, ScheduleFails, Admit, PrepareData, InDirector
  <1>2. /\ b \in Context /\ b.RequestState = RequestReceived /\ b.sent = << >>
        /\ b.phase = "reqDone" /\ b.body = {}
    BY <1>1, InDirectorFacts, Zenon
  <1>3. CASE ReturnError(s, b)
    BY <1>2, <1>3, ErrorInOrder, Zenon
  <1>4. ASSUME NEW x \in {"prepare", "schedule"}, NEW cs,
               ctx' = [ctx EXCEPT ![s].pc = x, ![s].candidates = cs]
        PROVE  SentInv(ctx'[s])
    <2> DEFINE d == [b EXCEPT !.pc = x, !.candidates = cs]
    <2>1. ctx'[s] = d
      BY <1>4, Zenon DEF PathInv
    <2> HIDE DEF b
    <2>2. /\ d.sent = b.sent /\ d.RequestState = b.RequestState
          /\ d.reqHeader = b.reqHeader /\ d.reqBody = b.reqBody /\ d.respBody = b.respBody
          /\ d.respTrailer = b.respTrailer /\ d.phase = b.phase /\ d.body = b.body
      BY <1>2, Zenon DEF Context
    <2> HIDE DEF d
    <2>3. b.pc \notin {"return", "done"} /\ SentInv(b)
      BY <1>1, Zenon DEF InDirector, b
    <2> QED
      BY <1>2, <2>1, <2>2, <2>3, SilentInOrder, Zenon
  <1>5. CASE HandleRequestRejected(s) \/ ScheduleFails(s)
    BY <1>3, <1>5, Zenon DEF HandleRequestRejected, ScheduleFails
  <1>6. CASE Admit(s)
    BY <1>3, <1>4, <1>6, Zenon DEF Admit
  <1>7. ASSUME NEW ready, PrepareData(s, ready)
        PROVE  SentInv(ctx'[s])
    <2> DEFINE cs == Filter(LoadPrepareData(ctx[s].candidates, ready))
    <2>1. ctx' = [ctx EXCEPT ![s].pc = "schedule", ![s].candidates = cs]
      BY <1>7, Zenon DEF PrepareData
    <2> HIDE DEF cs
    <2> QED
      BY <1>4, <2>1, Zenon
  <1> QED
    BY <1>5, <1>6, <1>7, Zenon

\* The stream is cancelled: the responses stay in order.
LEMMA CancelInOrder ==
  ASSUME PathInv, NEW s \in Requests, SentInv(ctx[s]), Cancel(s)
  PROVE  SentInv(ctx'[s])
  <1> DEFINE b == ctx[s]
             d == [b EXCEPT !.cancelled = TRUE]
  <1>1. b \in Context /\ SentInv(b)
    BY Zenon DEF PathInv
  <1>2. ctx'[s] = d
    BY Zenon DEF Cancel, PathInv
  <1> HIDE DEF b
  <1>3. /\ d.sent = b.sent /\ d.RequestState = b.RequestState
        /\ d.reqHeader = b.reqHeader /\ d.reqBody = b.reqBody /\ d.respBody = b.respBody
        /\ d.respTrailer = b.respTrailer /\ d.phase = b.phase /\ d.pc = b.pc /\ d.body = b.body
    BY <1>1, Zenon DEF Context
  <1> HIDE DEF d
  <1> QED
    BY <1>1, <1>2, <1>3, Zenon DEF SentInv, SentSoFar

\* Process returns: the responses stay in order.
LEMMA ReturnInOrder ==
  ASSUME PathInv, NEW s \in Requests, Return(s, ctx[s])
  PROVE  SentInv(ctx'[s])
  <1> DEFINE f == ctx[s].finished + IF forceCompletion(ctx[s]) THEN 1 ELSE 0
             t == ctx[s].targets
             n == ctx[s].started
             d == [NewContext EXCEPT !.pc = "done", !.cancelled = TRUE, !.targets = t,
                                     !.started = n, !.finished = f]
  <1>1. ctx'[s] = d
    BY Zenon DEF Return, PathInv
  <1> HIDE DEF f, t, n
  <1>2. d.pc = "done" /\ d.sent = << >> /\ d.phase = "init"
    BY Zenon DEF NewContext
  <1> QED
    BY <1>1, <1>2, OrderedFirst, Zenon DEF SentInv

\* The request is scheduled, or scheduling fails: the responses stay in order.
LEMMA ScheduleInOrder ==
  ASSUME PathInv, NEW s \in Requests, SentInv(ctx[s]), NEW targets \in Targets, Schedule(s, targets)
  PROVE  SentInv(ctx'[s])
  <1> DEFINE b == ctx[s]
             n == b.started + 1
             a == [b EXCEPT !.targets = targets, !.candidates = {}, !.started = n]
             c == [a EXCEPT !.reqHeader = TRUE, !.reqBody = TRUE]
  <1>1. b.pc \in InDirector
    BY Zenon DEF Schedule, InDirector
  <1>2. /\ b \in Context /\ b.RequestState = RequestReceived /\ b.sent = << >>
        /\ b.phase = "reqDone" /\ b.body = {} /\ b.respBody = << >> /\ ~b.respTrailer
    BY <1>1, InDirectorFacts, Zenon
  <1>3. updateStateAndSendIfNeeded(s, c, TRUE)
    BY Zenon DEF Schedule, updateStateAndSendIfNeeded
  <1>4. targets \in Seq(Endpoints)
    BY TargetsType, Zenon
  <1>5. n \in {0, 1}
    BY <1>1 DEF PathInv, HookInv
  <1> HIDE DEF b, n
  <1>6. /\ a \in Context /\ a.RequestState = b.RequestState /\ a.sent = b.sent /\ a.phase = b.phase
        /\ a.body = b.body /\ a.respBody = b.respBody /\ a.respTrailer = b.respTrailer
    BY <1>2, <1>4, <1>5, Zenon DEF Context
  <1> HIDE DEF a
  <1>7. /\ c \in Context /\ c.RequestState = a.RequestState /\ c.sent = a.sent /\ c.phase = a.phase
        /\ c.body = a.body /\ c.respBody = a.respBody /\ c.respTrailer = a.respTrailer
        /\ c.reqHeader = TRUE /\ c.reqBody = TRUE
    BY <1>6, Zenon DEF Context
  <1> HIDE DEF c
  <1>8. /\ pendingResponses(c) = <<"reqHeader", "reqBody">>
        /\ NextState(c) = BodyRequestResponsesComplete /\ B1(c) /\ ~B2(c)
    BY <1>2, <1>6, <1>7, RequestPending, Zenon
  <1>9. c.sent \o pendingResponses(c) = <<"reqHeader", "reqBody">>
    BY <1>2, <1>6, <1>7, <1>8
  <1>10. SentSoFar(After(c))
    BY <1>2, <1>6, <1>7, <1>8, <1>9, AfterFields, ZenonT(30)
       DEF SentSoFar, InDirector, RequestReceived, BodyResponseResponsesComplete,
           HeaderRequestResponseComplete, BodyRequestResponsesComplete
  <1>11. Ordered(c.sent \o pendingResponses(c))
    BY <1>9, OrderedFirst, Zenon
  <1> QED
    BY <1>2, <1>3, <1>6, <1>7, <1>10, <1>11, SendInOrder, Zenon

\* The response headers arrive: the responses stay in order.
LEMMA ResponseHeadersInOrder ==
  ASSUME PathInv, NEW s \in Requests, SentInv(ctx[s]), NEW eventStream \in BOOLEAN,
         RecvResponseHeaders(s, eventStream)
  PROVE  SentInv(ctx'[s])
  <1> DEFINE b == ctx[s]
             c == [b EXCEPT !.phase = "response", !.streaming = eventStream,
                            !.RequestState = ResponseReceived, !.respHeader = TRUE]
  <1>1. /\ b \in Context /\ b.phase = "reqDone" /\ b.pc = "recv" /\ SentSoFar(b) /\ ~b.complete
        /\ b.RequestState \in {HeaderRequestResponseComplete, BodyRequestResponsesComplete}
    BY Zenon DEF RecvResponseHeaders, Receiving, PathInv, HookInv, Running, SentInv
  <1>2. /\ b.sent = <<"reqHeader">> \/ b.sent = <<"reqHeader", "reqBody">>
        /\ b.body = {} /\ ~b.reqBody /\ b.respBody = << >> /\ ~b.respTrailer
    <2> HIDE DEF b
    <2> QED BY <1>1 DEF SentSoFar, RequestReceived, BodyResponseResponsesComplete, HeaderResponseResponseComplete,
                HeaderRequestResponseComplete, BodyRequestResponsesComplete
  <1>3. updateStateAndSendIfNeeded(s, c, TRUE)
    BY Zenon DEF RecvResponseHeaders, updateStateAndSendIfNeeded
  <1> HIDE DEF b
  <1>4. /\ c \in Context /\ c.phase = "response" /\ c.RequestState = ResponseReceived
        /\ c.respHeader = TRUE /\ c.sent = b.sent /\ c.body = b.body /\ c.reqBody = b.reqBody
        /\ c.respBody = b.respBody /\ c.respTrailer = b.respTrailer /\ c.complete = b.complete
    BY <1>1, Zenon DEF Context, ResponseReceived
  <1> HIDE DEF c
  <1>5. /\ pendingResponses(c) = <<"respHeader">>
        /\ NextState(c) = HeaderResponseResponseComplete /\ ~B1(c) /\ B2(c)
    BY <1>1, <1>2, <1>4, HeaderPending, Zenon
  <1> DEFINE q == c.sent
             r == Append(q, "respHeader")
  <1>6. /\ q \in Seq(Messages) /\ Ordered(q) /\ Rank[q[Len(q)]] < Rank["respHeader"]
    <2>1. q \in Seq(Messages)
      BY <1>4, ContextTypes, Zenon
    <2>2. q = <<"reqHeader">> \/ q = <<"reqHeader", "reqBody">>
      BY <1>2, <1>4, Zenon
    <2>3. q[Len(q)] = "reqHeader" \/ q[Len(q)] = "reqBody"
      <3> HIDE DEF q
      <3>1. CASE q = <<"reqHeader">>
        BY <3>1, Zenon
      <3>2. CASE q = <<"reqHeader", "reqBody">>
        <4>1. Len(q) = 2 /\ q[2] = "reqBody"
          BY <3>2, Zenon
        <4> QED BY <4>1, Zenon
      <3> QED BY <2>2, <3>1, <3>2, Zenon
    <2>4. Rank[q[Len(q)]] < Rank["respHeader"]
      BY <2>3 DEF Rank
    <2> QED
      BY <2>1, <2>2, <2>4, OrderedFirst, Zenon
  <1> HIDE DEF q
  <1>7. Ordered(r) /\ r \in Seq(Messages)
    BY <1>6, OrderedAppend, Zenon DEF Messages
  <1>8. c.sent \o pendingResponses(c) = r
    BY <1>5, <1>6 DEF q
  <1>9. r # << >> /\ r[Len(r)] = "respHeader" /\ \E j \in 1..Len(r) : r[j] = "respHeader"
    BY <1>6
  <1> HIDE DEF r
  <1>10. SentSoFar(After(c))
    BY <1>2, <1>4, <1>5, <1>8, <1>9, AfterFields, Zenon
       DEF SentSoFar, InDirector, RequestReceived, BodyResponseResponsesComplete, HeaderResponseResponseComplete
  <1> QED
    BY <1>2, <1>3, <1>4, <1>7, <1>8, <1>10, SendInOrder, Zenon

\* A chunk of the response, or its end: what is due is at most one chunk, and
\* the trailers when the response is complete.
LEMMA ResponseInOrder ==
  ASSUME PathInv, NEW s \in Requests, SentInv(ctx[s]), Receiving(s, {"response"}),
         NEW d \in Context, updateStateAndSendIfNeeded(s, d, TRUE),
         d.RequestState = ctx[s].RequestState, d.sent = ctx[s].sent, d.reqBody = ctx[s].reqBody,
         d.phase = "response" => d.body \subseteq ctx[s].body \union {"response"},
         d.phase = IF d.complete THEN "respDone" ELSE "response",
         d.respTrailer => d.complete,
         \/ d.respBody = << >>
         \/ d.respBody = <<"respBody">>
         \/ d.respBody = <<"respBodyEos">> /\ d.complete /\ ~d.respTrailer
  PROVE  SentInv(ctx'[s])
  <1> DEFINE b == ctx[s]
             q == d.sent
             t == IF d.complete /\ d.respTrailer THEN <<"respTrailer">> ELSE << >>
  <1>1. b \in Context /\ b.phase = "response" /\ b.pc = "recv" /\ SentSoFar(b) /\ SentInv(b)
    BY Zenon DEF Receiving, PathInv, SentInv
  <1>2. /\ b.RequestState = HeaderResponseResponseComplete /\ "request" \notin b.body /\ ~b.reqBody
        /\ b.sent # << >> /\ b.sent[Len(b.sent)] \in {"respHeader", "respBody"}
        /\ \E j \in 1..Len(b.sent) : b.sent[j] = "respHeader"
        /\ Ordered(b.sent)
    BY <1>1, ZenonT(30) DEF SentInv, SentSoFar
  <1>3. q \in Seq(Messages) /\ d.respBody \in Seq(Messages)
    BY ContextTypes, ZenonT(30)
  <1>4. /\ pendingResponses(d) = d.respBody \o t
        /\ NextState(d) = IF d.complete THEN BodyResponseResponsesComplete
                                        ELSE HeaderResponseResponseComplete
        /\ ~B1(d) /\ B2(d)
    BY <1>2, BodyPending, Zenon
  <1>5. Ordered(q) /\ q # << >> /\ q[Len(q)] \in {"respHeader", "respBody"}
        /\ \E j \in 1..Len(q) : q[j] = "respHeader"
    BY <1>2, Zenon
  <1> HIDE DEF q
  <1> DEFINE r == q \o d.respBody
             Good == /\ r \in Seq(Messages) /\ Ordered(r) /\ r # << >>
                     /\ Rank[r[Len(r)]] < Rank["respTrailer"]
                     /\ ~d.complete => /\ r[Len(r)] \in {"respHeader", "respBody"}
                                       /\ \E j \in 1..Len(r) : r[j] = "respHeader"
  <1>6. Good
    <2>1. CASE d.respBody = << >>
      <3>1. r = q
        BY <1>3, <2>1, SMTT(30)
      <3>2. Rank[q[Len(q)]] < Rank["respTrailer"]
        BY <1>5, SMTT(30) DEF Rank
      <3> QED
        BY <1>3, <1>5, <3>1, <3>2, Zenon
    <2>2. ASSUME NEW x \in {"respBody", "respBodyEos"}, d.respBody = <<x>>, x = "respBodyEos" => d.complete
          PROVE  Good
      <3>1. r = Append(q, x)
        BY <1>3, <2>2, SMTT(30)
      <3>2. Rank[q[Len(q)]] < Rank[x] \/ (q[Len(q)] = "respBody" /\ x = "respBody")
        BY <1>5, <2>2 DEF Rank
      <3>3. Ordered(r) /\ r \in Seq(Messages)
        BY <1>3, <1>5, <2>2, <3>1, <3>2, OrderedAppend, ZenonT(30) DEF Messages
      <3>4. r # << >> /\ r[Len(r)] = x /\ \E j \in 1..Len(r) : r[j] = "respHeader"
        BY <1>3, <1>5, <3>1
      <3>5. Rank[x] < Rank["respTrailer"]
        BY <2>2 DEF Rank
      <3> QED
        BY <2>2, <3>3, <3>4, <3>5, Zenon
    <2> QED
      BY <2>1, <2>2, Zenon
  <1>7. q \o pendingResponses(d) = r \o t
    <2>1. t \in Seq(Messages)
      BY NameSequences, Zenon DEF Messages
    <2> DEFINE p == d.respBody
    <2>2. p \in Seq(Messages)
      BY <1>3, Zenon
    <2> HIDE DEF p, t
    <2>3. (q \o p) \o t = q \o (p \o t)
      BY <1>3, <2>1, <2>2, MessagesAssociate, Zenon
    <2> QED
      BY <1>4, <2>3, Zenon DEF p
  <1> HIDE DEF r
  <1>8. Ordered(r \o t)
    <2>1. CASE t = << >>
      <3> HIDE DEF t
      <3>1. r \o t = r
        BY <1>6, <2>1, SMTT(30)
      <3> QED BY <1>6, <3>1, Zenon
    <2>2. CASE t = <<"respTrailer">>
      <3> HIDE DEF t
      <3>1. r \o t = Append(r, "respTrailer")
        BY <1>6, <2>2, SMTT(30)
      <3> QED
        BY <1>6, <3>1, OrderedAppend, Zenon DEF Messages
    <2> QED
      BY <2>1, <2>2, Zenon
  <1>9. SentSoFar(After(d))
    <2>1. CASE d.complete
      BY <1>2, <1>4, <2>1, AfterFields, ZenonT(30)
         DEF SentSoFar, InDirector, BodyResponseResponsesComplete
    <2>2. CASE ~d.complete
      <3>1. q \o pendingResponses(d) = r
        BY <1>6, <1>7, <2>2
      <3> QED
        BY <1>2, <1>4, <1>6, <2>2, <3>1, AfterFields, ZenonT(30)
           DEF SentSoFar, InDirector, q, HeaderResponseResponseComplete, BodyResponseResponsesComplete
    <2> QED
      BY <2>1, <2>2, Zenon
  <1>10. d.phase = "response" => "request" \notin d.body
    BY <1>2, Zenon
  <1> QED
    BY <1>7, <1>8, <1>9, <1>10, SendInOrder, ZenonT(30) DEF q

\* finishResponse on a response that is not complete.
LEMMA FinishedFields ==
  ASSUME NEW c \in Context, ~c.complete, c.finished = 0, NEW eos \in BOOLEAN
  PROVE  LET d == finishResponse(c, eos) IN
           /\ d \in Context /\ d.complete = TRUE
           /\ d.respBody = IF c.streaming THEN c.respBody ELSE bodyResponses(eos)
           /\ d.phase = c.phase /\ d.RequestState = c.RequestState /\ d.sent = c.sent
           /\ d.reqBody = c.reqBody /\ d.body = c.body /\ d.respTrailer = c.respTrailer
  <1> DEFINE d == finishResponse(c, eos)
             f == c.finished + IF mustFinish(c) /\ TargetPod(c) # None THEN 1 ELSE 0
             q == IF mustFinish(c) /\ ~c.streaming THEN bodyResponses(eos) ELSE c.respBody
             g == [c EXCEPT !.complete = TRUE, !.finished = f, !.respBody = q]
  <1>1. d = g
    BY Zenon DEF finishResponse
  <1>2. f \in {0, 1}
    OBVIOUS
  <1>3. bodyResponses(eos) \in Seq(Messages)
    BY NameSequences, Zenon DEF bodyResponses, Messages
  <1>4. q \in Seq(Messages) /\ q = IF c.streaming THEN c.respBody ELSE bodyResponses(eos)
    <2>1. q \in Seq(Messages)
      BY <1>3, ContextTypes, Zenon
    <2>2. q = IF c.streaming THEN c.respBody ELSE bodyResponses(eos)
      BY Zenon DEF mustFinish
    <2> QED
      BY <2>1, <2>2, Zenon
  <1> HIDE DEF d, f, q
  <1>5. /\ g \in Context /\ g.complete = TRUE /\ g.respBody = q
        /\ g.phase = c.phase /\ g.RequestState = c.RequestState /\ g.sent = c.sent
        /\ g.reqBody = c.reqBody /\ g.body = c.body /\ g.respTrailer = c.respTrailer
    BY <1>2, <1>4, ZenonT(30) DEF Context
  <1> HIDE DEF g
  <1> QED
    BY <1>1, <1>4, <1>5, Zenon DEF d

\* A part of the response body arrives: the responses stay in order.
LEMMA ResponseBodyInOrder ==
  ASSUME PathInv, NEW s \in Requests, SentInv(ctx[s]), NEW eos \in BOOLEAN, RecvResponseBody(s, eos)
  PROVE  SentInv(ctx'[s])
  <1> DEFINE b == ctx[s]
             p == IF eos THEN "respDone" ELSE "response"
             n == b.chunks + 1
             c == [b EXCEPT !.phase = p, !.chunks = n]
             f == c.finished + IF eos /\ TargetPod(c) # None THEN 1 ELSE 0
             e == [c EXCEPT !.body = @ \union {"response"}]
             streamed == [c EXCEPT !.complete = @ \/ eos, !.respBody = bodyResponses(eos),
                                   !.finished = @ + IF eos /\ TargetPod(c) # None THEN 1 ELSE 0]
             d == CASE c.streaming -> streamed
                    [] ~c.streaming /\ eos -> finishResponse(e, TRUE)
                    [] OTHER -> e
  <1>1. /\ b \in Context /\ b.phase = "response" /\ ~b.complete /\ b.finished = 0 /\ b.pc = "recv"
        /\ b.respBody = << >> /\ ~b.respTrailer /\ Receiving(s, {"response"})
        /\ b.started = IF b.targets = << >> THEN 0 ELSE 1
    BY DEF RecvResponseBody, Receiving, PathInv, HookInv, Running, SentInv, SentSoFar,
           HeaderResponseResponseComplete, BodyResponseResponsesComplete
  <1>2. updateStateAndSendIfNeeded(s, d, TRUE)
    BY <1>1, ZenonT(30) DEF RecvResponseBody, updateStateAndSendIfNeeded
  <1>3. n \in Nat /\ p \in {"respDone", "response"}
    BY <1>1 DEF Context
  <1> HIDE DEF b, n, p, d
  <1>4. /\ c \in Context /\ c.phase = p /\ c.complete = b.complete /\ c.finished = b.finished
        /\ c.RequestState = b.RequestState /\ c.sent = b.sent /\ c.reqBody = b.reqBody
        /\ c.body = b.body /\ c.respBody = b.respBody /\ c.respTrailer = b.respTrailer
        /\ c.targets = b.targets /\ c.started = b.started
    BY <1>1, <1>3, ZenonT(30) DEF Context
  <1> HIDE DEF c
  <1>5. f \in {0, 1}
    BY <1>1, <1>4
  <1> HIDE DEF f
  <1>6. bodyResponses(eos) = <<IF eos THEN "respBodyEos" ELSE "respBody">> /\ bodyResponses(eos) \in Seq(Messages)
    BY NameSequences, Zenon DEF bodyResponses, Messages
  <1>7. /\ e \in Context /\ e.phase = p /\ e.complete = c.complete /\ e.finished = c.finished
        /\ e.RequestState = c.RequestState /\ e.sent = c.sent /\ e.reqBody = c.reqBody
        /\ e.body = c.body \union {"response"} /\ e.respBody = c.respBody /\ e.respTrailer = c.respTrailer
        /\ e.targets = c.targets /\ e.started = c.started /\ e.streaming = c.streaming
    <2> DEFINE m == c.body \union {"response"}
               g == [c EXCEPT !.body = m]
    <2>1. m \in SUBSET {"request", "response"}
      BY <1>4, Zenon DEF Context
    <2>2. e = g
      BY Zenon
    <2> HIDE DEF m, e
    <2>3. /\ g \in Context /\ g.phase = p /\ g.complete = c.complete /\ g.finished = c.finished
          /\ g.RequestState = c.RequestState /\ g.sent = c.sent /\ g.reqBody = c.reqBody
          /\ g.body = m /\ g.respBody = c.respBody /\ g.respTrailer = c.respTrailer
          /\ g.targets = c.targets /\ g.started = c.started /\ g.streaming = c.streaming
      BY <1>4, <2>1, Zenon DEF Context
    <2> QED
      BY <2>2, <2>3, Zenon DEF m
  <1> HIDE DEF e
  <1>8. CASE c.streaming
    <2> DEFINE g == [c EXCEPT !.complete = eos, !.respBody = bodyResponses(eos), !.finished = f]
    <2>1. d = g
      <3>1. d = streamed
        BY <1>8, Zenon DEF d
      <3>2. streamed = g
        BY <1>1, <1>4, Zenon DEF Context, f
      <3> QED
        BY <3>1, <3>2, Zenon
    <2> HIDE DEF streamed
    <2>2. /\ g \in Context /\ g.complete = eos /\ g.respBody = bodyResponses(eos) /\ g.phase = c.phase
          /\ g.RequestState = c.RequestState /\ g.sent = c.sent /\ g.reqBody = c.reqBody
          /\ g.body = c.body /\ g.respTrailer = c.respTrailer
      BY <1>4, <1>5, <1>6, Zenon DEF Context
    <2> HIDE DEF g
    <2> QED
      BY <1>1, <1>2, <1>4, <1>6, <2>1, <2>2, ResponseInOrder, Zenon DEF b, p
  <1>9. CASE ~c.streaming /\ eos
    <2>1. d = finishResponse(e, TRUE)
      BY <1>9, Zenon DEF d
    <2>2. /\ d \in Context /\ d.complete = TRUE /\ d.respBody = bodyResponses(TRUE) /\ d.phase = e.phase
          /\ d.RequestState = e.RequestState /\ d.sent = e.sent /\ d.reqBody = e.reqBody
          /\ d.body = e.body /\ d.respTrailer = e.respTrailer
      BY <1>1, <1>4, <1>7, <1>9, <2>1, FinishedFields, Zenon
    <2> QED
      BY <1>1, <1>2, <1>4, <1>6, <1>7, <1>9, <2>2, ResponseInOrder, Zenon DEF b, p
  <1>10. CASE ~c.streaming /\ ~eos
    <2>1. d = e
      BY <1>10, Zenon DEF d
    <2> QED
      BY <1>1, <1>2, <1>4, <1>7, <1>10, <2>1, ResponseInOrder, Zenon DEF b, p
  <1>11. c.streaming \in BOOLEAN
    BY <1>4, Zenon DEF Context
  <1> QED
    BY <1>8, <1>9, <1>10, <1>11, Zenon

\* The response trailers arrive: the responses stay in order.
LEMMA ResponseTrailersInOrder ==
  ASSUME PathInv, NEW s \in Requests, SentInv(ctx[s]), RecvResponseTrailers(s)
  PROVE  SentInv(ctx'[s])
  <1> DEFINE b == ctx[s]
             c == [b EXCEPT !.phase = "respDone", !.respTrailer = TRUE]
             d == finishResponse(c, FALSE)
  <1>1. /\ b \in Context /\ b.phase = "response" /\ ~b.complete /\ b.finished = 0 /\ b.pc = "recv"
        /\ b.respBody = << >> /\ ~b.respTrailer /\ Receiving(s, {"response"})
        /\ b.started = IF b.targets = << >> THEN 0 ELSE 1
    BY DEF RecvResponseTrailers, Receiving, PathInv, HookInv, Running, SentInv, SentSoFar,
           HeaderResponseResponseComplete, BodyResponseResponsesComplete
  <1>2. updateStateAndSendIfNeeded(s, d, TRUE)
    BY Zenon DEF RecvResponseTrailers, updateStateAndSendIfNeeded
  <1> HIDE DEF b, d
  <1>3. /\ c \in Context /\ c.phase = "respDone" /\ c.respTrailer = TRUE /\ c.complete = b.complete
        /\ c.finished = b.finished /\ c.RequestState = b.RequestState /\ c.sent = b.sent
        /\ c.reqBody = b.reqBody /\ c.respBody = b.respBody
        /\ c.targets = b.targets /\ c.started = b.started
    BY <1>1, ZenonT(30) DEF Context
  <1> HIDE DEF c
  <1>4. /\ d \in Context /\ d.complete = TRUE /\ d.phase = c.phase /\ d.RequestState = c.RequestState
        /\ d.respBody = IF c.streaming THEN c.respBody ELSE bodyResponses(FALSE)
        /\ d.sent = c.sent /\ d.reqBody = c.reqBody /\ d.respTrailer = c.respTrailer
    BY <1>1, <1>3, FinishedFields, Zenon DEF d
  <1>5. bodyResponses(FALSE) = <<"respBody">>
    BY Zenon DEF bodyResponses
  <1> QED
    BY <1>1, <1>2, <1>3, <1>4, <1>5, ResponseInOrder, Zenon DEF b

\* Every step keeps the order: a stream's changes its own context only.
LEMMA ResponsePreserved ==
  ASSUME PathInv, ResponseInv, [Next]_vars
  PROVE  ResponseInv'
  <1>1. ASSUME NEW s \in Requests, Step(s) \/ Message(s) \/ RecvEnds(s) \/ Cancel(s)
        PROVE  SentInv(ctx'[s])
    <2>1. SentInv(ctx[s])
      BY Zenon DEF ResponseInv
    <2>2. CASE Step(s)
      <3>1. ASSUME NEW targets \in Targets, Schedule(s, targets) PROVE SentInv(ctx'[s])
        BY <2>1, <3>1, ScheduleInOrder, Zenon
      <3>2. ASSUME Deferred(s) PROVE SentInv(ctx'[s])
        BY <3>2, ReturnInOrder, Zenon DEF Deferred
      <3> QED
        BY <2>1, <2>2, <3>1, <3>2, DirectorInOrder, Zenon DEF Step
    <2>3. ASSUME NEW eos \in BOOLEAN, RecvRequestHeaders(s, eos) PROVE SentInv(ctx'[s])
      BY <2>1, <2>3, HeadersInOrder, Zenon
    <2>4. ASSUME NEW eos \in BOOLEAN, RecvRequestBody(s, eos) PROVE SentInv(ctx'[s])
      BY <2>1, <2>4, RequestBodyInOrder, Zenon
    <2>5. ASSUME RecvRequestTrailers(s) PROVE SentInv(ctx'[s])
      BY <2>1, <2>5, RequestTrailersInOrder, Zenon
    <2>6. ASSUME NEW eventStream \in BOOLEAN, RecvResponseHeaders(s, eventStream) PROVE SentInv(ctx'[s])
      BY <2>1, <2>6, ResponseHeadersInOrder, Zenon
    <2>7. ASSUME NEW eos \in BOOLEAN, RecvResponseBody(s, eos) PROVE SentInv(ctx'[s])
      BY <2>1, <2>7, ResponseBodyInOrder, Zenon
    <2>8. ASSUME RecvResponseTrailers(s) PROVE SentInv(ctx'[s])
      BY <2>1, <2>8, ResponseTrailersInOrder, Zenon
    <2>9. CASE Message(s)
      BY <2>3, <2>4, <2>5, <2>6, <2>7, <2>8, <2>9, Zenon DEF Message
    <2>10. CASE RecvEnds(s)
      BY <2>10, ReturnInOrder, Zenon DEF RecvEnds
    <2>11. CASE Cancel(s)
      BY <2>1, <2>11, CancelInOrder, Zenon
    <2> QED
      BY <1>1, <2>2, <2>9, <2>10, <2>11, Zenon
  <1>2. ASSUME NEW s \in Requests, Step(s) \/ Message(s) \/ RecvEnds(s) \/ Cancel(s)
        PROVE  \A r \in Requests : r # s => ctx'[r] = ctx[r]
    <2>1. StreamStep(s)
      BY <1>2, StreamCases, Zenon
    <2> QED
      BY <2>1, Zenon DEF StreamStep, PathInv
  <1>3. CASE ctx' = ctx
    BY <1>3, Zenon DEF ResponseInv
  <1>4. OutsideStep \/ UNCHANGED vars => ctx' = ctx
    BY Zenon DEF OutsideStep, Untracking, Evict, PodDeleted, PodReconciled, PodNotified, PodAdded, vars
  <1>5. ASSUME NEW s \in Requests, Step(s) \/ Message(s) \/ RecvEnds(s) \/ Cancel(s)
        PROVE  ResponseInv'
    BY <1>1, <1>2, <1>5, Zenon DEF ResponseInv
  <1> QED
    BY <1>3, <1>4, <1>5, Zenon DEF Next, OutsideStep

-----------------------------------------------------------------------------
(* The in-flight load.                                                     *)

Counters(t) == \A e \in DOMAIN t : t[e] \in Int

\* Counters are integers, one that is missing included.
LEMMA GetInt ==
  ASSUME NEW t, Counters(t), NEW e
  PROVE  get(t, e) \in Int
  BY DEF get, Counters

\* PreRequest adds one at every target.
LEMMA GetAddAll ==
  ASSUME NEW t, Counters(t), NEW es, NEW e
  PROVE  /\ Counters(addAll(t, es, 1))
         /\ get(addAll(t, es, 1), e) = get(t, e) + IF e \in es THEN 1 ELSE 0
  BY GetInt DEF get, addAll, Counters

\* ResponseBody takes one off a single endpoint.
LEMMA GetTakeOff ==
  ASSUME NEW t, Counters(t), NEW h, NEW e
  PROVE  /\ Counters(add(t, h, -1))
         /\ get(add(t, h, -1), e) = get(t, e) + IF e = h THEN -1 ELSE 0
  BY GetInt DEF get, add, Counters

\* A deleted counter reads as 0.
LEMMA GetDelete ==
  ASSUME NEW t, Counters(t), NEW h, NEW e
  PROVE  /\ Counters(delete(t, h))
         /\ get(delete(t, h), e) = IF e = h THEN 0 ELSE get(t, e)
  BY Zenon DEF get, delete, Counters

\* The fallbacks of a request are its targets but the first.
LEMMA HeadAndFallbacks ==
  ASSUME NEW q \in Seq(Endpoints), q # << >>, Injective(q)
  PROVE  /\ Range(q) = {Head(q)} \union Range(Tail(q))
         /\ Head(q) \notin Range(Tail(q))
  <1>1. /\ Len(q) \in Nat /\ Len(q) >= 1 /\ DOMAIN q = 1..Len(q) /\ Head(q) = q[1]
    OBVIOUS
  <1>2. /\ DOMAIN Tail(q) = 1..(Len(q) - 1)
        /\ \A i \in 1..(Len(q) - 1) : Tail(q)[i] = q[i + 1]
    BY <1>1
  <1>3. ASSUME NEW x
        PROVE  x \in Range(Tail(q)) <=> \E j \in 2..Len(q) : x = q[j]
    <2>1. ASSUME NEW i \in 1..(Len(q) - 1)
          PROVE  i + 1 \in 2..Len(q)
      BY <1>1
    <2>2. ASSUME NEW j \in 2..Len(q)
          PROVE  j - 1 \in 1..(Len(q) - 1) /\ q[j] = Tail(q)[j - 1]
      BY <1>1, <1>2
    <2>3. x \in Range(Tail(q)) <=> \E i \in 1..(Len(q) - 1) : x = Tail(q)[i]
      BY <1>2, Zenon DEF Range
    <2>4. (\E i \in 1..(Len(q) - 1) : x = Tail(q)[i]) => \E j \in 2..Len(q) : x = q[j]
      BY <1>2, <2>1, Zenon
    <2>5. (\E j \in 2..Len(q) : x = q[j]) => \E i \in 1..(Len(q) - 1) : x = Tail(q)[i]
      BY <2>2, Zenon
    <2> QED
      BY <2>3, <2>4, <2>5, Zenon
  <1>4. ASSUME NEW x
        PROVE  x \in Range(q) <=> x = q[1] \/ \E j \in 2..Len(q) : x = q[j]
    <2>1. 1 \in DOMAIN q /\ \A j \in DOMAIN q : j = 1 \/ j \in 2..Len(q)
      BY <1>1
    <2>2. \A j \in 2..Len(q) : j \in DOMAIN q
      BY <1>1
    <2> QED
      BY <2>1, <2>2, Zenon DEF Range
  <1>5. \A j \in 2..Len(q) : q[j] # q[1]
    BY <1>1 DEF Injective
  <1> QED
    BY <1>1, <1>3, <1>4, <1>5, Zenon

\* The sets the ledger counts are finite.
LEMMA FiniteLedger ==
  ASSUME NEW e
  PROVE  /\ IsFiniteSet(InFlightAt(e)) /\ IsFiniteSet(FallbackOf(e))
         /\ Cardinality(InFlightAt(e)) \in Nat /\ Cardinality(FallbackOf(e)) \in Nat
  <1>1. InFlightAt(e) \subseteq Requests /\ FallbackOf(e) \subseteq Requests
    BY Zenon DEF InFlightAt, FallbackOf
  <1>2. IsFiniteSet(InFlightAt(e)) /\ IsFiniteSet(FallbackOf(e))
    BY <1>1, FS_Subset, PathAssumption, Zenon
  <1> QED
    BY <1>2, FS_CardinalityType, Zenon

\* A stream's step keeps the balance of every endpoint.
LEMMA StreamBalance ==
  ASSUME PathInv, LoadInv, NEW s \in Requests, StreamStep(s), NEW e \in Endpoints
  PROVE  /\ Counters(requestTracker') /\ dropped' = dropped
         /\ get(requestTracker', e) + dropped[e]
              = Cardinality(InFlightAt(e)') + Cardinality(FallbackOf(e)')
  <1>1. PICK d \in Context : /\ HookInv(d) /\ ctx' = [ctx EXCEPT ![s] = d]
                             /\ Quiet(s, d) \/ Starts(s, d) \/ Finishes(s, d)
    BY Zenon DEF StreamStep
  <1>2. \A r \in Requests : ctx'[r] = IF r = s THEN d ELSE ctx[r]
    BY <1>1, Zenon DEF PathInv
  <1>3. /\ Counters(requestTracker) /\ dropped[e] \in Int /\ dropped' = dropped
        /\ get(requestTracker, e) + dropped[e] = Cardinality(InFlightAt(e)) + Cardinality(FallbackOf(e))
    BY Zenon DEF LoadInv, LoadLedger, Counters, StreamStep
  <1>4. get(requestTracker, e) \in Int
    BY <1>3, GetInt, Zenon
  <1>5. /\ IsFiniteSet(InFlightAt(e)) /\ IsFiniteSet(FallbackOf(e))
        /\ Cardinality(InFlightAt(e)) \in Nat /\ Cardinality(FallbackOf(e)) \in Nat
    BY FiniteLedger, Zenon
  <1>6. CASE Quiet(s, d)
    <2>1. InFlightAt(e)' = InFlightAt(e) /\ FallbackOf(e)' = FallbackOf(e)
      BY <1>2, <1>6, Zenon DEF InFlightAt, FallbackOf, Quiet, Alike
    <2>2. requestTracker' = requestTracker
      BY <1>6, Zenon DEF Quiet, NoHooks, loadVars
    <2> QED
      BY <1>3, <2>1, <2>2, Zenon
  <1>7. CASE Starts(s, d)
    <2>1. requestTracker' = addAll(requestTracker, Range(d.targets), 1)
      BY <1>7, Zenon DEF Starts, runPreRequestPlugins, LoadPreRequest
    <2>2. /\ Counters(requestTracker')
          /\ get(requestTracker', e) = get(requestTracker, e) + IF e \in Range(d.targets) THEN 1 ELSE 0
      <3> DEFINE T == Range(d.targets)
                 added == addAll(requestTracker, T, 1)
      <3>1. requestTracker' = added
        BY <2>1, Zenon
      <3> HIDE DEF T
      <3>2. Counters(added) /\ get(added, e) = get(requestTracker, e) + IF e \in T THEN 1 ELSE 0
        BY <1>3, GetAddAll
      <3> HIDE DEF added
      <3>3. Counters(requestTracker') /\ get(requestTracker', e) = get(requestTracker, e) + IF e \in T THEN 1 ELSE 0
        BY <3>1, <3>2, Zenon
      <3> QED
        BY <3>3, Zenon DEF T
    <2>3. s \notin InFlightAt(e)
      BY <1>7 DEF Starts, InFlightAt
    <2>4. InFlightAt(e)' = IF e \in Range(d.targets) THEN InFlightAt(e) \union {s} ELSE InFlightAt(e)
      BY <1>2, <1>7, <2>3 DEF Starts, InFlightAt
    <2>5. FallbackOf(e)' = FallbackOf(e)
      BY <1>2, <1>7 DEF Starts, FallbackOf
    <2>6. Cardinality(InFlightAt(e) \union {s}) = Cardinality(InFlightAt(e)) + 1
      BY <1>5, <2>3, FS_AddElement, Zenon
    <2> QED
      BY <1>3, <1>4, <1>5, <2>2, <2>4, <2>5, <2>6, SMTT(30)
  <1>8. CASE Finishes(s, d)
    <2> DEFINE h == Head(d.targets)
    <2>1. d.targets \in Seq(Endpoints) /\ d.targets # << >> /\ Injective(d.targets)
          /\ d.targets = ctx[s].targets
      BY <1>1, <1>8, Zenon DEF Finishes, HookInv, Context
    <2>2. requestTracker' = add(requestTracker, h, -1)
      BY <1>8, <2>1, Zenon DEF Finishes, completionHooks, LoadResponseBody, TargetPod
    <2>3. Range(d.targets) = {h} \union Range(Tail(d.targets)) /\ h \notin Range(Tail(d.targets))
      BY <2>1, HeadAndFallbacks, Zenon
    <2>4. /\ Counters(requestTracker')
          /\ get(requestTracker', e) = get(requestTracker, e) + IF e = h THEN -1 ELSE 0
      BY <1>3, <2>2, GetTakeOff
    <2> HIDE DEF h
    <2>5. s \in InFlightAt(e) <=> e \in Range(d.targets)
      BY <1>8, <2>1 DEF Finishes, InFlightAt
    <2>6. InFlightAt(e)' = InFlightAt(e) \ {s}
      BY <1>2, <1>8 DEF Finishes, InFlightAt
    <2>7. s \notin FallbackOf(e)
      BY <1>8 DEF Finishes, FallbackOf
    <2>8. FallbackOf(e)' = IF e \in Range(Tail(d.targets)) THEN FallbackOf(e) \union {s} ELSE FallbackOf(e)
      BY <1>2, <1>8, <2>7 DEF Finishes, FallbackOf
    <2>9. Cardinality(InFlightAt(e) \ {s}) = IF s \in InFlightAt(e) THEN Cardinality(InFlightAt(e)) - 1
                                                                    ELSE Cardinality(InFlightAt(e))
      BY <1>5, FS_RemoveElement, Zenon
    <2>10. Cardinality(FallbackOf(e) \union {s}) = Cardinality(FallbackOf(e)) + 1
      BY <1>5, <2>7, FS_AddElement, Zenon
    <2> DEFINE before == get(requestTracker, e)
               now == get(requestTracker', e)
               atE == Cardinality(InFlightAt(e))
               atE2 == Cardinality(InFlightAt(e)')
               fallback == Cardinality(FallbackOf(e))
               fallback2 == Cardinality(FallbackOf(e)')
    <2>b. /\ before \in Int /\ atE \in Nat /\ fallback \in Nat /\ dropped[e] \in Int
          /\ before + dropped[e] = atE + fallback
      BY <1>3, <1>4, <1>5, Zenon
    <2>11. CASE e = h
      <3>1. now = before + -1 /\ atE2 = atE - 1 /\ fallback2 = fallback
        BY <2>3, <2>4, <2>5, <2>6, <2>8, <2>9, <2>11, Zenon
      <3> HIDE DEF before, now, atE, atE2, fallback, fallback2
      <3>2. now + dropped[e] = atE2 + fallback2
        BY <2>b, <3>1
      <3> QED
        BY <1>3, <2>4, <3>2, Zenon DEF now, atE2, fallback2
    <2>12. CASE e \in Range(Tail(d.targets))
      <3>1. now = before + 0 /\ atE2 = atE - 1 /\ fallback2 = fallback + 1
        BY <2>3, <2>4, <2>5, <2>6, <2>8, <2>9, <2>10, <2>12, Zenon
      <3> HIDE DEF before, now, atE, atE2, fallback, fallback2
      <3>2. now + dropped[e] = atE2 + fallback2
        BY <2>b, <3>1
      <3> QED
        BY <1>3, <2>4, <3>2, Zenon DEF now, atE2, fallback2
    <2>13. CASE e # h /\ e \notin Range(Tail(d.targets))
      <3>1. now = before + 0 /\ atE2 = atE /\ fallback2 = fallback
        BY <2>3, <2>4, <2>5, <2>6, <2>8, <2>9, <2>13, Zenon
      <3> HIDE DEF before, now, atE, atE2, fallback, fallback2
      <3>2. now + dropped[e] = atE2 + fallback2
        BY <2>b, <3>1
      <3> QED
        BY <1>3, <2>4, <3>2, Zenon DEF now, atE2, fallback2
    <2> QED
      BY <1>3, <2>11, <2>12, <2>13, Zenon
  <1> QED
    BY <1>1, <1>3, <1>6, <1>7, <1>8, Zenon

\* Every step keeps the balance, the deletion of a counter included.
LEMMA LoadPreserved ==
  ASSUME PathInv, LoadInv, [Next]_vars
  PROVE  LoadInv'
  <1>1. ASSUME NEW s \in Requests, StreamStep(s)
        PROVE  LoadInv'
    <2>1. dropped' = dropped
      BY <1>1, Zenon DEF StreamStep
    <2>2. Counters(requestTracker')
      <3>1. CASE UNCHANGED requestTracker
        BY <3>1, Zenon DEF LoadInv, Counters
      <3>2. CASE \E es : requestTracker' = addAll(requestTracker, es, 1)
        BY <3>2, GetAddAll, Zenon DEF LoadInv, Counters
      <3>3. CASE \E h : requestTracker' = add(requestTracker, h, -1)
        BY <3>3, GetTakeOff, Zenon DEF LoadInv, Counters
      <3> QED
        BY Zenon, <1>1, <3>1, <3>2, <3>3 DEF StreamStep, Quiet, Starts, Finishes, NoHooks, loadVars,
           runPreRequestPlugins, LoadPreRequest, completionHooks, LoadResponseBody
    <2>3. \A e \in Endpoints : get(requestTracker', e) + dropped'[e]
                                 = Cardinality(InFlightAt(e)') + Cardinality(FallbackOf(e)')
      BY <1>1, <2>1, StreamBalance, Zenon
    <2> QED
      BY <2>1, <2>2, <2>3, Zenon DEF LoadInv, LoadLedger, Counters
  <1>2. ASSUME NEW e \in Endpoints, PodNotified(e)
        PROVE  LoadInv'
    <2> DEFINE n == get(requestTracker, e)
    <2>1. /\ ctx' = ctx /\ requestTracker' = delete(requestTracker, e)
          /\ dropped' = [dropped EXCEPT ![e] = @ + n]
      BY <1>2, Zenon DEF PodNotified, DeleteEndpoint
    <2>2. Counters(requestTracker) /\ dropped \in [Endpoints -> Int]
      BY Zenon DEF LoadInv, Counters
    <2>3. n \in Int
      BY <2>2, GetInt, Zenon
    <2>4. Counters(requestTracker')
      BY <2>1, <2>2, GetDelete, Zenon
    <2>5. dropped' \in [Endpoints -> Int]
      BY <2>1, <2>2, <2>3
    <2>6. ASSUME NEW x \in Endpoints
          PROVE  get(requestTracker', x) + dropped'[x] = get(requestTracker, x) + dropped[x]
      <3>1. get(requestTracker', x) = IF x = e THEN 0 ELSE get(requestTracker, x)
        BY <2>1, <2>2, GetDelete
      <3>2. dropped'[x] = IF x = e THEN dropped[e] + n ELSE dropped[x]
        BY <2>1, <2>2, Zenon
      <3>3. dropped[e] \in Int
        BY <2>2, Zenon
      <3> QED
        BY <2>3, <3>1, <3>2, <3>3
    <2>7. \A x \in Endpoints : InFlightAt(x)' = InFlightAt(x) /\ FallbackOf(x)' = FallbackOf(x)
      BY <2>1, Zenon DEF InFlightAt, FallbackOf
    <2> QED
      BY <2>4, <2>5, <2>6, <2>7, Zenon DEF LoadInv, LoadLedger, Counters
  <1>3. CASE UNCHANGED <<ctx, dropped, requestTracker>>
    BY <1>3, Zenon DEF LoadInv, LoadLedger, InFlightAt, FallbackOf
  <1>4. ASSUME NEW s \in Requests, Untracking(s)
        PROVE  UNCHANGED <<ctx, dropped, requestTracker>>
    BY <1>4, Zenon DEF Untracking, loadVars
  <1>5. Evict => UNCHANGED <<ctx, dropped, requestTracker>>
    BY Zenon DEF Evict, loadVars
  <1>6. ASSUME NEW e \in Endpoints, PodDeleted(e) \/ PodReconciled(e) \/ PodAdded(e)
        PROVE  UNCHANGED <<ctx, dropped, requestTracker>>
    BY <1>6, Zenon DEF PodDeleted, PodReconciled, PodAdded, loadVars
  <1>7. UNCHANGED vars => UNCHANGED <<ctx, dropped, requestTracker>>
    BY Zenon DEF vars, loadVars
  <1> QED
    BY <1>1, <1>2, <1>3, <1>4, <1>5, <1>6, <1>7, NextCases, Zenon DEF OutsideStep

-----------------------------------------------------------------------------
(* The theorems.                                                           *)

\* The initial states satisfy the inductive invariant.
LEMMA InitIInv ==
  ASSUME Init
  PROVE  IInv
  <1>1. NewContext \in Context
    BY NameSequences DEF NewContext, Context, RequestReceived
  <1>2. HookInv(NewContext)
    <2>1. /\ NewContext.pc = "recv" /\ NewContext.phase = "init"
          /\ NewContext.started = 0 /\ NewContext.finished = 0
          /\ NewContext.targets = << >> /\ NewContext.complete = FALSE
      BY Zenon DEF NewContext
    <2>2. Injective(NewContext.targets)
      BY <2>1 DEF Injective
    <2>3. Running(NewContext)
      BY <2>1, Zenon DEF Running
    <2> QED
      BY <1>1, <2>1, <2>2, <2>3, Zenon DEF HookInv, InDirector
  <1>3. PathInv
    BY <1>1, <1>2, PathAssumption, Zenon DEF Init, PathInv
  <1>4. TrackInv
    BY DEF Init, EvictionInit, TrackInv, TrackedRequests
  <1>5. LoadInv
    <2>1. \A e : InFlightAt(e) = {} /\ FallbackOf(e) = {}
      BY DEF Init, NewContext, InFlightAt, FallbackOf
    <2>2. \A e : get(requestTracker, e) = 0
      BY DEF Init, LoadInit, get
    <2>3. \A e \in DOMAIN requestTracker : requestTracker[e] \in Int
      BY DEF Init, LoadInit
    <2>4. dropped \in [Endpoints -> Int] /\ \A e \in Endpoints : dropped[e] = 0
      BY DEF Init
    <2> QED
      BY <2>1, <2>2, <2>3, <2>4, FS_EmptySet, Zenon DEF LoadInv, LoadLedger
  <1> QED
    BY <1>3, <1>4, <1>5, Zenon DEF IInv

\* The inductive invariant holds in every reachable state.
LEMMA AlwaysIInv == Spec => []IInv
  <1>1. Init => IInv
    BY InitIInv, Zenon
  <1>2. IInv /\ [Next]_vars => IInv'
    BY PathPreserved, TrackPreserved, LoadPreserved, Zenon DEF IInv
  <1> QED
    BY <1>1, <1>2, PTL DEF Spec

\* However a stream ends (last chunk, trailers, error, failed send, disconnect),
\* Process has run the PreRequest hooks at most once and the completion hooks
\* exactly as often: for any number of streams and endpoints and any targets
\* of the picker.
THEOREM HooksRunOnce == Spec => []HooksOnce
  <1>1. IInv => HooksOnce
    <2> SUFFICES ASSUME IInv, NEW s \in Requests
                 PROVE  /\ ctx[s].finished <= ctx[s].started /\ ctx[s].started <= 1
                        /\ ctx[s].pc = "done" => ctx[s].finished = ctx[s].started
      BY Zenon DEF HooksOnce
    <2>1. HookInv(ctx[s]) /\ ctx[s].started \in {0, 1} /\ ctx[s].finished \in {0, 1}
      BY Zenon DEF IInv, PathInv, HookInv, Context
    <2> QED
      BY <2>1 DEF HookInv, Running
  <1> QED
    BY <1>1, AlwaysIInv, PTL

\* The eviction plugin tracks only requests in flight whose goroutine is still
\* there to forget them, but for those a failed abort in EvictN tracked again.
THEOREM TrackingIsBounded == Spec => []TrackedRequests
  <1>1. IInv => TrackedRequests
    BY Zenon DEF IInv, TrackInv
  <1> QED
    BY <1>1, AlwaysIInv, PTL

\* The request counters of InFlightLoadProducer are the requests in flight and
\* the fallbacks never given back, less what deletions of pods took away.
THEOREM LedgerBalances == Spec => []LoadLedger
  <1>1. IInv => LoadLedger
    BY Zenon DEF IInv, LoadInv
  <1> QED
    BY <1>1, AlwaysIInv, PTL

\* For any number of streams, chunks and endpoints, and whichever send fails:
\* what Envoy gets from a stream is in the order updateStateAndSendIfNeeded
\* promises, and no byte of the request is in the body of the response.
THEOREM ResponsesInOrder == Spec => []ResponsesWellFormed
  <1>1. Init => ResponseInv
    <2>1. SentInv(NewContext)
      BY OrderedFirst, Zenon DEF SentInv, SentSoFar, NewContext, InDirector, RequestReceived
    <2> QED
      BY <2>1, Zenon DEF Init, ResponseInv
  <1>2. IInv /\ ResponseInv /\ [Next]_vars => ResponseInv'
    BY ResponsePreserved, Zenon DEF IInv
  <1>3. IInv /\ ResponseInv => ResponsesWellFormed
    <2> SUFFICES ASSUME IInv, ResponseInv, NEW s \in Requests, NEW q, q = ctx[s].sent
                 PROVE  /\ \A i \in 1..(Len(q) - 1) :
                             Rank[q[i]] < Rank[q[i + 1]] \/ (q[i] = "respBody" /\ q[i + 1] = "respBody")
                        /\ "respBody" \in Range(q) \/ "respBodyEos" \in Range(q) => "respHeader" \in Range(q)
                        /\ ctx[s].phase = "response" => "request" \notin ctx[s].body
      BY Zenon DEF ResponsesWellFormed
    <2>1. SentInv(ctx[s]) /\ q \in Seq(Messages)
      BY ContextTypes, Zenon DEF ResponseInv, IInv, PathInv
    <2>2. Ordered(q)
      BY <2>1, Zenon DEF SentInv
    <2>3. Range(q) = {q[i] : i \in 1..Len(q)}
      BY <2>1 DEF Range
    <2>4. "respBody" \in Range(q) \/ "respBodyEos" \in Range(q) => "respHeader" \in Range(q)
      <3> SUFFICES ASSUME NEW i \in 1..Len(q), q[i] \in {"respBody", "respBodyEos"}
                   PROVE  "respHeader" \in Range(q)
        BY <2>3, Zenon
      <3>1. PICK j \in 1..(i - 1) : q[j] = "respHeader"
        BY <2>2, Zenon DEF Ordered
      <3> QED
        BY <2>1, <2>3, <3>1
    <2>5. \A i \in 1..(Len(q) - 1) :
            Rank[q[i]] < Rank[q[i + 1]] \/ (q[i] = "respBody" /\ q[i + 1] = "respBody")
      BY <2>2, Zenon DEF Ordered
    <2>6. ctx[s].phase = "response" => "request" \notin ctx[s].body
      BY <2>1, Zenon DEF SentInv
    <2> QED
      BY <2>4, <2>5, <2>6, Zenon
  <1> QED
    BY <1>1, <1>2, <1>3, AlwaysIInv, PTL DEF Spec
=============================================================================
