---------------------------- MODULE InFlightLoad ----------------------------
(***************************************************************************)
(* The in-flight load producer and the concurrency detector that reads it. *)
(* A tracker maps endpoint ids to counters; an id without a counter reads  *)
(* as 0, and a counter is made on the first add.                           *)
(***************************************************************************)
EXTENDS Integers, FiniteSets, FiniteSetsExt, Functions, Sequences

CONSTANTS Endpoints, SizeOf, MaxConcurrency, Headroom

VARIABLES
  requestTracker, tokenTracker,    \* endpoint id |-> counter
  attributes                       \* the in-flight load stored with an endpoint of the datastore

loadVars == <<requestTracker, tokenTracker, attributes>>

get(tracker, e) == IF e \in DOMAIN tracker THEN tracker[e] ELSE 0

add(tracker, e, delta) ==
  [x \in DOMAIN tracker \union {e} |-> get(tracker, x) + IF x = e THEN delta ELSE 0]

addAll(tracker, es, delta) ==
  [x \in DOMAIN tracker \union es |-> get(tracker, x) + IF x \in es THEN delta ELSE 0]

delete(tracker, e) == [x \in DOMAIN tracker \ {e} |-> tracker[x]]

\* SimpleTokenEstimator: four bytes a token, and 1.5 output tokens for each,
\* rounded half away from zero.
Estimate(r) ==
  LET input == IF SizeOf[r] \div 4 > 1 THEN SizeOf[r] \div 4 ELSE 1
  IN  input + (3 * input + 1) \div 2

\* PreRequest counts the request at every endpoint of the primary profile...
LoadPreRequest(r, targets) ==
  /\ requestTracker' = addAll(requestTracker, Range(targets), 1)
  /\ tokenTracker' = addAll(tokenTracker, Range(targets), Estimate(r))
  /\ UNCHANGED attributes

\* Mutant: the completion only gives the tokens back.
TokensOnly(r, target) ==
  /\ tokenTracker' = add(tokenTracker, target, -Estimate(r))
  /\ UNCHANGED <<requestTracker, attributes>>

\* ... ResponseBody takes it off the one endpoint it is given.
LoadResponseBody(r, target) ==
  /\ requestTracker' = add(requestTracker, target, -1)
  /\ tokenTracker' = add(tokenTracker, target, -Estimate(r))
  /\ UNCHANGED attributes

\* ExtractNotification of a pod's deletion.
DeleteEndpoint(e) ==
  /\ requestTracker' = delete(requestTracker, e)
  /\ tokenTracker' = delete(tokenTracker, e)
  /\ UNCHANGED attributes

\* PrepareRequestData puts the loads on the scheduler's copies of the endpoints
\* (those it got to); the others have the attribute they were copied with.
LoadPrepareData(copies, ready) ==
  [e \in copies |-> IF e \in ready THEN get(requestTracker, e) ELSE attributes[e]]

\* The detector in requests mode, on the endpoints of the datastore.
Saturated(es) ==
  \/ es = {}
  \/ FoldSet(LAMBDA e, n : attributes[e] + n, 0, es) >= MaxConcurrency * Cardinality(es)

\* The detector as a scheduling filter, on the scheduler's copies; Headroom
\* is in percent.
Filter(load) == {e \in DOMAIN load : load[e] < (MaxConcurrency * (100 + Headroom)) \div 100}

LoadInit ==
  /\ requestTracker = << >> /\ tokenTracker = << >>
  /\ attributes = [e \in Endpoints |-> 0]
=============================================================================
