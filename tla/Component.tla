----------------------------- MODULE Component -----------------------------
(***************************************************************************)
(* The components of the endpoint picker that share no state with one      *)
(* another are specified in modules of their own that extend this one.     *)
(* A behaviour is a behaviour of one of them: `part` names the component   *)
(* and `st` is its state, a record whose fields are the component's        *)
(* variables.  Module Components puts them together.                       *)
(***************************************************************************)
EXTENDS Integers, FiniteSets, Sequences

CONSTANT Nil   \* the absent value: Go's nil, Python's None, a key a map does not hold

VARIABLES part, st

\* The partial functions (Go maps) from subsets of K to V.
MapsOf(K, V) == UNION {[k -> V] : k \in SUBSET K}

\* Go's delete(m, k) for every k in ks, and m[k] = v.
Without(m, ks) == [k \in DOMAIN m \ ks |-> m[k]]
With(m, k, v) == [j \in DOMAIN m \cup {k} |-> IF j = k THEN v ELSE m[j]]
Lookup(m, k, default) == IF k \in DOMAIN m THEN m[k] ELSE default

Min2(a, b) == IF a < b THEN a ELSE b
Max2(a, b) == IF a > b THEN a ELSE b
=============================================================================
