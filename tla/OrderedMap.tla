----------------------------- MODULE OrderedMap -----------------------------
(***************************************************************************)
(* What AVLTree promises: a map from keys to data that knows its size and  *)
(* the datum of its least key.  request is the interface: the last call    *)
(* that changed the map.                                                   *)
(***************************************************************************)
EXTENDS Naturals, FiniteSets

CONSTANTS Keys,
          NoData  \* the datum DataType() of a key that is not there

VARIABLES lookup,   \* lookup[k]: what Find(k) returns
          count,    \* what Count() returns
          min,      \* what Min() returns
          request   \* [op, key, data]

mapVars == <<lookup, count, min, request>>

Present(l) == {k \in Keys : l[k] # NoData}

MinData(l) ==
  IF Present(l) = {} THEN NoData
  ELSE l[CHOOSE k \in Present(l) : \A j \in Present(l) : k <= j]

After(l, r) ==
  CASE r.op = "insert" -> [l EXCEPT ![r.key] = r.data]
    [] r.op = "remove" -> [l EXCEPT ![r.key] = NoData]

Answers == count = Cardinality(Present(lookup)) /\ min = MinData(lookup)

Init == request = [op |-> "none"] /\ Answers

Serve == lookup' = After(lookup, request') /\ Answers'

Spec == Init /\ [][Serve]_mapVars
=============================================================================
