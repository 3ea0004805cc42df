----------------------------- MODULE MCLineage -----------------------------
(***************************************************************************)
(* Small instance of lineage-service: a run that reads d1 and writes d2,   *)
(* and a run that reads both the other way round and writes d1 and d3, so  *)
(* that the graph has a cycle and the two lock rows in opposite orders.    *)
(* Bounds: MaxDeliveries posts of an event, MaxFaults failures.            *)
(***************************************************************************)
EXTENDS Lineage, TLC

CONSTANTS s1, c1, c2, r1, r2, d1, d2, d3

MCRunOf == (s1 :> r1) @@ (c1 :> r1) @@ (c2 :> r2)

MCTypeOf == (s1 :> "START") @@ (c1 :> "COMPLETE") @@ (c2 :> "FAIL")

MCIn(d) == [role |-> "input", dataset |-> d]
MCOut(d) == [role |-> "output", dataset |-> d]

MCRefs ==
  (s1 :> << MCIn(d1) >>) @@
  (c1 :> << MCIn(d1), MCOut(d2) >>) @@
  (c2 :> << MCIn(d2), MCOut(d1), MCOut(d3) >>)

Symmetric == Permutations(Request)
=============================================================================
