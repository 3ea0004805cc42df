----------------------------- MODULE MCCatalog -----------------------------
(***************************************************************************)
(* Small instances of the catalogue.  Bounds: MaxTables, MaxFields,        *)
(* MaxGlueFailures, MaxAborts, and the requests of MCRequests.  MCModerate *)
(* is a state constraint.                                                  *)
(***************************************************************************)
EXTENDS Catalog, TLC

CONSTANTS c1, c2

CONSTANTS a, a__b, b__c, c

\* f"{db_name}__{table_name}": a table of a and one of a__b can share an entry.
MCGlueName(d, n) == IF <<d, n>> = <<a__b, c>> THEN <<a, b__c>> ELSE <<d, n>>

\* Adding, dropping, renaming, and all of it at once.
MCRequests ==
  {[NoRequest EXCEPT !.add = c2], [NoRequest EXCEPT !.drop = c1],
   [NoRequest EXCEPT !.from = c1, !.to = c2],
   [add |-> c2, drop |-> c1, from |-> c2, to |-> c1]}

\* Updates, of tables of one name by two sessions; or all the sessions and names,
\* tables of one column, and Glue.
Updates ==
  \/ \E h \in Session : session[h].pc \in {"version", "flush", "updated"}
  \/ \E t \in DOMAIN tables : Live(t) /\ tables[t].history # <<[version |-> 1, fields |-> <<c1>>]>>

MCModerate ==
  Updates =>
    /\ \A t \in DOMAIN tables : tables[t].db = a /\ tables[t].name = c
    /\ databases \subseteq {a}
    /\ \E h \in Session : session[h] = Idle
    /\ glueFailures = 0

Symmetric == Permutations(Session)
=============================================================================
