---------------------------- MODULE LineageStore ----------------------------
(***************************************************************************)
(* What lineage-service promises of its tables: an event is recorded in    *)
(* one step or not at all, and nothing recorded is lost by another event.  *)
(* The rules are those of the module comment of lineage_service.py; Lineage *)
(* shows that its interleaved transactions implement them.                 *)
(***************************************************************************)
EXTENDS LineageEvents

VARIABLES
  runs,      \* runs that have a row
  started,   \* runs with a start time
  ended,     \* runs with an end time
  named,     \* runs with a DHP job id
  edges,     \* run inputs and outputs
  facets     \* the events whose facets each dataset carries

vars == <<runs, started, ended, named, edges, facets>>

Init ==
  /\ runs = {} /\ started = {} /\ ended = {} /\ named = {} /\ edges = {}
  /\ facets = [d \in Dataset |-> {}]

\* The run joins S when the event says so.
Joins(e, S, says) == IF says THEN S \cup {RunOf[e]} ELSE S

Accept(e) ==
  /\ runs' = runs \cup {RunOf[e]}
  /\ started' = Joins(e, started, TypeOf[e] = "START")
  /\ ended' = Joins(e, ended, TypeOf[e] \in TerminalStates)
  /\ named' = Joins(e, named, e \in Named)
  /\ edges' = edges \cup EdgesOf(e)
  /\ facets' = [d \in Dataset |->
                  IF Names(e, d) THEN facets[d] \cup {e} ELSE facets[d]]

Next == \E e \in Event : Accept(e)

Spec == Init /\ [][Next]_vars

=============================================================================
