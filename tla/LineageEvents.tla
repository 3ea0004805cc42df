--------------------------- MODULE LineageEvents ---------------------------
(***************************************************************************)
(* OpenLineage events as lineage-service receives them                     *)
(* (lineage-service/app/models/__init__.py).  An event stands for its own  *)
(* eventTime and for the facets it carries.                                *)
(***************************************************************************)
EXTENDS Integers, Sequences

CONSTANTS
  Event,     \* the events that are emitted
  Run,       \* runId values
  Dataset,   \* (namespace, name) pairs
  RunOf,     \* event.run.runId
  TypeOf,    \* event.eventType.upper()
  Named,     \* the events whose facets carry a DHP job id
  Refs,      \* event.inputs then event.outputs
  NoEvent    \* SQL NULL

EventType == {"START", "RUNNING", "COMPLETE", "FAIL", "ABORT", "OTHER"}

TerminalStates == {"COMPLETE", "FAIL", "ABORT"}

DatasetRef == [role: {"input", "output"}, dataset: Dataset]

ASSUME LineageAssumption ==
  /\ NoEvent \notin Event
  /\ RunOf \in [Event -> Run]
  /\ TypeOf \in [Event -> EventType]
  /\ Named \subseteq Event
  /\ Refs \in [Event -> Seq(DatasetRef)]

\* A row of lineage_run_inputs or lineage_run_outputs.
Edge == [run: Run, role: {"input", "output"}, dataset: Dataset]

EdgeOf(e, i) ==
  [run |-> RunOf[e], role |-> Refs[e][i].role, dataset |-> Refs[e][i].dataset]

EdgesOf(e) == {EdgeOf(e, i) : i \in DOMAIN Refs[e]}

Names(e, d) == \E i \in DOMAIN Refs[e] : Refs[e][i].dataset = d

=============================================================================
