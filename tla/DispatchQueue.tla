--------------------------- MODULE DispatchQueue ---------------------------
(***************************************************************************)
(* What the orchestrator's job consumers promise together, whatever the    *)
(* replicas, offsets and rebalances: every submission is launched, given   *)
(* up to the dead letter topic, or waits; one may be lost, but for good,   *)
(* only with a replica that died, and never once it was settled.           *)
(***************************************************************************)
EXTENDS Naturals, Sequences

CONSTANTS Job, KafkaMayFail

VARIABLES
  queue,      \* the submissions, in the order they were sent
  launched,   \* the submissions a task was started for
  buried,     \* the submissions in the dead letter topic
  lost,       \* the submissions nobody will see again
  deaths      \* replicas that died while processing one

queueVars == <<queue, launched, buried, lost, deaths>>

Settled == launched \cup buried

\* What may still be launched, buried or lost.
Open == DOMAIN queue \ lost

Init ==
  /\ queue = << >>
  /\ launched = {} /\ buried = {} /\ lost = {}
  /\ deaths = 0

Submit(j) ==
  /\ queue' = Append(queue, j)
  /\ UNCHANGED <<launched, buried, lost, deaths>>

\* At least once: a submission may be launched that was launched, or buried.
Launch(o) ==
  /\ o \in Open
  /\ launched' = launched \cup {o}
  /\ UNCHANGED <<queue, buried, lost, deaths>>

Bury(o) ==
  /\ o \in Open
  /\ buried' = buried \cup {o}
  /\ UNCHANGED <<queue, launched, lost, deaths>>

\* A replica dies, and takes with it at most the submission it had in hand.
Die ==
  /\ deaths' = deaths + 1
  /\ lost' = lost \/ \E o \in Open \ Settled : lost' = lost \cup {o}
  /\ UNCHANGED <<queue, launched, buried>>

\* Kafka did not take the dead letters.
Drop(S) ==
  /\ KafkaMayFail
  /\ S \subseteq Open \ Settled
  /\ lost' = lost \cup S
  /\ UNCHANGED <<queue, launched, buried, deaths>>

Next ==
  \/ \E j \in Job : Submit(j)
  \/ \E o \in DOMAIN queue : Launch(o) \/ Bury(o)
  \/ Die
  \/ \E S \in SUBSET DOMAIN queue : Drop(S)

Spec == Init /\ [][Next]_queueVars

=============================================================================
