--------------------------- MODULE MCJobLifecycle ---------------------------
(***************************************************************************)
(* Small instances of the job control plane.  Bounds: MaxTasks container   *)
(* identities for the fairness conditions, MaxCancellations, MaxTakeovers, *)
(* MaxFaults; all else is bounded by the retry budget itself.  MCModerate  *)
(* is a state constraint of the run that checks safety under faults,       *)
(* MCQuietStep an action constraint of the one that checks all the rest.   *)
(***************************************************************************)
EXTENDS JobLifecycle, TLC, Functions

CONSTANTS
  Persistent,      \* the jobs with two retries; the others have one
  MaxTasks, MaxFaults

MCRetries == [j \in Job |-> IF j \in Persistent THEN 2 ELSE 1]
MCOwnTag == [j \in Job |-> j]
MCCallers == {User, Nobody} \cup Replica \cup Nat

Sessions == Permutations(Handler)

\* The services keep serving, the consumers keep polling, the containers run
\* to their end.  Users owe nothing, and neither do the fault actions.
MCFairness ==
  /\ \A h \in Handler : WF_vars(HandlerStep(h) /\ UNCHANGED <<nonApiVars, historyVars>>)
  /\ \A r \in Replica : WF_vars(WorkerCalls(r)) /\ WF_vars(WorkerWorks(r))
  /\ \A r \in Replica :
       WF_vars(StopperStep(r) /\ UNCHANGED <<consumerVars, faultVars, apiVars, historyVars>>)
  /\ \A t \in 1..MaxTasks :
       WF_vars(t \in DOMAIN task
               /\ (ContainerReports(t) \/ SparkRuns(t) \/ ContainerEnds(t)))

OneJob == \A i, j \in Job : ~Fresh(i) /\ ~Fresh(j) => i = j

\* Faults in moderation.  A FAILED report that curl repeats uses up the budget
\* of two, which otherwise allows a takeover and a timeout together; crashes,
\* failing sends and vanishing containers are free.  One job is used in a
\* behaviour, a user's or a scheduled one.
MCModerate ==
  /\ takeovers + cancelTakeovers + timeouts + 2 * SumFunction(repeats) <= MaxFaults
  /\ \A t \in DOMAIN task :
       task[t].resent > 0 => owner # NoReplica /\ takeovers + timeouts = 0
  /\ OneJob

Cancelling == cancellations # << >> \/ \E h \in Handler : Busy(h) /\ handler[h].op = "cancel"

Repeating == \E t \in DOMAIN task : task[t].resent > 0

\* A behaviour has a cancellation, or calls that time out, either of them with
\* launches that are refused; or, with two retries, a FAILED report that curl
\* repeats, for it takes two to count one failure twice.
OneTrouble ==
  /\ OneJob
  /\ \A j \in Job \ Persistent : ~Fresh(j) => ~Repeating /\ (Cancelling => timeouts = 0)
  /\ \A j \in Persistent : ~Fresh(j) =>
       /\ ~Cancelling /\ timeouts = 0
       /\ \A r \in Replica : worker[r].attempt <= 1
       /\ SumFunction(repeats) <= 1
       /\ \A t \in DOMAIN task : task[t].resent > 0 => task[t].outcome = "FAILED"

\* No replica dies and no partition moves in this run, so nothing reads what
\* auto-commit writes.
MCQuietStep == OneTrouble' /\ UNCHANGED <<committed, cancelCommitted>>

MCFairSpec == Spec /\ MCFairness
=============================================================================
