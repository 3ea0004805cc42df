---------------------------- MODULE MCScheduler ----------------------------
(***************************************************************************)
(* Small instances of the scheduler.  A cron expression is its period.     *)
(* Bounds: MaxTime instants, MaxFaults faults.                             *)
(***************************************************************************)
EXTENDS Scheduler, TLC

MCNextRun(c, t) == (t \div c + 1) * c

Symmetric == Permutations(Replica) \cup Permutations(Schedule)

\* Schedules nobody edits once they exist.
MCSteadyNext ==
  \/ Advance
  \/ \E s \in Schedule : CreateSchedule(s)
  \/ \E r \in Replica : TickStep(r) \/ FaultStep(r)

\* Every replica keeps ticking, whatever its last tick met (the loop of
\* Scheduler.start), time passes, and a Kafka that is tried again and again
\* accepts a record now and then.
MCFairSpec ==
  /\ Init /\ [][MCSteadyNext]_vars
  /\ WF_vars(Advance)
  /\ \A r \in Replica :
       /\ WF_vars(TickStep(r))
       /\ SF_vars(Publish(r) /\ tick'[r].pc = "update")

\* Every instant a schedule is due at is published in the end, however many
\* ticks fail or find Kafka unavailable.
EveryDueInstantFires ==
  \A s \in Schedule, n \in 1..MaxTime : IsDue(s, n) ~> FiredAt(s, n)
=============================================================================
