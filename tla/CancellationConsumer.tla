------------------------ MODULE CancellationConsumer ------------------------
(***************************************************************************)
(* orchestrator: CancellationConsumer of app/consumer.py and               *)
(* ECSJobManager.delete_spark_job.                                         *)
(*                                                                         *)
(* The replicas form a second consumer group, over the cancellations.      *)
(* delete_spark_job runs in a thread: the tasks it lists may end, others   *)
(* may start, the offset may be committed and the replica may die before   *)
(* it has stopped them all.                                                *)
(***************************************************************************)
EXTENDS SparkTasks, Integers, FiniteSets

CONSTANTS
  Replica, NoReplica,
  MayCrash,         \* may a replica die?
  StopMayFail,      \* may ListTasks or StopTask raise?
  MaxTakeovers      \* bound on rebalances of each of the two groups

ASSUME ReplicaAssumption ==
  /\ NoReplica \notin Replica
  /\ IsFiniteSet(Replica)
  /\ MayCrash \in BOOLEAN
  /\ StopMayFail \in BOOLEAN
  /\ MaxTakeovers \in Nat

VARIABLES
  cancelOwner,      \* replica that owns the cancellations partition
  cancelPosition,   \* offset of the last cancellation given to the owner
  cancelCommitted,  \* committed offset of the cancellation group
  stopper,          \* delete_spark_job of each replica
  cancelTakeovers,  \* partition assignments after the first
  spared            \* history: <<c, t>>, a fault kept request c from task t

cancelVars == <<cancelOwner, cancelPosition, cancelCommitted, stopper,
                cancelTakeovers, spared>>

-----------------------------------------------------------------------------
Waiting == [pc |-> "free", event |-> 0, arns |-> {}]

Stopper == [pc: {"free", "list", "stop"}, event: Nat, arns: SUBSET Nat]

NoOffset == -1

CancelsTypeOK ==
  /\ cancelOwner \in Replica \cup {NoReplica}
  /\ cancelPosition \in 0..Len(cancellations)
  /\ cancelCommitted \in {NoOffset} \cup 0..Len(cancellations)
  /\ stopper \in [Replica -> Stopper]
  /\ cancelTakeovers \in 0..MaxTakeovers
  /\ spared \subseteq Nat \X Nat

CancelsInit ==
  /\ cancelOwner \in Replica
  /\ cancelPosition = 0 /\ cancelCommitted = NoOffset
  /\ stopper = [r \in Replica |-> Waiting]
  /\ cancelTakeovers = 0
  /\ spared = {}

Stopping(r) == stopper[r] # Waiting

\* What the request that replica r has in hand still has to stop.
ToStop(r) ==
  IF stopper[r].pc = "list" THEN RunningTasksFor(cancellations[stopper[r].event])
  ELSE stopper[r].arns

Spare(c, T) == spared' = spared \cup ({c} \X T)
Finish(r) == stopper' = [stopper EXCEPT ![r] = Waiting]

\* One task is dealt with; the request is processed when none is left.
DoneWith(r, t) ==
  IF stopper[r].arns = {t} THEN Finish(r)
  ELSE stopper' = [stopper EXCEPT ![r].arns = @ \ {t}]

-----------------------------------------------------------------------------
(* CancellationConsumer.start: async for message in self.consumer *)
HandOut(r) ==
  /\ cancelOwner = r
  /\ ~Stopping(r)
  /\ cancelPosition < Len(cancellations)
  /\ cancelPosition' = cancelPosition + 1
  /\ stopper' = [stopper EXCEPT ![r] =
       [pc |-> "list", event |-> cancelPosition + 1, arns |-> {}]]
  /\ UNCHANGED <<submissions, cancellations, task, cancelOwner, cancelCommitted,
                 cancelTakeovers, spared>>

\* Mutant: who lost the partition meanwhile does not go on with the request.
ListTasksAsOwner(r) ==
  /\ cancelOwner = r
  /\ stopper[r].pc = "list"
  /\ IF ToStop(r) = {} THEN Finish(r)
     ELSE stopper' = [stopper EXCEPT ![r].pc = "stop", ![r].arns = ToStop(r)]
  /\ UNCHANGED <<submissions, cancellations, task, cancelOwner, cancelPosition,
                 cancelCommitted, cancelTakeovers, spared>>

\* _list_running_tasks_for_job; with no task running the request is processed.
ListTasks(r) ==
  /\ stopper[r].pc = "list"
  /\ IF ToStop(r) = {} THEN Finish(r)
     ELSE stopper' = [stopper EXCEPT ![r].pc = "stop", ![r].arns = ToStop(r)]
  /\ UNCHANGED <<submissions, cancellations, task, cancelOwner, cancelPosition,
                 cancelCommitted, cancelTakeovers, spared>>

\* A ClientError of one StopTask is logged, and the loop goes on.
StopNext(r) ==
  /\ stopper[r].pc = "stop"
  /\ \E t \in stopper[r].arns :
       /\ DoneWith(r, t)
       /\ \/ StopTask(t) /\ UNCHANGED spared
          \/ StopMayFail /\ Spare(stopper[r].event, {t}) /\ UNCHANGED task
  /\ UNCHANGED <<submissions, cancellations, cancelOwner, cancelPosition,
                 cancelCommitted, cancelTakeovers>>

\* Any error of ListTasks, and any other of StopTask, ends delete_spark_job;
\* the consumer logs it and takes the next message.
Raise(r) ==
  /\ StopMayFail
  /\ Stopping(r)
  /\ Spare(stopper[r].event, ToStop(r))
  /\ Finish(r)
  /\ UNCHANGED <<submissions, cancellations, task, cancelOwner, cancelPosition,
                 cancelCommitted, cancelTakeovers>>

StopperStep(r) == HandOut(r) \/ ListTasks(r) \/ StopNext(r)

-----------------------------------------------------------------------------
(* The consumer group *)

\* enable_auto_commit: every few seconds, also while a request is processed.
CancelAutoCommit ==
  /\ cancelOwner # NoReplica
  /\ cancelCommitted # cancelPosition
  /\ cancelCommitted' = cancelPosition
  /\ UNCHANGED <<submissions, cancellations, task, cancelOwner, cancelPosition,
                 stopper, cancelTakeovers, spared>>

\* Mutant: the new owner goes on from the position of the old one.
ResumeAtPosition ==
  IF cancelCommitted = NoOffset THEN Len(cancellations) ELSE cancelPosition

\* auto_offset_reset="latest": a group that never committed skips to the end.
ResumeAt == IF cancelCommitted = NoOffset THEN Len(cancellations) ELSE cancelCommitted

CancelTakeover(r) ==
  /\ cancelOwner # r
  /\ cancelTakeovers < MaxTakeovers
  /\ cancelOwner' = r
  /\ cancelPosition' = ResumeAt
  /\ cancelTakeovers' = cancelTakeovers + 1
  /\ spared' = spared \cup
       UNION {{c} \X RunningTasksFor(cancellations[c]) :
                c \in cancelPosition + 1 .. ResumeAt}
  /\ UNCHANGED <<submissions, cancellations, task, cancelCommitted, stopper>>

\* The replica dies.  What it had in hand is gone, unless the group will
\* deliver it once more.
StopperDies(r) ==
  /\ cancelTakeovers < MaxTakeovers
  /\ cancelOwner' = IF cancelOwner = r THEN NoReplica ELSE cancelOwner
  /\ Finish(r)
  /\ IF Stopping(r) /\ (cancelCommitted = NoOffset \/ stopper[r].event <= cancelCommitted)
     THEN Spare(stopper[r].event, ToStop(r)) ELSE UNCHANGED spared
  /\ UNCHANGED <<cancelPosition, cancelCommitted, cancelTakeovers>>

-----------------------------------------------------------------------------
(* Properties *)

\* The requests the group will not deliver again.
Past == IF cancelCommitted = NoOffset THEN 1..cancelPosition ELSE 1..cancelCommitted

InHand(c) == \E r \in Replica : stopper[r].event = c

\* The tasks a request is about: those of its job that were launched before it
\* was sent.
Targets(c) == {t \in Tasks(cancellations[c]) : task[t].born < c}

Accounted(c, t) == ~Alive(t) \/ task[t].stopping \/ <<c, t>> \in spared

Settled(c) == \A t \in Targets(c) : Accounted(c, t)

\* The offset of a request may be committed before its tasks are listed, and
\* the partition may move on between two StopTask calls.  Yet no request is
\* dropped unnoticed: when it will not be delivered again and nobody works on
\* it any more, each of its tasks has ended, was told to stop, or was spared by
\* a fault: a refused call, a death that auto-commit outran, or a group that
\* restarted before its first commit.
StopsAccounted ==
  \A c \in Past : InHand(c) \/ Settled(c)

\* What makes this so: what was handed out and not committed is still the
\* owner's, or accounted for; and whoever has listed the tasks knows every target.
HandedOut ==
  cancelOwner # NoReplica =>
    \A c \in 1..cancelPosition :
      c \in Past \/ stopper[cancelOwner].event = c \/ Settled(c)

ListsComplete ==
  \A r \in Replica :
    stopper[r].pc = "stop" =>
      \A t \in Targets(stopper[r].event) :
        t \in stopper[r].arns \/ Accounted(stopper[r].event, t)

StoppersSound ==
  \A r \in Replica :
    /\ Stopping(r) => /\ stopper[r].pc # "free"
                      /\ stopper[r].event \in 1..Len(cancellations)
    /\ stopper[r].arns \subseteq DOMAIN task

\* delete_spark_job: "Stop all running ECS tasks tagged with job-id=<job_id>";
\* so a task is stopped only because its own job was cancelled.
OnlyCancelledJobsStopped ==
  \A t \in DOMAIN task : task[t].stopping =>
    \E c \in 1..Len(cancellations) : cancellations[c] = task[t].job

\* CancellationConsumer: every task that a stop request is about ends, even if
\* its spark-submit would never end, unless a fault spared it.
RequestObeyed(c, t) ==
  (c \in 1..Len(cancellations) /\ t \in Targets(c))
    ~> (t \in DOMAIN task /\ (~Alive(t) \/ <<c, t>> \in spared))

=============================================================================
