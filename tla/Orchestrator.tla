---------------------------- MODULE Orchestrator ----------------------------
(***************************************************************************)
(* orchestrator: JobConsumer of app/consumer.py, the launching half of     *)
(* ECSJobManager and DLQProducer; CancellationConsumer runs beside them.   *)
(*                                                                         *)
(* The replicas form a Kafka consumer group over one partition: the owner  *)
(* polls, enable_auto_commit commits its position in the background, and a *)
(* new owner resumes from the committed offset.  A replica that lost the   *)
(* partition still finishes the message it is processing.                  *)
(***************************************************************************)
EXTENDS CancellationConsumer

CONSTANTS
  EcsMayRefuse,     \* may RunTask fail?
  AnswerMayBeLost   \* may RunTask start a task and still raise?

ASSUME OrchestratorAssumption ==
  /\ EcsMayRefuse \in BOOLEAN
  /\ AnswerMayBeLost \in BOOLEAN

VARIABLES
  owner,            \* replica that owns the submissions partition
  position,         \* offset of the last submission given to the owner
  committed,        \* the group's committed offset
  worker,           \* _process_message of each replica
  deadLetters,      \* topic "spark-job-submissions-dlq": offsets given up
  takeovers,        \* partition assignments after the first
  crashes           \* history: replicas that died while processing

consumerVars == <<owner, position, committed, worker, deadLetters>>
faultVars == <<takeovers, crashes>>
orchestratorVars ==
  <<submissions, cancellations, task, consumerVars, cancelVars, faultVars>>

-----------------------------------------------------------------------------
Free == [pc |-> "free", event |-> 0, attempt |-> 0]

Worker == [pc: {"free", "provision", "launch", "reportArn", "reportFailed",
                "bury"},
           event: Nat, attempt: Nat]

OrchestratorTypeOK ==
  /\ TopicsTypeOK
  /\ TasksTypeOK
  /\ owner \in Replica \cup {NoReplica}
  /\ position \in 0..Len(submissions)
  /\ committed \in 0..Len(submissions)
  /\ worker \in [Replica -> Worker]
  /\ deadLetters \in Seq(1..Len(submissions))
  /\ CancelsTypeOK
  /\ takeovers \in 0..MaxTakeovers
  /\ crashes \in Nat

ConsumersInit ==
  /\ TasksInit
  /\ owner \in Replica
  /\ position = 0 /\ committed = 0
  /\ worker = [r \in Replica |-> Free]
  /\ deadLetters = << >>
  /\ CancelsInit
  /\ takeovers = 0 /\ crashes = 0

OrchestratorInit == TopicsInit /\ ConsumersInit

JobOf(r) == submissions[worker[r].event]
Budget(r) == MaxRetries[JobOf(r)]

Goto(r, pc) == worker' = [worker EXCEPT ![r].pc = pc]
Done(r) == worker' = [worker EXCEPT ![r] = Free]

-----------------------------------------------------------------------------
(* JobConsumer.start: async for message in self.consumer.  The position     *)
(* moves when the message is handed out, before it is processed.            *)

\* Mutant: a message whose loop of attempts is empty is dropped.
PollDropsZero(r) ==
  /\ owner = r
  /\ worker[r] = Free
  /\ position < Len(submissions)
  /\ position' = position + 1
  /\ worker' = IF MaxRetries[submissions[position + 1]] = 0 THEN worker
               ELSE [worker EXCEPT ![r] = [pc |-> "provision",
                       event |-> position + 1, attempt |-> 1]]
  /\ UNCHANGED <<submissions, cancellations, task, owner, committed,
                 deadLetters, cancelVars, faultVars>>

\* Mutant: the last record of the partition is handed out only once another
\* one follows it.
PollOneBehind(r) ==
  /\ owner = r
  /\ worker[r] = Free
  /\ position + 1 < Len(submissions)
  /\ position' = position + 1
  /\ worker' = [worker EXCEPT ![r] =
       [pc |-> IF MaxRetries[submissions[position + 1]] = 0
               THEN "reportFailed" ELSE "provision",
        event |-> position + 1, attempt |-> 1]]
  /\ UNCHANGED <<submissions, cancellations, task, owner, committed,
                 deadLetters, cancelVars, faultVars>>

Poll(r) ==
  /\ owner = r
  /\ worker[r] = Free
  /\ position < Len(submissions)
  /\ position' = position + 1
  /\ worker' = [worker EXCEPT ![r] =
       [pc |-> IF MaxRetries[submissions[position + 1]] = 0
               THEN "reportFailed" ELSE "provision",
        event |-> position + 1, attempt |-> 1]]
  /\ UNCHANGED <<submissions, cancellations, task, owner, committed,
                 deadLetters, cancelVars, faultVars>>

(* _process_message.  A status PUT never raises (_update_job_status), so    *)
(* its outcome does not change what the worker does next.                   *)

PutProvisioning(r) ==
  /\ worker[r].pc = "provision"
  /\ Goto(r, "launch")
  /\ UNCHANGED <<submissions, cancellations, task, owner, position, committed,
                 deadLetters, cancelVars, faultVars>>

TryAgain(r) ==
  worker' = [worker EXCEPT ![r].pc = "provision", ![r].attempt = @ + 1]

\* Mutant: the last failed attempt returns without PUT and DLQ.
AttemptFailedQuietly(r) ==
  IF worker[r].attempt < Budget(r) THEN TryAgain(r) ELSE Done(r)

\* The except branch: back off and try again within the budget of the event.
AttemptFailed(r) ==
  IF worker[r].attempt < Budget(r) THEN TryAgain(r) ELSE Goto(r, "reportFailed")

Launch(r) ==
  /\ worker[r].pc = "launch"
  /\ \/ /\ RunTask(JobOf(r), worker[r].event, TRUE)
        /\ Goto(r, "reportArn")
     \/ /\ EcsMayRefuse
        /\ AttemptFailed(r)
        /\ UNCHANGED task
     \/ /\ AnswerMayBeLost
        /\ RunTask(JobOf(r), worker[r].event, FALSE)
        /\ AttemptFailed(r)
  /\ UNCHANGED <<submissions, cancellations, owner, position, committed,
                 deadLetters, cancelVars, faultVars>>

\* Mutant: a failed PUT raises into the except branch around the launch.
PutArnRaises(r) ==
  /\ worker[r].pc = "reportArn"
  /\ Done(r) \/ AttemptFailed(r)
  /\ UNCHANGED <<submissions, cancellations, task, owner, position, committed,
                 deadLetters, cancelVars, faultVars>>

PutArn(r) ==
  /\ worker[r].pc = "reportArn"
  /\ Done(r)
  /\ UNCHANGED <<submissions, cancellations, task, owner, position, committed,
                 deadLetters, cancelVars, faultVars>>

PutFailed(r) ==
  /\ worker[r].pc = "reportFailed"
  /\ Goto(r, "bury")
  /\ UNCHANGED <<submissions, cancellations, task, owner, position, committed,
                 deadLetters, cancelVars, faultVars>>

\* DLQProducer.publish: an exception is logged and the message is gone.
Bury(r) ==
  /\ worker[r].pc = "bury"
  /\ SendTo(deadLetters, worker[r].event)
  /\ Done(r)
  /\ UNCHANGED <<submissions, cancellations, task, owner, position, committed,
                 cancelVars, faultVars>>

-----------------------------------------------------------------------------
(* The consumer group *)

\* enable_auto_commit: every few seconds, also while a message is processed.
AutoCommit ==
  /\ owner # NoReplica
  /\ committed # position
  /\ committed' = position
  /\ UNCHANGED <<submissions, cancellations, task, owner, position, worker,
                 deadLetters, cancelVars, faultVars>>

\* Mutants: the new owner goes on from the position of the old one; it resumes
\* one record too early.
TakeoverKeepsPosition(r) ==
  /\ owner # r
  /\ takeovers < MaxTakeovers
  /\ owner' = r
  /\ takeovers' = takeovers + 1
  /\ UNCHANGED <<submissions, cancellations, task, position, committed, worker,
                 deadLetters, cancelVars, crashes>>

TakeoverOffByOne(r) ==
  /\ owner # r
  /\ takeovers < MaxTakeovers
  /\ owner' = r
  /\ position' = committed - 1
  /\ takeovers' = takeovers + 1
  /\ UNCHANGED <<submissions, cancellations, task, committed, worker,
                 deadLetters, cancelVars, crashes>>

Takeover(r) ==
  /\ owner # r
  /\ takeovers < MaxTakeovers
  /\ owner' = r
  /\ position' = committed
  /\ takeovers' = takeovers + 1
  /\ UNCHANGED <<submissions, cancellations, task, committed, worker,
                 deadLetters, cancelVars, crashes>>

WorkerDies(r) ==
  /\ takeovers < MaxTakeovers
  /\ owner' = IF owner = r THEN NoReplica ELSE owner
  /\ Done(r)
  /\ crashes' = IF worker[r] # Free THEN crashes + 1 ELSE crashes
  /\ UNCHANGED <<submissions, cancellations, task, position, committed,
                 deadLetters, takeovers>>

\* Both consumers are tasks of one process.
Crash(r) ==
  /\ MayCrash
  /\ owner = r \/ worker[r] # Free \/ cancelOwner = r \/ Stopping(r)
  /\ WorkerDies(r)
  /\ StopperDies(r)

-----------------------------------------------------------------------------
WorkerStep(r) ==
  \/ Poll(r) \/ PutProvisioning(r) \/ Launch(r) \/ PutArn(r)
  \/ PutFailed(r) \/ Bury(r)

OnlyTasksChange ==
  UNCHANGED <<submissions, cancellations, consumerVars, cancelVars, faultVars>>

TaskStep(t) ==
  /\ ReportDone(t) \/ ReportAgain(t) \/ SparkSubmit(t) \/ Killed(t) \/ Vanish(t)
  /\ OnlyTasksChange

GroupStep == AutoCommit \/ \E r \in Replica : Takeover(r) \/ Crash(r)

CancelStep ==
  /\ \/ CancelAutoCommit
     \/ \E r \in Replica : StopperStep(r) \/ Raise(r) \/ CancelTakeover(r)
  /\ UNCHANGED <<consumerVars, faultVars>>

OrchestratorStep ==
  \/ \E r \in Replica : WorkerStep(r)
  \/ CancelStep
  \/ GroupStep
  \/ \E t \in DOMAIN task : TaskStep(t)

\* The environment, when the orchestrator runs alone: job-service sends.
Submit(j) ==
  /\ submissions' = Append(submissions, j)
  /\ UNCHANGED <<cancellations, task, consumerVars, cancelVars, faultVars>>

RequestStop(j) ==
  /\ cancellations' = Append(cancellations, j)
  /\ UNCHANGED <<submissions, task, consumerVars, cancelVars, faultVars>>

OrchestratorNext ==
  \/ OrchestratorStep
  \/ \E j \in Job : Submit(j) \/ RequestStop(j)

OrchestratorSpec == OrchestratorInit /\ [][OrchestratorNext]_orchestratorVars

-----------------------------------------------------------------------------
(* Properties *)

InFlight == {worker[r].event : r \in {q \in Replica : worker[q] # Free}}
Launched == {task[t].event : t \in DOMAIN task}
Buried == {deadLetters[i] : i \in DOMAIN deadLetters}

\* Submissions that will never be delivered again although nothing was
\* launched and nothing was written to the DLQ for them.
Lost == (1..committed) \ (InFlight \cup Launched \cup Buried)

\* enable_auto_commit commits a message while it is being processed.  The
\* damage is bounded: a submission is lost only by a replica that died while
\* processing it, so there are never more of them than such deaths; a mere
\* rebalance, however late the old owner finishes, loses none.
LossBoundedByCrashes == ~KafkaMayFail => Cardinality(Lost) <= crashes

Launches(o) == {t \in DOMAIN task : task[t].event = o /\ task[t].acked}

\* Redelivery is bounded the same way: launches RunTask acknowledged for one
\* submission are at most one more than the partition changed hands.
LaunchesBoundedByTakeovers ==
  \A o \in 1..Len(submissions) : Cardinality(Launches(o)) <= 1 + takeovers

\* One delivery launches or gives up, never both: without a rebalance no
\* submission in the DLQ has a task that the orchestrator knows of.
NeverLaunchedAndBuried ==
  takeovers = 0 =>
    \A t \in DOMAIN task : task[t].acked => task[t].event \notin Buried

\* What makes these three so.  A worker is free or has a submission in hand, and
\* PUTs an ARN only for a task it launched.
Working(r) == worker[r] # Free

WorkersInvariant ==
  /\ committed <= position
  /\ \A r \in Replica : Working(r) =>
       /\ worker[r].pc # "free" /\ worker[r].event \in 1..Len(submissions)
       /\ worker[r].pc = "reportArn" => worker[r].event \in Launched
  /\ \A t \in DOMAIN task : task[t].event \in 1..Len(submissions)

\* Submissions that were handed out; what auto-commit may commit next is not
\* lost either.
Unsettled == (1..position) \ (InFlight \cup Launched \cup Buried)

LossInvariant == ~KafkaMayFail => Cardinality(Unsettled) <= crashes

\* Without a rebalance a submission is handed out once, and its worker has not
\* settled it before.
DeliveredOnce ==
  /\ \A r \in Replica : Working(r) => worker[r].event <= position
  /\ \A q, r \in Replica :
       Working(q) /\ Working(r) /\ worker[q].event = worker[r].event => q = r
  /\ \A o \in Buried : o <= position /\ Launches(o) = {}
  /\ \A t \in DOMAIN task : task[t].event <= position
  /\ \A r \in Replica : Working(r) =>
       /\ worker[r].event \notin Buried
       /\ worker[r].pc # "reportArn" => Launches(worker[r].event) = {}

OnceInvariant == takeovers = 0 => DeliveredOnce

\* What may still be launched for a submission: by workers that have it, and by
\* the one that will be handed it.
Launching(o) ==
  {r \in Replica : worker[r].event = o /\ worker[r].pc \in {"provision", "launch"}}

LaunchBudget(o) == IF position < o THEN takeovers ELSE takeovers + 1

LaunchInvariant ==
  \A o \in 1..Len(submissions) :
    Cardinality(Launches(o)) + Cardinality(Launching(o)) <= LaunchBudget(o)

\* What the owner was handed and the group has not committed is settled, or in
\* the owner's hands: what auto-commit commits next is not lost by that.
OwnedInvariant ==
  ~KafkaMayFail =>
    \A r \in Replica : owner = r =>
      \A o \in committed + 1 .. position :
        o \in Launched \cup Buried \/ (Working(r) /\ worker[r].event = o)

\* JobConsumer and the consumer group keep the promise of an at-least-once
\* queue: no auto-commit, rebalance or redelivery loses a submission, what is
\* lost stays lost, what is launched or in the DLQ is never lost any more.
Queue == INSTANCE DispatchQueue
  WITH queue <- submissions, launched <- Launched, buried <- Buried,
       lost <- Lost, deaths <- crashes

ImplementsQueue == Queue!Spec

\* docs/disaster-recovery.md: after a crash "the orchestrator will replay
\* un-acked Kafka messages from the consumer group offset on restart".
CrashedMessagesReplayed == Lost = {}

\* docs/aws-deployment.md: the "Orchestrator retries RunTask failures up to
\* max_retries", and "On exhaustion" the event goes to the DLQ; so while
\* RunTask never fails, nothing does.
OnlyFailedLaunchesBuried == ~EcsMayRefuse => deadLetters = << >>

\* JobConsumer: through crashes and rebalances, no submission waits for ever:
\* it is launched, dead-lettered, or lost with the replica that held it.
EverySubmissionSettles(o) ==
  o <= Len(submissions) ~> o \in Launched \cup Buried \cup Lost

=============================================================================
