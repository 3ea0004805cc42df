---------------------------- MODULE JobLifecycle ----------------------------
(***************************************************************************)
(* The control plane of a job: job-service, the orchestrator and the Spark *)
(* containers joined.  They meet in the two topics and in the status PUTs: *)
(* a worker of the orchestrator or a container calls, job-service serves   *)
(* the call as one more interleaved request, and the caller waits for the  *)
(* response before its next step.                                          *)
(***************************************************************************)
EXTENDS JobService, Orchestrator

CONSTANTS
  User,              \* the client of the public API
  Nobody,            \* the caller of a request whose caller gave up
  ScheduledJob,      \* jobs submitted by the orchestrator's scheduler
  MaxTimeouts,       \* bound on calls that are lost, or time out while served
  MaxCancellations   \* bound on the cancel events a user causes

ASSUME JobLifecycleAssumption ==
  /\ ScheduledJob \subseteq Job
  /\ MaxTimeouts \in Nat
  /\ MaxCancellations \in Nat

VARIABLES
  failures,          \* history: failed runs and abandoned launches of a job
  repeats,           \* history: FAILED reports that curl sent once more
  timeouts           \* history: calls whose caller gave up

historyVars == <<failures, repeats, timeouts>>
vars == <<submissions, cancellations, apiVars, task, consumerVars, cancelVars,
          faultVars, historyVars>>

nonApiVars == <<task, consumerVars, cancelVars, faultVars>>

TypeOK == /\ ServiceTypeOK /\ OrchestratorTypeOK
          /\ failures \in [Job -> Nat] /\ repeats \in [Job -> Nat]
          /\ timeouts \in 0..MaxTimeouts

Init ==
  /\ ServiceInit
  /\ ConsumersInit
  /\ failures = [j \in Job |-> 0]
  /\ repeats = [j \in Job |-> 0]
  /\ timeouts = 0

FailureSeen(j) ==
  /\ failures' = [failures EXCEPT ![j] = @ + 1]
  /\ UNCHANGED repeats

-----------------------------------------------------------------------------
(* Calls.  httpx (30 s) and curl (--max-time 30) wait for the response; a   *)
(* caller that times out goes on while its request may still be served.     *)

Answered(c) == \A h \in Handler : Busy(h) => handler[h].from # c

TimesOut == timeouts < MaxTimeouts /\ timeouts' = timeouts + 1

\* The call is served from now on, or never.
Call(j, st, c) ==
  /\ Answered(c)
  /\ \/ UNCHANGED timeouts /\ \E h \in Handler : ReceiveUpdate(h, j, st, c)
     \/ TimesOut /\ UNCHANGED apiVars

\* The time-out: nobody waits for the request any longer, and it goes on.
GiveUp(h) ==
  /\ Busy(h) /\ handler[h].from # Nobody
  /\ TimesOut
  /\ handler' = [handler EXCEPT ![h].from = Nobody]
  /\ UNCHANGED <<submissions, cancellations, row, requeues, active, aborts,
                 nonApiVars, failures, repeats>>

-----------------------------------------------------------------------------
(* The user and the scheduler *)

CreateJob(j) ==
  /\ j \notin ScheduledJob
  /\ \E h \in Handler : ReceiveCreate(h, j, User)
  /\ UNCHANGED <<nonApiVars, historyVars>>

\* A user cancels what the API shows as live; DELETE of a finished or unknown
\* job changes nothing, and what happens in between is decided by the service.
CancelJob(j) ==
  /\ Answered(User)
  /\ Len(cancellations) < MaxCancellations
  /\ row[j].status \notin Terminal \cup {"none"}
  /\ \E h \in Handler : ReceiveCancel(h, j, User)
  /\ UNCHANGED <<nonApiVars, historyVars>>

\* Scheduler._fire publishes a fresh job_id and calls nobody.
FireSchedule(j) ==
  /\ j \in ScheduledJob
  /\ Fresh(j)
  /\ submissions' = Append(submissions, j)
  /\ UNCHANGED <<cancellations, apiVars, nonApiVars, historyVars>>

(* job-service *)

ServiceStep(h) ==
  /\ HandlerStep(h) \/ Abort(h)
  /\ UNCHANGED <<nonApiVars, historyVars>>

(* The orchestrator *)

WorkerCalls(r) ==
  /\ \/ /\ PutProvisioning(r) \/ PutArn(r)
        /\ Call(JobOf(r), "PROVISIONING", r)
        /\ UNCHANGED <<failures, repeats>>
     \/ /\ PutFailed(r)
        /\ Call(JobOf(r), "FAILED", r)
        /\ FailureSeen(JobOf(r))

WorkerWorks(r) ==
  /\ Answered(r)
  /\ Poll(r) \/ Launch(r) \/ Bury(r)
  /\ UNCHANGED <<apiVars, historyVars>>

ConsumerStep ==
  /\ CancelStep \/ GroupStep
  /\ UNCHANGED <<apiVars, historyVars>>

(* The Spark containers *)

ContainerReports(t) ==
  /\ ReportDone(t)
  /\ Call(task[t].job, ReportOf(t), t)
  /\ OnlyTasksChange
  /\ UNCHANGED <<failures, repeats>>

\* curl did not see the answer (or saw a 5xx) and sends the report again.
ContainerRepeats(t) ==
  /\ ReportAgain(t)
  /\ \E h \in Handler : ReceiveUpdate(h, task[t].job, ReportOf(t), t)
  /\ OnlyTasksChange
  /\ repeats' = IF ReportOf(t) = "FAILED"
                THEN [repeats EXCEPT ![task[t].job] = @ + 1] ELSE repeats
  /\ UNCHANGED <<failures, timeouts>>

SparkRuns(t) ==
  /\ Answered(t)
  /\ SparkSubmit(t)
  /\ IF task'[t].outcome = "FAILED" THEN FailureSeen(task[t].job) /\ UNCHANGED timeouts
     ELSE UNCHANGED historyVars
  /\ OnlyTasksChange
  /\ UNCHANGED apiVars

ContainerEnds(t) ==
  /\ Killed(t) \/ Vanish(t)
  /\ OnlyTasksChange
  /\ UNCHANGED <<apiVars, historyVars>>

ContainerStep(t) ==
  \/ ContainerReports(t) \/ ContainerRepeats(t)
  \/ SparkRuns(t) \/ ContainerEnds(t)

Next ==
  \/ \E j \in Job : CreateJob(j) \/ CancelJob(j) \/ FireSchedule(j)
  \/ \E h \in Handler : ServiceStep(h) \/ GiveUp(h)
  \/ \E r \in Replica : WorkerCalls(r) \/ WorkerWorks(r)
  \/ ConsumerStep
  \/ \E t \in DOMAIN task : ContainerStep(t)

Spec == Init /\ [][Next]_vars

-----------------------------------------------------------------------------
(* Properties *)

\* The FAILED reports of a job that the service may have been sent.
Reported(j) == failures[j] + repeats[j]

\* A retry is counted only for a failure that happened, a Spark run that
\* failed or a launch that was given up, whatever the order in which the
\* callbacks are read, sent and committed; a report that curl repeats because
\* it missed the answer costs at most one retry more.
RetryJustified == \A j \in Job : row[j].retry <= Reported(j)

\* A job is DEAD only after max_retries + 1 such failures.
DeadJustified ==
  \A j \in Job : row[j].status = "DEAD" => Reported(j) >= MaxRetries[j] + 1

\* A job reads SUCCESS only if one of its containers exited with code 0.
SuccessJustified ==
  \A j \in Job : row[j].status = "SUCCESS" =>
    \E t \in Tasks(j) : task[t].outcome = "SUCCESS"

\* Every submission is one the service or the scheduler made: the first, or
\* one for a failure.  This bounds what a failing job can launch.
SubmissionsJustified ==
  \A j \in Job : Cardinality(Submitted(j)) <= 1 + Reported(j)

\* What makes these so, again, is about open requests and running containers.
\* A container reports what spark-submit left.
ReportsSound ==
  \A t \in DOMAIN task :
    /\ task[t].pc \in {"starting", "executing"} => task[t].outcome = "none"
    /\ task[t].pc = "reporting" => task[t].outcome # "none"

\* A failure is known, and not yet a re-enqueue, while a request reports it or a
\* container is about to; the failure that killed a job never becomes one.
FailedCall(q, j) ==
  q.op = "update" /\ q.job = j /\ q.status = "FAILED" /\ q.pc \in {"select", "send"}

FailedCalls(j) == {h \in Handler : Busy(h) /\ FailedCall(handler[h], j)}

FailedRuns(j) ==
  {t \in Tasks(j) : task[t].pc = "reporting" /\ task[t].outcome = "FAILED"}

Dying(q, j) == q.pc = "commit" /\ q.job = j /\ q.new.status = "DEAD"

Dead(j) == row[j].status = "DEAD" \/ \E h \in Handler : Busy(h) /\ Dying(handler[h], j)

Spent(j) ==
  requeues[j] + Cardinality(FailedCalls(j)) + (IF Dead(j) THEN 1 ELSE 0)

FailuresInvariant ==
  \A j \in Job : Spent(j) + Cardinality(FailedRuns(j)) <= Reported(j)

Succeeded(j) == \E t \in Tasks(j) : task[t].outcome = "SUCCESS"

\* A request sends again only what FAILED, stores SUCCESS only for a run that
\* succeeded, and creates a job that is nowhere else.
CallSound(q) ==
  /\ q.op = "update" /\ q.pc = "send" => q.status = "FAILED"
  /\ q.op = "update" /\ q.status = "SUCCESS" => Succeeded(q.job)
  /\ q.new.status = "SUCCESS" => Succeeded(q.job)
  /\ q.op # "update" => q.new.status # "DEAD"
  /\ q.pc # "select" => q.new.status # "none"
  /\ q.op # "create" /\ q.pc # "select" => row[q.job] # NoRow
  /\ q.op = "create" =>
       /\ row[q.job] = NoRow /\ q.old = NoRow /\ q.job \notin ScheduledJob
       /\ q.pc = "send" => Submitted(q.job) = {}

Quiet ==
  /\ \A h \in Handler : ~Busy(h)
  /\ position = Len(submissions)
  /\ \A r \in Replica : worker[r] = Free
  /\ \A t \in DOMAIN task : ~Alive(t)

\* Failing, retrying and cancelling jobs cannot keep each other busy for ever:
\* overlapping FAILED callbacks may set retry_count back, yet the loop of
\* callback, re-enqueue and launch runs dry.
EventuallyQuiet == <>[]Quiet

\* docs/architecture.md 4.4: "Terminal states: SUCCESS, CANCELLED, DEAD".
TerminalStatesAreFinal ==
  [][\A j \in Job :
       row[j].status \in Terminal => row'[j].status = row[j].status]_row

\* docs/architecture.md 9: "Job status is callback-driven from runtime
\* container": once all is quiet, a job whose container finished is not left
\* in a status that its orchestrator wrote.
ContainerHasLastWord ==
  Quiet => \A j \in Job : row[j].status = "PROVISIONING" =>
             \A t \in Tasks(j) : task[t].outcome = "none"

\* docs/disaster-recovery.md: the DLQ holds "permanently-failed jobs".
DeadLettersArePermanent ==
  \A i \in DOMAIN deadLetters :
    \A t \in Tasks(submissions[deadLetters[i]]) : task[t].event <= deadLetters[i]

\* scheduler.py: "The job-service catalog row is created lazily by the job's
\* ECS callback path and the existing /jobs/{id}/status updater."
CallbackCreatesRow ==
  Quiet => \A t \in DOMAIN task :
             task[t].outcome # "none" => row[task[t].job] # NoRow

=============================================================================
