----------------------------- MODULE SparkTasks -----------------------------
(***************************************************************************)
(* The ECS tasks that run Spark: what RunTask starts, what the container's *)
(* entrypoint (spark-images/base/entrypoint.sh) does, and how a task ends. *)
(***************************************************************************)
EXTENDS JobTypes

CONSTANTS
  StartedBy,       \* the startedBy tag of a job's tasks: job_id[:8]
  TaskMayVanish,   \* may a task die without its entrypoint reporting (OOM)?
  CurlRetries      \* curl --retry: how often one report may be sent again

ASSUME SparkTasksAssumption ==
  /\ StartedBy \in [Job -> Job]      \* one job stands for all with its prefix
  /\ TaskMayVanish \in BOOLEAN
  /\ CurlRetries \in 0..3

VARIABLE task      \* every task RunTask ever started, in that order

\* event: the offset of the submission the task was launched for.
\* acked: the orchestrator saw RunTask's answer.
\* born: history, how many stop requests had been sent when it was launched.
Task == [job: Job, event: Nat, acked: BOOLEAN, born: Nat,
         pc: {"starting", "executing", "reporting", "exited"},
         outcome: {"none", "SUCCESS", "FAILED"},
         resent: 0..CurlRetries, stopping: BOOLEAN]

TasksTypeOK == task \in Seq(Task)

TasksInit == task = << >>

NewTask(j, o, acked) ==
  [job |-> j, event |-> o, acked |-> acked, born |-> Len(cancellations),
   pc |-> "starting", outcome |-> "none", resent |-> 0, stopping |-> FALSE]

Alive(t) == task[t].pc # "exited"

Tasks(j) == {t \in DOMAIN task : task[t].job = j}

-----------------------------------------------------------------------------
(* entrypoint.sh: report RUNNING, spark-submit, report the exit status.     *)

\* Mutant: the test of spark-submit's exit status is inverted.
ReportOfInverted(t) ==
  IF task[t].pc = "starting" THEN "RUNNING"
  ELSE IF task[t].outcome = "FAILED" THEN "SUCCESS" ELSE "FAILED"

\* What report_status PUTs now.
ReportOf(t) == IF task[t].pc = "starting" THEN "RUNNING" ELSE task[t].outcome

\* curl returned, delivered or not: a failure is only a warning.
ReportDone(t) ==
  /\ task[t].pc \in {"starting", "reporting"}
  /\ task' = [task EXCEPT
       ![t].pc = IF @ = "starting" THEN "executing" ELSE "exited",
       ![t].resent = 0]

\* curl --retry: the request may have been served, its answer was not seen.
ReportAgain(t) ==
  /\ task[t].pc \in {"starting", "reporting"}
  /\ task[t].resent < CurlRetries
  /\ task' = [task EXCEPT ![t].resent = @ + 1]

SparkSubmit(t) ==
  /\ task[t].pc = "executing"
  /\ \E outcome \in {"SUCCESS", "FAILED"} :
       task' = [task EXCEPT ![t].pc = "reporting", ![t].outcome = outcome]

-----------------------------------------------------------------------------
(* ECS *)

RunTask(j, o, acked) == task' = Append(task, NewTask(j, o, acked))

\* ListTasks(startedBy, desiredStatus=RUNNING)
RunningTasksFor(j) ==
  {t \in DOMAIN task : /\ StartedBy[task[t].job] = StartedBy[j]
                       /\ Alive(t) /\ ~task[t].stopping}

StopTask(t) == task' = [task EXCEPT ![t].stopping = TRUE]

\* StopTask kills the container after its grace period; bash is PID 1 and has
\* no trap, so SIGTERM is ignored and until then the entrypoint goes on.
Killed(t) ==
  /\ Alive(t)
  /\ task[t].stopping
  /\ task' = [task EXCEPT ![t].pc = "exited"]

Vanish(t) ==
  /\ TaskMayVanish
  /\ Alive(t)
  /\ task' = [task EXCEPT ![t].pc = "exited"]

=============================================================================
