------------------------- MODULE JobLifecycleProofs -------------------------
(***************************************************************************)
(* The joined control plane: it does to the topics and tasks what the      *)
(* orchestrator alone may do, so the theorems of OrchestratorProofs hold   *)
(* of it, and what a job's row says is backed by failures and runs.        *)
(***************************************************************************)
EXTENDS JobLifecycle, JobServiceProofs, OrchestratorProofs

-----------------------------------------------------------------------------
(* Tasks *)

\* Task t alone moves, to pc with outcome.
TaskBecomes(t, pc, outcome) ==
  /\ DOMAIN task' = DOMAIN task
  /\ task'[t].job = task[t].job /\ task'[t].pc = pc /\ task'[t].outcome = outcome
  /\ \A u \in DOMAIN task : u # t => task'[u] = task[u]

LEMMA TaskRecords ==
  ASSUME TasksTypeOK
  PROVE  task \in [DOMAIN task -> Task] /\ \A t \in DOMAIN task : task[t] \in Task
BY SeqFacts DEF TasksTypeOK

LEMMA TaskPut ==
  ASSUME TasksTypeOK, NEW t \in DOMAIN task, NEW x,
         x.job = task[t].job, task' = [task EXCEPT ![t] = x]
  PROVE  TaskBecomes(t, x.pc, x.outcome)
BY TaskRecords DEF TaskBecomes

LEMMA ReportDoneMoves ==
  ASSUME TasksTypeOK, NEW t \in DOMAIN task, ReportDone(t)
  PROVE  \/ task[t].pc = "starting" /\ TaskBecomes(t, "executing", task[t].outcome)
         \/ task[t].pc = "reporting" /\ TaskBecomes(t, "exited", task[t].outcome)
<1> DEFINE p == IF task[t].pc = "starting" THEN "executing" ELSE "exited"
           x == [task[t] EXCEPT !.pc = p, !.resent = 0]
<1>1. task' = [task EXCEPT ![t] = x] /\ task[t].pc \in {"starting", "reporting"}
  BY DEF ReportDone
<1>2. x.job = task[t].job /\ x.pc = p /\ x.outcome = task[t].outcome
  BY TaskRecords DEF Task
<1> HIDE DEF x
<1>3. TaskBecomes(t, p, task[t].outcome)
  BY <1>1, <1>2, TaskPut
<1> QED
  BY <1>1, <1>3

LEMMA ReportAgainMoves ==
  ASSUME TasksTypeOK, NEW t \in DOMAIN task, ReportAgain(t)
  PROVE  /\ task[t].pc \in {"starting", "reporting"}
         /\ TaskBecomes(t, task[t].pc, task[t].outcome)
<1> DEFINE x == [task[t] EXCEPT !.resent = @ + 1]
<1>1. task' = [task EXCEPT ![t] = x] /\ task[t].pc \in {"starting", "reporting"}
  BY DEF ReportAgain
<1>2. x.job = task[t].job /\ x.pc = task[t].pc /\ x.outcome = task[t].outcome
  BY TaskRecords DEF Task
<1> HIDE DEF x
<1> QED
  BY <1>1, <1>2, TaskPut

LEMMA SparkSubmitMoves ==
  ASSUME TasksTypeOK, NEW t \in DOMAIN task, SparkSubmit(t)
  PROVE  /\ task[t].pc = "executing"
         /\ \E o \in {"SUCCESS", "FAILED"} : TaskBecomes(t, "reporting", o)
<1>1. PICK o \in {"SUCCESS", "FAILED"} :
        task' = [task EXCEPT ![t].pc = "reporting", ![t].outcome = o]
  BY DEF SparkSubmit
<1> DEFINE x == [task[t] EXCEPT !.pc = "reporting", !.outcome = o]
<1>2. task' = [task EXCEPT ![t] = x]
  BY <1>1
<1>3. x.job = task[t].job /\ x.pc = "reporting" /\ x.outcome = o
  BY TaskRecords DEF Task
<1> HIDE DEF x
<1> QED
  BY <1>2, <1>3, TaskPut DEF SparkSubmit

LEMMA EndMoves ==
  ASSUME TasksTypeOK, NEW t \in DOMAIN task, Killed(t) \/ Vanish(t)
  PROVE  TaskBecomes(t, "exited", task[t].outcome)
<1> DEFINE x == [task[t] EXCEPT !.pc = "exited"]
<1>1. task' = [task EXCEPT ![t] = x]
  BY DEF Killed, Vanish
<1>2. x.job = task[t].job /\ x.pc = "exited" /\ x.outcome = task[t].outcome
  BY TaskRecords DEF Task
<1> HIDE DEF x
<1> QED
  BY <1>1, <1>2, TaskPut

\* What the orchestrator and ECS do to the tasks: nothing that a container reports.
SameRuns ==
  /\ \A t \in DOMAIN task :
       /\ t \in DOMAIN task' /\ task'[t].job = task[t].job
       /\ task'[t].pc = task[t].pc /\ task'[t].outcome = task[t].outcome
  /\ \A t \in DOMAIN task' :
       t \in DOMAIN task \/ (task'[t].pc = "starting" /\ task'[t].outcome = "none")

LEMMA RunTaskRuns ==
  ASSUME TasksTypeOK, NEW j \in Job, NEW o \in Nat, NEW acked \in BOOLEAN,
         RunTask(j, o, acked)
  PROVE  SameRuns
<1> DEFINE new == NewTask(j, o, acked)
<1>1. new \in Task /\ new.pc = "starting" /\ new.outcome = "none"
  BY SparkTasksAssumption DEF NewTask, Task
<1>2. task' = Append(task, new)
  BY DEF RunTask
<1> HIDE DEF new
<1>3. task \in Seq(Task)
  BY DEF TasksTypeOK
<1>4. /\ DOMAIN task' = DOMAIN task \cup {Len(task) + 1}
      /\ \A t \in DOMAIN task : task'[t] = task[t]
      /\ task'[Len(task) + 1] = new
  BY <1>1, <1>2, <1>3, AppendFacts
<1> QED
  BY <1>1, <1>4 DEF SameRuns

LEMMA StopTaskRuns ==
  ASSUME TasksTypeOK, NEW t, StopTask(t)
  PROVE  SameRuns
<1>1. \A u \in DOMAIN task : task[u] \in Task
  BY TaskRecords
<1>2. /\ DOMAIN task' = DOMAIN task
      /\ \A u \in DOMAIN task :
           task'[u] = IF u = t THEN [task[u] EXCEPT !.stopping = TRUE] ELSE task[u]
  BY TaskRecords DEF StopTask
<1> QED
  BY <1>1, <1>2 DEF SameRuns, Task

-----------------------------------------------------------------------------
(* The orchestrator's part of every step *)

\* Everyone who may be waiting for a response: a task is named by its place.
Callers == {User, Nobody} \cup Replica \cup Nat \subseteq Caller

LInv == TypeOK /\ WorkersInvariant /\ ReportsSound

LEMMA LInvParts ==
  ASSUME LInv
  PROVE  ServiceTypeOK /\ WInv /\ TasksTypeOK /\ TopicsTypeOK
BY DEF LInv, TypeOK, WInv, OrchestratorTypeOK

LEMMA ServiceSends ==
  ASSUME ServiceTypeOK, NEW h \in Handler, HandlerStep(h) \/ Abort(h)
  PROVE  \/ \E j \in Job : submissions' = Append(submissions, j) /\ UNCHANGED cancellations
         \/ \E j \in Job : cancellations' = Append(cancellations, j) /\ UNCHANGED submissions
         \/ UNCHANGED <<submissions, cancellations>>
<1>1. CASE Abort(h) \/ SelectForUpdate(h) \/ SelectForCancel(h) \/ Commit(h)
  BY <1>1 DEF Abort, SelectForUpdate, SelectForCancel, Commit
<1>2. CASE SendCreate(h) \/ SendRetry(h) \/ SendCancel(h)
  <2>1. Busy(h)
    BY <1>2 DEF SendCreate, SendRetry, SendCancel
  <2>2. handler[h].job \in Job
    BY <2>1, BusyRequest DEF Request
  <2> QED
    BY <1>2, <2>2 DEF SendCreate, SendRetry, SendCancel, SendTo
<1> QED
  BY <1>1, <1>2 DEF HandlerStep

\* Requests arrive and are given up without a change to the topics.
LEMMA RequestsSendNothing ==
  ASSUME NEW h, NEW j, NEW st, NEW c,
         ReceiveCreate(h, j, c) \/ ReceiveCancel(h, j, c) \/ ReceiveUpdate(h, j, st, c)
  PROVE  UNCHANGED <<submissions, cancellations, row, active, requeues, aborts>>
BY DEF ReceiveCreate, ReceiveCancel, ReceiveUpdate, Accept

LEMMA StepOfOrchestrator ==
  ASSUME ServiceTypeOK, [Next]_vars
  PROVE  [OrchestratorNext]_orchestratorVars
<1> USE DEF orchestratorVars
<1>1. ASSUME NEW j \in Job, CreateJob(j) \/ CancelJob(j) \/ FireSchedule(j)
      PROVE  [OrchestratorNext]_orchestratorVars
  <2>1. CASE CreateJob(j) \/ CancelJob(j)
    <3>1. UNCHANGED <<submissions, cancellations>>
      BY <2>1, RequestsSendNothing DEF CreateJob, CancelJob
    <3> QED
      BY <2>1, <3>1 DEF CreateJob, CancelJob, nonApiVars
  <2>2. CASE FireSchedule(j)
    <3>1. Submit(j)
      BY <2>2 DEF FireSchedule, nonApiVars, Submit
    <3> QED
      BY <3>1 DEF OrchestratorNext
  <2> QED
    BY <1>1, <2>1, <2>2
<1>2. ASSUME NEW h \in Handler, ServiceStep(h) \/ GiveUp(h)
      PROVE  [OrchestratorNext]_orchestratorVars
  <2>1. CASE ServiceStep(h)
    <3>1. UNCHANGED <<task, consumerVars, cancelVars, faultVars>>
      BY <2>1 DEF ServiceStep, nonApiVars
    <3>2. CASE \E j \in Job : submissions' = Append(submissions, j) /\ UNCHANGED cancellations
      BY <3>1, <3>2 DEF OrchestratorNext, Submit
    <3>3. CASE \E j \in Job : cancellations' = Append(cancellations, j) /\ UNCHANGED submissions
      BY <3>1, <3>3 DEF OrchestratorNext, RequestStop
    <3>4. CASE UNCHANGED <<submissions, cancellations>>
      BY <3>1, <3>4
    <3> QED
      BY <2>1, <3>2, <3>3, <3>4, ServiceSends DEF ServiceStep
  <2>2. CASE GiveUp(h)
    BY <2>2 DEF GiveUp, nonApiVars
  <2> QED
    BY <1>2, <2>1, <2>2
<1>3. ASSUME NEW r \in Replica, WorkerCalls(r) \/ WorkerWorks(r)
      PROVE  [OrchestratorNext]_orchestratorVars
  <2>1. WorkerStep(r)
    BY <1>3 DEF WorkerCalls, WorkerWorks, WorkerStep
  <2> QED
    BY <2>1 DEF OrchestratorNext, OrchestratorStep
<1>4. CASE ConsumerStep
  BY <1>4 DEF ConsumerStep, OrchestratorNext, OrchestratorStep
<1>5. ASSUME NEW t \in DOMAIN task, ContainerStep(t)
      PROVE  [OrchestratorNext]_orchestratorVars
  <2>1. TaskStep(t)
    BY <1>5 DEF ContainerStep, ContainerReports, ContainerRepeats, SparkRuns, ContainerEnds,
                TaskStep
  <2> QED
    BY <2>1 DEF OrchestratorNext, OrchestratorStep
<1>6. CASE UNCHANGED vars
  BY <1>6 DEF vars
<1> QED
  BY <1>1, <1>2, <1>3, <1>4, <1>5, <1>6 DEF Next

-----------------------------------------------------------------------------
(* Types *)

LEMMA ReceivedTypeOK ==
  ASSUME ServiceTypeOK, NEW h \in Handler, NEW j \in Job, NEW c \in Caller,
         \/ ReceiveCreate(h, j, c) \/ ReceiveCancel(h, j, c)
         \/ \E st \in Callback : ReceiveUpdate(h, j, st, c)
  PROVE  ServiceTypeOK'
BY ReceiveTypeOK DEF Receive

\* Nothing that types speak of changes.
LEMMA SameServiceTypeOK ==
  ASSUME ServiceTypeOK, UNCHANGED <<submissions, cancellations, apiVars>>
  PROVE  ServiceTypeOK'
BY DEF apiVars, ServiceTypeOK, TopicsTypeOK

LEMMA CallTypeOK ==
  ASSUME ServiceTypeOK, NEW j \in Job, NEW st \in Callback, NEW c \in Caller,
         Call(j, st, c), UNCHANGED <<submissions, cancellations>>
  PROVE  ServiceTypeOK'
BY ReceivedTypeOK, SameServiceTypeOK DEF Call

LEMMA ReportType ==
  ASSUME LInv, NEW t \in DOMAIN task, task[t].pc \in {"starting", "reporting"}
  PROVE  /\ ReportOf(t) \in Callback /\ task[t].job \in Job
         /\ ReportOf(t) = "FAILED" <=>
              task[t].pc = "reporting" /\ task[t].outcome = "FAILED"
         /\ ReportOf(t) = "SUCCESS" => task[t].outcome = "SUCCESS"
<1>1. task[t] \in Task
  BY LInvParts, TaskRecords
<1> QED
  BY <1>1 DEF LInv, ReportsSound, ReportOf, Callback, Task

\* Who a worker calls for, and with what.
LEMMA WorkerCallsFor ==
  ASSUME LInv, NEW r \in Replica, WorkerCalls(r)
  PROVE  /\ JobOf(r) \in Job
         /\ \/ Call(JobOf(r), "PROVISIONING", r) /\ UNCHANGED <<failures, repeats>>
            \/ Call(JobOf(r), "FAILED", r) /\ FailureSeen(JobOf(r))
         /\ UNCHANGED <<submissions, cancellations, task>>
<1>1. worker[r].pc \in {"provision", "reportArn", "reportFailed"}
  BY DEF WorkerCalls, PutProvisioning, PutArn, PutFailed
<1>2. Working(r)
  BY <1>1, FreeWorker DEF Working
<1>3. JobOf(r) \in Job
  BY <1>2, LInvParts, WorkerHas
<1> QED
  BY <1>3 DEF WorkerCalls, PutProvisioning, PutArn, PutFailed

LEMMA StepServiceTypeOK ==
  ASSUME Callers, LInv, [Next]_vars
  PROVE  ServiceTypeOK'
<1>1. ServiceTypeOK /\ WInv
  BY LInvParts
<1>2. User \in Caller /\ Nobody \in Caller /\ (\A r \in Replica : r \in Caller)
      /\ \A t \in DOMAIN task : t \in Caller
  <2>1. DOMAIN task \subseteq Nat
    BY LInvParts, SeqFacts DEF TasksTypeOK
  <2> QED
    BY <2>1 DEF Callers
<1>3. ASSUME NEW j \in Job, CreateJob(j) \/ CancelJob(j) \/ FireSchedule(j)
      PROVE  ServiceTypeOK'
  <2>1. CASE CreateJob(j) \/ CancelJob(j)
    BY <1>1, <1>2, <2>1, ReceivedTypeOK DEF CreateJob, CancelJob
  <2>2. CASE FireSchedule(j)
    BY <1>1, <2>2, SendType DEF FireSchedule, apiVars, ServiceTypeOK, TopicsTypeOK
  <2> QED
    BY <1>3, <2>1, <2>2
<1>4. ASSUME NEW h \in Handler, ServiceStep(h)
      PROVE  ServiceTypeOK'
  BY <1>1, <1>4, HandlerStepTypeOK, AbortTypeOK DEF ServiceStep
<1>5. ASSUME NEW h \in Handler, GiveUp(h)
      PROVE  ServiceTypeOK'
  <2>1. handler[h] \in Request
    BY <1>1, <1>5, BusyRequest DEF GiveUp
  <2> DEFINE q == [handler[h] EXCEPT !.from = Nobody]
  <2>2. q \in Request /\ handler' = [handler EXCEPT ![h] = q]
    BY <1>2, <1>5, <2>1 DEF GiveUp, Request
  <2> HIDE DEF q
  <2> QED
    BY <1>1, <1>5, <2>2 DEF GiveUp, ServiceTypeOK, TopicsTypeOK
<1>6. ASSUME NEW r \in Replica, WorkerCalls(r)
      PROVE  ServiceTypeOK'
  <2>1. PICK j \in Job : j = JobOf(r)
    BY <1>6, WorkerCallsFor
  <2> QED
    BY <1>1, <1>2, <1>6, <2>1, WorkerCallsFor, CallTypeOK DEF Callback
<1>7. ASSUME NEW r \in Replica, WorkerWorks(r)
      PROVE  ServiceTypeOK'
  <2>1. UNCHANGED <<submissions, cancellations, apiVars>>
    BY <1>7 DEF WorkerWorks, Poll, Launch, Bury
  <2> QED
    BY <1>1, <2>1, SameServiceTypeOK
<1>8. CASE ConsumerStep
  <2>1. UNCHANGED <<submissions, cancellations, apiVars>>
    BY <1>8 DEF ConsumerStep, CancelStep, CancelAutoCommit, StopperStep, HandOut, ListTasks,
         StopNext, Raise, CancelTakeover, GroupStep, AutoCommit, Takeover, Crash, WorkerDies
  <2> QED
    BY <1>1, <2>1, SameServiceTypeOK
<1>9. ASSUME NEW t \in DOMAIN task, ContainerReports(t) \/ ContainerRepeats(t)
      PROVE  ServiceTypeOK'
  <2>1. task[t].pc \in {"starting", "reporting"}
    BY <1>9 DEF ContainerReports, ContainerRepeats, ReportDone, ReportAgain
  <2>2. PICK j \in Job, st \in Callback : j = task[t].job /\ st = ReportOf(t)
    BY <2>1, ReportType
  <2>3. UNCHANGED <<submissions, cancellations>>
    BY <1>9 DEF ContainerReports, ContainerRepeats, OnlyTasksChange
  <2>4. CASE ContainerReports(t)
    BY <1>1, <1>2, <2>2, <2>3, <2>4, CallTypeOK DEF ContainerReports
  <2>5. CASE ContainerRepeats(t)
    BY <1>1, <1>2, <2>2, <2>5, ReceivedTypeOK DEF ContainerRepeats
  <2> QED
    BY <1>9, <2>4, <2>5
<1>10. ASSUME NEW t \in DOMAIN task, SparkRuns(t) \/ ContainerEnds(t)
       PROVE  ServiceTypeOK'
  <2>1. UNCHANGED <<submissions, cancellations, apiVars>>
    BY <1>10 DEF SparkRuns, ContainerEnds, OnlyTasksChange
  <2> QED
    BY <1>1, <2>1, SameServiceTypeOK
<1>11. CASE UNCHANGED vars
  BY <1>1, <1>11, SameServiceTypeOK DEF vars
<1> QED
  BY <1>3, <1>4, <1>5, <1>6, <1>7, <1>8, <1>9, <1>10, <1>11 DEF Next, ContainerStep

-----------------------------------------------------------------------------
(* What containers report *)

\* Tasks only come and advance.
Advances(t) ==
  LET u == task[t]
      v == task'[t]
  IN /\ t \in DOMAIN task' /\ v.job = u.job
     /\ \/ v.outcome = u.outcome /\ v.pc \in {u.pc, "exited"}
        \/ v.outcome = u.outcome /\ u.pc = "starting" /\ v.pc = "executing"
        \/ v.outcome \in {"SUCCESS", "FAILED"} /\ u.pc = "executing" /\ v.pc = "reporting"

RunsAdvance ==
  /\ \A t \in DOMAIN task : Advances(t)
  /\ \A t \in DOMAIN task' :
       t \in DOMAIN task \/ (task'[t].pc = "starting" /\ task'[t].outcome = "none")

LEMMA SameRunsAdvance == SameRuns => RunsAdvance
BY DEF SameRuns, RunsAdvance, Advances

LEMMA MovedAdvances ==
  ASSUME NEW t \in DOMAIN task, NEW p, NEW o, TaskBecomes(t, p, o),
         \/ o = task[t].outcome /\ p \in {task[t].pc, "exited"}
         \/ o = task[t].outcome /\ task[t].pc = "starting" /\ p = "executing"
         \/ o \in {"SUCCESS", "FAILED"} /\ task[t].pc = "executing" /\ p = "reporting"
  PROVE  RunsAdvance
BY DEF TaskBecomes, RunsAdvance, Advances

LEMMA TasksKept == UNCHANGED task => SameRuns
BY DEF SameRuns

LEMMA WorkerWorksRuns ==
  ASSUME LInv, NEW r \in Replica, Poll(r) \/ Launch(r) \/ Bury(r)
  PROVE  SameRuns
<1>1. CASE Poll(r) \/ Bury(r)
  BY <1>1, TasksKept DEF Poll, Bury
<1>2. CASE Launch(r)
  <2>1. CASE UNCHANGED task
    BY <2>1, TasksKept
  <2>2. CASE \E acked \in BOOLEAN : RunTask(JobOf(r), worker[r].event, acked)
    <3>1. Working(r)
      BY <1>2, FreeWorker DEF Launch, Working
    <3>2. PICK j \in Job, o \in Nat : j = JobOf(r) /\ o = worker[r].event
      BY <3>1, LInvParts, WorkerHas
    <3> QED
      BY <2>2, <3>2, LInvParts, RunTaskRuns
  <2> QED
    BY <1>2, <2>1, <2>2 DEF Launch
<1> QED
  BY <1>1, <1>2

LEMMA ConsumerRuns ==
  ASSUME LInv, ConsumerStep
  PROVE  /\ SameRuns
         /\ UNCHANGED <<submissions, cancellations>>
<1>1. CASE CancelStep
  <2>1. UNCHANGED task \/ \E t : StopTask(t)
    BY <1>1 DEF CancelStep, CancelAutoCommit, StopperStep, HandOut, ListTasks, StopNext,
         Raise, CancelTakeover
  <2>2. UNCHANGED <<submissions, cancellations>>
    BY <1>1 DEF CancelStep, CancelAutoCommit, StopperStep, HandOut, ListTasks, StopNext,
         Raise, CancelTakeover
  <2> QED
    BY <2>1, <2>2, LInvParts, TasksKept, StopTaskRuns
<1>2. CASE GroupStep
  BY <1>2, TasksKept DEF GroupStep, AutoCommit, Takeover, Crash, WorkerDies
<1> QED
  BY <1>1, <1>2 DEF ConsumerStep

LEMMA StepRuns ==
  ASSUME LInv, [Next]_vars
  PROVE  RunsAdvance
<1>1. TasksTypeOK
  BY LInvParts
<1>2. ASSUME NEW j \in Job, CreateJob(j) \/ CancelJob(j) \/ FireSchedule(j)
      PROVE  UNCHANGED task
  BY <1>2 DEF CreateJob, CancelJob, FireSchedule, nonApiVars
<1>3. ASSUME NEW h \in Handler, ServiceStep(h) \/ GiveUp(h)
      PROVE  UNCHANGED task
  BY <1>3 DEF ServiceStep, GiveUp, nonApiVars
<1>4. ASSUME NEW r \in Replica, WorkerCalls(r)
      PROVE  UNCHANGED task
  BY <1>4, WorkerCallsFor
<1>5. ASSUME NEW r \in Replica, WorkerWorks(r)
      PROVE  RunsAdvance
  BY <1>5, WorkerWorksRuns, SameRunsAdvance DEF WorkerWorks
<1>6. CASE ConsumerStep
  BY <1>6, ConsumerRuns, SameRunsAdvance
<1>7. ASSUME NEW t \in DOMAIN task, ContainerStep(t)
      PROVE  RunsAdvance
  <2>1. CASE ContainerReports(t)
    BY <1>1, <2>1, ReportDoneMoves, MovedAdvances DEF ContainerReports
  <2>2. CASE ContainerRepeats(t)
    BY <1>1, <2>2, ReportAgainMoves, MovedAdvances DEF ContainerRepeats
  <2>3. CASE SparkRuns(t)
    BY <1>1, <2>3, SparkSubmitMoves, MovedAdvances DEF SparkRuns
  <2>4. CASE ContainerEnds(t)
    BY <1>1, <2>4, EndMoves, MovedAdvances DEF ContainerEnds
  <2> QED
    BY <1>7, <2>1, <2>2, <2>3, <2>4 DEF ContainerStep
<1>8. CASE UNCHANGED vars
  BY <1>8, TasksKept, SameRunsAdvance DEF vars
<1> QED
  BY <1>2, <1>3, <1>4, <1>5, <1>6, <1>7, <1>8, TasksKept, SameRunsAdvance DEF Next

LEMMA StepReportsSound ==
  ASSUME LInv, [Next]_vars
  PROVE  ReportsSound'
<1>1. ReportsSound /\ RunsAdvance
  BY StepRuns DEF LInv
<1>2. ASSUME NEW t \in DOMAIN task'
      PROVE  /\ task'[t].pc \in {"starting", "executing"} => task'[t].outcome = "none"
             /\ task'[t].pc = "reporting" => task'[t].outcome # "none"
  <2>1. CASE t \in DOMAIN task
    BY <1>1, <2>1 DEF ReportsSound, RunsAdvance, Advances
  <2>2. CASE t \notin DOMAIN task
    BY <1>1, <1>2, <2>2 DEF RunsAdvance
  <2> QED
    BY <2>1, <2>2
<1> QED
  BY <1>2 DEF ReportsSound

-----------------------------------------------------------------------------
(* Histories *)

LEMMA CallCounts ==
  ASSUME NEW j, NEW st, NEW c, Call(j, st, c), timeouts \in 0..MaxTimeouts
  PROVE  timeouts' \in 0..MaxTimeouts
BY JobLifecycleAssumption DEF Call, TimesOut

LEMMA FailureCounts ==
  ASSUME NEW j \in Job, FailureSeen(j), failures \in [Job -> Nat]
  PROVE  failures' \in [Job -> Nat] /\ repeats' = repeats
BY DEF FailureSeen

LEMMA StepHistoryTypeOK ==
  ASSUME LInv, [Next]_vars
  PROVE  /\ failures' \in [Job -> Nat] /\ repeats' \in [Job -> Nat]
         /\ timeouts' \in 0..MaxTimeouts
<1>1. /\ failures \in [Job -> Nat] /\ repeats \in [Job -> Nat]
      /\ timeouts \in 0..MaxTimeouts
  BY DEF LInv, TypeOK
<1>2. ASSUME NEW j \in Job, CreateJob(j) \/ CancelJob(j) \/ FireSchedule(j)
      PROVE  UNCHANGED historyVars
  BY <1>2 DEF CreateJob, CancelJob, FireSchedule
<1>3. ASSUME NEW h \in Handler, ServiceStep(h)
      PROVE  UNCHANGED historyVars
  BY <1>3 DEF ServiceStep
<1>4. ASSUME NEW h \in Handler, GiveUp(h)
      PROVE  UNCHANGED <<failures, repeats>> /\ timeouts' \in 0..MaxTimeouts
  BY <1>1, <1>4, JobLifecycleAssumption DEF GiveUp, TimesOut
<1>5. ASSUME NEW r \in Replica, WorkerCalls(r)
      PROVE  /\ failures' \in [Job -> Nat] /\ repeats' = repeats
             /\ timeouts' \in 0..MaxTimeouts
  <2>1. PICK j \in Job : j = JobOf(r)
    BY <1>5, WorkerCallsFor
  <2>2. UNCHANGED <<failures, repeats>> \/ FailureSeen(j)
    BY <1>5, <2>1, WorkerCallsFor
  <2>3. timeouts' \in 0..MaxTimeouts
    BY <1>1, <1>5, WorkerCallsFor, CallCounts
  <2> QED
    BY <1>1, <2>2, <2>3, FailureCounts
<1>6. ASSUME NEW r \in Replica, WorkerWorks(r)
      PROVE  UNCHANGED historyVars
  BY <1>6 DEF WorkerWorks
<1>7. CASE ConsumerStep
  BY <1>1, <1>7 DEF ConsumerStep, historyVars
<1>8. ASSUME NEW t \in DOMAIN task, ContainerStep(t)
      PROVE  /\ failures' \in [Job -> Nat] /\ repeats' \in [Job -> Nat]
             /\ timeouts' \in 0..MaxTimeouts
  <2>0. PICK j \in Job : j = task[t].job
    BY LInvParts, TaskRecords DEF Task
  <2>1. CASE ContainerReports(t)
    BY <1>1, <2>1, CallCounts DEF ContainerReports
  <2>2. CASE ContainerRepeats(t)
    <3>1. \/ repeats' = [repeats EXCEPT ![j] = @ + 1]
          \/ repeats' = repeats
      BY <2>0, <2>2 DEF ContainerRepeats
    <3>2. UNCHANGED <<failures, timeouts>>
      BY <2>2 DEF ContainerRepeats
    <3> QED
      BY <1>1, <3>1, <3>2
  <2>3. CASE SparkRuns(t)
    <3>1. \/ FailureSeen(j) /\ UNCHANGED timeouts
          \/ UNCHANGED historyVars
      BY <2>0, <2>3 DEF SparkRuns
    <3> QED
      BY <1>1, <3>1, FailureCounts DEF historyVars
  <2>4. CASE ContainerEnds(t)
    BY <1>1, <2>4 DEF ContainerEnds, historyVars
  <2> QED
    BY <1>8, <2>1, <2>2, <2>3, <2>4 DEF ContainerStep
<1>9. CASE UNCHANGED vars
  BY <1>1, <1>9 DEF vars, historyVars
<1> QED
  BY <1>1, <1>2, <1>3, <1>4, <1>5, <1>6, <1>7, <1>8, <1>9 DEF Next, historyVars

LEMMA StepLInv ==
  ASSUME Callers, LInv, [Next]_vars
  PROVE  LInv'
<1>1. WInv /\ [OrchestratorNext]_orchestratorVars
  BY LInvParts, StepOfOrchestrator
<1>2. WInv'
  BY <1>1, StepWInv
<1> QED
  BY <1>2, StepServiceTypeOK, StepHistoryTypeOK, StepReportsSound
     DEF WInv, LInv, TypeOK

LEMMA InitLInv == Init => LInv
<1> SUFFICES ASSUME Init
             PROVE  LInv
  OBVIOUS
<1>1. ServiceTypeOK
  BY JobServiceAssumption
     DEF Init, ServiceInit, ServiceTypeOK, TopicsInit, TopicsTypeOK, NoRow, Row
<1>2. OrchestratorInit
  BY DEF Init, ServiceInit, OrchestratorInit
<1>3. WInv
  BY <1>2, InitWInv
<1>4. ReportsSound
  BY DEF Init, ConsumersInit, TasksInit, ReportsSound
<1>5. /\ failures \in [Job -> Nat] /\ repeats \in [Job -> Nat]
      /\ timeouts \in 0..MaxTimeouts
  BY JobLifecycleAssumption DEF Init
<1> QED
  BY <1>1, <1>3, <1>4, <1>5 DEF WInv, LInv, TypeOK

\* Types, who is waiting for whom, and what containers have to report.
THEOREM LifecycleCorrect ==
  ASSUME Callers
  PROVE  Spec => []LInv
BY InitLInv, StepLInv, PTL DEF Spec

\* Every variable of the joined control plane keeps its type.
THEOREM LifecycleTypeCorrect ==
  ASSUME Callers
  PROVE  Spec => []TypeOK
<1>1. LInv => TypeOK
  BY DEF LInv
<1> QED
  BY <1>1, LifecycleCorrect, PTL

\* What job-service, its clients, the timeouts and the containers do to the topics
\* and the tasks is what the orchestrator's environment was assumed to do, so that
\* LossBounded, NeverBoth, LaunchesBounded and StopRequestsAccounted hold of the whole.
THEOREM ConsumersImplemented ==
  ASSUME Callers
  PROVE  Spec => OrchestratorSpec
<1>1. Init => OrchestratorInit
  BY DEF Init, ServiceInit, OrchestratorInit
<1>2. LInv /\ [Next]_vars => [OrchestratorNext]_orchestratorVars
  BY LInvParts, StepOfOrchestrator
<1> QED
  BY <1>1, <1>2, LifecycleCorrect, PTL DEF Spec, OrchestratorSpec

\* With all of job-service around them, the consumers are still an at-least-once
\* queue of what was submitted.
THEOREM WholeKeepsQueue ==
  ASSUME Callers
  PROVE  Spec => ImplementsQueue
BY ConsumersImplemented, ConsumersImplementQueue

\* And no cancellation that job-service sent is forgotten by the group that stops tasks.
THEOREM WholeAccountsStops ==
  ASSUME Callers
  PROVE  Spec => []StopsAccounted
BY ConsumersImplemented, StopRequestsAccounted

-----------------------------------------------------------------------------
(* Failures that are known and not yet reported *)

Runs(j) == Cardinality(FailedRuns(j))

LEMMA PutOrTaken ==
  ASSUME NEW S, IsFiniteSet(S), NEW x
  PROVE  /\ Cardinality(S) \in Nat
         /\ Cardinality(S \cup {x}) = IF x \in S THEN Cardinality(S) ELSE Cardinality(S) + 1
         /\ Cardinality(S \ {x}) = IF x \in S THEN Cardinality(S) - 1 ELSE Cardinality(S)
BY FS_CardinalityType, FS_AddElement, FS_RemoveElement

LEMMA FailedFinite ==
  ASSUME NEW s \in Seq(Task), NEW j
  PROVE  LET F == {t \in {u \in DOMAIN s : s[u].job = j} :
                     s[t].pc = "reporting" /\ s[t].outcome = "FAILED"}
         IN  IsFiniteSet(F) /\ Cardinality(F) \in Nat
<1> DEFINE F == {t \in {u \in DOMAIN s : s[u].job = j} :
                   s[t].pc = "reporting" /\ s[t].outcome = "FAILED"}
<1>1. DOMAIN s = 1..Len(s) /\ Len(s) \in Nat
  BY SeqFacts
<1>2. IsFiniteSet(1..Len(s)) /\ F \subseteq 1..Len(s)
  BY <1>1, FS_Interval
<1> HIDE DEF F
<1>3. IsFiniteSet(F) /\ Cardinality(F) \in Nat
  BY <1>2, FS_Subset, FS_CardinalityType
<1> QED
  BY <1>3 DEF F

LEMMA RunsAreNumbers ==
  /\ TasksTypeOK => \A j : IsFiniteSet(FailedRuns(j)) /\ Runs(j) \in Nat
  /\ TasksTypeOK' => \A j : Runs(j)' \in Nat
BY FailedFinite DEF TasksTypeOK, FailedRuns, Tasks, Runs

LEMMA SameFailedRuns ==
  ASSUME SameRuns, NEW j
  PROVE  Runs(j)' = Runs(j)
<1>1. FailedRuns(j)' = FailedRuns(j)
  BY DEF SameRuns, FailedRuns, Tasks
<1> QED
  BY <1>1 DEF Runs

LEMMA MovedRuns ==
  ASSUME NEW t \in DOMAIN task, NEW p, NEW o, TaskBecomes(t, p, o), NEW j
  PROVE  FailedRuns(j)' = IF task[t].job = j /\ p = "reporting" /\ o = "FAILED"
                          THEN FailedRuns(j) \cup {t} ELSE FailedRuns(j) \ {t}
BY DEF TaskBecomes, FailedRuns, Tasks

\* Task t stops to be one that failed, or never was one.
LEMMA MovedOn ==
  ASSUME TasksTypeOK, NEW t \in DOMAIN task, NEW p, NEW o, TaskBecomes(t, p, o),
         ~(p = "reporting" /\ o = "FAILED"), NEW j
  PROVE  /\ Runs(j)' = IF t \in FailedRuns(j) THEN Runs(j) - 1 ELSE Runs(j)
         /\ Runs(j) \in Nat /\ Runs(j)' <= Runs(j)
<1>1. FailedRuns(j)' = FailedRuns(j) \ {t} /\ IsFiniteSet(FailedRuns(j))
  BY MovedRuns, RunsAreNumbers
<1>2. /\ Cardinality(FailedRuns(j) \ {t}) =
           IF t \in FailedRuns(j) THEN Cardinality(FailedRuns(j)) - 1
           ELSE Cardinality(FailedRuns(j))
      /\ Cardinality(FailedRuns(j)) \in Nat
  BY <1>1, PutOrTaken
<1>3. /\ Runs(j)' = IF t \in FailedRuns(j) THEN Runs(j) - 1 ELSE Runs(j)
      /\ Runs(j) \in Nat
  BY <1>1, <1>2 DEF Runs
<1> QED
  BY <1>3

\* Task t fails.
LEMMA MovedToFailed ==
  ASSUME TasksTypeOK, NEW t \in DOMAIN task, task[t].pc # "reporting",
         TaskBecomes(t, "reporting", "FAILED"), NEW j
  PROVE  /\ Runs(j)' = IF task[t].job = j THEN Runs(j) + 1 ELSE Runs(j)
         /\ Runs(j) \in Nat
<1>1. /\ FailedRuns(j)' = IF task[t].job = j THEN FailedRuns(j) \cup {t}
                          ELSE FailedRuns(j) \ {t}
      /\ IsFiniteSet(FailedRuns(j)) /\ t \notin FailedRuns(j)
  BY MovedRuns, RunsAreNumbers DEF FailedRuns
<1>2. Cardinality(FailedRuns(j) \cup {t}) = Runs(j) + 1 /\ FailedRuns(j) \ {t} = FailedRuns(j)
      /\ Runs(j) \in Nat
  BY <1>1, PutOrTaken DEF Runs
<1> QED
  BY <1>1, <1>2 DEF Runs

-----------------------------------------------------------------------------
(* The kinds of steps *)

\* Every failure that a step reports to the service is a new one, or was known.
Backed(k, st) ==
  \A j \in Job :
    Runs(j)' + Reported(j) + (IF j = k /\ st = "FAILED" THEN 1 ELSE 0)
      <= Runs(j) + Reported(j)'

Unheard == \A j \in Job : Runs(j)' + Reported(j) <= Runs(j) + Reported(j)'

OnlyService == UNCHANGED <<task, failures, repeats>>

\* A status is PUT, and arrives or not.
Put(k, st, c) ==
  /\ \/ \E h \in Handler : ReceiveUpdate(h, k, st, c)
     \/ UNCHANGED <<submissions, apiVars>>
  /\ st = "SUCCESS" => Succeeded(k)
  /\ Backed(k, st)

KindOfStep ==
  \/ \E h \in Handler, j \in Job : j \notin ScheduledJob /\ ReceiveCreate(h, j, User) /\ OnlyService
  \/ \E h \in Handler, j \in Job : ReceiveCancel(h, j, User) /\ OnlyService
  \/ \E h \in Handler : (HandlerStep(h) \/ Abort(h) \/ GiveUp(h)) /\ OnlyService
  \/ \E j \in ScheduledJob : FireSchedule(j) /\ OnlyService
  \/ \E k \in Job, st \in Callback, c \in Caller : Put(k, st, c)
  \/ UNCHANGED <<submissions, apiVars>> /\ Unheard

LEMMA ReportedType ==
  /\ LInv => \A j \in Job : Reported(j) \in Nat
  /\ LInv' => \A j \in Job : Reported(j)' \in Nat
BY DEF LInv, TypeOK, Reported

LEMMA FailureReported ==
  ASSUME LInv, NEW k \in Job, FailureSeen(k), NEW j \in Job
  PROVE  Reported(j)' = IF j = k THEN Reported(j) + 1 ELSE Reported(j)
BY DEF LInv, TypeOK, FailureSeen, Reported

LEMMA CallArrives ==
  ASSUME NEW k, NEW st, NEW c, Call(k, st, c), UNCHANGED submissions
  PROVE  \/ \E h \in Handler : ReceiveUpdate(h, k, st, c)
         \/ UNCHANGED <<submissions, apiVars>>
BY DEF Call

LEMMA WorkerPuts ==
  ASSUME LInv, LInv', NEW r \in Replica, WorkerCalls(r)
  PROVE  \E k \in Job, st \in Callback : Put(k, st, r)
<1>1. PICK k \in Job : k = JobOf(r)
  BY WorkerCallsFor
<1>2. \A j \in Job : Runs(j)' = Runs(j) /\ Runs(j) \in Nat
  BY WorkerCallsFor, TasksKept, SameFailedRuns, RunsAreNumbers, LInvParts
<1>3. \A j \in Job : Reported(j) \in Nat /\ Reported(j)' \in Nat
  BY ReportedType
<1>4. CASE Call(k, "PROVISIONING", r) /\ UNCHANGED <<failures, repeats>>
  <2>1. \A j \in Job : Reported(j)' = Reported(j)
    BY <1>4 DEF Reported
  <2>2. Put(k, "PROVISIONING", r)
    BY <1>2, <1>3, <1>4, <2>1, WorkerCallsFor, CallArrives DEF Put, Backed
  <2> QED
    BY <2>2 DEF Callback
<1>5. CASE Call(k, "FAILED", r) /\ FailureSeen(k)
  <2>1. \A j \in Job : Reported(j)' = IF j = k THEN Reported(j) + 1 ELSE Reported(j)
    BY <1>5, FailureReported
  <2>2. Put(k, "FAILED", r)
    BY <1>2, <1>3, <1>5, <2>1, WorkerCallsFor, CallArrives DEF Put, Backed
  <2> QED
    BY <2>2 DEF Callback
<1> QED
  BY <1>1, <1>4, <1>5, WorkerCallsFor

LEMMA ContainerPuts ==
  ASSUME LInv, LInv', NEW t \in DOMAIN task, ContainerReports(t) \/ ContainerRepeats(t)
  PROVE  \E k \in Job, st \in Callback : Put(k, st, t)
<1>1. task[t].pc \in {"starting", "reporting"}
  BY DEF ContainerReports, ContainerRepeats, ReportDone, ReportAgain
<1>2. PICK k \in Job, st \in Callback : k = task[t].job /\ st = ReportOf(t)
  BY <1>1, ReportType
<1>3. /\ st = "FAILED" <=> task[t].pc = "reporting" /\ task[t].outcome = "FAILED"
      /\ st = "SUCCESS" => Succeeded(k)
  BY <1>1, <1>2, ReportType DEF Succeeded, Tasks
<1>4. \A j \in Job : Reported(j) \in Nat /\ Reported(j)' \in Nat /\ Runs(j) \in Nat
  BY ReportedType, RunsAreNumbers, LInvParts
<1>5. UNCHANGED submissions /\ TasksTypeOK
  BY LInvParts DEF ContainerReports, ContainerRepeats, OnlyTasksChange
<1>6. \A j \in Job : t \in FailedRuns(j) <=> (j = k /\ st = "FAILED")
  BY <1>2, <1>3 DEF FailedRuns, Tasks
<1>7. CASE ContainerReports(t)
  <2>1. PICK p \in {"executing", "exited"} : TaskBecomes(t, p, task[t].outcome)
    BY <1>5, <1>7, ReportDoneMoves DEF ContainerReports
  <2>2. \A j \in Job : Runs(j)' = IF j = k /\ st = "FAILED" THEN Runs(j) - 1 ELSE Runs(j)
    BY <1>5, <1>6, <2>1, MovedOn
  <2>3. \A j \in Job : Reported(j)' = Reported(j)
    BY <1>7 DEF ContainerReports, Reported
  <2>4. Backed(k, st)
    BY <1>4, <2>2, <2>3 DEF Backed
  <2> QED
    BY <1>2, <1>3, <1>5, <1>7, <2>4, CallArrives DEF ContainerReports, Put
<1>8. CASE ContainerRepeats(t)
  <2>1. TaskBecomes(t, task[t].pc, task[t].outcome)
    BY <1>5, <1>8, ReportAgainMoves DEF ContainerRepeats
  <2>2. SameRuns
    BY <2>1 DEF TaskBecomes, SameRuns
  <2>3. \A j \in Job : Runs(j)' = Runs(j)
    BY <2>2, SameFailedRuns
  <2>4. /\ failures' = failures
        /\ repeats' = IF st = "FAILED" THEN [repeats EXCEPT ![k] = @ + 1] ELSE repeats
    BY <1>2, <1>8 DEF ContainerRepeats
  <2>5. \A j \in Job :
          Reported(j)' = IF j = k /\ st = "FAILED" THEN Reported(j) + 1 ELSE Reported(j)
    BY <2>4 DEF LInv, TypeOK, Reported
  <2>6. Backed(k, st)
    BY <1>4, <2>3, <2>5 DEF Backed
  <2> QED
    BY <1>2, <1>3, <1>8, <2>6 DEF ContainerRepeats, Put
<1> QED
  BY <1>7, <1>8

LEMMA UnheardRuns ==
  ASSUME LInv, LInv', NEW t \in DOMAIN task, SparkRuns(t) \/ ContainerEnds(t)
  PROVE  Unheard
<1>1. \A j \in Job : /\ Reported(j) \in Nat /\ Reported(j)' \in Nat
                   /\ Runs(j) \in Nat /\ Runs(j)' \in Nat
  BY ReportedType, RunsAreNumbers DEF LInv, TypeOK, OrchestratorTypeOK
<1>2. TasksTypeOK
  BY LInvParts
<1>3. CASE ContainerEnds(t)
  <2>1. \A j \in Job : Runs(j)' <= Runs(j)
    BY <1>2, <1>3, EndMoves, MovedOn DEF ContainerEnds
  <2>2. \A j \in Job : Reported(j)' = Reported(j)
    BY <1>3 DEF ContainerEnds, historyVars, Reported
  <2> QED
    BY <1>1, <2>1, <2>2 DEF Unheard
<1>4. CASE SparkRuns(t)
  <2>1. PICK o \in {"SUCCESS", "FAILED"} :
          task[t].pc = "executing" /\ TaskBecomes(t, "reporting", o)
    BY <1>2, <1>4, SparkSubmitMoves DEF SparkRuns
  <2>2. PICK k \in Job : k = task[t].job
    BY <1>2, TaskRecords DEF Task
  <2>3. CASE o = "FAILED"
    <3>1. \A j \in Job : Runs(j)' = IF j = k THEN Runs(j) + 1 ELSE Runs(j)
      BY <1>2, <2>1, <2>2, <2>3, MovedToFailed
    <3>2. FailureSeen(k)
      BY <1>4, <2>1, <2>2, <2>3 DEF SparkRuns, TaskBecomes
    <3>3. \A j \in Job : Reported(j)' = IF j = k THEN Reported(j) + 1 ELSE Reported(j)
      BY <3>2, FailureReported
    <3> QED
      BY <1>1, <3>1, <3>3 DEF Unheard
  <2>4. CASE o = "SUCCESS"
    <3>1. \A j \in Job : Runs(j)' <= Runs(j)
      BY <1>2, <2>1, <2>4, MovedOn
    <3>2. \A j \in Job : Reported(j)' = Reported(j)
      BY <1>4, <2>1, <2>4 DEF SparkRuns, TaskBecomes, historyVars, Reported
    <3> QED
      BY <1>1, <3>1, <3>2 DEF Unheard
  <2> QED
    BY <2>1, <2>3, <2>4
<1> QED
  BY <1>3, <1>4

LEMMA StepKinds ==
  ASSUME Callers, LInv, LInv', [Next]_vars
  PROVE  KindOfStep
<1>1. (\A r \in Replica : r \in Caller) /\ (\A t \in DOMAIN task : t \in Caller)
  <2>1. DOMAIN task \subseteq Nat
    BY LInvParts, SeqFacts DEF TasksTypeOK
  <2> QED
    BY <2>1 DEF Callers
<1>2. ASSUME NEW j \in Job, CreateJob(j) \/ CancelJob(j) \/ FireSchedule(j)
      PROVE  KindOfStep
  BY <1>2 DEF CreateJob, CancelJob, FireSchedule, nonApiVars, historyVars, OnlyService, KindOfStep
<1>3. ASSUME NEW h \in Handler, ServiceStep(h) \/ GiveUp(h)
      PROVE  KindOfStep
  BY <1>3 DEF ServiceStep, GiveUp, nonApiVars, historyVars, OnlyService, KindOfStep
<1>4. ASSUME NEW r \in Replica, WorkerCalls(r)
      PROVE  KindOfStep
  BY <1>1, <1>4, WorkerPuts DEF KindOfStep
<1>5. ASSUME SameRuns, UNCHANGED <<submissions, apiVars, failures, repeats>>
      PROVE  KindOfStep
  <2>1. \A j \in Job : Runs(j)' = Runs(j) /\ Reported(j)' = Reported(j)
                       /\ Runs(j) \in Nat /\ Reported(j) \in Nat
    BY <1>5, SameFailedRuns, ReportedType, RunsAreNumbers, LInvParts DEF Reported
  <2> QED
    BY <1>5, <2>1 DEF KindOfStep, Unheard
<1>6. ASSUME NEW r \in Replica, WorkerWorks(r)
      PROVE  KindOfStep
  BY <1>5, <1>6, WorkerWorksRuns DEF WorkerWorks, Poll, Launch, Bury, historyVars
<1>7. CASE ConsumerStep
  <2>1. UNCHANGED submissions
    BY <1>7, ConsumerRuns
  <2> QED
    BY <1>5, <1>7, <2>1, ConsumerRuns DEF ConsumerStep, historyVars
<1>8. ASSUME NEW t \in DOMAIN task, ContainerStep(t)
      PROVE  KindOfStep
  <2>1. CASE ContainerReports(t) \/ ContainerRepeats(t)
    BY <1>1, <2>1, ContainerPuts DEF KindOfStep
  <2>2. CASE SparkRuns(t) \/ ContainerEnds(t)
    <3>1. UNCHANGED <<submissions, apiVars>>
      BY <2>2 DEF SparkRuns, ContainerEnds, OnlyTasksChange
    <3> QED
      BY <2>2, <3>1, UnheardRuns DEF KindOfStep
  <2> QED
    BY <1>8, <2>1, <2>2 DEF ContainerStep
<1>9. CASE UNCHANGED vars
  BY <1>5, <1>9, TasksKept DEF vars, historyVars
<1> QED
  BY <1>2, <1>3, <1>4, <1>6, <1>7, <1>8, <1>9 DEF Next

-----------------------------------------------------------------------------
(* job-service keeps its retry invariant: nothing it relies on is touched by *)
(* a schedule that fires, a caller that gives up, or a request that is lost.  *)

LEMMA GiveUpKeeps ==
  ASSUME ServiceTypeOK, NEW h \in Handler, GiveUp(h)
  PROVE  /\ OnlySession(h) /\ Busy(h)
         /\ \A f \in {"pc", "op", "job", "status", "old", "new"} :
              handler'[h][f] = handler[h][f]
         /\ UNCHANGED <<submissions, row, requeues>>
<1>1. handler[h] \in Request
  BY BusyRequest DEF GiveUp
<1> QED
  BY <1>1 DEF GiveUp, OnlySession, ServiceTypeOK, Request

LEMMA StepRetry ==
  ASSUME Callers, LInv, LInv', RetryInvariant, KindOfStep
  PROVE  RetryInvariant'
<1>1. ServiceTypeOK /\ ServiceTypeOK' /\ User \in Caller
  BY DEF LInv, TypeOK, Callers
<1>2. ASSUME NEW h \in Handler, HandlerStep(h) \/ Abort(h)
      PROVE  RetryInvariant'
  BY <1>1, <1>2, HandlerStepKeepsRetry, AbortKeepsRetry
<1>3. ASSUME NEW h \in Handler, GiveUp(h)
      PROVE  RetryInvariant'
  <2>1. RequestBacked(handler[h]) /\ GiveUp(h)
    BY <1>3 DEF RetryInvariant, GiveUp
  <2>2. RequestBacked(handler[h])'
    BY <1>1, <2>1, GiveUpKeeps DEF RequestBacked
  <2> QED
    BY <1>1, <1>3, <2>2, GiveUpKeeps, NothingSent, OneSessionSuffices
<1>4. ASSUME NEW h \in Handler, NEW j \in Job, NEW c \in Caller,
             \/ ReceiveCreate(h, j, c) \/ ReceiveCancel(h, j, c)
             \/ \E st \in Callback : ReceiveUpdate(h, j, st, c)
      PROVE  RetryInvariant'
  BY <1>1, <1>4, ReceiveKeepsRetry DEF Receive
<1>5. CASE UNCHANGED apiVars
  BY <1>5 DEF apiVars, RetryInvariant, RetryWithinBudget, RetryBacked,
              DeadAfterAllRetries, Busy, RequestBacked
<1> QED
  BY <1>1, <1>2, <1>3, <1>4, <1>5 DEF KindOfStep, Put, FireSchedule

\* So does its ledger.
LEMMA StepLedger ==
  ASSUME Callers, LInv, RetryInvariant, LedgerInvariant, KindOfStep
  PROVE  LedgerInvariant' /\ [Ledger!Next]_Ledger!ledgerVars
<1>1. ServiceTypeOK /\ User \in Caller
  BY DEF LInv, TypeOK, Callers
<1>2. UNCHANGED <<row, requeues>> => UNCHANGED Ledger!ledgerVars
  BY DEF Ledger!ledgerVars
<1>3. ASSUME NEW h \in Handler, HandlerStep(h) \/ Abort(h)
      PROVE  LedgerInvariant' /\ [Ledger!Next]_Ledger!ledgerVars
  BY <1>1, <1>2, <1>3, HandlerStepRecords, AbortRecords
<1>4. ASSUME NEW h \in Handler, GiveUp(h)
      PROVE  LedgerInvariant' /\ [Ledger!Next]_Ledger!ledgerVars
  <2>1. /\ OnlySession(h) /\ Busy(h) /\ UNCHANGED <<row, requeues>>
        /\ handler'[h].pc = handler[h].pc /\ handler'[h].op = handler[h].op
        /\ handler'[h].job = handler[h].job
        /\ handler'[h].old = handler[h].old /\ handler'[h].new = handler[h].new
    BY <1>1, <1>4, GiveUpKeeps
  <2>2. RequestRecorded(handler[h])'
    BY <2>1 DEF RequestRecorded, LedgerInvariant
  <2>3. handler'[h].op = "create" =>
          \A g \in Handler \ {h} :
            Busy(g) /\ handler[g].op = "create" => handler[g].job # handler'[h].job
    BY <2>1 DEF LedgerInvariant
  <2> QED
    BY <1>1, <1>2, <2>1, <2>2, <2>3, SessionRecords
<1>5. ASSUME NEW h \in Handler, NEW j \in Job, NEW c \in Caller,
             \/ ReceiveCreate(h, j, c) \/ ReceiveCancel(h, j, c)
             \/ \E st \in Callback : ReceiveUpdate(h, j, st, c)
      PROVE  LedgerInvariant' /\ [Ledger!Next]_Ledger!ledgerVars
  BY <1>1, <1>2, <1>5, ReceiveRecords DEF Receive
<1>6. CASE UNCHANGED apiVars
  BY <1>2, <1>6 DEF apiVars, LedgerInvariant, Busy, RequestRecorded
<1> QED
  BY <1>1, <1>3, <1>4, <1>5, <1>6 DEF KindOfStep, Put, FireSchedule

\* No step but job-service's own changes the topic of cancellations.
LEMMA OnlyServiceCancels ==
  ASSUME LInv, [Next]_vars
  PROVE  UNCHANGED cancellations \/ \E h \in Handler : HandlerStep(h)
<1>1. ASSUME NEW j \in Job, CreateJob(j) \/ CancelJob(j) \/ FireSchedule(j)
      PROVE  UNCHANGED cancellations
  BY <1>1 DEF CreateJob, CancelJob, FireSchedule, ReceiveCreate, ReceiveCancel, Accept
<1>2. ASSUME NEW h \in Handler, ServiceStep(h) \/ GiveUp(h)
      PROVE  UNCHANGED cancellations \/ HandlerStep(h)
  BY <1>2 DEF ServiceStep, Abort, GiveUp
<1>3. ASSUME NEW r \in Replica, WorkerCalls(r) \/ WorkerWorks(r)
      PROVE  UNCHANGED cancellations
  BY <1>3 DEF WorkerCalls, WorkerWorks, PutProvisioning, PutArn, PutFailed,
                    Poll, Launch, Bury
<1>4. CASE ConsumerStep
  BY <1>4, ConsumerRuns
<1>5. ASSUME NEW t \in DOMAIN task, ContainerStep(t)
      PROVE  UNCHANGED cancellations
  BY <1>5 DEF ContainerStep, ContainerReports, ContainerRepeats, SparkRuns,
                    ContainerEnds, OnlyTasksChange, ReceiveUpdate, Accept
<1>6. CASE UNCHANGED vars
  BY <1>6 DEF vars
<1> QED
  BY <1>1, <1>2, <1>3, <1>4, <1>5, <1>6 DEF Next

\* With a healthy Kafka every row keeps its events.
LEMMA StepEvents ==
  ASSUME Callers, LInv, LInv', RetryInvariant, EventsInvariant, [Next]_vars
  PROVE  EventsInvariant'
<1>1. /\ ServiceTypeOK /\ ServiceTypeOK' /\ User \in Caller /\ KindOfStep
      /\ TopicsTypeOK
  BY StepKinds DEF LInv, TypeOK, Callers, ServiceTypeOK
<1>2. CASE KafkaMayFail
  BY <1>2 DEF EventsInvariant, QueuedHasEvents, CancelledHasEvent
<1>3. CASE ~KafkaMayFail
  <2>1. ASSUME NEW h \in Handler, HandlerStep(h) \/ Abort(h)
        PROVE  EventsInvariant'
    BY <1>1, <1>3, <2>1, HandlerStepKeepsEvents, ReplyKeepsEvents DEF Abort
  <2>2. ASSUME NEW h \in Handler, GiveUp(h)
        PROVE  EventsInvariant'
    <3>1. /\ Busy(h) /\ OnlySession(h) /\ UNCHANGED <<submissions, cancellations, row>>
          /\ handler'[h].pc = handler[h].pc /\ handler'[h].op = handler[h].op
          /\ handler'[h].job = handler[h].job
          /\ handler'[h].old = handler[h].old /\ handler'[h].new = handler[h].new
      BY <1>1, <2>2, GiveUpKeeps DEF GiveUp
    <3>2. EventsOnTopic(handler[h])'
      BY <1>3, <3>1 DEF EventsInvariant, EventsOnTopic, Submitted
    <3> QED
      BY <1>1, <1>3, <3>1, <3>2, EventsKept, EventsOfOneSession
  <2>3. ASSUME NEW h \in Handler, NEW j \in Job, NEW c \in Caller,
               \/ ReceiveCreate(h, j, c) \/ ReceiveCancel(h, j, c)
               \/ \E st \in Callback : ReceiveUpdate(h, j, st, c)
        PROVE  EventsInvariant'
    BY <1>1, <1>3, <2>3, ReceiveKeepsEvents DEF Receive
  <2>4. CASE UNCHANGED <<submissions, cancellations, apiVars>>
    BY <1>3, <2>4 DEF apiVars, EventsInvariant, QueuedHasEvents, CancelledHasEvent,
                      Submitted, Busy, EventsOnTopic
  <2>5. ASSUME NEW j \in ScheduledJob, FireSchedule(j)
        PROVE  EventsInvariant'
    <3>1. /\ j \in Job /\ submissions' = Append(submissions, j)
          /\ UNCHANGED <<cancellations, apiVars>>
      BY <2>5, JobLifecycleAssumption DEF FireSchedule
    <3>2. \A i \in Job : /\ Sent(i)' = IF i = j THEN Sent(i) + 1 ELSE Sent(i)
                         /\ Sent(i) \in Nat
      BY <1>1, <3>1, AppendCounts, SentIsNumber
    <3>3. EventsGrow
      BY <3>1, <3>2 DEF EventsGrow, StopSent
    <3>4. \A i \in Job : RowHasEvents(i)'
      BY <1>1, <1>3, <3>1, <3>3, RowsOfInvariant, RowsKeepEvents DEF apiVars
    <3>5. \A x \in Request : EventsOnTopic(x) => EventsOnTopic(x)'
      BY <1>1, <3>3, OnTopicStays
    <3>6. ASSUME NEW h \in Handler, Busy(h)'
          PROVE  EventsOnTopic(handler[h])'
      <4>1. handler' = handler /\ Busy(h)
        BY <3>1, <3>6 DEF apiVars, Busy
      <4>2. handler[h] \in Request /\ EventsOnTopic(handler[h])
        BY <1>1, <1>3, <4>1, BusyRequest, RowsOfInvariant
      <4> QED
        BY <3>5, <4>1, <4>2 DEF EventsOnTopic
    <3> QED
      BY <1>3, <3>4, <3>6, RowsOfInvariant
  <2> QED
    BY <1>1, <2>1, <2>2, <2>3, <2>4, <2>5, OnlyServiceCancels
       DEF KindOfStep, Put, FireSchedule
<1> QED
  BY <1>2, <1>3

-----------------------------------------------------------------------------
(* What open requests are about to store and to send *)

LEMMA SuccessStays ==
  ASSUME LInv, [Next]_vars, NEW j, Succeeded(j)
  PROVE  Succeeded(j)'
<1>1. PICK t \in DOMAIN task : task[t].job = j /\ task[t].outcome = "SUCCESS"
  BY DEF Succeeded, Tasks
<1>2. ReportsSound /\ Advances(t)
  BY StepRuns DEF LInv, RunsAdvance
<1>3. t \in DOMAIN task' /\ task'[t].job = j /\ task'[t].outcome = "SUCCESS"
  BY <1>1, <1>2 DEF Advances, ReportsSound
<1> QED
  BY <1>3 DEF Succeeded, Tasks

SuccessGrows == \A j \in Job : Succeeded(j) => Succeeded(j)'

Creates(h) == Busy(h) /\ handler[h].op = "create"

\* The rows' part of the invariant, and the sessions' part.
RowSound(j) ==
  /\ row[j] # NoRow => row[j].status # "none"
  /\ Sent(j) <= 1 + requeues[j]
  /\ j \in ScheduledJob => row[j] = NoRow /\ Sent(j) <= 1
  /\ row[j].status = "SUCCESS" => Succeeded(j)

SessionsSound ==
  /\ \A h \in Handler : Busy(h) => CallSound(handler[h])
  /\ \A g, h \in Handler :
       Creates(g) /\ Creates(h) /\ handler[g].job = handler[h].job => g = h

AllSound == SessionsSound /\ \A j \in Job : RowSound(j)

LEMMA SoundParts == AllSound => SuccessJustified
BY DEF AllSound, RowSound, SuccessJustified, Succeeded

LEMMA CallStaysSound ==
  ASSUME SuccessGrows, NEW q \in Request, CallSound(q),
         row[q.job] # NoRow => row'[q.job] # NoRow,
         q.op = "create" => /\ row'[q.job] = row[q.job]
                            /\ Submitted(q.job) = {} => Submitted(q.job)' = {}
  PROVE  CallSound(q)'
<1>1. q.job \in Job
  BY DEF Request
<1>2. Succeeded(q.job) => Succeeded(q.job)'
  BY <1>1 DEF SuccessGrows
<1> QED
  BY <1>2 DEF CallSound

\* A step of session h: what it must leave to the jobs that others create.
CreatesElsewhere(h, j) == \E g \in Handler : g # h /\ Creates(g) /\ handler[g].job = j

LEMMA SessionSuffices ==
  ASSUME ServiceTypeOK, SuccessGrows, SessionsSound, NEW h \in Handler, OnlySession(h),
         \A j \in Job : row[j] # NoRow => row'[j] # NoRow,
         \A j \in Job : CreatesElsewhere(h, j) =>
           row'[j] = row[j] /\ (Submitted(j) = {} => Submitted(j)' = {}),
         Busy(h)' => CallSound(handler[h])',
         Creates(h)' => ~CreatesElsewhere(h, handler'[h].job)
  PROVE  SessionsSound'
<1>1. ASSUME NEW g \in Handler, g # h, Busy(g)'
      PROVE  CallSound(handler[g])'
  <2>1. handler'[g] = handler[g] /\ Busy(g)
    BY <1>1 DEF OnlySession, Busy
  <2>2. PICK q \in Request : q = handler[g]
    BY <2>1, BusyRequest
  <2>3. CallSound(q) /\ q.job \in Job
    BY <2>1, <2>2 DEF SessionsSound, Request
  <2>4. q.op = "create" => CreatesElsewhere(h, q.job)
    BY <1>1, <2>1, <2>2 DEF CreatesElsewhere, Creates
  <2>5. CallSound(q)'
    BY <2>3, <2>4, CallStaysSound
  <2> QED
    BY <2>1, <2>2, <2>5 DEF CallSound
<1>2. \A g \in Handler : g # h => (Creates(g)' <=> Creates(g)) /\ handler'[g] = handler[g]
  BY DEF OnlySession, Creates, Busy
<1>3. ASSUME NEW g \in Handler, NEW k \in Handler, Creates(g)', Creates(k)',
             handler'[g].job = handler'[k].job
      PROVE  g = k
  BY <1>2, <1>3 DEF SessionsSound, CreatesElsewhere
<1> QED
  BY <1>1, <1>3 DEF SessionsSound

LEMMA RowsStaySound ==
  ASSUME SuccessGrows, UNCHANGED <<submissions, row, requeues>>, NEW j \in Job, RowSound(j)
  PROVE  RowSound(j)'
<1>1. Sent(j)' = Sent(j) /\ (Succeeded(j) => Succeeded(j)')
  BY DEF Sent, Submitted, SuccessGrows
<1> QED
  BY <1>1 DEF RowSound

\* Nothing is sent and nothing stored: only the session's own request matters.
LEMMA QuietSession ==
  ASSUME ServiceTypeOK, SuccessGrows, AllSound, NEW h \in Handler, OnlySession(h),
         UNCHANGED <<submissions, row, requeues>>,
         Busy(h)' => CallSound(handler[h])',
         Creates(h)' => ~CreatesElsewhere(h, handler'[h].job)
  PROVE  AllSound'
<1>1. \A j : Submitted(j)' = Submitted(j)
  BY DEF Submitted
<1> QED
  BY <1>1, RowsStaySound, SessionSuffices DEF AllSound

LEMMA ReplySound ==
  ASSUME ServiceTypeOK, SuccessGrows, AllSound, NEW h \in Handler, Reply(h),
         UNCHANGED <<submissions, row, requeues>>
  PROVE  AllSound'
<1>1. ~Busy(h)' /\ OnlySession(h)
  BY DEF Reply, Busy, OnlySession, ServiceTypeOK
<1>2. ~Creates(h)'
  BY <1>1 DEF Creates
<1> QED
  BY <1>1, <1>2, QuietSession

LEMMA ReceiveSound ==
  ASSUME ServiceTypeOK, SuccessGrows, AllSound, NEW h \in Handler, NEW j \in Job, NEW c,
         \/ j \notin ScheduledJob /\ ReceiveCreate(h, j, c)
         \/ ReceiveCancel(h, j, c)
         \/ \E st \in Callback : ReceiveUpdate(h, j, st, c) /\ (st = "SUCCESS" => Succeeded(j))
  PROVE  AllSound'
<1>1. OnlySession(h) /\ UNCHANGED <<submissions, row, requeues>>
  BY DEF ReceiveCreate, ReceiveCancel, ReceiveUpdate, Accept, OnlySession, ServiceTypeOK
<1>2. Succeeded(j) => Succeeded(j)'
  BY DEF SuccessGrows
<1>3. CASE j \notin ScheduledJob /\ ReceiveCreate(h, j, c)
  <2>1. Fresh(j) /\ Submitted(j)' = {}
    BY <1>1, <1>3 DEF ReceiveCreate, Fresh, Submitted
  <2>2. /\ handler'[h].op = "create" /\ handler'[h].job = j /\ handler'[h].pc = "send"
        /\ handler'[h].old = NoRow /\ handler'[h].new.status = "PENDING"
    BY <1>3 DEF ReceiveCreate, Accept, ServiceTypeOK
  <2>3. CallSound(handler[h])'
    BY <1>1, <1>3, <2>1, <2>2 DEF CallSound, Fresh
  <2>4. ~CreatesElsewhere(h, j)
    BY <2>1 DEF CreatesElsewhere, Creates, Fresh
  <2> QED
    BY <1>1, <2>2, <2>3, <2>4, QuietSession
<1>4. CASE \/ ReceiveCancel(h, j, c)
           \/ \E st \in Callback : ReceiveUpdate(h, j, st, c) /\ (st = "SUCCESS" => Succeeded(j))
  <2>1. /\ handler'[h].op \in {"update", "cancel"} /\ handler'[h].job = j
        /\ handler'[h].pc = "select" /\ handler'[h].new = NoRow
        /\ handler'[h].op = "update" /\ handler'[h].status = "SUCCESS" => Succeeded(j)
    BY <1>4 DEF ReceiveCancel, ReceiveUpdate, Accept, ServiceTypeOK
  <2>2. CallSound(handler[h])'
    BY <1>2, <2>1 DEF CallSound, NoRow
  <2>3. ~Creates(h)'
    BY <2>1 DEF Creates
  <2> QED
    BY <1>1, <2>2, <2>3, QuietSession
<1> QED
  BY <1>3, <1>4

\* Publishing for job j, which no other session is creating.
LEMMA SendSound ==
  ASSUME ServiceTypeOK, ServiceTypeOK', SuccessGrows, AllSound, NEW h \in Handler,
         OnlySession(h), UNCHANGED row, NEW j \in Job,
         ~CreatesElsewhere(h, j), j \notin ScheduledJob,
         submissions' = Append(submissions, j) \/ UNCHANGED submissions,
         Sent(j)' <= 1 + requeues'[j], \A i \in Job : i # j => requeues'[i] = requeues[i],
         CallSound(handler[h])', handler'[h].job = j
  PROVE  AllSound'
<1>1. TopicsTypeOK
  BY DEF ServiceTypeOK
<1>2. ASSUME NEW i \in Job, i # j
      PROVE  Sent(i)' = Sent(i) /\ (Submitted(i) = {} => Submitted(i)' = {})
  <2>1. CASE UNCHANGED submissions
    BY <2>1 DEF Sent, Submitted
  <2>2. CASE submissions' = Append(submissions, j)
    <3>1. Sent(i)' = Sent(i)
      BY <1>1, <1>2, <2>2, AppendCounts
    <3>2. Submitted(i)' = Submitted(i)
      <4>1. /\ Len(submissions) \in Nat /\ Len(submissions') = Len(submissions) + 1
            /\ submissions'[Len(submissions) + 1] = j
            /\ \A n \in 1..Len(submissions) : submissions'[n] = submissions[n]
        BY <1>1, <2>2 DEF TopicsTypeOK
      <4> QED
        BY <1>2, <4>1 DEF Submitted
    <3> QED
      BY <3>1, <3>2
  <2> QED
    BY <2>1, <2>2
<1>3. \A i \in Job : RowSound(i) => RowSound(i)'
  BY <1>2 DEF RowSound, SuccessGrows
<1>4. SessionsSound'
  BY <1>2, SessionSuffices DEF AllSound
<1> QED
  BY <1>3, <1>4 DEF AllSound

LEMMA HandlerStepSound ==
  ASSUME ServiceTypeOK, ServiceTypeOK', SuccessGrows, RetryInvariant, AllSound,
         NEW h \in Handler, HandlerStep(h)
  PROVE  AllSound'
<1> DEFINE q == handler[h]
           p == handler'[h]
<1>1. Busy(h) /\ q \in Request
  BY BusyRequest DEF HandlerStep, SelectForUpdate, SelectForCancel, SendCreate,
                     SendRetry, SendCancel, Commit
<1>0. PICK j \in Job : j = q.job
  BY <1>1 DEF Request
<1> USE <1>0
<1>2. CallSound(q) /\ RequestBacked(q) /\ RowSound(j) /\ (Succeeded(j) => Succeeded(j)')
  BY <1>1 DEF AllSound, SessionsSound, RetryInvariant, SuccessGrows
<1>3. /\ row[j] \in Row /\ q.old \in Row /\ q.new \in Row /\ requeues[j] \in Nat
      /\ Sent(j) \in Nat /\ Sent(j)' \in Nat /\ TopicsTypeOK
  BY <1>1, SentIsNumber DEF ServiceTypeOK, Request
<1>4. ASSUME NEW pc \in {"send", "commit"}, NEW o \in Row, NEW n \in Row, Continue(h, pc, o, n)
      PROVE  /\ OnlySession(h) /\ p.pc = pc /\ p.old = o /\ p.new = n
             /\ p.op = q.op /\ p.job = j /\ p.status = q.status
  BY <1>1, <1>4 DEF Continue, OnlySession, ServiceTypeOK, Request
<1>5. CASE SelectForUpdate(h)
  <2>1. UNCHANGED <<row, submissions, requeues>> /\ q.op = "update" /\ q.pc = "select"
    BY <1>5 DEF SelectForUpdate
  <2>2. q.status \in Callback
    BY <1>2, <2>1 DEF RequestBacked
  <2> DEFINE n == Updated(j, row[j], q.status)
             pc == IF MayRetry(j, row[j], q.status) THEN "send" ELSE "commit"
  <2>3. CASE Reply(h)
    BY <2>1, <2>3, ReplySound
  <2>4. CASE row[j] # NoRow /\ Continue(h, pc, row[j], n)
    <3>1. n \in Row
      BY <1>3, <2>2, UpdatedType DEF Callback, JobStatus
    <3>2. /\ n.status \in {"QUEUED", "DEAD", q.status} /\ n.status # "none"
          /\ n.status = "SUCCESS" => q.status = "SUCCESS"
      BY <1>3, <2>2 DEF Updated, Callback, Row
    <3>3. pc = "send" => q.status = "FAILED"
      BY DEF MayRetry
    <3>4. /\ OnlySession(h) /\ p.pc = pc /\ p.old = row[j] /\ p.new = n
          /\ p.op = "update" /\ p.job = j /\ p.status = q.status
      BY <1>3, <1>4, <2>1, <2>4, <3>1
    <3> HIDE DEF n, pc
    <3>5. CallSound(handler[h])'
      BY <1>2, <2>1, <2>4, <3>2, <3>3, <3>4 DEF CallSound
    <3>6. ~Creates(h)'
      BY <3>4 DEF Creates
    <3> QED
      BY <2>1, <3>4, <3>5, <3>6, QuietSession
  <2> QED
    BY <1>5, <2>3, <2>4 DEF SelectForUpdate
<1>6. CASE SelectForCancel(h)
  <2>1. UNCHANGED <<row, submissions, requeues>> /\ q.op = "cancel"
    BY <1>6 DEF SelectForCancel
  <2> DEFINE n == [row[j] EXCEPT !.status = "CANCELLED"]
  <2>2. CASE Reply(h)
    BY <2>1, <2>2, ReplySound
  <2>3. CASE row[j] # NoRow /\ Continue(h, "send", row[j], n)
    <3>1. n \in Row /\ n.status = "CANCELLED"
      BY <1>3 DEF Row, JobStatus
    <3>2. OnlySession(h) /\ p.new = n /\ p.op = "cancel" /\ p.job = j
      BY <1>3, <1>4, <2>1, <2>3, <3>1
    <3>3. CallSound(handler[h])'
      BY <2>1, <2>3, <3>1, <3>2 DEF CallSound
    <3>4. ~Creates(h)'
      BY <3>2 DEF Creates
    <3> QED
      BY <2>1, <3>2, <3>3, <3>4, QuietSession
  <2> QED
    BY <1>6, <2>2, <2>3 DEF SelectForCancel
<1>7. CASE SendCreate(h)
  <2>1. /\ q.op = "create" /\ q.pc = "send" /\ UNCHANGED <<row, requeues>>
        /\ submissions' = Append(submissions, j) \/ UNCHANGED submissions
    BY <1>7 DEF SendCreate, SendTo
  <2>2. row[j] = NoRow /\ j \notin ScheduledJob /\ Submitted(j) = {}
    BY <1>2, <2>1 DEF CallSound
  <2>3. Sent(j) = 0
    BY <2>2, FS_EmptySet DEF Sent
  <2>4. Sent(j)' <= 1 + requeues'[j]
    <3>1. Sent(j)' = Sent(j) + 1 \/ Sent(j)' = Sent(j)
      BY <1>3, <2>1, AppendCounts DEF Sent, Submitted
    <3> QED
      BY <1>3, <2>1, <2>3, <3>1
  <2>5. PICK n \in Row : /\ n \in {q.new, [status |-> "QUEUED", retry |-> 0]}
                         /\ Continue(h, "commit", NoRow, n)
    BY <1>3, <1>7 DEF SendCreate, Row, JobStatus
  <2>6. n.status \notin {"SUCCESS", "DEAD", "none"} \/ n = q.new
    BY <2>5
  <2>7. NoRow \in Row
    BY DEF NoRow, Row
  <2>8. /\ OnlySession(h) /\ p.new = n /\ p.op = "create" /\ p.job = j /\ p.pc = "commit"
        /\ p.old = NoRow
    BY <1>4, <2>1, <2>5, <2>7
  <2>9. CallSound(handler[h])'
    BY <1>2, <2>1, <2>2, <2>6, <2>8 DEF CallSound
  <2>10. ~CreatesElsewhere(h, j)
    BY <1>1, <2>1 DEF CreatesElsewhere, AllSound, SessionsSound, Creates
  <2> QED
    BY <2>1, <2>2, <2>4, <2>8, <2>9, <2>10, SendSound
<1>8. CASE SendRetry(h)
  <2>1. /\ q.op = "update" /\ q.pc = "send" /\ UNCHANGED row
        /\ submissions' = Append(submissions, j) \/ UNCHANGED submissions
        /\ requeues' = [requeues EXCEPT ![j] = @ + 1]
        /\ Continue(h, "commit", q.old, q.new)
    BY <1>8 DEF SendRetry, SendTo
  <2>2. row[j] # NoRow /\ j \notin ScheduledJob
    BY <1>2, <2>1 DEF CallSound, RowSound
  <2>3. /\ requeues'[j] = requeues[j] + 1
        /\ \A i \in Job : i # j => requeues'[i] = requeues[i]
    BY <1>3, <2>1 DEF ServiceTypeOK
  <2>4. Sent(j)' <= 1 + requeues'[j]
    <3>1. Sent(j)' = Sent(j) + 1 \/ Sent(j)' = Sent(j)
      BY <1>3, <2>1, AppendCounts DEF Sent, Submitted
    <3>2. Sent(j) <= 1 + requeues[j]
      BY <1>2 DEF RowSound
    <3> QED
      BY <1>3, <2>3, <3>1, <3>2
  <2>5. /\ OnlySession(h) /\ p.new = q.new /\ p.op = "update" /\ p.job = j /\ p.pc = "commit"
        /\ p.status = q.status
    BY <1>3, <1>4, <2>1
  <2>6. CallSound(handler[h])'
    BY <1>2, <2>1, <2>2, <2>5 DEF CallSound
  <2>7. ~CreatesElsewhere(h, j)
    BY <2>2 DEF CreatesElsewhere, AllSound, SessionsSound, Creates, CallSound
  <2> QED
    BY <2>1, <2>2, <2>3, <2>4, <2>5, <2>6, <2>7, SendSound
<1>9. CASE SendCancel(h)
  <2>1. /\ q.op = "cancel" /\ q.pc = "send" /\ UNCHANGED <<row, submissions, requeues>>
        /\ Continue(h, "commit", q.old, q.new)
    BY <1>9 DEF SendCancel
  <2>2. OnlySession(h) /\ p.new = q.new /\ p.op = "cancel" /\ p.job = j /\ p.pc = "commit"
    BY <1>3, <1>4, <2>1
  <2>3. CallSound(handler[h])'
    BY <1>2, <2>1, <2>2 DEF CallSound
  <2>4. ~Creates(h)'
    BY <2>2 DEF Creates
  <2> QED
    BY <2>1, <2>2, <2>3, <2>4, QuietSession
<1>10. CASE Commit(h)
  <2> DEFINE m == Merge(row[j], q.old, q.new)
  <2>1. /\ UNCHANGED <<submissions, requeues>> /\ Reply(h) /\ q.pc = "commit"
        /\ row' = [row EXCEPT ![j] = m]
    BY <1>10 DEF Commit
  <2>2. m.status \in {q.new.status, row[j].status}
    BY DEF Merge
  <2>3. row'[j] = m /\ (\A i \in Job : i # j => row'[i] = row[i])
        /\ (\A i : Submitted(i)' = Submitted(i) /\ Sent(i)' = Sent(i))
    BY <2>1 DEF ServiceTypeOK, Submitted, Sent
  <2>4. q.new.status # "none" /\ (q.new.status = "SUCCESS" => Succeeded(j))
    BY <1>2, <2>1 DEF CallSound
  <2>5. m.status # "none"
    <3>1. CASE q.op = "create"
      <4>1. q.old.status = "none"
        BY <1>2, <3>1 DEF CallSound, NoRow
      <4> QED
        BY <2>4, <4>1 DEF Merge
    <3>2. CASE q.op # "create"
      BY <1>2, <2>1, <2>2, <2>4, <3>2 DEF CallSound, RowSound
    <3> QED
      BY <3>1, <3>2
  <2>6. m # NoRow /\ (m.status = "SUCCESS" => Succeeded(j))
    BY <1>2, <2>2, <2>4, <2>5 DEF NoRow, RowSound
  <2>7. j \notin ScheduledJob
    BY <1>2, <2>1 DEF CallSound, RowSound
  <2> HIDE DEF m
  <2>8. RowSound(j)'
    BY <1>2, <2>1, <2>3, <2>5, <2>6, <2>7 DEF RowSound
  <2>9. \A i \in Job : i # j => RowSound(i)'
    BY <2>1, <2>3 DEF AllSound, RowSound, SuccessGrows
  <2>10. ~Busy(h)' /\ OnlySession(h)
    BY <2>1 DEF Reply, Busy, OnlySession, ServiceTypeOK
  <2>11. ~Creates(h)'
    BY <2>10 DEF Creates
  <2>12. ~CreatesElsewhere(h, j)
    <3>1. ASSUME NEW g \in Handler, g # h, Creates(g), handler[g].job = j
          PROVE  FALSE
      <4>1. row[j] = NoRow
        BY <3>1 DEF AllSound, SessionsSound, Creates, CallSound
      <4>2. q.op = "create"
        BY <1>2, <2>1, <4>1 DEF CallSound
      <4> QED
        BY <1>1, <3>1, <4>2 DEF AllSound, SessionsSound, Creates
    <3> QED
      BY <3>1 DEF CreatesElsewhere
  <2>13. SessionsSound'
    BY <2>3, <2>6, <2>10, <2>11, <2>12, SessionSuffices DEF AllSound
  <2> QED
    BY <2>8, <2>9, <2>13 DEF AllSound
<1> QED
  BY <1>5, <1>6, <1>7, <1>8, <1>9, <1>10 DEF HandlerStep

LEMMA StepSound ==
  ASSUME Callers, LInv, LInv', RetryInvariant, AllSound, [Next]_vars
  PROVE  AllSound'
<1>1. ServiceTypeOK /\ ServiceTypeOK' /\ SuccessGrows
  BY SuccessStays DEF LInv, TypeOK, SuccessGrows
<1>2. KindOfStep
  BY StepKinds
<1>3. ASSUME NEW h \in Handler, HandlerStep(h)
      PROVE  AllSound'
  BY <1>1, <1>3, HandlerStepSound
<1>4. ASSUME NEW h \in Handler, Abort(h)
      PROVE  AllSound'
  BY <1>1, <1>4, ReplySound DEF Abort
<1>5. ASSUME NEW h \in Handler, GiveUp(h)
      PROVE  AllSound'
  <2>1. PICK q \in Request : q = handler[h]
    BY <1>1, <1>5, BusyRequest DEF GiveUp
  <2>2. CallSound(q) /\ q.job \in Job
    BY <1>5, <2>1 DEF GiveUp, AllSound, SessionsSound, Request
  <2>3. \A j : Submitted(j)' = Submitted(j)
    BY <1>1, <1>5, GiveUpKeeps DEF Submitted
  <2>4. CallSound(q)'
    BY <1>1, <1>5, <2>2, <2>3, GiveUpKeeps, CallStaysSound
  <2>5. CallSound(handler[h])'
    BY <1>1, <1>5, <2>1, <2>4, GiveUpKeeps DEF CallSound
  <2>6. Creates(h)' => ~CreatesElsewhere(h, handler'[h].job)
    BY <1>1, <1>5, GiveUpKeeps DEF Creates, CreatesElsewhere, AllSound, SessionsSound
  <2> QED
    BY <1>1, <1>5, <2>5, <2>6, GiveUpKeeps, QuietSession
<1>6. ASSUME NEW j \in ScheduledJob, FireSchedule(j)
      PROVE  AllSound'
  <2>1. /\ submissions' = Append(submissions, j) /\ Fresh(j) /\ j \in Job
        /\ UNCHANGED <<row, handler, requeues>> /\ TopicsTypeOK
    BY <1>1, <1>6, JobLifecycleAssumption DEF FireSchedule, apiVars, ServiceTypeOK
  <2>2. Submitted(j) = {} /\ \A h \in Handler : Busy(h) => handler[h].job # j
    BY <2>1 DEF Fresh, Submitted
  <2>3. Sent(j) = 0
    BY <2>2, FS_EmptySet DEF Sent
  <2>4. Sent(j)' = 1
    <3>1. Sent(j)' = Sent(j) + 1
      BY <2>1, AppendCounts
    <3> QED
      BY <2>3, <3>1
  <2>5. \A i : i # j => Sent(i)' = Sent(i)
    BY <2>1, AppendCounts
  <2>6. \A i : i # j => Submitted(i)' = Submitted(i)
    <3>1. /\ Len(submissions) \in Nat /\ Len(submissions') = Len(submissions) + 1
          /\ submissions'[Len(submissions) + 1] = j
          /\ \A n \in 1..Len(submissions) : submissions'[n] = submissions[n]
      BY <2>1 DEF TopicsTypeOK
    <3> QED
      BY <3>1 DEF Submitted
  <2>7. requeues[j] \in Nat
    BY <1>1, <2>1 DEF ServiceTypeOK
  <2>8. \A i \in Job : RowSound(i)'
    BY <1>1, <2>1, <2>4, <2>5, <2>7 DEF AllSound, RowSound, SuccessGrows
  <2>9. ASSUME NEW h \in Handler, Busy(h)'
        PROVE  CallSound(handler[h])'
    <3>1. Busy(h) /\ handler'[h] = handler[h]
      BY <2>1, <2>9 DEF Busy
    <3>2. PICK q \in Request : q = handler[h]
      BY <1>1, <3>1, BusyRequest
    <3>3. CallSound(q) /\ q.job # j /\ q.job \in Job
      BY <2>2, <3>1, <3>2 DEF AllSound, SessionsSound, Request
    <3>4. CallSound(q)'
      BY <1>1, <2>1, <2>6, <3>3, CallStaysSound
    <3> QED
      BY <3>1, <3>2, <3>4 DEF CallSound
  <2>10. SessionsSound'
    BY <2>1, <2>9 DEF AllSound, SessionsSound, Creates, Busy
  <2> QED
    BY <2>8, <2>10 DEF AllSound
<1>7. ASSUME NEW h \in Handler, NEW j \in Job, NEW c,
             \/ j \notin ScheduledJob /\ ReceiveCreate(h, j, c)
             \/ ReceiveCancel(h, j, c)
             \/ \E st \in Callback : ReceiveUpdate(h, j, st, c) /\ (st = "SUCCESS" => Succeeded(j))
      PROVE  AllSound'
  BY <1>1, <1>7, ReceiveSound
<1>8. CASE UNCHANGED <<submissions, apiVars>>
  <2>1. UNCHANGED <<submissions, row, requeues, handler>>
    BY <1>8 DEF apiVars
  <2>2. \A i : Submitted(i)' = Submitted(i)
    BY <2>1 DEF Submitted
  <2>3. ASSUME NEW h \in Handler, Busy(h)'
        PROVE  CallSound(handler[h])'
    <3>1. Busy(h) /\ handler'[h] = handler[h]
      BY <2>1, <2>3 DEF Busy
    <3>2. PICK q \in Request : q = handler[h]
      BY <1>1, <3>1, BusyRequest
    <3>3. CallSound(q)
      BY <3>1, <3>2 DEF AllSound, SessionsSound
    <3>4. CallSound(q)'
      BY <1>1, <2>1, <2>2, <3>3, CallStaysSound
    <3> QED
      BY <3>1, <3>2, <3>4 DEF CallSound
  <2>4. SessionsSound'
    BY <2>1, <2>3 DEF AllSound, SessionsSound, Creates, Busy
  <2> QED
    BY <1>1, <2>1, <2>4, RowsStaySound DEF AllSound
<1> QED
  BY <1>2, <1>3, <1>4, <1>5, <1>6, <1>7, <1>8 DEF KindOfStep, Put

-----------------------------------------------------------------------------
(* Failures *)

Calls(j) == Cardinality(FailedCalls(j))

LEMMA CallsAreNumbers ==
  \A j : /\ IsFiniteSet(FailedCalls(j)) /\ Calls(j) \in Nat
         /\ IsFiniteSet(FailedCalls(j)') /\ Calls(j)' \in Nat
BY JobServiceAssumption, FS_Subset, FS_CardinalityType DEF FailedCalls, Calls

\* What the other sessions report, they still report.
LEMMA OtherCalls ==
  ASSUME NEW h \in Handler, OnlySession(h), NEW j
  PROVE  /\ FailedCalls(j)' \subseteq FailedCalls(j) \cup {h}
         /\ FailedCalls(j) \subseteq FailedCalls(j)' \cup {h}
         /\ h \in FailedCalls(j) <=> Busy(h) /\ FailedCall(handler[h], j)
         /\ h \in FailedCalls(j)' <=> Busy(h)' /\ FailedCall(handler[h], j)'
         /\ Dead(j)' => \/ Dead(j) \/ row'[j].status = "DEAD"
                        \/ Busy(h)' /\ Dying(handler[h], j)'
<1>1. \A g \in Handler : g # h => handler'[g] = handler[g] /\ (Busy(g)' <=> Busy(g))
  BY DEF OnlySession, Busy
<1>2. \A g \in Handler : g # h => (g \in FailedCalls(j)' <=> g \in FailedCalls(j))
  BY <1>1 DEF FailedCalls, FailedCall
<1>3. FailedCalls(j)' \subseteq Handler /\ FailedCalls(j) \subseteq Handler
  BY DEF FailedCalls
<1>4. /\ h \in FailedCalls(j) <=> Busy(h) /\ FailedCall(handler[h], j)
      /\ h \in FailedCalls(j)' <=> Busy(h)' /\ FailedCall(handler[h], j)'
  BY DEF FailedCalls, FailedCall
<1>5. Dead(j)' => \/ Dead(j) \/ row'[j].status = "DEAD"
                  \/ Busy(h)' /\ Dying(handler[h], j)'
  BY <1>1 DEF Dead, Dying
<1> QED
  BY <1>2, <1>3, <1>4, <1>5

LEMMA CallsCounted ==
  ASSUME NEW h \in Handler, OnlySession(h), NEW j
  PROVE  Calls(j)' + (IF h \in FailedCalls(j) THEN 1 ELSE 0)
           = Calls(j) + (IF h \in FailedCalls(j)' THEN 1 ELSE 0)
<1> DEFINE rest == FailedCalls(j) \ {h}
<1>1. rest = FailedCalls(j)' \ {h}
  BY OtherCalls
<1>2. /\ Cardinality(rest) = IF h \in FailedCalls(j) THEN Cardinality(FailedCalls(j)) - 1
                             ELSE Cardinality(FailedCalls(j))
      /\ Cardinality(FailedCalls(j)) \in Nat
  BY CallsAreNumbers, PutOrTaken
<1>3. /\ Cardinality(FailedCalls(j)' \ {h}) =
           IF h \in FailedCalls(j)' THEN Cardinality(FailedCalls(j)') - 1
           ELSE Cardinality(FailedCalls(j)')
      /\ Cardinality(FailedCalls(j)') \in Nat
  BY CallsAreNumbers, PutOrTaken
<1>4. Calls(j) = Cardinality(FailedCalls(j)) /\ Calls(j)' = Cardinality(FailedCalls(j)')
  BY DEF Calls
<1> HIDE DEF rest
<1> QED
  BY <1>1, <1>2, <1>3, <1>4

Deaths(j) == IF Dead(j) THEN 1 ELSE 0

LEMMA SpentIs ==
  /\ LInv => \A j \in Job :
       /\ Spent(j) = requeues[j] + Calls(j) + Deaths(j)
       /\ requeues[j] \in Nat /\ Calls(j) \in Nat /\ Deaths(j) \in {0, 1}
  /\ LInv' => \A j \in Job :
       /\ Spent(j)' = requeues'[j] + Calls(j)' + Deaths(j)'
       /\ requeues'[j] \in Nat /\ Calls(j)' \in Nat /\ Deaths(j)' \in {0, 1}
BY CallsAreNumbers DEF LInv, TypeOK, ServiceTypeOK, Spent, Calls, Deaths

LEMMA SpendsLess ==
  ASSUME LInv, LInv', NEW h \in Handler, OnlySession(h), NEW i \in Job,
         \/ /\ requeues'[i] = requeues[i] /\ (Dead(i)' => Dead(i))
            /\ h \in FailedCalls(i)' => h \in FailedCalls(i)
         \/ requeues'[i] = requeues[i] /\ h \in FailedCalls(i) /\ h \notin FailedCalls(i)'
         \/ /\ requeues'[i] = requeues[i] + 1 /\ (Dead(i)' => Dead(i))
            /\ h \in FailedCalls(i) /\ h \notin FailedCalls(i)'
  PROVE  Spent(i)' <= Spent(i)
<1>1. Calls(i)' + (IF h \in FailedCalls(i) THEN 1 ELSE 0)
        = Calls(i) + (IF h \in FailedCalls(i)' THEN 1 ELSE 0)
  BY CallsCounted
<1>2. (Dead(i)' => Dead(i)) => Deaths(i)' <= Deaths(i)
  BY DEF Deaths
<1>3. /\ Spent(i) = requeues[i] + Calls(i) + Deaths(i)
      /\ requeues[i] \in Nat /\ Calls(i) \in Nat /\ Deaths(i) \in {0, 1}
      /\ Spent(i)' = requeues'[i] + Calls(i)' + Deaths(i)'
      /\ requeues'[i] \in Nat /\ Calls(i)' \in Nat /\ Deaths(i)' \in {0, 1}
  BY SpentIs
<1> QED
  BY <1>1, <1>2, <1>3

\* A request arrives: only a FAILED report counts, and once.
LEMMA ReceiveSpends ==
  ASSUME LInv, LInv', NEW h \in Handler, NEW k, NEW c, NEW i \in Job
  PROVE  /\ ReceiveCreate(h, k, c) \/ ReceiveCancel(h, k, c) => Spent(i)' <= Spent(i)
         /\ \A st : ReceiveUpdate(h, k, st, c) =>
              Spent(i)' <= Spent(i) + (IF i = k /\ st = "FAILED" THEN 1 ELSE 0)
<1>1. ServiceTypeOK
  BY LInvParts
<1>2. ASSUME NEW op, NEW pc, NEW st, NEW new, Accept(h, op, k, c, pc, st, new), pc # "commit"
      PROVE  /\ OnlySession(h) /\ requeues' = requeues /\ (Dead(i)' => Dead(i))
             /\ h \notin FailedCalls(i)
             /\ h \in FailedCalls(i)' => op = "update" /\ i = k /\ st = "FAILED"
  <2>1. /\ OnlySession(h) /\ requeues' = requeues /\ row' = row /\ ~Busy(h)
        /\ handler'[h].pc = pc /\ handler'[h].op = op /\ handler'[h].job = k
        /\ handler'[h].status = st
    BY <1>1, <1>2 DEF Accept, OnlySession, Busy, ServiceTypeOK
  <2>2. Dead(i)' => Dead(i)
    BY <1>2, <2>1, OtherCalls DEF Dying, Dead
  <2>3. h \notin FailedCalls(i)
    BY <2>1, OtherCalls
  <2>4. h \in FailedCalls(i)' => op = "update" /\ i = k /\ st = "FAILED"
    BY <2>1, OtherCalls DEF FailedCall
  <2> QED
    BY <2>1, <2>2, <2>3, <2>4
<1>3. /\ Spent(i) = requeues[i] + Calls(i) + Deaths(i)
      /\ requeues[i] \in Nat /\ Calls(i) \in Nat /\ Deaths(i) \in {0, 1}
      /\ Spent(i)' = requeues'[i] + Calls(i)' + Deaths(i)'
      /\ requeues'[i] \in Nat /\ Calls(i)' \in Nat /\ Deaths(i)' \in {0, 1}
  BY SpentIs
<1>4. CASE ReceiveCreate(h, k, c) \/ ReceiveCancel(h, k, c)
  <2>1. /\ OnlySession(h) /\ requeues' = requeues /\ (Dead(i)' => Dead(i))
        /\ h \notin FailedCalls(i)'
    BY <1>2, <1>4 DEF ReceiveCreate, ReceiveCancel
  <2>2. Spent(i)' <= Spent(i)
    BY <2>1, SpendsLess
  <2>3. \A st : ~ReceiveUpdate(h, k, st, c)
    BY <1>1, <1>4 DEF ReceiveCreate, ReceiveCancel, ReceiveUpdate, Accept, ServiceTypeOK
  <2> QED
    BY <2>2, <2>3
<1>5. ASSUME NEW st, ReceiveUpdate(h, k, st, c)
      PROVE  Spent(i)' <= Spent(i) + (IF i = k /\ st = "FAILED" THEN 1 ELSE 0)
  <2>1. /\ OnlySession(h) /\ requeues' = requeues /\ (Dead(i)' => Dead(i))
        /\ h \notin FailedCalls(i)
        /\ h \in FailedCalls(i)' => i = k /\ st = "FAILED"
    BY <1>2, <1>5 DEF ReceiveUpdate
  <2>2. Calls(i)' <= Calls(i) + (IF i = k /\ st = "FAILED" THEN 1 ELSE 0)
    BY <1>3, <2>1, CallsCounted
  <2>3. Deaths(i)' <= Deaths(i)
    BY <2>1 DEF Deaths
  <2> QED
    BY <1>3, <2>1, <2>2, <2>3
<1> QED
  BY <1>4, <1>5

\* job-service spends a failure it was told of on one re-enqueue, on the death of
\* the job, or on nothing.
LEMMA ServiceSpends ==
  ASSUME LInv, LInv', RetryInvariant, AllSound, NEW h \in Handler,
         HandlerStep(h) \/ Abort(h) \/ GiveUp(h), NEW i \in Job
  PROVE  Spent(i)' <= Spent(i)
<1> DEFINE q == handler[h]
           p == handler'[h]
<1>1. ServiceTypeOK /\ Busy(h)
  BY LInvParts DEF HandlerStep, SelectForUpdate, SelectForCancel, SendCreate,
                   SendRetry, SendCancel, Commit, Abort, GiveUp
<1>2. q \in Request /\ CallSound(q) /\ RequestBacked(q)
  BY <1>1, BusyRequest DEF AllSound, SessionsSound, RetryInvariant
<1>0. PICK j \in Job : j = q.job
  BY <1>2 DEF Request
<1> USE <1>0
<1>3. /\ row[j] \in Row /\ q.old \in Row /\ q.new \in Row /\ requeues \in [Job -> Nat]
  BY <1>1, <1>2 DEF ServiceTypeOK, Request
<1>4. ASSUME NEW pc, NEW o, NEW n, Continue(h, pc, o, n)
      PROVE  /\ OnlySession(h) /\ p.pc = pc /\ p.new = n
             /\ p.op = q.op /\ p.job = j /\ p.status = q.status
  BY <1>1, <1>2, <1>4 DEF Continue, OnlySession, ServiceTypeOK, Request
<1>5. ASSUME Reply(h), UNCHANGED requeues, row'[i].status = "DEAD" => Dead(i)
      PROVE  Spent(i)' <= Spent(i)
  <2>1. ~Busy(h)' /\ OnlySession(h)
    BY <1>1, <1>5 DEF Reply, Busy, OnlySession, ServiceTypeOK
  <2>2. h \notin FailedCalls(i)' /\ (Dead(i)' => Dead(i))
    BY <1>5, <2>1, OtherCalls
  <2> QED
    BY <1>5, <2>1, <2>2, SpendsLess
<1>6. ASSUME UNCHANGED row, OnlySession(h), ~Dying(handler[h], i)'
      PROVE  Dead(i)' => Dead(i)
  BY <1>6, OtherCalls DEF Dead
<1>7. CASE SelectForUpdate(h)
  <2>1. UNCHANGED <<row, requeues>> /\ q.op = "update" /\ q.pc = "select"
    BY <1>7 DEF SelectForUpdate
  <2>2. q.status \in Callback
    BY <1>2, <2>1 DEF RequestBacked
  <2> DEFINE n == Updated(j, row[j], q.status)
             pc == IF MayRetry(j, row[j], q.status) THEN "send" ELSE "commit"
  <2>3. CASE Reply(h)
    BY <1>5, <2>1, <2>3 DEF Dead
  <2>4. CASE Continue(h, pc, row[j], n)
    <3>1. /\ OnlySession(h) /\ p.pc = pc /\ p.new = n
          /\ p.op = "update" /\ p.job = j /\ p.status = q.status
      BY <1>4, <2>1, <2>4
    <3>2. pc = "commit" /\ n.status = "DEAD" => q.status = "FAILED"
      BY <1>3, <2>2 DEF Updated, Callback, Row
    <3> HIDE DEF n, pc
    <3>3. h \in FailedCalls(i) <=> i = j /\ q.status = "FAILED"
      BY <1>1, <2>1, OtherCalls, <3>1 DEF FailedCall
    <3>4. h \in FailedCalls(i)' => h \in FailedCalls(i) /\ pc # "commit"
      BY <3>1, <3>3, OtherCalls DEF FailedCall
    <3>5. CASE Dying(handler[h], i)'
      <4>1. h \in FailedCalls(i) /\ h \notin FailedCalls(i)'
        BY <3>1, <3>2, <3>3, <3>4, <3>5 DEF Dying
      <4> QED
        BY <2>1, <3>1, <4>1, SpendsLess
    <3>6. CASE ~Dying(handler[h], i)'
      BY <1>6, <2>1, <3>1, <3>4, <3>6, SpendsLess
    <3> QED
      BY <3>5, <3>6
  <2> QED
    BY <1>7, <2>3, <2>4 DEF SelectForUpdate
<1>8. CASE SelectForCancel(h) \/ SendCreate(h) \/ SendCancel(h)
  <2>1. UNCHANGED <<row, requeues>> /\ q.op # "update"
    BY <1>8 DEF SelectForCancel, SendCreate, SendCancel
  <2>2. CASE Reply(h)
    BY <1>5, <2>1, <2>2 DEF Dead
  <2>3. CASE ~Reply(h)
    <3>1. PICK pc \in {"send", "commit"}, o \in Row, n \in Row :
            Continue(h, pc, o, n) /\ n.status # "DEAD"
      <4>1. CASE SelectForCancel(h)
        <5>1. [row[j] EXCEPT !.status = "CANCELLED"] \in Row
              /\ [row[j] EXCEPT !.status = "CANCELLED"].status = "CANCELLED"
          BY <1>3 DEF Row, JobStatus
        <5> QED
          BY <1>3, <2>3, <4>1, <5>1 DEF SelectForCancel
      <4>2. CASE SendCreate(h) \/ SendCancel(h)
        <5>1. q.new.status # "DEAD"
          BY <1>2, <2>1 DEF CallSound
        <5>2. NoRow \in Row /\ [status |-> "QUEUED", retry |-> 0] \in Row
          BY DEF NoRow, Row, JobStatus
        <5> QED
          BY <1>3, <4>2, <5>1, <5>2 DEF SendCreate, SendCancel
      <4> QED
        BY <1>8, <4>1, <4>2
    <3>2. OnlySession(h) /\ p.new = n /\ p.op # "update"
      BY <1>4, <2>1, <3>1
    <3>3. h \notin FailedCalls(i)' /\ ~Dying(handler[h], i)'
      BY <3>1, <3>2, OtherCalls DEF FailedCall, Dying
    <3> QED
      BY <1>6, <2>1, <3>2, <3>3, SpendsLess
  <2> QED
    BY <2>2, <2>3
<1>9. CASE SendRetry(h)
  <2>1. /\ UNCHANGED row /\ q.op = "update" /\ q.pc = "send"
        /\ Continue(h, "commit", q.old, q.new)
        /\ requeues' = [requeues EXCEPT ![j] = @ + 1]
    BY <1>9 DEF SendRetry
  <2>2. q.status = "FAILED" /\ q.new.status = "QUEUED"
    BY <1>2, <2>1 DEF CallSound, RequestBacked
  <2>3. OnlySession(h) /\ p.pc = "commit" /\ p.new = q.new
    BY <1>4, <2>1
  <2>4. h \notin FailedCalls(i)' /\ ~Dying(handler[h], i)'
    BY <2>2, <2>3, OtherCalls DEF FailedCall, Dying
  <2>5. i = j => h \in FailedCalls(i)
    BY <1>1, <2>1, <2>2, <2>3, OtherCalls DEF FailedCall
  <2>6. requeues'[i] = IF i = j THEN requeues[i] + 1 ELSE requeues[i]
    BY <1>3, <2>1
  <2> QED
    BY <1>6, <2>1, <2>3, <2>4, <2>5, <2>6, SpendsLess
<1>10. CASE Commit(h)
  <2>1. /\ UNCHANGED requeues /\ Reply(h) /\ q.pc = "commit"
        /\ row' = [row EXCEPT ![j] = Merge(row[j], q.old, q.new)]
    BY <1>10 DEF Commit
  <2>2. Merge(row[j], q.old, q.new).status \in {q.new.status, row[j].status}
    BY DEF Merge
  <2>3. row'[i].status = "DEAD" => row[i].status = "DEAD" \/ (i = j /\ q.new.status = "DEAD")
    BY <1>1, <2>1, <2>2 DEF ServiceTypeOK
  <2>4. row'[i].status = "DEAD" => Dead(i)
    BY <1>1, <2>1, <2>3 DEF Dead, Dying
  <2> QED
    BY <1>5, <2>1, <2>4
<1>11. CASE Abort(h)
  BY <1>5, <1>11 DEF Abort, Dead
<1>12. CASE GiveUp(h)
  <2>1. /\ OnlySession(h) /\ UNCHANGED <<row, requeues>>
        /\ p.pc = q.pc /\ p.op = q.op /\ p.job = q.job /\ p.status = q.status /\ p.new = q.new
    BY <1>1, <1>12, GiveUpKeeps
  <2>2. h \in FailedCalls(i)' => h \in FailedCalls(i)
    BY <1>1, <2>1, OtherCalls DEF FailedCall
  <2>3. Dead(i)' => Dead(i)
    BY <1>1, <2>1, OtherCalls DEF Dead, Dying
  <2> QED
    BY <2>1, <2>2, <2>3, SpendsLess
<1> QED
  BY <1>7, <1>8, <1>9, <1>10, <1>11, <1>12 DEF HandlerStep

LEMMA StepFailures ==
  ASSUME Callers, LInv, LInv', RetryInvariant, AllSound, FailuresInvariant, [Next]_vars
  PROVE  FailuresInvariant'
<1> SUFFICES ASSUME NEW i \in Job
             PROVE  Spent(i)' + Runs(i)' <= Reported(i)'
  BY DEF FailuresInvariant, Runs
<1>1. /\ Spent(i) \in Nat /\ Spent(i)' \in Nat /\ Runs(i) \in Nat /\ Runs(i)' \in Nat
      /\ Reported(i) \in Nat /\ Reported(i)' \in Nat
  <2>1. /\ Spent(i) = requeues[i] + Calls(i) + Deaths(i)
        /\ requeues[i] \in Nat /\ Calls(i) \in Nat /\ Deaths(i) \in {0, 1}
        /\ Spent(i)' = requeues'[i] + Calls(i)' + Deaths(i)'
        /\ requeues'[i] \in Nat /\ Calls(i)' \in Nat /\ Deaths(i)' \in {0, 1}
    BY SpentIs
  <2>2. Spent(i) \in Nat /\ Spent(i)' \in Nat
    BY <2>1
  <2>3. TasksTypeOK /\ TasksTypeOK'
    BY DEF LInv, TypeOK, OrchestratorTypeOK
  <2> QED
    BY <2>2, <2>3, ReportedType, RunsAreNumbers
<1>2. Spent(i) + Runs(i) <= Reported(i)
  BY DEF FailuresInvariant, Runs
<1>3. KindOfStep
  BY StepKinds
<1>4. CASE OnlyService /\ Spent(i)' <= Spent(i)
  <2>1. Runs(i)' = Runs(i) /\ Reported(i)' = Reported(i)
    BY <1>4 DEF OnlyService, Runs, FailedRuns, Tasks, Reported
  <2> QED
    BY <1>1, <1>2, <1>4, <2>1
<1>5. UNCHANGED <<submissions, apiVars>> => Spent(i)' = Spent(i)
  BY DEF apiVars, Spent, FailedCalls, FailedCall, Dead, Dying, Busy
<1>6. ASSUME NEW k \in Job, NEW st \in Callback, NEW c, Put(k, st, c)
      PROVE  Spent(i)' + Runs(i)' <= Reported(i)'
  <2>1. Spent(i)' <= Spent(i) + (IF i = k /\ st = "FAILED" THEN 1 ELSE 0)
    <3>1. ASSUME NEW h \in Handler, ReceiveUpdate(h, k, st, c)
          PROVE  Spent(i)' <= Spent(i) + (IF i = k /\ st = "FAILED" THEN 1 ELSE 0)
      BY <3>1, ReceiveSpends
    <3>2. CASE UNCHANGED <<submissions, apiVars>>
      BY <1>1, <1>5, <3>2
    <3> QED
      BY <1>6, <3>1, <3>2 DEF Put
  <2>2. Runs(i)' + Reported(i) + (IF i = k /\ st = "FAILED" THEN 1 ELSE 0)
          <= Runs(i) + Reported(i)'
    BY <1>6 DEF Put, Backed
  <2> QED
    BY <1>1, <1>2, <2>1, <2>2
<1>7. CASE UNCHANGED <<submissions, apiVars>> /\ Unheard
  <2>1. Runs(i)' + Reported(i) <= Runs(i) + Reported(i)'
    BY <1>7 DEF Unheard
  <2> QED
    BY <1>1, <1>2, <1>5, <1>7, <2>1
<1>8. ASSUME NEW j \in ScheduledJob, FireSchedule(j)
      PROVE  Spent(i)' <= Spent(i)
  <2>1. Spent(i)' = Spent(i)
    BY <1>8 DEF FireSchedule, apiVars, Spent, FailedCalls, FailedCall, Dead, Dying, Busy
  <2> QED
    BY <1>1, <2>1
<1>9. ASSUME NEW h \in Handler, HandlerStep(h) \/ Abort(h) \/ GiveUp(h)
      PROVE  Spent(i)' <= Spent(i)
  BY <1>9, ServiceSpends
<1>10. ASSUME NEW h \in Handler, NEW j \in Job,
              ReceiveCreate(h, j, User) \/ ReceiveCancel(h, j, User)
       PROVE  Spent(i)' <= Spent(i)
  BY <1>10, ReceiveSpends
<1> QED
  BY <1>3, <1>4, <1>6, <1>7, <1>8, <1>9, <1>10 DEF KindOfStep

-----------------------------------------------------------------------------
(* Theorems *)

ControlInv == LInv /\ RetryInvariant /\ AllSound /\ FailuresInvariant

LEMMA InitControl == Init => RetryInvariant /\ AllSound /\ FailuresInvariant
<1> SUFFICES ASSUME Init
             PROVE  RetryInvariant /\ AllSound /\ FailuresInvariant
  OBVIOUS
<1>1. /\ submissions = << >> /\ row = [j \in Job |-> NoRow] /\ handler = [h \in Handler |-> Idle]
      /\ requeues = [j \in Job |-> 0] /\ task = << >>
      /\ failures = [j \in Job |-> 0] /\ repeats = [j \in Job |-> 0]
  BY DEF Init, ServiceInit, TopicsInit, ConsumersInit, TasksInit
<1>2. \A h \in Handler : ~Busy(h)
  BY <1>1 DEF Busy
<1>3. ASSUME NEW j \in Job
      PROVE  Sent(j) = 0 /\ Spent(j) = 0 /\ Runs(j) = 0 /\ Reported(j) = 0
  <2>1. Submitted(j) = {} /\ FailedCalls(j) = {} /\ FailedRuns(j) = {}
    BY <1>1, <1>2 DEF Submitted, FailedCalls, FailedRuns, Tasks
  <2>2. ~Dead(j)
    BY <1>1, <1>2 DEF Dead, NoRow
  <2>3. Cardinality({}) = 0
    BY FS_EmptySet
  <2>4. Sent(j) = 0 /\ Runs(j) = 0 /\ Spent(j) = 0
    BY <1>1, <2>1, <2>2, <2>3 DEF Sent, Runs, Spent
  <2> QED
    BY <1>1, <2>4 DEF Reported
<1>4. RetryInvariant
  BY <1>1, <1>2, MaxRetriesType
     DEF RetryInvariant, RetryWithinBudget, RetryBacked, DeadAfterAllRetries, NoRow
<1>5. AllSound
  BY <1>1, <1>2, <1>3 DEF AllSound, SessionsSound, RowSound, Creates, NoRow
<1>6. ASSUME NEW j \in Job
      PROVE  Spent(j) + Cardinality(FailedRuns(j)) <= Reported(j)
  <2>1. Spent(j) = 0 /\ Cardinality(FailedRuns(j)) = 0 /\ Reported(j) = 0
    BY <1>3 DEF Runs
  <2> QED
    BY <2>1
<1>7. FailuresInvariant
  BY <1>6 DEF FailuresInvariant
<1> QED
  BY <1>4, <1>5, <1>7

\* The inductive invariant: the rows and the open requests of job-service, the
\* topics, the workers and the containers, taken together.
THEOREM ControlCorrect ==
  ASSUME Callers
  PROVE  Spec => []ControlInv
<1>1. Init => ControlInv
  BY InitLInv, InitControl DEF ControlInv
<1>2. ControlInv /\ [Next]_vars => ControlInv'
  BY StepLInv, StepKinds, StepRetry, StepSound, StepFailures DEF ControlInv
<1> QED
  BY <1>1, <1>2, PTL DEF Spec

\* With the orchestrator's and the containers' callbacks, repeated, late or lost, and
\* the schedules that fire, table jobs keeps the ledger's promise.
THEOREM WholeKeepsLedger ==
  ASSUME Callers
  PROVE  Spec => ImplementsLedger
<1>1. Init => Ledger!Init /\ LedgerInvariant
  BY DEF Init, ServiceInit, Ledger!Init, Ledger!NoRow, NoRow, LedgerInvariant, Busy
<1>2. ControlInv /\ ControlInv' /\ LedgerInvariant /\ [Next]_vars
        => LedgerInvariant' /\ [Ledger!Next]_Ledger!ledgerVars
  BY StepKinds, StepLedger DEF ControlInv
<1> QED
  BY <1>1, <1>2, ControlCorrect, PTL DEF Spec, ImplementsLedger, Ledger!Spec

\* With a healthy Kafka no row of the control plane waits for an event that was
\* never sent, whichever callbacks interleave.
THEOREM WholeHasEvents ==
  ASSUME Callers
  PROVE  Spec => [](QueuedHasEvents /\ CancelledHasEvent)
<1>1. Init => EventsInvariant
  BY DEF Init, ServiceInit, EventsInvariant, QueuedHasEvents, CancelledHasEvent, NoRow, Busy
<1>2. ControlInv /\ ControlInv' /\ EventsInvariant /\ [Next]_vars => EventsInvariant'
  BY StepEvents DEF ControlInv
<1>3. EventsInvariant => QueuedHasEvents /\ CancelledHasEvent
  BY DEF EventsInvariant
<1> QED
  BY <1>1, <1>2, <1>3, ControlCorrect, PTL DEF Spec

LEMMA WhatJustifies ==
  ASSUME ControlInv
  PROVE  RetryJustified /\ DeadJustified /\ SubmissionsJustified
<1>1. ASSUME NEW j \in Job
      PROVE  /\ row[j].retry <= Reported(j)
             /\ row[j].status = "DEAD" => Reported(j) >= MaxRetries[j] + 1
             /\ Sent(j) <= 1 + Reported(j)
  <2>1. /\ Spent(j) = requeues[j] + Calls(j) + Deaths(j) /\ requeues[j] \in Nat
        /\ Calls(j) \in Nat /\ Deaths(j) \in {0, 1}
        /\ Runs(j) \in Nat /\ Reported(j) \in Nat /\ MaxRetries[j] \in Nat
        /\ row[j].retry \in Nat /\ Sent(j) \in Nat
    BY SpentIs, RunsAreNumbers, ReportedType, LInvParts, MaxRetriesType, SentIsNumber
       DEF ControlInv, ServiceTypeOK, Row
  <2>2. Spent(j) + Runs(j) <= Reported(j)
    BY DEF ControlInv, FailuresInvariant, Runs
  <2>3. row[j].retry <= requeues[j] /\ Sent(j) <= 1 + requeues[j]
    BY DEF ControlInv, RetryInvariant, RetryBacked, AllSound, RowSound
  <2>4. row[j].status = "DEAD" => Deaths(j) = 1 /\ requeues[j] >= MaxRetries[j]
    BY DEF ControlInv, RetryInvariant, DeadAfterAllRetries, Deaths, Dead
  <2> QED
    BY <2>1, <2>2, <2>3, <2>4
<1> QED
  BY <1>1 DEF RetryJustified, DeadJustified, SubmissionsJustified, Sent

\* Whatever order callbacks are read, sent, lost, repeated and committed in, a retry
\* is counted only for a failure that happened.
THEOREM RetriesJustified ==
  ASSUME Callers
  PROVE  Spec => []RetryJustified
<1>1. ControlInv => RetryJustified
  BY WhatJustifies
<1> QED
  BY <1>1, ControlCorrect, PTL

\* No job is DEAD before it failed max_retries + 1 times.
THEOREM DeathsJustified ==
  ASSUME Callers
  PROVE  Spec => []DeadJustified
<1>1. ControlInv => DeadJustified
  BY WhatJustifies
<1> QED
  BY <1>1, ControlCorrect, PTL

\* What a failing job can cause to be submitted is bounded by its failures.
THEOREM SubmissionsBounded ==
  ASSUME Callers
  PROVE  Spec => []SubmissionsJustified
<1>1. ControlInv => SubmissionsJustified
  BY WhatJustifies
<1> QED
  BY <1>1, ControlCorrect, PTL

\* No stale write, repeated report or timeout makes a job read SUCCESS that no
\* container of it finished.
THEOREM SuccessesJustified ==
  ASSUME Callers
  PROVE  Spec => []SuccessJustified
<1>1. ControlInv => SuccessJustified
  BY SoundParts DEF ControlInv
<1> QED
  BY <1>1, ControlCorrect, PTL

=============================================================================
