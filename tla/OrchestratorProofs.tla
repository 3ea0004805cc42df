------------------------- MODULE OrchestratorProofs -------------------------
(***************************************************************************)
(* For any jobs, replicas, budgets and faults: what crashes, rebalances    *)
(* and redelivery can do to a submission, and to a request to stop a job.  *)
(***************************************************************************)
EXTENDS Orchestrator, FiniteSetTheorems, SequenceTheorems, TLAPS

-----------------------------------------------------------------------------
(* Facts about tasks and workers *)

LEMMA SeqFacts ==
  ASSUME NEW S, NEW s \in Seq(S)
  PROVE  /\ Len(s) \in Nat /\ DOMAIN s = 1..Len(s)
         /\ \A i \in DOMAIN s : s[i] \in S
OBVIOUS

LEMMA AppendFacts ==
  ASSUME NEW S, NEW s \in Seq(S), NEW e \in S
  PROVE  /\ Append(s, e) \in Seq(S) /\ Len(Append(s, e)) = Len(s) + 1
         /\ DOMAIN Append(s, e) = DOMAIN s \cup {Len(s) + 1}
         /\ Len(s) + 1 \notin DOMAIN s
         /\ \A i \in DOMAIN s : Append(s, e)[i] = s[i]
         /\ Append(s, e)[Len(s) + 1] = e
<1>1. /\ Append(s, e) \in Seq(S) /\ Len(Append(s, e)) = Len(s) + 1
      /\ \A i \in 1..Len(s) : Append(s, e)[i] = s[i]
      /\ Append(s, e)[Len(s) + 1] = e
  BY AppendProperties
<1>2. /\ Len(s) \in Nat /\ DOMAIN s = 1..Len(s)
      /\ DOMAIN Append(s, e) = 1..(Len(s) + 1)
  BY <1>1, LenProperties
<1> QED
  BY <1>1, <1>2

\* A step of ECS or of a container, or a stop: no task comes, none forgets what
\* it is for, none comes back to life or is told to go on after all.
SameTask(x, y) ==
  /\ y.job = x.job /\ y.event = x.event /\ y.acked = x.acked /\ y.born = x.born
  /\ x.pc = "exited" => y.pc = "exited"
  /\ x.stopping => y.stopping

SameLaunches ==
  /\ task' \in Seq(Task) /\ DOMAIN task' = DOMAIN task
  /\ \A t \in DOMAIN task : SameTask(task[t], task'[t])

LEMMA OneTaskMoves ==
  ASSUME TasksTypeOK, NEW t \in DOMAIN task, NEW x \in Task, SameTask(task[t], x),
         task' = [task EXCEPT ![t] = x]
  PROVE  SameLaunches /\ task'[t] = x
<1>1. task \in Seq(Task) /\ DOMAIN task = 1..Len(task)
  BY SeqFacts DEF TasksTypeOK
<1>2. /\ task' \in Seq(Task) /\ DOMAIN task' = DOMAIN task
      /\ \A u \in DOMAIN task : task'[u] = IF u = t THEN x ELSE task[u]
  BY <1>1, ExceptSeq
<1> QED
  BY <1>2 DEF SameLaunches, SameTask

LEMMA StopTaskKeeps ==
  ASSUME TasksTypeOK, NEW t \in DOMAIN task, StopTask(t)
  PROVE  SameLaunches /\ task'[t].stopping
<1> DEFINE x == [task[t] EXCEPT !.stopping = TRUE]
<1>1. task[t] \in Task
  BY SeqFacts DEF TasksTypeOK
<1>2. task' = [task EXCEPT ![t] = x]
  BY DEF StopTask
<1>3. x \in Task /\ x.stopping /\ SameTask(task[t], x)
  BY <1>1 DEF Task, SameTask
<1> HIDE DEF x
<1> QED
  BY <1>2, <1>3, OneTaskMoves

LEMMA TaskStepKeeps ==
  ASSUME TasksTypeOK, NEW t \in DOMAIN task,
         ReportDone(t) \/ ReportAgain(t) \/ SparkSubmit(t) \/ Killed(t) \/ Vanish(t)
  PROVE  SameLaunches
<1>1. task[t] \in Task /\ task \in Seq(Task)
  BY SeqFacts DEF TasksTypeOK
<1>2. PICK x \in Task : SameTask(task[t], x) /\ task' = [task EXCEPT ![t] = x]
  <2>1. CASE ReportDone(t)
    <3> DEFINE p == IF task[t].pc = "starting" THEN "executing" ELSE "exited"
               x == [task[t] EXCEPT !.pc = p, !.resent = 0]
    <3>1. task' = [task EXCEPT ![t] = x] /\ task[t].pc # "exited"
      BY <2>1 DEF ReportDone
    <3>2. p \in {"executing", "exited"} /\ 0 \in 0..CurlRetries
      BY SparkTasksAssumption
    <3> HIDE DEF p
    <3>3. x \in Task /\ SameTask(task[t], x)
      BY <1>1, <3>1, <3>2 DEF Task, SameTask
    <3> QED
      BY <3>1, <3>3
  <2>2. CASE ReportAgain(t)
    <3> DEFINE n == task[t].resent + 1
               x == [task[t] EXCEPT !.resent = n]
    <3>1. task' = [task EXCEPT ![t] = x] /\ task[t].resent < CurlRetries
      BY <2>2 DEF ReportAgain
    <3>2. task[t].resent \in 0..CurlRetries
      BY <1>1 DEF Task
    <3>3. n \in 0..CurlRetries
      BY <3>1, <3>2, SparkTasksAssumption
    <3> HIDE DEF n
    <3>4. x \in Task /\ SameTask(task[t], x)
      BY <1>1, <3>3 DEF Task, SameTask
    <3> QED
      BY <3>1, <3>4
  <2>3. CASE SparkSubmit(t)
    BY <1>1, <2>3 DEF SparkSubmit, Task, SameTask
  <2>4. CASE Killed(t) \/ Vanish(t)
    BY <1>1, <2>4 DEF Killed, Vanish, Task, SameTask
  <2> QED
    BY <2>1, <2>2, <2>3, <2>4
<1> QED
  BY <1>2, OneTaskMoves

LEMMA RunTaskAdds ==
  ASSUME TasksTypeOK, NEW j \in Job, NEW o \in Nat, NEW acked \in BOOLEAN,
         RunTask(j, o, acked), Len(cancellations) \in Nat
  PROVE  LET last == Len(task) + 1
         IN  /\ task' \in Seq(Task) /\ DOMAIN task' = DOMAIN task \cup {last}
             /\ last \notin DOMAIN task
             /\ \A t \in DOMAIN task : task'[t] = task[t]
             /\ task'[last].job = j /\ task'[last].event = o
             /\ task'[last].acked = acked /\ task'[last].born = Len(cancellations)
<1> DEFINE new == NewTask(j, o, acked)
<1>1. /\ new \in Task /\ new.job = j /\ new.event = o /\ new.acked = acked
      /\ new.born = Len(cancellations)
  BY SparkTasksAssumption DEF NewTask, Task
<1>2. task' = Append(task, new)
  BY DEF RunTask
<1> HIDE DEF new
<1>3. task \in Seq(Task)
  BY DEF TasksTypeOK
<1>4. /\ task' \in Seq(Task) /\ DOMAIN task' = DOMAIN task \cup {Len(task) + 1}
      /\ Len(task) + 1 \notin DOMAIN task
      /\ \A t \in DOMAIN task : task'[t] = task[t]
      /\ task'[Len(task) + 1] = new
  BY <1>1, <1>2, <1>3, AppendFacts
<1> QED
  BY <1>1, <1>4

-----------------------------------------------------------------------------
(* The steps, by what they do to a submission *)

WInv == OrchestratorTypeOK /\ WorkersInvariant

WorkerBecomes(r, x) ==
  /\ x \in Worker /\ worker' = [worker EXCEPT ![r] = x]
  /\ UNCHANGED <<submissions, cancellations, owner, committed, cancelVars, faultVars>>

\* A submission is handed to r.
HandsOver(r, x) ==
  /\ WorkerBecomes(r, x)
  /\ owner = r /\ ~Working(r)
  /\ position < Len(submissions) /\ position' = position + 1
  /\ x.event = position + 1 /\ x.pc \in {"provision", "reportFailed"}
  /\ UNCHANGED <<task, deadLetters>>

\* r goes on with it, without a launch that it knows of.
Proceeds(r, x) ==
  /\ WorkerBecomes(r, x)
  /\ Working(r) /\ worker[r].pc # "reportArn"
  /\ x.event = worker[r].event /\ x.pc \notin {"free", "reportArn"}
  /\ x.pc \in {"provision", "launch"} => worker[r].pc \in {"provision", "launch"}
  /\ UNCHANGED task \/ RunTask(JobOf(r), worker[r].event, FALSE)
  /\ UNCHANGED <<position, deadLetters>>

Starts(r, x) ==
  /\ WorkerBecomes(r, x)
  /\ Working(r) /\ worker[r].pc = "launch"
  /\ x.event = worker[r].event /\ x.pc = "reportArn"
  /\ RunTask(JobOf(r), worker[r].event, TRUE)
  /\ UNCHANGED <<position, deadLetters>>

\* r is done with it, having launched it or given it up.
Settles(r) ==
  /\ WorkerBecomes(r, Free)
  /\ Working(r)
  /\ \/ worker[r].pc = "reportArn" /\ UNCHANGED deadLetters
     \/ worker[r].pc = "bury" /\ SendTo(deadLetters, worker[r].event)
  /\ UNCHANGED <<position, task>>

\* No worker moves and no submission is launched, buried or committed.
NoDelivery ==
  /\ SameLaunches
  /\ submissions' = submissions \/ \E j \in Job : submissions' = Append(submissions, j)
  /\ cancellations' \in Seq(Job) /\ CancelsTypeOK'
  /\ UNCHANGED <<consumerVars, takeovers, crashes>>

LEMMA FreeWorker == Free \in Worker /\ Free.pc = "free"
BY DEF Free, Worker

Moved(w, p) == [w EXCEPT !.pc = p]
Retried(w) == [w EXCEPT !.pc = "provision", !.attempt = @ + 1]

LEMMA WorkerMoves ==
  ASSUME NEW w \in Worker,
         NEW p \in {"provision", "launch", "reportArn", "reportFailed", "bury"}
  PROVE  Moved(w, p) \in Worker /\ Moved(w, p).pc = p /\ Moved(w, p).event = w.event
BY DEF Worker, Moved

LEMMA WorkerRetries ==
  ASSUME NEW w \in Worker
  PROVE  /\ Retried(w) \in Worker
         /\ Retried(w).pc = "provision" /\ Retried(w).event = w.event
<1> DEFINE n == w.attempt + 1
<1>1. n \in Nat
  BY DEF Worker
<1>2. Retried(w) = [w EXCEPT !.pc = "provision", !.attempt = n]
  BY DEF Retried
<1> HIDE DEF n
<1> QED
  BY <1>1, <1>2 DEF Worker

LEMMA AttemptFailedCases ==
  ASSUME WInv, NEW r \in Replica, AttemptFailed(r)
  PROVE  \E x \in Worker :
           /\ worker' = [worker EXCEPT ![r] = x]
           /\ x.event = worker[r].event /\ x.pc \in {"provision", "reportFailed"}
<1>1. worker[r] \in Worker
  BY DEF WInv, OrchestratorTypeOK
<1>2. CASE TryAgain(r)
  <2>1. worker' = [worker EXCEPT ![r] = Retried(worker[r])]
    BY <1>2 DEF TryAgain, Retried
  <2> QED
    BY <1>1, <2>1, WorkerRetries
<1>3. CASE Goto(r, "reportFailed")
  <2>1. worker' = [worker EXCEPT ![r] = Moved(worker[r], "reportFailed")]
    BY <1>3 DEF Goto, Moved
  <2> QED
    BY <1>1, <2>1, WorkerMoves
<1> QED
  BY <1>2, <1>3 DEF AttemptFailed

LEMMA WorkerStepCases ==
  ASSUME WInv, NEW r \in Replica, WorkerStep(r)
  PROVE  \/ Settles(r)
         \/ \E x \in Worker : HandsOver(r, x) \/ Proceeds(r, x) \/ Starts(r, x)
<1>1. worker[r] \in Worker /\ worker \in [Replica -> Worker] /\ position \in Nat
  BY DEF WInv, OrchestratorTypeOK
<1>2. worker[r].pc # "free" => Working(r)
  BY DEF Working, Free
<1>3. CASE Poll(r)
  <2> DEFINE p == IF MaxRetries[submissions[position + 1]] = 0
                  THEN "reportFailed" ELSE "provision"
             x == [pc |-> p, event |-> position + 1, attempt |-> 1]
  <2>1. worker' = [worker EXCEPT ![r] = x]
    BY <1>3 DEF Poll
  <2>2. p \in {"provision", "reportFailed"}
    OBVIOUS
  <2> HIDE DEF p
  <2>3. x \in Worker /\ x.event = position + 1 /\ x.pc = p
    BY <1>1, <2>2 DEF Worker
  <2> HIDE DEF x
  <2>4. HandsOver(r, x)
    BY <1>3, <2>1, <2>2, <2>3 DEF Poll, HandsOver, WorkerBecomes, Working
  <2> QED
    BY <2>3, <2>4
<1>4. ASSUME NEW p \in {"launch", "bury"}, Goto(r, p),
             \/ worker[r].pc = "provision" /\ p = "launch"
             \/ worker[r].pc = "reportFailed" /\ p = "bury",
             UNCHANGED <<submissions, cancellations, task, owner, position, committed,
                         deadLetters, cancelVars, faultVars>>
      PROVE  \E x \in Worker : Proceeds(r, x)
  <2> DEFINE x == Moved(worker[r], p)
  <2>1. worker' = [worker EXCEPT ![r] = x]
    BY <1>1, <1>4 DEF Goto, Moved
  <2>2. x \in Worker /\ x.event = worker[r].event /\ x.pc = p
    BY <1>1, WorkerMoves
  <2> HIDE DEF x
  <2>3. Proceeds(r, x)
    BY <1>2, <1>4, <2>1, <2>2 DEF Proceeds, WorkerBecomes
  <2> QED
    BY <2>2, <2>3
<1>5. CASE PutProvisioning(r) \/ PutFailed(r)
  <2>1. CASE PutProvisioning(r)
    BY <1>4, <2>1 DEF PutProvisioning
  <2>2. CASE PutFailed(r)
    BY <1>4, <2>2 DEF PutFailed
  <2> QED
    BY <1>5, <2>1, <2>2
<1>6. CASE Launch(r)
  <2>1. /\ worker[r].pc = "launch"
        /\ UNCHANGED <<submissions, cancellations, owner, position, committed,
                       deadLetters, cancelVars, faultVars>>
    BY <1>6 DEF Launch
  <2>2. CASE RunTask(JobOf(r), worker[r].event, TRUE) /\ Goto(r, "reportArn")
    <3> DEFINE x == Moved(worker[r], "reportArn")
    <3>1. worker' = [worker EXCEPT ![r] = x]
      BY <1>1, <2>2 DEF Goto, Moved
    <3>2. x \in Worker /\ x.event = worker[r].event /\ x.pc = "reportArn"
      BY <1>1, WorkerMoves
    <3> HIDE DEF x
    <3>3. Starts(r, x)
      BY <1>2, <2>1, <2>2, <3>1, <3>2 DEF Starts, WorkerBecomes
    <3> QED
      BY <3>2, <3>3
  <2>3. CASE /\ AttemptFailed(r)
             /\ UNCHANGED task \/ RunTask(JobOf(r), worker[r].event, FALSE)
    <3>1. PICK x \in Worker :
            /\ worker' = [worker EXCEPT ![r] = x]
            /\ x.event = worker[r].event /\ x.pc \in {"provision", "reportFailed"}
      BY <2>1, <2>3, AttemptFailedCases
    <3>2. Proceeds(r, x)
      BY <1>2, <2>1, <2>3, <3>1 DEF Proceeds, WorkerBecomes
    <3> QED
      BY <3>2
  <2> QED
    BY <1>6, <2>2, <2>3 DEF Launch
<1>7. CASE PutArn(r)
  BY <1>2, <1>7, FreeWorker DEF PutArn, Settles, WorkerBecomes, Done
<1>8. CASE Bury(r)
  BY <1>2, <1>8, FreeWorker DEF Bury, Settles, WorkerBecomes, Done
<1> QED
  BY <1>3, <1>5, <1>6, <1>7, <1>8 DEF WorkerStep

LEMMA TasksStay ==
  ASSUME TasksTypeOK, task' = task
  PROVE  SameLaunches
BY DEF TasksTypeOK, SameLaunches, SameTask

LEMMA CancelsStay ==
  ASSUME CancelsTypeOK, UNCHANGED <<cancellations, cancelVars>>
  PROVE  CancelsTypeOK'
BY DEF CancelsTypeOK, cancelVars

\* What a replica still has to stop are tasks; so are those it spares.
LEMMA ToStopTasks ==
  ASSUME TasksTypeOK, CancelsTypeOK, NEW r \in Replica
  PROVE  stopper[r] \in Stopper /\ ToStop(r) \in SUBSET Nat
<1>1. stopper[r] \in Stopper /\ DOMAIN task \subseteq Nat
  BY SeqFacts DEF CancelsTypeOK, TasksTypeOK
<1> QED
  BY <1>1 DEF ToStop, RunningTasksFor, Stopper

LEMMA StopperTypes ==
  ASSUME TasksTypeOK, CancelsTypeOK, cancellations \in Seq(Job), NEW r \in Replica,
         StopperStep(r) \/ Raise(r) \/ StopperDies(r) \/ CancelTakeover(r),
         UNCHANGED cancellations
  PROVE  CancelsTypeOK'
<1>1. /\ Len(cancellations) \in Nat /\ MaxTakeovers \in Nat
      /\ cancelPosition \in 0..Len(cancellations)
      /\ stopper \in [Replica -> Stopper] /\ stopper[r].event \in Nat
      /\ stopper[r].arns \subseteq Nat /\ ToStop(r) \subseteq Nat
      /\ DOMAIN task \subseteq Nat
  BY ToStopTasks, SeqFacts, ReplicaAssumption DEF CancelsTypeOK, TasksTypeOK, Stopper
<1>2. Waiting \in Stopper
  BY DEF Waiting, Stopper
<1> USE DEF CancelsTypeOK
<1>3. CASE HandOut(r)
  <2> DEFINE x == [pc |-> "list", event |-> cancelPosition + 1, arns |-> {}]
  <2>1. x \in Stopper
    BY <1>1 DEF Stopper
  <2>2. stopper' = [stopper EXCEPT ![r] = x]
    BY <1>3 DEF HandOut
  <2> HIDE DEF x
  <2>3. cancelPosition' \in 0..Len(cancellations)
    BY <1>1, <1>3 DEF HandOut
  <2>4. stopper' \in [Replica -> Stopper]
    BY <1>1, <2>1, <2>2
  <2>5. UNCHANGED <<cancellations, cancelOwner, cancelCommitted, cancelTakeovers, spared>>
    BY <1>3 DEF HandOut
  <2> QED
    BY <2>3, <2>4, <2>5
<1>4. CASE ListTasks(r)
  <2> DEFINE x == [stopper[r] EXCEPT !.pc = "stop", !.arns = ToStop(r)]
  <2>1. x \in Stopper
    BY <1>1 DEF Stopper
  <2>2. stopper' = [stopper EXCEPT ![r] = x] \/ stopper' = [stopper EXCEPT ![r] = Waiting]
    BY <1>4 DEF ListTasks, Finish
  <2> HIDE DEF x
  <2> QED
    BY <1>1, <1>2, <1>4, <2>1, <2>2 DEF ListTasks
<1>5. CASE StopNext(r)
  <2>1. PICK t \in stopper[r].arns :
          DoneWith(r, t) /\ (UNCHANGED spared \/ Spare(stopper[r].event, {t}))
    BY <1>5 DEF StopNext
  <2> DEFINE x == [stopper[r] EXCEPT !.arns = @ \ {t}]
  <2>2. x \in Stopper
    BY <1>1 DEF Stopper
  <2>3. stopper' = [stopper EXCEPT ![r] = x] \/ stopper' = [stopper EXCEPT ![r] = Waiting]
    BY <2>1 DEF DoneWith, Finish
  <2> HIDE DEF x
  <2>4. spared' \subseteq Nat \X Nat
    BY <1>1, <2>1 DEF Spare
  <2> QED
    BY <1>1, <1>2, <1>5, <2>2, <2>3, <2>4 DEF StopNext
<1>6. CASE Raise(r)
  BY <1>1, <1>2, <1>6 DEF Raise, Spare, Finish
<1>7. CASE StopperDies(r)
  BY <1>1, <1>2, <1>7 DEF StopperDies, Spare, Finish
<1>8. CASE CancelTakeover(r)
  <2>1. ResumeAt \in 0..Len(cancellations)
    BY <1>1 DEF ResumeAt, NoOffset
  <2>2. spared' \subseteq Nat \X Nat
    BY <1>1, <1>8, <2>1 DEF CancelTakeover, RunningTasksFor
  <2> QED
    BY <1>1, <1>8, <2>1, <2>2 DEF CancelTakeover
<1> QED
  BY <1>3, <1>4, <1>5, <1>6, <1>7, <1>8 DEF StopperStep

\* The tasks only change as one of them is told to stop.
LEMMA CancelStepTasks ==
  ASSUME TasksTypeOK, CancelStep
  PROVE  SameLaunches
<1>1. CASE UNCHANGED task
  BY <1>1, TasksStay
<1>2. ASSUME NEW t, StopTask(t)
      PROVE  SameLaunches
  <2>1. CASE t \in DOMAIN task
    BY <1>2, <2>1, StopTaskKeeps
  <2>2. CASE t \notin DOMAIN task
    <3>1. task' = task
      BY <1>2, <2>2 DEF StopTask, TasksTypeOK
    <3> QED
      BY <3>1, TasksStay
  <2> QED
    BY <2>1, <2>2
<1> QED
  BY <1>1, <1>2 DEF CancelStep, CancelAutoCommit, StopperStep, HandOut, ListTasks,
     StopNext, Raise, CancelTakeover

LEMMA NoDeliverySteps ==
  ASSUME WInv,
         \/ CancelStep
         \/ \E t \in DOMAIN task : TaskStep(t)
         \/ \E j \in Job : Submit(j) \/ RequestStop(j)
         \/ UNCHANGED orchestratorVars
  PROVE  NoDelivery
<1>1. TasksTypeOK /\ CancelsTypeOK /\ cancellations \in Seq(Job)
  BY DEF WInv, OrchestratorTypeOK, TopicsTypeOK
<1>2. CASE CancelStep
  <2>1. UNCHANGED <<submissions, cancellations, consumerVars, takeovers, crashes>>
    BY <1>2 DEF CancelStep, CancelAutoCommit, StopperStep, HandOut, ListTasks, StopNext,
         Raise, CancelTakeover, faultVars
  <2>2. CancelAutoCommit => CancelsTypeOK'
    BY <1>1, <2>1 DEF CancelAutoCommit, CancelsTypeOK
  <2>3. CancelsTypeOK'
    BY <1>1, <1>2, <2>1, <2>2, StopperTypes DEF CancelStep, CancelAutoCommit, CancelsTypeOK
  <2> QED
    BY <1>1, <1>2, <2>1, <2>3, CancelStepTasks DEF NoDelivery
<1>3. ASSUME NEW t \in DOMAIN task, TaskStep(t)
      PROVE  NoDelivery
  <2>1. SameLaunches
    BY <1>1, <1>3, TaskStepKeeps DEF TaskStep
  <2>2. CancelsTypeOK'
    BY <1>1, <1>3, CancelsStay DEF TaskStep, OnlyTasksChange
  <2> QED
    BY <1>1, <1>3, <2>1, <2>2 DEF TaskStep, OnlyTasksChange, NoDelivery, faultVars
<1>4. ASSUME NEW j \in Job, Submit(j)
      PROVE  NoDelivery
  BY <1>1, <1>4, CancelsStay, TasksStay DEF Submit, NoDelivery, faultVars
<1>5. ASSUME NEW j \in Job, RequestStop(j)
      PROVE  NoDelivery
  <2>1. /\ cancellations' \in Seq(Job) /\ Len(cancellations') = Len(cancellations) + 1
        /\ Len(cancellations) \in Nat
    BY <1>1, <1>5, AppendFacts, SeqFacts DEF RequestStop
  <2>2. CancelsTypeOK'
    BY <1>1, <1>5, <2>1 DEF RequestStop, cancelVars, CancelsTypeOK
  <2> QED
    BY <1>1, <1>5, <2>1, <2>2, TasksStay DEF RequestStop, NoDelivery, faultVars
<1>6. CASE UNCHANGED orchestratorVars
  BY <1>1, <1>6, CancelsStay, TasksStay DEF orchestratorVars, NoDelivery, faultVars
<1> QED
  BY <1>2, <1>3, <1>4, <1>5, <1>6

\* Every step is one of these.
LEMMA StepCases ==
  ASSUME WInv, [OrchestratorNext]_orchestratorVars
  PROVE  \/ NoDelivery \/ AutoCommit
         \/ \E r \in Replica : Takeover(r) \/ Crash(r) \/ Settles(r)
         \/ \E r \in Replica, x \in Worker :
              HandsOver(r, x) \/ Proceeds(r, x) \/ Starts(r, x)
<1>1. CASE \E r \in Replica : WorkerStep(r)
  BY <1>1, WorkerStepCases
<1>2. CASE GroupStep
  BY <1>2 DEF GroupStep
<1>3. CASE \/ CancelStep \/ \E t \in DOMAIN task : TaskStep(t)
           \/ \E j \in Job : Submit(j) \/ RequestStop(j)
           \/ UNCHANGED orchestratorVars
  BY <1>3, NoDeliverySteps
<1> QED
  BY <1>1, <1>2, <1>3 DEF OrchestratorNext, OrchestratorStep

LEMMA SameLaunchesKeep ==
  ASSUME SameLaunches
  PROVE  Launched' = Launched /\ \A o : Launches(o)' = Launches(o)
BY DEF SameLaunches, SameTask, Launched, Launches

LEMMA RunTaskLaunches ==
  ASSUME TasksTypeOK, NEW j \in Job, NEW o \in Nat, NEW acked \in BOOLEAN,
         RunTask(j, o, acked), Len(cancellations) \in Nat
  PROVE  /\ Launched' = Launched \cup {o}
         /\ \A p : p # o => Launches(p)' = Launches(p)
         /\ acked = TRUE => Launches(o)' = Launches(o) \cup {Len(task) + 1}
         /\ acked = FALSE => Launches(o)' = Launches(o)
         /\ Len(task) + 1 \notin Launches(o)
<1> DEFINE last == Len(task) + 1
<1>1. /\ DOMAIN task' = DOMAIN task \cup {last} /\ last \notin DOMAIN task
      /\ \A t \in DOMAIN task : task'[t] = task[t]
      /\ task'[last].event = o /\ task'[last].acked = acked
  BY RunTaskAdds
<1> HIDE DEF last
<1>2. Launched' = Launched \cup {o}
  BY <1>1 DEF Launched
<1>3. \A p : p # o => Launches(p)' = Launches(p)
  BY <1>1 DEF Launches
<1>4. /\ acked = TRUE => Launches(o)' = Launches(o) \cup {last}
      /\ acked = FALSE => Launches(o)' = Launches(o)
  BY <1>1 DEF Launches
<1>5. last \notin Launches(o)
  BY <1>1 DEF Launches
<1> QED
  BY <1>2, <1>3, <1>4, <1>5 DEF last

-----------------------------------------------------------------------------
(* Type correctness, and what a worker has in hand *)

LEMMA Bounds ==
  ASSUME WInv
  PROVE  /\ position \in Nat /\ committed \in Nat /\ committed <= position
         /\ Len(submissions) \in Nat /\ position <= Len(submissions)
         /\ takeovers \in Nat /\ crashes \in Nat
         /\ worker \in [Replica -> Worker]
         /\ TasksTypeOK
         /\ deadLetters \in Seq(1..Len(submissions))
         /\ CancelsTypeOK /\ cancellations \in Seq(Job) /\ Len(cancellations) \in Nat
BY ReplicaAssumption DEF WInv, OrchestratorTypeOK, TopicsTypeOK, WorkersInvariant

LEMMA WorkerHas ==
  ASSUME WInv, NEW r \in Replica, Working(r)
  PROVE  /\ worker[r].pc # "free" /\ worker[r].event \in 1..Len(submissions)
         /\ JobOf(r) \in Job
         /\ worker[r].pc = "reportArn" => worker[r].event \in Launched
BY DEF WInv, OrchestratorTypeOK, TopicsTypeOK, WorkersInvariant, JobOf

\* A worker that becomes x leaves the others as they were.
LEMMA OneWorkerMoves ==
  ASSUME WInv, NEW r \in Replica, NEW x \in Worker, worker' = [worker EXCEPT ![r] = x]
  PROVE  /\ worker' \in [Replica -> Worker] /\ worker'[r] = x
         /\ \A q \in Replica : q # r => worker'[q] = worker[q]
         /\ Working(r)' <=> x # Free
         /\ \A q \in Replica : q # r => (Working(q)' <=> Working(q))
<1>1. worker \in [Replica -> Worker]
  BY Bounds
<1> QED
  BY <1>1 DEF Working

\* What becomes of the launches when a worker goes on with submission o.
LEMMA ProceedsTasks ==
  ASSUME WInv, NEW r \in Replica, NEW x \in Worker, Proceeds(r, x),
         NEW o \in Nat, o = worker[r].event
  PROVE  /\ TasksTypeOK' /\ Launched \subseteq Launched'
         /\ Launched' \subseteq Launched \cup {o}
         /\ \A p : Launches(p)' = Launches(p)
         /\ \A t \in DOMAIN task' :
              task'[t].event = o \/ (t \in DOMAIN task /\ task'[t] = task[t])
<1>1. PICK j \in Job : j = JobOf(r)
  BY WorkerHas DEF Proceeds
<1>2. TasksTypeOK
  BY Bounds
<1>3. CASE UNCHANGED task
  <2>1. TasksTypeOK' /\ Launched' = Launched /\ \A p : Launches(p)' = Launches(p)
    BY <1>2, <1>3, TasksStay, SameLaunchesKeep DEF TasksTypeOK
  <2> QED
    BY <1>3, <2>1
<1>4. CASE RunTask(j, o, FALSE)
  <2>1. /\ task' \in Seq(Task)
        /\ DOMAIN task' = DOMAIN task \cup {Len(task) + 1}
        /\ \A t \in DOMAIN task : task'[t] = task[t]
        /\ task'[Len(task) + 1].event = o
    BY <1>2, <1>4, RunTaskAdds, Bounds
  <2>2. /\ Launched' = Launched \cup {o}
        /\ \A p : p # o => Launches(p)' = Launches(p)
        /\ Launches(o)' = Launches(o)
    BY <1>2, <1>4, RunTaskLaunches, Bounds
  <2>3. TasksTypeOK'
    BY <2>1 DEF TasksTypeOK
  <2>4. \A p : Launches(p)' = Launches(p)
    BY <2>2, Zenon
  <2>5. \A t \in DOMAIN task' :
          task'[t].event = o \/ (t \in DOMAIN task /\ task'[t] = task[t])
    BY <2>1
  <2>6. Launched \subseteq Launched' /\ Launched' \subseteq Launched \cup {o}
    BY <2>2
  <2> QED
    BY <2>3, <2>4, <2>5, <2>6, Zenon
<1> QED
  BY <1>1, <1>3, <1>4 DEF Proceeds

LEMMA StartsTasks ==
  ASSUME WInv, NEW r \in Replica, NEW x \in Worker, Starts(r, x),
         NEW o \in Nat, o = worker[r].event
  PROVE  /\ TasksTypeOK' /\ Launched' = Launched \cup {o}
         /\ \A p : p # o => Launches(p)' = Launches(p)
         /\ \E last \in Nat \ Launches(o) : Launches(o)' = Launches(o) \cup {last}
         /\ \A t \in DOMAIN task' :
              task'[t].event = o \/ (t \in DOMAIN task /\ task'[t] = task[t])
<1>1. PICK j \in Job : j = JobOf(r)
  BY WorkerHas DEF Starts
<1>2. TasksTypeOK
  BY Bounds
<1>3. RunTask(j, o, TRUE)
  BY <1>1 DEF Starts
<1>4. /\ task' \in Seq(Task)
      /\ DOMAIN task' = DOMAIN task \cup {Len(task) + 1}
      /\ \A t \in DOMAIN task : task'[t] = task[t]
      /\ task'[Len(task) + 1].event = o
  BY <1>2, <1>3, RunTaskAdds, Bounds
<1>5. /\ Launched' = Launched \cup {o}
      /\ \A p : p # o => Launches(p)' = Launches(p)
      /\ Launches(o)' = Launches(o) \cup {Len(task) + 1}
      /\ Len(task) + 1 \notin Launches(o)
  BY <1>2, <1>3, RunTaskLaunches, Bounds
<1>6. TasksTypeOK' /\ Len(task) + 1 \in Nat
  BY <1>2, <1>4, SeqFacts DEF TasksTypeOK
<1>7. \A t \in DOMAIN task' :
        task'[t].event = o \/ (t \in DOMAIN task /\ task'[t] = task[t])
  BY <1>4
<1>8. \E last \in Nat \ Launches(o) : Launches(o)' = Launches(o) \cup {last}
  BY <1>5, <1>6
<1> QED
  BY <1>5, <1>6, <1>7, <1>8, Zenon

\* A worker's step keeps the types and the other workers, if it does for itself.
LEMMA WorkerKeeps ==
  ASSUME WInv, NEW r \in Replica, NEW x \in Worker, WorkerBecomes(r, x),
         position' \in 0..Len(submissions), position <= position',
         deadLetters' \in Seq(1..Len(submissions)), TasksTypeOK',
         Launched \subseteq Launched',
         \A t \in DOMAIN task' : task'[t].event \in 1..Len(submissions),
         x # Free => /\ x.pc # "free" /\ x.event \in 1..Len(submissions)
                     /\ x.pc = "reportArn" => x.event \in Launched'
  PROVE  WInv'
<1>1. /\ submissions' = submissions /\ cancellations' = cancellations
      /\ owner' = owner /\ committed' = committed
      /\ takeovers' = takeovers /\ crashes' = crashes
      /\ worker' = [worker EXCEPT ![r] = x]
      /\ CancelsTypeOK'
  BY Bounds, CancelsStay DEF WorkerBecomes, faultVars
<1>2. /\ worker' \in [Replica -> Worker] /\ worker'[r] = x
      /\ \A q \in Replica : q # r => worker'[q] = worker[q]
      /\ Working(r)' <=> x # Free
      /\ \A q \in Replica : q # r => (Working(q)' <=> Working(q))
  BY <1>1, OneWorkerMoves
<1>3. OrchestratorTypeOK'
  BY <1>1, <1>2 DEF WInv, OrchestratorTypeOK, TopicsTypeOK
<1>4. ASSUME NEW q \in Replica, Working(q)'
      PROVE  /\ worker'[q].pc # "free" /\ worker'[q].event \in 1..Len(submissions)
             /\ worker'[q].pc = "reportArn" => worker'[q].event \in Launched'
  BY <1>2, <1>4, WorkerHas
<1>5. committed' <= position'
  BY <1>1, Bounds
<1> QED
  BY <1>1, <1>3, <1>4, <1>5 DEF WInv, WorkersInvariant

LEMMA InitWInv == OrchestratorInit => WInv
<1> SUFFICES ASSUME OrchestratorInit
             PROVE  WInv
  OBVIOUS
<1> USE DEF OrchestratorInit, TopicsInit, ConsumersInit, TasksInit
<1>1. OrchestratorTypeOK
  BY FreeWorker, ReplicaAssumption
     DEF OrchestratorTypeOK, TopicsTypeOK, TasksTypeOK, CancelsTypeOK, CancelsInit,
         Waiting, Stopper
<1>2. WorkersInvariant
  BY DEF WorkersInvariant, Working
<1> QED
  BY <1>1, <1>2 DEF WInv

LEMMA WorkerStepWInv ==
  ASSUME WInv, NEW r \in Replica, NEW x \in Worker,
         (x = Free /\ Settles(r)) \/ HandsOver(r, x) \/ Proceeds(r, x) \/ Starts(r, x)
  PROVE  WInv'
<1>1. /\ position \in Nat /\ Len(submissions) \in Nat /\ position <= Len(submissions)
      /\ TasksTypeOK /\ deadLetters \in Seq(1..Len(submissions))
      /\ \A t \in DOMAIN task : task[t].event \in 1..Len(submissions)
  BY Bounds DEF WInv, WorkersInvariant
<1>2. CASE x = Free /\ Settles(r)
  <2>1. WorkerBecomes(r, x) /\ position' = position /\ task' = task
    BY <1>2 DEF Settles
  <2>2. deadLetters' \in Seq(1..Len(submissions))
    <3>1. PICK o \in 1..Len(submissions) : o = worker[r].event
      BY <1>2, WorkerHas DEF Settles
    <3>2. deadLetters' = deadLetters \/ deadLetters' = Append(deadLetters, o)
      BY <1>2, <3>1 DEF Settles, SendTo
    <3> DEFINE S == 1..Len(submissions)
    <3>3. deadLetters \in Seq(S) /\ o \in S
      BY <1>1, <3>1
    <3> HIDE DEF S
    <3>4. deadLetters' \in Seq(S)
      BY <3>2, <3>3, AppendFacts
    <3> QED
      BY <3>4 DEF S
  <2>3. TasksTypeOK' /\ Launched' = Launched
    BY <1>1, <2>1, TasksStay, SameLaunchesKeep DEF TasksTypeOK
  <2> QED
    BY <1>1, <1>2, <2>1, <2>2, <2>3, WorkerKeeps
<1>3. CASE HandsOver(r, x)
  <2>1. /\ WorkerBecomes(r, x) /\ task' = task /\ deadLetters' = deadLetters
        /\ position' = position + 1 /\ position < Len(submissions)
        /\ x.pc \in {"provision", "reportFailed"} /\ x.event = position + 1
    BY <1>3 DEF HandsOver
  <2>2. TasksTypeOK' /\ Launched' = Launched
    BY <1>1, <2>1, TasksStay, SameLaunchesKeep DEF TasksTypeOK
  <2>3. position' \in 0..Len(submissions) /\ position <= position'
        /\ x.event \in 1..Len(submissions)
    BY <1>1, <2>1
  <2> QED
    BY <1>1, <2>1, <2>2, <2>3, WorkerKeeps
<1>4. CASE Proceeds(r, x)
  <2>1. /\ WorkerBecomes(r, x) /\ deadLetters' = deadLetters /\ position' = position
        /\ x.pc \notin {"free", "reportArn"} /\ x.event = worker[r].event /\ Working(r)
    BY <1>4 DEF Proceeds
  <2>2. PICK o \in 1..Len(submissions) : o = worker[r].event
    BY <2>1, WorkerHas
  <2>3. /\ TasksTypeOK' /\ Launched \subseteq Launched'
        /\ \A t \in DOMAIN task' :
             task'[t].event = o \/ (t \in DOMAIN task /\ task'[t] = task[t])
    BY <1>1, <1>4, <2>2, ProceedsTasks
  <2>4. \A t \in DOMAIN task' : task'[t].event \in 1..Len(submissions)
    BY <1>1, <2>2, <2>3
  <2> QED
    BY <1>1, <2>1, <2>2, <2>3, <2>4, WorkerKeeps
<1>5. CASE Starts(r, x)
  <2>1. /\ WorkerBecomes(r, x) /\ deadLetters' = deadLetters /\ position' = position
        /\ x.pc = "reportArn" /\ x.event = worker[r].event /\ Working(r)
    BY <1>5 DEF Starts
  <2>2. PICK o \in 1..Len(submissions) : o = worker[r].event
    BY <2>1, WorkerHas
  <2>3. /\ TasksTypeOK' /\ Launched' = Launched \cup {o}
        /\ \A t \in DOMAIN task' :
             task'[t].event = o \/ (t \in DOMAIN task /\ task'[t] = task[t])
    BY <1>1, <1>5, <2>2, StartsTasks
  <2>4. \A t \in DOMAIN task' : task'[t].event \in 1..Len(submissions)
    BY <1>1, <2>2, <2>3
  <2> QED
    BY <1>1, <2>1, <2>2, <2>3, <2>4, WorkerKeeps
<1> QED
  BY <1>2, <1>3, <1>4, <1>5

LEMMA NoDeliveryWInv ==
  ASSUME WInv, NoDelivery
  PROVE  WInv'
<1>1. /\ owner' = owner /\ position' = position /\ committed' = committed
      /\ worker' = worker /\ deadLetters' = deadLetters /\ crashes' = crashes
      /\ Launched' = Launched
  BY SameLaunchesKeep DEF NoDelivery, consumerVars
<1>2. submissions \in Seq(Job) /\ Len(submissions) \in Nat
  BY Bounds DEF WInv, OrchestratorTypeOK, TopicsTypeOK
<1>3. submissions' \in Seq(Job) /\ Len(submissions') \in Nat
      /\ Len(submissions) <= Len(submissions')
  BY <1>2, AppendFacts DEF NoDelivery
<1>4. deadLetters' \in Seq(1..Len(submissions'))
  BY <1>1, <1>2, <1>3, Bounds
<1>5. takeovers' \in 0..MaxTakeovers
  BY ReplicaAssumption DEF WInv, OrchestratorTypeOK, NoDelivery
<1>6. TasksTypeOK' /\ \A t \in DOMAIN task' : task'[t].event \in 1..Len(submissions')
  BY <1>2, <1>3 DEF WInv, WorkersInvariant, NoDelivery, SameLaunches, SameTask,
                       TasksTypeOK
<1>7. OrchestratorTypeOK'
  BY <1>1, <1>2, <1>3, <1>4, <1>5, <1>6
     DEF WInv, OrchestratorTypeOK, TopicsTypeOK, NoDelivery
<1>8. \A r \in Replica : Working(r)' =>
        /\ worker'[r].pc # "free" /\ worker'[r].event \in 1..Len(submissions')
        /\ worker'[r].pc = "reportArn" => worker'[r].event \in Launched'
  BY <1>1, <1>2, <1>3, WorkerHas DEF Working
<1>9. committed' <= position'
  BY <1>1, Bounds
<1> QED
  BY <1>6, <1>7, <1>8, <1>9 DEF WInv, WorkersInvariant

LEMMA GroupStepWInv ==
  ASSUME WInv, NEW r \in Replica, AutoCommit \/ Takeover(r) \/ Crash(r)
  PROVE  WInv'
<1>1. /\ position \in 0..Len(submissions) /\ committed \in 0..Len(submissions)
      /\ committed <= position /\ takeovers \in 0..MaxTakeovers /\ crashes \in Nat
      /\ worker \in [Replica -> Worker] /\ TasksTypeOK /\ MaxTakeovers \in Nat
  BY ReplicaAssumption DEF WInv, OrchestratorTypeOK, WorkersInvariant
<1>2. /\ submissions' = submissions /\ cancellations' = cancellations /\ task' = task
      /\ deadLetters' = deadLetters
  BY DEF AutoCommit, Takeover, Crash, WorkerDies
<1>3. /\ position' \in 0..Len(submissions) /\ committed' \in 0..Len(submissions)
      /\ committed' <= position'
      /\ takeovers' \in 0..MaxTakeovers /\ crashes' \in Nat
      /\ owner' \in Replica \cup {NoReplica}
  <2>1. owner \in Replica \cup {NoReplica}
    BY DEF WInv, OrchestratorTypeOK
  <2>2. CASE AutoCommit
    BY <1>1, <2>1, <2>2 DEF AutoCommit, faultVars
  <2>3. CASE Takeover(r)
    BY <1>1, <2>1, <2>3 DEF Takeover
  <2>4. CASE Crash(r)
    BY <1>1, <2>1, <2>4 DEF Crash, WorkerDies
  <2> QED
    BY <2>2, <2>3, <2>4
<1>4. \/ worker' = worker
      \/ worker' = [worker EXCEPT ![r] = Free]
  BY DEF AutoCommit, Takeover, Crash, WorkerDies, Done
<1>5. worker' \in [Replica -> Worker]
  BY <1>1, <1>4, FreeWorker
<1>6. \A q \in Replica : Working(q)' => Working(q) /\ worker'[q] = worker[q]
  BY <1>1, <1>4 DEF Working
<1>7. TasksTypeOK' /\ Launched' = Launched
  BY <1>1, <1>2, TasksStay, SameLaunchesKeep DEF TasksTypeOK
<1>8. CancelsTypeOK'
  <2>1. CASE Crash(r)
    BY <1>1, <1>2, <2>1, Bounds, StopperTypes DEF Crash
  <2>2. CASE ~Crash(r)
    BY <1>2, <2>2, Bounds, CancelsStay DEF AutoCommit, Takeover
  <2> QED
    BY <2>1, <2>2
<1>9. OrchestratorTypeOK'
  BY <1>2, <1>3, <1>5, <1>7, <1>8 DEF WInv, OrchestratorTypeOK, TopicsTypeOK
<1>10. WorkersInvariant'
  BY <1>2, <1>3, <1>6, <1>7 DEF WInv, WorkersInvariant
<1> QED
  BY <1>9, <1>10 DEF WInv

LEMMA StepWInv ==
  ASSUME WInv, [OrchestratorNext]_orchestratorVars
  PROVE  WInv'
<1>1. CASE NoDelivery
  BY <1>1, NoDeliveryWInv
<1>2. CASE AutoCommit
  <2>1. PICK r \in Replica : owner = r
    BY <1>2 DEF AutoCommit, WInv, OrchestratorTypeOK
  <2> QED
    BY <1>2, <2>1, GroupStepWInv
<1>3. ASSUME NEW r \in Replica, Takeover(r) \/ Crash(r)
      PROVE  WInv'
  BY <1>3, GroupStepWInv
<1>4. ASSUME NEW r \in Replica, Settles(r)
      PROVE  WInv'
  BY <1>4, FreeWorker, WorkerStepWInv
<1>5. ASSUME NEW r \in Replica, NEW x \in Worker,
             HandsOver(r, x) \/ Proceeds(r, x) \/ Starts(r, x)
      PROVE  WInv'
  BY <1>5, WorkerStepWInv
<1> QED
  BY <1>1, <1>2, <1>3, <1>4, <1>5, StepCases

\* Every variable of the orchestrator keeps its type, and a worker PUTs the ARN
\* only of a task it has launched.
THEOREM WorkersCorrect == OrchestratorSpec => []WInv
BY InitWInv, StepWInv, PTL DEF OrchestratorSpec

\* Types alone: what the runs check of the consumers' variables holds for any
\* replicas, jobs and faults.
THEOREM OrchestratorTypeCorrect == OrchestratorSpec => []OrchestratorTypeOK
<1>1. WInv => OrchestratorTypeOK
  BY DEF WInv
<1> QED
  BY <1>1, WorkersCorrect, PTL

-----------------------------------------------------------------------------
(* What is lost *)

LEMMA UnsettledFinite ==
  ASSUME WInv
  PROVE  /\ IsFiniteSet(Unsettled) /\ Cardinality(Unsettled) \in Nat
         /\ Lost \subseteq Unsettled
<1>1. Unsettled \subseteq 1..position /\ position \in Nat
  BY Bounds DEF Unsettled
<1>2. IsFiniteSet(Unsettled)
  <2>1. IsFiniteSet(1..position)
    BY <1>1, FS_Interval
  <2> QED
    BY <1>1, <2>1, FS_Subset
<1>3. Lost \subseteq Unsettled
  BY Bounds DEF Lost, Unsettled
<1> QED
  BY <1>2, <1>3, FS_CardinalityType

LEMMA NothingLost ==
  ASSUME WInv, WInv', LossInvariant, Unsettled' \subseteq Unsettled, crashes <= crashes'
  PROVE  LossInvariant'
<1>1. Cardinality(Unsettled') <= Cardinality(Unsettled)
  BY UnsettledFinite, FS_Subset
<1>2. Cardinality(Unsettled) \in Nat /\ Cardinality(Unsettled') \in Nat
  BY UnsettledFinite, FS_Subset, FS_CardinalityType
<1>3. crashes \in Nat /\ crashes' \in Nat
  BY DEF WInv, OrchestratorTypeOK
<1> QED
  BY <1>1, <1>2, <1>3 DEF LossInvariant

LEMMA DeadLetterBuries ==
  ASSUME WInv, NEW r \in Replica, Working(r), NEW o \in Nat, o = worker[r].event,
         deadLetters' = Append(deadLetters, o)
  PROVE  Buried' = Buried \cup {o}
<1> DEFINE S == 1..Len(submissions)
<1>1. deadLetters \in Seq(S) /\ o \in S
  BY WorkerHas, Bounds
<1> HIDE DEF S
<1>2. /\ DOMAIN deadLetters' = DOMAIN deadLetters \cup {Len(deadLetters) + 1}
      /\ \A i \in DOMAIN deadLetters : deadLetters'[i] = deadLetters[i]
      /\ deadLetters'[Len(deadLetters) + 1] = o
  BY <1>1, AppendFacts
<1> QED
  BY <1>2 DEF Buried

LEMMA WorkerLosesNothing ==
  ASSUME WInv, WInv', LossInvariant, ~KafkaMayFail, NEW r \in Replica, NEW x \in Worker,
         (x = Free /\ Settles(r)) \/ HandsOver(r, x) \/ Proceeds(r, x) \/ Starts(r, x)
  PROVE  LossInvariant'
<1>1. WorkerBecomes(r, x)
  BY DEF Settles, HandsOver, Proceeds, Starts
<1>2. /\ worker' \in [Replica -> Worker] /\ worker'[r] = x
      /\ \A q \in Replica : q # r => worker'[q] = worker[q]
      /\ crashes' = crashes
  BY <1>1, OneWorkerMoves DEF WorkerBecomes, faultVars
<1>3. TasksTypeOK /\ position \in Nat /\ worker \in [Replica -> Worker]
  BY Bounds
<1>4. Unsettled' \subseteq Unsettled
  <2>1. CASE x = Free /\ Settles(r)
    <3>1. /\ position' = position /\ task' = task
          /\ \/ worker[r].pc = "reportArn" /\ UNCHANGED deadLetters
             \/ worker[r].pc = "bury" /\ deadLetters' = Append(deadLetters, worker[r].event)
          /\ Working(r)
      BY <2>1 DEF Settles, SendTo
    <3>2. Launched' = Launched
      BY <1>3, <3>1, TasksStay, SameLaunchesKeep
    <3>3. worker[r].event \in 1..Len(submissions)
      BY <3>1, WorkerHas
    <3>4. Buried \subseteq Buried' /\ worker[r].event \in Launched' \cup Buried'
      <4>1. CASE worker[r].pc = "reportArn" /\ UNCHANGED deadLetters
        BY <3>1, <3>2, <4>1, WorkerHas DEF Buried
      <4>2. CASE deadLetters' = Append(deadLetters, worker[r].event)
        <5>1. PICK o \in Nat : o = worker[r].event
          BY <3>3
        <5> QED
          BY <3>1, <4>2, <5>1, DeadLetterBuries
      <4> QED
        BY <3>1, <4>1, <4>2
    <3>5. InFlight \subseteq InFlight' \cup {worker[r].event}
      BY <1>2 DEF InFlight
    <3> QED
      BY <3>1, <3>2, <3>4, <3>5 DEF Unsettled
  <2>2. CASE HandsOver(r, x)
    <3>1. /\ position' = position + 1 /\ task' = task /\ deadLetters' = deadLetters
          /\ ~Working(r) /\ x.event = position + 1 /\ x # Free
      BY <2>2 DEF HandsOver, Free
    <3>2. Launched' = Launched /\ Buried' = Buried
      BY <1>3, <3>1, TasksStay, SameLaunchesKeep DEF Buried
    <3>3. InFlight \cup {position + 1} \subseteq InFlight'
      BY <1>2, <3>1 DEF InFlight, Working
    <3>4. 1..position' \subseteq 1..position \cup {position + 1}
      BY <1>3, <3>1
    <3> QED
      BY <3>2, <3>3, <3>4 DEF Unsettled
  <2>3. CASE Proceeds(r, x) \/ Starts(r, x)
    <3>1. /\ position' = position /\ deadLetters' = deadLetters
          /\ Working(r) /\ x.event = worker[r].event /\ x # Free
      BY <2>3, FreeWorker DEF Proceeds, Starts
    <3>2. PICK o \in Nat : o = worker[r].event
      BY <3>1, WorkerHas
    <3>3. Launched \subseteq Launched' /\ Buried' = Buried
      BY <2>3, <3>1, <3>2, ProceedsTasks, StartsTasks DEF Buried
    <3>4. InFlight \subseteq InFlight'
      BY <1>2, <3>1 DEF InFlight, Working
    <3> QED
      BY <3>1, <3>3, <3>4 DEF Unsettled
  <2> QED
    BY <2>1, <2>2, <2>3
<1> QED
  BY <1>2, <1>4, NothingLost, Bounds

LEMMA CrashLosesOne ==
  ASSUME WInv, WInv', LossInvariant, NEW r \in Replica, Crash(r)
  PROVE  LossInvariant'
<1>1. /\ position' = position /\ task' = task /\ deadLetters' = deadLetters
      /\ worker' = [worker EXCEPT ![r] = Free]
      /\ crashes' = IF Working(r) THEN crashes + 1 ELSE crashes
  BY DEF Crash, WorkerDies, Done, Working
<1>2. /\ worker'[r] = Free /\ \A q \in Replica : q # r => worker'[q] = worker[q]
  BY <1>1, FreeWorker, OneWorkerMoves
<1>3. Launched' = Launched /\ Buried' = Buried
  BY <1>1, TasksStay, SameLaunchesKeep, Bounds DEF Buried
<1>4. CASE ~Working(r)
  <2>1. InFlight \subseteq InFlight'
    BY <1>2, <1>4 DEF InFlight, Working
  <2> QED
    BY <1>1, <1>3, <1>4, <2>1, NothingLost, Bounds DEF Unsettled
<1>5. CASE Working(r)
  <2>1. PICK o : o = worker[r].event
    OBVIOUS
  <2>2. InFlight \subseteq InFlight' \cup {o}
    BY <1>2, <2>1 DEF InFlight
  <2>3. Unsettled' \subseteq Unsettled \cup {o}
    BY <1>1, <1>3, <2>2 DEF Unsettled
  <2>4. /\ IsFiniteSet(Unsettled \cup {o})
        /\ Cardinality(Unsettled \cup {o}) <= Cardinality(Unsettled) + 1
        /\ Cardinality(Unsettled \cup {o}) \in Nat
    <3>1. IsFiniteSet(Unsettled) /\ Cardinality(Unsettled) \in Nat
      BY UnsettledFinite
    <3>2. /\ IsFiniteSet(Unsettled \cup {o})
          /\ Cardinality(Unsettled \cup {o}) =
               IF o \in Unsettled THEN Cardinality(Unsettled)
               ELSE Cardinality(Unsettled) + 1
      BY <3>1, FS_AddElement
    <3> QED
      BY <3>1, <3>2
  <2>5. /\ Cardinality(Unsettled') <= Cardinality(Unsettled \cup {o})
        /\ Cardinality(Unsettled') \in Nat
    BY <2>3, <2>4, FS_Subset, FS_CardinalityType
  <2> QED
    BY <1>1, <1>5, <2>4, <2>5, UnsettledFinite, Bounds DEF LossInvariant
<1> QED
  BY <1>4, <1>5

LEMMA StepLoss ==
  ASSUME WInv, WInv', LossInvariant, [OrchestratorNext]_orchestratorVars
  PROVE  LossInvariant'
<1> SUFFICES ASSUME ~KafkaMayFail
             PROVE  LossInvariant'
  BY DEF LossInvariant
<1>1. CASE NoDelivery
  <2>1. Unsettled' = Unsettled /\ crashes' = crashes
    BY <1>1, SameLaunchesKeep DEF NoDelivery, consumerVars, Unsettled, InFlight, Buried
  <2> QED
    BY <2>1, NothingLost, Bounds
<1>2. ASSUME NEW r \in Replica, AutoCommit \/ Takeover(r)
      PROVE  LossInvariant'
  <2>1. /\ worker' = worker /\ task' = task /\ deadLetters' = deadLetters
        /\ crashes' = crashes /\ position' \in {position, committed}
    BY <1>2 DEF AutoCommit, Takeover, faultVars
  <2>2. Launched' = Launched /\ Buried' = Buried /\ InFlight' = InFlight
    BY <2>1, TasksStay, SameLaunchesKeep, Bounds DEF Buried, InFlight
  <2>3. 1..position' \subseteq 1..position
    BY <2>1, Bounds
  <2>4. Unsettled' \subseteq Unsettled
    BY <2>2, <2>3 DEF Unsettled
  <2> QED
    BY <2>1, <2>4, NothingLost, Bounds
<1>3. ASSUME NEW r \in Replica, Settles(r)
      PROVE  LossInvariant'
  BY <1>3, FreeWorker, WorkerLosesNothing
<1>4. ASSUME NEW r \in Replica, NEW x \in Worker,
             HandsOver(r, x) \/ Proceeds(r, x) \/ Starts(r, x)
      PROVE  LossInvariant'
  BY <1>4, WorkerLosesNothing
<1>5. AutoCommit => \E r \in Replica : owner = r
  BY DEF AutoCommit, WInv, OrchestratorTypeOK
<1> QED
  BY <1>1, <1>2, <1>3, <1>4, <1>5, CrashLosesOne, StepCases

\* enable_auto_commit: without a failing Kafka, no more submissions are lost than
\* replicas died while they processed one, for any replicas and rebalances.
THEOREM LossBounded == OrchestratorSpec => []LossBoundedByCrashes
<1>1. OrchestratorInit => LossInvariant
  <2> SUFFICES ASSUME OrchestratorInit
               PROVE  LossInvariant
    OBVIOUS
  <2>1. Unsettled = {} /\ crashes = 0
    BY DEF OrchestratorInit, ConsumersInit, Unsettled
  <2> QED
    BY <2>1, FS_EmptySet DEF LossInvariant
<1>2. WInv /\ LossInvariant => LossBoundedByCrashes
  <2> SUFFICES ASSUME WInv, LossInvariant, ~KafkaMayFail
               PROVE  Cardinality(Lost) <= crashes
    BY DEF LossBoundedByCrashes
  <2>1. IsFiniteSet(Unsettled) /\ Lost \subseteq Unsettled
    BY UnsettledFinite
  <2>2. Cardinality(Lost) <= Cardinality(Unsettled) /\ Cardinality(Lost) \in Nat
        /\ Cardinality(Unsettled) \in Nat
    BY <2>1, FS_Subset, FS_CardinalityType
  <2> QED
    BY <2>2, Bounds DEF LossInvariant
<1>3. WInv /\ WInv' /\ LossInvariant /\ [OrchestratorNext]_orchestratorVars
        => LossInvariant'
  BY StepLoss
<1> QED
  BY <1>1, <1>2, <1>3, WorkersCorrect, PTL DEF OrchestratorSpec

-----------------------------------------------------------------------------
(* The consumers implement the queue *)

\* The submissions in the hands of the other replicas.
HeldByOthers(r) == {worker[q].event : q \in {p \in Replica \ {r} : Working(p)}}

LEMMA Hands ==
  ASSUME WInv, NEW r \in Replica, NEW x \in Worker, worker' = [worker EXCEPT ![r] = x]
  PROVE  /\ InFlight = HeldByOthers(r) \cup
                         (IF Working(r) THEN {worker[r].event} ELSE {})
         /\ InFlight' = HeldByOthers(r) \cup (IF x # Free THEN {x.event} ELSE {})
<1>1. /\ worker'[r] = x
      /\ \A q \in Replica : q # r => worker'[q] = worker[q]
  BY OneWorkerMoves
<1>2. InFlight = HeldByOthers(r) \cup (IF Working(r) THEN {worker[r].event} ELSE {})
  BY DEF InFlight, HeldByOthers, Working
<1>3. InFlight' = HeldByOthers(r) \cup (IF x # Free THEN {x.event} ELSE {})
  <2>1. InFlight' = {worker'[q].event : q \in {p \in Replica : worker'[p] # Free}}
    BY DEF InFlight
  <2>2. HeldByOthers(r) = {worker'[q].event : q \in {p \in Replica \ {r} : worker'[p] # Free}}
    BY <1>1 DEF HeldByOthers, Working
  <2> QED
    BY <1>1, <2>1, <2>2
<1> QED
  BY <1>2, <1>3

LEMMA LostOpen ==
  ASSUME WInv
  PROVE  /\ Lost \subseteq DOMAIN submissions
         /\ 1..Len(submissions) = DOMAIN submissions
         /\ Lost \cap (Launched \cup Buried \cup InFlight) = {}
<1>1. DOMAIN submissions = 1..Len(submissions)
  BY SeqFacts DEF WInv, OrchestratorTypeOK, TopicsTypeOK
<1>2. 1..committed \subseteq 1..Len(submissions)
  BY Bounds
<1> QED
  BY <1>1, <1>2 DEF Lost

\* What auto-commit commits next.
LEMMA StepOwned ==
  ASSUME WInv, WInv', OwnedInvariant, [OrchestratorNext]_orchestratorVars
  PROVE  OwnedInvariant'
<1> SUFFICES ASSUME ~KafkaMayFail, NEW q \in Replica, owner' = q,
                    NEW o \in committed' + 1 .. position'
             PROVE  o \in (Launched \cup Buried)' \/ (Working(q)' /\ worker'[q].event = o)
  BY DEF OwnedInvariant
<1>1. /\ committed \in Nat /\ position \in Nat /\ TasksTypeOK
      /\ committed' \in Nat /\ position' \in Nat
  <2>1. committed' \in Nat /\ position' \in Nat
    BY DEF WInv, OrchestratorTypeOK
  <2> QED
    BY <2>1, Bounds
<1>2. ASSUME owner = q, o \in committed + 1 .. position
      PROVE  o \in Launched \cup Buried \/ (Working(q) /\ worker[q].event = o)
  BY <1>2 DEF OwnedInvariant
<1>3. CASE NoDelivery
  <2>1. /\ Launched' = Launched /\ Buried' = Buried /\ worker' = worker
        /\ owner' = owner /\ committed' = committed /\ position' = position
    BY <1>3, SameLaunchesKeep DEF NoDelivery, consumerVars, Buried
  <2> QED
    BY <1>2, <2>1 DEF Working
<1>4. CASE AutoCommit
  BY <1>1, <1>4 DEF AutoCommit
<1>5. ASSUME NEW r \in Replica, Takeover(r)
      PROVE  o \in (Launched \cup Buried)' \/ (Working(q)' /\ worker'[q].event = o)
  BY <1>1, <1>5 DEF Takeover
<1>6. ASSUME NEW r \in Replica, Crash(r)
      PROVE  o \in (Launched \cup Buried)' \/ (Working(q)' /\ worker'[q].event = o)
  <2>1. /\ owner = q /\ q # r
        /\ UNCHANGED <<task, deadLetters, committed, position>>
        /\ worker' = [worker EXCEPT ![r] = Free]
    BY <1>6, ReplicaAssumption DEF Crash, WorkerDies, Done
  <2>2. Launched' = Launched /\ Buried' = Buried
    BY <1>1, <2>1, TasksStay, SameLaunchesKeep DEF Buried
  <2>3. worker'[q] = worker[q]
    BY <2>1, FreeWorker, OneWorkerMoves
  <2> QED
    BY <1>2, <2>1, <2>2, <2>3 DEF Working
<1>7. ASSUME NEW r \in Replica, NEW x \in Worker, WorkerBecomes(r, x),
             position' = position, Launched \subseteq Launched', Buried \subseteq Buried',
             Working(r) => \/ x # Free /\ x.event = worker[r].event
                           \/ worker[r].event \in Launched' \cup Buried'
      PROVE  o \in (Launched \cup Buried)' \/ (Working(q)' /\ worker'[q].event = o)
  <2>1. /\ worker'[r] = x /\ \A p \in Replica : p # r => worker'[p] = worker[p]
        /\ owner = q /\ committed' = committed
    BY <1>7, OneWorkerMoves DEF WorkerBecomes
  <2>2. o \in Launched \cup Buried \/ (Working(q) /\ worker[q].event = o)
    BY <1>2, <1>7, <2>1
  <2>3. CASE q = r
    BY <1>7, <2>1, <2>2, <2>3 DEF Working
  <2>4. CASE q # r
    BY <1>7, <2>1, <2>2, <2>4 DEF Working
  <2> QED
    BY <2>3, <2>4
<1>8. ASSUME NEW r \in Replica, Settles(r)
      PROVE  o \in (Launched \cup Buried)' \/ (Working(q)' /\ worker'[q].event = o)
  <2>1. /\ WorkerBecomes(r, Free) /\ Working(r)
        /\ position' = position /\ task' = task
    BY <1>8 DEF Settles
  <2>2. Launched' = Launched
    BY <1>1, <2>1, TasksStay, SameLaunchesKeep
  <2>3. PICK e \in Nat : e = worker[r].event
    BY <2>1, WorkerHas
  <2>4. CASE worker[r].pc = "reportArn" /\ UNCHANGED deadLetters
    <3>1. Buried' = Buried /\ e \in Launched
      BY <2>1, <2>3, <2>4, WorkerHas DEF Buried
    <3> QED
      BY <1>7, <2>1, <2>2, <2>3, <3>1, FreeWorker
  <2>5. CASE worker[r].pc = "bury" /\ SendTo(deadLetters, e)
    <3>1. Buried' = Buried \cup {e}
      BY <2>1, <2>3, <2>5, DeadLetterBuries DEF SendTo
    <3> QED
      BY <1>7, <2>1, <2>2, <2>3, <3>1, FreeWorker
  <2> QED
    BY <1>8, <2>3, <2>4, <2>5 DEF Settles
<1>9. ASSUME NEW r \in Replica, NEW x \in Worker, Proceeds(r, x) \/ Starts(r, x)
      PROVE  o \in (Launched \cup Buried)' \/ (Working(q)' /\ worker'[q].event = o)
  <2>1. /\ WorkerBecomes(r, x) /\ Working(r) /\ x.event = worker[r].event /\ x # Free
        /\ position' = position /\ deadLetters' = deadLetters
    BY <1>9, FreeWorker DEF Proceeds, Starts
  <2>2. PICK e \in Nat : e = worker[r].event
    BY <2>1, WorkerHas
  <2>3. Launched \subseteq Launched' /\ Buried' = Buried
    BY <1>9, <2>1, <2>2, ProceedsTasks, StartsTasks DEF Buried
  <2> QED
    BY <1>7, <2>1, <2>3
<1>10. ASSUME NEW r \in Replica, NEW x \in Worker, HandsOver(r, x)
       PROVE  o \in (Launched \cup Buried)' \/ (Working(q)' /\ worker'[q].event = o)
  <2>1. /\ worker' = [worker EXCEPT ![r] = x]
        /\ owner = r /\ owner' = owner /\ committed' = committed /\ ~Working(r)
        /\ position' = position + 1 /\ x.event = position + 1 /\ x # Free
        /\ UNCHANGED <<task, deadLetters>>
    BY <1>10, FreeWorker DEF HandsOver, WorkerBecomes
  <2>2. Launched' = Launched /\ Buried' = Buried
    BY <1>1, <2>1, TasksStay, SameLaunchesKeep DEF Buried
  <2>3. worker'[r] = x /\ q = r
    BY <1>10, <2>1, OneWorkerMoves
  <2>4. CASE o = position + 1
    BY <2>1, <2>3, <2>4 DEF Working
  <2>5. CASE o # position + 1
    <3>1. o \in committed + 1 .. position
      BY <1>1, <2>1, <2>5
    <3> QED
      BY <1>2, <1>10, <2>1, <2>2, <2>3, <3>1
  <2> QED
    BY <2>4, <2>5
<1> QED
  BY <1>3, <1>4, <1>5, <1>6, <1>8, <1>9, <1>10, StepCases

\* A step that is none of the queue's.
QueueSame ==
  /\ UNCHANGED <<submissions, crashes>>
  /\ Launched' = Launched /\ Buried' = Buried /\ Lost' = Lost

\* A worker goes on with a submission, or is done with it.
LEMMA WorkerMaps ==
  ASSUME WInv, NEW r \in Replica, NEW x \in Worker,
         (x = Free /\ Settles(r)) \/ Proceeds(r, x) \/ Starts(r, x)
  PROVE  QueueSame \/ Queue!Next
<1>1. /\ WorkerBecomes(r, x) /\ Working(r) /\ position' = position
      /\ UNCHANGED <<submissions, committed, crashes>>
      /\ TasksTypeOK
  BY Bounds DEF Settles, Proceeds, Starts, WorkerBecomes, faultVars
<1>2. PICK o \in Nat : o = worker[r].event
  BY <1>1, WorkerHas
<1>3. /\ o \in DOMAIN submissions \ Lost /\ o \in InFlight
      /\ InFlight = HeldByOthers(r) \cup {o}
      /\ InFlight' = HeldByOthers(r) \cup (IF x # Free THEN {x.event} ELSE {})
  <2>1. /\ InFlight = HeldByOthers(r) \cup {o}
        /\ InFlight' = HeldByOthers(r) \cup (IF x # Free THEN {x.event} ELSE {})
    BY <1>1, <1>2, Hands DEF WorkerBecomes
  <2>2. o \in DOMAIN submissions /\ o \notin Lost
    BY <1>1, <1>2, <2>1, WorkerHas, LostOpen
  <2> QED
    BY <2>1, <2>2
<1>4. ASSUME Launched' = Launched \cup {o}, Buried' = Buried, Lost' = Lost
      PROVE  Queue!Next
  <2>1. Queue!Launch(o)
    BY <1>1, <1>3, <1>4 DEF Queue!Launch, Queue!Open
  <2> QED
    BY <1>3, <2>1 DEF Queue!Next
<1>5. CASE Proceeds(r, x) \/ Starts(r, x)
  <2>1. x # Free /\ x.event = o /\ deadLetters' = deadLetters
    BY <1>2, <1>5, FreeWorker DEF Proceeds, Starts
  <2>2. /\ Launched \subseteq Launched' /\ Launched' \subseteq Launched \cup {o}
        /\ Buried' = Buried
    BY <1>2, <1>5, <2>1, ProceedsTasks, StartsTasks DEF Buried
  <2>3. Lost' = Lost
    BY <1>1, <1>3, <2>1, <2>2 DEF Lost
  <2>4. CASE o \in Launched'
    BY <1>4, <2>2, <2>3, <2>4
  <2>5. CASE o \notin Launched'
    BY <1>1, <2>2, <2>3, <2>5 DEF QueueSame
  <2> QED
    BY <2>4, <2>5
<1>6. CASE x = Free /\ Settles(r)
  <2>1. Launched' = Launched
    BY <1>1, <1>6, TasksStay, SameLaunchesKeep DEF Settles
  <2>2. InFlight' = HeldByOthers(r)
    BY <1>3, <1>6
  <2>3. CASE worker[r].pc = "reportArn" /\ UNCHANGED deadLetters
    <3>1. Buried' = Buried /\ o \in Launched
      BY <1>1, <1>2, <2>3, WorkerHas DEF Buried
    <3>2. Lost' = Lost
      BY <1>1, <1>3, <2>1, <2>2, <3>1 DEF Lost
    <3> QED
      BY <1>1, <2>1, <3>1, <3>2 DEF QueueSame
  <2>4. CASE deadLetters' = Append(deadLetters, o)
    <3>1. Buried' = Buried \cup {o}
      BY <1>1, <1>2, <2>4, DeadLetterBuries
    <3>2. Lost' = Lost
      BY <1>1, <1>3, <2>1, <2>2, <3>1 DEF Lost
    <3>3. Queue!Bury(o)
      BY <1>1, <1>3, <2>1, <3>1, <3>2 DEF Queue!Bury, Queue!Open
    <3> QED
      BY <1>3, <3>3 DEF Queue!Next
  <2>5. CASE KafkaMayFail /\ UNCHANGED deadLetters
    <3> DEFINE S == Lost' \ Lost
    <3>1. Buried' = Buried
      BY <2>5 DEF Buried
    <3>2. /\ Lost \subseteq Lost' /\ S \subseteq {o}
          /\ S \cap (Launched \cup Buried) = {}
      BY <1>1, <1>3, <2>1, <2>2, <3>1 DEF Lost
    <3>3. Queue!Drop(S)
      BY <1>1, <1>3, <2>1, <2>5, <3>1, <3>2 DEF Queue!Drop, Queue!Open, Queue!Settled
    <3>4. S \in SUBSET DOMAIN submissions
      BY <1>3, <3>2
    <3> QED
      BY <3>3, <3>4 DEF Queue!Next
  <2> QED
    BY <1>2, <1>6, <2>3, <2>4, <2>5 DEF Settles, SendTo
<1> QED
  BY <1>5, <1>6

LEMMA CrashMaps ==
  ASSUME WInv, NEW r \in Replica, Crash(r)
  PROVE  QueueSame \/ Queue!Next
<1>1. /\ UNCHANGED <<submissions, task, committed, deadLetters>>
      /\ worker' = [worker EXCEPT ![r] = Free]
      /\ crashes' = IF Working(r) THEN crashes + 1 ELSE crashes
  BY DEF Crash, WorkerDies, Done, Working
<1>2. Launched' = Launched /\ Buried' = Buried
  BY <1>1, TasksStay, SameLaunchesKeep, Bounds DEF Buried
<1>3. /\ InFlight = HeldByOthers(r) \cup
                      (IF Working(r) THEN {worker[r].event} ELSE {})
      /\ InFlight' = HeldByOthers(r)
  <2>1. /\ InFlight = HeldByOthers(r) \cup
                        (IF Working(r) THEN {worker[r].event} ELSE {})
        /\ InFlight' = HeldByOthers(r) \cup (IF Free # Free THEN {Free.event} ELSE {})
    BY <1>1, FreeWorker, Hands, Zenon
  <2> QED
    BY <2>1
<1>4. CASE ~Working(r)
  <2>1. Lost' = Lost
    BY <1>1, <1>2, <1>3, <1>4 DEF Lost
  <2> QED
    BY <1>1, <1>2, <1>4, <2>1 DEF QueueSame
<1>5. CASE Working(r)
  <2>1. PICK o \in Nat : o = worker[r].event
    BY <1>5, WorkerHas
  <2>2. o \in DOMAIN submissions \ Lost
    BY <1>3, <1>5, <2>1, WorkerHas, LostOpen
  <2>3. Lost' = Lost \/ (o \notin Launched \cup Buried /\ Lost' = Lost \cup {o})
    <3>1. InFlight = InFlight' \cup {o}
      BY <1>3, <1>5, <2>1
    <3>2. \/ o \in InFlight' \cup Launched \cup Buried \/ o \notin 1..committed
          \/ /\ o \in 1..committed
             /\ o \notin InFlight' \cup Launched \cup Buried
      OBVIOUS
    <3> QED
      BY <1>1, <1>2, <3>1, <3>2 DEF Lost
  <2>4. Queue!Die
    BY <1>1, <1>2, <1>5, <2>2, <2>3 DEF Queue!Die, Queue!Open, Queue!Settled
  <2> QED
    BY <2>4 DEF Queue!Next
<1> QED
  BY <1>4, <1>5

\* Where the hazard is: a commit while messages are being processed.
LEMMA CommitMaps ==
  ASSUME WInv, OwnedInvariant, AutoCommit
  PROVE  QueueSame \/ Queue!Next
<1>1. /\ UNCHANGED <<submissions, task, worker, deadLetters, crashes>>
      /\ committed' = position
      /\ committed \in Nat /\ position \in Nat /\ committed <= position
  BY Bounds DEF AutoCommit, faultVars
<1>2. Launched' = Launched /\ Buried' = Buried /\ InFlight' = InFlight
  BY <1>1, TasksStay, SameLaunchesKeep, Bounds DEF Buried, InFlight
<1> DEFINE S == Lost' \ Lost
<1>3. /\ Lost \subseteq Lost' /\ S \subseteq committed + 1 .. position
      /\ S \cap (InFlight \cup Launched \cup Buried) = {}
  BY <1>1, <1>2 DEF Lost
<1> HIDE DEF S
<1>4. CASE KafkaMayFail
  <2>1. S \subseteq DOMAIN submissions
    <3>1. committed + 1 .. position \subseteq 1..Len(submissions)
      BY Bounds
    <3> QED
      BY <1>3, <3>1, LostOpen
  <2>2. Queue!Drop(S)
    BY <1>1, <1>2, <1>3, <1>4, <2>1
      DEF Queue!Drop, Queue!Open, Queue!Settled, S
  <2> QED
    BY <2>1, <2>2 DEF Queue!Next
<1>5. CASE ~KafkaMayFail
  <2>1. PICK r \in Replica : owner = r
    BY DEF AutoCommit, WInv, OrchestratorTypeOK
  <2>2. committed + 1 .. position \subseteq InFlight \cup Launched \cup Buried
    BY <1>5, <2>1 DEF OwnedInvariant, InFlight, Working
  <2>3. Lost' = Lost
    BY <1>3, <2>2 DEF S
  <2> QED
    BY <1>1, <1>2, <2>3 DEF QueueSame
<1> QED
  BY <1>4, <1>5

LEMMA StepMaps ==
  ASSUME WInv, OwnedInvariant, [OrchestratorNext]_orchestratorVars
  PROVE  [Queue!Next]_Queue!queueVars
<1>1. CASE NoDelivery
  <2>1. /\ Launched' = Launched /\ Buried' = Buried /\ Lost' = Lost /\ crashes' = crashes
    BY <1>1, SameLaunchesKeep DEF NoDelivery, consumerVars, Buried, Lost, InFlight
  <2>2. CASE submissions' = submissions
    BY <2>1, <2>2 DEF Queue!queueVars
  <2>3. CASE \E j \in Job : submissions' = Append(submissions, j)
    BY <2>1, <2>3 DEF Queue!Next, Queue!Submit
  <2> QED
    BY <1>1, <2>2, <2>3 DEF NoDelivery
<1>2. ASSUME NEW r \in Replica, Takeover(r)
      PROVE  QueueSame
  <2>1. UNCHANGED <<submissions, task, worker, deadLetters, committed, crashes>>
    BY <1>2 DEF Takeover
  <2>2. Launched' = Launched /\ Buried' = Buried /\ InFlight' = InFlight
    BY <2>1, TasksStay, SameLaunchesKeep, Bounds DEF Buried, InFlight
  <2> QED
    BY <2>1, <2>2 DEF QueueSame, Lost
<1>3. ASSUME NEW r \in Replica, NEW x \in Worker, HandsOver(r, x)
      PROVE  QueueSame
  <2>1. /\ UNCHANGED <<submissions, task, deadLetters, committed, crashes>>
        /\ worker' = [worker EXCEPT ![r] = x]
        /\ ~Working(r) /\ x.event = position + 1 /\ x # Free
    BY <1>3, FreeWorker DEF HandsOver, WorkerBecomes, faultVars
  <2>2. Launched' = Launched /\ Buried' = Buried
    BY <2>1, TasksStay, SameLaunchesKeep, Bounds DEF Buried
  <2>3. InFlight' = InFlight \cup {position + 1}
    BY <2>1, Hands
  <2>4. position + 1 \notin 1..committed
    BY Bounds
  <2> QED
    BY <2>1, <2>2, <2>3, <2>4 DEF QueueSame, Lost
<1>4. QueueSame => UNCHANGED Queue!queueVars
  BY DEF QueueSame, Queue!queueVars
<1> QED
  BY <1>1, <1>2, <1>3, <1>4, FreeWorker, WorkerMaps, CrashMaps, CommitMaps, StepCases

\* JobConsumer with enable_auto_commit: for any replicas, rebalances, redeliveries and
\* crashes the consumers behave as an at-least-once queue: what is lost is lost by a
\* death, one submission at a time, and stays lost; what is settled never is.
THEOREM ConsumersImplementQueue == OrchestratorSpec => ImplementsQueue
<1>1. OrchestratorInit => Queue!Init
  BY DEF OrchestratorInit, TopicsInit, ConsumersInit, TasksInit, Queue!Init, Launched,
         Buried, Lost
<1>2. OrchestratorInit => OwnedInvariant
  BY DEF OrchestratorInit, ConsumersInit, OwnedInvariant
<1>3. WInv /\ WInv' /\ OwnedInvariant /\ [OrchestratorNext]_orchestratorVars
        => OwnedInvariant'
  BY StepOwned
<1>4. WInv /\ OwnedInvariant /\ [OrchestratorNext]_orchestratorVars
        => [Queue!Next]_Queue!queueVars
  BY StepMaps
<1> QED
  BY <1>1, <1>2, <1>3, <1>4, WorkersCorrect, PTL
    DEF OrchestratorSpec, ImplementsQueue, Queue!Spec

-----------------------------------------------------------------------------
(* What a submission comes to when nothing is rebalanced *)

\* What deadLetters becomes in a step of a worker that is done.
LEMMA SettlesBuries ==
  ASSUME WInv, NEW r \in Replica, Settles(r), NEW o \in Nat, o = worker[r].event
  PROVE  \/ Buried' = Buried
         \/ Buried' = Buried \cup {o} /\ worker[r].pc = "bury"
<1>1. CASE UNCHANGED deadLetters
  BY <1>1 DEF Buried
<1>2. CASE deadLetters' = Append(deadLetters, o) /\ worker[r].pc = "bury"
  BY <1>2, DeadLetterBuries DEF Settles
<1> QED
  BY <1>1, <1>2 DEF Settles, SendTo

\* Fewer workers, and nothing else, cannot break it.
LEMMA OnceWithFewer ==
  ASSUME DeliveredOnce,
         position' = position, Buried' = Buried, \A o : Launches(o)' = Launches(o),
         \A t \in DOMAIN task' : t \in DOMAIN task /\ task'[t].event = task[t].event,
         \A r \in Replica : Working(r)' => Working(r) /\ worker'[r] = worker[r]
  PROVE  DeliveredOnce'
<1>1. \A r \in Replica : Working(r)' => worker'[r].event <= position'
  BY DEF DeliveredOnce
<1>2. \A q, r \in Replica :
        Working(q)' /\ Working(r)' /\ worker'[q].event = worker'[r].event => q = r
  BY DEF DeliveredOnce
<1>3. \A o \in Buried' : o <= position' /\ Launches(o)' = {}
  BY DEF DeliveredOnce
<1>4. \A t \in DOMAIN task' : task'[t].event <= position'
  BY DEF DeliveredOnce
<1>5. ASSUME NEW r \in Replica, Working(r)'
      PROVE  /\ worker'[r].event \notin Buried'
             /\ worker'[r].pc # "reportArn" => Launches(worker[r].event)' = {}
  <2>1. PICK o : o = worker[r].event
    OBVIOUS
  <2>2. o = worker'[r].event
    BY <1>5, <2>1
  <2>3. o \notin Buried /\ (worker[r].pc # "reportArn" => Launches(o) = {})
    BY <1>5, <2>1 DEF DeliveredOnce
  <2>4. Launches(o)' = Launches(o)
    OBVIOUS
  <2> QED
    BY <1>5, <2>2, <2>3, <2>4
<1> QED
  BY <1>1, <1>2, <1>3, <1>4, <1>5 DEF DeliveredOnce

LEMMA WorkerDeliversOnce ==
  ASSUME WInv, WInv', DeliveredOnce, NEW r \in Replica, NEW x \in Worker,
         NEW o \in Nat,
         \/ x = Free /\ Settles(r) /\ o = worker[r].event
         \/ HandsOver(r, x) /\ o = position + 1
         \/ (Proceeds(r, x) \/ Starts(r, x)) /\ o = worker[r].event
  PROVE  DeliveredOnce'
<1>1. WorkerBecomes(r, x)
  BY DEF Settles, HandsOver, Proceeds, Starts
<1>2. /\ worker' \in [Replica -> Worker] /\ worker'[r] = x
      /\ \A q \in Replica : q # r => worker'[q] = worker[q]
      /\ Working(r)' <=> x # Free
      /\ \A q \in Replica : q # r => (Working(q)' <=> Working(q))
  BY <1>1, OneWorkerMoves DEF WorkerBecomes
<1>3. /\ HandsOver(r, x) => o = position + 1
      /\ ~HandsOver(r, x) => Working(r) /\ o = worker[r].event /\ position' = position
  BY DEF HandsOver, Settles, Proceeds, Starts
<1>4. /\ TasksTypeOK /\ position \in Nat /\ position' \in Nat /\ position <= position'
      /\ o <= position'
  <2>1. TasksTypeOK /\ position \in Nat
    BY Bounds
  <2>2. CASE HandsOver(r, x)
    BY <1>3, <2>1, <2>2 DEF HandsOver
  <2>3. CASE ~HandsOver(r, x)
    BY <1>3, <2>1, <2>3 DEF DeliveredOnce
  <2> QED
    BY <2>1, <2>2, <2>3
\* What the step does to o, and that it does nothing to other submissions.
<1>5. /\ \A p : p # o => Launches(p)' = Launches(p)
      /\ Buried' \subseteq Buried \cup {o}
      /\ \A t \in DOMAIN task' : task'[t].event = o
                                 \/ (t \in DOMAIN task /\ task'[t] = task[t])
  <2>1. CASE x = Free /\ Settles(r)
    BY <1>4, <2>1, SettlesBuries, TasksStay, SameLaunchesKeep DEF Settles
  <2>2. CASE HandsOver(r, x)
    BY <1>4, <2>2, TasksStay, SameLaunchesKeep DEF HandsOver, Buried
  <2>3. CASE Proceeds(r, x)
    <3>1. o = worker[r].event
      BY <2>3 DEF Proceeds, HandsOver, Settles
    <3> QED
      BY <2>3, <3>1, ProceedsTasks DEF Proceeds, Buried
  <2>4. CASE Starts(r, x)
    <3>1. o = worker[r].event
      BY <2>4 DEF Starts, HandsOver, Settles
    <3> QED
      BY <2>4, <3>1, StartsTasks DEF Starts, Buried
  <2> QED
    BY <2>1, <2>2, <2>3, <2>4
\* No other worker has o in hand.
<1>6. \A q \in Replica : q # r /\ Working(q) => worker[q].event # o
  <2>1. CASE HandsOver(r, x)
    <3>1. \A q \in Replica : Working(q) => worker[q].event \in Nat /\ worker[q].event <= position
      BY WorkerHas, Bounds DEF DeliveredOnce
    <3> QED
      BY <1>3, <1>4, <2>1, <3>1
  <2>2. CASE Working(r) /\ o = worker[r].event
    BY <2>2 DEF DeliveredOnce
  <2> QED
    BY <2>1, <2>2 DEF Settles, Proceeds, Starts
<1>7. x # Free => x.event = o
  BY FreeWorker DEF HandsOver, Proceeds, Starts, Settles
\* What r leaves o like.
<1>8. /\ o \in Buried' => Launches(o)' = {}
      /\ x # Free => o \notin Buried' /\ (x.pc # "reportArn" => Launches(o)' = {})
  <2>1. CASE HandsOver(r, x)
    <3>1. Launches(o) = {} /\ o \notin Buried
      <4>1. o = position + 1
        BY <1>3, <2>1
      <4>2. \A t \in DOMAIN task : task[t].event <= position
        BY DEF DeliveredOnce
      <4>3. \A t \in DOMAIN task : task[t].event # o
        BY <1>4, <4>1, <4>2
      <4>4. o \notin Buried
        BY <1>4, <4>1 DEF DeliveredOnce
      <4> QED
        BY <4>3, <4>4 DEF Launches
    <3>2. Launches(o)' = Launches(o) /\ Buried' = Buried
      BY <1>4, <2>1, TasksStay, SameLaunchesKeep DEF HandsOver, Buried
    <3> QED
      BY <3>1, <3>2
  <2>2. CASE Working(r) /\ o = worker[r].event
    <3>1. o \notin Buried /\ (worker[r].pc # "reportArn" => Launches(o) = {})
      BY <2>2 DEF DeliveredOnce
    <3>2. CASE x = Free /\ Settles(r)
      <4>1. Launches(o)' = Launches(o)
        BY <1>4, <3>2, TasksStay, SameLaunchesKeep DEF Settles
      <4>2. \/ Buried' = Buried
            \/ Buried' = Buried \cup {o} /\ worker[r].pc = "bury"
        BY <2>2, <3>2, SettlesBuries
      <4> QED
        BY <3>1, <3>2, <4>1, <4>2
    <3>3. CASE Proceeds(r, x)
      <4>1. \A p : Launches(p)' = Launches(p)
        BY <2>2, <3>3, ProceedsTasks
      <4>2. Launches(o)' = Launches(o)
        BY <4>1
      <4>3. Buried' = Buried
        BY <3>3 DEF Proceeds, Buried
      <4> QED
        BY <3>1, <3>3, <4>2, <4>3 DEF Proceeds
    <3>4. CASE Starts(r, x)
      BY <3>1, <3>4 DEF Starts, Buried
    <3>5. CASE HandsOver(r, x)
      BY <2>1, <3>5
    <3> QED
      BY <3>2, <3>3, <3>4, <3>5
  <2> QED
    BY <2>1, <2>2 DEF Settles, Proceeds, Starts
<1>9. ASSUME NEW q \in Replica, Working(q)'
      PROVE  /\ worker'[q].event <= position'
             /\ worker'[q].event \notin Buried'
             /\ worker'[q].pc # "reportArn" => Launches(worker[q].event)' = {}
  <2>1. CASE q = r
    BY <1>2, <1>4, <1>7, <1>8, <1>9, <2>1
  <2>2. CASE q # r
    <3>1. PICK p : p = worker[q].event
      OBVIOUS
    <3>2. Working(q) /\ worker'[q] = worker[q] /\ p # o
      BY <1>2, <1>6, <1>9, <2>2, <3>1
    <3>3. /\ p <= position /\ p \notin Buried
          /\ worker[q].pc # "reportArn" => Launches(p) = {}
      BY <3>1, <3>2 DEF DeliveredOnce
    <3>4. Launches(p)' = Launches(p) /\ p \notin Buried' /\ p \in Nat
      BY <1>5, <3>1, <3>2, <3>3, WorkerHas, Bounds
    <3> QED
      BY <1>4, <3>1, <3>2, <3>3, <3>4
  <2> QED
    BY <2>1, <2>2
<1>10. \A p, q \in Replica :
        Working(p)' /\ Working(q)' /\ worker'[p].event = worker'[q].event => p = q
  BY <1>2, <1>6, <1>7 DEF DeliveredOnce
<1>11. ASSUME NEW p \in Buried'
       PROVE  p <= position' /\ Launches(p)' = {}
  <2>1. CASE p = o
    BY <1>4, <1>8, <1>11, <2>1
  <2>2. CASE p # o
    <3>1. p \in Buried /\ p <= position /\ Launches(p) = {}
      BY <1>5, <1>11, <2>2 DEF DeliveredOnce
    <3>2. p \in Nat
      BY <3>1, Bounds, SeqFacts DEF Buried
    <3> QED
      BY <1>4, <1>5, <2>2, <3>1, <3>2
  <2> QED
    BY <2>1, <2>2
<1>12. \A t \in DOMAIN task' : task'[t].event <= position'
  <2>1. \A t \in DOMAIN task : task[t].event \in Nat /\ task[t].event <= position
    BY Bounds DEF DeliveredOnce, WInv, WorkersInvariant
  <2> QED
    BY <1>4, <1>5, <2>1
<1> QED
  BY <1>9, <1>10, <1>11, <1>12 DEF DeliveredOnce


LEMMA StepOnce ==
  ASSUME WInv, WInv', OnceInvariant, [OrchestratorNext]_orchestratorVars
  PROVE  OnceInvariant'
<1> SUFFICES ASSUME takeovers' = 0
             PROVE  DeliveredOnce'
  BY DEF OnceInvariant
<1>1. TasksTypeOK /\ takeovers \in Nat
  BY Bounds
<1>2. CASE NoDelivery
  <2>1. DeliveredOnce
    BY <1>1, <1>2 DEF NoDelivery, OnceInvariant
  <2>2. /\ position' = position /\ worker' = worker /\ Buried' = Buried
        /\ \A t \in DOMAIN task' : t \in DOMAIN task /\ task'[t].event = task[t].event
    BY <1>2 DEF NoDelivery, consumerVars, Buried, SameLaunches, SameTask
  <2>3. \A o : Launches(o)' = Launches(o)
    BY <1>2, SameLaunchesKeep DEF NoDelivery
  <2>4. \A r \in Replica : Working(r)' => Working(r) /\ worker'[r] = worker[r]
    BY <2>2 DEF Working
  <2> QED
    BY <2>1, <2>2, <2>3, <2>4, OnceWithFewer
<1>3. ASSUME NEW r \in Replica, AutoCommit \/ Crash(r)
      PROVE  DeliveredOnce'
  <2>1. DeliveredOnce
    BY <1>1, <1>3 DEF AutoCommit, Crash, WorkerDies, OnceInvariant, faultVars
  <2>2. /\ position' = position /\ task' = task /\ Buried' = Buried
        /\ worker' = worker \/ worker' = [worker EXCEPT ![r] = Free]
    BY <1>3 DEF AutoCommit, Crash, WorkerDies, Done, Buried
  <2>3. \A o : Launches(o)' = Launches(o)
    BY <1>1, <2>2, TasksStay, SameLaunchesKeep
  <2>4. \A q \in Replica : Working(q)' => Working(q) /\ worker'[q] = worker[q]
    BY <2>2, Bounds DEF Working
  <2> QED
    BY <2>1, <2>2, <2>3, <2>4, OnceWithFewer
<1>4. ASSUME NEW r \in Replica, Takeover(r)
      PROVE  FALSE
  BY <1>1, <1>4 DEF Takeover
<1>5. ASSUME NEW r \in Replica, Settles(r)
      PROVE  DeliveredOnce'
  <2>1. DeliveredOnce
    BY <1>5 DEF Settles, WorkerBecomes, faultVars, OnceInvariant
  <2>2. PICK o \in Nat : o = worker[r].event
    BY <1>5, WorkerHas DEF Settles
  <2> QED
    BY <1>5, <2>1, <2>2, FreeWorker, WorkerDeliversOnce
<1>6. ASSUME NEW r \in Replica, NEW x \in Worker, HandsOver(r, x)
      PROVE  DeliveredOnce'
  <2>1. DeliveredOnce
    BY <1>6 DEF HandsOver, WorkerBecomes, faultVars, OnceInvariant
  <2>2. PICK o \in Nat : o = position + 1
    BY Bounds
  <2> QED
    BY <1>6, <2>1, <2>2, WorkerDeliversOnce
<1>7. ASSUME NEW r \in Replica, NEW x \in Worker, Proceeds(r, x) \/ Starts(r, x)
      PROVE  DeliveredOnce'
  <2>1. DeliveredOnce
    BY <1>7 DEF Proceeds, Starts, WorkerBecomes, faultVars, OnceInvariant
  <2>2. Working(r)
    BY <1>7 DEF Proceeds, Starts
  <2>3. PICK o \in Nat : o = worker[r].event
    BY <2>2, WorkerHas
  <2> QED
    BY <1>7, <2>1, <2>3, WorkerDeliversOnce
<1>8. AutoCommit => \E r \in Replica : owner = r
  BY DEF AutoCommit, WInv, OrchestratorTypeOK
<1> QED
  BY <1>2, <1>3, <1>4, <1>5, <1>6, <1>7, <1>8, StepCases

\* While no partition changes hands, a submission in the DLQ has no task that the
\* orchestrator knows of, whatever RunTask answers.
THEOREM NeverBoth == OrchestratorSpec => []NeverLaunchedAndBuried
<1>1. OrchestratorInit => OnceInvariant
  <2> SUFFICES ASSUME OrchestratorInit
               PROVE  DeliveredOnce
    BY DEF OnceInvariant
  <2>1. /\ \A r \in Replica : ~Working(r)
        /\ Buried = {} /\ DOMAIN task = {}
    BY DEF OrchestratorInit, ConsumersInit, TasksInit, Working, Buried
  <2> QED
    BY <2>1 DEF DeliveredOnce
<1>2. OnceInvariant => NeverLaunchedAndBuried
  <2> SUFFICES ASSUME DeliveredOnce, NEW t \in DOMAIN task, task[t].acked,
                      task[t].event \in Buried
               PROVE  FALSE
    BY DEF OnceInvariant, NeverLaunchedAndBuried
  <2>1. t \in Launches(task[t].event)
    BY DEF Launches
  <2> QED
    BY <2>1 DEF DeliveredOnce
<1>3. WInv /\ WInv' /\ OnceInvariant /\ [OrchestratorNext]_orchestratorVars
        => OnceInvariant'
  BY StepOnce
<1> QED
  BY <1>1, <1>2, <1>3, WorkersCorrect, PTL DEF OrchestratorSpec

-----------------------------------------------------------------------------
(* How often a submission is launched *)

\* The budget of any offset, of submissions still to come too.
LEMMA LaunchesWithinBudget ==
  ASSUME WInv, LaunchInvariant, NEW o \in Nat
  PROVE  /\ IsFiniteSet(Launches(o)) /\ IsFiniteSet(Launching(o))
         /\ Cardinality(Launches(o)) \in Nat /\ Cardinality(Launching(o)) \in Nat
         /\ Cardinality(Launches(o)) + Cardinality(Launching(o)) <= LaunchBudget(o)
<1>1. IsFiniteSet(Launches(o))
  <2>1. DOMAIN task = 1..Len(task) /\ Len(task) \in Nat
    BY Bounds, SeqFacts DEF TasksTypeOK
  <2>2. IsFiniteSet(1..Len(task))
    BY <2>1, FS_Interval
  <2>3. Launches(o) \subseteq 1..Len(task)
    BY <2>1 DEF Launches
  <2> QED
    BY <2>2, <2>3, FS_Subset
<1>2. IsFiniteSet(Launching(o))
  <2>1. Launching(o) \subseteq Replica
    BY DEF Launching
  <2> QED
    BY <2>1, ReplicaAssumption, FS_Subset
<1>3. Cardinality(Launches(o)) \in Nat /\ Cardinality(Launching(o)) \in Nat
  BY <1>1, <1>2, FS_CardinalityType
<1>4. CASE o \in 1..Len(submissions)
  BY <1>1, <1>2, <1>3, <1>4 DEF LaunchInvariant
<1>5. CASE o \notin 1..Len(submissions)
  <2>1. Launches(o) = {}
    BY <1>5 DEF WInv, WorkersInvariant, Launches
  <2>2. Launching(o) = {}
    BY <1>5, FreeWorker DEF WInv, WorkersInvariant, Launching, Working
  <2>3. Cardinality({}) = 0
    BY FS_EmptySet
  <2>4. 0 <= LaunchBudget(o)
    BY Bounds DEF LaunchBudget
  <2> QED
    BY <1>1, <1>2, <1>3, <2>1, <2>2, <2>3, <2>4
<1> QED
  BY <1>4, <1>5

\* A step that launches nothing and hands nothing out keeps within the budget.
LEMMA NoMoreLaunches ==
  ASSUME WInv, LaunchInvariant, NEW o \in Nat,
         Launches(o)' = Launches(o), Launching(o)' \subseteq Launching(o),
         LaunchBudget(o) \in Nat, LaunchBudget(o)' \in Nat,
         LaunchBudget(o) <= LaunchBudget(o)'
  PROVE  Cardinality(Launches(o))' + Cardinality(Launching(o))' <= LaunchBudget(o)'
<1>1. /\ IsFiniteSet(Launching(o))
      /\ Cardinality(Launches(o)) \in Nat /\ Cardinality(Launching(o)) \in Nat
      /\ Cardinality(Launches(o)) + Cardinality(Launching(o)) <= LaunchBudget(o)
  BY LaunchesWithinBudget
<1>2. /\ Cardinality(Launching(o)') <= Cardinality(Launching(o))
      /\ Cardinality(Launching(o)') \in Nat
  BY <1>1, FS_Subset, FS_CardinalityType
<1> QED
  BY <1>1, <1>2

LEMMA BudgetFacts ==
  ASSUME WInv, NEW o \in Nat
  PROVE  /\ LaunchBudget(o) \in Nat
         /\ position' = position /\ takeovers' = takeovers
              => LaunchBudget(o)' = LaunchBudget(o)
         /\ position' = position /\ takeovers' = takeovers + 1
              => LaunchBudget(o)' = LaunchBudget(o) + 1
         /\ position' = position + 1 /\ takeovers' = takeovers /\ o # position + 1
              => LaunchBudget(o)' = LaunchBudget(o)
         /\ position' = position + 1 /\ takeovers' = takeovers /\ o = position + 1
              => LaunchBudget(o)' = LaunchBudget(o) + 1
         /\ position' = committed /\ takeovers' = takeovers + 1
              => LaunchBudget(o)' \in Nat /\ LaunchBudget(o) <= LaunchBudget(o)'
BY Bounds DEF LaunchBudget

\* Who may still launch o, after a worker's step.
LEMMA WorkerLaunching ==
  ASSUME WInv, NEW r \in Replica, NEW x \in Worker, WorkerBecomes(r, x), NEW o \in Nat
  PROVE  /\ Launching(o)' \subseteq Launching(o) \cup {r}
         /\ x.event # o \/ x.pc \notin {"provision", "launch"}
              => Launching(o)' \subseteq Launching(o) \ {r}
         /\ worker[r].event = o /\ worker[r].pc \in {"provision", "launch"}
              => Launching(o)' \subseteq Launching(o)
<1>1. worker'[r] = x /\ \A q \in Replica : q # r => worker'[q] = worker[q]
  BY OneWorkerMoves DEF WorkerBecomes
<1> QED
  BY <1>1 DEF Launching

LEMMA StepLaunches ==
  ASSUME WInv, WInv', LaunchInvariant, [OrchestratorNext]_orchestratorVars
  PROVE  LaunchInvariant'
<1> SUFFICES ASSUME NEW o \in Nat
             PROVE  Cardinality(Launches(o))' + Cardinality(Launching(o))'
                      <= LaunchBudget(o)'
  BY Bounds DEF LaunchInvariant
<1>1. TasksTypeOK /\ LaunchBudget(o) \in Nat /\ takeovers \in Nat
  BY Bounds, BudgetFacts
<1>2. CASE NoDelivery
  <2>1. position' = position /\ worker' = worker
    BY <1>2 DEF NoDelivery, consumerVars
  <2>2. LaunchBudget(o)' \in {LaunchBudget(o), LaunchBudget(o) + 1}
    BY <1>2, <2>1, BudgetFacts DEF NoDelivery
  <2>3. Launches(o)' = Launches(o) /\ Launching(o)' = Launching(o)
    BY <1>2, <2>1, SameLaunchesKeep DEF NoDelivery, Launching
  <2> QED
    BY <1>1, <2>2, <2>3, NoMoreLaunches
<1>3. ASSUME NEW r \in Replica, AutoCommit \/ Takeover(r) \/ Crash(r)
      PROVE  Cardinality(Launches(o))' + Cardinality(Launching(o))' <= LaunchBudget(o)'
  <2>1. /\ task' = task
        /\ worker' = worker \/ worker' = [worker EXCEPT ![r] = Free]
        /\ \/ position' = position /\ takeovers' = takeovers
           \/ position' = committed /\ takeovers' = takeovers + 1
    BY <1>3 DEF AutoCommit, Takeover, Crash, WorkerDies, Done, faultVars
  <2>2. Launches(o)' = Launches(o)
    BY <1>1, <2>1, TasksStay, SameLaunchesKeep
  <2>3. Launching(o)' \subseteq Launching(o)
    BY <2>1, FreeWorker, Bounds DEF Launching
  <2>4. LaunchBudget(o)' \in Nat /\ LaunchBudget(o) <= LaunchBudget(o)'
    BY <1>1, <2>1, BudgetFacts
  <2> QED
    BY <1>1, <2>2, <2>3, <2>4, NoMoreLaunches
<1>4. ASSUME NEW r \in Replica, Settles(r)
      PROVE  Cardinality(Launches(o))' + Cardinality(Launching(o))' <= LaunchBudget(o)'
  <2>1. /\ WorkerBecomes(r, Free) /\ task' = task
        /\ position' = position /\ takeovers' = takeovers
    BY <1>4 DEF Settles, WorkerBecomes, faultVars
  <2>2. Launches(o)' = Launches(o) /\ LaunchBudget(o)' = LaunchBudget(o)
    BY <1>1, <2>1, TasksStay, SameLaunchesKeep, BudgetFacts
  <2>3. Launching(o)' \subseteq Launching(o)
    BY <2>1, FreeWorker, WorkerLaunching
  <2> QED
    BY <1>1, <2>2, <2>3, NoMoreLaunches
<1>5. ASSUME NEW r \in Replica, NEW x \in Worker, HandsOver(r, x)
      PROVE  Cardinality(Launches(o))' + Cardinality(Launching(o))' <= LaunchBudget(o)'
  <2>1. /\ WorkerBecomes(r, x) /\ task' = task /\ x.event = position + 1
        /\ position' = position + 1 /\ takeovers' = takeovers
    BY <1>5 DEF HandsOver, WorkerBecomes, faultVars
  <2>2. Launches(o)' = Launches(o)
    BY <1>1, <2>1, TasksStay, SameLaunchesKeep
  <2>3. CASE o # position + 1
    <3>1. LaunchBudget(o)' = LaunchBudget(o) /\ Launching(o)' \subseteq Launching(o)
      BY <2>1, <2>3, BudgetFacts, WorkerLaunching
    <3> QED
      BY <1>1, <2>2, <3>1, NoMoreLaunches
  <2>4. CASE o = position + 1
    <3>1. /\ LaunchBudget(o)' = LaunchBudget(o) + 1
          /\ Launching(o)' \subseteq Launching(o) \cup {r}
      BY <2>1, <2>4, BudgetFacts, WorkerLaunching
    <3>2. /\ IsFiniteSet(Launching(o))
          /\ Cardinality(Launches(o)) \in Nat /\ Cardinality(Launching(o)) \in Nat
          /\ Cardinality(Launches(o)) + Cardinality(Launching(o)) <= LaunchBudget(o)
      BY LaunchesWithinBudget
    <3>3. /\ IsFiniteSet(Launching(o) \cup {r})
          /\ Cardinality(Launching(o) \cup {r}) \in Nat
          /\ Cardinality(Launching(o) \cup {r}) <= Cardinality(Launching(o)) + 1
      <4>1. /\ IsFiniteSet(Launching(o) \cup {r})
            /\ Cardinality(Launching(o) \cup {r}) =
                 IF r \in Launching(o) THEN Cardinality(Launching(o))
                 ELSE Cardinality(Launching(o)) + 1
        BY <3>2, FS_AddElement
      <4> QED
        BY <3>2, <4>1
    <3>4. /\ Cardinality(Launching(o)') \in Nat
          /\ Cardinality(Launching(o)') <= Cardinality(Launching(o) \cup {r})
      BY <3>1, <3>3, FS_Subset, FS_CardinalityType
    <3> QED
      BY <1>1, <2>2, <3>1, <3>2, <3>3, <3>4
  <2> QED
    BY <2>3, <2>4
<1>6. ASSUME NEW r \in Replica, NEW x \in Worker, Proceeds(r, x)
      PROVE  Cardinality(Launches(o))' + Cardinality(Launching(o))' <= LaunchBudget(o)'
  <2>1. /\ WorkerBecomes(r, x) /\ Working(r) /\ x.event = worker[r].event
        /\ x.pc \in {"provision", "launch"} => worker[r].pc \in {"provision", "launch"}
        /\ position' = position /\ takeovers' = takeovers
    BY <1>6 DEF Proceeds, WorkerBecomes, faultVars
  <2>2. PICK p \in Nat : p = worker[r].event
    BY <2>1, WorkerHas
  <2>3. \A q : Launches(q)' = Launches(q)
    BY <1>6, <2>2, ProceedsTasks
  <2>4. Launches(o)' = Launches(o) /\ LaunchBudget(o)' = LaunchBudget(o)
    BY <2>1, <2>3, BudgetFacts
  <2>5. Launching(o)' \subseteq Launching(o)
    BY <2>1, WorkerLaunching
  <2> QED
    BY <1>1, <2>4, <2>5, NoMoreLaunches
<1>7. ASSUME NEW r \in Replica, NEW x \in Worker, Starts(r, x)
      PROVE  Cardinality(Launches(o))' + Cardinality(Launching(o))' <= LaunchBudget(o)'
  <2>1. /\ WorkerBecomes(r, x) /\ Working(r)
        /\ worker[r].pc = "launch" /\ x.pc = "reportArn"
        /\ position' = position /\ takeovers' = takeovers
    BY <1>7 DEF Starts, WorkerBecomes, faultVars
  <2>2. PICK p \in Nat : p = worker[r].event
    BY <2>1, WorkerHas
  <2>3. /\ LaunchBudget(o)' = LaunchBudget(o)
        /\ Launching(o)' \subseteq Launching(o) \ {r}
    BY <2>1, BudgetFacts, WorkerLaunching
  <2>4. CASE o # p
    <3>1. \A q : q # p => Launches(q)' = Launches(q)
      BY <1>7, <2>2, StartsTasks
    <3>2. Launches(o)' = Launches(o)
      BY <2>4, <3>1
    <3> QED
      BY <1>1, <2>3, <3>2, NoMoreLaunches
  <2>5. CASE o = p
    <3>1. PICK last \in Nat \ Launches(p) : Launches(p)' = Launches(p) \cup {last}
      BY <1>7, <2>2, StartsTasks
    <3>2. Launches(o)' = Launches(o) \cup {last} /\ last \notin Launches(o)
      BY <2>5, <3>1
    <3>3. r \in Launching(o)
      BY <2>1, <2>2, <2>5 DEF Launching
    <3>4. /\ IsFiniteSet(Launches(o)) /\ IsFiniteSet(Launching(o))
          /\ Cardinality(Launches(o)) \in Nat /\ Cardinality(Launching(o)) \in Nat
          /\ Cardinality(Launches(o)) + Cardinality(Launching(o)) <= LaunchBudget(o)
      BY LaunchesWithinBudget
    <3>5. Cardinality(Launches(o)') = Cardinality(Launches(o)) + 1
      BY <3>2, <3>4, FS_AddElement
    <3>6. /\ IsFiniteSet(Launching(o) \ {r})
          /\ Cardinality(Launching(o) \ {r}) = Cardinality(Launching(o)) - 1
      BY <3>3, <3>4, FS_RemoveElement
    <3>7. /\ Cardinality(Launching(o)') \in Nat
          /\ Cardinality(Launching(o)') <= Cardinality(Launching(o) \ {r})
      BY <2>3, <3>6, FS_Subset, FS_CardinalityType
    <3> QED
      BY <1>1, <2>3, <3>4, <3>5, <3>6, <3>7
  <2> QED
    BY <2>4, <2>5
<1>8. AutoCommit => \E r \in Replica : owner = r
  BY DEF AutoCommit, WInv, OrchestratorTypeOK
<1> QED
  BY <1>2, <1>3, <1>4, <1>5, <1>6, <1>7, <1>8, StepCases

\* JobConsumer's at-least-once delivery: RunTask's acknowledged launches of one
\* submission are at most one more than the partition changed hands, whatever
\* attempts fail, answers are lost and replicas die.
THEOREM LaunchesBounded == OrchestratorSpec => []LaunchesBoundedByTakeovers
<1>1. OrchestratorInit => LaunchInvariant
  BY DEF OrchestratorInit, TopicsInit, LaunchInvariant
<1>2. WInv /\ LaunchInvariant => LaunchesBoundedByTakeovers
  <2> SUFFICES ASSUME WInv, LaunchInvariant, NEW o \in 1..Len(submissions)
               PROVE  Cardinality(Launches(o)) <= 1 + takeovers
    BY DEF LaunchesBoundedByTakeovers
  <2>1. o \in Nat /\ takeovers \in Nat
    BY Bounds
  <2>2. /\ Cardinality(Launches(o)) \in Nat /\ Cardinality(Launching(o)) \in Nat
        /\ Cardinality(Launches(o)) + Cardinality(Launching(o)) <= LaunchBudget(o)
    BY <2>1, LaunchesWithinBudget
  <2>3. LaunchBudget(o) \in Nat /\ LaunchBudget(o) <= takeovers + 1
    BY <2>1, Bounds DEF LaunchBudget
  <2> QED
    BY <2>1, <2>2, <2>3
<1>3. WInv /\ WInv' /\ LaunchInvariant /\ [OrchestratorNext]_orchestratorVars
        => LaunchInvariant'
  BY StepLaunches
<1> QED
  BY <1>1, <1>2, <1>3, WorkersCorrect, PTL DEF OrchestratorSpec

-----------------------------------------------------------------------------
(* What becomes of a request to stop a job *)

StopsInvariant == StoppersSound /\ HandedOut /\ ListsComplete /\ StopsAccounted

\* No step gives a request more to stop, or takes back what was accounted for.
Calm(c) ==
  /\ Targets(c)' = Targets(c)
  /\ \A t \in Targets(c) : Accounted(c, t) => Accounted(c, t)'

LEMMA CancelsGrow ==
  ASSUME WInv, [OrchestratorNext]_orchestratorVars
  PROVE  /\ Len(cancellations) \in Nat /\ Len(cancellations') \in Nat
         /\ Len(cancellations) <= Len(cancellations')
         /\ \A c \in 1..Len(cancellations) : cancellations'[c] = cancellations[c]
         /\ spared \subseteq spared'
<1>1. cancellations \in Seq(Job) /\ Len(cancellations) \in Nat
  BY Bounds
<1>2. CASE UNCHANGED <<cancellations, cancelVars>>
  BY <1>1, <1>2 DEF cancelVars
<1>3. CASE CancelStep
  <2>1. UNCHANGED cancellations
    BY <1>3 DEF CancelStep, CancelAutoCommit, StopperStep, HandOut, ListTasks, StopNext,
         Raise, CancelTakeover
  <2>2. \/ UNCHANGED spared
        \/ \E c, S : Spare(c, S)
        \/ \E S : spared' = spared \cup S
    BY <1>3, Zenon DEF CancelStep, CancelAutoCommit, StopperStep, HandOut, ListTasks,
         StopNext, Raise, CancelTakeover
  <2>3. spared \subseteq spared'
    BY <2>2 DEF Spare
  <2> QED
    BY <1>1, <2>1, <2>3
<1>4. ASSUME NEW r \in Replica, Crash(r)
      PROVE  UNCHANGED cancellations /\ spared \subseteq spared'
  BY <1>4 DEF Crash, WorkerDies, StopperDies, Spare
<1>5. ASSUME NEW j \in Job, RequestStop(j)
      PROVE  /\ Len(cancellations') = Len(cancellations) + 1
             /\ \A c \in 1..Len(cancellations) : cancellations'[c] = cancellations[c]
             /\ spared' = spared
  BY <1>1, <1>5, AppendFacts, SeqFacts DEF RequestStop, cancelVars
<1>6. ASSUME NEW r \in Replica, WorkerStep(r)
      PROVE  UNCHANGED <<cancellations, cancelVars>>
  BY <1>6 DEF WorkerStep, Poll, PutProvisioning, Launch, PutArn, PutFailed, Bury
<1>7. CASE AutoCommit \/ \E r \in Replica : Takeover(r)
  BY <1>2, <1>7 DEF AutoCommit, Takeover
<1>8. CASE \/ \E t \in DOMAIN task : TaskStep(t)
           \/ \E j \in Job : Submit(j)
           \/ UNCHANGED orchestratorVars
  BY <1>2, <1>8 DEF TaskStep, OnlyTasksChange, Submit, orchestratorVars
<1> QED
  BY <1>1, <1>2, <1>3, <1>4, <1>5, <1>6, <1>7, <1>8
     DEF OrchestratorNext, OrchestratorStep, GroupStep

LEMMA StepCalm ==
  ASSUME WInv, [OrchestratorNext]_orchestratorVars, NEW c \in 1..Len(cancellations)
  PROVE  Calm(c)
<1>1. /\ TasksTypeOK /\ Len(cancellations) \in Nat
      /\ cancellations'[c] = cancellations[c] /\ spared \subseteq spared'
  BY Bounds, CancelsGrow
<1>2. CASE SameLaunches
  <2>1. Targets(c)' = Targets(c)
    BY <1>1, <1>2 DEF Targets, Tasks, SameLaunches, SameTask
  <2>2. \A t \in Targets(c) : t \in DOMAIN task
    BY DEF Targets, Tasks
  <2>3. \A t \in Targets(c) : Accounted(c, t) => Accounted(c, t)'
    BY <1>1, <1>2, <2>2 DEF Accounted, Alive, SameLaunches, SameTask
  <2> QED
    BY <2>1, <2>3 DEF Calm
<1>3. ASSUME NEW j \in Job, NEW o \in Nat, NEW acked \in BOOLEAN, RunTask(j, o, acked)
      PROVE  Calm(c)
  <2>1. /\ DOMAIN task' = DOMAIN task \cup {Len(task) + 1}
        /\ \A t \in DOMAIN task : task'[t] = task[t]
        /\ task'[Len(task) + 1].born = Len(cancellations)
    BY <1>1, <1>3, RunTaskAdds
  <2>2. ~(Len(cancellations) < c)
    BY <1>1
  <2>3. Targets(c)' = Targets(c)
    BY <1>1, <2>1, <2>2 DEF Targets, Tasks
  <2>4. \A t \in Targets(c) : t \in DOMAIN task
    BY DEF Targets, Tasks
  <2>5. \A t \in Targets(c) : Accounted(c, t) => Accounted(c, t)'
    BY <1>1, <2>1, <2>4 DEF Accounted, Alive
  <2> QED
    BY <2>3, <2>5 DEF Calm
<1>4. CASE UNCHANGED task
  BY <1>1, <1>2, <1>4, TasksStay
<1>5. ASSUME NEW r \in Replica, NEW x \in Worker, Proceeds(r, x) \/ Starts(r, x)
      PROVE  Calm(c)
  <2>1. Working(r)
    BY <1>5 DEF Proceeds, Starts
  <2>2. PICK j \in Job, o \in Nat : j = JobOf(r) /\ o = worker[r].event
    BY <2>1, WorkerHas
  <2>3. UNCHANGED task \/ RunTask(j, o, FALSE) \/ RunTask(j, o, TRUE)
    BY <1>5, <2>2 DEF Proceeds, Starts
  <2> QED
    BY <1>3, <1>4, <2>3
<1> QED
  BY <1>2, <1>4, <1>5, StepCases
     DEF NoDelivery, AutoCommit, Takeover, Crash, WorkerDies, Settles, HandsOver

LEMMA StopperHas ==
  ASSUME WInv, NEW r \in Replica
  PROVE  /\ stopper \in [Replica -> Stopper] /\ stopper[r] \in Stopper
         /\ Waiting \in Stopper /\ Waiting.pc = "free" /\ Waiting.event = 0
         /\ Waiting.arns = {}
BY Bounds DEF CancelsTypeOK, Waiting, Stopper

LEMMA CalmSettled ==
  ASSUME NEW c, Calm(c), Settled(c)
  PROVE  Settled(c)'
BY DEF Calm, Settled

\* A step that leaves the consumer of the cancellations as it is.
LEMMA OthersKeepStops ==
  ASSUME WInv, WInv', StopsInvariant, [OrchestratorNext]_orchestratorVars,
         UNCHANGED cancelVars, DOMAIN task \subseteq DOMAIN task'
  PROVE  StopsInvariant'
<1>1. /\ Len(cancellations) \in Nat /\ Len(cancellations') \in Nat
      /\ Len(cancellations) <= Len(cancellations')
      /\ cancelPosition \in 0..Len(cancellations)
      /\ cancelCommitted \in {NoOffset} \cup 0..Len(cancellations)
      /\ cancelOwner \in Replica \cup {NoReplica}
  BY CancelsGrow, Bounds DEF CancelsTypeOK
<1>2. \A c \in 1..Len(cancellations) : Calm(c)
  BY StepCalm
<1>3. /\ Past' = Past /\ Past \subseteq 1..Len(cancellations)
      /\ \A c : InHand(c)' <=> InHand(c)
  BY <1>1 DEF Past, InHand, cancelVars, NoOffset
<1>4. StoppersSound'
  BY <1>1 DEF StopsInvariant, StoppersSound, Stopping, cancelVars
<1>5. StopsAccounted'
  BY <1>2, <1>3, CalmSettled DEF StopsInvariant, StopsAccounted
<1>6. HandedOut'
  BY <1>1, <1>2, <1>3, CalmSettled DEF StopsInvariant, HandedOut, cancelVars
<1>7. ASSUME NEW q \in Replica, stopper'[q].pc = "stop", NEW t \in Targets(stopper[q].event)'
      PROVE  t \in stopper'[q].arns \/ Accounted(stopper[q].event, t)'
  <2>1. stopper'[q] = stopper[q] /\ Stopping(q)
    BY <1>7, StopperHas DEF cancelVars, Stopping
  <2>2. PICK c \in 1..Len(cancellations) : c = stopper[q].event
    BY <2>1 DEF StopsInvariant, StoppersSound
  <2>3. t \in Targets(c) /\ Calm(c)
    BY <1>2, <1>7, <2>1, <2>2 DEF Calm
  <2>4. t \in stopper[q].arns \/ Accounted(c, t)
    BY <1>7, <2>1, <2>2, <2>3 DEF StopsInvariant, ListsComplete
  <2> QED
    BY <2>1, <2>2, <2>3, <2>4 DEF Calm
<1>8. ListsComplete'
  BY <1>7 DEF ListsComplete
<1> QED
  BY <1>4, <1>5, <1>6, <1>8 DEF StopsInvariant

\* A replica goes on with its request, which it may drop only when all is
\* accounted for, or when the group will deliver it again to another replica.
LEMMA StopperMoves ==
  ASSUME WInv, WInv', StopsInvariant, [OrchestratorNext]_orchestratorVars,
         NEW r \in Replica, NEW x \in Stopper, stopper' = [stopper EXCEPT ![r] = x],
         UNCHANGED <<cancellations, cancelPosition, cancelCommitted>>,
         DOMAIN task \subseteq DOMAIN task',
         cancelOwner' = cancelOwner \/ cancelOwner' = NoReplica,
         NEW o \in Nat, o = stopper[r].event,
         \/ /\ Stopping(r) /\ x.pc = "stop" /\ x.event = o
            /\ x.arns \subseteq DOMAIN task'
            /\ \A t \in Targets(o)' : t \in x.arns \/ Accounted(o, t)'
         \/ x = Waiting /\ Settled(o)'
         \/ x = Waiting /\ o \notin Past /\ cancelOwner' # r
  PROVE  StopsInvariant'
<1>1. /\ Len(cancellations) \in Nat
      /\ cancelPosition \in 0..Len(cancellations)
      /\ cancelCommitted \in {NoOffset} \cup 0..Len(cancellations)
      /\ cancelOwner \in Replica \cup {NoReplica} /\ NoReplica \notin Replica
  BY CancelsGrow, Bounds, ReplicaAssumption DEF CancelsTypeOK
<1>2. \A c \in 1..Len(cancellations) : Calm(c)
  BY StepCalm
<1>3. Past' = Past /\ Past \subseteq 1..Len(cancellations)
  BY <1>1 DEF Past, NoOffset
<1>4. /\ stopper'[r] = x
      /\ \A q \in Replica : q # r => stopper'[q] = stopper[q]
      /\ Waiting.pc = "free" /\ Waiting.event = 0 /\ Waiting.arns = {}
  BY StopperHas
<1>5. Stopping(r) => o \in 1..Len(cancellations)
  BY DEF StopsInvariant, StoppersSound
<1>6. StoppersSound'
  <2>1. ASSUME NEW q \in Replica
        PROVE  /\ Stopping(q)' => /\ stopper'[q].pc # "free"
                                  /\ stopper'[q].event \in 1..Len(cancellations')
               /\ stopper'[q].arns \subseteq DOMAIN task'
    <3>1. CASE q = r
      BY <1>4, <1>5, <3>1 DEF Stopping
    <3>2. CASE q # r
      BY <1>4, <3>2 DEF StopsInvariant, StoppersSound, Stopping
    <3> QED
      BY <3>1, <3>2
  <2> QED
    BY <2>1 DEF StoppersSound
<1>7. ASSUME NEW c \in 1..Len(cancellations), InHand(c)
      PROVE  InHand(c)' \/ Settled(c)' \/ (c \notin Past /\ c = o /\ cancelOwner' # r)
  BY <1>4, <1>7 DEF InHand
<1>8. StopsAccounted'
  <2>1. ASSUME NEW c \in Past
        PROVE  InHand(c)' \/ Settled(c)'
    <3>1. c \in 1..Len(cancellations) /\ Calm(c)
      BY <1>2, <1>3
    <3>2. InHand(c) \/ Settled(c)
      BY DEF StopsInvariant, StopsAccounted
    <3> QED
      BY <1>7, <3>1, <3>2, CalmSettled
  <2> QED
    BY <1>3, <2>1 DEF StopsAccounted
<1>9. HandedOut'
  <2>1. ASSUME cancelOwner' # NoReplica, NEW c \in 1..cancelPosition
        PROVE  c \in Past \/ stopper'[cancelOwner'].event = c \/ Settled(c)'
    <3>1. cancelOwner' = cancelOwner /\ cancelOwner \in Replica
      BY <1>1, <2>1
    <3>2. c \in 1..Len(cancellations) /\ Calm(c)
      BY <1>1, <1>2
    <3>3. c \in Past \/ stopper[cancelOwner].event = c \/ Settled(c)
      BY <2>1, <3>1 DEF StopsInvariant, HandedOut
    <3>4. CASE Settled(c)
      BY <3>2, <3>4, CalmSettled
    <3>5. CASE stopper[cancelOwner].event = c
      BY <1>4, <3>1, <3>5
    <3> QED
      BY <3>3, <3>4, <3>5
  <2> QED
    BY <1>3, <2>1 DEF HandedOut
<1>10. ASSUME NEW q \in Replica, stopper'[q].pc = "stop", NEW t \in Targets(stopper[q].event)'
       PROVE  t \in stopper'[q].arns \/ Accounted(stopper[q].event, t)'
  <2>1. CASE q = r
    BY <1>4, <1>10, <2>1
  <2>2. CASE q # r
    <3>1. stopper'[q] = stopper[q] /\ Stopping(q)
      BY <1>4, <1>10, <2>2 DEF Stopping
    <3>2. PICK c \in 1..Len(cancellations) : c = stopper[q].event
      BY <3>1 DEF StopsInvariant, StoppersSound
    <3>3. t \in Targets(c) /\ Calm(c)
      BY <1>2, <1>10, <3>1, <3>2 DEF Calm
    <3>4. t \in stopper[q].arns \/ Accounted(c, t)
      BY <1>10, <3>1, <3>2, <3>3 DEF StopsInvariant, ListsComplete
    <3> QED
      BY <3>1, <3>2, <3>3, <3>4 DEF Calm
  <2> QED
    BY <2>1, <2>2
<1>11. ListsComplete'
  BY <1>10 DEF ListsComplete
<1> QED
  BY <1>6, <1>8, <1>9, <1>11 DEF StopsInvariant

\* Whoever has the next request has no other in hand.
LEMMA HandOutStops ==
  ASSUME WInv, WInv', StopsInvariant, [OrchestratorNext]_orchestratorVars,
         NEW r \in Replica, HandOut(r)
  PROVE  StopsInvariant'
<1>1. /\ Len(cancellations) \in Nat /\ cancellations' = cancellations /\ task' = task
      /\ cancelPosition \in 0..Len(cancellations)
      /\ cancelCommitted \in {NoOffset} \cup 0..Len(cancellations)
      /\ cancelOwner = r /\ NoReplica \notin Replica
      /\ spared' = spared
  BY CancelsGrow, Bounds, ReplicaAssumption DEF CancelsTypeOK, HandOut
<1>2. PICK o \in 1..Len(cancellations) : o = cancelPosition + 1
  BY <1>1 DEF HandOut
<1> DEFINE x == [pc |-> "list", event |-> o, arns |-> {}]
<1>3. /\ stopper[r] = Waiting /\ Waiting.event = 0
      /\ stopper'[r] = x
      /\ \A q \in Replica : q # r => stopper'[q] = stopper[q]
  BY <1>2, StopperHas DEF HandOut, Stopping
<1>4. /\ cancelPosition' = o /\ cancelCommitted' = cancelCommitted
      /\ cancelOwner' = cancelOwner
  BY <1>2 DEF HandOut
<1>5. \A c \in 1..Len(cancellations) : Calm(c)
  BY StepCalm
<1>6. Past' \subseteq Past \cup {o} /\ Past \subseteq Past' /\ Past \subseteq 1..Len(cancellations)
  BY <1>1, <1>2, <1>4 DEF Past, NoOffset
<1>7. InHand(o)' /\ \A c \in 1..Len(cancellations) : InHand(c) => InHand(c)'
  BY <1>3 DEF InHand
<1>8. StoppersSound'
  BY <1>1, <1>2, <1>3 DEF StopsInvariant, StoppersSound, Stopping
<1>9. StopsAccounted'
  <2>1. ASSUME NEW c \in Past'
        PROVE  InHand(c)' \/ Settled(c)'
    <3>1. CASE c = o
      BY <1>7, <3>1
    <3>2. CASE c # o
      <4>1. c \in Past /\ c \in 1..Len(cancellations)
        BY <1>6, <3>2
      <4>2. InHand(c) \/ Settled(c)
        BY <4>1 DEF StopsInvariant, StopsAccounted
      <4> QED
        BY <1>5, <1>7, <4>1, <4>2, CalmSettled
    <3> QED
      BY <3>1, <3>2
  <2> QED
    BY <2>1 DEF StopsAccounted
<1>10. HandedOut'
  <2>1. ASSUME NEW c \in 1..o
        PROVE  c \in Past' \/ stopper'[r].event = c \/ Settled(c)'
    <3>1. CASE c = o
      BY <1>3, <3>1
    <3>2. CASE c # o
      <4>1. c \in 1..cancelPosition /\ c \in 1..Len(cancellations)
        BY <1>1, <1>2, <3>2
      <4>2. c \in Past \/ Settled(c)
        BY <1>1, <1>3, <4>1 DEF StopsInvariant, HandedOut
      <4> QED
        BY <1>5, <1>6, <4>1, <4>2, CalmSettled
    <3> QED
      BY <3>1, <3>2
  <2> QED
    BY <1>1, <1>4, <2>1 DEF HandedOut
<1>11. ListsComplete'
  <2>1. \A t : Accounted(o, t)' <=> Accounted(o, t)
    BY <1>1 DEF Accounted, Alive
  <2>2. ASSUME NEW q \in Replica, stopper'[q].pc = "stop",
               NEW t \in Targets(stopper[q].event)'
        PROVE  t \in stopper'[q].arns \/ Accounted(stopper[q].event, t)'
    <3>1. q # r /\ stopper'[q] = stopper[q]
      BY <1>3, <2>2
    <3>2. t \in Targets(stopper[q].event)
      BY <1>1, <2>2, <3>1 DEF Targets, Tasks
    <3>3. t \in stopper[q].arns \/ Accounted(stopper[q].event, t)
      BY <2>2, <3>1, <3>2 DEF StopsInvariant, ListsComplete
    <3> QED
      BY <1>1, <3>1, <3>3 DEF Accounted, Alive
  <2> QED
    BY <2>2 DEF ListsComplete
<1> QED
  BY <1>8, <1>9, <1>10, <1>11 DEF StopsInvariant

\* What a replica still has to stop is all that is not accounted for.
LEMMA ToStopCovers ==
  ASSUME WInv, StopsInvariant, NEW r \in Replica, Stopping(r),
         NEW o \in Nat, o = stopper[r].event
  PROVE  /\ o \in 1..Len(cancellations)
         /\ ToStop(r) \subseteq DOMAIN task
         /\ \A t \in Targets(o) : t \in ToStop(r) \/ Accounted(o, t)
<1>1. /\ stopper[r].pc \in {"list", "stop"} /\ o \in 1..Len(cancellations)
      /\ stopper[r].arns \subseteq DOMAIN task
  BY StopperHas DEF StopsInvariant, StoppersSound, Stopper
<1>2. CASE stopper[r].pc = "list"
  <2>1. ToStop(r) = RunningTasksFor(cancellations[o])
    BY <1>2 DEF ToStop
  <2>2. \A t \in Targets(o) : t \in RunningTasksFor(cancellations[o]) \/ Accounted(o, t)
    BY DEF Targets, Tasks, RunningTasksFor, Accounted
  <2> QED
    BY <1>1, <2>1, <2>2 DEF RunningTasksFor
<1>3. CASE stopper[r].pc = "stop"
  BY <1>1, <1>3 DEF ToStop, StopsInvariant, ListsComplete
<1> QED
  BY <1>1, <1>2, <1>3

LEMMA ListStops ==
  ASSUME WInv, WInv', StopsInvariant, [OrchestratorNext]_orchestratorVars,
         NEW r \in Replica, ListTasks(r)
  PROVE  StopsInvariant'
<1>1. /\ UNCHANGED <<cancellations, task, cancelOwner, cancelPosition, cancelCommitted>>
      /\ stopper[r].pc = "list" /\ Stopping(r)
  BY StopperHas DEF ListTasks, Stopping
<1>2. PICK o \in Nat : o = stopper[r].event
  BY StopperHas DEF Stopper
<1>3. /\ o \in 1..Len(cancellations) /\ ToStop(r) \subseteq DOMAIN task
      /\ \A t \in Targets(o) : t \in ToStop(r) \/ Accounted(o, t)
  BY <1>1, <1>2, ToStopCovers
<1>4. Calm(o)
  BY <1>3, StepCalm
<1>5. CASE ToStop(r) = {}
  <2>1. stopper' = [stopper EXCEPT ![r] = Waiting]
    BY <1>5 DEF ListTasks, Finish
  <2>2. Settled(o)'
    BY <1>3, <1>4, <1>5, CalmSettled DEF Settled
  <2> QED
    BY <1>1, <1>2, <2>1, <2>2, StopperHas, StopperMoves
<1>6. CASE ToStop(r) # {}
  <2> DEFINE x == [stopper[r] EXCEPT !.pc = "stop", !.arns = ToStop(r)]
  <2>1. /\ x \in Stopper /\ x.pc = "stop" /\ x.event = o /\ x.arns = ToStop(r)
    BY <1>2, StopperHas, Bounds, ToStopTasks DEF Stopper
  <2>2. stopper' = [stopper EXCEPT ![r] = x]
    BY <1>6 DEF ListTasks
  <2> HIDE DEF x
  <2>3. \A t \in Targets(o)' : t \in x.arns \/ Accounted(o, t)'
    BY <1>3, <1>4, <2>1 DEF Calm
  <2> QED
    BY <1>1, <1>2, <1>3, <2>1, <2>2, <2>3, StopperMoves
<1> QED
  BY <1>5, <1>6

LEMMA StopNextStops ==
  ASSUME WInv, WInv', StopsInvariant, [OrchestratorNext]_orchestratorVars,
         NEW r \in Replica, StopNext(r)
  PROVE  StopsInvariant'
<1>1. /\ UNCHANGED <<cancellations, cancelOwner, cancelPosition, cancelCommitted>>
      /\ stopper[r].pc = "stop" /\ Stopping(r)
  BY StopperHas DEF StopNext, Stopping
<1>2. PICK o \in Nat : o = stopper[r].event
  BY StopperHas DEF Stopper
<1>3. /\ o \in 1..Len(cancellations) /\ stopper[r].arns \subseteq DOMAIN task
      /\ \A t \in Targets(o) : t \in stopper[r].arns \/ Accounted(o, t)
  BY <1>1, <1>2, ToStopCovers DEF ToStop
<1>4. PICK t \in stopper[r].arns :
        /\ DoneWith(r, t)
        /\ \/ StopTask(t) /\ UNCHANGED spared
           \/ Spare(o, {t}) /\ UNCHANGED task
  BY <1>2 DEF StopNext
<1>5. Calm(o)
  BY <1>3, StepCalm
<1>6. TasksTypeOK /\ t \in DOMAIN task
  BY <1>3, Bounds
<1>7. Accounted(o, t)' /\ DOMAIN task' = DOMAIN task
  <2>1. CASE StopTask(t)
    BY <1>6, <2>1, StopTaskKeeps DEF Accounted, SameLaunches
  <2>2. CASE Spare(o, {t}) /\ UNCHANGED task
    BY <2>2 DEF Spare, Accounted
  <2> QED
    BY <1>4, <2>1, <2>2
<1>8. \A u \in Targets(o)' : u \in stopper[r].arns \ {t} \/ Accounted(o, u)'
  BY <1>3, <1>5, <1>7 DEF Calm
<1>9. CASE stopper[r].arns = {t}
  <2>1. stopper' = [stopper EXCEPT ![r] = Waiting]
    BY <1>4, <1>9 DEF DoneWith, Finish
  <2>2. Settled(o)'
    BY <1>8, <1>9 DEF Settled
  <2> QED
    BY <1>1, <1>2, <1>7, <2>1, <2>2, StopperHas, StopperMoves
<1>10. CASE stopper[r].arns # {t}
  <2> DEFINE x == [stopper[r] EXCEPT !.arns = @ \ {t}]
  <2>1. /\ x \in Stopper /\ x.pc = "stop" /\ x.event = o
        /\ x.arns = stopper[r].arns \ {t}
    BY <1>1, <1>2, StopperHas DEF Stopper
  <2>2. stopper' = [stopper EXCEPT ![r] = x]
    BY <1>4, <1>10 DEF DoneWith
  <2> HIDE DEF x
  <2> QED
    BY <1>1, <1>2, <1>3, <1>7, <1>8, <2>1, <2>2, StopperMoves
<1> QED
  BY <1>9, <1>10

\* A request that is dropped spares what was still to stop; a replica that dies
\* may leave it to the group, if that will deliver it again.
LEMMA DropStops ==
  ASSUME WInv, WInv', StopsInvariant, [OrchestratorNext]_orchestratorVars,
         NEW r \in Replica, Raise(r) \/ Crash(r)
  PROVE  StopsInvariant'
<1>1. /\ UNCHANGED <<cancellations, task, cancelPosition, cancelCommitted>>
      /\ cancelOwner' = cancelOwner \/ cancelOwner' = NoReplica
      /\ Crash(r) => cancelOwner' # r
      /\ stopper' = [stopper EXCEPT ![r] = Waiting]
  BY ReplicaAssumption DEF Raise, Crash, WorkerDies, StopperDies, Finish
<1>2. PICK o \in Nat : o = stopper[r].event
  BY StopperHas DEF Stopper
<1>3. Stopping(r) =>
        /\ o \in 1..Len(cancellations)
        /\ \A t \in Targets(o) : t \in ToStop(r) \/ Accounted(o, t)
  BY <1>2, ToStopCovers
<1>4. CASE Stopping(r) /\ Spare(o, ToStop(r))
  <2>1. Calm(o)
    BY <1>3, <1>4, StepCalm
  <2>2. \A t \in ToStop(r) : Accounted(o, t)'
    BY <1>4 DEF Spare, Accounted
  <2>3. Settled(o)'
    BY <1>3, <1>4, <2>1, <2>2 DEF Calm, Settled
  <2> QED
    BY <1>1, <1>2, <2>3, StopperHas, StopperMoves
<1>5. CASE o \notin Past /\ Crash(r)
  BY <1>1, <1>2, <1>5, StopperHas, StopperMoves
<1>6. \/ Stopping(r) /\ Spare(o, ToStop(r))
      \/ o \notin Past /\ Crash(r)
  <2>1. CASE Raise(r)
    BY <1>2, <2>1 DEF Raise
  <2>2. CASE Crash(r) /\ Stopping(r)
    <3>1. \/ Spare(o, ToStop(r))
          \/ cancelCommitted # NoOffset /\ ~(o <= cancelCommitted)
      BY <1>2, <2>2 DEF Crash, StopperDies
    <3>2. cancelCommitted # NoOffset /\ ~(o <= cancelCommitted) => o \notin Past
      BY Bounds DEF Past, CancelsTypeOK
    <3> QED
      BY <2>2, <3>1, <3>2
  <2>3. CASE Crash(r) /\ ~Stopping(r)
    <3>1. o = 0
      BY <1>2, <2>3, StopperHas DEF Stopping
    <3>2. o \notin Past
      BY <3>1, Bounds DEF Past, CancelsTypeOK
    <3> QED
      BY <2>3, <3>2
  <2> QED
    BY <2>1, <2>2, <2>3
<1> QED
  BY <1>4, <1>5, <1>6

\* What the group commits, or skips as it restarts, is in hand or accounted for.
LEMMA GroupStops ==
  ASSUME WInv, WInv', StopsInvariant, [OrchestratorNext]_orchestratorVars,
         CancelAutoCommit \/ \E r \in Replica : CancelTakeover(r)
  PROVE  StopsInvariant'
<1>1. /\ UNCHANGED <<cancellations, task, stopper>> /\ Len(cancellations) \in Nat
      /\ cancelPosition \in 0..Len(cancellations)
      /\ cancelCommitted \in {NoOffset} \cup 0..Len(cancellations)
      /\ cancelOwner \in Replica \cup {NoReplica}
  BY CancelsGrow, Bounds DEF CancelsTypeOK, CancelAutoCommit, CancelTakeover
<1>2. \A c \in 1..Len(cancellations) : Calm(c)
  BY StepCalm
<1>3. StoppersSound' /\ \A c : InHand(c)' <=> InHand(c)
  BY <1>1 DEF StopsInvariant, StoppersSound, Stopping, InHand
<1>4. ListsComplete'
  <2>1. \A c, t : Accounted(c, t) => Accounted(c, t)'
    BY <1>1, CancelsGrow DEF Accounted, Alive
  <2>2. \A c : Targets(c)' = Targets(c)
    BY <1>1 DEF Targets, Tasks
  <2>3. ASSUME NEW q \in Replica, stopper[q].pc = "stop",
               NEW t \in Targets(stopper[q].event)'
        PROVE  t \in stopper[q].arns \/ Accounted(stopper[q].event, t)'
    <3>1. PICK c : c = stopper[q].event
      OBVIOUS
    <3>2. t \in Targets(c)
      BY <1>1, <2>3, <3>1 DEF Targets, Tasks
    <3>3. t \in stopper[q].arns \/ Accounted(c, t)
      BY <2>3, <3>1, <3>2 DEF StopsInvariant, ListsComplete
    <3>4. Accounted(c, t)' => Accounted(stopper[q].event, t)'
      BY <1>1, <3>1 DEF Accounted, Alive
    <3> QED
      BY <2>1, <3>3, <3>4
  <2> QED
    BY <1>1, <2>3 DEF ListsComplete
<1>5. ASSUME NEW c \in 1..Len(cancellations), InHand(c) \/ Settled(c)
      PROVE  InHand(c)' \/ Settled(c)'
  BY <1>2, <1>3, <1>5, CalmSettled
<1>6. CASE CancelAutoCommit
  <2>1. /\ cancelOwner \in Replica /\ cancelPosition' = cancelPosition
        /\ Past' = 1..cancelPosition /\ cancelOwner # NoReplica
    BY <1>1, <1>6 DEF CancelAutoCommit, Past, NoOffset
  <2>2. ASSUME NEW c \in 1..cancelPosition
        PROVE  InHand(c)' \/ Settled(c)'
    <3>1. c \in Past \/ stopper[cancelOwner].event = c \/ Settled(c)
      BY <2>1 DEF StopsInvariant, HandedOut
    <3>2. InHand(c) \/ Settled(c)
      BY <2>1, <3>1 DEF InHand, StopsInvariant, StopsAccounted
    <3> QED
      BY <1>1, <1>5, <3>2
  <2>3. StopsAccounted' /\ HandedOut'
    BY <2>1, <2>2 DEF StopsAccounted, HandedOut
  <2> QED
    BY <1>3, <1>4, <2>3 DEF StopsInvariant
<1>7. ASSUME NEW r \in Replica, CancelTakeover(r)
      PROVE  StopsInvariant'
  <2>1. /\ cancelCommitted' = cancelCommitted /\ cancelPosition' = ResumeAt
    BY <1>7 DEF CancelTakeover
  <2>2. HandedOut'
    <3>1. 1..cancelPosition' = Past'
      BY <1>1, <2>1 DEF ResumeAt, Past, NoOffset
    <3> QED
      BY <3>1 DEF HandedOut
  <2>3. ASSUME NEW c \in Past'
        PROVE  InHand(c)' \/ Settled(c)'
    <3>1. CASE c \in Past
      <4>1. c \in 1..Len(cancellations) /\ (InHand(c) \/ Settled(c))
        BY <1>1, <3>1 DEF Past, NoOffset, StopsInvariant, StopsAccounted
      <4> QED
        BY <1>5, <4>1
    <3>2. CASE c \notin Past
      <4>1. /\ c \in cancelPosition + 1 .. ResumeAt /\ c \in 1..Len(cancellations)
        BY <1>1, <2>1, <3>2 DEF Past, ResumeAt, NoOffset
      <4>2. {c} \X RunningTasksFor(cancellations[c]) \subseteq spared'
        BY <1>7, <4>1 DEF CancelTakeover
      <4>3. \A t \in Targets(c) : t \in RunningTasksFor(cancellations[c]) \/ Accounted(c, t)
        BY DEF Targets, Tasks, RunningTasksFor, Accounted
      <4>4. Settled(c)'
        BY <1>2, <4>1, <4>2, <4>3 DEF Settled, Calm, Accounted
      <4> QED
        BY <4>4
    <3> QED
      BY <3>1, <3>2
  <2>4. StopsAccounted'
    BY <2>3 DEF StopsAccounted
  <2> QED
    BY <1>3, <1>4, <2>2, <2>4 DEF StopsInvariant
<1> QED
  BY <1>6, <1>7

\* A worker, a task or the environment takes no task away.
LEMMA OtherSteps ==
  ASSUME WInv, [OrchestratorNext]_orchestratorVars, ~CancelStep,
         ~\E r \in Replica : Crash(r)
  PROVE  UNCHANGED cancelVars /\ DOMAIN task \subseteq DOMAIN task'
<1>1. UNCHANGED cancelVars
  BY DEF OrchestratorNext, OrchestratorStep, GroupStep, AutoCommit, Takeover, WorkerStep,
     Poll, PutProvisioning, Launch, PutArn, PutFailed, Bury, TaskStep, OnlyTasksChange,
     Submit, RequestStop, orchestratorVars
<1>2. DOMAIN task \subseteq DOMAIN task'
  <2>1. CASE SameLaunches
    BY <2>1 DEF SameLaunches
  <2>2. CASE UNCHANGED task
    BY <2>2
  <2>3. ASSUME NEW r \in Replica, NEW x \in Worker, Proceeds(r, x) \/ Starts(r, x)
        PROVE  DOMAIN task \subseteq DOMAIN task'
    <3>1. Working(r)
      BY <2>3 DEF Proceeds, Starts
    <3>2. PICK j \in Job, o \in Nat : j = JobOf(r) /\ o = worker[r].event
      BY <3>1, WorkerHas
    <3>3. UNCHANGED task \/ RunTask(j, o, FALSE) \/ RunTask(j, o, TRUE)
      BY <2>3, <3>2 DEF Proceeds, Starts
    <3> QED
      BY <3>3, Bounds, RunTaskAdds
  <2> QED
    BY <2>1, <2>2, <2>3, StepCases DEF NoDelivery, AutoCommit, Takeover, Settles, HandsOver
<1> QED
  BY <1>1, <1>2

LEMMA StepStops ==
  ASSUME WInv, WInv', StopsInvariant, [OrchestratorNext]_orchestratorVars
  PROVE  StopsInvariant'
<1>1. CASE CancelStep
  BY <1>1, HandOutStops, ListStops, StopNextStops, DropStops, GroupStops
     DEF CancelStep, StopperStep
<1>2. ASSUME NEW r \in Replica, Crash(r)
      PROVE  StopsInvariant'
  BY <1>2, DropStops
<1>3. CASE ~CancelStep /\ ~\E r \in Replica : Crash(r)
  BY <1>3, OtherSteps, OthersKeepStops
<1> QED
  BY <1>1, <1>2, <1>3

\* CancellationConsumer's promise: whatever is committed, crashes or changes hands
\* while delete_spark_job runs in its thread, and whatever tasks start and end
\* meanwhile, no request that the group is past is forgotten: each task it is
\* about has ended, was told to stop, or is known to have been spared by a fault.
THEOREM StopRequestsAccounted == OrchestratorSpec => []StopsAccounted
<1>1. OrchestratorInit => StopsInvariant
  BY DEF OrchestratorInit, TopicsInit, ConsumersInit, CancelsInit, StopsInvariant,
     StoppersSound, HandedOut, ListsComplete, StopsAccounted, Past, Stopping, Waiting
<1>2. WInv /\ WInv' /\ StopsInvariant /\ [OrchestratorNext]_orchestratorVars
        => StopsInvariant'
  BY StepStops
<1>3. StopsInvariant => StopsAccounted
  BY DEF StopsInvariant
<1> QED
  BY <1>1, <1>2, <1>3, WorkersCorrect, PTL DEF OrchestratorSpec

=============================================================================
