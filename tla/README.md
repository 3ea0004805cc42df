# DHP in TLA+

TLA+ models of the DHP lakehouse platform (`src/`), the TLC runs that check
them and the TLAPS proofs about them.  Everything is translated from the
source; documents are only quoted where they promise something.

## 1. The system

| Component | State it keeps | Operations | Talks to |
|---|---|---|---|
| job-service, jobs (`services/job-service`, `JobService`) | table `jobs`; the sessions of open requests; the `JOBS_ACTIVE` gauge | POST, PUT status, DELETE of a job | Kafka (producer), PostgreSQL |
| job-service, schedules (`routers/schedules.py`) | table `scheduled_jobs` | create, PATCH, delete, trigger | PostgreSQL |
| orchestrator, `JobConsumer` and `CancellationConsumer` | consumer offsets, the message in hand, the DLQ | launch, retry, dead-letter, stop | Kafka, ECS, job-service (PUT) |
| orchestrator, `Scheduler` | advisory lock, open transaction | tick | PostgreSQL, Kafka |
| Spark container (`spark-images/base/entrypoint.sh`) | phase, exit status | report RUNNING, run, report the end | job-service (PUT by curl) |
| metadata-service | tables `catalog_databases`, `catalog_tables`, `schema_history`; the Glue catalog | create, update, drop, sync-glue, snapshots | PostgreSQL, Glue |
| lineage-service (`LineageService`, its router) | `lineage_runs`, `lineage_datasets`, run inputs and outputs | POST an OpenLineage event, GET a dataset, walk the graph upstream or downstream | PostgreSQL |
| log-service (`routers/logs.py`, `LokiClient`) | cursor of each SSE stream | query, stream | Loki |
| storage-service | none | proxy of S3 | S3 |

The control plane of a job is a loop.  `POST /jobs` inserts a row and sends an
event; a replica of the orchestrator takes the event, PUTs `PROVISIONING`, calls
RunTask and PUTs `PROVISIONING` again with the ARN; the container PUTs
`RUNNING`, then `SUCCESS` or `FAILED`; a `FAILED` with retries left makes
job-service send the event again.  A cancel travels on a second topic to the
orchestrator, which stops the tasks.  Scheduled jobs enter at the first topic,
put there by the orchestrator itself.

What is hard about it:

* Requests of job-service interleave at every `await`; the SELECT takes no lock
  and the COMMIT happens after the handler has returned, after the Kafka send.
* Three parties write the status of one job: the orchestrator, the container
  (until it is killed, also after a cancel) and the user.
* Kafka delivers at least once, auto-commit may acknowledge what is not done,
  a rebalance leaves two replicas working on one message.
* A call may be served although its caller gave up on it, or be repeated.
* The scheduler publishes before it commits, under a lock tied to a connection.
* A lineage event is four kinds of rows written one after the other, against
  rows that other events lock in another order.
* Loki answers stream by stream, newest line first, and cuts off the rest; it is
  asked for the last 24 hours only; the SSE cursor is one timestamp for all streams.
* A cancellation is several calls to ECS, one after the other, while auto-commit,
  rebalances and new launches go on beside them.

`PROJECT.json` lists every hazard with its line and the properties aimed at it.

## 2. Modules

| Module | Models |
|---|---|
| `JobTypes` | jobs, statuses, the two topics as logs, a producer's send |
| `JobLedger` | abstract: what a reader of table `jobs` may rely on |
| `JobService` | the requests of job-service, split at SELECT, send and COMMIT.  Implements `JobLedger` |
| `SparkTasks` | ECS tasks: RunTask, ListTasks, StopTask, the entrypoint, how a task ends |
| `DispatchQueue` | abstract: an at-least-once queue of submissions with a dead letter topic |
| `CancellationConsumer` | the second consumer group: hand-out of a stop request, and `delete_spark_job` split at ListTasks and each StopTask |
| `Orchestrator` | `_process_message`, the DLQ, the consumer group of submissions, with `CancellationConsumer` in the same processes.  Implements `DispatchQueue` |
| `JobLifecycle` | composition of job-service, orchestrator and containers; callers wait for their responses |
| `Scheduler` | ticks of all replicas and the schedule routes |
| `Catalog` | the requests of metadata-service: the catalogue in PostgreSQL, its schema history and its mirror in Glue |
| `LineageEvents` | OpenLineage events: run, type, datasets, facets |
| `LineageStore` | abstract: a store that records an event in one step or not at all |
| `Lineage` | the ingestion of events by concurrent transactions with row locks, deadlocks and rollbacks; the graph query; the order of the routes.  Implements `LineageStore` |
| `LogStream` | the SSE generator and its cursor, over a Loki with several streams |
| `JobServiceProofs`, `OrchestratorProofs`, `JobLifecycleProofs`, `SchedulerProofs`, `CatalogProofs`, `LineageProofs`, `LogStreamProofs` | theorems about `JobService`, `Orchestrator`, `JobLifecycle`, `Scheduler`, `Catalog`, `Lineage` and `LogStream` (§4) |
| `Induction` | lemmas: induction and recursion over the natural numbers in a form the provers can use |
| `MC...` | instances for TLC: constants, bounds, environments, fairness |

How state corresponds:

* `row[j]` is the committed row (`status`, `retry_count`); `handler[h]` is a
  request with its session: `old` the row as it was selected, `new` the ORM
  object that will be flushed.  `Merge` is what SQLAlchemy's unit of work does:
  only changed columns are written, so a commit in between survives in the
  columns this request did not change.  `pc` is the await the request stands at.
* `submissions` and `cancellations` are the topics; a reader is an offset.
  `position` is what the owner was handed, `committed` what the group would
  resume from; `worker[r]` is the coroutine `_process_message` of a replica,
  which outlives its ownership of the partition.
* `stopper[r]` is `delete_spark_job` of a replica: `list` until ListTasks has
  answered, then `arns`, the tasks still to be stopped.  It, too, outlives the ownership
  of its partition (`cancelOwner`).  Both consumers are tasks of one process: a replica
  dies with what both have in hand (`Crash`, out of `WorkerDies` and `StopperDies`).
* `task` is the sequence of ECS tasks ever started; `stopping` is the grace
  period between StopTask and SIGKILL (bash is PID 1 and ignores SIGTERM).
* In `Scheduler`, `lease[r]` counts how often the connection of a replica holds
  the advisory lock, `tick[r].wrote` is the uncommitted UPDATE, `cut` says that
  the server has lost the connection and the replica does not know yet.
* In `Catalog`, `tables` are all rows ever inserted with their history (a dropped
  row keeps its place, for its `table_id` never comes back); `session[h]` is a
  request, `base` the schema it loaded.  `Flushed` is what the shallow copy in
  `update_table` leaves for SQLAlchemy to see as a change; such an update writes the
  row, and locks it, before it looks up the latest version (autoflush), any other one
  looks it up without a lock.  `Changing` and `Updating` are the row locks.  `lost` and
  `stray` are the entries of Glue that, since they were last set right, had a cause to
  be missing, or to be there for nothing.
* In `Lineage`, `run`, `dataset` and `edge` are what is committed; `request[q]` is a
  transaction: `seen` the ORM object as selected, `row` the row it has written and
  therefore locks, `done` how many datasets it has upserted, and so locks, and
  linked.  Facets are the set of events they come from, which is all that `||` and
  `{**a, **b}` tell apart; times are the events they come from.  `Updated` is the
  unit of work again.  `Waits` is the wait-for graph PostgreSQL searches for cycles.
* In `LogStream`, `store` is Loki, `horizon` the time 24 hours ago, at which a query's
  range begins, `pending` the rest of the answer that
  `event_generator` loops over, `last` its `last_timestamp`.  `Resolution` is how many
  of Loki's nanoseconds share one timestamp after the float division.
* `shown`, `connections`, `spared`, `born`, `cancelTakeovers`, `accepted`, `refused`, `posted`, `failures`, `repeats`, `timeouts`, `requeues`, `takeovers`, `crashes`, `faults`,
  `aborts`, `glueFailures`, `lost`, `stray` are history variables or bounds; nothing
  in the code reads them.

Definitions whose comment begins with "Mutant" are not the code: each is a
plausible bug that a run must be able to see (`PROJECT.json`, `mutants`).

## 3. Runs

| Run | Question | Bounds |
|---|---|---|
| `jobservice_races` | Can overlapping requests for one job corrupt the retry accounting, store a status whose event was never sent, or break the promise of the ledger? | 3 sessions, 6 requests, 1 rollback, budget 2 |
| `orchestrator_dispatch` | What can crashes and rebalances lose or duplicate, is every submission settled, are the consumers an at-least-once queue? Is any stop request dropped unnoticed, and does each end the tasks it is about? | 2 replicas, 2 takeovers; 2 submissions (budgets 2 and 0), or 2 tasks of one job and 1 stop request, any call to ECS may fail |
| `joblifecycle_quiet` | Are retries, deaths and successes justified by what happened, however callbacks, repetitions and timed-out calls overlap, and does the retry loop run dry? | 2 sessions; 1 job with 1 retry, refused launches, 1 cancellation or 1 time-out; or 1 job with 2 retries, 1 FAILED report repeated |
| `joblifecycle_faults` | Are submissions justified when the orchestrator dies, Kafka fails, containers vanish, a call times out, curl repeats a report? | 1 user job or 1 scheduled job, 1 retry each, 1 session, 1 takeover, 1 time-out, 1 repeat per report |
| `joblifecycle_scheduled` | Does a callback create the row of a scheduled job, as documented? (no) | 1 scheduled job, no fault |
| `joblifecycle_terminal` | Are terminal states terminal, as documented? (no) | 1 cancellation |
| `scheduler_faults` | Is the lock exclusive, and what bounds duplicate fires? | 2 replicas, 4 instants, 2 faults, 2 cron expressions |
| `scheduler_live` | Is every due instant published? | 2 schedules, 1 row per tick, 1 fault |
| `catalog_races` | Do overlapping updates, drops and synchronisations leave the history sound? Has each missing or superfluous entry of Glue a cause? | 2 tables, 1 rollback; 2 sessions, 1 name, 2 columns, 3 versions; or 3 sessions, 4 names of which 2 share an entry, 1 Glue failure |
| `catalog_schema` | Is the stored schema the latest one, as documented? (no) | 1 session, no failure |
| `lineage_ingest` | Do overlapping, repeated and failing events leave exactly what was accepted, does the service implement the atomic store, are graph queries right, is every request answered? | 2 requests, 3 events of 2 runs on 3 datasets, each posted up to twice, 1 failure, depth 2 |
| `logstream_tail` | Is a tail in order and free of repetitions, and does it catch up? | 2 streams, 3 lines each, answers of 2 lines, 2 Loki ticks per timestamp, 3 ticks to a day, 1 reconnection |

Why the bounds are enough.  A lost update needs two overlapping requests; three
sessions and six requests also contain a cancel among two failures and a stale
write that sets `retry_count` back.  The life cycle needs no bound of its own:
the retry budget bounds tasks, submissions and requests; one retry already
contains a first failure, a re-enqueue, a redelivery and a death.  Two replicas
and two takeovers contain the old owner that finishes after the new one has been
given the same message.  Two faults of the scheduler contain a leaked lock whose
holder then dies.  In the catalogue two tables of one name are a table and its
successor, three versions an initial schema and two overlapping updates; three sessions
drop a table twice while its successor is created.  Two tasks, two takeovers and one stop
request contain a replica that is overtaken between two StopTask calls and dies after;
requests do not read each other, and what auto-commit does to several of them is in the
proof (§4).  In `joblifecycle_quiet` two callbacks are served at the same time, be it
those of a container and a worker, or a report and its repetition; the job whose report is
repeated has two retries, for with one retry a failure that is counted twice does not show.  In
the lineage run two events of one run are a first and a second one, in any
order; the datasets make a cycle and are locked in opposite orders.  In the log
run three lines of a stream are more than an answer holds, and two share a
timestamp.

Three runs put together what together is beyond what TLC finishes in minutes: each of
their behaviours has one kind of trouble, and TLC explores them side by side.

* `orchestrator_dispatch`: a behaviour submits `j3` and is about stopping (`Stops`), or other
  jobs and is about dispatch.  While stopping, a launch is one step (`MCLaunch`) and a
  death takes what the cancellation consumer has in hand.
* `joblifecycle_quiet`, by the action constraint `MCQuietStep`: a cancellation, time-outs, or
  repeated reports (`OneTrouble`).  It also leaves auto-commit out: no replica dies and no
  partition moves, so nothing reads what it writes.
* `catalog_races`, by the state constraint `MCModerate`: updates, of one table and its
  successor by two sessions, or all the names and sessions and a failing Glue.

`joblifecycle_faults` has a state constraint, too: a behaviour has a takeover and a
time-out, or a report that curl repeats, and uses one of the two jobs.  Crashes, failing
sends and vanishing containers are not restricted.  It has one session: what overlapping
sessions do to submissions is proved (`SubmissionsBounded`) and not run.  Jobs do not touch
each other's rows, tasks or events except through `StartedBy` (§6, 4).

Fairness.  `MCOrchestrator!MCFairSpec`: the event loops keep running their coroutines
(`WorkerStep`, `StopperStep`, weakly fair; calls that fail, `Raise`, owe nothing and may
happen any time), the group coordinator assigns a partition that has no owner, and ECS kills
a task it was told to stop.  Nothing is assumed of crashes or auto-commit, and nothing says
that spark-submit ends.  `MCJobLifecycle!MCFairSpec`:
the sessions, the workers, the cancellation consumer and the containers run; users
and fault actions owe nothing.  `MCScheduler!MCFairSpec`: `Scheduler.start` loops
for ever whatever a tick raised, so each replica's tick is weakly fair, and so is
time; publishing is strongly fair because a Kafka that is tried again on every
tick is assumed to accept a record some day.

`Lineage!FairSpec`: the event loop runs every coroutine on, and PostgreSQL
detects deadlocks (`deadlock_timeout`), so each request's next step is weakly fair;
nobody needs to send events and nothing needs to fail.  `LogStream!FairSpec`: the
generator goes on while its client is connected (`Look` weakly fair), and Loki,
asked every two seconds for ever, now and then answers instead of failing
(strongly fair); containers owe nothing.  `TimePasses` owes nothing either, and may happen
any time: a day holds as many polls as the stream needs, or too few of them succeed and
the line grows too old to be asked for.

What the runs show:

* The retry accounting survives every interleaving: overlapping FAILED callbacks
  may overwrite each other, but the counter stays within `max_retries`, never
  runs ahead of the re-enqueues, and no job dies early.  It never runs ahead of
  real failures either, except by one for each FAILED report that curl sends once
  more: the callback is not idempotent (§6, 7).
* A reader of table `jobs` may rely on `JobLedger`: a job is entered once and is never
  pending again, its counter changes only with the status QUEUED or next to another
  request's, within the re-enqueues and the budget, and DEAD means that the retries
  were spent.  It promises no more: the counter may go back, and no status is final.
* Publish-before-commit keeps "a stored status has its event" true.
* Auto-commit loses a message only with the replica that was processing it, and
  redelivery launches a job at most once more per takeover.  The consumers are an
  at-least-once queue (`DispatchQueue`): a submission is launched, dead-lettered or
  waits, and one that is lost is lost by a death and for good.
* The scheduler publishes an instant at most once plus once per fault, and a
  leaked advisory lock does not stop it: the holder can take it again.
* A stop request may be committed before its tasks are listed, move to another replica
  between two calls, or be skipped after a restart; but when it is done with, each task it
  is about was told to stop, has ended, or was spared by one of the faults `spared`
  records: a call to ECS that failed, a death that auto-commit had outrun, a group that
  restarted before its first commit.  It stops the tasks of other jobs as well (§6, 4).
* Version numbers of a schema may be shared by overlapping updates but leave no
  gap.  A table that Glue lacks was refused, rolled back, or unregistered by the drop of
  another table: one whose names yield the same entry, or its predecessor, dropped by the
  second of two requests.  An entry without a table is
  left by a refused call, a rolled-back create, the drop of a database, or a
  synchronisation that outlives the drop of a table it had selected.
* A lineage event is recorded whole or not at all, and nobody takes anything back,
  in spite of stale selects: the unit of work writes changed columns only.  What a
  run row says of start, end and job is always justified by an event of the run.
* Opposite lock orders deadlock, and every request is answered all the same.
* The log stream repeats nothing, never goes back and shows in the end the newest line,
  unless that has grown older than a day first; lines in between it skips (§6, 5).

## 4. Theorems

### `JobServiceProofs`

Proved by TLAPS for any set of jobs, sessions and callers, any `MaxRetries` in
`[Job -> 0..10]` (the range the API validates), with or without a failing Kafka
and with any number of rolled-back requests.  The only assumptions are the
`ASSUME`s of `JobTypes` and `JobService`, which TLC evaluates on every run.

* `ServiceTypeCorrect`: `ServiceSpec => []ServiceTypeOK`.
* `RetryCorrect`: `ServiceSpec => []RetryInvariant`, and from it
  `BudgetNeverExceeded`, `EveryRetryBacked` and `NoEarlyDeath`.  `RetryBacked` (a counted
  retry was re-enqueued) is a property of no run: `ImplementsLedger` implies it.

`RetryWithinBudget`, `RetryBacked` and `DeadAfterAllRetries` speak of committed
rows and are not inductive: a session may hold a row object computed long ago
and commit it now.  `RetryInvariant` therefore adds `RequestBacked` for every open
request: what it is about to store is covered by the sends made so far, or by
the send it is about to make.  A step moves one session and never takes a send
back (`SendsGrow`), so the other sessions stay covered (`BackedStaysBacked`) and
each action has only its own request or row to answer for (`OneSessionSuffices`).

* `EventsCorrect`: `ServiceSpec => []EventsInvariant`, and from it
  `NoSilentlyQueuedJob` (`QueuedHasEvents`) and `NoSilentlyCancelledJob`
  (`CancelledHasEvent`).

These, too, are about committed rows and need to know what open sessions will store.
`EventsInvariant` says so: the row a session will store has its events on the topics,
or its handler is about to send the one that is missing.  Topics only grow
(`EventsGrow`), so what a session holds stays true while the others move.

* `ServiceKeepsLedger`: `ServiceSpec => ImplementsLedger`, a refinement of `JobLedger`.

A COMMIT of `create_job` maps to `Enter`, any other COMMIT to `Store`, the send of a
retry to `Requeue`, the rest to a stutter.  A COMMIT writes what was computed from a row
that may have changed since, and `Merge` may mix the two.  `LedgerInvariant` says what
makes the result one the ledger allows: for each open request how its `new` differs from its `old`
(`RequestRecorded`: a new counter comes with QUEUED, a new QUEUED with a new counter),
that a row once selected stays, and that a job that is being created is one request's
alone, so that no COMMIT enters it twice.  The budget and the re-enqueues come from
`RetryInvariant`.

### `OrchestratorProofs`

Proved for any jobs and budgets, any finite set of replicas, any number of
rebalances, crashes, refused launches and lost answers, and any order of submissions
and cancellations, from the `ASSUME`s of `JobTypes`, `SparkTasks`,
`CancellationConsumer` and `Orchestrator`.

* `WorkersCorrect`: `OrchestratorSpec => []WInv`, where `WInv` is `OrchestratorTypeOK`
  (`OrchestratorTypeCorrect`) and `WorkersInvariant`: a busy replica has a submission in
  hand, and about to PUT an ARN it has launched it.
* `LossBounded` (`LossBoundedByCrashes`), `LaunchesBounded`
  (`LaunchesBoundedByTakeovers`) and `NeverBoth` (`NeverLaunchedAndBuried`).
* `ConsumersImplementQueue`: `OrchestratorSpec => ImplementsQueue`, a refinement of
  `DispatchQueue`.
* `StopRequestsAccounted`: `OrchestratorSpec => []StopsAccounted`.

`StepCases` sorts the steps by what they do to a submission: a worker is handed it,
goes on with it, starts it or settles it, a group step, or a step that is quiet about
submissions.  None of the properties is inductive.  `Lost` speaks of committed
offsets, and auto-commit may commit whatever was handed out: `LossInvariant` counts
`Unsettled`, up to `position`, which only a crash enlarges, by one.  A launch that is
bounded must have been allowed before: `LaunchInvariant` counts, besides the launches
of a submission, the workers that may still launch it, and against them one takeover
less as long as the submission is yet to be handed out.  Launched and
buried never meet because (`DeliveredOnce`) without a rebalance no submission is in
two hands, or in a hand after it was settled.

For the refinement the counting of `LossInvariant` does not do, since it must be known
which submission is lost, and that it stays so.  `OwnedInvariant` says that what the
owner of the partition was handed and has not committed is settled or in its hands.
Then auto-commit loses nothing (`CommitMaps`: what it commits is settled, or still
worked on), a crash loses what the replica had in hand and no more (`CrashMaps` to
`Die`).  What Kafka refused as a dead letter is dropped when it is committed or, if it
already was, when its worker is done (`Drop`).  A takeover hands out again what is not
committed, settled or not, and so takes nothing away.

`StopsAccounted` says what holds of a request that the group is past and nobody works on;
it is not inductive, because a request gets there in two ways.  Auto-commit may commit
whatever was handed out, so `StopsInvariant` adds `HandedOut`: a request that was handed
out and is not past is in the owner's hands, or settled.  And a replica may be done with
one: `ListsComplete` says that whoever has listed the tasks still has each of the request's
targets on its list, or it is accounted for.  The targets of a request are fixed when it
is sent (`born`), those that end or are told to stop stay so, and the rest of the
orchestrator launches tasks that are no targets: `Calm`.  ListTasks sees every target that
runs, whatever the tags (`ToStopCovers`).

### `JobLifecycleProofs`

Proved for any jobs, any of which may be scheduled, any finite sets of sessions and
replicas, any number of failing sends, rolled-back requests, lost or timed-out calls,
repeated reports, crashes, rebalances and vanishing containers, from the `ASSUME`s of
all the modules joined and `Callers`: everyone who may wait for a response (a task goes
by its number) is in `Caller`, as in the instances of §3.

* `LifecycleTypeCorrect` (`TypeOK`) and `ConsumersImplemented`:
  `Spec => OrchestratorSpec`.  `Submit` and `RequestStop` were the environment
  `OrchestratorProofs` assumed; job-service, users, schedules and containers do no
  more than that, so its theorems hold of the joined system.
* `WholeKeepsQueue` (`ImplementsQueue`) and `WholeAccountsStops` (`StopsAccounted`), by the latter, and `WholeKeepsLedger`
  (`ImplementsLedger`) and `WholeHasEvents` (`QueuedHasEvents`, `CancelledHasEvent`): what
  job-service was proved to promise alone it keeps with the callbacks of containers and
  workers, with callers that give up, and with schedules that fire beside it.
* `ControlCorrect`: `Spec => []ControlInv`, and from it `RetriesJustified`
  (`RetryJustified`), `DeathsJustified` (`DeadJustified`), `SubmissionsBounded`
  (`SubmissionsJustified`) and `SuccessesJustified` (`SuccessJustified`).

`StepKinds` sorts the steps by what reaches job-service: a request, a step of its own,
a schedule that fires, a status PUT that arrives or is lost, or nothing.  The
properties relate rows to failures that happened elsewhere and long before, so
`ControlInv` follows each failure on its way.  `FailuresInvariant` counts what a job
has had of its failures: the re-enqueues made, the FAILED requests not yet decided
upon, its death, and the containers that are about to report; a PUT, its repetition
or its loss never makes that more than what was reported (`Backed`), and a step of
job-service only trades one for another (`ServiceSpends`).  With `RetryInvariant`
(retries are within re-enqueues, DEAD is after `max_retries` of them) this gives the
bounds.  `AllSound` says what open requests may store: SUCCESS only for a job with a
container that succeeded, a row only where there is one already or nobody else
creates one.  It has to say, too, that a scheduled job never gets a row,
contrary to what is documented (§6, 3): its failures are not retried.

### `SchedulerProofs`

Proved for any schedules, any finite set of replicas, any cron function that moves
forward, any `LIMIT` and any bound on time and faults, from the `ASSUME` of `Scheduler`
alone.

* `SchedulerTypeCorrect`: `Spec => []TypeOK`.
* `LeaseCorrect`: `Spec => []LeaseInvariant`, and from it `LockExclusive` and
  `SingleWriter`; the inductive `Inv` is `TypeOK /\ LeaseInvariant`.

`LeaseExclusive` alone is not inductive, and neither are the types: `Unlock`
subtracts from a counter.  `LeaseInvariant` adds that a tick past `TryLock` whose
connection lives holds the lock, that only such a tick has uncommitted updates,
and that the row it is about to update is one it selected.  Every action moves
one tick and its lease, so all of them go through `OneTickMoves`.

* `DuplicatesBounded`: `Spec => []DuplicatesBoundedByFaults`, from the inductive
  `FInv`, which adds `FireInvariant`.

How often an instant was published says nothing of how often it still may be.
`FireInvariant` therefore counts, for each instant, its publications together with the
ticks that have selected it and may still publish it (`Claimants`), and one more while
the instant is yet to come, or is the `next_run_at` of a row no living tick works on
(`Free`): these are at most one more than the faults.  A tick that selects the row turns
`Free` into a claim, publishing spends the claim, and from the COMMIT on the row names
another instant, one that nobody has published (`WrittenNew`), since all that was
claimed or published is past (`Past`).  Only a fault, which leaves the row as it was for
the next tick, makes an instant free once more.
The counting is done on finite sets, hence the finite set of replicas.

### `CatalogProofs`

Proved for any databases, names, columns, requests and sessions, any naming of the
entries in Glue and any number of failures, from the `ASSUME` of `Catalog` alone.

* `CatalogCorrect`: `Spec => []CatalogInvariant`, and from it `VersionsCorrect`
  (`VersionsContiguous`) and `SchemaCorrect` (`SchemaRecorded`).

An update counts the versions first and stores its own later, perhaps after others
have; both properties therefore need what `WorkSound` says of open requests: an
update of a live table holds a number that follows one the table has (numbers are
only added while it lives), and one that has flushed a schema has a change to
record.  Rows that are not committed belong to one request (`Creates`), so nobody
else works on them when they go.

* `CatalogTypeCorrect`: `Spec => []TypeOK`.

The one operation whose result has no type at a glance is the list that is left after a
column was dropped, `Without`, a recursive function.  That such a function exists is
`RecursionExists` of `Induction`; that each of its values is a sequence of columns
follows by `SetInduction`.

* `SuperfluousCorrect`: `Spec => []SuperfluousEntriesAccounted`.
* `MissingCorrect`: `Spec => []MissingEntriesAccounted`.

Both speak of tables without an open request, but Glue is called while requests are
open.  `Standing` says when Glue should have the entry of a table: from the call of its
creator on until the call of its drop, whatever is committed when.  The inductive `Mirror`
says that the entries of Glue that are not stray stand, and that those that stand are
there or lost.  An unregistration goes by name: that what it takes from
another table is lost rests on `Taken`, which sees every row that is not dropped, and so
each that stands.

### `LineageProofs`

Proved for any events, runs, datasets and requests, and any bounds on deliveries
and failures, from the `ASSUME`s of `LineageEvents` and `Lineage`.

* `LineageTypeCorrect`: `Spec => []TypeOK`.
* `IngestCorrect`: `Spec => []IngestInvariant`, and from it `RecordCorrect`
  (`RecordedIffAccepted`) and `RunTimesCorrect` (`RunTimesJustified`).
* `StoreImplemented`: `Spec => Store!Spec`, a refinement: `Commit(q)` maps to
  `Accept` of its event, every other step to a stutter.

`RunTimesJustified` is about committed rows, and a transaction commits a row it
computed from one it selected earlier.  `IngestInvariant` therefore adds, for each
open transaction, that what it selected is still true of the accepted events of
its run (`SeenStillTrue`: accepted events only grow), and that the row it will
commit tells of them and of its own event (`TellsOfOwn`).  The latter would break
when another transaction commits the same run in between, which `RunLockExclusive`
excludes: both would hold the row.  `RecordedIffAccepted` and the refinement need in
addition that `done` has reached the end of the event's datasets at `Commit`.

* `GraphCorrect`: `Spec => []GraphIsShortestChain`: for any events accepted so far, any
  root and any depth, the recursive query answers exactly the datasets that a chain of
  accepted events leads to within the depth, each with the length of a shortest chain.

The query adds one level after the other (`Levels`, a recursive function).
`LevelsArePaths` says that level `n` holds the ends of the paths of `n` hops, by
induction over `n`; `JoinIsFed` that a hop of the joined edge tables is an accepted
event that read the one dataset and wrote the other, which `RecordedIffAccepted` gives;
`PathReverse` turns a path around for the downstream direction.

### `LogStreamProofs`

Proved for any finite set of streams, any resolution of the timestamps, any `Limit` and
any number of connections, from the `ASSUME` of `LogStream` alone.

* `StreamTypeCorrect` (`TypeOK`) and `ShownOrdered` (`ShownInOrder`), from
  `Spec => []IInv`: the cursor has passed all that was shown.

### Limits

Out of the prover's reach and left to TLC: the liveness properties
(`EverySubmissionSettled`, `EveryStopRequestObeyed`, `EventuallyQuiet`,
`EveryDueInstantFires`, `EveryRequestAnswered`, `EventuallyCurrent`), which need
fairness and ENABLED.  Every other property of a run that is not refuted is a theorem.

The induction theorems of the library take an operator, which no backend can
instantiate.  `Induction` states what was needed with sets and functions in its place:
`SetInduction` (a set of numbers that has 0 and each successor has all) and
`RecursionExists` (a function may be defined from each value to the next), both from
`WFMin`.  They serve the depth of the graph query and the filter of dropped columns.

## 5. What is abstracted or not modelled

* `JobTypes!Callback` are the statuses that orchestrator and containers PUT.  The route
  accepts any `JobStatus`, but no component of `src/` PUTs `PENDING`, `QUEUED`, `CANCELLED`
  or `DEAD`, and what the models say assumes that nobody else calls the route.
* `Scheduler` has one clock: the database's `NOW()` (`scheduler.py:141`) and the replica's
  `datetime.now` (`scheduler.py:192`) do not differ.
* In `LogStream` a line reaches Loki within the day it is from, and time stands still
  while an answer is built.
* Back-off times, the 30 s time-outs as durations, the size of the pool.
* More than one partition of the topic; the order between partitions.
* The columns no code reads again: names, timestamps, `container_id`, messages.
* `POST /schedules/{id}/trigger` (it is `create_job` plus a stamp), names of
  schedules, PATCH split between its SELECT and its flush, and the time zone as a
  column apart from the cron expression.
* In metadata-service: properties, descriptions, column types, gauges, snapshots
  and reads; a request adds, drops and renames at most one column each.
* In lineage-service: names of jobs and datasets, the values of facets, and
  `runs_for_dhp_job`, a plain SELECT.
* In log-service: the one-shot GET, which returns what `query_logs` returns; labels,
  levels and the shape of a line.
* storage-service (one S3 call per route, no state), rate limiting and keys, metrics
  exposition, infrastructure.

## 6. Divergences found

Each of the first three has a run that TLC must refute.

1. `joblifecycle_terminal`: `update_job_status` overwrites terminal states
   (`job_service.py:222` against `docs/architecture.md:99`).
2. `catalog_schema`: an update that only adds or renames columns is recorded in
   `schema_history` and not stored in `schema_json`, because of a shallow copy
   (`metadata_service.py:320` against `docs/architecture.md:120`).
3. `joblifecycle_scheduled`: no row is ever created for a scheduled job; its callbacks
   answer 404 (`job_service.py:219` against `scheduler.py:14`: "created lazily by the job's
   ECS callback path").  That its failures are never retried follows from it.
The modules also state the following claims, which the same models refute;
naming one as the INVARIANT (or PROPERTY) of the given configuration shows it.

4. `OnlyCancelledJobsStopped` (`MCOrchestrator_dispatch.cfg` with `MCRequestStop(j1)` added
   to `MCStopping`): tasks are listed by eight characters of the id (`ecs_manager.py:195`
   against its docstring, `:125`: "tagged with job-id=<job_id>"), so the tasks of another
   job may be stopped.
5. `NoLineLeftOut` (`MCLogStream_tail.cfg` with `Resolution = 1`): the cursor jumps to the
   newest line of an answer, so lines are skipped whenever a stream gained two between two
   polls (`logs.py:74` against `:58`: "real-time log tailing").
6. `CrashedMessagesReplayed` (`MCOrchestrator_dispatch.cfg`): a message committed
   while it is processed is lost with its replica (`consumer.py:44` against
   `docs/disaster-recovery.md:32`).
7. `RetryJustified` with `failures` in place of `Reported`
   (`MCJobLifecycle_quiet.cfg`): a FAILED report that curl repeats spends two
   retries (`entrypoint.sh:131`).
8. `NextRunMatchesCron` (`MCScheduler_faults.cfg`): a tick overwrites the
   `next_run_at` of a PATCH with one from the old cron (`scheduler.py:193` against
   `schedules.py:131`).
9. `ContainerHasLastWord` (`MCJobLifecycle_terminal.cfg`): the second PROVISIONING
   PUT (`consumer.py:99`) may be served last, and stays.
10. `DeadLettersArePermanent` (`MCJobLifecycle_quiet.cfg`): FAILED is PUT before
   the dead letter (`consumer.py:124`), so the job is re-enqueued and may run.
11. `OnlyFailedLaunchesBuried` (`MCOrchestrator_dispatch.cfg` with
   `EcsMayRefuse = FALSE`): `max_retries = 0` means no launch at all
   (`consumer.py:91`).
12. `OneReplicaFires` (`MCScheduler_faults.cfg`): a replica that lost its
    connection goes on publishing until its next statement (`scheduler.py:178`).
13. `ActiveGaugeExact` (`MCJobService_races.cfg`): cancel never decrements
    `JOBS_ACTIVE`, terminal callbacks may do so twice (`metrics.py:36`).
14. `GlueMirrorsCatalog` (`MCCatalog_schema.cfg`): `drop_database` does not tell
    Glue (`metadata_service.py:141` against `docs/architecture.md:122`).
15. `VersionsDistinct` (`MCCatalog_races.cfg`): overlapping updates that drop no
    column hold no lock while they count, and share a number
    (`metadata_service.py:360`).
16. Names with two underscores collide in Glue (`metadata_service.py:214`): the drop of
    the one table unregisters the other.  `MissingEntriesAccounted` counts it as a cause
    (`Taken`); without it `catalog_races` is refuted, nor is `GlueMirrorsCatalog` true.
17. `SecondEventUpdates` (`MCLineage_ingest.cfg`): when the first two events of a run
    overlap, the second one is answered 500 for its duplicate key instead of updating
    the row (`lineage_service.py:77` against `:3-8`).
18. `RunFacetsMerged` (`MCLineage_ingest.cfg` with a third event of one run): of two
    overlapping events the facets of one are lost (`lineage_service.py:73`).
19. `GraphRoutesAnswer` (`MCLineage_ingest.cfg`): `/datasets/{namespace}/{name:path}` is
    registered first and takes `/upstream` and `/downstream` for a part of the name, so
    the graph routes answer 404 for ever (`routers/lineage.py:63` against
    `README.md:161`, `docs/runbook.md:426`, `docs/api-spec.yaml:504`).
20. `NewestLineShown` with `Lines` in place of `Recent` (`MCLogStream_tail.cfg`, as
    `EventuallyCurrent`): a stream that is opened more than 24 hours after a job's last
    line never shows it (`loki_client.py:40-43`).

Met while translating, and not a matter of behaviour: the lineage documents leave
out the router's `/lineage` prefix; `docs/architecture.md:147` gives the default
depth as 10, the code as 5; `docs/architecture.md:140` says that the job id comes
from the `custom_environment_variables` facet, where `_extract_dhp_job_id` does not
look; `query_logs` swallows every error, so the error branch of the log routes is
never taken.

## 7. State of the plan

Done: the job control plane (`JobService`, `Orchestrator`, `SparkTasks`, their
composition), `Scheduler`, `Catalog`, `Lineage`, `LogStream`, the abstract store, ledger
and queue with the proofs that they are implemented, and the theorems of §4.

Left open:

1. `Scheduler`: PATCH split at its SELECT and the time zone as its own column, for the
   race of two PATCHes (`schedules.py:133`); `POST /schedules/{id}/trigger`.
2. The composition of `Scheduler` with `JobLifecycle`, which knows a schedule only by
   `FireSchedule`.
