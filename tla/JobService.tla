----------------------------- MODULE JobService -----------------------------
(***************************************************************************)
(* job-service: JobService of app/services/job_service.py behind the       *)
(* routes of app/routers/jobs.py.                                          *)
(*                                                                         *)
(* Every request runs on a database session of its own (get_db) and yields *)
(* the event loop at each await, so requests interleave at: the SELECT,    *)
(* the Kafka send, and the COMMIT that get_db issues after the handler     *)
(* returned.  The SELECT takes no lock (READ COMMITTED), so what a handler *)
(* writes is computed from the row as it was when the handler read it.     *)
(***************************************************************************)
EXTENDS JobTypes, Integers, FiniteSets

CONSTANTS
  Handler,        \* database sessions of the pool: requests served at once
  Caller,         \* who may be waiting for a response
  MaxAborts       \* bound on requests that fail (database error, restart)

ASSUME JobServiceAssumption ==
  /\ IsFiniteSet(Handler)
  /\ MaxAborts \in Nat

VARIABLES
  row,        \* committed rows of table jobs
  handler,    \* the request each session is serving
  active,     \* the JOBS_ACTIVE gauge, summed over the replicas
  requeues,   \* history: re-enqueues attempted for each job
  aborts      \* history: requests that failed

apiVars == <<row, handler, active, requeues, aborts>>
serviceVars == <<submissions, cancellations, apiVars>>

-----------------------------------------------------------------------------
\* A row: the status and the retry counter decide everything below; names,
\* timestamps, container_id and error_message are never read by the service.
NoRow == [status |-> "none", retry |-> 0]
Row == [status: JobStatus \cup {"none"}, retry: Nat]

Idle == [pc |-> "idle"]

\* old: the row as selected.  new: the ORM object the handler will flush.
Request == [pc: {"select", "send", "commit"},
            op: {"create", "update", "cancel"},
            job: Job, from: Caller, status: JobStatus,
            old: Row, new: Row]

ServiceTypeOK ==
  /\ TopicsTypeOK
  /\ row \in [Job -> Row]
  /\ handler \in [Handler -> Request \cup {Idle}]
  /\ active \in Int
  /\ requeues \in [Job -> Nat]
  /\ aborts \in 0..MaxAborts

Busy(h) == handler[h] # Idle

ServiceInit ==
  /\ TopicsInit
  /\ row = [j \in Job |-> NoRow]
  /\ handler = [h \in Handler |-> Idle]
  /\ active = 0
  /\ requeues = [j \in Job |-> 0]
  /\ aborts = 0

-----------------------------------------------------------------------------
(* Requests arrive. *)

Accept(h, op, j, c, pc, st, new) ==
  /\ handler[h] = Idle
  /\ handler' = [handler EXCEPT ![h] =
       [pc |-> pc, op |-> op, job |-> j, from |-> c, status |-> st,
        old |-> NoRow, new |-> new]]
  /\ UNCHANGED <<submissions, cancellations, row, active, requeues, aborts>>

\* uuid4: no row, no record on the topic and no open request has the id.
Fresh(j) ==
  /\ row[j] = NoRow
  /\ \A i \in 1..Len(submissions) : submissions[i] # j
  /\ \A h \in Handler : Busy(h) => handler[h].job # j

\* Mutant: the row is stored as QUEUED, the event never published.
ReceiveCreateUnpublished(h, j, c) ==
  /\ Fresh(j)
  /\ Accept(h, "create", j, c, "commit", "PENDING",
            [status |-> "QUEUED", retry |-> 0])

\* POST /jobs: INSERT as PENDING and flush, visible to nobody until COMMIT.
ReceiveCreate(h, j, c) ==
  /\ Fresh(j)
  /\ Accept(h, "create", j, c, "send", "PENDING",
            [status |-> "PENDING", retry |-> 0])

\* PUT /jobs/{id}/status
ReceiveUpdate(h, j, st, c) == Accept(h, "update", j, c, "select", st, NoRow)

\* DELETE /jobs/{id}
ReceiveCancel(h, j, c) ==
  Accept(h, "cancel", j, c, "select", "CANCELLED", NoRow)

-----------------------------------------------------------------------------
(* update_job_status *)

\* Mutant: one retry too few.
MayRetryOnceLess(j, old, st) == st = "FAILED" /\ old.retry + 1 < MaxRetries[j]

MayRetry(j, old, st) == st = "FAILED" /\ old.retry < MaxRetries[j]

\* Mutant: a status outside the enum.
UpdatedUnknownStatus(j, old, st) ==
  IF MayRetry(j, old, st) THEN [status |-> "RETRYING", retry |-> old.retry + 1]
  ELSE [old EXCEPT !.status = IF st = "FAILED" THEN "DEAD" ELSE st]

\* Mutant: only a run that failed is counted, not a launch that did.
UpdatedCountsRuns(j, old, st) ==
  IF MayRetry(j, old, st)
  THEN [status |-> "QUEUED",
        retry |-> IF old.status = "RUNNING" THEN old.retry + 1 ELSE old.retry]
  ELSE [old EXCEPT !.status = IF st = "FAILED" THEN "DEAD" ELSE st]

\* The row object after the assignments that precede the flush: the update's
\* status is stored whatever the row held.
Updated(j, old, st) ==
  IF MayRetry(j, old, st) THEN [status |-> "QUEUED", retry |-> old.retry + 1]
  ELSE [old EXCEPT !.status = IF st = "FAILED" THEN "DEAD" ELSE st]

\* JOBS_ACTIVE.dec() on SUCCESS, FAILED, CANCELLED, DEAD; inc() on a retry.
ActiveDelta(j, old, st) ==
  IF st \in Terminal \cup {"FAILED"} /\ ~MayRetry(j, old, st) THEN -1 ELSE 0

Continue(h, pc, old, new) ==
  handler' = [handler EXCEPT ![h] =
    [handler[h] EXCEPT !.pc = pc, !.old = old, !.new = new]]

Reply(h) == handler' = [handler EXCEPT ![h] = Idle]

SelectForUpdate(h) ==
  /\ Busy(h) /\ handler[h].pc = "select" /\ handler[h].op = "update"
  /\ LET j   == handler[h].job
         st  == handler[h].status
         old == row[j]
     IN \/ /\ old = NoRow                                 \* 404
           /\ Reply(h)
           /\ UNCHANGED active
        \/ /\ old # NoRow
           /\ Continue(h, IF MayRetry(j, old, st) THEN "send" ELSE "commit",
                       old, Updated(j, old, st))
           /\ active' = active + ActiveDelta(j, old, st)
  /\ UNCHANGED <<submissions, cancellations, row, requeues, aborts>>

(* cancel_job *)

\* Mutant: CANCELLED is stored without telling the orchestrator.
SelectForCancelSilently(h) ==
  /\ Busy(h) /\ handler[h].pc = "select" /\ handler[h].op = "cancel"
  /\ LET old == row[handler[h].job]
     IN \/ /\ old = NoRow \/ old.status \in Terminal
           /\ Reply(h)
        \/ /\ old # NoRow /\ old.status \notin Terminal
           /\ Continue(h, "commit", old, [old EXCEPT !.status = "CANCELLED"])
  /\ UNCHANGED <<submissions, cancellations, row, active, requeues, aborts>>

SelectForCancel(h) ==
  /\ Busy(h) /\ handler[h].pc = "select" /\ handler[h].op = "cancel"
  /\ LET old == row[handler[h].job]
     IN \/ /\ old = NoRow \/ old.status \in Terminal      \* 404, or no-op
           /\ Reply(h)
        \/ /\ old # NoRow /\ old.status \notin Terminal
           /\ Continue(h, "send", old, [old EXCEPT !.status = "CANCELLED"])
  /\ UNCHANGED <<submissions, cancellations, row, active, requeues, aborts>>

-----------------------------------------------------------------------------
(* send_job_event *)

\* create_job: QUEUED when the send returned, PENDING when it raised.
SendCreate(h) ==
  /\ Busy(h) /\ handler[h].pc = "send" /\ handler[h].op = "create"
  /\ \/ /\ submissions' = Append(submissions, handler[h].job)
        /\ Continue(h, "commit", NoRow, [status |-> "QUEUED", retry |-> 0])
        /\ active' = active + 1
     \/ /\ KafkaMayFail
        /\ SendTo(submissions, handler[h].job)
        /\ Continue(h, "commit", NoRow, handler[h].new)
        /\ UNCHANGED active
  /\ UNCHANGED <<cancellations, row, requeues, aborts>>

\* Mutant: the send is repeated although the broker has the record.
SendRetryTwice(h) ==
  /\ Busy(h) /\ handler[h].pc = "send" /\ handler[h].op = "update"
  /\ submissions' = submissions \o <<handler[h].job, handler[h].job>>
  /\ Continue(h, "commit", handler[h].old, handler[h].new)
  /\ requeues' = [requeues EXCEPT ![handler[h].job] = @ + 1]
  /\ UNCHANGED <<cancellations, row, active, aborts>>

\* The re-enqueue of a retry: an exception is logged and forgotten.
SendRetry(h) ==
  /\ Busy(h) /\ handler[h].pc = "send" /\ handler[h].op = "update"
  /\ SendTo(submissions, handler[h].job)
  /\ Continue(h, "commit", handler[h].old, handler[h].new)
  /\ requeues' = [requeues EXCEPT ![handler[h].job] = @ + 1]
  /\ UNCHANGED <<cancellations, row, active, aborts>>

\* The cancel event: an exception is logged and forgotten here too.
SendCancel(h) ==
  /\ Busy(h) /\ handler[h].pc = "send" /\ handler[h].op = "cancel"
  /\ SendTo(cancellations, handler[h].job)
  /\ Continue(h, "commit", handler[h].old, handler[h].new)
  /\ UNCHANGED <<submissions, row, active, requeues, aborts>>

-----------------------------------------------------------------------------
(* flush and COMMIT.  The unit of work emits only the columns whose value   *)
(* differs from the one loaded, so another handler's commit in between is   *)
(* overwritten in those columns and kept in the others.                     *)

\* Mutant: SET retry_count = retry_count + 1, each increment kept.
MergeIncrements(current, old, new) ==
  [status |-> IF new.status # old.status THEN new.status ELSE current.status,
   retry  |-> current.retry + (new.retry - old.retry)]

Merge(current, old, new) ==
  [status |-> IF new.status # old.status THEN new.status ELSE current.status,
   retry  |-> IF new.retry # old.retry THEN new.retry ELSE current.retry]

Commit(h) ==
  /\ Busy(h) /\ handler[h].pc = "commit"
  /\ row' = [row EXCEPT ![handler[h].job] =
               Merge(@, handler[h].old, handler[h].new)]
  /\ Reply(h)
  /\ UNCHANGED <<submissions, cancellations, active, requeues, aborts>>

\* The request fails at an await and is rolled back; what it already sent to
\* Kafka, and what it added to the gauge, stays.
Abort(h) ==
  /\ aborts < MaxAborts
  /\ Busy(h)
  /\ Reply(h)
  /\ aborts' = aborts + 1
  /\ UNCHANGED <<submissions, cancellations, row, active, requeues>>

-----------------------------------------------------------------------------
HandlerStep(h) ==
  \/ SelectForUpdate(h) \/ SelectForCancel(h)
  \/ SendCreate(h) \/ SendRetry(h) \/ SendCancel(h)
  \/ Commit(h)

Receive(h) ==
  \E j \in Job, c \in Caller :
    \/ ReceiveCreate(h, j, c)
    \/ ReceiveCancel(h, j, c)
    \/ \E st \in Callback : ReceiveUpdate(h, j, st, c)

ServiceNext == \E h \in Handler : Receive(h) \/ HandlerStep(h) \/ Abort(h)

ServiceSpec == ServiceInit /\ [][ServiceNext]_serviceVars

-----------------------------------------------------------------------------
(* Properties *)

\* update_job_status: however many FAILED callbacks overlap, each computing
\* retry_count from a row another one is about to change, the counter never
\* passes max_retries.
RetryWithinBudget == \A j \in Job : row[j].retry <= MaxRetries[j]

\* A retry is counted only after its re-enqueue was attempted: retry_count is
\* at most the number of sends, in every interleaving of read, send and COMMIT.
\* (The converse fails: overlapping handlers can write the same value twice.)
RetryBacked == \A j \in Job : row[j].retry <= requeues[j]

\* A job is declared DEAD only after max_retries re-enqueues were attempted,
\* although the counter in the row may have been set back by a stale write.
DeadAfterAllRetries ==
  \A j \in Job : row[j].status = "DEAD" => requeues[j] >= MaxRetries[j]

\* The promise to whoever reads table jobs, through every overlap of reads, sends
\* and COMMITs that write back what another request has replaced.
Ledger == INSTANCE JobLedger

ImplementsLedger == Ledger!Spec

\* What a request in progress owes to the three: the row it will store is
\* covered by the sends made so far, or by the one it is about to make.
RequestBacked(q) ==
  LET max == MaxRetries[q.job]
      covered(r) == /\ r.retry <= requeues[q.job] /\ r.retry <= max
                    /\ r.status = "DEAD" => requeues[q.job] >= max
  IN /\ q.op = "update" => q.status \in Callback
     /\ q.op = "create" => q.pc # "select"
     /\ q.pc = "send" /\ q.op = "update" =>
          /\ q.old.retry < max /\ q.old.retry <= requeues[q.job]
          /\ q.new = [status |-> "QUEUED", retry |-> q.old.retry + 1]
     /\ q.pc = "commit" \/ (q.pc = "send" /\ q.op # "update") => covered(q.new)

\* The invariant that is inductive: a stale row object in some session is what
\* could break the three properties, so it speaks of the sessions too.
RetryInvariant ==
  /\ RetryWithinBudget
  /\ RetryBacked
  /\ DeadAfterAllRetries
  /\ \A h \in Handler : Busy(h) => RequestBacked(handler[h])

\* What the request in session q owes to the table: a new job is entered by one
\* request and is nobody else's until then, a selected row stays, and the object
\* to store differs from the one selected as a retry or a callback makes it.
RequestRecorded(q) ==
  /\ q.op = "create" =>
       /\ row[q.job] = NoRow /\ q.old = NoRow
       /\ q.new.status \in {"PENDING", "QUEUED"} /\ q.new.retry = 0
  /\ q.op # "create" /\ q.pc # "select" =>
       /\ row[q.job] # NoRow
       /\ q.new.status \in {q.old.status} \cup Ledger!Later
       /\ q.new.retry # q.old.retry =>
            q.new.retry = q.old.retry + 1 /\ q.new.status = "QUEUED"
       /\ q.new.status = "QUEUED" /\ q.old.status # "QUEUED" =>
            q.new.retry # q.old.retry

LedgerInvariant ==
  /\ \A h \in Handler : Busy(h) => RequestRecorded(handler[h])
  /\ \A g, h \in Handler :
       /\ Busy(g) /\ handler[g].op = "create"
       /\ Busy(h) /\ handler[h].op = "create"
       /\ handler[g].job = handler[h].job
       => g = h

Submitted(j) == {i \in 1..Len(submissions) : submissions[i] = j}

\* Publish before COMMIT: with a healthy Kafka, a stored QUEUED status or a
\* stored retry always has its event on the topic, so nothing that reads the
\* row can see a queued job the orchestrator will never hear of.
QueuedHasEvents ==
  ~KafkaMayFail =>
    \A j \in Job :
      row[j] # NoRow => Cardinality(Submitted(j)) >= 1 + row[j].retry

\* The same for cancellation: a stored CANCELLED has its stop request on the
\* status topic, whatever callback ran between the SELECT and the COMMIT.
CancelledHasEvent ==
  ~KafkaMayFail =>
    \A j \in Job : row[j].status = "CANCELLED" =>
      \E i \in 1..Len(cancellations) : cancellations[i] = j

\* What makes it so is, again, about the sessions: the row that one of them will
\* store has its events on the topics, or its handler is about to send the one
\* that is missing.
EventsOnTopic(q) ==
  LET sent == Cardinality(Submitted(q.job))
  IN /\ q.pc = "send" /\ q.op = "update" => sent >= 1 + q.old.retry
     /\ q.pc = "commit" \/ (q.pc = "send" /\ q.op = "cancel") => sent >= 1 + q.new.retry
     /\ q.pc = "commit" /\ q.new.status = "CANCELLED" =>
          \E i \in 1..Len(cancellations) : cancellations[i] = q.job

EventsInvariant ==
  /\ QueuedHasEvents
  /\ CancelledHasEvent
  /\ ~KafkaMayFail => \A h \in Handler : Busy(h) => EventsOnTopic(handler[h])

\* metrics.py on JOBS_ACTIVE: "Jobs currently in non-terminal states".
\* Read while no request is in flight.
ActiveGaugeExact ==
  (\A h \in Handler : ~Busy(h)) =>
    active = Cardinality({j \in Job : row[j] # NoRow
                                        /\ row[j].status \notin Terminal})

=============================================================================
